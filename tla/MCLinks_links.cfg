SPECIFICATION LinksSpec
CONSTANTS
  Soc <- MCSoc  Delay = 2  Key = TRUE
  Packets <- MCPackets  Preambles = {8, 11, 25}  Deltas <- MCDeltas  Noise <- MCNoise
  Wants <- MCWants  Losses <- MCLosses
  Pages = 2  PageSize = 2  Telemetry = 1  Rounds = 2  Scenes <- MCScenes  Failures = 1
  Bits = 2  Bytes <- MCBytes  MaxLen = 2
  RETRY_COUNT = 3  Chunk = 2  Digest = 1  Header = 2  Manu = 1  Prod = 2
  LongWait = 2  ShortWait = 1  Stuck = 2  Lapse = 1  Actors = {"reset"}
INVARIANTS Heard 
PROPERTIES NoPingUnderStop SocLockLeaks  Answers Offered EndGetsThrough
