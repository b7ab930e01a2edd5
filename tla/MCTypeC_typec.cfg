SPECIFICATION Spec
CONSTANTS RdPasses = 2  RpPasses = 2  Detections = 2  GiveUpPasses = 1  Tries = 2
PROPERTIES Implements StayersFound GivenUp
