SPECIFICATION Spec
CONSTANTS
  Misses = 3
  TopVolt = 3  NineVolt = 2
  Volts = {"5V", "9V", "pps"}  Drops = {0, 20, 40}
  ChargeLimits <- MCLimits
  OcpLock = 2  LowCount = 2  SoftCount = 2
  Full = 3  Unit = 2  Byte = 8  Slow = 3  Above = 2  Fast = 1  Up = 2  EmptyTicks = 2  Ends = {0, 1}
  Live = {"isns_ocp", "pout_opp"}  Suspect = 2  Consec = 2  Over <- MCOver  Reco <- MCReco
  Beats = 2  Cycles = 2  Zero = 1  Steps = 1  FlashIn = 1  FlashOut = 1  FlashCal = 1
  ClickMin = 1  ClickMax = 12  Gap = 12  Long = 22  Restart = 26  Period = 8
INVARIANTS Typed BusFollows Regulated 
PROPERTIES WakesRight QcFound Settles ActsForAReason Shown
