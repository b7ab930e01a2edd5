SPECIFICATION Spec
CONSTANTS
  PageCount = 2
  PageSize = 2
  PageSeqMod = 4
  IdMod = 16
  Kinds <- TwoKinds
  Window = 1
  OldLogs = {1}
  Worn = {1, 2}
  MaxIssue = 6
  MaxResets = 2
INVARIANTS LogGrows RecyclesOldest EventsCount
CHECK_DEADLOCK FALSE
