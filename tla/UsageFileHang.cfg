\* Two overlapping calls, no crash: one reads usage.json while the other rewrites it.
CONSTANTS
  Procs = {p1, p2}
  NoProc = NoProc
  Deltas <- MCDeltas
  HardLimit = 105
  NoLimit = NoLimit
  InitialBytes = 0
  HasFlock = TRUE
  MaxCalls = 2
  MaxCrashes = 0
SPECIFICATION FairSpec
PROPERTY RecalculationCompletes
CHECK_DEADLOCK FALSE
