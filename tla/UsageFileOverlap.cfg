\* Two processes under flock, one crash.
\* A thread that finds usage.json corrupt waits for itself: the system really may stop.
CONSTANTS
  Procs = {p1, p2}
  NoProc = NoProc
  Deltas <- MCDeltas
  HardLimit = 105
  NoLimit = NoLimit
  InitialBytes = 0
  HasFlock = TRUE
  MaxCalls = 3
  MaxCrashes = 1
SPECIFICATION FairSpec
INVARIANT TypeOK
INVARIANT LedgerExact
INVARIANT QuotaHolds
INVARIANT NeverOvercharged
INVARIANT CorruptOnlyAfterOverlapOrCrash
PROPERTY ImplementsLedger
PROPERTY OnlyCorruptionHangs
CHECK_DEADLOCK FALSE
