\* Three calls, two at a time.
\* Calls are bounded: the system stops when they are used up.
CONSTANTS
  Procs = {p1, p2}
  Calls <- MCCalls
  InitialFiles <- MCInitialFiles
  MaxCalls = 3
SPECIFICATION Spec
INVARIANT TypeOK
INVARIANT LonersAreExact
INVARIANT DeletersNeverOvercredit
SYMMETRY Symmetry
CHECK_DEADLOCK FALSE
