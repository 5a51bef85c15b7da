-------------------------------- MODULE Quota --------------------------------
(***************************************************************************)
(* The arithmetic of the quota: enforce_quota and record_usage_delta of    *)
(* mcpfiles/workspace.py.  The soft limit only logs and is left out.       *)
(***************************************************************************)
EXTENDS Integers

CONSTANTS
  HardLimit,  \* quota.hard_limit_bytes
  NoLimit     \* HardLimit when the configuration gives none

\* QuotaConfig.validate_hard_limit accepts None and positive numbers.
ASSUME HardLimitAssumption == HardLimit = NoLimit \/ HardLimit \in Nat \ {0}

\* Mutant: without max(0, ...).
Unclamped(n) == n

\* max(0, n)
AtLeastZero(n) == IF n < 0 THEN 0 ELSE n

\* Mutant: the limit is compared with the usage before the change.
FitsBefore(n, d) == HardLimit = NoLimit \/ n <= HardLimit

\* enforce_quota lets a change of d bytes pass when n bytes are in use.
Fits(n, d) == HardLimit = NoLimit \/ AtLeastZero(n + d) <= HardLimit
=============================================================================
