----------------------------- MODULE UsageLedger -----------------------------
(***************************************************************************)
(* What the accounting of one workspace promises, free of files and locks: *)
(* a number of used bytes, changed by one call at a time.  A call is       *)
(* admitted with the change it is about to make to the stored bytes, and   *)
(* the change is later settled exactly once, or dropped when the call      *)
(* fails before it touches the files.  UsageFile implements this whenever  *)
(* calls do not overlap and nothing crashes.                               *)
(***************************************************************************)
EXTENDS Quota

CONSTANTS
  Procs,   \* the threads and processes that execute tool calls
  Deltas   \* the changes in stored bytes a call may make

VARIABLES
  used,  \* used_bytes
  held   \* the admitted calls that are not settled yet

ledgerVars == <<used, held>>

Claim == [proc : Procs, delta : Deltas]

LedgerTypeOK == used \in Nat /\ held \subseteq Claim

Init == used = 0 /\ held = {}

\* A write or a patch entry is admitted by enforce_quota; a deletion asks no one.
Admit(p, d) ==
  /\ held = {}
  /\ d < 0 \/ Fits(used, d)
  /\ held' = {[proc |-> p, delta |-> d]}
  /\ UNCHANGED used

\* record_usage_delta, whole
Settle(h) ==
  /\ used' = AtLeastZero(used + h.delta)
  /\ held' = held \ {h}

\* the call fails before the files change
Drop(h) ==
  /\ held' = held \ {h}
  /\ UNCHANGED used

Next ==
  \/ \E p \in Procs, d \in Deltas : Admit(p, d)
  \/ \E h \in held : Settle(h) \/ Drop(h)

Spec == Init /\ [][Next]_ledgerVars
=============================================================================
