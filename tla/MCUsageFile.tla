----------------------------- MODULE MCUsageFile -----------------------------
(***************************************************************************)
(* Values of UsageFile's constants for TLC.                                *)
(***************************************************************************)
EXTENDS UsageFile, TLC

\* One file of 5 bytes, one of 100: used_bytes then has texts of one, two and three
\* digits, so that a short text can be laid over a longer one in both harmless and
\* harmful ways.
MCDeltas == {5, 100, -5}

\* Two writes of this size pass the limit one by one and break it together.
MCLargeDeltas == {60, -60}

Symmetry == Permutations(Procs)
=============================================================================
