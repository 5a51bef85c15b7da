------------------------------- MODULE MCServer -------------------------------
(***************************************************************************)
(* What the operator may save in the small instances of Server.            *)
(***************************************************************************)
EXTENDS Server, MCConfigFile

CONSTANT bad

\* The log files of the process and of k1 cannot be opened.
MCBadLog == [MCFirst EXCEPT !.override[k1] = On(bad), !.logging = On(bad)]

MCBadKeyLog == [MCFirst EXCEPT !.override[k1] = On(bad)]

MCReloadEdits == {MCSecond, MCRevoked, MCNoKeys, MCNoRoot, MCLocal, MCBadLog, MCBadKeyLog, Broken}

\* A token in each place, one behind an empty one, two that differ, and none.
MCCredentials ==
  LET C(b, h, q) == [bearer |-> b, header |-> h, query |-> q]
  IN {C(s1, NoSecret, NoSecret), C(NoSecret, s2, s1), C(NoSecret, NoSecret, s1),
      C(NoSecret, NoSecret, NoSecret)} \cup {C(w, NoSecret, s1) : w \in Writers}
=============================================================================
