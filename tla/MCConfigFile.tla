----------------------------- MODULE MCConfigFile -----------------------------
(***************************************************************************)
(* The configurations that the small instances of ConfigFile and Server    *)
(* use.                                                                    *)
(***************************************************************************)
EXTENDS ConfigFile, TLC

CONSTANTS k1, k2, s1, s2, g1, g2, f1, f2

On(f)  == [file |-> f, trace |-> TRUE]
Off(f) == [file |-> f, trace |-> FALSE]

\* k1 has a log file of its own; k2 inherits and was never given a secret.
MCFirst ==
  [remote   |-> TRUE,
   secrets  |-> (k1 :> s1) @@ (k2 :> NoSecret),
   override |-> (k1 :> On(f1)) @@ (k2 :> Inherit),
   logging  |-> On(g1),
   rootOk   |-> TRUE]

\* k1 gets another secret and another log file, k2 the old secret of k1.
MCSecond ==
  [MCFirst EXCEPT !.secrets = (k1 :> s2) @@ (k2 :> s1), !.override[k1] = On(f2), !.logging = On(g2)]

\* k1 is revoked, and nothing is traced.
MCRevoked ==
  [MCFirst EXCEPT !.secrets[k1] = NotListed, !.secrets[k2] = s2, !.logging = Off(g1)]

\* The section api_keys is empty, and the process logs elsewhere.
MCNoKeys == [MCFirst EXCEPT !.secrets = (k1 :> NotListed) @@ (k2 :> NotListed), !.logging = On(g2)]

\* The stdio root cannot be created.
MCNoRoot == [MCFirst EXCEPT !.rootOk = FALSE, !.logging = Off(g2)]

\* The remote_server block is missing.
MCLocal == [MCFirst EXCEPT !.remote = FALSE]
=============================================================================
