------------------------------ MODULE MCStartUp ------------------------------
(***************************************************************************)
(* Values of StartUp's constants for TLC.                                  *)
(***************************************************************************)
EXTENDS MCConfigFile, StartUp

\* A path below transport, a path that a port overrides, and no endpoint.
MCRemoteServers ==
  LET Block(uds, port, transport) == [uds |-> uds, port |-> port, transport |-> transport]
  IN {Block(NotGiven, NotGiven, [uds |-> "path", port |-> NotGiven]),
      Block("path", NotGiven, [uds |-> NotGiven, port |-> "port"]),
      Block(NotGiven, NotGiven, NotGiven)}

MCStartUpEdits == {MCRevoked, Broken}

Symmetry == Permutations(Servers) \cup Permutations(Writers)
=============================================================================
