---------------------------- MODULE StartUpProofs ----------------------------
(***************************************************************************)
(* What holds of StartUp for any number of server processes, start-ups and *)
(* genkey runs, every configuration and every endpoint.                    *)
(***************************************************************************)
EXTENDS StartUp, ConfigFileProofs

ServerNext(s) ==
  \/ Start(s) \/ GetConfig(s)
  \/ Exists(s) \/ Stat(s) \/ RemoveSocket(s)
  \/ Install(s) \/ Clear(s) \/ Bind(s)
  \/ Dies(s) \/ Stop(s) \/ Leave(s)

TypeInv == TypeOK /\ \A s \in Servers : run[s] <= starts

\* What a start-up knows of the path, as long as nobody else changes it.
PathInv ==
  /\ socket.kind = "none" => socket = Nothing
  /\ socket.kind = "file" <=> foreign
  /\ \A s \in Servers : up[s] \in {"exists", "stat", "remove", "clear"} => Endpoint = "uds"
  /\ \A s \in Servers : Endpoint = "uds" /\ up[s] \in {"remove", "install"} \cup Handling => ~foreign
  /\ \A s \in Servers \ contested :
       /\ up[s] \in {"stat", "remove"} => socket # Nothing
       /\ Endpoint = "uds" /\ up[s] \in Replacing => socket = Nothing

FaultInv ==
  \A s \in Servers : fault[s] = "path" /\ Endpoint = "uds" => foreign \/ s \in contested

\* Who is about to bind when the server that has bound last is without a path.
AnswerInv ==
  \A s \in Servers :
    Endpoint = "uds" /\ up[s] = "listening" /\ run[s] = lastBound /\ ~orphaned
    => \/ socket = SocketOf(lastBound)
       \/ socket = Nothing /\ \E t \in Servers : up[t] \in Replacing

-----------------------------------------------------------------------------
(* Types.                                                                  *)

\* The endpoint is a matter of the remote_server block alone.
LEMMA SameEndpoint == ASSUME block' = block PROVE Endpoint' = Endpoint
BY DEF Endpoint, ResolvedEndpoint, Or

\* The file changes as ConfigFile says, or the processes move and leave it alone.
LEMMA StepsSplit ==
  ASSUME [Next]_vars
  PROVE  /\ [FileNext]_fileVars
         /\ \/ UNCHANGED <<netVars, up, run, starts, fault>>
            \/ \E s \in Servers : ServerNext(s)
<1>1. CASE UNCHANGED vars
  BY <1>1 DEF vars
<1>2. CASE FileNext /\ UNCHANGED <<netVars, up, run, starts, fault>>
  BY <1>2
<1>3. ASSUME NEW s \in Servers, ServerNext(s) PROVE UNCHANGED fileVars
  <2>1. CASE Start(s)
    BY <2>1 DEF Start
  <2>2. CASE GetConfig(s) \/ Exists(s) \/ Stat(s) \/ RemoveSocket(s) \/ Install(s)
    BY <2>2 DEF GetConfig, Exists, Stat, RemoveSocket, Install, Goes, Fails
  <2>3. CASE Clear(s) \/ Bind(s) \/ Dies(s) \/ Stop(s) \/ Leave(s)
    BY <2>3 DEF Clear, Bind, Dies, Stop, Leave, Goes, Fails
  <2> QED BY <1>3, <2>1, <2>2, <2>3 DEF ServerNext
<1> QED BY <1>1, <1>2, <1>3 DEF Next, ServerNext

LEMMA SocketTypes ==
  /\ Nothing \in [kind : {"none", "file", "socket"}, run : 0 .. MaxStarts]
  /\ \A n \in 0 .. MaxStarts : SocketOf(n) \in [kind : {"none", "file", "socket"}, run : 0 .. MaxStarts]
BY StartUpAssumption DEF Nothing, SocketOf

LEMMA TypesStart == Init => TypeInv
<1> SUFFICES ASSUME Init PROVE TypeInv
  OBVIOUS
<1>1. FileTypeOK
  BY FileTypesStart DEF Init
<1>2. 0 \in 0 .. MaxStarts
  BY StartUpAssumption
<1>3. socket \in [kind : {"none", "file", "socket"}, run : 0 .. MaxStarts] /\ foreign \in BOOLEAN
  BY <1>2 DEF Init, Nothing, SocketOf
<1>4. \A s \in Servers : up[s] = "down" /\ run[s] = 0 /\ fault[s] = "none"
  BY DEF Init
<1>5. /\ up \in [Servers -> {"down"} \cup Preparing \cup Handling]
      /\ run \in [Servers -> 0 .. MaxStarts]
      /\ fault \in [Servers -> {"none", "config", "path"}]
  BY <1>2 DEF Init
<1>6. /\ block \in RemoteServers /\ starts = 0 /\ orphaned \in BOOLEAN
      /\ contested \subseteq Servers /\ lastBound = 0
  BY DEF Init
<1> QED BY <1>1, <1>2, <1>3, <1>4, <1>5, <1>6 DEF TypeInv, TypeOK

LEMMA TypesKeep == TypeInv /\ [Next]_vars => TypeInv'
<1> SUFFICES ASSUME TypeInv, [Next]_vars PROVE TypeInv'
  OBVIOUS
<1> USE DEF TypeInv, TypeOK, Preparing, Handling, Replacing
<1>1. FileTypeOK'
  BY StepsSplit, FileTypesKeep
<1>2. CASE UNCHANGED <<netVars, up, run, starts, fault>>
  BY <1>1, <1>2 DEF netVars
<1>3. ASSUME NEW s \in Servers, ServerNext(s) PROVE TypeInv'
  <2>1. CASE Start(s)
    <3>1. /\ starts < MaxStarts /\ starts' = starts + 1 /\ run' = [run EXCEPT ![s] = starts + 1]
          /\ up' = [up EXCEPT ![s] = "get_config"] /\ fault' = [fault EXCEPT ![s] = "none"]
          /\ contested' = contested \ {s}
          /\ block' = block /\ socket' = socket /\ foreign' = foreign
          /\ lastBound' = lastBound /\ orphaned' = orphaned
      BY <2>1 DEF Start
    <3>2. starts' \in 0 .. MaxStarts /\ starts + 1 \in 0 .. MaxStarts
      BY <3>1, StartUpAssumption
    <3>3. \A t \in Servers : run[t] \in Nat /\ run[t] < starts + 1
      BY StartUpAssumption
    <3>4. \A t, u \in Servers : up'[t] # "down" /\ run'[t] = run'[u] => t = u
      BY <3>1, <3>3
    <3>5. \A t \in Servers : run'[t] <= starts'
      BY <3>1, <3>2, <3>3
    <3> QED BY <1>1, <3>1, <3>2, <3>4, <3>5
  <2>2. CASE GetConfig(s) \/ Exists(s) \/ Stat(s) \/ Install(s)
    BY <1>1, <2>2 DEF GetConfig, Exists, Stat, Install, Goes, Fails, netVars
  <2>3. CASE RemoveSocket(s) \/ Clear(s)
    <3>1. socket' \in [kind : {"none", "file", "socket"}, run : 0 .. MaxStarts]
      BY <2>3, SocketTypes DEF RemoveSocket, Clear, Puts, Fails, netVars
    <3>2. /\ run' = run /\ starts' = starts /\ block' = block /\ foreign' = foreign
          /\ lastBound' = lastBound /\ orphaned' = orphaned
          /\ contested' \subseteq Servers
          /\ fault' \in [Servers -> {"none", "config", "path"}]
      BY <2>3 DEF RemoveSocket, Clear, Puts, Goes, Fails, netVars
    <3>3. /\ up' \in [Servers -> {"down"} \cup Preparing \cup Handling]
          /\ \A t \in Servers : up'[t] # "down" => up[t] # "down"
      BY <2>3 DEF RemoveSocket, Clear, Goes, Fails
    <3> QED BY <1>1, <3>1, <3>2, <3>3
  <2>4. CASE Bind(s)
    <3>1. socket' \in [kind : {"none", "file", "socket"}, run : 0 .. MaxStarts]
      BY <2>4, SocketTypes DEF Bind, Puts, Fails, netVars
    <3>2. CASE ~AddressFree
      BY <1>1, <2>4, <3>2 DEF Bind, Fails, netVars
    <3>3. CASE AddressFree /\ Endpoint = "uds"
      <4>1. Goes(s, "bind", "listening") /\ Puts(s, SocketOf(run[s]))
        BY <2>4, <3>3 DEF Bind
      <4>2. lastBound' = run[s] /\ orphaned' = FALSE
        BY <2>4, <3>3 DEF Bind
      <4>3. /\ run' = run /\ starts' = starts /\ block' = block /\ foreign' = foreign
            /\ fault' = fault /\ up' = [up EXCEPT ![s] = "listening"]
            /\ contested' \subseteq Servers /\ up[s] = "bind"
        BY <4>1 DEF Goes, Puts
      <4> QED BY <1>1, <3>1, <4>2, <4>3
    <3>4. CASE AddressFree /\ Endpoint # "uds"
      BY <1>1, <2>4, <3>4 DEF Bind, Goes, netVars
    <3> QED BY <3>2, <3>3, <3>4
  <2>5. CASE Dies(s)
    BY <1>1, <2>5 DEF Dies, Goes
  <2>6. CASE Stop(s)
    BY <1>1, <2>6, SocketTypes DEF Stop, Puts, Goes, netVars
  <2>7. CASE Leave(s)
    BY <1>1, <2>7, SocketTypes DEF Leave, Puts, Goes
  <2> QED BY <1>3, <2>1, <2>2, <2>3, <2>4, <2>5, <2>6, <2>7 DEF ServerNext
<1> QED BY <1>2, <1>3, StepsSplit

LEMMA TypesHold == Spec => []TypeInv
BY TypesStart, TypesKeep, PTL DEF Spec

\* Every start-up has a number of its own, and the path and the processes stay well typed.
THEOREM StartUpTypeCorrect == Spec => []TypeOK
<1>1. TypeInv => TypeOK
  BY DEF TypeInv
<1> QED BY <1>1, TypesHold, PTL

-----------------------------------------------------------------------------
(* The path.                                                               *)

LEMMA PathStart == Init => PathInv /\ FaultInv /\ AnswerInv
<1> SUFFICES ASSUME Init PROVE PathInv /\ FaultInv /\ AnswerInv
  OBVIOUS
<1>1. \A s \in Servers : up[s] = "down" /\ fault[s] = "none"
  BY DEF Init
<1>2. (socket.kind = "none" => socket = Nothing) /\ (socket.kind = "file" <=> foreign)
  <2>1. socket.kind = "none" => socket = Nothing
    BY DEF Init, Nothing, SocketOf
  <2>2. foreign = (socket.kind = "file")
    BY DEF Init
  <2> QED BY <2>1, <2>2
<1> QED BY <1>1, <1>2 DEF PathInv, FaultInv, AnswerInv, Handling, Replacing

LEMMA PathKeeps == TypeInv /\ PathInv /\ [Next]_vars => PathInv'
<1> SUFFICES ASSUME TypeInv, PathInv, [Next]_vars PROVE PathInv'
  OBVIOUS
<1> USE DEF TypeInv, TypeOK, PathInv, Handling, Replacing
<1>1. CASE UNCHANGED <<netVars, up, run, starts, fault>>
  BY <1>1, SameEndpoint DEF netVars
<1>2. ASSUME NEW s \in Servers, ServerNext(s) PROVE PathInv'
  <2>1. CASE Start(s)
    BY <2>1, SameEndpoint DEF Start
  <2>2. CASE GetConfig(s)
    BY <2>2, SameEndpoint DEF GetConfig, Goes, Fails, netVars
  <2>3. CASE Exists(s)
    BY <2>3, SameEndpoint DEF Exists, Goes, netVars, Nothing
  <2>4. CASE Stat(s)
    BY <2>4, SameEndpoint DEF Stat, Goes, Fails, netVars
  <2>5. CASE RemoveSocket(s)
    BY <2>5, SameEndpoint DEF RemoveSocket, Puts, Goes, Fails, netVars, Nothing
  <2>6. CASE Install(s)
    BY <2>6, SameEndpoint DEF Install, Goes, netVars
  <2>7. CASE Clear(s)
    BY <2>7, SameEndpoint DEF Clear, Puts, Goes, netVars, Nothing
  <2>8. CASE Bind(s)
    BY <2>8, SameEndpoint DEF Bind, AddressFree, Puts, Goes, Fails, netVars, SocketOf
  <2>9. CASE Dies(s)
    BY <2>9, SameEndpoint DEF Dies, Goes
  <2>10. CASE Stop(s)
    BY <2>10, SameEndpoint DEF Stop, Puts, Goes, netVars, Nothing, SocketOf
  <2>11. CASE Leave(s)
    BY <2>11, SameEndpoint DEF Leave, Puts, Goes, Nothing
  <2> QED BY <1>2, <2>1, <2>2, <2>3, <2>4, <2>5, <2>6, <2>7, <2>8, <2>9, <2>10, <2>11 DEF ServerNext
<1> QED BY <1>1, <1>2, StepsSplit

LEMMA FaultKeeps == TypeInv /\ PathInv /\ FaultInv /\ [Next]_vars => FaultInv'
<1> SUFFICES ASSUME TypeInv, PathInv, FaultInv, [Next]_vars PROVE FaultInv'
  OBVIOUS
<1> USE DEF TypeInv, TypeOK, FaultInv, Replacing
<1>1. CASE UNCHANGED <<netVars, up, run, starts, fault>>
  BY <1>1, SameEndpoint DEF netVars
<1>2. ASSUME NEW s \in Servers, ServerNext(s) PROVE FaultInv'
  <2>1. CASE Start(s)
    BY <2>1, SameEndpoint DEF Start
  <2>2. CASE GetConfig(s) \/ Exists(s) \/ Install(s)
    BY <2>2, SameEndpoint DEF GetConfig, Exists, Install, Goes, Fails, netVars
  <2>3. CASE Stat(s)
    BY <2>3, SameEndpoint DEF Stat, Goes, Fails, netVars, PathInv
  <2>4. CASE RemoveSocket(s)
    BY <2>4, SameEndpoint DEF RemoveSocket, Puts, Goes, Fails, netVars, PathInv
  <2>5. CASE Bind(s)
    BY <2>5, SameEndpoint DEF Bind, AddressFree, Puts, Goes, Fails, netVars, PathInv
  <2>6. CASE Clear(s) \/ Dies(s) \/ Stop(s) \/ Leave(s)
    BY <2>6, SameEndpoint DEF Clear, Dies, Stop, Leave, Puts, Goes, netVars
  <2> QED BY <1>2, <2>1, <2>2, <2>3, <2>4, <2>5, <2>6 DEF ServerNext
<1> QED BY <1>1, <1>2, StepsSplit

\* A start-up fails at the path only because a file is there that is no socket, or because
\* another process changed the path meanwhile, and such a file is never removed
\* (server.py 584-593).
THEOREM OnlyOthersInterfere == Spec => []OnlyOthersPreventAStart
<1>1. PathInv /\ FaultInv => OnlyOthersPreventAStart
  BY DEF PathInv, FaultInv, OnlyOthersPreventAStart
<1> QED BY <1>1, TypesHold, PathStart, PathKeeps, FaultKeeps, PTL DEF Spec

LEMMA AnswerKeeps == TypeInv /\ AnswerInv /\ [Next]_vars => AnswerInv'
<1> SUFFICES ASSUME TypeInv, AnswerInv, [Next]_vars PROVE AnswerInv'
  OBVIOUS
<1> USE DEF TypeInv, TypeOK, AnswerInv, Replacing
<1>1. CASE UNCHANGED <<netVars, up, run, starts, fault>>
  BY <1>1, SameEndpoint DEF netVars
<1>2. ASSUME NEW s \in Servers, ServerNext(s) PROVE AnswerInv'
  <2>1. CASE Start(s)
    BY <2>1, SameEndpoint DEF Start
  <2>2. CASE GetConfig(s) \/ Exists(s) \/ Stat(s) \/ Install(s)
    BY <2>2, SameEndpoint DEF GetConfig, Exists, Stat, Install, Goes, Fails, netVars
  <2>3. CASE RemoveSocket(s) \/ Clear(s)
    BY <2>3, SameEndpoint DEF RemoveSocket, Clear, Puts, Goes, Fails, netVars, Nothing
  <2>4. CASE Bind(s)
    BY <2>4, SameEndpoint DEF Bind, AddressFree, Puts, Goes, Fails, netVars
  <2>5. CASE Dies(s)
    BY <2>5, SameEndpoint DEF Dies, Goes
  <2>6. CASE Stop(s) \/ Leave(s)
    <3> SUFFICES ASSUME Endpoint = "uds", ~orphaned',
                        NEW t \in Servers, up'[t] = "listening", run'[t] = lastBound'
                 PROVE  \/ socket' = SocketOf(lastBound')
                        \/ socket' = Nothing /\ \E u \in Servers : up'[u] \in Replacing
      BY <2>6, SameEndpoint DEF Stop, Leave, Puts, netVars
    <3>1. /\ run' = run /\ lastBound' = lastBound /\ ~orphaned
          /\ \A u \in Servers : u # s => up'[u] = up[u]
          /\ up'[s] \in {"leave", "down"} /\ up[s] \in {"listening", "leave"}
      BY <2>6 DEF Stop, Leave, Goes, netVars
    <3>2. t # s /\ up[t] = "listening" /\ run[t] = lastBound /\ lastBound # run[s]
      BY <3>1
    <3>3. socket' = socket
      <4>1. CASE Stop(s)
        <5>1. socket # SocketOf(run[s])
          BY <3>1, <3>2 DEF SocketOf, Nothing
        <5> QED BY <4>1, <5>1 DEF Stop, netVars
      <4>2. CASE Leave(s)
        BY <3>1, <3>2, <4>2 DEF Leave, Puts
      <4> QED BY <2>6, <4>1, <4>2
    <3>4. \A u \in Servers : up[u] \in Replacing => up'[u] \in Replacing
      BY <3>1
    <3> QED BY <3>1, <3>2, <3>3, <3>4
  <2> QED BY <1>2, <2>1, <2>2, <2>3, <2>4, <2>5, <2>6 DEF ServerNext
<1> QED BY <1>1, <1>2, StepsSplit

\* The server that has bound the path last can be reached there, unless since then the last
\* start-up on its way to bind has died, or a process whose server has ended or did not start
\* has removed the path with uvicorn (server.py 487-494).
THEOREM LatestIsReachable == Spec => []LatestAnswers
<1>1. AnswerInv => LatestAnswers
  BY DEF AnswerInv, LatestAnswers
<1> QED BY <1>1, TypesHold, PathStart, AnswerKeeps, PTL DEF Spec

-----------------------------------------------------------------------------
\* Rotations stick while servers start and run as they do without.
THEOREM RotationsStickWhileServing == Spec => []RotationsStick
<1>1. Init => FileInv
  BY RotationsStart DEF Init
<1>2. FileInv /\ [Next]_vars => FileInv'
  BY RotationsKeep, StepsSplit
<1>3. FileInv => RotationsStick
  BY DEF FileInv
<1> QED BY <1>1, <1>2, <1>3, PTL DEF Spec
=============================================================================
