------------------------------- MODULE StartUp -------------------------------
(***************************************************************************)
(* Server processes that start, run and end on one configuration file:     *)
(* run_mcp_server and the remotehttp transport (mcpfiles/app/server.py     *)
(* 41-62, 455-522 and 584-593), while ConfigFile's genkey runs and the     *)
(* operator rewrite the file.                                              *)
(*                                                                         *)
(* A start-up reads the configuration, looks at the path of its UNIX       *)
(* socket, removes an old socket, installs the SIGHUP handler and hands    *)
(* over to uvicorn, each in a step of its own.  A server may be started    *)
(* while another one runs or starts, be killed at any point, which leaves  *)
(* its socket behind, or be stopped.  Whichever way uvicorn.run is left,   *)
(* it removes the path, whoever has bound it by then.  What a running      *)
(* server does with requests and with SIGHUP is Server's matter.           *)
(***************************************************************************)
EXTENDS ConfigFile

CONSTANTS
  Servers,        \* server processes, each started again after it has ended
  RemoteServers,  \* the remote_server blocks of the configurations that have one
  NotGiven,       \* None in such a block
  MaxStarts       \* bound: start-ups

Given(S) == S \cup {NotGiven}

Transport == [uds : Given({"path"}), port : Given({"port"})]
RemoteServer == [uds : Given({"path"}), port : Given({"port"}), transport : Given(Transport)]

ASSUME StartUpAssumption == RemoteServers \subseteq RemoteServer /\ MaxStarts \in Nat

VARIABLES
  block,      \* the remote_server block; the operator's edits leave it alone
  up,         \* where each server process is
  run,        \* the number of its start-up
  socket,     \* what is at the path: nothing, a file, or the socket of a start-up
  starts,     \* number of start-ups
  foreign,    \* history: there was a file at the path at first
  fault,      \* history: what the last start-up of a process has failed at
  contested,  \* history: start-ups during which someone else changed the path
  lastBound,  \* history: the start-up that bound its socket last
  orphaned    \* history: since then, the last start-up on its way to bind has died on an
              \* empty path, or a process that left uvicorn has removed that socket

netVars == <<block, socket, foreign, contested, lastBound, orphaned>>
vars == <<fileVars, netVars, up, run, starts, fault>>

Nothing == [kind |-> "none", run |-> 0]
SocketOf(n) == [kind |-> "socket", run |-> n]

\* Where a process can be before SIGHUP is handled, and after.
Preparing == {"get_config", "exists", "stat", "remove", "install"}
Handling == {"clear", "bind", "listening", "leave"}

\* Where it may have removed a socket and has not bound its own.
Replacing == {"install", "clear", "bind"}

TypeOK ==
  /\ FileTypeOK
  /\ block \in RemoteServers
  /\ up \in [Servers -> {"down"} \cup Preparing \cup Handling]
  /\ run \in [Servers -> 0 .. MaxStarts] /\ starts \in 0 .. MaxStarts
  /\ socket \in [kind : {"none", "file", "socket"}, run : 0 .. MaxStarts]
  /\ foreign \in BOOLEAN /\ orphaned \in BOOLEAN
  /\ fault \in [Servers -> {"none", "config", "path"}]
  /\ contested \subseteq Servers
  /\ lastBound \in 0 .. MaxStarts
  /\ \A s, t \in Servers : up[s] # "down" /\ run[s] = run[t] => s = t

\* The path holds nothing, a file, or what an earlier server left behind.
Init ==
  /\ FileInit
  /\ block \in RemoteServers
  /\ up = [s \in Servers |-> "down"] /\ run = [s \in Servers |-> 0]
  /\ socket \in {Nothing, [Nothing EXCEPT !.kind = "file"], SocketOf(0)}
  /\ foreign = (socket.kind = "file")
  /\ starts = 0
  /\ fault = [s \in Servers |-> "none"]
  /\ contested = {} /\ lastBound = 0 /\ orphaned = FALSE

-----------------------------------------------------------------------------
(* The endpoint.                                                           *)

Or(a, b) == IF a # NotGiven THEN a ELSE b

\* resolved_endpoint; the host is left out.
ResolvedEndpoint ==
  LET own == [uds |-> block.uds, port |-> block.port] IN
  IF block.transport = NotGiven THEN own
  ELSE [uds  |-> Or(own.uds, block.transport.uds), port |-> Or(own.port, block.transport.port)]

\* Where the server will listen.
Endpoint ==
  CASE ResolvedEndpoint.port # NotGiven -> "tcp"
    [] ResolvedEndpoint.port = NotGiven /\ ResolvedEndpoint.uds # NotGiven -> "uds"
    [] OTHER -> "none"

-----------------------------------------------------------------------------
(* The steps of a start-up.                                                *)

Goes(s, from, to) ==
  up[s] = from /\ up' = [up EXCEPT ![s] = to] /\ UNCHANGED <<run, starts, fault, fileVars>>

\* The start-up raises, and the process goes on to its end.
Fails(s, from, to, why) ==
  /\ up[s] = from
  /\ up' = [up EXCEPT ![s] = to]
  /\ fault' = [fault EXCEPT ![s] = why]
  /\ UNCHANGED <<run, starts, fileVars, netVars>>

\* The path changes under the other start-ups.
Puts(s, what) ==
  /\ socket' = what
  /\ contested' = contested \cup {t \in Servers \ {s} : up[t] # "down"}
  /\ UNCHANGED <<block, foreign>>

Start(s) ==
  /\ up[s] = "down" /\ starts < MaxStarts
  /\ up' = [up EXCEPT ![s] = "get_config"]
  /\ starts' = starts + 1
  /\ run' = [run EXCEPT ![s] = starts + 1]
  /\ fault' = [fault EXCEPT ![s] = "none"]
  /\ contested' = contested \ {s}
  /\ UNCHANGED <<block, socket, foreign, lastBound, orphaned, fileVars>>

\* Lines 53-62 and 455-491: load_config, _build_stdio_key_config, the checks of the
\* transport and the choice of the endpoint.
GetConfig(s) ==
  IF content # Broken /\ content.rootOk /\ content.remote /\ Listed(content) # {}
     /\ Endpoint # "none"
  THEN Goes(s, "get_config", IF Endpoint = "uds" THEN "exists" ELSE "install") /\ UNCHANGED netVars
  ELSE Fails(s, "get_config", "down", "config")

\* Line 588.
Exists(s) ==
  Goes(s, "exists", IF socket = Nothing THEN "install" ELSE "stat") /\ UNCHANGED netVars

\* Mutant: the type of the file is not looked at.
StatAnything(s) == Goes(s, "stat", "remove") /\ UNCHANGED netVars

\* Lines 589-593.
Stat(s) ==
  IF socket.kind = "socket" THEN Goes(s, "stat", "remove") /\ UNCHANGED netVars
  ELSE Fails(s, "stat", "down", "path")

\* Mutant: a socket is refused like any other file, after it has been removed.
RemoveAndRefuse(s) ==
  IF socket = Nothing THEN Fails(s, "remove", "down", "path")
  ELSE Goes(s, "remove", "down") /\ Puts(s, Nothing) /\ UNCHANGED <<lastBound, orphaned>>

\* Line 591: os.remove() of whatever is there by now.
RemoveSocket(s) ==
  IF socket = Nothing THEN Fails(s, "remove", "down", "path")
  ELSE Goes(s, "remove", "install") /\ Puts(s, Nothing) /\ UNCHANGED <<lastBound, orphaned>>

\* _install_remote_reload_handler
Install(s) ==
  Goes(s, "install", IF Endpoint = "uds" THEN "clear" ELSE "bind") /\ UNCHANGED netVars

\* uvicorn.run: the event loop removes a socket that is at the path again.
Clear(s) ==
  /\ Goes(s, "clear", "bind")
  /\ IF socket.kind = "socket" THEN Puts(s, Nothing) /\ UNCHANGED <<lastBound, orphaned>>
     ELSE UNCHANGED netVars

\* Nothing is at the path; no server listens on the port.
AddressFree ==
  IF Endpoint = "uds" THEN socket = Nothing ELSE \A t \in Servers : up[t] # "listening"

\* The server binds its address, or uvicorn.run raises.
Bind(s) ==
  IF ~AddressFree THEN Fails(s, "bind", "leave", "path")
  ELSE /\ Goes(s, "bind", "listening")
       /\ IF Endpoint = "uds"
          THEN Puts(s, SocketOf(run[s])) /\ lastBound' = run[s] /\ orphaned' = FALSE
          ELSE UNCHANGED netVars

-----------------------------------------------------------------------------
(* Ends.                                                                   *)

\* The process ends without another step: SIGKILL, a crash, a SIGHUP that comes before
\* the handler is installed, or a SIGTERM that uvicorn raises again when its server is down.
Dies(s) ==
  /\ up[s] # "down"
  /\ Goes(s, up[s], "down")
  /\ orphaned' = (orphaned \/ (socket = Nothing /\ {t \in Servers : up[t] \in Replacing} = {s}))
  /\ UNCHANGED <<block, socket, foreign, contested, lastBound>>

\* The server ends after SIGTERM or SIGINT; some event loops remove its socket, if the path
\* still has it.
Stop(s) ==
  /\ Goes(s, "listening", "leave")
  /\ \/ UNCHANGED netVars
     \/ socket = SocketOf(run[s]) /\ Puts(s, Nothing) /\ UNCHANGED <<lastBound, orphaned>>

\* uvicorn.run removes what is at the path, whether its server has ended or did not start.
Leave(s) ==
  /\ Goes(s, "leave", "down")
  /\ IF Endpoint = "uds" /\ socket # Nothing
     THEN /\ Puts(s, Nothing)
          /\ orphaned' = (orphaned \/ (lastBound # run[s] /\ socket = SocketOf(lastBound)))
     ELSE UNCHANGED <<block, socket, foreign, contested, orphaned>>
  /\ UNCHANGED lastBound

Next ==
  \/ FileNext /\ UNCHANGED <<netVars, up, run, starts, fault>>
  \/ \E s \in Servers :
       \/ Start(s) \/ GetConfig(s)
       \/ Exists(s) \/ Stat(s) \/ RemoveSocket(s)
       \/ Install(s) \/ Clear(s) \/ Bind(s)
       \/ Dies(s) \/ Stop(s) \/ Leave(s)

Spec == Init /\ [][Next]_vars

-----------------------------------------------------------------------------
(* Safety.                                                                 *)

\* No start-up removes a file that is not a socket, and none fails because of the socket
\* a dead server has left, or of one that is still in use: only because such a file is
\* there, or because someone else changed the path meanwhile (server.py 584-593).
OnlyOthersPreventAStart ==
  /\ foreign => socket.kind = "file"
  /\ \A s \in Servers : fault[s] = "path" /\ Endpoint = "uds" => foreign \/ s \in contested

\* Clients reach the server that has bound the path last, for as long as it listens:
\* start-ups that remove each other's sockets cannot all end up without a path.  It is lost
\* only if the last of them dies before it binds, or if another process leaves uvicorn,
\* stopped or because its bind failed, and takes the path with it (server.py 487-494).
LatestAnswers ==
  \A s \in Servers :
    /\ Endpoint = "uds" /\ up[s] = "listening" /\ run[s] = lastBound
    /\ ~orphaned /\ \A t \in Servers : up[t] \notin Replacing
    => socket = SocketOf(run[s])
=============================================================================
