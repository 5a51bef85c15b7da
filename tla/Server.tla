------------------------------- MODULE Server -------------------------------
(***************************************************************************)
(* The remote server (mcpfiles/app/server.py 33-148, 441-447, 497-581)     *)
(* with the configuration it caches (config_manager.py 73-109), the        *)
(* operation log (logging_utils.py 31-93) and the configuration file that  *)
(* ConfigFile describes.                                                   *)
(*                                                                         *)
(* The main thread runs the event loop: it authenticates requests, one     *)
(* after the other.  A SIGHUP interrupts it between two bytecodes, and     *)
(* interrupts a running handler of an earlier SIGHUP in the same way:      *)
(* frames is the stack of handlers, and only its last one moves.  A tool   *)
(* runs in a worker thread, so its steps interleave with a reload and with *)
(* other tools.  What the tool does in its workspace is left to            *)
(* FileOperations and UsageFile; here it is the log entry it makes.        *)
(***************************************************************************)
EXTENDS ConfigFile, Sequences

CONSTANTS
  Requests,       \* tool invocations
  Credentials,    \* what requests present as their token
  Unwritable,     \* log files that cannot be opened
  LogfileOption,  \* --logfile, or NoFile
  Stderr,         \* where the stream handler of the root logger writes
  MaxSignals      \* bound: SIGHUPs delivered

\* Where a request can carry a token; NoSecret for a missing or empty one.
Credential ==
  [bearer : Secrets \cup {NoSecret}, header : Secrets \cup {NoSecret}, query : Secrets \cup {NoSecret}]

ASSUME ServerAssumption ==
  /\ Credentials \subseteq Credential
  /\ Unwritable \subseteq Files \ {Stderr}
  /\ {FirstConfig.logging.file, LogfileOption} \cap Unwritable = {}
  /\ LogfileOption \in Files \cup {NoFile}
  /\ Stderr \in Files
  /\ MaxSignals \in Nat
  /\ FirstConfig.remote /\ FirstConfig.rootOk /\ Listed(FirstConfig) # {}

VARIABLES
  cached,     \* _cached_config, or Broken for None
  rootFiles,  \* where the handlers of the root logger write
  serving,    \* state.config
  stdio,      \* the configuration state.stdio_key was made from
  loggers,    \* the OperationLogger objects; the last one is state.operation_logger
  handlers,   \* handlers[k]: the files of the handlers of the logger mcpfiles.operations.<k>
  frames,     \* the running SIGHUP handlers, the latest one last
  locked,     \* state.reload_lock
  signals,    \* number of SIGHUPs delivered
  req,        \* where each request is, and what it holds
  lines,      \* lines[r][f]: entries request r wrote to file f
  nested,     \* history: did a SIGHUP ever interrupt a handler?
  inService,  \* history: the configurations in service while the request was authenticated
  clashed     \* history: did two requests ever set up the logger of one key at a time?

mainVars == <<cached, rootFiles, serving, stdio, loggers, frames, locked, signals, nested>>
workVars == <<handlers, req, lines, inService, clashed>>
vars == <<fileVars, mainVars, workVars>>

ReloadStates == {"lock", "reset", "load", "logging", "handler", "cache", "check",
                 "config", "stdio", "logger", "unlock"}

Logger == [global : Logging, known : SUBSET KeyIds]

RequestStates == {"unsent", "matching", "refused", "running", "entry", "known", "adding",
                  "marking", "emitting", "done", "failed"}

\* get_config lines 98-99
WithOptions(c) == IF LogfileOption = NoFile THEN c ELSE [c EXCEPT !.logging.file = LogfileOption]

\* The configuration serves a remote server: lines 510-515, and 457-460 at the start.
Usable(c) == c.remote /\ Listed(c) # {}

NoLines == [f \in Files |-> 0]

NoRequest(c) ==
  [pc |-> "unsent", config |-> c, token |-> NoSecret,
   key |-> CHOOSE k \in KeyIds : TRUE, logger |-> 0]

\* The handlers setup_logging makes.
RootFiles(c) == {Stderr} \cup ({c.logging.file} \ {NoFile})

TypeOK ==
  /\ FileTypeOK
  /\ cached \in Config \cup {Broken}
  /\ rootFiles \subseteq Files
  /\ serving \in Config /\ stdio \in Config
  /\ loggers \in Seq(Logger) /\ loggers # <<>>
  /\ handlers \in [KeyIds -> Seq(Files)]
  /\ \A i \in DOMAIN frames : frames[i] \in [pc : ReloadStates, new : Config]
  /\ locked \in BOOLEAN
  /\ signals \in 0 .. MaxSignals
  /\ req \in [Requests -> [pc : RequestStates, config : Config, token : Secrets \cup {NoSecret},
                           key : KeyIds, logger : 0 .. Len(loggers)]]
  /\ lines \in [Requests -> [Files -> Nat]]
  /\ inService \in [Requests -> SUBSET Config]
  /\ nested \in BOOLEAN /\ clashed \in BOOLEAN

\* run_mcp_server with --remote: the file was read once and the objects were built.
Init ==
  /\ FileInit
  /\ LET c == WithOptions(FirstConfig) IN
     /\ cached = c /\ serving = c /\ stdio = c
     /\ rootFiles = RootFiles(c)
     /\ loggers = <<[global |-> c.logging, known |-> {}]>>
     /\ req = [r \in Requests |-> NoRequest(c)]
  /\ handlers = [k \in KeyIds |-> <<>>]
  /\ frames = <<>> /\ locked = FALSE /\ signals = 0
  /\ lines = [r \in Requests |-> NoLines]
  /\ inService = [r \in Requests |-> {}]
  /\ nested = FALSE /\ clashed = FALSE

-----------------------------------------------------------------------------
(* The SIGHUP handler.                                                     *)

Top == frames[Len(frames)]

At(pc) == frames # <<>> /\ Top.pc = pc

Goto(pc) == frames' = [frames EXCEPT ![Len(frames)].pc = pc]

UnchangedBut(rest) == UNCHANGED <<fileVars, workVars>> /\ UNCHANGED rest

\* A SIGHUP arrives: the main thread enters _handle_reload, wherever it was.
Sighup ==
  /\ signals < MaxSignals
  /\ signals' = signals + 1
  /\ frames' = Append(frames, [pc |-> "lock", new |-> serving])
  /\ nested' = (nested \/ frames # <<>>)
  /\ UnchangedBut(<<cached, rootFiles, serving, stdio, loggers, locked>>)

\* with state.reload_lock: the lock is not reentrant.
TakeLock ==
  /\ At("lock") /\ ~locked
  /\ locked' = TRUE
  /\ Goto("reset")
  /\ UnchangedBut(<<cached, rootFiles, serving, stdio, loggers, signals, nested>>)

\* Mutant: the cache is kept.
KeepCache ==
  /\ At("reset")
  /\ Goto("load")
  /\ UnchangedBut(<<cached, rootFiles, serving, stdio, loggers, locked, signals, nested>>)

\* reset_cached_config()
ResetCache ==
  /\ At("reset")
  /\ cached' = Broken
  /\ Goto("load")
  /\ UnchangedBut(<<rootFiles, serving, stdio, loggers, locked, signals, nested>>)

\* Mutant: load_config returns None for a text it cannot read.
LoadAnything ==
  /\ At("load")
  /\ frames' = [frames EXCEPT ![Len(frames)] =
       IF cached # Broken THEN [pc |-> "check", new |-> cached] ELSE [pc |-> "logging", new |-> content]]
  /\ UnchangedBut(<<cached, rootFiles, serving, stdio, loggers, locked, signals, nested>>)

\* get_config: the cached configuration if there is one, or load_config, which may raise.
Load ==
  /\ At("load")
  /\ frames' =
       IF cached # Broken
         THEN [frames EXCEPT ![Len(frames)] = [pc |-> "check", new |-> cached]]
       ELSE IF content # Broken
         THEN [frames EXCEPT ![Len(frames)] = [pc |-> "logging", new |-> WithOptions(content)]]
       ELSE [frames EXCEPT ![Len(frames)].pc = "unlock"]
  /\ UnchangedBut(<<cached, rootFiles, serving, stdio, loggers, locked, signals, nested>>)

\* Mutant: the handlers stay.
KeepHandlers ==
  /\ At("logging")
  /\ Goto("handler")
  /\ UnchangedBut(<<cached, rootFiles, serving, stdio, loggers, locked, signals, nested>>)

\* setup_logging: the handlers of the root logger are removed ...
RemoveHandlers ==
  /\ At("logging")
  /\ rootFiles' = {}
  /\ Goto("handler")
  /\ UnchangedBut(<<cached, serving, stdio, loggers, locked, signals, nested>>)

\* ... and new ones added, the stream first.  FileHandler raises when it cannot open its file,
\* and the reload ends without a cached configuration.
MakeHandlers ==
  /\ At("handler")
  /\ IF Top.new.logging.file \in Unwritable
     THEN rootFiles' = rootFiles \cup {Stderr} /\ Goto("unlock")
     ELSE rootFiles' = rootFiles \cup RootFiles(Top.new) /\ Goto("cache")
  /\ UnchangedBut(<<cached, serving, stdio, loggers, locked, signals, nested>>)

FillCache ==
  /\ At("cache")
  /\ cached' = Top.new
  /\ Goto("check")
  /\ UnchangedBut(<<rootFiles, serving, stdio, loggers, locked, signals, nested>>)

\* Lines 510-515.
Check ==
  /\ At("check")
  /\ Goto(IF Usable(Top.new) THEN "config" ELSE "unlock")
  /\ UnchangedBut(<<cached, rootFiles, serving, stdio, loggers, locked, signals, nested>>)

\* _apply_new_config_to_state: state.config ...
SetConfig ==
  /\ At("config")
  /\ serving' = Top.new
  /\ Goto("stdio")
  /\ inService' = [r \in Requests |->
       IF req[r].pc = "matching" THEN inService[r] \cup {Top.new} ELSE inService[r]]
  /\ UNCHANGED <<fileVars, handlers, req, lines, clashed, cached, rootFiles, stdio, loggers,
                 locked, signals, nested>>

\* ... state.stdio_key, whose root is created, which may raise ...
SetStdioKey ==
  /\ At("stdio")
  /\ IF Top.new.rootOk
     THEN stdio' = Top.new /\ Goto("logger")
     ELSE UNCHANGED stdio /\ Goto("unlock")
  /\ UnchangedBut(<<cached, rootFiles, serving, loggers, locked, signals, nested>>)

\* Mutant: the logger is left as it was.
KeepLogger ==
  /\ At("logger")
  /\ Goto("unlock")
  /\ UnchangedBut(<<cached, rootFiles, serving, stdio, loggers, locked, signals, nested>>)

\* ... and state.operation_logger.
SetLogger ==
  /\ At("logger")
  /\ loggers' = Append(loggers, [global |-> Top.new.logging, known |-> {}])
  /\ Goto("unlock")
  /\ UnchangedBut(<<cached, rootFiles, serving, stdio, locked, signals, nested>>)

\* Mutant: an early return leaves the lock taken.
ReturnLocked ==
  /\ At("unlock")
  /\ locked' = (Top.new # serving)
  /\ frames' = SubSeq(frames, 1, Len(frames) - 1)
  /\ UnchangedBut(<<cached, rootFiles, serving, stdio, loggers, signals, nested>>)

\* The with statement ends, by return, exception or success, and the handler returns.
Unlock ==
  /\ At("unlock")
  /\ locked' = FALSE
  /\ frames' = SubSeq(frames, 1, Len(frames) - 1)
  /\ UnchangedBut(<<cached, rootFiles, serving, stdio, loggers, signals, nested>>)

Reload ==
  \/ TakeLock \/ ResetCache \/ Load \/ RemoveHandlers \/ MakeHandlers \/ FillCache
  \/ Check \/ SetConfig \/ SetStdioKey \/ SetLogger \/ Unlock

\* The main thread waits for the lock that an interrupted handler of its own holds.
Stuck == At("lock") /\ locked

-----------------------------------------------------------------------------
(* Requests.                                                               *)

Step(r, pc) == req' = [req EXCEPT ![r].pc = pc]

Idle == frames = <<>>

\* _extract_api_token
ExtractToken(c) ==
  CASE c.bearer # NoSecret -> c.bearer
    [] c.bearer = NoSecret /\ c.header # NoSecret -> c.header
    [] OTHER -> c.query

\* A request arrives and the middleware reads state.config.api_keys.  It does not give
\* the event loop back before it has an answer.
Arrive(r, credential) ==
  /\ req[r].pc = "unsent" /\ Idle
  /\ \A other \in Requests : req[other].pc # "matching"
  /\ req' = [req EXCEPT ![r].pc = "matching", ![r].config = serving,
                          ![r].token = ExtractToken(credential)]
  /\ inService' = [inService EXCEPT ![r] = {serving}]
  /\ UNCHANGED <<fileVars, mainVars, handlers, lines, clashed>>

\* Mutant: a missing token is compared with a missing hash.
MatchingNothing(r) == {k \in KeyIds : req[r].config.secrets[k] = req[r].token}

\* match_api_key: the keys whose hash the token has.  A key that was never generated has
\* none.
Matching(r) ==
  {k \in KeyIds : req[r].token # NoSecret /\ req[r].config.secrets[k] = req[r].token}

\* The middleware stores the key on the request, or answers 401.
Authenticate(r) ==
  /\ req[r].pc = "matching" /\ Idle
  /\ IF Matching(r) = {}
     THEN Step(r, "refused")
     ELSE \E k \in Matching(r) : req' = [req EXCEPT ![r].pc = "running", ![r].key = k]
  /\ UNCHANGED <<fileVars, mainVars, handlers, lines, inService, clashed>>

Override(r) == req[r].config.override[req[r].key]

\* _operations raises: the project_id is no UUID, or projects are disabled.
FailBefore(r) ==
  /\ req[r].pc = "running"
  /\ Step(r, "done")
  /\ UNCHANGED <<fileVars, mainVars, handlers, lines, inService, clashed>>

\* The tool has succeeded or failed; _log_result reads state.operation_logger.
ReadLogger(r) ==
  /\ req[r].pc = "running"
  /\ req' = [req EXCEPT ![r].pc = "entry", ![r].logger = Len(loggers)]
  /\ UNCHANGED <<fileVars, mainVars, handlers, lines, inService, clashed>>

\* _effective_config
Effective(r) == IF Override(r) = Inherit THEN loggers[req[r].logger].global ELSE Override(r)

OwnFile(r) == IF Override(r) = Inherit THEN NoFile ELSE Override(r).file

\* Mutant: the key counts as known before its handler exists.
FindAndRemember(r) ==
  /\ req[r].pc = "entry"
  /\ LET n == req[r].logger  known == loggers[n].known IN
     /\ Step(r, IF ~Effective(r).trace THEN "done"
                ELSE IF OwnFile(r) = NoFile \/ req[r].key \in known THEN "emitting"
                ELSE "adding")
     /\ loggers' = [loggers EXCEPT ![n].known = @ \cup {req[r].key}]
  /\ UNCHANGED <<fileVars, handlers, lines, inService, clashed, cached, rootFiles, serving, stdio,
                 frames, locked, signals, nested>>

\* The category is traced or not; _logger_for_key looks its key up.
FindLogger(r) ==
  /\ req[r].pc = "entry"
  /\ Step(r, IF ~Effective(r).trace THEN "done"
             ELSE IF OwnFile(r) = NoFile \/ req[r].key \in loggers[req[r].logger].known
               THEN "emitting"
             ELSE "adding")
  /\ UNCHANGED <<fileVars, mainVars, handlers, lines, inService>>
  /\ clashed' = (clashed \/ \E other \in Requests \ {r} :
                    req[other].pc \in {"adding", "marking"} /\ req[other].key = req[r].key)

\* logger.addHandler(FileHandler(override.logfile)): loggers are known by name, so the
\* handler joins those that earlier OperationLoggers added.  When the file cannot be opened
\* the invocation fails, although the tool has done its work.
AddHandler(r) ==
  /\ req[r].pc = "adding"
  /\ IF OwnFile(r) \in Unwritable
     THEN Step(r, "failed") /\ UNCHANGED handlers
     ELSE /\ handlers' = [handlers EXCEPT ![req[r].key] = Append(@, OwnFile(r))]
          /\ Step(r, "marking")
  /\ UNCHANGED <<fileVars, mainVars, lines, inService, clashed>>

\* Mutant: the logger is not remembered.
ForgetLogger(r) ==
  /\ req[r].pc = "marking"
  /\ Step(r, "emitting")
  /\ UNCHANGED <<fileVars, mainVars, handlers, lines, inService, clashed>>

\* self._key_loggers[key_id] = logger
RememberLogger(r) ==
  /\ req[r].pc = "marking"
  /\ loggers' = [loggers EXCEPT ![req[r].logger].known = @ \cup {req[r].key}]
  /\ Step(r, "emitting")
  /\ UNCHANGED <<fileVars, handlers, lines, inService, clashed, cached, rootFiles, serving, stdio,
                 frames, locked, signals, nested>>

Times(f, files) == Cardinality({i \in DOMAIN files : files[i] = f})

\* logger.info: every handler of the key's logger writes a line, and the entry propagates
\* to the handlers of the root logger.
Emit(r) ==
  /\ req[r].pc = "emitting"
  /\ lines' = [lines EXCEPT ![r] =
       [f \in Files |-> (IF OwnFile(r) = NoFile THEN 0 ELSE Times(f, handlers[req[r].key]))
                          + (IF f \in rootFiles THEN 1 ELSE 0)]]
  /\ Step(r, "done")
  /\ UNCHANGED <<fileVars, mainVars, handlers, inService, clashed>>

Middleware(r) == (\E c \in Credentials : Arrive(r, c)) \/ Authenticate(r)

Tool(r) ==
  \/ ReadLogger(r) \/ FindLogger(r) \/ AddHandler(r) \/ RememberLogger(r) \/ Emit(r)

Next ==
  \/ FileNext /\ UNCHANGED <<mainVars, workVars>>
  \/ Sighup
  \/ Reload
  \/ \E r \in Requests : Middleware(r) \/ FailBefore(r) \/ Tool(r)

Spec == Init /\ [][Next]_vars

\* The main thread is scheduled, the event loop serves what has arrived, and the worker
\* threads run; nothing makes a signal, a request or an edit happen.
FairSpec ==
  /\ Spec
  /\ WF_vars(Reload)
  /\ \A r \in Requests : WF_vars(Authenticate(r)) /\ WF_vars(Tool(r))

Answered(r) == req[r].pc \notin {"unsent", "matching"}

-----------------------------------------------------------------------------
(* Reloading.                                                              *)

\* The main thread waits forever only if a SIGHUP has interrupted a handler: every other
\* reload, failed and aborted ones included, gives the lock back (server.py 507-517).
StuckOnlyIfNested == (Idle => ~locked) /\ (Stuck => nested)

\* A reload that finds a usable configuration c, which stays in the file and whose log file
\* can be opened, brings it into service with the options of the command line applied, even
\* if reloads before it failed (server.py 506-516, config_manager.py 92-109).
ReloadTakesEffect ==
  \A c \in {FirstConfig} \cup (Edits \ {Broken}) :
    (At("lock") /\ content = c /\ Usable(c) /\ WithOptions(c).logging.file \notin Unwritable)
      ~> (serving = WithOptions(c) \/ content # c \/ nested)

\* The server never serves a configuration it would not have started with, whatever the
\* file has held in the meantime, and when no handler runs the parts of its state belong to
\* one configuration, except for what a stdio root that cannot be created leaves behind
\* (server.py 86-90 and 510-516).
StateIsWhole ==
  /\ Usable(serving)
  /\ Idle => \/ stdio = serving /\ loggers[Len(loggers)].global = serving.logging
             \/ ~serving.rootOk

\* The handlers of the root logger are those of the cached configuration, also after a
\* reload that was aborted: its configuration is cached, and logs, although the server
\* goes on with the one before.  A reload that could not read the file or open the log
\* file leaves no cached configuration, and the log on stderr at least (server.py 508-515,
\* config_manager.py 73-104).
LoggingFollowsCache ==
  Idle => IF cached # Broken THEN rootFiles = RootFiles(cached) ELSE Stderr \in rootFiles

\* A request runs only with a key that a configuration in service between its arrival
\* and its authentication gave to the token it carries, and is refused only if one of them
\* gave that token to no key: a reload that revokes a key is final for every request that
\* arrives later, and one that keeps a key never costs it a request
\* (server.py 552-581, api_keys.py 75-95).
JustlyAnswered ==
  \A r \in Requests :
    /\ req[r].pc \notin {"unsent", "matching", "refused"} =>
         \E c \in inService[r] : req[r].token \in Secrets /\ c.secrets[req[r].key] = req[r].token
    /\ req[r].pc = "refused" =>
         \E c \in inService[r] : \A k \in KeyIds :
           req[r].token \in Secrets => c.secrets[k] # req[r].token

\* Every request that has arrived is authenticated or refused, whatever reloads do, unless
\* a SIGHUP interrupts the handler of another (server.py 503-520).
RequestsAnswered == \A r \in Requests : (req[r].pc = "matching") ~> (Answered(r) \/ nested)

-----------------------------------------------------------------------------
(* The operation log.                                                      *)

\* Reloads repeat lines, but each configuration brought into service adds at most one
\* handler to the logger of a key, unless two requests meet in setting it up
\* (logging_utils.py 49-61, server.py 90).
HandlersPerReload ==
  ~clashed => \A k \in KeyIds : Len(handlers[k]) <= Len(loggers)

\* Whatever reloads and other requests do, an invocation whose key has a log file of its
\* own finds a handler to write its entry, and tells its caller that it failed after the
\* tool has succeeded only when that file cannot be opened (logging_utils.py 50-61,
\* server.py 120-148).
NeverSilent ==
  \A r \in Requests :
    /\ req[r].pc = "emitting" /\ OwnFile(r) # NoFile =>
         \E i \in DOMAIN handlers[req[r].key] : handlers[req[r].key][i] \notin Unwritable
    /\ req[r].pc = "failed" => OwnFile(r) \in Unwritable

-----------------------------------------------------------------------------
(* What the documents say and the code does not keep.                      *)

\* "The running daemon re-reads the JSON without interrupting clients" (README.md:150).
ClientsNotInterrupted == \A r \in Requests : (req[r].pc = "matching") ~> Answered(r)
=============================================================================
