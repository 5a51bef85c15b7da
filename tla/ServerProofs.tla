---------------------------- MODULE ServerProofs ----------------------------
(***************************************************************************)
(* What holds of Server for any number of requests, keys, SIGHUPs, genkey  *)
(* runs and edits, whatever the configurations are.                        *)
(***************************************************************************)
EXTENDS Server, ConfigFileProofs, SequenceTheorems

Frame == [pc : ReloadStates, new : Config]

\* A handler is only made for a key that has a log file.
AddingInv == \A r \in Requests : req[r].pc = "adding" => OwnFile(r) \in Files

TypeInv == TypeOK /\ frames \in Seq(Frame) /\ AddingInv

RequestNext(r) == Middleware(r) \/ FailBefore(r) \/ Tool(r)

-----------------------------------------------------------------------------
(* The stack of handlers.                                                  *)

\* Every step of a handler but the last one changes the top of the stack only.
LEMMA TopChanges ==
  ASSUME TypeInv, frames # <<>>, NEW f \in Frame, frames' = [frames EXCEPT ![Len(frames)] = f]
  PROVE  /\ frames' \in Seq(Frame) /\ frames' # <<>>
         /\ Len(frames') = Len(frames) /\ DOMAIN frames' = DOMAIN frames
         /\ frames'[Len(frames)] = f
         /\ \A i \in DOMAIN frames : i # Len(frames) => frames'[i] = frames[i]
<1>1. frames \in Seq(Frame) /\ Len(frames) \in Nat /\ DOMAIN frames = 1 .. Len(frames)
  BY LenProperties DEF TypeInv
<1>2. Len(frames) \in 1 .. Len(frames)
  BY <1>1, EmptySeq
<1>3. frames' \in Seq(Frame) /\ Len(frames') = Len(frames)
  BY <1>1, <1>2, ExceptSeq
<1>4. DOMAIN frames' = 1 .. Len(frames')
  BY <1>3, LenProperties
<1> QED BY <1>1, <1>2, <1>3, <1>4

LEMMA TopType ==
  ASSUME TypeInv, frames # <<>>
  PROVE  /\ Len(frames) \in Nat \ {0} /\ DOMAIN frames = 1 .. Len(frames)
         /\ Len(frames) \in DOMAIN frames
         /\ Top \in Frame
         /\ \A pc \in ReloadStates : [Top EXCEPT !.pc = pc] \in Frame
<1>1. frames \in Seq(Frame) /\ Len(frames) \in Nat /\ DOMAIN frames = 1 .. Len(frames)
  BY LenProperties DEF TypeInv
<1>2. Len(frames) \in 1 .. Len(frames)
  BY <1>1, EmptySeq
<1>3. Top \in Frame
  BY <1>1, <1>2, ElementOfSeq DEF Top
<1> QED BY <1>1, <1>2, <1>3 DEF Frame

LEMMA GotoChangesTop ==
  ASSUME TypeInv, frames # <<>>, NEW pc \in ReloadStates, Goto(pc)
  PROVE  /\ frames' \in Seq(Frame) /\ frames' # <<>>
         /\ Len(frames') = Len(frames) /\ DOMAIN frames' = DOMAIN frames
         /\ frames'[Len(frames)] = [Top EXCEPT !.pc = pc]
         /\ \A i \in DOMAIN frames : i # Len(frames) => frames'[i] = frames[i]
<1>1. [Top EXCEPT !.pc = pc] \in Frame
  BY TopType
<1>2. frames' = [frames EXCEPT ![Len(frames)] = [Top EXCEPT !.pc = pc]]
  BY DEF Goto, Top
<1> QED BY <1>1, <1>2, TopChanges

LEMMA WithOptionsType ==
  ASSUME NEW c \in Config
  PROVE  /\ WithOptions(c) \in Config
         /\ WithOptions(c).remote = c.remote /\ WithOptions(c).secrets = c.secrets
         /\ WithOptions(c).rootOk = c.rootOk
BY ServerAssumption DEF WithOptions, Config, Logging

-----------------------------------------------------------------------------
(* Types.                                                                  *)

LEMMA TypesStart == Init => TypeInv
<1> SUFFICES ASSUME Init PROVE TypeInv
  OBVIOUS
<1> DEFINE c == WithOptions(FirstConfig)
<1>1. FileTypeOK
  BY FileTypesStart DEF Init
<1>2. c \in Config
  BY ConfigAssumption, WithOptionsType
<1>3. (CHOOSE k \in KeyIds : TRUE) \in KeyIds
  BY ServerAssumption DEF Listed
<1> HIDE DEF c
<1>4. /\ cached = c /\ serving = c /\ stdio = c /\ rootFiles = RootFiles(c)
      /\ loggers = <<[global |-> c.logging, known |-> {}]>>
      /\ req = [r \in Requests |-> NoRequest(c)]
  BY DEF Init, c
<1>5. c.logging \in Logging /\ c.logging.file \in Files \cup {NoFile}
  BY <1>2 DEF Config, Logging
<1>6. rootFiles \subseteq Files
  BY <1>4, <1>5, ServerAssumption DEF RootFiles
<1>7. [global |-> c.logging, known |-> {}] \in Logger
  BY <1>5 DEF Logger
<1>8. loggers \in Seq(Logger) /\ loggers # <<>> /\ Len(loggers) = 1
  BY <1>4, <1>7
<1>9. req \in [Requests -> [pc : RequestStates, config : Config, token : Secrets \cup {NoSecret},
                            key : KeyIds, logger : 0 .. Len(loggers)]]
  BY <1>2, <1>3, <1>4, <1>8 DEF NoRequest, RequestStates
<1>10. frames \in Seq(Frame) /\ DOMAIN frames = {}
  BY EmptySeq DEF Init
<1>11. handlers \in [KeyIds -> Seq(Files)] /\ lines \in [Requests -> [Files -> Nat]]
  BY EmptySeq DEF Init, NoLines
<1>12. /\ locked = FALSE /\ signals \in 0 .. MaxSignals
       /\ inService \in [Requests -> SUBSET Config]
       /\ nested = FALSE /\ clashed = FALSE
  BY ServerAssumption DEF Init
<1>13. AddingInv
  BY <1>4 DEF AddingInv, NoRequest
<1> QED BY <1>1, <1>2, <1>4, <1>6, <1>8, <1>9, <1>10, <1>11, <1>12, <1>13 DEF TypeInv, TypeOK

LEMMA AddingKept == ASSUME AddingInv, req' = req PROVE AddingInv'
BY DEF AddingInv, OwnFile, Override

\* A step of the main thread keeps the types, if it keeps those of what it changes.
LEMMA MainTypes ==
  ASSUME TypeInv, UNCHANGED <<fileVars, workVars>>,
         cached' \in Config \cup {Broken}, rootFiles' \subseteq Files,
         serving' \in Config, stdio' \in Config, loggers' = loggers,
         frames' \in Seq(Frame), locked' \in BOOLEAN, signals' \in 0 .. MaxSignals,
         nested' \in BOOLEAN
  PROVE  TypeInv'
<1>1. \A i \in DOMAIN frames' : frames'[i] \in [pc : ReloadStates, new : Config]
  BY ElementOfSeq, LenProperties DEF Frame
<1>2. FileTypeOK'
  BY DEF TypeInv, TypeOK, FileTypeOK, fileVars
<1>3. UNCHANGED <<handlers, req, lines, inService, clashed>>
  BY DEF workVars
<1> QED BY <1>1, <1>2, <1>3, AddingKept DEF TypeInv, TypeOK

LEMMA SighupTypes == TypeInv /\ Sighup => TypeInv'
<1> SUFFICES ASSUME TypeInv, Sighup PROVE TypeInv'
  OBVIOUS
<1>1. [pc |-> "lock", new |-> serving] \in Frame
  BY DEF Frame, ReloadStates, TypeInv, TypeOK
<1>2. frames' \in Seq(Frame)
  BY <1>1, AppendProperties DEF Sighup, TypeInv
<1>3. signals' \in 0 .. MaxSignals
  BY ServerAssumption DEF Sighup, TypeInv, TypeOK
<1> QED BY <1>2, <1>3, MainTypes DEF Sighup, UnchangedBut, TypeInv, TypeOK

LEMMA ReloadTypes == TypeInv /\ Reload => TypeInv'
<1> SUFFICES ASSUME TypeInv, Reload PROVE TypeInv'
  OBVIOUS
<1>0. /\ cached \in Config \cup {Broken} /\ rootFiles \subseteq Files
      /\ serving \in Config /\ stdio \in Config
      /\ locked \in BOOLEAN /\ signals \in 0 .. MaxSignals /\ nested \in BOOLEAN
      /\ frames \in Seq(Frame) /\ content \in Config \cup {Broken}
  BY DEF TypeInv, TypeOK, FileTypeOK
<1>a. frames # <<>>
  BY DEF Reload, TakeLock, ResetCache, Load, RemoveHandlers, MakeHandlers, FillCache, Check,
         SetConfig, SetStdioKey, SetLogger, Unlock, At
<1>b. Top.new \in Config
  BY <1>a, TopType DEF Frame
<1>c. Top.new.logging.file \in Files \cup {NoFile} /\ Top.new.logging \in Logging
  BY <1>b DEF Config, Logging
<1>d. ASSUME NEW pc \in ReloadStates, Goto(pc) PROVE frames' \in Seq(Frame)
  BY <1>a, <1>d, GotoChangesTop
<1> USE DEF UnchangedBut, ReloadStates
<1>1. CASE TakeLock
  <2>1. frames' \in Seq(Frame)
    BY <1>1, <1>d DEF TakeLock
  <2> QED BY <1>0, <1>1, <2>1, MainTypes DEF TakeLock
<1>2. CASE ResetCache
  <2>1. frames' \in Seq(Frame)
    BY <1>2, <1>d DEF ResetCache
  <2> QED BY <1>0, <1>2, <2>1, MainTypes DEF ResetCache
<1>3. CASE Load
  <2>1. frames' \in Seq(Frame)
    <3>1. CASE cached # Broken
      <4>1. [pc |-> "check", new |-> cached] \in Frame
        BY <1>0, <3>1 DEF Frame
      <4> QED BY <1>3, <1>a, <3>1, <4>1, TopChanges DEF Load
    <3>2. CASE cached = Broken /\ content # Broken
      <4>1. [pc |-> "logging", new |-> WithOptions(content)] \in Frame
        BY <1>0, <3>2, WithOptionsType DEF Frame
      <4> QED BY <1>3, <1>a, <3>2, <4>1, TopChanges DEF Load
    <3>3. CASE cached = Broken /\ content = Broken
      <4>1. Goto("unlock")
        BY <1>3, <3>3 DEF Load, Goto
      <4> QED BY <4>1, <1>d
    <3> QED BY <3>1, <3>2, <3>3
  <2> QED BY <1>0, <1>3, <2>1, MainTypes DEF Load
<1>4. CASE RemoveHandlers
  <2>1. frames' \in Seq(Frame)
    BY <1>4, <1>d DEF RemoveHandlers
  <2> QED BY <1>0, <1>4, <2>1, MainTypes DEF RemoveHandlers
<1>5. CASE MakeHandlers
  <2>1. frames' \in Seq(Frame)
    BY <1>5, <1>d DEF MakeHandlers
  <2>2. rootFiles' \subseteq Files
    BY <1>0, <1>5, <1>c, ServerAssumption DEF MakeHandlers, RootFiles
  <2> QED BY <1>0, <1>5, <2>1, <2>2, MainTypes DEF MakeHandlers
<1>6. CASE FillCache
  <2>1. frames' \in Seq(Frame)
    BY <1>6, <1>d DEF FillCache
  <2> QED BY <1>0, <1>6, <1>b, <2>1, MainTypes DEF FillCache
<1>7. CASE Check
  <2>1. frames' \in Seq(Frame)
    BY <1>7, <1>d DEF Check
  <2> QED BY <1>0, <1>7, <2>1, MainTypes DEF Check
<1>8. CASE SetConfig
  <2>1. frames' \in Seq(Frame)
    BY <1>8, <1>d DEF SetConfig
  <2>2. \A i \in DOMAIN frames' : frames'[i] \in [pc : ReloadStates, new : Config]
    BY <2>1, ElementOfSeq, LenProperties DEF Frame
  <2>3. inService' \in [Requests -> SUBSET Config]
    BY <1>8, <1>b DEF SetConfig, TypeInv, TypeOK
  <2>4. FileTypeOK'
    BY <1>8 DEF SetConfig, TypeInv, TypeOK, FileTypeOK, fileVars
  <2> QED BY <1>0, <1>8, <1>b, <2>1, <2>2, <2>3, <2>4, AddingKept DEF SetConfig, TypeInv, TypeOK
<1>9. CASE SetStdioKey
  <2>1. frames' \in Seq(Frame)
    BY <1>9, <1>d DEF SetStdioKey
  <2> QED BY <1>0, <1>9, <1>b, <2>1, MainTypes DEF SetStdioKey
<1>10. CASE SetLogger
  <2>1. frames' \in Seq(Frame)
    BY <1>10, <1>d DEF SetLogger
  <2>2. \A i \in DOMAIN frames' : frames'[i] \in [pc : ReloadStates, new : Config]
    BY <2>1, ElementOfSeq, LenProperties DEF Frame
  <2>3. [global |-> Top.new.logging, known |-> {}] \in Logger
    BY <1>c DEF Logger
  <2>4. /\ loggers' \in Seq(Logger) /\ loggers' # <<>> /\ Len(loggers') = Len(loggers) + 1
        /\ Len(loggers) \in Nat
    <3> DEFINE g == [global |-> Top.new.logging, known |-> {}]
    <3>1. loggers \in Seq(Logger) /\ g \in Logger /\ loggers' = Append(loggers, g)
      BY <1>10, <2>3 DEF SetLogger, TypeInv, TypeOK
    <3> HIDE DEF g
    <3>2. loggers' \in Seq(Logger) /\ Len(loggers') = Len(loggers) + 1 /\ Len(loggers) \in Nat
      BY <3>1, AppendProperties, LenProperties
    <3> QED BY <3>2, EmptySeq
  <2>5. FileTypeOK'
    BY <1>10 DEF SetLogger, TypeInv, TypeOK, FileTypeOK, fileVars
  <2>6. \A n \in 0 .. Len(loggers) : n \in 0 .. Len(loggers')
    BY <2>4
  <2>7. req' \in [Requests -> [pc : RequestStates, config : Config, token : Secrets \cup {NoSecret},
                               key : KeyIds, logger : 0 .. Len(loggers')]]
    BY <1>10, <2>6 DEF SetLogger, workVars, TypeInv, TypeOK
  <2> QED BY <1>0, <1>10, <2>1, <2>2, <2>4, <2>5, <2>7, AddingKept DEF SetLogger, workVars, TypeInv, TypeOK
<1>11. CASE Unlock
  <2>1. frames' \in Seq(Frame)
    <3>1. Len(frames) \in Nat \ {0} /\ DOMAIN frames = 1 .. Len(frames)
      BY <1>a, TopType
    <3>2. 1 \in Int /\ Len(frames) - 1 \in Int /\ 1 .. Len(frames) - 1 \subseteq 1 .. Len(frames)
      BY <3>1
    <3> QED BY <1>0, <1>11, <3>1, <3>2, SubSeqProperties DEF Unlock
  <2> QED BY <1>0, <1>11, <2>1, MainTypes DEF Unlock
<1> QED BY <1>1, <1>2, <1>3, <1>4, <1>5, <1>6, <1>7, <1>8, <1>9, <1>10, <1>11 DEF Reload

\* What a request leaves alone: all that the handlers of SIGHUP use, but that it may be
\* remembered in a logger.
LEMMA RequestsLeave ==
  ASSUME TypeInv, NEW r \in Requests, RequestNext(r)
  PROVE  /\ UNCHANGED <<fileVars, cached, rootFiles, serving, stdio, frames, locked, signals, nested>>
         /\ loggers' \in Seq(Logger) /\ Len(loggers') = Len(loggers) /\ DOMAIN loggers' = DOMAIN loggers
         /\ \A n \in DOMAIN loggers : /\ loggers'[n].global = loggers[n].global
                                      /\ loggers[n].known \subseteq loggers'[n].known
<1>1. CASE RememberLogger(r)
  <2>1. /\ UNCHANGED <<fileVars, cached, rootFiles, serving, stdio, frames, locked, signals, nested>>
        /\ loggers' = [loggers EXCEPT ![req[r].logger].known = @ \cup {req[r].key}]
    BY <1>1 DEF RememberLogger
  <2>2. loggers \in Seq(Logger) /\ Len(loggers) \in Nat /\ DOMAIN loggers = 1 .. Len(loggers)
    BY LenProperties DEF TypeInv, TypeOK
  <2>3. loggers \in [1 .. Len(loggers) -> Logger]
    BY <2>2, LenProperties
  <2>4. req[r].key \in KeyIds
    BY DEF TypeInv, TypeOK
  <2>5. loggers' \in [1 .. Len(loggers) -> Logger]
    BY <2>1, <2>3, <2>4 DEF Logger
  <2>6. loggers' \in Seq(Logger)
    BY <2>2, <2>5, SeqDef
  <2>7. Len(loggers') = Len(loggers) /\ DOMAIN loggers' = DOMAIN loggers
    BY <2>2, <2>5, <2>6, LenProperties
  <2>8. \A n \in DOMAIN loggers : /\ loggers'[n].global = loggers[n].global
                                  /\ loggers[n].known \subseteq loggers'[n].known
    BY <2>1, <2>2, <2>3 DEF Logger
  <2> QED BY <2>1, <2>6, <2>7, <2>8
<1>2. CASE ~RememberLogger(r)
  <2>1. UNCHANGED <<fileVars, mainVars>>
    BY <1>2 DEF RequestNext, Middleware, Arrive, Authenticate, FailBefore, Tool, ReadLogger,
                FindLogger, AddHandler, Emit
  <2>2. loggers \in Seq(Logger)
    BY DEF TypeInv, TypeOK
  <2> QED BY <2>1, <2>2 DEF mainVars
<1> QED BY <1>1, <1>2

LEMMA ExtractedType == \A c \in Credentials : ExtractToken(c) \in Secrets \cup {NoSecret}
<1> SUFFICES ASSUME NEW c \in Credentials PROVE ExtractToken(c) \in Secrets \cup {NoSecret}
  OBVIOUS
<1>1. c \in Credential
  BY ServerAssumption
<1> QED BY <1>1 DEF ExtractToken, Credential

LEMMA TimesType ==
  ASSUME NEW s \in Seq(Files), NEW f \in Files
  PROVE  Times(f, s) \in Nat
<1>1. Len(s) \in Nat /\ DOMAIN s = 1 .. Len(s)
  BY LenProperties
<1>2. IsFiniteSet(DOMAIN s)
  BY <1>1, FS_Interval
<1>3. IsFiniteSet({i \in DOMAIN s : s[i] = f})
  BY <1>2, FS_Subset
<1> QED BY <1>3, FS_CardinalityType DEF Times

LEMMA RequestTypes == ASSUME TypeInv, NEW r \in Requests, RequestNext(r) PROVE TypeInv'
<1> USE DEF TypeInv
<1> DEFINE Request(n) == [pc : RequestStates, config : Config, token : Secrets \cup {NoSecret},
                          key : KeyIds, logger : 0 .. n]
<1>1. /\ UNCHANGED <<fileVars, cached, rootFiles, serving, stdio, frames, locked, signals, nested>>
      /\ loggers' \in Seq(Logger) /\ Len(loggers') = Len(loggers)
  BY RequestsLeave
<1>2. FileTypeOK'
  BY <1>1 DEF TypeOK, FileTypeOK, fileVars
<1>3. Len(loggers) \in Nat /\ loggers' # <<>>
  BY <1>1, EmptySeq, LenProperties DEF TypeOK
<1>4. /\ req \in [Requests -> Request(Len(loggers))]
      /\ handlers \in [KeyIds -> Seq(Files)] /\ lines \in [Requests -> [Files -> Nat]]
      /\ inService \in [Requests -> SUBSET Config] /\ clashed \in BOOLEAN
      /\ serving \in Config
  BY DEF TypeOK
<1>5. req[r] \in Request(Len(loggers))
  BY <1>4
<1>6. ASSUME NEW pc \in RequestStates, Step(r, pc)
      PROVE  /\ req' \in [Requests -> Request(Len(loggers))]
             /\ pc # "adding" => AddingInv'
  BY <1>4, <1>5, <1>6 DEF Step, AddingInv, OwnFile, Override
<1>7. ASSUME req' \in [Requests -> Request(Len(loggers))],
             handlers' \in [KeyIds -> Seq(Files)], lines' \in [Requests -> [Files -> Nat]],
             inService' \in [Requests -> SUBSET Config], clashed' \in BOOLEAN, AddingInv'
      PROVE  TypeInv'
  BY <1>1, <1>2, <1>3, <1>7 DEF TypeOK
<1> HIDE DEF Request
<1> USE DEF RequestStates
<1>8. ASSUME NEW c \in Credentials, Arrive(r, c) PROVE TypeInv'
  <2>1. ExtractToken(c) \in Secrets \cup {NoSecret}
    BY ExtractedType
  <2>2. req' \in [Requests -> Request(Len(loggers))]
    BY <1>4, <1>5, <1>8, <2>1 DEF Arrive, Request
  <2>3. AddingInv'
    BY <1>4, <1>8 DEF Arrive, AddingInv, OwnFile, Override
  <2> QED BY <1>4, <1>7, <1>8, <2>2, <2>3 DEF Arrive
<1>9. CASE Authenticate(r)
  <2>1. CASE Matching(r) = {}
    <3>1. req' \in [Requests -> Request(Len(loggers))] /\ AddingInv'
      BY <1>6, <1>9, <2>1 DEF Authenticate
    <3> QED BY <1>4, <1>7, <1>9, <3>1 DEF Authenticate
  <2>2. CASE Matching(r) # {}
    <3>1. PICK k \in Matching(r) : req' = [req EXCEPT ![r].pc = "running", ![r].key = k]
      BY <1>9, <2>2 DEF Authenticate
    <3>2. k \in KeyIds
      BY <3>1 DEF Matching
    <3>3. req' \in [Requests -> Request(Len(loggers))]
      BY <1>4, <1>5, <3>1, <3>2 DEF Request
    <3>4. AddingInv'
      BY <1>4, <3>1 DEF AddingInv, OwnFile, Override
    <3> QED BY <1>4, <1>7, <1>9, <3>3, <3>4 DEF Authenticate
  <2> QED BY <2>1, <2>2
<1>10. CASE FailBefore(r)
  <2>1. req' \in [Requests -> Request(Len(loggers))] /\ AddingInv'
    BY <1>6, <1>10 DEF FailBefore
  <2> QED BY <1>4, <1>7, <1>10, <2>1 DEF FailBefore
<1>11. CASE ReadLogger(r)
  <2>1. Len(loggers) \in 0 .. Len(loggers)
    BY <1>3
  <2> DEFINE n == Len(loggers)
  <2>2. req' \in [Requests -> Request(n)]
    <3>1. n \in 0 .. n /\ req \in [Requests -> Request(n)] /\ req[r] \in Request(n)
          /\ req' = [req EXCEPT ![r].pc = "entry", ![r].logger = n]
      BY <1>4, <1>5, <1>11, <2>1 DEF ReadLogger
    <3> HIDE DEF n
    <3> QED BY <3>1 DEF Request
  <2>3. AddingInv'
    BY <1>4, <1>11 DEF ReadLogger, AddingInv, OwnFile, Override
  <2> QED BY <1>4, <1>7, <1>11, <2>2, <2>3 DEF ReadLogger
<1>12. CASE FindLogger(r)
  <2>1. req' \in [Requests -> Request(Len(loggers))]
    BY <1>6, <1>12 DEF FindLogger
  <2>2. clashed' \in BOOLEAN
    BY <1>4, <1>12 DEF FindLogger
  <2>3. AddingInv'
    <3>1. \A s \in Requests : /\ req'[s].config = req[s].config /\ req'[s].key = req[s].key
                              /\ s # r => req'[s].pc = req[s].pc
      BY <1>4, <1>12 DEF FindLogger, Step
    <3>2. \A s \in Requests : OwnFile(s)' = OwnFile(s)
      BY <3>1 DEF OwnFile, Override
    <3>3. req'[r].pc = "adding" => OwnFile(r) \in Files
      <4>1. Override(r) \in Logging \cup {Inherit}
        BY <1>5 DEF Override, Request, Config
      <4>2. OwnFile(r) \in Files \cup {NoFile}
        BY <4>1 DEF OwnFile, Logging
      <4> QED BY <1>4, <1>12, <4>2 DEF FindLogger, Step
    <3> QED BY <3>1, <3>2, <3>3 DEF AddingInv
  <2> QED BY <1>4, <1>7, <1>12, <2>1, <2>2, <2>3 DEF FindLogger
<1>13. CASE AddHandler(r)
  <2>1. req' \in [Requests -> Request(Len(loggers))] /\ AddingInv'
    BY <1>6, <1>13 DEF AddHandler
  <2>2. handlers' \in [KeyIds -> Seq(Files)]
    <3>1. OwnFile(r) \in Files /\ req[r].key \in KeyIds
      BY <1>5, <1>13 DEF AddHandler, AddingInv, Request
    <3>2. Append(handlers[req[r].key], OwnFile(r)) \in Seq(Files)
      BY <1>4, <3>1, AppendProperties
    <3> QED BY <1>4, <1>13, <3>2 DEF AddHandler
  <2> QED BY <1>4, <1>7, <1>13, <2>1, <2>2 DEF AddHandler
<1>14. CASE RememberLogger(r)
  <2>1. req' \in [Requests -> Request(Len(loggers))] /\ AddingInv'
    BY <1>6, <1>14 DEF RememberLogger
  <2> QED BY <1>4, <1>7, <1>14, <2>1 DEF RememberLogger
<1>15. CASE Emit(r)
  <2>1. req' \in [Requests -> Request(Len(loggers))] /\ AddingInv'
    BY <1>6, <1>15 DEF Emit
  <2>2. handlers[req[r].key] \in Seq(Files)
    BY <1>4, <1>5 DEF Request
  <2>3. \A f \in Files : (IF OwnFile(r) = NoFile THEN 0 ELSE Times(f, handlers[req[r].key]))
                           + (IF f \in rootFiles THEN 1 ELSE 0) \in Nat
    BY <2>2, TimesType
  <2>4. lines' \in [Requests -> [Files -> Nat]]
    BY <1>4, <1>15, <2>3 DEF Emit
  <2> QED BY <1>4, <1>7, <1>15, <2>1, <2>4 DEF Emit
<1> QED BY <1>8, <1>9, <1>10, <1>11, <1>12, <1>13, <1>14, <1>15 DEF RequestNext, Middleware, Tool

\* A step is one of these.
LEMMA StepCases ==
  ASSUME [Next]_vars
  PROVE  \/ UNCHANGED vars
         \/ FileNext /\ UNCHANGED <<mainVars, workVars>>
         \/ Sighup
         \/ Reload
         \/ \E r \in Requests : RequestNext(r)
BY DEF Next, RequestNext

LEMMA TypesKeep == TypeInv /\ [Next]_vars => TypeInv'
<1> SUFFICES ASSUME TypeInv, [Next]_vars PROVE TypeInv'
  OBVIOUS
<1>1. CASE [FileNext]_fileVars /\ UNCHANGED <<mainVars, workVars>>
  <2>1. FileTypeOK'
    BY <1>1, FileTypesKeep DEF TypeInv, TypeOK
  <2>2. AddingInv'
    BY <1>1, AddingKept DEF workVars, TypeInv
  <2> QED BY <1>1, <2>1, <2>2 DEF mainVars, workVars, TypeInv, TypeOK
<1>2. CASE UNCHANGED vars
  BY <1>1, <1>2 DEF vars
<1> QED BY <1>1, <1>2, SighupTypes, ReloadTypes, RequestTypes, StepCases

LEMMA TypesHold == Spec => []TypeInv
BY TypesStart, TypesKeep, PTL DEF Spec

\* The server's state, its handlers and its requests stay well typed whatever the file
\* holds, and every request refers to a logger that exists.
THEOREM ServerTypeCorrect == Spec => []TypeOK
<1>1. TypeInv => TypeOK
  BY DEF TypeInv
<1> QED BY <1>1, TypesHold, PTL

-----------------------------------------------------------------------------
(* Reloads.  One handler at most is past its lock.  While it is between    *)
(* two assignments, its place says which parts of the state belong         *)
(* together; everywhere else they all do.                                  *)

StackInv ==
  /\ ~nested => Len(frames) <= 1
  /\ locked <=> \E i \in DOMAIN frames : frames[i].pc # "lock"
  /\ \A i, j \in DOMAIN frames : frames[i].pc # "lock" /\ frames[j].pc # "lock" => i = j

\* The parts of the server's state belong to one configuration.
Whole ==
  \/ stdio = serving /\ loggers[Len(loggers)].global = serving.logging
  \/ ~serving.rootOk

\* The log goes where the cached configuration says.
Follows == IF cached # Broken THEN rootFiles = RootFiles(cached) ELSE Stderr \in rootFiles

\* What a handler at f.pc has done so far.
Reached(f) ==
  /\ f.pc = "config" => Usable(f.new)
  /\ f.pc \in {"stdio", "logger"} => serving = f.new
  /\ f.pc = "logger" => stdio = serving
  /\ f.pc \in {"load", "logging"} => cached = Broken /\ Stderr \in rootFiles
  /\ f.pc = "handler" => cached = Broken /\ rootFiles = {}
  /\ f.pc = "cache" => cached = Broken /\ rootFiles = RootFiles(f.new)

ReloadInv ==
  /\ Usable(serving)
  /\ \A i \in DOMAIN frames : Reached(frames[i])
  /\ (\A i \in DOMAIN frames : frames[i].pc \notin {"stdio", "logger"}) => Whole
  /\ (\A i \in DOMAIN frames : frames[i].pc \notin {"handler", "cache"}) => Follows

LEMMA ReloadsStart == Init => StackInv /\ ReloadInv
<1> SUFFICES ASSUME Init PROVE StackInv /\ ReloadInv
  OBVIOUS
<1> DEFINE c == WithOptions(FirstConfig)
<1>1. Usable(c)
  BY ConfigAssumption, ServerAssumption, WithOptionsType DEF Usable, Listed
<1>2. c \in Config /\ c # Broken
  BY ConfigAssumption, WithOptionsType
<1> HIDE DEF c
<1>3. /\ frames = <<>> /\ DOMAIN frames = {} /\ Len(frames) = 0 /\ locked = FALSE
      /\ cached = c /\ serving = c /\ stdio = c /\ rootFiles = RootFiles(c)
      /\ loggers = <<[global |-> c.logging, known |-> {}]>>
  BY DEF Init, c
<1>4. loggers[Len(loggers)].global = c.logging
  BY <1>3
<1> QED BY <1>1, <1>2, <1>3, <1>4 DEF StackInv, ReloadInv, Whole, Follows

\* A handler that moves on is the one past its lock, and the others wait for theirs.
LEMMA TopMoves ==
  ASSUME TypeInv, StackInv, Reload, ~Unlock
  PROVE  /\ frames # <<>> /\ Len(frames) \in DOMAIN frames
         /\ Len(frames') = Len(frames) /\ DOMAIN frames' = DOMAIN frames
         /\ frames'[Len(frames)].pc # "lock"
         /\ \A i \in DOMAIN frames : i # Len(frames) => frames[i].pc = "lock" /\ frames'[i] = frames[i]
<1>1. frames # <<>>
  BY DEF Reload, TakeLock, ResetCache, Load, RemoveHandlers, MakeHandlers, FillCache, Check,
         SetConfig, SetStdioKey, SetLogger, Unlock, At
<1>2. Len(frames) \in DOMAIN frames /\ Top = frames[Len(frames)] /\ Top \in Frame
  BY <1>1, TopType DEF Top
<1>3. \A i \in DOMAIN frames : i # Len(frames) => frames[i].pc = "lock"
  <2>1. CASE TakeLock
    BY <2>1 DEF TakeLock, StackInv
  <2>2. CASE ~TakeLock
    <3>1. Top.pc # "lock"
      BY <2>2 DEF Reload, ResetCache, Load, RemoveHandlers, MakeHandlers, FillCache, Check,
                  SetConfig, SetStdioKey, SetLogger, At
    <3> QED BY <1>2, <3>1 DEF StackInv
  <2> QED BY <2>1, <2>2
<1>4. ASSUME NEW pc \in ReloadStates \ {"lock"}, Goto(pc)
      PROVE  /\ Len(frames') = Len(frames) /\ DOMAIN frames' = DOMAIN frames
             /\ frames'[Len(frames)].pc # "lock"
             /\ \A i \in DOMAIN frames : i # Len(frames) => frames'[i] = frames[i]
  BY <1>1, <1>2, <1>4, GotoChangesTop DEF Frame
<1>5. CASE ~Load
  <2>1. PICK pc \in ReloadStates \ {"lock"} : Goto(pc)
    BY <1>5 DEF Reload, TakeLock, ResetCache, RemoveHandlers, MakeHandlers, FillCache, Check,
                SetConfig, SetStdioKey, SetLogger, ReloadStates
  <2> QED BY <1>1, <1>2, <1>3, <1>4, <2>1
<1>6. CASE Load
  <2>1. CASE cached = Broken /\ content = Broken
    <3>1. Goto("unlock")
      BY <1>6, <2>1 DEF Load, Goto
    <3> QED BY <1>1, <1>2, <1>3, <1>4, <3>1 DEF ReloadStates
  <2>2. CASE ~(cached = Broken /\ content = Broken)
    <3>1. PICK f \in Frame : f.pc # "lock" /\ frames' = [frames EXCEPT ![Len(frames)] = f]
      <4>1. cached \in Config \cup {Broken} /\ content \in Config \cup {Broken}
        BY DEF TypeInv, TypeOK, FileTypeOK
      <4>2. CASE cached # Broken
        <5>1. [pc |-> "check", new |-> cached] \in Frame
          BY <4>1, <4>2 DEF Frame, ReloadStates
        <5> QED BY <1>6, <4>2, <5>1 DEF Load
      <4>3. CASE cached = Broken
        <5>1. [pc |-> "logging", new |-> WithOptions(content)] \in Frame
          BY <2>2, <4>1, <4>3, WithOptionsType DEF Frame, ReloadStates
        <5> QED BY <1>6, <2>2, <4>3, <5>1 DEF Load
      <4> QED BY <4>2, <4>3
    <3> QED BY <1>1, <1>2, <1>3, <3>1, TopChanges
  <2> QED BY <2>1, <2>2
<1> QED BY <1>5, <1>6

\* The last step of a handler takes it off the stack.
LEMMA TopLeaves ==
  ASSUME TypeInv, StackInv, Unlock
  PROVE  /\ Len(frames) \in Nat \ {0} /\ Len(frames') = Len(frames) - 1
         /\ Len(frames) \in DOMAIN frames /\ frames[Len(frames)].pc = "unlock"
         /\ DOMAIN frames' = DOMAIN frames \ {Len(frames)}
         /\ \A i \in DOMAIN frames' : frames'[i] = frames[i] /\ frames[i].pc = "lock"
<1>1. frames # <<>> /\ Top.pc = "unlock" /\ frames' = SubSeq(frames, 1, Len(frames) - 1)
  BY DEF Unlock, At
<1>2. Len(frames) \in Nat \ {0} /\ DOMAIN frames = 1 .. Len(frames) /\ frames \in Seq(Frame)
  BY <1>1, TopType DEF TypeInv
<1>3. \A i \in 1 .. Len(frames) - 1 : frames[i] \in Frame
  BY <1>2, ElementOfSeq
<1>4. 1 \in Int /\ Len(frames) - 1 \in Int
  BY <1>2
<1> DEFINE n == Len(frames)
<1>5. /\ frames' \in Seq(Frame)
      /\ Len(frames') = IF 1 <= n - 1 THEN n - 1 - 1 + 1 ELSE 0
      /\ \A i \in 1 .. n - 1 - 1 + 1 : frames'[i] = frames[1 + i - 1]
  BY <1>1, <1>3, <1>4, SubSeqProperties
<1>a. n \in Nat \ {0}
  BY <1>2
<1>b. DOMAIN frames' = 1 .. Len(frames')
  BY <1>5, LenProperties
<1> HIDE DEF n
<1>6. Len(frames') = n - 1
  BY <1>5, <1>a
<1>7. DOMAIN frames' = (1 .. n) \ {n}
  BY <1>6, <1>a, <1>b
<1>8. \A i \in DOMAIN frames' : frames'[i] = frames[i]
  <2> SUFFICES ASSUME NEW i \in 1 .. n - 1 PROVE frames'[i] = frames[i]
    BY <1>6, <1>b
  <2>1. i \in 1 .. n - 1 - 1 + 1 /\ 1 + i - 1 = i
    BY <1>a
  <2> QED BY <1>5, <2>1
<1> USE DEF n
<1> QED BY <1>1, <1>2, <1>6, <1>7, <1>8 DEF StackInv, Top

\* A SIGHUP puts a handler that waits for the lock on the stack.
LEMMA TopArrives ==
  ASSUME TypeInv, Sighup
  PROVE  /\ Len(frames) \in Nat /\ Len(frames') = Len(frames) + 1
         /\ DOMAIN frames = 1 .. Len(frames)
         /\ DOMAIN frames' = DOMAIN frames \cup {Len(frames')}
         /\ frames'[Len(frames')].pc = "lock"
         /\ \A i \in DOMAIN frames : frames'[i] = frames[i]
<1> DEFINE f == [pc |-> "lock", new |-> serving]
<1>1. frames \in Seq(Frame) /\ f \in Frame /\ frames' = Append(frames, f) /\ f.pc = "lock"
  BY DEF Sighup, Frame, ReloadStates, TypeInv, TypeOK
<1> HIDE DEF f
<1>2. /\ frames' \in Seq(Frame) /\ Len(frames') = Len(frames) + 1
      /\ \A i \in 1 .. Len(frames) : frames'[i] = frames[i]
      /\ frames'[Len(frames) + 1] = f
  BY <1>1, AppendProperties
<1>3. Len(frames) \in Nat /\ DOMAIN frames = 1 .. Len(frames) /\ DOMAIN frames' = 1 .. Len(frames')
  BY <1>1, <1>2, LenProperties
<1> QED BY <1>1, <1>2, <1>3

LEMMA StackKeeps == TypeInv /\ StackInv /\ [Next]_vars => StackInv'
<1> SUFFICES ASSUME TypeInv, StackInv, [Next]_vars PROVE StackInv'
  OBVIOUS
<1>1. CASE UNCHANGED <<frames, locked, nested>>
  BY <1>1 DEF StackInv
<1>2. CASE Sighup
  <2>1. frames = <<>> => Len(frames) = 0
    OBVIOUS
  <2>2. frames # <<>> => nested'
    BY <1>2 DEF Sighup
  <2>3. locked' = locked
    BY <1>2 DEF Sighup, UnchangedBut
  <2> QED BY <1>2, <2>1, <2>2, <2>3, TopArrives DEF StackInv
<1>3. CASE Reload /\ ~Unlock
  <2>1. locked' /\ nested' = nested
    <3>1. CASE TakeLock
      BY <3>1 DEF TakeLock, UnchangedBut
    <3>2. CASE ~TakeLock
      <4>1. locked' = locked /\ nested' = nested /\ Top.pc # "lock"
        BY <1>3, <3>2 DEF Reload, ResetCache, Load, RemoveHandlers, MakeHandlers, FillCache, Check,
                  SetConfig, SetStdioKey, SetLogger, UnchangedBut, At
      <4> QED BY <1>3, <4>1, TopMoves DEF StackInv, Top
    <3> QED BY <3>1, <3>2
  <2> QED BY <1>3, <2>1, TopMoves DEF StackInv
<1>4. CASE Unlock
  <2>1. locked' = FALSE /\ nested' = nested
    BY <1>4 DEF Unlock, UnchangedBut
  <2> QED BY <1>4, <2>1, TopLeaves DEF StackInv
<1>5. ASSUME NEW r \in Requests, RequestNext(r) PROVE StackInv'
  BY <1>1, <1>5, RequestsLeave
<1> QED BY <1>1, <1>2, <1>3, <1>4, <1>5, StepCases DEF vars, mainVars

LEMMA StackHolds == Spec => []StackInv
BY TypesHold, ReloadsStart, StackKeeps, PTL DEF Spec

\* The event loop hangs in a reload only after a SIGHUP has interrupted the handler of
\* another: every reload by itself gives the lock back, also one that fails
\* (server.py 507-517).
THEOREM HangsOnlyIfNested == Spec => []StuckOnlyIfNested
<1>1. TypeInv /\ StackInv => StuckOnlyIfNested
  <2> SUFFICES ASSUME TypeInv, StackInv PROVE StuckOnlyIfNested
    OBVIOUS
  <2>1. Idle => ~locked
    BY DEF Idle, StackInv
  <2>2. ASSUME Stuck PROVE nested
    <3>1. frames # <<>> /\ Top.pc = "lock" /\ locked
      BY <2>2 DEF Stuck, At
    <3>2. Len(frames) \in Nat /\ DOMAIN frames = 1 .. Len(frames)
      BY <3>1, TopType
    <3>3. PICK i \in DOMAIN frames : frames[i].pc # "lock"
      BY <3>1 DEF StackInv
    <3>4. i # Len(frames)
      BY <3>1, <3>3 DEF Top
    <3> QED BY <3>2, <3>3, <3>4 DEF StackInv
  <2> QED BY <2>1, <2>2 DEF StuckOnlyIfNested
<1> QED BY <1>1, TypesHold, StackHolds, PTL

\* All that a step of a handler must see to is its own place.
LEMMA TopDecides ==
  ASSUME TypeInv, StackInv, Reload, ~Unlock, Usable(serving'), Reached(Top)',
         Top'.pc \notin {"stdio", "logger"} => Whole',
         Top'.pc \notin {"handler", "cache"} => Follows'
  PROVE  ReloadInv'
<1>1. /\ Top' = frames'[Len(frames)] /\ Len(frames) \in DOMAIN frames'
      /\ \A i \in DOMAIN frames' : i # Len(frames) => frames'[i].pc = "lock"
  BY TopMoves DEF Top
<1>2. \A i \in DOMAIN frames' : i # Len(frames) => Reached(frames[i])'
  BY <1>1 DEF Reached
<1>3. Reached(frames[Len(frames)])'
  BY TopMoves DEF Top
<1>4. \A i \in DOMAIN frames' : Reached(frames[i])'
  <2> SUFFICES ASSUME NEW i \in DOMAIN frames' PROVE Reached(frames[i])'
    OBVIOUS
  <2>1. CASE i # Len(frames)
    BY <1>2, <2>1
  <2>2. CASE i = Len(frames)
    <3>1. Len(frames') = Len(frames)
      BY TopMoves
    <3> QED BY <1>3, <2>2, <3>1 DEF Reached
  <2> QED BY <2>1, <2>2
<1> QED BY <1>1, <1>4 DEF ReloadInv

\* Where a handler is that goes on.
LEMMA GotoReaches ==
  ASSUME TypeInv, frames # <<>>, NEW pc \in ReloadStates, Goto(pc)
  PROVE  Top' \in Frame /\ Top'.pc = pc /\ Top'.new = Top.new
<1>1. Top \in Frame /\ Len(frames) \in DOMAIN frames
  BY TopType
<1>2. frames'[Len(frames)] = [Top EXCEPT !.pc = pc] /\ Len(frames') = Len(frames)
  BY GotoChangesTop
<1>3. Top' = frames'[Len(frames')]
  BY DEF Top
<1> QED BY <1>1, <1>2, <1>3 DEF Frame

LEMMA ReloadKeeps == TypeInv /\ StackInv /\ ReloadInv /\ Reload => ReloadInv'
<1> SUFFICES ASSUME TypeInv, StackInv, ReloadInv, Reload PROVE ReloadInv'
  OBVIOUS
<1> USE DEF UnchangedBut, ReloadStates
<1>1. frames # <<>> /\ Len(frames) \in DOMAIN frames /\ Top \in Frame /\ Top = frames[Len(frames)]
  <2>1. frames # <<>>
    BY DEF Reload, TakeLock, ResetCache, Load, RemoveHandlers, MakeHandlers, FillCache, Check,
           SetConfig, SetStdioKey, SetLogger, Unlock, At
  <2> QED BY <2>1, TopType DEF Top
<1>2. Usable(serving) /\ Reached(Top)
  BY <1>1 DEF ReloadInv
<1>3. ~Unlock /\ Top.pc \notin {"stdio", "logger"} => Whole
  BY <1>1, TopMoves DEF ReloadInv
<1>4. ~Unlock /\ Top.pc \notin {"handler", "cache"} => Follows
  BY <1>1, TopMoves DEF ReloadInv
<1>5. Top.new \in Config /\ Top.new # Broken
  BY <1>1, ConfigAssumption DEF Frame
<1>6. CASE TakeLock
  <2>1. ~Unlock /\ Top'.pc = "reset"
    BY <1>1, <1>6, GotoReaches DEF TakeLock, Unlock, At
  <2>2. Top.pc = "lock" /\ UNCHANGED <<cached, rootFiles, serving, stdio, loggers>>
    BY <1>6 DEF TakeLock, At
  <2>3. Whole' /\ Follows'
    BY <1>3, <1>4, <2>1, <2>2 DEF Whole, Follows
  <2>4. Reached(Top)'
    BY <2>1 DEF Reached
  <2> QED BY <1>2, <2>1, <2>2, <2>3, <2>4, TopDecides
<1>7. CASE ResetCache
  <2>1. ~Unlock /\ Top'.pc = "load"
    BY <1>1, <1>7, GotoReaches DEF ResetCache, Unlock, At
  <2>2. Top.pc = "reset" /\ cached' = Broken /\ UNCHANGED <<rootFiles, serving, stdio, loggers>>
    BY <1>7 DEF ResetCache, At
  <2>3. Whole' /\ Stderr \in rootFiles
    BY <1>3, <1>4, <2>1, <2>2 DEF Whole, Follows, RootFiles
  <2>4. Reached(Top)' /\ Follows'
    BY <2>1, <2>2, <2>3 DEF Reached, Follows
  <2> QED BY <1>2, <2>1, <2>2, <2>3, <2>4, TopDecides
<1>8. CASE Load
  <2>1. ~Unlock /\ Top.pc = "load" /\ UNCHANGED <<cached, rootFiles, serving, stdio, loggers>>
    BY <1>8 DEF Load, Unlock, At
  <2>2. cached = Broken /\ Stderr \in rootFiles
    BY <1>2, <2>1 DEF Reached
  <2>3. Whole' /\ Follows'
    BY <1>3, <1>4, <2>1 DEF Whole, Follows
  <2>4. Top'.pc \in {"logging", "unlock"}
    <3>1. CASE content = Broken
      <4>1. Goto("unlock")
        BY <1>8, <2>2, <3>1 DEF Load, Goto
      <4> QED BY <1>1, <4>1, GotoReaches
    <3>2. CASE content # Broken
      <4>1. content \in Config
        BY <3>2 DEF TypeInv, TypeOK, FileTypeOK
      <4> DEFINE f == [pc |-> "logging", new |-> WithOptions(content)]
      <4>2. f \in Frame /\ f.pc = "logging"
        BY <4>1, WithOptionsType DEF Frame
      <4>3. frames' = [frames EXCEPT ![Len(frames)] = f]
        BY <1>8, <2>2, <3>2 DEF Load
      <4> HIDE DEF f
      <4>4. frames'[Len(frames)] = f /\ Len(frames') = Len(frames)
        BY <1>1, <4>2, <4>3, TopChanges
      <4> QED BY <4>2, <4>4 DEF Top
    <3> QED BY <3>1, <3>2
  <2>5. Reached(Top)'
    BY <2>1, <2>2, <2>4 DEF Reached
  <2> QED BY <1>2, <2>1, <2>3, <2>5, TopDecides
<1>9. CASE RemoveHandlers
  <2>1. ~Unlock /\ Top'.pc = "handler"
    BY <1>1, <1>9, GotoReaches DEF RemoveHandlers, Unlock, At
  <2>2. Top.pc = "logging" /\ rootFiles' = {} /\ UNCHANGED <<cached, serving, stdio, loggers>>
    BY <1>9 DEF RemoveHandlers, At
  <2>3. Whole' /\ Reached(Top)'
    BY <1>2, <1>3, <2>1, <2>2 DEF Whole, Reached
  <2> QED BY <1>2, <2>1, <2>2, <2>3, TopDecides
<1>10. CASE MakeHandlers
  <2>1. ~Unlock /\ Top.pc = "handler" /\ UNCHANGED <<cached, serving, stdio, loggers>>
    BY <1>10 DEF MakeHandlers, Unlock, At
  <2>2. cached = Broken /\ Whole'
    BY <1>2, <1>3, <2>1 DEF Reached, Whole
  <2>3. CASE Top.new.logging.file \in Unwritable
    <3>1. Top'.pc = "unlock" /\ Stderr \in rootFiles'
      BY <1>1, <1>10, <2>3, GotoReaches DEF MakeHandlers
    <3>2. Reached(Top)' /\ Follows'
      BY <2>1, <2>2, <3>1 DEF Reached, Follows
    <3> QED BY <1>2, <2>1, <2>2, <3>2, TopDecides
  <2>4. CASE Top.new.logging.file \notin Unwritable
    <3>1. Top'.pc = "cache" /\ Top'.new = Top.new /\ rootFiles' = rootFiles \cup RootFiles(Top.new)
      BY <1>1, <1>10, <2>4, GotoReaches DEF MakeHandlers
    <3>2. rootFiles = {}
      BY <1>2, <2>1 DEF Reached
    <3>3. Reached(Top)'
      BY <2>1, <2>2, <3>1, <3>2 DEF Reached, RootFiles
    <3> QED BY <1>2, <2>1, <2>2, <3>1, <3>3, TopDecides
  <2> QED BY <2>3, <2>4
<1>11. CASE FillCache
  <2>1. ~Unlock /\ Top'.pc = "check" /\ Top'.new = Top.new
    BY <1>1, <1>11, GotoReaches DEF FillCache, Unlock, At
  <2>2. Top.pc = "cache" /\ cached' = Top.new /\ UNCHANGED <<rootFiles, serving, stdio, loggers>>
    BY <1>11 DEF FillCache, At
  <2>3. rootFiles = RootFiles(Top.new)
    BY <1>2, <2>2 DEF Reached
  <2>4. Whole' /\ Follows' /\ Reached(Top)'
    BY <1>3, <1>5, <2>1, <2>2, <2>3 DEF Whole, Follows, Reached, RootFiles
  <2> QED BY <1>2, <2>1, <2>2, <2>4, TopDecides
<1>12. CASE Check
  <2>1. ~Unlock /\ Top.pc = "check" /\ UNCHANGED <<cached, rootFiles, serving, stdio, loggers>>
    BY <1>12 DEF Check, Unlock, At
  <2>2. Top'.pc = (IF Usable(Top.new) THEN "config" ELSE "unlock") /\ Top'.new = Top.new
    BY <1>1, <1>12, GotoReaches DEF Check
  <2>3. Whole' /\ Follows'
    BY <1>3, <1>4, <2>1 DEF Whole, Follows
  <2>4. Reached(Top)'
    BY <2>2 DEF Reached
  <2> QED BY <1>2, <2>1, <2>3, <2>4, TopDecides
<1>13. CASE SetConfig
  <2>1. ~Unlock /\ Top'.pc = "stdio" /\ Top'.new = Top.new
    BY <1>1, <1>13, GotoReaches DEF SetConfig, Unlock, At
  <2>2. Top.pc = "config" /\ serving' = Top.new /\ UNCHANGED <<cached, rootFiles>>
    BY <1>13 DEF SetConfig, At
  <2>3. Usable(serving')
    BY <1>2, <2>2 DEF Reached
  <2>4. Follows' /\ Reached(Top)'
    BY <1>4, <2>1, <2>2 DEF Follows, Reached
  <2> QED BY <2>1, <2>3, <2>4, TopDecides
<1>14. CASE SetStdioKey
  <2>1. ~Unlock /\ Top.pc = "stdio" /\ UNCHANGED <<cached, rootFiles, serving, loggers>>
    BY <1>14 DEF SetStdioKey, Unlock, At
  <2>2. serving = Top.new /\ Follows'
    BY <1>2, <1>4, <2>1 DEF Reached, Follows
  <2>3. CASE Top.new.rootOk
    <3>1. Top'.pc = "logger" /\ Top'.new = Top.new /\ stdio' = Top.new
      BY <1>1, <1>14, <2>3, GotoReaches DEF SetStdioKey
    <3>2. Reached(Top)'
      BY <2>1, <2>2, <3>1 DEF Reached
    <3> QED BY <1>2, <2>1, <2>2, <3>1, <3>2, TopDecides
  <2>4. CASE ~Top.new.rootOk
    <3>1. Top'.pc = "unlock"
      BY <1>1, <1>14, <2>4, GotoReaches DEF SetStdioKey
    <3>2. Reached(Top)' /\ Whole'
      BY <2>1, <2>2, <2>4, <3>1 DEF Reached, Whole
    <3> QED BY <1>2, <2>1, <2>2, <3>2, TopDecides
  <2> QED BY <2>3, <2>4
<1>15. CASE SetLogger
  <2>1. ~Unlock /\ Top'.pc = "unlock"
    BY <1>1, <1>15, GotoReaches DEF SetLogger, Unlock, At
  <2>2. Top.pc = "logger" /\ UNCHANGED <<cached, rootFiles, serving, stdio>>
    BY <1>15 DEF SetLogger, At
  <2>3. serving = Top.new /\ stdio = serving
    BY <1>2, <2>2 DEF Reached
  <2>4. loggers'[Len(loggers')].global = serving.logging
    <3> DEFINE g == [global |-> Top.new.logging, known |-> {}]
    <3>1. loggers \in Seq(Logger) /\ g \in Logger /\ loggers' = Append(loggers, g)
          /\ g.global = serving.logging
      BY <1>5, <1>15, <2>3 DEF SetLogger, TypeInv, TypeOK, Logger, Config
    <3> HIDE DEF g
    <3>2. Len(loggers') = Len(loggers) + 1 /\ loggers'[Len(loggers) + 1] = g
      BY <3>1, AppendProperties
    <3> QED BY <3>1, <3>2
  <2>5. Whole' /\ Follows' /\ Reached(Top)'
    BY <1>4, <2>1, <2>2, <2>3, <2>4 DEF Whole, Follows, Reached
  <2> QED BY <1>2, <2>1, <2>2, <2>5, TopDecides
<1>16. CASE Unlock
  <2>1. UNCHANGED <<cached, rootFiles, serving, stdio, loggers>>
    BY <1>16 DEF Unlock
  <2>2. \A i \in DOMAIN frames : frames[i].pc \in {"lock", "unlock"}
    BY <1>16, TopLeaves
  <2>3. Whole /\ Follows
    BY <2>2 DEF ReloadInv
  <2>4. Whole' /\ Follows'
    BY <2>1, <2>3 DEF Whole, Follows
  <2>5. \A i \in DOMAIN frames' : Reached(frames[i])'
    BY <1>16, TopLeaves DEF Reached
  <2> QED BY <1>2, <2>1, <2>4, <2>5 DEF ReloadInv
<1> QED BY <1>6, <1>7, <1>8, <1>9, <1>10, <1>11, <1>12, <1>13, <1>14, <1>15, <1>16 DEF Reload

LEMMA ReloadInvKeeps == TypeInv /\ StackInv /\ ReloadInv /\ [Next]_vars => ReloadInv'
<1> SUFFICES ASSUME TypeInv, StackInv, ReloadInv, [Next]_vars PROVE ReloadInv'
  OBVIOUS
<1>1. ASSUME UNCHANGED <<cached, rootFiles, serving, stdio, frames>>,
             loggers'[Len(loggers')].global = loggers[Len(loggers)].global
      PROVE  ReloadInv'
  BY <1>1 DEF ReloadInv, Reached, Whole, Follows
<1>2. CASE UNCHANGED mainVars
  BY <1>1, <1>2 DEF mainVars
<1>3. CASE Sighup
  <2>1. UNCHANGED <<cached, rootFiles, serving, stdio, loggers>>
    BY <1>3 DEF Sighup, UnchangedBut
  <2>2. \A i \in DOMAIN frames' : Reached(frames'[i])
    BY <1>3, TopArrives DEF ReloadInv, Reached
  <2>3. \A i \in DOMAIN frames' : Reached(frames[i])'
    BY <2>1, <2>2 DEF Reached
  <2>4. \A i \in DOMAIN frames : i \in DOMAIN frames' /\ frames'[i] = frames[i]
    BY <1>3, TopArrives
  <2>5. Whole' = Whole /\ Follows' = Follows
    BY <2>1 DEF Whole, Follows
  <2> QED BY <2>1, <2>3, <2>4, <2>5 DEF ReloadInv
<1>4. CASE Reload
  BY <1>4, ReloadKeeps
<1>5. ASSUME NEW r \in Requests, RequestNext(r) PROVE ReloadInv'
  <2>1. loggers \in Seq(Logger) /\ loggers # <<>>
    BY DEF TypeInv, TypeOK
  <2>2. Len(loggers) \in Nat /\ DOMAIN loggers = 1 .. Len(loggers) /\ Len(loggers) # 0
    BY <2>1, LenProperties, EmptySeq
  <2>3. Len(loggers) \in DOMAIN loggers
    BY <2>2
  <2> QED BY <1>1, <1>5, <2>3, RequestsLeave
<1> QED BY <1>2, <1>3, <1>4, <1>5, StepCases DEF vars

LEMMA ReloadHolds == Spec => []ReloadInv
BY TypesHold, ReloadsStart, StackHolds, ReloadInvKeeps, PTL DEF Spec

\* The server never serves what it would not have started with, and between reloads the
\* parts of its state belong to one configuration, or to one whose stdio root cannot be
\* created, whatever was interrupted, failed or aborted (server.py 86-90, 510-516).
THEOREM ServesOneConfiguration == Spec => []StateIsWhole
<1>1. ReloadInv => StateIsWhole
  <2>1. Idle => DOMAIN frames = {}
    BY DEF Idle
  <2> QED BY <2>1 DEF ReloadInv, StateIsWhole, Whole
<1> QED BY <1>1, ReloadHolds, PTL

\* Between reloads the log goes where the cached configuration says, and to stderr when
\* there is none (config_manager.py 73-104).
THEOREM LogFollowsTheCache == Spec => []LoggingFollowsCache
<1>1. ReloadInv => LoggingFollowsCache
  <2>1. Idle => DOMAIN frames = {}
    BY DEF Idle
  <2> QED BY <2>1 DEF ReloadInv, LoggingFollowsCache, Follows
<1> QED BY <1>1, ReloadHolds, PTL

-----------------------------------------------------------------------------
(* Requests.                                                               *)

\* A request's step leaves the others where they are.
LEMMA OthersStay ==
  ASSUME TypeInv, NEW r \in Requests, RequestNext(r)
  PROVE  \A s \in Requests \ {r} : req'[s] = req[s] /\ inService'[s] = inService[s]
BY DEF TypeInv, TypeOK, RequestNext, Middleware, Tool, Arrive, Authenticate, FailBefore,
       ReadLogger, FindLogger, AddHandler, RememberLogger, Emit, Step

\* A step that is no request's leaves them all, and may add a configuration in service.
LEMMA RequestsStay ==
  ASSUME TypeInv,
         \/ UNCHANGED vars
         \/ FileNext /\ UNCHANGED <<mainVars, workVars>>
         \/ Sighup
         \/ Reload
  PROVE  /\ UNCHANGED <<handlers, req, lines, clashed>>
         /\ \A s \in Requests : inService[s] \subseteq inService'[s]
<1>1. CASE SetConfig
  BY <1>1 DEF SetConfig, TypeInv, TypeOK
<1>2. CASE ~SetConfig
  BY <1>2 DEF vars, workVars, UnchangedBut, Sighup, Reload, TakeLock, ResetCache, Load, RemoveHandlers,
              MakeHandlers, FillCache, Check, SetStdioKey, SetLogger, Unlock
<1> QED BY <1>1, <1>2

\* Whoever has an answer has it from a configuration that was in service.
Just(s) ==
  /\ req[s].pc \notin {"unsent", "matching", "refused"} =>
       \E c \in inService[s] : req[s].token \in Secrets /\ c.secrets[req[s].key] = req[s].token
  /\ req[s].pc = "refused" =>
       \E c \in inService[s] : \A k \in KeyIds :
         req[s].token \in Secrets => c.secrets[k] # req[s].token
  /\ req[s].pc = "matching" => req[s].config \in inService[s]

JustInv == \A s \in Requests : Just(s)

LEMMA JustKept == TypeInv /\ JustInv /\ [Next]_vars => JustInv'
<1> SUFFICES ASSUME TypeInv, JustInv, [Next]_vars PROVE JustInv'
  OBVIOUS
<1>1. CASE ~\E r \in Requests : RequestNext(r)
  <2>1. req' = req /\ \A s \in Requests : inService[s] \subseteq inService'[s]
    BY <1>1, StepCases, RequestsStay
  <2> QED BY <2>1 DEF JustInv, Just
<1>2. ASSUME NEW r \in Requests, RequestNext(r) PROVE JustInv'
  <2>1. \A s \in Requests \ {r} : Just(s)'
    BY <1>2, OthersStay DEF JustInv, Just
  <2> SUFFICES Just(r)'
    BY <2>1 DEF JustInv
  <2>2. Just(r)
    BY DEF JustInv
  <2>3. /\ req \in [Requests -> [pc : RequestStates, config : Config, token : Secrets \cup {NoSecret},
                                 key : KeyIds, logger : 0 .. Len(loggers)]]
        /\ inService \in [Requests -> SUBSET Config]
    BY DEF TypeInv, TypeOK
  <2>4. ASSUME NEW c \in Credentials, Arrive(r, c) PROVE Just(r)'
    BY <2>3, <2>4 DEF Arrive, Just
  <2>5. CASE Authenticate(r)
    <3>1. inService' = inService /\ req[r].config \in inService[r] /\ req[r].pc = "matching"
      BY <2>2, <2>5 DEF Authenticate, Just
    <3>2. CASE Matching(r) = {}
      <4>1. req' = [req EXCEPT ![r].pc = "refused"]
        BY <2>5, <3>2 DEF Authenticate, Step
      <4>2. \A k \in KeyIds : req[r].token \in Secrets => req[r].config.secrets[k] # req[r].token
        BY <3>2, ConfigAssumption DEF Matching
      <4>3. req'[r].pc = "refused" /\ req'[r].token = req[r].token
        BY <2>3, <4>1
      <4> QED BY <3>1, <4>2, <4>3 DEF Just
    <3>3. CASE Matching(r) # {}
      <4>1. PICK k \in Matching(r) : req' = [req EXCEPT ![r].pc = "running", ![r].key = k]
        BY <2>5, <3>3 DEF Authenticate
      <4>2. req[r].token \in Secrets /\ req[r].config.secrets[k] = req[r].token
        BY <2>3, <4>1 DEF Matching
      <4>3. req'[r].pc = "running" /\ req'[r].token = req[r].token /\ req'[r].key = k
        BY <2>3, <4>1
      <4> QED BY <3>1, <4>2, <4>3 DEF Just
    <3> QED BY <3>2, <3>3
  <2>6. CASE FailBefore(r) \/ Tool(r)
    <3>1. /\ inService' = inService /\ req'[r].token = req[r].token /\ req'[r].key = req[r].key
          /\ req[r].pc \notin {"unsent", "matching", "refused"}
          /\ req'[r].pc \notin {"unsent", "matching", "refused"}
      BY <2>3, <2>6 DEF FailBefore, Tool, ReadLogger, FindLogger, AddHandler, RememberLogger, Emit, Step
    <3> QED BY <2>2, <3>1 DEF Just
  <2> QED BY <1>2, <2>4, <2>5, <2>6 DEF RequestNext, Middleware
<1> QED BY <1>1, <1>2

\* A request runs with a key, or is refused, because of a configuration that was in service
\* between its arrival and its authentication (server.py 552-581, api_keys.py 75-95).
THEOREM AnswersAreJust == Spec => []JustlyAnswered
<1>1. Init => JustInv
  BY DEF Init, NoRequest, JustInv, Just
<1>2. JustInv => JustlyAnswered
  BY DEF JustInv, Just, JustlyAnswered
<1> QED BY <1>1, <1>2, JustKept, TypesHold, PTL DEF Spec

-----------------------------------------------------------------------------
(* The operation log.                                                      *)

\* A step that is no request's keeps every logger, and may put a new one at the end.
LEMMA LoggersStay ==
  ASSUME TypeInv,
         \/ UNCHANGED vars
         \/ FileNext /\ UNCHANGED <<mainVars, workVars>>
         \/ Sighup
         \/ Reload
  PROVE  /\ \A n \in DOMAIN loggers : n \in DOMAIN loggers' /\ loggers'[n] = loggers[n]
         /\ \A n \in DOMAIN loggers' \ DOMAIN loggers : loggers'[n].known = {}
<1>1. CASE SetLogger
  <2> DEFINE g == [global |-> Top.new.logging, known |-> {}]
  <2>1. frames # <<>>
    BY <1>1 DEF SetLogger, At
  <2>2. Top.new.logging \in Logging
    BY <2>1, TopType DEF Frame, Config
  <2>3. loggers \in Seq(Logger) /\ g \in Logger /\ loggers' = Append(loggers, g) /\ g.known = {}
    BY <1>1, <2>2 DEF SetLogger, TypeInv, TypeOK, Logger
  <2> HIDE DEF g
  <2>4. /\ loggers' \in Seq(Logger) /\ Len(loggers') = Len(loggers) + 1
        /\ \A n \in 1 .. Len(loggers) : loggers'[n] = loggers[n]
        /\ loggers'[Len(loggers) + 1] = g
    BY <2>3, AppendProperties
  <2>5. /\ Len(loggers) \in Nat /\ DOMAIN loggers = 1 .. Len(loggers)
        /\ DOMAIN loggers' = 1 .. Len(loggers')
    BY <2>3, <2>4, LenProperties
  <2> QED BY <2>3, <2>4, <2>5
<1>2. CASE ~SetLogger
  BY <1>2 DEF vars, mainVars, UnchangedBut, Sighup, Reload, TakeLock, ResetCache, Load, RemoveHandlers,
              MakeHandlers, FillCache, Check, SetConfig, SetStdioKey, Unlock
<1> QED BY <1>1, <1>2

\* Handlers are only ever added, and only to the logger of a key.
LEMMA HandlersGrow ==
  ASSUME TypeInv, NEW r \in Requests, RequestNext(r), NEW k \in KeyIds
  PROVE  /\ handlers[k] \in Seq(Files) /\ handlers'[k] \in Seq(Files)
         /\ \A i \in DOMAIN handlers[k] : i \in DOMAIN handlers'[k] /\ handlers'[k][i] = handlers[k][i]
<1>1. handlers \in [KeyIds -> Seq(Files)] /\ handlers[k] \in Seq(Files)
  BY DEF TypeInv, TypeOK
<1>2. CASE handlers' = handlers
  BY <1>1, <1>2
<1>3. CASE handlers' # handlers
  <2>1. AddHandler(r) /\ handlers' = [handlers EXCEPT ![req[r].key] = Append(@, OwnFile(r))]
        /\ req[r].pc = "adding"
    BY <1>3 DEF RequestNext, Middleware, Tool, Arrive, Authenticate, FailBefore, ReadLogger, FindLogger,
                AddHandler, RememberLogger, Emit
  <2>2. OwnFile(r) \in Files
    BY <2>1 DEF TypeInv, AddingInv
  <2>3. /\ Append(handlers[k], OwnFile(r)) \in Seq(Files)
        /\ Len(Append(handlers[k], OwnFile(r))) = Len(handlers[k]) + 1
        /\ \A i \in 1 .. Len(handlers[k]) : Append(handlers[k], OwnFile(r))[i] = handlers[k][i]
    BY <1>1, <2>2, AppendProperties
  <2>4. /\ Len(handlers[k]) \in Nat /\ DOMAIN handlers[k] = 1 .. Len(handlers[k])
        /\ DOMAIN Append(handlers[k], OwnFile(r)) = 1 .. Len(handlers[k]) + 1
    BY <1>1, <2>3, LenProperties
  <2>5. CASE k = req[r].key
    <3>1. handlers'[k] = Append(handlers[k], OwnFile(r))
      BY <1>1, <2>1, <2>5
    <3> QED BY <1>1, <2>3, <2>4, <3>1
  <2>6. CASE k # req[r].key
    <3>1. handlers'[k] = handlers[k]
      BY <1>1, <2>1, <2>6
    <3> QED BY <1>1, <3>1
  <2> QED BY <2>5, <2>6
<1> QED BY <1>2, <1>3

\* The handlers of key k write somewhere.
Writes(k) == \E i \in DOMAIN handlers[k] : handlers[k][i] \notin Unwritable

\* Whoever passes over the making of a handler can rely on one.
Logs(s) ==
  /\ req[s].pc \in {"entry", "adding", "marking", "emitting"} => req[s].logger \in DOMAIN loggers
  /\ req[s].pc = "marking" => Writes(req[s].key)
  /\ req[s].pc = "emitting" /\ OwnFile(s) # NoFile => Writes(req[s].key)
  /\ req[s].pc = "failed" => OwnFile(s) \in Unwritable

LogInv ==
  /\ \A n \in DOMAIN loggers : \A k \in loggers[n].known : Writes(k)
  /\ \A s \in Requests : Logs(s)

LEMMA LogKept == TypeInv /\ LogInv /\ [Next]_vars => LogInv'
<1> SUFFICES ASSUME TypeInv, LogInv, [Next]_vars PROVE LogInv'
  OBVIOUS
<1>1. /\ loggers \in Seq(Logger) /\ handlers \in [KeyIds -> Seq(Files)]
      /\ req \in [Requests -> [pc : RequestStates, config : Config, token : Secrets \cup {NoSecret},
                               key : KeyIds, logger : 0 .. Len(loggers)]]
  BY DEF TypeInv, TypeOK
<1>2. \A n \in DOMAIN loggers : loggers[n] \in Logger
  BY <1>1, LenProperties, ElementOfSeq
<1>3. CASE ~\E r \in Requests : RequestNext(r)
  <2>1. UNCHANGED <<handlers, req>>
    BY <1>3, StepCases, RequestsStay
  <2>2. /\ \A n \in DOMAIN loggers : n \in DOMAIN loggers' /\ loggers'[n] = loggers[n]
        /\ \A n \in DOMAIN loggers' \ DOMAIN loggers : loggers'[n].known = {}
    BY <1>3, StepCases, LoggersStay
  <2>3. \A n \in DOMAIN loggers' : \/ loggers'[n].known = {}
                                   \/ n \in DOMAIN loggers /\ loggers'[n] = loggers[n]
    BY <2>2
  <2>4. \A s \in Requests : Logs(s)'
    BY <2>1, <2>2 DEF LogInv, Logs, Writes, OwnFile, Override
  <2>5. \A n \in DOMAIN loggers' : \A k \in loggers'[n].known : Writes(k)'
    BY <2>1, <2>3 DEF LogInv, Writes
  <2> QED BY <2>4, <2>5 DEF LogInv
<1>4. ASSUME NEW r \in Requests, RequestNext(r) PROVE LogInv'
  <2>1. \A k \in KeyIds : Writes(k) => Writes(k)'
    BY <1>4, HandlersGrow DEF Writes
  <2>2. DOMAIN loggers' = DOMAIN loggers
    BY <1>4, RequestsLeave
  <2>3. ASSUME NEW s \in Requests \ {r} PROVE Logs(s)'
    <3>1. req'[s] = req[s] /\ Logs(s) /\ req[s].key \in KeyIds
      BY <1>1, <1>4, OthersStay DEF LogInv
    <3> QED BY <2>1, <2>2, <3>1 DEF Logs, OwnFile, Override
  <2>4. Logs(r) /\ req[r].key \in KeyIds
    BY <1>1 DEF LogInv
  <2>5. Logs(r)'
    <3>1. CASE Middleware(r) \/ FailBefore(r)
      <4>1. req'[r].pc \in {"matching", "refused", "running", "done"}
        BY <1>1, <3>1 DEF Middleware, Arrive, Authenticate, FailBefore, Step
      <4> QED BY <4>1 DEF Logs
    <3>2. CASE ReadLogger(r)
      <4>1. loggers # <<>> /\ Len(loggers) \in Nat /\ DOMAIN loggers = 1 .. Len(loggers)
        BY <1>1, LenProperties DEF TypeInv, TypeOK
      <4>2. Len(loggers) \in DOMAIN loggers
        BY <1>1, <4>1, EmptySeq
      <4>3. req'[r].pc = "entry" /\ req'[r].logger = Len(loggers)
        BY <1>1, <3>2 DEF ReadLogger
      <4> QED BY <2>2, <4>2, <4>3 DEF Logs
    <3>3. CASE FindLogger(r)
      <4>1. /\ req[r].pc = "entry" /\ req'[r].logger = req[r].logger /\ req'[r].key = req[r].key
            /\ req'[r].config = req[r].config
            /\ req'[r].pc \in {"done", "emitting", "adding"}
            /\ req'[r].pc = "emitting" => OwnFile(r) = NoFile \/ req[r].key \in loggers[req[r].logger].known
        BY <1>1, <3>3 DEF FindLogger, Step
      <4>2. req[r].logger \in DOMAIN loggers
        BY <2>4, <4>1 DEF Logs
      <4>3. req'[r].pc = "emitting" /\ OwnFile(r) # NoFile => Writes(req[r].key)'
        BY <2>1, <2>4, <4>1, <4>2 DEF LogInv
      <4>4. OwnFile(r)' = OwnFile(r)
        BY <4>1 DEF OwnFile, Override
      <4> QED BY <2>2, <4>1, <4>2, <4>3, <4>4 DEF Logs
    <3>4. CASE AddHandler(r)
      <4>1. /\ req[r].pc = "adding" /\ req'[r].logger = req[r].logger /\ req'[r].key = req[r].key
            /\ req'[r].config = req[r].config
            /\ req'[r].pc = (IF OwnFile(r) \in Unwritable THEN "failed" ELSE "marking")
        BY <1>1, <3>4 DEF AddHandler, Step
      <4>2. OwnFile(r)' = OwnFile(r)
        BY <4>1 DEF OwnFile, Override
      <4>3. OwnFile(r) \notin Unwritable => Writes(req[r].key)'
        <5> SUFFICES ASSUME OwnFile(r) \notin Unwritable PROVE Writes(req[r].key)'
          OBVIOUS
        <5>1. handlers'[req[r].key] = Append(handlers[req[r].key], OwnFile(r))
          BY <1>1, <2>4, <3>4 DEF AddHandler
        <5>2. OwnFile(r) \in Files /\ handlers[req[r].key] \in Seq(Files)
          BY <1>1, <2>4, <4>1 DEF TypeInv, AddingInv
        <5> DEFINE n == Len(handlers[req[r].key])
        <5>3. /\ handlers'[req[r].key] \in Seq(Files) /\ Len(handlers'[req[r].key]) = n + 1
              /\ handlers'[req[r].key][n + 1] = OwnFile(r)
          BY <5>1, <5>2, AppendProperties
        <5>4. n \in Nat /\ DOMAIN handlers'[req[r].key] = 1 .. n + 1
          BY <5>2, <5>3, LenProperties
        <5>5. n + 1 \in DOMAIN handlers'[req[r].key]
          BY <5>4
        <5>6. \E i \in DOMAIN handlers'[req[r].key] : handlers'[req[r].key][i] \notin Unwritable
          BY <5>3, <5>5
        <5> QED BY <4>1, <5>6 DEF Writes
      <4> QED BY <2>2, <2>4, <4>1, <4>2, <4>3 DEF Logs
    <3>5. CASE RememberLogger(r)
      <4>1. /\ req[r].pc = "marking" /\ req'[r].logger = req[r].logger /\ req'[r].key = req[r].key
            /\ req'[r].pc = "emitting"
        BY <1>1, <3>5 DEF RememberLogger, Step
      <4> QED BY <2>1, <2>2, <2>4, <4>1 DEF Logs
    <3>6. CASE Emit(r)
      <4>1. req'[r].pc = "done"
        BY <1>1, <3>6 DEF Emit, Step
      <4> QED BY <4>1 DEF Logs
    <3> QED BY <1>4, <3>1, <3>2, <3>3, <3>4, <3>5, <3>6 DEF RequestNext, Tool
  <2>6. ASSUME NEW n \in DOMAIN loggers', NEW k \in loggers'[n].known PROVE Writes(k)'
    <3>1. n \in DOMAIN loggers /\ loggers[n].known \subseteq KeyIds
      BY <1>2, <2>2 DEF Logger
    <3>2. CASE k \in loggers[n].known
      <4>1. Writes(k)
        BY <3>1, <3>2 DEF LogInv
      <4> QED BY <2>1, <3>1, <3>2, <4>1
    <3>3. CASE k \notin loggers[n].known
      <4>1. RememberLogger(r)
        BY <1>4, <3>3 DEF RequestNext, Middleware, Tool, Arrive, Authenticate, FailBefore, ReadLogger,
                          FindLogger, AddHandler, Emit, mainVars
      <4>2. loggers' = [loggers EXCEPT ![req[r].logger].known = @ \cup {req[r].key}]
            /\ req[r].pc = "marking"
        BY <4>1 DEF RememberLogger
      <4>3. k = req[r].key
        BY <1>2, <3>1, <3>3, <4>2 DEF Logger
      <4> QED BY <2>1, <2>4, <4>2, <4>3 DEF Logs
    <3> QED BY <3>2, <3>3
  <2> QED BY <2>3, <2>5, <2>6 DEF LogInv
<1> QED BY <1>3, <1>4

LEMMA LogHolds == Spec => []LogInv
<1>1. Init => LogInv
  <2> SUFFICES ASSUME Init PROVE LogInv
    OBVIOUS
  <2> DEFINE g == [global |-> WithOptions(FirstConfig).logging, known |-> {}]
  <2>1. loggers = <<g>> /\ g.known = {}
    BY DEF Init
  <2> HIDE DEF g
  <2>2. \A n \in DOMAIN loggers : loggers[n].known = {}
    BY <2>1
  <2>3. \A s \in Requests : req[s].pc = "unsent"
    BY DEF Init, NoRequest
  <2> QED BY <2>2, <2>3 DEF LogInv, Logs
<1> QED BY <1>1, LogKept, TypesHold, PTL DEF Spec

\* An invocation whose key has a log file of its own finds a handler that writes its
\* entry, and fails after the tool has succeeded only when that file cannot be opened
\* (logging_utils.py 50-61).
THEOREM EntriesAreWritten == Spec => []NeverSilent
<1>1. LogInv => NeverSilent
  BY DEF LogInv, Logs, Writes, NeverSilent
<1> QED BY <1>1, LogHolds, PTL

-----------------------------------------------------------------------------
(* How many handlers a key's logger has.  Each of them was made for an     *)
(* OperationLogger that has or will have the key in its table, and for two *)
(* of them only if two requests were in between at a time.                 *)

Making == {"adding", "marking"}

\* The OperationLoggers a handler of key k was made for.
MadeFor(k) ==
  {n \in DOMAIN loggers :
     \/ k \in loggers[n].known
     \/ \E s \in Requests : req[s].pc = "marking" /\ req[s].key = k /\ req[s].logger = n}

HandlerInv ==
  ~clashed =>
    /\ \A s, t \in Requests :
         req[s].pc \in Making /\ req[t].pc \in Making /\ req[s].key = req[t].key => s = t
    /\ \A s \in Requests : req[s].pc = "adding" => req[s].key \notin loggers[req[s].logger].known
    /\ \A k \in KeyIds : Len(handlers[k]) <= Cardinality(MadeFor(k))

LEMMA IndicesFinite ==
  ASSUME NEW s \in Seq(Logger), NEW S \in SUBSET DOMAIN s
  PROVE  IsFiniteSet(S) /\ Cardinality(S) \in Nat /\ Cardinality(S) <= Len(s)
<1> DEFINE n == Len(s)
<1>1. n \in Nat /\ S \in SUBSET (1 .. n)
  BY LenProperties
<1> HIDE DEF n
<1>2. IsFiniteSet(1 .. n) /\ Cardinality(1 .. n) = n
  <2>1. 1 \in Int /\ n \in Int
    BY <1>1
  <2>2. IsFiniteSet(1 .. n) /\ Cardinality(1 .. n) = IF 1 > n THEN 0 ELSE n - 1 + 1
    BY <2>1, FS_Interval
  <2> QED BY <1>1, <2>2
<1>3. IsFiniteSet(S) /\ Cardinality(S) <= n
  BY <1>1, <1>2, FS_Subset
<1> QED BY <1>3, FS_CardinalityType DEF n

LEMMA MadeForType ==
  ASSUME TypeInv, NEW k \in KeyIds
  PROVE  /\ IsFiniteSet(MadeFor(k)) /\ Cardinality(MadeFor(k)) \in Nat
         /\ Cardinality(MadeFor(k)) <= Len(loggers)
<1>1. loggers \in Seq(Logger) /\ MadeFor(k) \in SUBSET DOMAIN loggers
  BY DEF TypeInv, TypeOK, MadeFor
<1> QED BY <1>1, IndicesFinite

\* A table once marked, or about to be, stays so.
LEMMA MadeForGrows ==
  ASSUME TypeInv, LogInv, [Next]_vars, NEW k \in KeyIds
  PROVE  MadeFor(k) \subseteq MadeFor(k)'
<1> SUFFICES ASSUME NEW n \in MadeFor(k) PROVE n \in MadeFor(k)'
  OBVIOUS
<1>1. n \in DOMAIN loggers
  BY DEF MadeFor
<1>2. CASE ~\E r \in Requests : RequestNext(r)
  <2>1. req' = req /\ n \in DOMAIN loggers' /\ loggers'[n] = loggers[n]
    BY <1>1, <1>2, StepCases, RequestsStay, LoggersStay
  <2> QED BY <2>1 DEF MadeFor
<1>3. ASSUME NEW r \in Requests, RequestNext(r) PROVE n \in MadeFor(k)'
  <2>1. n \in DOMAIN loggers' /\ loggers[n].known \subseteq loggers'[n].known
    BY <1>1, <1>3, RequestsLeave
  <2>2. CASE k \in loggers[n].known
    BY <2>1, <2>2 DEF MadeFor
  <2>3. CASE k \notin loggers[n].known
    <3>1. PICK s \in Requests : req[s].pc = "marking" /\ req[s].key = k /\ req[s].logger = n
      BY <2>3 DEF MadeFor
    <3>2. CASE s # r
      <4>1. req'[s] = req[s]
        BY <1>3, <3>2, OthersStay
      <4> QED BY <2>1, <3>1, <4>1 DEF MadeFor
    <3>3. CASE s = r
      <4>1. RememberLogger(r)
        BY <1>3, <3>1, <3>3 DEF RequestNext, Middleware, Tool, Arrive, Authenticate, FailBefore,
                                ReadLogger, FindLogger, AddHandler, Emit
      <4>2. loggers' = [loggers EXCEPT ![n].known = @ \cup {k}]
        BY <3>1, <3>3, <4>1 DEF RememberLogger
      <4>3. loggers[n] \in Logger
        BY <1>1, LenProperties, ElementOfSeq DEF TypeInv, TypeOK
      <4>4. k \in loggers'[n].known
        BY <1>1, <4>2, <4>3 DEF Logger
      <4> QED BY <2>1, <4>4 DEF MadeFor
    <3> QED BY <3>2, <3>3
  <2> QED BY <2>2, <2>3
<1> QED BY <1>2, <1>3

LEMMA HandlerKept == TypeInv /\ LogInv /\ HandlerInv /\ [Next]_vars => HandlerInv'
<1> SUFFICES ASSUME TypeInv, LogInv, HandlerInv, [Next]_vars, ~clashed' PROVE HandlerInv'
  BY DEF HandlerInv
<1>1. /\ loggers \in Seq(Logger) /\ handlers \in [KeyIds -> Seq(Files)]
      /\ req \in [Requests -> [pc : RequestStates, config : Config, token : Secrets \cup {NoSecret},
                               key : KeyIds, logger : 0 .. Len(loggers)]]
  BY DEF TypeInv, TypeOK
<1>2. \A n \in DOMAIN loggers : loggers[n] \in Logger
  BY <1>1, LenProperties, ElementOfSeq
<1>3. \A k \in KeyIds : Cardinality(MadeFor(k)) \in Nat /\ IsFiniteSet(MadeFor(k))
  BY MadeForType
<1>4. loggers' \in Seq(Logger) /\ \A k \in KeyIds : MadeFor(k)' \in SUBSET DOMAIN loggers'
  BY TypesKeep DEF TypeInv, TypeOK, MadeFor
<1>5. \A k \in KeyIds : IsFiniteSet(MadeFor(k)') /\ Cardinality(MadeFor(k)') \in Nat
  BY <1>4, IndicesFinite
<1>6. \A k \in KeyIds : Cardinality(MadeFor(k)) <= Cardinality(MadeFor(k)')
  BY <1>5, MadeForGrows, FS_Subset
<1>7. \A k \in KeyIds : Len(handlers[k]) \in Nat
  BY <1>1, LenProperties
<1>8. CASE ~\E r \in Requests : RequestNext(r)
  <2>1. UNCHANGED <<handlers, req, clashed>>
    BY <1>8, StepCases, RequestsStay
  <2>2. \A k \in KeyIds : Len(handlers'[k]) <= Cardinality(MadeFor(k)')
    BY <1>3, <1>5, <1>6, <1>7, <2>1 DEF HandlerInv
  <2>3. \A n \in DOMAIN loggers : loggers'[n] = loggers[n]
    BY <1>8, StepCases, LoggersStay
  <2>4. \A s \in Requests : req[s].pc = "adding" => req[s].logger \in DOMAIN loggers
    BY DEF LogInv, Logs
  <2> QED BY <2>1, <2>2, <2>3, <2>4 DEF HandlerInv
<1>9. ASSUME NEW r \in Requests, RequestNext(r) PROVE HandlerInv'
  <2>1. ~clashed
    BY <1>9 DEF RequestNext, Middleware, Tool, Arrive, Authenticate, FailBefore, ReadLogger, FindLogger,
                AddHandler, RememberLogger, Emit, workVars
  <2>2. \A s \in Requests \ {r} : req'[s] = req[s]
    BY <1>9, OthersStay
  <2>3. req'[r].pc \in Making =>
          \/ FindLogger(r) /\ req'[r].pc = "adding"
          \/ AddHandler(r) /\ req'[r].pc = "marking"
    BY <1>1, <1>9 DEF Making, RequestNext, Middleware, Tool, Arrive, Authenticate, FailBefore, ReadLogger,
                      FindLogger, AddHandler, RememberLogger, Emit, Step
  <2>4. FindLogger(r) \/ AddHandler(r) => req'[r].key = req[r].key /\ req'[r].logger = req[r].logger
    BY <1>1 DEF FindLogger, AddHandler, Step
  <2>5. ASSUME NEW s \in Requests \ {r}, req[s].pc \in Making, req'[r].pc \in Making
        PROVE  req[s].key # req'[r].key
    <3>1. CASE FindLogger(r)
      BY <2>4, <2>5, <3>1 DEF FindLogger, Making
    <3>2. CASE AddHandler(r)
      <4>1. req[r].pc \in Making
        BY <3>2 DEF AddHandler, Making
      <4> QED BY <2>1, <2>4, <2>5, <3>2, <4>1 DEF HandlerInv
    <3> QED BY <2>3, <2>5, <3>1, <3>2
  <2>6. \A s, t \in Requests :
          req'[s].pc \in Making /\ req'[t].pc \in Making /\ req'[s].key = req'[t].key => s = t
    BY <2>1, <2>2, <2>5 DEF HandlerInv
  <2>7. ASSUME NEW s \in Requests, req'[s].pc = "adding"
        PROVE  req'[s].key \notin loggers'[req'[s].logger].known
    <3>1. CASE s = r
      <4>1. FindLogger(r) /\ req'[s].key = req[s].key /\ req'[s].logger = req[s].logger
        BY <2>3, <2>4, <2>7, <3>1 DEF Making
      <4>2. loggers' = loggers /\ req[r].key \notin loggers[req[r].logger].known
        BY <1>1, <2>7, <3>1, <4>1 DEF FindLogger, mainVars, Step
      <4> QED BY <3>1, <4>1, <4>2
    <3>2. CASE s # r
      <4>1. req'[s] = req[s] /\ req[s].key \notin loggers[req[s].logger].known
            /\ req[s].logger \in DOMAIN loggers
        BY <2>1, <2>2, <2>7, <3>2 DEF HandlerInv, LogInv, Logs
      <4>2. CASE loggers' = loggers
        BY <4>1, <4>2
      <4>3. CASE loggers' # loggers
        <5>1. RememberLogger(r)
          BY <1>9, <4>3 DEF RequestNext, Middleware, Tool, Arrive, Authenticate, FailBefore, ReadLogger,
                            FindLogger, AddHandler, Emit, mainVars
        <5>2. loggers' = [loggers EXCEPT ![req[r].logger].known = @ \cup {req[r].key}]
              /\ req[r].pc = "marking"
          BY <5>1 DEF RememberLogger
        <5>3. req[r].key # req[s].key
          BY <2>1, <2>7, <3>2, <4>1, <5>2 DEF HandlerInv, Making
        <5> QED BY <1>2, <4>1, <5>2, <5>3 DEF Logger
      <4> QED BY <4>2, <4>3
    <3> QED BY <3>1, <3>2
  <2>8. ASSUME NEW k \in KeyIds PROVE Len(handlers'[k]) <= Cardinality(MadeFor(k)')
    <3>1. CASE handlers'[k] = handlers[k]
      BY <1>3, <1>5, <1>6, <1>7, <2>1, <3>1 DEF HandlerInv
    <3>2. CASE handlers'[k] # handlers[k]
      <4>1. /\ AddHandler(r) /\ req[r].pc = "adding" /\ req[r].key = k
            /\ handlers'[k] = Append(handlers[k], OwnFile(r))
            /\ req'[r].pc = "marking" /\ loggers' = loggers
        BY <1>1, <1>9, <3>2 DEF RequestNext, Middleware, Tool, Arrive, Authenticate, FailBefore, ReadLogger,
                                FindLogger, AddHandler, RememberLogger, Emit, Step, mainVars
      <4> DEFINE n == req[r].logger
      <4>2. Len(handlers'[k]) = Len(handlers[k]) + 1
        <5>1. OwnFile(r) \in Files
          BY <4>1 DEF TypeInv, AddingInv
        <5> QED BY <1>1, <4>1, <5>1, AppendProperties
      <4>3. n \in DOMAIN loggers
        BY <4>1 DEF LogInv, Logs
      <4>4. n \notin MadeFor(k)
        <5>1. k \notin loggers[n].known
          BY <2>1, <4>1 DEF HandlerInv
        <5>2. ASSUME NEW s \in Requests, req[s].pc = "marking", req[s].key = k PROVE FALSE
          BY <2>1, <4>1, <5>2 DEF HandlerInv, Making
        <5> QED BY <5>1, <5>2 DEF MadeFor
      <4>5. n \in MadeFor(k)'
        BY <2>4, <4>1, <4>3 DEF MadeFor
      <4>6. MadeFor(k) \cup {n} \subseteq MadeFor(k)'
        BY <4>5, MadeForGrows
      <4>7. IsFiniteSet(MadeFor(k) \cup {n}) /\ Cardinality(MadeFor(k) \cup {n}) = Cardinality(MadeFor(k)) + 1
        BY <1>3, <4>4, FS_AddElement
      <4>8. Cardinality(MadeFor(k)) + 1 <= Cardinality(MadeFor(k)')
        BY <1>5, <4>6, <4>7, FS_Subset
      <4>9. Len(handlers[k]) <= Cardinality(MadeFor(k))
        BY <2>1 DEF HandlerInv
      <4> QED BY <1>3, <1>5, <1>7, <4>2, <4>8, <4>9
    <3> QED BY <3>1, <3>2
  <2> QED BY <2>6, <2>7, <2>8 DEF HandlerInv
<1> QED BY <1>8, <1>9

\* Unless two requests meet in setting up the logger of one key, it has at most one handler
\* for each configuration that was brought into service (logging_utils.py 49-61).
THEOREM HandlersAreBounded == Spec => []HandlersPerReload
<1>1. Init => HandlerInv
  <2> SUFFICES ASSUME Init PROVE HandlerInv
    OBVIOUS
  <2>1. TypeInv /\ \A s \in Requests : req[s].pc = "unsent"
    BY TypesStart DEF Init, NoRequest
  <2>2. \A k \in KeyIds : Len(handlers[k]) = 0 /\ Cardinality(MadeFor(k)) \in Nat
    BY <2>1, MadeForType, EmptySeq DEF Init
  <2> QED BY <2>1, <2>2 DEF HandlerInv, Making
<1>2. TypeInv /\ HandlerInv => HandlersPerReload
  <2> SUFFICES ASSUME TypeInv, HandlerInv, ~clashed, NEW k \in KeyIds
               PROVE  Len(handlers[k]) <= Len(loggers)
    BY DEF HandlersPerReload
  <2>1. Len(handlers[k]) <= Cardinality(MadeFor(k)) /\ Cardinality(MadeFor(k)) <= Len(loggers)
    BY MadeForType DEF HandlerInv
  <2>2. Len(handlers[k]) \in Nat /\ Cardinality(MadeFor(k)) \in Nat /\ Len(loggers) \in Nat
    BY MadeForType, LenProperties DEF TypeInv, TypeOK
  <2> QED BY <2>1, <2>2
<1> QED BY <1>1, <1>2, HandlerKept, LogHolds, TypesHold, PTL DEF Spec
=============================================================================
