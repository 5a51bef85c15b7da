----------------------------- MODULE ConfigFile -----------------------------
(***************************************************************************)
(* The configuration file and the processes that rewrite it: mcpfiles      *)
(* --genkey (mcpfiles/config/config_manager.py 47-70 and 112-141) and the  *)
(* operator's editor.                                                      *)
(*                                                                         *)
(* A configuration is a record of what the server's control depends on.    *)
(* The kdf block of an API key is the secret whose hash it holds.  genkey  *)
(* reads the file, changes one key, truncates the file with open(path,     *)
(* "w") and fills it again when the handle is closed, without a lock; each *)
(* of these is a step.  A genkey run draws a random key, so its secret is  *)
(* named after the run.  The operator saves the file in one step, and not  *)
(* while a genkey run has it open.                                         *)
(***************************************************************************)
EXTENDS Integers, FiniteSets

CONSTANTS
  KeyIds,         \* the ids under api_keys
  Writers,        \* runs of mcpfiles --genkey; each is also the secret it prints
  FirstSecrets,   \* secrets that were configured before
  NoSecret,       \* the kdf block {} of a key that was never generated
  NotListed,      \* the id is not under api_keys
  Files,          \* log files
  NoFile,         \* no logfile configured
  Inherit,        \* api_keys[].logging is null
  FirstConfig,    \* the configuration the file holds at the start
  Edits,          \* what the operator may save: configurations, or Broken
  Broken,         \* a text for which load_config raises
  MaxEdits,       \* bound: saves by the operator
  MaxKills        \* bound: genkey runs that die half way

Secrets == FirstSecrets \cup Writers

Logging == [file : Files \cup {NoFile}, trace : BOOLEAN]

Config ==
  [remote  : BOOLEAN,                                    \* is there a remote_server block?
   secrets : [KeyIds -> Secrets \cup {NoSecret, NotListed}],
   override: [KeyIds -> Logging \cup {Inherit}],         \* api_keys[].logging
   logging : Logging,                                    \* the global logging block
   rootOk  : BOOLEAN]                                    \* can the stdio root be created?

ASSUME ConfigAssumption ==
  /\ FirstConfig \in Config
  /\ Edits \subseteq Config \cup {Broken}
  /\ Broken \notin Config
  /\ IsFiniteSet(KeyIds)
  /\ NoSecret \notin Secrets
  /\ MaxEdits \in Nat /\ MaxKills \in Nat

VARIABLES
  content,    \* the configuration in the file, or Broken
  size,       \* the length of the text
  gen,        \* where each genkey run is
  entry,      \* the key id each genkey run rotates
  data,       \* the configuration each genkey run is about to write
  edits,      \* number of saves by the operator
  kills,      \* number of genkey runs that died
  latest,     \* history: the secret last stored for each key
  disturbed   \* history: two writes overlapped, a run died, or Broken was saved

fileVars == <<content, size, gen, entry, data, edits, kills, latest, disturbed>>

GenStates == {"idle", "read", "open", "done", "failed"}

FileTypeOK ==
  /\ content \in Config \cup {Broken}
  /\ size \in Nat
  /\ gen \in [Writers -> GenStates]
  /\ entry \in [Writers -> KeyIds]
  /\ data \in [Writers -> Config]
  /\ edits \in 0 .. MaxEdits /\ kills \in 0 .. MaxKills
  /\ latest \in [KeyIds -> Secrets \cup {NoSecret, NotListed}]
  /\ disturbed \in BOOLEAN

\* The ids the configuration lists.
Listed(c) == {k \in KeyIds : c.secrets[k] # NotListed}

\* The length of the text json.dump makes of c, as far as rotations change it: a kdf
\* block that was {} becomes longer, one that was full keeps its length.
Length(c) == 1 + Cardinality({k \in KeyIds : c.secrets[k] \in Secrets})

FileInit ==
  /\ content = FirstConfig
  /\ size = Length(FirstConfig)
  /\ gen = [w \in Writers |-> "idle"]
  /\ entry \in [Writers -> KeyIds]
  /\ data = [w \in Writers |-> FirstConfig]
  /\ edits = 0 /\ kills = 0
  /\ latest = FirstConfig.secrets
  /\ disturbed = FALSE

Running(w) == gen[w] \in {"read", "open"}

\* Mutant: target["kdf"] = kdf is forgotten.
RotatedNot(c, k, secret) == c

\* target["kdf"] = kdf
Rotated(c, k, secret) == [c EXCEPT !.secrets[k] = secret]

\* Mutant: json.load returns None for a text it cannot read.
GenReadAnything(w) ==
  /\ gen[w] = "idle"
  /\ gen' = [gen EXCEPT ![w] = "read"]
  /\ data' = [data EXCEPT ![w] = IF content = Broken THEN Broken ELSE Rotated(content, entry[w], w)]
  /\ disturbed' = (disturbed \/ \E other \in Writers : Running(other))
  /\ UNCHANGED <<content, size, entry, edits, kills, latest>>

\* Lines 117-138: the file is read and the new configuration is made, or the run raises.
GenRead(w) ==
  /\ gen[w] = "idle"
  /\ IF content # Broken /\ entry[w] \in Listed(content)
     THEN /\ gen' = [gen EXCEPT ![w] = "read"]
          /\ data' = [data EXCEPT ![w] = Rotated(content, entry[w], w)]
     ELSE gen' = [gen EXCEPT ![w] = "failed"] /\ UNCHANGED data
  /\ disturbed' = (disturbed \/ \E other \in Writers : Running(other))
  /\ UNCHANGED <<content, size, entry, edits, kills, latest>>

\* open(path, "w")
GenOpen(w) ==
  /\ gen[w] = "read"
  /\ gen' = [gen EXCEPT ![w] = "open"]
  /\ content' = Broken
  /\ size' = 0
  /\ UNCHANGED <<entry, data, edits, kills, latest, disturbed>>

\* The handle is closed: the text is written from the start of the file, over whatever
\* another run has put there since, and a longer text of that run keeps its tail.
GenClose(w) ==
  /\ gen[w] = "open"
  /\ gen' = [gen EXCEPT ![w] = "done"]
  /\ LET covered == Length(data[w]) >= size IN
     /\ content' = IF covered THEN data[w] ELSE Broken
     /\ size' = IF covered THEN Length(data[w]) ELSE size
  /\ latest' = [latest EXCEPT ![entry[w]] = w]
  /\ UNCHANGED <<entry, data, edits, kills, disturbed>>

\* The process dies.
GenDies(w) ==
  /\ Running(w)
  /\ kills < MaxKills
  /\ kills' = kills + 1
  /\ gen' = [gen EXCEPT ![w] = "failed"]
  /\ disturbed' = TRUE
  /\ UNCHANGED <<content, size, entry, data, edits, latest>>

\* The operator saves c.
Edit(c) ==
  /\ edits < MaxEdits
  /\ \A w \in Writers : gen[w] # "open"
  /\ edits' = edits + 1
  /\ content' = c
  /\ size' = IF c = Broken THEN 1 ELSE Length(c)
  /\ latest' = IF c = Broken THEN latest ELSE c.secrets
  /\ disturbed' = (disturbed \/ c = Broken \/ \E w \in Writers : Running(w))
  /\ UNCHANGED <<gen, entry, data, kills>>

FileNext ==
  \/ \E w \in Writers : GenRead(w) \/ GenOpen(w) \/ GenClose(w) \/ GenDies(w)
  \/ \E c \in Edits : Edit(c)

FileSpec == FileInit /\ [][FileNext]_fileVars

-----------------------------------------------------------------------------
(* What genkey promises while its runs do not meet each other or the       *)
(* operator, and none dies.                                                *)

\* Every key is stored with the secret that was printed for it last: a rotation of one
\* key leaves the others' as they were, and nobody finds the file unreadable except while
\* a genkey run rewrites it (config_manager.py 68-70 and 125-139).
RotationsStick ==
  ~disturbed =>
    IF \E w \in Writers : gen[w] = "open" THEN content = Broken
    ELSE content # Broken /\ content.secrets = latest
=============================================================================
