------------------------------ MODULE UsageFile ------------------------------
(***************************************************************************)
(* The accounting of one workspace root: .metadata/usage.json, the flock   *)
(* taken on it, and the tool calls that check the quota against it, change *)
(* stored bytes and record the change (mcpfiles/workspace.py 149-259).     *)
(*                                                                         *)
(* One step is one system call on usage.json, or one change of the files,  *)
(* so that everything another thread or process can see between two of     *)
(* them is a state.  Three facts of the code shape the steps:              *)
(*   - open(path, "w") truncates before the flock is requested;            *)
(*   - json.dump fills a buffer that reaches the file in handle.close(),   *)
(*     after LOCK_UN;                                                      *)
(*   - flock belongs to the open file description: a thread that holds it  *)
(*     through one handle waits for itself through a second one.           *)
(*                                                                         *)
(* Abstractions: the files of the workspace are their total size; one call *)
(* of the model is one quota check, one change and one record, which is    *)
(* write_file, delete_file, remove_directory or one entry of a patch; the  *)
(* walk of recalculate_usage is one step; usage.json itself is never       *)
(* removed (FileOperations has the calls that do).                         *)
(***************************************************************************)
EXTENDS Quota, FiniteSets

CONSTANTS
  Procs,         \* threads and processes that execute tool calls
  NoProc,        \* "nobody", the holder of a free lock
  Deltas,        \* the changes in stored bytes a call may make
  InitialBytes,  \* bytes in the root before the server first uses it
  HasFlock,      \* FALSE where fcntl is missing or flock fails (line 180)
  MaxCalls,      \* bound: calls begun in a behaviour
  MaxCrashes     \* bound: crashes in a behaviour

ASSUME ConstantsAssumption ==
  /\ NoProc \notin Procs
  /\ Deltas \subseteq Int
  /\ InitialBytes \in Nat
  /\ HasFlock \in BOOLEAN
  /\ MaxCalls \in Nat
  /\ MaxCrashes \in Nat

VARIABLES
  file,        \* usage.json as another open() would find it
  lock,        \* who holds the flock
  pc,          \* where each process is in its call
  job,         \* the call each process executes
  mem,         \* the payload each process has loaded
  stored,      \* bytes of the files under the root, .metadata excluded
  calls,       \* number of calls begun
  crashes,     \* number of crashes so far
  credited,    \* history: bytes the records that reached usage.json have added
  overlapped   \* history: has a call ever begun while another was running?

vars == <<file, lock, pc, job, mem, stored, calls, crashes, credited, overlapped>>

-----------------------------------------------------------------------------
(* The payload keeps used_bytes and how many of its two time stamps are    *)
(* set, the part of the text whose length changes besides the digits.      *)

Payload == [used : Nat, stamps : 0 .. 2]

DefaultPayload == [used |-> 0, stamps |-> 0]

\* Mutant: the size of a removed file is added instead of subtracted.
ChargedAbs(pl, d) ==
  [used |-> pl.used + (IF d < 0 THEN -d ELSE d), stamps |-> IF pl.stamps = 0 THEN 1 ELSE pl.stamps]

\* The payload record_usage_delta writes after it loaded pl.
Charged(pl, d) ==
  [used |-> AtLeastZero(pl.used + d), stamps |-> IF pl.stamps = 0 THEN 1 ELSE pl.stamps]

States == {"absent", "empty", "json", "garbage"}

File == [state : States, payload : Payload, len : Nat]

NotThere  == [state |-> "absent", payload |-> DefaultPayload, len |-> 0]
Truncated == [state |-> "empty",  payload |-> DefaultPayload, len |-> 0]

\* The length of a payload's JSON text, without the part all texts share: the digits of
\* used_bytes (up to ten of them), and 30 characters for a time stamp in place of null.
Width(pl) == 1 + Cardinality({k \in 1 .. 9 : 10 ^ k <= pl.used}) + 30 * pl.stamps

\* A buffer is written at offset 0 over whatever the file holds by then.  Every
\* text ends in "\n}\n": one character of a longer text that sticks out is a
\* newline json.load skips, two or more are "Extra data" it refuses.
Overlay(f, pl) ==
  LET w == Width(pl) IN
  IF f.len > w + 1
  THEN [state |-> "garbage", payload |-> DefaultPayload, len |-> f.len]
  ELSE [state |-> "json", payload |-> pl, len |-> IF f.len > w THEN f.len ELSE w]

PCs == {"idle", "probe", "seed", "seed_flush", "lock_r", "read", "check",
        "modify", "scan", "open_w", "lock_w", "dump", "flush"}

Job == [delta : Deltas, stage : {"quota", "record", "rebuild"}]

TypeOK ==
  /\ file \in File
  /\ lock \in Procs \cup {NoProc}
  /\ pc \in [Procs -> PCs]
  /\ \A p \in Procs : pc[p] # "idle" => job[p] \in Job
  /\ mem \in [Procs -> Payload]
  /\ stored \in Nat
  /\ calls \in Nat
  /\ crashes \in Nat
  /\ credited \in Nat
  /\ overlapped \in BOOLEAN

NoJob == [delta |-> 0, stage |-> "quota"]

Init ==
  /\ file = NotThere
  /\ lock = NoProc
  /\ pc = [p \in Procs |-> "idle"]
  /\ job = [p \in Procs |-> NoJob]
  /\ mem = [p \in Procs |-> DefaultPayload]
  /\ stored = InitialBytes
  /\ calls = 0
  /\ crashes = 0
  /\ credited = 0
  /\ overlapped = FALSE

-----------------------------------------------------------------------------
(* Locking.  Where flock is unavailable both operations do nothing.        *)

Acquire(p) ==
  IF HasFlock THEN lock = NoProc /\ lock' = p ELSE UNCHANGED lock

Release(p) ==
  lock' = IF lock = p THEN NoProc ELSE lock

Goto(p, label) == pc' = [pc EXCEPT ![p] = label]

\* Where _load_usage returns to: enforce_quota or record_usage_delta.
AfterLoad(p) == IF job[p].stage = "quota" THEN "check" ELSE "open_w"

-----------------------------------------------------------------------------
(* The calls.                                                              *)

\* A tool call starts.  write_file and a patch entry check the quota first;
\* delete_file and remove_directory go straight to the files.
Begin(p) ==
  /\ pc[p] = "idle"
  /\ calls < MaxCalls
  /\ calls' = calls + 1
  /\ overlapped' = (overlapped \/ \E q \in Procs : pc[q] # "idle")
  /\ \E d \in Deltas :
       \/ /\ job' = [job EXCEPT ![p] = [delta |-> d, stage |-> "quota"]]
          /\ Goto(p, "probe")
       \/ /\ d < 0
          /\ job' = [job EXCEPT ![p] = [delta |-> d, stage |-> "record"]]
          /\ Goto(p, "modify")
  /\ UNCHANGED <<file, lock, mem, stored, crashes, credited>>

\* _load_usage: path.exists() (194).
Probe(p) ==
  /\ pc[p] = "probe"
  /\ Goto(p, IF file.state = "absent" THEN "seed" ELSE "lock_r")
  /\ UNCHANGED <<file, lock, job, mem, stored, calls, crashes, credited, overlapped>>

\* path.write_text(default) (196): open with truncation, no lock ...
SeedOpen(p) ==
  /\ pc[p] = "seed"
  /\ file' = Truncated
  /\ mem' = [mem EXCEPT ![p] = DefaultPayload]
  /\ Goto(p, "seed_flush")
  /\ UNCHANGED <<lock, job, stored, calls, crashes, credited, overlapped>>

\* ... then the text, and _load_usage returns the default payload.
SeedFlush(p) ==
  /\ pc[p] = "seed_flush"
  /\ file' = Overlay(file, mem[p])
  /\ Goto(p, AfterLoad(p))
  /\ UNCHANGED <<lock, job, mem, stored, calls, crashes, credited, overlapped>>

\* _locked_usage_file("r"): open and wait for the flock (174, 179).
LockRead(p) ==
  /\ pc[p] = "lock_r"
  /\ Acquire(p)
  /\ Goto(p, "read")
  /\ UNCHANGED <<file, job, mem, stored, calls, crashes, credited, overlapped>>

\* json.load succeeds; the handle is unlocked and closed on the way out.
Read(p) ==
  /\ pc[p] = "read"
  /\ file.state = "json"
  /\ mem' = [mem EXCEPT ![p] = file.payload]
  /\ Release(p)
  /\ Goto(p, AfterLoad(p))
  /\ UNCHANGED <<file, job, stored, calls, crashes, credited, overlapped>>

\* JSONDecodeError: recalculate_usage is called with the flock still held (203).
ReadCorrupt(p) ==
  /\ pc[p] = "read"
  /\ file.state # "json"
  /\ Goto(p, "scan")
  /\ UNCHANGED <<file, lock, job, mem, stored, calls, crashes, credited, overlapped>>

\* recalculate_usage: the walk over the files (224-242).
Scan(p) ==
  /\ pc[p] = "scan"
  /\ mem' = [mem EXCEPT ![p] = [used |-> stored, stamps |-> 2]]
  /\ job' = [job EXCEPT ![p].stage = "rebuild"]
  /\ Goto(p, "open_w")
  /\ UNCHANGED <<file, lock, stored, calls, crashes, credited, overlapped>>

\* Mutant: a call that does not fit goes on.
CheckIgnored(p) ==
  /\ pc[p] = "check"
  /\ Goto(p, "modify")
  /\ UNCHANGED <<file, lock, job, mem, stored, calls, crashes, credited, overlapped>>

\* enforce_quota with the usage it loaded (250-255): refuse the call, or let it go on.
Check(p) ==
  /\ pc[p] = "check"
  /\ Goto(p, IF Fits(mem[p].used, job[p].delta) THEN "modify" ELSE "idle")
  /\ UNCHANGED <<file, lock, job, mem, stored, calls, crashes, credited, overlapped>>

\* The files change.  A call whose bytes another call has removed in the meantime
\* fails with FileNotFoundError before it changes anything.
Modify(p) ==
  /\ pc[p] = "modify"
  /\ \/ /\ stored + job[p].delta >= 0
        /\ stored' = stored + job[p].delta
        /\ job' = [job EXCEPT ![p].stage = "record"]
        /\ Goto(p, "probe")
     \/ /\ stored + job[p].delta < 0
        /\ Goto(p, "idle")
        /\ UNCHANGED <<stored, job>>
  /\ UNCHANGED <<file, lock, mem, calls, crashes, credited, overlapped>>

\* _locked_usage_file("w"): open truncates the file at once (174).
OpenWrite(p) ==
  /\ pc[p] = "open_w"
  /\ file' = Truncated
  /\ Goto(p, "lock_w")
  /\ UNCHANGED <<lock, job, mem, stored, calls, crashes, credited, overlapped>>

\* The flock through the new handle: also the holder of the old one waits (179).
LockWrite(p) ==
  /\ pc[p] = "lock_w"
  /\ Acquire(p)
  /\ Goto(p, "dump")
  /\ UNCHANGED <<file, job, mem, stored, calls, crashes, credited, overlapped>>

\* Mutant: LOCK_UN is left out.
UnlockForgotten(p) ==
  /\ pc[p] = "dump"
  /\ Goto(p, "flush")
  /\ UNCHANGED <<file, lock, job, mem, stored, calls, crashes, credited, overlapped>>

\* json.dump into the buffer, then LOCK_UN (187).
Unlock(p) ==
  /\ pc[p] = "dump"
  /\ Release(p)
  /\ Goto(p, "flush")
  /\ UNCHANGED <<file, job, mem, stored, calls, crashes, credited, overlapped>>

\* Mutant: the handle is never closed, the buffer never written.
FlushForgotten(p) ==
  /\ pc[p] = "flush"
  /\ Goto(p, "idle")
  /\ UNCHANGED <<file, lock, job, mem, stored, calls, crashes, credited, overlapped>>

\* handle.close() (190) writes the buffer; with it record_usage_delta, and the call,
\* are done.  A rebuild also ends the call: _load_usage returns the total where its
\* caller expects the payload, and payload.get raises AttributeError.
Flush(p) ==
  /\ pc[p] = "flush"
  /\ file' = Overlay(file, IF job[p].stage = "record"
                           THEN Charged(mem[p], job[p].delta) ELSE mem[p])
  /\ credited' = IF job[p].stage = "record"
                 THEN credited + AtLeastZero(job[p].delta) ELSE credited
  /\ Goto(p, "idle")
  /\ UNCHANGED <<lock, job, mem, stored, calls, crashes, overlapped>>

\* The process dies: its locks are released and its buffers are lost.
Crash(p) ==
  /\ pc[p] # "idle"
  /\ crashes < MaxCrashes
  /\ crashes' = crashes + 1
  /\ Release(p)
  /\ Goto(p, "idle")
  /\ UNCHANGED <<file, job, mem, stored, calls, credited, overlapped>>

-----------------------------------------------------------------------------
Step(p) ==
  \/ Probe(p) \/ SeedOpen(p) \/ SeedFlush(p)
  \/ LockRead(p) \/ Read(p) \/ ReadCorrupt(p) \/ Scan(p)
  \/ Check(p) \/ Modify(p)
  \/ OpenWrite(p) \/ LockWrite(p) \/ Unlock(p) \/ Flush(p)

AllIdle == \A p \in Procs : pc[p] = "idle"

\* Every call the bound allows has been made and has returned.
Finished == calls = MaxCalls /\ AllIdle /\ UNCHANGED vars

Next ==
  \/ \E p \in Procs : Begin(p) \/ Step(p) \/ Crash(p)
  \/ Finished

Spec == Init /\ [][Next]_vars

\* A call that has begun goes on: the operating system runs every thread.
FairSpec == Spec /\ \A p \in Procs : WF_vars(Step(p))

-----------------------------------------------------------------------------
(* Safety.                                                                 *)

\* No two calls have overlapped and nothing has crashed: one stdio client.
Quiet == ~overlapped /\ crashes = 0

\* used_bytes as the next call will read it
Writing == {p \in Procs : pc[p] \in {"lock_w", "dump", "flush"}}

LedgerValue ==
  IF file.state = "json" THEN file.payload.used
  ELSE IF Writing = {} THEN 0 ELSE mem[CHOOSE p \in Writing : TRUE].used

\* With calls one at a time on a root that was empty at first, used_bytes is the
\* number of bytes in the root whenever no call is running: the deltas of write_file,
\* apply_patch, delete_file and remove_directory add up.
LedgerExact ==
  (Quiet /\ InitialBytes = 0 /\ AllIdle) =>
    /\ file.state \in {"absent", "json"}
    /\ LedgerValue = stored

\* ... and the hard limit of enforce_quota caps the bytes in the root at all times.
QuotaHolds ==
  (Quiet /\ InitialBytes = 0 /\ HardLimit # NoLimit) => stored <= HardLimit

\* Under the flock used_bytes never exceeds what recorded calls have added, however
\* calls overlap or crash: updates get lost, none is applied twice.
NeverOvercharged == HasFlock => file.payload.used <= credited

\* _load_usage takes usage.json for corrupt only after calls overlapped or one crashed.
CorruptOnlyAfterOverlapOrCrash ==
  (\E p \in Procs : pc[p] = "scan") => ~Quiet

\* p waits in flock for the lock it holds through its other handle.
WaitsForItself(p) == pc[p] = "lock_w" /\ lock = p /\ job[p].stage = "rebuild"

\* A thread that rebuilds a corrupt usage.json waits for itself and keeps everyone
\* else from the lock until its process dies: nobody can take the lock from it.
StuckHoldsTheLock ==
  [][\A p \in Procs : WaitsForItself(p) => WaitsForItself(p)' \/ pc'[p] = "idle"]_vars

-----------------------------------------------------------------------------
(* Liveness.                                                               *)

\* Every call comes to its end.
CallsReturn == \A p \in Procs : pc[p] # "idle" ~> pc[p] = "idle"

\* The corrupt-file path is the only way to hang: as long as nobody enters it,
\* every call comes to its end.
OnlyCorruptionHangs == [](\A p \in Procs : pc[p] # "scan") => CallsReturn

-----------------------------------------------------------------------------
(* What a comment of the code says, and the code does not do.              *)

\* "Corrupt usage metadata; recalculating from disk" (workspace.py:202): a thread that
\* finds usage.json corrupt gets through the recalculation.
RecalculationCompletes == \A p \in Procs : pc[p] = "scan" ~> pc[p] = "idle"

-----------------------------------------------------------------------------
(* Refinement.                                                             *)

\* p has passed the quota check, or needs none, and is not settled yet.
Admitted(p) == pc[p] = "modify" \/ (pc[p] # "idle" /\ job[p].stage = "record")

Claims == {[proc |-> p, delta |-> job[p].delta] : p \in {q \in Procs : Admitted(q)}}

Ledger == INSTANCE UsageLedger WITH used <- LedgerValue, held <- Claims

\* As long as calls come one at a time and nothing crashes, usage.json behaves as the
\* atomic ledger of UsageLedger: every admitted change is settled exactly once, at the
\* close of the handle (workspace.py 150-215).  The ledger may be left only by a step that
\* starts a second call or crashes.
ImplementsLedger ==
  Ledger!Init /\ [][Quiet' => Ledger!Next \/ UNCHANGED Ledger!ledgerVars]_vars
=============================================================================
