--------------------------- MODULE UsageFileProofs ---------------------------
(***************************************************************************)
(* What holds of UsageFile for every set of processes, every set of        *)
(* deltas, every limit and every number of calls and crashes.              *)
(***************************************************************************)
EXTENDS UsageFile, TLAPS, FiniteSetTheorems

-----------------------------------------------------------------------------
(* Type correctness.  job[p] is a Job only while p is in a call; that it   *)
(* is a record with an integer delta at all times makes TypeOK inductive.  *)

AnyJob == [delta : Int, stage : {"quota", "record", "rebuild"}]

TypeInv == TypeOK /\ job \in [Procs -> AnyJob]

\* The length of the text json.dump produces is a natural number.
LEMMA WidthType ==
  ASSUME NEW pl \in Payload
  PROVE  Width(pl) \in Nat
<1> DEFINE digits == {k \in 1 .. 9 : 10 ^ k <= pl.used}
<1>1. IsFiniteSet(digits)
  <2>0. 1 \in Int /\ 9 \in Int
    OBVIOUS
  <2>1. IsFiniteSet(1 .. 9)
    BY <2>0, FS_Interval, Zenon
  <2>2. digits \subseteq 1 .. 9
    OBVIOUS
  <2> QED BY <2>1, <2>2, FS_Subset
<1>2. Cardinality(digits) \in Nat
  BY <1>1, FS_CardinalityType
<1>3. pl.stamps \in 0 .. 2
  BY DEF Payload
<1> HIDE DEF digits
<1>4. 1 + Cardinality(digits) + 30 * pl.stamps \in Nat
  BY <1>2, <1>3
<1> QED BY <1>4 DEF Width, digits

\* Writing a payload over any content of usage.json leaves a content of usage.json.
LEMMA OverlayType ==
  ASSUME NEW f \in File, NEW pl \in Payload
  PROVE  /\ Overlay(f, pl) \in File
         /\ Overlay(f, pl).payload \in {pl, DefaultPayload}
         /\ Overlay(f, pl).state \in {"json", "garbage"}
         /\ f.len = 0 => /\ Overlay(f, pl).state = "json"
                         /\ Overlay(f, pl).payload = pl
<1>1. Width(pl) \in Nat
  BY WidthType
<1>2. f.len \in Nat
  BY DEF File
<1>3. DefaultPayload \in Payload
  BY DEF DefaultPayload, Payload
<1> QED BY <1>1, <1>2, <1>3 DEF Overlay, File, States

\* max(0, ...) in record_usage_delta: the new total is a natural number, and it grows by
\* no more than the bytes the call added.
LEMMA ChargedType ==
  ASSUME NEW pl \in Payload, NEW d \in Int
  PROVE  /\ Charged(pl, d) \in Payload
         /\ AtLeastZero(d) \in Nat
         /\ Charged(pl, d).used <= pl.used + AtLeastZero(d)
         /\ pl.used + d >= 0 => Charged(pl, d).used = pl.used + d
  BY DEF Charged, Payload, AtLeastZero

LEMMA InitTypes == Init => TypeInv
<1> SUFFICES ASSUME Init PROVE TypeInv
  OBVIOUS
<1> USE ConstantsAssumption
<1>1. NotThere \in File /\ DefaultPayload \in Payload
  BY DEF NotThere, File, States, DefaultPayload, Payload
<1>2. NoJob \in AnyJob
  BY DEF NoJob, AnyJob
<1> QED BY <1>1, <1>2 DEF Init, TypeInv, TypeOK, PCs

\* No step of a call, and no crash, leaves the types.
LEMMA TypesKept == TypeInv /\ [Next]_vars => TypeInv'
<1> SUFFICES ASSUME TypeInv, [Next]_vars
             PROVE  TypeInv'
  OBVIOUS
<1> USE ConstantsAssumption DEF TypeInv, TypeOK
<1>0. Truncated \in File /\ DefaultPayload \in Payload
  BY DEF Truncated, File, States, DefaultPayload, Payload
<1>a. Job \subseteq AnyJob
  BY DEF Job, AnyJob
<1>1. ASSUME NEW p \in Procs, Begin(p) PROVE TypeInv'
  <2>1. PICK d \in Deltas :
          \/ job' = [job EXCEPT ![p] = [delta |-> d, stage |-> "quota"]] /\ Goto(p, "probe")
          \/ job' = [job EXCEPT ![p] = [delta |-> d, stage |-> "record"]] /\ Goto(p, "modify")
    BY <1>1 DEF Begin
  <2>2. /\ [delta |-> d, stage |-> "quota"] \in Job
        /\ [delta |-> d, stage |-> "record"] \in Job
    BY DEF Job
  <2>3. job' \in [Procs -> AnyJob] /\ pc' \in [Procs -> PCs]
    BY <1>a, <2>1, <2>2 DEF Goto, PCs
  <2>4. \A q \in Procs : pc'[q] # "idle" => job'[q] \in Job
    BY <2>1, <2>2 DEF Goto, PCs
  <2>5. calls' \in Nat /\ overlapped' \in BOOLEAN
    BY <1>1 DEF Begin
  <2> QED BY <1>1, <2>3, <2>4, <2>5 DEF Begin
<1>2. ASSUME NEW p \in Procs, Probe(p) PROVE TypeInv'
  BY <1>2 DEF Probe, Goto, PCs
<1>3. ASSUME NEW p \in Procs, SeedOpen(p) PROVE TypeInv'
  BY <1>0, <1>3 DEF SeedOpen, Goto, PCs
<1>4. ASSUME NEW p \in Procs, SeedFlush(p) PROVE TypeInv'
  <2>1. file' \in File
    BY <1>4, OverlayType DEF SeedFlush
  <2> QED BY <1>4, <2>1 DEF SeedFlush, Goto, AfterLoad, PCs
<1>5. ASSUME NEW p \in Procs, LockRead(p) PROVE TypeInv'
  BY <1>5 DEF LockRead, Acquire, Goto, PCs
<1>6. ASSUME NEW p \in Procs, Read(p) PROVE TypeInv'
  BY <1>6 DEF Read, Release, Goto, AfterLoad, PCs, File
<1>7. ASSUME NEW p \in Procs, ReadCorrupt(p) PROVE TypeInv'
  BY <1>7 DEF ReadCorrupt, Goto, PCs
<1>8. ASSUME NEW p \in Procs, Scan(p) PROVE TypeInv'
  <2>1. [used |-> stored, stamps |-> 2] \in Payload
    BY DEF Payload
  <2>2. job[p] \in Job /\ [job[p] EXCEPT !.stage = "rebuild"] \in Job
    BY <1>8 DEF Scan, Job
  <2> QED BY <1>8, <1>a, <2>1, <2>2 DEF Scan, Goto, PCs
<1>9. ASSUME NEW p \in Procs, Check(p) PROVE TypeInv'
  BY <1>9 DEF Check, Goto, PCs
<1>10. ASSUME NEW p \in Procs, Modify(p) PROVE TypeInv'
  <2>1. job[p] \in Job /\ [job[p] EXCEPT !.stage = "record"] \in Job
    BY <1>10 DEF Modify, Job
  <2>2. job[p].delta \in Int
    BY <2>1 DEF Job
  <2>3. stored' \in Nat
    BY <1>10, <2>2 DEF Modify
  <2> QED BY <1>10, <1>a, <2>1, <2>3 DEF Modify, Goto, PCs
<1>11. ASSUME NEW p \in Procs, OpenWrite(p) PROVE TypeInv'
  BY <1>0, <1>11 DEF OpenWrite, Goto, PCs
<1>12. ASSUME NEW p \in Procs, LockWrite(p) PROVE TypeInv'
  BY <1>12 DEF LockWrite, Acquire, Goto, PCs
<1>13. ASSUME NEW p \in Procs, Unlock(p) PROVE TypeInv'
  BY <1>13 DEF Unlock, Release, Goto, PCs
<1>14. ASSUME NEW p \in Procs, Flush(p) PROVE TypeInv'
  <2>1. job[p].delta \in Int
    BY DEF AnyJob
  <2>2. mem[p] \in Payload /\ Charged(mem[p], job[p].delta) \in Payload
    BY <2>1, ChargedType
  <2>3. file' \in File
    BY <1>14, <2>2, OverlayType DEF Flush
  <2>4. credited' \in Nat
    BY <1>14, <2>1 DEF Flush, AtLeastZero
  <2> QED BY <1>14, <2>3, <2>4 DEF Flush, Goto, PCs
<1>15. ASSUME NEW p \in Procs, Crash(p) PROVE TypeInv'
  BY <1>15 DEF Crash, Release, Goto, PCs
<1>16. CASE UNCHANGED vars
  BY <1>16 DEF vars
<1> QED
  BY <1>1, <1>2, <1>3, <1>4, <1>5, <1>6, <1>7, <1>8, <1>9, <1>10, <1>11, <1>12, <1>13,
     <1>14, <1>15, <1>16 DEF Next, Step, Finished

LEMMA TypesHold == Spec => []TypeInv
<1> QED BY InitTypes, TypesKept, PTL DEF Spec

\* The state of usage.json, the lock and every call keep their types for any number of
\* processes, calls and crashes; used_bytes is never negative.
THEOREM TypeCorrect == Spec => []TypeOK
<1>1. TypeInv => TypeOK
  BY DEF TypeInv
<1> QED BY <1>1, TypesHold, PTL

-----------------------------------------------------------------------------
(* The flock.  Between LOCK_EX and LOCK_UN a call holds it, and a rebuild  *)
(* holds it from the read on: it never gets past lock_w.                   *)

HolderHasLock ==
  \A p \in Procs :
    \/ pc[p] \in {"read", "scan", "dump"}
    \/ pc[p] \in {"open_w", "lock_w"} /\ job[p].stage = "rebuild"
    => lock = p

NoRebuildElsewhere ==
  \A p \in Procs :
    pc[p] \notin {"idle", "open_w", "lock_w"} => job[p].stage # "rebuild"

LockInv ==
  /\ HasFlock => HolderHasLock /\ NoRebuildElsewhere
  /\ ~HasFlock => lock = NoProc

LEMMA LockInit == Init => LockInv
  BY DEF Init, LockInv, HolderHasLock, NoRebuildElsewhere

\* Taking, keeping and releasing the flock: only the holder releases it, and a thread that
\* rebuilds finds it taken.
LEMMA LockKept == TypeInv /\ LockInv /\ [Next]_vars => LockInv'
<1>a. TypeInv /\ LockInv /\ [Next]_vars /\ ~HasFlock => lock' = NoProc
  BY DEF TypeInv, LockInv, Next, Step, Finished, vars, Begin, Probe, SeedOpen, SeedFlush,
         LockRead, Read, ReadCorrupt, Scan, Check, Modify, OpenWrite, LockWrite, Unlock,
         Flush, Crash, Acquire, Release
<1> SUFFICES ASSUME TypeInv, LockInv, [Next]_vars, HasFlock
             PROVE  HolderHasLock' /\ NoRebuildElsewhere'
  BY <1>a DEF LockInv
<1> USE ConstantsAssumption DEF TypeInv, TypeOK, LockInv, HolderHasLock, NoRebuildElsewhere
<1>1. ASSUME NEW p \in Procs, Begin(p) PROVE HolderHasLock' /\ NoRebuildElsewhere'
  <2>1. PICK d \in Deltas, st \in {"quota", "record"}, at \in {"probe", "modify"} :
          /\ job' = [job EXCEPT ![p] = [delta |-> d, stage |-> st]]
          /\ pc' = [pc EXCEPT ![p] = at]
    BY <1>1 DEF Begin, Goto
  <2> QED BY <1>1, <2>1 DEF Begin
<1>2. ASSUME NEW p \in Procs, Probe(p) \/ ReadCorrupt(p) \/ Check(p)
      PROVE  HolderHasLock' /\ NoRebuildElsewhere'
  BY <1>2 DEF Probe, ReadCorrupt, Check, Goto, PCs
<1>3. ASSUME NEW p \in Procs, SeedOpen(p) \/ SeedFlush(p)
      PROVE  HolderHasLock' /\ NoRebuildElsewhere'
  BY <1>3 DEF SeedOpen, SeedFlush, AfterLoad, Goto, PCs
<1>4. ASSUME NEW p \in Procs, LockRead(p) PROVE HolderHasLock' /\ NoRebuildElsewhere'
  BY <1>4 DEF LockRead, Acquire, Goto, PCs
<1>5. ASSUME NEW p \in Procs, Read(p) PROVE HolderHasLock' /\ NoRebuildElsewhere'
  BY <1>5 DEF Read, Release, AfterLoad, Goto, PCs
<1>6. ASSUME NEW p \in Procs, Scan(p) PROVE HolderHasLock' /\ NoRebuildElsewhere'
  BY <1>6 DEF Scan, Goto, PCs, AnyJob
<1>7. ASSUME NEW p \in Procs, Modify(p) PROVE HolderHasLock' /\ NoRebuildElsewhere'
  BY <1>7 DEF Modify, Goto, PCs, AnyJob
<1>8. ASSUME NEW p \in Procs, OpenWrite(p) PROVE HolderHasLock' /\ NoRebuildElsewhere'
  BY <1>8 DEF OpenWrite, Goto, PCs
<1>9. ASSUME NEW p \in Procs, LockWrite(p) PROVE HolderHasLock' /\ NoRebuildElsewhere'
  BY <1>9 DEF LockWrite, Acquire, Goto, PCs
<1>10. ASSUME NEW p \in Procs, Unlock(p) PROVE HolderHasLock' /\ NoRebuildElsewhere'
  BY <1>10 DEF Unlock, Release, Goto, PCs
<1>11. ASSUME NEW p \in Procs, Flush(p) PROVE HolderHasLock' /\ NoRebuildElsewhere'
  BY <1>11 DEF Flush, Goto, PCs
<1>12. ASSUME NEW p \in Procs, Crash(p) PROVE HolderHasLock' /\ NoRebuildElsewhere'
  BY <1>12 DEF Crash, Release, Goto, PCs
<1>13. CASE UNCHANGED vars
  BY <1>13 DEF vars
<1> QED
  BY <1>1, <1>2, <1>3, <1>4, <1>5, <1>6, <1>7, <1>8, <1>9, <1>10, <1>11, <1>12, <1>13
  DEF Next, Step, Finished

LEMMA LockHolds == Spec => []LockInv
<1> QED BY LockInit, LockKept, TypesHold, PTL DEF Spec

-----------------------------------------------------------------------------
(* No record is applied twice.  A call that has loaded usage.json and is   *)
(* not rebuilding it carries a total of recorded bytes; a rebuild carries  *)
(* the bytes of the root instead, which may include a change whose record  *)
(* is still to come, but under the flock it never reaches the file.        *)

FileCredited == file.payload.used <= credited

LoadedCredited ==
  \A p \in Procs :
    /\ pc[p] \in {"seed_flush", "check", "open_w", "lock_w", "dump", "flush"}
    /\ job[p].stage # "rebuild"
    => mem[p].used <= credited

CreditInv == HasFlock => FileCredited /\ LoadedCredited

LEMMA CreditInit == Init => CreditInv
  BY DEF Init, CreditInv, FileCredited, LoadedCredited, NotThere, DefaultPayload

LEMMA CreditKept == TypeInv /\ LockInv /\ CreditInv /\ [Next]_vars => CreditInv'
<1> SUFFICES ASSUME TypeInv, LockInv, CreditInv, [Next]_vars, HasFlock
             PROVE  FileCredited' /\ LoadedCredited'
  BY DEF CreditInv
<1> USE DEF TypeInv, TypeOK, CreditInv, FileCredited, LoadedCredited
<1>0. /\ DefaultPayload \in Payload /\ DefaultPayload.used = 0
      /\ Truncated.payload.used = 0
  BY DEF DefaultPayload, Payload, Truncated
<1>1. ASSUME NEW p \in Procs, Begin(p) PROVE FileCredited' /\ LoadedCredited'
  BY <1>1 DEF Begin, Goto, PCs, AnyJob
<1>2. ASSUME NEW p \in Procs, Probe(p) \/ LockRead(p) \/ ReadCorrupt(p) \/ Check(p) \/ Unlock(p)
      PROVE  FileCredited' /\ LoadedCredited'
  BY <1>2 DEF Probe, LockRead, ReadCorrupt, Check, Unlock, Goto, PCs
<1>3. ASSUME NEW p \in Procs, SeedOpen(p) PROVE FileCredited' /\ LoadedCredited'
  BY <1>0, <1>3 DEF SeedOpen, Goto, PCs
<1>4. ASSUME NEW p \in Procs, SeedFlush(p) PROVE FileCredited' /\ LoadedCredited'
  <2>1. job[p].stage # "rebuild" /\ mem[p].used <= credited
    BY <1>4 DEF SeedFlush, LockInv, NoRebuildElsewhere
  <2>2. file'.payload \in {mem[p], DefaultPayload}
    BY <1>4, OverlayType DEF SeedFlush
  <2> QED BY <1>0, <1>4, <2>1, <2>2 DEF SeedFlush, AfterLoad, Goto, PCs
<1>5. ASSUME NEW p \in Procs, Read(p) PROVE FileCredited' /\ LoadedCredited'
  BY <1>5 DEF Read, AfterLoad, Goto, PCs
<1>6. ASSUME NEW p \in Procs, Scan(p) PROVE FileCredited' /\ LoadedCredited'
  BY <1>6 DEF Scan, Goto, PCs, AnyJob
<1>7. ASSUME NEW p \in Procs, Modify(p) PROVE FileCredited' /\ LoadedCredited'
  BY <1>7 DEF Modify, Goto, PCs, AnyJob
<1>8. ASSUME NEW p \in Procs, OpenWrite(p) PROVE FileCredited' /\ LoadedCredited'
  BY <1>0, <1>8 DEF OpenWrite, Goto, PCs
<1>9. ASSUME NEW p \in Procs, LockWrite(p) PROVE FileCredited' /\ LoadedCredited'
  BY <1>9 DEF LockWrite, Goto, PCs
<1>10. ASSUME NEW p \in Procs, Flush(p) PROVE FileCredited' /\ LoadedCredited'
  <2>1. job[p].stage # "rebuild" /\ mem[p].used <= credited
    BY <1>10 DEF Flush, LockInv, NoRebuildElsewhere
  <2>2. job[p].delta \in Int
    BY DEF AnyJob
  <2>3. /\ mem[p] \in Payload
        /\ Charged(mem[p], job[p].delta) \in Payload
        /\ AtLeastZero(job[p].delta) \in Nat
        /\ Charged(mem[p], job[p].delta).used <= mem[p].used + AtLeastZero(job[p].delta)
    BY <2>2, ChargedType
  <2>4. credited <= credited'
    BY <1>10, <2>3 DEF Flush
  <2>5. FileCredited'
    <3>1. CASE job[p].stage = "record"
      <4>1. file'.payload \in {Charged(mem[p], job[p].delta), DefaultPayload}
        BY <1>10, <2>3, <3>1, OverlayType DEF Flush
      <4>2. credited' = credited + AtLeastZero(job[p].delta)
        BY <1>10, <3>1 DEF Flush
      <4>3. mem[p].used \in Nat /\ Charged(mem[p], job[p].delta).used \in Nat
        BY <2>3 DEF Payload
      <4> QED BY <1>0, <2>1, <2>3, <4>1, <4>2, <4>3
    <3>2. CASE job[p].stage # "record"
      <4>1. file'.payload \in {mem[p], DefaultPayload} /\ credited' = credited
        BY <1>10, <2>3, <3>2, OverlayType DEF Flush
      <4> QED BY <1>0, <2>1, <4>1
    <3> QED BY <3>1, <3>2
  <2>6. LoadedCredited'
    <3>1. credited' \in Nat /\ \A q \in Procs : mem[q].used \in Nat
      BY <1>10, <2>3 DEF Flush, Payload
    <3> QED BY <1>10, <2>4, <3>1 DEF Flush, Goto, PCs
  <2> QED BY <2>5, <2>6
<1>11. ASSUME NEW p \in Procs, Crash(p) PROVE FileCredited' /\ LoadedCredited'
  BY <1>11 DEF Crash, Goto, PCs
<1>12. CASE UNCHANGED vars
  BY <1>12 DEF vars
<1> QED
  BY <1>1, <1>2, <1>3, <1>4, <1>5, <1>6, <1>7, <1>8, <1>9, <1>10, <1>11, <1>12
  DEF Next, Step, Finished

\* Under the flock used_bytes stays within what recorded calls have added, for any number
\* of overlapping and crashing calls: record_usage_delta may lose updates, but no lost,
\* late or rebuilt total is ever counted on top of another.
THEOREM NoOvercharge == Spec => []NeverOvercharged
<1>1. Spec => []CreditInv
  BY CreditInit, CreditKept, LockHolds, TypesHold, PTL DEF Spec
<1>2. CreditInv => NeverOvercharged
  BY DEF CreditInv, FileCredited, NeverOvercharged
<1> QED BY <1>1, <1>2, PTL

\* A thread that rebuilds usage.json under the flock stays in front of LOCK_EX, holding the
\* lock it waits for, until its process dies: no step of its own or of another thread gets
\* it out.
THEOREM RebuildNeverLeaves == Spec => StuckHoldsTheLock
<1> DEFINE Stays == \A p \in Procs : WaitsForItself(p) => WaitsForItself(p)' \/ pc'[p] = "idle"
<1>1. TypeInv /\ LockInv /\ [Next]_vars => [Stays]_vars
  <2> SUFFICES ASSUME TypeInv, LockInv, Next,
                      NEW p \in Procs, WaitsForItself(p)
               PROVE  WaitsForItself(p)' \/ pc'[p] = "idle"
    BY DEF vars
  <2> USE ConstantsAssumption DEF TypeInv, TypeOK, WaitsForItself
  <2>1. ASSUME NEW q \in Procs, Begin(q) PROVE WaitsForItself(p)' \/ pc'[p] = "idle"
    BY <2>1 DEF Begin, Goto, PCs
  <2>2. ASSUME NEW q \in Procs, Step(q) PROVE WaitsForItself(p)' \/ pc'[p] = "idle"
    <3>1. lock = p /\ p # NoProc /\ HasFlock /\ pc[p] = "lock_w"
      BY DEF LockInv
    <3>2. CASE q = p
      BY <2>2, <3>1, <3>2 DEF Step, Probe, SeedOpen, SeedFlush, LockRead, Read, ReadCorrupt,
         Scan, Check, Modify, OpenWrite, LockWrite, Unlock, Flush, Acquire
    <3>3. CASE q # p
      <4>1. pc'[p] = pc[p] /\ job'[p] = job[p]
        BY <2>2, <3>3 DEF Step, Probe, SeedOpen, SeedFlush, LockRead, Read, ReadCorrupt,
           Scan, Check, Modify, OpenWrite, LockWrite, Unlock, Flush, Goto
      <4>2. lock' = lock
        BY <2>2, <3>1, <3>3 DEF Step, Probe, SeedOpen, SeedFlush, LockRead, Read, ReadCorrupt,
           Scan, Check, Modify, OpenWrite, LockWrite, Unlock, Flush, Acquire, Release
      <4> QED BY <4>1, <4>2
    <3> QED BY <3>2, <3>3
  <2>3. ASSUME NEW q \in Procs, Crash(q) PROVE WaitsForItself(p)' \/ pc'[p] = "idle"
    BY <2>3 DEF Crash, Release, Goto, PCs
  <2>4. CASE Finished
    BY <2>4 DEF Finished, vars
  <2> QED BY <2>1, <2>2, <2>3, <2>4 DEF Next
<1> QED BY <1>1, TypesHold, LockHolds, PTL DEF Spec, StuckHoldsTheLock

-----------------------------------------------------------------------------
(* Calls one at a time.  The process in a call knows what usage.json holds *)
(* at each of its steps, and that nobody else has changed it since.        *)

ShapeInv ==
  /\ file.state = "absent" => file = NotThere
  /\ file.state = "empty" => file = Truncated

Alone == \A p, q \in Procs : pc[p] # "idle" /\ pc[q] # "idle" => p = q

BetweenCalls == AllIdle => file.state \in {"absent", "json"}

InCall(p) ==
  /\ job[p].stage \in {"quota", "record"}
  /\ pc[p] = "check" => job[p].stage = "quota"
  /\ pc[p] \in {"open_w", "lock_w", "dump", "flush"} => job[p].stage = "record"
  /\ pc[p] \in {"probe", "modify"} => file.state \in {"absent", "json"}
  /\ pc[p] = "seed" => file.state = "absent"
  /\ pc[p] \in {"seed_flush", "lock_w", "dump", "flush"} => file.state = "empty"
  /\ pc[p] \in {"lock_r", "read", "check", "open_w"} => file.state = "json"
  /\ pc[p] = "seed_flush" => mem[p] = DefaultPayload
  /\ pc[p] \in {"check", "open_w"} => mem[p] = file.payload
  /\ pc[p] # "scan"

OneCall == Alone /\ BetweenCalls /\ \A p \in Procs : pc[p] # "idle" => InCall(p)

QuietInv == ShapeInv /\ (Quiet => OneCall)

LEMMA QuietInit == Init => QuietInv
<1>1. Init => ShapeInv
  BY DEF Init, ShapeInv, NotThere
<1>2. Init => OneCall
  BY DEF Init, OneCall, Alone, BetweenCalls, NotThere
<1> QED BY <1>1, <1>2 DEF QuietInv

LEMMA ShapeKept == TypeInv /\ ShapeInv /\ [Next]_vars => ShapeInv'
<1> SUFFICES ASSUME TypeInv, ShapeInv, [Next]_vars PROVE ShapeInv'
  OBVIOUS
<1> USE DEF TypeInv, TypeOK, ShapeInv
<1>0. Truncated.state = "empty"
  BY DEF Truncated
<1>1. ASSUME NEW p \in Procs, SeedFlush(p) \/ Flush(p) PROVE ShapeInv'
  <2>1. \A pl \in Payload : Overlay(file, pl).state \in {"json", "garbage"}
    BY OverlayType
  <2>2. job[p].delta \in Int
    BY DEF AnyJob
  <2>3. mem[p] \in Payload /\ Charged(mem[p], job[p].delta) \in Payload
    BY <2>2, ChargedType
  <2> QED BY <1>1, <2>1, <2>3 DEF SeedFlush, Flush
<1>2. ASSUME NEW p \in Procs, SeedOpen(p) \/ OpenWrite(p) PROVE ShapeInv'
  BY <1>0, <1>2 DEF SeedOpen, OpenWrite
<1>3. CASE UNCHANGED file
  BY <1>3
<1> QED BY <1>1, <1>2, <1>3 DEF Next, Step, Begin, Probe, LockRead, Read, ReadCorrupt, Scan,
           Check, Modify, LockWrite, Unlock, Crash, Finished, vars

\* A step of a quiet behaviour is a call that begins while nobody is in one, or the step of
\* the one process that is.
LEMMA QuietSteps ==
  ASSUME TypeInv, QuietInv, [Next]_vars, Quiet'
  PROVE  /\ Quiet
         /\ OneCall
         /\ \/ \E p \in Procs : AllIdle /\ Begin(p)
            \/ \E p \in Procs : Step(p) /\ InCall(p) /\ (\A q \in Procs \ {p} : pc[q] = "idle")
            \/ UNCHANGED vars
<1> USE DEF TypeInv, TypeOK, Quiet
<1>1. ASSUME NEW p \in Procs, Crash(p) PROVE FALSE
  BY <1>1 DEF Crash
<1>2. Quiet
  BY <1>1 DEF Next, Step, Begin, Probe, SeedOpen, SeedFlush, LockRead, Read, ReadCorrupt, Scan,
         Check, Modify, OpenWrite, LockWrite, Unlock, Flush, Finished, vars
<1>3. OneCall
  BY <1>2 DEF QuietInv
<1>4. ASSUME NEW p \in Procs, Begin(p) PROVE AllIdle
  BY <1>4 DEF Begin, AllIdle
<1>5. ASSUME NEW p \in Procs, Step(p) PROVE InCall(p) /\ \A q \in Procs \ {p} : pc[q] = "idle"
  <2>1. pc[p] # "idle"
    BY <1>5 DEF Step, Probe, SeedOpen, SeedFlush, LockRead, Read, ReadCorrupt, Scan,
       Check, Modify, OpenWrite, LockWrite, Unlock, Flush
  <2> QED BY <1>3, <2>1 DEF OneCall, Alone
<1> QED BY <1>1, <1>2, <1>3, <1>4, <1>5 DEF Next, Finished

\* What is left to show of a step of p when everybody else is idle.
LEMMA OneCallAfter ==
  ASSUME TypeInv, TypeInv', NEW p \in Procs,
         \A q \in Procs \ {p} : pc'[q] = "idle",
         pc'[p] # "idle" => InCall(p)',
         pc'[p] = "idle" => file'.state \in {"absent", "json"}
  PROVE  OneCall'
  BY DEF OneCall, Alone, BetweenCalls, AllIdle, TypeInv, TypeOK

LEMMA QuietKept == TypeInv /\ TypeInv' /\ QuietInv /\ [Next]_vars => QuietInv'
<1> SUFFICES ASSUME TypeInv, TypeInv', QuietInv, [Next]_vars, Quiet' PROVE OneCall'
  BY ShapeKept DEF QuietInv
<1> USE DEF TypeInv, TypeOK
<1>0. /\ Truncated.state = "empty" /\ Truncated.len = 0
      /\ DefaultPayload \in Payload
  BY DEF Truncated, DefaultPayload, Payload
<1>e. file.state = "empty" => file.len = 0
  BY <1>0 DEF QuietInv, ShapeInv
<1>1. ASSUME NEW p \in Procs, AllIdle, Begin(p), OneCall PROVE OneCall'
  <2>1. PICK d \in Deltas, st \in {"quota", "record"}, at \in {"probe", "modify"} :
          /\ job' = [job EXCEPT ![p] = [delta |-> d, stage |-> st]]
          /\ pc' = [pc EXCEPT ![p] = at]
    BY <1>1 DEF Begin, Goto
  <2>2. file.state \in {"absent", "json"} /\ file' = file
    BY <1>1 DEF Begin, OneCall, BetweenCalls
  <2>3. InCall(p)'
    BY <2>1, <2>2 DEF InCall
  <2>4. \A q \in Procs \ {p} : pc'[q] = "idle"
    BY <1>1, <2>1 DEF AllIdle
  <2> QED BY <2>1, <2>3, <2>4, OneCallAfter
<1>2. ASSUME NEW p \in Procs, Step(p), InCall(p), \A q \in Procs \ {p} : pc[q] = "idle"
      PROVE  OneCall'
  <2>0. \A q \in Procs \ {p} : pc'[q] = "idle"
    BY <1>2 DEF Step, Probe, SeedOpen, SeedFlush, LockRead, Read, ReadCorrupt, Scan,
       Check, Modify, OpenWrite, LockWrite, Unlock, Flush, Goto
  <2> SUFFICES /\ pc'[p] # "idle" => InCall(p)'
               /\ pc'[p] = "idle" => file'.state \in {"absent", "json"}
    BY <2>0, OneCallAfter
  <2> USE <1>2 DEF InCall
  <2>1. CASE Probe(p)
    <3>1. file.state \in {"absent", "json"} /\ pc[p] = "probe"
      BY <2>1 DEF Probe
    <3>2. /\ pc'[p] = IF file.state = "absent" THEN "seed" ELSE "lock_r"
          /\ file' = file /\ job' = job
      BY <2>1 DEF Probe, Goto
    <3> QED BY <3>1, <3>2
  <2>2. CASE SeedOpen(p)
    BY <1>0, <2>2 DEF SeedOpen, Goto
  <2>3. CASE SeedFlush(p)
    <3>1. file' = Overlay(file, mem[p]) /\ mem[p] = DefaultPayload /\ file.len = 0
      BY <1>e, <2>3 DEF SeedFlush
    <3>2. file'.state = "json" /\ file'.payload = mem[p]
      BY <1>0, <3>1, OverlayType
    <3> QED BY <2>3, <3>2 DEF SeedFlush, AfterLoad, Goto
  <2>4. CASE LockRead(p)
    BY <2>4 DEF LockRead, Goto
  <2>5. CASE Read(p)
    BY <2>5 DEF Read, AfterLoad, Goto
  <2>6. CASE ReadCorrupt(p) \/ Scan(p)
    BY <2>6 DEF ReadCorrupt, Scan
  <2>7. CASE Check(p)
    BY <2>7 DEF Check, Goto
  <2>8. CASE Modify(p)
    BY <2>8 DEF Modify, Goto, AnyJob
  <2>9. CASE OpenWrite(p)
    BY <1>0, <2>9 DEF OpenWrite, Goto
  <2>10. CASE LockWrite(p)
    BY <2>10 DEF LockWrite, Goto
  <2>11. CASE Unlock(p)
    BY <2>11 DEF Unlock, Goto
  <2>12. CASE Flush(p)
    <3>1. job[p].stage = "record" /\ file.len = 0 /\ job[p].delta \in Int
      BY <1>e, <2>12 DEF Flush, AnyJob
    <3>2. file' = Overlay(file, Charged(mem[p], job[p].delta)) /\ pc'[p] = "idle"
      BY <2>12, <3>1 DEF Flush, Goto
    <3>3. Charged(mem[p], job[p].delta) \in Payload
      BY <3>1, ChargedType
    <3> QED BY <3>1, <3>2, <3>3, OverlayType
  <2> QED BY <2>1, <2>2, <2>3, <2>4, <2>5, <2>6, <2>7, <2>8, <2>9, <2>10, <2>11, <2>12 DEF Step
<1>3. ASSUME UNCHANGED vars, OneCall PROVE OneCall'
  BY <1>3 DEF vars, OneCall, Alone, BetweenCalls, AllIdle, InCall
<1> QED BY <1>1, <1>2, <1>3, QuietSteps

LEMMA QuietHolds == Spec => []QuietInv
<1> QED BY QuietInit, QuietKept, TypesHold, PTL DEF Spec

\* usage.json is never taken for corrupt, and so no call ever waits for itself, as long as
\* calls do not overlap and nothing crashes.
THEOREM NeverCorruptWhenQuiet == Spec => []CorruptOnlyAfterOverlapOrCrash
<1>1. QuietInv => CorruptOnlyAfterOverlapOrCrash
  BY DEF QuietInv, OneCall, InCall, CorruptOnlyAfterOverlapOrCrash
<1> QED BY <1>1, QuietHolds, PTL

-----------------------------------------------------------------------------
(* Exactness.  What a call knows of used_bytes, together with the change   *)
(* it has made to the files and not recorded yet, is what the root holds.  *)

Known(p) == IF pc[p] \in {"lock_w", "dump", "flush"} THEN mem[p].used ELSE file.payload.used

Pending(p) == IF job[p].stage = "record" /\ pc[p] # "modify" THEN job[p].delta ELSE 0

Exact ==
  /\ AllIdle => file.payload.used = stored
  /\ \A p \in Procs : pc[p] # "idle" => Known(p) + Pending(p) = stored

WithinLimit ==
  HardLimit # NoLimit =>
    /\ stored <= HardLimit
    /\ \A p \in Procs : pc[p] = "modify" =>
         IF job[p].stage = "quota" THEN Fits(stored, job[p].delta) ELSE job[p].delta < 0

ExactInv == Quiet /\ InitialBytes = 0 => Exact /\ WithinLimit

LEMMA ExactInit == Init => ExactInv
  BY HardLimitAssumption
  DEF Init, ExactInv, Exact, WithinLimit, AllIdle, NotThere, DefaultPayload

\* The text of used_bytes after a quiet step, action by action.
LEMMA QuietFlush ==
  ASSUME TypeInv, QuietInv, NEW p \in Procs, InCall(p), SeedFlush(p) \/ Flush(p)
  PROVE  /\ file'.state = "json"
         /\ SeedFlush(p) => file'.payload.used = 0 /\ file.payload.used = 0
         /\ Flush(p) => /\ job[p].stage = "record"
                        /\ file'.payload = Charged(mem[p], job[p].delta)
<1> USE DEF TypeInv, TypeOK, InCall
<1>1. file = Truncated /\ file.len = 0 /\ file.payload.used = 0
  BY DEF QuietInv, ShapeInv, SeedFlush, Flush, Truncated, DefaultPayload
<1>2. job[p].delta \in Int
  BY DEF AnyJob
<1>3. mem[p] \in Payload /\ Charged(mem[p], job[p].delta) \in Payload
  BY <1>2, ChargedType
<1>4. CASE SeedFlush(p)
  <2>1. file'.state = "json" /\ file'.payload = mem[p] /\ mem[p] = DefaultPayload
    BY <1>1, <1>3, <1>4, OverlayType DEF SeedFlush
  <2> QED BY <1>1, <1>4, <2>1 DEF DefaultPayload, SeedFlush, Flush
<1>5. CASE Flush(p)
  <2>1. job[p].stage = "record" /\ file' = Overlay(file, Charged(mem[p], job[p].delta))
    BY <1>5 DEF Flush
  <2> QED BY <1>1, <1>3, <1>5, <2>1, OverlayType DEF SeedFlush, Flush
<1> QED BY <1>4, <1>5

LEMMA ExactKept ==
  TypeInv /\ TypeInv' /\ QuietInv /\ ExactInv /\ [Next]_vars => ExactInv'
<1> SUFFICES ASSUME TypeInv, TypeInv', QuietInv, ExactInv, [Next]_vars, Quiet', InitialBytes = 0
             PROVE  Exact' /\ WithinLimit'
  BY DEF ExactInv
<1> USE DEF TypeInv, TypeOK
<1>0. Quiet /\ OneCall /\ Exact /\ WithinLimit
  BY QuietSteps DEF ExactInv
<1>1. ASSUME NEW p \in Procs, AllIdle, Begin(p) PROVE Exact' /\ WithinLimit'
  <2>1. PICK d \in Deltas :
          \/ /\ job' = [job EXCEPT ![p] = [delta |-> d, stage |-> "quota"]]
             /\ pc' = [pc EXCEPT ![p] = "probe"]
          \/ /\ d < 0
             /\ job' = [job EXCEPT ![p] = [delta |-> d, stage |-> "record"]]
             /\ pc' = [pc EXCEPT ![p] = "modify"]
    BY <1>1 DEF Begin, Goto
  <2>2. file' = file /\ stored' = stored /\ file.payload.used = stored
    BY <1>0, <1>1 DEF Begin, Exact
  <2>3. \A q \in Procs \ {p} : pc'[q] = "idle"
    BY <1>1, <2>1 DEF AllIdle
  <2>4. /\ pc'[p] \in {"probe", "modify"}
        /\ job'[p].stage = "record" => pc'[p] = "modify" /\ job'[p].delta < 0
        /\ job'[p].stage = "quota" => pc'[p] = "probe"
        /\ job'[p].stage \in {"quota", "record"}
    BY <2>1
  <2>5. stored \in Nat
    OBVIOUS
  <2>6. Exact'
    BY <2>2, <2>3, <2>4, <2>5 DEF Exact, Known, Pending, AllIdle
  <2>7. WithinLimit'
    BY <1>0, <2>2, <2>3, <2>4 DEF WithinLimit
  <2> QED BY <2>6, <2>7
<1>2. ASSUME NEW p \in Procs, Step(p), InCall(p), \A q \in Procs \ {p} : pc[q] = "idle"
      PROVE  Exact' /\ WithinLimit'
  <2>0. \A q \in Procs \ {p} : pc'[q] = "idle"
    BY <1>2 DEF Step, Probe, SeedOpen, SeedFlush, LockRead, Read, ReadCorrupt, Scan,
       Check, Modify, OpenWrite, LockWrite, Unlock, Flush, Goto
  <2>a. pc[p] # "idle" /\ Known(p) + Pending(p) = stored
    BY <1>0, <1>2 DEF Exact, Step, Probe, SeedOpen, SeedFlush, LockRead, Read, ReadCorrupt, Scan,
       Check, Modify, OpenWrite, LockWrite, Unlock, Flush
  <2>b. /\ stored \in Nat /\ stored' \in Nat
        /\ file.payload.used \in Nat /\ file'.payload.used \in Nat
        /\ mem[p].used \in Nat /\ mem'[p].used \in Nat
        /\ job[p].delta \in Int /\ job'[p].delta \in Int
    BY DEF File, Payload, AnyJob
  <2>c. ASSUME pc'[p] = "idle" => file'.payload.used = stored',
               pc'[p] # "idle" => (Known(p) + Pending(p) = stored)'
        PROVE  Exact'
    BY <2>0, <2>c DEF Exact, AllIdle
  <2>d. ASSUME stored' = stored, pc'[p] # "modify"
        PROVE  WithinLimit'
    BY <1>0, <2>0, <2>d DEF WithinLimit
  <2> USE <1>2 DEF InCall
  <2>1. CASE Probe(p) \/ LockRead(p)
    <3>1. /\ pc'[p] \in {"seed", "lock_r", "read"} /\ file' = file /\ job' = job
          /\ mem' = mem /\ stored' = stored /\ pc[p] \in {"probe", "lock_r"}
      BY <2>1 DEF Probe, LockRead, Goto
    <3> QED BY <2>a, <2>b, <2>c, <2>d, <3>1 DEF Known, Pending
  <2>2. CASE SeedOpen(p)
    <3>1. file.payload.used = 0 /\ file'.payload.used = 0
      BY <2>2 DEF SeedOpen, QuietInv, ShapeInv, NotThere, Truncated, DefaultPayload
    <3>2. /\ pc'[p] = "seed_flush" /\ job' = job /\ stored' = stored /\ pc[p] = "seed"
      BY <2>2 DEF SeedOpen, Goto
    <3> QED BY <2>a, <2>b, <2>c, <2>d, <3>1, <3>2 DEF Known, Pending
  <2>3. CASE SeedFlush(p)
    <3>1. file.payload.used = 0 /\ file'.payload.used = 0
      BY <2>3, QuietFlush
    <3>2. /\ pc'[p] \in {"check", "open_w"} /\ job' = job
          /\ stored' = stored /\ pc[p] = "seed_flush"
      BY <2>3 DEF SeedFlush, AfterLoad, Goto
    <3> QED BY <2>a, <2>b, <2>c, <2>d, <3>1, <3>2 DEF Known, Pending
  <2>4. CASE Read(p)
    <3>1. /\ pc'[p] \in {"check", "open_w"} /\ job' = job /\ file' = file
          /\ stored' = stored /\ pc[p] = "read"
      BY <2>4 DEF Read, AfterLoad, Goto
    <3> QED BY <2>a, <2>b, <2>c, <2>d, <3>1 DEF Known, Pending
  <2>5. CASE ReadCorrupt(p) \/ Scan(p)
    BY <2>5 DEF ReadCorrupt, Scan
  <2>6. CASE Check(p)
    <3>1. /\ file' = file /\ job' = job /\ stored' = stored /\ mem' = mem
          /\ pc[p] = "check" /\ job[p].stage = "quota" /\ mem[p] = file.payload
          /\ pc'[p] = IF Fits(mem[p].used, job[p].delta) THEN "modify" ELSE "idle"
      BY <2>6 DEF Check, Goto
    <3>2. mem[p].used = stored
      BY <2>a, <2>b, <3>1 DEF Known, Pending
    <3>3. Exact'
      BY <2>b, <2>c, <3>1, <3>2 DEF Known, Pending
    <3>4. WithinLimit'
      BY <1>0, <2>0, <3>1, <3>2 DEF WithinLimit
    <3> QED BY <3>3, <3>4
  <2>7. CASE Modify(p)
    <3>1. pc[p] = "modify" /\ file' = file /\ mem' = mem /\ file.payload.used = stored
      BY <2>7, <2>a, <2>b DEF Modify, Known, Pending
    <3>2. CASE /\ stored + job[p].delta >= 0
               /\ stored' = stored + job[p].delta
               /\ job' = [job EXCEPT ![p].stage = "record"]
               /\ pc' = [pc EXCEPT ![p] = "probe"]
      <4>1. job'[p].stage = "record" /\ job'[p].delta = job[p].delta /\ pc'[p] = "probe"
        BY <3>2 DEF AnyJob
      <4>2. Exact'
        BY <2>b, <2>c, <3>1, <3>2, <4>1 DEF Known, Pending
      <4>3. HardLimit # NoLimit => stored' <= HardLimit
        <5> SUFFICES ASSUME HardLimit # NoLimit PROVE stored' <= HardLimit
          OBVIOUS
        <5>1. HardLimit \in Nat /\ stored <= HardLimit
          BY <1>0, HardLimitAssumption DEF WithinLimit
        <5>2. CASE job[p].stage = "quota"
          <6>1. Fits(stored, job[p].delta)
            BY <1>0, <3>1, <5>2 DEF WithinLimit
          <6> QED BY <2>b, <3>2, <5>1, <6>1 DEF Fits, AtLeastZero
        <5>3. CASE job[p].stage = "record"
          <6>1. job[p].delta < 0
            BY <1>0, <3>1, <5>3 DEF WithinLimit
          <6> QED BY <2>b, <3>2, <5>1, <6>1
        <5> QED BY <5>2, <5>3
      <4> QED BY <2>0, <4>1, <4>2, <4>3 DEF WithinLimit
    <3>3. CASE stored' = stored /\ job' = job /\ pc' = [pc EXCEPT ![p] = "idle"]
      BY <2>c, <2>d, <3>1, <3>3
    <3> QED BY <2>7, <3>2, <3>3 DEF Modify, Goto
  <2>8. CASE OpenWrite(p) \/ LockWrite(p) \/ Unlock(p)
    <3>1. /\ pc'[p] \in {"lock_w", "dump", "flush"} /\ job' = job /\ mem' = mem
          /\ stored' = stored /\ pc[p] \in {"open_w", "lock_w", "dump"}
      BY <2>8 DEF OpenWrite, LockWrite, Unlock, Goto
    <3>2. Known(p) = mem[p].used
      BY <3>1 DEF Known
    <3> QED BY <2>a, <2>b, <2>c, <2>d, <3>1, <3>2 DEF Known, Pending
  <2>9. CASE Flush(p)
    <3>1. /\ pc[p] = "flush" /\ pc'[p] = "idle" /\ stored' = stored
          /\ job[p].stage = "record" /\ file'.payload = Charged(mem[p], job[p].delta)
      BY <2>9, QuietFlush DEF Flush, Goto
    <3>2. mem[p].used + job[p].delta = stored
      BY <2>a, <3>1 DEF Known, Pending
    <3>3. Charged(mem[p], job[p].delta).used = stored
      <4>1. mem[p] \in Payload /\ mem[p].used + job[p].delta >= 0
        BY <2>b, <3>2
      <4> QED BY <2>b, <3>2, <4>1, ChargedType
    <3> QED BY <2>c, <2>d, <3>1, <3>3
  <2> QED BY <2>1, <2>2, <2>3, <2>4, <2>5, <2>6, <2>7, <2>8, <2>9 DEF Step
<1>3. ASSUME UNCHANGED vars PROVE Exact' /\ WithinLimit'
  BY <1>0, <1>3 DEF vars, Exact, WithinLimit, Known, Pending, AllIdle
<1> QED BY <1>1, <1>2, <1>3, QuietSteps

LEMMA ExactHolds == Spec => []ExactInv
<1> QED BY ExactInit, ExactKept, QuietHolds, TypesHold, PTL DEF Spec

\* With calls one at a time on a root that was empty at first, the deltas of the tool calls
\* keep used_bytes equal to the bytes the root holds between any two calls.
THEOREM UsageIsExact == Spec => []LedgerExact
<1>1. ASSUME TypeInv, QuietInv, ExactInv PROVE LedgerExact
  <2> SUFFICES ASSUME Quiet, InitialBytes = 0, AllIdle
               PROVE  file.state \in {"absent", "json"} /\ LedgerValue = stored
    BY DEF LedgerExact
  <2>1. file.state \in {"absent", "json"} /\ file.payload.used = stored
    BY <1>1 DEF QuietInv, OneCall, BetweenCalls, ExactInv, Exact
  <2>2. Writing = {}
    BY DEF Writing, AllIdle
  <2>3. file.state = "absent" => file.payload.used = 0
    BY <1>1 DEF QuietInv, ShapeInv, NotThere, DefaultPayload
  <2> QED BY <2>1, <2>2, <2>3 DEF LedgerValue
<1> QED BY <1>1, TypesHold, QuietHolds, ExactHolds, PTL

\* ... and the hard limit of enforce_quota holds of the root at every instant, also in the
\* middle of a call.
THEOREM QuotaHoldsWhenQuiet == Spec => []QuotaHolds
<1>1. ExactInv => QuotaHolds
  BY DEF ExactInv, WithinLimit, QuotaHolds
<1> QED BY <1>1, ExactHolds, PTL

-----------------------------------------------------------------------------
(* Refinement.  A quiet step of UsageFile is a step of UsageLedger: the    *)
(* quota check and the start of a deletion admit, the close of the handle  *)
(* settles, a FileNotFoundError drops, everything else stutters.           *)

ValueKnown ==
  /\ AllIdle => LedgerValue = file.payload.used
  /\ \A p \in Procs : pc[p] # "idle" => LedgerValue = Known(p)

ClaimsKnown ==
  \A p \in Procs : (\A q \in Procs \ {p} : pc[q] = "idle") =>
    Claims = IF Admitted(p) THEN {[proc |-> p, delta |-> job[p].delta]} ELSE {}

\* The ledger's value, without the CHOOSE.
LEMMA ValueIsKnown == TypeInv /\ QuietInv /\ Quiet => ValueKnown
<1> SUFFICES ASSUME TypeInv, QuietInv, Quiet PROVE ValueKnown
  OBVIOUS
<1> USE DEF QuietInv, OneCall, InCall, ShapeInv
<1>0. file.state # "json" /\ file.state # "garbage" => file.payload.used = 0
  BY DEF TypeInv, TypeOK, File, States, NotThere, Truncated, DefaultPayload
<1>1. ASSUME AllIdle PROVE LedgerValue = file.payload.used
  <2>1. Writing = {}
    BY <1>1 DEF Writing, AllIdle
  <2> QED BY <1>0, <1>1, <2>1 DEF LedgerValue, BetweenCalls
<1>2. ASSUME NEW p \in Procs, pc[p] # "idle" PROVE LedgerValue = Known(p)
  <2>1. \A q \in Procs : pc[q] # "idle" => q = p
    BY <1>2 DEF Alone
  <2>2. CASE pc[p] \in {"lock_w", "dump", "flush"}
    <3>1. Writing = {p} /\ file.state = "empty"
      BY <1>2, <2>1, <2>2 DEF Writing
    <3>2. (CHOOSE q \in {p} : TRUE) = p
      OBVIOUS
    <3> QED BY <2>2, <3>1, <3>2 DEF LedgerValue, Known
  <2>3. CASE pc[p] \notin {"lock_w", "dump", "flush"}
    <3>1. Writing = {}
      BY <2>1, <2>3 DEF Writing
    <3>2. file.state # "garbage"
      BY <1>2, <2>3 DEF TypeInv, TypeOK, PCs
    <3> QED BY <1>0, <2>3, <3>1, <3>2 DEF LedgerValue, Known
  <2> QED BY <2>2, <2>3
<1> QED BY <1>1, <1>2 DEF ValueKnown

\* With everybody else idle, at most p has a claim.
LEMMA ClaimsOf == ClaimsKnown
<1> SUFFICES ASSUME NEW p \in Procs, \A q \in Procs \ {p} : pc[q] = "idle"
             PROVE  Claims = IF Admitted(p) THEN {[proc |-> p, delta |-> job[p].delta]} ELSE {}
  BY DEF ClaimsKnown
<1>1. {q \in Procs : Admitted(q)} = IF Admitted(p) THEN {p} ELSE {}
  BY DEF Admitted
<1> QED BY <1>1 DEF Claims

\* What a step of p must do for the ledger to see nothing, or a call settled.
LEMMA QuietStepRefines ==
  ASSUME TypeInv, TypeInv', QuietInv, QuietInv', Quiet, Quiet',
         NEW p \in Procs, Step(p), InCall(p), \A q \in Procs \ {p} : pc[q] = "idle"
  PROVE  [Ledger!Next]_(Ledger!ledgerVars)
<1> USE DEF TypeInv, TypeOK, InCall
<1>0. /\ \A q \in Procs \ {p} : pc'[q] = "idle"
      /\ pc[p] # "idle"
  BY DEF Step, Probe, SeedOpen, SeedFlush, LockRead, Read, ReadCorrupt, Scan,
     Check, Modify, OpenWrite, LockWrite, Unlock, Flush, Goto
<1> DEFINE claim == [proc |-> p, delta |-> job[p].delta]
<1>v. ValueKnown' /\ ClaimsKnown'
  BY ValueIsKnown, ClaimsOf, PTL
<1>1. LedgerValue = Known(p) /\ Claims = IF Admitted(p) THEN {claim} ELSE {}
  BY <1>0, ValueIsKnown, ClaimsOf DEF ValueKnown, ClaimsKnown
<1>2. /\ pc'[p] # "idle" => LedgerValue' = Known(p)'
      /\ pc'[p] = "idle" => LedgerValue' = file'.payload.used
  <2>1. pc'[p] = "idle" => AllIdle'
    BY <1>0 DEF AllIdle
  <2> QED BY <1>v, <2>1 DEF ValueKnown
<1>3. Claims' = IF Admitted(p)' THEN {[proc |-> p, delta |-> job'[p].delta]} ELSE {}
  BY <1>0, <1>v DEF ClaimsKnown
<1>4. job[p] \in Job /\ claim \in Ledger!Claim /\ job[p].delta \in Deltas
  BY <1>0 DEF Job, Ledger!Claim
<1>s. ASSUME LedgerValue' = LedgerValue, Claims' = Claims
      PROVE  [Ledger!Next]_(Ledger!ledgerVars)
  BY <1>s DEF Ledger!ledgerVars
<1>5. CASE Probe(p) \/ LockRead(p)
  <2>1. /\ pc[p] \in {"probe", "lock_r"} /\ pc'[p] \in {"seed", "lock_r", "read"}
        /\ file' = file /\ job' = job /\ mem' = mem
    BY <1>5 DEF Probe, LockRead, Goto
  <2> QED BY <1>1, <1>2, <1>3, <1>s, <2>1 DEF Known, Admitted
<1>6. CASE SeedOpen(p)
  <2>1. file.payload.used = 0 /\ file'.payload.used = 0
    BY <1>6 DEF SeedOpen, QuietInv, ShapeInv, NotThere, Truncated, DefaultPayload
  <2>2. pc[p] = "seed" /\ pc'[p] = "seed_flush" /\ job' = job
    BY <1>6 DEF SeedOpen, Goto
  <2> QED BY <1>1, <1>2, <1>3, <1>s, <2>1, <2>2 DEF Known, Admitted
<1>7. CASE SeedFlush(p)
  <2>1. file.payload.used = 0 /\ file'.payload.used = 0
    BY <1>7, QuietFlush
  <2>2. pc[p] = "seed_flush" /\ pc'[p] \in {"check", "open_w"} /\ job' = job
    BY <1>7 DEF SeedFlush, AfterLoad, Goto
  <2> QED BY <1>1, <1>2, <1>3, <1>s, <2>1, <2>2 DEF Known, Admitted
<1>8. CASE Read(p)
  <2>1. /\ pc[p] = "read" /\ pc'[p] \in {"check", "open_w"} /\ job' = job /\ file' = file
    BY <1>8 DEF Read, AfterLoad, Goto
  <2> QED BY <1>1, <1>2, <1>3, <1>s, <2>1 DEF Known, Admitted
<1>9. CASE ReadCorrupt(p) \/ Scan(p)
  BY <1>9 DEF ReadCorrupt, Scan
<1>10. CASE Check(p)
  <2>1. /\ file' = file /\ job' = job /\ mem' = mem
        /\ pc[p] = "check" /\ job[p].stage = "quota" /\ mem[p] = file.payload
        /\ pc'[p] = IF Fits(mem[p].used, job[p].delta) THEN "modify" ELSE "idle"
    BY <1>10 DEF Check, Goto
  <2>2. Claims = {} /\ LedgerValue = mem[p].used /\ LedgerValue' = LedgerValue
    BY <1>1, <1>2, <2>1 DEF Known, Admitted
  <2>3. CASE Fits(mem[p].used, job[p].delta)
    <3>1. Claims' = {claim}
      BY <1>3, <2>1, <2>3 DEF Admitted
    <3>2. Ledger!Fits(LedgerValue, job[p].delta)
      BY <2>2, <2>3 DEF Fits, AtLeastZero, Ledger!Fits, Ledger!AtLeastZero
    <3>3. Ledger!Admit(p, job[p].delta)
      BY <2>2, <3>1, <3>2 DEF Ledger!Admit
    <3> QED BY <1>4, <3>3 DEF Ledger!Next
  <2>4. CASE ~Fits(mem[p].used, job[p].delta)
    BY <1>3, <1>s, <2>1, <2>2, <2>4 DEF Admitted
  <2> QED BY <2>3, <2>4
<1>11. CASE Modify(p)
  <2>1. /\ file' = file /\ mem' = mem /\ pc[p] = "modify"
        /\ Claims = {claim} /\ LedgerValue = file.payload.used
    BY <1>1, <1>11 DEF Modify, Known, Admitted
  <2>2. CASE job' = [job EXCEPT ![p].stage = "record"] /\ pc' = [pc EXCEPT ![p] = "probe"]
    <3>1. job'[p].delta = job[p].delta /\ job'[p].stage = "record" /\ pc'[p] = "probe"
      BY <2>2 DEF AnyJob
    <3> QED BY <1>2, <1>3, <1>s, <2>1, <3>1 DEF Known, Admitted
  <2>3. CASE job' = job /\ pc' = [pc EXCEPT ![p] = "idle"]
    <3>1. Claims' = {} /\ LedgerValue' = LedgerValue
      BY <1>2, <1>3, <2>1, <2>3 DEF Admitted
    <3>2. Ledger!Drop(claim)
      BY <2>1, <3>1 DEF Ledger!Drop
    <3> QED BY <2>1, <3>2 DEF Ledger!Next
  <2> QED BY <1>11, <2>2, <2>3 DEF Modify, Goto
<1>12. CASE OpenWrite(p) \/ LockWrite(p) \/ Unlock(p)
  <2>1. /\ pc[p] \in {"open_w", "lock_w", "dump"} /\ pc'[p] \in {"lock_w", "dump", "flush"}
        /\ job' = job /\ mem' = mem
    BY <1>12 DEF OpenWrite, LockWrite, Unlock, Goto
  <2>2. Known(p) = mem[p].used
    BY <2>1 DEF Known
  <2> QED BY <1>1, <1>2, <1>3, <1>s, <2>1, <2>2 DEF Known, Admitted
<1>13. CASE Flush(p)
  <2>1. /\ pc[p] = "flush" /\ pc'[p] = "idle"
        /\ job[p].stage = "record" /\ file'.payload = Charged(mem[p], job[p].delta)
    BY <1>13, QuietFlush DEF Flush, Goto
  <2>2. Claims = {claim} /\ LedgerValue = mem[p].used
    BY <1>1, <2>1 DEF Known, Admitted
  <2>3. Claims' = {} /\ LedgerValue' = Charged(mem[p], job[p].delta).used
    BY <1>2, <1>3, <2>1 DEF Admitted
  <2>4. LedgerValue' = Ledger!AtLeastZero(LedgerValue + claim.delta)
    BY <2>2, <2>3 DEF Charged, AtLeastZero, Ledger!AtLeastZero
  <2>5. Ledger!Settle(claim)
    BY <2>2, <2>3, <2>4 DEF Ledger!Settle
  <2> QED BY <2>2, <2>5 DEF Ledger!Next
<1> QED BY <1>5, <1>6, <1>7, <1>8, <1>9, <1>10, <1>11, <1>12, <1>13 DEF Step

LEMMA QuietNextRefines ==
  TypeInv /\ TypeInv' /\ QuietInv /\ QuietInv' /\ Quiet' /\ [Next]_vars
    => [Ledger!Next]_(Ledger!ledgerVars)
<1> SUFFICES ASSUME TypeInv, TypeInv', QuietInv, QuietInv', Quiet', [Next]_vars
             PROVE  [Ledger!Next]_(Ledger!ledgerVars)
  OBVIOUS
<1>0. Quiet
  BY QuietSteps
<1>1. ASSUME NEW p \in Procs, AllIdle, Begin(p) PROVE [Ledger!Next]_(Ledger!ledgerVars)
  <2> USE DEF TypeInv, TypeOK
  <2>1. PICK d \in Deltas :
          \/ /\ job' = [job EXCEPT ![p] = [delta |-> d, stage |-> "quota"]]
             /\ pc' = [pc EXCEPT ![p] = "probe"]
          \/ /\ d < 0
             /\ job' = [job EXCEPT ![p] = [delta |-> d, stage |-> "record"]]
             /\ pc' = [pc EXCEPT ![p] = "modify"]
    BY <1>1 DEF Begin, Goto
  <2>2. file' = file /\ pc'[p] \in {"probe", "modify"} /\ job'[p].delta = d
    BY <1>1, <2>1 DEF Begin
  <2>3. \A q \in Procs \ {p} : pc[q] = "idle" /\ pc'[q] = "idle"
    BY <1>1, <2>1 DEF AllIdle
  <2>4. LedgerValue = file.payload.used /\ Claims = {}
    <3>1. ~Admitted(p)
      BY <1>1 DEF AllIdle, Admitted
    <3> QED BY <1>0, <1>1, <2>3, <3>1, ValueIsKnown, ClaimsOf DEF ValueKnown, ClaimsKnown
  <2>v. ValueKnown' /\ ClaimsKnown'
    BY ValueIsKnown, ClaimsOf, PTL
  <2>5. LedgerValue' = Known(p)'
    BY <2>2, <2>v DEF ValueKnown
  <2>6. LedgerValue' = LedgerValue
    BY <2>2, <2>4, <2>5 DEF Known
  <2>7. Claims' = IF Admitted(p)' THEN {[proc |-> p, delta |-> d]} ELSE {}
    <3>1. Claims' = IF Admitted(p)' THEN {[proc |-> p, delta |-> job'[p].delta]} ELSE {}
      BY <2>3, <2>v DEF ClaimsKnown
    <3> QED BY <2>2, <3>1
  <2>8. CASE job'[p].stage = "quota" /\ pc'[p] = "probe"
    <3>1. Claims' = {}
      BY <2>7, <2>8 DEF Admitted
    <3> QED BY <2>4, <2>6, <3>1 DEF Ledger!ledgerVars
  <2>9. CASE d < 0 /\ pc'[p] = "modify"
    <3>1. Claims' = {[proc |-> p, delta |-> d]}
      BY <2>7, <2>9 DEF Admitted
    <3>2. Ledger!Admit(p, d)
      BY <2>4, <2>6, <2>9, <3>1 DEF Ledger!Admit
    <3> QED BY <3>2 DEF Ledger!Next
  <2> QED BY <2>1, <2>8, <2>9
<1>2. ASSUME UNCHANGED vars PROVE [Ledger!Next]_(Ledger!ledgerVars)
  BY <1>2 DEF vars, Ledger!ledgerVars, LedgerValue, Writing, Claims, Admitted
<1> QED BY <1>0, <1>1, <1>2, QuietSteps, QuietStepRefines

LEMMA LedgerInit == Init => Ledger!Init
<1> SUFFICES ASSUME Init PROVE LedgerValue = 0 /\ Claims = {}
  BY DEF Ledger!Init
<1>1. Writing = {}
  BY DEF Init, Writing
<1>2. \A p \in Procs : ~Admitted(p)
  BY DEF Init, Admitted
<1> QED BY <1>1, <1>2 DEF Init, LedgerValue, Claims, NotThere

\* As long as calls come one at a time and nothing crashes, usage.json with its locks, its
\* truncations and its late close is an atomic ledger: each admitted change is settled once.
THEOREM QuietImplementsLedger == Spec => ImplementsLedger
<1>1. TypeInv /\ TypeInv' /\ QuietInv /\ QuietInv' /\ [Next]_vars
        => [Quiet' => Ledger!Next \/ UNCHANGED Ledger!ledgerVars]_vars
  BY QuietNextRefines
<1> QED BY <1>1, LedgerInit, TypesHold, QuietHolds, PTL DEF Spec, ImplementsLedger
=============================================================================
