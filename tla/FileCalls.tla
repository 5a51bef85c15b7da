------------------------------ MODULE FileCalls ------------------------------
(***************************************************************************)
(* The changing tools of FileOperations (mcpfiles/fs_operations.py         *)
(* 276-444) as they run in worker threads: calls overlap on one tree, one  *)
(* system call a step (mkdir with its parents counts as one), the walk of  *)
(* _delete_tree included.                                                  *)
(* FileOperations has the same tools as single steps, with their paths,    *)
(* rules and contents; UsageFile has what the accounting does to           *)
(* usage.json when calls overlap.  What is left to show here is what       *)
(* UsageFile takes for granted: that a call hands record_usage_delta the   *)
(* bytes it has changed.                                                   *)
(*                                                                         *)
(* A file is its size.  enforce_quota lets a change pass or not, as a      *)
(* usage.json that others write decides.  A name is used for files or for  *)
(* directories, not for both, and the calls are those whose paths pass the *)
(* checks, which look at no file; none removes the root itself.            *)
(***************************************************************************)
EXTENDS SequencesExt

CONSTANTS
  Procs,         \* worker threads, of one server process or of several
  Calls,         \* the calls clients make
  InitialFiles,  \* the sizes of the files that are there at first
  MaxCalls       \* bound: calls begun

\* What a call does to a path: the entries of a patch, and one entry for any other tool.
Ops == {"write", "append", "update", "add", "delete", "mkdir", "rmdir"}

Tools == {"write_file", "apply_patch", "delete_file", "create_directory", "remove_directory"}

Entry == [op : Ops, path : Seq(STRING), size : Nat]

OpsFor ==
  [write_file |-> {"write", "append"}, apply_patch |-> {"update", "add", "delete"},
   delete_file |-> {"delete"}, create_directory |-> {"mkdir"}, remove_directory |-> {"rmdir"}]

\* The paths that are files, and those that mkdir makes directories.
FileNames ==
  DOMAIN InitialFiles
    \cup {e.path : e \in {e \in UNION {Range(c.entries) : c \in Calls} : e.op \notin {"mkdir", "rmdir"}}}

DirectoryNames ==
  (UNION {Prefixes(Front(path)) : path \in FileNames})
    \cup (UNION {Prefixes(e.path) : e \in {e \in UNION {Range(c.entries) : c \in Calls} : e.op = "mkdir"}})

ASSUME CallsAssumption ==
  /\ Calls # {}
  /\ \A c \in Calls :
       /\ c.tool \in Tools /\ c.recursive \in BOOLEAN
       /\ c.entries \in Seq(Entry) \ {<<>>} /\ (c.tool # "apply_patch" => Len(c.entries) = 1)
       /\ \A e \in Range(c.entries) :
            e.op \in OpsFor[c.tool] /\ e.path # <<>> /\ (e.op = "delete" => e.size = 0)
  /\ InitialFiles \in [DOMAIN InitialFiles -> Nat]
  /\ DOMAIN InitialFiles \subseteq Seq(STRING) \ {<<>>}
  /\ FileNames \cap DirectoryNames = {}
  /\ MaxCalls \in Nat

VARIABLES
  dirs,     \* the directories below the root, which is <<>>
  files,    \* the sizes of the files
  pc,       \* where each call is
  call,     \* the call each process executes
  at,       \* the entry of its call it is at
  old,      \* old_size
  deltas,   \* the deltas it will record, one for each entry
  tree,     \* _delete_tree: the directories it is in, with the children still to visit
  victim,   \* _delete_tree: the file it is about to unlink
  total,    \* _delete_tree: the bytes counted so far
  linked,   \* the file a process has opened still has its name
  calls,    \* number of calls begun
  changed,  \* history: bytes the call has added to the tree
  paid,     \* history: bytes the call has recorded
  met       \* history: what calls that ran meanwhile did to the paths of this one

treeVars == <<dirs, files, linked, changed>>
walkVars == <<tree, victim, total>>
callVars == <<call, at, old, deltas>>
vars == <<treeVars, walkVars, callVars, pc, calls, paid, met>>

PCs == {"idle", "exists", "size_before", "quota", "mkdir", "open", "write", "size_after",
        "unlink", "is_dir", "list", "walk", "unlink_child", "record"}

TypeOK ==
  /\ \A path \in (dirs \cup DOMAIN files) \ {<<>>} : Front(path) \in dirs
  /\ <<>> \in dirs /\ dirs \cap DOMAIN files = {}
  /\ \A path \in DOMAIN files : files[path] \in Nat
  /\ pc \in [Procs -> PCs] /\ call \in [Procs -> Calls]
  /\ \A p \in Procs :
       /\ at[p] \in DOMAIN call[p].entries
       /\ old[p] \in Nat /\ total[p] \in Nat
       /\ deltas[p] \in Seq(Int)
       /\ pc[p] = "record" => at[p] \in DOMAIN deltas[p]
       /\ pc[p] = "walk" => tree[p] # <<>>
  /\ linked \in [Procs -> BOOLEAN]
  /\ calls \in 0 .. MaxCalls
  /\ changed \in [Procs -> Int] /\ paid \in [Procs -> Int]
  /\ met \in [Procs -> SUBSET Ops]

Init ==
  /\ files = InitialFiles
  /\ dirs = {<<>>} \cup (UNION {Prefixes(Front(path)) : path \in DOMAIN InitialFiles})
  /\ pc = [p \in Procs |-> "idle"]
  /\ call \in [Procs -> {CHOOSE c \in Calls : TRUE}]
  /\ at = [p \in Procs |-> 1]
  /\ old = [p \in Procs |-> 0] /\ deltas = [p \in Procs |-> <<>>]
  /\ tree = [p \in Procs |-> <<>>] /\ victim = [p \in Procs |-> <<>>]
  /\ total = [p \in Procs |-> 0]
  /\ linked = [p \in Procs |-> FALSE]
  /\ calls = 0
  /\ changed = [p \in Procs |-> 0] /\ paid = [p \in Procs |-> 0]
  /\ met = [p \in Procs |-> {}]

-----------------------------------------------------------------------------
(* The calls.                                                              *)

Goes(p, from, to) == pc[p] = from /\ pc' = [pc EXCEPT ![p] = to]

\* An exception leaves the tool: nothing is recorded any more.
Raises(p, from) ==
  Goes(p, from, "idle") /\ UNCHANGED <<treeVars, walkVars, callVars, calls, paid, met>>

Now(p) == call[p].entries[at[p]]

Path(p) == Now(p).path

OpsOf(c) == {e.op : e \in Range(c.entries)}

\* Two entries are about the same file, or one removes a directory above the other's path.
Touch(e, f) ==
  \/ e.path = f.path /\ {e.op, f.op} # {"mkdir"}
  \/ e.op = "rmdir" /\ IsPrefix(e.path, f.path)
  \/ f.op = "rmdir" /\ IsPrefix(f.path, e.path)

Meet(c, d) == \E e \in Range(c.entries), f \in Range(d.entries) : Touch(e, f)

\* A patch that names a path twice meets itself.
Repeats(c) == \E i, j \in DOMAIN c.entries : i # j /\ c.entries[i].path = c.entries[j].path

FirstStep ==
  [write_file |-> "mkdir", apply_patch |-> "exists", delete_file |-> "exists",
   create_directory |-> "mkdir", remove_directory |-> "is_dir"]

Begin(p, c) ==
  LET others == {q \in Procs : pc[q] # "idle" /\ Meet(c, call[q])} IN
  /\ calls < MaxCalls
  /\ Goes(p, "idle", FirstStep[c.tool])
  /\ calls' = calls + 1
  /\ call' = [call EXCEPT ![p] = c]
  /\ at' = [at EXCEPT ![p] = 1]
  /\ old' = [old EXCEPT ![p] = 0] /\ deltas' = [deltas EXCEPT ![p] = <<>>]
  /\ tree' = [tree EXCEPT ![p] = <<>>] /\ victim' = [victim EXCEPT ![p] = <<>>]
  /\ total' = [total EXCEPT ![p] = 0]
  /\ changed' = [changed EXCEPT ![p] = 0] /\ paid' = [paid EXCEPT ![p] = 0]
  /\ met' = [q \in Procs |->
       IF q = p THEN (UNION {OpsOf(call[o]) : o \in others})
                        \cup (IF Repeats(c) THEN OpsOf(c) ELSE {})
       ELSE IF q \in others THEN met[q] \cup OpsOf(c) ELSE met[q]]
  /\ UNCHANGED <<dirs, files, linked>>

-----------------------------------------------------------------------------
(* write_file, delete_file, apply_patch.                                   *)

\* The delta of an entry is known; the next one is looked at, or the changes begin.
Prepared(p, from, delta) ==
  /\ deltas' = [deltas EXCEPT ![p] = Append(@, delta)]
  /\ IF at[p] < Len(call[p].entries)
     THEN at' = [at EXCEPT ![p] = @ + 1] /\ Goes(p, from, "exists")
     ELSE /\ at' = [at EXCEPT ![p] = 1]
          /\ Goes(p, from, IF call[p].tool = "delete_file" THEN "unlink" ELSE "quota")

Rewrites == {"write", "append"}

\* file_path.exists() or is_file(): lines 289, 402, and 320-335 for each entry of a patch.
Exists(p) ==
  LET there == Path(p) \in DOMAIN files IN
  IF Now(p).op \in Rewrites /\ ~there
  THEN /\ Goes(p, "exists", "quota")
       /\ old' = [old EXCEPT ![p] = 0]
       /\ UNCHANGED <<treeVars, walkVars, call, at, deltas, calls, paid, met>>
  ELSE IF (Now(p).op = "add") <=> there THEN Raises(p, "exists")
  ELSE /\ Goes(p, "exists", "size_before")
       /\ UNCHANGED <<treeVars, walkVars, callVars, calls, paid, met>>

\* file_path.stat().st_size: lines 289, 338, 345, 404.  A patch looks once more whether the
\* file is there (343), one to add included: what has come by now counts, and an update of
\* a file that is gone goes on with an empty one, to which hunks that only add lines apply.
SizeBefore(p) ==
  IF Path(p) \notin DOMAIN files
  THEN \/ Raises(p, "size_before")
       \/ /\ Now(p).op \in {"update", "add"}
          /\ Prepared(p, "size_before", Now(p).size)
          /\ UNCHANGED <<treeVars, walkVars, call, old, calls, paid, met>>
  ELSE /\ old' = [old EXCEPT ![p] = files[Path(p)]]
       /\ IF Now(p).op \in Rewrites
          THEN Goes(p, "size_before", "quota") /\ UNCHANGED <<at, deltas>>
          ELSE Prepared(p, "size_before", Now(p).size - files[Path(p)])
       /\ UNCHANGED <<treeVars, walkVars, call, calls, paid, met>>

\* enforce_quota: lines 294 and 370.
Quota(p) ==
  \/ Raises(p, "quota")
  \/ /\ Goes(p, "quota", CASE Now(p).op \in Rewrites -> "open"
                           [] Now(p).op = "delete"   -> "unlink"
                           [] OTHER                  -> "mkdir")
     /\ UNCHANGED <<treeVars, walkVars, callVars, calls, paid, met>>

\* mkdir(parents=True, exist_ok=True): lines 287, 377 and 413.
MakeDirectories(p) ==
  LET path == IF Now(p).op = "mkdir" THEN Path(p) ELSE Front(Path(p)) IN
  /\ dirs' = dirs \cup Prefixes(path)
  /\ Goes(p, "mkdir", CASE Now(p).op = "mkdir"     -> "idle"
                        [] Now(p).op \in Rewrites  -> "exists"
                        [] OTHER                   -> "open")
  /\ UNCHANGED <<files, linked, changed, walkVars, callVars, calls, paid, met>>

SizeOf(path) == IF path \in DOMAIN files THEN files[path] ELSE 0

\* The file gets this size, at the expense of the call.
Resize(p, path, size) ==
  /\ files' = [f \in DOMAIN files \cup {path} |-> IF f = path THEN size ELSE files[f]]
  /\ changed' = [changed EXCEPT ![p] = @ + size - SizeOf(path)]

\* open(file_path, "wb") truncates, "ab" does not: lines 297 and 380.
Open(p) ==
  IF Front(Path(p)) \notin dirs THEN Raises(p, "open")
  ELSE /\ Goes(p, "open", "write")
       /\ Resize(p, Path(p), IF Now(p).op = "append" THEN SizeOf(Path(p)) ELSE 0)
       /\ linked' = [linked EXCEPT ![p] = TRUE]
       /\ UNCHANGED <<dirs, walkVars, callVars, calls, paid, met>>

\* The handle is closed and its buffer written, at the end of the file in mode "ab" and at
\* its start in mode "wb", where another writer may have left more: lines 298 and 381.
Write(p) ==
  LET size == files[Path(p)] IN
  /\ Goes(p, "write", IF Now(p).op \in Rewrites THEN "size_after" ELSE "record")
  /\ IF linked[p]
     THEN Resize(p, Path(p), IF Now(p).op = "append" THEN size + Now(p).size
                             ELSE IF Now(p).size > size THEN Now(p).size ELSE size)
     ELSE UNCHANGED <<files, changed>>
  /\ UNCHANGED <<dirs, linked, walkVars, callVars, calls, paid, met>>

\* Mutant: the size of the data is recorded, and not the size of the file.
SizeAfterData(p) ==
  /\ Goes(p, "size_after", "record")
  /\ deltas' = [deltas EXCEPT ![p] = <<Now(p).size - old[p]>>]
  /\ UNCHANGED <<treeVars, walkVars, call, at, old, calls, paid, met>>

\* new_size: lines 300-301.
SizeAfter(p) ==
  IF Path(p) \notin DOMAIN files THEN Raises(p, "size_after")
  ELSE /\ Goes(p, "size_after", "record")
       /\ deltas' = [deltas EXCEPT ![p] = <<files[Path(p)] - old[p]>>]
       /\ UNCHANGED <<treeVars, walkVars, call, at, old, calls, paid, met>>

\* The path is unlinked; a handle that is open on it keeps a file without a name.
Erase(p, path) ==
  /\ files' = Restrict(files, DOMAIN files \ {path})
  /\ changed' = [changed EXCEPT ![p] = @ - files[path]]
  /\ linked' = [q \in Procs |-> linked[q] /\ ~(pc[q] = "write" /\ Path(q) = path)]
  /\ UNCHANGED dirs

\* file_path.unlink(): lines 373 and 405.
Unlink(p) ==
  IF Path(p) \notin DOMAIN files THEN Raises(p, "unlink")
  ELSE /\ Goes(p, "unlink", "record")
       /\ Erase(p, Path(p))
       /\ UNCHANGED <<walkVars, callVars, calls, paid, met>>

\* record_usage_delta: lines 301, 393, 406 and 427.
Record(p) ==
  /\ paid' = [paid EXCEPT ![p] = @ + deltas[p][at[p]]]
  /\ IF at[p] < Len(call[p].entries)
     THEN at' = [at EXCEPT ![p] = @ + 1] /\ Goes(p, "record", "quota")
     ELSE Goes(p, "record", "idle") /\ UNCHANGED at
  /\ UNCHANGED <<treeVars, walkVars, call, old, deltas, calls, met>>

-----------------------------------------------------------------------------
(* remove_directory.                                                       *)

Children(dir) == {path \in (dirs \cup DOMAIN files) \ {<<>>} : Front(path) = dir}

Frame(dir) == [dir |-> dir, rest |-> Children(dir)]

\* Lines 419-426.
IsDirectory(p) ==
  IF Path(p) \in dirs /\ (call[p].recursive \/ Children(Path(p)) = {})
  THEN Goes(p, "is_dir", "list") /\ UNCHANGED <<treeVars, walkVars, callVars, calls, paid, met>>
  ELSE Raises(p, "is_dir")

\* Lines 432-433, for the directory itself: what has come into it since is removed with it.
EnterDirectory(p) ==
  IF Path(p) \in dirs
  THEN /\ Goes(p, "list", "walk")
       /\ tree' = [tree EXCEPT ![p] = <<Frame(Path(p))>>]
       /\ UNCHANGED <<treeVars, victim, total, callVars, calls, paid, met>>
  ELSE Raises(p, "list")

Top(p) == Last(tree[p])

\* Lines 433-437: the next child of the directory as iterdir() has listed it.  One that is
\* gone makes stat() raise.
Visit(p) ==
  \E child \in Top(p).rest :
    LET visited == [tree[p] EXCEPT ![Len(tree[p])].rest = @ \ {child}] IN
    CASE child \in dirs ->
           /\ Goes(p, "walk", "walk")
           /\ tree' = [tree EXCEPT ![p] = Append(visited, Frame(child))]
           /\ UNCHANGED <<treeVars, victim, total, callVars, calls, paid, met>>
      [] child \in DOMAIN files ->
           /\ Goes(p, "walk", "unlink_child")
           /\ tree' = [tree EXCEPT ![p] = visited]
           /\ victim' = [victim EXCEPT ![p] = child]
           /\ total' = [total EXCEPT ![p] = @ + files[child]]
           /\ UNCHANGED <<treeVars, callVars, calls, paid, met>>
      [] OTHER -> Raises(p, "walk")

\* Mutant: unlink(missing_ok=True).
UnlinkAnyChild(p) ==
  /\ Goes(p, "unlink_child", "walk")
  /\ IF victim[p] \in DOMAIN files THEN Erase(p, victim[p]) ELSE UNCHANGED treeVars
  /\ UNCHANGED <<walkVars, callVars, calls, paid, met>>

\* Line 438.
UnlinkChild(p) ==
  IF victim[p] \notin DOMAIN files THEN Raises(p, "unlink_child")
  ELSE /\ Goes(p, "unlink_child", "walk")
       /\ Erase(p, victim[p])
       /\ UNCHANGED <<walkVars, callVars, calls, paid, met>>

\* Mutant: a directory goes with what others have put into it.
RemoveFilledDirectory(p) ==
  LET dir == Top(p).dir IN
  /\ Top(p).rest = {}
  /\ dirs' = dirs \ {dir}
  /\ tree' = [tree EXCEPT ![p] = Front(@)]
  /\ deltas' = [deltas EXCEPT ![p] = << -total[p] >>]
  /\ Goes(p, "walk", IF Len(tree[p]) = 1 THEN "record" ELSE "walk")
  /\ UNCHANGED <<files, linked, changed, victim, total, call, at, old, calls, paid, met>>

\* Lines 439 and 444: rmdir() raises for a directory that is gone or has been filled.
RemoveDirectory(p) ==
  LET dir == Top(p).dir IN
  /\ Top(p).rest = {}
  /\ IF dir \notin dirs \/ Children(dir) # {} THEN Raises(p, "walk")
     ELSE /\ dirs' = dirs \ {dir}
          /\ tree' = [tree EXCEPT ![p] = Front(@)]
          /\ deltas' = [deltas EXCEPT ![p] = << -total[p] >>]
          /\ Goes(p, "walk", IF Len(tree[p]) = 1 THEN "record" ELSE "walk")
          /\ UNCHANGED <<files, linked, changed, victim, total, call, at, old, calls, paid, met>>

Step(p) ==
  \/ pc[p] = "exists"       /\ Exists(p)
  \/ pc[p] = "size_before"  /\ SizeBefore(p)
  \/ pc[p] = "quota"        /\ Quota(p)
  \/ pc[p] = "mkdir"        /\ MakeDirectories(p)
  \/ pc[p] = "open"         /\ Open(p)
  \/ pc[p] = "write"        /\ Write(p)
  \/ pc[p] = "size_after"   /\ SizeAfter(p)
  \/ pc[p] = "unlink"       /\ Unlink(p)
  \/ pc[p] = "record"       /\ Record(p)
  \/ pc[p] = "is_dir"       /\ IsDirectory(p)
  \/ pc[p] = "list"         /\ EnterDirectory(p)
  \/ pc[p] = "walk"         /\ (Visit(p) \/ RemoveDirectory(p))
  \/ pc[p] = "unlink_child" /\ UnlinkChild(p)

Next == \E p \in Procs : Step(p) \/ \E c \in Calls : Begin(p, c)

Spec == Init /\ [][Next]_vars

-----------------------------------------------------------------------------
(* What the deltas are worth when calls overlap.                           *)

\* A call that has returned or raised has recorded just the bytes it changed, whatever
\* others did to other paths at the same time: refused writes, patches that fail half way
\* and recursive removals included (fs_operations.py 276-444).
LonersAreExact ==
  \A p \in Procs : pc[p] = "idle" /\ met[p] = {} => paid[p] = changed[p]

Deletes == {"delete", "rmdir", "mkdir"}

\* Calls that delete and meet only each other never take more from the usage than they
\* removed: the bytes of a file two of them are after are given back at most once, although
\* a removal that finds one of its files gone gives nothing back (405, 430-444).
DeletersNeverOvercredit ==
  \A p \in Procs : pc[p] = "idle" /\ OpsOf(call[p]) \cup met[p] \subseteq Deletes =>
    paid[p] >= changed[p]
=============================================================================
