--------------------------- MODULE FileCallsProofs ---------------------------
(***************************************************************************)
(* What holds of FileCalls for any number of threads, any calls and any    *)
(* files: the calls that overlap may be of any tools on any paths.         *)
(***************************************************************************)
EXTENDS FileCalls, SequenceTheorems, TLAPS

Names == Seq(STRING)

-----------------------------------------------------------------------------
(* Paths.                                                                  *)

LEMMA PathLen ==
  ASSUME NEW p \in Names
  PROVE  Len(p) \in Nat /\ DOMAIN p = 1 .. Len(p) /\ \A i \in 1 .. Len(p) : p[i] \in STRING
BY LenProperties, ElementOfSeq DEF Names

LEMMA SamePath ==
  ASSUME NEW p \in Names, NEW q \in Names, Len(p) = Len(q), \A i \in 1 .. Len(p) : p[i] = q[i]
  PROVE  p = q
BY SeqEqual DEF Names

\* The first n components of a path.
LEMMA Cut ==
  ASSUME NEW p \in Names, NEW n \in 0 .. Len(p)
  PROVE  /\ SubSeq(p, 1, n) \in Names /\ Len(SubSeq(p, 1, n)) = n
         /\ \A i \in 1 .. n : SubSeq(p, 1, n)[i] = p[i]
<1>1. 1 \in Int /\ n \in Int /\ \A i \in 1 .. n : p[i] \in STRING
  BY PathLen
<1>2. /\ SubSeq(p, 1, n) \in Names
      /\ Len(SubSeq(p, 1, n)) = IF 1 <= n THEN n - 1 + 1 ELSE 0
      /\ \A i \in 1 .. n - 1 + 1 : SubSeq(p, 1, n)[i] = p[1 + i - 1]
  BY <1>1, SubSeqProperties DEF Names
<1>3. n \in Nat /\ (IF 1 <= n THEN n - 1 + 1 ELSE 0) = n /\ n - 1 + 1 = n
  BY PathLen
<1>4. \A i \in 1 .. n : 1 + i - 1 = i
  OBVIOUS
<1> QED BY <1>2, <1>3, <1>4

LEMMA PrefixDef ==
  ASSUME NEW p \in Names, NEW q \in Names
  PROVE  IsPrefix(p, q) <=> Len(p) <= Len(q) /\ \A i \in 1 .. Len(p) : p[i] = q[i]
<1>1. Len(p) \in Nat /\ Len(q) \in Nat
  BY PathLen
<1>2. ASSUME Len(p) <= Len(q)
      PROVE  SubSeq(p, 1, Len(p)) = SubSeq(q, 1, Len(p)) <=> \A i \in 1 .. Len(p) : p[i] = q[i]
  <2>1. Len(p) \in 0 .. Len(p) /\ Len(p) \in 0 .. Len(q)
    BY <1>1, <1>2
  <2>2. /\ SubSeq(p, 1, Len(p)) \in Names /\ SubSeq(q, 1, Len(p)) \in Names
        /\ Len(SubSeq(p, 1, Len(p))) = Len(p) /\ Len(SubSeq(q, 1, Len(p))) = Len(p)
        /\ \A i \in 1 .. Len(p) : SubSeq(p, 1, Len(p))[i] = p[i]
        /\ \A i \in 1 .. Len(p) : SubSeq(q, 1, Len(p))[i] = q[i]
    BY <2>1, Cut
  <2> QED BY <2>2, SamePath
<1> QED BY <1>2 DEF IsPrefix

LEMMA PrefixOrder ==
  ASSUME NEW p \in Names, NEW q \in Names
  PROVE  /\ IsPrefix(p, p)
         /\ \A r \in Names : IsPrefix(p, q) /\ IsPrefix(q, r) => IsPrefix(p, r)
         /\ IsPrefix(p, q) /\ IsPrefix(q, p) => p = q
         /\ \A r \in Names : IsPrefix(p, r) /\ IsPrefix(q, r) => IsPrefix(p, q) \/ IsPrefix(q, p)
<1>1. Len(p) \in Nat /\ Len(q) \in Nat
  BY PathLen
<1>2. IsPrefix(p, p)
  BY <1>1, PrefixDef
<1>3. ASSUME NEW r \in Names, IsPrefix(p, q), IsPrefix(q, r) PROVE IsPrefix(p, r)
  BY <1>1, <1>3, PrefixDef, PathLen
<1>4. IsPrefix(p, q) /\ IsPrefix(q, p) => p = q
  BY <1>1, PrefixDef, SamePath
<1>5. ASSUME NEW r \in Names, IsPrefix(p, r), IsPrefix(q, r) PROVE IsPrefix(p, q) \/ IsPrefix(q, p)
  BY <1>1, <1>5, PrefixDef, PathLen
<1> QED BY <1>2, <1>3, <1>4, <1>5

LEMMA PrefixesDef == ASSUME NEW p \in Names PROVE Prefixes(p) = {q \in Names : IsPrefix(q, p)}
<1>1. Len(p) \in Nat
  BY PathLen
<1>2. ASSUME NEW n \in 0 .. Len(p) PROVE SubSeq(p, 1, n) \in Names /\ IsPrefix(SubSeq(p, 1, n), p)
  <2> DEFINE q == SubSeq(p, 1, n)
  <2>1. q \in Names /\ Len(q) = n /\ \A i \in 1 .. n : q[i] = p[i]
    BY Cut
  <2>2. n \in Nat /\ n <= Len(p)
    BY <1>1
  <2> HIDE DEF q
  <2>3. IsPrefix(q, p)
    BY <2>1, <2>2, PrefixDef
  <2> QED BY <2>1, <2>3 DEF q
<1>3. ASSUME NEW q \in Names, IsPrefix(q, p) PROVE \E n \in 0 .. Len(p) : q = SubSeq(p, 1, n)
  <2>1. Len(q) \in 0 .. Len(p) /\ \A i \in 1 .. Len(q) : q[i] = p[i]
    BY <1>1, <1>3, PrefixDef, PathLen
  <2>2. SubSeq(p, 1, Len(q)) \in Names /\ Len(SubSeq(p, 1, Len(q))) = Len(q)
        /\ \A i \in 1 .. Len(q) : SubSeq(p, 1, Len(q))[i] = p[i]
    BY <2>1, Cut
  <2>3. q = SubSeq(p, 1, Len(q))
    BY <2>1, <2>2, SamePath
  <2> QED BY <2>1, <2>3
<1> QED BY <1>2, <1>3 DEF Prefixes

\* The directory of a path.
LEMMA FrontDef ==
  ASSUME NEW p \in Names, p # <<>>
  PROVE  /\ Len(p) \in Nat \ {0}
         /\ Front(p) \in Names /\ Len(Front(p)) = Len(p) - 1 /\ Front(p) # p
         /\ \A i \in 1 .. Len(p) - 1 : Front(p)[i] = p[i]
         /\ IsPrefix(Front(p), p)
         /\ \A q \in Names : IsPrefix(q, p) => q = p \/ IsPrefix(q, Front(p))
<1>1. Len(p) \in Nat \ {0}
  BY EmptySeq DEF Names
<1>2. Len(p) - 1 \in 0 .. Len(p)
  BY <1>1
<1>3. /\ Front(p) \in Names /\ Len(Front(p)) = Len(p) - 1
      /\ \A i \in 1 .. Len(p) - 1 : Front(p)[i] = p[i]
  BY <1>2, Cut DEF Front
<1>4. IsPrefix(Front(p), p) /\ Front(p) # p
  BY <1>1, <1>3, PrefixDef
<1>5. ASSUME NEW q \in Names, IsPrefix(q, p), q # p PROVE IsPrefix(q, Front(p))
  <2>1. Len(q) \in Nat /\ Len(q) <= Len(p) /\ \A i \in 1 .. Len(q) : q[i] = p[i]
    BY <1>5, PrefixDef, PathLen
  <2>2. Len(q) # Len(p)
    BY <1>1, <1>5, <2>1, SamePath
  <2> QED BY <1>1, <1>3, <2>1, <2>2, PrefixDef
<1> QED BY <1>1, <1>3, <1>4, <1>5

-----------------------------------------------------------------------------
(* The invariants.                                                         *)

Patching == {"update", "add", "delete"}

\* The tree is one, and names are used for files or for directories.
DiskInv ==
  /\ <<>> \in dirs /\ dirs \subseteq DirectoryNames \cup {<<>>}
  /\ DOMAIN files \subseteq FileNames /\ files \in [DOMAIN files -> Nat]
  /\ \A path \in (dirs \cup DOMAIN files) \ {<<>>} : Front(path) \in dirs

Visits == [dir : Names, rest : SUBSET Names]

LocalsInv ==
  /\ pc \in [Procs -> PCs] /\ call \in [Procs -> Calls]
  /\ at \in [Procs -> Nat] /\ old \in [Procs -> Nat] /\ deltas \in [Procs -> Seq(Int)]
  /\ tree \in [Procs -> Seq(Visits)] /\ victim \in [Procs -> Names] /\ total \in [Procs -> Nat]
  /\ linked \in [Procs -> BOOLEAN]
  /\ changed \in [Procs -> Int] /\ paid \in [Procs -> Int]

HistoryInv == calls \in 0 .. MaxCalls /\ met \in [Procs -> SUBSET Ops]

\* Where a call can be at an entry with this operation.
PlacesFor ==
  [write  |-> {"idle", "mkdir", "exists", "size_before", "quota", "open", "write", "size_after", "record"},
   append |-> {"idle", "mkdir", "exists", "size_before", "quota", "open", "write", "size_after", "record"},
   update |-> {"idle", "exists", "size_before", "quota", "mkdir", "open", "write", "record"},
   add    |-> {"idle", "exists", "size_before", "quota", "mkdir", "open", "write", "record"},
   delete |-> {"idle", "exists", "size_before", "quota", "unlink", "record"},
   mkdir  |-> {"idle", "mkdir"},
   rmdir  |-> {"idle", "is_dir", "list", "walk", "unlink_child", "record"}]

\* A call has a delta for every entry it has looked at, and changes files when it has all.
Place(p) ==
  /\ at[p] \in DOMAIN call[p].entries
  /\ pc[p] \in PlacesFor[Now(p).op]
  /\ Now(p).op \in Patching =>
       /\ pc[p] \in {"exists", "size_before"} => Len(deltas[p]) = at[p] - 1
       /\ pc[p] \in {"quota", "mkdir", "open", "write", "unlink"} => Len(deltas[p]) = Len(call[p].entries)
  /\ pc[p] = "record" => Len(deltas[p]) = Len(call[p].entries)

\* The directories _delete_tree is in, one in the other, and what it has to visit there.
Walks(p) ==
  pc[p] \in {"walk", "unlink_child"} =>
    /\ tree[p] # <<>>
    /\ \A k \in DOMAIN tree[p] :
         /\ IsPrefix(Path(p), tree[p][k].dir) /\ Len(tree[p][k].dir) = Len(Path(p)) + k - 1
         /\ \A x \in tree[p][k].rest : x # <<>> /\ Front(x) = tree[p][k].dir
    /\ pc[p] = "unlink_child" => victim[p] # <<>> /\ Front(victim[p]) = Top(p).dir

\* A handle that has a name in the tree has that of its call.
Linked(p) == pc[p] = "write" /\ linked[p] => Path(p) \in DOMAIN files

TypeInv ==
  /\ DiskInv /\ LocalsInv /\ HistoryInv
  /\ \A p \in Procs : Place(p) /\ Walks(p) /\ Linked(p)

\* Calls that are about one path know of each other.
MeetInv ==
  \A p \in Procs : pc[p] # "idle" =>
    /\ \A q \in Procs \ {p} : pc[q] # "idle" /\ Meet(call[p], call[q]) => OpsOf(call[q]) \subseteq met[p]
    /\ Repeats(call[p]) => OpsOf(call[p]) \subseteq met[p]

Rest(p, i) == i .. Len(call[p].entries)

PathOf(p, i) == call[p].entries[i].path

\* The delta of entry i is right for the file as it is.
Right(p, i) == deltas[p][i] = call[p].entries[i].size - SizeOf(PathOf(p, i))

\* What is in the directories of the stack is still to visit or being visited.
TreeKnown(p) ==
  LET n == Len(tree[p]) IN
  \A k \in 1 .. n :
    LET dir  == tree[p][k].dir
        next == IF k < n THEN {tree[p][k + 1].dir}
                ELSE IF pc[p] = "unlink_child" THEN {victim[p]} ELSE {}
    IN dir \in dirs /\ Children(dir) = tree[p][k].rest \cup next /\ tree[p][k].rest \cap next = {}

\* What a call that nobody meets has changed and recorded so far.
Account(p) ==
  /\ pc[p] \in {"exists", "size_before", "size_after", "is_dir", "list", "walk", "unlink_child"}
       \/ (pc[p] # "idle" /\ Now(p).op \in Rewrites) => paid[p] = 0
  /\ pc[p] \in {"idle", "exists", "size_before", "quota", "mkdir", "open", "unlink", "is_dir", "list"} =>
       paid[p] = changed[p]
  /\ pc[p] \in {"quota", "open"} /\ Now(p).op \in Rewrites => old[p] = SizeOf(Path(p))
  /\ pc[p] \in {"exists", "size_before"} => \A i \in 1 .. at[p] - 1 : Right(p, i)
  /\ pc[p] \in {"quota", "mkdir", "open", "unlink"} /\ Now(p).op \in Patching =>
       \A i \in Rest(p, at[p]) : Right(p, i)
  /\ pc[p] \in {"write", "record"} /\ Now(p).op \in Patching => \A i \in Rest(p, at[p] + 1) : Right(p, i)
  /\ pc[p] = "write" =>
       /\ linked[p] /\ (Now(p).op # "append" => files[Path(p)] = 0)
       /\ Now(p).op \in Rewrites => changed[p] = files[Path(p)] - old[p]
       /\ Now(p).op \in Patching => changed[p] + Now(p).size = paid[p] + deltas[p][at[p]]
  /\ pc[p] = "size_after" => Path(p) \in DOMAIN files /\ changed[p] = files[Path(p)] - old[p]
  /\ pc[p] = "record" => changed[p] = paid[p] + deltas[p][at[p]]
  /\ pc[p] \in {"is_dir", "list", "walk"} => changed[p] = - total[p]
  /\ pc[p] = "unlink_child" => victim[p] \in DOMAIN files /\ changed[p] - files[victim[p]] = - total[p]
  /\ pc[p] \in {"walk", "unlink_child"} => TreeKnown(p)

LonersInv == \A p \in Procs : met[p] = {} => Account(p)

\* The delta of a deletion is right as long as the file is there.
RightIfThere(p, i) ==
  PathOf(p, i) \in DOMAIN files => deltas[p][i] = - files[PathOf(p, i)]

Credit(p) ==
  /\ pc[p] = "idle" => paid[p] >= changed[p]
  /\ pc[p] \in {"exists", "size_before", "is_dir", "list"} => paid[p] = 0
  /\ pc[p] \in {"exists", "size_before", "quota", "mkdir", "unlink", "is_dir", "list"} => paid[p] = changed[p]
  /\ pc[p] \in {"exists", "size_before"} => \A i \in 1 .. at[p] - 1 : RightIfThere(p, i)
  /\ pc[p] \in {"quota", "unlink"} => \A i \in Rest(p, at[p]) : RightIfThere(p, i)
  /\ pc[p] = "record" =>
       /\ changed[p] = paid[p] + deltas[p][at[p]]
       /\ \A i \in Rest(p, at[p] + 1) : RightIfThere(p, i)
  /\ pc[p] \in {"is_dir", "list", "walk"} => changed[p] = - total[p]
  /\ pc[p] \in {"walk", "unlink_child"} => paid[p] = 0 /\ changed[p] <= 0
  /\ pc[p] = "unlink_child" /\ victim[p] \in DOMAIN files => changed[p] - files[victim[p]] = - total[p]

DeletersInv == \A p \in Procs : OpsOf(call[p]) \cup met[p] \subseteq Deletes => Credit(p)

-----------------------------------------------------------------------------
(* What the assumption says of calls and names.                            *)

LEMMA CallParts ==
  ASSUME NEW c \in Calls
  PROVE  /\ c.tool \in Tools /\ c.recursive \in BOOLEAN
         /\ Len(c.entries) \in Nat \ {0} /\ DOMAIN c.entries = 1 .. Len(c.entries)
         /\ c.tool # "apply_patch" => Len(c.entries) = 1
         /\ OpsOf(c) \subseteq Ops /\ OpsOf(c) # {}
         /\ \A i \in 1 .. Len(c.entries) :
              LET e == c.entries[i]
              IN /\ e \in Entry /\ e.op \in OpsFor[c.tool] /\ e.op \in OpsOf(c) /\ e \in Range(c.entries)
                 /\ e.path \in Names /\ e.path # <<>> /\ (e.op = "delete" => e.size = 0)
                 /\ e.op \notin {"mkdir", "rmdir"} => e.path \in FileNames
                 /\ e.op = "mkdir" => Prefixes(e.path) \subseteq DirectoryNames
<1>1. /\ c.tool \in Tools /\ c.recursive \in BOOLEAN
      /\ c.entries \in Seq(Entry) \ {<<>>} /\ (c.tool # "apply_patch" => Len(c.entries) = 1)
      /\ \A e \in Range(c.entries) :
           e.op \in OpsFor[c.tool] /\ e.path # <<>> /\ (e.op = "delete" => e.size = 0)
  BY CallsAssumption
<1>2. /\ Len(c.entries) \in Nat \ {0} /\ DOMAIN c.entries = 1 .. Len(c.entries)
      /\ \A i \in 1 .. Len(c.entries) : c.entries[i] \in Entry
  BY <1>1, LenProperties, ElementOfSeq, EmptySeq
<1>3. ASSUME NEW i \in 1 .. Len(c.entries)
      PROVE  c.entries[i] \in Range(c.entries) /\ c.entries[i].op \in OpsOf(c)
  BY <1>2 DEF Range, OpsOf
<1>4. \A e \in Entry : e.op \in Ops /\ e.path \in Names
  BY DEF Entry, Names
<1>5. OpsOf(c) \subseteq Ops
  BY <1>2, <1>4 DEF OpsOf, Range
<1>6. OpsOf(c) # {}
  <2>1. 1 \in 1 .. Len(c.entries)
    BY <1>2
  <2> QED BY <1>3, <2>1
<1>7. ASSUME NEW i \in 1 .. Len(c.entries)
      PROVE  LET e == c.entries[i]
             IN /\ e.op \notin {"mkdir", "rmdir"} => e.path \in FileNames
                /\ e.op = "mkdir" => Prefixes(e.path) \subseteq DirectoryNames
  <2> DEFINE e == c.entries[i]
             all == UNION {Range(d.entries) : d \in Calls}
  <2>1. e \in all
    BY <1>3
  <2> HIDE DEF e
  <2>2. e.op \notin {"mkdir", "rmdir"} => e.path \in FileNames
    BY <2>1 DEF FileNames
  <2>3. e.op = "mkdir" => Prefixes(e.path) \subseteq DirectoryNames
    BY <2>1 DEF DirectoryNames
  <2> QED BY <2>2, <2>3 DEF e
<1> QED BY <1>1, <1>2, <1>3, <1>4, <1>5, <1>6, <1>7

LEMMA FileParts ==
  ASSUME NEW f \in FileNames
  PROVE  f \in Names /\ f # <<>> /\ f \notin DirectoryNames /\ Prefixes(Front(f)) \subseteq DirectoryNames
<1>1. f \in Names /\ f # <<>>
  <2>1. CASE f \in DOMAIN InitialFiles
    BY <2>1, CallsAssumption DEF Names
  <2>2. CASE f \notin DOMAIN InitialFiles
    <3>1. PICK c \in Calls : \E e \in Range(c.entries) : f = e.path
      BY <2>2 DEF FileNames
    <3>2. PICK i \in DOMAIN c.entries : f = c.entries[i].path
      BY <3>1 DEF Range
    <3> QED BY <3>2, CallParts
  <2> QED BY <2>1, <2>2
<1>2. Prefixes(Front(f)) \subseteq DirectoryNames
  BY DEF DirectoryNames
<1> QED BY <1>1, <1>2, CallsAssumption

LEMMA DirectoryParts ==
  ASSUME NEW d \in DirectoryNames \cup {<<>>}
  PROVE  d \in Names /\ d \notin FileNames /\ (d # <<>> => Front(d) \in DirectoryNames)
<1>1. ASSUME NEW x \in Names, d \in Prefixes(x), Prefixes(x) \subseteq DirectoryNames
      PROVE  d \in Names /\ d \notin FileNames /\ (d # <<>> => Front(d) \in DirectoryNames)
  <2>1. d \in Names /\ IsPrefix(d, x)
    BY <1>1, PrefixesDef
  <2>2. d # <<>> => Front(d) \in Prefixes(x)
    BY <1>1, <2>1, FrontDef, PrefixOrder, PrefixesDef
  <2> QED BY <1>1, <2>1, <2>2, CallsAssumption
<1>2. CASE d = <<>>
  <2>1. <<>> \in Names
    BY EmptySeq DEF Names
  <2> QED BY <1>2, <2>1, FileParts
<1>3. ASSUME NEW f \in FileNames, d \in Prefixes(Front(f))
      PROVE  d \in Names /\ d \notin FileNames /\ (d # <<>> => Front(d) \in DirectoryNames)
  <2>1. Front(f) \in Names
    BY FileParts, FrontDef
  <2> QED BY <1>1, <1>3, <2>1, FileParts
<1>4. ASSUME NEW c \in Calls, NEW e \in Range(c.entries), e.op = "mkdir", d \in Prefixes(e.path)
      PROVE  d \in Names /\ d \notin FileNames /\ (d # <<>> => Front(d) \in DirectoryNames)
  <2>1. PICK i \in DOMAIN c.entries : e = c.entries[i]
    BY DEF Range
  <2>2. e.path \in Names /\ Prefixes(e.path) \subseteq DirectoryNames
    BY <1>4, <2>1, CallParts
  <2> QED BY <1>1, <1>4, <2>2
<1>5. CASE d \in DirectoryNames
  BY <1>3, <1>4, <1>5 DEF DirectoryNames
<1> QED BY <1>2, <1>5

-----------------------------------------------------------------------------
(* A step moves one call.                                                  *)

Others(p) ==
  \A q \in Procs \ {p} :
    /\ pc'[q] = pc[q] /\ call'[q] = call[q] /\ at'[q] = at[q] /\ old'[q] = old[q]
    /\ deltas'[q] = deltas[q] /\ tree'[q] = tree[q] /\ victim'[q] = victim[q] /\ total'[q] = total[q]
    /\ changed'[q] = changed[q] /\ paid'[q] = paid[q]

LEMMA FrameType ==
  ASSUME DiskInv, NEW dir \in Names
  PROVE  Children(dir) \subseteq Names /\ Frame(dir) \in Visits
<1>1. \A x \in dirs \cup DOMAIN files : x \in Names
  BY DirectoryParts, FileParts DEF DiskInv
<1>2. Children(dir) \subseteq Names
  BY <1>1 DEF Children
<1> QED BY <1>2 DEF Frame, Visits

LEMMA NowParts ==
  ASSUME TypeInv, NEW p \in Procs
  PROVE  /\ call[p] \in Calls /\ at[p] \in 1 .. Len(call[p].entries)
         /\ Len(call[p].entries) \in Nat \ {0} /\ DOMAIN call[p].entries = 1 .. Len(call[p].entries)
         /\ call[p].tool \in Tools /\ (call[p].tool # "apply_patch" => Len(call[p].entries) = 1)
         /\ Now(p).op \in OpsFor[call[p].tool] /\ Now(p).op \in Ops /\ Now(p).size \in Nat
         /\ Now(p).op = "delete" => Now(p).size = 0
         /\ Path(p) \in Names /\ Path(p) # <<>> /\ Now(p).path = Path(p)
         /\ Now(p).op \notin {"mkdir", "rmdir"} => Path(p) \in FileNames
         /\ Now(p).op = "mkdir" => Prefixes(Path(p)) \subseteq DirectoryNames
<1>1. call[p] \in Calls /\ at[p] \in DOMAIN call[p].entries
  BY DEF TypeInv, LocalsInv, Place
<1>2. /\ call[p].tool \in Tools
      /\ Len(call[p].entries) \in Nat \ {0} /\ DOMAIN call[p].entries = 1 .. Len(call[p].entries)
      /\ call[p].tool # "apply_patch" => Len(call[p].entries) = 1
  BY <1>1, CallParts
<1> DEFINE e == call[p].entries[at[p]]
<1>3. /\ e \in Entry /\ e.op \in OpsFor[call[p].tool]
      /\ e.path \in Names /\ e.path # <<>> /\ (e.op = "delete" => e.size = 0)
      /\ e.op \notin {"mkdir", "rmdir"} => e.path \in FileNames
      /\ e.op = "mkdir" => Prefixes(e.path) \subseteq DirectoryNames
  BY <1>1, <1>2, CallParts
<1>4. e.op \in Ops /\ e.size \in Nat
  BY <1>3 DEF Entry
<1>5. Now(p) = e /\ Path(p) = e.path
  BY DEF Now, Path
<1> HIDE DEF e
<1> QED BY <1>1, <1>2, <1>3, <1>4, <1>5

LEMMA TopParts ==
  ASSUME TypeInv, NEW p \in Procs, pc[p] \in {"walk", "unlink_child"}
  PROVE  /\ Len(tree[p]) \in Nat \ {0} /\ DOMAIN tree[p] = 1 .. Len(tree[p])
         /\ tree[p] \in Seq(Visits) /\ tree[p] # <<>> /\ Top(p) = tree[p][Len(tree[p])]
         /\ Top(p).dir \in Names /\ IsPrefix(Path(p), Top(p).dir) /\ Top(p).dir # <<>>
         /\ \A k \in 1 .. Len(tree[p]) :
              /\ tree[p][k] \in Visits /\ tree[p][k].dir \in Names /\ tree[p][k].rest \in SUBSET Names
              /\ IsPrefix(Path(p), tree[p][k].dir) /\ Len(tree[p][k].dir) = Len(Path(p)) + k - 1
              /\ \A x \in tree[p][k].rest : x # <<>> /\ Front(x) = tree[p][k].dir
         /\ Now(p).op = "rmdir" /\ at[p] = 1 /\ Len(call[p].entries) = 1
<1>1. tree[p] \in Seq(Visits) /\ tree[p] # <<>>
  BY DEF TypeInv, LocalsInv, Walks
<1>2. /\ Len(tree[p]) \in Nat \ {0} /\ DOMAIN tree[p] = 1 .. Len(tree[p])
      /\ \A k \in 1 .. Len(tree[p]) : tree[p][k] \in Visits
  BY <1>1, LenProperties, ElementOfSeq, EmptySeq
<1>3. \A v \in Visits : v.dir \in Names /\ v.rest \in SUBSET Names
  BY DEF Visits
<1>4. Top(p) = tree[p][Len(tree[p])] /\ Len(tree[p]) \in 1 .. Len(tree[p])
  BY <1>2 DEF Top, Last
<1>5. \A k \in 1 .. Len(tree[p]) :
        /\ IsPrefix(Path(p), tree[p][k].dir) /\ Len(tree[p][k].dir) = Len(Path(p)) + k - 1
        /\ \A x \in tree[p][k].rest : x # <<>> /\ Front(x) = tree[p][k].dir
  BY <1>2 DEF TypeInv, Walks
<1>6. Path(p) \in Names /\ Len(Path(p)) \in Nat \ {0}
  <2>1. Path(p) \in Names /\ Path(p) # <<>>
    BY NowParts
  <2> QED BY <2>1, EmptySeq DEF Names
<1>7. Top(p).dir # <<>>
  <2>1. Len(Top(p).dir) = Len(Path(p)) + Len(tree[p]) - 1
    BY <1>4, <1>5
  <2>2. Len(<<>>) = 0
    OBVIOUS
  <2> QED BY <1>2, <1>6, <2>1, <2>2
<1>8. Now(p).op = "rmdir"
  <2>1. pc[p] \in PlacesFor[Now(p).op] /\ Now(p).op \in Ops
    BY NowParts DEF TypeInv, Place
  <2> QED BY <2>1 DEF PlacesFor, Ops
<1>9. Len(call[p].entries) = 1 /\ at[p] = 1
  <2>1. call[p].tool # "apply_patch"
    BY <1>8, NowParts DEF OpsFor, Tools
  <2>2. Len(call[p].entries) = 1 /\ at[p] \in 1 .. Len(call[p].entries)
    BY <2>1, NowParts
  <2> QED BY <2>2
<1> QED BY <1>1, <1>2, <1>3, <1>4, <1>5, <1>7, <1>8, <1>9

LEMMA OthersStay ==
  ASSUME TypeInv, NEW p \in Procs, Step(p) \/ \E c \in Calls : Begin(p, c)
  PROVE  Others(p) /\ (Step(p) => UNCHANGED <<call, calls, met>>)
<1> USE DEF TypeInv, LocalsInv
<1>1. CASE Exists(p) \/ SizeBefore(p) \/ Quota(p)
  <2>1. ASSUME NEW from, Raises(p, from) PROVE Others(p) /\ UNCHANGED <<call, calls, met>>
    BY <2>1 DEF Raises, Goes, Others, treeVars, walkVars, callVars
  <2>2. CASE Exists(p)
    BY <2>1, <2>2 DEF Exists, Prepared, Goes, Others, treeVars, walkVars, callVars
  <2>3. CASE SizeBefore(p)
    <3>1. ASSUME NEW delta, Prepared(p, "size_before", delta)
          PROVE  \A q \in Procs \ {p} : pc'[q] = pc[q] /\ at'[q] = at[q] /\ deltas'[q] = deltas[q]
      BY <3>1 DEF Prepared, Goes
    <3>2. CASE Path(p) \notin DOMAIN files
      <4>1. CASE Raises(p, "size_before")
        BY <2>1, <4>1
      <4>2. CASE /\ Prepared(p, "size_before", Now(p).size)
                 /\ UNCHANGED <<treeVars, walkVars, call, old, calls, paid, met>>
        BY <3>1, <4>2 DEF Others, treeVars, walkVars
      <4> QED BY <2>3, <3>2, <4>1, <4>2 DEF SizeBefore
    <3>3. CASE Path(p) \in DOMAIN files
      <4>1. /\ old' = [old EXCEPT ![p] = files[Path(p)]]
            /\ UNCHANGED <<treeVars, walkVars, call, calls, paid, met>>
        BY <2>3, <3>3 DEF SizeBefore
      <4>2. \/ Goes(p, "size_before", "quota") /\ UNCHANGED <<at, deltas>>
            \/ Prepared(p, "size_before", Now(p).size - files[Path(p)])
        BY <2>3, <3>3 DEF SizeBefore
      <4>3. \A q \in Procs \ {p} : pc'[q] = pc[q] /\ at'[q] = at[q] /\ deltas'[q] = deltas[q]
        BY <3>1, <4>2 DEF Goes
      <4> QED BY <4>1, <4>3 DEF Others, treeVars, walkVars
    <3> QED BY <3>2, <3>3
  <2>4. CASE Quota(p)
    BY <2>1, <2>4 DEF Quota, Goes, Others, treeVars, walkVars, callVars
  <2> QED BY <1>1, <2>2, <2>3, <2>4
<1>2. CASE MakeDirectories(p) \/ Open(p) \/ Write(p)
  <2>1. CASE MakeDirectories(p)
    BY <2>1 DEF MakeDirectories, Raises, Goes, Others, treeVars, walkVars, callVars
  <2>2. CASE Open(p)
    BY <2>2 DEF Open, Resize, Raises, Goes, Others, treeVars, walkVars, callVars
  <2>3. CASE Write(p)
    BY <2>3 DEF Write, Resize, Raises, Goes, Others, treeVars, walkVars, callVars
  <2> QED BY <1>2, <2>1, <2>2, <2>3
<1>3. CASE SizeAfter(p) \/ Unlink(p) \/ Record(p)
  <2>1. CASE SizeAfter(p)
    BY <2>1 DEF SizeAfter, Raises, Goes, Others, treeVars, walkVars, callVars
  <2>2. CASE Unlink(p)
    BY <2>2 DEF Unlink, Erase, Raises, Goes, Others, treeVars, walkVars, callVars
  <2>3. CASE Record(p)
    BY <2>3 DEF Record, Raises, Goes, Others, treeVars, walkVars, callVars
  <2> QED BY <1>3, <2>1, <2>2, <2>3
<1>4. CASE IsDirectory(p) \/ EnterDirectory(p)
  BY <1>4 DEF IsDirectory, EnterDirectory, Raises, Goes, Others, treeVars, walkVars, callVars
<1>5. CASE Visit(p)
  BY <1>5 DEF Visit, Raises, Goes, Others, treeVars, walkVars, callVars
<1>6. CASE RemoveDirectory(p) \/ UnlinkChild(p)
  BY <1>6 DEF RemoveDirectory, UnlinkChild, Erase, Raises, Goes, Others, treeVars, walkVars, callVars
<1>7. ASSUME NEW c \in Calls, Begin(p, c) PROVE Others(p) /\ ~Step(p)
  BY <1>7 DEF Begin, Goes, Others, Step
<1> QED BY <1>1, <1>2, <1>3, <1>4, <1>5, <1>6, <1>7 DEF Step

-----------------------------------------------------------------------------
(* What a step does to the tree.                                           *)

KeptFile(x) ==
  /\ x \in DOMAIN files <=> x \in DOMAIN files'
  /\ x \in DOMAIN files => files'[x] = files[x]

KeptDir(x) == x \in dirs <=> x \in dirs'

FileReached(p, x) ==
  \/ Now(p).op \notin {"mkdir", "rmdir"} /\ x = Path(p)
  \/ Now(p).op = "rmdir" /\ IsPrefix(Path(p), x)

DirReached(p, x) ==
  \/ Now(p).op # "rmdir" /\ IsPrefix(x, Path(p))
  \/ Now(p).op = "rmdir" /\ IsPrefix(Path(p), x)

\* A call changes files and directories its entry is about; one that deletes only takes
\* away; and handles lose their name with the file.
Effects(p) ==
  /\ \A x \in Names : KeptFile(x) \/ FileReached(p, x)
  /\ \A x \in Names : KeptDir(x) \/ DirReached(p, x)
  /\ Now(p).op \in Deletes => \A x \in DOMAIN files' : x \in DOMAIN files /\ files'[x] = files[x]
  /\ linked' \in [Procs -> BOOLEAN]
  /\ \A q \in Procs \ {p} : pc[q] = "write" =>
       /\ linked'[q] => linked[q] /\ (Path(q) \in DOMAIN files => Path(q) \in DOMAIN files')
       /\ linked[q] /\ Path(q) \in DOMAIN files /\ KeptFile(Path(q)) => linked'[q]

LEMMA NothingDone ==
  ASSUME TypeInv, NEW p \in Procs, UNCHANGED <<dirs, files, linked>>
  PROVE  DiskInv' /\ Effects(p)
<1>1. DiskInv'
  BY DEF TypeInv, DiskInv
<1>2. \A x : KeptFile(x) /\ KeptDir(x)
  BY DEF KeptFile, KeptDir
<1> QED BY <1>1, <1>2 DEF Effects, TypeInv, LocalsInv

LEMMA DirectoriesMade ==
  ASSUME TypeInv, NEW p \in Procs, NEW path \in Names, IsPrefix(path, Path(p)),
         Prefixes(path) \subseteq DirectoryNames, Now(p).op # "rmdir",
         dirs' = dirs \cup Prefixes(path), UNCHANGED <<files, linked>>
  PROVE  DiskInv' /\ Effects(p)
<1>1. Path(p) \in Names
  BY NowParts
<1>2. \A x \in Prefixes(path) : x \in Names /\ IsPrefix(x, path)
  BY PrefixesDef
<1>3. DiskInv'
  <2> SUFFICES ASSUME NEW x \in (dirs' \cup DOMAIN files) \ {<<>>} PROVE Front(x) \in dirs'
    BY DEF TypeInv, DiskInv
  <2>1. CASE x \in Prefixes(path)
    <3>1. Front(x) \in Names /\ IsPrefix(Front(x), path)
      BY <1>2, <2>1, FrontDef, PrefixOrder
    <3> QED BY <3>1, PrefixesDef
  <2>2. CASE x \notin Prefixes(path)
    BY <2>2 DEF TypeInv, DiskInv
  <2> QED BY <2>1, <2>2
<1>4. ASSUME NEW x \in Names PROVE KeptDir(x) \/ DirReached(p, x)
  <2>1. x \in Prefixes(path) => IsPrefix(x, Path(p))
    BY <1>1, <1>2, PrefixOrder
  <2> QED BY <2>1 DEF KeptDir, DirReached
<1>5. \A x : KeptFile(x)
  BY DEF KeptFile
<1> QED BY <1>3, <1>4, <1>5 DEF Effects, TypeInv, LocalsInv

LEMMA FileResized ==
  ASSUME TypeInv, NEW p \in Procs, NEW size \in Nat, Now(p).op \notin Deletes, Front(Path(p)) \in dirs,
         Resize(p, Path(p), size), dirs' = dirs, linked' \in [Procs -> BOOLEAN],
         \A q \in Procs \ {p} : linked'[q] = linked[q]
  PROVE  DiskInv' /\ Effects(p)
<1> DEFINE path == Path(p)
<1>1. path \in FileNames /\ path \in Names
  BY NowParts, FileParts DEF Deletes
<1>2. /\ files' \in [DOMAIN files \cup {path} -> Nat]
      /\ \A x \in DOMAIN files : x # path => files'[x] = files[x]
  BY DEF Resize, TypeInv, DiskInv
<1>3. DiskInv'
  BY <1>1, <1>2 DEF TypeInv, DiskInv
<1>4. \A x \in Names : KeptFile(x) \/ x = path
  BY <1>2 DEF KeptFile
<1>5. \A x : KeptDir(x)
  BY DEF KeptDir
<1>6. DOMAIN files \subseteq DOMAIN files'
  BY <1>2
<1> QED BY <1>3, <1>4, <1>5, <1>6 DEF Effects, FileReached, Deletes

LEMMA FileErased ==
  ASSUME TypeInv, NEW p \in Procs, NEW path \in DOMAIN files, FileReached(p, path), Erase(p, path)
  PROVE  DiskInv' /\ Effects(p)
<1>1. files' \in [DOMAIN files \ {path} -> Nat] /\ \A x \in DOMAIN files \ {path} : files'[x] = files[x]
  BY DEF Erase, Restrict, TypeInv, DiskInv
<1>2. DiskInv'
  BY <1>1 DEF TypeInv, DiskInv, Erase
<1>3. \A x : KeptFile(x) \/ x = path
  BY <1>1 DEF KeptFile
<1>4. \A x : KeptDir(x)
  BY DEF KeptDir, Erase
<1>5. ASSUME NEW q \in Procs \ {p}, pc[q] = "write"
      PROVE  /\ linked'[q] => linked[q] /\ (Path(q) \in DOMAIN files => Path(q) \in DOMAIN files')
             /\ linked[q] /\ Path(q) \in DOMAIN files /\ KeptFile(Path(q)) => linked'[q]
  <2>1. linked'[q] <=> linked[q] /\ Path(q) # path
    BY <1>5 DEF Erase
  <2>2. ~KeptFile(path)
    BY <1>1 DEF KeptFile
  <2> QED BY <1>1, <2>1, <2>2
<1>6. linked' \in [Procs -> BOOLEAN]
  BY DEF Erase, TypeInv, LocalsInv
<1>7. \A x \in DOMAIN files' : x \in DOMAIN files /\ files'[x] = files[x]
  BY <1>1
<1> QED BY <1>2, <1>3, <1>4, <1>5, <1>6, <1>7 DEF Effects

LEMMA DirectoryRemoved ==
  ASSUME TypeInv, NEW p \in Procs, NEW dir \in dirs, dir # <<>>, Children(dir) = {}, Now(p).op = "rmdir",
         IsPrefix(Path(p), dir), dirs' = dirs \ {dir}, UNCHANGED <<files, linked>>
  PROVE  DiskInv' /\ Effects(p)
<1>1. DiskInv'
  <2>1. \A x \in (dirs \cup DOMAIN files) \ {<<>>} : Front(x) # dir
    BY DEF Children
  <2> QED BY <2>1 DEF TypeInv, DiskInv
<1>2. \A x : KeptFile(x)
  BY DEF KeptFile
<1>3. \A x : KeptDir(x) \/ x = dir
  BY DEF KeptDir
<1> QED BY <1>1, <1>2, <1>3 DEF Effects, DirReached, TypeInv, LocalsInv

LEMMA BeginsQuietly ==
  ASSUME NEW p \in Procs, NEW c \in Calls, Begin(p, c)
  PROVE  UNCHANGED <<dirs, files, linked>>
BY DEF Begin

\* Every step of a call has these effects.
LEMMA StepEffects ==
  ASSUME TypeInv, NEW p \in Procs, Step(p)
  PROVE  DiskInv' /\ Effects(p)
<1> USE DEF treeVars
<1>1. /\ Now(p).op \in Ops /\ pc[p] \in PlacesFor[Now(p).op] /\ Now(p).size \in Nat
      /\ Path(p) \in Names /\ Path(p) # <<>>
      /\ Now(p).op \notin {"mkdir", "rmdir"} => Path(p) \in FileNames
  BY NowParts DEF TypeInv, Place
<1>2. ASSUME UNCHANGED <<dirs, files, linked>> PROVE DiskInv' /\ Effects(p)
  BY <1>2, NothingDone
<1>3. CASE pc[p] = "exists" /\ Exists(p)
  BY <1>2, <1>3 DEF Exists, Raises, Prepared
<1>4. CASE pc[p] = "size_before" /\ SizeBefore(p)
  BY <1>2, <1>4 DEF SizeBefore, Raises, Prepared
<1>5. CASE pc[p] = "quota" /\ Quota(p)
  BY <1>2, <1>5 DEF Quota, Raises
<1>6. CASE pc[p] = "mkdir" /\ MakeDirectories(p)
  <2> DEFINE path == IF Now(p).op = "mkdir" THEN Path(p) ELSE Front(Path(p))
  <2>1. dirs' = dirs \cup Prefixes(path) /\ UNCHANGED <<files, linked>>
    BY <1>6 DEF MakeDirectories
  <2>2. Now(p).op # "rmdir"
    BY <1>1, <1>6 DEF PlacesFor
  <2>3. path \in Names /\ IsPrefix(path, Path(p))
    BY <1>1, FrontDef, PrefixOrder
  <2>4. Prefixes(path) \subseteq DirectoryNames
    BY <1>1, <2>2, NowParts, FileParts
  <2> HIDE DEF path
  <2> QED BY <2>1, <2>2, <2>3, <2>4, DirectoriesMade
<1>7. CASE pc[p] = "open" /\ Open(p)
  <2>1. CASE Front(Path(p)) \notin dirs
    BY <1>2, <1>7, <2>1 DEF Open, Raises
  <2>2. CASE Front(Path(p)) \in dirs
    <3> DEFINE size == IF Now(p).op = "append" THEN SizeOf(Path(p)) ELSE 0
    <3>1. Resize(p, Path(p), size) /\ dirs' = dirs /\ linked' = [linked EXCEPT ![p] = TRUE]
      BY <1>7, <2>2 DEF Open
    <3>2. size \in Nat
      BY DEF SizeOf, TypeInv, DiskInv
    <3>3. Now(p).op \notin Deletes
      BY <1>1, <1>7 DEF PlacesFor, Deletes
    <3>4. linked' \in [Procs -> BOOLEAN] /\ \A q \in Procs \ {p} : linked'[q] = linked[q]
      BY <3>1 DEF TypeInv, LocalsInv
    <3> HIDE DEF size
    <3> QED BY <2>2, <3>1, <3>2, <3>3, <3>4, FileResized
  <2> QED BY <2>1, <2>2
<1>8. CASE pc[p] = "write" /\ Write(p)
  <2>1. CASE ~linked[p]
    BY <1>2, <1>8, <2>1 DEF Write
  <2>2. CASE linked[p]
    <3> DEFINE old0 == files[Path(p)]
               size == IF Now(p).op = "append" THEN old0 + Now(p).size
                       ELSE IF Now(p).size > old0 THEN Now(p).size ELSE old0
    <3>1. Resize(p, Path(p), size) /\ dirs' = dirs /\ linked' = linked
      BY <1>8, <2>2 DEF Write
    <3>2. Path(p) \in DOMAIN files
      BY <1>8, <2>2 DEF TypeInv, Linked
    <3>3. size \in Nat /\ Front(Path(p)) \in dirs
      BY <1>1, <3>2 DEF TypeInv, DiskInv
    <3>4. Now(p).op \notin Deletes
      BY <1>1, <1>8 DEF PlacesFor, Deletes
    <3>5. linked' \in [Procs -> BOOLEAN] /\ \A q \in Procs \ {p} : linked'[q] = linked[q]
      BY <3>1 DEF TypeInv, LocalsInv
    <3> HIDE DEF size
    <3> QED BY <3>1, <3>3, <3>4, <3>5, FileResized
  <2> QED BY <2>1, <2>2
<1>9. CASE pc[p] = "size_after" /\ SizeAfter(p)
  BY <1>2, <1>9 DEF SizeAfter, Raises
<1>10. CASE pc[p] = "unlink" /\ Unlink(p)
  <2>1. CASE Path(p) \notin DOMAIN files
    BY <1>2, <1>10, <2>1 DEF Unlink, Raises
  <2>2. CASE Path(p) \in DOMAIN files
    <3>1. FileReached(p, Path(p))
      BY <1>1, <1>10 DEF PlacesFor, FileReached
    <3> QED BY <1>10, <2>2, <3>1, FileErased DEF Unlink
  <2> QED BY <2>1, <2>2
<1>11. CASE pc[p] = "record" /\ Record(p)
  BY <1>2, <1>11 DEF Record
<1>12. CASE (pc[p] = "is_dir" /\ IsDirectory(p)) \/ (pc[p] = "list" /\ EnterDirectory(p))
  BY <1>2, <1>12 DEF IsDirectory, EnterDirectory, Raises
<1>13. CASE pc[p] = "walk" /\ Visit(p)
  BY <1>2, <1>13 DEF Visit, Raises
<1>14. CASE pc[p] = "walk" /\ RemoveDirectory(p)
  <2>1. CASE Top(p).dir \notin dirs \/ Children(Top(p).dir) # {}
    BY <1>2, <1>14, <2>1 DEF RemoveDirectory, Raises
  <2>2. CASE Top(p).dir \in dirs /\ Children(Top(p).dir) = {}
    <3>1. dirs' = dirs \ {Top(p).dir} /\ UNCHANGED <<files, linked>>
      BY <1>14, <2>2 DEF RemoveDirectory
    <3> QED BY <1>14, <2>2, <3>1, TopParts, DirectoryRemoved
  <2> QED BY <2>1, <2>2
<1>15. CASE pc[p] = "unlink_child" /\ UnlinkChild(p)
  <2>1. CASE victim[p] \notin DOMAIN files
    BY <1>2, <1>15, <2>1 DEF UnlinkChild, Raises
  <2>2. CASE victim[p] \in DOMAIN files
    <3>1. victim[p] \in Names /\ victim[p] # <<>> /\ Front(victim[p]) = Top(p).dir
      BY <1>15 DEF TypeInv, LocalsInv, Walks
    <3>2. IsPrefix(Path(p), Top(p).dir) /\ Top(p).dir \in Names /\ Now(p).op = "rmdir"
      BY <1>15, TopParts
    <3>3. IsPrefix(Path(p), victim[p])
      BY <1>1, <3>1, <3>2, FrontDef, PrefixOrder
    <3>4. FileReached(p, victim[p])
      BY <3>2, <3>3 DEF FileReached
    <3> QED BY <1>15, <2>2, <3>4, FileErased DEF UnlinkChild
  <2> QED BY <2>1, <2>2
<1> QED BY <1>3, <1>4, <1>5, <1>6, <1>7, <1>8, <1>9, <1>10, <1>11, <1>12, <1>13, <1>14, <1>15 DEF Step

-----------------------------------------------------------------------------
(* Types.                                                                  *)

Own(p) == LocalsInv' /\ HistoryInv' /\ Place(p)' /\ Walks(p)' /\ Linked(p)'

LEMMA EntryOps ==
  ASSUME TypeInv, NEW p \in Procs
  PROVE  /\ Now(p).op \in Ops /\ pc[p] \in PlacesFor[Now(p).op]
         /\ \A i \in 1 .. Len(call[p].entries) :
              /\ call[p].entries[i].op \in Ops
              /\ Now(p).op \in Patching => call[p].entries[i].op \in Patching
              /\ call[p].tool = "delete_file" => call[p].entries[i].op = "delete"
              /\ call[p].tool = "apply_patch" => call[p].entries[i].op \in Patching
              /\ Now(p).op \in Patching => call[p].tool \in {"apply_patch", "delete_file"}
              /\ Now(p).op \notin Patching => i = 1 /\ at[p] = 1 /\ Len(call[p].entries) = 1
<1>1. /\ call[p] \in Calls /\ Now(p).op \in Ops /\ pc[p] \in PlacesFor[Now(p).op]
      /\ at[p] \in 1 .. Len(call[p].entries)
      /\ call[p].tool \in Tools /\ (call[p].tool # "apply_patch" => Len(call[p].entries) = 1)
      /\ Now(p).op \in OpsFor[call[p].tool]
  BY NowParts DEF TypeInv, Place
<1>2. \A i \in 1 .. Len(call[p].entries) :
        call[p].entries[i].op \in OpsFor[call[p].tool] /\ call[p].entries[i].op \in Ops
  BY <1>1, CallParts DEF Entry
<1>3. /\ call[p].tool = "apply_patch" => OpsFor[call[p].tool] = Patching
      /\ call[p].tool = "delete_file" => OpsFor[call[p].tool] = {"delete"}
      /\ call[p].tool \notin {"apply_patch", "delete_file"} => OpsFor[call[p].tool] \cap Patching = {}
  BY <1>1 DEF OpsFor, Tools, Patching
<1>4. ASSUME Now(p).op \notin Patching PROVE Len(call[p].entries) = 1 /\ at[p] = 1
  <2>1. Len(call[p].entries) = 1
    BY <1>1, <1>3, <1>4
  <2>2. at[p] \in 1 .. 1
    BY <1>1, <2>1
  <2> QED BY <2>1, <2>2
<1>5. Now(p).op \in Patching => call[p].tool \in {"apply_patch", "delete_file"}
  BY <1>1, <1>3
<1>6. "delete" \in Patching
  BY DEF Patching
<1> QED BY <1>1, <1>2, <1>3, <1>4, <1>5, <1>6

LEMMA RaiseTypes ==
  ASSUME TypeInv, NEW p \in Procs, NEW from, Raises(p, from)
  PROVE  Own(p)
<1>1. LocalsInv' /\ HistoryInv' /\ pc'[p] = "idle" /\ UNCHANGED <<callVars, walkVars>>
  BY DEF TypeInv, LocalsInv, HistoryInv, Raises, Goes, PCs, treeVars, walkVars, callVars
<1>2. Now(p)' = Now(p)
  BY <1>1 DEF Now, callVars
<1>3. "idle" \in PlacesFor[Now(p).op]
  BY EntryOps DEF PlacesFor, Ops
<1>4. Place(p)'
  BY <1>1, <1>2, <1>3 DEF Place, TypeInv, callVars
<1> QED BY <1>1, <1>4 DEF Own, Walks, Linked

LEMMA PreparedTypes ==
  ASSUME TypeInv, NEW p \in Procs, NEW from \in {"exists", "size_before"}, NEW delta \in Int,
         Prepared(p, from, delta), Now(p).op \in Patching,
         UNCHANGED <<treeVars, walkVars, call, calls, paid, met>>, old' \in [Procs -> Nat]
  PROVE  Own(p)
<1> DEFINE n == Len(call[p].entries)
<1>1. /\ deltas[p] \in Seq(Int) /\ Len(deltas[p]) = at[p] - 1
      /\ at[p] \in 1 .. n /\ n \in Nat \ {0} /\ DOMAIN call[p].entries = 1 .. n
  BY NowParts DEF TypeInv, LocalsInv, Place, Prepared, Goes
<1>2. Append(deltas[p], delta) \in Seq(Int) /\ Len(Append(deltas[p], delta)) = at[p]
  BY <1>1, AppendProperties
<1>3. deltas' \in [Procs -> Seq(Int)] /\ deltas'[p] = Append(deltas[p], delta)
  BY <1>2 DEF Prepared, TypeInv, LocalsInv
<1>4. /\ at' \in [Procs -> Nat] /\ pc' \in [Procs -> PCs]
      /\ \/ at[p] < n /\ at'[p] = at[p] + 1 /\ pc'[p] = "exists"
         \/ /\ at[p] = n /\ at'[p] = 1
            /\ pc'[p] = IF call[p].tool = "delete_file" THEN "unlink" ELSE "quota"
  <2>1. at \in [Procs -> Nat] /\ pc \in [Procs -> PCs]
    BY DEF TypeInv, LocalsInv
  <2>2. CASE at[p] < n
    <3>1. at' = [at EXCEPT ![p] = @ + 1] /\ pc' = [pc EXCEPT ![p] = "exists"]
      BY <2>2 DEF Prepared, Goes
    <3> QED BY <1>1, <2>1, <2>2, <3>1 DEF PCs
  <2>3. CASE ~(at[p] < n)
    <3>1. /\ at' = [at EXCEPT ![p] = 1]
          /\ pc' = [pc EXCEPT ![p] = IF call[p].tool = "delete_file" THEN "unlink" ELSE "quota"]
      BY <2>3 DEF Prepared, Goes
    <3>2. at[p] = n
      BY <1>1, <2>3
    <3> QED BY <2>1, <3>1, <3>2 DEF PCs
  <2> QED BY <2>2, <2>3
<1>5. LocalsInv' /\ HistoryInv'
  BY <1>3, <1>4 DEF LocalsInv, HistoryInv, TypeInv, treeVars, walkVars
<1>6. at'[p] \in 1 .. n
  BY <1>1, <1>4
<1>7. Now(p)' = call[p].entries[at'[p]]
  BY DEF Now
<1>8. /\ Now(p)'.op \in Patching
      /\ call[p].tool = "delete_file" => Now(p)'.op = "delete"
      /\ call[p].tool \in {"apply_patch", "delete_file"}
  BY <1>6, <1>7, EntryOps
<1>9. pc'[p] \in PlacesFor[Now(p)'.op]
  BY <1>4, <1>8 DEF PlacesFor, Patching
<1>10. Place(p)'
  <2>1. at'[p] \in DOMAIN call'[p].entries /\ call' = call
    BY <1>1, <1>6
  <2>2. pc'[p] = "exists" => Len(deltas'[p]) = at'[p] - 1
    BY <1>1, <1>2, <1>3, <1>4
  <2>3. pc'[p] # "exists" => Len(deltas'[p]) = n
    BY <1>1, <1>2, <1>3, <1>4
  <2> QED BY <1>4, <1>9, <2>1, <2>2, <2>3 DEF Place
<1> QED BY <1>4, <1>5, <1>10 DEF Own, Walks, Linked

LEMMA CallStepTypes ==
  ASSUME TypeInv, NEW p \in Procs, Step(p), pc[p] \notin {"is_dir", "list", "walk", "unlink_child"}
  PROVE  Own(p)
<1> USE DEF treeVars, walkVars, callVars
<1>1. /\ Now(p).op \in Ops /\ pc[p] \in PlacesFor[Now(p).op] /\ Now(p).size \in Nat
      /\ Path(p) \in Names /\ Path(p) # <<>> /\ at[p] \in DOMAIN call[p].entries
      /\ Len(call[p].entries) \in Nat \ {0} /\ DOMAIN call[p].entries = 1 .. Len(call[p].entries)
  BY NowParts DEF TypeInv, Place
<1>2. ASSUME NEW from, Raises(p, from) PROVE Own(p)
  BY <1>2, RaiseTypes
<1>3. \A x \in DOMAIN files : files[x] \in Nat
  BY DEF TypeInv, DiskInv
<1>4. ASSUME UNCHANGED <<call, at, walkVars, calls, met>>, LocalsInv', pc'[p] \in PlacesFor[Now(p).op],
             pc'[p] \notin {"exists", "size_before"} \/ Now(p).op \notin Patching,
             /\ Now(p).op \in Patching /\ pc'[p] \in {"quota", "mkdir", "open", "write", "unlink"}
                  => Len(deltas'[p]) = Len(call[p].entries)
             /\ pc'[p] = "record" => Len(deltas'[p]) = Len(call[p].entries),
             pc'[p] \notin {"walk", "unlink_child"},
             pc'[p] = "write" => (linked'[p] => Path(p) \in DOMAIN files')
      PROVE  Own(p)
  <2>1. Now(p)' = Now(p) /\ Path(p)' = Path(p)
    BY <1>4 DEF Now, Path
  <2>2. Place(p)'
    BY <1>1, <1>4, <2>1 DEF Place
  <2> QED BY <1>4, <2>1, <2>2 DEF Own, Walks, Linked, HistoryInv, TypeInv
<1>5. CASE pc[p] = "exists" /\ Exists(p)
  <2>1. CASE pc' = [pc EXCEPT ![p] = "size_before"] /\ UNCHANGED <<treeVars, walkVars, callVars, calls, paid, met>>
             /\ Now(p).op \notin {"mkdir", "rmdir"}
    <3>1. /\ pc' = [pc EXCEPT ![p] = "size_before"]
          /\ UNCHANGED <<treeVars, walkVars, callVars, calls, paid, met>>
      BY <2>1
    <3>2. LocalsInv' /\ HistoryInv' /\ pc'[p] = "size_before"
      BY <3>1 DEF TypeInv, LocalsInv, HistoryInv, PCs
    <3>3. Now(p)' = Now(p)
      BY <3>1 DEF Now
    <3>4. Place(p)'
      BY <1>1, <1>5, <2>1, <3>1, <3>2, <3>3 DEF TypeInv, Place, PlacesFor, Ops
    <3> QED BY <3>2, <3>4 DEF Own, Walks, Linked
  <2>2. CASE Path(p) \notin DOMAIN files /\ Now(p).op \in Rewrites
    <3>1. /\ pc' = [pc EXCEPT ![p] = "quota"] /\ old' = [old EXCEPT ![p] = 0]
          /\ UNCHANGED <<treeVars, walkVars, call, at, deltas, calls, paid, met>>
      BY <1>5, <2>2 DEF Exists, Goes, Rewrites
    <3>2. LocalsInv' /\ pc'[p] = "quota"
      BY <3>1 DEF TypeInv, LocalsInv, PCs
    <3> QED BY <1>4, <2>2, <3>1, <3>2 DEF Rewrites, Patching, PlacesFor
  <2>3. Now(p).op \notin {"mkdir", "rmdir"}
    BY <1>1, <1>5 DEF PlacesFor, Ops
  <2> QED BY <1>2, <1>5, <2>1, <2>2, <2>3 DEF Exists, Goes
<1>6. CASE pc[p] = "size_before" /\ SizeBefore(p)
  <2>1. CASE Path(p) \notin DOMAIN files /\ Prepared(p, "size_before", Now(p).size)
             /\ Now(p).op \in {"update", "add"}
             /\ UNCHANGED <<treeVars, walkVars, call, old, calls, paid, met>>
    <3>1. old' \in [Procs -> Nat]
      BY <2>1 DEF TypeInv, LocalsInv
    <3> QED BY <1>1, <2>1, <3>1, PreparedTypes DEF Patching
  <2>2. CASE Path(p) \in DOMAIN files /\ Now(p).op \in Rewrites
    <3>1. /\ pc' = [pc EXCEPT ![p] = "quota"] /\ old' = [old EXCEPT ![p] = files[Path(p)]]
          /\ UNCHANGED <<treeVars, walkVars, call, at, deltas, calls, paid, met>>
      BY <1>6, <2>2 DEF SizeBefore, Goes
    <3>2. LocalsInv' /\ pc'[p] = "quota"
      BY <1>3, <2>2, <3>1 DEF TypeInv, LocalsInv, PCs
    <3> QED BY <1>4, <2>2, <3>1, <3>2 DEF Rewrites, Patching, PlacesFor
  <2>3. CASE Path(p) \in DOMAIN files /\ Now(p).op \notin Rewrites
    <3>1. /\ Prepared(p, "size_before", Now(p).size - files[Path(p)])
          /\ old' = [old EXCEPT ![p] = files[Path(p)]]
          /\ UNCHANGED <<treeVars, walkVars, call, calls, paid, met>>
      BY <1>6, <2>3 DEF SizeBefore
    <3>2. old' \in [Procs -> Nat] /\ Now(p).size - files[Path(p)] \in Int
      BY <1>1, <1>3, <2>3, <3>1 DEF TypeInv, LocalsInv
    <3>3. Now(p).op \in Patching
      BY <1>1, <1>6, <2>3 DEF PlacesFor, Ops, Patching, Rewrites
    <3> QED BY <3>1, <3>2, <3>3, PreparedTypes
  <2> QED BY <1>2, <1>6, <2>1, <2>2, <2>3 DEF SizeBefore
<1>7. CASE pc[p] = "quota" /\ Quota(p)
  <2>1. CASE Raises(p, "quota")
    BY <1>2, <2>1
  <2>2. CASE ~Raises(p, "quota")
    <3> DEFINE to == CASE Now(p).op \in Rewrites -> "open"
                       [] Now(p).op = "delete"   -> "unlink"
                       [] OTHER                  -> "mkdir"
    <3>1. /\ pc' = [pc EXCEPT ![p] = to]
          /\ UNCHANGED <<treeVars, walkVars, callVars, calls, paid, met>>
      BY <1>7, <2>2 DEF Quota, Goes
    <3>4. to \in {"open", "unlink", "mkdir"} /\ to \in PlacesFor[Now(p).op]
      <4>1. CASE Now(p).op \in Rewrites
        BY <4>1 DEF Rewrites, PlacesFor
      <4>2. CASE Now(p).op = "delete"
        BY <4>2 DEF Rewrites, PlacesFor
      <4>3. CASE Now(p).op \in {"update", "add"}
        BY <4>3 DEF Rewrites, PlacesFor
      <4> QED BY <1>1, <1>7, <4>1, <4>2, <4>3 DEF Rewrites, PlacesFor, Ops
    <3> HIDE DEF to
    <3>2. LocalsInv' /\ pc'[p] \in {"open", "unlink", "mkdir"} /\ pc'[p] \in PlacesFor[Now(p).op]
      BY <3>1, <3>4 DEF TypeInv, LocalsInv, PCs
    <3>3. Now(p).op \in Patching => Len(deltas[p]) = Len(call[p].entries)
      BY <1>7 DEF TypeInv, Place
    <3> QED BY <1>4, <3>1, <3>2, <3>3
  <2> QED BY <2>1, <2>2
<1>8. CASE pc[p] = "mkdir" /\ MakeDirectories(p)
  <2> DEFINE to == CASE Now(p).op = "mkdir"    -> "idle"
                     [] Now(p).op \in Rewrites -> "exists"
                     [] OTHER                  -> "open"
  <2>1. /\ pc' = [pc EXCEPT ![p] = to]
        /\ UNCHANGED <<files, linked, changed, walkVars, callVars, calls, paid, met>>
    BY <1>8 DEF MakeDirectories, Goes
  <2>4. /\ to \in {"idle", "exists", "open"} /\ to \in PlacesFor[Now(p).op]
        /\ to = "exists" => Now(p).op \notin Patching
    <3>1. CASE Now(p).op = "mkdir"
      BY <3>1 DEF Rewrites, PlacesFor
    <3>2. CASE Now(p).op \in Rewrites
      BY <3>2 DEF Rewrites, Patching, PlacesFor
    <3>3. CASE Now(p).op \in {"update", "add"}
      BY <3>3 DEF Rewrites, PlacesFor
    <3> QED BY <1>1, <1>8, <3>1, <3>2, <3>3 DEF Rewrites, PlacesFor, Ops
  <2> HIDE DEF to
  <2>2. /\ LocalsInv' /\ pc'[p] \in {"idle", "exists", "open"} /\ pc'[p] \in PlacesFor[Now(p).op]
        /\ pc'[p] = "exists" => Now(p).op \notin Patching
    BY <2>1, <2>4 DEF TypeInv, LocalsInv, PCs
  <2>3. Now(p).op \in Patching => Len(deltas[p]) = Len(call[p].entries)
    BY <1>8 DEF TypeInv, Place
  <2> QED BY <1>4, <2>1, <2>2, <2>3
<1>9. CASE pc[p] = "open" /\ Open(p)
  <2>1. CASE Front(Path(p)) \notin dirs
    BY <1>2, <1>9, <2>1 DEF Open
  <2>2. CASE Front(Path(p)) \in dirs
    <3> DEFINE size == IF Now(p).op = "append" THEN SizeOf(Path(p)) ELSE 0
    <3>1. /\ pc' = [pc EXCEPT ![p] = "write"] /\ Resize(p, Path(p), size)
          /\ UNCHANGED <<dirs, walkVars, callVars, calls, paid, met>>
          /\ linked' = [linked EXCEPT ![p] = TRUE]
      BY <1>9, <2>2 DEF Open, Goes
    <3>2. size \in Nat /\ SizeOf(Path(p)) \in Nat
      BY <1>3 DEF SizeOf
    <3> HIDE DEF size
    <3>3. LocalsInv' /\ pc'[p] = "write" /\ Path(p) \in DOMAIN files'
      <4>1. LocalsInv
        BY DEF TypeInv
      <4>2. pc' \in [Procs -> PCs] /\ pc'[p] = "write"
        BY <3>1, <4>1 DEF LocalsInv, PCs
      <4>3. Path(p) \in DOMAIN files'
        BY <3>1, <3>2 DEF Resize
      <4>4. changed' \in [Procs -> Int] /\ linked' \in [Procs -> BOOLEAN]
        BY <3>1, <3>2, <4>1 DEF LocalsInv, Resize
      <4> QED BY <3>1, <4>1, <4>2, <4>3, <4>4 DEF LocalsInv, callVars, walkVars
    <3>4. Now(p).op \in Patching => Len(deltas[p]) = Len(call[p].entries)
      BY <1>9 DEF TypeInv, Place
    <3>5. "write" \in PlacesFor[Now(p).op]
      BY <1>1, <1>9 DEF PlacesFor, Ops
    <3> QED BY <1>4, <3>1, <3>3, <3>4, <3>5
  <2> QED BY <2>1, <2>2
<1>10. CASE pc[p] = "write" /\ Write(p)
  <2> DEFINE now  == files[Path(p)]
             size == IF Now(p).op = "append" THEN now + Now(p).size
                     ELSE IF Now(p).size > now THEN Now(p).size ELSE now
  <2>1. /\ pc' = [pc EXCEPT ![p] = IF Now(p).op \in Rewrites THEN "size_after" ELSE "record"]
        /\ IF linked[p] THEN Resize(p, Path(p), size) ELSE UNCHANGED <<files, changed>>
        /\ UNCHANGED <<dirs, linked, walkVars, callVars, calls, paid, met>>
    BY <1>10 DEF Write, Goes
  <2>2. changed' \in [Procs -> Int]
    <3>1. CASE linked[p]
      <4>1. Path(p) \in DOMAIN files
        BY <1>10, <3>1 DEF TypeInv, Linked
      <4>2. size \in Nat /\ SizeOf(Path(p)) \in Nat
        BY <1>1, <1>3, <4>1 DEF SizeOf
      <4> HIDE DEF size
      <4> QED BY <2>1, <3>1, <4>2 DEF Resize, TypeInv, LocalsInv
    <3> QED BY <2>1, <3>1 DEF TypeInv, LocalsInv
  <2> HIDE DEF size
  <2>5. LocalsInv' /\ pc'[p] = IF Now(p).op \in Rewrites THEN "size_after" ELSE "record"
    BY <2>1, <2>2 DEF TypeInv, LocalsInv, PCs
  <2>3. /\ pc'[p] \in {"size_after", "record"} /\ pc'[p] \in PlacesFor[Now(p).op]
        /\ pc'[p] = "record" => Now(p).op \in Patching
    BY <1>1, <1>10, <2>5 DEF Rewrites, Patching, PlacesFor, Ops
  <2>4. Now(p).op \in Patching => Len(deltas[p]) = Len(call[p].entries)
    BY <1>10 DEF TypeInv, Place
  <2> QED BY <1>4, <2>1, <2>3, <2>4, <2>5
<1>11. CASE pc[p] = "size_after" /\ SizeAfter(p)
  <2>1. CASE Path(p) \notin DOMAIN files
    BY <1>2, <1>11, <2>1 DEF SizeAfter
  <2>2. CASE Path(p) \in DOMAIN files
    <3>1. /\ pc' = [pc EXCEPT ![p] = "record"]
          /\ deltas' = [deltas EXCEPT ![p] = <<files[Path(p)] - old[p]>>]
          /\ UNCHANGED <<treeVars, walkVars, call, at, old, calls, paid, met>>
      BY <1>11, <2>2 DEF SizeAfter, Goes
    <3>2. <<files[Path(p)] - old[p]>> \in Seq(Int) /\ Len(<<files[Path(p)] - old[p]>>) = 1
      BY <1>3, <2>2 DEF TypeInv, LocalsInv
    <3>3. LocalsInv' /\ pc'[p] = "record" /\ Len(deltas'[p]) = 1
      BY <3>1, <3>2 DEF TypeInv, LocalsInv, PCs
    <3>4. Now(p).op \in Rewrites /\ "record" \in PlacesFor[Now(p).op]
      BY <1>1, <1>11 DEF PlacesFor, Ops, Rewrites
    <3>5. Len(call[p].entries) = 1
      BY <1>1, <3>4, EntryOps DEF Rewrites, Patching
    <3> QED BY <1>4, <3>1, <3>3, <3>4, <3>5 DEF Rewrites, Patching
  <2> QED BY <2>1, <2>2
<1>12. CASE pc[p] = "unlink" /\ Unlink(p)
  <2>1. CASE Path(p) \notin DOMAIN files
    BY <1>2, <1>12, <2>1 DEF Unlink
  <2>2. CASE Path(p) \in DOMAIN files
    <3>1. /\ pc' = [pc EXCEPT ![p] = "record"] /\ Erase(p, Path(p))
          /\ UNCHANGED <<walkVars, callVars, calls, paid, met>>
      BY <1>12, <2>2 DEF Unlink, Goes
    <3>2. LocalsInv' /\ pc'[p] = "record"
      BY <1>3, <2>2, <3>1 DEF TypeInv, LocalsInv, PCs, Erase
    <3>3. Now(p).op \in Patching /\ "record" \in PlacesFor[Now(p).op]
      BY <1>1, <1>12 DEF PlacesFor, Ops, Patching
    <3>4. Len(deltas[p]) = Len(call[p].entries)
      BY <1>12, <3>3 DEF TypeInv, Place
    <3> QED BY <1>4, <3>1, <3>2, <3>3, <3>4
  <2> QED BY <2>1, <2>2
<1>13. CASE pc[p] = "record" /\ Record(p)
  <2>1. Len(deltas[p]) = Len(call[p].entries) /\ deltas[p] \in Seq(Int)
    BY <1>13 DEF TypeInv, Place, LocalsInv
  <2>2. deltas[p][at[p]] \in Int
    BY <1>1, <2>1, ElementOfSeq
  <2>3. CASE at[p] < Len(call[p].entries)
    <3>1. /\ pc' = [pc EXCEPT ![p] = "quota"] /\ at' = [at EXCEPT ![p] = @ + 1]
          /\ paid' = [paid EXCEPT ![p] = @ + deltas[p][at[p]]]
          /\ UNCHANGED <<treeVars, walkVars, call, old, deltas, calls, met>>
      BY <1>13, <2>3 DEF Record, Goes
    <3>2. LocalsInv' /\ HistoryInv' /\ pc'[p] = "quota" /\ at'[p] = at[p] + 1
      <4>1. at \in [Procs -> Nat] /\ paid \in [Procs -> Int] /\ pc \in [Procs -> PCs]
        BY DEF TypeInv, LocalsInv
      <4>2. at' \in [Procs -> Nat] /\ at'[p] = at[p] + 1
        BY <3>1, <4>1
      <4>3. paid' \in [Procs -> Int]
        BY <2>2, <3>1, <4>1
      <4>4. pc' \in [Procs -> PCs] /\ pc'[p] = "quota"
        BY <3>1, <4>1 DEF PCs
      <4> QED BY <3>1, <4>2, <4>3, <4>4 DEF TypeInv, LocalsInv, HistoryInv
    <3>3. at'[p] \in 1 .. Len(call[p].entries) /\ Now(p)' = call[p].entries[at'[p]]
      BY <1>1, <2>3, <3>1, <3>2 DEF Now
    <3>4. Now(p).op \in Patching
      BY <1>1, <2>3, EntryOps
    <3>5. Now(p)'.op \in Patching
      BY <3>3, <3>4, EntryOps
    <3>6. Place(p)'
      BY <1>1, <2>1, <3>1, <3>2, <3>3, <3>5 DEF Place, PlacesFor, Patching
    <3> QED BY <3>2, <3>6 DEF Own, Walks, Linked
  <2>4. CASE ~(at[p] < Len(call[p].entries))
    <3>1. /\ pc' = [pc EXCEPT ![p] = "idle"] /\ at' = at
          /\ paid' = [paid EXCEPT ![p] = @ + deltas[p][at[p]]]
          /\ UNCHANGED <<treeVars, walkVars, call, old, deltas, calls, met>>
      BY <1>13, <2>4 DEF Record, Goes
    <3>2. LocalsInv' /\ pc'[p] = "idle"
      <4>1. pc' \in [Procs -> PCs] /\ pc'[p] = "idle"
        BY <3>1 DEF TypeInv, LocalsInv, PCs
      <4>2. paid' \in [Procs -> Int]
        BY <2>2, <3>1 DEF TypeInv, LocalsInv
      <4> QED BY <3>1, <4>1, <4>2 DEF TypeInv, LocalsInv
    <3>3. "idle" \in PlacesFor[Now(p).op]
      BY <1>1 DEF PlacesFor, Ops
    <3> QED BY <1>4, <3>1, <3>2, <3>3
  <2> QED BY <2>3, <2>4
<1> QED BY <1>5, <1>6, <1>7, <1>8, <1>9, <1>10, <1>11, <1>12, <1>13 DEF Step

\* The stack when a child is no longer to visit.
Taken(p, child) == [tree[p] EXCEPT ![Len(tree[p])].rest = @ \ {child}]

\* The stack of a removal after a child has been taken, and after the innermost directory.
LEMMA Stacks ==
  ASSUME TypeInv, NEW p \in Procs, pc[p] \in {"walk", "unlink_child"}, NEW child
  PROVE  LET n == Len(tree[p]) IN
            /\ Taken(p, child) \in Seq(Visits) /\ Len(Taken(p, child)) = n
            /\ \A k \in 1 .. n : /\ Taken(p, child)[k].dir = tree[p][k].dir
                                 /\ k # n => Taken(p, child)[k] = tree[p][k]
            /\ Taken(p, child)[n].rest = Top(p).rest \ {child}
            /\ Front(tree[p]) \in Seq(Visits) /\ Len(Front(tree[p])) = n - 1
            /\ \A k \in 1 .. n - 1 : Front(tree[p])[k] = tree[p][k]
<1> DEFINE s       == tree[p]
           n       == Len(s)
           top     == [s[n] EXCEPT !.rest = @ \ {child}]
           visited == [s EXCEPT ![n].rest = @ \ {child}]
<1>1. s \in Seq(Visits) /\ n \in Nat \ {0} /\ \A k \in 1 .. n : s[k] \in Visits
  BY TopParts
<1>2. n \in 1 .. n /\ Top(p) = s[n]
  BY <1>1, TopParts
<1>3. top \in Visits /\ top.dir = s[n].dir /\ top.rest = s[n].rest \ {child}
  BY <1>1, <1>2 DEF Visits
<1>4. visited = [s EXCEPT ![n] = top]
  OBVIOUS
<1> HIDE DEF top, s, n
<1>5. /\ [s EXCEPT ![n] = top] \in Seq(Visits) /\ Len([s EXCEPT ![n] = top]) = Len(s)
      /\ \A k \in 1 .. Len(s) : [s EXCEPT ![n] = top][k] = IF k = n THEN top ELSE s[k]
  <2>1. n \in 1 .. Len(s)
    BY <1>2 DEF n
  <2> QED BY <1>1, <1>3, <2>1, ExceptSeq
<1>6. Len(s) = n
  BY DEF n
<1>7. /\ visited \in Seq(Visits) /\ Len(visited) = n
      /\ \A k \in 1 .. n : visited[k] = IF k = n THEN top ELSE s[k]
  BY <1>4, <1>5, <1>6
<1> HIDE DEF visited
<1>8. /\ Front(s) \in Seq(Visits) /\ Len(Front(s)) = n - 1
      /\ \A k \in 1 .. n - 1 : Front(s)[k] = s[k]
  <2>1. 1 \in Int /\ n - 1 \in Int /\ \A i \in 1 .. n - 1 : s[i] \in Visits
    BY <1>1
  <2>2. /\ SubSeq(s, 1, n - 1) \in Seq(Visits)
        /\ Len(SubSeq(s, 1, n - 1)) = IF 1 <= n - 1 THEN n - 1 - 1 + 1 ELSE 0
        /\ \A i \in 1 .. n - 1 - 1 + 1 : SubSeq(s, 1, n - 1)[i] = s[1 + i - 1]
    BY <2>1, SubSeqProperties
  <2>3. (IF 1 <= n - 1 THEN n - 1 - 1 + 1 ELSE 0) = n - 1 /\ n - 1 - 1 + 1 = n - 1
    BY <1>1
  <2>4. \A i \in 1 .. n - 1 : 1 + i - 1 = i
    OBVIOUS
  <2>5. Front(s) = SubSeq(s, 1, n - 1)
    BY <1>6 DEF Front
  <2> QED BY <2>2, <2>3, <2>4, <2>5
<1>9. \A k \in 1 .. n : visited[k].dir = s[k].dir /\ (k # n => visited[k] = s[k])
  BY <1>3, <1>7
<1>10. visited[n].rest = Top(p).rest \ {child}
  BY <1>2, <1>3, <1>7
<1> QED BY <1>7, <1>8, <1>9, <1>10 DEF visited, s, n, Taken

LEMMA WalkStepTypes ==
  ASSUME TypeInv, NEW p \in Procs, Step(p), pc[p] \in {"is_dir", "list", "walk", "unlink_child"}
  PROVE  Own(p)
<1> USE DEF treeVars, walkVars, callVars
<1>1. /\ Now(p).op = "rmdir" /\ at[p] = 1 /\ Len(call[p].entries) = 1 /\ DOMAIN call[p].entries = 1 .. 1
      /\ Path(p) \in Names /\ Path(p) # <<>> /\ Len(Path(p)) \in Nat
  <2>1. Now(p).op \in Ops /\ pc[p] \in PlacesFor[Now(p).op]
    BY EntryOps
  <2>2. Now(p).op = "rmdir"
    BY <2>1 DEF PlacesFor, Ops
  <2>3. 1 \in 1 .. Len(call[p].entries) /\ Now(p).op \notin Patching
    BY <2>2, NowParts DEF Patching
  <2> QED BY <2>2, <2>3, EntryOps, NowParts, PathLen
<1>2. ASSUME NEW from, Raises(p, from) PROVE Own(p)
  BY <1>2, RaiseTypes
<1>3. ASSUME UNCHANGED <<call, at, calls, met>>, LocalsInv', pc'[p] \in {"walk", "unlink_child", "record"},
             Walks(p)', pc'[p] = "record" => Len(deltas'[p]) = 1
      PROVE  Own(p)
  <2>1. Now(p)' = Now(p)
    BY <1>3 DEF Now
  <2>2. Place(p)'
    BY <1>1, <1>3, <2>1 DEF Place, PlacesFor, Patching
  <2> QED BY <1>3, <2>2 DEF Own, Linked, HistoryInv, TypeInv
<1> DEFINE Fits(s) ==
      \A k \in DOMAIN s : /\ IsPrefix(Path(p), s[k].dir) /\ Len(s[k].dir) = Len(Path(p)) + k - 1
                          /\ \A x \in s[k].rest : x # <<>> /\ Front(x) = s[k].dir
<1>4. ASSUME UNCHANGED <<call, at>>, tree'[p] # <<>>, Fits(tree'[p]),
             pc'[p] = "unlink_child" => victim'[p] # <<>> /\ Front(victim'[p]) = Last(tree'[p]).dir
      PROVE  Walks(p)'
  <2>1. Path(p)' = Path(p) /\ Top(p)' = Last(tree'[p])
    BY <1>4 DEF Path, Now, Top
  <2> QED BY <1>4, <2>1 DEF Walks
<1>5. DiskInv /\ \A x \in DOMAIN files : files[x] \in Nat
  BY DEF TypeInv, DiskInv
<1>11. CASE pc[p] = "is_dir" /\ IsDirectory(p)
  <2>1. CASE Raises(p, "is_dir")
    BY <1>2, <2>1
  <2>2. CASE ~Raises(p, "is_dir")
    <3>1. pc' = [pc EXCEPT ![p] = "list"] /\ UNCHANGED <<treeVars, walkVars, callVars, calls, paid, met>>
      BY <1>11, <2>2 DEF IsDirectory, Goes
    <3>2. LocalsInv' /\ HistoryInv' /\ pc'[p] = "list"
      BY <3>1 DEF TypeInv, LocalsInv, HistoryInv, PCs
    <3>3. Now(p)' = Now(p)
      BY <3>1 DEF Now
    <3>4. Place(p)'
      BY <1>1, <3>1, <3>2, <3>3 DEF Place, PlacesFor, Patching
    <3> QED BY <3>2, <3>4 DEF Own, Walks, Linked
  <2> QED BY <2>1, <2>2
<1>6. CASE pc[p] = "list" /\ EnterDirectory(p)
  <2>1. CASE Path(p) \notin dirs
    BY <1>2, <1>6, <2>1 DEF EnterDirectory
  <2>2. CASE Path(p) \in dirs
    <3>1. /\ pc' = [pc EXCEPT ![p] = "walk"] /\ tree' = [tree EXCEPT ![p] = <<Frame(Path(p))>>]
          /\ UNCHANGED <<treeVars, victim, total, callVars, calls, paid, met>>
      BY <1>6, <2>2 DEF EnterDirectory, Goes
    <3>2. Frame(Path(p)) \in Visits
      BY <1>1, <1>5, FrameType
    <3>3. LocalsInv' /\ pc'[p] = "walk" /\ tree'[p] = <<Frame(Path(p))>>
      BY <3>1, <3>2 DEF TypeInv, LocalsInv, PCs
    <3>4. Fits(<<Frame(Path(p))>>)
      <4>1. IsPrefix(Path(p), Path(p))
        BY <1>1, PrefixOrder
      <4>2. Frame(Path(p)).dir = Path(p) /\ Frame(Path(p)).rest = Children(Path(p))
        BY DEF Frame
      <4>3. \A x \in Children(Path(p)) : x # <<>> /\ Front(x) = Path(p)
        BY DEF Children
      <4>4. DOMAIN <<Frame(Path(p))>> = {1} /\ <<Frame(Path(p))>>[1] = Frame(Path(p))
        OBVIOUS
      <4>5. Len(Path(p)) = Len(Path(p)) + 1 - 1
        BY <1>1
      <4> QED BY <4>1, <4>2, <4>3, <4>4, <4>5
    <3> HIDE DEF Fits
    <3>5. Walks(p)'
      BY <1>4, <3>1, <3>3, <3>4
    <3> QED BY <1>3, <3>1, <3>3, <3>5
  <2> QED BY <2>1, <2>2
<1>7. CASE pc[p] = "walk" /\ Visit(p)
  <2> DEFINE n == Len(tree[p])
  <2>1. PICK child \in Top(p).rest :
          CASE child \in dirs ->
                 /\ Goes(p, "walk", "walk")
                 /\ tree' = [tree EXCEPT ![p] = Append(Taken(p, child), Frame(child))]
                 /\ UNCHANGED <<treeVars, victim, total, callVars, calls, paid, met>>
            [] child \in DOMAIN files ->
                 /\ Goes(p, "walk", "unlink_child")
                 /\ tree' = [tree EXCEPT ![p] = Taken(p, child)]
                 /\ victim' = [victim EXCEPT ![p] = child]
                 /\ total' = [total EXCEPT ![p] = @ + files[child]]
                 /\ UNCHANGED <<treeVars, callVars, calls, paid, met>>
            [] OTHER -> Raises(p, "walk")
    BY <1>7 DEF Visit, Taken
  <2> DEFINE visited == Taken(p, child)
  <2>2. /\ n \in Nat \ {0} /\ n \in 1 .. n /\ Top(p) = tree[p][n]
        /\ \A k \in 1 .. n :
              /\ IsPrefix(Path(p), tree[p][k].dir) /\ Len(tree[p][k].dir) = Len(Path(p)) + k - 1
              /\ \A x \in tree[p][k].rest : x # <<>> /\ Front(x) = tree[p][k].dir
    BY <1>7, TopParts
  <2>3. child \in Names /\ child # <<>> /\ Front(child) = Top(p).dir /\ Top(p).dir \in Names
    BY <1>7, <2>2, TopParts
  <2>4. /\ visited \in Seq(Visits) /\ Len(visited) = n /\ DOMAIN visited = 1 .. n
        /\ \A k \in 1 .. n : visited[k].dir = tree[p][k].dir /\ (k # n => visited[k] = tree[p][k])
        /\ visited[n].rest = Top(p).rest \ {child}
    <3>1. /\ visited \in Seq(Visits) /\ Len(visited) = n
          /\ \A k \in 1 .. n : visited[k].dir = tree[p][k].dir /\ (k # n => visited[k] = tree[p][k])
          /\ visited[n].rest = Top(p).rest \ {child}
      BY <1>7, Stacks
    <3> QED BY <3>1, LenProperties
  <2> HIDE DEF visited, n
  <2>5. Fits(visited)
    BY <2>2, <2>4
  <2>6. CASE child \in dirs
    <3> DEFINE s == Append(visited, Frame(child))
    <3>1. /\ pc' = [pc EXCEPT ![p] = "walk"] /\ tree' = [tree EXCEPT ![p] = s]
          /\ UNCHANGED <<treeVars, victim, total, callVars, calls, paid, met>>
      <4>1. child \notin DOMAIN files
        BY <2>6, DirectoryParts DEF TypeInv, DiskInv
      <4> QED BY <2>1, <2>6, <4>1 DEF Goes, visited, n
    <3>2. Frame(child) \in Visits /\ Frame(child).dir = child /\ Frame(child).rest = Children(child)
      BY <1>5, <2>3, FrameType DEF Frame
    <3>3. /\ s \in Seq(Visits) /\ s # <<>> /\ DOMAIN s = 1 .. n + 1
          /\ \A k \in 1 .. n : s[k] = visited[k]
          /\ s[n + 1] = Frame(child)
      <4>1. s \in Seq(Visits) /\ s # <<>> /\ Len(s) = n + 1 /\ (\A k \in 1 .. n : s[k] = visited[k])
             /\ s[n + 1] = Frame(child)
        BY <2>4, <3>2, AppendProperties
      <4> QED BY <4>1, LenProperties
    <3> HIDE DEF s
    <3>4. LocalsInv' /\ pc'[p] = "walk" /\ tree'[p] = s
      BY <3>1, <3>3 DEF TypeInv, LocalsInv, PCs
    <3>5. IsPrefix(Path(p), child) /\ Len(child) = Len(Path(p)) + (n + 1) - 1
      <4>1. IsPrefix(Path(p), Top(p).dir) /\ Len(Top(p).dir) = Len(Path(p)) + n - 1
        BY <2>2
      <4>2. IsPrefix(Top(p).dir, child) /\ Len(Top(p).dir) = Len(child) - 1 /\ Len(child) \in Nat
        BY <2>3, FrontDef
      <4>3. IsPrefix(Path(p), child)
        BY <1>1, <2>3, <4>1, <4>2, PrefixOrder
      <4> QED BY <1>1, <2>2, <4>1, <4>2, <4>3
    <3>6. \A x \in Children(child) : x # <<>> /\ Front(x) = child
      BY DEF Children
    <3>7. ASSUME NEW k \in 1 .. n + 1
          PROVE  /\ IsPrefix(Path(p), s[k].dir) /\ Len(s[k].dir) = Len(Path(p)) + k - 1
                 /\ \A x \in s[k].rest : x # <<>> /\ Front(x) = s[k].dir
      <4>1. CASE k = n + 1
        BY <3>2, <3>3, <3>5, <3>6, <4>1
      <4>2. CASE k # n + 1
        <5>1. k \in 1 .. n
          BY <2>2, <4>2
        <5>2. s[k] = visited[k]
          BY <3>3, <5>1
        <5> QED BY <2>4, <2>5, <5>1, <5>2
      <4> QED BY <4>1, <4>2
    <3>8. Fits(s)
      BY <3>3, <3>7
    <3> HIDE DEF Fits
    <3>9. Walks(p)'
      BY <1>4, <3>1, <3>3, <3>4, <3>8
    <3> QED BY <1>3, <3>1, <3>4, <3>9
  <2>7. CASE child \notin dirs /\ child \in DOMAIN files
    <3>1. /\ pc' = [pc EXCEPT ![p] = "unlink_child"] /\ tree' = [tree EXCEPT ![p] = visited]
          /\ victim' = [victim EXCEPT ![p] = child]
          /\ total' = [total EXCEPT ![p] = @ + files[child]]
          /\ UNCHANGED <<treeVars, callVars, calls, paid, met>>
      BY <2>1, <2>7 DEF Goes, visited, n
    <3>2. /\ LocalsInv' /\ pc'[p] = "unlink_child" /\ tree'[p] = visited /\ victim'[p] = child
      <4>1. files[child] \in Nat /\ tree' \in [Procs -> Seq(Visits)] /\ tree'[p] = visited
        BY <1>5, <2>4, <2>7, <3>1 DEF TypeInv, LocalsInv
      <4>2. total' \in [Procs -> Nat] /\ victim' \in [Procs -> Names] /\ victim'[p] = child
        BY <2>3, <3>1, <4>1 DEF TypeInv, LocalsInv
      <4>3. pc' \in [Procs -> PCs] /\ pc'[p] = "unlink_child"
        BY <3>1 DEF TypeInv, LocalsInv, PCs
      <4> QED BY <3>1, <4>1, <4>2, <4>3 DEF TypeInv, LocalsInv
    <3>3. Last(visited).dir = Top(p).dir /\ visited # <<>>
      BY <2>2, <2>4 DEF Last
    <3> HIDE DEF Fits
    <3>4. Walks(p)'
      BY <1>4, <2>3, <2>5, <3>1, <3>2, <3>3
    <3> QED BY <1>3, <3>1, <3>2, <3>4
  <2>8. CASE child \notin dirs /\ child \notin DOMAIN files
    BY <1>2, <2>1, <2>8
  <2> QED BY <2>6, <2>7, <2>8
<1>8. CASE pc[p] = "walk" /\ RemoveDirectory(p)
  <2>1. CASE Top(p).dir \notin dirs \/ Children(Top(p).dir) # {}
    BY <1>2, <1>8, <2>1 DEF RemoveDirectory
  <2>2. CASE Top(p).dir \in dirs /\ Children(Top(p).dir) = {}
    <3> DEFINE n == Len(tree[p])
    <3>1. /\ pc' = [pc EXCEPT ![p] = IF n = 1 THEN "record" ELSE "walk"]
          /\ tree' = [tree EXCEPT ![p] = Front(tree[p])] /\ deltas' = [deltas EXCEPT ![p] = << -total[p] >>]
          /\ UNCHANGED <<files, linked, changed, victim, total, call, at, old, calls, paid, met>>
      BY <1>8, <2>2 DEF RemoveDirectory, Goes
    <3>2. << -total[p] >> \in Seq(Int) /\ Len(<< -total[p] >>) = 1
      BY DEF TypeInv, LocalsInv
    <3>3. /\ Front(tree[p]) \in Seq(Visits) /\ Len(Front(tree[p])) = n - 1 /\ DOMAIN Front(tree[p]) = 1 .. n - 1
          /\ \A k \in 1 .. n - 1 : Front(tree[p])[k] = tree[p][k]
      <4>1. /\ Front(tree[p]) \in Seq(Visits) /\ Len(Front(tree[p])) = n - 1
            /\ \A k \in 1 .. n - 1 : Front(tree[p])[k] = tree[p][k]
        BY <1>8, Stacks
      <4> QED BY <4>1, LenProperties
    <3>4. n \in Nat \ {0} /\ DOMAIN tree[p] = 1 .. n /\ Fits(tree[p])
      BY <1>8, TopParts
    <3>5. Fits(Front(tree[p]))
      <4>1. \A k \in 1 .. n - 1 : k \in 1 .. n
        BY <3>4
      <4> QED BY <3>3, <3>4, <4>1
    <3> HIDE DEF Fits, n
    <3>6. /\ LocalsInv' /\ pc'[p] = (IF n = 1 THEN "record" ELSE "walk")
          /\ tree'[p] = Front(tree[p]) /\ Len(deltas'[p]) = 1
      BY <3>1, <3>2, <3>3 DEF TypeInv, LocalsInv, PCs
    <3>7. n # 1 => Walks(p)'
      <4>1. n # 1 => Front(tree[p]) # <<>>
        BY <3>3, <3>4
      <4> QED BY <1>4, <3>1, <3>5, <3>6, <4>1
    <3>8. n = 1 => Walks(p)'
      BY <3>6 DEF Walks
    <3> QED BY <1>3, <3>1, <3>6, <3>7, <3>8
  <2> QED BY <2>1, <2>2
<1>9. CASE pc[p] = "unlink_child" /\ UnlinkChild(p)
  <2>1. CASE victim[p] \notin DOMAIN files
    BY <1>2, <1>9, <2>1 DEF UnlinkChild
  <2>2. CASE victim[p] \in DOMAIN files
    <3>1. /\ pc' = [pc EXCEPT ![p] = "walk"] /\ Erase(p, victim[p])
          /\ UNCHANGED <<walkVars, callVars, calls, paid, met>>
      BY <1>9, <2>2 DEF UnlinkChild, Goes
    <3>2. LocalsInv' /\ pc'[p] = "walk"
      BY <1>5, <2>2, <3>1 DEF TypeInv, LocalsInv, PCs, Erase
    <3>3. tree[p] # <<>> /\ Fits(tree[p])
      BY <1>9, TopParts
    <3> HIDE DEF Fits
    <3>4. Walks(p)'
      BY <1>4, <3>1, <3>2, <3>3
    <3> QED BY <1>3, <3>1, <3>2, <3>4
  <2> QED BY <2>1, <2>2
<1> QED BY <1>11, <1>6, <1>7, <1>8, <1>9 DEF Step

LEMMA BeginTypes ==
  ASSUME TypeInv, NEW p \in Procs, NEW c \in Calls, Begin(p, c)
  PROVE  Own(p)
<1> DEFINE e == c.entries[1]
<1>1. /\ c.tool \in Tools /\ 1 \in DOMAIN c.entries /\ 1 \in 1 .. Len(c.entries)
      /\ e.op \in OpsFor[c.tool] /\ OpsOf(c) \subseteq Ops
  <2>1. 1 \in 1 .. Len(c.entries)
    BY CallParts
  <2> QED BY <2>1, CallParts
<1> HIDE DEF e
<1>2. /\ pc' = [pc EXCEPT ![p] = FirstStep[c.tool]] /\ calls' = calls + 1 /\ calls < MaxCalls
      /\ call' = [call EXCEPT ![p] = c] /\ at' = [at EXCEPT ![p] = 1]
      /\ old' = [old EXCEPT ![p] = 0] /\ deltas' = [deltas EXCEPT ![p] = <<>>]
      /\ tree' = [tree EXCEPT ![p] = <<>>] /\ victim' = [victim EXCEPT ![p] = <<>>]
      /\ total' = [total EXCEPT ![p] = 0]
      /\ changed' = [changed EXCEPT ![p] = 0] /\ paid' = [paid EXCEPT ![p] = 0]
      /\ UNCHANGED linked
  BY DEF Begin, Goes
<1>3. /\ FirstStep[c.tool] \in PCs \cap PlacesFor[e.op]
      /\ FirstStep[c.tool] \in {"mkdir", "exists", "is_dir"}
      /\ e.op \in Patching <=> FirstStep[c.tool] = "exists"
  BY <1>1 DEF FirstStep, OpsFor, Tools, PlacesFor, PCs, Patching
<1>4. <<>> \in Seq(Int) /\ <<>> \in Seq(Visits) /\ <<>> \in Names /\ Len(<<>>) = 0
  BY EmptySeq DEF Names
<1>5. LocalsInv'
  BY <1>2, <1>3, <1>4 DEF TypeInv, LocalsInv
<1>6. met' \in [Procs -> SUBSET Ops]
  <2> DEFINE others == {q \in Procs : pc[q] # "idle" /\ Meet(c, call[q])}
             new    == (UNION {OpsOf(call[o]) : o \in others}) \cup (IF Repeats(c) THEN OpsOf(c) ELSE {})
  <2>1. \A q \in Procs : OpsOf(call[q]) \subseteq Ops
    BY CallParts DEF TypeInv, LocalsInv
  <2>2. new \subseteq Ops
    BY <1>1, <2>1
  <2>3. met' = [q \in Procs |-> IF q = p THEN new
                                ELSE IF q \in others THEN met[q] \cup OpsOf(c) ELSE met[q]]
    BY DEF Begin
  <2> HIDE DEF others, new
  <2> QED BY <1>1, <2>2, <2>3 DEF TypeInv, HistoryInv
<1>7. HistoryInv'
  <2>1. calls \in Nat /\ calls <= MaxCalls /\ MaxCalls \in Nat
    BY CallsAssumption DEF TypeInv, HistoryInv
  <2> QED BY <1>2, <1>6, <2>1 DEF HistoryInv
<1>8. pc'[p] = FirstStep[c.tool] /\ call'[p] = c /\ at'[p] = 1 /\ deltas'[p] = <<>>
  BY <1>2 DEF TypeInv, LocalsInv
<1>9. Now(p)' = e
  BY <1>8 DEF Now, e
<1>10. Place(p)'
  BY <1>1, <1>3, <1>4, <1>8, <1>9 DEF Place
<1> QED BY <1>3, <1>5, <1>7, <1>8, <1>10 DEF Own, Walks, Linked

LEMMA InitTypes == Init => TypeInv
<1> SUFFICES ASSUME Init PROVE TypeInv
  OBVIOUS
<1> DEFINE above(path) == Prefixes(Front(path))
<1>1. <<>> \in Seq(Int) /\ <<>> \in Seq(Visits) /\ <<>> \in Names /\ Len(<<>>) = 0
  BY EmptySeq DEF Names
<1>2. ASSUME NEW path \in DOMAIN InitialFiles
      PROVE  /\ path \in FileNames /\ path \in Names /\ path # <<>> /\ Front(path) \in Names
             /\ above(path) \subseteq DirectoryNames /\ InitialFiles[path] \in Nat
  <2>1. path \in FileNames /\ InitialFiles[path] \in Nat
    BY CallsAssumption DEF FileNames
  <2> QED BY <2>1, FileParts, FrontDef
<1>3. DiskInv
  <2>1. files = InitialFiles /\ dirs = {<<>>} \cup (UNION {above(path) : path \in DOMAIN InitialFiles})
    BY DEF Init
  <2>2. ASSUME NEW path \in DOMAIN InitialFiles
        PROVE  Front(path) \in above(path) /\ \A x \in above(path) \ {<<>>} : Front(x) \in above(path)
    BY <1>2, PrefixesDef, PrefixOrder, FrontDef
  <2>3. \A x \in (dirs \cup DOMAIN files) \ {<<>>} : Front(x) \in dirs
    BY <2>1, <2>2
  <2>4. dirs \subseteq DirectoryNames \cup {<<>>}
    BY <1>2, <2>1
  <2>5. InitialFiles \in [DOMAIN InitialFiles -> Nat]
    BY CallsAssumption
  <2> QED BY <1>2, <2>1, <2>3, <2>4, <2>5 DEF DiskInv
<1>4. LocalsInv /\ HistoryInv
  BY <1>1, CallsAssumption DEF Init, LocalsInv, HistoryInv, PCs
<1>5. ASSUME NEW p \in Procs PROVE Place(p) /\ Walks(p) /\ Linked(p)
  <2>1. call[p] \in Calls /\ at[p] = 1 /\ pc[p] = "idle"
    BY <1>4 DEF LocalsInv, Init
  <2>2. 1 \in DOMAIN call[p].entries /\ Now(p).op \in Ops
    <3>1. 1 \in 1 .. Len(call[p].entries) /\ DOMAIN call[p].entries = 1 .. Len(call[p].entries)
      BY <2>1, CallParts
    <3>2. Now(p) \in Entry
      BY <2>1, <3>1, CallParts DEF Now
    <3> QED BY <3>1, <3>2 DEF Entry
  <2>3. "idle" \in PlacesFor[Now(p).op]
    BY <2>2 DEF PlacesFor, Ops
  <2> QED BY <2>1, <2>2, <2>3 DEF Place, Walks, Linked
<1> QED BY <1>3, <1>4, <1>5 DEF TypeInv

LEMMA TypesKept ==
  ASSUME TypeInv, [Next]_vars
  PROVE  TypeInv'
<1>1. CASE UNCHANGED vars
  <2>1. ASSUME NEW p \in Procs PROVE Place(p)' /\ Walks(p)' /\ Linked(p)'
    BY <1>1 DEF TypeInv, Place, Walks, Linked, Now, Path, Top,
                vars, treeVars, walkVars, callVars
  <2> QED BY <1>1, <2>1 DEF TypeInv, DiskInv, LocalsInv, HistoryInv, vars, treeVars, walkVars, callVars
<1>2. ASSUME NEW p \in Procs, Step(p) \/ \E c \in Calls : Begin(p, c)
      PROVE  TypeInv'
  <2>1. DiskInv' /\ Effects(p)
    BY <1>2, StepEffects, BeginsQuietly, NothingDone
  <2>2. Own(p)
    BY <1>2, CallStepTypes, WalkStepTypes, BeginTypes
  <2>3. Others(p)
    BY <1>2, OthersStay
  <2>4. ASSUME NEW q \in Procs \ {p} PROVE Place(q)' /\ Walks(q)' /\ Linked(q)'
    <3>1. Place(q) /\ Walks(q) /\ Linked(q)
      BY DEF TypeInv
    <3>2. /\ pc'[q] = pc[q] /\ call'[q] = call[q] /\ at'[q] = at[q] /\ deltas'[q] = deltas[q]
          /\ tree'[q] = tree[q] /\ victim'[q] = victim[q]
      BY <2>3 DEF Others
    <3>3. Now(q)' = Now(q) /\ Path(q)' = Path(q) /\ Top(q)' = Top(q)
      BY <3>2 DEF Now, Path, Top
    <3>4. Place(q)' /\ Walks(q)'
      BY <3>1, <3>2, <3>3 DEF Place, Walks
    <3>5. Linked(q)'
      BY <2>1, <3>1, <3>2, <3>3 DEF Effects, Linked
    <3> QED BY <3>4, <3>5
  <2> QED BY <2>1, <2>2, <2>4 DEF TypeInv, Own
<1> QED BY <1>1, <1>2 DEF Next

LEMMA TypesCorrect == Spec => []TypeInv
BY InitTypes, TypesKept, PTL DEF Spec

\* In every state the directories and files form one tree, and each call is at one of its
\* entries with the deltas it has computed: the locals of write_file, apply_patch,
\* delete_file and _delete_tree (fs_operations.py 276-444), whatever calls overlap.
THEOREM TypeCorrect == Spec => []TypeOK
<1>1. TypeInv => TypeOK
  <2> SUFFICES ASSUME TypeInv PROVE TypeOK
    OBVIOUS
  <2>1. dirs \cap DOMAIN files = {}
    BY DirectoryParts DEF TypeInv, DiskInv
  <2>2. ASSUME NEW p \in Procs
        PROVE  /\ at[p] \in DOMAIN call[p].entries
               /\ pc[p] = "record" => at[p] \in DOMAIN deltas[p]
               /\ pc[p] = "walk" => tree[p] # <<>>
    <3>1. deltas[p] \in Seq(Int)
      BY DEF TypeInv, LocalsInv
    <3>2. DOMAIN deltas[p] = 1 .. Len(deltas[p])
      BY <3>1, LenProperties
    <3> QED BY <3>2, NowParts DEF TypeInv, Place, Walks
  <2> QED BY <2>1, <2>2 DEF TypeInv, DiskInv, LocalsInv, HistoryInv, TypeOK
<1> QED BY <1>1, TypesCorrect, PTL

-----------------------------------------------------------------------------
(* Calls that meet know of each other.                                     *)

LEMMA StepKeepsBusy ==
  ASSUME TypeInv, NEW p \in Procs, Step(p)
  PROVE  pc[p] # "idle" /\ UNCHANGED <<call, met>> /\ \A q \in Procs : pc'[q] # "idle" => pc[q] # "idle"
<1>1. pc[p] # "idle"
  BY DEF Step
<1>2. Others(p) /\ UNCHANGED <<call, met>>
  BY OthersStay
<1> QED BY <1>1, <1>2 DEF Others

LEMMA MeetKept ==
  ASSUME TypeInv, MeetInv, [Next]_vars
  PROVE  MeetInv'
<1>1. CASE UNCHANGED vars
  BY <1>1 DEF MeetInv, vars, callVars
<1>2. ASSUME NEW p \in Procs, Step(p) PROVE MeetInv'
  BY <1>2, StepKeepsBusy DEF MeetInv
<1>3. ASSUME NEW p \in Procs, NEW c \in Calls, Begin(p, c) PROVE MeetInv'
  <2> DEFINE others == {q \in Procs : pc[q] # "idle" /\ Meet(c, call[q])}
  <2>1. /\ Others(p) /\ call'[p] = c /\ pc[p] = "idle"
    BY <1>3, OthersStay DEF Begin, Goes, TypeInv, LocalsInv
  <2>2. /\ \A o \in others : OpsOf(call[o]) \subseteq met'[p]
        /\ Repeats(c) => OpsOf(c) \subseteq met'[p]
        /\ \A q \in Procs \ {p} : met[q] \subseteq met'[q]
        /\ \A q \in others \ {p} : OpsOf(c) \subseteq met'[q]
    <3> DEFINE new == (UNION {OpsOf(call[o]) : o \in others}) \cup (IF Repeats(c) THEN OpsOf(c) ELSE {})
    <3>1. met' = [q \in Procs |-> IF q = p THEN new
                                  ELSE IF q \in others THEN met[q] \cup OpsOf(c) ELSE met[q]]
      BY <1>3 DEF Begin
    <3>2. (\A o \in others : OpsOf(call[o]) \subseteq new) /\ (Repeats(c) => OpsOf(c) \subseteq new)
      OBVIOUS
    <3>3. others \subseteq Procs
      OBVIOUS
    <3> HIDE DEF others, new
    <3> QED BY <3>1, <3>2, <3>3
  <2>3. ASSUME NEW d \in Calls PROVE Meet(d, c) => Meet(c, d)
    BY DEF Meet, Touch
  <2>4. ASSUME NEW q \in Procs \ {p}, pc'[q] # "idle"
        PROVE  /\ Meet(c, call'[q]) => OpsOf(call'[q]) \subseteq met'[p]
               /\ Meet(call'[q], c) => OpsOf(c) \subseteq met'[q]
    <3>1. pc[q] # "idle" /\ call'[q] = call[q] /\ call[q] \in Calls
      BY <2>1, <2>4 DEF Others, TypeInv, LocalsInv
    <3> QED BY <2>2, <2>3, <3>1
  <2> QED BY <2>1, <2>2, <2>4 DEF MeetInv, Others
<1> QED BY <1>1, <1>2, <1>3 DEF Next

LEMMA MeetStart == Init => MeetInv
BY DEF Init, MeetInv

\* What a call that another does not meet is about stays as it is when that one moves.
LEMMA Undisturbed ==
  ASSUME TypeInv, NEW p \in Procs, NEW q \in Procs, Effects(q), ~Meet(call[p], call[q])
  PROVE  /\ \A i \in 1 .. Len(call[p].entries) :
              call[p].entries[i].op \notin {"mkdir", "rmdir"} => KeptFile(PathOf(p, i))
         /\ Now(p).op = "rmdir" => \A x \in Names : IsPrefix(Path(p), x) => KeptFile(x) /\ KeptDir(x)
<1>1. /\ Now(q) \in Range(call[q].entries) /\ Path(q) \in Names /\ Now(q).path = Path(q)
      /\ Now(p) \in Range(call[p].entries) /\ Path(p) \in Names /\ Now(p).path = Path(p)
  BY NowParts, CallParts DEF Now
<1>2. \A e \in Range(call[p].entries) : ~Touch(e, Now(q))
  BY <1>1 DEF Meet
<1>3. ASSUME NEW i \in 1 .. Len(call[p].entries), call[p].entries[i].op \notin {"mkdir", "rmdir"}
      PROVE  KeptFile(PathOf(p, i))
  <2> DEFINE e == call[p].entries[i]
  <2>1. e \in Range(call[p].entries) /\ e.path \in Names /\ PathOf(p, i) = e.path
    BY CallParts DEF TypeInv, LocalsInv, PathOf
  <2>2. ~Touch(e, Now(q))
    BY <1>2, <2>1
  <2>3. e.op # "mkdir"
    BY <1>3
  <2> HIDE DEF e
  <2>4. ~FileReached(q, e.path)
    BY <1>1, <2>2, <2>3 DEF FileReached, Touch
  <2> QED BY <2>1, <2>4 DEF Effects
<1>4. ASSUME Now(p).op = "rmdir", NEW x \in Names, IsPrefix(Path(p), x)
      PROVE  KeptFile(x) /\ KeptDir(x)
  <2>1. ~IsPrefix(Path(p), Path(q))
    BY <1>1, <1>2, <1>4 DEF Touch
  <2>2. Now(q).op = "rmdir" => ~IsPrefix(Path(q), Path(p))
    BY <1>1, <1>2 DEF Touch
  <2>3. ~(Now(q).op = "rmdir" /\ IsPrefix(Path(q), x))
    BY <1>1, <1>4, <2>1, <2>2, PrefixOrder
  <2>4. ~IsPrefix(x, Path(q))
    BY <1>1, <1>4, <2>1, PrefixOrder
  <2>5. x # Path(q)
    BY <1>4, <2>1
  <2> QED BY <2>3, <2>4, <2>5 DEF Effects, FileReached, DirReached
<1> QED BY <1>3, <1>4

-----------------------------------------------------------------------------
(* A call that nobody meets knows the files it is about.                   *)

LEMMA Distinct ==
  ASSUME TypeInv, MeetInv, NEW p \in Procs, pc[p] # "idle", met[p] = {}
  PROVE  \A i, j \in 1 .. Len(call[p].entries) : i # j => PathOf(p, i) # PathOf(p, j)
<1>1. OpsOf(call[p]) # {} /\ DOMAIN call[p].entries = 1 .. Len(call[p].entries)
  BY CallParts DEF TypeInv, LocalsInv
<1>2. ~Repeats(call[p])
  BY <1>1 DEF MeetInv
<1> QED BY <1>1, <1>2 DEF Repeats, PathOf

LEMMA RaiseAccount ==
  ASSUME NEW p \in Procs, NEW from \in {"exists", "size_before", "quota", "open", "unlink", "is_dir", "list"},
         TypeInv, Account(p), Raises(p, from)
  PROVE  Account(p)'
<1>1. pc[p] = from /\ pc'[p] = "idle" /\ UNCHANGED <<changed, paid>>
  BY DEF Raises, Goes, treeVars, TypeInv, LocalsInv
<1>2. paid[p] = changed[p]
  BY <1>1 DEF Account
<1> QED BY <1>1, <1>2 DEF Account

LEMMA PreparedAccount ==
  ASSUME TypeInv, NEW p \in Procs, Account(p), NEW from \in {"exists", "size_before"}, NEW delta \in Int,
         Prepared(p, from, delta), Now(p).op \in Patching, delta = Now(p).size - SizeOf(Path(p)),
         UNCHANGED <<files, call, changed, paid>>
  PROVE  Account(p)'
<1> DEFINE n == Len(call[p].entries)
<1>1. /\ deltas[p] \in Seq(Int) /\ Len(deltas[p]) = at[p] - 1 /\ pc[p] = from
      /\ at[p] \in 1 .. n /\ n \in Nat \ {0}
  BY NowParts DEF TypeInv, LocalsInv, Place, Prepared, Goes
<1>2. deltas'[p] = Append(deltas[p], delta)
  BY DEF Prepared, TypeInv, LocalsInv
<1>3. /\ \A i \in 1 .. at[p] - 1 : deltas'[p][i] = deltas[p][i]
      /\ deltas'[p][at[p]] = delta
  <2>1. /\ \A i \in 1 .. Len(deltas[p]) : Append(deltas[p], delta)[i] = deltas[p][i]
        /\ Append(deltas[p], delta)[Len(deltas[p]) + 1] = delta
    BY <1>1, AppendProperties
  <2>2. Len(deltas[p]) + 1 = at[p]
    BY <1>1
  <2> QED BY <1>1, <1>2, <2>1, <2>2
<1>4. /\ \/ at[p] < n /\ at'[p] = at[p] + 1 /\ pc'[p] = "exists"
         \/ at[p] = n /\ at'[p] = 1 /\ pc'[p] \in {"unlink", "quota"}
  <2>1. at \in [Procs -> Nat] /\ pc \in [Procs -> PCs]
    BY DEF TypeInv, LocalsInv
  <2>2. CASE at[p] < n
    BY <2>1, <2>2 DEF Prepared, Goes
  <2>3. CASE ~(at[p] < n)
    BY <1>1, <2>1, <2>3 DEF Prepared, Goes
  <2> QED BY <2>2, <2>3
<1>5. ASSUME NEW i \in 1 .. at[p] PROVE Right(p, i)'
  <2>1. \A x : SizeOf(x)' = SizeOf(x)
    BY DEF SizeOf
  <2>2. CASE i = at[p]
    <3>1. call[p].entries[i] = Now(p) /\ PathOf(p, i) = Path(p) /\ PathOf(p, i)' = PathOf(p, i)
      BY <2>2 DEF Now, Path, PathOf
    <3> QED BY <1>3, <2>1, <2>2, <3>1 DEF Right
  <2>3. CASE i # at[p]
    <3>1. i \in 1 .. at[p] - 1
      BY <1>1, <2>3
    <3>2. Right(p, i) /\ deltas'[p][i] = deltas[p][i] /\ PathOf(p, i)' = PathOf(p, i)
      BY <1>1, <1>3, <3>1 DEF Account, PathOf
    <3> QED BY <2>1, <3>2 DEF Right
  <2> QED BY <2>2, <2>3
<1>6. paid[p] = changed[p] /\ paid[p] = 0
  BY <1>1 DEF Account
<1>7. call[p].entries[at'[p]].op \in Patching
  <2>1. at'[p] \in 1 .. n
    BY <1>1, <1>4
  <2> QED BY <2>1, EntryOps
<1>8. Now(p)'.op \in Patching /\ Now(p)'.op \notin Rewrites
  BY <1>7 DEF Now, Patching, Rewrites
<1> HIDE DEF n
<1>9. CASE pc'[p] = "exists"
  <2>1. \A i \in 1 .. at'[p] - 1 : Right(p, i)'
    BY <1>1, <1>4, <1>5, <1>9
  <2> QED BY <1>6, <1>8, <1>9, <2>1 DEF Account
<1>10. CASE pc'[p] \in {"unlink", "quota"}
  <2>1. \A i \in Rest(p, at[p])' : Right(p, i)'
    BY <1>1, <1>4, <1>5, <1>10 DEF Rest, n
  <2> QED BY <1>6, <1>8, <1>10, <2>1 DEF Account
<1> QED BY <1>4, <1>9, <1>10

LEMMA CallAccount ==
  ASSUME TypeInv, MeetInv, NEW p \in Procs, met[p] = {}, Account(p), Step(p),
         pc[p] \notin {"is_dir", "list", "walk", "unlink_child"}
  PROVE  Account(p)'
<1> USE DEF treeVars, walkVars, callVars
<1> DEFINE n == Len(call[p].entries)
<1>1. /\ Now(p).op \in Ops /\ pc[p] \in PlacesFor[Now(p).op] /\ Now(p).size \in Nat
      /\ at[p] \in 1 .. n /\ n \in Nat \ {0} /\ PathOf(p, at[p]) = Path(p)
      /\ Now(p).op = "delete" => Now(p).size = 0
      /\ Now(p).op \notin Patching => at[p] = 1 /\ n = 1
  BY NowParts, EntryOps DEF PathOf, Path, Now
<1>2. /\ changed[p] \in Int /\ paid[p] \in Int /\ old[p] \in Nat /\ linked[p] \in BOOLEAN
      /\ \A x \in DOMAIN files : files[x] \in Nat
  BY DEF TypeInv, LocalsInv, DiskInv
<1>3. ASSUME UNCHANGED <<call, at>>
      PROVE  /\ Now(p)' = Now(p) /\ Path(p)' = Path(p)
             /\ \A i : PathOf(p, i)' = PathOf(p, i) /\ Rest(p, i)' = Rest(p, i)
             /\ Rest(p, at[p])' = Rest(p, at[p]) /\ Rest(p, at[p] + 1)' = Rest(p, at[p] + 1)
  BY <1>3 DEF Now, Path, PathOf, Rest
<1>4. ASSUME UNCHANGED <<call, files, deltas>>
      PROVE  \A i : Right(p, i)' <=> Right(p, i)
  BY <1>4 DEF Right, PathOf, SizeOf
<1>5. \A i \in Rest(p, at[p] + 1) : i \in Rest(p, at[p]) /\ PathOf(p, i) # Path(p)
  <2>1. pc[p] # "idle"
    BY DEF Step
  <2>2. \A i \in Rest(p, at[p] + 1) : i \in Rest(p, at[p]) /\ i \in 1 .. n /\ i # at[p]
    BY <1>1 DEF Rest
  <2> QED BY <1>1, <2>1, <2>2, Distinct
<1>6. at[p] \in Rest(p, at[p])
  BY <1>1 DEF Rest
<1>7. ASSUME UNCHANGED <<call, deltas>>, \A x \in Names \ {Path(p)} : KeptFile(x)
      PROVE  \A i \in Rest(p, at[p] + 1) : Right(p, i)' <=> Right(p, i)
  <2>1. ASSUME NEW i \in Rest(p, at[p] + 1) PROVE PathOf(p, i) \in Names \ {Path(p)}
    <3>1. i \in 1 .. n
      BY <1>1 DEF Rest
    <3> QED BY <1>5, <3>1, CallParts DEF PathOf, TypeInv, LocalsInv
  <2> QED BY <1>7, <2>1 DEF Right, PathOf, SizeOf, KeptFile
<1> HIDE DEF n
<1>8. ASSUME NEW from \in {"exists", "size_before", "quota", "open", "unlink"}, Raises(p, from)
      PROVE  Account(p)'
  BY <1>8, RaiseAccount
<1>9. CASE pc[p] = "exists" /\ Exists(p)
  <2>1. CASE Goes(p, "exists", "size_before") /\ UNCHANGED <<treeVars, walkVars, callVars, calls, paid, met>>
    <3>1. /\ pc'[p] = "size_before"
          /\ UNCHANGED <<treeVars, walkVars, callVars, calls, paid, met>>
      BY <2>1 DEF Goes, TypeInv, LocalsInv
    <3> QED BY <1>3, <1>4, <1>9, <3>1 DEF Account
  <2>2. CASE Path(p) \notin DOMAIN files /\ Now(p).op \in Rewrites
    <3>1. /\ pc'[p] = "quota" /\ old'[p] = 0
          /\ UNCHANGED <<treeVars, walkVars, call, at, deltas, calls, paid, met>>
      BY <1>9, <2>2 DEF Exists, Goes, Rewrites, TypeInv, LocalsInv
    <3>2. SizeOf(Path(p))' = 0
      BY <1>3, <2>2, <3>1 DEF SizeOf
    <3> QED BY <1>3, <1>9, <2>2, <3>1, <3>2 DEF Account, Rewrites, Patching
  <2> QED BY <1>8, <1>9, <2>1, <2>2 DEF Exists
<1>10. CASE pc[p] = "size_before" /\ SizeBefore(p)
  <2>1. CASE Path(p) \notin DOMAIN files /\ Prepared(p, "size_before", Now(p).size)
             /\ Now(p).op \in {"update", "add"}
             /\ UNCHANGED <<treeVars, walkVars, call, old, calls, paid, met>>
    <3>1. Now(p).size = Now(p).size - SizeOf(Path(p)) /\ Now(p).op \in Patching
      BY <1>1, <2>1 DEF SizeOf, Patching
    <3> QED BY <1>1, <2>1, <3>1, PreparedAccount
  <2>2. CASE Path(p) \in DOMAIN files /\ Now(p).op \in Rewrites
    <3>1. /\ pc'[p] = "quota" /\ old'[p] = files[Path(p)]
          /\ UNCHANGED <<treeVars, walkVars, call, at, deltas, calls, paid, met>>
      BY <1>10, <2>2 DEF SizeBefore, Goes, TypeInv, LocalsInv
    <3>2. SizeOf(Path(p))' = files[Path(p)]
      BY <1>3, <2>2, <3>1 DEF SizeOf
    <3> QED BY <1>3, <1>10, <2>2, <3>1, <3>2 DEF Account, Rewrites, Patching
  <2>3. CASE Path(p) \in DOMAIN files /\ Now(p).op \notin Rewrites
    <3>1. /\ Prepared(p, "size_before", Now(p).size - files[Path(p)])
          /\ UNCHANGED <<treeVars, walkVars, call, calls, paid, met>>
      BY <1>10, <2>3 DEF SizeBefore
    <3>2. Now(p).size - files[Path(p)] \in Int /\ files[Path(p)] = SizeOf(Path(p))
      BY <1>1, <1>2, <2>3 DEF SizeOf
    <3>3. Now(p).op \in Patching
      BY <1>1, <1>10, <2>3 DEF PlacesFor, Ops, Patching, Rewrites
    <3> QED BY <3>1, <3>2, <3>3, PreparedAccount
  <2> QED BY <1>8, <1>10, <2>1, <2>2, <2>3 DEF SizeBefore
<1>11. CASE pc[p] = "quota" /\ Quota(p)
  <2>1. CASE Raises(p, "quota")
    BY <1>8, <2>1
  <2>2. CASE ~Raises(p, "quota")
    <3>1. /\ Goes(p, "quota", CASE Now(p).op \in Rewrites -> "open"
                                [] Now(p).op = "delete"   -> "unlink"
                                [] OTHER                  -> "mkdir")
          /\ UNCHANGED <<treeVars, walkVars, callVars, calls, paid, met>>
      BY <1>11, <2>2 DEF Quota
    <3>2. pc'[p] \in {"open", "unlink", "mkdir"}
      BY <3>1 DEF Goes, Rewrites, TypeInv, LocalsInv
    <3>3. SizeOf(Path(p))' = SizeOf(Path(p))
      BY <1>3, <3>1 DEF SizeOf
    <3> QED BY <1>3, <1>4, <1>11, <3>1, <3>2, <3>3 DEF Account
  <2> QED BY <2>1, <2>2
<1>12. CASE pc[p] = "mkdir" /\ MakeDirectories(p)
  <2>1. UNCHANGED <<files, linked, changed, walkVars, callVars, calls, paid, met>>
    BY <1>12 DEF MakeDirectories
  <2>2. CASE Now(p).op = "mkdir"
    <3>1. pc'[p] = "idle"
      BY <1>12, <2>2 DEF MakeDirectories, Goes, Rewrites, TypeInv, LocalsInv
    <3> QED BY <1>12, <2>1, <3>1 DEF Account
  <2>3. CASE Now(p).op \in Rewrites
    <3>1. pc'[p] = "exists"
      BY <1>12, <2>3 DEF MakeDirectories, Goes, Rewrites, TypeInv, LocalsInv
    <3>2. at[p] - 1 = 0
      BY <1>1, <2>3 DEF Rewrites, Patching
    <3> QED BY <1>3, <1>12, <2>1, <2>3, <3>1, <3>2 DEF Account
  <2>4. CASE Now(p).op \in {"update", "add"}
    <3>1. pc'[p] = "open" /\ Now(p).op \in Patching /\ Now(p).op \notin Rewrites
      BY <1>12, <2>4 DEF MakeDirectories, Goes, Rewrites, Patching, TypeInv, LocalsInv
    <3> QED BY <1>3, <1>4, <1>12, <2>1, <3>1 DEF Account
  <2> QED BY <1>1, <1>12, <2>2, <2>3, <2>4 DEF PlacesFor, Ops, Rewrites
<1>13. CASE pc[p] = "open" /\ Open(p)
  <2>1. CASE Front(Path(p)) \notin dirs
    BY <1>8, <1>13, <2>1 DEF Open
  <2>2. CASE Front(Path(p)) \in dirs
    <3> DEFINE size == IF Now(p).op = "append" THEN SizeOf(Path(p)) ELSE 0
    <3>1. /\ pc'[p] = "write" /\ linked'[p] = TRUE /\ Resize(p, Path(p), size)
          /\ UNCHANGED <<walkVars, callVars, calls, paid, met>>
      BY <1>13, <2>2 DEF Open, Goes, TypeInv, LocalsInv
    <3>2. SizeOf(Path(p)) \in Nat
      BY <1>2 DEF SizeOf
    <3>3. /\ files'[Path(p)] = size /\ changed'[p] = changed[p] + size - SizeOf(Path(p))
          /\ \A x \in Names \ {Path(p)} : KeptFile(x)
      BY <3>1 DEF Resize, KeptFile, TypeInv, LocalsInv
    <3>4. CASE Now(p).op \in Rewrites
      <4>1. changed'[p] = size - old[p]
        BY <1>2, <1>13, <3>2, <3>3, <3>4 DEF Account
      <4>2. Now(p).op # "append" => size = 0
        OBVIOUS
      <4>3. Now(p).op \notin Patching
        BY <3>4 DEF Rewrites, Patching
      <4> HIDE DEF size
      <4> QED BY <1>3, <1>13, <3>1, <3>3, <3>4, <4>1, <4>2, <4>3 DEF Account
    <3>5. CASE Now(p).op \in {"update", "add"}
      <4>1. size = 0 /\ Now(p).op \in Patching /\ Now(p).op \notin Rewrites
        BY <3>5 DEF Patching, Rewrites
      <4>2. changed[p] = paid[p] /\ deltas[p][at[p]] = Now(p).size - SizeOf(Path(p))
        <5>1. Right(p, at[p]) /\ changed[p] = paid[p]
          BY <1>6, <1>13, <4>1 DEF Account
        <5> QED BY <1>1, <5>1 DEF Right, Now
      <4> HIDE DEF size
      <4>3. changed'[p] + Now(p).size = paid[p] + deltas[p][at[p]]
        BY <1>1, <1>2, <3>2, <3>3, <4>1, <4>2
      <4>4. \A i \in Rest(p, at[p] + 1) : Right(p, i)'
        BY <1>5, <1>7, <1>13, <3>1, <3>3, <4>1 DEF Account
      <4> QED BY <1>3, <1>13, <3>1, <3>3, <4>1, <4>3, <4>4 DEF Account
    <3> QED BY <1>1, <1>13, <3>4, <3>5 DEF PlacesFor, Ops, Rewrites
  <2> QED BY <2>1, <2>2
<1>14. CASE pc[p] = "write" /\ Write(p)
  <2> DEFINE now  == files[Path(p)]
             size == IF Now(p).op = "append" THEN now + Now(p).size
                     ELSE IF Now(p).size > now THEN Now(p).size ELSE now
  <2>1. linked[p] /\ Path(p) \in DOMAIN files /\ now \in Nat /\ SizeOf(Path(p)) = now
    BY <1>2, <1>14 DEF Account, TypeInv, Linked, SizeOf
  <2>2. /\ Goes(p, "write", IF Now(p).op \in Rewrites THEN "size_after" ELSE "record")
        /\ Resize(p, Path(p), size)
        /\ UNCHANGED <<dirs, linked, walkVars, callVars, calls, paid, met>>
    BY <1>14, <2>1 DEF Write
  <2>3. pc'[p] = IF Now(p).op \in Rewrites THEN "size_after" ELSE "record"
    BY <2>2 DEF Goes, TypeInv, LocalsInv
  <2>4. /\ files'[Path(p)] = size /\ changed'[p] = changed[p] + size - now /\ Path(p) \in DOMAIN files'
        /\ \A x \in Names \ {Path(p)} : KeptFile(x)
    BY <2>1, <2>2 DEF Resize, KeptFile, TypeInv, LocalsInv
  <2>5. size \in Nat /\ (Now(p).op # "append" => size = Now(p).size)
    <3>1. Now(p).op # "append" => now = 0
      BY <1>14 DEF Account
    <3> QED BY <1>1, <2>1, <3>1
  <2> HIDE DEF size
  <2>6. CASE Now(p).op \in Rewrites
    <3>1. changed'[p] = size - old[p] /\ paid[p] = 0
      BY <1>2, <1>14, <2>1, <2>4, <2>5, <2>6 DEF Account
    <3>2. Now(p).op \notin Patching
      BY <2>6 DEF Rewrites, Patching
    <3> QED BY <1>3, <2>2, <2>3, <2>4, <2>6, <3>1, <3>2 DEF Account
  <2>7. CASE Now(p).op \in {"update", "add"}
    <3>1. now = 0 /\ size = Now(p).size /\ Now(p).op \in Patching /\ Now(p).op \notin Rewrites
      BY <1>14, <2>5, <2>7 DEF Account, Patching, Rewrites
    <3>2. changed'[p] = paid[p] + deltas[p][at[p]]
      BY <1>1, <1>2, <1>14, <2>4, <3>1 DEF Account
    <3>3. \A i \in Rest(p, at[p] + 1) : Right(p, i)'
      BY <1>7, <1>14, <2>2, <2>4, <3>1 DEF Account
    <3> QED BY <1>3, <2>2, <2>3, <3>1, <3>2, <3>3 DEF Account
  <2> QED BY <1>1, <1>14, <2>6, <2>7 DEF PlacesFor, Ops, Rewrites
<1>15. CASE pc[p] = "size_after" /\ SizeAfter(p)
  <2>1. Path(p) \in DOMAIN files /\ changed[p] = files[Path(p)] - old[p] /\ paid[p] = 0
    BY <1>15 DEF Account
  <2>2. /\ pc'[p] = "record" /\ deltas'[p] = <<files[Path(p)] - old[p]>>
        /\ UNCHANGED <<treeVars, walkVars, call, at, old, calls, paid, met>>
    BY <1>15, <2>1 DEF SizeAfter, Goes, TypeInv, LocalsInv
  <2>3. Now(p).op \in Rewrites /\ Now(p).op \notin Patching /\ at[p] = 1
    BY <1>1, <1>15 DEF PlacesFor, Ops, Rewrites, Patching
  <2>4. deltas'[p][at[p]] = changed[p]
    BY <2>1, <2>2, <2>3
  <2>5. changed[p] = 0 + changed[p]
    BY <1>2
  <2> QED BY <1>3, <2>1, <2>2, <2>3, <2>4, <2>5 DEF Account
<1>16. CASE pc[p] = "unlink" /\ Unlink(p)
  <2>1. CASE Path(p) \notin DOMAIN files
    BY <1>8, <1>16, <2>1 DEF Unlink
  <2>2. CASE Path(p) \in DOMAIN files
    <3>1. /\ pc'[p] = "record" /\ Erase(p, Path(p))
          /\ UNCHANGED <<walkVars, callVars, calls, paid, met>>
      BY <1>16, <2>2 DEF Unlink, Goes, TypeInv, LocalsInv
    <3>2. /\ changed'[p] = changed[p] - files[Path(p)]
          /\ \A x \in Names \ {Path(p)} : KeptFile(x)
      BY <3>1 DEF Erase, Restrict, KeptFile, TypeInv, LocalsInv
    <3>3. Now(p).op = "delete" /\ Now(p).op \in Patching /\ Now(p).op \notin Rewrites
      BY <1>1, <1>16 DEF PlacesFor, Ops, Patching, Rewrites
    <3>4. changed[p] = paid[p] /\ deltas[p][at[p]] = 0 - files[Path(p)]
      <4>1. Right(p, at[p]) /\ changed[p] = paid[p]
        BY <1>6, <1>16, <3>3 DEF Account
      <4> QED BY <1>1, <2>2, <3>3, <4>1 DEF Right, Now, SizeOf
    <3>5. changed'[p] = paid[p] + deltas[p][at[p]]
      BY <1>2, <2>2, <3>2, <3>4
    <3>6. \A i \in Rest(p, at[p] + 1) : Right(p, i)'
      BY <1>5, <1>7, <1>16, <3>1, <3>2, <3>3 DEF Account
    <3> QED BY <1>3, <3>1, <3>3, <3>5, <3>6 DEF Account
  <2> QED BY <2>1, <2>2
<1>17. CASE pc[p] = "record" /\ Record(p)
  <2>1. changed[p] = paid[p] + deltas[p][at[p]]
    BY <1>17 DEF Account
  <2>2. paid'[p] = changed'[p] /\ UNCHANGED <<treeVars, walkVars, call, old, deltas, calls, met>>
    BY <1>17, <2>1 DEF Record, TypeInv, LocalsInv
  <2>3. CASE at[p] < n
    <3>1. at' = [at EXCEPT ![p] = @ + 1] /\ pc' = [pc EXCEPT ![p] = "quota"]
      BY <1>17, <2>3 DEF Record, Goes, n
    <3>2. at'[p] = at[p] + 1 /\ pc'[p] = "quota"
      BY <3>1 DEF TypeInv, LocalsInv
    <3>3. Now(p).op \in Patching
      BY <1>1, <2>3
    <3>4. Now(p)'.op \in Patching /\ Now(p)'.op \notin Rewrites
      <4>1. at'[p] \in 1 .. n
        BY <1>1, <2>3, <3>2
      <4> QED BY <2>2, <3>3, <4>1, EntryOps DEF Now, Patching, Rewrites, n
    <3>5. \A i \in Rest(p, at[p] + 1) : Right(p, i)'
      BY <1>4, <1>17, <2>2, <3>3 DEF Account
    <3>6. Rest(p, at[p])' = Rest(p, at[p] + 1)
      BY <2>2, <3>2 DEF Rest
    <3> QED BY <2>2, <3>2, <3>4, <3>5, <3>6 DEF Account
  <2>4. CASE ~(at[p] < n)
    <3>1. pc'[p] = "idle"
      BY <1>17, <2>4 DEF Record, Goes, n, TypeInv, LocalsInv
    <3> QED BY <2>2, <3>1 DEF Account
  <2> QED BY <2>3, <2>4
<1> QED BY <1>9, <1>10, <1>11, <1>12, <1>13, <1>14, <1>15, <1>16, <1>17 DEF Step

\* What the stack of a removal says of the directory it is in, and of those above.
LEMMA StackParts ==
  ASSUME TypeInv, NEW p \in Procs, TreeKnown(p), pc[p] \in {"walk", "unlink_child"}
  PROVE  LET n    == Len(tree[p])
             next == IF pc[p] = "unlink_child" THEN {victim[p]} ELSE {}
         IN /\ Top(p).dir \in dirs /\ Children(Top(p).dir) = Top(p).rest \cup next
            /\ Top(p).rest \cap next = {}
            /\ \A k \in 1 .. n - 1 :
                 /\ tree[p][k].dir \in dirs
                 /\ Children(tree[p][k].dir) = tree[p][k].rest \cup {tree[p][k + 1].dir}
                 /\ tree[p][k + 1].dir \notin tree[p][k].rest
                 /\ tree[p][k].dir # Top(p).dir
<1> DEFINE n == Len(tree[p])
<1>1. n \in Nat \ {0} /\ n \in 1 .. n /\ Top(p) = tree[p][n]
  BY TopParts
<1>2. \A k \in 1 .. n : Len(tree[p][k].dir) = Len(Path(p)) + k - 1
  BY TopParts
<1>3. Len(Path(p)) \in Nat
  BY NowParts, PathLen
<1> HIDE DEF n
<1>4. ASSUME NEW k \in 1 .. n - 1
      PROVE  /\ tree[p][k].dir \in dirs
             /\ Children(tree[p][k].dir) = tree[p][k].rest \cup {tree[p][k + 1].dir}
             /\ tree[p][k + 1].dir \notin tree[p][k].rest
             /\ tree[p][k].dir # Top(p).dir
  <2>1. k \in 1 .. n /\ k < n
    BY <1>1
  <2>2. tree[p][k].dir # Top(p).dir
    BY <1>1, <1>2, <1>3, <2>1
  <2> QED BY <2>1, <2>2 DEF TreeKnown, n
<1>5. /\ tree[p][n].dir \in dirs
      /\ Children(tree[p][n].dir) = tree[p][n].rest \cup (IF pc[p] = "unlink_child" THEN {victim[p]} ELSE {})
      /\ tree[p][n].rest \cap (IF pc[p] = "unlink_child" THEN {victim[p]} ELSE {}) = {}
  <2>1. ~(n < n)
    BY <1>1
  <2>2. CASE pc[p] = "unlink_child"
    BY <1>1, <2>1, <2>2 DEF TreeKnown, n
  <2>3. CASE pc[p] # "unlink_child"
    BY <1>1, <2>1, <2>3 DEF TreeKnown, n
  <2> QED BY <2>2, <2>3
<1> QED BY <1>1, <1>4, <1>5 DEF n

LEMMA WalkAccount ==
  ASSUME TypeInv, NEW p \in Procs, Account(p), Step(p), pc[p] \in {"is_dir", "list", "walk", "unlink_child"}
  PROVE  Account(p)'
<1> USE DEF treeVars, walkVars, callVars
<1> DEFINE n == Len(tree[p])
<1>1. /\ Now(p).op = "rmdir" /\ Now(p).op \notin Rewrites /\ Now(p).op \notin Patching /\ at[p] = 1
      /\ changed[p] \in Int /\ paid[p] = 0 /\ total[p] \in Nat
  <2>1. Now(p).op \in Ops /\ pc[p] \in PlacesFor[Now(p).op]
    BY EntryOps
  <2>2. Now(p).op = "rmdir" /\ Now(p).op \notin Rewrites /\ Now(p).op \notin Patching
    BY <2>1 DEF PlacesFor, Ops, Rewrites, Patching
  <2>3. at[p] = 1
    <3>1. 1 \in 1 .. Len(call[p].entries)
      BY NowParts
    <3> QED BY <2>2, <3>1, EntryOps
  <2> QED BY <2>2, <2>3 DEF Account, TypeInv, LocalsInv
<1>2. DiskInv /\ dirs \cap DOMAIN files = {} /\ \A x \in DOMAIN files : files[x] \in Nat
  BY DirectoryParts DEF TypeInv, DiskInv
<1>3. ASSUME UNCHANGED <<dirs, files>> PROVE \A x : Children(x)' = Children(x)
  BY <1>3 DEF Children
\* What is left to show of each step.
<1>4. ASSUME UNCHANGED <<call, at, paid>>, pc'[p] \in {"walk", "unlink_child"}, TreeKnown(p)',
             pc'[p] = "walk" => changed'[p] = - total'[p],
             pc'[p] = "unlink_child" => victim'[p] \in DOMAIN files' /\ changed'[p] - files'[victim'[p]] = - total'[p]
      PROVE  Account(p)'
  <2>1. Now(p)' = Now(p)
    BY <1>4 DEF Now
  <2> QED BY <1>1, <1>4, <2>1 DEF Account
<1>11. CASE pc[p] = "is_dir" /\ IsDirectory(p)
  <2>1. CASE Raises(p, "is_dir")
    BY <2>1, RaiseAccount
  <2>2. CASE ~Raises(p, "is_dir")
    <3>1. pc'[p] = "list" /\ UNCHANGED <<treeVars, walkVars, callVars, calls, paid, met>>
      BY <1>11, <2>2 DEF IsDirectory, Goes, TypeInv, LocalsInv
    <3>2. Now(p)' = Now(p)
      BY <3>1 DEF Now
    <3> QED BY <1>1, <1>11, <3>1, <3>2 DEF Account
  <2> QED BY <2>1, <2>2
<1>5. CASE pc[p] = "list" /\ EnterDirectory(p)
  <2>1. CASE Path(p) \notin dirs
    BY <1>5, <2>1, RaiseAccount DEF EnterDirectory
  <2>2. CASE Path(p) \in dirs
    <3>1. /\ pc'[p] = "walk" /\ tree'[p] = <<Frame(Path(p))>>
          /\ UNCHANGED <<treeVars, victim, total, callVars, calls, paid, met>>
      BY <1>5, <2>2 DEF EnterDirectory, Goes, TypeInv, LocalsInv
    <3>2. Frame(Path(p)).dir = Path(p) /\ Frame(Path(p)).rest = Children(Path(p))
      BY DEF Frame
    <3>3. Len(<<Frame(Path(p))>>) = 1 /\ <<Frame(Path(p))>>[1] = Frame(Path(p))
      OBVIOUS
    <3>4. TreeKnown(p)'
      BY <1>3, <2>2, <3>1, <3>2, <3>3 DEF TreeKnown
    <3>5. changed[p] = - total[p]
      BY <1>5 DEF Account
    <3> QED BY <1>4, <3>1, <3>4, <3>5
  <2> QED BY <2>1, <2>2
<1>6. ASSUME pc[p] \in {"walk", "unlink_child"}
      PROVE  /\ n \in Nat \ {0} /\ n \in 1 .. n /\ Top(p) = tree[p][n] /\ TreeKnown(p)
             /\ \A k \in 1 .. n - 1 : k \in 1 .. n /\ k + 1 \in 1 .. n
  <2>1. n \in Nat \ {0} /\ Top(p) = tree[p][n]
    BY <1>6, TopParts
  <2> QED BY <1>6, <2>1 DEF Account
<1> HIDE DEF n
<1>7. CASE pc[p] = "walk" /\ Visit(p)
  <2>1. PICK child \in Top(p).rest :
          CASE child \in dirs ->
                 /\ Goes(p, "walk", "walk")
                 /\ tree' = [tree EXCEPT ![p] = Append(Taken(p, child), Frame(child))]
                 /\ UNCHANGED <<treeVars, victim, total, callVars, calls, paid, met>>
            [] child \in DOMAIN files ->
                 /\ Goes(p, "walk", "unlink_child")
                 /\ tree' = [tree EXCEPT ![p] = Taken(p, child)]
                 /\ victim' = [victim EXCEPT ![p] = child]
                 /\ total' = [total EXCEPT ![p] = @ + files[child]]
                 /\ UNCHANGED <<treeVars, callVars, calls, paid, met>>
            [] OTHER -> Raises(p, "walk")
    BY <1>7 DEF Visit, Taken
  <2>2. /\ Top(p).dir \in dirs /\ Children(Top(p).dir) = Top(p).rest
        /\ \A k \in 1 .. n - 1 :
             /\ tree[p][k].dir \in dirs
             /\ Children(tree[p][k].dir) = tree[p][k].rest \cup {tree[p][k + 1].dir}
             /\ tree[p][k + 1].dir \notin tree[p][k].rest
    <3>1. TreeKnown(p) /\ pc[p] = "walk" /\ pc[p] # "unlink_child"
      BY <1>6, <1>7
    <3>2. Children(Top(p).dir) = Top(p).rest \cup {} /\ Top(p).rest \cup {} = Top(p).rest
      BY <3>1, StackParts
    <3> QED BY <3>1, <3>2, StackParts DEF n
  <2>3. child \in dirs \cup DOMAIN files
    BY <2>2 DEF Children
  <2>4. changed[p] = - total[p]
    BY <1>7 DEF Account
  <2> DEFINE visited == Taken(p, child)
  <2>5. /\ visited \in Seq(Visits) /\ Len(visited) = n
        /\ \A k \in 1 .. n : visited[k].dir = tree[p][k].dir /\ (k # n => visited[k] = tree[p][k])
        /\ visited[n].rest = Top(p).rest \ {child}
    BY <1>7, Stacks DEF n
  <2>6. ASSUME NEW k \in 1 .. n - 1
        PROVE  /\ visited[k].dir \in dirs
               /\ Children(visited[k].dir) = visited[k].rest \cup {visited[k + 1].dir}
               /\ visited[k + 1].dir \notin visited[k].rest
    <3>1. visited[k] = tree[p][k] /\ visited[k + 1].dir = tree[p][k + 1].dir
      BY <1>6, <1>7, <2>5
    <3> QED BY <2>2, <3>1
  <2>7. /\ visited[n].dir \in dirs /\ visited[n].dir = Top(p).dir
        /\ Children(visited[n].dir) = visited[n].rest \cup {child} /\ child \notin visited[n].rest
    BY <1>6, <1>7, <2>2, <2>5
  <2> HIDE DEF visited
  <2>8. CASE child \in dirs
    <3> DEFINE s == Append(visited, Frame(child))
    <3>1. child \notin DOMAIN files
      BY <1>2, <2>8
    <3>2. /\ pc'[p] = "walk" /\ tree'[p] = s
          /\ UNCHANGED <<treeVars, victim, total, callVars, calls, paid, met>>
      <4>1. /\ Goes(p, "walk", "walk") /\ tree' = [tree EXCEPT ![p] = s]
            /\ UNCHANGED <<treeVars, victim, total, callVars, calls, paid, met>>
        BY <2>1, <2>8, <3>1 DEF visited
      <4> QED BY <4>1 DEF Goes, TypeInv, LocalsInv
    <3>3. child \in Names
      BY <1>6, <1>7, TopParts DEF n
    <3>4. Frame(child) \in Visits /\ Frame(child).dir = child /\ Frame(child).rest = Children(child)
      BY <1>2, <3>3, FrameType DEF Frame
    <3>5. Len(s) = n + 1 /\ (\A k \in 1 .. n : s[k] = visited[k]) /\ s[n + 1] = Frame(child)
      BY <2>5, <3>4, AppendProperties
    <3> HIDE DEF s
    <3>6. ASSUME NEW k \in 1 .. n
          PROVE  /\ s[k].dir \in dirs /\ Children(s[k].dir) = s[k].rest \cup {s[k + 1].dir}
                 /\ s[k + 1].dir \notin s[k].rest
      <4>1. CASE k = n
        BY <1>6, <1>7, <2>7, <3>4, <3>5, <4>1
      <4>2. CASE k # n
        <5>1. k \in 1 .. n - 1 /\ k + 1 \in 1 .. n
          BY <1>6, <1>7, <4>2
        <5> QED BY <2>6, <3>5, <5>1
      <4> QED BY <4>1, <4>2
    <3>7. /\ s[n + 1].dir \in dirs /\ Children(s[n + 1].dir) = s[n + 1].rest
      BY <2>8, <3>4, <3>5
    <3>8. TreeKnown(p)'
      <4> SUFFICES ASSUME NEW k \in 1 .. n + 1
                   PROVE  LET next == IF k < n + 1 THEN {s[k + 1].dir} ELSE {}
                          IN /\ s[k].dir \in dirs /\ Children(s[k].dir) = s[k].rest \cup next
                             /\ s[k].rest \cap next = {}
        BY <1>3, <3>2, <3>5 DEF TreeKnown
      <4>1. CASE k = n + 1
        BY <1>6, <1>7, <3>7, <4>1
      <4>2. CASE k # n + 1
        <5>1. k \in 1 .. n /\ k < n + 1
          BY <1>6, <1>7, <4>2
        <5> QED BY <3>6, <5>1
      <4> QED BY <4>1, <4>2
    <3> QED BY <1>4, <2>4, <3>2, <3>8
  <2>9. CASE child \notin dirs
    <3>1. /\ Goes(p, "walk", "unlink_child") /\ tree' = [tree EXCEPT ![p] = visited]
          /\ victim' = [victim EXCEPT ![p] = child] /\ total' = [total EXCEPT ![p] = @ + files[child]]
          /\ UNCHANGED <<treeVars, callVars, calls, paid, met>>
      BY <2>1, <2>3, <2>9 DEF visited
    <3>2. /\ pc'[p] = "unlink_child" /\ tree'[p] = visited /\ victim'[p] = child
          /\ total'[p] = total[p] + files[child]
      BY <3>1 DEF Goes, TypeInv, LocalsInv
    <3>3. TreeKnown(p)'
      <4> SUFFICES ASSUME NEW k \in 1 .. n
                   PROVE  LET next == IF k < n THEN {visited[k + 1].dir} ELSE {child}
                          IN /\ visited[k].dir \in dirs /\ Children(visited[k].dir) = visited[k].rest \cup next
                             /\ visited[k].rest \cap next = {}
        BY <1>3, <2>5, <3>1, <3>2 DEF TreeKnown
      <4>1. CASE k = n
        BY <1>6, <1>7, <2>7, <4>1
      <4>2. CASE k # n
        <5>1. k \in 1 .. n - 1 /\ k < n
          BY <1>6, <1>7, <4>2
        <5> QED BY <2>6, <5>1
      <4> QED BY <4>1, <4>2
    <3>4. child \in DOMAIN files /\ files[child] \in Nat
      BY <1>2, <2>3, <2>9
    <3>5. changed[p] - files[child] = - total'[p]
      BY <1>1, <2>4, <3>2, <3>4
    <3> QED BY <1>4, <3>1, <3>2, <3>3, <3>4, <3>5
  <2> QED BY <2>8, <2>9
<1>8. CASE pc[p] = "walk" /\ RemoveDirectory(p)
  <2> DEFINE dir == Top(p).dir
  <2>1. /\ dir \in dirs /\ Children(dir) = {}
        /\ \A k \in 1 .. n - 1 :
             /\ tree[p][k].dir \in dirs /\ tree[p][k].dir # dir
             /\ Children(tree[p][k].dir) = tree[p][k].rest \cup {tree[p][k + 1].dir}
             /\ tree[p][k + 1].dir \notin tree[p][k].rest
    <3>1. Top(p).rest = {}
      BY <1>8 DEF RemoveDirectory
    <3> QED BY <1>6, <1>8, <3>1, StackParts DEF n
  <2>2. /\ pc' = [pc EXCEPT ![p] = IF n = 1 THEN "record" ELSE "walk"] /\ dirs' = dirs \ {dir}
        /\ tree' = [tree EXCEPT ![p] = Front(tree[p])] /\ deltas' = [deltas EXCEPT ![p] = << -total[p] >>]
        /\ UNCHANGED <<files, linked, changed, victim, total, call, at, old, calls, paid, met>>
    BY <1>8, <2>1 DEF RemoveDirectory, Goes, n
  <2>3. /\ pc'[p] = (IF n = 1 THEN "record" ELSE "walk")
        /\ tree'[p] = Front(tree[p]) /\ deltas'[p] = << -total[p] >>
    BY <2>2 DEF TypeInv, LocalsInv
  <2>4. changed[p] = - total[p]
    BY <1>8 DEF Account
  <2>5. CASE n = 1
    <3>1. Now(p)' = Now(p) /\ deltas'[p][at[p]] = - total[p]
      BY <1>1, <2>2, <2>3 DEF Now
    <3>2. changed[p] = paid[p] + deltas'[p][at[p]]
      BY <1>1, <2>4, <3>1
    <3>3. pc'[p] = "record" /\ UNCHANGED <<changed, at, paid>>
      BY <2>2, <2>3, <2>5
    <3> QED BY <1>1, <3>1, <3>2, <3>3 DEF Account
  <2>6. CASE n # 1
    <3> DEFINE s        == Front(tree[p])
               after(d) == {x \in (dirs' \cup DOMAIN files') \ {<<>>} : Front(x) = d}
    <3>1. Len(s) = n - 1 /\ \A k \in 1 .. n - 1 : s[k] = tree[p][k]
      BY <1>8, Stacks DEF n
    <3> HIDE DEF s
    <3>2. \A d \in Names : after(d) = Children(d) \ {dir}
      <4>1. dir \notin DOMAIN files
        BY <1>2, <2>1
      <4> QED BY <2>2, <4>1 DEF Children
    <3>3. tree[p][n].dir = dir /\ \A k \in 1 .. n - 1 : tree[p][k].dir \in Names
      BY <1>6, <1>8, TopParts DEF n
    <3>4. ASSUME NEW k \in 1 .. n - 1
          PROVE  LET next == IF k < n - 1 THEN {s[k + 1].dir} ELSE {}
                 IN /\ s[k].dir \in dirs' /\ after(s[k].dir) = s[k].rest \cup next
                    /\ s[k].rest \cap next = {}
      <4>1. s[k] = tree[p][k] /\ s[k].dir \in dirs'
        BY <2>1, <2>2, <3>1
      <4>2. after(tree[p][k].dir) = Children(tree[p][k].dir) \ {dir}
        BY <3>2, <3>3
      <4> HIDE DEF after
      <4>3. CASE k = n - 1
        <5>1. k + 1 = n
          BY <1>6, <1>8, <4>3
        <5> QED BY <2>1, <3>3, <4>1, <4>2, <4>3, <5>1
      <4>4. CASE k # n - 1
        <5>1. k + 1 \in 1 .. n - 1 /\ k < n - 1
          BY <1>6, <1>8, <4>4
        <5>2. tree[p][k + 1].dir # dir /\ s[k + 1] = tree[p][k + 1]
          BY <2>1, <3>1, <5>1
        <5>3. dir \notin Children(tree[p][k].dir)
          <6>1. Front(dir) = tree[p][n - 1].dir
            <7>1. n - 1 \in 1 .. n - 1 /\ n - 1 + 1 = n
              BY <1>6, <1>8, <2>6
            <7>2. dir \in Children(tree[p][n - 1].dir)
              BY <2>1, <3>3, <7>1
            <7> QED BY <7>2 DEF Children
          <6>2. Len(tree[p][k].dir) # Len(tree[p][n - 1].dir)
            <7>1. k \in 1 .. n /\ n - 1 \in 1 .. n /\ Len(Path(p)) \in Nat
              BY <1>6, <1>8, <2>6, NowParts, PathLen
            <7>2. /\ Len(tree[p][k].dir) = Len(Path(p)) + k - 1
                  /\ Len(tree[p][n - 1].dir) = Len(Path(p)) + (n - 1) - 1
              BY <1>8, <7>1, TopParts DEF n
            <7> QED BY <4>4, <7>1, <7>2
          <6> QED BY <6>1, <6>2 DEF Children
        <5> QED BY <2>1, <4>1, <4>2, <5>1, <5>2, <5>3
      <4> QED BY <4>3, <4>4
    <3>5. TreeKnown(p)'
      <4>1. tree'[p] = s /\ pc'[p] = "walk" /\ Len(s) = n - 1
        BY <2>3, <2>6, <3>1 DEF s
      <4> HIDE DEF s
      <4>2. \A d : after(d) = Children(d)'
        BY DEF Children
      <4> HIDE DEF after
      <4> QED BY <3>4, <4>1, <4>2 DEF TreeKnown
    <3> QED BY <1>4, <2>2, <2>3, <2>4, <2>6, <3>5
  <2> QED BY <2>5, <2>6
<1>9. CASE pc[p] = "unlink_child" /\ UnlinkChild(p)
  <2>1. victim[p] \in DOMAIN files /\ changed[p] - files[victim[p]] = - total[p]
    BY <1>9 DEF Account
  <2>2. /\ pc' = [pc EXCEPT ![p] = "walk"] /\ Erase(p, victim[p])
        /\ UNCHANGED <<walkVars, callVars, calls, paid, met>>
    BY <1>9, <2>1 DEF UnlinkChild, Goes
  <2>3. pc'[p] = "walk" /\ changed'[p] = changed[p] - files[victim[p]] /\ dirs' = dirs
    BY <2>2 DEF Erase, TypeInv, LocalsInv
  <2>4. /\ Top(p).dir \in dirs /\ Children(Top(p).dir) = Top(p).rest \cup {victim[p]}
        /\ victim[p] \notin Top(p).rest
        /\ \A k \in 1 .. n - 1 :
             /\ tree[p][k].dir \in dirs /\ tree[p][k].dir # Top(p).dir
             /\ Children(tree[p][k].dir) = tree[p][k].rest \cup {tree[p][k + 1].dir}
             /\ tree[p][k + 1].dir \notin tree[p][k].rest
    BY <1>6, <1>9, StackParts DEF n
  <2>5. \A d : Children(d)' = Children(d) \ {victim[p]}
    <3>1. victim[p] \notin dirs
      BY <1>2, <2>1
    <3> QED BY <2>2, <3>1 DEF Children, Erase, Restrict
  <2>6. Front(victim[p]) = Top(p).dir
    BY <2>4 DEF Children
  <2>7. \A k \in 1 .. n - 1 : Children(tree[p][k].dir)' = Children(tree[p][k].dir)
    <3>1. \A k \in 1 .. n - 1 : victim[p] \notin Children(tree[p][k].dir)
      BY <2>4, <2>6 DEF Children
    <3> QED BY <2>2, <2>5, <3>1
  <2>8. TreeKnown(p)'
    <3> SUFFICES ASSUME NEW k \in 1 .. n
                 PROVE  LET next == IF k < n THEN {tree[p][k + 1].dir} ELSE {}
                        IN /\ tree[p][k].dir \in dirs /\ Children(tree[p][k].dir)' = tree[p][k].rest \cup next
                           /\ tree[p][k].rest \cap next = {}
      BY <2>2, <2>3 DEF TreeKnown, n
    <3>1. CASE k = n
      BY <1>6, <1>9, <2>2, <2>4, <2>5, <3>1
    <3>2. CASE k # n
      <4>1. k \in 1 .. n - 1 /\ k < n
        BY <1>6, <1>9, <3>2
      <4> QED BY <2>4, <2>7, <4>1
    <3> QED BY <3>1, <3>2
  <2> QED BY <1>4, <2>1, <2>2, <2>3, <2>8
<1> QED BY <1>11, <1>5, <1>7, <1>8, <1>9 DEF Step

\* The variables of p stay.
Still(p) ==
  /\ pc'[p] = pc[p] /\ call'[p] = call[p] /\ at'[p] = at[p] /\ old'[p] = old[p]
  /\ deltas'[p] = deltas[p] /\ tree'[p] = tree[p] /\ victim'[p] = victim[p] /\ total'[p] = total[p]
  /\ changed'[p] = changed[p] /\ paid'[p] = paid[p]

LEMMA AccountStays ==
  ASSUME TypeInv, DiskInv', NEW p \in Procs, Account(p), Still(p), pc[p] = "write" => linked'[p],
         \A i \in 1 .. Len(call[p].entries) :
           call[p].entries[i].op \notin {"mkdir", "rmdir"} => KeptFile(PathOf(p, i)),
         Now(p).op = "rmdir" => \A x \in Names : IsPrefix(Path(p), x) => KeptFile(x) /\ KeptDir(x)
  PROVE  Account(p)'
<1> DEFINE n == Len(call[p].entries)
<1>1. /\ Now(p).op \in Ops /\ pc[p] \in PlacesFor[Now(p).op] /\ n \in Nat \ {0}
      /\ at[p] \in 1 .. n /\ PathOf(p, at[p]) = Path(p) /\ call[p].entries[at[p]] = Now(p)
      /\ Path(p) \in Names
  BY NowParts, EntryOps DEF PathOf, Path, Now
<1>2. /\ Now(p)' = Now(p) /\ Path(p)' = Path(p)
      /\ \A i : PathOf(p, i)' = PathOf(p, i) /\ Rest(p, i)' = Rest(p, i)
      /\ Rest(p, at[p])' = Rest(p, at[p]) /\ Rest(p, at[p] + 1)' = Rest(p, at[p] + 1)
  BY DEF Still, Now, Path, PathOf, Rest
<1>3. \A x : KeptFile(x) => SizeOf(x)' = SizeOf(x)
  BY DEF KeptFile, SizeOf
<1>4. Now(p).op \notin {"mkdir", "rmdir"} => KeptFile(Path(p))
  BY <1>1
<1>5. ASSUME Now(p).op \in Patching PROVE \A i \in 1 .. n : Right(p, i)' <=> Right(p, i)
  <2> SUFFICES ASSUME NEW i \in 1 .. n PROVE Right(p, i)' <=> Right(p, i)
    OBVIOUS
  <2>1. call[p].entries[i].op \notin {"mkdir", "rmdir"}
    BY <1>5, EntryOps DEF Patching
  <2>2. SizeOf(PathOf(p, i))' = SizeOf(PathOf(p, i))
    <3>1. KeptFile(PathOf(p, i))
      BY <2>1
    <3>2. PathOf(p, i)' = PathOf(p, i)
      BY <1>2
    <3> QED BY <3>1, <3>2 DEF KeptFile, SizeOf
  <2> QED BY <2>2 DEF Right, Still
<1>6. /\ \A i \in Rest(p, at[p]) : i \in 1 .. n
      /\ \A i \in Rest(p, at[p] + 1) : i \in 1 .. n
      /\ \A i \in 1 .. at[p] - 1 : i \in 1 .. n
  BY <1>1 DEF Rest
<1>7. ASSUME pc[p] \in {"walk", "unlink_child"}
      PROVE  /\ TreeKnown(p)'
             /\ pc[p] = "unlink_child" /\ victim[p] \in DOMAIN files =>
                  victim[p] \in DOMAIN files' /\ files'[victim[p]] = files[victim[p]]
  <2>1. /\ Now(p).op = "rmdir" /\ TreeKnown(p)
        /\ \A k \in 1 .. Len(tree[p]) : tree[p][k].dir \in Names /\ IsPrefix(Path(p), tree[p][k].dir)
        /\ Top(p).dir \in Names /\ IsPrefix(Path(p), Top(p).dir)
    BY <1>7, TopParts DEF Account
  <2>2. /\ \A x \in dirs \cup DOMAIN files : x \in Names
        /\ \A x \in (dirs' \cup DOMAIN files') : x \in Names
    BY DirectoryParts, FileParts DEF TypeInv, DiskInv
  <2>3. ASSUME NEW x \in Names, x # <<>>, NEW d \in Names, IsPrefix(Path(p), d), Front(x) = d
        PROVE  KeptFile(x) /\ KeptDir(x)
    BY <1>1, <2>1, <2>3, FrontDef, PrefixOrder
  <2>4. ASSUME NEW d \in Names, IsPrefix(Path(p), d)
        PROVE  (d \in dirs => d \in dirs') /\ Children(d)' = Children(d)
    <3>1. d \in dirs => d \in dirs'
      BY <2>1, <2>4 DEF KeptDir
    <3>2. ASSUME NEW x \in Names PROVE x \in Children(d)' <=> x \in Children(d)
      BY <2>3, <2>4 DEF Children, KeptFile, KeptDir
    <3>3. \A x : (x \in Children(d)' => x \in Names) /\ (x \in Children(d) => x \in Names)
      BY <2>2 DEF Children
    <3> QED BY <3>1, <3>2, <3>3
  <2>5. TreeKnown(p)'
    <3> SUFFICES ASSUME NEW k \in 1 .. Len(tree[p])
                 PROVE  LET next == IF k < Len(tree[p]) THEN {tree[p][k + 1].dir}
                                    ELSE IF pc[p] = "unlink_child" THEN {victim[p]} ELSE {}
                        IN /\ tree[p][k].dir \in dirs'
                           /\ {x \in (dirs' \cup DOMAIN files') \ {<<>>} : Front(x) = tree[p][k].dir}
                                = tree[p][k].rest \cup next
                           /\ tree[p][k].rest \cap next = {}
      BY DEF TreeKnown, Children, Still
    <3>1. tree[p][k].dir \in Names /\ IsPrefix(Path(p), tree[p][k].dir)
      BY <2>1
    <3>2. \A d \in Names : IsPrefix(Path(p), d) =>
            {x \in (dirs' \cup DOMAIN files') \ {<<>>} : Front(x) = d} = Children(d)
      BY <2>4 DEF Children
    <3>3. \A d \in Names : IsPrefix(Path(p), d) => (d \in dirs => d \in dirs')
      BY <2>4
    <3>4. {x \in (dirs' \cup DOMAIN files') \ {<<>>} : Front(x) = tree[p][k].dir} = Children(tree[p][k].dir)
      BY <3>1, <3>2
    <3> QED BY <2>1, <3>1, <3>3, <3>4 DEF TreeKnown
  <2>6. pc[p] = "unlink_child" => KeptFile(victim[p])
    <3>1. pc[p] = "unlink_child" =>
            victim[p] \in Names /\ victim[p] # <<>> /\ Front(victim[p]) = Top(p).dir
      BY DEF TypeInv, LocalsInv, Walks
    <3> QED BY <2>1, <2>3, <3>1
  <2> QED BY <2>5, <2>6 DEF KeptFile
<1>8. /\ pc[p] = "write" => Path(p) \in DOMAIN files /\ Now(p).op \notin {"mkdir", "rmdir"}
      /\ pc[p] = "size_after" => Now(p).op \notin {"mkdir", "rmdir"}
      /\ Now(p).op \in Rewrites => Now(p).op \notin {"mkdir", "rmdir"}
      /\ pc[p] \in {"exists", "size_before"} => Now(p).op \in Patching \/ at[p] - 1 = 0
  <2>1. Now(p).op \notin Patching => at[p] - 1 = 0
    BY <1>1, EntryOps
  <2>2. pc[p] = "write" => Path(p) \in DOMAIN files
    BY DEF TypeInv, Linked, Account
  <2> QED BY <1>1, <2>1, <2>2 DEF PlacesFor, Ops, Patching, Rewrites
<1>9. /\ \A i \in Rest(p, at[p]) : Now(p).op \in Patching => (Right(p, i)' <=> Right(p, i))
      /\ \A i \in Rest(p, at[p] + 1) : Now(p).op \in Patching => (Right(p, i)' <=> Right(p, i))
      /\ pc[p] \in {"exists", "size_before"} => \A i \in 1 .. at[p] - 1 : Right(p, i)' <=> Right(p, i)
  BY <1>5, <1>6, <1>8
<1>10. Now(p).op \notin {"mkdir", "rmdir"} =>
         /\ SizeOf(Path(p))' = SizeOf(Path(p))
         /\ Path(p) \in DOMAIN files => Path(p) \in DOMAIN files' /\ files'[Path(p)] = files[Path(p)]
  BY <1>2, <1>4 DEF KeptFile, SizeOf
<1>11. UNCHANGED <<pc[p], at[p], old[p], deltas[p], victim[p], total[p], changed[p], paid[p]>>
  BY DEF Still
<1> HIDE DEF n
<1>12. /\ pc[p] \in {"exists", "size_before", "size_after", "is_dir", "list", "walk", "unlink_child"}
            \/ (pc[p] # "idle" /\ Now(p).op \in Rewrites) => paid[p] = 0
       /\ pc[p] \in {"idle", "exists", "size_before", "quota", "mkdir", "open", "unlink", "is_dir", "list"} =>
            paid[p] = changed[p]
       /\ pc[p] = "record" => changed[p] = paid[p] + deltas[p][at[p]]
       /\ pc[p] \in {"is_dir", "list", "walk"} => changed[p] = - total[p]
  BY DEF Account
<1>13. pc[p] \in {"quota", "open"} /\ Now(p).op \in Rewrites => old[p] = SizeOf(Path(p))'
  BY <1>8, <1>10 DEF Account
<1>14. /\ pc[p] \in {"exists", "size_before"} => \A i \in 1 .. at[p] - 1 : Right(p, i)'
       /\ pc[p] \in {"quota", "mkdir", "open", "unlink"} /\ Now(p).op \in Patching =>
            \A i \in Rest(p, at[p]) : Right(p, i)'
       /\ pc[p] \in {"write", "record"} /\ Now(p).op \in Patching =>
            \A i \in Rest(p, at[p] + 1) : Right(p, i)'
  BY <1>9 DEF Account
<1>15. pc[p] = "write" =>
         /\ linked'[p] /\ (Now(p).op # "append" => files'[Path(p)] = 0)
         /\ Now(p).op \in Rewrites => changed[p] = files'[Path(p)] - old[p]
         /\ Now(p).op \in Patching => changed[p] + Now(p).size = paid[p] + deltas[p][at[p]]
  BY <1>8, <1>10 DEF Account
<1>16. pc[p] = "size_after" => Path(p) \in DOMAIN files' /\ changed[p] = files'[Path(p)] - old[p]
  BY <1>8, <1>10 DEF Account
<1>17. pc[p] = "unlink_child" =>
         victim[p] \in DOMAIN files' /\ changed[p] - files'[victim[p]] = - total[p]
  BY <1>7 DEF Account
<1> QED BY <1>2, <1>7, <1>11, <1>12, <1>13, <1>14, <1>15, <1>16, <1>17 DEF Account

LEMMA BeginParts ==
  ASSUME TypeInv, NEW p \in Procs, NEW c \in Calls, Begin(p, c)
  PROVE  /\ pc'[p] \in {"exists", "is_dir"} \/ (pc'[p] = "mkdir" /\ Now(p)'.op \notin Patching)
         /\ changed'[p] = 0 /\ paid'[p] = 0 /\ - total'[p] = 0
         /\ \A i \in 1 .. at'[p] - 1 : FALSE
<1>1. /\ pc'[p] = FirstStep[c.tool] /\ call'[p] = c /\ at'[p] = 1
      /\ total'[p] = 0 /\ changed'[p] = 0 /\ paid'[p] = 0
  BY DEF Begin, Goes, TypeInv, LocalsInv
<1>2. c.entries[1].op \in OpsFor[c.tool] /\ c.tool \in Tools
  <2>1. 1 \in 1 .. Len(c.entries)
    BY CallParts
  <2> QED BY <2>1, CallParts
<1>3. Now(p)'.op = c.entries[1].op
  BY <1>1 DEF Now
<1>4. pc'[p] \in {"mkdir", "exists", "is_dir"} /\ (pc'[p] = "mkdir" => Now(p)'.op \notin Patching)
  BY <1>1, <1>2, <1>3 DEF FirstStep, OpsFor, Tools, Patching
<1>5. at'[p] - 1 = 0 /\ \A i \in 1 .. 0 : FALSE
  BY <1>1
<1>6. - total'[p] = 0
  <2>1. \A x \in Int : x >= 0 /\ x <= 0 => -x = 0
    OBVIOUS
  <2>2. total'[p] \in Int /\ total'[p] >= 0 /\ total'[p] <= 0
    BY <1>1
  <2> QED BY <2>1, <2>2, Zenon
<1> QED BY <1>1, <1>4, <1>5, <1>6

LEMMA BeginAccount ==
  ASSUME TypeInv, NEW p \in Procs, NEW c \in Calls, Begin(p, c)
  PROVE  Account(p)'
BY BeginParts DEF Account

LEMMA LonersKept ==
  ASSUME TypeInv, MeetInv, LonersInv, [Next]_vars
  PROVE  LonersInv'
<1>1. DiskInv'
  BY TypesKept DEF TypeInv
<1>2. ASSUME NEW p \in Procs, Account(p), Still(p), UNCHANGED <<dirs, files, linked>>
      PROVE  Account(p)'
  <2>1. \A x : KeptFile(x) /\ KeptDir(x)
    BY <1>2 DEF KeptFile, KeptDir
  <2>2. pc[p] = "write" => linked'[p]
    BY <1>2 DEF Account
  <2> QED BY <1>1, <1>2, <2>1, <2>2, AccountStays
<1>3. CASE UNCHANGED vars
  BY <1>2, <1>3 DEF LonersInv, Still, vars, treeVars, walkVars, callVars
<1>4. ASSUME NEW q \in Procs, Step(q) PROVE LonersInv'
  <2> SUFFICES ASSUME NEW p \in Procs, met'[p] = {} PROVE Account(p)'
    BY DEF LonersInv
  <2>1. Account(p) /\ met[p] = {} /\ pc[q] # "idle"
    BY <1>4, StepKeepsBusy DEF LonersInv
  <2>2. CASE p = q
    BY <1>4, <2>1, <2>2, CallAccount, WalkAccount
  <2>3. CASE p # q
    <3>1. Still(p)
      BY <1>4, <2>3, OthersStay DEF Others, Still
    <3>2. CASE pc[p] = "idle"
      BY <2>1, <3>1, <3>2 DEF Account, Still
    <3>3. CASE pc[p] # "idle"
      <4>1. ~Meet(call[p], call[q])
        <5>1. OpsOf(call[q]) # {}
          BY CallParts DEF TypeInv, LocalsInv
        <5> QED BY <2>1, <2>3, <3>3, <5>1 DEF MeetInv
      <4>2. Effects(q)
        BY <1>4, StepEffects
      <4>3. pc[p] = "write" => linked'[p]
        <5>1. pc[p] = "write" => /\ linked[p] /\ Path(p) \in DOMAIN files
                                 /\ Now(p).op \notin {"mkdir", "rmdir"}
          BY <2>1, EntryOps DEF Account, TypeInv, Linked, PlacesFor
        <5>2. at[p] \in 1 .. Len(call[p].entries) /\ PathOf(p, at[p]) = Path(p)
              /\ call[p].entries[at[p]] = Now(p)
          BY NowParts DEF PathOf, Path, Now
        <5>3. pc[p] = "write" => KeptFile(Path(p))
          BY <4>1, <4>2, <5>1, <5>2, Undisturbed
        <5> QED BY <2>3, <4>2, <5>1, <5>3 DEF Effects
      <4> QED BY <1>1, <2>1, <3>1, <4>1, <4>2, <4>3, Undisturbed, AccountStays
    <3> QED BY <3>2, <3>3
  <2> QED BY <2>2, <2>3
<1>5. ASSUME NEW q \in Procs, NEW c \in Calls, Begin(q, c) PROVE LonersInv'
  <2> SUFFICES ASSUME NEW p \in Procs, met'[p] = {} PROVE Account(p)'
    BY DEF LonersInv
  <2>1. CASE p = q
    BY <1>5, <2>1, BeginAccount
  <2>2. CASE p # q
    <3>1. Still(p) /\ UNCHANGED <<dirs, files, linked>>
      BY <1>5, <2>2, OthersStay, BeginsQuietly DEF Others, Still
    <3>2. met[p] = {}
      BY <1>5, <2>2 DEF Begin
    <3> QED BY <1>2, <3>1, <3>2 DEF LonersInv
  <2> QED BY <2>1, <2>2
<1> QED BY <1>3, <1>4, <1>5 DEF Next

LEMMA LonersStart == Init => LonersInv
BY DEF Init, LonersInv, Account

\* A call of write_file, apply_patch, delete_file, create_directory or remove_directory that
\* no other call has met has, when it is over, recorded just the bytes it changed, also when
\* it raised half way (fs_operations.py 276-444): any number of calls run meanwhile on other
\* paths, in any order of their system calls.
THEOREM LonersAccounts == Spec => []LonersAreExact
<1>1. LonersInv => LonersAreExact
  BY DEF LonersInv, LonersAreExact, Account
<1>2. Init => TypeInv /\ MeetInv /\ LonersInv
  BY InitTypes, MeetStart, LonersStart
<1>3. TypeInv /\ MeetInv /\ LonersInv /\ [Next]_vars => (TypeInv /\ MeetInv /\ LonersInv)'
  BY TypesKept, MeetKept, LonersKept
<1> QED BY <1>1, <1>2, <1>3, PTL DEF Spec

-----------------------------------------------------------------------------
(* Calls that delete give back what is there at most once.                 *)

LEMMA DeletingOps ==
  ASSUME TypeInv, NEW p \in Procs, OpsOf(call[p]) \subseteq Deletes
  PROVE  /\ \A i \in 1 .. Len(call[p].entries) : call[p].entries[i].op \in Deletes
         /\ Now(p).op \in Deletes /\ Now(p).op \notin Rewrites
         /\ pc[p] \in PlacesFor[Now(p).op]
<1>1. \A i \in 1 .. Len(call[p].entries) : call[p].entries[i].op \in Deletes
  BY CallParts DEF TypeInv, LocalsInv
<1>2. Now(p).op \in Deletes
  BY <1>1, NowParts DEF Now
<1> QED BY <1>1, <1>2, EntryOps DEF Deletes, Rewrites

LEMMA CreditStays ==
  ASSUME TypeInv, NEW p \in Procs, Credit(p), Still(p),
         \A i \in 1 .. Len(call[p].entries) : PathOf(p, i) \in DOMAIN files' =>
           PathOf(p, i) \in DOMAIN files /\ files'[PathOf(p, i)] = files[PathOf(p, i)],
         pc[p] = "unlink_child" /\ victim[p] \in DOMAIN files' =>
           victim[p] \in DOMAIN files /\ files'[victim[p]] = files[victim[p]]
  PROVE  Credit(p)'
<1>1. ASSUME NEW i \in 1 .. Len(call[p].entries), RightIfThere(p, i) PROVE RightIfThere(p, i)'
  <2>1. PathOf(p, i)' = PathOf(p, i) /\ deltas'[p] = deltas[p]
    BY DEF PathOf, Still
  <2> QED BY <1>1, <2>1 DEF RightIfThere
<1>2. /\ \A i \in Rest(p, at[p]) : i \in 1 .. Len(call[p].entries)
      /\ \A i \in Rest(p, at[p] + 1) : i \in 1 .. Len(call[p].entries)
      /\ \A i \in 1 .. at[p] - 1 : i \in 1 .. Len(call[p].entries)
      /\ Rest(p, at[p])' = Rest(p, at[p]) /\ Rest(p, at[p] + 1)' = Rest(p, at[p] + 1)
  BY NowParts DEF Rest, Still
<1>3. /\ pc[p] \in {"exists", "size_before"} => \A i \in 1 .. at[p] - 1 : RightIfThere(p, i)'
      /\ pc[p] \in {"quota", "unlink"} => \A i \in Rest(p, at[p]) : RightIfThere(p, i)'
      /\ pc[p] = "record" => \A i \in Rest(p, at[p] + 1) : RightIfThere(p, i)'
  BY <1>1, <1>2 DEF Credit
<1>4. pc[p] = "unlink_child" /\ victim[p] \in DOMAIN files' => changed[p] - files'[victim[p]] = - total[p]
  BY DEF Credit
<1>5. UNCHANGED <<pc[p], at[p], deltas[p], victim[p], total[p], changed[p], paid[p]>>
  BY DEF Still
<1> QED BY <1>2, <1>3, <1>4, <1>5 DEF Credit

LEMMA RaiseCredit ==
  ASSUME TypeInv, NEW p \in Procs, NEW from, Raises(p, from), Credit(p), pc[p] # "record", pc[p] # "idle",
         OpsOf(call[p]) \subseteq Deletes
  PROVE  Credit(p)'
<1>1. pc'[p] = "idle" /\ UNCHANGED <<changed, paid>> /\ changed[p] \in Int
  BY DEF Raises, Goes, treeVars, TypeInv, LocalsInv
<1>2. pc[p] \in {"exists", "size_before", "quota", "mkdir", "unlink", "is_dir", "list", "walk", "unlink_child"}
  BY DeletingOps DEF PlacesFor, Deletes
<1>3. paid[p] >= changed[p]
  BY <1>1, <1>2 DEF Credit
<1> QED BY <1>1, <1>3 DEF Credit

LEMMA CallCredit ==
  ASSUME TypeInv, NEW p \in Procs, OpsOf(call[p]) \subseteq Deletes, Credit(p), Step(p),
         pc[p] \notin {"is_dir", "list", "walk", "unlink_child"}
  PROVE  Credit(p)'
<1> USE DEF treeVars, walkVars, callVars
<1> DEFINE n == Len(call[p].entries)
<1>1. /\ Now(p).op \in Deletes /\ Now(p).op \notin Rewrites /\ pc[p] \in PlacesFor[Now(p).op]
      /\ at[p] \in 1 .. n /\ n \in Nat \ {0} /\ PathOf(p, at[p]) = Path(p)
      /\ Now(p).op = "delete" => Now(p).size = 0
      /\ Now(p).op \notin Patching => at[p] = 1 /\ n = 1
  BY NowParts, EntryOps, DeletingOps DEF PathOf, Path, Now
<1>2. /\ changed[p] \in Int /\ paid[p] \in Int
      /\ \A x \in DOMAIN files : files[x] \in Nat
  BY DEF TypeInv, LocalsInv, DiskInv
<1>3. \A x \in DOMAIN files' : x \in DOMAIN files /\ files'[x] = files[x]
  BY <1>1, StepEffects DEF Effects
<1>4. ASSUME UNCHANGED <<call, deltas>>, NEW i, RightIfThere(p, i) PROVE RightIfThere(p, i)'
  BY <1>3, <1>4 DEF RightIfThere, PathOf
<1>5. ASSUME UNCHANGED <<call, at>>
      PROVE  Rest(p, at[p])' = Rest(p, at[p]) /\ Rest(p, at[p] + 1)' = Rest(p, at[p] + 1)
  BY <1>5 DEF Rest
<1>6. at[p] \in Rest(p, at[p]) /\ \A i \in Rest(p, at[p] + 1) : i \in Rest(p, at[p])
  BY <1>1 DEF Rest
<1> HIDE DEF n
<1>7. ASSUME NEW from, Raises(p, from), pc[p] # "record" PROVE Credit(p)'
  <2>1. pc[p] # "idle"
    BY DEF Step
  <2> QED BY <1>7, <2>1, RaiseCredit
<1>8. CASE pc[p] = "exists" /\ Exists(p)
  <2>1. CASE Path(p) \notin DOMAIN files
    <3>1. Now(p).op = "delete"
      BY <1>1, <1>8 DEF PlacesFor, Deletes
    <3> QED BY <1>7, <1>8, <2>1, <3>1 DEF Exists, Rewrites
  <2>2. CASE Path(p) \in DOMAIN files
    <3>1. /\ pc'[p] = "size_before"
          /\ UNCHANGED <<treeVars, walkVars, callVars, calls, paid, met>>
      BY <1>1, <1>8, <2>2 DEF Exists, Goes, TypeInv, LocalsInv, Deletes
    <3> QED BY <1>4, <1>8, <3>1 DEF Credit
  <2> QED BY <2>1, <2>2
<1>9. CASE pc[p] = "size_before" /\ SizeBefore(p)
  <2>1. CASE Path(p) \notin DOMAIN files
    <3>1. Now(p).op \notin {"update", "add"}
      BY <1>1 DEF Deletes
    <3> QED BY <1>7, <1>9, <2>1, <3>1 DEF SizeBefore
  <2>2. CASE Path(p) \in DOMAIN files
    <3>1. /\ Prepared(p, "size_before", Now(p).size - files[Path(p)])
          /\ UNCHANGED <<treeVars, walkVars, call, calls, paid, met>>
      BY <1>1, <1>9, <2>2 DEF SizeBefore
    <3>2. Now(p).op = "delete" /\ Now(p).op \in Patching
      BY <1>1, <1>9 DEF PlacesFor, Deletes, Patching
    <3>3. Now(p).size - files[Path(p)] = - files[Path(p)] /\ - files[Path(p)] \in Int
      BY <1>1, <1>2, <2>2, <3>2
    <3>4. /\ deltas[p] \in Seq(Int) /\ Len(deltas[p]) = at[p] - 1
      BY <1>9, <3>2 DEF TypeInv, LocalsInv, Place
    <3>5. deltas'[p] = Append(deltas[p], - files[Path(p)])
      BY <3>1, <3>3 DEF Prepared, TypeInv, LocalsInv
    <3>6. /\ \A i \in 1 .. at[p] - 1 : deltas'[p][i] = deltas[p][i]
          /\ deltas'[p][at[p]] = - files[Path(p)]
      <4>1. /\ \A i \in 1 .. Len(deltas[p]) : Append(deltas[p], - files[Path(p)])[i] = deltas[p][i]
            /\ Append(deltas[p], - files[Path(p)])[Len(deltas[p]) + 1] = - files[Path(p)]
        BY <3>3, <3>4, AppendProperties
      <4>2. Len(deltas[p]) + 1 = at[p]
        BY <1>1, <3>4
      <4> QED BY <3>4, <3>5, <4>1, <4>2
    <3>7. \/ at[p] < n /\ at'[p] = at[p] + 1 /\ pc'[p] = "exists"
          \/ at[p] = n /\ at'[p] = 1 /\ pc'[p] \in {"unlink", "quota"}
      <4>1. at \in [Procs -> Nat] /\ pc \in [Procs -> PCs]
        BY DEF TypeInv, LocalsInv
      <4>2. CASE at[p] < n
        BY <3>1, <4>1, <4>2 DEF Prepared, Goes, n
      <4>3. CASE ~(at[p] < n)
        BY <1>1, <3>1, <4>1, <4>3 DEF Prepared, Goes, n
      <4> QED BY <4>2, <4>3
    <3>8. ASSUME NEW i \in 1 .. at[p] PROVE RightIfThere(p, i)'
      <4>1. PathOf(p, i)' = PathOf(p, i)
        BY <3>1 DEF PathOf
      <4>2. CASE i = at[p]
        BY <1>1, <1>3, <3>6, <4>1, <4>2 DEF RightIfThere
      <4>3. CASE i # at[p]
        <5>1. i \in 1 .. at[p] - 1
          BY <1>1, <4>3
        <5>2. RightIfThere(p, i) /\ deltas'[p][i] = deltas[p][i]
          BY <1>9, <3>6, <5>1 DEF Credit
        <5> QED BY <1>3, <4>1, <5>2 DEF RightIfThere
      <4> QED BY <4>2, <4>3
    <3>9. paid[p] = changed[p] /\ paid[p] = 0
      BY <1>9 DEF Credit
    <3>10. CASE pc'[p] = "exists"
      <4>1. \A i \in 1 .. at'[p] - 1 : RightIfThere(p, i)'
        BY <1>1, <3>7, <3>8, <3>10
      <4> QED BY <3>1, <3>9, <3>10, <4>1 DEF Credit
    <3>11. CASE pc'[p] \in {"unlink", "quota"}
      <4>1. \A i \in Rest(p, at[p])' : RightIfThere(p, i)'
        BY <1>1, <3>1, <3>7, <3>8, <3>11 DEF Rest, n
      <4> QED BY <3>1, <3>9, <3>11, <4>1 DEF Credit
    <3> QED BY <3>7, <3>10, <3>11
  <2> QED BY <2>1, <2>2
<1>10. CASE pc[p] = "quota" /\ Quota(p)
  <2>1. CASE Raises(p, "quota")
    BY <1>7, <1>10, <2>1
  <2>2. CASE ~Raises(p, "quota")
    <3>1. Now(p).op = "delete"
      BY <1>1, <1>10 DEF PlacesFor, Deletes
    <3>2. /\ pc'[p] = "unlink" /\ UNCHANGED <<treeVars, walkVars, callVars, calls, paid, met>>
      BY <1>10, <2>2, <3>1 DEF Quota, Goes, Rewrites, TypeInv, LocalsInv
    <3> QED BY <1>4, <1>5, <1>10, <3>2 DEF Credit
  <2> QED BY <2>1, <2>2
<1>11. CASE pc[p] = "mkdir" /\ MakeDirectories(p)
  <2>1. Now(p).op = "mkdir"
    BY <1>1, <1>11 DEF PlacesFor, Deletes
  <2>2. pc'[p] = "idle" /\ UNCHANGED <<changed, paid>>
    BY <1>11, <2>1 DEF MakeDirectories, Goes, Rewrites, TypeInv, LocalsInv
  <2> QED BY <1>2, <1>11, <2>2 DEF Credit
<1>12. CASE pc[p] = "unlink" /\ Unlink(p)
  <2>1. CASE Path(p) \notin DOMAIN files
    BY <1>7, <1>12, <2>1 DEF Unlink
  <2>2. CASE Path(p) \in DOMAIN files
    <3>1. /\ pc'[p] = "record" /\ changed'[p] = changed[p] - files[Path(p)]
          /\ UNCHANGED <<walkVars, callVars, calls, paid, met>>
      BY <1>12, <2>2 DEF Unlink, Erase, Goes, TypeInv, LocalsInv
    <3>2. changed[p] = paid[p] /\ deltas[p][at[p]] = - files[Path(p)]
      BY <1>1, <1>6, <1>12, <2>2 DEF Credit, RightIfThere
    <3>3. changed'[p] = paid[p] + deltas[p][at[p]]
      BY <1>2, <2>2, <3>1, <3>2
    <3>4. \A i \in Rest(p, at[p] + 1) : RightIfThere(p, i)'
      BY <1>4, <1>6, <1>12, <3>1 DEF Credit
    <3> QED BY <1>5, <3>1, <3>3, <3>4 DEF Credit
  <2> QED BY <2>1, <2>2
<1>13. CASE pc[p] = "record" /\ Record(p)
  <2>1. changed[p] = paid[p] + deltas[p][at[p]]
    BY <1>13 DEF Credit
  <2>2. paid'[p] = changed'[p] /\ UNCHANGED <<treeVars, walkVars, call, old, deltas, calls, met>>
    BY <1>13, <2>1 DEF Record, TypeInv, LocalsInv
  <2>3. CASE at[p] < n
    <3>1. at'[p] = at[p] + 1 /\ pc'[p] = "quota"
      BY <1>13, <2>3 DEF Record, Goes, n, TypeInv, LocalsInv
    <3>2. \A i \in Rest(p, at[p] + 1) : RightIfThere(p, i)'
      BY <1>4, <1>13, <2>2 DEF Credit
    <3>3. Rest(p, at[p])' = Rest(p, at[p] + 1)
      BY <2>2, <3>1 DEF Rest
    <3> QED BY <2>2, <3>1, <3>2, <3>3 DEF Credit
  <2>4. CASE ~(at[p] < n)
    <3>1. pc'[p] = "idle"
      BY <1>13, <2>4 DEF Record, Goes, n, TypeInv, LocalsInv
    <3> QED BY <1>2, <2>2, <3>1 DEF Credit
  <2> QED BY <2>3, <2>4
<1>14. pc[p] \notin {"open", "write", "size_after"}
  BY <1>1 DEF PlacesFor, Deletes
<1> QED BY <1>8, <1>9, <1>10, <1>11, <1>12, <1>13, <1>14 DEF Step

LEMMA WalkCredit ==
  ASSUME TypeInv, NEW p \in Procs, OpsOf(call[p]) \subseteq Deletes, Credit(p), Step(p),
         pc[p] \in {"is_dir", "list", "walk", "unlink_child"}
  PROVE  Credit(p)'
<1> USE DEF treeVars, walkVars, callVars
<1>1. /\ at[p] = 1 /\ Len(call[p].entries) = 1
      /\ changed[p] \in Int /\ paid[p] = 0 /\ changed[p] <= 0 /\ total[p] \in Nat
      /\ \A x \in DOMAIN files : files[x] \in Nat
  <2>1. Now(p).op = "rmdir"
    BY EntryOps DEF PlacesFor, Ops
  <2>2. at[p] = 1 /\ Len(call[p].entries) = 1
    <3>1. 1 \in 1 .. Len(call[p].entries) /\ Now(p).op \notin Patching
      BY <2>1, NowParts DEF Patching
    <3> QED BY <3>1, EntryOps
  <2>3. changed[p] \in Int /\ total[p] \in Nat /\ \A x \in DOMAIN files : files[x] \in Nat
    BY DEF TypeInv, LocalsInv, DiskInv
  <2> QED BY <2>2, <2>3 DEF Credit
<1>2. ASSUME NEW from, Raises(p, from) PROVE Credit(p)'
  BY <1>2, RaiseCredit
<1>3. CASE (pc[p] = "is_dir" /\ IsDirectory(p)) \/ (pc[p] = "list" /\ EnterDirectory(p))
  <2>1. CASE \E from : Raises(p, from)
    BY <1>2, <2>1
  <2>2. CASE ~\E from : Raises(p, from)
    <3>1. pc'[p] \in {"list", "walk"} /\ UNCHANGED <<treeVars, victim, total, callVars, calls, paid, met>>
      BY <1>3, <2>2 DEF IsDirectory, EnterDirectory, Goes, TypeInv, LocalsInv
    <3> QED BY <1>1, <1>3, <3>1 DEF Credit
  <2> QED BY <2>1, <2>2
<1>4. CASE pc[p] = "walk" /\ Visit(p)
  <2>1. PICK child \in Top(p).rest :
          CASE child \in dirs ->
                 /\ Goes(p, "walk", "walk")
                 /\ tree' = [tree EXCEPT ![p] = Append(Taken(p, child), Frame(child))]
                 /\ UNCHANGED <<treeVars, victim, total, callVars, calls, paid, met>>
            [] child \in DOMAIN files ->
                 /\ Goes(p, "walk", "unlink_child")
                 /\ tree' = [tree EXCEPT ![p] = Taken(p, child)]
                 /\ victim' = [victim EXCEPT ![p] = child]
                 /\ total' = [total EXCEPT ![p] = @ + files[child]]
                 /\ UNCHANGED <<treeVars, callVars, calls, paid, met>>
            [] OTHER -> Raises(p, "walk")
    BY <1>4 DEF Visit, Taken
  <2>2. changed[p] = - total[p]
    BY <1>4 DEF Credit
  <2>3. CASE child \in dirs
    <3>1. child \notin DOMAIN files
      BY <2>3, DirectoryParts DEF TypeInv, DiskInv
    <3>2. Goes(p, "walk", "walk") /\ UNCHANGED <<treeVars, victim, total, callVars, calls, paid, met>>
      BY <2>1, <2>3, <3>1
    <3>3. pc'[p] = "walk"
      BY <3>2 DEF Goes, TypeInv, LocalsInv
    <3> QED BY <1>1, <2>2, <3>2, <3>3 DEF Credit
  <2>4. CASE child \notin dirs /\ child \in DOMAIN files
    <3>1. /\ Goes(p, "walk", "unlink_child") /\ victim' = [victim EXCEPT ![p] = child]
          /\ total' = [total EXCEPT ![p] = @ + files[child]]
          /\ UNCHANGED <<treeVars, callVars, calls, paid, met>>
      BY <2>1, <2>4
    <3>2. pc'[p] = "unlink_child" /\ victim'[p] = child /\ total'[p] = total[p] + files[child]
      BY <3>1 DEF Goes, TypeInv, LocalsInv
    <3>3. changed[p] - files[child] = - total'[p]
      BY <1>1, <2>2, <2>4, <3>2
    <3> QED BY <1>1, <3>1, <3>2, <3>3 DEF Credit
  <2>5. CASE child \notin dirs /\ child \notin DOMAIN files
    BY <1>2, <2>1, <2>5
  <2> QED BY <2>3, <2>4, <2>5
<1>5. CASE pc[p] = "walk" /\ RemoveDirectory(p)
  <2>1. CASE Top(p).dir \notin dirs \/ Children(Top(p).dir) # {}
    BY <1>2, <1>5, <2>1 DEF RemoveDirectory
  <2>2. CASE Top(p).dir \in dirs /\ Children(Top(p).dir) = {}
    <3>1. /\ pc'[p] = (IF Len(tree[p]) = 1 THEN "record" ELSE "walk") /\ deltas'[p] = << -total[p] >>
          /\ UNCHANGED <<files, linked, changed, victim, total, call, at, old, calls, paid, met>>
      BY <1>5, <2>2 DEF RemoveDirectory, Goes, TypeInv, LocalsInv
    <3>2. changed[p] = - total[p]
      BY <1>5 DEF Credit
    <3>3. deltas'[p][at[p]] = - total[p] /\ - total[p] = 0 + (- total[p])
      BY <1>1, <3>1
    <3>4. Rest(p, at[p] + 1)' = {}
      <4>1. at'[p] + 1 = 2 /\ Len(call'[p].entries) = 1 /\ 2 .. 1 = {}
        BY <1>1, <3>1
      <4> QED BY <4>1 DEF Rest
    <3>5. CASE Len(tree[p]) = 1
      BY <1>1, <3>1, <3>2, <3>3, <3>4, <3>5 DEF Credit
    <3>6. CASE Len(tree[p]) # 1
      BY <1>1, <3>1, <3>2, <3>6 DEF Credit
    <3> QED BY <3>5, <3>6
  <2> QED BY <2>1, <2>2
<1>6. CASE pc[p] = "unlink_child" /\ UnlinkChild(p)
  <2>1. CASE victim[p] \notin DOMAIN files
    BY <1>2, <1>6, <2>1 DEF UnlinkChild
  <2>2. CASE victim[p] \in DOMAIN files
    <3>1. /\ pc'[p] = "walk" /\ changed'[p] = changed[p] - files[victim[p]]
          /\ UNCHANGED <<walkVars, callVars, calls, paid, met>>
      BY <1>6, <2>2 DEF UnlinkChild, Goes, Erase, TypeInv, LocalsInv
    <3>2. changed'[p] = - total[p]
      BY <1>6, <2>2, <3>1 DEF Credit
    <3>3. changed'[p] <= 0
      BY <1>1, <2>2, <3>1
    <3> QED BY <1>1, <3>1, <3>2, <3>3 DEF Credit
  <2> QED BY <2>1, <2>2
<1> QED BY <1>3, <1>4, <1>5, <1>6 DEF Step

LEMMA BeginCredit ==
  ASSUME TypeInv, NEW p \in Procs, NEW c \in Calls, Begin(p, c)
  PROVE  Credit(p)'
BY BeginParts DEF Credit

\* What another call does to the files of a deletion is to take them away, or nothing.
LEMMA OnlyTakenAway ==
  ASSUME TypeInv, MeetInv, NEW p \in Procs, NEW q \in Procs \ {p}, Step(q), pc[p] # "idle",
         OpsOf(call[p]) \cup met[p] \subseteq Deletes
  PROVE  /\ \A i \in 1 .. Len(call[p].entries) : PathOf(p, i) \in DOMAIN files' =>
              PathOf(p, i) \in DOMAIN files /\ files'[PathOf(p, i)] = files[PathOf(p, i)]
         /\ pc[p] = "unlink_child" /\ victim[p] \in DOMAIN files' =>
              victim[p] \in DOMAIN files /\ files'[victim[p]] = files[victim[p]]
<1>1. Effects(q) /\ DiskInv' /\ pc[q] # "idle"
  BY StepEffects, StepKeepsBusy
<1>2. CASE Meet(call[p], call[q])
  <2>1. OpsOf(call[q]) \subseteq Deletes
    BY <1>1, <1>2 DEF MeetInv
  <2>2. Now(q).op \in Deletes
    BY <2>1, DeletingOps
  <2> QED BY <1>1, <2>2 DEF Effects
<1>3. CASE ~Meet(call[p], call[q])
  <2>1. ASSUME NEW i \in 1 .. Len(call[p].entries), PathOf(p, i) \in DOMAIN files'
        PROVE  PathOf(p, i) \in DOMAIN files /\ files'[PathOf(p, i)] = files[PathOf(p, i)]
    <3>1. CASE call[p].entries[i].op \notin {"mkdir", "rmdir"}
      BY <1>1, <1>3, <2>1, <3>1, Undisturbed DEF KeptFile
    <3>2. CASE call[p].entries[i].op = "mkdir"
      <4>1. PathOf(p, i) \in Names /\ PathOf(p, i) \in DirectoryNames
        <5>1. PathOf(p, i) \in Names /\ Prefixes(PathOf(p, i)) \subseteq DirectoryNames
          BY <3>2, CallParts DEF PathOf, TypeInv, LocalsInv
        <5> QED BY <5>1, PrefixesDef, PrefixOrder
      <4> QED BY <1>1, <2>1, <4>1, DirectoryParts DEF DiskInv
    <3>3. CASE call[p].entries[i].op = "rmdir"
      <4>1. Now(p).op \notin Patching
        BY <3>3, EntryOps DEF Patching
      <4>2. i = 1 /\ at[p] = 1
        BY <4>1, EntryOps
      <4>3. Now(p).op = "rmdir" /\ PathOf(p, i) = Path(p) /\ Path(p) \in Names
        BY <3>3, <4>2, NowParts DEF Now, Path, PathOf
      <4> QED BY <1>1, <1>3, <2>1, <4>3, PrefixOrder, Undisturbed DEF KeptFile
    <3> QED BY <3>1, <3>2, <3>3
  <2>2. pc[p] = "unlink_child" => KeptFile(victim[p])
    <3> SUFFICES ASSUME pc[p] = "unlink_child" PROVE KeptFile(victim[p])
      OBVIOUS
    <3>1. victim[p] \in Names /\ victim[p] # <<>> /\ Front(victim[p]) = Top(p).dir
      BY DEF TypeInv, LocalsInv, Walks
    <3>2. IsPrefix(Path(p), Top(p).dir) /\ Top(p).dir \in Names /\ Now(p).op = "rmdir" /\ Path(p) \in Names
      BY TopParts, NowParts
    <3>3. IsPrefix(Path(p), victim[p])
      BY <3>1, <3>2, FrontDef, PrefixOrder
    <3> QED BY <1>1, <1>3, <3>1, <3>2, <3>3, Undisturbed
  <2> QED BY <2>1, <2>2 DEF KeptFile
<1> QED BY <1>2, <1>3

LEMMA DeletersKept ==
  ASSUME TypeInv, MeetInv, DeletersInv, [Next]_vars
  PROVE  DeletersInv'
<1>1. CASE UNCHANGED vars
  <2> SUFFICES ASSUME NEW p \in Procs, (OpsOf(call[p]) \cup met[p])' \subseteq Deletes PROVE Credit(p)'
    BY DEF DeletersInv
  <2>1. Credit(p) /\ Still(p) /\ UNCHANGED files
    BY <1>1 DEF DeletersInv, Still, OpsOf, vars, treeVars, walkVars, callVars
  <2> QED BY <2>1, CreditStays
<1>2. ASSUME NEW q \in Procs, Step(q) PROVE DeletersInv'
  <2> SUFFICES ASSUME NEW p \in Procs, (OpsOf(call[p]) \cup met[p])' \subseteq Deletes PROVE Credit(p)'
    BY DEF DeletersInv
  <2>1. OpsOf(call[p]) \cup met[p] \subseteq Deletes
    BY <1>2, StepKeepsBusy DEF OpsOf
  <2>2. Credit(p)
    BY <2>1 DEF DeletersInv
  <2>3. CASE p = q
    BY <1>2, <2>1, <2>2, <2>3, CallCredit, WalkCredit
  <2>4. CASE p # q
    <3>1. Still(p)
      BY <1>2, <2>4, OthersStay DEF Others, Still
    <3>2. CASE pc[p] = "idle"
      BY <2>2, <3>1, <3>2 DEF Credit, Still
    <3>3. CASE pc[p] # "idle"
      BY <1>2, <2>1, <2>2, <2>4, <3>1, <3>3, OnlyTakenAway, CreditStays
    <3> QED BY <3>2, <3>3
  <2> QED BY <2>3, <2>4
<1>3. ASSUME NEW q \in Procs, NEW c \in Calls, Begin(q, c) PROVE DeletersInv'
  <2> SUFFICES ASSUME NEW p \in Procs, (OpsOf(call[p]) \cup met[p])' \subseteq Deletes PROVE Credit(p)'
    BY DEF DeletersInv
  <2>1. CASE p = q
    BY <1>3, <2>1, BeginCredit
  <2>2. CASE p # q
    <3>1. Still(p) /\ UNCHANGED files
      BY <1>3, <2>2, OthersStay, BeginsQuietly DEF Others, Still
    <3>2. met[p] \subseteq met'[p]
      BY <1>3, <2>2 DEF Begin
    <3>3. OpsOf(call[p])' = OpsOf(call[p])
      BY <3>1 DEF OpsOf, Still
    <3>4. Credit(p)
      BY <3>2, <3>3 DEF DeletersInv
    <3> QED BY <3>1, <3>4, CreditStays
  <2> QED BY <2>1, <2>2
<1> QED BY <1>1, <1>2, <1>3 DEF Next

LEMMA DeletersStart == Init => DeletersInv
BY DEF Init, DeletersInv, Credit

\* Calls that delete and meet only one another never give back more bytes than they removed,
\* however their unlinks interleave: a removal that finds a file gone gives nothing back for
\* it (delete_file and _delete_tree, fs_operations.py 398-444, deletions in a patch 370-393).
THEOREM DeletersAccounts == Spec => []DeletersNeverOvercredit
<1>1. TypeInv /\ DeletersInv => DeletersNeverOvercredit
  BY DEF DeletersInv, DeletersNeverOvercredit, Credit
<1>2. Init => TypeInv /\ MeetInv /\ DeletersInv
  BY InitTypes, MeetStart, DeletersStart
<1>3. TypeInv /\ MeetInv /\ DeletersInv /\ [Next]_vars => (TypeInv /\ MeetInv /\ DeletersInv)'
  BY TypesKept, MeetKept, DeletersKept
<1> QED BY <1>1, <1>2, <1>3, PTL DEF Spec
=============================================================================
