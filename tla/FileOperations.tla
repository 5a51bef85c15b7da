--------------------------- MODULE FileOperations ---------------------------
(***************************************************************************)
(* The tools of FileOperations (mcpfiles/fs_operations.py) on one base     *)
(* root and the projects in it, called one at a time: one action per tool, *)
(* with every change the call makes to the tree and to the usage.json of   *)
(* its scope.  (UsageFile takes the same calls apart into system calls and *)
(* lets them overlap.)                                                     *)
(*                                                                         *)
(* The content of a file is a sequence of lines of one byte each.  An      *)
(* update of a patch names the content its hunks match and the content     *)
(* they produce.  A call that is refused before it changes anything leaves *)
(* the state alone and needs no action.  What validate_mime finds after a  *)
(* write has no effect on the call (302, 382) and is left out.             *)
(***************************************************************************)
EXTENDS Workspace, Quota

CONSTANTS
  Requests,        \* for each scope, the paths its callers ask for
  Texts,           \* the contents callers write
  Patches,         \* the patches callers send, already parsed
  AllowNonempty,   \* key_config.allow_nonempty_delete
  InitialFiles,    \* empty files that exist at first
  UsageSize,       \* bytes of a usage.json
  MaxLen           \* bound: length of a file an append may produce

Entry ==
  [op : {"update"}, request : Seq(STRING), from : Seq(STRING), to : Seq(STRING)]
    \cup [op : {"add"}, request : Seq(STRING), to : Seq(STRING)]
    \cup [op : {"delete"}, request : Seq(STRING)]

ASSUME FileOperationsAssumption ==
  /\ Requests \in [Scopes -> SUBSET Seq(STRING)]
  /\ Texts \subseteq Seq(STRING)
  /\ Patches \subseteq Seq(Entry)
  /\ IsFiniteSet(InitialFiles) /\ InitialFiles \subseteq Seq(STRING)
  /\ \A p \in InitialFiles :
       /\ IsStrictPrefix(BaseRoot, p) /\ ~ContainsMetadata(p)
       /\ \A q \in InitialFiles : ~IsStrictPrefix(p, q)
  /\ UsageSize \in Nat /\ MaxLen \in Nat

VARIABLES
  dirs,     \* the directories
  files,    \* the files and their contents, .metadata excluded
  usage,    \* used_bytes of the scopes that have a usage.json
  last,     \* history: scope and tool of the last call that changed something
  marks     \* history: what has happened that the accounting does not survive

vars == <<dirs, files, usage, last, marks>>

Disk == [dirs |-> dirs, files |-> files, usage |-> usage]

Tools == {"none", "write_file", "apply_patch", "delete_file", "create_directory",
          "remove_directory", "create_project"}

\* "repeat": a patch with two entries for one path; "stale": one of them overwrote
\* content its hunks were not checked against; "cross": a call of the base scope changed
\* files of a project.
Marks == {"repeat", "stale", "cross"}

-----------------------------------------------------------------------------
(* Trees.  A disk is the record of the three variables, so that a patch    *)
(* can fold its entries over it.                                           *)

Exists(path) == path \in dirs \/ path \in DOMAIN files

\* mkdir(parents=True, exist_ok=True) raises where a file is in the way.
CanMkdir(disk, path) == Prefixes(path) \cap DOMAIN disk.files = {}

Mkdir(disk, path) == [disk EXCEPT !.dirs = @ \cup Prefixes(path)]

Put(disk, path, text) ==
  [disk EXCEPT !.files = [p \in DOMAIN @ \cup {path} |-> IF p = path THEN text ELSE @[p]]]

Unlink(disk, path) == [disk EXCEPT !.files = Restrict(@, DOMAIN @ \ {path})]

\* used_bytes of a set of paths
Bytes(disk, paths) == SumFunctionOnSet([p \in DOMAIN disk.files |-> Len(disk.files[p])], paths)

UsageFile(scope) == Root(scope) \o <<".metadata", "usage.json">>

UsageFilesBelow(disk, path) == {s \in DOMAIN disk.usage : IsPrefix(path, UsageFile(s))}

\* _delete_tree: also what the metadata checks protect from every other tool.
DeleteTree(disk, path) ==
  [dirs  |-> {p \in disk.dirs : ~IsPrefix(path, p)},
   files |-> RestrictDomain(disk.files, LAMBDA p : ~IsPrefix(path, p)),
   usage |-> Restrict(disk.usage, DOMAIN disk.usage \ UsageFilesBelow(disk, path))]

TreeBytes(disk, path) ==
  Bytes(disk, {p \in DOMAIN disk.files : IsPrefix(path, p)})
    + UsageSize * Cardinality(UsageFilesBelow(disk, path))

-----------------------------------------------------------------------------
(* Accounting (workspace.py 150-259, without locks).                       *)

\* _load_usage creates .metadata and usage.json when they are missing.
Load(disk, scope) ==
  IF scope \in DOMAIN disk.usage THEN disk
  ELSE [Mkdir(disk, Front(UsageFile(scope))) EXCEPT
          !.usage = [s \in DOMAIN @ \cup {scope} |-> IF s = scope THEN 0 ELSE @[s]]]

FitsIn(disk, scope, delta) == Fits(Load(disk, scope).usage[scope], delta)

\* record_usage_delta
Record(disk, scope, delta) ==
  [Load(disk, scope) EXCEPT !.usage[scope] = AtLeastZero(@ + delta)]

-----------------------------------------------------------------------------
(* The tools.                                                              *)

\* WorkspaceManager can be constructed for the scope.
Open(scope) == scope = Base \/ (ProjectsEnabled /\ Root(scope) \in dirs)

\* The call ends with this disk; ms is what it has done that the accounting ignores.
Return(scope, tool, disk, ms) ==
  /\ dirs' = disk.dirs
  /\ files' = disk.files
  /\ usage' = disk.usage
  /\ last' = [scope |-> scope, tool |-> tool]
  /\ marks' = marks \cup ms

\* The base scope reaches into a project through .projects/<id>.
Crosses(scope, path) ==
  IF scope = Base /\ \E id \in Projects : IsPrefix(ProjectRoot(id), path) THEN {"cross"} ELSE {}

\* write_file.  The directories are made before the quota is checked, and stay when it
\* refuses the write or when the path turns out to be a directory.
WriteFile(scope, request, text, append) ==
  LET path  == Resolve(scope, request)
      old   == IF path \in DOMAIN files THEN files[path] ELSE <<>>
      new   == IF append THEN old \o text ELSE text
      delta == IF append THEN Len(text) ELSE Len(text) - Len(old)
      ready == Load(Mkdir(Disk, Front(path)), scope)
  IN /\ Open(scope)
     /\ MayChange(scope, path) /\ ExtensionAllowed(path)
     /\ CanMkdir(Disk, Front(path))
     /\ Len(new) <= MaxLen
     /\ \/ /\ path \in dirs \/ ~FitsIn(ready, scope, delta)
           /\ Return(scope, "write_file", ready, {})
        \/ /\ path \notin dirs /\ FitsIn(ready, scope, delta)
           /\ Return(scope, "write_file", Record(Put(ready, path, new), scope, Len(new) - Len(old)),
                     Crosses(scope, path))

\* Mutant: the hunks of an update are not checked against the file.
PreparedBlindly(scope, entry) ==
  LET path == Resolve(scope, entry.request) IN
  /\ MayChange(scope, path)
  /\ entry.op = "add" => ~Exists(path)
  /\ entry.op # "add" => path \in DOMAIN files
  /\ entry.op # "delete" => ExtensionAllowed(path)

\* The first pass of apply_patch accepts an entry: it is checked against the files as they
\* are before the patch, whatever the entries in front of it do.
Prepared(scope, entry) ==
  LET path == Resolve(scope, entry.request) IN
  /\ MayChange(scope, path)
  /\ entry.op = "add" => ~Exists(path)
  /\ entry.op # "add" => path \in DOMAIN files
  /\ entry.op # "delete" => ExtensionAllowed(path)
  /\ entry.op = "update" => files[path] = entry.from

\* Mutant: the usage is charged with the size of the new content.
PatchDeltaNew(scope, entry) == IF entry.op = "delete" THEN 0 ELSE Len(entry.to)

\* The delta of an entry, also with respect to the files before the patch.
PatchDelta(scope, entry) ==
  LET path == Resolve(scope, entry.request)
      old  == IF path \in DOMAIN files THEN Len(files[path]) ELSE 0
  IN (IF entry.op = "delete" THEN 0 ELSE Len(entry.to)) - old

\* The second pass applies an entry to the disk the entries before it left; the patch ends
\* at the first entry that raises.
ApplyEntry(scope, sofar, entry) ==
  LET path    == Resolve(scope, entry.request)
      disk    == Load(sofar.disk, scope)
      made    == Mkdir(disk, Front(path))
      delta   == PatchDelta(scope, entry)
      refused == \/ ~FitsIn(disk, scope, delta)
                 \/ entry.op = "delete" /\ path \notin DOMAIN disk.files
                 \/ entry.op # "delete" /\ (~CanMkdir(disk, Front(path)) \/ path \in made.dirs)
      stale   == entry.op = "update" /\ path \in DOMAIN disk.files /\ disk.files[path] # entry.from
      after   == IF entry.op = "delete" THEN Unlink(disk, path) ELSE Put(made, path, entry.to)
  IN IF ~sofar.ok THEN sofar
     ELSE IF refused THEN [disk |-> disk, ok |-> FALSE, stale |-> sofar.stale]
     ELSE [disk |-> Record(after, scope, delta), ok |-> TRUE, stale |-> sofar.stale \/ stale]

Applied(scope, patch) ==
  LET sofar[i \in 0 .. Len(patch)] ==
        IF i = 0 THEN [disk |-> Disk, ok |-> TRUE, stale |-> FALSE]
        ELSE ApplyEntry(scope, sofar[i - 1], patch[i])
  IN sofar[Len(patch)]

ApplyPatch(scope, patch) ==
  LET path(i) == Resolve(scope, patch[i].request)
      result  == Applied(scope, patch)
  IN /\ Open(scope)
     /\ \A i \in DOMAIN patch : Prepared(scope, patch[i])
     /\ Return(scope, "apply_patch", result.disk,
               (UNION {Crosses(scope, path(i)) : i \in DOMAIN patch})
                 \cup (IF result.stale THEN {"stale"} ELSE {})
                 \cup (IF \E i, j \in DOMAIN patch : i # j /\ path(i) = path(j)
                       THEN {"repeat"} ELSE {}))

DeleteFile(scope, request) ==
  LET path == Resolve(scope, request) IN
  /\ Open(scope)
  /\ MayChange(scope, path)
  /\ path \in DOMAIN files
  /\ Return(scope, "delete_file",
            Record(Unlink(Disk, path), scope, - Len(files[path])), Crosses(scope, path))

CreateDirectory(scope, request) ==
  LET path == Resolve(scope, request) IN
  /\ Open(scope)
  /\ MayChange(scope, path)
  /\ CanMkdir(Disk, path)
  /\ Return(scope, "create_directory", Mkdir(Disk, path), {})

\* remove_directory checks the directory it is given and nothing below it.  It then
\* records the freed bytes, and so creates the root again when it has removed that.
RemoveDirectory(scope, request, recursive) ==
  LET path == Resolve(scope, request) IN
  /\ Open(scope)
  /\ MayChange(scope, path)
  /\ path \in dirs
  /\ recursive => AllowNonempty
  /\ ~recursive => ~\E p \in dirs \cup DOMAIN files : IsStrictPrefix(path, p)
  /\ Return(scope, "remove_directory",
            Record(DeleteTree(Disk, path), scope, - TreeBytes(Disk, path)),
            IF scope = Base /\ \E id \in Projects : ProjectRoot(id) \in dirs /\
                 (IsPrefix(path, ProjectRoot(id)) \/ IsPrefix(ProjectRoot(id), path))
            THEN {"cross"} ELSE {})

CreateProject(id) ==
  /\ ProjectsEnabled
  /\ CanMkdir(Disk, ProjectRoot(id))
  /\ Return(Base, "create_project", Mkdir(Disk, ProjectRoot(id)), {})

-----------------------------------------------------------------------------
Init ==
  /\ files = [p \in InitialFiles |-> <<>>]
  /\ dirs = (UNION {Prefixes(Front(p)) : p \in InitialFiles}) \cup Prefixes(BaseRoot)
  /\ usage = [s \in {} |-> 0]
  /\ last = [scope |-> Base, tool |-> "none"]
  /\ marks = {}

Next ==
  \/ \E scope \in Scopes : \E request \in Requests[scope] :
       \/ \E text \in Texts, append \in BOOLEAN : WriteFile(scope, request, text, append)
       \/ DeleteFile(scope, request)
       \/ CreateDirectory(scope, request)
       \/ \E recursive \in BOOLEAN : RemoveDirectory(scope, request, recursive)
  \/ \E scope \in Scopes, patch \in Patches : ApplyPatch(scope, patch)
  \/ \E id \in Projects : CreateProject(id)

Spec == Init /\ [][Next]_vars

-----------------------------------------------------------------------------
(* The tools that read.  An optional argument is a set of at most one      *)
(* value.  No pattern is given to list_directory.                          *)

\* Mutant: what is in a .metadata is listed too.
ListEverything(path, recursive) ==
  {p \in dirs \cup DOMAIN files :
     IsStrictPrefix(path, p) /\ (recursive \/ Len(p) = Len(path) + 1)}

\* list_directory: the entries glob or rglob finds, without those of a .metadata.
ListDirectory(path, recursive) ==
  {p \in dirs \cup DOMAIN files :
     /\ IsStrictPrefix(path, p) /\ ~ContainsMetadata(p)
     /\ recursive \/ Len(p) = Len(path) + 1}

\* The directories os.walk visits for stat_tree and recalculate_usage: it does not go into
\* a .metadata directory, nor deeper than the depth, and yields nothing for a file.
Walked(path, depth) ==
  {d \in dirs : /\ IsPrefix(path, d) /\ ~ContainsMetadata(d)
               /\ \A n \in depth : Len(d) - Len(path) <= n}

StatTree(path, depth) ==
  LET walked == Walked(path, depth)
      found  == {f \in DOMAIN files : Front(f) \in walked /\ ~ContainsMetadata(f)}
  IN [file_count  |-> Cardinality(found),
      dir_count   |-> Cardinality(walked) - 1,
      total_bytes |-> Bytes(Disk, found)]

\* read_file: from the offset on, at most the length.
ReadFile(path, offset, length) ==
  SubSeq(files[path], offset + 1, Min({Len(files[path])} \cup {offset + n : n \in length}))

\* get_metadata of a path that exists; dates, modes and the size of a directory are left out.
GetMetadata(scope, path) ==
  [size              |-> IF path \in DOMAIN files THEN Len(files[path]) ELSE 0,
   extension_allowed |-> ExtensionAllowed(path),
   immutable         |-> Immutable(scope, path)]

\* list_projects where projects are enabled: every directory in .projects, whatever its name.
ListProjects ==
  {Last(d) : d \in {e \in dirs : e # <<>> /\ Front(e) = Append(BaseRoot, ".projects")}}

-----------------------------------------------------------------------------
(* Safety.                                                                 *)

\* The variables have their types, and the tree is one: what is in a directory is in a
\* directory, and nothing is both a directory and a file.
TypeOK ==
  /\ BaseRoot \in dirs
  /\ \A p \in dirs \cup DOMAIN files : p # <<>> => Front(p) \in dirs
  /\ dirs \cap DOMAIN files = {}
  /\ DOMAIN usage \subseteq Scopes
  /\ \A s \in DOMAIN usage : usage[s] \in Nat /\ Front(UsageFile(s)) \in dirs
  /\ last \in [scope : Scopes, tool : Tools]
  /\ marks \subseteq Marks

\* The bytes a scope is charged for: those of a listed project are charged to the project.
Charged(scope) ==
  LET total(path) == StatTree(path, {}).total_bytes
      listed      == ListProjects \cap Projects
  IN IF scope = Base
     THEN total(BaseRoot) - SumFunction([id \in listed |-> total(ProjectRoot(id))])
     ELSE total(Root(scope))

UsedBytes(scope) == IF scope \in DOMAIN usage THEN usage[scope] ELSE 0

\* The deltas the tools record add up to what stat_tree finds, whatever is written,
\* appended, patched and removed, ancestors of .metadata included.
LedgerExact ==
  marks = {} => \A s \in Scopes : UsedBytes(s) = Charged(s)

\* No sequence of calls brings a scope over the hard limit.
QuotaHolds ==
  (marks = {} /\ HardLimit # NoLimit) => \A s \in Scopes : Charged(s) <= HardLimit

\* A call with a project_id changes nothing outside the directory of that project,
\* wherever its request leads.
Confined ==
  [][\A id \in Projects : last'.scope = id =>
       \A p \in DOMAIN files \cup DOMAIN files' :
         ~IsPrefix(ProjectRoot(id), p) =>
           /\ p \in DOMAIN files \cap DOMAIN files'
           /\ files'[p] = files[p]]_vars

ImmutableFiles(scope) ==
  {p \in DOMAIN files : IsPrefix(Root(scope), p) /\ GetMetadata(scope, p).immutable}

\* used_bytes of a scope changes in calls of that scope only, and its usage.json goes only
\* when a call of the base scope removes a directory above it: no request of a project
\* reaches the accounting of another scope (workspace.py 62-95, 149-152).
ChargedToCaller ==
  [][\A s \in DOMAIN usage :
       \/ last'.scope = s /\ s \in DOMAIN usage'
       \/ s \in DOMAIN usage' /\ usage'[s] = usage[s]
       \/ last' = [scope |-> Base, tool |-> "remove_directory"] /\ s \notin DOMAIN usage']_vars

\* A file get_metadata reports to a caller as immutable is never changed, and it goes only
\* with a directory above that path or by the call of another scope whose root it is in.
ImmutableKept ==
  [][\A s \in Scopes : \A p \in ImmutableFiles(s) :
       \/ p \in DOMAIN files' /\ files'[p] = files[p]
       \/ last'.tool = "remove_directory"
       \/ s # last'.scope /\ IsPrefix(Root(last'.scope), p)]_vars

\* A patch overwrites content that its hunks were not checked against only when it names a
\* path twice: for one caller "Validates every hunk before writing" (server.py:247) holds of
\* every other patch, although all files are read before the first is written (315-394).
StaleOnlyIfRepeated == "stale" \in marks => "repeat" \in marks

\* What the callers of one scope are told fits together, after any calls.  For a directory
\* stat_tree counts what list_directory lists recursively, with the sizes get_metadata
\* and read_file give; it is the sum of the tree down to depth 0 and of the trees of the
\* directories listed there; and the tools accept every path they list.
ReadsAgree ==
  \A scope \in {s \in Scopes : Open(s)} : \A request \in Requests[scope] :
    LET path   == Resolve(scope, request)
        below  == ListDirectory(path, TRUE)
        inside == ListDirectory(path, FALSE) \cap dirs
        all    == StatTree(path, {})
        here   == StatTree(path, {0})
        size   == [p \in below |-> GetMetadata(scope, p).size]
        tree   == [d \in inside |-> StatTree(d, {})]
    IN Resolvable(scope, path) /\ path \in dirs =>
         /\ all.file_count = Cardinality(below \ dirs)
         /\ all.dir_count = Cardinality(below \cap dirs)
         /\ all.total_bytes = SumFunction(size)
         /\ all.file_count = here.file_count + SumFunction([d \in inside |-> tree[d].file_count])
         /\ all.dir_count = here.dir_count + SumFunction([d \in inside |-> tree[d].dir_count + 1])
         /\ all.total_bytes = here.total_bytes + SumFunction([d \in inside |-> tree[d].total_bytes])
         /\ \A p \in below : Resolvable(scope, p)
         /\ \A p \in below \ dirs : Len(ReadFile(p, 0, {})) = size[p]
=============================================================================
