------------------------------ MODULE Workspace ------------------------------
(***************************************************************************)
(* The path rules of WorkspaceManager (mcpfiles/workspace.py 54-147): which *)
(* path a request means, and what the key lets a caller do there.          *)
(*                                                                         *)
(* A path is the sequence of its components below "/".  A request is the   *)
(* sequence of components the caller sent; it may hold "..", ".", and "/"  *)
(* for the start of an absolute path.  A name stands for its suffix: the   *)
(* whitelist is the set of names it lets through.  No tool creates a       *)
(* symbolic link, so none is modelled.                                     *)
(***************************************************************************)
EXTENDS SequencesExt

CONSTANTS
  Base,            \* the scope of a caller that gives no project_id
  Projects,        \* project ids: names of directories that are valid UUIDs
  ProjectsEnabled, \* key_config.projects_enabled
  ImmutablePaths,  \* key_config.immutable_paths, each one its components
  AllowedNames     \* the names whose suffix is in key_config.extension_whitelist

\* A project id is the text of a UUID.  A component is a string (the provers do not know
\* that of a literal).
ASSUME WorkspaceAssumption ==
  /\ {"srv", ".projects", ".metadata", "usage.json"} \subseteq STRING
  /\ Projects \subseteq STRING \ {".metadata", ".projects"}
  /\ Base \notin Projects
  /\ ImmutablePaths \subseteq Seq(STRING)

Scopes == {Base} \cup Projects

BaseRoot == <<"srv">>

ProjectRoot(id) == BaseRoot \o <<".projects", id>>

\* WorkspaceManager.root
Root(scope) == IF scope = Base THEN BaseRoot ELSE ProjectRoot(scope)

\* The part of Path.resolve() that knows no links.
Normalised(path, part) ==
  CASE part = "/"  -> <<>>
    [] part = "."  -> path
    [] part = ".." -> IF path = <<>> THEN path ELSE Front(path)
    [] OTHER       -> Append(path, part)

\* (root / relative_path).resolve()
Resolve(scope, request) ==
  LET path[i \in 0 .. Len(request)] ==
        IF i = 0 THEN Root(scope) ELSE Normalised(path[i - 1], request[i])
  IN path[Len(request)]

\* Mutant: the check is made against the root of the key.
WithinBase(scope, path) == IsPrefix(BaseRoot, path)

\* _ensure_within_root
WithinRoot(scope, path) == IsPrefix(Root(scope), path)

\* Mutant: only the metadata of the base root is hidden.
ContainsBaseMetadata(path) == IsPrefix(Append(BaseRoot, ".metadata"), path)

\* _contains_metadata: some component below base_root is ".metadata".
ContainsMetadata(path) ==
  /\ IsPrefix(BaseRoot, path)
  /\ ".metadata" \in {path[i] : i \in Len(BaseRoot) + 1 .. Len(path)}

\* resolve_path returns instead of raising.
Resolvable(scope, path) == WithinRoot(scope, path) /\ ~ContainsMetadata(path)

\* path.relative_to(root)
Relative(scope, path) == SubSeq(path, Len(Root(scope)) + 1, Len(path))

\* ensure_mutable raises: the path is, or is below, an immutable path of this root.
Immutable(scope, path) ==
  \E immutable \in ImmutablePaths : IsPrefix(immutable, Relative(scope, path))

\* extension_allowed
ExtensionAllowed(path) == Last(path) \in AllowedNames

\* Mutant: ensure_mutable is not called.
MayChangeAny(scope, path) == Resolvable(scope, path)

\* What every changing tool asks before it does anything.
MayChange(scope, path) == Resolvable(scope, path) /\ ~Immutable(scope, path)
=============================================================================
