----------------------------- MODULE MCFileCalls -----------------------------
(***************************************************************************)
(* A tree of two directories and calls on it that can meet in every way.   *)
(***************************************************************************)
EXTENDS FileCalls, TLC

Call(tool, entries) == [tool |-> tool, entries |-> entries, recursive |-> FALSE]

E(op, path, size) == [op |-> op, path |-> path, size |-> size]

da == <<"d", "a">>
ea == <<"d", "e", "a">>

MCInitialFiles == (da :> 1) @@ (ea :> 2)

MCCalls ==
  {Call("write_file", <<E("write", da, 3)>>),
   Call("write_file", <<E("append", ea, 1)>>),
   Call("apply_patch", <<E("update", da, 2), E("delete", ea, 0)>>),
   Call("write_file", <<E("write", <<"d", "b">>, 2)>>),
   Call("apply_patch", <<E("add", <<"d", "b">>, 1), E("update", da, 2)>>),
   Call("delete_file", <<E("delete", da, 0)>>),
   Call("create_directory", <<E("mkdir", <<"d", "e", "f">>, 0)>>),
   Call("remove_directory", <<E("rmdir", <<"d", "e">>, 0)>>)}
  \cup {[Call("remove_directory", <<E("rmdir", path, 0)>>) EXCEPT !.recursive = TRUE] :
          path \in {<<"d">>, <<"d", "e">>}}

Symmetry == Permutations(Procs)
=============================================================================
