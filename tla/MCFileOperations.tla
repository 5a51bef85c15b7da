--------------------------- MODULE MCFileOperations ---------------------------
(***************************************************************************)
(* Values of FileOperations' constants for TLC.                            *)
(***************************************************************************)
EXTENDS FileOperations

MCTexts == {<<"x">>, <<"y", "y">>}

MCShortTexts == {<<"x">>}

MCImmutablePaths == {<<"ref">>}

MCInitialFiles == {BaseRoot \o <<"ref", "a">>}

\* One root: two files, one name that can be a file or a directory, a detour, an immutable
\* path, the root itself and a way out.
MCRootRequests ==
  [s \in {Base} |->
     {<<"a">>, <<"d">>, <<"d", "a">>, <<"d", "..", "a">>, <<"ref", "a">>, <<".">>, <<"..", "a">>}]

\* A root and a project in it, each reachable from the other's scope if nothing stops it.
MCProjectRequests ==
  [s \in {Base, "p1"} |->
     IF s = Base
     THEN {<<"a">>, <<".">>, <<".projects">>, <<".projects", "p1", "a">>,
           <<".projects", "p1", "ref", "a">>}
     ELSE {<<"a">>, <<".">>, <<".metadata">>, <<"ref", "a">>, <<"..", "..">>,
           <<"..", "..", "a">>, <<"/", "srv", "a">>}]

Entries(requests) ==
  [op : {"update"}, request : requests, from : Texts, to : Texts]
    \cup [op : {"add"}, request : requests, to : Texts]
    \cup [op : {"delete"}, request : requests]

\* All patches of one or two entries for two files of one root, one of them named twice.
MCRootPatches ==
  SeqOf(Entries({<<"a">>, <<"d", "a">>, <<"d", "..", "a">>}), 2) \ {<<>>}

MCProjectPatches ==
  SeqOf(Entries({<<"a">>, <<"..", "..", "a">>}), 1) \ {<<>>}
=============================================================================
