---------------------------- MODULE MCPatchParser ----------------------------
(***************************************************************************)
(* Payloads for TLC: everything that is short, and longer ones with the    *)
(* shape of one or two blocks.                                             *)
(***************************************************************************)
EXTENDS PatchGrammar

Lists(set, n) == UNION {[1 .. m -> set] : m \in 0 .. n}

Short == Lists(Kinds, 3)

OneBlock ==
  {<<"begin">> \o lines \o <<"end_in">> :
     lines \in Lists(Directives \cup {"eof", "blank", "hunk", "plus"}, 4)}

TwoBlocks ==
  {<<"blank", "begin_in">> \o first \o <<"end">> \o between \o <<"begin">> \o second \o <<"end">> :
     first \in Lists({"update", "delete", "text"}, 2),
     between \in {<<>>, <<"blank">>, <<"plus">>},
     second \in Lists({"update", "add", "plus", "blank"}, 3)}

MCPatches == Short \cup OneBlock \cup TwoBlocks
=============================================================================
