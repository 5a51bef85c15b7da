---------------------------- MODULE PatchGrammar ----------------------------
(***************************************************************************)
(* The format of patches that PatchParser should accept, said without its  *)
(* passes: which payloads are patches, and which operations they mean.     *)
(*   patch  = blank* (block blank* )+            or a plain diff           *)
(*   block  = begin blank* section* end                                    *)
(*   section = directive line*                                             *)
(* with "*** End of File" lines anywhere in a block.                       *)
(***************************************************************************)
EXTENDS PatchParser

Markers == Begins \cup Ends

\* Behind line i a block is open: the last marker up to it begins one.
Open(p, i) == \E b \in 1 .. i : p[b] \in Begins /\ \A k \in b + 1 .. i : p[k] \notin Markers

\* The directives inside blocks.
Headers(p) == {h \in DOMAIN p : p[h] \in Directives /\ Open(p, h)}

\* Line i is in the section that directive h opens.
InSection(p, h, i) ==
  /\ h < i /\ p[h] \in Directives
  /\ \A k \in h + 1 .. i : p[k] \notin Directives \cup Markers
  /\ p[i] # "eof"

Section(p, h) == {i \in DOMAIN p : InSection(p, h, i)}

\* Line i stands where it may stand.
Fits(p, i) ==
  /\ p[i] \in Begins => ~Open(p, i - 1)
  /\ p[i] \in Ends => Open(p, i - 1)
  /\ p[i] \in Directives =>
       /\ Open(p, i) /\ p[i] \in Operations
       /\ p[i] = "update" => \E j \in Section(p, i) : p[j] # "blank"
  /\ p[i] = "eof" => Open(p, i)
  /\ p[i] \in {"hunk", "plus", "text"} => \E h \in Headers(p) : InSection(p, h, i)

IsCodexPatch(p) ==
  Headers(p) # {} /\ ~Open(p, Len(p)) /\ \A i \in DOMAIN p : Fits(p, i)

IsPlainDiff ==
  /\ path
  /\ ~StartsWithBegin
  /\ \E i \in DOMAIN patch : patch[i] = "hunk"

\* The operation is that of its section.
IsMeant(p, op) ==
  /\ op.op_type = p[op.header]
  /\ {op.body[k].line : k \in DOMAIN op.body}
       = IF op.op_type = "delete" THEN {} ELSE Section(p, op.header)
  /\ \A k \in DOMAIN op.body :
       op.body[k].bare <=> op.op_type = "add" /\ p[op.body[k].line] = "plus"

AreMeant(p, ops) == \A k \in DOMAIN ops : IsMeant(p, ops[k])

HeadersOf(ops) == {ops[k].header : k \in DOMAIN ops}

\* The operations are those a patch means: one for each directive, in their order.
Meaning ==
  IF StartsWithBegin
  THEN HeadersOf(operations) = Headers(patch) /\ AreMeant(patch, operations) /\ LinesKeepOrder
  ELSE operations = <<[op_type |-> "update", header |-> None,
                       body |-> [i \in DOMAIN patch |-> [line |-> i, bare |-> FALSE]]]>>

\* The two passes accept just the patches of the format and make of them the operations
\* they mean, in their order: no block, section or line gets lost or into the wrong
\* operation, whatever the markers and directives around it (fs_operations.py 51-144).
ParsesAsGrammar ==
  /\ pc = "done" => (IsCodexPatch(patch) \/ IsPlainDiff) /\ Meaning
  /\ pc = "raised" => ~IsCodexPatch(patch) /\ ~IsPlainDiff
=============================================================================
