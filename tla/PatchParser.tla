----------------------------- MODULE PatchParser -----------------------------
(***************************************************************************)
(* How apply_patch turns a payload into operations                         *)
(* (mcpfiles/fs_operations.py 51-144 and 306-313): a pass over the lines    *)
(* that cuts the payload into blocks, and, at each end marker, a pass over  *)
(* the block that cuts it into operations.                                 *)
(*                                                                         *)
(* A line is its kind, what the code's tests tell apart:                   *)
(*   begin, end       "*** Begin Patch" and "*** End Patch", and begin_in, *)
(*                    end_in, the same with white space in front           *)
(*   eof              "*** End of File"                                    *)
(*   update, add, delete   a directive of that name with a path            *)
(*   nopath           a directive without a path                           *)
(*   other            any other line that starts with "*** "               *)
(*   blank            white space only                                     *)
(*   hunk             a line with "@@"                                     *)
(*   plus             a line that starts with "+"                          *)
(*   text             any other line                                       *)
(* Lines of two kinds ("+" or a directive with "@@" in it) and lines that  *)
(* start with "*** Begin Patch" and go on are left out.                    *)
(* What a path names and what the hunks say is left to FileOperations and  *)
(* UnifiedDiff, which take over where the operations are known.            *)
(***************************************************************************)
EXTENDS Integers, Sequences

CONSTANT Patches   \* the payloads callers send

Begins == {"begin", "begin_in"}
Ends == {"end", "end_in"}
Operations == {"update", "add", "delete"}
Directives == Operations \cup {"nopath", "other"}
Kinds == Begins \cup Ends \cup Directives \cup {"eof", "blank", "hunk", "plus", "text"}

ASSUME PatchesAssumption == Patches \subseteq Seq(Kinds)

VARIABLES
  patch,       \* the lines of the payload
  path,        \* the call has a path argument
  pc,          \* which of the functions is running
  line,        \* _parse_codex_patch: the line it is at
  inside,      \* inside_block
  block,       \* current_block, as line numbers
  operations,  \* the operations so far
  at,          \* _parse_patch_block: its position in the block
  header,      \* header, as the number of its line, or None
  buffer,      \* buffer, as line numbers
  parsed       \* the operations of the block so far

payloadVars == <<patch, path>>
outerVars == <<line, inside, block, operations>>
innerVars == <<at, header, buffer, parsed>>
vars == <<payloadVars, pc, outerVars, innerVars>>

None == 0

\* PatchOperation: the line it comes from (None for a plain diff), and the lines of
\* diff_text or content, each with whether its "+" is taken off.
BodyLine == [line : Nat, bare : BOOLEAN]
Operation == [op_type : Operations, header : Nat, body : Seq(BodyLine)]

TypeOK ==
  /\ patch \in Patches /\ path \in BOOLEAN
  /\ pc \in {"apply_patch", "codex", "block", "done", "raised"}
  /\ line \in 1 .. Len(patch) + 1
  /\ inside \in BOOLEAN
  /\ block \in Seq(DOMAIN patch)
  /\ operations \in Seq(Operation) /\ parsed \in Seq(Operation)
  /\ at \in 1 .. Len(block) + 1
  /\ header \in DOMAIN patch \cup {None}
  /\ buffer \in Seq(DOMAIN patch)
  /\ pc = "block" => line <= Len(patch)

Init ==
  /\ patch \in Patches /\ path \in BOOLEAN
  /\ pc = "apply_patch"
  /\ line = 1 /\ inside = FALSE /\ block = <<>> /\ operations = <<>>
  /\ at = 1 /\ header = None /\ buffer = <<>> /\ parsed = <<>>

Raise == pc' = "raised" /\ UNCHANGED <<payloadVars, outerVars, innerVars>>

-----------------------------------------------------------------------------
(* apply_patch, up to the operations, and _parse_plain_diff.               *)

Blank(i) == patch[i] = "blank"

\* The payload starts with "*** Begin Patch" but for white space.
StartsWithBegin ==
  \E i \in DOMAIN patch : patch[i] \in Begins /\ \A j \in 1 .. i - 1 : Blank(j)

ParsePlainDiff ==
  IF path /\ \E i \in DOMAIN patch : patch[i] = "hunk"
  THEN /\ pc' = "done"
       /\ operations' = <<[op_type |-> "update", header |-> None,
                           body |-> [i \in DOMAIN patch |-> [line |-> i, bare |-> FALSE]]]>>
       /\ UNCHANGED <<payloadVars, line, inside, block, innerVars>>
  ELSE Raise

ApplyPatch ==
  /\ pc = "apply_patch"
  /\ IF \A i \in DOMAIN patch : Blank(i) THEN Raise
     ELSE IF StartsWithBegin
     THEN pc' = "codex" /\ UNCHANGED <<payloadVars, outerVars, innerVars>>
     ELSE ParsePlainDiff

-----------------------------------------------------------------------------
(* _parse_codex_patch.                                                     *)

AtLine(kinds) == pc = "codex" /\ line <= Len(patch) /\ patch[line] \in kinds

BeginMarker ==
  /\ AtLine(Begins)
  /\ IF inside THEN Raise
     ELSE /\ inside' = TRUE /\ block' = <<>> /\ line' = line + 1
          /\ UNCHANGED <<payloadVars, pc, operations, innerVars>>

EndMarker ==
  /\ AtLine(Ends)
  /\ IF ~inside THEN Raise
     ELSE /\ pc' = "block"
          /\ at' = 1 /\ header' = None /\ buffer' = <<>> /\ parsed' = <<>>
          /\ UNCHANGED <<payloadVars, outerVars>>

OtherLine ==
  /\ AtLine(Kinds \ (Begins \cup Ends))
  /\ IF ~inside /\ ~Blank(line) THEN Raise
     ELSE /\ block' = IF inside THEN Append(block, line) ELSE block
          /\ line' = line + 1
          /\ UNCHANGED <<payloadVars, pc, inside, operations, innerVars>>

EndOfPatch ==
  /\ pc = "codex" /\ line = Len(patch) + 1
  /\ IF inside \/ operations = <<>> THEN Raise
     ELSE pc' = "done" /\ UNCHANGED <<payloadVars, outerVars, innerVars>>

-----------------------------------------------------------------------------
(* _parse_patch_block and _build_operation_from_section.                   *)

\* Mutant: what no branch knows is no error.
BuildableUnlessEmpty == patch[header] = "update" => \E i \in DOMAIN buffer : ~Blank(buffer[i])

\* The section of the header makes an operation.
Buildable ==
  /\ patch[header] \in Operations
  /\ patch[header] = "update" => \E i \in DOMAIN buffer : ~Blank(buffer[i])

\* _join_patch_lines, and _extract_add_content, which takes one "+" off.
Body ==
  IF patch[header] = "delete" THEN <<>>
  ELSE [i \in DOMAIN buffer |->
          [line |-> buffer[i], bare |-> patch[header] = "add" /\ patch[buffer[i]] = "plus"]]

\* The operations of the block with that of the section that ends here.
Built ==
  IF header = None THEN parsed
  ELSE Append(parsed, [op_type |-> patch[header], header |-> header, body |-> Body])

AtBlockLine(kinds) == pc = "block" /\ at <= Len(block) /\ patch[block[at]] \in kinds

EndOfFileLine ==
  /\ AtBlockLine({"eof"})
  /\ at' = at + 1
  /\ UNCHANGED <<payloadVars, pc, outerVars, header, buffer, parsed>>

\* Mutant: the buffer is kept for the next section.
DirectiveKeepsBuffer ==
  /\ AtBlockLine(Directives)
  /\ IF header # None /\ ~Buildable THEN Raise
     ELSE /\ parsed' = Built /\ header' = block[at]
          /\ at' = at + 1
          /\ UNCHANGED <<payloadVars, pc, outerVars, buffer>>

Directive ==
  /\ AtBlockLine(Directives)
  /\ IF header # None /\ ~Buildable THEN Raise
     ELSE /\ parsed' = Built /\ header' = block[at] /\ buffer' = <<>>
          /\ at' = at + 1
          /\ UNCHANGED <<payloadVars, pc, outerVars>>

SectionLine ==
  /\ AtBlockLine({"blank", "hunk", "plus", "text"})
  /\ IF header = None /\ ~Blank(block[at]) THEN Raise
     ELSE /\ buffer' = IF header = None THEN buffer ELSE Append(buffer, block[at])
          /\ at' = at + 1
          /\ UNCHANGED <<payloadVars, pc, outerVars, header, parsed>>

\* Mutant: the section after the last directive is dropped.
EndOfBlockDropsLast ==
  /\ pc = "block" /\ at = Len(block) + 1
  /\ pc' = "codex"
  /\ operations' = operations \o parsed
  /\ block' = <<>> /\ inside' = FALSE /\ line' = line + 1 /\ at' = 1
  /\ UNCHANGED <<payloadVars, header, buffer, parsed>>

EndOfBlock ==
  /\ pc = "block" /\ at = Len(block) + 1
  /\ IF header # None /\ ~Buildable THEN Raise
     ELSE /\ pc' = "codex"
          /\ operations' = operations \o Built
          /\ block' = <<>> /\ inside' = FALSE /\ line' = line + 1 /\ at' = 1
          /\ UNCHANGED <<payloadVars, header, buffer, parsed>>

-----------------------------------------------------------------------------
\* The call goes on with the operations, or has raised.
Parsed == pc \in {"done", "raised"} /\ UNCHANGED vars

Next ==
  \/ ApplyPatch
  \/ BeginMarker \/ EndMarker \/ OtherLine \/ EndOfPatch
  \/ EndOfFileLine \/ Directive \/ SectionLine \/ EndOfBlock
  \/ Parsed

Spec == Init /\ [][Next]_vars

-----------------------------------------------------------------------------
(* Safety.                                                                 *)

\* The operations come from the payload in its order, and no line of it is used twice: an
\* operation holds lines between its own directive and the next operation's, each once
\* (66-135).
LinesKeepOrder ==
  \A i \in DOMAIN operations :
    LET op == operations[i] IN
    /\ \A k \in DOMAIN op.body :
         /\ op.header < op.body[k].line
         /\ \A l \in 1 .. k - 1 : op.body[l].line < op.body[k].line
    /\ \A j \in 1 .. i - 1 :
         /\ operations[j].header < op.header
         /\ \A k \in DOMAIN operations[j].body : operations[j].body[k].line < op.header
=============================================================================
