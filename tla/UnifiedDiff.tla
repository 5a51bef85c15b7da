----------------------------- MODULE UnifiedDiff -----------------------------
(***************************************************************************)
(* _apply_unified_diff_to_text (mcpfiles/fs_operations.py 147-212): one    *)
(* step for each line of the diff.                                         *)
(*                                                                         *)
(* A line of the text is what splitlines(keepends=True) makes of it, so    *)
(* the last line of a text that does not end in a newline differs from the *)
(* same line with one.  A line of the diff is a record: its kind, which is *)
(* the character it starts with or what it is called below, the text after *)
(* that character, and the numbers of a hunk header.  The lines of a diff  *)
(* always end in a newline (lines 54 and 141).                             *)
(***************************************************************************)
EXTENDS Integers, Sequences

CONSTANTS
  Lines,      \* the lines texts are made of
  BlankLines, \* those of them that are white space
  Originals,  \* the texts that are patched
  Diffs       \* the diffs

Kinds == {"file",   \* ---, +++, diff, index: only in front of the first hunk
          "hunk",   \* @@ -start,count +... @@
          "bad",    \* @@ and something else
          " ", "-", "+",
          "\\",     \* \ No newline at end of file
          "blank",  \* nothing but white space, and not even a leading space
          "bare"}   \* any other text

DiffLine == [kind : Kinds, line : Lines, start : Nat, count : Nat]

ASSUME DiffAssumption ==
  BlankLines \subseteq Lines /\ Originals \subseteq Seq(Lines) /\ Diffs \subseteq Seq(DiffLine)

VARIABLES
  text,     \* orig_lines
  diff,     \* diff_lines
  i,        \* the next line of the diff
  index,    \* orig_index, the number of lines of the text that are behind
  result,   \* result
  applied,  \* hunk_applied: some hunk header has been read
  outcome,  \* "running", "done", or "raised" for ValueError
  origin,   \* history: where each line of result comes from, 0 for the diff
  deleted   \* history: the lines of the text a "-" line has removed

vars == <<text, diff, i, index, result, applied, outcome, origin, deleted>>

TypeOK ==
  /\ text \in Seq(Lines)
  /\ diff \in Seq(DiffLine)
  /\ i \in 1 .. Len(diff) + 1
  /\ index \in 0 .. Len(text)
  /\ result \in Seq(Lines)
  /\ applied \in BOOLEAN
  /\ outcome \in {"running", "done", "raised"}
  /\ origin \in Seq(0 .. Len(text))
  /\ deleted \subseteq 1 .. Len(text)

Init ==
  /\ text \in Originals /\ diff \in Diffs
  /\ i = 1 /\ index = 0
  /\ result = <<>> /\ origin = <<>> /\ deleted = {}
  /\ applied = FALSE /\ outcome = "running"

-----------------------------------------------------------------------------
\* The next line of the diff has one of these kinds.
Reads(kinds) == outcome = "running" /\ i <= Len(diff) /\ diff[i].kind \in kinds

\* Mutant: the line after it is skipped.
AdvanceTwo == i' = i + 2 /\ UNCHANGED <<text, diff>>

Advance == i' = i + 1 /\ UNCHANGED <<text, diff>>

\* The lines of the text up to this one are copied.
CopyTo(target) ==
  /\ index' = target
  /\ result' = result \o SubSeq(text, index + 1, target)
  /\ origin' = origin \o [n \in 1 .. target - index |-> index + n]

\* Mutant: the header is taken for a number of lines.
TargetCounted == diff[i].start

\* Where a hunk starts: append_until(old_start - 1), not below 0.
Target == IF diff[i].start = 0 THEN 0 ELSE diff[i].start - 1

\* Mutant: a hunk may go back.
GoesOn == Target <= Len(text)

\* append_until does not raise.
Reachable == index <= Target /\ Target <= Len(text)

\* The line of the diff is the next line of the text.
Matches == index < Len(text) /\ text[index + 1] = diff[i].line

\* What may stand in front of the first hunk: a line of white space, with a leading space or
\* without, does.
Skipped == Reads({"file", "blank"}) \/ (Reads({" "}) /\ diff[i].line \in BlankLines)

\* Lines 203-205.
SkipHeader ==
  /\ ~applied /\ Skipped
  /\ Advance
  /\ UNCHANGED <<index, result, applied, outcome, origin, deleted>>

\* Lines 168-174 and 177-178.
StartHunk ==
  /\ Reads({"hunk"}) /\ Reachable
  /\ applied' = TRUE
  /\ CopyTo(Target)
  /\ Advance
  /\ UNCHANGED <<outcome, deleted>>

\* Mutant: context lines are not compared with the text.
ContextUnchecked ==
  /\ applied /\ Reads({" ", "bare"}) /\ index < Len(text)
  /\ index' = index + 1
  /\ result' = Append(result, diff[i].line)
  /\ origin' = Append(origin, index + 1)
  /\ Advance
  /\ UNCHANGED <<applied, outcome, deleted>>

\* Lines 179-183 and 195-199.
Context ==
  /\ applied /\ Reads({" ", "bare"}) /\ Matches
  /\ CopyTo(index + 1)
  /\ Advance
  /\ UNCHANGED <<applied, outcome, deleted>>

\* Lines 184-187.
Delete ==
  /\ applied /\ Reads({"-"}) /\ Matches
  /\ index' = index + 1
  /\ deleted' = deleted \cup {index + 1}
  /\ Advance
  /\ UNCHANGED <<result, applied, outcome, origin>>

\* Lines 188-189, and 193-194: a blank line is added to the result, as it is.
Add ==
  /\ applied /\ Reads({"+", "blank"})
  /\ result' = Append(result, diff[i].line)
  /\ origin' = Append(origin, 0)
  /\ Advance
  /\ UNCHANGED <<index, applied, outcome, deleted>>

\* Lines 190-192.
IgnoreMarker ==
  /\ applied /\ Reads({"\\"})
  /\ Advance
  /\ UNCHANGED <<index, result, applied, outcome, origin, deleted>>

\* ValueError: a bad header, a hunk or a line that does not fit, text in front of the first
\* hunk, or no hunk at all.
Raise ==
  /\ \/ Reads({"bad"})
     \/ Reads({"hunk"}) /\ ~Reachable
     \/ applied /\ Reads({" ", "bare", "-"}) /\ ~Matches
     \/ ~applied /\ Reads({" ", "bare", "-", "+", "\\"}) /\ ~Skipped
     \/ ~applied /\ outcome = "running" /\ i > Len(diff)
  /\ outcome' = "raised"
  /\ UNCHANGED <<text, diff, i, index, result, applied, origin, deleted>>

\* Mutant: what follows the last hunk is dropped.
FinishShort ==
  /\ applied /\ outcome = "running" /\ i > Len(diff)
  /\ outcome' = "done"
  /\ UNCHANGED <<text, diff, i, index, result, applied, origin, deleted>>

\* Lines 211-212.
Finish ==
  /\ applied /\ outcome = "running" /\ i > Len(diff)
  /\ CopyTo(Len(text))
  /\ outcome' = "done"
  /\ UNCHANGED <<text, diff, i, applied, deleted>>

Next ==
  \/ SkipHeader \/ StartHunk \/ Context \/ Delete \/ Add \/ IgnoreMarker \/ Raise \/ Finish

Spec == Init /\ [][Next]_vars

-----------------------------------------------------------------------------
(* Whatever the diff says, a patch that is accepted loses nothing and moves *)
(* nothing (fs_operations.py 147-212).                                      *)

\* Each line of the result is the line of the text it comes from.
ComesFromText ==
  /\ Len(origin) = Len(result)
  /\ \A n \in DOMAIN origin : origin[n] # 0 => result[n] = text[origin[n]]

\* Lines of the text stay in their order, and none is repeated, however the hunks lie.
KeepsOrder ==
  \A m, n \in DOMAIN origin : m < n /\ origin[m] # 0 /\ origin[n] # 0 => origin[m] < origin[n]

Kept == {origin[n] : n \in DOMAIN origin} \ {0}

\* A line of the text is in the result unless a "-" line removed it, and not otherwise.
LosesNothing ==
  /\ Kept \cap deleted = {}
  /\ outcome = "done" => Kept \cup deleted = 1 .. Len(text)
=============================================================================
