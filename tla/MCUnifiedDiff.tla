----------------------------- MODULE MCUnifiedDiff -----------------------------
(***************************************************************************)
(* Texts and diffs for TLC.  "a" and "b" end in a newline, "a$" and "b$"   *)
(* do not, and "" is nothing but a newline.                                *)
(***************************************************************************)
EXTENDS StandardDiff, SequencesExt

MCLines == {"a", "b", "a$", "b$", ""}

MCBlankLines == {""}

MCOriginals ==
  SeqOf({"a", "b"}, 3) \cup {Append(t, line) : t \in SeqOf({"a", "b"}, 1), line \in {"a$", ""}}

Made(kind, line, start, count) == [kind |-> kind, line |-> line, start |-> start, count |-> count]

BodyLines == {Made(kind, line, 0, 0) : kind \in {" ", "-", "+"}, line \in {"a", "b"}}

\* One hunk at start with this body; the header has the count of the body.
Hunk(start, body) ==
  <<Made("hunk", "a", start, Cardinality({n \in DOMAIN body : body[n].kind \in {" ", "-"}}))>> \o body

\* A hunk of up to three lines, or two hunks of up to one, anywhere in three lines.
Hunks ==
  {Hunk(s, body) : s \in 0 .. 3, body \in SeqOf(BodyLines, 3)}
    \cup {Hunk(s, body) \o Hunk(t, other) :
            s \in 0 .. 3, t \in 1 .. 3, body \in SeqOf(BodyLines, 1), other \in SeqOf(BodyLines, 1)}

\* Any lines in any order.
AnyLine ==
  {Made(kind, "a", 0, 0) : kind \in {"file", "bad", "\\", "+", " "}}
    \cup {Made(kind, "", 0, 0) : kind \in {"blank", " "}}
    \cup {Made(kind, line, 0, 0) : kind \in {"-", "bare"}, line \in {"a", "b"}}
    \cup {Made("hunk", "a", s, 1) : s \in 0 .. 3}

MCDiffs == Hunks \cup SeqOf(AnyLine, 3)
=============================================================================
