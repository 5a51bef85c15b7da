----------------------------- MODULE StandardDiff -----------------------------
(***************************************************************************)
(* What a unified diff means: the reference UnifiedDiff is compared with.  *)
(* A hunk replaces the lines of its old side, which lie where its header   *)
(* says, by the lines of its new side.  Diffs with the marker for a        *)
(* missing final newline are left out: they are not Correct here.          *)
(***************************************************************************)
EXTENDS UnifiedDiff

\* The lines of the diff that are hunk headers.
Headers(d) == {n \in DOMAIN d : d[n].kind = "hunk"}

Body(d, h) == {n \in h + 1 .. Len(d) : \A m \in h + 1 .. n : m \notin Headers(d)}

\* The lines of the body with these kinds.
Side(d, h, kinds) ==
  LET side[n \in h .. Len(d)] ==
        IF n = h THEN <<>>
        ELSE IF n \in Body(d, h) /\ d[n].kind \in kinds THEN Append(side[n - 1], d[n].line)
        ELSE side[n - 1]
  IN side[Len(d)]

OldSide(d, h) == Side(d, h, {" ", "-"})
NewSide(d, h) == Side(d, h, {" ", "+"})

\* The number of lines in front of the hunk.  The header of a hunk with an empty old side
\* names the line it comes after; that of any other hunk, the first line of that side.
Before(d, h) == IF d[h].count = 0 THEN d[h].start ELSE d[h].start - 1

After(d, h) == Before(d, h) + d[h].count

\* The diff is well formed and describes this text.
Correct(t, d) ==
  /\ Headers(d) # {}
  /\ \A n \in DOMAIN d : (\A h \in Headers(d) : n < h) => d[n].kind = "file"
  /\ \A h \in Headers(d) :
       /\ \A n \in Body(d, h) : d[n].kind \in {" ", "-", "+"}
       /\ d[h].count = Len(OldSide(d, h))
       /\ 0 <= Before(d, h) /\ After(d, h) <= Len(t)
       /\ \A g \in Headers(d) : g < h => After(d, g) <= Before(d, h)
       /\ SubSeq(t, Before(d, h) + 1, After(d, h)) = OldSide(d, h)

\* The text with every old side replaced, from the last hunk to the first.
Patched(t, d) ==
  LET from[n \in 1 .. Len(d) + 1] ==
        IF n = Len(d) + 1 THEN t
        ELSE IF n \in Headers(d)
        THEN SubSeq(from[n + 1], 1, Before(d, n)) \o NewSide(d, n)
               \o SubSeq(from[n + 1], After(d, n) + 1, Len(from[n + 1]))
        ELSE from[n + 1]
  IN from[1]

AppliesAsStandard ==
  Correct(text, diff) /\ outcome # "running" => outcome = "done" /\ result = Patched(text, diff)

\* A correct diff is accepted and gives the lines it describes, provided that every hunk
\* has an old side or stands in front of the first line (fs_operations.py 166-212).
PlainDiffsApply ==
  (\A h \in Headers(diff) : diff[h].count = 0 => diff[h].start = 0)
    => AppliesAsStandard

-----------------------------------------------------------------------------
(* What a document says and the code does not keep.                        *)

\* "Apply Codex-style or standard unified diff patches" (the apply_patch tool,
\* server.py:247), for hunks that only add.
InsertionsApply == AppliesAsStandard
=============================================================================
