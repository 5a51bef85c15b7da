\* Texts of up to three lines; well-formed diffs of one hunk of up to three lines or two hunks
\* of up to one, and all sequences of up to three lines of any kind.
\* The function returns or raises, and that is the end.
CONSTANTS
  Lines <- MCLines
  BlankLines <- MCBlankLines
  Originals <- MCOriginals
  Diffs <- MCDiffs
SPECIFICATION Spec
INVARIANT TypeOK
INVARIANT ComesFromText
INVARIANT KeepsOrder
INVARIANT LosesNothing
INVARIANT PlainDiffsApply
CHECK_DEADLOCK FALSE
