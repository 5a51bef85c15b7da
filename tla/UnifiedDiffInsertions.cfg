\* The same texts and diffs, hunks without an old side included.
CONSTANTS
  Lines <- MCLines
  BlankLines <- MCBlankLines
  Originals <- MCOriginals
  Diffs <- MCDiffs
SPECIFICATION Spec
INVARIANT InsertionsApply
CHECK_DEADLOCK FALSE
