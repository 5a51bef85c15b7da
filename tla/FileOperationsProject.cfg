\* A root and one project in it.
CONSTANTS
  Base = Base
  Projects = {"p1"}
  ProjectsEnabled = TRUE
  ImmutablePaths <- MCImmutablePaths
  AllowedNames = {"a", "d"}
  HardLimit = 2
  NoLimit = NoLimit
  Requests <- MCProjectRequests
  Texts <- MCShortTexts
  Patches <- MCProjectPatches
  AllowNonempty = TRUE
  InitialFiles <- MCInitialFiles
  UsageSize = 2
  MaxLen = 2
SPECIFICATION Spec
INVARIANT LedgerExact
INVARIANT ReadsAgree
PROPERTY ChargedToCaller
PROPERTY Confined
PROPERTY ImmutableKept
