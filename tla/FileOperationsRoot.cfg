\* One root without projects, all patches of up to two entries.
CONSTANTS
  Base = Base
  Projects = {}
  ProjectsEnabled = TRUE
  ImmutablePaths <- MCImmutablePaths
  AllowedNames = {"a", "d"}
  HardLimit = 3
  NoLimit = NoLimit
  Requests <- MCRootRequests
  Texts <- MCTexts
  Patches <- MCRootPatches
  AllowNonempty = TRUE
  InitialFiles <- MCInitialFiles
  UsageSize = 2
  MaxLen = 3
SPECIFICATION Spec
INVARIANT TypeOK
INVARIANT LedgerExact
INVARIANT QuotaHolds
INVARIANT StaleOnlyIfRepeated
