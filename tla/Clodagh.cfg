CONSTANTS
  OpenMax = 7
  ReplaceMax = 3
  CountMod = 8
  StdFds = {0, 1, 2}
  NArchives = 2
SPECIFICATION Spec
INVARIANTS
  ArchiveKept
  StaleOnlyIfIncomplete
