CONSTANTS
  Dirs = {"111", "222", "333"}
  Names = {"a"}
  NChildren = 3
SPECIFICATION FairSpec
INVARIANTS
  WayBackFree
  ParentLast
PROPERTIES
  LostOnlyByRace
  TmpComesFree
