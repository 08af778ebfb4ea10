CONSTANTS
  OpenMax = 6
  ReplaceMax = 3
  CountMod = 8
  StdFds = {1, 2}
  BufLen = 2
  MaxSize = 3
SPECIFICATION Spec
INVARIANTS
  FaultsSurvived
  CopyInBounds
  MapsBalanced
  PipesWhole
