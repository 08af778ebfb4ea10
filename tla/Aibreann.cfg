CONSTANTS
  OpenMax = 16
  ReplaceMax = 10
  CountMod = 16
  StdFds = {1, 2}
  NPATHS = 10
SPECIFICATION Spec
INVARIANTS
  EveryPathAlike
  HalfSetupUndone
