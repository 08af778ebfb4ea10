CONSTANTS
  OpenMax = 7
  ReplaceMax = 3
  StdFds = {0, 1, 2}
  CountMod = 8
SPECIFICATION PoolSpec
INVARIANTS
  AllOpenedTracked
