CONSTANTS
  OpenMax = 7
  ReplaceMax = 3
  StdFds = {1, 2}
  CountMod = 17
SPECIFICATION PoolSpec
INVARIANTS
  PoolTypeOK
  MaxIsLargest
  NeverStarved
  PreexecSeesOnlyLeaks
  RoundRobin
PROPERTIES
  GetReturnsTracked
  NoNewStale
  LeakOnlyWhenReplacing
  KeepsPromise
  ReplaceBounds
