CONSTANTS
  NFUNCS = 5
  TextLength = 0
  Jobs = {1, 2, 3}
  NoList = NoList
  MaxEntries = 0
  Lists <- MCShardLists
SPECIFICATION Spec
INVARIANT RemaindersInLast
