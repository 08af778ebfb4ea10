CONSTANTS
  NFUNCS = 5
  TextLength = 3
  Jobs = {0, 1, 2, 3, 4, 5, 6}
  NoList = NoList
  MaxEntries = 3
  Lists <- MCLists
SPECIFICATION FairSpec
INVARIANTS
  OverrunStops
  
  AllOrders
  ShardsPartition
  ShardsBalanced
  OneArchive
  ReadsBack
PROPERTIES
  Finishes
