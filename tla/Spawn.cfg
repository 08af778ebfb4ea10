CONSTANT Ticks = 2
SPECIFICATION FairSpawnSpec
INVARIANTS
  NothingLeftBehind
  TargetOutlivesGcore
PROPERTIES
  NoStrayKill
  TimedOperationsReturn
  SpawnReturns
