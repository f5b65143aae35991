SPECIFICATION Spec
CONSTANTS
  SpaceEnd = 7
  Items <- MCItems
  Addr <- MCAddr
  EndAddr <- MCEndAddr
  Types <- MCTypes
INVARIANTS
  TypeOK
  LeavesExact
  SplitsAtLeastTwo
  LeavesLinked
  QueriesExact
