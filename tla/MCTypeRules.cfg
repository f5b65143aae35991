CONSTANTS
  None = None
  Content <- MCContent
  Loads <- MCLoads
  Rule <- MCRule
  Tables <- MCTables
  RefType <- MCRefType
  Queries <- MCQueries
  Cuts <- MCCuts
  MaxRules = 2
  MaxFiles = 3
SPECIFICATION Spec
INVARIANTS
  FilesExact
  RulesExact
  MatchExact
CHECK_DEADLOCK FALSE
