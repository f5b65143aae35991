SPECIFICATION FairSpec
CONSTANTS
  Main = main
  Builders = {b1, b2}
  NoThread = nobody
  Levels = 2
  Span <- MCSpan
  TableSize = 2
  PageOffset = 2
  HighMemory = 4
  KernelMap = 8
  ModulesVaddr = 10
  VirtEnd = 15
  PhysEnd = 14
  Memory <- MCMemory
  RootTable = 0
  Jobs <- MCJobs
  MaxCalls = 1
INVARIANTS
  TypeOK
  BytesExact
  AnswersExact
PROPERTIES
  PositionOwned
  CallsEnd
