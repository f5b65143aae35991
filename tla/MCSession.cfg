SPECIFICATION Spec
CONSTANTS
  Clients = {"a", "b"}
  Script <- MCScript
  MaxConnects = 1
  MaxTimeouts = 1
  MaxSignals = 1
INVARIANTS
  TypeOK
  OneSession
  OwnAnswer
PROPERTIES
  
  Stops
CHECK_DEADLOCK FALSE
