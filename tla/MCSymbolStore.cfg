CONSTANTS
  None = None
  Parses <- MCParses
SPECIFICATION Spec
INVARIANTS
  LoadRestores
