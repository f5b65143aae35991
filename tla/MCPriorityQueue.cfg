SPECIFICATION Spec
CONSTANTS
  Keys = {1, 2, 4, 5}
  Values = {v1, v2, v3, v4, v5}
  End = End
SYMMETRY ValueSymmetry
INVARIANTS
  Sorted
PROPERTIES
  KeepsPromise
