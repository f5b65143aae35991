CONSTANTS
  None = None
  Workers = {w1, w2}
  w1 = w1
  w2 = w2
  Orders <- MCOrders
SPECIFICATION Spec
SYMMETRY WorkerSymmetry
INVARIANTS
  SymbolsExact
  TypesExact
  UsersExact
