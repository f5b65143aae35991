SPECIFICATION Spec
CONSTANTS
  N = 2
  Insts <- MCInsts
  Addr <- MCAddr
  Size <- MCSize
  Encloses <- MCEncloses
  Prob <- MCProb
  MinProb = 30
  Refs <- MCRefs
  Roots <- MCRoots
  Functions <- OneFunction
  SlubObjects <- OneSlubObject
  Enqueueable <- MCEnqueueable
  TooHigh = {"far"}
  GoodPages <- MCGoodPages
  Pages <- MCPages
  MaxBuilds = 1
INVARIANTS
  AddressExclusive
  SingleProcessor
  DuplicatesBounded
  NoWorkLost
  ReferencesCovered
  BuildersOutlived
CHECK_DEADLOCK FALSE
