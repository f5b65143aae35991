SPECIFICATION FairSpec
CONSTANTS
  N = 2
  Insts <- MCInsts
  Addr <- MCAddr
  Size <- MCSize
  Encloses <- MCEncloses
  Prob <- MCProb
  MinProb = 30
  Refs <- MCRaceRefs
  Roots <- TwoRoots
  Functions <- NoInsts
  SlubObjects <- NoInsts
  Enqueueable <- MCEnqueueable
  TooHigh = {"far"}
  GoodPages <- MCGoodPages
  Pages <- MCPages
  MaxBuilds = 2
PROPERTIES
  BuildTerminates
CHECK_DEADLOCK FALSE
