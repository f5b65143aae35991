CONSTANTS
  Files <- MCFiles
  MaxRounds = 5
SPECIFICATION Spec
INVARIANTS
  Justified
  LinksFollowed
PROPERTIES
  Ends
