CONSTANTS
  a = a  b = b  c = c  d = d  e = e
  String <- FiveStrings
  NoString = NoString
  Hash <- CollidingHash
  Size <- Sizes
  MinCap = 2
  ArenaCap = 5
  MaxFailures = 2
SPECIFICATION FairSpec
PROPERTY EveryCallReturns
