SPECIFICATION Spec
CONSTANTS
  w1 = w1
  w2 = w2
  Reader = {r1}
  Writer = {w1, w2}
  Initial = initial
  Size <- MCSize
  RangeLists <- MCRangeLists
  LoneRangeLists <- MCLoneRangeLists
  Open = Open
  Nothing = Nothing
INVARIANTS
  CacheIsCoherent
  RangesAreServed
