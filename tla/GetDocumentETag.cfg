SPECIFICATION Spec
CONSTANTS
  w1 = w1
  w2 = w2
  Reader = {r1, r2}
  Writer = {w1}
  Initial = initial
  Size <- MCSize
  RangeLists <- MCRangeLists
  LoneRangeLists = {}
  Open = Open
  Nothing = Nothing
INVARIANT ETagIsNotReused
