CONSTANTS
  root = root
  a = a
  c1 = c1
  c2 = c2
  w1 = w1
  w2 = w2
  t1 = t1
  t2 = t2
  t3 = t3
  Path <- MCPath
  Ancestor <- MCAncestor
  Client = {c1, c2}
  Worker = {w1, w2}
  Token = {t1, t2}
  Requests <- MCRequests
  Timeouts = {1, 2}
  MaxTime = 1
  Horizon = 3
  MaxLists = 2
  MaxTracked = 2
  Infinite = Infinite
  NoLock = NoLock
  Null = Null
  NoOne = NoOne
  Off = Off
SPECIFICATION Spec
SYMMETRY MCSymmetry
INVARIANT TypeOK
INVARIANT ReleasedOnce
INVARIANT SnapshotsAreCurrent
INVARIANT ExpirationIsWatched
PROPERTY OnlyRefreshedDieEarly
PROPERTY Contract
CHECK_DEADLOCK FALSE
