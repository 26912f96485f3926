CONSTANTS
  root = root
  a = a
  c1 = c1
  c2 = c2
  w1 = w1
  w2 = w2
  t1 = t1
  t2 = t2
  t3 = t3
  Path <- MCPath
  Ancestor <- MCAncestor
  Client = {c1, c2}
  Worker = {w1}
  Token = {t1, t2}
  Requests <- MCRequests
  Timeouts = {1}
  MaxTime = 2
  Horizon = 3
  MaxLists = 1
  MaxTracked = 3
  Infinite = Infinite
  NoLock = NoLock
  Null = Null
  NoOne = NoOne
  Off = Off
SPECIFICATION Spec
SYMMETRY MCSymmetry
PROPERTY NeverReleasedEarly
CHECK_DEADLOCK FALSE
