CONSTANTS
  root = root
  a = a
  c1 = c1
  c2 = c2
  w1 = w1
  w2 = w2
  t1 = t1
  t2 = t2
  Path <- MCPath
  Ancestor <- MCAncestor
  Client = {c1}
  Worker = {w1}
  Token = {t1, t2}
  Requests <- MCRequests
  Timeouts <- MCTimeouts
  MaxTime = 2
  Horizon = 4
  MaxLists = 1
  MaxTracked = 3
  Infinite = Infinite
  NoLock = NoLock
  Null = Null
  NoOne = NoOne
  Off = Off
  StoreMayFail = TRUE
  MaxRestarts = 1
SPECIFICATION FairSQLiteSpec
INVARIANT SQLiteTypeOK
INVARIANT RestartKeepsTimeouts
INVARIANT SemaphoreIsReleased
PROPERTY Contract
PROPERTY ExpiredIsReleasedOnceLoaded
PROPERTY CallsReturn
CHECK_DEADLOCK FALSE
