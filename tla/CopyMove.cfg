SPECIFICATION TransferSpec
CONSTANTS
  alice = alice
  bob = bob
  t1 = t1
  t2 = t2
  t3 = t3
  t4 = t4
  Path <- MCPath
  Ancestor <- MCAncestor
  Above <- MCAbove
  Root <- MCRoot
  Client = {alice, bob}
  Token = {t1, t2, t3, t4}
  NoLock = NoLock
  NoToken = NoToken
  Trees <- MCTrees
  Named <- Few
  Methods <- Others
  Shares = {"exclusive"}
  Depths = {TRUE}
  LocksExpire = FALSE
  Cancellation = FALSE
  Requests <- OneAndTwo
  Transfers <- AliceTransfers
  Infinite = 9
  CopyDepths <- MCDepths
  Overwrites = {TRUE, FALSE}
  InFileSystem = {TRUE, FALSE}
  Late <- MCLate
INVARIANT TransferIsTidy
INVARIANT TransferIsComplete
INVARIANT OverwriteForbidden
PROPERTY TransferRespectsLocks
CHECK_DEADLOCK FALSE
