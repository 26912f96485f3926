SPECIFICATION Spec
CONSTANTS
  root = root
  c = c
  cd = cd
  alice = alice
  bob = bob
  t1 = t1
  t2 = t2
  t3 = t3
  Path <- MCPath
  Ancestor <- MCAncestor
  Above <- MCAbove
  Root = root
  Client = {alice, bob}
  Token = {t1, t2, t3}
  NoLock = NoLock
  NoToken = NoToken
  Trees <- JustFull
  Named <- BobAnywhere
  Methods <- AllOfThem
  Shares = {"exclusive", "shared"}
  Depths = {TRUE}
  LocksExpire = TRUE
  Cancellation = TRUE
  Requests <- OneAndThree
INVARIANT RequestsAreTidy
PROPERTY RespectsLocks
 
PROPERTY Contract
CHECK_DEADLOCK FALSE
