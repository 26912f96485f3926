CONSTANTS
  root = root
  a = a
  ax = ax
  b = b
  t1 = t1
  t2 = t2
  t3 = t3
  e1 = e1
  tagA = tagA
  tagB = tagB
  NoLock = NoLock
  Missing = Missing
  Path <- MCPath
  Ancestor <- MCAncestor
  Token <- MCToken
  Expiration <- MCExpiration
  Headers <- MCHeaders
  Requested <- MCRequested
  EntityTagOf <- MCEntityTagOf
  Instants <- MCInstants
  Timeouts <- MCTimeouts
  Infinite <- MCInfinite
SPECIFICATION Spec
SYMMETRY MCSymmetry
INVARIANT TypeOK
INVARIANT ExclusiveMeansAlone
INVARIANT IfHeaderIsHonoured
INVARIANT TimesAreKept
CHECK_DEADLOCK FALSE
