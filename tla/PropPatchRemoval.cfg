SPECIFICATION Spec
CONSTANTS
  r1 = r1
  r2 = r2
  p = p
  q = q
  a = a
  b = b
  Request = {r1}
  DeadName = {p, q}
  Value = {a, b}
  DefaultName = a
  Bodies <- RemovalThenFailure
  Throwing = {}
  Ancestors = 1
  Absent = Absent
  Unread = Unread
INVARIANT AllOrNothing
CHECK_DEADLOCK FALSE
