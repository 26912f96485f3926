SPECIFICATION Spec
CONSTANTS
  r1 = r1
  r2 = r2
  p = p
  q = q
  a = a
  b = b
  Request = {r1, r2}
  DeadName = {p, q}
  Value = {a, b}
  DefaultName = a
  Bodies <- Together
  Throwing = {p, "getlastmodified"}
  Ancestors = 1
  Absent = Absent
  Unread = Unread
INVARIANT RequestsAreConsistent
INVARIANT RefusedIsUndone
INVARIANT AcceptedIsApplied
INVARIANT ETagTellsProperties
CHECK_DEADLOCK FALSE
