\* Two logins of a user that overlap.
CONSTANTS
  u1 = u1
  u2 = u2
  l4 = l4
  Users = {u1, u2}
  Logins = {l1, l2}
  UserOf <- MCUserOf
  Keyring = FALSE
  MaxStarts = 3
  None = None
SPECIFICATION Spec
INVARIANTS OneLoopPerUser
CHECK_DEADLOCK FALSE
