\* Three logins of one user and one of another, over three starts of the daemon.
CONSTANTS
  u1 = u1
  u2 = u2
  l4 = l4
  Users = {u1, u2}
  Logins = {l1, l2, l3, l4}
  UserOf <- MCUserOf
  Keyring = FALSE
  MaxStarts = 3
  None = None
SYMMETRY Symmetry
SPECIFICATION Spec
INVARIANTS TypeOK ServingClientSyncs TokenRestores KnownTokenIsServed OneLoopUnlessOverlap ShutdownStopsClients
CHECK_DEADLOCK FALSE
