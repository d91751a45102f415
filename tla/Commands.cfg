\* Two commands, also for a user nobody has a client for, and three changes of
\* the store that no command makes.  No symmetry, for the sake of liveness.
CONSTANTS
  Users = {u1, u2}
  PanUsers = {u1}
  Devices = {d1, d2}
  MaxCommands = 2
  MaxChanges = 3
SPECIFICATION FairSpec
INVARIANTS TypeOK DeviceListConverges AnsweredOnce
PROPERTIES AnsweredWhileRouterLives
CHECK_DEADLOCK FALSE
