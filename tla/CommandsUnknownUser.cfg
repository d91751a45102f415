\* A command for a user without a pan client ends the router task.
CONSTANTS
  Users = {u1, u2}
  PanUsers = {u1}
  Devices = {d1}
  MaxCommands = 3
  MaxChanges = 2
SPECIFICATION FairSpec
PROPERTIES EveryCommandAnswered
CHECK_DEADLOCK FALSE
