\* Two rooms, four events in any order of the rooms, one event per room in a
\* sync, two in a batch of history, two faults.
CONSTANTS
  r1 = r1
  r2 = r2
  Rooms = {r1, r2}
  MaxEvents = 4
  Messages <- EventsIndexed
  Limit = 1
  BatchSize = 2
  MaxFaults = 2
  NoToken = NoToken
SPECIFICATION FairSpec
INVARIANTS TypeOK NothingLost
PROPERTIES TokenAfterCommit EveryMessageIndexed
CHECK_DEADLOCK FALSE
