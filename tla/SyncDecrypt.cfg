\* A sync and a /messages request, two events of one room and sender, whose
\* keys drop each other when old keys are dropped.
CONSTANTS
  Requests = {q1, q2}
  Syncs = {q1}
  Events = {e1, e2}
  Malformed = {}
  r1 = r1
  d1 = d1
  Rooms = {r1}
  RoomOf <- MCRoomOf
  SenderOf <- MCSenderOf
  Filters <- MCFilters
SPECIFICATION FairSpec
INVARIANTS TypeOK StoreAgrees
PROPERTIES NothingGivenUp DecryptedStays EveryBodyReturned
CHECK_DEADLOCK FALSE
