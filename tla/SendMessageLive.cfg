\* Liveness: two requests of a room, two answers, one device.
\* No symmetry, and no hung-up client that would excuse a stuck coroutine.
CONSTANTS
  q1 = q1
  q2 = q2
  r1 = r1
  r2 = r2
  Requests = {q1, q2}
  Rooms = {r1}
  Devices = {d1}
  Answers = {a1, a2}
  RoomOf <- MCRoomOf
  Reactions = {}
  IgnoreVerification = FALSE
  HandlerCancellation = FALSE
  None = None
SPECIFICATION FairSpec
PROPERTIES EveryRequestAnswered
CHECK_DEADLOCK FALSE
