\* The encrypted flag is read before the request body is awaited.
CONSTANTS
  q1 = q1
  q2 = q2
  r1 = r1
  r2 = r2
  Requests = {q1}
  Rooms = {r1}
  Devices = {d1}
  Answers = {a1}
  RoomOf <- MCRoomOf
  Reactions = {}
  IgnoreVerification = FALSE
  HandlerCancellation = FALSE
  None = None
SPECIFICATION FairSpec
PROPERTIES PlainOnlyIfUnencrypted
CHECK_DEADLOCK FALSE
