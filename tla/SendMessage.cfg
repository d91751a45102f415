\* Two requests of one room, two answers, one device: every way a prompt can
\* end, with the second request queued behind it.
CONSTANTS
  q1 = q1
  q2 = q2
  r1 = r1
  r2 = r2
  Requests = {q1, q2}
  Rooms = {r1, r2}
  Devices = {d1}
  Answers = {a1, a2}
  RoomOf <- MCRoomOf
  Reactions = {}
  IgnoreVerification = FALSE
  HandlerCancellation = TRUE
  None = None
SYMMETRY Symmetry
SPECIFICATION Spec
INVARIANTS TypeOK OnePromptPerRoom PostedAtMostOnce AnswerDecidesOne AnswerLostOnlyAfterDecision
PROPERTIES IgnoredByConsent GateSpec
CHECK_DEADLOCK FALSE
