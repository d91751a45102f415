\* Two panctls, two runs of the daemon with two commands and one, two requests
\* of a device, one failed send.
CONSTANTS
  p1 = p1
  p2 = p2
  d1 = d1
  Panctls = {p1, p2}
  MaxCommands <- MCMaxCommands
  MaxRuns = 2
  None = None
  Devices = {d1}
  KeyRequests = {k1, k2}
  DeviceOf <- MCDeviceOf
  MaxFailures = 1
SPECIFICATION FairSpec
INVARIANTS TypeOK
PROPERTIES AnswersFindTheirPanctl ContinuedIsSent
CHECK_DEADLOCK FALSE
