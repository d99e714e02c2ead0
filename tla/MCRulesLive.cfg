SPECIFICATION FairSpec
CONSTANTS
  u = u  v = v  d = d  a = a  b = b  en0 = en0  en1 = en1  gw = gw
  t1 = t1  t2 = t2
  NoGateway = NoGateway
  NoRule = NoRule
  NoTask = NoTask
  RuleIds = {1}
  TaskIds = {t1, t2}
  Destinations <- OneUrl
  Ifaces = {en0}
  Gateways = {gw}
  Answers <- MCAnswers
  Found <- NothingFound
  Modes = {"custom", "default"}
  Operations <- OperationsThatWait
  Faults <- CaughtFaults
  MaxQueue = 2
  MaxLate = 1
CHECK_DEADLOCK FALSE
PROPERTY OperationsEnd
