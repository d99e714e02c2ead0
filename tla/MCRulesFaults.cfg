SPECIFICATION Spec
CONSTANTS
  u = u  v = v  d = d  a = a  b = b  en0 = en0  en1 = en1  gw = gw
  t1 = t1  t2 = t2
  NoGateway = NoGateway
  NoRule = NoRule
  NoTask = NoTask
  RuleIds = {1, 2}
  TaskIds = {t1}
  Destinations <- UrlAndAddress
  Ifaces = {en0, en1}
  Gateways = {gw}
  Answers <- SureAnswers
  Found <- NothingFound
  Modes = {"custom", "default"}
  Operations <- TogglesAndModes
  Faults <- HelperFaults
  MaxQueue = 2
  MaxLate = 1
CHECK_DEADLOCK FALSE
INVARIANT AppliedIsTrue
