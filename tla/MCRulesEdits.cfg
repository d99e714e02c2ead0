SPECIFICATION Spec
CONSTANTS
  u = u  v = v  d = d  a = a  b = b  en0 = en0  en1 = en1  gw = gw
  t1 = t1  t2 = t2
  NoGateway = NoGateway
  NoRule = NoRule
  NoTask = NoTask
  RuleIds = {1}
  TaskIds = {t1, t2}
  Destinations <- TwoUrls
  Ifaces = {en0}
  Gateways = {gw, NoGateway}
  Answers <- SureAnswers
  Found <- MCFound
  Modes = {"custom", "default"}
  Operations <- AllEdits
  Faults <- NoFault
  MaxQueue = 2
  MaxLate = 1
CHECK_DEADLOCK FALSE
SYMMETRY TaskSymmetry
INVARIANT TypeOK
INVARIANT DeletedStaysDeleted
INVARIANT LastToggleWins
INVARIANT LastEditWins
INVARIANT SubRulesBelong
INVARIANT TableFollowsRules
INVARIANT SubTogglesKept
