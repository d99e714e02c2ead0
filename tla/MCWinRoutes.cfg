SPECIFICATION Spec
CONSTANTS
  d1 = d1  d2 = d2  eth = eth  wifi = wifi  gw = gw  none = none
  t1 = t1  t2 = t2  chrome = chrome  edge = edge
  Routes <- MCRoutes
  Invalid <- MCInvalid
  Requests <- SingleRequests
  Foreign <- MCForeign
  Flows <- OneFlow
  Faults <- AllFaults
INVARIANT TypeOK
INVARIANT OrphansOnlyWhenLossy
INVARIANT OkMeansInForce
INVARIANT ResetReachesFlows
