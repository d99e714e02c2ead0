SPECIFICATION FairSpec
CONSTANTS
  r1 = r1  wifi = wifi
  NoRule = NoRule
  NoHandle = NoHandle
  Rules = {r1}
  Adapters = {wifi}
  Tables <- MCTables
  MaxApplies = 1
  TcpWorkers = {w1}
  UdpWorkers = {w2}
  Handles = {h1, h2}
INVARIANT TypeOK
INVARIANT CountsBalance
INVARIANT SocketsOwned
INVARIANT TcpFlowsFollowRules
INVARIANT StoppedIsQuiet
PROPERTY FlowsEnd
PROPERTY StopWaitsForMissed
CHECK_DEADLOCK FALSE
