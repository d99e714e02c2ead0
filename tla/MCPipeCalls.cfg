SPECIFICATION FairSpec
CONSTANTS
  app = app  tool = tool
  r = r  s = s  x = x  y = y
  Clients = {app, tool}
  Requests <- MCRequests
  Asks <- MCAsks
  RouteResults <- MCResults
  MaxItems = 2
  MaxRules = 2
  MaxExecutables = 2
  MaxMetrics = 1
  MaxFrame = 10
  MaxCrashes = 1
  Malformed = Malformed
  NoClient = NoClient
  NoRequest = NoRequest
  NoResult = NoResult
  NoFrame = NoFrame
CHECK_DEADLOCK FALSE
INVARIANT ErrorsAreTrue
PROPERTY ImplementsRemoteCall
PROPERTY CallsReturn
