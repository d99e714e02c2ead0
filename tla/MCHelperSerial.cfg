SPECIFICATION Spec
CONSTANTS
  d1 = d1  d2 = d2  en0 = en0  en1 = en1  gw = gw  r1 = r1  r2 = r2
  NoGateway = NoGateway
  NoRoute = NoRoute
  Specs <- MCSpecs
  Vias <- MCVias
  Sessions = {c1}
  Faults <- Survivable
INVARIANT TypeOK
INVARIANT SerialInv
INVARIANT NothingOrphaned
INVARIANT OkMeansInForce
INVARIANT OkLeavesNothingElse
