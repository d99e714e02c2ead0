SPECIFICATION Spec
CONSTANTS
  a = a  b = b  c = c  en0 = en0  en1 = en1  en2 = en2  gw = gw
  NoGateway = NoGateway
  NoRule = NoRule
  Ids = {1, 2, 3}
  Choices <- MCChoices
INVARIANT ServedOrReported
PROPERTY EditsAreLocal
PROPERTY WithdrawalHandsOver
