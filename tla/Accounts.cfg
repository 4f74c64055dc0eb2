SPECIFICATION Spec
CONSTANTS
  Requests = {r1, r2}
  MaxToken = 3
  MaxCode = 3
  MaxRequests = 4
  MaxAttempts = 2
  LoginLimit = 1
  VerifyLimit = 3
  ResendLimit = 2
SYMMETRY Slots
INVARIANT OneLiveTokenPerLogin
INVARIANT OneLiveCodeAndCapped
CHECK_DEADLOCK FALSE
