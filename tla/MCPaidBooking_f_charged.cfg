SPECIFICATION Spec
CONSTANTS
  Sessions = {s1}
  Sweepers = {w1}
  Starts = {2, 3}
  MaxTime = 4
  MaxMoves = 1
  MaxAborts = 1
  Duration = 1
  HoldTTL = 1
  CheckoutWindow = 1
  RespondWindow = 1
  RespondLead = 1
  PaymentModes = {TRUE}
  CaptureMayBeLost = TRUE
  NULL = NULL
INVARIANTS
  DeclinedIsNotCharged
