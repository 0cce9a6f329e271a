SPECIFICATION FairSpec
CONSTANTS
  Sessions = {s1}
  Sweepers = {w1, w2}
  Starts = {2, 3}
  MaxTime = 4
  MaxMoves = 1
  MaxAborts = 1
  Duration = 1
  HoldTTL = 1
  CheckoutWindow = 1
  RespondWindow = 1
  RespondLead = 1
  PaymentModes = {TRUE, FALSE}
  CaptureMayBeLost = FALSE
  NULL = NULL
PROPERTIES
  KeepsPromise
  
  
  UndecidedEnds
