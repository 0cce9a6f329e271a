SPECIFICATION FairSpec
CONSTANTS
  Mails = {m1, m2}
  Relays = {r1, r2}
  MaxAttempts = 3
  MaxFaults = 2
  NULL = NULL
INVARIANTS
  TypeOK
  DeliveredAsMarked
  AttemptsAreSpaced
PROPERTIES
  MailsEnd
CHECK_DEADLOCK FALSE
