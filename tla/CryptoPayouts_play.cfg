SPECIFICATION FairSpec
CONSTANTS
  d1 = d1
  d2 = d2
  c1 = c1
  c2 = c2
  Deciders = {d1, d2}
  Callers = {c1}
  Verification = {TRUE, FALSE}
  AutoVerify = FALSE
  MaxPayouts = 2
INVARIANTS TypeOK PaidOrReturned
PROPERTIES FinishedIsBooked UndecidedEnds KeepsContract
CHECK_DEADLOCK FALSE
