SPECIFICATION FairSpec
CONSTANTS
  h1 = h1  h2 = h2  b1 = b1
  Humans = {h1, h2}
  Bots = {b1}
  Setups <- EveryMode
  Nobody = Nobody
  NoSettlement = NoSettlement
  Right = 2
  Wrong = 1
  Stake = 10
  FeeMicros = 13
  Micros = 10
  MaxSequence = 2
INVARIANTS
  TypeOK
  OpenWhileAwaited
  FinishStands
  ScoreIsJournal
  PotPaidOnce
PROPERTIES
  SettledIsFinal
  EveryMatchEnds
CHECK_DEADLOCK FALSE
