CONSTANTS
    SeatCount = 3
    Bots = {1}
    MaxPip = 3
    HandSize = 3
    TargetScore = 8
    MaxRounds = 2
    Deals <- MCDeals
    MaxActions = 2
SPECIFICATION Spec
INVARIANTS TypeOK OneZone RoundEndsRight PassesForced
PROPERTIES ScoredOnce EveryMatchEnds
CHECK_DEADLOCK FALSE
