SPECIFICATION FairSpec
CONSTANTS
  u1 = u1  u2 = u2  u3 = u3  u4 = u4
  gold = gold  silver = silver  casual = casual  domino = domino  quiz = quiz
  Users = {u1, u2, u3}
  Selections <- Arenas2
  Wanted <- ByArena
  Txns = {t1}
  Keys = {}
  NoKey = NoKey
  Suspects = {u3}
  MaxTickets = 3
  BotGames = {}
  Casual = casual
  Domino = domino
  Stake <- Stakes
  FeeMicros <- Fee
  Micros = 10
  NoWork = NoWork
INVARIANTS
  MatchesAreSound
PROPERTIES
  PairIsMatched
  AbandonedIsClosed
