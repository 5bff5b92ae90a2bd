SPECIFICATION Spec
CONSTANTS
  u1 = u1  u2 = u2  u3 = u3  u4 = u4
  gold = gold  silver = silver  casual = casual  domino = domino  quiz = quiz
  Users = {u1, u2}
  Selections <- RankedOnly
  Wanted <- Anything
  Txns = {t1, t2}
  Keys = {}
  NoKey = NoKey
  Suspects = {}
  MaxTickets = 2
  BotGames = {}
  Casual = casual
  Domino = domino
  Stake <- Stakes
  FeeMicros <- Fee
  Micros = 10
  NoWork = NoWork
INVARIANTS
  RefundedOnce
