SPECIFICATION FairSpec
CONSTANTS
  t1 = t1
  t2 = t2
  t3 = t3
  u1 = u1
  u2 = u2
  u3 = u3
  i1 = i1
  i2 = i2
  Txns = {t1, t2, t3}
  Users = {u1, u2, u3}
  Ids = {i1}
  SourceIds <- Transfers
  Payees <- Ring
  Amounts <- Funded
  Scale = 1
  FeeBps = 100
  NoRequest = NoRequest
PROPERTIES
  EveryTransactionEnds
INVARIANTS
  BooksBalance
