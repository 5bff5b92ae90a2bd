SPECIFICATION Spec
CONSTANTS
  t1 = t1
  t2 = t2
  t3 = t3
  u1 = u1
  u2 = u2
  u3 = u3
  i1 = i1
  i2 = i2
  Txns = {t1, t2}
  Users = {u1}
  Ids = {i1, i2}
  SourceIds <- AllOps
  Payees <- Anyone
  Amounts <- Fractions
  Scale = 2
  FeeBps = 100
  NoRequest = NoRequest
INVARIANTS
  TypeOK
  LedgerChain
  NeverOverdrawn
  Booked
