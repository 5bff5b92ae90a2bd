-------------------------------- MODULE Wallet --------------------------------
(***************************************************************************)
(* The player wallet of src/src/modules/economy: the balance row and the   *)
(* ledger of one currency, and the five kinds of database transaction that *)
(* write them.                                                             *)
(*                                                                         *)
(*   "credit"    CreditWalletTransaction    (match, refund, admin ...)     *)
(*   "debit"     DebitWalletTransaction     (stake, purchase, payout ...)  *)
(*   "reverse"   ReverseWalletTransaction   (administrator correction)     *)
(*   "grant"     the season reward of LeaderboardRewardService.applyReward *)
(*               and the tier reward of AwardProgressionPoints             *)
(*               .creditCurrency, which write the balance row themselves   *)
(*   "transfer"  TransferGldTransaction     (player to player, with a fee) *)
(*                                                                         *)
(* A transaction is PostgreSQL's at READ COMMITTED: it begins by claiming  *)
(* its idempotency row, takes its locks one at a time (SELECT .. FOR       *)
(* UPDATE on a balance row, pg_advisory_xact_lock on a pair of players),   *)
(* re-reads each row it locked, and then commits or is rolled back as a    *)
(* whole.  Its writes are invisible until it commits, so they are made in  *)
(* the commit step, from the values it re-read.                            *)
(*                                                                         *)
(* Abstractions.  One currency: a balance row per player and currency is   *)
(* locked and written on its own.  Each caller's sourceType is fixed, so a *)
(* ledger key keeps only the source id.  A ledger row stands also for the  *)
(* audit and "wallet.gld.updated" outbox rows written with it.  Amounts    *)
(* are counted in exact units, Scale of them to a whole unit (10^6 in the  *)
(* code: six decimals).  Wallets stay ACTIVE: no code path changes the     *)
(* status, and registration creates every balance row with zero.           *)
(***************************************************************************)
EXTENDS Integers, Sequences, FiniteSets, FiniteSetsExt

CONSTANTS
  Txns,        \* database transactions that can be open at the same time
  Users,       \* players
  Ids,         \* source ids and idempotency keys
  SourceIds,   \* SourceIds[op]: the ids the callers of op pass to it
  Payees,      \* Payees[u]: the players u sends transfers to
  Amounts,     \* Amounts[op]: the exact amounts they pass
  Scale,       \* exact units in one whole unit
  FeeBps,      \* GldAdminControl.gldTransferFeeBps
  NoRequest    \* the content of an idle transaction slot

Ops == {"credit", "debit", "reverse", "grant", "transfer"}

Request == [op: Ops, user: Users, to: Users, sid: Ids, exact: Nat, orig: Nat]

ASSUME UsersAssumption == IsFiniteSet(Users)
ASSUME IdsAssumption == SourceIds \in [Ops -> SUBSET Ids]
ASSUME PayeesAssumption ==
  Payees \in [Users -> SUBSET Users] /\ \A u \in Users : u \notin Payees[u]
ASSUME AmountsAssumption == Amounts \in [Ops -> SUBSET Nat]
ASSUME ScaleAssumption == Scale \in Nat \ {0}
ASSUME FeeAssumption == FeeBps \in Nat
ASSUME NoRequestAssumption == NoRequest \notin Request

VARIABLES
  balance,  \* WalletBalance: [Users -> [amount, exact]]
  ledger,   \* WalletTransaction rows in commit order; a row's id is its index
  idem,     \* IdempotencyKey rows: the requests whose key is taken
  grants,   \* RewardGrant keys
  burned,   \* GldBurnEvent total, in exact units
  tx,       \* the request each transaction slot is executing
  want,     \* the locks it has still to take, in order
  holds,    \* the locks it holds
  seen,     \* the balance rows as it re-read them under their lock
  prior     \* a reversal: whether it found one of the same row, under its lock

store == <<balance, ledger, idem, grants, burned>>
session == <<tx, want, holds, seen, prior>>
vars == <<store, session>>

-----------------------------------------------------------------------------
(* Requests, keys and amounts *)

\* The whole part of an exact amount: the legacy BIGINT column.
Floor(exact) == exact \div Scale

\* Rewards and transfers are in whole units.
WholeAmounts(op) == {a \in Amounts[op] : a > 0 /\ a % Scale = 0}

\* The transfer fee, rounded up to a whole unit.
Fee(exact) == ((Floor(exact) * FeeBps + 9999) \div 10000) * Scale

AmountsOf(op) ==
  CASE op = "credit"  -> Amounts[op]
    [] op = "debit"   -> Amounts[op] \ {0}
    [] op = "reverse" -> {0}
    [] OTHER          -> WholeAmounts(op)

\* What callers can ask of op; only a reversal names a ledger row.
RequestsOf(op) ==
  [op: {op}, user: Users, to: Users, sid: SourceIds[op], exact: AmountsOf(op),
   orig: IF op = "reverse" THEN DOMAIN ledger ELSE {0}]

Requests == UNION {RequestsOf(op) : op \in Ops}

\* Only a transfer has a recipient; only the owner can have a row reversed,
\* and a reversal is not reversible.
WellFormed(r) ==
  /\ IF r.op = "transfer" THEN r.to \in Payees[r.user] ELSE r.to = r.user
  /\ r.op = "reverse" => /\ r.orig \in DOMAIN ledger
                         /\ ledger[r.orig].user = r.user
                         /\ ledger[r.orig].dir # "REVERSAL"

\* The unique key of the IdempotencyKey row (for a grant: of the RewardGrant).
IdemKey(r) == <<r.op, r.user, r.sid>>

\* Mutant of GrantKey: the player is left out of the key.
GrantKey_NoPlayer(r, user) == <<"wallet", r.sid, 0, 0>>

\* WalletTransaction.grantKey, unique.  A credit and a debit of one source id
\* share it: the direction is not part of the key.
GrantKey(r, user) ==
  CASE r.op \in {"credit", "debit"} -> <<"wallet", r.sid, user, 0>>
    [] r.op = "reverse"             -> <<"reversal", r.sid, user, r.orig>>
    [] r.op = "grant"               -> <<"grant", r.sid, user, 0>>
    [] r.op = "transfer"            -> <<"transfer", r.sid, user, r.user>>

GrantKeys ==
  {"wallet", "grant"} \X Ids \X Users \X {0}
    \cup {"reversal"} \X Ids \X Users \X Nat
    \cup {"transfer"} \X Ids \X Users \X Users

LedgerKeys == {ledger[i].key : i \in DOMAIN ledger}

\* A balance row is locked as the singleton of its player, the advisory lock
\* of a transfer as the pair of its players.
LocksOf(r) ==
  IF r.op = "transfer" THEN <<{r.user, r.to}, {r.user}, {r.to}>>
                       ELSE <<{r.user}>>

Open(t) == tx[t] # NoRequest

-----------------------------------------------------------------------------
NoRows == [u \in Users |-> [amount |-> 0, exact |-> 0]]

Init ==
  /\ balance = NoRows
  /\ ledger = <<>>
  /\ idem = {}
  /\ grants = {}
  /\ burned = 0
  /\ tx = [t \in Txns |-> NoRequest]
  /\ want = [t \in Txns |-> <<>>]
  /\ holds = [t \in Txns |-> {}]
  /\ seen = [t \in Txns |-> NoRows]
  /\ prior = [t \in Txns |-> FALSE]

\* Mutant of Kept: pg_advisory_lock in place of pg_advisory_xact_lock.
Kept_SessionLock(t) == {l \in holds[t] : Cardinality(l) = 2}

\* The locks that outlive a transaction: none.
Kept(t) == {}

\* The slot returns to the pool and its locks are released.
Close(t) ==
  /\ tx' = [tx EXCEPT ![t] = NoRequest]
  /\ want' = [want EXCEPT ![t] = <<>>]
  /\ holds' = [holds EXCEPT ![t] = Kept(t)]
  /\ seen' = [seen EXCEPT ![t] = NoRows]
  /\ prior' = [prior EXCEPT ![t] = FALSE]

\* An open transaction has inserted the same unique idempotency row: the
\* upsert waits until that transaction ends.
KeyBusy(r) == \E s \in Txns : Open(s) /\ IdemKey(tx[s]) = IdemKey(r)

\* The key was used for a request with another hash: ConflictException.
HashConflict(r) == \E q \in idem : IdemKey(q) = IdemKey(r) /\ q # r

\* The request's ledger row exists already (for a transfer its COMPLETED
\* idempotency row, for a grant its RewardGrant).
AlreadyDone(r) ==
  CASE r.op = "transfer" -> r \in idem
    [] r.op = "grant"    -> GrantKey(r, r.user) \in grants
    [] OTHER             -> GrantKey(r, r.user) \in LedgerKeys

\* The transaction claims its idempotency row and finds no earlier result.
Begin(t, r) ==
  /\ ~Open(t)
  /\ WellFormed(r)
  /\ ~KeyBusy(r)
  /\ ~HashConflict(r)
  /\ ~AlreadyDone(r)
  /\ tx' = [tx EXCEPT ![t] = r]
  /\ want' = [want EXCEPT ![t] = LocksOf(r)]
  /\ UNCHANGED <<store, holds, seen, prior>>

\* An earlier result is found and returned: nothing is moved, the idempotency
\* row is written and a credit makes sure of its RewardGrant.
Replay(t, r) ==
  /\ ~Open(t)
  /\ WellFormed(r)
  /\ ~KeyBusy(r)
  /\ ~HashConflict(r)
  /\ AlreadyDone(r)
  /\ idem' = IF r.op = "grant" THEN idem ELSE idem \cup {r}
  /\ grants' = IF r.op = "credit" THEN grants \cup {GrantKey(r, r.user)} ELSE grants
  /\ UNCHANGED <<balance, ledger, burned, session>>

AlreadyReversed(i) == \E j \in DOMAIN ledger : ledger[j].reverses = i

\* Mutant of LockFree: the row is read without FOR UPDATE.
LockFree_Unlocked(t) == TRUE

LockFree(t) == \A s \in Txns \ {t} : Head(want[t]) \notin holds[s]

\* The next lock is granted and, if it is a balance row, the row is re-read; a
\* reversal then looks for an earlier reversal of its row.
Acquire(t) ==
  /\ want[t] # <<>>
  /\ LockFree(t)
  /\ want' = [want EXCEPT ![t] = Tail(@)]
  /\ holds' = [holds EXCEPT ![t] = @ \cup {Head(want[t])}]
  /\ seen' = [seen EXCEPT ![t] =
                [u \in Users |-> IF {u} = Head(want[t]) THEN balance[u] ELSE @[u]]]
  /\ prior' = [prior EXCEPT ![t] = tx[t].op = "reverse" /\ AlreadyReversed(tx[t].orig)]
  /\ UNCHANGED <<store, tx>>

-----------------------------------------------------------------------------
(* Commits: each writes from the values re-read under the locks *)

Ready(t, op) == Open(t) /\ want[t] = <<>> /\ tx[t].op = op

\* CreditWalletTransaction and DebitWalletTransaction work on the exact
\* amount and store its whole part beside it.
Moved(b, delta) == [amount |-> Floor(b.exact + delta), exact |-> b.exact + delta]

ExactEntry(user, dir, key, exact, old, new) ==
  [user |-> user, dir |-> dir, key |-> key, amount |-> Floor(exact), exact |-> exact,
   before |-> old.amount, after |-> new.amount,
   exactBefore |-> old.exact, exactAfter |-> new.exact, reverses |-> 0]

\* A row written without the exact columns: they keep their default, zero.
LegacyEntry(user, dir, key, amount, old, new, reverses) ==
  [user |-> user, dir |-> dir, key |-> key, amount |-> amount, exact |-> 0,
   before |-> old.amount, after |-> new.amount,
   exactBefore |-> 0, exactAfter |-> 0, reverses |-> reverses]

\* Mutant of KeyFree: no unique index on grantKey.
KeyFree_NoIndex(key) == TRUE

\* The insert of a ledger row meets no other row of its unique key.
KeyFree(key) == key \notin LedgerKeys

\* The transaction commits, adding the entry to the ledger.
Post(t, entry) ==
  /\ ledger' = Append(ledger, entry)
  /\ Close(t)

Credit(t) ==
  LET r == tx[t]
      key == GrantKey(r, r.user)
      old == seen[t][r.user]
      new == Moved(old, r.exact)
  IN /\ Ready(t, "credit")
     /\ KeyFree(key)
     /\ balance' = [balance EXCEPT ![r.user] = new]
     /\ Post(t, ExactEntry(r.user, "CREDIT", key, r.exact, old, new))
     /\ idem' = idem \cup {r}
     /\ grants' = grants \cup {key}
     /\ UNCHANGED burned

\* Mutant of Covers: the balance is checked in the whole column.
Covers_Whole(b, exact) == b.amount >= Floor(exact)

Covers(b, exact) == b.exact >= exact

Debit(t) ==
  LET r == tx[t]
      key == GrantKey(r, r.user)
      old == seen[t][r.user]
      new == Moved(old, -r.exact)
  IN /\ Ready(t, "debit")
     /\ KeyFree(key)
     /\ Covers(old, r.exact)
     /\ balance' = [balance EXCEPT ![r.user] = new]
     /\ Post(t, ExactEntry(r.user, "DEBIT", key, r.exact, old, new))
     /\ idem' = idem \cup {r}
     /\ UNCHANGED <<grants, burned>>

\* What a reversal leaves of the whole balance; the exact one is not written.
Reversed(b, row) ==
  [amount |-> IF row.dir = "CREDIT" THEN b.amount - row.amount ELSE b.amount + row.amount,
   exact |-> b.exact]

Reversal(t) ==
  LET r == tx[t]
      row == ledger[r.orig]
      old == seen[t][r.user]
      new == Reversed(old, row)
  IN /\ Ready(t, "reverse")
     /\ ~prior[t]
     /\ new.amount >= 0
     /\ balance' = [balance EXCEPT ![r.user].amount = new.amount]
     /\ Post(t, LegacyEntry(r.user, "REVERSAL", GrantKey(r, r.user), row.amount, old, new, r.orig))
     /\ idem' = idem \cup {r}
     /\ UNCHANGED <<grants, burned>>

\* A season or tier reward adds to the whole balance and leaves the exact one.
Granted(b, amount) == [amount |-> b.amount + amount, exact |-> b.exact]

Grant(t) ==
  LET r == tx[t]
      key == GrantKey(r, r.user)
      old == seen[t][r.user]
      new == Granted(old, Floor(r.exact))
  IN /\ Ready(t, "grant")
     /\ key \notin grants
     /\ balance' = [balance EXCEPT ![r.user].amount = new.amount]
     /\ Post(t, LegacyEntry(r.user, "CREDIT", key, Floor(r.exact), old, new, 0))
     /\ grants' = grants \cup {key}
     /\ UNCHANGED <<idem, burned>>

\* Mutant of Charge: the fee is burned but not charged.
Charge_NoFee(exact) == exact

\* What a transfer takes from the sender.
Charge(exact) == exact + Fee(exact)

Transfer(t) ==
  LET r == tx[t]
      paid == Moved(seen[t][r.user], -Charge(r.exact))
      got == Moved(seen[t][r.to], r.exact)
  IN /\ Ready(t, "transfer")
     /\ Covers(seen[t][r.user], Charge(r.exact))
     /\ balance' = [balance EXCEPT ![r.user] = paid, ![r.to] = got]
     /\ ledger' = Append(Append(ledger,
          ExactEntry(r.user, "DEBIT", GrantKey(r, r.user), Charge(r.exact), seen[t][r.user], paid)),
          ExactEntry(r.to, "CREDIT", GrantKey(r, r.to), r.exact, seen[t][r.to], got))
     /\ idem' = idem \cup {r}
     /\ grants' = grants \cup {GrantKey(r, r.to)}
     /\ burned' = burned + Fee(r.exact)
     /\ Close(t)

-----------------------------------------------------------------------------
(* Rollbacks *)

Rollback(t) == Open(t) /\ Close(t) /\ UNCHANGED store

\* The handler throws after it has its locks, or an insert meets the unique
\* ledger key: insufficient balance, already reversed, reversed credit spent.
Refused(t) ==
  LET r == tx[t]
      key == GrantKey(r, r.user)
      old == seen[t][r.user]
  IN CASE r.op = "credit"   -> ~KeyFree(key)
       [] r.op = "debit"    -> ~KeyFree(key) \/ ~Covers(old, r.exact)
       [] r.op = "reverse"  -> prior[t] \/ Reversed(old, ledger[r.orig]).amount < 0
       [] r.op = "grant"    -> key \in grants
       [] r.op = "transfer" -> ~Covers(old, Charge(r.exact))

Refuse(t) == Open(t) /\ want[t] = <<>> /\ Refused(t) /\ Rollback(t)

\* s holds the lock t waits for.
WaitsFor(t, s) == want[t] # <<>> /\ s # t /\ Head(want[t]) \in holds[s]

Deadlocked(t) ==
  \E S \in SUBSET Txns :
    /\ t \in S
    /\ \A p \in S : (\E q \in S : WaitsFor(p, q)) /\ (\E q \in S : WaitsFor(q, p))

\* PostgreSQL breaks a cycle of lock waits by aborting a member of it.
DeadlockVictim(t) == Deadlocked(t) /\ Rollback(t)

\* The process dies, the connection drops or Prisma's transaction timeout
\* passes.
Abort(t) == Rollback(t)

-----------------------------------------------------------------------------
Next ==
  \/ \E t \in Txns, r \in Requests : Begin(t, r) \/ Replay(t, r)
  \/ \E t \in Txns : \/ Acquire(t)
                      \/ Credit(t)
                      \/ Debit(t)
                      \/ Reversal(t)
                      \/ Grant(t)
                      \/ Transfer(t)
                      \/ Refuse(t)
                      \/ DeadlockVictim(t)
                      \/ Abort(t)

\* The steps an open transaction takes towards its end.
Commit(t) == Credit(t) \/ Debit(t) \/ Reversal(t) \/ Grant(t) \/ Transfer(t)

\* A transaction that can run is run, the deadlock detector acts, and a
\* PostgreSQL lock queue is first come first served, so a transaction that is
\* again and again next for a free lock is given it.  No caller has to call.
Fairness ==
  \A t \in Txns : /\ SF_vars(Acquire(t))
                  /\ WF_vars(Commit(t) \/ Refuse(t))
                  /\ WF_vars(DeadlockVictim(t))

Spec == Init /\ [][Next]_vars

FairSpec == Spec /\ Fairness

-----------------------------------------------------------------------------
(* Properties *)

Balance == [amount: Int, exact: Int]

Entry == [user: Users, dir: {"CREDIT", "DEBIT", "REVERSAL"}, key: GrantKeys,
          amount: Int, exact: Int, before: Int, after: Int,
          exactBefore: Int, exactAfter: Int, reverses: Nat]

Locks == SUBSET Users

StoreType ==
  /\ balance \in [Users -> Balance]
  /\ ledger \in Seq(Entry)
  /\ idem \subseteq Request
  /\ grants \subseteq GrantKeys
  /\ burned \in Nat

SessionType ==
  /\ tx \in [Txns -> Request \cup {NoRequest}]
  /\ want \in [Txns -> Seq(Locks)]
  /\ holds \in [Txns -> SUBSET Locks]
  /\ seen \in [Txns -> [Users -> Balance]]
  /\ prior \in [Txns -> BOOLEAN]

\* The types of the tables and of the open transactions.
TypeOK == StoreType /\ SessionType

RowsOf(rows, u) == {i \in DOMAIN rows : rows[i].user = u}

\* The rows of u form a chain from zero to the balance b.
Chain(rows, u, b) ==
  /\ RowsOf(rows, u) = {} => b = 0
  /\ \A j \in RowsOf(rows, u) :
       /\ (\A i \in RowsOf(rows, u) : i >= j) => rows[j].before = 0
       /\ (\A i \in RowsOf(rows, u) : i <= j) => rows[j].after = b
       /\ \A i \in RowsOf(rows, u) :
            i < j /\ (\A k \in RowsOf(rows, u) : k <= i \/ j <= k)
              => rows[j].before = rows[i].after

\* The ledger of a player is one unbroken chain: each row starts from the whole
\* balance the row before it left, the first from zero, and the balance row is
\* where the last one ended.  A balance read before its lock is taken, or a
\* write that makes no ledger row, breaks it (FOR UPDATE and the re-read in
\* credit-wallet-transaction.ts:48-54 and its siblings).
LedgerChain == \A u \in Users : Chain(ledger, u, balance[u].amount)

(* What the locks guarantee while transactions are open: the parts of the
   inductive invariant that LedgerChain and ReversedOnce rest on. *)

\* No lock is held twice.
Exclusive == \A s, t \in Txns : s # t => holds[s] \cap holds[t] = {}

\* A locked balance row has not changed since it was re-read.
Fresh == \A t \in Txns, u \in Users : {u} \in holds[t] => seen[t][u] = balance[u]

\* An idle slot holds nothing and waits for nothing.
IdleIsFree == \A t \in Txns : ~Open(t) => want[t] = <<>> /\ holds[t] = {}

\* Every lock of an open transaction is held or still to come.
Complete ==
  \A t \in Txns : Open(t) =>
    \A i \in DOMAIN LocksOf(tx[t]) :
      \/ LocksOf(tx[t])[i] \in holds[t]
      \/ \E j \in DOMAIN want[t] : want[t][j] = LocksOf(tx[t])[i]

\* What a request was validated against stays true while it runs.
StaysWellFormed == \A t \in Txns : Open(t) => WellFormed(tx[t])

\* The answer of the prior-reversal query stays true while the lock is held.
FreshPrior ==
  \A t \in Txns :
    Open(t) /\ tx[t].op = "reverse" /\ {tx[t].user} \in holds[t]
      => prior[t] = AlreadyReversed(tx[t].orig)

\* No player's balance is overdrawn, in whole units or in exact ones, in
\* whatever order debits, transfers and reversals of one wallet are locked.
NeverOverdrawn == \A u \in Users : balance[u].amount >= 0 /\ balance[u].exact >= 0

\* A ledger row is reversed at most once, also by administrators who reverse it
\* at the same time under different source ids.
ReversedOnce ==
  \A i, j \in DOMAIN ledger :
    ledger[i].reverses # 0 /\ ledger[i].reverses = ledger[j].reverses => i = j

\* The inductive invariant.
WalletInv ==
  /\ TypeOK
  /\ Exclusive
  /\ Fresh
  /\ IdleIsFree
  /\ Complete
  /\ StaysWellFormed
  /\ FreshPrior
  /\ LedgerChain
  /\ NeverOverdrawn
  /\ ReversedOnce

\* No source is paid or charged twice: a retried or concurrent call with the
\* same source id adds no second row.
PaidOnce ==
  \A i, j \in DOMAIN ledger : ledger[i].key = ledger[j].key => i = j

Signed(row) == CASE row.dir = "CREDIT" -> row.exact
                 [] row.dir = "DEBIT"  -> -row.exact
                 [] OTHER              -> 0

\* What the players hold.
Held(rows) == SumFunctionOnSet([u \in Users |-> rows[u].exact], Users)

\* What credits put in less what debits took out, transfers left aside.
OwnRows(rows) == {i \in DOMAIN rows : rows[i].key[1] # "transfer"}
Posted(rows) == SumFunctionOnSet([i \in DOMAIN rows |-> Signed(rows[i])], OwnRows(rows))

\* Exact money is neither made nor lost by a transfer or by a race: what the
\* players hold and what was burned is what was put in.
MoneyConserved == Held(balance) + burned = Posted(ledger)

\* The signed exact sum of the rows of u; rows without the exact columns add
\* nothing to it.
Total(rows, u) ==
  SumFunctionOnSet([i \in DOMAIN rows |-> Signed(rows[i])], RowsOf(rows, u))

\* Every player's exact balance is the signed sum of that player's own rows.
Reconciles == \A u \in Users : balance[u].exact = Total(ledger, u)

\* Every source is booked once, reversed once at most, and moves the player's
\* exact money by what its row says, in whatever order retries, rewards,
\* reversals and rollbacks interleave (the grant keys and row locks of
\* credit-wallet-transaction.ts:38-60).
Booked == PaidOnce /\ ReversedOnce /\ Reconciles

\* The exact books balance, for all players together and for each one, also when
\* rewards and reversals, which write the whole column alone, come between
\* credits, debits and transfers, and whatever is rolled back (the exact columns
\* of credit-, debit- and transfer-gld-transaction.ts).
BooksBalance == MoneyConserved /\ Reconciles

(* The parts of the inductive invariant that Booked and BooksBalance rest on. *)

\* No two open transactions have claimed one idempotency row.
KeysApart ==
  \A s, t \in Txns : Open(s) /\ Open(t) /\ IdemKey(tx[s]) = IdemKey(tx[t]) => s = t

\* The idempotency row of an open transfer is not yet that of a committed one.
TransferIsNew ==
  \A t \in Txns : Open(t) /\ tx[t].op = "transfer" =>
    \A q \in idem : IdemKey(q) # IdemKey(tx[t])

\* A reward's row has its RewardGrant, a reversal's key names the row it
\* reverses, and a transfer's rows have the idempotency row of their sender.
RowSource(row, granted, claimed) ==
  /\ row.key[1] = "grant" => row.key \in granted
  /\ row.key[1] = "reversal" => row.reverses = row.key[4] /\ row.reverses # 0
  /\ row.key[1] = "transfer" =>
       \E q \in claimed : IdemKey(q) = <<"transfer", row.key[4], row.key[2]>>

RowsHaveSources == \A i \in DOMAIN ledger : RowSource(ledger[i], grants, idem)

\* The inductive invariant of the books, beside WalletInv and Reconciles.
BookInv ==
  /\ KeysApart
  /\ TransferIsNew
  /\ RowsHaveSources
  /\ PaidOnce
  /\ MoneyConserved

\* An open transaction ends: lock waits, also three transfers in a circle, never
\* hold a player's wallet for ever.
EveryTransactionEnds == \A t \in Txns : Open(t) ~> ~Open(t)

=============================================================================
