# SMARTS backend: TLA+ models and proofs

The backend of a mobile quiz and mini-game platform: NestJS 11 and Prisma 7 over
PostgreSQL (`src/src`, schema in `src/prisma/schema.prisma`). Players queue for
matches, stake GLD in ranked arenas, play, are settled, move GLD between wallets
and have it paid out in crypto. This directory models the parts where money,
matches and friends meet concurrency, and one game engine; it checks them with TLC
and proves every safety property that holds of them with TLAPS, for all values of the
constants.

`PROJECT.json` lists the components, runs, mutants, the source lines behind each
definition, findings, hazards and theorems. This file explains them.

## 1. How the system executes

Everything that follows comes from four facts about the code.

* **Handlers are transactions.** A `PrismaTransaction` class
  (`common/helpers/prisma-transaction.ts`) runs its handler in one PostgreSQL
  transaction at READ COMMITTED. A throw rolls all of it back.
* **A plain Prisma read takes no lock.** A handler that reads a row, decides, and
  then writes `update({ where: { id } })` writes whatever the row has become. Such
  a handler is two steps in a model: one that reads into a slot, one that writes.
* **Some handlers lock first.** `SELECT ... FOR UPDATE` on the row, or an advisory
  lock keyed by player. A handler that locks before it reads is one step.
* **Workers tick.** Matchmaking and the cooperative queue every 2 s, crypto
  payouts every 30 s by default, the notification outbox every 5 s. A tick whose
  transaction fails is logged and followed by another. No queue is persisted
  outside PostgreSQL, so a crash is the abort of the open transactions, except
  where a handler calls an outside service between two transactions (payouts,
  notifications).

## 2. Inventory

Modelled components first; each has a section of its own below.

| Component | State | Operations | What is hard | What makes it correct |
|---|---|---|---|---|
| Wallet ledger (`economy`) | balance row (whole and exact column), ledger rows, idempotency rows, reward grants, burn events | credit, debit, reversal, season and tier reward, transfer | row and advisory locks, deadlocks, retries, two columns for one balance | ledger is a chain, no overdraft, nothing paid or reversed twice, exact money conserved and equal to each player's rows, lock waits end |
| Matchmaking queue (`matchmaking`) | tickets, matches, stake refunds, idempotency keys | enqueue, cancel, poll, sweep, claim a pair or fill with bots | unlocked reads, matcher run by polls and by the worker, retries, head-of-line blocking | one ticket per player, a ticket is seated once, a closed ticket has its stake back, a match its players' stakes, a waiting pair is matched |
| Friend invites, rematch, direct challenge (`matchmaking`, `matches`) | offer rows PENDING to ACCEPTED, DECLINED, CANCELED, EXPIRED; casual matches | invite, request, look, accept, decline, cancel, challenge | accepts lock the row, declines, cancels and looks write by id; a daily limit counted without a lock | an offer leads both players to one match |
| Match lifecycle (`matches`) | match and participant rows, event journal, settlement, ranked pot, held rewards | start, events, forfeit, complete, expire, settle, retry, release or cancel a hold | four ways to finish racing a slow worker; retries | the match ends, is settled once, results stand, pot paid once |
| Parties, cooperative matches (`cooperative`, `tile-rush`) | party, members, invites, queue entry, cooperative match, confirmations, board, fees | create, invite, accept, leave, queue, claim, confirm, expire, start, finish, settle, review | no handler but the claim locks what it read; a party can change under its match; three rows say what state a match is in | no fee before everybody has confirmed, then one from each; a match is settled once; every match ends |
| Domino (`domino`) | match, `DominoMatchState` JSON, action rows, results | start, action, pass, poll, forfeit, bots, next round, settle or hold for review | each request first brings the state up to date: deals, skips, scores, ends; bots and clocks act only when somebody polls | no tile lost or doubled, nobody loses a turn that could be played, a round is scored once and for the right seat, the match ends settled or in review |
| Friends and blocks (`friends`) | request, friendship (one row each way) and block rows | send, accept, decline, cancel, block, unblock, remove, make friends | every transaction reads without locks and writes by id | a friendship is seen from both sides or neither |
| Missions and achievements (`missions`) | counted events, progress rows, credits | record an event, claim a mission or tier | progress rows are read, computed and written back, by events and claims at once | a reward is paid once and for events that happened |
| Crypto payouts (`crypto-rewards`) | request, hold, provider id and status | create, cancel, approve, reject, expire, submit, verify, callback, poll, mark | outside calls between two writes, lost answers, callbacks late, repeated and out of order | nothing charged that was not sent; one payout per request, refunded only when unpaid, booked in the end, as far as decisions are not written late |

How they interact: matchmaking debits a stake with the ticket and credits it back
on cancel or expiry; the matcher, an accepted offer and the cooperative worker create
matches; settlement credits the pot, or holds it; the cooperative match debits its
fees at the last confirmation; an accepted friend request moves missions forward in
its own transaction, and a claimed mission credits the wallet; a payout request
debits the wallet and its release credits it. Every credit and debit passes through
`CreditWalletTransaction` or `DebitWalletTransaction` **inside the caller's
transaction**, which is why the other models can represent the wallet by the set of
credits paid (each credit has a source id, and the wallet pays a source id once: the
`PaidOnce` conjunct of `Booked` in `Wallet`).

Not modelled, with the properties each should have:

| Component | State and operations | Interaction | Properties it should have |
|---|---|---|---|
| Sessions and tokens | session rows, refresh-token hash | every request | one mobile session; a rotated token is dead |
| Notifications, outbox | event PENDING, PROCESSING, PUBLISHED, FAILED | fed by wallet, matches, payouts | every event is delivered at least once |
| GLD emission, ad rewards, referrals | daily counters, impressions | credits | caps hold under concurrent claims |
| Shop, gifts, streaks, daily challenges | purchases, inventory, progress rows | debit or credit | one effect per idempotency key; daily limits hold |
| Leaderboards, progression | scores, seasons, tiers | season and tier reward (actions of `Wallet`) | a season is rewarded once |
| Engines of Bomb Path, Tile Rush, Gem Blitz, Word Dash, Perfect Timing | pure functions of a seeded board | event scores; Tile Rush's start, finish and settlement are in `Cooperative` | rules against a reference definition |
| Fraud review | profiles and cases | gates ranked play (an action of `Matchmaking`) | - |
| Chats, realtime gateway, support, content safety, storage, analytics, AdMob, Ally assistant, configuration, administration, web client | forms, reports, outside calls | - | little state, or single-row edits |

The full list with sources is `components` in `PROJECT.json`.

## 3. Modules

| Module | Contents |
|---|---|
| `Wallet`, `WalletProofs` | the wallet, its properties and inductive invariant; its theorems |
| `Matchmaking`, `MatchmakingProofs` | the queue, its properties and inductive invariant; its theorems |
| `MatchLifecycle`, `MatchLifecycleProofs` | one match; its theorems |
| `CryptoPayouts`, `CryptoPayoutsProofs` | one payout request, the provider and its callbacks; its theorems, and that it implements `PayoutContract` |
| `PayoutContract` | abstract specification: the player has the GLD or the crypto |
| `Cooperative`, `CooperativeProofs` | parties, the cooperative queue and matches, their fees and their board; their theorems |
| `Domino`, `DominoProofs` | the Domino engine and the service that runs a match on it; their theorems |
| `Missions` | engagement events, progress and claims |
| `Friends`, `FriendsProofs` | requests, friendships and blocks; extends `Missions`, whose events an accept reports; theorems of both |
| `MatchOffers`, `MatchOffersProofs` | friend invites, rematches and challenges; their theorems |
| `MC...` | definitions that the configurations give to constants |

An operator `X_Y` just before a definition `X`, commented as a mutant of it, is `X`
with the mistake `Y` in it; nothing uses it. `PROJECT.json` pairs each checked
property with one, and TLC finds the property violated when it replaces `X`.

### 3.1 Wallet

*State.* `balance[u]` is the `WalletBalance` row: `amount` (the legacy whole
column) and `exact` (the six-decimal column, counted in units of `1/Scale`).
`ledger` is the `WalletTransaction` table in commit order; `idem`, `grants` and
`burned` are `IdempotencyKey`, `RewardGrant` and the burn total. A slot `t` in
`Txns` is an open database transaction: its request `tx`, the locks it still
`want`s in order, those it `holds`, and the rows it `seen` under them.

*Actions.* `Begin` (claim the idempotency row), `Acquire` (one lock, and the
re-read that follows it), one commit action per operation (`Credit`, `Debit`,
`Reversal`, `Grant`, `Transfer`), `Replay` (an earlier result is returned),
`Refuse`, `DeadlockVictim` and `Abort` (rollbacks). Writes are made in the commit
step because nobody sees them earlier.

*Observations that shaped it.* The reversal and the season and tier rewards write
only `amount`, so the two columns part; a credit that reuses the source id of a
debit is answered as done, since the direction is not in `grantKey`; floors of
fractional amounts do not add up. `LedgerChain` is therefore about the whole
column, `NeverOverdrawn` about both, and `Reconciles` about the exact one: the signed
sum of a player's rows, where a row without the exact columns adds nothing, is that
player's exact balance, whatever rewards and reversals come between. What
`getAdminWallet` calls `matches`, the sum of the whole amounts, is another sum: it fails
as soon as a reward, a reversal or a fraction is booked, and no property claims it.
`Transfer` is one commit because the handler is one database transaction; that its two
balances, two rows and the burn agree at every commit is what `MoneyConserved` and
`Reconciles` say.

### 3.2 Matchmaking

*State.* `tickets`, `matches`, paid stake `refunds` by source id
`<<ticket, reason>>`, `used` idempotency keys, `flagged` players under review, and
`tx`, what each open transaction has read. A ticket's clock is its `age` (fresh,
quiet, expired) and whether the bot delay has passed.

*Actions.* `Enqueue`, `ReadTickets` (under the player's advisory lock) and
`CreateTicket` are one enqueue; `ReadForCancel` and `CancelTicket` a cancel;
`ReadOverdue` and `SweepTickets` the worker's sweep; `Refresh` a poll. `ClaimPair`
is the matcher, run by polls, enqueues and the worker. It is one step: it takes an
advisory lock of its own (`claim-matchmaking-pair-transaction.ts:49-52`), so that a
second matcher waits for the first to commit, and it reads the queue `FOR UPDATE SKIP
LOCKED`, so that what others are writing is skipped (`Contended`). Every other
transaction may read before a claim and write after it. `GrowOld`, `BotDelayPasses`,
`ReviewPlayer` and `MatchOver` are the clock, the fraud review and the end of a match.

*What a sound match is.* A cancel, a sweep or an enqueue that read a ticket as
searching closes and refunds it by id, also when the ticket has been seated since. The
match goes on. So `MatchesAreSound` is about the seats whose tickets still stand
(`Kept`): their players play no other match, every ticket that searches or is matched
has its stake in, and a ranked match none of whose tickets was closed has two stakes
that cover the payout. The arena and the mode of all seats agree, and a ranked match has
no bots; Domino is the stated exception, since its third and fourth seats come from any
arena (:176) and its bot fill does not look at the mode (:358).

### 3.3 MatchLifecycle

*State.* The match `status`, each seat's `result`, `score` and accepted `journal`,
`settlement`, reward eligibility, the `credits` of the pot, `hold`s, and what the
expiry worker (`sweep`) and administrators (`desk`) have read and not yet written.

*Actions.* `Start`, `Answer`, `Unscored`, `Quit` (FINISH and FORFEIT events),
`BotAnswers`, `Complete`, `Forfeit`, `RetrySettlement`: one step each, since they
lock the match. `ReadExpired`, then `WriteExpired` or `SweepFails`: the worker,
which reads before it locks. `ReadHold` and `WriteHold`: the review desk, which
locks nothing. `Settle` is called by whichever handler closes the match.

### 3.4 CryptoPayouts

*State.* The request row (`status`, `hold`, `ref` for the provider's id, `seen`
for its last status, `returned` for the credit of the release), `lapsed` for the
hold's time limit, the provider's `payouts`, and `jobs`: what each request in
flight has read or been answered. `late` is a history variable that no guard reads: a
decision was written although what it had checked no longer held.

*Actions.* Cancel, decide and expire read without a lock and write by id, any number
of them at once: `ReadForCancel`/`Cancel`, `ReadForDecision`/`Approve`/`Reject`,
`ListExpired`/`ReadExpired`/`Expire`. `Claim` (locked), `Post` (the provider acts)
and `Store` are a submission; `ReadForVerify`, `Verify`, `StoreVerification` a
verification; `Fail` is a lost answer, a refusal or a process that stops between
any two of them. `Apply` is `applyProviderStatus`, reached by `Ipn` (any status
the payout ever had, in any order, any number of times) and by `Poll`.
`MarkReconciliation` is the administrator's override, possible at any time.

*Contract.* `PayoutContract` has the held `money`, the `payout` and `late`. A payout is
made while the money is held and there is none; it is sent or rejected; the money is
charged for a payout that was sent; it is returned where there is none or a rejected
one. A decision written late (`WriteLate`) may return the money at any moment, and after
it a further payout may be asked for where there is none under way, which is what the
code then allows. `CryptoPayouts` implements it with `money <- hold`
and `payout <- Outcome` (what the provider's payouts have come to). It forbids what the
invariants leave open: a hold charged while its payout is still on the way, a charge
after a return, and a payout that goes from one outcome to the other.

### 3.5 Cooperative

*State.* `party` (status, host), `members` by time of joining, `left` (the row of a
member who left stays, and is unique), `invites`; `entry`, the active queue entry of
a party in a mode; `coop`, the cooperative match with the status of its `Match` row,
its mode, parties and human players; `confirmed`, `ready`, the `board`; `debits` and
`credits` of the entry fees by wallet source; `overdue` and `expiring`: deadlines that
have passed and matches the worker has read as overdue; `asking`, the players' requests
in flight, each with what it remembers of its reads.

*Actions.* No handler of the party service locks what it checks. `ReadForCreate` and
`Create`, `ReadForInvite` and `Invite`, `ReadForAccept` and `AcceptInvite`,
`ReadForLeave` and `Leave`, `ReadForQueue` and `Queue`, `ReadForCancelQueue` and
`CancelQueue` are a reading and a write each; what the database itself still refuses at
the write is a guard there (the unique member row, the one pending invitation, the one
active entry of a party and mode). `Current` and `DropInvite` are single updates, and a
handler that calls `current()` sweeps overdue parties and dead entries in its own step.
`Claim` is the worker, which locks the entries it takes. A confirmation is three steps:
`ReadForConfirm`, `Count` (its rows written, it reads the others' and sees what is
committed) and `Confirm`. `ReadForExpiry` and `Expire` read and then write by id. `Start`,
`Finish`, `Settle` and `Withhold` are the board services with their part of the
settlement, which do not look at the cooperative match; `FlagReview` is the
administrator. `Drop` is a request that fails before it has written.

*What follows from the missing locks is in the model*: two creates leave a player with
two parties, two accepts exceed the capacity, a host and the last member who leave at
once leave a party whose host is no member, an accept or a queue that read an open party
reopens one that was closed or expired meanwhile, and a match is cancelled by its
deadline after the last confirmation charged its players. The properties are what holds
all the same, and the findings what does not.

### 3.6 Domino

*State.* `game` is the JSON of `DominoMatchState.state` (hands, chain, scores,
passes, the sequence expected of each seat, the last result, the clock of the round
and of the match, and the bots' timers); `recorded` the `DominoAction` rows;
`match`, `ready`, `outcome` the match and its participants; `evidence` whether an
accepted action was ever recorded, `rewards` whether the reward configuration is
complete.

*Engine.* `InitialState`, `NextRoundState`, `Moves`, `Placed`, `PlayTile`, `Pass`,
`SkipBlockedTurns`, `ScoreRound` are functions of a state, as in `domino-engine.ts`.
The shuffle is any of `Deals`.

*Service.* `Start`, the generic `StartMatch`, `Action` (a tile, or a refused action,
which is recorded too), `ActionReplayed`, `Snapshot` (a poll: deal, move or schedule
a bot, skip, complete, expire), `Forfeit`, `Settle`. Each locks the match and is one
step composed of the engine's functions in the order of the code. `ClockPasses` and
`DelayPasses` are time.

*Review.* `Settle` settles a finished match only if it has an accepted action and a
complete reward configuration (`settle-match-transaction.ts:67-70`, `:79-82`); otherwise
the match goes to REVIEW, which commits. From there nothing settles it: the worker's
`retryPendingSettlements` does select REVIEW matches (`domino.service.ts:218`, `:227`)
but `settleFinishedMatch` (:316) returns unless the status is FINISHED, and an
administrator's retry evaluates the same two conditions (it succeeds only if the
configuration was completed meanwhile, which the model leaves out). An error that is thrown is
caught and the next tick tries again, which is a stutter. `EveryMatchEnds` therefore
says which of the two ends a match comes to.

### 3.7 Friends and Missions

*State.* `request` by requester and addressee, `friends` (a row for each direction),
`blocks`; `counted`, `mission`, `achievement`, `paid`; `work`, the open transactions
with what they have read and written.

*Actions.* `Send`/`SendWrite`, `Respond`/`RespondWrite`, `MakeFriends`/
`MakeFriendsWrite` and the two claims with `Claim` read and then write by id.
`Accept`, `AcceptWrite`, `AcceptCommit` are three steps, since what an accept has
inserted and marked holds row locks until it commits, and the progress rows it read
meanwhile are written back at the commit. `Block` and `BlockCommit` likewise.
`Remove` and `Unblock` are single statements. `Count` is
`recordWithinTransaction`: a source counts once for a player.

### 3.8 MatchOffers

*State.* `offers`, the rows of both tables; `matches`, the casual matches of two
players with their day's limit; `work`, the open transactions.

*Actions.* `Invite` and `Request` read, `Insert` writes. `Accept` locks the row and
`AcceptCommit` creates the match; `DeclineRematch` locks too. `Respond` and
`RespondWrite` are the decline of an invite, the cancel of any offer and the look at a
rematch that has run out, none of which locks. `Challenge` and `ChallengeCommit` are a
direct match; `TimePasses` and `MatchEnds` the rest of the world.

## 4. What the runs show

| Run | Instance | Question and result |
|---|---|---|
| `wallet_all` | 1 player, 2 transactions, 2 ids, amounts 2 and 3 half-units | every operation but transfers, with fractions, shared ids and rollbacks: `LedgerChain`, `NeverOverdrawn`, and `Booked` (paid once, reversed once, the exact balance is the sum of the player's rows) |
| `wallet_transfer` | 3 players in a ring, 3 transactions, credit 3, send 1, fee 1 | lock cycles form and are broken: `EveryTransactionEnds`; `BooksBalance`: exact money is conserved with the burned fee, and each player's balance is the sum of that player's rows |
| `matchmaking_race` | 2 players, 2 tickets, 2 transactions, 1 key, a ranked and a random-game pool, bots | `SeatedOnce`, `SingleTickets` (per player and per key), `StakeReturned` and `MatchesAreSound` under every interleaving of enqueues, cancels and sweeps with the matcher |
| `matchmaking_fair` | 3 Domino players of two arenas, 3 tickets, one player who comes under fraud review and back | `MatchesAreSound` of matches with further seats and bots; `PairIsMatched` and `AbandonedIsClosed` under fairness |
| `matchmaking_refund_twice` | 2 players, 2 transactions | **violation** of `RefundedOnce`: see findings |
| `match_play` | ranked, bot, friend and practice match; 2 seats, 2 events each | `OpenWhileAwaited`, `FinishStands`, `ScoreIsJournal`, `PotPaidOnce`, `SettledIsFinal`, `EveryMatchEnds` |
| `payouts_play` | 2 decisions and 1 call in flight, with and without verification | `PaidOrReturned` (nothing charged that was not sent; while no decision was written late, one payout, refunded only unpaid, completed only if charged), `FinishedIsBooked`, `UndecidedEnds`, and the contract is kept (`KeepsContract`) |
| `coop_play` | 2 players, 1 party, 1 match, 2 requests in flight (1 of them to the party service), an administrator | `MoneyMovesOnce` and `EveryMatchEnds`, with confirmations, deadline and board overlapping in every way |
| `coop_timeout` | the same | **violation** of `TimeoutsAreFree`: see findings |
| `domino_play` | 2 humans and a bot, 9 tiles of the double-three deck in 3 deals, target 8, 2 rounds, complete and incomplete rewards | `OneZone`, `RoundEndsRight`, `PassesForced`, `ScoredOnce`, `EveryMatchEnds` |
| `friends_play` | 3 players who ask each other both ways, 2 transactions, 2 requests, a mission of 1 event and an achievement of 2 tiers | `FriendsMutual`, `RewardEarned` |
| `offers_play` | 2 friends, 2 transactions, 2 offers, 3 matches, daily limit 2 | `OneMatchPerOffer` |

Each `TypeOK` is an invariant of the run that exercises its module.

### Bounds, and why they are enough

* *Two open transactions.* Every hazard of the unlocked reads is a pair: a reader
  that writes late and one writer in between. `wallet_transfer` has three because
  the shortest lock cycle has three: two players who send to each other take the
  same pair lock first.
* *Two ids or keys* give a retry and an unrelated request. *Two tickets* are a
  pair, or one and its successor after a refund; three are a pair with a further Domino
  seat or with an older ticket that may be held up.
* *Amounts 2 and 3 with `Scale = 2`* are a whole amount and a fraction whose sum
  crosses a whole unit. In `wallet_transfer` a credit covers one transfer and its
  fee and leaves a rest, so that a second transfer is refused unless one arrived.
* *Two events per participant* (`MaxSequence`) give an answer followed by another,
  a repeated one or a finish. *Two seats* and the four modes cover each branch of
  settlement.
* *Two provider payouts* (`MaxPayouts`) are one more than is allowed. *Two decisions
  and one call* are the races of a decision with another and with a submission. Two
  submissions at once are left to the proof, which is for any number: the request's row
  lets one of them pass, and TLC checked them with one decision.
* *Cooperative.* Two players and a party of two, or one of them alone, give both modes, a
  party that changes under its match, a host and a member who confirm at once, and a
  request to the party service in flight while they do. Two parties and two requests to
  the party service at once are what it takes for a player in two parties; these states
  are in the model and covered by the proofs, which are for any number of parties,
  matches and requests, and exceed what TLC enumerates in the time of a run.
* *Domino.* Three seats have a turn that comes round past one seat that cannot move
  and one that can. A round of each deal can end with an empty hand or blocked, in two
  of them with a tie for the fewest pips, and each opens with another seat. Some
  courses of a first round meet the target and others go on to a second, which ends by
  the clock or by forfeit: since the sequences start again, nobody who opens it can
  play (see the findings), and so the last round's own end is not reached.
  `MaxActions` bounds only refused actions, which change nothing but their sequence.
* *Friends.* Ann and Bob ask each other, and Eve asks Ann: the smallest case of a
  player's progress written by two accepts at once, and of a friendship
  made by one request while the other is answered. Two tiers make a stale claim of
  the first come after a claim of the second.
* *MatchOffers.* Three matches are the first, its rematch, and one more that meets
  the limit; two offers give an invite and a rematch, or a request from each side.

`MaxTickets`, `MaxSequence`, `MaxPayouts`, `MaxInvites`, `MaxAsking`, `MaxLobby`,
`MaxActions`, `MaxSends`, `MaxOffers` and `MaxMatches` are guards of the action that
would exceed them. `CHECK_DEADLOCK FALSE` appears where the modelled thing ends:
settled matches, booked payouts and answered requests have no next step once the
bounds are used up.

### Fairness

* *Wallet.* A runnable transaction runs (`WF` of its commit or refusal), the
  deadlock detector acts (`WF`), and PostgreSQL's lock queue is first come first
  served (`SF` of `Acquire`). No caller has to call.
* *Matchmaking.* Only the worker: it ticks every 2 s and each tick sweeps and then
  claims. `SF` of the two halves of the sweep, because the pool's connections are
  shared with players and a failed tick is followed by another. A player who keeps
  polling is a hypothesis of `PairIsMatched`, never fairness; the other hypothesis is
  that no head of the queue is held up (`HeldUp`, see the findings).
* *MatchLifecycle.* Only time and the expiry worker; no player and no
  administrator has to act for `EveryMatchEnds`.
* *CryptoPayouts.* The worker polls (`WF`) and expires (`SF`, for the same
  reason as above); a call in flight goes on or fails. The provider never has to
  make progress, callbacks may all be lost, nobody has to submit, verify or
  decide.
* *Cooperative.* Deadlines pass, the worker reads and expires overdue matches, the
  clock finishes a board, and a finished match is settled or withheld by a retry. No
  request in flight has to go on, and no player has to confirm, start or play.
* *Domino.* The bots' interval and the matchmaking worker poll every match, the
  clock passes, and the settlement is retried. No player has to act, and the bots'
  moves are not needed: a bot whose action fails blocks the poll only until the
  round's time is over.
* *Friends, MatchOffers.* None: they have safety properties only.

### Findings

**A stake can be refunded twice** (`cancel-ticket-transaction.ts:17`; run
`matchmaking_refund_twice`). Cancel, enqueue and the sweep read `rankingRefundedAt`
without a lock and their credits have different source ids.

**A match that timed out can have charged its players**
(`cooperative-match.service.ts:164`; run `coop_timeout`). The worker reads a match as
FOUND and overdue, the last confirmation captures the fees and commits, and the worker
cancels the match by id. Nothing gives the fees back. The comment of `confirm`
(:102-103) says "No wallet is charged until every human has confirmed, so timeout/cancel
paths remain free".

Met on the way and not kept as runs.

*Wallet.* A reversal writes only `amount` while every credit and debit computes from
`exactAmount`, so that a reversed credit comes back with the next one
(`reverse-wallet-transaction.ts:41`).

*Matchmaking.* The oldest ticket is chosen before its owner's fraud profile is looked
at, and one seat under review ends the claim: the head of the queue holds up everybody
behind it (`claim-matchmaking-pair-transaction.ts:189`), although the comment at
:191-195 removed another guard because it "could starve every newer ticket in the queue". So
does a random-game ticket due for a bot that no game or permission gives it. `HeldUp`
names both cases and `PairIsMatched` says that there is no third; without it TLC finds
the starvation with a suspect in the instance of `matchmaking_fair`. The second case
needs a random pool without bots, which no run has. A ranked Domino match takes its
third and fourth player from any arena (:176), and its empty seats are filled with bots
in ranked mode too (:358). With a transaction open, an enqueue, a cancel or a sweep
closes and refunds a ticket that was seated since it was read; the match goes on with a
stake missing from its pot.

*Matches.* If both players forfeit, the winner is the first other participant: a
forfeiter gets the pot (`settle-match-transaction.ts:112`). A match finished by FINISH
or a forfeit is settled only if somebody calls complete. A match that just started can
be timed out by a worker that read it as CREATED. One match whose settlement throws
rolls back the whole batch of expired matches. A release and a cancel of one held
reward can both be carried out.

*Payouts.* A cancel that read the request before it was submitted releases the hold of
a payout under way (`crypto-rewards.service.ts:135`), so that the player can have both. A
second approval can write APPROVED over SUBMITTING, and where its hold is still there
and no answer was stored, the request is submitted a second time; written over a released hold, it leaves
a request that neither is submitted nor expires. An auto-verified payout whose
write was lost is only verified again, never asked for; one whose POST never reached
the provider stays SUBMITTING with its hold.

*Cooperative.* A board can be started before its match is confirmed, and is then paid
out without fees (`tile-rush.service.ts:92`). Two confirmations that each count before
the other commits leave a match in which everybody has confirmed and nobody commits,
until the deadline. The expiry can write CANCELLED over a match whose board is being
played, which then is finished and never settled; a late confirmation writes COMMITTED over
SETTLED or REVIEW. Leaving a queued party leaves its queue entry
(`docs/cooperative-matches-plan.md:313` expects it cancelled). A confirmation moves
another party that one of its players has joined meanwhile to IN_MATCH, where it
stays. A host can queue in the other mode while a match is on. No board match reaches
the status STARTED of the cooperative match, so that the disconnect grace never
applies. A committed match that nobody starts keeps its fees. The second invite of
one player to one party that lapses breaks the unique index on its status
(`party.service.ts:81`). Two creates at once make two parties of one player
(doc line 32, `party.service.ts:88`); two accepts exceed the capacity (:122); a host and the
last member who leave at once leave a party whose host is no member (:136); an accept or a
queue written late reopens a party that was closed or has expired. A queued party without
members, or two queued parties that share one, are never claimed and stay at the head of
the queue.

*Domino.* Sequences start again each round while the rows stay unique per match
(`domino-engine.ts:78`, `schema.prisma:3108`): from the second round on, the action of
a seat that acted in the first breaks the unique index and is rolled back, a bot's
together with the poll that made it, until the round's time is over. The winner of the
first round opens the second, so that no tile of it is played: TLC finds an empty
chain in every state of a second round of `domino_play`. `docs/domino-plan.md` speaks of smaller hands, a
boneyard and a target of 100, where the code has four seats, hands of seven, none
left, and 51. Every round renews the time of the match. A blocked tie goes to the
lowest seat (doc line 167), as does a tie at the top of the scores unless all are
equal; a forfeit makes the first other seat the winner whatever the scores. A match in
which nobody ever played goes to review when its time is over, and no handler takes it
out (`settle-match-transaction.ts:68`, `domino.service.ts:316`; see 3.6).

*Friends and missions.* An accept does not look at blocks and can make friends of
players of whom one has just blocked the other. Two opposite requests accepted at once
count one friendship twice. Progress written back from an old read loses an event; tiers
that do not ascend are claimed before they are earned (see `RewardHolds`); and
`completedTier` can fall below `claimedTier`; a stale claim can put `claimedTier` back,
and the wallet's replay is what keeps the reward single (`RewardEarned`). A decline or
cancel writes over ACCEPTED; a row that stays ACCEPTED after the friendship was removed
keeps its requester from asking again.

*Offers.* Two requests of one rematch at once leave two open, where
`schema.prisma:2893` says one. A decline or cancel writes over ACCEPTED while the match
stays. Two offers accepted at once pass the check for a live match and the limit; a
friend invite is accepted without that check. The EXPIRED written when a lapsed invite
is accepted is rolled back by the throw that follows it.

## 5. What is proved

Every safety property of a passing run is a theorem, with the refinement of the
payouts. The theorems hold for any sets of players, ids and transactions, any
amounts, fees, stakes and bounds, from the named `ASSUME`s of the module: types of
the constants, finitely many players where money is summed, `Scale` and `Micros`
positive, no player a payee of himself, every match set up with a human, and Domino
hands of at least two tiles. None of them restricts how requests interleave; one, on
missions, restricts the catalogue (`TiersAscend`).

Each module has an inductive invariant, one lemma per action that keeps it, and
`NextInv`, which puts them together. TLC checked each invariant on the module's runs
before it was proved.

Two kinds of statement are about data of any size: sums over sets (money, points) and
the replay of a journal. The library's folds and sums are `CHOOSE`s of a recursive
function, and its induction theorems cannot be instantiated by the provers. Both are
proved by a least counterexample instead: the recursion is shown to have a solution
by taking a smallest set, or a shortest journal, for which it has none
(`Summable`, `Replayable`); with a solution the defining equation holds, and two sums
that agree on every element are equal because there is no smallest set on which they
differ (`SumSame`). From these follow what the steps need: a sum changes by what one
element changes (`SumChange`), and an event appended to a journal is counted last
(`ReplayAppend`).

### `WalletProofs`

`TypeCorrect`, `LedgerIsChain`, `NoOverdraft`, `SingleReversal`, `Reconciled`,
`BookedHolds`, `BooksBalanceHolds`.

The invariant is `WalletInv`. None of its safety properties is inductive on
its own: each rests on a value read earlier still being true at the commit.
`Fresh` says that a balance row re-read under its lock has not changed;
`Exclusive`, `Complete` and `IdleIsFree` make that inductive (a lock has one
holder, every lock a transaction needs is held or still wanted, an idle slot has
none); `FreshPrior` says the same of the reversal's query for an earlier reversal,
and `StaysWellFormed` of the row it reverses. With them, every commit appends one
entry per locked player whose `before` is the stored balance (`OneEntryInv`,
`TransferInv`), and `ChainAppend` shows that such an entry extends the chain.
`AcquireInv`, `BeginInv`, `ReplayInv` and `RollbackInv` are the other steps.

`BookedHolds` needs `BookInv` beside it. That no source is booked twice rests on a
different key for each kind of row, and `RowsHaveSources` says where each comes from: a
reward's row from its grant, a reversal's from the row it names (so `PaidOnce` follows
from `ReversedOnce` there), a transfer's from the idempotency row its sender has
claimed, which `KeysApart` and `TransferIsNew` keep to one transaction.
`MoneyConserved` is proved from what one commit adds to each side of the sum
(`CreditBooks`, `DebitBooks`, `ReversalBooks`, `GrantBooks`, `TransferBooks`).

`Reconciled` is the reconciliation of the exact column, player by player: each commit
appends rows whose exact amounts are what it adds to the balances (`TotalAppend`,
`AgreeAppend`), a reward and a reversal add none to either (`OneBookingReconciles`), and
a transfer takes from one player and adds to another (`TransferReconciles`).
`BookedHolds` and `BooksBalanceHolds` put these together; neither assumes anything about the
amounts, the operations or their order.

### `MatchmakingProofs`

`TypeCorrect`, `OneTicketHolds`, `OneTicketPerKeyHolds` and `SingleTicketsHold`, which
joins them, `SeatedOnceHolds`, `StakeReturnedHolds`, `FairMatchesHold`,
`MatchesAreSoundHolds`.

The invariant is `QueueInv`. `OneTicket` rests on `LockHeldOnce` (one enqueue of a
player is past the advisory lock) and `LockedReadStands` (every active ticket of
the player is among those it read and will expire: no other handler makes a ticket
active again). `StakeReturned` rests on `BackReadStands` (a stake read as refunded
stays so, one read as not refunded will be refunded) and `MarksAreCredits`;
`SeatedOnce` on `SeatedIsDone`; `OneTicketPerKey` on `KeysAreUsed`. There is one
lemma per action; cancel and sweep share `CloseStep`, the steps that only change
a ticket's clock share `TouchStep`.

`MatchesAreSoundHolds` needs `SoundInv` beside it. `StakesHeld` is inductive since a
ticket's refund mark is written together with a closed status, and a writer that has
read the ticket as refundable closes it whatever it has become; `SeatsAgree` since a
seated ticket that still stands was not written by anybody. So `InOneMatch` follows from
`OneTicket`: two standing seats of one player in live matches would be two active
tickets. `SameArena` and `RankedAreHuman` are read off the claim, whose first two seats
are the oldest ticket and a rival of its pool (`SeatsFacts`, `PairSize`, `NoBots`), and
`PayoutBound` compares two stakes with the payout, for any stakes and fees. The theorem is about `Spec`,
with every interleaving, Domino, reviews and bots.

### `MatchLifecycleProofs`

`TypeCorrect`, `OpenWhileAwaitedHolds`, `FinishHolds`, `PotPaidOnceHolds`,
`SettledIsFinalHolds`, `ScoreIsJournalHolds`.

The invariant is `LifeInv`. `OpenWhileAwaited` is inductive because each handler that
records a result closes the match when it was the last one (`Unended`, `Settles`).
`Finished` is `FinishStands` with more in it: whoever has finished is not awaited any
more, so that the worker, which reads before it locks but writes only over PENDING,
cannot reach him. `PotOneWay` is why the pot is paid once although release and cancel
of a hold lock nothing: where the winner's reward is held, only a release credits it,
a credit has one source id however often it is released, and a hold that is on a desk
is in the table. `SettledIsFinal` follows from `SettledOnce` and the step lemmas.

`ScoreIsJournalHolds` compares the score, which the handlers move one event at a time
with a floor at zero, with the whole journal replayed: `RecordedReplay` is the step that
appends, `SameReplay` all the others. `RecordedAscends` is why no event is in the journal
twice or behind a later one.

### `CryptoPayoutsProofs`

`TypeCorrect`, `PaidOrReturnedHolds`, `Implementation`.

Decisions, submissions, verifications, callbacks, polls, marks and failures interleave
without any limit, and `MaxPayouts` is any number: it is the invariant that keeps
the provider at one payout, not the bound.

The invariant is `PayoutInv`, in two parts. `AlwaysInv` holds whatever is written late: a
completed request's payout was sent, a hold is charged only for one that was sent and
released exactly when the wallet has the credit (`HoldIsTrue`), and an old callback cannot
report a conclusion the provider has not reached (`ConclusionsStand`). `TimelyInv` holds
while `late` is false. `UndecidedIsWhole` says that a request still to be decided or
submitted has its hold and no submission, and `ExpiryStands` that one about to expire
cannot be submitted any more; so a decision that is written in time finds the hold
untouched and no payout (`Timely`, `DecisionsWrite`). `OneSubmission` says that the caller
about to ask for a payout is alone and the GLD is still held: this gives `PayoutOnce`.
Once a decision is written late there is nothing left to prove of the second part,
and the first still has to be kept, which it is. `JobStep` treats the steps that only read,
`DecisionStep` the four decisions, `CallerWrites` the two writes after an outside call,
`ApplyStep` callbacks and polls together.

`Implementation` follows from what each step does to the hold and to the provider's payouts
(`DecisionImplements`, `PostImplements`, `StatusImplements`, `ProgressStep`).

### `CooperativeProofs`

`TypeCorrect`, `MoneyMovesOnceHolds`.

The invariant is in three layers. `LobbyInv` is about parties and requests in flight:
`SeatsOnce`, since a member row is unique, makes who leaves gone. `MatchInv` adds queue
entries and matches: `Backed` says that a confirmation that counted every player still would when
it writes, since nobody's confirmation is ever taken back. `MoneyMovesOnce` is then
inductive: the fees are captured by a confirmation that counted everybody, a second one
meets the wallet's source ids, and a settlement finds a finished board and leaves it
settled. Nothing is assumed of how confirmations, deadlines and boards overlap. What does not hold of
them, that a payout is backed by fees and that a timeout is free, is among the findings.

### `DominoProofs`

`TypeCorrect`, `OneZoneHolds`, `RoundEndsRightHolds`, `PassesForcedHolds`,
`ScoredOnceHolds`.

The theorems are for any number of seats from two, any bots, deck, target and rounds,
and any of the possible deals. `Sound` is what every function of the engine keeps, and
there is a lemma for each function (`PlaySound`, `PassSound`, `SkipSound`,
`ScoreSound`, `InitialSound`, `NextRoundSound`), which the handlers compose
(`ActionStep`, `SnapshotStep`, `ForfeitStep`, `StartStep`). `Turns` is the arithmetic of
going round the table: the seats passed over since the last tile are the ones before
the seat whose turn it is, so that as many passes as seats mean that nobody can
move. `ScoredOnce` is about one request, which can deal, let a bot play, skip, score
and deal again: `Advanced` says that a chain of engine calls scores at most one round,
and `Fresh` that a round just dealt cannot be scored in the poll that dealt it, since
every seat can open and nobody empties a hand of two or more with one tile. This is
where the hand size is needed.

### `FriendsProofs`

`TypeCorrect`, `MutualHolds`, `RewardHolds`.

The invariant is `FriendsInv`. Friendships are mutual because the rows an accept has
inserted and a block has deleted, and not yet committed, come in pairs (`Symmetric` in
`Sound`). A reward is earned because everything a progress row says is covered by
sources counted for the player, and this is true of the rows an open transaction holds
as well as of those in the table (`Backed`): sources are never uncounted, so that an old
row written back late loses progress and invents none. A reward is paid once since its
credit has a source id of its own.

`RewardHolds` is stated under `TiersAscend`: tiers ask for ascending numbers of events.
The proof needed it: `completedTier` is the last tier whose number is reached and a
claim takes the tier after the last one claimed, so that with tiers in another order an
early tier is paid because a later one is reached.
The catalogue that the service installs ascends (`missions.service.ts:31-45`); the
administrator's `createTier` checks nothing.

### `MatchOffersProofs`

`TypeCorrect`, `OneMatchHolds`.

The invariant is `OffersInv`. A row that an accept holds is PENDING until it commits and is held
by one accept (`HeldStands`: a decline or cancel waits for the row lock), and an open
offer has no match (`OpenIsUnmatched`); so the commit of an accept gives a match to a
row without one. What declines, cancels and looks write by id later never touches the match.

## 6. What is only model-checked, and what is not modelled

* Liveness is out of the prover's reach and stays with TLC: `EveryTransactionEnds`,
  `PairIsMatched`, `AbandonedIsClosed`, the three `EveryMatchEnds`, `FinishedIsBooked`
  and `UndecidedEnds`.
* `RefundedOnce` and `TimeoutsAreFree` are what the code violates.
* `RewardEarned` is proved under `TiersAscend`, which the installed catalogue meets and the
  administrator's form does not enforce.
* Three properties say in themselves what they do not promise: `MatchesAreSound` is about
  the seats whose tickets stand and excepts Domino's further seats, `PairIsMatched`
  excepts a head of the queue that is held up, and `PaidOrReturned` with the contract
  tells apart what holds always from what holds while no decision was written late. The
  findings tell what happens in the cases they except.

Abstractions a reader should know:

* *Money.* One currency. One match and one payout request per model (rows of
  different matches and requests are never locked or written together, except by the
  expiry batch). Content, ratings, experience, daily caps, statistics and leaderboards
  of a settlement are left out; a payout's quote, limits, fee and reserve checks and
  back-off are left out; the provider's list is assumed to hold the payout looked for
  (the code reads the first 100); a submission's reading of the clock and its commit
  are one moment; a bot's answers are a step of their own just before the completion
  that adds them.
* *Cooperative.* Ratings, regions, heartbeats and
  score synchronisation are left out, the board is active or finished, winners are any
  set, and a settlement pays or withholds (the fraud checks that hold a single payout
  are left out).
* *Domino.* The bot plays any of its highest tiles, the JSON is a record, the time
  limits of a turn, a round and a match are three values of one clock, and a round
  delay is a choice of the handler that looks at it.
* *Friends and missions.* Every player is active; one mission and one achievement,
  without periods, filters or experience; presence and lists are left out.
* *MatchOffers.* One game and one day; levels and restrictions are left out; a
  friendship does not change. The lock of a friend invite's accept is modelled as the
  code means it.

Parts are left out for one of four reasons. Their state is one row written by one
statement (accounts, catalogue, configuration, storage, support, chats). They are
arithmetic or reports (reward policy, economy, the other games' engines, analytics).
They call the outside and keep nothing (AdMob, the assistant, content safety). Or
their money is an operation of `Wallet` under a lock (shop, gifts, ad rewards,
referrals, streaks). Sessions and the notification outbox have real hazards, listed
without a property, that are not reached in this development.

## 7. Plan

All modules of the plan are written, and every safety property that a run checks is a
theorem. What would say more, in this order:

1. Refinement: an abstract specification of the queue (a player's stake is with the
   player, in play or paid out, or lost to a late cancel) that `Matchmaking` implements,
   and of a match's pot that `MatchLifecycle` implements, as `PayoutContract` is for the
   payouts.
2. How far the two columns of a balance can part in terms of the rewards, reversals and
   fractions booked.
3. The hazards without a property: sessions, the notification outbox.

## 8. Running

    tlc -config Wallet_all.cfg MCWallet        # any .cfg with the MC module of its prefix
    tlapm WalletProofs.tla

The longest runs are `coop_play`, `matchmaking_race` and `matchmaking_fair` (two to three
minutes each on two cores); the others take a minute or less. From nothing, each proof
takes between half a minute and two minutes.
