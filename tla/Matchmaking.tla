------------------------------ MODULE Matchmaking ------------------------------
(***************************************************************************)
(* The matchmaking queue of src/src/modules/matchmaking: tickets, the       *)
(* stakes of ranked tickets, and the matches the matcher makes of them.    *)
(*                                                                         *)
(* Enqueue, cancel and the expiry sweep are PostgreSQL transactions at     *)
(* READ COMMITTED that first read tickets without locking them and later   *)
(* write those tickets by id, whatever has become of them: here a step     *)
(* that reads and a step that writes and commits, in a transaction slot.   *)
(* The matcher runs under an advisory lock of its own, so that no two of    *)
(* them run at a time, reads its tickets FOR UPDATE and keeps the locks    *)
(* until it commits, so that it is one step; it skips a row another        *)
(* transaction has locked, which a row that an open transaction is about   *)
(* to write may be.                                                        *)
(*                                                                         *)
(* Abstractions.  Tickets and matches are numbered in order of creation.   *)
(* The times of a ticket are its age: fresh, quiet (no heartbeat within    *)
(* the timeout) or expired (past expiresAt), and whether the bot delay has *)
(* passed.  A choice is what a player queues for: a game, an arena (ranked *)
(* entry tier, or Casual) and whether the game is left to the server.      *)
(* Policies the matcher re-reads (kill switches, rollout, levels, content) *)
(* are taken to allow the match.  The wallet is module Wallet: here a      *)
(* stake is taken with its ticket and given back by a credit whose source  *)
(* id is the ticket and the reason, which the wallet pays once.            *)
(***************************************************************************)
EXTENDS Integers, Sequences, FiniteSets

CONSTANTS
  Txns,        \* transactions that can be open at the same time
  Users,       \* players
  Selections,  \* what can be queued for: [game, arena, random]
  Wanted,      \* Wanted[u]: the selections player u queues for
  Casual,      \* the arena of a casual choice
  Domino,      \* the game of four seats
  BotGames,    \* games with casualBotFallbackEnabled
  Stake,       \* Stake[a]: rankingStakeAmount of arena a
  FeeMicros,   \* FeeMicros[a]: rankingEntryFeeMicros of arena a
  Micros,      \* micro units in one GLD (10^6)
  Keys,        \* idempotency keys of queue requests
  NoKey,       \* a request without one
  Suspects,    \* players whose fraud profile can become restricted
  MaxTickets,  \* bound on the tickets ever created
  NoWork       \* the content of an idle transaction slot

Arenas == {c.arena : c \in Selections} \ {Casual}

Statuses == {"SEARCHING", "MATCHED", "CANCELLED", "EXPIRED"}

Ages == {"fresh", "quiet", "expired"}

Ticket ==
  [user: Users, choice: Selections, key: Keys \cup {NoKey}, status: Statuses,
   age: Ages, waited: BOOLEAN, bot: BOOLEAN, refundedAt: BOOLEAN, match: Nat]

Match ==
  [seats: SUBSET (Nat \ {0}), bots: Nat, arena: Arenas \cup {Casual},
   game: {c.game : c \in Selections} \cup BotGames, live: BOOLEAN]

Work ==
  [op: {"enqueue", "cancel", "sweep"}, user: Users, choice: Selections,
   key: Keys \cup {NoKey}, held: BOOLEAN, locked: BOOLEAN,
   rows: SUBSET (Nat \ {0}), back: SUBSET (Nat \ {0})]

ASSUME StakeAssumption == Stake \in [Arenas -> Nat] /\ FeeMicros \in [Arenas -> Nat]
ASSUME MicrosAssumption == Micros \in Nat \ {0}
ASSUME WantedAssumption == Wanted \in [Users -> SUBSET Selections]
ASSUME SuspectsAssumption == Suspects \subseteq Users
ASSUME BoundAssumption == MaxTickets \in Nat
ASSUME NoKeyAssumption == NoKey \notin Keys
ASSUME NoWorkAssumption == NoWork \notin Work

VARIABLES
  tickets,  \* MatchmakingTicket rows, in order of creation
  matches,  \* Match rows the matcher made
  refunds,  \* paid stake refunds, by source id: <<ticket, reason>>
  used,     \* IdempotencyKey rows of the queue: <<user, key>>
  flagged,  \* players whose fraud profile is restricted
  tx        \* what each transaction slot is doing

store == <<tickets, matches, refunds, used, flagged>>
vars == <<store, tx>>

-----------------------------------------------------------------------------
Ranked(c) == c.arena # Casual

Searching(i) == tickets[i].status = "SEARCHING"

\* The ticket is MATCHED with a match that is CREATED or STARTED.
Playing(i) == tickets[i].status = "MATCHED" /\ matches[tickets[i].match].live

Active(i) == Searching(i) \/ Playing(i)

\* expiresAt or lastHeartbeatAt is past its limit.
Stale(i) == tickets[i].age # "fresh"

\* The tickets a writer that read them now would refund.
Refundable(S) ==
  {i \in S : Ranked(tickets[i].choice) /\ ~tickets[i].refundedAt}

Open(t) == tx[t] # NoWork

Init ==
  /\ tickets = <<>>
  /\ matches = <<>>
  /\ refunds = {}
  /\ used = {}
  /\ flagged = {}
  /\ tx = [t \in Txns |-> NoWork]

Ends(t) == tx' = [tx EXCEPT ![t] = NoWork]

Continues(t, w) == tx' = [tx EXCEPT ![t] = w]

\* Mutant of Written: the update is guarded by the status, the refund is not.
Written_MarkOnly(rows, status, back) ==
  [i \in DOMAIN tickets |->
     IF i \notin rows THEN tickets[i]
     ELSE [tickets[i] EXCEPT !.status = IF @ = "SEARCHING" THEN status ELSE @,
                             !.refundedAt = @ \/ i \in back]]

\* The rows written by id get the status, and those in back their refund mark.
Written(rows, status, back) ==
  [i \in DOMAIN tickets |->
     IF i \notin rows THEN tickets[i]
     ELSE [tickets[i] EXCEPT !.status = status, !.refundedAt = @ \/ i \in back]]

\* The credits of one refund reason.
Refunds(back, reason) == back \X {reason}

-----------------------------------------------------------------------------
(* EnqueuePlayerTransaction *)

\* The request passes the checks made before the player's lock is taken.  A
\* request whose key is found is answered from the stored response.
Enqueue(t, u, c, k) ==
  /\ ~Open(t)
  /\ k # NoKey => <<u, k>> \notin used
  /\ Ranked(c) => u \notin flagged
  /\ Continues(t, [op |-> "enqueue", user |-> u, choice |-> c, key |-> k,
                   held |-> u \in flagged, locked |-> FALSE, rows |-> {}, back |-> {}])
  /\ UNCHANGED store

\* Mutant of PlayerLockFree: no pg_advisory_xact_lock.
PlayerLockFree_NoLock(u) == TRUE

\* The advisory lock of the player is free.
PlayerLockFree(u) ==
  \A s \in Txns : Open(s) /\ tx[s].op = "enqueue" /\ tx[s].user = u => ~tx[s].locked

CurrentTickets(u) == {i \in DOMAIN tickets : tickets[i].user = u /\ Active(i)}

\* Under the lock the player's current tickets are read.  Stale ones are left
\* to be expired with the commit; an active one refuses the request.
ReadTickets(t) ==
  LET w == tx[t]
      stale == {i \in CurrentTickets(w.user) : Searching(i) /\ Stale(i)}
  IN /\ Open(t) /\ w.op = "enqueue" /\ ~w.locked
     /\ PlayerLockFree(w.user)
     /\ IF CurrentTickets(w.user) = stale
          THEN Continues(t, [w EXCEPT !.locked = TRUE, !.rows = stale,
                                      !.back = Refundable(stale)])
          ELSE Ends(t)
     /\ UNCHANGED store

\* Bot fallback is kept from players whose rewards were held when they asked.
NewTicket(w) ==
  [user |-> w.user, choice |-> w.choice, key |-> w.key, status |-> "SEARCHING", age |-> "fresh",
   waited |-> FALSE, refundedAt |-> FALSE, match |-> 0,
   bot |-> ~Ranked(w.choice) /\ (w.choice.random \/ w.choice.game \in BotGames) /\ ~w.held]

\* The insert of the idempotency row meets no other.
KeyFree(u, k) == k # NoKey => <<u, k>> \notin used

\* The stale tickets are expired and refunded, the new ticket is created and
\* its stake taken.
CreateTicket(t) ==
  LET w == tx[t]
  IN /\ Open(t) /\ w.op = "enqueue" /\ w.locked
     /\ KeyFree(w.user, w.key)
     /\ Len(tickets) < MaxTickets
     /\ tickets' = Append(Written(w.rows, "EXPIRED", w.back), NewTicket(w))
     /\ refunds' = refunds \cup Refunds(w.back, "expire")
     /\ used' = IF w.key = NoKey THEN used ELSE used \cup {<<w.user, w.key>>}
     /\ Ends(t)
     /\ UNCHANGED <<matches, flagged>>

-----------------------------------------------------------------------------
(* CancelTicketTransaction and ExpireMatchmakingTicketsTransaction *)

\* A matched ticket is refused and a closed one answered.
Cancellable(i) == Searching(i)

ReadForCancel(t, i) ==
  /\ ~Open(t)
  /\ Cancellable(i)
  /\ Continues(t, [op |-> "cancel", user |-> tickets[i].user, choice |-> tickets[i].choice,
                   key |-> NoKey, held |-> FALSE, locked |-> FALSE, rows |-> {i}, back |-> Refundable({i})])
  /\ UNCHANGED store

CancelTicket(t) ==
  LET w == tx[t]
  IN /\ Open(t) /\ w.op = "cancel"
     /\ tickets' = Written(w.rows, "CANCELLED", w.back)
     /\ refunds' = refunds \cup Refunds(w.back, "cancel")
     /\ Ends(t)
     /\ UNCHANGED <<matches, used, flagged>>

\* Mutant of Overdue: the heartbeat timeout is forgotten.
Overdue_ExpiredOnly == {i \in DOMAIN tickets : Searching(i) /\ tickets[i].age = "expired"}

Overdue == {i \in DOMAIN tickets : Searching(i) /\ Stale(i)}

\* The worker reads every overdue ticket; the user and choice of the slot are
\* those of one of them and stand for nothing.
ReadOverdue(t) ==
  /\ ~Open(t)
  /\ Overdue # {}
  /\ LET i == CHOOSE i \in Overdue : TRUE
     IN Continues(t, [op |-> "sweep", user |-> tickets[i].user, choice |-> tickets[i].choice,
                      key |-> NoKey, held |-> FALSE, locked |-> FALSE, rows |-> Overdue,
                      back |-> Refundable(Overdue)])
  /\ UNCHANGED store

\* Mutant of SweepBack: the sweep expires tickets and refunds none.
SweepBack_None(w) == {}

SweepBack(w) == w.back

SweepTickets(t) ==
  LET w == tx[t]
  IN /\ Open(t) /\ w.op = "sweep"
     /\ tickets' = Written(w.rows, "EXPIRED", SweepBack(w))
     /\ refunds' = refunds \cup Refunds(SweepBack(w), "expire")
     /\ Ends(t)
     /\ UNCHANGED <<matches, used, flagged>>

\* The transaction is rolled back: a lost connection, a timeout, a unique key.
Abort(t) == Open(t) /\ Ends(t) /\ UNCHANGED store

-----------------------------------------------------------------------------
(* ClaimMatchmakingPairTransaction *)

\* Tickets the matcher may take.
Waiting == {i \in DOMAIN tickets : Searching(i) /\ ~Stale(i)}

\* Mutant of SamePool: the ranking configuration is not compared.
SamePool_AnyArena(i, j) ==
  LET c == tickets[i].choice
      d == tickets[j].choice
  IN /\ Ranked(c) = Ranked(d)
     /\ ~Ranked(c) => c.random = d.random /\ (~c.random => c.game = d.game)

\* i and j are in one pool: an arena, the random pool or a game.
SamePool(i, j) ==
  LET c == tickets[i].choice
      d == tickets[j].choice
  IN IF Ranked(c) THEN d.arena = c.arena
     ELSE /\ ~Ranked(d)
          /\ c.random = d.random
          /\ ~c.random => c.game = d.game

Pairable(i, j) == i # j /\ tickets[i].user # tickets[j].user /\ SamePool(i, j)

\* The bot rules of the query that picks the first ticket ...
BotDue(i) ==
  LET c == tickets[i].choice
  IN /\ tickets[i].waited
     /\ ~Ranked(c)
     /\ (tickets[i].bot /\ c.random) \/ c.game \in BotGames

\* ... and of the code that then decides.
BotAllowed(i) ==
  LET c == tickets[i].choice
  IN /\ tickets[i].waited
     /\ ~Ranked(c)
     /\ IF c.random THEN tickets[i].bot /\ BotGames # {}
                    ELSE c.game \in BotGames

\* Mutant of Eligible: the first ticket is picked by the bot rules alone.
Eligible_BotsOnly(i) == BotDue(i)

Eligible(i) == BotDue(i) \/ \E j \in Waiting : Pairable(i, j)

Oldest(S, n) == {i \in S : Cardinality({j \in S : j < i}) < n}

Rivals(first, queue) == {j \in queue : Pairable(first, j)}

\* The first ticket and the oldest of its rivals.
Pair(first, queue) == {first} \cup Oldest(Rivals(first, queue), 1)

\* The one or two further seats of a Domino match: same game and mode.
FurtherSeats(first, queue) ==
  LET c == tickets[first].choice
  IN IF c.game # Domino \/ c.random \/ Rivals(first, queue) = {} THEN {}
     ELSE Oldest({i \in queue \ Pair(first, queue) :
                    /\ tickets[i].user # tickets[first].user
                    /\ tickets[i].choice.game = Domino
                    /\ Ranked(tickets[i].choice) = Ranked(c)}, 2)

Seats(first, queue) == Pair(first, queue) \cup FurtherSeats(first, queue)

\* Rows that an open transaction is about to write or has written.
Contended == UNION {tx[t].rows : t \in {s \in Txns : Open(s)}}

\* The matcher gives up if the first ticket has neither rival nor bot, or if a
\* player under fraud review would play ranked or against a bot.
Seatable(first, queue) ==
  /\ Rivals(first, queue) # {} \/ BotAllowed(first)
  /\ (\E i \in Seats(first, queue) : tickets[i].user \in flagged)
       => ~Ranked(tickets[first].choice) /\ Rivals(first, queue) # {}

\* The game of the match; the server picks it for players who left it open.
GamesFor(first, seats) ==
  LET c == tickets[first].choice
  IN IF ~c.random THEN {c.game}
     ELSE IF seats = {first} THEN BotGames
     ELSE {d.game : d \in Selections}

\* Seats that are left are filled with bots.
Bots(seats, game) ==
  LET wanted == IF game = Domino THEN 4 ELSE 2
  IN IF Cardinality(seats) < wanted THEN wanted - Cardinality(seats) ELSE 0

\* Mutant of Seated: the matchId is not written.
Seated_NoMatch(seats) ==
  [i \in DOMAIN tickets |->
     IF i \in seats THEN [tickets[i] EXCEPT !.status = "MATCHED"] ELSE tickets[i]]

\* Mutant of Seated: the matcher leaves the claimed tickets SEARCHING.
Seated_Unmarked(seats) == tickets

\* The claimed tickets are MATCHED with the new match.
Seated(seats) ==
  [i \in DOMAIN tickets |->
     IF i \notin seats THEN tickets[i]
     ELSE [tickets[i] EXCEPT !.status = "MATCHED", !.match = Len(matches) + 1]]

\* The oldest eligible ticket of the queue is seated, or nothing is done.
ClaimPair ==
  \E skipped \in SUBSET (Contended \cap Waiting) :
    LET queue == Waiting \ skipped
    IN \E first \in Oldest({i \in queue : Eligible(i)}, 1) :
         LET seats == Seats(first, queue)
         IN /\ Seatable(first, queue)
            /\ tickets' = Seated(seats)
            /\ \E game \in GamesFor(first, seats) :
                 matches' = Append(matches,
                   [seats |-> seats, bots |-> Bots(seats, game), live |-> TRUE,
                    arena |-> tickets[first].choice.arena, game |-> game])
            /\ UNCHANGED <<refunds, used, flagged, tx>>

-----------------------------------------------------------------------------
(* Time, polling, and what other components do *)

\* A heartbeat or a status poll; a poll also revives an expired ticket.
Refresh(i) ==
  /\ Searching(i)
  /\ Stale(i)
  /\ tickets' = [tickets EXCEPT ![i].age = "fresh"]
  /\ UNCHANGED <<matches, refunds, used, flagged, tx>>

\* The heartbeat timeout or the time to live passes.
GrowOld(i, a) ==
  /\ Searching(i)
  /\ <<tickets[i].age, a>> \in {<<"fresh", "quiet">>, <<"fresh", "expired">>, <<"quiet", "expired">>}
  /\ tickets' = [tickets EXCEPT ![i].age = a]
  /\ UNCHANGED <<matches, refunds, used, flagged, tx>>

\* The bot fallback delay passes.
BotDelayPasses(i) ==
  /\ Searching(i)
  /\ ~Ranked(tickets[i].choice)
  /\ ~tickets[i].waited
  /\ tickets' = [tickets EXCEPT ![i].waited = TRUE]
  /\ UNCHANGED <<matches, refunds, used, flagged, tx>>

\* FraudService restricts the player, or an administrator reinstates the player.
ReviewPlayer(u) ==
  /\ flagged' \in {flagged \cup {u}, flagged \ {u}}
  /\ UNCHANGED <<tickets, matches, refunds, used, tx>>

\* The match is settled, cancelled or held for review (module MatchLifecycle).
MatchOver(m) ==
  /\ matches[m].live
  /\ matches' = [matches EXCEPT ![m].live = FALSE]
  /\ UNCHANGED <<tickets, refunds, used, flagged, tx>>

Next ==
  \/ \E t \in Txns, u \in Users, k \in Keys \cup {NoKey} : \E c \in Wanted[u] : Enqueue(t, u, c, k)
  \/ \E t \in Txns, i \in DOMAIN tickets : ReadForCancel(t, i)
  \/ \E t \in Txns :
       \/ ReadTickets(t) \/ CreateTicket(t) \/ CancelTicket(t)
       \/ ReadOverdue(t) \/ SweepTickets(t) \/ Abort(t)
  \/ ClaimPair
  \/ \E i \in DOMAIN tickets :
       Refresh(i) \/ BotDelayPasses(i) \/ \E a \in Ages : GrowOld(i, a)
  \/ \E u \in Suspects : ReviewPlayer(u)
  \/ \E m \in DOMAIN matches : MatchOver(m)

Spec == Init /\ [][Next]_vars

\* The worker ticks every two seconds and each tick sweeps and then claims (a
\* poll claims too).  Strong fairness of the sweep: slots are the connections of
\* a pool, which the worker shares but is not kept from, and a tick whose
\* transaction fails is followed by another.
Fairness ==
  /\ WF_vars(ClaimPair)
  /\ \A t \in Txns : SF_vars(ReadOverdue(t)) /\ SF_vars(SweepTickets(t)) /\ WF_vars(Abort(t))

FairSpec == Spec /\ Fairness

-----------------------------------------------------------------------------
(* Properties *)

\* The types of the tables and of the open transactions.
TypeOK ==
  /\ tickets \in Seq(Ticket)
  /\ matches \in Seq(Match)
  /\ refunds \subseteq (Nat \ {0}) \X {"cancel", "expire"}
  /\ used \subseteq Users \X Keys
  /\ flagged \subseteq Users
  /\ tx \in [Txns -> Work \cup {NoWork}]
  /\ \A i \in DOMAIN tickets :
       tickets[i].status = "MATCHED" => tickets[i].match \in DOMAIN matches

\* A player has at most one ticket that searches or belongs to a live match, so
\* that two quick taps never leave two tickets to be matched independently
\* (enqueue-player-transaction.ts:107-146).
OneTicket ==
  \A i, j \in DOMAIN tickets :
    tickets[i].user = tickets[j].user /\ Active(i) /\ Active(j) => i = j

\* A queue request is carried out once for its idempotency key, also when it is
\* retried while the first attempt is still open.
OneTicketPerKey ==
  \A i, j \in DOMAIN tickets :
    /\ tickets[i].key # NoKey
    /\ tickets[i].user = tickets[j].user
    /\ tickets[i].key = tickets[j].key
    => i = j

\* No ticket is seated in two matches, and no player twice in one: the matcher,
\* run by every poll and by the worker, never meets its own earlier claim.
SeatedOnce ==
  /\ \A m, n \in DOMAIN matches : m # n => matches[m].seats \cap matches[n].seats = {}
  /\ \A m \in DOMAIN matches : \A i, j \in matches[m].seats :
       tickets[i].user = tickets[j].user => i = j

\* A ranked player whose ticket was cancelled or expired has the stake back,
\* whichever of the three paths closed it.
StakeReturned ==
  \A i \in DOMAIN tickets :
    Ranked(tickets[i].choice) /\ tickets[i].status \in {"CANCELLED", "EXPIRED"}
      => \E r \in refunds : r[1] = i

(* What holds while transactions are open: the parts of the inductive
   invariant that the properties above rest on. *)

\* One enqueue transaction of a player at a time is past the advisory lock.
LockHeldOnce ==
  \A s, t \in Txns :
    /\ Open(s) /\ tx[s].op = "enqueue" /\ tx[s].locked
    /\ Open(t) /\ tx[t].op = "enqueue" /\ tx[t].locked
    /\ tx[s].user = tx[t].user
    => s = t

\* Past the lock, every active ticket of the player is one it will expire.
LockedReadStands ==
  \A t \in Txns : Open(t) /\ tx[t].op = "enqueue" /\ tx[t].locked =>
    \A i \in DOMAIN tickets : tickets[i].user = tx[t].user /\ Active(i) => i \in tx[t].rows

\* A stake that a transaction read as to be refunded it refunds; one that it
\* read as refunded stays so.
BackReadStands ==
  \A t \in Txns : Open(t) =>
    \A i \in tx[t].rows :
      /\ i \in DOMAIN tickets
      /\ Ranked(tickets[i].choice) => i \in tx[t].back \/ tickets[i].refundedAt

\* A closed ranked ticket is marked refunded, and a mark stands for a credit.
MarksAreCredits ==
  \A i \in DOMAIN tickets :
    /\ Ranked(tickets[i].choice) /\ tickets[i].status \in {"CANCELLED", "EXPIRED"}
         => tickets[i].refundedAt
    /\ tickets[i].refundedAt => \E r \in refunds : r[1] = i

\* A seated ticket never searches again.
SeatedIsDone ==
  \A m \in DOMAIN matches : \A i \in matches[m].seats :
    i \in DOMAIN tickets /\ ~Searching(i)

\* The key of every ticket is taken.
KeysAreUsed ==
  \A i \in DOMAIN tickets :
    tickets[i].key # NoKey => <<tickets[i].user, tickets[i].key>> \in used

\* The inductive invariant.
QueueInv ==
  /\ TypeOK
  /\ OneTicket
  /\ OneTicketPerKey
  /\ SeatedOnce
  /\ StakeReturned
  /\ LockHeldOnce
  /\ LockedReadStands
  /\ BackReadStands
  /\ MarksAreCredits
  /\ SeatedIsDone
  /\ KeysAreUsed

\* Two taps and a retry of one player come to one ticket: one is active at a time
\* and one is made for a key, although both requests are read before either is
\* written (enqueue-player-transaction.ts:93-150).
SingleTickets == OneTicket /\ OneTicketPerKey

\* A stake is given back once.
RefundedOnce == \A r, s \in refunds : r[1] = s[1] => r = s

\* The seats of m whose ticket still stands: a cancel, a sweep or a request of the
\* player that read the ticket before the claim closes it by id after the claim.
Kept(m) == {i \in matches[m].seats : tickets[i].status = "MATCHED"}

\* No player has a standing seat in two live matches.
InOneMatch ==
  \A m, n \in DOMAIN matches : matches[m].live /\ matches[n].live /\ m # n =>
    \A i \in Kept(m), j \in Kept(n) : tickets[i].user # tickets[j].user

\* A ticket that searches or is matched has its stake in, whoever read it before.
StakesHeld ==
  \A i \in DOMAIN tickets :
    tickets[i].status \in {"SEARCHING", "MATCHED"} => ~tickets[i].refundedAt

\* RankingMatch.payoutAmountGld: two stakes less two fees, rounded up.
Payout(a) == 2 * Stake[a] - (2 * FeeMicros[a] + Micros - 1) \div Micros

StakeOf(i) == Stake[tickets[i].choice.arena]

\* A live ranked match can pay its winner from two stakes that are in it, as long
\* as none of its tickets was closed under it.
PotBacked ==
  \A m \in DOMAIN matches :
    matches[m].live /\ matches[m].arena # Casual /\ Kept(m) = matches[m].seats =>
      \E i, j \in Kept(m) :
        /\ i # j /\ ~tickets[i].refundedAt /\ ~tickets[j].refundedAt
        /\ Payout(matches[m].arena) <= StakeOf(i) + StakeOf(j)

\* The players of a match queued in its mode and, unless it is Domino, whose
\* further seats come from any arena, staked in its arena.
SameArena ==
  \A m \in DOMAIN matches : \A i \in matches[m].seats :
    /\ Ranked(tickets[i].choice) <=> matches[m].arena # Casual
    /\ matches[m].game # Domino => tickets[i].choice.arena = matches[m].arena

\* A ranked match is played among humans, at least two of whom staked in its arena;
\* only Domino is filled with bots whatever the mode.
RankedAreHuman ==
  \A m \in DOMAIN matches : matches[m].arena # Casual =>
    /\ matches[m].game # Domino => matches[m].bots = 0
    /\ \E i, j \in matches[m].seats :
         /\ i # j
         /\ tickets[i].choice.arena = matches[m].arena
         /\ tickets[j].choice.arena = matches[m].arena

\* A match the queue made is one its players can play and be paid for, whatever
\* requests, cancels, sweeps, reviews and bot fills came between: while their
\* tickets stand they play no other, the stakes are still there and cover the
\* payout, and the opponents queued for the same (enqueue, cancel, sweep and claim
\* agree on these only through the ticket's status).
MatchesAreSound ==
  InOneMatch /\ StakesHeld /\ PotBacked /\ SameArena /\ RankedAreHuman

\* A seat whose ticket stands is matched with its match.
SeatsAgree ==
  \A m \in DOMAIN matches : \A i \in Kept(m) : tickets[i].match = m

\* The inductive invariant of MatchesAreSound, with QueueInv.
SoundInv == StakesHeld /\ SeatsAgree /\ SameArena /\ RankedAreHuman

\* i and j wait, are polled, and could play each other.
CouldPlay(i, j) ==
  /\ {i, j} \subseteq Waiting
  /\ Pairable(i, j)
  /\ {tickets[i].user, tickets[j].user} \cap flagged = {}

\* The head of the queue holds up everybody behind it: it would be seated with a
\* player under fraud review, or it is a random-game ticket that is due for a bot
\* no game or no permission gives it.
HeldUp ==
  \E first \in Oldest({i \in Waiting : Eligible(i)}, 1) :
    \/ \E i \in Seats(first, Waiting) : tickets[i].user \in flagged
    \/ /\ tickets[first].choice.random
       /\ Rivals(first, Waiting) = {}
       /\ ~tickets[first].bot \/ BotGames = {}

\* Two players who could play each other and keep polling do not wait for ever:
\* nothing but a head of the queue that is held up starves them, neither older
\* tickets of other pools nor tickets that wait for a bot.
PairIsMatched ==
  \A j \in 1..MaxTickets : \A i \in 1..j-1 :
    ~<>[](j \in DOMAIN tickets /\ CouldPlay(i, j) /\ ~HeldUp)

\* A ticket nobody polls any more is closed, and its stake so returned.
AbandonedIsClosed ==
  \A i \in 1..MaxTickets : ~<>[](i \in DOMAIN tickets /\ Searching(i) /\ Stale(i))

=============================================================================
