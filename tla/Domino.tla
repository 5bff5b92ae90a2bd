------------------------------- MODULE Domino -------------------------------
(***************************************************************************)
(* Domino Duel: the engine (domino-engine.ts) and the service that runs a  *)
(* match on it (domino.service.ts).                                        *)
(*                                                                         *)
(* A match is a series of rounds.  A round deals every tile of the deck    *)
(* among the seats, and the seat whose turn it is puts a tile at one end   *)
(* of the chain; a seat that cannot is passed over.  A round ends when a   *)
(* hand is empty or nobody can move, and the next is dealt after a short   *)
(* delay, until a score reaches the target, the rounds are used up, the    *)
(* clock runs out or somebody forfeits.  Nothing but a request or a poll   *)
(* moves the match: each of them locks it, brings it up to date and then   *)
(* does what it was asked to do, in one transaction.                       *)
(*                                                                         *)
(* "game" is the JSON of DominoMatchState.state.  The shuffle is any deal. *)
(***************************************************************************)
EXTENDS Integers, Sequences, FiniteSets, FiniteSetsExt, Functions

CONSTANTS
    SeatCount,      \* seats of a match, numbered from 0
    Bots,           \* seats taken by bots
    MaxPip,         \* highest number of pips on half a tile
    HandSize,       \* tiles dealt to a seat
    TargetScore,    \* score that ends the match
    MaxRounds,      \* rounds of a match
    Deals,          \* hands the shuffle may deal
    MaxActions      \* bound: rejected actions are sent only up to this sequence

Seats == 0 .. (SeatCount - 1)
Humans == Seats \ Bots
Tiles == {t \in (0 .. MaxPip) \X (0 .. MaxPip) : t[1] =< t[2]}

\* every way the shuffled deck can be dealt
AllDeals == {h \in [Seats -> kSubset(HandSize, Tiles)] :
                \A p, q \in Seats : p # q => h[p] \cap h[q] = {}}

\* policy() fixes seven tiles and four seats; with hands of one tile a round
\* could end with the action that finds it dealt.
ASSUME DominoAssumption ==
    /\ SeatCount \in Nat \ {0, 1} /\ Bots \subseteq Seats /\ Humans # {}
    /\ MaxPip \in Nat /\ HandSize \in Nat \ {0, 1} /\ MaxActions \in Nat
    /\ TargetScore \in Nat \ {0} /\ MaxRounds \in Nat \ {0}
    /\ Deals \subseteq AllDeals

VARIABLES
    rewards,    \* Match.mode PRACTICE, or whether its progressions are complete
    match,      \* Match.status
    ready,      \* participants with readyAt
    game,       \* DominoMatchState.state
    recorded,   \* sequences of the DominoAction rows of a participant
    evidence,   \* an accepted MatchEvent row exists
    outcome     \* MatchParticipant.result

vars == <<rewards, match, ready, game, recorded, evidence, outcome>>

----------------------------------------------------------------------------
(* The engine *)

Flipped(t) == <<t[2], t[1]>>
Pips(t) == t[1] + t[2]
HandPips(hand) == SumFunctionOnSet([t \in hand |-> Pips(t)], hand)

\* the highest double opens, else the highest tile; seats break ties
Rank(t) == Pips(t) + (IF t[1] = t[2] THEN 2 * MaxPip + 1 ELSE 0)
OpeningSeat(h) ==
    Min({p \in Seats : \E t \in h[p] : \A q \in Seats : \A u \in h[q] : Rank(u) =< Rank(t)})

NoResult == [winner |-> -1, points |-> 0, blocked |-> FALSE]

InitialState(h) ==
    [status |-> "ACTIVE", round |-> 1, seat |-> OpeningSeat(h), hands |-> h, chain |-> <<>>,
     scores |-> [p \in Seats |-> 0], next |-> [p \in Seats |-> 1], passes |-> 0,
     last |-> NoResult, clock |-> "RUNNING", timer |-> [b \in Bots |-> "UNSET"]]

\* Mutant of NextRoundState: the scores are those of a new match.
NextRoundState_NewScores(g, h) ==
    [InitialState(h) EXCEPT !.round = g.round + 1,
                            !.seat = IF g.last.winner \in Seats THEN g.last.winner ELSE @]

\* the scores are kept; sequences, clocks and timers are those of a new state
NextRoundState(g, h) ==
    [InitialState(h) EXCEPT !.round = g.round + 1, !.scores = g.scores,
                            !.seat = IF g.last.winner \in Seats THEN g.last.winner ELSE @]

\* the chain is kept from left to right and is the source of the open ends
Fits(g, t, side) ==
    \/ g.chain = <<>>
    \/ side = "LEFT" /\ g.chain[1][1] \in {t[1], t[2]}
    \/ side = "RIGHT" /\ g.chain[Len(g.chain)][2] \in {t[1], t[2]}

Moves(g, p) == {mv \in g.hands[p] \X {"LEFT", "RIGHT"} : Fits(g, mv[1], mv[2])}

\* Mutant of Placed: a tile goes to the left end as it comes.
Placed_Unturned(g, t, side) ==
    IF g.chain = <<>> THEN <<t>>
    ELSE IF side = "LEFT" THEN <<t>> \o g.chain
    ELSE Append(g.chain, IF t[1] = g.chain[Len(g.chain)][2] THEN t ELSE Flipped(t))

\* a tile is turned so that it meets the open end it is put to
Placed(g, t, side) ==
    IF g.chain = <<>> THEN <<t>>
    ELSE IF side = "LEFT"
         THEN <<IF t[2] = g.chain[1][1] THEN t ELSE Flipped(t)>> \o g.chain
         ELSE Append(g.chain, IF t[1] = g.chain[Len(g.chain)][2] THEN t ELSE Flipped(t))

FewestPips(g) ==
    Min({p \in Seats : \A q \in Seats : HandPips(g.hands[p]) =< HandPips(g.hands[q])})

\* Mutant of ScoreRound: a blocked round goes to the seat whose turn it is.
ScoreRound_Turn(g, emptied, blocked) ==
    LET winner == IF blocked THEN g.seat ELSE emptied
    IN  [g EXCEPT !.status = "ROUND_COMPLETE", !.scores[winner] = @ + 1,
                  !.last = [winner |-> winner, points |-> 1, blocked |-> blocked]]

\* the winner takes the pips of the others, less its own when blocked
ScoreRound(g, emptied, blocked) ==
    LET winner == IF blocked THEN FewestPips(g) ELSE emptied
        others == SumFunctionOnSet([p \in Seats |-> HandPips(g.hands[p])], Seats \ {winner})
        points == Max({1, others - HandPips(g.hands[winner])})
    IN  [g EXCEPT !.status = "ROUND_COMPLETE", !.scores[winner] = @ + points,
                  !.last = [winner |-> winner, points |-> points, blocked |-> blocked]]

\* Mutant of After: the turn does not come round to the first seat.
After_NoWrap(p) == p + 1

After(p) == (p + 1) % SeatCount

\* Mutant of PlayTile: the passes before it still count.
PlayTile_KeepsPasses(g, p, t, side) ==
    LET played == [g EXCEPT !.chain = Placed(g, t, side), !.hands[p] = @ \ {t}, !.seat = After(p)]
    IN  IF played.hands[p] = {} THEN ScoreRound(played, p, FALSE) ELSE played

\* applyAction() of a tile that is accepted
PlayTile(g, p, t, side) ==
    LET played == [g EXCEPT !.chain = Placed(g, t, side), !.hands[p] = @ \ {t},
                            !.passes = 0, !.seat = After(p)]
    IN  IF played.hands[p] = {} THEN ScoreRound(played, p, FALSE) ELSE played

\* applyAction() of a pass that is accepted
Pass(g, p) ==
    LET passed == [g EXCEPT !.passes = @ + 1, !.seat = After(p)]
    IN  IF passed.passes >= SeatCount THEN ScoreRound(passed, -1, TRUE) ELSE passed

\* the turn goes to the next seat with a move; after a full circle of passes
\* the round is blocked
SkipBlockedTurns(g) ==
    LET able == {k \in 0 .. (SeatCount - g.passes - 1) : Moves(g, (g.seat + k) % SeatCount) # {}}
        skipped(k) == [g EXCEPT !.seat = (@ + k) % SeatCount, !.passes = @ + k]
    IN  IF g.status # "ACTIVE" THEN g
        ELSE IF able = {} THEN ScoreRound(skipped(SeatCount - g.passes), -1, TRUE)
        ELSE skipped(Min(able))

----------------------------------------------------------------------------
(* The service *)

Rewards == {"PRACTICE", "COMPLETE", "INCOMPLETE"}

Init ==
    /\ rewards \in Rewards
    /\ match = "CREATED"
    /\ ready = {}
    /\ game = [status |-> "NONE"]
    /\ recorded = [p \in Seats |-> {}]
    /\ evidence = FALSE
    /\ outcome = [p \in Seats |-> "PENDING"]

\* completeRound(): the match ends with the target, the last round or its
\* time.  The clock of a round is not read again once the round is complete
Complete(g) ==
    IF g.status = "ROUND_COMPLETE" /\ (\/ \E p \in Seats : g.scores[p] >= TargetScore
                                      \/ g.round >= MaxRounds
                                      \/ g.clock = "MATCH_OVER")
    THEN [g EXCEPT !.status = "FINISHED"] ELSE g

\* Mutant of Expired: a round that is over is missed once the match is, too.
Expired_RoundOnly(g) ==
    IF g.status = "ACTIVE" /\ g.clock = "ROUND_OVER" THEN [g EXCEPT !.status = "FINISHED"] ELSE g

\* the end of snapshot(): an active round whose time is over ends the match
Expired(g) == IF g.status = "ACTIVE" /\ g.clock # "RUNNING" THEN [g EXCEPT !.status = "FINISHED"] ELSE g

\* finishMatch(): "forfeiter" is a seat, or -1
Outcome(g, forfeiter) ==
    LET leaders == {p \in Seats : \A q \in Seats : g.scores[q] =< g.scores[p]}
        winner == IF forfeiter \in Seats THEN Min(Seats \ {forfeiter}) ELSE Min(leaders)
        tied == forfeiter \notin Seats /\ leaders = Seats
    IN  [p \in Seats |-> IF p = forfeiter THEN "FORFEIT" ELSE IF tied THEN "DRAW"
                         ELSE IF p = winner THEN "WIN" ELSE "LOSS"]

\* saveState(), with finishMatch() when the game has ended
Save(g, forfeiter) ==
    /\ game' = g
    /\ match' = IF g.status = "FINISHED" THEN "FINISHED" ELSE match
    /\ outcome' = IF g.status = "FINISHED" THEN Outcome(g, forfeiter) ELSE outcome

\* the deals a handler may need: for a match without a state, and for the
\* next round when its delay is over
Dealt(due) ==
    IF game.status = "NONE" \/ (game.status = "ROUND_COMPLETE" /\ due) THEN Deals ELSE {game.hands}

\* ensureStartedState() and advanceRoundIfReady()
Current(due, h) ==
    IF game.status = "NONE" THEN InitialState(h)
    ELSE IF game.status = "ROUND_COMPLETE" /\ due THEN NextRoundState(game, h)
    ELSE game

Start(u, h) ==
    LET all == Humans \subseteq ready \union {u} IN
    /\ match \in {"CREATED", "STARTED"}
    /\ ready' = ready \union {u}
    /\ IF game.status = "NONE" /\ all
       THEN game' = InitialState(h) /\ match' = "STARTED"
       ELSE UNCHANGED <<game, match>>
    /\ UNCHANGED <<rewards, recorded, evidence, outcome>>

\* StartMatchTransaction starts any game, without a state of this one
StartMatch(u) ==
    /\ match = "CREATED"
    /\ ready' = ready \union {u}
    /\ match' = IF Humans \subseteq ready' THEN "STARTED" ELSE match
    /\ UNCHANGED <<rewards, game, recorded, evidence, outcome>>

Counted(g, p) == [g EXCEPT !.next[p] = @ + 1]
Recorded(g, p) == [recorded EXCEPT ![p] = @ \union {g.next[p]}]

\* an action's row is unique on (match, participant, sequence)
SequenceFree(g, p) == g.next[p] \notin recorded[p]

BotActs(g) ==
    /\ g.status = "ACTIVE" /\ g.clock = "RUNNING"
    /\ g.seat \in Bots /\ g.timer[g.seat] = "DUE"

\* advanceBot() that only sets the bot's timer
Scheduled(g) ==
    IF g.status = "ACTIVE" /\ g.seat \in Bots
    THEN [g EXCEPT !.timer[g.seat] = IF @ = "UNSET" THEN "SET" ELSE @] ELSE g

\* advanceBot() that plays a highest tile, or passes
BotMoves(g) ==
    LET p == g.seat
        best == {mv \in Moves(g, p) : \A other \in Moves(g, p) : Pips(other[1]) =< Pips(mv[1])}
        played == IF best = {} THEN {Pass(g, p)} ELSE {PlayTile(g, p, mv[1], mv[2]) : mv \in best}
    IN  {[Counted(x, p) EXCEPT !.timer[p] = "SET"] : x \in played}

\* snapshot(), by a player, the bots' interval or the matchmaking worker: each
\* stage takes the state the one before it left
Snapshot(due, h) ==
    /\ match = "STARTED"
    /\ \E g \in {Current(due, h)} :
          /\ BotActs(g) => SequenceFree(g, g.seat)
          /\ recorded' = IF BotActs(g) THEN Recorded(g, g.seat) ELSE recorded
          /\ evidence' = (evidence \/ BotActs(g))
          /\ \E moved \in IF BotActs(g) THEN BotMoves(g) ELSE {Scheduled(g)} :
             \E skipped \in {SkipBlockedTurns(moved)} :
             \E completed \in {Complete(skipped)} : Save(Expired(completed), -1)
    /\ UNCHANGED <<rewards, ready>>

\* action() that finds the round blocked, or is a duplicate
ActionReplayed(due, h) ==
    LET g == SkipBlockedTurns(Current(due, h)) IN
    /\ match = "STARTED" /\ Current(due, h).status = "ACTIVE"
    /\ g.status = "ROUND_COMPLETE" \/ \E u \in Humans : recorded[u] # {}
    /\ Save(Complete(g), -1)
    /\ UNCHANGED <<rewards, ready, recorded, evidence>>

\* action() with the expected sequence: it is recorded, accepted or not
Action(u, due, h) ==
    LET g == SkipBlockedTurns(Current(due, h)) IN
    /\ match = "STARTED" /\ g.status = "ACTIVE"
    /\ SequenceFree(g, u)
    /\ \/ /\ g.seat = u /\ g.clock = "RUNNING"
          /\ \E mv \in Moves(g, u) : Save(Complete(Counted(PlayTile(g, u, mv[1], mv[2]), u)), -1)
          /\ evidence' = TRUE
       \/ /\ g.next[u] =< MaxActions
          /\ Save(Counted(g, u), -1)
          /\ UNCHANGED evidence
    /\ recorded' = Recorded(g, u)
    /\ UNCHANGED <<rewards, ready>>

Forfeit(u, h) ==
    /\ match = "STARTED"
    /\ Save([Current(FALSE, h) EXCEPT !.status = "FINISHED"], u)
    /\ UNCHANGED <<rewards, ready, recorded, evidence>>

\* SettleMatchTransaction holds back a match that nobody played, or whose reward
\* configuration is incomplete; a practice match has no rewards to hold
Rewardable == rewards = "PRACTICE" \/ (evidence /\ rewards = "COMPLETE")

\* settleFinishedMatch(): a transaction that throws changes nothing, and a match
\* in review is left as it is
Settle ==
    /\ match = "FINISHED"
    /\ match' = IF Rewardable THEN "SETTLED" ELSE "REVIEW"
    /\ UNCHANGED <<rewards, ready, game, recorded, evidence, outcome>>

\* time: the clocks of a round, and the delay of a bot's move
ClockPasses ==
    /\ game.status = "ACTIVE" /\ game.clock # "MATCH_OVER"
    /\ game' = [game EXCEPT !.clock = IF @ = "RUNNING" THEN "ROUND_OVER" ELSE "MATCH_OVER"]
    /\ UNCHANGED <<rewards, match, ready, recorded, evidence, outcome>>

DelayPasses(b) ==
    /\ game.status = "ACTIVE" /\ game.timer[b] = "SET"
    /\ game' = [game EXCEPT !.timer[b] = "DUE"]
    /\ UNCHANGED <<rewards, match, ready, recorded, evidence, outcome>>

Next ==
    \/ \E u \in Humans : StartMatch(u) \/ \E h \in Dealt(FALSE) : Start(u, h) \/ Forfeit(u, h)
    \/ \E due \in BOOLEAN : \E h \in Dealt(due) :
          \/ Snapshot(due, h) \/ ActionReplayed(due, h)
          \/ \E u \in Humans : Action(u, due, h)
    \/ Settle \/ ClockPasses \/ \E b \in Bots : DelayPasses(b)

\* the bots' interval and the worker poll every match, time passes, and a
\* settlement is retried
Fairness ==
    /\ WF_vars(game.status = "ACTIVE" /\ game.clock # "RUNNING" /\ Snapshot(TRUE, game.hands))
    /\ WF_vars(game.status \in {"NONE", "ROUND_COMPLETE"} /\ \E h \in Deals : Snapshot(TRUE, h))
    /\ WF_vars(Settle) /\ WF_vars(ClockPasses)

Spec == Init /\ [][Next]_vars /\ Fairness

----------------------------------------------------------------------------
(* Properties *)

Statuses == {"CREATED", "STARTED", "FINISHED", "REVIEW", "SETTLED"}
Results == [winner : Seats \union {-1}, points : Nat, blocked : BOOLEAN]
Halves == 0 .. MaxPip

GameRow ==
    [status : {"ACTIVE", "ROUND_COMPLETE", "FINISHED"}, round : 1 .. MaxRounds, seat : Seats,
     hands : [Seats -> SUBSET Tiles], chain : Seq(Halves \X Halves),
     scores : [Seats -> Nat], next : [Seats -> Nat], passes : 0 .. SeatCount, last : Results,
     clock : {"RUNNING", "ROUND_OVER", "MATCH_OVER"}, timer : [Bots -> {"UNSET", "SET", "DUE"}]]

\* The state of a match has the shape the service stores.
TypeOK ==
    /\ rewards \in Rewards /\ evidence \in BOOLEAN
    /\ match \in Statuses
    /\ ready \subseteq Humans
    /\ recorded \in [Seats -> SUBSET Nat]
    /\ outcome \in [Seats -> {"PENDING", "WIN", "LOSS", "DRAW", "FORFEIT"}]
    /\ game.status # "NONE" => game \in GameRow

Face(t) == {t[1], t[2]}
InHands(g) == UNION {g.hands[p] : p \in Seats}

InOneZone(g) ==
    /\ \A p, q \in Seats : p # q => g.hands[p] \cap g.hands[q] = {}
    /\ \A i, j \in DOMAIN g.chain : i # j => Face(g.chain[i]) # Face(g.chain[j])
    /\ \A i \in DOMAIN g.chain : \A t \in InHands(g) : Face(g.chain[i]) # Face(t)
    /\ Len(g.chain) + Cardinality(InHands(g)) = SeatCount * HandSize
    /\ \A i \in 1 .. (Len(g.chain) - 1) : g.chain[i][2] = g.chain[i + 1][1]

\* Every tile that was dealt is in one hand or once on the chain, and the tiles
\* of the chain meet with equal halves, at both ends and after every turn.
OneZone == game.status # "NONE" => InOneZone(game)

EndedRight(g) ==
    g.last # NoResult =>
        LET w == g.last.winner IN
        IF g.last.blocked
        THEN \A p \in Seats : /\ Moves(g, p) = {} /\ g.hands[p] # {}
                              /\ HandPips(g.hands[w]) =< HandPips(g.hands[p])
        ELSE g.hands[w] = {}

\* A round that was scored was won by an empty hand, or nobody could move and
\* its winner held the fewest pips.
RoundEndsRight == game.status # "NONE" => EndedRight(game)

ForcedPasses(g) ==
    g.status = "ACTIVE" =>
        /\ g.passes < SeatCount
        /\ \A k \in 1 .. g.passes : Moves(g, (g.seat + SeatCount - k) % SeatCount) = {}

\* The seats counted as passed are those before the turn, and none of them can
\* move: nobody loses a turn that could be played.
PassesForced == game.status # "NONE" => ForcedPasses(game)

\* Scores change only when an active round is scored, for its winner, by the
\* points of its result: never twice for one round.
ScoredOnce ==
    [][game.status # "NONE" /\ game'.scores # game.scores =>
          /\ game.status = "ACTIVE" /\ game'.status \in {"ROUND_COMPLETE", "FINISHED"}
          /\ game'.round = game.round /\ game'.last.points > 0
          /\ game'.scores = [game.scores EXCEPT ![game'.last.winner] = @ + game'.last.points]]_vars

\* A match that was started is finished and settled, though nobody sends anything
\* but polls; only one without an accepted action, or without a complete reward
\* configuration, is left in review instead.
EveryMatchEnds ==
    match = "STARTED" ~> \/ match = "SETTLED" /\ Rewardable
                         \/ match = "REVIEW" /\ ~Rewardable

----------------------------------------------------------------------------
(* The inductive invariant *)

\* What every function of the engine keeps: while a round is played it has no
\* result and no hand is empty.
Sound(g) ==
    /\ g \in GameRow /\ InOneZone(g) /\ EndedRight(g) /\ ForcedPasses(g)
    /\ g.status = "ACTIVE" => g.last = NoResult /\ \A p \in Seats : g.hands[p] # {}

\* A state that is saved is sound, and a complete round is not the last.
DominoInv ==
    /\ TypeOK
    /\ game.status # "NONE" => Sound(game)
    /\ game.status = "ROUND_COMPLETE" => game.round < MaxRounds
============================================================================
