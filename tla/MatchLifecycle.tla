----------------------------- MODULE MatchLifecycle -----------------------------
(***************************************************************************)
(* One match of src/src/modules/matches from its creation to its settled   *)
(* stakes: readiness, the event journal of each participant, the ways to   *)
(* finish (FINISH event, complete, forfeit, timeout), settlement, and the  *)
(* administrator's review of held rewards.                                 *)
(*                                                                         *)
(* Start, event, complete, forfeit and settle take the Match row FOR       *)
(* UPDATE before they read, so each is one step.  The expiry worker reads  *)
(* the match and its participants before it locks the row, and the review  *)
(* of a hold locks nothing: each is a step that reads and one that writes. *)
(*                                                                         *)
(* Abstractions.  The game is one with server content; board games and     *)
(* cooperative matches finish by services of their own and share           *)
(* settlement.  A client numbers its events, and the number stands for     *)
(* both clientEventId and sequence; an answer is right, wrong or rejected; *)
(* a paid skip is a right answer.  The answers the code adds for a bot as  *)
(* it completes it are a BotAnswers step just before.  Of the rewards only *)
(* the ranked pot is kept: experience, daily caps, statistics and          *)
(* leaderboards are not.  The game configuration stays active.  Time is    *)
(* whether the duration of the match and its grace have passed.            *)
(***************************************************************************)
EXTENDS Integers, Sequences, FiniteSets, SequencesExt

CONSTANTS
  Humans,       \* players
  Bots,         \* bot seats
  Setups,       \* matches as they are created: [mode, players, status]
  Nobody,       \* the winner of a match without one
  NoSettlement, \* a match without a MatchSettlement row
  Right,        \* points of a right answer
  Wrong,        \* penalty of a wrong one
  Stake,        \* RankingMatch.stakeAmountGld
  FeeMicros,    \* RankingMatch.entryFeeGldMicros
  Micros,       \* micro units in one GLD (10^6)
  MaxSequence   \* bound on the events of a participant

Modes == {"RANKED", "CASUAL", "BOT", "PRACTICE"}
Statuses == {"CREATED", "STARTED", "FINISHED", "REVIEW", "SETTLED"}
Results == {"PENDING", "COMPLETED", "FORFEIT", "WIN", "LOSS", "DRAW"}
Eligibilities == {"FULL", "PARTIAL", "HELD", "NONE"}
Seats == Humans \cup Bots

Setup == [mode: Modes, players: SUBSET Seats, status: {"CREATED", "STARTED"}]

Entry ==
  [n: Nat, kind: {"ANSWER", "FINISH", "FORFEIT"}, ok: BOOLEAN, points: {0, Right, -Wrong}]

ASSUME SetupsAssumption ==
  /\ Setups \subseteq Setup
  /\ \A s \in Setups : s.players \cap Humans # {}
ASSUME SeatsAssumption == Humans \cap Bots = {} /\ Nobody \notin Seats
ASSUME PointsAssumption == Right \in Nat /\ Wrong \in Nat
ASSUME StakeAssumption == Stake \in Nat /\ FeeMicros \in Nat /\ Micros \in Nat \ {0}
ASSUME SequenceAssumption == MaxSequence \in Nat
ASSUME NoSettlementAssumption == NoSettlement \notin [winner: Seats \cup {Nobody}, draw: BOOLEAN]

VARIABLES
  setup,       \* what the match is
  status,      \* Match.status
  ready,       \* participants with a readyAt
  result,      \* MatchParticipant.result
  score,       \* MatchParticipant.finalScore
  journal,     \* MatchEvent rows of each participant
  late,        \* the duration and its grace have passed
  sweep,       \* what the expiry worker has read and will write
  settlement,  \* MatchSettlement row
  eligible,    \* MatchParticipant.rewardEligibility
  credits,     \* wallet credits of the pot, by source: <<player, source>>
  hold,        \* MatchRewardHold.status of each player
  desk         \* holds an administrator has read and is about to write

play == <<ready, score, journal>>
money == <<settlement, eligible, credits, hold>>
vars == <<setup, status, play, result, late, sweep, money, desk>>

-----------------------------------------------------------------------------
Players == setup.players
People == Players \cap Humans

Active == status \in {"CREATED", "STARTED"}

\* closeIfAllHumanParticipantsFinished, over the results r about to be written.
AllDone(r) == \A p \in People : r[p] # "PENDING"

\* A match against bots completes its bots with a player who finishes.
WithBots(r) ==
  [p \in Seats |->
     IF setup.mode = "BOT" /\ p \in Players \cap Bots /\ r[p] = "PENDING" THEN "COMPLETED" ELSE r[p]]

LastSequence(p) == IF journal[p] = <<>> THEN 0 ELSE journal[p][Len(journal[p])].n

Answers(p) == {i \in DOMAIN journal[p] : journal[p][i].ok /\ journal[p][i].kind = "ANSWER"}

Did(p, kind) == \E i \in DOMAIN journal[p] : journal[p][i].ok /\ journal[p][i].kind = kind

Init ==
  /\ setup \in Setups
  /\ status = setup.status
  /\ ready = {}
  /\ result = [p \in Seats |-> "PENDING"]
  /\ score = [p \in Seats |-> 0]
  /\ journal = [p \in Seats |-> <<>>]
  /\ late = FALSE
  /\ sweep = "idle"
  /\ settlement = NoSettlement
  /\ eligible = [p \in Seats |-> "NONE"]
  /\ credits = {}
  /\ hold = [p \in Seats |-> "none"]
  /\ desk = {}

-----------------------------------------------------------------------------
(* SettleMatchTransaction *)

\* The first of the others in the order humans, bots, otherwise arbitrary.
FirstOf(S) == IF S = {} THEN {Nobody} ELSE IF S \cap Humans # {} THEN S \cap Humans ELSE S

Forfeiters(r) == {p \in Players : r[p] = "FORFEIT"}

Highest == {p \in Players : \A q \in Players : score[q] <= score[p]}

Decision(w, d) == [winner |-> w, draw |-> d]

\* Who wins: the first other than a forfeiter, or the only highest score.
Decisions(r) ==
  IF Forfeiters(r) # {}
    THEN {Decision(w, FALSE) : w \in UNION {FirstOf(Players \ {f}) : f \in Forfeiters(r)}}
    ELSE IF Cardinality(Highest) = 1
           THEN {Decision(w, FALSE) : w \in Highest}
           ELSE {Decision(Nobody, Highest = Players)}

Final(r, d) ==
  [p \in Seats |->
     IF p \notin Players THEN r[p]
     ELSE IF p = d.winner THEN "WIN"
     ELSE IF d.draw THEN "DRAW"
     ELSE IF r[p] = "FORFEIT" THEN "FORFEIT" ELSE "LOSS"]

\* What each player's fraud profile, read here, makes of the reward.
Eligible(final, risk) ==
  [p \in Seats |->
     IF p \notin People \/ final[p] = "FORFEIT" \/ risk[p] = "restricted" THEN "NONE"
     ELSE IF risk[p] = "high" /\ Cardinality(Answers(p)) <= 1 THEN "HELD"
     ELSE IF setup.mode = "PRACTICE" \/ Answers(p) = {} THEN "NONE"
     ELSE IF Players \cap Bots # {} THEN "PARTIAL" ELSE "FULL"]

RoundedUp(micros) == (micros + Micros - 1) \div Micros
Payout == 2 * Stake - RoundedUp(2 * FeeMicros)
Refund == Stake - RoundedUp(FeeMicros)

\* Mutant of HoldsPot: a pot that is paid is also held.
HoldsPot_Always(w, e) == TRUE

HoldsPot(w, e) == e[w] # "FULL"

\* The pot goes to the winner, at once or as a hold, and back to all without one.
PotCredits(d, e) ==
  IF setup.mode # "RANKED" THEN {}
  ELSE IF d.winner = Nobody THEN (IF Refund > 0 THEN People \X {"draw-refund"} ELSE {})
  ELSE IF e[d.winner] = "FULL" THEN {<<d.winner, "payout">>} ELSE {}

PotHeld(d, e) == setup.mode = "RANKED" /\ d.winner # Nobody /\ HoldsPot(d.winner, e)

\* Settlement with the results r, after the caller has set the status to st.
Settle(r, st) ==
  IF settlement # NoSettlement \/ ~AllDone(r)
    THEN result' = r /\ status' = st /\ UNCHANGED money
  ELSE \/ /\ setup.mode # "PRACTICE"  \* no answers, or an incomplete reward configuration
          /\ status' = "REVIEW"
          /\ result' = r
          /\ UNCHANGED money
       \/ /\ setup.mode = "PRACTICE" \/ \E p \in Players : Answers(p) # {}
          /\ \E d \in Decisions(r), risk \in [People -> {"clear", "high", "restricted"}] :
               LET e == Eligible(Final(r, d), risk)
                   held == {p \in Seats : \/ p = d.winner /\ PotHeld(d, e)
                                          \/ e[p] = "HELD" /\ setup.mode # "PRACTICE"}
               IN /\ result' = Final(r, d)
                  /\ settlement' = d
                  /\ eligible' = [p \in Seats |-> IF p \in held THEN "HELD" ELSE e[p]]
                  /\ hold' = [p \in Seats |-> IF p \in held THEN "HELD" ELSE hold[p]]
                  /\ credits' = credits \cup PotCredits(d, e)
                  /\ status' = "SETTLED"

-----------------------------------------------------------------------------
(* StartMatchTransaction *)

\* A player is ready; the match starts when all are, and its clock with it.
Start(p) ==
  /\ Active
  /\ ready' = IF status = "CREATED" THEN ready \cup {p} ELSE ready
  /\ IF status = "CREATED" /\ People \subseteq ready'
       THEN status' = "STARTED" /\ late' = FALSE
       ELSE UNCHANGED <<status, late>>
  /\ UNCHANGED <<setup, result, score, journal, sweep, money, desk>>

-----------------------------------------------------------------------------
(* RecordMatchEventTransaction; a number recorded before is answered from the row *)

\* Mutant of CanRecord: an event sent again is recorded again.
CanRecord_Again(p, n) == status = "STARTED" /\ result[p] = "PENDING" /\ n >= LastSequence(p)

CanRecord(p, n) == status = "STARTED" /\ result[p] = "PENDING" /\ n > LastSequence(p)

Recorded(p, n, kind, ok, points) ==
  journal' = [journal EXCEPT ![p] = Append(@, [n |-> n, kind |-> kind, ok |-> ok, points |-> points])]

\* Mutant of Scored: the score is not kept from going below zero.
Scored_NoFloor(p, points) == score[p] + points

Scored(p, points) == IF score[p] + points < 0 THEN 0 ELSE score[p] + points

Answer(p, n, points) ==
  /\ CanRecord(p, n)
  /\ Recorded(p, n, "ANSWER", TRUE, points)
  /\ score' = [score EXCEPT ![p] = Scored(p, points)]
  /\ UNCHANGED <<setup, status, ready, result, late, sweep, money, desk>>

\* A rejected answer (wrong token, out of order, too late) takes its number, as a
\* heartbeat or an emote does, and scores nothing.
Unscored(p, n) ==
  /\ CanRecord(p, n)
  /\ Recorded(p, n, "ANSWER", FALSE, 0)
  /\ UNCHANGED <<setup, status, ready, result, score, late, sweep, money, desk>>

\* Mutant of Closed: the last player to leave does not close the match.
Closed_Never(r) == status

Closed(r) == IF AllDone(r) THEN "FINISHED" ELSE status

\* FINISH, or FORFEIT and LEAVE.
Quit(p, n, kind) ==
  /\ CanRecord(p, n)
  /\ Recorded(p, n, kind, TRUE, 0)
  /\ result' = WithBots([result EXCEPT ![p] = IF kind = "FINISH" THEN "COMPLETED" ELSE "FORFEIT"])
  /\ status' = Closed(result')
  /\ UNCHANGED <<setup, ready, score, late, sweep, money, desk>>

\* BotGameplayService: a bot answers, at most one answer ahead of the player.
BotAnswers(b, points) ==
  /\ setup.mode = "BOT" /\ status = "STARTED" /\ result[b] = "PENDING"
  /\ \E p \in People : Cardinality(Answers(b)) <= Cardinality(Answers(p))
  /\ Recorded(b, LastSequence(b) + 1, "ANSWER", TRUE, points)
  /\ score' = [score EXCEPT ![b] = Scored(b, points)]
  /\ UNCHANGED <<setup, status, ready, result, late, sweep, money, desk>>

-----------------------------------------------------------------------------
(* CompleteMatchTransaction, ForfeitMatchTransaction *)

\* Mutant of Completable: a settled match is not answered from its settlement.
Completable_Settled == status # "REVIEW"

Completable == settlement = NoSettlement /\ status # "REVIEW"

\* A player is done; with the last one the match is finished and settled.
Complete(p) ==
  /\ Completable
  /\ LET r == WithBots([result EXCEPT ![p] = IF @ = "PENDING" THEN "COMPLETED" ELSE @])
     IN IF \A q \in People \ {p} : result[q] # "PENDING"
          THEN Settle(r, "FINISHED")
          ELSE result' = r /\ UNCHANGED <<status, money>>
  /\ UNCHANGED <<setup, play, late, sweep, desk>>

\* A player gives up a match that has not finished; nothing is settled yet.
Forfeit(p) ==
  /\ Active
  /\ result[p] = "PENDING"
  /\ ~Did(p, "FINISH")
  /\ Recorded(p, LastSequence(p) + 1, "FORFEIT", TRUE, 0)
  /\ result' = WithBots([result EXCEPT ![p] = "FORFEIT"])
  /\ status' = Closed(result')
  /\ UNCHANGED <<setup, ready, score, late, sweep, money, desk>>

-----------------------------------------------------------------------------
(* ExpireMatchTransaction *)

TimePasses ==
  /\ Active
  /\ ~late
  /\ late' = TRUE
  /\ UNCHANGED <<setup, status, play, result, sweep, money, desk>>

\* Mutant of Overdue: a match nobody started is never expired.
Overdue_StartedOnly == status = "STARTED" /\ late

Overdue == Active /\ late

\* The overdue match and its participants are read without a lock.
ReadExpired ==
  /\ sweep = "idle"
  /\ Overdue
  /\ sweep' = IF AllDone(result) THEN "COMPLETED" ELSE "FORFEIT"
  /\ UNCHANGED <<setup, status, play, result, late, money, desk>>

\* Mutant of TimedOut: whoever has finished meanwhile is overwritten.
TimedOut_Everyone(outcome) == [p \in Seats |-> IF p \in People THEN outcome ELSE result[p]]

\* The players still pending get the outcome that was read.
TimedOut(outcome) ==
  [p \in Seats |-> IF p \in People /\ result[p] = "PENDING" THEN outcome ELSE result[p]]

StillActive == Active

\* Under the lock the match is finished and settled, unless it has ended.
WriteExpired ==
  /\ sweep # "idle"
  /\ sweep' = "idle"
  /\ IF StillActive THEN Settle(TimedOut(sweep), "FINISHED")
                    ELSE UNCHANGED <<status, result, money>>
  /\ UNCHANGED <<setup, play, late, desk>>

\* The worker's transaction fails and the next tick starts over.
SweepFails == sweep # "idle" /\ sweep' = "idle" /\ UNCHANGED <<setup, status, play, result, late, money, desk>>

-----------------------------------------------------------------------------
(* MatchRewardIntegrityAdminService *)

\* Settlement is tried again; it reads the match anew under its lock.
RetrySettlement ==
  /\ status \in {"FINISHED", "REVIEW"}
  /\ Settle(result, status)
  /\ UNCHANGED <<setup, play, late, sweep, desk>>

\* releaseHold and cancelHold read the hold ...
ReadHold(p, verdict) ==
  /\ hold[p] = "HELD"
  /\ desk' = desk \cup {<<p, verdict>>}
  /\ UNCHANGED <<setup, status, play, result, late, sweep, money>>

Released(p) ==
  IF setup.mode = "RANKED" /\ p = settlement.winner THEN {<<p, "release">>} ELSE {}

\* ... and write it, with its amounts, whatever it has become.
WriteHold(p, verdict) ==
  /\ <<p, verdict>> \in desk
  /\ desk' = desk \ {<<p, verdict>>}
  /\ hold' = [hold EXCEPT ![p] = verdict]
  /\ eligible' = [eligible EXCEPT ![p] = IF verdict = "RELEASED" THEN "FULL" ELSE "NONE"]
  /\ credits' = IF verdict = "RELEASED" THEN credits \cup Released(p) ELSE credits
  /\ UNCHANGED <<setup, status, play, result, late, sweep, settlement>>

Next ==
  \/ \E p \in People :
       \/ Start(p) \/ Complete(p) \/ Forfeit(p)
       \/ \E n \in 1..MaxSequence :
            \/ \E points \in {Right, -Wrong} : Answer(p, n, points)
            \/ Unscored(p, n)
            \/ \E kind \in {"FINISH", "FORFEIT"} : Quit(p, n, kind)
       \/ \E verdict \in {"RELEASED", "CANCELLED"} : ReadHold(p, verdict) \/ WriteHold(p, verdict)
  \/ \E b \in Players \cap Bots, points \in {Right, -Wrong} : BotAnswers(b, points)
  \/ TimePasses \/ ReadExpired \/ WriteExpired \/ SweepFails
  \/ RetrySettlement

Spec == Init /\ [][Next]_vars

\* The worker's tick runs every two seconds; a tick that fails is followed by
\* another, so that one of them gets through.  Nobody else has to act.
Fairness == WF_vars(TimePasses) /\ WF_vars(ReadExpired) /\ SF_vars(WriteExpired)

FairSpec == Spec /\ Fairness

-----------------------------------------------------------------------------
(* Properties *)

\* The types of the rows of the match.
TypeOK ==
  /\ setup \in Setups
  /\ status \in Statuses
  /\ ready \subseteq Humans
  /\ result \in [Seats -> Results]
  /\ score \in [Seats -> Nat]
  /\ journal \in [Seats -> Seq(Entry)]
  /\ late \in BOOLEAN
  /\ sweep \in {"idle", "COMPLETED", "FORFEIT"}
  /\ settlement \in [winner: Seats \cup {Nobody}, draw: BOOLEAN] \cup {NoSettlement}
  /\ eligible \in [Seats -> Eligibilities]
  /\ credits \subseteq Humans \X {"payout", "draw-refund", "release"}
  /\ hold \in [Seats -> {"none", "HELD", "RELEASED", "CANCELLED"}]
  /\ desk \subseteq Humans \X {"RELEASED", "CANCELLED"}

\* Some human is still to finish exactly while the match is active: no match
\* stays open with nobody left to close it, and none closes on a player.
OpenWhileAwaited == Active <=> ~AllDone(result)

\* A player whose FINISH was accepted is never made a forfeiter by the worker
\* or by a forfeit that arrives late.
FinishStands ==
  \A p \in People : Did(p, "FINISH") => result[p] # "FORFEIT"

\* An accepted event adds its points to the total, which never falls below zero.
Counted(total, e) ==
  IF ~e.ok THEN total ELSE IF total + e.points < 0 THEN 0 ELSE total + e.points

Replay(p) == FoldLeft(Counted, 0, journal[p])

ScoreIsReplay == \A p \in Players : score[p] = Replay(p)

EventsAscend ==
  \A p \in Seats : \A i, k \in DOMAIN journal[p] : i < k => journal[p][i].n < journal[p][k].n

\* The score is what replaying the accepted events of the journal gives, in the
\* order of their numbers: no event counts twice, whether it is sent again or
\* arrives behind a later one, and no rejected one counts.
ScoreIsJournal == ScoreIsReplay /\ EventsAscend

\* The two stakes are spent once: they are refunded, or the pot is paid, or it is
\* held and released, and only one of them to one player; neither the pot nor a
\* refund is more than was staked.
PotPaidOnce ==
  /\ \/ credits \subseteq People \X {"draw-refund"}
     \/ \E c \in People \X {"payout", "release"} : credits = {c}
  /\ Payout <= 2 * Stake /\ Refund <= Stake

Order(st) ==
  CASE st = "CREATED" -> 0 [] st = "STARTED" -> 1 [] st = "FINISHED" -> 2
    [] st = "REVIEW" -> 3 [] st = "SETTLED" -> 4

\* A match never goes back, from finished to started or from settled to review,
\* and once it is settled its results and settlement never change, so that a
\* retry, a late complete or a slow worker cannot settle it differently.
SettledIsFinal ==
  [][/\ Order(status) <= Order(status')
     /\ settlement # NoSettlement => UNCHANGED <<status, result, settlement>>]_vars

\* Every match ends, also one that nobody starts or finishes: the worker alone
\* finishes and settles it, or holds it for review.
EveryMatchEnds == <>~Active

-----------------------------------------------------------------------------
(* The inductive invariant *)

\* A settlement is what makes a match SETTLED.
SettledOnce == settlement # NoSettlement <=> status = "SETTLED"

\* Whoever has finished is no longer awaited, and is no forfeiter.
Finished(r) == \A p \in People : Did(p, "FINISH") => r[p] \notin {"PENDING", "FORFEIT"}

\* Before settlement there are neither credits nor holds, nor holds on a desk
\* that are not in the table; after it the winner's pot is paid or in a hold.
PotOneWay ==
  /\ settlement = NoSettlement => credits = {} /\ \A p \in Seats : hold[p] = "none"
  /\ \A c \in desk : hold[c[1]] # "none"
  /\ settlement # NoSettlement =>
       LET w == settlement.winner
       IN  IF w = Nobody THEN credits \subseteq People \X {"draw-refund"}
           ELSE credits \subseteq {c \in People \X {IF hold[w] = "none" THEN "payout" ELSE "release"} : c[1] = w}

LifeInv ==
  /\ TypeOK
  /\ OpenWhileAwaited
  /\ SettledOnce
  /\ Finished(result)
  /\ PotOneWay

=============================================================================
