------------------------- MODULE MatchLifecycleProofs -------------------------
(***************************************************************************)
(* Proofs about MatchLifecycle: LifeInv is an inductive invariant, for any  *)
(* players, bots, matches, points, stakes and bound.  So a match stays open *)
(* exactly while a player is awaited, who has finished is never made a      *)
(* forfeiter, a settlement is final and the pot is spent once.  Scores are  *)
(* what the journal says, by induction on its entries (Replayable).         *)
(***************************************************************************)
EXTENDS MatchLifecycle, WellFoundedInduction, TLAPS

Settlement == [winner : Seats \cup {Nobody}, draw : BOOLEAN]

LEMMA PlayersSeated == TypeOK => Players \subseteq Seats /\ People \subseteq Humans
  BY SetupsAssumption DEF TypeOK, Players, People, Setup

\* A fee in micro units is rounded up, so that it never adds to the pot.
LEMMA RoundedUpNat == \A m \in Nat : RoundedUp(m) \in Nat
<1> SUFFICES ASSUME NEW m \in Nat PROVE RoundedUp(m) \in Nat
  OBVIOUS
<1>1. Micros \in Nat \ {0} /\ m + Micros - 1 \in Nat
  BY StakeAssumption
<1>2. \A a \in Nat, b \in Nat \ {0} : a \div b \in Nat
  OBVIOUS
<1> QED
  BY <1>1, <1>2 DEF RoundedUp

LEMMA AmountsBounded == Payout <= 2 * Stake /\ Refund <= Stake
<1>1. Stake \in Nat /\ FeeMicros \in Nat /\ 2 * FeeMicros \in Nat
  BY StakeAssumption
<1>2. RoundedUp(FeeMicros) \in Nat /\ RoundedUp(2 * FeeMicros) \in Nat
  BY <1>1, RoundedUpNat
<1> QED
  BY <1>1, <1>2 DEF Payout, Refund

-----------------------------------------------------------------------------
(* Settlement *)

LEMMA DecisionsTyped ==
  ASSUME TypeOK, NEW r \in [Seats -> Results], NEW d \in Decisions(r)
  PROVE  d \in Settlement
<1>1. Players \subseteq Seats
  BY PlayersSeated
<1>2. ASSUME NEW f \in Forfeiters(r) PROVE FirstOf(Players \ {f}) \subseteq Seats \cup {Nobody}
  BY <1>1 DEF FirstOf
<1>3. Highest \subseteq Seats
  BY <1>1 DEF Highest
<1>4. CASE Forfeiters(r) # {}
  <2>1. PICK w \in UNION {FirstOf(Players \ {f}) : f \in Forfeiters(r)} : d = Decision(w, FALSE)
    BY <1>4 DEF Decisions
  <2>2. w \in Seats \cup {Nobody}
    BY <1>2
  <2> QED
    BY <2>1, <2>2 DEF Decision, Settlement
<1>5. CASE Forfeiters(r) = {}
  <2>1. \/ \E w \in Highest : d = Decision(w, FALSE)
        \/ d = Decision(Nobody, Highest = Players)
    BY <1>5 DEF Decisions
  <2>2. ASSUME NEW w \in Highest PROVE Decision(w, FALSE) \in Settlement
    BY <1>3 DEF Decision, Settlement
  <2>3. Decision(Nobody, Highest = Players) \in Settlement
    <3> DEFINE draw == Highest = Players
    <3>1. draw \in BOOLEAN
      OBVIOUS
    <3> HIDE DEF draw
    <3>2. Decision(Nobody, draw) \in Settlement
      BY <3>1 DEF Decision, Settlement
    <3> QED
      BY <3>2 DEF draw
  <2> QED
    BY <2>1, <2>2, <2>3
<1> QED
  BY <1>4, <1>5

\* After settlement nobody is pending, and who is a forfeiter was one before.
LEMMA FinalResult ==
  ASSUME TypeOK, NEW r \in [Seats -> Results], AllDone(r), NEW d \in Settlement
  PROVE  /\ Final(r, d) \in [Seats -> Results]
         /\ AllDone(Final(r, d))
         /\ \A p \in Seats : Final(r, d)[p] = "FORFEIT" => r[p] = "FORFEIT"
<1>1. People \subseteq Players /\ Players \subseteq Seats /\ People \subseteq Seats
  BY PlayersSeated DEF People, Seats
<1> QED
  BY <1>1 DEF Final, AllDone, Results

LEMMA EligibleTyped ==
  ASSUME NEW final, NEW risk
  PROVE  /\ Eligible(final, risk) \in [Seats -> Eligibilities]
         /\ \A p \in Seats : Eligible(final, risk)[p] = "FULL" => p \in People
  BY DEF Eligible, Eligibilities

\* What settlement with the results r does to a match that is not settled and in
\* which nobody is pending: it holds it for review, or settles it for good.
LEMMA Settles ==
  ASSUME LifeInv, settlement = NoSettlement, NEW r \in [Seats -> Results], AllDone(r), Finished(r),
         NEW st \in {"FINISHED", "REVIEW"}, Settle(r, st)
  PROVE  /\ result' \in [Seats -> Results]
         /\ \A p \in People : result'[p] # "PENDING"
         /\ \A p \in People : Did(p, "FINISH") => result'[p] # "FORFEIT"
         /\ \/ status' = "REVIEW" /\ UNCHANGED money
            \/ /\ status' = "SETTLED" /\ settlement' \in Settlement
               /\ eligible' \in [Seats -> Eligibilities]
               /\ hold' \in [Seats -> {"none", "HELD"}]
               /\ credits' \subseteq
                    IF settlement'.winner = Nobody THEN People \X {"draw-refund"}
                    ELSE {c \in People \X {"payout"} :
                            c[1] = settlement'.winner /\ hold'[settlement'.winner] = "none"}
<1>1. TypeOK /\ credits = {} /\ \A p \in Seats : hold[p] = "none"
  BY DEF LifeInv, PotOneWay
<1>2. ~(settlement # NoSettlement \/ ~AllDone(r))
  OBVIOUS
<1>3. CASE status' = "REVIEW" /\ result' = r /\ UNCHANGED money
  BY <1>3 DEF AllDone, Finished
<1>4. ASSUME NEW d \in Decisions(r), NEW risk,
             LET e == Eligible(Final(r, d), risk)
                 held == {p \in Seats : \/ p = d.winner /\ PotHeld(d, e)
                                        \/ e[p] = "HELD" /\ setup.mode # "PRACTICE"}
             IN /\ result' = Final(r, d)
                /\ settlement' = d
                /\ eligible' = [p \in Seats |-> IF p \in held THEN "HELD" ELSE e[p]]
                /\ hold' = [p \in Seats |-> IF p \in held THEN "HELD" ELSE hold[p]]
                /\ credits' = credits \cup PotCredits(d, e)
                /\ status' = "SETTLED"
      PROVE  /\ result' \in [Seats -> Results]
             /\ \A p \in People : result'[p] # "PENDING"
             /\ \A p \in People : Did(p, "FINISH") => result'[p] # "FORFEIT"
             /\ status' = "SETTLED" /\ settlement' \in Settlement
             /\ eligible' \in [Seats -> Eligibilities]
             /\ hold' \in [Seats -> {"none", "HELD"}]
             /\ credits' \subseteq
                  IF settlement'.winner = Nobody THEN People \X {"draw-refund"}
                  ELSE {c \in People \X {"payout"} :
                          c[1] = settlement'.winner /\ hold'[settlement'.winner] = "none"}
  <2> DEFINE e == Eligible(Final(r, d), risk)
             held == {p \in Seats : \/ p = d.winner /\ PotHeld(d, e)
                                    \/ e[p] = "HELD" /\ setup.mode # "PRACTICE"}
  <2>1. /\ result' = Final(r, d) /\ settlement' = d
        /\ eligible' = [p \in Seats |-> IF p \in held THEN "HELD" ELSE e[p]]
        /\ hold' = [p \in Seats |-> IF p \in held THEN "HELD" ELSE hold[p]]
        /\ credits' = credits \cup PotCredits(d, e)
        /\ status' = "SETTLED"
    BY <1>4
  <2>2. d \in Settlement
    BY <1>1, DecisionsTyped
  <2>3. e \in [Seats -> Eligibilities] /\ \A p \in Seats : e[p] = "FULL" => p \in People
    BY EligibleTyped
  <2>4. \A p : p \in held <=> p \in Seats /\ (\/ p = d.winner /\ PotHeld(d, e)
                                              \/ e[p] = "HELD" /\ setup.mode # "PRACTICE")
    OBVIOUS
  <2> HIDE DEF e, held
  <2>5. /\ result' \in [Seats -> Results]
        /\ \A p \in People : result'[p] # "PENDING"
        /\ \A p \in People : Did(p, "FINISH") => result'[p] # "FORFEIT"
    <3>1. People \subseteq Seats
      BY DEF People, Seats
    <3>2. /\ Final(r, d) \in [Seats -> Results] /\ AllDone(Final(r, d))
          /\ \A p \in Seats : Final(r, d)[p] = "FORFEIT" => r[p] = "FORFEIT"
      BY <1>1, <2>2, FinalResult
    <3> QED
      BY <2>1, <3>1, <3>2 DEF AllDone, Finished
  <2>6. eligible' \in [Seats -> Eligibilities] /\ hold' \in [Seats -> {"none", "HELD"}]
    BY <1>1, <2>1, <2>3 DEF Eligibilities
  <2>7. credits' = PotCredits(d, e)
    BY <1>1, <2>1
  <2>8. ASSUME d.winner = Nobody PROVE credits' \subseteq People \X {"draw-refund"}
    BY <2>7, <2>8 DEF PotCredits
  <2>9. ASSUME d.winner # Nobody
        PROVE  credits' \subseteq {c \in People \X {"payout"} : c[1] = d.winner /\ hold'[d.winner] = "none"}
    <3>1. d.winner \in Seats
      BY <2>2, <2>9 DEF Settlement
    <3>2. CASE setup.mode = "RANKED" /\ e[d.winner] = "FULL"
      <4>1. d.winner \in People /\ d.winner \notin held
        BY <2>3, <2>4, <3>1, <3>2 DEF PotHeld, HoldsPot
      <4>2. hold'[d.winner] = "none"
        BY <1>1, <2>1, <3>1, <4>1
      <4>3. credits' = {<<d.winner, "payout">>}
        BY <2>7, <2>9, <3>2 DEF PotCredits
      <4> QED
        BY <4>1, <4>2, <4>3
    <3>3. CASE ~(setup.mode = "RANKED" /\ e[d.winner] = "FULL")
      <4>1. credits' = {}
        BY <2>7, <2>9, <3>3 DEF PotCredits
      <4> QED
        BY <4>1
    <3> QED
      BY <3>2, <3>3
  <2> QED
    BY <2>1, <2>2, <2>5, <2>6, <2>8, <2>9
<1>5. \/ status' = "REVIEW" /\ result' = r /\ UNCHANGED money
      \/ \E d \in Decisions(r), risk \in [People -> {"clear", "high", "restricted"}] :
             LET e == Eligible(Final(r, d), risk)
                 held == {p \in Seats : \/ p = d.winner /\ PotHeld(d, e)
                                        \/ e[p] = "HELD" /\ setup.mode # "PRACTICE"}
             IN /\ result' = Final(r, d)
                /\ settlement' = d
                /\ eligible' = [p \in Seats |-> IF p \in held THEN "HELD" ELSE e[p]]
                /\ hold' = [p \in Seats |-> IF p \in held THEN "HELD" ELSE hold[p]]
                /\ credits' = credits \cup PotCredits(d, e)
                /\ status' = "SETTLED"
  BY <1>2 DEF Settle
<1> QED
  BY <1>3, <1>4, <1>5

-----------------------------------------------------------------------------
(* Steps of the play *)

\* An accepted event is one more row of its participant's journal.
LEMMA RecordedRow ==
  ASSUME TypeOK, NEW p \in Seats, NEW n \in Nat, NEW kind \in {"ANSWER", "FINISH", "FORFEIT"},
         NEW ok \in BOOLEAN, NEW points \in {0, Right, -Wrong}, Recorded(p, n, kind, ok, points)
  PROVE  /\ journal' \in [Seats -> Seq(Entry)]
         /\ \A q \in Seats : Did(q, "FINISH")' => Did(q, "FINISH") \/ (q = p /\ kind = "FINISH")
<1> DEFINE entry == [n |-> n, kind |-> kind, ok |-> ok, points |-> points]
<1>1. journal \in [Seats -> Seq(Entry)] /\ entry \in Entry
  BY DEF TypeOK, Entry
<1>2. entry.kind = kind
  OBVIOUS
<1> HIDE DEF entry
<1>3. journal' = [journal EXCEPT ![p] = Append(@, entry)]
  BY DEF Recorded, entry
<1>4. journal' \in [Seats -> Seq(Entry)]
  BY <1>1, <1>3
<1>5. ASSUME NEW q \in Seats, Did(q, "FINISH")'
      PROVE  Did(q, "FINISH") \/ (q = p /\ kind = "FINISH")
  <2>1. CASE q # p
    BY <1>1, <1>3, <1>5, <2>1 DEF Did
  <2>2. CASE q = p
    <3>1. journal'[q] = Append(journal[q], entry) /\ journal[q] \in Seq(Entry)
      BY <1>1, <1>3, <2>2
    <3>2. PICK i \in DOMAIN journal'[q] : journal'[q][i].ok /\ journal'[q][i].kind = "FINISH"
      BY <1>5 DEF Did
    <3>3. \/ i \in DOMAIN journal[q] /\ journal'[q][i] = journal[q][i]
          \/ journal'[q][i] = entry
      BY <3>1, <3>2
    <3> QED
      BY <1>2, <2>2, <3>2, <3>3 DEF Did
  <2> QED
    BY <2>1, <2>2
<1> QED
  BY <1>4, <1>5

LEMMA WithBotsPlayers ==
  ASSUME TypeOK, NEW r \in [Seats -> Results]
  PROVE  WithBots(r) \in [Seats -> Results] /\ \A p \in People : WithBots(r)[p] = r[p]
  BY SeatsAssumption DEF WithBots, Results, People, Seats

LEMMA LastSequenceNat == TypeOK => \A p \in Seats : LastSequence(p) \in Nat
<1> SUFFICES ASSUME TypeOK, NEW p \in Seats PROVE LastSequence(p) \in Nat
  OBVIOUS
<1>1. journal[p] \in Seq(Entry)
  BY DEF TypeOK
<1>2. journal[p] # <<>> => journal[p][Len(journal[p])] \in Entry
  BY <1>1
<1> QED
  BY <1>2 DEF LastSequence, Entry

\* A step before settlement, or one that changes neither status nor result.
LEMMA PlayStep ==
  ASSUME LifeInv, UNCHANGED <<setup, money, desk>>,
         status' = status \/ (Active /\ status' \in {"STARTED", "FINISHED"}),
         ready' \subseteq Humans, result' \in [Seats -> Results], score' \in [Seats -> Nat],
         journal' \in [Seats -> Seq(Entry)], late' \in BOOLEAN,
         sweep' \in {"idle", "COMPLETED", "FORFEIT"},
         OpenWhileAwaited', Finished(result)'
  PROVE  LifeInv'
<1>1. TypeOK'
  BY DEF LifeInv, TypeOK, Active, Statuses, money
<1>2. SettledOnce'
  BY DEF LifeInv, SettledOnce, Active, money
<1>3. PotOneWay'
  BY DEF LifeInv, PotOneWay, money, People, Players
<1> QED
  BY <1>1, <1>2, <1>3 DEF LifeInv

\* A step that records an event and leaves status and result alone.
LEMMA ScoringStep ==
  ASSUME LifeInv, NEW p \in Seats, NEW n \in Nat, NEW ok \in BOOLEAN,
         NEW points \in {0, Right, -Wrong}, Recorded(p, n, "ANSWER", ok, points),
         score' \in [Seats -> Nat],
         UNCHANGED <<setup, status, ready, result, late, sweep, money, desk>>
  PROVE  LifeInv'
<1>1. /\ journal' \in [Seats -> Seq(Entry)]
      /\ \A q \in Seats : Did(q, "FINISH")' => Did(q, "FINISH")
  BY RecordedRow DEF LifeInv
<1>2. OpenWhileAwaited'
  BY DEF LifeInv, OpenWhileAwaited, Active, AllDone, People, Players
<1>3. Finished(result)'
  BY <1>1 DEF LifeInv, Finished, People, Players, Seats
<1> QED
  BY <1>1, <1>2, <1>3, PlayStep DEF LifeInv, TypeOK

LEMMA ScoredNat ==
  ASSUME TypeOK, NEW p \in Seats, NEW points \in {Right, -Wrong}
  PROVE  [score EXCEPT ![p] = Scored(p, points)] \in [Seats -> Nat]
<1>1. score[p] \in Nat /\ points \in Int
  BY PointsAssumption DEF TypeOK
<1>2. Scored(p, points) \in Nat
  BY <1>1 DEF Scored
<1> QED
  BY <1>2 DEF TypeOK

LEMMA AnswerInv ==
  ASSUME LifeInv, NEW p \in Seats, NEW n \in Nat, NEW points \in {Right, -Wrong}, Answer(p, n, points)
  PROVE  LifeInv'
<1>1. score' \in [Seats -> Nat]
  BY ScoredNat DEF Answer, LifeInv
<1> QED
  BY <1>1, ScoringStep DEF Answer

LEMMA UnscoredInv ==
  ASSUME LifeInv, NEW p \in Seats, NEW n \in Nat, Unscored(p, n)
  PROVE  LifeInv'
  BY ScoringStep DEF Unscored, LifeInv, TypeOK

LEMMA BotAnswersInv ==
  ASSUME LifeInv, NEW b \in Seats, NEW points \in {Right, -Wrong}, BotAnswers(b, points)
  PROVE  LifeInv'
<1>1. score' \in [Seats -> Nat]
  BY ScoredNat DEF BotAnswers, LifeInv
<1>2. LastSequence(b) + 1 \in Nat
  BY LastSequenceNat DEF LifeInv
<1> QED
  BY <1>1, <1>2, ScoringStep DEF BotAnswers

\* A player who was awaited is done, by FINISH or as a forfeiter.
LEMMA LeavingStep ==
  ASSUME LifeInv, NEW p \in People, NEW n \in Nat, NEW kind \in {"FINISH", "FORFEIT"},
         Active, result[p] = "PENDING", Recorded(p, n, kind, TRUE, 0),
         result' = WithBots([result EXCEPT ![p] = IF kind = "FINISH" THEN "COMPLETED" ELSE "FORFEIT"]),
         status' = Closed(result'),
         UNCHANGED <<setup, ready, score, late, sweep, money, desk>>
  PROVE  LifeInv'
<1> DEFINE new == IF kind = "FINISH" THEN "COMPLETED" ELSE "FORFEIT"
           r == [result EXCEPT ![p] = new]
<1>1. People \subseteq Seats /\ p \in Seats
  BY DEF People, Seats
<1>2. result \in [Seats -> Results] /\ r \in [Seats -> Results]
  BY DEF LifeInv, TypeOK, Results
<1>3. r[p] = new /\ \A q \in Seats : q # p => r[q] = result[q]
  BY <1>1, <1>2
<1>4. result' \in [Seats -> Results] /\ \A q \in People : result'[q] = r[q]
  BY <1>2, WithBotsPlayers DEF LifeInv
<1>5. /\ journal' \in [Seats -> Seq(Entry)]
      /\ \A q \in Seats : Did(q, "FINISH")' => Did(q, "FINISH") \/ (q = p /\ kind = "FINISH")
  BY <1>1, RecordedRow DEF LifeInv
<1> HIDE DEF r
<1>6. Finished(result)'
  <2> SUFFICES ASSUME NEW q \in People, Did(q, "FINISH")'
               PROVE  result'[q] \notin {"PENDING", "FORFEIT"}
    BY DEF Finished, People, Players
  <2>1. CASE q = p
    <3>1. ~Did(p, "FINISH")
      BY <1>1 DEF LifeInv, Finished
    <3>2. kind = "FINISH"
      BY <1>1, <1>5, <2>1, <3>1
    <3> QED
      BY <1>3, <1>4, <2>1, <3>2
  <2>2. CASE q # p
    BY <1>1, <1>3, <1>4, <1>5, <2>2 DEF LifeInv, Finished
  <2> QED
    BY <2>1, <2>2
<1>7. OpenWhileAwaited' /\ (status' = status \/ (Active /\ status' \in {"STARTED", "FINISHED"}))
  BY DEF Closed, OpenWhileAwaited, Active, AllDone, People, Players
<1> QED
  BY <1>4, <1>5, <1>6, <1>7, PlayStep DEF LifeInv, TypeOK

LEMMA QuitInv ==
  ASSUME LifeInv, NEW p \in People, NEW n \in Nat, NEW kind \in {"FINISH", "FORFEIT"}, Quit(p, n, kind)
  PROVE  LifeInv'
  BY LeavingStep DEF Quit, CanRecord, Active

LEMMA ForfeitInv ==
  ASSUME LifeInv, NEW p \in People, Forfeit(p)
  PROVE  LifeInv'
<1>1. LastSequence(p) + 1 \in Nat
  BY LastSequenceNat DEF LifeInv, People, Seats
<1>2. Recorded(p, LastSequence(p) + 1, "FORFEIT", TRUE, 0)
  BY DEF Forfeit
<1>3. result' = WithBots([result EXCEPT ![p] = IF "FORFEIT" = "FINISH" THEN "COMPLETED" ELSE "FORFEIT"])
  BY DEF Forfeit
<1> QED
  BY <1>1, <1>2, <1>3, LeavingStep DEF Forfeit

\* What neither records an event nor ends anybody's match.
LEMMA IdleStep ==
  ASSUME LifeInv, UNCHANGED <<setup, result, score, journal, money, desk>>,
         status' = status \/ (status = "CREATED" /\ status' = "STARTED"),
         ready' \subseteq Humans, late' \in BOOLEAN, sweep' \in {"idle", "COMPLETED", "FORFEIT"}
  PROVE  LifeInv'
<1>1. OpenWhileAwaited'
  BY DEF LifeInv, OpenWhileAwaited, Active, AllDone, People, Players
<1>2. Finished(result)'
  BY DEF LifeInv, Finished, Did, People, Players
<1> QED
  BY <1>1, <1>2, PlayStep DEF LifeInv, TypeOK, Active

LEMMA StartInv ==
  ASSUME LifeInv, NEW p \in People, Start(p)
  PROVE  LifeInv'
  BY IdleStep DEF Start, LifeInv, TypeOK, People

LEMMA TimeAndSweepInv ==
  ASSUME LifeInv, TimePasses \/ ReadExpired \/ SweepFails
  PROVE  LifeInv'
  BY IdleStep DEF TimePasses, ReadExpired, SweepFails, play, LifeInv, TypeOK

-----------------------------------------------------------------------------
(* Steps that settle *)

LEMMA SettleStep ==
  ASSUME LifeInv, settlement = NoSettlement, NEW r \in [Seats -> Results], AllDone(r), Finished(r),
         NEW st \in {"FINISHED", "REVIEW"}, Settle(r, st),
         UNCHANGED <<setup, play, late, desk>>, sweep' \in {"idle", "COMPLETED", "FORFEIT"}
  PROVE  LifeInv' /\ status' \in {"REVIEW", "SETTLED"}
<1>1. /\ result' \in [Seats -> Results]
      /\ \A p \in People : result'[p] # "PENDING"
      /\ \A p \in People : Did(p, "FINISH") => result'[p] # "FORFEIT"
      /\ \/ status' = "REVIEW" /\ UNCHANGED money
         \/ /\ status' = "SETTLED" /\ settlement' \in Settlement
            /\ eligible' \in [Seats -> Eligibilities]
            /\ hold' \in [Seats -> {"none", "HELD"}]
            /\ credits' \subseteq
                 IF settlement'.winner = Nobody THEN People \X {"draw-refund"}
                 ELSE {c \in People \X {"payout"} :
                         c[1] = settlement'.winner /\ hold'[settlement'.winner] = "none"}
  BY Settles
<1>2. TypeOK /\ People \subseteq Humans /\ People' = People
  BY PlayersSeated DEF LifeInv, People, Players
<1>3. desk = {}
  <2>1. desk \subseteq Humans \X {"RELEASED", "CANCELLED"}
    BY <1>2 DEF TypeOK
  <2>2. \A c \in desk : c[1] \in Seats /\ hold[c[1]] # "none"
    BY <2>1 DEF LifeInv, PotOneWay, Seats
  <2> QED
    BY <2>2 DEF LifeInv, PotOneWay
<1>4. OpenWhileAwaited' /\ Finished(result)'
  BY <1>1, <1>2 DEF OpenWhileAwaited, Active, AllDone, Finished, Did, play
<1>5. CASE status' = "REVIEW" /\ UNCHANGED money
  <2>1. TypeOK'
    BY <1>1, <1>2, <1>5 DEF TypeOK, play, money, Statuses
  <2>2. SettledOnce' /\ PotOneWay'
    BY <1>2, <1>5 DEF SettledOnce, PotOneWay, LifeInv, money
  <2> QED
    BY <1>4, <1>5, <2>1, <2>2 DEF LifeInv
<1>6. CASE /\ status' = "SETTLED" /\ settlement' \in Settlement
           /\ eligible' \in [Seats -> Eligibilities]
           /\ hold' \in [Seats -> {"none", "HELD"}]
           /\ credits' \subseteq
                IF settlement'.winner = Nobody THEN People \X {"draw-refund"}
                ELSE {c \in People \X {"payout"} :
                        c[1] = settlement'.winner /\ hold'[settlement'.winner] = "none"}
  <2>1. settlement' # NoSettlement
    BY <1>6, NoSettlementAssumption DEF Settlement
  <2>2. hold' \in [Seats -> {"none", "HELD", "RELEASED", "CANCELLED"}]
    BY <1>6
  <2>3. credits' \subseteq Humans \X {"payout", "draw-refund", "release"}
    BY <1>2, <1>6
  <2>4. TypeOK'
    BY <1>1, <1>2, <1>6, <2>2, <2>3 DEF TypeOK, play, Statuses, Settlement
  <2>5. SettledOnce'
    BY <1>6, <2>1 DEF SettledOnce
  <2>6. PotOneWay'
    <3>1. CASE settlement'.winner = Nobody
      BY <1>2, <1>3, <1>6, <2>1, <3>1 DEF PotOneWay
    <3>2. CASE settlement'.winner # Nobody
      <4>1. credits' \subseteq {c \in People \X {IF hold'[settlement'.winner] = "none" THEN "payout" ELSE "release"} :
                                  c[1] = settlement'.winner}
        BY <1>6, <3>2
      <4> QED
        BY <1>2, <1>3, <2>1, <3>2, <4>1 DEF PotOneWay
    <3> QED
      BY <3>1, <3>2
  <2> QED
    BY <1>4, <1>6, <2>4, <2>5, <2>6 DEF LifeInv
<1> QED
  BY <1>1, <1>5, <1>6

\* A complete by the last player awaited settles; one by another only finishes
\* that player.
LEMMA CompleteInv ==
  ASSUME LifeInv, NEW p \in People, Complete(p)
  PROVE  /\ LifeInv' /\ settlement = NoSettlement /\ status # "REVIEW"
         /\ status' = status \/ status' \in {"REVIEW", "SETTLED"}
<1> DEFINE new == IF result[p] = "PENDING" THEN "COMPLETED" ELSE result[p]
           q == [result EXCEPT ![p] = new]
           r == WithBots(q)
<1>1. People \subseteq Seats /\ p \in Seats /\ TypeOK
  BY DEF People, Seats, LifeInv
<1>2. result \in [Seats -> Results] /\ new \in Results /\ q \in [Seats -> Results]
  BY <1>1 DEF TypeOK, Results
<1>3. q[p] = new /\ \A s \in Seats : s # p => q[s] = result[s]
  BY <1>1, <1>2
<1>4. settlement = NoSettlement /\ status # "REVIEW" /\ UNCHANGED <<setup, play, late, sweep, desk>>
  BY DEF Complete, Completable
<1>5. IF \A s \in People \ {p} : result[s] # "PENDING"
        THEN Settle(r, "FINISHED")
        ELSE result' = r /\ UNCHANGED <<status, money>>
  BY DEF Complete
<1> HIDE DEF q
<1>6. r \in [Seats -> Results] /\ \A s \in People : r[s] = q[s]
  BY <1>1, <1>2, WithBotsPlayers
<1> HIDE DEF r
<1>7. Finished(r)
  <2> SUFFICES ASSUME NEW s \in People, Did(s, "FINISH") PROVE r[s] \notin {"PENDING", "FORFEIT"}
    BY DEF Finished
  <2>1. result[s] \notin {"PENDING", "FORFEIT"}
    BY DEF LifeInv, Finished
  <2>2. q[s] = result[s]
    BY <1>1, <1>3, <2>1
  <2> QED
    BY <1>6, <2>1, <2>2
<1>8. CASE \A s \in People \ {p} : result[s] # "PENDING"
  <2>1. AllDone(r)
    BY <1>1, <1>3, <1>6, <1>8 DEF AllDone
  <2>2. Settle(r, "FINISHED") /\ sweep' \in {"idle", "COMPLETED", "FORFEIT"}
    BY <1>1, <1>4, <1>5, <1>8 DEF TypeOK
  <2> QED
    BY <1>4, <1>6, <1>7, <2>1, <2>2, SettleStep
<1>9. CASE ~(\A s \in People \ {p} : result[s] # "PENDING")
  <2>1. result' = r /\ UNCHANGED <<status, money>>
    BY <1>5, <1>9
  <2>2. OpenWhileAwaited'
    <3>1. PICK s \in People : s # p /\ result[s] = "PENDING"
      BY <1>9
    <3>2. result'[s] = "PENDING" /\ Active
      BY <1>1, <1>3, <1>6, <2>1, <3>1 DEF LifeInv, OpenWhileAwaited, AllDone
    <3> QED
      BY <1>4, <2>1, <3>2 DEF OpenWhileAwaited, Active, AllDone, People, Players
  <2>3. Finished(result)'
    BY <1>4, <1>7, <2>1 DEF Finished, Did, play, People, Players
  <2>4. LifeInv'
    BY <1>1, <1>4, <1>6, <2>1, <2>2, <2>3, PlayStep DEF TypeOK, play
  <2> QED
    BY <1>4, <2>1, <2>4
<1> QED
  BY <1>8, <1>9

\* The worker that still finds the match active settles it with those who have
\* not finished since it read the match timed out.
LEMMA WriteExpiredInv ==
  ASSUME LifeInv, WriteExpired
  PROVE  /\ LifeInv'
         /\ \/ UNCHANGED <<status, result, settlement>>
            \/ settlement = NoSettlement /\ Active /\ status' \in {"REVIEW", "SETTLED"}
<1> DEFINE r == TimedOut(sweep)
<1>1. TypeOK /\ sweep \in {"COMPLETED", "FORFEIT"} /\ sweep' = "idle" /\ UNCHANGED <<setup, play, late, desk>>
  BY DEF WriteExpired, LifeInv, TypeOK
<1>2. CASE Active
  <2>1. settlement = NoSettlement
    BY <1>2 DEF LifeInv, SettledOnce, Active
  <2>2. Settle(r, "FINISHED")
    BY <1>2 DEF WriteExpired, StillActive
  <2>3. r \in [Seats -> Results]
    BY <1>1 DEF TimedOut, TypeOK, Results
  <2>4. AllDone(r) /\ Finished(r)
    BY <1>1 DEF TimedOut, AllDone, Finished, LifeInv, People, Seats
  <2> HIDE DEF r
  <2> QED
    BY <1>1, <1>2, <2>1, <2>2, <2>3, <2>4, SettleStep
<1>3. CASE ~Active
  <2>1. UNCHANGED <<status, result, money>>
    BY <1>3 DEF WriteExpired, StillActive
  <2>2. LifeInv'
    BY <1>1, <2>1, IdleStep DEF LifeInv, TypeOK, play
  <2> QED
    BY <2>1, <2>2 DEF money
<1> QED
  BY <1>2, <1>3

LEMMA RetrySettlementInv ==
  ASSUME LifeInv, RetrySettlement
  PROVE  LifeInv' /\ settlement = NoSettlement /\ status' \in {"REVIEW", "SETTLED"}
                  /\ status \in {"FINISHED", "REVIEW"}
<1>1. /\ settlement = NoSettlement /\ AllDone(result) /\ Finished(result)
      /\ result \in [Seats -> Results]
  BY DEF RetrySettlement, LifeInv, SettledOnce, OpenWhileAwaited, Active, TypeOK
<1>2. /\ status \in {"FINISHED", "REVIEW"} /\ Settle(result, status)
      /\ UNCHANGED <<setup, play, late, desk>> /\ sweep' \in {"idle", "COMPLETED", "FORFEIT"}
  BY DEF RetrySettlement, LifeInv, TypeOK
<1> QED
  BY <1>1, <1>2, SettleStep

-----------------------------------------------------------------------------
(* Review of held rewards *)

LEMMA ReadHoldInv ==
  ASSUME LifeInv, NEW p \in People, NEW verdict \in {"RELEASED", "CANCELLED"}, ReadHold(p, verdict)
  PROVE  LifeInv'
<1>1. UNCHANGED <<setup, status, play, result, late, sweep, money>> /\ desk' = desk \cup {<<p, verdict>>}
      /\ hold[p] = "HELD" /\ p \in Humans
  BY DEF ReadHold, People
<1>2. TypeOK'
  BY <1>1 DEF LifeInv, TypeOK, play, money
<1>3. OpenWhileAwaited' /\ SettledOnce' /\ Finished(result)'
  BY <1>1 DEF LifeInv, OpenWhileAwaited, SettledOnce, Finished, Active, AllDone, Did, People, Players,
              play, money
<1>4. PotOneWay'
  BY <1>1 DEF LifeInv, PotOneWay, People, Players, money
<1> QED
  BY <1>2, <1>3, <1>4 DEF LifeInv

LEMMA WriteHoldInv ==
  ASSUME LifeInv, NEW p \in People, NEW verdict \in {"RELEASED", "CANCELLED"}, WriteHold(p, verdict)
  PROVE  LifeInv'
<1>1. /\ <<p, verdict>> \in desk /\ desk' = desk \ {<<p, verdict>>}
      /\ hold' = [hold EXCEPT ![p] = verdict]
      /\ eligible' = [eligible EXCEPT ![p] = IF verdict = "RELEASED" THEN "FULL" ELSE "NONE"]
      /\ credits' = IF verdict = "RELEASED" THEN credits \cup Released(p) ELSE credits
      /\ UNCHANGED <<setup, status, play, result, late, sweep, settlement>>
  BY DEF WriteHold
<1>2. TypeOK /\ p \in Humans /\ p \in Seats /\ hold[p] # "none" /\ p # Nobody
  BY <1>1, SeatsAssumption DEF LifeInv, PotOneWay, People, Seats
<1>3. settlement # NoSettlement
  BY <1>2 DEF LifeInv, PotOneWay
<1>4. Released(p) \subseteq {c \in People \X {"release"} : c[1] = p /\ c[1] = settlement.winner}
  BY DEF Released
<1>5. hold' \in [Seats -> {"none", "HELD", "RELEASED", "CANCELLED"}]
  BY <1>1, <1>2 DEF TypeOK
<1>6. eligible' \in [Seats -> Eligibilities]
  BY <1>1, <1>2 DEF TypeOK, Eligibilities
<1>7. credits' \subseteq Humans \X {"payout", "draw-refund", "release"}
  BY <1>1, <1>2, <1>4 DEF TypeOK, People
<1>8. TypeOK'
  BY <1>1, <1>2, <1>5, <1>6, <1>7 DEF TypeOK, play
<1>9. OpenWhileAwaited' /\ SettledOnce' /\ Finished(result)'
  BY <1>1 DEF LifeInv, OpenWhileAwaited, SettledOnce, Finished, Active, AllDone, Did, People, Players, play
<1>10. hold'[p] # "none" /\ \A q \in Seats : q # p => hold'[q] = hold[q]
  BY <1>1, <1>2 DEF TypeOK
<1>11. \A c \in desk' : hold'[c[1]] # "none"
  BY <1>1, <1>2, <1>10 DEF LifeInv, PotOneWay, TypeOK, Seats
<1>12. PotOneWay'
  <2> DEFINE w == settlement.winner
  <2>1. People' = People
    BY <1>1 DEF People, Players
  <2>2. CASE w = Nobody
    BY <1>1, <1>2, <1>3, <1>4, <1>11, <2>1, <2>2 DEF LifeInv, PotOneWay
  <2>3. CASE w # Nobody
    <3>1. w \in Seats
      BY <1>2, <1>3, <2>3 DEF TypeOK
    <3>2. credits \subseteq {c \in People \X {IF hold[w] = "none" THEN "payout" ELSE "release"} : c[1] = w}
      BY <1>3, <2>3 DEF LifeInv, PotOneWay
    <3>3. (hold'[w] = "none") = (hold[w] = "none")
      BY <1>2, <1>10, <3>1
    <3>4. credits' \subseteq {c \in People \X {IF hold'[w] = "none" THEN "payout" ELSE "release"} : c[1] = w}
      <4>1. CASE w = p
        BY <1>1, <1>2, <1>4, <1>10, <3>2, <4>1
      <4>2. CASE w # p
        <5>1. Released(p) = {}
          BY <4>2 DEF Released
        <5> QED
          BY <1>1, <3>2, <3>3, <5>1
      <4> QED
        BY <4>1, <4>2
    <3> QED
      BY <1>1, <1>3, <1>11, <2>1, <2>3, <3>4 DEF PotOneWay
  <2> QED
    BY <2>2, <2>3
<1> QED
  BY <1>8, <1>9, <1>12 DEF LifeInv

-----------------------------------------------------------------------------
(* The theorems *)

LEMMA InitInv == Init => LifeInv
<1> SUFFICES ASSUME Init PROVE LifeInv
  OBVIOUS
<1>1. /\ setup \in Setups /\ status = setup.status /\ ready = {}
      /\ result = [p \in Seats |-> "PENDING"] /\ score = [p \in Seats |-> 0]
      /\ journal = [p \in Seats |-> <<>>] /\ late = FALSE /\ sweep = "idle"
      /\ settlement = NoSettlement /\ eligible = [p \in Seats |-> "NONE"] /\ credits = {}
      /\ hold = [p \in Seats |-> "none"] /\ desk = {}
  BY DEF Init
<1>2. status \in {"CREATED", "STARTED"} /\ People # {}
  BY <1>1, SetupsAssumption DEF Setup, People, Players
<1>3. TypeOK
  <2>1. journal \in [Seats -> Seq(Entry)]
    BY <1>1
  <2>2. result \in [Seats -> Results] /\ eligible \in [Seats -> Eligibilities]
    BY <1>1 DEF Results, Eligibilities
  <2>3. /\ score \in [Seats -> Nat]
        /\ hold \in [Seats -> {"none", "HELD", "RELEASED", "CANCELLED"}]
    BY <1>1
  <2> QED
    BY <1>1, <1>2, <2>1, <2>2, <2>3 DEF TypeOK, Statuses
<1>4. OpenWhileAwaited
  BY <1>1, <1>2 DEF OpenWhileAwaited, Active, AllDone, People, Seats
<1>5. Finished(result)
  BY <1>1 DEF Finished, Did, People, Seats
<1>6. SettledOnce /\ PotOneWay
  BY <1>1, <1>2 DEF SettledOnce, PotOneWay
<1> QED
  BY <1>3, <1>4, <1>5, <1>6 DEF LifeInv

\* What a step may do to the end of a match.
Forward ==
  /\ Order(status) <= Order(status')
  /\ settlement # NoSettlement => UNCHANGED <<status, result, settlement>>

LEMMA Unended ==
  ASSUME LifeInv, UNCHANGED <<status, result, settlement>>
  PROVE  Forward
  BY DEF LifeInv, TypeOK, Statuses, Forward, Order

\* A step taken while the match is active, or finished and not settled.
LEMMA Moves ==
  ASSUME LifeInv, settlement = NoSettlement,
         \/ status' = status
         \/ status = "CREATED" /\ status' = "STARTED"
         \/ Active /\ status' \in {"FINISHED", "REVIEW", "SETTLED"}
         \/ status \in {"FINISHED", "REVIEW"} /\ status' \in {"REVIEW", "SETTLED"}
  PROVE  Forward
  BY DEF LifeInv, TypeOK, Statuses, Active, Forward, Order

LEMMA NextInv == LifeInv /\ [Next]_vars => LifeInv' /\ Forward
<1> SUFFICES ASSUME LifeInv, [Next]_vars PROVE LifeInv' /\ Forward
  OBVIOUS
<1>1. TypeOK /\ People \subseteq Seats /\ Players \subseteq Seats
      /\ (Active => settlement = NoSettlement)
  BY PlayersSeated DEF LifeInv, SettledOnce, Active, People, Seats
<1>2. CASE UNCHANGED vars
  <2>1. UNCHANGED <<status, result, settlement>>
    BY <1>2 DEF vars, money
  <2>2. LifeInv'
    BY <1>1, <1>2, IdleStep DEF vars, play, money, TypeOK
  <2> QED
    BY <2>1, <2>2, Unended
<1>3. ASSUME NEW p \in People, Start(p) PROVE LifeInv' /\ Forward
  <2>1. settlement = NoSettlement
        /\ (status' = status \/ (status = "CREATED" /\ status' = "STARTED"))
    BY <1>1, <1>3 DEF Start
  <2> QED
    BY <1>3, <2>1, StartInv, Moves
<1>4. ASSUME NEW p \in People, Complete(p) PROVE LifeInv' /\ Forward
  <2>1. /\ LifeInv' /\ settlement = NoSettlement /\ status # "REVIEW"
        /\ status' = status \/ status' \in {"REVIEW", "SETTLED"}
    BY <1>4, CompleteInv
  <2>2. status # "SETTLED"
    BY <2>1 DEF LifeInv, SettledOnce
  <2>3. Active \/ status = "FINISHED"
    BY <1>1, <2>1, <2>2 DEF TypeOK, Statuses, Active
  <2> QED
    BY <2>1, <2>3, Moves
<1>5. ASSUME NEW p \in People,
             \/ Forfeit(p)
             \/ \E n \in 1..MaxSequence, kind \in {"FINISH", "FORFEIT"} : Quit(p, n, kind)
      PROVE  LifeInv' /\ Forward
  <2>1. Active /\ status' \in {status, "FINISHED"}
    BY <1>5 DEF Forfeit, Quit, CanRecord, Active, Closed
  <2>2. LifeInv'
    BY <1>5, ForfeitInv, QuitInv, SequenceAssumption
  <2> QED
    BY <1>1, <2>1, <2>2, Moves
<1>6. ASSUME NEW p \in People, NEW n \in 1..MaxSequence,
             \/ \E points \in {Right, -Wrong} : Answer(p, n, points)
             \/ Unscored(p, n)
      PROVE  LifeInv' /\ Forward
  <2>1. UNCHANGED <<status, result, settlement>>
    BY <1>6 DEF Answer, Unscored, money
  <2>2. n \in Nat
    BY SequenceAssumption
  <2>3. LifeInv'
    BY <1>1, <1>6, <2>2, AnswerInv, UnscoredInv
  <2> QED
    BY <2>1, <2>3, Unended
<1>7. ASSUME NEW b \in Players \cap Bots, NEW points \in {Right, -Wrong}, BotAnswers(b, points)
      PROVE  LifeInv' /\ Forward
  <2>1. UNCHANGED <<status, result, settlement>>
    BY <1>7 DEF BotAnswers, money
  <2> QED
    BY <1>1, <1>7, <2>1, BotAnswersInv, Unended
<1>8. ASSUME NEW p \in People, NEW verdict \in {"RELEASED", "CANCELLED"},
             ReadHold(p, verdict) \/ WriteHold(p, verdict)
      PROVE  LifeInv' /\ Forward
  <2>1. UNCHANGED <<status, result, settlement>>
    BY <1>8 DEF ReadHold, WriteHold, money
  <2> QED
    BY <1>8, <2>1, ReadHoldInv, WriteHoldInv, Unended
<1>9. CASE TimePasses \/ ReadExpired \/ SweepFails
  <2>1. UNCHANGED <<status, result, settlement>>
    BY <1>9 DEF TimePasses, ReadExpired, SweepFails, money
  <2> QED
    BY <1>9, <2>1, TimeAndSweepInv, Unended
<1>10. CASE WriteExpired
  BY <1>10, WriteExpiredInv, Unended, Moves
<1>11. CASE RetrySettlement
  BY <1>11, RetrySettlementInv, Moves
<1> QED
  BY <1>2, <1>3, <1>4, <1>5, <1>6, <1>7, <1>8, <1>9, <1>10, <1>11 DEF Next

\* The strengthened invariant of a match, its journal, its settlement and its pot.
THEOREM Invariant == Spec => []LifeInv
<1>1. LifeInv /\ [Next]_vars => LifeInv'
  BY NextInv
<1> QED
  BY <1>1, InitInv, PTL DEF Spec

\* The rows of a match keep their types; no score is below zero.
THEOREM TypeCorrect == Spec => []TypeOK
<1>1. LifeInv => TypeOK
  BY DEF LifeInv
<1> QED
  BY <1>1, Invariant, PTL

\* A match is active exactly while a player is still to finish: FINISH events,
\* completes, forfeits and the expiry worker neither leave it open with nobody
\* awaited nor close it on a player.
THEOREM OpenWhileAwaitedHolds == Spec => []OpenWhileAwaited
<1>1. LifeInv => OpenWhileAwaited
  BY DEF LifeInv
<1> QED
  BY <1>1, Invariant, PTL

\* A player whose FINISH was accepted is never made a forfeiter, although the
\* worker decides on an outcome before it locks the match.
THEOREM FinishHolds == Spec => []FinishStands
<1>1. LifeInv => FinishStands
  BY DEF LifeInv, Finished, FinishStands
<1> QED
  BY <1>1, Invariant, PTL

\* The stakes are spent once, whatever administrators do to a hold at once and
\* however often a settlement is retried.
THEOREM PotPaidOnceHolds == Spec => []PotPaidOnce
<1>1. LifeInv => PotPaidOnce
  <2> SUFFICES ASSUME LifeInv PROVE PotPaidOnce
    OBVIOUS
  <2>1. \/ credits \subseteq People \X {"draw-refund"}
        \/ \E c \in People \X {"payout", "release"} : credits = {c}
    <3>1. CASE credits = {}
      BY <3>1
    <3>2. CASE credits # {} /\ settlement.winner = Nobody
      BY <3>2 DEF LifeInv, PotOneWay
    <3>3. CASE credits # {} /\ settlement.winner # Nobody
      <4> DEFINE w == settlement.winner
                 source == IF hold[w] = "none" THEN "payout" ELSE "release"
      <4>1. credits \subseteq {c \in People \X {source} : c[1] = w}
        BY <3>3 DEF LifeInv, PotOneWay
      <4>2. source \in {"payout", "release"}
        OBVIOUS
      <4> HIDE DEF source, w
      <4>3. PICK c \in credits : TRUE
        BY <3>3
      <4>4. c \in People \X {"payout", "release"} /\ c = <<w, source>>
        BY <4>1, <4>2, <4>3
      <4>5. credits = {c}
        BY <4>1, <4>3, <4>4
      <4> QED
        BY <4>4, <4>5
    <3> QED
      BY <3>1, <3>2, <3>3
  <2> QED
    BY <2>1, AmountsBounded DEF PotPaidOnce
<1> QED
  BY <1>1, Invariant, PTL

\* A match never goes back, and its settlement is final.
THEOREM SettledIsFinalHolds == Spec => SettledIsFinal
<1>1. LifeInv /\ [Next]_vars
        => [/\ Order(status) <= Order(status')
            /\ settlement # NoSettlement => UNCHANGED <<status, result, settlement>>]_vars
  BY NextInv DEF Forward
<1> QED
  BY <1>1, Invariant, PTL DEF Spec, SettledIsFinal

-----------------------------------------------------------------------------
(* The journal *)

\* A non-empty set of numbers up to n has a greatest one, and without it stays
\* below n.
LEMMA Greatest ==
  ASSUME NEW n \in Nat, NEW s, s \subseteq 1 .. n, s # {}
  PROVE  Max(s) \in s /\ s \ {Max(s)} \subseteq 1 .. n - 1
<1> DEFINE T == {k \in Nat : n - k \in s}
<1>1. T \subseteq Nat /\ T # {}
  <2>1. PICK m \in s : m \in 1 .. n
    OBVIOUS
  <2>2. n - m \in T
    BY <2>1
  <2> QED
    BY <2>2
<1>2. PICK k \in T : \A l \in T : <<l, k>> \notin OpToRel(<, Nat)
  BY <1>1, NatLessThanWellFounded, WFMin
<1>3. n - k \in s /\ \A m \in s : n - k >= m
  <2>1. ASSUME NEW m \in s PROVE n - k >= m
    <3>1. n - m \in T /\ k \in Nat /\ m \in Nat
      OBVIOUS
    <3>2. ~(n - m < k)
      BY <1>2, <3>1 DEF OpToRel
    <3> QED
      BY <3>1, <3>2
  <2> QED
    BY <2>1
<1>4. Max(s) \in s /\ \A m \in s : Max(s) >= m
  BY <1>3 DEF Max
<1>5. ASSUME NEW m \in s, m # Max(s) PROVE m \in 1 .. n - 1
  <2>1. m \in 1 .. n /\ Max(s) \in 1 .. n /\ Max(s) >= m
    BY <1>4
  <2> QED
    BY <1>5, <2>1
<1> QED
  BY <1>4, <1>5

\* FoldLeft is a recursion over the sets of numbers of entries: the last entry
\* of a set is counted after the others.
ReplayStep(j, D, g) ==
  [s \in D |-> IF s = {} THEN 0 ELSE Counted(g[s \ {Max(s)}], j[Max(s)])]

Replayed(j) == (CHOOSE g : g = ReplayStep(j, SUBSET DOMAIN j, g))[DOMAIN j]

\* What Replay is, by the definition of FoldLeft.
LEMMA ReplayIs == ASSUME NEW p PROVE Replay(p) = Replayed(journal[p])
  BY DEF Replay, Replayed, ReplayStep, FoldLeft, MapThenFoldSet

\* The recursion has a solution for every number of entries.
LEMMA Replayable ==
  ASSUME NEW j, NEW n \in Nat
  PROVE  \E g : g = ReplayStep(j, SUBSET (1 .. n), g)
<1> DEFINE Bad == {k \in Nat : ~ \E g : g = ReplayStep(j, SUBSET (1 .. k), g)}
<1>1. SUFFICES ASSUME Bad # {} PROVE FALSE
  OBVIOUS
<1>2. PICK k \in Bad : \A l \in Bad : ~(l < k)
  <2>1. PICK k \in Bad : \A l \in Bad : <<l, k>> \notin OpToRel(<, Nat)
    BY <1>1, NatLessThanWellFounded, WFMin
  <2> QED
    BY <2>1 DEF OpToRel
<1>3. CASE k = 0
  <2> DEFINE z == [s \in SUBSET (1 .. 0) |-> 0]
  <2>1. \A s \in SUBSET (1 .. 0) : s = {}
    OBVIOUS
  <2>2. z = ReplayStep(j, SUBSET (1 .. 0), z)
    BY <2>1 DEF ReplayStep
  <2> QED
    BY <1>2, <1>3, <2>2
<1>4. CASE k # 0
  <2>1. k \in Nat /\ k - 1 \in Nat /\ k - 1 < k
    BY <1>2, <1>4
  <2>2. PICK g : g = ReplayStep(j, SUBSET (1 .. k - 1), g)
    BY <1>2, <2>1
  <2> DEFINE h == ReplayStep(j, SUBSET (1 .. k), g)
  <2>3. ASSUME NEW s \in SUBSET (1 .. k), s # {}
        PROVE  s \ {Max(s)} \in SUBSET (1 .. k - 1) /\ s \ {Max(s)} \in SUBSET (1 .. k)
    BY <2>1, <2>3, Greatest
  <2>4. ASSUME NEW s \in SUBSET (1 .. k - 1) PROVE h[s] = g[s]
    <3>1. s \in SUBSET (1 .. k)
      BY <2>1
    <3> QED
      BY <2>2, <3>1 DEF ReplayStep
  <2>5. ASSUME NEW s \in SUBSET (1 .. k), s # {} PROVE g[s \ {Max(s)}] = h[s \ {Max(s)}]
    BY <2>3, <2>4, <2>5
  <2>6. h = ReplayStep(j, SUBSET (1 .. k), g)
    OBVIOUS
  <2> HIDE DEF h
  <2>7. h = ReplayStep(j, SUBSET (1 .. k), h)
    BY <2>5, <2>6 DEF ReplayStep
  <2> QED
    BY <1>2, <2>7
<1> QED
  BY <1>3, <1>4

\* A replay is computed entry by entry.
LEMMA ReplaySolves ==
  ASSUME NEW S, NEW j \in Seq(S)
  PROVE  \E g : /\ Replayed(j) = g[1 .. Len(j)]
                /\ \A n \in 0 .. Len(j) :
                     g[1 .. n] = IF n = 0 THEN 0 ELSE Counted(g[1 .. n - 1], j[n])
<1>1. DOMAIN j = 1 .. Len(j) /\ Len(j) \in Nat
  OBVIOUS
<1> DEFINE g == CHOOSE g : g = ReplayStep(j, SUBSET (1 .. Len(j)), g)
<1>2. g = ReplayStep(j, SUBSET (1 .. Len(j)), g)
  BY <1>1, Replayable
<1>3. Replayed(j) = g[1 .. Len(j)]
  BY <1>1 DEF Replayed
<1> HIDE DEF g
<1>4. ASSUME NEW n \in 0 .. Len(j)
      PROVE  g[1 .. n] = IF n = 0 THEN 0 ELSE Counted(g[1 .. n - 1], j[n])
  <2>1. n \in Nat /\ 1 .. n \in SUBSET (1 .. Len(j))
    BY <1>1
  <2>2. g[1 .. n] = IF 1 .. n = {} THEN 0 ELSE Counted(g[(1 .. n) \ {Max(1 .. n)}], j[Max(1 .. n)])
    BY <1>2, <2>1 DEF ReplayStep
  <2>3. CASE n = 0
    BY <2>2, <2>3
  <2>4. CASE n # 0
    <3>1. 1 .. n # {} /\ n \in 1 .. n
      BY <2>1, <2>4
    <3>2. Max(1 .. n) = n
      <4>1. (1 .. n) \ {Max(1 .. n)} \subseteq 1 .. n - 1
        BY <2>1, <3>1, Greatest
      <4>2. n \notin 1 .. n - 1
        BY <2>1
      <4> QED
        BY <3>1, <4>1, <4>2
    <3>3. (1 .. n) \ {n} = 1 .. n - 1
      BY <2>1, <2>4
    <3> QED
      BY <2>2, <2>4, <3>1, <3>2, <3>3
  <2> QED
    BY <2>3, <2>4
<1> QED
  BY <1>3, <1>4

\* Replaying nothing gives nothing.
LEMMA ReplayNothing == Replayed(<<>>) = 0
<1> DEFINE none == <<>>
<1>1. none \in Seq(Entry) /\ Len(none) = 0
  OBVIOUS
<1> HIDE DEF none
<1>2. PICK g : /\ Replayed(none) = g[1 .. Len(none)]
               /\ \A n \in 0 .. Len(none) :
                    g[1 .. n] = IF n = 0 THEN 0 ELSE Counted(g[1 .. n - 1], none[n])
  BY <1>1, ReplaySolves
<1>3. Replayed(none) = 0
  BY <1>1, <1>2
<1> QED
  BY <1>3 DEF none

\* One more entry is counted after all the others.
LEMMA ReplayAppend ==
  ASSUME NEW S, NEW j \in Seq(S), NEW e \in S
  PROVE  Replayed(Append(j, e)) = Counted(Replayed(j), e)
<1> DEFINE i == Append(j, e)
<1>1. /\ i \in Seq(S) /\ Len(i) = Len(j) + 1 /\ Len(j) \in Nat /\ i[Len(j) + 1] = e
      /\ \A n \in 1 .. Len(j) : i[n] = j[n]
  OBVIOUS
<1> HIDE DEF i
<1>2. PICK g : /\ Replayed(j) = g[1 .. Len(j)]
               /\ \A n \in 0 .. Len(j) :
                    g[1 .. n] = IF n = 0 THEN 0 ELSE Counted(g[1 .. n - 1], j[n])
  BY ReplaySolves
<1>3. PICK h : /\ Replayed(i) = h[1 .. Len(i)]
               /\ \A n \in 0 .. Len(i) :
                    h[1 .. n] = IF n = 0 THEN 0 ELSE Counted(h[1 .. n - 1], i[n])
  BY <1>1, ReplaySolves
<1> DEFINE Bad == {n \in 0 .. Len(j) : g[1 .. n] # h[1 .. n]}
<1>4. Bad = {}
  <2> SUFFICES ASSUME Bad # {} PROVE FALSE
    OBVIOUS
  <2>1. Bad \subseteq Nat
    OBVIOUS
  <2>2. PICK n \in Bad : \A m \in Bad : <<m, n>> \notin OpToRel(<, Nat)
    BY <2>1, NatLessThanWellFounded, WFMin
  <2>3. n \in 0 .. Len(j) /\ n \in 0 .. Len(i) /\ g[1 .. n] # h[1 .. n]
    <3>1. n \in 0 .. Len(j) /\ g[1 .. n] # h[1 .. n]
      OBVIOUS
    <3>2. n \in 0 .. Len(i)
      BY <1>1, <3>1
    <3> QED
      BY <3>1, <3>2
  <2>4. n # 0
    BY <1>2, <1>3, <2>3
  <2>5. n - 1 \in 0 .. Len(j) /\ n - 1 < n /\ n - 1 \in Nat /\ n \in Nat
    BY <1>1, <2>3, <2>4
  <2>6. n - 1 \notin Bad
    BY <2>2, <2>5 DEF OpToRel
  <2>7. g[1 .. n - 1] = h[1 .. n - 1]
    BY <2>5, <2>6
  <2>8. g[1 .. n] = Counted(g[1 .. n - 1], j[n]) /\ h[1 .. n] = Counted(h[1 .. n - 1], i[n])
    BY <1>2, <1>3, <2>3, <2>4
  <2>9. i[n] = j[n]
    BY <1>1, <2>3, <2>4
  <2> QED
    BY <2>3, <2>7, <2>8, <2>9
<1>5. g[1 .. Len(j)] = h[1 .. Len(j)]
  BY <1>1, <1>4
<1>6. h[1 .. Len(i)] = Counted(h[1 .. Len(j)], e)
  <2>1. Len(i) \in 0 .. Len(i) /\ Len(i) # 0 /\ Len(i) - 1 = Len(j)
    BY <1>1
  <2> QED
    BY <1>1, <1>3, <2>1
<1> QED
  BY <1>2, <1>3, <1>5, <1>6 DEF i

\* What it takes for the scores to be those of the journal after a step.
LEMMA ReplayedNext ==
  ASSUME UNCHANGED setup, \A q \in Players : score'[q] = Replayed(journal'[q])
  PROVE  ScoreIsReplay'
<1>1. Players' = Players
  BY DEF Players
<1>2. ASSUME NEW q PROVE Replay(q)' = Replayed(journal'[q])
  BY DEF Replay, Replayed, ReplayStep, FoldLeft, MapThenFoldSet
<1> QED
  BY <1>1, <1>2 DEF ScoreIsReplay

\* An entry recorded for p changes the replay of p and of nobody else.
LEMMA RecordedReplay ==
  ASSUME TypeOK, ScoreIsReplay, NEW p \in Seats, NEW n \in Nat,
         NEW kind \in {"ANSWER", "FINISH", "FORFEIT"}, NEW ok \in BOOLEAN,
         NEW points \in {0, Right, -Wrong}, Recorded(p, n, kind, ok, points),
         UNCHANGED setup,
         \A q \in Seats : q # p => score'[q] = score[q],
         ok => score'[p] = Scored(p, points), ~ok => score'[p] = score[p]
  PROVE  ScoreIsReplay'
<1> DEFINE entry == [n |-> n, kind |-> kind, ok |-> ok, points |-> points]
<1>1. journal \in [Seats -> Seq(Entry)] /\ entry \in Entry /\ entry.ok = ok /\ entry.points = points
  BY DEF TypeOK, Entry
<1> HIDE DEF entry
<1>2. journal' = [journal EXCEPT ![p] = Append(@, entry)]
  BY DEF Recorded, entry
<1>3. SUFFICES ASSUME NEW q \in Players PROVE score'[q] = Replayed(journal'[q])
  BY ReplayedNext
<1>4. q \in Seats /\ score[q] = Replayed(journal[q])
  BY PlayersSeated, ReplayIs DEF ScoreIsReplay
<1>5. CASE q # p
  BY <1>1, <1>2, <1>4, <1>5 DEF TypeOK
<1>6. CASE q = p
  <2>1. Replayed(journal'[q]) = Counted(score[q], entry)
    BY <1>1, <1>2, <1>4, <1>6, ReplayAppend
  <2>2. /\ ok => score'[q] = Scored(p, points)
        /\ ~ok => score'[q] = score[p]
    BY <1>4, <1>6
  <2> QED
    BY <1>1, <1>6, <2>1, <2>2 DEF Counted, Scored
<1> QED
  BY <1>5, <1>6

\* A step that leaves journal and score alone leaves them equal.
LEMMA SameReplay ==
  ASSUME ScoreIsReplay, UNCHANGED <<setup, score, journal>>
  PROVE  ScoreIsReplay'
  BY ReplayIs, ReplayedNext DEF ScoreIsReplay

\* Every step keeps the scores those of the journal.
LEMMA NextScore ==
  ASSUME LifeInv, ScoreIsReplay, [Next]_vars
  PROVE  ScoreIsReplay'
<1>1. TypeOK /\ Players \subseteq Seats /\ People \subseteq Seats
  BY PlayersSeated DEF LifeInv, Seats
<1>2. ASSUME NEW p \in Seats
      PROVE  /\ Scored(p, 0) = score[p]
             /\ \A v : score' = [score EXCEPT ![p] = v] =>
                  score'[p] = v /\ \A q \in Seats : q # p => score'[q] = score[q]
  <2>1. score \in [Seats -> Nat]
    BY <1>1 DEF TypeOK
  <2>2. Scored(p, 0) = score[p]
    BY <2>1 DEF Scored
  <2> QED
    BY <2>1, <2>2
<1>3. /\ \A n \in 1 .. MaxSequence : n \in Nat
      /\ \A p \in Seats : LastSequence(p) + 1 \in Nat
      /\ {Right, -Wrong} \subseteq Int
  BY <1>1, LastSequenceNat, SequenceAssumption, PointsAssumption
<1>4. ASSUME NEW p \in People, NEW n \in 1 .. MaxSequence, NEW points \in {Right, -Wrong},
             Answer(p, n, points)
      PROVE  ScoreIsReplay'
  <2>1. /\ \A q \in Seats : q # p => score'[q] = score[q]
        /\ score'[p] = Scored(p, points)
    <3>1. p \in Seats /\ score' = [score EXCEPT ![p] = Scored(p, points)]
      BY <1>1, <1>4 DEF Answer
    <3> QED
      BY <1>2, <3>1
  <2>2. /\ p \in Seats /\ n \in Nat /\ points \in {0, Right, -Wrong}
        /\ Recorded(p, n, "ANSWER", TRUE, points) /\ UNCHANGED setup
    BY <1>1, <1>3, <1>4 DEF Answer
  <2> QED
    BY <1>1, <2>1, <2>2, RecordedReplay
<1>5. ASSUME NEW p \in People, NEW n \in 1 .. MaxSequence, Unscored(p, n)
      PROVE  ScoreIsReplay'
  BY <1>1, <1>3, <1>5, RecordedReplay DEF Unscored
<1>6. ASSUME NEW p \in People, NEW n \in 1 .. MaxSequence, NEW kind \in {"FINISH", "FORFEIT"},
             Quit(p, n, kind)
      PROVE  ScoreIsReplay'
  <2>1. /\ \A q \in Seats : q # p => score'[q] = score[q]
        /\ score'[p] = Scored(p, 0)
    BY <1>1, <1>2, <1>6 DEF Quit
  <2> QED
    BY <1>1, <1>3, <1>6, <2>1, RecordedReplay DEF Quit
<1>7. ASSUME NEW p \in People, Forfeit(p) PROVE ScoreIsReplay'
  <2>1. /\ \A q \in Seats : q # p => score'[q] = score[q]
        /\ score'[p] = Scored(p, 0)
    BY <1>1, <1>2, <1>7 DEF Forfeit
  <2> QED
    BY <1>1, <1>3, <1>7, <2>1, RecordedReplay DEF Forfeit
<1>8. ASSUME NEW b \in Players \cap Bots, NEW points \in {Right, -Wrong}, BotAnswers(b, points)
      PROVE  ScoreIsReplay'
  <2>1. /\ \A q \in Seats : q # b => score'[q] = score[q]
        /\ score'[b] = Scored(b, points)
    <3>1. b \in Seats /\ score' = [score EXCEPT ![b] = Scored(b, points)]
      BY <1>1, <1>8 DEF BotAnswers
    <3> QED
      BY <1>2, <3>1
  <2>2. /\ b \in Seats /\ LastSequence(b) + 1 \in Nat /\ points \in {0, Right, -Wrong}
        /\ Recorded(b, LastSequence(b) + 1, "ANSWER", TRUE, points) /\ UNCHANGED setup
    BY <1>1, <1>3, <1>8 DEF BotAnswers
  <2> QED
    BY <1>1, <2>1, <2>2, RecordedReplay
<1>9. ASSUME NEW p \in People,
             \/ Start(p) \/ Complete(p)
             \/ \E verdict \in {"RELEASED", "CANCELLED"} : ReadHold(p, verdict) \/ WriteHold(p, verdict)
      PROVE  ScoreIsReplay'
  BY <1>9, SameReplay DEF Start, Complete, ReadHold, WriteHold, play
<1>10. CASE TimePasses \/ ReadExpired \/ WriteExpired \/ SweepFails \/ RetrySettlement
  BY <1>10, SameReplay DEF TimePasses, ReadExpired, WriteExpired, SweepFails, RetrySettlement, play
<1>11. CASE UNCHANGED vars
  BY <1>11, SameReplay DEF vars, play
<1> QED
  BY <1>4, <1>5, <1>6, <1>7, <1>8, <1>9, <1>10, <1>11 DEF Next

\* An entry with a number beyond the last one keeps the numbers ascending.
LEMMA RecordedAscends ==
  ASSUME TypeOK, EventsAscend, NEW p \in Seats, NEW n \in Nat, n > LastSequence(p),
         NEW kind, NEW ok, NEW points, Recorded(p, n, kind, ok, points)
  PROVE  EventsAscend'
<1> DEFINE entry == [n |-> n, kind |-> kind, ok |-> ok, points |-> points]
           j == journal[p]
<1>1. journal \in [Seats -> Seq(Entry)] /\ j \in Seq(Entry) /\ entry.n = n
  BY DEF TypeOK
<1>2. journal' = [journal EXCEPT ![p] = Append(j, entry)]
  BY DEF Recorded
<1>3. \A i \in DOMAIN j : j[i].n \in Nat
  <2>1. \A i \in DOMAIN j : j[i] \in Entry
    BY <1>1
  <2>2. \A e \in Entry : e.n \in Nat
    BY DEF Entry
  <2> QED
    BY <2>1, <2>2
<1>4. \A i \in DOMAIN j : j[i].n < n
  <2> SUFFICES ASSUME NEW i \in DOMAIN j PROVE j[i].n < n
    OBVIOUS
  <2>1. Len(j) \in Nat /\ i \in 1 .. Len(j) /\ DOMAIN j = 1 .. Len(j)
    BY <1>1
  <2>2. j # <<>> /\ Len(j) \in DOMAIN j
    BY <2>1
  <2>3. n > j[Len(j)].n
    BY <2>2 DEF LastSequence
  <2>4. CASE i = Len(j)
    BY <1>3, <2>2, <2>3, <2>4
  <2>5. CASE i # Len(j)
    <3>1. i < Len(j)
      BY <2>1, <2>5
    <3>2. j[i].n < j[Len(j)].n
      BY <2>2, <3>1 DEF EventsAscend
    <3> QED
      BY <1>3, <2>2, <2>3, <3>2
  <2> QED
    BY <2>4, <2>5
<1> HIDE DEF entry
<1>5. ASSUME NEW q \in Seats, NEW i \in DOMAIN journal'[q], NEW k \in DOMAIN journal'[q], i < k
      PROVE  journal'[q][i].n < journal'[q][k].n
  <2>1. CASE q # p
    BY <1>1, <1>2, <1>5, <2>1 DEF EventsAscend
  <2>2. CASE q = p
    <3>1. journal'[q] = Append(j, entry)
      BY <1>1, <1>2, <2>2
    <3>2. Len(j) \in Nat /\ DOMAIN j = 1 .. Len(j) /\ i \in 1 .. Len(j) + 1 /\ k \in 1 .. Len(j) + 1
      BY <1>1, <3>1
    <3>3. i \in DOMAIN j /\ Append(j, entry)[i] = j[i]
      BY <1>1, <1>5, <3>2
    <3>4. CASE k \in DOMAIN j
      <4>1. Append(j, entry)[k] = j[k]
        BY <1>1, <3>2, <3>4
      <4> QED
        BY <1>5, <3>1, <3>3, <3>4, <4>1 DEF EventsAscend
    <3>5. CASE k = Len(j) + 1
      <4>1. Append(j, entry)[k] = entry
        BY <1>1, <3>5
      <4> QED
        BY <1>1, <1>4, <3>1, <3>3, <4>1
    <3> QED
      BY <3>2, <3>4, <3>5
  <2> QED
    BY <2>1, <2>2
<1> QED
  BY <1>5 DEF EventsAscend

\* Every step keeps the events of a participant in the order of their numbers.
LEMMA NextAscends ==
  ASSUME LifeInv, EventsAscend, [Next]_vars
  PROVE  EventsAscend'
<1>1. TypeOK /\ Players \subseteq Seats /\ People \subseteq Seats
  BY PlayersSeated DEF LifeInv, Seats
<1>2. \A p \in Seats : LastSequence(p) \in Nat /\ LastSequence(p) + 1 \in Nat /\ LastSequence(p) + 1 > LastSequence(p)
  BY <1>1, LastSequenceNat
<1>3. ASSUME UNCHANGED journal PROVE EventsAscend'
  BY <1>3 DEF EventsAscend
<1>4. ASSUME NEW p \in People, NEW n \in 1 .. MaxSequence,
             \/ \E points \in {Right, -Wrong} : Answer(p, n, points)
             \/ Unscored(p, n)
             \/ \E kind \in {"FINISH", "FORFEIT"} : Quit(p, n, kind)
      PROVE  EventsAscend'
  <2>1. p \in Seats /\ n \in Nat
    BY <1>1, SequenceAssumption
  <2>2. n > LastSequence(p) /\ \E kind, ok, points : Recorded(p, n, kind, ok, points)
    BY <1>4 DEF Answer, Unscored, Quit, CanRecord
  <2> QED
    BY <1>1, <2>1, <2>2, RecordedAscends
<1>5. ASSUME NEW p \in Seats, \E kind, ok, points : Recorded(p, LastSequence(p) + 1, kind, ok, points)
      PROVE  EventsAscend'
  BY <1>1, <1>2, <1>5, RecordedAscends
<1>6. ASSUME NEW p \in People, Forfeit(p) PROVE EventsAscend'
  BY <1>1, <1>5, <1>6 DEF Forfeit
<1>7. ASSUME NEW b \in Players \cap Bots, NEW points, BotAnswers(b, points) PROVE EventsAscend'
  BY <1>1, <1>5, <1>7 DEF BotAnswers
<1>8. ASSUME NEW p \in People,
             \/ Start(p) \/ Complete(p)
             \/ \E verdict \in {"RELEASED", "CANCELLED"} : ReadHold(p, verdict) \/ WriteHold(p, verdict)
      PROVE  EventsAscend'
  BY <1>3, <1>8 DEF Start, Complete, ReadHold, WriteHold, play
<1>9. CASE TimePasses \/ ReadExpired \/ WriteExpired \/ SweepFails \/ RetrySettlement \/ UNCHANGED vars
  BY <1>3, <1>9 DEF TimePasses, ReadExpired, WriteExpired, SweepFails, RetrySettlement, play, vars
<1> QED
  BY <1>4, <1>6, <1>7, <1>8, <1>9 DEF Next

\* A score is what replaying the accepted events of the journal gives, with its
\* floor at zero, and no number is in a journal twice or out of order, for any
\* answers, bots and points.
THEOREM ScoreIsJournalHolds == Spec => []ScoreIsJournal
<1>1. Init => ScoreIsReplay
  <2> SUFFICES ASSUME Init PROVE ScoreIsReplay
    OBVIOUS
  <2>1. \A p \in Players : p \in Seats
    BY SetupsAssumption DEF Init, Players, Setup
  <2>2. \A p \in Players : score[p] = 0 /\ journal[p] = <<>>
    BY <2>1 DEF Init
  <2> QED
    BY <2>2, ReplayIs, ReplayNothing DEF ScoreIsReplay
<1>2. Init => EventsAscend
  BY DEF Init, EventsAscend
<1>3. LifeInv /\ ScoreIsReplay /\ [Next]_vars => ScoreIsReplay'
  BY NextScore
<1>4. LifeInv /\ EventsAscend /\ [Next]_vars => EventsAscend'
  BY NextAscends
<1> QED
  BY <1>1, <1>2, <1>3, <1>4, Invariant, PTL DEF Spec, ScoreIsJournal
=============================================================================
