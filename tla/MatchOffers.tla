----------------------------- MODULE MatchOffers -----------------------------
(***************************************************************************)
(* How two players agree on a casual match outside the queue: an invite to  *)
(* a friend (the friend-invite transactions of the matchmaking module), a   *)
(* rematch of a settled match (rematch.service.ts) and a direct challenge   *)
(* (create-match-transaction.ts).  An offer is a row of MatchmakingInvite   *)
(* or of RematchRequest, told apart by its kind.                            *)
(*                                                                          *)
(* All matches are of one game and one day, players are active, of a level  *)
(* the game allows and not restricted, friendships do not change, and the   *)
(* match itself is MatchLifecycle's: here it is live, then settled, or over *)
(* in a way that allows no rematch (a forfeit, a cancelled match).          *)
(***************************************************************************)
EXTENDS Naturals, Sequences, FiniteSets

CONSTANTS Users,      \* the players
          Friends,    \* pairs {a, b} who are friends
          Txns,       \* the transactions that can be open at once
          DailyLimit, \* matches two players may agree on in a day: 3 in the code
          MaxOffers,  \* bound: offers made
          MaxMatches  \* bound: matches made

ASSUME DailyLimitAssumption == DailyLimit \in Nat \ {0}

VARIABLES
  offers,  \* the rows of both tables, oldest first
  matches, \* the casual matches of two players
  work     \* the open transactions

vars == <<offers, matches, work>>

NoWork == [op |-> "none"]
Kinds == {"invite", "rematch"}
Statuses == {"PENDING", "ACCEPTED", "DECLINED", "CANCELED", "EXPIRED"}

Init ==
  /\ offers = <<>>
  /\ matches = <<>>
  /\ work = [t \in Txns |-> NoWork]

Ids == DOMAIN offers
Players(i) == {offers[i].from, offers[i].to}
Pending(i) == offers[i].status = "PENDING"

Begin(t, w) == work[t] = NoWork /\ work' = [work EXCEPT ![t] = w]
End(t) == work' = [work EXCEPT ![t] = NoWork]

\* The bounds, what the open transactions are about to insert included.
Open(ops) == Cardinality({t \in Txns : work[t].op \in ops})
RoomForOffer == Len(offers) + Open({"insert"}) < MaxOffers
RoomForMatch == Len(matches) + Open({"accept", "challenge"}) < MaxMatches

\* Mutant of Held: accepting takes no lock on its row.
Held_Never(t) == {}

\* The rows that others have locked FOR UPDATE.
Held(t) == {work[s].offer : s \in {s \in Txns \ {t} : work[s].op = "accept"}}

\* The day's casual matches of the two players.
Recent(pair) == {m \in DOMAIN matches : matches[m].players = pair}

Busy(p) == \E m \in DOMAIN matches : p \in matches[m].players /\ matches[m].state = "LIVE"

Offer(kind, of, a, b) ==
  [kind |-> kind, of |-> of, from |-> a, to |-> b,
   status |-> "PENDING", fresh |-> TRUE, match |-> 0]

\* Mutant of NewMatch: the second player gets no seat.
NewMatch_Alone(pair, i) ==
  [players |-> {CHOOSE p \in pair : TRUE}, offer |-> i, state |-> "LIVE"]

NewMatch(pair, i) == [players |-> pair, offer |-> i, state |-> "LIVE"]

-----------------------------------------------------------------------------
(* Making an offer *)

\* A friend is invited when no invite between the two is read as open.
Invite(t, a, b) ==
  /\ RoomForOffer
  /\ {a, b} \in Friends
  /\ \A i \in Ids : offers[i].kind = "invite" /\ Players(i) = {a, b} =>
       ~(Pending(i) /\ offers[i].fresh)
  /\ Begin(t, [op |-> "insert", row |-> Offer("invite", 0, a, b), expire |-> {}])
  /\ UNCHANGED <<offers, matches>>

\* The rematch offers of match m made by a, and the newest row of a set.
OffersOf(m, a) == {i \in Ids : offers[i].kind = "rematch" /\ offers[i].of = m /\ offers[i].from = a}
Newest(is) == {i \in is : \A j \in is : j <= i}

\* A rematch is requested of a settled match while the opponent's request is not
\* open; a request of one's own that is open is returned, and what is read as
\* run out is to be marked so.
Request(t, a, b, m) ==
  LET reverse == {i \in OffersOf(m, b) : Pending(i)}
      own == {i \in Newest(OffersOf(m, a)) : Pending(i)}
  IN  /\ RoomForOffer
      /\ matches[m].state = "SETTLED"
      /\ matches[m].players = {a, b}
      /\ Cardinality(Recent({a, b}) \ {m}) < DailyLimit
      /\ \A i \in own : ~offers[i].fresh
      /\ \E found \in {{i} : i \in reverse} \cup (IF reverse = {} THEN {{}} ELSE {}) :
           /\ \A i \in found : ~offers[i].fresh
           /\ Begin(t, [op |-> "insert", row |-> Offer("rematch", m, a, b),
                        expire |-> found \cup own])
      /\ UNCHANGED <<offers, matches>>

\* Rows read as run out are marked by id, and the new row is inserted.
Insert(t) ==
  /\ work[t].op = "insert"
  /\ Held(t) \cap work[t].expire = {}
  /\ offers' = Append([i \in Ids |-> IF i \in work[t].expire
                                       THEN [offers[i] EXCEPT !.status = "EXPIRED"]
                                       ELSE offers[i]],
                      work[t].row)
  /\ End(t)
  /\ UNCHANGED matches

-----------------------------------------------------------------------------
(* Answering an offer *)

\* What createMatch asks of two players, the match to repeat included.
Allowed(pair) == Cardinality(Recent(pair)) < DailyLimit

\* The player asked locks the row, reads that it is open, and for a rematch that
\* both are allowed another match and neither is in one.
Accept(t, i) ==
  /\ RoomForMatch
  /\ i \notin Held(t)
  /\ Pending(i) /\ offers[i].fresh
  /\ offers[i].kind = "rematch" =>
       /\ Allowed(Players(i))
       /\ \A p \in Players(i) : ~Busy(p)
  /\ Begin(t, [op |-> "accept", offer |-> i])
  /\ UNCHANGED <<offers, matches>>

\* The match is created and the row says so.
AcceptCommit(t) ==
  /\ work[t].op = "accept"
  /\ LET i == work[t].offer
     IN  /\ matches' = Append(matches, NewMatch(Players(i), i))
         /\ offers' = [offers EXCEPT ![i].status = "ACCEPTED", ![i].match = Len(matches')]
  /\ End(t)

\* A rematch is declined under the lock.
DeclineRematch(i) ==
  /\ offers[i].kind = "rematch"
  /\ Pending(i)
  /\ \A t \in Txns : work[t].op = "accept" => work[t].offer # i
  /\ offers' = [offers EXCEPT ![i].status = "DECLINED"]
  /\ UNCHANGED <<matches, work>>

\* Declining an invite and cancelling any offer read that it is pending, with
\* no lock; so does a look at a rematch that has run out.
Respond(t, i, answer) ==
  /\ Pending(i)
  /\ CASE answer = "DECLINED" -> offers[i].kind = "invite"
       [] answer = "CANCELED" -> TRUE
       [] answer = "EXPIRED"  -> /\ offers[i].kind = "rematch"
                                 /\ ~offers[i].fresh
                                 /\ LET m == offers[i].of
                                    IN  i \in Newest(UNION {OffersOf(m, p) : p \in matches[m].players})
  /\ Begin(t, [op |-> "respond", offer |-> i, answer |-> answer])
  /\ UNCHANGED <<offers, matches>>

\* The answer is written by id, over whatever the row has become.
RespondWrite(t) ==
  /\ work[t].op = "respond"
  /\ work[t].offer \notin Held(t)
  /\ offers' = [offers EXCEPT ![work[t].offer].status = work[t].answer]
  /\ End(t)
  /\ UNCHANGED matches

-----------------------------------------------------------------------------
(* The rest of the world *)

\* A player creates a match with an opponent directly.
Challenge(t, a, b) ==
  /\ RoomForMatch
  /\ Allowed({a, b})
  /\ Begin(t, [op |-> "challenge", players |-> {a, b}])
  /\ UNCHANGED <<offers, matches>>

ChallengeCommit(t) ==
  /\ work[t].op = "challenge"
  /\ matches' = Append(matches, NewMatch(work[t].players, 0))
  /\ End(t)
  /\ UNCHANGED offers

\* An offer runs out.
TimePasses(i) ==
  /\ Pending(i) /\ offers[i].fresh
  /\ offers' = [offers EXCEPT ![i].fresh = FALSE]
  /\ UNCHANGED <<matches, work>>

MatchEnds(m, state) ==
  /\ matches[m].state = "LIVE"
  /\ matches' = [matches EXCEPT ![m].state = state]
  /\ UNCHANGED <<offers, work>>

Next ==
  \/ \E t \in Txns :
       \/ Insert(t) \/ AcceptCommit(t) \/ RespondWrite(t) \/ ChallengeCommit(t)
       \/ \E a \in Users, b \in Users : a # b /\
            \/ Invite(t, a, b) \/ Challenge(t, a, b)
            \/ \E m \in DOMAIN matches : Request(t, a, b, m)
       \/ \E i \in Ids :
            \/ Accept(t, i)
            \/ \E answer \in {"DECLINED", "CANCELED", "EXPIRED"} : Respond(t, i, answer)
  \/ \E i \in Ids : DeclineRematch(i) \/ TimePasses(i)
  \/ \E m \in DOMAIN matches, state \in {"SETTLED", "OVER"} : MatchEnds(m, state)

Spec == Init /\ [][Next]_vars

-----------------------------------------------------------------------------
(* Properties *)

OfferRow == [kind : Kinds, of : Nat, from : Users, to : Users, status : Statuses,
             fresh : BOOLEAN, match : Nat]
MatchRow == [players : SUBSET Users, offer : Nat, state : {"LIVE", "SETTLED", "OVER"}]

\* The types of the rows: what an offer and a match refer to is there, an offer
\* is to another player, and a match has two players.
TypeOK ==
  /\ offers \in Seq(OfferRow) /\ matches \in Seq(MatchRow)
  /\ \A i \in Ids :
       /\ offers[i].of <= Len(matches) /\ offers[i].match <= Len(matches)
       /\ offers[i].kind = "rematch" => offers[i].of # 0
       /\ offers[i].from # offers[i].to
  /\ \A m \in DOMAIN matches :
       matches[m].offer <= Len(offers) /\ Cardinality(matches[m].players) = 2

\* Both players of an offer are sent to the same match: an offer is answered by
\* one match at most, which its row keeps whatever is written over its status,
\* and an accepted offer has one.
OneMatchPerOffer ==
  /\ \A m \in DOMAIN matches :
       LET i == matches[m].offer
       IN  i # 0 => offers[i].match = m /\ matches[m].players = Players(i)
  /\ \A i \in Ids : offers[i].status = "ACCEPTED" => offers[i].match # 0

-----------------------------------------------------------------------------
(* The inductive invariant *)

\* A row to be inserted: an open offer between two players, without a match.
NewRow(row) ==
  /\ row \in OfferRow
  /\ row.of <= Len(matches) /\ row.match = 0
  /\ row.kind = "rematch" => row.of # 0
  /\ row.from # row.to
  /\ row.status = "PENDING"

\* What an open transaction has read stays well formed: rows are not deleted.
Sound(w) ==
  CASE w.op = "insert"    -> NewRow(w.row)
    [] w.op = "accept"    -> w.offer \in Ids
    [] w.op = "respond"   -> w.offer \in Ids /\ w.answer \in Statuses \ {"PENDING", "ACCEPTED"}
    [] w.op = "challenge" -> w.players \subseteq Users /\ Cardinality(w.players) = 2
    [] OTHER -> w = NoWork

\* The row lock: an offer is held by one accept, and as long as it is held it is
\* what the accept has read.
HeldStands ==
  \A t \in Txns : work[t].op = "accept" =>
    /\ Pending(work[t].offer)
    /\ \A s \in Txns \ {t} : work[s].op = "accept" => work[s].offer # work[t].offer

\* An offer still open has no match yet.
OpenIsUnmatched == \A i \in Ids : Pending(i) => offers[i].match = 0

OffersInv ==
  /\ TypeOK
  /\ DOMAIN work = Txns /\ \A t \in Txns : Sound(work[t])
  /\ HeldStands
  /\ OpenIsUnmatched
  /\ OneMatchPerOffer

=============================================================================
