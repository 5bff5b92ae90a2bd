--------------------------- MODULE MatchOffersProofs ---------------------------
(***************************************************************************)
(* Proofs about MatchOffers: OffersInv is an inductive invariant, for any  *)
(* players, friends, transaction slots, daily limit and bounds, and so an  *)
(* offer leads both its players to one match.                              *)
(***************************************************************************)
EXTENDS MatchOffers, FiniteSetTheorems, TLAPS

\* The ids of a table are positive numbers, its rows are of its type.
LEMMA Rows ==
  ASSUME NEW S, NEW s \in Seq(S)
  PROVE  /\ Len(s) \in Nat /\ DOMAIN s = 1..Len(s)
         /\ \A i \in DOMAIN s : s[i] \in S /\ i \in Nat \ {0} /\ i <= Len(s)
  OBVIOUS

\* An array over the ids of a table is a table.
LEMMA SeqOver ==
  ASSUME NEW S, NEW T, NEW s \in Seq(S), NEW f, f = [i \in DOMAIN s |-> f[i]],
         \A i \in DOMAIN s : f[i] \in T
  PROVE  f \in Seq(T) /\ DOMAIN f = DOMAIN s /\ Len(f) = Len(s)
<1>1. DOMAIN s = 1..Len(s) /\ Len(s) \in Nat
  OBVIOUS
<1>2. f \in [1..Len(s) -> T]
  BY <1>1
<1> QED
  BY <1>1, <1>2

\* A table with one row set.
LEMMA RowSet ==
  ASSUME NEW S, NEW s \in Seq(S), NEW i \in DOMAIN s, NEW row \in S
  PROVE  /\ [s EXCEPT ![i] = row] \in Seq(S)
         /\ Len([s EXCEPT ![i] = row]) = Len(s)
         /\ DOMAIN [s EXCEPT ![i] = row] = DOMAIN s
  OBVIOUS

\* Two different players are a pair.
LEMMA PairOfTwo ==
  ASSUME NEW a \in Users, NEW b \in Users, a # b
  PROVE  {a, b} \subseteq Users /\ Cardinality({a, b}) = 2
<1>1. IsFiniteSet({a}) /\ Cardinality({a}) = 1
  BY FS_Singleton
<1>2. {a, b} = {a} \cup {b} /\ b \notin {a}
  OBVIOUS
<1>3. Cardinality({a} \cup {b}) = 2
  BY <1>1, <1>2, FS_AddElement
<1> QED
  BY <1>2, <1>3

\* What the rows of the tables refer to.
LEMMA Tables ==
  ASSUME OffersInv
  PROVE  /\ DOMAIN offers = 1..Len(offers) /\ Len(offers) \in Nat
         /\ DOMAIN matches = 1..Len(matches) /\ Len(matches) \in Nat
         /\ \A i \in Ids : offers[i] \in OfferRow /\ i \in Nat \ {0}
         /\ \A m \in DOMAIN matches :
              /\ matches[m] \in MatchRow /\ m \in Nat \ {0}
              /\ matches[m].offer # 0 => matches[m].offer \in Ids
<1>1. offers \in Seq(OfferRow) /\ matches \in Seq(MatchRow)
  BY DEF OffersInv, TypeOK
<1>2. /\ DOMAIN offers = 1..Len(offers) /\ Len(offers) \in Nat
      /\ DOMAIN matches = 1..Len(matches) /\ Len(matches) \in Nat
      /\ \A i \in Ids : offers[i] \in OfferRow /\ i \in Nat \ {0}
      /\ \A m \in DOMAIN matches : matches[m] \in MatchRow /\ m \in Nat \ {0}
  BY <1>1, Rows DEF Ids
<1>3. ASSUME NEW m \in DOMAIN matches, matches[m].offer # 0
      PROVE  matches[m].offer \in Ids
  <2>1. matches[m].offer \in Nat /\ matches[m].offer <= Len(offers)
    BY <1>2 DEF OffersInv, TypeOK, MatchRow
  <2> QED
    BY <1>2, <1>3, <2>1 DEF Ids
<1> QED
  BY <1>2, <1>3

-----------------------------------------------------------------------------
(* Transaction slots *)

\* A slot that is given new work, the others keep theirs.
LEMMA SlotSet ==
  ASSUME DOMAIN work = Txns, NEW t \in Txns, NEW w, work' = [work EXCEPT ![t] = w]
  PROVE  DOMAIN work' = Txns /\ work'[t] = w /\ \A s \in Txns : s # t => work'[s] = work[s]
  OBVIOUS

\* A transaction that begins with what it has read: the tables are unchanged, and
\* an accept holds an open offer that no other accept holds.
LEMMA Begins ==
  ASSUME OffersInv, NEW t \in Txns, NEW w, Begin(t, w), UNCHANGED <<offers, matches>>,
         Sound(w),
         w.op = "accept" => Pending(w.offer) /\ w.offer \notin Held(t)
  PROVE  OffersInv'
<1>1. /\ DOMAIN work' = Txns /\ work'[t] = w
      /\ \A s \in Txns : s # t => work'[s] = work[s]
  BY SlotSet DEF OffersInv, Begin
<1>2. TypeOK' /\ OpenIsUnmatched' /\ OneMatchPerOffer'
  BY DEF OffersInv, TypeOK, OpenIsUnmatched, OneMatchPerOffer, Ids, Players, Pending
<1>3. \A s \in Txns : Sound(work[s])'
  BY <1>1 DEF OffersInv, Sound, NewRow, Ids
<1>4. HeldStands'
  <2> SUFFICES ASSUME NEW s \in Txns, work'[s].op = "accept"
               PROVE  /\ Pending(work'[s].offer)
                      /\ \A r \in Txns \ {s} : work'[r].op = "accept" => work'[r].offer # work'[s].offer
    BY DEF HeldStands, Pending
  <2>1. CASE s = t
    BY <1>1, <2>1 DEF Held
  <2>2. CASE s # t
    BY <1>1, <2>2 DEF OffersInv, HeldStands, Held
  <2> QED
    BY <2>1, <2>2
<1> QED
  BY <1>1, <1>2, <1>3, <1>4 DEF OffersInv

\* No slot takes up work: each goes on as it is, or ends.
NoNewWork == DOMAIN work' = Txns /\ \A s \in Txns : work'[s] = work[s] \/ work'[s] = NoWork

LEMMA EndsWork ==
  ASSUME OffersInv, NEW t \in Txns, End(t)
  PROVE  NoNewWork /\ work'[t] = NoWork
  BY SlotSet DEF OffersInv, End, NoNewWork

\* A step that rewrites the status or the clock of rows, never to PENDING or
\* ACCEPTED and never of a row that is held, and may append new rows.
LEMMA Rewrites ==
  ASSUME OffersInv, NoNewWork, UNCHANGED matches,
         offers' \in Seq(OfferRow), Len(offers) <= Len(offers'),
         \A i \in Ids :
           /\ offers'[i].kind = offers[i].kind /\ offers'[i].of = offers[i].of
           /\ offers'[i].from = offers[i].from /\ offers'[i].to = offers[i].to
           /\ offers'[i].match = offers[i].match
           /\ \/ offers'[i].status = offers[i].status
              \/ /\ offers'[i].status \notin {"PENDING", "ACCEPTED"}
                 /\ \A s \in Txns : work'[s].op = "accept" => work'[s].offer # i,
         \A i \in DOMAIN offers' \ Ids : NewRow(offers'[i])
  PROVE  OffersInv'
<1>1. /\ DOMAIN offers = 1..Len(offers) /\ DOMAIN offers' = 1..Len(offers')
      /\ Len(offers) \in Nat /\ Len(offers') \in Nat /\ Len(matches) \in Nat
      /\ Ids \subseteq DOMAIN offers'
  BY Rows DEF OffersInv, TypeOK, Ids
<1>2. TypeOK'
  <2>1. \A i \in DOMAIN offers' :
          /\ offers'[i].of <= Len(matches) /\ offers'[i].match <= Len(matches)
          /\ offers'[i].kind = "rematch" => offers'[i].of # 0
          /\ offers'[i].from # offers'[i].to
    <3> SUFFICES ASSUME NEW i \in DOMAIN offers'
                 PROVE  /\ offers'[i].of <= Len(matches) /\ offers'[i].match <= Len(matches)
                        /\ offers'[i].kind = "rematch" => offers'[i].of # 0
                        /\ offers'[i].from # offers'[i].to
      OBVIOUS
    <3>1. CASE i \in Ids
      BY <3>1 DEF OffersInv, TypeOK
    <3>2. CASE i \notin Ids
      BY <1>1, <3>2 DEF NewRow
    <3> QED
      BY <3>1, <3>2
  <2>2. \A m \in DOMAIN matches :
          matches[m].offer <= Len(offers') /\ Cardinality(matches[m].players) = 2
    <3> SUFFICES ASSUME NEW m \in DOMAIN matches PROVE matches[m].offer <= Len(offers')
      BY DEF OffersInv, TypeOK
    <3>1. matches[m].offer \in Nat /\ matches[m].offer <= Len(offers)
      BY Tables DEF OffersInv, TypeOK, MatchRow
    <3> QED
      BY <1>1, <3>1
  <2> QED
    BY <2>1, <2>2 DEF OffersInv, TypeOK, Ids
<1>3. \A s \in Txns : Sound(work[s])'
  BY <1>1 DEF OffersInv, NoNewWork, NoWork, Sound, NewRow, Ids
<1>4. HeldStands'
  BY <1>1 DEF OffersInv, HeldStands, Sound, NoNewWork, NoWork, Pending, Ids
<1>5. OpenIsUnmatched'
  BY <1>1 DEF OffersInv, OpenIsUnmatched, Pending, NewRow, Ids
<1>6. OneMatchPerOffer'
  <2>1. ASSUME NEW m \in DOMAIN matches, matches[m].offer # 0
        PROVE  /\ offers'[matches[m].offer].match = m
               /\ matches[m].players = Players(matches[m].offer)'
    <3>1. matches[m].offer \in Ids
      BY <2>1, Tables
    <3> QED
      BY <2>1, <3>1 DEF OffersInv, OneMatchPerOffer, Players
  <2>2. ASSUME NEW i \in DOMAIN offers', offers'[i].status = "ACCEPTED"
        PROVE  offers'[i].match # 0
    <3>1. CASE i \in Ids
      BY <2>2, <3>1 DEF OffersInv, OneMatchPerOffer
    <3>2. CASE i \notin Ids
      BY <2>2, <3>2 DEF NewRow
    <3> QED
      BY <3>1, <3>2
  <2> QED
    BY <2>1, <2>2 DEF OneMatchPerOffer, Ids
<1> QED
  BY <1>2, <1>3, <1>4, <1>5, <1>6 DEF OffersInv, NoNewWork

-----------------------------------------------------------------------------
(* The steps *)

LEMMA InviteInv ==
  ASSUME OffersInv, NEW t \in Txns, NEW a \in Users, NEW b \in Users, a # b, Invite(t, a, b)
  PROVE  OffersInv'
<1> DEFINE row == Offer("invite", 0, a, b)
           w == [op |-> "insert", row |-> row, expire |-> {}]
<1>1. NewRow(row)
  BY Tables DEF NewRow, Offer, OfferRow, Kinds, Statuses
<1>2. Sound(w) /\ w.op # "accept"
  BY <1>1 DEF Sound
<1>3. Begin(t, w) /\ UNCHANGED <<offers, matches>>
  BY DEF Invite
<1> HIDE DEF w
<1> QED
  BY <1>2, <1>3, Begins

LEMMA RequestInv ==
  ASSUME OffersInv, NEW t \in Txns, NEW a \in Users, NEW b \in Users, a # b,
         NEW m \in DOMAIN matches, Request(t, a, b, m)
  PROVE  OffersInv'
<1> DEFINE row == Offer("rematch", m, a, b)
           w(expire) == [op |-> "insert", row |-> row, expire |-> expire]
<1>1. NewRow(row)
  BY Tables DEF NewRow, Offer, OfferRow, Kinds, Statuses
<1>2. \A expire : Sound(w(expire)) /\ w(expire).op # "accept"
  BY <1>1 DEF Sound
<1>3. PICK expire : Begin(t, w(expire))
  BY DEF Request
<1>4. UNCHANGED <<offers, matches>>
  BY DEF Request
<1> HIDE DEF w
<1> QED
  BY <1>2, <1>3, <1>4, Begins

LEMMA AcceptInv ==
  ASSUME OffersInv, NEW t \in Txns, NEW i \in Ids, Accept(t, i)
  PROVE  OffersInv'
<1> DEFINE w == [op |-> "accept", offer |-> i]
<1>1. Sound(w) /\ Pending(w.offer) /\ w.offer \notin Held(t)
  BY DEF Accept, Sound
<1>2. Begin(t, w) /\ UNCHANGED <<offers, matches>>
  BY DEF Accept
<1> HIDE DEF w
<1> QED
  BY <1>1, <1>2, Begins

LEMMA RespondInv ==
  ASSUME OffersInv, NEW t \in Txns, NEW i \in Ids,
         NEW answer \in {"DECLINED", "CANCELED", "EXPIRED"}, Respond(t, i, answer)
  PROVE  OffersInv'
<1> DEFINE w == [op |-> "respond", offer |-> i, answer |-> answer]
<1>1. Sound(w) /\ w.op # "accept"
  BY DEF Sound, Statuses
<1>2. Begin(t, w) /\ UNCHANGED <<offers, matches>>
  BY DEF Respond
<1> HIDE DEF w
<1> QED
  BY <1>1, <1>2, Begins

LEMMA ChallengeInv ==
  ASSUME OffersInv, NEW t \in Txns, NEW a \in Users, NEW b \in Users, a # b, Challenge(t, a, b)
  PROVE  OffersInv'
<1> DEFINE w == [op |-> "challenge", players |-> {a, b}]
<1>1. Sound(w) /\ w.op # "accept"
  BY PairOfTwo DEF Sound
<1>2. Begin(t, w) /\ UNCHANGED <<offers, matches>>
  BY DEF Challenge
<1> HIDE DEF w
<1> QED
  BY <1>1, <1>2, Begins

\* The rows read as run out are not held when they are marked.
LEMMA InsertInv ==
  ASSUME OffersInv, NEW t \in Txns, Insert(t)
  PROVE  OffersInv'
<1> DEFINE marked == [i \in Ids |-> IF i \in work[t].expire
                                      THEN [offers[i] EXCEPT !.status = "EXPIRED"] ELSE offers[i]]
<1>1. NoNewWork /\ work'[t] = NoWork
  BY EndsWork DEF Insert
<1>2. NewRow(work[t].row) /\ offers \in Seq(OfferRow)
  BY DEF OffersInv, TypeOK, Insert, Sound
<1>3. marked = [i \in DOMAIN offers |-> marked[i]]
  BY DEF Ids
<1>4. \A i \in Ids :
        /\ marked[i] \in OfferRow
        /\ marked[i].kind = offers[i].kind /\ marked[i].of = offers[i].of
        /\ marked[i].from = offers[i].from /\ marked[i].to = offers[i].to
        /\ marked[i].match = offers[i].match
        /\ \/ marked[i].status = offers[i].status
           \/ marked[i].status = "EXPIRED" /\ i \in work[t].expire
  BY SMTT(30), Tables DEF OfferRow, Statuses
<1> HIDE DEF marked
<1>5. marked \in Seq(OfferRow) /\ Len(marked) = Len(offers) /\ DOMAIN marked = DOMAIN offers
  BY <1>2, <1>3, <1>4, SeqOver DEF Ids
<1>6. offers' = Append(marked, work[t].row) /\ work[t].row \in OfferRow /\ UNCHANGED matches
  BY <1>2 DEF Insert, marked, NewRow
<1>7. /\ offers' \in Seq(OfferRow) /\ Len(offers) <= Len(offers')
      /\ \A i \in Ids : offers'[i] = marked[i]
      /\ \A i \in DOMAIN offers' \ Ids : offers'[i] = work[t].row
  BY <1>5, <1>6, Tables DEF Ids
<1>8. \A i \in work[t].expire : \A s \in Txns : work'[s].op = "accept" => work'[s].offer # i
  BY <1>1 DEF Insert, Held, NoNewWork, NoWork
<1> QED
  BY <1>1, <1>2, <1>4, <1>6, <1>7, <1>8, Rewrites

\* A step that sets one row's status, not of a row that is held, or its clock.
LEMMA OneRewritten ==
  ASSUME OffersInv, NoNewWork, UNCHANGED matches, NEW i \in Ids, NEW row \in OfferRow,
         offers' = [offers EXCEPT ![i] = row],
         row.kind = offers[i].kind, row.of = offers[i].of, row.from = offers[i].from,
         row.to = offers[i].to, row.match = offers[i].match,
         \/ row.status = offers[i].status
         \/ /\ row.status \notin {"PENDING", "ACCEPTED"}
            /\ \A s \in Txns : work'[s].op = "accept" => work'[s].offer # i
  PROVE  OffersInv'
<1>1. offers'[i] = row /\ \A j \in Ids : j # i => offers'[j] = offers[j]
  BY DEF Ids
<1>2. offers' \in Seq(OfferRow) /\ Len(offers') = Len(offers) /\ DOMAIN offers' = DOMAIN offers
  <2>1. offers \in Seq(OfferRow)
    BY DEF OffersInv, TypeOK
  <2> QED
    BY <2>1, RowSet DEF Ids
<1> QED
  BY <1>1, <1>2, Tables, Rewrites DEF Ids

LEMMA DeclineRematchInv ==
  ASSUME OffersInv, NEW i \in Ids, DeclineRematch(i)
  PROVE  OffersInv'
<1> DEFINE row == [offers[i] EXCEPT !.status = "DECLINED"]
<1>1. NoNewWork /\ UNCHANGED matches
  BY DEF DeclineRematch, NoNewWork, OffersInv
<1>2. /\ row \in OfferRow /\ row.status = "DECLINED"
      /\ row.kind = offers[i].kind /\ row.of = offers[i].of /\ row.from = offers[i].from
      /\ row.to = offers[i].to /\ row.match = offers[i].match
  BY Tables DEF OfferRow, Statuses
<1>3. offers' = [offers EXCEPT ![i] = row]
  BY DEF DeclineRematch
<1>4. \A s \in Txns : work'[s].op = "accept" => work'[s].offer # i
  BY DEF DeclineRematch
<1> HIDE DEF row
<1> QED
  BY <1>1, <1>2, <1>3, <1>4, OneRewritten

LEMMA RespondWriteInv ==
  ASSUME OffersInv, NEW t \in Txns, RespondWrite(t)
  PROVE  OffersInv'
<1> DEFINE i == work[t].offer
           row == [offers[i] EXCEPT !.status = work[t].answer]
<1>1. NoNewWork /\ work'[t] = NoWork /\ UNCHANGED matches
  BY EndsWork DEF RespondWrite
<1>2. i \in Ids /\ work[t].answer \in Statuses \ {"PENDING", "ACCEPTED"}
  BY DEF RespondWrite, OffersInv, Sound
<1>3. /\ row \in OfferRow /\ row.status \notin {"PENDING", "ACCEPTED"}
      /\ row.kind = offers[i].kind /\ row.of = offers[i].of /\ row.from = offers[i].from
      /\ row.to = offers[i].to /\ row.match = offers[i].match
  BY <1>2, Tables DEF OfferRow
<1>4. offers' = [offers EXCEPT ![i] = row]
  BY <1>2 DEF RespondWrite
<1>5. \A s \in Txns : work'[s].op = "accept" => work'[s].offer # i
  BY <1>1 DEF RespondWrite, Held, NoNewWork, NoWork
<1> HIDE DEF row, i
<1> QED
  BY <1>1, <1>2, <1>3, <1>4, <1>5, OneRewritten

LEMMA TimePassesInv ==
  ASSUME OffersInv, NEW i \in Ids, TimePasses(i)
  PROVE  OffersInv'
<1> DEFINE row == [offers[i] EXCEPT !.fresh = FALSE]
<1>1. NoNewWork /\ UNCHANGED matches
  BY DEF TimePasses, NoNewWork, OffersInv
<1>2. /\ row \in OfferRow /\ row.status = offers[i].status
      /\ row.kind = offers[i].kind /\ row.of = offers[i].of /\ row.from = offers[i].from
      /\ row.to = offers[i].to /\ row.match = offers[i].match
  BY Tables DEF OfferRow
<1>3. offers' = [offers EXCEPT ![i] = row]
  BY DEF TimePasses
<1> HIDE DEF row
<1> QED
  BY <1>1, <1>2, <1>3, OneRewritten

\* A step that only makes new matches or ends them: the rows of the old ones keep
\* their players and offers.  (Offers are treated by the caller.)
LEMMA MatchTyped ==
  ASSUME OffersInv, NEW pair \in SUBSET Users, Cardinality(pair) = 2, NEW i \in {0} \cup Ids
  PROVE  LET ms == Append(matches, NewMatch(pair, i)) IN
         /\ ms \in Seq(MatchRow) /\ Len(ms) = Len(matches) + 1
         /\ DOMAIN ms = DOMAIN matches \cup {Len(ms)}
         /\ \A m \in DOMAIN matches : ms[m] = matches[m] /\ m # Len(ms)
         /\ ms[Len(ms)].players = pair /\ ms[Len(ms)].offer = i
<1>1. NewMatch(pair, i) \in MatchRow
  BY Tables DEF NewMatch, MatchRow, Ids
<1>2. matches \in Seq(MatchRow)
  BY DEF OffersInv, TypeOK
<1> DEFINE row == NewMatch(pair, i)
           ms == Append(matches, row)
<1>3. row.players = pair /\ row.offer = i
  BY DEF NewMatch
<1> HIDE DEF row
<1>4. /\ ms \in Seq(MatchRow) /\ Len(ms) = Len(matches) + 1
      /\ DOMAIN ms = 1..(Len(matches) + 1)
      /\ \A m \in DOMAIN matches : ms[m] = matches[m]
      /\ ms[Len(ms)] = row
  BY <1>1, <1>2 DEF row
<1>5. DOMAIN ms = DOMAIN matches \cup {Len(ms)} /\ \A m \in DOMAIN matches : m # Len(ms)
  BY <1>4, Tables
<1> QED
  BY <1>3, <1>4, <1>5 DEF row

\* The offer that is answered was open and without a match, and is held by nobody
\* else.
LEMMA AcceptCommitInv ==
  ASSUME OffersInv, NEW t \in Txns, AcceptCommit(t)
  PROVE  OffersInv'
<1> DEFINE i == work[t].offer
           n == Len(matches) + 1
           row == [offers[i] EXCEPT !.status = "ACCEPTED", !.match = n]
<1>1. /\ NoNewWork /\ work'[t] = NoWork
      /\ i \in Ids /\ Pending(i)
      /\ \A s \in Txns : work'[s].op = "accept" => work'[s].offer # i
  BY EndsWork DEF AcceptCommit, OffersInv, Sound, HeldStands, NoNewWork, NoWork
<1>2. offers[i].match = 0
  BY <1>1 DEF OffersInv, OpenIsUnmatched
<1>3. Players(i) \subseteq Users /\ Cardinality(Players(i)) = 2
  BY <1>1, Tables, PairOfTwo DEF OffersInv, TypeOK, Players, OfferRow
<1>4. /\ matches' \in Seq(MatchRow) /\ Len(matches') = n
      /\ DOMAIN matches' = DOMAIN matches \cup {n}
      /\ \A m \in DOMAIN matches : matches'[m] = matches[m] /\ m # n
      /\ matches'[n].players = Players(i) /\ matches'[n].offer = i
  BY <1>1, <1>3, MatchTyped DEF AcceptCommit
<1>5. n \in Nat /\ n # 0 /\ Len(matches) <= n
  BY Tables
<1>6. offers' = [offers EXCEPT ![i] = row]
  BY <1>1, <1>4 DEF AcceptCommit
<1> HIDE DEF n
<1>7. /\ row \in OfferRow /\ row.status = "ACCEPTED" /\ row.match = n
      /\ row.kind = offers[i].kind /\ row.of = offers[i].of
      /\ row.from = offers[i].from /\ row.to = offers[i].to
  BY <1>1, <1>5, Tables DEF OfferRow, Statuses
<1> HIDE DEF row, i
<1>8. offers'[i] = row /\ \A j \in Ids : j # i => offers'[j] = offers[j]
  BY <1>1, <1>6 DEF Ids
<1>9. offers' \in Seq(OfferRow) /\ Len(offers') = Len(offers) /\ DOMAIN offers' = Ids
  <2>1. offers' = [j \in DOMAIN offers |-> offers'[j]]
    BY <1>6
  <2>2. \A j \in DOMAIN offers : offers'[j] \in OfferRow
    BY <1>7, <1>8, Tables DEF Ids
  <2>3. offers \in Seq(OfferRow)
    BY DEF OffersInv, TypeOK
  <2> QED
    BY <2>1, <2>2, <2>3, SeqOver DEF Ids
<1>10. TypeOK'
  <2>1. \A j \in Ids :
          /\ offers'[j].of <= n /\ offers'[j].match <= n
          /\ offers'[j].kind = "rematch" => offers'[j].of # 0
          /\ offers'[j].from # offers'[j].to
    <3> SUFFICES ASSUME NEW j \in Ids
                 PROVE  /\ offers'[j].of <= n /\ offers'[j].match <= n
                        /\ offers'[j].kind = "rematch" => offers'[j].of # 0
                        /\ offers'[j].from # offers'[j].to
      OBVIOUS
    <3>1. /\ offers[j].of \in Nat /\ offers[j].of <= Len(matches)
          /\ offers[j].match \in Nat /\ offers[j].match <= Len(matches)
          /\ offers[j].kind = "rematch" => offers[j].of # 0
          /\ offers[j].from # offers[j].to
      BY Tables DEF OffersInv, TypeOK, OfferRow
    <3>2. CASE j = i
      BY <3>1, <3>2, <1>5, <1>7, <1>8, Tables
    <3>3. CASE j # i
      BY <3>1, <3>3, <1>5, <1>8, Tables
    <3> QED
      BY <3>2, <3>3
  <2>2. \A m \in DOMAIN matches' :
          matches'[m].offer <= Len(offers') /\ Cardinality(matches'[m].players) = 2
    <3>1. i <= Len(offers)
      BY <1>1, Tables DEF Ids
    <3> QED
      BY <1>3, <1>4, <1>9, <3>1 DEF OffersInv, TypeOK
  <2> QED
    BY <1>4, <1>9, <2>1, <2>2 DEF TypeOK, Ids
<1>11. \A s \in Txns : Sound(work[s])'
  <2>1. \A r : NewRow(r) => NewRow(r)'
    BY <1>4, <1>5, Tables DEF NewRow, OfferRow
  <2> QED
    BY <1>1, <1>9, <2>1 DEF OffersInv, NoNewWork, NoWork, Sound, Ids
<1>12. HeldStands'
  <2> SUFFICES ASSUME NEW s \in Txns, work'[s].op = "accept"
               PROVE  /\ offers'[work'[s].offer].status = "PENDING"
                      /\ \A r \in Txns \ {s} : work'[r].op = "accept" => work'[r].offer # work'[s].offer
    BY DEF HeldStands, Pending
  <2>1. work'[s] = work[s] /\ work[s].offer # i /\ work[s].offer \in Ids
    BY <1>1 DEF NoNewWork, NoWork, OffersInv, Sound
  <2> QED
    BY <1>1, <1>8, <2>1 DEF OffersInv, HeldStands, Pending, NoNewWork, NoWork
<1>13. OpenIsUnmatched'
  BY <1>7, <1>8, <1>9 DEF OffersInv, OpenIsUnmatched, Pending, Ids
<1>14. OneMatchPerOffer'
  <2>1. ASSUME NEW m \in DOMAIN matches', matches'[m].offer # 0
        PROVE  /\ offers'[matches'[m].offer].match = m
               /\ matches'[m].players = {offers'[matches'[m].offer].from, offers'[matches'[m].offer].to}
    <3>1. CASE m = n
      BY <1>4, <1>7, <1>8, <3>1 DEF Players
    <3>2. CASE m \in DOMAIN matches
      <4>1. /\ matches[m].offer \in Ids
            /\ offers[matches[m].offer].match = m /\ m # 0
            /\ matches[m].players = Players(matches[m].offer)
        BY <1>4, <2>1, <3>2, Tables DEF OffersInv, OneMatchPerOffer
      <4>2. matches[m].offer # i
        BY <1>2, <4>1
      <4> QED
        BY <1>4, <1>8, <3>2, <4>1, <4>2 DEF Players
    <3> QED
      BY <1>4, <3>1, <3>2
  <2>2. \A j \in Ids : offers'[j].status = "ACCEPTED" => offers'[j].match # 0
    BY <1>5, <1>7, <1>8 DEF OffersInv, OneMatchPerOffer
  <2> QED
    BY <1>9, <2>1, <2>2 DEF OneMatchPerOffer, Ids, Players
<1> QED
  BY <1>1, <1>10, <1>11, <1>12, <1>13, <1>14 DEF OffersInv, NoNewWork

\* A step that leaves the offers, and keeps the players and offer of each match or
\* adds one that answers no offer.
LEMMA OffersKept ==
  ASSUME OffersInv, NoNewWork, UNCHANGED offers,
         matches' \in Seq(MatchRow), Len(matches) <= Len(matches'),
         \A m \in DOMAIN matches : matches'[m].players = matches[m].players
                                  /\ matches'[m].offer = matches[m].offer,
         \A m \in DOMAIN matches' \ DOMAIN matches :
            matches'[m].offer = 0 /\ Cardinality(matches'[m].players) = 2
  PROVE  OffersInv'
<1>1. Len(matches') \in Nat
  OBVIOUS
<1>2. TypeOK'
  <2>1. \A i \in Ids : offers[i].of <= Len(matches') /\ offers[i].match <= Len(matches')
    <3> SUFFICES ASSUME NEW i \in Ids
                 PROVE  offers[i].of <= Len(matches') /\ offers[i].match <= Len(matches')
      OBVIOUS
    <3>1. /\ offers[i].of \in Nat /\ offers[i].of <= Len(matches)
          /\ offers[i].match \in Nat /\ offers[i].match <= Len(matches)
      BY Tables DEF OffersInv, TypeOK, OfferRow
    <3> QED
      BY <1>1, <3>1, Tables
  <2>2. \A m \in DOMAIN matches' :
          matches'[m].offer <= Len(offers) /\ Cardinality(matches'[m].players) = 2
    BY Tables DEF OffersInv, TypeOK
  <2> QED
    BY <2>1, <2>2 DEF OffersInv, TypeOK, Ids
<1>3. \A s \in Txns : Sound(work[s])'
  <2>1. \A r : NewRow(r) => NewRow(r)'
    BY <1>1, Tables DEF NewRow, OfferRow
  <2> QED
    BY <2>1 DEF OffersInv, NoNewWork, NoWork, Sound, Ids
<1>4. HeldStands' /\ OpenIsUnmatched'
  BY DEF OffersInv, HeldStands, OpenIsUnmatched, NoNewWork, NoWork, Pending, Ids
<1>5. OneMatchPerOffer'
  BY Tables DEF OffersInv, OneMatchPerOffer, Players, Ids
<1> QED
  BY <1>2, <1>3, <1>4, <1>5 DEF OffersInv, NoNewWork

LEMMA ChallengeCommitInv ==
  ASSUME OffersInv, NEW t \in Txns, ChallengeCommit(t)
  PROVE  OffersInv'
<1>1. NoNewWork /\ UNCHANGED offers
  BY EndsWork DEF ChallengeCommit
<1>2. work[t].players \in SUBSET Users /\ Cardinality(work[t].players) = 2
  BY DEF ChallengeCommit, OffersInv, Sound
<1>3. /\ matches' \in Seq(MatchRow) /\ Len(matches') = Len(matches) + 1
      /\ DOMAIN matches' = DOMAIN matches \cup {Len(matches')}
      /\ \A m \in DOMAIN matches : matches'[m] = matches[m]
      /\ matches'[Len(matches')].players = work[t].players
      /\ matches'[Len(matches')].offer = 0
  BY <1>2, MatchTyped DEF ChallengeCommit
<1>4. Len(matches) <= Len(matches')
  BY <1>3, Tables
<1> QED
  BY <1>1, <1>2, <1>3, <1>4, OffersKept

LEMMA MatchEndsInv ==
  ASSUME OffersInv, NEW m \in DOMAIN matches, NEW state \in {"SETTLED", "OVER"},
         MatchEnds(m, state)
  PROVE  OffersInv'
<1> DEFINE row == [matches[m] EXCEPT !.state = state]
<1>1. NoNewWork /\ UNCHANGED offers
  BY DEF MatchEnds, NoNewWork, OffersInv
<1>2. row \in MatchRow /\ row.players = matches[m].players /\ row.offer = matches[m].offer
  BY Tables DEF MatchRow
<1>3. matches' = [matches EXCEPT ![m] = row]
  BY DEF MatchEnds
<1> HIDE DEF row
<1>4. matches' = [k \in DOMAIN matches |-> matches'[k]]
  BY <1>3
<1>5. matches'[m] = row /\ \A k \in DOMAIN matches : k # m => matches'[k] = matches[k]
  BY <1>3
<1>6. \A k \in DOMAIN matches : matches'[k] \in MatchRow
  BY <1>2, <1>5, Tables
<1>7. matches \in Seq(MatchRow)
  BY DEF OffersInv, TypeOK
<1>8. matches' \in Seq(MatchRow) /\ Len(matches') = Len(matches) /\ DOMAIN matches' = DOMAIN matches
  BY <1>4, <1>6, <1>7, SeqOver
<1>9. Len(matches) <= Len(matches')
  BY <1>8, Tables
<1> QED
  BY <1>1, <1>2, <1>5, <1>8, <1>9, OffersKept

-----------------------------------------------------------------------------
(* The theorems *)

LEMMA InitInv == Init => OffersInv
<1> SUFFICES ASSUME Init PROVE OffersInv
  OBVIOUS
<1>1. offers = <<>> /\ matches = <<>> /\ work = [t \in Txns |-> NoWork]
  BY DEF Init
<1>2. TypeOK /\ OpenIsUnmatched /\ OneMatchPerOffer
  BY <1>1 DEF TypeOK, OpenIsUnmatched, OneMatchPerOffer, Ids, Pending
<1>3. DOMAIN work = Txns /\ (\A t \in Txns : Sound(work[t])) /\ HeldStands
  BY <1>1 DEF Sound, HeldStands, NoWork
<1> QED
  BY <1>2, <1>3 DEF OffersInv

LEMMA NextInv == OffersInv /\ [Next]_vars => OffersInv'
<1> SUFFICES ASSUME OffersInv, [Next]_vars PROVE OffersInv'
  OBVIOUS
<1>1. CASE UNCHANGED vars
  BY <1>1 DEF vars, OffersInv, TypeOK, Sound, NewRow, HeldStands, OpenIsUnmatched,
              OneMatchPerOffer, Players, Pending, Ids
<1>2. ASSUME NEW t \in Txns, Insert(t) \/ AcceptCommit(t) \/ RespondWrite(t) \/ ChallengeCommit(t)
      PROVE  OffersInv'
  BY <1>2, InsertInv, AcceptCommitInv, RespondWriteInv, ChallengeCommitInv
<1>3. ASSUME NEW t \in Txns, NEW a \in Users, NEW b \in Users, a # b,
             \/ Invite(t, a, b) \/ Challenge(t, a, b)
             \/ \E m \in DOMAIN matches : Request(t, a, b, m)
      PROVE  OffersInv'
  BY <1>3, InviteInv, ChallengeInv, RequestInv
<1>4. ASSUME NEW t \in Txns, NEW i \in Ids,
             \/ Accept(t, i)
             \/ \E answer \in {"DECLINED", "CANCELED", "EXPIRED"} : Respond(t, i, answer)
      PROVE  OffersInv'
  BY <1>4, AcceptInv, RespondInv
<1>5. ASSUME NEW i \in Ids, DeclineRematch(i) \/ TimePasses(i)
      PROVE  OffersInv'
  BY <1>5, DeclineRematchInv, TimePassesInv
<1>6. ASSUME NEW m \in DOMAIN matches, NEW state \in {"SETTLED", "OVER"}, MatchEnds(m, state)
      PROVE  OffersInv'
  BY <1>6, MatchEndsInv
<1> QED
  BY <1>1, <1>2, <1>3, <1>4, <1>5, <1>6 DEF Next

\* The strengthened invariant of the offers and the transactions open on them.
THEOREM Invariant == Spec => []OffersInv
<1>1. OffersInv /\ [Next]_vars => OffersInv'
  BY NextInv
<1> QED
  BY <1>1, InitInv, PTL DEF Spec

\* Rows refer to rows that are there, offers are made to another player, and
\* matches have two players.
THEOREM TypeCorrect == Spec => []TypeOK
<1>1. OffersInv => TypeOK
  BY DEF OffersInv
<1> QED
  BY <1>1, Invariant, PTL

\* However accepts, declines, cancels and expiries of friend invites and rematches
\* race, an offer leads both its players to one match.
THEOREM OneMatchHolds == Spec => []OneMatchPerOffer
<1>1. OffersInv => OneMatchPerOffer
  BY DEF OffersInv
<1> QED
  BY <1>1, Invariant, PTL
=============================================================================
