-------------------------- MODULE CooperativeProofs --------------------------
(***************************************************************************)
(* Proofs about Cooperative, for any players, parties and matches and any   *)
(* number of requests in flight: the rows keep their types (TypeCorrect),   *)
(* and money moves once (MoneyMovesOnceHolds), whatever requests of the     *)
(* parties, confirmations, expiries and boards overlap.                     *)
(***************************************************************************)
EXTENDS Cooperative, FiniteSetTheorems, SequenceTheorems, TLAPS

-----------------------------------------------------------------------------
(* Requests in flight *)

\* What the bag of the requests holds after one is added and one is taken.
LEMMA AddedRequest == ASSUME NEW B, NEW r PROVE BagToSet(BagAdd(B, r)) = BagToSet(B) \union {r}
  BY DEF BagAdd, BagToSet

LEMMA TakenRequest == ASSUME NEW B, NEW r PROVE BagToSet(BagRemove(B, r)) \subseteq BagToSet(B)
  BY DEF BagRemove, BagToSet

LEMMA Asked ==
  ASSUME NEW r, Ask(r) PROVE BagToSet(asking') = BagToSet(asking) \union {r}
  BY AddedRequest DEF Ask

LEMMA Taken ==
  ASSUME NEW r, NEW op, Answers(r, op)
  PROVE  r \in BagToSet(asking) /\ r.op = op /\ BagToSet(asking') \subseteq BagToSet(asking)
  BY TakenRequest DEF Answers, BagIn

\* What a request remembers, by its kind.
LEMMA Remembered ==
  ASSUME NEW r \in Request
  PROVE  /\ r.op = "create" => r.user \in Users
         /\ r.op = "invite" => r.party \in Parties /\ r.user \in Users
         /\ r.op = "accept" => r.invite \in InviteRow
         /\ r.op = "leave" => /\ r.party \in Parties /\ r.user \in Users
                             /\ r.host \in BOOLEAN /\ r.heir \in Users \union {NoUser}
         /\ r.op = "queue" => r.party \in Parties /\ r.mode \in Modes
         /\ r.op = "cancel" => /\ r.party \in Parties /\ r.user \in Users
                              /\ r.status \in {"READY", "CREATED"}
         /\ r.op = "confirm" => r.match \in Matches /\ r.mine \in SUBSET Users
         /\ r.op = "counted" => /\ r.match \in Matches /\ r.mine \in SUBSET Users
                               /\ r.all \in BOOLEAN
  BY DEF Request

-----------------------------------------------------------------------------
(* The parties *)

\* Who leaves is gone from the seats; the others keep theirs, in order.
LEMMA Removed ==
  ASSUME NEW S, NEW s \in Seq(S), NEW i \in DOMAIN s,
         \A j, k \in DOMAIN s : s[j] = s[k] => j = k
  PROVE  /\ RemoveAt(s, i) \in Seq(S)
         /\ Len(RemoveAt(s, i)) = Len(s) - 1
         /\ ToSet(RemoveAt(s, i)) = ToSet(s) \ {s[i]}
         /\ \A j, k \in DOMAIN RemoveAt(s, i) : RemoveAt(s, i)[j] = RemoveAt(s, i)[k] => j = k
         /\ RemoveAt(s, i) # <<>> => Head(RemoveAt(s, i)) \in ToSet(RemoveAt(s, i))
<1> DEFINE r == RemoveAt(s, i)
<1>1. /\ Len(s) \in Nat /\ DOMAIN s = 1 .. Len(s) /\ i \in 1 .. Len(s)
      /\ \A j \in 1 .. Len(s) : s[j] \in S
  OBVIOUS
<1>2. /\ r \in Seq(S) /\ Len(r) = Len(s) - 1
      /\ \A j \in 1 .. Len(s) - 1 : r[j] = IF j < i THEN s[j] ELSE s[j + 1]
  <2>1. /\ SubSeq(s, 1, i - 1) \in Seq(S) /\ Len(SubSeq(s, 1, i - 1)) = i - 1
        /\ \A j \in 1 .. i - 1 : SubSeq(s, 1, i - 1)[j] = s[j]
    BY <1>1
  <2>2. /\ SubSeq(s, i + 1, Len(s)) \in Seq(S) /\ Len(SubSeq(s, i + 1, Len(s))) = Len(s) - i
        /\ \A j \in 1 .. Len(s) - i : SubSeq(s, i + 1, Len(s))[j] = s[i + j]
    BY <1>1
  <2> DEFINE a == SubSeq(s, 1, i - 1)
             b == SubSeq(s, i + 1, Len(s))
  <2>3. r = a \o b
    BY DEF RemoveAt
  <2> HIDE DEF a, b, r
  <2>4. a \in Seq(S) /\ b \in Seq(S) /\ Len(a) = i - 1 /\ Len(b) = Len(s) - i
    BY <2>1, <2>2 DEF a, b
  <2>5. /\ r \in Seq(S) /\ Len(r) = Len(s) - 1
        /\ \A j \in 1 .. Len(a) + Len(b) : r[j] = IF j <= Len(a) THEN a[j] ELSE b[j - Len(a)]
    <3>1. /\ a \o b \in Seq(S) /\ Len(a \o b) = Len(a) + Len(b)
          /\ \A j \in 1 .. Len(a) + Len(b) :
               (a \o b)[j] = IF j <= Len(a) THEN a[j] ELSE b[j - Len(a)]
      BY SMTT(30), <2>4, ConcatProperties
    <3>2. Len(a) + Len(b) = Len(s) - 1
      BY <1>1, <2>4
    <3> QED
      BY <2>3, <3>1, <3>2
  <2>6. ASSUME NEW j \in 1 .. Len(s) - 1, j < i PROVE r[j] = s[j]
    <3>1. r[j] = a[j]
      <4>1. j \in 1 .. Len(a) + Len(b) /\ j <= Len(a)
        BY <1>1, <2>4, <2>6
      <4> QED
        BY <2>5, <4>1
    <3> QED
      BY <1>1, <2>1, <2>6, <3>1 DEF a
  <2>7. ASSUME NEW j \in 1 .. Len(s) - 1, ~(j < i) PROVE r[j] = s[j + 1]
    <3>1. r[j] = b[j - (i - 1)]
      <4>1. j \in 1 .. Len(a) + Len(b) /\ ~(j <= Len(a)) /\ Len(a) = i - 1
        BY <1>1, <2>4, <2>7
      <4> QED
        BY <2>5, <4>1
    <3>2. j - (i - 1) \in 1 .. Len(s) - i /\ i + (j - (i - 1)) = j + 1
      BY <1>1, <2>7
    <3>3. b[j - (i - 1)] = s[i + (j - (i - 1))]
      BY <2>2, <3>2 DEF b
    <3> QED
      BY <3>1, <3>2, <3>3
  <2> QED
    BY <2>5, <2>6, <2>7
<1> HIDE DEF r
<1>3. DOMAIN r = 1 .. Len(s) - 1
  BY <1>1, <1>2
<1>4. \A j, k \in DOMAIN r : r[j] = r[k] => j = k
  BY SMTT(30), <1>1, <1>2, <1>3
<1>5. ToSet(r) = ToSet(s) \ {s[i]}
  <2>1. ASSUME NEW j \in DOMAIN r PROVE r[j] \in ToSet(s) \ {s[i]}
    BY <1>1, <1>2, <1>3 DEF ToSet
  <2>2. ASSUME NEW j \in DOMAIN s, s[j] # s[i] PROVE \E k \in DOMAIN r : r[k] = s[j]
    <3>1. CASE j < i
      BY <1>1, <1>2, <1>3, <3>1
    <3>2. CASE j > i
      <4>1. j - 1 \in DOMAIN r /\ r[j - 1] = s[j]
        BY <1>1, <1>2, <1>3, <3>2
      <4> QED
        BY <4>1
    <3> QED
      BY <1>1, <2>2, <3>1, <3>2
  <2> QED
    BY <2>1, <2>2 DEF ToSet
<1>6. r # <<>> => Head(r) \in ToSet(r)
  BY <1>2, <1>3 DEF ToSet
<1> QED
  BY <1>2, <1>4, <1>5, <1>6 DEF r

\* Who joins takes the last seat.
LEMMA Appended ==
  ASSUME NEW S, NEW s \in Seq(S), NEW u \in S, u \notin ToSet(s),
         \A j, k \in DOMAIN s : s[j] = s[k] => j = k
  PROVE  /\ Append(s, u) \in Seq(S)
         /\ Len(Append(s, u)) = Len(s) + 1
         /\ ToSet(Append(s, u)) = ToSet(s) \union {u}
         /\ \A j, k \in DOMAIN Append(s, u) : Append(s, u)[j] = Append(s, u)[k] => j = k
<1>1. /\ Append(s, u) \in Seq(S) /\ Len(Append(s, u)) = Len(s) + 1
      /\ DOMAIN s = 1 .. Len(s) /\ DOMAIN Append(s, u) = 1 .. Len(s) + 1 /\ Len(s) \in Nat
      /\ Append(s, u)[Len(s) + 1] = u
      /\ \A j \in 1 .. Len(s) : Append(s, u)[j] = s[j]
  OBVIOUS
<1>2. \A j \in DOMAIN s : s[j] # u
  BY DEF ToSet
<1> QED
  BY <1>1, <1>2 DEF ToSet

\* The statuses a handler gives a party without opening it.
LEMMA GivenStatus ==
  ASSUME NEW row \in PartyRow, NEW st \in ActivePartyStatuses \union {"NONE", "EXPIRED", "CLOSED"}
  PROVE  [row EXCEPT !.status = st] \in PartyRow
  BY DEF PartyRow

\* Who is taken out of a party's members is gone, the others keep their seats;
\* where nobody is, nothing changes.
LEMMA Unseated ==
  ASSUME NEW S, NEW s \in Seq(S), NEW u, \A j, k \in DOMAIN s : s[j] = s[k] => j = k
  PROVE  /\ Without(s, u) \in Seq(S)
         /\ ToSet(Without(s, u)) = ToSet(s) \ {u}
         /\ \A j, k \in DOMAIN Without(s, u) : Without(s, u)[j] = Without(s, u)[k] => j = k
         /\ Without(s, u) # <<>> => Head(Without(s, u)) \in ToSet(s)
<1>1. CASE u \in ToSet(s)
  <2> DEFINE i == CHOOSE i \in DOMAIN s : s[i] = u
  <2>1. \E k \in DOMAIN s : s[k] = u
    BY <1>1 DEF ToSet
  <2>2. i \in DOMAIN s /\ s[i] = u
    BY <2>1
  <2>3. Without(s, u) = RemoveAt(s, i)
    BY <1>1 DEF Without
  <2> HIDE DEF i
  <2> QED
    BY <2>2, <2>3, Removed
<1>2. CASE u \notin ToSet(s)
  <2>1. Without(s, u) = s
    BY <1>2 DEF Without
  <2>2. s # <<>> => Head(s) \in ToSet(s)
    BY DEF ToSet
  <2> QED
    BY <1>2, <2>1, <2>2
<1> QED
  BY <1>1, <1>2

\* Nobody changes seats.
LEMMA Rows ==
  ASSUME LobbyInv, party' \in [Parties -> PartyRow], UNCHANGED <<members, left>>,
         invites' \subseteq InviteRow, BagToSet(asking') \subseteq Request
  PROVE  LobbyInv'
  BY DEF LobbyInv, LobbyTypeOK, SeatsOnce

\* One party has other members, none of whom has left it.
LEMMA Reseated ==
  ASSUME LobbyInv, NEW p \in Parties, NEW s \in Seq(Users), NEW gone \in SUBSET Users,
         members' = [members EXCEPT ![p] = s], left' = [left EXCEPT ![p] = gone],
         ToSet(s) \cap gone = {}, \A j, k \in DOMAIN s : s[j] = s[k] => j = k,
         invites' \subseteq InviteRow, party' \in [Parties -> PartyRow],
         BagToSet(asking') \subseteq Request
  PROVE  LobbyInv'
<1>1. /\ members' \in [Parties -> Seq(Users)] /\ members'[p] = s
      /\ \A q \in Parties : q # p => members'[q] = members[q]
  BY DEF LobbyInv, LobbyTypeOK
<1>2. /\ left' \in [Parties -> SUBSET Users] /\ left'[p] = gone
      /\ \A q \in Parties : q # p => left'[q] = left[q]
  BY DEF LobbyInv, LobbyTypeOK
<1>3. LobbyTypeOK'
  BY <1>1, <1>2 DEF LobbyInv, LobbyTypeOK
<1>4. SeatsOnce'
  <2>1. ASSUME NEW q \in Parties
        PROVE  \A j, k \in DOMAIN members'[q] : members'[q][j] = members'[q][k] => j = k
    <3>1. CASE q = p
      BY <1>1, <3>1
    <3>2. CASE q # p
      BY <1>1, <3>2 DEF LobbyInv, SeatsOnce
    <3> QED
      BY <3>1, <3>2
  <2> QED
    BY <2>1 DEF SeatsOnce
<1> QED
  BY <1>3, <1>4 DEF LobbyInv

LEMMA LobbyTyped ==
  ASSUME LobbyInv
  PROVE  /\ party \in [Parties -> PartyRow] /\ members \in [Parties -> Seq(Users)]
         /\ left \in [Parties -> SUBSET Users] /\ invites \subseteq InviteRow
         /\ \A p \in Parties : ToSet(members[p]) \cap left[p] = {}
         /\ \A p \in Parties : \A j, k \in DOMAIN members[p] : members[p][j] = members[p][k] => j = k
         /\ BagToSet(asking) \subseteq Request
  BY DEF LobbyInv, LobbyTypeOK, SeatsOnce

\* Overdue parties expire, and the rows keep their types.
LEMMA SweptRows ==
  ASSUME NEW rows \in [Parties -> PartyRow], NEW late
  PROVE  Swept(rows, late) \in [Parties -> PartyRow]
<1>1. ASSUME NEW p \in Parties PROVE [rows[p] EXCEPT !.status = "EXPIRED"] \in PartyRow
  BY GivenStatus
<1> QED
  BY <1>1 DEF Swept

\* A party gets an active status, and then overdue parties expire.
LEMMA RestatedRows ==
  ASSUME LobbyInv, NEW p \in Parties, NEW late,
         NEW st \in ActivePartyStatuses \union {"NONE", "EXPIRED", "CLOSED"}
  PROVE  /\ [party EXCEPT ![p].status = st] \in [Parties -> PartyRow]
         /\ Swept([party EXCEPT ![p].status = st], late) \in [Parties -> PartyRow]
<1> DEFINE rows == [party EXCEPT ![p].status = st]
<1>1. [party[p] EXCEPT !.status = st] \in PartyRow
  BY LobbyTyped, GivenStatus
<1>2. rows \in [Parties -> PartyRow]
  BY <1>1, LobbyTyped
<1> HIDE DEF rows
<1>3. Swept(rows, late) \in [Parties -> PartyRow]
  BY <1>2, SweptRows
<1> QED
  BY <1>2, <1>3 DEF rows

\* A request that only reads the rows of the parties.
LEMMA ReadLobby ==
  ASSUME LobbyInv, NEW r \in Request, Ask(r), UNCHANGED <<members, left, invites>>,
         party' \in [Parties -> PartyRow]
  PROVE  LobbyInv'
<1>1. BagToSet(asking') \subseteq Request
  BY Asked, LobbyTyped
<1> QED
  BY <1>1, LobbyTyped, Rows

LEMMA ReadCreateLobby ==
  ASSUME LobbyInv, NEW u \in Users, NEW late, ReadForCreate(u, late) PROVE LobbyInv'
<1> DEFINE r == [op |-> "create", user |-> u]
<1>1. r \in Request
  BY DEF Request
<1>2. Ask(r) /\ party' = Swept(party, late) /\ UNCHANGED <<members, left, invites>>
  BY DEF ReadForCreate
<1>3. party' \in [Parties -> PartyRow]
  BY <1>2, LobbyTyped, SweptRows
<1> HIDE DEF r
<1> QED
  BY <1>1, <1>2, <1>3, ReadLobby

\* Every handler of the party service reads what fits the schema.
LEMMA ReadsLobby ==
  ASSUME LobbyInv, NEW u \in Users, NEW p \in Parties, NEW v \in Users, NEW mode \in Modes,
         \/ ReadForInvite(u, p, v) \/ ReadForQueue(u, p, mode)
         \/ ReadForCancelQueue(u, p)
  PROVE  LobbyInv'
<1>1. CASE ReadForInvite(u, p, v)
  <2> DEFINE r == [op |-> "invite", party |-> p, user |-> v]
  <2>1. r \in Request
    BY DEF Request
  <2>2. Ask(r) /\ UNCHANGED <<party, members, left, invites>>
    BY <1>1 DEF ReadForInvite, partyVars
  <2> HIDE DEF r
  <2> QED
    BY <2>1, <2>2, LobbyTyped, ReadLobby
<1>2. CASE ReadForQueue(u, p, mode)
  <2> DEFINE r == [op |-> "queue", party |-> p, mode |-> mode]
  <2>1. r \in Request
    BY DEF Request
  <2>2. Ask(r) /\ UNCHANGED <<party, members, left, invites>>
    BY <1>2 DEF ReadForQueue, partyVars
  <2> HIDE DEF r
  <2> QED
    BY <2>1, <2>2, LobbyTyped, ReadLobby
<1>3. CASE ReadForCancelQueue(u, p)
  <2> DEFINE r == [op |-> "cancel", party |-> p, user |-> u,
                   status |-> IF Len(members[p]) > 1 THEN "READY" ELSE "CREATED"]
  <2>1. r \in Request
    BY DEF Request
  <2>2. Ask(r) /\ UNCHANGED <<party, members, left, invites>>
    BY <1>3 DEF ReadForCancelQueue, partyVars
  <2> HIDE DEF r
  <2> QED
    BY <2>1, <2>2, LobbyTyped, ReadLobby
<1> QED
  BY <1>1, <1>2, <1>3

LEMMA ReadAcceptLobby ==
  ASSUME LobbyInv, NEW i \in invites, ReadForAccept(i) PROVE LobbyInv'
<1> DEFINE r == [op |-> "accept", invite |-> i]
<1>1. r \in Request
  BY LobbyTyped DEF Request
<1>2. Ask(r) /\ UNCHANGED <<party, members, left, invites>>
  BY DEF ReadForAccept, partyVars
<1> HIDE DEF r
<1> QED
  BY <1>1, <1>2, LobbyTyped, ReadLobby

LEMMA ReadLeaveLobby ==
  ASSUME LobbyInv, NEW u \in Users, NEW p \in Parties, ReadForLeave(u, p) PROVE LobbyInv'
<1> DEFINE s == members[p]
           r == [op |-> "leave", party |-> p, user |-> u,
                 host |-> party[p].host = u, heir |-> Heir(p, u)]
<1>1. s \in Seq(Users) /\ \A j, k \in DOMAIN s : s[j] = s[k] => j = k
  BY LobbyTyped
<1>2. Heir(p, u) = IF Without(s, u) = <<>> THEN NoUser ELSE Head(Without(s, u))
  BY DEF Heir
<1> HIDE DEF s
<1>3. Heir(p, u) \in Users \union {NoUser}
  <2>1. Without(s, u) # <<>> => Head(Without(s, u)) \in ToSet(s)
    BY <1>1, Unseated
  <2>2. ToSet(s) \subseteq Users
    BY <1>1 DEF ToSet
  <2> QED
    BY <1>2, <2>1, <2>2
<1>4. r \in Request
  BY <1>3 DEF Request
<1>5. Ask(r) /\ UNCHANGED <<party, members, left, invites>>
  BY DEF ReadForLeave, partyVars
<1> HIDE DEF r
<1> QED
  BY <1>4, <1>5, LobbyTyped, ReadLobby

LEMMA CurrentLobby == ASSUME LobbyInv, NEW u, NEW late, Current(u, late) PROVE LobbyInv'
<1>1. party' = Swept(party, late) /\ UNCHANGED <<members, left, invites, asking>>
  BY DEF Current
<1> QED
  BY <1>1, LobbyTyped, SweptRows, Rows

\* A party is created with its host as its only member.
LEMMA CreateLobby ==
  ASSUME LobbyInv, NEW r \in BagToSet(asking), NEW p \in Parties, Create(r, p)
  PROVE  LobbyInv'
<1> DEFINE s == <<r.user>>
           new == [status |-> "CREATED", host |-> r.user]
<1>1. /\ r.user \in Users /\ BagToSet(asking') \subseteq Request
      /\ party' = [party EXCEPT ![p] = new] /\ members' = [members EXCEPT ![p] = s]
      /\ left' = [left EXCEPT ![p] = {}] /\ invites' = invites
  <2>1. Answers(r, "create")
    BY DEF Create
  <2> QED
    BY <2>1, LobbyTyped, Taken, Remembered DEF Create
<1>2. s \in Seq(Users) /\ \A j, k \in DOMAIN s : s[j] = s[k] => j = k
  BY <1>1
<1>3. new \in PartyRow
  BY <1>1 DEF PartyRow, ActivePartyStatuses
<1> HIDE DEF s, new
<1>4. party' \in [Parties -> PartyRow] /\ invites' \subseteq InviteRow
  BY <1>1, <1>3, LobbyTyped
<1> DEFINE gone == {}
<1>5. gone \in SUBSET Users /\ ToSet(s) \cap gone = {} /\ left' = [left EXCEPT ![p] = gone]
  BY <1>1
<1> HIDE DEF gone
<1> QED
  BY <1>1, <1>2, <1>4, <1>5, Reseated

LEMMA AnsweredRow ==
  ASSUME LobbyInv, NEW i \in InviteRow PROVE Answered(i) \subseteq InviteRow
<1>1. invites \subseteq InviteRow /\ [i EXCEPT !.status = "ANSWERED"] \in InviteRow
  BY LobbyTyped DEF InviteRow
<1> QED
  BY <1>1 DEF Answered

LEMMA InviteLobby ==
  ASSUME LobbyInv, NEW r \in BagToSet(asking), Invite(r) PROVE LobbyInv'
<1>1. Answers(r, "invite") /\ UNCHANGED <<party, members, left>>
      /\ invites' = invites \union {Invitation(r.party, r.user, "PENDING")}
  BY DEF Invite
<1>2. /\ r.party \in Parties /\ r.user \in Users /\ BagToSet(asking') \subseteq Request
  BY <1>1, LobbyTyped, Taken, Remembered
<1>3. invites' \subseteq InviteRow
  BY <1>1, <1>2, LobbyTyped DEF Invitation, InviteRow
<1> QED
  BY <1>1, <1>2, <1>3, LobbyTyped, Rows

\* The member row is unique: who takes a seat has none, and has not left.
LEMMA AcceptLobby ==
  ASSUME LobbyInv, NEW r \in BagToSet(asking), NEW late, AcceptInvite(r, late)
  PROVE  LobbyInv'
<1> DEFINE i == r.invite
           p == i.party
           u == i.invitee
           t == members[p]
           s == Append(t, u)
           gone == left[p]
<1>1. Answers(r, "accept")
  BY DEF AcceptInvite
<1>2. i \in InviteRow /\ BagToSet(asking') \subseteq Request
  BY <1>1, LobbyTyped, Taken, Remembered
<1>3. p \in Parties /\ u \in Users
  BY <1>2 DEF InviteRow
<1>4. /\ u \notin ToSet(t) /\ u \notin gone /\ invites' = Answered(i)
      /\ members' = [members EXCEPT ![p] = s] /\ left' = left
      /\ party' = Swept([party EXCEPT ![p].status = "READY"], late)
  BY DEF AcceptInvite, MemberOf
<1>5. /\ t \in Seq(Users) /\ gone \in SUBSET Users /\ ToSet(t) \cap gone = {}
      /\ \A j, k \in DOMAIN t : t[j] = t[k] => j = k
      /\ left' = [left EXCEPT ![p] = gone]
  BY <1>3, <1>4, LobbyTyped
<1> HIDE DEF i
<1>6. invites' \subseteq InviteRow
  BY <1>2, <1>4, AnsweredRow
<1>7. party' \in [Parties -> PartyRow]
  BY <1>3, <1>4, RestatedRows DEF ActivePartyStatuses
<1> HIDE DEF p, u, t, gone
<1>8. /\ s \in Seq(Users) /\ ToSet(s) = ToSet(t) \union {u}
      /\ \A j, k \in DOMAIN s : s[j] = s[k] => j = k
  BY <1>3, <1>4, <1>5, Appended
<1> HIDE DEF s
<1>9. ToSet(s) \cap gone = {}
  BY <1>4, <1>5, <1>8
<1> QED
  BY <1>2, <1>3, <1>4, <1>5, <1>6, <1>7, <1>8, <1>9, Reseated

LEMMA DropInviteLobby ==
  ASSUME LobbyInv, NEW i \in invites, DropInvite(i) PROVE LobbyInv'
<1>1. invites' = Answered(i) /\ UNCHANGED <<party, members, left, asking>> /\ i \in InviteRow
  BY LobbyTyped DEF DropInvite
<1> QED
  BY <1>1, LobbyTyped, AnsweredRow, Rows

\* Who leaves is gone from the seats, whoever else has left since.
LEMMA LeaveLobby ==
  ASSUME LobbyInv, NEW r \in BagToSet(asking), Leave(r) PROVE LobbyInv'
<1> DEFINE p == r.party
           t == members[p]
           s == Without(t, r.user)
           gone == left[p] \union {r.user}
           new == IF r.heir = NoUser THEN [party[p] EXCEPT !.status = "CLOSED"]
                  ELSE IF r.host THEN [party[p] EXCEPT !.host = r.heir]
                  ELSE party[p]
<1>1. Answers(r, "leave")
  BY DEF Leave
<1>2. /\ p \in Parties /\ r.user \in Users /\ r.heir \in Users \union {NoUser}
      /\ BagToSet(asking') \subseteq Request
  BY <1>1, LobbyTyped, Taken, Remembered
<1>3. /\ members' = [members EXCEPT ![p] = s] /\ left' = [left EXCEPT ![p] = gone]
      /\ party' = [party EXCEPT ![p] = new] /\ invites' = invites
  BY DEF Leave
<1>4. /\ t \in Seq(Users) /\ ToSet(t) \cap left[p] = {} /\ gone \in SUBSET Users
      /\ \A j, k \in DOMAIN t : t[j] = t[k] => j = k
      /\ party[p] \in PartyRow /\ invites' \subseteq InviteRow
  BY <1>2, <1>3, LobbyTyped
<1>5. new \in PartyRow
  <2>1. [party[p] EXCEPT !.status = "CLOSED"] \in PartyRow
    BY <1>4, GivenStatus
  <2>2. [party[p] EXCEPT !.host = r.heir] \in PartyRow
    BY <1>2, <1>4 DEF PartyRow
  <2> QED
    BY <1>4, <2>1, <2>2
<1> HIDE DEF new
<1>6. party' \in [Parties -> PartyRow]
  BY <1>2, <1>3, <1>5, LobbyTyped
<1> HIDE DEF t
<1>7. /\ s \in Seq(Users) /\ ToSet(s) = ToSet(t) \ {r.user}
      /\ \A j, k \in DOMAIN s : s[j] = s[k] => j = k
  BY <1>4, Unseated
<1> HIDE DEF s
<1>8. ToSet(s) \cap gone = {}
  BY <1>4, <1>7
<1> HIDE DEF gone, p
<1> QED
  BY <1>2, <1>3, <1>4, <1>6, <1>7, <1>8, Reseated

LEMMA QueueLobby ==
  ASSUME LobbyInv, NEW r \in BagToSet(asking), Queue(r) PROVE LobbyInv'
<1>1. /\ Answers(r, "queue") /\ UNCHANGED <<members, left, invites>>
      /\ party' = [party EXCEPT ![r.party].status = "QUEUED"]
  BY DEF Queue
<1>2. r.party \in Parties /\ BagToSet(asking') \subseteq Request
  BY <1>1, LobbyTyped, Taken, Remembered
<1>3. party' \in [Parties -> PartyRow]
  BY <1>1, <1>2, RestatedRows DEF ActivePartyStatuses
<1> QED
  BY <1>1, <1>2, <1>3, LobbyTyped, Rows

LEMMA CancelLobby ==
  ASSUME LobbyInv, NEW r \in BagToSet(asking), NEW late, CancelQueue(r, late) PROVE LobbyInv'
<1>1. /\ Answers(r, "cancel") /\ UNCHANGED <<members, left, invites>>
      /\ party' = Swept([party EXCEPT ![r.party].status = r.status], late)
  BY DEF CancelQueue
<1>2. r.party \in Parties /\ r.status \in {"READY", "CREATED"} /\ BagToSet(asking') \subseteq Request
  BY <1>1, LobbyTyped, Taken, Remembered
<1>3. party' \in [Parties -> PartyRow]
  BY <1>1, <1>2, RestatedRows DEF ActivePartyStatuses
<1> QED
  BY <1>1, <1>2, <1>3, LobbyTyped, Rows

LEMMA DropLobby == ASSUME LobbyInv, NEW r, Drop(r) PROVE LobbyInv'
<1>1. BagToSet(asking') \subseteq BagToSet(asking) /\ UNCHANGED <<party, members, left, invites>>
  BY TakenRequest DEF Drop, partyVars
<1> QED
  BY <1>1, LobbyTyped, Rows

\* A match gives some parties another status.
LEMMA PlayedLobby ==
  ASSUME LobbyInv, UNCHANGED <<members, left, invites>>, NEW some,
         NEW st \in ActivePartyStatuses, BagToSet(asking') \subseteq Request,
         party' = [p \in Parties |-> IF p \in some THEN [party[p] EXCEPT !.status = st] ELSE party[p]]
  PROVE  LobbyInv'
<1>1. ASSUME NEW p \in Parties PROVE party'[p] \in PartyRow
  BY LobbyTyped, GivenStatus
<1>2. party' \in [Parties -> PartyRow]
  BY <1>1
<1> QED
  BY <1>2, LobbyTyped, Rows

LEMMA ClaimLobby ==
  ASSUME LobbyInv, NEW m, NEW chosen \in SUBSET Parties, NEW mode, Claim(m, chosen, mode)
  PROVE  LobbyInv'
<1>1. /\ UNCHANGED <<members, left, invites, asking>>
      /\ party' = [p \in Parties |-> IF p \in chosen
                    THEN [party[p] EXCEPT !.status = "MATCH_FOUND"] ELSE party[p]]
  BY DEF Claim
<1> QED
  BY <1>1, LobbyTyped, PlayedLobby DEF ActivePartyStatuses

\* The host of a party confirms for every player of the match, the others for
\* themselves.
LEMMA ReadConfirmLobby ==
  ASSUME LobbyInv, MatchTypeOK, NEW u \in Users, NEW m \in Matches, ReadForConfirm(u, m)
  PROVE  LobbyInv'
<1> DEFINE mine == IF \E p \in coop[m].parties : party[p].host = u THEN coop[m].humans ELSE {u}
           r == [op |-> "confirm", match |-> m, mine |-> mine]
<1>1. mine \in SUBSET Users
  BY DEF MatchTypeOK, CoopRow
<1> HIDE DEF mine
<1>2. r \in Request
  BY <1>1 DEF Request
<1>3. Ask(r) /\ UNCHANGED <<party, members, left, invites>>
  BY DEF ReadForConfirm, partyVars, mine
<1> HIDE DEF r
<1> QED
  BY <1>2, <1>3, LobbyTyped, ReadLobby

LEMMA CountLobby ==
  ASSUME LobbyInv, NEW r \in BagToSet(asking), Count(r) PROVE LobbyInv'
<1> DEFINE rest == BagRemove(asking, r)
           all == confirmed[r.match] \union r.mine = coop[r.match].humans
           c == [op |-> "counted", match |-> r.match, mine |-> r.mine, all |-> all]
<1>1. /\ r.op = "confirm" /\ asking' = BagAdd(rest, c)
      /\ UNCHANGED <<party, members, left, invites>>
  BY DEF Count, partyVars
<1>2. r.match \in Matches /\ r.mine \in SUBSET Users
  BY <1>1, LobbyTyped, Remembered
<1>3. c \in Request
  BY <1>2 DEF Request
<1> HIDE DEF c, all
<1>4. BagToSet(asking') \subseteq Request
  BY <1>1, <1>3, LobbyTyped, AddedRequest, TakenRequest
<1> QED
  BY <1>1, <1>4, LobbyTyped, Rows

LEMMA ConfirmLobby ==
  ASSUME LobbyInv, NEW r \in BagToSet(asking), Confirm(r) PROVE LobbyInv'
<1> DEFINE some == {p \in Parties : party[p].status = "MATCH_FOUND"
                                    /\ ToSet(members[p]) \cap coop[r.match].humans # {}}
<1>1. /\ Answers(r, "counted") /\ UNCHANGED <<members, left, invites>>
      /\ \/ party' = party
         \/ party' = [p \in Parties |-> IF p \in some
                    THEN [party[p] EXCEPT !.status = "IN_MATCH"] ELSE party[p]]
  BY DEF Confirm
<1> HIDE DEF some
<1>2. BagToSet(asking') \subseteq Request
  BY <1>1, LobbyTyped, Taken
<1>3. CASE party' = party
  BY <1>1, <1>2, <1>3, LobbyTyped, Rows
<1> QED
  BY <1>1, <1>2, <1>3, PlayedLobby DEF ActivePartyStatuses

LEMMA ExpireLobby ==
  ASSUME LobbyInv, NEW m, Expire(m) PROVE LobbyInv'
<1> DEFINE some == {p \in Parties : p \in coop[m].parties /\ party[p].status = "MATCH_FOUND"}
<1>1. /\ UNCHANGED <<members, left, invites, asking>>
      /\ party' = [p \in Parties |-> IF p \in some
                    THEN [party[p] EXCEPT !.status = "READY"] ELSE party[p]]
  BY DEF Expire
<1> HIDE DEF some
<1> QED
  BY <1>1, LobbyTyped, PlayedLobby DEF ActivePartyStatuses

LEMMA SettleLobby ==
  ASSUME LobbyInv, NEW m, NEW winners, Settle(m, winners) PROVE LobbyInv'
<1> DEFINE some == {p \in Parties : p \in coop[m].parties
                                    /\ party[p].status \in {"MATCH_FOUND", "IN_MATCH"}}
<1>1. /\ UNCHANGED <<members, left, invites, asking>>
      /\ party' = [p \in Parties |-> IF p \in some
                    THEN [party[p] EXCEPT !.status = "READY"] ELSE party[p]]
  BY DEF Settle
<1> HIDE DEF some
<1> QED
  BY <1>1, LobbyTyped, PlayedLobby DEF ActivePartyStatuses

LEMMA SameLobby ==
  ASSUME LobbyInv, UNCHANGED <<partyVars, asking>> PROVE LobbyInv'
  BY LobbyTyped, Rows DEF partyVars

LEMMA InitLobby == Init => LobbyInv
<1> SUFFICES ASSUME Init PROVE LobbyInv
  OBVIOUS
<1>1. \A p \in Parties : /\ party[p] = [status |-> "NONE", host |-> NoUser]
                          /\ members[p] = <<>> /\ left[p] = {}
  BY DEF Init
<1>2. party \in [Parties -> PartyRow]
  BY DEF Init, PartyRow
<1>3. members \in [Parties -> Seq(Users)] /\ left \in [Parties -> SUBSET Users] /\ invites \subseteq InviteRow
  BY DEF Init
<1>4. BagToSet(asking) \subseteq Request
  BY DEF Init, EmptyBag, SetToBag, BagToSet
<1>5. LobbyTypeOK /\ SeatsOnce
  BY <1>1, <1>2, <1>3, <1>4 DEF LobbyTypeOK, SeatsOnce
<1> QED
  BY <1>5 DEF LobbyInv

LEMMA NextLobby == LobbyInv /\ MatchTypeOK /\ [Next]_vars => LobbyInv'
<1> SUFFICES ASSUME LobbyInv, MatchTypeOK, [Next]_vars PROVE LobbyInv'
  OBVIOUS
<1>1. CASE UNCHANGED vars
  BY <1>1, SameLobby DEF vars
<1>2. CASE Lobby
  <2>1. ASSUME NEW u \in Users, NEW late, Current(u, late) \/ ReadForCreate(u, late) PROVE LobbyInv'
    <3>1. CASE Current(u, late)
      BY <3>1, CurrentLobby
    <3>2. CASE ReadForCreate(u, late)
      BY <3>2, ReadCreateLobby
    <3> QED
      BY <2>1, <3>1, <3>2
  <2>2. ASSUME NEW r \in BagToSet(asking), NEW late, AcceptInvite(r, late) \/ CancelQueue(r, late)
        PROVE  LobbyInv'
    BY <2>2, AcceptLobby, CancelLobby
  <2>3. ASSUME NEW u \in Users, NEW p \in Parties, ReadForLeave(u, p) \/ ReadForCancelQueue(u, p)
        PROVE  LobbyInv'
    <3>1. "RANDOM" \in Modes
      BY DEF Modes
    <3> QED
      BY <2>3, <3>1, ReadsLobby, ReadLeaveLobby
  <2>4. ASSUME NEW u \in Users, NEW p \in Parties, NEW v \in Users, ReadForInvite(u, p, v)
        PROVE  LobbyInv'
    <3>1. "RANDOM" \in Modes
      BY DEF Modes
    <3> QED
      BY <2>4, <3>1, ReadsLobby
  <2>5. ASSUME NEW u \in Users, NEW p \in Parties, NEW mode \in Modes, ReadForQueue(u, p, mode)
        PROVE  LobbyInv'
    BY <2>5, ReadsLobby
  <2>6. ASSUME NEW i \in invites, ReadForAccept(i) \/ DropInvite(i) PROVE LobbyInv'
    BY <2>6, ReadAcceptLobby, DropInviteLobby
  <2>7. ASSUME NEW r \in BagToSet(asking), NEW p \in Parties, Create(r, p) PROVE LobbyInv'
    BY <2>7, CreateLobby
  <2>8. ASSUME NEW r \in BagToSet(asking), Invite(r) \/ Leave(r) \/ Queue(r) \/ Drop(r)
        PROVE  LobbyInv'
    BY <2>8, InviteLobby, LeaveLobby, QueueLobby, DropLobby
  <2> QED
    BY <1>2, <2>1, <2>2, <2>3, <2>4, <2>5, <2>6, <2>7, <2>8 DEF Lobby
<1>3. CASE Play
  <2>1. ASSUME NEW u, NEW m, Start(u, m) PROVE LobbyInv'
    BY <2>1, SameLobby DEF Start
  <2>2. ASSUME NEW m, DeadlinePasses(m) \/ ReadForExpiry(m) \/ Finish(m) \/ Withhold(m) \/ FlagReview(m)
        PROVE  LobbyInv'
    BY <2>2, SameLobby DEF DeadlinePasses, ReadForExpiry, Finish, Withhold, FlagReview
  <2> QED
    BY <1>3, <2>1, <2>2, ClaimLobby, ReadConfirmLobby, CountLobby, ConfirmLobby, ExpireLobby,
       SettleLobby DEF Play
<1> QED
  BY <1>1, <1>2, <1>3 DEF Next

-----------------------------------------------------------------------------
(* The rows of the matches *)

LEMMA SweptEntriesTyped ==
  ASSUME NEW ent \in [Parties -> [Modes -> EntryRow]], NEW u
  PROVE  SweptEntries(ent, u) \in [Parties -> [Modes -> EntryRow]]
  BY DEF SweptEntries, EntryRow

LEMMA FreedEntriesTyped ==
  ASSUME MatchInv, NEW m
  PROVE  FreedEntries(m) \in [Parties -> [Modes -> EntryRow]]
  BY DEF FreedEntries, EntryRow, MatchInv, MatchTypeOK

LEMMA MatchTyped ==
  ASSUME MatchInv
  PROVE  /\ entry \in [Parties -> [Modes -> EntryRow]] /\ coop \in [Matches -> CoopRow]
         /\ confirmed \in [Matches -> SUBSET Users] /\ ready \in [Matches -> SUBSET Users]
         /\ \A n \in Matches : confirmed[n] \union ready[n] \subseteq coop[n].humans
         /\ board \in [Matches -> {"NONE", "ACTIVE", "FINISHED", "SETTLED"}]
         /\ debits \in [Matches -> [Users -> Nat]]
         /\ credits \in [Matches -> [Users -> SUBSET {"PAYOUT", "REFUND"}]]
         /\ overdue \union expiring \subseteq Matches
  BY DEF MatchInv, MatchTypeOK

\* A request in flight stays as good as it was, when matches that were created
\* stay created with their players and confirmations are only added.
LEMMA StillBacked ==
  ASSUME LobbyTypeOK, MatchInv, NEW r \in BagToSet(asking),
         \A n \in Matches : coop[n].status # "NONE" =>
             /\ coop'[n].status # "NONE" /\ coop'[n].humans = coop[n].humans
             /\ confirmed[n] \subseteq confirmed'[n] /\ confirmed'[n] \subseteq coop'[n].humans
  PROVE  Backed(r)'
<1> SUFFICES ASSUME r.op \in Confirming
             PROVE  /\ coop'[r.match].status # "NONE" /\ r.mine \subseteq coop'[r.match].humans
                    /\ r.op = "counted" /\ r.all
                          => confirmed'[r.match] \union r.mine = coop'[r.match].humans
  BY DEF Backed
<1>1. r \in Request
  BY DEF LobbyTypeOK
<1>2. r.match \in Matches
  BY <1>1, Remembered DEF Confirming
<1>3. /\ coop[r.match].status # "NONE" /\ r.mine \subseteq coop[r.match].humans
      /\ r.op = "counted" /\ r.all => confirmed[r.match] \union r.mine = coop[r.match].humans
  BY DEF MatchInv, Backed
<1> QED
  BY <1>2, <1>3

\* The requests a step leaves or adds to those in flight.
Asking(new) == BagToSet(asking') \subseteq BagToSet(asking) \union new

\* The queue entries are rows of their own, and no request of the party
\* service is a confirmation.
LEMMA QueueMoves ==
  ASSUME MatchInv, UNCHANGED matchVars, entry' \in [Parties -> [Modes -> EntryRow]],
         NEW new, Asking(new), \A r \in new : r.op \notin Confirming
  PROVE  MatchInv'
<1>1. MatchTypeOK' /\ \A m \in Matches : coop'[m].status = "NONE" => coop'[m].humans = {} /\ board'[m] = "NONE"
  BY DEF matchVars, MatchInv, MatchTypeOK
<1>2. \A r \in BagToSet(asking') : Backed(r)'
  BY DEF matchVars, MatchInv, Backed, Asking
<1> QED
  BY <1>1, <1>2 DEF MatchInv

LEMMA AskedFor ==
  ASSUME NEW r, Ask(r) PROVE Asking({r})
  BY Asked DEF Asking

LEMMA AnsweredTo ==
  ASSUME NEW r, NEW op, Answers(r, op) PROVE Asking({})
  BY Taken DEF Asking

LEMMA LobbyMatch == ASSUME LobbyTypeOK, MatchInv, Lobby PROVE MatchInv'
<1>1. entry \in [Parties -> [Modes -> EntryRow]]
  BY MatchTyped
<1>2. ASSUME NEW u, NEW late, Current(u, late) PROVE MatchInv'
  <2>1. Asking({})
    BY <1>2 DEF Current, Asking
  <2> QED
    BY <1>1, <1>2, <2>1, SweptEntriesTyped, QueueMoves DEF Current
<1>3. ASSUME NEW u, NEW late, ReadForCreate(u, late) PROVE MatchInv'
  <2> DEFINE r == [op |-> "create", user |-> u]
  <2>1. Ask(r) /\ entry' = SweptEntries(entry, u) /\ UNCHANGED matchVars /\ r.op \notin Confirming
    BY <1>3 DEF ReadForCreate, Confirming
  <2> HIDE DEF r
  <2> QED
    BY <1>1, <2>1, SweptEntriesTyped, AskedFor, QueueMoves
<1>4. ASSUME NEW r, UNCHANGED <<entry, matchVars>>, Ask(r), r.op \notin Confirming PROVE MatchInv'
  BY <1>1, <1>4, AskedFor, QueueMoves
<1>5. ASSUME NEW u, NEW p, NEW v, NEW mode, NEW i,
             \/ ReadForInvite(u, p, v) \/ ReadForAccept(i) \/ ReadForLeave(u, p)
             \/ ReadForQueue(u, p, mode) \/ ReadForCancelQueue(u, p)
      PROVE  MatchInv'
  <2>1. CASE ReadForInvite(u, p, v)
    BY <1>4, <2>1 DEF ReadForInvite, Confirming
  <2>2. CASE ReadForAccept(i)
    BY <1>4, <2>2 DEF ReadForAccept, Confirming
  <2>3. CASE ReadForLeave(u, p)
    BY <1>4, <2>3 DEF ReadForLeave, Confirming
  <2>4. CASE ReadForQueue(u, p, mode)
    BY <1>4, <2>4 DEF ReadForQueue, Confirming
  <2>5. CASE ReadForCancelQueue(u, p)
    BY <1>4, <2>5 DEF ReadForCancelQueue, Confirming
  <2> QED
    BY <1>5, <2>1, <2>2, <2>3, <2>4, <2>5
<1>6. ASSUME NEW i, DropInvite(i) PROVE MatchInv'
  <2>1. Asking({}) /\ UNCHANGED <<entry, matchVars>>
    BY <1>6 DEF DropInvite, Asking
  <2> QED
    BY <1>1, <2>1, QueueMoves
<1>7. ASSUME NEW r, Asking({}), UNCHANGED <<entry, matchVars>> PROVE MatchInv'
  BY <1>1, <1>7, QueueMoves
<1>8. ASSUME NEW r, NEW p, Create(r, p) \/ Invite(r) \/ Leave(r) PROVE MatchInv'
  BY <1>7, <1>8, AnsweredTo DEF Create, Invite, Leave
<1>9. ASSUME NEW r, Drop(r) PROVE MatchInv'
  BY <1>7, <1>9, TakenRequest DEF Drop, Asking
<1>10. ASSUME NEW r, NEW late, AcceptInvite(r, late) PROVE MatchInv'
  BY <1>1, <1>10, AnsweredTo, SweptEntriesTyped, QueueMoves DEF AcceptInvite
<1>11. ASSUME NEW r \in BagToSet(asking), Queue(r) PROVE MatchInv'
  <2>1. /\ r.op = "queue" /\ Asking({}) /\ UNCHANGED matchVars
        /\ entry' = [entry EXCEPT ![r.party][r.mode] = Searching]
    BY <1>11, Taken, AnsweredTo DEF Queue
  <2>2. r \in Request
    BY DEF LobbyTypeOK
  <2>3. r.party \in Parties /\ r.mode \in Modes
    BY <2>1, <2>2, Remembered
  <2>4. entry' \in [Parties -> [Modes -> EntryRow]]
    BY <1>1, <2>1, <2>3 DEF EntryRow
  <2> QED
    BY <2>1, <2>4, QueueMoves
<1>12. ASSUME NEW r \in BagToSet(asking), NEW late, CancelQueue(r, late) PROVE MatchInv'
  <2> DEFINE p == r.party
             row == [mode \in Modes |-> IF entry[p][mode] = Searching THEN NoEntry ELSE entry[p][mode]]
             ent == [entry EXCEPT ![p] = row]
  <2>1. r.op = "cancel" /\ Asking({}) /\ entry' = SweptEntries(ent, r.user) /\ UNCHANGED matchVars
    BY <1>12, Taken, AnsweredTo DEF CancelQueue
  <2>2. r \in Request
    BY DEF LobbyTypeOK
  <2>3. p \in Parties
    BY <2>1, <2>2, Remembered
  <2> HIDE DEF p
  <2>4. row \in [Modes -> EntryRow]
    BY <1>1, <2>3 DEF EntryRow
  <2> HIDE DEF row
  <2>5. ent \in [Parties -> [Modes -> EntryRow]]
    BY <1>1, <2>4
  <2> HIDE DEF ent
  <2> QED
    BY <2>1, <2>5, SweptEntriesTyped, QueueMoves
<1>13. ASSUME NEW u \in Users, NEW p \in Parties, ReadForLeave(u, p) \/ ReadForCancelQueue(u, p)
       PROVE  MatchInv'
  BY <1>5, <1>13
<1>14. ASSUME NEW u \in Users, NEW p \in Parties, NEW v \in Users, ReadForInvite(u, p, v) PROVE MatchInv'
  BY <1>5, <1>14
<1>15. ASSUME NEW u \in Users, NEW p \in Parties, NEW mode \in Modes, ReadForQueue(u, p, mode)
       PROVE  MatchInv'
  BY <1>5, <1>15
<1>16. ASSUME NEW i \in invites, ReadForAccept(i) PROVE MatchInv'
  BY <1>5, <1>16
<1> QED
  BY <1>2, <1>3, <1>6, <1>8, <1>9, <1>10, <1>11, <1>12, <1>13, <1>14, <1>15, <1>16 DEF Lobby

\* A match gets another status, its players and the entries of its parties do
\* not change hands.
LEMMA Rewritten ==
  ASSUME LobbyTypeOK, MatchInv, NEW m \in Matches, NEW new \in CoopRow,
         coop' = [coop EXCEPT ![m] = new],
         new.humans = coop[m].humans, new.status = "NONE" => coop[m].status = "NONE",
         entry' \in [Parties -> [Modes -> EntryRow]],
         confirmed' \in [Matches -> SUBSET Users], ready' \in [Matches -> SUBSET Users],
         \A n \in Matches : confirmed'[n] \union ready'[n] \subseteq coop[n].humans,
         board' \in [Matches -> {"NONE", "ACTIVE", "FINISHED", "SETTLED"}],
         new.status = "NONE" => board'[m] = "NONE",
         \A n \in Matches : n # m => board'[n] = board[n],
         debits' \in [Matches -> [Users -> Nat]],
         credits' \in [Matches -> [Users -> SUBSET {"PAYOUT", "REFUND"}]],
         \A n \in Matches : confirmed[n] \subseteq confirmed'[n],
         NEW asked, Asking(asked), \A r \in asked : Backed(r)',
         overdue' \union expiring' \subseteq Matches
  PROVE  MatchInv'
<1>1. /\ coop' \in [Matches -> CoopRow] /\ coop'[m] = new
      /\ \A n \in Matches : n # m => coop'[n] = coop[n]
  BY MatchTyped
<1>2. \A n \in Matches : coop'[n].humans = coop[n].humans
  BY <1>1
<1>3. MatchTypeOK'
  BY <1>1, <1>2 DEF MatchTypeOK
<1>4. \A n \in Matches : coop'[n].status = "NONE" => coop'[n].humans = {} /\ board'[n] = "NONE"
  BY ZenonT(30), <1>1 DEF MatchInv
<1>5. \A n \in Matches : coop[n].status # "NONE" => coop'[n].status # "NONE"
  BY <1>1
<1>6. \A n \in Matches : confirmed'[n] \subseteq coop'[n].humans
  BY <1>2
<1>7. ASSUME NEW r \in BagToSet(asking) PROVE Backed(r)'
  BY <1>2, <1>5, <1>6, StillBacked
<1> QED
  BY <1>3, <1>4, <1>7 DEF MatchInv, Asking

LEMMA ClaimMatch ==
  ASSUME LobbyTypeOK, MatchInv, NEW m \in Matches, NEW chosen \in SUBSET Parties, NEW mode \in Modes,
         Claim(m, chosen, mode)
  PROVE  MatchInv'
<1> DEFINE humans == UNION {ToSet(members[p]) : p \in chosen}
           new == [status |-> "FOUND", match |-> "CREATED", mode |-> mode,
                   parties |-> chosen, humans |-> humans]
<1>1. /\ coop[m].status = "NONE" /\ coop' = [coop EXCEPT ![m] = new]
      /\ entry' = [p \in Parties |-> IF p \in chosen THEN [entry[p] EXCEPT ![mode] = Matched(m)] ELSE entry[p]]
      /\ UNCHANGED <<confirmed, board, ready, debits, credits, overdue, expiring, asking>>
  BY DEF Claim
<1>2. humans \in SUBSET Users
  <2>1. \A p \in Parties : members[p] \in Seq(Users)
    BY DEF LobbyTypeOK
  <2>2. \A p \in Parties : ToSet(members[p]) \subseteq Users
    BY <2>1 DEF ToSet
  <2> QED
    BY <2>2
<1> HIDE DEF humans
<1>3. new \in CoopRow /\ new.status # "NONE"
  BY <1>2 DEF CoopRow, Live
<1>4. entry' \in [Parties -> [Modes -> EntryRow]]
  BY <1>1, MatchTyped DEF EntryRow
<1>5. coop[m].humans = {}
  BY <1>1 DEF MatchInv
<1> HIDE DEF new
<1>6. /\ coop' \in [Matches -> CoopRow] /\ coop'[m] = new
      /\ \A n \in Matches : n # m => coop'[n] = coop[n]
  BY <1>1, <1>3, MatchTyped
<1>7. \A n \in Matches : coop[n].humans \subseteq coop'[n].humans
  BY <1>5, <1>6
<1>8. MatchTypeOK'
  BY <1>1, <1>4, <1>6, <1>7, MatchTyped DEF MatchTypeOK
<1>9. \A n \in Matches : coop'[n].status = "NONE" => coop'[n].humans = {} /\ board'[n] = "NONE"
  BY <1>1, <1>3, <1>6 DEF MatchInv
<1>10. \A n \in Matches : coop[n].status # "NONE" => coop'[n] = coop[n]
  BY <1>1, <1>6
<1>11. ASSUME NEW r \in BagToSet(asking) PROVE Backed(r)'
  BY <1>1, <1>10, MatchTyped, StillBacked
<1> QED
  BY <1>1, <1>8, <1>9, <1>11 DEF MatchInv

LEMMA ReadMatch ==
  ASSUME LobbyTypeOK, MatchInv, NEW u \in Users, NEW m \in Matches, ReadForConfirm(u, m)
  PROVE  MatchInv'
<1>1. PICK mine : mine = IF \E p \in coop[m].parties : party[p].host = u THEN coop[m].humans ELSE {u}
  OBVIOUS
<1> DEFINE c == [op |-> "confirm", match |-> m, mine |-> mine]
<1>2. /\ u \in coop[m].humans /\ coop[m].status = "FOUND" /\ Ask(c)
      /\ UNCHANGED <<coop, confirmed, board, ready, debits, credits, overdue, expiring, entry>>
  BY <1>1 DEF ReadForConfirm, matchVars
<1>3. Backed(c)'
  BY <1>1, <1>2 DEF Backed
<1> HIDE DEF c
<1>4. MatchTypeOK' /\ \A n \in Matches : coop'[n].status = "NONE" => coop'[n].humans = {} /\ board'[n] = "NONE"
  BY <1>2 DEF MatchInv, MatchTypeOK
<1>5. ASSUME NEW r \in BagToSet(asking) PROVE Backed(r)'
  BY <1>2, MatchTyped, StillBacked
<1> QED
  BY <1>2, <1>3, <1>4, <1>5, Asked DEF MatchInv

\* A confirmation that counted every player would confirm for the last of them.
LEMMA CountMatch ==
  ASSUME LobbyTypeOK, MatchInv, NEW r \in BagToSet(asking), Count(r)
  PROVE  MatchInv'
<1>1. PICK all : all = (confirmed[r.match] \union r.mine = coop[r.match].humans)
  OBVIOUS
<1> DEFINE c == [op |-> "counted", match |-> r.match, mine |-> r.mine, all |-> all]
           rest == BagRemove(asking, r)
<1>2. /\ r.op = "confirm" /\ asking' = BagAdd(rest, c)
      /\ UNCHANGED <<coop, confirmed, board, ready, debits, credits, overdue, expiring, entry>>
  BY <1>1 DEF Count, matchVars
<1>3. Backed(c)'
  <2>1. coop[r.match].status # "NONE" /\ r.mine \subseteq coop[r.match].humans
    BY <1>2 DEF MatchInv, Backed, Confirming
  <2> QED
    BY <1>1, <1>2, <2>1 DEF Backed
<1> HIDE DEF c
<1>4. BagToSet(asking') \subseteq BagToSet(asking) \union {c}
  BY <1>2, AddedRequest, TakenRequest
<1>5. MatchTypeOK' /\ \A n \in Matches : coop'[n].status = "NONE" => coop'[n].humans = {} /\ board'[n] = "NONE"
  BY <1>2 DEF MatchInv, MatchTypeOK
<1>6. ASSUME NEW s \in BagToSet(asking) PROVE Backed(s)'
  BY <1>2, MatchTyped, StillBacked
<1> QED
  BY <1>3, <1>4, <1>5, <1>6 DEF MatchInv

\* Every player of the match has a fee debited, and nobody else.
LEMMA DebitedRow ==
  ASSUME MatchInv, NEW m \in Matches
  PROVE  /\ Debited(m) \in [Matches -> [Users -> Nat]]
         /\ \A n \in Matches : n # m => Debited(m)[n] = debits[n]
         /\ \A u \in Users : Debited(m)[m][u] = IF u \in coop[m].humans /\ debits[m][u] = 0
                                                 THEN 1 ELSE debits[m][u]
<1> DEFINE row == [u \in Users |-> IF u \in coop[m].humans /\ debits[m][u] = 0 THEN 1 ELSE debits[m][u]]
<1>1. debits \in [Matches -> [Users -> Nat]]
  BY MatchTyped
<1>2. row \in [Users -> Nat]
  BY <1>1
<1>3. Debited(m) = [debits EXCEPT ![m] = row]
  BY <1>1 DEF Debited
<1> QED
  BY <1>1, <1>2, <1>3

LEMMA ConfirmMatch ==
  ASSUME LobbyTypeOK, MatchInv, NEW r \in BagToSet(asking), Confirm(r)
  PROVE  MatchInv'
<1> DEFINE m == r.match
           new == [coop[m] EXCEPT !.status = "COMMITTED"]
<1>1. r.op = "counted" /\ Asking({})
  BY Taken, AnsweredTo DEF Confirm
<1>2. r \in Request
  BY DEF LobbyTypeOK
<1>3. /\ m \in Matches /\ coop[m].status # "NONE" /\ r.mine \subseteq coop[m].humans
      /\ r.mine \in SUBSET Users
  BY <1>1, <1>2, Remembered DEF MatchInv, Backed, Confirming
<1>4. /\ confirmed' = [confirmed EXCEPT ![m] = confirmed[m] \union r.mine]
      /\ UNCHANGED <<entry, board, ready, credits, overdue, expiring>>
      /\ \/ coop' = [coop EXCEPT ![m] = new] /\ (debits' = Debited(m) \/ debits' = debits)
         \/ coop' = [coop EXCEPT ![m] = coop[m]] /\ debits' = debits
  BY <1>3, MatchTyped DEF Confirm
<1> HIDE DEF m
<1>5. coop[m] \in CoopRow
  BY <1>3, MatchTyped
<1>6. new \in CoopRow /\ new.humans = coop[m].humans /\ new.status = "COMMITTED"
  BY <1>5 DEF CoopRow, Live
<1> HIDE DEF new
<1>7. /\ confirmed' \in [Matches -> SUBSET Users]
      /\ \A n \in Matches : confirmed[n] \subseteq confirmed'[n]
      /\ \A n \in Matches : confirmed'[n] \union ready'[n] \subseteq coop[n].humans
  BY <1>3, <1>4, MatchTyped
<1>8. debits' \in [Matches -> [Users -> Nat]]
  BY <1>3, <1>4, MatchTyped, DebitedRow
<1>9. PICK row \in {new, coop[m]} : coop' = [coop EXCEPT ![m] = row]
  BY <1>4
<1>10. row \in CoopRow /\ row.humans = coop[m].humans /\ row.status # "NONE"
  BY <1>3, <1>5, <1>6, <1>9
<1> DEFINE asked == {}
<1>11. Asking(asked) /\ \A s \in asked : Backed(s)'
  BY <1>1
<1> HIDE DEF asked
<1> QED
  BY <1>1, <1>3, <1>4, <1>7, <1>8, <1>9, <1>10, <1>11, MatchTyped, Rewritten

Statuses == {"NONE", "CANCELLED", "SETTLED", "REVIEW"} \union Live
MatchStatuses == {"NONE", "CREATED", "STARTED", "FINISHED", "SETTLED", "CANCELLED", "REVIEW"}

Written(row, status, match) == [row EXCEPT !.status = status, !.match = match]

\* What a handler writes into the row of a match.
LEMMA WrittenRow ==
  ASSUME NEW row \in CoopRow, NEW status \in Statuses, NEW match \in MatchStatuses
  PROVE  /\ Written(row, status, match) \in CoopRow
         /\ Written(row, status, match).humans = row.humans
         /\ Written(row, status, match).mode = row.mode
         /\ Written(row, status, match).status = status
         /\ Written(row, status, match).match = match
  BY DEF Written, CoopRow, Statuses, MatchStatuses

LEMMA WrittenMatch ==
  ASSUME NEW row \in CoopRow, NEW match \in MatchStatuses
  PROVE  LET new == [row EXCEPT !.match = match] IN
         /\ new \in CoopRow /\ new.humans = row.humans /\ new.mode = row.mode
         /\ new.status = row.status /\ new.match = match
  BY DEF CoopRow, MatchStatuses

\* A step that leaves the confirmations and the requests in flight alone.
LEMMA RewrittenAlone ==
  ASSUME LobbyTypeOK, MatchInv, NEW m \in Matches, NEW new \in CoopRow,
         coop' = [coop EXCEPT ![m] = new],
         new.humans = coop[m].humans, new.status # "NONE",
         entry' \in [Parties -> [Modes -> EntryRow]],
         ready' \in [Matches -> SUBSET Users], \A n \in Matches : ready'[n] \subseteq coop[n].humans,
         board' \in [Matches -> {"NONE", "ACTIVE", "FINISHED", "SETTLED"}],
         \A n \in Matches : n # m => board'[n] = board[n],
         credits' \in [Matches -> [Users -> SUBSET {"PAYOUT", "REFUND"}]],
         overdue' \union expiring' \subseteq Matches,
         UNCHANGED <<confirmed, debits, asking>>
  PROVE  MatchInv'
<1> DEFINE asked == {}
<1>1. Asking(asked) /\ \A r \in asked : Backed(r)'
  BY DEF Asking
<1> HIDE DEF asked
<1>2. /\ confirmed' \in [Matches -> SUBSET Users] /\ debits' \in [Matches -> [Users -> Nat]]
      /\ \A n \in Matches : confirmed[n] \subseteq confirmed'[n]
      /\ \A n \in Matches : confirmed'[n] \union ready'[n] \subseteq coop[n].humans
  BY MatchTyped
<1> QED
  BY <1>1, <1>2, Rewritten

LEMMA ExpireMatch ==
  ASSUME LobbyTypeOK, MatchInv, NEW m \in Matches, Expire(m) PROVE MatchInv'
<1> DEFINE new == Written(coop[m], "CANCELLED", "CANCELLED")
<1>1. /\ coop' = [coop EXCEPT ![m] = new] /\ entry' = FreedEntries(m)
      /\ expiring' \subseteq expiring
      /\ UNCHANGED <<confirmed, board, ready, debits, credits, overdue, asking>>
  BY MatchTyped DEF Expire, Written
<1>2. new \in CoopRow /\ new.humans = coop[m].humans /\ new.status = "CANCELLED"
  <2>1. coop[m] \in CoopRow /\ "CANCELLED" \in Statuses /\ "CANCELLED" \in MatchStatuses
    BY MatchTyped DEF Statuses, MatchStatuses
  <2> QED
    BY <2>1, WrittenRow
<1> HIDE DEF new
<1> QED
  BY <1>1, <1>2, MatchTyped, FreedEntriesTyped, RewrittenAlone

LEMMA StartMatch ==
  ASSUME LobbyTypeOK, MatchInv, NEW u \in Users, NEW m \in Matches, Start(u, m) PROVE MatchInv'
<1> DEFINE all == ready[m] \union {u} = coop[m].humans
           new == [coop[m] EXCEPT !.match = IF all THEN "STARTED" ELSE @]
           st == IF all /\ board[m] = "NONE" THEN "ACTIVE" ELSE board[m]
<1>1. /\ u \in coop[m].humans
      /\ coop' = [coop EXCEPT ![m] = new] /\ board' = [board EXCEPT ![m] = st]
      /\ ready' = [ready EXCEPT ![m] = ready[m] \union {u}]
      /\ UNCHANGED <<confirmed, debits, credits, overdue, expiring, asking, entry>>
  BY MatchTyped DEF Start, partyVars
<1>2. /\ new \in CoopRow /\ new.humans = coop[m].humans /\ new.status = coop[m].status
      /\ st \in {"NONE", "ACTIVE", "FINISHED", "SETTLED"}
  <2>1. coop[m] \in CoopRow /\ coop[m].match \in MatchStatuses
    BY MatchTyped DEF CoopRow, MatchStatuses
  <2>2. (IF all THEN "STARTED" ELSE coop[m].match) \in MatchStatuses
    BY <2>1 DEF MatchStatuses
  <2>3. board[m] \in {"NONE", "ACTIVE", "FINISHED", "SETTLED"}
    BY MatchTyped
  <2> HIDE DEF all
  <2> QED
    BY <2>1, <2>2, <2>3, WrittenMatch
<1> HIDE DEF new, st
<1>3. new.status # "NONE"
  BY <1>1, <1>2 DEF MatchInv
<1>4. /\ board' \in [Matches -> {"NONE", "ACTIVE", "FINISHED", "SETTLED"}]
      /\ \A n \in Matches : n # m => board'[n] = board[n]
      /\ ready' \in [Matches -> SUBSET Users]
      /\ \A n \in Matches : confirmed'[n] \union ready'[n] \subseteq coop[n].humans
  BY <1>1, <1>2, MatchTyped
<1> QED
  BY <1>1, <1>2, <1>3, <1>4, MatchTyped, RewrittenAlone

LEMMA FinishMatch ==
  ASSUME LobbyTypeOK, MatchInv, NEW m \in Matches, Finish(m) PROVE MatchInv'
<1> DEFINE new == [coop[m] EXCEPT !.match = "FINISHED"]
<1>1. /\ board[m] = "ACTIVE" /\ coop' = [coop EXCEPT ![m] = new]
      /\ board' = [board EXCEPT ![m] = "FINISHED"]
      /\ UNCHANGED <<confirmed, ready, debits, credits, overdue, expiring, asking, entry>>
  BY MatchTyped DEF Finish, partyVars
<1>2. new \in CoopRow /\ new.humans = coop[m].humans /\ new.status = coop[m].status
  <2>1. coop[m] \in CoopRow /\ "FINISHED" \in MatchStatuses
    BY MatchTyped DEF MatchStatuses
  <2> QED
    BY <2>1, WrittenMatch
<1>3. coop[m].status # "NONE"
  BY <1>1 DEF MatchInv
<1> HIDE DEF new
<1>4. /\ board' \in [Matches -> {"NONE", "ACTIVE", "FINISHED", "SETTLED"}]
      /\ \A n \in Matches : n # m => board'[n] = board[n]
  BY <1>1, MatchTyped
<1> QED
  BY <1>1, <1>2, <1>3, <1>4, MatchTyped, RewrittenAlone

LEMMA ReviewMatch ==
  ASSUME LobbyTypeOK, MatchInv, NEW m \in Matches, FlagReview(m) PROVE MatchInv'
<1> DEFINE new == Written(coop[m], "REVIEW", "REVIEW")
<1>1. /\ coop' = [coop EXCEPT ![m] = new]
      /\ UNCHANGED <<confirmed, board, ready, debits, credits, overdue, expiring, asking, entry>>
  BY MatchTyped DEF FlagReview, Written, partyVars
<1>2. new \in CoopRow /\ new.humans = coop[m].humans /\ new.status = "REVIEW"
  <2>1. coop[m] \in CoopRow /\ "REVIEW" \in Statuses /\ "REVIEW" \in MatchStatuses
    BY MatchTyped DEF Statuses, MatchStatuses
  <2> QED
    BY <2>1, WrittenRow
<1> HIDE DEF new
<1> QED
  BY <1>1, <1>2, MatchTyped, RewrittenAlone

LEMMA WithholdMatch ==
  ASSUME LobbyTypeOK, MatchInv, NEW m \in Matches, Withhold(m) PROVE MatchInv'
<1> DEFINE new == [coop[m] EXCEPT !.match = "REVIEW"]
<1>1. /\ board[m] = "FINISHED" /\ coop' = [coop EXCEPT ![m] = new]
      /\ UNCHANGED <<confirmed, board, ready, debits, credits, overdue, expiring, asking, entry>>
  BY MatchTyped DEF Withhold, Unsettled, partyVars
<1>2. new \in CoopRow /\ new.humans = coop[m].humans /\ new.status = coop[m].status
  <2>1. coop[m] \in CoopRow /\ "REVIEW" \in MatchStatuses
    BY MatchTyped DEF MatchStatuses
  <2> QED
    BY <2>1, WrittenMatch
<1>3. coop[m].status # "NONE"
  BY <1>1 DEF MatchInv
<1> HIDE DEF new
<1>4. /\ board' \in [Matches -> {"NONE", "ACTIVE", "FINISHED", "SETTLED"}]
      /\ \A n \in Matches : n # m => board'[n] = board[n]
  BY <1>1, MatchTyped
<1> QED
  BY <1>1, <1>2, <1>3, <1>4, MatchTyped, RewrittenAlone

\* The winners are paid, or every player is paid back.
CreditOf(m, winners, u) ==
    IF u \notin coop[m].humans THEN credits[m][u]
    ELSE IF winners = {} THEN credits[m][u] \union {"REFUND"}
    ELSE IF u \in winners THEN credits[m][u] \union {"PAYOUT"}
    ELSE credits[m][u]

LEMMA CreditedRow ==
  ASSUME MatchInv, NEW m \in Matches, NEW winners
  PROVE  /\ Credited(m, winners) \in [Matches -> [Users -> SUBSET {"PAYOUT", "REFUND"}]]
         /\ \A n \in Matches : n # m => Credited(m, winners)[n] = credits[n]
         /\ \A u \in Users : Credited(m, winners)[m][u] = CreditOf(m, winners, u)
<1> DEFINE row == [u \in Users |-> CreditOf(m, winners, u)]
<1>1. credits \in [Matches -> [Users -> SUBSET {"PAYOUT", "REFUND"}]]
  BY MatchTyped
<1>2. \A u \in Users : CreditOf(m, winners, u) \in SUBSET {"PAYOUT", "REFUND"}
  BY <1>1 DEF CreditOf
<1>3. row \in [Users -> SUBSET {"PAYOUT", "REFUND"}]
  BY <1>2
<1>4. Credited(m, winners) = [credits EXCEPT ![m] = row]
  BY <1>1 DEF Credited, CreditOf
<1>5. \A u \in Users : row[u] = CreditOf(m, winners, u)
  OBVIOUS
<1> HIDE DEF row
<1> QED
  BY <1>1, <1>3, <1>4, <1>5

LEMMA SettleMatch ==
  ASSUME LobbyTypeOK, MatchInv, NEW m \in Matches, NEW winners, Settle(m, winners) PROVE MatchInv'
<1> DEFINE new == Written(coop[m], "SETTLED", "SETTLED")
<1>1. /\ coop' = [coop EXCEPT ![m] = new] /\ board' = [board EXCEPT ![m] = "SETTLED"]
      /\ credits' = Credited(m, winners) \/ credits' = credits
      /\ entry' = [p \in Parties |-> IF p \in coop[m].parties THEN FreedEntries(m)[p] ELSE entry[p]]
      /\ UNCHANGED <<confirmed, ready, debits, overdue, expiring, asking>>
  BY MatchTyped DEF Settle, Written
<1>2. new \in CoopRow /\ new.humans = coop[m].humans /\ new.status = "SETTLED"
  <2>1. coop[m] \in CoopRow /\ "SETTLED" \in Statuses /\ "SETTLED" \in MatchStatuses
    BY MatchTyped DEF Statuses, MatchStatuses
  <2> QED
    BY <2>1, WrittenRow
<1> HIDE DEF new
<1>3. /\ board' \in [Matches -> {"NONE", "ACTIVE", "FINISHED", "SETTLED"}]
      /\ \A n \in Matches : n # m => board'[n] = board[n]
  BY <1>1, MatchTyped
<1>4. credits' \in [Matches -> [Users -> SUBSET {"PAYOUT", "REFUND"}]]
  BY <1>1, MatchTyped, CreditedRow
<1>5. entry' \in [Parties -> [Modes -> EntryRow]]
  BY <1>1, MatchTyped, FreedEntriesTyped
<1> QED
  BY <1>1, <1>2, <1>3, <1>4, <1>5, MatchTyped, RewrittenAlone

\* A deadline and the worker's reading write only what they are about.
LEMMA InFlight ==
  ASSUME LobbyTypeOK, MatchInv, overdue' \union expiring' \subseteq Matches,
         UNCHANGED <<entry, coop, confirmed, board, ready, debits, credits, asking>>
  PROVE  MatchInv'
<1>1. MatchTypeOK' /\ \A n \in Matches : coop'[n].status = "NONE" => coop'[n].humans = {} /\ board'[n] = "NONE"
  BY DEF MatchInv, MatchTypeOK
<1>2. \A r \in BagToSet(asking') : Backed(r)'
  BY DEF MatchInv, Backed
<1> QED
  BY <1>1, <1>2 DEF MatchInv

LEMMA NextMatch == LobbyInv /\ MatchInv /\ [Next]_vars => MatchInv'
<1> SUFFICES ASSUME LobbyTypeOK, MatchInv, [Next]_vars PROVE MatchInv'
  BY DEF LobbyInv
<1>1. CASE UNCHANGED vars
  BY <1>1, MatchTyped, InFlight DEF vars, matchVars
<1>2. CASE Lobby
  BY <1>2, LobbyMatch
<1>3. CASE Play
  <2>1. ASSUME NEW m \in Matches, NEW chosen \in SUBSET Parties, NEW mode \in Modes,
               Claim(m, chosen, mode)
        PROVE  MatchInv'
    BY <2>1, ClaimMatch
  <2>2. ASSUME NEW u \in Users, NEW m \in Matches, ReadForConfirm(u, m) \/ Start(u, m) PROVE MatchInv'
    BY <2>2, ReadMatch, StartMatch
  <2>3. ASSUME NEW m \in Matches, DeadlinePasses(m) \/ ReadForExpiry(m) PROVE MatchInv'
    BY <2>3, MatchTyped, InFlight DEF DeadlinePasses, ReadForExpiry, partyVars
  <2>4. ASSUME NEW r \in BagToSet(asking), Count(r) \/ Confirm(r) PROVE MatchInv'
    BY <2>4, CountMatch, ConfirmMatch
  <2>5. ASSUME NEW m \in Matches, Expire(m) \/ Finish(m) \/ Withhold(m) \/ FlagReview(m)
        PROVE  MatchInv'
    BY <2>5, ExpireMatch, FinishMatch, WithholdMatch, ReviewMatch
  <2>6. ASSUME NEW m \in Matches, NEW winners, Settle(m, winners) PROVE MatchInv'
    BY <2>6, SettleMatch
  <2> QED
    BY <1>3, <2>1, <2>2, <2>3, <2>4, <2>5, <2>6 DEF Play
<1> QED
  BY <1>1, <1>2, <1>3 DEF Next

LEMMA InitMatch == Init => MatchInv
<1> SUFFICES ASSUME Init PROVE MatchInv
  OBVIOUS
<1>1. coop \in [Matches -> CoopRow]
  BY DEF Init, CoopRow, Modes, Live
<1>2. entry \in [Parties -> [Modes -> EntryRow]]
  BY DEF Init, EntryRow
<1>3. MatchTypeOK
  BY <1>1, <1>2 DEF Init, MatchTypeOK
<1>4. BagToSet(asking) = {}
  BY DEF Init, EmptyBag, SetToBag, BagToSet
<1> QED
  BY <1>3, <1>4 DEF Init, MatchInv

-----------------------------------------------------------------------------
(* The fees of the matches *)

\* A step that moves no money of the match, leaves its players and does not
\* reopen its board.
LEMMA Unpriced ==
  ASSUME NEW n \in Matches, MoneyOnce(n),
         coop'[n].mode = coop[n].mode, coop'[n].humans = coop[n].humans,
         board[n] = "SETTLED" => board'[n] = "SETTLED",
         confirmed'[n] = confirmed[n], debits'[n] = debits[n], credits'[n] = credits[n]
  PROVE  MoneyOnce(n)'
  BY DEF MoneyOnce, Unpaid, Paid

\* A step that gives a match another status.
LEMMA RestatedMoney ==
  ASSUME MatchInv, MoneyMovesOnce, NEW m \in Matches, NEW new \in CoopRow,
         coop' = [coop EXCEPT ![m] = new], new.humans = coop[m].humans, new.mode = coop[m].mode,
         \A n \in Matches : board[n] = "SETTLED" => board'[n] = "SETTLED",
         UNCHANGED <<confirmed, debits, credits>>
  PROVE  MoneyMovesOnce'
<1>1. \A n \in Matches : coop'[n].mode = coop[n].mode /\ coop'[n].humans = coop[n].humans
  BY MatchTyped
<1> QED
  BY <1>1, Unpriced DEF MoneyMovesOnce

LEMMA QuietMoney ==
  ASSUME MoneyMovesOnce, UNCHANGED <<coop, confirmed, board, debits, credits>> PROVE MoneyMovesOnce'
  BY Unpriced DEF MoneyMovesOnce

\* A match that is claimed has moved no money.
LEMMA ClaimMoney ==
  ASSUME MatchInv, MoneyMovesOnce, NEW m \in Matches, NEW chosen, NEW mode, Claim(m, chosen, mode)
  PROVE  MoneyMovesOnce'
<1>1. /\ coop[m].status = "NONE" /\ \A n \in Matches : n # m => coop'[n] = coop[n]
      /\ UNCHANGED <<confirmed, board, debits, credits>>
  BY MatchTyped DEF Claim
<1>2. board[m] = "NONE" /\ coop[m].humans = {}
  BY <1>1 DEF MatchInv
<1>3. MoneyOnce(m)
  BY DEF MoneyMovesOnce
<1>4. /\ Unpaid(m) /\ \A u \in Users : credits[m][u] = {}
  BY <1>2, <1>3 DEF MoneyOnce, Unpaid, Paid
<1>5. MoneyOnce(m)'
  BY <1>1, <1>4 DEF MoneyOnce, Unpaid
<1>6. ASSUME NEW n \in Matches, n # m PROVE MoneyOnce(n)'
  BY <1>1, <1>6, Unpriced DEF MoneyMovesOnce
<1> QED
  BY <1>5, <1>6 DEF MoneyMovesOnce

\* The confirmation that counted every player captures the fees of a match
\* nobody has paid for, and moves no money of one that everybody has.
LEMMA ConfirmMoney ==
  ASSUME LobbyTypeOK, MatchInv, MoneyMovesOnce, NEW r \in BagToSet(asking), Confirm(r)
  PROVE  MoneyMovesOnce'
<1> DEFINE m == r.match
           new == [coop[m] EXCEPT !.status = "COMMITTED"]
           paid == IF coop[m].mode = "RANKED" THEN Debited(m) ELSE debits
<1>1. r.op = "counted"
  BY Taken DEF Confirm
<1>2. r \in Request
  BY DEF LobbyTypeOK
<1>3. /\ m \in Matches /\ r.mine \subseteq coop[m].humans
      /\ r.all => confirmed[m] \union r.mine = coop[m].humans
  BY <1>1, <1>2, Remembered DEF MatchInv, Backed, Confirming
<1>4. /\ confirmed' = [confirmed EXCEPT ![m] = confirmed[m] \union r.mine]
      /\ UNCHANGED <<board, credits>>
      /\ \/ r.all /\ coop' = [coop EXCEPT ![m] = new] /\ debits' = paid
         \/ UNCHANGED <<debits, coop>>
  BY <1>3, MatchTyped DEF Confirm
<1> HIDE DEF m
<1>5. /\ confirmed'[m] = confirmed[m] \union r.mine
      /\ \A n \in Matches : n # m => confirmed'[n] = confirmed[n]
      /\ confirmed[m] \subseteq coop[m].humans
  BY <1>3, <1>4, MatchTyped
<1>6. MoneyOnce(m)
  BY <1>3 DEF MoneyMovesOnce
<1>7. CASE UNCHANGED <<debits, coop>>
  <2>1. MoneyOnce(m)'
    BY <1>3, <1>4, <1>5, <1>6, <1>7 DEF MoneyOnce, Unpaid, Paid
  <2>2. ASSUME NEW n \in Matches, n # m PROVE MoneyOnce(n)'
    BY <1>4, <1>5, <1>7, <2>2, Unpriced DEF MoneyMovesOnce
  <2> QED
    BY <2>1, <2>2 DEF MoneyMovesOnce
<1>8. CASE r.all /\ coop' = [coop EXCEPT ![m] = new] /\ debits' = paid
  <2>1. new.humans = coop[m].humans /\ new.mode = coop[m].mode
    BY <1>3, MatchTyped DEF CoopRow
  <2> HIDE DEF new
  <2>2. /\ coop'[m].humans = coop[m].humans /\ coop'[m].mode = coop[m].mode
        /\ \A n \in Matches : n # m => coop'[n] = coop[n]
    BY <1>3, <1>8, <2>1, MatchTyped
  <2>3. /\ \A n \in Matches : n # m => debits'[n] = debits[n]
        /\ \A u \in Users : debits'[m][u] =
               IF coop[m].mode = "RANKED" /\ u \in coop[m].humans /\ debits[m][u] = 0
               THEN 1 ELSE debits[m][u]
    BY <1>3, <1>8, DebitedRow
  <2>4. confirmed'[m] = coop'[m].humans
    BY <1>3, <1>5, <1>8, <2>2
  <2>5. CASE coop[m].mode = "RANKED"
    <3>1. \A u \in Users : debits'[m][u] = IF u \in coop[m].humans THEN 1 ELSE 0
      BY <1>6, <2>3, <2>5 DEF MoneyOnce, Unpaid, Paid
    <3>2. Paid(m)'
      BY <2>2, <3>1 DEF Paid
    <3> QED
      <4>1. MoneyOnce(m)'
        BY <1>4, <1>6, <2>2, <2>4, <2>5, <3>2 DEF MoneyOnce
      <4>2. ASSUME NEW n \in Matches, n # m PROVE MoneyOnce(n)'
        BY <1>4, <1>5, <2>2, <2>3, <4>2, Unpriced DEF MoneyMovesOnce
      <4> QED
        BY <4>1, <4>2 DEF MoneyMovesOnce
  <2>6. CASE coop[m].mode # "RANKED"
    <3>1. Unpaid(m)'
      BY <1>6, <2>3, <2>6 DEF MoneyOnce, Unpaid
    <3>2. MoneyOnce(m)'
      BY <1>4, <1>6, <2>2, <2>6, <3>1 DEF MoneyOnce
    <3>3. ASSUME NEW n \in Matches, n # m PROVE MoneyOnce(n)'
      BY <1>4, <1>5, <2>2, <2>3, <3>3, Unpriced DEF MoneyMovesOnce
    <3> QED
      BY <3>2, <3>3 DEF MoneyMovesOnce
  <2> QED
    BY <2>5, <2>6
<1> QED
  BY <1>4, <1>7, <1>8

LEMMA ExpireMoney ==
  ASSUME MatchInv, MoneyMovesOnce, NEW m \in Matches, Expire(m) PROVE MoneyMovesOnce'
<1> DEFINE new == Written(coop[m], "CANCELLED", "CANCELLED")
<1>1. /\ coop' = [coop EXCEPT ![m] = new] /\ UNCHANGED <<confirmed, board, debits, credits>>
  BY MatchTyped DEF Expire, Written
<1>2. new \in CoopRow /\ new.humans = coop[m].humans /\ new.mode = coop[m].mode
  <2>1. coop[m] \in CoopRow /\ "CANCELLED" \in Statuses /\ "CANCELLED" \in MatchStatuses
    BY MatchTyped DEF Statuses, MatchStatuses
  <2> QED
    BY <2>1, WrittenRow
<1> HIDE DEF new
<1> QED
  BY <1>1, <1>2, RestatedMoney

LEMMA ReviewMoney ==
  ASSUME MatchInv, MoneyMovesOnce, NEW m \in Matches, FlagReview(m) PROVE MoneyMovesOnce'
<1> DEFINE new == Written(coop[m], "REVIEW", "REVIEW")
<1>1. /\ coop' = [coop EXCEPT ![m] = new] /\ UNCHANGED <<confirmed, board, debits, credits>>
  BY MatchTyped DEF FlagReview, Written
<1>2. new \in CoopRow /\ new.humans = coop[m].humans /\ new.mode = coop[m].mode
  <2>1. coop[m] \in CoopRow /\ "REVIEW" \in Statuses /\ "REVIEW" \in MatchStatuses
    BY MatchTyped DEF Statuses, MatchStatuses
  <2> QED
    BY <2>1, WrittenRow
<1> HIDE DEF new
<1> QED
  BY <1>1, <1>2, RestatedMoney

\* A step that writes the status of the match row only.
LEMMA MarkedMoney ==
  ASSUME MatchInv, MoneyMovesOnce, NEW m \in Matches, NEW st \in MatchStatuses,
         coop' = [coop EXCEPT ![m] = [coop[m] EXCEPT !.match = st]],
         \A n \in Matches : board[n] = "SETTLED" => board'[n] = "SETTLED",
         UNCHANGED <<confirmed, debits, credits>>
  PROVE  MoneyMovesOnce'
<1> DEFINE new == [coop[m] EXCEPT !.match = st]
<1>1. coop[m] \in CoopRow
  BY MatchTyped
<1>2. new \in CoopRow /\ new.humans = coop[m].humans /\ new.mode = coop[m].mode
  BY <1>1, WrittenMatch
<1>3. coop' = [coop EXCEPT ![m] = new]
  OBVIOUS
<1> HIDE DEF new
<1> QED
  BY <1>2, <1>3, RestatedMoney

LEMMA BoardMoney ==
  ASSUME MatchInv, MoneyMovesOnce, NEW u, NEW m \in Matches,
         Start(u, m) \/ Finish(m) \/ Withhold(m)
  PROVE  MoneyMovesOnce'
<1>1. CASE Start(u, m)
  <2> DEFINE all == ready[m] \union {u} = coop[m].humans
             st == IF all THEN "STARTED" ELSE coop[m].match
             b == IF all /\ board[m] = "NONE" THEN "ACTIVE" ELSE board[m]
  <2>1. /\ coop' = [coop EXCEPT ![m] = [coop[m] EXCEPT !.match = st]]
        /\ board' = [board EXCEPT ![m] = b] /\ UNCHANGED <<confirmed, debits, credits>>
    BY <1>1, MatchTyped DEF Start
  <2>2. st \in MatchStatuses
    BY MatchTyped DEF CoopRow, MatchStatuses
  <2>3. \A n \in Matches : board[n] = "SETTLED" => board'[n] = "SETTLED"
    BY <2>1, MatchTyped
  <2> HIDE DEF st
  <2> QED
    BY <2>1, <2>2, <2>3, MarkedMoney
<1>2. CASE Finish(m)
  <2>1. /\ coop' = [coop EXCEPT ![m] = [coop[m] EXCEPT !.match = "FINISHED"]] /\ board[m] = "ACTIVE"
        /\ board' = [board EXCEPT ![m] = "FINISHED"] /\ UNCHANGED <<confirmed, debits, credits>>
    BY <1>2, MatchTyped DEF Finish
  <2>2. \A n \in Matches : board[n] = "SETTLED" => board'[n] = "SETTLED"
    BY <2>1, MatchTyped
  <2> QED
    BY <2>1, <2>2, MarkedMoney DEF MatchStatuses
<1>3. CASE Withhold(m)
  <2>1. /\ coop' = [coop EXCEPT ![m] = [coop[m] EXCEPT !.match = "REVIEW"]]
        /\ UNCHANGED <<confirmed, board, debits, credits>>
    BY <1>3, MatchTyped DEF Withhold
  <2> QED
    BY <2>1, MarkedMoney DEF MatchStatuses
<1> QED
  BY <1>1, <1>2, <1>3

\* A settlement finds a match without credits, and settles its board.
LEMMA SettleMoney ==
  ASSUME MatchInv, MoneyMovesOnce, NEW m \in Matches, NEW winners, Settle(m, winners)
  PROVE  MoneyMovesOnce'
<1> DEFINE new == Written(coop[m], "SETTLED", "SETTLED")
<1>1. /\ board[m] = "FINISHED" /\ coop' = [coop EXCEPT ![m] = new]
      /\ board' = [board EXCEPT ![m] = "SETTLED"]
      /\ credits' = IF coop[m].mode = "RANKED" THEN Credited(m, winners) ELSE credits
      /\ UNCHANGED <<confirmed, debits>>
  BY MatchTyped DEF Settle, Unsettled, Written
<1>2. new \in CoopRow /\ new.humans = coop[m].humans /\ new.mode = coop[m].mode
  <2>1. coop[m] \in CoopRow /\ "SETTLED" \in Statuses /\ "SETTLED" \in MatchStatuses
    BY MatchTyped DEF Statuses, MatchStatuses
  <2> QED
    BY <2>1, WrittenRow
<1> HIDE DEF new
<1>3. /\ coop'[m].humans = coop[m].humans /\ coop'[m].mode = coop[m].mode
      /\ \A n \in Matches : n # m => coop'[n] = coop[n]
  BY <1>1, <1>2, MatchTyped
<1>4. board'[m] = "SETTLED" /\ \A n \in Matches : n # m => board'[n] = board[n]
  BY <1>1, MatchTyped
<1>5. MoneyOnce(m)
  BY DEF MoneyMovesOnce
<1>6. \A u \in Users : credits[m][u] = {}
  BY <1>1, <1>5 DEF MoneyOnce
<1>7. /\ \A n \in Matches : n # m => credits'[n] = credits[n]
      /\ \A u \in Users : credits'[m][u] =
            IF coop[m].mode # "RANKED" \/ u \notin coop[m].humans THEN {}
            ELSE IF winners = {} THEN {"REFUND"}
            ELSE IF u \in winners THEN {"PAYOUT"} ELSE {}
  <2>1. CASE coop[m].mode # "RANKED"
    BY <1>1, <1>6, <2>1
  <2>2. CASE coop[m].mode = "RANKED"
    <3>1. credits' = Credited(m, winners)
      BY <1>1, <2>2
    <3>2. \A n \in Matches : n # m => credits'[n] = credits[n]
      BY <3>1, CreditedRow
    <3>3. \A u \in Users : credits'[m][u] = CreditOf(m, winners, u)
      BY <3>1, CreditedRow
    <3> QED
      BY <1>6, <2>2, <3>2, <3>3 DEF CreditOf
  <2> QED
    BY <2>1, <2>2
<1>8. MoneyOnce(m)'
  <2>1. Unpaid(m)' \/ (Paid(m)' /\ coop'[m].mode = "RANKED" /\ confirmed'[m] = coop'[m].humans)
    BY <1>1, <1>3, <1>5 DEF MoneyOnce, Unpaid, Paid
  <2>2. \A u \in Users : credits'[m][u] # {} => board'[m] = "SETTLED" /\ coop'[m].mode = "RANKED"
    BY <1>3, <1>4, <1>7
  <2>3. \/ \A u \in Users : credits'[m][u] \in {{}, {"PAYOUT"}}
        \/ \A u \in Users : credits'[m][u] = IF u \in coop'[m].humans THEN {"REFUND"} ELSE {}
    BY <1>3, <1>7
  <2> QED
    BY <2>1, <2>2, <2>3 DEF MoneyOnce
<1>9. ASSUME NEW n \in Matches, n # m PROVE MoneyOnce(n)'
  BY <1>1, <1>3, <1>4, <1>7, <1>9, Unpriced DEF MoneyMovesOnce
<1> QED
  BY <1>8, <1>9 DEF MoneyMovesOnce

LEMMA InitMoney == Init => MoneyMovesOnce
<1> SUFFICES ASSUME Init, NEW n \in Matches PROVE MoneyOnce(n)
  BY DEF MoneyMovesOnce
<1>1. \A u \in Users : debits[n][u] = 0 /\ credits[n][u] = {}
  BY DEF Init
<1> QED
  BY <1>1 DEF MoneyOnce, Unpaid

LEMMA NextMoney ==
  LobbyTypeOK /\ MatchInv /\ MoneyMovesOnce /\ [Next]_vars => MoneyMovesOnce'
<1> SUFFICES ASSUME LobbyTypeOK, MatchInv, MoneyMovesOnce, [Next]_vars PROVE MoneyMovesOnce'
  OBVIOUS
<1>1. CASE UNCHANGED vars
  BY <1>1, QuietMoney DEF vars, matchVars
<1>2. CASE Lobby
  <2>1. UNCHANGED matchVars
    BY <1>2 DEF Lobby, Current, ReadForCreate, Create, ReadForInvite, Invite, ReadForAccept, AcceptInvite,
       DropInvite, ReadForLeave, Leave, ReadForQueue, Queue, ReadForCancelQueue, CancelQueue, Drop
  <2> QED
    BY <2>1, QuietMoney DEF matchVars
<1>3. CASE Play
  <2>1. ASSUME NEW m \in Matches, NEW chosen, NEW mode, Claim(m, chosen, mode) PROVE MoneyMovesOnce'
    BY <2>1, ClaimMoney
  <2>2. ASSUME NEW u, NEW m, NEW r, \/ ReadForConfirm(u, m) \/ Count(r)
                                    \/ DeadlinePasses(m) \/ ReadForExpiry(m)
        PROVE  MoneyMovesOnce'
    BY <2>2, QuietMoney DEF ReadForConfirm, Count, DeadlinePasses, ReadForExpiry, matchVars
  <2>3. ASSUME NEW r \in BagToSet(asking), Confirm(r) PROVE MoneyMovesOnce'
    BY <2>3, ConfirmMoney
  <2>4. ASSUME NEW m \in Matches, Expire(m) \/ FlagReview(m) PROVE MoneyMovesOnce'
    BY <2>4, ExpireMoney, ReviewMoney
  <2>5. ASSUME NEW u, NEW m \in Matches, Start(u, m) \/ Finish(m) \/ Withhold(m) PROVE MoneyMovesOnce'
    BY <2>5, BoardMoney
  <2>6. ASSUME NEW m \in Matches, NEW winners, Settle(m, winners) PROVE MoneyMovesOnce'
    BY <2>6, SettleMoney
  <2> QED
    BY <1>3, <2>1, <2>2, <2>3, <2>4, <2>5, <2>6 DEF Play
<1> QED
  BY <1>1, <1>2, <1>3 DEF Next

CoopInv == LobbyInv /\ MatchInv /\ MoneyMovesOnce

\* CoopInv is inductive: parties, matches and money, whatever overlaps.
THEOREM Invariant == Spec => []CoopInv
<1>1. Init => CoopInv
  BY InitLobby, InitMatch, InitMoney DEF CoopInv
<1>2. CoopInv /\ [Next]_vars => CoopInv'
  <2> SUFFICES ASSUME CoopInv, [Next]_vars PROVE CoopInv'
    OBVIOUS
  <2>1. LobbyTypeOK /\ MatchTypeOK
    BY DEF CoopInv, LobbyInv, MatchInv
  <2>2. LobbyInv' /\ MatchInv'
    BY <2>1, NextLobby, NextMatch DEF CoopInv
  <2>3. MoneyMovesOnce'
    BY <2>1, NextMoney DEF CoopInv
  <2> QED
    BY <2>2, <2>3 DEF CoopInv
<1> QED
  BY <1>1, <1>2, PTL DEF Spec

\* The rows of parties, invitations, queue entries and matches, and what the
\* requests in flight remember of them, follow the schema.
THEOREM TypeCorrect == Spec => []TypeOK
<1>1. CoopInv => TypeOK
  BY DEF CoopInv, LobbyInv, MatchInv, TypeOK
<1> QED
  BY <1>1, Invariant, PTL

\* However confirmations, deadlines, boards and settlements overlap, fees are
\* captured only of a ranked match everybody has confirmed, from every player
\* and once, and a match is settled once: it pays its winners, or everybody
\* back.
THEOREM MoneyMovesOnceHolds == Spec => []MoneyMovesOnce
<1>1. CoopInv => MoneyMovesOnce
  BY DEF CoopInv
<1> QED
  BY <1>1, Invariant, PTL
=============================================================================
