--------------------------- MODULE MatchmakingProofs ---------------------------
(***************************************************************************)
(* Proofs about Matchmaking: QueueInv is an inductive invariant, for any   *)
(* players, arenas, transaction slots and bounds, and the safety           *)
(* properties of the queue follow from it.  With it SoundInv is inductive: *)
(* the matches of the queue are sound under every interleaving.            *)
(***************************************************************************)
EXTENDS Matchmaking, FiniteSetTheorems, WellFoundedInduction, TLAPS

\* The ids of a table are positive numbers.
LEMMA Ids ==
  ASSUME NEW S, NEW s \in Seq(S)
  PROVE  DOMAIN s \subseteq Nat \ {0} /\ \A i \in DOMAIN s : s[i] \in S
  OBVIOUS

\* An array over the ids of a table is a table.
LEMMA SeqOver ==
  ASSUME NEW S, NEW T, NEW s \in Seq(S), NEW f, f = [i \in DOMAIN s |-> f[i]],
         \A i \in DOMAIN s : f[i] \in T
  PROVE  f \in Seq(T) /\ DOMAIN f = DOMAIN s /\ Len(f) = Len(s)
<1>1. DOMAIN s = 1..Len(s) /\ Len(s) \in Nat
  OBVIOUS
<1>2. f \in [1..Len(s) -> T]
  BY <1>1
<1> QED
  BY <1>1, <1>2

\* A table with one row replaced.
LEMMA OneReplaced ==
  ASSUME NEW S, NEW s \in Seq(S), NEW i \in DOMAIN s, NEW v \in S
  PROVE  LET r == [s EXCEPT ![i] = v]
         IN r \in Seq(S) /\ DOMAIN r = DOMAIN s /\ r[i] = v
            /\ \A j \in DOMAIN s : j # i => r[j] = s[j]
<1> DEFINE r == [s EXCEPT ![i] = v]
<1>1. DOMAIN r = DOMAIN s /\ r[i] = v /\ \A j \in DOMAIN s : j # i => r[j] = s[j]
  OBVIOUS
<1>2. r = [j \in DOMAIN s |-> r[j]]
  OBVIOUS
<1>3. \A j \in DOMAIN s : r[j] \in S
  BY <1>1, Ids
<1> HIDE DEF r
<1>4. r \in Seq(S)
  BY <1>2, <1>3, SeqOver
<1> QED
  BY <1>1, <1>4 DEF r

\* What a write by id leaves and what it changes.
LEMMA WrittenFacts ==
  ASSUME tickets \in Seq(Ticket), NEW rows, NEW status \in Statuses, NEW back
  PROVE  LET w == Written(rows, status, back)
         IN /\ w \in Seq(Ticket)
            /\ DOMAIN w = DOMAIN tickets
            /\ Len(w) = Len(tickets)
            /\ \A i \in DOMAIN tickets :
                 /\ w[i].user = tickets[i].user
                 /\ w[i].choice = tickets[i].choice
                 /\ w[i].key = tickets[i].key
                 /\ w[i].match = tickets[i].match
                 /\ w[i].status = IF i \in rows THEN status ELSE tickets[i].status
                 /\ i \notin rows => w[i].refundedAt = tickets[i].refundedAt
                 /\ i \in rows => w[i].refundedAt = (tickets[i].refundedAt \/ i \in back)
<1> DEFINE w == Written(rows, status, back)
<1>1. \A i \in DOMAIN tickets :
        w[i] = IF i \notin rows THEN tickets[i]
               ELSE [tickets[i] EXCEPT !.status = status,
                                       !.refundedAt = tickets[i].refundedAt \/ i \in back]
  BY DEF Written
<1>2. \A i \in DOMAIN tickets : tickets[i] \in Ticket
  BY Ids
<1>3. ASSUME NEW i \in DOMAIN tickets
      PROVE  w[i] \in Ticket /\ w[i].user = tickets[i].user
             /\ w[i].choice = tickets[i].choice /\ w[i].key = tickets[i].key
             /\ w[i].match = tickets[i].match
             /\ w[i].status = (IF i \in rows THEN status ELSE tickets[i].status)
             /\ (i \notin rows => w[i].refundedAt = tickets[i].refundedAt)
             /\ (i \in rows => w[i].refundedAt = (tickets[i].refundedAt \/ i \in back))
  <2>1. tickets[i] \in Ticket
    BY <1>2
  <2>2. CASE i \in rows
    <3> DEFINE mark == tickets[i].refundedAt \/ i \in back
    <3>1. mark \in BOOLEAN
      OBVIOUS
    <3>2. w[i] = [tickets[i] EXCEPT !.status = status, !.refundedAt = mark]
      BY <1>1, <2>2
    <3> HIDE DEF mark, w
    <3>3. /\ w[i] \in Ticket /\ w[i].user = tickets[i].user
          /\ w[i].choice = tickets[i].choice /\ w[i].key = tickets[i].key
          /\ w[i].match = tickets[i].match
          /\ w[i].status = status /\ w[i].refundedAt = mark
      BY <2>1, <3>1, <3>2 DEF Ticket
    <3> QED
      BY <2>2, <3>3 DEF mark
  <2>3. CASE i \notin rows
    BY <1>1, <2>1, <2>3
  <2> QED
    BY <2>2, <2>3
<1>4. w = [i \in DOMAIN tickets |-> w[i]]
  BY DEF Written
<1> HIDE DEF w
<1>5. w \in Seq(Ticket) /\ DOMAIN w = DOMAIN tickets /\ Len(w) = Len(tickets)
  BY <1>3, <1>4, SeqOver
<1> QED
  BY <1>3, <1>5 DEF w

-----------------------------------------------------------------------------
(* Transaction slots *)

\* Closing a slot leaves the others, and the lock invariant.
LEMMA EndsFacts ==
  ASSUME QueueInv, NEW t \in Txns, Ends(t)
  PROVE  /\ tx' \in [Txns -> Work \cup {NoWork}]
         /\ tx'[t] = NoWork
         /\ \A s \in Txns : s # t => tx'[s] = tx[s]
         /\ LockHeldOnce'
<1>1. tx \in [Txns -> Work \cup {NoWork}]
  BY DEF QueueInv, TypeOK
<1>2. tx' = [tx EXCEPT ![t] = NoWork]
  BY DEF Ends
<1>3. /\ tx' \in [Txns -> Work \cup {NoWork}]
      /\ tx'[t] = NoWork
      /\ \A s \in Txns : s # t => tx'[s] = tx[s]
  BY <1>1, <1>2
<1>4. LockHeldOnce'
  BY <1>3 DEF QueueInv, LockHeldOnce, Open
<1> QED
  BY <1>3, <1>4

\* A step that leaves the tables keeps the invariant if it keeps its parts
\* about transactions.
LEMMA StoreSame ==
  ASSUME QueueInv, UNCHANGED store, tx' \in [Txns -> Work \cup {NoWork}],
         LockHeldOnce', LockedReadStands', BackReadStands'
  PROVE  QueueInv'
<1>1. TypeOK'
  BY DEF QueueInv, TypeOK, store
<1>2. OneTicket' /\ OneTicketPerKey' /\ SeatedOnce' /\ StakeReturned'
  BY DEF QueueInv, OneTicket, OneTicketPerKey, SeatedOnce, StakeReturned, Active,
         Searching, Playing, store
<1>3. MarksAreCredits' /\ SeatedIsDone' /\ KeysAreUsed'
  BY DEF QueueInv, MarksAreCredits, SeatedIsDone, KeysAreUsed, Searching, store
<1> QED
  BY <1>1, <1>2, <1>3 DEF QueueInv

\* A slot that does nothing but end.
LEMMA EndOnly ==
  ASSUME QueueInv, NEW t \in Txns, Ends(t), UNCHANGED store
  PROVE  QueueInv'
<1>1. /\ tx' \in [Txns -> Work \cup {NoWork}]
      /\ tx'[t] = NoWork
      /\ \A s \in Txns : s # t => tx'[s] = tx[s]
      /\ LockHeldOnce'
  BY EndsFacts
<1>2. LockedReadStands'
  BY <1>1 DEF QueueInv, LockedReadStands, Open, Active, Searching, Playing, store
<1>3. BackReadStands'
  BY <1>1 DEF QueueInv, BackReadStands, Open, store
<1> QED
  BY <1>1, <1>2, <1>3, StoreSame

\* A slot that takes up work that is not past the lock, or that takes the lock.
LEMMA ContinueWith ==
  ASSUME QueueInv, NEW t \in Txns, NEW w \in Work, Continues(t, w), UNCHANGED store,
         w.op = "enqueue" /\ w.locked =>
           /\ PlayerLockFree(w.user)
           /\ \A i \in DOMAIN tickets : tickets[i].user = w.user /\ Active(i) => i \in w.rows,
         \A i \in w.rows :
           /\ i \in DOMAIN tickets
           /\ Ranked(tickets[i].choice) => i \in w.back \/ tickets[i].refundedAt
  PROVE  QueueInv'
<1>1. tx \in [Txns -> Work \cup {NoWork}]
  BY DEF QueueInv, TypeOK
<1>2. /\ tx' \in [Txns -> Work \cup {NoWork}]
      /\ tx'[t] = w
      /\ \A s \in Txns : s # t => tx'[s] = tx[s]
  BY <1>1 DEF Continues
<1>3. LockHeldOnce'
  <2> SUFFICES ASSUME NEW r \in Txns, NEW s \in Txns,
                      Open(r)', tx'[r].op = "enqueue", tx'[r].locked,
                      Open(s)', tx'[s].op = "enqueue", tx'[s].locked,
                      tx'[r].user = tx'[s].user
               PROVE  r = s
    BY DEF LockHeldOnce
  <2>1. CASE r # t /\ s # t
    BY <1>2, <2>1 DEF QueueInv, LockHeldOnce, Open
  <2>2. CASE r = t /\ s # t
    BY <1>2, <2>2 DEF PlayerLockFree, Open
  <2>3. CASE r # t /\ s = t
    BY <1>2, <2>3 DEF PlayerLockFree, Open
  <2> QED
    BY <2>1, <2>2, <2>3
<1>4. LockedReadStands'
  <2> SUFFICES ASSUME NEW s \in Txns, Open(s)', tx'[s].op = "enqueue", tx'[s].locked,
                      NEW i \in DOMAIN tickets, tickets[i].user = tx'[s].user, Active(i)
               PROVE  i \in tx'[s].rows
    BY DEF LockedReadStands, Active, Searching, Playing, store
  <2>1. CASE s = t
    BY <1>2, <2>1
  <2>2. CASE s # t
    BY <1>2, <2>2 DEF QueueInv, LockedReadStands, Open
  <2> QED
    BY <2>1, <2>2
<1>5. BackReadStands'
  <2> SUFFICES ASSUME NEW s \in Txns, Open(s)', NEW i \in tx'[s].rows
               PROVE  /\ i \in DOMAIN tickets
                      /\ Ranked(tickets[i].choice) => i \in tx'[s].back \/ tickets[i].refundedAt
    BY DEF BackReadStands, store
  <2>1. CASE s = t
    BY <1>2, <2>1
  <2>2. CASE s # t
    BY <1>2, <2>2 DEF QueueInv, BackReadStands, Open
  <2> QED
    BY <2>1, <2>2
<1> QED
  BY <1>2, <1>3, <1>4, <1>5, StoreSame

LEMMA EnqueueStep ==
  ASSUME QueueInv, NEW t \in Txns, NEW u \in Users, NEW c \in Selections,
         NEW k \in Keys \cup {NoKey}, Enqueue(t, u, c, k)
  PROVE  QueueInv'
<1> DEFINE held == u \in flagged
           w == [op |-> "enqueue", user |-> u, choice |-> c, key |-> k,
                 held |-> held, locked |-> FALSE, rows |-> {}, back |-> {}]
<1>1. w \in Work /\ ~w.locked /\ w.rows = {}
  <2>1. held \in BOOLEAN
    OBVIOUS
  <2> HIDE DEF held
  <2> QED
    BY <2>1 DEF Work
<1>2. Continues(t, w) /\ UNCHANGED store
  BY DEF Enqueue
<1> HIDE DEF w
<1> QED
  BY <1>1, <1>2, ContinueWith

LEMMA RefundableFacts ==
  ASSUME QueueInv, NEW S \in SUBSET DOMAIN tickets
  PROVE  /\ S \in SUBSET (Nat \ {0})
         /\ Refundable(S) \in SUBSET (Nat \ {0})
         /\ \A i \in S : Ranked(tickets[i].choice) => i \in Refundable(S) \/ tickets[i].refundedAt
<1>1. tickets \in Seq(Ticket)
  BY DEF QueueInv, TypeOK
<1> QED
  BY <1>1, Ids DEF Refundable

LEMMA ReadTicketsStep ==
  ASSUME QueueInv, NEW t \in Txns, ReadTickets(t)
  PROVE  QueueInv'
<1> DEFINE w == tx[t]
           stale == {i \in CurrentTickets(w.user) : Searching(i) /\ Stale(i)}
           n == [w EXCEPT !.locked = TRUE, !.rows = stale, !.back = Refundable(stale)]
<1>1. w \in Work /\ w.op = "enqueue"
  BY DEF QueueInv, TypeOK, ReadTickets, Open
<1>2. stale \in SUBSET DOMAIN tickets
  BY DEF CurrentTickets
<1>3. CASE CurrentTickets(w.user) = stale
  <2>1. Continues(t, n) /\ UNCHANGED store /\ PlayerLockFree(w.user)
    BY <1>3 DEF ReadTickets
  <2>2. /\ stale \in SUBSET (Nat \ {0})
        /\ Refundable(stale) \in SUBSET (Nat \ {0})
        /\ \A i \in stale : Ranked(tickets[i].choice) => i \in Refundable(stale) \/ tickets[i].refundedAt
    <3> HIDE DEF stale
    <3> QED
      BY <1>2, RefundableFacts
  <2>3. \A i \in DOMAIN tickets : tickets[i].user = w.user /\ Active(i) => i \in stale
    BY <1>3 DEF CurrentTickets
  <2> HIDE DEF stale
  <2>4. n \in Work /\ n.user = w.user /\ n.rows = stale /\ n.back = Refundable(stale)
    BY <1>1, <2>2 DEF Work
  <2> HIDE DEF n, w
  <2> QED
    BY <1>2, <2>1, <2>2, <2>3, <2>4, ContinueWith
<1>4. CASE CurrentTickets(w.user) # stale
  BY <1>4, EndOnly DEF ReadTickets
<1> QED
  BY <1>3, <1>4

LEMMA ReadForCancelStep ==
  ASSUME QueueInv, NEW t \in Txns, NEW i \in DOMAIN tickets, ReadForCancel(t, i)
  PROVE  QueueInv'
<1> DEFINE w == [op |-> "cancel", user |-> tickets[i].user, choice |-> tickets[i].choice,
                 key |-> NoKey, held |-> FALSE, locked |-> FALSE, rows |-> {i}, back |-> Refundable({i})]
<1>1. tickets[i] \in Ticket
  BY Ids DEF QueueInv, TypeOK
<1>2. /\ {i} \in SUBSET (Nat \ {0})
      /\ Refundable({i}) \in SUBSET (Nat \ {0})
      /\ \A j \in {i} : Ranked(tickets[j].choice) => j \in Refundable({i}) \/ tickets[j].refundedAt
  BY RefundableFacts
<1>3. w \in Work /\ ~w.locked /\ w.rows = {i} /\ w.back = Refundable({i})
  BY <1>1, <1>2 DEF Work, Ticket
<1>4. Continues(t, w) /\ UNCHANGED store
  BY DEF ReadForCancel
<1> HIDE DEF w
<1> QED
  BY <1>2, <1>3, <1>4, ContinueWith

LEMMA ReadOverdueStep ==
  ASSUME QueueInv, NEW t \in Txns, ReadOverdue(t)
  PROVE  QueueInv'
<1> DEFINE i == CHOOSE j \in Overdue : TRUE
           w == [op |-> "sweep", user |-> tickets[i].user, choice |-> tickets[i].choice,
                 key |-> NoKey, held |-> FALSE, locked |-> FALSE, rows |-> Overdue, back |-> Refundable(Overdue)]
<1>1. Overdue \in SUBSET DOMAIN tickets /\ i \in Overdue
  BY DEF ReadOverdue, Overdue
<1>2. tickets[i] \in Ticket
  BY <1>1, Ids DEF QueueInv, TypeOK
<1>3. /\ Overdue \in SUBSET (Nat \ {0})
      /\ Refundable(Overdue) \in SUBSET (Nat \ {0})
      /\ \A j \in Overdue : Ranked(tickets[j].choice) => j \in Refundable(Overdue) \/ tickets[j].refundedAt
  BY <1>1, RefundableFacts
<1>4. Continues(t, w) /\ UNCHANGED store
  BY DEF ReadOverdue
<1> HIDE DEF i
<1>5. w \in Work /\ ~w.locked /\ w.rows = Overdue /\ w.back = Refundable(Overdue)
  BY <1>2, <1>3 DEF Work, Ticket
<1> HIDE DEF w
<1> QED
  BY <1>1, <1>3, <1>4, <1>5, ContinueWith

LEMMA AbortStep ==
  ASSUME QueueInv, NEW t \in Txns, Abort(t)
  PROVE  QueueInv'
  BY EndOnly DEF Abort

-----------------------------------------------------------------------------
(* Writing tickets by id *)

\* The step leaves every ticket but those in rows, which it closes, marking
\* those in back as refunded.
Closes(rows, back) ==
  \A i \in DOMAIN tickets :
    /\ i \in DOMAIN tickets'
    /\ tickets'[i].user = tickets[i].user
    /\ tickets'[i].choice = tickets[i].choice
    /\ tickets'[i].key = tickets[i].key
    /\ tickets'[i].match = tickets[i].match
    /\ i \notin rows => tickets'[i].status = tickets[i].status
    /\ i \notin rows => tickets'[i].refundedAt = tickets[i].refundedAt
    /\ i \in rows => tickets'[i].status \in {"CANCELLED", "EXPIRED"}
    /\ i \in rows => tickets'[i].refundedAt = (tickets[i].refundedAt \/ i \in back)

\* What a transaction that writes the tickets it read leaves true of them.
LEMMA ClosesFacts ==
  ASSUME QueueInv, NEW t \in Txns, Open(t), NEW reason \in {"cancel", "expire"},
         Closes(tx[t].rows, tx[t].back), matches' = matches,
         refunds' = refunds \cup Refunds(tx[t].back, reason)
  PROVE  \A i \in DOMAIN tickets :
           /\ Active(i)' => Active(i) /\ i \notin tx[t].rows
           /\ tickets'[i].status = "MATCHED" => tickets'[i].match \in DOMAIN matches'
           /\ Searching(i)' => Searching(i)
           /\ tickets[i].refundedAt => tickets'[i].refundedAt
           /\ Ranked(tickets'[i].choice) /\ tickets'[i].status \in {"CANCELLED", "EXPIRED"}
                => tickets'[i].refundedAt
           /\ tickets'[i].refundedAt => \E r \in refunds' : r[1] = i
<1> SUFFICES ASSUME NEW i \in DOMAIN tickets
             PROVE  /\ Active(i)' => Active(i) /\ i \notin tx[t].rows
                    /\ tickets'[i].status = "MATCHED" => tickets'[i].match \in DOMAIN matches'
                    /\ Searching(i)' => Searching(i)
                    /\ tickets[i].refundedAt => tickets'[i].refundedAt
                    /\ Ranked(tickets'[i].choice) /\ tickets'[i].status \in {"CANCELLED", "EXPIRED"}
                         => tickets'[i].refundedAt
                    /\ tickets'[i].refundedAt => \E r \in refunds' : r[1] = i
  OBVIOUS
<1>1. /\ tickets[i].status = "MATCHED" => tickets[i].match \in DOMAIN matches
      /\ Ranked(tickets[i].choice) /\ tickets[i].status \in {"CANCELLED", "EXPIRED"}
           => tickets[i].refundedAt
      /\ tickets[i].refundedAt => \E r \in refunds : r[1] = i
  BY DEF QueueInv, TypeOK, MarksAreCredits
<1>2. i \in tx[t].rows /\ Ranked(tickets[i].choice) => i \in tx[t].back \/ tickets[i].refundedAt
  BY DEF QueueInv, BackReadStands
<1>3. i \in tx[t].back => \E r \in refunds' : r[1] = i
  <2>1. i \in tx[t].back => <<i, reason>> \in refunds'
    BY DEF Refunds
  <2> QED
    BY <2>1
<1>4. \A r \in refunds : r \in refunds'
  OBVIOUS
<1>5. CASE i \in tx[t].rows
  BY <1>1, <1>2, <1>3, <1>4, <1>5 DEF Closes, Active, Searching, Playing
<1>6. CASE i \notin tx[t].rows
  BY <1>1, <1>4, <1>6 DEF Closes, Active, Searching, Playing
<1> QED
  BY <1>5, <1>6

\* The refunds a transaction pays are of tickets.
LEMMA RefundsType ==
  ASSUME QueueInv, NEW t \in Txns, Open(t), NEW reason \in {"cancel", "expire"}
  PROVE  refunds \cup Refunds(tx[t].back, reason) \subseteq (Nat \ {0}) \X {"cancel", "expire"}
<1>1. tx[t] \in Work
  BY DEF QueueInv, TypeOK, Open
<1>2. tx[t].back \subseteq Nat \ {0}
  BY <1>1 DEF Work
<1> QED
  BY <1>2 DEF QueueInv, TypeOK, Refunds

\* A cancellation or a sweep: the tickets that were read are closed.
LEMMA CloseStep ==
  ASSUME QueueInv, NEW t \in Txns, Open(t), NEW status \in {"CANCELLED", "EXPIRED"},
         NEW reason \in {"cancel", "expire"},
         tickets' = Written(tx[t].rows, status, tx[t].back),
         refunds' = refunds \cup Refunds(tx[t].back, reason),
         Ends(t), UNCHANGED <<matches, used, flagged>>
  PROVE  QueueInv'
<1>1. tickets \in Seq(Ticket)
  BY DEF QueueInv, TypeOK
<1>2. /\ tickets' \in Seq(Ticket)
      /\ DOMAIN tickets' = DOMAIN tickets
      /\ Closes(tx[t].rows, tx[t].back)
  <2>1. status \in Statuses
    BY DEF Statuses
  <2> QED
    BY <1>1, <2>1, WrittenFacts DEF Closes
<1>3. \A i \in DOMAIN tickets :
        /\ Active(i)' => Active(i) /\ i \notin tx[t].rows
        /\ tickets'[i].status = "MATCHED" => tickets'[i].match \in DOMAIN matches'
        /\ Searching(i)' => Searching(i)
        /\ tickets[i].refundedAt => tickets'[i].refundedAt
        /\ Ranked(tickets'[i].choice) /\ tickets'[i].status \in {"CANCELLED", "EXPIRED"}
             => tickets'[i].refundedAt
        /\ tickets'[i].refundedAt => \E r \in refunds' : r[1] = i
  BY <1>2, ClosesFacts
<1>4. \A i \in DOMAIN tickets : /\ tickets'[i].user = tickets[i].user
                                /\ tickets'[i].choice = tickets[i].choice
                                /\ tickets'[i].key = tickets[i].key
  BY <1>2 DEF Closes
<1>5. /\ tx' \in [Txns -> Work \cup {NoWork}]
      /\ tx'[t] = NoWork
      /\ \A s \in Txns : s # t => tx'[s] = tx[s]
      /\ LockHeldOnce'
  BY EndsFacts
<1>6. TypeOK'
  <2>1. refunds' \subseteq (Nat \ {0}) \X {"cancel", "expire"}
    BY RefundsType
  <2> QED
    BY <1>2, <1>3, <1>5, <2>1 DEF QueueInv, TypeOK
<1>7. OneTicket'
  BY <1>2, <1>3, <1>4 DEF QueueInv, OneTicket
<1>8. OneTicketPerKey' /\ KeysAreUsed'
  BY <1>2, <1>4 DEF QueueInv, OneTicketPerKey, KeysAreUsed
<1>9. SeatedOnce' /\ SeatedIsDone'
  BY <1>2, <1>3, <1>4 DEF QueueInv, SeatedOnce, SeatedIsDone
<1>10. StakeReturned' /\ MarksAreCredits'
  BY <1>2, <1>3 DEF StakeReturned, MarksAreCredits
<1>11. LockedReadStands'
  BY SMTT(30), <1>2, <1>3, <1>4, <1>5 DEF QueueInv, LockedReadStands, Open
<1>12. BackReadStands'
  BY <1>2, <1>3, <1>4, <1>5 DEF QueueInv, BackReadStands, Open
<1> QED
  BY <1>5, <1>6, <1>7, <1>8, <1>9, <1>10, <1>11, <1>12 DEF QueueInv

LEMMA CancelTicketStep ==
  ASSUME QueueInv, NEW t \in Txns, CancelTicket(t)
  PROVE  QueueInv'
  BY CloseStep DEF CancelTicket

LEMMA SweepTicketsStep ==
  ASSUME QueueInv, NEW t \in Txns, SweepTickets(t)
  PROVE  QueueInv'
  BY CloseStep DEF SweepTickets, SweepBack

\* The stale tickets are closed, and one ticket is new.
LEMMA CreateFacts ==
  ASSUME QueueInv, NEW t \in Txns, CreateTicket(t)
  PROVE  LET w == tx[t]
             id == Len(tickets) + 1
             new == tickets'[id]
         IN /\ tickets' \in Seq(Ticket)
            /\ DOMAIN tickets' = DOMAIN tickets \cup {id}
            /\ id \notin DOMAIN tickets
            /\ id \in Nat \ {0}
            /\ new.user = w.user /\ new.choice = w.choice /\ new.key = w.key
            /\ new.status = "SEARCHING" /\ new.refundedAt = FALSE /\ new.match = 0
            /\ Closes(w.rows, w.back)
<1> DEFINE w == tx[t]
           old == Written(w.rows, "EXPIRED", w.back)
           new == NewTicket(w)
           id == Len(tickets) + 1
<1>1. tickets \in Seq(Ticket)
  BY DEF QueueInv, TypeOK
<1>2. w \in Work
  BY DEF CreateTicket, QueueInv, TypeOK, Open
<1>3. new \in Ticket /\ new.user = w.user /\ new.choice = w.choice /\ new.key = w.key
      /\ new.status = "SEARCHING" /\ new.refundedAt = FALSE /\ new.match = 0
  <2> DEFINE fallback == ~Ranked(w.choice)
                         /\ (w.choice.random \/ w.choice.game \in BotGames) /\ ~w.held
  <2>1. fallback \in BOOLEAN
    OBVIOUS
  <2>2. new = [user |-> w.user, choice |-> w.choice, key |-> w.key, status |-> "SEARCHING",
               age |-> "fresh", waited |-> FALSE, refundedAt |-> FALSE, match |-> 0,
               bot |-> fallback]
    BY DEF NewTicket
  <2>3. w.user \in Users /\ w.choice \in Selections /\ w.key \in Keys \cup {NoKey}
    BY <1>2 DEF Work
  <2> HIDE DEF fallback, new, w
  <2> QED
    BY <2>1, <2>2, <2>3 DEF Ticket, Statuses, Ages
<1>4. /\ old \in Seq(Ticket) /\ DOMAIN old = DOMAIN tickets /\ Len(old) = Len(tickets)
      /\ \A i \in DOMAIN tickets :
           /\ old[i].user = tickets[i].user
           /\ old[i].choice = tickets[i].choice
           /\ old[i].key = tickets[i].key
           /\ old[i].match = tickets[i].match
           /\ old[i].status = IF i \in w.rows THEN "EXPIRED" ELSE tickets[i].status
           /\ i \notin w.rows => old[i].refundedAt = tickets[i].refundedAt
           /\ i \in w.rows => old[i].refundedAt = (tickets[i].refundedAt \/ i \in w.back)
  <2>1. "EXPIRED" \in Statuses
    BY DEF Statuses
  <2> HIDE DEF w
  <2> QED
    BY <1>1, <2>1, WrittenFacts
<1>5. tickets' = Append(old, new)
  BY DEF CreateTicket
<1> HIDE DEF new, old
<1>6. /\ tickets' \in Seq(Ticket)
      /\ DOMAIN tickets' = DOMAIN tickets \cup {id}
      /\ id \notin DOMAIN tickets
      /\ id \in Nat \ {0}
      /\ tickets'[id] = new
      /\ \A i \in DOMAIN tickets : tickets'[i] = old[i]
  BY <1>1, <1>3, <1>4, <1>5
<1> HIDE DEF id
<1>7. Closes(w.rows, w.back)
  BY <1>4, <1>6 DEF Closes
<1> QED
  BY <1>3, <1>6, <1>7 DEF id

\* The new ticket is the player's only one.
LEMMA CreateTicketStep ==
  ASSUME QueueInv, NEW t \in Txns, CreateTicket(t)
  PROVE  QueueInv'
<1> DEFINE w == tx[t]
           id == Len(tickets) + 1
           new == tickets'[id]
<1>2. Open(t) /\ w.op = "enqueue" /\ w.locked /\ w \in Work
  BY DEF CreateTicket, QueueInv, TypeOK, Open
<1>3. /\ tickets' \in Seq(Ticket)
      /\ DOMAIN tickets' = DOMAIN tickets \cup {id}
      /\ id \notin DOMAIN tickets
      /\ id \in Nat \ {0}
      /\ new.user = w.user /\ new.choice = w.choice /\ new.key = w.key
      /\ new.status = "SEARCHING" /\ new.refundedAt = FALSE /\ new.match = 0
      /\ Closes(w.rows, w.back)
  BY CreateFacts
<1>6. tickets'[id] = new /\ tickets' \in Seq(Ticket) /\ DOMAIN tickets' = DOMAIN tickets \cup {id}
      /\ id \notin DOMAIN tickets
  BY <1>3
<1>7. Closes(w.rows, w.back)
  BY <1>3
<1> HIDE DEF id, new
<1>8. \A i \in DOMAIN tickets :
        /\ Active(i)' => Active(i) /\ i \notin w.rows
        /\ tickets'[i].status = "MATCHED" => tickets'[i].match \in DOMAIN matches'
        /\ Searching(i)' => Searching(i)
        /\ tickets[i].refundedAt => tickets'[i].refundedAt
        /\ Ranked(tickets'[i].choice) /\ tickets'[i].status \in {"CANCELLED", "EXPIRED"}
             => tickets'[i].refundedAt
        /\ tickets'[i].refundedAt => \E r \in refunds' : r[1] = i
  BY <1>2, <1>7, ClosesFacts DEF CreateTicket
<1>9. \A i \in DOMAIN tickets : /\ tickets'[i].user = tickets[i].user
                                /\ tickets'[i].choice = tickets[i].choice
                                /\ tickets'[i].key = tickets[i].key
  BY <1>7 DEF Closes
<1>10. /\ tx' \in [Txns -> Work \cup {NoWork}]
       /\ tx'[t] = NoWork
       /\ \A s \in Txns : s # t => tx'[s] = tx[s]
       /\ LockHeldOnce'
  BY EndsFacts DEF CreateTicket
<1>11. matches' = matches /\ flagged' = flagged
  BY DEF CreateTicket
<1>12. used' = IF w.key = NoKey THEN used ELSE used \cup {<<w.user, w.key>>}
  BY DEF CreateTicket
<1>13. TypeOK'
  <2>1. refunds' \subseteq (Nat \ {0}) \X {"cancel", "expire"}
    BY <1>2, RefundsType DEF CreateTicket
  <2>2. used' \subseteq Users \X Keys
    BY <1>2, <1>12 DEF QueueInv, TypeOK, Work
  <2>3. ASSUME NEW i \in DOMAIN tickets'
        PROVE  tickets'[i].status = "MATCHED" => tickets'[i].match \in DOMAIN matches'
    BY <1>3, <1>6, <1>8
  <2> QED
    BY <1>6, <1>10, <1>11, <2>1, <2>2, <2>3 DEF QueueInv, TypeOK
<1>14. OneTicket'
  <2>1. ASSUME NEW i \in DOMAIN tickets, tickets[i].user = w.user
        PROVE  ~Active(i)'
    BY <1>2, <1>8, <2>1 DEF QueueInv, LockedReadStands
  <2>2. ASSUME NEW i \in DOMAIN tickets', NEW j \in DOMAIN tickets',
               tickets'[i].user = tickets'[j].user, Active(i)', Active(j)'
        PROVE  i = j
    <3>1. CASE i = id \/ j = id
      BY <1>3, <1>6, <1>9, <2>1, <2>2, <3>1
    <3>2. CASE i # id /\ j # id
      BY <1>6, <1>8, <1>9, <2>2, <3>2 DEF QueueInv, OneTicket
    <3> QED
      BY <3>1, <3>2
  <2> QED
    BY <2>2 DEF OneTicket
<1>15. OneTicketPerKey' /\ KeysAreUsed'
  <2>1. w.key # NoKey => <<w.user, w.key>> \notin used
    BY DEF CreateTicket, KeyFree
  <2>2. \A i \in DOMAIN tickets :
          tickets[i].key # NoKey => <<tickets[i].user, tickets[i].key>> \in used
    BY DEF QueueInv, KeysAreUsed
  <2>3. KeysAreUsed'
    <3> SUFFICES ASSUME NEW i \in DOMAIN tickets', tickets'[i].key # NoKey
                 PROVE  <<tickets'[i].user, tickets'[i].key>> \in used'
      BY DEF KeysAreUsed
    <3>1. CASE i = id
      BY <1>3, <1>6, <1>12, <3>1
    <3>2. CASE i # id
      <4>1. i \in DOMAIN tickets
        BY <1>6, <3>2
      <4>2. <<tickets'[i].user, tickets'[i].key>> \in used
        BY <1>9, <2>2, <4>1
      <4> QED
        BY <1>12, <4>2
    <3> QED
      BY <3>1, <3>2
  <2>4. ASSUME NEW i \in DOMAIN tickets', NEW j \in DOMAIN tickets',
               tickets'[i].key # NoKey, tickets'[i].user = tickets'[j].user,
               tickets'[i].key = tickets'[j].key
        PROVE  i = j
    <3>1. CASE i = id \/ j = id
      <4>1. ASSUME NEW k \in DOMAIN tickets, tickets[k].user = w.user, tickets[k].key = w.key,
                   w.key # NoKey
            PROVE  FALSE
        BY <2>1, <2>2, <4>1
      <4> QED
        BY <1>3, <1>6, <1>9, <2>4, <3>1, <4>1
    <3>2. CASE i # id /\ j # id
      BY <1>6, <1>9, <2>4, <3>2 DEF QueueInv, OneTicketPerKey
    <3> QED
      BY <3>1, <3>2
  <2>5. OneTicketPerKey'
    BY <2>4 DEF OneTicketPerKey
  <2> QED
    BY <2>3, <2>5
<1>16. SeatedOnce' /\ SeatedIsDone'
  <2>1. \A m \in DOMAIN matches : \A i \in matches[m].seats : i \in DOMAIN tickets
    BY DEF QueueInv, SeatedIsDone
  <2>2. SeatedOnce'
    BY <1>9, <1>11, <2>1 DEF QueueInv, SeatedOnce
  <2>3. SeatedIsDone'
    BY <1>6, <1>8, <1>11, <2>1 DEF QueueInv, SeatedIsDone
  <2> QED
    BY <2>2, <2>3
<1>17. StakeReturned' /\ MarksAreCredits'
  <2>1. ASSUME NEW i \in DOMAIN tickets'
        PROVE  /\ Ranked(tickets'[i].choice) /\ tickets'[i].status \in {"CANCELLED", "EXPIRED"}
                    => tickets'[i].refundedAt
               /\ tickets'[i].refundedAt => \E r \in refunds' : r[1] = i
    BY <1>3, <1>6, <1>8
  <2> QED
    BY <2>1 DEF StakeReturned, MarksAreCredits
<1>18. LockedReadStands'
  <2> SUFFICES ASSUME NEW s \in Txns, Open(s)', tx'[s].op = "enqueue", tx'[s].locked,
                      NEW i \in DOMAIN tickets', tickets'[i].user = tx'[s].user, Active(i)'
               PROVE  i \in tx'[s].rows
    BY DEF LockedReadStands
  <2>1. s # t /\ tx'[s] = tx[s] /\ Open(s)
    BY <1>10 DEF Open
  <2>2. tx[s].user # w.user
    BY <1>2, <2>1 DEF QueueInv, LockHeldOnce
  <2>3. i \in DOMAIN tickets
    BY <1>3, <1>6, <2>1, <2>2
  <2> QED
    BY <1>8, <1>9, <2>1, <2>3 DEF QueueInv, LockedReadStands
<1>19. BackReadStands'
  <2> SUFFICES ASSUME NEW s \in Txns, Open(s)', NEW i \in tx'[s].rows
               PROVE  /\ i \in DOMAIN tickets'
                      /\ Ranked(tickets'[i].choice) => i \in tx'[s].back \/ tickets'[i].refundedAt
    BY DEF BackReadStands
  <2>1. tx'[s] = tx[s] /\ Open(s)
    BY <1>10 DEF Open
  <2>2. /\ i \in DOMAIN tickets
        /\ Ranked(tickets[i].choice) => i \in tx[s].back \/ tickets[i].refundedAt
    BY <2>1 DEF QueueInv, BackReadStands
  <2> QED
    BY <1>6, <1>8, <1>9, <2>1, <2>2
<1> QED
  BY <1>10, <1>13, <1>14, <1>15, <1>16, <1>17, <1>18, <1>19 DEF QueueInv

-----------------------------------------------------------------------------
(* The matcher, and what happens to tickets and matches besides *)

\* The seats of a match are waiting tickets.
LEMMA SeatsWait ==
  ASSUME NEW queue \in SUBSET Waiting, NEW first \in queue
  PROVE  Seats(first, queue) \subseteq Waiting
  BY DEF Seats, Pair, FurtherSeats, Oldest, Rivals

\* The seats of a match and the bots that fill it are finitely many.
LEMMA BotsNat ==
  ASSUME tickets \in Seq(Ticket), NEW seats \in SUBSET DOMAIN tickets, NEW game
  PROVE  Bots(seats, game) \in Nat
<1>1. DOMAIN tickets = 1..Len(tickets) /\ Len(tickets) \in Nat
  OBVIOUS
<1>2. IsFiniteSet(seats)
  <2>1. IsFiniteSet(1..Len(tickets))
    BY <1>1, FS_Interval
  <2> QED
    BY <1>1, <2>1, FS_Subset
<1>3. Cardinality(seats) \in Nat
  BY <1>2, FS_CardinalityType
<1> QED
  BY <1>3 DEF Bots

\* The game of a match is one that is queued for or open to bots.
LEMMA GameTyped ==
  ASSUME tickets \in Seq(Ticket), NEW first \in DOMAIN tickets, NEW seats,
         NEW game \in GamesFor(first, seats)
  PROVE  game \in {c.game : c \in Selections} \cup BotGames
<1>1. tickets[first] \in Ticket
  BY Ids
<1>2. tickets[first].choice \in Selections
  BY <1>1 DEF Ticket
<1> QED
  BY <1>2 DEF GamesFor

\* What the claim writes to the tickets.
LEMMA SeatedFacts ==
  ASSUME tickets \in Seq(Ticket), matches \in Seq(Match), NEW seats
  PROVE  LET s == Seated(seats)
         IN /\ s \in Seq(Ticket)
            /\ DOMAIN s = DOMAIN tickets
            /\ \A i \in DOMAIN tickets :
                 /\ s[i].user = tickets[i].user
                 /\ s[i].choice = tickets[i].choice
                 /\ s[i].key = tickets[i].key
                 /\ s[i].refundedAt = tickets[i].refundedAt
                 /\ i \notin seats => s[i] = tickets[i]
                 /\ i \in seats => s[i].status = "MATCHED" /\ s[i].match = Len(matches) + 1
<1> DEFINE s == Seated(seats)
           id == Len(matches) + 1
<1>1. \A i \in DOMAIN tickets :
        s[i] = IF i \notin seats THEN tickets[i]
               ELSE [tickets[i] EXCEPT !.status = "MATCHED", !.match = id]
  BY DEF Seated
<1>2. s = [i \in DOMAIN tickets |-> s[i]]
  BY DEF Seated
<1>3. id \in Nat
  OBVIOUS
<1> HIDE DEF s, id
<1>4. ASSUME NEW i \in DOMAIN tickets
      PROVE  /\ s[i] \in Ticket
             /\ s[i].user = tickets[i].user
             /\ s[i].choice = tickets[i].choice
             /\ s[i].key = tickets[i].key
             /\ s[i].refundedAt = tickets[i].refundedAt
             /\ i \notin seats => s[i] = tickets[i]
             /\ i \in seats => s[i].status = "MATCHED" /\ s[i].match = id
  <2>1. tickets[i] \in Ticket
    BY Ids
  <2>2. CASE i \in seats
    <3>1. s[i] = [tickets[i] EXCEPT !.status = "MATCHED", !.match = id]
      BY <1>1, <2>2
    <3> QED
      BY <1>3, <2>1, <2>2, <3>1 DEF Ticket, Statuses
  <2>3. CASE i \notin seats
    BY <1>1, <2>1, <2>3
  <2> QED
    BY <2>2, <2>3
<1>5. s \in Seq(Ticket) /\ DOMAIN s = DOMAIN tickets
  BY <1>2, <1>4, SeqOver
<1> QED
  BY <1>4, <1>5 DEF s, id

\* A claim seats each of its tickets, and each of its players, once.
LEMMA ClaimPairStep ==
  ASSUME QueueInv, ClaimPair
  PROVE  QueueInv'
<1>1. PICK skipped \in SUBSET (Contended \cap Waiting) :
        LET queue == Waiting \ skipped
        IN \E first \in Oldest({i \in queue : Eligible(i)}, 1) :
             LET seats == Seats(first, queue)
             IN /\ Seatable(first, queue)
                /\ tickets' = Seated(seats)
                /\ \E game \in GamesFor(first, seats) :
                     matches' = Append(matches,
                       [seats |-> seats, bots |-> Bots(seats, game), live |-> TRUE,
                        arena |-> tickets[first].choice.arena, game |-> game])
                /\ UNCHANGED <<refunds, used, flagged, tx>>
  BY DEF ClaimPair
<1> DEFINE queue == Waiting \ skipped
<1>2. PICK first \in Oldest({i \in queue : Eligible(i)}, 1) :
        LET seats == Seats(first, queue)
        IN /\ Seatable(first, queue)
           /\ tickets' = Seated(seats)
           /\ \E game \in GamesFor(first, seats) :
                matches' = Append(matches,
                  [seats |-> seats, bots |-> Bots(seats, game), live |-> TRUE,
                   arena |-> tickets[first].choice.arena, game |-> game])
           /\ UNCHANGED <<refunds, used, flagged, tx>>
  BY <1>1
<1> DEFINE seats == Seats(first, queue)
<1>3. PICK game \in GamesFor(first, seats) :
        matches' = Append(matches,
          [seats |-> seats, bots |-> Bots(seats, game), live |-> TRUE,
           arena |-> tickets[first].choice.arena, game |-> game])
  BY <1>2
<1> DEFINE new == [seats |-> seats, bots |-> Bots(seats, game), live |-> TRUE,
                   arena |-> tickets[first].choice.arena, game |-> game]
           id == Len(matches) + 1
<1>4. tickets' = Seated(seats) /\ UNCHANGED <<refunds, used, flagged, tx>>
  BY <1>2
<1>5. first \in queue /\ queue \in SUBSET Waiting
  BY DEF Oldest
<1> HIDE DEF queue
<1>6. seats \subseteq Waiting
  BY <1>5, SeatsWait
<1> HIDE DEF seats
<1>7. tickets \in Seq(Ticket) /\ matches \in Seq(Match)
  BY DEF QueueInv, TypeOK
<1>8. seats \subseteq DOMAIN tickets /\ \A i \in seats : Searching(i)
  BY <1>6 DEF Waiting
<1>9. Bots(seats, game) \in Nat
  BY <1>7, <1>8, BotsNat
<1>10. tickets[first].choice.arena \in Arenas \cup {Casual}
  <2>1. tickets[first] \in Ticket
    BY <1>5, <1>7, Ids DEF Waiting
  <2> QED
    BY <2>1 DEF Ticket, Arenas
<1>11. seats \in SUBSET (Nat \ {0})
  BY <1>7, <1>8, Ids
<1>12. new \in Match /\ new.seats = seats /\ new.live
  <2>1. first \in DOMAIN tickets
    BY <1>5 DEF Waiting
  <2>2. game \in {c.game : c \in Selections} \cup BotGames
    BY <1>7, <2>1, GameTyped
  <2> QED
    BY <1>9, <1>10, <1>11, <2>2 DEF Match
<1>13. matches' = Append(matches, new)
  BY <1>3
<1> HIDE DEF new
<1>14. /\ matches' \in Seq(Match)
       /\ DOMAIN matches' = DOMAIN matches \cup {id}
       /\ id \notin DOMAIN matches
       /\ matches'[id] = new
       /\ \A m \in DOMAIN matches : matches'[m] = matches[m]
  BY <1>7, <1>12, <1>13
<1>15. /\ tickets' \in Seq(Ticket)
       /\ DOMAIN tickets' = DOMAIN tickets
       /\ \A i \in DOMAIN tickets :
            /\ tickets'[i].user = tickets[i].user
            /\ tickets'[i].choice = tickets[i].choice
            /\ tickets'[i].key = tickets[i].key
            /\ tickets'[i].refundedAt = tickets[i].refundedAt
            /\ i \notin seats => tickets'[i] = tickets[i]
            /\ i \in seats => tickets'[i].status = "MATCHED" /\ tickets'[i].match = id
  BY <1>4, <1>7, SeatedFacts
<1> HIDE DEF id
<1>16. \A i \in DOMAIN tickets :
         tickets[i].status = "MATCHED" => tickets[i].match \in DOMAIN matches
  BY DEF QueueInv, TypeOK
<1>17. ASSUME NEW i \in DOMAIN tickets
       PROVE  /\ Active(i)' => Active(i)
              /\ Searching(i)' => Searching(i) /\ i \notin seats
              /\ tickets'[i].status = "MATCHED" => tickets'[i].match \in DOMAIN matches'
              /\ tickets'[i].status \in {"CANCELLED", "EXPIRED"}
                   => tickets[i].status \in {"CANCELLED", "EXPIRED"}
  BY <1>8, <1>14, <1>15, <1>16 DEF Active, Searching, Playing
<1>18. TypeOK'
  BY <1>4, <1>14, <1>15, <1>17 DEF QueueInv, TypeOK
<1>19. OneTicket'
  BY <1>15, <1>17 DEF QueueInv, OneTicket
<1>20. OneTicketPerKey' /\ KeysAreUsed'
  BY <1>4, <1>15 DEF QueueInv, OneTicketPerKey, KeysAreUsed
<1>21. SeatedOnce'
  <2>1. ASSUME NEW m \in DOMAIN matches
        PROVE  matches[m].seats \subseteq DOMAIN tickets /\ matches[m].seats \cap seats = {}
    BY <1>8 DEF QueueInv, SeatedIsDone
  <2>2. ASSUME NEW m \in DOMAIN matches', NEW n \in DOMAIN matches', m # n
        PROVE  matches'[m].seats \cap matches'[n].seats = {}
    <3>1. CASE m = id
      BY <1>12, <1>14, <2>1, <2>2, <3>1
    <3>2. CASE n = id
      BY <1>12, <1>14, <2>1, <2>2, <3>2
    <3>3. CASE m # id /\ n # id
      BY <1>14, <2>2, <3>3 DEF QueueInv, SeatedOnce
    <3> QED
      BY <3>1, <3>2, <3>3
  <2>3. ASSUME NEW m \in DOMAIN matches', NEW i \in matches'[m].seats, NEW j \in matches'[m].seats,
               tickets'[i].user = tickets'[j].user
        PROVE  i = j
    <3>1. CASE m = id
      <4>1. i \in seats /\ j \in seats
        BY <1>12, <1>14, <3>1
      <4> QED
        BY <1>8, <1>15, <2>3, <4>1 DEF QueueInv, OneTicket, Active
    <3>2. CASE m # id
      <4>1. m \in DOMAIN matches /\ i \in matches[m].seats /\ j \in matches[m].seats
        BY <1>14, <3>2
      <4> QED
        BY <1>15, <2>1, <2>3, <4>1 DEF QueueInv, SeatedOnce
    <3> QED
      BY <3>1, <3>2
  <2> QED
    BY <2>2, <2>3 DEF SeatedOnce
<1>22. SeatedIsDone'
  <2> SUFFICES ASSUME NEW m \in DOMAIN matches', NEW i \in matches'[m].seats
               PROVE  i \in DOMAIN tickets' /\ ~Searching(i)'
    BY DEF SeatedIsDone
  <2>1. CASE m = id
    BY <1>8, <1>12, <1>14, <1>15, <1>17, <2>1
  <2>2. CASE m # id
    BY <1>14, <1>15, <1>17, <2>2 DEF QueueInv, SeatedIsDone
  <2> QED
    BY <2>1, <2>2
<1>23. StakeReturned' /\ MarksAreCredits'
  <2>1. StakeReturned'
    BY <1>4, <1>15, <1>17 DEF QueueInv, StakeReturned
  <2>2. MarksAreCredits'
    BY <1>4, <1>15, <1>17 DEF QueueInv, MarksAreCredits
  <2> QED
    BY <2>1, <2>2
<1>24. LockHeldOnce'
  BY <1>4 DEF QueueInv, LockHeldOnce, Open
<1>25. LockedReadStands'
  BY <1>4, <1>15, <1>17 DEF QueueInv, LockedReadStands, Open
<1>26. BackReadStands'
  BY <1>4, <1>15 DEF QueueInv, BackReadStands, Open
<1> QED
  BY <1>18, <1>19, <1>20, <1>21, <1>22, <1>23, <1>24, <1>25, <1>26 DEF QueueInv

\* A write to a ticket's times is none to what the invariant is about.
LEMMA TouchStep ==
  ASSUME QueueInv, UNCHANGED <<matches, refunds, used, flagged, tx>>,
         tickets' \in Seq(Ticket), DOMAIN tickets' = DOMAIN tickets,
         \A i \in DOMAIN tickets :
           /\ tickets'[i].user = tickets[i].user
           /\ tickets'[i].choice = tickets[i].choice
           /\ tickets'[i].key = tickets[i].key
           /\ tickets'[i].status = tickets[i].status
           /\ tickets'[i].match = tickets[i].match
           /\ tickets'[i].refundedAt = tickets[i].refundedAt
  PROVE  QueueInv'
<1>1. TypeOK'
  BY DEF QueueInv, TypeOK
<1>2. \A i \in DOMAIN tickets : Active(i)' = Active(i) /\ Searching(i)' = Searching(i)
  BY DEF Active, Searching, Playing
<1>3. OneTicket' /\ OneTicketPerKey' /\ KeysAreUsed'
  BY <1>2 DEF QueueInv, OneTicket, OneTicketPerKey, KeysAreUsed
<1>4. SeatedIsDone' /\ SeatedOnce'
  BY <1>2 DEF QueueInv, SeatedIsDone, SeatedOnce
<1>5. StakeReturned' /\ MarksAreCredits'
  BY DEF QueueInv, StakeReturned, MarksAreCredits
<1>6. LockHeldOnce'
  BY DEF QueueInv, LockHeldOnce, Open
<1>7. LockedReadStands' /\ BackReadStands'
  BY <1>2 DEF QueueInv, LockedReadStands, BackReadStands, Open
<1> QED
  BY <1>1, <1>3, <1>4, <1>5, <1>6, <1>7 DEF QueueInv

LEMMA RefreshStep ==
  ASSUME QueueInv, NEW i \in DOMAIN tickets, Refresh(i)
  PROVE  QueueInv'
<1> DEFINE v == [tickets[i] EXCEPT !.age = "fresh"]
<1>1. tickets \in Seq(Ticket)
  BY DEF QueueInv, TypeOK
<1>2. /\ v \in Ticket
      /\ v.user = tickets[i].user /\ v.choice = tickets[i].choice /\ v.key = tickets[i].key
      /\ v.status = tickets[i].status /\ v.match = tickets[i].match
      /\ v.refundedAt = tickets[i].refundedAt
  <2>1. tickets[i] \in Ticket
    BY <1>1, Ids
  <2> QED
    BY <2>1 DEF Ticket, Ages
<1>3. tickets' = [tickets EXCEPT ![i] = v] /\ UNCHANGED <<matches, refunds, used, flagged, tx>>
  BY DEF Refresh
<1> HIDE DEF v
<1> QED
  BY <1>1, <1>2, <1>3, OneReplaced, TouchStep

LEMMA GrowOldStep ==
  ASSUME QueueInv, NEW i \in DOMAIN tickets, NEW a \in Ages, GrowOld(i, a)
  PROVE  QueueInv'
<1> DEFINE v == [tickets[i] EXCEPT !.age = a]
<1>1. tickets \in Seq(Ticket)
  BY DEF QueueInv, TypeOK
<1>2. /\ v \in Ticket
      /\ v.user = tickets[i].user /\ v.choice = tickets[i].choice /\ v.key = tickets[i].key
      /\ v.status = tickets[i].status /\ v.match = tickets[i].match
      /\ v.refundedAt = tickets[i].refundedAt
  <2>1. tickets[i] \in Ticket
    BY <1>1, Ids
  <2> QED
    BY <2>1 DEF Ticket
<1>3. tickets' = [tickets EXCEPT ![i] = v] /\ UNCHANGED <<matches, refunds, used, flagged, tx>>
  BY DEF GrowOld
<1> HIDE DEF v
<1> QED
  BY <1>1, <1>2, <1>3, OneReplaced, TouchStep

LEMMA BotDelayPassesStep ==
  ASSUME QueueInv, NEW i \in DOMAIN tickets, BotDelayPasses(i)
  PROVE  QueueInv'
<1> DEFINE v == [tickets[i] EXCEPT !.waited = TRUE]
<1>1. tickets \in Seq(Ticket)
  BY DEF QueueInv, TypeOK
<1>2. /\ v \in Ticket
      /\ v.user = tickets[i].user /\ v.choice = tickets[i].choice /\ v.key = tickets[i].key
      /\ v.status = tickets[i].status /\ v.match = tickets[i].match
      /\ v.refundedAt = tickets[i].refundedAt
  <2>1. tickets[i] \in Ticket
    BY <1>1, Ids
  <2> QED
    BY <2>1 DEF Ticket
<1>3. tickets' = [tickets EXCEPT ![i] = v] /\ UNCHANGED <<matches, refunds, used, flagged, tx>>
  BY DEF BotDelayPasses
<1> HIDE DEF v
<1> QED
  BY <1>1, <1>2, <1>3, OneReplaced, TouchStep

LEMMA ReviewPlayerStep ==
  ASSUME QueueInv, NEW u \in Suspects, ReviewPlayer(u)
  PROVE  QueueInv'
<1>1. u \in Users
  BY SuspectsAssumption
<1>2. UNCHANGED <<tickets, matches, refunds, used, tx>> /\ flagged' \in {flagged \cup {u}, flagged \ {u}}
  BY DEF ReviewPlayer
<1>3. TypeOK'
  BY <1>1, <1>2 DEF QueueInv, TypeOK
<1>4. OneTicket' /\ OneTicketPerKey' /\ SeatedOnce' /\ StakeReturned' /\ LockHeldOnce'
  BY <1>2 DEF QueueInv, OneTicket, OneTicketPerKey, SeatedOnce, StakeReturned, LockHeldOnce,
              Active, Searching, Playing, Open
<1>5. LockedReadStands' /\ BackReadStands' /\ MarksAreCredits' /\ SeatedIsDone' /\ KeysAreUsed'
  BY <1>2 DEF QueueInv, LockedReadStands, BackReadStands, MarksAreCredits, SeatedIsDone,
              KeysAreUsed, Active, Searching, Playing, Open
<1> QED
  BY <1>3, <1>4, <1>5 DEF QueueInv

LEMMA MatchOverStep ==
  ASSUME QueueInv, NEW m \in DOMAIN matches, MatchOver(m)
  PROVE  QueueInv'
<1>1. matches \in Seq(Match)
  BY DEF QueueInv, TypeOK
<1> DEFINE over == [matches[m] EXCEPT !.live = FALSE]
<1>2. /\ matches' = [matches EXCEPT ![m] = over]
      /\ UNCHANGED <<tickets, refunds, used, flagged, tx>>
  BY DEF MatchOver
<1>3. /\ matches' \in Seq(Match) /\ DOMAIN matches' = DOMAIN matches
      /\ \A n \in DOMAIN matches : /\ matches'[n].seats = matches[n].seats
                                   /\ matches'[n].live => matches[n].live
  <2>1. matches[m] \in Match
    BY <1>1, Ids
  <2>2. over \in Match /\ over.seats = matches[m].seats /\ ~over.live
    BY <2>1 DEF Match
  <2> HIDE DEF over
  <2> QED
    BY <1>1, <1>2, <2>2, OneReplaced
<1>4. TypeOK'
  BY <1>2, <1>3 DEF QueueInv, TypeOK
<1>5. \A i \in DOMAIN tickets : Active(i)' => Active(i)
  BY <1>2, <1>3 DEF Active, Searching, Playing, QueueInv, TypeOK
<1>6. OneTicket' /\ OneTicketPerKey' /\ KeysAreUsed'
  BY <1>2, <1>5 DEF QueueInv, OneTicket, OneTicketPerKey, KeysAreUsed
<1>7. SeatedOnce' /\ SeatedIsDone'
  BY <1>2, <1>3 DEF QueueInv, SeatedOnce, SeatedIsDone, Searching
<1>8. StakeReturned' /\ MarksAreCredits' /\ LockHeldOnce'
  BY <1>2 DEF QueueInv, StakeReturned, MarksAreCredits, LockHeldOnce, Open
<1>9. LockedReadStands' /\ BackReadStands'
  BY <1>2, <1>5 DEF QueueInv, LockedReadStands, BackReadStands, Open
<1> QED
  BY <1>4, <1>6, <1>7, <1>8, <1>9 DEF QueueInv

-----------------------------------------------------------------------------
LEMMA InitInv == Init => QueueInv
<1> SUFFICES ASSUME Init PROVE QueueInv
  OBVIOUS
<1>1. /\ tickets = <<>> /\ matches = <<>> /\ refunds = {} /\ used = {} /\ flagged = {}
      /\ tx = [t \in Txns |-> NoWork]
      /\ DOMAIN tickets = {} /\ DOMAIN matches = {}
  BY DEF Init
<1>2. \A t \in Txns : ~Open(t)
  BY <1>1 DEF Open
<1>3. TypeOK
  BY <1>1 DEF TypeOK
<1> QED
  BY <1>1, <1>2, <1>3 DEF QueueInv, OneTicket, OneTicketPerKey, SeatedOnce, StakeReturned,
     LockHeldOnce, LockedReadStands, BackReadStands, MarksAreCredits, SeatedIsDone, KeysAreUsed

\* Every step of the queue keeps the invariant.
LEMMA NextInv == QueueInv /\ [Next]_vars => QueueInv'
<1> SUFFICES ASSUME QueueInv, [Next]_vars PROVE QueueInv'
  OBVIOUS
<1>1. ASSUME NEW t \in Txns, NEW u \in Users, NEW k \in Keys \cup {NoKey}, NEW c \in Wanted[u],
             Enqueue(t, u, c, k)
      PROVE  QueueInv'
  BY <1>1, EnqueueStep, WantedAssumption
<1>2. ASSUME NEW t \in Txns, NEW i \in DOMAIN tickets, ReadForCancel(t, i)
      PROVE  QueueInv'
  BY <1>2, ReadForCancelStep
<1>3. ASSUME NEW t \in Txns,
             \/ ReadTickets(t) \/ CreateTicket(t) \/ CancelTicket(t)
             \/ ReadOverdue(t) \/ SweepTickets(t) \/ Abort(t)
      PROVE  QueueInv'
  BY <1>3, ReadTicketsStep, CreateTicketStep, CancelTicketStep, ReadOverdueStep,
     SweepTicketsStep, AbortStep
<1>4. ASSUME ClaimPair
      PROVE  QueueInv'
  BY <1>4, ClaimPairStep
<1>5. ASSUME NEW i \in DOMAIN tickets,
             Refresh(i) \/ BotDelayPasses(i) \/ \E a \in Ages : GrowOld(i, a)
      PROVE  QueueInv'
  BY <1>5, RefreshStep, BotDelayPassesStep, GrowOldStep
<1>6. ASSUME NEW u \in Suspects, ReviewPlayer(u)
      PROVE  QueueInv'
  BY <1>6, ReviewPlayerStep
<1>7. ASSUME NEW m \in DOMAIN matches, MatchOver(m)
      PROVE  QueueInv'
  BY <1>7, MatchOverStep
<1>8. ASSUME UNCHANGED vars
      PROVE  QueueInv'
  <2>1. UNCHANGED store /\ tx' = tx
    BY <1>8 DEF vars
  <2>2. /\ tx' \in [Txns -> Work \cup {NoWork}]
        /\ LockHeldOnce' /\ LockedReadStands' /\ BackReadStands'
    BY <2>1 DEF QueueInv, TypeOK, LockHeldOnce, LockedReadStands, BackReadStands, Open,
                Active, Searching, Playing, store
  <2> QED
    BY <2>1, <2>2, StoreSame
<1> QED
  BY <1>1, <1>2, <1>3, <1>4, <1>5, <1>6, <1>7, <1>8 DEF Next

\* QueueInv holds in every state of the queue, however its transactions
\* interleave: it is inductive.
THEOREM Invariant == Spec => []QueueInv
  BY InitInv, NextInv, PTL DEF Spec

\* The tables and the open transactions have their types.
THEOREM TypeCorrect == Spec => []TypeOK
<1>1. QueueInv => TypeOK
  BY DEF QueueInv
<1> QED
  BY <1>1, Invariant, PTL

\* A player has at most one ticket that searches or belongs to a live match.
THEOREM OneTicketHolds == Spec => []OneTicket
<1>1. QueueInv => OneTicket
  BY DEF QueueInv
<1> QED
  BY <1>1, Invariant, PTL

\* Taps and retries of one player come to one ticket.
THEOREM SingleTicketsHold == Spec => []SingleTickets
<1>1. QueueInv => SingleTickets
  BY DEF QueueInv, SingleTickets
<1> QED
  BY <1>1, Invariant, PTL

\* A queue request is carried out once for its idempotency key.
THEOREM OneTicketPerKeyHolds == Spec => []OneTicketPerKey
<1>1. QueueInv => OneTicketPerKey
  BY DEF QueueInv
<1> QED
  BY <1>1, Invariant, PTL

\* No ticket is seated in two matches, and no player twice in one.
THEOREM SeatedOnceHolds == Spec => []SeatedOnce
<1>1. QueueInv => SeatedOnce
  BY DEF QueueInv
<1> QED
  BY <1>1, Invariant, PTL

\* A ranked player whose ticket was cancelled or expired has the stake back.
THEOREM StakeReturnedHolds == Spec => []StakeReturned
<1>1. QueueInv => StakeReturned
  BY DEF QueueInv
<1> QED
  BY <1>1, Invariant, PTL

-----------------------------------------------------------------------------
(* Matches that are sound *)

\* What a ticket chose is a selection.
LEMMA ChoiceTyped ==
  ASSUME tickets \in Seq(Ticket), NEW i \in DOMAIN tickets
  PROVE  tickets[i].choice \in Selections /\ tickets[i].choice.arena \in Arenas \cup {Casual}
<1>1. tickets[i] \in Ticket
  BY Ids
<1> QED
  BY <1>1 DEF Ticket, Arenas

\* The match of the ticket chosen first, its rivals and a game.
NewMatch(queue, first, game) ==
  [seats |-> Seats(first, queue), bots |-> Bots(Seats(first, queue), game), live |-> TRUE,
   arena |-> tickets[first].choice.arena, game |-> game]

Claims(queue, first, game) ==
  /\ Seatable(first, queue)
  /\ NewMatch(queue, first, game) \in Match
  /\ tickets' = Seated(Seats(first, queue))
  /\ matches' = Append(matches, NewMatch(queue, first, game))
  /\ UNCHANGED <<refunds, used, flagged, tx>>

\* What a claim does.
LEMMA ClaimFacts ==
  ASSUME QueueInv, ClaimPair
  PROVE  \E queue \in SUBSET Waiting : \E first \in queue :
           \E game \in GamesFor(first, Seats(first, queue)) :
             Claims(queue, first, game)
<1>1. PICK skipped \in SUBSET (Contended \cap Waiting) :
        LET queue == Waiting \ skipped
        IN \E first \in Oldest({i \in queue : Eligible(i)}, 1) :
             LET seats == Seats(first, queue)
             IN /\ Seatable(first, queue)
                /\ tickets' = Seated(seats)
                /\ \E game \in GamesFor(first, seats) :
                     matches' = Append(matches,
                       [seats |-> seats, bots |-> Bots(seats, game), live |-> TRUE,
                        arena |-> tickets[first].choice.arena, game |-> game])
                /\ UNCHANGED <<refunds, used, flagged, tx>>
  BY DEF ClaimPair
<1> DEFINE queue == Waiting \ skipped
<1>2. PICK first \in Oldest({i \in queue : Eligible(i)}, 1) :
        LET seats == Seats(first, queue)
        IN /\ Seatable(first, queue)
           /\ tickets' = Seated(seats)
           /\ \E game \in GamesFor(first, seats) :
                matches' = Append(matches,
                  [seats |-> seats, bots |-> Bots(seats, game), live |-> TRUE,
                   arena |-> tickets[first].choice.arena, game |-> game])
           /\ UNCHANGED <<refunds, used, flagged, tx>>
  BY <1>1
<1> DEFINE seats == Seats(first, queue)
<1>3. PICK game \in GamesFor(first, seats) :
        matches' = Append(matches,
          [seats |-> seats, bots |-> Bots(seats, game), live |-> TRUE,
           arena |-> tickets[first].choice.arena, game |-> game])
  BY <1>2
<1>4. first \in queue /\ queue \in SUBSET Waiting
  BY DEF Oldest
<1>5. seats \in SUBSET DOMAIN tickets
  BY <1>4, SeatsWait DEF Waiting
<1>6. tickets \in Seq(Ticket) /\ first \in DOMAIN tickets
  BY <1>4 DEF QueueInv, TypeOK, Waiting
<1>7. Bots(seats, game) \in Nat /\ seats \in SUBSET (Nat \ {0})
  BY <1>5, <1>6, BotsNat, Ids
<1>8. tickets[first].choice.arena \in Arenas \cup {Casual}
  BY <1>6, ChoiceTyped
<1> HIDE DEF seats, queue
<1>9. game \in {c.game : c \in Selections} \cup BotGames
  BY <1>6, GameTyped
<1>10. [seats |-> seats, bots |-> Bots(seats, game), live |-> TRUE,
        arena |-> tickets[first].choice.arena, game |-> game] \in Match
  BY <1>7, <1>8, <1>9 DEF Match
<1> QED
  BY <1>2, <1>3, <1>4, <1>10 DEF seats, queue, Claims, NewMatch

\* The oldest of a set of tickets is one ticket.
LEMMA OldestIsOne ==
  ASSUME tickets \in Seq(Ticket), NEW S \in SUBSET DOMAIN tickets, S # {}
  PROVE  \E i \in S : Oldest(S, 1) = {i}
<1>1. DOMAIN tickets = 1..Len(tickets) /\ Len(tickets) \in Nat
  OBVIOUS
<1>2. S \subseteq Nat /\ IsFiniteSet(S)
  <2>1. IsFiniteSet(1..Len(tickets))
    BY <1>1, FS_Interval
  <2> QED
    BY <1>1, <2>1, FS_Subset
<1>3. PICK i \in S : \A j \in S : <<j, i>> \notin OpToRel(<, Nat)
  BY <1>2, NatLessThanWellFounded, WFMin
<1>4. \A j \in S : ~(j < i)
  BY <1>2, <1>3 DEF OpToRel
<1>5. ASSUME NEW k \in S
      PROVE  Cardinality({j \in S : j < k}) < 1 <=> {j \in S : j < k} = {}
  <2>1. IsFiniteSet({j \in S : j < k})
    BY <1>2, FS_Subset
  <2>2. Cardinality({j \in S : j < k}) \in Nat
    BY <2>1, FS_CardinalityType
  <2>3. Cardinality({j \in S : j < k}) = 0 <=> {j \in S : j < k} = {}
    BY <2>1, FS_EmptySet
  <2> QED
    BY <2>2, <2>3
<1>6. ASSUME NEW k \in S PROVE {j \in S : j < k} = {} <=> k = i
  <2>1. k \in Nat /\ i \in Nat
    BY <1>2
  <2> QED
    BY <1>2, <1>4, <2>1
<1> QED
  BY <1>5, <1>6 DEF Oldest

\* The matcher seats a ticket with others of its mode, among them a rival of its
\* arena where it is ranked, and only Domino seats one of another arena.
LEMMA SeatsFacts ==
  ASSUME QueueInv, NEW queue \in SUBSET Waiting, NEW first \in queue, Seatable(first, queue),
         NEW game \in GamesFor(first, Seats(first, queue))
  PROVE  LET seats == Seats(first, queue)
             Arena(i) == tickets[i].choice.arena
         IN /\ first \in seats
            /\ \A i \in seats : Ranked(tickets[i].choice) <=> Ranked(tickets[first].choice)
            /\ game # Domino => \A i \in seats : Arena(i) = Arena(first)
            /\ Ranked(tickets[first].choice) =>
                 \E j \in seats : /\ j # first /\ Arena(j) = Arena(first)
                                  /\ game # Domino => seats = {first, j}
<1> DEFINE rival == Oldest(Rivals(first, queue), 1)
           further == FurtherSeats(first, queue)
<1>1. /\ tickets \in Seq(Ticket) /\ first \in DOMAIN tickets /\ queue \in SUBSET DOMAIN tickets
      /\ Rivals(first, queue) \in SUBSET DOMAIN tickets
  BY DEF QueueInv, TypeOK, Waiting, Rivals
<1>2. Seats(first, queue) = ({first} \cup rival) \cup further
  BY DEF Seats, Pair
<1>3. rival \subseteq Rivals(first, queue)
  BY DEF Oldest
<1>4. ASSUME NEW i \in rival
      PROVE  /\ i # first /\ tickets[i].choice.arena = tickets[first].choice.arena
             /\ Ranked(tickets[i].choice) <=> Ranked(tickets[first].choice)
  BY <1>3, <1>4 DEF Rivals, Pairable, SamePool, Ranked
<1>5. ASSUME NEW i \in further
      PROVE  Ranked(tickets[i].choice) <=> Ranked(tickets[first].choice)
  BY <1>5 DEF FurtherSeats, Oldest
<1>6. ASSUME game # Domino PROVE further = {}
  BY <1>6 DEF GamesFor, FurtherSeats
<1>7. ASSUME Ranked(tickets[first].choice) PROVE \E j \in Rivals(first, queue) : rival = {j}
  <2>1. Rivals(first, queue) # {}
    BY <1>7 DEF Seatable, BotAllowed
  <2> QED
    BY <1>1, <2>1, OldestIsOne
<1> HIDE DEF rival, further
<1> QED
  BY <1>2, <1>4, <1>5, <1>6, <1>7

\* Two different tickets are a set of two.
LEMMA PairSize ==
  ASSUME NEW i, NEW j, i # j
  PROVE  IsFiniteSet({i, j}) /\ Cardinality({i, j}) = 2
<1>1. IsFiniteSet({i}) /\ Cardinality({i}) = 1 /\ j \notin {i}
  BY FS_Singleton
<1>2. {i} \cup {j} = {i, j}
  OBVIOUS
<1> QED
  BY <1>1, <1>2, FS_AddElement

\* Two players of another game need no bots.
LEMMA NoBots ==
  ASSUME NEW i, NEW j, i # j, NEW game, game # Domino
  PROVE  Bots({i, j}, game) = 0
<1>1. Cardinality({i, j}) = 2
  BY PairSize
<1> QED
  BY <1>1 DEF Bots

\* A step that leaves the matches and what the tickets chose, that matches none and
\* refunds none but those it closes, keeps the invariant.
LEMMA SoundKept ==
  ASSUME QueueInv, SoundInv, DOMAIN matches' = DOMAIN matches,
         \A m \in DOMAIN matches : /\ matches'[m].seats = matches[m].seats
                                   /\ matches'[m].bots = matches[m].bots
                                   /\ matches'[m].game = matches[m].game
                                   /\ matches'[m].arena = matches[m].arena,
         \A i \in DOMAIN tickets :
           /\ i \in DOMAIN tickets' /\ tickets'[i].choice = tickets[i].choice
           /\ tickets'[i].match = tickets[i].match
           /\ \/ tickets'[i].status \in {"CANCELLED", "EXPIRED"}
              \/ /\ tickets'[i].status = tickets[i].status
                 /\ tickets'[i].refundedAt = tickets[i].refundedAt,
         \A i \in DOMAIN tickets' \ DOMAIN tickets : ~tickets'[i].refundedAt
  PROVE  SoundInv'
<1>1. \A m \in DOMAIN matches : \A i \in matches[m].seats : i \in DOMAIN tickets
  BY DEF QueueInv, SeatedIsDone
<1>2. StakesHeld'
  BY DEF SoundInv, StakesHeld
<1>3. SeatsAgree'
  BY <1>1 DEF SoundInv, SeatsAgree, Kept
<1>4. SameArena'
  BY <1>1 DEF SoundInv, SameArena, Ranked
<1>5. RankedAreHuman'
  <2> SUFFICES ASSUME NEW m \in DOMAIN matches, matches[m].arena # Casual
               PROVE  /\ matches[m].game # Domino => matches[m].bots = 0
                      /\ \E i, j \in matches[m].seats :
                           /\ i # j /\ tickets'[i].choice.arena = matches[m].arena
                           /\ tickets'[j].choice.arena = matches[m].arena
    BY DEF RankedAreHuman
  <2>1. PICK i \in matches[m].seats, j \in matches[m].seats :
          /\ i # j /\ tickets[i].choice.arena = matches[m].arena
          /\ tickets[j].choice.arena = matches[m].arena
    BY DEF SoundInv, RankedAreHuman
  <2> QED
    BY <1>1, <2>1 DEF SoundInv, RankedAreHuman
<1> QED
  BY <1>2, <1>3, <1>4, <1>5 DEF SoundInv

\* A claim makes a sound match of tickets that search, with their stakes.
LEMMA ClaimSound ==
  ASSUME QueueInv, SoundInv, ClaimPair
  PROVE  SoundInv'
<1>1. PICK queue \in SUBSET Waiting : \E first \in queue :
        \E game \in GamesFor(first, Seats(first, queue)) : Claims(queue, first, game)
  BY ClaimFacts
<1>2. PICK first \in queue : \E game \in GamesFor(first, Seats(first, queue)) : Claims(queue, first, game)
  BY <1>1
<1>3. PICK game \in GamesFor(first, Seats(first, queue)) : Claims(queue, first, game)
  BY <1>2
<1> DEFINE seats == Seats(first, queue)
           new == NewMatch(queue, first, game)
           id == Len(matches) + 1
<1>4. /\ Seatable(first, queue) /\ tickets' = Seated(seats)
      /\ matches' = Append(matches, new) /\ new \in Match
  BY <1>3 DEF Claims
<1>5. first \in DOMAIN tickets /\ tickets \in Seq(Ticket) /\ matches \in Seq(Match)
  BY DEF Waiting, QueueInv, TypeOK
<1>6. /\ first \in seats
      /\ \A i \in seats : Ranked(tickets[i].choice) <=> Ranked(tickets[first].choice)
      /\ game # Domino => \A i \in seats : tickets[i].choice.arena = tickets[first].choice.arena
      /\ Ranked(tickets[first].choice) =>
           \E j \in seats : /\ j # first /\ tickets[j].choice.arena = tickets[first].choice.arena
                            /\ game # Domino => seats = {first, j}
  BY <1>4, SeatsFacts
<1>7. seats \subseteq DOMAIN tickets /\ \A i \in seats : Searching(i)
  BY SeatsWait DEF Waiting
<1>8. /\ new.seats = seats /\ new.bots = Bots(seats, game) /\ new.game = game
      /\ new.arena = tickets[first].choice.arena
  BY DEF NewMatch
<1> HIDE DEF seats, new
<1>9. /\ DOMAIN matches' = DOMAIN matches \cup {id}
      /\ matches'[id] = new
      /\ \A m \in DOMAIN matches : matches'[m] = matches[m] /\ m # id
  BY <1>4, <1>5
<1>10. /\ DOMAIN tickets' = DOMAIN tickets
       /\ \A i \in DOMAIN tickets :
            /\ tickets'[i].choice = tickets[i].choice
            /\ tickets'[i].refundedAt = tickets[i].refundedAt
            /\ i \notin seats => tickets'[i] = tickets[i]
            /\ i \in seats => tickets'[i].status = "MATCHED" /\ tickets'[i].match = id
  BY <1>4, <1>5, SeatedFacts
<1> HIDE DEF id
<1>11. \A m \in DOMAIN matches : \A i \in matches[m].seats : i \in DOMAIN tickets /\ i \notin seats
  BY <1>7 DEF QueueInv, SeatedIsDone
<1>12. StakesHeld'
  BY <1>7, <1>10 DEF SoundInv, StakesHeld, Searching
<1>13. SeatsAgree'
  BY <1>7, <1>8, <1>9, <1>10, <1>11 DEF SoundInv, SeatsAgree, Kept
<1>14. SameArena'
  <2> SUFFICES ASSUME NEW m \in DOMAIN matches', NEW i \in matches'[m].seats
               PROVE  /\ tickets'[i].choice.arena # Casual <=> matches'[m].arena # Casual
                      /\ matches'[m].game # Domino => tickets'[i].choice.arena = matches'[m].arena
    BY DEF SameArena, Ranked
  <2>1. CASE m = id
    BY <1>6, <1>7, <1>8, <1>9, <1>10, <2>1 DEF Ranked
  <2>2. CASE m # id
    BY <1>9, <1>10, <1>11, <2>2 DEF SoundInv, SameArena, Ranked
  <2> QED
    BY <2>1, <2>2
<1>15. RankedAreHuman'
  <2> SUFFICES ASSUME NEW m \in DOMAIN matches', matches'[m].arena # Casual
               PROVE  /\ matches'[m].game # Domino => matches'[m].bots = 0
                      /\ \E i, j \in matches'[m].seats :
                           /\ i # j /\ tickets'[i].choice.arena = matches'[m].arena
                           /\ tickets'[j].choice.arena = matches'[m].arena
    BY DEF RankedAreHuman
  <2>1. CASE m = id
    <3>1. PICK j \in seats : /\ j # first /\ tickets[j].choice.arena = tickets[first].choice.arena
                             /\ game # Domino => seats = {first, j}
      BY <1>6, <1>8, <1>9, <2>1 DEF Ranked
    <3>2. ASSUME game # Domino PROVE Bots(seats, game) = 0
      <4>1. seats = {first, j} /\ first # j
        BY <3>1, <3>2
      <4>2. Bots({first, j}, game) = 0
        BY <3>2, <4>1, NoBots
      <4> QED
        BY <4>1, <4>2
    <3>3. first \in DOMAIN tickets /\ j \in DOMAIN tickets
      BY <1>5, <1>7
    <3>4. /\ first \in matches'[m].seats /\ j \in matches'[m].seats
          /\ tickets'[first].choice.arena = matches'[m].arena
          /\ tickets'[j].choice.arena = matches'[m].arena
      BY <1>6, <1>8, <1>9, <1>10, <2>1, <3>1, <3>3
    <3> QED
      BY <1>8, <1>9, <2>1, <3>1, <3>2, <3>4
  <2>2. CASE m # id
    <3>1. m \in DOMAIN matches /\ matches'[m] = matches[m]
      BY <1>9, <2>2
    <3>2. PICK i \in matches[m].seats, j \in matches[m].seats :
            /\ i # j /\ tickets[i].choice.arena = matches[m].arena
            /\ tickets[j].choice.arena = matches[m].arena
      BY <3>1 DEF SoundInv, RankedAreHuman
    <3> QED
      BY <1>10, <1>11, <3>1, <3>2 DEF SoundInv, RankedAreHuman
  <2> QED
    BY <2>1, <2>2
<1> QED
  BY <1>12, <1>13, <1>14, <1>15 DEF SoundInv

\* What every step but a claim leaves of the matches.
Quiet ==
  /\ DOMAIN matches' = DOMAIN matches
  /\ \A m \in DOMAIN matches : /\ matches'[m].seats = matches[m].seats
                               /\ matches'[m].bots = matches[m].bots
                               /\ matches'[m].game = matches[m].game
                               /\ matches'[m].arena = matches[m].arena

\* A change of the times of one ticket.
LEMMA TouchFacts ==
  ASSUME QueueInv, NEW i \in DOMAIN tickets, NEW a \in Ages,
         Refresh(i) \/ GrowOld(i, a) \/ BotDelayPasses(i)
  PROVE  /\ DOMAIN tickets' = DOMAIN tickets /\ UNCHANGED <<matches, tx>>
         /\ \A j \in DOMAIN tickets :
              /\ tickets'[j].choice = tickets[j].choice
              /\ tickets'[j].status = tickets[j].status
              /\ tickets'[j].match = tickets[j].match
              /\ tickets'[j].refundedAt = tickets[j].refundedAt
<1>1. tickets \in Seq(Ticket) /\ \A j \in DOMAIN tickets : tickets[j] \in Ticket
  BY Ids DEF QueueInv, TypeOK
<1>2. CASE Refresh(i)
  <2>1. tickets' = [tickets EXCEPT ![i] = [tickets[i] EXCEPT !.age = "fresh"]] /\ UNCHANGED <<matches, tx>>
    BY <1>2 DEF Refresh
  <2> QED
    BY <1>1, <2>1 DEF Ticket
<1>3. CASE GrowOld(i, a)
  <2>1. tickets' = [tickets EXCEPT ![i] = [tickets[i] EXCEPT !.age = a]] /\ UNCHANGED <<matches, tx>>
    BY <1>3 DEF GrowOld
  <2> QED
    BY <1>1, <2>1 DEF Ticket
<1>4. CASE BotDelayPasses(i)
  <2>1. tickets' = [tickets EXCEPT ![i] = [tickets[i] EXCEPT !.waited = TRUE]] /\ UNCHANGED <<matches, tx>>
    BY <1>4 DEF BotDelayPasses
  <2> QED
    BY <1>1, <2>1 DEF Ticket
<1> QED
  BY <1>2, <1>3, <1>4

\* What the writes by id leave, and a ticket that is new.
LEMMA WriteFacts ==
  ASSUME QueueInv, NEW t \in Txns, CancelTicket(t) \/ SweepTickets(t) \/ CreateTicket(t)
  PROVE  /\ Closes(tx[t].rows, tx[t].back) /\ UNCHANGED matches
         /\ \A i \in DOMAIN tickets' \ DOMAIN tickets : tickets'[i].refundedAt = FALSE
<1>1. tickets \in Seq(Ticket)
  BY DEF QueueInv, TypeOK
<1>2. ASSUME NEW status \in {"CANCELLED", "EXPIRED"},
             tickets' = Written(tx[t].rows, status, tx[t].back), UNCHANGED matches
      PROVE  /\ Closes(tx[t].rows, tx[t].back) /\ UNCHANGED matches
             /\ \A i \in DOMAIN tickets' \ DOMAIN tickets : tickets'[i].refundedAt = FALSE
  <2>1. status \in Statuses
    BY DEF Statuses
  <2> QED
    BY <1>1, <1>2, <2>1, WrittenFacts DEF Closes
<1>3. CASE CancelTicket(t)
  BY <1>2, <1>3 DEF CancelTicket
<1>4. CASE SweepTickets(t)
  BY <1>2, <1>4 DEF SweepTickets, SweepBack
<1>5. CASE CreateTicket(t)
  BY <1>5, CreateFacts DEF CreateTicket
<1> QED
  BY <1>3, <1>4, <1>5

\* What the end of a match leaves.
LEMMA OverFacts ==
  ASSUME QueueInv, NEW m \in DOMAIN matches, MatchOver(m)
  PROVE  Quiet /\ UNCHANGED <<tickets, tx>>
<1>1. matches \in Seq(Match) /\ \A n \in DOMAIN matches : matches[n] \in Match
  BY Ids DEF QueueInv, TypeOK
<1>2. matches' = [matches EXCEPT ![m] = [matches[m] EXCEPT !.live = FALSE]] /\ UNCHANGED <<tickets, tx>>
  BY DEF MatchOver
<1> QED
  BY <1>1, <1>2 DEF Quiet, Match

\* Every step keeps the matches sound.
LEMMA NextSound ==
  ASSUME QueueInv, SoundInv, [Next]_vars
  PROVE  SoundInv'
<1>1. CASE Quiet /\ UNCHANGED tickets
  BY <1>1, SoundKept DEF Quiet
<1>2. CASE UNCHANGED store
  BY <1>1, <1>2 DEF Quiet, store
<1>3. ASSUME NEW t \in Txns, CancelTicket(t) \/ SweepTickets(t) \/ CreateTicket(t) PROVE SoundInv'
  <2>1. /\ Closes(tx[t].rows, tx[t].back) /\ UNCHANGED matches
        /\ \A i \in DOMAIN tickets' \ DOMAIN tickets : tickets'[i].refundedAt = FALSE
    BY <1>3, WriteFacts
  <2>2. \A i \in DOMAIN tickets :
          /\ i \in DOMAIN tickets' /\ tickets'[i].choice = tickets[i].choice
          /\ tickets'[i].match = tickets[i].match
          /\ \/ tickets'[i].status \in {"CANCELLED", "EXPIRED"}
             \/ /\ tickets'[i].status = tickets[i].status
                /\ tickets'[i].refundedAt = tickets[i].refundedAt
    BY <2>1 DEF Closes
  <2> QED
    BY <2>1, <2>2, SoundKept
<1>4. ASSUME NEW t \in Txns, ReadTickets(t) \/ ReadOverdue(t) \/ Abort(t) PROVE SoundInv'
  BY <1>2, <1>4 DEF ReadTickets, ReadOverdue, Abort
<1>5. ASSUME NEW t \in Txns, NEW u \in Users, NEW k \in Keys \cup {NoKey}, NEW c \in Wanted[u],
             Enqueue(t, u, c, k)
      PROVE  SoundInv'
  BY <1>2, <1>5 DEF Enqueue
<1>6. ASSUME NEW t \in Txns, NEW i \in DOMAIN tickets, ReadForCancel(t, i) PROVE SoundInv'
  BY <1>2, <1>6 DEF ReadForCancel
<1>7. ASSUME NEW i \in DOMAIN tickets, NEW a \in Ages, Refresh(i) \/ GrowOld(i, a) \/ BotDelayPasses(i)
      PROVE  SoundInv'
  BY <1>7, TouchFacts, SoundKept
<1>8. ASSUME NEW u \in Suspects, ReviewPlayer(u) PROVE SoundInv'
  BY <1>1, <1>8 DEF ReviewPlayer, Quiet
<1>9. ASSUME NEW m \in DOMAIN matches, MatchOver(m) PROVE SoundInv'
  BY <1>1, <1>9, OverFacts
<1>10. CASE ClaimPair
  BY <1>10, ClaimSound
<1>11. CASE UNCHANGED vars
  BY <1>2, <1>11 DEF vars
<1>12. "fresh" \in Ages
  BY DEF Ages
<1> QED
  BY <1>3, <1>4, <1>5, <1>6, <1>7, <1>8, <1>9, <1>10, <1>11, <1>12 DEF Next

\* No match is unsound before there is one.
LEMMA InitSound == Init => SoundInv
  BY DEF Init, SoundInv, StakesHeld, SeatsAgree, SameArena, RankedAreHuman

\* The payout of an arena is at most its two stakes: a fee is not negative.
LEMMA PayoutBound ==
  ASSUME NEW a \in Arenas
  PROVE  Stake[a] \in Nat /\ Payout(a) \in Int /\ Payout(a) <= 2 * Stake[a]
<1>1. Stake[a] \in Nat /\ FeeMicros[a] \in Nat /\ Micros \in Nat \ {0}
  BY StakeAssumption, MicrosAssumption
<1>2. 2 * FeeMicros[a] + Micros - 1 \in Nat
  BY <1>1
<1>3. \A x \in Nat, y \in Nat \ {0} : x \div y \in Nat
  OBVIOUS
<1>4. (2 * FeeMicros[a] + Micros - 1) \div Micros \in Nat
  BY <1>1, <1>2, <1>3
<1> QED
  BY <1>1, <1>4 DEF Payout

\* What the invariants say of the matches.
LEMMA Sound ==
  ASSUME QueueInv, SoundInv
  PROVE  MatchesAreSound
<1>1. InOneMatch
  <2> SUFFICES ASSUME NEW m \in DOMAIN matches, NEW n \in DOMAIN matches,
                      matches[m].live, matches[n].live, m # n,
                      NEW i \in Kept(m), NEW j \in Kept(n),
                      tickets[i].user = tickets[j].user
               PROVE  FALSE
    BY DEF InOneMatch
  <2>1. i \in DOMAIN tickets /\ j \in DOMAIN tickets
    BY DEF QueueInv, SeatedIsDone, Kept
  <2>2. tickets[i].match = m /\ tickets[j].match = n /\ Active(i) /\ Active(j)
    BY DEF SoundInv, SeatsAgree, Kept, Active, Playing
  <2> QED
    BY <2>1, <2>2 DEF QueueInv, OneTicket
<1>2. PotBacked
  <2> SUFFICES ASSUME NEW m \in DOMAIN matches, matches[m].arena # Casual,
                      Kept(m) = matches[m].seats
               PROVE  \E i, j \in Kept(m) :
                        /\ i # j /\ ~tickets[i].refundedAt /\ ~tickets[j].refundedAt
                        /\ Payout(matches[m].arena) <= StakeOf(i) + StakeOf(j)
    BY DEF PotBacked
  <2> DEFINE a == matches[m].arena
  <2>1. PICK i \in matches[m].seats, j \in matches[m].seats :
          i # j /\ tickets[i].choice.arena = a /\ tickets[j].choice.arena = a
    BY DEF SoundInv, RankedAreHuman
  <2>2. i \in DOMAIN tickets /\ j \in DOMAIN tickets
    BY DEF QueueInv, SeatedIsDone
  <2>3. ~tickets[i].refundedAt /\ ~tickets[j].refundedAt
    BY <2>2 DEF SoundInv, StakesHeld, Kept
  <2>4. matches[m] \in Match
    BY Ids DEF QueueInv, TypeOK
  <2>5. a \in Arenas
    BY <2>4 DEF Match
  <2>6. StakeOf(i) = Stake[a] /\ StakeOf(j) = Stake[a]
    BY <2>1 DEF StakeOf
  <2>7. Stake[a] \in Nat /\ Payout(a) \in Int /\ Payout(a) <= 2 * Stake[a]
    BY <2>5, PayoutBound
  <2> HIDE DEF a
  <2>8. Payout(a) <= StakeOf(i) + StakeOf(j)
    BY <2>6, <2>7
  <2> QED
    BY <2>1, <2>3, <2>8 DEF a
<1> QED
  BY <1>1, <1>2 DEF MatchesAreSound, SoundInv

\* The matches of the queue can be played and paid, however its requests, sweeps,
\* reviews and claims interleave: for any players, arenas, games, stakes and fees.
THEOREM MatchesAreSoundHolds == Spec => []MatchesAreSound
<1>1. QueueInv /\ SoundInv /\ [Next]_vars => SoundInv'
  BY NextSound
<1>2. QueueInv /\ SoundInv => MatchesAreSound
  BY Sound
<1> QED
  BY <1>1, <1>2, InitSound, Invariant, PTL DEF Spec

=============================================================================
