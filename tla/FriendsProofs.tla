----------------------------- MODULE FriendsProofs -----------------------------
(***************************************************************************)
(* Proofs about Friends and Missions: FriendsInv is an inductive invariant  *)
(* for any players, requests, blockers, tiers and transaction slots.  So a  *)
(* friendship is mutual, and, where the tiers of an achievement ascend, a   *)
(* reward is paid once and has been earned.                                 *)
(***************************************************************************)
EXTENDS Friends, FiniteSetTheorems, WellFoundedInduction, TLAPS

-----------------------------------------------------------------------------
(* Numbers and counts *)

\* A bounded set of numbers has a greatest one.
LEMMA Greatest ==
  ASSUME NEW S \in SUBSET Nat, NEW b \in Nat, S # {}, \A n \in S : n <= b
  PROVE  \E m \in S : \A n \in S : n <= m
<1> DEFINE T == {k \in Nat : \E n \in S : k = b - n}
<1>1. T \subseteq Nat /\ T # {}
  <2>1. PICK n \in S : TRUE
    OBVIOUS
  <2>2. b - n \in T
    BY <2>1
  <2> QED
    BY <2>2
<1>2. PICK x \in T : \A y \in T : <<y, x>> \notin OpToRel(<, Nat)
  BY <1>1, NatLessThanWellFounded, WFMin
<1>3. \A y \in T : ~(y < x)
  BY <1>1, <1>2 DEF OpToRel
<1>4. PICK m \in S : x = b - m
  BY <1>2
<1>5. ASSUME NEW n \in S PROVE n <= m
  <2>1. b - n \in T
    OBVIOUS
  <2>2. ~(b - n < b - m)
    BY <1>3, <1>4, <2>1
  <2> QED
    BY <2>2
<1> QED
  BY <1>5

LEMMA TiersTyped ==
  /\ Len(Tiers) \in Nat
  /\ \A n \in 1 .. Len(Tiers) : n \in Nat \ {0} /\ Tiers[n] \in Nat \ {0}
<1>1. Tiers \in Seq(Nat \ {0})
  BY TiersAssumption
<1> QED
  BY <1>1

\* One event later the completed tier is the one read, or a tier whose target is
\* reached; it never falls.
LEMMA ClimbedRow ==
  ASSUME NEW row \in AchievementRow
  PROVE  /\ Climbed(row).progress = row.progress + 1
         /\ Climbed(row).claimed = row.claimed
         /\ Climbed(row).completed \in row.completed .. Len(Tiers)
         /\ \/ Climbed(row).completed = row.completed
            \/ Tiers[Climbed(row).completed] <= row.progress + 1
         /\ Climbed(row) \in AchievementRow
<1> DEFINE p == row.progress + 1
           c == row.completed
           R == {n \in c + 1 .. Len(Tiers) : Tiers[n] <= p}
           Best(n) == /\ n = c \/ Tiers[n] <= p
                      /\ \A k \in c + 1 .. Len(Tiers) : Tiers[k] <= p => k <= n
           d == CHOOSE n \in c .. Len(Tiers) : Best(n)
<1>1. /\ row.progress \in Nat /\ c \in Nat /\ c <= Len(Tiers) /\ Len(Tiers) \in Nat
      /\ row.claimed \in 0 .. Len(Tiers)
  BY TiersTyped DEF AchievementRow
<1>2. \E n \in c .. Len(Tiers) : Best(n)
  <2>1. CASE R = {}
    <3>1. c \in c .. Len(Tiers) /\ Best(c)
      BY <1>1, <2>1
    <3> QED
      BY <3>1
  <2>2. CASE R # {}
    <3>1. R \in SUBSET Nat /\ \A n \in R : n <= Len(Tiers)
      BY <1>1
    <3>2. PICK m \in R : \A n \in R : n <= m
      BY <1>1, <2>2, <3>1, Greatest
    <3>3. m \in c .. Len(Tiers) /\ Best(m)
      BY <1>1, <3>2
    <3> QED
      BY <3>3
  <2> QED
    BY <2>1, <2>2
<1>3. d \in c .. Len(Tiers) /\ Best(d)
  <2> HIDE DEF Best
  <2> QED
    BY <1>2
<1>4. Climbed(row) = [row EXCEPT !.progress = p, !.completed = d]
  BY DEF Climbed
<1> HIDE DEF d
<1>5. d \in 0 .. Len(Tiers) /\ p \in Nat
  BY <1>1, <1>3
<1> QED
  BY <1>1, <1>3, <1>4, <1>5 DEF AchievementRow

\* One event later a mission's row is of its type, and complete only at its target.
LEMMA MovedRow ==
  ASSUME NEW row \in MissionRow
  PROVE  /\ Moved(row) \in MissionRow /\ Moved(row).progress <= row.progress + 1
         /\ Moved(row).status = "COMPLETED" => Target <= row.progress + 1
  BY TargetAssumption DEF MissionRow, Moved

-----------------------------------------------------------------------------
(* What is backed by counted sources stays so *)

\* No source is forgotten.
Grows == \A u \in Users : counted[u] \subseteq counted'[u] /\ IsFiniteSet(counted'[u])

LEMMA Counts ==
  ASSUME Grows, NEW u \in Users
  PROVE  /\ Cardinality(counted[u]) \in Nat /\ Cardinality(counted'[u]) \in Nat
         /\ Cardinality(counted[u]) <= Cardinality(counted'[u])
<1>1. IsFiniteSet(counted'[u]) /\ counted[u] \in SUBSET counted'[u]
  BY DEF Grows
<1>2. IsFiniteSet(counted[u]) /\ Cardinality(counted[u]) <= Cardinality(counted'[u])
  BY <1>1, FS_Subset
<1> QED
  BY <1>1, <1>2, FS_CardinalityType

LEMMA BackedStays ==
  ASSUME Grows, NEW u \in Users, NEW rows, Backed(u, rows)
  PROVE  Backed(u, rows)'
<1> DEFINE n == Cardinality(counted[u])
           m == Cardinality(counted'[u])
<1>1. n \in Nat /\ m \in Nat /\ n <= m
  BY Counts
<1>2. /\ rows.mission.progress \in Nat /\ rows.achievement.progress \in Nat
      /\ rows.achievement.completed \in 0 .. Len(Tiers) /\ Len(Tiers) \in Nat /\ Target \in Nat
  BY TargetAssumption, TiersTyped DEF Backed, MissionRow, AchievementRow
<1>3. /\ rows.mission.progress <= n /\ rows.achievement.progress <= n
      /\ rows.mission.status = "COMPLETED" => Target <= n
      /\ TiersAscend => \A k \in 1 .. rows.achievement.completed : Tiers[k] <= n
  BY DEF Backed
<1> HIDE DEF n, m
<1>4. \A k \in 1 .. rows.achievement.completed : Tiers[k] \in Nat
  BY <1>2, TiersTyped
<1>5. /\ rows.mission.progress <= m /\ rows.achievement.progress <= m
      /\ rows.mission.status = "COMPLETED" => Target <= m
      /\ TiersAscend => \A k \in 1 .. rows.achievement.completed : Tiers[k] <= m
  BY <1>1, <1>2, <1>3, <1>4
<1> QED
  BY <1>5 DEF Backed, m

LEMMA EarnedStays ==
  ASSUME Grows, NEW r \in Rewards, Earned(r)
  PROVE  Earned(r)'
<1>1. r[1] \in Users /\ r[2] \in 0 .. Len(Tiers)
  BY DEF Rewards
<1>2. Needed(r) \in Nat
  BY <1>1, TiersTyped, TargetAssumption DEF Needed
<1>3. /\ Cardinality(counted[r[1]]) \in Nat /\ Cardinality(counted'[r[1]]) \in Nat
      /\ Cardinality(counted[r[1]]) <= Cardinality(counted'[r[1]])
  BY <1>1, Counts
<1> QED
  BY <1>2, <1>3 DEF Earned

\* A mission or a tier that is complete in rows that are backed has been earned.
LEMMA CompleteIsEarned ==
  ASSUME NEW u \in Users, Backed(u, RowsOf(u))
  PROVE  /\ mission[u].status = "COMPLETED" => <<u, 0>> \in Rewards /\ Earned(<<u, 0>>)
         /\ \A n \in Nat \ {0} : n <= achievement[u].completed =>
              <<u, n>> \in Rewards /\ Earned(<<u, n>>)
<1>1. achievement[u].completed \in 0 .. Len(Tiers) /\ Len(Tiers) \in Nat
  BY TiersTyped DEF Backed, RowsOf, AchievementRow
<1>2. ASSUME NEW n \in Nat \ {0}, n <= achievement[u].completed
      PROVE  <<u, n>> \in Rewards /\ Earned(<<u, n>>)
  <2>1. n \in 0 .. Len(Tiers) /\ n \in 1 .. achievement[u].completed
    BY <1>1, <1>2
  <2>2. TiersAscend => Tiers[n] <= Cardinality(counted[u])
    BY <2>1 DEF Backed, RowsOf
  <2> QED
    BY <2>1, <2>2 DEF Rewards, Earned, Needed
<1>3. mission[u].status = "COMPLETED" => <<u, 0>> \in Rewards /\ Earned(<<u, 0>>)
  BY <1>1 DEF Backed, RowsOf, Rewards, Earned, Needed
<1> QED
  BY <1>2, <1>3

\* The rows that an accept writes from rows that were backed are backed by one
\* source more.
LEMMA CountedRows ==
  ASSUME NEW u \in Users, NEW rows, Backed(u, rows), NEW source, NEW claimed \in 0 .. Len(Tiers),
         IsFiniteSet(counted[u]), source \notin counted[u],
         counted'[u] = counted[u] \cup {source}
  PROVE  Backed(u, [mission |-> Moved(rows.mission),
                    achievement |-> [Climbed(rows.achievement) EXCEPT !.claimed = claimed]])'
<1> DEFINE n == Cardinality(counted[u])
           m == Cardinality(counted'[u])
           a == [Climbed(rows.achievement) EXCEPT !.claimed = claimed]
<1>1. n \in Nat /\ m = n + 1
  BY FS_CardinalityType, FS_AddElement
<1>2. rows.mission \in MissionRow /\ rows.achievement \in AchievementRow
  BY DEF Backed
<1>3. Moved(rows.mission) \in MissionRow /\ Climbed(rows.achievement) \in AchievementRow
  BY <1>2, MovedRow, ClimbedRow
<1>4. Moved(rows.mission).progress <= m
      /\ (Moved(rows.mission).status = "COMPLETED" => Target <= m)
  <2>1. rows.mission.progress \in Nat /\ rows.mission.progress <= n
    BY <1>2 DEF Backed, MissionRow
  <2>2. Moved(rows.mission).progress \in Nat /\ Target \in Nat
    BY <1>3, TargetAssumption DEF MissionRow
  <2> HIDE DEF n, m
  <2> QED
    BY <1>1, <1>2, <2>1, <2>2, MovedRow
<1>5. /\ a \in AchievementRow /\ a.progress = rows.achievement.progress + 1
      /\ a.completed = Climbed(rows.achievement).completed
  BY <1>2, <1>3, ClimbedRow DEF AchievementRow
<1>6. rows.achievement.progress \in Nat /\ rows.achievement.progress <= n
  BY <1>2 DEF Backed, AchievementRow
<1>7. a.progress <= m
  <2> HIDE DEF n, m, a
  <2> QED
    BY <1>1, <1>5, <1>6
<1>8. ASSUME TiersAscend, NEW k \in 1 .. a.completed
      PROVE  Tiers[k] <= m
  <2>1. /\ a.completed \in rows.achievement.completed .. Len(Tiers)
        /\ \/ a.completed = rows.achievement.completed
           \/ Tiers[a.completed] <= rows.achievement.progress + 1
    BY <1>2, <1>5, ClimbedRow
  <2>2. /\ rows.achievement.completed \in Nat /\ Len(Tiers) \in Nat
        /\ k \in 1 .. Len(Tiers) /\ a.completed \in 1 .. Len(Tiers) /\ k <= a.completed
    BY <1>2, <1>8, <2>1, TiersTyped DEF AchievementRow
  <2>3. Tiers[k] \in Nat /\ Tiers[a.completed] \in Nat /\ Tiers[k] <= Tiers[a.completed]
    BY <1>8, <2>2, TiersTyped DEF TiersAscend
  <2>4. a.completed = rows.achievement.completed => Tiers[k] <= n
    BY <1>8 DEF Backed
  <2> HIDE DEF n, m, a
  <2> QED
    BY SMTT(30), <1>1, <1>6, <2>1, <2>3, <2>4
<1> HIDE DEF a
<1> QED
  BY <1>3, <1>4, <1>5, <1>7, <1>8 DEF Backed, a

-----------------------------------------------------------------------------
(* Steps that leave the missions alone *)

LEMMA PairFacts ==
  /\ \A p \in Pairs \cup Blockers : p[1] \in Users /\ p[2] \in Users /\ Symmetric(Both(p))
  /\ \A p : Flip(Flip(p)) = <<p[1], p[2]>>
  BY PairsAssumption DEF Symmetric, Both, Flip

\* Sound work remains sound as long as no source is forgotten.
LEMMA SoundStays ==
  ASSUME Grows, \A t \in Txns : Sound(work[t]), DOMAIN work = Txns,
         DOMAIN work' = Txns, NEW t \in Txns, work'[t] = work[t]
  PROVE  Sound(work[t])'
<1>1. Sound(work[t])
  OBVIOUS
<1>2. work[t].op = "accepting" => \A u \in DOMAIN work[t].saw : u \in Users /\ Backed(u, work[t].saw[u])'
  BY ZenonT(30), <1>1, BackedStays, PairFacts DEF Sound
<1>3. work[t].op = "claim" => Earned(work[t].reward)'
  BY <1>1, EarnedStays DEF Sound
<1> QED
  BY <1>1, <1>2, <1>3 DEF Sound

\* A transaction's step that leaves the missions alone and leaves sound work.
LEMMA Aside ==
  ASSUME FriendsInv, Uninvolved, NEW t \in Txns, NEW w, work' = [work EXCEPT ![t] = w],
         Sound(w),
         request' \in [Pairs -> Statuses],
         friends' \subseteq UNION {Both(p) : p \in Pairs}, Symmetric(friends'),
         blocks' \subseteq Blockers, sends' \in 0 .. MaxSends
  PROVE  FriendsInv'
<1>1. Grows
  BY DEF FriendsInv, TypeOK, MissionsTypeOK, Grows, Uninvolved
<1>2. DOMAIN work' = Txns /\ work'[t] = w /\ \A s \in Txns : s # t => work'[s] = work[s]
  BY DEF FriendsInv
<1>3. ASSUME NEW s \in Txns PROVE Sound(work[s])'
  <2>1. CASE s # t
    BY <1>1, <1>2, <2>1, SoundStays DEF FriendsInv
  <2>2. CASE s = t
    BY <1>2, <2>2 DEF Sound, Earned, Backed, Uninvolved
  <2> QED
    BY <2>1, <2>2
<1>4. TypeOK' /\ FriendsMutual'
  BY DEF FriendsInv, TypeOK, MissionsTypeOK, Uninvolved, FriendsMutual, Symmetric
<1>5. /\ \A u \in Users : Backed(u, RowsOf(u))'
      /\ (\A r \in Rewards : paid[r] <= 1 /\ (paid[r] = 1 => Earned(r)))'
  BY DEF FriendsInv, Backed, RowsOf, Earned, Uninvolved
<1> QED
  BY <1>2, <1>3, <1>4, <1>5 DEF FriendsInv

\* A step of no transaction that leaves the missions and the requests alone.
LEMMA TablesOnly ==
  ASSUME FriendsInv, Uninvolved, UNCHANGED <<work, request, sends>>,
         friends' \subseteq UNION {Both(p) : p \in Pairs}, Symmetric(friends'),
         blocks' \subseteq Blockers
  PROVE  FriendsInv'
<1>1. Grows
  BY DEF FriendsInv, TypeOK, MissionsTypeOK, Grows, Uninvolved
<1>2. \A s \in Txns : Sound(work[s])'
  BY <1>1, SoundStays DEF FriendsInv
<1>3. TypeOK' /\ FriendsMutual'
  BY DEF FriendsInv, TypeOK, MissionsTypeOK, Uninvolved, FriendsMutual, Symmetric
<1>4. /\ \A u \in Users : Backed(u, RowsOf(u))'
      /\ (\A r \in Rewards : paid[r] <= 1 /\ (paid[r] = 1 => Earned(r)))'
  BY DEF FriendsInv, Backed, RowsOf, Earned, Uninvolved
<1> QED
  BY <1>2, <1>3, <1>4 DEF FriendsInv

\* A transaction that begins.
LEMMA BeginsInv ==
  ASSUME FriendsInv, Uninvolved, NEW t \in Txns, NEW w, Begin(t, w), Sound(w),
         UNCHANGED <<request, friends, blocks>>, sends' \in 0 .. MaxSends
  PROVE  FriendsInv'
  BY Aside DEF Begin, FriendsInv, TypeOK, FriendsMutual, Symmetric

LEMMA FriendStepInv ==
  ASSUME FriendsInv, NEW t \in Txns, NEW p \in Pairs,
         \/ Send(t, p) \/ Accept(t, p) \/ MakeFriends(t, p)
         \/ \E answer \in {"DECLINED", "CANCELED"} : Respond(t, p, answer)
  PROVE  FriendsInv'
<1>1. sends \in Nat /\ sends \in 0 .. MaxSends
  BY DEF FriendsInv, TypeOK
<1>2. CASE Send(t, p)
  <2> DEFINE w == [op |-> "send", pair |-> p, seen |-> request[p]]
  <2>1. Sound(w)
    BY DEF Sound
  <2>2. sends' \in 0 .. MaxSends
    BY <1>1, <1>2, MaxSendsAssumption DEF Send
  <2> HIDE DEF w
  <2>3. Begin(t, w)
    BY <1>2 DEF Send, w
  <2> QED
    BY <1>2, <2>1, <2>2, <2>3, BeginsInv DEF Send
<1>3. CASE Accept(t, p)
  <2> DEFINE w == [op |-> "accept", pair |-> p]
  <2>1. Sound(w)
    BY DEF Sound
  <2>2. Begin(t, w)
    BY <1>3 DEF Accept
  <2> HIDE DEF w
  <2> QED
    BY <1>1, <1>3, <2>1, <2>2, BeginsInv DEF Accept
<1>4. CASE MakeFriends(t, p)
  <2> DEFINE w == [op |-> "make", pair |-> p]
  <2>1. Sound(w)
    BY DEF Sound
  <2>2. Begin(t, w)
    BY <1>4 DEF MakeFriends
  <2> HIDE DEF w
  <2> QED
    BY <1>1, <1>4, <2>1, <2>2, BeginsInv DEF MakeFriends
<1>5. ASSUME NEW answer \in {"DECLINED", "CANCELED"}, Respond(t, p, answer)
      PROVE  FriendsInv'
  <2> DEFINE w == [op |-> "respond", pair |-> p, answer |-> answer]
  <2>1. Sound(w)
    BY DEF Sound, Statuses
  <2>2. Begin(t, w)
    BY <1>5 DEF Respond
  <2> HIDE DEF w
  <2> QED
    BY <1>1, <1>5, <2>1, <2>2, BeginsInv DEF Respond
<1> QED
  BY <1>2, <1>3, <1>4, <1>5

LEMMA BlockInv ==
  ASSUME FriendsInv, NEW t \in Txns, NEW p \in Blockers, Block(t, p)
  PROVE  FriendsInv'
<1> DEFINE w == [op |-> "blocking", pair |-> p, ended |-> Both(p) \cap friends]
<1>1. Sound(w)
  <2>1. Symmetric(Both(p) \cap friends)
    BY PairFacts DEF FriendsInv, FriendsMutual, Symmetric
  <2> QED
    BY <2>1 DEF Sound
<1>2. Begin(t, w) /\ sends' \in 0 .. MaxSends
  BY DEF Block, FriendsInv, TypeOK
<1> HIDE DEF w
<1> QED
  BY <1>1, <1>2, BeginsInv DEF Block

\* The friendship rows of a pair that asks are rows of TypeOK's set.
LEMMA BothTyped ==
  ASSUME NEW p \in Pairs
  PROVE  Both(p) \subseteq UNION {Both(q) : q \in Pairs}
  OBVIOUS

LEMMA NoWorkSound == Sound(NoWork)
  BY DEF Sound, NoWork

LEMMA SendWriteInv ==
  ASSUME FriendsInv, NEW t \in Txns, SendWrite(t)
  PROVE  FriendsInv'
<1>1. work[t].pair \in Pairs
  BY DEF SendWrite, FriendsInv, Sound
<1>2. request' \in [Pairs -> Statuses]
  BY <1>1 DEF SendWrite, FriendsInv, TypeOK, Statuses
<1> QED
  BY <1>2, NoWorkSound, Aside
     DEF SendWrite, End, Becomes, FriendsInv, TypeOK, FriendsMutual, Symmetric

LEMMA RespondWriteInv ==
  ASSUME FriendsInv, NEW t \in Txns, RespondWrite(t)
  PROVE  FriendsInv'
<1>1. work[t].pair \in Pairs /\ work[t].answer \in Statuses
  BY DEF RespondWrite, FriendsInv, Sound
<1>2. request' \in [Pairs -> Statuses]
  BY <1>1 DEF RespondWrite, FriendsInv, TypeOK
<1> QED
  BY <1>2, NoWorkSound, Aside
     DEF RespondWrite, End, Becomes, FriendsInv, TypeOK, FriendsMutual, Symmetric

LEMMA AcceptWriteInv ==
  ASSUME FriendsInv, NEW t \in Txns, AcceptWrite(t)
  PROVE  FriendsInv'
<1> DEFINE p == work[t].pair
           w == [op |-> "accepting", pair |-> p, made |-> Friendship(p) \ friends,
                 saw |-> [u \in {p[1], p[2]} |-> RowsOf(u)]]
<1>1. p \in Pairs
  BY DEF AcceptWrite, FriendsInv, Sound
<1>2. Symmetric(Both(p) \ friends)
  <2> SUFFICES ASSUME NEW q \in Both(p), q \notin friends
               PROVE  Flip(q) \in Both(p) /\ Flip(q) \notin friends
    BY DEF Symmetric
  <2>1. Flip(q) \in Both(p) /\ Flip(Flip(q)) = q
    BY <1>1, PairsAssumption DEF Both, Flip
  <2> QED
    BY <2>1 DEF FriendsInv, FriendsMutual
<1>3. \A u \in {p[1], p[2]} : Backed(u, RowsOf(u))
  BY <1>1, PairFacts DEF FriendsInv
<1>4. Sound(w)
  <2>1. /\ w.op = "accepting" /\ w.pair = p /\ w.made = Both(p) \ friends
        /\ w.saw = [u \in {p[1], p[2]} |-> RowsOf(u)]
    BY DEF Friendship
  <2> HIDE DEF w, p
  <2> QED
    BY <1>1, <1>2, <1>3, <2>1 DEF Sound
<1>5. work' = [work EXCEPT ![t] = w]
  BY DEF AcceptWrite, Becomes
<1>6. Uninvolved /\ UNCHANGED <<request, friends, blocks, sends>>
  BY DEF AcceptWrite
<1> HIDE DEF w, p
<1> QED
  BY <1>4, <1>5, <1>6, Aside DEF FriendsInv, TypeOK, FriendsMutual, Symmetric

LEMMA BlockCommitInv ==
  ASSUME FriendsInv, NEW t \in Txns, BlockCommit(t)
  PROVE  FriendsInv'
<1>1. work[t].pair \in Blockers /\ Symmetric(work[t].ended)
  BY DEF BlockCommit, FriendsInv, Sound
<1>2. Symmetric(friends')
  <2> SUFFICES ASSUME NEW q \in friends' PROVE Flip(q) \in friends'
    BY DEF Symmetric
  <2>1. q \in friends /\ q \notin work[t].ended
    BY DEF BlockCommit
  <2>2. Flip(q) \in friends
    BY <2>1 DEF FriendsInv, FriendsMutual
  <2>3. Flip(Flip(q)) = q
    <3>1. PICK p \in Pairs : q \in Both(p)
      BY <2>1 DEF FriendsInv, TypeOK
    <3> QED
      BY <3>1, PairsAssumption DEF Both, Flip
  <2>4. Flip(q) \notin work[t].ended
    BY <1>1, <2>1, <2>3 DEF Symmetric
  <2> QED
    BY <2>2, <2>4 DEF BlockCommit
<1>3. request' \in [Pairs -> Statuses]
  BY DEF BlockCommit, FriendsInv, TypeOK, Statuses
<1>4. /\ friends' \subseteq UNION {Both(p) : p \in Pairs} /\ blocks' \subseteq Blockers
      /\ sends' \in 0 .. MaxSends
  BY <1>1 DEF BlockCommit, FriendsInv, TypeOK
<1>5. Uninvolved /\ work' = [work EXCEPT ![t] = NoWork]
  BY DEF BlockCommit, End, Becomes
<1> QED
  BY <1>2, <1>3, <1>4, <1>5, NoWorkSound, Aside

LEMMA MakeFriendsWriteInv ==
  ASSUME FriendsInv, NEW t \in Txns, MakeFriendsWrite(t)
  PROVE  FriendsInv'
<1>1. work[t].pair \in Pairs
  BY DEF MakeFriendsWrite, FriendsInv, Sound
<1>2. Symmetric(friends')
  BY <1>1, PairFacts DEF MakeFriendsWrite, FriendsInv, FriendsMutual, Symmetric
<1>3. request' \in [Pairs -> Statuses]
  BY DEF MakeFriendsWrite, FriendsInv, TypeOK, Statuses
<1>4. /\ friends' \subseteq UNION {Both(p) : p \in Pairs} /\ blocks' \subseteq Blockers
      /\ sends' \in 0 .. MaxSends
  BY <1>1, BothTyped DEF MakeFriendsWrite, FriendsInv, TypeOK
<1>5. Uninvolved /\ work' = [work EXCEPT ![t] = NoWork]
  BY DEF MakeFriendsWrite, End, Becomes
<1> QED
  BY <1>2, <1>3, <1>4, <1>5, NoWorkSound, Aside

LEMMA RemoveInv ==
  ASSUME FriendsInv, NEW p \in Pairs, Remove(p)
  PROVE  FriendsInv'
<1>1. Symmetric(friends')
  <2> SUFFICES ASSUME NEW q \in friends, q \notin Both(p)
               PROVE  Flip(q) \in friends /\ Flip(q) \notin Both(p)
    BY DEF Symmetric, Remove
  <2>1. Flip(q) \in friends
    BY DEF FriendsInv, FriendsMutual
  <2>2. Flip(Flip(q)) = q
    BY PairsAssumption DEF FriendsInv, TypeOK, Both, Flip
  <2>3. Flip(q) \in Both(p) => q \in Both(p)
    BY <2>2, PairsAssumption DEF Both, Flip
  <2> QED
    BY <2>1, <2>3
<1>2. friends' \subseteq UNION {Both(q) : q \in Pairs}
  BY DEF Remove, FriendsInv, TypeOK
<1> QED
  BY <1>1, <1>2, TablesOnly DEF Remove, FriendsInv, TypeOK

LEMMA UnblockInv ==
  ASSUME FriendsInv, NEW p \in Blockers, Unblock(p)
  PROVE  FriendsInv'
  BY TablesOnly DEF Unblock, FriendsInv, TypeOK, FriendsMutual, Symmetric

-----------------------------------------------------------------------------
(* Steps that move missions and pay rewards *)

\* A transaction's step that counts sources, writes rows that they back and pays
\* rewards that are earned.
LEMMA MissionStep ==
  ASSUME FriendsInv, Grows, NEW t \in Txns, NEW w, work' = [work EXCEPT ![t] = w], Sound(w)',
         \A u \in Users : counted'[u] \subseteq Pairs,
         mission' = [u \in Users |-> mission'[u]],
         achievement' = [u \in Users |-> achievement'[u]],
         \A u \in Users : Backed(u, RowsOf(u))',
         paid' = [r \in Rewards |-> paid'[r]],
         \A r \in Rewards : paid'[r] \in {0, 1} /\ (paid'[r] = 1 => Earned(r)'),
         request' \in [Pairs -> Statuses],
         friends' \subseteq UNION {Both(p) : p \in Pairs}, Symmetric(friends'),
         UNCHANGED <<blocks, sends>>
  PROVE  FriendsInv'
<1>1. DOMAIN work' = Txns /\ work'[t] = w /\ \A s \in Txns : s # t => work'[s] = work[s]
  BY DEF FriendsInv
<1>2. ASSUME NEW s \in Txns PROVE Sound(work[s])'
  <2>1. CASE s # t
    BY <1>1, <2>1, SoundStays DEF FriendsInv
  <2>2. CASE s = t
    BY <1>1, <2>2 DEF Sound, Earned, Backed
  <2> QED
    BY <2>1, <2>2
<1>3. mission' \in [Users -> MissionRow] /\ achievement' \in [Users -> AchievementRow]
  BY DEF Backed, RowsOf
<1>4. paid' \in [Rewards -> Nat]
  <2>1. \A r \in Rewards : paid'[r] \in Nat
    OBVIOUS
  <2> QED
    BY <2>1
<1>5. TypeOK'
  BY <1>3, <1>4 DEF FriendsInv, TypeOK, MissionsTypeOK, Grows
<1>6. (\A r \in Rewards : paid[r] <= 1 /\ (paid[r] = 1 => Earned(r)))'
  OBVIOUS
<1>7. FriendsMutual'
  BY DEF FriendsMutual, Symmetric
<1> QED
  BY <1>1, <1>2, <1>5, <1>6, <1>7 DEF FriendsInv

LEMMA AcceptCommitInv ==
  ASSUME FriendsInv, NEW t \in Txns, AcceptCommit(t)
  PROVE  FriendsInv'
<1> DEFINE p == work[t].pair
           saw == work[t].saw
           us == Uncounted(DOMAIN saw, p)
<1>1. /\ p \in Pairs /\ work[t].made \subseteq Both(p) /\ Symmetric(work[t].made)
      /\ DOMAIN saw = {p[1], p[2]} /\ \A u \in DOMAIN saw : Backed(u, saw[u])
  BY DEF AcceptCommit, FriendsInv, Sound
<1>2. /\ counted' = [u \in Users |-> IF u \in us THEN counted[u] \cup {p} ELSE counted[u]]
      /\ mission' = [u \in Users |->
           IF u \in us /\ saw[u].mission.status # "CLAIMED" THEN Moved(saw[u].mission)
                                                           ELSE mission[u]]
      /\ achievement' = [u \in Users |->
           IF u \in us THEN [Climbed(saw[u].achievement) EXCEPT !.claimed = achievement[u].claimed]
                       ELSE achievement[u]]
  BY DEF AcceptCommit, Count
<1>3. us \subseteq DOMAIN saw /\ us \subseteq Users /\ \A u \in us : p \notin counted[u]
  BY <1>1, PairFacts DEF Uncounted
<1> HIDE DEF us, saw, p
<1>4. \A u \in Users : IsFiniteSet(counted[u]) /\ counted[u] \subseteq Pairs
  BY DEF FriendsInv, TypeOK, MissionsTypeOK
<1>5. Grows
  BY <1>2, <1>4, FS_AddElement DEF Grows
<1>6. ASSUME NEW u \in Users PROVE Backed(u, RowsOf(u))'
  <2>1. CASE u \notin us
    <3>1. mission'[u] = mission[u] /\ achievement'[u] = achievement[u]
      BY <1>2, <2>1
    <3>2. Backed(u, [mission |-> mission[u], achievement |-> achievement[u]])
      BY DEF FriendsInv, RowsOf
    <3>3. counted'[u] = counted[u]
      BY <1>2, <2>1
    <3> QED
      BY <3>1, <3>2, <3>3 DEF Backed, RowsOf
  <2>2. CASE u \in us
    <3>1. counted'[u] = counted[u] \cup {p} /\ p \notin counted[u] /\ Backed(u, saw[u])
      BY <1>1, <1>2, <1>3, <2>2
    <3>2. achievement[u].claimed \in 0 .. Len(Tiers)
      BY DEF FriendsInv, TypeOK, MissionsTypeOK, AchievementRow
    <3> DEFINE m == Moved(saw[u].mission)
               a == [Climbed(saw[u].achievement) EXCEPT !.claimed = achievement[u].claimed]
               n == Cardinality(counted'[u])
    <3>3. /\ m \in MissionRow /\ a \in AchievementRow /\ m.progress <= n /\ a.progress <= n
          /\ m.status = "COMPLETED" => Target <= n
          /\ TiersAscend => \A k \in 1 .. a.completed : Tiers[k] <= n
      BY <1>4, <3>1, <3>2, CountedRows DEF Backed
    <3>4. achievement'[u] = a
      BY <1>2, <2>2
    <3>5. CASE saw[u].mission.status # "CLAIMED"
      <4>1. mission'[u] = m
        BY <1>2, <2>2, <3>5
      <4> HIDE DEF m, a
      <4> QED
        BY <3>3, <3>4, <4>1 DEF Backed, RowsOf
    <3>6. CASE saw[u].mission.status = "CLAIMED"
      <4>1. mission'[u] = mission[u]
        BY <1>2, <2>2, <3>6
      <4>2. /\ mission[u] \in MissionRow /\ mission[u].progress <= n
            /\ mission[u].status = "COMPLETED" => Target <= n
        <5>1. Backed(u, RowsOf(u))
          BY DEF FriendsInv
        <5>2. Backed(u, [mission |-> mission[u], achievement |-> achievement[u]])
          BY <5>1 DEF RowsOf
        <5>3. /\ mission[u] \in MissionRow /\ mission[u].progress <= Cardinality(counted[u])
              /\ mission[u].status = "COMPLETED" => Target <= Cardinality(counted[u])
          BY <5>2 DEF Backed
        <5>4. mission[u].progress \in Nat /\ Target \in Nat
          BY <5>3, TargetAssumption DEF MissionRow
        <5>5. /\ Cardinality(counted[u]) \in Nat /\ n \in Nat
              /\ Cardinality(counted[u]) <= n
          BY <1>5, Counts
        <5> HIDE DEF n
        <5> QED
          BY <5>3, <5>4, <5>5
      <4> HIDE DEF m, a
      <4> QED
        BY <3>3, <3>4, <4>1, <4>2 DEF Backed, RowsOf
    <3> QED
      BY <3>5, <3>6
  <2> QED
    BY <2>1, <2>2
<1>7. \A u \in Users : counted'[u] \subseteq Pairs
  BY <1>1, <1>2, <1>4
<1>8. /\ paid' = [r \in Rewards |-> paid'[r]]
      /\ \A r \in Rewards : paid'[r] \in {0, 1} /\ (paid'[r] = 1 => Earned(r)')
  <2>1. paid' = paid /\ paid \in [Rewards -> Nat]
    BY DEF AcceptCommit, FriendsInv, TypeOK, MissionsTypeOK
  <2>2. \A r \in Rewards : paid[r] <= 1 /\ (paid[r] = 1 => Earned(r))
    BY DEF FriendsInv
  <2>3. \A r \in Rewards : Earned(r) => Earned(r)'
    BY <1>5, EarnedStays
  <2> QED
    BY <2>1, <2>2, <2>3
<1>9. request' \in [Pairs -> Statuses]
  BY DEF AcceptCommit, FriendsInv, TypeOK, Statuses
<1>10. friends' \subseteq UNION {Both(q) : q \in Pairs} /\ Symmetric(friends')
  BY <1>1 DEF AcceptCommit, FriendsInv, TypeOK, FriendsMutual, Symmetric, p
<1>11. work' = [work EXCEPT ![t] = NoWork] /\ Sound(NoWork)' /\ UNCHANGED <<blocks, sends>>
  BY NoWorkSound DEF AcceptCommit, End, Becomes, Sound, NoWork
<1>12. /\ mission' = [u \in Users |-> mission'[u]]
       /\ achievement' = [u \in Users |-> achievement'[u]]
  BY <1>2
<1> QED
  BY <1>5, <1>6, <1>7, <1>8, <1>9, <1>10, <1>11, <1>12, MissionStep

LEMMA ClaimMissionInv ==
  ASSUME FriendsInv, NEW t \in Txns, NEW u \in Claimants, ClaimMission(t, u),
         UNCHANGED <<request, friends, blocks, sends>>
  PROVE  FriendsInv'
<1> DEFINE w == [op |-> "claim", reward |-> <<u, 0>>]
<1>1. u \in Users
  BY ClaimantsAssumption
<1>2. <<u, 0>> \in Rewards /\ Earned(<<u, 0>>)
  BY <1>1, CompleteIsEarned DEF ClaimMission, FriendsInv
<1>3. Sound(w)
  BY <1>2 DEF Sound
<1>4. Begin(t, w) /\ Uninvolved
  BY DEF ClaimMission, Begin, Uninvolved
<1> HIDE DEF w
<1> QED
  BY <1>3, <1>4, BeginsInv DEF FriendsInv, TypeOK

LEMMA ClaimTierInv ==
  ASSUME FriendsInv, NEW t \in Txns, NEW u \in Claimants, ClaimTier(t, u),
         UNCHANGED <<request, friends, blocks, sends>>
  PROVE  FriendsInv'
<1> DEFINE n == achievement[u].claimed + 1
           w == [op |-> "claim", reward |-> <<u, n>>]
<1>1. u \in Users
  BY ClaimantsAssumption
<1>2. n \in Nat \ {0} /\ n <= achievement[u].completed
  BY <1>1, TiersTyped DEF ClaimTier, FriendsInv, TypeOK, MissionsTypeOK, AchievementRow
<1>3. Backed(u, RowsOf(u))
  BY <1>1 DEF FriendsInv
<1> HIDE DEF n
<1>4. <<u, n>> \in Rewards /\ Earned(<<u, n>>)
  BY <1>1, <1>2, <1>3, CompleteIsEarned
<1>5. Sound(w)
  BY <1>4 DEF Sound
<1>6. Begin(t, w) /\ Uninvolved
  BY DEF ClaimTier, Begin, Uninvolved, n
<1> HIDE DEF w
<1> QED
  BY <1>5, <1>6, BeginsInv DEF FriendsInv, TypeOK

LEMMA ClaimInv ==
  ASSUME FriendsInv, NEW t \in Txns, Claim(t), UNCHANGED <<request, friends, blocks, sends>>
  PROVE  FriendsInv'
<1> DEFINE r == work[t].reward
           u == r[1]
           n == r[2]
<1>1. r \in Rewards /\ Earned(r) /\ u \in Users /\ n \in 0 .. Len(Tiers) /\ r = <<u, n>>
  BY DEF Claim, FriendsInv, Sound, Rewards
<1>2. counted' = counted /\ Grows
  BY DEF Claim, Grows, FriendsInv, TypeOK, MissionsTypeOK
<1>3. /\ mission' = IF n = 0 THEN [mission EXCEPT ![u].status = "CLAIMED"] ELSE mission
      /\ achievement' = IF n = 0 THEN achievement ELSE [achievement EXCEPT ![u].claimed = n]
      /\ paid' = IF paid[r] > 0 THEN paid ELSE [paid EXCEPT ![r] = 1]
  BY <1>1 DEF Claim, Granted
<1> HIDE DEF r
<1>4. /\ mission \in [Users -> MissionRow] /\ achievement \in [Users -> AchievementRow]
      /\ paid \in [Rewards -> Nat]
  BY DEF FriendsInv, TypeOK, MissionsTypeOK
<1>5. /\ mission' = [v \in Users |-> mission'[v]]
      /\ achievement' = [v \in Users |-> achievement'[v]]
      /\ paid' = [v \in Rewards |-> paid'[v]]
  BY <1>3, <1>4
<1>6. ASSUME NEW v \in Users PROVE Backed(v, RowsOf(v))'
  <2>1. /\ mission[v] \in MissionRow /\ achievement[v] \in AchievementRow
        /\ mission[v].progress <= Cardinality(counted[v])
        /\ achievement[v].progress <= Cardinality(counted[v])
        /\ mission[v].status = "COMPLETED" => Target <= Cardinality(counted[v])
        /\ TiersAscend => \A k \in 1 .. achievement[v].completed : Tiers[k] <= Cardinality(counted[v])
    <3>1. Backed(v, [mission |-> mission[v], achievement |-> achievement[v]])
      BY DEF FriendsInv, RowsOf
    <3> QED
      BY <3>1 DEF Backed
  <2>2. /\ mission'[v] \in MissionRow /\ mission'[v].progress = mission[v].progress
        /\ mission'[v].status \in {mission[v].status, "CLAIMED"}
    BY <1>3, <1>4, <2>1 DEF MissionRow
  <2>3. /\ achievement'[v] \in AchievementRow
        /\ achievement'[v].progress = achievement[v].progress
        /\ achievement'[v].completed = achievement[v].completed
    BY <1>1, <1>3, <1>4, <2>1 DEF AchievementRow
  <2> QED
    BY <1>2, <2>1, <2>2, <2>3 DEF Backed, RowsOf
<1>7. \A q \in Rewards : paid'[q] \in {0, 1} /\ (paid'[q] = 1 => Earned(q)')
  <2>1. \A q \in Rewards : paid[q] \in {0, 1} /\ (paid[q] = 1 => Earned(q))
    BY <1>4 DEF FriendsInv
  <2>2. \A q \in Rewards : Earned(q) => Earned(q)'
    BY <1>2, EarnedStays
  <2>3. \A q \in Rewards : paid'[q] = paid[q] \/ (q = r /\ paid'[q] = 1)
    BY <1>1, <1>3, <1>4
  <2> QED
    BY <1>1, <2>1, <2>2, <2>3
<1>8. work' = [work EXCEPT ![t] = NoWork] /\ Sound(NoWork)'
  BY DEF Claim, Sound, NoWork
<1>9. /\ request' \in [Pairs -> Statuses]
      /\ friends' \subseteq UNION {Both(p) : p \in Pairs} /\ Symmetric(friends')
      /\ \A v \in Users : counted'[v] \subseteq Pairs
  BY <1>2 DEF FriendsInv, TypeOK, FriendsMutual, Symmetric
<1> QED
  BY <1>2, <1>5, <1>6, <1>7, <1>8, <1>9, MissionStep

-----------------------------------------------------------------------------
(* The theorems *)

LEMMA InitInv == Init => FriendsInv
<1> SUFFICES ASSUME Init PROVE FriendsInv
  OBVIOUS
<1>1. /\ counted = [u \in Users |-> {}]
      /\ mission = [u \in Users |-> [progress |-> 0, status |-> "ACTIVE"]]
      /\ achievement = [u \in Users |-> [progress |-> 0, completed |-> 0, claimed |-> 0]]
      /\ paid = [r \in Rewards |-> 0] /\ work = [t \in Txns |-> NoWork]
      /\ request = [p \in Pairs |-> "NONE"] /\ friends = {} /\ blocks = {} /\ sends = 0
  BY DEF Init, MissionsInit
<1>2. IsFiniteSet({}) /\ Cardinality({}) = 0
  BY FS_EmptySet
<1>3. /\ [progress |-> 0, status |-> "ACTIVE"] \in MissionRow
      /\ [progress |-> 0, completed |-> 0, claimed |-> 0] \in AchievementRow
  BY TiersTyped, TargetAssumption DEF MissionRow, AchievementRow
<1>4. TypeOK /\ FriendsMutual
  BY <1>1, <1>2, <1>3, MaxSendsAssumption DEF TypeOK, MissionsTypeOK, FriendsMutual, Statuses
<1>5. \A u \in Users : Backed(u, RowsOf(u))
  BY <1>1, <1>2, <1>3 DEF Backed, RowsOf
<1>6. DOMAIN work = Txns /\ \A t \in Txns : Sound(work[t])
  BY <1>1, NoWorkSound
<1>7. \A r \in Rewards : paid[r] <= 1 /\ (paid[r] = 1 => Earned(r))
  BY <1>1
<1> QED
  BY <1>4, <1>5, <1>6, <1>7 DEF FriendsInv

LEMMA NextInv == FriendsInv /\ [Next]_vars => FriendsInv'
<1> SUFFICES ASSUME FriendsInv, [Next]_vars PROVE FriendsInv'
  OBVIOUS
<1>1. CASE UNCHANGED vars
  BY <1>1, TablesOnly DEF vars, Uninvolved, FriendsInv, TypeOK, FriendsMutual, Symmetric
<1>2. CASE MissionsNext /\ UNCHANGED <<request, friends, blocks, sends>>
  BY <1>2, ClaimMissionInv, ClaimTierInv, ClaimInv DEF MissionsNext
<1>3. ASSUME NEW t \in Txns,
             \/ SendWrite(t) \/ AcceptWrite(t) \/ AcceptCommit(t) \/ RespondWrite(t)
             \/ BlockCommit(t) \/ MakeFriendsWrite(t)
      PROVE  FriendsInv'
  BY <1>3, SendWriteInv, AcceptWriteInv, AcceptCommitInv, RespondWriteInv, BlockCommitInv,
     MakeFriendsWriteInv
<1>4. ASSUME NEW t \in Txns, NEW p \in Pairs,
             \/ Send(t, p) \/ Accept(t, p) \/ MakeFriends(t, p)
             \/ \E answer \in {"DECLINED", "CANCELED"} : Respond(t, p, answer)
      PROVE  FriendsInv'
  BY <1>4, FriendStepInv
<1>5. ASSUME NEW t \in Txns, NEW p \in Blockers, Block(t, p)
      PROVE  FriendsInv'
  BY <1>5, BlockInv
<1>6. CASE (\E p \in Pairs : Remove(p)) \/ (\E p \in Blockers : Unblock(p))
  BY <1>6, RemoveInv, UnblockInv
<1> QED
  BY <1>1, <1>2, <1>3, <1>4, <1>5, <1>6 DEF Next

\* The strengthened invariant of requests, friendships, missions and the
\* transactions open on them.
THEOREM Invariant == Spec => []FriendsInv
<1>1. FriendsInv /\ [Next]_vars => FriendsInv'
  BY NextInv
<1> QED
  BY <1>1, InitInv, PTL DEF Spec

\* The tables keep their types, and a mission's progress never passes its target,
\* nor an achievement's tier the last one.
THEOREM TypeCorrect == Spec => []TypeOK
<1>1. FriendsInv => TypeOK
  BY DEF FriendsInv
<1> QED
  BY <1>1, Invariant, PTL

\* However accepts, blocks, removals and administrators interleave, a friendship
\* is seen by both players or by neither.
THEOREM MutualHolds == Spec => []FriendsMutual
<1>1. FriendsInv => FriendsMutual
  BY DEF FriendsInv
<1> QED
  BY <1>1, Invariant, PTL

\* Where the tiers of the achievement ascend, as in the catalogue the service
\* installs, every reward is paid at most once and for as many different sources
\* as it asks for.
THEOREM RewardHolds ==
  ASSUME TiersAscend
  PROVE  Spec => []RewardEarned
<1>1. FriendsInv => RewardEarned
  <2> SUFFICES ASSUME FriendsInv, NEW r \in Rewards
               PROVE  /\ paid[r] <= 1
                      /\ paid[r] = 1 => Cardinality(counted[r[1]]) >= Needed(r)
    BY DEF RewardEarned
  <2>1. r[1] \in Users /\ r[2] \in 0 .. Len(Tiers)
    BY DEF Rewards
  <2>2. Needed(r) \in Nat /\ Cardinality(counted[r[1]]) \in Nat
    BY <2>1, TiersTyped, TargetAssumption, FS_CardinalityType
       DEF Needed, FriendsInv, TypeOK, MissionsTypeOK
  <2>3. paid[r] <= 1 /\ (paid[r] = 1 => Needed(r) <= Cardinality(counted[r[1]]))
    BY DEF FriendsInv, Earned
  <2> QED
    BY <2>2, <2>3
<1> QED
  BY <1>1, Invariant, PTL

=============================================================================
