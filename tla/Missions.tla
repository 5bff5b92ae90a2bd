------------------------------ MODULE Missions ------------------------------
(***************************************************************************)
(* The engagement events of missions.service.ts: an event of a player is    *)
(* counted once for its source, moves the player's mission and achievement  *)
(* forward, and what is complete can be claimed for a credit.  Events are   *)
(* recorded inside the transaction of whoever reports them (Friends.tla),   *)
(* claims are transactions of their own.  The mission and the achievement   *)
(* are those of one event type; XP and the notices of completion are left   *)
(* out.                                                                     *)
(***************************************************************************)
EXTENDS Naturals, Sequences, FiniteSets

CONSTANTS Users,     \* the players
          Claimants, \* the players who claim rewards
          Txns,      \* the transactions that can be open at once
          Target,    \* events the mission asks for
          Tiers      \* events each tier of the achievement asks for

ASSUME ClaimantsAssumption == Claimants \subseteq Users
ASSUME TargetAssumption == Target \in Nat \ {0}
ASSUME TiersAssumption == Tiers \in Seq(Nat \ {0})

VARIABLES
  counted,     \* EngagementEvent rows: the sources counted for each player
  mission,     \* PlayerMission rows
  achievement, \* PlayerAchievement rows
  paid,        \* wallet credits for each reward
  work         \* the open transactions

missionVars == <<counted, mission, achievement, paid, work>>

NoWork == [op |-> "none"]

\* Reward 0 is the mission's, reward n that of the achievement's tier n: the
\* source ids MISSION:<row> and ACHIEVEMENT:<row>:<tier>.
Rewards == Users \X (0 .. Len(Tiers))

MissionsInit ==
  /\ counted = [u \in Users |-> {}]
  /\ mission = [u \in Users |-> [progress |-> 0, status |-> "ACTIVE"]]
  /\ achievement = [u \in Users |-> [progress |-> 0, completed |-> 0, claimed |-> 0]]
  /\ paid = [r \in Rewards |-> 0]
  /\ work = [t \in Txns |-> NoWork]

-----------------------------------------------------------------------------
(* recordWithinTransaction *)

\* The rows of u that a transaction reads before it counts an event.
RowsOf(u) == [mission |-> mission[u], achievement |-> achievement[u]]

\* Mutant of Moved: a mission already complete counts on from its target.
Moved_NoCap(row) ==
  LET p == row.progress + 1
  IN  [progress |-> p, status |-> IF p >= Target THEN "COMPLETED" ELSE "ACTIVE"]

\* The mission row one event later.
Moved(row) ==
  LET p == IF row.progress + 1 > Target THEN Target ELSE row.progress + 1
  IN  [progress |-> p, status |-> IF p >= Target THEN "COMPLETED" ELSE "ACTIVE"]

\* The achievement row one event later: the tier never falls below the one read.
Climbed(row) ==
  LET p == row.progress + 1
  IN  [row EXCEPT !.progress = p,
                  !.completed = CHOOSE n \in row.completed .. Len(Tiers) :
                      /\ n = row.completed \/ Tiers[n] <= p
                      /\ \A k \in row.completed + 1 .. Len(Tiers) : Tiers[k] <= p => k <= n]

\* The players among us for whom the source is new.
Uncounted(us, source) == {u \in us : source \notin counted[u]}

\* A transaction that read the rows saw counts the source for the players of
\* saw, and writes what it computed from them: a claimed mission is left alone,
\* a claimed tier is not written.
Count(saw, source) ==
  LET us == Uncounted(DOMAIN saw, source)
  IN  /\ counted' = [u \in Users |-> IF u \in us THEN counted[u] \cup {source} ELSE counted[u]]
      /\ mission' = [u \in Users |->
           IF u \in us /\ saw[u].mission.status # "CLAIMED" THEN Moved(saw[u].mission)
                                                           ELSE mission[u]]
      /\ achievement' = [u \in Users |->
           IF u \in us THEN [Climbed(saw[u].achievement) EXCEPT !.claimed = achievement[u].claimed]
                       ELSE achievement[u]]

-----------------------------------------------------------------------------
(* claimMission and claimAchievement *)

\* A claim reads a mission that is complete and not yet claimed.
ClaimMission(t, u) ==
  /\ work[t] = NoWork
  /\ mission[u].status = "COMPLETED"
  /\ work' = [work EXCEPT ![t] = [op |-> "claim", reward |-> <<u, 0>>]]
  /\ UNCHANGED <<counted, mission, achievement, paid>>

\* A claim reads that the next tier is complete.
ClaimTier(t, u) ==
  LET n == achievement[u].claimed + 1
  IN  /\ work[t] = NoWork
      /\ n <= achievement[u].completed
      /\ work' = [work EXCEPT ![t] = [op |-> "claim", reward |-> <<u, n>>]]
      /\ UNCHANGED <<counted, mission, achievement, paid>>

\* Mutant of Granted: a credit looks for no earlier credit of its source.
Granted_Again(r) == [paid EXCEPT ![r] = @ + 1]

\* CreditWalletTransaction with the reward's source id: the second credit of a
\* source replays the first.
Granted(r) == IF paid[r] > 0 THEN paid ELSE [paid EXCEPT ![r] = 1]

\* The claim credits the reward and marks the row by its id.
Claim(t) ==
  /\ work[t].op = "claim"
  /\ LET u == work[t].reward[1]
         n == work[t].reward[2]
     IN  /\ paid' = Granted(<<u, n>>)
         /\ mission' = IF n = 0 THEN [mission EXCEPT ![u].status = "CLAIMED"] ELSE mission
         /\ achievement' = IF n = 0 THEN achievement
                                    ELSE [achievement EXCEPT ![u].claimed = n]
  /\ work' = [work EXCEPT ![t] = NoWork]
  /\ UNCHANGED counted

MissionsNext == \E t \in Txns :
  \/ \E u \in Claimants : ClaimMission(t, u) \/ ClaimTier(t, u)
  \/ Claim(t)

-----------------------------------------------------------------------------
(* Properties *)

MissionRow == [progress : 0 .. Target, status : {"ACTIVE", "COMPLETED", "CLAIMED"}]
AchievementRow == [progress : Nat, completed : 0 .. Len(Tiers), claimed : 0 .. Len(Tiers)]

MissionsTypeOK ==
  /\ \A u \in Users : IsFiniteSet(counted[u])
  /\ mission \in [Users -> MissionRow]
  /\ achievement \in [Users -> AchievementRow]
  /\ paid \in [Rewards -> Nat]

Needed(r) == IF r[2] = 0 THEN Target ELSE Tiers[r[2]]

\* Every reward is paid at most once, and only for as many different sources as
\* it asks for: although rows are read before they are written, an event can
\* undo a claim's mark, a claim can undo a later one, and friendships end and
\* begin again (missions.service.ts:68-127).
RewardEarned ==
  \A r \in Rewards :
    /\ paid[r] <= 1
    /\ paid[r] = 1 => Cardinality(counted[r[1]]) >= Needed(r)

-----------------------------------------------------------------------------
(* The parts of the inductive invariant (see Friends) *)

\* A tier asks for no fewer events than the ones before it: so does the catalogue
\* that missions.service.ts:31-45 installs, while createTier checks nothing.
TiersAscend == \A i, j \in 1 .. Len(Tiers) : i <= j => Tiers[i] <= Tiers[j]

\* What u's rows say, those in the tables or those a transaction has read, is
\* covered by sources counted for u.
Backed(u, rows) ==
  LET n == Cardinality(counted[u])
  IN  /\ rows.mission \in MissionRow /\ rows.achievement \in AchievementRow
      /\ rows.mission.progress <= n /\ rows.achievement.progress <= n
      /\ rows.mission.status = "COMPLETED" => Target <= n
      /\ TiersAscend => \A k \in 1 .. rows.achievement.completed : Tiers[k] <= n

\* A reward has been earned: the mission's, or, where tiers ascend, a tier's.
Earned(r) == r[2] = 0 \/ TiersAscend => Needed(r) <= Cardinality(counted[r[1]])

=============================================================================
