------------------------------- MODULE Friends -------------------------------
(***************************************************************************)
(* Friend requests, friendships and blocks, the transactions of            *)
(* src/src/modules/friends/transactions, together with the missions an      *)
(* accepted request moves forward.  A transaction reads without locks, and  *)
(* what it then does to a request it does by the row's id.  The presence    *)
(* heartbeat, the audit rows and the lists are left out; every player is    *)
(* active.                                                                  *)
(***************************************************************************)
EXTENDS Missions

CONSTANTS Pairs,     \* <<a, b>>: a sends b requests
          Blockers,  \* <<a, b>>: a blocks and unblocks b
          MaxSends   \* bound: requests sent

ASSUME PairsAssumption ==
  \A p \in Pairs \cup Blockers : p \in Users \X Users /\ p[1] # p[2]
ASSUME MaxSendsAssumption == MaxSends \in Nat

VARIABLES
  request,  \* FriendRequest rows, one for each requester and addressee
  friends,  \* Friendship rows, one for each direction
  blocks,   \* FriendBlock rows <<blocker, blocked>>
  sends     \* requests sent so far

vars == <<counted, mission, achievement, paid, work, request, friends, blocks, sends>>

Statuses == {"NONE", "PENDING", "ACCEPTED", "DECLINED", "CANCELED"}
Flip(p) == <<p[2], p[1]>>
Both(p) == {p, Flip(p)}
Rows(p) == Both(p) \cap Pairs  \* the requests between the two players

Init ==
  /\ MissionsInit
  /\ request = [p \in Pairs |-> "NONE"]
  /\ friends = {}
  /\ blocks = {}
  /\ sends = 0

-----------------------------------------------------------------------------
(* Locks.  A transaction that has written rows and not yet committed holds   *)
(* them; whoever writes the same rows waits for it.                          *)

\* A request row p is held by an accept that has written it.
HeldRequests(t) == {p \in Pairs : \E s \in Txns \ {t} :
                      work[s].op = "accepting" /\ work[s].pair = p}

\* The Friendship rows a block has deleted, and those an accept has inserted.
Deleted(t) == UNION {work[s].ended : s \in {s \in Txns \ {t} : work[s].op = "blocking"}}
Inserted(t) == UNION {work[s].made : s \in {s \in Txns \ {t} : work[s].op = "accepting"}}

Begin(t, w) == work[t] = NoWork /\ work' = [work EXCEPT ![t] = w]
Becomes(t, w) == work' = [work EXCEPT ![t] = w]
End(t) == Becomes(t, NoWork)

\* What friend transactions leave alone unless an accept commits.
Uninvolved == UNCHANGED <<counted, mission, achievement, paid>>

-----------------------------------------------------------------------------
(* CreateFriendRequestTransaction *)

Blocked(p) == Both(p) \cap blocks # {}

\* Every check is made on what was read.
Send(t, p) ==
  /\ sends < MaxSends
  /\ ~Blocked(p)
  /\ Both(p) \cap friends = {}
  /\ request[p] \notin {"PENDING", "ACCEPTED"}
  /\ \A q \in Rows(p) \ {p} : request[q] # "PENDING"
  /\ Begin(t, [op |-> "send", pair |-> p, seen |-> request[p]])
  /\ sends' = sends + 1
  /\ Uninvolved /\ UNCHANGED <<request, friends, blocks>>

\* A row that was there is set to PENDING by its id, whatever it has become; a
\* row that was not there is inserted unless another transaction has done so.
SendWrite(t) ==
  /\ work[t].op = "send"
  /\ LET p == work[t].pair
     IN  /\ p \notin HeldRequests(t)
         /\ request' = IF work[t].seen = "NONE" /\ request[p] # "NONE"
                         THEN request ELSE [request EXCEPT ![p] = "PENDING"]
  /\ End(t)
  /\ Uninvolved /\ UNCHANGED <<friends, blocks, sends>>

-----------------------------------------------------------------------------
(* AcceptFriendRequestTransaction *)

\* The addressee's accept reads that the request is pending, and nothing of
\* blocks or friendships.
Accept(t, p) ==
  /\ request[p] = "PENDING"
  /\ Begin(t, [op |-> "accept", pair |-> p])
  /\ Uninvolved /\ UNCHANGED <<request, friends, blocks, sends>>

\* The two Friendship rows of an accepted request.
Friendship(p) == Both(p)

\* The accept has inserted the friendship rows that were not there and marked the request, which it now
\* holds, and reads the rows of the missions it will move.
AcceptWrite(t) ==
  /\ work[t].op = "accept"
  /\ LET p == work[t].pair
     IN  /\ p \notin HeldRequests(t)
         /\ (Deleted(t) \cup Inserted(t)) \cap Both(p) = {}
         /\ Becomes(t, [op |-> "accepting", pair |-> p, made |-> Friendship(p) \ friends,
                        saw |-> [u \in {p[1], p[2]} |-> RowsOf(u)]])
  /\ Uninvolved /\ UNCHANGED <<request, friends, blocks, sends>>

\* The accept commits: the request's id is the source of FRIEND_ADDED for both.
AcceptCommit(t) ==
  /\ work[t].op = "accepting"
  /\ LET p == work[t].pair
     IN  /\ friends' = friends \cup work[t].made
         /\ request' = [request EXCEPT ![p] = "ACCEPTED"]
         /\ Count(work[t].saw, p)
  /\ End(t)
  /\ UNCHANGED <<paid, blocks, sends>>

-----------------------------------------------------------------------------
(* RespondFriendRequestTransaction: decline and cancel *)

Respond(t, p, answer) ==
  /\ request[p] = "PENDING"
  /\ Begin(t, [op |-> "respond", pair |-> p, answer |-> answer])
  /\ Uninvolved /\ UNCHANGED <<request, friends, blocks, sends>>

\* The answer is written by id, over whatever the request has become.
RespondWrite(t) ==
  /\ work[t].op = "respond"
  /\ work[t].pair \notin HeldRequests(t)
  /\ request' = [request EXCEPT ![work[t].pair] = work[t].answer]
  /\ End(t)
  /\ Uninvolved /\ UNCHANGED <<friends, blocks, sends>>

-----------------------------------------------------------------------------
(* BlockPlayerTransaction and UnblockPlayerTransaction *)

\* The block is inserted and the friendship rows that are there are deleted;
\* both are seen by others when the transaction commits.
Block(t, p) ==
  /\ Deleted(t) \cap Both(p) = {}
  /\ Begin(t, [op |-> "blocking", pair |-> p, ended |-> Both(p) \cap friends])
  /\ Uninvolved /\ UNCHANGED <<request, friends, blocks, sends>>

\* The pending requests between the two are cancelled, those an accept holds
\* once it has committed and only if they are pending still.
BlockCommit(t) ==
  /\ work[t].op = "blocking"
  /\ LET p == work[t].pair
     IN  /\ HeldRequests(t) \cap Both(p) = {}
         /\ blocks' = blocks \cup {p}
         /\ friends' = friends \ work[t].ended
         /\ request' = [q \in Pairs |-> IF q \in Both(p) /\ request[q] = "PENDING"
                                          THEN "CANCELED" ELSE request[q]]
  /\ End(t)
  /\ Uninvolved /\ UNCHANGED sends

Unblock(p) ==
  /\ p \in blocks
  /\ blocks' = blocks \ {p}
  /\ Uninvolved /\ UNCHANGED <<work, request, friends, sends>>

-----------------------------------------------------------------------------
(* RemoveFriendshipTransaction and CreateFriendshipTransaction *)

\* Mutant of Remove: only the row of the player who asks is deleted.
Remove_OneRow(p) ==
  /\ p \in friends
  /\ \A t \in Txns : Deleted(t) \cap Both(p) = {}
  /\ friends' = friends \ {p}
  /\ Uninvolved /\ UNCHANGED <<work, request, blocks, sends>>

\* One statement deletes both rows.
Remove(p) ==
  /\ Both(p) \cap friends # {}
  /\ \A t \in Txns : Deleted(t) \cap Both(p) = {}
  /\ friends' = friends \ Both(p)
  /\ Uninvolved /\ UNCHANGED <<work, request, blocks, sends>>

\* An administrator makes two players friends, who were read as not blocked.
MakeFriends(t, p) ==
  /\ ~Blocked(p)
  /\ Begin(t, [op |-> "make", pair |-> p])
  /\ Uninvolved /\ UNCHANGED <<request, friends, blocks, sends>>

\* Every request between the two becomes ACCEPTED, and none is counted.
MakeFriendsWrite(t) ==
  /\ work[t].op = "make"
  /\ LET p == work[t].pair
     IN  /\ (Deleted(t) \cup Inserted(t)) \cap Both(p) = {}
         /\ HeldRequests(t) \cap Both(p) = {}
         /\ friends' = friends \cup Both(p)
         /\ request' = [q \in Pairs |-> IF q \in Both(p) /\ request[q] # "NONE"
                                          THEN "ACCEPTED" ELSE request[q]]
  /\ End(t)
  /\ Uninvolved /\ UNCHANGED <<blocks, sends>>

-----------------------------------------------------------------------------

Next ==
  \/ MissionsNext /\ UNCHANGED <<request, friends, blocks, sends>>
  \/ \E t \in Txns :
       \/ SendWrite(t) \/ AcceptWrite(t) \/ AcceptCommit(t) \/ RespondWrite(t)
       \/ BlockCommit(t) \/ MakeFriendsWrite(t)
       \/ \E p \in Blockers : Block(t, p)
       \/ \E p \in Pairs :
            \/ Send(t, p) \/ Accept(t, p) \/ MakeFriends(t, p)
            \/ \E answer \in {"DECLINED", "CANCELED"} : Respond(t, p, answer)
  \/ \E p \in Pairs : Remove(p)
  \/ \E p \in Blockers : Unblock(p)

Spec == Init /\ [][Next]_vars

-----------------------------------------------------------------------------
(* Properties *)

\* The types of the rows.
TypeOK ==
  /\ MissionsTypeOK
  /\ request \in [Pairs -> Statuses]
  /\ friends \subseteq UNION {Both(p) : p \in Pairs}
  /\ blocks \subseteq Blockers
  /\ sends \in 0 .. MaxSends
  /\ \A u \in Users : counted[u] \subseteq Pairs

\* A friendship is seen by both players or by neither, whatever accepts,
\* blocks, removals and administrators do to it at once.
FriendsMutual == \A p \in friends : Flip(p) \in friends

-----------------------------------------------------------------------------
(* The inductive invariant *)

\* Friendship rows come in both directions.
Symmetric(rows) == \A p \in rows : Flip(p) \in rows

\* What an open transaction has read or written stays sound: the rows read by an
\* accept remain backed by counted sources, a reward to be paid remains earned,
\* and friendship rows are inserted and deleted in pairs.
Sound(w) ==
  CASE w.op = "claim"     -> w.reward \in Rewards /\ Earned(w.reward)
    [] w.op = "accepting" -> /\ w.pair \in Pairs
                             /\ w.made \subseteq Both(w.pair) /\ Symmetric(w.made)
                             /\ DOMAIN w.saw = {w.pair[1], w.pair[2]}
                             /\ \A u \in DOMAIN w.saw : Backed(u, w.saw[u])
    [] w.op = "blocking"  -> w.pair \in Blockers /\ Symmetric(w.ended)
    [] w.op = "respond"   -> w.pair \in Pairs /\ w.answer \in Statuses
    [] w.op \in {"send", "accept", "make"} -> w.pair \in Pairs
    [] OTHER -> w = NoWork

FriendsInv ==
  /\ TypeOK
  /\ DOMAIN work = Txns /\ \A t \in Txns : Sound(work[t])
  /\ FriendsMutual
  /\ \A u \in Users : Backed(u, RowsOf(u))
  /\ \A r \in Rewards : paid[r] <= 1 /\ (paid[r] = 1 => Earned(r))

=============================================================================
