---------------------------- MODULE Cooperative ----------------------------
(***************************************************************************)
(* Parties and cooperative matches: PartyService, CooperativeMatchService, *)
(* CooperativeMatchmakingWorker, the board services that play the match    *)
(* and the part of SettleMatchTransaction that closes it.                  *)
(*                                                                         *)
(* A party of friends queues in a mode; the worker claims one or two       *)
(* parties for a match (FOUND); the players confirm it before a deadline   *)
(* and the last confirmation captures the ranked entry fees (COMMITTED);   *)
(* the board is started when every player is ready, finished and settled.  *)
(*                                                                         *)
(* No handler of the party service, no confirmation and no expiry locks    *)
(* what it has read before it writes.  Each is a request in flight that    *)
(* read, and that writes later, by id, over what has happened since; its   *)
(* record holds what it remembers of its reads.  A request that fails, on  *)
(* a unique index, an empty wallet or a lost connection, writes nothing.   *)
(*                                                                         *)
(* A party is past its expiresAt when a handler finds it so: each handler  *)
(* that looks chooses the parties it finds overdue.                        *)
(***************************************************************************)
EXTENDS Naturals, Sequences, FiniteSets, Bags, BagsExt, SequencesExt

CONSTANTS
    Users,
    Parties,            \* parties that may be created, numbered in that order
    Matches,            \* matches that may be created, numbered in that order
    MaxMembers,         \* Party.maxMembers
    MaxInvites,         \* bound: invitations
    Reviewable,         \* bound: matches an administrator may flag for review
    MaxAsking,          \* bound: requests in flight
    MaxLobby            \* bound: requests to the party service among them

ASSUME CooperativeAssumption ==
    /\ Parties \subseteq Nat /\ Matches \subseteq Nat
    /\ MaxMembers \in Nat \ {0}
    /\ MaxInvites \in Nat /\ MaxAsking \in Nat /\ MaxLobby \in Nat

VARIABLES
    party,       \* Party rows: status and host
    members,     \* members with leftAt = null, by joinedAt
    left,        \* members that left: their row stays, unique on (party, user)
    invites,     \* PartyInvite rows, PENDING or answered
    entry,       \* active queue entry of a party and mode, if any
    coop,        \* CooperativeMatch rows and the status of their Match
    confirmed,   \* participants with confirmedAt
    board,       \* state of the board game
    ready,       \* participants with readyAt
    debits,      \* entry fees debited, by wallet source
    credits,     \* ledger operations PAYOUT and REFUND
    overdue,     \* matches past their confirmation deadline
    expiring,    \* matches the worker has read as overdue
    asking       \* bag of the players' requests in flight

partyVars == <<party, members, left, invites>>
matchVars == <<coop, confirmed, board, ready, debits, credits, overdue, expiring>>
vars == <<partyVars, entry, matchVars, asking>>

Modes == {"RANDOM", "RANKED"}
NoUser == "NONE"
ActivePartyStatuses == {"CREATED", "READY", "QUEUED", "MATCH_FOUND", "IN_MATCH"}
Live == {"FOUND", "COMMITTED"}

NoEntry == <<>>
Searching == <<"SEARCHING">>
Matched(m) == <<"MATCHED", m>>

Init ==
    /\ party = [p \in Parties |-> [status |-> "NONE", host |-> NoUser]]
    /\ members = [p \in Parties |-> <<>>]
    /\ left = [p \in Parties |-> {}]
    /\ invites = {}
    /\ entry = [p \in Parties |-> [mode \in Modes |-> NoEntry]]
    /\ coop = [m \in Matches |-> [status |-> "NONE", match |-> "NONE", mode |-> "RANDOM",
                                  parties |-> {}, humans |-> {}]]
    /\ confirmed = [m \in Matches |-> {}]
    /\ board = [m \in Matches |-> "NONE"]
    /\ ready = [m \in Matches |-> {}]
    /\ debits = [m \in Matches |-> [u \in Users |-> 0]]
    /\ credits = [m \in Matches |-> [u \in Users |-> {}]]
    /\ overdue = {}
    /\ expiring = {}
    /\ asking = EmptyBag

----------------------------------------------------------------------------
(* Requests in flight *)

\* the requests of confirm(); all others are the party service's
Confirming == {"confirm", "counted"}

\* bound: nobody asks for anything once every match that may be created has ended
Ended == {"CANCELLED", "SETTLED", "REVIEW"}
Lobbying == [r \in {r \in BagToSet(asking) : r.op \notin Confirming} |-> asking[r]]
Ask(r) ==
    /\ BagCardinality(asking) < MaxAsking
    /\ r.op \notin Confirming => BagCardinality(Lobbying) < MaxLobby
    /\ \E m \in Matches : coop[m].status \notin Ended
    /\ asking' = BagAdd(asking, r)
Answers(r, op) == BagIn(r, asking) /\ r.op = op /\ asking' = BagRemove(asking, r)

\* a handler throws or is lost before it has written anything
Drop(r) ==
    /\ BagIn(r, asking) /\ asking' = BagRemove(asking, r)
    /\ UNCHANGED <<partyVars, entry, matchVars>>

----------------------------------------------------------------------------
(* PartyService *)

MemberOf(p, u) == u \in ToSet(members[p])
Active(p) == party[p].status \in ActivePartyStatuses
InParty(u) == \E p \in Parties : Active(p) /\ MemberOf(p, u)
IsHost(p, u) == Active(p) /\ party[p].host = u

\* a claim renews expiresAt for longer than the confirmation deadline
MayBeOverdue(p) == \A m \in Matches : coop[m].status = "FOUND" => p \notin coop[m].parties

\* current(): overdue parties expire, and matched entries of ended matches
\* the caller played in are closed
Swept(pty, late) ==
    [p \in Parties |-> IF p \in late /\ MayBeOverdue(p) /\ pty[p].status \in ActivePartyStatuses
                       THEN [pty[p] EXCEPT !.status = "EXPIRED"] ELSE pty[p]]
SweptEntries(ent, u) ==
    [p \in Parties |-> [mode \in Modes |->
        IF \E m \in Matches : /\ ent[p][mode] = Matched(m)
                              /\ coop[m].status \in {"CANCELLED", "SETTLED"}
                              /\ u \in coop[m].humans
        THEN NoEntry ELSE ent[p][mode]]]

Current(u, late) ==
    /\ party' = Swept(party, late)
    /\ entry' = SweptEntries(entry, u)
    /\ UNCHANGED <<members, left, invites, matchVars, asking>>

\* create(): current() first; a party it finds is returned
ReadForCreate(u, late) ==
    /\ \E p \in Parties : party[p].status = "NONE"
    /\ \A p \in Parties : MemberOf(p, u) => Swept(party, late)[p].status \notin ActivePartyStatuses
    /\ Ask([op |-> "create", user |-> u])
    /\ party' = Swept(party, late)
    /\ entry' = SweptEntries(entry, u)
    /\ UNCHANGED <<members, left, invites, matchVars>>

Create(r, p) ==
    /\ Answers(r, "create")
    /\ party[p].status = "NONE" /\ \A q \in Parties : q < p => party[q].status # "NONE"
    /\ party' = [party EXCEPT ![p] = [status |-> "CREATED", host |-> r.user]]
    /\ members' = [members EXCEPT ![p] = <<r.user>>]
    /\ left' = [left EXCEPT ![p] = {}]
    /\ UNCHANGED <<invites, entry, matchVars>>

Invitation(p, u, status) == [party |-> p, invitee |-> u, status |-> status]
Answered(i) == (invites \ {i}) \union {[i EXCEPT !.status = "ANSWERED"]}

ReadForInvite(u, p, v) ==
    /\ IsHost(p, u)
    /\ Len(members[p]) < MaxMembers
    /\ v # u /\ ~InParty(v)
    /\ Invitation(p, v, "PENDING") \notin invites /\ Cardinality(invites) < MaxInvites
    /\ Ask([op |-> "invite", party |-> p, user |-> v])
    /\ UNCHANGED <<partyVars, entry, matchVars>>

\* one pending invitation of a party and player, by the unique index
Invite(r) ==
    /\ Answers(r, "invite")
    /\ Cardinality(invites) < MaxInvites
    /\ invites' = invites \union {Invitation(r.party, r.user, "PENDING")}
    /\ UNCHANGED <<party, members, left, entry, matchVars>>

ReadForAccept(i) ==
    /\ i \in invites /\ i.status = "PENDING"
    /\ party[i.party].status \in {"CREATED", "READY"}
    /\ ~InParty(i.invitee) /\ Len(members[i.party]) < MaxMembers
    /\ Ask([op |-> "accept", invite |-> i])
    /\ UNCHANGED <<partyVars, entry, matchVars>>

\* the member row is unique on (party, user), also for one who left; the
\* invitation and the party are written by id, and current() follows
AcceptInvite(r, late) ==
    LET i == r.invite  p == i.party  u == i.invitee IN
    /\ Answers(r, "accept")
    /\ ~MemberOf(p, u) /\ u \notin left[p]
    /\ invites' = Answered(i)
    /\ members' = [members EXCEPT ![p] = Append(@, u)]
    /\ party' = Swept([party EXCEPT ![p].status = "READY"], late)
    /\ entry' = SweptEntries(entry, u)
    /\ UNCHANGED <<left, matchVars>>

\* declineInvite(), or invites() that finds it overdue
DropInvite(i) ==
    /\ i \in invites /\ i.status = "PENDING"
    /\ invites' = Answered(i)
    /\ UNCHANGED <<party, members, left, entry, matchVars, asking>>

Without(s, u) ==
    IF u \in ToSet(s) THEN RemoveAt(s, CHOOSE i \in DOMAIN s : s[i] = u) ELSE s

\* the first of the others, who inherits the party from a host that leaves
Heir(p, u) ==
    LET remaining == Without(members[p], u) IN IF remaining = <<>> THEN NoUser ELSE Head(remaining)

\* leaving is possible in every status, and leaves the queue entry alone
ReadForLeave(u, p) ==
    /\ MemberOf(p, u)
    /\ Ask([op |-> "leave", party |-> p, user |-> u,
            host |-> party[p].host = u, heir |-> Heir(p, u)])
    /\ UNCHANGED <<partyVars, entry, matchVars>>

\* Mutant of Leave: the member's status says LEFT, its leftAt stays empty.
Leave_StaysSeated(r) ==
    /\ Answers(r, "leave")
    /\ left' = [left EXCEPT ![r.party] = @ \union {r.user}]
    /\ UNCHANGED <<party, members, invites, entry, matchVars>>

Leave(r) ==
    /\ Answers(r, "leave")
    /\ members' = [members EXCEPT ![r.party] = Without(@, r.user)]
    /\ left' = [left EXCEPT ![r.party] = @ \union {r.user}]
    /\ party' = [party EXCEPT ![r.party] =
            IF r.heir = NoUser THEN [@ EXCEPT !.status = "CLOSED"]
            ELSE IF r.host THEN [@ EXCEPT !.host = r.heir]
            ELSE @]
    /\ UNCHANGED <<invites, entry, matchVars>>

ReadForQueue(u, p, mode) ==
    /\ IsHost(p, u)
    /\ mode = "RANKED" => Len(members[p]) = 2
    /\ \A other \in Modes : entry[p][other] # Searching
    /\ Ask([op |-> "queue", party |-> p, mode |-> mode])
    /\ UNCHANGED <<partyVars, entry, matchVars>>

\* the partial unique index allows one SEARCHING or MATCHED entry of a party and mode
ActiveIndexFree(p, mode) == entry[p][mode] = NoEntry

Queue(r) ==
    /\ Answers(r, "queue")
    /\ ActiveIndexFree(r.party, r.mode)
    /\ party' = [party EXCEPT ![r.party].status = "QUEUED"]
    /\ entry' = [entry EXCEPT ![r.party][r.mode] = Searching]
    /\ UNCHANGED <<members, left, invites, matchVars>>

ReadForCancelQueue(u, p) ==
    /\ IsHost(p, u)
    /\ Ask([op |-> "cancel", party |-> p, user |-> u,
            status |-> IF Len(members[p]) > 1 THEN "READY" ELSE "CREATED"])
    /\ UNCHANGED <<partyVars, entry, matchVars>>

CancelQueue(r, late) ==
    /\ Answers(r, "cancel")
    /\ party' = Swept([party EXCEPT ![r.party].status = r.status], late)
    /\ entry' = SweptEntries([entry EXCEPT ![r.party] =
                    [mode \in Modes |-> IF @[mode] = Searching THEN NoEntry ELSE @[mode]]], r.user)
    /\ UNCHANGED <<members, left, invites, matchVars>>

----------------------------------------------------------------------------
(* CooperativeMatchService and its worker *)

Claimable(p, mode) ==
    /\ entry[p][mode] = Searching
    /\ party[p].status = "QUEUED"
    /\ members[p] # <<>>

\* claimNext(): one party with bots, or two of the same mode
Claim(m, chosen, mode) ==
    LET humans == UNION {ToSet(members[p]) : p \in chosen} IN
    /\ coop[m].status = "NONE" /\ \A n \in Matches : n < m => coop[n].status # "NONE"
    /\ Cardinality(chosen) \in {1, 2}
    /\ \A p \in chosen : Claimable(p, mode)
    \* a match participant is unique on (match, user)
    /\ \A p, q \in chosen : p # q => ToSet(members[p]) \cap ToSet(members[q]) = {}
    /\ coop' = [coop EXCEPT ![m] = [status |-> "FOUND", match |-> "CREATED", mode |-> mode,
                                    parties |-> chosen, humans |-> humans]]
    /\ entry' = [p \in Parties |-> IF p \in chosen THEN [entry[p] EXCEPT ![mode] = Matched(m)] ELSE entry[p]]
    /\ party' = [p \in Parties |-> IF p \in chosen
                    THEN [party[p] EXCEPT !.status = "MATCH_FOUND"] ELSE party[p]]
    /\ UNCHANGED <<members, left, invites, confirmed, board, ready, debits, credits,
                   overdue, expiring, asking>>

\* confirm() up to the checks: the host of a party of the match confirms for
\* all
ReadForConfirm(u, m) ==
    /\ u \in coop[m].humans
    /\ coop[m].status = "FOUND" /\ m \notin overdue
    /\ Ask([op |-> "confirm", match |-> m,
            mine |-> IF \E p \in coop[m].parties : party[p].host = u THEN coop[m].humans ELSE {u}])
    /\ UNCHANGED <<partyVars, entry, matchVars>>

\* its participant rows written and locked, it reads which of the others are
\* confirmed: what another confirmation has written and not committed, it
\* does not see
Counting(m, mine) ==
    \E c \in BagToSet(asking) : c.op = "counted" /\ c.match = m /\ c.mine \cap mine # {}

Count(r) ==
    /\ BagIn(r, asking) /\ r.op = "confirm"
    /\ ~Counting(r.match, r.mine)
    /\ asking' = BagAdd(BagRemove(asking, r),
            [op |-> "counted", match |-> r.match, mine |-> r.mine,
             all |-> confirmed[r.match] \union r.mine = coop[r.match].humans])
    /\ UNCHANGED <<partyVars, entry, matchVars>>

\* Mutant of Debited: every commitment debits, whatever the source id.
Debited_Again(m) ==
    [debits EXCEPT ![m] = [u \in Users |-> IF u \in coop[m].humans THEN @[u] + 1 ELSE @[u]]]

\* the wallet answers a source id it knows without moving money
Debited(m) ==
    [debits EXCEPT ![m] = [u \in Users |->
        IF u \in coop[m].humans /\ @[u] = 0 THEN 1 ELSE @[u]]]

\* confirm() commits: the one that counted every player captures the fees and
\* commits the match by id
Confirm(r) ==
    LET m == r.match IN
    /\ Answers(r, "counted")
    /\ confirmed' = [confirmed EXCEPT ![m] = @ \union r.mine]
    /\ IF r.all
       THEN /\ debits' = IF coop[m].mode = "RANKED" THEN Debited(m) ELSE debits
            /\ coop' = [coop EXCEPT ![m].status = "COMMITTED"]
            /\ party' = [p \in Parties |->
                  IF party[p].status = "MATCH_FOUND" /\ ToSet(members[p]) \cap coop[m].humans # {}
                  THEN [party[p] EXCEPT !.status = "IN_MATCH"] ELSE party[p]]
       ELSE UNCHANGED <<debits, coop, party>>
    /\ UNCHANGED <<members, left, invites, entry, board, ready, credits, overdue, expiring>>

DeadlinePasses(m) ==
    /\ coop[m].status = "FOUND" /\ m \notin overdue
    /\ overdue' = overdue \union {m}
    /\ UNCHANGED <<coop, confirmed, board, ready, debits, credits, expiring, entry>>
    /\ UNCHANGED <<partyVars, asking>>


\* expireConfirmations(): read, then write by id
ReadForExpiry(m) ==
    /\ coop[m].status = "FOUND" /\ m \in overdue
    /\ m \notin expiring
    /\ expiring' = expiring \union {m}
    /\ UNCHANGED <<coop, confirmed, board, ready, debits, credits, overdue, entry>>
    /\ UNCHANGED <<partyVars, asking>>

\* the entries and parties an ended match gives back
FreedEntries(m) ==
    [p \in Parties |-> [mode \in Modes |-> IF entry[p][mode] = Matched(m) THEN NoEntry ELSE entry[p][mode]]]

Expire(m) ==
    /\ m \in expiring
    /\ expiring' = expiring \ {m}
    /\ coop' = [coop EXCEPT ![m].status = "CANCELLED", ![m].match = "CANCELLED"]
    /\ entry' = FreedEntries(m)
    /\ party' = [p \in Parties |->
            IF p \in coop[m].parties /\ party[p].status = "MATCH_FOUND"
            THEN [party[p] EXCEPT !.status = "READY"] ELSE party[p]]
    /\ UNCHANGED <<members, left, invites, confirmed, board, ready, debits, credits, overdue, asking>>

----------------------------------------------------------------------------
(* The board services and the settlement *)

\* start(): a player is ready, and the last one starts the board.  The board
\* services do not look at the cooperative match
Start(u, m) ==
    LET all == ready[m] \union {u} = coop[m].humans IN
    /\ u \in coop[m].humans
    /\ coop[m].match \in {"CREATED", "STARTED"}
    /\ ready' = [ready EXCEPT ![m] = @ \union {u}]
    /\ board' = [board EXCEPT ![m] = IF all /\ @ = "NONE" THEN "ACTIVE" ELSE @]
    /\ coop' = [coop EXCEPT ![m].match = IF all THEN "STARTED" ELSE @]
    /\ UNCHANGED <<confirmed, debits, credits, overdue, expiring, entry>>
    /\ UNCHANGED <<partyVars, asking>>

\* finish(): the clock or a forfeit ends an active board, whatever the match says
Finish(m) ==
    /\ board[m] = "ACTIVE"
    /\ board' = [board EXCEPT ![m] = "FINISHED"]
    /\ coop' = [coop EXCEPT ![m].match = "FINISHED"]
    /\ UNCHANGED <<confirmed, ready, debits, credits, overdue, expiring, entry>>
    /\ UNCHANGED <<partyVars, asking>>

\* the winners share the payout; without a human winner every fee goes back
Credited(m, winners) ==
    [credits EXCEPT ![m] = [u \in Users |->
        IF u \notin coop[m].humans THEN @[u]
        ELSE IF winners = {} THEN @[u] \union {"REFUND"}
        ELSE IF u \in winners THEN @[u] \union {"PAYOUT"}
        ELSE @[u]]]

\* a finished board whose match has no settlement yet
Unsettled(m) == board[m] = "FINISHED" /\ coop[m].match \in {"FINISHED", "REVIEW"}

\* settled by the board service, by the worker or by an administrator
Settle(m, winners) ==
    /\ winners \subseteq coop[m].humans
    /\ Unsettled(m)
    /\ board' = [board EXCEPT ![m] = "SETTLED"]
    /\ coop' = [coop EXCEPT ![m].status = "SETTLED", ![m].match = "SETTLED"]
    /\ credits' = IF coop[m].mode = "RANKED" THEN Credited(m, winners) ELSE credits
    /\ entry' = [p \in Parties |-> IF p \in coop[m].parties THEN FreedEntries(m)[p] ELSE entry[p]]
    /\ party' = [p \in Parties |->
            IF p \in coop[m].parties /\ party[p].status \in {"MATCH_FOUND", "IN_MATCH"}
            THEN [party[p] EXCEPT !.status = "READY"] ELSE party[p]]
    /\ UNCHANGED <<members, left, invites, confirmed, ready, debits, overdue, expiring, asking>>

\* without an accepted action, or with a configuration that is not complete,
\* the rewards are withheld: the match waits for a review, its board stays
Withhold(m) ==
    /\ Unsettled(m)
    /\ coop' = [coop EXCEPT ![m].match = "REVIEW"]
    /\ UNCHANGED <<confirmed, board, ready, debits, credits, overdue, expiring, entry>>
    /\ UNCHANGED <<partyVars, asking>>

\* flagSettlementReview(): an administrator, in any state
FlagReview(m) ==
    /\ coop[m].status # "NONE" /\ m \in Reviewable
    /\ coop' = [coop EXCEPT ![m].status = "REVIEW", ![m].match = "REVIEW"]
    /\ UNCHANGED <<confirmed, board, ready, debits, credits, overdue, expiring, entry>>
    /\ UNCHANGED <<partyVars, asking>>

----------------------------------------------------------------------------
Lobby ==
    \/ \E u \in Users, late \in SUBSET Parties : Current(u, late) \/ ReadForCreate(u, late)
    \/ \E u \in Users, p \in Parties :
          \/ ReadForLeave(u, p) \/ ReadForCancelQueue(u, p)
          \/ \E v \in Users : ReadForInvite(u, p, v)
          \/ \E mode \in Modes : ReadForQueue(u, p, mode)
    \/ \E i \in invites : ReadForAccept(i) \/ DropInvite(i)
    \/ \E r \in BagToSet(asking) :
          \/ Invite(r) \/ Leave(r) \/ Queue(r) \/ Drop(r)
          \/ \E p \in Parties : Create(r, p)
          \/ \E late \in SUBSET Parties : AcceptInvite(r, late) \/ CancelQueue(r, late)

Play ==
    \/ \E m \in Matches, chosen \in SUBSET Parties, mode \in Modes : Claim(m, chosen, mode)
    \/ \E u \in Users, m \in Matches : ReadForConfirm(u, m) \/ Start(u, m)
    \/ \E r \in BagToSet(asking) : Count(r) \/ Confirm(r)
    \/ \E m \in Matches :
          \/ DeadlinePasses(m) \/ ReadForExpiry(m) \/ Expire(m)
          \/ Finish(m) \/ Withhold(m) \/ FlagReview(m)
          \/ \E winners \in SUBSET Users : Settle(m, winners)

Next == Lobby \/ Play

\* time and the worker's ticks
Fairness ==
    \A m \in Matches :
        /\ WF_vars(DeadlinePasses(m))
        /\ WF_vars(ReadForExpiry(m)) /\ WF_vars(Expire(m))
        /\ WF_vars(Finish(m))
        /\ WF_vars(coop[m].match = "FINISHED"
                     /\ (Withhold(m) \/ \E winners \in SUBSET Users : Settle(m, winners)))

Spec == Init /\ [][Next]_vars /\ Fairness

----------------------------------------------------------------------------
(* Properties *)

\* The rows of the module have the statuses and references of the schema.
PartyRow == [status : ActivePartyStatuses \union {"NONE", "EXPIRED", "CLOSED"},
             host : Users \union {NoUser}]
InviteRow == [party : Parties, invitee : Users, status : {"PENDING", "ANSWERED"}]
EntryRow == {NoEntry, Searching} \union {Matched(m) : m \in Matches}
CoopRow == [status : {"NONE", "CANCELLED", "SETTLED", "REVIEW"} \union Live,
            match : {"NONE", "CREATED", "STARTED", "FINISHED", "SETTLED", "CANCELLED", "REVIEW"},
            mode : Modes, parties : SUBSET Parties, humans : SUBSET Users]

Request ==
    [op : {"create"}, user : Users]
    \union [op : {"invite"}, party : Parties, user : Users]
    \union [op : {"accept"}, invite : InviteRow]
    \union [op : {"leave"}, party : Parties, user : Users, host : BOOLEAN, heir : Users \union {NoUser}]
    \union [op : {"queue"}, party : Parties, mode : Modes]
    \union [op : {"cancel"}, party : Parties, user : Users, status : {"READY", "CREATED"}]
    \union [op : {"confirm"}, match : Matches, mine : SUBSET Users]
    \union [op : {"counted"}, match : Matches, mine : SUBSET Users, all : BOOLEAN]

LobbyTypeOK ==
    /\ party \in [Parties -> PartyRow]
    /\ members \in [Parties -> Seq(Users)] /\ left \in [Parties -> SUBSET Users]
    /\ \A p \in Parties : ToSet(members[p]) \cap left[p] = {}
    /\ invites \subseteq InviteRow
    /\ BagToSet(asking) \subseteq Request

MatchTypeOK ==
    /\ entry \in [Parties -> [Modes -> EntryRow]]
    /\ coop \in [Matches -> CoopRow]
    /\ confirmed \in [Matches -> SUBSET Users] /\ ready \in [Matches -> SUBSET Users]
    /\ \A m \in Matches : confirmed[m] \union ready[m] \subseteq coop[m].humans
    /\ board \in [Matches -> {"NONE", "ACTIVE", "FINISHED", "SETTLED"}]
    /\ debits \in [Matches -> [Users -> Nat]]
    /\ credits \in [Matches -> [Users -> SUBSET {"PAYOUT", "REFUND"}]]
    /\ overdue \union expiring \subseteq Matches

TypeOK == LobbyTypeOK /\ MatchTypeOK

\* Nobody, or every player of the match, has paid the entry fee.
Unpaid(m) == \A u \in Users : debits[m][u] = 0
Paid(m) == \A u \in Users : debits[m][u] = IF u \in coop[m].humans THEN 1 ELSE 0

\* Fees are captured only of a ranked match that everybody has confirmed, from
\* every player and once; a match is settled once: it pays the winners, or
\* everybody back, and only when its board is settled.
MoneyOnce(m) ==
    /\ Unpaid(m) \/ (Paid(m) /\ coop[m].mode = "RANKED" /\ confirmed[m] = coop[m].humans)
    /\ \A u \in Users : credits[m][u] # {} => board[m] = "SETTLED" /\ coop[m].mode = "RANKED"
    /\ \/ \A u \in Users : credits[m][u] \in {{}, {"PAYOUT"}}
       \/ \A u \in Users : credits[m][u] = IF u \in coop[m].humans THEN {"REFUND"} ELSE {}

\* No wallet is charged until every player has confirmed, then all of them are,
\* and no fee, payout or refund moves twice, however confirmations, deadlines,
\* boards, settlements and reviews overlap.
MoneyMovesOnce == \A m \in Matches : MoneyOnce(m)

\* What confirm() promises of the paths that end a match without a game: a
\* match that timed out has cost nobody anything.
TimeoutsAreFree == \A m \in Matches : coop[m].status = "CANCELLED" => Unpaid(m)

\* Every match found is committed, cancelled or under review in the end, and
\* every board that was started is finished, and then settled, under review or
\* overtaken by a deadline that cancelled its match.
EveryMatchEnds ==
    \A m \in Matches :
        /\ coop[m].status = "FOUND" ~> coop[m].status # "FOUND"
        /\ board[m] = "ACTIVE" ~> \/ board[m] = "SETTLED" \/ coop[m].match = "REVIEW"
                                  \/ board[m] = "FINISHED" /\ coop[m].match = "CANCELLED"

----------------------------------------------------------------------------
(* The inductive invariants *)

\* A member row is unique, so that who leaves is gone.
SeatsOnce ==
    \A p \in Parties : \A i, j \in DOMAIN members[p] : members[p][i] = members[p][j] => i = j

LobbyInv == LobbyTypeOK /\ SeatsOnce

\* A confirmation in flight confirms for players of a match that was found, and
\* one that counted all of them still would.
Backed(r) ==
    r.op \in Confirming =>
        /\ coop[r.match].status # "NONE" /\ r.mine \subseteq coop[r.match].humans
        /\ r.op = "counted" /\ r.all => confirmed[r.match] \union r.mine = coop[r.match].humans

\* A match that was not created has no rows.
MatchInv ==
    /\ MatchTypeOK
    /\ \A m \in Matches : coop[m].status = "NONE" => coop[m].humans = {} /\ board[m] = "NONE"
    /\ \A r \in BagToSet(asking) : Backed(r)
=============================================================================
