----------------------------- MODULE CryptoPayouts -----------------------------
(***************************************************************************)
(* One crypto payout request of src/src/modules/crypto-rewards, from the   *)
(* moment its GLD is held to the moment the hold is charged or returned:   *)
(* the player's cancel, the administrator's decision, the submission to    *)
(* the payout provider, its verification, the provider's callbacks, the    *)
(* worker's polling and the expiry of the hold.                            *)
(*                                                                         *)
(* Cancel, decide and expire read the request without a lock and write it  *)
(* by id: each is a step that reads and one that writes.  Submission and   *)
(* verification call the provider between two writes.  The claim of a      *)
(* submission and a provider status take the row FOR UPDATE: one step.     *)
(*                                                                         *)
(* Abstractions.  Quotes, limits, addresses, fees and the provider's       *)
(* reserve are checks before the request exists or data a payout carries.  *)
(* CREATING and WAITING are one provider status: no branch tells them      *)
(* apart.  Time is whether the hold's expiry has passed, and back-off is   *)
(* not modelled: a poll may come at any time.  A poll answered late is a   *)
(* callback with an older status.  The wallet's idempotency row makes a    *)
(* second release of one hold no second credit (module Wallet).            *)
(*                                                                         *)
(* What a cancel, a decision or an expiry checked may have ceased to hold  *)
(* when it is written.  The history variable late records that this has    *)
(* happened; no guard reads it.                                            *)
(***************************************************************************)
EXTENDS Integers, Sequences, FiniteSets

CONSTANTS
  Deciders,      \* concurrent cancels, decisions and expiries
  Callers,       \* concurrent submissions and verifications
  Verification,  \* the settings of NOWPAYMENTS_REQUIRE_PAYOUT_VERIFICATION
  AutoVerify,    \* the worker verifies with a TOTP of its own
  MaxPayouts     \* bound on the payouts the provider creates

ASSUME JobsAssumption == Deciders \cap Callers = {}
ASSUME ConfigAssumption == Verification \subseteq BOOLEAN /\ AutoVerify \in BOOLEAN
ASSUME PayoutsAssumption == MaxPayouts \in Nat

Jobs == Deciders \cup Callers

Undecided == {"PENDING_ADMIN_APPROVAL", "APPROVED"}
Final == {"COMPLETED", "REFUNDED", "REJECTED", "EXPIRED"}
\* Mutant of Polled: the worker does not poll what it is submitting.
Polled_NotSubmitting ==
  {"CREATED", "AWAITING_PROVIDER_VERIFICATION", "PROCESSING", "SENDING", "RECONCILIATION_REQUIRED"}

Polled ==
  {"SUBMITTING", "CREATED", "AWAITING_PROVIDER_VERIFICATION", "PROCESSING", "SENDING", "RECONCILIATION_REQUIRED"}
Statuses == Undecided \cup Polled \cup Final

\* CryptoPayoutRequest.providerStatus, in the order of providerRank.
Rank == [none |-> 0, WAITING |-> 2, PROCESSING |-> 3, FAILED |-> 3, SENDING |-> 4, REJECTED |-> 5, FINISHED |-> 6]
ProviderStatuses == {"WAITING", "PROCESSING", "FAILED", "SENDING", "REJECTED", "FINISHED"}

Payout == [now: ProviderStatuses, was: SUBSET ProviderStatuses, verified: BOOLEAN]

\* What a request in flight has read or been answered, and will do next.
Steps == {"cancel", "approve", "reject", "listed", "expire", "post", "store", "verify", "verified"}
Idle == [step |-> "idle", payout |-> 0, answer |-> "none"]
Job ==
  {Idle} \cup [step: Steps, payout: 0 .. MaxPayouts, answer: ProviderStatuses \cup {"none"}]

VARIABLES
  status,    \* CryptoPayoutRequest.status
  hold,      \* CryptoPayoutHold.status
  returned,  \* the wallet has the credit `<id>:release`
  ref,       \* providerPayoutId of the request, 0 for null
  seen,      \* CryptoPayoutRequest.providerStatus
  lapsed,    \* holdExpiresAt has passed
  verification,  \* whether the provider's payouts need a code
  payouts,   \* the provider's payouts for this request
  late,      \* history: a decision was written after its check had ceased to hold
  jobs       \* requests in flight

row == <<status, hold, returned, ref, seen>>
vars == <<row, lapsed, verification, payouts, late, jobs>>

Init ==
  /\ status = "PENDING_ADMIN_APPROVAL"
  /\ hold = "HELD"
  /\ returned = FALSE
  /\ ref = 0
  /\ seen = "none"
  /\ lapsed = FALSE
  /\ verification \in Verification
  /\ payouts = <<>>
  /\ late = FALSE
  /\ jobs = [j \in Jobs |-> Idle]

-----------------------------------------------------------------------------
Free(j) == jobs[j] = Idle

At(j, step) == jobs[j].step = step

Goto(j, step) == jobs' = [jobs EXCEPT ![j] = [step |-> step, payout |-> 0, answer |-> "none"]]

Ends(j) == jobs' = [jobs EXCEPT ![j] = Idle]

\* releaseHold: the credit, the hold and the request, all by id.
Release(final) ==
  /\ hold' = "RELEASED"
  /\ returned' = TRUE
  /\ status' = final

\* A decision is written although the check made for it no longer holds.
Overtaken(check) == late' = (late \/ ~check)

-----------------------------------------------------------------------------
(* Cancel, decide, expire *)

Cancellable == status = "PENDING_ADMIN_APPROVAL" /\ hold = "HELD"

ReadForCancel(j) ==
  /\ Free(j)
  /\ Cancellable
  /\ Goto(j, "cancel")
  /\ UNCHANGED <<row, lapsed, verification, payouts, late>>

Cancel(j) ==
  /\ At(j, "cancel")
  /\ Release("REJECTED")
  /\ Overtaken(Cancellable)
  /\ Ends(j)
  /\ UNCHANGED <<ref, seen, lapsed, verification, payouts>>

\* An approval also needs a hold that has not expired.
ReadForDecision(j) ==
  /\ Free(j)
  /\ Cancellable
  /\ Goto(j, "reject") \/ (~lapsed /\ Goto(j, "approve"))
  /\ UNCHANGED <<row, lapsed, verification, payouts, late>>

Approve(j) ==
  /\ At(j, "approve")
  /\ status' = "APPROVED"
  /\ Overtaken(Cancellable)
  /\ Ends(j)
  /\ UNCHANGED <<hold, returned, ref, seen, lapsed, verification, payouts>>

Reject(j) ==
  /\ At(j, "reject")
  /\ Release("REJECTED")
  /\ Overtaken(Cancellable)
  /\ Ends(j)
  /\ UNCHANGED <<ref, seen, lapsed, verification, payouts>>

\* Mutant of Expirable: only requests without a decision expire.
Expirable_PendingOnly == status = "PENDING_ADMIN_APPROVAL" /\ lapsed

Expirable == status \in Undecided /\ lapsed

ListExpired(j) ==
  /\ Free(j)
  /\ Expirable
  /\ Goto(j, "listed")
  /\ UNCHANGED <<row, lapsed, verification, payouts, late>>

\* The second reading, in the transaction, only excludes SUBMITTING.
StillHeld == status # "SUBMITTING" /\ hold = "HELD"

ReadExpired(j) ==
  /\ At(j, "listed")
  /\ IF StillHeld THEN Goto(j, "expire") ELSE Ends(j)
  /\ UNCHANGED <<row, lapsed, verification, payouts, late>>

Expire(j) ==
  /\ At(j, "expire")
  /\ Release("EXPIRED")
  /\ Overtaken(StillHeld)
  /\ Ends(j)
  /\ UNCHANGED <<ref, seen, lapsed, verification, payouts>>

-----------------------------------------------------------------------------
(* Submission and verification *)

\* Mutant of Claimable: a submission without an answer may be submitted again.
Claimable_Again == status \in {"APPROVED", "SUBMITTING"} /\ hold = "HELD" /\ ref = 0 /\ ~lapsed

Claimable == status = "APPROVED" /\ hold = "HELD" /\ ref = 0 /\ ~lapsed

\* submitApproved under the row's lock, called by an administrator or the worker.
Claim(j) ==
  /\ Free(j)
  /\ Claimable
  /\ status' = "SUBMITTING"
  /\ Goto(j, "post")
  /\ UNCHANGED <<hold, returned, ref, seen, lapsed, verification, payouts, late>>

\* The provider takes the payout; the answer may still be lost.
Post(j) ==
  /\ At(j, "post")
  /\ Len(payouts) < MaxPayouts
  /\ payouts' = Append(payouts, [now |-> "WAITING", was |-> {"WAITING"}, verified |-> FALSE])
  /\ jobs' = [jobs EXCEPT ![j] = [step |-> "store", payout |-> Len(payouts) + 1, answer |-> "WAITING"]]
  /\ UNCHANGED <<row, lapsed, verification, late>>

\* storeProviderCreation, whatever the row says by now.
Store(j) ==
  /\ At(j, "store")
  /\ status' = IF verification THEN "AWAITING_PROVIDER_VERIFICATION" ELSE "CREATED"
  /\ ref' = jobs[j].payout
  /\ seen' = jobs[j].answer
  /\ Ends(j)
  /\ UNCHANGED <<hold, returned, lapsed, verification, payouts, late>>

\* An administrator's code, the submission itself or a poll of the worker.
ReadForVerify(j) ==
  /\ Free(j)
  /\ status = "AWAITING_PROVIDER_VERIFICATION" /\ ref # 0
  /\ jobs' = [jobs EXCEPT ![j] = [step |-> "verify", payout |-> ref, answer |-> "none"]]
  /\ UNCHANGED <<row, lapsed, verification, payouts, late>>

\* The provider accepts the code, or answers that there is nothing to verify.
Verify(j) ==
  /\ At(j, "verify")
  /\ payouts' = [payouts EXCEPT ![jobs[j].payout].verified = TRUE]
  /\ Goto(j, "verified")
  /\ UNCHANGED <<row, lapsed, verification, late>>

StoreVerification(j) ==
  /\ At(j, "verified")
  /\ status' = "PROCESSING"
  /\ Ends(j)
  /\ UNCHANGED <<hold, returned, ref, seen, lapsed, verification, payouts, late>>

\* A refused or timed out call, a rollback, a process that stops.
Fail(j) ==
  /\ ~Free(j)
  /\ Ends(j)
  /\ UNCHANGED <<row, lapsed, verification, payouts, late>>

-----------------------------------------------------------------------------
(* Provider statuses *)

Accepted(i, s) ==
  /\ ref \in {0, i}
  /\ status \notin Final
  /\ Rank[s] >= Rank[seen]

Settles == {"FINISHED"}

\* Mutant of Refunds: a failed payout is refunded at once, though it may go on.
Refunds_Failed == {"REJECTED", "FAILED"}

Refunds == {"REJECTED"}

\* Mutant of Local: the provider's status is stored as the request's.
Local_AsGiven(s) == s

Local(s) ==
  CASE s = "WAITING" /\ status = "AWAITING_PROVIDER_VERIFICATION" -> status
    [] s = "FAILED" -> "RECONCILIATION_REQUIRED"
    [] s = "SENDING" -> "SENDING"
    [] OTHER -> "PROCESSING"

\* applyProviderStatus, with consumeHold and releaseHold.
Apply(i, s) ==
  /\ Accepted(i, s)
  /\ ref' = i
  /\ seen' = s
  /\ \/ /\ s \in Settles
        /\ hold' = IF hold = "HELD" THEN "CONSUMED" ELSE hold
        /\ status' = "COMPLETED"
        /\ UNCHANGED returned
     \/ /\ s \in Refunds
        /\ Release("REFUNDED")
     \/ /\ s \notin Settles \cup Refunds
        /\ status' = Local(s)
        /\ UNCHANGED <<hold, returned>>
  /\ UNCHANGED <<lapsed, verification, payouts, late, jobs>>

\* A callback: late, again, out of order or never.
Ipn == \E i \in DOMAIN payouts : \E s \in payouts[i].was : Apply(i, s)

\* The worker asks for the stored payout, or looks for its own external id.
\* Where it verifies payouts itself it does that instead of asking.
Poll ==
  /\ status \in Polled
  /\ ~(verification /\ AutoVerify /\ status = "AWAITING_PROVIDER_VERIFICATION")
  /\ \E i \in DOMAIN payouts : ref \in {0, i} /\ Apply(i, payouts[i].now)

MarkReconciliation ==
  /\ status' = "RECONCILIATION_REQUIRED"
  /\ UNCHANGED <<hold, returned, ref, seen, lapsed, verification, payouts, late, jobs>>

-----------------------------------------------------------------------------
(* The provider and the clock *)

NextStatuses(p) ==
  CASE p.now = "WAITING" -> {"REJECTED"} \cup (IF p.verified \/ ~verification THEN {"PROCESSING"} ELSE {})
    [] p.now = "PROCESSING" -> {"SENDING", "FAILED", "REJECTED"}
    [] p.now = "SENDING" -> {"FINISHED", "FAILED"}
    [] p.now = "FAILED" -> {"PROCESSING", "REJECTED"}
    [] OTHER -> {}

Progress(i) ==
  /\ \E s \in NextStatuses(payouts[i]) :
       payouts' = [payouts EXCEPT ![i].now = s, ![i].was = @ \cup {s}]
  /\ UNCHANGED <<row, lapsed, verification, late, jobs>>

Lapse ==
  /\ ~lapsed
  /\ lapsed' = TRUE
  /\ UNCHANGED <<row, verification, payouts, late, jobs>>

Decide(d) ==
  \/ ReadForCancel(d) \/ Cancel(d)
  \/ ReadForDecision(d) \/ Approve(d) \/ Reject(d)
  \/ ListExpired(d) \/ ReadExpired(d) \/ Expire(d)

Call(c) ==
  \/ Claim(c) \/ Post(c) \/ Store(c)
  \/ ReadForVerify(c) \/ Verify(c) \/ StoreVerification(c)

Next ==
  \/ \E d \in Deciders : Decide(d)
  \/ \E c \in Callers : Call(c)
  \/ \E j \in Jobs : Fail(j)
  \/ Ipn
  \/ Poll
  \/ MarkReconciliation
  \/ \E i \in DOMAIN payouts : Progress(i)
  \/ Lapse

Spec == Init /\ [][Next]_vars

\* Whoever is in flight goes on or fails; the worker polls and expires on
\* every tick, and a tick that fails is followed by another.
Fairness ==
  /\ \A c \in Callers : WF_vars((~Free(c) /\ Call(c)) \/ Fail(c))
  /\ \A d \in Deciders :
       /\ WF_vars((~Free(d) /\ Decide(d)) \/ Fail(d))
       /\ SF_vars(ListExpired(d)) /\ SF_vars(ReadExpired(d)) /\ SF_vars(Expire(d))
  /\ WF_vars(Poll)

FairSpec == Spec /\ Fairness

-----------------------------------------------------------------------------
(* Properties *)

TypeOK ==
  /\ status \in Statuses
  /\ hold \in {"HELD", "CONSUMED", "RELEASED"}
  /\ returned \in BOOLEAN
  /\ ref \in 0 .. Len(payouts)
  /\ seen \in ProviderStatuses \cup {"none"}
  /\ lapsed \in BOOLEAN
  /\ verification \in BOOLEAN
  /\ payouts \in Seq(Payout) /\ Len(payouts) <= MaxPayouts
  /\ late \in BOOLEAN
  /\ jobs \in [Jobs -> Job]

\* "A payout request must never cause two provider payouts for the same
\* request": whatever is submitted twice, lost or reconciled.
PayoutOnce == Len(payouts) <= 1

\* The player's GLD comes back only when no payout was made, or the provider
\* has finally rejected it.
ReturnedUnpaid == returned => \A i \in DOMAIN payouts : payouts[i].now = "REJECTED"

\* The payout of a completed request was sent.
CompletedIsSent == status = "COMPLETED" => ref # 0 /\ payouts[ref].now = "FINISHED"

Sent == \E i \in DOMAIN payouts : payouts[i].now = "FINISHED"

\* A hold is charged only for a payout that was sent, and one that was released
\* has been credited.
HoldIsTrue == (returned <=> hold = "RELEASED") /\ (hold = "CONSUMED" => Sent)

\* The player gets the crypto once or the GLD back, and never both, however a
\* request is submitted again, verified, called back about or polled, unless a
\* cancel, a decision or an expiry was written after its check had ceased to
\* hold.  Even then nothing is completed or charged that was not sent.
PaidOrReturned ==
  /\ CompletedIsSent
  /\ HoldIsTrue
  /\ ~late => /\ PayoutOnce
              /\ ReturnedUnpaid
              /\ status = "COMPLETED" => hold = "CONSUMED"

(* The parts of the inductive invariant. *)

\* What a request in flight carries.
StepsFit ==
  /\ \A d \in Deciders :
       jobs[d].step \in {"idle", "cancel", "approve", "reject", "listed", "expire"}
  /\ \A c \in Callers :
       /\ jobs[c].step \in {"idle", "post", "store", "verify", "verified"}
       /\ jobs[c].step \in {"store", "verify"} => jobs[c].payout \in DOMAIN payouts
       /\ At(c, "verified") => payouts # <<>>
       /\ At(c, "store") => jobs[c].answer \in ProviderStatuses

\* A payout that was sent or rejected stays so.
ConclusionsStand ==
  \A i \in DOMAIN payouts :
    \A s \in {"FINISHED", "REJECTED"} : s \in payouts[i].was => payouts[i].now = s

\* What holds whatever is written late.
AlwaysInv == TypeOK /\ StepsFit /\ ConclusionsStand /\ CompletedIsSent /\ HoldIsTrue

\* The provider has a payout, or a claimed submission is about to ask for one.
Submitted == payouts # <<>> \/ \E c \in Callers : At(c, "post")

\* Nothing has been done yet for a request without a submission.
UndecidedIsWhole == status \in Undecided => hold = "HELD" /\ ~Submitted

\* What is about to expire cannot be submitted any more.
ExpiryStands == \A d \in Deciders : jobs[d].step \in {"listed", "expire"} => lapsed /\ ~Submitted

\* Only one submission ever asks for a payout, and its GLD is still held.
OneSubmission ==
  \A c \in Callers :
    At(c, "post") => payouts = <<>> /\ hold = "HELD" /\ \A b \in Callers : At(b, "post") => b = c

\* What holds as long as nothing was written late.
TimelyInv ==
  /\ UndecidedIsWhole
  /\ ExpiryStands
  /\ OneSubmission
  /\ PayoutOnce
  /\ ReturnedUnpaid
  /\ status = "COMPLETED" => hold = "CONSUMED"

\* The inductive invariant.
PayoutInv == AlwaysInv /\ (~late => TimelyInv)

\* A payout that was sent is charged in the end, although callbacks are lost and
\* the submission's answer was lost, unless a decision was written late.
FinishedIsBooked == Sent ~> (status = "COMPLETED" \/ late)

\* GLD held past its time for a request nobody submits does not wait for a
\* decision for ever, whatever decisions are written late.
UndecidedEnds ==
  (status \in Undecided /\ lapsed /\ hold = "HELD") ~> (status \notin Undecided \/ hold # "HELD")

\* The provider's payouts as the contract sees them.
Outcome ==
  IF payouts = <<>> THEN "none"
  ELSE IF Sent THEN "sent"
  ELSE IF \A i \in DOMAIN payouts : payouts[i].now = "REJECTED" THEN "rejected"
  ELSE "open"

Contract == INSTANCE PayoutContract WITH money <- hold, payout <- Outcome, late <- late

\* Every step of the service, the provider and the worker, with any number of
\* decisions at once, is a step of the contract or leaves both the GLD and the
\* crypto alone.
KeepsContract == Contract!Spec

=============================================================================
