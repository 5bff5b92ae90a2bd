-------------------------- MODULE CryptoPayoutsProofs --------------------------
(***************************************************************************)
(* Theorems of CryptoPayouts for any number of decisions, submissions and  *)
(* verifications at once and every setting: the invariant PayoutInv, what  *)
(* follows from it, and that the service keeps the contract of             *)
(* PayoutContract.  There is one lemma per kind of step.                   *)
(***************************************************************************)
EXTENDS CryptoPayouts, TLAPS

-----------------------------------------------------------------------------
(* Facts about jobs *)

LEMMA IdleType == Idle \in Job
  BY DEF Idle, Job

\* A new job is a Job.
LEMMA StepType ==
  ASSUME NEW step \in Steps
  PROVE  [step |-> step, payout |-> 0, answer |-> "none"] \in Job
  BY PayoutsAssumption DEF Job

\* What the fields of a job are.
LEMMA JobFields ==
  ASSUME NEW w \in Job
  PROVE  /\ w.step \in Steps \cup {"idle"}
         /\ w.payout \in 0 .. MaxPayouts
         /\ w.answer \in ProviderStatuses \cup {"none"}
  BY PayoutsAssumption DEF Job, Idle

\* The parts of the invariant a step may disturb when it leaves the payouts.
LEMMA SamePayouts ==
  ASSUME AlwaysInv, UNCHANGED payouts
  PROVE  ConclusionsStand' /\ (Sent <=> Sent')
  BY DEF AlwaysInv, ConclusionsStand, Sent

\* A step that only gives j the job w, where w is no submission and what w
\* stands for is true now.
LEMMA JobStep ==
  ASSUME PayoutInv,
         NEW j \in Jobs, NEW w \in Job,
         jobs' = [jobs EXCEPT ![j] = w],
         UNCHANGED <<row, lapsed, verification, payouts, late>>,
         j \in Deciders =>
           /\ w.step \in {"idle", "cancel", "approve", "reject", "listed", "expire"}
           /\ ~late /\ w.step \in {"listed", "expire"} => lapsed /\ ~Submitted,
         j \in Callers =>
           /\ w.step \in {"idle", "verify"}
           /\ w.step = "verify" => w.payout \in DOMAIN payouts
  PROVE  PayoutInv'
  <1>. USE DEF row
  <1>0. AlwaysInv /\ TypeOK
    BY DEF PayoutInv, AlwaysInv
  <1>1. TypeOK'
    BY <1>0 DEF TypeOK
  <1>2. j \notin Deciders \/ j \notin Callers
    BY JobsAssumption
  <1>3. \A i \in Jobs : jobs'[i] = IF i = j THEN w ELSE jobs[i]
    BY <1>0 DEF TypeOK
  <1>4. Deciders \subseteq Jobs /\ Callers \subseteq Jobs
    BY DEF Jobs
  <1>5. \A c \in Callers : At(c, "post")' => At(c, "post")
    BY <1>3, <1>4 DEF At
  <1>6. Submitted' => Submitted
    BY <1>5 DEF Submitted
  <1>7. StepsFit'
    BY <1>0, <1>2, <1>3, <1>4 DEF AlwaysInv, StepsFit, At
  <1>8. ConclusionsStand' /\ CompletedIsSent' /\ HoldIsTrue'
    BY <1>0 DEF AlwaysInv, ConclusionsStand, CompletedIsSent, HoldIsTrue, Sent
  <1>9. ASSUME ~late' PROVE TimelyInv'
    <2>1. ~late /\ TimelyInv
      BY <1>9 DEF PayoutInv
    <2>2. UndecidedIsWhole'
      BY <1>6, <2>1 DEF TimelyInv, UndecidedIsWhole
    <2>3. ExpiryStands'
      BY <1>3, <1>4, <1>6, <2>1 DEF TimelyInv, ExpiryStands
    <2>4. OneSubmission'
      BY <1>5, <2>1 DEF TimelyInv, OneSubmission
    <2>. QED  BY <2>1, <2>2, <2>3, <2>4 DEF TimelyInv, PayoutOnce, ReturnedUnpaid
  <1>. QED  BY <1>1, <1>7, <1>8, <1>9 DEF PayoutInv, AlwaysInv

-----------------------------------------------------------------------------
(* Steps that read, and failures *)

LEMMA ReadForCancelStep ==
  ASSUME PayoutInv, NEW d \in Deciders, ReadForCancel(d)
  PROVE  PayoutInv'
  <1>. DEFINE w == [step |-> "cancel", payout |-> 0, answer |-> "none"]
  <1>1. w \in Job
    BY StepType DEF Steps
  <1>2. jobs' = [jobs EXCEPT ![d] = w] /\ d \in Jobs /\ d \notin Callers
    BY JobsAssumption DEF ReadForCancel, Goto, Jobs
  <1>. QED  BY <1>1, <1>2, JobStep DEF ReadForCancel

LEMMA ReadForDecisionStep ==
  ASSUME PayoutInv, NEW d \in Deciders, ReadForDecision(d)
  PROVE  PayoutInv'
  <1>1. PICK step \in {"approve", "reject"} : Goto(d, step)
    BY DEF ReadForDecision
  <1>. DEFINE w == [step |-> step, payout |-> 0, answer |-> "none"]
  <1>2. w \in Job
    BY StepType DEF Steps
  <1>3. jobs' = [jobs EXCEPT ![d] = w] /\ d \in Jobs /\ d \notin Callers
    BY <1>1, JobsAssumption DEF Goto, Jobs
  <1>. QED  BY <1>2, <1>3, JobStep DEF ReadForDecision

LEMMA ListExpiredStep ==
  ASSUME PayoutInv, NEW d \in Deciders, ListExpired(d)
  PROVE  PayoutInv'
  <1>. DEFINE w == [step |-> "listed", payout |-> 0, answer |-> "none"]
  <1>1. w \in Job
    BY StepType DEF Steps
  <1>2. jobs' = [jobs EXCEPT ![d] = w] /\ d \in Jobs /\ d \notin Callers
    BY JobsAssumption DEF ListExpired, Goto, Jobs
  <1>3. ~late => lapsed /\ ~Submitted
    BY DEF ListExpired, Expirable, PayoutInv, TimelyInv, UndecidedIsWhole
  <1>. QED  BY <1>1, <1>2, <1>3, JobStep DEF ListExpired

\* A failure of any request in flight.
LEMMA FailStep ==
  ASSUME PayoutInv, NEW j \in Jobs, Fail(j)
  PROVE  PayoutInv'
  <1>1. jobs' = [jobs EXCEPT ![j] = Idle] /\ Idle.step = "idle"
    BY DEF Fail, Ends, Idle
  <1>. QED  BY <1>1, IdleType, JobStep DEF Fail

LEMMA ReadExpiredStep ==
  ASSUME PayoutInv, NEW d \in Deciders, ReadExpired(d)
  PROVE  PayoutInv'
  <1>1. d \in Jobs /\ d \notin Callers
    BY JobsAssumption DEF Jobs
  <1>2. ~late => lapsed /\ ~Submitted
    BY DEF ReadExpired, At, PayoutInv, TimelyInv, ExpiryStands
  <1>3. CASE StillHeld
    <2>. DEFINE w == [step |-> "expire", payout |-> 0, answer |-> "none"]
    <2>1. w \in Job
      BY StepType DEF Steps
    <2>2. jobs' = [jobs EXCEPT ![d] = w]
      BY <1>3 DEF ReadExpired, Goto
    <2>. QED  BY <1>1, <1>2, <2>1, <2>2, JobStep DEF ReadExpired
  <1>4. CASE ~StillHeld
    <2>1. jobs' = [jobs EXCEPT ![d] = Idle] /\ Idle.step = "idle"
      BY <1>4 DEF ReadExpired, Ends, Idle
    <2>. QED  BY <1>1, <2>1, IdleType, JobStep DEF ReadExpired
  <1>. QED  BY <1>3, <1>4

LEMMA ReadForVerifyStep ==
  ASSUME PayoutInv, NEW c \in Callers, ReadForVerify(c)
  PROVE  PayoutInv'
  <1>. DEFINE w == [step |-> "verify", payout |-> ref, answer |-> "none"]
  <1>1. ref \in DOMAIN payouts /\ ref \in 0 .. MaxPayouts
    BY PayoutsAssumption DEF ReadForVerify, PayoutInv, AlwaysInv, TypeOK
  <1>2. w \in Job
    BY <1>1 DEF Job, Steps
  <1>3. jobs' = [jobs EXCEPT ![c] = w] /\ c \in Jobs /\ c \notin Deciders
    BY JobsAssumption DEF ReadForVerify, Jobs
  <1>. QED  BY <1>1, <1>2, <1>3, JobStep DEF ReadForVerify

-----------------------------------------------------------------------------
(* Steps that write what was decided *)

\* A decision that was not written late is one about a held request without a
\* submission.
Timely == ~late /\ ~Submitted /\ hold = "HELD"

\* The four decisions, as what they write.
LEMMA DecisionsWrite ==
  ASSUME PayoutInv, NEW d \in Deciders,
         Cancel(d) \/ Approve(d) \/ Reject(d) \/ Expire(d)
  PROVE  /\ Ends(d)
         /\ UNCHANGED <<ref, seen, lapsed, verification, payouts>>
         /\ late' \in BOOLEAN /\ (~late' => Timely)
         /\ \/ status' = "APPROVED" /\ UNCHANGED <<hold, returned>>
            \/ \E final \in {"REJECTED", "EXPIRED"} : Release(final)
  <1>1. late \in BOOLEAN
    BY DEF PayoutInv, AlwaysInv, TypeOK
  <1>2. ASSUME Cancellable, ~late PROVE Timely
    BY <1>2 DEF Cancellable, Undecided, PayoutInv, TimelyInv, UndecidedIsWhole, Timely
  <1>3. CASE Cancel(d)
    BY <1>1, <1>2, <1>3 DEF Cancel, Overtaken
  <1>4. CASE Approve(d)
    BY <1>1, <1>2, <1>4 DEF Approve, Overtaken
  <1>5. CASE Reject(d)
    BY <1>1, <1>2, <1>5 DEF Reject, Overtaken
  <1>6. CASE Expire(d)
    <2>1. StillHeld /\ ~late => Timely
      BY <1>6 DEF Expire, At, StillHeld, PayoutInv, TimelyInv, ExpiryStands, Timely
    <2>. QED  BY <1>1, <1>6, <2>1 DEF Expire, Overtaken
  <1>. QED  BY <1>3, <1>4, <1>5, <1>6

LEMMA DecisionStep ==
  ASSUME PayoutInv, NEW d \in Deciders,
         Cancel(d) \/ Approve(d) \/ Reject(d) \/ Expire(d)
  PROVE  PayoutInv'
  <1>1. /\ Ends(d)
        /\ UNCHANGED <<ref, seen, lapsed, verification, payouts>>
        /\ late' \in BOOLEAN /\ (~late' => Timely)
        /\ \/ status' = "APPROVED" /\ UNCHANGED <<hold, returned>>
           \/ \E final \in {"REJECTED", "EXPIRED"} : Release(final)
    BY DecisionsWrite
  <1>2. AlwaysInv /\ TypeOK
    BY DEF PayoutInv, AlwaysInv
  <1>3. d \in Jobs /\ d \notin Callers /\ Deciders \subseteq Jobs /\ Callers \subseteq Jobs
    BY JobsAssumption DEF Jobs
  <1>4. /\ jobs' \in [Jobs -> Job] /\ jobs'[d] = Idle
        /\ \A j \in Jobs \ {d} : jobs'[j] = jobs[j]
    BY <1>1, <1>2, <1>3, IdleType DEF Ends, TypeOK
  <1>5. Idle.step = "idle" /\ \A c \in Callers : jobs'[c] = jobs[c]
    BY <1>3, <1>4 DEF Idle
  <1>6. StepsFit'
    BY <1>1, <1>2, <1>3, <1>4, <1>5 DEF AlwaysInv, StepsFit, At
  <1>7. ConclusionsStand' /\ (Sent <=> Sent')
    BY <1>1, <1>2, SamePayouts
  <1>8. Submitted' <=> Submitted
    BY <1>1, <1>5 DEF Submitted, At
  <1>9. ASSUME ~late'
        PROVE  ExpiryStands' /\ OneSubmission' /\ PayoutOnce' /\ ReturnedUnpaid'
    <2>1. Timely /\ TimelyInv /\ payouts = <<>> /\ payouts' = payouts
      BY <1>1, <1>9 DEF PayoutInv, Timely, Submitted
    <2>2. ExpiryStands'
      BY <1>1, <1>3, <1>4, <1>5, <1>8, <2>1 DEF TimelyInv, ExpiryStands, Timely
    <2>3. OneSubmission'
      BY <1>5, <2>1 DEF OneSubmission, Timely, Submitted, At
    <2>. QED  BY <2>1, <2>2, <2>3 DEF PayoutOnce, ReturnedUnpaid
  <1>10. CASE status' = "APPROVED" /\ UNCHANGED <<hold, returned>>
    <2>1. TypeOK'
      BY <1>1, <1>2, <1>4, <1>10 DEF TypeOK, Statuses, Undecided
    <2>2. CompletedIsSent' /\ HoldIsTrue'
      BY <1>2, <1>7, <1>10 DEF AlwaysInv, CompletedIsSent, HoldIsTrue
    <2>3. ~late' => UndecidedIsWhole'
      BY <1>1, <1>8, <1>10 DEF UndecidedIsWhole, Timely
    <2>. QED  BY <1>6, <1>7, <1>9, <1>10, <2>1, <2>2, <2>3 DEF PayoutInv, AlwaysInv, TimelyInv
  <1>11. ASSUME NEW final \in {"REJECTED", "EXPIRED"}, Release(final)
         PROVE  PayoutInv'
    <2>1. TypeOK'
      BY <1>1, <1>2, <1>4, <1>11 DEF TypeOK, Statuses, Final, Release
    <2>2. CompletedIsSent' /\ HoldIsTrue'
      BY <1>11 DEF CompletedIsSent, HoldIsTrue, Release
    <2>3. UndecidedIsWhole' /\ status' # "COMPLETED"
      BY <1>11 DEF UndecidedIsWhole, Undecided, Release
    <2>. QED  BY <1>6, <1>7, <1>9, <2>1, <2>2, <2>3 DEF PayoutInv, AlwaysInv, TimelyInv
  <1>. QED  BY <1>1, <1>10, <1>11

-----------------------------------------------------------------------------
(* Submission and verification *)

\* What changes when a caller's job does.
LEMMA CallerJob ==
  ASSUME TypeOK, NEW c \in Callers, NEW w \in Job, jobs' = [jobs EXCEPT ![c] = w]
  PROVE  /\ jobs' \in [Jobs -> Job]
         /\ jobs'[c] = w
         /\ \A j \in Jobs \ {c} : jobs'[j] = jobs[j]
         /\ \A d \in Deciders : d # c /\ d \in Jobs /\ jobs'[d] = jobs[d]
         /\ Callers \subseteq Jobs
  BY JobsAssumption DEF TypeOK, Jobs

LEMMA ClaimStep ==
  ASSUME PayoutInv, NEW c \in Callers, Claim(c)
  PROVE  PayoutInv'
  <1>. DEFINE w == [step |-> "post", payout |-> 0, answer |-> "none"]
  <1>0. w \in Job
    BY StepType DEF Steps
  <1>1. jobs' = [jobs EXCEPT ![c] = w] /\ w.step = "post"
    BY DEF Claim, Goto
  <1>2. status = "APPROVED" /\ hold = "HELD" /\ ~lapsed /\ AlwaysInv /\ TypeOK
    BY DEF Claim, Claimable, PayoutInv, AlwaysInv
  <1>. HIDE DEF w
  <1>3. /\ jobs' \in [Jobs -> Job] /\ jobs'[c] = w
        /\ \A j \in Jobs \ {c} : jobs'[j] = jobs[j]
        /\ \A d \in Deciders : jobs'[d] = jobs[d]
        /\ Callers \subseteq Jobs
    BY <1>0, <1>1, <1>2, CallerJob
  <1>4. TypeOK'
    BY <1>2, <1>3 DEF Claim, TypeOK, Statuses, Polled
  <1>5. StepsFit'
    BY <1>1, <1>2, <1>3 DEF AlwaysInv, StepsFit, At, Claim
  <1>6. ConclusionsStand' /\ CompletedIsSent' /\ HoldIsTrue'
    BY <1>2 DEF AlwaysInv, ConclusionsStand, CompletedIsSent, HoldIsTrue, Sent, Claim
  <1>7. ASSUME ~late' PROVE TimelyInv'
    <2>1. TimelyInv /\ ~Submitted
      BY <1>2, <1>7 DEF Claim, PayoutInv, TimelyInv, UndecidedIsWhole, Undecided
    <2>2. payouts = <<>> /\ \A b \in Callers : ~At(b, "post")
      BY <2>1 DEF Submitted
    <2>3. ExpiryStands'
      BY <1>2, <1>3, <2>1 DEF TimelyInv, ExpiryStands
    <2>4. OneSubmission'
      BY <1>2, <1>3, <2>2 DEF OneSubmission, At, Claim
    <2>5. UndecidedIsWhole' /\ PayoutOnce' /\ ReturnedUnpaid' /\ status' # "COMPLETED"
      BY <2>1 DEF TimelyInv, UndecidedIsWhole, Undecided, PayoutOnce, ReturnedUnpaid, Claim
    <2>. QED  BY <2>3, <2>4, <2>5 DEF TimelyInv
  <1>. QED  BY <1>4, <1>5, <1>6, <1>7 DEF PayoutInv, AlwaysInv

LEMMA PostStep ==
  ASSUME PayoutInv, NEW c \in Callers, Post(c)
  PROVE  PayoutInv'
  <1>. DEFINE p == [now |-> "WAITING", was |-> {"WAITING"}, verified |-> FALSE]
              n == Len(payouts) + 1
              w == [step |-> "store", payout |-> n, answer |-> "WAITING"]
  <1>1. /\ AlwaysInv /\ TypeOK /\ payouts \in Seq(Payout) /\ Len(payouts) < MaxPayouts
        /\ payouts' = Append(payouts, p) /\ jobs' = [jobs EXCEPT ![c] = w]
    BY DEF Post, PayoutInv, AlwaysInv, TypeOK
  <1>2. p \in Payout /\ n \in 0 .. MaxPayouts
    BY <1>1, PayoutsAssumption DEF Payout, ProviderStatuses
  <1>3. w \in Job
    BY <1>2 DEF Job, Steps, ProviderStatuses
  <1>4. p.now = "WAITING" /\ p.was = {"WAITING"}
    OBVIOUS
  <1>5. w.step = "store" /\ w.payout = n /\ w.answer \in ProviderStatuses
    BY DEF ProviderStatuses
  <1>. HIDE DEF p, w
  <1>6. /\ payouts' \in Seq(Payout) /\ Len(payouts') = n /\ payouts' # <<>>
        /\ DOMAIN payouts' = DOMAIN payouts \cup {n} /\ payouts'[n] = p
        /\ \A i \in DOMAIN payouts : payouts'[i] = payouts[i]
    BY <1>1, <1>2
  <1>7. /\ jobs' \in [Jobs -> Job] /\ jobs'[c] = w
        /\ \A j \in Jobs \ {c} : jobs'[j] = jobs[j]
        /\ \A d \in Deciders : jobs'[d] = jobs[d]
        /\ Callers \subseteq Jobs
    BY <1>1, <1>3, CallerJob
  <1>8. UNCHANGED <<status, hold, returned, ref, seen, lapsed, verification, late>> /\ At(c, "post")
    BY DEF Post, row
  <1>. HIDE DEF n
  <1>9. TypeOK'
    <2>1. Len(payouts) \in Nat /\ n = Len(payouts) + 1
      BY <1>1 DEF n
    <2>2. ref' \in 0 .. Len(payouts') /\ Len(payouts') <= MaxPayouts
      BY <1>1, <1>2, <1>6, <1>8, <2>1 DEF TypeOK
    <2>. QED  BY <1>1, <1>6, <1>7, <1>8, <2>2 DEF TypeOK
  <1>10. StepsFit'
    <2>1. \A d \in Deciders : jobs'[d].step \in {"idle", "cancel", "approve", "reject", "listed", "expire"}
      BY <1>1, <1>7 DEF AlwaysInv, StepsFit
    <2>2. ASSUME NEW b \in Callers
          PROVE  /\ jobs'[b].step \in {"idle", "post", "store", "verify", "verified"}
                 /\ jobs'[b].step \in {"store", "verify"} => jobs'[b].payout \in DOMAIN payouts'
                 /\ jobs'[b].step = "verified" => payouts' # <<>>
                 /\ jobs'[b].step = "store" => jobs'[b].answer \in ProviderStatuses
      <3>1. CASE b = c
        BY <1>5, <1>6, <1>7, <3>1
      <3>2. CASE b # c
        <4>1. jobs'[b] = jobs[b]
          BY <1>7, <3>2
        <4>. QED  BY <1>1, <1>6, <4>1 DEF AlwaysInv, StepsFit, At
      <3>. QED  BY <3>1, <3>2
    <2>. QED  BY <2>1, <2>2 DEF StepsFit, At
  <1>11. ConclusionsStand'
    BY <1>1, <1>4, <1>6 DEF AlwaysInv, ConclusionsStand
  <1>12. CompletedIsSent'
    <2>1. status = "COMPLETED" => ref \in DOMAIN payouts /\ payouts[ref].now = "FINISHED" /\ ref # 0
      BY <1>1 DEF AlwaysInv, CompletedIsSent, TypeOK
    <2>. QED  BY <1>6, <1>8, <2>1 DEF CompletedIsSent
  <1>13. HoldIsTrue'
    <2>1. Sent => Sent'
      BY <1>6 DEF Sent
    <2>. QED  BY <1>1, <1>8, <2>1 DEF AlwaysInv, HoldIsTrue
  <1>14. ASSUME ~late' PROVE TimelyInv'
    <2>1. TimelyInv /\ Submitted
      BY <1>8, <1>14 DEF PayoutInv, Submitted
    <2>2. payouts = <<>> /\ hold = "HELD" /\ \A b \in Callers : At(b, "post") => b = c
      BY <1>8, <2>1 DEF TimelyInv, OneSubmission
    <2>3. Len(payouts') = 1
      BY <1>6, <2>2 DEF n
    <2>4. UndecidedIsWhole'
      BY <1>8, <2>1 DEF TimelyInv, UndecidedIsWhole
    <2>5. ExpiryStands'
      BY <1>7, <2>1 DEF TimelyInv, ExpiryStands
    <2>6. OneSubmission'
      <3>1. \A b \in Callers : jobs'[b].step # "post"
        BY <1>5, <1>7, <2>2 DEF At
      <3>. QED  BY <3>1 DEF OneSubmission, At
    <2>7. PayoutOnce' /\ ReturnedUnpaid'
      BY <1>1, <1>8, <2>2, <2>3 DEF PayoutOnce, ReturnedUnpaid, AlwaysInv, HoldIsTrue
    <2>. QED  BY <1>8, <2>1, <2>2, <2>4, <2>5, <2>6, <2>7 DEF TimelyInv
  <1>. QED  BY <1>9, <1>10, <1>11, <1>12, <1>13, <1>14 DEF PayoutInv, AlwaysInv

\* A step of a caller that writes the row of a submitted request, but neither
\* its hold nor a final status.
LEMMA CallerWrites ==
  ASSUME PayoutInv, NEW c \in Callers, Ends(c), payouts # <<>>,
         status' \in Polled, ref' \in 0 .. Len(payouts), seen' \in ProviderStatuses \cup {"none"},
         UNCHANGED <<hold, returned, lapsed, verification, payouts, late>>
  PROVE  PayoutInv'
  <1>0. AlwaysInv /\ TypeOK
    BY DEF PayoutInv, AlwaysInv
  <1>1. jobs' = [jobs EXCEPT ![c] = Idle] /\ Idle.step = "idle"
    BY DEF Ends, Idle
  <1>2. /\ jobs' \in [Jobs -> Job] /\ jobs'[c] = Idle
        /\ \A j \in Jobs \ {c} : jobs'[j] = jobs[j]
        /\ \A d \in Deciders : jobs'[d] = jobs[d]
        /\ Callers \subseteq Jobs
    BY <1>0, <1>1, IdleType, CallerJob
  <1>3. TypeOK'
    BY <1>0, <1>2 DEF TypeOK, Statuses
  <1>4. StepsFit'
    BY <1>0, <1>1, <1>2 DEF AlwaysInv, StepsFit, At
  <1>5. ConclusionsStand' /\ CompletedIsSent' /\ HoldIsTrue'
    BY <1>0, SamePayouts DEF AlwaysInv, CompletedIsSent, HoldIsTrue, Polled
  <1>6. ASSUME ~late' PROVE TimelyInv'
    <2>1. TimelyInv /\ Submitted
      BY <1>6 DEF PayoutInv, Submitted
    <2>2. UndecidedIsWhole' /\ status' # "COMPLETED"
      BY DEF UndecidedIsWhole, Undecided, Polled
    <2>3. ExpiryStands'
      BY <1>2, <2>1 DEF TimelyInv, ExpiryStands
    <2>4. OneSubmission'
      BY <1>1, <1>2, <2>1 DEF TimelyInv, OneSubmission, At
    <2>. QED  BY <2>1, <2>2, <2>3, <2>4 DEF TimelyInv, PayoutOnce, ReturnedUnpaid
  <1>. QED  BY <1>3, <1>4, <1>5, <1>6 DEF PayoutInv, AlwaysInv

LEMMA StoreStep ==
  ASSUME PayoutInv, NEW c \in Callers, Store(c)
  PROVE  PayoutInv'
  <1>1. jobs[c].payout \in DOMAIN payouts /\ jobs[c].answer \in ProviderStatuses
    BY DEF Store, PayoutInv, AlwaysInv, StepsFit, At
  <1>2. payouts # <<>> /\ jobs[c].payout \in 0 .. Len(payouts)
    BY <1>1 DEF PayoutInv, AlwaysInv, TypeOK
  <1>3. status' \in Polled
    BY DEF Store, Polled
  <1>. QED  BY <1>1, <1>2, <1>3, CallerWrites DEF Store

LEMMA StoreVerificationStep ==
  ASSUME PayoutInv, NEW c \in Callers, StoreVerification(c)
  PROVE  PayoutInv'
  <1>1. payouts # <<>>
    BY DEF StoreVerification, PayoutInv, AlwaysInv, StepsFit, At
  <1>2. status' \in Polled
    BY DEF StoreVerification, Polled
  <1>3. ref' \in 0 .. Len(payouts) /\ seen' \in ProviderStatuses \cup {"none"}
    BY DEF PayoutInv, AlwaysInv, TypeOK, StoreVerification
  <1>. QED  BY <1>1, <1>2, <1>3, CallerWrites DEF StoreVerification

\* A payout is replaced by one that keeps its conclusion.
LEMMA PayoutReplaced ==
  ASSUME TypeOK, ConclusionsStand, NEW i \in DOMAIN payouts, NEW p \in Payout,
         payouts' = [payouts EXCEPT ![i] = p],
         \A s \in {"FINISHED", "REJECTED"} :
           (payouts[i].now = s => p.now = s) /\ (s \in p.was => p.now = s)
  PROVE  /\ payouts' \in Seq(Payout)
         /\ Len(payouts') = Len(payouts)
         /\ DOMAIN payouts' = DOMAIN payouts
         /\ payouts' # <<>> /\ payouts # <<>>
         /\ ConclusionsStand'
         /\ \A k \in DOMAIN payouts : \A s \in {"FINISHED", "REJECTED"} :
              payouts[k].now = s => payouts'[k].now = s
  <1>1. payouts \in Seq(Payout)
    BY DEF TypeOK
  <1>2. \A k \in DOMAIN payouts : payouts'[k] = IF k = i THEN p ELSE payouts[k]
    BY <1>1
  <1>3. payouts' \in Seq(Payout) /\ Len(payouts') = Len(payouts) /\ DOMAIN payouts' = DOMAIN payouts
    BY <1>1
  <1>4. payouts' # <<>> /\ payouts # <<>>
    BY <1>1, <1>3
  <1>5. ConclusionsStand'
    BY <1>2, <1>3 DEF ConclusionsStand
  <1>6. \A k \in DOMAIN payouts : \A s \in {"FINISHED", "REJECTED"} :
          payouts[k].now = s => payouts'[k].now = s
    BY <1>2
  <1>. QED  BY <1>3, <1>4, <1>5, <1>6

\* A step that replaces one payout so, and at most lets a caller go on.
LEMMA ReplacedInv ==
  ASSUME PayoutInv, NEW i \in DOMAIN payouts, NEW p \in Payout,
         payouts' = [payouts EXCEPT ![i] = p],
         \A s \in {"FINISHED", "REJECTED"} :
           (payouts[i].now = s => p.now = s) /\ (s \in p.was => p.now = s),
         UNCHANGED <<status, hold, returned, ref, seen, lapsed, verification, late>>,
         jobs' \in [Jobs -> Job], DOMAIN payouts' = DOMAIN payouts => StepsFit',
         \A c \in Callers : At(c, "post")' => At(c, "post"),
         \A d \in Deciders : jobs'[d] = jobs[d]
  PROVE  PayoutInv'
  <1>0. AlwaysInv /\ TypeOK /\ ConclusionsStand
    BY DEF PayoutInv, AlwaysInv
  <1>1. /\ payouts' \in Seq(Payout) /\ Len(payouts') = Len(payouts)
        /\ DOMAIN payouts' = DOMAIN payouts /\ payouts' # <<>> /\ payouts # <<>>
        /\ ConclusionsStand'
        /\ \A k \in DOMAIN payouts : \A s \in {"FINISHED", "REJECTED"} :
             payouts[k].now = s => payouts'[k].now = s
    BY <1>0, PayoutReplaced
  <1>2. TypeOK'
    BY <1>0, <1>1 DEF TypeOK
  <1>3. CompletedIsSent'
    <2>1. ref # 0 => ref \in DOMAIN payouts
      BY <1>0 DEF TypeOK
    <2>. QED  BY <1>0, <1>1, <2>1 DEF AlwaysInv, CompletedIsSent
  <1>4. HoldIsTrue'
    <2>1. Sent => Sent'
      BY <1>1 DEF Sent
    <2>. QED  BY <1>0, <2>1 DEF AlwaysInv, HoldIsTrue
  <1>5. ASSUME ~late' PROVE TimelyInv'
    <2>1. TimelyInv /\ Submitted
      BY <1>1, <1>5 DEF PayoutInv, Submitted
    <2>2. UndecidedIsWhole' /\ ExpiryStands'
      BY <2>1 DEF TimelyInv, UndecidedIsWhole, ExpiryStands
    <2>3. OneSubmission'
      BY <1>1, <2>1 DEF TimelyInv, OneSubmission
    <2>4. PayoutOnce' /\ ReturnedUnpaid'
      BY <1>1, <2>1 DEF TimelyInv, PayoutOnce, ReturnedUnpaid
    <2>. QED  BY <2>1, <2>2, <2>3, <2>4 DEF TimelyInv
  <1>. QED  BY <1>1, <1>2, <1>3, <1>4, <1>5 DEF PayoutInv, AlwaysInv

LEMMA VerifyStep ==
  ASSUME PayoutInv, NEW c \in Callers, Verify(c)
  PROVE  PayoutInv' /\ Outcome' = Outcome
  <1>. DEFINE i == jobs[c].payout
              p == [payouts[i] EXCEPT !.verified = TRUE]
              w == [step |-> "verified", payout |-> 0, answer |-> "none"]
  <1>0. AlwaysInv /\ TypeOK /\ payouts \in Seq(Payout)
    BY DEF PayoutInv, AlwaysInv, TypeOK
  <1>1. i \in DOMAIN payouts
    BY <1>0 DEF Verify, At, AlwaysInv, StepsFit
  <1>2. p \in Payout /\ p.now = payouts[i].now /\ p.was = payouts[i].was
    <2>1. payouts[i] \in Payout
      BY <1>0, <1>1
    <2>. HIDE DEF i
    <2>. QED  BY <2>1 DEF Payout
  <1>3. payouts' = [payouts EXCEPT ![i] = p]
    BY DEF Verify
  <1>4. w \in Job /\ w.step = "verified"
    BY StepType DEF Steps
  <1>5. jobs' = [jobs EXCEPT ![c] = w]
    BY DEF Verify, Goto
  <1>. HIDE DEF i, p, w
  <1>6. \A s \in {"FINISHED", "REJECTED"} :
          (payouts[i].now = s => p.now = s) /\ (s \in p.was => p.now = s)
    BY <1>0, <1>1, <1>2 DEF AlwaysInv, ConclusionsStand
  <1>7. /\ jobs' \in [Jobs -> Job] /\ jobs'[c] = w
        /\ \A j \in Jobs \ {c} : jobs'[j] = jobs[j]
        /\ \A d \in Deciders : jobs'[d] = jobs[d]
        /\ Callers \subseteq Jobs
    BY <1>0, <1>4, <1>5, CallerJob
  <1>8. DOMAIN payouts' = DOMAIN payouts /\ payouts' # <<>> /\ payouts # <<>>
    BY <1>0, <1>1, <1>3
  <1>9. StepsFit'
    BY <1>0, <1>4, <1>7, <1>8 DEF AlwaysInv, StepsFit, At
  <1>10. \A b \in Callers : At(b, "post")' => At(b, "post")
    BY <1>4, <1>7 DEF At
  <1>11. UNCHANGED <<status, hold, returned, ref, seen, lapsed, verification, late>>
    BY DEF Verify, row
  <1>12. PayoutInv'
    BY <1>1, <1>2, <1>3, <1>6, <1>7, <1>9, <1>10, <1>11, ReplacedInv
  <1>13. \A k \in DOMAIN payouts : payouts'[k].now = payouts[k].now
    BY <1>0, <1>2, <1>3
  <1>14. (Sent' <=> Sent) /\ Outcome' = Outcome
    <2>1. Sent' <=> Sent
      BY <1>8, <1>13 DEF Sent
    <2>2. (\A k \in DOMAIN payouts' : payouts'[k].now = "REJECTED")
            <=> (\A k \in DOMAIN payouts : payouts[k].now = "REJECTED")
      BY <1>8, <1>13
    <2>. QED  BY <1>8, <2>1, <2>2 DEF Outcome
  <1>. QED  BY <1>12, <1>14

-----------------------------------------------------------------------------
(* Provider statuses, the provider and the clock *)

\* What a status may do to the hold: charge it for a payout that was sent, or
\* return it for one that was rejected.
HoldMoves(i) ==
  \/ hold' = hold
  \/ hold = "HELD" /\ hold' = "CONSUMED" /\ payouts[i].now = "FINISHED"
  \/ hold' = "RELEASED" /\ payouts[i].now = "REJECTED"

\* A status that is still true where it is a conclusion: an old callback
\* reports one the provider has had, a poll the one it has now.
LEMMA ApplyStep ==
  ASSUME PayoutInv, NEW i \in DOMAIN payouts, NEW s \in ProviderStatuses,
         s \in {"FINISHED", "REJECTED"} => payouts[i].now = s,
         Apply(i, s)
  PROVE  PayoutInv' /\ HoldMoves(i)
  <1>0. AlwaysInv /\ TypeOK /\ payouts \in Seq(Payout)
    BY DEF PayoutInv, AlwaysInv, TypeOK
  <1>1. i # 0 /\ i \in 0 .. Len(payouts) /\ payouts # <<>>
    BY <1>0
  <1>2. Submitted
    BY <1>1 DEF Submitted
  <1>3. /\ ref' = i /\ seen' = s
        /\ UNCHANGED <<lapsed, verification, payouts, late, jobs>>
    BY DEF Apply
  <1>4. StepsFit' /\ ConclusionsStand' /\ (Sent <=> Sent')
    BY <1>0, <1>3 DEF AlwaysInv, StepsFit, ConclusionsStand, Sent, At
  <1>5. /\ ref' \in 0 .. Len(payouts') /\ seen' \in ProviderStatuses \cup {"none"}
        /\ lapsed' \in BOOLEAN /\ verification' \in BOOLEAN /\ late' \in BOOLEAN
        /\ payouts' \in Seq(Payout) /\ Len(payouts') <= MaxPayouts
        /\ jobs' \in [Jobs -> Job]
    <2>1. ref' \in 0 .. Len(payouts') /\ seen' \in ProviderStatuses \cup {"none"}
      BY <1>1, <1>3
    <2>2. /\ lapsed' = lapsed /\ verification' = verification /\ late' = late
          /\ payouts' = payouts /\ jobs' = jobs
      BY <1>3
    <2>. QED  BY <1>0, <2>1, <2>2 DEF TypeOK
  <1>6. ASSUME ~late'
        PROVE  /\ TimelyInv /\ Len(payouts) = 1 /\ i = 1 /\ DOMAIN payouts = {1}
               /\ ExpiryStands' /\ PayoutOnce' /\ OneSubmission'
    <2>1. TimelyInv /\ Len(payouts) <= 1
      BY <1>3, <1>6 DEF PayoutInv, TimelyInv, PayoutOnce
    <2>2. Len(payouts) = 1 /\ i = 1 /\ DOMAIN payouts = {1}
      <3>1. Len(payouts) \in Nat /\ DOMAIN payouts = 1 .. Len(payouts) /\ i \in 1 .. Len(payouts)
        BY <1>0
      <3>2. Len(payouts) = 1 /\ i = 1
        BY <2>1, <3>1
      <3>. QED  BY <3>1, <3>2
    <2>3. ExpiryStands' /\ PayoutOnce'
      BY <1>2, <1>3, <2>1 DEF TimelyInv, ExpiryStands, PayoutOnce
    <2>4. \A c \in Callers : ~At(c, "post")
      BY <1>1, <2>1 DEF TimelyInv, OneSubmission
    <2>5. OneSubmission'
      BY <1>3, <2>4 DEF OneSubmission, At
    <2>. QED  BY <2>1, <2>2, <2>3, <2>5
  <1>7. CASE s \in Settles
    <2>1. /\ hold' = (IF hold = "HELD" THEN "CONSUMED" ELSE hold)
          /\ status' = "COMPLETED" /\ returned' = returned
      BY <1>7 DEF Apply, Settles, Refunds
    <2>2. payouts[i].now = "FINISHED" /\ payouts'[i].now = "FINISHED"
      BY <1>3, <1>7 DEF Settles
    <2>3. Sent /\ Sent'
      BY <1>4, <2>2 DEF Sent
    <2>4. TypeOK'
      BY <1>0, <1>5, <2>1 DEF TypeOK, Statuses, Final
    <2>5. CompletedIsSent'
      BY <1>1, <1>3, <2>2 DEF CompletedIsSent
    <2>6. HoldIsTrue'
      BY <1>0, <2>1, <2>3 DEF AlwaysInv, HoldIsTrue
    <2>7. ASSUME ~late' PROVE TimelyInv'
      <3>1. ~returned /\ hold # "RELEASED"
        BY <1>0, <1>6, <2>2, <2>7 DEF TimelyInv, ReturnedUnpaid, AlwaysInv, HoldIsTrue
      <3>2. hold' = "CONSUMED"
        BY <1>0, <2>1, <3>1 DEF TypeOK
      <3>3. UndecidedIsWhole' /\ ReturnedUnpaid'
        BY <2>1, <3>1 DEF UndecidedIsWhole, Undecided, ReturnedUnpaid
      <3>. QED  BY <1>6, <2>7, <3>2, <3>3 DEF TimelyInv
    <2>8. HoldMoves(i)
      BY <2>1, <2>2 DEF HoldMoves
    <2>. QED  BY <1>4, <2>4, <2>5, <2>6, <2>7, <2>8 DEF PayoutInv, AlwaysInv
  <1>8. CASE s \in Refunds
    <2>1. Release("REFUNDED")
      BY <1>8 DEF Apply, Settles, Refunds
    <2>2. payouts[i].now = "REJECTED" /\ payouts'[i].now = "REJECTED"
      BY <1>3, <1>8 DEF Refunds
    <2>3. TypeOK'
      BY <1>5, <2>1 DEF TypeOK, Statuses, Final, Release
    <2>4. CompletedIsSent' /\ HoldIsTrue'
      BY <2>1 DEF CompletedIsSent, HoldIsTrue, Release
    <2>5. ASSUME ~late' PROVE TimelyInv'
      <3>1. UndecidedIsWhole' /\ status' # "COMPLETED"
        BY <2>1 DEF UndecidedIsWhole, Undecided, Release
      <3>2. ReturnedUnpaid'
        BY <1>3, <1>6, <2>2, <2>5 DEF ReturnedUnpaid
      <3>. QED  BY <1>6, <2>5, <3>1, <3>2 DEF TimelyInv
    <2>6. HoldMoves(i)
      BY <2>1, <2>2 DEF HoldMoves, Release
    <2>. QED  BY <1>4, <2>3, <2>4, <2>5, <2>6 DEF PayoutInv, AlwaysInv
  <1>9. CASE s \notin Settles \cup Refunds
    <2>1. status' = Local(s) /\ hold' = hold /\ returned' = returned
      BY <1>9 DEF Apply
    <2>2. status' \in Polled
      BY <2>1 DEF Local, Polled
    <2>3. TypeOK'
      BY <1>0, <1>5, <2>1, <2>2 DEF TypeOK, Statuses
    <2>4. CompletedIsSent' /\ HoldIsTrue'
      BY <1>0, <1>4, <2>1, <2>2 DEF AlwaysInv, CompletedIsSent, HoldIsTrue, Polled
    <2>5. ASSUME ~late' PROVE TimelyInv'
      <3>1. UndecidedIsWhole' /\ status' # "COMPLETED"
        BY <2>2 DEF UndecidedIsWhole, Undecided, Polled
      <3>2. ReturnedUnpaid'
        BY <1>3, <1>6, <2>1, <2>5 DEF TimelyInv, ReturnedUnpaid
      <3>. QED  BY <1>6, <2>5, <3>1, <3>2 DEF TimelyInv
    <2>6. HoldMoves(i)
      BY <2>1 DEF HoldMoves
    <2>. QED  BY <1>4, <2>3, <2>4, <2>5, <2>6 DEF PayoutInv, AlwaysInv
  <1>. QED  BY <1>7, <1>8, <1>9

\* A callback and a poll each apply a status that is true where it concludes.
LEMMA StatusStep ==
  ASSUME PayoutInv, Ipn \/ Poll
  PROVE  PayoutInv' /\ UNCHANGED <<payouts, late>> /\ \E i \in DOMAIN payouts : HoldMoves(i)
  <1>0. payouts \in Seq(Payout) /\ ConclusionsStand
    BY DEF PayoutInv, AlwaysInv, TypeOK
  <1>1. ASSUME NEW i \in DOMAIN payouts, NEW s \in ProviderStatuses,
               s \in {"FINISHED", "REJECTED"} => payouts[i].now = s, Apply(i, s)
        PROVE  PayoutInv' /\ UNCHANGED <<payouts, late>> /\ \E k \in DOMAIN payouts : HoldMoves(k)
    <2>1. PayoutInv' /\ HoldMoves(i)
      BY <1>1, ApplyStep
    <2>. QED  BY <1>1, <2>1 DEF Apply
  <1>2. CASE Ipn
    <2>1. PICK i \in DOMAIN payouts : \E s \in payouts[i].was : Apply(i, s)
      BY <1>2 DEF Ipn
    <2>2. PICK s \in payouts[i].was : Apply(i, s)
      BY <2>1
    <2>3. payouts[i] \in Payout
      BY <1>0
    <2>4. s \in ProviderStatuses
      BY <2>3 DEF Payout
    <2>5. s \in {"FINISHED", "REJECTED"} => payouts[i].now = s
      BY <1>0 DEF ConclusionsStand
    <2>. QED  BY <1>1, <2>2, <2>4, <2>5
  <1>3. CASE Poll
    <2>1. PICK i \in DOMAIN payouts : Apply(i, payouts[i].now)
      BY <1>3 DEF Poll
    <2>2. payouts[i] \in Payout
      BY <1>0
    <2>3. payouts[i].now \in ProviderStatuses
      BY <2>2 DEF Payout
    <2>. QED  BY <1>1, <2>1, <2>3
  <1>. QED  BY <1>2, <1>3

\* A step that leaves the hold, the payouts and the requests in flight alone.
LEMMA QuietStep ==
  ASSUME PayoutInv, UNCHANGED <<hold, returned, ref, seen, verification, payouts, late, jobs>>,
         lapsed' \in BOOLEAN, lapsed => lapsed', status' \in {status, "RECONCILIATION_REQUIRED"}
  PROVE  PayoutInv'
  <1>0. AlwaysInv /\ TypeOK
    BY DEF PayoutInv, AlwaysInv
  <1>1. TypeOK'
    BY <1>0 DEF TypeOK, Statuses, Polled
  <1>2. StepsFit' /\ ConclusionsStand' /\ CompletedIsSent' /\ HoldIsTrue'
    BY <1>0 DEF AlwaysInv, StepsFit, ConclusionsStand, CompletedIsSent, HoldIsTrue, Sent, At
  <1>3. ASSUME ~late' PROVE TimelyInv'
    <2>1. TimelyInv /\ (Submitted' <=> Submitted)
      BY <1>3 DEF PayoutInv, Submitted, At
    <2>2. UndecidedIsWhole' /\ ExpiryStands' /\ OneSubmission'
      BY <2>1 DEF TimelyInv, UndecidedIsWhole, Undecided, ExpiryStands, OneSubmission, At
    <2>. QED  BY <2>1, <2>2 DEF TimelyInv, PayoutOnce, ReturnedUnpaid
  <1>. QED  BY <1>1, <1>2, <1>3 DEF PayoutInv, AlwaysInv

LEMMA ProgressStep ==
  ASSUME PayoutInv, NEW i \in DOMAIN payouts, Progress(i)
  PROVE  /\ PayoutInv' /\ UNCHANGED <<hold, late>>
         /\ Outcome' = Outcome \/ (Outcome = "open" /\ Outcome' \in {"sent", "rejected"})
  <1>1. PICK s \in NextStatuses(payouts[i]) :
          payouts' = [payouts EXCEPT ![i].now = s, ![i].was = @ \cup {s}]
    BY DEF Progress
  <1>. DEFINE p == [payouts[i] EXCEPT !.now = s, !.was = @ \cup {s}]
  <1>2. payouts \in Seq(Payout) /\ AlwaysInv /\ TypeOK /\ payouts[i] \in Payout
    BY DEF PayoutInv, AlwaysInv, TypeOK
  <1>3. s \in ProviderStatuses /\ payouts[i].now \notin {"FINISHED", "REJECTED"}
    BY DEF NextStatuses, ProviderStatuses
  <1>4. p \in Payout /\ p.now = s /\ p.was = payouts[i].was \cup {s}
    BY <1>2, <1>3 DEF Payout
  <1>5. payouts' = [payouts EXCEPT ![i] = p]
    BY <1>1, <1>2
  <1>. HIDE DEF p
  <1>6. \A t \in {"FINISHED", "REJECTED"} :
          (payouts[i].now = t => p.now = t) /\ (t \in p.was => p.now = t)
    BY <1>2, <1>3, <1>4 DEF AlwaysInv, ConclusionsStand
  <1>7. UNCHANGED <<status, hold, returned, ref, seen, lapsed, verification, late, jobs>>
    BY DEF Progress, row
  <1>8. /\ DOMAIN payouts' = DOMAIN payouts /\ payouts' # <<>> /\ payouts # <<>>
        /\ \A k \in DOMAIN payouts : k # i => payouts'[k] = payouts[k]
    BY <1>2, <1>5
  <1>9. /\ jobs' \in [Jobs -> Job] /\ StepsFit'
        /\ \A c \in Callers : At(c, "post")' => At(c, "post")
        /\ \A d \in Deciders : jobs'[d] = jobs[d]
    BY <1>2, <1>7, <1>8 DEF TypeOK, AlwaysInv, StepsFit, At
  <1>10. PayoutInv'
    BY <1>4, <1>5, <1>6, <1>7, <1>9, ReplacedInv
  <1>11. Sent => Sent'
    BY <1>3, <1>8 DEF Sent
  <1>12. Outcome' = Outcome \/ (Outcome = "open" /\ Outcome' \in {"sent", "rejected"})
    <2>1. CASE Sent
      BY <1>8, <1>11, <2>1 DEF Outcome
    <2>2. CASE ~Sent
      <3>1. Outcome = "open"
        BY <1>3, <1>8, <2>2 DEF Outcome
      <3>2. Outcome' \in {"open", "sent", "rejected"}
        BY <1>8 DEF Outcome
      <3>. QED  BY <3>1, <3>2
    <2>. QED  BY <2>1, <2>2
  <1>. QED  BY <1>7, <1>10, <1>12

-----------------------------------------------------------------------------
(* The invariant *)

LEMMA InitInv ==
  ASSUME Init
  PROVE  PayoutInv
  <1>. USE DEF Init
  <1>1. \A j \in Jobs : jobs[j] = Idle /\ jobs[j].step = "idle"
    BY DEF Idle
  <1>2. jobs \in [Jobs -> Job]
    BY IdleType
  <1>3. payouts \in Seq(Payout) /\ Len(payouts) = 0 /\ DOMAIN payouts = {}
    OBVIOUS
  <1>4. TypeOK
    <2>1. verification \in BOOLEAN
      BY ConfigAssumption
    <2>2. status \in Statuses /\ Len(payouts) <= MaxPayouts /\ ref \in 0 .. Len(payouts)
      BY <1>3, PayoutsAssumption DEF Statuses, Undecided
    <2>. QED  BY <1>2, <1>3, <2>1, <2>2 DEF TypeOK
  <1>5. Deciders \subseteq Jobs /\ Callers \subseteq Jobs
    BY DEF Jobs
  <1>6. StepsFit /\ ConclusionsStand /\ CompletedIsSent /\ HoldIsTrue
    BY <1>1, <1>3, <1>5 DEF StepsFit, ConclusionsStand, CompletedIsSent, HoldIsTrue, At
  <1>7. UndecidedIsWhole /\ ExpiryStands /\ OneSubmission
    BY <1>1, <1>5 DEF UndecidedIsWhole, ExpiryStands, OneSubmission, Submitted, At
  <1>8. PayoutOnce /\ ReturnedUnpaid
    BY <1>3 DEF PayoutOnce, ReturnedUnpaid
  <1>. QED  BY <1>4, <1>6, <1>7, <1>8 DEF PayoutInv, AlwaysInv, TimelyInv

LEMMA NextInv ==
  ASSUME PayoutInv, [Next]_vars
  PROVE  PayoutInv'
  <1>1. ASSUME NEW d \in Deciders, Decide(d)
        PROVE  PayoutInv'
    BY <1>1, ReadForCancelStep, ReadForDecisionStep, ListExpiredStep, ReadExpiredStep,
       DecisionStep DEF Decide
  <1>2. ASSUME NEW c \in Callers, Call(c)
        PROVE  PayoutInv'
    BY <1>2, ClaimStep, PostStep, StoreStep, ReadForVerifyStep, VerifyStep,
       StoreVerificationStep DEF Call
  <1>3. ASSUME NEW j \in Jobs, Fail(j)
        PROVE  PayoutInv'
    BY <1>3, FailStep
  <1>4. CASE Ipn \/ Poll
    BY <1>4, StatusStep
  <1>5. ASSUME NEW i \in DOMAIN payouts, Progress(i)
        PROVE  PayoutInv'
    BY <1>5, ProgressStep
  <1>6. CASE MarkReconciliation \/ Lapse \/ UNCHANGED vars
    <2>1. lapsed \in BOOLEAN
      BY DEF PayoutInv, AlwaysInv, TypeOK
    <2>2. CASE MarkReconciliation
      BY <2>1, <2>2, QuietStep DEF MarkReconciliation
    <2>3. CASE Lapse
      <3>1. lapsed' = TRUE /\ status' = status
        BY <2>3 DEF Lapse, row
      <3>. QED  BY <2>3, <3>1, QuietStep DEF Lapse, row
    <2>4. CASE UNCHANGED vars
      BY <2>1, <2>4, QuietStep DEF vars, row
    <2>. QED  BY <1>6, <2>2, <2>3, <2>4
  <1>. QED  BY <1>1, <1>2, <1>3, <1>4, <1>5, <1>6 DEF Next

\* The invariant always holds, for any number of decisions, submissions and
\* verifications in flight and every setting.
THEOREM Invariant == Spec => []PayoutInv
  BY InitInv, NextInv, PTL DEF Spec

\* The row, the hold, the provider's payouts and the requests in flight keep
\* their types.
THEOREM TypeCorrect == Spec => []TypeOK
  <1>1. PayoutInv => TypeOK
    BY DEF PayoutInv, AlwaysInv
  <1>. QED  BY <1>1, Invariant, PTL

\* Nothing is completed or charged that was not sent.  As long as no decision
\* was written after its check had ceased to hold, the player gets the crypto
\* once or the GLD back, and never both.
THEOREM PaidOrReturnedHolds == Spec => []PaidOrReturned
  <1>1. PayoutInv => PaidOrReturned
    BY DEF PayoutInv, AlwaysInv, TimelyInv, PaidOrReturned
  <1>. QED  BY <1>1, Invariant, PTL

-----------------------------------------------------------------------------
(* The contract *)

\* A decision is the contract's return of untouched GLD, or it is written late.
LEMMA DecisionImplements ==
  ASSUME PayoutInv, NEW d \in Deciders,
         Cancel(d) \/ Approve(d) \/ Reject(d) \/ Expire(d)
  PROVE  [Contract!Next]_<<hold, Outcome, late>>
  <1>1. /\ payouts' = payouts /\ late' \in BOOLEAN /\ (~late' => Timely)
        /\ hold' = hold \/ hold' = "RELEASED"
    BY DecisionsWrite DEF Release
  <1>2. Outcome' = Outcome
    BY <1>1 DEF Outcome, Sent
  <1>3. CASE late'
    BY <1>1, <1>2, <1>3 DEF Contract!Next, Contract!WriteLate
  <1>4. CASE ~late'
    <2>1. ~late /\ hold = "HELD" /\ payouts = <<>>
      BY <1>1, <1>4 DEF Timely, Submitted
    <2>2. Outcome = "none"
      BY <2>1 DEF Outcome
    <2>3. late \in BOOLEAN /\ late' = late
      BY <1>1, <1>4, <2>1 DEF PayoutInv, AlwaysInv, TypeOK
    <2>4. CASE hold' = hold
      BY <1>2, <2>3, <2>4
    <2>5. CASE hold' = "RELEASED"
      BY <1>2, <2>1, <2>2, <2>3, <2>5 DEF Contract!Next, Contract!Return
    <2>. QED  BY <1>1, <2>4, <2>5
  <1>. QED  BY <1>1, <1>3, <1>4

\* A submission makes the payout while its GLD is held, unless a decision was
\* written late.
LEMMA PostImplements ==
  ASSUME PayoutInv, NEW c \in Callers, Post(c)
  PROVE  [Contract!Next]_<<hold, Outcome, late>>
  <1>. DEFINE p == [now |-> "WAITING", was |-> {"WAITING"}, verified |-> FALSE]
              n == Len(payouts) + 1
  <1>1. /\ payouts \in Seq(Payout) /\ payouts' = Append(payouts, p)
        /\ hold' = hold /\ late' = late /\ At(c, "post") /\ late \in BOOLEAN
    BY DEF Post, PayoutInv, AlwaysInv, TypeOK, row
  <1>2. /\ payouts' # <<>> /\ DOMAIN payouts' = DOMAIN payouts \cup {n}
        /\ payouts'[n].now = "WAITING" /\ \A i \in DOMAIN payouts : payouts'[i] = payouts[i]
    BY <1>1
  <1>. HIDE DEF n, p
  <1>3. Sent' <=> Sent
    BY <1>2 DEF Sent
  <1>4. Outcome' = IF Sent THEN "sent" ELSE "open"
    BY <1>2, <1>3 DEF Outcome
  <1>5. Outcome \in {"none", "rejected", "open", "sent"} /\ (Outcome = "sent" <=> Sent)
    <2>1. payouts = <<>> => ~Sent
      BY DEF Sent
    <2>. QED  BY <2>1 DEF Outcome
  <1>6. CASE late
    BY <1>1, <1>4, <1>5, <1>6 DEF Contract!Next, Contract!Make
  <1>7. CASE ~late
    <2>1. payouts = <<>> /\ hold = "HELD"
      BY <1>1, <1>7 DEF PayoutInv, TimelyInv, OneSubmission
    <2>2. Outcome = "none" /\ Outcome' = "open"
      BY <1>4, <1>5, <2>1 DEF Outcome
    <2>. QED  BY <1>1, <2>1, <2>2 DEF Contract!Next, Contract!Make
  <1>. QED  BY <1>6, <1>7

\* A callback or a poll charges the GLD of a payout that was sent, or returns
\* that of one that was rejected.
LEMMA StatusImplements ==
  ASSUME PayoutInv, Ipn \/ Poll
  PROVE  [Contract!Next]_<<hold, Outcome, late>>
  <1>1. PayoutInv' /\ UNCHANGED <<payouts, late>> /\ \E i \in DOMAIN payouts : HoldMoves(i)
    BY StatusStep
  <1>2. PICK i \in DOMAIN payouts : HoldMoves(i)
    BY <1>1
  <1>3. Outcome' = Outcome /\ payouts # <<>> /\ payouts \in Seq(Payout) /\ TypeOK
    BY <1>1 DEF Outcome, Sent, PayoutInv, AlwaysInv, TypeOK
  <1>4. CASE hold' = hold
    BY <1>1, <1>3, <1>4
  <1>5. CASE hold = "HELD" /\ hold' = "CONSUMED" /\ payouts[i].now = "FINISHED"
    <2>1. Outcome = "sent"
      BY <1>3, <1>5 DEF Outcome, Sent
    <2>. QED  BY <1>1, <1>3, <1>5, <2>1 DEF Contract!Next, Contract!Charge
  <1>6. CASE hold' = "RELEASED" /\ hold' # hold /\ payouts[i].now = "REJECTED"
    <2>1. CASE late
      BY <1>1, <1>3, <1>6, <2>1 DEF Contract!Next, Contract!Return
    <2>2. CASE ~late
      <3>1. Len(payouts) <= 1
        BY <2>2 DEF PayoutInv, TimelyInv, PayoutOnce
      <3>2. \A k \in DOMAIN payouts : payouts[k].now = "REJECTED"
        BY <1>3, <1>6, <3>1
      <3>3. ~Sent
        BY <3>2 DEF Sent
      <3>4. Outcome = "rejected"
        BY <1>3, <3>2, <3>3 DEF Outcome
      <3>5. hold = "HELD"
        BY <1>3, <1>6, <3>3 DEF PayoutInv, AlwaysInv, HoldIsTrue, TypeOK
      <3>. QED  BY <1>1, <1>3, <1>6, <3>4, <3>5 DEF Contract!Next, Contract!Return
    <2>. QED  BY <2>1, <2>2
  <1>. QED  BY <1>2, <1>4, <1>5, <1>6 DEF HoldMoves

LEMMA InitImplements ==
  ASSUME Init
  PROVE  Contract!Init
  BY DEF Init, Contract!Init, Outcome

LEMMA NextImplements ==
  ASSUME PayoutInv, [Next]_vars
  PROVE  [Contract!Next]_<<hold, Outcome, late>>
  <1>0. ASSUME UNCHANGED <<hold, payouts, late>>
        PROVE  UNCHANGED <<hold, Outcome, late>>
    BY <1>0 DEF Outcome, Sent
  <1>1. ASSUME NEW d \in Deciders, Decide(d)
        PROVE  [Contract!Next]_<<hold, Outcome, late>>
    <2>1. CASE Cancel(d) \/ Approve(d) \/ Reject(d) \/ Expire(d)
      BY <2>1, DecisionImplements
    <2>2. CASE ReadForCancel(d) \/ ReadForDecision(d) \/ ListExpired(d) \/ ReadExpired(d)
      BY <1>0, <2>2 DEF ReadForCancel, ReadForDecision, ListExpired, ReadExpired, row
    <2>. QED  BY <1>1, <2>1, <2>2 DEF Decide
  <1>2. ASSUME NEW c \in Callers, Call(c)
        PROVE  [Contract!Next]_<<hold, Outcome, late>>
    <2>1. CASE Post(c)
      BY <2>1, PostImplements
    <2>2. CASE Verify(c)
      BY <2>2, VerifyStep DEF Verify, row
    <2>3. CASE Claim(c) \/ Store(c) \/ ReadForVerify(c) \/ StoreVerification(c)
      BY <1>0, <2>3 DEF Claim, Store, ReadForVerify, StoreVerification, row
    <2>. QED  BY <1>2, <2>1, <2>2, <2>3 DEF Call
  <1>3. ASSUME NEW j \in Jobs, Fail(j)
        PROVE  [Contract!Next]_<<hold, Outcome, late>>
    BY <1>0, <1>3 DEF Fail, row
  <1>4. CASE Ipn \/ Poll
    BY <1>4, StatusImplements
  <1>5. ASSUME NEW i \in DOMAIN payouts, Progress(i)
        PROVE  [Contract!Next]_<<hold, Outcome, late>>
    BY <1>5, ProgressStep DEF Contract!Next, Contract!Conclude
  <1>6. CASE MarkReconciliation \/ Lapse \/ UNCHANGED vars
    BY <1>0, <1>6 DEF MarkReconciliation, Lapse, vars, row
  <1>. QED  BY <1>1, <1>2, <1>3, <1>4, <1>5, <1>6 DEF Next

\* The service keeps the contract, with any number of decisions at once: the
\* GLD is charged once and only for a payout that was sent, or returned once
\* and, unless a decision was written late, only where the player has no crypto.
THEOREM Implementation == Spec => KeepsContract
  <1>1. Init => Contract!Init
    BY InitImplements
  <1>2. PayoutInv /\ [Next]_vars => [Contract!Next]_<<hold, Outcome, late>>
    BY NextImplements
  <1>. QED  BY <1>1, <1>2, Invariant, PTL DEF Spec, KeepsContract, Contract!Spec

=============================================================================
