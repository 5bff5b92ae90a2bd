---------------------------- MODULE PayoutContract -----------------------------
(***************************************************************************)
(* What a crypto payout request promises: the player has either the GLD or *)
(* the crypto.  The GLD held for the request is charged only after a       *)
(* payout was sent, and goes back only when there is no payout and there   *)
(* will be none, or when the provider has rejected it.  Neither happens a  *)
(* second time, and neither follows the other.                             *)
(*                                                                         *)
(* A decision written late, over a request that has moved on, may return   *)
(* GLD that pays for a payout or let a second payout be asked for.  What   *)
(* is left of the promise then: nothing is charged unless a payout was     *)
(* sent, and GLD that went back is not charged any more.                   *)
(***************************************************************************)

VARIABLES
  money,   \* the held GLD
  payout,  \* the provider's payouts for the request
  late     \* a decision was written late

Init == money = "HELD" /\ payout = "none" /\ late = FALSE

\* A payout is only asked for while its GLD is held, and only one.
Make ==
  /\ (money = "HELD" /\ payout = "none") \/ (late /\ payout \in {"none", "rejected"})
  /\ payout' = "open"
  /\ UNCHANGED <<money, late>>

\* The provider sends a payout or rejects it, whatever became of the money.
Conclude == payout = "open" /\ payout' \in {"sent", "rejected"} /\ UNCHANGED <<money, late>>

Charge == money = "HELD" /\ payout = "sent" /\ money' = "CONSUMED" /\ UNCHANGED <<payout, late>>

Return ==
  /\ (money = "HELD" /\ payout \in {"none", "rejected"}) \/ late
  /\ money' = "RELEASED"
  /\ UNCHANGED <<payout, late>>

WriteLate == late' = TRUE /\ money' \in {money, "RELEASED"} /\ UNCHANGED payout

Next == Make \/ Conclude \/ Charge \/ Return \/ WriteLate

Spec == Init /\ [][Next]_<<money, payout, late>>
=============================================================================
