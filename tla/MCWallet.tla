------------------------------- MODULE MCWallet -------------------------------
(***************************************************************************)
(* Instances of Wallet for TLC: which operations are in use and with which *)
(* source ids.  An operation with no ids is not called.                    *)
(***************************************************************************)
EXTENDS Wallet, TLC

CONSTANTS i1, i2, u1, u2, u3, t1, t2, t3

IdsFor(credit, debit, reverse, grant, transfer) ==
  [op \in Ops |-> CASE op = "credit" -> credit [] op = "debit" -> debit
                    [] op = "reverse" -> reverse [] op = "grant" -> grant
                    [] op = "transfer" -> transfer]

\* All five operations; a credit and a debit may be given one id.
AllOps == IdsFor({i1}, {i1, i2}, {i1, i2}, {i1}, {})

\* Credits that fund the players, and transfers between them.
Transfers == IdsFor({i1}, {}, {}, {}, {i1})

Anyone == [u \in Users |-> Users \ {u}]

\* Amounts, whatever the operation.
Fractions == [op \in Ops |-> {2, 3}]

\* A credit pays for one transfer of one unit and its fee, and leaves a rest.
Funded == [op \in Ops |-> {IF op = "credit" THEN 3 ELSE 1}]

\* Each player sends only to the next: the shortest way into a lock cycle.
Ring == [u \in Users |-> {CASE u = u1 -> u2 [] u = u2 -> u3 [] u = u3 -> u1}]
=============================================================================
