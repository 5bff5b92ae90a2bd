------------------------------ MODULE MCDomino ------------------------------
(* Domino Duel with the double-three deck: three seats of three tiles each  *)
(* and three of its deals.  A round of each can end with an empty hand or   *)
(* blocked, in the first and the last with a tie for the fewest pips; one   *)
(* human, the other and the bot open.  The target is met by some courses of *)
(* a first round and not by others.                                         *)
EXTENDS Domino

Dealing(a, b, c) == [p \in 0 .. 2 |-> IF p = 0 THEN a ELSE IF p = 1 THEN b ELSE c]

MCDeals == {
    Dealing({<<0, 0>>, <<1, 1>>, <<1, 3>>}, {<<0, 1>>, <<1, 2>>, <<2, 2>>}, {<<0, 2>>, <<2, 3>>, <<3, 3>>}),
    Dealing({<<1, 2>>, <<2, 3>>, <<3, 3>>}, {<<0, 0>>, <<0, 2>>, <<0, 3>>}, {<<1, 1>>, <<1, 3>>, <<2, 2>>}),
    Dealing({<<0, 1>>, <<0, 2>>, <<1, 1>>}, {<<0, 3>>, <<1, 2>>, <<3, 3>>}, {<<0, 0>>, <<2, 2>>, <<2, 3>>})}
=============================================================================
