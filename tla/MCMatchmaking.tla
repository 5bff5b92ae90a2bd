----------------------------- MODULE MCMatchmaking -----------------------------
(* Instances of Matchmaking for TLC. *)
EXTENDS Matchmaking, TLC

CONSTANTS u1, u2, u3, u4, gold, silver, casual, domino, quiz

Choice(g, a, r) == [game |-> g, arena |-> a, random |-> r]

\* Ranked players of one arena.
RankedOnly == {Choice(quiz, gold, FALSE)}

\* Ranked players, and players who leave a casual game to the server.
TwoPools == {Choice(quiz, gold, FALSE), Choice(quiz, casual, TRUE)}

\* Domino players of two arenas.
Arenas2 == {Choice(domino, gold, FALSE), Choice(domino, silver, FALSE)}

\* Every player queues for everything.
Anything == [u \in Users |-> Selections]

\* One player queues in the silver arena, the others in the gold one.
ByArena == [u \in Users |-> {c \in Selections : c.arena = silver <=> u = u3}]

Stakes == [a \in Arenas |-> IF a = gold THEN 10 ELSE 4]
Fee == [a \in Arenas |-> 3]

AnyPlayer == Permutations(Users)
Slots == Permutations(Txns)
Symmetric == AnyPlayer \cup Slots
=============================================================================
