---------------------------- MODULE MCMatchLifecycle ----------------------------
(* Instances of MatchLifecycle for TLC. *)
EXTENDS MatchLifecycle

CONSTANTS h1, h2, b1

Created(m, ps, st) == [mode |-> m, players |-> ps, status |-> st]

RankedMatch == {Created("RANKED", {h1, h2}, "CREATED")}

\* A ranked match, a bot fallback, a friend match and a practice round.
EveryMode ==
  RankedMatch \cup
  {Created("BOT", {h1, b1}, "CREATED"),
   Created("CASUAL", {h1, h2}, "STARTED"),
   Created("PRACTICE", {h1}, "STARTED")}

=============================================================================
