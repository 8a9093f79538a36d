------------------------------ MODULE MCEvolve ------------------------------
(* Evolve on two pages and three claims, one of them still to be compiled. *)
EXTENDS Evolve

CONSTANTS a, b, c, p, q

MCHome == [x \in {a, b, c} |-> IF x = b THEN q ELSE p]

Bounds(deaths, rounds, commits, verdicts, asks) ==
    [deaths |-> deaths, rounds |-> rounds, commits |-> commits, verdicts |-> verdicts, asks |-> asks]

MCBudgets == {Bounds(1, 1, 1, 0, 1), Bounds(0, 1, 2, 0, 1), Bounds(0, 2, 0, 0, 2), Bounds(1, 1, 0, 1, 1)}
DoubledBudgets == {Bounds(0, 1, 1, 0, 1)}
=============================================================================
