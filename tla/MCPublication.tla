--------------------------- MODULE MCPublication ---------------------------
(* Publication on two pages: one that fills and is groomed, one in the archive. *)
EXTENDS Publication

CONSTANTS s1, s2, s3, p1, p2

MCAbout == [s \in {s1, s2, s3} |-> IF s = s3 THEN p2 ELSE p1]

Bounds(faults, parks, manifests, hands, audits, plans) ==
    [faults |-> faults, parks |-> parks, manifests |-> manifests, hands |-> hands,
     audits |-> audits, plans |-> plans]

MCBudgets == {Bounds(2, 0, 0, 0, 1, 0), Bounds(0, 0, 0, 1, 0, 0), Bounds(0, 0, 0, 0, 1, 1),
              Bounds(1, 0, 1, 0, 0, 1), Bounds(1, 1, 0, 0, 0, 1), Bounds(2, 0, 0, 0, 0, 1), Bounds(0, 0, 0, 0, 0, 2)}

OvertakenBudgets == {Bounds(0, 1, 0, 0, 0, 1)}
=============================================================================
