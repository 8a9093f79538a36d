----------------------------- MODULE MCReadings -----------------------------
(* Readings on two consultations and two sources, one scenario per budget. *)
EXTENDS Readings

CONSTANTS c1, c2, old, new

MCStamp == [s \in {old, new} |-> IF s = old THEN 1 ELSE 2]

Bounds(asks, rebuilds, windows, deaths, failures) ==
    [asks |-> asks, rebuilds |-> rebuilds, windows |-> windows, deaths |-> deaths,
     failures |-> failures]

MCBudgets == {Bounds(2, 1, 0, 1, 0), Bounds(0, 1, 1, 1, 0), Bounds(0, 1, 1, 0, 1), Bounds(0, 0, 2, 0, 2)}

SkippedBudgets == {Bounds(0, 0, 2, 0, 0)}
=============================================================================
