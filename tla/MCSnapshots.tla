----------------------------- MODULE MCSnapshots -----------------------------
(* Snapshots of a library of two sources and two documents. *)
EXTENDS Snapshots

CONSTANTS s1, s2, page, volume, n1

\* One claim's points and the other source's chunk come first in the scroll.
MCFirstBatch == {<<s1, page>>, <<s1, volume>>, <<s2, L0>>}

Bounds(imports, commits, rebuilds, faults) ==
    [imports |-> imports, commits |-> commits, rebuilds |-> rebuilds, faults |-> faults]

MCBudgets == {Bounds(1, 1, 0, 1), Bounds(0, 2, 0, 1), Bounds(1, 0, 1, 1), Bounds(0, 1, 1, 0),
              Bounds(1, 0, 0, 2)}
=============================================================================
