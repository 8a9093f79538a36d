------------------------------ MODULE LaneLock ------------------------------
(***************************************************************************)
(* What the queue promises about its lanes, whatever implements it: each   *)
(* lane has at most one holder, and passes from one holder to the next     *)
(* only through being free.  One step may act on several lanes (a          *)
(* self-heal sweeps a library's whole queue in one transaction).           *)
(***************************************************************************)
CONSTANTS Locks, Owners

VARIABLE held   \* <<lock, owner>> pairs

Init == held = {}

Free(l) == \A o \in Owners : <<l, o>> \notin held
Taken(l, o) == Free(l) /\ \A p \in Owners : <<l, p>> \in held' => p = o

\* Any holders may let go; a new one takes a free lock, alone.
Next ==
    /\ held' \subseteq Locks \X Owners
    /\ \A h \in held' \ held : Taken(h[1], h[2])

Spec == Init /\ [][Next]_held
=============================================================================
