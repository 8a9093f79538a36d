-------------------------------- MODULE Tally --------------------------------
(***************************************************************************)
(* What the access ledger promises its readers: an event that happened is  *)
(* added to the sums once, in one step, and nothing else touches them.     *)
(***************************************************************************)
EXTENDS Naturals

CONSTANT Events

VARIABLES
    happened,   \* the events on record
    hits        \* how often each of them is in the sums

Init == happened = {} /\ hits = [e \in Events |-> 0]

Happen(new) == happened' = happened \cup new /\ UNCHANGED hits

Count(e) ==
    /\ e \in happened /\ hits[e] = 0
    /\ hits' = [hits EXCEPT ![e] = 1]
    /\ UNCHANGED happened

Next == (\E new \in SUBSET Events : Happen(new)) \/ (\E e \in Events : Count(e))

Spec == Init /\ [][Next]_<<happened, hits>>
=============================================================================
