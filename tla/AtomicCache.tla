----------------------------- MODULE AtomicCache -----------------------------
(***************************************************************************)
(* What ObserveManager.apply promises its callers, seen without threads or *)
(* locks ("apply() is the sole path StateCache mutations flow through"):   *)
(* whoever has a report or a body in hand merges the whole of it, in one   *)
(* step, onto the cached rep of that moment, or drops it.                  *)
(***************************************************************************)
EXTENDS Reports

CONSTANT Holders   \* those that bring reports and bodies

VARIABLES cache, hand

Init ==
    /\ cache \in State
    /\ hand = [x \in Holders |-> NoRep]

Bring(x, new) ==
    /\ hand[x] = NoRep
    /\ hand' = [hand EXCEPT ![x] = new]
    /\ UNCHANGED cache

Drop(x) ==
    /\ hand' = [hand EXCEPT ![x] = NoRep]
    /\ UNCHANGED cache

Apply(x) ==
    /\ cache' = Merge(cache, hand[x])
    /\ hand' = [hand EXCEPT ![x] = NoRep]

Next == \E x \in Holders : Drop(x) \/ Apply(x) \/ \E new \in Reps : Bring(x, new)

Spec == Init /\ [][Next]_<<cache, hand>>
=============================================================================
