--------------------------- MODULE ExclusiveLock ----------------------------
(***************************************************************************)
(* What the lock service promises its applications: a lock is held by one  *)
(* agent at a time, goes to an agent only while nobody has it, and leaves  *)
(* it only when that agent gives it back.                                  *)
(***************************************************************************)
CONSTANTS Agent, Lock, Nobody

VARIABLE holder

Init == holder = [l \in Lock |-> Nobody]

Acquire(a, l) ==
    /\ holder[l] = Nobody
    /\ holder' = [holder EXCEPT ![l] = a]

Release(a, l) ==
    /\ holder[l] = a
    /\ holder' = [holder EXCEPT ![l] = Nobody]

Next == \E a \in Agent, l \in Lock : Acquire(a, l) \/ Release(a, l)

Spec == Init /\ [][Next]_holder
=============================================================================
