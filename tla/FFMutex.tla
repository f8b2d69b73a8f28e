------------------------------- MODULE FFMutex -------------------------------
(***************************************************************************)
(* What the FAT lock and the directory lock promise: at any moment a lock  *)
(* has at most one holder, who got it while it was free and gives it back  *)
(* himself.  FFLocking implements this with two bits of an event group.    *)
(***************************************************************************)
CONSTANTS Tasks, Locks, Nobody

VARIABLE holder

Init == holder = [k \in Locks |-> Nobody]

Acquire(t, k) == holder[k] = Nobody /\ holder' = [holder EXCEPT ![k] = t]

Release(t, k) == holder[k] = t /\ holder' = [holder EXCEPT ![k] = Nobody]

Next == \E t \in Tasks, k \in Locks : Acquire(t, k) \/ Release(t, k)

Spec == Init /\ [][Next]_holder
=============================================================================
