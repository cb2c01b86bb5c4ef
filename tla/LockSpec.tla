------------------------------ MODULE LockSpec ------------------------------
(* What a lock promises: it has at most one holder, and only the holder     *)
(* gives it back.                                                           *)
CONSTANTS Actor, NULL

VARIABLE holder

Init == holder = NULL

Acquire(a) == holder = NULL /\ holder' = a
Release(a) == holder = a /\ holder' = NULL

Next == \E a \in Actor : Acquire(a) \/ Release(a)

Spec == Init /\ [][Next]_holder
=============================================================================
