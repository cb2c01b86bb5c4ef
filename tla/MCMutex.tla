------------------------------- MODULE MCMutex -------------------------------
(* Instances of Mutex.tla. *)
EXTENDS Mutex

CONSTANTS t1, t2, t3

Three == {t1, t2, t3}
\* Above t2 there is one thread, above t3 there are two.
Steps == [t \in Thread |-> IF t = t1 THEN 1 ELSE IF t = t2 THEN 5 ELSE 80]
=============================================================================
