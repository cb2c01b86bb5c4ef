----------------------------- MODULE MCSpinLock -----------------------------
(* An instance of SpinLock.tla for model checking. *)
EXTENDS SpinLock

CONSTANTS t1, t2, t3

Threads == {t1, t2, t3}
=============================================================================
