---------------------------- MODULE MCSemaphore ----------------------------
(* Instances of Semaphore.tla. *)
EXTENDS Semaphore

CONSTANTS t1, t2, t3, t4

Four == {t1, t2, t3, t4}
=============================================================================
