----------------------------- MODULE Semaphore -----------------------------
(***************************************************************************)
(* The counting semaphore of kernel/semaphore.c: sema_down polls for a     *)
(* counter that is not zero and then decrements it, and sema_up increments *)
(* it only when it is zero.  The counter is unsigned: W stands for its     *)
(* 2^32 values.                                                            *)
(***************************************************************************)
EXTENDS Integers, FiniteSets

CONSTANTS
  Caller,        \* the threads that use the semaphore
  Val,           \* the value given to sema_init
  W              \* the number of values of the counter

ASSUME SemaphoreAssumption ==
  /\ IsFiniteSet(Caller) /\ Caller # {}
  /\ W \in Nat /\ Val \in 1..(W - 1)

VARIABLES
  sgrt_atc,      \* the counter: permits that are left
  cpu,           \* the running thread
  pc,
  raced          \* history: a thread lost the core between test and decrement

sema_vars == <<sgrt_atc, cpu, pc, raced>>

SemaInit ==
  /\ sgrt_atc = Val /\ cpu \in Caller /\ pc = [t \in Caller |-> "out"]
  /\ raced = FALSE

sema_is_locked == sgrt_atc = 0

At(t, p) == cpu = t /\ pc[t] = p
Goto(t, p) == pc' = [pc EXCEPT ![t] = p]

Call(t) ==
  /\ At(t, "out")
  /\ \E p \in {"down", "try"} : Goto(t, p)
  /\ UNCHANGED <<sgrt_atc, cpu, raced>>

\* while (sema_is_locked(sprt_sem)) schedule_thread();
Wait(t) ==
  /\ At(t, "down") /\ sema_is_locked
  /\ cpu' \in Caller
  /\ UNCHANGED <<sgrt_atc, pc, raced>>

\* Bug: the loop is left after one turn.
Test_Once(t) ==
  /\ At(t, "down")
  /\ Goto(t, "dec")
  /\ UNCHANGED <<sgrt_atc, cpu, raced>>

Test(t) ==
  /\ At(t, "down") /\ ~sema_is_locked
  /\ Goto(t, "dec")
  /\ UNCHANGED <<sgrt_atc, cpu, raced>>

TryTest(t) ==
  /\ At(t, "try")
  /\ Goto(t, IF sema_is_locked THEN "out" ELSE "dec")
  /\ UNCHANGED <<sgrt_atc, cpu, raced>>

AtomicDec(t) ==
  /\ At(t, "dec")
  /\ sgrt_atc' = (sgrt_atc - 1) % W
  /\ Goto(t, "cs")
  /\ UNCHANGED <<cpu, raced>>

\* Bug: sema_up tests for the last permit instead of none.
UpTest_One(t) ==
  /\ At(t, "cs")
  /\ Goto(t, IF sgrt_atc = 1 THEN "inc" ELSE "out")
  /\ UNCHANGED <<sgrt_atc, cpu, raced>>

\* sema_up: nothing happens unless the counter is zero.
UpTest(t) ==
  /\ At(t, "cs")
  /\ Goto(t, IF sema_is_locked THEN "inc" ELSE "out")
  /\ UNCHANGED <<sgrt_atc, cpu, raced>>

AtomicInc(t) ==
  /\ At(t, "inc")
  /\ sgrt_atc' = (sgrt_atc + 1) % W
  /\ Goto(t, "out")
  /\ UNCHANGED <<cpu, raced>>

\* schedule_thread, which a thread calls outside or between sema_down and
\* sema_up, and which the systick calls anywhere.
Switch ==
  /\ cpu' \in Caller \ {cpu}
  /\ raced' = (raced \/ pc[cpu] = "dec")
  /\ UNCHANGED <<sgrt_atc, pc>>

ThreadStep(t) ==
  \/ Call(t) \/ Wait(t) \/ Test(t) \/ TryTest(t) \/ AtomicDec(t)
  \/ UpTest(t) \/ AtomicInc(t)

SemaNext == (\E t \in Caller : ThreadStep(t)) \/ Switch

SemaSpec == SemaInit /\ [][SemaNext]_sema_vars

-----------------------------------------------------------------------------
(* Properties *)

\* Between atomic_dec and the end of sema_up.
Owners == {t \in Caller : pc[t] \in {"cs", "inc"}}

\* Permits are not made up: the threads that are past sema_down and the
\* permits left are never more than sema_init gave, unless a thread lost the
\* core between the test and the decrement of sema_down.
PermitsBounded == raced \/ sgrt_atc + Cardinality(Owners) <= Val

\* Waiting can end, although sema_up drops permits: up to such a preemption
\* the counter is zero, so that sema_down polls, only while a thread is inside
\* that will see the zero and increment it ("if it has been locked",
\* semaphore.c:41).
ZeroIsOwned == raced \/ (sgrt_atc = 0 => Owners # {})
=============================================================================
