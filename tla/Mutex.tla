------------------------------- MODULE Mutex -------------------------------
(***************************************************************************)
(* The mutex of kernel/mutex.c.  It is a counter that is tested and then   *)
(* incremented; a thread that finds it taken calls schedule_thread and     *)
(* tests again.  Unlike the spin lock it does not stop preemption, so a    *)
(* systick can take the core away between the test and the increment.      *)
(***************************************************************************)
EXTENDS Integers, Sequences, FiniteSets

CONSTANTS
  Thread,
  Prio,          \* Prio[t]: the priority, 0 is the highest
  NULL

ASSUME MutexAssumption ==
  /\ IsFiniteSet(Thread) /\ Thread # {} /\ NULL \notin Thread
  /\ Prio \in [Thread -> Nat]

VARIABLES
  sgrt_atc,      \* the mutex
  cpu, ready,    \* the running thread; the ready list of the scheduler
  pc,
  raced          \* history: a thread lost the core between test and increment

vars == <<sgrt_atc, cpu, ready, pc, raced>>

\* The scheduler's place for t on the ready list (see Sched.tla): behind the
\* threads of its own priority.
AddReady(r, t) ==
  SelectSeq(r, LAMBDA u : Prio[u] <= Prio[t]) \o <<t>>
    \o SelectSeq(r, LAMBDA u : Prio[u] > Prio[t])

\* The threads are created one after the other.
Init ==
  /\ sgrt_atc = 0
  /\ cpu \in Thread /\ ready = <<>>
  /\ pc = [t \in Thread |-> IF t = cpu THEN "out" ELSE "asleep"]
  /\ raced = FALSE

mutex_is_locked == sgrt_atc # 0

At(t, p) == cpu = t /\ pc[t] = p
Goto(t, p) == pc' = [pc EXCEPT ![t] = p]

\* schedule_thread: the first ready thread gets the core, and the caller goes
\* back to the ready list.
ScheduleThread ==
  IF ready = <<>> THEN UNCHANGED <<cpu, ready>>
  ELSE cpu' = Head(ready) /\ ready' = AddReady(Tail(ready), cpu)

-----------------------------------------------------------------------------
(* mutex_lock and mutex_try_lock *)

Call(t) ==
  /\ At(t, "out")
  /\ \E p \in {"lock", "try"} : Goto(t, p)
  /\ UNCHANGED <<sgrt_atc, cpu, ready, raced>>

\* while (mutex_is_locked(sprt_lock)) schedule_thread();
Wait(t) ==
  /\ At(t, "lock") /\ mutex_is_locked
  /\ ScheduleThread
  /\ UNCHANGED <<sgrt_atc, pc, raced>>

\* Bug: a thread that comes back from schedule_thread does not test again.
Test_Once(t) ==
  /\ At(t, "lock")
  /\ Goto(t, "inc")
  /\ UNCHANGED <<sgrt_atc, cpu, ready, raced>>

Test(t) ==
  /\ At(t, "lock") /\ ~mutex_is_locked
  /\ Goto(t, "inc")
  /\ UNCHANGED <<sgrt_atc, cpu, ready, raced>>

TryTest(t) ==
  /\ At(t, "try")
  /\ Goto(t, IF mutex_is_locked THEN "out" ELSE "inc")
  /\ UNCHANGED <<sgrt_atc, cpu, ready, raced>>

AtomicInc(t) ==
  /\ At(t, "inc")
  /\ sgrt_atc' = sgrt_atc + 1
  /\ Goto(t, "cs")
  /\ UNCHANGED <<cpu, ready, raced>>

-----------------------------------------------------------------------------
(* mutex_unlock, by the thread that locked *)

\* Bug: mutex_unlock takes a counter above 1 for an error and returns.
UnlockTest_Sole(t) ==
  /\ At(t, "cs")
  /\ Goto(t, IF sgrt_atc = 1 THEN "dec" ELSE "out")
  /\ UNCHANGED <<sgrt_atc, cpu, ready, raced>>

UnlockTest(t) ==
  /\ At(t, "cs")
  /\ Goto(t, IF mutex_is_locked THEN "dec" ELSE "out")
  /\ UNCHANGED <<sgrt_atc, cpu, ready, raced>>

\* Bug: the counter is reset instead of decremented.
AtomicDec_Reset(t) ==
  /\ At(t, "dec")
  /\ sgrt_atc' = 0
  /\ Goto(t, "out")
  /\ UNCHANGED <<cpu, ready, raced>>

AtomicDec(t) ==
  /\ At(t, "dec")
  /\ sgrt_atc' = sgrt_atc - 1
  /\ Goto(t, "out")
  /\ UNCHANGED <<cpu, ready, raced>>

-----------------------------------------------------------------------------
(* The scheduler, as far as the mutex sees it *)

\* A thread sleeps, or comes from a sleep, outside of the mutex or while it
\* owns it (imx_i2c_transfer waits for its interrupt).
Sleep(t) ==
  /\ cpu = t /\ pc[t] \in {"out", "cs"} /\ ready # <<>>
  /\ Goto(t, IF pc[t] = "out" THEN "asleep" ELSE "slept")
  /\ cpu' = Head(ready) /\ ready' = Tail(ready)
  /\ UNCHANGED <<sgrt_atc, raced>>

Wake(t) ==
  /\ pc[t] \in {"asleep", "slept"}
  /\ Goto(t, IF pc[t] = "asleep" THEN "out" ELSE "cs")
  /\ ready' = AddReady(ready, t)
  /\ UNCHANGED <<sgrt_atc, cpu, raced>>

\* wait_event, in the read of an input device: a thread that waits for its
\* event polls through schedule_thread too.  The event may never come.
WaitEvent(t) ==
  /\ At(t, "out") /\ Goto(t, "poll")
  /\ UNCHANGED <<sgrt_atc, cpu, ready, raced>>

Poll(t) ==
  /\ At(t, "poll")
  /\ ScheduleThread
  /\ UNCHANGED <<sgrt_atc, pc, raced>>

Event(t) ==
  /\ At(t, "poll") /\ Goto(t, "out")
  /\ UNCHANGED <<sgrt_atc, cpu, ready, raced>>

\* The systick takes the core away between any two steps, for a thread of the
\* same or a higher priority (kthread_schedule_timeout).
PreemptThread ==
  /\ ready # <<>> /\ Prio[Head(ready)] <= Prio[cpu]
  /\ ScheduleThread
  /\ raced' = (raced \/ pc[cpu] = "inc")
  /\ UNCHANGED <<sgrt_atc, pc>>

ThreadStep(t) ==
  \/ Call(t) \/ Wait(t) \/ Test(t) \/ TryTest(t) \/ AtomicInc(t)
  \/ UnlockTest(t) \/ AtomicDec(t) \/ Sleep(t)
  \/ WaitEvent(t) \/ Poll(t) \/ Event(t)

Next == (\E t \in Thread : ThreadStep(t) \/ Wake(t)) \/ PreemptThread

Spec == Init /\ [][Next]_vars

\* A thread that has the core again and again gets on: it leaves the section,
\* polls when it waits for the mutex or an event, and sleeps when it goes
\* round its loop (the loops of kernel/kthread and example/ end in a
\* schedule_delay_ms); every sleep ends.  An event need not come, and which
\* threads get the core is not assumed: it follows from the ready list.
Fairness ==
  \A t \in Thread :
    /\ SF_vars(ThreadStep(t)) /\ WF_vars(Wake(t))
    /\ SF_vars(UnlockTest(t)) /\ SF_vars(Sleep(t) /\ pc[t] = "out")
    /\ SF_vars(Poll(t))

FairSpec == Spec /\ Fairness

-----------------------------------------------------------------------------
(* Properties *)

Place == {"asleep", "out", "lock", "try", "inc", "cs", "slept", "dec",
          "poll"}

TypeOK ==
  /\ sgrt_atc \in Nat /\ cpu \in Thread /\ ready \in Seq(Thread)
  /\ pc \in [Thread -> Place] /\ raced \in BOOLEAN

\* Between atomic_inc and atomic_dec.
Owners == {t \in Thread : pc[t] \in {"cs", "slept", "dec"}}

\* The counter is the number of owners, however many there are: an unlock
\* never frees the mutex over the head of another owner.
OwnersCounted == sgrt_atc = Cardinality(Owners)

\* Two threads never own the mutex at once ("if it has been locked, schedule
\* another thread", mutex_lock).
MutualExclusion == \A s, t \in Owners : s = t

\* Only a preemption between the test and the increment breaks exclusion: the
\* polling of mutex_lock, a preemption or a sleep anywhere else, the owner's
\* section included, and a failed try do not.
ExclusiveUnlessRaced == raced \/ MutualExclusion

\* The mutex becomes free again and again, although with preemption several
\* threads can pass the test before one of them counts, and although threads
\* poll for it or for an event: schedule_thread lets the owner run.  The one
\* exception is an owner below two threads that hand the core to each other
\* for ever, each of a higher priority; one such thread is not enough.
FreedAgain ==
  \/ []<>(sgrt_atc = 0)
  \/ \E o, s, t \in Thread :
       /\ s # t /\ Prio[s] < Prio[o] /\ Prio[t] < Prio[o]
       /\ <>[](o \in Owners /\ cpu # o)
       /\ []<>(cpu = s) /\ []<>(cpu = t)

Holder == IF Owners = {} THEN NULL ELSE CHOOSE t \in Thread : t \in Owners

Abstract == INSTANCE LockSpec WITH Actor <- Thread, holder <- Holder

\* Up to such a preemption the counter implements a lock with one holder:
\* every step takes it, releases it or leaves it alone.
ImplementsLock ==
  Abstract!Init /\ [][~raced' => [Abstract!Next]_Holder]_vars
=============================================================================
