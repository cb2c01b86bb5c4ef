---------------------------- MODULE MutexProofs ----------------------------
(***************************************************************************)
(* Proofs about Mutex.tla: as long as no thread loses the core between the *)
(* test and the increment the counter is a lock, for every set of threads  *)
(* and every order of the ready list.                                      *)
(***************************************************************************)
EXTENDS Mutex, FiniteSetTheorems, TLAPS

\* At most one thread owns the mutex, the counter says whether there is one,
\* and a thread that has passed the test is still on the core, with no owner.
LockInv ==
  /\ pc \in [Thread -> Place]
  /\ \A s, t \in Owners : s = t
  /\ Owners = {} => sgrt_atc = 0
  /\ Owners # {} => sgrt_atc = 1
  /\ \A t \in Thread : pc[t] = "inc" => cpu = t /\ Owners = {}

IInv == ~raced => LockInv

\* The first states satisfy the invariant.
LEMMA InitInv == Init => IInv
BY DEF Init, IInv, LockInv, Owners, Place

\* Changes that keep the owners and bring no thread past the test.
LEMMA QuietStep ==
  ASSUME LockInv, pc' \in [Thread -> Place], Owners' = Owners,
         sgrt_atc' = sgrt_atc,
         \A t \in Thread : pc'[t] = "inc" => cpu' = t /\ Owners = {}
  PROVE  LockInv'
BY DEF LockInv

\* A step that is not an atomic_inc or atomic_dec does not change the owners.
LEMMA SameOwners ==
  ASSUME LockInv, NEW t \in Thread, NEW p \in Place, pc' = [pc EXCEPT ![t] = p],
         t \in Owners <=> p \in {"cs", "slept", "dec"}
  PROVE  Owners' = Owners /\ pc' \in [Thread -> Place]
BY DEF LockInv, Owners

\* Every step of a thread preserves the invariant.
LEMMA ThreadInv ==
  ASSUME LockInv, NEW t \in Thread, ThreadStep(t)
  PROVE  LockInv'
<1>1. CASE Call(t)
  <2>1. PICK p \in {"lock", "try"} : Goto(t, p)
    BY <1>1 DEF Call
  <2>2. Owners' = Owners /\ pc' \in [Thread -> Place]
    BY <2>1, <1>1, SameOwners DEF Call, At, Goto, Place, Owners
  <2> QED
    BY <1>1, <2>1, <2>2, QuietStep DEF Call, Goto, LockInv
<1>2. CASE Wait(t)
  <2>1. Owners' = Owners /\ pc' = pc /\ sgrt_atc' = sgrt_atc
    BY <1>2 DEF Wait, Owners
  <2>2. \A s \in Thread : pc[s] # "inc"
    BY <1>2 DEF Wait, At, LockInv
  <2> QED
    BY <2>1, <2>2, QuietStep DEF LockInv
<1>3. CASE Test(t)
  <2>1. Owners = {}
    BY <1>3 DEF Test, mutex_is_locked, LockInv
  <2>2. Owners' = Owners /\ pc' \in [Thread -> Place]
    BY <1>3, SameOwners DEF Test, At, Goto, Place, Owners
  <2>3. \A s \in Thread : pc'[s] = "inc" => cpu' = s
    BY <1>3 DEF Test, At, Goto, LockInv
  <2> QED
    BY <1>3, <2>1, <2>2, <2>3, QuietStep DEF Test
<1>4. CASE TryTest(t)
  <2>1. CASE mutex_is_locked
    <3>1. Goto(t, "out") /\ At(t, "try") /\ UNCHANGED <<sgrt_atc, cpu>>
      BY <1>4, <2>1 DEF TryTest
    <3>2. Owners' = Owners /\ pc' \in [Thread -> Place]
      BY <3>1, SameOwners DEF At, Goto, Place, Owners
    <3> QED
      BY <3>1, <3>2, QuietStep DEF Goto, LockInv
  <2>2. CASE ~mutex_is_locked
    <3>1. Goto(t, "inc") /\ At(t, "try") /\ UNCHANGED <<sgrt_atc, cpu>>
      BY <1>4, <2>2 DEF TryTest
    <3>2. Owners = {}
      BY <2>2 DEF mutex_is_locked, LockInv
    <3>3. Owners' = Owners /\ pc' \in [Thread -> Place]
      BY <3>1, SameOwners DEF At, Goto, Place, Owners
    <3>4. \A s \in Thread : pc'[s] = "inc" => cpu' = s
      BY <3>1 DEF At, Goto, LockInv
    <3> QED
      BY <3>1, <3>2, <3>3, <3>4, QuietStep
  <2> QED
    BY <2>1, <2>2
<1>5. CASE AtomicInc(t)
  <2>1. Owners = {} /\ sgrt_atc = 0
    BY <1>5 DEF AtomicInc, At, LockInv
  <2>2. Owners' = {t} /\ pc' \in [Thread -> Place]
    BY <1>5, <2>1 DEF AtomicInc, Goto, Owners, Place, LockInv
  <2>3. sgrt_atc' = 1
    BY <1>5, <2>1 DEF AtomicInc
  <2>4. \A s \in Thread : pc'[s] # "inc"
    BY <1>5 DEF AtomicInc, At, Goto, LockInv
  <2> QED
    BY <2>2, <2>3, <2>4 DEF LockInv
<1>6. CASE UnlockTest(t)
  <2>1. t \in Owners /\ sgrt_atc = 1
    BY <1>6 DEF UnlockTest, At, Owners, LockInv
  <2>2. Goto(t, "dec") /\ UNCHANGED <<sgrt_atc, cpu>>
    BY <1>6, <2>1 DEF UnlockTest, mutex_is_locked
  <2>3. Owners' = Owners /\ pc' \in [Thread -> Place]
    BY <2>1, <2>2, SameOwners DEF Goto, Place
  <2> QED
    BY <2>2, <2>3, QuietStep DEF Goto, LockInv
<1>7. CASE AtomicDec(t)
  <2>1. t \in Owners /\ sgrt_atc = 1
    BY <1>7 DEF AtomicDec, At, Owners, LockInv
  <2>2. Owners' = {} /\ pc' \in [Thread -> Place]
    BY <1>7, <2>1 DEF AtomicDec, Goto, Owners, Place, LockInv
  <2>3. sgrt_atc' = 0
    BY <1>7, <2>1 DEF AtomicDec
  <2>4. \A s \in Thread : pc'[s] # "inc"
    BY <1>7, <2>1 DEF AtomicDec, Goto, LockInv
  <2> QED
    BY <2>2, <2>3, <2>4 DEF LockInv
<1>8. CASE Sleep(t)
  <2>1. \A s \in Thread : pc[s] # "inc"
    BY <1>8 DEF Sleep, LockInv
  <2>2. PICK p \in {"asleep", "slept"} :
          Goto(t, p) /\ (p = "slept" <=> pc[t] = "cs")
    BY <1>8 DEF Sleep
  <2>3. Owners' = Owners /\ pc' \in [Thread -> Place]
    BY <1>8, <2>2, SameOwners DEF Sleep, Goto, Place, Owners
  <2> QED
    BY <1>8, <2>1, <2>2, <2>3, QuietStep DEF Sleep, Goto, LockInv
<1>9. CASE WaitEvent(t) \/ Event(t)
  <2>1. PICK p \in {"poll", "out"} : Goto(t, p)
    BY <1>9 DEF WaitEvent, Event
  <2>2. Owners' = Owners /\ pc' \in [Thread -> Place]
    BY <2>1, <1>9, SameOwners DEF WaitEvent, Event, At, Goto, Place, Owners
  <2> QED
    BY <1>9, <2>1, <2>2, QuietStep DEF WaitEvent, Event, Goto, LockInv
<1>10. CASE Poll(t)
  <2>1. Owners' = Owners /\ pc' = pc /\ sgrt_atc' = sgrt_atc
    BY <1>10 DEF Poll, Owners
  <2>2. \A s \in Thread : pc[s] # "inc"
    BY <1>10 DEF Poll, At, LockInv
  <2> QED
    BY <2>1, <2>2, QuietStep DEF LockInv
<1> QED
  BY <1>1, <1>2, <1>3, <1>4, <1>5, <1>6, <1>7, <1>8, <1>9, <1>10 DEF ThreadStep

\* A thread that wakes up owns what it owned before.
LEMMA WakeInv ==
  ASSUME LockInv, NEW t \in Thread, Wake(t)
  PROVE  LockInv' /\ Owners' = Owners
<1>1. PICK p \in {"out", "cs"} : Goto(t, p) /\ (p = "cs" <=> pc[t] = "slept")
  BY DEF Wake
<1>2. Owners' = Owners /\ pc' \in [Thread -> Place]
  BY <1>1, SameOwners DEF Wake, Goto, Place, Owners
<1> QED
  BY <1>1, <1>2, QuietStep DEF Wake, Goto, LockInv

\* A preemption outside the window between test and increment finds no
\* thread in it.
LEMMA PreemptInv ==
  ASSUME LockInv, PreemptThread, ~raced'
  PROVE  LockInv' /\ Owners' = Owners
<1>1. \A s \in Thread : pc[s] # "inc"
  BY DEF PreemptThread, LockInv
<1>2. Owners' = Owners /\ pc' = pc /\ sgrt_atc' = sgrt_atc
  BY DEF PreemptThread, Owners
<1> QED
  BY <1>1, <1>2, QuietStep DEF LockInv

\* Once raced, a behaviour stays so.
LEMMA RacedStays == [Next]_vars /\ ~raced' => ~raced
BY DEF Next, vars, ThreadStep, Call, Wait, Test, TryTest, AtomicInc,
       UnlockTest, AtomicDec, Sleep, WaitEvent, Poll, Event, Wake,
       PreemptThread

\* Every step preserves the invariant.
LEMMA StepInv == IInv /\ [Next]_vars => IInv'
<1> SUFFICES ASSUME IInv, [Next]_vars, ~raced' PROVE LockInv'
  BY DEF IInv
<1>1. LockInv
  BY RacedStays DEF IInv
<1>2. CASE \E t \in Thread : ThreadStep(t) \/ Wake(t)
  BY <1>1, <1>2, ThreadInv, WakeInv
<1>3. CASE PreemptThread
  BY <1>1, <1>3, PreemptInv
<1>4. CASE UNCHANGED vars
  BY <1>1, <1>4 DEF vars, LockInv, Owners
<1> QED
  BY <1>2, <1>3, <1>4 DEF Next

\* The inductive invariant holds in every reachable state.
THEOREM Invariance == Spec => []IInv
BY InitInv, StepInv, PTL DEF Spec

\* Two threads own the mutex of mutex_lock at once only if one of them lost
\* the core between its test and its increment.
THEOREM Exclusion == Spec => []ExclusiveUnlessRaced
<1>1. IInv => ExclusiveUnlessRaced
  BY DEF IInv, LockInv, ExclusiveUnlessRaced, MutualExclusion
<1> QED
  BY <1>1, Invariance, PTL

\* Only atomic_inc and atomic_dec change the holder, and they change it as a
\* lock with one holder does.
LEMMA StepRefines ==
  ASSUME LockInv, ~raced', [Next]_vars
  PROVE  [Abstract!Next]_Holder
<1>1. CASE \E t \in Thread : AtomicInc(t)
  <2>1. PICK t \in Thread : AtomicInc(t)
    BY <1>1
  <2>2. Owners = {}
    BY <2>1 DEF AtomicInc, At, LockInv
  <2>3. Owners' = {t}
    BY <2>1, <2>2 DEF AtomicInc, Goto, Owners, LockInv
  <2>4. Holder = NULL
    BY <2>2 DEF Holder
  <2>5. Holder' = t
    BY <2>3 DEF Holder
  <2> QED
    BY <2>4, <2>5 DEF Abstract!Next, Abstract!Acquire
<1>2. CASE \E t \in Thread : AtomicDec(t)
  <2>1. PICK t \in Thread : AtomicDec(t)
    BY <1>2
  <2>2. Owners = {t}
    BY <2>1 DEF AtomicDec, At, Owners, LockInv
  <2>3. Owners' = {}
    BY <2>1, <2>2 DEF AtomicDec, Goto, Owners, LockInv
  <2>4. Holder = t
    BY <2>2 DEF Holder
  <2>5. Holder' = NULL
    BY <2>3 DEF Holder
  <2> QED
    BY <2>4, <2>5 DEF Abstract!Next, Abstract!Release
<1>3. CASE ~\E t \in Thread : AtomicInc(t) \/ AtomicDec(t)
  <2>1. Owners' = Owners
    <3>1. CASE UNCHANGED vars
      BY <3>1 DEF vars, Owners
    <3>2. CASE \E t \in Thread : Wake(t)
      BY <3>2, WakeInv
    <3>3. CASE \E t \in Thread : ThreadStep(t)
      <4>1. PICK t \in Thread : ThreadStep(t)
        BY <3>3
      <4>2. CASE UnlockTest(t)
        <5>1. pc[t] = "cs" /\ Goto(t, "dec")
          BY <4>2 DEF UnlockTest, At, mutex_is_locked, Owners, LockInv
        <5> QED
          BY <5>1 DEF Goto, Owners, LockInv
      <4>3. CASE Call(t) \/ Wait(t) \/ Test(t) \/ TryTest(t)
        BY <4>3 DEF Call, Wait, Test, TryTest, At, Goto, Owners, LockInv
      <4>4. CASE Sleep(t)
        BY <4>4 DEF Sleep, Goto, Owners, LockInv
      <4>5. CASE WaitEvent(t) \/ Poll(t) \/ Event(t)
        BY <4>5 DEF WaitEvent, Poll, Event, At, Goto, Owners, LockInv
      <4> QED
        BY <4>1, <4>2, <4>3, <4>4, <4>5, <1>3 DEF ThreadStep
    <3>4. CASE PreemptThread
      BY <3>4 DEF PreemptThread, Owners
    <3> QED
      BY <3>1, <3>2, <3>3, <3>4 DEF Next
  <2>2. Holder' = Holder
    BY <2>1 DEF Holder
  <2> QED
    BY <2>2
<1> QED
  BY <1>1, <1>2, <1>3

\* Up to such a preemption the mutex implements a lock with one holder.
THEOREM Refinement == Spec => ImplementsLock
<1>1. Init => Abstract!Init
  BY DEF Init, Abstract!Init, Holder, Owners
<1>2. IInv /\ [Next]_vars => (~raced' => [Abstract!Next]_Holder)
  BY RacedStays, StepRefines DEF IInv
<1>3. IInv /\ [Next]_vars => [~raced' => [Abstract!Next]_Holder]_vars
  BY <1>2
<1> QED
  BY <1>1, <1>3, Invariance, PTL DEF Spec, ImplementsLock

-----------------------------------------------------------------------------
(* The count of the owners, whatever was preempted where *)

CountInv == pc \in [Thread -> Place] /\ OwnersCounted

\* The owners are finitely many.
LEMMA OwnersFinite == IsFiniteSet(Owners) /\ Cardinality(Owners) \in Nat
<1>1. IsFiniteSet(Owners)
  BY MutexAssumption, FS_Subset DEF Owners
<1> QED
  BY <1>1, FS_CardinalityType

\* Moving between two places that are both in the section, or both outside.
LEMMA SameCount ==
  ASSUME CountInv, NEW t \in Thread, NEW p \in Place, pc' = [pc EXCEPT ![t] = p],
         t \in Owners <=> p \in {"cs", "slept", "dec"}, sgrt_atc' = sgrt_atc
  PROVE  CountInv'
<1>1. Owners' = Owners /\ pc' \in [Thread -> Place]
  BY DEF CountInv, Owners
<1> QED
  BY <1>1 DEF CountInv, OwnersCounted

\* mutex_unlock finds its own count: it never returns without a decrement.
LEMMA UnlockCount ==
  ASSUME CountInv, NEW t \in Thread, UnlockTest(t)
  PROVE  CountInv'
<1>1. t \in Owners
  BY DEF UnlockTest, At, Owners
<1>2. sgrt_atc # 0
  BY <1>1, OwnersFinite, FS_EmptySet DEF CountInv, OwnersCounted
<1>3. pc' = [pc EXCEPT ![t] = "dec"] /\ sgrt_atc' = sgrt_atc
  BY <1>2 DEF UnlockTest, Goto, mutex_is_locked
<1> QED
  BY <1>1, <1>3, SameCount DEF Place

\* Every step of a thread keeps the count.
LEMMA ThreadCount ==
  ASSUME CountInv, NEW t \in Thread, ThreadStep(t)
  PROVE  CountInv'
<1>1. CASE Call(t)
  BY <1>1, SameCount DEF Call, At, Goto, Place, Owners
<1>2. CASE Wait(t)
  BY <1>2 DEF Wait, CountInv, OwnersCounted, Owners
<1>3. CASE Test(t)
  BY <1>3, SameCount DEF Test, At, Goto, Place, Owners
<1>4. CASE TryTest(t)
  BY <1>4, SameCount DEF TryTest, At, Goto, Place, Owners
<1>5. CASE AtomicInc(t)
  <2>1. /\ pc[t] = "inc" /\ pc' = [pc EXCEPT ![t] = "cs"]
        /\ sgrt_atc' = sgrt_atc + 1
    BY <1>5 DEF AtomicInc, At, Goto
  <2>2. t \notin Owners /\ Owners' = Owners \cup {t} /\ pc' \in [Thread -> Place]
    BY <2>1 DEF CountInv, Owners, Place
  <2>3. Cardinality(Owners') = Cardinality(Owners) + 1
    BY <2>2, OwnersFinite, FS_AddElement
  <2> QED
    BY <2>1, <2>2, <2>3 DEF CountInv, OwnersCounted
<1>6. CASE AtomicDec(t)
  <2>1. /\ pc[t] = "dec" /\ pc' = [pc EXCEPT ![t] = "out"]
        /\ sgrt_atc' = sgrt_atc - 1
    BY <1>6 DEF AtomicDec, At, Goto
  <2>2. t \in Owners /\ Owners' = Owners \ {t} /\ pc' \in [Thread -> Place]
    BY <2>1 DEF CountInv, Owners, Place
  <2>3. Cardinality(Owners') = Cardinality(Owners) - 1
    BY <2>2, OwnersFinite, FS_RemoveElement
  <2> QED
    BY <2>1, <2>2, <2>3 DEF CountInv, OwnersCounted
<1>7. CASE Sleep(t)
  <2>1. /\ pc[t] \in {"out", "cs"} /\ sgrt_atc' = sgrt_atc
        /\ pc' = [pc EXCEPT ![t] = IF pc[t] = "out" THEN "asleep" ELSE "slept"]
    BY <1>7 DEF Sleep, Goto
  <2> QED
    BY <2>1, SameCount DEF Place, Owners
<1>8. CASE WaitEvent(t) \/ Event(t)
  BY <1>8, SameCount DEF WaitEvent, Event, At, Goto, Place, Owners
<1>9. CASE Poll(t)
  BY <1>9 DEF Poll, CountInv, OwnersCounted, Owners
<1> QED
  BY <1>1, <1>2, <1>3, <1>4, <1>5, <1>6, <1>7, <1>8, <1>9, UnlockCount
  DEF ThreadStep

\* mutex_lock, mutex_unlock: the counter is the number of owners in every
\* reachable state, after a race between test and increment too.
THEOREM Counted == Spec => []OwnersCounted
<1>1. Init => CountInv
  <2> SUFFICES ASSUME Init PROVE CountInv
    OBVIOUS
  <2>1. Owners = {} /\ pc \in [Thread -> Place] /\ sgrt_atc = 0
    BY DEF Init, Owners, Place
  <2> QED
    BY <2>1, FS_EmptySet DEF CountInv, OwnersCounted
<1>2. CountInv /\ [Next]_vars => CountInv'
  <2> SUFFICES ASSUME CountInv, [Next]_vars PROVE CountInv'
    OBVIOUS
  <2>1. ASSUME NEW t \in Thread, Wake(t) PROVE CountInv'
    <3>1. /\ pc[t] \in {"asleep", "slept"} /\ sgrt_atc' = sgrt_atc
          /\ pc' = [pc EXCEPT ![t] = IF pc[t] = "asleep" THEN "out" ELSE "cs"]
      BY <2>1 DEF Wake, Goto
    <3> QED
      BY <3>1, SameCount DEF Place, Owners
  <2>2. CASE PreemptThread
    BY <2>2 DEF PreemptThread, CountInv, OwnersCounted, Owners
  <2>3. CASE UNCHANGED vars
    BY <2>3 DEF vars, CountInv, OwnersCounted, Owners
  <2> QED
    BY <2>1, <2>2, <2>3, ThreadCount DEF Next
<1>3. CountInv => OwnersCounted
  BY DEF CountInv
<1> QED
  BY <1>1, <1>2, <1>3, PTL DEF Spec
=============================================================================
