----------------------- MODULE SpinLockMemPoolProofs ------------------------
(***************************************************************************)
(* Proofs about SpinLock.tla and about MemPool.tla, whose operations run   *)
(* under such a lock.  For every number of threads: a lock that no         *)
(* interrupt handler takes excludes, and implements LockSpec.  For every   *)
(* size of the pool and of a header and all sizes of requests: up to the   *)
(* first kfree that merges into a wrong block, the blocks of the list tile *)
(* the pool, kmalloc hands out memory that nobody holds, and it fails only *)
(* when there is no run of free words that is long enough.                 *)
(***************************************************************************)
EXTENDS SpinLock, MemPool, WellFoundedInduction, NaturalsInduction, TLAPS

-----------------------------------------------------------------------------
(* SpinLock.tla *)

\* Preemption is disabled while the code on the core is in one of these places.
Disabled(p) == p \in {"inc", "save", "mask", "cs", "dec", "enable"}

\* Where a thread can lose the core: outside of the stretch in which preemption
\* is disabled.  Before the flag is read it takes an enabled interrupt.
Outside == {"out", "spin", "try", "disable", "unmask", "restore", "clear"}
OffCore == \A t \in Thread :
  t # cpu => pc[t] \in Outside /\ (pc[t] = "restore" => psr[t])

\* The counters follow the place of the thread on the core.
Counters ==
  /\ preempt_cnt = IF Disabled(pc[cpu]) THEN 1 ELSE 0
  /\ sgrt_atc = IF Owns(cpu) THEN 1 ELSE 0

\* In a section of an irq variant, interrupts go by the nested sections so far.
Masked ==
  /\ pc[cpu] = "save" => mode[cpu] = "irqsave"
  /\ pc[cpu] = "mask" => mode[cpu] # "plain"
  /\ pc[cpu] \in {"save", "mask"} => ~odd
  /\ pc[cpu] = "cs" /\ mode[cpu] # "plain" => (irq_on \/ in_isr <=> odd)

\* The saved flag is that of the thread on the core until it is read, unless it
\* is given away with interrupts enabled.
Saved ==
  /\ pc[cpu] \in {"mask", "cs", "dec", "enable"} /\ mode[cpu] = "irqsave" =>
       flag = ~entry[cpu]
  /\ pc[cpu] = "restore" => flag = ~entry[cpu] \/ irq_on \/ in_isr

IInv == TypeOK /\ pc[ISR] = "out" /\ OffCore /\ Counters /\ Masked /\ Saved

\* The initial state satisfies the invariant.
LEMMA InitInv == Init => IInv
<1> SUFFICES ASSUME Init PROVE IInv
  OBVIOUS
<1>1. TypeOK /\ pc[ISR] = "out"
  BY DEF Init, TypeOK, Actor, Place, Mode
<1>2. cpu \in Actor /\ \A a \in Actor : pc[a] = "out"
  BY DEF Init, Actor
<1>3. OffCore /\ Counters /\ Masked /\ Saved
  BY <1>2 DEF Init, OffCore, Outside, Counters, Masked, Saved, Disabled, Owns, Actor
<1> QED  BY <1>1, <1>3 DEF IInv

\* A step of a thread through spin_lock and spin_unlock keeps the invariant.
LEMMA LockStepInv ==
  ASSUME IInv, NEW t \in Thread, LockStep(t)
  PROVE  IInv'
<1>1. /\ TypeOK /\ pc[ISR] = "out" /\ OffCore /\ Counters /\ Masked /\ Saved
      /\ t \in Actor /\ ISR \in Actor /\ t # ISR /\ ISR \notin Thread
  BY SpinAssumption DEF IInv, Actor
<1>2. /\ Runs(t) /\ UNCHANGED <<cpu, in_isr, psr>>
  BY DEF LockStep, Call, Spin, Try, PreemptDisable, AtomicInc, SaveFlag,
         MaskIrq, Nested, Leave, AtomicDec, PreemptEnable, UnmaskIrq, RestoreIrq,
         ClearFlag, At, Core
<1>3. cpu = t /\ ~in_isr
  BY <1>1, <1>2 DEF Runs, TypeOK
<1>4. PICK p \in Place : pc' = [pc EXCEPT ![t] = p]
  BY <1>1 DEF TypeOK, LockStep, Call, Spin, Try, PreemptDisable, AtomicInc, SaveFlag,
         MaskIrq, Nested, Leave, AtomicDec, PreemptEnable, UnmaskIrq, RestoreIrq,
         ClearFlag, Goto, Place
<1>5. /\ pc'[t] = p /\ \A a \in Actor : a # t => pc'[a] = pc[a]
      /\ pc' \in [Actor -> Place]
  BY <1>1, <1>4 DEF TypeOK
<1>6. pc'[ISR] = "out" /\ OffCore'
  BY <1>1, <1>2, <1>3, <1>5 DEF OffCore, Actor
<1>7. TypeOK'
  <2>1. sgrt_atc' \in Nat /\ preempt_cnt' \in Nat
    BY <1>1, <1>3 DEF LockStep, Call, Spin, Try, PreemptDisable, AtomicInc,
       SaveFlag, MaskIrq, Nested, Leave, AtomicDec, PreemptEnable, UnmaskIrq,
       RestoreIrq, ClearFlag, At, TypeOK, Counters, Disabled, Owns
  <2>2. /\ flag' \in BOOLEAN /\ irq_on' \in BOOLEAN
        /\ mode' \in [Actor -> Mode] /\ entry' \in [Actor -> BOOLEAN]
        /\ odd' \in BOOLEAN
    BY <1>1, <1>3 DEF LockStep, Call, Spin, Try, PreemptDisable, AtomicInc,
       SaveFlag, MaskIrq, Nested, Leave, AtomicDec, PreemptEnable, UnmaskIrq,
       RestoreIrq, ClearFlag, At, TypeOK
  <2> QED  BY <1>1, <1>2, <1>5, <2>1, <2>2 DEF TypeOK
<1>8. Counters'
  BY <1>1, <1>2, <1>3, <1>5
     DEF LockStep, Call, Spin, Try, PreemptDisable, AtomicInc, SaveFlag,
         MaskIrq, Nested, Leave, AtomicDec, PreemptEnable, UnmaskIrq, RestoreIrq,
         ClearFlag, At, Goto, TypeOK, Counters, Disabled, Owns, Mode
<1>9. Masked'
  BY <1>1, <1>2, <1>3, <1>5
     DEF LockStep, Call, Spin, Try, PreemptDisable, AtomicInc, SaveFlag,
         MaskIrq, Nested, Leave, AtomicDec, PreemptEnable, UnmaskIrq, RestoreIrq,
         ClearFlag, At, Goto, TypeOK, Masked, Mode
<1>10. Saved'
  BY <1>1, <1>2, <1>3, <1>5
     DEF LockStep, Call, Spin, Try, PreemptDisable, AtomicInc, SaveFlag,
         MaskIrq, Nested, Leave, AtomicDec, PreemptEnable, UnmaskIrq, RestoreIrq,
         ClearFlag, At, Goto, TypeOK, Saved, Mode
<1> QED  BY <1>6, <1>7, <1>8, <1>9, <1>10 DEF IInv

\* An interrupt, its return and a voluntary switch keep the invariant: the
\* core only changes hands where the count is zero.
LEMMA CoreStepInv ==
  ASSUME IInv, IrqEnter \/ IrqReturn \/ Yield
  PROVE  IInv'
<1>1. TypeOK /\ pc[ISR] = "out" /\ OffCore /\ Counters /\ Masked /\ Saved
  BY DEF IInv
<1>2. CASE IrqEnter
  BY <1>1, <1>2 DEF IrqEnter, IInv, TypeOK, OffCore, Counters, Masked, Saved,
                    Owns
<1>3. CASE IrqReturn \/ Yield
  <2>1. /\ UNCHANGED <<sgrt_atc, flag, preempt_cnt, pc, mode, entry>>
        /\ cpu' \in Thread /\ in_isr' = FALSE
        /\ cpu' # cpu => preempt_cnt = 0
        /\ psr' \in [Thread -> BOOLEAN] /\ irq_on' = psr'[cpu']
        /\ pc[cpu] = "out" \/ (in_isr /\ psr'[cpu])
        /\ \A t \in Thread : t # cpu => psr'[t] = psr[t]
        /\ odd' = odd
    <3>1. CASE IrqReturn
      <4>1. PICK t \in Thread : /\ t # cpu => preempt_cnt = 0
                                /\ cpu' = t
                                /\ psr' = [psr EXCEPT ![cpu] = TRUE]
                                /\ irq_on' = psr'[t]
        BY <3>1 DEF IrqReturn
      <4> QED  BY <1>1, <3>1, <4>1 DEF IrqReturn, TypeOK
    <3>2. CASE Yield
      <4>1. PICK t \in Thread, i \in BOOLEAN :
                   /\ cpu' = t
                   /\ psr' = [psr EXCEPT ![cpu] = i]
                   /\ irq_on' = psr'[t]
        BY <3>2 DEF Yield
      <4>2. pc[cpu] = "out" /\ preempt_cnt = 0
        BY <1>1, <3>2 DEF Yield, At, Counters, Disabled
      <4>3. ~in_isr
        BY <1>1, <3>2, SpinAssumption DEF Yield, At, Runs, TypeOK
      <4> QED  BY <1>1, <3>2, <4>1, <4>2, <4>3 DEF Yield, TypeOK
    <3> QED  BY <1>3, <3>1, <3>2
  <2>2. TypeOK'
    BY <1>1, <2>1 DEF TypeOK
  <2>3. CASE cpu' = cpu
    <3>1. OffCore' /\ Counters'
      BY <1>1, <2>1, <2>3 DEF OffCore, Counters, Owns
    <3>2. Masked' /\ Saved'
      BY <1>1, <2>1, <2>3 DEF Masked, Saved, TypeOK
    <3> QED  BY <1>1, <2>1, <2>2, <3>1, <3>2 DEF IInv
  <2>4. CASE cpu' # cpu
    <3>1. pc[cpu] \in Outside
      BY <1>1, <2>1, <2>4 DEF TypeOK, Place, Counters, Disabled, Outside, Actor
    <3>2. pc[cpu'] \in Outside
      BY <1>1, <2>1, <2>4 DEF OffCore
    <3>3. OffCore'
      BY <1>1, <2>1, <2>4, <3>1 DEF OffCore, TypeOK
    <3>4. pc[cpu'] = "restore" => irq_on'
      BY <1>1, <2>1, <2>4 DEF OffCore
    <3>5. Counters'
      BY <1>1, <2>1, <2>4, <3>1, <3>2 DEF Counters, Owns, Disabled, Outside
    <3>6. Masked' /\ Saved'
      BY <2>1, <3>2, <3>4 DEF Masked, Saved, Outside
    <3> QED  BY <1>1, <2>1, <2>2, <3>3, <3>5, <3>6 DEF IInv
  <2> QED  BY <2>3, <2>4
<1> QED  BY <1>2, <1>3

\* Every step keeps the invariant when no handler takes the lock.
LEMMA StepInv == ~IsrLocks /\ IInv /\ [Next]_vars => IInv'
<1> SUFFICES ASSUME ~IsrLocks, IInv, [Next]_vars PROVE IInv'
  OBVIOUS
<1>1. CASE UNCHANGED vars
  BY <1>1 DEF vars, IInv, TypeOK, OffCore, Counters, Masked, Saved, Owns
<1>2. CASE \E t \in Thread : LockStep(t)
  BY <1>2, LockStepInv
<1>3. CASE IrqEnter \/ IrqReturn \/ Yield
  BY <1>3, CoreStepInv
<1> QED  BY <1>1, <1>2, <1>3 DEF Next, Caller

\* The invariant holds in every reachable state of such a lock.
THEOREM Invariance == ~IsrLocks => (Spec => []IInv)
<1> SUFFICES ASSUME ~IsrLocks PROVE Spec => []IInv
  OBVIOUS
<1>1. IInv /\ [Next]_vars => IInv'
  BY StepInv
<1> QED  BY <1>1, InitInv, PTL DEF Spec

\* Two threads never own the lock, and the counter shows the owner: the test
\* and the increment of spin_lock are two steps, and still exclude.
THEOREM Exclusion == ~IsrLocks => (Spec => []MutualExclusion)
<1>1. ASSUME IInv PROVE MutualExclusion
  <2>1. \A a \in Actor : Owns(a) => a = cpu
    BY <1>1 DEF IInv, OffCore, Outside, Owns, Actor
  <2>2. sgrt_atc = IF Owns(cpu) THEN 1 ELSE 0
    BY <1>1 DEF IInv, Counters
  <2>3. cpu \in Actor
    BY <1>1 DEF IInv, TypeOK, Actor
  <2> QED  BY <2>1, <2>2, <2>3 DEF MutualExclusion
<1> QED  BY <1>1, Invariance, PTL

\* The loop of spin_lock never turns on a thread: the owner keeps the core.
THEOREM SpinFree == ~IsrLocks => (Spec => []NeverSpins)
<1>1. IInv => NeverSpins
  BY DEF IInv, Counters, Owns, NeverSpins, spin_is_locked
<1> QED  BY <1>1, Invariance, PTL

\* A section entered with an irq variant keeps the core, and interrupts are on in
\* it exactly after an odd number of nested sections.
THEOREM MaskedSection == ~IsrLocks => (Spec => []SectionMasked)
<1>1. ASSUME IInv PROVE SectionMasked
  <2>1. SUFFICES ASSUME NEW a \in Thread, pc[a] = "cs", mode[a] # "plain"
                 PROVE  a = cpu /\ (irq_on \/ in_isr <=> odd)
    BY DEF SectionMasked
  <2>2. a = cpu
    BY <1>1, <2>1 DEF IInv, OffCore, Outside
  <2> QED  BY <1>1, <2>1, <2>2 DEF IInv, Masked
<1> QED  BY <1>1, Invariance, PTL

\* Where the flag matters, spin_unlock_irqrestore reads what its caller saved.
THEOREM OwnFlag == ~IsrLocks => (Spec => []FlagIsOwn)
<1>1. ASSUME IInv PROVE FlagIsOwn
  <2>1. SUFFICES ASSUME NEW a \in Actor, At(a, "restore"), ~irq_on
                 PROVE  flag = ~entry[a]
    BY DEF FlagIsOwn
  <2>2. a = cpu /\ ~in_isr
    BY <1>1, <2>1 DEF IInv, At, Runs
  <2> QED  BY <1>1, <2>1, <2>2 DEF IInv, Saved, At
<1> QED  BY <1>1, Invariance, PTL

-----------------------------------------------------------------------------
(* Refinement *)

\* The abstract holder is the thread on the core when it owns the lock.
LEMMA HolderIs == IInv => Holder = IF Owns(cpu) THEN cpu ELSE NULL
<1> SUFFICES ASSUME IInv PROVE Holder = IF Owns(cpu) THEN cpu ELSE NULL
  OBVIOUS
<1>1. \A a \in Actor : Owns(a) => a = cpu
  BY DEF IInv, OffCore, Outside, Owns, Actor
<1>2. cpu \in Actor
  BY DEF IInv, TypeOK, Actor
<1> QED  BY <1>1, <1>2 DEF Holder

\* The same in the next state.
LEMMA HolderNext == (IInv => Holder = IF Owns(cpu) THEN cpu ELSE NULL)'
  BY HolderIs, PTL

\* A step of a thread takes the lock, gives it back or leaves the owner alone.
LEMMA LockStepAbstract ==
  ASSUME IInv, IInv', NEW t \in Thread, LockStep(t)
  PROVE  [Abstract!Next]_Holder
<1>1. /\ TypeOK /\ t \in Actor /\ t # NULL
      /\ Holder = IF Owns(cpu) THEN cpu ELSE NULL
      /\ Holder' = IF Owns(cpu)' THEN cpu' ELSE NULL
  BY HolderIs, HolderNext, SpinAssumption DEF IInv, Actor
<1>2. Runs(t) /\ UNCHANGED <<cpu, in_isr, psr>>
  BY DEF LockStep, Call, Spin, Try, PreemptDisable, AtomicInc, SaveFlag,
         MaskIrq, Nested, Leave, AtomicDec, PreemptEnable, UnmaskIrq, RestoreIrq,
         ClearFlag, At, Core
<1>3. cpu = t
  BY <1>1, <1>2, SpinAssumption DEF Runs, TypeOK
<1>4. CASE AtomicInc(t)
  <2>1. ~Owns(t) /\ Owns(t)'
    BY <1>1, <1>4 DEF AtomicInc, At, Goto, Owns, TypeOK
  <2>2. Abstract!Acquire(t)
    BY <1>1, <1>2, <1>3, <2>1 DEF Abstract!Acquire
  <2> QED  BY <1>1, <2>2 DEF Abstract!Next
<1>5. CASE AtomicDec(t)
  <2>1. Owns(t) /\ ~Owns(t)'
    BY <1>1, <1>5 DEF AtomicDec, At, Goto, Owns, TypeOK
  <2>2. Abstract!Release(t)
    BY <1>1, <1>2, <1>3, <2>1 DEF Abstract!Release
  <2> QED  BY <1>1, <2>2 DEF Abstract!Next
<1>6. CASE ~AtomicInc(t) /\ ~AtomicDec(t)
  <2>1. Owns(t)' <=> Owns(t)
    BY <1>1, <1>6 DEF LockStep, Call, Spin, Try, PreemptDisable, SaveFlag,
       MaskIrq, Nested, Leave, PreemptEnable, UnmaskIrq, RestoreIrq, ClearFlag, At,
       Goto, Owns, TypeOK
  <2>2. Holder' = Holder
    BY <1>1, <1>2, <1>3, <2>1
  <2> QED  BY <2>2
<1> QED  BY <1>4, <1>5, <1>6

\* An interrupt and a change of thread leave the owner alone.
LEMMA CoreStepAbstract ==
  ASSUME IInv, IInv', IrqEnter \/ IrqReturn \/ Yield
  PROVE  Holder' = Holder
<1>1. /\ TypeOK /\ OffCore /\ Counters
      /\ Holder = IF Owns(cpu) THEN cpu ELSE NULL
      /\ Holder' = IF Owns(cpu)' THEN cpu' ELSE NULL
  BY HolderIs, HolderNext DEF IInv
<1>2. pc' = pc
  BY DEF IrqEnter, IrqReturn, Yield
<1>3. CASE cpu' = cpu
  BY <1>1, <1>2, <1>3 DEF Owns
<1>4. CASE cpu' # cpu
  <2>1. cpu' \in Thread /\ preempt_cnt = 0
    BY <1>1, <1>4 DEF IrqEnter, IrqReturn, Yield, At, Counters, Disabled
  <2>2. ~Owns(cpu)
    BY <1>1, <2>1 DEF Counters, Disabled, Owns
  <2>3. ~Owns(cpu)'
    BY <1>1, <1>2, <1>4, <2>1 DEF OffCore, Outside, Owns
  <2> QED  BY <1>1, <2>2, <2>3
<1> QED  BY <1>3, <1>4

\* The spin lock of spinlock.c implements a lock with one holder: atomic_inc
\* acquires, atomic_dec releases, every other step is invisible.
THEOREM Refinement == ~IsrLocks => (Spec => ImplementsLock)
<1> SUFFICES ASSUME ~IsrLocks PROVE Spec => ImplementsLock
  OBVIOUS
<1>1. Init => Abstract!Init
  BY DEF Init, Abstract!Init, Holder, Owns
<1>2. IInv /\ IInv' /\ [Next]_vars => [Abstract!Next]_Holder
  <2> SUFFICES ASSUME IInv, IInv', [Next]_vars PROVE [Abstract!Next]_Holder
    OBVIOUS
  <2>1. CASE UNCHANGED vars
    BY <2>1 DEF vars, Holder, Owns
  <2>2. CASE \E t \in Thread : LockStep(t)
    BY <2>2, LockStepAbstract
  <2>3. CASE IrqEnter \/ IrqReturn \/ Yield
    BY <2>3, CoreStepAbstract
  <2> QED  BY <2>1, <2>2, <2>3 DEF Next, Caller
<1> QED  BY <1>1, <1>2, Invariance, PTL DEF Spec, ImplementsLock, Abstract!Spec

-----------------------------------------------------------------------------
(* MemPool.tla *)

\* Where a block begins, where it ends, and whether a piece of it is held.
Heads == {a \in Addr : block[a] # mrt_nullptr}
End(a) == a + block[a].lenth
InUse(a) == block[a].remain < block[a].lenth

\* What the header h of a block that begins at a must say when blocks begin at
\* S: the block ends where the next one on the list begins and reaches into no
\* other, only the first has no predecessor, and only the first can be idle.
Linked(h, a, S) ==
  /\ a + h.lenth <= POOL /\ h.remain <= h.lenth
  /\ IF a + h.lenth = POOL THEN h.sprt_next = mrt_nullptr
     ELSE h.sprt_next = a + h.lenth /\ a + h.lenth \in S
  /\ h.sprt_prev = mrt_nullptr <=> a = sprt_mem
  /\ a # sprt_mem => h.remain < h.lenth
  /\ h.remain < h.lenth => h.lenth - h.remain >= H
  /\ \A c \in S : a < c => a + h.lenth <= c

\* The blocks tile the pool.  Only the first can be idle, since a block that is
\* freed goes into its predecessor; this is why kfree never meets an idle block
\* behind the freed one.
ChainInv == \A a \in Heads : Linked(block[a], a, Heads)

\* The pieces handed out are the front parts of the blocks in use.
LiveInv ==
  live = {[ptr |-> a + H, len |-> Offset(a) - H] : a \in {h \in Heads : InUse(h)}}

PoolInv ==
  /\ block \in [Addr -> Headers \cup {mrt_nullptr}]
  /\ sprt_mem \in Heads
  /\ ChainInv
  /\ LiveInv

PoolIInv == ~misled => PoolInv

\* A non-empty set of numbers has a least element.
LEMMA Least ==
  ASSUME NEW S, S \subseteq Nat, S # {}
  PROVE  \E m \in S : \A y \in S : m <= y
<1>1. PICK m \in S : \A y \in S : ~(<<y, m>> \in OpToRel(<, Nat))
  BY WFMin, NatLessThanWellFounded
<1>2. \A y \in S : ~(y < m)
  <2> SUFFICES ASSUME NEW y \in S, y < m PROVE FALSE
    OBVIOUS
  <2>1. y \in Nat /\ m \in Nat
    OBVIOUS
  <2>2. <<y, m>> \in OpToRel(<, Nat)
    BY <2>1 DEF OpToRel
  <2> QED  BY <1>1, <2>2
<1>3. \A y \in S : y \in Nat /\ m \in Nat
  OBVIOUS
<1>4. \A y \in S : m <= y
  BY <1>2, <1>3
<1> QED  BY <1>4

\* The recursion that Nth solves on 0..k.
After(b) == IF b = mrt_nullptr THEN mrt_nullptr ELSE block[b].sprt_next
IsWalk(g, k) == g = [i \in 0..k |-> IF i = 0 THEN sprt_mem ELSE After(g[i - 1])]

\* It has a solution: a least k without one would extend that of k - 1.
LEMMA WalkExists == \E g : IsWalk(g, POOL)
<1> DEFINE S == {k \in Nat : ~\E g : IsWalk(g, k)}
<1> SUFFICES ASSUME S # {} PROVE FALSE
  BY MemPoolAssumption
<1>1. PICK k \in S : \A y \in S : k <= y
  <2> HIDE DEF S
  <2>1. S \subseteq Nat
    BY DEF S
  <2> QED  BY <2>1, Least
<1>2. k # 0
  <2> DEFINE g == [i \in 0..0 |-> sprt_mem]
  <2>1. IsWalk(g, 0)
    BY DEF IsWalk
  <2> QED  BY <2>1
<1>3. PICK g : IsWalk(g, k - 1)
  <2>1. k - 1 \in Nat /\ ~(k <= k - 1)
    BY <1>2
  <2> QED  BY <1>1, <2>1
<1> DEFINE h == [i \in 0..k |-> IF i = k THEN After(g[k - 1]) ELSE g[i]]
<1>4. IsWalk(h, k)
  <2>1. ASSUME NEW i \in 0..k
        PROVE  h[i] = IF i = 0 THEN sprt_mem ELSE After(h[i - 1])
    <3>1. CASE i = k
      <4>1. h[i] = After(g[k - 1]) /\ h[i - 1] = g[k - 1]
        BY <1>2, <3>1
      <4> QED  BY <1>2, <3>1, <4>1
    <3>2. CASE i # k
      <4>1. i \in 0..(k - 1) /\ h[i] = g[i]
        BY <3>2
      <4>2. i # 0 => h[i - 1] = g[i - 1]
        BY <3>2
      <4>3. g[i] = IF i = 0 THEN sprt_mem ELSE After(g[i - 1])
        BY <4>1, <1>3 DEF IsWalk
      <4> QED  BY <4>1, <4>2, <4>3
    <3> QED  BY <3>1, <3>2
  <2> QED  BY <2>1 DEF IsWalk
<1> QED  BY <1>4

\* Nth is that solution.
LEMMA NthWalk == IsWalk(Nth, POOL)
<1>1. Nth = CHOOSE g : IsWalk(g, POOL)
  BY DEF Nth, IsWalk, After
<1> QED  BY <1>1, WalkExists

\* The chain, in terms of where blocks end and what is held of them.
LEMMA ChainFacts ==
  ASSUME PoolInv, NEW a \in Heads
  PROVE  /\ End(a) <= POOL /\ block[a].remain <= block[a].lenth
         /\ IF End(a) = POOL THEN block[a].sprt_next = mrt_nullptr
            ELSE block[a].sprt_next = End(a) /\ End(a) \in Heads
         /\ block[a].sprt_prev = mrt_nullptr <=> a = sprt_mem
         /\ a # sprt_mem => InUse(a)
         /\ InUse(a) => Offset(a) >= H
         /\ \A c \in Heads : a < c => End(a) <= c
<1>1. Linked(block[a], a, Heads)
  BY DEF PoolInv, ChainInv
<1> QED  BY <1>1 DEF Linked, End, InUse, Offset

\* A header that is not written stays right when the places where blocks begin
\* change from S to T without touching its block.
LEMMA LinkKept ==
  ASSUME NEW h, NEW a, NEW S, NEW T, Linked(h, a, S),
         a + h.lenth \in S => a + h.lenth \in T,
         \A c \in T \ S : a < c => a + h.lenth <= c
  PROVE  Linked(h, a, T)
BY DEF Linked

\* One header is written.
LEMMA Updated ==
  ASSUME NEW f \in [Addr -> Headers \cup {mrt_nullptr}], NEW b \in Addr,
         NEW h \in Headers \cup {mrt_nullptr}, NEW g, g = [f EXCEPT ![b] = h]
  PROVE  /\ g \in [Addr -> Headers \cup {mrt_nullptr}] /\ g[b] = h
         /\ \A a \in Addr \ {b} : g[a] = f[a]
OBVIOUS

\* What a header in the list says.
LEMMA HeadFacts ==
  ASSUME PoolInv, NEW a \in Heads
  PROVE  /\ a \in Nat /\ a < POOL /\ POOL \in Nat /\ H \in Nat /\ H > 0
         /\ block[a] \in Headers
         /\ block[a].lenth \in Nat /\ block[a].lenth > 0
         /\ block[a].remain \in Nat /\ block[a].remain <= block[a].lenth
         /\ End(a) \in Nat /\ End(a) > a /\ End(a) <= POOL
         /\ End(a) < POOL => block[a].sprt_next = End(a) /\ End(a) \in Heads
         /\ End(a) = POOL => block[a].sprt_next = mrt_nullptr
<1>1. a \in Nat /\ a < POOL /\ POOL \in Nat /\ H \in Nat /\ H > 0
  BY MemPoolAssumption DEF Heads, Addr
<1>2. block[a] \in Headers
  BY DEF PoolInv, Heads
<1>3. block[a].lenth \in 1..POOL /\ block[a].remain \in 0..POOL
  BY <1>2 DEF Headers
<1>4. End(a) = a + block[a].lenth
  BY DEF End
<1> QED  BY <1>1, <1>2, <1>3, <1>4, ChainFacts

\* Every word of the pool lies in a block of the list.
LEMMA Covered ==
  ASSUME PoolInv, NEW x \in Addr
  PROVE  \E c \in Heads : c <= x /\ x < End(c)
<1> DEFINE D == {d \in Nat : d <= x /\ x - d \in Heads}
<1>1. x \in D
  BY MemPoolAssumption DEF PoolInv, Addr, sprt_mem
<1>2. PICK d \in D : \A y \in D : d <= y
  <2>1. D \subseteq Nat /\ D # {}
    BY <1>1
  <2> HIDE DEF D
  <2> QED  BY <2>1, Least
<1> DEFINE c == x - d
<1>3. c \in Heads /\ c <= x /\ c \in Nat /\ x \in Nat /\ x < POOL
  BY <1>2, MemPoolAssumption DEF Addr
<1>4. SUFFICES ASSUME End(c) <= x PROVE FALSE
  BY <1>3, HeadFacts
<1>5. End(c) \in Heads /\ End(c) > c /\ End(c) \in Nat
  BY <1>3, <1>4, HeadFacts
<1>6. x - End(c) \in D /\ x - End(c) < d
  BY <1>3, <1>4, <1>5
<1> QED  BY <1>2, <1>6

\* The walk visits headers in ascending order.
LEMMA WalkInHeads ==
  ASSUME PoolInv
  PROVE  \A i \in 0..POOL : Nth[i] # mrt_nullptr => Nth[i] \in Heads /\ Nth[i] >= i
<1> DEFINE S == {i \in 0..POOL : ~(Nth[i] # mrt_nullptr => Nth[i] \in Heads /\ Nth[i] >= i)}
<1> SUFFICES ASSUME S # {} PROVE FALSE
  OBVIOUS
<1>1. PICK k \in S : \A y \in S : k <= y
  <2>1. S \subseteq Nat
    BY MemPoolAssumption
  <2> HIDE DEF S
  <2> QED  BY <2>1, Least
<1>2. k \in 0..POOL /\ Nth[k] # mrt_nullptr
  OBVIOUS
<1>3. k # 0
  BY NthWalk, <1>1, MemPoolAssumption DEF IsWalk, PoolInv, sprt_mem
<1>4. k - 1 \in 0..POOL /\ k - 1 \notin S
  BY <1>1, <1>2, <1>3, MemPoolAssumption
<1>5. Nth[k] = After(Nth[k - 1])
  BY NthWalk, <1>2, <1>3 DEF IsWalk
<1> DEFINE b == Nth[k - 1]
<1>6. b \in Heads /\ b >= k - 1 /\ Nth[k] = block[b].sprt_next
  BY <1>2, <1>4, <1>5 DEF After
<1>7. Nth[k] = End(b) /\ End(b) \in Heads /\ End(b) > b /\ b \in Nat /\ End(b) \in Nat
  <2> HIDE DEF b
  <2> QED  BY <1>2, <1>6, HeadFacts
<1> QED  BY <1>1, <1>2, <1>6, <1>7, MemPoolAssumption

\* The list holds every block, and nothing else.
LEMMA ListIsHeads ==
  ASSUME PoolInv
  PROVE  /\ List = Heads
         /\ \A a \in Heads : \E i \in 0..POOL : Nth[i] = a
<1>1. List \subseteq Heads
  BY WalkInHeads DEF List
<1> DEFINE S == {a \in Heads : \A i \in 0..POOL : Nth[i] # a}
<1>2. S = {}
  <2> SUFFICES ASSUME S # {} PROVE FALSE
    OBVIOUS
  <2>1. PICK a \in S : \A y \in S : a <= y
    <3>1. S \subseteq Nat
      BY MemPoolAssumption DEF Heads, Addr
    <3> HIDE DEF S
    <3> QED  BY <3>1, Least
  <2>2. a \in Heads /\ a \in Nat /\ a < POOL
    BY HeadFacts
  <2>3. a # 0
    <3>1. Nth[0] = sprt_mem /\ 0 \in 0..POOL
      BY NthWalk, MemPoolAssumption DEF IsWalk
    <3> QED  BY <3>1 DEF sprt_mem
  <2>4. PICK c \in Heads : c <= a - 1 /\ a - 1 < End(c)
    <3>1. a - 1 \in Addr
      BY <2>2, <2>3, MemPoolAssumption DEF Addr
    <3> QED  BY <3>1, Covered
  <2>5. End(c) = a /\ c < a /\ c \in Nat
    <3>1. c \in Nat /\ c < a /\ End(c) \in Nat
      BY <2>2, <2>4, HeadFacts
    <3>2. End(c) <= a
      BY <2>2, <3>1, ChainFacts
    <3> QED  BY <2>2, <2>4, <3>1, <3>2
  <2>6. PICK i \in 0..POOL : Nth[i] = c
    BY <2>1, <2>2, <2>5
  <2>7. c # mrt_nullptr /\ c >= i
    BY <2>5, <2>6, <2>2, WalkInHeads, MemPoolAssumption
  <2>8. i + 1 \in 0..POOL /\ i + 1 # 0 /\ (i + 1) - 1 = i
    BY <2>2, <2>5, <2>7, MemPoolAssumption
  <2>9. Nth[i + 1] = After(Nth[i])
    BY NthWalk, <2>8 DEF IsWalk
  <2>10. Nth[i + 1] = a
    BY <2>2, <2>5, <2>6, <2>7, <2>9, HeadFacts DEF After
  <2> QED  BY <2>8, <2>10
<1>3. mrt_nullptr \notin Heads
  BY MemPoolAssumption DEF Heads, Addr
<1> QED  BY <1>1, <1>2, <1>3 DEF List

\* memory_simple_block_create: one idle block that is the whole pool.
LEMMA PoolInitInv == PoolInit => PoolIInv
<1> SUFFICES ASSUME PoolInit PROVE PoolInv
  BY DEF PoolIInv
<1> DEFINE first == Header(POOL, POOL, mrt_nullptr, mrt_nullptr)
<1>1. first \in Headers /\ first # mrt_nullptr
  BY MemPoolAssumption DEF Header, Headers
<1>2. block = [a \in Addr |-> IF a = sprt_mem THEN first ELSE mrt_nullptr]
  BY DEF PoolInit
<1>3. sprt_mem \in Addr
  BY MemPoolAssumption DEF sprt_mem, Addr
<1>4. Heads = {sprt_mem} /\ block[sprt_mem] = first
  BY <1>1, <1>2, <1>3 DEF Heads
<1>5. first.lenth = POOL /\ first.remain = POOL
      /\ first.sprt_prev = mrt_nullptr /\ first.sprt_next = mrt_nullptr
  BY DEF Header
<1>6. ChainInv
  BY <1>4, <1>5, MemPoolAssumption DEF ChainInv, Linked, sprt_mem
<1>7. {h \in Heads : InUse(h)} = {}
  BY <1>4, <1>5, MemPoolAssumption DEF InUse
<1>8. LiveInv
  BY <1>7 DEF LiveInv, PoolInit
<1>9. block \in [Addr -> Headers \cup {mrt_nullptr}]
  BY <1>1, <1>2
<1> QED  BY <1>4, <1>6, <1>8, <1>9 DEF PoolInv

\* What alloc_spare_simple_memory finds.
LEMMA FitFacts ==
  ASSUME PoolInv, NEW n \in Sizes, Fits(n) # {}
  PROVE  FirstFit(n) \in Heads /\ block[FirstFit(n)].remain >= n + H
<1>1. Fits(n) \subseteq Nat
  BY MemPoolAssumption DEF Fits
<1>2. PICK k \in Fits(n) : \A j \in Fits(n) : k <= j
  BY <1>1, Least
<1> DEFINE i == CHOOSE i \in Fits(n) : \A j \in Fits(n) : i <= j
<1>3. i \in Fits(n)
  BY <1>2
<1>4. FirstFit(n) = Nth[i]
  BY DEF FirstFit
<1> HIDE DEF i
<1>5. i \in 0..POOL /\ Nth[i] # mrt_nullptr /\ block[Nth[i]].remain >= n + H
  BY <1>3 DEF Fits
<1> QED  BY <1>4, <1>5, WalkInHeads

\* The header of one block is rewritten: no block comes or goes, and the others
\* are as before.
LEMMA Rewritten ==
  ASSUME PoolInv, NEW b \in Heads, NEW hdr \in Headers,
         block' = [block EXCEPT ![b] = hdr]
  PROVE  /\ block' \in [Addr -> Headers \cup {mrt_nullptr}] /\ block'[b] = hdr
         /\ Heads' = Heads
         /\ \A a \in Heads \ {b} :
              /\ block'[a] = block[a]
              /\ (InUse(a)' <=> InUse(a)) /\ Offset(a)' = Offset(a)
<1>1. b \in Addr /\ block \in [Addr -> Headers \cup {mrt_nullptr}]
      /\ hdr # mrt_nullptr
  BY MemPoolAssumption DEF Heads, PoolInv
<1>2. /\ block' \in [Addr -> Headers \cup {mrt_nullptr}] /\ block'[b] = hdr
      /\ \A a \in Addr \ {b} : block'[a] = block[a]
  BY <1>1, Updated
<1>3. Heads' = Heads
  BY <1>1, <1>2 DEF Heads
<1>4. \A a \in Heads \ {b} : block'[a] = block[a]
  BY <1>2 DEF Heads
<1>5. \A a \in Heads \ {b} : (InUse(a)' <=> InUse(a)) /\ Offset(a)' = Offset(a)
  BY <1>4 DEF InUse, Offset
<1> QED  BY <1>2, <1>3, <1>4, <1>5

\* The chain survives when the new header keeps the length and the links, and
\* says either that nothing is held of the first block or that a piece with its
\* header is.
LEMMA ChainRewritten ==
  ASSUME PoolInv, NEW b \in Heads, NEW hdr \in Headers,
         block' = [block EXCEPT ![b] = hdr],
         hdr.lenth = block[b].lenth, hdr.sprt_prev = block[b].sprt_prev,
         hdr.sprt_next = block[b].sprt_next, hdr.remain <= hdr.lenth,
         b # sprt_mem => hdr.remain < hdr.lenth,
         hdr.remain < hdr.lenth => hdr.lenth - hdr.remain >= H
  PROVE  ChainInv'
<1>1. /\ Heads' = Heads /\ block'[b] = hdr
      /\ \A a \in Heads \ {b} : block'[a] = block[a]
  BY Rewritten
<1>2. \A a \in Heads : Linked(block[a], a, Heads)
  BY DEF PoolInv, ChainInv
<1>3. Linked(hdr, b, Heads)
  <2>1. Linked(block[b], b, Heads)
    BY <1>2
  <2> QED  BY <2>1 DEF Linked
<1>4. \A a \in Heads : Linked(block'[a], a, Heads)
  BY <1>1, <1>2, <1>3
<1> QED  BY <1>1, <1>4 DEF ChainInv

\* A piece of the idle first block.
LEMMA MallocWhole ==
  ASSUME PoolInv, NEW n \in Sizes, NEW b \in Heads, NEW hdr,
         Offset(b) = 0, block[b].remain >= n + H,
         hdr = [block[b] EXCEPT !.remain = @ - (n + H)],
         block' = [block EXCEPT ![b] = hdr],
         live' = live \cup {[ptr |-> b + H, len |-> n]}
  PROVE  PoolInv'
<1>1. n \in Nat /\ H \in Nat /\ H > 0 /\ POOL \in Nat
  BY MemPoolAssumption
<1>2. /\ block[b] \in Headers /\ block[b].lenth \in 1..POOL
      /\ block[b].remain = block[b].lenth
  BY HeadFacts DEF Offset, Headers
<1>3. /\ hdr \in Headers
      /\ hdr.lenth = block[b].lenth /\ hdr.sprt_next = block[b].sprt_next
      /\ hdr.sprt_prev = block[b].sprt_prev /\ hdr.remain = block[b].lenth - (n + H)
  BY <1>1, <1>2 DEF Headers
<1>4. /\ hdr.remain < hdr.lenth /\ hdr.remain <= hdr.lenth
      /\ hdr.lenth - hdr.remain = n + H /\ n + H >= H
  BY <1>1, <1>2, <1>3
<1>5. ChainInv'
  BY <1>3, <1>4, ChainRewritten
<1>6. /\ block' \in [Addr -> Headers \cup {mrt_nullptr}] /\ block'[b] = hdr
      /\ Heads' = Heads
      /\ \A a \in Heads \ {b} : (InUse(a)' <=> InUse(a)) /\ Offset(a)' = Offset(a)
  BY <1>3, Rewritten
<1>7. InUse(b)' /\ Offset(b)' = n + H
  BY <1>4, <1>6 DEF InUse, Offset
<1>8. ~InUse(b)
  BY <1>2 DEF InUse
<1>9. LiveInv'
  <2> DEFINE f(a) == [ptr |-> a + H, len |-> Offset(a) - H]
             U == {h \in Heads : InUse(h)}
             V == {h \in Heads : InUse(h)'}
  <2>1. V = U \cup {b} /\ b \notin U
    BY <1>6, <1>7, <1>8
  <2>2. \A a \in U : [ptr |-> a + H, len |-> Offset(a)' - H] = f(a)
    BY <1>6, <2>1
  <2>3. [ptr |-> b + H, len |-> Offset(b)' - H] = [ptr |-> b + H, len |-> n]
    BY <1>1, <1>7
  <2>4. live = {f(a) : a \in U}
    BY DEF PoolInv, LiveInv
  <2>5. live' = {[ptr |-> a + H, len |-> Offset(a)' - H] : a \in V}
    <3> HIDE DEF U, V
    <3> QED  BY <2>1, <2>2, <2>3, <2>4
  <2> QED  BY <1>6, <2>5 DEF LiveInv
<1> QED  BY <1>5, <1>6, <1>9 DEF PoolInv, sprt_mem

\* The rest of a block in use becomes a block of its own: x is its header, and
\* y the one of the block it is taken from.
LEMMA MallocRest ==
  ASSUME PoolInv, NEW n \in Sizes, NEW b \in Heads, NEW new, NEW x, NEW y,
         new = b + Offset(b), new # b, block[b].remain >= n + H,
         x = Header(block[b].remain, block[b].remain - (n + H), b,
                    block[b].sprt_next),
         y = Header(Offset(b), 0, block[b].sprt_prev, new),
         block' = [block EXCEPT ![new] = x, ![b] = y],
         live' = live \cup {[ptr |-> new + H, len |-> n]}
  PROVE  PoolInv'
<1>1. n \in Nat /\ H \in Nat /\ H > 0 /\ POOL \in Nat
  BY MemPoolAssumption
<1>2. b \in Addr /\ block[b] \in Headers /\ block \in [Addr -> Headers \cup {mrt_nullptr}]
  BY HeadFacts DEF Heads, PoolInv
<1>3. /\ new \in Nat /\ b \in Nat /\ b < new /\ new < End(b) /\ End(b) <= POOL
      /\ Offset(b) \in 1..POOL /\ Offset(b) = block[b].lenth - block[b].remain
      /\ block[b].remain \in 1..POOL /\ block[b].remain - (n + H) \in 0..POOL
      /\ new + block[b].remain = End(b) /\ End(b) \in Nat
      /\ b + Offset(b) = new
  BY <1>1, HeadFacts DEF Offset, End
<1>4. new \in Addr
  BY <1>1, <1>3 DEF Addr
<1>5. new \notin Heads
  BY <1>3, ChainFacts
<1>6. /\ x.lenth = block[b].remain /\ x.remain = block[b].remain - (n + H)
      /\ x.sprt_prev = b /\ x.sprt_next = block[b].sprt_next
      /\ y.lenth = Offset(b) /\ y.remain = 0
      /\ y.sprt_prev = block[b].sprt_prev /\ y.sprt_next = new
  BY DEF Header
<1>7. x \in Headers /\ y \in Headers /\ x # mrt_nullptr /\ y # mrt_nullptr
  <2>1. block[b].sprt_prev \in Addr \cup {mrt_nullptr}
        /\ block[b].sprt_next \in Addr \cup {mrt_nullptr}
    BY <1>2 DEF Headers
  <2>2. x \in Headers /\ y \in Headers
    BY <1>1, <1>2, <1>3, <1>4, <2>1 DEF Header, Headers
  <2> QED  BY <2>2, MemPoolAssumption
<1>8. block' \in [Addr -> Headers \cup {mrt_nullptr}] /\ block'[b] = y /\ block'[new] = x
      /\ \A a \in Addr \ {b, new} : block'[a] = block[a]
  <2>1. PICK g : g = [block EXCEPT ![new] = x]
    OBVIOUS
  <2>2. /\ g \in [Addr -> Headers \cup {mrt_nullptr}] /\ g[new] = x
        /\ \A a \in Addr \ {new} : g[a] = block[a]
    BY <1>2, <1>4, <1>7, <2>1, Updated
  <2>3. block' = [g EXCEPT ![b] = y]
    BY <2>1
  <2> QED  BY <1>2, <1>4, <1>7, <2>2, <2>3, Updated
<1>9. Heads' = Heads \cup {new}
  <2>1. \A a \in Addr : block'[a] # mrt_nullptr <=> (block[a] # mrt_nullptr \/ a = new)
    BY <1>7, <1>8 DEF Heads
  <2> QED  BY <1>4, <2>1 DEF Heads
<1>10. \A a \in Heads \ {b} : block'[a] = block[a]
  BY <1>5, <1>8 DEF Heads
<1>11. \A a \in Heads \ {b} : (InUse(a)' <=> InUse(a)) /\ Offset(a)' = Offset(a)
  BY <1>10 DEF InUse, Offset
<1>12. InUse(b) /\ Offset(b) >= H
  <2>1. InUse(b)
    BY <1>3, HeadFacts DEF InUse
  <2> QED  BY <2>1, ChainFacts
<1>13. InUse(b)' /\ Offset(b)' = Offset(b)
  BY <1>3, <1>6, <1>8 DEF InUse, Offset
<1>14. InUse(new)' /\ Offset(new)' = n + H
  <2>1. x.remain < x.lenth /\ x.lenth - x.remain = n + H
    BY <1>1, <1>3, <1>6
  <2> QED  BY <1>8, <2>1 DEF InUse, Offset
<1>15. Linked(y, b, Heads \cup {new})
  <2>1. \A c \in Heads \cup {new} : b < c => new <= c
    <3> SUFFICES ASSUME NEW c \in Heads, b < c PROVE new <= c
      BY <1>3
    <3>1. End(b) <= c /\ c \in Nat
      BY HeadFacts, ChainFacts
    <3> QED  BY <1>3, <3>1
  <2>2. y.sprt_prev = mrt_nullptr <=> b = sprt_mem
    BY <1>6, ChainFacts
  <2>3. /\ b + y.lenth = new /\ new < POOL /\ y.remain < y.lenth
        /\ y.remain <= y.lenth /\ y.lenth - y.remain >= H
    BY <1>1, <1>3, <1>6, <1>12
  <2> QED  BY <1>1, <1>3, <1>6, <2>1, <2>2, <2>3 DEF Linked
<1>16. Linked(x, new, Heads \cup {new})
  <2>1. \A c \in Heads \cup {new} : new < c => End(b) <= c
    <3> SUFFICES ASSUME NEW c \in Heads, new < c PROVE End(b) <= c
      BY <1>3
    <3>1. c \in Nat
      BY HeadFacts
    <3>2. b < c
      BY <1>3, <3>1
    <3> QED  BY <3>2, ChainFacts
  <2>2. x.sprt_prev # mrt_nullptr /\ new # sprt_mem
    <3>1. b # mrt_nullptr
      BY <1>2, MemPoolAssumption DEF Addr
    <3> QED  BY <1>3, <1>6, <3>1 DEF sprt_mem
  <2>3. IF End(b) = POOL THEN x.sprt_next = mrt_nullptr
        ELSE x.sprt_next = End(b) /\ End(b) \in Heads
    BY <1>6, ChainFacts
  <2>4. /\ new + x.lenth = End(b) /\ x.remain < x.lenth
        /\ x.remain <= x.lenth /\ x.lenth - x.remain >= H
    BY <1>1, <1>3, <1>6
  <2> QED  BY <1>3, <2>1, <2>2, <2>3, <2>4 DEF Linked
<1>17. ASSUME NEW a \in Heads \ {b} PROVE Linked(block[a], a, Heads \cup {new})
  <2>1. ASSUME a < new PROVE End(a) <= new
    <3>1. a \in Nat /\ a # b
      BY HeadFacts
    <3>2. b < a => End(b) <= a
      BY ChainFacts
    <3>3. a < b
      BY <1>3, <2>1, <3>1, <3>2
    <3>4. End(a) <= b /\ End(a) \in Nat
      BY <3>3, HeadFacts, ChainFacts
    <3> QED  BY <1>3, <3>4
  <2>2. \A c \in (Heads \cup {new}) \ Heads : a < c => a + block[a].lenth <= c
    BY <2>1 DEF End
  <2>3. Linked(block[a], a, Heads)
    BY DEF PoolInv, ChainInv
  <2>4. a + block[a].lenth \in Heads => a + block[a].lenth \in Heads \cup {new}
    OBVIOUS
  <2> QED  BY <2>2, <2>3, <2>4, LinkKept
<1>18. ChainInv'
  <2>1. \A a \in Heads \cup {new} : Linked(block'[a], a, Heads \cup {new})
    BY <1>8, <1>10, <1>15, <1>16, <1>17
  <2> QED  BY <1>9, <2>1 DEF ChainInv
<1>19. LiveInv'
  <2> DEFINE f(a) == [ptr |-> a + H, len |-> Offset(a) - H]
             U == {h \in Heads : InUse(h)}
             V == {h \in Heads \cup {new} : InUse(h)'}
  <2>1. V = U \cup {new}
    BY <1>11, <1>12, <1>13, <1>14
  <2>2. \A a \in U : [ptr |-> a + H, len |-> Offset(a)' - H] = f(a)
    BY <1>11, <1>13
  <2>3. [ptr |-> new + H, len |-> Offset(new)' - H] = [ptr |-> new + H, len |-> n]
    BY <1>1, <1>14
  <2>4. live = {f(a) : a \in U}
    BY DEF PoolInv, LiveInv
  <2>5. live' = {[ptr |-> a + H, len |-> Offset(a)' - H] : a \in V}
    <3> HIDE DEF U, V
    <3> QED  BY <2>1, <2>2, <2>3, <2>4
  <2> QED  BY <1>9, <2>5 DEF LiveInv
<1> QED  BY <1>8, <1>9, <1>18, <1>19 DEF PoolInv, sprt_mem

\* The piece that begins behind the header b, and the other pieces.
LEMMA FreedPiece ==
  ASSUME PoolInv, NEW m \in live, NEW b, b = m.ptr - H
  PROVE  /\ b \in Heads /\ InUse(b)
         /\ live \ {m} = {[ptr |-> a + H, len |-> Offset(a) - H] :
                            a \in {h \in Heads : InUse(h)} \ {b}}
<1> DEFINE f(a) == [ptr |-> a + H, len |-> Offset(a) - H]
           U == {h \in Heads : InUse(h)}
<1>1. live = {f(a) : a \in U}
  BY DEF PoolInv, LiveInv
<1>2. PICK a \in U : m = f(a)
  BY <1>1
<1>3. \A c \in U : c \in Nat
  BY HeadFacts
<1>4. a = b
  BY <1>2, <1>3, MemPoolAssumption
<1>5. \A c \in U : f(c) = f(b) => c = b
  <2> SUFFICES ASSUME NEW c \in U, f(c) = f(b) PROVE c = b
    OBVIOUS
  <2>1. f(c).ptr = c + H /\ f(b).ptr = b + H
    OBVIOUS
  <2>2. c \in Nat /\ b \in Nat /\ H \in Nat
    BY <1>3, <1>4, MemPoolAssumption
  <2> HIDE DEF f
  <2> QED  BY <2>1, <2>2
<1>6. live \ {m} = {f(c) : c \in U \ {b}}
  <2> HIDE DEF f, U
  <2> QED  BY <1>1, <1>2, <1>4, <1>5
<1> QED  BY <1>4, <1>6

\* The block behind b is in use: free_employ_simple_memory never finds an
\* idle one there.
LEMMA NextInUse ==
  ASSUME PoolInv, NEW b \in Heads, block[b].sprt_next # mrt_nullptr
  PROVE  /\ block[b].sprt_next = End(b) /\ End(b) \in Heads
         /\ block[End(b)].lenth # block[End(b)].remain
<1>1. block[b].sprt_next = End(b) /\ End(b) \in Heads
  BY HeadFacts, ChainFacts
<1>2. b \in Nat /\ End(b) > b /\ End(b) \in Nat
  BY HeadFacts
<1>3. InUse(End(b))
  BY <1>1, <1>2, ChainFacts DEF sprt_mem
<1>4. block[End(b)].lenth \in Nat /\ block[End(b)].remain \in Nat
  BY <1>1, HeadFacts
<1> QED  BY <1>1, <1>3, <1>4 DEF InUse

\* The header of b with nothing held of it, the headers once b has it, and the
\* header of the block prev once b has gone into it.
Unheld(b) == [block[b] EXCEPT !.remain = block[b].lenth]
Idle(b) == [block EXCEPT ![b] = Unheld(b)]
Joined(b, prev) ==
  Header(block[prev].lenth + block[b].lenth, block[prev].remain + block[b].lenth,
         block[prev].sprt_prev, block[b].sprt_next)

LEMMA IdleForm ==
  ASSUME NEW b
  PROVE  Idle(b) = [block EXCEPT ![b].remain = block[b].lenth]
BY Zenon DEF Idle, Unheld

\* kfree looks for an idle block behind the freed one and finds none, whether
\* the freed one is the first of the list ...
LEMMA FirstFreed ==
  ASSUME PoolInv, NEW b \in Heads
  PROVE  NextMerged(Idle(b), b, block[b].sprt_next) = Idle(b)
<1>1. ASSUME NEW next, next = block[b].sprt_next, next # mrt_nullptr
      PROVE  Idle(b)[next].lenth # Idle(b)[next].remain
  <2>1. next = End(b) /\ next \in Heads /\ block[next].lenth # block[next].remain
    BY <1>1, NextInUse
  <2>2. next # b /\ next \in Addr
    BY <2>1, HeadFacts DEF Heads
  <2>3. Idle(b)[next] = block[next]
    BY <2>2 DEF PoolInv, Idle
  <2> QED  BY <2>1, <2>3
<1> QED  BY <1>1 DEF NextMerged

\* ... or goes into its predecessor.
LEMMA MergeFreed ==
  ASSUME PoolInv, NEW b \in Heads, NEW prev \in Heads, End(prev) = b
  PROVE  NextMerged(MergedInto(Idle(b), b, prev), prev, block[b].sprt_next)
           = [Idle(b) EXCEPT ![prev] = Joined(b, prev)]
<1>1. b \in Addr /\ prev \in Addr /\ b # prev /\ block[b] \in Headers
  BY HeadFacts DEF Heads
<1>2. DOMAIN block = Addr /\ DOMAIN Idle(b) = Addr
  BY DEF PoolInv, Idle
<1>3. Idle(b)[b] = Unheld(b) /\ \A a \in Addr \ {b} : Idle(b)[a] = block[a]
  BY <1>1, <1>2 DEF Idle
<1>4. /\ Unheld(b).lenth = block[b].lenth /\ Unheld(b).remain = block[b].lenth
      /\ Unheld(b).sprt_next = block[b].sprt_next
  BY <1>1 DEF Headers, Unheld
<1> DEFINE one == [Idle(b) EXCEPT ![prev] = Joined(b, prev)]
<1>5. MergedInto(Idle(b), b, prev) = one
  <2>1. /\ Idle(b)[b].lenth = block[b].lenth /\ Idle(b)[b].remain = block[b].lenth
        /\ Idle(b)[b].sprt_next = block[b].sprt_next /\ Idle(b)[prev] = block[prev]
    BY <1>1, <1>3, <1>4
  <2>2. Joined(b, prev) = Header(Idle(b)[prev].lenth + Idle(b)[b].lenth,
                                 Idle(b)[prev].remain + Idle(b)[b].remain,
                                 Idle(b)[prev].sprt_prev, Idle(b)[b].sprt_next)
    BY <2>1 DEF Joined
  <2> QED  BY <1>1, <1>2, <2>2 DEF MergedInto
<1>6. ASSUME NEW next, next = block[b].sprt_next, next # mrt_nullptr
      PROVE  one[next].lenth # one[next].remain
  <2>1. next = End(b) /\ next \in Heads /\ block[next].lenth # block[next].remain
    BY <1>6, NextInUse
  <2>2. next # b /\ next # prev /\ next \in Addr
    <3>1. /\ b \in Nat /\ prev \in Nat /\ End(b) \in Nat /\ End(prev) \in Nat
          /\ prev < End(prev) /\ b < End(b)
      BY HeadFacts
    <3> QED  BY <2>1, <3>1 DEF Heads
  <2>3. one[next] = Idle(b)[next] /\ Idle(b)[next] = block[next]
    BY <1>2, <1>3, <2>2
  <2> QED  BY <2>1, <2>3
<1> HIDE DEF one
<1>7. NextMerged(one, prev, block[b].sprt_next) = one
  BY <1>6 DEF NextMerged
<1> QED  BY <1>5, <1>7 DEF one

\* The first block becomes idle.
LEMMA FreeFirst ==
  ASSUME PoolInv, NEW m \in live, NEW b, b = m.ptr - H,
         block[b].sprt_prev = mrt_nullptr, block' = Idle(b), live' = live \ {m}
  PROVE  PoolInv'
<1> DEFINE hdr == Unheld(b)
<1>0. block' = [block EXCEPT ![b] = hdr]
  BY DEF Idle
<1>1. b \in Heads /\ InUse(b)
  BY FreedPiece
<1>2. block[b] \in Headers /\ block[b].lenth \in 1..POOL
  BY <1>1, HeadFacts DEF Headers
<1>3. /\ hdr \in Headers
      /\ hdr.lenth = block[b].lenth /\ hdr.sprt_next = block[b].sprt_next
      /\ hdr.sprt_prev = block[b].sprt_prev /\ hdr.remain = block[b].lenth
  BY <1>2, MemPoolAssumption DEF Headers, Unheld
<1> HIDE DEF hdr
<1>4. b = sprt_mem
  BY <1>1, ChainFacts
<1>5. hdr.remain <= hdr.lenth /\ ~(hdr.remain < hdr.lenth)
  BY <1>2, <1>3
<1>6. ChainInv'
  BY <1>0, <1>1, <1>3, <1>4, <1>5, ChainRewritten
<1>7. /\ block' \in [Addr -> Headers \cup {mrt_nullptr}] /\ block'[b] = hdr
      /\ Heads' = Heads
      /\ \A a \in Heads \ {b} : (InUse(a)' <=> InUse(a)) /\ Offset(a)' = Offset(a)
  BY <1>0, <1>1, <1>3, Rewritten
<1>8. ~InUse(b)'
  BY <1>5, <1>7 DEF InUse
<1>9. LiveInv'
  <2> DEFINE U == {h \in Heads : InUse(h)} \ {b}
  <2>1. {h \in Heads : InUse(h)'} = U
    BY <1>7, <1>8
  <2>2. live' = {[ptr |-> a + H, len |-> Offset(a) - H] : a \in U}
    BY FreedPiece
  <2>3. \A a \in U : Offset(a)' = Offset(a)
    BY <1>7
  <2>4. live' = {[ptr |-> a + H, len |-> Offset(a)' - H] : a \in U}
    <3> HIDE DEF U
    <3> QED  BY <2>2, <2>3
  <2> QED  BY <1>7, <2>1, <2>4 DEF LiveInv
<1> QED  BY <1>6, <1>7, <1>9 DEF PoolInv, sprt_mem

\* A block goes into its predecessor on the list.
LEMMA FreeMerge ==
  ASSUME PoolInv, NEW m \in live, NEW b, b = m.ptr - H, NEW prev \in Heads,
         block[prev].sprt_next = b,
         block' = [a \in Addr |-> block'[a]],
         block'[b] = mrt_nullptr, block'[prev] = Joined(b, prev),
         \A a \in Addr \ {b, prev} : block'[a] = block[a],
         live' = live \ {m}
  PROVE  PoolInv'
<1> DEFINE hdr == Joined(b, prev)
<1>1. b \in Heads /\ InUse(b)
  BY FreedPiece
<1>2. /\ b \in Addr /\ b \in Nat /\ prev \in Addr /\ prev \in Nat /\ POOL \in Nat
      /\ block[b] \in Headers /\ block[prev] \in Headers
      /\ block \in [Addr -> Headers \cup {mrt_nullptr}]
      /\ b # mrt_nullptr
  BY <1>1, HeadFacts, MemPoolAssumption DEF Heads, PoolInv, Addr
<1>3. /\ End(prev) = b /\ prev < b /\ b < End(b) /\ End(b) \in Nat /\ End(b) <= POOL
      /\ b # sprt_mem
  <2>1. End(prev) = b
    <3>1. End(prev) <= POOL /\ End(prev) \in Nat
      BY HeadFacts
    <3> QED  BY <1>2, <3>1, HeadFacts
  <2>2. prev < End(prev) /\ b < End(b) /\ End(b) \in Nat /\ End(b) <= POOL
    BY <1>1, HeadFacts
  <2> QED  BY <1>2, <2>1, <2>2 DEF sprt_mem
<1>4. /\ block[prev].lenth \in 1..POOL /\ block[prev].remain \in 0..POOL
      /\ block[b].lenth \in 1..POOL /\ block[prev].remain <= block[prev].lenth
      /\ block[prev].sprt_prev \in Addr \cup {mrt_nullptr}
      /\ block[b].sprt_next \in Addr \cup {mrt_nullptr}
  <2>1. block[prev].remain <= block[prev].lenth
    BY HeadFacts
  <2> QED  BY <1>2, <2>1 DEF Headers
<1>5. prev + (block[prev].lenth + block[b].lenth) = End(b)
  BY <1>2, <1>3, <1>4 DEF End
<1>6. /\ hdr.lenth = block[prev].lenth + block[b].lenth
      /\ hdr.remain = block[prev].remain + block[b].lenth
      /\ hdr.sprt_prev = block[prev].sprt_prev /\ hdr.sprt_next = block[b].sprt_next
  BY DEF Header, Joined
<1>7. hdr \in Headers /\ hdr # mrt_nullptr
  <2>1. /\ block[prev].lenth + block[b].lenth \in 1..POOL
        /\ block[prev].remain + block[b].lenth \in 0..POOL
    BY <1>2, <1>3, <1>4, <1>5
  <2>2. hdr \in Headers
    BY <1>4, <2>1 DEF Header, Headers, Joined
  <2> QED  BY <2>2, MemPoolAssumption
<1> HIDE DEF hdr
<1>8. block' \in [Addr -> Headers \cup {mrt_nullptr}]
  <2>1. \A a \in Addr : block'[a] \in Headers \cup {mrt_nullptr}
    BY <1>2, <1>7 DEF hdr
  <2> QED  BY <2>1
<1>9. Heads' = Heads \ {b}
  <2>1. prev # b /\ prev \in Heads
    BY <1>2, <1>3
  <2>2. \A a \in Addr : block'[a] # mrt_nullptr <=> (block[a] # mrt_nullptr /\ a # b)
    BY <1>2, <1>7, <2>1 DEF Heads, hdr
  <2> QED  BY <2>2 DEF Heads
<1>10. \A a \in Heads \ {b, prev} : block'[a] = block[a]
  BY DEF Heads
<1>11. \A a \in Heads \ {b, prev} : (InUse(a)' <=> InUse(a)) /\ Offset(a)' = Offset(a)
  BY <1>10 DEF InUse, Offset
<1>12. /\ hdr.remain < hdr.lenth <=> InUse(prev)
       /\ hdr.lenth - hdr.remain = Offset(prev) /\ hdr.remain <= hdr.lenth
       /\ prev + hdr.lenth = End(b)
  BY <1>4, <1>5, <1>6 DEF InUse, Offset
<1>13. (InUse(prev)' <=> InUse(prev)) /\ Offset(prev)' = Offset(prev)
  <2>1. block'[prev] = hdr
    BY DEF hdr
  <2>2. /\ InUse(prev)' <=> block'[prev].remain < block'[prev].lenth
        /\ Offset(prev)' = block'[prev].lenth - block'[prev].remain
    BY DEF InUse, Offset
  <2> QED  BY <1>12, <2>1, <2>2
<1>14. Linked(hdr, prev, Heads \ {b})
  <2>1. \A c \in Heads \ {b} : prev < c => End(b) <= c
    <3> SUFFICES ASSUME NEW c \in Heads \ {b}, prev < c PROVE End(b) <= c
      OBVIOUS
    <3>1. End(prev) <= c /\ c \in Nat
      BY HeadFacts, ChainFacts
    <3>2. b < c
      BY <1>2, <1>3, <3>1
    <3> QED  BY <1>1, <3>2, ChainFacts
  <2>2. IF End(b) = POOL THEN block[b].sprt_next = mrt_nullptr
        ELSE block[b].sprt_next = End(b) /\ End(b) \in Heads \ {b}
    BY <1>1, <1>2, <1>3, ChainFacts
  <2>3. /\ block[prev].sprt_prev = mrt_nullptr <=> prev = sprt_mem
        /\ prev # sprt_mem => InUse(prev)
        /\ InUse(prev) => Offset(prev) >= H
    BY ChainFacts
  <2> QED  BY <1>3, <1>6, <1>12, <2>1, <2>2, <2>3 DEF Linked
<1>15. ASSUME NEW a \in Heads \ {b, prev} PROVE Linked(block[a], a, Heads \ {b})
  <2>1. End(a) # b
    <3> SUFFICES ASSUME End(a) = b PROVE FALSE
      OBVIOUS
    <3>1. a \in Nat /\ a < b
      BY HeadFacts
    <3>2. a < prev => End(a) <= prev
      BY ChainFacts
    <3>3. prev < a => End(prev) <= a
      BY ChainFacts
    <3> QED  BY <1>2, <1>3, <3>1, <3>2, <3>3
  <2>2. Linked(block[a], a, Heads)
    BY DEF PoolInv, ChainInv
  <2>3. a + block[a].lenth \in Heads => a + block[a].lenth \in Heads \ {b}
    BY <2>1 DEF End
  <2>4. \A c \in (Heads \ {b}) \ Heads : a < c => a + block[a].lenth <= c
    OBVIOUS
  <2> QED  BY <2>2, <2>3, <2>4, LinkKept
<1>16. ChainInv'
  <2>1. \A a \in Heads \ {b} : Linked(block'[a], a, Heads \ {b})
    BY <1>10, <1>14, <1>15 DEF hdr
  <2> QED  BY <1>9, <2>1 DEF ChainInv
<1>17. LiveInv'
  <2> DEFINE U == {h \in Heads : InUse(h)} \ {b}
  <2>1. {h \in Heads \ {b} : InUse(h)'} = U
    BY <1>11, <1>13
  <2>2. live' = {[ptr |-> a + H, len |-> Offset(a) - H] : a \in U}
    BY FreedPiece
  <2>3. \A a \in U : Offset(a)' = Offset(a)
    BY <1>11, <1>13
  <2>4. live' = {[ptr |-> a + H, len |-> Offset(a)' - H] : a \in U}
    <3> HIDE DEF U
    <3> QED  BY <2>2, <2>3
  <2> QED  BY <1>9, <2>1, <2>4 DEF LiveInv
<1> QED  BY <1>3, <1>8, <1>9, <1>16, <1>17 DEF PoolInv, sprt_mem

\* kmalloc keeps the pool tiled.
LEMMA KmallocStep ==
  ASSUME PoolInv, NEW n \in Sizes, Kmalloc(n)
  PROVE  PoolInv'
<1>1. Fits(n) # {}
  BY DEF Kmalloc
<1>2. PICK b \in Heads : b = FirstFit(n)
  BY <1>1, FitFacts
<1>3. block[b].remain >= n + H
  BY <1>1, <1>2, FitFacts
<1>4. block' = Taken(b, n) /\ live' = live \cup {[ptr |-> b + Offset(b) + H, len |-> n]}
  BY <1>2 DEF Kmalloc, Piece
<1>5. PICK new : new = b + Offset(b)
  BY Zenon
<1>6. /\ b \in Nat /\ block[b].lenth \in Nat /\ block[b].remain \in Nat
      /\ H \in Nat /\ Offset(b) \in Int
  BY HeadFacts DEF Offset
<1>7. CASE new = b
  <2>1. Offset(b) = 0 /\ b + Offset(b) + H = b + H
    BY <1>5, <1>6, <1>7
  <2>2. PICK hdr : hdr = [block[b] EXCEPT !.remain = @ - (n + H)]
    BY Zenon
  <2>3. block' = [block EXCEPT ![b] = hdr]
    BY <1>4, <1>5, <1>7, <2>2 DEF Taken
  <2> QED  BY <1>3, <1>4, <2>1, <2>2, <2>3, MallocWhole
<1>8. CASE new # b
  <2>1. PICK x : x = Header(block[b].remain, block[b].remain - (n + H), b,
                            block[b].sprt_next)
    BY Zenon
  <2>2. PICK y : y = Header(Offset(b), 0, block[b].sprt_prev, new)
    BY Zenon
  <2>3. block' = [block EXCEPT ![new] = x, ![b] = Header(Offset(b), 0, @.sprt_prev, new)]
    BY <1>4, <1>5, <1>8, <2>1 DEF Taken
  <2>4. [block EXCEPT ![new] = x][b] = block[b]
    BY <1>8 DEF Heads, PoolInv
  <2>5. block' = [block EXCEPT ![new] = x, ![b] = y]
    BY <2>2, <2>3, <2>4
  <2>6. live' = live \cup {[ptr |-> new + H, len |-> n]}
    BY <1>4, <1>5
  <2> QED  BY <1>3, <1>5, <1>8, <2>1, <2>2, <2>5, <2>6, MallocRest
<1> QED  BY <1>7, <1>8

\* kfree keeps the pool tiled, up to the first merge into a block that is not
\* the predecessor on the list.
LEMMA KfreeStep ==
  ASSUME PoolInv, NEW m \in live, Kfree(m), ~misled'
  PROVE  PoolInv'
<1> DEFINE b == m.ptr - H
           prev == block[b].sprt_prev
<1>1. Idle(b) = [block EXCEPT ![b].remain = block[b].lenth]
  BY IdleForm
<1>2. /\ prev = mrt_nullptr \/ (prev \in List /\ block[prev].sprt_next = b)
      /\ prev = mrt_nullptr => block' = NextMerged(Idle(b), b, block[b].sprt_next)
      /\ prev # mrt_nullptr =>
           block' = [NextMerged(MergedInto(Idle(b), b, prev), prev, block[b].sprt_next)
                      EXCEPT ![b] = mrt_nullptr]
      /\ live' = live \ {m}
  <2>1. prev = mrt_nullptr => prev \notin List
    BY DEF List
  <2> QED  BY <1>1, <2>1 DEF Kfree
<1>3. b \in Heads
  BY FreedPiece
<1> HIDE DEF prev
<1>4. CASE prev = mrt_nullptr
  <2>1. block' = Idle(b)
    BY <1>2, <1>3, <1>4, FirstFreed
  <2>2. block[b].sprt_prev = mrt_nullptr
    BY <1>4 DEF prev
  <2> QED  BY <1>2, <2>1, <2>2, FreeFirst
<1>5. CASE prev # mrt_nullptr
  <2>1. prev \in Heads /\ block[prev].sprt_next = b
    BY <1>2, <1>5, ListIsHeads
  <2>2. End(prev) = b /\ b \in Addr /\ prev \in Addr /\ prev # b
    <3>1. b \in Addr /\ b # mrt_nullptr /\ prev \in Addr
      BY <1>3, <2>1, MemPoolAssumption DEF Heads, Addr
    <3> HIDE DEF b
    <3>2. End(prev) = b
      BY <2>1, <3>1, ChainFacts
    <3> QED  BY <2>1, <3>1, <3>2, HeadFacts
  <2>3. block' = [[Idle(b) EXCEPT ![prev] = Joined(b, prev)] EXCEPT ![b] = mrt_nullptr]
    BY <1>2, <1>3, <1>5, <2>1, <2>2, MergeFreed
  <2>4. DOMAIN block = Addr
    BY DEF PoolInv
  <2>5. DOMAIN Idle(b) = Addr /\ \A a \in Addr \ {b} : Idle(b)[a] = block[a]
    BY <2>4 DEF Idle
  <2> HIDE DEF b
  <2>6. /\ block' = [a \in Addr |-> block'[a]]
        /\ block'[b] = mrt_nullptr /\ block'[prev] = Joined(b, prev)
        /\ \A a \in Addr \ {b, prev} : block'[a] = block[a]
    BY <2>2, <2>3, <2>5
  <2> QED  BY <1>2, <2>1, <2>6, FreeMerge DEF b
<1> QED  BY <1>4, <1>5

\* Every step keeps the inductive invariant.
LEMMA PoolStepInv == PoolIInv /\ [PoolNext]_pool_vars => PoolIInv'
<1> SUFFICES ASSUME PoolIInv, [PoolNext]_pool_vars, ~misled' PROVE PoolInv'
  BY DEF PoolIInv
<1>1. ASSUME NEW n \in Sizes, Kmalloc(n) PROVE PoolInv'
  <2>1. PoolInv
    BY <1>1 DEF Kmalloc, PoolIInv
  <2> QED  BY <1>1, <2>1, KmallocStep, ZenonT(60)
<1>2. ASSUME NEW m \in live, Kfree(m) PROVE PoolInv'
  <2>1. PoolInv
    BY <1>2 DEF Kfree, PoolIInv
  <2> QED  BY <1>2, <2>1, KfreeStep, ZenonT(60)
<1>3. CASE UNCHANGED pool_vars
  BY <1>3 DEF PoolIInv, PoolInv, ChainInv, LiveInv, pool_vars, Heads, InUse,
    Offset
<1>4. ASSUME NEW n \in Sizes, KmallocFails(n) PROVE UNCHANGED pool_vars
  BY <1>4 DEF KmallocFails
<1>5. Undefined => UNCHANGED pool_vars
  BY DEF Undefined
<1> QED  BY <1>1, <1>2, <1>3, <1>4, <1>5 DEF PoolNext

\* The blocks of the list tile the pool in every reachable state.
THEOREM PoolTiled == PoolSpec => []PoolIInv
BY PoolInitInv, PoolStepInv, PTL DEF PoolSpec

\* The words somebody holds are the front parts of the blocks in use.
LEMMA UsedWords ==
  ASSUME PoolInv, NEW x
  PROVE  x \in Used <=> \E a \in Heads : InUse(a) /\ x \in a..(a + Offset(a) - 1)
<1>1. ASSUME NEW a \in Heads, InUse(a)
      PROVE  Words([ptr |-> a + H, len |-> Offset(a) - H]) = a..(a + Offset(a) - 1)
  <2>1. a \in Nat /\ H \in Nat /\ Offset(a) \in Int
    BY HeadFacts DEF Offset
  <2>2. (a + H) - H = a /\ (a + H) + (Offset(a) - H) - 1 = a + Offset(a) - 1
    BY <2>1
  <2> QED  BY <2>2 DEF Words
<1> DEFINE U == {h \in Heads : InUse(h)}
<1>2. live = {[ptr |-> a + H, len |-> Offset(a) - H] : a \in U}
  BY DEF PoolInv, LiveInv
<1>3. x \in Used <=> \E m \in live : x \in Words(m)
  BY DEF Used
<1>4. \A a \in U : Words([ptr |-> a + H, len |-> Offset(a) - H]) = a..(a + Offset(a) - 1)
  BY <1>1
<1>5. x \in Used <=> \E a \in U : x \in a..(a + Offset(a) - 1)
  <2> HIDE DEF U
  <2> QED  BY <1>2, <1>3, <1>4
<1> QED  BY <1>5

\* The words a request of n would get from b lie in b and in no piece.
LEMMA RestFree ==
  ASSUME PoolInv, NEW n \in Sizes, NEW b \in Heads, block[b].remain >= n + H
  PROVE  (b + Offset(b))..(b + Offset(b) + n + H - 1) \subseteq Addr \ Used
<1> SUFFICES ASSUME NEW x \in (b + Offset(b))..(b + Offset(b) + n + H - 1)
             PROVE  x \in Addr /\ x \notin Used
  OBVIOUS
<1>1. /\ n \in Nat /\ H \in Nat /\ b \in Nat /\ Offset(b) \in Nat /\ POOL \in Nat
      /\ Offset(b) + block[b].remain = block[b].lenth /\ End(b) <= POOL
      /\ block[b].remain \in Nat /\ End(b) = b + block[b].lenth
  BY HeadFacts, MemPoolAssumption DEF Offset, End
<1>2. x \in Nat /\ b + Offset(b) <= x /\ x < End(b)
  BY <1>1
<1>3. x \in Addr
  BY <1>1, <1>2 DEF Addr
<1>4. x \notin Used
  <2> SUFFICES ASSUME NEW a \in Heads, x \in a..(a + Offset(a) - 1) PROVE FALSE
    BY UsedWords
  <2>1. a \in Nat /\ Offset(a) \in Nat /\ a + Offset(a) <= End(a) /\ End(a) \in Nat
    BY HeadFacts DEF Offset, End
  <2>2. a <= x /\ x < a + Offset(a) /\ x < End(a)
    BY <1>2, <2>1
  <2>3. a # b
    BY <1>1, <1>2, <2>1, <2>2
  <2>4. a < b => End(a) <= b
    BY ChainFacts
  <2>5. b < a => End(b) <= a
    BY ChainFacts
  <2> QED  BY <1>1, <1>2, <2>1, <2>2, <2>3, <2>4, <2>5
<1> QED  BY <1>3, <1>4

\* kmalloc: what is handed out lies in the pool and nobody holds it.
THEOREM PiecesDisjoint == PoolSpec => []HandsOutFree
<1>1. PoolIInv => HandsOutFree
  <2> SUFFICES ASSUME PoolInv, NEW n \in Sizes, Fits(n) # {}
               PROVE  Words(Piece(n)) \subseteq Addr \ Used
    BY DEF PoolIInv, HandsOutFree
  <2>1. PICK b \in Heads : b = FirstFit(n)
    BY FitFacts
  <2>2. block[b].remain >= n + H
    BY <2>1, FitFacts
  <2>3. Words(Piece(n)) = (b + Offset(b))..(b + Offset(b) + n + H - 1)
    <3>1. Piece(n).ptr = b + Offset(b) + H /\ Piece(n).len = n
      BY <2>1 DEF Piece
    <3>2. b \in Nat /\ H \in Nat /\ n \in Nat /\ Offset(b) \in Int
      BY HeadFacts, MemPoolAssumption DEF Offset
    <3>3. /\ (b + Offset(b) + H) - H = b + Offset(b)
          /\ (b + Offset(b) + H) + n - 1 = b + Offset(b) + n + H - 1
      BY <3>2
    <3> QED  BY <3>1, <3>3 DEF Words
  <2> QED  BY <2>2, <2>3, RestFree
<1> QED  BY <1>1, PoolTiled, PTL

\* kmalloc fails only when no run of free words is long enough.
THEOREM NoneTurnedAway == PoolSpec => []FailsOnlyIfFull
<1>1. PoolIInv => FailsOnlyIfFull
  <2> SUFFICES ASSUME PoolInv, NEW n \in Sizes
               PROVE  Fits(n) # {} <=>
                        \E a \in Addr : a..(a + n + H - 1) \subseteq Addr \ Used
    BY DEF PoolIInv, FailsOnlyIfFull
  <2>0. n \in Nat /\ H \in Nat /\ H > 0 /\ POOL \in Nat
    BY MemPoolAssumption
  <2>1. ASSUME Fits(n) # {}
        PROVE  \E a \in Addr : a..(a + n + H - 1) \subseteq Addr \ Used
    <3>1. PICK b \in Heads : b = FirstFit(n)
      BY <2>1, FitFacts
    <3>2. block[b].remain >= n + H
      BY <2>1, <3>1, FitFacts
    <3>3. (b + Offset(b))..(b + Offset(b) + n + H - 1) \subseteq Addr \ Used
      BY <3>2, RestFree
    <3>4. b \in Nat /\ Offset(b) \in Nat
      BY HeadFacts DEF Offset
    <3>5. b + Offset(b) \in (b + Offset(b))..(b + Offset(b) + n + H - 1)
      BY <2>0, <3>4
    <3> QED  BY <3>3, <3>5
  <2>2. ASSUME NEW a \in Addr, a..(a + n + H - 1) \subseteq Addr \ Used
        PROVE  Fits(n) # {}
    <3>1. PICK c \in Heads : c <= a /\ a < End(c)
      BY Covered
    <3>2. /\ a \in Nat /\ c \in Nat /\ End(c) \in Nat /\ Offset(c) \in Nat
          /\ End(c) = c + block[c].lenth /\ block[c].remain \in Nat
          /\ block[c].lenth = Offset(c) + block[c].remain
      BY <2>0, HeadFacts DEF Addr, Offset, End
    <3>3. c + Offset(c) <= a
      <4> SUFFICES ASSUME a < c + Offset(c) PROVE FALSE
        BY <3>2
      <4>1. InUse(c) /\ a \in c..(c + Offset(c) - 1)
        BY <3>1, <3>2 DEF InUse
      <4>2. a \in Used
        BY <4>1, UsedWords
      <4>3. a \in a..(a + n + H - 1)
        BY <2>0, <3>2
      <4> QED  BY <2>2, <4>2, <4>3
    <3>4. a + n + H <= End(c)
      <4> SUFFICES ASSUME End(c) < a + n + H PROVE FALSE
        BY <2>0, <3>2
      <4> DEFINE d == End(c)
      <4>1. d \in a..(a + n + H - 1)
        BY <2>0, <3>1, <3>2
      <4>2. d \in Addr /\ d \notin Used
        BY <2>2, <4>1
      <4>3. d \in Heads /\ d > c
        BY <4>2, <3>2, HeadFacts, <2>0 DEF Addr
      <4> HIDE DEF d
      <4>4. InUse(d) /\ Offset(d) >= H
        BY <3>2, <4>3, ChainFacts DEF sprt_mem
      <4>5. d \in Nat /\ Offset(d) \in Nat
        BY <4>3, HeadFacts DEF Offset
      <4>6. d \in d..(d + Offset(d) - 1)
        BY <2>0, <4>4, <4>5
      <4> QED  BY <4>2, <4>3, <4>4, <4>6, UsedWords
    <3>5. block[c].remain >= n + H
      BY <2>0, <3>2, <3>3, <3>4
    <3>6. PICK i \in 0..POOL : Nth[i] = c
      BY ListIsHeads
    <3>7. c # mrt_nullptr
      BY MemPoolAssumption DEF Heads, Addr
    <3> QED  BY <3>5, <3>6, <3>7 DEF Fits
  <2> QED  BY <2>1, <2>2
<1> QED  BY <1>1, PoolTiled, PTL

\* Two callers never hold the same word, header included, and every word they
\* hold lies in the pool; kfree accepts each piece that is held
\* (check_employ_simple_memory finds its block on the list).
HeldApart ==
  ~misled =>
    /\ \A m \in live : Words(m) \subseteq Addr /\ Employed(m)
    /\ \A m1, m2 \in live : m1 # m2 => Words(m1) \cap Words(m2) = {}

\* When everything is freed, in whatever order, the pool is the one idle block
\* it began as: nothing leaks and nothing stays in fragments.
AllGivenBack ==
  ~misled /\ live = {} =>
    /\ block[sprt_mem] = Header(POOL, POOL, mrt_nullptr, mrt_nullptr)
    /\ \A a \in Addr \ {sprt_mem} : block[a] = mrt_nullptr

\* A piece is the front part of a block in use.
LEMMA HeldPiece ==
  ASSUME PoolInv, NEW m \in live
  PROVE  \E a \in Heads : /\ InUse(a) /\ m = [ptr |-> a + H, len |-> Offset(a) - H]
                          /\ Words(m) = a..(a + Offset(a) - 1) /\ m.ptr - H = a
                          /\ a + Offset(a) <= End(a) /\ Offset(a) \in Nat
<1>1. PICK a \in {h \in Heads : InUse(h)} :
        m = [ptr |-> a + H, len |-> Offset(a) - H]
  BY DEF PoolInv, LiveInv
<1>2. /\ a \in Nat /\ H \in Nat /\ Offset(a) \in Nat
      /\ a + Offset(a) <= End(a)
  BY HeadFacts DEF Offset, End
<1>3. m.ptr = a + H /\ m.len = Offset(a) - H
  BY <1>1
<1>4. m.ptr - H = a /\ m.ptr + m.len - 1 = a + Offset(a) - 1
  BY <1>2, <1>3
<1> QED  BY <1>1, <1>2, <1>4 DEF Words

\* The pieces that kmalloc has handed out and kfree has not taken back are
\* apart, inside the pool and known to kfree.
THEOREM PiecesApart == PoolSpec => []HeldApart
<1>1. PoolIInv => HeldApart
  <2> SUFFICES ASSUME PoolInv
               PROVE  /\ \A m \in live : Words(m) \subseteq Addr /\ Employed(m)
                      /\ \A m1, m2 \in live :
                           m1 # m2 => Words(m1) \cap Words(m2) = {}
    BY DEF PoolIInv, HeldApart
  <2>1. ASSUME NEW m \in live PROVE Words(m) \subseteq Addr /\ Employed(m)
    <3>1. PICK a \in Heads :
            /\ Words(m) = a..(a + Offset(a) - 1) /\ m.ptr - H = a
            /\ a + Offset(a) <= End(a) /\ Offset(a) \in Nat
      BY HeldPiece
    <3>2. a \in Nat /\ End(a) \in Nat /\ End(a) <= POOL /\ POOL \in Nat
      BY HeadFacts
    <3>3. Words(m) \subseteq Addr
      BY <3>1, <3>2 DEF Addr
    <3> QED  BY <3>1, <3>3, ListIsHeads DEF Employed
  <2>2. ASSUME NEW m1 \in live, NEW m2 \in live, m1 # m2
        PROVE  Words(m1) \cap Words(m2) = {}
    <3>1. PICK a \in Heads :
            /\ m1 = [ptr |-> a + H, len |-> Offset(a) - H]
            /\ Words(m1) = a..(a + Offset(a) - 1)
            /\ a + Offset(a) <= End(a) /\ Offset(a) \in Nat
      BY HeldPiece
    <3>2. PICK b \in Heads :
            /\ m2 = [ptr |-> b + H, len |-> Offset(b) - H]
            /\ Words(m2) = b..(b + Offset(b) - 1)
            /\ b + Offset(b) <= End(b) /\ Offset(b) \in Nat
      BY HeldPiece
    <3>3. /\ a \in Nat /\ b \in Nat /\ End(a) \in Nat /\ End(b) \in Nat
          /\ a # b
      BY <2>2, <3>1, <3>2, HeadFacts
    <3>4. (a < b => End(a) <= b) /\ (b < a => End(b) <= a)
      BY ChainFacts
    <3> QED  BY <3>1, <3>2, <3>3, <3>4
  <2> QED  BY <2>1, <2>2
<1> QED  BY <1>1, PoolTiled, PTL

\* kfree of the last piece leaves the pool as memory_simple_block_create made
\* it.
THEOREM NothingLeaks == PoolSpec => []AllGivenBack
<1>1. PoolIInv => AllGivenBack
  <2> SUFFICES ASSUME PoolInv, live = {}
               PROVE  /\ block[sprt_mem] = Header(POOL, POOL, mrt_nullptr, mrt_nullptr)
                      /\ \A a \in Addr \ {sprt_mem} : block[a] = mrt_nullptr
    BY DEF PoolIInv, AllGivenBack
  <2>1. \A a \in Heads : ~InUse(a)
    BY DEF PoolInv, LiveInv
  <2>2. \A a \in Heads : a = sprt_mem
    BY <2>1, ChainFacts
  <2>3. sprt_mem \in Heads
    BY DEF PoolInv
  <2>4. /\ End(sprt_mem) = POOL /\ block[sprt_mem] \in Headers
        /\ block[sprt_mem].sprt_next = mrt_nullptr
        /\ block[sprt_mem].sprt_prev = mrt_nullptr
    <3>1. ASSUME End(sprt_mem) # POOL PROVE FALSE
      <4>1. End(sprt_mem) \in Heads /\ End(sprt_mem) > sprt_mem
        BY <2>3, <3>1, ChainFacts, HeadFacts
      <4> QED  BY <2>2, <4>1 DEF sprt_mem
    <3> QED  BY <2>3, <3>1, ChainFacts, HeadFacts
  <2>5. block[sprt_mem].lenth = POOL
    BY <2>3, <2>4, HeadFacts DEF End, sprt_mem
  <2>6. block[sprt_mem].remain = block[sprt_mem].lenth
    BY <2>1, <2>3, HeadFacts DEF InUse
  <2> DEFINE h == block[sprt_mem]
  <2>7. h = [lenth |-> h.lenth, remain |-> h.remain,
             sprt_prev |-> h.sprt_prev, sprt_next |-> h.sprt_next]
    BY <2>4 DEF Headers
  <2>8. block[sprt_mem] = Header(POOL, POOL, mrt_nullptr, mrt_nullptr)
    BY <2>4, <2>5, <2>6, <2>7 DEF Header
  <2> QED  BY <2>2, <2>8 DEF Heads
<1> QED  BY <1>1, PoolTiled, PTL
=============================================================================
