------------------------------ MODULE SpinLock ------------------------------
(***************************************************************************)
(* One spin lock of kernel/spinlock.c, instruction by instruction, on the  *)
(* single core that the kernel is configured for.  The threads are         *)
(* preempted by interrupts wherever interrupts are enabled and the         *)
(* preemption count is zero.                                               *)
(*                                                                         *)
(* The lock is a counter that is tested and incremented in separate steps; *)
(* what makes it a lock is that nobody else executes in between.  This is  *)
(* the justification for the atomic Acquire of Sched.tla.                  *)
(***************************************************************************)
EXTENDS Integers

CONSTANTS
  Thread,
  ISR,           \* the code of an interrupt handler
  IsrLocks,      \* whether handlers take this lock (wake_up in extkey.c
                 \* does, the timer callbacks of the scheduler do not)
  NULL

ASSUME SpinAssumption ==
  /\ Thread # {} /\ ISR \notin Thread /\ NULL \notin Thread \cup {ISR}
  /\ IsrLocks \in BOOLEAN

Actor == Thread \cup {ISR}
Caller == IF IsrLocks THEN Actor ELSE Thread

VARIABLES
  sgrt_atc,      \* the lock's counter
  flag,          \* the I bit of the lock's flag: TRUE = interrupts masked
  preempt_cnt,   \* g_sched_preempt_cnt
  irq_on,        \* CPSR.I is clear
  cpu, in_isr,   \* the thread on the core; a handler has interrupted it
  psr,           \* irq_on of the threads that are off the core
  pc, mode,      \* where each actor is, and which variant it called
  entry,         \* irq_on when the actor saved it
  odd            \* history: the section has run an odd number of nested ones

vars == <<sgrt_atc, flag, preempt_cnt, irq_on, cpu, in_isr, psr, pc, mode,
          entry, odd>>

Mode == {"plain", "irq", "irqsave"}

Init ==
  /\ sgrt_atc = 0 /\ flag = FALSE /\ preempt_cnt = 0
  /\ irq_on \in BOOLEAN /\ cpu \in Thread /\ in_isr = FALSE
  /\ psr = [t \in Thread |-> TRUE]
  /\ pc = [a \in Actor |-> "out"]
  /\ mode = [a \in Actor |-> "plain"]
  /\ entry = [a \in Actor |-> TRUE]
  /\ odd = FALSE

spin_is_locked == sgrt_atc # 0

\* a executes: the handler before the thread that it interrupted.
Runs(a) == a = IF in_isr THEN ISR ELSE cpu

At(a, p) == Runs(a) /\ pc[a] = p
Goto(a, p) == pc' = [pc EXCEPT ![a] = p]
Core == <<cpu, in_isr, psr>>

-----------------------------------------------------------------------------
(* spin_lock, spin_lock_irq, spin_lock_irqsave and the try variants *)

Call(a) ==
  /\ At(a, "out")
  /\ \E m \in Mode : mode' = [mode EXCEPT ![a] = m]
  /\ \E p \in {"spin", "try"} : Goto(a, p)
  /\ UNCHANGED <<sgrt_atc, flag, preempt_cnt, irq_on, Core, entry, odd>>

\* while (spin_is_locked(sprt_lock));
Spin(a) ==
  /\ At(a, "spin")
  /\ Goto(a, IF spin_is_locked THEN "spin" ELSE "disable")
  /\ UNCHANGED <<sgrt_atc, flag, preempt_cnt, irq_on, Core, mode, entry, odd>>

\* spin_try_lock gives up at once.
Try(a) ==
  /\ At(a, "try")
  /\ Goto(a, IF spin_is_locked THEN "out" ELSE "disable")
  /\ UNCHANGED <<sgrt_atc, flag, preempt_cnt, irq_on, Core, mode, entry, odd>>

PreemptDisable(a) ==
  /\ At(a, "disable")
  /\ preempt_cnt' = preempt_cnt + 1
  /\ Goto(a, "inc")
  /\ UNCHANGED <<sgrt_atc, flag, irq_on, Core, mode, entry, odd>>

AtomicInc(a) ==
  /\ At(a, "inc")
  /\ sgrt_atc' = sgrt_atc + 1
  /\ Goto(a, CASE mode[a] = "plain" -> "cs" [] mode[a] = "irq" -> "mask"
               [] OTHER -> "save")
  /\ odd' = FALSE
  /\ UNCHANGED <<flag, preempt_cnt, irq_on, Core, mode, entry>>

\* Bug: the mask is added to what the word of the lock holds.
SaveFlag_Or(a) ==
  /\ At(a, "save")
  /\ flag' = (flag \/ ~irq_on) /\ entry' = [entry EXCEPT ![a] = irq_on]
  /\ Goto(a, "mask")
  /\ UNCHANGED <<sgrt_atc, preempt_cnt, irq_on, Core, mode, odd>>

\* sprt_lock->flag = __get_cpsr()
SaveFlag(a) ==
  /\ At(a, "save")
  /\ flag' = ~irq_on /\ entry' = [entry EXCEPT ![a] = irq_on]
  /\ Goto(a, "mask")
  /\ UNCHANGED <<sgrt_atc, preempt_cnt, irq_on, Core, mode, odd>>

MaskIrq(a) ==
  /\ At(a, "mask")
  /\ irq_on' = FALSE
  /\ Goto(a, "cs")
  /\ UNCHANGED <<sgrt_atc, flag, preempt_cnt, Core, mode, entry, odd>>

-----------------------------------------------------------------------------
(* spin_unlock, spin_unlock_irq, spin_unlock_irqrestore *)

\* Inside the section another lock can be taken and given back with irqsave and
\* irqrestore, as wake_up_common does for every thread of its queue.  The count
\* never gets down to zero; the irqrestore enables interrupts where they were
\* masked and leaves them masked where they were enabled.
Nested(a) ==
  /\ At(a, "cs")
  /\ irq_on' = ~irq_on /\ odd' = ~odd
  /\ UNCHANGED <<sgrt_atc, flag, preempt_cnt, Core, pc, mode, entry>>

Leave(a) ==
  /\ At(a, "cs")
  /\ Goto(a, "dec")
  /\ UNCHANGED <<sgrt_atc, flag, preempt_cnt, irq_on, Core, mode, entry, odd>>

AtomicDec(a) ==
  /\ At(a, "dec")
  /\ sgrt_atc' = sgrt_atc - 1
  /\ Goto(a, "enable")
  /\ UNCHANGED <<flag, preempt_cnt, irq_on, Core, mode, entry, odd>>

PreemptEnable(a) ==
  /\ At(a, "enable")
  /\ preempt_cnt' = preempt_cnt - 1
  /\ Goto(a, CASE mode[a] = "plain" -> "out" [] mode[a] = "irq" -> "unmask"
               [] OTHER -> "restore")
  /\ UNCHANGED <<sgrt_atc, flag, irq_on, Core, mode, entry, odd>>

\* spin_unlock_irq: interrupts are enabled whatever they were before.
UnmaskIrq(a) ==
  /\ At(a, "unmask")
  /\ irq_on' = TRUE
  /\ Goto(a, "out")
  /\ UNCHANGED <<sgrt_atc, flag, preempt_cnt, Core, mode, entry, odd>>

\* spin_unlock_irqrestore: they are enabled if the saved I bit is set.
RestoreIrq(a) ==
  /\ At(a, "restore")
  /\ irq_on' = (irq_on \/ flag)
  /\ Goto(a, "clear")
  /\ UNCHANGED <<sgrt_atc, flag, preempt_cnt, Core, mode, entry, odd>>

\* The flag is cleared when the lock is already free.
ClearFlag(a) ==
  /\ At(a, "clear")
  /\ flag' = FALSE
  /\ Goto(a, "out")
  /\ UNCHANGED <<sgrt_atc, preempt_cnt, irq_on, Core, mode, entry, odd>>

LockStep(a) ==
  \/ Call(a) \/ Spin(a) \/ Try(a) \/ PreemptDisable(a) \/ AtomicInc(a)
  \/ SaveFlag(a) \/ MaskIrq(a) \/ Nested(a) \/ Leave(a) \/ AtomicDec(a)
  \/ PreemptEnable(a) \/ UnmaskIrq(a) \/ RestoreIrq(a) \/ ClearFlag(a)

-----------------------------------------------------------------------------
(* Interrupts and the scheduler, as far as the lock sees them *)

IrqEnter ==
  /\ irq_on /\ ~in_isr
  /\ in_isr' = TRUE /\ irq_on' = FALSE
  /\ UNCHANGED <<sgrt_atc, flag, preempt_cnt, cpu, psr, pc, mode, entry, odd>>

\* Bug: the return path switches threads whatever the preemption count.
IrqReturn_NoCount ==
  /\ in_isr /\ pc[ISR] = "out"
  /\ in_isr' = FALSE
  /\ \E t \in Thread :
       /\ cpu' = t
       /\ psr' = [psr EXCEPT ![cpu] = TRUE]
       /\ irq_on' = psr'[t]
  /\ UNCHANGED <<sgrt_atc, flag, preempt_cnt, pc, mode, entry, odd>>

\* The handler returns to the thread it interrupted, or to another one when
\* the preemption count is zero.
IrqReturn ==
  /\ in_isr /\ pc[ISR] = "out"
  /\ in_isr' = FALSE
  /\ \E t \in Thread :
       /\ t # cpu => preempt_cnt = 0
       /\ cpu' = t
       /\ psr' = [psr EXCEPT ![cpu] = TRUE]
       /\ irq_on' = psr'[t]
  /\ UNCHANGED <<sgrt_atc, flag, preempt_cnt, pc, mode, entry, odd>>

\* schedule_thread, outside of the lock: what it leaves of the interrupt mask
\* of the thread is not known here (see Sched.tla).
Yield ==
  /\ At(cpu, "out")
  /\ \E t \in Thread, i \in BOOLEAN :
       /\ cpu' = t
       /\ psr' = [psr EXCEPT ![cpu] = i]
       /\ irq_on' = psr'[t]
  /\ UNCHANGED <<sgrt_atc, flag, preempt_cnt, in_isr, pc, mode, entry, odd>>

Next ==
  \/ \E a \in Caller : LockStep(a)
  \/ IrqEnter \/ IrqReturn \/ Yield

Spec == Init /\ [][Next]_vars

-----------------------------------------------------------------------------
(* Properties *)

Place == {"out", "spin", "try", "disable", "inc", "save", "mask", "cs", "dec",
          "enable", "unmask", "restore", "clear"}

\* The counters of the lock and of preemption are unsigned: neither is ever
\* decremented below zero.
TypeOK ==
  /\ sgrt_atc \in Nat /\ preempt_cnt \in Nat
  /\ flag \in BOOLEAN /\ irq_on \in BOOLEAN /\ in_isr \in BOOLEAN
  /\ cpu \in Thread /\ psr \in [Thread -> BOOLEAN]
  /\ pc \in [Actor -> Place] /\ mode \in [Actor -> Mode]
  /\ entry \in [Actor -> BOOLEAN] /\ odd \in BOOLEAN

\* a owns the lock: between its atomic_inc and its atomic_dec.
Owns(a) == pc[a] \in {"save", "mask", "cs", "dec"}

\* Two actors never own the lock at once although spin_lock tests and takes
\* it in separate steps, and the counter says whether it is owned.
MutualExclusion ==
  /\ \A a, b \in Actor : Owns(a) /\ Owns(b) => a = b
  /\ sgrt_atc = IF \E a \in Actor : Owns(a) THEN 1 ELSE 0

\* A thread on the core never finds the lock taken: the owner cannot lose the
\* core, so the loop of spin_lock never turns.
NeverSpins == ~in_isr /\ pc[cpu] = "spin" => ~spin_is_locked

\* A section that was entered with an irq variant ("disable irq") keeps the core,
\* and interrupts are on in it exactly when the irqrestore of an odd number of
\* nested sections has flipped the mask.
SectionMasked ==
  \A a \in Thread : pc[a] = "cs" /\ mode[a] # "plain" =>
    a = cpu /\ (irq_on \/ in_isr <=> odd)

\* The flag is one word per lock, read and cleared when the lock is already
\* free.  Where interrupts are on by then (after nested sections) another owner
\* can have overwritten it; where they are masked, and only there the value
\* matters to spin_unlock_irqrestore, it is the one that the same caller saved.
FlagIsOwn ==
  \A a \in Actor : At(a, "restore") /\ ~irq_on => flag = ~entry[a]

Holder == IF \E a \in Actor : Owns(a) THEN CHOOSE a \in Actor : Owns(a)
          ELSE NULL

Abstract == INSTANCE LockSpec WITH holder <- Holder

\* The counter, the preemption count and the interrupt mask together
\* implement a lock with one holder.
ImplementsLock == Abstract!Spec
=============================================================================
