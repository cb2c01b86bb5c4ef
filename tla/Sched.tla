-------------------------------- MODULE Sched --------------------------------
(***************************************************************************)
(* The thread scheduler of the kernel: the thread table of kernel/sched.c, *)
(* thread creation (kernel/thread.c), the sleep path (kernel/sleep.c), the *)
(* systick callbacks (kernel/kthread/kthread.c, kernel/sleep.c) and the    *)
(* context switch of arch/arm/kernel/context.S, on one core.               *)
(*                                                                         *)
(* Interleaving.  The core executes the code of one thread (cpu) or an     *)
(* interrupt handler (in_isr).  A critical section of the scheduler lock   *)
(* is two steps: Acquire (spin_lock) and the body, which starts by masking *)
(* interrupts and ends with spin_unlock_irqrestore.  Between the two an    *)
(* interrupt can arrive with the lock held; inside the body none can.      *)
(*                                                                         *)
(* Time is abstract: which armed timers a tick finds due, and whether the  *)
(* running thread's slice is used up, is a choice of the tick.  Timer.tla  *)
(* has the arithmetic of jiffies.                                          *)
(***************************************************************************)
EXTENDS Integers, Sequences

CONSTANTS
  Tid,           \* the thread identifiers in use
  IDLE, BASE,    \* REAL_THREAD_TID_IDLE, REAL_THREAD_TID_BASE
  Children,      \* Children[s]: the tids that the code of s registers
  Prio,          \* Prio[t]: the priority asked for, 0 is the highest
  DEFAULT,       \* REAL_THREAD_PROTY_DEFAULT
  Suspenders,    \* the threads that call schedule_thread_suspend
  BOOT,          \* start_kernel, the code that runs before the first thread
  PREEMPT,       \* the timer sgrt_kthread_timer
  NULL

Stream == Tid \cup {BOOT}

ASSUME SchedAssumption ==
  /\ IDLE \in Tid /\ BASE \in Tid /\ IDLE # BASE
  /\ BOOT \notin Tid /\ PREEMPT \notin Tid /\ NULL \notin Tid \cup {BOOT}
  /\ Children \in [Stream -> SUBSET Tid]
  /\ {IDLE, BASE} \subseteq Children[BOOT] /\ Children[IDLE] = {}
  /\ Prio \in [Tid -> Nat] /\ DEFAULT \in Nat
  /\ Suspenders \subseteq Tid \ {IDLE}

\* Each tid is registered by one stream: the kernel tids by start_kernel and
\* the base thread, the user tids by the init thread.
ASSUME OneParent ==
  \A r, s \in Stream : r # s => Children[r] \cap Children[s] = {}

VARIABLES
  tab,           \* sgrt_real_thread_Tabs: status and to_status of each
                 \* thread, the ready and suspend lists, the running thread
  lock,          \* holder of __SCHED_LOCK, or NULL
  preempt_cnt,   \* g_sched_preempt_cnt
  irq_on,        \* CPSR.I is clear: interrupts are taken
  spsr, psr,     \* the I bit (clear = TRUE) in SPSR_svc, and in the frames
  cpu,           \* whose code the core executes
  pc,            \* where the code of each stream is
  by_irq,        \* threads whose context the interrupt path has saved (the
                 \* word behind the frame; dead while the thread runs)
  newtid,        \* the tid found free by a creation in progress
  missing,       \* tids whose creation failed
  armed,         \* timers on sgrt_global_timer_list
  in_isr, todo,  \* the core is in the systick handler; due timers left
  sched_flag,    \* g_asm_sched_flag
  started,       \* thread_schedule_ref
  foreign,       \* threads whose frame holds a context that is not theirs
  panic          \* the interrupt path dereferenced a null context

vars == <<tab, lock, preempt_cnt, irq_on, spsr, psr, cpu, pc, newtid, armed,
          in_isr, todo, sched_flag, started, foreign, panic, by_irq, missing>>

-----------------------------------------------------------------------------
(* Priorities and the sorted status lists *)

\* real_thread_attr_revise: a priority of 0 counts as "not given".
PrioOf(t) == IF Prio[t] = 0 THEN DEFAULT ELSE Prio[t]

\* kthread.c asks for the highest priority, which counts as the default, and
\* idle.c for one below the default.
ASSUME BaseAboveIdle == PrioOf(BASE) < PrioOf(IDLE)

InList(l, t) == \E i \in 1..Len(l) : l[i] = t

\* Bug: a thread goes in front of the threads of its own priority.
LastNotLower_Front(l, t) ==
  CHOOSE i \in 0..Len(l) :
    /\ i > 0 => PrioOf(l[i]) < PrioOf(t)
    /\ \A j \in (i + 1)..Len(l) : PrioOf(l[j]) >= PrioOf(t)

\* The walk of __schedule_add_status_list from the tail: the last position
\* whose thread is not of lower priority than t (0: t goes to the head).
LastNotLower(l, t) ==
  CHOOSE i \in 0..Len(l) :
    /\ i > 0 => PrioOf(l[i]) <= PrioOf(t)
    /\ \A j \in (i + 1)..Len(l) : PrioOf(l[j]) > PrioOf(t)

\* Where a list node is linked in: behind the i-th thread.
InsertAfter(l, i, t) ==
  [k \in 1..(Len(l) + 1) |->
     IF k <= i THEN l[k] ELSE IF k = i + 1 THEN t ELSE l[k - 1]]

\* Bug: the order of arrival decides (no walk over the priorities).
AddStatusList_Fifo(l, t) == Append(l, t)

\* __schedule_add_status_list: every list is kept sorted by priority, and a
\* thread goes behind the threads of its own priority.
AddStatusList(l, t) ==
  IF InList(l, t) THEN l ELSE InsertAfter(l, LastNotLower(l, t), t)

\* list_head_del_safe: nothing happens when t is not in the list.
DelStatusList(l, t) ==
  IF ~InList(l, t) THEN l
  ELSE LET p == CHOOSE i \in 1..Len(l) : l[i] = t
       IN  [k \in 1..(Len(l) - 1) |-> IF k < p THEN l[k] ELSE l[k + 1]]

-----------------------------------------------------------------------------
(* schedule_thread_switch, as an operator on the thread table *)

SetTo(T, t, st) == [T EXCEPT !.to_status[t] = st]

\* Bug: the target status is not cleared.
Sync_KeepTarget(T, t, st) == [T EXCEPT !.status[t] = st]

Sync(T, t, st) == [T EXCEPT !.status[t] = st, !.to_status[t] = "NONE"]

\* schedule_reinstall_work_role: the first ready thread takes the core.
ReinstallWork(T) ==
  LET n == T.ready[1]
  IN  Sync([T EXCEPT !.ready = DelStatusList(@, n), !.work = n], n, "RUNNING")

\* Bug: the displaced list entry stays on the ready list.
Detach_KeepReady(T, t) ==
  CASE T.status[t] = "RUNNING" -> ReinstallWork(T)
    [] T.status[t] = "SUSPEND" -> [T EXCEPT !.suspend = DelStatusList(@, t)]
    [] OTHER                   -> T

Detach(T, t) ==
  CASE T.status[t] = "RUNNING" -> ReinstallWork(T)
    [] T.status[t] = "READY"   -> [T EXCEPT !.ready = DelStatusList(@, t)]
    [] T.status[t] = "SUSPEND" -> [T EXCEPT !.suspend = DelStatusList(@, t)]
    [] OTHER                   -> T

\* schedule_despoil_work_role, schedule_add_ready_list and
\* schedule_add_suspend_list.
Attach(T, t, dst) ==
  CASE dst = "READY"   -> [T EXCEPT !.ready = AddStatusList(@, t)]
    [] dst = "SUSPEND" -> [T EXCEPT !.suspend = AddStatusList(@, t)]
    [] dst = "RUNNING" ->
         [(IF T.work = NULL THEN T
           ELSE Sync([T EXCEPT !.ready = AddStatusList(@, T.work)],
                     T.work, "READY")) EXCEPT !.work = t]

\* Bug: the idle thread is suspended like any other.
SwitchFails_NoIdle(T, t) ==
  LET src == T.status[t]
      dst == T.to_status[t]
  IN  \/ src = dst
      \/ src = "RUNNING" /\ (t # T.work \/ T.ready = <<>>)

\* The conditions on which the code jumps to fail.
SwitchFails(T, t) ==
  LET src == T.status[t]
      dst == T.to_status[t]
  IN  \/ src = dst
      \/ t = IDLE /\ dst \notin {"RUNNING", "READY"}
      \/ src = "RUNNING" /\ (t # T.work \/ T.ready = <<>>)

ThreadSwitch(T, t) ==
  IF SwitchFails(T, t)
  THEN Sync(T, t, T.status[t])
  ELSE Sync(Attach(Detach(T, t), t, T.to_status[t]), t, T.to_status[t])

\* __schedule_thread, up to the switch: whose status is switched, and to what.
SchedPrev(T) ==
  IF T.work # NULL
  THEN IF T.to_status[T.work] = "NONE" THEN SetTo(T, T.work, "READY") ELSE T
  ELSE SetTo(T, T.ready[1], "RUNNING")

PrevOf(T) == IF T.work # NULL THEN T.work ELSE T.ready[1]

\* A null scheduler_context is returned.
NullContext(T) ==
  \/ T.ready = <<>>
  \/ T.work = NULL /\ started
  \/ SwitchFails(SchedPrev(T), PrevOf(T))

\* The table __schedule_thread leaves.
ScheduleThread(T) ==
  IF T.ready = <<>> \/ (T.work = NULL /\ started)
  THEN T
  ELSE ThreadSwitch(SchedPrev(T), PrevOf(T))

-----------------------------------------------------------------------------
(* Initial state: start_kernel has enabled interrupts and is about to     *)
(* create the base and the idle thread.  SPSR_svc is never written before *)
(* the first context switch, so its value is unknown.                     *)

Init ==
  /\ tab = [status    |-> [t \in Tid |-> "NONE"],
            to_status |-> [t \in Tid |-> "NONE"],
            ready |-> <<>>, suspend |-> <<>>, work |-> NULL]
  /\ lock = NULL /\ preempt_cnt = 0 /\ irq_on = TRUE
  /\ spsr \in BOOLEAN /\ psr = [t \in Tid |-> TRUE]
  /\ cpu = BOOT
  /\ pc = [s \in Stream |-> IF s = IDLE THEN "idle" ELSE "spawn"]
  /\ newtid = [s \in Stream |-> NULL]
  /\ armed = {} /\ in_isr = FALSE /\ todo = {}
  /\ sched_flag = FALSE /\ started = FALSE
  /\ foreign = {} /\ panic = FALSE /\ by_irq = {} /\ missing = {}

-----------------------------------------------------------------------------
(* spin_lock_irqsave and spin_unlock_irqrestore of the scheduler lock *)

\* What is left to create: a creation that failed is not tried again.
Unborn(s) ==
  {c \in Children[s] : tab.status[c] = "NONE" /\ c \notin missing}

\* What the core does once it has used a null context, or once a frame holds
\* a context that is not its thread's, is not defined: the model stops there.
Defined == ~panic /\ foreign = {}

\* The code of s executes: no interrupt is being served.
Runs(s) == Defined /\ cpu = s /\ ~in_isr

\* The next thing that s does is to take the scheduler lock.
WantsLock(s) ==
  \/ pc[s] \in {"reg", "stats", "setup", "ss", "sched", "del", "susp"}
  \/ pc[s] = "spawn" /\ Unborn(s) # {}

Acquire(s) ==
  /\ Runs(s) /\ WantsLock(s) /\ lock = NULL
  /\ lock' = s
  /\ preempt_cnt' = preempt_cnt + 1
  /\ UNCHANGED <<tab, irq_on, spsr, psr, cpu, pc, newtid, armed, in_isr,
                 todo, sched_flag, started, foreign, panic, by_irq, missing>>

\* Inside the section of s that starts at at.
Holds(s, at) == Runs(s) /\ lock = s /\ pc[s] = at

\* spin_unlock_irqrestore enables interrupts when the saved CPSR had them
\* masked, and leaves them masked otherwise.
Release ==
  /\ lock' = NULL
  /\ preempt_cnt' = preempt_cnt - 1
  /\ irq_on' = ~irq_on

Goto(s, at) == pc' = [pc EXCEPT ![s] = at]

-----------------------------------------------------------------------------
(* Thread creation: __real_thread_create *)

\* get_unused_tid_from_scheduler: a free tid of the range s creates from.
GetUnusedTid(s) ==
  /\ Holds(s, "spawn")
  /\ \E c \in Unborn(s) : newtid' = [newtid EXCEPT ![s] = c]
  /\ Release
  /\ Goto(s, "alloc")
  /\ UNCHANGED <<tab, spsr, psr, cpu, armed, in_isr, todo, sched_flag,
                 started, foreign, panic, by_irq, missing>>

\* kzalloc of the thread, a critical section of the memory pool's own lock:
\* the interrupt mask is flipped, as by every irqsave section.
AllocThread(s) ==
  /\ Runs(s) /\ pc[s] = "alloc"
  /\ irq_on' = ~irq_on
  /\ Goto(s, "reg")
  /\ UNCHANGED <<tab, lock, preempt_cnt, spsr, psr, cpu, newtid, armed,
                 in_isr, todo, sched_flag, started, foreign, panic, by_irq,
                 missing>>

\* There is no memory for the thread: __real_thread_create returns an error.
\* start_kernel gives up (main.c:76), and every other caller ignores it and
\* goes on without the thread.  So does start_kernel when it is the idle
\* thread that is missing (main.c:79); that kernel is outside of the model.
AllocFails(s) ==
  /\ Runs(s) /\ pc[s] = "alloc" /\ newtid[s] # IDLE
  /\ irq_on' = ~irq_on
  /\ missing' = missing \cup {newtid[s]}
  /\ newtid' = [newtid EXCEPT ![s] = NULL]
  /\ Goto(s, IF s = BOOT THEN "failed" ELSE "spawn")
  /\ UNCHANGED <<tab, lock, preempt_cnt, spsr, psr, cpu, armed, in_isr, todo,
                 sched_flag, started, foreign, panic, by_irq>>

\* register_new_thread: into the table and onto the ready list.
RegisterNewThread(s) ==
  /\ Holds(s, "reg")
  /\ tab' = Sync([tab EXCEPT !.ready = AddStatusList(@, newtid[s])],
                 newtid[s], "READY")
  /\ newtid' = [newtid EXCEPT ![s] = NULL]
  /\ Release
  /\ Goto(s, "spawn")
  /\ UNCHANGED <<spsr, psr, cpu, armed, in_isr, todo, sched_flag, started,
                 foreign, panic, by_irq, missing>>

\* Bug: start_kernel calls schedule_thread before rest_init.
Spawned_NoIdle(s) ==
  /\ Runs(s) /\ pc[s] = "spawn" /\ Unborn(s) \subseteq {IDLE} /\ lock = NULL
  /\ Goto(s, CASE s = BOOT -> "sched" [] s = BASE -> "stats"
               [] OTHER -> "run")
  /\ UNCHANGED <<tab, lock, preempt_cnt, irq_on, spsr, psr, cpu, newtid,
                 armed, in_isr, todo, sched_flag, started, foreign, panic,
                 by_irq, missing>>

\* All threads of s exist: start_kernel calls schedule_thread, the base
\* thread enters its statistics loop, any other thread its own code.
Spawned(s) ==
  /\ Runs(s) /\ pc[s] = "spawn" /\ Unborn(s) = {}
  /\ Goto(s, CASE s = BOOT -> "sched" [] s = BASE -> "stats"
               [] OTHER -> "run")
  /\ UNCHANGED <<tab, lock, preempt_cnt, irq_on, spsr, psr, cpu, newtid,
                 armed, in_isr, todo, sched_flag, started, foreign, panic,
                 by_irq, missing>>

-----------------------------------------------------------------------------
(* What a thread does between its calls of the scheduler *)

\* The loop of kthread_entry: scheduler_stats_get, then the preemption timer
\* is started if it never was, then schedule_delay_ms.
StatsLoop(s) ==
  /\ Holds(s, "stats")
  /\ Release
  /\ armed' = armed \cup {PREEMPT}
  /\ Goto(s, "setup")
  /\ UNCHANGED <<tab, spsr, psr, cpu, newtid, in_isr, todo, sched_flag,
                 started, foreign, panic, by_irq, missing>>

\* schedule_delay_ms, schedule_thread, schedule_thread_suspend are called; the
\* last, for the caller itself, is schedule_self_suspend without a timer.
CallScheduler(s) ==
  /\ Runs(s) /\ pc[s] = "run"
  /\ \E at \in {"setup", "sched"} \cup
               (IF s \in Suspenders THEN {"susp", "ss"} ELSE {}) : Goto(s, at)
  /\ UNCHANGED <<tab, lock, preempt_cnt, irq_on, spsr, psr, cpu, newtid,
                 armed, in_isr, todo, sched_flag, started, foreign, panic,
                 by_irq, missing>>

\* Any other kernel service that has one irqsave section of its own
\* (kmalloc, kfree, wake_up): the interrupt mask is flipped.
CallService(s) ==
  /\ Runs(s) /\ pc[s] = "run"
  /\ irq_on' = ~irq_on
  /\ UNCHANGED <<tab, lock, preempt_cnt, spsr, psr, cpu, pc, newtid, armed,
                 in_isr, todo, sched_flag, started, foreign, panic, by_irq,
                 missing>>

\* schedule_thread_suspend of a thread other than the caller.
SuspendOther(s) ==
  /\ Holds(s, "susp")
  /\ \E u \in Tid \ {tab.work} :
       /\ tab.status[u] # "NONE"
       /\ tab' = ThreadSwitch(SetTo(tab, u, "SUSPEND"), u)
  /\ Release
  /\ Goto(s, "run")
  /\ UNCHANGED <<spsr, psr, cpu, newtid, armed, in_isr, todo, sched_flag,
                 started, foreign, panic, by_irq, missing>>

-----------------------------------------------------------------------------
(* schedule_timeout *)

\* setup_timer in a section of its own.
SetupTimer(s) ==
  /\ Holds(s, "setup")
  /\ Release
  /\ Goto(s, "mod")
  /\ UNCHANGED <<tab, spsr, psr, cpu, newtid, armed, in_isr, todo,
                 sched_flag, started, foreign, panic, by_irq, missing>>

\* Bug: the timer is armed only after the thread has come back.
ModTimer_Late(s) ==
  /\ Runs(s) /\ pc[s] = "mod"
  /\ Goto(s, "ss")
  /\ UNCHANGED <<armed, tab, lock, preempt_cnt, irq_on, spsr, psr, cpu,
                 newtid, in_isr, todo, sched_flag, started, foreign, panic,
                 by_irq, missing>>

\* mod_timer, outside of any section.
ModTimer(s) ==
  /\ Runs(s) /\ pc[s] = "mod"
  /\ armed' = armed \cup {s}
  /\ Goto(s, "ss")
  /\ UNCHANGED <<tab, lock, preempt_cnt, irq_on, spsr, psr, cpu, newtid,
                 in_isr, todo, sched_flag, started, foreign, panic, by_irq,
                 missing>>

\* schedule_self_suspend: only the target status is set under the lock; the
\* switch is left to the schedule_thread that follows.
SelfSuspend(s) ==
  /\ Holds(s, "ss")
  /\ tab' = SetTo(tab, tab.work, "SUSPEND")
  /\ Release
  /\ Goto(s, "sched")
  /\ UNCHANGED <<spsr, psr, cpu, newtid, armed, in_isr, todo, sched_flag,
                 started, foreign, panic, by_irq, missing>>

\* del_timer, after the thread has come back.
DelTimer(s) ==
  /\ Holds(s, "del")
  /\ armed' = armed \ {s}
  /\ Release
  /\ Goto(s, IF s = BASE THEN "stats" ELSE "run")
  /\ UNCHANGED <<tab, spsr, psr, cpu, newtid, in_isr, todo, sched_flag,
                 started, foreign, panic, by_irq, missing>>

-----------------------------------------------------------------------------
(* schedule_thread and the context switch *)

\* Where schedule_thread returns to: schedule_timeout is on the stack of s
\* exactly when the timer of s is armed.
AfterSchedule(s) ==
  CASE s \in armed -> "del" [] s = BASE -> "stats" [] OTHER -> "run"

\* schedule_thread: the table is switched under the lock, and the lock is
\* released before the context is.
Schedule(s) ==
  /\ Holds(s, "sched")
  /\ tab' = ScheduleThread(tab)
  /\ Release
  /\ Goto(s, IF NullContext(tab) THEN AfterSchedule(s) ELSE "switch")
  /\ UNCHANGED <<spsr, psr, cpu, newtid, armed, in_isr, todo, sched_flag,
                 started, foreign, panic, by_irq, missing>>

\* __switch_to: preempt_disable is its first instruction.
SwitchTo(s) ==
  /\ Runs(s) /\ pc[s] = "switch"
  /\ preempt_cnt' = preempt_cnt + 1
  /\ Goto(s, "restore")
  /\ UNCHANGED <<tab, lock, irq_on, spsr, psr, cpu, newtid, armed, in_isr,
                 todo, sched_flag, started, foreign, panic, by_irq, missing>>

\* _switch_restore: the frame of s keeps SPSR_svc as its status word, and the
\* status word of the next thread goes to SPSR_svc.  The first switch, from
\* start_kernel, touches neither.  The preemption count is lowered.
LoadStatus(s) ==
  /\ preempt_cnt' = preempt_cnt - 1
  /\ IF started
     THEN psr' = [psr EXCEPT ![s] = spsr] /\ spsr' = psr[tab.work]
     ELSE UNCHANGED <<psr, spsr>>
  /\ started' = TRUE
  /\ by_irq' = by_irq \ {tab.work}

\* The core is the next thread's; s will go on behind its schedule_thread.
GiveCore(s) ==
  /\ cpu' = tab.work
  /\ Goto(s, IF s = BOOT THEN "dead" ELSE AfterSchedule(s))

\* Bug: the new thread's CPSR is not restored.
SwitchRestore_KeepCpsr(s) ==
  /\ Runs(s) /\ pc[s] = "restore" /\ tab.work \notin by_irq
  /\ LoadStatus(s) /\ GiveCore(s)
  /\ UNCHANGED <<irq_on, tab, lock, newtid, armed, in_isr, todo, sched_flag,
                 foreign, panic, missing>>

\* The next thread gave the core away itself: its registers and its CPSR are
\* restored before the count is lowered.
SwitchRestore(s) ==
  /\ Runs(s) /\ pc[s] = "restore" /\ tab.work \notin by_irq
  /\ LoadStatus(s) /\ GiveCore(s)
  /\ irq_on' = IF started THEN psr[tab.work] ELSE irq_on
  /\ UNCHANGED <<tab, lock, newtid, armed, in_isr, todo, sched_flag, foreign,
                 panic, missing>>

\* The next thread was preempted by an interrupt: the count is lowered first,
\* while the core still has the CPSR of s and the registers of the switch.
SwitchToIrq(s) ==
  /\ Runs(s) /\ pc[s] = "restore" /\ tab.work \in by_irq
  /\ LoadStatus(s)
  /\ Goto(s, "rfe")
  /\ UNCHANGED <<cpu, irq_on, tab, lock, newtid, armed, in_isr, todo,
                 sched_flag, foreign, panic, missing>>

\* _context_restore_params and the rfeia of _schedule_over.
ReturnFromException(s) ==
  /\ Runs(s) /\ pc[s] = "rfe"
  /\ GiveCore(s)
  /\ irq_on' = psr[tab.work]
  /\ UNCHANGED <<tab, lock, preempt_cnt, spsr, psr, newtid, armed, in_isr,
                 todo, sched_flag, started, foreign, panic, by_irq, missing>>

-----------------------------------------------------------------------------
(* The systick interrupt: do_timer_event and the return path of vectors.S *)

\* The due timers D are about to be served.
IrqEnter(D) ==
  /\ Defined /\ irq_on /\ ~in_isr
  /\ D # {} /\ D \subseteq armed
  /\ in_isr' = TRUE /\ todo' = D
  /\ UNCHANGED <<tab, lock, preempt_cnt, irq_on, spsr, psr, cpu, pc, newtid,
                 armed, sched_flag, started, foreign, panic, by_irq,
                 missing>>

\* Bug: a timer is taken off the list when it has fired once.
SleepTimeout_OneShot(t) ==
  /\ in_isr /\ t \in todo
  /\ todo' = todo \ {t} /\ armed' = armed \ {t}
  /\ tab' = IF lock = NULL /\ tab.status[t] = "SUSPEND"
            THEN ThreadSwitch(SetTo(tab, t, "READY"), t) ELSE tab
  /\ UNCHANGED <<lock, preempt_cnt, irq_on, spsr, psr, cpu, pc, newtid,
                 in_isr, sched_flag, started, foreign, panic, by_irq,
                 missing>>

\* real_thread_sleep_timeout and schedule_thread_wakeup.  A timer that finds
\* the scheduler locked, or its thread not yet suspended, does nothing; it
\* stays armed, so a later tick serves it again.
SleepTimeout(t) ==
  /\ in_isr /\ t \in todo
  /\ todo' = todo \ {t}
  /\ tab' = IF lock = NULL /\ tab.status[t] = "SUSPEND"
            THEN ThreadSwitch(SetTo(tab, t, "READY"), t) ELSE tab
  /\ UNCHANGED <<lock, preempt_cnt, irq_on, spsr, psr, cpu, pc, newtid,
                 armed, in_isr, sched_flag, started, foreign, panic, by_irq,
                 missing>>

\* Bug: preemption is requested without a look at the ready list.
KthreadTimeout_Blind ==
  /\ in_isr /\ PREEMPT \in todo
  /\ todo' = todo \ {PREEMPT}
  /\ \E expired \in BOOLEAN : sched_flag' = expired
  /\ UNCHANGED <<tab, lock, preempt_cnt, irq_on, spsr, psr, cpu, pc, newtid,
                 armed, in_isr, started, foreign, panic, by_irq, missing>>

\* kthread_schedule_timeout: with its slice used up, the running thread gives
\* way to a ready thread whose priority is not lower.
KthreadTimeout ==
  /\ in_isr /\ PREEMPT \in todo
  /\ todo' = todo \ {PREEMPT}
  /\ \E expired \in BOOLEAN :
       sched_flag' = (expired /\ tab.ready # <<>>
                      /\ PrioOf(tab.ready[1]) <= PrioOf(tab.work))
  /\ UNCHANGED <<tab, lock, preempt_cnt, irq_on, spsr, psr, cpu, pc, newtid,
                 armed, in_isr, started, foreign, panic, by_irq, missing>>

\* The handler returns to the interrupted code; a request for preemption is
\* dropped when preempt_cnt is not 0.
IrqReturn ==
  /\ in_isr /\ todo = {}
  /\ sched_flag => preempt_cnt # 0
  /\ in_isr' = FALSE /\ sched_flag' = FALSE
  /\ UNCHANGED <<tab, lock, preempt_cnt, irq_on, spsr, psr, cpu, pc, newtid,
                 armed, todo, started, foreign, panic, by_irq, missing>>

\* Bug: the return path does not look at preempt_cnt.
IrqPreempt_NoCount ==
  /\ in_isr /\ todo = {} /\ sched_flag
  /\ in_isr' = FALSE /\ sched_flag' = FALSE
  /\ panic' = NullContext(tab)
  /\ tab' = ScheduleThread(tab)
  /\ foreign' = IF cpu = tab.work THEN foreign ELSE foreign \cup {tab.work}
  /\ psr' = [psr EXCEPT ![tab.work] = TRUE]
  /\ cpu' = tab'.work
  /\ spsr' = psr'[tab'.work] /\ irq_on' = psr'[tab'.work]
  /\ by_irq' = (by_irq \cup {tab.work}) \ {tab'.work}
  /\ UNCHANGED <<lock, preempt_cnt, pc, newtid, armed, todo, started,
                 missing>>

\* __schedule_before: the interrupted context is saved in the frame of the
\* thread that the table says was running, and the new one is restored, all
\* with interrupts masked.  The assembly uses the context without checking it
\* for null.  The frame is torn when the core still executes another stream:
\* it gets that stream's registers, and loses those not yet restored from it.
IrqPreempt ==
  /\ in_isr /\ todo = {} /\ sched_flag /\ preempt_cnt = 0
  /\ in_isr' = FALSE /\ sched_flag' = FALSE
  /\ panic' = NullContext(tab)
  /\ tab' = ScheduleThread(tab)
  /\ foreign' = IF cpu = tab.work THEN foreign ELSE foreign \cup {tab.work}
  /\ psr' = [psr EXCEPT ![tab.work] = TRUE]
  /\ cpu' = tab'.work
  /\ spsr' = psr'[tab'.work] /\ irq_on' = psr'[tab'.work]
  /\ by_irq' = (by_irq \cup {tab.work}) \ {tab'.work}
  /\ UNCHANGED <<lock, preempt_cnt, pc, newtid, armed, todo, started,
                 missing>>

-----------------------------------------------------------------------------
Undefined == ~Defined /\ UNCHANGED vars

\* "start kernel failed!": start_kernel loops for ever.
StartFailed == Runs(BOOT) /\ pc[BOOT] = "failed" /\ UNCHANGED vars

ThreadStep(s) ==
  \/ Acquire(s)
  \/ GetUnusedTid(s) \/ AllocThread(s) \/ AllocFails(s)
  \/ RegisterNewThread(s) \/ Spawned(s)
  \/ StatsLoop(s) \/ CallScheduler(s) \/ SuspendOther(s)
  \/ SetupTimer(s) \/ ModTimer(s) \/ SelfSuspend(s) \/ DelTimer(s)
  \/ Schedule(s) \/ SwitchTo(s) \/ SwitchRestore(s)
  \/ SwitchToIrq(s) \/ ReturnFromException(s)

Interrupt ==
  \/ \E t \in Tid : SleepTimeout(t)
  \/ KthreadTimeout \/ IrqReturn \/ IrqPreempt

Next ==
  \/ \E s \in Stream : ThreadStep(s) \/ CallService(s)
  \/ \E D \in SUBSET (Tid \cup {PREEMPT}) : IrqEnter(D)
  \/ Interrupt
  \/ Undefined \/ StartFailed

Spec == Init /\ [][Next]_vars
-----------------------------------------------------------------------------
(* Properties *)

Status == {"NONE", "RUNNING", "READY", "SUSPEND"}
Place  == {"idle", "spawn", "alloc", "reg", "stats", "run", "susp", "setup",
           "mod", "ss", "sched", "switch", "restore", "rfe", "del", "dead",
           "failed"}

Table == [status : [Tid -> Status], to_status : [Tid -> Status],
          ready : Seq(Tid), suspend : Seq(Tid), work : Tid \cup {NULL}]

\* Every variable holds a value of its C type; the preemption count, unsigned
\* in the code, never goes below zero.
TypeOK ==
  /\ tab \in Table
  /\ lock \in Stream \cup {NULL}
  /\ preempt_cnt \in Nat
  /\ irq_on \in BOOLEAN /\ spsr \in BOOLEAN /\ psr \in [Tid -> BOOLEAN]
  /\ cpu \in Stream
  /\ pc \in [Stream -> Place]
  /\ newtid \in [Stream -> Tid \cup {NULL}]
  /\ armed \subseteq Tid \cup {PREEMPT} /\ todo \subseteq armed
  /\ in_isr \in BOOLEAN /\ sched_flag \in BOOLEAN /\ started \in BOOLEAN
  /\ foreign \subseteq Tid /\ panic \in BOOLEAN
  /\ by_irq \subseteq Tid /\ missing \subseteq Tid

Distinct(l) == \A i, j \in 1..Len(l) : l[i] = l[j] => i = j

\* The two lists and the running thread agree with the status words.
ListsMatch(T) ==
  /\ Distinct(T.ready) /\ Distinct(T.suspend)
  /\ \A t \in Tid :
       /\ InList(T.ready, t)   <=> T.status[t] = "READY"
       /\ InList(T.suspend, t) <=> T.status[t] = "SUSPEND"
       /\ T.work = t           <=> T.status[t] = "RUNNING"

\* A thread is on the list of its status and on no other, once, and the
\* thread that the table names as running is the only one in that status:
\* no thread is lost or listed twice, whatever calls and ticks interleave
\* (schedule_thread_switch, sched.c).
ListsMatchStatus == ListsMatch(tab)

\* The ready list is sorted from high to low priority, so its first thread is
\* the one to run (__schedule_add_status_list, "priority from high to low").
ReadySorted ==
  \A i, j \in 1..Len(tab.ready) :
    i < j => PrioOf(tab.ready[i]) <= PrioOf(tab.ready[j])

\* Once the scheduler has started there is a running thread, and a thread to
\* switch to unless the idle thread runs: the idle thread is never suspended
\* ("At all times, it is necessary to ensure that at least one thread
\* (including idle threads) is running", sched.c:369).
AlwaysAThread ==
  started => /\ tab.work # NULL
             /\ tab.work # IDLE => InList(tab.ready, IDLE)

\* The interrupt return path uses the context that __schedule_thread returns
\* without a null check (context.S:199): it is never null there.
NoNullContext == ~panic

\* The scheduler lock is held only by the code that the core executes, so the
\* spinning of spin_lock never waits for a thread that cannot run.
LockHolderOnCpu == lock # NULL => lock = cpu

\* A thread that waits in the suspend list has its wakeup timer on the timer
\* list, and a thread that has asked to be suspended has armed it before
\* (schedule_timeout: mod_timer comes first, del_timer only after the return).
SleeperHasTimer ==
  Suspenders = {} =>
    \A t \in Tid :
      tab.status[t] = "SUSPEND" \/ tab.to_status[t] = "SUSPEND" => t \in armed

\* The idle loop never executes with interrupts masked: only an interrupt can
\* take the core away from it (idle.c), so the kernel would stop.
IdleInterruptible == cpu = IDLE => irq_on

\* Preemption by the systick never hands the core to a thread of lower
\* priority ("there is a higher priority thread ready", kthread.c:64),
\* whatever the handler's other callbacks did to the ready list before.
PreemptNotDownward ==
  [][in_isr /\ tab'.work # tab.work =>
       PrioOf(tab'.work) <= PrioOf(tab.work)]_vars

Before(l, t, u) == \E i, j \in 1..Len(l) : i < j /\ l[i] = t /\ l[j] = u

\* Threads that stay ready keep their order, and a thread that becomes ready
\* does not overtake a ready thread whose priority is not lower ("inserting
\* new thread into the tail of thread which is the same priority",
\* sched.c:730).
ReadyFifo ==
  [][\A t, u \in Tid :
       /\ InList(tab.ready, t) /\ InList(tab'.ready, t)
       /\ InList(tab'.ready, u)
       /\ \/ Before(tab.ready, t, u)
          \/ ~InList(tab.ready, u) /\ PrioOf(t) <= PrioOf(u)
       => Before(tab'.ready, t, u)]_vars

\* A target status is only ever pending for the running thread: no request of
\* an earlier call is left to be served by a later schedule.
NoStaleTarget == \A t \in Tid : tab.to_status[t] # "NONE" => tab.work = t

\* "only the running thread need to save context" (sched.c:357): the context
\* saved in a thread's frame is that thread's own.
OwnContext == foreign = {}

\* The scheduler seen by its threads: who runs, who waits, who sleeps.
InStatus(st) == {t \in Tid : tab.status[t] = st}

Abstract == INSTANCE SchedSpec
  WITH Thread <- Tid, Rank <- [t \in Tid |-> PrioOf(t)],
       running <- tab.work, ready <- InStatus("READY"),
       asleep <- InStatus("SUSPEND")

\* Whatever calls, ticks and refused switches interleave, the status words
\* change as an ideal scheduler's would: a new thread is ready first, the core
\* goes to a thread that no ready one outranks, the displaced thread is ready
\* or asleep and never both or neither, a sleeper returns through the ready
\* list, and the idle thread never sleeps (__schedule_thread,
\* schedule_thread_switch, sched.c).
ImplementsScheduler == Abstract!Spec

-----------------------------------------------------------------------------
(* Fairness: between two ticks the core executes the code of its thread,  *)
(* however many ticks there are, and the interrupt handler runs to its    *)
(* end; a thread does not stay in its own code for ever (every loop of    *)
(* the repository's threads calls the scheduler).  The systick is         *)
(* asynchronous to the code: a tick that serves the timer of t and finds  *)
(* the scheduler unlocked cannot be avoided for ever while it is possible *)
(* again and again.                                                       *)

Fairness ==
  /\ \A s \in Stream : SF_vars(ThreadStep(s))
  /\ WF_vars(Interrupt)
  /\ \A t \in Tid :
       SF_vars(lock = NULL /\ \E D \in SUBSET (Tid \cup {PREEMPT}) :
                                t \in D /\ IrqEnter(D))

FairSpec == Spec /\ Fairness

\* A thread that is suspended while its timer is set becomes ready again
\* (kernel.h: "returns to the ready state when the delay ends"), as long as no
\* context is torn; a thread that suspended itself, or that another one did after
\* its sleep, has no timer and waits for a wake-up call.
SleeperWakes ==
  []OwnContext =>
    \A t \in Tid :
      tab.status[t] = "SUSPEND" /\ t \in armed ~> tab.status[t] = "READY"
=============================================================================
