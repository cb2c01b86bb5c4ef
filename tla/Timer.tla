------------------------------- MODULE Timer -------------------------------
(***************************************************************************)
(* Time in the kernel: the tick counter jiffies (common/time.h), the timer *)
(* list that the systick handler walks (common/generic/time.c), the sleep  *)
(* of a thread on a timer (kernel/sleep.c), the periodic preemption timer  *)
(* with its time-slice check (kernel/kthread/kthread.c) and the reload of  *)
(* the slice when a thread gets the core (kernel/sched.c).                 *)
(*                                                                         *)
(* jiffies wraps after MAX, and every comparison is a plain comparison of  *)
(* unsigned numbers; the properties are about what that does.  Which       *)
(* thread gets the core is left open here (Sched.tla decides it), and the  *)
(* scheduler lock is held or free at a tick as the environment likes.      *)
(***************************************************************************)
EXTENDS Integers

CONSTANTS
  Thread,
  BASE, IDLE,    \* the kernel thread of kthread.c; a thread that never sleeps
  MAX,           \* JIFFIES_MAX
  INITVAL,       \* JIFFIES_INITVAL
  PERIOD,        \* msecs_to_jiffies(REAL_THREAD_PREEMPT_PERIOD)
  GUARD,         \* REAL_THREAD_PREEMPT_PERIOD, compared with jiffies as it is
  SLICE,         \* msecs_to_jiffies of the time slice
  Delays         \* the delays that threads ask for, in ticks

ASSUME TimerAssumption ==
  /\ BASE \in Thread /\ IDLE \in Thread /\ BASE # IDLE
  /\ MAX \in Nat /\ INITVAL \in 0..MAX
  /\ PERIOD \in 1..(MAX - 1) /\ SLICE \in 1..(MAX - 1)
  /\ GUARD \in PERIOD..MAX
  /\ Delays \subseteq 0..MAX

VARIABLES
  jiffies,
  cur,           \* the running thread (mrt_current)
  load,          \* how far the reload of cur's slice is
  fresh,         \* in the reload, the end of slice it computed
  where,         \* where each thread is on its way through a sleep
  expires,       \* each thread's count, and expires of its sleep timer
  pt,            \* sgrt_kthread_timer.expires; 0 = not started
  slice,         \* expires of each thread: the end of its slice
  owed,          \* history: ticks that the current sleep still has to last
  turn,          \* history: what the running thread had of its slice
  verdict        \* history: what the slice check said in the last tick

vars == <<jiffies, cur, load, fresh, where, expires, pt, slice, owed, turn,
          verdict>>

Place == {"top", "code", "counted", "armed", "slept", "awake"}
Turn == [ran: 0..SLICE, cut: BOOLEAN, wrapped: BOOLEAN, tracked: BOOLEAN]

NewTurn(cut) == [ran |-> 0, cut |-> cut, wrapped |-> FALSE, tracked |-> FALSE]

TypeOK ==
  /\ jiffies \in 0..MAX /\ cur \in Thread
  /\ load \in {"chosen", "read", "done"} /\ fresh \in 0..MAX
  /\ where \in [Thread -> Place]
  /\ expires \in [Thread -> 0..MAX]
  /\ pt \in 0..MAX /\ slice \in [Thread -> 0..MAX]
  /\ owed \in [Thread -> 0..MAX]
  /\ turn \in Turn
  /\ verdict \in {"none", "refused", "eligible"}

\* Where a thread is outside a sleep: the base thread starts a round of its
\* loop with a look at the preemption timer.
Home(t) == IF t = BASE THEN "top" ELSE "code"

Init ==
  /\ jiffies = INITVAL /\ cur \in Thread
  /\ load = "chosen" /\ fresh = 0
  /\ where = [t \in Thread |-> Home(t)]
  /\ expires = [t \in Thread |-> 0]
  /\ pt = 0 /\ slice = [t \in Thread |-> 0]
  /\ owed = [t \in Thread |-> 0]
  /\ turn = NewTurn(FALSE)
  /\ verdict = "none"

-----------------------------------------------------------------------------
(* The arithmetic of ticks *)

\* get_time_counter (jiffies_out, the count of wraps, is read nowhere).
GetTimeCounter(j) == IF j >= MAX THEN 0 ELSE j + 1

\* jiffies + n in kutime_t: modulo MAX + 1, with n at most MAX.
Add(j, n) == IF j + n > MAX THEN j + n - (MAX + 1) ELSE j + n

\* The test of do_timer_event: expires 0 means "not started".
Due(e, j) == e # 0 /\ j > e

-----------------------------------------------------------------------------
(* A thread's sleep: schedule_delay_ms, schedule_timeout *)

Running(t) == cur = t /\ load = "done"

\* The running thread loses the core, to u; the choice is Sched.tla's.  The
\* end of slice that u has from its last turn stays there until the reload.
GiveCore(u) ==
  /\ cur' = u /\ load' = "chosen"
  /\ turn' = NewTurn(FALSE) /\ verdict' = "none"
  /\ UNCHANGED <<fresh, slice>>

\* schedule_delay_ms computes the tick to wake up on.
Delay(t, n) ==
  /\ Running(t) /\ where[t] = "code" /\ t # IDLE
  /\ where' = [where EXCEPT ![t] = "counted"]
  /\ expires' = [expires EXCEPT ![t] = Add(jiffies, n)]
  /\ owed' = [owed EXCEPT ![t] = n]
  /\ UNCHANGED <<jiffies, cur, load, fresh, pt, slice, turn, verdict>>

\* Bug: the thread sleeps whatever mrt_time_after(count, jiffies) says.
Arm_NoCheck(t) ==
  /\ Running(t) /\ where[t] = "counted"
  /\ where' = [where EXCEPT ![t] = "armed"]
  /\ UNCHANGED <<jiffies, cur, load, fresh, expires, pt, slice, owed, turn, verdict>>

\* The count is after jiffies, which is read again: schedule_timeout, up to
\* its mod_timer (a count of 0, which it looks for, cannot come here).
Arm(t) ==
  /\ Running(t) /\ where[t] = "counted" /\ expires[t] > jiffies
  /\ where' = [where EXCEPT ![t] = "armed"]
  /\ UNCHANGED <<jiffies, cur, load, fresh, expires, pt, slice, owed, turn, verdict>>

\* The count is not after jiffies (no ticks asked for, they have passed, or
\* the sum wrapped): the call returns at once.
DelayReturns(t) ==
  /\ Running(t) /\ where[t] = "counted" /\ ~(expires[t] > jiffies)
  /\ where' = [where EXCEPT ![t] = Home(t)]
  /\ expires' = [expires EXCEPT ![t] = 0]
  /\ owed' = [owed EXCEPT ![t] = 0]
  /\ UNCHANGED <<jiffies, cur, load, fresh, pt, slice, turn, verdict>>

\* schedule_self_suspend.  A tick may have come since mod_timer.
Suspend(t, u) ==
  /\ Running(t) /\ where[t] = "armed"
  /\ u # t /\ where[u] # "slept"
  /\ where' = [where EXCEPT ![t] = "slept"]
  /\ GiveCore(u)
  /\ UNCHANGED <<jiffies, expires, pt, owed>>

\* The end of schedule_timeout: del_timer, and back in the caller; the timer
\* was on the thread's stack.
Return(t) ==
  /\ Running(t) /\ where[t] = "awake"
  /\ where' = [where EXCEPT ![t] = Home(t)]
  /\ expires' = [expires EXCEPT ![t] = 0]
  /\ UNCHANGED <<jiffies, cur, load, fresh, pt, slice, owed, turn, verdict>>

-----------------------------------------------------------------------------
(* The base thread's loop, and thread switches *)

\* One round of kthread_entry up to its schedule_delay_ms.
Loop ==
  /\ Running(BASE) /\ where[BASE] = "top"
  /\ where' = [where EXCEPT ![BASE] = "code"]
  /\ pt' = IF pt = 0 THEN Add(jiffies, PERIOD) ELSE pt
  /\ UNCHANGED <<jiffies, cur, load, fresh, expires, slice, owed, turn, verdict>>

\* schedule_thread, called or forced by the systick: another thread, or the
\* same one again, gets the core.
Dispatch(u) ==
  /\ load = "done" /\ where[u] # "slept"
  /\ GiveCore(u)
  /\ UNCHANGED <<jiffies, where, expires, pt, owed>>

\* __real_thread_init_before reads jiffies, and a full slice begins ...
ReloadRead ==
  /\ load = "chosen" /\ load' = "read"
  /\ fresh' = Add(jiffies, SLICE)
  /\ turn' = NewTurn(jiffies + SLICE > MAX)
  /\ UNCHANGED <<jiffies, cur, where, expires, pt, slice, owed, verdict>>

\* ... and stores its end.  What the check said before was about another turn.
ReloadStore ==
  /\ load = "read" /\ load' = "done"
  /\ slice' = [slice EXCEPT ![cur] = fresh]
  /\ fresh' = 0 /\ verdict' = "none"
  /\ UNCHANGED <<jiffies, cur, where, expires, pt, owed, turn>>

-----------------------------------------------------------------------------
(* The systick *)

\* The running thread had one more tick of its slice.
Ran(j) == IF load = "chosen" THEN turn
          ELSE [turn EXCEPT !.ran = IF @ < SLICE THEN @ + 1 ELSE @,
                            !.wrapped = @ \/ j = 0]

\* Bug: the end of an exhausted slice follows jiffies up to the wrap.
TrackedEnd_NoGuard(j) == j

\* What kthread_schedule_timeout makes of the end of an exhausted slice.
TrackedEnd(j) == IF MAX - j <= GUARD THEN 0 ELSE j

\* Bug: the timer is not set again when the slice is not used up.
PreemptTimeout_NoRearm(j) ==
  \/ /\ j < slice[cur]
     /\ verdict' = "refused" /\ turn' = Ran(j) /\ UNCHANGED <<pt, slice>>
  \/ /\ ~(j < slice[cur]) /\ pt' = Add(j, PERIOD)
     /\ verdict' = "eligible"
     /\ slice' = [slice EXCEPT ![cur] = TrackedEnd(j)]
     /\ turn' = [Ran(j) EXCEPT !.tracked = load = "done"]

\* kthread_schedule_timeout: the slice check, whatever the reload of the
\* slice has come to (whether a thread of higher priority waits, and the
\* preemption that follows, is Sched.tla's), then the timer is set again.
PreemptTimeout(j) ==
  /\ pt' = Add(j, PERIOD)
  /\ \/ /\ j < slice[cur]
        /\ verdict' = "refused" /\ turn' = Ran(j) /\ UNCHANGED slice
     \/ /\ ~(j < slice[cur])
        /\ verdict' = "eligible"
        /\ slice' = [slice EXCEPT ![cur] = TrackedEnd(j)]
        /\ turn' = [Ran(j) EXCEPT !.tracked = load = "done"]

\* real_thread_sleep_timeout wakes a suspended thread, not a thread that is
\* still on its way to the suspension.
Wakes(t, j) == where[t] = "slept" /\ Due(expires[t], j)

\* Bug: a timer that was due is taken off, whatever its callback could do.
Tick_OneShot(locked) ==
  LET j == GetTimeCounter(jiffies) IN
  /\ jiffies' = j
  /\ where' = [t \in Thread |-> IF ~locked /\ Wakes(t, j) THEN "awake"
                                ELSE where[t]]
  /\ expires' = [t \in Thread |-> IF Due(expires[t], j) THEN 0
                                  ELSE expires[t]]
  /\ owed' = [t \in Thread |-> IF owed[t] > 0 THEN owed[t] - 1 ELSE 0]
  /\ \/ Due(pt, j) /\ PreemptTimeout(j)
     \/ /\ ~Due(pt, j)
        /\ verdict' = "none" /\ turn' = Ran(j) /\ UNCHANGED <<pt, slice>>
  /\ UNCHANGED <<cur, load, fresh>>

\* imx6_systick_isr: get_time_counter, then do_timer_event.  With the
\* scheduler lock held, real_thread_sleep_timeout does nothing.
Tick(locked) ==
  LET j == GetTimeCounter(jiffies) IN
  /\ jiffies' = j
  /\ where' = [t \in Thread |-> IF ~locked /\ Wakes(t, j) THEN "awake"
                                ELSE where[t]]
  /\ owed' = [t \in Thread |-> IF owed[t] > 0 THEN owed[t] - 1 ELSE 0]
  /\ \/ Due(pt, j) /\ PreemptTimeout(j)
     \/ /\ ~Due(pt, j)
        /\ verdict' = "none" /\ turn' = Ran(j) /\ UNCHANGED <<pt, slice>>
  /\ UNCHANGED <<cur, load, fresh, expires>>

Sleep(t) ==
  \/ \E n \in Delays : Delay(t, n)
  \/ Arm(t) \/ DelayReturns(t)
  \/ \E u \in Thread : Suspend(t, u)
  \/ Return(t)

Next ==
  \/ \E t \in Thread : Sleep(t) \/ Dispatch(t)
  \/ Loop \/ ReloadRead \/ ReloadStore
  \/ \E locked \in BOOLEAN : Tick(locked)

Spec == Init /\ [][Next]_vars

\* The tick goes on, a thread that is due is not for ever found with the
\* scheduler lock held, and a context switch comes to its end.
Fairness ==
  /\ WF_vars(\E locked \in BOOLEAN : Tick(locked))
  /\ \A t \in Thread :
       SF_vars(Wakes(t, GetTimeCounter(jiffies)) /\ Tick(FALSE))
  /\ WF_vars(ReloadRead) /\ WF_vars(ReloadStore)

FairSpec == Spec /\ Fairness

-----------------------------------------------------------------------------
(* Properties *)

\* A thread that is back from a sleep slept at least the ticks it asked for,
\* also when the counter wrapped in between (schedule_delay_ms).
NoEarlyWake == \A t \in Thread : where[t] = "awake" => owed[t] = 0

\* The preemption timer, once started, fires again within PERIOD + 1 ticks
\* (kthread_schedule_timeout re-arms it in every branch); it can stop on the
\* two values 0 and MAX only, which do_timer_event never finds due.
PreemptDue ==
  pt \notin {0, MAX} =>
    \/ pt \in jiffies..(jiffies + PERIOD)
    \/ pt \in (jiffies - (MAX + 1))..(jiffies + PERIOD - (MAX + 1))

\* The slice check of kthread_schedule_timeout errs in two places only.  From
\* the choice of a thread to the end of __real_thread_init_before it judges by
\* the end of an earlier turn, and may write there, but nothing of that is
\* left once the slice is reloaded.  After that, around a wrap: it lets a
\* thread be preempted early only when the end of its slice wrapped, and
\* protects a thread beyond its slice only when the counter wrapped before
\* the check had once found the slice used up.
SliceCheck ==
  /\ verdict = "eligible" => load # "done" \/ turn.ran = SLICE \/ turn.cut
  /\ verdict = "refused" =>
       \/ load # "done" \/ turn.ran < SLICE
       \/ turn.wrapped /\ ~turn.tracked

\* A sleeping thread whose timer is not set to MAX wakes up, even if the tick
\* that should wake it finds the thread not suspended yet or the scheduler
\* lock held: do_timer_event calls a due timer again on every tick.
SleeperWakes ==
  \A t \in Thread :
    where[t] = "slept" /\ expires[t] # MAX ~> where[t] # "slept"
=============================================================================
