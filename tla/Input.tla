------------------------------- MODULE Input -------------------------------
(***************************************************************************)
(* How an input event travels from its interrupt to a blocked reader: the  *)
(* wait queue (kernel/wait.c, wait.h), the work queue (workqueue.h) and the*)
(* kworker thread, with the key driver (extkey.c) and the touch screen     *)
(* driver (tsc2007.c) as their clients.  An interrupt can fall between any *)
(* two steps.  A section under spin_lock_irqsave is two steps: the lock is *)
(* taken, and then interrupts are masked and the rest is done.  In between *)
(* the handler of the key can spin on a lock that nobody can release.      *)
(***************************************************************************)
EXTENDS Integers, Sequences, FiniteSets

CONSTANTS
  KeyReader, TouchReader,  \* threads that read /dev/input/event0, event1
  SAMPLES                  \* samples of a touch, 6 in the code

ASSUME InputAssumption ==
  /\ KeyReader \cap TouchReader = {}
  /\ SAMPLES \in Nat \ {0}

Reader == KeyReader \cup TouchReader
Dev == {"key", "touch"}
dev(t) == IF t \in KeyReader THEN "key" ELSE "touch"

VARIABLES
  task,          \* task[d]: the wait queue of the driver, a list of threads
  signal,        \* signal[t]: the signal flags of the thread
  ready,         \* ready[d]: wake of the key, is_can_read of the touch screen
  data,          \* the position of the touch screen: "avg" is a result
  work,          \* the touch screen's work is on the list of the kworker
  pc, kworker,   \* where the readers and the kworker are
  sample,        \* samples taken by the running work
  hung,          \* the handler of the key spins for ever
  unseen,        \* history: an edge since the pin was last sampled
  late           \* history: the last edge came after a sample, before the
                 \* store that ends what the sample was for

qvars == <<task, signal>>
kvars == <<data, work, kworker, sample>>
vars == <<task, signal, ready, kvars, pc, hung, unseen, late>>

Init ==
  /\ task = [d \in Dev |-> <<>>]
  /\ signal = [t \in Reader |-> {}]
  /\ ready = [d \in Dev |-> FALSE]
  /\ data = "none" /\ work = FALSE
  /\ pc = [t \in Reader |-> "user"]
  /\ kworker = "check" /\ sample = 0
  /\ unseen = [d \in Dev |-> FALSE]
  /\ late = [d \in Dev |-> FALSE] /\ hung = FALSE

At(t, p) == pc[t] = p
Goto(t, p) == pc' = [pc EXCEPT ![t] = p]
InList(t, d) == \E i \in 1..Len(task[d]) : task[d][i] = t

-----------------------------------------------------------------------------
(* Interrupts *)

\* wake_up: the threads on the queue whose NORMAL flag is set get WAKEUP.
\* They are not made ready: a plain wait polls.
wake_up(d) ==
  signal' = [t \in Reader |->
               IF InList(t, d) /\ "NORMAL" \in signal[t]
               THEN signal[t] \cup {"WAKEUP"} ELSE signal[t]]

\* In a handler wake_up spins for ever if the thread below has the lock of the
\* queue, or is to be woken and has its own lock; an empty queue is not locked.
WakeHangs ==
  \E t \in KeyReader :
    \/ pc[t] \in {"adding", "removing"} /\ task["key"] # <<>>
    \/ /\ pc[t] \in {"setting", "clearing"}
       /\ InList(t, "key") /\ "NORMAL" \in signal[t]

Edge(d, after) ==
  /\ unseen' = [unseen EXCEPT ![d] = TRUE]
  /\ late' = [late EXCEPT ![d] = after]

\* A reader has sampled the pin and has not stored wake = false yet.
KeySampled == \E t \in KeyReader : pc[t] = "done"

\* Bug: the interrupt only wakes.
extkey_driver_isr_WakesOnly ==
  /\ ~hung /\ Edge("key", KeySampled)
  /\ \/ WakeHangs /\ hung' = TRUE /\ UNCHANGED signal
     \/ ~WakeHangs /\ wake_up("key") /\ UNCHANGED hung
  /\ UNCHANGED <<task, ready, kvars, pc>>

\* (Which flags were set before the handler hangs does not matter any more.)
extkey_driver_isr ==
  /\ ~hung /\ Edge("key", KeySampled)
  /\ ready' = [ready EXCEPT !["key"] = TRUE]
  /\ \/ WakeHangs /\ hung' = TRUE /\ UNCHANGED signal
     \/ ~WakeHangs /\ wake_up("key") /\ UNCHANGED hung
  /\ UNCHANGED <<task, kvars, pc>>

\* while (spin_is_locked(sprt_lock));
Spin == hung /\ UNCHANGED vars

\* The work has sampled the pin; whether it will again is open.
Sampled == {"adc", "save", "ready", "wake", "detach"}

\* schedule_work: a work that is on the list is not queued again.
tsc2007_touch_isr ==
  /\ ~hung /\ Edge("touch", kworker \in Sampled)
  /\ work' = TRUE
  /\ UNCHANGED <<qvars, ready, data, kworker, sample, pc, hung>>

-----------------------------------------------------------------------------
(* wait_event and the read functions of the drivers *)

\* The first test of wait_event; O_NONBLOCK returns -ER_NREADY instead.
Read(t) ==
  /\ At(t, "user")
  /\ \/ ready[dev(t)] /\ Goto(t, "copy")
     \/ ~ready[dev(t)] /\ Goto(t, "add")
     \/ ~ready[dev(t)] /\ UNCHANGED pc
  /\ UNCHANGED <<qvars, ready, kvars, hung, unseen, late>>

\* spin_lock_irqsave up to its atomic_inc, of the queue's lock to add and to
\* remove an entry, of the thread's own lock to set and to clear its state.
Lock(t) ==
  /\ \/ At(t, "add") /\ Goto(t, "adding")
     \/ At(t, "set") /\ Goto(t, "setting")
     \/ At(t, "clr") /\ Goto(t, "clearing")
     \/ At(t, "remove") /\ Goto(t, "removing")
  /\ UNCHANGED <<qvars, ready, kvars, hung, unseen, late>>

add_wait_queue(t) ==
  /\ At(t, "adding")
  /\ task' = [task EXCEPT ![dev(t)] = Append(@, t)]
  /\ Goto(t, "set")
  /\ UNCHANGED <<signal, ready, kvars, hung, unseen, late>>

\* real_thread_state_signal, before and after the loop
SetState(t) ==
  /\ At(t, "setting")
  /\ signal' = [signal EXCEPT ![t] = @ \cup {"NORMAL"}]
  /\ Goto(t, "loop")
  /\ UNCHANGED <<task, ready, kvars, hung, unseen, late>>

\* Bug: the loop waits for the signal instead of the condition.
Loop_Signal(t) ==
  /\ At(t, "loop") /\ "WAKEUP" \in signal[t]
  /\ Goto(t, "clr")
  /\ UNCHANGED <<qvars, ready, kvars, hung, unseen, late>>

\* The loop of __wait_event: without the condition schedule_thread is called
\* and the test is made again.
Loop(t) ==
  /\ At(t, "loop") /\ ready[dev(t)]
  /\ Goto(t, "clr")
  /\ UNCHANGED <<qvars, ready, kvars, hung, unseen, late>>

\* Bug: the entry stays on the queue.
ClrState_KeepsEntry(t) ==
  /\ At(t, "clearing")
  /\ signal' = [signal EXCEPT ![t] = @ \ {"NORMAL"}]
  /\ Goto(t, "copy")
  /\ UNCHANGED <<task, ready, kvars, hung, unseen, late>>

ClrState(t) ==
  /\ At(t, "clearing")
  /\ signal' = [signal EXCEPT ![t] = @ \ {"NORMAL"}]
  /\ Goto(t, "remove")
  /\ UNCHANGED <<task, ready, kvars, hung, unseen, late>>

\* The queue l without the entry of t
list_head_del(l, t) ==
  LET p == CHOOSE i \in 1..Len(l) : l[i] = t
  IN  [k \in 1..(Len(l) - 1) |-> IF k < p THEN l[k] ELSE l[k + 1]]

remove_wait_queue(t) ==
  /\ At(t, "removing")
  /\ task' = [task EXCEPT ![dev(t)] = list_head_del(@, t)]
  /\ Goto(t, "copy")
  /\ UNCHANGED <<signal, ready, kvars, hung, unseen, late>>

\* The key's pin is sampled here; the touch screen's was by the work.
Copy(t) ==
  /\ At(t, "copy")
  /\ unseen' = IF t \in KeyReader THEN [unseen EXCEPT !["key"] = FALSE] ELSE unseen
  /\ Goto(t, "done")
  /\ UNCHANGED <<qvars, ready, kvars, hung, late>>

\* The buffer is too small for the events of a touch.
Refuse(t) ==
  /\ At(t, "copy") /\ t \in TouchReader
  /\ Goto(t, "user")
  /\ UNCHANGED <<qvars, ready, kvars, hung, unseen, late>>

\* wake = false; is_can_read = false;
Done(t) ==
  /\ At(t, "done")
  /\ ready' = [ready EXCEPT ![dev(t)] = FALSE]
  /\ Goto(t, "user")
  /\ UNCHANGED <<qvars, kvars, hung, unseen, late>>

-----------------------------------------------------------------------------
(* kworker_entry and tsc2007_touch_half_isr *)

KGoto(p) == kworker' = p /\ UNCHANGED <<task, pc>>

\* is_workqueue_empty: 200 ms of sleep, or the function of the first work.
Check ==
  /\ kworker = "check"
  /\ KGoto(IF work THEN "pin" ELSE "sleep")
  /\ sample' = 0
  /\ UNCHANGED <<signal, ready, data, work, hung, unseen, late>>

Wake ==
  /\ kworker = "sleep"
  /\ KGoto("check")
  /\ UNCHANGED <<signal, ready, data, work, sample, hung, unseen, late>>

\* The pin tells whether the screen is still touched.
SamplePin ==
  /\ kworker = "pin"
  /\ unseen' = [unseen EXCEPT !["touch"] = FALSE]
  /\ \E is_touch \in BOOLEAN :
       /\ KGoto(IF is_touch THEN "adc" ELSE "detach")
       /\ data' = IF is_touch THEN data ELSE "zero"
  /\ UNCHANGED <<signal, ready, work, sample, hung, late>>

\* Bug: a sample without pressure ends the work and leaves the raw position.
SampleAdc_Raw ==
  /\ kworker = "adc"
  /\ data' = "raw"
  /\ sample' = sample + 1
  /\ \E p \in {"detach", IF sample + 1 < SAMPLES THEN "pin" ELSE "save"} : KGoto(p)
  /\ UNCHANGED <<signal, ready, work, hung, unseen, late>>

\* Four i2c transfers; an error or no pressure ends the work without result.
SampleAdc ==
  /\ kworker = "adc"
  /\ \/ /\ KGoto("detach") /\ data' = "zero" /\ UNCHANGED sample
     \/ /\ data' = "raw"
        /\ sample' = sample + 1
        /\ KGoto(IF sample + 1 < SAMPLES THEN "pin" ELSE "save")
  /\ UNCHANGED <<signal, ready, work, hung, unseen, late>>

\* The average is stored, then is_can_read, and then the readers are woken.
Save ==
  /\ kworker = "save"
  /\ data' = "avg"
  /\ KGoto("ready")
  /\ UNCHANGED <<signal, ready, work, sample, hung, unseen, late>>

SetReady ==
  /\ kworker = "ready"
  /\ ready' = [ready EXCEPT !["touch"] = TRUE]
  /\ KGoto("wake")
  /\ UNCHANGED <<signal, data, work, sample, hung, unseen, late>>

WakeReaders ==
  /\ kworker = "wake"
  /\ wake_up("touch")
  /\ KGoto("detach")
  /\ UNCHANGED <<ready, data, work, sample, hung, unseen, late>>

\* detach_work: a request made since the last sample goes with it.
Detach ==
  /\ kworker = "detach"
  /\ work' = FALSE
  /\ KGoto("check")
  /\ UNCHANGED <<signal, ready, data, sample, hung, unseen, late>>

-----------------------------------------------------------------------------
\* A thread that holds a spin lock keeps the core.
Section == {"adding", "setting", "clearing", "removing"}
Schedulable(T) == ~hung /\ \A u \in Reader \ T : pc[u] \notin Section

Isr == extkey_driver_isr \/ tsc2007_touch_isr
ReaderStep(t) ==
  /\ Schedulable({t})
  /\ \/ Read(t) \/ Lock(t) \/ add_wait_queue(t) \/ SetState(t) \/ Loop(t)
     \/ ClrState(t) \/ remove_wait_queue(t) \/ Copy(t) \/ Refuse(t) \/ Done(t)
Kworker ==
  /\ Schedulable({})
  /\ \/ Check \/ Wake \/ SamplePin \/ SampleAdc
     \/ Save \/ SetReady \/ WakeReaders \/ Detach

Next == Isr \/ Spin \/ (\E t \in Reader : ReaderStep(t)) \/ Kworker

Spec == Init /\ [][Next]_vars

\* The applications read in an endless loop.  The kworker has a higher priority
\* than they have, and a thread that polls hands the core to the next one, so
\* each gets it again and again, and not only inside another's section.
\* That a transfer of the work ends is not assumed (see Mutex and I2c).
FairSpec ==
  /\ Spec
  /\ \A t \in Reader : SF_vars(ReaderStep(t))
  /\ SF_vars(Kworker /\ kworker # "adc")
-----------------------------------------------------------------------------
(* Properties *)

Waiting ==
  {"set", "setting", "loop", "clr", "clearing", "remove", "removing"}
Running == {"pin", "adc", "save", "ready", "wake", "detach"}

\* wait.h: the entry of a wait queue lies on the stack of the waiting thread,
\* so a thread is on the queue of its device exactly while it is between
\* add_wait_queue and remove_wait_queue, and once.
NoDanglingEntry ==
  \A t \in Reader, d \in Dev :
    Cardinality({i \in 1..Len(task[d]) : task[d][i] = t})
      = IF d = dev(t) /\ pc[t] \in Waiting THEN 1 ELSE 0

\* extkey_driver_isr, schedule_work: an edge nobody has looked at yet still
\* lets a read through, or has its work on the list, unless it came between
\* the sample and the store of a read (extkey.c:131-134), or after a sample of
\* the work and before its removal (kworker.c:56-58).  No other reader, no
\* read that began before the edge and no earlier request takes it away.
EdgePending ==
  /\ unseen["key"] /\ ~late["key"] => ready["key"]
  /\ unseen["touch"] /\ ~late["touch"] => work

\* tsc2007_touch_half_isr: raw samples are in the shared position only while
\* the work runs; a reader that comes at any other time finds a result, or the
\* zero of a failed run.
RawOnlyWhileRunning ==
  ready["touch"] /\ kworker \notin Running => data \in {"avg", "zero"}

\* Every edge is looked at in the end, by a reader or by the work, unless it
\* came late, the handler of the key hangs in a lock of the thread it
\* interrupted, or a transfer of the work never ends.  In particular no
\* wake-up is missed between the test of wait_event and its entry on the
\* queue.
EdgeSeen ==
  /\ unseen["key"] ~> ~unseen["key"] \/ late["key"] \/ hung
  /\ \/ unseen["touch"] ~> ~unseen["touch"] \/ late["touch"] \/ hung
     \/ <>[](kworker = "adc")
=============================================================================
