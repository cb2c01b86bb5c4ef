# TLA+ specification of the HeavenFox kernel

HeavenFox is a small kernel in C and ARM assembly, modelled on Linux, for the
i.MX6ULL (one ARMv7 core). It has threads with priorities and time slices,
sleeping on a timer list, spin locks, mutexes, semaphores, wait queues,
mailboxes, a work queue, a memory pool, a virtual file system and a driver
framework. This directory specifies threads, time and locks, on which the rest
stands, and what is built on them: waiting for events and deferred work, mail
between threads, the memory pool, the descriptor table and transfers on the
i2c bus. `PROJECT.json` maps every definition to the source lines it
models.

The build is taken as it is configured in `src/configs`: `CONFIG_PREEMPT` 1,
`CONFIG_ROLL_POLL` 0, `CONFIG_HZ` 100, one core.

## 1. The system

### What runs

The core executes one *stream* at a time: `start_kernel` before the first
switch, then the threads. The only asynchronous event that matters to the core
logic is an interrupt: the systick, which counts `jiffies`, walks the timer
list and may request a preemption, and device interrupts, which wake waiters.
There is no second core and there are no messages between machines; nothing is
persistent. What is hard is therefore: an interrupt between any two
instructions that are not masked; state that is read before and used after such
a point; the wrap of the tick counter; threads waiting for each other.

### Components

| Component | State | Operations | Interacts with | What makes it correct |
|---|---|---|---|---|
| Thread table (`kernel/sched.c`) | status, to_status per thread; ready and suspend lists sorted by priority; running thread; table lock | register, schedule, self-suspend, suspend another, wake up, switch | everything that sleeps or waits; the systick | lists agree with statuses; always a thread to run; requests are not left behind; order among equals |
| Thread creation (`kernel/thread.c`) | attributes, stacks | create kernel, idle and user threads | thread table, memory pool | a tid is given once; the priority asked for is the one used |
| Context switch (`arch/arm/kernel/context.S`, `lib/vectors.S`) | frames, CPSR and SPSR, `g_asm_sched_flag`, preempt count | `context_switch`; preemption on return from IRQ | thread table | a context is saved in its own frame; the context is never null |
| Spin lock (`kernel/spinlock.c`) | counter, saved CPSR, preempt count | lock, try, unlock in plain, irq and irqsave variants | all critical sections | one owner; the section is masked; the mask is restored |
| Time (`common/generic/time.c`, `common/time.h`, systick) | `jiffies`, timer list | setup, mod, del, do_timer_event | sleep, preemption | a timer is due once its time has passed, also at the wrap |
| Sleep (`kernel/sleep.c`) | one timer per sleeping thread | delay, timeout, wake-up in the handler | table, timers | at least the delay, and not for ever |
| Kernel threads (`kernel/kthread`) | preemption timer | idle loop, base, init, kworker; time-slice check | table, timers | the idle loop can be interrupted; slices are honoured |
| Mutex (`kernel/mutex.c`) | counter | lock, try, unlock | scheduler (polling) | one owner; becomes free |
| Semaphore (`kernel/semaphore.c`) | unsigned counter | down, try, up | scheduler (polling) | permits neither invented nor lost |
| Wait queue (`kernel/wait.c`, `wait.h`) | queue per event, signal flags per thread | wait_event family, wake_up | drivers' interrupt handlers | no lost wake-up; no entry outlives its wait |
| Mailbox (`kernel/mailbox.c`) | box, list of mails, a mutex in each | create, send, receive, destroy | mutex, sleep, memory pool | the list holds the unread mails; locks are released on every path; mail is read |
| Work queue (`workqueue.h`, `kworker.c`) | list of works | queue, run, detach | interrupt handlers | each request leads to a run |
| Memory pool (`fwk_mempool.c`, `mem_simple.c`) | block list | allocate, free | everything | nothing is handed out twice, nothing is lost |
| Descriptors, VFS (`fwk_fcntl.c`, `fwk_inode.c`, `fwk_fs.c`) | two-level table of files, highest descriptor, count | open, close, read, write | character devices | an open descriptor names its file until closed |
| kobject/kset | tree, reference counts | get, put, add, del | VFS, devices | an object lives while referenced |
| IRQ framework (`platform/irq`) | descriptors, domains, actions | alloc, map, request, handle | drivers | hardware and virtual numbers stay one to one |
| Radix tree, trie | trees | insert, find, delete | IRQ, drivers | they behave like maps |
| i2c (`drivers/i2c/imx-i2c.c`) | control and status bits, clock, mutex | transfer of messages | mutex, wait queue | transfers end and release the bus; bytes are answered as the protocol wants |
| Input and other drivers (`extkey.c`, `tsc2007.c`, ...) | flags, wait queues, works | probe, read, write, isr | wait queues, work queue, i2c | events are not lost |
| gpio, pinctrl, clk, framebuffer, mmc, fatfs, usb, net, device tree, boot, example, dtc | - | - | - | not specified (section 7) |

The hazards of this code, each at its line and with the properties that would
catch it, are the `hazards` of `PROJECT.json`.

## 2. Modules

| Module | Models | State | Actions |
|---|---|---|---|
| `Sched` | `sched.c`, `thread.c`, `sleep.c`, `kthread/*.c`, `context.S`, `vectors.S` | `tab` (the table), `lock`, `preempt_cnt`, `irq_on`, `spsr`/`psr` (mask bit in SPSR and in the frames), `by_irq` (who was saved on an interrupt), `cpu`, `pc`, `armed`, `in_isr`, `todo`, `sched_flag`, `missing` (threads there was no memory for) | creation (`GetUnusedTid`, `AllocThread`, `AllocFails`, `RegisterNewThread`), sleeping (`SetupTimer`, `ModTimer`, `SelfSuspend`, `DelTimer`), `Schedule`, `SwitchTo`, `SwitchRestore`, `SwitchToIrq` and `ReturnFromException`, `SuspendOther`, the systick (`IrqEnter`, `SleepTimeout`, `KthreadTimeout`, `IrqReturn`, `IrqPreempt`) |
| `SchedSpec` | - | `running`, `ready`, `asleep` | create, start, yield, sleep, suspend, wake: the abstract scheduler |
| `SpinLock` | `spinlock.c`, `atomic` and CPSR accessors | counter, flag, preempt count, mask, saved masks, `pc` | one per instruction that another stream can see, `Nested` for the sections of other locks inside one |
| `LockSpec` | - | `holder` | take, release: the abstract lock |
| `Timer` | `time.c`, `time.h`, `sleep.c`, the time-slice check | `jiffies`, sleep timers, preemption timer, end of slice of each thread, how far the switch has come | the steps of a delay, `Loop` of the base thread, `Dispatch`, `ReloadRead` and `ReloadStore` of a slice, `Tick` |
| `Mutex` | `mutex.c` | counter, running thread, ready list | test, increment, decrement, sleep, wake, poll for an event, preempt |
| `Semaphore` | `semaphore.c` | unsigned counter | test, decrement, increment, preempt |
| `Input` | `wait.c`, `wait.h`, `workqueue.h`, `kworker.c`, read and interrupt paths of `extkey.c` and `tsc2007.c` | wait queues, signal flags, the flags of the drivers, the position, the work, `pc`, `hung` | the interrupts, the steps of a read through `wait_event`, the steps of the kworker and of the touch screen's work |
| `Mailbox` | `mailbox.c`, `list_types.h`, the loops of `button_app.c` and `light_app.c` | links of box and mails, who created each piece of memory, the mutex of each mail, `pc` | send, receive and destroy, one step per lock, per store of a list operation and per free |
| `MemPool` | `mem_simple.c`, `fwk_mempool.c` | block headers, pieces handed out | `Kmalloc`, `KmallocFails`, `Kfree` |
| `FdTable` | `fwk_fcntl.c` | both arrays, `max_fdset`, `ref_fdarr`, mutex, `pc` | open and close, one step per critical section and, outside of one, per test, allocation, turn of the search, read and store |
| `I2c` | `imx-i2c.c` | mutex, clock, control and status bits, messages, answers | start, restart, address, byte written, byte read, stop, each with its failures; the bus; the controller, which finishes a byte or does not |

`SchedProofs`, `SpinLockMemPoolProofs`, `TimerSemaphoreProofs`, `MutexProofs`,
`I2cProofs`, `FdTableProofs`, `InputProofs` and `MailboxProofs` hold the
theorems; the `MC*` modules hold the instances for TLC. Two of the proof modules
extend two components each; that is why `MemPool` and `Semaphore` name their
formulas `PoolInit`, `PoolSpec`, `SemaInit`, `SemaSpec` and so on.

How they fit together. `SpinLock` works at the level of single instructions
and shows that a `spin_lock_irqsave` section is atomic for threads once it is
taken; `Sched` relies on this and has two steps for a section, `Acquire` and
the body, because an interrupt can still fall between them. `SchedSpec` is what
`Sched` promises to everything above it, with no lists, lock, frames or ticks: a
thread is running, ready or asleep, the core goes to a best ready thread, and the
idle thread never sleeps; `Sched!Abstract` maps the statuses of the table to it.
`Sched` leaves to
each tick which timers are due; `Timer` has the arithmetic, and leaves to the
environment who runs and whether the table lock is held. `Mutex` keeps the part
of the scheduler that decides about it, the sorted ready list. The modules above
the kernel take their locks as `SpinLock` and `Mutex` justify them: a
`spin_lock_irqsave` section (`wake_up`, `kmalloc`) is one step, a mutex has one
holder. `Input` composes five files, because an event is lost or not only
between them; there the handler of the keys takes the locks of the readers too, so
a reader's section is two steps with an interrupt possible in between.

Points of correspondence worth knowing:

* `spin_unlock_irqrestore` enables interrupts when the saved CPSR says they were
  masked, and leaves them masked when they were enabled (`spinlock.c:179`);
  `Sched` keeps that behaviour: `Release` negates `irq_on`, and so does every
  other irqsave section a thread passes (`CallService`, `AllocThread`).
* SPSR of the supervisor mode is not initialised before the first switch: its
  mask bit is any Boolean in `Init`.
* When a context was saved in a foreign frame or a null context was used, what
  the processor does is undefined; `Sched` stops there (`Undefined`), and the
  other invariants are judged on everything before.
* The status `NR_THREAD_SLEEP` and its list have no caller and are left out.
  `schedule_thread_suspend` has none in the repository either, but is exported:
  the run `sched_live` calls it, for other threads and for the caller itself.
* `__switch_to` restores a context that an interrupt saved in two steps
  (`SwitchToIrq`, `ReturnFromException`): the preempt count is lowered
  (`context.S:153`) before the frame is loaded, so a tick can fall between them.
* Creating a thread can fail for want of memory (`AllocFails`): `start_kernel` then
  stops, every other caller goes on without the thread. One failure is left out,
  that of the idle thread, which `main.c:79` ignores: a kernel without an idle
  thread is outside of the model, and `AlwaysAThread` says nothing of it.
* `owed`, `turn` and `verdict` in `Timer`, `entry` and `odd` in `SpinLock`, `raced`
  in `Mutex` and `Semaphore`, `unseen` and `late` in `Input`, `unread` and `linker`
  in `Mailbox`, `answers` and `deaf` in `I2c` are history variables; no guard of
  the code's steps reads them. `late` is set by the interrupt, from where the reader
  or the work is at that moment, and not by the step that drops the edge.
* `GUARD` in `Timer` is the constant 20 that the code compares with ticks although
  it is milliseconds. `load` says how far a switch has come: the slice of the
  chosen thread is reloaded only at its end, and a tick before that judges by the
  end of the thread's previous turn.
* `Timer!DelayReturns`: a delay whose end wraps to a value not after `jiffies`
  returns at once, as the plain comparison of `schedule_delay_ms` says;
  `NoEarlyWake` speaks of the threads that did sleep.
* `misled` in `MemPool` and `broken` in `Mailbox` and `FdTable` say that the code
  has just used memory that is not what it takes it for. What follows is
  undefined; the models stop there (`Undefined`) and the invariants speak of
  everything before. Section 3 lists what sets them.
* A plain `wait_event` polls: `wake_up` sets a flag that only an interruptible
  wait reads (`wait.h:86`). `Input!wake_up` therefore makes nobody ready.
* The interrupt of the i2c controller is never enabled, so its handler is left
  out and `imx_i2c_adap_wait_complete` is a poll. Its time-out is relative where
  `schedule_timeout` wants an absolute one and never ends the wait
  (`imx-i2c.c:250`): each byte waits for `ByteDone`, which need not come.

## 3. Runs

| Run | Instance | Shows |
|---|---|---|
| `sched_safety` | idle, base, init and one user thread with the priorities of the code | `ListsMatchStatus`, `ReadySorted`, `AlwaysAThread`, `NoNullContext`, `LockHolderOnCpu`, `SleeperHasTimer`, `IdleInterruptible`, `NoStaleTarget`, and the action properties `PreemptNotDownward`, `ReadyFifo` |
| `sched_live` | three threads, fair; the user thread suspends others and itself and tries the idle thread | `SleeperWakes`: a thread suspended with a timer becomes ready again; `ImplementsScheduler`: every step is one of `SchedSpec` or leaves it alone |
| `spin_safety` | three threads, all variants, nested sections, preemption between instructions | `MutualExclusion`, `NeverSpins`, `FlagIsOwn`, `ImplementsLock` |
| `timer_safety` | base and idle thread, `jiffies` modulo 8, ticks inside a switch too, fair | `NoEarlyWake`, `PreemptDue`, `SliceCheck`; `SleeperWakes`, except for a timer on `JIFFIES_MAX` |
| `mutex_safety` | three threads of three priorities, which lock, sleep and poll for events, preemption, fair | `OwnersCounted`; `FreedAgain`, except below two threads that take turns; `ExclusiveUnlessRaced` and `ImplementsLock` up to a preemption between test and increment |
| `sema_safety` | four threads, two permits, preemption | `PermitsBounded`, `ZeroIsOwned`, both up to a preemption between test and decrement |
| `input_events` | a reader of the keys, a reader of the touch screen, the kworker, interrupts anywhere, fair | `NoDanglingEntry`: a stack entry is on its queue exactly during the wait; `EdgePending`: an edge outside the two windows below is pending until the pin is sampled; `EdgeSeen`: in the end it is, unless the handler hangs or a transfer never ends; `RawOnlyWhileRunning` |
| `mail_safety` | two senders, one receiver, three pieces of memory, fair | `ListIsUnread`: between two list operations the links lead through exactly the unread mails, in order; `HeldInside`: no way out leaves a mail locked; `MailTaken`: mail is read or withdrawn in the end |
| `mem_safety` | a pool of 12 words, requests of 1 to 3 words | `HandsOutFree` and `FailsOnlyIfFull`: what is handed out is free, and a request fails only when no free run is long enough |
| `fd_safety` | three threads with up to two descriptors, both arrays can fill, a new array holds anything | `SlotsMatch`: a descriptor leads to its file as long as it is open; `RefCounted`: the count is exact |
| `i2c_safety` | two clients, messages of 0, 1, 2 and 4 bytes, fair | `LeftClean`, `ReadAnswered`; `TransferEnds`, except for a byte that the controller never finishes |
| `sched_context` | as `sched_safety` | expected to fail, see below |

`sched_context` checks `OwnContext`, what `sched.c:357` says of a switch, and
TLC shows that the code does something else (quoted in `findings`): a tick
between the unlock of `schedule_thread` (`sched.c:913`) and the switch saves a
context in the frame of the thread just chosen. There is a second window of the
same kind at the other end of the switch: when the context to restore was saved
by an interrupt, the preempt count is lowered (`context.S:153`) before the frame
is loaded and `rfeia` is executed. `TornOnlyInWindow` proves that these two are
the only ones.

The exemptions of the passing properties name further behaviour of the code
that a reader may want to know:

* `SliceCheck` lets a slice whose end wrapped fail to protect its thread
  (`turn.cut`), although `kthread.c:48` says "when the time slice is not
  exhuasted, current cannot be preempted". The same can happen to a thread that
  was just chosen: until `__real_thread_init_before` has stored the new end
  (`sched.c:829`), a tick compares with the end of an earlier turn
  (`load # "done"`). Nothing of that is left once the slice is reloaded.
* `SleeperWakes` of `Timer` leaves out a timer on `JIFFIES_MAX`: `do_timer_event`
  fires a timer when `jiffies` is after it, and nothing is after the maximum. The
  preemption timer can stop there too (`PreemptDue`).
* `ExclusiveUnlessRaced`: a thread preempted between the test and the increment
  of `mutex_lock` can find itself with a second owner. `PermitsBounded` and
  `ZeroIsOwned`: in the same way two threads can take the last permit, after
  which the unsigned counter wraps.
* `FreedAgain`: an owner can wait for ever below two threads of higher priority that
  hand the core to each other, be it that they poll for the mutex or for an event
  that does not come. One thread above the owner is not enough, since
  `schedule_thread` always goes to another thread. The repository promises nothing
  here; the hazard list records it.
* A permit returned while another is free is dropped (`semaphore.c:81`): the
  semaphore degrades to one permit, which is why `PermitsBounded` is not an
  equation.
* The inverted irqrestore also acts inside a section: `wake_up_common` takes and
  releases a second lock for each thread on its queue (`wait.c:93` to `101`), and
  after an odd number of them the rest of the outer section runs with interrupts on
  (`SectionMasked`). The lock is still safe, because the preempt count is not zero,
  but between its release and the reading of the saved mask another owner can
  overwrite that (`spinlock.c:175` to `179`). `FlagIsOwn` says that the word is the
  caller's own wherever interrupts are masked, and only there does it matter.
* The theorems on the spin lock assume that no handler takes the lock. One that
  does (`wake_up` in a key interrupt) and falls between `atomic_inc` and the
  masking spins for ever; `Input` has this as `hung`.
* `late` in `Input`: an edge of the keys between the reading of the pin and
  `wake = false` (`extkey.c:131` to `134`), and one of the touch screen after a
  sample of the work and before its detaching (`kworker.c:56` to `58`), whose
  request is refused as already queued. `EdgeSeen` further leaves out a hanging
  handler and a transfer that does not end.
* `misled` in `MemPool`: a block does not learn that its predecessor on the list
  has changed. `kfree` then merges it into the wrong block
  (`mem_simple.c:208`) and memory in use can be handed out again.
* `broken` in `Mailbox`: the sender frees a mail that the receiver has fetched
  (between `mailbox.c:268` and `270`, or `320` and `321`); the receiver fetches
  the head of the list, which it tested without the lock (`257`); a mail that
  could not be sent, or one that was removed already, is removed from the list; or
  two threads are inside the links at once, because `mail_destroy` deletes under
  the mutex of the mail (`201`) and `mail_send` adds under that of the box (`229`),
  a few stores each (`list_types.h:221`, `264`). `NoOtherWindow` proves that there
  is no fifth way.
* `broken` in `FdTable`: a descriptor that is reserved and not yet installed is
  found free by another thread's search, of either array; two threads that both
  found no expanded array overwrite each other's (`fwk_fcntl.c:101`); it is
  freed with its first descriptor although others are open or being searched for
  (`149`); the expanding path runs without the mutex and releases that of another
  (`204` to `209`); the search runs over the end of `fd_array`.
* `kcalloc` does not clear its memory (`fwk_mempool.c:143`): a new expanded array
  holds anything, and the search takes an entry that is not zero for an open file.
  Descriptors are lost in this way, and none is given twice.
* `deaf` in `I2c`: a start that times out leaves the enable and the master bit
  on. `ReadAnswered` speaks of reads: the result of a write is ignored
  (`imx-i2c.c:565`).

Each property has a mutant in `PROJECT.json`: a definition changed the way a
plausible bug would change it (the `_Suffix` operators next to the originals),
for which TLC finds the property violated.

### Bounds

* Four threads in `sched_safety` are the four kinds the system has (idle, base, init,
  user); after `real_thread_attr_revise` base and user share a priority, so
  equal and different priorities both occur. Liveness uses three: every
  relation between a sleeper, the running thread and the idle thread is there.
* `Timer` keeps the order relations of the real constants (period below slice,
  period at most guard, all well below the width) in a counter of 8 values;
  the delays 0, 1 and 3 are none, below and above the period. The counter wraps
  again and again, so every phase of the wrap meets every phase of a sleep.
* `Mutex`: with three priorities there is an owner with nobody, with one and with
  two threads above it.
* `Semaphore` has 8 counter values and two permits for four threads: with
  preemption the counter goes below zero and wraps.
* `Input` takes three samples of a touch instead of six: a first, a middle and a
  last one. One reader per device, as the applications have.
* `Mailbox`: two senders and three pieces of memory, so that a piece that is
  freed is reused while the other mails are on the list.
* `MemPool`: twelve words hold up to six pieces with a header of one word; the
  sizes 1 to 3 give holes that fit, that are too large and that are too small.
* `FdTable`: `fd_array` with four entries, one of them taken from the start, and
  an expanded array of two: three threads with two descriptors fill both.
  `MAXOPEN` bounds the descriptors of a thread.
* `I2c`: 0 is no byte, 1 the first and the last, 2 without and 4 with a byte
  between the first and the last but one.
* No counter is capped otherwise; all state spaces are finite by themselves.

### Fairness

* `Sched`: strong fairness of each stream's steps, since a thread that has the
  core again and again executes between the interrupts, and every loop of the
  repository's threads calls the scheduler; weak fairness of the handler, which
  runs to its end; strong fairness of a tick that serves a given due timer with
  the lock free, since the systick is not synchronised with the code. Which
  thread gets the core is never assumed.
* `Timer`: weak fairness of the tick and of the two steps of the slice reload, and
  the same assumption on ticks that find the lock free.
* `Mutex`: strong fairness of a thread's steps, of leaving the section, of a poll,
  and of sleeping outside of the section, as every loop in `kernel/kthread` and
  `example` does once it is past its waits; weak fairness of wake-ups. An event that
  a thread polls for need not come. Getting the core follows from the ready list.
* `Input`: strong fairness of each reader and of the kworker: the readers read in
  an endless loop, a poll hands the core to the next thread, and the kworker has
  a higher priority. None of the transfer on the i2c bus, and no interrupt is
  assumed.
* `Mailbox`: strong fairness of what a sender has begun, since the mutex of the box
  gets free again and again; strong fairness of the receiver, which runs when the
  senders, of higher priority, sleep after a mail.
* `I2c`: weak fairness of the driver's steps, that is, the thread in the transfer
  gets the core; none of the controller and the bus, which may be stuck.

## 4. What is proved

Every invariant and every action property that a run checks is also a theorem,
for every value of the constants that satisfies the named assumptions:

* `SchedAssumption`, `OneParent`: any set of threads, any creation tree with one
  parent per thread, any priorities. `BaseAboveIdle`: the base thread has a
  higher priority than the idle thread (`kthread.c` gets the default 80 for it,
  `idle.c` asks for 98); only `IdleTakesInterrupts` rests on it.
* `TimerAssumption`: any width of `jiffies`, any period and slice smaller than
  it, a guard not below the period.
* `SpinAssumption`, `MutexAssumption`, `SemaphoreAssumption`: any set of threads,
  a finite one where owners are counted; any number of permits below the width
  of the counter.
* `MemPoolAssumption`: any pool, any header smaller than it, any requests.
* `FdTableAssumption`, `NullAssumption`: any threads, any sizes of the two arrays
  with room behind the standard descriptors; an array is not the null pointer.
* `InputAssumption`: any readers of the two devices, any number of samples.
  `MailboxAssumption`: any senders, any number of pieces of memory, none of which
  is the box. `I2cAssumption`: any clients and any message lengths.

**Scheduler** (`SchedProofs`): `TypeCorrect`, `TableConsistent`, `ThreadToRun`,
`ContextNotNull`, `HolderRuns`, `NoTargetLeft`. None of these is inductive by
itself. The invariant `IInv` adds what relates the table to the streams: `Sane` (the
lists are duplicate-free and agree with the statuses, and only the running thread
has a target), `LockInv` (who holds the lock is at a place where the code holds it,
on the core, with the preempt count to match), `CoreInv` (the core executes the
running thread, except between the unlock and the end of the restore of a switch),
`BootInv` (which covers a `start_kernel` that stopped), `IsrInv` and `CreateInv` (a
tid found free is still free when it is registered). The lemmas on the sorted lists
(insertion and deletion keep the elements and never duplicate one) carry the table
operators; each table operator then has one lemma that it keeps `Sane`, and each
action one that it keeps `IInv`.

On top of it stands a second invariant, `OInv`, from which `ListSorted`,
`TimerBeforeSleep`, `IdleTakesInterrupts` and the action properties
`PreemptUpward` and `ReadyInOrder` follow. It says that the ready list is sorted
(`Sorted`); that a request for preemption is still in favour of the first ready
thread when the handler returns, whatever its other callbacks woke (`FlagInv`);
that the frame of the idle thread has interrupts on and that `start_kernel`,
which may run with interrupts masked, switches to the base thread and not to the
idle thread (`IdleInv`); and that, when no thread calls `schedule_thread_suspend`, a
timer is armed from before the request to be suspended until after the thread runs
again (`SleepInv`). The lemmas on insertion
and deletion entry by entry give both sortedness and the order among equals:
each table operator changes the ready list by one insertion and at most one
deletion (`ReadyChange`).

`SchedRefinement`: `Sched` implements `SchedSpec`. Both invariants are needed: `Sane`
says that a switch moves exactly the running thread and the first ready one,
`Sorted` that the first ready thread is a best one. Every table operator is
described by the statuses it changes (`OneMoved`, `HandedOver`), and each such
change is one abstract step; the steps that change no status map to stutters. That
the idle thread never sleeps comes from the refusal in `schedule_thread_switch`.

`SleepEndsByTimer` is the safety half of `SleeperWakes`: a suspended thread keeps
its armed timer, and the only step that ends its sleep is the systick's service of
that timer with the table unlocked. `TornOnlyInWindow` delimits the finding: a frame
gets a foreign context only by a preemption between the unlock of
`schedule_thread` and the first instruction of `__switch_to`, or between the lowered
count and the end of the restore of an interrupt's frame, and then it is the
frame of the thread about to get the core. It follows from `CoreInv` and `LockInv`: at
every other place with a preempt count of 0 the core executes the running thread.

**Spin lock** (`SpinLockMemPoolProofs`): `Exclusion`, `SpinFree`, `MaskedSection`,
`OwnFlag` and `Refinement`: the instruction sequence implements `LockSpec`
under the map "the actor past the increment holds the lock". They assume that
no handler takes the lock (`~IsrLocks`). `MaskedSection` is proved only: an irq
section keeps the core, and interrupts are on in it exactly after an odd number of
nested irqrestores. The invariant says that a thread off the core has a preempt count
that lets it be preempted, hence is not past `preempt_disable`.

**Memory pool** (`SpinLockMemPoolProofs`): `PiecesDisjoint`, `NoneTurnedAway`,
`PiecesApart` and `NothingLeaks`, up to the first `kfree` that merges into a wrong
block. `PiecesApart` says of all pieces what `PiecesDisjoint` says of the one just
handed out, and `NothingLeaks` that the pool is again one idle block when
everything is given back. The invariant says that the blocks of the list tile the
pool, each ending where the next one begins (`Linked`, for one block and its
neighbours; a step rewrites at most two blocks, and `ChainRewritten` carries the
others over), and
that the pieces handed out are the front parts of the blocks in use. It also says
that only the first block can be idle, without which free words could be lost:
when `kfree` merges an idle successor it replaces what the block had left
(`mem_simple.c:215`). The proof shows that up to a wrong merge this branch is
never taken. That `Nth` solves its recursion, that the walk stays on the list
and that it reaches every block are shown by least counterexamples.

**Time** (`TimerSemaphoreProofs`): `TypeCorrect`, `SleepsLongEnough`,
`PreemptionPeriodic`, `SliceChecked`. The invariant relates the ticks a sleep
still owes to the distance between `jiffies` and the timer on either side of
the wrap, and the ticks a thread ran to the distance to the end of its slice,
with one case per phase (not yet tracked, tracked, wrapped). It holds from the
reload of the slice on; before it the end is that of an earlier turn, about which it
says nothing.

**Mutex** (`MutexProofs`): `Exclusion` and `Refinement` to `LockSpec`, for
every behaviour up to a preemption between the test and the increment, which the
history variable `raced` records. The invariant says that a thread that has
passed the test is still on the core and that nobody owns the mutex. `Counted`
needs no such exemption: the counter is the number of owners, by induction over
the steps with the cardinality of the set of owners.

**Semaphore** (`TimerSemaphoreProofs`): `NoPermitMadeUp` and `NeverStuckAtZero`, up to
a preemption between test and decrement. The invariant says that the thread that
has passed the test is on the core with its permit still there, so the decrement
does not wrap, and bounds the sum of counter and owners, so the increment does
not.

**i2c** (`I2cProofs`): `EndsClean` and `AllAnswered`. The invariant follows the
mutex, the clock and the master bit through the places of a transfer, and in a
read the answers given so far and the one that is set for the next byte.
`TransferFinite` is the safety half of `TransferEnds`: every step of the driver
lowers the triple of messages, stages of this message and bytes left in
lexicographic order, the triple is one of natural numbers, and nothing that
happens on the bus in between changes it. What is left to TLC is that the steps
happen.

**Descriptors** (`FdTableProofs`): `DescriptorsLead` and `RefCounts`, until two
threads meet in one of the gaps (`broken`). The invariant says that no descriptor is
in two hands and none of `fd_array` is above `max_fdset` (`UseInv`), that a slot has
the file of the thread that has its descriptor, that one being opened is still empty
and that the expanded array, with whatever a new one holds, is there while one of
its descriptors is in use or a thread searches it (`SlotInv`), and it counts the
pairs of thread and descriptor (`CountInv`). That the saturating updates of
`ref_fdarr` never drop a count, because it is below the size of the array while a
descriptor of it is free, is a pigeonhole argument on these pairs.
`TestsRefuseNobody`: up to the same point the tests in `fwk_fd_install` and
`fwk_put_expand_fdtable` never find what they guard against, so that their error
ways are not taken.

**Input** (`InputProofs`): `EntryWhileWaiting`, `EdgesPend`, `NoRawLeft`. The
invariant has the queues as duplicate-free lists of exactly the waiting readers
(`QueueInv`), that whoever takes the request of a pending edge away has yet to sample
the pin (`EdgeInv`), and what the shared position holds at each place of the
work (`DataInv`): every way out stores a result or zero before the work is
detached.

**Mailbox** (`MailboxProofs`): `ListLeadsThroughUnread`, until the code uses a mail
that is gone, and `MutexNotLeftLocked`, without exception. The invariant says that
the links are those of the list of unread mails, stop by stop round the box
(`Linked`), that no mail is linked to itself, that a sender's pointer leads to a
mail of its own which is off the list before `mail_send` and after the deletion
(`OwnInv`), that the mail fetched exists (`RecvInv`), that one list operation is
under way at a time (`LinkerInv`) and, for one that is half done, which link already
has its new value (`Half` in `ListInv`). `NoOtherWindow` says in which four windows
the code can use a mail that is gone or meet another thread inside the links, and
that there is no other. It needs the converse of `HeldInside`, that a thread inside
an operation does hold the mutex (`HoldsMutex`), and that a fetched mail stays on
the list unless its sender is about to free it (`FetchedIsThere`); the receiver,
which runs only when the senders sleep or wait, then never deletes a mail that is
off the list or that another thread is linking.

Only model-checked: all liveness (`SleeperWakes`, `FreedAgain`, `EdgeSeen`,
`MailTaken`, `TransferEnds`), because it needs fairness and `ENABLED`, which the
prover does not handle. For two of them the safety half is proved, what no step can
undo (`SleepEndsByTimer`) or what every step lowers (`TransferFinite`); the other
half is that the steps are taken. `OwnContext` is violated; what is proved is
where. Proved and not model-checked as properties of a run: `MaskedSection`,
the types, the theorems of this section that delimit a window, `PiecesApart`,
`NothingLeaks` and `TestsRefuseNobody`.

## 5. Plan

Done so far: all modules of section 2, their runs, theorems for every safety
property of the runs, two abstract specifications (`LockSpec`, `SchedSpec`) with
proofs that the code's models implement them, and theorems that delimit the windows
in which the scheduler and the mailbox go wrong. What is left, in order:

1. `TimerList`: the doubly linked list under insertion outside the lock, store
   by store, against the walk of the tick.
2. Safety halves for the remaining liveness properties: that one thread
   above the owner of a mutex never overtakes it for ever (`FreedAgain`), that the
   list of works only shrinks at its head (`EdgeSeen`), that a mail only moves
   towards the head of the box (`MailTaken`).
3. `Irq`, `KObject`, radix tree and trie: the mappings as pure algorithms
   against a function.

## 6. Reading order

`LockSpec`, `SpinLock`, `SchedSpec`, `Sched`, `Timer`, `Mutex`, `Semaphore`, then `Input`,
`Mailbox`, `MemPool`, `FdTable`, `I2c`, which can be read alone; then the proof
modules, each of which states its inductive invariant at the top.

## 7. Not modelled

* Drivers at register level (gpio, pinctrl, clock, framebuffer, SD card, usb,
  net): I/O whose correctness is in the hardware manual. Of i2c the bits that
  decide about control are in `I2c`.
* fatfs with its code pages and dtc, more than half of the lines of the
  repository: vendored.
* Device tree, probe and remove, the interrupt numbers, kobjects, character
  devices and the platform bus: built at boot by one stream, before there is
  anything to interleave; the remove functions are not called while the system
  runs. What boot leaves behind
  is the initial state of the modules.
* The links of the timer list: `Timer` has the set of armed timers.
* The values of touch positions; `num_mails`, which is never read; the registry
  of mailboxes.
* String and print helpers: sequential text processing.
* Stacks, registers other than the mask bit, caches: a frame is reduced to the
  stream whose context it holds.
