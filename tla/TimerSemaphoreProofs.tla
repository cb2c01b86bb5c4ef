------------------------ MODULE TimerSemaphoreProofs ------------------------
(***************************************************************************)
(* Proofs about Timer.tla and Semaphore.tla.  For every width of jiffies,  *)
(* every period, slice and set of delays that TimerAssumption allows: what *)
(* a sleep lasts, when the preemption timer is due and what the check of   *)
(* the slice says.  For every finite set of threads, every number of       *)
(* permits and every width of the counter: as long as no thread loses the  *)
(* core between the test and the decrement of sema_down, permits are not   *)
(* made up and the counter does not stay at zero with nobody inside.       *)
(***************************************************************************)
EXTENDS Timer, Semaphore, FiniteSetTheorems, TLAPS

-----------------------------------------------------------------------------
(* Timer.tla *)

\* What a sleep still has to last is the distance from jiffies to its timer;
\* before the count was compared with jiffies, the sum may have wrapped.
SleepInv ==
  \A t \in Thread :
    /\ where[t] \in {"armed", "slept"} =>
         owed[t] = 0 \/ expires[t] = jiffies + owed[t]
    /\ where[t] = "counted" =>
         \/ owed[t] = 0
         \/ expires[t] = jiffies + owed[t]
         \/ expires[t] = jiffies + owed[t] - (MAX + 1)
    /\ where[t] = "awake" => owed[t] = 0

\* The end of the present turn: computed, or stored as well.
End == IF load = "done" THEN slice[cur] ELSE fresh

\* The end of the slice before the check has found it used up: as far away as
\* the slice is long, reached, or behind because the sum wrapped.
UntrackedInv ==
  load # "chosen" /\ ~turn.tracked =>
    /\ ~turn.wrapped /\ ~turn.cut /\ turn.ran < SLICE =>
         End = jiffies + (SLICE - turn.ran)
    /\ ~turn.wrapped /\ ~turn.cut /\ turn.ran = SLICE => End <= jiffies
    /\ ~turn.wrapped /\ turn.cut => End < jiffies

\* Afterwards: at 0, or at the last check, with the next one before the wrap.
TrackedInv ==
  turn.tracked =>
    \/ End = 0
    \/ End <= jiffies /\ pt = End + PERIOD /\ jiffies <= pt /\ pt < MAX

TurnInv ==
  /\ turn.tracked => turn.ran = SLICE \/ turn.cut
  /\ turn.wrapped /\ ~turn.cut => turn.ran = SLICE
  /\ load = "chosen" => turn = NewTurn(FALSE)
  /\ load # "done" => ~turn.tracked

IInv == TypeOK /\ SleepInv /\ PreemptDue /\ UntrackedInv /\ TrackedInv
          /\ TurnInv /\ SliceCheck

-----------------------------------------------------------------------------

\* The next value of jiffies is a value of jiffies.
LEMMA CounterType ==
  ASSUME NEW j \in 0..MAX
  PROVE  GetTimeCounter(j) \in 0..MAX
BY TimerAssumption DEF GetTimeCounter

\* A sum of ticks is a number of kutime_t.
LEMMA AddType ==
  ASSUME NEW j \in 0..MAX, NEW n \in 0..MAX
  PROVE  Add(j, n) \in 0..MAX
BY TimerAssumption DEF Add

\* A fresh turn, field by field.
LEMMA NewTurnFields ==
  ASSUME NEW c \in BOOLEAN
  PROVE  /\ NewTurn(c) \in Turn
         /\ NewTurn(c).ran = 0 /\ NewTurn(c).cut = c
         /\ NewTurn(c).wrapped = FALSE /\ NewTurn(c).tracked = FALSE
BY TimerAssumption DEF NewTurn, Turn

\* What a tick adds to a turn, field by field.
LEMMA RanFields ==
  ASSUME turn \in Turn, load # "chosen", NEW j \in 0..MAX
  PROVE  /\ Ran(j) \in Turn
         /\ Ran(j).ran = IF turn.ran < SLICE THEN turn.ran + 1 ELSE turn.ran
         /\ Ran(j).wrapped = (turn.wrapped \/ j = 0)
         /\ Ran(j).cut = turn.cut /\ Ran(j).tracked = turn.tracked
<1> DEFINE r == IF turn.ran < SLICE THEN turn.ran + 1 ELSE turn.ran
           A == [turn EXCEPT !.ran = r]
<1>1. r \in 0..SLICE
  BY TimerAssumption DEF Turn
<1>2. A \in Turn /\ A.ran = r /\ A.wrapped = turn.wrapped
        /\ A.cut = turn.cut /\ A.tracked = turn.tracked
  BY <1>1 DEF Turn
<1>3. Ran(j) = [A EXCEPT !.wrapped = (turn.wrapped \/ j = 0)]
  BY <1>1 DEF Ran, Turn
<1> HIDE DEF r, A
<1>4. (turn.wrapped \/ j = 0) \in BOOLEAN
  OBVIOUS
<1>5. /\ Ran(j) \in Turn /\ Ran(j).ran = r
      /\ Ran(j).wrapped = (turn.wrapped \/ j = 0)
      /\ Ran(j).cut = turn.cut /\ Ran(j).tracked = turn.tracked
  BY <1>2, <1>3, <1>4 DEF Turn
<1> QED
  BY <1>5 DEF r

\* A turn in which the check found the slice used up, field by field.
LEMMA TrackedFields ==
  ASSUME NEW T \in Turn, NEW b \in BOOLEAN
  PROVE  LET N == [T EXCEPT !.tracked = b]
         IN  /\ N \in Turn /\ N.tracked = b
             /\ N.ran = T.ran /\ N.cut = T.cut /\ N.wrapped = T.wrapped
BY DEF Turn

\* The first states satisfy the invariant.
LEMMA InitInv == Init => IInv
<1> SUFFICES ASSUME Init PROVE IInv
  OBVIOUS
<1>1. TypeOK
  <2>1. turn \in Turn
    BY NewTurnFields DEF Init
  <2>2. jiffies \in 0..MAX /\ pt \in 0..MAX
        /\ slice \in [Thread -> 0..MAX] /\ fresh \in 0..MAX
    BY TimerAssumption DEF Init
  <2>3. expires \in [Thread -> 0..MAX] /\ owed \in [Thread -> 0..MAX]
    BY TimerAssumption DEF Init
  <2>4. where \in [Thread -> Place] /\ cur \in Thread
    BY DEF Init, Home, Place
  <2>5. load \in {"chosen", "read", "done"}
        /\ verdict \in {"none", "refused", "eligible"}
    BY DEF Init
  <2> QED
    BY <2>1, <2>2, <2>3, <2>4, <2>5 DEF TypeOK
<1>2. SleepInv
  BY DEF Init, SleepInv, Home
<1>3. turn.tracked = FALSE /\ turn.wrapped = FALSE /\ turn.ran = 0
  BY NewTurnFields DEF Init
<1>4. PreemptDue /\ UntrackedInv /\ TrackedInv /\ TurnInv /\ SliceCheck
  BY <1>3 DEF Init, PreemptDue, UntrackedInv, TrackedInv, TurnInv, SliceCheck
<1> QED
  BY <1>1, <1>2, <1>4 DEF IInv

\* The steps of a sleep that keep the core disturb the sleep's part only.
LEMMA SleepSteps ==
  ASSUME IInv, NEW t \in Thread,
         \/ \E n \in Delays : Delay(t, n)
         \/ Arm(t) \/ DelayReturns(t) \/ Return(t)
  PROVE  IInv'
<1>1. TypeOK'
  <2>1. CASE \E n \in Delays : Delay(t, n)
    <3>1. PICK n \in Delays : Delay(t, n)
      BY <2>1
    <3>2. n \in 0..MAX /\ Add(jiffies, n) \in 0..MAX
      BY AddType, TimerAssumption DEF IInv, TypeOK
    <3> QED
      BY <3>1, <3>2 DEF Delay, IInv, TypeOK, Place
  <2>2. CASE Arm(t) \/ DelayReturns(t) \/ Return(t)
    BY <2>2, TimerAssumption
    DEF Arm, DelayReturns, Return, Home, IInv, TypeOK, Place
  <2> QED
    BY <2>1, <2>2
<1>2. SleepInv'
  <2> SUFFICES ASSUME NEW s \in Thread
               PROVE  /\ where'[s] \in {"armed", "slept"} =>
                           owed'[s] = 0 \/ expires'[s] = jiffies' + owed'[s]
                      /\ where'[s] = "counted" =>
                           \/ owed'[s] = 0
                           \/ expires'[s] = jiffies' + owed'[s]
                           \/ expires'[s] = jiffies' + owed'[s] - (MAX + 1)
                      /\ where'[s] = "awake" => owed'[s] = 0
    BY DEF SleepInv
  <2>1. CASE \E n \in Delays : Delay(t, n)
    <3>1. PICK n \in Delays : Delay(t, n)
      BY <2>1
    <3>2. n \in 0..MAX
      BY TimerAssumption
    <3> QED
      BY <3>1, <3>2, TimerAssumption DEF Delay, Add, IInv, TypeOK, SleepInv
  <2>2. CASE Arm(t)
    BY <2>2, TimerAssumption DEF Arm, IInv, TypeOK, SleepInv
  <2>3. CASE DelayReturns(t) \/ Return(t)
    BY <2>3 DEF DelayReturns, Return, Home, IInv, TypeOK, SleepInv
  <2> QED
    BY <2>1, <2>2, <2>3
<1>3. UNCHANGED <<jiffies, cur, load, fresh, pt, slice, turn, verdict>>
  BY DEF Delay, Arm, DelayReturns, Return
<1>4. (PreemptDue /\ UntrackedInv /\ TrackedInv /\ TurnInv /\ SliceCheck)'
  BY <1>3 DEF IInv, End, PreemptDue, UntrackedInv, TrackedInv, TurnInv, SliceCheck
<1> QED
  BY <1>1, <1>2, <1>4 DEF IInv

\* Giving the core away starts a turn that owes nothing to the one before.
LEMMA SwitchSteps ==
  ASSUME IInv, NEW u \in Thread,
         Dispatch(u) \/ \E t \in Thread : Suspend(t, u)
  PROVE  IInv'
<1>1. PICK t \in Thread : Dispatch(u) \/ Suspend(t, u)
  BY TimerAssumption
<1>2. /\ UNCHANGED <<jiffies, expires, pt, owed, fresh, slice>>
      /\ cur' = u /\ load' = "chosen"
      /\ turn' = NewTurn(FALSE) /\ verdict' = "none"
  BY <1>1 DEF Dispatch, Suspend, GiveCore
<1>3. turn' \in Turn /\ turn'.tracked = FALSE /\ turn'.wrapped = FALSE
  BY <1>2, NewTurnFields
<1>4. where' = where \/ (where[t] = "armed" /\ where' = [where EXCEPT ![t] = "slept"])
  BY <1>1 DEF Dispatch, Suspend
<1>5. TypeOK'
  <2>1. where' \in [Thread -> Place]
    BY <1>4 DEF IInv, TypeOK, Place
  <2>2. slice' \in [Thread -> 0..MAX] /\ fresh' \in 0..MAX
    BY <1>2 DEF IInv, TypeOK
  <2>3. load' \in {"chosen", "read", "done"}
        /\ verdict' \in {"none", "refused", "eligible"}
    BY <1>2
  <2> QED
    BY <1>2, <1>3, <2>1, <2>2, <2>3 DEF IInv, TypeOK
<1>6. SleepInv'
  BY <1>2, <1>4 DEF IInv, TypeOK, SleepInv
<1>7. NewTurn(FALSE)' = NewTurn(FALSE)
  BY DEF NewTurn
<1>8. (PreemptDue /\ UntrackedInv /\ TrackedInv /\ TurnInv /\ SliceCheck)'
  BY <1>2, <1>3, <1>7
  DEF IInv, PreemptDue, UntrackedInv, TrackedInv, TurnInv, SliceCheck
<1> QED
  BY <1>5, <1>6, <1>8 DEF IInv

\* The base thread sets the preemption timer only when it is stopped.
LEMMA LoopStep ==
  ASSUME IInv, Loop
  PROVE  IInv'
<1>1. TypeOK'
  <2>1. Add(jiffies, PERIOD) \in 0..MAX
    <3>1. jiffies \in 0..MAX /\ PERIOD \in 0..MAX
      BY TimerAssumption DEF IInv, TypeOK
    <3> QED
      BY <3>1, AddType
  <2>2. pt' \in 0..MAX
    BY <2>1 DEF Loop, IInv, TypeOK
  <2>3. where' \in [Thread -> Place]
    BY DEF Loop, IInv, TypeOK, Place
  <2> QED
    BY <2>2, <2>3 DEF Loop, IInv, TypeOK
<1>2. SleepInv'
  BY TimerAssumption DEF Loop, IInv, TypeOK, SleepInv
<1>3. PreemptDue'
  BY TimerAssumption DEF Loop, Add, IInv, TypeOK, PreemptDue
<1>4. TrackedInv'
  <2>1. End' = End /\ End \in 0..MAX
    BY DEF Loop, End, IInv, TypeOK
  <2>2. turn.tracked => End = 0 \/ pt # 0
    BY <2>1, TimerAssumption DEF IInv, TypeOK, TrackedInv
  <2> QED
    BY <2>1, <2>2 DEF Loop, IInv, TrackedInv
<1>5. (UntrackedInv /\ TurnInv /\ SliceCheck)'
  BY DEF Loop, End, IInv, UntrackedInv, TurnInv, SliceCheck
<1> QED
  BY <1>1, <1>2, <1>3, <1>4, <1>5 DEF IInv

\* The reload computes the end of the slice at its distance, or wraps it ...
LEMMA ReloadReadStep ==
  ASSUME IInv, ReloadRead
  PROVE  IInv'
<1> DEFINE c == jiffies + SLICE > MAX
<1>1. /\ turn' \in Turn /\ turn'.ran = 0 /\ turn'.cut = c
      /\ turn'.wrapped = FALSE /\ turn'.tracked = FALSE
  <2>1. c \in BOOLEAN /\ turn' = NewTurn(c)
    BY DEF ReloadRead
  <2> HIDE DEF c
  <2> QED
    BY <2>1, NewTurnFields
<1>2. load' = "read" /\ fresh' = Add(jiffies, SLICE)
      /\ UNCHANGED <<jiffies, cur, where, expires, pt, slice, owed, verdict>>
  BY DEF ReloadRead
<1>3. TypeOK'
  <2>1. fresh' \in 0..MAX
    BY <1>2, AddType, TimerAssumption DEF IInv, TypeOK
  <2>2. load' \in {"chosen", "read", "done"}
    BY <1>2
  <2> QED
    BY <1>1, <1>2, <2>1, <2>2 DEF IInv, TypeOK
<1>4. (SleepInv /\ PreemptDue)'
  BY <1>2 DEF IInv, SleepInv, PreemptDue
<1>5. UntrackedInv'
  <2>1. jiffies \in 0..MAX /\ MAX \in Nat /\ SLICE \in 1..(MAX - 1)
    BY TimerAssumption DEF IInv, TypeOK
  <2>2. End' = Add(jiffies, SLICE) /\ jiffies' = jiffies
    BY <1>2 DEF End
  <2>3. CASE c
    <3>1. End' < jiffies'
      BY <2>1, <2>2, <2>3 DEF Add
    <3> QED
      BY <3>1, <2>3, <1>1, <1>2 DEF UntrackedInv
  <2>4. CASE ~c
    <3>1. End' = jiffies' + (SLICE - 0) /\ 0 < SLICE
      BY <2>1, <2>2, <2>4 DEF Add
    <3>2. turn'.ran = 0 /\ 0 # SLICE
      BY <1>1, <2>1
    <3> QED
      BY <3>1, <3>2, <2>4, <1>1, <1>2 DEF UntrackedInv
  <2> QED
    BY <2>3, <2>4
<1>6. (TrackedInv /\ TurnInv /\ SliceCheck)'
  BY <1>1, <1>2 DEF IInv, TrackedInv, TurnInv, SliceCheck
<1> QED
  BY <1>3, <1>4, <1>5, <1>6 DEF IInv

\* ... and stores it over whatever the ticks in between made of the old one.
LEMMA ReloadStoreStep ==
  ASSUME IInv, ReloadStore
  PROVE  IInv'
<1>1. /\ load = "read" /\ load' = "done" /\ fresh' = 0 /\ verdict' = "none"
      /\ slice' = [slice EXCEPT ![cur] = fresh]
      /\ UNCHANGED <<jiffies, cur, where, expires, pt, owed, turn>>
  BY DEF ReloadStore
<1>2. TypeOK'
  <2>1. slice' \in [Thread -> 0..MAX] /\ fresh' \in 0..MAX
    BY <1>1, TimerAssumption DEF IInv, TypeOK
  <2>2. load' \in {"chosen", "read", "done"}
        /\ verdict' \in {"none", "refused", "eligible"}
    BY <1>1
  <2> QED
    BY <1>1, <2>1, <2>2 DEF IInv, TypeOK
<1>3. End' = End
  <2>1. slice'[cur] = fresh
    BY <1>1 DEF IInv, TypeOK
  <2> QED
    BY <1>1, <2>1 DEF End
<1>4. (SleepInv /\ PreemptDue)'
  BY <1>1 DEF IInv, SleepInv, PreemptDue
<1>5. (UntrackedInv /\ TrackedInv /\ TurnInv /\ SliceCheck)'
  BY <1>1, <1>3 DEF IInv, UntrackedInv, TrackedInv, TurnInv, SliceCheck
<1> QED
  BY <1>2, <1>4, <1>5 DEF IInv

\* The tick's part in the sleeps: the distances shrink with it, and a thread
\* that it wakes owes nothing.
LEMMA TickSleep ==
  ASSUME IInv, NEW locked \in BOOLEAN, Tick(locked)
  PROVE  SleepInv'
<1> DEFINE j == GetTimeCounter(jiffies)
<1> SUFFICES ASSUME NEW t \in Thread
             PROVE  /\ where'[t] \in {"armed", "slept"} =>
                         owed'[t] = 0 \/ expires'[t] = jiffies' + owed'[t]
                    /\ where'[t] = "counted" =>
                         \/ owed'[t] = 0
                         \/ expires'[t] = jiffies' + owed'[t]
                         \/ expires'[t] = jiffies' + owed'[t] - (MAX + 1)
                    /\ where'[t] = "awake" => owed'[t] = 0
  BY DEF SleepInv
<1>1. /\ jiffies' = j /\ expires'[t] = expires[t]
      /\ owed'[t] = IF owed[t] > 0 THEN owed[t] - 1 ELSE 0
      /\ where'[t] = where[t] \/ (where'[t] = "awake" /\ Wakes(t, j))
  BY DEF Tick
<1>2. /\ jiffies \in 0..MAX /\ expires[t] \in 0..MAX /\ owed[t] \in 0..MAX
      /\ j = IF jiffies >= MAX THEN 0 ELSE jiffies + 1
  BY DEF IInv, TypeOK, GetTimeCounter
<1>3. CASE where'[t] = where[t]
  BY <1>1, <1>2, <1>3, TimerAssumption DEF IInv, SleepInv
<1>4. CASE where'[t] = "awake" /\ Wakes(t, j)
  <2>1. where[t] = "slept" /\ j > expires[t]
    BY <1>4 DEF Wakes, Due
  <2>2. owed[t] = 0 \/ expires[t] = jiffies + owed[t]
    BY <2>1 DEF IInv, SleepInv
  <2>3. owed[t] = 0
    BY <2>1, <2>2, <1>2, TimerAssumption
  <2> QED
    BY <2>3, <1>1, <1>4
<1> QED
  BY <1>1, <1>3, <1>4

\* The tick's part in the preemption timer and the slice.
LEMMA TickSlice ==
  ASSUME IInv, NEW locked \in BOOLEAN, Tick(locked)
  PROVE  /\ turn' \in Turn /\ pt' \in 0..MAX /\ slice' \in [Thread -> 0..MAX]
         /\ verdict' \in {"none", "refused", "eligible"}
         /\ (PreemptDue /\ UntrackedInv /\ TrackedInv /\ TurnInv /\ SliceCheck)'
<1> DEFINE j == GetTimeCounter(jiffies)
<1>1. /\ jiffies \in 0..MAX /\ pt \in 0..MAX /\ slice \in [Thread -> 0..MAX]
      /\ turn \in Turn /\ fresh \in 0..MAX /\ cur \in Thread
      /\ load \in {"chosen", "read", "done"}
      /\ turn.ran \in 0..SLICE /\ turn.cut \in BOOLEAN
      /\ turn.wrapped \in BOOLEAN /\ turn.tracked \in BOOLEAN
  BY DEF IInv, TypeOK, Turn
<1>2. /\ j \in 0..MAX
      /\ (j = 0 /\ jiffies = MAX) \/ (j = jiffies + 1 /\ jiffies < MAX)
  <2>1. jiffies \in 0..MAX /\ MAX \in Nat
    BY <1>1, TimerAssumption
  <2>2. CASE jiffies >= MAX
    BY <2>1, <2>2 DEF GetTimeCounter
  <2>3. CASE ~(jiffies >= MAX)
    BY <2>1, <2>3 DEF GetTimeCounter
  <2> QED
    BY <2>2, <2>3
<1>3. jiffies' = j /\ UNCHANGED <<load, fresh, cur>>
  BY DEF Tick
<1>4. Add(j, PERIOD) \in 0..MAX
  <2>1. j \in 0..MAX /\ PERIOD \in 0..MAX
    BY <1>2, TimerAssumption
  <2> HIDE DEF j
  <2> QED
    BY <2>1, AddType
<1>5. MAX \in Nat /\ PERIOD \in Nat /\ SLICE \in Nat /\ PERIOD >= 1
        /\ GUARD \in Nat /\ GUARD >= PERIOD /\ SLICE >= 1
  BY TimerAssumption
<1>6. /\ (pt' = Add(j, PERIOD) /\ Due(pt, j)) \/ (pt' = pt /\ ~Due(pt, j))
      /\ pt' \in 0..MAX
  <2>1. (pt' = Add(j, PERIOD) /\ Due(pt, j)) \/ (pt' = pt /\ ~Due(pt, j))
    BY DEF Tick, PreemptTimeout
  <2> HIDE DEF j
  <2> QED
    BY <2>1, <1>1, <1>4
<1> HIDE DEF j
<1>7. PreemptDue'
  <2>1. CASE pt' = Add(j, PERIOD)
    BY <2>1, <1>2, <1>3, <1>5 DEF Add, PreemptDue
  <2>2. CASE pt' = pt /\ ~Due(pt, j)
    BY <2>2, <1>1, <1>2, <1>3, <1>5 DEF Due, PreemptDue, IInv
  <2> QED
    BY <1>6, <2>1, <2>2
<1>8. /\ slice' = slice \/ slice' = [slice EXCEPT ![cur] = TrackedEnd(j)]
      /\ verdict' \in {"none", "refused", "eligible"}
  BY DEF Tick, PreemptTimeout, j
<1>9. slice' \in [Thread -> 0..MAX]
  <2>1. TrackedEnd(j) \in 0..MAX
    BY <1>2, <1>5 DEF TrackedEnd
  <2> QED
    BY <2>1, <1>1, <1>8
<1>10. CASE load = "chosen"
  <2>1. turn = NewTurn(FALSE)
    BY <1>10 DEF IInv, TurnInv
  <2>2. turn.tracked = FALSE /\ turn \in Turn
    BY <2>1, NewTurnFields
  <2>3. [turn EXCEPT !.tracked = FALSE] = turn
    BY <2>2 DEF Turn
  <2>4. turn' = turn
    BY <1>10, <2>3 DEF Tick, PreemptTimeout, Ran
  <2>5. NewTurn(FALSE)' = NewTurn(FALSE)
    BY DEF NewTurn
  <2>6. turn' = NewTurn(FALSE)' /\ turn'.tracked = FALSE /\ load' = "chosen"
    BY <1>3, <1>10, <2>1, <2>2, <2>4, <2>5
  <2>7. turn.wrapped = FALSE
    BY <2>1, NewTurnFields
  <2>8. TurnInv'
    BY <2>4, <2>6, <2>7 DEF TurnInv
  <2>9. UntrackedInv' /\ TrackedInv' /\ SliceCheck'
    BY <2>6 DEF UntrackedInv, TrackedInv, SliceCheck
  <2> QED
    BY <1>1, <1>6, <1>7, <1>8, <1>9, <2>4, <2>8, <2>9
<1>11. CASE load # "chosen"
  <2> DEFINE R == Ran(j)
             e == End
             b == load = "done"
  <2>1. /\ R \in Turn
        /\ R.ran = IF turn.ran < SLICE THEN turn.ran + 1 ELSE turn.ran
        /\ R.wrapped = (turn.wrapped \/ j = 0)
        /\ R.cut = turn.cut /\ R.tracked = turn.tracked
    BY <1>1, <1>2, <1>11, RanFields
  <2>2. \/ ~Due(pt, j) /\ verdict' = "none" /\ turn' = R
             /\ slice' = slice /\ pt' = pt
        \/ Due(pt, j) /\ j < slice[cur] /\ verdict' = "refused" /\ turn' = R
             /\ slice' = slice /\ pt' = Add(j, PERIOD)
        \/ Due(pt, j) /\ ~(j < slice[cur]) /\ verdict' = "eligible"
             /\ turn' = [R EXCEPT !.tracked = b]
             /\ slice' = [slice EXCEPT ![cur] = TrackedEnd(j)]
             /\ pt' = Add(j, PERIOD)
    BY DEF Tick, PreemptTimeout, j
  <2>e. e \in 0..MAX /\ (b => e = slice[cur])
    BY <1>1 DEF End
  <2>b. b \in BOOLEAN /\ (load = "done" <=> b) /\ (load' = "done" <=> b)
    BY <1>3
  <2>f. /\ slice' = slice => End' = e
        /\ ~b => End' = e
        /\ b /\ slice' = [slice EXCEPT ![cur] = TrackedEnd(j)] => End' = TrackedEnd(j)
    BY <1>1, <1>3 DEF End
  \* The invariant about the state before, in terms of e.
  <2>t. turn.tracked =>
          /\ b
          /\ turn.ran = SLICE \/ turn.cut
          /\ \/ e = 0
             \/ e <= jiffies /\ pt = e + PERIOD /\ jiffies <= pt /\ pt < MAX
    BY DEF IInv, TurnInv, TrackedInv
  <2>u. ~turn.tracked /\ ~turn.wrapped =>
          /\ ~turn.cut /\ turn.ran < SLICE => e = jiffies + (SLICE - turn.ran)
          /\ ~turn.cut /\ turn.ran = SLICE => e <= jiffies
          /\ turn.cut => e < jiffies
    BY <1>11 DEF IInv, UntrackedInv
  <2>4. turn.wrapped /\ ~turn.cut => turn.ran = SLICE
    BY DEF IInv, TurnInv
  <2> HIDE DEF R, e, b
  \* Once tracked, the next check comes before the wrap.
  <2>3. turn.tracked /\ e # 0 => j = jiffies + 1 /\ e < j
    BY <1>1, <1>2, <1>5, <2>t, <2>e
  <2>5. R.wrapped /\ ~R.cut => R.ran = SLICE
    <3>1. CASE turn.wrapped
      BY <3>1, <2>1, <2>4, <1>1, <1>5
    <3>2. CASE ~turn.wrapped /\ turn.tracked
      BY <3>2, <2>1, <2>t, <1>1, <1>5
    <3>3. CASE ~turn.wrapped /\ ~turn.tracked
      BY <3>3, <2>1, <2>u, <2>e, <1>1, <1>2, <1>5
    <3> QED
      BY <3>1, <3>2, <3>3
  <2>6. R.tracked => R.ran = SLICE \/ R.cut
    BY <2>1, <2>t, <1>1, <1>5
  \* The end of an untracked slice is where it should be after the tick.
  <2>7. ~R.tracked /\ ~R.wrapped =>
          /\ ~R.cut /\ R.ran < SLICE => e = j + (SLICE - R.ran)
          /\ ~R.cut /\ R.ran = SLICE => e <= j
          /\ R.cut => e < j
    <3> SUFFICES ASSUME ~R.tracked, ~R.wrapped
                 PROVE  /\ ~R.cut /\ R.ran < SLICE => e = j + (SLICE - R.ran)
                        /\ ~R.cut /\ R.ran = SLICE => e <= j
                        /\ R.cut => e < j
      OBVIOUS
    <3>1. ~turn.tracked /\ ~turn.wrapped /\ j # 0 /\ R.cut = turn.cut
      BY <2>1
    <3>2. j = jiffies + 1
      BY <3>1, <1>2
    <3>3. CASE turn.cut
      <4>1. e < j
        BY <3>1, <3>2, <3>3, <2>u, <2>e, <1>1
      <4> QED
        BY <4>1, <3>1, <3>3
    <3>4. CASE ~turn.cut
      <4>1. /\ turn.ran < SLICE => e = jiffies + (SLICE - turn.ran)
            /\ turn.ran = SLICE => e <= jiffies
        BY <3>1, <3>4, <2>u
      <4>2. R.ran = IF turn.ran < SLICE THEN turn.ran + 1 ELSE turn.ran
        BY <2>1
      <4>3. /\ R.ran < SLICE => e = j + (SLICE - R.ran)
            /\ R.ran = SLICE => e <= j
        BY <4>1, <4>2, <3>2, <2>e, <1>1, <1>5
      <4> QED
        BY <4>3, <3>1, <3>4
    <3> QED
      BY <3>3, <3>4
  \* A tick that leaves the end of this turn alone, and its mark.
  <2>8. ASSUME turn' = R, End' = e, (pt' = pt /\ ~Due(pt, j)) \/ ~R.tracked
        PROVE  UntrackedInv' /\ TrackedInv' /\ TurnInv'
    <3>1. UntrackedInv'
      BY <2>8, <2>7, <1>3 DEF UntrackedInv
    <3>2. TurnInv'
      BY <2>8, <2>1, <2>5, <2>6, <2>t, <2>b, <1>3, <1>11 DEF TurnInv
    <3>3. TrackedInv'
      <4> SUFFICES ASSUME R.tracked PROVE TrackedInv'
        BY <2>8 DEF TrackedInv
      <4>1. pt' = pt /\ ~Due(pt, j) /\ turn.tracked
        BY <2>8, <2>1
      <4> QED
        BY <4>1, <2>8, <2>3, <2>e, <2>t, <1>1, <1>2, <1>3, <1>5
        DEF TrackedInv, Due
    <3> QED
      BY <3>1, <3>2, <3>3
  <2>9. CASE ~Due(pt, j) /\ verdict' = "none" /\ turn' = R
               /\ slice' = slice /\ pt' = pt
    <3>1. UntrackedInv' /\ TrackedInv' /\ TurnInv'
      BY <2>8, <2>9, <2>f
    <3>2. SliceCheck'
      BY <2>9 DEF SliceCheck
    <3> QED
      BY <3>1, <3>2, <2>9, <2>1, <1>6, <1>7, <1>9
  <2>10. CASE Due(pt, j) /\ j < slice[cur] /\ verdict' = "refused" /\ turn' = R
               /\ slice' = slice /\ pt' = Add(j, PERIOD)
    <3>1. ~R.tracked
      BY <2>10, <2>1, <2>3, <2>e, <2>t, <1>1, <1>2
    <3>2. UntrackedInv' /\ TrackedInv' /\ TurnInv'
      BY <3>1, <2>8, <2>10, <2>f, <1>6
    <3>3. b => R.ran < SLICE \/ R.wrapped
      BY <2>10, <3>1, <2>1, <2>e, <2>7, <1>1, <1>2, <1>5
    <3>4. SliceCheck'
      BY <2>10, <3>1, <3>3, <2>b DEF SliceCheck
    <3> QED
      BY <3>2, <3>4, <2>10, <2>1, <1>6, <1>7, <1>9
  <2>11. CASE Due(pt, j) /\ ~(j < slice[cur]) /\ verdict' = "eligible"
               /\ turn' = [R EXCEPT !.tracked = b]
               /\ slice' = [slice EXCEPT ![cur] = TrackedEnd(j)]
               /\ pt' = Add(j, PERIOD)
    <3>1. /\ turn' \in Turn /\ turn'.tracked = b /\ turn'.ran = R.ran
          /\ turn'.cut = R.cut /\ turn'.wrapped = R.wrapped
      BY <2>11, <2>1, <2>b, TrackedFields
    <3>2. CASE b
      <4>1. R.ran = SLICE \/ R.cut
        BY <3>2, <2>11, <2>1, <2>e, <2>5, <2>6, <2>7, <1>1, <1>2, <1>5 DEF Turn
      <4>2. UntrackedInv' /\ TurnInv' /\ SliceCheck'
        BY <3>2, <2>11, <3>1, <4>1, <2>5, <2>b, <1>3, <1>11
        DEF UntrackedInv, TurnInv, SliceCheck
      <4>3. End' = TrackedEnd(j)
        BY <3>2, <2>11, <2>f
      <4>4. TrackedInv'
        BY <4>3, <2>11, <1>2, <1>3, <1>5 DEF TrackedInv, TrackedEnd, Add
      <4> QED
        BY <3>1, <4>2, <4>4, <2>11, <1>6, <1>7, <1>9
    <3>3. CASE ~b
      <4>1. turn' = R
        <5>1. R.tracked = FALSE
          BY <3>3, <2>1, <2>t, <1>1
        <5> QED
          BY <5>1, <3>3, <2>11, <2>1, <2>b DEF Turn
      <4>2. UntrackedInv' /\ TrackedInv' /\ TurnInv'
        BY <3>1, <3>3, <4>1, <2>8, <2>f, <2>b, <1>6
      <4>3. SliceCheck'
        BY <3>3, <2>b DEF SliceCheck
      <4> QED
        BY <3>1, <4>2, <4>3, <2>11, <1>6, <1>7, <1>9
    <3> QED
      BY <3>2, <3>3, <2>b
  <2> QED
    BY <2>2, <2>9, <2>10, <2>11
<1> QED
  BY <1>10, <1>11

\* The whole tick.
LEMMA TickStep ==
  ASSUME IInv, NEW locked \in BOOLEAN, Tick(locked)
  PROVE  IInv'
<1>1. jiffies' \in 0..MAX
  BY CounterType DEF Tick, IInv, TypeOK
<1>2. where' \in [Thread -> Place]
  BY DEF Tick, IInv, TypeOK, Place
<1>3. owed' \in [Thread -> 0..MAX]
  BY TimerAssumption DEF Tick, IInv, TypeOK
<1>4. UNCHANGED <<cur, load, fresh, expires>>
  BY DEF Tick
<1>5. TypeOK'
  BY <1>1, <1>2, <1>3, <1>4, TickSlice DEF IInv, TypeOK
<1> QED
  BY <1>5, TickSleep, TickSlice DEF IInv

\* Every step preserves the invariant.
LEMMA StepInv == IInv /\ [Next]_vars => IInv'
<1> SUFFICES ASSUME IInv, [Next]_vars PROVE IInv'
  OBVIOUS
<1>1. CASE \E t \in Thread : Sleep(t) \/ Dispatch(t)
  <2>1. PICK t \in Thread : Sleep(t) \/ Dispatch(t)
    BY <1>1
  <2>2. CASE Dispatch(t)
    BY <2>2, SwitchSteps
  <2>3. CASE \E u \in Thread : Suspend(t, u)
    BY <2>3, SwitchSteps
  <2>4. CASE \/ \E n \in Delays : Delay(t, n)
             \/ Arm(t) \/ DelayReturns(t) \/ Return(t)
    BY <2>4, SleepSteps
  <2> QED
    BY <2>1, <2>2, <2>3, <2>4 DEF Sleep
<1>2. CASE Loop
  BY <1>2, LoopStep
<1>3. CASE ReloadRead \/ ReloadStore
  BY <1>3, ReloadReadStep, ReloadStoreStep
<1>4. CASE \E locked \in BOOLEAN : Tick(locked)
  BY <1>4, TickStep
<1>5. CASE UNCHANGED vars
  <2>1. TypeOK' /\ SleepInv'
    BY <1>5 DEF vars, IInv, TypeOK, SleepInv
  <2>2. PreemptDue' /\ UntrackedInv' /\ TrackedInv' /\ TurnInv' /\ SliceCheck'
    BY <1>5 DEF vars, IInv, End, PreemptDue, UntrackedInv, TrackedInv,
                TurnInv, SliceCheck
  <2> QED  BY <1>5, <2>1, <2>2 DEF vars, IInv
<1> QED
  BY <1>1, <1>2, <1>3, <1>4, <1>5 DEF Next

\* The inductive invariant holds in every reachable state.
THEOREM Invariance == Spec => []IInv
BY InitInv, StepInv, PTL DEF Spec

\* No sleep of schedule_delay_ms is cut short, for any width of jiffies and
\* any delays.
THEOREM SleepsLongEnough == Spec => []NoEarlyWake
<1>1. IInv => NoEarlyWake
  BY DEF IInv, SleepInv, NoEarlyWake
<1> QED
  BY <1>1, Invariance, PTL

\* The preemption timer of kthread_schedule_timeout is never further away than
\* its period, unless it stands on 0 or JIFFIES_MAX.
THEOREM PreemptionPeriodic == Spec => []PreemptDue
<1>1. IInv => PreemptDue
  BY DEF IInv
<1> QED
  BY <1>1, Invariance, PTL

\* The slice check of kthread_schedule_timeout errs before the slice is
\* reloaded and around a wrap only, and never again in a turn once it has
\* found the slice used up.
THEOREM SliceChecked == Spec => []SliceCheck
<1>1. IInv => SliceCheck
  BY DEF IInv
<1> QED
  BY <1>1, Invariance, PTL

\* The state of the timers keeps its types.
THEOREM TypeCorrect == Spec => []TypeOK
<1>1. IInv => TypeOK
  BY DEF IInv
<1> QED
  BY <1>1, Invariance, PTL

-----------------------------------------------------------------------------
(* Semaphore.tla *)

SemaPlace == {"out", "down", "try", "dec", "cs", "inc"}

\* A thread that has passed the test is still on the core and the permit it
\* saw is still there.  This is what keeps the decrement above zero.
SemaInv ==
  /\ sgrt_atc \in 0..(W - 1) /\ cpu \in Caller /\ pc \in [Caller -> SemaPlace]
  /\ sgrt_atc + Cardinality(Owners) <= Val
  /\ sgrt_atc = 0 => Owners # {}
  /\ \A t \in Caller : pc[t] = "dec" => cpu = t /\ sgrt_atc # 0

SemaIInv == ~raced => SemaInv

\* The owners are finitely many.
LEMMA OwnersFinite == IsFiniteSet(Owners) /\ Cardinality(Owners) \in Nat
<1>1. IsFiniteSet(Owners)
  BY SemaphoreAssumption, FS_Subset DEF Owners
<1> QED  BY <1>1, FS_CardinalityType

\* Initially all permits are there.
LEMMA SemaInitInv == SemaInit => SemaIInv
<1> SUFFICES ASSUME SemaInit PROVE SemaInv
  BY DEF SemaIInv
<1>1. Owners = {}
  BY DEF SemaInit, Owners
<1>2. Cardinality(Owners) = 0
  BY <1>1, FS_EmptySet
<1> QED  BY <1>1, <1>2, SemaphoreAssumption DEF SemaInit, SemaInv, SemaPlace

\* A step that changes neither the counter nor the owners.
LEMMA QuietStep ==
  ASSUME SemaInv, cpu' \in Caller, pc' \in [Caller -> SemaPlace],
         Owners' = Owners, sgrt_atc' = sgrt_atc,
         \A t \in Caller : pc'[t] = "dec" => cpu' = t /\ sgrt_atc # 0
  PROVE  SemaInv'
BY DEF SemaInv

\* Moving between two places outside of the section, or inside of it.
LEMMA SameOwners ==
  ASSUME SemaInv, NEW t \in Caller, NEW p \in SemaPlace, pc' = [pc EXCEPT ![t] = p],
         t \in Owners <=> p \in {"cs", "inc"}
  PROVE  Owners' = Owners /\ pc' \in [Caller -> SemaPlace]
BY DEF SemaInv, Owners

\* atomic_dec lets its thread in and takes a permit that is there.
LEMMA DecInv ==
  ASSUME SemaInv, NEW t \in Caller, AtomicDec(t)
  PROVE  SemaInv'
<1>1. /\ pc[t] = "dec" /\ cpu' = cpu /\ pc' = [pc EXCEPT ![t] = "cs"]
      /\ sgrt_atc' = (sgrt_atc - 1) % W
  BY DEF AtomicDec, At, Goto
<1>2. sgrt_atc - 1 \in 0..(W - 1) /\ W \in Nat /\ W > 0
  BY <1>1, SemaphoreAssumption DEF SemaInv
<1>3. sgrt_atc' = sgrt_atc - 1
  BY <1>1, <1>2
<1>4. t \notin Owners /\ Owners' = Owners \cup {t} /\ pc' \in [Caller -> SemaPlace]
  BY <1>1 DEF Owners, SemaInv, SemaPlace
<1>5. Cardinality(Owners') = Cardinality(Owners) + 1
  BY <1>4, OwnersFinite, FS_AddElement
<1>6. \A s \in Caller : pc'[s] # "dec"
  BY <1>1 DEF SemaInv
<1> QED
  BY <1>1, <1>2, <1>3, <1>4, <1>5, <1>6, OwnersFinite, SemaphoreAssumption
    DEF SemaInv

\* atomic_inc gives back the permit of its thread, which leaves.
LEMMA IncInv ==
  ASSUME SemaInv, NEW t \in Caller, AtomicInc(t)
  PROVE  SemaInv'
<1>1. /\ pc[t] = "inc" /\ cpu' = cpu /\ pc' = [pc EXCEPT ![t] = "out"]
      /\ sgrt_atc' = (sgrt_atc + 1) % W
  BY DEF AtomicInc, At, Goto
<1>2. t \in Owners /\ Owners' = Owners \ {t} /\ pc' \in [Caller -> SemaPlace]
  BY <1>1 DEF Owners, SemaInv, SemaPlace
<1>3. Cardinality(Owners') = Cardinality(Owners) - 1
  BY <1>2, OwnersFinite, FS_RemoveElement
<1>4. Cardinality(Owners') \in Nat
  BY <1>2, OwnersFinite, FS_RemoveElement, FS_CardinalityType
<1>5. sgrt_atc + 1 \in 1..(W - 1) /\ W \in Nat
  BY <1>3, <1>4, OwnersFinite, SemaphoreAssumption DEF SemaInv
<1>6. sgrt_atc' = sgrt_atc + 1
  BY <1>1, <1>5
<1>7. \A s \in Caller : pc'[s] = "dec" => pc[s] = "dec"
  BY <1>1 DEF SemaInv
<1> QED
  BY <1>1, <1>2, <1>3, <1>5, <1>6, <1>7, OwnersFinite DEF SemaInv

\* sema_up leaves without an increment only when the counter is not zero.
LEMMA UpInv ==
  ASSUME SemaInv, NEW t \in Caller, UpTest(t)
  PROVE  SemaInv'
<1>1. /\ pc[t] = "cs" /\ cpu' = cpu /\ sgrt_atc' = sgrt_atc
      /\ pc' = [pc EXCEPT ![t] = IF sgrt_atc = 0 THEN "inc" ELSE "out"]
  BY DEF UpTest, At, Goto, sema_is_locked
<1>2. \A s \in Caller : pc'[s] = "dec" => pc[s] = "dec"
  BY <1>1 DEF SemaInv
<1>3. CASE sgrt_atc = 0
  <2>1. Owners' = Owners /\ pc' \in [Caller -> SemaPlace]
    BY <1>1, <1>3, SameOwners DEF Owners, SemaPlace
  <2> QED  BY <1>1, <1>2, <2>1, QuietStep DEF SemaInv
<1>4. CASE sgrt_atc # 0
  <2>1. t \in Owners /\ Owners' = Owners \ {t} /\ pc' \in [Caller -> SemaPlace]
    BY <1>1, <1>4 DEF Owners, SemaInv, SemaPlace
  <2>2. Cardinality(Owners') = Cardinality(Owners) - 1
    BY <2>1, OwnersFinite, FS_RemoveElement
  <2> QED  BY <1>1, <1>2, <1>4, <2>1, <2>2, OwnersFinite, SemaphoreAssumption
             DEF SemaInv
<1> QED  BY <1>3, <1>4

\* Every step of a thread keeps the invariant.
LEMMA ThreadInv ==
  ASSUME SemaInv, NEW t \in Caller, ThreadStep(t)
  PROVE  SemaInv'
<1>1. CASE Call(t)
  <2>1. PICK p \in {"down", "try"} : Goto(t, p)
    BY <1>1 DEF Call
  <2>2. Owners' = Owners /\ pc' \in [Caller -> SemaPlace]
    BY <1>1, <2>1, SameOwners DEF Call, At, Goto, SemaPlace, Owners
  <2> QED  BY <1>1, <2>1, <2>2, QuietStep DEF Call, Goto, SemaInv
<1>2. CASE Wait(t)
  <2>1. Owners' = Owners /\ pc' = pc /\ sgrt_atc' = sgrt_atc /\ cpu' \in Caller
    BY <1>2 DEF Wait, Owners
  <2>2. \A s \in Caller : pc[s] # "dec"
    BY <1>2 DEF Wait, sema_is_locked, SemaInv
  <2> QED  BY <2>1, <2>2, QuietStep DEF SemaInv
<1>3. CASE Test(t)
  <2>1. /\ pc[t] = "down" /\ pc' = [pc EXCEPT ![t] = "dec"] /\ cpu = t
        /\ sgrt_atc # 0 /\ cpu' = cpu /\ sgrt_atc' = sgrt_atc
    BY <1>3 DEF Test, At, Goto, sema_is_locked
  <2>2. Owners' = Owners /\ pc' \in [Caller -> SemaPlace]
    BY <2>1, SameOwners DEF Owners, SemaPlace
  <2> QED  BY <2>1, <2>2, QuietStep DEF SemaInv
<1>4. CASE TryTest(t)
  <2>1. /\ pc[t] = "try" /\ cpu = t /\ cpu' = cpu /\ sgrt_atc' = sgrt_atc
        /\ pc' = [pc EXCEPT ![t] = IF sgrt_atc = 0 THEN "out" ELSE "dec"]
    BY <1>4 DEF TryTest, At, Goto, sema_is_locked
  <2>2. Owners' = Owners /\ pc' \in [Caller -> SemaPlace]
    BY <2>1, SameOwners DEF Owners, SemaPlace
  <2> QED  BY <2>1, <2>2, QuietStep DEF SemaInv
<1> QED
  BY <1>1, <1>2, <1>3, <1>4, DecInv, UpInv, IncInv DEF ThreadStep

\* Every step keeps the inductive invariant.
LEMMA SemaStepInv == SemaIInv /\ [SemaNext]_sema_vars => SemaIInv'
<1> SUFFICES ASSUME SemaIInv, [SemaNext]_sema_vars, ~raced' PROVE SemaInv'
  BY DEF SemaIInv
<1>1. ASSUME NEW t \in Caller, ThreadStep(t) PROVE SemaInv'
  <2>1. raced' = raced
    BY <1>1 DEF ThreadStep, Call, Wait, Test, TryTest, AtomicDec, UpTest,
      AtomicInc
  <2> QED  BY <1>1, <2>1, ThreadInv DEF SemaIInv
<1>2. CASE Switch
  <2>1. ~raced /\ pc[cpu] # "dec" /\ cpu' \in Caller
        /\ UNCHANGED <<sgrt_atc, pc>>
    BY <1>2 DEF Switch
  <2>2. SemaInv /\ Owners' = Owners
    BY <2>1 DEF SemaIInv, Owners
  <2> QED  BY <2>1, <2>2, QuietStep DEF SemaInv
<1>3. CASE UNCHANGED sema_vars
  BY <1>3 DEF sema_vars, SemaIInv, SemaInv, Owners
<1> QED  BY <1>1, <1>2, <1>3 DEF SemaNext

\* The inductive invariant holds in every reachable state.
THEOREM SemaInvariance == SemaSpec => []SemaIInv
BY SemaInitInv, SemaStepInv, PTL DEF SemaSpec

\* sema_down, sema_up: the threads inside and the permits left are never more
\* than sema_init gave, unless a thread lost the core between its test and its
\* decrement.
THEOREM NoPermitMadeUp == SemaSpec => []PermitsBounded
<1>1. SemaIInv => PermitsBounded
  BY DEF SemaIInv, SemaInv, PermitsBounded
<1> QED  BY <1>1, SemaInvariance, PTL

\* sema_up: although it drops permits, the counter is never left at zero with
\* nobody inside who would raise it, up to such a preemption.
THEOREM NeverStuckAtZero == SemaSpec => []ZeroIsOwned
<1>1. SemaIInv => ZeroIsOwned
  BY DEF SemaIInv, SemaInv, ZeroIsOwned
<1> QED  BY <1>1, SemaInvariance, PTL
=============================================================================
