----------------------------- MODULE SchedProofs -----------------------------
(***************************************************************************)
(* Proofs about Sched.tla, for every set of threads, every priority and    *)
(* every family of children that meets the assumptions of that module.     *)
(***************************************************************************)
EXTENDS Sched, TLAPS, WellFoundedInduction

-----------------------------------------------------------------------------
(* The sorted lists *)

\* A thread's effective priority is a number.
LEMMA PrioType == \A t \in Tid : PrioOf(t) \in Nat
  BY SchedAssumption DEF PrioOf

\* A non-empty set of numbers up to n has a greatest element.
LEMMA GreatestExists ==
  ASSUME NEW n \in Nat, NEW S \in SUBSET (0..n), S # {}
  PROVE  \E i \in S : \A j \in S : j <= i
<1> DEFINE M == {n - i : i \in S}
<1>1. M \subseteq Nat /\ M # {}
  OBVIOUS
<1>2. PICK m \in M : \A y \in M : ~(<<y, m>> \in OpToRel(<, Nat))
  <2> HIDE DEF M
  <2> QED  BY <1>1, WFMin, NatLessThanWellFounded
<1>3. \A y \in M : m <= y
  <2> HIDE DEF M
  <2> SUFFICES ASSUME NEW y \in M, ~(m <= y) PROVE FALSE
    OBVIOUS
  <2>1. y \in Nat /\ m \in Nat /\ y < m
    BY <1>1
  <2>2. <<y, m>> \in OpToRel(<, Nat)
    BY <2>1 DEF OpToRel
  <2> QED  BY <2>2, <1>2
<1>4. PICK i \in S : m = n - i
  BY <1>2
<1>5. \A j \in S : j <= i
  <2> TAKE j \in S
  <2>1. n - j \in M
    OBVIOUS
  <2> QED  BY <2>1, <1>3, <1>4
<1> QED  BY <1>4, <1>5

\* The walk of __schedule_add_status_list always finds a place.
LEMMA LastNotLowerPlace ==
  ASSUME NEW l \in Seq(Tid), NEW t \in Tid
  PROVE  /\ LastNotLower(l, t) \in 0..Len(l)
         /\ LastNotLower(l, t) > 0 => PrioOf(l[LastNotLower(l, t)]) <= PrioOf(t)
         /\ \A j \in (LastNotLower(l, t) + 1)..Len(l) : PrioOf(l[j]) > PrioOf(t)
<1> DEFINE S == {i \in 0..Len(l) : i > 0 => PrioOf(l[i]) <= PrioOf(t)}
<1>1. PICK i \in S : \A j \in S : j <= i
  <2>1. 0 \in S /\ S \in SUBSET (0..Len(l)) /\ Len(l) \in Nat
    OBVIOUS
  <2> HIDE DEF S
  <2> QED  BY <2>1, GreatestExists
<1>2. \A j \in (i + 1)..Len(l) : PrioOf(l[j]) > PrioOf(t)
  <2> TAKE j \in (i + 1)..Len(l)
  <2>1. j \notin S
    BY <1>1
  <2>2. j \in 0..Len(l) /\ l[j] \in Tid
    BY <1>1
  <2> QED  BY <2>1, <2>2, PrioType
<1> QED  BY <1>1, <1>2 DEF LastNotLower

\* __schedule_add_status_list adds the thread, once, and keeps the others.
LEMMA AddProperties ==
  ASSUME NEW l \in Seq(Tid), NEW t \in Tid, Distinct(l)
  PROVE  /\ AddStatusList(l, t) \in Seq(Tid)
         /\ Distinct(AddStatusList(l, t))
         /\ \A u \in Tid : InList(AddStatusList(l, t), u) <=> InList(l, u) \/ u = t
<1>1. CASE InList(l, t)
  BY <1>1 DEF AddStatusList
<1>2. CASE ~InList(l, t)
  <2> DEFINE i == LastNotLower(l, t)
             r == InsertAfter(l, i, t)
  <2>1. i \in 0..Len(l)
    BY LastNotLowerPlace
  <2>2. AddStatusList(l, t) = r
    BY <1>2 DEF AddStatusList
  <2> HIDE DEF i
  <2>3. r \in Seq(Tid) /\ Len(r) = Len(l) + 1
    BY <2>1 DEF InsertAfter
  <2>4. \A k \in 1..Len(r) :
          r[k] = IF k <= i THEN l[k] ELSE IF k = i + 1 THEN t ELSE l[k - 1]
    BY <2>1, <2>3 DEF InsertAfter
  <2> HIDE DEF r
  <2>5. Distinct(r)
    <3> SUFFICES ASSUME NEW a \in 1..Len(r), NEW b \in 1..Len(r),
                        r[a] = r[b], a < b
                 PROVE  FALSE
      BY <2>3 DEF Distinct
    <3>1. \A k \in 1..Len(l) : l[k] # t
      BY <1>2 DEF InList
    <3>0. \A x, y \in 1..Len(l) : l[x] = l[y] => x = y
      BY DEF Distinct
    <3>2. CASE b <= i
      <4>1. /\ r[a] = l[a] /\ r[b] = l[b]
            /\ a \in 1..Len(l) /\ b \in 1..Len(l) /\ a # b
        BY <3>2, <2>1, <2>3, <2>4
      <4> QED  BY <4>1, <3>0
    <3>3. CASE a <= i /\ b = i + 1
      BY <3>1, <3>3, <2>1, <2>3, <2>4
    <3>4. CASE a <= i /\ b > i + 1
      <4>1. r[a] = l[a] /\ r[b] = l[b - 1] /\ a # b - 1
        BY <3>4, <2>1, <2>3, <2>4
      <4>2. a \in 1..Len(l) /\ b - 1 \in 1..Len(l)
        BY <3>4, <2>1, <2>3
      <4> QED  BY <4>1, <4>2, <3>0
    <3>5. CASE a = i + 1
      BY <3>1, <3>5, <2>1, <2>3, <2>4
    <3>6. CASE a > i + 1
      <4>1. r[a] = l[a - 1] /\ r[b] = l[b - 1]
        BY <3>6, <2>1, <2>3, <2>4
      <4>2. a - 1 \in 1..Len(l) /\ b - 1 \in 1..Len(l) /\ a - 1 # b - 1
        BY <3>6, <2>1, <2>3
      <4> QED  BY <4>1, <4>2, <3>0
    <3> QED  BY <3>2, <3>3, <3>4, <3>5, <3>6, <2>1, <2>3
  <2>6. ASSUME NEW u \in Tid
        PROVE  InList(r, u) <=> InList(l, u) \/ u = t
    <3>1. InList(r, u) => InList(l, u) \/ u = t
      BY <2>1, <2>3, <2>4 DEF InList
    <3>2. r[i + 1] = t
      BY <2>1, <2>3, <2>4
    <3>3. ASSUME InList(l, u) PROVE InList(r, u)
      <4>1. PICK k \in 1..Len(l) : l[k] = u
        BY <3>3 DEF InList
      <4>2. CASE k <= i
        BY <4>1, <4>2, <2>1, <2>3, <2>4 DEF InList
      <4>3. CASE k > i
        <5>1. k + 1 \in 1..Len(r) /\ r[k + 1] = u
          BY <4>1, <4>3, <2>1, <2>3, <2>4
        <5> QED  BY <5>1 DEF InList
      <4> QED  BY <4>2, <4>3, <2>1
    <3> QED  BY <3>1, <3>2, <3>3, <2>1, <2>3 DEF InList
  <2> QED  BY <2>2, <2>3, <2>5, <2>6
<1> QED  BY <1>1, <1>2

\* __schedule_del_status_list takes the thread off and keeps the others.
LEMMA DelProperties ==
  ASSUME NEW l \in Seq(Tid), NEW t \in Tid, Distinct(l)
  PROVE  /\ DelStatusList(l, t) \in Seq(Tid)
         /\ Distinct(DelStatusList(l, t))
         /\ \A u \in Tid : InList(DelStatusList(l, t), u) <=> InList(l, u) /\ u # t
<1>1. CASE ~InList(l, t)
  BY <1>1 DEF DelStatusList
<1>2. CASE InList(l, t)
  <2> DEFINE p == CHOOSE i \in 1..Len(l) : l[i] = t
             r == [k \in 1..(Len(l) - 1) |-> IF k < p THEN l[k] ELSE l[k + 1]]
  <2>1. p \in 1..Len(l) /\ l[p] = t
    BY <1>2 DEF InList
  <2>2. DelStatusList(l, t) = r
    BY <1>2 DEF DelStatusList
  <2> HIDE DEF p
  <2>3. r \in Seq(Tid) /\ Len(r) = Len(l) - 1
    BY <2>1
  <2>4. \A k \in 1..Len(r) : r[k] = IF k < p THEN l[k] ELSE l[k + 1]
    BY <2>3
  <2> HIDE DEF r
  <2>5. Distinct(r)
    BY <2>1, <2>3, <2>4 DEF Distinct
  <2>6. ASSUME NEW u \in Tid
        PROVE  InList(r, u) <=> InList(l, u) /\ u # t
    <3>1. ASSUME InList(r, u) PROVE InList(l, u) /\ u # t
      BY <3>1, <2>1, <2>3, <2>4 DEF InList, Distinct
    <3>2. ASSUME InList(l, u), u # t PROVE InList(r, u)
      <4>1. PICK k \in 1..Len(l) : l[k] = u
        BY <3>2 DEF InList
      <4>2. CASE k < p
        BY <4>1, <4>2, <2>1, <2>3, <2>4 DEF InList
      <4>3. CASE k > p
        <5>1. k - 1 \in 1..Len(r) /\ r[k - 1] = u
          BY <4>1, <4>3, <2>1, <2>3, <2>4
        <5> QED  BY <5>1 DEF InList
      <4> QED  BY <4>1, <4>2, <4>3, <2>1, <3>2
    <3> QED  BY <3>1, <3>2
  <2> QED  BY <2>2, <2>3, <2>5, <2>6
<1> QED  BY <1>1, <1>2

-----------------------------------------------------------------------------
(* The thread table: what each operation on it does *)

\* A table the scheduler can be given: the lists match the status words, the
\* idle thread is not suspended, and only the running thread, unless it is
\* the idle thread, may have asked to be suspended.
Sane(T) ==
  /\ T \in Table
  /\ ListsMatch(T)
  /\ T.status[IDLE] # "SUSPEND"
  /\ \A t \in Tid :
       /\ T.to_status[t] \in {"NONE", "SUSPEND"}
       /\ T.to_status[t] # "NONE" => T.work = t /\ t # IDLE

\* The threads that exist are the same in both tables.
SameThreads(T, R) ==
  \A t \in Tid : T.status[t] = "NONE" <=> R.status[t] = "NONE"

\* Thread t goes to the status st and every other thread stays where it is.
OneMoved(T, R, t, st) ==
  \A u \in Tid : R.status[u] = IF u = t THEN st ELSE T.status[u]

\* The core goes to the first ready thread, and the thread that had it, if
\* there is one, to the status d.
HandedOver(T, R, d) ==
  /\ d = "READY" \/ (d = "SUSPEND" /\ T.work \notin {NULL, IDLE})
  /\ \A u \in Tid : R.status[u] = IF u = T.work THEN d
                                 ELSE IF u = T.ready[1] THEN "RUNNING"
                                 ELSE T.status[u]

\* What a step does to the ready list: nothing, one thread comes, one thread
\* goes, or the first one goes and the displaced one comes.
ReadyChange(l, r) ==
  \/ r = l
  \/ \E t \in Tid : ~InList(l, t) /\ r = AddStatusList(l, t)
  \/ \E t \in Tid : r = DelStatusList(l, t)
  \/ \E n, p \in Tid :
       /\ n # p /\ ~InList(l, p)
       /\ r = AddStatusList(DelStatusList(l, n), p)

\* Only a thread that had asked for it is suspended, and nobody asks for it.
NoNewSleeper(T, R) ==
  \A t \in Tid :
    /\ R.status[t] = "SUSPEND" =>
         T.status[t] = "SUSPEND" \/ T.to_status[t] = "SUSPEND"
    /\ R.to_status[t] = "SUSPEND" => T.to_status[t] = "SUSPEND"

\* A table is the record of its five fields.
LEMMA TableFields ==
  ASSUME NEW T \in Table
  PROVE  T = [status |-> T.status, to_status |-> T.to_status,
              ready |-> T.ready, suspend |-> T.suspend, work |-> T.work]
  BY DEF Table

\* __SET_THREAD_STATUS changes one target status and nothing else.
LEMMA SetToFields ==
  ASSUME NEW T \in Table, NEW t \in Tid, NEW st
  PROVE  SetTo(T, t, st) =
           [status |-> T.status, to_status |-> [T.to_status EXCEPT ![t] = st],
            ready |-> T.ready, suspend |-> T.suspend, work |-> T.work]
  BY TableFields DEF SetTo

\* With a ready thread the ready list is not empty.
LEMMA ReadyNotEmpty ==
  ASSUME NEW T, Sane(T), NEW t \in Tid, T.status[t] = "READY"
  PROVE  T.ready # <<>> /\ Len(T.ready) > 0
  BY DEF Sane, ListsMatch, InList, Table

\* The first entry of the ready list is a thread in the ready status.
LEMMA FirstReady ==
  ASSUME NEW T, Sane(T), T.ready # <<>>
  PROVE  /\ T.ready[1] \in Tid
         /\ T.status[T.ready[1]] = "READY"
         /\ InList(T.ready, T.ready[1])
<1>1. T.ready \in Seq(Tid) /\ Len(T.ready) > 0
  BY DEF Sane, Table
<1>2. T.ready[1] \in Tid /\ InList(T.ready, T.ready[1])
  BY <1>1 DEF InList
<1> QED  BY <1>2 DEF Sane, ListsMatch

\* real_thread_sleep_timeout: a suspended thread becomes ready.
LEMMA WakeupSane ==
  ASSUME NEW T, Sane(T), NEW t \in Tid, T.status[t] = "SUSPEND"
  PROVE  LET R == ThreadSwitch(SetTo(T, t, "READY"), t)
         IN  /\ Sane(R) /\ SameThreads(T, R)
             /\ R.work = T.work /\ R.ready # <<>>
             /\ NoNewSleeper(T, R) /\ OneMoved(T, R, t, "READY")
             /\ ~InList(T.ready, t) /\ R.ready = AddStatusList(T.ready, t)
<1> DEFINE R == ThreadSwitch(SetTo(T, t, "READY"), t)
<1>1. T \in Table /\ t # IDLE
  BY DEF Sane
<1>a. T.ready \in Seq(Tid) /\ T.suspend \in Seq(Tid)
  BY <1>1 DEF Table
<1>b. Distinct(T.ready) /\ Distinct(T.suspend)
  BY DEF Sane, ListsMatch
<1>2. R = [status    |-> [T.status EXCEPT ![t] = "READY"],
           to_status |-> [T.to_status EXCEPT ![t] = "NONE"],
           ready     |-> AddStatusList(T.ready, t),
           suspend   |-> DelStatusList(T.suspend, t),
           work      |-> T.work]
  <2> DEFINE U == SetTo(T, t, "READY")
             V == Detach(U, t)
             W == Attach(V, t, "READY")
  <2>1. U = [status |-> T.status,
             to_status |-> [T.to_status EXCEPT ![t] = "READY"],
             ready |-> T.ready, suspend |-> T.suspend, work |-> T.work]
    BY <1>1, SetToFields
  <2>2. U.status[t] = "SUSPEND" /\ U.to_status[t] = "READY"
    BY <1>1, <2>1 DEF Table
  <2>3. ~SwitchFails(U, t)
    BY <2>2 DEF SwitchFails
  <2>4. V = [U EXCEPT !.suspend = DelStatusList(@, t)]
    BY <2>2 DEF Detach
  <2>5. W = [V EXCEPT !.ready = AddStatusList(@, t)]
    BY DEF Attach
  <2>6. R = Sync(W, t, "READY")
    BY <2>2, <2>3 DEF ThreadSwitch
  <2> HIDE DEF U, V, W
  <2>7. W = [status |-> T.status,
             to_status |-> [T.to_status EXCEPT ![t] = "READY"],
             ready |-> AddStatusList(T.ready, t),
             suspend |-> DelStatusList(T.suspend, t), work |-> T.work]
    BY <2>1, <2>4, <2>5
  <2> HIDE DEF R
  <2> QED  BY <1>1, <2>6, <2>7 DEF Sync, Table
<1> HIDE DEF R
<1>3. /\ R.ready \in Seq(Tid) /\ Distinct(R.ready)
      /\ \A u \in Tid : InList(R.ready, u) <=> InList(T.ready, u) \/ u = t
  BY <1>a, <1>b, <1>2, AddProperties
<1>4. /\ R.suspend \in Seq(Tid) /\ Distinct(R.suspend)
      /\ \A u \in Tid : InList(R.suspend, u) <=> InList(T.suspend, u) /\ u # t
  BY <1>a, <1>b, <1>2, DelProperties
<1>5. R \in Table
  BY <1>1, <1>2, <1>3, <1>4 DEF Table, Status
<1>6. ListsMatch(R)
  BY <1>1, <1>2, <1>3, <1>4 DEF Sane, ListsMatch, Table
<1>7. Sane(R) /\ SameThreads(T, R)
  BY <1>1, <1>2, <1>5, <1>6 DEF Sane, SameThreads, Table
<1>8. R.ready # <<>>
  BY <1>7, <1>1, <1>2, ReadyNotEmpty DEF Table
<1>9. NoNewSleeper(T, R)
  BY <1>1, <1>2 DEF NoNewSleeper, Table
<1>10. ~InList(T.ready, t)
  BY DEF Sane, ListsMatch
<1>11. OneMoved(T, R, t, "READY")
  BY <1>1, <1>2 DEF OneMoved, Table
<1> QED  BY <1>2, <1>7, <1>8, <1>9, <1>10, <1>11 DEF R

\* register_new_thread: a thread that did not exist becomes ready.
LEMMA RegisterSane ==
  ASSUME NEW T, Sane(T), NEW t \in Tid, T.status[t] = "NONE"
  PROVE  LET R == Sync([T EXCEPT !.ready = AddStatusList(@, t)], t, "READY")
         IN  /\ Sane(R) /\ R.work = T.work
             /\ R.status = [T.status EXCEPT ![t] = "READY"]
             /\ NoNewSleeper(T, R)
             /\ ReadyChange(T.ready, R.ready)
<1> DEFINE R == Sync([T EXCEPT !.ready = AddStatusList(@, t)], t, "READY")
<1>1. T \in Table /\ T.ready \in Seq(Tid) /\ T.suspend \in Seq(Tid)
  BY DEF Sane, Table
<1>2. Distinct(T.ready) /\ Distinct(T.suspend)
  BY DEF Sane, ListsMatch
<1>3. R = [status    |-> [T.status EXCEPT ![t] = "READY"],
           to_status |-> [T.to_status EXCEPT ![t] = "NONE"],
           ready     |-> AddStatusList(T.ready, t),
           suspend   |-> T.suspend, work |-> T.work]
  <2> DEFINE W == [T EXCEPT !.ready = AddStatusList(@, t)]
  <2>1. W = [status |-> T.status, to_status |-> T.to_status,
             ready |-> AddStatusList(T.ready, t),
             suspend |-> T.suspend, work |-> T.work]
    BY <1>1, TableFields
  <2>2. R = Sync(W, t, "READY")
    OBVIOUS
  <2> HIDE DEF W, R
  <2> QED  BY <1>1, <2>1, <2>2 DEF Sync, Table
<1> HIDE DEF R
<1>4. /\ R.ready \in Seq(Tid) /\ Distinct(R.ready)
      /\ \A u \in Tid : InList(R.ready, u) <=> InList(T.ready, u) \/ u = t
  BY <1>1, <1>2, <1>3, AddProperties
<1>5. R \in Table
  BY <1>1, <1>3, <1>4 DEF Table, Status
<1>6. ListsMatch(R)
  BY <1>1, <1>3, <1>4 DEF Sane, ListsMatch, Table
<1>7. Sane(R)
  BY <1>1, <1>3, <1>5, <1>6 DEF Sane, Table
<1>8. NoNewSleeper(T, R)
  BY <1>1, <1>3 DEF NoNewSleeper, Table
<1>9. ReadyChange(T.ready, R.ready)
  <2>1. ~InList(T.ready, t) /\ R.ready = AddStatusList(T.ready, t)
    BY <1>3 DEF Sane, ListsMatch
  <2> QED  BY <2>1 DEF ReadyChange
<1> QED  BY <1>3, <1>7, <1>8, <1>9 DEF R

\* schedule_thread_suspend of a thread that is not running.
LEMMA SuspendSane ==
  ASSUME NEW T, Sane(T), NEW t \in Tid, T.status[t] # "NONE", T.work # t
  PROVE  LET R == ThreadSwitch(SetTo(T, t, "SUSPEND"), t)
         IN  /\ Sane(R) /\ SameThreads(T, R) /\ R.work = T.work
             /\ ReadyChange(T.ready, R.ready)
             /\ \/ R = T
                \/ /\ T.status[t] = "READY" /\ t # IDLE
                   /\ OneMoved(T, R, t, "SUSPEND")
<1> DEFINE U == SetTo(T, t, "SUSPEND")
           R == ThreadSwitch(U, t)
<1>1. T \in Table /\ T.ready \in Seq(Tid) /\ T.suspend \in Seq(Tid)
  BY DEF Sane, Table
<1>2. Distinct(T.ready) /\ Distinct(T.suspend)
  BY DEF Sane, ListsMatch
<1>3. U = [status |-> T.status,
           to_status |-> [T.to_status EXCEPT ![t] = "SUSPEND"],
           ready |-> T.ready, suspend |-> T.suspend, work |-> T.work]
  BY <1>1, SetToFields
<1>4. U.status[t] = T.status[t] /\ U.to_status[t] = "SUSPEND"
  BY <1>1, <1>3 DEF Table
<1>5. T.status[t] \in {"READY", "SUSPEND"} /\ T.to_status[t] = "NONE"
  BY <1>1 DEF Sane, ListsMatch, Table, Status
<1> HIDE DEF U
<1>6. CASE SwitchFails(U, t)
  <2>1. R = [status    |-> [T.status EXCEPT ![t] = T.status[t]],
             to_status |-> [T.to_status EXCEPT ![t] = "NONE"],
             ready |-> T.ready, suspend |-> T.suspend, work |-> T.work]
    BY <1>1, <1>3, <1>4, <1>6 DEF ThreadSwitch, Sync, Table
  <2>2. /\ [T.status EXCEPT ![t] = T.status[t]] = T.status
        /\ [T.to_status EXCEPT ![t] = "NONE"] = T.to_status
    BY <1>1, <1>5 DEF Table
  <2>3. R = T
    BY <2>1, <2>2, <1>1, TableFields
  <2> QED  BY <2>3 DEF SameThreads, ReadyChange, U
<1>7. CASE ~SwitchFails(U, t)
  <2>1. T.status[t] = "READY" /\ t # IDLE
    BY <1>4, <1>5, <1>7 DEF SwitchFails
  <2> DEFINE V == Detach(U, t)
             W == Attach(V, t, "SUSPEND")
  <2>2. V = [U EXCEPT !.ready = DelStatusList(@, t)]
    BY <1>4, <2>1 DEF Detach
  <2>3. W = [V EXCEPT !.suspend = AddStatusList(@, t)]
    BY DEF Attach
  <2>4. R = Sync(W, t, "SUSPEND")
    BY <1>4, <1>7 DEF ThreadSwitch
  <2> HIDE DEF V, W
  <2>5. W = [status |-> T.status,
             to_status |-> [T.to_status EXCEPT ![t] = "SUSPEND"],
             ready |-> DelStatusList(T.ready, t),
             suspend |-> AddStatusList(T.suspend, t), work |-> T.work]
    BY <1>3, <2>2, <2>3
  <2> HIDE DEF R
  <2>6. R = [status    |-> [T.status EXCEPT ![t] = "SUSPEND"],
             to_status |-> [T.to_status EXCEPT ![t] = "NONE"],
             ready |-> DelStatusList(T.ready, t),
             suspend |-> AddStatusList(T.suspend, t), work |-> T.work]
    BY <1>1, <2>4, <2>5 DEF Sync, Table
  <2>7. /\ R.ready \in Seq(Tid) /\ Distinct(R.ready)
        /\ \A u \in Tid : InList(R.ready, u) <=> InList(T.ready, u) /\ u # t
    BY <1>1, <1>2, <2>6, DelProperties
  <2>8. /\ R.suspend \in Seq(Tid) /\ Distinct(R.suspend)
        /\ \A u \in Tid : InList(R.suspend, u) <=> InList(T.suspend, u) \/ u = t
    BY <1>1, <1>2, <2>6, AddProperties
  <2>9. R \in Table
    BY <1>1, <2>6, <2>7, <2>8 DEF Table, Status
  <2>10. ListsMatch(R)
    BY <1>1, <2>1, <2>6, <2>7, <2>8 DEF Sane, ListsMatch, Table
  <2>11. Sane(R) /\ SameThreads(T, R)
    BY <1>1, <2>1, <2>6, <2>9, <2>10 DEF Sane, SameThreads, Table
  <2>12. ReadyChange(T.ready, R.ready)
    BY <2>6 DEF ReadyChange
  <2>13. OneMoved(T, R, t, "SUSPEND")
    BY <1>1, <2>6 DEF OneMoved, Table
  <2> QED  BY <2>1, <2>6, <2>11, <2>12, <2>13 DEF R, U
<1> QED  BY <1>6, <1>7 DEF U

\* The switch of __schedule_thread away from a running thread does not fail,
\* and the first ready thread takes the core.
LEMMA ScheduleSane ==
  ASSUME NEW T, Sane(T), T.work # NULL, T.ready # <<>>
  PROVE  LET U == SchedPrev(T)
             R == ThreadSwitch(U, T.work)
         IN  /\ ~SwitchFails(U, T.work)
             /\ Sane(R) /\ SameThreads(T, R)
             /\ R.work = T.ready[1] /\ R.work # T.work
             /\ \E d : HandedOver(T, R, d)
             /\ NoNewSleeper(T, R) /\ ReadyChange(T.ready, R.ready)
             /\ \A t \in Tid : R.to_status[t] = "NONE"
<1> DEFINE p == T.work
           n == T.ready[1]
           U == SchedPrev(T)
           R == ThreadSwitch(U, p)
           d == IF T.to_status[p] = "NONE" THEN "READY" ELSE "SUSPEND"
<1>1. /\ T \in Table /\ T.ready \in Seq(Tid) /\ T.suspend \in Seq(Tid)
      /\ Distinct(T.ready) /\ Distinct(T.suspend)
  BY DEF Sane, ListsMatch, Table
<1>2. p \in Tid /\ T.status[p] = "RUNNING"
  BY <1>1 DEF Sane, ListsMatch, Table
<1>3. n \in Tid /\ T.status[n] = "READY" /\ n # p
  BY <1>2, FirstReady
<1>4. d = "SUSPEND" => p # IDLE /\ T.to_status[p] = "SUSPEND"
  BY <1>2 DEF Sane
<1> HIDE DEF p, n, d
<1>5. U = [status |-> T.status, to_status |-> [T.to_status EXCEPT ![p] = d],
           ready |-> T.ready, suspend |-> T.suspend, work |-> p]
  <2>1. CASE T.to_status[p] = "NONE"
    <3>1. U = SetTo(T, p, "READY") /\ d = "READY"
      BY <2>1 DEF SchedPrev, p, d
    <3> QED  BY <3>1, <1>1, <1>2, SetToFields DEF p
  <2>2. CASE T.to_status[p] # "NONE"
    <3>1. U = T /\ d = "SUSPEND" /\ T.to_status[p] = "SUSPEND"
      BY <2>2, <1>4 DEF SchedPrev, p, d
    <3>2. [T.to_status EXCEPT ![p] = d] = T.to_status
      BY <3>1, <1>1, <1>2 DEF Table
    <3> QED  BY <3>1, <3>2, <1>1, TableFields DEF p
  <2> QED  BY <2>1, <2>2
<1>6. U.status[p] = "RUNNING" /\ U.to_status[p] = d /\ U.work = p
  BY <1>1, <1>2, <1>5 DEF Table
<1> HIDE DEF U
<1>7. d \in {"READY", "SUSPEND"} /\ ~SwitchFails(U, p)
  BY <1>4, <1>5, <1>6 DEF SwitchFails, d
<1>8. U.ready[1] = n /\ U.ready = T.ready
  BY <1>5 DEF n
<1> DEFINE V == Detach(U, p)
           W == Attach(V, p, d)
<1>9. V = [status    |-> [T.status EXCEPT ![n] = "RUNNING"],
           to_status |-> [[T.to_status EXCEPT ![p] = d] EXCEPT ![n] = "NONE"],
           ready     |-> DelStatusList(T.ready, n),
           suspend   |-> T.suspend, work |-> n]
  <2> DEFINE X == [U EXCEPT !.ready = DelStatusList(@, n), !.work = n]
  <2>1. V = Sync(X, n, "RUNNING")
    BY <1>6, <1>8 DEF Detach, ReinstallWork
  <2> HIDE DEF V, W, R
  <2>2. X = [status |-> T.status,
             to_status |-> [T.to_status EXCEPT ![p] = d],
             ready |-> DelStatusList(T.ready, n),
             suspend |-> T.suspend, work |-> n]
    <3> DEFINE ts == [T.to_status EXCEPT ![p] = d]
    <3>1. U = [status |-> T.status, to_status |-> ts,
               ready |-> T.ready, suspend |-> T.suspend, work |-> p]
      BY <1>5
    <3> HIDE DEF ts
    <3>2. X = [status |-> T.status, to_status |-> ts,
               ready |-> DelStatusList(T.ready, n),
               suspend |-> T.suspend, work |-> n]
      <4> DEFINE Y == [U EXCEPT !.ready = DelStatusList(@, n)]
      <4>1. Y = [status |-> T.status, to_status |-> ts,
                 ready |-> DelStatusList(T.ready, n),
                 suspend |-> T.suspend, work |-> p]
        BY <3>1
      <4>2. X = [Y EXCEPT !.work = n]
        BY <3>1
      <4> HIDE DEF X, Y
      <4> QED  BY <4>1, <4>2
    <3> QED  BY <3>2 DEF ts
  <2> HIDE DEF X
  <2> QED  BY <2>1, <2>2, <1>1, <1>3 DEF Sync, Table
<1>10. R = Sync(W, p, d)
  BY <1>6, <1>7 DEF ThreadSwitch
<1> HIDE DEF V
<1>11. W = [status    |-> V.status, to_status |-> V.to_status,
            ready     |-> IF d = "READY" THEN AddStatusList(V.ready, p)
                          ELSE V.ready,
            suspend   |-> IF d = "SUSPEND" THEN AddStatusList(V.suspend, p)
                          ELSE V.suspend,
            work |-> n]
  BY <1>7, <1>9 DEF Attach
<1> HIDE DEF W, R
<1>12. R = [status    |-> [[T.status EXCEPT ![n] = "RUNNING"] EXCEPT ![p] = d],
            to_status |-> [[[T.to_status EXCEPT ![p] = d] EXCEPT ![n] = "NONE"]
                             EXCEPT ![p] = "NONE"],
            ready     |-> W.ready, suspend |-> W.suspend, work |-> n]
  BY <1>1, <1>9, <1>10, <1>11 DEF Sync, Table
<1>13. /\ V.ready \in Seq(Tid) /\ Distinct(V.ready)
       /\ \A u \in Tid : InList(V.ready, u) <=> InList(T.ready, u) /\ u # n
  BY <1>1, <1>3, <1>9, DelProperties
<1>14. /\ R.ready \in Seq(Tid) /\ Distinct(R.ready)
       /\ \A u \in Tid : InList(R.ready, u) <=>
             (InList(T.ready, u) /\ u # n) \/ (u = p /\ d = "READY")
  <2>1. CASE d = "READY"
    <3>1. R.ready = AddStatusList(V.ready, p)
      BY <2>1, <1>11, <1>12
    <3>2. /\ R.ready \in Seq(Tid) /\ Distinct(R.ready)
          /\ \A u \in Tid : InList(R.ready, u) <=> InList(V.ready, u) \/ u = p
      <4>1. p \in Tid /\ V.ready \in Seq(Tid) /\ Distinct(V.ready)
        BY <1>13, <1>2
      <4> DEFINE r == AddStatusList(V.ready, p)
      <4>2. /\ r \in Seq(Tid) /\ Distinct(r)
            /\ \A u \in Tid : InList(r, u) <=> InList(V.ready, u) \/ u = p
        BY <4>1, AddProperties
      <4> QED  BY <4>2, <3>1
    <3> QED  BY <2>1, <3>2, <1>13
  <2>2. CASE d # "READY"
    BY <2>2, <1>11, <1>12, <1>13
  <2> QED  BY <2>1, <2>2
<1>15. /\ R.suspend \in Seq(Tid) /\ Distinct(R.suspend)
       /\ \A u \in Tid : InList(R.suspend, u) <=>
             InList(T.suspend, u) \/ (u = p /\ d = "SUSPEND")
  <2>1. V.suspend = T.suspend
    BY <1>9
  <2>2. CASE d = "SUSPEND"
    <3>1. R.suspend = AddStatusList(T.suspend, p)
      BY <2>1, <2>2, <1>11, <1>12
    <3>2. /\ R.suspend \in Seq(Tid) /\ Distinct(R.suspend)
          /\ \A u \in Tid : InList(R.suspend, u) <=> InList(T.suspend, u) \/ u = p
      <4>1. p \in Tid /\ T.suspend \in Seq(Tid) /\ Distinct(T.suspend)
        BY <1>1, <1>2
      <4> DEFINE r == AddStatusList(T.suspend, p)
      <4>2. /\ r \in Seq(Tid) /\ Distinct(r)
            /\ \A u \in Tid : InList(r, u) <=> InList(T.suspend, u) \/ u = p
        BY <4>1, AddProperties
      <4> QED  BY <4>2, <3>1
    <3> QED  BY <2>2, <3>2
  <2>3. CASE d # "SUSPEND"
    <3>1. R.suspend = T.suspend
      BY <2>1, <2>3, <1>11, <1>12
    <3> QED  BY <2>3, <3>1, <1>1
  <2> QED  BY <2>2, <2>3
<1>16. /\ R.status \in [Tid -> Status] /\ R.to_status \in [Tid -> Status]
       /\ R.work = n
       /\ \A u \in Tid : /\ R.status[u] = IF u = p THEN d ELSE IF u = n
                                          THEN "RUNNING" ELSE T.status[u]
                         /\ R.to_status[u] = IF u = p \/ u = n THEN "NONE"
                                             ELSE T.to_status[u]
  BY <1>1, <1>2, <1>3, <1>7, <1>12 DEF Table, Status
<1>17. R \in Table
  BY <1>3, <1>12, <1>14, <1>15, <1>16 DEF Table
<1>18. ListsMatch(R)
  <2>1. \A u \in Tid : /\ InList(T.ready, u) <=> T.status[u] = "READY"
                       /\ InList(T.suspend, u) <=> T.status[u] = "SUSPEND"
                       /\ p = u <=> T.status[u] = "RUNNING"
    BY DEF Sane, ListsMatch, p
  <2> QED  BY <2>1, <1>2, <1>3, <1>7, <1>14, <1>15, <1>16 DEF ListsMatch
<1>19. R.status[IDLE] # "SUSPEND"
  BY <1>4, <1>16, SchedAssumption DEF Sane, d
<1>20. \A u \in Tid : R.to_status[u] = "NONE"
  BY <1>16 DEF Sane, p
<1>21. Sane(R) /\ SameThreads(T, R)
  BY <1>2, <1>3, <1>7, <1>16, <1>17, <1>18, <1>19, <1>20 DEF Sane, SameThreads
<1>22. NoNewSleeper(T, R)
  BY <1>4, <1>16, <1>20 DEF NoNewSleeper
<1>23. ReadyChange(T.ready, R.ready)
  <2>1. CASE d = "READY"
    <3>1. R.ready = AddStatusList(DelStatusList(T.ready, n), p)
      BY <2>1, <1>9, <1>11, <1>12
    <3>2. ~InList(T.ready, p)
      BY <1>2 DEF Sane, ListsMatch
    <3> QED  BY <3>1, <3>2, <1>2, <1>3 DEF ReadyChange
  <2>2. CASE d # "READY"
    <3>1. R.ready = DelStatusList(T.ready, n)
      BY <2>2, <1>9, <1>11, <1>12
    <3> QED  BY <3>1, <1>3 DEF ReadyChange
  <2> QED  BY <2>1, <2>2
<1>24. HandedOver(T, R, d)
  BY <1>4, <1>7, <1>16 DEF HandedOver, p, n
<1> QED  BY <1>3, <1>7, <1>16, <1>20, <1>21, <1>22, <1>23, <1>24
         DEF p, n, U, R

\* The first switch, from start_kernel: no thread runs yet.
LEMMA ScheduleFirstSane ==
  ASSUME NEW T, Sane(T), T.work = NULL, T.ready # <<>>
  PROVE  LET U == SchedPrev(T)
             R == ThreadSwitch(U, T.ready[1])
         IN  /\ ~SwitchFails(U, T.ready[1])
             /\ Sane(R) /\ SameThreads(T, R) /\ R.work = T.ready[1]
             /\ HandedOver(T, R, "READY")
             /\ NoNewSleeper(T, R) /\ ReadyChange(T.ready, R.ready)
             /\ \A t \in Tid : R.to_status[t] = "NONE"
<1> DEFINE n == T.ready[1]
           U == SchedPrev(T)
           R == ThreadSwitch(U, n)
<1>1. /\ T \in Table /\ T.ready \in Seq(Tid) /\ T.suspend \in Seq(Tid)
      /\ Distinct(T.ready) /\ Distinct(T.suspend)
  BY DEF Sane, ListsMatch, Table
<1>2. n \in Tid /\ T.status[n] = "READY"
  BY FirstReady
<1>3. U = SetTo(T, n, "RUNNING")
  BY DEF SchedPrev
<1> HIDE DEF n, U
<1>4. U = [status |-> T.status,
           to_status |-> [T.to_status EXCEPT ![n] = "RUNNING"],
           ready |-> T.ready, suspend |-> T.suspend, work |-> NULL]
  BY <1>1, <1>2, <1>3, SetToFields
<1>5. U.status[n] = "READY" /\ U.to_status[n] = "RUNNING"
  BY <1>1, <1>2, <1>4 DEF Table
<1>6. ~SwitchFails(U, n)
  BY <1>5 DEF SwitchFails
<1> DEFINE V == Detach(U, n)
           W == Attach(V, n, "RUNNING")
<1>7. V = [U EXCEPT !.ready = DelStatusList(@, n)]
  BY <1>5 DEF Detach
<1>8. R = Sync(W, n, "RUNNING")
  BY <1>5, <1>6 DEF ThreadSwitch
<1> HIDE DEF V, R
<1>9. V.work = NULL
  BY <1>4, <1>7
<1>10. W = [V EXCEPT !.work = n]
  BY <1>9 DEF Attach
<1> HIDE DEF W
<1>11. W = [status |-> T.status,
            to_status |-> [T.to_status EXCEPT ![n] = "RUNNING"],
            ready |-> DelStatusList(T.ready, n),
            suspend |-> T.suspend, work |-> n]
  BY <1>4, <1>7, <1>10
<1>12. R = [status    |-> [T.status EXCEPT ![n] = "RUNNING"],
            to_status |-> [[T.to_status EXCEPT ![n] = "RUNNING"]
                             EXCEPT ![n] = "NONE"],
            ready |-> DelStatusList(T.ready, n),
            suspend |-> T.suspend, work |-> n]
  BY <1>1, <1>8, <1>11 DEF Sync, Table
<1>13. /\ R.ready \in Seq(Tid) /\ Distinct(R.ready)
       /\ \A u \in Tid : InList(R.ready, u) <=> InList(T.ready, u) /\ u # n
  BY <1>1, <1>2, <1>12, DelProperties
<1>14. R \in Table
  BY <1>1, <1>2, <1>12, <1>13 DEF Table, Status
<1>15. \A u \in Tid : T.status[u] # "RUNNING"
  BY SchedAssumption DEF Sane, ListsMatch
<1>16. ListsMatch(R)
  BY <1>1, <1>2, <1>12, <1>13, <1>15 DEF Sane, ListsMatch, Table
<1>17. R.status = [T.status EXCEPT ![n] = "RUNNING"] /\ R.work = n
       /\ T.status \in [Tid -> Status]
  BY <1>1, <1>12 DEF Table
<1>18. \A t \in Tid : R.to_status[t] = "NONE"
  <2>1. T.to_status \in [Tid -> Status] /\ \A t \in Tid : T.to_status[t] = "NONE"
    BY <1>1, SchedAssumption DEF Sane, Table
  <2>2. R.to_status = [[T.to_status EXCEPT ![n] = "RUNNING"] EXCEPT ![n] = "NONE"]
    BY <1>12
  <2> QED  BY <1>2, <2>1, <2>2
<1>19. Sane(R)
  <2>1. R.status[IDLE] # "SUSPEND"
    BY <1>2, <1>17, SchedAssumption DEF Sane
  <2> QED  BY <1>14, <1>16, <1>18, <2>1 DEF Sane
<1>20. SameThreads(T, R)
  BY <1>2, <1>17 DEF SameThreads
<1>21. NoNewSleeper(T, R)
  BY <1>1, <1>2, <1>12 DEF NoNewSleeper, Table
<1>22. ReadyChange(T.ready, R.ready)
  BY <1>2, <1>12 DEF ReadyChange
<1>23. HandedOver(T, R, "READY")
  BY <1>2, <1>17, SchedAssumption DEF HandedOver, n
<1> QED  BY <1>6, <1>17, <1>18, <1>19, <1>20, <1>21, <1>22, <1>23 DEF R, U, n

-----------------------------------------------------------------------------
(* The inductive invariant *)

Switching(s) == pc[s] \in {"switch", "restore", "rfe"}
Elsewhere == Place \ {"switch", "restore", "rfe"}

\* The lock and the preemption count: the lock is held by the code on the
\* core, which is then not in the context switch, and the count is 1 exactly
\* while the lock is held or __switch_to is between its first instruction
\* and the point where it lowers the count again.
LockInv ==
  /\ lock # NULL => lock = cpu /\ ~Switching(cpu)
  /\ preempt_cnt = IF lock # NULL \/ pc[cpu] = "restore" THEN 1 ELSE 0

\* The core and the table: the thread that executes is the one the table
\* calls running, except in the window of schedule_thread between the unlock
\* and the end of the context switch, where they differ.
CoreInv ==
  /\ \A s \in Stream : s # cpu => ~Switching(s)
  /\ Switching(cpu) => tab.work # cpu /\ tab.work # NULL
  /\ ~Switching(cpu) /\ started => cpu = tab.work

\* Boot: nothing but start_kernel runs, no thread runs and no timer is armed
\* before the first switch, and the idle thread exists before it is tried:
\* start_kernel goes on only when no creation has failed.
BootInv ==
  /\ cpu = BOOT <=> ~started
  /\ started => tab.work # NULL /\ tab.status[IDLE] # "NONE"
  /\ ~started =>
       /\ armed = {} /\ by_irq = {}
       /\ pc[BOOT] \in {"spawn", "alloc", "reg", "failed", "sched", "switch",
                        "restore"}
       /\ pc[BOOT] # "failed" => missing = {}
       /\ pc[BOOT] \in {"sched", "switch", "restore"} =>
            tab.status[IDLE] # "NONE"
       /\ ~Switching(BOOT) => tab.work = NULL

\* The interrupt handler.
IsrInv ==
  /\ in_isr => started /\ Defined
  /\ sched_flag => in_isr /\ tab.ready # <<>>
  /\ ~in_isr => todo = {}

\* A creation in progress has a tid of its own range that is still free.
CreateInv ==
  \A s \in Stream :
    pc[s] \in {"alloc", "reg"} =>
      newtid[s] \in Children[s] /\ tab.status[newtid[s]] = "NONE"

\* LockInv and CoreInv say nothing of a core that has left the defined
\* states, except that nobody holds the lock.
IInv ==
  /\ TypeOK
  /\ Sane(tab)
  /\ pc[IDLE] = "idle"
  /\ ~panic
  /\ Defined => LockInv /\ CoreInv
  /\ ~Defined => lock = NULL
  /\ BootInv /\ IsrInv /\ CreateInv

\* The code of s runs: what the invariant then says.
LEMMA RunFacts ==
  ASSUME IInv, NEW s \in Stream, Runs(s)
  PROVE  /\ Defined /\ LockInv /\ CoreInv /\ cpu = s /\ ~in_isr
         /\ s = BOOT <=> ~started
  BY DEF IInv, Runs, BootInv

\* A step of s that leaves the core and the running thread alone, and moves s
\* to a place outside of the context switch.
LEMMA LocalStep ==
  ASSUME IInv, NEW s \in Stream, Runs(s), ~Switching(s), pc[s] # "idle",
         NEW at \in Elsewhere, pc' = [pc EXCEPT ![s] = at],
         Sane(tab'), tab'.work = tab.work,
         \A t \in Tid : tab.status[t] # "NONE" => tab'.status[t] # "NONE",
         \A r \in Stream : r # s /\ pc[r] \in {"alloc", "reg"} =>
           newtid'[r] = newtid[r] /\ tab'.status[newtid[r]] = "NONE",
         at \in {"alloc", "reg"} =>
           newtid'[s] \in Children[s] /\ tab'.status[newtid'[s]] = "NONE",
         newtid' \in [Stream -> Tid \cup {NULL}],
         lock' \in {NULL, s},
         preempt_cnt' = IF lock' # NULL THEN 1 ELSE 0,
         irq_on' \in BOOLEAN,
         armed' \subseteq Tid \cup {PREEMPT},
         missing' \subseteq Tid,
         s = BOOT => /\ armed' = {}
                     /\ at \in {"spawn", "alloc", "reg", "failed", "sched"}
                     /\ at = "sched" => tab'.status[IDLE] # "NONE"
                     /\ at # "failed" => missing' = {},
         UNCHANGED <<cpu, spsr, psr, in_isr, todo, sched_flag, started,
                     foreign, panic, by_irq>>
  PROVE  IInv'
<1>1. /\ Defined /\ LockInv /\ CoreInv /\ cpu = s /\ ~in_isr
      /\ s = BOOT <=> ~started
  BY RunFacts
<1>2. TypeOK' /\ todo' = {}
  <2>1. TypeOK /\ todo = {}
    BY <1>1 DEF IInv, IsrInv
  <2>2. tab' \in Table /\ pc' \in [Stream -> Place] /\ lock' \in Stream \cup {NULL}
    BY <2>1 DEF TypeOK, Sane, Elsewhere
  <2>3. preempt_cnt' \in Nat
    OBVIOUS
  <2> QED  BY <2>1, <2>2, <2>3 DEF TypeOK
<1>3. pc'[IDLE] = "idle" /\ ~panic' /\ Defined'
  BY <1>1, SchedAssumption DEF IInv, TypeOK, Stream, Defined
<1>4. pc'[s] = at /\ \A r \in Stream : r # s => pc'[r] = pc[r]
  BY DEF IInv, TypeOK
<1>5. LockInv'
  BY <1>1, <1>4 DEF LockInv, Switching, Elsewhere
<1>6. CoreInv'
  BY <1>1, <1>4 DEF CoreInv, Switching, Elsewhere
<1>7. BootInv'
  BY <1>1, <1>4, SchedAssumption
     DEF IInv, BootInv, Switching, Elsewhere, Stream
<1>8. IsrInv'
  BY <1>1, <1>2 DEF IInv, IsrInv
<1>9. CreateInv'
  BY <1>4 DEF IInv, CreateInv
<1> QED  BY <1>2, <1>3, <1>5, <1>6, <1>7, <1>8, <1>9 DEF IInv

\* The places of a stream that start_kernel is never at.
LEMMA NotBoot ==
  ASSUME IInv, NEW s \in Stream, Runs(s),
         pc[s] \in {"stats", "run", "susp", "setup", "mod", "ss", "del"}
  PROVE  s \in Tid /\ s # BOOT /\ tab.work = s
<1>1. CoreInv /\ cpu = s /\ (s = BOOT <=> ~started) /\ ~Switching(s)
  BY RunFacts DEF Switching
<1>2. s # BOOT
  BY <1>1 DEF IInv, BootInv
<1> QED  BY <1>1, <1>2 DEF Stream, CoreInv

\* The steps of a stream that do not touch the thread table.
LEMMA QuietSteps ==
  ASSUME IInv, NEW s \in Stream,
         \/ Acquire(s) \/ GetUnusedTid(s) \/ AllocThread(s) \/ AllocFails(s)
         \/ Spawned(s) \/ StatsLoop(s) \/ CallScheduler(s) \/ CallService(s)
         \/ SetupTimer(s) \/ ModTimer(s) \/ DelTimer(s)
  PROVE  IInv'
<1>1. Runs(s)
  BY DEF Acquire, GetUnusedTid, AllocThread, AllocFails, Spawned, StatsLoop,
         CallScheduler, CallService, SetupTimer, ModTimer, DelTimer, Holds
<1>2. /\ LockInv /\ CoreInv /\ cpu = s /\ (s = BOOT <=> ~started)
      /\ TypeOK /\ Sane(tab) /\ BootInv /\ CreateInv
  BY <1>1, RunFacts DEF IInv
<1>3. ~Switching(s) =>
        /\ preempt_cnt = IF lock # NULL THEN 1 ELSE 0
        /\ lock \in {NULL, s}
  BY <1>2 DEF LockInv, Switching, TypeOK
<1>4. s = BOOT => /\ armed = {} /\ by_irq = {}
                  /\ pc[s] # "failed" => missing = {}
  BY <1>2 DEF BootInv
<1>5. \A r \in Stream : pc[r] \in {"alloc", "reg"} =>
        newtid[r] \in Children[r] /\ tab.status[newtid[r]] = "NONE"
  BY <1>2 DEF CreateInv
<1>6. CASE Acquire(s)
  <2> DEFINE at == pc[s]
  <2>1. at \in Elsewhere /\ ~Switching(s) /\ pc[s] # "idle"
    BY <1>2, <1>6 DEF Acquire, WantsLock, TypeOK, Elsewhere, Place, Switching
  <2>2. pc' = [pc EXCEPT ![s] = at]
    BY <1>2, <1>6 DEF Acquire, TypeOK
  <2>3. lock' = s /\ preempt_cnt' = 1 /\ s # NULL
    BY <2>1, <1>3, <1>6, SchedAssumption DEF Acquire, Stream
  <2>4. s = BOOT => /\ armed' = {}
                    /\ at \in {"spawn", "alloc", "reg", "failed", "sched"}
                    /\ at = "sched" => tab'.status[IDLE] # "NONE"
                    /\ at # "failed" => missing' = {}
    BY <1>2, <1>4, <1>6, <2>1 DEF Acquire, BootInv, Switching
  <2>5. UNCHANGED <<tab, irq_on, newtid, armed, cpu, spsr, psr, in_isr, todo,
                    sched_flag, started, foreign, panic, by_irq, missing>>
    BY <1>6 DEF Acquire
  <2>6. /\ newtid' \in [Stream -> Tid \cup {NULL}] /\ armed' \subseteq Tid \cup {PREEMPT}
        /\ irq_on' \in BOOLEAN /\ missing' \subseteq Tid
    BY <1>2, <2>5 DEF TypeOK
  <2>7. \A r \in Stream : pc[r] \in {"alloc", "reg"} =>
          newtid'[r] \in Children[r] /\ newtid'[r] = newtid[r]
          /\ tab'.status[newtid[r]] = "NONE"
    BY <1>5, <2>5
  <2>8. at \in {"alloc", "reg"} =>
          newtid'[s] \in Children[s] /\ tab'.status[newtid'[s]] = "NONE"
    BY <2>7
  <2>9. Sane(tab') /\ tab'.work = tab.work
        /\ \A t \in Tid : tab.status[t] # "NONE" => tab'.status[t] # "NONE"
    BY <1>2, <2>5
  <2> HIDE DEF at
  <2> QED  BY <1>1, <2>1, <2>2, <2>3, <2>4, <2>5, <2>6, <2>7, <2>8, <2>9,
              LocalStep
<1>7. CASE GetUnusedTid(s)
  <2>1. pc[s] = "spawn" /\ ~Switching(s) /\ lock = s /\ s # NULL
    BY <1>7, SchedAssumption DEF GetUnusedTid, Holds, Switching, Stream
  <2>2. lock' = NULL /\ preempt_cnt' = 0 /\ irq_on' \in BOOLEAN
    BY <1>2, <1>3, <1>7, <2>1 DEF GetUnusedTid, Release, TypeOK
  <2>3. PICK c \in Unborn(s) : newtid' = [newtid EXCEPT ![s] = c]
    BY <1>7 DEF GetUnusedTid
  <2>4. c \in Children[s] /\ tab.status[c] = "NONE" /\ c \in Tid
    BY <2>3, SchedAssumption DEF Unborn
  <2>5. /\ newtid' \in [Stream -> Tid \cup {NULL}] /\ newtid'[s] = c
        /\ \A r \in Stream : r # s => newtid'[r] = newtid[r]
    BY <1>2, <2>3, <2>4 DEF TypeOK
  <2>6. pc' = [pc EXCEPT ![s] = "alloc"]
    BY <1>7 DEF GetUnusedTid, Goto
  <2>7. "alloc" \in Elsewhere
    BY DEF Elsewhere, Place
  <2> QED  BY <1>1, <1>2, <1>4, <1>5, <1>7, <2>1, <2>2, <2>4, <2>5, <2>6,
              <2>7, LocalStep DEF GetUnusedTid, TypeOK
<1>8. CASE AllocThread(s)
  <2>1. pc[s] = "alloc" /\ ~Switching(s)
    BY <1>8 DEF AllocThread, Switching
  <2>2. pc' = [pc EXCEPT ![s] = "reg"] /\ irq_on' \in BOOLEAN
    BY <1>2, <1>8 DEF AllocThread, Goto, TypeOK
  <2>3. "reg" \in Elsewhere
    BY DEF Elsewhere, Place
  <2> QED  BY <1>1, <1>2, <1>3, <1>4, <1>5, <1>8, <2>1, <2>2, <2>3, LocalStep
           DEF AllocThread, TypeOK
<1>16. CASE AllocFails(s)
  <2> DEFINE at == IF s = BOOT THEN "failed" ELSE "spawn"
  <2>1. pc[s] = "alloc" /\ ~Switching(s) /\ newtid[s] \in Tid
    BY <1>5, <1>16, SchedAssumption DEF AllocFails, Switching
  <2>2. pc' = [pc EXCEPT ![s] = at] /\ irq_on' \in BOOLEAN
    BY <1>2, <1>16 DEF AllocFails, Goto, TypeOK
  <2>3. at \in Elsewhere /\ at \notin {"alloc", "reg"}
        /\ (s = BOOT => at = "failed")
    BY DEF Elsewhere, Place
  <2> HIDE DEF at
  <2>4. /\ newtid' \in [Stream -> Tid \cup {NULL}]
        /\ \A r \in Stream : r # s => newtid'[r] = newtid[r]
        /\ missing' \subseteq Tid
    BY <1>2, <1>16, <2>1 DEF AllocFails, TypeOK
  <2> QED  BY <1>1, <1>2, <1>3, <1>4, <1>5, <1>16, <2>1, <2>2, <2>3, <2>4,
              LocalStep DEF AllocFails, TypeOK
<1>9. CASE Spawned(s)
  <2> DEFINE at == CASE s = BOOT -> "sched" [] s = BASE -> "stats"
                     [] OTHER -> "run"
  <2>1. pc[s] = "spawn" /\ ~Switching(s)
    BY <1>9 DEF Spawned, Switching
  <2>2. pc' = [pc EXCEPT ![s] = at]
    BY <1>9 DEF Spawned, Goto
  <2>3. at \in Elsewhere /\ at \notin {"alloc", "reg"}
    BY DEF Elsewhere, Place
  <2>4. s = BOOT => at = "sched" /\ tab.status[IDLE] # "NONE"
    BY <1>4, <1>9, <2>1, SchedAssumption DEF Spawned, Unborn
  <2> HIDE DEF at
  <2> QED  BY <1>1, <1>2, <1>3, <1>4, <1>5, <1>9, <2>1, <2>2, <2>3, <2>4,
              LocalStep DEF Spawned, TypeOK
<1>10. CASE StatsLoop(s)
  <2>1. pc[s] = "stats" /\ ~Switching(s) /\ lock = s /\ s # NULL
    BY <1>10, SchedAssumption DEF StatsLoop, Holds, Switching, Stream
  <2>2. lock' = NULL /\ preempt_cnt' = 0 /\ irq_on' \in BOOLEAN
    BY <1>2, <1>3, <1>10, <2>1 DEF StatsLoop, Release, TypeOK
  <2>3. pc' = [pc EXCEPT ![s] = "setup"] /\ armed' \subseteq Tid \cup {PREEMPT}
    BY <1>2, <1>10 DEF StatsLoop, Goto, TypeOK
  <2>4. "setup" \in Elsewhere /\ s # BOOT
    BY <1>1, <2>1, NotBoot DEF Elsewhere, Place
  <2> QED  BY <1>1, <1>2, <1>5, <1>10, <2>1, <2>2, <2>3, <2>4, LocalStep
           DEF StatsLoop, TypeOK
<1>11. CASE CallScheduler(s)
  <2>1. pc[s] = "run" /\ ~Switching(s)
    BY <1>11 DEF CallScheduler, Switching
  <2>2. PICK at \in {"setup", "sched", "susp", "ss"} : pc' = [pc EXCEPT ![s] = at]
    BY <1>11 DEF CallScheduler, Goto
  <2>3. at \in Elsewhere /\ at \notin {"alloc", "reg"}
    BY <2>2 DEF Elsewhere, Place
  <2>4. s # BOOT
    BY <1>1, <2>1, NotBoot
  <2> QED  BY <1>1, <1>2, <1>3, <1>5, <1>11, <2>1, <2>2, <2>3, <2>4, LocalStep
           DEF CallScheduler, TypeOK
<1>12. CASE CallService(s)
  <2>1. pc[s] = "run" /\ ~Switching(s)
    BY <1>12 DEF CallService, Switching
  <2>2. pc' = [pc EXCEPT ![s] = "run"] /\ irq_on' \in BOOLEAN
    BY <1>2, <1>12, <2>1 DEF CallService, TypeOK
  <2>3. "run" \in Elsewhere /\ s # BOOT
    BY <1>1, <2>1, NotBoot DEF Elsewhere, Place
  <2> QED  BY <1>1, <1>2, <1>3, <1>5, <1>12, <2>1, <2>2, <2>3, LocalStep
           DEF CallService, TypeOK
<1>13. CASE SetupTimer(s)
  <2>1. pc[s] = "setup" /\ ~Switching(s) /\ lock = s /\ s # NULL
    BY <1>13, SchedAssumption DEF SetupTimer, Holds, Switching, Stream
  <2>2. lock' = NULL /\ preempt_cnt' = 0 /\ irq_on' \in BOOLEAN
    BY <1>2, <1>3, <1>13, <2>1 DEF SetupTimer, Release, TypeOK
  <2>3. pc' = [pc EXCEPT ![s] = "mod"]
    BY <1>13 DEF SetupTimer, Goto
  <2>4. "mod" \in Elsewhere /\ s # BOOT
    BY <1>1, <2>1, NotBoot DEF Elsewhere, Place
  <2> QED  BY <1>1, <1>2, <1>5, <1>13, <2>1, <2>2, <2>3, <2>4, LocalStep
           DEF SetupTimer, TypeOK
<1>14. CASE ModTimer(s)
  <2>1. pc[s] = "mod" /\ ~Switching(s)
    BY <1>14 DEF ModTimer, Switching
  <2>2. s \in Tid /\ s # BOOT
    BY <1>1, <2>1, NotBoot
  <2>3. pc' = [pc EXCEPT ![s] = "ss"] /\ armed' \subseteq Tid \cup {PREEMPT}
    BY <1>2, <1>14, <2>2 DEF ModTimer, Goto, TypeOK
  <2>4. "ss" \in Elsewhere
    BY DEF Elsewhere, Place
  <2> QED  BY <1>1, <1>2, <1>3, <1>5, <1>14, <2>1, <2>2, <2>3, <2>4, LocalStep
           DEF ModTimer, TypeOK
<1>15. CASE DelTimer(s)
  <2> DEFINE at == IF s = BASE THEN "stats" ELSE "run"
  <2>1. pc[s] = "del" /\ ~Switching(s) /\ lock = s /\ s # NULL
    BY <1>15, SchedAssumption DEF DelTimer, Holds, Switching, Stream
  <2>2. lock' = NULL /\ preempt_cnt' = 0 /\ irq_on' \in BOOLEAN
    BY <1>2, <1>3, <1>15, <2>1 DEF DelTimer, Release, TypeOK
  <2>3. pc' = [pc EXCEPT ![s] = at] /\ armed' \subseteq Tid \cup {PREEMPT}
    BY <1>2, <1>15 DEF DelTimer, Goto, TypeOK
  <2>4. /\ at \in Elsewhere /\ at \notin {"alloc", "reg"}
        /\ s # BOOT
    BY <1>1, <2>1, NotBoot DEF Elsewhere, Place
  <2> HIDE DEF at
  <2> QED  BY <1>1, <1>2, <1>5, <1>15, <2>1, <2>2, <2>3, <2>4, LocalStep
           DEF DelTimer, TypeOK
<1> QED  BY <1>6, <1>7, <1>8, <1>9, <1>10, <1>11, <1>12, <1>13, <1>14, <1>15,
            <1>16

\* The steps of a stream that change the thread table but not who runs.
LEMMA TableSteps ==
  ASSUME IInv, NEW s \in Stream,
         RegisterNewThread(s) \/ SuspendOther(s) \/ SelfSuspend(s)
  PROVE  IInv'
<1>1. /\ Runs(s) /\ lock = s /\ s # NULL /\ ~Switching(s)
      /\ pc[s] \in {"reg", "susp", "ss"}
  BY SchedAssumption DEF RegisterNewThread, SuspendOther, SelfSuspend, Holds,
                         Switching, Stream
<1>2. /\ LockInv /\ CoreInv /\ cpu = s /\ (s = BOOT <=> ~started)
      /\ TypeOK /\ Sane(tab) /\ BootInv /\ CreateInv
  BY <1>1, RunFacts DEF IInv
<1>3. lock' = NULL /\ preempt_cnt' = 0 /\ irq_on' \in BOOLEAN
  <2>1. Release
    BY DEF RegisterNewThread, SuspendOther, SelfSuspend
  <2> QED  BY <1>1, <1>2, <2>1 DEF Release, LockInv, Switching, TypeOK
<1>4. s = BOOT => /\ armed = {} /\ by_irq = {}
                  /\ pc[s] # "failed" => missing = {}
  BY <1>2 DEF BootInv
<1>5. \A r \in Stream : pc[r] \in {"alloc", "reg"} =>
        newtid[r] \in Children[r] /\ tab.status[newtid[r]] = "NONE"
  BY <1>2 DEF CreateInv
<1>6. tab.status \in [Tid -> Status]
  BY <1>2 DEF TypeOK, Table
<1>7. CASE RegisterNewThread(s)
  <2> DEFINE c == newtid[s]
  <2>1. pc[s] = "reg"
    BY <1>7 DEF RegisterNewThread, Holds
  <2>2. c \in Children[s] /\ c \in Tid /\ tab.status[c] = "NONE"
    BY <1>5, <2>1, SchedAssumption
  <2>3. /\ tab' = Sync([tab EXCEPT !.ready = AddStatusList(@, c)], c, "READY")
        /\ newtid' = [newtid EXCEPT ![s] = NULL]
        /\ pc' = [pc EXCEPT ![s] = "spawn"]
    BY <1>7 DEF RegisterNewThread, Goto
  <2> HIDE DEF c
  <2>4. /\ Sane(tab') /\ tab'.work = tab.work
        /\ tab'.status = [tab.status EXCEPT ![c] = "READY"]
    BY <1>2, <2>2, <2>3, RegisterSane
  <2>5. \A t \in Tid : tab.status[t] # "NONE" => tab'.status[t] # "NONE"
    BY <1>6, <2>2, <2>4
  <2>6. ASSUME NEW r \in Stream, r # s, pc[r] \in {"alloc", "reg"}
        PROVE  newtid'[r] = newtid[r] /\ tab'.status[newtid[r]] = "NONE"
    <3>1. newtid[r] # c /\ newtid[r] \in Tid
      BY <1>5, <2>2, <2>6, SchedAssumption, OneParent
    <3> QED  BY <1>2, <1>5, <1>6, <2>3, <2>4, <2>6, <3>1 DEF TypeOK
  <2>7. newtid' \in [Stream -> Tid \cup {NULL}]
    BY <1>2, <2>3 DEF TypeOK
  <2>8. "spawn" \in Elsewhere
    BY DEF Elsewhere, Place
  <2> QED  BY <1>1, <1>2, <1>3, <1>4, <1>7, <2>1, <2>3, <2>4, <2>5, <2>6,
              <2>7, <2>8, LocalStep DEF RegisterNewThread, TypeOK
<1>8. CASE SuspendOther(s)
  <2>1. pc[s] = "susp" /\ pc' = [pc EXCEPT ![s] = "run"]
    BY <1>8 DEF SuspendOther, Holds, Goto
  <2>2. PICK u \in Tid \ {tab.work} :
          /\ tab.status[u] # "NONE"
          /\ tab' = ThreadSwitch(SetTo(tab, u, "SUSPEND"), u)
    BY <1>8 DEF SuspendOther
  <2>3. Sane(tab') /\ SameThreads(tab, tab') /\ tab'.work = tab.work
    BY <1>2, <2>2, SuspendSane
  <2>4. "run" \in Elsewhere /\ s # BOOT
    BY <1>1, <2>1, NotBoot DEF Elsewhere, Place
  <2>5. \A r \in Stream : pc[r] \in {"alloc", "reg"} =>
          tab'.status[newtid[r]] = "NONE"
    BY <1>5, <2>3, SchedAssumption DEF SameThreads
  <2> QED  BY <1>1, <1>2, <1>3, <1>8, <2>1, <2>3, <2>4, <2>5, LocalStep
           DEF SuspendOther, TypeOK, SameThreads
<1>9. CASE SelfSuspend(s)
  <2>1. pc[s] = "ss" /\ pc' = [pc EXCEPT ![s] = "sched"]
    BY <1>9 DEF SelfSuspend, Holds, Goto
  <2>2. s \in Tid /\ s # BOOT /\ tab.work = s
    BY <1>1, <2>1, NotBoot
  <2>3. s # IDLE
    BY <2>1 DEF IInv
  <2>4. tab \in Table /\ tab' = SetTo(tab, s, "SUSPEND")
    BY <1>2, <1>9, <2>2 DEF SelfSuspend, TypeOK
  <2>5. tab' = [status |-> tab.status,
                to_status |-> [tab.to_status EXCEPT ![s] = "SUSPEND"],
                ready |-> tab.ready, suspend |-> tab.suspend,
                work |-> tab.work]
    BY <2>2, <2>4, SetToFields
  <2>6. Sane(tab')
    <3>1. tab' \in Table
      BY <2>2, <2>4, <2>5 DEF Table, Status
    <3>2. ListsMatch(tab')
      BY <1>2, <2>5 DEF Sane, ListsMatch
    <3> QED  BY <1>2, <2>2, <2>3, <2>4, <2>5, <3>1, <3>2 DEF Sane, Table
  <2>7. tab'.status = tab.status /\ tab'.work = tab.work
    BY <2>5
  <2>8. "sched" \in Elsewhere
    BY DEF Elsewhere, Place
  <2>9. UNCHANGED <<newtid, armed, cpu, spsr, psr, in_isr, todo, sched_flag,
                    started, foreign, panic, by_irq, missing>>
    BY <1>9 DEF SelfSuspend
  <2>10. /\ newtid' \in [Stream -> Tid \cup {NULL}] /\ missing' \subseteq Tid
         /\ armed' \subseteq Tid \cup {PREEMPT}
    BY <1>2, <2>9 DEF TypeOK
  <2>11. \A r \in Stream : pc[r] \in {"alloc", "reg"} =>
           newtid'[r] = newtid[r] /\ tab'.status[newtid[r]] = "NONE"
    BY <1>5, <2>7, <2>9
  <2>12. "sched" \notin {"alloc", "reg"} /\ pc[s] # "idle"
    BY <2>1
  <2> QED  BY <1>1, <1>3, <2>1, <2>2, <2>6, <2>7, <2>8, <2>9, <2>10, <2>11,
              <2>12, LocalStep
<1> QED  BY <1>7, <1>8, <1>9

\* The scheduler's decision, for schedule_thread and for the interrupt return
\* path alike: with a ready thread it never returns a null context, and the
\* thread it puts on the core is not the one that was running.
LEMMA ScheduleResult ==
  ASSUME NEW T, Sane(T), T.ready # <<>>, T.work = NULL => ~started
  PROVE  /\ ~NullContext(T)
         /\ Sane(ScheduleThread(T)) /\ SameThreads(T, ScheduleThread(T))
         /\ ScheduleThread(T).work = T.ready[1] /\ T.ready[1] \in Tid
         /\ ScheduleThread(T).work # T.work
         /\ \E d : HandedOver(T, ScheduleThread(T), d)
         /\ NoNewSleeper(T, ScheduleThread(T))
         /\ ReadyChange(T.ready, ScheduleThread(T).ready)
         /\ \A t \in Tid : ScheduleThread(T).to_status[t] = "NONE"
<1>0. T.ready[1] \in Tid
  BY FirstReady
<1>1. CASE T.work # NULL
  <2>1. PrevOf(T) = T.work
    BY <1>1 DEF PrevOf
  <2>2. ScheduleThread(T) = ThreadSwitch(SchedPrev(T), T.work)
    BY <1>1, <2>1 DEF ScheduleThread
  <2>3. ~SwitchFails(SchedPrev(T), T.work)
    BY <1>1, ScheduleSane
  <2>4. ~NullContext(T)
    BY <1>1, <2>1, <2>3 DEF NullContext
  <2> QED  BY <1>0, <1>1, <2>2, <2>4, ScheduleSane
<1>2. CASE T.work = NULL
  <2>1. PrevOf(T) = T.ready[1]
    BY <1>2 DEF PrevOf
  <2>2. ScheduleThread(T) = ThreadSwitch(SchedPrev(T), T.ready[1])
    BY <1>2, <2>1 DEF ScheduleThread
  <2>3. ~SwitchFails(SchedPrev(T), T.ready[1])
    BY <1>2, ScheduleFirstSane
  <2>4. ~NullContext(T)
    BY <1>2, <2>1, <2>3 DEF NullContext
  <2> QED  BY <1>0, <1>2, <2>2, <2>4, ScheduleFirstSane, SchedAssumption
<1> QED  BY <1>1, <1>2

\* schedule_thread and the context switch.
LEMMA SwitchSteps ==
  ASSUME IInv, NEW s \in Stream,
         \/ Schedule(s) \/ SwitchTo(s) \/ SwitchRestore(s)
         \/ SwitchToIrq(s) \/ ReturnFromException(s)
  PROVE  IInv'
<1>1. Runs(s) /\ pc[s] \in {"sched", "switch", "restore", "rfe"}
  BY DEF Schedule, SwitchTo, SwitchRestore, SwitchToIrq, ReturnFromException,
         Holds
<1>2. /\ Defined /\ LockInv /\ CoreInv /\ cpu = s /\ ~in_isr
      /\ s = BOOT <=> ~started
      /\ TypeOK /\ Sane(tab) /\ BootInv /\ IsrInv /\ CreateInv
      /\ pc[IDLE] = "idle" /\ s # IDLE
  BY <1>1, RunFacts DEF IInv
<1>3. todo = {} /\ ~sched_flag
  BY <1>2 DEF IsrInv
<1>4. \A r \in Stream : pc[r] \in {"alloc", "reg"} =>
        newtid[r] \in Children[r] /\ tab.status[newtid[r]] = "NONE"
  BY <1>2 DEF CreateInv
<1>5. IDLE \in Tid /\ BOOT \notin Tid /\ NULL \notin Tid /\ NULL \notin Stream
  BY SchedAssumption DEF Stream
<1>6. CASE Schedule(s) /\ tab.ready = <<>>
  <2> DEFINE at == AfterSchedule(s)
  <2>1. /\ pc[s] = "sched" /\ ~Switching(s) /\ lock = s
        /\ NullContext(tab) /\ tab' = tab /\ pc' = [pc EXCEPT ![s] = at]
    BY <1>6 DEF Schedule, Holds, Switching, NullContext, ScheduleThread, Goto
  <2>2. s # BOOT
    <3>1. SUFFICES ASSUME s = BOOT PROVE FALSE
      OBVIOUS
    <3>2. tab.work = NULL /\ tab.status[IDLE] # "NONE"
      BY <1>2, <2>1, <3>1 DEF BootInv
    <3>3. tab.status[IDLE] = "READY"
      BY <1>2, <1>5, <3>2 DEF Sane, ListsMatch, Table, Status
    <3> QED  BY <1>2, <1>5, <1>6, <3>3, ReadyNotEmpty
  <2>3. lock' = NULL /\ preempt_cnt' = 0 /\ irq_on' \in BOOLEAN
    BY <1>2, <1>5, <1>6, <2>1 DEF Schedule, Release, LockInv, TypeOK
  <2>4. at \in Elsewhere /\ at \notin {"alloc", "reg"}
    BY DEF AfterSchedule, Elsewhere, Place
  <2> HIDE DEF at
  <2> QED  BY <1>1, <1>2, <1>4, <1>6, <2>1, <2>2, <2>3, <2>4, LocalStep
           DEF Schedule, TypeOK
<1>7. CASE Schedule(s) /\ tab.ready # <<>>
  <2>1. pc[s] = "sched" /\ ~Switching(s) /\ lock = s
    BY <1>7 DEF Schedule, Holds, Switching
  <2>2. tab.work = NULL => ~started
    BY <1>2 DEF BootInv
  <2>3. /\ ~NullContext(tab) /\ Sane(tab') /\ SameThreads(tab, tab')
        /\ tab'.work \in Tid /\ tab'.work # tab.work
    BY <1>2, <1>7, <2>2, ScheduleResult DEF Schedule
  <2>4. pc' = [pc EXCEPT ![s] = "switch"]
    BY <1>7, <2>3 DEF Schedule, Goto
  <2>5. lock' = NULL /\ preempt_cnt' = 0 /\ irq_on' \in BOOLEAN
    BY <1>2, <1>5, <1>7, <2>1 DEF Schedule, Release, LockInv, TypeOK
  <2>6. pc'[s] = "switch" /\ \A r \in Stream : r # s => pc'[r] = pc[r]
    BY <1>2, <2>4 DEF TypeOK
  <2>7. /\ UNCHANGED <<spsr, psr, cpu, newtid, armed, in_isr, todo,
                       sched_flag, started, foreign, panic, by_irq, missing>>
        /\ Defined'
    BY <1>2, <1>7 DEF Schedule, Defined
  <2>8. s # tab'.work
    BY <1>2, <1>5, <2>1, <2>3 DEF CoreInv, Stream
  <2>9. TypeOK'
    BY <1>2, <2>3, <2>4, <2>5, <2>7 DEF TypeOK, Place, Sane
  <2>10. LockInv'
    BY <1>2, <2>5, <2>6, <2>7 DEF LockInv
  <2>11. CoreInv'
    BY <1>2, <1>5, <2>3, <2>6, <2>7, <2>8 DEF CoreInv, Switching
  <2>12. BootInv'
    <3>1. tab.status[IDLE] # "NONE"
      BY <1>2, <2>1 DEF BootInv
    <3>2. tab'.status[IDLE] # "NONE"
      BY <1>5, <2>3, <3>1 DEF SameThreads
    <3> QED  BY <1>2, <1>5, <2>1, <2>3, <2>6, <2>7, <3>2
             DEF BootInv, Switching
  <2>13. IsrInv'
    BY <1>2, <1>3, <2>7 DEF IsrInv
  <2>14. CreateInv'
    BY <1>4, <2>3, <2>6, <2>7, SchedAssumption DEF CreateInv, SameThreads
  <2>15. pc'[IDLE] = "idle" /\ ~panic'
    BY <1>2, <1>5, <2>6, <2>7 DEF Stream, Defined
  <2> QED  BY <2>3, <2>7, <2>9, <2>10, <2>11, <2>12, <2>13, <2>14, <2>15
           DEF IInv
<1>8. CASE SwitchTo(s)
  <2>1. pc[s] = "switch" /\ pc' = [pc EXCEPT ![s] = "restore"]
    BY <1>8 DEF SwitchTo, Goto
  <2>2. lock = NULL /\ preempt_cnt' = 1
    BY <1>2, <1>8, <2>1 DEF SwitchTo, LockInv, Switching
  <2>3. pc'[s] = "restore" /\ \A r \in Stream : r # s => pc'[r] = pc[r]
    BY <1>2, <2>1 DEF TypeOK
  <2>4. /\ UNCHANGED <<tab, lock, irq_on, spsr, psr, cpu, newtid, armed,
                       in_isr, todo, sched_flag, started, foreign, panic,
                       by_irq, missing>>
        /\ Defined'
    BY <1>2, <1>8 DEF SwitchTo, Defined
  <2>5. TypeOK'
    BY <1>2, <2>1, <2>2, <2>4 DEF TypeOK, Place
  <2>6. LockInv'
    BY <1>2, <2>2, <2>3, <2>4 DEF LockInv
  <2>7. CoreInv'
    BY <1>2, <2>1, <2>3, <2>4 DEF CoreInv, Switching
  <2>8. BootInv'
    BY <1>2, <1>5, <2>1, <2>3, <2>4 DEF BootInv, Switching, Stream
  <2>9. IsrInv' /\ CreateInv'
    BY <1>2, <1>3, <1>4, <2>3, <2>4 DEF IsrInv, CreateInv
  <2>10. pc'[IDLE] = "idle" /\ ~panic'
    BY <1>2, <1>5, <2>3, <2>4 DEF Stream, Defined
  <2> QED  BY <1>2, <2>4, <2>5, <2>6, <2>7, <2>8, <2>9, <2>10 DEF IInv
<1>9. CASE SwitchRestore(s) \/ ReturnFromException(s)
  <2> DEFINE at == IF s = BOOT THEN "dead" ELSE AfterSchedule(s)
  <2>1. pc[s] \in {"restore", "rfe"} /\ pc' = [pc EXCEPT ![s] = at]
    BY <1>9 DEF SwitchRestore, ReturnFromException, GiveCore, Goto
  <2>2. at \in Elsewhere /\ at \notin {"alloc", "reg"}
    BY DEF AfterSchedule, Elsewhere, Place
  <2> HIDE DEF at
  <2>3. pc'[s] = at /\ \A r \in Stream : r # s => pc'[r] = pc[r]
    BY <1>2, <2>1 DEF TypeOK
  <2>4. lock = NULL /\ preempt_cnt' = 0
    BY <1>2, <1>9, <2>1
       DEF SwitchRestore, ReturnFromException, LoadStatus, LockInv, Switching
  <2>a. pc[s] = "rfe" => started
    BY <1>2 DEF BootInv
  <2>5. tab.work # s /\ tab.work \in Tid /\ cpu' = tab.work /\ started'
    BY <1>2, <1>9, <2>1, <2>a
       DEF SwitchRestore, ReturnFromException, LoadStatus, GiveCore, CoreInv,
           Switching, TypeOK, Table
  <2>6. /\ UNCHANGED <<tab, lock, newtid, armed, in_isr, todo, sched_flag,
                       foreign, panic, missing>>
        /\ Defined'
    BY <1>2, <1>9 DEF SwitchRestore, ReturnFromException, Defined
  <2>7. /\ psr' \in [Tid -> BOOLEAN] /\ spsr' \in BOOLEAN
        /\ irq_on' \in BOOLEAN /\ by_irq' \subseteq Tid
    <3>1. CASE SwitchRestore(s) /\ started
      BY <1>2, <2>5, <3>1 DEF SwitchRestore, LoadStatus, TypeOK
    <3>2. CASE SwitchRestore(s) /\ ~started
      BY <1>2, <3>2 DEF SwitchRestore, LoadStatus, TypeOK
    <3>3. CASE ReturnFromException(s)
      BY <1>2, <2>5, <3>3 DEF ReturnFromException, TypeOK
    <3> QED  BY <1>9, <3>1, <3>2, <3>3
  <2>8. TypeOK'
    BY <1>2, <2>1, <2>2, <2>4, <2>5, <2>6, <2>7 DEF TypeOK, Stream, Elsewhere
  <2>9. \A r \in Stream : ~Switching(r)'
    BY <1>2, <2>2, <2>3 DEF CoreInv, Switching, Elsewhere
  <2>10. LockInv'
    BY <2>4, <2>5, <2>6, <2>9 DEF LockInv, Switching, Stream
  <2>11. CoreInv'
    BY <2>5, <2>6, <2>9 DEF CoreInv, Stream
  <2>12. BootInv'
    <3>1. tab.status[IDLE] # "NONE"
      BY <1>2, <2>1, <2>a DEF BootInv
    <3> QED  BY <1>5, <2>5, <2>6, <3>1 DEF BootInv
  <2>13. IsrInv' /\ CreateInv'
    BY <1>2, <1>3, <1>4, <2>2, <2>3, <2>6 DEF IsrInv, CreateInv
  <2>14. pc'[IDLE] = "idle" /\ ~panic'
    BY <1>2, <1>5, <2>3, <2>6 DEF Stream, Defined
  <2> QED  BY <1>2, <2>6, <2>8, <2>10, <2>11, <2>12, <2>13, <2>14 DEF IInv
<1>10. CASE SwitchToIrq(s)
  <2>1. /\ pc[s] = "restore" /\ pc' = [pc EXCEPT ![s] = "rfe"]
        /\ tab.work \in by_irq
    BY <1>10 DEF SwitchToIrq, Goto
  <2>2. lock = NULL /\ preempt_cnt' = 0
    BY <1>2, <1>10, <2>1 DEF SwitchToIrq, LoadStatus, LockInv, Switching
  <2>3. pc'[s] = "rfe" /\ \A r \in Stream : r # s => pc'[r] = pc[r]
    BY <1>2, <2>1 DEF TypeOK
  <2>4. started /\ started' /\ tab.work \in Tid
    BY <1>2, <1>10, <2>1 DEF SwitchToIrq, LoadStatus, BootInv, TypeOK
  <2>5. /\ UNCHANGED <<tab, lock, cpu, irq_on, newtid, armed, in_isr, todo,
                       sched_flag, foreign, panic, missing>>
        /\ Defined'
    BY <1>2, <1>10 DEF SwitchToIrq, Defined
  <2>6. /\ psr' \in [Tid -> BOOLEAN] /\ spsr' \in BOOLEAN
        /\ by_irq' \subseteq Tid
    BY <1>2, <1>10, <2>4 DEF SwitchToIrq, LoadStatus, TypeOK
  <2>7. TypeOK'
    <3>1. started' \in BOOLEAN
      BY <1>10 DEF SwitchToIrq, LoadStatus
    <3> QED  BY <1>2, <2>1, <2>2, <2>5, <2>6, <3>1 DEF TypeOK, Place
  <2>8. LockInv'
    BY <1>2, <2>2, <2>3, <2>5 DEF LockInv
  <2>9. CoreInv'
    BY <1>2, <2>1, <2>3, <2>5 DEF CoreInv, Switching
  <2>10. BootInv'
    BY <1>2, <1>5, <2>4, <2>5 DEF BootInv
  <2>11. IsrInv' /\ CreateInv'
    BY <1>2, <1>3, <1>4, <2>3, <2>5 DEF IsrInv, CreateInv
  <2>12. pc'[IDLE] = "idle" /\ ~panic'
    BY <1>2, <1>5, <2>3, <2>5 DEF Stream, Defined
  <2> QED  BY <1>2, <2>5, <2>7, <2>8, <2>9, <2>10, <2>11, <2>12 DEF IInv
<1> QED  BY <1>6, <1>7, <1>8, <1>9, <1>10

\* The steps of the systick handler that leave the core where it is.
LEMMA HandlerSteps ==
  ASSUME IInv,
         \/ \E D \in SUBSET (Tid \cup {PREEMPT}) : IrqEnter(D)
         \/ \E t \in Tid : SleepTimeout(t)
         \/ KthreadTimeout \/ IrqReturn
  PROVE  IInv'
<1>1. /\ UNCHANGED <<lock, preempt_cnt, irq_on, spsr, psr, cpu, pc, newtid,
                     armed, started, foreign, panic, by_irq, missing>>
      /\ Defined /\ Defined' /\ LockInv /\ CoreInv
  BY DEF IrqEnter, SleepTimeout, KthreadTimeout, IrqReturn, IInv, IsrInv,
         Defined
<1>2. TypeOK /\ Sane(tab) /\ BootInv /\ IsrInv /\ CreateInv /\ started
  BY DEF IrqEnter, SleepTimeout, KthreadTimeout, IrqReturn, IInv, IsrInv,
         BootInv
<1>3. SUFFICES ASSUME Sane(tab'), tab'.work = tab.work, SameThreads(tab, tab'),
                      todo' \subseteq armed, in_isr' \in BOOLEAN,
                      sched_flag' \in BOOLEAN,
                      sched_flag' => in_isr' /\ tab'.ready # <<>>,
                      ~in_isr' => todo' = {}
               PROVE  IInv'
  <2>1. CASE \E D \in SUBSET (Tid \cup {PREEMPT}) : IrqEnter(D)
    BY <1>1, <1>2, <1>3, <2>1 DEF IrqEnter, SameThreads, IsrInv, TypeOK
  <2>2. CASE \E t \in Tid : SleepTimeout(t)
    <3>1. PICK t \in Tid : SleepTimeout(t)
      BY <2>2
    <3>2. /\ in_isr /\ todo' \subseteq armed
          /\ UNCHANGED <<in_isr, sched_flag>>
      BY <1>2, <3>1 DEF SleepTimeout, TypeOK
    <3>3. /\ Sane(tab') /\ SameThreads(tab, tab') /\ tab'.work = tab.work
          /\ tab.ready # <<>> => tab'.ready # <<>>
      <4>1. CASE lock = NULL /\ tab.status[t] = "SUSPEND"
        <5>1. tab' = ThreadSwitch(SetTo(tab, t, "READY"), t)
          BY <3>1, <4>1 DEF SleepTimeout
        <5> QED  BY <1>2, <4>1, <5>1, WakeupSane
      <4>2. CASE ~(lock = NULL /\ tab.status[t] = "SUSPEND")
        <5>1. tab' = tab
          BY <3>1, <4>2 DEF SleepTimeout
        <5> QED  BY <1>2, <5>1 DEF SameThreads
      <4> QED  BY <4>1, <4>2
    <3> QED  BY <1>2, <1>3, <3>2, <3>3 DEF IsrInv, TypeOK
  <2>3. CASE KthreadTimeout
    BY <1>2, <1>3, <2>3 DEF KthreadTimeout, SameThreads, IsrInv, TypeOK
  <2>4. CASE IrqReturn
    BY <1>2, <1>3, <2>4 DEF IrqReturn, SameThreads, IsrInv, TypeOK
  <2> QED  BY <2>1, <2>2, <2>3, <2>4
<1>4. TypeOK'
  BY <1>1, <1>2, <1>3 DEF TypeOK, Sane
<1>5. LockInv' /\ CoreInv'
  BY <1>1, <1>2, <1>3 DEF LockInv, CoreInv, Switching
<1>6. BootInv'
  BY <1>1, <1>2, <1>3, SchedAssumption DEF BootInv, SameThreads, Switching
<1>7. IsrInv'
  BY <1>1, <1>2, <1>3 DEF IsrInv
<1>8. CreateInv'
  BY <1>1, <1>2, <1>3, SchedAssumption DEF CreateInv, SameThreads
<1> QED  BY <1>1, <1>3, <1>4, <1>5, <1>6, <1>7, <1>8 DEF IInv

\* Preemption on the return from the interrupt.
LEMMA PreemptStep ==
  ASSUME IInv, IrqPreempt
  PROVE  IInv'
<1>1. /\ in_isr /\ todo = {} /\ preempt_cnt = 0
      /\ Defined /\ LockInv /\ CoreInv /\ tab.ready # <<>>
      /\ started /\ tab.work # NULL /\ tab.work \in Tid
      /\ TypeOK /\ Sane(tab) /\ BootInv /\ IsrInv /\ CreateInv
  BY DEF IrqPreempt, IInv, IsrInv, BootInv, TypeOK, Table
<1>2. /\ ~NullContext(tab) /\ Sane(tab') /\ SameThreads(tab, tab')
      /\ tab'.work \in Tid /\ tab'.work # tab.work
  BY <1>1, ScheduleResult DEF IrqPreempt
<1>3. /\ lock = NULL /\ pc[cpu] # "restore"
      /\ IDLE \in Tid /\ BOOT \notin Tid /\ Tid \subseteq Stream
  BY <1>1, SchedAssumption DEF LockInv, Stream
<1>4. /\ UNCHANGED <<lock, preempt_cnt, pc, newtid, armed, todo, started,
                     missing>>
      /\ cpu' = tab'.work /\ in_isr' = FALSE /\ sched_flag' = FALSE
      /\ panic' = FALSE
      /\ foreign' = IF cpu = tab.work THEN foreign ELSE foreign \cup {tab.work}
  <2>1. panic' = FALSE
    BY <1>1, <1>2 DEF IrqPreempt, TypeOK, NullContext
  <2> QED  BY <1>1, <2>1 DEF IrqPreempt
<1>5. /\ psr' \in [Tid -> BOOLEAN] /\ spsr' \in BOOLEAN /\ irq_on' \in BOOLEAN
      /\ by_irq' \subseteq Tid
  <2>1. psr' \in [Tid -> BOOLEAN] /\ by_irq' \subseteq Tid
    BY <1>1 DEF IrqPreempt, TypeOK
  <2> QED  BY <1>2, <2>1 DEF IrqPreempt
<1>6. TypeOK'
  BY <1>1, <1>2, <1>3, <1>4, <1>5 DEF TypeOK, Sane
<1>7. ASSUME Defined' PROVE LockInv' /\ CoreInv'
  <2>1. cpu = tab.work
    BY <1>4, <1>7 DEF Defined
  <2>2. \A r \in Stream : ~Switching(r)
    BY <1>1, <2>1 DEF CoreInv
  <2>3. \A r \in Stream : ~Switching(r)'
    BY <1>4, <2>2 DEF Switching
  <2>4. cpu' \in Stream /\ pc'[cpu'] # "restore"
    BY <1>2, <1>3, <1>4, <2>3 DEF Switching
  <2> QED  BY <1>1, <1>3, <1>4, <2>3, <2>4 DEF LockInv, CoreInv
<1>8. BootInv'
  BY <1>1, <1>2, <1>3, <1>4, SchedAssumption DEF BootInv, SameThreads
<1>9. IsrInv'
  BY <1>1, <1>4 DEF IsrInv
<1>10. CreateInv'
  BY <1>1, <1>2, <1>4, SchedAssumption DEF CreateInv, SameThreads
<1>11. pc'[IDLE] = "idle"
  BY <1>4 DEF IInv
<1> QED  BY <1>2, <1>3, <1>4, <1>6, <1>7, <1>8, <1>9, <1>10, <1>11 DEF IInv

-----------------------------------------------------------------------------
(* The theorems *)

\* The initial state of the kernel satisfies the inductive invariant.
LEMMA InitInv == Init => IInv
<1> SUFFICES ASSUME Init PROVE IInv
  OBVIOUS
<1>1. tab \in Table /\ tab.ready = <<>> /\ tab.suspend = <<>> /\ tab.work = NULL
      /\ \A t \in Tid : tab.status[t] = "NONE" /\ tab.to_status[t] = "NONE"
  BY DEF Init, Table, Status
<1>2. ListsMatch(tab)
  BY <1>1, SchedAssumption DEF ListsMatch, Distinct, InList
<1>3. Sane(tab)
  BY <1>1, <1>2, SchedAssumption DEF Sane
<1>4. TypeOK
  BY <1>1 DEF Init, TypeOK, Stream, Place
<1>5. pc[IDLE] = "idle" /\ ~panic /\ Defined /\ IDLE \in Stream /\ IDLE # BOOT
  BY SchedAssumption DEF Init, Defined, Stream
<1>6. \A s \in Stream : pc[s] \in {"idle", "spawn"}
  BY DEF Init
<1>7. LockInv /\ CoreInv
  BY <1>6, SchedAssumption DEF Init, LockInv, CoreInv, Switching, Stream
<1>8. BootInv
  BY <1>1, SchedAssumption DEF Init, BootInv, Switching, Stream
<1>9. IsrInv /\ CreateInv
  BY <1>6 DEF Init, IsrInv, CreateInv
<1> QED  BY <1>3, <1>4, <1>5, <1>7, <1>8, <1>9 DEF IInv

\* Every step of the kernel preserves the inductive invariant.
LEMMA StepInv == IInv /\ [Next]_vars => IInv'
<1> SUFFICES ASSUME IInv, [Next]_vars PROVE IInv'
  OBVIOUS
<1>1. CASE UNCHANGED vars
  BY <1>1 DEF vars, IInv, TypeOK, LockInv, CoreInv, BootInv, IsrInv,
              CreateInv, Switching, Defined
<1>2. ASSUME NEW s \in Stream, ThreadStep(s) \/ CallService(s) PROVE IInv'
  <2>1. CASE \/ Acquire(s) \/ GetUnusedTid(s) \/ AllocThread(s) \/ Spawned(s)
             \/ StatsLoop(s) \/ CallScheduler(s) \/ CallService(s)
             \/ SetupTimer(s) \/ ModTimer(s) \/ DelTimer(s) \/ AllocFails(s)
    BY <2>1, QuietSteps
  <2>2. CASE RegisterNewThread(s) \/ SuspendOther(s) \/ SelfSuspend(s)
    BY <2>2, TableSteps
  <2>3. CASE \/ Schedule(s) \/ SwitchTo(s) \/ SwitchRestore(s)
             \/ SwitchToIrq(s) \/ ReturnFromException(s)
    BY <2>3, SwitchSteps
  <2> QED  BY <1>2, <2>1, <2>2, <2>3 DEF ThreadStep
<1>3. CASE \/ \E D \in SUBSET (Tid \cup {PREEMPT}) : IrqEnter(D)
           \/ \E t \in Tid : SleepTimeout(t)
           \/ KthreadTimeout \/ IrqReturn
  BY <1>3, HandlerSteps
<1>4. CASE IrqPreempt
  BY <1>4, PreemptStep
<1> QED  BY <1>1, <1>2, <1>3, <1>4 DEF Next, Interrupt, Undefined, StartFailed

\* The inductive invariant holds in every reachable state.
THEOREM Invariance == Spec => []IInv
  BY InitInv, StepInv, PTL DEF Spec

\* Type correctness, the preemption count included, for every set of threads.
THEOREM TypeCorrect == Spec => []TypeOK
<1>1. IInv => TypeOK
  BY DEF IInv
<1> QED  BY <1>1, Invariance, PTL

\* schedule_thread_switch and its callers keep the lists, the running thread
\* and the status words in agreement, whatever calls and ticks interleave.
THEOREM TableConsistent == Spec => []ListsMatchStatus
<1>1. IInv => ListsMatchStatus
  BY DEF IInv, Sane, ListsMatchStatus
<1> QED  BY <1>1, Invariance, PTL

\* Once the scheduler has started, a thread runs, and the idle thread is
\* ready whenever another one does.
THEOREM ThreadToRun == Spec => []AlwaysAThread
<1>1. ASSUME IInv PROVE AlwaysAThread
  <2>1. SUFFICES ASSUME started, tab.work # IDLE
                 PROVE  tab.work # NULL /\ InList(tab.ready, IDLE)
    BY <1>1 DEF AlwaysAThread, IInv, BootInv
  <2>2. tab.work # NULL /\ tab.status[IDLE] # "NONE"
    BY <1>1, <2>1 DEF IInv, BootInv
  <2>3. tab.status[IDLE] = "READY"
    BY <1>1, <2>1, <2>2, SchedAssumption
       DEF IInv, Sane, ListsMatch, Table, Status
  <2> QED  BY <1>1, <2>2, <2>3, SchedAssumption DEF IInv, Sane, ListsMatch
<1> QED  BY <1>1, Invariance, PTL

\* The interrupt return path never uses a null context.
THEOREM ContextNotNull == Spec => []NoNullContext
<1>1. IInv => NoNullContext
  BY DEF IInv, NoNullContext
<1> QED  BY <1>1, Invariance, PTL

\* The scheduler lock is never held by code that is off the core.
THEOREM HolderRuns == Spec => []LockHolderOnCpu
<1>1. IInv => LockHolderOnCpu
  BY DEF IInv, LockInv, LockHolderOnCpu
<1> QED  BY <1>1, Invariance, PTL

\* No target status is left behind for a thread that is not running.
THEOREM NoTargetLeft == Spec => []NoStaleTarget
<1>1. IInv => NoStaleTarget
  BY DEF IInv, Sane, NoStaleTarget
<1> QED  BY <1>1, Invariance, PTL

-----------------------------------------------------------------------------
(* The order of the ready list *)

Sorted(l) ==
  \A i, j \in 1..Len(l) : i < j => PrioOf(l[i]) <= PrioOf(l[j])

\* Threads that stay on the list keep their order, and a thread that comes
\* does not overtake one whose priority is not lower.
Fifo(l, r) ==
  \A t, u \in Tid :
    /\ InList(l, t) /\ InList(r, t) /\ InList(r, u)
    /\ Before(l, t, u) \/ (~InList(l, u) /\ PrioOf(t) <= PrioOf(u))
    => Before(r, t, u)

\* __schedule_add_status_list, entry by entry: t goes behind the i-th thread,
\* and i is the last one whose priority is not lower.
LEMMA AddEntries ==
  ASSUME NEW l \in Seq(Tid), NEW t \in Tid, ~InList(l, t)
  PROVE  \E i \in 0..Len(l) :
           /\ Len(AddStatusList(l, t)) = Len(l) + 1
           /\ AddStatusList(l, t)[i + 1] = t
           /\ \A k \in 1..i : AddStatusList(l, t)[k] = l[k]
           /\ \A k \in (i + 1)..Len(l) : AddStatusList(l, t)[k + 1] = l[k]
           /\ i > 0 => PrioOf(l[i]) <= PrioOf(t)
           /\ \A k \in (i + 1)..Len(l) : PrioOf(l[k]) > PrioOf(t)
<1> DEFINE i == LastNotLower(l, t)
           r == InsertAfter(l, i, t)
<1>1. /\ i \in 0..Len(l)
      /\ i > 0 => PrioOf(l[i]) <= PrioOf(t)
      /\ \A k \in (i + 1)..Len(l) : PrioOf(l[k]) > PrioOf(t)
  BY LastNotLowerPlace
<1>2. AddStatusList(l, t) = r
  BY DEF AddStatusList
<1> HIDE DEF i
<1>3. r \in Seq(Tid) /\ Len(r) = Len(l) + 1
  BY <1>1 DEF InsertAfter
<1>4. \A k \in 1..(Len(l) + 1) :
        r[k] = IF k <= i THEN l[k] ELSE IF k = i + 1 THEN t ELSE l[k - 1]
  BY <1>1 DEF InsertAfter
<1> HIDE DEF r
<1>5. r[i + 1] = t /\ \A k \in 1..i : r[k] = l[k]
  BY <1>1, <1>4
<1>6. \A k \in (i + 1)..Len(l) : r[k + 1] = l[k]
  <2> TAKE k \in (i + 1)..Len(l)
  <2>1. k + 1 \in 1..(Len(l) + 1) /\ k + 1 > i + 1 /\ (k + 1) - 1 = k
    BY <1>1
  <2> QED  BY <2>1, <1>4, <1>1
<1> QED  BY <1>1, <1>2, <1>3, <1>5, <1>6

\* list_head_del_safe, entry by entry.
LEMMA DelEntries ==
  ASSUME NEW l \in Seq(Tid), NEW t \in Tid, InList(l, t)
  PROVE  \E p \in 1..Len(l) :
           /\ l[p] = t
           /\ Len(DelStatusList(l, t)) = Len(l) - 1
           /\ \A k \in 1..(Len(l) - 1) :
                DelStatusList(l, t)[k] = IF k < p THEN l[k] ELSE l[k + 1]
<1> DEFINE p == CHOOSE i \in 1..Len(l) : l[i] = t
           r == [k \in 1..(Len(l) - 1) |-> IF k < p THEN l[k] ELSE l[k + 1]]
<1>1. p \in 1..Len(l) /\ l[p] = t
  BY DEF InList
<1>2. DelStatusList(l, t) = r
  BY DEF DelStatusList
<1> HIDE DEF p
<1>3. r \in Seq(Tid) /\ Len(r) = Len(l) - 1
  BY <1>1
<1>4. \A k \in 1..(Len(l) - 1) : r[k] = IF k < p THEN l[k] ELSE l[k + 1]
  OBVIOUS
<1> HIDE DEF r
<1> QED  BY <1>1, <1>2, <1>3, <1>4

\* Both operations keep a sorted list sorted.
LEMMA AddSorted ==
  ASSUME NEW l \in Seq(Tid), NEW t \in Tid, Sorted(l)
  PROVE  Sorted(AddStatusList(l, t))
<1>1. CASE InList(l, t)
  BY <1>1 DEF AddStatusList
<1>2. CASE ~InList(l, t)
  <2> DEFINE r == AddStatusList(l, t)
  <2>1. PICK i \in 0..Len(l) :
          /\ Len(r) = Len(l) + 1
          /\ r[i + 1] = t
          /\ \A k \in 1..i : r[k] = l[k]
          /\ \A k \in (i + 1)..Len(l) : r[k + 1] = l[k]
          /\ i > 0 => PrioOf(l[i]) <= PrioOf(t)
          /\ \A k \in (i + 1)..Len(l) : PrioOf(l[k]) > PrioOf(t)
    BY <1>2, AddEntries
  <2> HIDE DEF r
  <2>2. \A k \in 1..Len(l) : l[k] \in Tid /\ PrioOf(l[k]) \in Nat
    BY PrioType
  <2>3. PrioOf(t) \in Nat /\ Len(l) \in Nat
    BY PrioType
  <2>4. \A k \in 1..i : PrioOf(l[k]) <= PrioOf(t)
    <3> SUFFICES ASSUME NEW k \in 1..i PROVE PrioOf(l[k]) <= PrioOf(t)
      OBVIOUS
    <3>1. k \in 1..Len(l) /\ i \in 1..Len(l) /\ (k < i \/ k = i)
      BY <2>1, <2>3
    <3>2. PrioOf(l[k]) <= PrioOf(l[i])
      BY <3>1, <2>2 DEF Sorted
    <3> QED  BY <3>1, <3>2, <2>1, <2>2, <2>3
  <2> SUFFICES ASSUME NEW a \in 1..Len(r), NEW b \in 1..Len(r), a < b
               PROVE  PrioOf(r[a]) <= PrioOf(r[b])
    BY DEF Sorted, r
  <2>5. CASE b <= i
    <3>1. a \in 1..i /\ b \in 1..i /\ a \in 1..Len(l) /\ b \in 1..Len(l)
      BY <2>5, <2>1, <2>3
    <3> QED  BY <3>1, <2>1 DEF Sorted
  <2>6. CASE b = i + 1
    <3>1. a \in 1..i
      BY <2>6, <2>1, <2>3
    <3> QED  BY <3>1, <2>1, <2>4, <2>6
  <2>7. CASE a <= i /\ b > i + 1
    <3>1. a \in 1..i /\ b - 1 \in (i + 1)..Len(l) /\ a \in 1..Len(l)
      BY <2>7, <2>1, <2>3
    <3>2. b - 1 \in 1..Len(l) /\ a < b - 1 /\ (b - 1) + 1 = b
      BY <3>1, <2>1, <2>3
    <3>3. r[a] = l[a] /\ r[b] = l[b - 1]
      BY <3>1, <3>2, <2>1
    <3> QED  BY <3>1, <3>2, <3>3 DEF Sorted
  <2>8. CASE a = i + 1
    <3>1. b - 1 \in (i + 1)..Len(l) /\ (b - 1) + 1 = b /\ b - 1 \in 1..Len(l)
      BY <2>8, <2>1, <2>3
    <3>2. r[b] = l[b - 1] /\ PrioOf(l[b - 1]) > PrioOf(t)
      BY <3>1, <2>1
    <3> QED  BY <3>1, <3>2, <2>8, <2>1, <2>2, <2>3
  <2>9. CASE a > i + 1
    <3>0. Len(r) = Len(l) + 1 /\ i \in Nat
      BY <2>1, <2>3
    <3>1. /\ a - 1 \in (i + 1)..Len(l) /\ b - 1 \in (i + 1)..Len(l)
          /\ (a - 1) + 1 = a /\ (b - 1) + 1 = b /\ a - 1 < b - 1
          /\ a - 1 \in 1..Len(l) /\ b - 1 \in 1..Len(l)
      BY <2>9, <3>0, <2>3
    <3>2. r[a] = l[a - 1] /\ r[b] = l[b - 1]
      BY <3>1, <2>1
    <3> QED  BY <3>1, <3>2 DEF Sorted
  <2> QED  BY <2>5, <2>6, <2>7, <2>8, <2>9, <2>1, <2>3
<1> QED  BY <1>1, <1>2

\* What schedule_thread_del_status_list leaves of a sorted list is sorted.
LEMMA DelSorted ==
  ASSUME NEW l \in Seq(Tid), NEW t \in Tid, Sorted(l)
  PROVE  Sorted(DelStatusList(l, t))
<1>1. CASE ~InList(l, t)
  BY <1>1 DEF DelStatusList
<1>2. CASE InList(l, t)
  <2> DEFINE r == DelStatusList(l, t)
  <2>1. PICK p \in 1..Len(l) :
          /\ l[p] = t
          /\ Len(r) = Len(l) - 1
          /\ \A k \in 1..(Len(l) - 1) : r[k] = IF k < p THEN l[k] ELSE l[k + 1]
    BY <1>2, DelEntries
  <2> HIDE DEF r
  <2> SUFFICES ASSUME NEW a \in 1..Len(r), NEW b \in 1..Len(r), a < b
               PROVE  PrioOf(r[a]) <= PrioOf(r[b])
    BY DEF Sorted, r
  <2> DEFINE x == IF a < p THEN a ELSE a + 1
             y == IF b < p THEN b ELSE b + 1
  <2>2. x \in 1..Len(l) /\ y \in 1..Len(l) /\ x < y
    BY <2>1
  <2>3. r[a] = l[x] /\ r[b] = l[y]
    BY <2>1
  <2> HIDE DEF x, y
  <2> QED  BY <2>2, <2>3 DEF Sorted
<1> QED  BY <1>1, <1>2

\* Neither operation changes the order of two threads that stay.
LEMMA AddBefore ==
  ASSUME NEW l \in Seq(Tid), NEW t \in Tid, NEW x, NEW y, Before(l, x, y)
  PROVE  Before(AddStatusList(l, t), x, y)
<1>1. CASE InList(l, t)
  BY <1>1 DEF AddStatusList
<1>2. CASE ~InList(l, t)
  <2> DEFINE r == AddStatusList(l, t)
  <2>1. PICK i \in 0..Len(l) :
          /\ Len(r) = Len(l) + 1
          /\ \A k \in 1..i : r[k] = l[k]
          /\ \A k \in (i + 1)..Len(l) : r[k + 1] = l[k]
    BY <1>2, AddEntries
  <2>2. PICK a, b \in 1..Len(l) : a < b /\ l[a] = x /\ l[b] = y
    BY DEF Before
  <2> HIDE DEF r
  <2> DEFINE c == IF a <= i THEN a ELSE a + 1
             d == IF b <= i THEN b ELSE b + 1
  <2>3. c \in 1..Len(r) /\ d \in 1..Len(r) /\ c < d
    BY <2>1, <2>2
  <2>4. r[c] = x /\ r[d] = y
    BY <2>1, <2>2
  <2> HIDE DEF c, d
  <2> QED  BY <2>3, <2>4 DEF Before, r
<1> QED  BY <1>1, <1>2

\* A deletion keeps the order of the threads that stay in the list.
LEMMA DelBefore ==
  ASSUME NEW l \in Seq(Tid), NEW t \in Tid, NEW x, NEW y, Before(l, x, y),
         x # t, y # t
  PROVE  Before(DelStatusList(l, t), x, y)
<1>1. CASE ~InList(l, t)
  BY <1>1 DEF DelStatusList
<1>2. CASE InList(l, t)
  <2> DEFINE r == DelStatusList(l, t)
  <2>1. PICK p \in 1..Len(l) :
          /\ l[p] = t
          /\ Len(r) = Len(l) - 1
          /\ \A k \in 1..(Len(l) - 1) : r[k] = IF k < p THEN l[k] ELSE l[k + 1]
    BY <1>2, DelEntries
  <2>2. PICK a, b \in 1..Len(l) : a < b /\ l[a] = x /\ l[b] = y
    BY DEF Before
  <2> HIDE DEF r
  <2> DEFINE c == IF a < p THEN a ELSE a - 1
             d == IF b < p THEN b ELSE b - 1
  <2>3. a # p /\ b # p
    BY <2>1, <2>2
  <2>4. c \in 1..(Len(l) - 1) /\ d \in 1..(Len(l) - 1) /\ c < d
    BY <2>1, <2>2, <2>3
  <2>5. r[c] = x
    <3>1. CASE a < p
      BY <2>1, <2>2, <2>4, <3>1
    <3>2. CASE a > p
      <4>1. c = a - 1 /\ ~(c < p) /\ c + 1 = a
        BY <2>1, <2>2, <3>2
      <4> QED  BY <2>1, <2>2, <2>4, <4>1
    <3> QED  BY <2>1, <2>2, <2>3, <3>1, <3>2
  <2>6. r[d] = y
    <3>1. CASE b < p
      BY <2>1, <2>2, <2>4, <3>1
    <3>2. CASE b > p
      <4>1. d = b - 1 /\ ~(d < p) /\ d + 1 = b
        BY <2>1, <2>2, <3>2
      <4> QED  BY <2>1, <2>2, <2>4, <4>1
    <3> QED  BY <2>1, <2>2, <2>3, <3>1, <3>2
  <2> HIDE DEF c, d
  <2> QED  BY <2>1, <2>4, <2>5, <2>6 DEF Before, r
<1> QED  BY <1>1, <1>2

\* A thread goes behind those whose priority is not lower.
LEMMA AddBehind ==
  ASSUME NEW l \in Seq(Tid), NEW t \in Tid, ~InList(l, t),
         NEW x \in Tid, InList(l, x), PrioOf(x) <= PrioOf(t)
  PROVE  Before(AddStatusList(l, t), x, t)
<1> DEFINE r == AddStatusList(l, t)
<1>1. PICK i \in 0..Len(l) :
        /\ Len(r) = Len(l) + 1
        /\ r[i + 1] = t
        /\ \A k \in 1..i : r[k] = l[k]
        /\ \A k \in (i + 1)..Len(l) : PrioOf(l[k]) > PrioOf(t)
  BY AddEntries
<1>2. PICK k \in 1..Len(l) : l[k] = x
  BY DEF InList
<1> HIDE DEF r
<1>3. k <= i
  <2> SUFFICES ASSUME ~(k <= i) PROVE FALSE
    OBVIOUS
  <2>1. k \in (i + 1)..Len(l)
    BY <1>1, <1>2
  <2>2. PrioOf(x) > PrioOf(t) /\ PrioOf(x) \in Nat /\ PrioOf(t) \in Nat
    BY <2>1, <1>1, <1>2, PrioType
  <2> QED  BY <2>2
<1>4. k \in 1..Len(r) /\ i + 1 \in 1..Len(r) /\ k < i + 1 /\ r[k] = x
  BY <1>1, <1>2, <1>3
<1> QED  BY <1>1, <1>4 DEF Before, r

\* So every change of the ready list keeps it sorted and first in, first out.
LEMMA ChangeOrdered ==
  ASSUME NEW l \in Seq(Tid), Distinct(l), NEW r, ReadyChange(l, r)
  PROVE  (Sorted(l) => Sorted(r)) /\ Fifo(l, r)
<1>1. CASE r = l
  BY <1>1 DEF Fifo, Before, InList
<1>2. ASSUME NEW t \in Tid, ~InList(l, t), r = AddStatusList(l, t)
      PROVE  (Sorted(l) => Sorted(r)) /\ Fifo(l, r)
  <2>1. Sorted(l) => Sorted(r)
    BY <1>2, AddSorted
  <2>2. \A u \in Tid : InList(r, u) <=> InList(l, u) \/ u = t
    BY <1>2, AddProperties
  <2>3. SUFFICES ASSUME NEW x \in Tid, NEW u \in Tid, InList(l, x), InList(r, u),
                        Before(l, x, u)
                          \/ (~InList(l, u) /\ PrioOf(x) <= PrioOf(u))
                 PROVE  Before(r, x, u)
    BY <2>1 DEF Fifo
  <2>4. CASE Before(l, x, u)
    BY <2>4, <1>2, AddBefore
  <2>5. CASE ~InList(l, u) /\ PrioOf(x) <= PrioOf(u)
    <3>1. u = t
      BY <2>2, <2>3, <2>5
    <3> QED  BY <3>1, <2>3, <2>5, <1>2, AddBehind
  <2> QED  BY <2>3, <2>4, <2>5
<1>3. ASSUME NEW t \in Tid, r = DelStatusList(l, t)
      PROVE  (Sorted(l) => Sorted(r)) /\ Fifo(l, r)
  <2>1. Sorted(l) => Sorted(r)
    BY <1>3, DelSorted
  <2>2. \A u \in Tid : InList(r, u) <=> InList(l, u) /\ u # t
    BY <1>3, DelProperties
  <2>3. SUFFICES ASSUME NEW x \in Tid, NEW u \in Tid, InList(r, x), InList(r, u),
                        Before(l, x, u)
                 PROVE  Before(r, x, u)
    BY <2>1, <2>2 DEF Fifo
  <2> QED  BY <2>2, <2>3, <1>3, DelBefore
<1>4. ASSUME NEW n \in Tid, NEW p \in Tid, n # p, ~InList(l, p),
             r = AddStatusList(DelStatusList(l, n), p)
      PROVE  (Sorted(l) => Sorted(r)) /\ Fifo(l, r)
  <2> DEFINE m == DelStatusList(l, n)
  <2>1. /\ m \in Seq(Tid) /\ Distinct(m)
        /\ \A u \in Tid : InList(m, u) <=> InList(l, u) /\ u # n
    BY DelProperties
  <2>2. r = AddStatusList(m, p)
    BY <1>4
  <2>3. Sorted(l) => Sorted(m)
    BY DelSorted
  <2>a. \A x, u \in Tid : Before(l, x, u) /\ x # n /\ u # n => Before(m, x, u)
    BY DelBefore
  <2> HIDE DEF m
  <2>4. Sorted(l) => Sorted(r)
    BY <1>4, <2>1, <2>2, <2>3, AddSorted
  <2>5. \A u \in Tid : InList(r, u) <=> InList(m, u) \/ u = p
    <3> DEFINE q == AddStatusList(m, p)
    <3>1. \A u \in Tid : InList(q, u) <=> InList(m, u) \/ u = p
      BY <2>1, AddProperties
    <3> QED  BY <3>1, <2>2
  <2>6. SUFFICES ASSUME NEW x \in Tid, NEW u \in Tid, InList(l, x), InList(r, x),
                        InList(r, u),
                        Before(l, x, u)
                          \/ (~InList(l, u) /\ PrioOf(x) <= PrioOf(u))
                 PROVE  Before(r, x, u)
    BY <2>4 DEF Fifo
  <2>7. InList(m, x) /\ x # n /\ x # p
    BY <1>4, <2>1, <2>5, <2>6
  <2>8. CASE Before(l, x, u)
    <3>1. InList(l, u)
      BY <2>8 DEF Before, InList
    <3>2. u # p /\ InList(m, u) /\ u # n
      BY <1>4, <2>1, <2>5, <2>6, <3>1
    <3>3. Before(m, x, u)
      BY <2>7, <2>8, <3>2, <2>a
    <3> QED  BY <3>3, <1>4, <2>1, <2>2, AddBefore
  <2>9. CASE ~InList(l, u) /\ PrioOf(x) <= PrioOf(u)
    <3>1. u = p /\ ~InList(m, p)
      BY <1>4, <2>1, <2>5, <2>6, <2>9
    <3> QED  BY <3>1, <1>4, <2>1, <2>2, <2>7, <2>9, AddBehind
  <2> QED  BY <2>6, <2>8, <2>9
<1> QED  BY <1>1, <1>2, <1>3, <1>4 DEF ReadyChange
-----------------------------------------------------------------------------
(* What the order gives: the second inductive invariant, on top of IInv *)

\* A request for preemption is in favour of the first ready thread.
FlagInv == sched_flag => PrioOf(tab.ready[1]) <= PrioOf(tab.work)

\* The frame of the idle thread has interrupts on, and start_kernel, which
\* leaves them as they are, does not switch to the idle thread: it finds the
\* base thread ready.
IdleInv ==
  /\ psr[IDLE] = TRUE
  /\ cpu = IDLE => irq_on = TRUE
  /\ ~started =>
       /\ \A t \in Tid :
            tab.status[t] # "SUSPEND" /\ tab.to_status[t] # "SUSPEND"
       /\ pc[BOOT] = "sched" => tab.status[BASE] # "NONE"
       /\ Switching(BOOT) => tab.work # IDLE

\* The timer of a thread is on the list from before its request to be suspended
\* until after it runs again, and the request is served before it goes on.
SleepInv ==
  /\ \A s \in Stream : pc[s] = "susp" => s \in Suspenders
  /\ Suspenders = {} =>
       \A t \in Tid :
         /\ tab.status[t] = "SUSPEND" => t \in armed
         /\ tab.to_status[t] = "SUSPEND" => t \in armed /\ pc[t] = "sched"
         /\ pc[t] = "ss" => t \in armed

OInv == Sorted(tab.ready) /\ FlagInv /\ IdleInv /\ SleepInv

\* The thread that comes to the head of a sorted list is not below the one
\* that was there.
LEMMA AddHead ==
  ASSUME NEW l \in Seq(Tid), NEW t \in Tid, ~InList(l, t), l # <<>>
  PROVE  PrioOf(AddStatusList(l, t)[1]) <= PrioOf(l[1])
<1>1. PICK i \in 0..Len(l) :
        /\ AddStatusList(l, t)[i + 1] = t
        /\ \A k \in 1..i : AddStatusList(l, t)[k] = l[k]
        /\ \A k \in (i + 1)..Len(l) : PrioOf(l[k]) > PrioOf(t)
  BY AddEntries
<1>2. 1 \in 1..Len(l) /\ l[1] \in Tid
  OBVIOUS
<1>3. PrioOf(l[1]) \in Nat /\ PrioOf(t) \in Nat
  BY <1>2, PrioType
<1>4. CASE i = 0
  <2>1. AddStatusList(l, t)[1] = t
    BY <1>1, <1>4
  <2>2. 1 \in (i + 1)..Len(l)
    BY <1>2, <1>4
  <2>3. PrioOf(l[1]) > PrioOf(t)
    BY <2>2, <1>1
  <2> QED  BY <2>1, <2>3, <1>3
<1>5. CASE i > 0
  <2>1. 1 \in 1..i
    BY <1>1, <1>5
  <2>2. AddStatusList(l, t)[1] = l[1]
    BY <1>1, <2>1
  <2> QED  BY <2>2, <1>3
<1> QED  BY <1>1, <1>4, <1>5

\* The first thread of a sorted list is not below any other.
LEMMA HeadHighest ==
  ASSUME NEW l \in Seq(Tid), Sorted(l), NEW t \in Tid, InList(l, t)
  PROVE  PrioOf(l[1]) <= PrioOf(t)
<1>1. PICK k \in 1..Len(l) : l[k] = t
  BY DEF InList
<1>2. 1 \in 1..Len(l) /\ (1 < k \/ k = 1) /\ PrioOf(t) \in Nat
  BY <1>1, PrioType
<1> QED  BY <1>1, <1>2 DEF Sorted

\* What schedule_thread and the interrupt return path do to the table, the
\* case without a ready thread included.
LEMMA ScheduleChange ==
  ASSUME IInv
  PROVE  /\ NoNewSleeper(tab, ScheduleThread(tab))
         /\ ReadyChange(tab.ready, ScheduleThread(tab).ready)
         /\ tab.ready # <<>> =>
              /\ ScheduleThread(tab).work = tab.ready[1]
              /\ \A t \in Tid : ScheduleThread(tab).to_status[t] = "NONE"
<1>1. Sane(tab) /\ (tab.work = NULL => ~started)
  BY DEF IInv, BootInv
<1>2. CASE tab.ready = <<>>
  <2>1. ScheduleThread(tab) = tab
    BY <1>2 DEF ScheduleThread
  <2> QED  BY <1>2, <2>1 DEF NoNewSleeper, ReadyChange
<1>3. CASE tab.ready # <<>>
  BY <1>1, <1>3, ScheduleResult
<1> QED  BY <1>2, <1>3

\* What any step of the kernel can do to the ready list.
LEMMA StepReady ==
  ASSUME IInv, [Next]_vars
  PROVE  ReadyChange(tab.ready, tab'.ready)
<1>1. CASE tab' = tab
  BY <1>1 DEF ReadyChange
<1>2. ASSUME NEW s \in Stream, RegisterNewThread(s)
      PROVE  ReadyChange(tab.ready, tab'.ready)
  <2> DEFINE c == newtid[s]
  <2>1. /\ pc[s] = "reg"
        /\ tab' = Sync([tab EXCEPT !.ready = AddStatusList(@, c)], c, "READY")
    BY <1>2 DEF RegisterNewThread, Holds
  <2>2. Sane(tab) /\ c \in Tid /\ tab.status[c] = "NONE"
    BY <2>1, SchedAssumption DEF IInv, CreateInv
  <2> HIDE DEF c
  <2> QED  BY <2>1, <2>2, RegisterSane
<1>3. ASSUME NEW s \in Stream, SuspendOther(s)
      PROVE  ReadyChange(tab.ready, tab'.ready)
  <2>1. PICK u \in Tid \ {tab.work} :
          /\ tab.status[u] # "NONE"
          /\ tab' = ThreadSwitch(SetTo(tab, u, "SUSPEND"), u)
    BY <1>3 DEF SuspendOther
  <2>2. Sane(tab)
    BY DEF IInv
  <2> QED  BY <2>1, <2>2, SuspendSane
<1>4. ASSUME NEW s \in Stream, SelfSuspend(s)
      PROVE  ReadyChange(tab.ready, tab'.ready)
  <2>1. Runs(s) /\ pc[s] = "ss" /\ tab' = SetTo(tab, tab.work, "SUSPEND")
    BY <1>4 DEF SelfSuspend, Holds
  <2>2. tab.work \in Tid /\ tab \in Table
    BY <2>1, NotBoot DEF IInv, TypeOK
  <2>3. tab'.ready = tab.ready
    BY <2>1, <2>2, SetToFields
  <2> QED  BY <2>3 DEF ReadyChange
<1>5. ASSUME NEW t \in Tid, SleepTimeout(t), tab' # tab
      PROVE  ReadyChange(tab.ready, tab'.ready)
  <2>1. /\ tab.status[t] = "SUSPEND"
        /\ tab' = ThreadSwitch(SetTo(tab, t, "READY"), t)
    BY <1>5 DEF SleepTimeout
  <2>2. Sane(tab)
    BY DEF IInv
  <2>3. ~InList(tab.ready, t) /\ tab'.ready = AddStatusList(tab.ready, t)
    BY <2>1, <2>2, WakeupSane
  <2> QED  BY <2>3 DEF ReadyChange
<1>6. CASE tab' = ScheduleThread(tab)
  BY <1>6, ScheduleChange
<1> QED  BY <1>1, <1>2, <1>3, <1>4, <1>5, <1>6
         DEF Next, vars, ThreadStep, CallService, Interrupt, Undefined,
             StartFailed, Acquire, GetUnusedTid, AllocThread, AllocFails,
             Spawned, StatsLoop, CallScheduler, SetupTimer, ModTimer,
             DelTimer, Schedule, SwitchTo, SwitchRestore, SwitchToIrq,
             ReturnFromException, IrqEnter, KthreadTimeout, IrqReturn,
             IrqPreempt

\* The steps of the threads and their common guard.
LEMMA ThreadRuns ==
  ASSUME IInv, NEW s \in Stream, ThreadStep(s) \/ CallService(s)
  PROVE  Runs(s) /\ s # IDLE /\ pc[s] # "idle"
<1>1. Runs(s)
  BY DEF ThreadStep, CallService, Acquire, GetUnusedTid, AllocThread,
         AllocFails, RegisterNewThread, Spawned, StatsLoop, CallScheduler,
         SuspendOther, SetupTimer, ModTimer, SelfSuspend, DelTimer, Schedule,
         SwitchTo, SwitchRestore, SwitchToIrq, ReturnFromException, Holds
<1>2. pc[s] # "idle"
  BY DEF ThreadStep, CallService, Acquire, GetUnusedTid, AllocThread,
         AllocFails, RegisterNewThread, Spawned, StatsLoop, CallScheduler,
         SuspendOther, SetupTimer, ModTimer, SelfSuspend, DelTimer, Schedule,
         SwitchTo, SwitchRestore, SwitchToIrq, ReturnFromException, Holds,
         WantsLock
<1> QED  BY <1>1, <1>2 DEF IInv

\* The request for preemption outlives the other callbacks of the handler.
LEMMA FlagStep ==
  ASSUME IInv, OInv, [Next]_vars
  PROVE  FlagInv'
<1>1. CASE KthreadTimeout
  BY <1>1 DEF KthreadTimeout, FlagInv
<1>2. ASSUME NEW t \in Tid, SleepTimeout(t), sched_flag'
      PROVE  PrioOf(tab'.ready[1]) <= PrioOf(tab'.work)
  <2>1. sched_flag /\ tab.ready # <<>> /\ Sane(tab)
    BY <1>2 DEF SleepTimeout, IInv, IsrInv
  <2>2. PrioOf(tab.ready[1]) <= PrioOf(tab.work)
    BY <2>1 DEF OInv, FlagInv
  <2>3. CASE lock = NULL /\ tab.status[t] = "SUSPEND"
    <3>1. tab' = ThreadSwitch(SetTo(tab, t, "READY"), t)
      BY <1>2, <2>3 DEF SleepTimeout
    <3>2. /\ ~InList(tab.ready, t) /\ tab'.work = tab.work
          /\ tab'.ready = AddStatusList(tab.ready, t)
          /\ Sane(tab') /\ tab'.ready # <<>>
      BY <3>1, <2>1, <2>3, WakeupSane
    <3>3. tab.ready \in Seq(Tid)
      BY <2>1 DEF Sane, Table
    <3>4. PrioOf(tab'.ready[1]) <= PrioOf(tab.ready[1])
      BY <3>2, <3>3, <2>1, AddHead
    <3>5. /\ PrioOf(tab'.ready[1]) \in Nat /\ PrioOf(tab.ready[1]) \in Nat
          /\ PrioOf(tab.work) \in Nat
      <4>1. tab'.ready[1] \in Tid /\ tab.ready[1] \in Tid
        BY <2>1, <3>2, FirstReady
      <4>2. tab.work \in Tid
        BY <1>2 DEF SleepTimeout, IInv, IsrInv, BootInv, TypeOK, Table
      <4> QED  BY <4>1, <4>2, PrioType
    <3> QED  BY <2>2, <3>2, <3>4, <3>5
  <2>4. CASE ~(lock = NULL /\ tab.status[t] = "SUSPEND")
    <3>1. tab' = tab
      BY <1>2, <2>4 DEF SleepTimeout
    <3> QED  BY <2>2, <3>1
  <2> QED  BY <2>3, <2>4
<1>3. ASSUME NEW s \in Stream, ThreadStep(s) \/ CallService(s)
      PROVE  ~sched_flag'
  <2>1. ~in_isr
    BY <1>3, ThreadRuns DEF Runs
  <2>2. ~sched_flag
    BY <2>1 DEF IInv, IsrInv
  <2>3. sched_flag' = sched_flag
    BY <1>3
       DEF ThreadStep, CallService, Acquire, GetUnusedTid, AllocThread,
           AllocFails, RegisterNewThread, Spawned, StatsLoop, CallScheduler,
           SuspendOther, SetupTimer, ModTimer, SelfSuspend, DelTimer,
           Schedule, SwitchTo, SwitchRestore, SwitchToIrq, ReturnFromException
  <2> QED  BY <2>2, <2>3
<1>4. ASSUME NEW D, IrqEnter(D) PROVE ~sched_flag'
  BY <1>4 DEF IrqEnter, IInv, IsrInv
<1>5. CASE IrqReturn \/ IrqPreempt
  BY <1>5 DEF IrqReturn, IrqPreempt, FlagInv
<1>6. CASE UNCHANGED vars
  BY <1>6 DEF vars, OInv, FlagInv
<1> QED  BY <1>1, <1>2, <1>3, <1>4, <1>5, <1>6
         DEF FlagInv, Next, Interrupt, Undefined, StartFailed

\* A step of start_kernel before the first switch.
LEMMA BootOrder ==
  ASSUME IInv, OInv, NEW s \in Stream, ThreadStep(s) \/ CallService(s),
         ~started'
  PROVE  /\ \A t \in Tid :
              tab'.status[t] # "SUSPEND" /\ tab'.to_status[t] # "SUSPEND"
         /\ pc'[BOOT] = "sched" => tab'.status[BASE] # "NONE"
         /\ Switching(BOOT)' => tab'.work # IDLE
<1>1. /\ Runs(s) /\ s # IDLE /\ cpu = s /\ (s = BOOT <=> ~started)
      /\ TypeOK /\ Sane(tab) /\ BootInv /\ CreateInv
  BY ThreadRuns, RunFacts DEF IInv
<1>2. ~SwitchRestore(s) /\ ~SwitchToIrq(s)
  BY DEF SwitchRestore, SwitchToIrq, LoadStatus
<1>3. started' = started
  BY <1>2
     DEF ReturnFromException, ThreadStep, CallService, Acquire, GetUnusedTid,
         AllocThread, AllocFails, RegisterNewThread, Spawned, StatsLoop,
         CallScheduler, SuspendOther, SetupTimer, ModTimer, SelfSuspend,
         DelTimer, Schedule, SwitchTo
<1>4. s = BOOT /\ BOOT \in Stream /\ pc \in [Stream -> Place]
  BY <1>1, <1>3 DEF Stream, TypeOK
<1>5. /\ pc[BOOT] \in {"spawn", "alloc", "reg", "failed", "sched", "switch",
                       "restore"}
      /\ pc[BOOT] # "failed" => missing = {}
      /\ pc[BOOT] = "sched" => tab.status[BASE] # "NONE"
      /\ Switching(BOOT) => tab.work # IDLE
      /\ \A t \in Tid :
           tab.status[t] # "SUSPEND" /\ tab.to_status[t] # "SUSPEND"
  BY <1>1, <1>4 DEF BootInv, OInv, IdleInv
<1>6. CASE Acquire(BOOT)
  BY <1>5, <1>6 DEF Acquire, Switching
<1>7. CASE \/ GetUnusedTid(BOOT) \/ AllocThread(BOOT) \/ AllocFails(BOOT)
           \/ RegisterNewThread(BOOT)
  <2>1. pc'[BOOT] \in {"alloc", "reg", "spawn", "failed"}
    BY <1>4, <1>7
       DEF GetUnusedTid, AllocThread, AllocFails, RegisterNewThread, Goto
  <2>2. CASE RegisterNewThread(BOOT)
    <3> DEFINE c == newtid[BOOT]
    <3>1. /\ pc[BOOT] = "reg"
          /\ tab' = Sync([tab EXCEPT !.ready = AddStatusList(@, c)], c, "READY")
      BY <2>2 DEF RegisterNewThread, Holds
    <3>2. c \in Tid /\ tab.status[c] = "NONE"
      BY <1>1, <1>4, <3>1, SchedAssumption DEF CreateInv
    <3> HIDE DEF c
    <3>3. NoNewSleeper(tab, tab')
      BY <1>1, <3>1, <3>2, RegisterSane
    <3> QED  BY <1>5, <2>1, <3>3 DEF Switching, NoNewSleeper
  <2>3. CASE ~RegisterNewThread(BOOT)
    <3>1. tab' = tab
      BY <1>7, <2>3 DEF GetUnusedTid, AllocThread, AllocFails
    <3> QED  BY <1>5, <2>1, <3>1 DEF Switching
  <2> QED  BY <2>2, <2>3
<1>8. CASE Spawned(BOOT)
  <2>1. pc'[BOOT] = "sched"
    <3> DEFINE at == CASE BOOT = BOOT -> "sched" [] BOOT = BASE -> "stats"
                       [] OTHER -> "run"
    <3>0. BOOT # BASE /\ at = "sched"
      BY SchedAssumption
    <3>1. pc' = [pc EXCEPT ![BOOT] = at]
      BY <1>8 DEF Spawned, Goto
    <3> QED  BY <1>4, <3>0, <3>1
  <2>2. tab' = tab /\ Unborn(BOOT) = {} /\ pc[BOOT] = "spawn"
    BY <1>8 DEF Spawned
  <2>3. tab.status[BASE] # "NONE"
    BY <1>5, <2>2, SchedAssumption DEF Unborn
  <2> QED  BY <1>5, <2>1, <2>2, <2>3 DEF Switching
<1>9. CASE Schedule(BOOT)
  <2>1. pc[BOOT] = "sched" /\ tab' = ScheduleThread(tab)
    BY <1>9 DEF Schedule, Holds
  <2>2. tab.status[BASE] = "READY" /\ BASE \in Tid
    <3>1. tab.work = NULL /\ tab.status[BASE] # "NONE"
      BY <1>1, <1>4, <1>5, <2>1 DEF BootInv, Switching
    <3>2. /\ tab.status[BASE] \in Status /\ BASE \in Tid
          /\ tab.status[BASE] # "RUNNING"
      BY <1>1, <3>1, SchedAssumption DEF Sane, ListsMatch, Table
    <3>3. tab.status[BASE] # "SUSPEND"
      BY <1>5, <3>2
    <3> QED  BY <3>1, <3>2, <3>3 DEF Status
  <2>3. tab.ready # <<>> /\ tab.ready \in Seq(Tid) /\ InList(tab.ready, BASE)
    BY <1>1, <2>2, ReadyNotEmpty DEF Sane, ListsMatch, Table
  <2>4. PrioOf(tab.ready[1]) <= PrioOf(BASE)
    BY <2>2, <2>3, HeadHighest DEF OInv
  <2>5. tab.ready[1] # IDLE
    BY <2>2, <2>4, BaseAboveIdle, PrioType, SchedAssumption
  <2>6. tab'.work # IDLE
    BY <2>1, <2>3, <2>5, ScheduleChange
  <2>7. pc'[BOOT] # "sched"
    BY <1>4, <1>9 DEF Schedule, Goto, AfterSchedule
  <2>8. NoNewSleeper(tab, tab')
    BY <2>1, ScheduleChange
  <2> QED  BY <1>5, <2>6, <2>7, <2>8 DEF NoNewSleeper
<1>10. CASE SwitchTo(BOOT)
  <2>1. pc'[BOOT] = "restore" /\ tab' = tab /\ pc[BOOT] = "switch"
    BY <1>4, <1>10 DEF SwitchTo, Goto
  <2> QED  BY <1>5, <2>1 DEF Switching
<1> QED  BY <1>2, <1>4, <1>5, <1>6, <1>7, <1>8, <1>9, <1>10
         DEF ThreadStep, CallService, StatsLoop, CallScheduler, SuspendOther,
             SetupTimer, ModTimer, SelfSuspend, DelTimer, Holds,
             ReturnFromException

\* Whatever the interrupt mask does under the other threads, it is clear when
\* the idle thread gets the core.
LEMMA IdleStep ==
  ASSUME IInv, OInv, [Next]_vars
  PROVE  IdleInv'
<1>1. CASE UNCHANGED vars
  BY <1>1 DEF vars, OInv, IdleInv, Switching
<1>2. ASSUME NEW s \in Stream, ThreadStep(s) \/ CallService(s)
      PROVE  psr'[IDLE] = TRUE /\ (cpu' = IDLE => irq_on' = TRUE)
  <2>1. /\ cpu = s /\ s # IDLE /\ TypeOK /\ CoreInv
        /\ s = BOOT <=> ~started
    BY <1>2, ThreadRuns, RunFacts DEF IInv
  <2>2. psr[IDLE] = TRUE /\ psr \in [Tid -> BOOLEAN] /\ IDLE \in Tid
    BY <2>1, SchedAssumption DEF OInv, IdleInv, TypeOK
  <2>3. CASE SwitchRestore(s)
    <3>1. pc[s] = "restore" /\ cpu' = tab.work
      BY <2>3 DEF SwitchRestore, GiveCore
    <3>2. CASE started
      <4>1. /\ psr' = [psr EXCEPT ![s] = spsr]
            /\ irq_on' = psr[tab.work]
        BY <2>3, <3>2 DEF SwitchRestore, LoadStatus
      <4> QED  BY <2>1, <2>2, <3>1, <4>1
    <3>3. CASE ~started
      <4>1. psr' = psr /\ s = BOOT
        BY <2>1, <2>3, <3>3 DEF SwitchRestore, LoadStatus
      <4>2. tab.work # IDLE
        BY <3>1, <3>3, <4>1 DEF OInv, IdleInv, Switching
      <4> QED  BY <2>2, <3>1, <4>1, <4>2
    <3> QED  BY <3>2, <3>3
  <2>5. CASE SwitchToIrq(s)
    <3>1. cpu' = cpu /\ (psr' = psr \/ psr' = [psr EXCEPT ![s] = spsr])
      BY <2>5 DEF SwitchToIrq, LoadStatus
    <3> QED  BY <2>1, <2>2, <3>1
  <2>6. CASE ReturnFromException(s)
    <3>1. cpu' = tab.work /\ psr' = psr /\ irq_on' = psr[tab.work]
      BY <2>6 DEF ReturnFromException, GiveCore
    <3> QED  BY <2>2, <3>1
  <2>4. CASE /\ ~SwitchRestore(s) /\ ~SwitchToIrq(s)
             /\ ~ReturnFromException(s)
    <3>1. psr' = psr /\ cpu' = cpu
      BY <1>2, <2>4
         DEF ThreadStep, CallService, Acquire, GetUnusedTid, AllocThread,
             AllocFails, RegisterNewThread, Spawned, StatsLoop, CallScheduler,
             SuspendOther, SetupTimer, ModTimer, SelfSuspend, DelTimer,
             Schedule, SwitchTo
    <3> QED  BY <2>1, <2>2, <3>1
  <2> QED  BY <2>3, <2>4, <2>5, <2>6
<1>3. ASSUME NEW s \in Stream, ThreadStep(s) \/ CallService(s)
      PROVE  IdleInv'
  BY <1>2, <1>3, BootOrder DEF IdleInv
<1>4. CASE \/ \E D \in SUBSET (Tid \cup {PREEMPT}) : IrqEnter(D)
           \/ \E t \in Tid : SleepTimeout(t)
           \/ KthreadTimeout \/ IrqReturn
  <2>1. UNCHANGED <<psr, cpu, irq_on, started>>
    BY <1>4 DEF IrqEnter, SleepTimeout, KthreadTimeout, IrqReturn
  <2>2. started
    BY <1>4 DEF IrqEnter, SleepTimeout, KthreadTimeout, IrqReturn, IInv,
                BootInv, IsrInv
  <2> QED  BY <2>1, <2>2 DEF OInv, IdleInv
<1>5. CASE IrqPreempt
  <2>1. /\ psr' = [psr EXCEPT ![tab.work] = TRUE]
        /\ cpu' = tab'.work /\ irq_on' = psr'[tab'.work]
        /\ started' = started /\ started
    BY <1>5 DEF IrqPreempt, IInv, IsrInv
  <2>2. psr'[IDLE] = TRUE
    BY <2>1, SchedAssumption DEF OInv, IdleInv, IInv, TypeOK
  <2> QED  BY <2>1, <2>2 DEF IdleInv
<1> QED  BY <1>1, <1>3, <1>4, <1>5 DEF Next, Interrupt, Undefined, StartFailed

\* A step of s that suspends nobody and takes no timer off.
LEMMA SleepLocal ==
  ASSUME IInv, OInv, NEW s \in Stream, NEW at, pc' = [pc EXCEPT ![s] = at],
         NoNewSleeper(tab, tab'), armed \subseteq armed',
         at = "susp" => s \in Suspenders,
         at = "ss" /\ Suspenders = {} => s \in armed',
         s \in Tid /\ Suspenders = {} /\ tab'.to_status[s] = "SUSPEND" =>
           at = "sched"
  PROVE  SleepInv'
<1>1. pc'[s] = at /\ \A r \in Stream : r # s => pc'[r] = pc[r]
  BY DEF IInv, TypeOK
<1>2. Tid \subseteq Stream
  BY DEF Stream
<1>3. \A r \in Stream : pc'[r] = "susp" => r \in Suspenders
  BY <1>1 DEF OInv, SleepInv
<1>4. ASSUME Suspenders = {}, NEW t \in Tid
      PROVE  /\ tab'.status[t] = "SUSPEND" => t \in armed'
             /\ tab'.to_status[t] = "SUSPEND" => t \in armed' /\ pc'[t] = "sched"
             /\ pc'[t] = "ss" => t \in armed'
  <2>1. /\ tab.status[t] = "SUSPEND" => t \in armed
        /\ tab.to_status[t] = "SUSPEND" => t \in armed /\ pc[t] = "sched"
        /\ pc[t] = "ss" => t \in armed
    BY <1>4 DEF OInv, SleepInv
  <2> QED  BY <1>1, <1>2, <1>4, <2>1 DEF NoNewSleeper
<1> QED  BY <1>3, <1>4 DEF SleepInv

\* Nobody sleeps without a timer that wakes it.
LEMMA SleepStep ==
  ASSUME IInv, OInv, [Next]_vars
  PROVE  SleepInv'
<1>0. TypeOK /\ Sane(tab) /\ SleepInv /\ pc \in [Stream -> Place]
  BY DEF IInv, OInv, TypeOK
<1>a. NoNewSleeper(tab, tab)
  BY DEF NoNewSleeper
<1>1. CASE UNCHANGED vars
  BY <1>1, <1>0 DEF vars, SleepInv
<1>2. ASSUME NEW s \in Stream, ThreadStep(s) \/ CallService(s)
      PROVE  SleepInv'
  <2>0. /\ Runs(s) /\ s # IDLE /\ cpu = s /\ CoreInv
        /\ s = BOOT <=> ~started
    BY <1>2, ThreadRuns, RunFacts DEF IInv
  <2>a. pc[s] # "sched" /\ s \in Tid /\ Suspenders = {} =>
          tab.to_status[s] # "SUSPEND"
    BY <1>0 DEF SleepInv
  <2>1. CASE Acquire(s)
    <3>1. /\ tab' = tab /\ armed' = armed /\ pc' = pc
      BY <2>1 DEF Acquire
    <3>2. pc' = [pc EXCEPT ![s] = pc[s]]
      BY <3>1, <1>0
    <3>3. pc[s] = "ss" /\ Suspenders = {} => s \in armed'
      BY <1>0, <2>0, <3>1, NotBoot DEF SleepInv
    <3> QED  BY <1>0, <1>a, <2>a, <3>1, <3>2, <3>3, SleepLocal
             DEF SleepInv, Stream
  <2>2. CASE \/ GetUnusedTid(s) \/ AllocThread(s) \/ AllocFails(s)
             \/ Spawned(s) \/ StatsLoop(s) \/ CallService(s)
             \/ SetupTimer(s) \/ ModTimer(s) \/ SwitchTo(s)
             \/ SwitchRestore(s) \/ SwitchToIrq(s) \/ ReturnFromException(s)
    <3>1. PICK at \in Place : /\ pc' = [pc EXCEPT ![s] = at]
                              /\ at # "susp" /\ (at = "ss" => s \in armed')
      <4>1. CASE CallService(s)
        BY <4>1, <1>0 DEF CallService
      <4>2. CASE ~CallService(s)
        BY <2>2, <4>2
           DEF GetUnusedTid, AllocThread, AllocFails, Spawned, StatsLoop,
               SetupTimer, ModTimer, SwitchTo, SwitchRestore, SwitchToIrq,
               ReturnFromException, AfterSchedule, GiveCore, Goto, Place
      <4> QED  BY <4>1, <4>2
    <3>2. /\ tab' = tab /\ armed \subseteq armed' /\ pc[s] # "sched"
      BY <2>2
         DEF GetUnusedTid, AllocThread, AllocFails, Spawned, StatsLoop,
             CallService, SetupTimer, ModTimer, SwitchTo, SwitchRestore,
             SwitchToIrq, ReturnFromException, Holds
    <3> QED  BY <1>a, <2>a, <3>1, <3>2, SleepLocal
  <2>3. CASE CallScheduler(s)
    <3>1. PICK at : /\ pc' = [pc EXCEPT ![s] = at]
                    /\ at \in {"susp", "ss"} => s \in Suspenders
      BY <2>3 DEF CallScheduler, Goto
    <3>2. tab' = tab /\ armed' = armed /\ pc[s] # "sched"
      BY <2>3 DEF CallScheduler
    <3> QED  BY <1>a, <2>a, <3>1, <3>2, SleepLocal
  <2>4. CASE RegisterNewThread(s)
    <3> DEFINE c == newtid[s]
    <3>1. /\ pc[s] = "reg" /\ pc' = [pc EXCEPT ![s] = "spawn"]
          /\ tab' = Sync([tab EXCEPT !.ready = AddStatusList(@, c)], c, "READY")
          /\ armed' = armed
      BY <2>4 DEF RegisterNewThread, Holds, Goto
    <3>2. c \in Tid /\ tab.status[c] = "NONE"
      BY <3>1, SchedAssumption DEF IInv, CreateInv
    <3> HIDE DEF c
    <3>3. NoNewSleeper(tab, tab')
      BY <1>0, <3>1, <3>2, RegisterSane
    <3>4. s \in Tid /\ Suspenders = {} => tab'.to_status[s] # "SUSPEND"
      BY <2>a, <3>1, <3>3 DEF NoNewSleeper
    <3> QED  BY <3>1, <3>3, <3>4, SleepLocal
  <2>5. CASE SuspendOther(s)
    <3>1. pc[s] = "susp" /\ pc' = [pc EXCEPT ![s] = "run"]
      BY <2>5 DEF SuspendOther, Holds, Goto
    <3>2. Suspenders # {}
      BY <1>0, <3>1 DEF SleepInv
    <3> QED  BY <1>0, <3>1, <3>2 DEF SleepInv
  <2>6. CASE SelfSuspend(s)
    <3>1. /\ pc[s] = "ss" /\ pc' = [pc EXCEPT ![s] = "sched"]
          /\ tab' = SetTo(tab, tab.work, "SUSPEND") /\ armed' = armed
      BY <2>6 DEF SelfSuspend, Holds, Goto
    <3>2. s \in Tid /\ tab.work = s
      BY <2>0, <3>1, NotBoot
    <3>3. tab' = [status |-> tab.status,
                  to_status |-> [tab.to_status EXCEPT ![s] = "SUSPEND"],
                  ready |-> tab.ready, suspend |-> tab.suspend,
                  work |-> tab.work]
      BY <1>0, <3>1, <3>2, SetToFields DEF TypeOK
    <3>4. /\ \A t \in Tid : tab'.status[t] = tab.status[t]
          /\ \A t \in Tid : t # s => tab'.to_status[t] = tab.to_status[t]
      BY <1>0, <3>3 DEF TypeOK, Table
    <3>5. pc'[s] = "sched" /\ \A r \in Stream : r # s => pc'[r] = pc[r]
      BY <1>0, <3>1
    <3>6. Suspenders = {} => s \in armed'
      BY <1>0, <3>1, <3>2 DEF SleepInv
    <3> QED  BY <1>0, <3>1, <3>4, <3>5, <3>6 DEF SleepInv, Stream
  <2>7. CASE DelTimer(s)
    <3> DEFINE at == IF s = BASE THEN "stats" ELSE "run"
    <3>1. /\ pc[s] = "del" /\ pc' = [pc EXCEPT ![s] = at]
          /\ tab' = tab /\ armed' = armed \ {s}
      BY <2>7 DEF DelTimer, Holds, Goto
    <3>2. s \in Tid /\ tab.work = s
      BY <2>0, <3>1, NotBoot
    <3>3. tab.status[s] = "RUNNING"
      BY <1>0, <3>2 DEF Sane, ListsMatch
    <3>4. at \notin {"susp", "ss"}
      OBVIOUS
    <3> HIDE DEF at
    <3>5. pc'[s] = at /\ \A r \in Stream : r # s => pc'[r] = pc[r]
      BY <1>0, <3>1
    <3> QED  BY <1>0, <2>a, <3>1, <3>2, <3>3, <3>4, <3>5 DEF SleepInv, Stream
  <2>8. CASE Schedule(s)
    <3>1. /\ tab' = ScheduleThread(tab) /\ armed' = armed /\ pc[s] = "sched"
          /\ pc' = [pc EXCEPT ![s] = IF NullContext(tab) THEN AfterSchedule(s)
                                     ELSE "switch"]
      BY <2>8 DEF Schedule, Holds, Goto
    <3> DEFINE at == IF NullContext(tab) THEN AfterSchedule(s) ELSE "switch"
    <3>2. pc' = [pc EXCEPT ![s] = at] /\ at \notin {"susp", "ss"}
      BY <3>1 DEF AfterSchedule
    <3> HIDE DEF at
    <3>3. ASSUME s \in Tid PROVE tab.ready # <<>>
      <4>1. tab.work = s /\ tab.status[IDLE] # "NONE"
        BY <2>0, <3>1, <3>3, SchedAssumption
           DEF CoreInv, Switching, IInv, BootInv
      <4>2. tab.status[IDLE] = "READY"
        BY <1>0, <2>0, <4>1, SchedAssumption
           DEF Sane, ListsMatch, Table, Status
      <4> QED  BY <1>0, <4>2, SchedAssumption, ReadyNotEmpty
    <3>4. NoNewSleeper(tab, tab')
      BY <3>1, ScheduleChange
    <3>5. s \in Tid => tab'.to_status[s] = "NONE"
      BY <3>1, <3>3, ScheduleChange
    <3> QED  BY <3>1, <3>2, <3>4, <3>5, SleepLocal
  <2> QED  BY <1>2, <2>1, <2>2, <2>3, <2>4, <2>5, <2>6, <2>7, <2>8
           DEF ThreadStep
<1>3. ASSUME NoNewSleeper(tab, tab'), UNCHANGED <<pc, armed>>
      PROVE  SleepInv'
  BY <1>0, <1>3 DEF SleepInv, NoNewSleeper
<1>4. CASE \/ \E D \in SUBSET (Tid \cup {PREEMPT}) : IrqEnter(D)
           \/ KthreadTimeout \/ IrqReturn
  BY <1>a, <1>3, <1>4 DEF IrqEnter, KthreadTimeout, IrqReturn
<1>5. ASSUME NEW t \in Tid, SleepTimeout(t) PROVE SleepInv'
  <2>1. UNCHANGED <<pc, armed>>
    BY <1>5 DEF SleepTimeout
  <2>2. CASE tab' = tab
    BY <1>a, <1>3, <2>1, <2>2
  <2>3. CASE tab' # tab
    <3>1. /\ tab.status[t] = "SUSPEND"
          /\ tab' = ThreadSwitch(SetTo(tab, t, "READY"), t)
      BY <1>5, <2>3 DEF SleepTimeout
    <3>2. NoNewSleeper(tab, tab')
      BY <1>0, <3>1, WakeupSane
    <3> QED  BY <1>3, <2>1, <3>2
  <2> QED  BY <2>2, <2>3
<1>6. CASE IrqPreempt
  <2>1. UNCHANGED <<pc, armed>> /\ tab' = ScheduleThread(tab)
    BY <1>6 DEF IrqPreempt
  <2>2. NoNewSleeper(tab, tab')
    BY <2>1, ScheduleChange
  <2> QED  BY <1>3, <2>1, <2>2
<1> QED  BY <1>1, <1>2, <1>4, <1>5, <1>6
         DEF Next, Interrupt, Undefined, StartFailed

\* Nothing is ready and nobody sleeps when start_kernel begins.
LEMMA InitOrder == Init => OInv
<1> SUFFICES ASSUME Init PROVE OInv
  OBVIOUS
<1>1. /\ tab.ready = <<>> /\ tab.status = [t \in Tid |-> "NONE"]
      /\ tab.to_status = [t \in Tid |-> "NONE"]
  BY DEF Init
<1>2. \A s \in Stream : pc[s] \in {"idle", "spawn"}
  BY DEF Init
<1>3. IDLE \in Tid /\ BOOT \notin Tid /\ Tid \subseteq Stream /\ BOOT \in Stream
  BY SchedAssumption DEF Stream
<1>4. Sorted(tab.ready) /\ FlagInv
  BY <1>1 DEF Sorted, FlagInv, Init
<1>5. IdleInv
  BY <1>1, <1>2, <1>3 DEF IdleInv, Switching, Init
<1>6. SleepInv
  BY <1>1, <1>2, <1>3 DEF SleepInv
<1> QED  BY <1>4, <1>5, <1>6 DEF OInv

\* Every step of the kernel preserves the second invariant.
LEMMA StepOrder == IInv /\ OInv /\ [Next]_vars => OInv'
<1> SUFFICES ASSUME IInv, OInv, [Next]_vars PROVE OInv'
  OBVIOUS
<1>1. tab.ready \in Seq(Tid) /\ Distinct(tab.ready)
  BY DEF IInv, Sane, ListsMatch, Table
<1>2. Sorted(tab.ready)'
  BY <1>1, StepReady, ChangeOrdered DEF OInv
<1> QED  BY <1>2, FlagStep, IdleStep, SleepStep DEF OInv

\* The two invariants of sched.c together: the lists are the states, and the
\* ready list is in the order of schedule_thread_switch's pick.
THEOREM OrderInvariance == Spec => [](IInv /\ OInv)
  BY InitInv, StepInv, InitOrder, StepOrder, PTL DEF Spec

\* The ready list is sorted by priority in every reachable state, whatever
\* threads are created, displaced and woken.
THEOREM ListSorted == Spec => []ReadySorted
<1>1. OInv => ReadySorted
  BY DEF OInv, Sorted, ReadySorted
<1> QED  BY <1>1, OrderInvariance, PTL

\* Without calls of schedule_thread_suspend, nobody sleeps without a
\* timer that wakes it, wherever the tick falls in schedule_timeout.
THEOREM TimerBeforeSleep == Spec => []SleeperHasTimer
<1>1. OInv => SleeperHasTimer
  BY DEF OInv, SleepInv, SleeperHasTimer
<1> QED  BY <1>1, OrderInvariance, PTL

\* The idle thread never has the core with interrupts masked, although every
\* irqsave section of every other thread flips the mask.
THEOREM IdleTakesInterrupts == Spec => []IdleInterruptible
<1>1. OInv => IdleInterruptible
  BY DEF OInv, IdleInv, IdleInterruptible
<1> QED  BY <1>1, OrderInvariance, PTL

\* The systick hands the core to a thread whose priority is not lower, even
\* when its other callbacks have changed the ready list after the decision.
THEOREM PreemptUpward == Spec => PreemptNotDownward
<1>1. ASSUME IInv, OInv, [Next]_vars, in_isr, tab'.work # tab.work
      PROVE  PrioOf(tab'.work) <= PrioOf(tab.work)
  <2>1. CASE IrqPreempt
    <3>1. tab' = ScheduleThread(tab) /\ sched_flag
      BY <2>1 DEF IrqPreempt
    <3>2. tab.ready # <<>> /\ PrioOf(tab.ready[1]) <= PrioOf(tab.work)
      BY <1>1, <3>1 DEF IInv, IsrInv, OInv, FlagInv
    <3> QED  BY <1>1, <3>1, <3>2, ScheduleChange
  <2>2. ASSUME NEW s \in Stream, ThreadStep(s) \/ CallService(s) PROVE FALSE
    BY <1>1, <2>2, ThreadRuns DEF Runs
  <2>3. ASSUME NEW t \in Tid, SleepTimeout(t) PROVE FALSE
    <3>1. /\ tab.status[t] = "SUSPEND"
          /\ tab' = ThreadSwitch(SetTo(tab, t, "READY"), t)
      BY <1>1, <2>3 DEF SleepTimeout
    <3>2. tab'.work = tab.work
      BY <1>1, <3>1, WakeupSane DEF IInv
    <3> QED  BY <1>1, <3>2
  <2> QED  BY <1>1, <2>1, <2>2, <2>3
           DEF Next, vars, Interrupt, Undefined, StartFailed, IrqEnter,
               KthreadTimeout, IrqReturn
<1>2. IInv /\ OInv /\ [Next]_vars =>
        [in_isr /\ tab'.work # tab.work =>
           PrioOf(tab'.work) <= PrioOf(tab.work)]_vars
  BY <1>1
<1> QED  BY <1>2, OrderInvariance, PTL DEF Spec, PreemptNotDownward

\* Threads of one priority are served in the order in which they became ready,
\* and nobody overtakes a ready thread whose priority is not lower.
THEOREM ReadyInOrder == Spec => ReadyFifo
<1>1. ASSUME IInv, [Next]_vars PROVE Fifo(tab.ready, tab'.ready)
  <2>1. tab.ready \in Seq(Tid) /\ Distinct(tab.ready)
    BY <1>1 DEF IInv, Sane, ListsMatch, Table
  <2> QED  BY <1>1, <2>1, StepReady, ChangeOrdered
<1>2. IInv /\ [Next]_vars =>
        [\A t, u \in Tid :
           /\ InList(tab.ready, t) /\ InList(tab'.ready, t)
           /\ InList(tab'.ready, u)
           /\ \/ Before(tab.ready, t, u)
              \/ ~InList(tab.ready, u) /\ PrioOf(t) <= PrioOf(u)
           => Before(tab'.ready, t, u)]_vars
  BY <1>1 DEF Fifo
<1> QED  BY <1>2, Invariance, PTL DEF Spec, ReadyFifo
-----------------------------------------------------------------------------
(* The scheduler that the threads see *)

\* register_new_thread is the creation of a thread.
LEMMA CreateMoves ==
  ASSUME Sane(tab), NEW t \in Tid, tab.status[t] = "NONE",
         tab'.work = tab.work, OneMoved(tab, tab', t, "READY")
  PROVE  Abstract!Create(t)
<1>1. InStatus("READY")' = InStatus("READY") \cup {t}
  BY DEF InStatus, OneMoved
<1>2. InStatus("SUSPEND")' = InStatus("SUSPEND")
  BY DEF InStatus, OneMoved
<1>3. t \notin InStatus("READY") \cup InStatus("SUSPEND") \cup {tab.work}
  BY DEF InStatus, Sane, ListsMatch
<1> QED  BY <1>1, <1>2, <1>3 DEF Abstract!Create

\* schedule_thread_wakeup wakes a sleeper.
LEMMA WakeMoves ==
  ASSUME NEW t \in Tid, tab.status[t] = "SUSPEND",
         tab'.work = tab.work, OneMoved(tab, tab', t, "READY")
  PROVE  Abstract!Wake(t)
<1>1. InStatus("READY")' = InStatus("READY") \cup {t}
  BY DEF InStatus, OneMoved
<1>2. InStatus("SUSPEND")' = InStatus("SUSPEND") \ {t}
  BY DEF InStatus, OneMoved
<1>3. t \in InStatus("SUSPEND")
  BY DEF InStatus
<1> QED  BY <1>1, <1>2, <1>3 DEF Abstract!Wake

\* schedule_thread_suspend of a ready thread suspends it.
LEMMA SuspendMoves ==
  ASSUME NEW t \in Tid, tab.status[t] = "READY", t # IDLE,
         tab'.work = tab.work, OneMoved(tab, tab', t, "SUSPEND")
  PROVE  Abstract!Suspend(t)
<1>1. InStatus("READY")' = InStatus("READY") \ {t}
  BY DEF InStatus, OneMoved
<1>2. InStatus("SUSPEND")' = InStatus("SUSPEND") \cup {t}
  BY DEF InStatus, OneMoved
<1>3. t \in InStatus("READY") \ {IDLE}
  BY DEF InStatus
<1> QED  BY <1>1, <1>2, <1>3 DEF Abstract!Suspend

\* The switch of __schedule_thread is the first start, a yield or the running
\* thread going to sleep, and nobody ready outranks the thread it puts on the
\* core.
LEMMA HandOver ==
  ASSUME Sane(tab), Sorted(tab.ready), tab.ready # <<>>,
         tab.work = NULL => tab.status[IDLE] = "READY",
         tab'.work = tab.ready[1], NEW d, HandedOver(tab, tab', d)
  PROVE  Abstract!Next
<1> DEFINE n == tab.ready[1]
           p == tab.work
<1>1. n \in Tid /\ tab.status[n] = "READY"
  BY FirstReady
<1>2. /\ p \in Tid \cup {NULL} /\ IDLE \in Tid /\ NULL \notin Tid
      /\ \A u \in Tid : p = u <=> tab.status[u] = "RUNNING"
  BY SchedAssumption DEF Sane, ListsMatch, Table
<1>3. Abstract!Best(n)
  <2>1. tab.ready \in Seq(Tid)
    BY DEF Sane, Table
  <2>2. ASSUME NEW r \in InStatus("READY") PROVE PrioOf(n) <= PrioOf(r)
    <3>1. r \in Tid /\ InList(tab.ready, r)
      BY <2>2 DEF InStatus, Sane, ListsMatch
    <3> QED  BY <2>1, <3>1, HeadHighest
  <2>3. \A r \in InStatus("READY") : r \in Tid
    BY DEF InStatus
  <2> QED  BY <1>1, <2>2, <2>3 DEF Abstract!Best, InStatus
<1>4. /\ d = "READY" \/ (d = "SUSPEND" /\ p \notin {NULL, IDLE})
      /\ \A u \in Tid : tab'.status[u] = IF u = p THEN d
                        ELSE IF u = n THEN "RUNNING" ELSE tab.status[u]
  BY DEF HandedOver
<1> HIDE DEF n, p
<1>5. CASE p = NULL
  <2>1. InStatus("READY")' = InStatus("READY") \ {n}
    BY <1>1, <1>2, <1>4, <1>5 DEF InStatus
  <2>2. InStatus("SUSPEND")' = InStatus("SUSPEND")
    BY <1>1, <1>2, <1>4, <1>5 DEF InStatus
  <2>3. IDLE \in InStatus("READY")
    BY <1>2, <1>5 DEF InStatus, p
  <2>4. Abstract!Start(n)
    BY <1>3, <1>5, <2>1, <2>2, <2>3 DEF Abstract!Start, n, p
  <2> QED  BY <1>1, <2>4 DEF Abstract!Next
<1>6. CASE p # NULL /\ d = "READY"
  <2>1. InStatus("READY")' = (InStatus("READY") \ {n}) \cup {p}
    BY <1>1, <1>2, <1>4, <1>6 DEF InStatus
  <2>2. InStatus("SUSPEND")' = InStatus("SUSPEND")
    BY <1>1, <1>2, <1>4, <1>6 DEF InStatus
  <2>3. Abstract!Yield(n)
    BY <1>3, <1>6, <2>1, <2>2 DEF Abstract!Yield, n, p
  <2> QED  BY <1>1, <2>3 DEF Abstract!Next
<1>7. CASE p # NULL /\ d = "SUSPEND"
  <2>1. InStatus("READY")' = InStatus("READY") \ {n}
    BY <1>1, <1>2, <1>4, <1>7 DEF InStatus
  <2>2. InStatus("SUSPEND")' = InStatus("SUSPEND") \cup {p}
    BY <1>1, <1>2, <1>4, <1>7 DEF InStatus
  <2>3. p \notin {NULL, IDLE}
    BY <1>4, <1>7
  <2>4. Abstract!Sleep(n)
    BY <1>3, <2>1, <2>2, <2>3 DEF Abstract!Sleep, n, p
  <2> QED  BY <1>1, <2>4 DEF Abstract!Next
<1> QED  BY <1>4, <1>5, <1>6, <1>7

\* schedule_thread and the interrupt return path alike: when __schedule_thread
\* finds no ready thread nothing happens.
LEMMA ScheduleMoves ==
  ASSUME IInv, OInv, tab' = ScheduleThread(tab),
         ~started => pc[BOOT] = "sched"
  PROVE  Abstract!Next \/ tab' = tab
<1>1. Sane(tab) /\ Sorted(tab.ready) /\ (tab.work = NULL => ~started)
  BY DEF IInv, OInv, BootInv
<1>2. CASE tab.ready = <<>>
  BY <1>2 DEF ScheduleThread
<1>3. CASE tab.ready # <<>>
  <2>1. tab'.work = tab.ready[1]
    BY <1>1, <1>3, ScheduleResult
  <2>2. PICK d : HandedOver(tab, tab', d)
    BY <1>1, <1>3, ScheduleResult
  <2>3. ASSUME tab.work = NULL PROVE tab.status[IDLE] = "READY"
    <3>1. tab.status[IDLE] # "NONE"
      BY <1>1, <2>3 DEF IInv, BootInv
    <3> QED  BY <1>1, <2>3, <3>1, SchedAssumption
             DEF Sane, ListsMatch, Table, Status
  <2> QED  BY <1>1, <1>3, <2>1, <2>2, <2>3, HandOver
<1> QED  BY <1>2, <1>3

\* Every step of the kernel is a step of the abstract scheduler or changes
\* nothing that it shows.
LEMMA StepMoves ==
  ASSUME IInv, OInv, [Next]_vars
  PROVE  Abstract!Next \/ UNCHANGED Abstract!vars
<1>1. CASE tab' = tab
  BY <1>1 DEF Abstract!vars, InStatus
<1>2. ASSUME NEW s \in Stream, RegisterNewThread(s) PROVE Abstract!Next
  <2> DEFINE c == newtid[s]
  <2>1. /\ pc[s] = "reg"
        /\ tab' = Sync([tab EXCEPT !.ready = AddStatusList(@, c)], c, "READY")
    BY <1>2 DEF RegisterNewThread, Holds
  <2>2. Sane(tab) /\ c \in Tid /\ tab.status[c] = "NONE"
    BY <2>1, SchedAssumption DEF IInv, CreateInv
  <2> HIDE DEF c
  <2>3. tab'.work = tab.work /\ tab'.status = [tab.status EXCEPT ![c] = "READY"]
    BY <2>1, <2>2, RegisterSane
  <2>4. OneMoved(tab, tab', c, "READY")
    BY <2>2, <2>3 DEF OneMoved, Sane, Table
  <2>5. Abstract!Create(c)
    BY <2>2, <2>3, <2>4, CreateMoves
  <2> QED  BY <2>2, <2>5 DEF Abstract!Next
<1>3. ASSUME NEW s \in Stream, SuspendOther(s), tab' # tab
      PROVE  Abstract!Next
  <2>1. PICK u \in Tid \ {tab.work} :
          /\ tab.status[u] # "NONE"
          /\ tab' = ThreadSwitch(SetTo(tab, u, "SUSPEND"), u)
    BY <1>3 DEF SuspendOther
  <2>2. Sane(tab)
    BY DEF IInv
  <2>3. /\ tab'.work = tab.work /\ tab.status[u] = "READY" /\ u # IDLE
        /\ OneMoved(tab, tab', u, "SUSPEND")
    BY <1>3, <2>1, <2>2, SuspendSane
  <2>4. Abstract!Suspend(u)
    BY <2>1, <2>3, SuspendMoves
  <2> QED  BY <2>1, <2>4 DEF Abstract!Next
<1>4. ASSUME NEW s \in Stream, SelfSuspend(s) PROVE UNCHANGED Abstract!vars
  <2>1. Runs(s) /\ pc[s] = "ss" /\ tab' = SetTo(tab, tab.work, "SUSPEND")
    BY <1>4 DEF SelfSuspend, Holds
  <2>2. tab.work \in Tid /\ tab \in Table
    BY <2>1, NotBoot DEF IInv, TypeOK
  <2>3. tab'.status = tab.status /\ tab'.work = tab.work
    BY <2>1, <2>2, SetToFields
  <2> QED  BY <2>3 DEF Abstract!vars, InStatus
<1>5. ASSUME NEW t \in Tid, SleepTimeout(t), tab' # tab PROVE Abstract!Next
  <2>1. /\ tab.status[t] = "SUSPEND"
        /\ tab' = ThreadSwitch(SetTo(tab, t, "READY"), t)
    BY <1>5 DEF SleepTimeout
  <2>2. Sane(tab)
    BY DEF IInv
  <2>3. tab'.work = tab.work /\ OneMoved(tab, tab', t, "READY")
    BY <2>1, <2>2, WakeupSane
  <2>4. Abstract!Wake(t)
    BY <2>1, <2>3, WakeMoves
  <2> QED  BY <2>4 DEF Abstract!Next
<1>6. ASSUME NEW s \in Stream, Schedule(s) PROVE Abstract!Next \/ tab' = tab
  <2>1. Runs(s) /\ pc[s] = "sched" /\ tab' = ScheduleThread(tab)
    BY <1>6 DEF Schedule, Holds
  <2>2. ~started => pc[BOOT] = "sched"
    BY <2>1, RunFacts
  <2> QED  BY <2>1, <2>2, ScheduleMoves
<1>7. ASSUME IrqPreempt PROVE Abstract!Next \/ tab' = tab
  <2>1. started /\ tab' = ScheduleThread(tab)
    BY <1>7 DEF IrqPreempt, IInv, IsrInv
  <2> QED  BY <2>1, ScheduleMoves
<1> QED  BY <1>1, <1>2, <1>3, <1>4, <1>5, <1>6, <1>7
         DEF Next, vars, ThreadStep, CallService, Interrupt, Undefined,
             StartFailed, Acquire, GetUnusedTid, AllocThread, AllocFails,
             Spawned, StatsLoop, CallScheduler, SetupTimer, ModTimer,
             DelTimer, SwitchTo, SwitchRestore, SwitchToIrq,
             ReturnFromException, IrqEnter, KthreadTimeout, IrqReturn

\* The scheduler of sched.c implements the abstract one, for every set of
\* threads, whatever creations, sleeps, suspensions and ticks interleave: no
\* step loses a thread, runs one that was not ready, passes over a ready
\* thread of higher priority or puts the idle thread to sleep.
THEOREM SchedRefinement == Spec => ImplementsScheduler
<1>1. Init => Abstract!Init
  BY DEF Init, Abstract!Init, InStatus
<1>2. IInv /\ OInv /\ [Next]_vars => [Abstract!Next]_(Abstract!vars)
  BY StepMoves
<1> QED  BY <1>1, <1>2, OrderInvariance, PTL
         DEF Spec, ImplementsScheduler, Abstract!Spec

-----------------------------------------------------------------------------
(* Sleeping and waking; the window in which a context can be torn *)

\* A suspended thread keeps the timer that it has armed, and leaves its sleep
\* in one way only: the systick handler, with the scheduler unlocked, serves
\* that thread's own timer and makes it ready (real_thread_sleep_timeout).
\* Neither another thread's timer, a schedule nor a suspension wakes it.
WokenByTimer ==
  [][\A t \in Tid : tab.status[t] = "SUSPEND" =>
       /\ t \in armed => t \in armed'
       /\ tab'.status[t] # "SUSPEND" =>
            /\ tab'.status[t] = "READY"
            /\ in_isr /\ t \in todo /\ lock = NULL]_vars

\* A frame is torn in two windows only, both a preemption by the systick while
\* the core executes the code of the thread that gives it away: between the
\* unlock at the end of schedule_thread and the first instruction of
\* __switch_to, and, if the next thread had been preempted by an interrupt,
\* between the lowered count and the rfeia (context.S:153).  The frame is that
\* of the thread which was about to get the core.
TornInWindow ==
  [][foreign' # foreign =>
       /\ IrqPreempt /\ pc[cpu] \in {"switch", "rfe"}
       /\ foreign' = foreign \cup {tab.work}]_vars

\* The switch of __schedule_thread takes no thread out of its sleep.
LEMMA SleeperNotScheduled ==
  ASSUME IInv, NEW t \in Tid, tab.status[t] = "SUSPEND",
         tab' = ScheduleThread(tab)
  PROVE  tab'.status[t] = "SUSPEND"
<1>1. Sane(tab) /\ (tab.work = NULL => ~started)
  BY DEF IInv, BootInv
<1>2. CASE tab.ready = <<>>
  BY <1>2 DEF ScheduleThread
<1>3. CASE tab.ready # <<>>
  <2>1. PICK d : HandedOver(tab, tab', d)
    BY <1>1, <1>3, ScheduleResult
  <2>2. t # tab.work
    BY <1>1 DEF Sane, ListsMatch
  <2>3. t # tab.ready[1]
    BY <1>1, <1>3, FirstReady
  <2> QED  BY <2>1, <2>2, <2>3 DEF HandedOver
<1> QED  BY <1>2, <1>3

\* Only del_timer, called by the thread itself, takes a sleep timer off.
LEMMA TimerKept ==
  ASSUME IInv, [Next]_vars, NEW t \in Tid, tab.status[t] = "SUSPEND",
         t \in armed
  PROVE  t \in armed'
<1>1. ASSUME NEW s \in Stream, DelTimer(s) PROVE t \in armed'
  <2>1. Runs(s) /\ pc[s] = "del" /\ armed' = armed \ {s}
    BY <1>1 DEF DelTimer, Holds
  <2>2. s \in Tid /\ tab.work = s
    BY <2>1, NotBoot
  <2>3. tab.status[s] = "RUNNING"
    BY <2>2 DEF IInv, Sane, ListsMatch
  <2> QED  BY <2>1, <2>3
<1>2. CASE armed \subseteq armed'
  BY <1>2
<1>3. ASSUME NEW s \in Stream, ThreadStep(s) \/ CallService(s), ~DelTimer(s)
      PROVE  armed \subseteq armed'
  BY <1>3
     DEF ThreadStep, CallService, Acquire, GetUnusedTid, AllocThread,
         AllocFails, RegisterNewThread, Spawned, StatsLoop, CallScheduler,
         SuspendOther, SetupTimer, ModTimer, SelfSuspend, Schedule, SwitchTo,
         SwitchRestore, SwitchToIrq, ReturnFromException
<1> QED  BY <1>1, <1>2, <1>3
         DEF Next, vars, Interrupt, Undefined, StartFailed, IrqEnter,
             SleepTimeout, KthreadTimeout, IrqReturn, IrqPreempt

\* What every step of the kernel does to a suspended thread.
LEMMA SleeperStep ==
  ASSUME IInv, [Next]_vars, NEW t \in Tid, tab.status[t] = "SUSPEND",
         tab'.status[t] # "SUSPEND"
  PROVE  tab'.status[t] = "READY" /\ in_isr /\ t \in todo /\ lock = NULL
<1>0. Sane(tab)
  BY DEF IInv
<1>1. CASE tab' = tab
  BY <1>1
<1>2. ASSUME NEW s \in Stream, RegisterNewThread(s) PROVE FALSE
  <2> DEFINE c == newtid[s]
  <2>1. /\ pc[s] = "reg"
        /\ tab' = Sync([tab EXCEPT !.ready = AddStatusList(@, c)], c, "READY")
    BY <1>2 DEF RegisterNewThread, Holds
  <2>2. c \in Tid /\ tab.status[c] = "NONE"
    BY <2>1, SchedAssumption DEF IInv, CreateInv
  <2> HIDE DEF c
  <2>3. tab'.status = [tab.status EXCEPT ![c] = "READY"]
    BY <1>0, <2>1, <2>2, RegisterSane
  <2> QED  BY <2>2, <2>3
<1>3. ASSUME NEW s \in Stream, SuspendOther(s) PROVE FALSE
  <2>1. PICK u \in Tid \ {tab.work} :
          /\ tab.status[u] # "NONE"
          /\ tab' = ThreadSwitch(SetTo(tab, u, "SUSPEND"), u)
    BY <1>3 DEF SuspendOther
  <2>2. tab' = tab \/ OneMoved(tab, tab', u, "SUSPEND")
    BY <1>0, <2>1, SuspendSane
  <2> QED  BY <2>1, <2>2 DEF OneMoved
<1>4. ASSUME NEW s \in Stream, SelfSuspend(s) PROVE FALSE
  <2>1. Runs(s) /\ pc[s] = "ss" /\ tab' = SetTo(tab, tab.work, "SUSPEND")
    BY <1>4 DEF SelfSuspend, Holds
  <2>2. tab.work \in Tid /\ tab \in Table
    BY <2>1, NotBoot DEF IInv, TypeOK
  <2>3. tab'.status = tab.status
    BY <2>1, <2>2, SetToFields
  <2> QED  BY <2>3
<1>5. ASSUME NEW u \in Tid, SleepTimeout(u), tab' # tab
      PROVE  tab'.status[t] = "READY" /\ in_isr /\ t \in todo /\ lock = NULL
  <2>1. /\ in_isr /\ u \in todo /\ lock = NULL /\ tab.status[u] = "SUSPEND"
        /\ tab' = ThreadSwitch(SetTo(tab, u, "READY"), u)
    BY <1>5 DEF SleepTimeout
  <2>2. OneMoved(tab, tab', u, "READY")
    BY <1>0, <2>1, WakeupSane
  <2>3. t = u
    BY <2>2 DEF OneMoved
  <2> QED  BY <2>1, <2>2, <2>3 DEF OneMoved
<1>6. CASE tab' = ScheduleThread(tab)
  BY <1>6, SleeperNotScheduled
<1> QED  BY <1>1, <1>2, <1>3, <1>4, <1>5, <1>6
         DEF Next, vars, ThreadStep, CallService, Interrupt, Undefined,
             StartFailed, Acquire, GetUnusedTid, AllocThread, AllocFails,
             Spawned, StatsLoop, CallScheduler, SetupTimer, ModTimer,
             DelTimer, Schedule, SwitchTo, SwitchRestore, SwitchToIrq,
             ReturnFromException, IrqEnter, KthreadTimeout, IrqReturn,
             IrqPreempt

\* The safety half of SleeperWakes: a sleeper keeps its armed timer, and only
\* the service of that timer by the systick ends its sleep.
THEOREM SleepEndsByTimer == Spec => WokenByTimer
<1>1. IInv /\ [Next]_vars =>
        [\A t \in Tid : tab.status[t] = "SUSPEND" =>
           /\ t \in armed => t \in armed'
           /\ tab'.status[t] # "SUSPEND" =>
                /\ tab'.status[t] = "READY"
                /\ in_isr /\ t \in todo /\ lock = NULL]_vars
  BY TimerKept, SleeperStep
<1> QED  BY <1>1, Invariance, PTL DEF Spec, WokenByTimer

\* The two windows that OwnContext is violated in are the only ones: at every
\* other place of every thread a preemption saves the context where it belongs.
THEOREM TornOnlyInWindow == Spec => TornInWindow
<1>1. ASSUME IInv, [Next]_vars, foreign' # foreign
      PROVE  /\ IrqPreempt /\ pc[cpu] \in {"switch", "rfe"}
             /\ foreign' = foreign \cup {tab.work}
  <2>1. IrqPreempt
    BY <1>1 DEF Next, vars, ThreadStep, CallService, Interrupt, Undefined,
         StartFailed, Acquire, GetUnusedTid, AllocThread, AllocFails,
         RegisterNewThread, Spawned, StatsLoop, CallScheduler, SuspendOther,
         SetupTimer, ModTimer, SelfSuspend, DelTimer, Schedule, SwitchTo,
         SwitchRestore, SwitchToIrq, ReturnFromException, IrqEnter,
         SleepTimeout, KthreadTimeout, IrqReturn
  <2>2. /\ preempt_cnt = 0 /\ in_isr /\ cpu # tab.work
        /\ foreign' = foreign \cup {tab.work}
    BY <1>1, <2>1 DEF IrqPreempt
  <2>3. LockInv /\ CoreInv /\ started
    BY <1>1, <2>2 DEF IInv, IsrInv
  <2>4. Switching(cpu) /\ pc[cpu] # "restore"
    BY <2>2, <2>3 DEF LockInv, CoreInv
  <2> QED  BY <2>1, <2>2, <2>4 DEF Switching
<1>2. IInv /\ [Next]_vars =>
        [foreign' # foreign =>
           /\ IrqPreempt /\ pc[cpu] \in {"switch", "rfe"}
           /\ foreign' = foreign \cup {tab.work}]_vars
  BY <1>1
<1> QED  BY <1>2, Invariance, PTL DEF Spec, TornInWindow
=============================================================================
