---------------------------- MODULE InputProofs ----------------------------
(***************************************************************************)
(* Proofs about Input.tla, for every number of readers and of samples: the *)
(* entries of the wait queues live as long as their threads wait, an edge  *)
(* is forgotten only if it came after a sample and before the store that   *)
(* ends what the sample was for, and no raw sample is left for a reader.   *)
(***************************************************************************)
EXTENDS Input, FiniteSetTheorems, TLAPS

Place == {"user", "add", "adding", "copy", "done"} \cup Waiting

TypeInv ==
  /\ task \in [Dev -> Seq(Reader)]
  /\ signal \in [Reader -> SUBSET {"NORMAL", "WAKEUP"}]
  /\ ready \in [Dev -> BOOLEAN]
  /\ data \in {"none", "raw", "avg", "zero"} /\ work \in BOOLEAN
  /\ pc \in [Reader -> Place]
  /\ kworker \in Running \cup {"check", "sleep"}
  /\ sample \in Nat
  /\ unseen \in [Dev -> BOOLEAN] /\ late \in [Dev -> BOOLEAN]
  /\ hung \in BOOLEAN

Distinct(l) == \A i, j \in 1..Len(l) : l[i] = l[j] => i = j

\* A queue holds its waiting readers, each of them once.
QueueInv ==
  \A d \in Dev :
    /\ Distinct(task[d])
    /\ \A t \in Reader : InList(t, d) <=> (d = dev(t) /\ pc[t] \in Waiting)

\* Every way out of the work stores a result or zero first.
DataInv ==
  /\ kworker \in {"ready", "wake"} => data = "avg"
  /\ kworker = "detach" => data \in {"avg", "zero"}
  /\ ready["touch"] /\ kworker \in {"check", "sleep"} => data \in {"avg", "zero"}

\* Whoever takes the request of such an edge away samples the pin first.
EdgeInv ==
  /\ unseen["key"] /\ ~late["key"] =>
       ready["key"] /\ \A t \in KeyReader : pc[t] # "done"
  /\ unseen["touch"] /\ ~late["touch"] => work /\ kworker \notin Sampled

IInv == TypeInv /\ QueueInv /\ EdgeInv /\ DataInv

-----------------------------------------------------------------------------
(* The wait queue *)

\* add_wait_queue: Append keeps the entries and adds one.
LEMMA AppendEntry ==
  ASSUME NEW l \in Seq(Reader), NEW t \in Reader, Distinct(l),
         \A i \in 1..Len(l) : l[i] # t
  PROVE  /\ Append(l, t) \in Seq(Reader) /\ Distinct(Append(l, t))
         /\ \A u : (\E i \in 1..Len(Append(l, t)) : Append(l, t)[i] = u)
                     <=> (u = t \/ \E i \in 1..Len(l) : l[i] = u)
<1>1. /\ Append(l, t) \in Seq(Reader) /\ Len(Append(l, t)) = Len(l) + 1
      /\ Append(l, t)[Len(l) + 1] = t
      /\ \A i \in 1..Len(l) : Append(l, t)[i] = l[i]
  OBVIOUS
<1> DEFINE r == Append(l, t)
<1> HIDE DEF r
<1>2. /\ r \in Seq(Reader) /\ Len(r) = Len(l) + 1 /\ r[Len(l) + 1] = t
      /\ \A i \in 1..Len(l) : r[i] = l[i]
  BY <1>1 DEF r
<1>3. \A i \in 1..Len(r) : i \in 1..Len(l) \/ i = Len(l) + 1
  BY <1>2
<1>4. Distinct(r)
  BY <1>2, <1>3 DEF Distinct
<1>5. \A u : (\E i \in 1..Len(r) : r[i] = u)
               <=> (u = t \/ \E i \in 1..Len(l) : l[i] = u)
  <2>1. 1..Len(l) \subseteq 1..Len(r) /\ Len(l) + 1 \in 1..Len(r)
    BY <1>2
  <2> QED  BY <2>1, <1>2, <1>3
<1> QED  BY <1>2, <1>4, <1>5 DEF r

\* list_head_del: the entry of t goes and all others stay.
LEMMA DelEntry ==
  ASSUME NEW l \in Seq(Reader), NEW t \in Reader, Distinct(l),
         \E i \in 1..Len(l) : l[i] = t
  PROVE  /\ list_head_del(l, t) \in Seq(Reader) /\ Distinct(list_head_del(l, t))
         /\ \A u : (\E i \in 1..Len(list_head_del(l, t)) :
                      list_head_del(l, t)[i] = u)
                     <=> (u # t /\ \E i \in 1..Len(l) : l[i] = u)
<1> DEFINE p == CHOOSE i \in 1..Len(l) : l[i] = t
           r == [k \in 1..(Len(l) - 1) |-> IF k < p THEN l[k] ELSE l[k + 1]]
<1>1. p \in 1..Len(l) /\ l[p] = t
  OBVIOUS
<1>2. list_head_del(l, t) = r
  BY DEF list_head_del
<1> HIDE DEF p
<1>3. \A k \in 1..(Len(l) - 1) : k \in 1..Len(l) /\ k + 1 \in 1..Len(l)
  OBVIOUS
<1>4. r \in Seq(Reader) /\ Len(r) = Len(l) - 1
  <2>1. Len(l) - 1 \in Nat
    BY <1>1
  <2>2. \A k \in 1..(Len(l) - 1) : r[k] \in Reader
    BY <1>3
  <2> QED  BY <2>1, <2>2
<1>5. \A k \in 1..(Len(l) - 1) : r[k] = IF k < p THEN l[k] ELSE l[k + 1]
  OBVIOUS
<1> HIDE DEF r
<1>6. Distinct(r)
  <2> SUFFICES ASSUME NEW i \in 1..(Len(l) - 1), NEW j \in 1..(Len(l) - 1),
                      r[i] = r[j]
               PROVE  i = j
    BY <1>4 DEF Distinct
  <2> DEFINE a == IF i < p THEN i ELSE i + 1
             b == IF j < p THEN j ELSE j + 1
  <2>1. a \in 1..Len(l) /\ b \in 1..Len(l) /\ l[a] = l[b]
    BY <1>3, <1>5
  <2>2. a = b
    BY <2>1 DEF Distinct
  <2> QED  BY <2>2, <1>1
<1>7. \A u : (\E i \in 1..Len(r) : r[i] = u)
               <=> (u # t /\ \E i \in 1..Len(l) : l[i] = u)
  <2> TAKE u
  <2>1. ASSUME NEW i \in 1..Len(r), r[i] = u
        PROVE  u # t /\ \E j \in 1..Len(l) : l[j] = u
    <3> DEFINE a == IF i < p THEN i ELSE i + 1
    <3>1. i \in 1..(Len(l) - 1)
      BY <1>4
    <3>2. a \in 1..Len(l) /\ l[a] = u /\ a # p
      BY <3>1, <1>1, <1>3, <1>5, <2>1
    <3>3. u # t
      BY <3>2, <1>1 DEF Distinct
    <3> QED  BY <3>2, <3>3
  <2>2. ASSUME u # t, NEW j \in 1..Len(l), l[j] = u
        PROVE  \E i \in 1..Len(r) : r[i] = u
    <3>1. j # p
      BY <2>2, <1>1
    <3>2. CASE j < p
      <4>1. j \in 1..(Len(l) - 1) /\ r[j] = l[j]
        BY <3>2, <1>1, <1>5
      <4> QED  BY <4>1, <2>2, <1>4
    <3>3. CASE j > p
      <4>1. j - 1 \in 1..(Len(l) - 1) /\ ~(j - 1 < p) /\ (j - 1) + 1 = j
        BY <3>3, <1>1
      <4>2. r[j - 1] = l[j]
        BY <4>1, <1>5
      <4> QED  BY <4>1, <4>2, <2>2, <1>4
    <3> QED  BY <3>1, <3>2, <3>3, <1>1
  <2> QED  BY <2>1, <2>2
<1> QED  BY <1>2, <1>4, <1>6, <1>7

\* The readers are of one device each.
LEMMA DevType == \A t \in Reader : dev(t) \in Dev
  BY DEF dev, Dev

\* A step that moves no thread into or out of its wait keeps the queues.
LEMMA QueueStays ==
  ASSUME QueueInv, task' = task,
         \A t \in Reader : pc'[t] \in Waiting <=> pc[t] \in Waiting
  PROVE  QueueInv'
<1>1. \A t, d : (InList(t, d))' = InList(t, d)
  BY DEF InList
<1> QED  BY <1>1 DEF QueueInv

\* A reader's step from p to q, as far as the queues are concerned
LEMMA GotoStays ==
  ASSUME IInv, NEW t \in Reader, NEW q \in Place, Goto(t, q), task' = task,
         q \in Waiting <=> pc[t] \in Waiting
  PROVE  pc' \in [Reader -> Place] /\ QueueInv'
<1>1. pc' \in [Reader -> Place] /\ pc'[t] = q
      /\ \A u \in Reader \ {t} : pc'[u] = pc[u]
  BY DEF Goto, IInv, TypeInv
<1> QED  BY <1>1, QueueStays DEF IInv

-----------------------------------------------------------------------------
(* The steps *)

\* wake_up sets flags of threads and nothing else.
LEMMA WakeType ==
  ASSUME TypeInv, NEW d \in Dev, wake_up(d)
  PROVE  signal' \in [Reader -> SUBSET {"NORMAL", "WAKEUP"}]
  BY DEF TypeInv, wake_up

\* The interrupts keep IInv: an edge makes the key ready or queues the work.
LEMMA IsrStep ==
  ASSUME IInv, Isr
  PROVE  IInv'
<1>1. CASE extkey_driver_isr
  <2>1. /\ task' = task /\ pc' = pc /\ data' = data /\ work' = work
        /\ kworker' = kworker /\ sample' = sample
        /\ ready' = [ready EXCEPT !["key"] = TRUE]
        /\ unseen' = [unseen EXCEPT !["key"] = TRUE]
        /\ late' = [late EXCEPT !["key"] = KeySampled]
    BY <1>1 DEF extkey_driver_isr, Edge, kvars
  <2>2. signal' \in [Reader -> SUBSET {"NORMAL", "WAKEUP"}]
    <3>1. CASE wake_up("key")
      BY <3>1, WakeType DEF IInv, Dev
    <3>2. CASE UNCHANGED signal
      BY <3>2 DEF IInv, TypeInv
    <3> QED  BY <1>1, <3>1, <3>2 DEF extkey_driver_isr
  <2>3. hung' \in BOOLEAN
    BY <1>1 DEF extkey_driver_isr, IInv, TypeInv
  <2>4. TypeInv'
    BY <2>1, <2>2, <2>3 DEF IInv, TypeInv, Dev, KeySampled
  <2>5. QueueInv'
    BY <2>1, QueueStays DEF IInv
  <2>6. /\ ready'["key"] /\ late'["key"] = KeySampled /\ ready'["touch"] = ready["touch"]
        /\ unseen'["touch"] = unseen["touch"] /\ late'["touch"] = late["touch"]
    BY <2>1 DEF IInv, TypeInv, Dev
  <2>7. EdgeInv'
    BY <2>1, <2>6 DEF IInv, EdgeInv, KeySampled
  <2>8. DataInv'
    BY <2>1, <2>6 DEF IInv, DataInv
  <2> QED  BY <2>4, <2>5, <2>7, <2>8 DEF IInv
<1>2. CASE tsc2007_touch_isr
  <2>1. /\ task' = task /\ pc' = pc /\ data' = data /\ work' = TRUE
        /\ kworker' = kworker /\ sample' = sample /\ signal' = signal
        /\ ready' = ready /\ hung' = hung
        /\ unseen' = [unseen EXCEPT !["touch"] = TRUE]
        /\ late' = [late EXCEPT !["touch"] = (kworker \in Sampled)]
    BY <1>2 DEF tsc2007_touch_isr, Edge, qvars
  <2>2. TypeInv'
    BY <2>1 DEF IInv, TypeInv, Dev
  <2>3. QueueInv'
    BY <2>1, QueueStays DEF IInv
  <2>4. /\ late'["touch"] = (kworker \in Sampled)
        /\ unseen'["key"] = unseen["key"] /\ late'["key"] = late["key"]
    BY <2>1 DEF IInv, TypeInv, Dev
  <2>5. EdgeInv' /\ DataInv'
    BY <2>1, <2>4 DEF IInv, EdgeInv, DataInv
  <2> QED  BY <2>2, <2>3, <2>5 DEF IInv
<1> QED  BY <1>1, <1>2 DEF Isr

\* A reader that leaves the flags of the devices alone keeps the edges and the
\* data.
LEMMA FlagsStay ==
  ASSUME IInv, UNCHANGED <<ready, kvars, unseen, late>>,
         \A t \in KeyReader : pc'[t] = "done" => pc[t] = "done"
  PROVE  EdgeInv' /\ DataInv'
  BY DEF IInv, EdgeInv, DataInv, kvars

\* A reader that goes anywhere but to the store of its read.
LEMMA NotToDone ==
  ASSUME TypeInv, NEW t \in Reader, NEW q, q # "done", Goto(t, q)
  PROVE  \A u \in KeyReader : pc'[u] = "done" => pc[u] = "done"
  BY DEF TypeInv, Goto, Reader

\* add_wait_queue, wait.c
LEMMA AddStep ==
  ASSUME IInv, NEW t \in Reader, add_wait_queue(t)
  PROVE  IInv'
<1> DEFINE e == dev(t)
<1>0. e \in Dev
  BY DevType
<1>1. /\ pc[t] = "adding" /\ pc' = [pc EXCEPT ![t] = "set"]
      /\ task' = [task EXCEPT ![e] = Append(@, t)]
      /\ UNCHANGED <<signal, ready, kvars, hung, unseen, late>>
  BY DEF add_wait_queue, At, Goto
<1>2. pc' \in [Reader -> Place] /\ pc'[t] = "set"
      /\ \A u \in Reader \ {t} : pc'[u] = pc[u]
  BY <1>1 DEF IInv, TypeInv, Place, Waiting
<1>3. task[e] \in Seq(Reader) /\ Distinct(task[e])
      /\ \A i \in 1..Len(task[e]) : task[e][i] # t
  BY <1>0, <1>1 DEF IInv, TypeInv, QueueInv, InList, Waiting
<1>4. /\ task'[e] = Append(task[e], t)
      /\ \A d \in Dev \ {e} : task'[d] = task[d]
      /\ task' \in [Dev -> Seq(Reader)]
  <2>1. Append(task[e], t) \in Seq(Reader)
    BY <1>3
  <2> QED  BY <2>1, <1>0, <1>1 DEF IInv, TypeInv
<1>5. /\ Distinct(task'[e])
      /\ \A u : (InList(u, e))' <=> (u = t \/ InList(u, e))
  BY <1>3, <1>4, AppendEntry DEF InList
<1>6. \A d \in Dev \ {e} : Distinct(task'[d]) /\ \A u : (InList(u, d))' = InList(u, d)
  BY <1>4 DEF InList, IInv, QueueInv
<1>7. QueueInv'
  <2>1. ASSUME NEW u \in Reader
        PROVE  (InList(u, e))' <=> (e = dev(u) /\ pc'[u] \in Waiting)
    BY <1>0, <1>2, <1>5 DEF IInv, QueueInv, Waiting
  <2>2. ASSUME NEW d \in Dev \ {e}, NEW u \in Reader
        PROVE  (InList(u, d))' <=> (d = dev(u) /\ pc'[u] \in Waiting)
    BY <1>2, <1>6 DEF IInv, QueueInv
  <2> QED  BY <2>1, <2>2, <1>5, <1>6 DEF QueueInv
<1>8. TypeInv'
  BY <1>1, <1>2, <1>4 DEF IInv, TypeInv, kvars
<1>9. \A u \in KeyReader : pc'[u] = "done" => pc[u] = "done"
  BY <1>2 DEF Reader
<1> QED  BY <1>1, <1>7, <1>8, <1>9, FlagsStay DEF IInv

\* remove_wait_queue, wait.c
LEMMA RemoveStep ==
  ASSUME IInv, NEW t \in Reader, remove_wait_queue(t)
  PROVE  IInv'
<1> DEFINE e == dev(t)
<1>0. e \in Dev
  BY DevType
<1>1. /\ pc[t] = "removing" /\ pc' = [pc EXCEPT ![t] = "copy"]
      /\ task' = [task EXCEPT ![e] = list_head_del(@, t)]
      /\ UNCHANGED <<signal, ready, kvars, hung, unseen, late>>
  BY DEF remove_wait_queue, At, Goto
<1>2. pc' \in [Reader -> Place] /\ pc'[t] = "copy"
      /\ \A u \in Reader \ {t} : pc'[u] = pc[u]
  BY <1>1 DEF IInv, TypeInv, Place, Waiting
<1>3. task[e] \in Seq(Reader) /\ Distinct(task[e])
      /\ \E i \in 1..Len(task[e]) : task[e][i] = t
  BY <1>0, <1>1 DEF IInv, TypeInv, QueueInv, InList, Waiting
<1>4. /\ task'[e] = list_head_del(task[e], t)
      /\ \A d \in Dev \ {e} : task'[d] = task[d]
      /\ task' \in [Dev -> Seq(Reader)]
  <2>1. list_head_del(task[e], t) \in Seq(Reader)
    BY <1>3, DelEntry
  <2> QED  BY <2>1, <1>0, <1>1 DEF IInv, TypeInv
<1>5. /\ Distinct(task'[e])
      /\ \A u : (InList(u, e))' <=> (u # t /\ InList(u, e))
  <2> DEFINE l == task[e]
             r == list_head_del(l, t)
  <2>1. Distinct(r) /\ \A u : (\E i \in 1..Len(r) : r[i] = u)
                                <=> (u # t /\ \E i \in 1..Len(l) : l[i] = u)
    BY <1>3, DelEntry
  <2>2. task'[e] = r
    BY <1>4
  <2> HIDE DEF r
  <2> QED  BY <2>1, <2>2 DEF InList
<1>6. \A d \in Dev \ {e} : Distinct(task'[d]) /\ \A u : (InList(u, d))' = InList(u, d)
  BY <1>4 DEF InList, IInv, QueueInv
<1>7. QueueInv'
  <2>1. ASSUME NEW u \in Reader
        PROVE  (InList(u, e))' <=> (e = dev(u) /\ pc'[u] \in Waiting)
    BY <1>0, <1>2, <1>5 DEF IInv, QueueInv, Waiting
  <2>2. ASSUME NEW d \in Dev \ {e}, NEW u \in Reader
        PROVE  (InList(u, d))' <=> (d = dev(u) /\ pc'[u] \in Waiting)
    BY <1>2, <1>6 DEF IInv, QueueInv
  <2> QED  BY <2>1, <2>2, <1>5, <1>6 DEF QueueInv
<1>8. TypeInv'
  BY <1>1, <1>2, <1>4 DEF IInv, TypeInv, kvars
<1>9. \A u \in KeyReader : pc'[u] = "done" => pc[u] = "done"
  BY <1>2 DEF Reader
<1> QED  BY <1>1, <1>7, <1>8, <1>9, FlagsStay DEF IInv

\* The steps of wait_event and of the read functions keep IInv.
LEMMA ReaderKeeps ==
  ASSUME IInv, NEW t \in Reader, ReaderStep(t)
  PROVE  IInv'
<1> USE DEF At
\* A step that moves t alone, between places of the same kind, and not to done.
<1>0. ASSUME NEW q \in Place, q # "done", Goto(t, q), q \in Waiting <=> pc[t] \in Waiting,
             UNCHANGED <<task, ready, kvars, hung, unseen, late>>,
             signal' \in [Reader -> SUBSET {"NORMAL", "WAKEUP"}]
      PROVE  IInv'
  <2>1. pc' \in [Reader -> Place] /\ QueueInv'
    BY <1>0, GotoStays
  <2>2. TypeInv'
    BY <1>0, <2>1 DEF IInv, TypeInv, kvars
  <2>3. \A u \in KeyReader : pc'[u] = "done" => pc[u] = "done"
    BY <1>0, NotToDone DEF IInv
  <2> QED  BY <1>0, <2>1, <2>2, <2>3, FlagsStay DEF IInv
<1>s. signal \in [Reader -> SUBSET {"NORMAL", "WAKEUP"}]
  BY DEF IInv, TypeInv
<1>1. CASE Read(t)
  <2>1. UNCHANGED <<task, signal, ready, kvars, hung, unseen, late>> /\ pc[t] = "user"
    BY <1>1 DEF Read, qvars
  <2>2. CASE UNCHANGED pc
    <3>1. TypeInv' /\ QueueInv'
      BY <2>1, <2>2, QueueStays DEF IInv, TypeInv, kvars
    <3> QED  BY <2>1, <2>2, <3>1, FlagsStay DEF IInv
  <2>3. CASE Goto(t, "copy")
    BY <2>1, <2>3, <1>0, <1>s DEF Place, Waiting
  <2>4. CASE Goto(t, "add")
    BY <2>1, <2>4, <1>0, <1>s DEF Place, Waiting
  <2> QED  BY <1>1, <2>2, <2>3, <2>4 DEF Read
<1>2. CASE Lock(t)
  <2>1. UNCHANGED <<task, signal, ready, kvars, hung, unseen, late>>
    BY <1>2 DEF Lock, qvars
  <2>2. PICK q \in {"adding", "setting", "clearing", "removing"} :
          Goto(t, q) /\ (q \in Waiting <=> pc[t] \in Waiting)
    BY <1>2 DEF Lock, Waiting
  <2>3. q \in Place /\ q # "done"
    BY DEF Place, Waiting
  <2> QED  BY <2>1, <2>2, <2>3, <1>0, <1>s
<1>3. CASE SetState(t)
  <2>1. signal' \in [Reader -> SUBSET {"NORMAL", "WAKEUP"}]
    BY <1>3, <1>s DEF SetState
  <2> QED  BY <1>0, <1>3, <2>1 DEF SetState, Place, Waiting
<1>4. CASE ClrState(t)
  <2>1. signal' \in [Reader -> SUBSET {"NORMAL", "WAKEUP"}]
    BY <1>4, <1>s DEF ClrState
  <2> QED  BY <1>0, <1>4, <2>1 DEF ClrState, Place, Waiting
<1>5. CASE Loop(t)
  BY <1>0, <1>5, <1>s DEF Loop, qvars, Place, Waiting
<1>6. CASE Refuse(t)
  BY <1>0, <1>6, <1>s DEF Refuse, qvars, Place, Waiting
<1>7. CASE Copy(t)
  <2>1. UNCHANGED <<task, signal, ready, kvars, hung, late>>
    BY <1>7 DEF Copy, qvars
  <2>2. \/ t \in KeyReader /\ unseen' = [unseen EXCEPT !["key"] = FALSE]
        \/ t \notin KeyReader /\ unseen' = unseen
    BY <1>7 DEF Copy
  <2>3. pc' \in [Reader -> Place] /\ QueueInv'
    BY <1>7, <2>1, GotoStays DEF Copy, Place, Waiting
  <2>4. TypeInv'
    BY <2>1, <2>2, <2>3 DEF IInv, TypeInv, kvars, Dev
  <2>5. \A u \in Reader \ {t} : pc'[u] = pc[u]
    BY <1>7 DEF Copy, Goto, IInv, TypeInv
  <2>6. EdgeInv'
    <3>1. CASE t \in KeyReader
      <4>1. ~unseen'["key"] /\ unseen'["touch"] = unseen["touch"]
        BY <2>2, <3>1 DEF IInv, TypeInv, Dev
      <4> QED  BY <4>1, <2>1 DEF IInv, EdgeInv, kvars
    <3>2. CASE t \notin KeyReader
      BY <2>1, <2>2, <2>5, <3>2 DEF IInv, EdgeInv, kvars, Reader
    <3> QED  BY <3>1, <3>2
  <2>7. DataInv'
    BY <2>1 DEF IInv, DataInv, kvars
  <2> QED  BY <2>3, <2>4, <2>6, <2>7 DEF IInv
<1>8. CASE Done(t)
  <2>1. UNCHANGED <<task, signal, kvars, hung, unseen, late>> /\ pc[t] = "done"
    BY <1>8 DEF Done, qvars
  <2>2. \/ t \in KeyReader /\ ready' = [ready EXCEPT !["key"] = FALSE]
        \/ t \notin KeyReader /\ ready' = [ready EXCEPT !["touch"] = FALSE]
    BY <1>8 DEF Done, dev
  <2>3. pc' \in [Reader -> Place] /\ QueueInv'
    BY <1>8, <2>1, GotoStays DEF Done, Place, Waiting
  <2>4. TypeInv'
    BY <2>1, <2>2, <2>3 DEF IInv, TypeInv, kvars, Dev
  <2>5. \A u \in KeyReader : pc'[u] = "done" => pc[u] = "done"
    BY <1>8, NotToDone DEF Done, IInv
  <2>6. EdgeInv'
    <3>1. CASE t \in KeyReader
      <4>1. ~(unseen["key"] /\ ~late["key"])
        BY <2>1, <3>1 DEF IInv, EdgeInv
      <4> QED  BY <4>1, <2>1 DEF IInv, EdgeInv, kvars
    <3>2. CASE t \notin KeyReader
      <4>1. ready'["key"] = ready["key"]
        BY <2>2, <3>2 DEF IInv, TypeInv, Dev
      <4> QED  BY <4>1, <2>1, <2>5 DEF IInv, EdgeInv, kvars
    <3> QED  BY <3>1, <3>2
  <2>7. DataInv'
    <3>1. ready'["touch"] => ready["touch"]
      BY <2>2 DEF IInv, TypeInv, Dev
    <3> QED  BY <2>1, <3>1 DEF IInv, DataInv, kvars
  <2> QED  BY <2>3, <2>4, <2>6, <2>7 DEF IInv
<1> QED
  BY <1>1, <1>2, <1>3, <1>4, <1>5, <1>6, <1>7, <1>8, AddStep, RemoveStep
  DEF ReaderStep

\* The steps of the kworker and of the touch screen's work keep IInv.
LEMMA KworkerKeeps ==
  ASSUME IInv, Kworker
  PROVE  IInv'
<1>1. task' = task /\ pc' = pc
  BY DEF Kworker, Check, Wake, SamplePin, SampleAdc, Save, SetReady, WakeReaders,
         Detach, KGoto
<1>2. QueueInv'
  BY <1>1, QueueStays DEF IInv
<1> USE DEF IInv, TypeInv, EdgeInv, DataInv, KGoto, Running, Sampled, Dev
<1>3. CASE Check \/ Wake
  BY <1>1, <1>2, <1>3 DEF Check, Wake
<1>4. CASE SamplePin
  BY <1>1, <1>2, <1>4 DEF SamplePin
<1>5. CASE SampleAdc
  BY <1>1, <1>2, <1>5, InputAssumption DEF SampleAdc
<1>6. CASE Save
  BY <1>1, <1>2, <1>6 DEF Save
<1>7. CASE SetReady
  BY <1>1, <1>2, <1>7 DEF SetReady
<1>8. CASE WakeReaders
  <2>1. signal' \in [Reader -> SUBSET {"NORMAL", "WAKEUP"}]
    BY <1>8, WakeType DEF WakeReaders
  <2> QED  BY <1>1, <1>2, <1>8, <2>1 DEF WakeReaders
<1>9. CASE Detach
  BY <1>1, <1>2, <1>9 DEF Detach
<1> QED  BY <1>3, <1>4, <1>5, <1>6, <1>7, <1>8, <1>9 DEF Kworker

-----------------------------------------------------------------------------
(* The theorems *)

\* The inductive invariant of wait.c, workqueue.h and the two drivers
THEOREM Invariance == Spec => []IInv
<1>1. Init => IInv
  <2> SUFFICES ASSUME Init PROVE IInv
    OBVIOUS
  <2>1. TypeInv
    <3>1. task \in [Dev -> Seq(Reader)] /\ sample \in Nat
      BY DEF Init
    <3>2. kworker \in Running \cup {"check", "sleep"} /\ pc \in [Reader -> Place]
      BY DEF Init, Place
    <3>3. signal \in [Reader -> SUBSET {"NORMAL", "WAKEUP"}]
      BY DEF Init
    <3> QED  BY <3>1, <3>2, <3>3 DEF Init, TypeInv
  <2>2. QueueInv
    BY DEF Init, QueueInv, Distinct, InList, Waiting
  <2>3. EdgeInv /\ DataInv
    BY DEF Init, EdgeInv, DataInv, Dev
  <2> QED  BY <2>1, <2>2, <2>3 DEF IInv
<1>2. IInv /\ [Next]_vars => IInv'
  <2> SUFFICES ASSUME IInv, [Next]_vars PROVE IInv'
    OBVIOUS
  <2>1. CASE Spin \/ UNCHANGED vars
    <3>1. UNCHANGED <<task, signal, ready, data, work, kworker, sample, pc,
                      hung, unseen, late>>
      BY <2>1 DEF Spin, vars, kvars
    <3>2. QueueInv'
      BY <3>1, QueueStays DEF IInv
    <3> QED  BY <3>1, <3>2 DEF IInv, TypeInv, EdgeInv, DataInv
  <2> QED  BY <2>1, IsrStep, ReaderKeeps, KworkerKeeps DEF Next
<1> QED  BY <1>1, <1>2, PTL DEF Spec

\* wait.h: a thread's entry is on the queue of its device, once, exactly while
\* the thread is between add_wait_queue and remove_wait_queue.
THEOREM EntryWhileWaiting == Spec => []NoDanglingEntry
<1>1. IInv => NoDanglingEntry
  <2> SUFFICES ASSUME IInv, NEW t \in Reader, NEW d \in Dev
               PROVE  Cardinality({i \in 1..Len(task[d]) : task[d][i] = t})
                        = IF d = dev(t) /\ pc[t] \in Waiting THEN 1 ELSE 0
    BY DEF NoDanglingEntry
  <2> DEFINE E == {i \in 1..Len(task[d]) : task[d][i] = t}
  <2>1. CASE d = dev(t) /\ pc[t] \in Waiting
    <3>1. PICK i \in 1..Len(task[d]) : task[d][i] = t
      BY <2>1 DEF IInv, QueueInv, InList
    <3>2. E = {i}
      BY <3>1 DEF IInv, QueueInv, Distinct
    <3>3. Cardinality(E) = 1
      BY <3>2, FS_Singleton
    <3> QED  BY <3>3, <2>1
  <2>2. CASE ~(d = dev(t) /\ pc[t] \in Waiting)
    <3>1. E = {}
      BY <2>2 DEF IInv, QueueInv, InList
    <3>2. Cardinality(E) = 0
      BY <3>1, FS_EmptySet
    <3> QED  BY <3>2, <2>2
  <2> QED  BY <2>1, <2>2
<1> QED  BY <1>1, Invariance, PTL

\* extkey_driver_isr, schedule_work: an edge nobody has looked at lets a read
\* through, or has its work on the list, however many readers and samples
\* there are, unless it came after a sample and before the store behind it.
THEOREM EdgesPend == Spec => []EdgePending
<1>1. IInv => EdgePending
  BY DEF IInv, EdgeInv, EdgePending
<1> QED  BY <1>1, Invariance, PTL

\* tsc2007_touch_half_isr: a reader that comes while no work runs finds a
\* result or zero, never a raw sample.
THEOREM NoRawLeft == Spec => []RawOnlyWhileRunning
<1>1. IInv => RawOnlyWhileRunning
  BY DEF IInv, TypeInv, DataInv, RawOnlyWhileRunning
<1> QED  BY <1>1, Invariance, PTL
=============================================================================
