--------------------------- MODULE MailboxProofs ---------------------------
(***************************************************************************)
(* Proofs about Mailbox.tla, for every number of senders and every amount  *)
(* of memory: until the code uses a mail that is gone or two list          *)
(* operations overlap, the links of the box lead through the unread mails, *)
(* and no way out of mailbox.c leaves the mutex of a mail locked.          *)
(***************************************************************************)
EXTENDS Mailbox, TLAPS

\* Where a thread is inside list_head_del or list_head_add_tail, where a sender
\* and the receiver hold the mutex of their mail, where a sender's pointer leads
\* to a mail, and where this mail is not on the list
LinkAt == {"del1", "del2", "add1", "add2"}
SenderIn == {"delete", "del1", "del2", "free", "add", "add1", "add2"}
LightIn == {"copy", "delete", "del1", "del2", "unlock"}
OwnAt == SenderIn \cup {"destroy", "send"}
OffList == {"free", "send", "add", "add1", "add2"}
RecvAt == LightIn \cup {"lock", "relock"}
Place == OwnAt \cup RecvAt \cup {"user", "create", "fetch"}

TypeInv ==
  /\ next \in [Node -> Node \cup {NULL}] /\ prev \in [Node -> Node \cup {NULL}]
  /\ src \in [Slot -> Sender \cup {NULL}]
  /\ sgrt_lock \in [Slot -> Thread \cup {NULL}]
  /\ own \in [Sender -> Slot \cup {NULL}]
  /\ recv \in Node \cup {NULL}
  /\ pc \in [Thread -> Place] /\ linker \in Thread \cup {NULL}
  /\ open \in BOOLEAN /\ unread \in Seq(Slot) /\ broken \in BOOLEAN

Distinct(s) == \A i, j \in 1..Len(s) : s[i] = s[j] => i = j

\* The i-th stop on the way round the box through the mails of s
Stop(s, i) == IF i \in 1..Len(s) THEN s[i] ELSE box

\* nx and pv are the links of the list of s.
Linked(s, nx, pv) ==
  \A i \in 0..Len(s) :
    nx[Stop(s, i)] = Stop(s, i + 1) /\ pv[Stop(s, i + 1)] = Stop(s, i)

\* No mail is ever linked to itself: mail_recv never gives up a locked one.
NoLoop(nx) == \A m \in Slot : nx[m] # m

\* The mail that t works on
Mail(t) == IF t = light THEN recv ELSE own[t]

\* nx and pv are the links before the stores that the list operation under way
\* has made so far.
Half(nx, pv) ==
  LET m  == Mail(linker)
      at == IF linker = NULL THEN "user" ELSE pc[linker]
  IN  CASE at = "del2" /\ InList(unread, m) ->
             next = [nx EXCEPT ![pv[m]] = nx[m]] /\ prev = pv
        [] at = "add2" ->
             /\ next = [nx EXCEPT ![pv[box]] = m]
             /\ prev = [pv EXCEPT ![m] = pv[box]]
        [] OTHER -> next = nx /\ prev = pv

ListInv ==
  /\ Distinct(unread)
  /\ \A i \in 1..Len(unread) : src[unread[i]] # NULL
  /\ \E nx, pv \in [Node -> Node \cup {NULL}] :
       Linked(unread, nx, pv) /\ NoLoop(nx) /\ Half(nx, pv)

\* One list operation is under way at a time, and what list_head_del works on
\* is on the list or was taken off it with nothing put in its place.
LinkerInv ==
  /\ \A t \in Thread : pc[t] \in LinkAt <=> linker = t
  /\ pc[light] \notin {"add1", "add2"}
  /\ \A t \in Thread : pc[t] \in {"del1", "del2"} => Deletable(Mail(t))

\* A sender's pointer leads to a mail of its own, from mail_create to kfree,
\* which is off the list before mail_send and after mail_destroy.
OwnInv ==
  \A s \in Sender :
    /\ pc[s] \in OwnAt => own[s] # NULL
    /\ pc[s] # "create" /\ own[s] # NULL => src[own[s]] = s
    /\ pc[s] \in OffList => ~InList(unread, own[s])

RecvInv ==
  /\ recv # NULL => recv \in Slot /\ src[recv] # NULL
  /\ pc[light] \in RecvAt => recv # NULL

BoxInv == ListInv /\ LinkerInv /\ OwnInv /\ RecvInv
IInv == TypeInv /\ HeldInside /\ (~broken => BoxInv)

-----------------------------------------------------------------------------
(* The list *)

\* The stops of a list are nodes, and up to its end all different.
LEMMA Stops ==
  ASSUME NEW u \in Seq(Slot), Distinct(u)
  PROVE  /\ \A i \in Int : Stop(u, i) \in Node
         /\ \A i, j \in 0..Len(u) : Stop(u, i) = Stop(u, j) => i = j
         /\ \A i, j \in 1..(Len(u) + 1) : Stop(u, i) = Stop(u, j) => i = j
         /\ \A i \in 1..Len(u) : Stop(u, i) = u[i] /\ u[i] \in Slot
<1>1. \A i \in 1..Len(u) : Stop(u, i) = u[i] /\ u[i] \in Slot /\ u[i] # box
  BY MailboxAssumption DEF Stop
<1>2. \A i \in Int : i \notin 1..Len(u) => Stop(u, i) = box
  BY DEF Stop
<1>3. \A i \in Int : Stop(u, i) \in Node
  BY <1>1, <1>2 DEF Node
<1>4. ASSUME NEW i \in 0..Len(u), NEW j \in 0..Len(u), Stop(u, i) = Stop(u, j)
      PROVE  i = j
  <2>1. CASE i \in 1..Len(u) /\ j \in 1..Len(u)
    BY <2>1, <1>1, <1>4 DEF Distinct
  <2>2. CASE i = 0 \/ j = 0
    BY <2>2, <1>1, <1>2, <1>4
  <2> QED  BY <2>1, <2>2
<1>5. ASSUME NEW i \in 1..(Len(u) + 1), NEW j \in 1..(Len(u) + 1),
             Stop(u, i) = Stop(u, j)
      PROVE  i = j
  <2>1. CASE i \in 1..Len(u) /\ j \in 1..Len(u)
    BY <2>1, <1>1, <1>5 DEF Distinct
  <2>2. CASE i = Len(u) + 1 \/ j = Len(u) + 1
    BY <2>2, <1>1, <1>2, <1>5
  <2> QED  BY <2>1, <2>2
<1> QED  BY <1>1, <1>3, <1>4, <1>5

\* What Without leaves of a list, stop by stop
LEMMA WithoutStops ==
  ASSUME NEW u \in Seq(Slot), Distinct(u), NEW m \in Slot, InList(u, m)
  PROVE  /\ Without(u, m) \in Seq(Slot) /\ Distinct(Without(u, m))
         /\ Len(Without(u, m)) = Len(u) - 1
         /\ \E p \in 1..Len(u) :
              /\ u[p] = m
              /\ \A k \in 0..Len(u) : Stop(Without(u, m), k) =
                   IF k < p THEN Stop(u, k) ELSE Stop(u, k + 1)
<1> DEFINE p == CHOOSE i \in 1..Len(u) : u[i] = m
           r == [k \in 1..(Len(u) - 1) |-> IF k < p THEN u[k] ELSE u[k + 1]]
<1>1. p \in 1..Len(u) /\ u[p] = m
  BY DEF InList
<1>2. Without(u, m) = r
  BY DEF Without
<1> HIDE DEF p
<1>3. \A k \in 1..(Len(u) - 1) : k \in 1..Len(u) /\ k + 1 \in 1..Len(u)
  OBVIOUS
<1>4. r \in Seq(Slot) /\ Len(r) = Len(u) - 1
  <2>1. Len(u) - 1 \in Nat
    BY <1>1
  <2>2. \A k \in 1..(Len(u) - 1) : r[k] \in Slot
    BY <1>3
  <2> QED  BY <2>1, <2>2
<1>5. \A k \in 1..(Len(u) - 1) : r[k] = IF k < p THEN u[k] ELSE u[k + 1]
  OBVIOUS
<1> HIDE DEF r
<1>6. Distinct(r)
  <2> SUFFICES ASSUME NEW i \in 1..(Len(u) - 1), NEW j \in 1..(Len(u) - 1),
                      r[i] = r[j]
               PROVE  i = j
    BY <1>4 DEF Distinct
  <2> DEFINE a == IF i < p THEN i ELSE i + 1
             b == IF j < p THEN j ELSE j + 1
  <2>1. a \in 1..Len(u) /\ b \in 1..Len(u) /\ u[a] = u[b]
    BY <1>3, <1>5
  <2>2. a = b
    BY <2>1 DEF Distinct
  <2> QED  BY <2>2, <1>1
<1>7. ASSUME NEW k \in 0..Len(u)
      PROVE  Stop(r, k) = IF k < p THEN Stop(u, k) ELSE Stop(u, k + 1)
  <2>1. CASE k = 0
    BY <2>1, <1>1 DEF Stop
  <2>2. CASE k \in 1..(Len(u) - 1)
    BY <2>2, <1>3, <1>4, <1>5 DEF Stop
  <2>3. CASE k = Len(u)
    <3>1. k \notin 1..Len(r) /\ ~(k < p) /\ k + 1 \notin 1..Len(u)
      BY <2>3, <1>1, <1>4
    <3> QED  BY <3>1 DEF Stop
  <2> QED  BY <2>1, <2>2, <2>3
<1> QED  BY <1>1, <1>2, <1>4, <1>6, <1>7

\* The mails that Without leaves
LEMMA WithoutMembers ==
  ASSUME NEW u \in Seq(Slot), Distinct(u), NEW m \in Slot
  PROVE  /\ ~InList(Without(u, m), m)
         /\ \A x : InList(Without(u, m), x) => InList(u, x)
<1>1. CASE ~InList(u, m)
  BY <1>1 DEF Without
<1>2. CASE InList(u, m)
  <2> DEFINE r == Without(u, m)
  <2>1. PICK p \in 1..Len(u) :
          /\ u[p] = m
          /\ \A k \in 0..Len(u) : Stop(r, k) =
               IF k < p THEN Stop(u, k) ELSE Stop(u, k + 1)
    BY <1>2, WithoutStops
  <2>2. Len(r) = Len(u) - 1
    BY <1>2, WithoutStops
  <2> HIDE DEF r
  <2>3. ASSUME NEW k \in 1..Len(r)
        PROVE  \E i \in 1..Len(u) : i # p /\ r[k] = u[i]
    <3> DEFINE i == IF k < p THEN k ELSE k + 1
    <3>1. i \in 1..Len(u) /\ i # p /\ k \in 0..Len(u)
      BY <2>1, <2>2
    <3>2. r[k] = Stop(u, i)
      BY <3>1, <2>1 DEF Stop
    <3> QED  BY <3>1, <3>2 DEF Stop
  <2>4. \A k \in 1..Len(r) : r[k] # m
    BY <2>3, <2>1 DEF Distinct
  <2>5. \A k \in 1..Len(r) : \E i \in 1..Len(u) : u[i] = r[k]
    BY <2>3
  <2>6. ~InList(r, m)
    BY <2>4 DEF InList
  <2>7. \A x : InList(r, x) => InList(u, x)
    BY <2>5 DEF InList
  <2> QED  BY <2>6, <2>7 DEF r
<1> QED  BY <1>1, <1>2

\* list_head_del of a listed mail: the links lead round the rest.
LEMMA DelLinks ==
  ASSUME NEW u \in Seq(Slot), Distinct(u), NEW m \in Slot, InList(u, m),
         NEW nx \in [Node -> Node \cup {NULL}], NEW pv \in [Node -> Node \cup {NULL}],
         Linked(u, nx, pv), NoLoop(nx)
  PROVE  /\ Linked(Without(u, m), [nx EXCEPT ![pv[m]] = nx[m]],
                   [pv EXCEPT ![nx[m]] = pv[m]])
         /\ NoLoop([nx EXCEPT ![pv[m]] = nx[m]])
         /\ pv[m] # NULL /\ pv[m] # m
<1> DEFINE r  == Without(u, m)
           n2 == [nx EXCEPT ![pv[m]] = nx[m]]
           p2 == [pv EXCEPT ![nx[m]] = pv[m]]
<1>1. PICK p \in 1..Len(u) :
        /\ u[p] = m
        /\ \A k \in 0..Len(u) : Stop(r, k) =
             IF k < p THEN Stop(u, k) ELSE Stop(u, k + 1)
  BY WithoutStops
<1>2. Len(r) = Len(u) - 1 /\ Len(u) \in Nat
  BY WithoutStops
<1> HIDE DEF r
<1>3. p - 1 \in 0..Len(u) /\ p \in 0..Len(u) /\ (p - 1) + 1 = p
      /\ Stop(u, p) = m
  BY <1>1, Stops
<1>4. pv[m] = Stop(u, p - 1) /\ nx[m] = Stop(u, p + 1)
  BY <1>3 DEF Linked
<1>5. \A i \in Int : Stop(u, i) \in Node
  BY Stops
<1>6. /\ n2[Stop(u, p - 1)] = Stop(u, p + 1) /\ p2[Stop(u, p + 1)] = Stop(u, p - 1)
      /\ \A x \in Node : x # Stop(u, p - 1) => n2[x] = nx[x]
      /\ \A x \in Node : x # Stop(u, p + 1) => p2[x] = pv[x]
  BY <1>4, <1>5
<1> HIDE DEF n2, p2
<1>7. ASSUME NEW i \in 0..Len(r)
      PROVE  n2[Stop(r, i)] = Stop(r, i + 1) /\ p2[Stop(r, i + 1)] = Stop(r, i)
  <2>1. i \in 0..Len(u) /\ i + 1 \in 0..Len(u) /\ i + 1 \in 1..(Len(u) + 1)
        /\ p + 1 \in 1..(Len(u) + 1)
    BY <1>2
  <2>2. /\ Stop(r, i) = IF i < p THEN Stop(u, i) ELSE Stop(u, i + 1)
        /\ Stop(r, i + 1) = IF i + 1 < p THEN Stop(u, i + 1) ELSE Stop(u, (i + 1) + 1)
    BY <2>1, <1>1
  <2>3. CASE i + 1 < p
    <3>1. Stop(r, i) = Stop(u, i) /\ Stop(r, i + 1) = Stop(u, i + 1)
      BY <2>1, <2>2, <2>3
    <3>2. Stop(u, i) # Stop(u, p - 1)
      BY <2>1, <2>3, <1>3, Stops
    <3>3. Stop(u, i + 1) # Stop(u, p + 1)
      BY <2>1, <2>3, Stops
    <3> QED  BY <3>1, <3>2, <3>3, <2>1, <1>5, <1>6 DEF Linked
  <2>4. CASE i + 1 = p
    <3>1. i = p - 1 /\ (i + 1) + 1 = p + 1 /\ i < p /\ ~(i + 1 < p)
      BY <2>1, <2>4
    <3> QED  BY <3>1, <2>2, <1>6
  <2>5. CASE i + 1 > p
    <3>1. Stop(r, i) = Stop(u, i + 1) /\ Stop(r, i + 1) = Stop(u, (i + 1) + 1)
          /\ (i + 1) + 1 \in 1..(Len(u) + 1)
      BY <2>1, <2>2, <2>5
    <3>2. Stop(u, i + 1) # Stop(u, p - 1)
      BY <2>1, <2>5, <1>3, Stops
    <3>3. Stop(u, (i + 1) + 1) # Stop(u, p + 1)
      BY <3>1, <2>1, <2>5, Stops
    <3> QED  BY <3>1, <3>2, <3>3, <2>1, <1>5, <1>6 DEF Linked
  <2> QED  BY <2>1, <2>3, <2>4, <2>5
<1>8. NoLoop(n2)
  <2> SUFFICES ASSUME NEW x \in Slot PROVE n2[x] # x
    BY DEF NoLoop
  <2>1. CASE x = Stop(u, p - 1)
    <3>1. p - 1 \in 1..Len(u)
      BY <2>1, <1>3, MailboxAssumption DEF Stop
    <3>2. p - 1 \in 1..(Len(u) + 1) /\ p + 1 \in 1..(Len(u) + 1) /\ p - 1 # p + 1
      BY <3>1
    <3>3. Stop(u, p + 1) # Stop(u, p - 1)
      BY <3>2, Stops
    <3> QED  BY <2>1, <3>3, <1>6
  <2>2. CASE x # Stop(u, p - 1)
    BY <2>2, <1>6 DEF NoLoop, Node
  <2> QED  BY <2>1, <2>2
<1>9. pv[m] # NULL /\ pv[m] # m
  <2>1. pv[m] # NULL
    BY <1>3, <1>4, <1>5, MailboxAssumption DEF Node
  <2>2. p - 1 # p
    BY <1>1
  <2>3. Stop(u, p - 1) # Stop(u, p)
    BY <2>2, <1>3, Stops
  <2> QED  BY <2>1, <2>3, <1>3, <1>4
<1>10. Linked(r, n2, p2)
  BY <1>7 DEF Linked
<1> QED  BY <1>8, <1>9, <1>10 DEF r, n2, p2

\* list_head_add_tail: the links lead on to the new mail and back to the box.
LEMMA AddLinks ==
  ASSUME NEW u \in Seq(Slot), Distinct(u), NEW m \in Slot, ~InList(u, m),
         NEW nx \in [Node -> Node \cup {NULL}], NEW pv \in [Node -> Node \cup {NULL}],
         Linked(u, nx, pv), NoLoop(nx)
  PROVE  /\ Append(u, m) \in Seq(Slot) /\ Distinct(Append(u, m))
         /\ \A x : InList(Append(u, m), x) => InList(u, x) \/ x = m
         /\ Linked(Append(u, m), [nx EXCEPT ![pv[box]] = m, ![m] = box],
                   [pv EXCEPT ![m] = pv[box], ![box] = m])
         /\ NoLoop([nx EXCEPT ![pv[box]] = m, ![m] = box])
<1> DEFINE r  == Append(u, m)
           l  == Len(u)
           n2 == [nx EXCEPT ![pv[box]] = m, ![m] = box]
           p2 == [pv EXCEPT ![m] = pv[box], ![box] = m]
<1>1. /\ r \in Seq(Slot) /\ Len(r) = l + 1 /\ r[l + 1] = m /\ l \in Nat
      /\ \A i \in 1..l : r[i] = u[i]
  OBVIOUS
<1>2. \A i \in 1..l : u[i] # m /\ u[i] \in Slot
  BY DEF InList
<1> HIDE DEF r
<1>3. \A i \in 1..Len(r) : i \in 1..l \/ i = l + 1
  BY <1>1
<1>4. Distinct(r)
  BY <1>1, <1>2, <1>3 DEF Distinct
<1>5. \A x : InList(r, x) => InList(u, x) \/ x = m
  BY <1>1, <1>3 DEF InList
<1>6. \A i \in 0..(l + 2) : Stop(r, i) = IF i = l + 1 THEN m ELSE Stop(u, i)
  <2> TAKE i \in 0..(l + 2)
  <2>1. CASE i \in 1..l
    BY <2>1, <1>1 DEF Stop
  <2>2. CASE i = l + 1
    BY <2>2, <1>1 DEF Stop
  <2>3. CASE i = 0 \/ i = l + 2
    BY <2>3, <1>1 DEF Stop
  <2> QED  BY <2>1, <2>2, <2>3, <1>1
<1>7. \A i \in Int : Stop(u, i) \in Node /\ Stop(u, i) # m
  BY <1>2, MailboxAssumption, Stops DEF Stop
<1>8. Stop(u, l + 1) = box /\ pv[box] = Stop(u, l) /\ m # box /\ m \in Node
      /\ box \in Node
  BY <1>1, MailboxAssumption DEF Stop, Linked, Node
<1>9. /\ n2[Stop(u, l)] = m /\ n2[m] = box
      /\ \A x \in Node : x # Stop(u, l) /\ x # m => n2[x] = nx[x]
      /\ p2[m] = Stop(u, l) /\ p2[box] = m
      /\ \A x \in Node : x # box /\ x # m => p2[x] = pv[x]
  BY <1>1, <1>7, <1>8
<1> HIDE DEF n2, p2
<1>10. ASSUME NEW i \in 0..Len(r)
       PROVE  n2[Stop(r, i)] = Stop(r, i + 1) /\ p2[Stop(r, i + 1)] = Stop(r, i)
  <2>1. /\ Stop(r, i) = IF i = l + 1 THEN m ELSE Stop(u, i)
        /\ Stop(r, i + 1) = IF i + 1 = l + 1 THEN m ELSE Stop(u, i + 1)
    BY <1>1, <1>6
  <2>2. CASE i \in 0..l /\ i # l
    <3>1. i + 1 \in 1..l /\ i \in 0..l /\ l \in 0..l
      BY <2>2, <1>1
    <3>2. Stop(r, i) = Stop(u, i) /\ Stop(r, i + 1) = Stop(u, i + 1)
      BY <2>1, <2>2, <3>1, <1>1
    <3>3. Stop(u, i) # Stop(u, l)
      BY <2>2, <3>1, Stops
    <3>4. Stop(u, i + 1) # box
      BY <3>1, MailboxAssumption, Stops
    <3> QED  BY <3>1, <3>2, <3>3, <3>4, <1>7, <1>9 DEF Linked
  <2>3. CASE i = l
    BY <2>1, <2>3, <1>1, <1>9
  <2>4. CASE i = l + 1
    <3>1. Stop(r, i) = m /\ Stop(r, i + 1) = box
      BY <2>1, <2>4, <1>1 DEF Stop
    <3> QED  BY <3>1, <1>9
  <2> QED  BY <2>2, <2>3, <2>4, <1>1
<1>11. Linked(r, n2, p2)
  BY <1>10 DEF Linked
<1>12. NoLoop(n2)
  <2> SUFFICES ASSUME NEW x \in Slot PROVE n2[x] # x
    BY DEF NoLoop
  <2>1. CASE x = m
    BY <2>1, <1>8, <1>9
  <2>2. CASE x # m /\ x = Stop(u, l)
    BY <2>2, <1>9
  <2>3. CASE x # m /\ x # Stop(u, l)
    BY <2>3, <1>9 DEF NoLoop, Node
  <2> QED  BY <2>1, <2>2, <2>3
<1> QED  BY <1>1, <1>4, <1>5, <1>11, <1>12 DEF r, n2, p2

-----------------------------------------------------------------------------
(* The steps *)

\* Who holds the mutex of the mail at m may hold it: HeldInside, mail by mail
Inside(m) ==
  src[m] # NULL /\ sgrt_lock[m] # NULL =>
    \/ sgrt_lock[m] = light /\ recv = m /\ pc[light] \in LightIn
    \/ /\ sgrt_lock[m] \in Sender
       /\ own[sgrt_lock[m]] = m /\ pc[sgrt_lock[m]] \in SenderIn

\* The two ways to say it are the same.
LEMMA HeldIsInside ==
  ASSUME sgrt_lock \in [Slot -> Thread \cup {NULL}]
  PROVE  HeldInside <=> \A m \in Slot : Inside(m)
  BY MailboxAssumption DEF HeldInside, Inside, Thread, LightIn, SenderIn

\* The invariant, in the parts that the steps are about
Good == TypeInv /\ (\A m \in Slot : Inside(m)) /\ BoxInv

\* The senders and the receiver are different threads and none of them NULL.
LEMMA Names ==
  /\ light \in Thread /\ Sender \subseteq Thread /\ light \notin Sender
  /\ NULL \notin Thread /\ NULL \notin Slot /\ box \notin Slot /\ NULL # box
  /\ Slot \subseteq Node /\ box \in Node
  BY MailboxAssumption DEF Thread, Node

\* A step of t that only takes t to p
LEMMA GotoPlace ==
  ASSUME pc \in [Thread -> Place], NEW t \in Thread, NEW p \in Place, Goto(t, p)
  PROVE  /\ pc' \in [Thread -> Place] /\ pc'[t] = p
         /\ \A u \in Thread : u # t => pc'[u] = pc[u]
  BY DEF Goto

\* What a list operation under way goes by stays as it is.
LEMMA HalfStays ==
  ASSUME NEW nx, NEW pv, Half(nx, pv), UNCHANGED <<next, prev, unread, linker>>,
         linker # NULL => pc'[linker] = pc[linker] /\ Mail(linker)' = Mail(linker)
  PROVE  Half(nx, pv)'
<1>1. CASE linker = NULL
  BY <1>1 DEF Half
<1>2. CASE linker # NULL
  BY <1>2 DEF Half
<1> QED  BY <1>1, <1>2

\* A step of t that leaves the list and its mails alone, outside the list
\* operations
LEMMA ListStays ==
  ASSUME TypeInv, ListInv, LinkerInv, UNCHANGED <<next, prev, unread, linker>>,
         \A i \in 1..Len(unread) : src'[unread[i]] = src[unread[i]],
         \A t \in Thread : \/ pc'[t] = pc[t] /\ Mail(t)' = Mail(t)
                           \/ pc[t] \notin LinkAt /\ pc'[t] \notin LinkAt
  PROVE  ListInv' /\ LinkerInv'
<1>1. PICK nx \in [Node -> Node \cup {NULL}], pv \in [Node -> Node \cup {NULL}] :
        Linked(unread, nx, pv) /\ NoLoop(nx) /\ Half(nx, pv)
  BY DEF ListInv
<1>2. linker # NULL => /\ linker \in Thread /\ pc[linker] \in LinkAt
                       /\ pc'[linker] = pc[linker] /\ Mail(linker)' = Mail(linker)
  BY DEF LinkerInv, TypeInv
<1>3. Half(nx, pv)'
  BY <1>1, <1>2, HalfStays
<1>4. \A m : Deletable(m)' <=> Deletable(m)
  BY DEF Deletable, Listed
<1>5. LinkerInv'
  <2>1. \A t \in Thread : pc'[t] \in LinkAt <=> linker' = t
    BY DEF LinkerInv
  <2>2. pc'[light] \notin {"add1", "add2"}
    BY Names DEF LinkerInv, LinkAt
  <2>3. ASSUME NEW t \in Thread, pc'[t] \in {"del1", "del2"}
        PROVE  Deletable(Mail(t))'
    <3>1. pc[t] \in {"del1", "del2"} /\ Mail(t)' = Mail(t)
      BY <2>3 DEF LinkAt
    <3>2. Deletable(Mail(t))
      BY <3>1 DEF LinkerInv
    <3> QED  BY <3>1, <3>2 DEF Deletable, Listed
  <2> QED  BY <2>1, <2>2, <2>3 DEF LinkerInv
<1>6. ListInv'
  BY <1>1, <1>3 DEF ListInv
<1> QED  BY <1>5, <1>6

\* The state after a step of s whose mail is own[s], that changes only the
\* mutex of this mail and the place of s
LEMMA SenderMoves ==
  ASSUME Good, NEW s \in Sender, NEW p \in Place, Goto(s, p),
         UNCHANGED <<next, prev, linker, src, own, recv, open, unread, broken>>,
         \/ sgrt_lock' = sgrt_lock /\ (pc[s] \in SenderIn => p \in SenderIn)
         \/ /\ own[s] \in Slot /\ sgrt_lock' = [sgrt_lock EXCEPT ![own[s]] = s]
            /\ p \in SenderIn,
         pc[s] # "create", pc[s] \notin LinkAt, p \notin LinkAt,
         p \in OwnAt => own[s] # NULL,
         p \in OffList => ~InList(unread, own[s])
  PROVE  TypeInv' /\ (\A m \in Slot : Inside(m)') /\ BoxInv'
<1> USE DEF Good
<1>1. /\ pc' \in [Thread -> Place] /\ pc'[s] = p /\ s # light /\ s \in Thread
      /\ \A u \in Thread : u # s => pc'[u] = pc[u]
  BY GotoPlace, Names DEF TypeInv
<1>2. TypeInv'
  BY <1>1 DEF TypeInv
<1>3. \A m \in Slot : Inside(m)'
  BY <1>1, Names DEF Inside, TypeInv
<1>4. ListInv' /\ LinkerInv'
  BY <1>1, ListStays DEF BoxInv, Mail
<1>5. OwnInv'
  BY <1>1, Names DEF OwnInv, BoxInv
<1>6. RecvInv'
  BY <1>1, Names DEF RecvInv, BoxInv
<1> QED  BY <1>2, <1>3, <1>4, <1>5, <1>6 DEF BoxInv

\* What list_head_del of mail_destroy leaves of the list
LEMMA DeleteTypes ==
  ASSUME TypeInv, ListInv, NEW m \in Slot, NEW t \in Thread, NEW p, Delete(t, m, p)
  PROVE  /\ next' \in [Node -> Node \cup {NULL}]
         /\ prev' \in [Node -> Node \cup {NULL}]
         /\ unread' \in Seq(Slot) /\ linker' \in Thread \cup {NULL}
         /\ broken' \in BOOLEAN
         /\ \A x : InList(unread', x) => InList(unread, x)
         /\ DelPrev(t, m, p) => ~InList(unread', m)
<1> USE DEF TypeInv
<1>1. m \in Node /\ next[m] \in Node \cup {NULL} /\ prev[m] \in Node \cup {NULL}
  BY Names
<1>2. /\ next' \in [Node -> Node \cup {NULL}]
      /\ prev' \in [Node -> Node \cup {NULL}]
  BY <1>1 DEF Delete, DelRead, DelNext, DelPrev
<1>3. linker' \in Thread \cup {NULL}
  BY DEF Delete, DelRead, DelNext, DelPrev
<1>4. broken' \in BOOLEAN
  <2>1. CASE DelRead(t, m)
    BY <2>1 DEF DelRead
  <2>2. CASE broken' = broken
    BY <2>2
  <2> QED  BY <2>1, <2>2 DEF Delete, DelNext, DelPrev
<1>5. CASE DelPrev(t, m, p)
  <2>1. unread' = Without(unread, m)
    BY <1>5 DEF DelPrev
  <2>2. ~InList(unread', m) /\ \A x : InList(unread', x) => InList(unread, x)
    BY <2>1, WithoutMembers DEF ListInv
  <2>3. unread' \in Seq(Slot)
    BY <2>1, WithoutStops DEF ListInv, Without
  <2> QED  BY <1>2, <1>3, <1>4, <2>2, <2>3
<1>6. CASE ~DelPrev(t, m, p)
  BY <1>2, <1>3, <1>4, <1>6 DEF Delete, DelRead, DelNext
<1> QED  BY <1>5, <1>6

\* The three steps of list_head_del keep the list, when the mail is on it or
\* when its links are no longer used.
LEMMA DeleteKeeps ==
  ASSUME TypeInv, ListInv, LinkerInv, NEW m \in Slot, NEW t \in Thread, m = Mail(t),
         NEW p \in {"free", "unlock"}, Delete(t, m, p), UNCHANGED <<src, own, recv>>,
         ~broken'
  PROVE  ListInv' /\ LinkerInv'
<1> USE DEF TypeInv
<1>0. PICK nx \in [Node -> Node \cup {NULL}], pv \in [Node -> Node \cup {NULL}] :
        Linked(unread, nx, pv) /\ NoLoop(nx) /\ Half(nx, pv)
  BY DEF ListInv
<1>1. \A u : Mail(u)' = Mail(u)
  BY DEF Mail
<1>2. m \in Node /\ m # box /\ NULL \notin Thread /\ light \in Thread
  BY Names
<1>3. CASE DelRead(t, m)
  <2>1. /\ Deletable(m) /\ linker = NULL /\ linker' = t /\ pc[t] = "delete"
        /\ UNCHANGED <<next, prev, unread>>
    BY <1>3 DEF DelRead
  <2>2. pc' \in [Thread -> Place] /\ pc'[t] = "del1"
        /\ \A u \in Thread : u # t => pc'[u] = pc[u]
    BY <1>3, GotoPlace DEF DelRead, Place, OwnAt, SenderIn
  <2>3. next = nx /\ prev = pv
    BY <2>1, <1>0 DEF Half
  <2>4. Half(nx, pv)'
    BY <2>1, <2>2, <2>3, <1>2 DEF Half
  <2>5. Deletable(m)'
    BY <2>1 DEF Deletable, Listed
  <2>6. \A u \in Thread : u # t => pc'[u] \notin LinkAt
    BY <2>1, <2>2, <1>2 DEF LinkerInv
  <2>7. LinkerInv'
    <3>1. \A u \in Thread : pc'[u] \in LinkAt <=> linker' = u
      BY <2>1, <2>2, <2>6 DEF LinkAt
    <3>2. pc'[light] \notin {"add1", "add2"}
      BY <1>2, <2>2, <2>6 DEF LinkAt
    <3>3. ASSUME NEW u \in Thread, pc'[u] \in {"del1", "del2"}
          PROVE  Deletable(Mail(u))'
      <4>1. u = t
        BY <3>3, <2>6 DEF LinkAt
      <4>2. Mail(u)' = m
        BY <4>1, <1>1
      <4> QED  BY <4>2, <2>5 DEF Deletable, Listed
    <3> QED  BY <3>1, <3>2, <3>3 DEF LinkerInv
  <2>8. ListInv'
    BY <1>0, <2>1, <2>4 DEF ListInv
  <2> QED  BY <2>7, <2>8
<1>4. CASE DelNext(t, m)
  <2>1. /\ pc[t] = "del1" /\ next' = [next EXCEPT ![prev[m]] = next[m]]
        /\ UNCHANGED <<prev, unread, linker>>
    BY <1>4 DEF DelNext
  <2>2. pc' \in [Thread -> Place] /\ pc'[t] = "del2"
        /\ \A u \in Thread : u # t => pc'[u] = pc[u]
    BY <1>4, GotoPlace DEF DelNext, Place, OwnAt, SenderIn
  <2>3. linker = t /\ Deletable(m)
    BY <2>1 DEF LinkerInv, LinkAt
  <2>4. next = nx /\ prev = pv
    BY <2>1, <2>3, <1>0, <1>2 DEF Half
  <2>5. ~InList(unread, m) => next' = next
    BY <2>1, <2>3 DEF Deletable
  <2>6. Half(nx, pv)'
    BY <2>1, <2>2, <2>3, <2>4, <2>5, <1>1, <1>2 DEF Half
  <2>7. Deletable(m)'
    BY <2>1, <2>3, <2>5 DEF Deletable, Listed
  <2>8. \A u \in Thread : u # t => pc'[u] \notin LinkAt
    BY <2>2, <2>3 DEF LinkerInv
  <2>9. LinkerInv'
    <3>1. \A u \in Thread : pc'[u] \in LinkAt <=> linker' = u
      BY <2>1, <2>2, <2>3, <2>8 DEF LinkAt
    <3>2. pc'[light] \notin {"add1", "add2"}
      BY <1>2, <2>2, <2>8 DEF LinkAt
    <3>3. ASSUME NEW u \in Thread, pc'[u] \in {"del1", "del2"}
          PROVE  Deletable(Mail(u))'
      <4>1. u = t
        BY <3>3, <2>8 DEF LinkAt
      <4>2. Mail(u)' = m
        BY <4>1, <1>1
      <4> QED  BY <4>2, <2>7 DEF Deletable, Listed
    <3> QED  BY <3>1, <3>2, <3>3 DEF LinkerInv
  <2>10. ListInv'
    BY <1>0, <2>1, <2>6 DEF ListInv
  <2> QED  BY <2>9, <2>10
<1>5. CASE DelPrev(t, m, p)
  <2>1. /\ pc[t] = "del2" /\ prev' = [prev EXCEPT ![next[m]] = prev[m]]
        /\ unread' = Without(unread, m) /\ linker' = NULL /\ next' = next
    BY <1>5 DEF DelPrev
  <2>2. pc' \in [Thread -> Place] /\ pc'[t] = p
        /\ \A u \in Thread : u # t => pc'[u] = pc[u]
    BY <1>5, GotoPlace
    DEF DelPrev, Place, OwnAt, SenderIn, RecvAt, LightIn
  <2>3. linker = t /\ Deletable(m)
    BY <2>1 DEF LinkerInv, LinkAt
  <2>4. \A u \in Thread : pc'[u] \notin LinkAt
    BY <2>2, <2>3 DEF LinkerInv, LinkAt
  <2>5. LinkerInv'
    BY <2>1, <2>4, <1>2 DEF LinkerInv, LinkAt
  <2>6. CASE InList(unread, m)
    <3>1. next = [nx EXCEPT ![pv[m]] = nx[m]] /\ prev = pv
      BY <2>1, <2>3, <2>6, <1>0, <1>2 DEF Half
    <3>2. /\ Linked(unread', [nx EXCEPT ![pv[m]] = nx[m]],
                    [pv EXCEPT ![nx[m]] = pv[m]])
          /\ NoLoop([nx EXCEPT ![pv[m]] = nx[m]])
          /\ pv[m] # m
      <4>1. Distinct(unread)
        BY DEF ListInv
      <4>2. /\ Linked(Without(unread, m), [nx EXCEPT ![pv[m]] = nx[m]],
                      [pv EXCEPT ![nx[m]] = pv[m]])
            /\ NoLoop([nx EXCEPT ![pv[m]] = nx[m]])
            /\ pv[m] # m
        BY <4>1, <1>0, <2>6, DelLinks
      <4> QED  BY <4>2, <2>1
    <3>3. next[m] = nx[m]
      BY <3>1, <3>2, <1>2
    <3>4. Linked(unread', next', prev') /\ NoLoop(next')
      BY <3>1, <3>2, <3>3, <2>1
    <3>5. Distinct(unread')
      BY <2>1, <2>6, WithoutStops DEF ListInv
    <3>6. \A i \in 1..Len(unread') : src'[unread'[i]] # NULL
      <4>1. \A x : InList(unread', x) => InList(unread, x)
        BY <2>1, WithoutMembers DEF ListInv
      <4>2. \A i \in 1..Len(unread') : InList(unread', unread'[i])
        BY DEF InList
      <4>3. \A i \in 1..Len(unread') : InList(unread, unread'[i])
        BY <4>1, <4>2
      <4> QED  BY <4>3 DEF InList, ListInv
    <3>7. PICK n2 \in [Node -> Node \cup {NULL}], p2 \in [Node -> Node \cup {NULL}] :
            n2 = next' /\ p2 = prev'
      BY <1>5, DeleteTypes DEF Delete
    <3>8. Half(n2, p2)'
      BY <2>1, <3>7 DEF Half
    <3>9. ListInv'
      BY <3>4, <3>5, <3>6, <3>7, <3>8 DEF ListInv
    <3> QED  BY <3>9, <2>5
  <2>7. CASE ~InList(unread, m)
    <3>1. next = nx /\ prev = pv
      BY <2>1, <2>3, <2>7, <1>0, <1>2 DEF Half
    <3>2. prev' = prev /\ unread' = unread
      BY <2>1, <2>3, <2>7 DEF Deletable, Without
    <3>3. Half(nx, pv)'
      BY <3>1, <3>2, <2>1 DEF Half
    <3>4. ListInv'
      BY <3>2, <3>3, <1>0 DEF ListInv
    <3> QED  BY <3>4, <2>5
  <2> QED  BY <2>6, <2>7
<1> QED  BY <1>3, <1>4, <1>5 DEF Delete

\* The other parts of the invariant after a step of s inside an operation on its
\* mail, which adds nothing to the list
LEMMA SenderInside ==
  ASSUME Good, NEW s \in Sender, NEW p \in SenderIn, Goto(s, p), pc[s] \in SenderIn,
         UNCHANGED <<src, sgrt_lock, own, recv, open>>,
         next' \in [Node -> Node \cup {NULL}], prev' \in [Node -> Node \cup {NULL}],
         unread' \in Seq(Slot), linker' \in Thread \cup {NULL}, broken' \in BOOLEAN,
         \A x : InList(unread', x) => InList(unread, x),
         p \in OffList => ~InList(unread', own[s])
  PROVE  TypeInv' /\ (\A x \in Slot : Inside(x)') /\ OwnInv' /\ RecvInv'
<1> USE DEF Good
<1>1. /\ pc' \in [Thread -> Place] /\ pc'[s] = p /\ s # light /\ s \in Thread
      /\ \A u \in Thread : u # s => pc'[u] = pc[u]
  BY GotoPlace, Names DEF TypeInv, Place, OwnAt
<1>2. TypeInv'
  BY <1>1 DEF TypeInv
<1>3. \A x \in Slot : Inside(x)'
  BY <1>1, Names DEF Inside, TypeInv
<1>4. OwnInv'
  BY <1>1, Names DEF OwnInv, BoxInv, SenderIn, OwnAt
<1>5. RecvInv'
  BY <1>1, Names DEF RecvInv, BoxInv
<1> QED  BY <1>2, <1>3, <1>4, <1>5

\* list_head_add_tail up to its first two stores
LEMMA AddHalf ==
  ASSUME Good, NEW s \in Sender, AddRead(s) \/ AddNext(s)
  PROVE  TypeInv' /\ (\A x \in Slot : Inside(x)') /\ (~broken' => BoxInv')
<1> USE DEF Good
<1>0. PICK m \in Slot : m = own[s] /\ src[m] = s /\ ~InList(unread, m)
  BY DEF AddRead, AddNext, BoxInv, OwnInv, TypeInv, OwnAt, SenderIn, OffList
<1>1. PICK nx \in [Node -> Node \cup {NULL}], pv \in [Node -> Node \cup {NULL}] :
        Linked(unread, nx, pv) /\ NoLoop(nx) /\ Half(nx, pv)
  BY DEF BoxInv, ListInv
<1>2. s \in Thread /\ s # light /\ m \in Node /\ box \in Node /\ NULL \notin Thread
      /\ light \in Thread
  BY Names
<1>3. /\ unread' = unread /\ UNCHANGED <<src, sgrt_lock, own, recv, open>>
      /\ pc[s] \in {"add", "add1"}
  BY DEF AddRead, AddNext
<1>4. PICK p \in {"add1", "add2"} : Goto(s, p)
  BY DEF AddRead, AddNext
<1>5. /\ pc' \in [Thread -> Place] /\ pc'[s] = p
      /\ \A u \in Thread : u # s => pc'[u] = pc[u]
  BY <1>2, <1>4, GotoPlace DEF TypeInv, Place, OwnAt, SenderIn
<1>6. /\ next' \in [Node -> Node \cup {NULL}] /\ prev' \in [Node -> Node \cup {NULL}]
      /\ linker' \in Thread \cup {NULL}
  BY <1>0, <1>2 DEF AddRead, AddNext, TypeInv
<1>7. broken' \in BOOLEAN
  BY DEF AddRead, AddNext, TypeInv
<1>8. TypeInv' /\ (\A x \in Slot : Inside(x)') /\ OwnInv' /\ RecvInv'
  BY <1>0, <1>3, <1>4, <1>6, <1>7, SenderInside DEF SenderIn, TypeInv
<1>9. ASSUME ~broken' PROVE ListInv' /\ LinkerInv'
  <2>1. \A u : Mail(u)' = Mail(u)
    BY <1>3 DEF Mail
  <2>2. linker' = s /\ \A u \in Thread : u # s => pc[u] \notin LinkAt
    BY <1>2, <1>9 DEF AddRead, AddNext, BoxInv, LinkerInv, LinkAt, TypeInv
  <2>3. LinkerInv'
    BY <2>2, <1>2, <1>5 DEF LinkerInv, LinkAt
  <2>4. next = nx /\ prev = pv
    BY <2>2, <1>1, <1>2, <1>9 DEF AddRead, AddNext, Half, BoxInv, LinkerInv, LinkAt
  <2>5. CASE AddRead(s)
    <3>1. UNCHANGED <<next, prev>> /\ pc'[s] = "add1"
      BY <2>5, <1>2 DEF AddRead, Goto, TypeInv
    <3>2. Half(nx, pv)'
      BY <3>1, <2>2, <2>4, <1>2 DEF Half
    <3> QED  BY <3>2, <2>3, <1>1, <1>3 DEF BoxInv, ListInv
  <2>6. CASE AddNext(s)
    <3>1. /\ pc'[s] = "add2" /\ next' = [nx EXCEPT ![pv[box]] = m]
          /\ prev' = [pv EXCEPT ![m] = pv[box]]
      BY <2>4, <2>6, <1>0, <1>2 DEF AddNext, Goto, TypeInv
    <3>2. Mail(s)' = m
      BY <1>0, <1>2, <1>3 DEF Mail
    <3>3. Half(nx, pv)'
      BY <3>1, <3>2, <2>2, <1>2 DEF Half
    <3> QED  BY <3>3, <2>3, <1>1, <1>3 DEF BoxInv, ListInv
  <2>7. ListInv'
    BY <2>5, <2>6
  <2> QED  BY <2>3, <2>7
<1> QED  BY <1>8, <1>9 DEF BoxInv

\* mail_create clears the links of a piece of memory that is on no list, and
\* that no list operation under way touches.
LEMMA FreshKeeps ==
  ASSUME Good, NEW s \in Sender, NEW m \in Slot, src[m] = NULL, pc[s] = "create",
         src'[m] # NULL, \A x \in Slot : x # m => src'[x] = src[x],
         next' = [next EXCEPT ![m] = NULL], prev' = [prev EXCEPT ![m] = NULL],
         UNCHANGED <<unread, linker, recv>>, pc'[s] = "send",
         \A u \in Thread : u # s => pc'[u] = pc[u],
         \A u \in Sender : u # s => own'[u] = own[u]
  PROVE  ListInv' /\ LinkerInv'
<1> USE DEF Good
<1>0. PICK nx \in [Node -> Node \cup {NULL}], pv \in [Node -> Node \cup {NULL}] :
        Linked(unread, nx, pv) /\ NoLoop(nx) /\ Half(nx, pv)
  BY DEF BoxInv, ListInv
<1>1. /\ \A i \in 1..Len(unread) : unread[i] \in Slot /\ unread[i] # m
      /\ \A x : InList(unread, x) => x # m
  BY DEF BoxInv, ListInv, TypeInv, InList
<1>2. \A t \in Thread : t # s => Mail(t)' = Mail(t) /\ pc'[t] = pc[t]
  BY Names DEF Mail, Thread
<1>3. s \in Thread /\ pc[s] \notin LinkAt /\ pc'[s] \notin LinkAt
  BY Names DEF LinkAt
<1>4. ASSUME NEW t \in Thread, pc[t] \in LinkAt
      PROVE  Mail(t) \in Slot /\ Mail(t) # m
  <2>1. CASE t = light
    <3>1. pc[t] \in {"del1", "del2"}
      BY <1>4, <2>1 DEF BoxInv, LinkerInv, LinkAt
    <3> QED  BY <3>1, <2>1 DEF BoxInv, RecvInv, RecvAt, LightIn, Mail
  <2>2. CASE t # light
    <3>1. t \in Sender /\ Mail(t) = own[t] /\ t # NULL
      BY <2>2, Names DEF Thread, Mail
    <3>2. pc[t] \in OwnAt /\ pc[t] # "create"
      BY <1>4 DEF LinkAt, OwnAt, SenderIn
    <3> QED  BY <3>1, <3>2 DEF BoxInv, OwnInv, TypeInv
  <2> QED  BY <2>1, <2>2
<1>5. \A x \in Node : x # m => next'[x] = next[x] /\ prev'[x] = prev[x]
  BY DEF TypeInv
<1>6. ASSUME NEW t \in Thread, pc[t] \in {"del1", "del2"}
      PROVE  Deletable(Mail(t))'
  <2>1. PICK d \in Slot : d = Mail(t) /\ d # m /\ t # s
    BY <1>3, <1>4, <1>6 DEF LinkAt
  <2>2. Deletable(d)
    BY <1>6, <2>1 DEF BoxInv, LinkerInv
  <2>3. Mail(t)' = d
    BY <2>1, <1>2
  <2>4. CASE InList(unread, d)
    BY <2>3, <2>4 DEF Deletable
  <2>5. CASE ~InList(unread, d)
    <3>1. /\ Listed(prev[d]) /\ Listed(next[d])
          /\ next[prev[d]] = next[d] /\ prev[next[d]] = prev[d]
      BY <2>2, <2>5 DEF Deletable
    <3>2. \A x : Listed(x) => x \in Node /\ x # m
      BY <1>1, Names DEF Listed, InList
    <3>3. next'[d] = next[d] /\ prev'[d] = prev[d]
      BY <2>1, <1>5, Names
    <3>4. next'[prev[d]] = next[prev[d]] /\ prev'[next[d]] = prev[next[d]]
      BY <3>1, <3>2, <1>5
    <3> QED  BY <2>3, <3>1, <3>3, <3>4 DEF Deletable, Listed
  <2> QED  BY <2>4, <2>5
<1>7. LinkerInv'
  <2>1. \A t \in Thread : pc'[t] \in LinkAt <=> linker' = t
    BY <1>2, <1>3 DEF BoxInv, LinkerInv
  <2>2. pc'[light] \notin {"add1", "add2"}
    BY <1>2, <1>3, Names DEF BoxInv, LinkerInv
  <2>3. ASSUME NEW t \in Thread, pc'[t] \in {"del1", "del2"}
        PROVE  Deletable(Mail(t))'
    <3>1. pc[t] \in {"del1", "del2"}
      BY <1>2, <1>3, <2>3 DEF LinkAt
    <3> QED  BY <3>1, <1>6
  <2> QED  BY <2>1, <2>2, <2>3 DEF LinkerInv
<1> DEFINE n2 == [nx EXCEPT ![m] = NULL]
           p2 == [pv EXCEPT ![m] = NULL]
<1>8. \A i \in Int : Stop(unread, i) \in Node /\ Stop(unread, i) # m
  BY <1>1, Names DEF Stop
<1>9. Linked(unread, n2, p2)
  BY <1>0, <1>8 DEF Linked
<1>10. NoLoop(n2)
  BY <1>0, Names DEF NoLoop
<1>11. Half(n2, p2)'
  <2>1. CASE linker = NULL
    BY <2>1, <1>0 DEF Half
  <2>2. CASE linker # NULL
    <3>1. linker \in Thread /\ pc[linker] \in LinkAt /\ linker # s
      BY <2>2, <1>3 DEF TypeInv, BoxInv, LinkerInv
    <3>2. PICK d \in Slot : d = Mail(linker) /\ d # m
      BY <3>1, <1>4
    <3>3. Mail(linker)' = d /\ pc'[linker] = pc[linker] /\ d \in Node /\ m \in Node
          /\ box \in Node /\ m # box
      BY <3>1, <3>2, <1>2, Names
    <3>4. CASE pc[linker] = "del2" /\ InList(unread, d)
      <4>1. next = [nx EXCEPT ![pv[d]] = nx[d]] /\ prev = pv
        BY <3>2, <3>4, <2>2, <1>0 DEF Half
      <4>2. PICK k \in 1..Len(unread) : unread[k] = d
        BY <3>4 DEF InList
      <4>3. k - 1 \in 0..Len(unread) /\ Stop(unread, (k - 1) + 1) = d /\ k - 1 \in Int
        BY <4>2 DEF Stop
      <4>4. pv[d] # m
        BY <4>3, <1>0, <1>8 DEF Linked
      <4>5. p2[d] = pv[d] /\ n2[d] = nx[d]
        BY <3>2, <3>3
      <4>6. next' = [n2 EXCEPT ![p2[d]] = n2[d]]
        BY <4>1, <4>4, <4>5, <3>3
      <4> QED  BY <4>1, <4>6, <3>3, <3>4, <2>2 DEF Half
    <3>5. CASE pc[linker] = "add2"
      <4>1. /\ next = [nx EXCEPT ![pv[box]] = d]
            /\ prev = [pv EXCEPT ![d] = pv[box]]
        BY <3>2, <3>5, <2>2, <1>0 DEF Half
      <4>2. Stop(unread, Len(unread) + 1) = box /\ Len(unread) \in 0..Len(unread)
            /\ Len(unread) \in Int
        BY DEF Stop, TypeInv
      <4>3. pv[box] # m
        BY <4>2, <1>0, <1>8 DEF Linked
      <4>4. p2[box] = pv[box]
        BY <3>3
      <4>5. next' = [n2 EXCEPT ![p2[box]] = d] /\ prev' = [p2 EXCEPT ![d] = p2[box]]
        BY <4>1, <4>3, <4>4, <3>2, <3>3
      <4> QED  BY <4>5, <3>3, <3>5, <2>2 DEF Half
    <3>6. CASE pc[linker] # "add2" /\ ~(pc[linker] = "del2" /\ InList(unread, d))
      <4>1. next = nx /\ prev = pv
        BY <3>2, <3>6, <2>2, <1>0 DEF Half
      <4> QED  BY <4>1, <3>3, <3>6, <2>2 DEF Half
    <3> QED  BY <3>4, <3>5, <3>6
  <2> QED  BY <2>1, <2>2
<1>12. ListInv'
  <2>1. n2 \in [Node -> Node \cup {NULL}] /\ p2 \in [Node -> Node \cup {NULL}]
    OBVIOUS
  <2> HIDE DEF n2, p2
  <2>2. \A i \in 1..Len(unread') : src'[unread'[i]] # NULL
    BY <1>1 DEF BoxInv, ListInv
  <2> QED  BY <2>1, <2>2, <1>9, <1>10, <1>11 DEF BoxInv, ListInv
<1> QED  BY <1>7, <1>12

\* mail_destroy, mail_create and mail_send by the sender s
LEMMA SenderKeeps ==
  ASSUME Good, NEW s \in Sender, Press(s) \/ SendStep(s)
  PROVE  TypeInv' /\ (\A m \in Slot : Inside(m)') /\ (~broken' => BoxInv')
<1> USE DEF Good
<1>0. s \in Thread /\ s # light /\ pc \in [Thread -> Place]
  BY Names DEF TypeInv
<1>1. CASE Press(s)
  <2>1. PICK p \in {"create", "destroy"} :
          p = IF own[s] = NULL THEN "create" ELSE "destroy"
    OBVIOUS
  <2> QED  BY <1>1, <2>1, SenderMoves
    DEF Press, lvars, Place, SenderIn, OwnAt, LinkAt, OffList
<1>2. CASE DestroyLock(s)
  <2>1. own[s] \in Slot
    BY <1>2 DEF DestroyLock, BoxInv, OwnInv, TypeInv, OwnAt
  <2> QED
    BY <1>2, <2>1, Names, SenderMoves
    DEF DestroyLock, Lock, lvars, Place, SenderIn, OwnAt, LinkAt, OffList
<1>3. CASE SendLock(s)
  <2>1. own[s] \in Slot /\ ~InList(unread, own[s])
    BY <1>3 DEF SendLock, BoxInv, OwnInv, TypeInv, OwnAt, OffList
  <2> QED
    BY <1>3, <2>1, Names, SenderMoves
    DEF SendLock, Lock, lvars, Place, SenderIn, OwnAt, LinkAt, OffList
<1>4. CASE DestroyDelete(s)
  <2>1. pc[s] \in {"delete", "del1", "del2"}
    BY <1>4 DEF DestroyDelete, Delete, DelRead, DelNext, DelPrev
  <2>2. PICK m \in Slot : m = own[s] /\ src[m] = s
    BY <2>1 DEF BoxInv, OwnInv, TypeInv, OwnAt, SenderIn
  <2>3. Delete(s, m, "free") /\ UNCHANGED <<src, sgrt_lock, own, recv, open>>
    BY <1>4, <2>2 DEF DestroyDelete
  <2>4. PICK p \in {"del1", "del2", "free"} :
          Goto(s, p) /\ (p = "free" => DelPrev(s, m, "free"))
    BY <2>3 DEF Delete, DelRead, DelNext, DelPrev
  <2>5. /\ next' \in [Node -> Node \cup {NULL}]
        /\ prev' \in [Node -> Node \cup {NULL}]
        /\ unread' \in Seq(Slot) /\ linker' \in Thread \cup {NULL}
        /\ broken' \in BOOLEAN
        /\ \A x : InList(unread', x) => InList(unread, x)
        /\ p = "free" => ~InList(unread', m)
    BY <2>3, <2>4, <1>0, DeleteTypes DEF BoxInv
  <2>6. TypeInv' /\ (\A x \in Slot : Inside(x)') /\ OwnInv' /\ RecvInv'
    BY <2>1, <2>2, <2>3, <2>4, <2>5, SenderInside DEF SenderIn, OffList
  <2>7. m = Mail(s)
    BY <2>2, <1>0 DEF Mail
  <2>8. ~broken' => ListInv' /\ LinkerInv'
    BY <2>3, <2>7, <1>0, DeleteKeeps DEF BoxInv
  <2> QED  BY <2>6, <2>8 DEF BoxInv
<1>5. CASE kfree(s)
  <2>1. PICK m \in Slot : m = own[s] /\ src[m] = s /\ ~InList(unread, m)
    BY <1>5 DEF kfree, BoxInv, OwnInv, TypeInv, OwnAt, SenderIn, OffList
  <2>2. /\ src' = [src EXCEPT ![m] = NULL] /\ broken' = (recv = m)
        /\ Goto(s, "create") /\ pc[s] = "free"
        /\ UNCHANGED <<next, prev, linker, sgrt_lock, own, recv, open, unread>>
    BY <1>5, <2>1 DEF kfree, lvars
  <2>3. /\ src'[m] = NULL /\ \A x \in Slot : x # m => src'[x] = src[x]
    BY <2>2 DEF TypeInv
  <2>4. /\ pc' \in [Thread -> Place] /\ pc'[s] = "create"
        /\ \A u \in Thread : u # s => pc'[u] = pc[u]
    BY <2>2, <1>0, GotoPlace DEF Place
  <2>5. TypeInv'
    <3>1. broken' \in BOOLEAN
      BY <2>2
    <3> QED  BY <3>1, <2>2, <2>4 DEF TypeInv
  <2>6. \A x \in Slot : Inside(x)'
    <3> SUFFICES ASSUME NEW x \in Slot, src'[x] # NULL, sgrt_lock[x] # NULL
                 PROVE  Inside(x)'
      BY <2>2 DEF Inside
    <3>1. x # m /\ src[x] # NULL
      BY <2>3
    <3>2. sgrt_lock[x] # s
      BY <3>1, <2>1, <1>0 DEF Inside
    <3> QED  BY <3>1, <3>2, <2>2, <2>4, <1>0, Names DEF Inside
  <2>7. ListInv' /\ LinkerInv'
    <3>1. \A i \in 1..Len(unread) : unread[i] \in Slot /\ unread[i] # m
      BY <2>1 DEF InList, TypeInv
    <3>2. \A i \in 1..Len(unread) : src'[unread[i]] = src[unread[i]]
      BY <3>1, <2>3
    <3>3. \A t : Mail(t)' = Mail(t)
      BY <2>2 DEF Mail
    <3>4. pc[s] \notin LinkAt /\ pc'[s] \notin LinkAt
      BY <2>2, <2>4 DEF LinkAt
    <3> QED  BY <3>2, <3>3, <3>4, <2>2, <2>4, ListStays DEF BoxInv
  <2>8. OwnInv'
    <3>1. \A u \in Sender : u # s /\ pc[u] # "create" /\ own[u] # NULL => own[u] # m
      BY <2>1 DEF OwnInv, BoxInv
    <3>2. \A u \in Sender : own[u] # NULL => own[u] \in Slot
      BY DEF TypeInv
    <3> QED  BY <3>1, <3>2, <2>2, <2>3, <2>4, Names
      DEF OwnInv, BoxInv, OwnAt, SenderIn, OffList
  <2>9. ~broken' => RecvInv'
    BY <2>2, <2>3, <2>4, <1>0, Names DEF RecvInv, BoxInv
  <2> QED  BY <2>5, <2>6, <2>7, <2>8, <2>9 DEF BoxInv
<1>6. CASE mail_create(s)
  <2>1. pc[s] = "create" /\ UNCHANGED <<recv, open, unread, broken>>
    BY <1>6 DEF mail_create
  <2>2. ASSUME NEW m \in Slot, src[m] = NULL, src' = [src EXCEPT ![m] = s],
               next' = [next EXCEPT ![m] = NULL], prev' = [prev EXCEPT ![m] = NULL],
               Unlock(m), own' = [own EXCEPT ![s] = m], linker' = linker,
               Goto(s, "send")
        PROVE  TypeInv' /\ (\A x \in Slot : Inside(x)') /\ BoxInv'
    <3>1. /\ pc' \in [Thread -> Place] /\ pc'[s] = "send"
          /\ \A u \in Thread : u # s => pc'[u] = pc[u]
      BY <2>2, <1>0, GotoPlace DEF Place, OwnAt
    <3>2. /\ src'[m] = s /\ \A x \in Slot : x # m => src'[x] = src[x]
          /\ own'[s] = m /\ \A u \in Sender : u # s => own'[u] = own[u]
          /\ sgrt_lock'[m] = NULL
          /\ \A x \in Slot : x # m => sgrt_lock'[x] = sgrt_lock[x]
      BY <2>2 DEF TypeInv, Unlock
    <3>3. TypeInv'
      BY <2>1, <2>2, <3>1 DEF TypeInv, Unlock
    <3>4. \A x \in Slot : Inside(x)'
      <4> SUFFICES ASSUME NEW x \in Slot, x # m, src[x] # NULL, sgrt_lock[x] # NULL
                   PROVE  Inside(x)'
        BY <3>2 DEF Inside
      <4>1. sgrt_lock[x] # s
        BY <2>1, <1>0 DEF Inside, SenderIn
      <4> QED  BY <4>1, <2>1, <3>1, <3>2, <1>0, Names DEF Inside
    <3>5. \A i \in 1..Len(unread) : unread[i] \in Slot /\ unread[i] # m
      BY <2>2 DEF BoxInv, ListInv, TypeInv
    <3>6. ListInv' /\ LinkerInv'
      <4>1. src'[m] # NULL
        BY <3>2, <1>0, Names
      <4> QED  BY <4>1, <2>1, <2>2, <3>1, <3>2, FreshKeeps
    <3>7. ~InList(unread, m)
      BY <3>5 DEF InList
    <3>8. OwnInv'
      <4> SUFFICES ASSUME NEW u \in Sender
          PROVE  /\ pc'[u] \in OwnAt => own'[u] # NULL
                 /\ pc'[u] # "create" /\ own'[u] # NULL => src'[own'[u]] = u
                 /\ pc'[u] \in OffList => ~InList(unread', own'[u])
        BY DEF OwnInv
      <4>1. CASE u = s
        BY <4>1, <2>1, <3>1, <3>2, <3>7, Names
      <4>2. CASE u # s
        <5>1. pc[u] # "create" /\ own[u] # NULL => own[u] \in Slot /\ own[u] # m
          BY <2>2, Names DEF BoxInv, OwnInv, TypeInv
        <5> QED
          BY <5>1, <4>2, <2>1, <3>1, <3>2, Names
          DEF BoxInv, OwnInv, OwnAt, SenderIn, OffList
      <4> QED  BY <4>1, <4>2
    <3>9. RecvInv'
      BY <2>1, <3>1, <3>2, <1>0, Names DEF RecvInv, BoxInv
    <3> QED  BY <3>3, <3>4, <3>6, <3>8, <3>9 DEF BoxInv
  <2>3. ASSUME own' = [own EXCEPT ![s] = NULL], Goto(s, "user"),
               UNCHANGED <<lvars, src, sgrt_lock>>
        PROVE  TypeInv' /\ (\A x \in Slot : Inside(x)') /\ BoxInv'
    <3>1. /\ pc' \in [Thread -> Place] /\ pc'[s] = "user"
          /\ \A u \in Thread : u # s => pc'[u] = pc[u]
      BY <2>3, <1>0, GotoPlace DEF Place
    <3>2. /\ own'[s] = NULL /\ \A u \in Sender : u # s => own'[u] = own[u]
          /\ UNCHANGED <<next, prev, linker, src, sgrt_lock>>
      BY <2>3 DEF TypeInv, lvars
    <3>3. TypeInv'
      BY <2>1, <2>3, <3>1, <3>2 DEF TypeInv
    <3>4. \A x \in Slot : Inside(x)'
      BY <2>1, <3>1, <3>2, <1>0, Names DEF Inside, SenderIn, TypeInv
    <3>5. ListInv' /\ LinkerInv'
      <4>1. \A t \in Thread : t # s => Mail(t)' = Mail(t)
        BY <2>1, <3>2, Names DEF Mail, Thread
      <4>2. pc[s] \notin LinkAt /\ pc'[s] \notin LinkAt
        BY <2>1, <3>1 DEF LinkAt
      <4> QED  BY <2>1, <3>1, <3>2, <4>1, <4>2, ListStays DEF BoxInv
    <3>6. OwnInv'
      BY <2>1, <3>1, <3>2, Names DEF BoxInv, OwnInv, OwnAt, SenderIn, OffList
    <3>7. RecvInv'
      BY <2>1, <3>1, <3>2, <1>0, Names DEF RecvInv, BoxInv
    <3> QED  BY <3>3, <3>4, <3>5, <3>6, <3>7 DEF BoxInv
  <2> QED  BY <1>6, <2>2, <2>3 DEF mail_create
<1>7. CASE AddRead(s) \/ AddNext(s)
  BY <1>7, AddHalf
<1>8. CASE AddPrev(s)
  <2>1. PICK m \in Slot : m = own[s] /\ src[m] = s /\ ~InList(unread, m)
    BY <1>8 DEF AddPrev, BoxInv, OwnInv, TypeInv, OwnAt, SenderIn, OffList
  <2>2. /\ next' = [next EXCEPT ![m] = box] /\ prev' = [prev EXCEPT ![box] = m]
        /\ unread' = Append(unread, m) /\ linker' = NULL
        /\ Unlock(m) /\ Goto(s, "user") /\ pc[s] = "add2"
        /\ UNCHANGED <<src, own, recv, open, broken>>
    BY <1>8, <2>1 DEF AddPrev
  <2>0. PICK nx \in [Node -> Node \cup {NULL}], pv \in [Node -> Node \cup {NULL}] :
          Linked(unread, nx, pv) /\ NoLoop(nx) /\ Half(nx, pv)
    BY DEF BoxInv, ListInv
  <2>00. linker = s /\ Mail(s) = m /\ s # NULL
    BY <2>1, <2>2, <1>0, Names DEF BoxInv, LinkerInv, LinkAt, Mail
  <2>000. /\ next = [nx EXCEPT ![pv[box]] = m]
          /\ prev = [pv EXCEPT ![m] = pv[box]]
    BY <2>0, <2>00, <2>2 DEF Half
  <2>0000. /\ next' = [nx EXCEPT ![pv[box]] = m, ![m] = box]
           /\ prev' = [pv EXCEPT ![m] = pv[box], ![box] = m]
    BY <2>000, <2>2
  <2>3. /\ unread' \in Seq(Slot) /\ Distinct(unread')
        /\ \A x : InList(unread', x) => InList(unread, x) \/ x = m
        /\ Linked(unread', next', prev') /\ NoLoop(next')
    <3>1. Distinct(unread) /\ unread \in Seq(Slot)
      BY DEF BoxInv, ListInv, TypeInv
    <3>2. /\ Append(unread, m) \in Seq(Slot) /\ Distinct(Append(unread, m))
          /\ \A x : InList(Append(unread, m), x) => InList(unread, x) \/ x = m
          /\ Linked(Append(unread, m), [nx EXCEPT ![pv[box]] = m, ![m] = box],
                    [pv EXCEPT ![m] = pv[box], ![box] = m])
          /\ NoLoop([nx EXCEPT ![pv[box]] = m, ![m] = box])
      BY <3>1, <2>0, <2>1, AddLinks
    <3> QED  BY <3>2, <2>0000, <2>2
  <2>4. /\ pc' \in [Thread -> Place] /\ pc'[s] = "user"
        /\ \A u \in Thread : u # s => pc'[u] = pc[u]
    BY <2>2, <1>0, GotoPlace DEF Place
  <2>5. /\ sgrt_lock'[m] = NULL
        /\ \A x \in Slot : x # m => sgrt_lock'[x] = sgrt_lock[x]
    BY <2>2 DEF Unlock, TypeInv
  <2>6. TypeInv'
    <3>1. prev[box] \in Node \cup {NULL} /\ m \in Node /\ box \in Node
      BY Names DEF TypeInv
    <3>2. /\ next' \in [Node -> Node \cup {NULL}]
          /\ prev' \in [Node -> Node \cup {NULL}]
      BY <3>1, <2>2 DEF TypeInv
    <3> QED  BY <3>2, <2>2, <2>3, <2>4 DEF TypeInv, Unlock
  <2>7. \A x \in Slot : Inside(x)'
    <3> SUFFICES ASSUME NEW x \in Slot, x # m, src[x] # NULL, sgrt_lock[x] # NULL
                 PROVE  Inside(x)'
      BY <2>2, <2>5 DEF Inside
    <3>1. sgrt_lock[x] # s
      BY <2>1, <1>0 DEF Inside
    <3> QED  BY <3>1, <2>2, <2>4, <2>5, <1>0, Names DEF Inside
  <2>8. ListInv'
    <3>1. \A i \in 1..Len(unread') : InList(unread', unread'[i])
      BY DEF InList
    <3>2. \A x : InList(unread, x) => src[x] # NULL
      BY DEF InList, BoxInv, ListInv
    <3>3. \A i \in 1..Len(unread') : src'[unread'[i]] # NULL
      BY <3>1, <3>2, <2>1, <2>2, <2>3, Names
    <3>4. PICK n2 \in [Node -> Node \cup {NULL}], p2 \in [Node -> Node \cup {NULL}] :
            n2 = next' /\ p2 = prev'
      BY <2>6 DEF TypeInv
    <3>5. Half(n2, p2)'
      BY <3>4, <2>2 DEF Half
    <3> QED  BY <3>3, <3>4, <3>5, <2>3 DEF ListInv
  <2>80. LinkerInv'
    <3>1. \A t \in Thread : pc'[t] \notin LinkAt
      BY <2>00, <2>4 DEF BoxInv, LinkerInv, LinkAt
    <3> QED  BY <3>1, <2>2, Names DEF LinkerInv, LinkAt
  <2>9. OwnInv'
    <3> SUFFICES ASSUME NEW u \in Sender
        PROVE  /\ pc'[u] \in OwnAt => own'[u] # NULL
               /\ pc'[u] # "create" /\ own'[u] # NULL => src'[own'[u]] = u
               /\ pc'[u] \in OffList => ~InList(unread', own'[u])
      BY DEF OwnInv
    <3>1. CASE u = s
      BY <3>1, <2>1, <2>2, <2>4 DEF OwnAt, SenderIn, OffList
    <3>2. CASE u # s
      <4>1. pc[u] \in OffList => own[u] # m
        BY <3>2, <2>1, Names DEF BoxInv, OwnInv, OwnAt, SenderIn, OffList
      <4> QED  BY <4>1, <3>2, <2>2, <2>3, <2>4, Names DEF BoxInv, OwnInv
    <3> QED  BY <3>1, <3>2
  <2>10. RecvInv'
    BY <2>2, <2>4, <1>0, Names DEF RecvInv, BoxInv
  <2> QED  BY <2>6, <2>7, <2>8, <2>80, <2>9, <2>10 DEF BoxInv
<1> QED
  BY <1>1, <1>2, <1>3, <1>4, <1>5, <1>6, <1>7, <1>8 DEF SendStep

\* A step of the receiver that leaves the list and the mails alone
LEMMA LightMoves ==
  ASSUME Good, NEW p \in Place, Goto(light, p),
         UNCHANGED <<next, prev, linker, src, own, unread>>, open' \in BOOLEAN,
         pc[light] \notin LinkAt, p \notin LinkAt,
         broken' \in BOOLEAN,
         sgrt_lock' \in [Slot -> Thread \cup {NULL}], recv' \in Node \cup {NULL},
         \A m \in Slot : sgrt_lock'[m] # light => sgrt_lock'[m] \in {sgrt_lock[m], NULL},
         \A m \in Slot : src[m] # NULL /\ sgrt_lock'[m] = light => recv' = m /\ p \in LightIn,
         ~broken' =>
           /\ recv' # NULL => recv' \in Slot /\ src[recv'] # NULL
           /\ p \in RecvAt => recv' # NULL
  PROVE  TypeInv' /\ (\A m \in Slot : Inside(m)') /\ (~broken' => BoxInv')
<1> USE DEF Good
<1>1. /\ pc' \in [Thread -> Place] /\ pc'[light] = p
      /\ \A u \in Thread : u # light => pc'[u] = pc[u]
  BY GotoPlace, Names DEF TypeInv
<1>2. TypeInv'
  BY <1>1 DEF TypeInv
<1>3. \A m \in Slot : Inside(m)'
  <2> SUFFICES ASSUME NEW m \in Slot, src[m] # NULL, sgrt_lock'[m] # NULL
               PROVE  Inside(m)'
    BY DEF Inside
  <2>1. CASE sgrt_lock'[m] = light
    BY <2>1, <1>1 DEF Inside
  <2>2. CASE sgrt_lock'[m] # light
    <3>1. sgrt_lock'[m] = sgrt_lock[m] /\ sgrt_lock[m] # NULL
      BY <2>2
    <3> QED  BY <3>1, <2>2, <1>1, Names DEF Inside
  <2> QED  BY <2>1, <2>2
<1>4. ListInv' /\ LinkerInv'
  <2>1. \A t \in Thread : t # light => Mail(t)' = Mail(t)
    BY DEF Mail
  <2> QED  BY <1>1, <2>1, ListStays DEF BoxInv
<1>5. OwnInv'
  BY <1>1, Names DEF OwnInv, BoxInv
<1>6. ~broken' => RecvInv'
  BY <1>1 DEF RecvInv
<1> QED  BY <1>2, <1>3, <1>4, <1>5, <1>6 DEF BoxInv

\* The receiver runs while no sender is inside a list operation.
LEMMA NobodyLinks ==
  ASSUME Good, \A s \in Sender : Waits(s), pc[light] \notin LinkAt
  PROVE  Linked(unread, next, prev) /\ NoLoop(next)
<1>1. linker = NULL
  BY DEF Good, TypeInv, BoxInv, LinkerInv, Waits, LinkAt, Thread
<1> QED  BY <1>1 DEF Good, BoxInv, ListInv, Half

\* mailbox_init and mail_recv
LEMMA LightKeeps ==
  ASSUME Good, ~broken, mailbox_init \/ RecvStep, \A s \in Sender : Waits(s)
  PROVE  TypeInv' /\ (\A m \in Slot : Inside(m)') /\ (~broken' => BoxInv')
<1> USE DEF Good
<1>0. /\ light \in Thread /\ pc \in [Thread -> Place]
      /\ sgrt_lock \in [Slot -> Thread \cup {NULL}]
      /\ recv \in Node \cup {NULL} /\ next \in [Node -> Node \cup {NULL}]
      /\ open \in BOOLEAN /\ broken \in BOOLEAN
  BY Names DEF TypeInv
<1>1. pc[light] \notin LightIn => \A m \in Slot : src[m] # NULL => sgrt_lock[m] # light
  BY Names DEF Inside
<1>2. CASE mailbox_init
  <2>1. /\ open' = TRUE
        /\ UNCHANGED <<next, prev, linker, src, sgrt_lock, own, recv, pc, unread, broken>>
    BY <1>2 DEF mailbox_init, lvars
  <2>2. TypeInv' /\ \A m \in Slot : Inside(m)'
    BY <2>1 DEF TypeInv, Inside
  <2>3. ListInv' /\ LinkerInv'
    <3>1. \A t : Mail(t)' = Mail(t)
      BY <2>1 DEF Mail
    <3> QED  BY <2>1, <3>1, ListStays DEF BoxInv
  <2> QED  BY <2>1, <2>2, <2>3 DEF BoxInv, OwnInv, RecvInv
<1>3. CASE Poll
  <2>1. /\ Goto(light, "fetch") /\ pc[light] = "user"
        /\ UNCHANGED <<next, prev, linker, src, sgrt_lock, own, recv, open, unread, broken>>
    BY <1>3 DEF Poll, lvars
  <2>2. \A m \in Slot : src[m] # NULL => sgrt_lock'[m] # light
    BY <2>1, <1>1 DEF LightIn
  <2> QED  BY <2>1, <2>2, <1>0, LightMoves
           DEF Place, BoxInv, RecvInv, LinkAt, RecvAt, LightIn
<1>4. CASE Fetch
  <2>1. /\ Goto(light, "lock") /\ pc[light] = "fetch" /\ recv' = next[box]
        /\ broken' = (next[box] = box)
        /\ UNCHANGED <<next, prev, linker, src, sgrt_lock, own, open, unread>>
    BY <1>4 DEF Fetch, lvars
  <2>2. \A m \in Slot : src[m] # NULL => sgrt_lock'[m] # light
    BY <2>1, <1>1 DEF LightIn
  <2>3. next[box] = Stop(unread, 1)
    <3>1. 0 \in 0..Len(unread) /\ Stop(unread, 0) = box
      BY DEF Stop, TypeInv
    <3>2. Linked(unread, next, prev)
      BY <2>1, NobodyLinks DEF LinkAt
    <3> QED  BY <3>1, <3>2 DEF Linked
  <2>4. next[box] # box => next[box] \in Slot /\ src[next[box]] # NULL
    BY <2>3 DEF Stop, TypeInv, BoxInv, ListInv
  <2> QED  BY <2>1, <2>2, <2>4, <1>0, Names, LightMoves
           DEF Place, LinkAt, RecvAt
<1>5. CASE RecvLock
  <2>1. PICK m \in Slot : m = recv /\ src[m] # NULL
    BY <1>5 DEF RecvLock, BoxInv, RecvInv, RecvAt
  <2>2. ~Empty(recv)
    BY <1>5, <2>1, NobodyLinks DEF RecvLock, LinkAt, Empty, NoLoop
  <2>3. /\ sgrt_lock' = [sgrt_lock EXCEPT ![m] = light] /\ Goto(light, "copy")
        /\ recv' = recv /\ pc[light] = "lock"
        /\ UNCHANGED <<next, prev, linker, src, own, open, unread, broken>>
    BY <1>5, <2>1, <2>2 DEF RecvLock, Lock, lvars
  <2>4. /\ sgrt_lock'[m] = light
        /\ \A x \in Slot : x # m => sgrt_lock'[x] = sgrt_lock[x]
        /\ sgrt_lock' \in [Slot -> Thread \cup {NULL}]
    BY <2>3, <1>0
  <2>5. \A x \in Slot : src[x] # NULL => sgrt_lock[x] # light
    BY <2>3, <1>1 DEF LightIn
  <2> QED
    BY <2>1, <2>3, <2>4, <2>5, <1>0, Names, LightMoves
    DEF Place, LightIn, LinkAt, RecvAt
<1>6. CASE Copy \/ RecvUnlock
  <2>1. PICK m \in Slot : m = recv /\ src[m] # NULL
    BY <1>6 DEF Copy, RecvUnlock, BoxInv, RecvInv, RecvAt, LightIn
  <2>2. /\ sgrt_lock' = [sgrt_lock EXCEPT ![m] = NULL]
        /\ UNCHANGED <<next, prev, linker, src, own, open, unread, broken>>
    BY <1>6, <2>1 DEF Copy, RecvUnlock, Unlock, lvars
  <2>3. /\ sgrt_lock'[m] = NULL
        /\ \A x \in Slot : x # m => sgrt_lock'[x] = sgrt_lock[x]
        /\ sgrt_lock' \in [Slot -> Thread \cup {NULL}]
    BY <2>2, <1>0
  <2>4. \A x \in Slot : src[x] # NULL => sgrt_lock'[x] # light
    BY <2>1, <2>3, Names DEF Inside
  <2>5. CASE Copy
    BY <2>1, <2>2, <2>3, <2>4, <2>5, <1>0, LightMoves, Names
    DEF Copy, Place, RecvAt, LinkAt
  <2>6. CASE RecvUnlock
    BY <2>1, <2>2, <2>3, <2>4, <2>6, <1>0, LightMoves
    DEF RecvUnlock, Place, RecvAt, LightIn, LinkAt
  <2> QED  BY <1>6, <2>5, <2>6
<1>7. CASE Relock
  <2>1. PICK m \in Slot : m = recv /\ src[m] # NULL
    BY <1>7 DEF Relock, BoxInv, RecvInv, RecvAt
  <2>2. /\ sgrt_lock' = [sgrt_lock EXCEPT ![m] = light] /\ Goto(light, "delete")
        /\ recv' = recv /\ pc[light] = "relock"
        /\ UNCHANGED <<next, prev, linker, src, own, open, unread, broken>>
    BY <1>7, <2>1 DEF Relock, Lock, lvars
  <2>3. /\ sgrt_lock'[m] = light
        /\ \A x \in Slot : x # m => sgrt_lock'[x] = sgrt_lock[x]
        /\ sgrt_lock' \in [Slot -> Thread \cup {NULL}]
    BY <2>2, <1>0
  <2>4. \A x \in Slot : src[x] # NULL => sgrt_lock[x] # light
    BY <2>2, <1>1 DEF LightIn
  <2> QED
    BY <2>1, <2>2, <2>3, <2>4, <1>0, Names, LightMoves
    DEF Place, LightIn, LinkAt, RecvAt
<1>8. CASE RecvDelete
  <2>1. pc[light] \in {"delete", "del1", "del2"}
    BY <1>8 DEF RecvDelete, Delete, DelRead, DelNext, DelPrev
  <2>2. PICK m \in Slot : m = recv /\ src[m] # NULL
    BY <2>1 DEF BoxInv, RecvInv, RecvAt, LightIn
  <2>3. Delete(light, m, "unlock") /\ UNCHANGED <<src, sgrt_lock, own, recv, open>>
    BY <1>8, <2>2 DEF RecvDelete
  <2>4. PICK p \in {"del1", "del2", "unlock"} : Goto(light, p)
    BY <2>3 DEF Delete, DelRead, DelNext, DelPrev
  <2>5. /\ next' \in [Node -> Node \cup {NULL}]
        /\ prev' \in [Node -> Node \cup {NULL}]
        /\ unread' \in Seq(Slot) /\ linker' \in Thread \cup {NULL}
        /\ broken' \in BOOLEAN
        /\ \A x : InList(unread', x) => InList(unread, x)
    BY <2>3, <1>0, DeleteTypes DEF BoxInv
  <2>6. /\ pc' \in [Thread -> Place] /\ pc'[light] = p
        /\ \A u \in Thread : u # light => pc'[u] = pc[u]
    BY <2>4, <1>0, GotoPlace DEF Place, RecvAt, LightIn
  <2>7. TypeInv'
    BY <2>3, <2>5, <2>6 DEF TypeInv
  <2>8. \A x \in Slot : Inside(x)'
    BY <2>1, <2>3, <2>6, <1>0, Names DEF Inside, LightIn
  <2>9. OwnInv'
    BY <2>3, <2>5, <2>6, Names DEF OwnInv, BoxInv
  <2>10. RecvInv'
    BY <2>1, <2>2, <2>3, <2>6, Names DEF RecvInv, BoxInv
  <2>11. m = Mail(light)
    BY <2>2 DEF Mail
  <2>12. ~broken' => ListInv' /\ LinkerInv'
    BY <2>3, <2>11, <1>0, DeleteKeeps DEF BoxInv
  <2> QED  BY <2>7, <2>8, <2>9, <2>10, <2>12 DEF BoxInv
<1> QED
  BY <1>2, <1>3, <1>4, <1>5, <1>6, <1>7, <1>8 DEF RecvStep

-----------------------------------------------------------------------------
(* The theorems *)

\* Every step of the senders and of the receiver keeps IInv.
LEMMA StepKeeps == IInv /\ [Next]_vars => IInv'
<1> SUFFICES ASSUME IInv, [Next]_vars PROVE IInv'
  OBVIOUS
<1>1. ~broken => Good
  BY HeldIsInside DEF IInv, Good, TypeInv
<1>2. ASSUME TypeInv' /\ (\A m \in Slot : Inside(m)') /\ (~broken' => BoxInv')
      PROVE  IInv'
  <2>1. sgrt_lock' \in [Slot -> Thread \cup {NULL}]
    BY <1>2 DEF TypeInv
  <2>2. HeldInside'
    BY <2>1, <1>2, MailboxAssumption
    DEF HeldInside, Inside, Thread, LightIn, SenderIn
  <2> QED  BY <1>2, <2>2 DEF IInv
<1>3. ASSUME ~broken, NEW s \in Sender, Press(s) \/ SendStep(s) PROVE IInv'
  BY <1>1, <1>2, <1>3, SenderKeeps
<1>4. ASSUME ~broken, mailbox_init \/ RecvStep, \A s \in Sender : Waits(s)
      PROVE  IInv'
  BY <1>1, <1>2, <1>4, LightKeeps
<1>5. CASE UNCHANGED vars
  <2>1. UNCHANGED <<next, prev, src, sgrt_lock, own, recv, pc, open, unread,
                    linker, broken>>
    BY <1>5 DEF vars
  <2>2. TypeInv' /\ HeldInside'
    BY <2>1 DEF IInv, TypeInv, HeldInside
  <2>3. \A t : Mail(t)' = Mail(t)
    BY <2>1 DEF Mail
  <2>4. ~broken => ListInv' /\ LinkerInv'
    BY <2>1, <2>3, ListStays DEF IInv, BoxInv
  <2>5. ~broken => OwnInv' /\ RecvInv'
    BY <2>1 DEF IInv, BoxInv, OwnInv, RecvInv
  <2> QED  BY <2>1, <2>2, <2>4, <2>5 DEF IInv, BoxInv
<1> QED
  BY <1>3, <1>4, <1>5 DEF Next, Undefined

\* The inductive invariant of mailbox.c
THEOREM Invariance == Spec => []IInv
<1>1. Init => IInv
  <2> SUFFICES ASSUME Init PROVE IInv
    OBVIOUS
  <2>1. TypeInv
    <3>1. next \in [Node -> Node \cup {NULL}] /\ prev \in [Node -> Node \cup {NULL}]
      BY Names DEF Init
    <3>2. unread \in Seq(Slot)
      BY DEF Init
    <3> QED  BY <3>1, <3>2 DEF Init, TypeInv, Place
  <2>2. HeldInside
    BY DEF Init, HeldInside
  <2>3. ListInv
    <3>1. Len(unread) = 0 /\ next[box] = box /\ prev[box] = box
      BY Names DEF Init
    <3>2. Distinct(unread) /\ \A i \in 1..Len(unread) : src[unread[i]] # NULL
      BY <3>1 DEF Distinct
    <3>3. Linked(unread, next, prev)
      BY <3>1 DEF Linked, Stop
    <3>4. NoLoop(next)
      BY Names DEF Init, NoLoop
    <3>5. Half(next, prev)
      BY DEF Init, Half
    <3> QED  BY <3>2, <3>3, <3>4, <3>5, <2>1 DEF ListInv, TypeInv
  <2>4. OwnInv /\ RecvInv /\ LinkerInv
    BY Names
    DEF Init, OwnInv, RecvInv, LinkerInv, LinkAt, OffList, OwnAt, SenderIn, RecvAt,
        LightIn
  <2> QED  BY <2>1, <2>2, <2>3, <2>4 DEF IInv, BoxInv
<1> QED  BY <1>1, StepKeeps, PTL DEF Spec

\* mail_send, mail_recv, mail_destroy: the links of the box lead, forwards and
\* backwards, through the unread mails in the order in which they were sent,
\* whenever no list operation is under way and none has overlapped another.
THEOREM ListLeadsThroughUnread == Spec => []ListIsUnread
<1>1. IInv => ListIsUnread
  <2> SUFFICES ASSUME IInv, ~broken, linker = NULL PROVE ListIsUnread
    BY DEF ListIsUnread
  <2> DEFINE ring == <<box>> \o unread \o <<box>>
  <2>1. unread \in Seq(Slot) /\ ListInv /\ Len(unread) \in Nat
        /\ Linked(unread, next, prev)
    BY DEF IInv, TypeInv, BoxInv, ListInv, Half
  <2>2. Len(ring) = Len(unread) + 2
    BY <2>1
  <2>3. \A i \in 1..Len(ring) : ring[i] = Stop(unread, i - 1)
    BY <2>1 DEF Stop
  <2> HIDE DEF ring
  <2>4. ASSUME NEW i \in 1..(Len(ring) - 1)
        PROVE  /\ next[ring[i]] = ring[i + 1] /\ prev[ring[i + 1]] = ring[i]
               /\ ring[i] # box => src[ring[i]] # NULL
    <3>1. i - 1 \in 0..Len(unread) /\ i \in 1..Len(ring) /\ i + 1 \in 1..Len(ring)
          /\ (i - 1) + 1 = i /\ (i + 1) - 1 = i
      BY <2>1, <2>2
    <3>2. ring[i] = Stop(unread, i - 1) /\ ring[i + 1] = Stop(unread, i)
      BY <3>1, <2>3
    <3>3. next[Stop(unread, i - 1)] = Stop(unread, i)
          /\ prev[Stop(unread, i)] = Stop(unread, i - 1)
      BY <3>1, <2>1 DEF Linked
    <3>4. ring[i] # box => src[ring[i]] # NULL
      BY <3>2, <2>1 DEF Stop, ListInv
    <3> QED  BY <3>2, <3>3, <3>4
  <2> QED  BY <2>4 DEF ListIsUnread, ring
<1> QED  BY <1>1, Invariance, PTL

\* mailbox.c: a mail's mutex is held only by a thread inside mail_send,
\* mail_recv or mail_destroy of this mail.
THEOREM MutexNotLeftLocked == Spec => []HeldInside
<1>1. IInv => HeldInside
  BY DEF IInv
<1> QED  BY <1>1, Invariance, PTL

-----------------------------------------------------------------------------
(* Where mailbox.c can lose its footing *)

\* Without takes away no other mail.
LEMMA WithoutOthers ==
  ASSUME NEW u \in Seq(Slot), Distinct(u), NEW m \in Slot,
         NEW x \in Slot, x # m, InList(u, x)
  PROVE  InList(Without(u, m), x)
<1>1. CASE ~InList(u, m)
  BY <1>1 DEF Without
<1>2. CASE InList(u, m)
  <2> DEFINE r == Without(u, m)
  <2>1. PICK p \in 1..Len(u) :
          /\ u[p] = m
          /\ \A k \in 0..Len(u) : Stop(r, k) =
               IF k < p THEN Stop(u, k) ELSE Stop(u, k + 1)
    BY <1>2, WithoutStops
  <2>2. Len(r) = Len(u) - 1
    BY <1>2, WithoutStops
  <2> HIDE DEF r
  <2>3. PICK i \in 1..Len(u) : u[i] = x
    BY DEF InList
  <2>4. PICK k \in 1..Len(r) : (k < p /\ k = i) \/ (~(k < p) /\ k + 1 = i)
    <3>1. i # p /\ Len(u) \in Nat
      BY <2>1, <2>3
    <3>2. CASE i < p
      <4>1. i \in 1..Len(r)
        BY <3>1, <3>2, <2>2
      <4> QED  BY <4>1, <3>2
    <3>3. CASE ~(i < p)
      <4>1. i - 1 \in 1..Len(r) /\ ~(i - 1 < p) /\ (i - 1) + 1 = i
        BY <3>1, <3>3, <2>2
      <4> QED  BY <4>1
    <3> QED  BY <3>2, <3>3
  <2>5. k \in 0..Len(u)
    BY <2>2
  <2>6. Stop(r, k) = Stop(u, i)
    BY <2>1, <2>4, <2>5
  <2>7. r[k] = x
    BY <2>3, <2>4, <2>6 DEF Stop
  <2> QED  BY <2>7 DEF InList, r
<1> QED  BY <1>1, <1>2

\* A thread inside an operation on a mail holds its mutex, ...
HoldsMutex ==
  /\ \A s \in Sender : pc[s] \in SenderIn => sgrt_lock[own[s]] = s
  /\ pc[light] \in LightIn => sgrt_lock[recv] = light

\* ... and a mail the receiver has fetched stays on the list until the receiver
\* takes it off, or its sender has and is about to free it.
FetchedIsThere ==
  pc[light] \in RecvAt \ {"unlock"} =>
    \/ InList(unread, recv)
    \/ \E s \in Sender : pc[s] = "free" /\ own[s] = recv

\* The receiver has a mail from Fetch to RecvUnlock.
HasMail ==
  \/ pc[light] \in {"user", "fetch"} /\ recv = NULL
  \/ pc[light] \in RecvAt

WindowInv == IInv /\ (~broken => HoldsMutex /\ FetchedIsThere /\ HasMail)

\* Before a sender's step its mail is a piece of memory of its own.
LEMMA OwnMail ==
  ASSUME Good
  PROVE  /\ \A s \in Sender :
              pc[s] \in OwnAt => own[s] \in Slot /\ src[own[s]] = s
         /\ pc[light] \in RecvAt => recv \in Slot /\ src[recv] # NULL
         /\ pc \in [Thread -> Place] /\ sgrt_lock \in [Slot -> Thread \cup {NULL}]
         /\ own \in [Sender -> Slot \cup {NULL}] /\ unread \in Seq(Slot)
         /\ Distinct(unread)
  BY DEF Good, TypeInv, BoxInv, OwnInv, RecvInv, ListInv, OwnAt, SenderIn

\* A sender's step keeps the mutexes held.
LEMMA SenderHolds ==
  ASSUME Good, HoldsMutex, NEW s \in Sender, Press(s) \/ SendStep(s)
  PROVE  HoldsMutex'
<1>0. /\ \A t \in Sender : pc[t] \in OwnAt => own[t] \in Slot /\ src[own[t]] = t
      /\ pc[light] \in LightIn => recv \in Slot /\ src[recv] # NULL
      /\ pc \in [Thread -> Place] /\ sgrt_lock \in [Slot -> Thread \cup {NULL}]
      /\ own \in [Sender -> Slot \cup {NULL}]
  BY OwnMail DEF RecvAt
<1>00. s \in Thread /\ s # light /\ light \in Thread /\ Sender \subseteq Thread
       /\ NULL \notin Thread
  BY Names
<1>1. CASE Press(s) \/ DestroyDelete(s) \/ kfree(s) \/ AddRead(s) \/ AddNext(s)
  <2>1. PICK p \in Place : Goto(s, p) /\ (p \in SenderIn => pc[s] \in SenderIn)
    BY <1>1 DEF Press, DestroyDelete, kfree, Delete, DelRead, DelNext, DelPrev,
                AddRead, AddNext, SenderIn, OwnAt, Place
  <2>2. UNCHANGED <<sgrt_lock, own, recv>>
    BY <1>1 DEF Press, DestroyDelete, kfree, AddRead, AddNext
  <2>3. pc' = [pc EXCEPT ![s] = p]
    BY <2>1 DEF Goto
  <2> QED  BY <2>1, <2>2, <2>3, <1>0, <1>00 DEF HoldsMutex, SenderIn, LightIn
<1>2. CASE DestroyLock(s) \/ (SendLock(s) /\ open)
  <2>1. PICK p \in {"delete", "add"} : Goto(s, p) \/ pc' = [pc EXCEPT ![s] = "user"]
    BY <1>2 DEF DestroyLock, SendLock, Goto
  <2>2. /\ pc' = [pc EXCEPT ![s] = p]
        /\ sgrt_lock[own[s]] = NULL /\ own[s] \in Slot
        /\ sgrt_lock' = [sgrt_lock EXCEPT ![own[s]] = s]
        /\ UNCHANGED <<own, recv>>
    BY <1>2, <2>1, <1>0 DEF DestroyLock, SendLock, Lock, Goto, OwnAt
  <2> QED  BY <2>2, <1>0, <1>00 DEF HoldsMutex, SenderIn, LightIn
<1>3. CASE SendLock(s) /\ ~open
  <2>1. pc' = [pc EXCEPT ![s] = "user"] /\ UNCHANGED <<sgrt_lock, own, recv>>
    BY <1>3 DEF SendLock, Goto
  <2> QED  BY <2>1, <1>0, <1>00 DEF HoldsMutex, SenderIn, LightIn
<1>4. CASE mail_create(s)
  <2>1. CASE pc' = [pc EXCEPT ![s] = "user"] /\ own' = [own EXCEPT ![s] = NULL]
             /\ UNCHANGED <<sgrt_lock, recv>>
    BY <2>1, <1>0, <1>00 DEF HoldsMutex, SenderIn, LightIn
  <2>2. ASSUME NEW m \in Slot, src[m] = NULL, Unlock(m), Goto(s, "send"),
               own' = [own EXCEPT ![s] = m], recv' = recv
        PROVE  HoldsMutex'
    <3>1. /\ pc' = [pc EXCEPT ![s] = "send"]
          /\ sgrt_lock' = [sgrt_lock EXCEPT ![m] = NULL]
      BY <2>2 DEF Unlock, Goto
    <3>2. \A t \in Sender : t # s /\ pc[t] \in SenderIn => own[t] # m
      BY <2>2, <1>0, <1>00 DEF OwnAt
    <3>3. pc[light] \in LightIn => recv # m
      BY <2>2, <1>0
    <3> QED
      BY <3>1, <3>2, <3>3, <2>2, <1>0, <1>00 DEF HoldsMutex, SenderIn, LightIn
  <2> QED  BY <2>1, <2>2, <1>4 DEF mail_create, Goto
<1>5. CASE AddPrev(s)
  <2>1. /\ pc' = [pc EXCEPT ![s] = "user"] /\ pc[s] = "add2"
        /\ sgrt_lock' = [sgrt_lock EXCEPT ![own[s]] = NULL]
        /\ UNCHANGED <<own, recv>>
    BY <1>5 DEF AddPrev, Unlock, Goto
  <2>2. own[s] \in Slot /\ sgrt_lock[own[s]] = s
    BY <2>1, <1>0 DEF HoldsMutex, SenderIn, OwnAt
  <2>3. \A t \in Sender : t # s /\ pc[t] \in SenderIn => own[t] # own[s]
    BY <2>2 DEF HoldsMutex
  <2>4. pc[light] \in LightIn => recv # own[s]
    BY <2>2, <1>00 DEF HoldsMutex
  <2> QED
    BY <2>1, <2>2, <2>3, <2>4, <1>0, <1>00 DEF HoldsMutex, SenderIn, LightIn
<1> QED
  BY <1>1, <1>2, <1>3, <1>4, <1>5 DEF SendStep

\* A sender's step keeps a fetched mail on the list, or in the sender's hands.
LEMMA SenderLeaves ==
  ASSUME Good, FetchedIsThere, NEW s \in Sender, Press(s) \/ SendStep(s), ~broken'
  PROVE  FetchedIsThere'
<1>0. /\ \A t \in Sender : pc[t] \in OwnAt => own[t] \in Slot /\ src[own[t]] = t
      /\ pc \in [Thread -> Place] /\ own \in [Sender -> Slot \cup {NULL}]
      /\ unread \in Seq(Slot) /\ Distinct(unread)
      /\ s \in Thread /\ s # light /\ light \in Thread /\ Sender \subseteq Thread
  BY OwnMail, Names
<1>1. recv' = recv /\ pc'[light] = pc[light]
  BY <1>0 DEF Press, SendStep, DestroyLock, DestroyDelete, Delete, DelRead, DelNext,
              DelPrev, kfree, mail_create, SendLock, AddRead, AddNext, AddPrev, Goto
<1> SUFFICES ASSUME pc[light] \in RecvAt \ {"unlock"}
             PROVE  \/ InList(unread', recv)
                    \/ \E t \in Sender : pc'[t] = "free" /\ own'[t] = recv
  BY <1>1 DEF FetchedIsThere
<1>2. recv \in Slot
  BY OwnMail
<1>3. \A t \in Sender : t # s => pc'[t] = pc[t] /\ own'[t] = own[t]
  BY <1>0 DEF Press, SendStep, DestroyLock, DestroyDelete, Delete, DelRead, DelNext,
              DelPrev, kfree, mail_create, SendLock, AddRead, AddNext, AddPrev, Goto
<1>4. ASSUME NEW t \in Sender, t # s, pc[t] = "free", own[t] = recv
      PROVE  pc'[t] = "free" /\ own'[t] = recv
  BY <1>3, <1>4
<1>5. CASE DelPrev(s, own[s], "free") /\ own' = own
  <2>1. /\ pc[s] = "del2" /\ pc' = [pc EXCEPT ![s] = "free"] /\ own' = own
        /\ unread' = Without(unread, own[s]) /\ own[s] \in Slot
    BY <1>5, <1>0 DEF DelPrev, Goto, OwnAt, SenderIn
  <2>2. CASE recv = own[s]
    BY <2>1, <2>2, <1>0
  <2>3. CASE recv # own[s] /\ InList(unread, recv)
    <3>1. InList(Without(unread, own[s]), recv)
      BY <2>1, <2>3, <1>0, <1>2, WithoutOthers
    <3> QED  BY <3>1, <2>1
  <2>4. CASE recv # own[s] /\ ~InList(unread, recv)
    BY <2>4, <1>4 DEF FetchedIsThere
  <2> QED  BY <2>2, <2>3, <2>4
<1>6. CASE kfree(s)
  <2>1. recv # own[s] /\ unread' = unread
    BY <1>6 DEF kfree
  <2> QED  BY <2>1, <1>4 DEF FetchedIsThere
<1>7. CASE AddPrev(s)
  <2>1. pc[s] = "add2" /\ unread' = Append(unread, own[s]) /\ own[s] \in Slot
    BY <1>7, <1>0 DEF AddPrev, OwnAt, SenderIn
  <2>2. /\ Len(unread') = Len(unread) + 1
        /\ \A i \in 1..Len(unread) : unread'[i] = unread[i]
    BY <2>1, <1>0
  <2>3. InList(unread, recv) => InList(unread', recv)
    BY <2>2, <1>0 DEF InList
  <2> QED  BY <2>1, <2>3, <1>4 DEF FetchedIsThere
<1>8. CASE \/ Press(s) \/ DestroyLock(s) \/ mail_create(s) \/ SendLock(s)
           \/ DelRead(s, own[s]) \/ DelNext(s, own[s]) \/ AddRead(s) \/ AddNext(s)
  <2>1. unread' = unread /\ pc[s] # "free"
    BY <1>8 DEF Press, DestroyLock, mail_create, SendLock, DelRead, DelNext,
                AddRead, AddNext
  <2> QED  BY <2>1, <1>4 DEF FetchedIsThere
<1> QED
  BY <1>5, <1>6, <1>7, <1>8 DEF SendStep, DestroyDelete, Delete

\* The receiver's steps keep both.
LEMMA LightHolds ==
  ASSUME Good, HoldsMutex, FetchedIsThere, RecvStep, ~broken',
         \A s \in Sender : Waits(s)
  PROVE  HoldsMutex' /\ FetchedIsThere'
<1>0. /\ pc[light] \in RecvAt => recv \in Slot
      /\ pc \in [Thread -> Place] /\ sgrt_lock \in [Slot -> Thread \cup {NULL}]
      /\ light \in Thread /\ light \notin Sender /\ Sender \subseteq Thread
      /\ \A s \in Sender : pc[s] \in SenderIn => own[s] \in Slot
      /\ NULL \notin Thread
  BY OwnMail, Names DEF OwnAt
<1>1. own' = own
  BY DEF RecvStep, Poll, Fetch, RecvLock, Copy, Relock, RecvDelete, RecvUnlock
<1>2. \A s \in Sender : pc'[s] = pc[s]
  BY <1>0 DEF RecvStep, Poll, Fetch, RecvLock, Copy, Relock, RecvDelete,
              RecvUnlock, Delete, DelRead, DelNext, DelPrev, Goto
<1>3. CASE Poll
  <2>1. pc'[light] = "fetch" /\ sgrt_lock' = sgrt_lock
    BY <1>3, <1>0 DEF Poll, Goto
  <2> QED  BY <2>1, <1>1, <1>2 DEF HoldsMutex, FetchedIsThere, LightIn, RecvAt
<1>4. CASE Fetch
  <2>1. /\ pc'[light] = "lock" /\ sgrt_lock' = sgrt_lock /\ recv' = next[box]
        /\ next[box] # box /\ unread' = unread
    BY <1>4, <1>0 DEF Fetch, Goto
  <2>2. 0 \in 0..Len(unread) /\ Stop(unread, 0) = box
    BY DEF Stop, Good, TypeInv
  <2>3. next[box] = Stop(unread, 1)
    BY <2>2, <1>4, NobodyLinks DEF Fetch, LinkAt, Linked
  <2>4. InList(unread, next[box])
    BY <2>1, <2>3 DEF Stop, InList
  <2> QED  BY <2>1, <2>4, <1>1, <1>2 DEF HoldsMutex, FetchedIsThere, LightIn, RecvAt
<1>5. CASE RecvLock \/ Relock
  <2>1. PICK p \in {"copy", "delete"} :
          /\ pc' = [pc EXCEPT ![light] = p] /\ recv' = recv
          /\ pc[light] \in {"lock", "relock"} /\ unread' = unread
          /\ sgrt_lock[recv] = NULL
          /\ sgrt_lock' = [sgrt_lock EXCEPT ![recv] = light]
    <3>1. pc[light] = "lock" => ~Empty(recv)
      BY <1>0, NobodyLinks DEF Empty, RecvAt, LinkAt, NoLoop
    <3>2. CASE RecvLock
      BY <3>1, <3>2 DEF RecvLock, Lock, Goto
    <3>3. CASE Relock
      BY <3>3 DEF Relock, Lock, Goto
    <3> QED  BY <1>5, <3>2, <3>3
  <2>2. \A s \in Sender : pc[s] \in SenderIn => own[s] # recv
    BY <2>1, <1>0 DEF HoldsMutex
  <2>3. HoldsMutex'
    BY <2>1, <2>2, <1>0, <1>1, <1>2 DEF HoldsMutex, LightIn, RecvAt
  <2>4. FetchedIsThere'
    BY <2>1, <1>1, <1>2, <1>0 DEF FetchedIsThere, RecvAt, LightIn
  <2> QED  BY <2>3, <2>4
<1>6. CASE Copy \/ RecvUnlock
  <2>1. PICK p \in {"relock", "user"} :
          /\ pc' = [pc EXCEPT ![light] = p] /\ unread' = unread
          /\ pc[light] \in LightIn /\ (p = "relock" => pc[light] = "copy" /\ recv' = recv)
          /\ sgrt_lock' = [sgrt_lock EXCEPT ![recv] = NULL]
    BY <1>6 DEF Copy, RecvUnlock, Unlock, Goto, LightIn
  <2>2. \A s \in Sender : pc[s] \in SenderIn => own[s] # recv
    BY <2>1, <1>0 DEF HoldsMutex
  <2>3. HoldsMutex'
    BY <2>1, <2>2, <1>0, <1>1, <1>2 DEF HoldsMutex, LightIn, RecvAt
  <2>4. FetchedIsThere'
    BY <2>1, <1>0, <1>1, <1>2 DEF FetchedIsThere, RecvAt, LightIn
  <2> QED  BY <2>3, <2>4
<1>7. CASE RecvDelete
  <2>1. PICK p \in {"del1", "del2", "unlock"} :
          /\ pc'[light] = p /\ pc[light] \in {"delete", "del1", "del2"}
          /\ UNCHANGED <<sgrt_lock, recv>> /\ (p # "unlock" => unread' = unread)
    BY <1>7, <1>0 DEF RecvDelete, Delete, DelRead, DelNext, DelPrev, Goto
  <2> QED  BY <2>1, <1>1, <1>2 DEF HoldsMutex, FetchedIsThere, LightIn, RecvAt
<1> QED
  BY <1>3, <1>4, <1>5, <1>6, <1>7 DEF RecvStep

\* A mail is the receiver's until it unlocks it.
LEMMA MailKept ==
  ASSUME Good, HasMail, ~broken',
         RecvStep \/ \E s \in Sender : Press(s) \/ SendStep(s)
  PROVE  HasMail'
<1>0. pc \in [Thread -> Place] /\ light \in Thread /\ light \notin Sender
  BY OwnMail, Names
<1>1. CASE RecvStep
  BY <1>0, <1>1 DEF RecvStep, Poll, Fetch, RecvLock, Copy, Relock, RecvDelete,
                    RecvUnlock, Delete, DelRead, DelNext, DelPrev, Goto, HasMail,
                    RecvAt, LightIn
<1>2. ASSUME NEW s \in Sender, Press(s) \/ SendStep(s)
      PROVE  recv' = recv /\ pc'[light] = pc[light]
  BY <1>0, <1>2 DEF Press, SendStep, DestroyLock, DestroyDelete, Delete, DelRead,
                    DelNext, DelPrev, kfree, mail_create, SendLock, AddRead,
                    AddNext, AddPrev, Goto
<1> QED  BY <1>1, <1>2 DEF HasMail

\* The mutexes and the fetched mail, in every reachable state
THEOREM Windows == Spec => []WindowInv
<1>1. Init => HoldsMutex /\ FetchedIsThere /\ HasMail
  BY Names DEF Init, HoldsMutex, FetchedIsThere, HasMail, SenderIn, LightIn, RecvAt
<1>2. WindowInv /\ IInv' /\ [Next]_vars => WindowInv'
  <2> SUFFICES ASSUME WindowInv, IInv', [Next]_vars, ~broken'
               PROVE  HoldsMutex' /\ FetchedIsThere' /\ HasMail'
    BY DEF WindowInv
  <2>1. ~broken => Good /\ HoldsMutex /\ FetchedIsThere /\ HasMail
    BY HeldIsInside DEF WindowInv, IInv, Good, TypeInv
  <2>2. ASSUME ~broken, NEW s \in Sender, Press(s) \/ SendStep(s)
        PROVE  HoldsMutex' /\ FetchedIsThere' /\ HasMail'
    BY <2>1, <2>2, SenderHolds, SenderLeaves, MailKept
  <2>3. ASSUME ~broken, RecvStep, \A s \in Sender : Waits(s)
        PROVE  HoldsMutex' /\ FetchedIsThere' /\ HasMail'
    BY <2>1, <2>3, LightHolds, MailKept
  <2>4. CASE UNCHANGED <<sgrt_lock, own, recv, pc, unread, broken>>
    BY <2>1, <2>4 DEF HoldsMutex, FetchedIsThere, HasMail
  <2> QED
    BY <2>2, <2>3, <2>4 DEF Next, Undefined, vars, mailbox_init
<1> QED  BY <1>1, <1>2, Invariance, PTL DEF Spec, WindowInv

\* The four steps after which the list can be wrong: the receiver takes the
\* first entry of a box that its senders emptied since it polled; a sender frees
\* its mail while the receiver waits for the mutex of that mail; a sender deletes
\* once more a mail that is not on the list; a sender begins to delete or to add
\* while another thread is inside list_head_del, or inside list_head_add_tail
\* for mail_destroy, which does not take the mutex of the box.
InWindow ==
  \/ Fetch /\ unread = <<>>
  \/ \E s \in Sender :
       kfree(s) /\ own[s] = recv /\ pc[light] \in {"lock", "relock"}
  \/ \E s \in Sender : DelRead(s, own[s]) /\ ~InList(unread, own[s])
  \/ \E s \in Sender, t \in Thread :
       /\ t # s /\ pc[t] \in LinkAt
       /\ DelRead(s, own[s]) \/ (AddRead(s) /\ pc[t] \in {"del1", "del2"})

BreaksOnlyHere == [][~broken /\ broken' => InWindow]_vars

\* mailbox.c: there is no fifth.  In particular mail_destroy by the receiver
\* always finds the mail on the list and no other thread inside it, no mail is
\* freed while the receiver copies it, and two mail_send do not meet: there the
\* mutexes do their work.
THEOREM NoOtherWindow == Spec => BreaksOnlyHere
<1>1. WindowInv /\ [Next]_vars => [~broken /\ broken' => InWindow]_vars
  <2> SUFFICES ASSUME WindowInv, [Next]_vars, ~broken, broken' PROVE InWindow
    OBVIOUS
  <2>1. Good /\ HoldsMutex /\ FetchedIsThere /\ HasMail
    BY HeldIsInside DEF WindowInv, IInv, Good, TypeInv
  <2>2. CASE \E s \in Sender : kfree(s)
    <3>1. PICK s \in Sender : kfree(s)
      BY <2>2
    <3>2. recv = own[s] /\ pc[s] = "free"
      BY <3>1 DEF kfree
    <3>3. own[s] \in Slot /\ sgrt_lock[own[s]] = s /\ s # light
      BY <3>2, <2>1, OwnMail, Names DEF HoldsMutex, SenderIn, OwnAt
    <3>4. pc[light] \notin LightIn
      BY <3>2, <3>3, <2>1 DEF HoldsMutex
    <3>5. pc[light] \in {"lock", "relock"}
      BY <3>2, <3>3, <3>4, <2>1, Names DEF HasMail, RecvAt
    <3> QED  BY <3>1, <3>2, <3>5 DEF InWindow
  <2>3. ASSUME NEW s \in Sender, DelRead(s, own[s]) \/ AddRead(s), linker # NULL
        PROVE  InWindow
    <3>1. linker \in Thread /\ pc[linker] \in LinkAt
      BY <2>1, <2>3 DEF Good, TypeInv, BoxInv, LinkerInv
    <3>2. linker # s
      BY <2>3, <3>1 DEF DelRead, AddRead, LinkAt
    <3>3. AddRead(s) => pc[linker] \in {"del1", "del2"}
      <4>1. linker \in Sender => (AddRead(s) => pc[linker] \notin {"add1", "add2"})
        BY DEF AddRead
      <4>2. linker = light => pc[linker] \notin {"add1", "add2"}
        BY <2>1 DEF Good, BoxInv, LinkerInv
      <4> QED  BY <3>1, <4>1, <4>2 DEF LinkAt, Thread
    <3> QED  BY <2>3, <3>1, <3>2, <3>3 DEF InWindow
  <2>4. CASE \E s \in Sender : DelRead(s, own[s])
    <3>1. PICK s \in Sender : DelRead(s, own[s])
      BY <2>4
    <3>2. ~InList(unread, own[s]) \/ linker # NULL
      BY <3>1 DEF DelRead, Deletable
    <3> QED  BY <3>1, <3>2, <2>3 DEF InWindow
  <2>5. CASE \E s \in Sender : AddRead(s)
    <3>1. linker # NULL
      BY <2>5 DEF AddRead
    <3> QED  BY <3>1, <2>3, <2>5
  <2>6. CASE Fetch /\ \A s \in Sender : Waits(s)
    <3>1. next[box] = box /\ Linked(unread, next, prev)
      BY <2>1, <2>6, NobodyLinks DEF Fetch, LinkAt
    <3>2. 0 \in 0..Len(unread) /\ Stop(unread, 0) = box /\ unread \in Seq(Slot)
      BY <2>1 DEF Stop, Good, TypeInv
    <3>3. next[box] = Stop(unread, 1)
      BY <3>1, <3>2 DEF Linked
    <3>4. ~(1 \in 1..Len(unread))
      BY <3>1, <3>2, <3>3, Names DEF Stop
    <3>5. unread = <<>>
      BY <3>2, <3>4
    <3> QED  BY <2>6, <3>5 DEF InWindow
  <2>7. CASE DelRead(light, recv) /\ \A s \in Sender : Waits(s)
    <3>1. InList(unread, recv)
      BY <2>7, <2>1 DEF DelRead, FetchedIsThere, Waits, RecvAt, LightIn
    <3>2. linker = NULL
      BY <2>1, <2>7 DEF DelRead, Good, TypeInv, BoxInv, LinkerInv, Waits, LinkAt,
                        Thread
    <3> QED  BY <3>1, <3>2, <2>7 DEF DelRead, Deletable
  <2>8. CASE broken' = broken
    BY <2>8
  <2> QED
    <3>1. ASSUME NEW s \in Sender, Press(s) \/ SendStep(s)
          PROVE  broken' = broken \/ kfree(s) \/ DelRead(s, own[s]) \/ AddRead(s)
      BY <3>1 DEF Press, SendStep, DestroyLock, DestroyDelete, Delete, DelNext,
                  DelPrev, mail_create, SendLock, AddNext, AddPrev
    <3>2. ASSUME mailbox_init \/ RecvStep
          PROVE  broken' = broken \/ Fetch \/ DelRead(light, recv)
      BY <3>2 DEF mailbox_init, RecvStep, Poll, RecvLock, Copy, Relock, RecvDelete,
                  Delete, DelNext, DelPrev, RecvUnlock
    <3>3. CASE UNCHANGED vars
      BY <3>3, <2>8 DEF vars
    <3>4. CASE \E s \in Sender : Press(s) \/ SendStep(s)
      BY <3>1, <3>4, <2>2, <2>4, <2>5, <2>8
    <3>5. CASE (\A s \in Sender : Waits(s)) /\ (mailbox_init \/ RecvStep)
      BY <3>2, <3>5, <2>6, <2>7, <2>8
    <3> QED  BY <3>3, <3>4, <3>5 DEF Next, Undefined
<1> QED  BY <1>1, Windows, PTL DEF Spec, BreaksOnlyHere
=============================================================================
