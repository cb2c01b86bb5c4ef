------------------------------ MODULE Mailbox ------------------------------
(***************************************************************************)
(* A mailbox (kernel/mailbox.c) between applications that send and the one *)
(* that receives, the way example/button_app.c and light_app.c use it: a   *)
(* sender destroys its last mail, creates a new one and sends it; the      *)
(* receiver polls.  The links of the mails are the pointers of the code:   *)
(* list_head_del leaves those of the deleted mail as they are.  Deleting   *)
(* and adding are taken store by store: mail_destroy holds the mutex of the*)
(* mail and mail_send that of the box, so neither keeps the other out.     *)
(***************************************************************************)
EXTENDS Integers, Sequences, FiniteSets

CONSTANTS
  Sender,        \* threads that send to the box
  Slot,          \* pieces of memory a mail can lie in
  light,         \* the thread that owns the box and receives
  NULL

box == "box"     \* the head of the list of mails

ASSUME MailboxAssumption ==
  /\ light \notin Sender /\ NULL \notin Slot \cup Sender \cup {light}
  /\ box \notin Slot \cup {NULL}

Node == Slot \cup {box}
Thread == Sender \cup {light}

VARIABLES
  next, prev,    \* the links of the box and of the mails
  src,           \* src[m]: the sender that created the mail at m, or NULL
  sgrt_lock,     \* sgrt_lock[m]: the thread in the mutex of the mail at m
  own,           \* own[s]: the sender's pointer to its last mail
  recv,          \* the receiver's pointer to the mail it works on
  pc,
  open,          \* the receiver has made its box known
  unread,        \* history: mails sent, neither read nor destroyed, in order
  linker,        \* history: the thread inside list_head_del or _add_tail, or NULL
  broken         \* history: the code has used what was not a mail any more, or
                 \* two threads are inside the links of the list at once

lvars == <<next, prev, linker>>
vars == <<next, prev, src, sgrt_lock, own, recv, pc, open, unread, linker, broken>>

Init ==
  /\ next = [n \in Node |-> IF n = box THEN box ELSE NULL]
  /\ prev = next
  /\ src = [m \in Slot |-> NULL]
  /\ sgrt_lock = [m \in Slot |-> NULL]
  /\ own = [s \in Sender |-> NULL]
  /\ recv = NULL
  /\ pc = [t \in Thread |-> "user"]
  /\ open = FALSE /\ unread = <<>> /\ linker = NULL /\ broken = FALSE

Goto(t, p) == pc' = [pc EXCEPT ![t] = p]
Empty(n) == next[n] = n /\ prev[n] = n
InList(s, m) == \E i \in 1..Len(s) : s[i] = m
Without(s, m) ==
  IF ~InList(s, m) THEN s
  ELSE LET p == CHOOSE i \in 1..Len(s) : s[i] = m
       IN  [k \in 1..(Len(s) - 1) |-> IF k < p THEN s[k] ELSE s[k + 1]]

\* mutex_lock and mutex_unlock of a mail
Lock(t, m) == sgrt_lock[m] = NULL /\ sgrt_lock' = [sgrt_lock EXCEPT ![m] = t]
Unlock(m) == sgrt_lock' = [sgrt_lock EXCEPT ![m] = NULL]

\* The mail is on the list, or deleting it once more changes nothing.
Listed(n) == n = box \/ InList(unread, n)
Deletable(m) ==
  \/ InList(unread, m)
  \/ /\ Listed(prev[m]) /\ Listed(next[m])
     /\ next[prev[m]] = next[m] /\ prev[next[m]] = prev[m]

\* list_head_del of mail_destroy, under the mutex of the mail m alone: both
\* links of m are read, then the way forward is closed, then the way back.  (What
\* was read is still what m holds: another thread's store would be an overlap.)
DelRead(t, m) ==
  /\ pc[t] = "delete"
  /\ broken' = (~Deletable(m) \/ linker # NULL)
  /\ linker' = t
  /\ Goto(t, "del1")
  /\ UNCHANGED <<next, prev, unread>>

DelNext(t, m) ==
  /\ pc[t] = "del1"
  /\ next' = [next EXCEPT ![prev[m]] = next[m]]
  /\ Goto(t, "del2")
  /\ UNCHANGED <<prev, unread, linker, broken>>

\* Bug: the way back is not closed.
DelPrev_Half(t, m, p) ==
  /\ pc[t] = "del2"
  /\ unread' = Without(unread, m) /\ linker' = NULL
  /\ Goto(t, p)
  /\ UNCHANGED <<next, prev, broken>>

DelPrev(t, m, p) ==
  /\ pc[t] = "del2"
  /\ prev' = [prev EXCEPT ![next[m]] = prev[m]]
  /\ unread' = Without(unread, m) /\ linker' = NULL
  /\ Goto(t, p)
  /\ UNCHANGED <<next, broken>>

Delete(t, m, p) == DelRead(t, m) \/ DelNext(t, m) \/ DelPrev(t, m, p)

-----------------------------------------------------------------------------
(* The senders *)

\* virt_read has returned a new status.
Press(s) ==
  /\ pc[s] = "user"
  /\ Goto(s, IF own[s] = NULL THEN "create" ELSE "destroy")
  /\ UNCHANGED <<lvars, src, sgrt_lock, own, recv, open, unread, broken>>

\* mail_destroy: its own mail is freed with the mutex held, read or not.
DestroyLock(s) ==
  /\ pc[s] = "destroy"
  /\ Lock(s, own[s])
  /\ Goto(s, "delete")
  /\ UNCHANGED <<lvars, src, own, recv, open, unread, broken>>

DestroyDelete(s) ==
  /\ Delete(s, own[s], "free")
  /\ UNCHANGED <<src, sgrt_lock, own, recv, open>>

kfree(s) ==
  /\ pc[s] = "free"
  /\ src' = [src EXCEPT ![own[s]] = NULL]
  /\ broken' = (recv = own[s])
  /\ Goto(s, "create")
  /\ UNCHANGED <<lvars, sgrt_lock, own, recv, open, unread>>

\* mail_create: kzalloc takes any free piece, or fails.
mail_create(s) ==
  /\ pc[s] = "create"
  /\ \/ \E m \in Slot :
          /\ src[m] = NULL
          /\ src' = [src EXCEPT ![m] = s]
          /\ next' = [next EXCEPT ![m] = NULL]
          /\ prev' = [prev EXCEPT ![m] = NULL]
          /\ Unlock(m)
          /\ own' = [own EXCEPT ![s] = m]
          /\ linker' = linker
          /\ Goto(s, "send")
     \/ /\ own' = [own EXCEPT ![s] = NULL]
        /\ Goto(s, "user")
        /\ UNCHANGED <<lvars, src, sgrt_lock>>
  /\ UNCHANGED <<recv, open, unread, broken>>

\* mail_send: without the box its error is not looked at.
SendLock(s) ==
  /\ pc[s] = "send"
  /\ \/ open /\ Lock(s, own[s]) /\ Goto(s, "add")
     \/ ~open /\ Goto(s, "user") /\ UNCHANGED sgrt_lock
  /\ UNCHANGED <<lvars, src, own, recv, open, unread, broken>>

\* list_head_add_tail under the mutex of the box, which keeps other senders'
\* mail_send out: the last mail is read, ...
AddRead(s) ==
  /\ pc[s] = "add"
  /\ \A t \in Sender : pc[t] \notin {"add1", "add2"}
  /\ broken' = (linker # NULL)
  /\ linker' = s
  /\ Goto(s, "add1")
  /\ UNCHANGED <<next, prev, src, sgrt_lock, own, recv, open, unread>>

\* ... it and the new one are linked, ...
AddNext(s) ==
  /\ pc[s] = "add1"
  /\ prev' = [prev EXCEPT ![own[s]] = prev[box]]
  /\ next' = [next EXCEPT ![prev[box]] = own[s]]
  /\ Goto(s, "add2")
  /\ UNCHANGED <<src, sgrt_lock, own, recv, open, unread, linker, broken>>

\* Bug: the mutex of the mail is left locked.
AddPrev_KeepsLock(s) ==
  /\ pc[s] = "add2"
  /\ next' = [next EXCEPT ![own[s]] = box]
  /\ prev' = [prev EXCEPT ![box] = own[s]]
  /\ unread' = Append(unread, own[s]) /\ linker' = NULL
  /\ Goto(s, "user")
  /\ UNCHANGED <<src, sgrt_lock, own, recv, open, broken>>

\* ... the new one and the box, and both mutexes are unlocked.
AddPrev(s) ==
  /\ pc[s] = "add2"
  /\ next' = [next EXCEPT ![own[s]] = box]
  /\ prev' = [prev EXCEPT ![box] = own[s]]
  /\ unread' = Append(unread, own[s]) /\ linker' = NULL
  /\ Unlock(own[s])
  /\ Goto(s, "user")
  /\ UNCHANGED <<src, own, recv, open, broken>>

-----------------------------------------------------------------------------
(* The receiver *)

mailbox_init ==
  /\ ~open /\ open' = TRUE
  /\ UNCHANGED <<lvars, src, sgrt_lock, own, recv, pc, unread, broken>>

\* mail_recv: the list is tested without the mutex of the box, ...
Poll ==
  /\ pc[light] = "user" /\ open /\ ~Empty(box)
  /\ Goto(light, "fetch")
  /\ UNCHANGED <<lvars, src, sgrt_lock, own, recv, open, unread, broken>>

\* ... so its first entry can be the head by now.
Fetch ==
  /\ pc[light] = "fetch"
  /\ recv' = next[box]
  /\ broken' = (next[box] = box)
  /\ Goto(light, "lock")
  /\ UNCHANGED <<lvars, src, sgrt_lock, own, open, unread>>

\* A mail linked to itself is given up, with its mutex.
RecvLock ==
  /\ pc[light] = "lock"
  /\ Lock(light, recv)
  /\ Goto(light, IF Empty(recv) THEN "user" ELSE "copy")
  /\ recv' = IF Empty(recv) THEN NULL ELSE recv
  /\ UNCHANGED <<lvars, src, own, open, unread, broken>>

\* Bug: mail_destroy is called with the mutex held.
Copy_KeepsLock ==
  /\ pc[light] = "copy"
  /\ Goto(light, "relock")
  /\ UNCHANGED <<lvars, src, sgrt_lock, own, recv, open, unread, broken>>

\* The messages are copied, or there is no memory for them.
Copy ==
  /\ pc[light] = "copy"
  /\ Unlock(recv)
  /\ Goto(light, "relock")
  /\ UNCHANGED <<lvars, src, own, recv, open, unread, broken>>

\* mail_destroy by another than the sender
Relock ==
  /\ pc[light] = "relock"
  /\ Lock(light, recv)
  /\ Goto(light, "delete")
  /\ UNCHANGED <<lvars, src, own, recv, open, unread, broken>>

RecvDelete ==
  /\ Delete(light, recv, "unlock")
  /\ UNCHANGED <<src, sgrt_lock, own, recv, open>>

RecvUnlock ==
  /\ pc[light] = "unlock"
  /\ Unlock(recv)
  /\ recv' = NULL
  /\ Goto(light, "user")
  /\ UNCHANGED <<lvars, src, own, open, unread, broken>>

-----------------------------------------------------------------------------
\* The senders have the higher priority: the receiver runs when each of them
\* sleeps or waits for a mutex.
Waits(s) ==
  \/ pc[s] = "user"
  \/ pc[s] \in {"destroy", "send"} /\ own[s] # NULL /\ sgrt_lock[own[s]] # NULL

SendStep(s) ==
  \/ DestroyLock(s) \/ DestroyDelete(s) \/ kfree(s)
  \/ mail_create(s) \/ SendLock(s)
  \/ AddRead(s) \/ AddNext(s) \/ AddPrev(s)
RecvStep ==
  Poll \/ Fetch \/ RecvLock \/ Copy \/ Relock \/ RecvDelete \/ RecvUnlock

\* What follows the use of freed memory depends on what it holds by then, and
\* what follows an overlap on whose stores come last.
Undefined == broken /\ UNCHANGED vars

Next ==
  \/ ~broken /\ \E s \in Sender : Press(s) \/ SendStep(s)
  \/ ~broken /\ (\A s \in Sender : Waits(s)) /\ (mailbox_init \/ RecvStep)
  \/ Undefined

Spec == Init /\ [][Next]_vars

\* An operation that has begun goes on, and the receiver polls for ever.  Both
\* the core and the mutex of the box get free again and again: the senders
\* sleep 200 ms after every mail.
FairSpec ==
  /\ Spec
  /\ \A s \in Sender : SF_vars(~broken /\ SendStep(s))
  /\ SF_vars(~broken /\ (\A s \in Sender : Waits(s)) /\ RecvStep)
-----------------------------------------------------------------------------
(* Properties *)

\* mail_send, mail_recv, mail_destroy: the links of the box lead, forwards and
\* backwards, through the mails that were sent and neither read nor destroyed,
\* in the order in which they were sent, and all of them still exist: after
\* every list operation, and before one has overlapped another.
ListIsUnread ==
  ~broken /\ linker = NULL =>
    LET ring == <<box>> \o unread \o <<box>>
    IN  \A i \in 1..(Len(ring) - 1) :
          /\ next[ring[i]] = ring[i + 1] /\ prev[ring[i + 1]] = ring[i]
          /\ ring[i] # box => src[ring[i]] # NULL

\* mailbox.c: the mutex of a mail is held only by a thread inside mail_send,
\* mail_recv or mail_destroy of this mail; no way out leaves it locked.
HeldInside ==
  \A m \in Slot :
    src[m] # NULL /\ sgrt_lock[m] # NULL =>
      LET t == sgrt_lock[m]
      IN  IF t = light THEN recv = m /\ pc[t] \in {"copy", "delete", "del1", "del2", "unlock"}
          ELSE own[t] = m /\ pc[t] \in {"delete", "del1", "del2", "free",
                                        "add", "add1", "add2"}

\* mail_recv: whatever is in the box is read, or destroyed by its sender: the
\* two mutexes and the polling never end in a state where it stays there.
MailTaken ==
  \A m \in Slot :
    InList(unread, m) ~> (broken \/ ~InList(unread, m))
=============================================================================
