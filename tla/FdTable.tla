------------------------------ MODULE FdTable ------------------------------
(***************************************************************************)
(* The file descriptor table behind virt_open and virt_close               *)
(* (platform/fwk_fcntl.c, fwk_fs.c): the array fd_array, the expanded array*)
(* fds for when it is full, the highest descriptor in use and the number   *)
(* of descriptors of fd_array in use.  A descriptor is chosen, its file is *)
(* opened and the file is installed in separate critical sections.  The    *)
(* way through the expanded array takes no mutex, step by step, releases   *)
(* one that it has not taken, and finds in a fresh array what was in the   *)
(* memory before.                                                          *)
(***************************************************************************)
EXTENDS Integers, FiniteSets

CONSTANTS
  Thread,
  STDIO,         \* descriptors taken from the start, DEVICE_MAJOR_BASE
  NARR,          \* FILE_DESC_NUM_MAX
  NEXP,          \* FILE_DESC_EXP_NUM
  MAXOPEN,       \* bound: descriptors a thread has open
  NULL

ASSUME FdTableAssumption ==
  /\ STDIO \in Nat \ {0} /\ NARR \in Nat /\ NEXP \in Nat \ {0}
  /\ STDIO < NARR
  /\ MAXOPEN \in Nat
  /\ NULL \notin Thread
  /\ {"stdio", "garbage"} \cap (Thread \cup {NULL}) = {}

VARIABLES
  fd_array,      \* fd_array[i]: the thread whose file is installed, or NULL
  fds,           \* the expanded array, or NULL; "garbage": no pointer of ours
  max_fdset,     \* the highest descriptor in use
  ref_fdarr,     \* how many of fd_array are in use
  mutex,         \* the thread in a critical section of the table, or NULL
  pc, fd,        \* fd[t]: the descriptor that t is opening or closing
  index,         \* index[t]: where the search of t in fds is
  seen,          \* seen[t]: the max_fdset that t has read without the mutex
  held,          \* held[t]: the descriptors virt_open has given to t
  broken         \* history: see Scan, ExpandAlloc, ExpandSearch, Unlock and
                 \* PutExpand

vars == <<fd_array, fds, max_fdset, ref_fdarr, mutex, pc, fd, index, seen, held,
          broken>>
tvars == <<fd_array, fds, max_fdset, ref_fdarr>>
lvars == <<index, seen>>

Arr == 0..(NARR - 1)
Exp == NARR..(NARR + NEXP - 1)

\* The null pointer is no descriptor and no array.
ASSUME NullAssumption ==
  /\ NULL \notin Arr \cup Exp
  /\ \A table \in [Exp -> Thread \cup {NULL, "garbage"}] : table # NULL

\* fwk_file_system_init
Init ==
  /\ fd_array = [i \in Arr |-> IF i < STDIO THEN "stdio" ELSE NULL]
  /\ fds = NULL
  /\ max_fdset = STDIO - 1 /\ ref_fdarr = STDIO
  /\ mutex = NULL
  /\ pc = [t \in Thread |-> "user"]
  /\ fd = [t \in Thread |-> NULL]
  /\ index = [t \in Thread |-> NARR]
  /\ seen = [t \in Thread |-> 0]
  /\ held = [t \in Thread |-> {}]
  /\ broken = FALSE

Goto(t, p) == pc' = [pc EXCEPT ![t] = p]
LowestOf(S) == CHOOSE i \in S : \A j \in S : i <= j
Slot(i) == IF i \in Arr THEN fd_array[i] ELSE IF fds = NULL THEN NULL ELSE fds[i]

\* The descriptors that others have, or are about to have or to give back
Others(t) == (UNION {held[u] \cup {fd[u]} : u \in Thread \ {t}}) \ {NULL}

-----------------------------------------------------------------------------
(* fwk_get_unused_fd_flags *)

\* fwk_get_fd_available, before the mutex is taken
Avail(t) ==
  /\ pc[t] = "user" /\ Cardinality(held[t]) < MAXOPEN
  /\ Goto(t, IF ref_fdarr < NARR THEN "get" ELSE "expand")
  /\ UNCHANGED <<tvars, mutex, fd, lvars, held, broken>>

\* mutex_lock in front of each critical section
MutexLock(t) ==
  /\ pc[t] \in {"get", "store", "put"} /\ mutex = NULL
  /\ mutex' = t
  /\ UNCHANGED <<tvars, pc, fd, lvars, held, broken>>

\* The descriptor is not marked: until its file is installed it can be chosen
\* again by the search.
Chosen(t, i, p) ==
  /\ fd' = [fd EXCEPT ![t] = i]
  /\ Goto(t, p)
  /\ UNCHANGED held

fdtable_get == IF ref_fdarr < NARR THEN ref_fdarr + 1 ELSE NARR

\* The next one behind the highest in use
Backward(t) ==
  /\ pc[t] = "get" /\ mutex = t /\ max_fdset + 1 < NARR
  /\ Chosen(t, max_fdset + 1, "filp")
  /\ max_fdset' = max_fdset + 1
  /\ ref_fdarr' = fdtable_get
  /\ mutex' = NULL
  /\ UNCHANGED <<fd_array, fds, lvars, broken>>

\* The first unused one below the highest in use.  There may be none left, as
\* the number was read outside the mutex; with two expanded descriptors the
\* search then runs over the end of fd_array.
Scan(t) ==
  LET free == {i \in Arr : i < max_fdset /\ fd_array[i] = NULL}
  IN  /\ pc[t] = "get" /\ mutex = t /\ max_fdset + 1 >= NARR
      /\ mutex' = NULL
      /\ \/ /\ free # {}
            /\ Chosen(t, LowestOf(free), "filp")
            /\ ref_fdarr' = fdtable_get
            /\ broken' = (LowestOf(free) \in Others(t))
         \/ /\ free = {}
            /\ Goto(t, "user")
            /\ broken' = (max_fdset > NARR)
            /\ UNCHANGED <<ref_fdarr, fd, held>>
      /\ UNCHANGED <<fd_array, fds, max_fdset, lvars>>

-----------------------------------------------------------------------------
(* fwk_get_expand_fdtable, without the mutex *)

ExpandTest(t) ==
  /\ pc[t] = "expand"
  /\ Goto(t, IF fds = NULL THEN "alloc" ELSE "search")
  /\ UNCHANGED <<tvars, mutex, fd, lvars, held, broken>>

\* kcalloc does not clear its memory, and may have none.  An array that another
\* thread has made since the test is overwritten.
ExpandAlloc(t) ==
  /\ pc[t] = "alloc"
  /\ fds' \in [Exp -> {NULL, "garbage"}] \cup {NULL}
  /\ Goto(t, IF fds' = NULL THEN "fail" ELSE "search")
  /\ broken' = (fds # NULL)
  /\ UNCHANGED <<fd_array, max_fdset, ref_fdarr, mutex, fd, lvars, held>>

\* One turn of the loop over fds
ExpandSearch(t) ==
  /\ pc[t] = "search"
  /\ \/ /\ fds[index[t]] = NULL
        /\ Chosen(t, index[t], "fdget")
        /\ index' = [index EXCEPT ![t] = NARR]
        /\ broken' = (index[t] \in Others(t))
     \/ /\ fds[index[t]] # NULL /\ index[t] + 1 \in Exp
        /\ index' = [index EXCEPT ![t] = @ + 1]
        /\ UNCHANGED <<pc, fd, held, broken>>
     \/ /\ fds[index[t]] # NULL /\ index[t] + 1 \notin Exp
        /\ index' = [index EXCEPT ![t] = NARR]
        /\ Goto(t, "fail")
        /\ UNCHANGED <<fd, held, broken>>
  /\ UNCHANGED <<tvars, mutex, seen>>

\* max_fdset is read and written in two steps.
ExpandRead(t) ==
  /\ pc[t] = "fdget"
  /\ seen' = [seen EXCEPT ![t] = max_fdset]
  /\ Goto(t, "max")
  /\ UNCHANGED <<tvars, mutex, fd, index, held, broken>>

\* A thread in a critical section may have read max_fdset already: what it
\* writes then replaces this.
ExpandStore(t) ==
  /\ pc[t] = "max"
  /\ \/ max_fdset' = IF seen[t] > fd[t] THEN seen[t] ELSE fd[t]
     \/ mutex # NULL /\ UNCHANGED max_fdset
  /\ seen' = [seen EXCEPT ![t] = 0]
  /\ Goto(t, "unlock")
  /\ UNCHANGED <<fd_array, fds, ref_fdarr, mutex, fd, index, held, broken>>

\* The mutex is released, whoever has it.
Unlock(t) ==
  /\ \/ pc[t] = "unlock" /\ Goto(t, "filp")
     \/ pc[t] = "fail" /\ Goto(t, "user")
  /\ mutex' = NULL
  /\ broken' = (mutex # NULL)
  /\ UNCHANGED <<tvars, fd, lvars, held>>

-----------------------------------------------------------------------------
(* fwk_do_open *)

\* fwk_do_filp_open: the device is opened, or the descriptor goes back.
FilpOpen(t) ==
  /\ pc[t] = "filp"
  /\ \E p \in {"install", "put"} : Goto(t, p)
  /\ UNCHANGED <<tvars, mutex, fd, lvars, held, broken>>

\* fwk_fd_install: the slot is tested outside the mutex.
InstallTest(t) ==
  /\ pc[t] = "install"
  /\ Goto(t, IF Slot(fd[t]) = NULL THEN "store" ELSE "put")
  /\ UNCHANGED <<tvars, mutex, fd, lvars, held, broken>>

Install(t) ==
  /\ pc[t] = "store" /\ mutex = t
  /\ IF fd[t] \in Arr
     THEN fd_array' = [fd_array EXCEPT ![fd[t]] = t] /\ UNCHANGED fds
     ELSE fds' = [fds EXCEPT ![fd[t]] = t] /\ UNCHANGED fd_array
  /\ held' = [held EXCEPT ![t] = @ \cup {fd[t]}]
  /\ fd' = [fd EXCEPT ![t] = NULL]
  /\ mutex' = NULL
  /\ Goto(t, "user")
  /\ UNCHANGED <<max_fdset, ref_fdarr, lvars, broken>>

-----------------------------------------------------------------------------
(* fwk_do_close *)

\* fwk_do_filp_close: the file is gone before its descriptor is.
Close(t) ==
  /\ pc[t] = "user"
  /\ \E i \in held[t] :
       /\ held' = [held EXCEPT ![t] = @ \ {i}]
       /\ fd' = [fd EXCEPT ![t] = i]
  /\ Goto(t, "put")
  /\ UNCHANGED <<tvars, mutex, lvars, broken>>

\* Bug: the highest is lowered whatever is given back.
Lowered_Always(i) == i - 1

Lowered(i) == IF max_fdset > i THEN max_fdset ELSE i - 1

Done(t) ==
  /\ fd' = [fd EXCEPT ![t] = NULL]
  /\ mutex' = NULL
  /\ Goto(t, "user")
  /\ UNCHANGED held

\* Bug: the count is left alone.
Put_KeepsRef(t) ==
  /\ pc[t] = "put" /\ mutex = t /\ fd[t] \in Arr
  /\ fd_array' = [fd_array EXCEPT ![fd[t]] = NULL]
  /\ max_fdset' = Lowered(fd[t])
  /\ Done(t)
  /\ UNCHANGED <<fds, ref_fdarr, lvars, broken>>

\* fwk_put_used_fd_flags
Put(t) ==
  /\ pc[t] = "put" /\ mutex = t /\ fd[t] \in Arr
  /\ fd_array' = [fd_array EXCEPT ![fd[t]] = NULL]
  /\ max_fdset' = Lowered(fd[t])
  /\ ref_fdarr' = IF ref_fdarr > STDIO THEN ref_fdarr - 1 ELSE STDIO
  /\ Done(t)
  /\ UNCHANGED <<fds, lvars, broken>>

\* fwk_put_expand_fdtable: with its first descriptor the array goes, even if
\* others of its descriptors are in use or another thread is searching it.
PutExpand(t) ==
  /\ pc[t] = "put" /\ mutex = t /\ fd[t] \in Exp
  /\ fds' = IF fds = NULL \/ fd[t] = NARR THEN NULL
            ELSE [fds EXCEPT ![fd[t]] = NULL]
  /\ max_fdset' = IF fds = NULL THEN max_fdset ELSE Lowered(fd[t])
  /\ broken' = (/\ fd[t] = NARR
                /\ \/ (Others(t) \cup held[t]) \cap Exp # {}
                   \/ \E u \in Thread : pc[u] = "search")
  /\ Done(t)
  /\ UNCHANGED <<fd_array, ref_fdarr, lvars>>

-----------------------------------------------------------------------------
Step(t) ==
  \/ Avail(t) \/ MutexLock(t) \/ Backward(t) \/ Scan(t)
  \/ ExpandTest(t) \/ ExpandAlloc(t) \/ ExpandSearch(t) \/ ExpandRead(t)
  \/ ExpandStore(t) \/ Unlock(t)
  \/ FilpOpen(t) \/ InstallTest(t) \/ Install(t)
  \/ Close(t) \/ Put(t) \/ PutExpand(t)

\* Two files on one descriptor, a descriptor in freed memory, or a critical
\* section that is not one: what follows depends on the devices.
Undefined == broken /\ UNCHANGED vars

Next == (~broken /\ \E t \in Thread : Step(t)) \/ Undefined

Spec == Init /\ [][Next]_vars
-----------------------------------------------------------------------------
(* Properties *)

\* Descriptors of fd_array that t has, is opening or is closing
Mine(t) == (held[t] \cup {fd[t]}) \cap Arr

\* virt_open, virt_close: a descriptor leads to the file it was opened for as
\* long as its thread has it open, and no other file is in the table.
SlotsMatch ==
  ~broken =>
    /\ \A t \in Thread : \A i \in held[t] : Slot(i) = t
    /\ \A i \in Arr \cup Exp :
         Slot(i) \in Thread => i \in held[Slot(i)] \cup {fd[Slot(i)]}

\* fwk_fcntl.h:35 ref_fdarr counts the descriptors of fd_array that are given
\* out, whatever opens and closes fail or are under way.
RefCounted ==
  ~broken =>
    ref_fdarr = STDIO + Cardinality({p \in Thread \X Arr : p[2] \in Mine(p[1])})
=============================================================================
