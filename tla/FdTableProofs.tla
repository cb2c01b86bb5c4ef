--------------------------- MODULE FdTableProofs ---------------------------
(***************************************************************************)
(* Proofs about FdTable.tla: whatever the sizes of the two arrays and the  *)
(* number of threads, until two threads meet in one of the gaps between    *)
(* the critical sections (broken), every descriptor leads to its own file  *)
(* and ref_fdarr counts the descriptors of fd_array in use.                *)
(***************************************************************************)
EXTENDS FdTable, FiniteSetTheorems, WellFoundedInduction, TLAPS

\* Without a descriptor, with one whose slot is empty yet, giving one back
Idle == {"user", "get", "expand", "alloc", "search", "fail"}
Opening == {"fdget", "max", "unlock", "filp", "install", "store"}
Place == Idle \cup Opening \cup {"put"}

ExpArray == [Exp -> Thread \cup {NULL, "garbage"}]

\* What t has open, or is opening or closing (NULL: nothing)
Has(t) == held[t] \cup {fd[t]}

TypeInv ==
  /\ fd_array \in [Arr -> Thread \cup {NULL, "stdio"}]
  /\ fds = NULL \/ fds \in ExpArray
  /\ max_fdset \in Nat /\ max_fdset >= STDIO - 1
  /\ pc \in [Thread -> Place]
  /\ fd \in [Thread -> Arr \cup Exp \cup {NULL}]
  /\ held \in [Thread -> SUBSET (Arr \cup Exp)]
  /\ index \in [Thread -> Exp] /\ seen \in [Thread -> Nat]

\* No descriptor is in two hands, and none of fd_array is above the highest in
\* use.
UseInv ==
  /\ \A t \in Thread :
       /\ fd[t] = NULL <=> pc[t] \in Idle
       /\ pc[t] \in {"fdget", "max"} => fd[t] \in Exp
       /\ fd[t] \notin held[t]
       /\ \A i \in Has(t) \ {NULL} : STDIO <= i /\ (i \in Arr => i <= max_fdset)
  /\ \A t, u \in Thread : t # u => Has(t) \cap Has(u) \subseteq {NULL}

\* A slot holds the file of the thread that has its descriptor, a descriptor
\* that is being opened has an empty slot, and the expanded array is there as
\* long as it is searched or one of its descriptors is in use.
SlotInv ==
  /\ \A i \in Arr : fd_array[i] = "stdio" <=> i < STDIO
  /\ \A t \in Thread :
       /\ \A i \in held[t] : Slot(i) = t
       /\ pc[t] \in Opening => Slot(fd[t]) = NULL
       /\ Has(t) \cap Exp # {} \/ pc[t] = "search" => fds # NULL
  /\ \A i \in Arr \cup Exp : Slot(i) \in Thread => i \in Has(Slot(i))

\* The descriptors of fd_array in use, each with its thread
Pairs == {p \in Thread \X Arr : p[2] \in Mine(p[1])}

CountInv == IsFiniteSet(Pairs) /\ ref_fdarr = STDIO + Cardinality(Pairs)

Inv == TypeInv /\ UseInv /\ SlotInv /\ CountInv
IInv == broken \in BOOLEAN /\ (~broken => Inv)
-----------------------------------------------------------------------------
(* The steps, by what they do to the table *)

\* A step of virt_open that chooses, installs and gives back nothing keeps Inv.
LEMMA QuietStep ==
  ASSUME Inv, NEW t \in Thread, NEW p \in Place,
         UNCHANGED <<fd_array, fds, ref_fdarr, fd, held>>, Goto(t, p),
         pc[t] \in Idle <=> p \in Idle,
         p \in Opening => Slot(fd[t]) = NULL,
         p = "search" => fds # NULL,
         p \in {"fdget", "max"} => fd[t] \in Exp,
         max_fdset' \in Nat, max_fdset' >= STDIO - 1,
         \A i \in Arr : i <= max_fdset => i <= max_fdset',
         index' \in [Thread -> Exp], seen' \in [Thread -> Nat]
  PROVE  Inv'
<1> USE DEF Inv
<1>1. \A i : (Slot(i))' = Slot(i)
  BY DEF Slot
<1>2. \A u : (Has(u))' = Has(u)
  BY DEF Has
<1>3. pc' \in [Thread -> Place] /\ pc'[t] = p
      /\ \A u \in Thread \ {t} : pc'[u] = pc[u]
  BY DEF Goto, TypeInv
<1>4. TypeInv'
  BY <1>3 DEF TypeInv
<1>5. UseInv'
  <2>1. \A u \in Thread :
          /\ fd'[u] = NULL <=> pc'[u] \in Idle
          /\ pc'[u] \in {"fdget", "max"} => fd'[u] \in Exp
    BY <1>3 DEF UseInv
  <2> QED  BY <2>1, <1>2 DEF UseInv
<1>6. SlotInv'
  <2>1. \A u \in Thread :
          /\ pc'[u] \in Opening => (Slot(fd[u]))' = NULL
          /\ pc'[u] = "search" => fds' # NULL
    BY <1>1, <1>3 DEF SlotInv, Slot
  <2>2. \A i \in Arr \cup Exp :
          (Slot(i))' \in Thread => i \in (Has(Slot(i)))'
    BY <1>1, <1>2 DEF SlotInv, Has, Slot
  <2>3. \A u \in Thread : \A i \in held'[u] : (Slot(i))' = u
    BY <1>1 DEF SlotInv
  <2> QED  BY <2>1, <2>2, <2>3, <1>2 DEF SlotInv
<1>7. Pairs' = Pairs
  BY DEF Pairs, Mine
<1> QED  BY <1>4, <1>5, <1>6, <1>7 DEF CountInv

\* The same for a step that changes nothing but pc.
LEMMA PcStep ==
  ASSUME Inv, NEW t \in Thread, NEW p \in Place,
         UNCHANGED <<tvars, fd, lvars, held>>, Goto(t, p),
         pc[t] \in Idle <=> p \in Idle,
         p \in Opening => Slot(fd[t]) = NULL,
         p = "search" => fds # NULL,
         p \notin {"fdget", "max"}
  PROVE  Inv'
<1>1. /\ max_fdset' \in Nat /\ max_fdset' >= STDIO - 1
      /\ \A i \in Arr : i <= max_fdset => i <= max_fdset'
      /\ index' \in [Thread -> Exp] /\ seen' \in [Thread -> Nat]
  BY DEF Inv, TypeInv, tvars, lvars
<1> QED  BY <1>1, QuietStep DEF tvars

\* kcalloc keeps Inv when there was no array: none of the descriptors it stands
\* for is in a hand.
LEMMA AllocKeeps ==
  ASSUME Inv, NEW t \in Thread, ExpandAlloc(t), fds = NULL
  PROVE  Inv'
<1> USE DEF Inv
<1> DEFINE p == IF fds' = NULL THEN "fail" ELSE "search"
<1>0. /\ p \in {"fail", "search"}
      /\ p = "search" => fds' # NULL
      /\ pc' = [pc EXCEPT ![t] = p]
  BY DEF ExpandAlloc, Goto
<1> HIDE DEF p
<1>1. /\ pc' \in [Thread -> Place] /\ pc'[t] = p
      /\ \A u \in Thread \ {t} : pc'[u] = pc[u]
  <2>1. p \in Place
    BY <1>0 DEF Place, Idle
  <2>2. pc \in [Thread -> Place]
    BY DEF TypeInv
  <2> QED  BY <1>0, <2>1, <2>2
<1>2. /\ UNCHANGED <<fd_array, max_fdset, ref_fdarr, fd, held, index, seen>>
      /\ fds' = NULL \/ fds' \in [Exp -> {NULL, "garbage"}]
      /\ pc[t] = "alloc"
  BY DEF ExpandAlloc, lvars
<1>3. \A u : (Has(u))' = Has(u)
  BY <1>2 DEF Has
<1>4. \A u \in Thread : Has(u) \cap Exp = {} /\ pc[u] # "search"
  BY DEF SlotInv
<1>5. \A i \in Arr : (Slot(i))' = Slot(i)
  BY <1>2 DEF Slot
<1>6. \A i \in Exp \ Arr : (Slot(i))' \in {NULL, "garbage"}
  BY <1>2 DEF Slot
<1>7. TypeInv'
  BY <1>1, <1>2 DEF TypeInv, ExpArray
<1>8. UseInv'
  <2>1. \A u \in Thread :
          /\ fd'[u] = NULL <=> pc'[u] \in Idle
          /\ pc'[u] \in {"fdget", "max"} => fd'[u] \in Exp
    BY <1>0, <1>1, <1>2 DEF UseInv, Idle
  <2> QED  BY <2>1, <1>2, <1>3 DEF UseInv
<1>9. SlotInv'
  <2>1. \A u \in Thread : \A i \in held'[u] : i \in Arr /\ (Slot(i))' = u
    BY <1>2, <1>4, <1>5 DEF SlotInv, TypeInv, Has
  <2>2. \A u \in Thread : pc'[u] \in Opening => (Slot(fd[u]))' = NULL
    <3> TAKE u \in Thread
    <3> HAVE pc'[u] \in Opening
    <3>1. u # t /\ pc[u] \in Opening
      BY <1>0, <1>1 DEF Opening
    <3>2. fd[u] \in Arr
      BY <3>1, <1>4 DEF UseInv, TypeInv, Has, Idle, Opening
    <3>3. (Slot(fd[u]))' = fd_array'[fd[u]] /\ Slot(fd[u]) = fd_array[fd[u]]
      BY <3>2, <1>2 DEF Slot
    <3> QED  BY <3>1, <3>3, <1>2 DEF SlotInv
  <2>3. \A u \in Thread :
          (Has(u))' \cap Exp # {} \/ pc'[u] = "search" => fds' # NULL
    <3>1. \A u \in Thread : (Has(u))' \cap Exp = {}
      BY <1>3, <1>4
    <3>2. \A u \in Thread : pc'[u] = "search" => u = t
      BY <1>1, <1>4
    <3> QED  BY <3>1, <3>2, <1>0, <1>1
  <2>4. ASSUME NEW i \in Arr \cup Exp, (Slot(i))' \in Thread
        PROVE  i \in (Has(Slot(i)))'
    <3>1. i \in Arr
      BY <2>4, <1>6, FdTableAssumption
    <3>2. Slot(i) \in Thread /\ i \in Has(Slot(i)) /\ (Slot(i))' = Slot(i)
      BY <3>1, <2>4, <1>5 DEF SlotInv
    <3>3. (Has(Slot(i)))' = Has(Slot(i))
      BY <3>1, <1>2 DEF Has, Slot
    <3> QED  BY <3>2, <3>3
  <2>5. \A i \in Arr : fd_array'[i] = "stdio" <=> i < STDIO
    BY <1>2 DEF SlotInv
  <2> QED  BY <2>1, <2>2, <2>3, <2>4, <2>5 DEF SlotInv
<1>10. Pairs' = Pairs
  BY <1>2 DEF Pairs, Mine
<1> QED  BY <1>7, <1>8, <1>9, <1>10, <1>2 DEF CountInv

\* fwk_get_unused_fd_flags keeps Inv when what it returns is in no hand.
LEMMA ChooseStep ==
  ASSUME Inv, NEW t \in Thread, NEW i \in Arr \cup Exp,
         fd[t] = NULL, STDIO <= i, Slot(i) = NULL,
         \A u \in Thread : i \notin Has(u),
         NEW p \in Opening, Chosen(t, i, p),
         p \in {"fdget", "max"} => i \in Exp,
         fd_array' = fd_array, fds' = fds, i \in Exp => fds # NULL,
         index' \in [Thread -> Exp], seen' = seen,
         max_fdset' \in Nat, max_fdset' >= max_fdset,
         i \in Arr => max_fdset' >= i,
         ref_fdarr' = IF i \in Arr THEN ref_fdarr + 1 ELSE ref_fdarr
  PROVE  Inv'
<1> USE DEF Inv, Chosen, Goto
<1> USE DEF Place, Opening, Idle
<1>9. \A j : (Slot(j))' = Slot(j)
  BY DEF Slot
<1>0. i # NULL /\ \A u \in Thread : NULL \notin held[u]
  BY NullAssumption DEF TypeInv
<1>1. /\ pc' \in [Thread -> Place] /\ pc'[t] = p
      /\ fd' \in [Thread -> Arr \cup Exp \cup {NULL}] /\ fd'[t] = i
      /\ \A u \in Thread \ {t} : pc'[u] = pc[u] /\ fd'[u] = fd[u]
  BY DEF TypeInv, Place
<1>2. \A u \in Thread : (Has(u))' = held[u] \cup {fd'[u]}
  BY DEF Has
<1>3. \A u \in Thread : u # t => (Has(u))' = Has(u)
  BY <1>1 DEF Has
<1>4. (Has(t))' = held[t] \cup {i}
  BY <1>1 DEF Has
<1>5. TypeInv'
  BY <1>1, FdTableAssumption DEF TypeInv
<1>6. UseInv'
  <2>1. \A u \in Thread :
          /\ fd'[u] = NULL <=> pc'[u] \in Idle
          /\ pc'[u] \in {"fdget", "max"} => fd'[u] \in Exp
          /\ fd'[u] \notin held'[u]
    BY <1>0, <1>1 DEF UseInv, Has
  <2>2. ASSUME NEW u \in Thread, NEW j \in (Has(u))' \ {NULL}
        PROVE  STDIO <= j /\ (j \in Arr => j <= max_fdset')
    <3>1. CASE j = i
      BY <3>1
    <3>2. CASE j # i
      <4>1. j \in Has(u) \ {NULL}
        BY <3>2, <1>3, <1>4 DEF Has
      <4>2. j \in Nat
        <5>1. j \in Arr \cup Exp
          BY <4>1 DEF TypeInv, Has
        <5> QED  BY <5>1, FdTableAssumption DEF Arr, Exp
      <4> QED  BY <4>1, <4>2 DEF UseInv, TypeInv
    <3> QED  BY <3>1, <3>2
  <2>3. \A u, w \in Thread : u # w => (Has(u))' \cap (Has(w))' \subseteq {NULL}
    <3>1. \A u \in Thread : u # t => (Has(t))' \cap Has(u) \subseteq {NULL}
      BY <1>4 DEF UseInv, Has
    <3> QED  BY <3>1, <1>3 DEF UseInv
  <2> QED  BY <2>1, <2>2, <2>3 DEF UseInv
<1>7. SlotInv'
  <2>1. \A j \in Arr : fd_array'[j] = "stdio" <=> j < STDIO
    BY DEF SlotInv
  <2>2. \A u \in Thread : \A j \in held'[u] : (Slot(j))' = u
    BY <1>9 DEF SlotInv, TypeInv
  <2>3. ASSUME NEW u \in Thread, pc'[u] \in Opening
        PROVE  (Slot(fd[u]))' = NULL
    <3>1. fd'[u] \in Arr \cup Exp
      BY <2>3, <1>1 DEF UseInv, TypeInv
    <3>2. fd'[u] # i => u # t /\ fd'[u] = fd[u]
      BY <1>1
    <3>3. Slot(fd'[u]) = NULL
      BY <3>2, <2>3, <1>1 DEF SlotInv
    <3>4. (Slot(fd[u]))' = Slot(fd'[u])
      BY DEF Slot
    <3> QED  BY <3>3, <3>4
  <2>4. \A u \in Thread :
          (Has(u))' \cap Exp # {} \/ pc'[u] = "search" => fds' # NULL
    <3>1. \A u \in Thread : (Has(u))' \subseteq Has(u) \cup {i}
      BY <1>3, <1>4 DEF Has
    <3> QED  BY <3>1, <1>1 DEF SlotInv
  <2>5. ASSUME NEW j \in Arr \cup Exp, (Slot(j))' \in Thread
        PROVE  j \in (Has(Slot(j)))'
    <3>1. Slot(j) \in Thread /\ j \in Has(Slot(j)) /\ j # NULL
      BY <2>5, <1>9, NullAssumption DEF SlotInv
    <3>2. \A u \in Thread : j \in Has(u) => j \in (Has(u))'
      BY <3>1, <1>3, <1>4 DEF Has
    <3>3. (Has(Slot(j)))' = held'[Slot(j)] \cup {fd'[Slot(j)]}
      BY DEF Has, Slot
    <3> QED  BY <3>1, <3>2, <3>3 DEF Has
  <2> QED  BY <2>1, <2>2, <2>3, <2>4, <2>5 DEF SlotInv
<1>8. CountInv'
  <2>1. \A u \in Thread : (Mine(u))' =
           IF u = t THEN Mine(u) \cup ({i} \cap Arr) ELSE Mine(u)
    BY <1>1, NullAssumption DEF Mine
  <2>2. CASE i \in Arr
    <3>1. Pairs' = Pairs \cup {<<t, i>>}
      BY <2>1, <2>2 DEF Pairs
    <3>2. <<t, i>> \notin Pairs
      BY DEF Pairs, Mine, Has
    <3>3. Cardinality(Pairs) \in Nat
      BY FS_CardinalityType DEF CountInv
    <3>4. IsFiniteSet(Pairs') /\ Cardinality(Pairs') = Cardinality(Pairs) + 1
      BY <3>1, <3>2, FS_AddElement DEF CountInv
    <3> QED  BY <3>3, <3>4, <2>2, FdTableAssumption DEF CountInv
  <2>3. CASE i \notin Arr
    <3>1. Pairs' = Pairs
      BY <2>1, <2>3 DEF Pairs
    <3> QED  BY <3>1, <2>3 DEF CountInv
  <2> QED  BY <2>2, <2>3
<1> QED  BY <1>5, <1>6, <1>7, <1>8

\* Giving back the descriptor i keeps Inv: its slot is emptied, no other one
\* is, and the highest in use is lowered when it was i.
LEMMA ReleaseStep ==
  ASSUME Inv, NEW t \in Thread, NEW i \in Arr \cup Exp, pc[t] = "put", fd[t] = i,
         Done(t), max_fdset' = Lowered(i),
         fd_array' \in [Arr -> Thread \cup {NULL, "stdio"}],
         fds' = NULL \/ fds' \in ExpArray,
         \A u \in Thread :
           (Has(u) \ {i}) \cap Exp # {} \/ pc[u] = "search" => fds' # NULL,
         (Slot(i))' = NULL, UNCHANGED lvars,
         \A j \in Arr \ {i} : fd_array'[j] = fd_array[j],
         \A j \in (Arr \cup Exp) \ {i} :
           \/ (Slot(j))' = Slot(j)
           \/ Slot(j) = "garbage" /\ (Slot(j))' = NULL,
         ref_fdarr' = IF i \in Arr THEN ref_fdarr - 1 ELSE ref_fdarr
  PROVE  Inv'
<1> USE DEF Inv, Done, Goto, lvars, Place, Opening, Idle
<1>0. i # NULL /\ NULL # "stdio" /\ i \in Nat /\ STDIO <= i /\ (i \in Arr => i <= max_fdset)
      /\ \A u \in Thread : NULL \notin held[u] /\ i \notin held[u]
  <2>1. i # NULL /\ NULL # "stdio" /\ \A u \in Thread : NULL \notin held[u]
    BY NullAssumption, FdTableAssumption DEF TypeInv
  <2>2. i \in Nat
    BY FdTableAssumption DEF Arr, Exp
  <2>3. STDIO <= i /\ (i \in Arr => i <= max_fdset)
    BY <2>1 DEF UseInv, Has
  <2>4. \A u \in Thread : i \notin held[u]
    BY <2>1 DEF UseInv, Has
  <2> QED  BY <2>1, <2>2, <2>3, <2>4
<1>1. /\ pc' \in [Thread -> Place] /\ pc'[t] = "user"
      /\ fd' \in [Thread -> Arr \cup Exp \cup {NULL}] /\ fd'[t] = NULL
      /\ \A u \in Thread \ {t} : pc'[u] = pc[u] /\ fd'[u] = fd[u]
  BY DEF TypeInv, Place
<1>2. \A u \in Thread : u # t => (Has(u))' = Has(u) /\ i \notin Has(u)
  BY <1>0, <1>1 DEF Has, UseInv
<1>3. (Has(t))' = held[t] \cup {NULL} /\ Has(t) = held[t] \cup {i}
  BY <1>1 DEF Has
<1>4. max_fdset' \in Nat /\ max_fdset' >= STDIO - 1
      /\ \A j \in Nat : j <= max_fdset /\ j # i => j <= max_fdset'
  BY <1>0, FdTableAssumption DEF Lowered, TypeInv
<1>5. TypeInv'
  BY <1>1, <1>4 DEF TypeInv
<1>6. UseInv'
  <2>1. \A u \in Thread :
          /\ fd'[u] = NULL <=> pc'[u] \in Idle
          /\ pc'[u] \in {"fdget", "max"} => fd'[u] \in Exp
          /\ fd'[u] \notin held'[u]
    BY <1>0, <1>1 DEF UseInv
  <2>2. ASSUME NEW u \in Thread, NEW j \in (Has(u))' \ {NULL}
        PROVE  STDIO <= j /\ (j \in Arr => j <= max_fdset')
    <3>1. j \in Has(u) \ {NULL} /\ j # i
      BY <1>0, <1>2, <1>3
    <3>2. j \in Nat
      <4>1. j \in Arr \cup Exp
        BY <3>1 DEF TypeInv, Has
      <4> QED  BY <4>1, FdTableAssumption DEF Arr, Exp
    <3> QED  BY <3>1, <3>2, <1>4 DEF UseInv
  <2>3. \A u, w \in Thread : u # w => (Has(u))' \cap (Has(w))' \subseteq {NULL}
    <3>1. \A u \in Thread : u # t => (Has(t))' \cap Has(u) \subseteq {NULL}
      BY <1>3 DEF UseInv
    <3> QED  BY <3>1, <1>2 DEF UseInv
  <2> QED  BY <2>1, <2>2, <2>3 DEF UseInv
<1>7. SlotInv'
  <2>1. \A j \in Arr : fd_array'[j] = "stdio" <=> j < STDIO
    <3>1. \A j \in Arr : fd_array'[j] = (Slot(j))' /\ fd_array[j] = Slot(j)
      BY DEF Slot
    <3>2. \A j \in Arr : j # i => fd_array'[j] = fd_array[j]
      OBVIOUS
    <3>3. i \in Arr => fd_array'[i] = NULL /\ ~(i < STDIO)
      BY <3>1, <1>0, FdTableAssumption
    <3> QED  BY <3>2, <3>3, <1>0 DEF SlotInv
  <2>2. \A u \in Thread : \A j \in held'[u] : (Slot(j))' = u
    BY <1>0, FdTableAssumption DEF SlotInv, TypeInv
  <2>3. ASSUME NEW u \in Thread, pc'[u] \in Opening
        PROVE  (Slot(fd[u]))' = NULL
    <3>1. u # t /\ fd'[u] = fd[u] /\ fd[u] \in Arr \cup Exp /\ fd[u] # i
          /\ Slot(fd[u]) = NULL
      BY <2>3, <1>1, <1>2 DEF UseInv, TypeInv, Has, SlotInv
    <3>2. PICK j \in (Arr \cup Exp) \ {i} : j = fd[u]
      BY <3>1
    <3>3. (Slot(fd[u]))' = (Slot(j))'
      BY <3>1, <3>2 DEF Slot
    <3> QED  BY <3>1, <3>2, <3>3, FdTableAssumption
  <2>4. \A u \in Thread :
          (Has(u))' \cap Exp # {} \/ pc'[u] = "search" => fds' # NULL
    <3>1. \A u \in Thread : (Has(u))' \subseteq (Has(u) \ {i}) \cup {NULL}
      BY <1>0, <1>2, <1>3
    <3> QED  BY <3>1, <1>1, NullAssumption
  <2>5. ASSUME NEW j \in Arr \cup Exp, (Slot(j))' \in Thread
        PROVE  j \in (Has(Slot(j)))'
    <3>1. j # i /\ j # NULL
      BY <2>5, FdTableAssumption, NullAssumption
    <3>2. Slot(j) \in Thread /\ j \in Has(Slot(j)) /\ (Slot(j))' = Slot(j)
      BY <2>5, <3>1, FdTableAssumption DEF SlotInv
    <3>3. PICK u \in Thread : u = Slot(j)
      BY <3>2
    <3>4. j \in (Has(u))'
      BY <3>1, <3>2, <3>3, <1>2, <1>3
    <3>5. (Has(Slot(j)))' = (Has(u))'
      BY <3>2, <3>3 DEF Has
    <3> QED  BY <3>4, <3>5
  <2> QED  BY <2>1, <2>2, <2>3, <2>4, <2>5 DEF SlotInv
<1>8. CountInv'
  <2>1. \A u \in Thread : (Mine(u))' = IF u = t THEN Mine(u) \ {i} ELSE Mine(u)
    BY <1>0, <1>1, NullAssumption DEF Mine
  <2>2. CASE i \in Arr
    <3>1. Pairs' = Pairs \ {<<t, i>>}
      BY <2>1, <2>2 DEF Pairs
    <3>2. <<t, i>> \in Pairs
      BY <2>2 DEF Pairs, Mine
    <3>3. Cardinality(Pairs) \in Nat
      BY FS_CardinalityType DEF CountInv
    <3>4. IsFiniteSet(Pairs') /\ Cardinality(Pairs') = Cardinality(Pairs) - 1
      BY <3>1, <3>2, FS_RemoveElement DEF CountInv
    <3> QED  BY <3>3, <3>4, <2>2, FdTableAssumption DEF CountInv
  <2>3. CASE i \notin Arr
    <3>1. Pairs' = Pairs
      BY <2>1, <2>3 DEF Pairs, Mine
    <3> QED  BY <3>1, <2>3 DEF CountInv
  <2> QED  BY <2>2, <2>3
<1> QED  BY <1>5, <1>6, <1>7, <1>8

\* ref_fdarr is above STDIO while a descriptor of fd_array is in use.
LEMMA RefPositive ==
  ASSUME Inv, NEW t \in Thread, fd[t] \in Arr
  PROVE  ref_fdarr > STDIO
<1>1. <<t, fd[t]>> \in Pairs
  BY DEF Pairs, Mine
<1>2. Cardinality(Pairs) # 0
  BY <1>1, FS_EmptySet DEF Inv, CountInv
<1>3. Cardinality(Pairs) \in Nat
  BY FS_CardinalityType DEF Inv, CountInv
<1> QED  BY <1>2, <1>3, FdTableAssumption DEF Inv, CountInv

\* ref_fdarr is below NARR while a descriptor of fd_array is in no hand: those
\* in use are all different, and none of them is below STDIO.
LEMMA RefRoom ==
  ASSUME Inv, NEW i \in Arr, STDIO <= i, \A u \in Thread : i \notin Has(u),
         NEW t \in Thread
  PROVE  ref_fdarr < NARR
<1> DEFINE Wide == Pairs \cup {<<t, i>>}
           Room == STDIO..(NARR - 1)
           f    == [p \in Wide |-> p[2]]
<1>1. \A p \in Pairs : /\ p[1] \in Thread /\ p[2] \in Arr /\ p = <<p[1], p[2]>>
                       /\ p[2] \in Has(p[1])
  BY DEF Pairs, Mine, Has
<1>2. \A p \in Pairs : p[2] \in Room /\ p[2] # i
  <2> SUFFICES ASSUME NEW p \in Pairs PROVE p[2] \in Room /\ p[2] # i
    OBVIOUS
  <2>1. p[2] \in Has(p[1]) \ {NULL} /\ p[1] \in Thread /\ p[2] \in Arr
    BY <1>1, NullAssumption
  <2>2. STDIO <= p[2]
    BY <2>1 DEF Inv, UseInv
  <2> QED  BY <2>1, <2>2, FdTableAssumption DEF Arr
<1>3. \A p, q \in Wide : p[2] = q[2] => p = q
  <2>1. \A p, q \in Pairs : p[2] = q[2] => p = q
    <3> SUFFICES ASSUME NEW p \in Pairs, NEW q \in Pairs, p[2] = q[2]
                 PROVE  p = q
      OBVIOUS
    <3>1. p[2] # NULL /\ p[2] \in Has(p[1]) /\ p[2] \in Has(q[1])
      BY <1>1, NullAssumption
    <3>2. p[1] = q[1]
      BY <3>1, <1>1 DEF Inv, UseInv
    <3> QED  BY <3>2, <1>1
  <2> QED  BY <2>1, <1>2
<1>4. f \in Injection(Wide, Room)
  <2>1. f \in [Wide -> Room]
    BY <1>2, FdTableAssumption DEF Arr
  <2> QED  BY <2>1, <1>3 DEF Injection, IsInjective
<1>5. IsFiniteSet(Room) /\ Cardinality(Room) = NARR - STDIO
  BY FS_Interval, FdTableAssumption
<1>6. Cardinality(Wide) <= Cardinality(Room)
  <2> HIDE DEF f, Wide, Room
  <2> QED  BY <1>4, <1>5, FS_Injection
<1>7. <<t, i>> \notin Pairs
  BY <1>2
<1>8. Cardinality(Wide) = Cardinality(Pairs) + 1 /\ Cardinality(Pairs) \in Nat
  BY <1>7, FS_AddElement, FS_CardinalityType DEF Inv, CountInv
<1> HIDE DEF Wide, Room
<1> QED  BY <1>5, <1>6, <1>8, FdTableAssumption DEF Inv, CountInv

\* fwk_fd_install keeps Inv: the descriptor is t's, and its slot is empty.
LEMMA InstallKeeps ==
  ASSUME Inv, NEW t \in Thread, Install(t)
  PROVE  Inv'
<1> USE DEF Inv, Goto, Place, Idle, Opening, ExpArray, lvars
<1>1. PICK i \in Arr \cup Exp : i = fd[t] /\ i # NULL
  BY NullAssumption DEF Install, UseInv, TypeInv
<1>2. /\ pc[t] = "store" /\ fd[t] = i
      /\ held' = [held EXCEPT ![t] = @ \cup {i}]
      /\ fd' = [fd EXCEPT ![t] = NULL]
      /\ pc' = [pc EXCEPT ![t] = "user"]
      /\ max_fdset' = max_fdset /\ ref_fdarr' = ref_fdarr
      /\ index' = index /\ seen' = seen
  BY <1>1 DEF Install
<1>3. i \in Exp => fds \in ExpArray
  BY <1>1 DEF TypeInv, SlotInv, Has
<1>4. Arr \cap Exp = {}
  BY FdTableAssumption DEF Arr, Exp
<1>5. /\ fd_array' \in [Arr -> Thread \cup {NULL, "stdio"}]
      /\ fds' = NULL \/ fds' \in ExpArray
      /\ fds # NULL => fds' # NULL
  <2>1. CASE i \in Arr
    BY <2>1, <1>1 DEF Install, TypeInv
  <2>2. CASE i \in Exp
    BY <2>2, <1>1, <1>3, <1>4, NullAssumption DEF Install, TypeInv
  <2> QED  BY <2>1, <2>2
<1>6. (Slot(i))' = t /\ \A j \in (Arr \cup Exp) \ {i} : (Slot(j))' = Slot(j)
  <2>1. CASE i \in Arr
    <3>1. fd_array' = [fd_array EXCEPT ![i] = t] /\ fds' = fds
      BY <2>1, <1>1 DEF Install
    <3> QED  BY <3>1, <2>1 DEF Slot, TypeInv
  <2>2. CASE i \in Exp
    <3>1. i \notin Arr /\ fds' = [fds EXCEPT ![i] = t] /\ fd_array' = fd_array
      BY <2>2, <1>1, <1>4 DEF Install
    <3>2. fds # NULL /\ fds' # NULL
      BY <2>2, <1>3, <1>5, NullAssumption
    <3> QED  BY <3>1, <3>2, <2>2, <1>3 DEF Slot
  <2> QED  BY <2>1, <2>2
<1>7. /\ pc' \in [Thread -> Place] /\ pc'[t] = "user"
      /\ fd' \in [Thread -> Arr \cup Exp \cup {NULL}] /\ fd'[t] = NULL
      /\ held' \in [Thread -> SUBSET (Arr \cup Exp)] /\ held'[t] = held[t] \cup {i}
      /\ \A u \in Thread \ {t} :
           pc'[u] = pc[u] /\ fd'[u] = fd[u] /\ held'[u] = held[u]
  BY <1>2 DEF TypeInv, Place
<1>8. \A u \in Thread : /\ u # t => (Has(u))' = Has(u) /\ i \notin Has(u)
                        /\ (Has(t))' = Has(t) \cup {NULL}
  <2>1. \A u \in Thread : u # t => (Has(u))' = Has(u)
    BY <1>7 DEF Has
  <2>2. (Has(t))' = Has(t) \cup {NULL}
    BY <1>2, <1>7 DEF Has
  <2>3. \A u \in Thread : u # t => i \notin Has(u)
    BY <1>1 DEF UseInv, Has
  <2> QED  BY <2>1, <2>2, <2>3
<1>9. TypeInv'
  BY <1>2, <1>5, <1>7 DEF TypeInv
<1>10. UseInv'
  <2>1. \A u \in Thread :
          /\ fd'[u] = NULL <=> pc'[u] \in Idle
          /\ pc'[u] \in {"fdget", "max"} => fd'[u] \in Exp
          /\ fd'[u] \notin held'[u]
    BY <1>7, NullAssumption DEF UseInv
  <2>2. \A u \in Thread : \A j \in (Has(u))' \ {NULL} :
          STDIO <= j /\ (j \in Arr => j <= max_fdset')
    BY <1>2, <1>8 DEF UseInv
  <2>3. \A u, w \in Thread : u # w => (Has(u))' \cap (Has(w))' \subseteq {NULL}
    BY <1>8 DEF UseInv
  <2> QED  BY <2>1, <2>2, <2>3 DEF UseInv
<1>11. SlotInv'
  <2>1. \A j \in Arr : fd_array'[j] = "stdio" <=> j < STDIO
    <3>1. \A j \in Arr : fd_array'[j] = (Slot(j))' /\ fd_array[j] = Slot(j)
      BY DEF Slot
    <3>2. i \in Has(t) \ {NULL} /\ STDIO <= i /\ i \in Nat /\ t # "stdio"
      BY <1>1, FdTableAssumption DEF Has, UseInv, Arr, Exp
    <3>3. i \in Arr => fd_array'[i] # "stdio" /\ ~(i < STDIO)
      BY <3>1, <3>2, <1>6, FdTableAssumption
    <3> QED  BY <3>1, <3>3, <1>6 DEF SlotInv
  <2>2. \A u \in Thread : \A j \in held'[u] : (Slot(j))' = u
    <3>1. \A u \in Thread : \A j \in held'[u] :
            (j = i /\ u = t) \/ (j \in held[u] /\ j \in (Arr \cup Exp) \ {i})
      <4>1. held \in [Thread -> SUBSET (Arr \cup Exp)] /\ i \notin held[t]
        BY <1>1 DEF UseInv, TypeInv
      <4>2. \A u \in Thread : u # t => i \notin held[u]
        BY <1>8 DEF Has
      <4>0. held'[t] = held[t] \cup {i} /\ held[t] \subseteq Arr \cup Exp
        BY <4>1, <1>7
      <4>3. ASSUME NEW j \in held'[t], j # i
            PROVE  j \in held[t] /\ j \in (Arr \cup Exp) \ {i}
        <5>1. j \in held[t]
          BY <4>0, <4>3
        <5> QED  BY <5>1, <4>0, <4>3
      <4>4. \A u \in Thread \ {t} : \A j \in held'[u] :
              j \in held[u] /\ j \in (Arr \cup Exp) \ {i}
        <5>1. \A u \in Thread \ {t} :
                held'[u] = held[u] /\ held[u] \subseteq (Arr \cup Exp) \ {i}
          BY <4>1, <4>2, <1>7
        <5> QED  BY <5>1
      <4> TAKE u \in Thread
      <4>5. CASE u = t
        BY <4>5, <4>3
      <4>6. CASE u # t
        BY <4>6, <4>4
      <4> QED  BY <4>5, <4>6
    <3> QED  BY <3>1, <1>6 DEF SlotInv
  <2>3. ASSUME NEW u \in Thread, pc'[u] \in Opening
        PROVE  (Slot(fd[u]))' = NULL
    <3>1. u # t /\ fd'[u] = fd[u] /\ fd[u] \in Arr \cup Exp /\ fd[u] # i
          /\ Slot(fd[u]) = NULL
      BY <2>3, <1>7, <1>8 DEF UseInv, TypeInv, Has, SlotInv
    <3>2. PICK j \in (Arr \cup Exp) \ {i} : j = fd[u]
      BY <3>1
    <3>3. (Slot(fd[u]))' = (Slot(j))'
      BY <3>1, <3>2 DEF Slot
    <3> QED  BY <3>1, <3>2, <3>3, <1>6
  <2>4. \A u \in Thread :
          (Has(u))' \cap Exp # {} \/ pc'[u] = "search" => fds' # NULL
    BY <1>5, <1>7, <1>8, NullAssumption DEF SlotInv
  <2>5. ASSUME NEW j \in Arr \cup Exp, (Slot(j))' \in Thread
        PROVE  j \in (Has(Slot(j)))'
    <3>1. PICK u \in Thread : u = (Slot(j))'
      BY <2>5
    <3>2. j \in (Has(u))'
      <4>1. CASE j = i
        BY <4>1, <3>1, <1>6, <1>7 DEF Has
      <4>2. CASE j # i
        <5>1. u = Slot(j) /\ j \in Has(u)
          BY <4>2, <3>1, <1>6 DEF SlotInv
        <5> QED  BY <5>1, <1>8
      <4> QED  BY <4>1, <4>2
    <3>3. (Has(Slot(j)))' = (Has(u))'
      BY <3>1 DEF Has
    <3> QED  BY <3>2, <3>3
  <2> QED  BY <2>1, <2>2, <2>3, <2>4, <2>5 DEF SlotInv
<1>12. CountInv'
  <2>1. \A u \in Thread : (Mine(u))' = Mine(u)
    BY <1>1, <1>7, NullAssumption DEF Mine
  <2>2. Pairs' = Pairs
    BY <2>1 DEF Pairs
  <2> QED  BY <2>2, <1>2 DEF CountInv
<1> QED  BY <1>9, <1>10, <1>11, <1>12

\* fwk_do_filp_close keeps Inv: the descriptor passes from held to fd.
LEMMA CloseKeeps ==
  ASSUME Inv, NEW t \in Thread, Close(t)
  PROVE  Inv'
<1> USE DEF Inv, Goto, tvars, lvars, Place, Idle, Opening
<1>1. PICK i \in held[t] : /\ held' = [held EXCEPT ![t] = @ \ {i}]
                           /\ fd' = [fd EXCEPT ![t] = i]
  BY DEF Close
<1>2. /\ fd[t] = NULL /\ pc' = [pc EXCEPT ![t] = "put"]
      /\ fd_array' = fd_array /\ fds' = fds /\ max_fdset' = max_fdset
      /\ ref_fdarr' = ref_fdarr /\ index' = index /\ seen' = seen
      /\ i \in Arr \cup Exp /\ i # NULL
  BY NullAssumption DEF Close, UseInv, TypeInv
<1>3. /\ pc' \in [Thread -> Place] /\ pc'[t] = "put"
      /\ fd' \in [Thread -> Arr \cup Exp \cup {NULL}] /\ fd'[t] = i
      /\ held' \in [Thread -> SUBSET (Arr \cup Exp)] /\ held'[t] = held[t] \ {i}
      /\ \A u \in Thread \ {t} :
           pc'[u] = pc[u] /\ fd'[u] = fd[u] /\ held'[u] = held[u]
  BY <1>1, <1>2 DEF TypeInv, Place
<1>4. \A j : (Slot(j))' = Slot(j)
  BY <1>2 DEF Slot
<1>5. (\A u \in Thread : u # t => (Has(u))' = Has(u)) /\ (Has(t))' = Has(t) \ {NULL}
  <2>1. NULL \notin held[t]
    BY NullAssumption DEF TypeInv
  <2> QED  BY <2>1, <1>2, <1>3 DEF Has
<1>6. TypeInv'
  BY <1>2, <1>3 DEF TypeInv
<1>7. UseInv'
  <2>1. \A u \in Thread :
          /\ fd'[u] = NULL <=> pc'[u] \in Idle
          /\ pc'[u] \in {"fdget", "max"} => fd'[u] \in Exp
          /\ fd'[u] \notin held'[u]
    BY <1>2, <1>3 DEF UseInv
  <2>2. \A u \in Thread : \A j \in (Has(u))' \ {NULL} :
          STDIO <= j /\ (j \in Arr => j <= max_fdset')
    BY <1>2, <1>5 DEF UseInv
  <2>3. \A u, w \in Thread : u # w => (Has(u))' \cap (Has(w))' \subseteq {NULL}
    BY <1>5 DEF UseInv
  <2> QED  BY <2>1, <2>2, <2>3 DEF UseInv
<1>8. SlotInv'
  <2>1. \A j \in Arr : fd_array'[j] = "stdio" <=> j < STDIO
    BY <1>2 DEF SlotInv
  <2>2. \A u \in Thread : \A j \in held'[u] : (Slot(j))' = u
    BY <1>3, <1>4 DEF SlotInv
  <2>3. ASSUME NEW u \in Thread, pc'[u] \in Opening
        PROVE  (Slot(fd[u]))' = NULL
    <3>1. u # t /\ fd'[u] = fd[u] /\ Slot(fd[u]) = NULL
      BY <2>3, <1>3 DEF SlotInv
    <3> QED  BY <3>1, <1>2 DEF Slot
  <2>4. \A u \in Thread :
          (Has(u))' \cap Exp # {} \/ pc'[u] = "search" => fds' # NULL
    BY <1>2, <1>3, <1>5 DEF SlotInv
  <2>5. ASSUME NEW j \in Arr \cup Exp, (Slot(j))' \in Thread
        PROVE  j \in (Has(Slot(j)))'
    <3>1. PICK u \in Thread : u = (Slot(j))' /\ u = Slot(j)
      BY <2>5, <1>4
    <3>2. j \in (Has(u))'
      BY <3>1, <1>5, NullAssumption DEF SlotInv
    <3>3. (Has(Slot(j)))' = (Has(u))'
      BY <3>1 DEF Has
    <3> QED  BY <3>2, <3>3
  <2> QED  BY <2>1, <2>2, <2>3, <2>4, <2>5 DEF SlotInv
<1>9. CountInv'
  <2>1. \A u \in Thread : (Mine(u))' = Mine(u)
    BY <1>2, <1>3, NullAssumption DEF Mine
  <2>2. Pairs' = Pairs
    BY <2>1 DEF Pairs
  <2> QED  BY <2>2, <1>2 DEF CountInv
<1> QED  BY <1>6, <1>7, <1>8, <1>9

-----------------------------------------------------------------------------
(* The steps of the code *)

\* The search finds the lowest: a non-empty set of descriptors has one.
LEMMA LowestFound ==
  ASSUME NEW S \in SUBSET (Arr \cup Exp), S # {}
  PROVE  LowestOf(S) \in S
<1>1. S \subseteq Nat
  BY FdTableAssumption DEF Arr, Exp
<1>2. PICK m \in S : \A y \in S : ~(<<y, m>> \in OpToRel(<, Nat))
  BY <1>1, WFMin, NatLessThanWellFounded
<1>3. \A y \in S : m <= y
  <2> SUFFICES ASSUME NEW y \in S, ~(m <= y) PROVE FALSE
    OBVIOUS
  <2>1. y \in Nat /\ m \in Nat /\ y < m
    BY <1>1
  <2>2. <<y, m>> \in OpToRel(<, Nat)
    BY <2>1 DEF OpToRel
  <2> QED  BY <2>2, <1>2
<1> QED  BY <1>3 DEF LowestOf

\* Others has what any other thread has.
LEMMA OthersHave ==
  ASSUME NEW t \in Thread, NEW u \in Thread \ {t}, NEW i \in Has(u) \ {NULL}
  PROVE  i \in Others(t)
<1>1. Has(u) \in {held[w] \cup {fd[w]} : w \in Thread \ {t}}
  BY DEF Has
<1>2. i \in UNION {held[w] \cup {fd[w]} : w \in Thread \ {t}}
  BY <1>1
<1> QED  BY <1>2 DEF Others

\* A descriptor with an empty slot that no other thread is about to have is in
\* no hand, and no standard one.
LEMMA FreeInNoHand ==
  ASSUME Inv, NEW t \in Thread, fd[t] = NULL, NEW i \in Arr \cup Exp,
         Slot(i) = NULL, i \notin Others(t)
  PROVE  STDIO <= i /\ \A u \in Thread : i \notin Has(u)
<1>1. i # NULL /\ NULL # "stdio" /\ NULL \notin Thread
  BY NullAssumption, FdTableAssumption
<1>2. \A u \in Thread \ {t} : i \notin Has(u)
  BY <1>1, OthersHave
<1>3. i \notin Has(t)
  BY <1>1 DEF Has, Inv, SlotInv
<1>4. i \in Arr => ~(i < STDIO)
  BY <1>1 DEF Inv, SlotInv, Slot
<1> QED  BY <1>2, <1>3, <1>4, FdTableAssumption DEF Arr, Exp

\* Every step of virt_open and virt_close keeps Inv, until one breaks the table.
LEMMA StepKeeps ==
  ASSUME Inv, NEW t \in Thread, Step(t), ~broken, ~broken'
  PROVE  Inv'
<1> USE DEF Place, Idle, Opening
<1>1. CASE Avail(t)
  <2>1. PICK p \in {"get", "expand"} :
          p = IF ref_fdarr < NARR THEN "get" ELSE "expand"
    OBVIOUS
  <2> QED  BY <1>1, <2>1, PcStep DEF Avail
<1>2. CASE MutexLock(t)
  <2>1. PICK p \in {"get", "store", "put"} : p = pc[t]
    BY <1>2 DEF MutexLock
  <2>2. Goto(t, p)
    BY <1>2, <2>1 DEF MutexLock, Goto, Inv, TypeInv
  <2>3. p = "store" => Slot(fd[t]) = NULL
    BY <2>1 DEF Inv, SlotInv
  <2> QED  BY <1>2, <2>1, <2>2, <2>3, PcStep DEF MutexLock
<1>3. CASE Backward(t)
  <2>1. PICK i \in Arr : i = max_fdset + 1
    BY <1>3, FdTableAssumption DEF Backward, Arr, Inv, TypeInv
  <2>2. fd[t] = NULL
    BY <1>3 DEF Backward, Inv, UseInv
  <2>3. \A u \in Thread : i \notin Has(u)
    <3>1. \A u \in Thread : i \in Has(u) => i <= max_fdset
      BY NullAssumption DEF Inv, UseInv
    <3> QED  BY <3>1, <2>1 DEF Inv, TypeInv
  <2>4. STDIO <= i /\ i \in Nat
    BY <2>1, FdTableAssumption DEF Inv, TypeInv
  <2>5. Slot(i) = NULL
    <3>1. fd_array[i] # "stdio"
      BY <2>4, FdTableAssumption DEF Inv, SlotInv
    <3>2. Slot(i) = fd_array[i]
      BY DEF Slot
    <3> QED  BY <2>3, <3>1, <3>2 DEF Inv, SlotInv, TypeInv
  <2>6. ref_fdarr < NARR
    BY <2>3, <2>4, RefRoom
  <2>7. /\ Chosen(t, i, "filp") /\ fd_array' = fd_array /\ fds' = fds
        /\ max_fdset' = i /\ ref_fdarr' = ref_fdarr + 1 /\ seen' = seen
    BY <1>3, <2>1, <2>6 DEF Backward, fdtable_get, lvars
  <2>8. max_fdset' \in Nat /\ max_fdset' >= max_fdset /\ max_fdset' >= i
    BY <2>1, <2>4, <2>7 DEF Inv, TypeInv
  <2>9. i \notin Exp
    BY FdTableAssumption DEF Arr, Exp
  <2>10. index' \in [Thread -> Exp]
    BY <1>3 DEF Backward, Inv, TypeInv, lvars
  <2> QED
    BY <2>2, <2>3, <2>4, <2>5, <2>7, <2>8, <2>9, <2>10, ChooseStep
<1>4. CASE Scan(t)
  <2> DEFINE free == {i \in Arr : i < max_fdset /\ fd_array[i] = NULL}
  <2>0. fd[t] = NULL
    BY <1>4 DEF Scan, Inv, UseInv
  <2>1. CASE free # {}
    <3>1. PICK i \in free : i = LowestOf(free)
      BY <2>1, LowestFound
    <3>2. /\ Chosen(t, i, "filp") /\ i \notin Others(t)
          /\ fd_array' = fd_array /\ fds' = fds /\ max_fdset' = max_fdset
          /\ ref_fdarr' = fdtable_get /\ index' = index /\ seen' = seen
      BY <1>4, <2>1, <3>1 DEF Scan, lvars
    <3>3. i \in Arr /\ i \notin Exp /\ Slot(i) = NULL /\ i < max_fdset
      BY FdTableAssumption DEF Slot, Arr, Exp
    <3>4. STDIO <= i /\ \A u \in Thread : i \notin Has(u)
      BY <2>0, <3>2, <3>3, FreeInNoHand
    <3>5. ref_fdarr' = ref_fdarr + 1
      BY <3>2, <3>3, <3>4, RefRoom DEF fdtable_get
    <3>7. /\ max_fdset' \in Nat /\ max_fdset' >= max_fdset /\ max_fdset' >= i
          /\ index' \in [Thread -> Exp]
      BY <3>2, <3>3 DEF Inv, TypeInv, Arr
    <3> HIDE DEF free
    <3> QED  BY <2>0, <3>2, <3>3, <3>4, <3>5, <3>7, ChooseStep
  <2>2. CASE free = {}
    <3>1. Goto(t, "user") /\ UNCHANGED <<tvars, fd, lvars, held>>
      BY <1>4, <2>2 DEF Scan, tvars
    <3> QED  BY <1>4, <3>1, PcStep DEF Scan
  <2> QED  BY <2>1, <2>2
<1>5. CASE ExpandTest(t)
  <2>1. PICK p \in {"alloc", "search"} :
          p = IF fds = NULL THEN "alloc" ELSE "search"
    OBVIOUS
  <2> QED  BY <1>5, <2>1, PcStep DEF ExpandTest
<1>12. CASE ExpandAlloc(t)
  <2>1. fds = NULL
    BY <1>12 DEF ExpandAlloc
  <2> QED  BY <1>12, <2>1, AllocKeeps
<1>13. CASE ExpandSearch(t)
  <2>0. /\ pc[t] = "search" /\ fds # NULL /\ fd[t] = NULL
        /\ UNCHANGED <<fd_array, fds, max_fdset, ref_fdarr, seen>>
    BY <1>13 DEF ExpandSearch, tvars, Inv, SlotInv, UseInv
  <2>1. PICK i \in Exp : i = index[t]
    BY DEF Inv, TypeInv
  <2>2. CASE /\ fds[index[t]] = NULL /\ Chosen(t, index[t], "fdget")
             /\ index' = [index EXCEPT ![t] = NARR]
             /\ broken' = (index[t] \in Others(t))
    <3>1. i \notin Arr /\ NARR \in Exp
      BY FdTableAssumption DEF Arr, Exp
    <3>2. Slot(i) = NULL /\ i \notin Others(t)
      BY <2>0, <2>1, <2>2, <3>1 DEF Slot
    <3>3. STDIO <= i /\ \A u \in Thread : i \notin Has(u)
      BY <2>0, <3>2, FreeInNoHand
    <3>4. index' \in [Thread -> Exp] /\ Chosen(t, i, "fdget")
      BY <2>1, <2>2, <3>1 DEF Inv, TypeInv
    <3>5. max_fdset' \in Nat /\ max_fdset' >= max_fdset
      BY <2>0 DEF Inv, TypeInv
    <3> QED  BY <2>0, <3>1, <3>2, <3>3, <3>4, <3>5, ChooseStep
  <2>3. ASSUME NEW p \in {"search", "fail"}, Goto(t, p),
               UNCHANGED <<fd, held>>, index' \in [Thread -> Exp]
        PROVE  Inv'
    <3>1. /\ max_fdset' \in Nat /\ max_fdset' >= STDIO - 1
          /\ \A k \in Arr : k <= max_fdset => k <= max_fdset'
          /\ seen' \in [Thread -> Nat]
      BY <2>0 DEF Inv, TypeInv
    <3> QED  BY <2>0, <2>3, <3>1, QuietStep
  <2>4. CASE /\ index[t] + 1 \in Exp
             /\ index' = [index EXCEPT ![t] = @ + 1]
             /\ UNCHANGED <<pc, fd, held>>
    <3>1. Goto(t, "search")
      BY <2>0, <2>4 DEF Goto, Inv, TypeInv
    <3>2. index' \in [Thread -> Exp]
      BY <2>4 DEF Inv, TypeInv
    <3> QED  BY <2>3, <2>4, <3>1, <3>2
  <2>5. CASE /\ index' = [index EXCEPT ![t] = NARR] /\ Goto(t, "fail")
             /\ UNCHANGED <<fd, held>>
    <3>1. NARR \in Exp
      BY FdTableAssumption DEF Exp
    <3>2. index' \in [Thread -> Exp]
      BY <2>5, <3>1 DEF Inv, TypeInv
    <3> QED  BY <2>3, <2>5, <3>2
  <2> QED  BY <1>13, <2>2, <2>4, <2>5 DEF ExpandSearch
<1>14. CASE ExpandRead(t)
  <2>1. /\ max_fdset' \in Nat /\ max_fdset' >= STDIO - 1
        /\ \A k \in Arr : k <= max_fdset => k <= max_fdset'
        /\ index' \in [Thread -> Exp] /\ seen' \in [Thread -> Nat]
    BY <1>14 DEF ExpandRead, tvars, Inv, TypeInv
  <2>2. pc[t] = "fdget" /\ Slot(fd[t]) = NULL /\ fd[t] \in Exp
    BY <1>14 DEF ExpandRead, Inv, SlotInv, UseInv
  <2> QED  BY <1>14, <2>1, <2>2, QuietStep DEF ExpandRead, tvars
<1>15. CASE ExpandStore(t)
  <2>1. pc[t] = "max" /\ Slot(fd[t]) = NULL /\ fd[t] \in Exp
    BY <1>15 DEF ExpandStore, Inv, SlotInv, UseInv
  <2>2. /\ seen[t] \in Nat /\ max_fdset \in Nat /\ max_fdset >= STDIO - 1
        /\ fd[t] \in Nat /\ fd[t] >= STDIO /\ \A k \in Arr : k <= fd[t]
    BY <2>1, FdTableAssumption DEF Inv, TypeInv, Arr, Exp
  <2>3. \/ max_fdset' = IF seen[t] > fd[t] THEN seen[t] ELSE fd[t]
        \/ max_fdset' = max_fdset
    BY <1>15 DEF ExpandStore
  <2>4. /\ max_fdset' \in Nat /\ max_fdset' >= STDIO - 1
        /\ \A k \in Arr : k <= max_fdset => k <= max_fdset'
    BY <2>2, <2>3, FdTableAssumption DEF Arr
  <2>5. index' \in [Thread -> Exp] /\ seen' \in [Thread -> Nat]
    BY <1>15 DEF ExpandStore, Inv, TypeInv
  <2> QED  BY <1>15, <2>1, <2>4, <2>5, QuietStep DEF ExpandStore
<1>16. CASE Unlock(t)
  <2>1. UNCHANGED <<tvars, fd, lvars, held>>
    BY <1>16 DEF Unlock
  <2>2. CASE pc[t] = "unlock" /\ Goto(t, "filp")
    <3>1. Slot(fd[t]) = NULL
      BY <2>2 DEF Inv, SlotInv
    <3> QED  BY <2>1, <2>2, <3>1, PcStep
  <2>3. CASE pc[t] = "fail" /\ Goto(t, "user")
    BY <2>1, <2>3, PcStep
  <2> QED  BY <1>16, <2>2, <2>3 DEF Unlock
<1>6. CASE FilpOpen(t)
  <2>1. PICK p \in {"install", "put"} : Goto(t, p)
    BY <1>6 DEF FilpOpen
  <2>2. Slot(fd[t]) = NULL
    BY <1>6 DEF FilpOpen, Inv, SlotInv
  <2> QED  BY <1>6, <2>1, <2>2, PcStep DEF FilpOpen
<1>7. CASE InstallTest(t)
  <2>1. PICK p \in {"store", "put"} :
          p = IF Slot(fd[t]) = NULL THEN "store" ELSE "put"
    OBVIOUS
  <2> QED  BY <1>7, <2>1, PcStep DEF InstallTest
<1>8. CASE Install(t)
  BY <1>8, InstallKeeps
<1>9. CASE Close(t)
  BY <1>9, CloseKeeps
<1>10. CASE Put(t)
  <2>1. PICK i \in Arr : i = fd[t]
    BY <1>10 DEF Put
  <2>2. /\ pc[t] = "put" /\ Done(t) /\ max_fdset' = Lowered(i)
        /\ fd_array' = [fd_array EXCEPT ![i] = NULL] /\ fds' = fds
        /\ ref_fdarr' = IF ref_fdarr > STDIO THEN ref_fdarr - 1 ELSE STDIO
    BY <1>10, <2>1 DEF Put
  <2>3. ref_fdarr' = ref_fdarr - 1
    BY <2>1, <2>2, RefPositive
  <2>4. /\ fd_array' \in [Arr -> Thread \cup {NULL, "stdio"}]
        /\ (Slot(i))' = NULL
        /\ \A j \in (Arr \cup Exp) \ {i} : (Slot(j))' = Slot(j)
    BY <2>2 DEF Inv, TypeInv, Slot
  <2>5. /\ fds' = NULL \/ fds' \in ExpArray
        /\ \A u \in Thread :
             (Has(u) \ {i}) \cap Exp # {} \/ pc[u] = "search" => fds' # NULL
    BY <2>2 DEF Inv, TypeInv, SlotInv
  <2>6. \A j \in Arr \ {i} : fd_array'[j] = fd_array[j]
    BY <2>2 DEF Inv, TypeInv
  <2>7. UNCHANGED lvars
    BY <1>10 DEF Put
  <2> QED  BY <2>1, <2>2, <2>3, <2>4, <2>5, <2>6, <2>7, ReleaseStep
<1>11. CASE PutExpand(t)
  <2>1. PICK i \in Exp : i = fd[t]
    BY <1>11 DEF PutExpand
  <2>2. /\ fds # NULL /\ fds \in ExpArray /\ i \notin Arr
        /\ \A f \in ExpArray : f # NULL
    BY <2>1, FdTableAssumption, NullAssumption
    DEF ExpArray, Inv, TypeInv, SlotInv, Has, Arr, Exp
  <2>3. /\ pc[t] = "put" /\ Done(t) /\ max_fdset' = Lowered(i)
        /\ fds' = IF i = NARR THEN NULL ELSE [fds EXCEPT ![i] = NULL]
        /\ i = NARR => /\ (Others(t) \cup held[t]) \cap Exp = {}
                       /\ \A u \in Thread : pc[u] # "search"
        /\ fd_array' = fd_array /\ ref_fdarr' = ref_fdarr /\ UNCHANGED lvars
    BY <1>11, <2>1, <2>2 DEF PutExpand
  <2>4. i # NARR => fds' \in ExpArray /\ fds' # NULL
    BY <2>2, <2>3 DEF ExpArray
  <2>5. ASSUME i = NARR, NEW u \in Thread PROVE (Has(u) \ {i}) \cap Exp = {}
    <3>1. CASE u = t
      BY <3>1, <2>5, <2>1, <2>3 DEF Has
    <3>2. CASE u # t
      BY <3>2, <2>5, <2>3, NullAssumption, OthersHave
    <3> QED  BY <3>1, <3>2
  <2>6. (Slot(i))' = NULL
    BY <2>2, <2>3, <2>4 DEF Slot, ExpArray
  <2>7. ASSUME NEW j \in (Arr \cup Exp) \ {i}
        PROVE  \/ (Slot(j))' = Slot(j)
               \/ Slot(j) = "garbage" /\ (Slot(j))' = NULL
    <3>1. CASE j \in Arr
      BY <3>1, <2>3 DEF Slot
    <3>2. CASE j \notin Arr /\ i # NARR
      BY <3>2, <2>2, <2>3, <2>4 DEF Slot, ExpArray
    <3>3. CASE j \in Exp /\ j \notin Arr /\ i = NARR
      <4>1. Slot(j) = fds[j] /\ fds[j] \in Thread \cup {NULL, "garbage"}
        BY <3>3, <2>2 DEF Slot, ExpArray
      <4>2. Slot(j) \notin Thread
        BY <3>3, <2>5 DEF Inv, SlotInv
      <4>3. (Slot(j))' = NULL
        BY <3>3, <2>3 DEF Slot
      <4> QED  BY <4>1, <4>2, <4>3
    <3> QED  BY <3>1, <3>2, <3>3
  <2>8. fd_array' \in [Arr -> Thread \cup {NULL, "stdio"}]
    BY <2>3 DEF Inv, TypeInv
  <2>9. \A u \in Thread :
          (Has(u) \ {i}) \cap Exp # {} \/ pc[u] = "search" => fds' # NULL
    BY <2>3, <2>4, <2>5
  <2>11. \A j \in Arr \ {i} : fd_array'[j] = fd_array[j]
    BY <2>3
  <2>10. fds' = NULL \/ fds' \in ExpArray
    BY <2>3, <2>4
  <2> QED
    BY <2>1, <2>2, <2>3, <2>6, <2>7, <2>8, <2>9, <2>10, <2>11, ReleaseStep
<1> QED
  BY <1>1, <1>2, <1>3, <1>4, <1>5, <1>6, <1>7, <1>8, <1>9, <1>10, <1>11,
     <1>12, <1>13, <1>14, <1>15, <1>16 DEF Step

-----------------------------------------------------------------------------
(* The theorems *)

\* fwk_file_system_init begins with the standard descriptors and no others.
LEMMA InitKeeps == Init => IInv
<1> SUFFICES ASSUME Init PROVE IInv
  OBVIOUS
<1>1. NULL # "stdio" /\ "stdio" \notin Thread /\ NULL \notin Thread /\ NULL \notin Arr \cup Exp
  BY FdTableAssumption, NullAssumption
<1>2. \A t \in Thread : Has(t) = {NULL}
  BY DEF Init, Has
<1>3. TypeInv
  <2>1. NARR \in Exp
    BY FdTableAssumption DEF Exp
  <2> QED  BY <2>1, FdTableAssumption DEF Init, TypeInv, Place, Idle
<1>4. UseInv
  BY <1>2 DEF Init, UseInv, Idle
<1>5. \A i \in Arr \cup Exp : Slot(i) \in {"stdio", NULL}
  BY DEF Init, Slot
<1>6. SlotInv
  BY <1>1, <1>2, <1>5 DEF Init, SlotInv, Opening
<1>7. Pairs = {}
  BY <1>1 DEF Init, Pairs, Mine
<1>8. CountInv
  BY <1>7, FS_EmptySet, FdTableAssumption DEF CountInv, Init
<1> QED  BY <1>3, <1>4, <1>6, <1>8 DEF IInv, Inv, Init

\* The inductive invariant of fwk_fcntl.c: until two threads meet in one of the
\* gaps, no descriptor is in two hands, every slot has the file of its holder,
\* and ref_fdarr counts the descriptors of fd_array in use.
THEOREM Invariance == Spec => []IInv
<1>1. IInv /\ [Next]_vars => IInv'
  <2> SUFFICES ASSUME IInv, [Next]_vars PROVE IInv'
    OBVIOUS
  <2>1. CASE UNCHANGED vars
    BY <2>1 DEF vars, IInv, Inv, TypeInv, UseInv, SlotInv, CountInv, Pairs, Mine,
       Has, Slot
  <2>2. CASE Undefined
    BY <2>2 DEF Undefined, vars, IInv
  <2>3. ASSUME ~broken, NEW t \in Thread, Step(t) PROVE IInv'
    <3>1. broken' \in BOOLEAN
      <4>1. CASE UNCHANGED broken
        BY <4>1, <2>3 DEF IInv
      <4>2. CASE Scan(t)
        <5> DEFINE free == {i \in Arr : i < max_fdset /\ fd_array[i] = NULL}
        <5>1. \/ broken' = (LowestOf(free) \in Others(t))
              \/ broken' = (max_fdset > NARR)
          BY <4>2 DEF Scan
        <5>2. (max_fdset > NARR) \in BOOLEAN
          BY <2>3, FdTableAssumption DEF IInv, Inv, TypeInv
        <5>3. (LowestOf(free) \in Others(t)) \in BOOLEAN
          OBVIOUS
        <5> HIDE DEF free
        <5> QED  BY <5>1, <5>2, <5>3, Zenon
      <4>3. CASE ExpandAlloc(t)
        BY <4>3 DEF ExpandAlloc
      <4>4. CASE PutExpand(t)
        BY <4>4, Zenon DEF PutExpand
      <4>5. CASE ExpandSearch(t)
        <5>1. broken' = (index[t] \in Others(t)) \/ broken' = broken
          BY <4>5 DEF ExpandSearch
        <5>2. broken \in BOOLEAN
          BY DEF IInv
        <5>3. (index[t] \in Others(t)) \in BOOLEAN
          OBVIOUS
        <5> QED  BY <5>1, <5>2, <5>3, Zenon
      <4>6. CASE Unlock(t)
        BY <4>6 DEF Unlock
      <4> QED
        BY <4>1, <4>2, <4>3, <4>4, <4>5, <4>6, <2>3
        DEF Step, Avail, MutexLock, Backward, FilpOpen, InstallTest, Install,
            Close, Put, ExpandTest, ExpandRead, ExpandStore
  <3>2. ~broken' => Inv'
      BY <2>3, StepKeeps DEF IInv
    <3> QED  BY <3>1, <3>2 DEF IInv
  <2> QED  BY <2>1, <2>2, <2>3 DEF Next
<1> QED  BY <1>1, InitKeeps, PTL DEF Spec

\* virt_open, virt_close: a descriptor leads to the file it was opened for as
\* long as its thread has it open, and no other file is in the table.
THEOREM DescriptorsLead == Spec => []SlotsMatch
<1>1. IInv => SlotsMatch
  BY DEF IInv, Inv, SlotInv, SlotsMatch, Has
<1> QED  BY <1>1, Invariance, PTL

\* fwk_fcntl.h: ref_fdarr counts the descriptors of fd_array that are given out.
THEOREM RefCounts == Spec => []RefCounted
<1>1. IInv => RefCounted
  BY DEF IInv, Inv, CountInv, RefCounted, Pairs
<1> QED  BY <1>1, Invariance, PTL

\* The error ways that virt_open and virt_close never take: the second test of
\* fwk_fd_install finds a file in the slot, fwk_put_expand_fdtable finds no
\* expanded array.
NoErrorWay ==
  [][\A t \in Thread : /\ InstallTest(t) => pc'[t] = "store"
                       /\ PutExpand(t) => fds # NULL]_vars

\* fwk_fd_install, fwk_put_expand_fdtable: as long as no descriptor is in two
\* hands, a chosen slot is still empty when its file is installed, and the
\* expanded array outlives its descriptors: the two tests refuse nobody.
THEOREM TestsRefuseNobody == Spec => NoErrorWay
<1>1. IInv /\ [Next]_vars =>
        [\A t \in Thread : /\ InstallTest(t) => pc'[t] = "store"
                           /\ PutExpand(t) => fds # NULL]_vars
  <2> SUFFICES ASSUME IInv, [Next]_vars, ~UNCHANGED vars, NEW t \in Thread
               PROVE  /\ InstallTest(t) => pc'[t] = "store"
                      /\ PutExpand(t) => fds # NULL
    OBVIOUS
  <2>1. TypeInv /\ UseInv /\ SlotInv
    BY DEF Next, Undefined, IInv, Inv
  <2>2. ASSUME InstallTest(t) PROVE pc'[t] = "store"
    <3>1. Slot(fd[t]) = NULL
        BY <2>1, <2>2 DEF InstallTest, SlotInv, Opening
    <3> QED  BY <2>1, <2>2, <3>1 DEF InstallTest, Goto, TypeInv
  <2>3. ASSUME PutExpand(t) PROVE fds # NULL
    <3>1. fd[t] \in Has(t) \cap Exp
      BY <2>3 DEF PutExpand, Has
    <3> QED  BY <2>1, <3>1 DEF SlotInv
  <2> QED  BY <2>2, <2>3
<1> QED  BY <1>1, Invariance, PTL DEF Spec, NoErrorWay
=============================================================================
