------------------------------ MODULE MemPool ------------------------------
(***************************************************************************)
(* The kernel memory pool: the block list of common/mempool/mem_simple.c   *)
(* behind kmalloc and kfree (platform/mem/fwk_mempool.c).  A block is a    *)
(* header of H words followed by memory; its lenth counts both.  What was  *)
(* handed out is split off the remainder of its block only when the next   *)
(* request comes.  The words of the pool are numbered from 0 and a block   *)
(* is named by the first word of its header, which lies H below its base.  *)
(* kmalloc and kfree run under spin_lock_irqsave and are atomic.           *)
(***************************************************************************)
EXTENDS Integers, FiniteSets

CONSTANTS
  POOL,          \* words in the pool
  H,             \* MEM_BLOCK_HEADER_SIZE in words
  Sizes,         \* words that are asked for, after mrt_num_align4
  mrt_nullptr

Addr == 0..(POOL - 1)

\* struct mem_block
Headers == [lenth : 1..POOL, remain : 0..POOL,
            sprt_prev : Addr \cup {mrt_nullptr},
            sprt_next : Addr \cup {mrt_nullptr}]

ASSUME MemPoolAssumption ==
  /\ POOL \in Nat /\ H \in Nat \ {0} /\ H < POOL
  /\ Sizes \subseteq Nat
  /\ mrt_nullptr \notin 0..POOL /\ mrt_nullptr \notin Headers

VARIABLES
  block,         \* block[a]: the header at a, the null pointer where no block
                 \* begins: a header that was merged away lies in memory to
                 \* be reused
  live,          \* the pieces of memory handed out and not yet freed
  misled         \* a kfree merged into a block that is not the predecessor of
                 \* the freed one on the list

pool_vars == <<block, live, misled>>

sprt_mem == 0

Header(l, r, p, n) ==
  [lenth |-> l, remain |-> r, sprt_prev |-> p, sprt_next |-> n]

\* memory_simple_block_create: one block that spans the pool.
PoolInit ==
  /\ block = [a \in Addr |->
                IF a = sprt_mem
                THEN Header(POOL, POOL, mrt_nullptr, mrt_nullptr)
                ELSE mrt_nullptr]
  /\ live = {}
  /\ misled = FALSE

\* The i-th block from the head of the list, the null pointer behind its end.
Nth ==
  LET nth[i \in 0..POOL] ==
        IF i = 0 THEN sprt_mem
        ELSE IF nth[i - 1] = mrt_nullptr THEN mrt_nullptr
        ELSE block[nth[i - 1]].sprt_next
  IN  nth

List == {Nth[i] : i \in 0..POOL} \ {mrt_nullptr}

-----------------------------------------------------------------------------
(* alloc_spare_simple_memory *)

\* The first block of the list with enough left, and the piece it hands out.
Fits(n) ==
  {i \in 0..POOL : Nth[i] # mrt_nullptr /\ block[Nth[i]].remain >= n + H}
FirstFit(n) == Nth[CHOOSE i \in Fits(n) : \A j \in Fits(n) : i <= j]
Offset(b) == block[b].lenth - block[b].remain
Piece(n) == [ptr |-> FirstFit(n) + Offset(FirstFit(n)) + H, len |-> n]

\* Bug: the header of a new block is not counted in what it has left.
Taken_NoHeader(b, n) ==
  LET new == b + Offset(b)
  IN  IF new # b
      THEN [block EXCEPT
              ![new] = Header(block[b].remain, block[b].remain - n,
                              b, block[b].sprt_next),
              ![b]   = Header(Offset(b), 0, @.sprt_prev, new)]
      ELSE [block EXCEPT ![b].remain = @ - (n + H)]

\* The headers after n words were taken from b.  The block behind a new one
\* is not told of its new predecessor.
Taken(b, n) ==
  LET new == b + Offset(b)
  IN  IF new # b
      THEN [block EXCEPT
              ![new] = Header(block[b].remain, block[b].remain - (n + H),
                              b, block[b].sprt_next),
              ![b]   = Header(Offset(b), 0, @.sprt_prev, new)]
      ELSE [block EXCEPT ![b].remain = @ - (n + H)]

Kmalloc(n) ==
  /\ ~misled /\ Fits(n) # {}
  /\ block' = Taken(FirstFit(n), n)
  /\ live' = live \cup {Piece(n)}
  /\ UNCHANGED misled

\* No block is large enough: kmalloc returns a null pointer.
KmallocFails(n) == ~misled /\ Fits(n) = {} /\ UNCHANGED pool_vars

-----------------------------------------------------------------------------
(* free_employ_simple_memory *)

\* Bug: the freed space is added to the length only.
MergedInto_KeepsRemain(blk, b, prev) ==
  [blk EXCEPT ![prev] = Header(@.lenth + blk[b].lenth, @.remain,
                               @.sprt_prev, blk[b].sprt_next)]

\* Block b goes into prev.  The block behind b is not told.
MergedInto(blk, b, prev) ==
  [blk EXCEPT ![prev] = Header(@.lenth + blk[b].lenth, @.remain + blk[b].remain,
                               @.sprt_prev, blk[b].sprt_next)]

\* An idle block behind b goes into b; what b had left is replaced.
NextMerged(blk, b, next) ==
  IF next # mrt_nullptr /\ blk[next].lenth = blk[next].remain
  THEN [blk EXCEPT ![b] = Header(@.lenth + blk[next].lenth, blk[next].remain,
                                 @.sprt_prev, blk[next].sprt_next)]
  ELSE blk

\* check_employ_simple_memory: the piece begins at the base of a listed block.
Employed(m) == (m.ptr - H) \in List

Kfree(m) ==
  LET b    == m.ptr - H
      prev == block[b].sprt_prev
      next == block[b].sprt_next
      idle == [block EXCEPT ![b].remain = block[b].lenth]
      neighbour == prev \in List /\ block[prev].sprt_next = b
  IN  /\ ~misled /\ m \in live /\ Employed(m)
      /\ live' = live \ {m}
      /\ misled' = ~(prev = mrt_nullptr \/ neighbour)
      /\ block' =
           CASE prev = mrt_nullptr -> NextMerged(idle, b, next)
             [] neighbour   -> [NextMerged(MergedInto(idle, b, prev), prev, next)
                                 EXCEPT ![b] = mrt_nullptr]
             [] prev \in List /\ ~neighbour
                            -> NextMerged(MergedInto(idle, b, prev), prev, next)
             [] OTHER       -> idle

\* What follows a merge into the wrong block depends on the memory it hit.
Undefined == misled /\ UNCHANGED pool_vars

PoolNext ==
  \/ \E n \in Sizes : Kmalloc(n) \/ KmallocFails(n)
  \/ \E m \in live : Kfree(m)
  \/ Undefined

PoolSpec == PoolInit /\ [][PoolNext]_pool_vars
-----------------------------------------------------------------------------
(* Properties.  A block does not learn that its predecessor on the list has*)
(* changed, so a kfree can merge into the wrong one; the invariants are    *)
(* stated up to the first such kfree.                                      *)

Words(m) == (m.ptr - H)..(m.ptr + m.len - 1)
Used == UNION {Words(m) : m \in live}

\* alloc_spare_simple_memory: the piece kmalloc would hand out next lies in the
\* pool and touches no piece, header included, that somebody still holds.
HandsOutFree ==
  ~misled =>
    \A n \in Sizes : Fits(n) # {} => Words(Piece(n)) \subseteq Addr \ Used

\* kmalloc fails only when it must: it succeeds exactly when the words that
\* nobody holds contain a run long enough for the header and the memory.
FailsOnlyIfFull ==
  ~misled =>
    \A n \in Sizes :
      Fits(n) # {} <=> \E a \in Addr : a..(a + n + H - 1) \subseteq Addr \ Used
=============================================================================
