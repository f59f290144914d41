-------------------------------- MODULE Heap --------------------------------
(***************************************************************************)
(* The kernel heap, kernel/src/mm/heap.c: a doubly linked list of blocks   *)
(* that tile one growing range of addresses, first-fit allocation with     *)
(* splitting, coalescing on free, in-place or moving reallocation, and the *)
(* statistics heap_check() compares with a recount.                        *)
(*                                                                         *)
(* merge_free_blocks is a loop: one iteration is one action, and op says   *)
(* which call is in progress, so no other heap call starts in between (the *)
(* kernel calls the heap from one thread of control).  A list node is an   *)
(* address in DOMAIN block; a header that has been absorbed leaves it.     *)
(***************************************************************************)
EXTENDS Integers, FiniteSets

CONSTANTS
  Hdr,        \* sizeof(struct heap_block), also HEAP_MIN_BLOCK_SIZE
  PageSize,   \* HEAP_PAGE_SIZE
  HeapStart,  \* the address heap_init got from pmm_alloc_page
  Sizes,      \* sizes callers pass to heap_alloc
  NewSizes,   \* sizes callers pass to heap_realloc, {} if they never do
  PhysPages,  \* pages the page allocator has left after heap_init
  MaxTables   \* bound: page-table pages one expansion may need

ASSUME HeapAssumption ==
  /\ Hdr \in Nat \ {0} /\ PageSize \in Nat /\ PageSize >= Hdr
  /\ HeapStart \in Nat \ {0}
  /\ Sizes \subseteq Nat \ {0} /\ NewSizes \subseteq Nat \ {0}
  /\ PhysPages \in Nat /\ MaxTables \in Nat

NULL == 0

VARIABLES
  block,  \* the list: address of a header |-> its fields
  stats,  \* heap_statistics
  phys,   \* pages pmm_alloc_page can still deliver
  owned,  \* block of every live allocation |-> the size its caller asked for
  op      \* the heap call in progress

vars == <<block, stats, phys, owned, op>>

Idle == [pc |-> "idle", block |-> NULL, size |-> 0]

(* heap_init: one page, one free block that is also the last.              *)
Init ==
  /\ block = [b \in {HeapStart} |->
       [size |-> PageSize, free |-> TRUE, last |-> TRUE, next |-> NULL, prev |-> NULL]]
  /\ stats = [total_size |-> PageSize, used_size |-> 0, free_size |-> PageSize,
              total_blocks |-> 1, free_blocks |-> 1]
  /\ phys = PhysPages
  /\ owned = [b \in {} |-> 0]
  /\ op = Idle

----------------------------------------------------------------------------
(* The list operations, as functions of the list.                          *)

(* heap_alloc rounds the size up to a multiple of 8.                       *)
Aligned(size) == ((size + 7) \div 8) * 8

Splits(B, b, size) == B[b].size - size - Hdr >= Hdr

(* A split that forgets the back pointer of the block behind it.           *)
split_block_stale_prev(B, b, size) ==
  LET n == b + size + Hdr
  IN IF ~Splits(B, b, size) THEN B
     ELSE [c \in DOMAIN B \cup {n} |->
             CASE c = n -> [size |-> B[b].size - size - Hdr, free |-> TRUE,
                            last |-> B[b].last, next |-> B[b].next, prev |-> b]
               [] c = b -> [size |-> size + Hdr, free |-> B[b].free,
                            last |-> FALSE, next |-> n, prev |-> B[b].prev]
               [] OTHER -> B[c]]

split_block(B, b, size) ==
  LET n  == b + size + Hdr
      nx == B[b].next
  IN IF ~Splits(B, b, size) THEN B
     ELSE [c \in DOMAIN B \cup {n} |->
             CASE c = n -> [size |-> B[b].size - size - Hdr, free |-> TRUE,
                            last |-> B[b].last, next |-> nx, prev |-> b]
               [] c = b -> [size |-> size + Hdr, free |-> B[b].free,
                            last |-> FALSE, next |-> n, prev |-> B[b].prev]
               [] c = nx /\ c # n /\ c # b -> [B[c] EXCEPT !.prev = n]
               [] OTHER -> B[c]]

(* One iteration of merge_free_blocks: b absorbs its successor.            *)
absorb_next(B, b) ==
  LET nx == B[b].next
      nn == B[nx].next
  IN [c \in DOMAIN B \ {nx} |->
        CASE c = b -> [size |-> B[b].size + B[nx].size, free |-> B[b].free,
                       last |-> B[b].last \/ B[nx].last, next |-> nn, prev |-> B[b].prev]
          [] c = nn /\ c # b -> [B[c] EXCEPT !.prev = b]
          [] OTHER -> B[c]]

(* expand_heap: a new free last block behind the old last one.             *)
append_block(B, l, size) ==
  LET n == l + B[l].size
  IN [c \in DOMAIN B \cup {n} |->
        CASE c = n -> [size |-> size, free |-> TRUE, last |-> TRUE, next |-> NULL, prev |-> l]
          [] c = l /\ c # n -> [size |-> B[l].size, free |-> B[l].free, last |-> FALSE,
                                next |-> n, prev |-> B[l].prev]
          [] OTHER -> B[c]]

(* Every update of heap_statistics adds to (or takes from) its counters.   *)
AddStats(S, total, used, free, blocks, free_blocks) ==
  [total_size   |-> S.total_size + total,
   used_size    |-> S.used_size + used,
   free_size    |-> S.free_size + free,
   total_blocks |-> S.total_blocks + blocks,
   free_blocks  |-> S.free_blocks + free_blocks]

(* find_free_block: the list is in address order, so the first block that  *)
(* fits is the lowest.                                                     *)
Fits(B, b, size) == B[b].free /\ B[b].size >= size + Hdr

find_free_block_ignores_header(B, b, size) ==
  /\ B[b].free /\ B[b].size >= size
  /\ \A c \in DOMAIN B : B[c].free /\ B[c].size >= size => b <= c

find_free_block(B, b, size) ==
  /\ Fits(B, b, size)
  /\ \A c \in DOMAIN B : Fits(B, c, size) => b <= c

NoFit(size) == \A b \in DOMAIN block : ~Fits(block, b, size)

PagesNeeded(size) == (size + Hdr + PageSize - 1) \div PageSize

----------------------------------------------------------------------------
(* heap_alloc, also as called by heap_realloc: after says what follows.    *)

(* Splitting and taking block b of list B for a request of req bytes.      *)
TakeBlock(B, S, b, size, req, after) ==
  LET C == split_block(B, b, size)
      k == IF Splits(B, b, size) THEN 1 ELSE 0
  IN /\ block' = [C EXCEPT ![b].free = FALSE]
     /\ stats' = AddStats(S, 0, C[b].size, -C[b].size, k, k - 1)
     /\ owned' = [c \in DOMAIN owned \cup {b} |-> IF c = b THEN req ELSE owned[c]]
     /\ op' = after

AllocFit(req, after) ==
  \E b \in DOMAIN block :
    /\ find_free_block(block, b, Aligned(req))
    /\ TakeBlock(block, stats, b, Aligned(req), req, after)
    /\ UNCHANGED phys

(* expand_heap takes one page it never uses, the pages of the new block,   *)
(* and whatever vmm_map_page needs for page tables.                        *)
AllocExpand(req, tables, after) ==
  /\ NoFit(Aligned(req))
  /\ phys >= 1 + PagesNeeded(Aligned(req)) + tables
  /\ phys' = phys - 1 - PagesNeeded(Aligned(req)) - tables
  /\ \E l \in DOMAIN block :
       /\ block[l].last
       /\ LET size == PagesNeeded(Aligned(req)) * PageSize
              S    == AddStats(stats, size, 0, size, 1, 1)
          IN TakeBlock(append_block(block, l, size), S, l + block[l].size,
                       Aligned(req), req, after)

(* Both ways expand_heap can fail, pmm_alloc_page or vmm_map_page, mean    *)
(* that no page is left; the pages taken so far are unmapped, not freed.   *)
AllocFail(req, tables) ==
  /\ NoFit(Aligned(req))
  /\ phys < 1 + PagesNeeded(Aligned(req)) + tables
  /\ phys' = 0
  /\ UNCHANGED <<block, stats, owned, op>>

heap_alloc(req) ==
  /\ op = Idle
  /\ \/ AllocFit(req, Idle)
     \/ \E t \in 0..MaxTables : AllocExpand(req, t, Idle)
     \/ \E t \in 0..MaxTables : AllocFail(req, t)

----------------------------------------------------------------------------
(* heap_free, up to its first call of merge_free_blocks.                   *)

FreeBlockUncounted(b) ==
  /\ block' = [block EXCEPT ![b].free = TRUE]
  /\ stats' = AddStats(stats, 0, -block[b].size, block[b].size, 0, 0)
  /\ owned' = [c \in DOMAIN owned \ {b} |-> owned[c]]
  /\ op' = [pc |-> "merge", block |-> b, size |-> 0]
  /\ UNCHANGED phys

FreeBlock(b) ==
  /\ block' = [block EXCEPT ![b].free = TRUE]
  /\ stats' = AddStats(stats, 0, -block[b].size, block[b].size, 0, 1)
  /\ owned' = [c \in DOMAIN owned \ {b} |-> owned[c]]
  /\ op' = [pc |-> "merge", block |-> b, size |-> 0]
  /\ UNCHANGED phys

heap_free(b) == op = Idle /\ FreeBlock(b)

MergesNextUnchecked(b) == block[b].next # NULL

MergesNext(b) == block[b].next # NULL /\ block[block[b].next].free

(* The body of merge_free_blocks' loop.                                    *)
merge_free_blocks ==
  /\ op.pc \in {"merge", "merge_prev", "grow"}
  /\ MergesNext(op.block)
  /\ block' = absorb_next(block, op.block)
  /\ stats' = AddStats(stats, 0, 0, 0, -1, -1)
  /\ UNCHANGED <<phys, owned, op>>

(* heap_free after its first merge: the block before may take this one in. *)
PrevIsFree(b) == block[b].prev # NULL /\ block[block[b].prev].free

heap_free_prev_again ==
  /\ op.pc = "merge"
  /\ ~MergesNext(op.block)
  /\ op' = IF PrevIsFree(op.block) THEN [op EXCEPT !.pc = "merge"] ELSE Idle
  /\ UNCHANGED <<block, stats, phys, owned>>

heap_free_prev ==
  /\ op.pc = "merge"
  /\ ~MergesNext(op.block)
  /\ op' = IF PrevIsFree(op.block)
           THEN [pc |-> "merge_prev", block |-> block[op.block].prev, size |-> 0]
           ELSE Idle
  /\ UNCHANGED <<block, stats, phys, owned>>

heap_free_done ==
  /\ op.pc = "merge_prev"
  /\ ~MergesNext(op.block)
  /\ op' = Idle
  /\ UNCHANGED <<block, stats, phys, owned>>

----------------------------------------------------------------------------
(* heap_realloc of a live block.  With a NULL pointer it is heap_alloc,    *)
(* with size 0 it is heap_free.  The size is used as it is, not aligned.   *)

Resize(b, size) ==
  /\ block' = split_block(block, b, size)
  /\ LET k == IF Splits(block, b, size) THEN 1 ELSE 0
     IN stats' = AddStats(stats, 0, 0, 0, k, k)
  /\ owned' = [owned EXCEPT ![b] = size]
  /\ op' = Idle
  /\ UNCHANGED phys

GrowsInPlace(b, size) ==
  /\ MergesNext(b)
  /\ block[b].size + block[block[b].next].size >= size + Hdr

heap_realloc_shrink(b, size) ==
  /\ op = Idle
  /\ size <= block[b].size - Hdr
  /\ Resize(b, size)

heap_realloc_grow(b, size) ==
  /\ op = Idle
  /\ size > block[b].size - Hdr
  /\ GrowsInPlace(b, size)
  /\ op' = [pc |-> "grow", block |-> b, size |-> size]
  /\ UNCHANGED <<block, stats, phys, owned>>

heap_realloc_grow_done ==
  /\ op.pc = "grow"
  /\ ~MergesNext(op.block)
  /\ Resize(op.block, op.size)

heap_realloc_move(b, size) ==
  /\ op = Idle
  /\ size > block[b].size - Hdr
  /\ ~GrowsInPlace(b, size)
  /\ LET after == [pc |-> "free_old", block |-> b, size |-> 0]
     IN \/ AllocFit(size, after)
        \/ \E t \in 0..MaxTables : AllocExpand(size, t, after)
        \/ \E t \in 0..MaxTables : AllocFail(size, t)

(* The copy is done; the old block is freed as by heap_free.               *)
heap_realloc_free_old == op.pc = "free_old" /\ FreeBlock(op.block)

----------------------------------------------------------------------------
Progress ==
  \/ merge_free_blocks
  \/ heap_free_prev
  \/ heap_free_done
  \/ heap_realloc_grow_done
  \/ heap_realloc_free_old

Next ==
  \/ \E req \in Sizes : heap_alloc(req)
  \/ \E b \in DOMAIN owned :
       \/ heap_free(b)
       \/ \E size \in NewSizes :
            \/ heap_realloc_shrink(b, size)
            \/ heap_realloc_grow(b, size)
            \/ heap_realloc_move(b, size)
  \/ Progress

Spec == Init /\ [][Next]_vars

(* A heap call that has begun runs on: it waits for nothing.               *)
FairSpec == Spec /\ WF_vars(Progress)

----------------------------------------------------------------------------
BlockFields == [size : Nat, free : BOOLEAN, last : BOOLEAN, next : Nat, prev : Nat]

(* The variables have the types heap.h declares; sizes in the statistics   *)
(* are size_t, so a negative one stands for its value modulo 2^64.         *)
TypeOK ==
  /\ DOMAIN block \subseteq Nat \ {0}
  /\ block \in [DOMAIN block -> BlockFields]
  /\ stats \in [total_size : Int, used_size : Int, free_size : Int,
                total_blocks : Int, free_blocks : Int]
  /\ phys \in 0..PhysPages
  /\ DOMAIN owned \subseteq DOMAIN block
  /\ owned \in [DOMAIN owned -> Nat]
  /\ op \in [pc : {"idle", "merge", "merge_prev", "grow", "free_old"},
             block : Nat, size : Nat]

(* What each node of a list B satisfies with its neighbours.               *)
Linked(B, b) ==
  /\ B[b].size >= Hdr
  /\ B[b].last <=> B[b].next = NULL
  /\ B[b].next # NULL => /\ B[b].next = b + B[b].size
                         /\ B[b].next \in DOMAIN B
                         /\ B[B[b].next].prev = b
  /\ B[b].prev = NULL <=> b = HeapStart
  /\ B[b].prev # NULL => /\ B[b].prev \in DOMAIN B
                         /\ B[B[b].prev].next = b

(* Any two blocks: no overlap, the first is lowest, the last is highest.   *)
Apart(B, b, c) ==
  /\ b < c => b + B[b].size <= c
  /\ HeapStart <= b
  /\ B[b].last => c <= b

(* The blocks tile the heap: each one ends where its successor begins, the *)
(* list is linked both ways, only the last block has no successor, and no  *)
(* two blocks overlap.  Split, merge, expansion and their order in free    *)
(* and realloc all have to keep this.                                      *)
Tiled ==
  /\ HeapStart \in DOMAIN block
  /\ \A b \in DOMAIN block : Linked(block, b)
  /\ \A b, c \in DOMAIN block : Apart(block, b, c)

(* Every live allocation has a block of its own with room for what its     *)
(* caller asked for, and every block in use belongs to a live allocation:  *)
(* no block is lost and none is handed out twice.                          *)
AllocationsOwnBlocks ==
  /\ \A b \in DOMAIN owned : block[b].size >= Hdr + owned[b]
  /\ DOMAIN owned = {b \in DOMAIN block : ~block[b].free}

(* Every call of heap_free or heap_realloc returns: the merge loop ends.   *)
CallsReturn == op # Idle ~> op = Idle

=============================================================================
