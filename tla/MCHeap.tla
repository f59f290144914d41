------------------------------- MODULE MCHeap -------------------------------
(* heap_check(), a recount of the heap, and what it has to find.           *)
EXTENDS Heap, FiniteSetsExt

SumOfSizes(S) == MapThenSumSet(LAMBDA b : block[b].size, S)

FreeBlocks == {b \in DOMAIN block : block[b].free}

heap_check ==
  /\ \A b \in DOMAIN block :
       /\ block[b].next # NULL => block[block[b].next].prev = b
       /\ block[b].prev # NULL => block[block[b].prev].next = b
  /\ stats = [total_size   |-> SumOfSizes(DOMAIN block),
              used_size    |-> SumOfSizes(DOMAIN block \ FreeBlocks),
              free_size    |-> SumOfSizes(FreeBlocks),
              total_blocks |-> Cardinality(DOMAIN block),
              free_blocks  |-> Cardinality(FreeBlocks)]

(* heap_check "Verify statistics": between two calls the recount agrees    *)
(* with heap_statistics.                                                   *)
HeapCheckSucceeds == op = Idle => heap_check

(* What of the statistics survives every call, heap_realloc included: the  *)
(* size of the heap and both block counts are exact, and used and free     *)
(* bytes add up to the whole.  Each is kept by several updates in several  *)
(* functions, and the loop of merge_free_blocks adjusts it per round.      *)
CountsExact ==
  /\ stats.total_size = SumOfSizes(DOMAIN block)
  /\ stats.used_size + stats.free_size = stats.total_size
  /\ stats.total_blocks = Cardinality(DOMAIN block)
  /\ stats.free_blocks = Cardinality(FreeBlocks)

(* heap_realloc lets used_size drift without bound.  No action reads it    *)
(* and no property of the run that uses this view depends on it.           *)
WithoutDrift ==
  <<block, phys, owned, op, stats.total_size, stats.used_size + stats.free_size,
    stats.total_blocks, stats.free_blocks>>
=============================================================================
