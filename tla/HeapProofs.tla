----------------------------- MODULE HeapProofs -----------------------------
(***************************************************************************)
(* The proofs about Heap.  The inductive invariant IInv adds to TypeOK,    *)
(* Tiled and AllocationsOwnBlocks what is known of the call in progress:   *)
(* merge_free_blocks works on a block of the list, heap_realloc on a block *)
(* its caller owns and that is, or will be, large enough.  Each list       *)
(* operation is first shown to keep a list a list, then each action to     *)
(* keep IInv.  The statistics come last: heap_check's sums over the list   *)
(* are shown to exist and to change by one block's size per step, by the   *)
(* smallest set for which they would not, and Counted says what stays      *)
(* exact.                                                                  *)
(***************************************************************************)
EXTENDS MCHeap, TLAPS, FiniteSetTheorems, WellFoundedInduction, NaturalsInduction

(* A list of well-typed nodes that tiles a range of addresses.             *)
IsList(B) ==
  /\ DOMAIN B \subseteq Nat \ {0}
  /\ B \in [DOMAIN B -> BlockFields]
  /\ HeapStart \in DOMAIN B
  /\ \A b \in DOMAIN B : Linked(B, b)
  /\ \A b, c \in DOMAIN B : Apart(B, b, c)

(* What the fields of a block header may hold.                             *)
LEMMA Fields ==
  ASSUME NEW r \in BlockFields
  PROVE  /\ r.size \in Nat /\ r.free \in BOOLEAN /\ r.last \in BOOLEAN
         /\ r.next \in Nat /\ r.prev \in Nat
BY DEF BlockFields

(* split_block on a block that has room for size bytes keeps the list: only*)
(* that block and the new, free remainder differ from before.              *)
LEMMA SplitKeepsList ==
  ASSUME NEW B, IsList(B), NEW b \in DOMAIN B, NEW size \in Nat, B[b].size >= size + Hdr
  PROVE  LET C == split_block(B, b, size)
         IN /\ IsList(C)
            /\ DOMAIN B \subseteq DOMAIN C
            /\ C[b].size >= size + Hdr /\ C[b].free = B[b].free
            /\ \A c \in DOMAIN B : c # b => C[c].size = B[c].size /\ C[c].free = B[c].free
            /\ \A c \in DOMAIN C : c \notin DOMAIN B => C[c].free
<1>t. /\ Hdr \in Nat \ {0} /\ b \in Nat \ {0} /\ B[b] \in BlockFields
      /\ B[b].size \in Nat /\ B[b].next \in Nat /\ B[b].prev \in Nat
      /\ \A c \in DOMAIN B : /\ c \in Nat \ {0} /\ B[c] \in BlockFields
                             /\ B[c].size \in Nat /\ B[c].next \in Nat /\ B[c].prev \in Nat
  BY HeapAssumption, Fields DEF IsList
<1>1. CASE ~Splits(B, b, size)
  BY <1>1 DEF split_block
<1>2. CASE Splits(B, b, size)
  <2> DEFINE n == b + size + Hdr
             nx == B[b].next
             C == split_block(B, b, size)
  <2>s. /\ n \in Nat /\ n > b /\ n \notin DOMAIN B
        /\ DOMAIN C = DOMAIN B \cup {n}
        /\ C[n] = [size |-> B[b].size - size - Hdr, free |-> TRUE,
                   last |-> B[b].last, next |-> B[b].next, prev |-> b]
        /\ C[b] = [size |-> size + Hdr, free |-> B[b].free,
                   last |-> FALSE, next |-> n, prev |-> B[b].prev]
        /\ nx \in DOMAIN B => C[nx] = [B[nx] EXCEPT !.prev = n]
        /\ \A c \in DOMAIN B : c # b /\ c # nx => C[c] = B[c]
    <3>1. B[b].size >= size + Hdr + Hdr
      BY <1>2, <1>t DEF Splits
    <3>2. n \in Nat /\ n > b /\ n < b + B[b].size
      BY <3>1, <1>t
    <3>3. n \notin DOMAIN B
      BY <3>2, <1>t DEF IsList, Apart
    <3>4. nx # b /\ nx # n
      BY <3>2, <1>t DEF IsList, Linked, NULL
    <3> QED BY <1>2, <3>2, <3>3, <3>4 DEF split_block
  <2>f. B[b].size - size - Hdr \in Nat /\ B[b].size - size - Hdr >= Hdr
        /\ B[b].free \in BOOLEAN /\ B[b].last \in BOOLEAN
    BY <1>2, <1>t, Fields DEF Splits
  <2>x. nx # NULL => nx \in DOMAIN B /\ nx = b + B[b].size /\ nx # b /\ nx # n
    BY <1>t, <2>s, <2>f DEF IsList, Linked
  <2>c. C = [c \in DOMAIN C |-> C[c]]
    BY <1>2 DEF split_block
  <2> HIDE DEF C
  <2>1. \A c \in DOMAIN C : C[c] \in BlockFields
    <3>1. C[n] \in BlockFields BY <2>s, <2>f, <1>t DEF BlockFields
    <3>2. C[b] \in BlockFields BY <2>s, <2>f, <1>t DEF BlockFields
    <3>3. nx \in DOMAIN B => C[nx] \in BlockFields
      BY <2>s, <1>t DEF BlockFields
    <3> QED BY <3>1, <3>2, <3>3, <2>s, <1>t
  <2>2. C \in [DOMAIN C -> BlockFields] /\ DOMAIN C \subseteq Nat \ {0}
    BY <2>1, <2>c, <2>s, <1>t
  <2>3. /\ C[n].size = B[b].size - size - Hdr /\ C[n].free /\ C[n].last = B[b].last
        /\ C[n].next = nx /\ C[n].prev = b
        /\ C[b].size = size + Hdr /\ C[b].free = B[b].free /\ C[b].last = FALSE
        /\ C[b].next = n /\ C[b].prev = B[b].prev
    BY <2>s
  <2>4. nx \in DOMAIN B => /\ C[nx].size = B[nx].size /\ C[nx].free = B[nx].free
                          /\ C[nx].last = B[nx].last /\ C[nx].next = B[nx].next
                          /\ C[nx].prev = n
    <3> SUFFICES ASSUME nx \in DOMAIN B PROVE /\ C[nx].size = B[nx].size /\ C[nx].free = B[nx].free
                          /\ C[nx].last = B[nx].last /\ C[nx].next = B[nx].next
                          /\ C[nx].prev = n
      OBVIOUS
    <3>1. B[nx] \in BlockFields BY <1>t
    <3> HIDE DEF nx, n
    <3> QED BY <3>1, <2>s DEF BlockFields
  <2>5. \A c \in DOMAIN B : c # b => /\ C[c].size = B[c].size /\ C[c].free = B[c].free
                                    /\ C[c].last = B[c].last /\ C[c].next = B[c].next
                                    /\ C[c].prev = IF c = nx THEN n ELSE B[c].prev
    BY <2>4, <2>s
  <2>6. \A c \in DOMAIN C : Linked(C, c)
    <3>1. Linked(C, n)
      BY <2>3, <2>5, <2>s, <2>f, <2>x, <1>t DEF Linked, IsList, NULL
    <3>2. Linked(C, b)
      BY <2>3, <2>5, <2>s, <2>f, <2>x, <1>t DEF Linked, IsList, NULL
    <3>3. ASSUME NEW c \in DOMAIN B, c # b PROVE Linked(C, c)
      <4>1. Linked(B, c) /\ Linked(B, b) BY DEF IsList
      <4>2. CASE c = nx
        BY <4>1, <4>2, <3>3, <2>3, <2>5, <2>s, <2>x, <1>t DEF Linked, NULL
      <4>3. CASE c # nx
        BY <4>1, <4>3, <3>3, <2>3, <2>5, <2>s, <2>x, <1>t DEF Linked, NULL
      <4> QED BY <4>2, <4>3
    <3> QED BY <3>1, <3>2, <3>3, <2>s
  <2>7. \A c, d \in DOMAIN C : Apart(C, c, d)
    <3> SUFFICES ASSUME NEW c \in DOMAIN C, NEW d \in DOMAIN C PROVE Apart(C, c, d)
      OBVIOUS
    <3>0. /\ HeapStart \in Nat
          /\ \A x, y \in DOMAIN B : Apart(B, x, y)
      BY HeapAssumption DEF IsList
    <3>1. CASE c = n /\ d # n
      BY <3>0, <3>1, <2>3, <2>s, <2>f, <1>t DEF Apart
    <3>2. CASE c = b /\ d # n
      BY <3>0, <3>2, <2>3, <2>s, <2>f, <1>t DEF Apart
    <3>3. CASE c # n /\ c # b /\ d = n
      BY <3>0, <3>3, <2>5, <2>s, <2>f, <1>t DEF Apart
    <3>4. CASE c # n /\ c # b /\ d # n
      BY <3>0, <3>4, <2>5, <2>s, <1>t DEF Apart
    <3>5. CASE d = n /\ (c = n \/ c = b)
      BY <3>0, <3>5, <2>3, <2>s, <2>f, <1>t DEF Apart
    <3> QED BY <3>1, <3>2, <3>3, <3>4, <3>5
  <2>8. HeapStart \in DOMAIN C
    BY <2>s DEF IsList
  <2>9. IsList(C)
    BY <2>2, <2>6, <2>7, <2>8 DEF IsList
  <2> QED BY <2>9, <2>3, <2>5, <2>s, <1>t DEF C
<1> QED BY <1>1, <1>2

(* One round of merge_free_blocks keeps the list: the successor's header   *)
(* leaves it and its bytes go to block b.                                  *)
LEMMA AbsorbKeepsList ==
  ASSUME NEW B, IsList(B), NEW b \in DOMAIN B, B[b].next # NULL
  PROVE  LET C == absorb_next(B, b)
             nx == B[b].next
         IN /\ IsList(C)
            /\ nx # b /\ nx \in DOMAIN B /\ DOMAIN C = DOMAIN B \ {nx}
            /\ C[b].size = B[b].size + B[nx].size /\ C[b].free = B[b].free
            /\ \A c \in DOMAIN C : c # b => C[c].size = B[c].size /\ C[c].free = B[c].free
<1> DEFINE nx == B[b].next
           nn == B[nx].next
           C == absorb_next(B, b)
<1>t. /\ Hdr \in Nat \ {0} /\ HeapStart \in Nat \ {0}
      /\ \A c \in DOMAIN B : /\ c \in Nat \ {0} /\ B[c] \in BlockFields
                             /\ B[c].size \in Nat /\ B[c].next \in Nat /\ B[c].prev \in Nat
                             /\ B[c].free \in BOOLEAN /\ B[c].last \in BOOLEAN
  BY HeapAssumption, Fields DEF IsList
<1>l. /\ \A x \in DOMAIN B : Linked(B, x)
      /\ \A x, y \in DOMAIN B : Apart(B, x, y)
  BY DEF IsList
<1>1. /\ nx \in DOMAIN B /\ nx = b + B[b].size /\ B[nx].prev = b /\ nx # b
      /\ nx # HeapStart /\ B[b].last = FALSE
  BY <1>t, <1>l DEF Linked, NULL
<1>2. nn # NULL => nn \in DOMAIN B /\ nn = nx + B[nx].size /\ B[nn].prev = nx /\ nn # b /\ nn # nx
  BY <1>t, <1>l, <1>1 DEF Linked, NULL
<1>3. /\ DOMAIN C = DOMAIN B \ {nx}
      /\ C = [c \in DOMAIN C |-> C[c]]
      /\ C[b] = [size |-> B[b].size + B[nx].size, free |-> B[b].free,
                 last |-> B[b].last \/ B[nx].last, next |-> nn, prev |-> B[b].prev]
      /\ \A c \in DOMAIN C : c # b /\ c # nn => C[c] = B[c]
      /\ nn \in DOMAIN C /\ nn # b => C[nn] = [B[nn] EXCEPT !.prev = b]
  BY <1>1 DEF absorb_next
<1> HIDE DEF C
<1>4. /\ C[b].size = B[b].size + B[nx].size /\ C[b].free = B[b].free
      /\ C[b].last = B[nx].last /\ C[b].next = nn /\ C[b].prev = B[b].prev
  BY <1>1, <1>3, <1>t
<1>5. \A c \in DOMAIN C : c # b =>
        /\ C[c].size = B[c].size /\ C[c].free = B[c].free
        /\ C[c].last = B[c].last /\ C[c].next = B[c].next
        /\ C[c].prev = IF c = nn THEN b ELSE B[c].prev
  <2> SUFFICES ASSUME NEW c \in DOMAIN C, c # b
               PROVE  /\ C[c].size = B[c].size /\ C[c].free = B[c].free
                      /\ C[c].last = B[c].last /\ C[c].next = B[c].next
                      /\ C[c].prev = IF c = nn THEN b ELSE B[c].prev
    OBVIOUS
  <2>1. CASE c # nn
    BY <2>1, <1>3
  <2>2. CASE c = nn
    <3>1. B[c] \in BlockFields /\ C[c] = [B[c] EXCEPT !.prev = b]
      BY <2>2, <1>3, <1>t
    <3> HIDE DEF nn, nx
    <3> QED BY <2>2, <3>1 DEF BlockFields
  <2> QED BY <2>1, <2>2
<1>6. \A c \in DOMAIN C : C[c] \in BlockFields
  <2>1. C[b] \in BlockFields
    BY <1>3, <1>1, <1>t DEF BlockFields
  <2>2. nn \in DOMAIN C /\ nn # b => C[nn] \in BlockFields
    BY <1>3, <1>1, <1>t DEF BlockFields
  <2> QED BY <2>1, <2>2, <1>3, <1>t
<1>7. C \in [DOMAIN C -> BlockFields] /\ DOMAIN C \subseteq Nat \ {0}
  BY <1>3, <1>6, <1>t
<1>8. \A c \in DOMAIN C : Linked(C, c)
  <2>1. Linked(C, b)
    BY <1>1, <1>2, <1>3, <1>4, <1>5, <1>l, <1>t DEF Linked, NULL
  <2>2. ASSUME NEW c \in DOMAIN C, c # b PROVE Linked(C, c)
    <3>1. c \in DOMAIN B /\ c # nx /\ Linked(B, c)
      BY <1>3, <1>l
    <3>2. CASE c = nn
      BY <2>2, <3>1, <3>2, <1>1, <1>2, <1>3, <1>4, <1>5, <1>l, <1>t DEF Linked, NULL
    <3>3. CASE c # nn
      BY <2>2, <3>1, <3>3, <1>1, <1>2, <1>3, <1>4, <1>5, <1>l, <1>t DEF Linked, NULL
    <3> QED BY <3>2, <3>3
  <2> QED BY <2>1, <2>2
<1>9. \A c, d \in DOMAIN C : Apart(C, c, d)
  <2> SUFFICES ASSUME NEW c \in DOMAIN C, NEW d \in DOMAIN C PROVE Apart(C, c, d)
    OBVIOUS
  <2>1. CASE c = b
    <3>1. d > b => d > nx
      BY <1>1, <1>3, <1>l, <1>t DEF Apart
    <3> QED BY <2>1, <3>1, <1>1, <1>3, <1>4, <1>l, <1>t DEF Apart
  <2>2. CASE c # b
    BY <2>2, <1>1, <1>3, <1>5, <1>l, <1>t DEF Apart
  <2> QED BY <2>1, <2>2
<1>10. HeapStart \in DOMAIN C
  BY <1>1, <1>3 DEF IsList
<1>11. IsList(C)
  BY <1>7, <1>8, <1>9, <1>10 DEF IsList
<1> QED BY <1>1, <1>3, <1>4, <1>5, <1>11 DEF C

(* expand_heap keeps the list: a new free block follows the last one.      *)
LEMMA AppendKeepsList ==
  ASSUME NEW B, IsList(B), NEW l \in DOMAIN B, B[l].last, NEW size \in Nat, size >= Hdr,
         NEW n, n = l + B[l].size, NEW C, C = append_block(B, l, size)
  PROVE  /\ IsList(C)
         /\ n \notin DOMAIN B /\ DOMAIN C = DOMAIN B \cup {n}
         /\ C[n].size = size /\ C[n].free
         /\ \A c \in DOMAIN B : C[c].size = B[c].size /\ C[c].free = B[c].free
<1>t. /\ Hdr \in Nat \ {0} /\ HeapStart \in Nat \ {0}
      /\ \A c \in DOMAIN B : /\ c \in Nat \ {0} /\ B[c] \in BlockFields
                             /\ B[c].size \in Nat /\ B[c].next \in Nat /\ B[c].prev \in Nat
                             /\ B[c].free \in BOOLEAN /\ B[c].last \in BOOLEAN
  BY HeapAssumption, Fields DEF IsList
<1>l. /\ \A x \in DOMAIN B : Linked(B, x)
      /\ \A x, y \in DOMAIN B : Apart(B, x, y)
      /\ HeapStart \in DOMAIN B
  BY DEF IsList
<1>1. /\ n \in Nat /\ n > l /\ n \notin DOMAIN B /\ B[l].next = NULL
      /\ \A c \in DOMAIN B : c <= l /\ c + B[c].size <= n
  BY <1>t, <1>l DEF Linked, Apart
<1>2. /\ DOMAIN C = DOMAIN B \cup {n}
      /\ C = [c \in DOMAIN C |-> C[c]]
      /\ C[n] = [size |-> size, free |-> TRUE, last |-> TRUE, next |-> NULL, prev |-> l]
      /\ C[l] = [size |-> B[l].size, free |-> B[l].free, last |-> FALSE,
                 next |-> n, prev |-> B[l].prev]
      /\ \A c \in DOMAIN B : c # l => C[c] = B[c]
  BY <1>1 DEF append_block
<1>3. /\ C[n].size = size /\ C[n].free /\ C[n].last /\ C[n].next = NULL /\ C[n].prev = l
  BY <1>2
<1>4. /\ C[l].size = B[l].size /\ C[l].free = B[l].free /\ C[l].last = FALSE
      /\ C[l].next = n /\ C[l].prev = B[l].prev
  BY <1>2
<1>5. \A c \in DOMAIN C : C[c] \in BlockFields
  <2>1. C[n] \in BlockFields /\ C[l] \in BlockFields
    BY <1>1, <1>2, <1>t DEF BlockFields, NULL
  <2> QED BY <2>1, <1>2, <1>t
<1>6. C \in [DOMAIN C -> BlockFields] /\ DOMAIN C \subseteq Nat \ {0}
  BY <1>1, <1>2, <1>5, <1>t
<1>7. \A c \in DOMAIN C : Linked(C, c)
  <2>1. Linked(C, n)
    BY <1>1, <1>2, <1>3, <1>4, <1>l, <1>t DEF Linked, NULL, Apart
  <2>2. Linked(C, l)
    BY <1>1, <1>2, <1>3, <1>4, <1>l, <1>t DEF Linked, NULL
  <2>3. ASSUME NEW c \in DOMAIN B, c # l PROVE Linked(C, c)
    <3>1. \A x \in DOMAIN B : /\ C[x].prev = B[x].prev /\ C[x].size = B[x].size
                               /\ x # l => C[x].next = B[x].next /\ C[x].last = B[x].last
      BY <1>2, <1>4
    <3>2. Linked(B, c) /\ B[c].prev # l
      BY <1>1, <1>l, <1>t DEF Linked, NULL
    <3> QED BY <2>3, <3>1, <3>2, <1>2 DEF Linked
  <2> QED BY <2>1, <2>2, <2>3, <1>2
<1>8. \A c, d \in DOMAIN C : Apart(C, c, d)
  <2> SUFFICES ASSUME NEW c \in DOMAIN C, NEW d \in DOMAIN C PROVE Apart(C, c, d)
    OBVIOUS
  <2>1. CASE c = n
    BY <2>1, <1>1, <1>2, <1>3, <1>l, <1>t DEF Apart
  <2>2. CASE c = l
    BY <2>2, <1>1, <1>2, <1>4, <1>l, <1>t DEF Apart
  <2>3. CASE c # n /\ c # l
    <3>1. c \in DOMAIN B /\ C[c] = B[c] /\ ~B[c].last
      BY <2>3, <1>1, <1>2, <1>l, <1>t DEF Apart
    <3> QED BY <3>1, <1>1, <1>2, <1>l, <1>t DEF Apart
  <2> QED BY <2>1, <2>2, <2>3
<1>9. IsList(C)
  BY <1>2, <1>6, <1>7, <1>8, <1>l DEF IsList
<1> QED BY <1>1, <1>2, <1>3, <1>4, <1>9

(* Marking a block used or free leaves the list as it is.                  *)
LEMMA MarkKeepsList ==
  ASSUME NEW B, IsList(B), NEW b \in DOMAIN B, NEW v \in BOOLEAN
  PROVE  LET C == [B EXCEPT ![b].free = v]
         IN /\ IsList(C) /\ DOMAIN C = DOMAIN B /\ C[b].free = v
            /\ \A c \in DOMAIN B : /\ C[c].size = B[c].size /\ C[c].next = B[c].next
                                   /\ c # b => C[c].free = B[c].free
<1> DEFINE C == [B EXCEPT ![b].free = v]
<1>t. B \in [DOMAIN B -> BlockFields] /\ \A c \in DOMAIN B : B[c] \in BlockFields
  BY DEF IsList
<1>1. /\ DOMAIN C = DOMAIN B /\ C[b] = [B[b] EXCEPT !.free = v]
      /\ C = [c \in DOMAIN C |-> C[c]]
      /\ \A c \in DOMAIN B : c # b => C[c] = B[c]
  BY <1>t
<1> HIDE DEF C
<1>2. /\ C[b].size = B[b].size /\ C[b].free = v /\ C[b].last = B[b].last
      /\ C[b].next = B[b].next /\ C[b].prev = B[b].prev /\ C[b] \in BlockFields
  BY <1>1, <1>t DEF BlockFields
<1>3. \A c \in DOMAIN B : /\ C[c].size = B[c].size /\ C[c].last = B[c].last
                          /\ C[c].next = B[c].next /\ C[c].prev = B[c].prev
                          /\ C[c] \in BlockFields
                          /\ c # b => C[c].free = B[c].free
  BY <1>1, <1>2, <1>t
<1>4. C \in [DOMAIN C -> BlockFields]
  BY <1>1, <1>3
<1>5. \A c \in DOMAIN C : Linked(C, c)
  <2> SUFFICES ASSUME NEW c \in DOMAIN B PROVE Linked(C, c)
    BY <1>1
  <2>1. Linked(B, c) BY DEF IsList
  <2> QED BY <2>1, <1>1, <1>3 DEF Linked
<1>6. \A c, d \in DOMAIN C : Apart(C, c, d)
  BY <1>1, <1>3 DEF IsList, Apart
<1>7. IsList(C)
  BY <1>1, <1>4, <1>5, <1>6 DEF IsList
<1> QED BY <1>1, <1>2, <1>3, <1>7 DEF C

(* Rounding up to 8 does not lose bytes.                                   *)
LEMMA AlignedCovers ==
  ASSUME NEW n \in Nat
  PROVE  Aligned(n) \in Nat /\ Aligned(n) >= n
BY DEF Aligned

(* The pages expand_heap maps have room for the request and its header.    *)
LEMMA PagesCover ==
  ASSUME NEW n \in Nat
  PROVE  /\ PagesNeeded(n) \in Nat
         /\ PagesNeeded(n) * PageSize \in Nat
         /\ PagesNeeded(n) * PageSize >= n + Hdr
<1> DEFINE m == n + Hdr + PageSize - 1
           q == m \div PageSize
           r == m % PageSize
<1>0. PageSize \in Nat \ {0} /\ Hdr \in Nat \ {0} /\ m \in Nat
  BY HeapAssumption
<1>1. q \in Nat /\ r \in 0..(PageSize - 1) /\ m = PageSize * q + r
  BY <1>0
<1>2. q * PageSize \in Nat /\ q * PageSize >= n + Hdr
  BY <1>0, <1>1
<1> QED BY <1>1, <1>2 DEF PagesNeeded

----------------------------------------------------------------------------
(* A call in progress works on a block that is still in the list, and a    *)
(* growing reallocation will find the room its test promised.              *)
OpInv ==
  /\ op.pc \in {"merge", "merge_prev"} => op.block \in DOMAIN block /\ block[op.block].free
  /\ op.pc = "free_old" => op.block \in DOMAIN owned
  /\ op.pc = "grow" => /\ op.block \in DOMAIN owned
                       /\ \/ block[op.block].size >= op.size + Hdr
                          \/ GrowsInPlace(op.block, op.size)

IInv == TypeOK /\ Tiled /\ AllocationsOwnBlocks /\ OpInv

StatsType == [total_size : Int, used_size : Int, free_size : Int,
              total_blocks : Int, free_blocks : Int]

OpType == [pc : {"idle", "merge", "merge_prev", "grow", "free_old"}, block : Nat, size : Nat]

(* TypeOK and Tiled in terms of IsList.                                    *)
LEMMA ListOfState ==
  TypeOK /\ Tiled <=> /\ IsList(block) /\ stats \in StatsType /\ phys \in 0..PhysPages
                     /\ DOMAIN owned \subseteq DOMAIN block
                     /\ owned \in [DOMAIN owned -> Nat] /\ op \in OpType
BY DEF TypeOK, Tiled, IsList, StatsType, OpType

(* ListOfState of the state after a step.                                  *)
LEMMA ListOfNextState ==
  (TypeOK /\ Tiled)' <=> /\ IsList(block') /\ stats' \in StatsType /\ phys' \in 0..PhysPages
                        /\ DOMAIN owned' \subseteq DOMAIN block'
                        /\ owned' \in [DOMAIN owned' -> Nat] /\ op' \in OpType
BY DEF TypeOK, Tiled, IsList, StatsType, OpType

(* Adding integers to the statistics leaves statistics.                    *)
LEMMA StatsAdd ==
  ASSUME NEW S \in StatsType, NEW i \in Int, NEW j \in Int, NEW k \in Int,
         NEW m \in Int, NEW n \in Int
  PROVE  AddStats(S, i, j, k, m, n) \in StatsType
BY DEF StatsType, AddStats

(* Taking a free block of a list for a request of req bytes.               *)
LEMMA TakeStep ==
  ASSUME NEW B, IsList(B), NEW S \in StatsType, NEW b \in DOMAIN B, B[b].free,
         NEW req \in Nat, NEW size \in Nat, size >= req, B[b].size >= size + Hdr,
         owned \in [DOMAIN owned -> Nat],
         DOMAIN owned = {c \in DOMAIN B : ~B[c].free},
         \A c \in DOMAIN owned : B[c].size >= Hdr + owned[c],
         NEW after, TakeBlock(B, S, b, size, req, after)
  PROVE  /\ IsList(block') /\ stats' \in StatsType
         /\ DOMAIN owned \subseteq DOMAIN owned'
         /\ DOMAIN owned' \subseteq DOMAIN block'
         /\ owned' \in [DOMAIN owned' -> Nat]
         /\ AllocationsOwnBlocks'
         /\ op' = after
<1> DEFINE C == split_block(B, b, size)
           D == [C EXCEPT ![b].free = FALSE]
<1>t. /\ Hdr \in Nat
      /\ \A c \in DOMAIN B : B[c].size \in Nat /\ B[c].free \in BOOLEAN
  BY HeapAssumption, Fields DEF IsList
<1>1. /\ IsList(C) /\ DOMAIN B \subseteq DOMAIN C
      /\ C[b].size >= size + Hdr
      /\ \A c \in DOMAIN B : c # b => C[c].size = B[c].size /\ C[c].free = B[c].free
      /\ \A c \in DOMAIN C : c \notin DOMAIN B => C[c].free
  BY SplitKeepsList
<1>c. \A c \in DOMAIN C : C[c].size \in Nat /\ C[c].free \in BOOLEAN
  BY <1>1, Fields DEF IsList
<1> HIDE DEF C
<1>2. /\ IsList(D) /\ DOMAIN D = DOMAIN C /\ D[b].free = FALSE
      /\ \A c \in DOMAIN C : /\ D[c].size = C[c].size
                             /\ c # b => D[c].free = C[c].free
  BY <1>1, MarkKeepsList
<1>3. /\ block' = D /\ op' = after
      /\ owned' = [c \in DOMAIN owned \cup {b} |-> IF c = b THEN req ELSE owned[c]]
  BY DEF TakeBlock, C
<1>4. stats' \in StatsType
  <2>1. C[b].size \in Int
    BY <1>1, <1>c
  <2>2. PICK k \in {0, 1} : stats' = AddStats(S, 0, C[b].size, -C[b].size, k, k - 1)
    BY DEF TakeBlock, C
  <2>3. 0 \in Int /\ -C[b].size \in Int /\ k \in Int /\ k - 1 \in Int
    BY <2>1
  <2> QED BY <2>1, <2>2, <2>3, StatsAdd
<1> HIDE DEF D
<1>5. /\ DOMAIN owned' = DOMAIN owned \cup {b}
      /\ \A c \in DOMAIN owned' : owned'[c] = IF c = b THEN req ELSE owned[c]
  BY <1>3
<1>6. DOMAIN owned' = {c \in DOMAIN D : ~D[c].free}
  BY <1>1, <1>2, <1>5, <1>t, <1>c
<1>7. \A c \in DOMAIN owned' : D[c].size >= Hdr + owned'[c]
  <2> SUFFICES ASSUME NEW c \in DOMAIN owned' PROVE D[c].size >= Hdr + owned'[c]
    OBVIOUS
  <2>1. CASE c = b
    BY <2>1, <1>1, <1>2, <1>5, <1>t, <1>c
  <2>2. CASE c # b
    BY <2>2, <1>1, <1>2, <1>5, <1>t, <1>c
  <2> QED BY <2>1, <2>2
<1>8. owned' \in [DOMAIN owned' -> Nat]
  BY <1>3, <1>5
<1> QED BY <1>2, <1>3, <1>4, <1>5, <1>6, <1>7, <1>8 DEF AllocationsOwnBlocks
----------------------------------------------------------------------------
(* What IInv says of the list and of the allocations, unfolded once.       *)
LEMMA Unfold ==
  ASSUME IInv
  PROVE  /\ IsList(block) /\ stats \in StatsType /\ phys \in 0..PhysPages
         /\ DOMAIN owned \subseteq DOMAIN block
         /\ owned \in [DOMAIN owned -> Nat] /\ op \in OpType
         /\ DOMAIN owned = {c \in DOMAIN block : ~block[c].free}
         /\ \A c \in DOMAIN owned : block[c].size >= Hdr + owned[c]
         /\ OpInv
BY ListOfState DEF IInv, AllocationsOwnBlocks

(* The three outcomes of the allocation inside heap_alloc and heap_realloc *)
(* leave the heap as IInv wants it and keep every earlier allocation.      *)
LEMMA AllocStep ==
  ASSUME IInv, NEW req \in Nat, NEW after \in OpType, NEW t \in 0..MaxTables,
         AllocFit(req, after) \/ AllocExpand(req, t, after)
  PROVE  /\ TypeOK' /\ Tiled' /\ AllocationsOwnBlocks'
         /\ DOMAIN owned \subseteq DOMAIN owned' /\ op' = after
<1>u. /\ IsList(block) /\ stats \in StatsType /\ phys \in 0..PhysPages
      /\ DOMAIN owned \subseteq DOMAIN block
      /\ owned \in [DOMAIN owned -> Nat]
      /\ DOMAIN owned = {c \in DOMAIN block : ~block[c].free}
      /\ \A c \in DOMAIN owned : block[c].size >= Hdr + owned[c]
  BY Unfold
<1>a. Aligned(req) \in Nat /\ Aligned(req) >= req
  BY AlignedCovers
<1>p. phys' \in 0..PhysPages
  BY <1>u, <1>a, PagesCover, HeapAssumption DEF AllocFit, AllocExpand
<1>1. /\ IsList(block') /\ stats' \in StatsType
      /\ DOMAIN owned \subseteq DOMAIN owned'
      /\ DOMAIN owned' \subseteq DOMAIN block'
      /\ owned' \in [DOMAIN owned' -> Nat]
      /\ AllocationsOwnBlocks'
      /\ op' = after
  <2>1. CASE AllocFit(req, after)
    <3>1. PICK b \in DOMAIN block :
            /\ find_free_block(block, b, Aligned(req))
            /\ TakeBlock(block, stats, b, Aligned(req), req, after)
      BY <2>1 DEF AllocFit
    <3>2. block[b].free /\ block[b].size >= Aligned(req) + Hdr
      BY <3>1 DEF find_free_block, Fits
    <3> QED BY <3>1, <3>2, <1>u, <1>a, TakeStep
  <2>2. CASE AllocExpand(req, t, after)
    <3> DEFINE size == PagesNeeded(Aligned(req)) * PageSize
    <3>1. PICK l \in DOMAIN block :
            /\ block[l].last
            /\ TakeBlock(append_block(block, l, size), AddStats(stats, size, 0, size, 1, 1),
                         l + block[l].size, Aligned(req), req, after)
      BY <2>2 DEF AllocExpand
    <3> DEFINE B == append_block(block, l, size)
               n == l + block[l].size
               S == AddStats(stats, size, 0, size, 1, 1)
    <3>2. size \in Nat /\ size >= Aligned(req) + Hdr /\ size >= Hdr
      BY <1>a, PagesCover, HeapAssumption
    <3> HIDE DEF size
    <3>3. /\ IsList(B) /\ n \notin DOMAIN block /\ DOMAIN B = DOMAIN block \cup {n}
          /\ B[n].size = size /\ B[n].free
          /\ \A c \in DOMAIN block : B[c].size = block[c].size /\ B[c].free = block[c].free
      <4>1. /\ block[l].last /\ size \in Nat /\ size >= Hdr /\ IsList(block)
            /\ B = append_block(block, l, size) /\ n = l + block[l].size
        BY <1>u, <3>1, <3>2
      <4> HIDE DEF B, n
      <4> QED BY <4>1, AppendKeepsList
    <3>4. S \in StatsType
      <4>1. size \in Int /\ 0 \in Int /\ 1 \in Int
        BY <3>2
      <4> QED BY <1>u, <4>1, StatsAdd
    <3>5. TakeBlock(B, S, n, Aligned(req), req, after)
      BY <3>1
    <3> HIDE DEF B, n, S
    <3>6. /\ n \in DOMAIN B /\ B[n].size >= Aligned(req) + Hdr
          /\ DOMAIN owned = {c \in DOMAIN B : ~B[c].free}
          /\ \A c \in DOMAIN owned : B[c].size >= Hdr + owned[c]
      BY <3>2, <3>3, <1>u
    <3> QED BY <3>3, <3>4, <3>5, <3>6, <1>u, <1>a, TakeStep
  <2> QED BY <2>1, <2>2
<1> QED BY <1>1, <1>p, ListOfNextState

(* A heap_alloc that fails changes nothing but the stock of pages.         *)
LEMMA FailStep ==
  ASSUME IInv, NEW req, NEW t \in 0..MaxTables, AllocFail(req, t)
  PROVE  IInv'
<1>1. phys' \in 0..PhysPages
  BY HeapAssumption DEF AllocFail
<1> QED
  BY <1>1 DEF AllocFail, IInv, TypeOK, Tiled, Linked, Apart, AllocationsOwnBlocks, OpInv,
              GrowsInPlace, MergesNext

(* heap_free's first half.                                                 *)
LEMMA FreeStep ==
  ASSUME IInv, NEW b \in DOMAIN owned, FreeBlock(b)
  PROVE  IInv'
<1>u. /\ IsList(block) /\ stats \in StatsType /\ phys \in 0..PhysPages
      /\ DOMAIN owned \subseteq DOMAIN block
      /\ owned \in [DOMAIN owned -> Nat]
      /\ DOMAIN owned = {c \in DOMAIN block : ~block[c].free}
      /\ \A c \in DOMAIN owned : block[c].size >= Hdr + owned[c]
  BY Unfold
<1>1. /\ block' = [block EXCEPT ![b].free = TRUE]
      /\ stats' = AddStats(stats, 0, -block[b].size, block[b].size, 0, 1)
      /\ owned' = [c \in DOMAIN owned \ {b} |-> owned[c]]
      /\ op' = [pc |-> "merge", block |-> b, size |-> 0]
      /\ phys' = phys
  BY DEF FreeBlock
<1>2. /\ IsList(block') /\ DOMAIN block' = DOMAIN block /\ block'[b].free = TRUE
      /\ \A c \in DOMAIN block : /\ block'[c].size = block[c].size
                                 /\ c # b => block'[c].free = block[c].free
  BY <1>u, <1>1, MarkKeepsList
<1>3. stats' \in StatsType
  <2>1. block[b].size \in Int /\ -block[b].size \in Int /\ 0 \in Int /\ 1 \in Int
    BY <1>u, Fields DEF IsList
  <2> QED BY <1>1, <1>u, <2>1, StatsAdd
<1>4. /\ DOMAIN owned' = DOMAIN owned \ {b} /\ owned' \in [DOMAIN owned' -> Nat]
      /\ \A c \in DOMAIN owned' : owned'[c] = owned[c]
  BY <1>1, <1>u
<1>5. AllocationsOwnBlocks'
  BY <1>2, <1>4, <1>u DEF AllocationsOwnBlocks
<1>6. op' \in OpType
  BY <1>1, <1>u DEF OpType, IsList
<1>7. OpInv'
  BY <1>1, <1>2, <1>u DEF OpInv
<1>8. (TypeOK /\ Tiled)'
  BY <1>1, <1>2, <1>3, <1>4, <1>6, <1>u, ListOfNextState
<1> QED BY <1>5, <1>7, <1>8 DEF IInv

(* One iteration of merge_free_blocks, for heap_free or heap_realloc.      *)
LEMMA MergeStep ==
  ASSUME IInv, merge_free_blocks
  PROVE  IInv'
<1> DEFINE b == op.block
           nx == block[b].next
<1>u. /\ IsList(block) /\ stats \in StatsType /\ phys \in 0..PhysPages
      /\ DOMAIN owned \subseteq DOMAIN block /\ op \in OpType
      /\ owned \in [DOMAIN owned -> Nat]
      /\ DOMAIN owned = {c \in DOMAIN block : ~block[c].free}
      /\ \A c \in DOMAIN owned : block[c].size >= Hdr + owned[c]
      /\ OpInv
  BY Unfold
<1>1. /\ op.pc \in {"merge", "merge_prev", "grow"}
      /\ nx # NULL /\ block[nx].free
      /\ block' = absorb_next(block, b)
      /\ stats' = AddStats(stats, 0, 0, 0, -1, -1)
      /\ phys' = phys /\ owned' = owned /\ op' = op
  BY DEF merge_free_blocks, MergesNext
<1>2. b \in DOMAIN block
  BY <1>1, <1>u DEF OpInv
<1>3. /\ IsList(block')
      /\ nx # b /\ nx \in DOMAIN block /\ DOMAIN block' = DOMAIN block \ {nx}
      /\ block'[b].size = block[b].size + block[nx].size /\ block'[b].free = block[b].free
      /\ \A c \in DOMAIN block' : c # b => block'[c].size = block[c].size
                                            /\ block'[c].free = block[c].free
  <2>1. \A B : IsList(B) => \A d \in DOMAIN B : B[d].next # NULL =>
          LET C == absorb_next(B, d)
              n == B[d].next
          IN /\ IsList(C)
             /\ n # d /\ n \in DOMAIN B /\ DOMAIN C = DOMAIN B \ {n}
             /\ C[d].size = B[d].size + B[n].size /\ C[d].free = B[d].free
             /\ \A c \in DOMAIN C : c # d => C[c].size = B[c].size /\ C[c].free = B[c].free
    BY AbsorbKeepsList
  <2>2. LET C == absorb_next(block, b)
        IN /\ IsList(C)
           /\ nx # b /\ nx \in DOMAIN block /\ DOMAIN C = DOMAIN block \ {nx}
           /\ C[b].size = block[b].size + block[nx].size /\ C[b].free = block[b].free
           /\ \A c \in DOMAIN C : c # b => C[c].size = block[c].size /\ C[c].free = block[c].free
    <3>1. IsList(block) /\ b \in DOMAIN block /\ block[b].next # NULL
      BY <1>1, <1>2, <1>u
    <3> HIDE DEF b
    <3> QED BY <2>1, <3>1, Zenon
  <2> QED BY <2>2, <1>1, Zenon
<1>t. /\ Hdr \in Nat
      /\ \A c \in DOMAIN block : block[c].size \in Nat
      /\ \A c \in DOMAIN owned : owned[c] \in Nat
  BY <1>u, HeapAssumption, Fields DEF IsList
<1>4. AllocationsOwnBlocks'
  <2>1. DOMAIN owned' = {c \in DOMAIN block' : ~block'[c].free}
    BY <1>1, <1>2, <1>3, <1>u
  <2>2. \A c \in DOMAIN owned' : block'[c].size >= Hdr + owned'[c]
    <3> SUFFICES ASSUME NEW c \in DOMAIN owned PROVE block'[c].size >= Hdr + owned[c]
      BY <1>1
    <3>1. c \in DOMAIN block'
      BY <2>1, <1>1
    <3>2. CASE c = b
      BY <3>2, <1>2, <1>3, <1>u, <1>t
    <3>3. CASE c # b
      BY <3>1, <3>3, <1>3, <1>u
    <3> QED BY <3>2, <3>3
  <2> QED BY <2>1, <2>2 DEF AllocationsOwnBlocks
<1>5. stats' \in StatsType
  <2>1. 0 \in Int /\ -1 \in Int OBVIOUS
  <2> QED BY <1>1, <1>u, <2>1, StatsAdd
<1>6. (TypeOK /\ Tiled)'
  <2>1. DOMAIN owned' \subseteq DOMAIN block'
    BY <1>4 DEF AllocationsOwnBlocks
  <2> QED BY <1>1, <1>3, <1>5, <1>u, <2>1, ListOfNextState
<1>7. OpInv'
  <2>1. CASE op.pc \in {"merge", "merge_prev"}
    BY <2>1, <1>1, <1>2, <1>3, <1>u DEF OpInv
  <2>2. CASE op.pc = "grow"
    <3>1. op.size \in Nat
      BY <1>u DEF OpType
    <3>2. block[b].size + block[nx].size >= op.size + Hdr
      BY <2>2, <3>1, <1>2, <1>3, <1>t, <1>u DEF OpInv, GrowsInPlace, MergesNext
    <3> QED BY <2>2, <3>2, <1>1, <1>3, <1>u DEF OpInv
  <2> QED BY <2>1, <2>2, <1>1
<1> QED BY <1>4, <1>6, <1>7 DEF IInv

(* heap_realloc's split of a block that is large enough.                   *)
LEMMA ResizeStep ==
  ASSUME IInv, NEW b \in DOMAIN owned, NEW size \in Nat,
         block[b].size >= size + Hdr, Resize(b, size)
  PROVE  IInv'
<1>u. /\ IsList(block) /\ stats \in StatsType /\ phys \in 0..PhysPages
      /\ DOMAIN owned \subseteq DOMAIN block
      /\ owned \in [DOMAIN owned -> Nat]
      /\ DOMAIN owned = {c \in DOMAIN block : ~block[c].free}
      /\ \A c \in DOMAIN owned : block[c].size >= Hdr + owned[c]
  BY Unfold
<1>1. /\ block' = split_block(block, b, size)
      /\ owned' = [owned EXCEPT ![b] = size] /\ op' = Idle /\ phys' = phys
      /\ \E k \in {0, 1} : stats' = AddStats(stats, 0, 0, 0, k, k)
  BY DEF Resize
<1>2. /\ IsList(block') /\ DOMAIN block \subseteq DOMAIN block'
      /\ block'[b].size >= size + Hdr /\ block'[b].free = block[b].free
      /\ \A c \in DOMAIN block : c # b => /\ block'[c].size = block[c].size
                                          /\ block'[c].free = block[c].free
      /\ \A c \in DOMAIN block' : c \notin DOMAIN block => block'[c].free
  BY <1>u, <1>1, SplitKeepsList
<1>3. /\ DOMAIN owned' = DOMAIN owned /\ owned' \in [DOMAIN owned' -> Nat]
      /\ owned'[b] = size /\ \A c \in DOMAIN owned : c # b => owned'[c] = owned[c]
  BY <1>1, <1>u
<1>4. stats' \in StatsType
  <2>1. PICK k \in {0, 1} : stats' = AddStats(stats, 0, 0, 0, k, k)
    BY <1>1
  <2>2. 0 \in Int /\ k \in Int OBVIOUS
  <2> QED BY <1>u, <2>1, <2>2, StatsAdd
<1>5. AllocationsOwnBlocks'
  <2>1. DOMAIN owned' = {c \in DOMAIN block' : ~block'[c].free}
    BY <1>2, <1>3, <1>u
  <2>2. \A c \in DOMAIN owned' : block'[c].size >= Hdr + owned'[c]
    <3>1. block'[b].size >= Hdr + owned'[b]
      <4>1. block'[b] \in BlockFields
        BY <1>2, <1>u DEF IsList
      <4> QED BY <4>1, <1>2, <1>3, Fields, HeapAssumption
    <3> QED BY <3>1, <1>2, <1>3, <1>u
  <2> QED BY <2>1, <2>2 DEF AllocationsOwnBlocks
<1>6. op' \in OpType
  BY <1>1 DEF Idle, OpType, NULL
<1>7. (TypeOK /\ Tiled)'
  BY <1>1, <1>2, <1>3, <1>4, <1>6, <1>u, ListOfNextState
<1>8. OpInv'
  BY <1>1 DEF OpInv, Idle
<1> QED BY <1>5, <1>7, <1>8 DEF IInv

(* Steps that only move op on.                                             *)
LEMMA OpStep ==
  ASSUME IInv, UNCHANGED <<block, stats, phys, owned>>, op' \in OpType, OpInv'
  PROVE  IInv'
BY DEF IInv, TypeOK, Tiled, Linked, Apart, AllocationsOwnBlocks, OpType

----------------------------------------------------------------------------
(* Every step of every heap call keeps the invariant.                      *)
LEMMA NextKeepsIInv == IInv /\ [Next]_vars => IInv'
<1> SUFFICES ASSUME IInv, [Next]_vars PROVE IInv'
  OBVIOUS
<1>u. /\ IsList(block) /\ op \in OpType /\ OpInv
      /\ DOMAIN owned \subseteq DOMAIN block
      /\ DOMAIN owned = {c \in DOMAIN block : ~block[c].free}
      /\ \A c \in DOMAIN block : block[c].size \in Nat /\ block[c].prev \in Nat
      /\ Hdr \in Nat /\ Sizes \subseteq Nat /\ NewSizes \subseteq Nat
  BY Unfold, Fields, HeapAssumption DEF IsList
<1>i. Idle \in OpType
  BY DEF Idle, OpType, NULL
<1>1. ASSUME NEW req \in Sizes, heap_alloc(req) PROVE IInv'
  <2>1. CASE \E t \in 0..MaxTables : AllocFail(req, t)
    BY <2>1, FailStep
  <2>2. CASE AllocFit(req, Idle) \/ \E t \in 0..MaxTables : AllocExpand(req, t, Idle)
    <3>1. PICK t \in 0..MaxTables : AllocFit(req, Idle) \/ AllocExpand(req, t, Idle)
      BY <2>2, HeapAssumption
    <3>2. TypeOK' /\ Tiled' /\ AllocationsOwnBlocks' /\ op' = Idle
      BY <3>1, <1>i, <1>u, AllocStep
    <3> QED BY <3>2 DEF IInv, OpInv, Idle
  <2> QED BY <1>1, <2>1, <2>2 DEF heap_alloc
<1>2. ASSUME NEW b \in DOMAIN owned, heap_free(b) PROVE IInv'
  BY <1>2, FreeStep DEF heap_free
<1>3. ASSUME NEW b \in DOMAIN owned, NEW size \in NewSizes, heap_realloc_shrink(b, size)
      PROVE  IInv'
  <2>1. block[b].size >= size + Hdr /\ size \in Nat
    BY <1>3, <1>u DEF heap_realloc_shrink
  <2> QED BY <1>3, <2>1, ResizeStep DEF heap_realloc_shrink
<1>4. ASSUME NEW b \in DOMAIN owned, NEW size \in NewSizes, heap_realloc_grow(b, size)
      PROVE  IInv'
  <2>1. /\ op' = [pc |-> "grow", block |-> b, size |-> size]
        /\ UNCHANGED <<block, stats, phys, owned>> /\ GrowsInPlace(b, size)
    BY <1>4 DEF heap_realloc_grow
  <2>2. op' \in OpType
    BY <2>1, <1>u DEF OpType, IsList
  <2>3. OpInv'
    BY <2>1 DEF OpInv, GrowsInPlace, MergesNext
  <2> QED BY <2>1, <2>2, <2>3, OpStep
<1>5. ASSUME NEW b \in DOMAIN owned, NEW size \in NewSizes, heap_realloc_move(b, size)
      PROVE  IInv'
  <2> DEFINE after == [pc |-> "free_old", block |-> b, size |-> 0]
  <2>1. CASE \E t \in 0..MaxTables : AllocFail(size, t)
    BY <2>1, FailStep
  <2>2. CASE AllocFit(size, after) \/ \E t \in 0..MaxTables : AllocExpand(size, t, after)
    <3>1. PICK t \in 0..MaxTables : AllocFit(size, after) \/ AllocExpand(size, t, after)
      BY <2>2, HeapAssumption
    <3>2. after \in OpType
      BY <1>u DEF OpType, IsList
    <3> HIDE DEF after
    <3>3. /\ TypeOK' /\ Tiled' /\ AllocationsOwnBlocks' /\ op' = after
          /\ DOMAIN owned \subseteq DOMAIN owned'
      BY <3>1, <3>2, <1>u, AllocStep
    <3> QED BY <3>3 DEF IInv, OpInv, after
  <2> QED BY <1>5, <2>1, <2>2 DEF heap_realloc_move
<1>6. CASE merge_free_blocks
  BY <1>6, MergeStep
<1>7. CASE heap_free_prev
  <2>1. /\ op.pc = "merge" /\ UNCHANGED <<block, stats, phys, owned>>
        /\ op' = IF PrevIsFree(op.block)
                 THEN [pc |-> "merge_prev", block |-> block[op.block].prev, size |-> 0]
                 ELSE Idle
    BY <1>7 DEF heap_free_prev
  <2>2. CASE ~PrevIsFree(op.block)
    BY <2>1, <2>2, <1>i, OpStep DEF OpInv, Idle
  <2>3. CASE PrevIsFree(op.block)
    <3>1. op.block \in DOMAIN block /\ block[op.block].prev \in Nat
      BY <2>1, <1>u DEF OpInv
    <3>2. block[op.block].prev \in DOMAIN block /\ block[block[op.block].prev].free
      BY <2>3, <3>1, <1>u DEF PrevIsFree, IsList, Linked
    <3>3. op' = [pc |-> "merge_prev", block |-> block[op.block].prev, size |-> 0]
      BY <2>1, <2>3
    <3>4. op' \in OpType
      BY <3>1, <3>3 DEF OpType
    <3>5. OpInv'
      BY <2>1, <3>2, <3>3 DEF OpInv
    <3> QED BY <2>1, <3>4, <3>5, OpStep
  <2> QED BY <2>2, <2>3
<1>8. CASE heap_free_done
  BY <1>8, <1>i, OpStep DEF heap_free_done, OpInv, Idle
<1>9. CASE heap_realloc_grow_done
  <2>1. op.block \in DOMAIN owned /\ op.size \in Nat /\ block[op.block].size >= op.size + Hdr
    BY <1>9, <1>u DEF heap_realloc_grow_done, OpInv, GrowsInPlace, OpType
  <2> QED BY <1>9, <2>1, ResizeStep DEF heap_realloc_grow_done
<1>10. CASE heap_realloc_free_old
  <2>1. op.block \in DOMAIN owned
    BY <1>10, <1>u DEF heap_realloc_free_old, OpInv
  <2> QED BY <1>10, <2>1, FreeStep DEF heap_realloc_free_old
<1>11. CASE UNCHANGED vars
  <2>1. OpInv'
    BY <1>11, <1>u DEF vars, OpInv, GrowsInPlace, MergesNext
  <2> QED BY <1>11, <1>u, <2>1, OpStep DEF vars
<1> QED BY <1>1, <1>2, <1>3, <1>4, <1>5, <1>6, <1>7, <1>8, <1>9, <1>10, <1>11 DEF Next, Progress

(* The inductive invariant holds in every reachable state.                 *)
THEOREM IInvHolds == Spec => []IInv
<1>1. Init => IInv
  <2> SUFFICES ASSUME Init PROVE IInv
    OBVIOUS
  <2>1. /\ DOMAIN block = {HeapStart} /\ DOMAIN owned = {}
        /\ block[HeapStart] = [size |-> PageSize, free |-> TRUE, last |-> TRUE,
                               next |-> NULL, prev |-> NULL]
        /\ block = [b \in DOMAIN block |-> block[b]]
        /\ op = Idle /\ phys = PhysPages
    BY DEF Init
  <2>2. block[HeapStart] \in BlockFields
    BY <2>1, HeapAssumption DEF BlockFields, NULL
  <2>3. TypeOK
    <3>1. stats \in StatsType
      BY HeapAssumption DEF Init, StatsType
    <3>2. owned \in [DOMAIN owned -> Nat]
      BY DEF Init
    <3>3. block \in [DOMAIN block -> BlockFields]
      BY <2>1, <2>2
    <3>4. op \in OpType
      BY <2>1 DEF OpType, Idle, NULL
    <3>5. phys \in 0..PhysPages /\ DOMAIN block \subseteq Nat \ {0} /\ DOMAIN owned \subseteq DOMAIN block
      BY <2>1, HeapAssumption
    <3> QED BY <3>1, <3>2, <3>3, <3>4, <3>5 DEF TypeOK, StatsType, OpType
  <2>4. Tiled
    BY <2>1, HeapAssumption DEF Tiled, Linked, Apart, NULL
  <2>5. AllocationsOwnBlocks
    BY <2>1 DEF AllocationsOwnBlocks
  <2>6. OpInv
    BY <2>1 DEF OpInv, Idle
  <2> QED BY <2>3, <2>4, <2>5, <2>6 DEF IInv
<1> QED BY <1>1, NextKeepsIInv, PTL DEF Spec

(* The fields of the list, the statistics and the call in progress keep    *)
(* their types.                                                            *)
THEOREM TypeCorrect == Spec => []TypeOK
<1>1. IInv => TypeOK BY DEF IInv
<1> QED BY <1>1, IInvHolds, PTL

(* The blocks tile the heap, for every header and page size and every      *)
(* sequence of heap_alloc, heap_free and heap_realloc calls.               *)
THEOREM HeapTiled == Spec => []Tiled
<1>1. IInv => Tiled BY DEF IInv
<1> QED BY <1>1, IInvHolds, PTL

(* Every live allocation owns one block that is large enough for it, and   *)
(* no used block is lost.                                                  *)
THEOREM AllocationsSafe == Spec => []AllocationsOwnBlocks
<1>1. IInv => AllocationsOwnBlocks BY DEF IInv
<1> QED BY <1>1, IInvHolds, PTL
----------------------------------------------------------------------------
(***************************************************************************)
(* Sums of block sizes.  The library's induction theorems cannot be        *)
(* instantiated, but that a set of naturals has a least element can be     *)
(* used: the induction is on the smallest set for which a claim fails.     *)
(***************************************************************************)

(* Of finite sets one is smallest.                                         *)
LEMMA Smallest ==
  ASSUME NEW W, W # {}, \A s \in W : IsFiniteSet(s)
  PROVE  \E s \in W : \A t \in W : Cardinality(s) <= Cardinality(t)
<1> DEFINE R == OpToRel(<, Nat)
           N == {Cardinality(s) : s \in W}
<1>1. N \subseteq Nat /\ N # {}
  BY FS_CardinalityType
<1>2. \A x, y \in Nat : <<y, x>> \in R <=> y < x
  BY DEF OpToRel
<1>3. IsWellFoundedOn(R, Nat)
  BY NatLessThanWellFounded
<1> HIDE DEF R, N
<1>4. PICK x \in N : \A y \in N : ~(<<y, x>> \in R)
  BY <1>1, <1>3, WFMin
<1>5. \A y \in N : x <= y
  <2> TAKE y \in N
  <2>1. x \in Nat /\ y \in Nat
    BY <1>1
  <2>2. ~(y < x)
    BY <1>2, <1>4, <2>1
  <2> QED BY <2>1, <2>2
<1> QED BY <1>4, <1>5 DEF N

(* The sum over S as MapThenSumSet computes it: g has the sums over the    *)
(* subsets of S.                                                           *)
Sum(B, S) == MapThenSumSet(LAMBDA b : B[b].size, S)

Any(s) == CHOOSE x \in s : TRUE
Plus(B, g, s) == IF s = {} THEN 0 ELSE B[Any(s)].size + g[s \ {Any(s)}]
Sized(B, S) == \A b \in S : B[b].size \in Int
Adds(B, S, g) == g = [s \in SUBSET S |-> Plus(B, g, s)]

(* Sum is the value at S of a function that adds.                          *)
LEMMA SumIs == \A B, S : Sum(B, S) = (CHOOSE g : Adds(B, S, g))[S]
BY DEF Sum, MapThenSumSet, MapThenFoldSet, Adds, Plus, Any

(* The sum heap_check computes is Sum of the list.                         *)
LEMMA SumOfBlock == \A S : SumOfSizes(S) = Sum(block, S)
BY DEF Sum, SumOfSizes

(* Taking an element away makes a finite set smaller.                      *)
LEMMA Less ==
  ASSUME NEW S, IsFiniteSet(S), NEW s \in SUBSET S
  PROVE  /\ IsFiniteSet(s) /\ Cardinality(s) \in Nat /\ Cardinality(s) <= Cardinality(S)
         /\ \A x \in s : s \ {x} \in SUBSET S /\ Cardinality(s \ {x}) = Cardinality(s) - 1
         /\ s # {} => Any(s) \in s /\ Cardinality(s) # 0
         /\ s = {} => Cardinality(s) = 0
<1>1. IsFiniteSet(s) /\ Cardinality(s) \in Nat /\ Cardinality(s) <= Cardinality(S)
  BY FS_Subset, FS_CardinalityType
<1>2. \A x \in s : s \ {x} \in SUBSET S /\ Cardinality(s \ {x}) = Cardinality(s) - 1
  BY <1>1, FS_RemoveElement
<1>3. s # {} => Any(s) \in s
  BY DEF Any
<1>4. Cardinality(s) = 0 <=> s = {}
  BY <1>1, FS_EmptySet
<1> QED BY <1>1, <1>2, <1>3, <1>4

(* Two such functions agree where the sizes do.                            *)
LEMMA SumsAgree ==
  ASSUME NEW B, NEW S, NEW g, Adds(B, S, g), NEW C, NEW T, NEW h, Adds(C, T, h),
         NEW r, IsFiniteSet(r), r \subseteq S, r \subseteq T,
         \A b \in r : B[b].size = C[b].size
  PROVE  g[r] = h[r]
<1> DEFINE W == {s \in SUBSET r : g[s] # h[s]}
<1>1. CASE W = {}
  BY <1>1
<1>2. CASE W # {}
  <2>1. \A s \in W : IsFiniteSet(s)
    BY FS_Subset
  <2>2. PICK s \in W : \A t \in W : Cardinality(s) <= Cardinality(t)
    <3> HIDE DEF W
    <3> QED BY <1>2, <2>1, Smallest
  <2>3. s \in SUBSET r /\ s \in SUBSET S /\ s \in SUBSET T /\ g[s] # h[s]
    OBVIOUS
  <2>4. g[s] = Plus(B, g, s) /\ h[s] = Plus(C, h, s)
    BY <2>3 DEF Adds
  <2>5. CASE s = {}
    BY <2>3, <2>4, <2>5 DEF Plus
  <2>6. CASE s # {}
    <3> DEFINE t == s \ {Any(s)}
    <3>1. Any(s) \in s /\ t \in SUBSET r /\ Cardinality(t) = Cardinality(s) - 1
          /\ Cardinality(s) \in Nat
      BY <2>3, <2>6, Less
    <3>2. t \notin W
      <4> HIDE DEF W, t
      <4> QED BY <2>2, <3>1
    <3>3. g[t] = h[t]
      BY <3>1, <3>2
    <3>4. B[Any(s)].size = C[Any(s)].size
      BY <3>1, <2>3
    <3> QED BY <2>3, <2>4, <2>6, <3>3, <3>4 DEF Plus
  <2> QED BY <2>5, <2>6
<1> QED BY <1>1, <1>2

(* There is one.                                                           *)
LEMMA SumsExist ==
  ASSUME NEW B, NEW S, IsFiniteSet(S), Sized(B, S)
  PROVE  \E g \in [SUBSET S -> Int] : Adds(B, S, g)
<1> DEFINE Upto(n, g) == \A s \in SUBSET S : Cardinality(s) <= n => g[s] = Plus(B, g, s)
           Has(n) == \E g \in [SUBSET S -> Int] : Upto(n, g)
<1>1. ASSUME NEW g \in [SUBSET S -> Int], NEW s \in SUBSET S
      PROVE  Plus(B, g, s) \in Int
  <2>1. CASE s = {}
    BY <2>1 DEF Plus
  <2>2. CASE s # {}
    <3>1. Any(s) \in S /\ s \ {Any(s)} \in SUBSET S
      BY <2>2, Less
    <3>2. B[Any(s)].size \in Int /\ g[s \ {Any(s)}] \in Int
      BY <3>1 DEF Sized
    <3> QED BY <2>2, <3>2 DEF Plus
  <2> QED BY <2>1, <2>2
<1>2. Has(0)
  <2> DEFINE z == [s \in SUBSET S |-> 0]
  <2>1. z \in [SUBSET S -> Int]
    OBVIOUS
  <2>2. ASSUME NEW s \in SUBSET S, Cardinality(s) <= 0 PROVE z[s] = Plus(B, z, s)
    <3>1. s = {}
      BY <2>2, Less
    <3> QED BY <3>1 DEF Plus
  <2> HIDE DEF z
  <2>3. Upto(0, z)
    BY <2>2
  <2> QED BY <2>1, <2>3
<1>3. ASSUME NEW n \in Nat, Has(n) PROVE Has(n + 1)
  <2>1. PICK g \in [SUBSET S -> Int] : Upto(n, g)
    BY <1>3
  <2> DEFINE h == [s \in SUBSET S |-> IF Cardinality(s) <= n THEN g[s] ELSE Plus(B, g, s)]
  <2>2. h \in [SUBSET S -> Int]
    BY <1>1
  <2>3. \A s \in SUBSET S : h[s] = Plus(B, g, s)
    BY <2>1
  <2>4. \A s \in SUBSET S : Cardinality(s) <= n => h[s] = g[s]
    OBVIOUS
  <2> HIDE DEF h
  <2>5. ASSUME NEW s \in SUBSET S, Cardinality(s) <= n + 1 PROVE h[s] = Plus(B, h, s)
    <3>1. CASE s = {}
      BY <2>3, <3>1 DEF Plus
    <3>2. CASE s # {}
      <4> DEFINE t == s \ {Any(s)}
      <4>1. t \in SUBSET S /\ Cardinality(t) = Cardinality(s) - 1 /\ Cardinality(s) \in Nat
        BY <3>2, Less
      <4>2. h[t] = g[t]
        <5> HIDE DEF t
        <5> QED BY <2>4, <2>5, <4>1
      <4> QED BY <2>3, <3>2, <4>2 DEF Plus
    <3> QED BY <3>1, <3>2
  <2>6. Upto(n + 1, h)
    BY <2>5
  <2> QED BY <2>2, <2>6
<1>4. \A n \in Nat : Has(n)
  <2> DEFINE F == {n \in Nat : ~Has(n)}
             R == OpToRel(<, Nat)
  <2> SUFFICES ASSUME F # {} PROVE FALSE
    OBVIOUS
  <2>1. F \subseteq Nat /\ 0 \notin F /\ \A n \in Nat : n + 1 \in F => n \in F
    BY <1>2, <1>3
  <2>2. \A x, y \in Nat : <<y, x>> \in R <=> y < x
    BY DEF OpToRel
  <2>3. IsWellFoundedOn(R, Nat)
    BY NatLessThanWellFounded
  <2> HIDE DEF F, R, Has
  <2>4. PICK x \in F : \A y \in F : ~(<<y, x>> \in R)
    BY <2>1, <2>3, WFMin
  <2>5. x \in Nat /\ x # 0
    BY <2>1, <2>4
  <2>6. x - 1 \in Nat /\ x - 1 + 1 = x /\ x - 1 < x
    BY <2>5
  <2>7. x - 1 \in F
    BY <2>1, <2>4, <2>6
  <2> QED BY <2>2, <2>4, <2>5, <2>6, <2>7
<1>5. Cardinality(S) \in Nat /\ \A s \in SUBSET S : Cardinality(s) <= Cardinality(S)
  BY Less
<1>6. PICK g \in [SUBSET S -> Int] : Upto(Cardinality(S), g)
  BY <1>4, <1>5
<1>7. \A s \in SUBSET S : g[s] = Plus(B, g, s)
  BY <1>5, <1>6
<1>8. g = [s \in SUBSET S |-> g[s]]
  OBVIOUS
<1>9. Adds(B, S, g)
  BY <1>7, <1>8 DEF Adds
<1> QED BY <1>9

(* An element less.                                                        *)
Takes(B, S, g) == \A x \in S : g[S] = B[x].size + g[S \ {x}]

(* In a function that adds, any element may be the one taken out.          *)
LEMMA SumTakes ==
  ASSUME NEW B, NEW S, IsFiniteSet(S), Sized(B, S),
         NEW g \in [SUBSET S -> Int], Adds(B, S, g)
  PROVE  Takes(B, S, g)
<1> DEFINE Bad(s) == \E y \in s : g[s] # B[y].size + g[s \ {y}]
           W == {s \in SUBSET S : Bad(s)}
<1>1. CASE W = {}
  BY <1>1 DEF Takes
<1>2. CASE W # {}
  <2>1. \A s \in W : IsFiniteSet(s)
    BY FS_Subset
  <2>2. PICK s \in W : \A t \in W : Cardinality(s) <= Cardinality(t)
    <3> HIDE DEF W
    <3> QED BY <1>2, <2>1, Smallest
  <2>3. s \in SUBSET S /\ Bad(s)
    OBVIOUS
  <2>4. PICK y \in s : g[s] # B[y].size + g[s \ {y}]
    BY <2>3
  <2> DEFINE c == Any(s)
  <2>5. s # {} /\ c \in s
    BY <2>3, <2>4, Less
  <2> HIDE DEF c
  <2>6. g[s] = B[c].size + g[s \ {c}]
    BY <2>3, <2>5 DEF Adds, Plus, c
  <2>7. y # c
    BY <2>4, <2>6
  <2>8. /\ s \ {c} \in SUBSET S /\ Cardinality(s \ {c}) = Cardinality(s) - 1
        /\ s \ {y} \in SUBSET S /\ Cardinality(s \ {y}) = Cardinality(s) - 1
        /\ Cardinality(s) \in Nat
    BY <2>3, <2>4, <2>5, Less
  <2>9. s \ {c} \notin W /\ s \ {y} \notin W
    <3> HIDE DEF W
    <3> QED BY <2>2, <2>8
  <2>10. ~Bad(s \ {c}) /\ ~Bad(s \ {y})
    BY <2>8, <2>9
  <2>11. y \in s \ {c} /\ c \in s \ {y}
    BY <2>5, <2>7
  <2>12. g[s \ {c}] = B[y].size + g[(s \ {c}) \ {y}] /\ g[s \ {y}] = B[c].size + g[(s \ {y}) \ {c}]
    BY <2>10, <2>11
  <2>13. (s \ {c}) \ {y} = (s \ {y}) \ {c} /\ (s \ {y}) \ {c} \in SUBSET S
    BY <2>3
  <2> DEFINE t == (s \ {y}) \ {c}
  <2>14. g[t] \in Int /\ B[y].size \in Int /\ B[c].size \in Int
    BY <2>3, <2>5, <2>13 DEF Sized
  <2>15. g[s] = B[c].size + (B[y].size + g[t]) /\ g[s \ {y}] = B[c].size + g[t]
    BY <2>6, <2>12, <2>13
  <2> HIDE DEF t
  <2>16. g[s] = B[y].size + g[s \ {y}]
    BY <2>14, <2>15
  <2> QED BY <2>4, <2>16
<1> QED BY <1>1, <1>2

(* What Sum is, for reasoning.                                             *)
LEMMA SumFound ==
  ASSUME NEW B, NEW S, IsFiniteSet(S), Sized(B, S)
  PROVE  \E g \in [SUBSET S -> Int] : /\ Adds(B, S, g) /\ Sum(B, S) = g[S]
                                   /\ Takes(B, S, g)
<1>1. PICK g \in [SUBSET S -> Int] : Adds(B, S, g)
  BY SumsExist
<1> DEFINE h == CHOOSE f : Adds(B, S, f)
<1>2. Adds(B, S, h)
  BY <1>1
<1>3. Sum(B, S) = h[S]
  BY SumIs
<1> HIDE DEF h
<1>4. g[S] = h[S]
  BY <1>1, <1>2, SumsAgree
<1>5. Takes(B, S, g)
  BY <1>1, SumTakes
<1> QED BY <1>1, <1>3, <1>4, <1>5

(* The sum of a set and one block more.                                    *)
LEMMA SumAdd ==
  ASSUME NEW B, NEW S, IsFiniteSet(S), NEW x, x \notin S,
         Sized(B, S \cup {x})
  PROVE  /\ Sum(B, S \cup {x}) = Sum(B, S) + B[x].size
         /\ Sum(B, S) \in Int /\ Sum(B, S \cup {x}) \in Int
<1> DEFINE T == S \cup {x}
<1>1. IsFiniteSet(T) /\ T \ {x} = S /\ x \in T /\ S \in SUBSET T /\ S \subseteq T /\ T \in SUBSET T
  BY FS_AddElement
<1> HIDE DEF T
<1>2. Sized(B, T) /\ Sized(B, S)
  BY <1>1 DEF T, Sized
<1>3. PICK g \in [SUBSET T -> Int] : /\ Adds(B, T, g) /\ Sum(B, T) = g[T]
                                    /\ Takes(B, T, g)
  BY <1>1, <1>2, SumFound
<1>4. PICK h \in [SUBSET S -> Int] : Adds(B, S, h) /\ Sum(B, S) = h[S]
  BY <1>1, <1>2, SumFound
<1>5. g[T] = B[x].size + g[S]
  BY <1>1, <1>3 DEF Takes
<1>6. g[S] = h[S]
  BY <1>1, <1>3, <1>4, SumsAgree
<1>7. g[S] \in Int /\ g[T] \in Int /\ B[x].size \in Int
  BY <1>1, <1>2, <1>3 DEF Sized
<1> QED BY <1>3, <1>4, <1>5, <1>6, <1>7 DEF T

(* Sums agree where the sizes do.                                          *)
LEMMA SumSame ==
  ASSUME NEW B, NEW C, NEW S, IsFiniteSet(S), Sized(B, S),
         \A b \in S : C[b].size = B[b].size
  PROVE  Sum(C, S) = Sum(B, S)
<1>1. PICK g \in [SUBSET S -> Int] : Adds(B, S, g) /\ Sum(B, S) = g[S]
  BY SumFound
<1>2. PICK h \in [SUBSET S -> Int] : Adds(C, S, h) /\ Sum(C, S) = h[S]
  <2>1. Sized(C, S)
    BY DEF Sized
  <2> QED BY <2>1, SumFound
<1> QED BY <1>1, <1>2, SumsAgree

(* The empty sum.                                                          *)
LEMMA SumEmpty == \A B : Sum(B, {}) = 0
<1> TAKE B
<1>1. PICK g \in [SUBSET {} -> Int] : Adds(B, {}, g) /\ Sum(B, {}) = g[{}]
  BY SumFound, FS_EmptySet DEF Sized
<1> QED BY <1>1 DEF Adds, Plus
----------------------------------------------------------------------------
(* The statistics.  Recounts says that total, blocks and free are what a   *)
(* recount of the list B finds.                                            *)

FreeIn(B) == {b \in DOMAIN B : B[b].free}

Recounts(B, total, blocks, free) ==
  /\ IsFiniteSet(DOMAIN B)
  /\ total = Sum(B, DOMAIN B)
  /\ blocks = Cardinality(DOMAIN B)
  /\ free = Cardinality(FreeIn(B))

(* The sizes in a list are numbers.                                        *)
LEMMA ListSizes ==
  ASSUME NEW B, IsList(B)
  PROVE  /\ \A b \in DOMAIN B : B[b].size \in Nat /\ B[b].free \in BOOLEAN
         /\ \A S \in SUBSET DOMAIN B : Sized(B, S)
<1>1. \A b \in DOMAIN B : B[b].size \in Nat /\ B[b].free \in BOOLEAN
  BY Fields DEF IsList
<1> QED BY <1>1 DEF Sized

(* Counts of a list are integers.                                          *)
LEMMA RecountType ==
  ASSUME NEW B, NEW total, NEW blocks, NEW free, Recounts(B, total, blocks, free)
  PROVE  /\ IsFiniteSet(DOMAIN B) /\ IsFiniteSet(FreeIn(B))
         /\ blocks \in Nat /\ free \in Nat
<1>1. IsFiniteSet(DOMAIN B) /\ FreeIn(B) \subseteq DOMAIN B
  BY DEF Recounts, FreeIn
<1>2. IsFiniteSet(FreeIn(B))
  BY <1>1, FS_Subset
<1> QED BY <1>1, <1>2, FS_CardinalityType DEF Recounts

(* A list C that differs from B in block b and has one block n more.       *)
LEMMA SumGrows ==
  ASSUME NEW B, IsList(B), NEW C, IsList(C), IsFiniteSet(DOMAIN B), NEW b \in DOMAIN B,
         NEW n, n \notin DOMAIN B, DOMAIN C = DOMAIN B \cup {n},
         \A c \in DOMAIN B : c # b => C[c].size = B[c].size
  PROVE  /\ Sum(B, DOMAIN B) \in Int
         /\ Sum(C, DOMAIN C) = Sum(B, DOMAIN B) - B[b].size + C[b].size + C[n].size
<1> DEFINE R == DOMAIN B \ {b}
           D == DOMAIN B
<1>1. IsFiniteSet(R) /\ b \notin R /\ R \cup {b} = D /\ n \notin D /\ IsFiniteSet(D)
  BY FS_RemoveElement
<1>2. Sized(B, D) /\ Sized(B, R) /\ Sized(C, D) /\ Sized(C, R) /\ Sized(C, D \cup {n})
  BY ListSizes
<1>3. \A c \in R : C[c].size = B[c].size
  OBVIOUS
<1>4. B[b].size \in Int /\ C[b].size \in Int /\ C[n].size \in Int
  BY ListSizes
<1> HIDE DEF R, D
<1>5. Sum(B, D) = Sum(B, R) + B[b].size /\ Sum(B, R) \in Int
  BY <1>1, <1>2, SumAdd
<1>6. Sum(C, D) = Sum(C, R) + C[b].size /\ Sum(C, R) \in Int
  BY <1>1, <1>2, SumAdd
<1>7. Sum(C, D \cup {n}) = Sum(C, D) + C[n].size /\ Sum(C, D) \in Int
  BY <1>1, <1>2, SumAdd
<1>8. Sum(C, R) = Sum(B, R)
  BY <1>1, <1>2, <1>3, SumSame
<1>9. Sum(C, D \cup {n}) = Sum(B, D) - B[b].size + C[b].size + C[n].size
  BY <1>4, <1>5, <1>6, <1>7, <1>8
<1>10. Sum(B, D) \in Int
  BY <1>4, <1>5
<1> QED BY <1>9, <1>10 DEF D

(* split_block adds one free block if it splits, and no bytes.             *)
LEMMA SplitRecount ==
  ASSUME NEW B, IsList(B), NEW b \in DOMAIN B, NEW size \in Nat, B[b].size >= size + Hdr,
         NEW total, NEW blocks, NEW free, Recounts(B, total, blocks, free),
         NEW k, k = IF Splits(B, b, size) THEN 1 ELSE 0
  PROVE  Recounts(split_block(B, b, size), total, blocks + k, free + k)
<1>t. Hdr \in Nat \ {0} /\ b \in Nat /\ B[b].size \in Nat /\ blocks \in Nat /\ free \in Nat
  BY HeapAssumption, ListSizes, RecountType DEF IsList
<1>1. CASE ~Splits(B, b, size)
  BY <1>1, <1>t DEF split_block
<1>2. CASE Splits(B, b, size)
  <2> DEFINE n == b + size + Hdr
             C == split_block(B, b, size)
  <2>1. n \notin DOMAIN B
    <3>1. n > b /\ n < b + B[b].size
      BY <1>2, <1>t DEF Splits
    <3> QED BY <3>1, <1>t DEF IsList, Apart
  <2>2. /\ DOMAIN C = DOMAIN B \cup {n}
        /\ C[n].size = B[b].size - size - Hdr /\ C[n].free
        /\ C[b].size = size + Hdr
    BY <1>2, <2>1 DEF split_block
  <2>3. /\ IsList(C) /\ C[b].free = B[b].free
        /\ \A c \in DOMAIN B : c # b => C[c].size = B[c].size /\ C[c].free = B[c].free
    BY SplitKeepsList
  <2> HIDE DEF n, C
  <2>4. IsFiniteSet(DOMAIN B) /\ IsFiniteSet(FreeIn(B))
    BY RecountType
  <2>5. /\ Sum(B, DOMAIN B) \in Int
        /\ Sum(C, DOMAIN C) = Sum(B, DOMAIN B) - B[b].size + C[b].size + C[n].size
    BY <2>1, <2>2, <2>3, <2>4, SumGrows
  <2>6. Sum(C, DOMAIN C) = Sum(B, DOMAIN B)
    BY <2>2, <2>5, <1>t
  <2>7. FreeIn(C) = FreeIn(B) \cup {n} /\ n \notin FreeIn(B)
    BY <2>1, <2>2, <2>3 DEF FreeIn
  <2>8. Cardinality(DOMAIN C) = Cardinality(DOMAIN B) + 1 /\ IsFiniteSet(DOMAIN C)
    BY <2>1, <2>2, <2>4, FS_AddElement
  <2>9. Cardinality(FreeIn(C)) = Cardinality(FreeIn(B)) + 1
    BY <2>4, <2>7, FS_AddElement
  <2>10. k = 1
    BY <1>2
  <2>11. Recounts(C, total, blocks + k, free + k)
    BY <2>6, <2>8, <2>9, <2>10 DEF Recounts
  <2> QED BY <2>11 DEF C
<1> QED BY <1>1, <1>2

(* What AbsorbKeepsList says of the list after one round of merging.       *)
Absorbed(B, b) ==
  LET C == absorb_next(B, b)
      n == B[b].next
  IN /\ IsList(C) /\ n # b /\ n \in DOMAIN B /\ DOMAIN C = DOMAIN B \ {n}
     /\ C[b].size = B[b].size + B[n].size /\ C[b].free = B[b].free
     /\ \A c \in DOMAIN C : c # b => C[c].size = B[c].size /\ C[c].free = B[c].free

(* absorb_next on any list does what Absorbed says.                        *)
LEMMA AbsorbFacts ==
  ASSUME NEW B, IsList(B), NEW b \in DOMAIN B, B[b].next # NULL
  PROVE  Absorbed(B, b)
BY AbsorbKeepsList, ZenonT(30) DEF Absorbed

(* One round of merge_free_blocks takes a free block away, and no bytes.   *)
LEMMA AbsorbRecount ==
  ASSUME NEW B, IsList(B), NEW b \in DOMAIN B, B[b].next # NULL, B[B[b].next].free,
         NEW total, NEW blocks, NEW free, Recounts(B, total, blocks, free)
  PROVE  Recounts(absorb_next(B, b), total, blocks - 1, free - 1)
<1> DEFINE C == absorb_next(B, b)
           n == B[b].next
<1>1. /\ IsList(C) /\ n # b /\ n \in DOMAIN B /\ DOMAIN C = DOMAIN B \ {n}
      /\ C[b].size = B[b].size + B[n].size /\ C[b].free = B[b].free
      /\ \A c \in DOMAIN C : c # b => C[c].size = B[c].size /\ C[c].free = B[c].free
  <2>1. Absorbed(B, b)
    BY AbsorbFacts
  <2> QED BY <2>1 DEF Absorbed
<1>f. B[n].free
  OBVIOUS
<1> HIDE DEF C, n
<1>2. IsFiniteSet(DOMAIN B) /\ IsFiniteSet(FreeIn(B)) /\ blocks \in Nat /\ free \in Nat
  BY RecountType
<1>3. IsFiniteSet(DOMAIN C) /\ Cardinality(DOMAIN C) = Cardinality(DOMAIN B) - 1
  BY <1>1, <1>2, FS_RemoveElement
<1>4. /\ b \in DOMAIN C /\ n \notin DOMAIN C /\ DOMAIN B = DOMAIN C \cup {n}
      /\ \A c \in DOMAIN C : c # b => B[c].size = C[c].size
  BY <1>1
<1>5. /\ Sum(C, DOMAIN C) \in Int
      /\ Sum(B, DOMAIN B) = Sum(C, DOMAIN C) - C[b].size + B[b].size + B[n].size
  <2>1. IsList(C) /\ IsList(B) /\ IsFiniteSet(DOMAIN C) /\ b \in DOMAIN C
    BY <1>1, <1>3, <1>4
  <2> QED BY <2>1, <1>4, SumGrows
<1>6. B[b].size \in Nat /\ B[n].size \in Nat
  BY <1>1, ListSizes
<1>7. Sum(C, DOMAIN C) = Sum(B, DOMAIN B)
  BY <1>1, <1>5, <1>6
<1>8. FreeIn(C) = FreeIn(B) \ {n} /\ n \in FreeIn(B)
  BY <1>f, <1>1, <1>4 DEF FreeIn
<1>9. Cardinality(FreeIn(C)) = Cardinality(FreeIn(B)) - 1
  BY <1>2, <1>8, FS_RemoveElement
<1>10. Recounts(C, total, blocks - 1, free - 1)
  BY <1>3, <1>7, <1>9 DEF Recounts
<1> QED BY <1>10 DEF C

(* expand_heap adds a free block and its bytes.                            *)
LEMMA AppendRecount ==
  ASSUME NEW B, IsList(B), NEW C, IsList(C), NEW n, n \notin DOMAIN B,
         DOMAIN C = DOMAIN B \cup {n}, C[n].free,
         \A c \in DOMAIN B : C[c].size = B[c].size /\ C[c].free = B[c].free,
         NEW total, NEW blocks, NEW free, Recounts(B, total, blocks, free)
  PROVE  Recounts(C, total + C[n].size, blocks + 1, free + 1)
<1>1. IsFiniteSet(DOMAIN B) /\ IsFiniteSet(FreeIn(B)) /\ blocks \in Nat /\ free \in Nat
  BY RecountType
<1>2. HeapStart \in DOMAIN B
  BY DEF IsList
<1>3. /\ Sum(B, DOMAIN B) \in Int
      /\ Sum(C, DOMAIN C) = Sum(B, DOMAIN B) - B[HeapStart].size + C[HeapStart].size + C[n].size
  BY <1>1, <1>2, SumGrows
<1>4. B[HeapStart].size \in Nat /\ C[HeapStart].size = B[HeapStart].size /\ C[n].size \in Nat
  BY <1>2, ListSizes
<1>5. Sum(C, DOMAIN C) = Sum(B, DOMAIN B) + C[n].size
  BY <1>3, <1>4
<1>6. FreeIn(C) = FreeIn(B) \cup {n} /\ n \notin FreeIn(B)
  BY DEF FreeIn
<1>7. Cardinality(DOMAIN C) = Cardinality(DOMAIN B) + 1 /\ IsFiniteSet(DOMAIN C)
  BY <1>1, FS_AddElement
<1>8. Cardinality(FreeIn(C)) = Cardinality(FreeIn(B)) + 1
  BY <1>1, <1>6, FS_AddElement
<1> QED BY <1>5, <1>7, <1>8 DEF Recounts

(* A block taken, and a block freed.                                       *)
LEMMA MarkRecount ==
  ASSUME NEW B, IsList(B), NEW C, DOMAIN C = DOMAIN B, NEW b \in DOMAIN B,
         \A c \in DOMAIN B : C[c].size = B[c].size /\ (c # b => C[c].free = B[c].free),
         NEW total, NEW blocks, NEW free, Recounts(B, total, blocks, free)
  PROVE  /\ B[b].free /\ ~C[b].free => Recounts(C, total, blocks, free - 1)
         /\ ~B[b].free /\ C[b].free => Recounts(C, total, blocks, free + 1)
<1>1. IsFiniteSet(DOMAIN B) /\ IsFiniteSet(FreeIn(B)) /\ blocks \in Nat /\ free \in Nat
  BY RecountType
<1>2. Sized(B, DOMAIN B)
  BY ListSizes
<1>3. Sum(C, DOMAIN C) = Sum(B, DOMAIN B)
  <2> DEFINE D == DOMAIN B
  <2>1. IsFiniteSet(D) /\ Sized(B, D) /\ \A c \in D : C[c].size = B[c].size
    BY <1>1, <1>2
  <2> HIDE DEF D
  <2>2. Sum(C, D) = Sum(B, D)
    BY <2>1, SumSame
  <2> QED BY <2>2 DEF D
<1>4. ASSUME B[b].free, ~C[b].free PROVE Recounts(C, total, blocks, free - 1)
  <2>1. FreeIn(C) = FreeIn(B) \ {b} /\ b \in FreeIn(B)
    BY <1>4 DEF FreeIn
  <2>2. Cardinality(FreeIn(C)) = Cardinality(FreeIn(B)) - 1
    BY <1>1, <2>1, FS_RemoveElement
  <2> QED BY <1>3, <2>2 DEF Recounts
<1>5. ASSUME ~B[b].free, C[b].free PROVE Recounts(C, total, blocks, free + 1)
  <2>1. FreeIn(C) = FreeIn(B) \cup {b} /\ b \notin FreeIn(B)
    BY <1>5 DEF FreeIn
  <2>2. Cardinality(FreeIn(C)) = Cardinality(FreeIn(B)) + 1
    BY <1>1, <2>1, FS_AddElement
  <2> QED BY <1>3, <2>2 DEF Recounts
<1> QED BY <1>4, <1>5

(* The statistics S of a list B: a recount finds them, and used and free   *)
(* bytes add up.                                                           *)
Counted(B, S) ==
  /\ Recounts(B, S.total_size, S.total_blocks, S.free_blocks)
  /\ S.used_size + S.free_size = S.total_size

(* Taking a free block for a request keeps the statistics exact.           *)
LEMMA TakeCounted ==
  ASSUME NEW B, IsList(B), NEW S \in StatsType, Counted(B, S), NEW b \in DOMAIN B, B[b].free,
         NEW size \in Nat, B[b].size >= size + Hdr, NEW req, NEW after,
         TakeBlock(B, S, b, size, req, after)
  PROVE  Counted(block', stats')
<1> DEFINE C == split_block(B, b, size)
           D == [C EXCEPT ![b].free = FALSE]
<1>1. PICK k \in {0, 1} : /\ k = IF Splits(B, b, size) THEN 1 ELSE 0
                          /\ stats' = AddStats(S, 0, C[b].size, -C[b].size, k, k - 1)
  BY DEF TakeBlock
<1>2. block' = D
  BY DEF TakeBlock
<1>3. /\ IsList(C) /\ DOMAIN B \subseteq DOMAIN C /\ C[b].free = B[b].free
  BY SplitKeepsList
<1>4. Recounts(C, S.total_size, S.total_blocks + k, S.free_blocks + k)
  BY <1>1, SplitRecount DEF Counted
<1> HIDE DEF C
<1>5. /\ DOMAIN D = DOMAIN C /\ D[b].free = FALSE
      /\ \A c \in DOMAIN C : /\ D[c].size = C[c].size
                             /\ c # b => D[c].free = C[c].free
  BY <1>3, MarkKeepsList
<1> HIDE DEF D
<1>6. Recounts(D, S.total_size, S.total_blocks + k, (S.free_blocks + k) - 1)
  BY <1>3, <1>4, <1>5, MarkRecount
<1>7. C[b].size \in Int /\ -C[b].size \in Int /\ C[b].size + (-C[b].size) = 0
      /\ k \in Int /\ k - 1 \in Int /\ 0 \in Int
  BY <1>3, ListSizes
<1>8. /\ stats'.total_size = S.total_size + 0 /\ stats'.total_blocks = S.total_blocks + k
      /\ stats'.free_blocks = S.free_blocks + (k - 1)
      /\ stats'.used_size + stats'.free_size = stats'.total_size
      /\ S.total_size \in Int /\ S.total_blocks \in Int /\ S.free_blocks \in Int
  <2>1. PICK x, y : x = C[b].size /\ y = -C[b].size
    OBVIOUS
  <2>2. x \in Int /\ y \in Int /\ x + y = 0 /\ stats' = AddStats(S, 0, x, y, k, k - 1)
    BY <1>1, <1>7, <2>1
  <2>3. S.used_size + S.free_size = S.total_size
    BY DEF Counted
  <2>4. LET A == AddStats(S, 0, x, y, k, k - 1)
        IN /\ A.total_size = S.total_size + 0
           /\ A.total_blocks = S.total_blocks + k /\ A.free_blocks = S.free_blocks + (k - 1)
           /\ A.used_size + A.free_size = A.total_size
           /\ S.total_size \in Int /\ S.total_blocks \in Int /\ S.free_blocks \in Int
    BY <1>7, <2>2, <2>3 DEF AddStats, StatsType
  <2> QED BY <2>2, <2>4
<1>9. S.total_size + 0 = S.total_size /\ (S.free_blocks + k) - 1 = S.free_blocks + (k - 1)
  BY <1>7, <1>8
<1> QED BY <1>2, <1>6, <1>8, <1>9 DEF Counted

(* A heap_alloc that succeeds, from the list or after an expansion.        *)
LEMMA AllocCounted ==
  ASSUME IInv, Counted(block, stats), NEW req \in Nat, NEW after, NEW t \in 0..MaxTables,
         AllocFit(req, after) \/ AllocExpand(req, t, after)
  PROVE  Counted(block', stats')
<1>u. IsList(block) /\ stats \in StatsType
  BY Unfold
<1>a. Aligned(req) \in Nat /\ Aligned(req) >= req
  BY AlignedCovers
<1>1. CASE AllocFit(req, after)
  <2>1. PICK b \in DOMAIN block :
          /\ find_free_block(block, b, Aligned(req))
          /\ TakeBlock(block, stats, b, Aligned(req), req, after)
    BY <1>1 DEF AllocFit
  <2>2. block[b].free /\ block[b].size >= Aligned(req) + Hdr
    BY <2>1 DEF find_free_block, Fits
  <2> QED BY <2>1, <2>2, <1>u, <1>a, TakeCounted
<1>2. CASE AllocExpand(req, t, after)
  <2> DEFINE size == PagesNeeded(Aligned(req)) * PageSize
  <2>1. PICK l \in DOMAIN block :
          /\ block[l].last
          /\ TakeBlock(append_block(block, l, size), AddStats(stats, size, 0, size, 1, 1),
                       l + block[l].size, Aligned(req), req, after)
    BY <1>2 DEF AllocExpand
  <2> DEFINE B == append_block(block, l, size)
             n == l + block[l].size
             S == AddStats(stats, size, 0, size, 1, 1)
  <2>2. size \in Nat /\ size >= Aligned(req) + Hdr /\ size >= Hdr
    BY <1>a, PagesCover, HeapAssumption
  <2> HIDE DEF size
  <2>3. /\ IsList(B) /\ n \notin DOMAIN block /\ DOMAIN B = DOMAIN block \cup {n}
        /\ B[n].size = size /\ B[n].free
        /\ \A c \in DOMAIN block : B[c].size = block[c].size /\ B[c].free = block[c].free
    <3>1. /\ block[l].last /\ size \in Nat /\ size >= Hdr /\ IsList(block)
          /\ B = append_block(block, l, size) /\ n = l + block[l].size
      BY <1>u, <2>1, <2>2
    <3> HIDE DEF B, n
    <3> QED BY <3>1, AppendKeepsList
  <2>4. S \in StatsType
    <3>1. size \in Int /\ 0 \in Int /\ 1 \in Int
      BY <2>2
    <3> QED BY <1>u, <3>1, StatsAdd
  <2>5. TakeBlock(B, S, n, Aligned(req), req, after)
    BY <2>1
  <2>6. /\ S.total_size = stats.total_size + size
        /\ S.total_blocks = stats.total_blocks + 1 /\ S.free_blocks = stats.free_blocks + 1
        /\ S.used_size + S.free_size = S.total_size
    BY <1>u, <2>2 DEF AddStats, StatsType, Counted
  <2> HIDE DEF B, n, S
  <2>7. Recounts(B, stats.total_size + B[n].size, stats.total_blocks + 1, stats.free_blocks + 1)
    <3>1. Recounts(block, stats.total_size, stats.total_blocks, stats.free_blocks)
      BY DEF Counted
    <3> QED BY <1>u, <2>3, <3>1, AppendRecount
  <2>8. Counted(B, S)
    BY <2>3, <2>6, <2>7 DEF Counted
  <2>9. n \in DOMAIN B /\ B[n].size >= Aligned(req) + Hdr
    BY <2>2, <2>3
  <2> QED BY <2>3, <2>4, <2>5, <2>8, <2>9, <1>a, TakeCounted
<1> QED BY <1>1, <1>2

(* heap_free's first half.                                                 *)
LEMMA FreeCounted ==
  ASSUME IInv, Counted(block, stats), NEW b \in DOMAIN owned, FreeBlock(b)
  PROVE  Counted(block', stats')
<1>u. /\ IsList(block) /\ stats \in StatsType /\ b \in DOMAIN block /\ ~block[b].free
  BY Unfold
<1>1. /\ block' = [block EXCEPT ![b].free = TRUE]
      /\ stats' = AddStats(stats, 0, -block[b].size, block[b].size, 0, 1)
  BY DEF FreeBlock
<1>2. /\ DOMAIN block' = DOMAIN block /\ block'[b].free = TRUE
      /\ \A c \in DOMAIN block : /\ block'[c].size = block[c].size
                                 /\ c # b => block'[c].free = block[c].free
  BY <1>u, <1>1, MarkKeepsList
<1>3. PICK C : C = block'
  OBVIOUS
<1>4. Recounts(C, stats.total_size, stats.total_blocks, stats.free_blocks + 1)
  <2>1. Recounts(block, stats.total_size, stats.total_blocks, stats.free_blocks)
    BY DEF Counted
  <2> QED BY <1>u, <1>2, <1>3, <2>1, MarkRecount
<1>5. /\ stats'.total_size = stats.total_size /\ stats'.total_blocks = stats.total_blocks
      /\ stats'.free_blocks = stats.free_blocks + 1
      /\ stats'.used_size + stats'.free_size = stats'.total_size
  <2>1. block[b].size \in Nat
    BY <1>u, ListSizes
  <2>2. stats.used_size + stats.free_size = stats.total_size
    BY DEF Counted
  <2> QED BY <1>u, <1>1, <2>1, <2>2 DEF AddStats, StatsType
<1> QED BY <1>3, <1>4, <1>5 DEF Counted

(* One iteration of merge_free_blocks.                                     *)
LEMMA MergeCounted ==
  ASSUME IInv, Counted(block, stats), merge_free_blocks
  PROVE  Counted(block', stats')
<1>u. /\ IsList(block) /\ stats \in StatsType /\ OpInv /\ DOMAIN owned \subseteq DOMAIN block
  BY Unfold
<1> DEFINE b == op.block
<1>1. /\ b \in DOMAIN block /\ block[b].next # NULL /\ block[block[b].next].free
      /\ block' = absorb_next(block, b)
      /\ stats' = AddStats(stats, 0, 0, 0, -1, -1)
  BY <1>u DEF merge_free_blocks, MergesNext, OpInv
<1> HIDE DEF b
<1>2. Recounts(block, stats.total_size, stats.total_blocks, stats.free_blocks)
      /\ stats.used_size + stats.free_size = stats.total_size
  BY DEF Counted
<1>3. Recounts(absorb_next(block, b), stats.total_size, stats.total_blocks - 1, stats.free_blocks - 1)
  BY <1>u, <1>1, <1>2, AbsorbRecount
<1>4. /\ stats'.total_size = stats.total_size /\ stats'.total_blocks = stats.total_blocks - 1
      /\ stats'.free_blocks = stats.free_blocks - 1
      /\ stats'.used_size + stats'.free_size = stats'.total_size
  BY <1>u, <1>1, <1>2 DEF AddStats, StatsType
<1> QED BY <1>1, <1>3, <1>4 DEF Counted

(* heap_realloc's split of a block that is large enough.                   *)
LEMMA ResizeCounted ==
  ASSUME IInv, Counted(block, stats), NEW b \in DOMAIN owned, NEW size \in Nat,
         block[b].size >= size + Hdr, Resize(b, size)
  PROVE  Counted(block', stats')
<1>u. /\ IsList(block) /\ stats \in StatsType /\ b \in DOMAIN block
  BY Unfold
<1>1. PICK k \in {0, 1} : /\ k = IF Splits(block, b, size) THEN 1 ELSE 0
                          /\ stats' = AddStats(stats, 0, 0, 0, k, k)
                          /\ block' = split_block(block, b, size)
  BY DEF Resize
<1>2. Recounts(block, stats.total_size, stats.total_blocks, stats.free_blocks)
      /\ stats.used_size + stats.free_size = stats.total_size
  BY DEF Counted
<1>3. Recounts(split_block(block, b, size), stats.total_size, stats.total_blocks + k,
               stats.free_blocks + k)
  BY <1>u, <1>1, <1>2, SplitRecount
<1>4. /\ stats'.total_size = stats.total_size /\ stats'.total_blocks = stats.total_blocks + k
      /\ stats'.free_blocks = stats.free_blocks + k
      /\ stats'.used_size + stats'.free_size = stats'.total_size
  BY <1>u, <1>1, <1>2 DEF AddStats, StatsType
<1> QED BY <1>1, <1>3, <1>4 DEF Counted

(* Every step keeps the statistics.                                        *)
LEMMA NextCounted == IInv /\ Counted(block, stats) /\ [Next]_vars => Counted(block, stats)'
<1> SUFFICES ASSUME IInv, Counted(block, stats), [Next]_vars PROVE Counted(block', stats')
  OBVIOUS
<1>u. /\ OpInv /\ op \in OpType /\ Sizes \subseteq Nat /\ NewSizes \subseteq Nat /\ Hdr \in Nat
      /\ DOMAIN owned \subseteq DOMAIN block /\ \A c \in DOMAIN block : block[c].size \in Nat
  BY Unfold, ListSizes, HeapAssumption
<1>s. ASSUME block' = block, stats' = stats PROVE Counted(block', stats')
  BY <1>s
<1>1. ASSUME NEW req \in Nat, NEW after,
             \/ AllocFit(req, after)
             \/ \E t \in 0..MaxTables : AllocExpand(req, t, after)
             \/ \E t \in 0..MaxTables : AllocFail(req, t)
      PROVE  Counted(block', stats')
  <2>1. CASE \E t \in 0..MaxTables : AllocFail(req, t)
    BY <2>1, <1>s DEF AllocFail
  <2>2. CASE AllocFit(req, after) \/ \E t \in 0..MaxTables : AllocExpand(req, t, after)
    <3>1. PICK t \in 0..MaxTables : AllocFit(req, after) \/ AllocExpand(req, t, after)
      BY <2>2, HeapAssumption
    <3> QED BY <3>1, AllocCounted
  <2> QED BY <1>1, <2>1, <2>2
<1>2. ASSUME NEW req \in Sizes, heap_alloc(req) PROVE Counted(block', stats')
  BY <1>1, <1>2, <1>u DEF heap_alloc
<1>3. ASSUME NEW b \in DOMAIN owned, heap_free(b) PROVE Counted(block', stats')
  BY <1>3, FreeCounted DEF heap_free
<1>4. ASSUME NEW b \in DOMAIN owned, NEW size \in NewSizes, heap_realloc_shrink(b, size)
      PROVE  Counted(block', stats')
  <2>1. block[b].size >= size + Hdr /\ size \in Nat
    BY <1>4, <1>u DEF heap_realloc_shrink
  <2> QED BY <1>4, <2>1, ResizeCounted DEF heap_realloc_shrink
<1>5. ASSUME NEW b \in DOMAIN owned, NEW size \in NewSizes, heap_realloc_grow(b, size)
      PROVE  Counted(block', stats')
  BY <1>5, <1>s DEF heap_realloc_grow
<1>6. ASSUME NEW b \in DOMAIN owned, NEW size \in NewSizes, heap_realloc_move(b, size)
      PROVE  Counted(block', stats')
  BY <1>1, <1>6, <1>u DEF heap_realloc_move
<1>7. CASE merge_free_blocks
  BY <1>7, MergeCounted
<1>8. CASE heap_free_prev \/ heap_free_done \/ UNCHANGED vars
  BY <1>8, <1>s DEF heap_free_prev, heap_free_done, vars
<1>9. CASE heap_realloc_grow_done
  <2>1. op.block \in DOMAIN owned /\ op.size \in Nat /\ block[op.block].size >= op.size + Hdr
    BY <1>9, <1>u DEF heap_realloc_grow_done, OpInv, GrowsInPlace, OpType
  <2> QED BY <1>9, <2>1, ResizeCounted DEF heap_realloc_grow_done
<1>10. CASE heap_realloc_free_old
  <2>1. op.block \in DOMAIN owned
    BY <1>10, <1>u DEF heap_realloc_free_old, OpInv
  <2> QED BY <1>10, <2>1, FreeCounted DEF heap_realloc_free_old
<1> QED BY <1>2, <1>3, <1>4, <1>5, <1>6, <1>7, <1>8, <1>9, <1>10 DEF Next, Progress

(* heap_init leaves exact statistics.                                      *)
LEMMA InitCounted == Init => Counted(block, stats)
<1> SUFFICES ASSUME Init PROVE Counted(block, stats)
  OBVIOUS
<1>1. /\ DOMAIN block = {HeapStart} /\ block[HeapStart].size = PageSize /\ block[HeapStart].free
      /\ stats.total_size = PageSize /\ stats.total_blocks = 1 /\ stats.free_blocks = 1
      /\ stats.used_size + stats.free_size = PageSize /\ PageSize \in Int
  BY HeapAssumption DEF Init
<1>2. FreeIn(block) = {HeapStart}
  BY <1>1 DEF FreeIn
<1>3. IsFiniteSet({HeapStart}) /\ Cardinality({HeapStart}) = 1
  BY FS_Singleton
<1>4. Sum(block, {HeapStart}) = PageSize
  <2>1. {} \cup {HeapStart} = {HeapStart} /\ HeapStart \notin {} /\ IsFiniteSet({})
    BY FS_EmptySet
  <2>2. Sized(block, {} \cup {HeapStart})
    BY <1>1 DEF Sized
  <2>3. Sum(block, {} \cup {HeapStart}) = Sum(block, {}) + block[HeapStart].size
    BY <2>1, <2>2, SumAdd
  <2>4. Sum(block, {}) = 0
    BY SumEmpty
  <2> QED BY <1>1, <2>1, <2>3, <2>4
<1> QED BY <1>1, <1>2, <1>3, <1>4 DEF Counted, Recounts

(* The recount of heap_check finds total_size, total_blocks and            *)
(* free_blocks as the calls keep them, and used and free bytes add up to   *)
(* the whole, for every header and page size, every sequence of calls and  *)
(* between any two rounds of merge_free_blocks.                            *)
THEOREM HeapCountsExact == Spec => []CountsExact
<1>1. Counted(block, stats) => CountsExact
  BY SumOfBlock DEF Counted, Recounts, CountsExact, FreeBlocks, FreeIn
<1> QED BY <1>1, IInvHolds, InitCounted, NextCounted, PTL DEF Spec
=============================================================================
