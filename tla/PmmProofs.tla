----------------------------- MODULE PmmProofs -----------------------------
(***************************************************************************)
(* The allocator's safety properties for every memory map, every bitmap    *)
(* entry width and every amount of memory.                                 *)
(*                                                                         *)
(* FreeCountExact is not inductive: while pmm_init runs it needs that the  *)
(* entries still to come start above every page already freed, which in    *)
(* turn rests on the order of the entries after the bitmap was carved out. *)
(* OnlyUsableMemory needs that no entry reaches into the bitmap's pages.   *)
(***************************************************************************)
EXTENDS Pmm, FiniteSetTheorems, TLAPS

(* The map pmm_init walks is still sorted and free of overlaps.            *)
MapOrdered ==
  \A i, j \in 1..Len(memmap) :
    i < j => memmap[i].base + memmap[i].length <= memmap[j].base

(* No entry of that map reaches into the pages the bitmap occupies.        *)
BitmapApart ==
  \A j \in 1..Len(memmap) :
    \/ memmap[j].base >= bitmap_at + BitmapPages
    \/ memmap[j].base + memmap[j].length <= bitmap_at

(* What the loop has freed lies below everything it has still to free.     *)
FreedBelowRest ==
  \A p \in Clear : \A j \in next_entry..Len(memmap) : p < memmap[j].base

(* Nothing exists before pmm_init; the bitmap exists once it has begun.    *)
StartedOrEmpty ==
  \/ next_entry = 0 /\ total_pages = 0 /\ memmap = <<>> /\ bitmap = {} /\ held = {}
  \/ /\ next_entry \in Nat \ {0}
     /\ total_pages = MaxPages
     /\ next_entry <= Len(memmap) => held = {}

IInv ==
  /\ TypeOK
  /\ StartedOrEmpty
  /\ MapOrdered
  /\ BitmapApart
  /\ FreedBelowRest
  /\ FreeCountExact
  /\ OnlyUsableMemory
  /\ held \subseteq bitmap

----------------------------------------------------------------------------
(* A bitmap of no pages has no bits.                                       *)
LEMMA BitsOfNothing == Bits(0) = {}
<1>1. (0 + EntryBits - 1) \div EntryBits = 0
  BY PmmAssumption
<1> QED BY <1>1, PmmAssumption DEF Bits

(* Rounding up to whole entries leaves a bit for every page.               *)
LEMMA BitsCoverPages == 0..(MaxPages - 1) \subseteq Bits(MaxPages)
<1> DEFINE q == (MaxPages + EntryBits - 1) \div EntryBits
           r == (MaxPages + EntryBits - 1) % EntryBits
<1>1. /\ q \in Int
      /\ r \in 0..(EntryBits - 1)
      /\ MaxPages + EntryBits - 1 = EntryBits * q + r
  BY PmmAssumption
<1>2. q * EntryBits >= MaxPages
  BY <1>1, PmmAssumption
<1> QED BY <1>2, <1>1, PmmAssumption DEF Bits

(* The bits of a bitmap are a finite set of naturals.                      *)
LEMMA BitsFinite ==
  ASSUME NEW n \in Nat
  PROVE  IsFiniteSet(Bits(n)) /\ Bits(n) \subseteq Nat
<1>1. ((n + EntryBits - 1) \div EntryBits) * EntryBits - 1 \in Int
  BY PmmAssumption
<1> QED BY <1>1, FS_Interval DEF Bits

(* Freeing pages that were not free adds exactly their number.             *)
LEMMA DisjointCount ==
  ASSUME NEW C, NEW F, NEW D, IsFiniteSet(C), IsFiniteSet(F),
         D = C \cup F, C \cap F = {}
  PROVE  /\ IsFiniteSet(D)
         /\ Cardinality(D) = Cardinality(C) + Cardinality(F)
<1>1. Cardinality(C) \in Nat /\ Cardinality(F) \in Nat /\ Cardinality({}) = 0
  BY FS_CardinalityType, FS_EmptySet
<1>2. /\ IsFiniteSet(D)
      /\ Cardinality(D) = Cardinality(C) + Cardinality(F) - Cardinality(C \cap F)
  BY FS_Union
<1>3. Cardinality(C \cap F) = 0
  BY <1>1
<1> QED BY <1>1, <1>2, <1>3

(* The fields of a memory map entry.                                       *)
LEMMA EntryFields ==
  ASSUME NEW e \in MemMapEntry
  PROVE  e.usable \in BOOLEAN /\ e.base \in Nat /\ e.length \in Nat
BY DEF MemMapEntry

(* An entry that gives up pages to the bitmap is still an entry, ends where  *)
(* it ended and starts behind them.                                        *)
LEMMA CarvedEntry ==
  ASSUME NEW e \in MemMapEntry, BitmapPages <= e.length
  PROVE  /\ Carved(e) \in MemMapEntry
         /\ Carved(e).base + Carved(e).length = e.base + e.length
         /\ Carved(e).base = e.base + BitmapPages
         /\ e.base <= Carved(e).base
<1>1. /\ e.usable \in BOOLEAN /\ e.base \in Nat /\ e.length \in Nat
      /\ e.base + BitmapPages \in Nat /\ e.length - BitmapPages \in Nat
      /\ BitmapPages \in Nat
  BY EntryFields, PmmAssumption
<1>2. Carved(e) \in MemMapEntry
  BY <1>1 DEF Carved, MemMapEntry
<1>3. Carved(e).base = e.base + BitmapPages /\ Carved(e).length = e.length - BitmapPages
  BY DEF Carved
<1> QED BY <1>1, <1>2, <1>3

----------------------------------------------------------------------------
(* pmm_init's first loop leaves an ordered map and no free page.           *)
LEMMA InitBitmapStep ==
  ASSUME IInv, NEW m \in MemMaps, pmm_init_bitmap(m)
  PROVE  IInv'
<1>1. PICK i \in 1..Len(m) :
        /\ HostsBitmap(m, i)
        /\ memmap' = [m EXCEPT ![i] = Carved(m[i])]
        /\ bitmap_at' = m[i].base
  BY DEF pmm_init_bitmap
<1>2. /\ m \in Seq(MemMapEntry)
      /\ \A k, j \in 1..Len(m) : k < j => m[k].base + m[k].length <= m[j].base
      /\ m[i].length >= BitmapPages
  BY <1>1, PmmAssumption DEF WellFormedMap, HostsBitmap
<1>3. total_pages' = MaxPages /\ bitmap' = Bits(MaxPages) /\ next_entry' = 1
      /\ free_pages' = 0 /\ held' = {}
  BY DEF pmm_init_bitmap, IInv, StartedOrEmpty
<1>4. \A j \in 1..Len(m) : m[j] \in MemMapEntry
  BY <1>2
<1> DEFINE c == Carved(m[i])
<1>c. /\ c \in MemMapEntry
      /\ c.base + c.length = m[i].base + m[i].length
      /\ c.base = m[i].base + BitmapPages
      /\ m[i].base <= c.base
  <2>1. m[i] \in MemMapEntry /\ BitmapPages \in Nat /\ BitmapPages <= m[i].length
    BY <1>2, <1>4, EntryFields, PmmAssumption
  <2> QED BY <2>1, CarvedEntry
<1>5. /\ memmap' \in Seq(MemMapEntry)
      /\ Len(memmap') = Len(m)
      /\ \A j \in 1..Len(m) : memmap'[j] = IF j = i THEN c ELSE m[j]
  <2>1. memmap' = [m EXCEPT ![i] = c]
    BY <1>1
  <2>2. /\ m \in [1..Len(m) -> MemMapEntry] /\ Len(m) \in Nat
    BY <1>2
  <2> HIDE DEF c
  <2>3. memmap' \in [1..Len(m) -> MemMapEntry]
    BY <2>1, <2>2, <1>c
  <2> QED BY <2>1, <2>2, <2>3, <1>2, <1>c
<1> HIDE DEF c
<1>6. \A j \in 1..Len(m) :
        /\ memmap'[j].base + memmap'[j].length = m[j].base + m[j].length
        /\ memmap'[j].base >= m[j].base
  <2> SUFFICES ASSUME NEW j \in 1..Len(m)
               PROVE  /\ memmap'[j].base + memmap'[j].length = m[j].base + m[j].length
                      /\ memmap'[j].base >= m[j].base
    OBVIOUS
  <2>1. CASE j = i
    BY <2>1, <1>c, <1>5
  <2>2. CASE j # i
    <3>1. memmap'[j] = m[j] BY <2>2, <1>5
    <3>2. m[j].base \in Nat BY <1>4, EntryFields
    <3> QED BY <3>1, <3>2
  <2> QED BY <2>1, <2>2
<1>7. MapOrdered'
  <2>1. \A k, j \in 1..Len(m) : k < j =>
          memmap'[k].base + memmap'[k].length <= memmap'[j].base
    <3> SUFFICES ASSUME NEW k \in 1..Len(m), NEW j \in 1..Len(m), k < j
                 PROVE  memmap'[k].base + memmap'[k].length <= memmap'[j].base
      OBVIOUS
    <3>1. m[k].base + m[k].length <= m[j].base BY <1>2
    <3>2. memmap'[j].base \in Nat /\ m[j].base \in Nat
      BY <1>c, <1>4, <1>5, EntryFields
    <3> QED BY <3>1, <3>2, <1>4, <1>6, EntryFields
  <2> QED BY <2>1, <1>5 DEF MapOrdered
<1>b. BitmapApart' /\ bitmap_at' \in Nat
  <2>1. bitmap_at' \in Nat
    BY <1>1, <1>4, EntryFields
  <2>2. \A j \in 1..Len(m) : \/ memmap'[j].base >= bitmap_at' + BitmapPages
                             \/ memmap'[j].base + memmap'[j].length <= bitmap_at'
    <3> SUFFICES ASSUME NEW j \in 1..Len(m)
                 PROVE  \/ memmap'[j].base >= bitmap_at' + BitmapPages
                        \/ memmap'[j].base + memmap'[j].length <= bitmap_at'
      OBVIOUS
    <3>n. /\ m[i].base \in Nat /\ m[i].length \in Nat /\ BitmapPages \in Nat
          /\ m[j].base \in Nat /\ m[j].length \in Nat
          /\ memmap'[j].base \in Nat /\ memmap'[j].length \in Nat
      BY <1>4, <1>5, <1>c, EntryFields, PmmAssumption
    <3>1. CASE j = i
      BY <3>1, <3>n, <1>1, <1>5, <1>c
    <3>2. CASE j < i
      BY <3>2, <3>n, <1>1, <1>2, <1>6
    <3>3. CASE j > i
      <4>1. m[i].base + m[i].length <= m[j].base
        BY <3>3, <1>2
      <4> QED BY <4>1, <3>n, <1>1, <1>2, <1>6
    <3> QED BY <3>1, <3>2, <3>3
  <2> QED BY <2>1, <2>2, <1>5 DEF BitmapApart
<1>8. Clear' = {}
  BY <1>3 DEF Clear
<1>9. FreeCountExact' /\ OnlyUsableMemory' /\ FreedBelowRest'
  BY <1>3, <1>8, FS_EmptySet DEF FreeCountExact, OnlyUsableMemory, FreedBelowRest
<1> QED
  BY <1>3, <1>5, <1>7, <1>9, <1>b DEF IInv, TypeOK, StartedOrEmpty

(* One entry of the map: its pages were all marked used, are counted once, *)
(* and lie below the entries that follow.                                  *)
LEMMA InitEntryStep ==
  ASSUME IInv, pmm_init_entry
  PROVE  IInv'
<1> DEFINE e == memmap[next_entry]
           F == EntryPages(e)
<1>i. /\ TypeOK /\ StartedOrEmpty /\ MapOrdered /\ FreedBelowRest /\ BitmapApart
      /\ FreeCountExact /\ OnlyUsableMemory /\ held \subseteq bitmap
  BY DEF IInv
<1>1. /\ next_entry \in 1..Len(memmap) /\ next_entry' = next_entry + 1
      /\ bitmap' = bitmap \ F /\ free_pages' = free_pages + Cardinality(F)
      /\ memmap' = memmap /\ total_pages' = total_pages /\ held' = held
      /\ bitmap_at' = bitmap_at
  BY <1>i DEF pmm_init_entry
<1>2. /\ e \in MemMapEntry
      /\ e.usable \in BOOLEAN /\ e.base \in Nat /\ e.length \in Nat
      /\ total_pages = MaxPages /\ MaxPages \in Nat
  <2>1. e \in MemMapEntry
    BY <1>i, <1>1 DEF TypeOK
  <2> QED BY <1>i, <2>1, <1>1, EntryFields, PmmAssumption DEF TypeOK, StartedOrEmpty
<1>3. \A p \in F : /\ p \in 0..(MaxPages - 1) /\ e.usable /\ e.base <= p
                   /\ p < e.length
  BY <1>2 DEF EntryPages
<1>4. F \subseteq Bits(total_pages)
  BY <1>2, <1>3, BitsCoverPages
<1>5. F \subseteq bitmap
  <2> SUFFICES ASSUME NEW p \in F, p \notin bitmap PROVE FALSE OBVIOUS
  <2>1. p \in Clear BY <1>4 DEF Clear
  <2>2. next_entry \in next_entry..Len(memmap) BY <1>1
  <2>3. p < e.base BY <1>i, <2>1, <2>2 DEF FreedBelowRest
  <2> QED BY <2>3, <1>3, <1>2
<1>6. IsFiniteSet(Bits(total_pages)) /\ bitmap \subseteq Bits(total_pages)
  BY <1>i, <1>2, BitsFinite DEF TypeOK
<1>7. /\ Clear' = Bits(total_pages) \ (bitmap \ F)
      /\ Clear' = Clear \cup F
  BY <1>1, <1>4 DEF Clear
<1>8. Cardinality(Clear') = Cardinality(Clear) + Cardinality(F) /\ Cardinality(F) \in Nat
  <2>1. IsFiniteSet(Clear) /\ IsFiniteSet(F) /\ Clear \cap F = {}
    BY <1>4, <1>5, <1>6, FS_Subset DEF Clear
  <2>2. Cardinality(F) \in Nat
    BY <2>1, FS_CardinalityType
  <2> HIDE DEF F
  <2> QED BY <2>1, <2>2, <1>7, DisjointCount
<1>9. FreeCountExact' /\ free_pages' \in Nat
  BY <1>i, <1>1, <1>8 DEF FreeCountExact, TypeOK
<1>10. OnlyUsableMemory'
  <2>1. \A p \in F : p < total_pages /\ UsablePage(p)
    BY <1>1, <1>2, <1>3 DEF UsablePage
  <2>b. \A p \in F : p \notin BitmapFrames
    <3>1. \/ e.base >= bitmap_at + BitmapPages
          \/ e.base + e.length <= bitmap_at
      BY <1>i, <1>1 DEF BitmapApart
    <3>2. bitmap_at \in Nat /\ BitmapPages \in Nat
      BY <1>i, PmmAssumption DEF TypeOK
    <3> QED BY <3>1, <3>2, <1>2, <1>3 DEF BitmapFrames
  <2>2. /\ \A p : UsablePage(p)' <=> UsablePage(p)
        /\ BitmapFrames' = BitmapFrames
    BY <1>1 DEF UsablePage, BitmapFrames
  <2> QED BY <1>i, <2>1, <2>b, <2>2, <1>7, <1>1 DEF OnlyUsableMemory
<1>11. held' \subseteq bitmap'
  BY <1>i, <1>1, <1>2 DEF StartedOrEmpty
<1>12. FreedBelowRest'
  <2> SUFFICES ASSUME NEW p \in Clear', NEW j \in (next_entry + 1)..Len(memmap)
               PROVE  p < memmap[j].base
    BY <1>i, <1>1 DEF FreedBelowRest
  <2>1. CASE p \in Clear
    BY <1>i, <2>1, <1>1 DEF FreedBelowRest
  <2>2. CASE p \in F
    <3>1. e.base + e.length <= memmap[j].base
      BY <1>i, <1>1 DEF MapOrdered
    <3>2. memmap[j] \in MemMapEntry
      BY <1>i, <1>1 DEF TypeOK
    <3> QED BY <2>2, <3>1, <3>2, <1>2, <1>3, EntryFields
  <2> QED BY <2>1, <2>2, <1>7
<1>13. MapOrdered' /\ BitmapApart' /\ StartedOrEmpty'
  BY <1>i, <1>1 DEF MapOrdered, BitmapApart, StartedOrEmpty, TypeOK
<1>14. TypeOK'
  <2>1. bitmap' \subseteq Bits(total_pages') /\ held' \subseteq 0..(total_pages' - 1)
    BY <1>i, <1>1, <1>6 DEF TypeOK
  <2>2. next_entry' \in Nat
    BY <1>1
  <2> QED BY <1>i, <1>1, <1>9, <2>1, <2>2 DEF TypeOK
<1> QED BY <1>9, <1>10, <1>11, <1>12, <1>13, <1>14 DEF IInv

(* pmm_alloc_page: one page leaves the free ones and joins the held ones.  *)
LEMMA AllocStep ==
  ASSUME IInv, NEW p \in Bits(total_pages), pmm_alloc_page_found(p)
  PROVE  IInv' /\ p \notin held
<1>i. /\ TypeOK /\ StartedOrEmpty /\ MapOrdered /\ FreedBelowRest /\ BitmapApart
      /\ FreeCountExact /\ OnlyUsableMemory /\ held \subseteq bitmap
  BY DEF IInv
<1>1. /\ Ready /\ free_pages # 0 /\ p \in Clear /\ p < total_pages
      /\ bitmap' = bitmap \cup {p} /\ free_pages' = free_pages - 1
      /\ held' = held \cup {p}
      /\ memmap' = memmap /\ next_entry' = next_entry /\ total_pages' = total_pages
      /\ bitmap_at' = bitmap_at
  BY DEF pmm_alloc_page_found, FirstClear, Candidates
<1>2. IsFiniteSet(Bits(total_pages)) /\ Bits(total_pages) \subseteq Nat
  BY <1>i, BitsFinite, PmmAssumption DEF TypeOK
<1>3. Clear' = Clear \ {p} /\ IsFiniteSet(Clear)
  BY <1>1, <1>2, FS_Subset DEF Clear
<1>4. Cardinality(Clear') = Cardinality(Clear) - 1
  BY <1>1, <1>3, FS_RemoveElement
<1>5. FreeCountExact' /\ free_pages' \in Nat
  BY <1>i, <1>1, <1>4 DEF FreeCountExact, TypeOK
<1>6. OnlyUsableMemory'
  <2>1. /\ \A q : UsablePage(q)' <=> UsablePage(q)
        /\ BitmapFrames' = BitmapFrames
    BY <1>1 DEF UsablePage, BitmapFrames
  <2> QED BY <2>1, <1>i, <1>1, <1>3 DEF OnlyUsableMemory
<1>7. FreedBelowRest' /\ MapOrdered' /\ BitmapApart'
  BY <1>i, <1>1, <1>3 DEF FreedBelowRest, MapOrdered, BitmapApart
<1>8. StartedOrEmpty'
  <2>1. ~(next_entry <= Len(memmap)) /\ next_entry # 0
    BY <1>i, <1>1 DEF Ready, TypeOK, StartedOrEmpty
  <2> QED BY <2>1, <1>i, <1>1 DEF StartedOrEmpty
<1>9. TypeOK'
  <2>1. p \in 0..(total_pages - 1)
    BY <1>i, <1>1, <1>2, PmmAssumption DEF TypeOK
  <2> QED BY <2>1, <1>i, <1>1, <1>5 DEF TypeOK
<1>10. p \notin held
  BY <1>i, <1>1 DEF Clear
<1> QED BY <1>i, <1>1, <1>5, <1>6, <1>7, <1>8, <1>9, <1>10 DEF IInv

(* pmm_free_page on a run of pages: those whose bit was set are cleared    *)
(* and counted, the others change nothing.                                 *)
LEMMA FreeStep ==
  ASSUME IInv, Ready, NEW R, R \subseteq MayBeFreed, FreeRun(R)
  PROVE  IInv'
<1> DEFINE F == Released(R)
<1>i. /\ TypeOK /\ StartedOrEmpty /\ MapOrdered /\ FreedBelowRest /\ BitmapApart
      /\ FreeCountExact /\ OnlyUsableMemory /\ held \subseteq bitmap
  BY DEF IInv
<1>1. /\ bitmap' = bitmap \ F /\ free_pages' = free_pages + Cardinality(F)
      /\ held' = held \ R
      /\ memmap' = memmap /\ next_entry' = next_entry /\ total_pages' = total_pages
      /\ bitmap_at' = bitmap_at
  BY DEF FreeRun
<1>2. /\ IsFiniteSet(Bits(total_pages)) /\ bitmap \subseteq Bits(total_pages)
      /\ total_pages \in Nat
  BY <1>i, BitsFinite, PmmAssumption DEF TypeOK
<1>3. F \subseteq bitmap /\ F \subseteq R /\ \A p \in F : p < total_pages
  BY DEF Released
<1>4. F \subseteq held
  <2> SUFFICES ASSUME NEW p \in F PROVE p \in held
    OBVIOUS
  <2>1. p \in bitmap /\ p \in MayBeFreed /\ p < total_pages
    BY <1>3
  <2>2. p \notin Clear /\ p \notin total_pages .. (total_pages + MaxCount)
    BY <2>1, <1>2, PmmAssumption DEF Clear
  <2> QED BY <2>1, <2>2 DEF MayBeFreed
<1>5. Clear' = Clear \cup F
  BY <1>1, <1>2, <1>3 DEF Clear
<1>6. Cardinality(Clear') = Cardinality(Clear) + Cardinality(F) /\ Cardinality(F) \in Nat
  <2>1. IsFiniteSet(Clear) /\ IsFiniteSet(F) /\ Clear \cap F = {}
    BY <1>2, <1>3, FS_Subset DEF Clear
  <2>2. Cardinality(F) \in Nat
    BY <2>1, FS_CardinalityType
  <2> HIDE DEF F
  <2> QED BY <2>1, <2>2, <1>5, DisjointCount
<1> HIDE DEF F
<1>7. FreeCountExact' /\ free_pages' \in Nat
  BY <1>i, <1>1, <1>6 DEF FreeCountExact, TypeOK
<1>8. OnlyUsableMemory'
  <2>1. /\ \A q : UsablePage(q)' <=> UsablePage(q)
        /\ BitmapFrames' = BitmapFrames
    BY <1>1 DEF UsablePage, BitmapFrames
  <2> QED BY <2>1, <1>i, <1>1, <1>4, <1>5 DEF OnlyUsableMemory
<1>9. FreedBelowRest' /\ MapOrdered' /\ BitmapApart'
  <2>1. \A j : j \notin next_entry..Len(memmap)
    BY <1>i DEF Ready, TypeOK
  <2> QED BY <2>1, <1>i, <1>1 DEF FreedBelowRest, MapOrdered, BitmapApart
<1>10. StartedOrEmpty'
  <2>1. ~(next_entry <= Len(memmap)) /\ next_entry # 0
    BY <1>i DEF Ready, TypeOK, StartedOrEmpty
  <2> QED BY <2>1, <1>i, <1>1 DEF StartedOrEmpty
<1>11. TypeOK'
  BY <1>i, <1>1, <1>7 DEF TypeOK
<1>12. held' \subseteq bitmap'
  BY <1>i, <1>1, <1>3
<1> QED BY <1>7, <1>8, <1>9, <1>10, <1>11, <1>12 DEF IInv

----------------------------------------------------------------------------
(* Every step keeps the inductive invariant.                               *)
LEMMA NextKeepsIInv == IInv /\ [Next]_vars => IInv'
<1> SUFFICES ASSUME IInv, [Next]_vars PROVE IInv'
  OBVIOUS
<1>1. CASE \E m \in MemMaps : pmm_init_bitmap(m)
  BY <1>1, InitBitmapStep
<1>2. CASE pmm_init_entry
  BY <1>2, InitEntryStep
<1>3. CASE \E p \in Bits(total_pages) : pmm_alloc_page_found(p)
  BY <1>3, AllocStep
<1>4. ASSUME NEW p \in 0..(total_pages + MaxCount), pmm_free_page(p) PROVE IInv'
  BY <1>4, FreeStep DEF pmm_free_page
<1>u. CASE UNCHANGED vars
  BY <1>u DEF vars, IInv, TypeOK, StartedOrEmpty, MapOrdered, FreedBelowRest,
              FreeCountExact, OnlyUsableMemory, UsablePage, Clear, BitmapApart, BitmapFrames
<1>5. ASSUME NEW start \in 0..total_pages, NEW count \in 0..MaxCount,
             pmm_free_pages(start, count)
      PROVE  IInv'
  <2>1. CASE UNCHANGED vars
    BY <2>1, <1>u
  <2>2. CASE FreeRun(start .. (start + count - 1))
    BY <2>2, <1>5, FreeStep DEF pmm_free_pages
  <2> QED BY <1>5, <2>1, <2>2 DEF pmm_free_pages
<1>6. CASE pmm_alloc_page_null
  BY <1>6, <1>u DEF pmm_alloc_page_null
<1> QED BY <1>1, <1>2, <1>3, <1>4, <1>5, <1>6, <1>u DEF Next

(* The inductive invariant holds in every reachable state.                 *)
THEOREM IInvHolds == Spec => []IInv
<1>1. Init => IInv
  <2> SUFFICES ASSUME Init PROVE IInv
    OBVIOUS
  <2>1. Clear = {}
    BY BitsOfNothing DEF Init, Clear
  <2>2. TypeOK
    BY BitsOfNothing DEF Init, TypeOK
  <2> QED BY <2>1, <2>2, FS_EmptySet
        DEF Init, IInv, StartedOrEmpty, MapOrdered, BitmapApart, FreedBelowRest,
            FreeCountExact, OnlyUsableMemory
<1> QED BY <1>1, NextKeepsIInv, PTL DEF Spec

(* pmm.c's variables keep their types whatever the callers do.             *)
THEOREM TypeCorrect == Spec => []TypeOK
<1>1. IInv => TypeOK BY DEF IInv
<1> QED BY <1>1, IInvHolds, PTL

(* free_pages is the number of clear bits, after pmm_init, every           *)
(* allocation and every (repeated) free, for every memory map.             *)
THEOREM FreeCountCorrect == Spec => []FreeCountExact
<1>1. IInv => FreeCountExact BY DEF IInv
<1> QED BY <1>1, IInvHolds, PTL

(* Only usable memory that does not hold the bitmap is ever handed out.    *)
THEOREM UsableMemoryOnly == Spec => []OnlyUsableMemory
<1>1. IInv => OnlyUsableMemory BY DEF IInv
<1> QED BY <1>1, IInvHolds, PTL

(* No page is handed to a second caller while the first still holds it.    *)
THEOREM AllocationsDisjoint == Spec => []HeldPagesMarked /\ NoDoubleAllocation
<1>1. IInv => HeldPagesMarked
  BY DEF IInv, HeldPagesMarked, Clear
<1>2. IInv /\ [Next]_vars
        => [\A p \in Bits(total_pages) : pmm_alloc_page_found(p) => p \notin held]_vars
  BY AllocStep
<1> QED BY <1>1, <1>2, IInvHolds, PTL DEF Spec, NoDoubleAllocation

(* pmm_alloc_page fails only when no page outside the first bitmap entry   *)
(* is free: neither its early return nor its bound check hides one.        *)
THEOREM FailureMeansExhausted == Spec => []FailsOnlyWhenExhausted
<1>1. IInv => FailsOnlyWhenExhausted
  <2> SUFFICES ASSUME IInv, AllocFails PROVE Candidates = {}
    BY DEF FailsOnlyWhenExhausted
  <2>1. CASE free_pages = 0
    <3>1. IsFiniteSet(Clear)
      BY BitsFinite, PmmAssumption, FS_Subset DEF IInv, TypeOK, Clear
    <3>2. Clear = {}
      BY <2>1, <3>1, FS_EmptySet DEF IInv, FreeCountExact
    <3> QED BY <3>2 DEF Candidates
  <2>2. CASE \E p \in Candidates : FirstClear(p) /\ p >= total_pages
    <3>1. PICK p \in Clear : p >= total_pages
      BY <2>2 DEF Candidates
    <3>2. p < total_pages /\ p \in Nat /\ total_pages \in Nat
      BY <3>1, BitsFinite, PmmAssumption DEF IInv, OnlyUsableMemory, TypeOK, Clear
    <3> QED BY <3>1, <3>2
  <2> QED BY <2>1, <2>2 DEF AllocFails
<1> QED BY <1>1, IInvHolds, PTL
=============================================================================
