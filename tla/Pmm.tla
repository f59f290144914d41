-------------------------------- MODULE Pmm --------------------------------
(***************************************************************************)
(* The physical page allocator, kernel/src/mm/pmm.c.                       *)
(*                                                                         *)
(* One bit per 4 KiB page frame, set while the frame is in use, and a      *)
(* counter free_pages that is meant to be the number of clear bits.        *)
(* pmm_init walks the bootloader's memory map: it puts the bitmap itself   *)
(* into the first usable region that is large enough, then clears the bits *)
(* of the usable regions.  Its second loop is one action per entry here.   *)
(*                                                                         *)
(* Addresses are counted in pages: Limine aligns usable regions to 4 KiB   *)
(* and the bitmap of 4 GiB (32 pages) is a whole number of pages, so the   *)
(* rounding in pmm_init never has anything to round.                       *)
(***************************************************************************)
EXTENDS Integers, Sequences, FiniteSets

CONSTANTS
  MaxPages,    \* MAX_MEMORY_GB in pages, the pages the bitmap can describe
  EntryBits,   \* BITS_PER_ENTRY
  BitmapPages, \* bitmap_size * sizeof(BITMAP_ENTRY), in pages
  MemMaps,     \* memory maps the bootloader may hand over
  MaxCount     \* bound: largest count passed to pmm_free_pages

(* struct limine_memmap_entry, of type LIMINE_MEMMAP_USABLE or not.        *)
MemMapEntry == [usable : BOOLEAN, base : Nat, length : Nat]

(* Limine's contract: entries sorted by base, not overlapping, and on any  *)
(* machine the kernel boots on one usable region holds the bitmap.         *)
WellFormedMap(m) ==
  /\ m \in Seq(MemMapEntry)
  /\ \A i, j \in 1..Len(m) : i < j => m[i].base + m[i].length <= m[j].base
  /\ \E i \in 1..Len(m) : m[i].usable /\ m[i].length >= BitmapPages

ASSUME PmmAssumption ==
  /\ MaxPages \in Nat \ {0}
  /\ EntryBits \in Nat \ {0}
  /\ BitmapPages \in Nat \ {0}
  /\ MaxCount \in Nat
  /\ \A m \in MemMaps : WellFormedMap(m)

VARIABLES
  memmap,      \* memmap->entries, as pmm_init leaves them
  next_entry,  \* i of pmm_init's second loop; 0 before pmm_init
  bitmap,      \* the set of bits that are 1 (page in use)
  bitmap_at,   \* where the pointer bitmap points, as a page
  total_pages,
  free_pages,
  held         \* pages handed out by pmm_alloc_page and not yet given back

vars == <<memmap, next_entry, bitmap, bitmap_at, total_pages, free_pages, held>>

(* The bits the bitmap has: whole entries, so possibly more than pages.    *)
Bits(pages) == 0 .. (((pages + EntryBits - 1) \div EntryBits) * EntryBits - 1)

Clear == Bits(total_pages) \ bitmap

Ready == next_entry > Len(memmap)

Init ==
  /\ memmap = <<>>
  /\ next_entry = 0
  /\ bitmap = {}
  /\ bitmap_at = 0
  /\ total_pages = 0
  /\ free_pages = 0
  /\ held = {}

----------------------------------------------------------------------------
(* pmm_init.                                                               *)

(* The entry that receives the bitmap: the first usable one that fits it.  *)
HostsBitmap(m, i) ==
  /\ m[i].usable
  /\ m[i].length >= BitmapPages
  /\ \A j \in 1..(i - 1) : ~(m[j].usable /\ m[j].length >= BitmapPages)

(* The entry once the bitmap's pages are taken from its start.             *)
Carved(e) == [usable |-> e.usable, base   |-> e.base + BitmapPages,
              length |-> e.length - BitmapPages]

pmm_init_bitmap_forgets_to_reserve(m) ==
  /\ next_entry = 0
  /\ total_pages' = MaxPages
  /\ bitmap' = Bits(MaxPages)
  /\ \E i \in 1..Len(m) : HostsBitmap(m, i) /\ bitmap_at' = m[i].base
  /\ memmap' = m
  /\ free_pages' = 0
  /\ next_entry' = 1
  /\ UNCHANGED held

pmm_init_bitmap(m) ==
  /\ next_entry = 0
  /\ total_pages' = MaxPages
  /\ bitmap' = Bits(MaxPages)
  /\ \E i \in 1..Len(m) :
       /\ HostsBitmap(m, i)
       /\ bitmap_at' = m[i].base
       /\ memmap' = [m EXCEPT ![i] = Carved(@)]
  /\ free_pages' = 0
  /\ next_entry' = 1
  /\ UNCHANGED held

EntryPagesUncut(e) ==
  IF e.usable /\ e.base < total_pages THEN e.base .. e.length ELSE {}

(* The pages whose bits one entry clears: from its base up to its LENGTH,  *)
(* as the code computes end_page, cut at total_pages.                      *)
EntryPages(e) ==
  IF e.usable /\ e.base < total_pages
  THEN e.base .. ((IF e.length > total_pages THEN total_pages ELSE e.length) - 1)
  ELSE {}

pmm_init_entry ==
  /\ next_entry \in 1..Len(memmap)
  /\ LET freed == EntryPages(memmap[next_entry])
     IN /\ bitmap' = bitmap \ freed
        /\ free_pages' = free_pages + Cardinality(freed)
  /\ next_entry' = next_entry + 1
  /\ UNCHANGED <<memmap, bitmap_at, total_pages, held>>

----------------------------------------------------------------------------
(* pmm_alloc_page: the first clear bit, entry 0 of the bitmap skipped.     *)

Candidates == {p \in Clear : p >= EntryBits}

FirstClear(p) == p \in Candidates /\ \A q \in Candidates : p <= q

AllocFails ==
  \/ free_pages = 0
  \/ Candidates = {}
  \/ \E p \in Candidates : FirstClear(p) /\ p >= total_pages

pmm_alloc_page_null == Ready /\ AllocFails /\ UNCHANGED vars

pmm_alloc_page_keeps_bit(p) ==
  /\ Ready
  /\ free_pages # 0
  /\ FirstClear(p)
  /\ p < total_pages
  /\ free_pages' = free_pages - 1
  /\ held' = held \cup {p}
  /\ UNCHANGED <<memmap, next_entry, bitmap_at, total_pages, bitmap>>

pmm_alloc_page_counts_entry(p) ==
  /\ Ready
  /\ free_pages # 0
  /\ FirstClear(p)
  /\ p < total_pages
  /\ bitmap' = bitmap \cup {p}
  /\ free_pages' = free_pages - EntryBits
  /\ held' = held \cup {p}
  /\ UNCHANGED <<memmap, next_entry, bitmap_at, total_pages>>

pmm_alloc_page_found(p) ==
  /\ Ready
  /\ free_pages # 0
  /\ FirstClear(p)
  /\ p < total_pages
  /\ bitmap' = bitmap \cup {p}
  /\ free_pages' = free_pages - 1
  /\ held' = held \cup {p}
  /\ UNCHANGED <<memmap, next_entry, bitmap_at, total_pages>>

----------------------------------------------------------------------------
(* pmm_free_page and pmm_free_pages.  A caller passes pages it holds, pages *)
(* it has already given back (a repeated free), or addresses beyond the    *)
(* memory the bitmap describes.                                            *)

MayBeFreed == held \cup Clear \cup total_pages .. (total_pages + MaxCount)

(* The pages of a run that are really released: in range and bit set.      *)
Released(pages) == {p \in pages : p < total_pages /\ p \in bitmap}

ReleasedWithoutTest(pages) == {p \in pages : p < total_pages}

FreeRunCountsAll(pages) ==
  /\ bitmap' = bitmap \ Released(pages)
  /\ free_pages' = free_pages + Cardinality(ReleasedWithoutTest(pages))
  /\ held' = held \ pages
  /\ UNCHANGED <<memmap, next_entry, bitmap_at, total_pages>>

FreeRun(pages) ==
  LET freed == Released(pages)
  IN /\ bitmap' = bitmap \ freed
     /\ free_pages' = free_pages + Cardinality(freed)
     /\ held' = held \ pages
     /\ UNCHANGED <<memmap, next_entry, bitmap_at, total_pages>>

pmm_free_page(p) ==
  /\ Ready
  /\ p \in MayBeFreed
  /\ FreeRun({p})

pmm_free_pages(start, count) ==
  /\ Ready
  /\ start .. (start + count - 1) \subseteq MayBeFreed
  /\ IF start >= total_pages THEN UNCHANGED vars
     ELSE FreeRun(start .. (start + count - 1))

----------------------------------------------------------------------------
Next ==
  \/ \E m \in MemMaps : pmm_init_bitmap(m)
  \/ pmm_init_entry
  \/ pmm_alloc_page_null
  \/ \E p \in Bits(total_pages) : pmm_alloc_page_found(p)
  \/ \E p \in 0..(total_pages + MaxCount) : pmm_free_page(p)
  \/ \E start \in 0..total_pages, count \in 0..MaxCount : pmm_free_pages(start, count)

Spec == Init /\ [][Next]_vars

----------------------------------------------------------------------------
(* The variables hold what their C declarations allow.                     *)
TypeOK ==
  /\ memmap \in Seq(MemMapEntry)
  /\ next_entry \in Nat
  /\ total_pages \in {0, MaxPages}
  /\ bitmap \subseteq Bits(total_pages)
  /\ bitmap_at \in Nat
  /\ free_pages \in Nat
  /\ held \subseteq 0..(total_pages - 1)

(* free_pages, which pmm_alloc_page trusts for its early return and        *)
(* pmm_get_free_pages reports, is the number of clear bits: no entry of    *)
(* the map is counted twice and a repeated free is not counted again.      *)
FreeCountExact == free_pages = Cardinality(Clear)

(* Pages of a usable entry, as pmm_init leaves the entries.                *)
UsablePage(p) ==
  \E i \in 1..Len(memmap) :
    /\ memmap[i].usable
    /\ memmap[i].base <= p
    /\ p < memmap[i].base + memmap[i].length

BitmapFrames == bitmap_at .. (bitmap_at + BitmapPages - 1)

(* A page handed out, or ready to be, is RAM the bootloader called usable, *)
(* below the 4 GiB limit, and never a page the bitmap itself lives in.     *)
OnlyUsableMemory ==
  \A p \in Clear \cup held :
    p < total_pages /\ UsablePage(p) /\ p \notin BitmapFrames

(* A page that pmm_alloc_page has handed out keeps its bit set until its   *)
(* holder frees it, so it is not handed to anybody else meanwhile.         *)
HeldPagesMarked == held \cap Clear = {}

(* pmm_alloc_page never returns a page somebody already holds.             *)
NoDoubleAllocation ==
  [][\A p \in Bits(total_pages) : pmm_alloc_page_found(p) => p \notin held]_vars

(* pmm_alloc_page reports failure only when every free page lies in the    *)
(* first bitmap entry, the one it skips: the early return on a zero        *)
(* free_pages never hides a page.                                          *)
FailsOnlyWhenExhausted == Ready /\ AllocFails => Candidates = {}

(* pmm_init's comment: available memory is marked free.                    *)
InitFreesUsableMemory ==
  next_entry = Len(memmap) + 1 /\ total_pages > 0 =>
    \A p \in 0..(total_pages - 1) : UsablePage(p) => p \in Clear \cup held
=============================================================================
