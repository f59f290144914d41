------------------------------- MODULE MCPmm -------------------------------
(* Small memory maps for Pmm: thirteen pages, bitmap entries of four bits, *)
(* so the last entry has three bits that stand for no page.                *)
EXTENDS Pmm

Entry(u, b, l) == [usable |-> u, base |-> b, length |-> l]

(* All of memory usable; a reserved hole with the bitmap in the region     *)
(* after it and a last region that reaches past MaxPages; a first region   *)
(* that is too small for the bitmap; a region that starts past MaxPages.   *)
MCMemMaps ==
  { << Entry(TRUE, 0, 13) >>,
    << Entry(FALSE, 0, 1), Entry(TRUE, 1, 9), Entry(TRUE, 11, 15) >>,
    << Entry(TRUE, 0, 1), Entry(FALSE, 1, 1), Entry(TRUE, 2, 11), Entry(TRUE, 14, 15) >>,
    << Entry(TRUE, 0, 2), Entry(TRUE, 2, 11) >> }
=============================================================================
