-------------------------------- MODULE MCVmm --------------------------------
(* Vmm with tables of two entries and six user pages.                      *)
EXTENDS Vmm

(* get_page_indices: nine bits per level, here one.                        *)
MCIndex == [v \in Virt |-> [k \in 1..4 |-> (v \div 2^(4 - k)) % 2]]

(* Programs with two segments: one that memory suffices for, one that it   *)
(* does not, one whose segments overlap.  And one with a segment that      *)
(* cannot be written.                                                      *)
MCPrograms ==
  LET seg(at, n, flags) == [at |-> at, n |-> n, flags |-> flags]
  IN {<<seg(3, 1, {"W"}), seg(2, 1, {"W"})>>, <<seg(2, 1, {"W"}), seg(3, 2, {"W"})>>,
      <<seg(1, 2, {"W"}), seg(2, 1, {"W"})>>, <<seg(3, 1, {})>>}

MCProts == {{"W"}, {"W", "NX"}, {}}
=============================================================================
