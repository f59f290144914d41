-------------------------------- MODULE Vmm --------------------------------
(***************************************************************************)
(* User address space: the four-level page tables of kernel/src/mm/vmm.c   *)
(* and the system calls that change them: sys_brk, sys_mmap, sys_munmap    *)
(* and sys_execve of kernel/src/core/syscalls.c, the last with the loader  *)
(* kernel/src/core/elf.c.                                                  *)
(*                                                                         *)
(* The calls are loops over pages, and vmm_map_page descends level by      *)
(* level: one action is one iteration or one level, op is the call in      *)
(* progress.  System calls run with interrupts masked, so there is only    *)
(* one.  Addresses are page numbers, physical ones frame numbers.          *)
(*                                                                         *)
(* An entry keeps its flag bits next to the frame.  The code takes them    *)
(* off with "& ~0xFFF", which leaves PTE_NX, bit 63: a pointer taken from  *)
(* such an entry is not canonical, and a frame number taken from it is     *)
(* beyond all memory.                                                      *)
(***************************************************************************)
EXTENDS Integers, FiniteSets, Sequences

CONSTANTS
  Frames,      \* frames pmm_alloc_page can deliver
  Root,        \* the frame of current_pml4
  VirtPages,   \* bound: user pages 1 .. VirtPages
  Indices,     \* 0 .. 511
  index,       \* get_page_indices: page |-> its index at each of the 4 levels
  MmapBase,    \* the first next_mmap_addr
  Addrs,       \* addresses passed to brk, munmap and mmap
  Lengths,     \* lengths passed to mmap and munmap, in pages
  Prots,       \* the sets of flags W and NX that prot may ask for
  Programs     \* executables: the pages and flags of their loadable segments

Virt == 1..VirtPages

(* A loadable segment lies inside the user pages.                          *)
Segments ==
  {seg \in [at : Virt, n : Virt, flags : SUBSET {"W"}] : seg.at + seg.n - 1 <= VirtPages}

ASSUME VmmAssumption ==
  /\ Frames \subseteq Nat \ {0} /\ IsFiniteSet(Frames)
  /\ Root \in Nat \ {0} /\ Root \notin Frames
  /\ VirtPages \in Nat /\ MmapBase \in Virt /\ Addrs \subseteq Virt
  /\ index \in [Virt -> [1..4 -> Indices]]
  /\ \A v, w \in Virt : index[v] = index[w] => v = w
  /\ Lengths \subseteq Nat \ {0}
  /\ Prots \subseteq SUBSET {"W", "NX"}
  /\ Programs \subseteq Seq(Segments)

VARIABLES
  tables,        \* frame |-> the entries of the page table in it
  level,         \* the frames that are page tables |-> their level
  free,          \* frames the page allocator has
  program_break, \* 0 before the first sys_brk
  next_mmap,
  op             \* the call in progress

vars == <<tables, level, free, program_break, next_mmap, op>>

Absent == [frame |-> 0, flags |-> {}]
Empty == [i \in Indices |-> Absent]

NoCall == [pc |-> "idle", call |-> "none", at |-> 1, n |-> 0, i |-> 0, undone |-> 0,
           flags |-> {}, phys |-> 0, table |-> Root, lv |-> 1,
           rest |-> <<>>]

(* vmm_init has built current_pml4; the pages modelled here lie outside    *)
(* what the boot loader and vmm_init map.                                  *)
Init ==
  /\ tables = [f \in Frames \cup {Root} |-> Empty]
  /\ level = [f \in {Root} |-> 1]
  /\ free = Frames
  /\ program_break = 0
  /\ next_mmap = MmapBase
  /\ op = NoCall

----------------------------------------------------------------------------
(* Walking the tables.                                                     *)

Wild == -1   \* the pointer an entry with PTE_NX yields

Entry(t, v, k) == tables[t][index[v][k]]

(* The table the code reaches from table t of level k.                     *)
Follow(t, v, k) ==
  IF t \in {0, Wild} THEN t
  ELSE IF "NX" \in Entry(t, v, k).flags THEN Wild ELSE Entry(t, v, k).frame

PageTable(v) == Follow(Follow(Follow(Root, v, 1), v, 2), v, 3)

(* The table and the frame the processor reaches: it knows PTE_NX.         *)
HwFollow(t, v, k) == IF t = 0 THEN 0 ELSE Entry(t, v, k).frame

HwTable(v) == HwFollow(HwFollow(HwFollow(Root, v, 1), v, 2), v, 3)

Translate(v) == HwFollow(HwTable(v), v, 4)

(* What vmm_get_phys_addr returns; the frame with bit 63 set is Wild.      *)
vmm_get_phys_addr(v) == Follow(PageTable(v), v, 4)

(* The processor writes through v: every entry on the way allows it.       *)
Writable(v) ==
  LET t2 == HwFollow(Root, v, 1)
      t3 == HwFollow(t2, v, 2)
      t4 == HwFollow(t3, v, 3)
  IN "W" \in Entry(Root, v, 1).flags \cap Entry(t2, v, 2).flags
             \cap Entry(t3, v, 3).flags \cap Entry(t4, v, 4).flags

(* pmm_alloc_page delivers the lowest free frame.                          *)
Lowest(f) == f \in free /\ \A g \in free : f <= g

Page == op.at + op.i

(* An exception in the kernel: exception_handler_common halts.             *)
Halt == op' = [op EXCEPT !.pc = "halted"]

----------------------------------------------------------------------------
(* vmm_map_page(Page, op.phys, op.flags), one level at a time.             *)

Here == Entry(op.table, Page, op.lv)

SetHere(f) ==
  [tables EXCEPT ![op.table][index[Page][op.lv]] = [frame |-> f, flags |-> op.flags]]

Descend ==
  /\ op.pc = "walk" /\ op.lv < 4 /\ Here.frame # 0
  /\ IF "NX" \in Here.flags THEN Halt
     ELSE op' = [op EXCEPT !.table = Here.frame, !.lv = op.lv + 1]
  /\ UNCHANGED <<tables, level, free, program_break, next_mmap>>

(* Fault: the entry is not looked at before a table is put into it.        *)
create_page_table_always(f) ==
  /\ op.pc = "walk" /\ op.lv < 4
  /\ Lowest(f)
  /\ free' = free \ {f}
  /\ tables' = [SetHere(f) EXCEPT ![f] = Empty]
  /\ level' = [t \in DOMAIN level \cup {f} |-> IF t = f THEN op.lv + 1 ELSE level[t]]
  /\ op' = [op EXCEPT !.table = f, !.lv = op.lv + 1]
  /\ UNCHANGED <<program_break, next_mmap>>

create_page_table(f) ==
  /\ op.pc = "walk" /\ op.lv < 4 /\ Here.frame = 0
  /\ Lowest(f)
  /\ free' = free \ {f}
  /\ tables' = [SetHere(f) EXCEPT ![f] = Empty]
  /\ level' = [t \in DOMAIN level \cup {f} |-> IF t = f THEN op.lv + 1 ELSE level[t]]
  /\ op' = [op EXCEPT !.table = f, !.lv = op.lv + 1]
  /\ UNCHANGED <<program_break, next_mmap>>

(* The frame taken for the page is lost.  The loader undoes nothing.       *)
MapFails == IF op.call = "exec" THEN NoCall ELSE [op EXCEPT !.pc = "undo", !.phys = 0]

NoTable ==
  /\ op.pc = "walk" /\ op.lv < 4 /\ Here.frame = 0
  /\ free = {}
  /\ op' = MapFails
  /\ UNCHANGED <<tables, level, free, program_break, next_mmap>>

MapEntry ==
  /\ op.pc = "walk" /\ op.lv = 4
  /\ tables' = SetHere(op.phys)
  /\ op' = [op EXCEPT !.pc = "fill", !.phys = 0]
  /\ UNCHANGED <<level, free, program_break, next_mmap>>

----------------------------------------------------------------------------
(* The loops over the pages of a call.                                     *)

Begin(call, at, n, flags, pc) ==
  op' = [NoCall EXCEPT !.pc = pc, !.call = call, !.at = at, !.n = n, !.flags = flags]

NextPage(pc) == [op EXCEPT !.pc = pc, !.i = op.i + 1]

TakeFrame(f) ==
  /\ op.pc = "page" /\ op.i < op.n
  /\ Lowest(f)
  /\ free' = free \ {f}
  /\ op' = [op EXCEPT !.pc = "walk", !.phys = f, !.table = Root, !.lv = 1]
  /\ UNCHANGED <<tables, level, program_break, next_mmap>>

NoFrame ==
  /\ op.pc = "page" /\ op.i < op.n
  /\ free = {}
  /\ op' = MapFails
  /\ UNCHANGED <<tables, level, free, program_break, next_mmap>>

(* sys_brk and the loader leave the page as it is, sys_mmap zeroes it or   *)
(* reads the file into it, which may fail.                                 *)
Fill ==
  /\ op.pc = "fill"
  /\ \/ op.call \in {"brk", "exec"} /\ op' = NextPage("page")
     \/ op.call \notin {"brk", "exec"} /\ ~Writable(Page) /\ Halt
     \/ op.call \notin {"brk", "exec"} /\ Writable(Page) /\ op' = NextPage("page")
     \/ op.call = "mmap_file" /\ op' = [op EXCEPT !.pc = "undo"]
  /\ UNCHANGED <<tables, level, free, program_break, next_mmap>>

MapDone ==
  /\ op.pc = "page" /\ op.i = op.n /\ op.call # "exec"
  /\ op' = NoCall
  /\ program_break' = IF op.call = "brk" THEN op.at + op.n ELSE program_break
  /\ UNCHANGED <<tables, level, free, next_mmap>>

(* The loader: with all pages of a segment mapped they are zeroed, filled  *)
(* from the file, and the next segment has its turn.                       *)
map_segments(segments) ==
  IF segments = <<>> THEN NoCall
  ELSE LET seg == Head(segments)
       IN [NoCall EXCEPT !.pc = "page", !.call = "exec", !.at = seg.at, !.n = seg.n,
                         !.flags = seg.flags, !.rest = Tail(segments)]

SegmentMapped ==
  /\ op.pc = "page" /\ op.i = op.n /\ op.call = "exec"
  /\ IF \A v \in op.at .. op.at + op.n - 1 : Writable(v) THEN op' = map_segments(op.rest) ELSE Halt
  /\ UNCHANGED <<tables, level, free, program_break, next_mmap>>

(* vmm_unmap_page(v): what it does to the tables; Wild is for the caller.  *)
Cleared(v) ==
  LET t == PageTable(v)
  IN IF t = 0 THEN tables ELSE [tables EXCEPT ![t][index[v][4]] = Absent]

(* Fault: the rollback loop does not advance.                              *)
UndoStays ==
  /\ op.pc = "undo"
  /\ IF op.undone = op.i THEN op' = NoCall /\ UNCHANGED tables
     ELSE tables' = Cleared(op.at + op.undone) /\ UNCHANGED op
  /\ UNCHANGED <<level, free, program_break, next_mmap>>

(* "Rollback mapping on failure": the pages before op.i are unmapped.      *)
Undo ==
  /\ op.pc = "undo"
  /\ LET v == op.at + op.undone
     IN \/ /\ op.undone = op.i
           /\ op' = NoCall /\ UNCHANGED tables
        \/ /\ op.undone < op.i /\ PageTable(v) = Wild
           /\ Halt /\ UNCHANGED tables
        \/ /\ op.undone < op.i /\ PageTable(v) # Wild
           /\ tables' = Cleared(v)
           /\ op' = [op EXCEPT !.undone = op.undone + 1]
  /\ UNCHANGED <<level, free, program_break, next_mmap>>

(* sys_munmap goes upwards; sys_brk, lowering the break, goes downwards.   *)
UnmapPage == IF op.call = "brk" THEN op.at + op.n - 1 - op.i ELSE Page

(* Faults: the loop runs once too often; the frame is freed and the entry  *)
(* keeps it.                                                               *)
UnmapStepOneMore ==
  /\ op.pc = "unmap" /\ op.i <= op.n
  /\ op' = NextPage("unmap")
  /\ UNCHANGED <<tables, level, free, program_break, next_mmap>>

UnmapStepKeepsEntry ==
  /\ op.pc = "unmap" /\ op.i < op.n
  /\ free' = free \cup ({vmm_get_phys_addr(UnmapPage)} \ {0, Wild})
  /\ op' = NextPage("unmap")
  /\ UNCHANGED <<tables, level, program_break, next_mmap>>

UnmapStep ==
  /\ op.pc = "unmap" /\ op.i < op.n
  /\ LET v == UnmapPage
     IN \/ /\ PageTable(v) = Wild
           /\ Halt /\ UNCHANGED <<tables, free>>
        \/ /\ PageTable(v) # Wild
           /\ tables' = Cleared(v)
           /\ free' = free \cup ({vmm_get_phys_addr(v)} \ {0, Wild})
           /\ op' = NextPage("unmap")
  /\ UNCHANGED <<level, program_break, next_mmap>>

UnmapDone ==
  /\ op.pc = "unmap" /\ op.i = op.n
  /\ op' = NoCall
  /\ program_break' = IF op.call = "brk" THEN op.at ELSE program_break
  /\ UNCHANGED <<tables, level, free, next_mmap>>

----------------------------------------------------------------------------
(* The system calls up to their loops.                                     *)

sys_brk(addr) ==
  /\ op.pc = "idle"
  /\ IF program_break = 0
     THEN program_break' = addr /\ UNCHANGED op
     ELSE /\ UNCHANGED program_break
          /\ \/ addr = program_break /\ UNCHANGED op
             \/ /\ addr > program_break
                /\ Begin("brk", program_break, addr - program_break, {"W"}, "page")
             \/ /\ addr < program_break
                /\ Begin("brk", addr, program_break - addr, {}, "unmap")
  /\ UNCHANGED <<tables, level, free, next_mmap>>

(* addr is NULL (0) or fixed; a mapping that is neither anonymous nor of   *)
(* an open file, or whose inode cannot be read, maps nothing.              *)
sys_mmap(addr, n, flags) ==
  LET at == IF addr = 0 THEN next_mmap ELSE addr
  IN /\ op.pc = "idle"
     /\ at + n - 1 <= VirtPages
     /\ next_mmap' = IF addr = 0 THEN next_mmap + n ELSE next_mmap
     /\ \/ Begin("mmap", at, n, flags, "page")
        \/ Begin("mmap_file", at, n, flags, "page")
        \/ UNCHANGED op
     /\ UNCHANGED <<tables, level, free, program_break>>

sys_munmap(addr, n) ==
  /\ op.pc = "idle"
  /\ addr + n - 1 <= VirtPages
  /\ Begin("munmap", addr, n, {}, "unmap")
  /\ UNCHANGED <<tables, level, free, program_break, next_mmap>>

(* "Check for segment overlaps".                                           *)
collect_segment_info(segments) ==
  \A i, j \in DOMAIN segments : i < j =>
    \/ segments[j].at + segments[j].n <= segments[i].at
    \/ segments[j].at >= segments[i].at + segments[i].n

(* A file that cannot be read, or whose header is not valid, loads nothing. *)
sys_execve(prog) ==
  /\ op.pc = "idle"
  /\ \/ collect_segment_info(prog) /\ op' = map_segments(prog)
     \/ UNCHANGED op
  /\ UNCHANGED <<tables, level, free, program_break, next_mmap>>

----------------------------------------------------------------------------
Progress ==
  \/ Descend
  \/ \E f \in Frames : create_page_table(f) \/ TakeFrame(f)
  \/ NoTable \/ MapEntry \/ NoFrame \/ Fill \/ MapDone \/ SegmentMapped
  \/ Undo \/ UnmapStep \/ UnmapDone

Next ==
  \/ Progress
  \/ \E addr \in Addrs : sys_brk(addr)
  \/ \E addr \in Addrs \cup {0}, n \in Lengths, flags \in Prots : sys_mmap(addr, n, flags)
  \/ \E addr \in Addrs, n \in Lengths : sys_munmap(addr, n)
  \/ \E prog \in Programs : sys_execve(prog)

Spec == Init /\ [][Next]_vars

(* A system call that has begun runs on: it waits for nothing.             *)
FairSpec == Spec /\ WF_vars(Progress)

----------------------------------------------------------------------------
Entries == [frame : Frames \cup {0}, flags : SUBSET {"W", "NX"}]

Calls ==
  [pc : {"idle", "page", "walk", "fill", "undo", "unmap", "halted"},
   call : {"none", "brk", "mmap", "mmap_file", "munmap", "exec"},
   at : Virt, n : 0..VirtPages, i : 0..VirtPages, undone : 0..VirtPages,
   flags : SUBSET {"W", "NX"}, phys : Frames \cup {0},
   table : Frames \cup {Root}, lv : 1..4, rest : Seq(Segments)]

(* The variables have their types; a call stays inside its range.          *)
TypeOK ==
  /\ tables \in [Frames \cup {Root} -> [Indices -> Entries]]
  /\ DOMAIN level \subseteq Frames \cup {Root}
  /\ level \in [DOMAIN level -> 1..4]
  /\ free \subseteq Frames
  /\ program_break \in Virt \cup {0}
  /\ next_mmap \in 1..(VirtPages + 1)
  /\ op \in Calls
  /\ op.i <= op.n /\ op.at + op.n - 1 <= VirtPages /\ op.undone <= op.i

Slots == (DOMAIN level) \X Indices
Target(s) == tables[s[1]][s[2]].frame

(* A frame has one use: it is free, or a page table that one entry of the  *)
(* level above points to, or the memory of one user page, or waits in the  *)
(* call that has just taken it.  Nothing that is freed, mapped again or    *)
(* left over by a failed call gives one frame to two.                      *)
FramesExclusive ==
  /\ \A s \in Slots : Target(s) # 0 =>
       /\ Target(s) \notin free \cup {op.phys, Root}
       /\ IF level[s[1]] < 4
          THEN Target(s) \in DOMAIN level /\ level[Target(s)] = level[s[1]] + 1
          ELSE Target(s) \notin DOMAIN level
  /\ \A s, u \in Slots : Target(s) = Target(u) /\ Target(s) # 0 => s = u
  /\ DOMAIN level \cap (free \cup {op.phys}) = {}
  /\ op.phys \notin free

(* No call, and no failure inside one, changes the translation of a page   *)
(* it was not asked about: tables are shared by neighbours and created and *)
(* kept half way through a failing call.                                   *)
OnlyNamedPages ==
  [][\A v \in Virt : Translate(v)' # Translate(v)
       => v \in op.at .. (op.at + op.n - 1)]_vars

(* Every system call returns, or the kernel has halted in it.              *)
CallsReturn == op.pc # "idle" ~> op.pc \in {"idle", "halted"}

=============================================================================
