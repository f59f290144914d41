----------------------------- MODULE VmmProofs ------------------------------
(***************************************************************************)
(* Page tables of any size and any number of levels' worth of pages: the   *)
(* frames keep one use each, and a call changes only the pages it names.   *)
(*                                                                         *)
(* FramesExclusive says that the tables form a tree.  To keep it, a call   *)
(* that is walking down must be at a table of the level it thinks it is    *)
(* at; to know which page an entry belongs to, that table must be the one  *)
(* the processor reaches for the same page.                                *)
(***************************************************************************)
EXTENDS Vmm, TLAPS

(* Where the processor gets with v at each level; 0 for nowhere.           *)
Table2(v) == HwFollow(Root, v, 1)
Table3(v) == HwFollow(Table2(v), v, 2)

At(v, k, t) ==
  \/ k = 1 /\ t = Root
  \/ k = 2 /\ t = Table2(v)
  \/ k = 3 /\ t = Table3(v)
  \/ k = 4 /\ t = HwTable(v)

Walking ==
  op.pc = "walk" =>
    /\ op.table \in DOMAIN level /\ level[op.table] = op.lv
    /\ At(Page, op.lv, op.table)
    /\ op.phys # 0 /\ op.i < op.n

InLoop ==
  /\ op.pc = "fill" => op.i < op.n
  /\ op.call = "brk" => op.at + op.n \in Virt

----------------------------------------------------------------------------
(* The tree, entry by entry.                                               *)

Frame(t, i) == tables[t][i].frame

(* Free, or taken by the call in progress.                                 *)
Spare == free \cup {op.phys}

Tree ==
  /\ \A t \in DOMAIN level, i \in Indices : Frame(t, i) # 0 =>
       /\ Frame(t, i) \notin Spare /\ Frame(t, i) # Root
       /\ level[t] < 4 => Frame(t, i) \in DOMAIN level /\ level[Frame(t, i)] = level[t] + 1
       /\ ~(level[t] < 4) => Frame(t, i) \notin DOMAIN level
  /\ \A t, u \in DOMAIN level, i, j \in Indices :
       Frame(t, i) = Frame(u, j) /\ Frame(t, i) # 0 => t = u /\ i = j
  /\ DOMAIN level \cap Spare = {}
  /\ op.phys \notin free

Rooted == Root \in DOMAIN level /\ level[Root] = 1

VmmInv == TypeOK /\ Tree /\ Rooted /\ Walking /\ InLoop

(* Tree is FramesExclusive, entry by entry.                                *)
LEMMA TreeIs == FramesExclusive <=> Tree
<1>1. ASSUME FramesExclusive PROVE Tree
  <2>1. ASSUME NEW t \in DOMAIN level, NEW i \in Indices
        PROVE  <<t, i>> \in Slots /\ Target(<<t, i>>) = Frame(t, i)
    BY DEF Slots, Target, Frame
  <2>2. ASSUME NEW t \in DOMAIN level, NEW i \in Indices, Frame(t, i) # 0
        PROVE  /\ Frame(t, i) \notin Spare /\ Frame(t, i) # Root
               /\ level[t] < 4 => Frame(t, i) \in DOMAIN level /\ level[Frame(t, i)] = level[t] + 1
               /\ ~(level[t] < 4) => Frame(t, i) \notin DOMAIN level
    <3> DEFINE s == <<t, i>>
    <3>1. s \in Slots /\ Target(s) = Frame(t, i) /\ s[1] = t
      BY <2>1
    <3> HIDE DEF s
    <3> QED BY <1>1, <2>2, <3>1 DEF FramesExclusive, Spare
  <2>3. ASSUME NEW t \in DOMAIN level, NEW u \in DOMAIN level, NEW i \in Indices, NEW j \in Indices,
               Frame(t, i) = Frame(u, j), Frame(t, i) # 0
        PROVE  t = u /\ i = j
    <3>1. <<t, i>> = <<u, j>>
      BY <1>1, <2>1, <2>3 DEF FramesExclusive
    <3> QED BY <3>1
  <2> QED BY <1>1, <2>2, <2>3 DEF Tree, FramesExclusive, Spare
<1>2. ASSUME Tree PROVE FramesExclusive
  <2>1. ASSUME NEW s \in Slots
        PROVE  s[1] \in DOMAIN level /\ s[2] \in Indices /\ Target(s) = Frame(s[1], s[2]) /\ s = <<s[1], s[2]>>
    BY DEF Slots, Target, Frame
  <2>2. ASSUME NEW s \in Slots, Target(s) # 0
        PROVE  /\ Target(s) \notin free \cup {op.phys, Root}
               /\ IF level[s[1]] < 4
                  THEN Target(s) \in DOMAIN level /\ level[Target(s)] = level[s[1]] + 1
                  ELSE Target(s) \notin DOMAIN level
    BY <1>2, <2>1, <2>2 DEF Tree, Spare
  <2>3. ASSUME NEW s \in Slots, NEW u \in Slots, Target(s) = Target(u), Target(s) # 0
        PROVE  s = u
    <3>1. s[1] = u[1] /\ s[2] = u[2]
      BY <1>2, <2>1, <2>3 DEF Tree
    <3> QED BY <2>1, <3>1
  <2> QED BY <1>2, <2>2, <2>3 DEF Tree, FramesExclusive, Spare
<1> QED BY <1>1, <1>2

(* Nothing but the spare frames changes.                                   *)
LEMMA TreeSame ==
  ASSUME Tree, UNCHANGED <<tables, level>>, Spare' \subseteq Spare \cup {0}, 0 \notin DOMAIN level,
         op'.phys \notin free'
  PROVE  Tree'
<1>1. \A t \in DOMAIN level, i \in Indices : Frame(t, i)' = Frame(t, i)
  BY DEF Frame
<1>2. DOMAIN level' \cap Spare' = {}
  BY DEF Tree
<1> HIDE DEF Spare
<1> QED BY <1>1, <1>2 DEF Tree

(* Entry i of a page table of the last level changes.                      *)
LEMMA TreeLeaf ==
  ASSUME TypeOK, Tree, NEW t \in DOMAIN level, NEW i \in Indices, level[t] = 4, NEW e,
         tables' = [tables EXCEPT ![t][i] = e], UNCHANGED level, 0 \notin DOMAIN level,
         e.frame # 0 => /\ e.frame \notin Spare' \cup {Root} \cup DOMAIN level
                        /\ \A u \in DOMAIN level, j \in Indices : Frame(u, j) # e.frame,
         Spare' \subseteq Spare \cup {0, Frame(t, i)}, op'.phys \notin free'
  PROVE  Tree'
<1>0. DOMAIN level \subseteq DOMAIN tables /\ \A u \in DOMAIN level : DOMAIN tables[u] = Indices
  BY DEF TypeOK
<1>1. \A u \in DOMAIN level, j \in Indices : Frame(u, j)' = IF u = t /\ j = i THEN e.frame ELSE Frame(u, j)
  BY <1>0 DEF Frame
<1>2. Frame(t, i) \notin DOMAIN level
  BY DEF Tree
<1>3. DOMAIN level' \cap Spare' = {}
  BY <1>2 DEF Tree
<1>4. ASSUME NEW u \in DOMAIN level, NEW j \in Indices, Frame(u, j)' # 0
      PROVE  /\ Frame(u, j)' \notin Spare' /\ Frame(u, j)' # Root
             /\ level[u] < 4 => Frame(u, j)' \in DOMAIN level /\ level[Frame(u, j)'] = level[u] + 1
             /\ ~(level[u] < 4) => Frame(u, j)' \notin DOMAIN level
  <2>1. CASE u = t /\ j = i
    BY <1>1, <1>4, <2>1
  <2>2. CASE ~(u = t /\ j = i)
    <3>1. Frame(u, j)' = Frame(u, j) /\ Frame(u, j) # Frame(t, i)
      BY <1>1, <1>4, <2>2 DEF Tree
    <3> QED BY <1>4, <3>1 DEF Tree
  <2> QED BY <2>1, <2>2
<1>5. ASSUME NEW u \in DOMAIN level, NEW w \in DOMAIN level, NEW j \in Indices, NEW k \in Indices,
             Frame(u, j)' = Frame(w, k)', Frame(u, j)' # 0
      PROVE  u = w /\ j = k
  <2>1. CASE (u = t /\ j = i) \/ (w = t /\ k = i)
    BY <1>1, <1>5, <2>1
  <2>2. CASE ~((u = t /\ j = i) \/ (w = t /\ k = i))
    BY <1>1, <1>5, <2>2 DEF Tree
  <2> QED BY <2>1, <2>2
<1> QED BY <1>3, <1>4, <1>5 DEF Tree

(* A new table f is put under entry i of table t.                          *)
Grown(t, i, f, flags) ==
  [[tables EXCEPT ![t][i] = [frame |-> f, flags |-> flags]] EXCEPT ![f] = Empty]

Levelled(t, f) == [u \in DOMAIN level \cup {f} |-> IF u = f THEN level[t] + 1 ELSE level[u]]

(* A new, empty page table under an entry that had none.                   *)
LEMMA TreeGrow ==
  ASSUME TypeOK, Tree, NEW t \in DOMAIN level, NEW i \in Indices, level[t] < 4, Frame(t, i) = 0,
         NEW f \in free, NEW flags,
         tables' = Grown(t, i, f, flags), level' = Levelled(t, f),
         Spare' = Spare \ {f}, op'.phys \notin free'
  PROVE  /\ Tree'
         /\ \A j \in Indices : tables'[f][j] = Absent
         /\ \A u \in DOMAIN level, j \in Indices : u # t \/ j # i => tables'[u][j] = tables[u][j]
         /\ Frame(t, i)' = f /\ f \notin DOMAIN level
<1>0. /\ DOMAIN level \subseteq DOMAIN tables /\ \A u \in DOMAIN level : DOMAIN tables[u] = Indices
      /\ f \in DOMAIN tables /\ f # 0 /\ f # Root /\ level[t] \in 1..4
  BY VmmAssumption DEF TypeOK
<1>1. f \in Spare /\ f \notin DOMAIN level /\ f # t
  BY DEF Tree, Spare
<1>2. /\ \A j \in Indices : tables'[f][j] = Absent
      /\ \A u \in DOMAIN level, j \in Indices : u # t \/ j # i => tables'[u][j] = tables[u][j]
      /\ tables'[t][i].frame = f
  BY <1>0, <1>1 DEF Empty, Grown
<1>3. /\ \A j \in Indices : Frame(f, j)' = 0
      /\ \A u \in DOMAIN level, j \in Indices : u # t \/ j # i => Frame(u, j)' = Frame(u, j)
      /\ Frame(t, i)' = f
  <2>1. Absent.frame = 0
    BY DEF Absent
  <2> HIDE DEF Absent
  <2>2. \A u, j : Frame(u, j)' = tables'[u][j].frame /\ Frame(u, j) = tables[u][j].frame
    BY DEF Frame
  <2> QED BY <1>2, <2>1, <2>2
<1>4. /\ DOMAIN level' = DOMAIN level \cup {f} /\ level'[f] = level[t] + 1
      /\ \A u \in DOMAIN level : level'[u] = level[u]
  BY <1>1 DEF Levelled
<1>5. DOMAIN level' \cap Spare' = {}
  BY <1>4 DEF Tree
<1>6. \A u \in DOMAIN level, j \in Indices : Frame(u, j) # f
  BY <1>0, <1>1 DEF Tree
<1>7. ASSUME NEW u \in DOMAIN level', NEW j \in Indices, Frame(u, j)' # 0
      PROVE  /\ Frame(u, j)' \notin Spare' /\ Frame(u, j)' # Root
             /\ level'[u] < 4 => Frame(u, j)' \in DOMAIN level' /\ level'[Frame(u, j)'] = level'[u] + 1
             /\ ~(level'[u] < 4) => Frame(u, j)' \notin DOMAIN level'
  <2>1. u \in DOMAIN level
    BY <1>3, <1>4, <1>7
  <2>2. CASE u = t /\ j = i
    BY <1>0, <1>1, <1>3, <1>4, <2>2
  <2>3. CASE ~(u = t /\ j = i)
    <3>1. Frame(u, j)' = Frame(u, j) /\ Frame(u, j) # f
      BY <1>3, <1>6, <2>1, <2>3
    <3>2. /\ Frame(u, j) \notin Spare /\ Frame(u, j) # Root
          /\ level[u] < 4 => Frame(u, j) \in DOMAIN level /\ level[Frame(u, j)] = level[u] + 1
          /\ ~(level[u] < 4) => Frame(u, j) \notin DOMAIN level
      BY <1>7, <2>1, <3>1 DEF Tree
    <3> QED BY <1>4, <2>1, <3>1, <3>2
  <2> QED BY <2>2, <2>3
<1>8. ASSUME NEW u \in DOMAIN level', NEW w \in DOMAIN level', NEW j \in Indices, NEW k \in Indices,
             Frame(u, j)' = Frame(w, k)', Frame(u, j)' # 0
      PROVE  u = w /\ j = k
  <2>1. u \in DOMAIN level /\ w \in DOMAIN level
    BY <1>3, <1>4, <1>8
  <2>2. CASE (u = t /\ j = i) \/ (w = t /\ k = i)
    BY <1>3, <1>6, <1>8, <2>1, <2>2
  <2>3. CASE ~((u = t /\ j = i) \/ (w = t /\ k = i))
    <3>1. Frame(u, j) = Frame(w, k) /\ Frame(u, j) # 0
      BY <1>3, <1>8, <2>1, <2>3
    <3> QED BY <2>1, <3>1 DEF Tree
  <2> QED BY <2>2, <2>3
<1>9. Tree'
  <2>1. \A u \in DOMAIN level', j \in Indices : Frame(u, j)' # 0 =>
          /\ Frame(u, j)' \notin Spare' /\ Frame(u, j)' # Root
          /\ level'[u] < 4 => Frame(u, j)' \in DOMAIN level' /\ level'[Frame(u, j)'] = level'[u] + 1
          /\ ~(level'[u] < 4) => Frame(u, j)' \notin DOMAIN level'
    BY <1>7
  <2>2. \A u, w \in DOMAIN level', j, k \in Indices :
          Frame(u, j)' = Frame(w, k)' /\ Frame(u, j)' # 0 => u = w /\ j = k
    BY <1>8
  <2> QED BY <1>5, <2>1, <2>2 DEF Tree
<1> QED BY <1>1, <1>2, <1>3, <1>9

----------------------------------------------------------------------------
(* Paths through the tree.                                                 *)

(* Where a page gets, at each level, is nowhere or a table of that level.  *)
LEMMA Steps ==
  ASSUME TypeOK, Tree, NEW v \in Virt, NEW k \in 1..3, NEW t,
         t = 0 \/ (t \in DOMAIN level /\ level[t] = k), 0 \notin DOMAIN level
  PROVE  /\ HwFollow(t, v, k) = 0
            \/ (HwFollow(t, v, k) \in DOMAIN level /\ level[HwFollow(t, v, k)] = k + 1)
         /\ t # 0 => index[v][k] \in Indices /\ HwFollow(t, v, k) = Frame(t, index[v][k])
<1>0. index[v][k] \in Indices
  BY VmmAssumption
<1>1. CASE t = 0
  BY <1>0, <1>1 DEF HwFollow
<1>2. CASE t # 0
  <2>1. HwFollow(t, v, k) = Frame(t, index[v][k])
    BY <1>2 DEF HwFollow, Entry, Frame
  <2> QED BY <1>0, <1>2, <2>1 DEF Tree
<1> QED BY <1>1, <1>2

(* Neither 0 nor an address out of range is a page table.                  *)
LEMMA NoZero ==
  ASSUME TypeOK
  PROVE  0 \notin DOMAIN level /\ Wild \notin DOMAIN level /\ Wild \notin Frames
BY VmmAssumption DEF TypeOK, Wild

(* At each level the processor is at a table of that level, or nowhere.    *)
LEMMA Paths ==
  ASSUME TypeOK, Tree, Rooted, NEW v \in Virt
  PROVE  /\ Table2(v) = 0 \/ (Table2(v) \in DOMAIN level /\ level[Table2(v)] = 2)
         /\ Table3(v) = 0 \/ (Table3(v) \in DOMAIN level /\ level[Table3(v)] = 3)
         /\ HwTable(v) = 0 \/ (HwTable(v) \in DOMAIN level /\ level[HwTable(v)] = 4)
         /\ Table2(v) = Frame(Root, index[v][1])
         /\ Table3(v) = IF Table2(v) = 0 THEN 0 ELSE Frame(Table2(v), index[v][2])
         /\ HwTable(v) = IF Table3(v) = 0 THEN 0 ELSE Frame(Table3(v), index[v][3])
         /\ Translate(v) = IF HwTable(v) = 0 THEN 0 ELSE Frame(HwTable(v), index[v][4])
<1>1. HwTable(v) = HwFollow(Table3(v), v, 3)
  BY DEF HwTable, Table3, Table2
<1>2. Table2(v) = 0 \/ (Table2(v) \in DOMAIN level /\ level[Table2(v)] = 2)
  BY Steps, NoZero DEF Table2, Rooted
<1>3. Table3(v) = 0 \/ (Table3(v) \in DOMAIN level /\ level[Table3(v)] = 3)
  BY <1>2, Steps, NoZero DEF Table3
<1>4. HwTable(v) = 0 \/ (HwTable(v) \in DOMAIN level /\ level[HwTable(v)] = 4)
  BY <1>1, <1>3, Steps, NoZero
<1>5. Table2(v) = Frame(Root, index[v][1])
  BY NoZero DEF Table2, Rooted, HwFollow, Entry, Frame
<1>6. Table3(v) = IF Table2(v) = 0 THEN 0 ELSE Frame(Table2(v), index[v][2])
  BY DEF Table3, HwFollow, Entry, Frame
<1>7. HwTable(v) = IF Table3(v) = 0 THEN 0 ELSE Frame(Table3(v), index[v][3])
  BY <1>1 DEF HwFollow, Entry, Frame
<1>8. Translate(v) = IF HwTable(v) = 0 THEN 0 ELSE Frame(HwTable(v), index[v][4])
  BY DEF Translate, HwFollow, Entry, Frame
<1> QED BY <1>2, <1>3, <1>4, <1>5, <1>6, <1>7, <1>8

(* The code's walk is the processor's as long as it does not run wild.     *)
LEMMA Walks ==
  ASSUME TypeOK, Tree, Rooted, NEW v \in Virt
  PROVE  /\ PageTable(v) \in {0, Wild, HwTable(v)}
         /\ PageTable(v) \notin {0, Wild} => vmm_get_phys_addr(v) \in {Wild, Frame(PageTable(v), index[v][4])}
         /\ PageTable(v) = 0 => vmm_get_phys_addr(v) = 0
<1> DEFINE a == Follow(Root, v, 1)
           b == Follow(a, v, 2)
<1>1. PageTable(v) = Follow(b, v, 3) /\ vmm_get_phys_addr(v) = Follow(PageTable(v), v, 4)
  BY DEF PageTable, vmm_get_phys_addr
<1>2. a \in {Wild, Table2(v)}
  BY NoZero DEF Follow, Table2, HwFollow, Rooted
<1>3. b \in {0, Wild, Table3(v)}
  BY <1>2, NoZero DEF Follow, Table3, HwFollow
<1>4. Follow(b, v, 3) \in {0, Wild, HwTable(v)}
  <2>1. HwTable(v) = HwFollow(Table3(v), v, 3)
    BY DEF HwTable, Table3, Table2
  <2> HIDE DEF b
  <2> QED BY <1>3, <2>1 DEF Follow, HwFollow
<1>5. /\ PageTable(v) \notin {0, Wild} => vmm_get_phys_addr(v) \in {Wild, Frame(PageTable(v), index[v][4])}
      /\ PageTable(v) = 0 => vmm_get_phys_addr(v) = 0
  BY <1>1 DEF Follow, Entry, Frame
<1> QED BY <1>1, <1>4, <1>5

(* Only one page gets to an entry of the last level.                       *)
LEMMA OnePage ==
  ASSUME TypeOK, Tree, Rooted, NEW v \in Virt, NEW w \in Virt, HwTable(v) = HwTable(w), HwTable(v) # 0,
         index[v][4] = index[w][4]
  PROVE  v = w
<1>0. \A k \in 1..4 : index[v][k] \in Indices /\ index[w][k] \in Indices
  BY VmmAssumption
<1>1. Table3(v) # 0 /\ Table3(w) # 0 /\ Table2(v) # 0 /\ Table2(w) # 0
  BY Paths
<1>2. Table3(v) = Table3(w) /\ index[v][3] = index[w][3]
  <2>1. Frame(Table3(v), index[v][3]) = Frame(Table3(w), index[w][3]) /\ Frame(Table3(v), index[v][3]) # 0
    BY <1>1, Paths
  <2>2. Table3(v) \in DOMAIN level /\ Table3(w) \in DOMAIN level
    BY <1>1, Paths
  <2> QED BY <1>0, <2>1, <2>2 DEF Tree
<1>3. Table2(v) = Table2(w) /\ index[v][2] = index[w][2]
  <2>1. Frame(Table2(v), index[v][2]) = Frame(Table2(w), index[w][2]) /\ Frame(Table2(v), index[v][2]) # 0
    BY <1>1, <1>2, Paths
  <2>2. Table2(v) \in DOMAIN level /\ Table2(w) \in DOMAIN level
    BY <1>1, Paths
  <2> QED BY <1>0, <2>1, <2>2 DEF Tree
<1>4. index[v][1] = index[w][1]
  <2>1. Frame(Root, index[v][1]) = Frame(Root, index[w][1]) /\ Frame(Root, index[v][1]) # 0
    BY <1>1, <1>3, Paths
  <2> QED BY <1>0, <2>1 DEF Tree, Rooted
<1>5. index[v] = index[w]
  <2>1. index[v] \in [1..4 -> Indices] /\ index[w] \in [1..4 -> Indices]
    BY VmmAssumption
  <2>2. \A k \in 1..4 : index[v][k] = index[w][k]
    <3> TAKE k \in 1..4
    <3>1. k = 1 \/ k = 2 \/ k = 3 \/ k = 4
      OBVIOUS
    <3> QED BY <1>2, <1>3, <1>4, <3>1
  <2> QED BY <2>1, <2>2
<1> QED BY <1>5, VmmAssumption

----------------------------------------------------------------------------
(* The steps.                                                              *)

(* The invariant is kept, and only pages of the call change.               *)
Kept ==
  /\ VmmInv'
  /\ \A v \in Virt : Translate(v)' # Translate(v) => v \in op.at .. (op.at + op.n - 1)

(* What is not the tables.                                                 *)
Booked ==
  /\ free \subseteq Frames /\ program_break \in Virt \cup {0} /\ next_mmap \in 1..(VirtPages + 1)
  /\ op \in Calls
  /\ op.i <= op.n /\ op.at + op.n - 1 <= VirtPages /\ op.undone <= op.i

(* The page a call is at is one of its own.                                *)
LEMMA PageIs ==
  ASSUME Booked, op.i < op.n
  PROVE  Page \in Virt /\ Page \in op.at .. (op.at + op.n - 1)
<1>1. op.at \in Virt /\ op.n \in 0..VirtPages /\ op.i \in 0..VirtPages
  BY DEF Booked, Calls
<1>2. VirtPages \in Nat /\ op.at + op.n - 1 <= VirtPages
  BY VmmAssumption DEF Booked
<1> QED BY <1>1, <1>2 DEF Page, Virt

(* A step that changes no entry keeps the invariant, given what the call   *)
(* knows.                                                                  *)
LEMMA TablesSame ==
  ASSUME VmmInv, UNCHANGED <<tables, level>>, Spare' \subseteq Spare \cup {0}, op'.phys \notin free',
         Booked', Walking', InLoop'
  PROVE  Kept
<1>1. TypeOK'
  BY DEF VmmInv, TypeOK, Booked
<1>2. Tree'
  BY TreeSame, NoZero DEF VmmInv
<1>3. \A v \in Virt : Translate(v)' = Translate(v)
  BY DEF Translate, HwTable, HwFollow, Entry
<1> QED BY <1>1, <1>2, <1>3 DEF Kept, VmmInv, Rooted

(* What the fields of op are when no call is in progress.                  *)
LEMMA NoCallIs ==
  /\ NoCall \in Calls /\ NoCall.pc = "idle" /\ NoCall.call = "none" /\ NoCall.phys = 0
  /\ NoCall.i = 0 /\ NoCall.n = 0 /\ NoCall.at = 1 /\ NoCall.undone = 0
<1>1. 1 \in Virt /\ VirtPages \in Nat /\ VirtPages >= 1
  BY VmmAssumption DEF Virt
<1>2. <<>> \in Seq(Segments)
  OBVIOUS
<1> QED BY <1>1, <1>2, VmmAssumption DEF NoCall, Calls

Counts == 0..VirtPages
TableFrames == Frames \cup {Root}
Levels == 1..4
PCs == {"idle", "page", "walk", "fill", "undo", "unmap", "halted"}

(* The fields of a call that only its beginning sets.                      *)
SameCall(x, o) == x.call = o.call /\ x.at = o.at /\ x.n = o.n /\ x.flags = o.flags

Dropping(o, pc) == [o EXCEPT !.pc = pc, !.phys = 0]
Going(o, pc, i) == [o EXCEPT !.pc = pc, !.i = i]
Down(o, t, k) == [o EXCEPT !.table = t, !.lv = k]
Taking(o, f) == [o EXCEPT !.pc = "walk", !.phys = f, !.table = Root, !.lv = 1]

(* op after a step that only moves on.                                     *)
LEMMA OpPc ==
  ASSUME NEW o \in Calls, NEW pc \in PCs, NEW x, x = [o EXCEPT !.pc = pc]
  PROVE  x \in Calls /\ SameCall(x, o) /\ x.pc = pc /\ x.i = o.i /\ x.undone = o.undone /\ x.phys = o.phys
BY DEF Calls, SameCall, PCs

(* op after the frame in hand was given back or mapped.                    *)
LEMMA OpDrop ==
  ASSUME NEW o \in Calls, NEW pc \in PCs, NEW x, x = Dropping(o, pc)
  PROVE  x \in Calls /\ SameCall(x, o) /\ x.pc = pc /\ x.i = o.i /\ x.undone = o.undone /\ x.phys = 0
BY DEF Calls, SameCall, PCs, Dropping

(* op after one more page.                                                 *)
LEMMA OpNext ==
  ASSUME NEW o \in Calls, NEW pc \in PCs, NEW i \in Counts, NEW x, x = Going(o, pc, i)
  PROVE  x \in Calls /\ SameCall(x, o) /\ x.pc = pc /\ x.i = i /\ x.undone = o.undone /\ x.phys = o.phys
BY DEF Calls, SameCall, PCs, Going, Counts

(* op after one more page was taken back.                                  *)
LEMMA OpUndone ==
  ASSUME NEW o \in Calls, NEW u \in Counts, NEW x, x = [o EXCEPT !.undone = u]
  PROVE  x \in Calls /\ SameCall(x, o) /\ x.pc = o.pc /\ x.i = o.i /\ x.undone = u /\ x.phys = o.phys
BY DEF Calls, SameCall, Counts

(* op after going one level down.                                          *)
LEMMA OpTable ==
  ASSUME NEW o \in Calls, NEW t \in TableFrames, NEW k \in Levels, NEW x,
         x = Down(o, t, k)
  PROVE  /\ x \in Calls /\ SameCall(x, o) /\ x.pc = o.pc /\ x.i = o.i /\ x.undone = o.undone
         /\ x.phys = o.phys /\ x.table = t /\ x.lv = k
BY DEF Calls, SameCall, Down, TableFrames, Levels

(* op after a frame was taken.                                             *)
LEMMA OpTake ==
  ASSUME NEW o \in Calls, NEW f \in Frames, NEW x, x = Taking(o, f)
  PROVE  /\ x \in Calls /\ SameCall(x, o) /\ x.pc = "walk" /\ x.i = o.i /\ x.undone = o.undone
         /\ x.phys = f /\ x.table = Root /\ x.lv = 1
<1>1. x = [pc |-> "walk", call |-> o.call, at |-> o.at, n |-> o.n, i |-> o.i, undone |-> o.undone,
           flags |-> o.flags, phys |-> f, table |-> Root, lv |-> 1, rest |-> o.rest]
  BY DEF Taking, Calls
<1>2. /\ o.call \in {"none", "brk", "mmap", "mmap_file", "munmap", "exec"}
      /\ o.at \in Virt /\ o.n \in 0..VirtPages /\ o.i \in 0..VirtPages /\ o.undone \in 0..VirtPages
      /\ o.flags \in SUBSET {"W", "NX"} /\ o.rest \in Seq(Segments)
  BY DEF Calls
<1> QED BY <1>1, <1>2 DEF Calls, SameCall

(* A call ends, fails or halts: nothing but op and the break moves.        *)
LEMMA CallStops ==
  ASSUME VmmInv, UNCHANGED <<tables, level, free, next_mmap>>, program_break' \in Virt \cup {0},
         \/ op' = NoCall
         \/ op' = [op EXCEPT !.pc = "halted"]
         \/ op' = [op EXCEPT !.pc = "undo", !.phys = 0]
         \/ op' = [op EXCEPT !.pc = "undo"]
  PROVE  Kept
<1>0. op \in Calls /\ Booked /\ InLoop /\ op.phys \notin free /\ 0 \notin Frames /\ VirtPages \in Nat /\ 1 \in Virt
  BY VmmAssumption DEF VmmInv, TypeOK, Booked, Tree, Virt
<1>1. /\ op' \in Calls /\ op'.phys \in {0, op.phys} /\ op'.pc \notin {"walk", "fill"}
      /\ op' # NoCall => SameCall(op', op) /\ op'.i = op.i /\ op'.undone = op.undone
  <2>1. "halted" \in PCs /\ "undo" \in PCs
    BY DEF PCs
  <2>2. CASE op' = NoCall
    BY <2>2, NoCallIs
  <2>3. CASE op' = [op EXCEPT !.pc = "halted"] \/ op' = [op EXCEPT !.pc = "undo"]
    BY <1>0, <2>1, <2>3, OpPc
  <2>4. CASE op' = [op EXCEPT !.pc = "undo", !.phys = 0]
    <3>1. /\ op' \in Calls /\ SameCall(op', op) /\ op'.pc = "undo" /\ op'.i = op.i
          /\ op'.undone = op.undone /\ op'.phys = 0
      <4>1. op' = Dropping(op, "undo")
        BY <2>4 DEF Dropping
      <4> QED BY <1>0, <2>1, <4>1, OpDrop
    <3> QED BY <3>1
  <2> QED BY <2>2, <2>3, <2>4
<1>3. /\ op'.i <= op'.n /\ op'.at + op'.n - 1 <= VirtPages /\ op'.undone <= op'.i
      /\ op'.call = "brk" => op'.at + op'.n \in Virt
  <2>1. CASE op' = NoCall
    BY <1>0, <2>1, NoCallIs
  <2>2. CASE op' # NoCall
    <3>1. op'.i = op.i /\ op'.n = op.n /\ op'.at = op.at /\ op'.undone = op.undone /\ op'.call = op.call
      BY <1>1, <2>2 DEF SameCall
    <3> QED BY <1>0, <3>1 DEF Booked, InLoop
  <2> QED BY <2>1, <2>2
<1>4. Booked'
  BY <1>0, <1>1, <1>3 DEF Booked
<1>5. op'.phys \notin free' /\ Spare' \subseteq Spare \cup {0}
  BY <1>0, <1>1 DEF Booked, Spare
<1> QED BY <1>1, <1>3, <1>4, <1>5, TablesSame DEF Walking, InLoop

(* A call goes on with another page, or begins.                            *)
LEMMA CallGoesOn ==
  ASSUME VmmInv, UNCHANGED <<tables, level, free>>, program_break' \in Virt \cup {0},
         next_mmap' \in 1..(VirtPages + 1), op' \in Calls, op'.phys \in {0, op.phys}, op'.pc \notin {"walk", "fill"},
         op'.i <= op'.n, op'.at + op'.n - 1 <= VirtPages, op'.undone <= op'.i,
         op'.call = "brk" => op'.at + op'.n \in Virt
  PROVE  Kept
<1>0. op.phys \notin free /\ 0 \notin free /\ free \subseteq Frames
  BY VmmAssumption DEF VmmInv, TypeOK, Tree
<1>1. Booked'
  BY <1>0 DEF Booked
<1>2. op'.phys \notin free' /\ Spare' \subseteq Spare \cup {0}
  BY <1>0 DEF Spare
<1> QED BY <1>1, <1>2, TablesSame DEF Walking, InLoop

(* Going down a level, or finding no table there, keeps the invariant and  *)
(* every translation.                                                      *)
LEMMA WalkKept ==
  ASSUME VmmInv, Descend \/ NoTable
  PROVE  Kept
<1>0. /\ op \in Calls /\ Booked /\ Walking /\ InLoop /\ Tree /\ TypeOK /\ Rooted
  BY DEF VmmInv, TypeOK, Booked
<1>1. CASE NoTable
  <2>1. op' \in {NoCall, [op EXCEPT !.pc = "undo", !.phys = 0]} /\ UNCHANGED <<tables, level, free, program_break, next_mmap>>
    BY <1>1 DEF NoTable, MapFails
  <2> QED BY <1>0, <2>1, CallStops DEF Booked
<1>2. CASE Descend
  <2>1. /\ op.pc = "walk" /\ op.lv < 4 /\ Here.frame # 0 /\ UNCHANGED <<tables, level, free, program_break, next_mmap>>
        /\ op' = [op EXCEPT !.pc = "halted"] \/ op' = [op EXCEPT !.table = Here.frame, !.lv = op.lv + 1]
    BY <1>2 DEF Descend, Halt
  <2>2. CASE op' = [op EXCEPT !.pc = "halted"]
    BY <1>0, <2>1, <2>2, CallStops DEF Booked
  <2>3. CASE op' = [op EXCEPT !.table = Here.frame, !.lv = op.lv + 1]
    <3>1. /\ op.table \in DOMAIN level /\ level[op.table] = op.lv /\ At(Page, op.lv, op.table)
          /\ op.phys # 0 /\ op.i < op.n /\ op.lv \in 1..3 /\ op.phys \notin free
      BY <1>0, <2>1 DEF Walking, Calls, Tree
    <3>2. Page \in Virt
      BY <1>0, <3>1, VmmAssumption DEF Booked, Calls, Page, Virt
    <3>3. Here.frame = HwFollow(op.table, Page, op.lv)
      BY <3>1, NoZero, <1>0 DEF Here, HwFollow
    <3>4. Here.frame \in DOMAIN level /\ level[Here.frame] = op.lv + 1
      BY <1>0, <2>1, <3>1, <3>2, <3>3, Steps, NoZero
    <3>5. At(Page, op.lv + 1, Here.frame)
      <4>1. op.lv = 1 \/ op.lv = 2 \/ op.lv = 3
        BY <3>1
      <4>2. HwTable(Page) = HwFollow(Table3(Page), Page, 3)
        BY DEF HwTable, Table3, Table2
      <4> HIDE DEF Page, Here
      <4> QED BY <3>1, <3>3, <4>1, <4>2 DEF At, Table2, Table3
    <3> DEFINE h == Here.frame
    <3> HIDE DEF h
    <3>6. op' = [op EXCEPT !.table = h, !.lv = op.lv + 1] /\ h \in Frames \cup {Root}
      BY <1>0, <2>3, <3>4 DEF h, TypeOK
    <3>7. /\ op' \in Calls /\ op'.table = h /\ op'.lv = op.lv + 1 /\ op'.pc = "walk"
          /\ op'.i = op.i /\ op'.n = op.n /\ op'.at = op.at /\ op'.undone = op.undone
          /\ op'.call = op.call /\ op'.phys = op.phys
      <4>1. op.lv + 1 \in Levels /\ h \in TableFrames
        BY <2>1, <3>1, <3>6 DEF Levels, TableFrames
      <4>2. /\ op' \in Calls /\ SameCall(op', op) /\ op'.pc = op.pc /\ op'.i = op.i
            /\ op'.undone = op.undone /\ op'.phys = op.phys /\ op'.table = h /\ op'.lv = op.lv + 1
        <5>1. op' = Down(op, h, op.lv + 1)
          BY <3>6 DEF Down
        <5> QED BY <1>0, <3>6, <4>1, <5>1, OpTable
      <4> QED BY <2>1, <4>2 DEF SameCall
    <3>8. Booked' /\ InLoop'
      BY <1>0, <2>1, <3>7 DEF Booked, InLoop
    <3>9. Page' = Page
      BY <3>7 DEF Page
    <3>10. Walking'
      <4>1. At(Page, op.lv, op.table)'
        <5>1. At(Page, op'.lv, op'.table)
          BY <3>5, <3>7 DEF h
        <5> QED BY <2>1, <3>9, <5>1 DEF At, Table2, Table3, HwTable, HwFollow, Entry
      <4> QED BY <2>1, <3>1, <3>4, <3>7, <4>1 DEF Walking, h
    <3>11. op'.phys \notin free' /\ Spare' \subseteq Spare \cup {0}
      BY <2>1, <3>1, <3>7 DEF Spare
    <3> QED BY <2>1, <3>8, <3>10, <3>11, TablesSame
  <2> QED BY <2>1, <2>2, <2>3
<1> QED BY <1>1, <1>2

(* Every call begins with no page done and no frame taken.                 *)
LEMMA Begins ==
  ASSUME VmmInv, NEW call \in {"brk", "mmap", "mmap_file", "munmap", "exec"}, NEW at \in Virt,
         NEW n \in Virt, at + n - 1 <= VirtPages, call = "brk" => at + n \in Virt,
         NEW flags \in SUBSET {"W", "NX"}, NEW pc \in {"page", "unmap"}, NEW rest \in Seq(Segments),
         op' = [pc |-> pc, call |-> call, at |-> at, n |-> n, i |-> 0, undone |-> 0,
                flags |-> flags, phys |-> 0, table |-> Root, lv |-> 1, rest |-> rest],
         UNCHANGED <<tables, level, free, program_break>>, next_mmap' \in 1..(VirtPages + 1)
  PROVE  Kept
<1>0. n \in 0..VirtPages /\ 0 \in 0..VirtPages /\ 0 <= n
  BY VmmAssumption DEF Virt
<1>1. op' \in Calls
  BY <1>0 DEF Calls
<1>2. program_break' \in Virt \cup {0}
  BY DEF VmmInv, TypeOK
<1> QED BY <1>0, <1>1, <1>2, CallGoesOn

(* op after a call has begun.                                              *)
LEMMA BeginIs ==
  ASSUME NEW call, NEW at, NEW n, NEW flags, NEW pc, Begin(call, at, n, flags, pc)
  PROVE  op' = [pc |-> pc, call |-> call, at |-> at, n |-> n, i |-> 0, undone |-> 0,
                flags |-> flags, phys |-> 0, table |-> Root, lv |-> 1, rest |-> <<>>]
BY DEF Begin, NoCall

(* A call that has begun holds no frame and has done no page.              *)
LEMMA BeginsEmpty ==
  ASSUME VmmInv, NEW call \in {"brk", "mmap", "mmap_file", "munmap"}, NEW at \in Virt,
         NEW n \in Virt, at + n - 1 <= VirtPages, call = "brk" => at + n \in Virt,
         NEW flags \in SUBSET {"W", "NX"}, NEW pc \in {"page", "unmap"}, Begin(call, at, n, flags, pc),
         UNCHANGED <<tables, level, free, program_break>>, next_mmap' \in 1..(VirtPages + 1)
  PROVE  Kept
<1>1. <<>> \in Seq(Segments)
  OBVIOUS
<1>2. op' = [pc |-> pc, call |-> call, at |-> at, n |-> n, i |-> 0, undone |-> 0,
             flags |-> flags, phys |-> 0, table |-> Root, lv |-> 1, rest |-> <<>>]
  BY BeginIs
<1> QED BY <1>1, <1>2, Begins

(* The loader's next segment, or its end.                                  *)
LEMMA SegmentsKept ==
  ASSUME VmmInv, NEW segs \in Seq(Segments), op' = map_segments(segs),
         UNCHANGED <<tables, level, free, program_break, next_mmap>>
  PROVE  Kept
<1>0. program_break' \in Virt \cup {0} /\ next_mmap' \in 1..(VirtPages + 1)
  BY DEF VmmInv, TypeOK
<1>1. CASE segs = <<>>
  BY <1>0, <1>1, CallStops DEF map_segments
<1>2. CASE segs # <<>>
  <2> DEFINE seg == Head(segs)
             rest == Tail(segs)
  <2>1. seg \in Segments /\ rest \in Seq(Segments)
    BY <1>2
  <2>2. op' = [NoCall EXCEPT !.pc = "page", !.call = "exec", !.at = seg.at, !.n = seg.n,
                             !.flags = seg.flags, !.rest = rest]
    BY <1>2 DEF map_segments
  <2> HIDE DEF seg, rest
  <2>3. op' = [pc |-> "page", call |-> "exec", at |-> seg.at, n |-> seg.n, i |-> 0, undone |-> 0,
               flags |-> seg.flags, phys |-> 0, table |-> Root, lv |-> 1, rest |-> rest]
    BY <2>2, ZenonT(30) DEF NoCall
  <2>4. seg.at \in Virt /\ seg.n \in Virt /\ seg.flags \in SUBSET {"W", "NX"} /\ seg.at + seg.n - 1 <= VirtPages
    BY <2>1 DEF Segments
  <2>5. "exec" \in {"brk", "mmap", "mmap_file", "munmap", "exec"} /\ "page" \in {"page", "unmap"} /\ "exec" # "brk"
    OBVIOUS
  <2> QED BY <1>0, <2>1, <2>3, <2>4, <2>5, Begins
<1> QED BY <1>1, <1>2

(* The first steps of all calls keep the invariant and every translation.  *)
LEMMA BeginningKept ==
  ASSUME VmmInv
  PROVE  /\ \A addr \in Addrs : sys_brk(addr) => Kept
         /\ \A addr \in Addrs \cup {0}, n \in Lengths, flags \in Prots : sys_mmap(addr, n, flags) => Kept
         /\ \A addr \in Addrs, n \in Lengths : sys_munmap(addr, n) => Kept
         /\ \A prog \in Programs : sys_execve(prog) => Kept
<1>0. /\ program_break \in Virt \cup {0} /\ next_mmap \in 1..(VirtPages + 1) /\ VirtPages \in Nat
      /\ Addrs \subseteq Virt /\ Lengths \subseteq Nat \ {0}
      /\ \A flags \in Prots \cup {{}, {"W"}} : flags \in SUBSET {"W", "NX"}
      /\ Booked /\ Walking /\ InLoop /\ op.phys \notin free
  BY VmmAssumption DEF VmmInv, TypeOK, Booked, Tree
<1>a. ASSUME UNCHANGED <<tables, level, free, op>>, program_break' \in Virt \cup {0}, op.pc = "idle",
             next_mmap' \in 1..(VirtPages + 1)
      PROVE  Kept
  BY <1>0, <1>a, TablesSame DEF Booked, Walking, InLoop, Spare
<1>1. ASSUME NEW addr \in Addrs, sys_brk(addr) PROVE Kept
  <2>1. /\ op.pc = "idle" /\ UNCHANGED <<tables, level, free, next_mmap>> /\ addr \in Virt
    BY <1>0, <1>1 DEF sys_brk
  <2>2. CASE program_break' \in {addr, program_break} /\ UNCHANGED op
    BY <1>0, <1>a, <2>1, <2>2
  <2>3. CASE /\ program_break # 0 /\ UNCHANGED program_break /\ addr > program_break
             /\ Begin("brk", program_break, addr - program_break, {"W"}, "page")
    <3>1. /\ program_break \in Virt /\ addr - program_break \in Virt
          /\ program_break + (addr - program_break) - 1 <= VirtPages
          /\ program_break + (addr - program_break) \in Virt
      BY <1>0, <2>1, <2>3 DEF Virt
    <3>2. {"W"} \in SUBSET {"W", "NX"} /\ "page" \in {"page", "unmap"} /\ "brk" \in {"brk", "mmap", "mmap_file", "munmap"}
      OBVIOUS
    <3> QED BY <1>0, <2>1, <2>3, <3>1, <3>2, BeginsEmpty
  <2>4. CASE /\ program_break # 0 /\ UNCHANGED program_break /\ addr < program_break
             /\ Begin("brk", addr, program_break - addr, {}, "unmap")
    <3>1. /\ program_break - addr \in Virt
          /\ addr + (program_break - addr) - 1 <= VirtPages
          /\ addr + (program_break - addr) \in Virt
      BY <1>0, <2>1, <2>4 DEF Virt
    <3>2. {} \in SUBSET {"W", "NX"} /\ "unmap" \in {"page", "unmap"} /\ "brk" \in {"brk", "mmap", "mmap_file", "munmap"}
      OBVIOUS
    <3> QED BY <1>0, <2>1, <2>4, <3>1, <3>2, BeginsEmpty
  <2> QED BY <1>1, <2>2, <2>3, <2>4 DEF sys_brk
<1>2. ASSUME NEW addr \in Addrs \cup {0}, NEW n \in Lengths, NEW flags \in Prots, sys_mmap(addr, n, flags)
      PROVE  Kept
  <2> DEFINE at == IF addr = 0 THEN next_mmap ELSE addr
  <2>1. /\ op.pc = "idle" /\ at + n - 1 <= VirtPages
        /\ next_mmap' = IF addr = 0 THEN next_mmap + n ELSE next_mmap
        /\ UNCHANGED <<tables, level, free, program_break>>
        /\ \/ Begin("mmap", at, n, flags, "page")
           \/ Begin("mmap_file", at, n, flags, "page")
           \/ UNCHANGED op
    BY <1>2 DEF sys_mmap
  <2>2. at \in Virt /\ n \in Virt /\ next_mmap' \in 1..(VirtPages + 1)
    BY <1>0, <2>1 DEF Virt
  <2> HIDE DEF at
  <2>3. flags \in SUBSET {"W", "NX"} /\ "page" \in {"page", "unmap"}
    BY <1>0
  <2>4. CASE UNCHANGED op
    BY <1>0, <1>a, <2>1, <2>2, <2>4
  <2>5. ASSUME NEW call \in {"mmap", "mmap_file"}, Begin(call, at, n, flags, "page") PROVE Kept
    BY <2>1, <2>2, <2>3, <2>5, BeginsEmpty
  <2> QED BY <2>1, <2>4, <2>5
<1>3. ASSUME NEW addr \in Addrs, NEW n \in Lengths, sys_munmap(addr, n) PROVE Kept
  <2>1. addr + n - 1 <= VirtPages /\ Begin("munmap", addr, n, {}, "unmap")
        /\ UNCHANGED <<tables, level, free, program_break, next_mmap>>
    BY <1>3 DEF sys_munmap
  <2>2. addr \in Virt /\ n \in Virt
    BY <1>0, <2>1 DEF Virt
  <2>3. {} \in SUBSET {"W", "NX"} /\ "unmap" \in {"page", "unmap"} /\ "munmap" \in {"brk", "mmap", "mmap_file", "munmap"}
        /\ "munmap" # "brk"
    OBVIOUS
  <2> QED BY <1>0, <2>1, <2>2, <2>3, BeginsEmpty
<1>4. ASSUME NEW prog \in Programs, sys_execve(prog) PROVE Kept
  <2>1. prog \in Seq(Segments)
    BY VmmAssumption
  <2>2. CASE op' = map_segments(prog)
    BY <1>4, <2>1, <2>2, SegmentsKept DEF sys_execve
  <2>3. CASE UNCHANGED op
    BY <1>0, <1>4, <1>a, <2>3 DEF sys_execve
  <2> QED BY <1>4, <2>2, <2>3 DEF sys_execve
<1> QED BY <1>1, <1>2, <1>3, <1>4

(* The steps of a call that leave the tables alone.                        *)
LEMMA LoopKept ==
  ASSUME VmmInv, NoFrame \/ Fill \/ MapDone \/ SegmentMapped \/ UnmapDone
  PROVE  Kept
<1>0. /\ program_break \in Virt \cup {0} /\ next_mmap \in 1..(VirtPages + 1) /\ VirtPages \in Nat
      /\ Booked /\ InLoop /\ op \in Calls /\ op.phys \notin free
      /\ op.i \in 0..VirtPages /\ op.n \in 0..VirtPages /\ op.at \in Virt /\ op.rest \in Seq(Segments)
  BY VmmAssumption DEF VmmInv, TypeOK, Booked, Tree, Calls
<1>1. CASE NoFrame
  <2>1. op' \in {NoCall, [op EXCEPT !.pc = "undo", !.phys = 0]} /\ UNCHANGED <<tables, level, free, program_break, next_mmap>>
    BY <1>1 DEF NoFrame, MapFails
  <2> QED BY <1>0, <2>1, CallStops
<1>2. CASE Fill
  <2>1. /\ op.pc = "fill" /\ UNCHANGED <<tables, level, free, program_break, next_mmap>>
        /\ \/ op' = NextPage("page") \/ op' = [op EXCEPT !.pc = "halted"] \/ op' = [op EXCEPT !.pc = "undo"]
    BY <1>2 DEF Fill, Halt
  <2>2. CASE op' = NextPage("page")
    <3>1. op' = Going(op, "page", op.i + 1)
      BY <2>2 DEF NextPage, Going
    <3>2. op.i < op.n /\ op.i + 1 \in 0..VirtPages /\ "page" \in PCs
      BY <1>0, <2>1 DEF InLoop, PCs
    <3>3. /\ op' \in Calls /\ SameCall(op', op) /\ op'.pc = "page" /\ op'.i = op.i + 1
          /\ op'.undone = op.undone /\ op'.phys = op.phys
      <4> DEFINE j == op.i + 1
      <4>1. op' = Going(op, "page", j) /\ j \in Counts
        BY <3>1, <3>2 DEF Counts
      <4> HIDE DEF j
      <4>2. /\ op' \in Calls /\ SameCall(op', op) /\ op'.pc = "page" /\ op'.i = j
            /\ op'.undone = op.undone /\ op'.phys = op.phys
        <5>1. op \in Calls /\ "page" \in PCs
          BY <1>0, <3>2
        <5> QED BY <4>1, <5>1, OpNext
      <4> QED BY <4>2 DEF j
    <3>4. /\ op'.i <= op'.n /\ op'.at + op'.n - 1 <= VirtPages /\ op'.undone <= op'.i
          /\ op'.call = "brk" => op'.at + op'.n \in Virt
      <4>1. op.undone \in Nat /\ op.undone <= op.i
        BY <1>0 DEF Booked, Calls
      <4> QED BY <1>0, <3>2, <3>3, <4>1 DEF SameCall, Booked, InLoop
    <3> QED BY <1>0, <2>1, <3>3, <3>4, CallGoesOn
  <2> QED BY <1>0, <2>1, <2>2, CallStops
<1>3. CASE MapDone \/ UnmapDone
  <2>1. /\ op' = NoCall /\ UNCHANGED <<tables, level, free, next_mmap>>
        /\ \/ program_break' = program_break
           \/ op.call = "brk" /\ program_break' \in {op.at, op.at + op.n}
    BY <1>3 DEF MapDone, UnmapDone
  <2>2. program_break' \in Virt \cup {0}
    BY <1>0, <2>1 DEF InLoop
  <2> QED BY <2>1, <2>2, CallStops
<1>4. CASE SegmentMapped
  <2>1. UNCHANGED <<tables, level, free, program_break, next_mmap>> /\ (op' = map_segments(op.rest) \/ op' = [op EXCEPT !.pc = "halted"])
    BY <1>4 DEF SegmentMapped, Halt
  <2> QED BY <1>0, <2>1, CallStops, SegmentsKept
<1> QED BY <1>1, <1>2, <1>3, <1>4

(* So does taking a frame for the next page.                               *)
LEMMA TakeKept ==
  ASSUME VmmInv, NEW f \in Frames, TakeFrame(f)
  PROVE  Kept
<1>0. /\ Booked /\ InLoop /\ Tree /\ Rooted /\ op \in Calls
  BY DEF VmmInv, TypeOK, Booked
<1>1. /\ op.pc = "page" /\ op.i < op.n /\ f \in free /\ free' = free \ {f} /\ op' = Taking(op, f)
      /\ UNCHANGED <<tables, level, program_break, next_mmap>>
  BY DEF TakeFrame, Lowest, Taking
<1>2. /\ op' \in Calls /\ SameCall(op', op) /\ op'.pc = "walk" /\ op'.i = op.i /\ op'.undone = op.undone
      /\ op'.phys = f /\ op'.table = Root /\ op'.lv = 1
  BY <1>0, <1>1, OpTake
<1>3. Booked' /\ InLoop'
  BY <1>0, <1>1, <1>2 DEF Booked, InLoop, SameCall
<1>4. Walking'
  <2>1. f # 0
    BY VmmAssumption
  <2> QED BY <1>0, <1>1, <1>2, <2>1 DEF Walking, At, Rooted, SameCall
<1>5. Spare' \subseteq Spare \cup {0} /\ op'.phys \notin free'
  BY <1>1, <1>2 DEF Spare
<1> QED BY <1>1, <1>3, <1>4, <1>5, TablesSame

(* An entry of the last level that page w leads to changes.                *)
LEMMA LeafChanges ==
  ASSUME VmmInv, NEW w \in Virt, NEW t \in DOMAIN level, t = HwTable(w), NEW e \in Entries,
         tables' = [tables EXCEPT ![t][index[w][4]] = e], UNCHANGED level,
         w \in op.at .. (op.at + op.n - 1),
         e.frame # 0 => /\ e.frame \notin Spare' \cup {Root} \cup DOMAIN level
                        /\ \A u \in DOMAIN level, j \in Indices : Frame(u, j) # e.frame,
         Spare' \subseteq Spare \cup {0, Frame(t, index[w][4])}, op'.phys \notin free',
         Booked', Walking', InLoop'
  PROVE  Kept
<1> DEFINE x == index[w][4]
<1>0. /\ TypeOK /\ Tree /\ Rooted /\ 0 \notin DOMAIN level /\ t # 0 /\ x \in Indices /\ level[t] = 4
      /\ \A v \in Virt, k \in 1..4 : index[v][k] \in Indices
  BY NoZero, Paths, VmmAssumption DEF VmmInv
<1>1. TypeOK'
  <2>1. DOMAIN level \subseteq Frames \cup {Root} /\ tables \in [Frames \cup {Root} -> [Indices -> Entries]]
    BY <1>0 DEF TypeOK
  <2>2. tables' \in [Frames \cup {Root} -> [Indices -> Entries]]
    BY <1>0, <2>1
  <2> QED BY <1>0, <2>2 DEF TypeOK, Booked
<1>2. Tree'
  BY <1>0, TreeLeaf
<1>3. Rooted'
  BY <1>0 DEF Rooted
<1>4. \A u \in DOMAIN level, j \in Indices : ~(u = t /\ j = x) => Frame(u, j)' = Frame(u, j)
  BY <1>0 DEF Frame, TypeOK
<1>5. ASSUME NEW v \in Virt, Translate(v)' # Translate(v)
      PROVE  v = w
  <2> HIDE DEF x
  <2>0. \A u, j : Frame(u, j) = tables[u][j].frame /\ Frame(u, j)' = tables'[u][j].frame
    BY DEF Frame
  <2>1. \A u \in DOMAIN level, j \in Indices :
          level[u] # 4 \/ u # t \/ j # x => tables'[u][j].frame = tables[u][j].frame
    BY <1>0, <1>4, <2>0
  <2>2. Table2(v)' = Table2(v)
    BY <1>0, <2>1 DEF Table2, HwFollow, Entry, Rooted
  <2>3. Table3(v)' = Table3(v)
    BY <1>0, <2>1, <2>2, Paths DEF Table3, HwFollow, Entry
  <2>4. HwTable(v)' = HwTable(v)
    <3>1. HwTable(v) = HwFollow(Table3(v), v, 3) /\ HwTable(v)' = HwFollow(Table3(v), v, 3)'
      BY DEF HwTable, Table3, Table2
    <3>2. HwFollow(Table3(v), v, 3)' = HwFollow(Table3(v), v, 3)
      BY <1>0, <2>1, <2>3, Paths DEF HwFollow, Entry
    <3> QED BY <3>1, <3>2
  <2>5. HwTable(v) = t /\ index[v][4] = x
    BY <1>0, <1>5, <2>1, <2>4, Paths DEF Translate, HwFollow, Entry
  <2> QED BY <1>0, <2>5, OnePage DEF x
<1> QED BY <1>1, <1>2, <1>3, <1>5 DEF Kept, VmmInv

(* Table f is created under entry x of table t, on the way to page p.      *)
LEMMA CreatesKept ==
  ASSUME VmmInv, NEW f \in Frames, create_page_table(f), NEW t, t = op.table, NEW k, k = op.lv,
         NEW p, p = Page, NEW x, x = index[p][k]
  PROVE  Kept
<1>0. /\ TypeOK /\ Tree /\ Rooted /\ Booked /\ InLoop /\ op \in Calls /\ f # 0 /\ f # Root /\ op.phys \notin free
      /\ 0 \notin DOMAIN level
  BY NoZero, VmmAssumption DEF VmmInv, TypeOK, Booked, Tree
<1>1. /\ op.pc = "walk" /\ k \in 1..3 /\ Here.frame = 0 /\ f \in free /\ free' = free \ {f}
      /\ tables' = [SetHere(f) EXCEPT ![f] = Empty]
      /\ level' = [u \in DOMAIN level \cup {f} |-> IF u = f THEN k + 1 ELSE level[u]]
      /\ op' = Down(op, f, k + 1)
      /\ UNCHANGED <<program_break, next_mmap>>
  BY <1>0 DEF create_page_table, Lowest, Down, Calls
<1>2. t \in DOMAIN level /\ level[t] = k /\ At(p, k, t) /\ op.phys # 0 /\ op.i < op.n
  BY <1>1 DEF VmmInv, Walking
<1>3. p \in Virt /\ x \in Indices /\ p \in op.at .. (op.at + op.n - 1)
  <2>1. p \in Virt /\ p \in op.at .. (op.at + op.n - 1)
    BY <1>0, <1>2, PageIs
  <2> QED BY <1>1, <2>1, VmmAssumption
<1>4. Frame(t, x) = 0 /\ tables' = [[tables EXCEPT ![t][x] = [frame |-> f, flags |-> op.flags]] EXCEPT ![f] = Empty]
  BY <1>1 DEF Here, Entry, Frame, SetHere
<1>5. /\ op' \in Calls /\ SameCall(op', op) /\ op'.pc = op.pc /\ op'.i = op.i /\ op'.undone = op.undone
      /\ op'.phys = op.phys /\ op'.table = f /\ op'.lv = k + 1
  <2> DEFINE l == k + 1
  <2>1. op' = Down(op, f, l) /\ l \in Levels
    BY <1>1 DEF Levels
  <2> HIDE DEF l
  <2>2. op \in Calls /\ f \in TableFrames
    BY <1>0 DEF TableFrames
  <2>3. /\ op' \in Calls /\ SameCall(op', op) /\ op'.pc = op.pc /\ op'.i = op.i /\ op'.undone = op.undone
        /\ op'.phys = op.phys /\ op'.table = f /\ op'.lv = l
    BY <2>1, <2>2, OpTable
  <2> QED BY <2>3 DEF l
<1>6. Spare' = Spare \ {f} /\ op'.phys \notin free'
  BY <1>0, <1>1, <1>5 DEF Spare
<1>7. /\ Tree' /\ f \notin DOMAIN level
      /\ \A j \in Indices : tables'[f][j] = Absent
      /\ \A u \in DOMAIN level, j \in Indices : u # t \/ j # x => tables'[u][j] = tables[u][j]
      /\ Frame(t, x)' = f
  <2>1. level' = Levelled(t, f) /\ level[t] < 4
    BY <1>1, <1>2 DEF Levelled
  <2>2. PICK flags : flags = op.flags
    OBVIOUS
  <2>3. tables' = Grown(t, x, f, flags)
    BY <1>4, <2>2 DEF Grown
  <2>4. TypeOK /\ Tree /\ t \in DOMAIN level /\ x \in Indices /\ Frame(t, x) = 0 /\ f \in free
    BY <1>0, <1>1, <1>2, <1>3, <1>4
  <2> QED BY <1>6, <2>1, <2>3, <2>4, TreeGrow
<1>8. /\ \A j \in Indices : tables'[f][j].frame = 0
      /\ \A u \in DOMAIN level, j \in Indices : u # t \/ j # x => tables'[u][j].frame = tables[u][j].frame
      /\ tables'[t][x].frame = f /\ tables[t][x].frame = 0
  <2>1. Absent.frame = 0
    BY DEF Absent
  <2> HIDE DEF Absent
  <2>2. \A u, j : Frame(u, j)' = tables'[u][j].frame /\ Frame(u, j) = tables[u][j].frame
    BY DEF Frame
  <2>3. \A j \in Indices : tables'[f][j].frame = 0
    BY <1>7, <2>1
  <2>4. \A u \in DOMAIN level, j \in Indices : u # t \/ j # x => tables'[u][j].frame = tables[u][j].frame
    <3> TAKE u \in DOMAIN level, j \in Indices
    <3> HAVE u # t \/ j # x
    <3>1. tables'[u][j] = tables[u][j]
      BY <1>7
    <3> QED BY <3>1
  <2>5. tables'[t][x].frame = f /\ tables[t][x].frame = 0
    <3>1. Frame(t, x)' = f
      BY <1>7
    <3>2. Frame(t, x) = 0
      BY <1>4
    <3>3. Frame(t, x)' = tables'[t][x].frame /\ Frame(t, x) = tables[t][x].frame
      BY DEF Frame
    <3> QED BY <3>1, <3>2, <3>3
  <2> QED BY <2>3, <2>4, <2>5
<1>9. DOMAIN level' = DOMAIN level \cup {f} /\ level'[f] = k + 1 /\ \A u \in DOMAIN level : level'[u] = level[u]
  BY <1>1, <1>7
<1>10. Booked' /\ InLoop' /\ Rooted'
  BY <1>0, <1>1, <1>5, <1>9 DEF Booked, InLoop, Rooted, SameCall
<1>11. TypeOK'
  <2>1. DOMAIN level \subseteq Frames \cup {Root} /\ tables \in [Frames \cup {Root} -> [Indices -> Entries]]
        /\ level \in [DOMAIN level -> 1..4]
    BY <1>0 DEF TypeOK
  <2>2. [frame |-> f, flags |-> op.flags] \in Entries /\ Empty \in [Indices -> Entries]
    BY <1>0 DEF Entries, Calls, Empty, Absent
  <2>3. tables' \in [Frames \cup {Root} -> [Indices -> Entries]]
    BY <1>2, <1>3, <1>4, <2>1, <2>2
  <2>4. level' \in [DOMAIN level' -> 1..4] /\ DOMAIN level' \subseteq Frames \cup {Root}
    BY <1>1, <1>9, <2>1
  <2> QED BY <1>10, <2>3, <2>4 DEF TypeOK, Booked
<1>12. \A v \in Virt, j \in 1..4 : index[v][j] \in Indices
  BY VmmAssumption
<1>13. ASSUME NEW v \in Virt
       PROVE  /\ Table2(v)' = Table2(v) \/ (Table2(v) = 0 /\ Table2(v)' = f)
              /\ Table3(v)' = Table3(v) \/ (Table3(v) = 0 /\ Table3(v)' = f)
              /\ HwTable(v)' = HwTable(v) \/ (HwTable(v) = 0 /\ HwTable(v)' = f)
              /\ Translate(v)' = Translate(v)
  <2>1. Table2(v)' = Table2(v) \/ (Table2(v) = 0 /\ Table2(v)' = f)
    BY <1>0, <1>8, <1>12 DEF Table2, HwFollow, Entry, Rooted
  <2>2. Table3(v)' = Table3(v) \/ (Table3(v) = 0 /\ Table3(v)' = f)
    BY <1>0, <1>8, <1>12, <2>1, Paths DEF Table3, HwFollow, Entry
  <2>3. HwTable(v)' = HwTable(v) \/ (HwTable(v) = 0 /\ HwTable(v)' = f)
    <3>1. HwTable(v) = HwFollow(Table3(v), v, 3) /\ HwTable(v)' = HwFollow(Table3(v), v, 3)'
      BY DEF HwTable, Table3, Table2
    <3>2. \/ HwFollow(Table3(v), v, 3)' = HwFollow(Table3(v), v, 3)
          \/ HwFollow(Table3(v), v, 3) = 0 /\ HwFollow(Table3(v), v, 3)' = f
      BY <1>0, <1>8, <1>12, <2>2, Paths DEF HwFollow, Entry
    <3> QED BY <3>1, <3>2
  <2>4. Translate(v)' = Translate(v)
    <3>1. HwTable(v) # t
      BY <1>0, <1>1, <1>2, Paths
    <3> QED BY <1>0, <1>8, <1>12, <2>3, <3>1, Paths DEF Translate, HwFollow, Entry
  <2> QED BY <2>1, <2>2, <2>3, <2>4
<1>14. Walking'
  <2>1. Page' = Page
    BY <1>5 DEF Page, SameCall
  <2>2. p \in Virt /\ At(p, k, t) /\ t # 0
    BY <1>0, <1>2, <1>3
  <2>3. /\ k = 1 => Table2(p)' = f
        /\ k = 2 => Table3(p)' = f
        /\ k = 3 => HwTable(p)' = f
    <3>1. k = 1 => Table2(p)' = f
      BY <1>0, <1>8, <2>2 DEF At, Table2, HwFollow, Entry, Rooted
    <3>2. k = 2 => Table3(p)' = f
      <4>1. k = 2 => Table2(p)' = t
        BY <1>13, <2>2 DEF At
      <4> QED BY <1>8, <2>2, <4>1 DEF Table3, HwFollow, Entry
    <3>3. k = 3 => HwTable(p)' = f
      <4>1. k = 3 => Table3(p)' = t
        BY <1>13, <2>2 DEF At
      <4>2. HwTable(p)' = HwFollow(Table3(p), p, 3)'
        BY DEF HwTable, Table3, Table2
      <4> QED BY <1>8, <2>2, <4>1, <4>2 DEF HwFollow, Entry
    <3> QED BY <3>1, <3>2, <3>3
  <2>4. At(p, k + 1, f)'
    <3>1. k = 1 \/ k = 2 \/ k = 3
      BY <1>1
    <3> QED BY <2>3, <3>1 DEF At
  <2>5. At(Page, op.lv, op.table)'
    BY <1>5, <2>1, <2>4 DEF At
  <2> QED BY <1>2, <1>5, <1>9, <2>5 DEF Walking, SameCall
<1> QED BY <1>7, <1>10, <1>11, <1>13, <1>14 DEF Kept, VmmInv

(* So does a new page table: no page below it was mapped.                  *)
LEMMA CreateKept ==
  ASSUME VmmInv, NEW f \in Frames, create_page_table(f)
  PROVE  Kept
<1>1. \E t, k, p : t = op.table /\ k = op.lv /\ p = Page
  OBVIOUS
<1> QED BY <1>1, CreatesKept

(* Writing the last entry changes the translation of the call's page only. *)
LEMMA MapEntryKept ==
  ASSUME VmmInv, MapEntry
  PROVE  Kept
<1>p. PICK t, e, p : t = op.table /\ e = [frame |-> op.phys, flags |-> op.flags] /\ p = Page
  OBVIOUS
<1>0. /\ TypeOK /\ Tree /\ Rooted /\ Booked /\ InLoop /\ op \in Calls /\ op.phys \notin free
      /\ 0 \notin DOMAIN level /\ free \subseteq Frames /\ 0 \notin Frames /\ Root \notin Frames
  BY NoZero, VmmAssumption DEF VmmInv, TypeOK, Booked, Tree
<1>1. /\ op.pc = "walk" /\ op.lv = 4 /\ tables' = SetHere(op.phys) /\ op' = Dropping(op, "fill")
      /\ UNCHANGED <<level, free, program_break, next_mmap>>
  BY DEF MapEntry, Dropping
<1>2. t \in DOMAIN level /\ t = HwTable(p) /\ op.phys # 0 /\ op.i < op.n
  BY <1>1, <1>p DEF VmmInv, Walking, At
<1>3. p \in Virt /\ p \in op.at .. (op.at + op.n - 1)
  BY <1>0, <1>p, <1>2, PageIs
<1>4. tables' = [tables EXCEPT ![t][index[p][4]] = e] /\ e \in Entries /\ e.frame = op.phys
  BY <1>0, <1>1, <1>p DEF SetHere, Entries, Calls
<1>5. /\ op' \in Calls /\ SameCall(op', op) /\ op'.pc = "fill" /\ op'.i = op.i /\ op'.undone = op.undone /\ op'.phys = 0
  <2>1. "fill" \in PCs
    BY DEF PCs
  <2> QED BY <1>0, <1>1, <2>1, OpDrop
<1>6. Spare' = free \cup {0} /\ Spare = free \cup {op.phys} /\ op'.phys \notin free'
  BY <1>0, <1>1, <1>5 DEF Spare
<1>7. Booked' /\ InLoop' /\ Walking'
  BY <1>0, <1>1, <1>2, <1>5 DEF Booked, InLoop, Walking, SameCall
<1>8. op.phys \in Frames
  BY <1>0, <1>2 DEF Calls
<1>9. /\ op.phys \notin Spare' \cup {Root} \cup DOMAIN level
      /\ \A u \in DOMAIN level, j \in Indices : Frame(u, j) # op.phys
  BY <1>0, <1>2, <1>6, <1>8 DEF Tree
<1>10. /\ e.frame # 0 => /\ e.frame \notin Spare' \cup {Root} \cup DOMAIN level
                         /\ \A u \in DOMAIN level, j \in Indices : Frame(u, j) # e.frame
       /\ Spare' \subseteq Spare \cup {0, Frame(t, index[p][4])} /\ UNCHANGED level
  BY <1>1, <1>4, <1>6, <1>9
<1> QED BY <1>2, <1>3, <1>4, <1>6, <1>7, <1>10, LeafChanges

(* vmm_unmap_page on a page of the call.                                   *)
LEMMA ClearedKept ==
  ASSUME VmmInv, NEW w \in Virt, w \in op.at .. (op.at + op.n - 1), PageTable(w) # Wild,
         tables' = Cleared(w), UNCHANGED level,
         \/ free' = free
         \/ free' = free \cup ({vmm_get_phys_addr(w)} \ {0, Wild}),
         op'.phys = op.phys, Booked', Walking', InLoop'
  PROVE  Kept
<1> DEFINE t == PageTable(w)
           x == index[w][4]
<1>0. /\ TypeOK /\ Tree /\ Rooted /\ 0 \notin DOMAIN level /\ x \in Indices /\ op.phys \notin free
  BY NoZero, VmmAssumption DEF VmmInv, Tree
<1>1. CASE t = 0
  <2>1. vmm_get_phys_addr(w) = 0 /\ UNCHANGED <<tables, free>>
    BY <1>0, <1>1, Walks DEF Cleared
  <2> QED BY <1>0, <2>1, TablesSame DEF Spare
<1>2. CASE t # 0
  <2>1. /\ t = HwTable(w) /\ t \in DOMAIN level /\ level[t] = 4
        /\ vmm_get_phys_addr(w) \in {Wild, Frame(t, x)}
    BY <1>0, <1>2, Walks, Paths
  <2>2. tables' = [tables EXCEPT ![t][x] = Absent] /\ Absent.frame = 0 /\ Absent \in Entries
    BY <1>2 DEF Cleared, Absent, Entries
  <2> HIDE DEF t, x
  <2>3. Spare' \subseteq Spare \cup {0, Frame(t, x)}
    BY <2>1 DEF Spare
  <2>4. op'.phys \notin free'
    BY <1>0, <2>1 DEF Tree, Spare
  <2> HIDE DEF Absent
  <2> QED BY <2>1, <2>2, <2>3, <2>4, LeafChanges DEF x
<1> QED BY <1>1, <1>2

(* Taking a page back after a failure changes that page only.              *)
LEMMA UndoKept ==
  ASSUME VmmInv, Undo
  PROVE  Kept
<1> DEFINE w == op.at + op.undone
<1>0. /\ Booked /\ InLoop /\ op \in Calls
      /\ op.i \in Counts /\ op.n \in Counts /\ op.undone \in Counts /\ op.at \in Virt /\ VirtPages \in Nat
      /\ op.undone <= op.i /\ op.i <= op.n /\ op.at + op.n - 1 <= VirtPages
  BY VmmAssumption DEF VmmInv, TypeOK, Booked, Calls, Counts
<1>1. op.pc = "undo" /\ UNCHANGED <<level, free, program_break, next_mmap>>
  BY DEF Undo
<1>2. CASE UNCHANGED tables /\ (op' = NoCall \/ op' = [op EXCEPT !.pc = "halted"])
  BY <1>0, <1>1, <1>2, CallStops DEF Booked
<1>3. CASE /\ op.undone < op.i /\ PageTable(w) # Wild /\ tables' = Cleared(w)
           /\ op' = [op EXCEPT !.undone = op.undone + 1]
  <2>1. w \in Virt /\ w \in op.at .. (op.at + op.n - 1) /\ op.undone + 1 \in Counts
    BY <1>0, <1>3 DEF Virt, Counts
  <2>2. /\ op' \in Calls /\ SameCall(op', op) /\ op'.pc = op.pc /\ op'.i = op.i /\ op'.undone = op.undone + 1
        /\ op'.phys = op.phys
    <3> DEFINE u == op.undone + 1
    <3>1. u \in Counts /\ op' = [op EXCEPT !.undone = u]
      BY <1>3, <2>1
    <3> HIDE DEF u
    <3>2. /\ op' \in Calls /\ SameCall(op', op) /\ op'.pc = op.pc /\ op'.i = op.i /\ op'.undone = u
          /\ op'.phys = op.phys
      BY <1>0, <3>1, OpUndone
    <3> QED BY <3>2 DEF u
  <2>3. op'.undone <= op'.i
    BY <1>0, <1>3, <2>2 DEF Counts
  <2>4. Booked' /\ InLoop' /\ Walking'
    BY <1>0, <1>1, <2>2, <2>3 DEF Booked, InLoop, Walking, SameCall
  <2> HIDE DEF w
  <2> QED BY <1>1, <1>3, <2>1, <2>2, <2>4, ClearedKept
<1> QED BY <1>2, <1>3 DEF Undo, Halt

(* Unmapping changes the page at hand only.                                *)
LEMMA UnmapKept ==
  ASSUME VmmInv, UnmapStep
  PROVE  Kept
<1> DEFINE w == UnmapPage
<1>0. /\ Booked /\ InLoop /\ op \in Calls
      /\ op.i \in Counts /\ op.n \in Counts /\ op.undone \in Counts /\ op.at \in Virt /\ VirtPages \in Nat
      /\ op.undone <= op.i /\ op.i <= op.n /\ op.at + op.n - 1 <= VirtPages
  BY VmmAssumption DEF VmmInv, TypeOK, Booked, Calls, Counts
<1>1. op.pc = "unmap" /\ op.i < op.n /\ UNCHANGED <<level, program_break, next_mmap>>
  BY DEF UnmapStep
<1>2. CASE UNCHANGED <<tables, free>> /\ op' = [op EXCEPT !.pc = "halted"]
  BY <1>0, <1>1, <1>2, CallStops DEF Booked
<1>3. CASE /\ PageTable(w) # Wild /\ tables' = Cleared(w)
           /\ free' = free \cup ({vmm_get_phys_addr(w)} \ {0, Wild})
           /\ op' = NextPage("unmap")
  <2>1. w \in Virt /\ w \in op.at .. (op.at + op.n - 1) /\ op.i + 1 \in Counts
    BY <1>0, <1>1 DEF Virt, Counts, UnmapPage, Page
  <2>2. /\ op' \in Calls /\ SameCall(op', op) /\ op'.pc = "unmap" /\ op'.i = op.i + 1 /\ op'.undone = op.undone
        /\ op'.phys = op.phys
    <3> DEFINE j == op.i + 1
    <3>1. j \in Counts /\ op' = Going(op, "unmap", j) /\ "unmap" \in PCs
      BY <1>3, <2>1 DEF NextPage, Going, PCs
    <3> HIDE DEF j
    <3>2. /\ op' \in Calls /\ SameCall(op', op) /\ op'.pc = "unmap" /\ op'.i = j /\ op'.undone = op.undone
          /\ op'.phys = op.phys
      BY <1>0, <3>1, OpNext
    <3> QED BY <3>2 DEF j
  <2>3. op'.undone <= op'.i /\ op'.i <= op'.n
    BY <1>0, <1>1, <2>2 DEF Counts, SameCall
  <2> HIDE DEF w
  <2>4. free' \subseteq Frames
    <3>1. TypeOK /\ Tree /\ Rooted
      BY DEF VmmInv
    <3>2. vmm_get_phys_addr(w) \in Frames \cup {0, Wild}
      <4>1. CASE PageTable(w) = 0
        BY <2>1, <3>1, <4>1, Walks
      <4>2. CASE PageTable(w) # 0
        <5>1. /\ vmm_get_phys_addr(w) \in {Wild, Frame(PageTable(w), index[w][4])}
              /\ PageTable(w) \in DOMAIN level
          BY <1>3, <2>1, <3>1, <4>2, Walks, Paths
        <5>2. index[w][4] \in Indices
          BY <2>1, VmmAssumption
        <5> QED BY <3>1, <5>1, <5>2 DEF TypeOK, Frame, Entries
      <4> QED BY <4>1, <4>2
    <3> QED BY <1>3, <3>1, <3>2 DEF TypeOK
  <2>5. Booked' /\ InLoop' /\ Walking'
    BY <1>0, <1>1, <2>2, <2>3, <2>4 DEF Booked, InLoop, Walking, SameCall
  <2> QED BY <1>1, <1>3, <2>1, <2>2, <2>5, ClearedKept
<1> QED BY <1>2, <1>3 DEF UnmapStep, Halt

----------------------------------------------------------------------------
(* The empty root table satisfies the invariant.                           *)
LEMMA VmmStart == Init => VmmInv
<1> SUFFICES ASSUME Init PROVE VmmInv
  OBVIOUS
<1> USE DEF Init
<1>0. op = NoCall /\ 1 \in Virt /\ VirtPages \in Nat /\ Root # 0 /\ 0 \notin Frames /\ Root \notin Frames
  BY VmmAssumption DEF Virt
<1>1. TypeOK
  <2>1. Empty \in [Indices -> Entries]
    BY DEF Empty, Absent, Entries
  <2>2. op \in Calls /\ op.i <= op.n /\ op.at + op.n - 1 <= VirtPages /\ op.undone <= op.i
    BY <1>0, NoCallIs
  <2>3. next_mmap \in 1..(VirtPages + 1)
    BY VmmAssumption DEF Virt
  <2> QED BY <2>1, <2>2, <2>3 DEF TypeOK
<1>2. \A t \in DOMAIN level, i \in Indices : Frame(t, i) = 0
  BY DEF Frame, Empty, Absent
<1>3. Tree
  BY <1>0, <1>2, NoCallIs DEF Tree, Spare
<1>4. Rooted /\ Walking /\ InLoop
  BY <1>0, NoCallIs DEF Rooted, Walking, InLoop
<1> QED BY <1>1, <1>3, <1>4 DEF VmmInv

(* Every step keeps the invariant and changes only named pages.            *)
LEMMA VmmStep ==
  ASSUME VmmInv, [Next]_vars
  PROVE  Kept
<1>1. CASE UNCHANGED vars
  <2>1. Booked' /\ Walking' /\ InLoop'
    BY <1>1 DEF vars, VmmInv, TypeOK, Booked, Walking, InLoop, At, Table2, Table3, HwTable, HwFollow, Entry, Page
  <2>2. UNCHANGED <<tables, level>> /\ Spare' = Spare /\ op'.phys \notin free'
    BY <1>1 DEF vars, VmmInv, Tree, Spare
  <2> QED BY <2>1, <2>2, TablesSame
<1>2. CASE Progress
  BY <1>2, WalkKept, CreateKept, TakeKept, MapEntryKept, LoopKept, UndoKept, UnmapKept DEF Progress
<1>3. CASE Next /\ ~Progress
  BY <1>3, BeginningKept DEF Next
<1> QED BY <1>1, <1>2, <1>3

(* The invariant holds in every reachable state.                           *)
LEMMA VmmInvariant == Spec => []VmmInv
<1>1. VmmInv /\ [Next]_vars => VmmInv'
  BY VmmStep DEF Kept
<1> QED BY <1>1, VmmStart, PTL DEF Spec

(* vmm.c and the system calls that map: the tables, the frames and the     *)
(* call in progress keep their types, and the loops of sys_brk, sys_mmap,  *)
(* sys_munmap and the loader stay inside the range they were given.        *)
THEOREM VmmTypeCorrect == Spec => []TypeOK
<1>1. VmmInv => TypeOK
  BY DEF VmmInv
<1> QED BY <1>1, VmmInvariant, PTL

(* vmm_map_page, vmm_unmap_page and pmm_free_page in any order, failures   *)
(* included: no frame is ever free and in use, a table and a page, or in   *)
(* two entries.                                                            *)
THEOREM FramesHaveOneUse == Spec => []FramesExclusive
<1>1. VmmInv => FramesExclusive
  BY TreeIs DEF VmmInv
<1> QED BY <1>1, VmmInvariant, PTL

(* A call, whether it succeeds, fails half way or is rolled back, leaves   *)
(* the translation of every page outside its range as it was.              *)
THEOREM CallsTouchOnlyTheirPages == Spec => OnlyNamedPages
<1>1. VmmInv /\ [Next]_vars =>
        [\A v \in Virt : Translate(v)' # Translate(v) => v \in op.at .. (op.at + op.n - 1)]_vars
  BY VmmStep DEF Kept
<1> QED BY <1>1, VmmInvariant, PTL DEF Spec, OnlyNamedPages
=============================================================================
