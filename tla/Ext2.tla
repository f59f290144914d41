-------------------------------- MODULE Ext2 --------------------------------
(***************************************************************************)
(* The ext2 file system, kernel/src/fs/ext2.c: inode and block bitmaps,    *)
(* the in-memory free counts, inodes, the root directory, and the calls    *)
(* that create, delete, read and write files.                              *)
(*                                                                         *)
(* One action is one write to the disk (with the reads before it), so a    *)
(* failing transfer and a power loss can come between any two.  A write    *)
(* that is reported as failed may or may not have reached the disk: the    *)
(* driver also reports a time-out.  malloc failures are failures too.      *)
(*                                                                         *)
(* Every caller in the kernel passes EXT2_ROOT_INO as the directory; the   *)
(* root directory is one block.  Positions and lengths in it are counted   *)
(* in units of four bytes.                                                 *)
(*                                                                         *)
(* The code leaves several ways open to write where it should not.  The    *)
(* model follows each of them, notes it in trouble, and ends (op.pc is     *)
(* "lost") where the bytes that decide what comes next are no longer those *)
(* of a file system.                                                       *)
(***************************************************************************)
EXTENDS Integers, FiniteSets, Sequences, SequencesExt

CONSTANTS
  GroupsCount, InodesPerGroup, BlocksPerGroup, BlocksCount,
  Meta,            \* blocks of superblock, descriptors, bitmaps, inode tables
  RootBlock,       \* the block of the root directory
  Names,
  NameUnits,       \* the length of each name, rounded up to units
  Units,           \* units of a block: 256
  Words,           \* what the first unit of user data can be
  NDirect,         \* direct blocks of an inode, 12
  MaxFaults,       \* bound: failed transfers and power losses
  MaxSurplus,      \* bound: free bits a group counts beyond its size
  MaxOverrun,      \* bound: units a record reaches beyond the block
  MaxTrouble,      \* bound: kinds of trouble with which a corrupt disk is used
  OldName, OldInode, OldBlocks, OldPtr, OldChild  \* a file mkfs left on the disk

Root == 2          \* EXT2_ROOT_INO

(* s_first_data_block: ext2_init has the superblock in block 1 and the     *)
(* descriptors in block 2, which is so with blocks of 1 KiB only.          *)
FirstDataBlock == 1

Groups == 0..(GroupsCount - 1)
Inodes == 1..(GroupsCount * InodesPerGroup)
Blocks == 0..(BlocksCount - 1)
Kinds == {"inode", "block"}
PerGroup(k) == IF k = "inode" THEN InodesPerGroup ELSE BlocksPerGroup
Bits(k) == 0..(PerGroup(k) - 1)

(* Blocks a file can have.                                                 *)
DataBlocks == FirstDataBlock..(BlocksCount - 1) \ Meta

Dot == 3           \* the size of the entries "." and ".."

(* A file system that mkfs makes and ext2_init accepts: the groups_count   *)
(* it computes is right.  "none" stands for no name.                       *)
ASSUME Ext2Assumption ==
  /\ BlocksCount \in Nat /\ InodesPerGroup \in Nat \ {0} /\ BlocksPerGroup \in Nat \ {0}
  /\ GroupsCount = (BlocksCount + BlocksPerGroup - 1) \div BlocksPerGroup
  /\ GroupsCount = (BlocksCount - FirstDataBlock + BlocksPerGroup - 1) \div BlocksPerGroup
  /\ Root \in Inodes /\ NDirect \in Nat \ {0}
  /\ Meta \subseteq FirstDataBlock..(BlocksCount - 1) /\ FirstDataBlock \in Meta
  /\ MaxSurplus \in Nat /\ MaxOverrun \in Nat /\ MaxTrouble \in Nat /\ MaxFaults \in Nat
  /\ Names \cap {"none", ".", ".."} = {} /\ OldName \in Names
  /\ NameUnits \in [Names \cup {".", ".."} -> Nat \ {0}]
  /\ NameUnits["."] = 1 /\ NameUnits[".."] = 1
  /\ Units \in Nat /\ 2 * Dot + 2 + NameUnits[OldName] <= Units
  /\ Words \subseteq Nat
  /\ OldInode \in Inodes \ {1, Root}
  /\ {RootBlock, OldPtr, OldChild} \cup OldBlocks \subseteq DataBlocks
  /\ Cardinality(OldBlocks) = NDirect
  /\ OldPtr # OldChild /\ RootBlock \notin {OldPtr, OldChild}
  /\ {RootBlock, OldPtr, OldChild} \cap OldBlocks = {}

VARIABLES
  bitmap,   \* on disk: kind |-> group |-> the bits that are set
  itable,   \* on disk: the inodes
  content,  \* on disk: what is in each block
  count,    \* in memory: bg_free_inodes_count and bg_free_blocks_count
  mounted,  \* ext2_instance is not NULL
  op,       \* the call in progress
  trouble,  \* what has gone wrong since the disk was made
  faults    \* and how many times

wrong == <<trouble, faults>>
disk == <<bitmap, itable, content>>
vars == <<disk, count, mounted, op, wrong>>

(* A directory block: where an entry starts, the entry.                    *)
NoEntry == [name |-> "none", ino |-> -1, rec |-> 0]
Entry(name, ino, rec) == [name |-> name, ino |-> ino, rec |-> rec]
NoDir == [s \in 0..(Units - 1) |-> NoEntry]

(* A block: its entries and the end of what was ever written, should it be *)
(* a directory; its units up to the first that is zero, should it be a     *)
(* pointer block; the file whose data it has; whether it is a superblock.  *)
Zero == [dir |-> NoDir, high |-> 0, words |-> <<>>, owner |-> 0, super |-> FALSE]

(* The first unit of a superblock is s_inodes_count.                       *)
Super == [Zero EXCEPT !.super = TRUE, !.words = <<GroupsCount * InodesPerGroup>>]

UserData(ino, w) == [Zero EXCEPT !.owner = ino, !.words = IF w = 0 THEN <<>> ELSE <<w>>]

(* i_block: NDirect direct blocks, then single, double, triple indirect.   *)
NoBlocks == [i \in 1..(NDirect + 3) |-> 0]
Fresh(isdir) == [isdir |-> isdir, size |-> 0, block |-> NoBlocks]

NoCall == [pc |-> "idle", name |-> "none", isdir |-> FALSE, ino |-> 0, g |-> 0,
           blk |-> 0, todo |-> <<>>]

(* The bit of a block or an inode, and its group, as the format has it.    *)
BitOf(b) == (b - FirstDataBlock) % BlocksPerGroup
GroupOf(b) == (b - FirstDataBlock) \div BlocksPerGroup
InodeBit(i) == (i - 1) % InodesPerGroup
InodeGroup(i) == (i - 1) \div InodesPerGroup

UsedAtFirst ==
  Meta \cup {RootBlock} \cup OldBlocks \cup {OldPtr, OldChild}

(* What mkfs leaves: metadata, padding and one file are marked.  ext2_init *)
(* finds a superblock only on a disk that has a copy of it in block 0: the *)
(* first read is made with block_size 0, which is the first sector.        *)
MkfsMarks(k, g, bit) ==
  IF k = "inode" THEN g * InodesPerGroup + bit + 1 \in {1, Root, OldInode}
  ELSE LET b == g * BlocksPerGroup + bit + FirstDataBlock
       IN b \in UsedAtFirst \/ b \notin Blocks

MkfsBitmap ==
  [k \in Kinds |-> [g \in Groups |-> {bit \in Bits(k) : MkfsMarks(k, g, bit)}]]

MkfsCount ==
  [k \in Kinds |-> [g \in Groups |-> PerGroup(k) - Cardinality(MkfsBitmap[k][g])]]

MkfsDir == [NoDir EXCEPT ![0] = Entry(".", Root, Dot), ![Dot] = Entry("..", Root, Dot),
                         ![2 * Dot] = Entry(OldName, OldInode, Units - 2 * Dot)]

Init ==
  /\ bitmap = MkfsBitmap
  /\ itable = [i \in Inodes |->
       IF i = Root THEN [isdir |-> TRUE, size |-> 1, block |-> [NoBlocks EXCEPT ![1] = RootBlock]]
       ELSE IF i = OldInode
       THEN [isdir |-> FALSE, size |-> NDirect + 1,
             block |-> [j \in 1..(NDirect + 3) |->
                          IF j <= NDirect THEN SetToSeq(OldBlocks)[j]
                          ELSE IF j = NDirect + 1 THEN OldPtr ELSE 0]]
       ELSE Fresh(FALSE)]
  /\ content = [b \in Blocks |->
       IF b = RootBlock
       THEN [Zero EXCEPT !.dir = MkfsDir, !.words = <<Root>>,
                         !.high = 2 * Dot + 2 + NameUnits[OldName]]
       ELSE IF b = OldPtr THEN [Zero EXCEPT !.words = <<OldChild>>]
       ELSE IF b = 0 THEN Super ELSE Zero]
  /\ count = MkfsCount
  /\ mounted = FALSE
  /\ op = NoCall
  /\ trouble = {} /\ faults = 0

----------------------------------------------------------------------------
(* Looking things up.                                                      *)

(* The entries of a directory block are walked in order.                   *)
Used(d) == {s \in 0..(Units - 1) : d[s] # NoEntry}

FirstSlot(hits) == IF hits = {} THEN -1 ELSE CHOOSE s \in hits : \A t \in hits : s <= t

RootDir == content[itable[Root].block[1]].dir

ext2_find_file(name) ==
  LET s == FirstSlot({t \in Used(RootDir) : RootDir[t].name = name /\ RootDir[t].ino # 0})
  IN IF s = -1 THEN 0 ELSE RootDir[s].ino

(* Block number n of a file: direct, then through the pointer block.  A    *)
(* block that was never allocated is number 0, and a pointer block that    *)
(* was never allocated is block 0, whatever that holds.                    *)
InodeBlock(inode, n) ==
  LET p == content[inode.block[NDirect + 1]].words
  IN IF n < NDirect THEN inode.block[n + 1]
     ELSE IF n - NDirect < Len(p) THEN p[n - NDirect + 1] ELSE 0

ext2_read_file(ino, n) == content[InodeBlock(itable[ino], n)].owner

(* The blocks ext2_delete_file frees, in its order: the direct blocks up   *)
(* to the first that is none, and of a pointer block the blocks it names,  *)
(* then itself.  A pointer block in bad cannot be read.                    *)
UpToZero(s) ==
  LET z == {i \in 1..Len(s) : s[i] = 0}
  IN IF z = {} THEN s ELSE SubSeq(s, 1, (CHOOSE i \in z : \A j \in z : i <= j) - 1)

Named(b, bad) == IF b \in bad \/ b \notin Blocks THEN <<>> ELSE content[b].words

FreeOrder(inode, bad) ==
  LET single(b) == Named(b, bad) \o <<b>>
      double(b) == FlattenSeq([i \in 1..Len(Named(b, bad)) |-> single(Named(b, bad)[i])]) \o <<b>>
      triple(b) == FlattenSeq([i \in 1..Len(Named(b, bad)) |-> double(Named(b, bad)[i])]) \o <<b>>
      from(k, free(_)) ==
        IF inode.block[NDirect + k] = 0 THEN <<>> ELSE free(inode.block[NDirect + k])
  IN UpToZero(SubSeq(inode.block, 1, NDirect)) \o from(1, single) \o from(2, double) \o from(3, triple)

----------------------------------------------------------------------------
(* Outcomes of a transfer.                                                 *)

Fault(kinds) ==
  /\ faults < MaxFaults /\ faults' = faults + 1
  /\ trouble' = trouble \cup kinds
Failed == Fault({"io"})
Fine == UNCHANGED wrong

Note(kinds) == trouble' = trouble \cup kinds /\ UNCHANGED faults

(* A block that holds more than one file's data.                           *)
Vital(b) == b \in Meta \cup {RootBlock}

(* Such a block is overwritten.                                            *)
Lost(kinds) ==
  /\ Note(kinds)
  /\ op' = [op EXCEPT !.pc = "lost"]
  /\ UNCHANGED <<disk, count, mounted>>

LostBy(b, kinds) == Lost(kinds \cup {IF b \in Meta THEN "meta" ELSE "torn"})

(* A call begins.                                                          *)
Begins ==
  /\ mounted /\ op.pc = "idle"
  /\ trouble \cap {"shifted", "stray"} = {} \/ Cardinality(trouble) <= MaxTrouble

Return == op' = NoCall
Go(pc) == op' = [op EXCEPT !.pc = pc]

----------------------------------------------------------------------------
(* The bitmaps.                                                            *)

ZeroBits(k, g) == Bits(k) \ bitmap[k][g]

UpTo(S, bit) == {i \in S : i <= bit}

NumberOf(k, g, bit) ==
  IF k = "inode" THEN g * InodesPerGroup + bit + 1 ELSE g * BlocksPerGroup + bit

(* A block is given the number of the one before it: bit 0 is the first    *)
(* data block.                                                             *)
Misnumbered(k) == IF k = "block" THEN {"shifted"} ELSE {}

GroupHasFree_by_bitmap(k, g) == ZeroBits(k, g) # {}

GroupHasFree(k, g) == count[k][g] # 0 /\ ZeroBits(k, g) # {}

(* What comes next; block number 0 counts as none.                         *)
NextPc(k, number) ==
  IF k = "inode" THEN "write_inode" ELSE IF number = 0 THEN "undo" ELSE "dir_block"

(* One group of ext2_allocate_inode or ext2_allocate_block.  A bitmap that *)
(* cannot be written leads to the next bit, with the bits tried before set *)
(* in the buffer; the first bit whose bitmap is written is taken.          *)
AllocTakes(k, g, bit) ==
  LET tried == UpTo(ZeroBits(k, g), bit)
      number == NumberOf(k, g, bit)
      next == NextPc(k, number)
  IN /\ GroupHasFree(k, g)
     /\ bitmap' = [bitmap EXCEPT ![k][g] = @ \cup tried]
     /\ count' = [count EXCEPT ![k][g] = @ - 1]
     /\ IF tried = {bit} THEN Note(Misnumbered(k)) ELSE Fault({"io"} \cup Misnumbered(k))
     /\ op' = IF k = "inode" THEN [op EXCEPT !.pc = next, !.ino = number]
              ELSE [op EXCEPT !.pc = next, !.blk = number]

(* Nothing free here by the count or by the bitmap, or no transfer works,  *)
(* though one reported as failed may have reached the disk: the next       *)
(* group's turn.  Without memory for the bitmap the search ends.           *)
AllocSkips(k, g) ==
  \/ /\ ~GroupHasFree(k, g) /\ UNCHANGED bitmap /\ Fine
     /\ op' = [op EXCEPT !.g = g + 1]
  \/ /\ count[k][g] # 0 /\ Failed
     /\ \E bit \in ZeroBits(k, g) \cup {-1} :
          bitmap' = [bitmap EXCEPT ![k][g] = @ \cup UpTo(ZeroBits(k, g), bit)]
     /\ op' = [op EXCEPT !.g = g + 1]
  \/ /\ count[k][g] # 0 /\ UNCHANGED bitmap /\ Failed
     /\ op' = [op EXCEPT !.g = GroupsCount]

(* free_inode_bitmap, and the bitmap part of ext2_free_block.              *)
FreeBit_uncounted(k, g, bit, ok) ==
  bitmap' = [bitmap EXCEPT ![k][g] = @ \ {bit}] /\ UNCHANGED count /\ ok

FreeBit(k, g, bit, ok) ==
  LET written == [bitmap EXCEPT ![k][g] = @ \ {bit}]
  IN IF ok THEN bitmap' = written /\ count' = [count EXCEPT ![k][g] = @ + 1]
     ELSE bitmap' \in {bitmap, written} /\ UNCHANGED count

free_inode_bitmap(ino) ==
  \E ok \in BOOLEAN :
    /\ FreeBit("inode", InodeGroup(ino), InodeBit(ino), ok)
    /\ IF ok THEN Fine ELSE Failed

ext2_free_block_from_zero(b) ==
  /\ FreeBit("block", b \div BlocksPerGroup, b % BlocksPerGroup, TRUE)
  /\ content' = [content EXCEPT ![b] = Zero] /\ Fine

(* The freed block is zeroed, and nobody asks whether that worked.         *)
ext2_free_block(b) ==
  LET zeroed == [content EXCEPT ![b] = Zero]
  IN \/ /\ b \notin FirstDataBlock..(BlocksCount - 1)
        /\ UNCHANGED <<bitmap, count, content, wrong>>
     \/ /\ b \in FirstDataBlock..(BlocksCount - 1)
        /\ \/ FreeBit("block", GroupOf(b), BitOf(b), FALSE) /\ UNCHANGED content /\ Failed
           \/ /\ FreeBit("block", GroupOf(b), BitOf(b), TRUE)
              /\ \/ content' = zeroed /\ Fine
                 \/ UNCHANGED content /\ Failed

----------------------------------------------------------------------------
(* ext2_create_file.                                                       *)

(* Long and short names in turn lengthen the last record for ever: this is *)
(* where it is bounded.                                                    *)
RecordsBounded == \A s \in Used(RootDir) : s + RootDir[s].rec <= Units + MaxOverrun

ext2_create_file_unchecked(name, isdir) ==
  /\ Begins /\ RecordsBounded /\ Fine
  /\ op' = [NoCall EXCEPT !.pc = "inode", !.name = name, !.isdir = isdir]
  /\ UNCHANGED <<disk, count, mounted>>

ext2_create_file(name, isdir) ==
  /\ Begins /\ RecordsBounded
  /\ \/ ext2_find_file(name) # 0 /\ UNCHANGED op /\ Fine
     \/ /\ \/ ext2_find_file(name) = 0 /\ Fine
           \/ Failed
        /\ op' = [NoCall EXCEPT !.pc = "inode", !.name = name, !.isdir = isdir]
  /\ UNCHANGED <<disk, count, mounted>>

Allocate ==
  /\ op.pc \in Kinds
  /\ \/ op.g < GroupsCount /\ \E bit \in ZeroBits(op.pc, op.g) : AllocTakes(op.pc, op.g, bit)
     \/ op.g < GroupsCount /\ AllocSkips(op.pc, op.g) /\ UNCHANGED count
     \/ /\ op.g = GroupsCount
        /\ IF op.pc = "inode" THEN Return /\ Fine
           ELSE Go("undo") /\ Note({"full"})
        /\ UNCHANGED <<bitmap, count>>
  /\ UNCHANGED <<itable, content, mounted>>

WriteInode ==
  /\ op.pc = "write_inode"
  /\ LET written == [itable EXCEPT ![op.ino] = Fresh(op.isdir)]
     IN \/ itable' = written /\ Fine /\ Go("entry")
        \/ itable' \in {itable, written} /\ Failed /\ Go("undo")
  /\ UNCHANGED <<bitmap, content, count, mounted>>

(* ext2_create_directory_entry: the first entry with slack is split.  The  *)
(* test leaves the eight bytes of one head out, and the new length is what *)
(* remains after the new entry, not after the old one.                     *)
Size(name) == 2 + NameUnits[name]

HasSlack(d, s, name) == d[s].rec >= Size(name) + NameUnits[d[s].name]

NewAt(d, s) == s + Size(d[s].name)
NewRec(d, s, name) == d[s].rec - Size(name)

Split(d, s, name, ino) ==
  [d EXCEPT ![s].rec = Size(d[s].name), ![NewAt(d, s)] = Entry(name, ino, NewRec(d, s, name))]

(* The new entry is written over the next one or over the heap behind the  *)
(* block, or the walk goes on, after the new entry, where no entry starts. *)
(* A walk that meets zeroes ends there.                                    *)
Torn(d, high, s, name) ==
  LET end == NewAt(d, s) + Size(name)
      follow == NewAt(d, s) + NewRec(d, s, name)
      later == {t \in Used(d) : t > s}
  IN \/ end > Units
     \/ later # {} /\ (end > FirstSlot(later) \/ follow # FirstSlot(later))
     \/ later = {} /\ (follow < end \/ follow < high \/ follow = Units - 1)

Uneven(d, s, name) == IF NameUnits[d[s].name] = NameUnits[name] THEN {} ELSE {"uneven"}

(* The root's i_blocks counts sectors, two for its one block: unless the   *)
(* entry was written, the same is tried with i_block[1], which is block 0. *)
(* Whether that looks like a directory with room is up to its bytes.       *)
IntoBlockZero(c) == content' \in {c, [c EXCEPT ![0].super = FALSE]}

EntryMade == IF op.isdir THEN op' = [op EXCEPT !.pc = "block", !.g = 0] ELSE Return

ext2_create_directory_entry ==
  LET root == itable[Root].block[1]
      d == RootDir
      high == content[root].high
      s == FirstSlot({t \in Used(d) : HasSlack(d, t, op.name)})
      end == NewAt(d, s) + Size(op.name)
      written == [content EXCEPT ![root].dir = Split(d, s, op.name, op.ino),
                                 ![root].high = IF high < end THEN end ELSE high]
  IN /\ op.pc = "entry"
     /\ \/ s = -1 /\ UNCHANGED content /\ Fine /\ Go("undo")
        \/ s = -1 /\ IntoBlockZero(content) /\ Note({"full"}) /\ EntryMade
        \/ /\ s # -1 /\ ~Torn(d, high, s, op.name)
           /\ \/ content' = written /\ Note(Uneven(d, s, op.name)) /\ EntryMade
              \/ content' \in {content, written} /\ Failed /\ Go("undo")
              \/ /\ \E c \in {content, written} : IntoBlockZero(c)
                 /\ Failed /\ EntryMade
     /\ UNCHANGED <<bitmap, itable, count, mounted>>

EntryTorn ==
  LET d == RootDir
      s == FirstSlot({t \in Used(d) : HasSlack(d, t, op.name)})
  IN /\ op.pc = "entry"
     /\ s # -1 /\ Torn(d, content[itable[Root].block[1]].high, s, op.name)
     /\ Lost({"torn"})

(* The block with "." and ".." of a new directory; its i_block and i_size. *)
WriteDirBlock ==
  LET written == [content EXCEPT ![op.blk] =
        [Zero EXCEPT !.words = <<op.ino>>, !.high = 2 * Dot,
                     !.dir = [NoDir EXCEPT ![0] = Entry(".", op.ino, Dot),
                                           ![Dot] = Entry("..", Root, Units - Dot)]]]
  IN /\ op.pc = "dir_block"
     /\ \/ Vital(op.blk) /\ LostBy(op.blk, {})
        \/ /\ ~Vital(op.blk)
           /\ \/ content' = written /\ Fine /\ Go("dir_inode")
              \/ content' \in {content, written} /\ Failed /\ Go("undo_block")
           /\ UNCHANGED <<bitmap, itable, count, mounted>>

WriteDirInode ==
  /\ op.pc = "dir_inode"
  /\ LET written == [itable EXCEPT ![op.ino].block[1] = op.blk, ![op.ino].size = 1]
     IN \/ itable' = written /\ Fine
        \/ itable' \in {itable, written} /\ Failed
  /\ Return
  /\ UNCHANGED <<bitmap, content, count, mounted>>

UndoBlock ==
  /\ op.pc = "undo_block"
  /\ ext2_free_block(op.blk)
  /\ Go("undo")
  /\ UNCHANGED <<itable, mounted>>

UndoInode ==
  /\ op.pc = "undo"
  /\ free_inode_bitmap(op.ino)
  /\ Return
  /\ UNCHANGED <<itable, content, mounted>>

----------------------------------------------------------------------------
(* ext2_delete_file.                                                       *)

(* An entry that outlived its inode can be deleted for ever, and each time *)
(* raises the counts: this is where they are bounded.                      *)
CountsBounded == \A k \in Kinds, g \in Groups : count[k][g] <= PerGroup(k) + MaxSurplus

ext2_delete_file(name) ==
  LET ino == ext2_find_file(name)
  IN /\ Begins /\ CountsBounded
     /\ \/ Failed /\ UNCHANGED op
        \/ ino = 0 /\ Fine /\ UNCHANGED op
        \/ ino # 0 /\ itable[ino].isdir /\ itable[ino].size > 1 /\ Fine /\ UNCHANGED op
        \/ /\ ino # 0 /\ ~(itable[ino].isdir /\ itable[ino].size > 1)
           /\ \E bad \in SUBSET {b \in Blocks : content[b].words # <<>>} :
                /\ op' = [NoCall EXCEPT !.pc = "free_blocks", !.name = name, !.ino = ino,
                                        !.todo = FreeOrder(itable[ino], bad)]
                /\ IF bad = {} THEN Fine ELSE Failed
     /\ UNCHANGED <<disk, count, mounted>>

FreeBlocks ==
  /\ op.pc = "free_blocks" /\ op.todo # <<>>
  /\ LET b == Head(op.todo)
     IN \/ Vital(b) /\ LostBy(b, {})
        \/ /\ ~Vital(b) /\ ext2_free_block(b)
           /\ op' = [op EXCEPT !.todo = Tail(op.todo)]
           /\ UNCHANGED <<itable, mounted>>

FreeInode ==
  /\ op.pc = "free_blocks" /\ op.todo = <<>>
  /\ free_inode_bitmap(op.ino)
  /\ Go("remove")
  /\ UNCHANGED <<itable, content, mounted>>

(* The entry is merged into the one before it; a first one is marked.      *)
Merge(d, s) ==
  LET before == {t \in Used(d) : t < s}
      prev == CHOOSE t \in before : \A u \in before : u <= t
  IN IF before = {} THEN [d EXCEPT ![s].ino = 0]
     ELSE [d EXCEPT ![prev].rec = @ + d[s].rec, ![s] = NoEntry]

RemoveEntry ==
  LET d == RootDir
      s == FirstSlot({t \in Used(d) : d[t].ino = op.ino})
      written == IF s = -1 THEN content
                 ELSE [content EXCEPT ![itable[Root].block[1]].dir = Merge(d, s)]
  IN /\ op.pc = "remove"
     /\ \/ content' = written /\ Fine
        \/ content' \in {content, written} /\ Failed
     /\ Return
     /\ UNCHANGED <<bitmap, itable, count, mounted>>

----------------------------------------------------------------------------
(* ext2_write_file for one block: only the first and the last block of a   *)
(* larger write are read before.  It allocates nothing.  A file that has   *)
(* become longer gets its new size with a write of its own.                *)

(* Written where it should not: to block 0, or to a block whose number was *)
(* found in block 0.                                                       *)
Misplaced(inode, n) ==
  IF InodeBlock(inode, n) = 0 THEN {"boot"}
  ELSE IF n >= NDirect /\ inode.block[NDirect + 1] = 0 THEN {"stray"} ELSE {}

ext2_write_file(ino, n, w) ==
  LET b == InodeBlock(itable[ino], n)
      wrongs == Misplaced(itable[ino], n)
      written == [content EXCEPT ![b] = UserData(ino, w)]
  IN /\ Begins
     /\ \/ b \in Blocks /\ Vital(b) /\ LostBy(b, wrongs)
        \/ /\ b \in Blocks => ~Vital(b)
           /\ \/ b \notin Blocks /\ UNCHANGED content /\ Fine /\ Return
              \/ /\ b \in Blocks /\ content' = written /\ Note(wrongs)
                 /\ op' = IF n < itable[ino].size THEN NoCall
                          ELSE [NoCall EXCEPT !.pc = "grow", !.ino = ino, !.todo = <<n + 1>>]
              \/ UNCHANGED content /\ Failed /\ Return
              \/ b \in Blocks /\ content' = written /\ Fault({"io"} \cup wrongs) /\ Return
           /\ UNCHANGED <<bitmap, itable, count, mounted>>

GrowFile ==
  /\ op.pc = "grow"
  /\ LET grown == [itable EXCEPT ![op.ino].size = Head(op.todo)]
     IN \/ itable' = grown /\ Fine
        \/ itable' \in {itable, grown} /\ Failed
  /\ Return
  /\ UNCHANGED <<bitmap, content, count, mounted>>

----------------------------------------------------------------------------
(* The power goes away; ext2_init mounts again, if block 0 has the magic   *)
(* number.  It writes the superblock to block 1; no call ever writes the   *)
(* counts back, so the disk still has those of mkfs, and descriptors that  *)
(* pass the checks.                                                        *)

PowerLoss ==
  /\ mounted /\ op.pc # "lost"
  /\ mounted' = FALSE /\ op' = NoCall
  /\ Fault({"restart"})
  /\ UNCHANGED <<disk, count>>

ext2_init ==
  /\ ~mounted
  /\ \/ content[0].super /\ itable[Root].isdir /\ mounted' = TRUE /\ count' = MkfsCount /\ Fine
     \/ ~content[0].super /\ UNCHANGED <<mounted, count>> /\ Fine
     \/ Failed /\ UNCHANGED <<mounted, count>>
  /\ UNCHANGED <<disk, op>>

----------------------------------------------------------------------------
Next ==
  \/ \E name \in Names : \/ \E isdir \in BOOLEAN : ext2_create_file(name, isdir)
                         \/ ext2_delete_file(name)
                         \/ ext2_find_file(name) # 0 /\ \E n \in 0..NDirect :
                              \E w \in Words : ext2_write_file(ext2_find_file(name), n, w)
  \/ Allocate \/ WriteInode \/ ext2_create_directory_entry \/ EntryTorn
  \/ WriteDirBlock \/ WriteDirInode \/ UndoBlock \/ UndoInode
  \/ FreeBlocks \/ FreeInode \/ RemoveEntry \/ GrowFile
  \/ PowerLoss \/ ext2_init

Spec == Init /\ [][Next]_vars

----------------------------------------------------------------------------
Entries == [name : Names \cup {".", "..", "none"}, ino : Inodes \cup {0, -1}, rec : Nat]

(* The variables have their types; no count has run below zero.            *)
TypeOK ==
  /\ \A k \in Kinds : bitmap[k] \in [Groups -> SUBSET Bits(k)]
  /\ itable \in [Inodes -> [isdir : BOOLEAN, size : 0..(NDirect + 1),
                            block : [1..(NDirect + 3) -> Blocks]]]
  /\ \A b \in Blocks : content[b].dir \in [0..(Units - 1) -> Entries]
  /\ \A k \in Kinds : count[k] \in [Groups -> Nat]
  /\ mounted \in BOOLEAN /\ faults \in 0..MaxFaults
  /\ trouble \subseteq {"io", "full", "restart", "shifted", "boot", "stray", "uneven", "torn", "meta"}
  /\ op.ino \in Inodes \cup {0} /\ op.blk \in Blocks /\ op.g \in 0..GroupsCount

(* Whatever fails and whenever the power goes, wherever user data lands in *)
(* block 0 and whatever becomes of the root directory: the superblock,     *)
(* descriptors, bitmaps and inode tables stay marked and nothing zeroes or *)
(* overwrites them.  The two ways to reach them are a directory's block,   *)
(* which ext2_allocate_block numbers one too low, and a block number found *)
(* in block 0.                                                             *)
MetadataSafe ==
  trouble \cap {"shifted", "stray"} = {} =>
    /\ "meta" \notin trouble
    /\ \A b \in Meta : BitOf(b) \in bitmap["block"][GroupOf(b)]

(* What the code does to itself without any failure, and survives: user    *)
(* data in block 0, and records that no longer end where the block ends.   *)
Sound == trouble \subseteq {"boot", "uneven"}

(* Then the count of each group, by which the allocator decides whether to *)
(* look at all, is the number of zero bits: no call frees a bit that is    *)
(* clear or takes one that is set.                                         *)
CountsExact ==
  Sound => \A k \in Kinds, g \in Groups : count[k][g] = Cardinality(ZeroBits(k, g))

FilesOf(d) == {s \in Used(d) : d[s].name \in Names}
TreeOf(i) == Range(FreeOrder(itable[i], {}))

(* Block n of a file, and the way to it, was allocated.                    *)
Allocated(inode, n) == inode.block[IF n < NDirect THEN n + 1 ELSE NDirect + 1] # 0

(* The entries of a directory do not overlap and stay inside the block.    *)
EntriesFit(d) ==
  \A s \in Used(d) : /\ s + Size(d[s].name) <= Units
                     /\ \A t \in Used(d) : s < t => s + Size(d[s].name) <= t

(* Each record ends where the next one starts, the last at the block's end.*)
RecordsTile(d) ==
  \A s \in Used(d) : /\ s + d[s].rec \in Used(d) \cup {Units}
                     /\ \A t \in Used(d) : s < t => s + d[s].rec <= t

(* Then the disk passes a file system check between calls: entries do not  *)
(* overlap and, if all names had the same length, their records tile the   *)
(* block; names and inodes of the directory are unique; exactly the named  *)
(* inodes and their blocks are marked, no block has two owners, and an     *)
(* allocated block of a file reads as what was written to that file.       *)
FsckClean ==
  Sound /\ op.pc = "idle" =>
    LET d == RootDir
        named == {d[s].ino : s \in FilesOf(d)}
    IN /\ EntriesFit(d) /\ ("uneven" \notin trouble => RecordsTile(d))
       /\ \A s, t \in FilesOf(d) : s # t => d[s].name # d[t].name /\ d[s].ino # d[t].ino
       /\ \A i, j \in named : i # j => TreeOf(i) \cap TreeOf(j) = {}
       /\ \A i \in named, n \in 0..NDirect :
            Allocated(itable[i], n) /\ InodeBlock(itable[i], n) # 0 =>
              ext2_read_file(i, n) \in {0, i}
       /\ \A i \in Inodes : InodeBit(i) \in bitmap["inode"][InodeGroup(i)] <=> i \in named \cup {1, Root}
       /\ \A b \in FirstDataBlock..(BlocksCount - 1) :
            BitOf(b) \in bitmap["block"][GroupOf(b)]
              <=> b \in Meta \cup {RootBlock} \cup UNION {TreeOf(i) : i \in named}

=============================================================================
