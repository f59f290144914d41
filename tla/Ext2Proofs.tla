----------------------------- MODULE Ext2Proofs -----------------------------
(***************************************************************************)
(* Proofs about Ext2, for every geometry with blocks of 1 KiB.             *)
(*                                                                         *)
(* DiskInv is the type part and holds whatever the code does.  MetaInv     *)
(* adds what keeps the metadata out of reach as long as no block number    *)
(* came from ext2_allocate_block or from block 0: every number a call, an  *)
(* inode or a pointer block has is one that mkfs put there.                *)
(***************************************************************************)
EXTENDS Ext2, FiniteSetTheorems, SequenceTheorems, TLAPS

----------------------------------------------------------------------------
(* Groups and bits.                                                        *)

(* Multiplication is monotonic.                                            *)
LEMMA Times ==
  ASSUME NEW P \in Nat, NEW a \in Nat, NEW b \in Nat, a < b
  PROVE  a * P \in Nat /\ b * P \in Nat /\ a * P + P <= b * P
<1>1. (b - a) \in Nat /\ b - a >= 1
  OBVIOUS
<1>2. (b - a) * P >= P
  BY <1>1, SMTT(30)
<1>3. b * P = a * P + (b - a) * P
  BY SMTT(30)
<1>4. a * P \in Nat /\ b * P \in Nat
  BY SMTT(30)
<1>5. (b - a) * P \in Int
  BY <1>1, SMTT(30)
<1> QED BY <1>2, <1>3, <1>4, <1>5

(* Division with remainder.                                                *)
LEMMA DivMod ==
  ASSUME NEW P \in Nat \ {0}, NEW x \in Nat
  PROVE  /\ x \div P \in Nat /\ x % P \in 0..(P - 1)
         /\ x = (x \div P) * P + (x % P) /\ (x \div P) * P \in Nat
<1> DEFINE q == x \div P
           r == x % P
<1>1. r \in 0..(P - 1)
  BY SMTT(30)
<1>2. q \in Int /\ q >= 0
  BY SMTT(30)
<1>3. x = q * P + r
  BY <1>1, <1>2, SMTT(30)
<1>4. q * P \in Nat
  BY <1>2, SMTT(30)
<1> HIDE DEF q, r
<1>5. q \in Nat
  BY <1>2
<1> QED BY <1>1, <1>3, <1>4, <1>5, Zenon DEF q, r

(* There is one quotient and one remainder.                                *)
LEMMA DivModUnique ==
  ASSUME NEW P \in Nat \ {0}, NEW g \in Nat, NEW bit \in 0..(P - 1)
  PROVE  /\ g * P + bit \in Nat
         /\ (g * P + bit) \div P = g /\ (g * P + bit) % P = bit
<1>1. bit \in Nat /\ bit < P
  OBVIOUS
<1>2. g * P + bit \in Nat
  BY <1>1, SMTT(30)
<1>3. (g * P + bit) \div P = g
  BY <1>1, SMTT(30)
<1>4. (g * P + bit) % P = bit
  BY <1>1, SMTT(30)
<1> QED BY <1>2, <1>3, <1>4

(* Numbers below N * P are those of N groups of P.                         *)
LEMMA Grouped ==
  ASSUME NEW P \in Nat \ {0}, NEW N \in Nat, NEW x \in Nat, x < N * P
  PROVE  x \div P \in 0..(N - 1) /\ x % P \in 0..(P - 1) /\ x = (x \div P) * P + (x % P)
<1>0. PICK q, r : q = x \div P /\ r = x % P
  OBVIOUS
<1>1. q \in Nat /\ r \in 0..(P - 1) /\ x = q * P + r /\ q * P \in Nat
  BY <1>0, DivMod
<1>2. ~(N <= q)
  <2>1. ASSUME N <= q PROVE FALSE
    <3>1. N * P \in Nat
      BY SMTT(30)
    <3>2. N * P <= q * P
      <4>1. CASE N = q BY <4>1, <1>1
      <4>2. CASE N < q
        BY <4>2, <1>1, Times, <3>1
      <4> QED BY <2>1, <1>1, <4>1, <4>2
    <3> QED BY <1>1, <3>1, <3>2
  <2> QED BY <2>1
<1>3. q \in 0..(N - 1)
  BY <1>1, <1>2
<1> QED BY <1>0, <1>1, <1>3, Zenon

(* The number of a place is below N * P.                                   *)
LEMMA Below ==
  ASSUME NEW P \in Nat \ {0}, NEW N \in Nat, NEW g \in 0..(N - 1), NEW bit \in 0..(P - 1)
  PROVE  g * P + bit \in Nat /\ g * P + bit < N * P
<1>1. g \in Nat /\ g < N /\ P \in Nat
  OBVIOUS
<1>2. g * P \in Nat /\ N * P \in Nat /\ g * P + P <= N * P
  BY <1>1, Times
<1> QED BY <1>2

(* There are as many groups as the blocks need.                            *)
LEMMA GroupsSuffice ==
  /\ GroupsCount \in Nat
  /\ BlocksCount <= GroupsCount * BlocksPerGroup
  /\ GroupsCount * BlocksPerGroup \in Nat
<1> DEFINE x == BlocksCount + BlocksPerGroup - 1
<1>0. PICK r : r = x % BlocksPerGroup
  OBVIOUS
<1>1. BlocksCount \in Nat /\ BlocksPerGroup \in Nat \ {0} /\ x \in Nat
  BY Ext2Assumption
<1>2. GroupsCount = x \div BlocksPerGroup
  BY Ext2Assumption
<1>3. x = BlocksCount + BlocksPerGroup - 1
  OBVIOUS
<1> HIDE DEF x
<1>4. /\ GroupsCount \in Nat /\ r \in 0..(BlocksPerGroup - 1)
      /\ x = GroupsCount * BlocksPerGroup + r /\ GroupsCount * BlocksPerGroup \in Nat
  BY <1>0, <1>1, <1>2, DivMod
<1> QED BY <1>1, <1>3, <1>4

----------------------------------------------------------------------------
(* Where the bit of an inode and of a block is.                            *)

(* The blocks that have a bit.                                             *)
Kept == FirstDataBlock..(BlocksCount - 1)

(* What Ext2Assumption says of the geometry.                               *)
LEMMA Sizes ==
  /\ BlocksCount \in Nat /\ BlocksPerGroup \in Nat \ {0} /\ InodesPerGroup \in Nat \ {0}
  /\ GroupsCount \in Nat /\ FirstDataBlock = 1 /\ NDirect \in Nat \ {0}
  /\ \A k \in Kinds : PerGroup(k) \in Nat \ {0}
  /\ PerGroup("inode") = InodesPerGroup /\ PerGroup("block") = BlocksPerGroup
  /\ "inode" \in Kinds /\ "block" \in Kinds /\ "inode" # "block"
BY Ext2Assumption, GroupsSuffice DEF PerGroup, Kinds, FirstDataBlock

(* What has a bit is a block; so is the number before it, which is the one *)
(* ext2_allocate_block gives.                                              *)
LEMMA KeptFacts ==
  /\ Kept \subseteq Blocks /\ DataBlocks \subseteq Kept /\ Meta \subseteq Kept
  /\ \A n \in Nat : n + FirstDataBlock \in Kept => n \in Blocks
  /\ 0 \in Blocks /\ 0 \notin Kept /\ Blocks \subseteq Nat
<1>1. FirstDataBlock \in Meta /\ Meta \subseteq FirstDataBlock..(BlocksCount - 1)
  BY Ext2Assumption
<1>2. FirstDataBlock \in FirstDataBlock..(BlocksCount - 1)
  BY <1>1
<1> QED BY <1>1, <1>2, Sizes DEF Kept, DataBlocks, Blocks

(* What it says of directories.                                            *)
LEMMA DirSizes ==
  /\ Units \in Nat /\ 2 * Dot + 2 + NameUnits[OldName] <= Units
  /\ Dot = 3 /\ OldName \in Names
  /\ \A name \in Names \cup {".", ".."} : NameUnits[name] \in Nat \ {0}
  /\ \A name \in Names \cup {".", ".."} : Size(name) \in Nat /\ Size(name) = 2 + NameUnits[name]
  /\ Size(".") = Dot /\ Size("..") = Dot
  /\ "none" \notin Names /\ "." \notin Names /\ ".." \notin Names
<1>1. \A name \in Names \cup {".", ".."} : NameUnits[name] \in Nat \ {0}
  BY Ext2Assumption
<1>2. \A name \in Names \cup {".", ".."} : Size(name) \in Nat /\ Size(name) = 2 + NameUnits[name]
  BY <1>1 DEF Size
<1>3. Size(".") = Dot /\ Size("..") = Dot
  BY Ext2Assumption DEF Size, Dot
<1>4. Dot = 3
  BY DEF Dot
<1>5. /\ Units \in Nat /\ 2 * Dot + 2 + NameUnits[OldName] <= Units /\ OldName \in Names
      /\ "none" \notin Names /\ "." \notin Names /\ ".." \notin Names
  BY Ext2Assumption
<1> QED BY <1>1, <1>2, <1>3, <1>4, <1>5, Zenon

(* The bit of a block is in the bitmap of a group.                         *)
LEMMA BlockPlace ==
  ASSUME NEW b \in Blocks, b >= FirstDataBlock
  PROVE  /\ GroupOf(b) \in Groups /\ BitOf(b) \in Bits("block")
         /\ GroupOf(b) * BlocksPerGroup + BitOf(b) + FirstDataBlock = b
<1> DEFINE x == b - FirstDataBlock
<1>1. b \in Int /\ b < BlocksCount /\ x \in Nat /\ x < BlocksCount
  BY Sizes DEF Blocks
<1>2. x < GroupsCount * BlocksPerGroup
  BY <1>1, GroupsSuffice, Sizes
<1>3. b = x + FirstDataBlock
  BY <1>1, Sizes
<1> HIDE DEF x
<1>4. PICK q, r : q = x \div BlocksPerGroup /\ r = x % BlocksPerGroup
  OBVIOUS
<1>5. q \in 0..(GroupsCount - 1) /\ r \in 0..(BlocksPerGroup - 1) /\ x = q * BlocksPerGroup + r
  BY <1>1, <1>2, <1>4, Grouped, Sizes
<1>6. GroupOf(b) = q /\ BitOf(b) = r
  BY <1>4 DEF GroupOf, BitOf, x
<1> QED BY <1>3, <1>5, <1>6, Sizes DEF Groups, Bits

(* A place in the block bitmap is that of one number.                      *)
LEMMA PlaceOfBlock ==
  ASSUME NEW g \in Groups, NEW bit \in Bits("block")
  PROVE  /\ g * BlocksPerGroup + bit \in Nat
         /\ GroupOf(g * BlocksPerGroup + bit + FirstDataBlock) = g
         /\ BitOf(g * BlocksPerGroup + bit + FirstDataBlock) = bit
<1>1. g \in Nat /\ bit \in 0..(BlocksPerGroup - 1)
  BY Sizes DEF Groups, Bits
<1> DEFINE x == g * BlocksPerGroup + bit
<1>2. x \in Nat /\ x \div BlocksPerGroup = g /\ x % BlocksPerGroup = bit
  BY <1>1, DivModUnique, Sizes
<1> HIDE DEF x
<1>3. (x + FirstDataBlock) - FirstDataBlock = x
  BY <1>2, Sizes
<1>4. GroupOf(x + FirstDataBlock) = g /\ BitOf(x + FirstDataBlock) = bit
  BY <1>2, <1>3, Zenon DEF GroupOf, BitOf
<1> QED BY <1>2, <1>4 DEF x

(* The bit of an inode is in the bitmap of a group.                        *)
LEMMA InodePlace ==
  ASSUME NEW i \in Inodes
  PROVE  /\ InodeGroup(i) \in Groups /\ InodeBit(i) \in Bits("inode")
         /\ InodeGroup(i) * InodesPerGroup + InodeBit(i) + 1 = i
<1> DEFINE x == i - 1
<1>0. GroupsCount * InodesPerGroup \in Nat
  BY Sizes, SMTT(30)
<1>1. i \in Int /\ x \in Nat /\ x < GroupsCount * InodesPerGroup
  BY <1>0 DEF Inodes
<1>3. i = x + 1
  BY <1>1
<1> HIDE DEF x
<1>4. PICK q, r : q = x \div InodesPerGroup /\ r = x % InodesPerGroup
  OBVIOUS
<1>5. q \in 0..(GroupsCount - 1) /\ r \in 0..(InodesPerGroup - 1) /\ x = q * InodesPerGroup + r
  BY <1>1, <1>4, Grouped, Sizes
<1>6. InodeGroup(i) = q /\ InodeBit(i) = r
  BY <1>4 DEF InodeGroup, InodeBit, x
<1> QED BY <1>3, <1>5, <1>6, Sizes DEF Groups, Bits

(* A place in the inode bitmap is that of one inode.                       *)
LEMMA PlaceOfInode ==
  ASSUME NEW g \in Groups, NEW bit \in Bits("inode")
  PROVE  /\ g * InodesPerGroup + bit + 1 \in Inodes
         /\ InodeGroup(g * InodesPerGroup + bit + 1) = g
         /\ InodeBit(g * InodesPerGroup + bit + 1) = bit
<1>1. g \in Nat /\ g \in 0..(GroupsCount - 1) /\ bit \in 0..(InodesPerGroup - 1)
  BY Sizes DEF Groups, Bits
<1> DEFINE x == g * InodesPerGroup + bit
<1>2. x \in Nat /\ x \div InodesPerGroup = g /\ x % InodesPerGroup = bit
  BY <1>1, DivModUnique, Sizes
<1>3. x < GroupsCount * InodesPerGroup
  BY <1>1, Below, Sizes
<1> HIDE DEF x
<1>4. GroupsCount * InodesPerGroup \in Nat
  BY Sizes, SMTT(30)
<1>5. x + 1 \in Inodes
  BY <1>2, <1>3, <1>4 DEF Inodes
<1>6. x + 1 - 1 = x
  BY <1>2
<1>7. InodeGroup(x + 1) = g /\ InodeBit(x + 1) = bit
  BY <1>2, <1>6 DEF InodeGroup, InodeBit
<1> QED BY <1>5, <1>7 DEF x

----------------------------------------------------------------------------
(* What is on the disk, in memory, and in progress.                        *)

Bitmaps ==
  {bm \in [Kinds -> [Groups -> SUBSET Nat]] :
     \A k \in Kinds, g \in Groups : bm[k][g] \subseteq Bits(k)}

(* What is no block is marked.                                             *)
Reserved(bm) ==
  \A g \in Groups, bit \in Bits("block") :
    g * BlocksPerGroup + bit + FirstDataBlock \notin Kept => bit \in bm["block"][g]

(* No inode has a double or triple indirect block.                         *)
BlockMaps ==
  {f \in [1..(NDirect + 3) -> Blocks] : f[NDirect + 2] = 0 /\ f[NDirect + 3] = 0}

InodeRecords == [isdir : BOOLEAN, size : 0..(NDirect + 1), block : BlockMaps]

AnyName == Names \cup {".", ".."}
DirEntries == {NoEntry} \cup [name : AnyName, ino : Inodes \cup {0}, rec : Nat]
Dirs == [0..(Units - 1) -> DirEntries]
BlockRecords ==
  [dir : Dirs, high : Nat, words : Seq(Nat), owner : Inodes \cup {0}, super : BOOLEAN]

Pcs == {"idle", "inode", "write_inode", "entry", "block", "dir_block", "dir_inode",
        "undo_block", "undo", "free_blocks", "remove", "grow", "lost"}

CallRecords ==
  [pc : Pcs, name : Names \cup {"none"}, isdir : BOOLEAN, ino : Inodes \cup {0},
   g : 0..GroupsCount, blk : Blocks, todo : Seq(Nat)]

(* What a call in progress has at each of its steps.                       *)
CallOK(o) ==
  /\ o \in CallRecords
  /\ o.pc \in {"inode", "write_inode", "entry"} => o.name \in Names
  /\ o.pc \notin {"idle", "inode", "lost"} => o.ino \in Inodes
  /\ o.pc = "grow" => \E n \in 1..(NDirect + 1) : o.todo = <<n>>

Troubles == {"io", "full", "restart", "shifted", "boot", "stray", "uneven", "torn", "meta"}

(* The inductive invariant, whatever goes wrong.                           *)
DiskInv ==
  /\ bitmap \in Bitmaps
  /\ Reserved(bitmap)
  /\ itable \in [Inodes -> InodeRecords]
  /\ content \in [Blocks -> BlockRecords]
  /\ count \in [Kinds -> [Groups -> Nat]]
  /\ CallOK(op)
  /\ mounted \in BOOLEAN
  /\ trouble \subseteq Troubles
  /\ faults \in 0..MaxFaults

----------------------------------------------------------------------------
(* Least and greatest.                                                     *)

(* A set of naturals has a least element.                                  *)
LEMMA Least ==
  ASSUME NEW S \in SUBSET Nat, S # {}
  PROVE  \E x \in S : \A y \in S : x <= y
<1> DEFINE R == OpToRel(<, Nat)
<1>1. \A x, y \in Nat : <<y, x>> \in R <=> y < x
  BY DEF OpToRel
<1>2. IsWellFoundedOn(R, Nat)
  BY NatLessThanWellFounded
<1> HIDE DEF R
<1>3. PICK x \in S : \A y \in S : ~(<<y, x>> \in R)
  BY <1>2, WFMin
<1>4. \A y \in S : x <= y
  <2> TAKE y \in S
  <2>1. x \in Nat /\ y \in Nat
    OBVIOUS
  <2>2. ~(y < x)
    BY <1>1, <1>3, <2>1
  <2> QED BY <2>1, <2>2
<1> QED BY <1>4

(* A set of naturals with a bound has a greatest element.                  *)
LEMMA Greatest ==
  ASSUME NEW n \in Nat, NEW S \in SUBSET (0..(n - 1)), S # {}
  PROVE  \E x \in S : \A y \in S : y <= x
<1> DEFINE T == {n - x : x \in S}
<1>1. T \in SUBSET Nat /\ T # {}
  OBVIOUS
<1>2. PICK t \in T : \A u \in T : t <= u
  BY <1>1, Least
<1>3. PICK x \in S : t = n - x
  BY <1>2
<1>4. \A y \in S : n - x <= n - y
  BY <1>2, <1>3
<1>5. \A y \in S : y <= x
  BY <1>4
<1> QED BY <1>5

----------------------------------------------------------------------------
(* Writing a bitmap, a count, an inode, a block.                           *)

(* Setting bits of one group.                                              *)
LEMMA MarkBits ==
  ASSUME NEW bm \in Bitmaps, Reserved(bm), NEW k \in Kinds, NEW g \in Groups,
         NEW S \in SUBSET Bits(k)
  PROVE  LET new == [bm EXCEPT ![k][g] = @ \cup S] IN new \in Bitmaps /\ Reserved(new)
<1> DEFINE new == [bm EXCEPT ![k][g] = @ \cup S]
<1>1. /\ bm \in [Kinds -> [Groups -> SUBSET Nat]]
      /\ \A l \in Kinds, h \in Groups : bm[l][h] \subseteq Bits(l)
  BY DEF Bitmaps
<1>2. Bits(k) \subseteq Nat
  BY Sizes DEF Bits
<1>3. new \in [Kinds -> [Groups -> SUBSET Nat]]
  BY <1>1, <1>2
<1>4. \A l \in Kinds, h \in Groups :
        new[l][h] = IF l = k /\ h = g THEN bm[l][h] \cup S ELSE bm[l][h]
  BY <1>1
<1> HIDE DEF new
<1>5. new \in Bitmaps
  BY <1>1, <1>3, <1>4 DEF Bitmaps
<1>6. Reserved(new)
  BY <1>4, Sizes DEF Reserved
<1> QED BY <1>5, <1>6 DEF new

(* Clearing a bit that is none of the reserved ones.                       *)
LEMMA ClearBit ==
  ASSUME NEW bm \in Bitmaps, Reserved(bm), NEW k \in Kinds, NEW g \in Groups,
         NEW bit \in Bits(k),
         k = "block" => g * BlocksPerGroup + bit + FirstDataBlock \in Kept
  PROVE  LET new == [bm EXCEPT ![k][g] = @ \ {bit}] IN new \in Bitmaps /\ Reserved(new)
<1> DEFINE new == [bm EXCEPT ![k][g] = @ \ {bit}]
<1>1. /\ bm \in [Kinds -> [Groups -> SUBSET Nat]]
      /\ \A l \in Kinds, h \in Groups : bm[l][h] \subseteq Bits(l)
  BY DEF Bitmaps
<1>3. new \in [Kinds -> [Groups -> SUBSET Nat]]
  BY <1>1
<1>4. \A l \in Kinds, h \in Groups :
        new[l][h] = IF l = k /\ h = g THEN bm[l][h] \ {bit} ELSE bm[l][h]
  BY <1>1
<1> HIDE DEF new
<1>5. new \in Bitmaps
  BY <1>1, <1>3, <1>4 DEF Bitmaps
<1>6. Reserved(new)
  BY <1>4, Sizes DEF Reserved
<1> QED BY <1>5, <1>6 DEF new

(* One count changes.                                                      *)
LEMMA CountType ==
  ASSUME NEW c \in [Kinds -> [Groups -> Nat]], NEW k \in Kinds, NEW g \in Groups, NEW n \in Nat
  PROVE  /\ [c EXCEPT ![k][g] = n] \in [Kinds -> [Groups -> Nat]]
         /\ c[k][g] \in Nat
OBVIOUS

(* An inode without blocks has a well-typed block map.                     *)
LEMMA NoBlocksType == NoBlocks \in BlockMaps
BY Sizes, KeptFacts DEF NoBlocks, BlockMaps

(* So has the inode a create call writes.                                  *)
LEMMA FreshType ==
  ASSUME NEW isdir \in BOOLEAN
  PROVE  Fresh(isdir) \in InodeRecords
BY NoBlocksType, Sizes DEF Fresh, InodeRecords

(* Writing an inode keeps the type of the inode table.                     *)
LEMMA ItableType ==
  ASSUME NEW t \in [Inodes -> InodeRecords], NEW i, NEW r \in InodeRecords
  PROVE  [t EXCEPT ![i] = r] \in [Inodes -> InodeRecords]
OBVIOUS

(* The fields of an inode.                                                 *)
LEMMA InodeFields ==
  ASSUME NEW r \in InodeRecords
  PROVE  /\ r.isdir \in BOOLEAN /\ r.size \in 0..(NDirect + 1)
         /\ r.block \in BlockMaps
         /\ r.block \in [1..(NDirect + 3) -> Blocks]
         /\ r.block[NDirect + 2] = 0 /\ r.block[NDirect + 3] = 0
         /\ \A j \in 1..(NDirect + 3) : r.block[j] \in Blocks
<1>1. r.isdir \in BOOLEAN /\ r.size \in 0..(NDirect + 1) /\ r.block \in BlockMaps
  BY DEF InodeRecords
<1>2. /\ r.block \in [1..(NDirect + 3) -> Blocks]
      /\ r.block[NDirect + 2] = 0 /\ r.block[NDirect + 3] = 0
  BY <1>1 DEF BlockMaps
<1> QED BY <1>1, <1>2

(* Empty and new directory entries are well-typed.                         *)
LEMMA NoEntryType ==
  /\ NoEntry \in DirEntries /\ NoDir \in Dirs
  /\ \A name \in AnyName, i \in Inodes \cup {0}, n \in Nat : Entry(name, i, n) \in DirEntries
BY DEF DirEntries, NoDir, Dirs, Entry

(* An entry that is used has a name, an inode and a length.                *)
LEMMA UsedEntry ==
  ASSUME NEW d \in Dirs, NEW s \in Used(d)
  PROVE  /\ s \in 0..(Units - 1) /\ d[s] # NoEntry
         /\ d[s] \in [name : AnyName, ino : Inodes \cup {0}, rec : Nat]
         /\ d[s].name \in AnyName /\ d[s].ino \in Inodes \cup {0} /\ d[s].rec \in Nat
         /\ d[s] = Entry(d[s].name, d[s].ino, d[s].rec)
<1>1. s \in 0..(Units - 1) /\ d[s] # NoEntry
  BY DEF Used
<1>2. d[s] \in [name : AnyName, ino : Inodes \cup {0}, rec : Nat]
  BY <1>1 DEF Dirs, DirEntries
<1> QED BY <1>1, <1>2 DEF Entry

(* So is a block of zeros.                                                 *)
LEMMA ZeroType == Zero \in BlockRecords
<1>1. <<>> \in Seq(Nat)
  OBVIOUS
<1> QED BY <1>1, NoEntryType DEF Zero, BlockRecords

(* And one with user data.                                                 *)
LEMMA UserDataType ==
  ASSUME NEW i \in Inodes, NEW w \in Nat
  PROVE  UserData(i, w) \in BlockRecords
<1>1. <<>> \in Seq(Nat) /\ <<w>> \in Seq(Nat)
  OBVIOUS
<1>2. (IF w = 0 THEN <<>> ELSE <<w>>) \in Seq(Nat)
  BY <1>1
<1> QED BY <1>2, ZeroType DEF UserData, BlockRecords

(* Writing a block keeps the type of the disk.                             *)
LEMMA ContentType ==
  ASSUME NEW c \in [Blocks -> BlockRecords], NEW b, NEW r \in BlockRecords
  PROVE  [c EXCEPT ![b] = r] \in [Blocks -> BlockRecords]
OBVIOUS

(* The directory of one block changes.                                     *)
LEMMA DirType ==
  ASSUME NEW c \in [Blocks -> BlockRecords], NEW b \in Blocks, NEW d \in Dirs
  PROVE  [c EXCEPT ![b].dir = d] \in [Blocks -> BlockRecords]
<1>1. [c[b] EXCEPT !.dir = d] \in BlockRecords
  BY DEF BlockRecords
<1> QED BY <1>1

(* The new entry's length is what the test leaves.                         *)
LEMMA SplitType ==
  ASSUME NEW d \in Dirs, NEW s \in Used(d), NEW name \in Names, NEW ino \in Inodes,
         HasSlack(d, s, name)
  PROVE  /\ Split(d, s, name, ino) \in Dirs
         /\ NewRec(d, s, name) \in Nat /\ NewAt(d, s) \in Nat
<1>1. /\ s \in 0..(Units - 1) /\ d[s].name \in AnyName /\ d[s].rec \in Nat
      /\ d[s] \in [name : AnyName, ino : Inodes \cup {0}, rec : Nat]
  BY UsedEntry
<1>2. Size(d[s].name) \in Nat /\ Size(name) \in Nat /\ NameUnits[d[s].name] \in Nat
  BY <1>1, DirSizes DEF AnyName
<1>3. NewRec(d, s, name) \in Nat
  BY <1>1, <1>2 DEF HasSlack, NewRec
<1>4. NewAt(d, s) \in Nat
  BY <1>1, <1>2 DEF NewAt
<1>5. Entry(name, ino, NewRec(d, s, name)) \in DirEntries
  BY <1>3, NoEntryType DEF AnyName
<1>6. [d[s] EXCEPT !.rec = Size(d[s].name)] \in DirEntries
  BY <1>1, <1>2 DEF DirEntries
<1> DEFINE e == Entry(name, ino, NewRec(d, s, name))
           n == NewAt(d, s)
           z == Size(d[s].name)
<1>7. Split(d, s, name, ino) = [d EXCEPT ![s].rec = z, ![n] = e]
  BY DEF Split
<1>8. e \in DirEntries /\ [d[s] EXCEPT !.rec = z] \in DirEntries
  BY <1>5, <1>6
<1> HIDE DEF e, n, z
<1>9. [d EXCEPT ![s].rec = z, ![n] = e] \in Dirs
  BY <1>1, <1>8 DEF Dirs
<1> QED BY <1>3, <1>4, <1>7, <1>9

(* A directory without one of its entries.                                 *)
LEMMA MergeType ==
  ASSUME NEW d \in Dirs, NEW s \in Used(d)
  PROVE  Merge(d, s) \in Dirs
<1> DEFINE before == {t \in Used(d) : t < s}
           prev == CHOOSE t \in before : \A u \in before : u <= t
<1>1. /\ s \in 0..(Units - 1) /\ d[s].name \in AnyName /\ d[s].rec \in Nat
      /\ d[s] \in [name : AnyName, ino : Inodes \cup {0}, rec : Nat]
  BY UsedEntry
<1>2. [d EXCEPT ![s].ino = 0] \in Dirs
  <2>1. [d[s] EXCEPT !.ino = 0] \in DirEntries
    BY <1>1 DEF DirEntries
  <2> QED BY <2>1, <1>1 DEF Dirs
<1>3. \A p : \/ [d EXCEPT ![p].rec = @ + d[s].rec, ![s] = NoEntry] \in Dirs
             \/ p \in 0..(Units - 1) /\ p \notin Used(d)
  <2> SUFFICES ASSUME NEW p, p \in 0..(Units - 1) => p \in Used(d)
               PROVE  [d EXCEPT ![p].rec = @ + d[s].rec, ![s] = NoEntry] \in Dirs
    OBVIOUS
  <2>1. CASE p \in 0..(Units - 1)
    <3>1. d[p] \in [name : AnyName, ino : Inodes \cup {0}, rec : Nat]
      BY <2>1, UsedEntry
    <3>2. PICK n : n = d[s].rec
      OBVIOUS
    <3>3. [d[p] EXCEPT !.rec = @ + n] \in DirEntries
      BY <1>1, <3>1, <3>2 DEF DirEntries
    <3>4. [d EXCEPT ![p].rec = @ + n, ![s] = NoEntry] \in Dirs
      BY <1>1, <2>1, <3>3, NoEntryType DEF Dirs
    <3> QED BY <3>2, <3>4
  <2>2. CASE p \notin 0..(Units - 1)
    <3>1. [d EXCEPT ![p].rec = @ + d[s].rec] = d
      BY <2>2 DEF Dirs
    <3>2. [d EXCEPT ![s] = NoEntry] \in Dirs
      BY NoEntryType DEF Dirs
    <3>3. [d EXCEPT ![p].rec = @ + d[s].rec, ![s] = NoEntry] = [d EXCEPT ![s] = NoEntry]
      BY <2>2, <1>1 DEF Dirs
    <3> QED BY <3>2, <3>3
  <2> QED BY <2>1, <2>2
<1>4. CASE before = {}
  BY <1>2, <1>4 DEF Merge
<1>5. CASE before # {}
  <2>1. before \subseteq 0..(Units - 1)
    BY DEF Used
  <2>2. \E t \in before : \A u \in before : u <= t
    BY <1>5, <2>1, DirSizes, Greatest
  <2>3. prev \in before
    BY <2>2
  <2>4. prev \in Used(d)
    BY <2>3
  <2>5. Merge(d, s) = [d EXCEPT ![prev].rec = @ + d[s].rec, ![s] = NoEntry]
    BY <1>5 DEF Merge
  <2> HIDE DEF prev
  <2> QED BY <1>3, <2>4, <2>5
<1> QED BY <1>4, <1>5

----------------------------------------------------------------------------
(* Looking up, and the blocks of a file.                                   *)

(* The first slot of a set of slots is one of them.                        *)
LEMMA FirstSlotIn ==
  ASSUME NEW hits \in SUBSET (0..(Units - 1))
  PROVE  /\ hits = {} => FirstSlot(hits) = -1
         /\ hits # {} => FirstSlot(hits) \in hits /\ \A t \in hits : FirstSlot(hits) <= t
         /\ FirstSlot(hits) = -1 => hits = {}
         /\ FirstSlot(hits) # -1 => FirstSlot(hits) \in hits
<1>1. CASE hits = {}
  BY <1>1 DEF FirstSlot
<1>2. CASE hits # {}
  <2>1. hits \subseteq Nat
    BY DirSizes
  <2>2. \E s \in hits : \A t \in hits : s <= t
    BY <1>2, <2>1, Least
  <2>3. FirstSlot(hits) \in hits /\ \A t \in hits : FirstSlot(hits) <= t
    BY <1>2, <2>2 DEF FirstSlot
  <2>4. FirstSlot(hits) # -1
    BY <2>1, <2>3
  <2> QED BY <1>2, <2>3, <2>4
<1> QED BY <1>1, <1>2

(* The root directory is a directory.                                      *)
LEMMA RootDirType ==
  ASSUME itable \in [Inodes -> InodeRecords], content \in [Blocks -> BlockRecords]
  PROVE  /\ RootDir \in Dirs
         /\ itable[Root].block[1] \in Blocks
         /\ \A s \in 0..(Units - 1) : RootDir[s] \in DirEntries
<1>1. itable[Root] \in InodeRecords
  BY Ext2Assumption
<1>2. itable[Root].block[1] \in Blocks
  BY <1>1, InodeFields, Sizes
<1>3. content[itable[Root].block[1]] \in BlockRecords
  BY <1>2
<1>4. RootDir \in Dirs
  BY <1>3 DEF RootDir, BlockRecords
<1> QED BY <1>2, <1>4 DEF Dirs

(* A file that is found has an inode.                                      *)
LEMMA FindType ==
  ASSUME itable \in [Inodes -> InodeRecords], content \in [Blocks -> BlockRecords],
         NEW name \in Names
  PROVE  ext2_find_file(name) \in Inodes \cup {0}
<1> DEFINE hits == {t \in Used(RootDir) : RootDir[t].name = name /\ RootDir[t].ino # 0}
           s == FirstSlot(hits)
<1>1. hits \subseteq 0..(Units - 1)
  BY DEF Used
<1>2. ext2_find_file(name) = IF s = -1 THEN 0 ELSE RootDir[s].ino
  BY DEF ext2_find_file
<1>3. ASSUME s # -1 PROVE RootDir[s].ino \in Inodes \cup {0}
  <2>1. s \in hits
    BY <1>1, <1>3, FirstSlotIn
  <2> HIDE DEF s
  <2>2. s \in Used(RootDir) /\ RootDir \in Dirs
    BY <2>1, RootDirType
  <2> QED BY <2>2, UsedEntry
<1> QED BY <1>2, <1>3

(* What comes before the first zero is not zero.                           *)
LEMMA UpToZeroType ==
  ASSUME NEW S, NEW s \in Seq(S \cup {0})
  PROVE  UpToZero(s) \in Seq(S)
<1> DEFINE z == {i \in 1..Len(s) : s[i] = 0}
           m == CHOOSE i \in z : \A j \in z : i <= j
<1>0. UpToZero(s) = IF z = {} THEN s ELSE SubSeq(s, 1, m - 1)
  BY DEF UpToZero
<1>1. s \in [1..Len(s) -> S \cup {0}] /\ Len(s) \in Nat
  BY LenProperties
<1>2. CASE z = {}
  <2>1. s \in [1..Len(s) -> S]
    BY <1>1, <1>2
  <2>2. s \in Seq(S)
    BY <1>1, <2>1, SeqDef
  <2> QED BY <1>0, <1>2, <2>2
<1>3. CASE z # {}
  <2>1. z \subseteq Nat
    OBVIOUS
  <2>2. \E i \in z : \A j \in z : i <= j
    BY <1>3, <2>1, Least
  <2>3. m \in z /\ \A j \in z : m <= j
    BY <2>2
  <2> HIDE DEF m
  <2>4. m \in 1..Len(s)
    BY <2>3
  <2> DEFINE n == m - 1
  <2>5. n \in Nat /\ n <= Len(s) /\ 1 \in Nat /\ \A i \in 1..n : i \in 1..Len(s) /\ i \notin z
    <3>1. n \in Nat /\ n <= Len(s) /\ \A i \in 1..n : i \in 1..Len(s) /\ i < m
      BY <2>4, <1>1
    <3>2. \A i \in 1..n : i \notin z
      <4> HIDE DEF z
      <4> QED BY <2>3, <2>1, <3>1
    <3> QED BY <3>1, <3>2
  <2>6. SubSeq(s, 1, n) = [i \in 1..n |-> s[i]]
    BY <2>5, <1>1
  <2>7. [i \in 1..n |-> s[i]] \in [1..n -> S]
    BY <2>5, <1>1
  <2>8. SubSeq(s, 1, n) \in Seq(S)
    BY <2>5, <2>6, <2>7, SeqDef
  <2> QED BY <1>0, <1>3, <2>8
<1> QED BY <1>2, <1>3

(* A sequence of a smaller set.                                            *)
LEMMA SeqOfSubset ==
  ASSUME NEW S, NEW T, S \subseteq T, NEW s \in Seq(S)
  PROVE  s \in Seq(T)
<1>1. s \in [1..Len(s) -> S] /\ Len(s) \in Nat
  BY LenProperties
<1>2. s \in [1..Len(s) -> T]
  BY <1>1
<1> QED BY <1>1, <1>2, SeqDef

(* Joining sequences.                                                      *)
LEMMA JoinType ==
  ASSUME NEW S, NEW p \in Seq(S), NEW q \in Seq(S), NEW r \in Seq(S), NEW t \in Seq(S)
  PROVE  p \o q \o r \o t \in Seq(S)
<1>1. p \o q \in Seq(S)
  BY ConcatProperties
<1>2. (p \o q) \o r \in Seq(S)
  BY <1>1, ConcatProperties
<1> QED BY <1>2, ConcatProperties

(* The first blocks of an inode.                                           *)
LEMMA DirectType ==
  ASSUME NEW S, NEW f \in BlockMaps, \A j \in 1..NDirect : f[j] \in S
  PROVE  SubSeq(f, 1, NDirect) \in Seq(S)
<1>1. f \in [1..(NDirect + 3) -> Blocks]
  BY DEF BlockMaps
<1>2. SubSeq(f, 1, NDirect) = [i \in 1..NDirect |-> f[i]]
  <2>1. f \in Seq(Blocks) /\ NDirect + 3 \in Nat
    BY <1>1, SeqDef, Sizes
  <2>2. Len(f) = NDirect + 3
    BY <1>1, <2>1, LenProperties, Sizes
  <2> QED BY <2>1, <2>2, Sizes, SubSeqProperties
<1>3. [i \in 1..NDirect |-> f[i]] \in [1..NDirect -> S]
  OBVIOUS
<1> QED BY <1>2, <1>3, SeqDef, Sizes

(* Without double and triple indirect blocks.                              *)
LEMMA FreeOrderIs ==
  ASSUME NEW r \in InodeRecords, NEW bad
  PROVE  FreeOrder(r, bad) =
           UpToZero(SubSeq(r.block, 1, NDirect))
             \o (IF r.block[NDirect + 1] = 0 THEN <<>>
                 ELSE Named(r.block[NDirect + 1], bad) \o <<r.block[NDirect + 1]>>)
             \o <<>> \o <<>>
<1>1. r.block[NDirect + 2] = 0 /\ r.block[NDirect + 3] = 0
  BY InodeFields
<1> QED BY <1>1, Zenon DEF FreeOrder

(* What ext2_delete_file frees is what the inode and its pointer block     *)
(* name.                                                                   *)
LEMMA FreeOrderIn ==
  ASSUME content \in [Blocks -> BlockRecords], NEW r \in InodeRecords, NEW bad, NEW S,
         \A j \in 1..(NDirect + 1) : r.block[j] \in S \cup {0},
         r.block[NDirect + 1] # 0 => content[r.block[NDirect + 1]].words \in Seq(S)
  PROVE  FreeOrder(r, bad) \in Seq(S)
<1>1. UpToZero(SubSeq(r.block, 1, NDirect)) \in Seq(S)
  <2>1. r.block \in BlockMaps
    BY InodeFields
  <2>2. \A j \in 1..NDirect : r.block[j] \in S \cup {0}
    BY Sizes
  <2>3. SubSeq(r.block, 1, NDirect) \in Seq(S \cup {0})
    BY <2>1, <2>2, DirectType
  <2> QED BY <2>3, UpToZeroType
<1> DEFINE p == r.block[NDirect + 1]
           mid == IF p = 0 THEN <<>> ELSE Named(p, bad) \o <<p>>
<1>2. p \in S \cup {0} /\ p \in Blocks
  BY InodeFields, Sizes
<1>3. <<>> \in Seq(S)
  OBVIOUS
<1>4. mid \in Seq(S)
  <2>1. CASE p = 0
    BY <2>1, <1>3
  <2>2. CASE p # 0
    <3>2. Named(p, bad) \in Seq(S)
      BY <2>2, <1>3 DEF Named
    <3>3. <<p>> \in Seq(S)
      BY <1>2, <2>2
    <3> HIDE DEF p
    <3>4. Named(p, bad) \o <<p>> \in Seq(S)
      BY <3>2, <3>3, ConcatProperties
    <3> QED BY <2>2, <3>4
  <2> QED BY <2>1, <2>2
<1>5. FreeOrder(r, bad) = UpToZero(SubSeq(r.block, 1, NDirect)) \o mid \o <<>> \o <<>>
  BY FreeOrderIs
<1> HIDE DEF mid
<1> QED BY <1>1, <1>3, <1>4, <1>5, JoinType

(* It frees numbers.                                                       *)
LEMMA FreeOrderType ==
  ASSUME content \in [Blocks -> BlockRecords], NEW r \in InodeRecords, NEW bad
  PROVE  FreeOrder(r, bad) \in Seq(Nat)
<1>0. \A j \in 1..(NDirect + 1) : r.block[j] \in Blocks
  BY InodeFields, Sizes
<1>1. \A j \in 1..(NDirect + 1) : r.block[j] \in Nat \cup {0} /\ r.block[j] \in Blocks
  BY <1>0, KeptFacts
<1>2. content[r.block[NDirect + 1]].words \in Seq(Nat)
  BY <1>1, Sizes DEF BlockRecords
<1> QED BY <1>1, <1>2, FreeOrderIn

----------------------------------------------------------------------------
(* The steps keep DiskInv.                                                 *)

(* What went wrong is recorded.                                            *)
LEMMA WrongType ==
  ASSUME trouble \subseteq Troubles, faults \in 0..MaxFaults,
         Fine \/ Failed \/ \E K \in SUBSET Troubles : Fault(K) \/ Note(K)
  PROVE  trouble' \subseteq Troubles /\ faults' \in 0..MaxFaults
<1>1. CASE Fine
  BY <1>1 DEF Fine, wrong
<1>2. CASE Failed
  BY <1>2, Ext2Assumption DEF Failed, Fault, Troubles
<1>3. ASSUME NEW K \in SUBSET Troubles, Fault(K)
      PROVE  trouble' \subseteq Troubles /\ faults' \in 0..MaxFaults
  BY <1>3, Ext2Assumption DEF Fault
<1>4. ASSUME NEW K \in SUBSET Troubles, Note(K)
      PROVE  trouble' \subseteq Troubles /\ faults' \in 0..MaxFaults
  BY <1>4 DEF Note
<1> QED BY <1>1, <1>2, <1>3, <1>4

(* A call that has returned knows nothing that could be wrong.             *)
LEMMA NoCallType == CallOK(NoCall) /\ NoCall.pc = "idle"
<1>1. <<>> \in Seq(Nat)
  OBVIOUS
<1> QED BY <1>1, Sizes, KeptFacts DEF NoCall, CallOK, CallRecords, Pcs

(* A call moves on to a step that needs no more than it has.               *)
LEMMA MoveType ==
  ASSUME NEW o, CallOK(o), NEW pc \in Pcs, o.pc \notin {"idle", "inode", "lost"},
         pc \in {"inode", "write_inode", "entry"} => o.name \in Names,
         pc # "grow"
  PROVE  CallOK([o EXCEPT !.pc = pc])
BY DEF CallOK, CallRecords

(* Where the model ends.                                                   *)
LEMMA LostKeeps ==
  ASSUME DiskInv, NEW K \in SUBSET Troubles, Lost(K)
  PROVE  DiskInv'
<1>1. Note(K) /\ op' = [op EXCEPT !.pc = "lost"]
      /\ UNCHANGED <<bitmap, itable, content, count, mounted>>
  BY DEF Lost, disk
<1>2. trouble' \subseteq Troubles /\ faults' \in 0..MaxFaults
  BY <1>1, WrongType DEF DiskInv
<1>3. CallOK(op')
  BY <1>1 DEF DiskInv, CallOK, CallRecords, Pcs
<1> QED BY <1>1, <1>2, <1>3 DEF DiskInv

(* The same with the block that was overwritten.                           *)
LEMMA LostByKeeps ==
  ASSUME DiskInv, NEW b, NEW K \in SUBSET Troubles, LostBy(b, K)
  PROVE  DiskInv'
<1>1. K \cup {IF b \in Meta THEN "meta" ELSE "torn"} \in SUBSET Troubles
  BY DEF Troubles
<1> QED BY <1>1, LostKeeps, Zenon DEF LostBy

(* Freeing a bit, whether it works or not.                                 *)
LEMMA FreeBitType ==
  ASSUME DiskInv, NEW k \in Kinds, NEW g \in Groups, NEW bit \in Bits(k), NEW ok \in BOOLEAN,
         k = "block" => g * BlocksPerGroup + bit + FirstDataBlock \in Kept,
         FreeBit(k, g, bit, ok)
  PROVE  /\ bitmap' \in Bitmaps /\ Reserved(bitmap')
         /\ count' \in [Kinds -> [Groups -> Nat]]
<1> DEFINE written == [bitmap EXCEPT ![k][g] = @ \ {bit}]
<1>1. bitmap \in Bitmaps /\ Reserved(bitmap) /\ count \in [Kinds -> [Groups -> Nat]]
  BY DEF DiskInv
<1>2. written \in Bitmaps /\ Reserved(written)
  BY <1>1, ClearBit
<1>3. [count EXCEPT ![k][g] = @ + 1] \in [Kinds -> [Groups -> Nat]]
  BY <1>1
<1>4. CASE ok
  BY <1>2, <1>3, <1>4 DEF FreeBit
<1>5. CASE ~ok
  BY <1>1, <1>2, <1>5 DEF FreeBit
<1> QED BY <1>4, <1>5

(* free_inode_bitmap keeps the bitmaps and their reserved bits.            *)
LEMMA FreeInodeType ==
  ASSUME DiskInv, NEW i \in Inodes, free_inode_bitmap(i)
  PROVE  /\ bitmap' \in Bitmaps /\ Reserved(bitmap')
         /\ count' \in [Kinds -> [Groups -> Nat]]
         /\ trouble' \subseteq Troubles /\ faults' \in 0..MaxFaults
<1>1. PICK ok \in BOOLEAN : /\ FreeBit("inode", InodeGroup(i), InodeBit(i), ok)
                            /\ IF ok THEN Fine ELSE Failed
  BY DEF free_inode_bitmap
<1>2. InodeGroup(i) \in Groups /\ InodeBit(i) \in Bits("inode")
  BY InodePlace
<1>3. trouble' \subseteq Troubles /\ faults' \in 0..MaxFaults
  BY <1>1, WrongType DEF DiskInv
<1> QED BY <1>1, <1>2, <1>3, Sizes, FreeBitType

(* ext2_free_block does so, and never clears the bit of what is no block.  *)
LEMMA FreeBlockType ==
  ASSUME DiskInv, NEW b \in Nat, ext2_free_block(b)
  PROVE  /\ bitmap' \in Bitmaps /\ Reserved(bitmap')
         /\ count' \in [Kinds -> [Groups -> Nat]]
         /\ content' \in [Blocks -> BlockRecords]
         /\ trouble' \subseteq Troubles /\ faults' \in 0..MaxFaults
<1>1. content \in [Blocks -> BlockRecords] /\ trouble \subseteq Troubles /\ faults \in 0..MaxFaults
  BY DEF DiskInv
<1>2. CASE b \notin FirstDataBlock..(BlocksCount - 1)
  BY <1>2 DEF ext2_free_block, DiskInv, wrong
<1>3. CASE b \in FirstDataBlock..(BlocksCount - 1)
  <2>1. b \in Blocks /\ b >= FirstDataBlock /\ b \in Kept
    BY <1>3, KeptFacts, Sizes DEF Kept
  <2>2. /\ GroupOf(b) \in Groups /\ BitOf(b) \in Bits("block")
        /\ GroupOf(b) * BlocksPerGroup + BitOf(b) + FirstDataBlock = b
    BY <2>1, BlockPlace
  <2>3. \E ok \in BOOLEAN : FreeBit("block", GroupOf(b), BitOf(b), ok)
    BY <1>3 DEF ext2_free_block
  <2>4. /\ bitmap' \in Bitmaps /\ Reserved(bitmap')
        /\ count' \in [Kinds -> [Groups -> Nat]]
    BY <2>1, <2>2, <2>3, FreeBitType, Sizes
  <2>5. [content EXCEPT ![b] = Zero] \in [Blocks -> BlockRecords]
    BY <1>1, ContentType, ZeroType
  <2>6. content' \in [Blocks -> BlockRecords]
    BY <1>1, <1>3, <2>5 DEF ext2_free_block
  <2>7. Fine \/ Failed
    BY <1>3 DEF ext2_free_block
  <2> QED BY <1>1, <2>4, <2>6, <2>7, WrongType
<1> QED BY <1>2, <1>3

(* The first step of ext2_create_file keeps the invariant.                 *)
LEMMA CreateFileKeeps ==
  ASSUME DiskInv, NEW name \in Names, NEW isdir \in BOOLEAN, ext2_create_file(name, isdir)
  PROVE  DiskInv'
<1>1. UNCHANGED <<bitmap, itable, content, count, mounted>> /\ (Fine \/ Failed)
  BY DEF ext2_create_file, disk
<1>2. trouble' \subseteq Troubles /\ faults' \in 0..MaxFaults
  BY <1>1, WrongType DEF DiskInv
<1>3. CallOK(op')
  <2>1. CASE op' = [NoCall EXCEPT !.pc = "inode", !.name = name, !.isdir = isdir]
    BY <2>1, NoCallType DEF CallOK, CallRecords, Pcs
  <2>2. CASE UNCHANGED op
    BY <2>2 DEF DiskInv
  <2> QED BY <2>1, <2>2 DEF ext2_create_file
<1> QED BY <1>1, <1>2, <1>3 DEF DiskInv

(* The first step of ext2_delete_file: what it will free are numbers.      *)
LEMMA DeleteFileKeeps ==
  ASSUME DiskInv, NEW name \in Names, ext2_delete_file(name)
  PROVE  DiskInv'
<1>1. UNCHANGED <<bitmap, itable, content, count, mounted>> /\ (Fine \/ Failed)
  BY DEF ext2_delete_file, disk
<1>2. trouble' \subseteq Troubles /\ faults' \in 0..MaxFaults
  BY <1>1, WrongType DEF DiskInv
<1> DEFINE ino == ext2_find_file(name)
<1>3. CallOK(op')
  <2>1. CASE UNCHANGED op
    BY <2>1 DEF DiskInv
  <2>2. CASE ino # 0 /\ \E bad :
               op' = [NoCall EXCEPT !.pc = "free_blocks", !.name = name, !.ino = ino,
                                    !.todo = FreeOrder(itable[ino], bad)]
    <3>1. ino \in Inodes
      BY <2>2, FindType DEF DiskInv
    <3> HIDE DEF ino
    <3>2. PICK bad : op' = [NoCall EXCEPT !.pc = "free_blocks", !.name = name, !.ino = ino,
                                          !.todo = FreeOrder(itable[ino], bad)]
      BY <2>2
    <3>3. FreeOrder(itable[ino], bad) \in Seq(Nat)
      BY <3>1, FreeOrderType DEF DiskInv
    <3> QED BY <3>1, <3>2, <3>3, NoCallType DEF CallOK, CallRecords, Pcs
  <2> QED BY <2>1, <2>2 DEF ext2_delete_file
<1> QED BY <1>1, <1>2, <1>3 DEF DiskInv

(* What ext2_write_file may have done wrong is a trouble.                  *)
LEMMA MisplacedType ==
  ASSUME NEW r, NEW n
  PROVE  Misplaced(r, n) \in SUBSET Troubles
BY DEF Misplaced, Troubles

(* ext2_write_file writes one block, or the model ends.                    *)
LEMMA WriteFileKeeps ==
  ASSUME DiskInv, NEW i \in Inodes, NEW n \in 0..NDirect, NEW w \in Words, ext2_write_file(i, n, w)
  PROVE  DiskInv'
<1> DEFINE b == InodeBlock(itable[i], n)
           wrongs == Misplaced(itable[i], n)
           written == [content EXCEPT ![b] = UserData(i, w)]
<1>0. CASE LostBy(b, wrongs)
  BY <1>0, MisplacedType, LostByKeeps
<1>a. CASE /\ UNCHANGED <<bitmap, itable, count, mounted>>
           /\ Fine \/ Failed \/ Note(wrongs) \/ Fault({"io"} \cup wrongs)
           /\ content' \in {content, written}
           /\ op' = NoCall \/ op' = [NoCall EXCEPT !.pc = "grow", !.ino = i, !.todo = <<n + 1>>]
  <2>1. wrongs \in SUBSET Troubles /\ {"io"} \cup wrongs \in SUBSET Troubles
    BY MisplacedType DEF Troubles
  <2> HIDE DEF wrongs
  <2>2. trouble' \subseteq Troubles /\ faults' \in 0..MaxFaults
    BY <1>a, <2>1, WrongType DEF DiskInv
  <2>3. UserData(i, w) \in BlockRecords
    BY UserDataType, Ext2Assumption
  <2>4. written \in [Blocks -> BlockRecords]
    BY <2>3, ContentType DEF DiskInv
  <2>5. content' \in [Blocks -> BlockRecords]
    BY <1>a, <2>4 DEF DiskInv
  <2>6. CallOK(op')
    <3>1. CASE op' = NoCall
      BY <3>1, NoCallType
    <3>2. CASE op' = [NoCall EXCEPT !.pc = "grow", !.ino = i, !.todo = <<n + 1>>]
      <4>1. n + 1 \in 1..(NDirect + 1) /\ <<n + 1>> \in Seq(Nat)
        BY Sizes
      <4> QED BY <3>2, <4>1, NoCallType DEF CallOK, CallRecords, Pcs
    <3> QED BY <1>a, <3>1, <3>2
  <2> QED BY <1>a, <2>2, <2>5, <2>6 DEF DiskInv
<1> QED BY <1>0, <1>a DEF ext2_write_file, Return

(* A step of the allocators, whether it takes a bit, goes on or gives up.  *)
LEMMA AllocateKeeps ==
  ASSUME DiskInv, Allocate
  PROVE  DiskInv'
<1> DEFINE k == op.pc
           g == op.g
<1>0. /\ k \in Kinds /\ UNCHANGED <<itable, content, mounted>>
      /\ CallOK(op) /\ op \in CallRecords
  BY DEF Allocate, DiskInv, CallOK
<1>1. ASSUME g < GroupsCount, NEW bit \in ZeroBits(k, g), AllocTakes(k, g, bit)
      PROVE  DiskInv'
  <2>1. g \in Groups /\ bit \in Bits(k)
    BY <1>0, <1>1, Sizes DEF CallRecords, Groups, ZeroBits
  <2>2. UpTo(ZeroBits(k, g), bit) \subseteq Bits(k)
    BY DEF UpTo, ZeroBits
  <2>3. bitmap' = [bitmap EXCEPT ![k][g] = @ \cup UpTo(ZeroBits(k, g), bit)]
    BY <1>1 DEF AllocTakes
  <2>4. bitmap' \in Bitmaps /\ Reserved(bitmap')
    BY <1>0, <2>1, <2>2, <2>3, MarkBits DEF DiskInv
  <2>5. count' \in [Kinds -> [Groups -> Nat]]
    <3>1. count' = [count EXCEPT ![k][g] = @ - 1] /\ count[k][g] # 0
      BY <1>1 DEF AllocTakes, GroupHasFree
    <3>2. count \in [Kinds -> [Groups -> Nat]]
      BY DEF DiskInv
    <3>3. k \in Kinds /\ g \in Groups
      BY <1>0, <2>1
    <3> HIDE DEF k, g
    <3>4. count[k][g] - 1 \in Nat
      BY <3>1, <3>2, <3>3, SMTT(30)
    <3> QED BY <3>1, <3>2, <3>4
  <2>6. trouble' \subseteq Troubles /\ faults' \in 0..MaxFaults
    <3>1. Misnumbered(k) \in SUBSET Troubles /\ {"io"} \cup Misnumbered(k) \in SUBSET Troubles
      BY DEF Misnumbered, Troubles
    <3>2. Note(Misnumbered(k)) \/ Fault({"io"} \cup Misnumbered(k))
      BY <1>1 DEF AllocTakes
    <3> QED BY <3>1, <3>2, WrongType DEF DiskInv
  <2>7. CallOK(op')
    <3>1. CASE k = "inode"
      <4>1. NumberOf(k, g, bit) \in Inodes
        BY <3>1, <2>1, PlaceOfInode DEF NumberOf
      <4>2. op' = [op EXCEPT !.pc = "write_inode", !.ino = NumberOf(k, g, bit)]
        BY <3>1, <1>1 DEF AllocTakes, NextPc
      <4> QED BY <1>0, <3>1, <4>1, <4>2 DEF CallOK, CallRecords, Pcs
    <3>2. CASE k = "block"
      <4>1. NumberOf(k, g, bit) \in Blocks
        <5>1. g * BlocksPerGroup + bit \in Nat
          BY <3>2, <2>1, PlaceOfBlock
        <5>2. g * BlocksPerGroup + bit + FirstDataBlock \in Kept
          BY <3>2, <2>1, <1>1 DEF ZeroBits, DiskInv, Reserved
        <5> QED BY <3>2, <5>1, <5>2, KeptFacts DEF NumberOf
      <4>2. \E pc \in {"dir_block", "undo"} :
              op' = [op EXCEPT !.pc = pc, !.blk = NumberOf(k, g, bit)]
        BY <3>2, <1>1 DEF AllocTakes, NextPc
      <4> QED BY <1>0, <3>2, <4>1, <4>2 DEF CallOK, CallRecords, Pcs
    <3> QED BY <1>0, <3>1, <3>2 DEF Kinds
  <2> QED BY <1>0, <2>4, <2>5, <2>6, <2>7 DEF DiskInv
<1>2. ASSUME g < GroupsCount, AllocSkips(k, g), UNCHANGED count
      PROVE  DiskInv'
  <2>1. g \in Groups
    BY <1>0, <1>2, Sizes DEF CallRecords, Groups
  <2>2. bitmap' \in Bitmaps /\ Reserved(bitmap')
    <3>1. CASE UNCHANGED bitmap
      BY <3>1 DEF DiskInv
    <3>2. CASE \E bit : bitmap' = [bitmap EXCEPT ![k][g] = @ \cup UpTo(ZeroBits(k, g), bit)]
      <4>1. PICK bit : bitmap' = [bitmap EXCEPT ![k][g] = @ \cup UpTo(ZeroBits(k, g), bit)]
        BY <3>2
      <4>2. UpTo(ZeroBits(k, g), bit) \subseteq Bits(k)
        BY DEF UpTo, ZeroBits
      <4> QED BY <1>0, <2>1, <4>1, <4>2, MarkBits DEF DiskInv
    <3> QED BY <1>2, <3>1, <3>2 DEF AllocSkips
  <2>3. CallOK(op')
    <3>1. PICK h \in 0..GroupsCount : op' = [op EXCEPT !.g = h]
      BY <1>2, <2>1, Sizes DEF AllocSkips, Groups
    <3> QED BY <3>1, <1>0 DEF CallOK, CallRecords
  <2>4. Fine \/ Failed
    BY <1>2 DEF AllocSkips
  <2>5. trouble' \subseteq Troubles /\ faults' \in 0..MaxFaults
    BY <2>4, WrongType DEF DiskInv
  <2> QED BY <1>0, <1>2, <2>2, <2>3, <2>5 DEF DiskInv
<1>3. ASSUME g = GroupsCount, UNCHANGED <<bitmap, count>>,
             IF k = "inode" THEN Return /\ Fine
             ELSE Go("undo") /\ Note({"full"})
      PROVE  DiskInv'
  <2>1. CASE k = "inode"
    <3>1. CallOK(op') /\ trouble' \subseteq Troubles /\ faults' \in 0..MaxFaults
      BY <2>1, <1>3, NoCallType, WrongType DEF Return, DiskInv
    <3> QED BY <1>0, <1>3, <3>1 DEF DiskInv
  <2>2. CASE k # "inode"
    <3>1. k = "block" /\ op' = [op EXCEPT !.pc = "undo"]
      BY <2>2, <1>0, <1>3 DEF Kinds, Go
    <3>2. CallOK(op')
      BY <3>1, <1>0, MoveType DEF Pcs
    <3>3. trouble' \subseteq Troubles /\ faults' \in 0..MaxFaults
      BY <1>3, <2>2 DEF DiskInv, Troubles, Note
    <3> QED BY <1>0, <1>3, <3>2, <3>3 DEF DiskInv
  <2> QED BY <2>1, <2>2
<1> QED BY <1>1, <1>2, <1>3 DEF Allocate

(* Writing the new inode.                                                  *)
LEMMA WriteInodeKeeps ==
  ASSUME DiskInv, WriteInode
  PROVE  DiskInv'
<1>1. UNCHANGED <<bitmap, content, count, mounted>> /\ (Fine \/ Failed)
  BY DEF WriteInode
<1>2. trouble' \subseteq Troubles /\ faults' \in 0..MaxFaults
  BY <1>1, WrongType DEF DiskInv
<1>3. Fresh(op.isdir) \in InodeRecords
  BY FreshType DEF DiskInv, CallOK, CallRecords
<1>4. itable' \in [Inodes -> InodeRecords]
  BY <1>3, ItableType DEF WriteInode, DiskInv
<1>5. CallOK(op) /\ op.pc = "write_inode" /\ op.name \in Names
  BY DEF DiskInv, WriteInode, CallOK
<1>6. op' = [op EXCEPT !.pc = "entry"] \/ op' = [op EXCEPT !.pc = "undo"]
  BY DEF WriteInode, Go
<1>7. CallOK(op')
  BY <1>5, <1>6, MoveType DEF Pcs
<1> QED BY <1>1, <1>2, <1>4, <1>7 DEF DiskInv

(* Writing the directory entry.                                            *)
LEMMA EntryKeeps ==
  ASSUME DiskInv, ext2_create_directory_entry
  PROVE  DiskInv'
<1> DEFINE d == RootDir
           root == itable[Root].block[1]
           high == content[root].high
           hits == {t \in Used(d) : HasSlack(d, t, op.name)}
           s == FirstSlot(hits)
           end == NewAt(d, s) + Size(op.name)
           top == IF high < end THEN end ELSE high
           new == Split(d, s, op.name, op.ino)
           written == [content EXCEPT ![root].dir = new, ![root].high = top]
<1>1. UNCHANGED <<bitmap, itable, count, mounted>>
  BY DEF ext2_create_directory_entry
<1>2. trouble' \subseteq Troubles /\ faults' \in 0..MaxFaults
  <2>1. Fine \/ Failed \/ Note({"full"}) \/ Note(Uneven(d, s, op.name))
    BY DEF ext2_create_directory_entry
  <2>2. {"full"} \in SUBSET Troubles /\ Uneven(d, s, op.name) \in SUBSET Troubles
    BY DEF Uneven, Troubles
  <2> HIDE DEF d, s
  <2> QED BY <2>1, <2>2, WrongType DEF DiskInv
<1>3. CallOK(op) /\ op.pc = "entry" /\ op.name \in Names /\ op.ino \in Inodes /\ op \in CallRecords
  BY DEF DiskInv, ext2_create_directory_entry, CallOK
<1>4. d \in Dirs /\ root \in Blocks /\ content \in [Blocks -> BlockRecords]
  BY RootDirType DEF DiskInv
<1>5. high \in Nat
  BY <1>4 DEF BlockRecords
<1>6. ASSUME s # -1 PROVE written \in [Blocks -> BlockRecords]
  <2>1. hits \subseteq 0..(Units - 1)
    BY DEF Used
  <2>2. s \in hits
    BY <2>1, <1>6, FirstSlotIn
  <2>3. s \in Used(d) /\ HasSlack(d, s, op.name)
    BY <2>2
  <2> HIDE DEF d, s
  <2>4. new \in Dirs /\ NewAt(d, s) \in Nat
    BY <2>3, <1>3, <1>4, SplitType
  <2>5. top \in Nat
    BY <2>4, <1>3, <1>5, DirSizes
  <2> HIDE DEF new, top, root, high
  <2>6. [content[root] EXCEPT !.dir = new, !.high = top] \in BlockRecords
    BY <1>4, <2>4, <2>5 DEF BlockRecords
  <2>7. written = [content EXCEPT ![root] = [content[root] EXCEPT !.dir = new, !.high = top]]
    BY <1>4
  <2> QED BY <1>4, <2>6, <2>7, ContentType
<1>7. content' \in [Blocks -> BlockRecords]
  <2>1. \/ content' = content \/ IntoBlockZero(content)
        \/ s # -1 /\ (content' = written \/ IntoBlockZero(written))
    BY DEF ext2_create_directory_entry
  <2>2. ASSUME NEW c \in [Blocks -> BlockRecords], IntoBlockZero(c)
        PROVE  content' \in [Blocks -> BlockRecords]
    <3>1. [c[0] EXCEPT !.super = FALSE] \in BlockRecords
      BY KeptFacts DEF BlockRecords
    <3>2. [c EXCEPT ![0].super = FALSE] \in [Blocks -> BlockRecords]
      BY <3>1
    <3> QED BY <2>2, <3>2 DEF IntoBlockZero
  <2> HIDE DEF written, s
  <2> QED BY <1>4, <1>6, <2>1, <2>2
<1>8. CallOK(op')
  <2>1. CASE op' = NoCall
    BY <2>1, NoCallType
  <2>2. CASE op' = [op EXCEPT !.pc = "undo"]
    BY <2>2, <1>3, MoveType DEF Pcs
  <2>3. CASE op' = [op EXCEPT !.pc = "block", !.g = 0]
    <3>1. 0 \in 0..GroupsCount
      BY Sizes
    <3>2. op' \in CallRecords
      BY <2>3, <3>1, <1>3 DEF CallRecords, Pcs
    <3>3. op'.pc = "block" /\ op'.ino \in Inodes
      BY <2>3, <1>3 DEF CallRecords
    <3> QED BY <3>2, <3>3 DEF CallOK
  <2> QED BY <2>1, <2>2, <2>3 DEF ext2_create_directory_entry, EntryMade, Go, Return
<1> QED BY <1>1, <1>2, <1>7, <1>8 DEF DiskInv

(* An entry where no room is.                                              *)
LEMMA EntryTornKeeps ==
  ASSUME DiskInv, EntryTorn
  PROVE  DiskInv'
<1>1. {"torn"} \in SUBSET Troubles
  BY DEF Troubles
<1>2. Lost({"torn"})
  BY DEF EntryTorn
<1> QED BY <1>1, <1>2, LostKeeps

(* Writing the first block of a new directory.                             *)
LEMMA WriteDirBlockKeeps ==
  ASSUME DiskInv, WriteDirBlock
  PROVE  DiskInv'
<1> DEFINE new == [NoDir EXCEPT ![0] = Entry(".", op.ino, Dot),
                                ![Dot] = Entry("..", Root, Units - Dot)]
           r == [Zero EXCEPT !.words = <<op.ino>>, !.high = 2 * Dot, !.dir = new]
           written == [content EXCEPT ![op.blk] = r]
<1>1. CASE LostBy(op.blk, {})
  BY <1>1, LostByKeeps
<1>2. CASE /\ UNCHANGED <<bitmap, itable, count, mounted>> /\ (Fine \/ Failed)
           /\ content' \in {content, written}
           /\ op' = [op EXCEPT !.pc = "dir_inode"] \/ op' = [op EXCEPT !.pc = "undo_block"]
  <2>1. trouble' \subseteq Troubles /\ faults' \in 0..MaxFaults
    BY <1>2, WrongType DEF DiskInv
  <2>2. CallOK(op) /\ op.pc = "dir_block" /\ op.ino \in Inodes
    BY DEF DiskInv, WriteDirBlock, CallOK
  <2>3. new \in Dirs
    <3>1. Dot \in Nat /\ Units - Dot \in Nat
      BY DirSizes
    <3>2. Entry(".", op.ino, Dot) \in DirEntries /\ Entry("..", Root, Units - Dot) \in DirEntries
      BY <2>2, <3>1, NoEntryType, Ext2Assumption DEF AnyName
    <3> QED BY <3>2, NoEntryType DEF Dirs
  <2>4. <<op.ino>> \in Seq(Nat) /\ 2 * Dot \in Nat
    <3>1. Inodes \subseteq Nat
      BY DEF Inodes
    <3>2. op.ino \in Nat
      BY <2>2, <3>1
    <3>3. PICK n : n = op.ino
      OBVIOUS
    <3> QED BY <3>2, <3>3, DirSizes
  <2>5. r \in BlockRecords
    <3> HIDE DEF new
    <3> QED BY <2>3, <2>4, ZeroType DEF BlockRecords
  <2>6. written \in [Blocks -> BlockRecords]
    <3> HIDE DEF r
    <3> QED BY <2>5, ContentType DEF DiskInv
  <2>7. CallOK(op')
    BY <1>2, <2>2, MoveType DEF Pcs
  <2> QED BY <1>2, <2>1, <2>6, <2>7 DEF DiskInv
<1> QED BY <1>1, <1>2 DEF WriteDirBlock, Go

(* Writing the inode of a new directory again, with its block.             *)
LEMMA WriteDirInodeKeeps ==
  ASSUME DiskInv, WriteDirInode
  PROVE  DiskInv'
<1> DEFINE written == [itable EXCEPT ![op.ino].block[1] = op.blk, ![op.ino].size = 1]
<1>1. UNCHANGED <<bitmap, content, count, mounted>> /\ (Fine \/ Failed) /\ op' = NoCall
  BY DEF WriteDirInode, Return
<1>2. trouble' \subseteq Troubles /\ faults' \in 0..MaxFaults
  BY <1>1, WrongType DEF DiskInv
<1>3. op.blk \in Blocks /\ op.ino \in Inodes /\ itable \in [Inodes -> InodeRecords]
  BY DEF DiskInv, WriteDirInode, CallOK, CallRecords
<1>4. PICK i, b : i = op.ino /\ b = op.blk
  OBVIOUS
<1>5. written = [itable EXCEPT ![i] = [itable[i] EXCEPT !.block = [@ EXCEPT ![1] = b], !.size = 1]]
  BY <1>3, <1>4 DEF InodeRecords
<1>6. itable[i] \in InodeRecords
  BY <1>3, <1>4
<1>7. [itable[i].block EXCEPT ![1] = b] \in BlockMaps
  BY <1>3, <1>4, <1>6, Sizes, SMTT(30) DEF InodeRecords, BlockMaps
<1>8. [itable[i] EXCEPT !.block = [@ EXCEPT ![1] = b], !.size = 1] \in InodeRecords
  <2> DEFINE f == [itable[i].block EXCEPT ![1] = b]
  <2>1. 1 \in 0..(NDirect + 1)
    BY Sizes
  <2>2. f \in BlockMaps
    BY <1>7
  <2> HIDE DEF f
  <2>3. [itable[i] EXCEPT !.block = f, !.size = 1] \in InodeRecords
    BY <1>6, <2>1, <2>2 DEF InodeRecords
  <2> QED BY <2>3 DEF f
<1>9. written \in [Inodes -> InodeRecords]
  BY <1>3, <1>5, <1>8, ItableType
<1>10. itable' \in {itable, written}
  BY DEF WriteDirInode
<1> QED BY <1>1, <1>2, <1>3, <1>9, <1>10, NoCallType DEF DiskInv

(* Giving back the block of a directory that could not be written.         *)
LEMMA UndoBlockKeeps ==
  ASSUME DiskInv, UndoBlock
  PROVE  DiskInv'
<1>1. CallOK(op) /\ op.pc = "undo_block" /\ op.blk \in Nat
  BY KeptFacts DEF DiskInv, UndoBlock, CallOK, CallRecords
<1>2. /\ bitmap' \in Bitmaps /\ Reserved(bitmap')
      /\ count' \in [Kinds -> [Groups -> Nat]]
      /\ content' \in [Blocks -> BlockRecords]
      /\ trouble' \subseteq Troubles /\ faults' \in 0..MaxFaults
  BY <1>1, FreeBlockType DEF UndoBlock
<1>3. CallOK(op')
  BY <1>1, MoveType DEF UndoBlock, Go, Pcs
<1>4. UNCHANGED <<itable, mounted>>
  BY DEF UndoBlock
<1> QED BY <1>2, <1>3, <1>4 DEF DiskInv

(* Giving back the inode of a file that could not be created.              *)
LEMMA UndoInodeKeeps ==
  ASSUME DiskInv, UndoInode
  PROVE  DiskInv'
<1>1. op.ino \in Inodes
  BY DEF DiskInv, UndoInode, CallOK
<1>2. /\ bitmap' \in Bitmaps /\ Reserved(bitmap')
      /\ count' \in [Kinds -> [Groups -> Nat]]
      /\ trouble' \subseteq Troubles /\ faults' \in 0..MaxFaults
  BY <1>1, FreeInodeType DEF UndoInode
<1>3. UNCHANGED <<itable, content, mounted>> /\ CallOK(op')
  BY NoCallType DEF UndoInode, Return
<1> QED BY <1>2, <1>3 DEF DiskInv

(* The rest of what is to be freed.                                        *)
LEMMA FreeBlocksCall ==
  ASSUME CallOK(op), op.pc = "free_blocks", op.todo # <<>>
  PROVE  /\ Head(op.todo) \in Nat /\ Tail(op.todo) \in Seq(Nat)
         /\ CallOK([op EXCEPT !.todo = Tail(op.todo)])
<1>1. op.todo \in Seq(Nat) /\ op \in CallRecords
  BY DEF CallOK, CallRecords
<1>2. Head(op.todo) \in Nat /\ Tail(op.todo) \in Seq(Nat)
  BY <1>1, HeadTailProperties
<1>3. CallOK([op EXCEPT !.todo = Tail(op.todo)])
  BY <1>1, <1>2 DEF CallOK, CallRecords
<1> QED BY <1>2, <1>3

(* One block of the file that is being deleted.                            *)
LEMMA FreeBlocksKeeps ==
  ASSUME DiskInv, FreeBlocks
  PROVE  DiskInv'
<1>1. CallOK(op) /\ op.pc = "free_blocks" /\ op.todo # <<>>
  BY DEF DiskInv, FreeBlocks
<1>2. Head(op.todo) \in Nat /\ CallOK([op EXCEPT !.todo = Tail(op.todo)])
  BY <1>1, FreeBlocksCall
<1>3. CASE LostBy(Head(op.todo), {})
  BY <1>3, LostByKeeps
<1>4. CASE /\ ext2_free_block(Head(op.todo)) /\ UNCHANGED <<itable, mounted>>
           /\ op' = [op EXCEPT !.todo = Tail(op.todo)]
  <2>1. /\ bitmap' \in Bitmaps /\ Reserved(bitmap')
        /\ count' \in [Kinds -> [Groups -> Nat]]
        /\ content' \in [Blocks -> BlockRecords]
        /\ trouble' \subseteq Troubles /\ faults' \in 0..MaxFaults
    BY <1>2, <1>4, FreeBlockType
  <2> QED BY <1>2, <1>4, <2>1 DEF DiskInv
<1> QED BY <1>3, <1>4 DEF FreeBlocks

(* The inode of the file that is being deleted.                            *)
LEMMA FreeInodeKeeps ==
  ASSUME DiskInv, FreeInode
  PROVE  DiskInv'
<1>1. CallOK(op) /\ op.pc = "free_blocks" /\ op.ino \in Inodes
  BY DEF DiskInv, FreeInode, CallOK
<1>2. /\ bitmap' \in Bitmaps /\ Reserved(bitmap')
      /\ count' \in [Kinds -> [Groups -> Nat]]
      /\ trouble' \subseteq Troubles /\ faults' \in 0..MaxFaults
  BY <1>1, FreeInodeType DEF FreeInode
<1>3. UNCHANGED <<itable, content, mounted>> /\ op' = [op EXCEPT !.pc = "remove"]
  BY DEF FreeInode, Go
<1>4. CallOK(op')
  BY <1>1, <1>3, MoveType DEF Pcs
<1> QED BY <1>2, <1>3, <1>4 DEF DiskInv

(* The directory entry of the file that is being deleted.                  *)
LEMMA RemoveEntryKeeps ==
  ASSUME DiskInv, RemoveEntry
  PROVE  DiskInv'
<1> DEFINE d == RootDir
           hits == {t \in Used(d) : d[t].ino = op.ino}
           s == FirstSlot(hits)
           root == itable[Root].block[1]
           written == [content EXCEPT ![root].dir = Merge(d, s)]
<1>1. UNCHANGED <<bitmap, itable, count, mounted>> /\ (Fine \/ Failed) /\ op' = NoCall
  BY DEF RemoveEntry, Return
<1>2. trouble' \subseteq Troubles /\ faults' \in 0..MaxFaults
  BY <1>1, WrongType DEF DiskInv
<1>3. d \in Dirs /\ root \in Blocks /\ content \in [Blocks -> BlockRecords]
  BY RootDirType DEF DiskInv
<1>4. ASSUME s # -1 PROVE written \in [Blocks -> BlockRecords]
  <2>1. hits \subseteq 0..(Units - 1)
    BY DEF Used
  <2>2. s \in hits
    BY <2>1, <1>4, FirstSlotIn
  <2>3. s \in Used(d)
    BY <2>2
  <2> HIDE DEF d, s, root
  <2>4. Merge(d, s) \in Dirs
    BY <1>3, <2>3, MergeType
  <2> QED BY <1>3, <2>4, DirType
<1>5. content' = content \/ (s # -1 /\ content' = written)
  BY DEF RemoveEntry
<1>6. content' \in [Blocks -> BlockRecords]
  BY <1>3, <1>4, <1>5
<1> QED BY <1>1, <1>2, <1>6, NoCallType DEF DiskInv

(* Writing the inode of a file that has grown.                             *)
LEMMA GrowFileKeeps ==
  ASSUME DiskInv, GrowFile
  PROVE  DiskInv'
<1>1. UNCHANGED <<bitmap, content, count, mounted>> /\ (Fine \/ Failed) /\ op' = NoCall
  BY DEF GrowFile, Return
<1>2. trouble' \subseteq Troubles /\ faults' \in 0..MaxFaults
  BY <1>1, WrongType DEF DiskInv
<1>3. PICK n \in 1..(NDirect + 1) : op.todo = <<n>>
  BY DEF DiskInv, GrowFile, CallOK
<1>4. Head(op.todo) = n
  BY <1>3
<1>5. op.ino \in Inodes /\ itable \in [Inodes -> InodeRecords]
  BY DEF DiskInv, GrowFile, CallOK
<1>6. n \in 0..(NDirect + 1)
  BY Sizes
<1>7. [itable EXCEPT ![op.ino].size = n] \in [Inodes -> InodeRecords]
  BY <1>5, <1>6 DEF InodeRecords
<1>8. itable' \in [Inodes -> InodeRecords]
  BY <1>4, <1>5, <1>7 DEF GrowFile
<1> QED BY <1>1, <1>2, <1>8, NoCallType DEF DiskInv

(* What mkfs counts.                                                       *)
LEMMA MkfsCountType == MkfsCount \in [Kinds -> [Groups -> Nat]]
<1> SUFFICES ASSUME NEW k \in Kinds, NEW g \in Groups
             PROVE  PerGroup(k) - Cardinality(MkfsBitmap[k][g]) \in Nat
  BY DEF MkfsCount
<1>1. MkfsBitmap[k][g] \subseteq Bits(k)
  BY DEF MkfsBitmap
<1>2. IsFiniteSet(Bits(k)) /\ Cardinality(Bits(k)) = PerGroup(k)
  <2>1. PerGroup(k) \in Nat \ {0}
    BY Sizes
  <2>2. PerGroup(k) - 1 \in Int /\ 0 \in Int /\ ~(0 > PerGroup(k) - 1)
    BY <2>1
  <2>3. /\ IsFiniteSet(0..(PerGroup(k) - 1))
        /\ Cardinality(0..(PerGroup(k) - 1)) = PerGroup(k) - 1 - 0 + 1
    BY <2>2, FS_Interval
  <2> QED BY <2>1, <2>3 DEF Bits
<1>3. Cardinality(MkfsBitmap[k][g]) \in Nat /\ Cardinality(MkfsBitmap[k][g]) <= PerGroup(k)
  BY <1>1, <1>2, FS_Subset, FS_CardinalityType
<1> QED BY <1>3, Sizes

(* A power loss ends the call; ext2_init starts from the disk.             *)
LEMMA PowerKeeps ==
  ASSUME DiskInv, PowerLoss \/ ext2_init
  PROVE  DiskInv'
<1>1. CASE PowerLoss
  <2>0. {"restart"} \in SUBSET Troubles
    BY DEF Troubles
  <2>1. trouble' \subseteq Troubles /\ faults' \in 0..MaxFaults
    BY <1>1, <2>0, WrongType DEF DiskInv, PowerLoss
  <2> QED BY <1>1, <2>1, NoCallType DEF DiskInv, PowerLoss, disk
<1>2. CASE ext2_init
  <2>1. trouble' \subseteq Troubles /\ faults' \in 0..MaxFaults
    BY <1>2, WrongType DEF DiskInv, ext2_init
  <2> QED BY <1>2, <2>1, MkfsCountType DEF DiskInv, ext2_init, disk
<1> QED BY <1>1, <1>2
----------------------------------------------------------------------------
(* What mkfs leaves.                                                       *)

(* The old file's blocks in some order.                                    *)
LEMMA OldBlocksSeq ==
  /\ IsFiniteSet(OldBlocks)
  /\ SetToSeq(OldBlocks) \in [1..NDirect -> OldBlocks]
  /\ IsInjective(SetToSeq(OldBlocks))
  /\ \A b \in OldBlocks : \E j \in 1..NDirect : SetToSeq(OldBlocks)[j] = b
<1>1. IsFiniteSet(Blocks) /\ OldBlocks \subseteq Blocks
  <2>1. BlocksCount - 1 \in Int /\ 0 \in Int
    BY Sizes
  <2>2. IsFiniteSet(Blocks)
    BY <2>1, FS_Interval DEF Blocks
  <2>3. OldBlocks \subseteq DataBlocks
    BY Ext2Assumption
  <2> QED BY <2>2, <2>3, KeptFacts
<1>2. IsFiniteSet(OldBlocks) /\ Cardinality(OldBlocks) = NDirect
  BY <1>1, FS_Subset, Ext2Assumption
<1>3. \E f \in [1..NDirect -> OldBlocks] : IsInjective(f)
  <2>1. PICK f \in Bijection(1..NDirect, OldBlocks) : TRUE
    BY <1>2, FS_CardinalityType DEF ExistsBijection
  <2> QED BY <2>1 DEF Bijection, Injection, IsInjective
<1>4. /\ SetToSeq(OldBlocks) \in [1..NDirect -> OldBlocks]
      /\ IsInjective(SetToSeq(OldBlocks))
  BY <1>2, <1>3 DEF SetToSeq
<1>5. /\ IsFiniteSet(1..NDirect) /\ Cardinality(1..NDirect) = NDirect
  <2>1. NDirect \in Int /\ 1 \in Int /\ ~(1 > NDirect)
    BY Sizes
  <2>2. IsFiniteSet(1..NDirect) /\ Cardinality(1..NDirect) = NDirect - 1 + 1
    BY <2>1, FS_Interval
  <2> QED BY <2>1, <2>2
<1>6. SetToSeq(OldBlocks) \in Injection(1..NDirect, OldBlocks)
  BY <1>4 DEF Injection
<1>7. SetToSeq(OldBlocks) \in Surjection(1..NDirect, OldBlocks)
  BY <1>2, <1>5, <1>6, FS_Injection
<1>8. \A b \in OldBlocks : \E j \in 1..NDirect : SetToSeq(OldBlocks)[j] = b
  BY <1>7 DEF Surjection
<1> QED BY <1>2, <1>4, <1>8

(* The inodes mkfs makes.                                                  *)
RootInode == [isdir |-> TRUE, size |-> 1, block |-> [NoBlocks EXCEPT ![1] = RootBlock]]
OldMap == [j \in 1..(NDirect + 3) |-> IF j <= NDirect THEN SetToSeq(OldBlocks)[j]
                                      ELSE IF j = NDirect + 1 THEN OldPtr ELSE 0]
OldFile == [isdir |-> FALSE, size |-> NDirect + 1, block |-> OldMap]
RootContent == [Zero EXCEPT !.dir = MkfsDir, !.words = <<Root>>,
                            !.high = 2 * Dot + 2 + NameUnits[OldName]]
OldPointers == [Zero EXCEPT !.words = <<OldChild>>]

(* The inodes mkfs writes are well-typed.                                  *)
LEMMA MkfsInodes ==
  /\ RootInode \in InodeRecords /\ OldFile \in InodeRecords
  /\ RootBlock \in Blocks /\ OldPtr \in Blocks /\ OldChild \in Blocks /\ OldBlocks \subseteq Blocks
<1>1. RootBlock \in Blocks /\ OldPtr \in Blocks /\ OldChild \in Blocks /\ OldBlocks \subseteq Blocks
  BY Ext2Assumption, KeptFacts
<1>2. [NoBlocks EXCEPT ![1] = RootBlock] \in BlockMaps
  BY <1>1, NoBlocksType, Sizes DEF BlockMaps
<1>3. RootInode \in InodeRecords
  <2> DEFINE f == [NoBlocks EXCEPT ![1] = RootBlock]
  <2>1. 1 \in 0..(NDirect + 1) /\ f \in BlockMaps
    BY <1>2, Sizes
  <2> HIDE DEF f
  <2>2. [isdir |-> TRUE, size |-> 1, block |-> f] \in InodeRecords
    BY <2>1 DEF InodeRecords
  <2> QED BY <2>2 DEF f, RootInode
<1>4. OldMap \in BlockMaps
  <2>1. \A j \in 1..NDirect : SetToSeq(OldBlocks)[j] \in Blocks
    BY <1>1, OldBlocksSeq
  <2>2. OldMap \in [1..(NDirect + 3) -> Blocks]
    BY <1>1, <2>1, Sizes, KeptFacts DEF OldMap
  <2>3. OldMap[NDirect + 2] = 0 /\ OldMap[NDirect + 3] = 0
    BY Sizes DEF OldMap
  <2> QED BY <2>2, <2>3 DEF BlockMaps
<1>5. OldFile \in InodeRecords
  <2>1. NDirect + 1 \in 0..(NDirect + 1)
    BY Sizes
  <2> QED BY <1>4, <2>1 DEF OldFile, InodeRecords
<1> QED BY <1>1, <1>3, <1>5

(* So are the blocks it writes.                                            *)
LEMMA MkfsBlocks ==
  /\ MkfsDir \in Dirs
  /\ RootContent \in BlockRecords /\ OldPointers \in BlockRecords /\ Super \in BlockRecords
<1>0. Dot \in Nat /\ Units - 2 * Dot \in Nat /\ 2 * Dot + 2 + NameUnits[OldName] \in Nat
  BY DirSizes
<1>1. Entry(".", Root, Dot) \in DirEntries /\ Entry("..", Root, Dot) \in DirEntries
      /\ Entry(OldName, OldInode, Units - 2 * Dot) \in DirEntries
  BY <1>0, NoEntryType, Ext2Assumption DEF AnyName
<1>2. MkfsDir \in Dirs
  BY <1>1, NoEntryType DEF MkfsDir, Dirs
<1>3. <<OldChild>> \in Seq(Nat) /\ <<Root>> \in Seq(Nat)
      /\ <<GroupsCount * InodesPerGroup>> \in Seq(Nat)
  <2>1. OldChild \in Nat /\ Root \in Nat
    BY MkfsInodes, KeptFacts DEF Root
  <2>2. GroupsCount * InodesPerGroup \in Nat
    BY Sizes, SMTT(30)
  <2>3. PICK m : m = GroupsCount * InodesPerGroup
    OBVIOUS
  <2> QED BY <2>1, <2>2, <2>3
<1>4. RootContent \in BlockRecords
  <2> DEFINE h == 2 * Dot + 2 + NameUnits[OldName]
  <2>1. h \in Nat
    BY <1>0
  <2>2. RootContent = [Zero EXCEPT !.dir = MkfsDir, !.words = <<Root>>, !.high = h]
    BY DEF RootContent
  <2> HIDE DEF h
  <2> QED BY <1>2, <1>3, <2>1, <2>2, ZeroType DEF BlockRecords
<1>5. OldPointers \in BlockRecords
  BY <1>3, ZeroType DEF BlockRecords, OldPointers
<1>6. Super \in BlockRecords
  BY <1>3, ZeroType DEF BlockRecords, Super
<1> QED BY <1>2, <1>4, <1>5, <1>6

(* mkfs marks every reserved bit.                                          *)
LEMMA MkfsBitmapType == MkfsBitmap \in Bitmaps /\ Reserved(MkfsBitmap)
<1>1. /\ \A k \in Kinds, g \in Groups :
           MkfsBitmap[k][g] = {bit \in Bits(k) : MkfsMarks(k, g, bit)}
      /\ \A k \in Kinds : Bits(k) \subseteq Nat
  BY Sizes DEF MkfsBitmap, Bits
<1>2. MkfsBitmap \in [Kinds -> [Groups -> SUBSET Nat]]
  BY <1>1 DEF MkfsBitmap
<1>3. MkfsBitmap \in Bitmaps
  BY <1>1, <1>2 DEF Bitmaps
<1>4. ASSUME NEW g \in Groups, NEW bit \in Bits("block"),
             g * BlocksPerGroup + bit + FirstDataBlock \notin Kept
      PROVE  bit \in MkfsBitmap["block"][g]
  <2> DEFINE b == g * BlocksPerGroup + bit + FirstDataBlock
  <2>1. g * BlocksPerGroup + bit \in Nat
    BY PlaceOfBlock
  <2>2. b \in Nat /\ b >= FirstDataBlock
    BY <2>1, Sizes
  <2> HIDE DEF b
  <2>3. b \notin Blocks
    <3>1. b \notin Kept
      BY <1>4 DEF b
    <3> QED BY <3>1, <2>2, Sizes DEF Kept, Blocks
  <2>4. MkfsMarks("block", g, bit)
    BY <2>3, Sizes DEF MkfsMarks, b, UsedAtFirst
  <2> QED BY <1>1, <2>4, Sizes
<1> QED BY <1>3, <1>4 DEF Reserved

(* The disk mkfs makes satisfies the invariant.                            *)
LEMMA InitKeeps == Init => DiskInv
<1> SUFFICES ASSUME Init PROVE DiskInv
  OBVIOUS
<1>1. bitmap \in Bitmaps /\ Reserved(bitmap)
  BY MkfsBitmapType DEF Init
<1>2. itable = [i \in Inodes |-> IF i = Root THEN RootInode
                                 ELSE IF i = OldInode THEN OldFile ELSE Fresh(FALSE)]
  BY DEF Init, RootInode, OldFile, OldMap
<1>3. itable \in [Inodes -> InodeRecords]
  BY <1>2, MkfsInodes, FreshType
<1>4. content = [b \in Blocks |-> IF b = RootBlock THEN RootContent
                                  ELSE IF b = OldPtr THEN OldPointers
                                  ELSE IF b = 0 THEN Super ELSE Zero]
  BY Zenon DEF Init, RootContent, OldPointers
<1>5. content \in [Blocks -> BlockRecords]
  BY <1>4, MkfsBlocks, ZeroType
<1>6. count \in [Kinds -> [Groups -> Nat]]
  BY MkfsCountType DEF Init
<1>7. CallOK(op) /\ mounted \in BOOLEAN /\ trouble \subseteq Troubles /\ faults \in 0..MaxFaults
  <2>1. MaxFaults \in Nat
    BY Ext2Assumption
  <2>2. op = NoCall /\ mounted = FALSE /\ trouble = {} /\ faults = 0
    BY Zenon DEF Init
  <2>3. CallOK(op) /\ mounted \in BOOLEAN
    BY <2>2, NoCallType, Zenon
  <2>4. trouble \subseteq Troubles /\ faults \in 0..MaxFaults
    BY <2>1, <2>2
  <2> QED BY <2>3, <2>4
<1> QED BY <1>1, <1>3, <1>5, <1>6, <1>7 DEF DiskInv

----------------------------------------------------------------------------
(* Every step keeps what the disk must be, whatever fails.                 *)
LEMMA DiskStep == DiskInv /\ [Next]_vars => DiskInv'
<1> SUFFICES ASSUME DiskInv, [Next]_vars PROVE DiskInv'
  OBVIOUS
<1>1. ASSUME NEW name \in Names, NEW isdir \in BOOLEAN, ext2_create_file(name, isdir)
      PROVE  DiskInv'
  BY <1>1, CreateFileKeeps
<1>2. ASSUME NEW name \in Names, ext2_delete_file(name) PROVE DiskInv'
  BY <1>2, DeleteFileKeeps
<1>3. ASSUME NEW name \in Names, ext2_find_file(name) # 0, NEW n \in 0..NDirect,
             NEW w \in Words, ext2_write_file(ext2_find_file(name), n, w)
      PROVE  DiskInv'
  <2>1. ext2_find_file(name) \in Inodes
    BY <1>3, FindType DEF DiskInv
  <2> QED BY <1>3, <2>1, WriteFileKeeps
<1>4. CASE Allocate BY <1>4, AllocateKeeps
<1>5. CASE WriteInode BY <1>5, WriteInodeKeeps
<1>6. CASE ext2_create_directory_entry BY <1>6, EntryKeeps
<1>7. CASE WriteDirBlock BY <1>7, WriteDirBlockKeeps
<1>8. CASE WriteDirInode BY <1>8, WriteDirInodeKeeps
<1>9. CASE UndoBlock BY <1>9, UndoBlockKeeps
<1>10. CASE UndoInode BY <1>10, UndoInodeKeeps
<1>11. CASE FreeBlocks BY <1>11, FreeBlocksKeeps
<1>12. CASE FreeInode BY <1>12, FreeInodeKeeps
<1>13. CASE RemoveEntry BY <1>13, RemoveEntryKeeps
<1>14. CASE GrowFile BY <1>14, GrowFileKeeps
<1>15. CASE PowerLoss \/ ext2_init BY <1>15, PowerKeeps
<1>16. CASE EntryTorn BY <1>16, EntryTornKeeps
<1>17. CASE UNCHANGED vars
  BY <1>17 DEF vars, disk, wrong, DiskInv
<1> QED BY <1>1, <1>2, <1>3, <1>4, <1>5, <1>6, <1>7, <1>8, <1>9, <1>10, <1>11, <1>12,
           <1>13, <1>14, <1>15, <1>16, <1>17 DEF Next

(* DiskInv holds in every reachable state.                                 *)
LEMMA DiskAlways == Spec => []DiskInv
BY InitKeeps, DiskStep, PTL DEF Spec

(* DiskInv has the types.                                                  *)
LEMMA DiskInvType == DiskInv => TypeOK
<1> SUFFICES ASSUME DiskInv PROVE TypeOK
  OBVIOUS
<1>1. \A k \in Kinds : bitmap[k] \in [Groups -> SUBSET Bits(k)]
  BY DEF DiskInv, Bitmaps
<1>2. /\ itable \in [Inodes -> InodeRecords]
      /\ BlockMaps \subseteq [1..(NDirect + 3) -> Blocks]
  BY DEF DiskInv, BlockMaps
<1>3. InodeRecords \subseteq [isdir : BOOLEAN, size : 0..(NDirect + 1),
                              block : [1..(NDirect + 3) -> Blocks]]
  BY <1>2 DEF InodeRecords
<1>4. itable \in [Inodes -> [isdir : BOOLEAN, size : 0..(NDirect + 1),
                             block : [1..(NDirect + 3) -> Blocks]]]
  BY <1>2, <1>3
<1>5. DirEntries \subseteq Entries
  BY DEF DirEntries, Entries, NoEntry, AnyName
<1>6. \A b \in Blocks : content[b].dir \in [0..(Units - 1) -> Entries]
  BY <1>5 DEF DiskInv, BlockRecords, Dirs
<1>7. \A k \in Kinds : count[k] \in [Groups -> Nat]
  BY DEF DiskInv
<1>8. op.ino \in Inodes \cup {0} /\ op.blk \in Blocks /\ op.g \in 0..GroupsCount
  BY DEF DiskInv, CallOK, CallRecords
<1> QED BY <1>1, <1>4, <1>6, <1>7, <1>8 DEF TypeOK, DiskInv, Troubles

(* The variables keep their types and no count of free inodes or blocks    *)
(* runs below zero, whatever transfer fails, wherever the power goes.      *)
THEOREM Ext2TypeCorrect == Spec => []TypeOK
BY DiskAlways, DiskInvType, PTL

----------------------------------------------------------------------------
(* The file system's own blocks, as long as ext2_allocate_block has given  *)
(* no number and none was found in block 0.                                *)

Followed == trouble \cap {"shifted", "stray"} = {}

MetaMarked(bm) == \A b \in Meta : BitOf(b) \in bm["block"][GroupOf(b)]

(* Direct blocks are those mkfs gave; a pointer block is that of mkfs.     *)
MapSafe(f) ==
  /\ \A j \in 1..NDirect : f[j] \in OldBlocks \cup {RootBlock, 0}
  /\ f[NDirect + 1] \in {OldPtr, 0}
MapsSafe(it) == \A i \in Inodes : MapSafe(it[i].block)

PointersSafe(ct) == ct[OldPtr].words \in {<<>>, <<OldChild>>}

CallSafe(o) ==
  /\ o.pc \notin {"dir_block", "dir_inode", "undo_block"}
  /\ o.pc = "free_blocks" => o.todo \in Seq(Nat \ Meta)

MetaSafe ==
  /\ "meta" \notin trouble
  /\ MetaMarked(bitmap) /\ MapsSafe(itable) /\ PointersSafe(content) /\ CallSafe(op)

MetaInv == DiskInv /\ (Followed => MetaSafe)

(* The blocks of mkfs are none of the metadata.                            *)
LEMMA OldOnes ==
  /\ OldBlocks \cap Meta = {} /\ RootBlock \notin Meta /\ OldPtr \notin Meta /\ OldChild \notin Meta
  /\ OldPtr \notin OldBlocks /\ OldPtr # RootBlock /\ OldPtr # OldChild /\ OldPtr # 0
  /\ OldPtr \in Blocks /\ OldPtr \in Nat /\ OldChild \in Nat /\ RootBlock \in Nat
  /\ OldBlocks \subseteq Nat /\ 0 \notin Meta /\ 0 \notin OldBlocks
  /\ RootBlock # 0 /\ OldChild # 0 /\ RootBlock \notin OldBlocks /\ OldChild \notin OldBlocks
  /\ OldChild # RootBlock
<1>1. {RootBlock, OldPtr, OldChild} \cup OldBlocks \subseteq DataBlocks
  BY Ext2Assumption
<1>2. DataBlocks \cap Meta = {} /\ DataBlocks \subseteq Kept
  BY KeptFacts DEF DataBlocks
<1>3. /\ OldPtr # OldChild /\ RootBlock \notin {OldPtr, OldChild}
      /\ {RootBlock, OldPtr, OldChild} \cap OldBlocks = {}
  BY Ext2Assumption
<1> QED BY <1>1, <1>2, <1>3, KeptFacts, MkfsInodes

(* Setting bits.                                                           *)
LEMMA MetaMarkedMore ==
  ASSUME NEW bm \in Bitmaps, MetaMarked(bm), NEW k \in Kinds, NEW g \in Groups, NEW S
  PROVE  MetaMarked([bm EXCEPT ![k][g] = @ \cup S])
<1> SUFFICES ASSUME NEW b \in Meta
             PROVE  BitOf(b) \in [bm EXCEPT ![k][g] = @ \cup S]["block"][GroupOf(b)]
  BY DEF MetaMarked
<1>1. BitOf(b) \in bm["block"][GroupOf(b)]
  BY DEF MetaMarked
<1>2. b \in Blocks /\ b >= FirstDataBlock
  BY KeptFacts, Sizes DEF Blocks, Kept
<1>3. GroupOf(b) \in Groups
  BY <1>2, BlockPlace
<1>4. bm \in [Kinds -> [Groups -> SUBSET Nat]]
  BY DEF Bitmaps
<1>5. PICK h, x : h = GroupOf(b) /\ x = BitOf(b)
  OBVIOUS
<1> QED BY <1>1, <1>3, <1>4, <1>5, Sizes

(* Clearing the bit of another block.                                      *)
LEMMA MetaMarkedLess ==
  ASSUME NEW bm \in Bitmaps, MetaMarked(bm), NEW b \in Kept \ Meta
  PROVE  MetaMarked([bm EXCEPT !["block"][GroupOf(b)] = @ \ {BitOf(b)}])
<1> SUFFICES ASSUME NEW c \in Meta
             PROVE  BitOf(c) \in [bm EXCEPT !["block"][GroupOf(b)] = @ \ {BitOf(b)}]
                                   ["block"][GroupOf(c)]
  BY DEF MetaMarked
<1>1. BitOf(c) \in bm["block"][GroupOf(c)]
  BY DEF MetaMarked
<1>2. c \in Blocks /\ c >= FirstDataBlock /\ b \in Blocks /\ b >= FirstDataBlock /\ b # c
  BY KeptFacts, Sizes DEF Blocks, Kept
<1>3. /\ GroupOf(b) \in Groups /\ GroupOf(b) * BlocksPerGroup + BitOf(b) + FirstDataBlock = b
      /\ GroupOf(c) \in Groups /\ GroupOf(c) * BlocksPerGroup + BitOf(c) + FirstDataBlock = c
  BY <1>2, BlockPlace
<1>4. bm \in [Kinds -> [Groups -> SUBSET Nat]]
  BY DEF Bitmaps
<1>5. PICK g, x, h, y : g = GroupOf(b) /\ x = BitOf(b) /\ h = GroupOf(c) /\ y = BitOf(c)
  OBVIOUS
<1>6. g # h \/ x # y
  BY <1>2, <1>3, <1>5, Zenon
<1>7. y \in bm["block"][h] /\ g \in Groups /\ h \in Groups
  BY <1>1, <1>3, <1>5
<1>8. y \in [bm EXCEPT !["block"][g] = @ \ {x}]["block"][h]
  BY <1>4, <1>6, <1>7, Sizes
<1> QED BY <1>5, <1>8

(* What a block number of a file is, unless found in block 0.              *)
LEMMA SafeBlock ==
  ASSUME NEW r \in InodeRecords, MapSafe(r.block), PointersSafe(content), NEW n \in 0..NDirect,
         "stray" \notin Misplaced(r, n)
  PROVE  InodeBlock(r, n) \in OldBlocks \cup {RootBlock, OldChild, 0}
<1> DEFINE p == content[r.block[NDirect + 1]].words
<1>0. InodeBlock(r, n) = IF n < NDirect THEN r.block[n + 1]
                         ELSE IF n - NDirect < Len(p) THEN p[n - NDirect + 1] ELSE 0
  BY DEF InodeBlock
<1>1. CASE n < NDirect
  <2>1. n + 1 \in 1..NDirect
    BY <1>1, Sizes
  <2> QED BY <1>0, <1>1, <2>1 DEF MapSafe
<1>2. CASE ~(n < NDirect) /\ r.block[NDirect + 1] = OldPtr
  <2>1. p \in {<<>>, <<OldChild>>}
    BY <1>2 DEF PointersSafe
  <2>2. n = NDirect
    BY <1>2, Sizes
  <2>3. n - NDirect = 0
    BY <2>2, Sizes
  <2> HIDE DEF p
  <2>4. InodeBlock(r, n) \in {0, OldChild}
    BY <1>0, <1>2, <2>1, <2>3
  <2> QED BY <2>4
<1>3. CASE ~(n < NDirect) /\ r.block[NDirect + 1] # OldPtr
  <2>1. r.block[NDirect + 1] = 0
    BY <1>3 DEF MapSafe
  <2>2. n >= NDirect
    BY <1>3, Sizes
  <2>3. InodeBlock(r, n) = 0
    BY <2>1, <2>2 DEF Misplaced
  <2> QED BY <2>3
<1> QED BY <1>1, <1>2, <1>3

(* A step that writes nothing but what the call goes by.                   *)
LEMMA MetaStutter ==
  ASSUME MetaSafe, UNCHANGED <<bitmap, itable, content>>, trouble' \subseteq trouble \cup (Troubles \ {"meta"}),
         CallSafe(op')
  PROVE  MetaSafe'
<1>1. "meta" \notin trouble'
  BY DEF MetaSafe
<1> QED BY <1>1 DEF MetaSafe

(* What a step notes.                                                      *)
LEMMA Notes ==
  /\ Fine => trouble' = trouble
  /\ Failed => trouble' = trouble \cup {"io"}
  /\ \A K : Note(K) => trouble' = trouble \cup K
  /\ \A K : Fault(K) => trouble' = trouble \cup K
  /\ \A K : Lost(K) => trouble' = trouble \cup K
BY DEF Fine, Failed, Note, Fault, Lost, wrong

(* Freeing a bit of an inode, or of a block that is not the file system's. *)
LEMMA MetaFreeBit ==
  ASSUME NEW k \in Kinds, NEW g \in Groups, NEW bit, NEW ok \in BOOLEAN, FreeBit(k, g, bit, ok),
         bitmap \in Bitmaps, MetaMarked(bitmap),
         k = "inode" \/ \E b \in Kept \ Meta : k = "block" /\ g = GroupOf(b) /\ bit = BitOf(b)
  PROVE  MetaMarked(bitmap')
<1>1. bitmap' = bitmap \/ bitmap' = [bitmap EXCEPT ![k][g] = @ \ {bit}]
  BY DEF FreeBit
<1>2. CASE bitmap' = bitmap
  BY <1>2 DEF MetaMarked
<1>3. CASE bitmap' = [bitmap EXCEPT ![k][g] = @ \ {bit}] /\ k = "inode"
  <2>1. bitmap \in [Kinds -> [Groups -> SUBSET Nat]]
    BY DEF Bitmaps
  <2>2. bitmap'["block"] = bitmap["block"]
    BY <1>3, <2>1, Sizes
  <2> QED BY <2>2 DEF MetaMarked
<1>4. CASE bitmap' = [bitmap EXCEPT ![k][g] = @ \ {bit}] /\ k # "inode"
  <2>1. PICK b \in Kept \ Meta : k = "block" /\ g = GroupOf(b) /\ bit = BitOf(b)
    BY <1>4
  <2>2. MetaMarked([bitmap EXCEPT !["block"][GroupOf(b)] = @ \ {BitOf(b)}])
    BY MetaMarkedLess
  <2> QED BY <1>4, <2>1, <2>2
<1> QED BY <1>1, <1>2, <1>3, <1>4

(* free_inode_bitmap.                                                      *)
LEMMA MetaFreeInode ==
  ASSUME DiskInv, MetaSafe, NEW i \in Inodes, free_inode_bitmap(i)
  PROVE  MetaMarked(bitmap') /\ "meta" \notin trouble'
<1>1. PICK ok \in BOOLEAN : /\ FreeBit("inode", InodeGroup(i), InodeBit(i), ok)
                            /\ IF ok THEN Fine ELSE Failed
  BY DEF free_inode_bitmap
<1>2. InodeGroup(i) \in Groups
  BY InodePlace
<1>3. MetaMarked(bitmap')
  BY <1>1, <1>2, MetaFreeBit, Sizes DEF DiskInv, MetaSafe
<1>4. "meta" \notin trouble'
  BY <1>1, Notes DEF MetaSafe
<1> QED BY <1>3, <1>4

(* ext2_free_block for a block that is not the file system's.              *)
LEMMA MetaFreeBlock ==
  ASSUME DiskInv, MetaSafe, NEW b \in Nat \ Meta, ext2_free_block(b)
  PROVE  MetaMarked(bitmap') /\ "meta" \notin trouble' /\ PointersSafe(content')
<1>1. CASE b \notin FirstDataBlock..(BlocksCount - 1)
  BY <1>1 DEF ext2_free_block, MetaSafe, wrong, MetaMarked, PointersSafe
<1>2. CASE b \in FirstDataBlock..(BlocksCount - 1)
  <2>1. b \in Kept \ Meta /\ b \in Blocks /\ b >= FirstDataBlock
    BY <1>2, KeptFacts, Sizes DEF Kept
  <2>2. GroupOf(b) \in Groups
    BY <2>1, BlockPlace
  <2>3. \E ok \in BOOLEAN : FreeBit("block", GroupOf(b), BitOf(b), ok)
    BY <1>2 DEF ext2_free_block
  <2>4. MetaMarked(bitmap')
    BY <2>1, <2>2, <2>3, MetaFreeBit, Sizes DEF DiskInv, MetaSafe
  <2>5. "meta" \notin trouble'
    <3>1. Fine \/ Failed
      BY <1>2 DEF ext2_free_block
    <3> QED BY <3>1, Notes DEF MetaSafe
  <2>6. content' = content \/ content' = [content EXCEPT ![b] = Zero]
    BY <1>2 DEF ext2_free_block
  <2>7. content \in [Blocks -> BlockRecords] /\ OldPtr \in Blocks
    BY OldOnes DEF DiskInv
  <2>8. content'[OldPtr].words = content[OldPtr].words \/ content'[OldPtr].words = <<>>
    BY <2>6, <2>7 DEF Zero
  <2>9. PointersSafe(content')
    BY <2>8 DEF PointersSafe, MetaSafe
  <2> QED BY <2>4, <2>5, <2>9
<1> QED BY <1>1, <1>2

(* Every step keeps it, or gives a block or finds a number in block 0.     *)
LEMMA MetaStep ==
  ASSUME DiskInv, MetaSafe, Next, Followed'
  PROVE  MetaSafe'
<1>0. /\ DiskInv' /\ CallSafe(op) /\ content \in [Blocks -> BlockRecords]
      /\ itable \in [Inodes -> InodeRecords] /\ CallOK(op) /\ bitmap \in Bitmaps
      /\ "meta" \notin trouble /\ MetaMarked(bitmap) /\ MapsSafe(itable) /\ PointersSafe(content)
      /\ "shifted" \notin trouble' /\ "stray" \notin trouble'
  BY DiskStep DEF MetaSafe, DiskInv, Followed
<1>a. CallSafe(NoCall)
  BY DEF CallSafe, NoCall
<1>1. ASSUME NEW name \in Names, NEW isdir \in BOOLEAN, ext2_create_file(name, isdir)
      PROVE  MetaSafe'
  <2>1. UNCHANGED <<bitmap, itable, content>> /\ (Fine \/ Failed)
    BY <1>1 DEF ext2_create_file, disk
  <2>2. CallSafe(op')
    <3>1. CASE op' = [NoCall EXCEPT !.pc = "inode", !.name = name, !.isdir = isdir]
      BY <3>1 DEF CallSafe, NoCall
    <3>2. CASE UNCHANGED op
      BY <3>2, <1>0
    <3> QED BY <1>1, <3>1, <3>2 DEF ext2_create_file
  <2> QED BY <2>1, <2>2, Notes, MetaStutter DEF Troubles
<1>2. ASSUME NEW name \in Names, ext2_delete_file(name) PROVE MetaSafe'
  <2>1. UNCHANGED <<bitmap, itable, content>> /\ (Fine \/ Failed)
    BY <1>2 DEF ext2_delete_file, disk
  <2>2. CallSafe(op')
    <3> DEFINE ino == ext2_find_file(name)
    <3>1. CASE UNCHANGED op
      BY <3>1, <1>0
    <3>2. CASE ino # 0 /\ \E bad :
               op' = [NoCall EXCEPT !.pc = "free_blocks", !.name = name, !.ino = ino,
                                    !.todo = FreeOrder(itable[ino], bad)]
      <4>1. ino \in Inodes
        BY <3>2, FindType DEF DiskInv
      <4> HIDE DEF ino
      <4>2. PICK bad : op' = [NoCall EXCEPT !.pc = "free_blocks", !.name = name, !.ino = ino,
                                            !.todo = FreeOrder(itable[ino], bad)]
        BY <3>2
      <4>3. itable[ino] \in InodeRecords /\ MapSafe(itable[ino].block)
        BY <1>0, <4>1 DEF MapsSafe
      <4>4. \A j \in 1..(NDirect + 1) : itable[ino].block[j] \in (Nat \ Meta) \cup {0}
        <5> SUFFICES ASSUME NEW j \in 1..(NDirect + 1)
                     PROVE  itable[ino].block[j] \in (Nat \ Meta) \cup {0}
          OBVIOUS
        <5>1. j \in 1..NDirect \/ j = NDirect + 1
          BY Sizes
        <5>2. itable[ino].block[j] \in OldBlocks \cup {RootBlock, OldPtr, 0}
          BY <4>3, <5>1 DEF MapSafe
        <5> QED BY <5>2, OldOnes
      <4>5. itable[ino].block[NDirect + 1] # 0 =>
              content[itable[ino].block[NDirect + 1]].words \in Seq(Nat \ Meta)
        <5>1. OldChild \in Nat \ Meta
          BY OldOnes
        <5>2. <<>> \in Seq(Nat \ Meta) /\ <<OldChild>> \in Seq(Nat \ Meta)
          BY <5>1
        <5> QED BY <1>0, <4>3, <5>2 DEF MapSafe, PointersSafe
      <4>6. FreeOrder(itable[ino], bad) \in Seq(Nat \ Meta)
        BY <1>0, <4>3, <4>4, <4>5, FreeOrderIn
      <4> QED BY <4>2, <4>6 DEF CallSafe, NoCall
    <3> QED BY <1>2, <3>1, <3>2 DEF ext2_delete_file
  <2> QED BY <2>1, <2>2, Notes, MetaStutter DEF Troubles
<1>3. ASSUME NEW name \in Names, ext2_find_file(name) # 0, NEW n \in 0..NDirect,
             NEW w \in Words, ext2_write_file(ext2_find_file(name), n, w)
      PROVE  MetaSafe'
  <2> DEFINE i == ext2_find_file(name)
             b == InodeBlock(itable[i], n)
             wrongs == Misplaced(itable[i], n)
             written == [content EXCEPT ![b] = UserData(i, w)]
  <2>1. i \in Inodes
    BY <1>3, FindType DEF DiskInv
  <2>2. CASE LostBy(b, wrongs)
    <3>1. "stray" \notin wrongs
      <4> HIDE DEF b, wrongs
      <4> QED BY <1>0, <2>2, Notes DEF LostBy
    <3>2. itable[i] \in InodeRecords /\ MapSafe(itable[i].block)
      BY <1>0, <2>1 DEF MapsSafe
    <3> HIDE DEF i
    <3>3. b \in OldBlocks \cup {RootBlock, OldChild, 0}
      BY <1>0, <3>1, <3>2, SafeBlock
    <3>4. b \notin Meta
      BY <3>3, OldOnes
    <3>5. trouble' = trouble \cup wrongs \cup {"torn"} /\ UNCHANGED <<bitmap, itable, content>>
          /\ op' = [op EXCEPT !.pc = "lost"]
      <4> HIDE DEF b, wrongs
      <4> QED BY <2>2, <3>4 DEF LostBy, Lost, Note, disk
    <3>6. wrongs \subseteq Troubles \ {"meta"}
      BY DEF Misplaced, Troubles
    <3>7. CallSafe(op')
      BY <1>0, <3>5 DEF CallSafe, CallOK, CallRecords
    <3> HIDE DEF wrongs
    <3> QED BY <3>5, <3>6, <3>7, MetaStutter DEF Troubles
  <2>3. CASE /\ UNCHANGED <<bitmap, itable, count, mounted>>
             /\ \/ content' = content /\ (Fine \/ Failed)
                \/ content' = written /\ (Note(wrongs) \/ Fault({"io"} \cup wrongs))
             /\ op' = NoCall \/ op' = [NoCall EXCEPT !.pc = "grow", !.ino = i, !.todo = <<n + 1>>]
    <3>1. CallSafe(op')
      BY <2>3, <1>a DEF CallSafe, NoCall
    <3>2. CASE content' = content /\ (Fine \/ Failed)
      BY <2>3, <3>1, <3>2, Notes, MetaStutter DEF Troubles
    <3>3. CASE content' = written /\ (Note(wrongs) \/ Fault({"io"} \cup wrongs))
      <4>1. trouble' = trouble \cup wrongs \/ trouble' = trouble \cup ({"io"} \cup wrongs)
        <5> HIDE DEF wrongs
        <5> QED BY <3>3, Notes
      <4>2. "stray" \notin wrongs /\ "meta" \notin wrongs
        BY <1>0, <4>1 DEF Misplaced
      <4>3. itable[i] \in InodeRecords /\ MapSafe(itable[i].block)
        BY <1>0, <2>1 DEF MapsSafe
      <4> HIDE DEF i
      <4>4. b \in OldBlocks \cup {RootBlock, OldChild, 0}
        BY <1>0, <4>2, <4>3, SafeBlock
      <4>5. b # OldPtr
        BY <4>4, OldOnes
      <4> HIDE DEF b
      <4>6. content'[OldPtr] = content[OldPtr]
        BY <1>0, <3>3, <4>5
      <4>7. PointersSafe(content')
        BY <1>0, <4>6 DEF PointersSafe
      <4> HIDE DEF wrongs
      <4>8. "meta" \notin trouble'
        BY <1>0, <4>1, <4>2
      <4> QED BY <1>0, <2>3, <3>1, <4>7, <4>8 DEF MetaSafe, MetaMarked, MapsSafe
    <3> QED BY <2>3, <3>2, <3>3
  <2> QED BY <1>3, <2>2, <2>3 DEF ext2_write_file, Return
<1>4. CASE Allocate
  <2> DEFINE k == op.pc
             g == op.g
  <2>1. /\ k \in Kinds /\ UNCHANGED <<itable, content>> /\ op \in CallRecords
    BY <1>0, <1>4 DEF Allocate, CallOK
  <2>2. ASSUME g < GroupsCount, NEW bit \in ZeroBits(k, g), AllocTakes(k, g, bit)
        PROVE  MetaSafe'
    <3>1. k = "inode"
      <4>1. trouble' = trouble \cup Misnumbered(k) \/ trouble' = trouble \cup ({"io"} \cup Misnumbered(k))
        BY <2>2, Notes DEF AllocTakes
      <4> QED BY <1>0, <2>1, <4>1 DEF Kinds, Misnumbered
    <3>2. g \in Groups
      BY <2>1, <2>2, Sizes DEF CallRecords, Groups
    <3>3. bitmap' = [bitmap EXCEPT ![k][g] = @ \cup UpTo(ZeroBits(k, g), bit)]
      BY <2>2 DEF AllocTakes
    <3>4. MetaMarked(bitmap')
      BY <1>0, <2>1, <3>2, <3>3, MetaMarkedMore
    <3>5. "meta" \notin trouble'
      BY <1>0, <2>2, <3>1, Notes DEF AllocTakes, Misnumbered
    <3>6. op' = [op EXCEPT !.pc = "write_inode", !.ino = NumberOf(k, g, bit)]
      BY <2>2, <3>1 DEF AllocTakes, NextPc
    <3>7. CallSafe(op')
      BY <2>1, <3>6 DEF CallSafe, CallRecords
    <3> QED BY <1>0, <2>1, <3>4, <3>5, <3>7 DEF MetaSafe, MapsSafe, PointersSafe
  <2>3. ASSUME g < GroupsCount, AllocSkips(k, g) PROVE MetaSafe'
    <3>1. g \in Groups
      BY <2>1, <2>3, Sizes DEF CallRecords, Groups
    <3>2. MetaMarked(bitmap')
      <4>1. CASE UNCHANGED bitmap
        BY <1>0, <4>1 DEF MetaMarked
      <4>2. CASE \E bit : bitmap' = [bitmap EXCEPT ![k][g] = @ \cup UpTo(ZeroBits(k, g), bit)]
        <5>1. PICK bit : bitmap' = [bitmap EXCEPT ![k][g] = @ \cup UpTo(ZeroBits(k, g), bit)]
          BY <4>2
        <5> QED BY <1>0, <2>1, <3>1, <5>1, MetaMarkedMore
      <4> QED BY <2>3, <4>1, <4>2 DEF AllocSkips
    <3>3. (Fine \/ Failed) /\ \E h : op' = [op EXCEPT !.g = h]
      BY <2>3 DEF AllocSkips
    <3>4. "meta" \notin trouble'
      BY <1>0, <3>3, Notes
    <3>5. CallSafe(op')
      BY <1>0, <2>1, <3>3 DEF CallSafe, CallRecords
    <3> QED BY <1>0, <2>1, <3>2, <3>4, <3>5 DEF MetaSafe, MapsSafe, PointersSafe
  <2>4. ASSUME g = GroupsCount, UNCHANGED <<bitmap, count>>,
               IF k = "inode" THEN Return /\ Fine ELSE Go("undo") /\ Note({"full"})
        PROVE  MetaSafe'
    <3>1. trouble' = trouble \/ trouble' = trouble \cup {"full"}
      BY <2>4, Notes
    <3>2. op' = NoCall \/ op' = [op EXCEPT !.pc = "undo"]
      BY <2>4 DEF Return, Go
    <3>3. CallSafe(op')
      BY <1>a, <2>1, <3>2 DEF CallSafe, CallRecords
    <3> QED BY <2>1, <2>4, <3>1, <3>3, MetaStutter DEF Troubles
  <2> QED BY <1>4, <2>2, <2>3, <2>4 DEF Allocate
<1>5. CASE WriteInode
  <2> DEFINE written == [itable EXCEPT ![op.ino] = Fresh(op.isdir)]
  <2>1. UNCHANGED <<bitmap, content>> /\ (Fine \/ Failed) /\ itable' \in {itable, written}
        /\ (op' = [op EXCEPT !.pc = "entry"] \/ op' = [op EXCEPT !.pc = "undo"])
    BY <1>5 DEF WriteInode, Go
  <2>2. MapSafe(NoBlocks)
    BY Sizes DEF MapSafe, NoBlocks
  <2>3. \A i \in Inodes : written[i] = itable[i] \/ written[i] = Fresh(op.isdir)
    BY <1>0
  <2>4. MapsSafe(itable')
    <3> HIDE DEF written
    <3> QED BY <1>0, <2>1, <2>2, <2>3 DEF MapsSafe, Fresh
  <2>5. CallSafe(op')
    BY <1>0, <2>1 DEF CallSafe, CallOK, CallRecords
  <2>6. "meta" \notin trouble'
    BY <1>0, <2>1, Notes
  <2> QED BY <1>0, <2>1, <2>4, <2>5, <2>6 DEF MetaSafe, MetaMarked, PointersSafe
<1>6. CASE ext2_create_directory_entry
  <2> DEFINE d == RootDir
             root == itable[Root].block[1]
             high == content[root].high
             s == FirstSlot({t \in Used(d) : HasSlack(d, t, op.name)})
             end == NewAt(d, s) + Size(op.name)
             top == IF high < end THEN end ELSE high
             new == Split(d, s, op.name, op.ino)
             written == [content EXCEPT ![root].dir = new, ![root].high = top]
  <2>1. UNCHANGED <<bitmap, itable, count, mounted>>
    BY <1>6 DEF ext2_create_directory_entry
  <2>2. Fine \/ Failed \/ Note({"full"}) \/ Note(Uneven(d, s, op.name))
    BY <1>6 DEF ext2_create_directory_entry
  <2>3. "meta" \notin trouble'
    BY <1>0, <2>2, Notes DEF Uneven
  <2>4. content' = content \/ content' = written \/ IntoBlockZero(content) \/ IntoBlockZero(written)
    BY <1>6 DEF ext2_create_directory_entry
  <2>5. content'[OldPtr].words = content[OldPtr].words
    <3>1. written[OldPtr].words = content[OldPtr].words
      <4> HIDE DEF new, top, root
      <4> QED BY <1>0, OldOnes DEF BlockRecords
    <3>2. ASSUME NEW c, IntoBlockZero(c), DOMAIN c = Blocks, c = [x \in Blocks |-> c[x]]
          PROVE  content'[OldPtr].words = c[OldPtr].words
      BY <3>2, OldOnes DEF IntoBlockZero
    <3>3. DOMAIN written = Blocks /\ written = [x \in Blocks |-> written[x]]
      BY <1>0
    <3>4. DOMAIN content = Blocks /\ content = [x \in Blocks |-> content[x]]
      BY <1>0
    <3> HIDE DEF written
    <3> QED BY <2>4, <3>1, <3>2, <3>3, <3>4
  <2>6. CallSafe(op')
    <3>1. \/ op' = NoCall \/ op' = [op EXCEPT !.pc = "undo"] \/ op' = [op EXCEPT !.pc = "block", !.g = 0]
      BY <1>6 DEF ext2_create_directory_entry, EntryMade, Go, Return
    <3> QED BY <1>0, <1>a, <3>1 DEF CallSafe, CallOK, CallRecords
  <2> QED BY <1>0, <2>1, <2>3, <2>5, <2>6 DEF MetaSafe, MetaMarked, MapsSafe, PointersSafe
<1>7. CASE EntryTorn
  <2>1. Lost({"torn"})
    BY <1>7 DEF EntryTorn
  <2>2. trouble' = trouble \cup {"torn"} /\ UNCHANGED <<bitmap, itable, content>>
        /\ op' = [op EXCEPT !.pc = "lost"]
    BY <2>1 DEF Lost, Note, disk
  <2>3. CallSafe(op')
    BY <1>0, <2>2 DEF CallSafe, CallOK, CallRecords
  <2> QED BY <2>2, <2>3, MetaStutter DEF Troubles
<1>8. ~WriteDirBlock /\ ~WriteDirInode /\ ~UndoBlock
  BY <1>0 DEF CallSafe, WriteDirBlock, WriteDirInode, UndoBlock
<1>9. CASE UndoInode
  <2>1. op.ino \in Inodes /\ free_inode_bitmap(op.ino)
    BY <1>0, <1>9 DEF UndoInode, CallOK
  <2>2. MetaMarked(bitmap') /\ "meta" \notin trouble'
    BY <2>1, MetaFreeInode
  <2>3. UNCHANGED <<itable, content>> /\ op' = NoCall
    BY <1>9 DEF UndoInode, Return
  <2> QED BY <1>0, <1>a, <2>2, <2>3 DEF MetaSafe, MapsSafe, PointersSafe
<1>10. CASE FreeBlocks
  <2> DEFINE b == Head(op.todo)
  <2>1. op.todo \in Seq(Nat \ Meta) /\ op.todo # <<>> /\ op.pc = "free_blocks"
    BY <1>0, <1>10 DEF FreeBlocks, CallSafe
  <2>2. b \in Nat \ Meta /\ Tail(op.todo) \in Seq(Nat \ Meta)
    BY <2>1, HeadTailProperties
  <2>3. CASE LostBy(b, {})
    <3>1. trouble' = trouble \cup {"torn"} /\ UNCHANGED <<bitmap, itable, content>>
          /\ op' = [op EXCEPT !.pc = "lost"]
      <4> HIDE DEF b
      <4> QED BY <2>2, <2>3 DEF LostBy, Lost, Note, disk
    <3>2. CallSafe(op')
      BY <1>0, <3>1 DEF CallSafe, CallOK, CallRecords
    <3> QED BY <3>1, <3>2, MetaStutter DEF Troubles
  <2>4. CASE ext2_free_block(b) /\ op' = [op EXCEPT !.todo = Tail(op.todo)] /\ UNCHANGED itable
    <3>1. MetaMarked(bitmap') /\ "meta" \notin trouble' /\ PointersSafe(content')
      <4> HIDE DEF b
      <4> QED BY <2>2, <2>4, MetaFreeBlock
    <3>2. CallSafe(op')
      BY <1>0, <2>1, <2>2, <2>4 DEF CallSafe, CallOK, CallRecords
    <3> QED BY <1>0, <2>4, <3>1, <3>2 DEF MetaSafe, MapsSafe
  <2> QED BY <1>10, <2>3, <2>4 DEF FreeBlocks
<1>11. CASE FreeInode
  <2>1. op.ino \in Inodes /\ free_inode_bitmap(op.ino)
    BY <1>0, <1>11 DEF FreeInode, CallOK
  <2>2. MetaMarked(bitmap') /\ "meta" \notin trouble'
    BY <2>1, MetaFreeInode
  <2>3. UNCHANGED <<itable, content>> /\ op' = [op EXCEPT !.pc = "remove"]
    BY <1>11 DEF FreeInode, Go
  <2>4. CallSafe(op')
    BY <1>0, <2>3 DEF CallSafe, CallOK, CallRecords
  <2> QED BY <1>0, <2>2, <2>3, <2>4 DEF MetaSafe, MapsSafe, PointersSafe
<1>12. CASE RemoveEntry
  <2> DEFINE d == RootDir
             s == FirstSlot({t \in Used(d) : d[t].ino = op.ino})
             root == itable[Root].block[1]
             written == [content EXCEPT ![root].dir = Merge(d, s)]
  <2>1. UNCHANGED <<bitmap, itable>> /\ (Fine \/ Failed) /\ op' = NoCall
        /\ (content' = content \/ content' = written)
    BY <1>12 DEF RemoveEntry, Return
  <2>2. written[OldPtr].words = content[OldPtr].words
    <3> HIDE DEF s, root
    <3> QED BY <1>0, OldOnes DEF BlockRecords
  <2> HIDE DEF written
  <2>3. PointersSafe(content')
    BY <1>0, <2>1, <2>2 DEF PointersSafe
  <2>4. "meta" \notin trouble'
    BY <1>0, <2>1, Notes
  <2> QED BY <1>0, <1>a, <2>1, <2>3, <2>4 DEF MetaSafe, MetaMarked, MapsSafe
<1>13. CASE GrowFile
  <2> DEFINE grown == [itable EXCEPT ![op.ino].size = Head(op.todo)]
  <2>1. UNCHANGED <<bitmap, content>> /\ (Fine \/ Failed) /\ op' = NoCall
        /\ (itable' = itable \/ itable' = grown)
    BY <1>13 DEF GrowFile, Return
  <2>2. \A i \in Inodes : grown[i].block = itable[i].block
    <3>1. PICK n : n = Head(op.todo)
      OBVIOUS
    <3> QED BY <1>0, <3>1 DEF InodeRecords
  <2> HIDE DEF grown
  <2>3. MapsSafe(itable')
    BY <1>0, <2>1, <2>2 DEF MapsSafe
  <2>4. "meta" \notin trouble'
    BY <1>0, <2>1, Notes
  <2> QED BY <1>0, <1>a, <2>1, <2>3, <2>4 DEF MetaSafe, MetaMarked, PointersSafe
<1>14. CASE PowerLoss
  <2>1. trouble' = trouble \cup {"restart"} /\ UNCHANGED <<bitmap, itable, content>> /\ op' = NoCall
    BY <1>14, Notes DEF PowerLoss, disk
  <2> QED BY <1>a, <2>1, MetaStutter DEF Troubles
<1>15. CASE ext2_init
  <2>1. (Fine \/ Failed) /\ UNCHANGED <<bitmap, itable, content, op>>
    BY <1>15 DEF ext2_init, disk
  <2>2. CallSafe(op')
    BY <1>0, <2>1
  <2> QED BY <2>1, <2>2, Notes, MetaStutter DEF Troubles
<1> QED BY <1>1, <1>2, <1>3, <1>4, <1>5, <1>6, <1>7, <1>8, <1>9, <1>10, <1>11, <1>12, <1>13,
           <1>14, <1>15 DEF Next

(* The disk mkfs makes.                                                    *)
LEMMA MetaInit == Init => MetaSafe
<1> SUFFICES ASSUME Init PROVE MetaSafe
  OBVIOUS
<1>1. trouble = {} /\ op = NoCall /\ bitmap = MkfsBitmap
  BY Zenon DEF Init
<1>2. MetaMarked(bitmap)
  <2> SUFFICES ASSUME NEW b \in Meta PROVE BitOf(b) \in MkfsBitmap["block"][GroupOf(b)]
    BY <1>1 DEF MetaMarked
  <2>1. b \in Blocks /\ b >= FirstDataBlock
    BY KeptFacts, Sizes DEF Blocks, Kept
  <2>2. /\ GroupOf(b) \in Groups /\ BitOf(b) \in Bits("block")
        /\ GroupOf(b) * BlocksPerGroup + BitOf(b) + FirstDataBlock = b
    BY <2>1, BlockPlace
  <2>3. MkfsMarks("block", GroupOf(b), BitOf(b))
    BY <2>2, Sizes DEF MkfsMarks, UsedAtFirst
  <2> QED BY <2>2, <2>3, Sizes DEF MkfsBitmap
<1>3. MapsSafe(itable)
  <2>1. itable = [i \in Inodes |-> IF i = Root THEN RootInode
                                   ELSE IF i = OldInode THEN OldFile ELSE Fresh(FALSE)]
    BY DEF Init, RootInode, OldFile, OldMap
  <2>2. MapSafe(NoBlocks) /\ MapSafe([NoBlocks EXCEPT ![1] = RootBlock])
    BY Sizes DEF MapSafe, NoBlocks
  <2>3. MapSafe(OldMap)
    <3>1. \A j \in 1..NDirect : OldMap[j] \in OldBlocks
      BY OldBlocksSeq, Sizes DEF OldMap
    <3>2. OldMap[NDirect + 1] = OldPtr
      BY Sizes DEF OldMap
    <3> QED BY <3>1, <3>2 DEF MapSafe
  <2> QED BY <2>1, <2>2, <2>3 DEF MapsSafe, RootInode, OldFile, Fresh
<1>4. PointersSafe(content)
  <2>1. content = [b \in Blocks |-> IF b = RootBlock THEN RootContent
                                    ELSE IF b = OldPtr THEN OldPointers
                                    ELSE IF b = 0 THEN Super ELSE Zero]
    BY Zenon DEF Init, RootContent, OldPointers
  <2>2. content[OldPtr] = OldPointers
    BY <2>1, OldOnes
  <2>3. OldPointers.words = <<OldChild>>
    BY DEF OldPointers, Zero
  <2> QED BY <2>2, <2>3 DEF PointersSafe
<1>5. CallSafe(op)
  BY <1>1 DEF CallSafe, NoCall
<1> QED BY <1>1, <1>2, <1>3, <1>4, <1>5 DEF MetaSafe

(* Nothing that went wrong is forgotten.                                   *)
LEMMA TroubleStays ==
  ASSUME Next
  PROVE  trouble \subseteq trouble'
<1>1. Fine => trouble \subseteq trouble'
  BY DEF Fine, wrong
<1>2. \A K : Note(K) => trouble \subseteq trouble'
  BY DEF Note
<1>3. \A K : Fault(K) => trouble \subseteq trouble'
  BY DEF Fault
<1>4. Failed => trouble \subseteq trouble'
  BY <1>3 DEF Failed
<1>5. \A K : Lost(K) => trouble \subseteq trouble'
  BY <1>2 DEF Lost
<1>6. \A b, K : LostBy(b, K) => trouble \subseteq trouble'
  BY <1>5, Zenon DEF LostBy
<1>7. \A b : ext2_free_block(b) => trouble \subseteq trouble'
  BY <1>1, <1>4 DEF ext2_free_block, wrong, Fine
<1>8. \A i : free_inode_bitmap(i) => trouble \subseteq trouble'
  BY <1>1, <1>4 DEF free_inode_bitmap
<1>9. \A name, isdir : ext2_create_file(name, isdir) => trouble \subseteq trouble'
  BY <1>1, <1>4, Zenon DEF ext2_create_file
<1>10. \A name : ext2_delete_file(name) => trouble \subseteq trouble'
  BY <1>1, <1>4, Zenon DEF ext2_delete_file
<1>11. \A i, n, w : ext2_write_file(i, n, w) => trouble \subseteq trouble'
  BY <1>1, <1>2, <1>3, <1>4, <1>6, Zenon DEF ext2_write_file
<1>12. Allocate => trouble \subseteq trouble'
  <2>1. \A k, g, bit : AllocTakes(k, g, bit) => trouble \subseteq trouble'
    BY <1>2, <1>3, Zenon DEF AllocTakes
  <2>2. \A k, g : AllocSkips(k, g) => trouble \subseteq trouble'
    BY <1>1, <1>4, Zenon DEF AllocSkips
  <2> QED BY <1>1, <1>2, <2>1, <2>2, Zenon DEF Allocate
<1>13. WriteInode => trouble \subseteq trouble'
  BY <1>1, <1>4, Zenon DEF WriteInode
<1>14. ext2_create_directory_entry => trouble \subseteq trouble'
  BY <1>1, <1>2, <1>4, Zenon DEF ext2_create_directory_entry
<1>15. EntryTorn => trouble \subseteq trouble'
  BY <1>5, Zenon DEF EntryTorn
<1>16. WriteDirBlock => trouble \subseteq trouble'
  BY <1>1, <1>4, <1>6, Zenon DEF WriteDirBlock
<1>17. WriteDirInode \/ UndoBlock \/ UndoInode => trouble \subseteq trouble'
  BY <1>1, <1>4, <1>7, <1>8, Zenon DEF WriteDirInode, UndoBlock, UndoInode
<1>18. FreeBlocks \/ FreeInode => trouble \subseteq trouble'
  BY <1>6, <1>7, <1>8, Zenon DEF FreeBlocks, FreeInode
<1>19. RemoveEntry \/ GrowFile => trouble \subseteq trouble'
  BY <1>1, <1>4, Zenon DEF RemoveEntry, GrowFile
<1>20. PowerLoss \/ ext2_init => trouble \subseteq trouble'
  BY <1>1, <1>3, <1>4, Zenon DEF PowerLoss, ext2_init
<1> QED BY <1>9, <1>10, <1>11, <1>12, <1>13, <1>14, <1>15, <1>16, <1>17, <1>18, <1>19, <1>20,
           Zenon DEF Next

(* MetaInv holds in every reachable state.                                 *)
LEMMA MetaAlways == Spec => []MetaInv
<1>1. Init => MetaInv
  BY InitKeeps, MetaInit DEF MetaInv
<1>2. MetaInv /\ [Next]_vars => MetaInv'
  <2> SUFFICES ASSUME MetaInv, [Next]_vars PROVE MetaInv'
    OBVIOUS
  <2>1. DiskInv'
    BY DiskStep DEF MetaInv
  <2>2. ASSUME Next, Followed' PROVE MetaSafe'
    <3>1. Followed
      BY <2>2, TroubleStays DEF Followed
    <3> QED BY <2>2, <3>1, MetaStep DEF MetaInv
  <2>3. ASSUME UNCHANGED vars, Followed' PROVE MetaSafe'
    <3>1. Followed /\ MetaSafe
      BY <2>3 DEF Followed, MetaInv, vars, wrong
    <3> QED BY <2>3, <3>1 DEF MetaSafe, vars, disk, wrong
  <2> QED BY <2>1, <2>2, <2>3 DEF MetaInv
<1> QED BY <1>1, <1>2, PTL DEF Spec

(* Whatever transfer fails, wherever the power goes and whatever lands in  *)
(* block 0: until a directory's block has been numbered one too low or a   *)
(* block number has been taken from block 0, the blocks of superblock,     *)
(* descriptors, bitmaps and inode tables stay marked, and no call zeroes   *)
(* or overwrites one.                                                      *)
THEOREM Ext2MetadataSafe == Spec => []MetadataSafe
<1>1. MetaInv => MetadataSafe
  BY DEF MetaInv, Followed, MetaSafe, MetaMarked, MetadataSafe
<1> QED BY <1>1, MetaAlways, PTL

=============================================================================
