-------------------------------- MODULE Ext2 --------------------------------
(***************************************************************************)
(* The layout arithmetic of the ext2 driver: which blocks hold an inode, a *)
(* directory or a file, and how a list of blocks becomes disk reads.       *)
(*                                                                         *)
(* Disk[b] is what block b holds, as a record of its kind; a region is the *)
(* sequence of sectors Denali returned.  The number of direct blocks and   *)
(* of block numbers in an indirect block (12 and 256) are parameters.      *)
(***************************************************************************)
EXTENDS Integers, Sequences

CONSTANTS Disk,            \* block number -> contents
          LbaOffset,       \* first sector of the partition
          SectorsPerBlock, \* 1 << (log_block_size + 1)
          Direct,          \* direct block numbers in an inode, 12
          PerBlock,        \* block numbers in an indirect block, 256
          InodesPerBlock,  \* BlockSize / InodeSize
          DescriptorsPerBlock, \* BlockSize / sizeof(BlockGroupDescriptor)
          Word             \* 2^32, the range of inode->blocks

SuperblockAt == 1
Garbage == [kind |-> "garbage"]

\* BlockSize() == 1024 ? 2 : 1.
BgdtBlockNum == IF SectorsPerBlock = 2 THEN 2 ELSE 1

NumberOfBlockGroups(super) ==
  (super.blocks_count - 1) \div super.blocks_per_group + 1

BgdtBlockSize(super) ==
  (NumberOfBlockGroups(super) - 1) \div DescriptorsPerBlock + 1

InodeTableBlockSize(super) == super.inodes_per_group \div InodesPerBlock

\* The k-th block (from 0) of a region, read back as the structure it holds.
BlockAt(region, k) ==
  LET sector(i) == region[k * SectorsPerBlock + i]
      b == (sector(1) - LbaOffset) \div SectorsPerBlock
  IN  IF /\ Len(region) >= (k + 1) * SectorsPerBlock
         /\ b \in DOMAIN Disk
         /\ \A i \in 1..SectorsPerBlock :
              sector(i) = LbaOffset + b * SectorsPerBlock + i - 1
      THEN Disk[b] ELSE Garbage

----------------------------------------------------------------------------
(* From blocks to disk reads.                                              *)

\* ReadBlocks(block_number, num_blocks): one run of sectors.
ReadRun(block, count) ==
  [lba |-> LbaOffset + block * SectorsPerBlock, size |-> count * SectorsPerBlock]

\* Mutant: a run goes on while the block numbers merely grow.
RunEndGrowing(list, i) ==
  CHOOSE j \in i..Len(list) :
    /\ \A k \in i..(j - 1) : list[k + 1] > list[k]
    /\ j < Len(list) => ~(list[j + 1] > list[j])

\* The last index of the run of consecutive block numbers from index i.
RunEnd(list, i) ==
  CHOOSE j \in i..Len(list) :
    /\ \A k \in i..(j - 1) : list[k + 1] = list[k] + 1
    /\ j < Len(list) => list[j + 1] # list[j] + 1

\* ReadBlocks(block_list): consecutive blocks are read with one command.
ReadList(list) ==
  LET from[i \in 1..(Len(list) + 1)] ==
        IF i > Len(list) THEN <<>>
        ELSE <<ReadRun(list[i], RunEnd(list, i) - i + 1)>> \o from[RunEnd(list, i) + 1]
  IN  from[1]

----------------------------------------------------------------------------
(* Inodes.                                                                 *)

\* (inode_num - 1) wraps for inode 0, the mark of an unused directory entry.
InodeIndex(num) == (num - 1) % Word
BlockGroupOf(super, num) == InodeIndex(num) \div super.inodes_per_group

\* The inode in a table of its block group.
InodeIn(super, table, num) ==
  LET local == InodeIndex(num) % super.inodes_per_group
  IN  BlockAt(table, local \div InodesPerBlock).inodes[(local % InodesPerBlock) + 1]

\* inode->blocks counts 512-byte sectors, and zero wraps.
RealBlockCount(inode) == ((inode.blocks - 1) % Word) \div SectorsPerBlock + 1

\* The direct block numbers, then those of the indirect block.
DirectBlocks(inode) ==
  LET n == RealBlockCount(inode)
  IN  SubSeq(inode.block, 1, IF n < Direct THEN n ELSE Direct)

IndirectCount(inode) ==
  LET n == RealBlockCount(inode)
  IN  IF n < Direct THEN 0
      ELSE IF n > Direct + PerBlock THEN PerBlock ELSE n - Direct

IndirectBlocks(inode, numbers) == SubSeq(numbers, 1, IndirectCount(inode))

\* How many entries of the double indirect block the file reaches into.
SinglesNeeded(inode) ==
  LET beyond == RealBlockCount(inode) - (Direct + PerBlock)
  IN  IF beyond <= 0 THEN 0
      ELSE IF beyond > PerBlock * PerBlock THEN PerBlock
      ELSE (beyond - 1) \div PerBlock + 1

\* The numbers in the i-th single indirect block, as far as the file reaches;
\* zeros are left out.
SingleBlocks(inode, i, numbers) ==
  LET beyond == RealBlockCount(inode) - (Direct + PerBlock + PerBlock * i)
      reached == SubSeq(numbers, 1, IF beyond < PerBlock THEN beyond ELSE PerBlock)
  IN  SelectSeq(reached, LAMBDA b : b # 0)

----------------------------------------------------------------------------
(* What the file system means, independently of how the driver reads it.   *)

TableBlock(num) ==
  LET super == Disk[SuperblockAt]
      group == (num - 1) \div super.inodes_per_group
  IN  Disk[BgdtBlockNum].tables[group + 1]

InodeOf(num) ==
  LET super == Disk[SuperblockAt]
      local == (num - 1) % super.inodes_per_group
  IN  Disk[TableBlock(num) + local \div InodesPerBlock].inodes[(local % InodesPerBlock) + 1]

\* The number of the k-th block (from 0) of a file.
LogicalBlock(inode, k) ==
  LET past == k - Direct - PerBlock
  IN  IF k < Direct THEN inode.block[k + 1]
      ELSE IF past < 0 THEN Disk[inode.block[Direct + 1]].numbers[k - Direct + 1]
      ELSE Disk[Disk[inode.block[Direct + 2]].numbers[past \div PerBlock + 1]]
             .numbers[(past % PerBlock) + 1]

\* The sectors of a file of "length" blocks, in order.
FileSectors(inode) ==
  [i \in 1..(inode.length * SectorsPerBlock) |->
     LbaOffset + LogicalBlock(inode, (i - 1) \div SectorsPerBlock) * SectorsPerBlock
       + ((i - 1) % SectorsPerBlock)]
============================================================================
