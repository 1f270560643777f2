-------------------------------- MODULE Disk --------------------------------
(***************************************************************************)
(* How kmain finds the ext2 file system and how fs/ext2.c finds inodes, on *)
(* top of the disk driver: mbr_find_partition, ext2_set_partition,         *)
(* ext2_init, ext2_read_block and ext2_read_inode, one sector at a time.   *)
(*                                                                         *)
(* Sizes are the real ones.  A disk is described by where things are on    *)
(* it; the contents of a sector are its number, so that blk_a holds the    *)
(* numbers of the sectors in it and a structure read from the wrong place  *)
(* is told from the right one.                                             *)
(***************************************************************************)
EXTENDS Ide

CONSTANTS
  Images,      \* disks, see MCDisk
  Inodes,      \* inodes that callers ask for once the system is up
  SpareLbas,   \* sectors outside the file system's structures
  MaxInodes,   \* bound: inodes read
  MaxSpare     \* bound: calls of the driver that are not for an inode

SECTOR          == 512
EXT2_ROOT_INODE == 2
LINUX           == 131      \* partition type 0x83

ASSUME DiskAssumption ==
  /\ Inodes \subseteq Nat \ {0} /\ SpareLbas \subseteq Lbas
  /\ MaxInodes \in Nat \ {0} /\ MaxSpare \in Nat

(* the result of mbr_find_partition *)
Partition(i) ==
  LET ks == {k \in 1..4 : i.mbr.entry[k].type = LINUX} IN
  IF ~i.mbr.signature \/ ks = {} THEN 0
  ELSE i.mbr.entry[CHOOSE k \in ks : \A j \in ks : k <= j].lba

(* What ext2 says of a file system that blk_a, of 4096 bytes, can hold a   *)
(* block of: its blocks, and the block of the first group's table that an  *)
(* inode is in.                                                            *)
BlockSize(i)       == 1024 * 2^i.log
DiskInodeSize(i)   == IF i.rev = 0 THEN 128 ELSE i.inode_size
BlockSectors(i, b) == {i.start + b * (BlockSize(i) \div SECTOR) + k :
                         k \in 0..(BlockSize(i) \div SECTOR - 1)}
InodeBlock(i, n)   == i.inode_table + (n - 1) \div (BlockSize(i) \div DiskInodeSize(i))

Ext2OK(i) ==
  /\ i.log \in 0..2 /\ i.first_data = (IF i.log = 0 THEN 1 ELSE 0)
  /\ i.inode_table \in Nat
  /\ i.rev \in Nat /\ DiskInodeSize(i) \in Nat
  /\ DiskInodeSize(i) >= 128 /\ BlockSize(i) % DiskInodeSize(i) = 0

(* Lbas has the sectors the kernel asks for, and nobody writes to those of *)
(* the inode tables.                                                       *)
ASSUME ImagesAssumption ==
  /\ 0 \in Lbas
  /\ \A i \in Images :
       /\ i.start \in Nat /\ Partition(i) \in Nat /\ Partition(i) + 2 \in Lbas
       /\ i.ext2 =>
            /\ Ext2OK(i) /\ BlockSectors(i, i.first_data + 1) \subseteq Lbas
            /\ \A n \in Inodes \cup {EXT2_ROOT_INODE} :
                 BlockSectors(i, InodeBlock(i, n)) \subseteq Lbas \ SpareLbas

VARIABLES
  img,                      \* the disk in the machine
  at,                       \* where kmain, or later a syscall, is
  asked,                    \* a sector of it has been asked for
  part_lba, block_size, inode_size, inode_table,    \* statics of ext2.c
  blk, blk_a,               \* the block being read and the sectors read of it
  ino,                      \* the inode being read
  where,                    \* history: where its bytes came from
  reads, spare              \* history: inodes read, calls for spare sectors

fsVars   == <<part_lba, block_size, inode_size, inode_table>>
blkVars  == <<blk, blk_a>>
inoVars  == <<ino, where, reads>>
diskVars == <<img, at, asked, fsVars, blkVars, inoVars>>
vars     == <<ideVars, diskVars, spare>>

NoPlace == [sector |-> 0, byte |-> 0]

Init ==
  /\ IdeInit /\ img \in Images
  /\ at = "mbr" /\ asked = FALSE
  /\ part_lba = 0 /\ block_size = 0 /\ inode_size = 0 /\ inode_table = 0
  /\ blk = 0 /\ blk_a = <<>>
  /\ ino = 0 /\ where = NoPlace /\ reads = 0 /\ spare = 0

-----------------------------------------------------------------------------
(* Calls of ide_read_sector, and their return. *)

Ask(lba) ==
  /\ ~asked /\ asked' = TRUE
  /\ ide_read_sector(lba)
  /\ UNCHANGED <<img, at, fsVars, blkVars, inoVars>>

Returned == asked /\ pc = "idle" /\ asked' = FALSE /\ UNCHANGED ideVars

AskMbr == at = "mbr" /\ Ask(0)

mbr_find_partition ==
  /\ at = "mbr" /\ Returned
  /\ part_lba' = Partition(img)      \* and ext2_set_partition
  /\ at' = "super"
  /\ UNCHANGED <<img, block_size, inode_size, inode_table, blkVars, inoVars>>

AskSuper == at = "super" /\ Ask(part_lba + 2)

(* magic == EXT2_MAGIC in the sector that was read *)
MagicOK == img.ext2 /\ got = img.start + 2

InodeSize == IF img.rev >= 1 /\ img.inode_size >= 128 THEN img.inode_size ELSE 128

(* Without the magic number ext2_init prints a message and returns; kmain  *)
(* goes on to list the root directory.                                     *)
ext2_init ==
  /\ at = "super" /\ Returned
  /\ IF MagicOK
     THEN /\ block_size' = 1024 * 2^img.log
          /\ inode_size' = InodeSize
          /\ blk' = img.first_data + 1 /\ blk_a' = <<>>
          /\ at' = "bgdt" /\ ino' = ino
     ELSE /\ at' = "inode" /\ ino' = EXT2_ROOT_INODE
          /\ UNCHANGED <<block_size, inode_size, blkVars>>
  /\ UNCHANGED <<img, part_lba, inode_table, where, reads>>

-----------------------------------------------------------------------------
(* ext2_read_block(blk, blk_a) *)

Sects     == block_size \div SECTOR
BlockRead == Len(blk_a) = Sects /\ ~asked

AskBlock ==
  /\ at \in {"bgdt", "table"} /\ Len(blk_a) < Sects
  /\ Ask(part_lba + blk * Sects + Len(blk_a))

ext2_read_block ==
  /\ at \in {"bgdt", "table"} /\ Returned
  /\ blk_a' = Append(blk_a, got)
  /\ UNCHANGED <<img, at, fsVars, blk, inoVars>>

(* The descriptors are in the first sector of the block after the one      *)
(* with the superblock.                                                    *)
BgdSector == img.start + (IF img.log = 0 THEN 4 ELSE 2 * 2^img.log)

(* the rest of ext2_init; kmain calls ext2_ls *)
LoadBgd ==
  /\ at = "bgdt" /\ BlockRead
  /\ inode_table' = IF blk_a[1] = BgdSector THEN img.inode_table ELSE 0
  /\ at' = "inode" /\ ino' = EXT2_ROOT_INODE
  /\ UNCHANGED <<ideVars, img, asked, part_lba, block_size, inode_size, blkVars, where, reads>>

-----------------------------------------------------------------------------
(* ext2_read_inode(ino).  inodes_per_group is not used: every inode is     *)
(* looked for in the table of the first group.                             *)

(* Mutated form: inodes are counted from 0. *)
mut_InodeIndex == ino

InodeIndex    == ino - 1
InodesInBlock == block_size \div inode_size

(* ipb = block_size / inode_size is 0 / 0 when nothing was mounted: the    *)
(* exception stops the machine.                                            *)
DivideError ==
  /\ at = "inode" /\ inode_size = 0
  /\ at' = "halt"
  /\ UNCHANGED <<ideVars, img, asked, fsVars, blkVars, inoVars>>

AskInode ==
  /\ at = "inode" /\ inode_size # 0
  /\ blk' = inode_table + InodeIndex \div InodesInBlock
  /\ blk_a' = <<>> /\ at' = "table"
  /\ UNCHANGED <<ideVars, img, asked, fsVars, inoVars>>

ext2_read_inode ==
  LET offset == (InodeIndex % InodesInBlock) * inode_size IN
  /\ at = "table" /\ BlockRead
  /\ where' = [sector |-> blk_a[offset \div SECTOR + 1], byte |-> offset % SECTOR]
  /\ at' = "up" /\ reads' = reads + 1
  /\ UNCHANGED <<ideVars, img, asked, fsVars, blkVars, ino>>

(* Later, a syscall reads an inode. *)
ReadInode ==
  /\ at = "up" /\ pc = "idle" /\ reads < MaxInodes
  /\ ino' \in Inodes /\ at' = "inode" /\ where' = NoPlace
  /\ UNCHANGED <<ideVars, img, asked, fsVars, blkVars, reads>>

(* The driver's own interface, with data blocks; no code of the kernel     *)
(* calls ide_write_sector.                                                 *)
ReadSector ==
  /\ at = "up" /\ spare < MaxSpare /\ spare' = spare + 1
  /\ \E lba \in SpareLbas : ide_read_sector(lba)
  /\ UNCHANGED diskVars

WriteSector ==
  /\ at = "up" /\ spare < MaxSpare /\ spare' = spare + 1
  /\ \E lba \in SpareLbas, data \in Writes : ide_write_sector(lba, data)
  /\ UNCHANGED diskVars

Boot  == AskMbr \/ mbr_find_partition \/ AskSuper \/ ext2_init \/ LoadBgd \/ DivideError
Inode == AskBlock \/ ext2_read_block \/ AskInode \/ ext2_read_inode
Next  ==
  \/ (Boot \/ Inode \/ ReadInode) /\ UNCHANGED spare
  \/ ReadSector \/ WriteSector
  \/ (Driver \/ Controller) /\ UNCHANGED <<diskVars, spare>>

(* The CPU goes on executing the driver, and the controller answers each   *)
(* command or reports that it failed.                                      *)
Fairness ==
  /\ WF_vars(Driver /\ UNCHANGED <<diskVars, spare>>)
  /\ WF_vars(Controller /\ UNCHANGED <<diskVars, spare>>)

Spec == Init /\ [][Next]_vars /\ Fairness

-----------------------------------------------------------------------------
(* Every variable has its type. *)
TypeOK ==
  /\ IdeTypeOK
  /\ img \in Images /\ asked \in BOOLEAN
  /\ at \in {"mbr", "super", "bgdt", "inode", "table", "up", "halt"}
  /\ part_lba \in Nat /\ block_size \in Nat /\ inode_size \in Nat /\ inode_table \in Nat
  /\ blk \in Nat /\ blk_a \in Seq(Contents \cup {-1})
  /\ ino \in Nat /\ reads \in 0..MaxInodes /\ spare \in 0..MaxSpare

(* Reference: the byte where ext2 puts an inode of the first block group. *)
InodePlace(i) ==
  LET byte == img.inode_table * BlockSize(img) + (i - 1) * DiskInodeSize(img)
  IN [sector |-> img.start + byte \div SECTOR, byte |-> byte % SECTOR]

(* On every disk with an ext2 file system, partitioned or not, with any    *)
(* block size, inode size and revision, the bytes taken for an inode of    *)
(* the first block group are the ones ext2 keeps it in.  On a disk without *)
(* one nothing is ever taken for an inode: ext2_init returns as if all     *)
(* were well, but the division by zero stops the machine first.            *)
InodeLocated ==
  at = "up" => img.ext2 /\ (ino <= img.per_group => where = InodePlace(ino))
=============================================================================
