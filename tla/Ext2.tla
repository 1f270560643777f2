-------------------------------- MODULE Ext2 --------------------------------
(***************************************************************************)
(* The reading side of fs/ext2.c as functions of a disk image.  An image   *)
(* img is what the driver sees of a mounted partition:                     *)
(*   img.inode[i]  the inode i: i_size and i_block[0 .. NDIRECT-1]         *)
(*   img.block[b]  the bytes of block b; block 0 marks a hole              *)
(*   img.dirent    the entries of the root directory in on-disk order,     *)
(*                 each with its inode (0: free), rec_len and name         *)
(* Only the first block of the directory and the direct blocks of a file   *)
(* are ever read.  u32 arithmetic is modulo WORD.                          *)
(***************************************************************************)
EXTENDS Integers, Sequences

CONSTANTS
  block_size,       \* bytes per block
  NDIRECT,          \* direct blocks of an inode
  WORD,             \* 2^32
  EXT2_ROOT_INODE

ASSUME Ext2Assumption ==
  /\ block_size \in Nat \ {0} /\ NDIRECT \in Nat \ {0}
  /\ WORD \in Nat /\ NDIRECT * block_size < WORD

(* n bytes of block blk of a file, from byte `from` on: a hole reads as 0 *)
BlockBytes(img, ino, blk, from, n) ==
  LET b == img.inode[ino].i_block[blk] IN
  [j \in 1..n |-> IF b = 0 THEN 0 ELSE img.block[b][from + j - 1]]

Smaller(a, b) == IF a < b THEN a ELSE b

(* Mutated form: every block is read from blk_off. *)
mut_CopyRound(img, ino, offset, size, k, buf) ==
  LET blk  == offset \div block_size + k - 1
      from == offset % block_size
      n    == Smaller(block_size - from, size - Len(buf))
  IN IF Len(buf) < size /\ blk < NDIRECT THEN buf \o BlockBytes(img, ino, blk, from, n) ELSE buf

(* Round k of the copy loop of ext2_pread, counted from 1; nothing once    *)
(* the loop has ended.                                                     *)
CopyRound(img, ino, offset, size, k, buf) ==
  LET blk  == offset \div block_size + k - 1
      from == IF k = 1 THEN offset % block_size ELSE 0
      n    == Smaller(block_size - from, size - Len(buf))
  IN IF Len(buf) < size /\ blk < NDIRECT THEN buf \o BlockBytes(img, ino, blk, from, n) ELSE buf

(* buf after each round of the loop *)
Copied(img, ino, offset, size) ==
  LET copied[k \in 0..NDIRECT] ==
        IF k = 0 THEN <<>> ELSE CopyRound(img, ino, offset, size, k, copied[k - 1])
  IN copied

ext2_pread(img, ino, offset, size) ==
  LET file_size == img.inode[ino].i_size IN
  IF offset >= file_size THEN <<>>
  ELSE Copied(img, ino, offset,
         IF (offset + size) % WORD > file_size THEN file_size - offset ELSE size)[NDIRECT]

(* An entry lies at the sum of the earlier record lengths. *)
EntryOffsets(de) ==
  LET off[k \in 1..(Len(de) + 1)] == IF k = 1 THEN 0 ELSE off[k - 1] + de[k - 1].rec_len
  IN off

(* off < inode.i_size && off < block_size *)
InDirectory(img, off) == off < img.inode[EXT2_ROOT_INODE].i_size /\ off < block_size

(* The scan of ext2_find, from entry k on. *)
Scan(img, name) ==
  LET de == img.dirent
      found[k \in 1..(Len(de) + 1)] ==
        IF k > Len(de) \/ ~InDirectory(img, EntryOffsets(de)[k]) THEN 0
        ELSE IF de[k].rec_len = 0 THEN 0
        ELSE IF de[k].inode # 0 /\ de[k].name = name THEN de[k].inode
        ELSE found[k + 1]
  IN found

ext2_find(img, name) == Scan(img, name)[1]

(* Mutated form: the entry with record length 0 is still printed. *)
mut_Stops(de, k) == k > 1 /\ de[k - 1].rec_len = 0

(* rec_len == 0 leaves the loop *)
Stops(de, k) == de[k].rec_len = 0

(* Whether the loop of ext2_ls gets to entry k and past the test. *)
Live(img) ==
  LET de == img.dirent
      live[k \in 0..Len(de)] ==
        k = 0 \/ (live[k - 1] /\ InDirectory(img, EntryOffsets(de)[k]) /\ ~Stops(de, k))
  IN live

(* the names it prints *)
ext2_ls(img) ==
  LET de == img.dirent
  IN {de[k].name : k \in {j \in 1..Len(de) : Live(img)[j] /\ de[j].inode # 0}}

-----------------------------------------------------------------------------
(* Reference: the content of a file, addressed byte by byte, as far as its *)
(* direct blocks reach.                                                    *)
Content(img, ino) ==
  [i \in 1..Smaller(img.inode[ino].i_size, NDIRECT * block_size) |->
     LET b == img.inode[ino].i_block[(i - 1) \div block_size] IN
     IF b = 0 THEN 0 ELSE img.block[b][(i - 1) % block_size]]
=============================================================================
