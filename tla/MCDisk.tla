------------------------------- MODULE MCDisk -------------------------------
(* Disks for TLC. *)
EXTENDS Disk

Empty == [type |-> 0, lba |-> 0]
Fat   == [type |-> 12, lba |-> 63]

Flat == [signature |-> FALSE, entry |-> [k \in 1..4 |-> Empty]]

(* A boot sector without a Linux partition, and tables with one as the     *)
(* first entry, behind another system's, and before a second one.          *)
Bootable   == [Flat EXCEPT !.signature = TRUE]
First(lba) == [Bootable EXCEPT !.entry[1] = [type |-> LINUX, lba |-> lba]]
Third(lba) == [Bootable EXCEPT !.entry[1] = Fat, !.entry[3] = [type |-> LINUX, lba |-> lba],
                               !.entry[4] = [type |-> LINUX, lba |-> 63]]

Image(mbr, start, log, rev, size) ==
  [mbr |-> mbr, start |-> start, ext2 |-> TRUE, log |-> log,
   first_data |-> IF log = 0 THEN 1 ELSE 0, rev |-> rev, inode_size |-> size,
   inode_table |-> 5, per_group |-> 16]

(* The Makefile's disk starts at sector 2048; 8 GB is beyond three bytes   *)
(* of sector number.                                                       *)
FAR == BYTE * BYTE * BYTE + 2048

DiskImages ==
  {Image(First(2048), 2048, 0, 1, 128), Image(First(2048), 2048, 0, 1, 256),
   Image(Third(2048), 2048, 1, 1, 256), Image(First(FAR), FAR, 2, 1, 256),
   Image(Flat, 0, 0, 0, 0), Image(Bootable, 0, 2, 1, 128),
   [Image(Flat, 0, 0, 0, 0) EXCEPT !.ext2 = FALSE]}

(* The sectors the kernel reads: superblock, descriptors, inode table. *)
Used(i) ==
  LET sects == 2 * 2^i.log
      bgdt  == (i.first_data + 1) * sects
      table == i.inode_table * sects
  IN {i.start + s : s \in {2} \cup (bgdt..(bgdt + sects - 1)) \cup (table..(table + sects + 8))}

(* Sectors that no file system structure is in. *)
Spare == {63, 2048}

DiskLbas == {0, 65} \cup Spare \cup UNION {Used(i) : i \in DiskImages}

(* Contents that are no sector's own. *)
DiskWrites == {-2, -3}
=============================================================================
