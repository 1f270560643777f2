------------------------------ MODULE MCMemory -------------------------------
(***************************************************************************)
(* A small machine: tables of 10 entries, 30 frames under the identity map,*)
(* 18 of them reserved, user programs from directory entry 3 on.           *)
(***************************************************************************)
EXTENDS Memory, TLC

Task(pd, pt, code, stack, kstack) ==
  [pd |-> pd, pt |-> pt, code |-> code, stack |-> stack, kstack |-> kstack]

MCLayout == "A" :> Task(5, 6, 9, 11, 13) @@ "B" :> Task(7, 8, 10, 12, 14)

(* The addresses of paging.h and task.h, as frames: all different, below   *)
(* the 4 MB that pmm.h reserves.                                           *)
ASSUME RealLayout ==
  LET frames == <<512, 513, 514, 515, 516, 517, 518, 519, 520,   \* page directories and tables
                  768, 783, 769, 782,                            \* code and stacks of A and B
                  800, 802>>                                     \* their kernel stacks
  IN /\ \A i, j \in DOMAIN frames : i # j => frames[i] # frames[j]
     /\ \A i \in DOMAIN frames : frames[i] < 1024

Base == 3 * N * N      \* 0x40000000

Segment(offset, va, filesz, memsz) ==
  [load |-> TRUE, offset |-> offset, vaddr |-> va, filesz |-> filesz, memsz |-> memsz]
GnuStack == [load |-> FALSE, offset |-> 0, vaddr |-> 0, filesz |-> 0, memsz |-> 0]

Elf(tag, size, segs) == [tag |-> tag, size |-> size, magic |-> TRUE, segs |-> segs]

(* One segment, as link_user.ld produces, at any place of its page; the    *)
(* bss is empty, in the last page or in pages of its own.                  *)
OneSegment ==
  {Elf(100, 30, <<Segment(N + k, Base + k, filesz, filesz + bss), GnuStack>>) :
     k \in {0, 7}, filesz \in {0, 3, 12}, bss \in {0, 1, 9}}

(* Text and data in one page, an unaligned second segment. *)
SharedPage == Elf(200, 30, <<Segment(N, Base, 5, 5), Segment(N + 5, Base + 5, 6, 11)>>)

(* Nothing from the file, in a page table of its own: one page, or so many *)
(* that the next process runs into the end of the identity map.            *)
BssOnly == {Elf(300, 8, <<GnuStack, Segment(0, Base + N * N, 0, m)>>) : m \in {3, 6 * N, 7 * N}}

(* Too short, and not an ELF file. *)
Rejects == {Elf(400, 1, <<>>), [Elf(500, 9, <<>>) EXCEPT !.magic = FALSE]}

MCFiles == OneSegment \cup {SharedPage} \cup BssOnly \cup Rejects

(* More bytes than the direct blocks hold, and fewer than elf_buf. *)
LongFiles == {Elf(600, 36, <<Segment(N, Base, 24, 24)>>)}
=============================================================================
