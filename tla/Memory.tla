------------------------------- MODULE Memory -------------------------------
(***************************************************************************)
(* The address spaces of PepinOS, built during boot on the bootstrap CPU:  *)
(* mm/paging.c, the task spaces of process/task.c and the ELF loader of    *)
(* fs/elf.c, on the frames of mm/pmm.c.  Page directories and page tables  *)
(* live in physical memory like everything else, so a write through a      *)
(* wrong frame shows.                                                      *)
(*                                                                         *)
(* A page has N cells and a table N entries; a virtual address is a cell   *)
(* number below N^3.  An entry is frame * 8 + flags.                       *)
(***************************************************************************)
EXTENDS Frames, Sequences

CONSTANTS
  N,
  MemSize,           \* frames of RAM, the argument of pmm_init
  KTables,           \* page tables of the identity map
  KERNEL_PD, KERNEL_PT, KERNEL_VIRTUAL,   \* two frames, a directory index
  Layout,            \* for "A" and "B": frames pd, pt, code, stack, kstack
  TASK_CODE_VIRT, TASK_STACK_VIRT, USER_STACK_VIRT,   \* page numbers
  MAX_ELF_SIZE,      \* cells of elf_buf
  DirectBytes,       \* what the direct blocks of an inode hold
  EHDR,              \* size of the ELF header
  Files,             \* ELF files that elf_exec may be given
  Junk,              \* what RAM holds at power-on
  NExec              \* bound: calls of elf_exec

WORD == N * N * N
PRESENT == 1
WRITE   == 2
USER    == 4

Entry(f, flags) == f * 8 + flags
FrameOf(e)      == e \div 8
Present(e)      == e % 2 = 1

KPTs         == KERNEL_PT..(KERNEL_PT + KTables - 1)
KernelFrames == {KERNEL_PD} \cup KPTs
Identity     == 0..(KTables * N - 1)
Cells        == 0..(N - 1)

(* directory entries that are not for the kernel *)
UserDirs == {d \in Cells : d >= KTables /\ d \notin KERNEL_VIRTUAL..(KERNEL_VIRTUAL + KTables - 1)}

(* the frames of paging.h and task.h for the two built-in tasks *)
TaskFrames ==
  LET a == Layout["A"]
      b == Layout["B"] IN
  <<a.pd, a.pt, a.code, a.stack, a.kstack, b.pd, b.pt, b.code, b.stack, b.kstack>>

Static == KernelFrames \cup {TaskFrames[i] : i \in 1..10}

(* The fixed frames are all different and in the reserved area, the        *)
(* identity map reaches them, and pmm_init is told of more memory than     *)
(* the identity map reaches (4, 16 and 32 MB).                             *)
ASSUME MemoryAssumption ==
  /\ N \in Nat \ {0, 1} /\ KTables \in Nat \ {0} /\ KTables <= N
  /\ KERNEL_PD \notin KPTs /\ \A i \in 1..10 : TaskFrames[i] \notin KernelFrames
  /\ \A i, j \in 1..10 : i # j => TaskFrames[i] # TaskFrames[j]
  /\ Static \subseteq 0..(PMM_RESERVED - 1) /\ PMM_RESERVED <= KTables * N
  /\ KTables * N + 1 < total_pages(MemSize) /\ MemSize \in Nat
  /\ {TASK_CODE_VIRT, TASK_STACK_VIRT, USER_STACK_VIRT, KERNEL_PT, KERNEL_VIRTUAL, Junk} \subseteq Nat
  /\ {MAX_ELF_SIZE, DirectBytes, EHDR} \subseteq Nat /\ MAX_ELF_SIZE < WORD
  /\ TASK_CODE_VIRT \div N = TASK_STACK_VIRT \div N /\ TASK_CODE_VIRT # TASK_STACK_VIRT
  /\ USER_STACK_VIRT \div N \in UserDirs

(* What the linker makes with link_user.ld: a segment is in the user part  *)
(* of the address space, p_offset and p_vaddr agree within a page, and its *)
(* bytes are where elf_buf can hold them.                                  *)
SegmentOK(g) ==
  /\ {g.vaddr, g.offset, g.filesz, g.memsz} \subseteq Nat
  /\ g.filesz <= g.memsz /\ g.vaddr + g.memsz + N - 1 < WORD
  /\ \A v \in (g.vaddr \div N)..((g.vaddr + g.memsz + N - 1) \div N - 1) : v \div N \in UserDirs
  /\ g.offset + g.filesz <= MAX_ELF_SIZE
  /\ g.offset % N = g.vaddr % N

ASSUME FilesAssumption ==
  \A f \in Files :
    /\ f.tag \in Nat /\ f.size \in Nat /\ Len(f.segs) \in Nat /\ DOMAIN f.segs = 1..Len(f.segs)
    /\ \A i \in 1..Len(f.segs) : f.segs[i].load \in BOOLEAN /\ (f.segs[i].load => SegmentOK(f.segs[i]))

VARIABLES
  pc,        \* the next step of kmain, or "fault"
  mem,       \* physical memory
  pmm,       \* the frame bitmap
  elf_buf,
  spaces,    \* the address spaces given to sched_add_task, in order
  file,      \* elf_exec: the file being loaded ...
  seg,       \* ... the index i of its current segment, from 1
  vaddr,     \* ... the next page of that segment
  pd_phys    \* ... the new page directory

load == <<file, seg, vaddr, pd_phys>>
vars == <<pc, mem, pmm, elf_buf, spaces, load>>

Zero   == [i \in Cells |-> 0]
NoFile == [size |-> 0]

Init ==
  /\ pc = "init_paging"
  /\ mem = [f \in 0..(MemSize - 1) |-> [i \in Cells |-> Junk]]
  /\ pmm = NoMemory
  /\ elf_buf = [o \in 0..(MAX_ELF_SIZE - 1) |-> 0]
  /\ spaces = <<>>
  /\ file = NoFile /\ seg = 0 /\ vaddr = 0 /\ pd_phys = 0

-----------------------------------------------------------------------------
PWU == PRESENT + WRITE + USER

init_paging ==
  /\ pc = "init_paging"
  /\ mem' = [f \in DOMAIN mem |->
       IF f = KERNEL_PD THEN [i \in Cells |-> IF i < KTables THEN Entry(KERNEL_PT + i, PWU) ELSE 0]
       ELSE IF f \in KPTs THEN [i \in Cells |-> Entry((f - KERNEL_PT) * N + i, PWU)]
       ELSE mem[f]]
  /\ pc' = "pmm_init"
  /\ UNCHANGED <<pmm, elf_buf, spaces, load>>

InitPmm ==
  /\ pc = "pmm_init"
  /\ pmm' = pmm_init(MemSize)
  /\ pc' = "A"
  /\ UNCHANGED <<mem, elf_buf, spaces, load>>

(* Mutated form: one directory entry of the kernel is not copied. *)
mut_create_task_space(l, kpd) ==
  [i \in Cells |->
     IF i < KTables - 1 THEN kpd[i]
     ELSE IF i = TASK_CODE_VIRT \div N THEN Entry(l.pt, PWU)
     ELSE 0]

(* the page directory that create_task_space builds *)
create_task_space(l, kpd) ==
  [i \in Cells |->
     IF i < KTables THEN kpd[i]
     ELSE IF i = TASK_CODE_VIRT \div N THEN Entry(l.pt, PWU)
     ELSE IF i \in KERNEL_VIRTUAL..(KERNEL_VIRTUAL + KTables - 1)
          THEN Entry(KERNEL_PT + i - KERNEL_VIRTUAL, PRESENT + WRITE)
     ELSE 0]

(* The code of task t: a quarter of a page is copied from the kernel. *)
UserCode(t) == IF t = "A" THEN 901 ELSE 902

(* launch_tasks for one of the two built-in tasks *)
launch_task(t) ==
  LET l == Layout[t] IN
  /\ pc = t
  /\ mem' = [mem EXCEPT
       ![l.code] = [i \in Cells |-> IF i < N \div 4 THEN UserCode(t) ELSE mem[l.code][i]],
       ![l.pt]   = [Zero EXCEPT ![TASK_CODE_VIRT % N]  = Entry(l.code, PWU),
                                ![TASK_STACK_VIRT % N] = Entry(l.stack, PWU)],
       ![l.pd]   = create_task_space(l, mem[KERNEL_PD])]
  /\ spaces' = Append(spaces, [pd |-> l.pd, kstack |-> l.kstack, file |-> NoFile])
  /\ pc' = IF t = "A" THEN "B" ELSE "elf_exec"
  /\ UNCHANGED <<pmm, elf_buf, load>>

-----------------------------------------------------------------------------
(* elf_exec.  The file's cell o is the number file.tag + o. *)

(* what ext2_read_file returns for the file *)
ReadSize(f) ==
  LET size == IF f.size < MAX_ELF_SIZE THEN f.size ELSE MAX_ELF_SIZE IN
  IF size < DirectBytes THEN size ELSE DirectBytes

(* ext2_read_file into the static buffer, whose rest stays as it was *)
ReadFile(f) == [o \in DOMAIN elf_buf |-> IF o < ReadSize(f) THEN f.tag + o ELSE elf_buf[o]]

(* The kernel writes frames through the identity map; elsewhere it faults  *)
(* and stops in isr_PF_handler.                                            *)
Writable(S) == S \subseteq Identity

PageFault == pc' = "fault" /\ UNCHANGED <<mem, pmm, spaces, load>>

Loaded == Len(spaces) - 2

(* no such file, too short or not an ELF file: nothing is registered *)
ElfRejected ==
  /\ pc = "elf_exec" /\ Loaded < NExec
  /\ pc' = "sched_enter"
  /\ \/ UNCHANGED elf_buf
     \/ \E f \in Files : (ReadSize(f) < EHDR \/ ~f.magic) /\ elf_buf' = ReadFile(f)
  /\ UNCHANGED <<mem, pmm, spaces, load>>

(* proc_alloc_pd: a copy of the kernel's page directory *)
ElfStart(f) ==
  LET pd == Frame(pmm) IN
  /\ pc = "elf_exec" /\ Loaded < NExec
  /\ ReadSize(f) >= EHDR /\ f.magic
  /\ elf_buf' = ReadFile(f)
  /\ IF ~Writable({pd}) THEN PageFault
     ELSE /\ pmm' = pmm_alloc_page(pmm)
          /\ mem' = [mem EXCEPT ![pd] = mem[KERNEL_PD]]
          /\ pd_phys' = pd /\ file' = f /\ seg' = 1 /\ vaddr' = 0
          /\ pc' = "segment" /\ UNCHANGED spaces

PageBase(a) == a - (a % N)

(* vend; all address arithmetic is in u32 *)
SegmentEnd(s) == PageBase((s.vaddr + s.memsz + N - 1) % WORD)

(* head of the segment loop: a segment to skip, or its first page *)
ElfSegment ==
  /\ pc = "segment" /\ seg <= Len(file.segs)
  /\ IF file.segs[seg].load
     THEN pc' = "page" /\ vaddr' = PageBase(file.segs[seg].vaddr) /\ UNCHANGED seg
     ELSE seg' = seg + 1 /\ UNCHANGED <<pc, vaddr>>
  /\ UNCHANGED <<mem, pmm, elf_buf, spaces, file, pd_phys>>

(* Mutated form: the page is not cleared first. *)
mut_PageImage(s, va, old) ==
  LET src   == (s.offset + va - s.vaddr) % WORD
      avail == (s.offset + s.filesz - src) % WORD IN
  [j \in Cells |-> IF va < (s.vaddr + s.filesz) % WORD /\ j < avail THEN elf_buf[src + j] ELSE old[j]]

(* the cells of page va of segment s: file bytes as far as the segment has *)
(* them, then zeros; old is what the frame held                            *)
PageImage(s, va, old) ==
  LET src   == (s.offset + va - s.vaddr) % WORD
      avail == (s.offset + s.filesz - src) % WORD IN
  [j \in Cells |-> IF va < (s.vaddr + s.filesz) % WORD /\ j < avail THEN elf_buf[src + j] ELSE 0]

(* Mutated form: a new page table is not cleared. *)
mut_NewTable(m, t) == m

NewTable(m, t) == [m EXCEPT ![t] = Zero]

(* proc_map_page(pd, virt, frame): memory m and bitmap p afterwards *)
NeedsTable(m, pd, virt) == ~Present(m[pd][virt \div N])

proc_map_page(m, p, pd, virt, frame) ==
  LET new == NeedsTable(m, pd, virt)
      t   == IF new THEN Frame(p) ELSE FrameOf(m[pd][virt \div N])
      m1  == IF new THEN [NewTable(m, t) EXCEPT ![pd][virt \div N] = Entry(t, PWU)] ELSE m
  IN [mem |-> [m1 EXCEPT ![t][virt % N] = Entry(frame, PWU)],
      pmm |-> IF new THEN pmm_alloc_page(p) ELSE p]

(* a fresh frame with the given image, mapped at page virt of the process *)
AddPage(virt, image) ==
  proc_map_page([mem EXCEPT ![Frame(pmm)] = image], pmm_alloc_page(pmm),
                pd_phys, virt, Frame(pmm))

CanAddPage(virt) ==
  /\ Writable({Frame(pmm)})
  /\ NeedsTable(mem, pd_phys, virt) => Writable({Frame(pmm_alloc_page(pmm))})

ElfPage ==
  LET s == file.segs[seg] IN
  /\ pc = "page"
  /\ IF vaddr >= SegmentEnd(s)
     THEN pc' = "segment" /\ seg' = seg + 1 /\ UNCHANGED <<mem, pmm, spaces, file, vaddr, pd_phys>>
     ELSE IF ~CanAddPage(vaddr \div N) THEN PageFault
     ELSE LET r == AddPage(vaddr \div N, PageImage(s, vaddr, mem[Frame(pmm)])) IN
          /\ mem' = r.mem /\ pmm' = r.pmm
          /\ vaddr' = (vaddr + N) % WORD
          /\ UNCHANGED <<pc, spaces, file, seg, pd_phys>>
  /\ UNCHANGED elf_buf

(* user stack, kernel stack and sched_add_task; the kernel stack is not    *)
(* written here                                                            *)
ElfFinish ==
  /\ pc = "segment" /\ seg > Len(file.segs)
  /\ IF ~CanAddPage(USER_STACK_VIRT) THEN PageFault /\ UNCHANGED elf_buf
     ELSE LET r == AddPage(USER_STACK_VIRT, Zero) IN
          /\ mem' = r.mem
          /\ pmm' = pmm_alloc_page(r.pmm)
          /\ spaces' = Append(spaces, [pd |-> pd_phys, kstack |-> Frame(r.pmm), file |-> file])
          /\ pc' = "elf_exec"
          /\ UNCHANGED <<elf_buf, load>>

Next ==
  \/ init_paging \/ InitPmm \/ launch_task("A") \/ launch_task("B")
  \/ ElfRejected \/ (\E f \in Files : ElfStart(f))
  \/ ElfSegment \/ ElfPage \/ ElfFinish

Spec == Init /\ [][Next]_vars

-----------------------------------------------------------------------------
(* Every variable has its type: memory stays an array of pages and the     *)
(* bitmap covers every frame that the loader may be given.                 *)
TypeOK ==
  /\ pc \in {"init_paging", "pmm_init", "A", "B", "elf_exec", "segment", "page",
             "sched_enter", "fault"}
  /\ \A f \in DOMAIN mem : mem[f] \in [Cells -> Nat]
  /\ pmm.total \in 0..PMM_MAX_PAGES /\ pmm.used \subseteq AllFrames
  /\ pd_phys \in DOMAIN mem
  /\ vaddr \in 0..(WORD - 1)

Spaces == {spaces[i] : i \in DOMAIN spaces}

(* the user half of an address space: its tables, and the frame of a page *)
Tables(s) == {FrameOf(mem[s.pd][d]) : d \in {d \in UserDirs : Present(mem[s.pd][d])}}
PageSet(s) ==
  {v \in 0..(N * N - 1) : /\ v \div N \in UserDirs /\ Present(mem[s.pd][v \div N])
                          /\ Present(mem[FrameOf(mem[s.pd][v \div N])][v % N])}
PageFrame(s, v) == FrameOf(mem[FrameOf(mem[s.pd][v \div N])][v % N])
PageFrames(s)   == {PageFrame(s, v) : v \in PageSet(s)}
Private(s)      == {s.pd, s.kstack} \cup Tables(s) \cup PageFrames(s)

(* Frames are handed out once: page directory, tables, kernel stack and    *)
(* the pages mapped in the user half of a process are different frames, no *)
(* two of its virtual pages share one, and none of them was given to       *)
(* another process or to the kernel's own tables.  This is about the       *)
(* entries in UserDirs.  It is not isolation: init_paging maps all frames  *)
(* below 16 MB with PWU, and every space has these entries, so that ring 3 *)
(* of each process can access the frames of all others.                    *)
UserHalvesDisjoint ==
  /\ \A s \in Spaces :
       /\ Private(s) \cap KernelFrames = {}
       /\ Cardinality(Private(s)) = 2 + Cardinality(Tables(s)) + Cardinality(PageSet(s))
  /\ \A s, t \in Spaces : s # t => Private(s) \cap Private(t) = {}

(* Every address space, and the kernel's, keeps the kernel reachable at    *)
(* its own addresses: interrupt handlers and syscalls run under any CR3.   *)
KernelMapped ==
  pc \notin {"init_paging"} =>
    \A pd \in {KERNEL_PD} \cup {s.pd : s \in Spaces} : \A v \in Identity :
      LET e == mem[pd][v \div N] IN
      Present(e) /\ Present(mem[FrameOf(e)][v % N]) /\ FrameOf(mem[FrameOf(e)][v % N]) = v

Segments(s) == {i \in DOMAIN s.file.segs : s.file.segs[i].load}

(* What elf.h says of the loader: each PT_LOAD segment is found at its     *)
(* p_vaddr, its file bytes first and zeros up to p_memsz, for as long as   *)
(* the process is not running; also when segments share a page.            *)
ImageLoaded ==
  \A s \in Spaces : s.file # NoFile =>
    \A i \in Segments(s) : \A b \in 0..(s.file.segs[i].memsz - 1) :
      LET g == s.file.segs[i]
          a == g.vaddr + b IN
      /\ a \div N \in PageSet(s)
      /\ mem[PageFrame(s, a \div N)][a % N] =
           IF b < g.filesz THEN s.file.tag + g.offset + b ELSE 0
=============================================================================
