# A verification project for PepinOS

PepinOS (`src/`) is a small 32-bit x86 kernel in C and assembly: one CPU, paging, a
round-robin scheduler with POSIX-like signals, a keyboard driver, a read-only
ext2 reader under a small VFS, an ELF loader and a shell in ring 3. This directory holds
TLA+ models of its core, TLC configurations that check them on small
instances, and TLAPS proofs of the properties that matter most for every size of the
system. `PROJECT.json` lists components, runs, mutants, the map from definitions to source
lines, findings, hazards and theorems.

    tlc -workers 2 -config SchedContext.cfg MCScheduler     # one run
    tlapm SchedulerProofs.tla                               # one proof module

## 1. Inventory

### Execution model

There is one CPU and two sources of concurrency.

* **Interrupt gates** (IRQ0 timer, IRQ1 keyboard, exceptions) clear IF: each handler runs
  to its end as one step.
* **The trap gate of INT 0x30** leaves IF = 1 (`arch/idt.c:146`): both IRQs may land between
  any two instructions of a syscall.
* `do_switch` returns at once when the interrupted code was in ring 0
  (`process/scheduler.c:83`). So a tick during a syscall changes nothing, a syscall is never
  preempted by another task, and the only code that interleaves with a syscall is
  `keyboard_handler`, with `sched_signal` and `putcar` that it calls.
* Exception handlers, SYS_EXIT and the disk driver after an error loop in ring 0 for ever: after one of
  them no task runs.

### Components

| Component | State | Operations | Talks to | Correct when |
|---|---|---|---|---|
| Scheduler `process/scheduler.c`, `arch/idt_asm.asm`, `arch/tss.c`, `lib/list.h` | `cur_task`, `task_pool`, circular `task_list`, CR3, `ktss.esp0` | `sched_add_task`, `sched_enter`, `do_switch` | everything, through `cur_task` | hardware state belongs to `cur_task`; contexts do not mix; every task runs |
| Signals `process/signal.*`, `scheduler.c`, `syscall.c` | `sig_pending`, `sig_handlers`, `sig_saved_regs`, `sig_in_handler`, the frame on the user stack | SYS_SIGACTION, SYS_KILL, SYS_SIGRETURN, `sched_signal`, delivery in `do_switch` | keyboard (Ctrl+C), scheduler | a signal is delivered once, to the task it was sent to; the program resumes as interrupted |
| Syscall dispatcher `process/syscall.c` | none of its own | 11 numbered calls | all below | `cur_task` is the caller throughout |
| VFS `fs/vfs.c` | `node_pool`, `files[]` in each `task_t` | open, close, read | ext2 | a node has exactly one descriptor |
| ext2 reader `fs/ext2.c` | superblock and group copies, scratch blocks `blk_a`, `blk_b` | init, read_block, read_inode, find, pread, read_file, ls | IDE, screen | an inode is taken from where ext2 keeps it; the bytes of the file, in order, and no more; ls and find agree |
| Keyboard `drivers/keyboard.c` | `kb_buf`, `kb_head`, `kb_tail`, `ctrl_held` | `keyboard_handler`, `kb_getchar` | scheduler, screen | a bounded FIFO |
| Frames `mm/pmm.c` | bitmap, total and free counters | init, alloc, free, count | loader, vmm | a frame has one owner; the counter is exact |
| Paging `mm/paging.c` | kernel and task page directories and tables | `init_paging`, `create_task_space` | task.c, loader | the kernel is mapped in every space; no frame is given to two processes |
| ELF loader `fs/elf.c` | `elf_buf` | `elf_exec` | ext2, frames, scheduler | the segments at their addresses, zeros after them |
| Boot `kernel/kernel.c`, `process/task.c` | – | `kmain`, `mbr_find_partition`, `launch_tasks`, `sched_enter` | all | the order of the steps; the right partition is mounted |
| vmm `mm/vmm.c` | – (no caller) | map, unmap | frames | – |
| Screen `drivers/screen.c` | `kX`, `kY`, `kattr`, video memory | `putcar`, `print`, `scrollup` ... | keyboard, syscalls | the cursor and the writes stay on the screen; it shows the text, whatever echo comes in between |
| IDE `drivers/ide.c` | controller registers | read a sector, write a sector | ext2 | a call that returns has moved the sector asked for; calls end |
| GDT, IDT, boot sector, multiboot | descriptor tables | set-up | – | – |
| String and list library | – | – | – | – |
| Shell `user/shell.c` | line buffer, handlers | read a line, commands, `raise`, three handlers | syscalls, keyboard | executes the lines typed, in order; signals only as asked for |

### What is hard here

Preemption between any two user instructions; IRQ1 inside the read-modify-write of
SYS_KILL, inside `kb_getchar`, and, with its echo, inside `putcar` and `update_cursor`; two different stack layouts (timer stub and syscall
stub) that a signal crosses on its way in and out; a scheduler that is disabled for as long as
somebody is in ring 0; a shared node pool with per-task tables; a frame bitmap that is larger
than the identity map through which the kernel writes the frames; u32 arithmetic at the
end of files and segments; a disk driver that polls without a limit and ignores errors; a shell
whose user types ahead while commands run. The hazards are in `PROJECT.json`, each at its line.

## 2. Modules

| Module | Role |
|---|---|
| `Processes` | abstract specification: a machine of its own for each task |
| `Scheduler` | scheduler, signals, syscall entry and return, registration at boot; implements Processes |
| `MCScheduler` | constants for TLC |
| `SchedulerProofs` | inductive invariant, the refinement of Processes and nine further results |
| `Ext2` | ext2_find, ext2_ls, ext2_pread as functions of a disk image, and a reference `Content` |
| `Vfs` (extends Ext2) | node pool, descriptor tables, SYS_OPEN, SYS_CLOSE, SYS_READ |
| `MCVfs`, `VfsProofs` | three disk images; proofs |
| `KeyQueue` | abstract specification: bounded FIFO |
| `Keyboard` | ring buffer, Ctrl state, `kb_getchar` at the grain of loads and stores; implements KeyQueue |
| `KeyboardProofs` | inductive invariant, the refinement of KeyQueue |
| `Shell` (extends Keyboard) | user/shell.c over the keyboard driver, with the signals it sees |
| `MCShell`, `ShellProofs` | a small alphabet for TLC; proofs |
| `Screen` | putcar, scrollup, update_cursor, print and the echo, access by access |
| `ScreenProofs` | proofs |
| `Sectors` | abstract specification: a disk of sectors read and written whole |
| `Ide` | the polling driver and the controller; implements Sectors |
| `Disk` (extends Ide) | partition table, superblock, group descriptor and inode location, sector by sector |
| `MCDisk`, `DiskProofs` | disk images for TLC; the refinement of Sectors, inode location |
| `Frames` | the bitmap of pmm.c as pure functions |
| `Pmm` (extends Frames) | state machine of calls |
| `PmmProofs` | proofs |
| `Memory` (extends Frames) | page tables in physical memory, launch_tasks, elf_exec; composes paging, pmm and the loader |
| `MCMemory`, `MemoryProofs` | a small machine and ELF files for TLC; proofs |

### Scheduler, Processes

`mode` is what the CPU is doing: `boot`, `user` (ring 3), `sys` (in a syscall), `exit` (a loop in
ring 0 with interrupts on: SYS_EXIT, or `SysDiskError`, the polling of ide_wait_drq after ERR) and `halt` (an exception handler). Each field of `task_t` is a function of the
slot number; the list links are functions of slots and the sentinel `HEAD`. The 13 saved
registers are grouped into four by how the kernel treats them: `eip` and `esp` (the iret
frame), `vol` (eax, ecx, edx: clobbered by a C call) and `keep` (ebx, ebp, esi, edi: preserved).
`cs`, `eflags` and `ss` do not change in ring 3. Page directories and kernel stacks are numbers.

* `sched_add_task`, `init_tss`, `sched_enter`: the boot actions. launch_tasks registers
  `NLaunch` tasks; elf_exec may register up to `NElf` more or return with an error.
* `UserStep`: a program changes its registers to any file of `UserCtx`. `Syscall`: INT 0x30 with
  any arguments, signal numbers 0 and NSIG included. `Fault`: an exception.
* `Sys...`: the cases of `syscall_handler`. SYS_KILL has two steps, because
  `t->sig_pending |= ...` is a load and a store with interrupts on; every other case touches
  its variables once. `Return` is the stub's way back: the result in eax, the four pushed
  registers dropped with `add esp, 20`, so changes to `frame[0..3]` do not reach the program.
* `CtrlC`: `sched_signal(SIGINT)`, possible at any time after the first registration.
* `do_switch`: save, next in ring, load CR3 and esp0, and deliver the lowest pending signal
  if it has a handler and none is running.

`view`, `intr` and `posted` are history variables: what each task last saw in its registers,
where its program was interrupted by a signal, and the signals sent and not delivered.
They appear in no guard. `uframe` is the frame that `do_switch` writes on the user stack,
kept by *page directory*, so that a write under the wrong CR3 lands in the wrong one.
The user stack pointer is assumed to point into mapped memory when a signal is delivered.

`Processes` is what a program may rely on: registered tasks with registers, signals and a call frame each, and
steps that change one task only. Neither ticks nor `cur_task` exist in it. `PR` is the mapping: the registers of a task
are `TaskCtx`, the tasks are the registered slots, and `calling` holds the caller of the syscall in progress.

### Ext2 and Vfs

An image gives inodes, blocks and directory entries; `ext2_pread` and `ext2_find` are the
loops of the code as recursive functions over it, with u32 arithmetic modulo `WORD`. Each
file syscall is one step: no tick can switch tasks inside it and IRQ1 touches none of its
state. `OpenNoFd` is the path on which SYS_OPEN gives its node back. `got` is a history
variable: the bytes a descriptor has returned since it was opened.

### Keyboard

`keyboard_handler` is one step per scancode (`CtrlPress`, `CtrlRelease`, `Key`). `kb_getchar` is
four (`LoadHead`, `TestEmpty`, `LoadChar`, `StoreTail`), with a key possible between any two.
`out`, `lost`, `sigint` and `keys` are histories; `keys` is also the bound. The echo is in
`Screen`; what Ctrl+C does to a task is in `Scheduler` and, for the shell, in `Shell`.

### Shell

`Shell` extends `Keyboard`: the actions of `kb_getchar` are the steps of the shell's SYS_GETCHAR. `sh` is
where the shell is: installing its handlers (`start`), at the `prompt`, polling (`read`), with a character
(`got`), executing (`run`, `cat...`, `raise`, `killing`), in `sigterm_handler` (`term`), `astray` or in a
page fault (`halt`). SYS_KILL has its two steps as in Scheduler; other syscalls are one, and
what they print is left out. Commands that only print are one case of `Execute`.

Of the scheduler three facts are used: in a syscall `cur_task` is the shell (proved in
SchedulerProofs as `CallerStable`), in ring 3 any task may be `cur_task` when a key arrives, so a Ctrl+C may or may not
be charged to the shell, and a tick may deliver a signal there. This is the composition of
keyboard, signals and shell with the other tasks projected away.

A shell whose SIGINT or SIGUSR1 handler has returned is `astray`: EBP is one of the registers that
SYS_SIGRETURN does not restore (run `sched_sigreturn`), and the build keeps the frame pointer in it. The
shell then reads characters with locals in the wrong place, or faults; nothing is claimed of what it does.
Bound: nobody types any more by then. `kbmap` has no `\r`, `\b` or 127, so the branches for
these are dead.

### Screen

A character on its way to the screen is a walk through the labels of `m.pc`, one for each access to `kX`,
`kY`, video memory or the CRT ports in the code gcc emits without optimisation, which is how the
Makefile builds it. Between any two of them `EchoGlyph`, `EchoEnter` or `EchoCtrlC` may come: the
echo runs with interrupts off and is one step, computed with `putcar` as a function. `kX` and `kY`
wrap as signed chars. Glyphs are numbered, so a character in the wrong cell is told from the
right one. `text` is the reference history; `tabbed`, `raced`, `recolored` and `torn` record
which of the disturbances that the properties except have happened.

### Ide, Sectors, Disk

`Ide` has the driver's steps (select, command, DRQ, one per word, flush) and an external
controller: a command makes it busy for any time (`DevDone`) or fails (`DevFail`); a command it gets
while busy is ignored. `RefinesSectors` maps the state of a call to a request of `Sectors`.

`Disk` puts mbr_find_partition, ext2_init, ext2_read_block and ext2_read_inode on top, with the
real sizes of sectors, blocks and inodes. The contents of a sector are its number, hence a structure read
from the wrong place is told from the right one. Finding no ext2 file system leaves `block_size` and
`inode_size` 0, and the listing in kmain ends in a division by zero (`DivideError`).

### Frames, Pmm, Memory

`Frames` keeps the bitmap as the set of used frames plus the two counters. `Pmm` adds the set
`owned` of frames that callers hold (a history) and what the last call returned. No code in the
repository calls `pmm_free_page`; `Pmm` lets a caller free frames it was given, also twice, but
not frames that somebody else holds by then.

`Memory` has RAM as an array of pages of `N` cells and keeps page directories and tables in it, so
that a table in a frame with old contents, or a write through a shared table, has its real
effect. `pc` is the next step of `kmain`. `elf_exec` is split per segment and per page. A write by
the kernel to a frame outside the identity map is a page fault, which stops the machine. File
contents are numbers that name the file and the offset, so that a byte in the wrong place is
told from a right one.

An address space has two parts. The user half, the directory entries in `UserDirs`, is its own:
`UserHalvesDisjoint` says that the frames given to it are given to nobody else. The other part is the
identity map of the first 16 MB, which `init_paging` makes with PAGE_USER and PAGE_WRITE (`mm/paging.c:30,37`)
and which `create_task_space` (`:89-90`) and `proc_alloc_pd` (`fs/elf.c:51-52`) copy into every directory. Every frame that the
loader can hand out is below 16 MB, so it is mapped for ring 3 in all spaces. The spaces
are therefore not isolated, and no property here says that they are.

## 3. Runs

### Passing

| Run | Instance | Shows |
|---|---|---|
| `sched_context` | 2 tasks, 2 signals, one user register file and those of the handlers | CR3 and esp0 match `cur_task`, contexts do not mix, the kernel implements Processes, signal frames are intact, no handler runs for a signal nobody sent, IRQ1 inside SYS_KILL included, SYS_SIGRETURN resumes at the interrupted instruction and stack |
| `sched_live` | 3 tasks, 3 signals at one of them, fairness | list order, round robin, every task runs again and again, each of several pending signals is delivered in the end |
| `vfs_open` | 2 tasks, 3 nodes, 2 usable descriptors each, 3 images | nodes are never shared or leaked, reads return the file in order, SYS_LS and SYS_OPEN agree |
| `shell` | buffer of 3, 6 keys, line of 5, fairness | the ring buffer implements KeyQueue, the slot being read is stable, the shell executes the lines typed, is sent only signals asked for, and hears Enter and Ctrl+C |
| `pmm` | 9 bits, 3 reserved, memories of 1, 3, 7 and 12 frames | exact counter, exclusive ownership, 0 only when full |
| `mem_load` | 44 frames, tables of 10, two processes out of 24 files | the frames of the user halves are disjoint, kernel mapped in each space, images at their addresses |
| `screen` | 3 by 2 screen, tab of 2, 5 characters, 2 echoes | where cursor and stray writes can go, what the screen shows, where the hardware cursor is |
| `disk` | 7 disks, 2 inodes, 2 other calls, controller that fails at any command, fairness | every inode comes from its place, the driver implements Sectors, calls end |

### Violations: what the code does against what it says

| Run | Property | What happens |
|---|---|---|
| `sched_sigreturn` | `SigreturnRestoresContext` | general registers of the interrupted program are not restored |
| `sched_kill_race` | `NoSignalLost` | a Ctrl+C between load and store of SYS_KILL is lost |
| `vfs_wrap` | `ReadWithinFile` | `offset + size` wraps and a read passes the end of the file |
| `mem_long` | `ImageLoaded` | a program above 12 KB is loaded without its tail |

`NoSpuriousDelivery` (passing) and `NoSignalLost` (violated) are the two directions of one
question; so are `SigreturnResumes` and `SigreturnRestoresContext`.

Some behaviours that a reader of the comments may not expect are in the models without a
run of their own:

* SYS_EXIT (`process/syscall.c:33`) loops in ring 0, where `do_switch` does not switch: it stops
  every task, not "el proceso" (`user/shell.h:22`). `EveryTaskRuns` therefore excepts `Stopped`.
* Ctrl+C is charged to the task on the CPU (`process/scheduler.c:25`); if that one has no handler
  the shell's handler does not run and SIGINT stays pending in the wrong task.
* Address spaces are not isolated, though `src/README.md:251` says "espacios de memoria aislados": every
  process has the first 16 MB mapped for ring 3, writable, and with them the directories, tables,
  stacks and pages of all others (see Memory above). `UserHalvesDisjoint` is about the user halves only.
* A pending signal without a handler blocks all higher ones for ever: `do_switch` looks only at the
  lowest (`process/scheduler.c:120`), though `signal.c:45` says that no signal is blocked and
  `shell.c:229` that the signal will be delivered at the next tick. After `raise 1` no Ctrl+C is heard.
  `DeliveryNotPostponed` shows that nothing else blocks a signal for ever as long as handlers return and
  lower signals stop coming; `CtrlCHeard` spells the exception out too.
* After its first handled signal the shell does not work on its own stack frame any more (see Shell above).
* `raise 4294967298` sends signal 2: `str_atoi` wraps. `NoUnaskedSignal` takes numbers as ints.
* SYS_SETCOLOR has no visible effect on SYS_PRINT, which sets `kattr` to 0x0F itself
  (`process/syscall.c`), while `hello.c:6` says "cambia color de texto".
* A tab moves `kX` beyond column 79 without a new line, and enough of them wrap the signed char:
  `CursorOnScreen` and `StrayWrites` claim the column only without tabs.
* An echo that finds the cursor on the row below the screen, before the scrolling, writes behind the
  video memory, at most one row (`StrayWrites`).
* After ERR a call of the disk driver polls for DRQ for ever in ring 0, and with it the machine; a
  write that failed returns like one that succeeded. FLUSH is sent while the controller may be busy
  and ignore it; the wait after it still covers the write.
* Inodes of block groups after the first are looked for behind the first group's table:
  `inodes_per_group` is read and never used. `InodeLocated` is about the first group.
* A block size above 4096 would overflow `blk_a`; the images keep to 1024, 2048 and 4096.
* Descriptors start at 3, so a task can have MAX_FD - 3 files open.
* Frames are handed out up to 32 MB, but the loader can write only the first 16 MB and
  faults beyond (`PageFault`, reached in `mem_load`).
* A segment linked below 16 MB would be mapped through the kernel's own page table
  (`fs/elf.c:70`) and damage the identity map of every space. `link_user.ld` links at 1 GB,
  as do the files of `mem_load`; `FilesAssumption` says so, and the proofs about Memory use it.

### Bounds

* Tasks: with two every switch is a swap, with three the order of the ring shows. kmain
  registers three. The last one is elf_exec's (`NElf` = 1), which fails in some behaviours.
* Signals: two are enough for "a lower one is pending", three (`sched_live`) for one between the lowest and
  the last, and Ctrl+C sends the middle one; numbers 0 and NSIG are passed too.
* `SigTasks`: in `sched_context` both programs call SYS_SIGACTION and SYS_KILL; in `sched_live` only the one that
  elf_exec loads, as in the repository, where tasks A and B only print. Ctrl+C marks any task in both.
* Register contents: in `sched_context` a program is told from its handlers by instruction and
  stack pointer; `sched_sigreturn` varies general registers.
* Ext2: blocks of 3 bytes, 2 direct blocks, `WORD` = 16. There is a hole, a file that ends inside a
  block, one longer than its direct blocks, a deleted entry, an entry beyond the first directory
  block and a zero record length. Counts 0, 1 and 4: nothing, inside a block, across blocks. The pool
  of 3 is smaller than the 4 usable descriptors, so both run out.
* Shell: 6 keys fill and wrap a buffer of 3 (room for 2) and make a line longer than the buffer
  of 5, or two lines, or a `raise` with an argument of up to two digits and a Ctrl+C.
  The alphabet is two digits, space and Enter; the words of `cat` and `raise` are one digit each. With `INT_MAX`
  = 7 the arguments are SIGINT, SIGUSR1, SIGTERM, 0, an unhandled signal and a number that is none.
* Screen: 5 characters and 2 echoes fill a screen of 6 cells with new lines and scroll it, with
  both echoes inside one putcar. A tab of 2 in 3 columns passes the margin; `CHMOD` = 12 makes the
  column wrap; `BYTE` = 4 makes the cursor position need both registers.
* Disk: 2 words per sector (a first and a last one); a partition first in the table, behind
  another system's, before a second one, and none; block sizes 1024 to 4096; inodes of 128
  and 256 bytes; revision 0; a partition beyond 2^24 sectors, for the fourth register; no ext2 at all.
  Inodes at both ends of a block, and one beyond the first group.
* Pmm: memory below the reserved area, at it, inside and beyond the bitmap.
* Memory: the sizes keep the order of the real ones (static frames below the reserved
  area, that below the identity map, that below the bitmap, that below RAM). Files have a
  segment at the start or inside a page, with empty, short or long bss, two segments in one page, a
  second page table, a non-PT_LOAD header, and two that are rejected; the larger ones
  reach the end of the identity map in each of the three places the loader allocates.
  `RealLayout` checks the real addresses of `paging.h` and `task.h` for overlaps. kmain calls
  `elf_exec` once; `NExec` = 2 puts a second process beside the first.

The configurations of Scheduler, Memory, Shell and Disk turn the deadlock check off: the machine
really stops there, in an exception handler, in SYS_EXIT or at a disk that failed, and Memory and Disk
end when boot, or the bounded number of calls, is over.

### Fairness

* `WF(Boot)`, `WF(Handler)`: kernel code that is running goes on running; interrupts return to it. A syscall
  need not return: SYS_EXIT does not, and one that uses the disk may end in `SysDiskError`.
* `SF(do_switch)`: the timer keeps ticking, and as long as ring 3 is executed again and again some
  tick finds it there. Weak fairness would not do: a program that makes one syscall after
  another leaves ring 3 each time. What is assumed is that the ticks are not in step with
  the syscalls for ever.
* Nothing is assumed of programs (they may compute or fault), of keys or of the disk.
* Shell: `WF(Program)` and `SF(Deliver)`. The shell gets the CPU again and again (`EveryTaskRuns`), and
  some tick finds it in ring 3, as above; the disk answers `cat` without error. Nothing is assumed of keys.
* Disk: `WF(Driver)`, the CPU goes on polling, and `WF(Controller)`, a busy controller ends its
  command or fails. It need not succeed ever.

## 4. Proofs

All proofs hold for every value of the constants that meets the named assumptions, which TLC
evaluates in the runs: `SchedAssumption`, `VfsAssumption`, `Ext2Assumption`, `KeyboardAssumption`,
`ShellAssumption`, `ScreenAssumption`, `FramesAssumption`, `PmmAssumption`, `IdeAssumption`, `DiskAssumption`
and `MemoryAssumption` order the sizes as the headers do. Three are about data that comes from
outside the kernel:

* `ImagesAssumption` of Vfs: sizes and bytes are numbers. Holes, sizes beyond the direct blocks,
  deleted entries and record lengths of 0 are not excluded.
* `ImagesAssumption` of Disk: where a disk has an ext2 file system, its block size, inode size and
  table are those that ext2 defines, at most 4096 bytes per block, and its sectors exist.
  Disks without one are not excluded.
* `FilesAssumption` of Memory: programs are what `link_user.ld` makes of them, that is, their segments
  are in the user part of the address space, `p_offset` and `p_vaddr` agree within a page, and the bytes
  fit `elf_buf`. The loader checks none of this.

**SchedulerProofs.** `IInv` is the conjunction of the type invariant, `RingIsFifo`,
`MachineMatchesCurrent`, `ContextPreserved`, `HandlerFrame`, `NoSpuriousDelivery`,
`SyscallOwner`, and two strengthenings. `BootInv`: before `sched_enter` the first registered task
is current and esp0 is its kernel stack, which is why `sched_enter`, that never reads
`cur_task`, leaves a machine that matches it. `KillInv`: between the two steps of
SYS_KILL the saved mask holds only signals that were sent and the one being sent; IRQ1 can
only add to what was sent, and no delivery can happen in between since that needs ring 3.
Without it the store could bring back a delivered bit. There is a lemma for each action or group of
like actions, with a step for each conjunct that it disturbs. `RoundRobinCorrect` and `SigreturnCorrect` are
action properties that follow from the invariant. `CallerStable` is the conjunct `SyscallOwner`: `cur_task` is
the caller for the whole of a syscall.

`Refinement` shows that switching is transparent. A task's registers are those of the CPU while it is current
and those in its `task_t` otherwise, so a switch without delivery stutters, for the registers that are saved
and loaded are the ones the two tasks have; a delivery is a step of the receiver, and its frame is on the
receiver's own stack because CR3 is already loaded (`MachineMatchesCurrent`). `TaskInv` adds what the
abstract steps ask for: registered tasks wait for their start with the entry context, the call on the kernel stack
is the current task's, also in SYS_EXIT, and the mask that SYS_KILL will store is the pending set with the new signal
and without at most a SIGINT. That is all the damage the race of `sched_kill_race` can do.

**VfsProofs.** `NodesNotShared`, `NoNodeLeak` and a weak typing are inductive together: open
takes a node that is not used, hence in no table, since `NodesNotShared` says that the nodes of
open descriptors are used. Nothing is
assumed of what ext2_find and ext2_pread return, so these two hold for any disk.

`LsCorrect` and `ReadsCorrect` are about what the loops of Ext2 compute. They are recursive functions, and
the induction is done without an induction rule: if a fact about all numbers up to a bound
fails somewhere, the set of numbers where it fails has a least element (`WFMin` of the library with the order
of the naturals), and the defining equation leads from there to a smaller one. So `ext2_pread` returns the
bytes of `Content` from the offset on, for every offset, count and image, and `ext2_find` and `ext2_ls`
walk the same entries. `ReadsCorrect` has the hypothesis `NoWrap`: no offset plus count reaches
`WORD`. Where one does, the read passes the end of the file, which is the finding of `vfs_wrap`; the
counts of the programs in the repository do not.

**KeyboardProofs.** `ReadStable` needs `HeadSeen` (if the stale `kb_head` that `kb_getchar` loaded
differs from the tail, the real one still does: keys never make the buffer empty) and `SlotsFilled` (every slot between
tail and head holds a character). The index arithmetic modulo KB_BUF_SIZE is in lemmas. `Refinement`: the queue
of KeyQueue is the sequence of slots from tail to head. A key that is stored appends one, `StoreTail`
removes the first, which `ReadStable` says is still the character that was loaded, and every other
step leaves it.

**ShellProofs.** `ShellStep` shows that every step of Shell is a step of Keyboard or leaves its variables alone,
so the driver's theorems hold under the shell (`DriverUsed`, `ShReadCorrect`, `ShRefinement`). `LinesCorrect` needs
`LinesOK`, which says at every step of the shell, not only while it polls, how many of the lines in
the text read so far have been executed and what the line buffer holds of the next; the lemmas are on how one more
character changes the number of lines and the last of them. `SignalsAsked` needs that the mask of an interrupted SYS_KILL
holds only signals asked for, and that the number on its way to SYS_KILL is the argument of the last line.

**ScreenProofs.** `RowInv` says how far `kY` can be off at each label of putcar: an echo may scroll, or move
to the next row, between the test of `kY` and its decrement, and the register that is stored afterwards can be
stale by one row at most. It gives the row part of `CursorOnScreen` and, with `ColInv` for the column when no tab was
printed, `StrayWrites`. `CurInv` follows the cursor position through the four port writes of
`update_cursor`, and an echo in between sets `torn`.

`TextCorrect` compares the screen with a reference that is computed from the whole text. The reference is a
recursive function (`Page`, the place of each prefix's end), about which the lemmas say, by least counterexample as in
VfsProofs, that rows only grow, that one more character does not move the earlier ones, and that the last character to be put
into a place is the one shown there. With them `PutcarShows` proves of the whole of putcar, as the echo runs it, that
a screen that shows a text shows the text with one more character afterwards: a glyph fills the
cell of the place where the text ended, and a scroll moves every cell up one row as the window moves down one.
`TextInv` is the same for the print that goes on access by access: at each label it says which part of
the character's work is done, that is, what `kX`, `kY`, the cells up to the one being moved, and the values
held in registers are. A step of an echo between two characters is `PutcarShows`; one in the middle of a character sets
`raced`, after which nothing is claimed.

**DiskProofs.** `DevInv` and `BufInv` say where the controller is when the driver is at each of its
steps, and which words have been moved, a controller that fails at any command included. `Refinement` maps a
call to a request of Sectors: the transfer of the last word of a read, and the end of the controller's write,
are the steps that count, and all others stutter. `InodeCorrect` then follows the sectors that are
read one by one: the arithmetic of blocks and inodes within blocks is in lemmas, for every block size,
inode size and first block that ext2 allows.

**PmmProofs.** Lemmas: a non-empty set of naturals has a least element, `Frame` returns a free
frame, removing or adding one frame changes a cardinality by one. `FreeCountExact` and
`OwnedExact` are inductive with the typing; `AllocExclusive` follows.

**MemoryProofs.** `UserHalvesDisjoint` is not inductive as it stands: it says nothing of the address space that elf_exec
is building, or of frames that are in use and not mapped yet. `RoleInv` says that there is a function from
frames to roles, `<<kind, process, directory entry, table entry>>`, such that each page directory, each page table, each
page and each kernel stack that is reached through the page tables is in use and has its own
role. A frame has one role, so frames reached on different ways are different; a frame that is
allocated was not in use, hence had no role that matters, and gets one. Mapping a page twice, which happens
when segments share a page, makes the first frame unreachable and does no harm. `KernelInv` says that the
kernel's tables map the identity range and that every directory has them. `PmmInv` is needed because nobody tests
the result of `pmm_alloc_page`: it says that the allocator, lowest frame first, is still below the end of the
identity map, where the loader stops in a page fault, and therefore never returns 0 to it. `MemoryAssumption` has
the sizes this rests on (reserved 4 MB, identity map 16 MB, 32 MB in `pmm_init`). `KernelCorrect` and
`DisjointCorrect` hold for any page size, number of tables, programs and number of processes.

`ImageCorrect` (`ImageLoaded`) has the hypothesis `Loadable`: ext2_read_file reads the segments of a file whole (it does not
above 12 KB, run `mem_long`), segments that share a page agree on every cell of it that the earlier one has, and none
has the page of the user stack. The second part is what the code needs of the linker: a page that is mapped again
is copied anew from the file for the later segment only, so bss of an earlier segment in that page would be overwritten.
The files of `mem_load` are Loadable, with a shared page among them. `ImageInv` says that `elf_buf` holds the file, that the segments before the current
one, and the pages of it below `vaddr`, are done, and that so are all programs loaded before; `Keeps` says that mapping one
page leaves every other one, in any address space, where it was and as it was, which again rests on the roles.

Only model-checked: liveness (`EveryTaskRuns`, `DeliveryNotPostponed`, `EnterExecuted`, `CtrlCHeard`, `CallsEnd`),
which the prover does not handle. Every other property of a passing run is stated by a theorem.

## 5. Not modelled

* `vmm.c`, `list_add`, `list_del`, `list_empty`, `switch_to_kernel_space`: no caller. The overflow of
  `task_pool` cannot happen with the three tasks of kmain (`SchedAssumption`).
* GDT, IDT and TSS bytes, boot sector, multiboot header, strings: straight-line code without
  state that later code changes.
* Tasks A and B and `hello.c` only print; they stand behind "any program" in Scheduler.
* What commands of the shell print, the greeting, and the display of `hola.txt` in kmain.
* Directory records as bytes: an image of Ext2 gives them as entries with record lengths.

## 6. What is left

The plan is done: every component of section 1 that keeps state is modelled, and all safety properties of the
passing runs are proved. Further work would be a composition of `Scheduler` with `Vfs`, in place of the argument
that syscalls do not overlap (`Enter` of Processes), and liveness proofs once a prover handles fairness.
