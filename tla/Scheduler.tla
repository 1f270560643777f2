------------------------------ MODULE Scheduler ------------------------------
(***************************************************************************)
(* The PepinOS scheduler and its signals: process/scheduler.c, the signal  *)
(* cases of process/syscall.c, the boot-time registration of process/task.c*)
(* and fs/elf.c, and the interrupt stubs of arch/idt_asm.asm.              *)
(*                                                                         *)
(* One CPU.  IRQ0 and IRQ1 enter through interrupt gates (IF = 0), so      *)
(* do_switch and keyboard_handler are each one atomic step; INT 0x30 is a  *)
(* trap gate (IF = 1), so both interrupts may land between two steps of a  *)
(* syscall.  A tick that lands in ring 0 leaves do_switch at its second    *)
(* test and changes nothing: it is a stuttering step of this module.       *)
(***************************************************************************)
EXTENDS Integers

CONSTANTS
  MAX_TASKS,   \* slots of task_pool
  NLaunch,     \* tasks registered by launch_tasks
  NElf,        \* further tasks that elf_exec registers, if it loads its file
  NSIG,        \* signal numbers are 1 .. NSIG-1
  SIGINT,      \* the signal of Ctrl+C
  SigTasks,    \* slots of the programs that call SYS_SIGACTION and SYS_KILL
  Handlers,    \* user addresses a program installs as handlers
  Val,         \* contents of a general register; 0 is what sched_add_task stores
  EntryEip,    \* entry point of a task
  EntryEsp,    \* initial user stack pointer, counted in words
  UserCtx      \* register files the programs' own instructions produce

(* The 13 saved registers, grouped by what the kernel does to them: the    *)
(* iret frame (eip, esp; cs, eflags and ss never vary in ring 3), the      *)
(* registers a C call may clobber and that carry its result (vol: eax,     *)
(* ecx, edx) and those it preserves (keep: ebx, ebp, esi, edi).            *)
Ctx == [eip : Nat, esp : Int, vol : Val, keep : Val]

ASSUME SchedAssumption ==
  /\ MAX_TASKS \in Nat /\ NLaunch \in Nat \ {0} /\ NElf \in Nat
  /\ NLaunch + NElf <= MAX_TASKS
  /\ NSIG \in Nat /\ SIGINT \in 1..(NSIG - 1)
  /\ Handlers \subseteq Nat \ {0}
  /\ 0 \in Val
  /\ EntryEip \in Nat /\ EntryEsp \in Int
  /\ UserCtx \subseteq Ctx

HEAD  == -1     \* the sentinel &task_list of the task list
NULL  == -1     \* cur_task before the first registration
Slots == 0..(MAX_TASKS - 1)
Nodes == Slots \cup {HEAD}
Sigs  == 1..(NSIG - 1)

(* Page directories and kernel stacks are all different pages; the model   *)
(* numbers them by task slot.  0 is the value of zeroed static memory.     *)
PageDir(t)   == t + 1
KStackTop(t) == t + 1
KERNEL_PD    == MAX_TASKS + 1

ZeroCtx  == [eip |-> 0, esp |-> 0, vol |-> 0, keep |-> 0]
EntryCtx == [eip |-> EntryEip, esp |-> EntryEsp, vol |-> 0, keep |-> 0]

(* The syscalls the scheduler sees.  "other" stands for those that leave   *)
(* its state alone (print, setcolor, open, close, read, getchar, ls and    *)
(* the default case); "kill2" is SYS_KILL between its load and its store.  *)
Ops    == {"none", "other", "exit", "sigaction", "kill", "kill2", "sigreturn"}
NoCall == [op |-> "none", sig |-> 0, h |-> 0, t |-> NULL, acc |-> {}]

VARIABLES
  mode,            \* "boot" | "user" | "sys" | "exit" | "halt"
  cpu,             \* the user register file the CPU holds (in a syscall: as pushed)
  cr3, esp0,       \* the page directory in use and ktss.esp0
  cur,             \* cur_task
  ntasks,          \* registered tasks, which are the slots 0 .. ntasks-1
  lnext, lprev,    \* the links of the circular task list
  regs, tcr3, kstack_top,                              \* task_t, by slot
  sig_pending, sig_handlers, sig_saved_regs, sig_in_handler,
  uframe,          \* by page directory: the last call frame pushed on the user stack
  call,            \* the syscall in progress
  view,            \* history: the registers each task last saw in ring 3
  intr,            \* history: where each task's program was interrupted by a signal
  posted           \* history: signals sent to a task and not yet delivered

listVars == <<ntasks, lnext, lprev, kstack_top>>
sigVars  == <<sig_pending, sig_handlers, sig_saved_regs, sig_in_handler>>
machVars == <<cr3, esp0, cur, regs, tcr3>>
histVars == <<view, intr, posted>>
vars == <<mode, cpu, machVars, listVars, sigVars, uframe, call, histVars>>

-----------------------------------------------------------------------------
(* Static initialisation: LIST_HEAD(task_list), zeroed pool, no task.      *)
Init ==
  /\ mode = "boot" /\ cpu = ZeroCtx /\ cr3 = KERNEL_PD /\ esp0 = 0
  /\ cur = NULL /\ ntasks = 0
  /\ lnext = [n \in Nodes |-> HEAD] /\ lprev = [n \in Nodes |-> HEAD]
  /\ regs = [t \in Slots |-> ZeroCtx]
  /\ tcr3 = [t \in Slots |-> 0] /\ kstack_top = [t \in Slots |-> 0]
  /\ sig_pending = [t \in Slots |-> {}]
  /\ sig_handlers = [t \in Slots |-> [s \in Sigs |-> 0]]
  /\ sig_saved_regs = [t \in Slots |-> ZeroCtx]
  /\ sig_in_handler = [t \in Slots |-> FALSE]
  /\ uframe = [p \in 1..MAX_TASKS |-> [at |-> 0, sig |-> 0]]
  /\ call = NoCall
  /\ view = [t \in Slots |-> ZeroCtx] /\ intr = [t \in Slots |-> ZeroCtx]
  /\ posted = [t \in Slots |-> {}]

-----------------------------------------------------------------------------
(* Boot: kmain runs launch_tasks, elf_exec, sched_enter with interrupts on. *)

(* init_tss(TASK_A_KSTACK_TOP) *)
init_tss ==
  /\ mode = "boot" /\ esp0 = 0
  /\ esp0' = KStackTop(0)
  /\ UNCHANGED <<mode, cpu, cr3, cur, regs, tcr3, listVars, sigVars, uframe, call, histVars>>

(* Mutated form of list_add_tail: the LIFO insertion of list_add. *)
mut_list_add(new) ==
  /\ lnext' = [lnext EXCEPT ![new] = lnext[HEAD], ![HEAD] = new]
  /\ lprev' = [lprev EXCEPT ![lnext[HEAD]] = new, ![new] = HEAD]

(* _list_insert(new, head->prev, head): link new before the sentinel. *)
list_add_tail(new) ==
  LET p == lprev[HEAD] IN
  /\ lnext' = [lnext EXCEPT ![new] = HEAD, ![p] = new]
  /\ lprev' = [lprev EXCEPT ![HEAD] = new, ![new] = p]

sched_add_task ==
  LET t == ntasks IN
  /\ mode = "boot" /\ esp0 # 0 /\ ntasks < NLaunch + NElf
  /\ regs' = [regs EXCEPT ![t] = EntryCtx]
  /\ tcr3' = [tcr3 EXCEPT ![t] = PageDir(t)]
  /\ kstack_top' = [kstack_top EXCEPT ![t] = KStackTop(t)]
  /\ sig_pending' = [sig_pending EXCEPT ![t] = {}]
  /\ sig_in_handler' = [sig_in_handler EXCEPT ![t] = FALSE]
  /\ sig_handlers' = [sig_handlers EXCEPT ![t] = [s \in Sigs |-> 0]]
  /\ sig_saved_regs' = [sig_saved_regs EXCEPT ![t] = ZeroCtx]
  /\ list_add_tail(t)
  /\ cur' = IF ntasks = 0 THEN t ELSE cur
  /\ ntasks' = ntasks + 1
  /\ view' = [view EXCEPT ![t] = EntryCtx]
  /\ posted' = [posted EXCEPT ![t] = {}]
  /\ UNCHANGED <<mode, cpu, cr3, esp0, uframe, call, intr>>

(* sched_enter names task A's page directory, entry and stack itself and   *)
(* leaves the general registers as kmain had them.  elf_exec may have      *)
(* returned without registering its task.                                  *)
sched_enter ==
  /\ mode = "boot" /\ ntasks >= NLaunch
  /\ \E v, k \in Val :
       LET c == [eip |-> EntryEip, esp |-> EntryEsp, vol |-> v, keep |-> k] IN
       /\ cpu' = c
       /\ view' = [view EXCEPT ![0] = c]
  /\ cr3' = PageDir(0)
  /\ mode' = "user"
  /\ UNCHANGED <<esp0, cur, regs, tcr3, listVars, sigVars, uframe, call, intr, posted>>

-----------------------------------------------------------------------------
(* User code: any instruction sequence, an INT 0x30, or an exception. *)

UserStep ==
  /\ mode = "user"
  /\ \E c \in UserCtx :
       /\ cpu' = c
       /\ view' = [view EXCEPT ![cur] = c]
  /\ UNCHANGED <<mode, machVars, listVars, sigVars, uframe, call, intr, posted>>

Enter(op, sig, h) ==
  /\ mode = "user"
  /\ mode' = "sys"
  /\ call' = [op |-> op, sig |-> sig, h |-> h, t |-> cur, acc |-> {}]
  /\ UNCHANGED <<cpu, machVars, listVars, sigVars, uframe, histVars>>

(* INT 0x30 with the arguments a program may pass; 0 and NSIG are the      *)
(* signal numbers just outside the valid range.                            *)
Syscall ==
  \/ \E op \in {"other", "exit", "sigreturn"} : Enter(op, 0, 0)
  \/ cur \in SigTasks /\ \E sig \in 0..NSIG : Enter("kill", sig, 0)
  \/ cur \in SigTasks /\ \E sig \in 0..NSIG, h \in Handlers \cup {0} : Enter("sigaction", sig, h)

(* Every exception handler of arch/idt.c ends in while(1) with IF = 0. *)
Fault ==
  /\ mode = "user"
  /\ mode' = "halt"
  /\ UNCHANGED <<cpu, machVars, listVars, sigVars, uframe, call, histVars>>

-----------------------------------------------------------------------------
(* syscall_handler.  The stub leaves the result in eax and then drops the  *)
(* four pushed registers (add esp, 20), so of `frame` only the iret part   *)
(* c.eip, c.esp reaches the program: vol holds whatever C left there and   *)
(* keep what the caller had.                                               *)
Return(c) ==
  \E v \in Val :
    LET r == [eip |-> c.eip, esp |-> c.esp, vol |-> v, keep |-> cpu.keep] IN
    /\ cpu' = r
    /\ view' = [view EXCEPT ![cur] = r]
    /\ mode' = "user"
    /\ call' = NoCall
    /\ UNCHANGED <<machVars, listVars, uframe, intr>>

InSyscall(op) == mode = "sys" /\ call.op = op

(* Mutated form: off by one at the upper end. *)
mut_ValidSig == call.sig > 0 /\ call.sig <= NSIG

(* sig > 0 and sig < NSIG, the test of SYS_SIGACTION and SYS_KILL *)
ValidSig == call.sig > 0 /\ call.sig < NSIG

SysOther ==
  /\ InSyscall("other")
  /\ Return(cpu)
  /\ UNCHANGED <<sigVars, posted>>

(* SYS_EXIT never leaves the kernel: while(1), interrupts enabled. *)
SysExit ==
  /\ InSyscall("exit")
  /\ mode' = "exit"
  /\ UNCHANGED <<cpu, machVars, listVars, sigVars, uframe, call, histVars>>

(* Nor does a file syscall whose disk answers with ERR: ide_wait_drq polls *)
(* for DRQ without end, interrupts enabled.                                *)
SysDiskError ==
  /\ InSyscall("other")
  /\ mode' = "exit"
  /\ UNCHANGED <<cpu, machVars, listVars, sigVars, uframe, call, histVars>>

SysSigaction ==
  /\ InSyscall("sigaction")
  /\ sig_handlers' = IF ValidSig
                     THEN [sig_handlers EXCEPT ![cur][call.sig] = call.h]
                     ELSE sig_handlers
  /\ Return(cpu)
  /\ UNCHANGED <<sig_pending, sig_saved_regs, sig_in_handler, posted>>

SysKillInvalid ==
  /\ InSyscall("kill") /\ ~ValidSig
  /\ Return(cpu)
  /\ UNCHANGED <<sigVars, posted>>

(* t->sig_pending |= 1u << sig is a load, an or and a store in the -O0     *)
(* build; interrupts are enabled between them.                             *)
SysKillLoad ==
  /\ InSyscall("kill") /\ ValidSig
  /\ call' = [call EXCEPT !.op = "kill2", !.acc = sig_pending[cur] \cup {call.sig}]
  /\ UNCHANGED <<mode, cpu, machVars, listVars, sigVars, uframe, histVars>>

SysKillStore ==
  /\ InSyscall("kill2")
  /\ sig_pending' = [sig_pending EXCEPT ![call.t] = call.acc]
  /\ posted' = [posted EXCEPT ![call.t] = @ \cup {call.sig}]
  /\ Return(cpu)
  /\ UNCHANGED <<sig_handlers, sig_saved_regs, sig_in_handler>>

(* Mutated form: the frame of the handler itself is left in place. *)
mut_RestoredFrame(t) == cpu

(* frame[4..8] of SYS_SIGRETURN; frame[0..3] are written too, and dropped. *)
RestoredFrame(t) == sig_saved_regs[t]

SysSigreturn ==
  /\ InSyscall("sigreturn")
  /\ IF sig_in_handler[cur]
     THEN /\ Return(RestoredFrame(cur))
          /\ sig_in_handler' = [sig_in_handler EXCEPT ![cur] = FALSE]
     ELSE /\ Return(cpu)
          /\ UNCHANGED sig_in_handler
  /\ UNCHANGED <<sig_pending, sig_handlers, sig_saved_regs, posted>>

-----------------------------------------------------------------------------
(* IRQ1, Ctrl+C: keyboard_handler calls sched_signal(SIGINT). *)
CtrlC ==
  /\ mode # "halt" /\ cur # NULL
  /\ sig_pending' = [sig_pending EXCEPT ![cur] = @ \cup {SIGINT}]
  /\ posted' = [posted EXCEPT ![cur] = @ \cup {SIGINT}]
  /\ UNCHANGED <<mode, cpu, machVars, listVars, sig_handlers, sig_saved_regs,
                 sig_in_handler, uframe, call, view, intr>>

-----------------------------------------------------------------------------
(* IRQ0: do_switch. *)

(* Mutated form: the ring-0 test is missing. *)
mut_Ring3 == mode \in {"user", "sys"}

(* cur_task set and (ctx[9] & 3) != 0 *)
Ring3 == mode = "user"

(* Mutated form: the scan restarts at the head of the list every time. *)
mut_NextTask(t) == lnext[HEAD]

(* Mutated form: the list is walked backwards. *)
mut_PrevTask(t) == IF lprev[t] = HEAD THEN lprev[HEAD] ELSE lprev[t]

(* cur_task->list.next, skipping the sentinel *)
NextTask(t) == IF lnext[t] = HEAD THEN lnext[HEAD] ELSE lnext[t]

(* Mutated form: the context is not saved when the next task is loaded. *)
mut_SaveContext == UNCHANGED <<regs, tcr3>>

SaveContext ==
  /\ regs' = [regs EXCEPT ![cur] = cpu]
  /\ tcr3' = [tcr3 EXCEPT ![cur] = cr3]

(* Mutated form: ktss.esp0 keeps the previous task's kernel stack. *)
mut_LoadTask(nx) == cur' = nx /\ cr3' = tcr3'[nx] /\ UNCHANGED esp0

LoadTask(nx) == cur' = nx /\ cr3' = tcr3'[nx] /\ esp0' = kstack_top[nx]

(* Mutated form: the scan stops one signal short. *)
mut_Scan(t, s) ==
  /\ s \in sig_pending[t] /\ \A r \in sig_pending[t] : s <= r
  /\ ~sig_in_handler[t]
  /\ sig_handlers[t][s] # 0 /\ s < NSIG - 1

(* Something pending, no handler running, and the lowest pending signal    *)
(* has a handler; no other signal is looked at.                            *)
Deliverable(t, s) ==
  /\ s \in sig_pending[t] /\ \A r \in sig_pending[t] : s <= r
  /\ ~sig_in_handler[t]
  /\ sig_handlers[t][s] # 0

(* Mutated form: the frame is pushed before CR3 is loaded. *)
mut_PushFrame(esp, s) == uframe' = [uframe EXCEPT ![cr3] = [at |-> esp - 2, sig |-> s]]

(* signum and a dummy return address, written through the new CR3 *)
PushFrame(esp, s) == uframe' = [uframe EXCEPT ![cr3'] = [at |-> esp - 2, sig |-> s]]

(* Mutated form: the pending bit survives the delivery. *)
mut_ClearPending(t, s) == UNCHANGED sig_pending

ClearPending(t, s) == sig_pending' = [sig_pending EXCEPT ![t] = @ \ {s}]

Deliver(nx, s) ==
  LET ctx == regs'[nx]
      new == [ctx EXCEPT !.eip = sig_handlers[nx][s], !.esp = ctx.esp - 2] IN
  /\ Deliverable(nx, s)
  /\ sig_saved_regs' = [sig_saved_regs EXCEPT ![nx] = ctx]
  /\ PushFrame(ctx.esp, s)
  /\ cpu' = new
  /\ sig_in_handler' = [sig_in_handler EXCEPT ![nx] = TRUE]
  /\ ClearPending(nx, s)
  /\ view' = [view EXCEPT ![nx] = new]
  /\ intr' = [intr EXCEPT ![nx] = IF sig_in_handler[nx] THEN @ ELSE view[nx]]
  /\ posted' = [posted EXCEPT ![nx] = @ \ {s}]
  /\ UNCHANGED sig_handlers

NoDelivery(nx) ==
  /\ ~ \E s \in Sigs : Deliverable(nx, s)
  /\ cpu' = regs'[nx]
  /\ UNCHANGED <<sigVars, uframe, histVars>>

do_switch ==
  /\ Ring3
  /\ SaveContext
  /\ LoadTask(NextTask(cur))
  /\ \/ NoDelivery(NextTask(cur))
     \/ \E s \in Sigs : Deliver(NextTask(cur), s)
  /\ UNCHANGED <<mode, listVars, call>>

-----------------------------------------------------------------------------
Boot    == init_tss \/ sched_add_task \/ sched_enter
Handler == SysOther \/ SysExit \/ SysDiskError \/ SysSigaction \/ SysKillInvalid
           \/ SysKillLoad \/ SysKillStore \/ SysSigreturn
Next    == Boot \/ UserStep \/ Syscall \/ Fault \/ Handler \/ CtrlC \/ do_switch

Spec == Init /\ [][Next]_vars

(* Kernel code runs to its next step, and the timer keeps ticking: it      *)
(* never stops hitting ring 3 while ring 3 keeps being executed.  Nothing  *)
(* is assumed of programs, of the keyboard or of the disk: a syscall       *)
(* returns, or hangs in SysExit or SysDiskError.                           *)
FairSpec == Spec /\ WF_vars(Boot) /\ WF_vars(Handler) /\ SF_vars(do_switch)
-----------------------------------------------------------------------------
(* Every variable has its type: in particular cur_task is never the        *)
(* sentinel of the list once a task exists, and a task is on the CPU only  *)
(* after launch_tasks has registered all of its tasks.                     *)
TypeOK ==
  /\ mode \in {"boot", "user", "sys", "exit", "halt"}
  /\ cpu \in Ctx /\ cr3 \in Nat /\ esp0 \in Nat
  /\ ntasks \in 0..(NLaunch + NElf)
  /\ cur \in IF ntasks = 0 THEN {NULL} ELSE 0..(ntasks - 1)
  /\ mode # "boot" => ntasks >= NLaunch
  /\ lnext \in [Nodes -> Nodes] /\ lprev \in [Nodes -> Nodes]
  /\ regs \in [Slots -> Ctx]
  /\ tcr3 \in [Slots -> Nat] /\ kstack_top \in [Slots -> Nat]
  /\ sig_pending \in [Slots -> SUBSET Sigs]
  /\ sig_handlers \in [Slots -> [Sigs -> Nat]]
  /\ sig_saved_regs \in [Slots -> Ctx]
  /\ sig_in_handler \in [Slots -> BOOLEAN]
  /\ uframe \in [1..MAX_TASKS -> [at : Int, sig : 0..(NSIG - 1)]]
  /\ call \in [op : Ops, sig : 0..NSIG, h : Nat, t : Nodes, acc : SUBSET Sigs]
  /\ view \in [Slots -> Ctx] /\ intr \in [Slots -> Ctx]
  /\ posted \in [Slots -> SUBSET Sigs]

Registered == 0..(ntasks - 1)
Stopped    == mode \in {"exit", "halt"}

(* The circular list holds exactly the registered tasks, in registration   *)
(* order, with consistent back links: do_switch therefore visits each task *)
(* once per round.                                                         *)
RingIsFifo ==
  /\ lnext[HEAD] = IF ntasks = 0 THEN HEAD ELSE 0
  /\ lprev[HEAD] = ntasks - 1
  /\ \A t \in Registered : /\ lnext[t] = IF t = ntasks - 1 THEN HEAD ELSE t + 1
                           /\ lprev[t] = t - 1

(* Outside boot the hardware belongs to cur_task: CR3 is its page          *)
(* directory and ktss.esp0 its own kernel stack, also right after          *)
(* sched_enter, which does not go through do_switch.                       *)
MachineMatchesCurrent ==
  /\ mode # "boot" => cr3 = PageDir(cur) /\ esp0 = KStackTop(cur)
  /\ \A t \in Registered : tcr3[t] = PageDir(t) /\ kstack_top[t] = KStackTop(t)

(* A task that is not on the CPU is stored with exactly the registers it   *)
(* last had in ring 3, whatever ran since; the one on the CPU has them     *)
(* there.  No context leaks from one task into another.                    *)
ContextPreserved ==
  /\ \A t \in Registered : t # cur \/ mode = "boot" => regs[t] = view[t]
  /\ mode # "boot" => cpu = view[cur]

(* While a handler runs, sig_saved_regs still holds the point where the    *)
(* program itself was interrupted, and the call frame do_switch pushed     *)
(* lies just below that stack pointer in the receiver's own address space, *)
(* with a real signal number as the handler's argument.                    *)
HandlerFrame ==
  \A t \in Registered : sig_in_handler[t] =>
    /\ sig_saved_regs[t] = intr[t]
    /\ uframe[PageDir(t)].at = intr[t].esp - 2
    /\ uframe[PageDir(t)].sig \in Sigs

(* A pending bit stands for a signal that was sent and not delivered since: *)
(* no handler runs for a signal nobody sent, or twice for one sending, even *)
(* though SYS_KILL stores a copy of the mask it loaded earlier.            *)
NoSpuriousDelivery == \A t \in Registered : sig_pending[t] \subseteq posted[t]

(* The converse, which sched_signal and SYS_KILL intend by setting a bit:  *)
(* a signal that was sent stays pending until it is delivered.             *)
NoSignalLost ==
  \A t \in Registered :
    posted[t] \subseteq sig_pending[t]

(* The registers of a task are on the CPU or in its task_t. *)
TaskCtx(t) == IF t = cur /\ mode # "boot" THEN cpu ELSE regs[t]

(* The scheduler implements Processes: whatever the interleaving of ticks, *)
(* Ctrl+C and syscalls, each program has a machine of its own; a syscall   *)
(* acts for the task that made it and for no other, and is over before any *)
(* task makes another; of the signals only a Ctrl+C during SYS_KILL is     *)
(* ever lost.                                                              *)
PR == INSTANCE Processes WITH
        Zero <- ZeroCtx, Entry <- EntryCtx, tasks <- Registered,
        calling <- IF mode \in {"sys", "exit"} THEN {call.t} ELSE {},
        ctx <- [t \in Slots |-> TaskCtx(t)], pending <- sig_pending,
        handlers <- sig_handlers, inside <- sig_in_handler, saved <- sig_saved_regs,
        frame <- [t \in Slots |-> uframe[PageDir(t)]]
RefinesProcesses == PR!Spec

Sigreturn == mode = "sys" /\ sig_in_handler[cur] /\ ~sig_in_handler'[cur]

(* A successful SYS_SIGRETURN resumes the program at the instruction and   *)
(* stack pointer where the signal found it.                                *)
SigreturnResumes ==
  [][Sigreturn => cpu'.eip = intr[cur].eip /\ cpu'.esp = intr[cur].esp]_vars

(* What syscall.h says of SYS_SIGRETURN: the whole context from before the *)
(* signal is restored, general registers included.                         *)
SigreturnRestoresContext == [][Sigreturn => cpu' = intr[cur]]_vars

(* The CPU goes round the tasks in registration order: whoever loses it,   *)
(* the next holder is the task registered after it, the last one being     *)
(* followed by the first.                                                  *)
RoundRobin == [][cur' # cur /\ cur # NULL => cur' = (cur + 1) % ntasks]_vars

(* Every registered task is in ring 3 again and again, unless the machine  *)
(* stopped in SYS_EXIT, in an exception handler or, polling after ERR, in  *)
(* the disk driver.                                                        *)
EveryTaskRuns ==
  \A t \in Slots :
    []<>(mode = "user" /\ cur = t) \/ <>[]Stopped \/ <>[](mode # "boot" /\ t >= ntasks)

(* s is pending at task t and has a handler *)
Awaited(t, s) == s \in sig_pending[t] /\ sig_handlers[t][s] # 0

(* A pending signal with a handler does not stay so for ever, for every    *)
(* number up to the last, however many others are delivered before it: it  *)
(* is delivered once the handlers that run return and lower signals with   *)
(* handlers, which do_switch takes first, stop coming.  One thing blocks   *)
(* it for ever: a lower pending signal that has no handler and never gets  *)
(* one, where the scan of do_switch stops.                                 *)
DeliveryNotPostponed ==
  \A t \in Slots, s \in Sigs :
    \/ <>[]Stopped \/ <>[]sig_in_handler[t]
    \/ []<>(\E r \in 1..(s - 1) : Awaited(t, r))
    \/ <>[](\E r \in 1..(s - 1) : r \in sig_pending[t] /\ sig_handlers[t][r] = 0)
    \/ []<>~Awaited(t, s)
=============================================================================
