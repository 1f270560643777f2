--------------------------- MODULE SchedulerProofs ---------------------------
(***************************************************************************)
(* Proofs about Scheduler for any number of tasks, signals, handlers and   *)
(* register contents.  The safety properties are proved together: each of  *)
(* them needs some of the others, and all of them need BootInv and KillInv *)
(* to be inductive.  The refinement of Processes rests on them and on      *)
(* TaskInv.                                                                *)
(***************************************************************************)
EXTENDS Scheduler, TLAPS

(* The task whose syscall is on the kernel stack is cur_task until the     *)
(* syscall returns: every `t = sched_current_task()` inside                *)
(* syscall_handler means the caller, however many ticks arrive meanwhile.  *)
SyscallOwner == mode = "sys" => call.t = cur

(* What boot establishes before sched_enter: the first registered task is  *)
(* current and ktss.esp0 already is its kernel stack.                      *)
BootInv ==
  mode = "boot" => /\ esp0 \in {0, KStackTop(0)}
                   /\ ntasks > 0 => cur = 0 /\ esp0 = KStackTop(0)

(* The mask SYS_KILL is about to store was read from the caller's pending  *)
(* set, which no delivery can have reduced since.                          *)
KillInv ==
  mode = "sys" /\ call.op = "kill2" =>
    call.sig \in Sigs /\ call.acc \subseteq posted[cur] \cup {call.sig}

IInv ==
  /\ TypeOK
  /\ RingIsFifo
  /\ MachineMatchesCurrent
  /\ ContextPreserved
  /\ HandlerFrame
  /\ NoSpuriousDelivery
  /\ SyscallOwner
  /\ BootInv
  /\ KillInv

-----------------------------------------------------------------------------
(* The initial state satisfies the inductive invariant. *)
LEMMA InitInv == Init => IInv
<1> SUFFICES ASSUME Init PROVE IInv
  OBVIOUS
<1> USE SchedAssumption DEF Init
<1>1. TypeOK
  BY DEF TypeOK, Ctx, ZeroCtx, NULL, HEAD, Slots, Nodes, Sigs, KERNEL_PD, NoCall, Ops
<1>2. RingIsFifo
  BY DEF RingIsFifo, HEAD, Nodes, Registered
<1>3. MachineMatchesCurrent /\ ContextPreserved /\ HandlerFrame /\ NoSpuriousDelivery
  BY DEF MachineMatchesCurrent, ContextPreserved, HandlerFrame, NoSpuriousDelivery, Registered
<1>4. SyscallOwner /\ BootInv /\ KillInv
  BY DEF SyscallOwner, BootInv, KillInv
<1> QED
  BY <1>1, <1>2, <1>3, <1>4 DEF IInv

(* do_switch skips the sentinel: the successor of a registered task is the *)
(* next one in registration order, cyclically, and is itself registered.   *)
LEMMA NextTaskCyclic ==
  ASSUME TypeOK, RingIsFifo, NEW t \in Registered
  PROVE  /\ NextTask(t) = IF t = ntasks - 1 THEN 0 ELSE t + 1
         /\ NextTask(t) = (t + 1) % ntasks
         /\ NextTask(t) \in Registered
<1>1. ntasks \in Nat /\ t \in Nat /\ t < ntasks
  BY SchedAssumption DEF TypeOK, Registered
<1>2. NextTask(t) = IF t = ntasks - 1 THEN 0 ELSE t + 1
  BY <1>1 DEF NextTask, RingIsFifo, HEAD, Registered
<1>3. (t + 1) % ntasks = IF t = ntasks - 1 THEN 0 ELSE t + 1
  BY <1>1
<1> QED
  BY <1>1, <1>2, <1>3 DEF Registered

(* Outside boot cur_task is a registered task. *)
LEMMA CurRegistered ==
  ASSUME TypeOK, mode # "boot"
  PROVE  cur \in Registered /\ cur \in Slots /\ ntasks \in Nat /\ ntasks > 0
<1>1. /\ ntasks \in 0..(NLaunch + NElf) /\ ntasks >= NLaunch
      /\ cur \in IF ntasks = 0 THEN {NULL} ELSE 0..(ntasks - 1)
  BY DEF TypeOK
<1> QED
  BY <1>1, SchedAssumption DEF Registered, Slots

(* Registered tasks occupy slots of task_pool, and page directories have   *)
(* a place in uframe.                                                      *)
LEMMA RegisteredSlots ==
  ASSUME TypeOK, NEW t \in Registered
  PROVE  t \in Slots /\ t \in Nat /\ PageDir(t) \in 1..MAX_TASKS
<1>1. ntasks \in 0..(NLaunch + NElf)
  BY DEF TypeOK
<1> QED
  BY <1>1, SchedAssumption DEF Registered, Slots, PageDir

-----------------------------------------------------------------------------
(* Returning from a syscall with frame c: the caller stays current, gets   *)
(* the machine back and sees what it is given.                             *)
LEMMA ReturnPreserves ==
  ASSUME IInv, mode = "sys", NEW c \in Ctx, Return(c)
  PROVE  /\ mode' = "user" /\ call' = NoCall
         /\ cpu' \in Ctx /\ view' \in [Slots -> Ctx]
         /\ cpu'.eip = c.eip /\ cpu'.esp = c.esp
         /\ UNCHANGED <<cr3, esp0, cur, regs, tcr3, ntasks, lnext, lprev, kstack_top, uframe, intr>>
         /\ RingIsFifo' /\ MachineMatchesCurrent' /\ ContextPreserved'
         /\ SyscallOwner' /\ BootInv' /\ KillInv'
<1>1. cur \in Registered /\ cur \in Slots
  BY CurRegistered DEF IInv
<1>2. cpu \in Ctx /\ view \in [Slots -> Ctx]
  BY DEF IInv, TypeOK
<1>3. UNCHANGED <<cr3, esp0, cur, regs, tcr3, ntasks, lnext, lprev, kstack_top, uframe, intr>>
  BY DEF Return, machVars, listVars
<1>4. PICK v \in Val : LET r == [eip |-> c.eip, esp |-> c.esp, vol |-> v, keep |-> cpu.keep] IN
                       cpu' = r /\ view' = [view EXCEPT ![cur] = r]
  BY DEF Return
<1>5. mode' = "user" /\ call' = NoCall
  BY DEF Return
<1>6. cpu' \in Ctx /\ view' \in [Slots -> Ctx] /\ cpu'.eip = c.eip /\ cpu'.esp = c.esp
  BY <1>2, <1>4 DEF Ctx
<1>7. RingIsFifo' /\ MachineMatchesCurrent'
  BY <1>3, <1>5 DEF IInv, RingIsFifo, MachineMatchesCurrent, Registered
<1>8. ContextPreserved'
  <2>1. view'[cur] = cpu' /\ \A t \in Slots : t # cur => view'[t] = view[t]
    BY <1>1, <1>2, <1>4
  <2>2. Registered' = Registered /\ \A t \in Registered : t \in Slots
    BY <1>3, RegisteredSlots DEF IInv, Registered
  <2> QED
    BY <1>3, <1>5, <2>1, <2>2 DEF IInv, ContextPreserved
<1>9. SyscallOwner' /\ BootInv' /\ KillInv'
  BY <1>5 DEF SyscallOwner, BootInv, KillInv
<1> QED
  BY <1>3, <1>5, <1>6, <1>7, <1>8, <1>9
-----------------------------------------------------------------------------
(* Registration appends the new task to the ring and gives it a fresh      *)
(* context; it may not disturb the tasks registered before it.             *)
LEMMA AddTaskPreserves == IInv /\ sched_add_task => IInv'
<1> SUFFICES ASSUME IInv, sched_add_task PROVE IInv'
  OBVIOUS
<1> USE SchedAssumption
<1>1. /\ mode = "boot" /\ mode' = "boot" /\ esp0 # 0 /\ ntasks \in Nat
      /\ ntasks < NLaunch + NElf /\ ntasks' = ntasks + 1 /\ ntasks \in Slots
  BY DEF sched_add_task, IInv, TypeOK, Slots
<1>2. EntryCtx \in Ctx /\ ZeroCtx \in Ctx
  BY DEF EntryCtx, ZeroCtx, Ctx
<1>3. Registered' = Registered \cup {ntasks} /\ \A t \in Registered : t \in Slots /\ t # ntasks
  BY <1>1 DEF Registered, Slots
<1>4. TypeOK'
  <2>1. lnext' \in [Nodes -> Nodes] /\ lprev' \in [Nodes -> Nodes]
    BY <1>1 DEF sched_add_task, list_add_tail, IInv, TypeOK, Nodes, HEAD
  <2>2. /\ regs' \in [Slots -> Ctx] /\ tcr3' \in [Slots -> Nat] /\ kstack_top' \in [Slots -> Nat]
        /\ sig_saved_regs' \in [Slots -> Ctx] /\ view' \in [Slots -> Ctx]
    <3>1. /\ regs \in [Slots -> Ctx] /\ tcr3 \in [Slots -> Nat] /\ kstack_top \in [Slots -> Nat]
          /\ sig_saved_regs \in [Slots -> Ctx] /\ view \in [Slots -> Ctx]
      BY DEF IInv, TypeOK
    <3>2. /\ regs' = [regs EXCEPT ![ntasks] = EntryCtx]
          /\ view' = [view EXCEPT ![ntasks] = EntryCtx]
          /\ sig_saved_regs' = [sig_saved_regs EXCEPT ![ntasks] = ZeroCtx]
          /\ tcr3' = [tcr3 EXCEPT ![ntasks] = ntasks + 1]
          /\ kstack_top' = [kstack_top EXCEPT ![ntasks] = ntasks + 1]
      BY DEF sched_add_task, PageDir, KStackTop
    <3> QED
      BY <1>1, <1>2, <3>1, <3>2
  <2>3. /\ sig_pending' \in [Slots -> SUBSET Sigs] /\ posted' \in [Slots -> SUBSET Sigs]
        /\ sig_handlers' \in [Slots -> [Sigs -> Nat]]
    BY <1>1 DEF sched_add_task, IInv, TypeOK
  <2>4. sig_in_handler' \in [Slots -> BOOLEAN]
    BY <1>1 DEF sched_add_task, IInv, TypeOK
  <2>5. cur' \in IF ntasks' = 0 THEN {NULL} ELSE 0..(ntasks' - 1)
    <3>1. cur \in IF ntasks = 0 THEN {NULL} ELSE 0..(ntasks - 1)
      BY DEF IInv, TypeOK
    <3>2. cur' = IF ntasks = 0 THEN ntasks ELSE cur
      BY DEF sched_add_task
    <3> QED
      BY <1>1, <3>1, <3>2
  <2>6. UNCHANGED <<mode, cpu, cr3, esp0, uframe, call, intr>>
    BY DEF sched_add_task
  <2>7. ntasks' \in 0..(NLaunch + NElf)
    BY <1>1
  <2> QED
    BY <1>1, <2>1, <2>2, <2>3, <2>4, <2>5, <2>6, <2>7 DEF IInv, TypeOK
<1>5. RingIsFifo'
  <2>1. lprev[HEAD] = ntasks - 1 /\ lnext \in [Nodes -> Nodes] /\ lprev \in [Nodes -> Nodes]
    BY DEF IInv, TypeOK, RingIsFifo
  <2>2. /\ lnext' = [lnext EXCEPT ![ntasks] = HEAD, ![ntasks - 1] = ntasks]
        /\ lprev' = [lprev EXCEPT ![HEAD] = ntasks, ![ntasks] = ntasks - 1]
    BY <2>1 DEF sched_add_task, list_add_tail
  <2>3. ntasks \in Nodes /\ ntasks - 1 \in Nodes /\ HEAD \in Nodes /\ ntasks # HEAD
        /\ \A t \in Registered : t \in Nodes
    BY <1>1, <1>3 DEF Nodes, HEAD, Slots
  <2>4. lnext'[HEAD] = IF ntasks' = 0 THEN HEAD ELSE 0
    BY <1>1, <2>1, <2>2, <2>3 DEF IInv, RingIsFifo, HEAD
  <2>5. lprev'[HEAD] = ntasks' - 1
    BY <1>1, <2>1, <2>2, <2>3 DEF HEAD
  <2>6. ASSUME NEW t \in Registered'
        PROVE  lnext'[t] = IF t = ntasks' - 1 THEN HEAD ELSE t + 1
    BY <1>1, <1>3, <2>1, <2>2, <2>3 DEF IInv, RingIsFifo, HEAD, Registered
  <2>7. ASSUME NEW t \in Registered'
        PROVE  lprev'[t] = t - 1
    BY <1>1, <1>3, <2>1, <2>2, <2>3 DEF IInv, RingIsFifo, HEAD, Registered
  <2> QED
    BY <2>4, <2>5, <2>6, <2>7 DEF RingIsFifo
<1>6. MachineMatchesCurrent'
  <2>1. /\ tcr3' = [tcr3 EXCEPT ![ntasks] = PageDir(ntasks)]
        /\ kstack_top' = [kstack_top EXCEPT ![ntasks] = KStackTop(ntasks)]
        /\ tcr3 \in [Slots -> Nat] /\ kstack_top \in [Slots -> Nat]
    BY DEF sched_add_task, IInv, TypeOK
  <2> QED
    BY <1>1, <1>3, <2>1 DEF MachineMatchesCurrent, IInv, PageDir, KStackTop
<1>7. ContextPreserved'
  <2>1. /\ regs' = [regs EXCEPT ![ntasks] = EntryCtx] /\ view' = [view EXCEPT ![ntasks] = EntryCtx]
        /\ regs \in [Slots -> Ctx] /\ view \in [Slots -> Ctx]
    BY DEF sched_add_task, IInv, TypeOK
  <2>2. \A t \in Registered : regs[t] = view[t]
    BY <1>1 DEF IInv, ContextPreserved
  <2> QED
    BY <1>1, <1>3, <2>1, <2>2 DEF ContextPreserved
<1>8. HandlerFrame'
  <2>1. /\ sig_in_handler' = [sig_in_handler EXCEPT ![ntasks] = FALSE]
        /\ sig_saved_regs' = [sig_saved_regs EXCEPT ![ntasks] = ZeroCtx]
        /\ UNCHANGED <<uframe, intr>>
        /\ sig_in_handler \in [Slots -> BOOLEAN] /\ sig_saved_regs \in [Slots -> Ctx]
    BY DEF sched_add_task, IInv, TypeOK
  <2> QED
    BY <1>1, <1>3, <2>1 DEF IInv, HandlerFrame
<1>9. NoSpuriousDelivery'
  <2>1. /\ sig_pending' = [sig_pending EXCEPT ![ntasks] = {}] /\ posted' = [posted EXCEPT ![ntasks] = {}]
        /\ sig_pending \in [Slots -> SUBSET Sigs] /\ posted \in [Slots -> SUBSET Sigs]
    BY DEF sched_add_task, IInv, TypeOK
  <2> QED
    BY <1>1, <1>3, <2>1 DEF IInv, NoSpuriousDelivery
<1>10. BootInv'
  BY <1>1 DEF IInv, BootInv, sched_add_task
<1>11. SyscallOwner' /\ KillInv'
  BY <1>1 DEF SyscallOwner, KillInv
<1> QED
  BY <1>4, <1>5, <1>6, <1>7, <1>8, <1>9, <1>10, <1>11 DEF IInv
(* Loading the TSS, and the hand-written jump of sched_enter into task A.  *)
LEMMA EnterPreserves == IInv /\ (init_tss \/ sched_enter) => IInv'
<1> USE SchedAssumption
<1>1. ASSUME IInv, init_tss PROVE IInv'
  <2>1. mode = "boot" /\ mode' = "boot" /\ ntasks = 0 /\ esp0' = KStackTop(0)
    BY <1>1 DEF init_tss, IInv, BootInv, TypeOK, KStackTop
  <2>2. UNCHANGED <<cpu, cr3, cur, regs, tcr3, ntasks, lnext, lprev, kstack_top, sig_pending,
                    sig_handlers, sig_saved_regs, sig_in_handler, uframe, call, view, intr, posted>>
    BY <1>1 DEF init_tss, listVars, sigVars, histVars
  <2>3. TypeOK'
    <3>1. esp0' \in Nat /\ mode' = mode
      BY <2>1 DEF KStackTop
    <3>2. TypeOK
      BY <1>1 DEF IInv
    <3> QED
      BY <2>2, <3>1, <3>2 DEF TypeOK
  <2>4. RingIsFifo' /\ HandlerFrame' /\ NoSpuriousDelivery' /\ ContextPreserved' /\ MachineMatchesCurrent'
    BY <1>1, <2>1, <2>2 DEF IInv, RingIsFifo, HandlerFrame, NoSpuriousDelivery, ContextPreserved,
       MachineMatchesCurrent, Registered
  <2>5. SyscallOwner' /\ BootInv' /\ KillInv'
    BY <2>1, <2>2 DEF SyscallOwner, BootInv, KillInv
  <2> QED
    BY <2>3, <2>4, <2>5 DEF IInv
<1>2. ASSUME IInv, sched_enter PROVE IInv'
  <2>1. /\ mode = "boot" /\ mode' = "user" /\ ntasks >= NLaunch /\ ntasks \in Nat /\ ntasks > 0
        /\ cur = 0 /\ esp0 = KStackTop(0) /\ 0 \in Slots /\ cr3' = PageDir(0)
    BY <1>2 DEF sched_enter, IInv, BootInv, TypeOK, Slots
  <2>2. UNCHANGED <<esp0, cur, regs, tcr3, ntasks, lnext, lprev, kstack_top, sig_pending,
                    sig_handlers, sig_saved_regs, sig_in_handler, uframe, call, intr, posted>>
    BY <1>2 DEF sched_enter, listVars, sigVars
  <2>3. PICK v, k \in Val : LET c == [eip |-> EntryEip, esp |-> EntryEsp, vol |-> v, keep |-> k] IN
                            cpu' = c /\ view' = [view EXCEPT ![0] = c]
    BY <1>2 DEF sched_enter
  <2>4. cpu' \in Ctx /\ view \in [Slots -> Ctx] /\ view' \in [Slots -> Ctx]
    BY <1>2, <2>3 DEF IInv, TypeOK, Ctx
  <2>5. TypeOK'
    BY <1>2, <2>1, <2>2, <2>4 DEF IInv, TypeOK, PageDir
  <2>6. ContextPreserved'
    <3>1. view'[0] = cpu' /\ \A t \in Slots : t # 0 => view'[t] = view[t]
      BY <2>1, <2>3, <2>4
    <3>2. \A t \in Registered : t \in Slots /\ regs[t] = view[t]
      BY <1>2, <2>1, RegisteredSlots DEF IInv, ContextPreserved
    <3> QED
      BY <2>1, <2>2, <3>1, <3>2 DEF ContextPreserved, Registered
  <2>7. MachineMatchesCurrent'
    BY <1>2, <2>1, <2>2 DEF IInv, MachineMatchesCurrent, Registered
  <2>8. RingIsFifo' /\ HandlerFrame' /\ NoSpuriousDelivery'
    BY <1>2, <2>2 DEF IInv, RingIsFifo, HandlerFrame, NoSpuriousDelivery, Registered
  <2>9. SyscallOwner' /\ BootInv' /\ KillInv'
    BY <2>1 DEF SyscallOwner, BootInv, KillInv
  <2> QED
    BY <2>5, <2>6, <2>7, <2>8, <2>9 DEF IInv
<1> QED
  BY <1>1, <1>2

(* User instructions, and the steps that only move between modes: INT      *)
(* 0x30, an exception, SYS_EXIT, a disk error and the load of SYS_KILL.    *)
LEMMA UserPreserves == IInv /\ (UserStep \/ Syscall \/ Fault \/ SysExit \/ SysDiskError \/ SysKillLoad) => IInv'
<1> USE SchedAssumption
<1>1. ASSUME IInv, UserStep PROVE IInv'
  <2>1. mode = "user" /\ mode' = "user" /\ cur \in Registered /\ cur \in Slots
    BY <1>1, CurRegistered DEF UserStep, IInv
  <2>2. UNCHANGED <<cr3, esp0, cur, regs, tcr3, ntasks, lnext, lprev, kstack_top, sig_pending,
                    sig_handlers, sig_saved_regs, sig_in_handler, uframe, call, intr, posted>>
    BY <1>1 DEF UserStep, machVars, listVars, sigVars
  <2>3. PICK c \in Ctx : cpu' = c /\ view' = [view EXCEPT ![cur] = c]
    BY <1>1 DEF UserStep
  <2>4. view \in [Slots -> Ctx] /\ view' \in [Slots -> Ctx]
    BY <1>1, <2>1, <2>3 DEF IInv, TypeOK
  <2>5. TypeOK'
    BY <1>1, <2>1, <2>2, <2>3, <2>4 DEF IInv, TypeOK
  <2>6. ContextPreserved'
    <3>1. \A t \in Registered : t \in Slots
      BY <1>1, RegisteredSlots DEF IInv
    <3> QED
      BY <1>1, <2>1, <2>2, <2>3, <2>4, <3>1 DEF IInv, ContextPreserved, Registered
  <2>7. MachineMatchesCurrent' /\ RingIsFifo' /\ HandlerFrame' /\ NoSpuriousDelivery'
    BY <1>1, <2>1, <2>2 DEF IInv, MachineMatchesCurrent, RingIsFifo, HandlerFrame, NoSpuriousDelivery,
       Registered
  <2>8. SyscallOwner' /\ BootInv' /\ KillInv'
    BY <2>1 DEF SyscallOwner, BootInv, KillInv
  <2> QED
    BY <2>5, <2>6, <2>7, <2>8 DEF IInv
<1>2. ASSUME IInv, Syscall \/ Fault \/ SysExit \/ SysDiskError \/ SysKillLoad PROVE IInv'
  <2>1. UNCHANGED <<cpu, cr3, esp0, cur, regs, tcr3, ntasks, lnext, lprev, kstack_top, sig_pending,
                    sig_handlers, sig_saved_regs, sig_in_handler, uframe, view, intr, posted>>
    BY <1>2 DEF Syscall, Enter, Fault, SysExit, SysDiskError, SysKillLoad, machVars, listVars, sigVars, histVars
  <2>2. mode \in {"user", "sys"} /\ mode' \in {"sys", "exit", "halt"}
    BY <1>2 DEF Syscall, Enter, Fault, SysExit, SysDiskError, SysKillLoad, InSyscall
  <2>3. cur \in Registered /\ cur \in Slots /\ cur \in Nodes
    BY <1>2, <2>2, CurRegistered DEF IInv, Nodes
  <2>4. /\ call' \in [op : Ops, sig : 0..NSIG, h : Nat, t : Nodes, acc : SUBSET Sigs]
        /\ SyscallOwner' /\ KillInv'
    <3>1. CASE Syscall
      <4>1. PICK op \in Ops, sig \in 0..NSIG, h \in Nat :
              op # "kill2" /\ call' = [op |-> op, sig |-> sig, h |-> h, t |-> cur, acc |-> {}]
        <5>1. CASE \E op \in {"other", "exit", "sigreturn"} : Enter(op, 0, 0)
          <6>1. PICK op \in {"other", "exit", "sigreturn"} : Enter(op, 0, 0)
            BY <5>1
          <6>2. op \in Ops /\ op # "kill2" /\ 0 \in 0..NSIG /\ 0 \in Nat
            BY <6>1 DEF Ops
          <6> QED
            BY <6>1, <6>2 DEF Enter
        <5>2. CASE cur \in SigTasks /\ \E sig \in 0..NSIG : Enter("kill", sig, 0)
          BY <5>2 DEF Enter, Ops
        <5>3. CASE cur \in SigTasks /\ \E sig \in 0..NSIG, h \in Handlers \cup {0} : Enter("sigaction", sig, h)
          BY <5>3 DEF Enter, Ops
        <5> QED
          BY <3>1, <5>1, <5>2, <5>3 DEF Syscall
      <4> QED
        BY <2>1, <2>3, <4>1 DEF SyscallOwner, KillInv
    <3>2. CASE Fault \/ SysExit \/ SysDiskError
      BY <1>2, <3>2 DEF Fault, SysExit, SysDiskError, IInv, TypeOK, SyscallOwner, KillInv
    <3>3. CASE SysKillLoad
      <4>1. /\ mode = "sys" /\ mode' = "sys" /\ call.sig \in Sigs
            /\ call' = [call EXCEPT !.op = "kill2", !.acc = sig_pending[cur] \cup {call.sig}]
            /\ call \in [op : Ops, sig : 0..NSIG, h : Nat, t : Nodes, acc : SUBSET Sigs]
        <5>1. call \in [op : Ops, sig : 0..NSIG, h : Nat, t : Nodes, acc : SUBSET Sigs]
          BY <1>2 DEF IInv, TypeOK
        <5>2. /\ mode = "sys" /\ mode' = mode /\ call.sig > 0 /\ call.sig < NSIG
              /\ call' = [call EXCEPT !.op = "kill2", !.acc = sig_pending[cur] \cup {call.sig}]
          BY <3>3 DEF SysKillLoad, InSyscall, ValidSig
        <5>3. call.sig \in 0..NSIG
          BY <5>1
        <5> QED
          BY <5>1, <5>2, <5>3 DEF Sigs
      <4>2. sig_pending[cur] \subseteq posted[cur] /\ sig_pending[cur] \subseteq Sigs
        BY <1>2, <2>3 DEF IInv, NoSpuriousDelivery, TypeOK
      <4>3. call' \in [op : Ops, sig : 0..NSIG, h : Nat, t : Nodes, acc : SUBSET Sigs]
        BY <4>1, <4>2 DEF Ops
      <4>4. SyscallOwner'
        BY <1>2, <2>1, <4>1 DEF IInv, SyscallOwner
      <4>5. KillInv'
        BY <2>1, <4>1, <4>2 DEF KillInv
      <4> QED
        BY <4>3, <4>4, <4>5
    <3> QED
      BY <1>2, <3>1, <3>2, <3>3
  <2>5. TypeOK'
    BY <1>2, <2>1, <2>2, <2>4 DEF IInv, TypeOK
  <2>6. RingIsFifo' /\ HandlerFrame' /\ NoSpuriousDelivery' /\ ContextPreserved' /\ MachineMatchesCurrent'
    BY <1>2, <2>1, <2>2 DEF IInv, RingIsFifo, HandlerFrame, NoSpuriousDelivery, ContextPreserved,
       MachineMatchesCurrent, Registered
  <2>7. BootInv'
    BY <2>2 DEF BootInv
  <2> QED
    BY <2>4, <2>5, <2>6, <2>7 DEF IInv
<1> QED
  BY <1>1, <1>2
(* The syscalls that return to the caller. *)
LEMMA HandlerPreserves ==
  IInv /\ (SysOther \/ SysSigaction \/ SysKillInvalid \/ SysKillStore \/ SysSigreturn) => IInv'
<1> SUFFICES ASSUME IInv, SysOther \/ SysSigaction \/ SysKillInvalid \/ SysKillStore \/ SysSigreturn
             PROVE  IInv'
  OBVIOUS
<1> USE SchedAssumption
<1>1. mode = "sys" /\ cur \in Registered /\ cur \in Slots /\ cpu \in Ctx /\ sig_saved_regs[cur] \in Ctx
  BY CurRegistered DEF IInv, TypeOK, SysOther, SysSigaction, SysKillInvalid, SysKillStore,
     SysSigreturn, InSyscall
<1>2. PICK c \in Ctx : Return(c)
  BY <1>1 DEF SysOther, SysSigaction, SysKillInvalid, SysKillStore, SysSigreturn, RestoredFrame
<1>3. /\ mode' = "user" /\ call' = NoCall /\ cpu' \in Ctx /\ view' \in [Slots -> Ctx]
      /\ UNCHANGED <<cr3, esp0, cur, regs, tcr3, ntasks, lnext, lprev, kstack_top, uframe, intr>>
      /\ RingIsFifo' /\ MachineMatchesCurrent' /\ ContextPreserved'
      /\ SyscallOwner' /\ BootInv' /\ KillInv'
  BY <1>1, <1>2, ReturnPreserves
<1>4. sig_saved_regs' = sig_saved_regs
  BY DEF SysOther, SysSigaction, SysKillInvalid, SysKillStore, SysSigreturn, sigVars
<1>5. sig_handlers' \in [Slots -> [Sigs -> Nat]]
  <2>1. CASE SysSigaction
    <3>1. call.h \in Nat /\ sig_handlers \in [Slots -> [Sigs -> Nat]] /\ call.sig \in 0..NSIG
      BY DEF IInv, TypeOK
    <3>2. \/ sig_handlers' = sig_handlers
          \/ call.sig \in Sigs /\ sig_handlers' = [sig_handlers EXCEPT ![cur][call.sig] = call.h]
      BY <2>1, <3>1 DEF SysSigaction, ValidSig, Sigs
    <3>3. CASE call.sig \in Sigs /\ sig_handlers' = [sig_handlers EXCEPT ![cur][call.sig] = call.h]
      BY <1>1, <3>1, <3>3
    <3> QED
      BY <3>1, <3>2, <3>3
  <2>2. CASE ~SysSigaction
    BY <2>2 DEF SysOther, SysKillInvalid, SysKillStore, SysSigreturn, sigVars, IInv, TypeOK
  <2> QED
    BY <2>1, <2>2
<1>6. /\ sig_pending' \in [Slots -> SUBSET Sigs] /\ posted' \in [Slots -> SUBSET Sigs]
      /\ NoSpuriousDelivery'
  <2>1. CASE SysKillStore
    <3>1. /\ call.t = cur /\ call.sig \in Sigs /\ call.acc \subseteq posted[cur] \cup {call.sig}
          /\ call.acc \in SUBSET Sigs
      BY <2>1, <1>1 DEF SysKillStore, InSyscall, IInv, SyscallOwner, KillInv, TypeOK
    <3>2. /\ sig_pending' = [sig_pending EXCEPT ![cur] = call.acc]
          /\ posted' = [posted EXCEPT ![cur] = posted[cur] \cup {call.sig}]
          /\ sig_pending \in [Slots -> SUBSET Sigs] /\ posted \in [Slots -> SUBSET Sigs]
      BY <2>1, <3>1 DEF SysKillStore, IInv, TypeOK
    <3>3. \A t \in Registered : t \in Slots /\ sig_pending[t] \subseteq posted[t]
      BY RegisteredSlots DEF IInv, NoSpuriousDelivery
    <3>4. Registered' = Registered
      BY <1>3 DEF Registered
    <3>5. /\ sig_pending'[cur] \subseteq posted'[cur]
          /\ \A t \in Slots : t # cur => sig_pending'[t] = sig_pending[t] /\ posted'[t] = posted[t]
      BY <1>1, <3>1, <3>2
    <3>6. sig_pending' \in [Slots -> SUBSET Sigs] /\ posted' \in [Slots -> SUBSET Sigs]
      BY <3>1, <3>2
    <3> QED
      BY <3>3, <3>4, <3>5, <3>6 DEF NoSpuriousDelivery
  <2>2. CASE ~SysKillStore
    <3>1. UNCHANGED <<sig_pending, posted>>
      BY <2>2 DEF SysOther, SysSigaction, SysKillInvalid, SysSigreturn, sigVars
    <3> QED
      BY <1>3, <3>1 DEF IInv, TypeOK, NoSpuriousDelivery, Registered
  <2> QED
    BY <2>1, <2>2
<1>7. sig_in_handler' \in [Slots -> BOOLEAN] /\ \A t \in Slots : sig_in_handler'[t] => sig_in_handler[t]
  <2>0. sig_in_handler \in [Slots -> BOOLEAN]
    BY DEF IInv, TypeOK
  <2>1. sig_in_handler' = sig_in_handler \/ sig_in_handler' = [sig_in_handler EXCEPT ![cur] = FALSE]
    BY DEF SysOther, SysSigaction, SysKillInvalid, SysKillStore, SysSigreturn, sigVars
  <2> QED
    BY <1>1, <2>0, <2>1
<1>8. HandlerFrame'
  <2>1. Registered' = Registered /\ \A t \in Registered : t \in Slots
    BY <1>3, RegisteredSlots DEF Registered, IInv
  <2> QED
    BY <1>3, <1>4, <1>7, <2>1 DEF IInv, HandlerFrame
<1>9. TypeOK'
  <2>1. /\ mode' \in {"boot", "user", "sys", "exit", "halt"}
        /\ call' \in [op : Ops, sig : 0..NSIG, h : Nat, t : Nodes, acc : SUBSET Sigs]
    BY <1>3 DEF NoCall, Ops, NULL, Nodes, HEAD
  <2>2. ntasks >= NLaunch /\ ntasks' = ntasks /\ mode' # "boot"
    BY <1>1, <1>3 DEF IInv, TypeOK
  <2> QED
    BY <1>3, <1>4, <1>5, <1>6, <1>7, <2>1, <2>2 DEF IInv, TypeOK
<1> QED
  BY <1>3, <1>6, <1>8, <1>9 DEF IInv

(* Ctrl+C, at any point of boot, ring 3 or a syscall. *)
LEMMA CtrlCPreserves == IInv /\ CtrlC => IInv'
<1> SUFFICES ASSUME IInv, CtrlC PROVE IInv'
  OBVIOUS
<1> USE SchedAssumption
<1>1. cur \in Registered /\ cur \in Slots
  BY DEF CtrlC, IInv, TypeOK, NULL, Registered, Slots
<1>2. UNCHANGED <<mode, cpu, cr3, esp0, cur, regs, tcr3, ntasks, lnext, lprev, kstack_top,
                  sig_handlers, sig_saved_regs, sig_in_handler, uframe, call, view, intr>>
  BY DEF CtrlC, machVars, listVars
<1>3. /\ sig_pending' = [sig_pending EXCEPT ![cur] = sig_pending[cur] \cup {SIGINT}]
      /\ posted' = [posted EXCEPT ![cur] = posted[cur] \cup {SIGINT}]
      /\ sig_pending \in [Slots -> SUBSET Sigs] /\ posted \in [Slots -> SUBSET Sigs] /\ SIGINT \in Sigs
  BY DEF CtrlC, IInv, TypeOK, Sigs
<1>4. sig_pending' \in [Slots -> SUBSET Sigs] /\ posted' \in [Slots -> SUBSET Sigs]
  BY <1>1, <1>3
<1>5. TypeOK'
  BY <1>2, <1>4 DEF IInv, TypeOK
<1>6. NoSpuriousDelivery'
  <2>1. \A t \in Registered : t \in Slots /\ sig_pending[t] \subseteq posted[t]
    BY RegisteredSlots DEF IInv, NoSpuriousDelivery
  <2>2. Registered' = Registered
    BY <1>2 DEF Registered
  <2> QED
    BY <1>1, <1>3, <2>1, <2>2 DEF NoSpuriousDelivery
<1>7. KillInv'
  BY <1>1, <1>2, <1>3 DEF IInv, KillInv
<1>8. RingIsFifo' /\ HandlerFrame' /\ ContextPreserved' /\ MachineMatchesCurrent'
  BY <1>2 DEF IInv, RingIsFifo, HandlerFrame, ContextPreserved, MachineMatchesCurrent, Registered
<1>9. SyscallOwner' /\ BootInv'
  BY <1>2 DEF IInv, SyscallOwner, BootInv
<1> QED
  BY <1>5, <1>6, <1>7, <1>8, <1>9 DEF IInv
-----------------------------------------------------------------------------
(* A tick in ring 3: save, advance, load, and deliver at most one signal.  *)
LEMMA SwitchPreserves == IInv /\ do_switch => IInv'
<1> SUFFICES ASSUME IInv, do_switch PROVE IInv'
  OBVIOUS
<1> USE SchedAssumption
<1> DEFINE nx == NextTask(cur)
<1>1. mode = "user" /\ mode' = "user" /\ cur \in Registered /\ cur \in Slots
  BY CurRegistered DEF do_switch, Ring3, IInv
<1>2. nx \in Registered /\ nx \in Slots /\ nx \in Nat /\ PageDir(nx) \in 1..MAX_TASKS
  BY <1>1, NextTaskCyclic, RegisteredSlots DEF IInv
<1> HIDE DEF nx
<1>3. /\ regs' = [regs EXCEPT ![cur] = cpu] /\ tcr3' = [tcr3 EXCEPT ![cur] = cr3]
      /\ cur' = nx /\ cr3' = tcr3'[nx] /\ esp0' = kstack_top[nx]
      /\ UNCHANGED <<ntasks, lnext, lprev, kstack_top, call>>
  BY DEF do_switch, SaveContext, LoadTask, listVars, nx
<1>4. Registered' = Registered /\ \A t \in Registered : t \in Slots /\ t \in Nat
  BY <1>3, RegisteredSlots DEF Registered, IInv
<1>5. MachineMatchesCurrent' /\ cr3' = PageDir(nx) /\ tcr3' \in [Slots -> Nat] /\ esp0' \in Nat
  <2>1. \A t \in Registered : tcr3'[t] = PageDir(t)
    BY <1>1, <1>3, <1>4 DEF IInv, MachineMatchesCurrent, TypeOK
  <2>2. tcr3' \in [Slots -> Nat] /\ esp0' \in Nat
    BY <1>1, <1>2, <1>3 DEF IInv, TypeOK
  <2> QED
    BY <1>2, <1>3, <1>4, <2>1, <2>2 DEF IInv, MachineMatchesCurrent
<1>6. regs' \in [Slots -> Ctx] /\ \A t \in Registered : regs'[t] = view[t]
  <2>1. cpu \in Ctx /\ regs \in [Slots -> Ctx] /\ cpu = view[cur]
    BY <1>1 DEF IInv, TypeOK, ContextPreserved
  <2>2. \A t \in Registered : t # cur => regs[t] = view[t]
    BY DEF IInv, ContextPreserved
  <2> QED
    BY <1>1, <1>3, <1>4, <2>1, <2>2
<1>7. RingIsFifo'
  BY <1>3, <1>4 DEF IInv, RingIsFifo
<1>8. SyscallOwner' /\ BootInv' /\ KillInv'
  BY <1>1 DEF SyscallOwner, BootInv, KillInv
<1>9. /\ mode' \in {"boot", "user", "sys", "exit", "halt"} /\ cr3' \in Nat
      /\ ntasks' \in 0..(NLaunch + NElf) /\ ntasks' >= NLaunch
      /\ cur' \in IF ntasks' = 0 THEN {NULL} ELSE 0..(ntasks' - 1)
      /\ lnext' \in [Nodes -> Nodes] /\ lprev' \in [Nodes -> Nodes]
      /\ kstack_top' \in [Slots -> Nat]
      /\ call' \in [op : Ops, sig : 0..NSIG, h : Nat, t : Nodes, acc : SUBSET Sigs]
  BY <1>1, <1>2, <1>3, <1>5 DEF IInv, TypeOK, Registered, PageDir
<1>10. CASE NoDelivery(nx)
  <2>1. cpu' = regs'[nx] /\ UNCHANGED <<sig_pending, sig_handlers, sig_saved_regs, sig_in_handler,
                                        uframe, view, intr, posted>>
    BY <1>10 DEF NoDelivery, sigVars, histVars
  <2>2. cpu' \in Ctx
    BY <1>2, <1>6, <2>1
  <2>3. TypeOK'
    BY <1>5, <1>6, <1>9, <2>1, <2>2 DEF IInv, TypeOK
  <2>4. ContextPreserved'
    BY <1>1, <1>2, <1>3, <1>4, <1>6, <2>1 DEF ContextPreserved
  <2>5. HandlerFrame' /\ NoSpuriousDelivery'
    BY <1>4, <2>1 DEF IInv, HandlerFrame, NoSpuriousDelivery
  <2> QED
    BY <1>5, <1>7, <1>8, <2>3, <2>4, <2>5 DEF IInv
<1>11. ASSUME NEW s \in Sigs, Deliver(nx, s) PROVE IInv'
  <2> DEFINE new == [view[nx] EXCEPT !.eip = sig_handlers[nx][s], !.esp = view[nx].esp - 2]
  <2>1. regs'[nx] = view[nx] /\ view \in [Slots -> Ctx] /\ view[nx] \in Ctx /\ ~sig_in_handler[nx]
    BY <1>2, <1>6, <1>11 DEF Deliver, Deliverable, IInv, TypeOK
  <2>2. /\ cpu' = new /\ view' = [view EXCEPT ![nx] = new]
        /\ sig_saved_regs' = [sig_saved_regs EXCEPT ![nx] = view[nx]]
        /\ intr' = [intr EXCEPT ![nx] = view[nx]]
        /\ uframe' = [uframe EXCEPT ![PageDir(nx)] = [at |-> view[nx].esp - 2, sig |-> s]]
    <3>1. cpu' = new /\ view' = [view EXCEPT ![nx] = new]
      BY <1>11, <2>1 DEF Deliver
    <3>2. sig_saved_regs' = [sig_saved_regs EXCEPT ![nx] = view[nx]]
      BY <1>11, <2>1 DEF Deliver
    <3>3. intr' = [intr EXCEPT ![nx] = view[nx]]
      BY <1>11, <2>1 DEF Deliver
    <3>4. uframe' = [uframe EXCEPT ![PageDir(nx)] = [at |-> view[nx].esp - 2, sig |-> s]]
      BY <1>5, <1>11, <2>1 DEF Deliver, PushFrame
    <3> QED
      BY <3>1, <3>2, <3>3, <3>4
  <2>3. /\ sig_pending' = [sig_pending EXCEPT ![nx] = sig_pending[nx] \ {s}]
        /\ posted' = [posted EXCEPT ![nx] = posted[nx] \ {s}]
        /\ sig_handlers' = sig_handlers
    BY <1>11 DEF Deliver, ClearPending
  <2>4. sig_in_handler' = [sig_in_handler EXCEPT ![nx] = TRUE]
    BY <1>11 DEF Deliver
  <2>5. new \in Ctx
    <3>1. sig_handlers[nx][s] \in Nat
      BY <1>2 DEF IInv, TypeOK
    <3>2. view[nx].esp - 2 \in Int
      BY <2>1 DEF Ctx
    <3> QED
      BY <2>1, <3>1, <3>2 DEF Ctx
  <2> HIDE DEF new
  <2>6. TypeOK'
    <3>1. /\ cpu' \in Ctx /\ view' \in [Slots -> Ctx] /\ sig_saved_regs' \in [Slots -> Ctx]
          /\ intr' \in [Slots -> Ctx]
      BY <1>2, <2>1, <2>2, <2>5 DEF IInv, TypeOK
    <3>2. uframe' \in [1..MAX_TASKS -> [at : Int, sig : 0..(NSIG - 1)]]
      <4>1. [at |-> view[nx].esp - 2, sig |-> s] \in [at : Int, sig : 0..(NSIG - 1)]
        BY <2>1 DEF Ctx, Sigs
      <4> QED
        BY <1>2, <2>2, <4>1 DEF IInv, TypeOK
    <3>3. sig_pending' \in [Slots -> SUBSET Sigs] /\ posted' \in [Slots -> SUBSET Sigs]
      BY <1>2, <2>3 DEF IInv, TypeOK
    <3>4. sig_in_handler' \in [Slots -> BOOLEAN]
      BY <1>2, <2>4 DEF IInv, TypeOK
    <3> QED
      BY <1>5, <1>6, <1>9, <2>3, <3>1, <3>2, <3>3, <3>4 DEF IInv, TypeOK
  <2>7. ContextPreserved'
    BY <1>1, <1>2, <1>3, <1>4, <1>6, <2>1, <2>2 DEF ContextPreserved
  <2>8. NoSpuriousDelivery'
    <3>1. /\ sig_pending \in [Slots -> SUBSET Sigs] /\ posted \in [Slots -> SUBSET Sigs]
          /\ \A t \in Registered : sig_pending[t] \subseteq posted[t]
      BY DEF IInv, TypeOK, NoSpuriousDelivery
    <3> QED
      BY <1>2, <1>4, <2>3, <3>1 DEF NoSpuriousDelivery
  <2>9. HandlerFrame'
    <3> SUFFICES ASSUME NEW t \in Registered, sig_in_handler'[t]
                 PROVE  /\ sig_saved_regs'[t] = intr'[t]
                        /\ uframe'[PageDir(t)].at = intr'[t].esp - 2
                        /\ uframe'[PageDir(t)].sig \in Sigs
      BY <1>4 DEF HandlerFrame
    <3>1. /\ sig_saved_regs \in [Slots -> Ctx] /\ intr \in [Slots -> Ctx]
          /\ uframe \in [1..MAX_TASKS -> [at : Int, sig : 0..(NSIG - 1)]]
          /\ sig_in_handler \in [Slots -> BOOLEAN] /\ t \in Slots
      BY <1>4 DEF IInv, TypeOK
    <3>2. CASE t = nx
      BY <1>2, <2>2, <3>1, <3>2
    <3>3. CASE t # nx
      <4>1. PageDir(t) # PageDir(nx) /\ PageDir(t) \in 1..MAX_TASKS
        BY <1>2, <1>4, <3>3, RegisteredSlots DEF PageDir, IInv
      <4>2. sig_in_handler[t]
        BY <2>4, <3>1, <3>3
      <4> QED
        BY <2>2, <3>1, <3>3, <4>1, <4>2 DEF IInv, HandlerFrame
    <3> QED
      BY <3>2, <3>3
  <2> QED
    BY <1>5, <1>7, <1>8, <2>6, <2>7, <2>8, <2>9 DEF IInv
<1> QED
  BY <1>10, <1>11 DEF do_switch, nx

-----------------------------------------------------------------------------
(* Every step, and a stuttering step, preserves the invariant. *)
LEMMA StepInv == IInv /\ [Next]_vars => IInv'
<1> SUFFICES ASSUME IInv, [Next]_vars PROVE IInv'
  OBVIOUS
<1>1. CASE Boot
  BY <1>1, AddTaskPreserves, EnterPreserves DEF Boot
<1>2. CASE UserStep \/ Syscall \/ Fault
  BY <1>2, UserPreserves
<1>3. CASE Handler
  BY <1>3, UserPreserves, HandlerPreserves DEF Handler
<1>4. CASE CtrlC
  BY <1>4, CtrlCPreserves
<1>5. CASE do_switch
  BY <1>5, SwitchPreserves
<1>6. CASE UNCHANGED vars
  BY <1>6 DEF vars, machVars, listVars, sigVars, histVars, IInv, TypeOK, RingIsFifo,
     MachineMatchesCurrent, ContextPreserved, HandlerFrame, NoSpuriousDelivery, SyscallOwner,
     BootInv, KillInv, Registered
<1> QED
  BY <1>1, <1>2, <1>3, <1>4, <1>5, <1>6 DEF Next

(* The invariant holds of every reachable state of the kernel. *)
THEOREM Invariance == Spec => []IInv
  BY InitInv, StepInv, PTL DEF Spec

(* Type correctness: cur_task never becomes the list sentinel, SYS_KILL    *)
(* never stores a bit outside 1..NSIG-1.                                   *)
THEOREM TypeCorrect == Spec => []TypeOK
  BY Invariance, PTL DEF IInv

(* The task list is the ring of registered tasks in registration order,    *)
(* after any sequence of sched_add_task.                                   *)
THEOREM RingCorrect == Spec => []RingIsFifo
  BY Invariance, PTL DEF IInv

(* CR3 and ktss.esp0 are those of cur_task whenever a program, a syscall   *)
(* or a stopped machine is observed, for any number of tasks.              *)
THEOREM MachineCorrect == Spec => []MachineMatchesCurrent
  BY Invariance, PTL DEF IInv

(* do_switch neither loses nor mixes up the contexts of tasks.             *)
THEOREM ContextCorrect == Spec => []ContextPreserved
  BY Invariance, PTL DEF IInv

(* The saved context and the injected call frame of a running handler      *)
(* belong to the program it interrupted.                                   *)
THEOREM HandlerFrameCorrect == Spec => []HandlerFrame
  BY Invariance, PTL DEF IInv

(* A handler only runs for a signal that was sent since its last delivery. *)
THEOREM SignalsGenuine == Spec => []NoSpuriousDelivery
  BY Invariance, PTL DEF IInv

(* cur_task is the caller for the whole of a syscall.                      *)
THEOREM CallerStable == Spec => []SyscallOwner
  BY Invariance, PTL DEF IInv
-----------------------------------------------------------------------------
(* The CPU passes to the next registered task, cyclically, whenever it     *)
(* passes to another one at all.                                           *)
THEOREM RoundRobinCorrect == Spec => RoundRobin
<1> DEFINE Turn == cur' # cur /\ cur # NULL => cur' = (cur + 1) % ntasks
<1>1. IInv /\ [Next]_vars => [Turn]_vars
  <2> SUFFICES ASSUME IInv, Next PROVE Turn
    OBVIOUS
  <2>1. CASE do_switch
    <3>1. cur \in Registered
      BY <2>1, CurRegistered DEF do_switch, Ring3, IInv
    <3> QED
      BY <2>1, <3>1, NextTaskCyclic DEF IInv, do_switch, LoadTask
  <2>2. CASE sched_add_task
    BY <2>2, SchedAssumption DEF sched_add_task, IInv, TypeOK, NULL
  <2>3. CASE ~do_switch /\ ~sched_add_task
    <3>1. cur' = cur
      BY <2>3 DEF Next, Boot, Handler, init_tss, sched_enter, UserStep, Syscall, Enter, Fault,
         SysOther, SysExit, SysDiskError, SysSigaction, SysKillInvalid, SysKillLoad, SysKillStore, SysSigreturn,
         Return, CtrlC, machVars
    <3> QED
      BY <3>1
  <2> QED
    BY <2>1, <2>2, <2>3
<1> QED
  BY <1>1, Invariance, PTL DEF Spec, RoundRobin

(* SYS_SIGRETURN out of a handler resumes the interrupted program at its   *)
(* own instruction and stack pointer, whatever was sent, switched or       *)
(* installed while the handler ran.                                        *)
THEOREM SigreturnCorrect == Spec => SigreturnResumes
<1> DEFINE Resumes == Sigreturn => cpu'.eip = intr[cur].eip /\ cpu'.esp = intr[cur].esp
<1>1. IInv /\ [Next]_vars => [Resumes]_vars
  <2> SUFFICES ASSUME IInv, Next, Sigreturn
               PROVE  cpu'.eip = intr[cur].eip /\ cpu'.esp = intr[cur].esp
    OBVIOUS
  <2>1. mode = "sys" /\ sig_in_handler[cur] /\ ~sig_in_handler'[cur] /\ cur \in Registered
        /\ cur \in Slots
    BY CurRegistered DEF Sigreturn, IInv
  <2>2. SysSigreturn
    BY <2>1 DEF Next, Boot, Handler, init_tss, sched_add_task, sched_enter, UserStep, Syscall, Enter,
       Fault, SysOther, SysExit, SysDiskError, SysSigaction, SysKillInvalid, SysKillLoad, SysKillStore, CtrlC,
       do_switch, Ring3, sigVars
  <2>3. Return(sig_saved_regs[cur]) /\ sig_saved_regs[cur] \in Ctx
    BY <2>1, <2>2 DEF SysSigreturn, RestoredFrame, IInv, TypeOK
  <2>4. sig_saved_regs[cur] = intr[cur]
    BY <2>1 DEF IInv, HandlerFrame
  <2> QED
    BY <2>1, <2>3, <2>4, ReturnPreserves
<1> QED
  BY <1>1, Invariance, PTL DEF Spec, SigreturnResumes
-----------------------------------------------------------------------------

(* Beyond IInv: tasks wait for their start as they were registered, the    *)
(* call on the kernel stack is the current task's and names an installable *)
(* handler, and the mask SYS_KILL is about to store differs from the       *)
(* pending set by the new signal and at most a Ctrl+C since the load.      *)
TaskInv ==
  /\ mode = "boot" => \A t \in Registered : regs[t] = EntryCtx
  /\ mode = "exit" => call.t = cur
  /\ mode = "sys" => call.h \in Handlers \cup {0}
  /\ mode = "sys" /\ call.op = "kill2" =>
       /\ call.sig \in call.acc /\ call.acc \subseteq sig_pending[cur] \cup {call.sig}
       /\ sig_pending[cur] \subseteq call.acc \cup {SIGINT}

(* The initial state satisfies it. *)
LEMMA InitTask == Init => TaskInv
  BY SchedAssumption DEF Init, TaskInv, Registered

(* Every step preserves it. *)
LEMMA StepTask == IInv /\ TaskInv /\ [Next]_vars => TaskInv'
<1> SUFFICES ASSUME IInv, TaskInv, [Next]_vars PROVE TaskInv'
  OBVIOUS
<1> USE SchedAssumption
<1>1. CASE init_tss
  BY <1>1 DEF init_tss, listVars, sigVars, TaskInv, Registered
<1>2. CASE sched_add_task
  <2>1. /\ mode = "boot" /\ mode' = "boot" /\ ntasks \in Nat /\ ntasks' = ntasks + 1
        /\ regs' = [regs EXCEPT ![ntasks] = EntryCtx] /\ regs \in [Slots -> Ctx] /\ ntasks \in Slots
    BY <1>2 DEF sched_add_task, IInv, TypeOK, Slots
  <2>2. Registered' = Registered \cup {ntasks} /\ \A t \in Registered : t \in Slots /\ t # ntasks
    BY <2>1 DEF Registered, Slots
  <2> QED
    BY <2>1, <2>2 DEF TaskInv
<1>3. CASE mode' \in {"user", "halt"}
  BY <1>3 DEF TaskInv
<1>4. CASE Syscall
  <2>1. mode' = "sys" /\ call'.h \in Handlers \cup {0} /\ call'.op # "kill2"
    BY <1>4 DEF Syscall, Enter
  <2> QED
    BY <2>1 DEF TaskInv
<1>5. CASE SysExit \/ SysDiskError
  BY <1>5 DEF SysExit, SysDiskError, InSyscall, machVars, TaskInv, IInv, SyscallOwner
<1>6. CASE SysKillLoad
  <2>1. /\ mode = "sys" /\ mode' = "sys" /\ UNCHANGED <<cur, sig_pending>>
        /\ call' = [call EXCEPT !.op = "kill2", !.acc = sig_pending[cur] \cup {call.sig}]
        /\ call \in [op : Ops, sig : 0..NSIG, h : Nat, t : Nodes, acc : SUBSET Sigs]
    BY <1>6 DEF SysKillLoad, InSyscall, machVars, sigVars, IInv, TypeOK
  <2>2. call'.h = call.h /\ call'.sig = call.sig /\ call'.acc = sig_pending[cur] \cup {call.sig}
    BY <2>1
  <2> QED
    BY <2>1, <2>2 DEF TaskInv
<1>7. CASE CtrlC
  <2>1. cur \in Slots
    BY <1>7 DEF CtrlC, IInv, TypeOK, NULL, Slots
  <2>2. UNCHANGED <<mode, cur, regs, ntasks, call>>
    BY <1>7 DEF CtrlC, machVars, listVars
  <2>3. sig_pending'[cur] = sig_pending[cur] \cup {SIGINT}
    BY <1>7, <2>1 DEF CtrlC, IInv, TypeOK
  <2> QED
    BY <2>2, <2>3 DEF TaskInv, Registered
<1>8. CASE UNCHANGED vars
  BY <1>8 DEF vars, machVars, listVars, sigVars, TaskInv, Registered
<1>9. CASE sched_enter \/ UserStep \/ Fault \/ do_switch
  <2>1. mode' \in {"user", "halt"}
    BY <1>9 DEF sched_enter, UserStep, Fault, do_switch, Ring3
  <2> QED
    BY <1>3, <2>1
<1>10. CASE SysOther \/ SysSigaction \/ SysKillInvalid \/ SysKillStore \/ SysSigreturn
  <2>1. mode' = "user"
    BY <1>10 DEF SysOther, SysSigaction, SysKillInvalid, SysKillStore, SysSigreturn, Return
  <2> QED
    BY <1>3, <2>1
<1> QED
  BY <1>1, <1>2, <1>4, <1>5, <1>6, <1>7, <1>8, <1>9, <1>10 DEF Next, Boot, Handler

-----------------------------------------------------------------------------
(* What the programs see of the machine, as Processes states it. *)
Calling    == IF mode \in {"sys", "exit"} THEN {call.t} ELSE {}
Ctxs       == [t \in Slots |-> TaskCtx(t)]
CallFrames == [t \in Slots |-> uframe[PageDir(t)]]

(* Registration gives one task a fresh machine. *)
LEMMA AddTaskSimulates ==
  ASSUME IInv, TaskInv, sched_add_task
  PROVE  PR!Next
<1> USE SchedAssumption
<1>1. PICK t \in Slots : t = ntasks
  BY DEF sched_add_task, IInv, TypeOK, Slots
<1>2. /\ mode = "boot" /\ mode' = "boot" /\ ntasks \in Nat /\ ntasks' = ntasks + 1 /\ uframe' = uframe
  BY DEF sched_add_task, IInv, TypeOK
<1>3. /\ regs' = [regs EXCEPT ![t] = EntryCtx] /\ regs \in [Slots -> Ctx]
  BY <1>1 DEF sched_add_task, IInv, TypeOK
<1>4. Calling' = Calling /\ CallFrames' = CallFrames
  BY <1>2 DEF Calling, CallFrames
<1>5. Ctxs' = [Ctxs EXCEPT ![t] = EntryCtx]
  BY <1>2, <1>3 DEF Ctxs, TaskCtx
<1>6. t \notin Registered /\ Registered' = Registered \cup {t}
  BY <1>1, <1>2 DEF Registered
<1>7. PR!Register(t)
  BY <1>1, <1>4, <1>5, <1>6 DEF PR!Register, sched_add_task, Calling, Ctxs, CallFrames
<1> QED
  BY <1>7 DEF PR!Next, PR!Step

(* sched_enter starts the first task, with the kernel's general registers. *)
LEMMA EnterSimulates ==
  ASSUME IInv, TaskInv, sched_enter
  PROVE  PR!Next
<1> USE SchedAssumption
<1>1. PICK t \in Slots : t = 0 /\ t = cur /\ t \in Registered
  BY DEF sched_enter, IInv, BootInv, TypeOK, Slots, Registered
<1>2. /\ mode = "boot" /\ mode' = "user"
      /\ UNCHANGED <<cur, regs, ntasks, sig_pending, sig_handlers, sig_saved_regs, sig_in_handler,
                     uframe>>
  BY DEF sched_enter, listVars, sigVars
<1>3. PICK v, k \in Val : cpu' = [eip |-> EntryEip, esp |-> EntryEsp, vol |-> v, keep |-> k]
  BY DEF sched_enter
<1>4. Ctxs[t] = EntryCtx
  BY <1>1, <1>2 DEF TaskInv, Ctxs, TaskCtx
<1>5. Calling' = Calling /\ CallFrames' = CallFrames /\ Registered' = Registered
  BY <1>2 DEF Calling, CallFrames, Registered
<1>6. cpu' = PR!Regs(EntryCtx, v, k)
  BY <1>3 DEF EntryCtx, PR!Regs
<1>7. Ctxs' = [Ctxs EXCEPT ![t] = cpu']
  BY <1>1, <1>2 DEF Ctxs, TaskCtx
<1>8. PR!Start(t)
  BY <1>1, <1>2, <1>4, <1>5, <1>6, <1>7 DEF PR!Start, PR!sigVars, Calling, Ctxs, CallFrames
<1> QED
  BY <1>8 DEF PR!Next, PR!Step

(* User instructions change the registers of the current task. *)
LEMMA UserSimulates ==
  ASSUME IInv, UserStep
  PROVE  PR!Next
<1>1. PICK t \in Slots : t = cur /\ t \in Registered
  BY CurRegistered DEF UserStep, IInv
<1>2. /\ mode = "user" /\ mode' = "user"
      /\ UNCHANGED <<cur, regs, ntasks, sig_pending, sig_handlers, sig_saved_regs, sig_in_handler,
                     uframe>>
  BY DEF UserStep, machVars, listVars, sigVars
<1>3. PICK c \in UserCtx : cpu' = c
  BY DEF UserStep
<1>4. Calling = {} /\ Calling' = {} /\ CallFrames' = CallFrames /\ Registered' = Registered
  BY <1>2 DEF Calling, CallFrames, Registered
<1>5. Ctxs' = [Ctxs EXCEPT ![t] = c]
  BY <1>1, <1>2, <1>3 DEF Ctxs, TaskCtx
<1>6. PR!Compute(t)
  BY <1>1, <1>2, <1>4, <1>5 DEF PR!Compute, PR!sigVars, Calling, Ctxs, CallFrames
<1> QED
  BY <1>6 DEF PR!Next, PR!Step

(* INT 0x30 puts the current task into a syscall; no other task is in one. *)
LEMMA SyscallSimulates ==
  ASSUME IInv, Syscall
  PROVE  PR!Next
<1>1. PICK t \in Slots : t = cur /\ t \in Registered
  BY CurRegistered DEF Syscall, Enter, IInv
<1>2. /\ mode = "user" /\ mode' = "sys" /\ call'.t = t
      /\ UNCHANGED <<cpu, cur, regs, ntasks, sig_pending, sig_handlers, sig_saved_regs, sig_in_handler,
                     uframe>>
  BY <1>1 DEF Syscall, Enter, machVars, listVars, sigVars
<1>3. Calling = {} /\ Calling' = {t} /\ CallFrames' = CallFrames /\ Registered' = Registered
  BY <1>2 DEF Calling, CallFrames, Registered
<1>4. Ctxs' = Ctxs
  BY <1>2 DEF Ctxs, TaskCtx
<1>5. PR!Enter(t)
  BY <1>1, <1>2, <1>3, <1>4 DEF PR!Enter, PR!sigVars, Calling, Ctxs, CallFrames
<1> QED
  BY <1>5 DEF PR!Next, PR!Step

(* Loading the TSS, an exception, the loops of SYS_EXIT and of the disk    *)
(* driver, and the load of SYS_KILL change nothing a task can see.         *)
LEMMA Unseen ==
  ASSUME IInv, init_tss \/ Fault \/ SysExit \/ SysDiskError \/ SysKillLoad
  PROVE  UNCHANGED PR!vars
<1>1. UNCHANGED <<cpu, cur, regs, ntasks, sig_pending, sig_handlers, sig_saved_regs, sig_in_handler,
                  uframe>>
  BY DEF init_tss, Fault, SysExit, SysDiskError, SysKillLoad, machVars, listVars, sigVars
<1>2. call'.t = call.t
  BY DEF init_tss, Fault, SysExit, SysDiskError, SysKillLoad, IInv, TypeOK
<1>3. \/ mode = "boot" /\ mode' = "boot"
      \/ mode = "user" /\ mode' = "halt"
      \/ mode = "sys" /\ mode' \in {"sys", "exit"}
  BY DEF init_tss, Fault, SysExit, SysDiskError, SysKillLoad, InSyscall
<1>4. Calling' = Calling /\ CallFrames' = CallFrames /\ Registered' = Registered
  BY <1>1, <1>2, <1>3 DEF Calling, CallFrames, Registered
<1>5. Ctxs' = Ctxs
  BY <1>1, <1>3 DEF Ctxs, TaskCtx
<1> QED
  BY <1>1, <1>4, <1>5 DEF PR!vars, PR!sigVars, Calling, Ctxs, CallFrames

(* A syscall that returns ends the call of the current task and changes    *)
(* its registers only.                                                     *)
LEMMA ReturnSimulates ==
  ASSUME IInv, mode = "sys", NEW t \in Slots, t = cur, NEW STATE c, Return(c),
         sig_saved_regs' = sig_saved_regs
  PROVE  PR!Leave(t, c)
<1>1. /\ mode' = "user" /\ UNCHANGED <<cur, regs, ntasks, uframe>>
  BY DEF Return, machVars, listVars
<1>2. PICK v \in Val : cpu' = PR!Regs(c, v, cpu.keep)
  BY DEF Return, PR!Regs
<1>3. Calling = {t} /\ Calling' = {} /\ CallFrames' = CallFrames /\ Registered' = Registered
  BY <1>1 DEF Calling, CallFrames, Registered, IInv, SyscallOwner
<1>4. Ctxs' = [Ctxs EXCEPT ![t] = cpu'] /\ Ctxs[t] = cpu
  BY <1>1 DEF Ctxs, TaskCtx
<1> QED
  BY <1>2, <1>3, <1>4 DEF PR!Leave, Calling, Ctxs, CallFrames

(* The syscalls that return. *)
LEMMA HandlerSimulates ==
  ASSUME IInv, TaskInv, SysOther \/ SysSigaction \/ SysKillInvalid \/ SysKillStore \/ SysSigreturn
  PROVE  PR!Next
<1>1. mode = "sys"
  BY DEF SysOther, SysSigaction, SysKillInvalid, SysKillStore, SysSigreturn, InSyscall
<1>2. PICK t \in Slots : t = cur
  BY <1>1, CurRegistered DEF IInv
<1>3. sig_saved_regs' = sig_saved_regs
  BY DEF SysOther, SysSigaction, SysKillInvalid, SysKillStore, SysSigreturn, sigVars
<1>4. TaskCtx(t) = cpu /\ Ctxs[t] = cpu /\ call.t = t
  BY <1>1, <1>2 DEF TaskCtx, Ctxs, IInv, SyscallOwner
<1>5. ASSUME Return(cpu) PROVE PR!Leave(t, Ctxs[t])
  BY <1>1, <1>2, <1>3, <1>4, <1>5, ReturnSimulates
<1>6. CASE Return(cpu) /\ UNCHANGED <<sig_pending, sig_handlers, sig_in_handler>>
  <2>1. PR!Other(t)
    BY <1>5, <1>6 DEF PR!Other, Ctxs
  <2> QED
    BY <2>1 DEF PR!Next, PR!Step
<1>7. CASE SysOther \/ SysKillInvalid
  BY <1>6, <1>7 DEF SysOther, SysKillInvalid, sigVars
<1>8. CASE SysSigaction
  <2>1. CASE ValidSig
    <3>1. call.sig \in Sigs /\ call.h \in Handlers \cup {0}
      BY <1>1, <2>1, SchedAssumption DEF ValidSig, Sigs, IInv, TypeOK, TaskInv
    <3>2. sig_handlers' = [sig_handlers EXCEPT ![t][call.sig] = call.h]
      BY <1>2, <1>8, <2>1 DEF SysSigaction
    <3>3. Return(cpu) /\ UNCHANGED <<sig_pending, sig_in_handler>>
      BY <1>8 DEF SysSigaction
    <3>4. PR!Sigaction(t)
      BY <1>5, <3>1, <3>2, <3>3 DEF PR!Sigaction, Ctxs
    <3> QED
      BY <3>4 DEF PR!Next, PR!Step
  <2>2. CASE ~ValidSig
    BY <1>6, <1>8, <2>2 DEF SysSigaction
  <2> QED
    BY <2>1, <2>2
<1>9. CASE SysKillStore
  <2>1. /\ call.op = "kill2" /\ sig_pending' = [sig_pending EXCEPT ![t] = call.acc]
        /\ Return(cpu) /\ UNCHANGED <<sig_handlers, sig_in_handler>>
    BY <1>4, <1>9 DEF SysKillStore, InSyscall
  <2>2. /\ call.sig \in Sigs /\ call.sig \in call.acc
        /\ call.acc \subseteq sig_pending[t] \cup {call.sig}
        /\ sig_pending[t] \subseteq call.acc \cup {SIGINT}
    BY <1>1, <1>2, <2>1 DEF IInv, KillInv, TaskInv
  <2>3. call.acc = (sig_pending[t] \ ({SIGINT} \ call.acc)) \cup {call.sig}
    BY <2>2
  <2>4. PR!Kill(t)
    <3>1. \E s \in Sigs, lost \in SUBSET {SIGINT} :
            sig_pending' = [sig_pending EXCEPT ![t] = (sig_pending[t] \ lost) \cup {s}]
      <4>1. ({SIGINT} \ call.acc) \in SUBSET {SIGINT}
        OBVIOUS
      <4> QED
        BY <2>1, <2>2, <2>3, <4>1
    <3> QED
      BY <1>5, <2>1, <3>1 DEF PR!Kill, Ctxs
  <2> QED
    BY <2>4 DEF PR!Next, PR!Step
<1>10. CASE SysSigreturn
  <2>1. CASE sig_in_handler[t]
    <3>1. /\ Return(sig_saved_regs[t]) /\ UNCHANGED <<sig_pending, sig_handlers>>
          /\ sig_in_handler' = [sig_in_handler EXCEPT ![t] = FALSE]
      BY <1>2, <1>10, <2>1 DEF SysSigreturn, RestoredFrame
    <3>2. PR!Leave(t, sig_saved_regs[t])
      BY <1>1, <1>2, <1>3, <3>1, ReturnSimulates
    <3>3. PR!Sigreturn(t)
      BY <2>1, <3>1, <3>2 DEF PR!Sigreturn
    <3> QED
      BY <3>3 DEF PR!Next, PR!Step
  <2>2. CASE ~sig_in_handler[t]
    BY <1>2, <1>6, <1>10, <2>2 DEF SysSigreturn
  <2> QED
    BY <2>1, <2>2
<1> QED
  BY <1>7, <1>8, <1>9, <1>10

(* Ctrl+C sets a pending bit of the current task. *)
LEMMA CtrlCSimulates ==
  ASSUME IInv, CtrlC
  PROVE  PR!Next
<1>1. PICK t \in Slots : t = cur /\ t \in Registered
  BY SchedAssumption DEF CtrlC, IInv, TypeOK, NULL, Registered, Slots
<1>2. UNCHANGED <<mode, cpu, cur, regs, ntasks, sig_handlers, sig_saved_regs, sig_in_handler,
                  uframe, call>>
  BY DEF CtrlC, machVars, listVars
<1>3. Calling' = Calling /\ CallFrames' = CallFrames /\ Registered' = Registered /\ Ctxs' = Ctxs
  BY <1>2 DEF Calling, CallFrames, Registered, Ctxs, TaskCtx
<1>4. PR!CtrlC(t)
  BY <1>1, <1>2, <1>3 DEF CtrlC, PR!CtrlC, Calling, Ctxs, CallFrames
<1> QED
  BY <1>4 DEF PR!Next, PR!Step

(* A tick in ring 3: the switch itself is not seen, a delivery is a step   *)
(* of the receiver.                                                        *)
LEMMA SwitchSimulates ==
  ASSUME IInv, do_switch
  PROVE  PR!Next \/ UNCHANGED PR!vars
<1>1. mode = "user" /\ mode' = "user" /\ cur \in Registered /\ cur \in Slots
  BY CurRegistered DEF do_switch, Ring3, IInv
<1>2. PICK t \in Registered : t = NextTask(cur)
  BY <1>1, NextTaskCyclic DEF IInv
<1>3. t \in Slots /\ t \in Nat /\ PageDir(t) \in 1..MAX_TASKS
  BY <1>2, RegisteredSlots DEF IInv
<1>4. /\ regs' = [regs EXCEPT ![cur] = cpu] /\ regs \in [Slots -> Ctx]
      /\ cur' = t /\ cr3' = PageDir(t) /\ UNCHANGED <<ntasks, call>>
  <2>1. tcr3' = [tcr3 EXCEPT ![cur] = cr3] /\ cr3' = tcr3'[t] /\ tcr3 \in [Slots -> Nat]
    BY <1>2 DEF do_switch, SaveContext, LoadTask, IInv, TypeOK
  <2>2. tcr3'[t] = PageDir(t)
    BY <1>1, <1>2, <1>3, <2>1 DEF IInv, MachineMatchesCurrent
  <2> QED
    BY <1>2, <2>1, <2>2 DEF do_switch, SaveContext, LoadTask, listVars, IInv, TypeOK
<1>5. Calling = {} /\ Calling' = {} /\ Registered' = Registered
  BY <1>1, <1>4 DEF Calling, Registered
<1>6. Ctxs' = [Ctxs EXCEPT ![t] = cpu'] /\ regs'[t] = Ctxs[t]
  BY <1>1, <1>3, <1>4 DEF Ctxs, TaskCtx
<1>7. CASE NoDelivery(t)
  <2>1. cpu' = Ctxs[t] /\ UNCHANGED <<sig_pending, sig_handlers, sig_saved_regs, sig_in_handler, uframe>>
    BY <1>6, <1>7 DEF NoDelivery, sigVars
  <2>2. Ctxs' = Ctxs /\ CallFrames' = CallFrames
    BY <1>6, <2>1 DEF Ctxs, CallFrames
  <2> QED
    BY <1>5, <2>1, <2>2 DEF PR!vars, PR!sigVars, Calling, Ctxs, CallFrames
<1>8. ASSUME NEW s \in Sigs, Deliver(t, s) PROVE PR!Next
  <2>1. /\ cpu' = [Ctxs[t] EXCEPT !.eip = sig_handlers[t][s], !.esp = Ctxs[t].esp - 2]
        /\ sig_saved_regs' = [sig_saved_regs EXCEPT ![t] = Ctxs[t]]
        /\ sig_in_handler' = [sig_in_handler EXCEPT ![t] = TRUE]
        /\ sig_pending' = [sig_pending EXCEPT ![t] = sig_pending[t] \ {s}]
        /\ sig_handlers' = sig_handlers
        /\ uframe' = [uframe EXCEPT ![PageDir(t)] = [at |-> Ctxs[t].esp - 2, sig |-> s]]
    BY <1>4, <1>6, <1>8 DEF Deliver, ClearPending, PushFrame
  <2>2. ~sig_in_handler[t] /\ s \in sig_pending[t] /\ sig_handlers[t][s] # 0
    BY <1>8 DEF Deliver, Deliverable
  <2>3. CallFrames' = [CallFrames EXCEPT ![t] = [at |-> Ctxs[t].esp - 2, sig |-> s]]
    <3> DEFINE f == [at |-> Ctxs[t].esp - 2, sig |-> s]
    <3>1. uframe' = [uframe EXCEPT ![PageDir(t)] = f]
      BY <2>1
    <3> HIDE DEF f
    <3>2. uframe \in [1..MAX_TASKS -> [at : Int, sig : 0..(NSIG - 1)]]
      BY DEF IInv, TypeOK
    <3>3. ASSUME NEW u \in Slots
          PROVE  uframe'[PageDir(u)] = IF u = t THEN f ELSE uframe[PageDir(u)]
      <4>1. PageDir(u) \in 1..MAX_TASKS /\ (PageDir(u) = PageDir(t) <=> u = t)
        BY <1>3, SchedAssumption DEF PageDir, Slots
      <4> QED
        BY <3>1, <3>2, <4>1
    <3>4. CallFrames' = [CallFrames EXCEPT ![t] = f]
      BY <3>3 DEF CallFrames
    <3> QED
      BY <3>4 DEF f
  <2>4. PR!Handle(t, s)
    BY <1>2, <1>3, <1>5, <1>6, <2>1, <2>2, <2>3 DEF PR!Handle, Calling, Ctxs, CallFrames
  <2> QED
    BY <1>3, <1>8, <2>4 DEF PR!Next, PR!Step
<1> QED
  BY <1>2, <1>7, <1>8 DEF do_switch
-----------------------------------------------------------------------------
(* Task switching is transparent: for any number of tasks, signals and     *)
(* register contents, PepinOS behaves as machines of their own for the     *)
(* programs, of which every step of the kernel moves at most one.          *)
THEOREM Refinement == Spec => RefinesProcesses
<1>1. Init => PR!Init
  <2> SUFFICES ASSUME Init PROVE PR!Init
    OBVIOUS
  <2>1. Registered = {} /\ Calling = {}
    BY SchedAssumption DEF Init, Registered, Calling
  <2>2. Ctxs = [t \in Slots |-> ZeroCtx]
    BY DEF Init, Ctxs, TaskCtx
  <2>3. CallFrames = [t \in Slots |-> [at |-> 0, sig |-> 0]]
    <3>1. \A t \in Slots : PageDir(t) \in 1..MAX_TASKS
      BY SchedAssumption DEF Slots, PageDir
    <3> QED
      BY <3>1 DEF Init, CallFrames
  <2> QED
    BY <2>1, <2>2, <2>3 DEF Init, PR!Init, Calling, Ctxs, CallFrames
<1>2. IInv /\ TaskInv /\ [Next]_vars => [PR!Next]_(PR!vars)
  <2> SUFFICES ASSUME IInv, TaskInv, [Next]_vars PROVE PR!Next \/ UNCHANGED PR!vars
    OBVIOUS
  <2>1. CASE Boot
    BY <2>1, AddTaskSimulates, EnterSimulates, Unseen DEF Boot
  <2>2. CASE UserStep \/ Syscall \/ Fault
    BY <2>2, UserSimulates, SyscallSimulates, Unseen
  <2>3. CASE Handler
    BY <2>3, HandlerSimulates, Unseen DEF Handler
  <2>4. CASE CtrlC \/ do_switch
    BY <2>4, CtrlCSimulates, SwitchSimulates
  <2>5. CASE UNCHANGED vars
    BY <2>5 DEF vars, machVars, listVars, sigVars, PR!vars, PR!sigVars, Registered, TaskCtx
  <2> QED
    BY <2>1, <2>2, <2>3, <2>4, <2>5 DEF Next
<1>3. Spec => []TaskInv
  BY InitTask, StepTask, Invariance, PTL DEF Spec
<1> QED
  BY <1>1, <1>2, <1>3, Invariance, PTL DEF Spec, RefinesProcesses, PR!Spec
=============================================================================
