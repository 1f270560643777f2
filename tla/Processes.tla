----------------------------- MODULE Processes -------------------------------
(***************************************************************************)
(* What the scheduler promises a program: a machine of its own.  A step is *)
(* a step of one task, which leaves the registers, the stack and the       *)
(* signals of all others alone; switching between tasks is not seen.       *)
(***************************************************************************)
EXTENDS Integers

CONSTANTS Slots, Sigs, SIGINT, Handlers, Val, UserCtx, Zero, Entry

VARIABLES
  tasks,      \* the registered tasks
  calling,    \* those in a syscall
  ctx,        \* by task: its registers
  pending, handlers,       \* by task: signals sent to it, addresses it installed
  inside, saved, frame     \* by task: running a handler, called from where, its call frame

sigVars == <<pending, handlers, inside, saved, frame>>
vars == <<tasks, calling, ctx, sigVars>>

Init ==
  /\ tasks = {} /\ calling = {}
  /\ ctx = [t \in Slots |-> Zero] /\ saved = [t \in Slots |-> Zero]
  /\ pending = [t \in Slots |-> {}] /\ handlers = [t \in Slots |-> [s \in Sigs |-> 0]]
  /\ inside = [t \in Slots |-> FALSE] /\ frame = [t \in Slots |-> [at |-> 0, sig |-> 0]]

Register(t) ==
  /\ t \notin tasks /\ tasks' = tasks \cup {t}
  /\ ctx' = [ctx EXCEPT ![t] = Entry] /\ saved' = [saved EXCEPT ![t] = Zero]
  /\ pending' = [pending EXCEPT ![t] = {}]
  /\ handlers' = [handlers EXCEPT ![t] = [s \in Sigs |-> 0]]
  /\ inside' = [inside EXCEPT ![t] = FALSE]
  /\ UNCHANGED <<calling, frame>>

(* The instruction and stack pointer of c with general registers v and k. *)
Regs(c, v, k) == [eip |-> c.eip, esp |-> c.esp, vol |-> v, keep |-> k]

(* The first task starts with whatever the kernel left in the registers. *)
Start(t) ==
  /\ t \in tasks /\ ctx[t] = Entry
  /\ \E v, k \in Val : ctx' = [ctx EXCEPT ![t] = Regs(Entry, v, k)]
  /\ UNCHANGED <<tasks, calling, sigVars>>

(* The program's own instructions. *)
Compute(t) ==
  /\ t \in tasks \ calling
  /\ \E c \in UserCtx : ctx' = [ctx EXCEPT ![t] = c]
  /\ UNCHANGED <<tasks, calling, sigVars>>

(* One task at a time is in a syscall. *)
Enter(t) ==
  /\ t \in tasks /\ calling = {} /\ calling' = {t}
  /\ UNCHANGED <<tasks, ctx, sigVars>>

(* The syscall ends where c is, with a result. *)
Leave(t, c) ==
  /\ t \in calling /\ calling' = {}
  /\ \E v \in Val : ctx' = [ctx EXCEPT ![t] = Regs(c, v, ctx[t].keep)]
  /\ UNCHANGED <<tasks, saved, frame>>

Other(t) == Leave(t, ctx[t]) /\ UNCHANGED <<pending, handlers, inside>>

Sigaction(t) ==
  /\ Leave(t, ctx[t])
  /\ \E s \in Sigs, h \in Handlers \cup {0} : handlers' = [handlers EXCEPT ![t][s] = h]
  /\ UNCHANGED <<pending, inside>>

(* Only a Ctrl+C that comes meanwhile may be lost. *)
Kill(t) ==
  /\ Leave(t, ctx[t])
  /\ \E s \in Sigs, lost \in SUBSET {SIGINT} :
       pending' = [pending EXCEPT ![t] = (@ \ lost) \cup {s}]
  /\ UNCHANGED <<handlers, inside>>

(* eip and esp are those from before the signal, ebx to edi the handler's. *)
Sigreturn(t) ==
  /\ inside[t] /\ inside' = [inside EXCEPT ![t] = FALSE]
  /\ Leave(t, saved[t])
  /\ UNCHANGED <<pending, handlers>>

CtrlC(t) ==
  /\ t \in tasks
  /\ pending' = [pending EXCEPT ![t] = @ \cup {SIGINT}]
  /\ UNCHANGED <<tasks, calling, ctx, handlers, inside, saved, frame>>

(* A handler is called on the task's own stack, for a signal that pends,   *)
(* while no other handler and no syscall of the task is running.           *)
Handle(t, s) ==
  /\ t \in tasks \ calling /\ ~inside[t] /\ s \in pending[t] /\ handlers[t][s] # 0
  /\ pending' = [pending EXCEPT ![t] = @ \ {s}]
  /\ inside' = [inside EXCEPT ![t] = TRUE]
  /\ saved' = [saved EXCEPT ![t] = ctx[t]]
  /\ frame' = [frame EXCEPT ![t] = [at |-> ctx[t].esp - 2, sig |-> s]]
  /\ ctx' = [ctx EXCEPT ![t] = [ctx[t] EXCEPT !.eip = handlers[t][s], !.esp = ctx[t].esp - 2]]
  /\ UNCHANGED <<tasks, calling, handlers>>

Step(t) ==
  \/ Register(t) \/ Start(t) \/ Compute(t) \/ Enter(t) \/ Other(t) \/ Sigaction(t)
  \/ Kill(t) \/ Sigreturn(t) \/ CtrlC(t) \/ \E s \in Sigs : Handle(t, s)

Next == \E t \in Slots : Step(t)

Spec == Init /\ [][Next]_vars
=============================================================================
