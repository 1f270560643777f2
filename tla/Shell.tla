------------------------------- MODULE Shell --------------------------------
(***************************************************************************)
(* user/shell.c over the keyboard driver.  The shell installs its signal   *)
(* handlers, polls SYS_GETCHAR for a line and executes it; keys arrive at  *)
(* any moment and signals are delivered whenever the shell is in ring 3.   *)
(*                                                                         *)
(* A syscall other than SYS_GETCHAR and SYS_KILL is one step; what is      *)
(* printed is left out.  Of the scheduler the shell sees three things:     *)
(* while it is in a syscall cur_task is the shell, in ring 3 any task may  *)
(* be cur_task between two of its instructions, and a tick may deliver a   *)
(* signal there.                                                           *)
(*                                                                         *)
(* The build's frame pointer (EBP) is one of the registers SYS_SIGRETURN   *)
(* does not restore, so a shell whose handler has returned works on a      *)
(* stale frame: it reads characters into a `pos` that is a stack address,  *)
(* or returns through the handler's frame and faults.  From the entry of   *)
(* such a handler, which itself only prints, the shell is "astray".        *)
(***************************************************************************)
EXTENDS Keyboard, SequencesExt

CONSTANTS
  LINE_SIZE,       \* sizeof(line)
  NL, SP, ZERO,    \* '\n', ' ' and '0'
  CAT, RAISE,      \* the words of the commands that do more than print
  INT_MAX,         \* largest value of an int
  NSIG, SIGINT, SIGUSR1, SIGTERM

ASSUME ShellAssumption ==
  /\ LINE_SIZE \in Nat \ {0} /\ INT_MAX \in Nat
  /\ {NL, SP} \subseteq Chars /\ Chars \subseteq Nat /\ ZERO \in Nat
  /\ {CAT, RAISE} \subseteq Seq(Chars \ {NL, SP})
  /\ NSIG \in Nat /\ {SIGINT, SIGUSR1, SIGTERM} \subseteq 1..(NSIG - 1)

VARIABLES
  sh,          \* where the shell is
  ninst,       \* handlers installed so far
  line,        \* the pos characters of the line read so far
  pending,     \* sig_pending of the shell's task
  mask,        \* the copy of it that SYS_KILL holds between load and store
  cmds         \* history: the lines executed

shVars == <<sh, ninst, line, pending, mask, cmds>>
allVars == <<vars, shVars>>

ShInit ==
  /\ Init
  /\ sh = "start" /\ ninst = 0 /\ line = <<>>
  /\ pending = {} /\ mask = {} /\ cmds = <<>>

-----------------------------------------------------------------------------
(* Strings. *)

str_eq(a, b)     == a = b
str_starts(s, p) == IsPrefix(p, s)

(* the text after the first word and the spaces that follow it *)
str_skip_word(s) ==
  LET word == Min({i \in 1..Len(s) : s[i] = SP} \cup {Len(s) + 1})
      arg  == Min({i \in word..Len(s) : s[i] # SP} \cup {Len(s) + 1})
  IN  SubSeq(s, arg, Len(s))

IsDigit(ch) == ch \in ZERO..(ZERO + 9)

(* an int of the build wraps around *)
Int32(n) == IF n > INT_MAX THEN n - 2 * (INT_MAX + 1) ELSE n

(* the value of the leading digits *)
str_atoi(s) ==
  LET n == Min({i \in 1..Len(s) : ~IsDigit(s[i])} \cup {Len(s) + 1}) - 1
      v[i \in 0..n] ==
        IF i = 0 THEN 0 ELSE Int32((10 * v[i - 1] + s[i] - ZERO) % (2 * (INT_MAX + 1)))
  IN  v[n]

(* What execute makes of a line.  The other commands, the empty line and  *)
(* an unknown word only print.                                             *)
Command(l) ==
  CASE str_starts(l, CAT \o <<SP>>) \/ str_eq(l, CAT)     -> "cat"
    [] str_starts(l, RAISE \o <<SP>>) \/ str_eq(l, RAISE) -> "raise"
    [] OTHER                                              -> "print"

-----------------------------------------------------------------------------
(* Signals. *)

(* in the order _start installs them *)
Installs == <<SIGINT, SIGUSR1, SIGTERM>>

(* Mutated form: the first handler is forgotten. *)
mut_Installed == {Installs[i] : i \in 2..ninst}

Installed == {Installs[i] : i \in 1..ninst}

InKernel == pc # "idle" \/ sh = "killing"

(* The shell is still the program that was loaded: no signal has been      *)
(* handled yet.                                                            *)
Serving == sh \notin {"term", "astray", "halt"}

(* IRQ1: keyboard_handler, with sched_signal setting a bit of cur_task.    *)
(* Bound: nobody types once the shell has handled a signal.                *)
KeyArrives(ch) ==
  /\ Serving
  /\ Key(ch)
  /\ \/ IsCtrlC(ch) /\ pending' = pending \cup {SIGINT}
     \/ IsCtrlC(ch) /\ ~InKernel /\ UNCHANGED pending
     \/ ~IsCtrlC(ch) /\ UNCHANGED pending
  /\ UNCHANGED <<sh, ninst, line, mask, cmds>>

CtrlKey == Serving /\ (CtrlPress \/ CtrlRelease) /\ UNCHANGED shVars

(* sigint_handler and sigusr1_handler print and end with SYS_SIGRETURN;    *)
(* sigterm_handler reads characters for ever.                              *)
HandlerOf(s) == IF s = SIGTERM THEN "term" ELSE "astray"

(* do_switch: the lowest pending signal, if it has a handler *)
Deliver ==
  \E s \in Installed :
    /\ Serving /\ ~InKernel
    /\ s \in pending /\ \A r \in pending : s <= r
    /\ pending' = pending \ {s}
    /\ sh' = HandlerOf(s)
    /\ UNCHANGED <<vars, ninst, line, mask, cmds>>

(* a page fault, whose handler stops the machine *)
Crash ==
  /\ sh = "astray" /\ ~InKernel /\ sh' = "halt"
  /\ UNCHANGED <<vars, ninst, line, pending, mask, cmds>>

-----------------------------------------------------------------------------
(* _start *)

Goto(p) == sh' = p

Sigaction ==
  /\ sh = "start"
  /\ ninst' = ninst + 1
  /\ Goto(IF ninst + 1 = Len(Installs) THEN "prompt" ELSE "start")
  /\ UNCHANGED <<vars, line, pending, mask, cmds>>

(* Mutated form: pos is not reset. *)
mut_Prompt ==
  /\ sh = "prompt" /\ Goto("read")
  /\ UNCHANGED <<vars, ninst, line, pending, mask, cmds>>

Prompt ==
  /\ sh = "prompt" /\ Goto("read") /\ line' = <<>>
  /\ UNCHANGED <<vars, ninst, pending, mask, cmds>>

(* SYS_GETCHAR, by the shell's loop, by sigterm_handler's or by a shell    *)
(* gone astray.                                                            *)
Getchar ==
  /\ sh \in {"read", "term", "astray"}
  /\ \/ (LoadHead \/ TestEmpty \/ LoadChar) /\ UNCHANGED shVars
     \/ /\ StoreTail
        /\ Goto(IF sh = "read" THEN "got" ELSE sh)
        /\ UNCHANGED <<ninst, line, pending, mask, cmds>>

(* Mutated form: no place is kept for the final zero. *)
mut_LineHasRoom == Len(line) < LINE_SIZE

(* pos < sizeof(line) - 1 *)
LineHasRoom == Len(line) < LINE_SIZE - 1

(* The characters kbmap produces: neither '\r', '\b' nor 127. *)
GotChar ==
  /\ sh = "got"
  /\ IF c = NL
     THEN Goto("run") /\ UNCHANGED line
     ELSE /\ Goto("read")
          /\ line' = IF LineHasRoom THEN Append(line, c) ELSE line
  /\ UNCHANGED <<vars, ninst, pending, mask, cmds>>

Execute ==
  /\ sh = "run"
  /\ cmds' = Append(cmds, line)
  /\ LET arg == str_skip_word(line) IN
     Goto(CASE Command(line) = "cat" /\ arg # <<>>             -> "cat"
            [] Command(line) = "raise" /\ str_atoi(arg) > 0    -> "raise"
            [] OTHER                                           -> "prompt")
  /\ UNCHANGED <<vars, ninst, line, pending, mask>>

(* SYS_OPEN finds the file or not; what is read is only printed. *)
CatOpen ==
  /\ sh = "cat" /\ (Goto("cat_read") \/ Goto("prompt"))
  /\ UNCHANGED <<vars, ninst, line, pending, mask, cmds>>

CatRead ==
  /\ sh = "cat_read" /\ Goto("cat_close")
  /\ UNCHANGED <<vars, ninst, line, pending, mask, cmds>>

CatClose ==
  /\ sh = "cat_close" /\ Goto("prompt")
  /\ UNCHANGED <<vars, ninst, line, pending, mask, cmds>>

(* Mutated form: the command word is not skipped. *)
mut_RaisedSig == str_atoi(line)

RaisedSig == str_atoi(str_skip_word(line))

(* SYS_KILL is a load, an or and a store with interrupts enabled; a number *)
(* outside 1 .. NSIG-1 is ignored.                                         *)
KillLoad ==
  /\ sh = "raise"
  /\ IF RaisedSig < NSIG
     THEN Goto("killing") /\ mask' = pending \cup {RaisedSig}
     ELSE Goto("prompt") /\ UNCHANGED mask
  /\ UNCHANGED <<vars, ninst, line, pending, cmds>>

KillStore ==
  /\ sh = "killing" /\ Goto("prompt")
  /\ pending' = mask /\ mask' = {}
  /\ UNCHANGED <<vars, ninst, line, cmds>>

-----------------------------------------------------------------------------
Program == Sigaction \/ Prompt \/ Getchar \/ GotChar \/ Execute
           \/ CatOpen \/ CatRead \/ CatClose \/ KillLoad \/ KillStore \/ Crash

ShNext == (\E ch \in Chars : KeyArrives(ch)) \/ CtrlKey \/ Deliver \/ Program

(* The scheduler gives the shell the CPU again and again, the timer keeps  *)
(* finding it in ring 3, and the disk answers without error: after ERR the *)
(* machine stops in the driver, as Scheduler has it.  Nothing is assumed   *)
(* of the keyboard.                                                        *)
ShSpec == ShInit /\ [][ShNext]_allVars /\ WF_allVars(Program) /\ SF_allVars(Deliver)

-----------------------------------------------------------------------------
(* Every variable of the driver and of the shell has its type: the indices *)
(* stay in kb_buf, and line never fills the place of the final zero.       *)
ShTypeOK ==
  /\ TypeOK
  /\ sh \in {"start", "prompt", "read", "got", "run", "cat", "cat_read", "cat_close",
             "raise", "killing", "term", "astray", "halt"}
  /\ ninst \in 0..Len(Installs)
  /\ line \in Seq(Chars \ {NL}) /\ Len(line) < LINE_SIZE
  /\ pending \subseteq 1..(NSIG - 1) /\ mask \subseteq 1..(NSIG - 1)
  /\ cmds \in Seq(Seq(Chars \ {NL}))

(* the positions of the Enters in s; a line as long as it fits *)
Ends(s) ==
  LET e[n \in 0..Len(s)] ==
        IF n = 0 THEN <<>> ELSE IF s[n] = NL THEN Append(e[n - 1], n) ELSE e[n - 1]
  IN  e[Len(s)]
Lines(s)  == Len(Ends(s))
Cut(s)    == SubSeq(s, 1, Min({Len(s), LINE_SIZE - 1}))
Typed(s, k) ==
  LET e == Ends(s)
      from == IF k = 1 THEN 1 ELSE e[k - 1] + 1
      to   == IF k > Len(e) THEN Len(s) ELSE e[k] - 1
  IN  Cut(SubSeq(s, from, to))

(* The shell executes exactly the lines typed, in order, each cut to the   *)
(* size of `line`: keys that arrive while a command runs, or while         *)
(* SYS_GETCHAR looks at the buffer, neither get lost nor end up in another *)
(* line.  While it polls, it holds the beginning of the next line.         *)
LinesAsTyped ==
  /\ \A k \in 1..Len(cmds) : k <= Lines(out) /\ cmds[k] = Typed(out, k)
  /\ sh = "read" => Len(cmds) = Lines(out) /\ line = Typed(out, Lines(out) + 1)

(* The value of a numeral in an int. *)
Value(d) ==
  LET v[i \in 0..Len(d)] == IF i = 0 THEN 0 ELSE 10 * v[i - 1] + d[i] - ZERO
  IN  v[Len(d)] % (2 * (INT_MAX + 1))

(* l is the command word, spaces, a numeral for s, and no further digit. *)
AsksFor(l, s) ==
  /\ str_starts(l, RAISE)
  /\ \E i \in (Len(RAISE) + 1)..Len(l), j \in 1..Len(l) :
       /\ \A n \in (Len(RAISE) + 1)..i : l[n] = SP
       /\ i < j /\ \A n \in (i + 1)..j : IsDigit(l[n])
       /\ j < Len(l) => ~IsDigit(l[j + 1])
       /\ Value(SubSeq(l, i + 1, j)) = s

(* A signal is pending for the shell, or about to be, only if a Ctrl+C was *)
(* typed or a line `raise N` was executed whose N, as an int of the build, *)
(* is that signal.                                                         *)
NoUnaskedSignal ==
  \A s \in pending \cup mask :
    \/ s = SIGINT /\ sigint > 0
    \/ \E k \in 1..Len(cmds) : AsksFor(cmds[k], s)

Newlines(s) == Cardinality({i \in 1..Len(s) : s[i] = NL})

(* Every Enter the buffer accepted is followed by the execution of its     *)
(* line once typing stops, unless a signal takes the shell away.           *)
EnterExecuted == []<>(Newlines(out \o Queued) = Len(cmds) \/ ~Serving)

(* A Ctrl+C charged to the shell does not stay pending, even if it came    *)
(* before SYS_SIGACTION: a handler runs, unless a lower signal that has    *)
(* none is pending.  (SYS_KILL may erase it: Scheduler's NoSignalLost.)    *)
CtrlCHeard ==
  []<>(SIGINT \notin pending \/ ~Serving \/ \E r \in pending : r < SIGINT)
=============================================================================
