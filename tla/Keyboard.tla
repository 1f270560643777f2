------------------------------ MODULE Keyboard ------------------------------
(***************************************************************************)
(* drivers/keyboard.c: the ring buffer between IRQ1 and SYS_GETCHAR.       *)
(* keyboard_handler runs with interrupts off, one step per scancode.       *)
(* kb_getchar runs inside a syscall with interrupts on, so a key may       *)
(* arrive between any two of its loads and stores; no second kb_getchar    *)
(* can start meanwhile, because a tick in ring 0 does not switch tasks.    *)
(***************************************************************************)
EXTENDS Integers, Sequences

CONSTANTS
  KB_BUF_SIZE,
  Chars,       \* the characters of kbmap, other than 0
  CharC,       \* 'c', which Ctrl turns into SIGINT
  MaxKeys      \* bound: characters typed in a behaviour

ASSUME KeyboardAssumption ==
  KB_BUF_SIZE \in Nat \ {0} /\ CharC \in Chars /\ 0 \notin Chars /\ MaxKeys \in Nat

Index == 0..(KB_BUF_SIZE - 1)

VARIABLES
  kb_buf, kb_head, kb_tail,
  ctrl_held,
  pc,          \* where the reader is: "idle" | "test" | "load" | "store"
  head_seen,   \* kb_head as kb_getchar loaded it
  c,           \* the local variable of kb_getchar
  out,         \* history: characters returned to programs
  lost,        \* history: characters the full buffer dropped
  sigint,      \* history: calls of sched_signal(SIGINT)
  keys         \* history: characters typed

kbVars == <<kb_buf, kb_head, kb_tail>>
rdVars == <<pc, head_seen, c>>
vars   == <<kbVars, ctrl_held, rdVars, out, lost, sigint, keys>>

(* 0 also stands for the zeroed buffer. *)
Init ==
  /\ kb_buf = [i \in Index |-> 0] /\ kb_head = 0 /\ kb_tail = 0
  /\ ctrl_held = FALSE
  /\ pc = "idle" /\ head_seen = 0 /\ c = 0
  /\ out = <<>> /\ lost = 0 /\ sigint = 0 /\ keys = 0

-----------------------------------------------------------------------------
(* keyboard_handler, by kind of scancode.  Key releases, scancodes outside *)
(* kbmap and keys without a character return at once: stuttering steps.    *)

CtrlPress   == ctrl_held' = TRUE /\ UNCHANGED <<kbVars, rdVars, out, lost, sigint, keys>>

CtrlRelease == ctrl_held' = FALSE /\ UNCHANGED <<kbVars, rdVars, out, lost, sigint, keys>>

NextIndex(i) == (i + 1) % KB_BUF_SIZE

(* Mutated form: a second slot is kept empty. *)
mut_FullEarly == NextIndex(NextIndex(kb_head)) = kb_tail

(* next == kb_tail: one slot always stays empty *)
Full == NextIndex(kb_head) = kb_tail

(* ctrl_held && c == 'c' *)
IsCtrlC(ch) == ctrl_held /\ ch = CharC

Key(ch) ==
  /\ keys < MaxKeys /\ keys' = keys + 1
  /\ IF IsCtrlC(ch)
     THEN sigint' = sigint + 1 /\ UNCHANGED <<kbVars, lost>>
     ELSE /\ IF Full
             THEN lost' = lost + 1 /\ UNCHANGED kbVars
             ELSE /\ kb_buf' = [kb_buf EXCEPT ![kb_head] = ch]
                  /\ kb_head' = NextIndex(kb_head)
                  /\ UNCHANGED <<kb_tail, lost>>
          /\ UNCHANGED sigint
  /\ UNCHANGED <<ctrl_held, rdVars, out>>

-----------------------------------------------------------------------------
(* kb_getchar: load kb_head and compare it with kb_tail, load the          *)
(* character, store kb_tail and return.                                    *)

LoadHead ==
  /\ pc = "idle"
  /\ pc' = "test" /\ head_seen' = kb_head
  /\ UNCHANGED <<kbVars, ctrl_held, c, out, lost, sigint, keys>>

(* Mutated form: the last character counts as none. *)
mut_SeenEmpty == head_seen = kb_tail \/ head_seen = NextIndex(kb_tail)

(* Mutated form: the test is missing. *)
mut_NeverEmpty == FALSE

(* kb_head == kb_tail, on the value loaded *)
SeenEmpty == head_seen = kb_tail

(* an empty buffer: SYS_GETCHAR returns 0 *)
TestEmpty ==
  /\ pc = "test"
  /\ pc' = IF SeenEmpty THEN "idle" ELSE "load"
  /\ UNCHANGED <<kbVars, ctrl_held, head_seen, c, out, lost, sigint, keys>>

LoadChar ==
  /\ pc = "load"
  /\ pc' = "store" /\ c' = kb_buf[kb_tail]
  /\ UNCHANGED <<kbVars, ctrl_held, head_seen, out, lost, sigint, keys>>

StoreTail ==
  /\ pc = "store"
  /\ pc' = "idle"
  /\ kb_tail' = NextIndex(kb_tail)
  /\ out' = Append(out, c)
  /\ UNCHANGED <<kb_buf, kb_head, ctrl_held, head_seen, c, lost, sigint, keys>>

Handler == CtrlPress \/ CtrlRelease \/ \E ch \in Chars : Key(ch)
Reader  == LoadHead \/ TestEmpty \/ LoadChar \/ StoreTail
Next    == Handler \/ Reader

Spec == Init /\ [][Next]_vars

-----------------------------------------------------------------------------
(* Every variable has its type. *)
TypeOK ==
  /\ kb_buf \in [Index -> Chars \cup {0}] /\ kb_head \in Index /\ kb_tail \in Index
  /\ ctrl_held \in BOOLEAN
  /\ pc \in {"idle", "test", "load", "store"}
  /\ head_seen \in Index /\ c \in Chars \cup {0}
  /\ out \in Seq(Chars) /\ lost \in Nat /\ sigint \in Nat /\ keys \in 0..MaxKeys

(* The queue the ring buffer stands for. *)
Count  == (kb_head - kb_tail + KB_BUF_SIZE) % KB_BUF_SIZE
Queued == [i \in 1..Count |-> kb_buf[(kb_tail + i - 1) % KB_BUF_SIZE]]

(* Once kb_getchar has seen the buffer non-empty, the slot it is about to  *)
(* read or has just read is not overwritten, however many keys arrive      *)
(* before it stores kb_tail; and it returns a character, not 0.            *)
ReadStable ==
  /\ pc \in {"load", "store"} => kb_head # kb_tail
  /\ pc = "store" => c = kb_buf[kb_tail] /\ c # 0

(* The ring buffer implements the bounded queue of KB_BUF_SIZE - 1         *)
(* characters: nothing is lost while there is room, nothing is duplicated  *)
(* and the order is kept, with IRQ1 at any point of kb_getchar.            *)
KQ == INSTANCE KeyQueue WITH Capacity <- KB_BUF_SIZE - 1, q <- Queued
RefinesKeyQueue == KQ!Spec
=============================================================================
