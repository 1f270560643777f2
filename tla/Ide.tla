-------------------------------- MODULE Ide ---------------------------------
(***************************************************************************)
(* drivers/ide.c: programmed I/O on the primary IDE channel.  The driver   *)
(* is straight-line code that polls the status register; a poll that sees  *)
(* the controller busy changes nothing, so waiting is a guard.             *)
(*                                                                         *)
(* The controller is external.  It does what the driver relies on (ide.h,  *)
(* steps 1 to 5): a command makes it busy for any length of time, then it  *)
(* asks for the words of one sector or, having failed, clears BSY and sets *)
(* ERR; a command written while it is busy or transferring is ignored.     *)
(***************************************************************************)
EXTENDS Integers, Sequences

CONSTANTS
  WORDS,       \* 256: words of a sector
  Lbas,        \* sector numbers (u32) that callers pass
  Writes       \* contents that callers write

BYTE    == 256
NIBBLE  == 16
LBA_MOD == NIBBLE * BYTE * BYTE * BYTE      \* LBA28

ASSUME IdeAssumption ==
  /\ WORDS \in Nat \ {0}
  /\ Lbas \subseteq 0..(LBA_MOD - 1) /\ Writes \cap Lbas = {}

(* A sector's contents are named: those it has at first by its number. *)
Contents == Lbas \cup Writes
Junk     == [of |-> -1, word |-> 0]     \* what a transfer without DRQ returns

VARIABLES
  store,     \* the sectors
  regs,      \* the controller's LBA registers
  dev,       \* the controller: status, command, word count, words received
  pc,        \* where the driver is
  call,      \* its arguments
  buf,       \* the words read so far
  got,       \* history: the contents the last read returned
  failed     \* history: the controller has reported an error

devVars == <<store, dev>>
ideVars == <<store, regs, dev, pc, call, buf, got, failed>>

Status  == {"ready", "busy", "data", "error"}
DevIdle == [st |-> "ready", cmd |-> "none", words |-> <<>>]
NoCall  == [op |-> "none", lba |-> 0, data |-> 0]

IdeInit ==
  /\ store = [l \in Lbas |-> l]
  /\ regs = [head |-> 0, hi |-> 0, mid |-> 0, lo |-> 0]
  /\ dev = DevIdle /\ pc = "idle" /\ call = NoCall /\ buf = <<>>
  /\ got = 0 /\ failed = FALSE

-----------------------------------------------------------------------------
(* The controller (external). *)

(* the sector that the registers name *)
Selected == ((regs.head * BYTE + regs.hi) * BYTE + regs.mid) * BYTE + regs.lo

(* outb(IDE_COMMAND, cmd) *)
DevCommand(cmd) ==
  IF dev.st \in {"busy", "data"} THEN dev
  ELSE [st |-> "busy", cmd |-> cmd, words |-> <<>>]

(* A sector of which all words have arrived is written to the disk. *)
DevDone ==
  /\ dev.st = "busy"
  /\ IF dev.cmd = "write" /\ Len(dev.words) = WORDS
     THEN /\ store' = [store EXCEPT ![Selected] = dev.words[1].of]
          /\ dev' = DevIdle
     ELSE /\ dev' = IF dev.cmd = "flush" THEN DevIdle ELSE [dev EXCEPT !.st = "data"]
          /\ UNCHANGED store
  /\ UNCHANGED <<regs, pc, call, buf, got, failed>>

DevFail ==
  /\ dev.st = "busy"
  /\ dev' = [dev EXCEPT !.st = "error", !.words = <<>>]
  /\ failed' = TRUE
  /\ UNCHANGED <<store, regs, pc, call, buf, got>>

-----------------------------------------------------------------------------
(* The driver. *)

Begin(op, lba, data) ==
  /\ pc = "idle"
  /\ pc' = "select" /\ call' = [op |-> op, lba |-> lba, data |-> data]
  /\ buf' = <<>>
  /\ UNCHANGED <<devVars, regs, got, failed>>

ide_read_sector(lba)        == Begin("read", lba, 0)
ide_write_sector(lba, data) == Begin("write", lba, data)

(* ide_wait_ready: ERR is not looked at *)
WaitReady == dev.st # "busy"

(* Mutated form: any answer ends the wait. *)
mut_WaitDrq == dev.st # "busy"

(* ide_wait_drq: without DRQ the driver polls on, with ERR for ever *)
WaitDrq == dev.st = "data"

(* the four registers; outb takes a byte *)
LbaRegs(lba) ==
  [head |-> lba \div (BYTE * BYTE * BYTE) % NIBBLE, hi |-> lba \div (BYTE * BYTE) % BYTE,
   mid |-> lba \div BYTE % BYTE, lo |-> lba % BYTE]

ide_select_sector ==
  /\ pc = "select" /\ WaitReady
  /\ regs' = LbaRegs(call.lba)
  /\ pc' = "command"
  /\ UNCHANGED <<devVars, call, buf, got, failed>>

Command ==
  /\ pc = "command"
  /\ dev' = DevCommand(call.op)
  /\ pc' = "drq"
  /\ UNCHANGED <<store, regs, call, buf, got, failed>>

DrqSeen ==
  /\ pc = "drq" /\ WaitDrq
  /\ pc' = "transfer"
  /\ UNCHANGED <<devVars, regs, call, buf, got, failed>>

(* Mutated form: i <= 256 in the loop. *)
mut_LastWord(n) == n = WORDS + 1

(* the loop of a transfer ends with word n *)
LastWord(n) == n = WORDS

(* the sector that a buffer holds, or none *)
Whole(b) ==
  IF \E l \in Contents : b = [n \in 1..WORDS |-> [of |-> l, word |-> n]] THEN b[1].of ELSE -1

(* ptr[i] = inw(IDE_DATA) *)
InWord ==
  LET n    == Len(buf) + 1
      word == IF dev.st = "data" /\ Selected \in Lbas
              THEN [of |-> store[Selected], word |-> n] ELSE Junk
  IN
  /\ pc = "transfer" /\ call.op = "read"
  /\ buf' = Append(buf, word)
  /\ dev' = IF dev.st = "data" /\ n = WORDS THEN DevIdle ELSE dev
  /\ pc' = IF LastWord(n) THEN "idle" ELSE "transfer"
  /\ call' = IF LastWord(n) THEN NoCall ELSE call
  /\ got' = IF LastWord(n) THEN Whole(buf') ELSE got
  /\ UNCHANGED <<store, regs, failed>>

(* outw(IDE_DATA, ptr[i]); the last word makes the controller busy *)
OutWord ==
  LET n == Len(dev.words) + 1 IN
  /\ pc = "transfer" /\ call.op = "write"
  /\ dev' = [dev EXCEPT !.words = Append(@, [of |-> call.data, word |-> n]),
                        !.st = IF n = WORDS THEN "busy" ELSE @]
  /\ pc' = IF LastWord(n) THEN "flush" ELSE "transfer"
  /\ UNCHANGED <<store, regs, call, buf, got, failed>>

(* Mutated form: the driver waits for DRQ after the flush. *)
mut_Flushed ==
  /\ pc = "flushed" /\ WaitDrq
  /\ pc' = "idle" /\ call' = NoCall
  /\ UNCHANGED <<devVars, regs, buf, got, failed>>

(* outb(IDE_COMMAND, IDE_CMD_FLUSH), without waiting for BSY = 0 *)
Flush ==
  /\ pc = "flush"
  /\ dev' = DevCommand("flush") /\ pc' = "flushed"
  /\ UNCHANGED <<store, regs, call, buf, got, failed>>

Flushed ==
  /\ pc = "flushed" /\ WaitReady
  /\ pc' = "idle" /\ call' = NoCall
  /\ UNCHANGED <<devVars, regs, buf, got, failed>>

Driver     == ide_select_sector \/ Command \/ DrqSeen \/ InWord \/ OutWord \/ Flush \/ Flushed
Controller == DevDone \/ DevFail

-----------------------------------------------------------------------------
(* Every variable has its type; no more words are moved than fit the       *)
(* caller's buffer and the controller's.                                   *)
IdeTypeOK ==
  /\ store \in [Lbas -> Contents]
  /\ regs \in [head : 0..(NIBBLE - 1), hi : 0..(BYTE - 1), mid : 0..(BYTE - 1), lo : 0..(BYTE - 1)]
  /\ dev.st \in Status /\ Len(dev.words) <= WORDS
  /\ pc \in {"idle", "select", "command", "drq", "transfer", "flush", "flushed"}
  /\ call.op \in {"none", "read", "write"}
  /\ Len(buf) <= WORDS /\ got \in Contents \cup {0, -1}
  /\ failed \in BOOLEAN

(* The request a caller has made, as the abstract disk sees it. *)
Request ==
  IF pc = "idle" THEN [op |-> "none"]
  ELSE IF call.op = "read" THEN [op |-> "read", sector |-> call.lba]
  ELSE [op |-> IF pc \in {"flush", "flushed"} /\ store[call.lba] = call.data
               THEN "written" ELSE "write",
        sector |-> call.lba, data |-> call.data]

(* The driver implements Sectors: however long the controller takes and    *)
(* whenever it fails, a read that returns has returned all the words of    *)
(* the sector asked for, in order; a write that returns has written the    *)
(* sector, and no other, unless the controller reported an error, which    *)
(* the driver does not look at.                                            *)
SD == INSTANCE Sectors WITH Numbers <- Lbas, req <- Request, reply <- got
RefinesSectors == SD!Spec

(* Every call ends, unless the controller reports an error: the driver     *)
(* ignores ERR and then polls for DRQ for ever.                            *)
CallsEnd == (pc # "idle") ~> (pc = "idle" \/ dev.st = "error")
=============================================================================
