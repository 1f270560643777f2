------------------------------ MODULE DiskProofs -----------------------------
(***************************************************************************)
(* The disk driver implements Sectors, and the kernel finds every inode of *)
(* the first block group, for any disk, any sizes and any behaviour of the *)
(* controller.                                                             *)
(***************************************************************************)
EXTENDS Disk, TLAPS

-----------------------------------------------------------------------------
(* Division. *)

(* Quotient and remainder. *)
LEMMA DivMod ==
  ASSUME NEW l \in Nat, NEW B \in Nat \ {0}
  PROVE  /\ l \div B \in Nat /\ l % B \in 0..(B - 1)
         /\ l = B * (l \div B) + (l % B)
OBVIOUS

(* They are the only ones. *)
LEMMA DivUnique ==
  ASSUME NEW l \in Nat, NEW B \in Nat \ {0}, NEW q \in Nat, NEW r \in 0..(B - 1), l = B * q + r
  PROVE  l \div B = q /\ l % B = r
OBVIOUS

(* Multiples of B, and of B * C. *)
LEMMA Products ==
  ASSUME NEW B \in Nat \ {0}, NEW C \in Nat \ {0}
  PROVE  /\ B * C \in Nat \ {0} /\ B * C = C * B
         /\ \A a, b \in Nat : B * (C * a + b) = (B * C) * a + B * b
         /\ \A b \in 0..(C - 1) : B * b \in Nat /\ B * b + B <= B * C
<1>1. B * C \in Nat \ {0} /\ B * C = C * B
  OBVIOUS
<1>2. \A a, b \in Nat : B * (C * a + b) = (B * C) * a + B * b
  OBVIOUS
<1>3. ASSUME NEW b \in 0..(C - 1) PROVE B * b \in Nat /\ B * b + B <= B * C
  <2>1. \A d \in Nat : B * (b + 1 + d) = B * b + B + B * d /\ B * d \in Nat
    OBVIOUS
  <2>2. C - b - 1 \in Nat /\ C = b + 1 + (C - b - 1)
    OBVIOUS
  <2> QED
    BY <2>1, <2>2
<1> QED
  BY <1>1, <1>2, <1>3

(* Dividing twice. *)
LEMMA DivDiv ==
  ASSUME NEW l \in Nat, NEW B \in Nat \ {0}, NEW C \in Nat \ {0}
  PROVE  l \div (B * C) = (l \div B) \div C
<1> DEFINE a == l \div B
           r == l % B
           q == a \div C
           t == a % C
<1>1. a \in Nat /\ r \in 0..(B - 1) /\ l = B * a + r
  BY DivMod
<1> HIDE DEF a, r
<1>2. q \in Nat /\ t \in 0..(C - 1) /\ a = C * q + t
  BY <1>1, DivMod
<1> HIDE DEF q, t
<1>3. /\ B * C \in Nat \ {0} /\ B * a = (B * C) * q + B * t
      /\ B * t \in Nat /\ B * t + B <= B * C
  BY <1>2, Products
<1> DEFINE P == B * C
           s == B * t + r
<1>4. (B * C) * q \in Nat
  BY <1>2, <1>3
<1>5. P \in Nat \ {0} /\ s \in 0..(P - 1) /\ l = P * q + s
  BY <1>1, <1>3, <1>4
<1> HIDE DEF P, s
<1>6. l \div P = q
  BY <1>2, <1>5, DivUnique
<1> QED
  BY <1>6 DEF P, q, a

-----------------------------------------------------------------------------
(* The registers. *)

(* The four registers name the sector they were computed from. *)
LEMMA RegsOf ==
  ASSUME NEW lba \in 0..(LBA_MOD - 1)
  PROVE  /\ LET r == LbaRegs(lba) IN
            ((r.head * BYTE + r.hi) * BYTE + r.mid) * BYTE + r.lo = lba
         /\ LbaRegs(lba) \in [head : 0..(NIBBLE - 1), hi : 0..(BYTE - 1), mid : 0..(BYTE - 1),
                               lo : 0..(BYTE - 1)]
<1> DEFINE R == LbaRegs(lba)
           B == BYTE
           a == lba \div B
           b == lba \div (B * B)
           c == lba \div (B * B * B)
<1>0. LBA_MOD = NIBBLE * B * B * B
  BY DEF LBA_MOD
<1>1. B \in Nat \ {0} /\ NIBBLE \in Nat \ {0}
  BY DEF BYTE, NIBBLE
<1>2. R = [head |-> c % NIBBLE, hi |-> b % B, mid |-> a % B, lo |-> lba % B]
  BY DEF LbaRegs
<1> HIDE DEF B, R
<1>4. B * B \in Nat \ {0} /\ B * B * B \in Nat \ {0} /\ LBA_MOD = (B * B * B) * NIBBLE
  BY <1>0, <1>1
<1>5. lba \in Nat /\ lba < (B * B * B) * NIBBLE
  BY <1>1, <1>4
<1>6. b = a \div B /\ c = b \div B
  BY <1>1, <1>4, <1>5, DivDiv
<1>7. a \in Nat /\ lba % B \in 0..(B - 1) /\ lba = B * a + (lba % B)
  BY <1>1, <1>5, DivMod
<1>8. c \in Nat /\ c < NIBBLE
  <2> DEFINE P == B * B * B
             r == lba % P
  <2>1. P \in Nat \ {0} /\ lba < P * NIBBLE
    BY <1>4, <1>5
  <2>2. c = lba \div P
    OBVIOUS
  <2> HIDE DEF P, c
  <2>3. c \in Nat /\ r \in 0..(P - 1) /\ lba = P * c + r
    BY <1>5, <2>1, <2>2, DivMod
  <2> HIDE DEF r
  <2>4. \A d \in Nat : P * (NIBBLE + d) = P * NIBBLE + P * d /\ P * d \in Nat /\ P * NIBBLE \in Nat
    BY <1>1, <2>1
  <2>5. c >= NIBBLE => c - NIBBLE \in Nat /\ c = NIBBLE + (c - NIBBLE)
    BY <1>1, <2>3
  <2>6. c >= NIBBLE => P * c >= P * NIBBLE
    BY <2>4, <2>5
  <2>7. P * c \in Nat /\ P * NIBBLE \in Nat
    BY <1>1, <2>1, <2>3
  <2> QED
    BY <1>1, <1>5, <2>1, <2>3, <2>6, <2>7
<1> HIDE DEF a, b, c
<1>9. b \in Nat /\ a % B \in 0..(B - 1) /\ a = B * b + (a % B)
  BY <1>1, <1>6, <1>7, DivMod
<1>10. c \in Nat /\ b % B \in 0..(B - 1) /\ b = B * c + (b % B)
  BY <1>1, <1>6, <1>9, DivMod
<1>12. c % NIBBLE = c
  BY <1>1, <1>8
<1>13. R.head = c /\ R.hi = b % B /\ R.mid = a % B /\ R.lo = lba % B
  BY <1>2, <1>12
<1>14. c * B + (b % B) = b
  BY <1>1, <1>10
<1>15. b * B + (a % B) = a
  BY <1>1, <1>9
<1>16. a * B + (lba % B) = lba
  BY <1>1, <1>7
<1>17. ((R.head * B + R.hi) * B + R.mid) * B + R.lo = lba
  BY <1>13, <1>14, <1>15, <1>16
<1> QED
  BY <1>2, <1>7, <1>9, <1>8, <1>10, <1>12, <1>17, <1>1 DEF B, R

(* So the controller selects that sector. *)
LEMMA RegsName ==
  ASSUME NEW lba \in 0..(LBA_MOD - 1), regs = LbaRegs(lba)
  PROVE  Selected = lba
BY RegsOf DEF Selected

-----------------------------------------------------------------------------
(* The driver and the controller. *)

(* k words of the contents d *)
Words(d, k) == [n \in 1..k |-> [of |-> d, word |-> n]]
WordType    == [of : Contents \cup {-1}, word : Nat]

(* Sequences of words. *)
LEMMA WordsGrow ==
  ASSUME NEW d \in Contents, NEW k \in Nat
  PROVE  /\ Words(d, k) \in Seq(WordType) /\ Len(Words(d, k)) = k
         /\ Append(Words(d, k), [of |-> d, word |-> k + 1]) = Words(d, k + 1)
         /\ k > 0 => Words(d, k)[1].of = d
         /\ Words(d, 0) = <<>>
<1>1. Words(d, k) \in Seq(WordType) /\ Len(Words(d, k)) = k
  BY DEF Words, WordType
<1>2. Append(Words(d, k), [of |-> d, word |-> k + 1]) = Words(d, k + 1)
  BY DEF Words
<1>3. k > 0 => Words(d, k)[1].of = d
  BY DEF Words
<1>4. Words(d, 0) = <<>>
  BY DEF Words
<1> QED
  BY <1>1, <1>2, <1>3, <1>4

Calls == [op : {"read"}, lba : Lbas, data : {0}] \cup [op : {"write"}, lba : Lbas, data : Writes]

(* the types of the driver's variables *)
IdeTyping ==
  /\ store \in [Lbas -> Contents]
  /\ regs \in [head : 0..(NIBBLE - 1), hi : 0..(BYTE - 1), mid : 0..(BYTE - 1), lo : 0..(BYTE - 1)]
  /\ dev \in [st : Status, cmd : {"none", "read", "write", "flush"}, words : Seq(WordType)]
  /\ Len(dev.words) <= WORDS
  /\ pc \in {"idle", "select", "command", "drq", "transfer", "flush", "flushed"}
  /\ buf \in Seq(WordType) /\ Len(buf) <= WORDS
  /\ got \in Contents \cup {0, -1} /\ failed \in BOOLEAN

(* The call, and the registers once the sector is selected. *)
CallInv ==
  /\ IF pc = "idle" THEN call = NoCall ELSE call \in Calls
  /\ pc \notin {"idle", "select"} => regs = LbaRegs(call.lba)
  /\ pc \in {"flush", "flushed"} => call.op = "write"

(* Where the controller is when the driver is there. *)
DevInv ==
  /\ pc \in {"idle", "select", "command"} => dev.st \in {"ready", "error"}
  /\ pc = "drq" => dev.st \in {"busy", "data", "error"} /\ dev.cmd = call.op /\ dev.words = <<>>
  /\ pc = "transfer" =>
       /\ dev.st = "data" /\ dev.cmd = call.op /\ Len(dev.words) < WORDS
       /\ call.op = "write" => dev.words = Words(call.data, Len(dev.words))
  /\ pc \in {"flush", "flushed"} =>
       /\ dev.st # "data"
       /\ dev.st = "busy" => \/ dev.cmd = "write" /\ dev.words = Words(call.data, WORDS)
                             \/ pc = "flushed" /\ dev.cmd = "flush"
       /\ store[call.lba] = call.data \/ failed \/ (dev.st = "busy" /\ dev.cmd = "write")

(* The words read so far. *)
BufInv ==
  /\ pc \in {"select", "command", "drq"} => buf = <<>>
  /\ pc = "transfer" /\ call.op = "read" =>
       Len(buf) < WORDS /\ buf = Words(store[call.lba], Len(buf))

IdeInv == IdeTyping /\ CallInv /\ DevInv /\ BufInv

(* What a caller of the driver, the driver and the controller do. *)
IdeNext ==
  \/ \E lba \in Lbas : ide_read_sector(lba)
  \/ \E lba \in Lbas, data \in Writes : ide_write_sector(lba, data)
  \/ Driver \/ Controller

(* What a call of a type is. *)
LEMMA CallParts ==
  ASSUME call \in Calls
  PROVE  /\ call.op \in {"read", "write"} /\ call.lba \in Lbas
         /\ call.op = "write" => call.data \in Writes /\ call.data \in Contents
BY DEF Calls, Contents

(* Once selected, the sector is the one of the call. *)
LEMMA SelectedIs ==
  ASSUME IdeInv, pc \notin {"idle", "select"}
  PROVE  Selected = call.lba
<1>1. call \in Calls /\ regs = LbaRegs(call.lba)
  BY DEF IdeInv, CallInv
<1>2. call.lba \in 0..(LBA_MOD - 1)
  BY <1>1, CallParts, IdeAssumption
<1> QED
  BY <1>1, <1>2, RegsName

(* A caller calls an idle driver. *)
LEMMA BeginInv ==
  ASSUME IdeInv, NEW op, NEW lba, NEW data,
         [op |-> op, lba |-> lba, data |-> data] \in Calls, Begin(op, lba, data)
  PROVE  IdeInv'
<1> USE IdeAssumption
<1>1. /\ pc = "idle" /\ pc' = "select" /\ call' \in Calls /\ buf' = <<>>
      /\ UNCHANGED <<store, dev, regs, got, failed>>
  BY DEF Begin, devVars
<1>2. IdeTyping'
  BY <1>1 DEF IdeInv, IdeTyping
<1>3. CallInv' /\ DevInv' /\ BufInv'
  BY <1>1 DEF IdeInv, CallInv, DevInv, BufInv
<1> QED
  BY <1>2, <1>3 DEF IdeInv

(* ide_select_sector. *)
LEMMA SelectInv ==
  ASSUME IdeInv, ide_select_sector
  PROVE  IdeInv'
<1> USE IdeAssumption
<1>1. /\ pc = "select" /\ pc' = "command" /\ regs' = LbaRegs(call.lba)
      /\ UNCHANGED <<store, dev, call, buf, got, failed>>
  BY DEF ide_select_sector, devVars
<1>2. call \in Calls /\ call.lba \in 0..(LBA_MOD - 1)
  BY <1>1, CallParts DEF IdeInv, CallInv
<1>3. regs' \in [head : 0..(NIBBLE - 1), hi : 0..(BYTE - 1), mid : 0..(BYTE - 1), lo : 0..(BYTE - 1)]
  BY <1>1, <1>2, RegsOf
<1>4. IdeTyping'
  BY <1>1, <1>3 DEF IdeInv, IdeTyping
<1>5. CallInv' /\ DevInv' /\ BufInv'
  BY <1>1, <1>2 DEF IdeInv, CallInv, DevInv, BufInv
<1> QED
  BY <1>4, <1>5 DEF IdeInv

(* The command finds the controller ready: the call waited for it. *)
LEMMA CommandInv ==
  ASSUME IdeInv, Command
  PROVE  IdeInv'
<1> USE IdeAssumption
<1>1. /\ pc = "command" /\ pc' = "drq" /\ dev.st \in {"ready", "error"}
      /\ UNCHANGED <<store, regs, call, buf, got, failed>>
  BY DEF Command, IdeInv, DevInv
<1>2. dev' = [st |-> "busy", cmd |-> call.op, words |-> <<>>]
  BY <1>1 DEF Command, DevCommand
<1>3. call \in Calls /\ call.op \in {"read", "write"}
  BY <1>1, CallParts DEF IdeInv, CallInv
<1>4. /\ dev' \in [st : Status, cmd : {"none", "read", "write", "flush"}, words : Seq(WordType)]
      /\ Len(dev'.words) = 0 /\ dev'.st = "busy" /\ dev'.cmd = call.op /\ dev'.words = <<>>
  BY <1>2, <1>3 DEF Status
<1>5. IdeTyping'
  BY <1>1, <1>4 DEF IdeInv, IdeTyping
<1>6. CallInv' /\ DevInv' /\ BufInv'
  BY <1>1, <1>3, <1>4 DEF IdeInv, CallInv, DevInv, BufInv
<1> QED
  BY <1>5, <1>6 DEF IdeInv

(* DRQ: no word has been transferred yet. *)
LEMMA DrqInv ==
  ASSUME IdeInv, DrqSeen
  PROVE  IdeInv'
<1> USE IdeAssumption
<1>1. /\ pc = "drq" /\ pc' = "transfer" /\ dev.st = "data"
      /\ UNCHANGED <<store, dev, regs, call, buf, got, failed>>
  BY DEF DrqSeen, devVars, WaitDrq
<1>2. call \in Calls
  BY <1>1 DEF IdeInv, CallInv
<1>3. /\ Len(dev.words) = 0 /\ Len(buf) = 0 /\ buf = <<>> /\ dev.words = <<>>
  BY <1>1 DEF IdeInv, DevInv, BufInv
<1>4. call.op = "write" => Words(call.data, 0) = <<>>
  BY <1>2, CallParts, WordsGrow
<1>5. store[call.lba] \in Contents
  BY <1>2, CallParts DEF IdeInv, IdeTyping
<1>6. Words(store[call.lba], 0) = <<>>
  BY <1>5, WordsGrow
<1>7. IdeTyping'
  BY <1>1 DEF IdeInv, IdeTyping
<1>8. CallInv'
  BY <1>1 DEF IdeInv, CallInv
<1>9. DevInv'
  BY <1>1, <1>3, <1>4 DEF IdeInv, DevInv
<1>10. BufInv'
  BY <1>1, <1>3, <1>6 DEF IdeInv, BufInv
<1> QED
  BY <1>7, <1>8, <1>9, <1>10 DEF IdeInv

(* A word read is the next word of the sector asked for. *)
LEMMA InWordIs ==
  ASSUME IdeInv, InWord
  PROVE  /\ pc = "transfer" /\ call.op = "read" /\ call \in Calls
         /\ buf' = Words(store[call.lba], Len(buf) + 1) /\ Len(buf') = Len(buf) + 1
         /\ dev' = (IF Len(buf) + 1 = WORDS THEN DevIdle ELSE dev)
         /\ pc' = (IF Len(buf) + 1 = WORDS THEN "idle" ELSE "transfer")
         /\ call' = (IF Len(buf) + 1 = WORDS THEN NoCall ELSE call)
         /\ got' = (IF Len(buf) + 1 = WORDS THEN store[call.lba] ELSE got)
         /\ store[call.lba] \in Contents /\ Len(buf) < WORDS /\ Len(buf) \in Nat
         /\ buf' \in Seq(WordType)
         /\ UNCHANGED <<store, regs, failed>>
<1> USE IdeAssumption
<1> DEFINE l == store[call.lba]
           n == Len(buf) + 1
<1>1. pc = "transfer" /\ call.op = "read" /\ dev.st = "data"
  BY DEF InWord, IdeInv, DevInv
<1>2. call \in Calls /\ call.lba \in Lbas /\ Selected = call.lba
  BY <1>1, CallParts, SelectedIs DEF IdeInv, CallInv
<1>3. l \in Contents /\ Len(buf) \in Nat /\ Len(buf) < WORDS /\ buf = Words(l, Len(buf))
  <2>1. l \in Contents
    BY <1>2 DEF IdeInv, IdeTyping
  <2>2. Len(buf) \in Nat
    BY DEF IdeInv, IdeTyping
  <2> QED
    BY <1>1, <2>1, <2>2 DEF IdeInv, BufInv
<1>4. buf' = Append(buf, [of |-> l, word |-> n])
  BY <1>1, <1>2 DEF InWord
<1> HIDE DEF l
<1>5. buf' = Words(l, n) /\ Len(buf') = n /\ buf' \in Seq(WordType)
  <2>1. \A k \in Nat : Append(Words(l, k), [of |-> l, word |-> k + 1]) = Words(l, k + 1)
    BY <1>3, WordsGrow
  <2>2. buf' = Words(l, n)
    BY <1>3, <1>4, <2>1
  <2>3. n \in Nat
    BY <1>3
  <2> QED
    BY <1>3, <2>2, <2>3, WordsGrow
<1>6. n = WORDS => Whole(buf') = l
  <2> SUFFICES ASSUME n = WORDS PROVE Whole(buf') = l
    OBVIOUS
  <2>1. buf' = [i \in 1..WORDS |-> [of |-> l, word |-> i]]
    BY <1>5 DEF Words
  <2>2. \E k \in Contents : buf' = [i \in 1..WORDS |-> [of |-> k, word |-> i]]
    BY <1>3, <2>1
  <2>3. buf'[1].of = l
    BY <2>1
  <2> QED
    BY <2>2, <2>3 DEF Whole
<1>7. /\ dev' = (IF n = WORDS THEN DevIdle ELSE dev)
      /\ pc' = (IF n = WORDS THEN "idle" ELSE "transfer")
      /\ call' = (IF n = WORDS THEN NoCall ELSE call)
      /\ got' = (IF n = WORDS THEN Whole(buf') ELSE got)
      /\ UNCHANGED <<store, regs, failed>>
  BY <1>1 DEF InWord, LastWord
<1> QED
  BY <1>1, <1>2, <1>3, <1>5, <1>6, <1>7 DEF l

(* A word read. *)
LEMMA InWordInv ==
  ASSUME IdeInv, InWord
  PROVE  IdeInv'
<1> USE IdeAssumption
<1>1. dev.st = "data" /\ dev.cmd = call.op /\ Len(dev.words) < WORDS
  BY InWordIs DEF IdeInv, DevInv
<1>2. CASE Len(buf) + 1 = WORDS
  <2>1. /\ DevIdle \in [st : Status, cmd : {"none", "read", "write", "flush"}, words : Seq(WordType)]
        /\ Len(DevIdle.words) = 0 /\ DevIdle.st = "ready"
    BY DEF DevIdle, Status
  <2>2. IdeTyping'
    BY <1>2, <2>1, InWordIs DEF IdeInv, IdeTyping
  <2>3. CallInv' /\ DevInv' /\ BufInv'
    BY <1>2, <2>1, InWordIs DEF CallInv, DevInv, BufInv
  <2> QED
    BY <2>2, <2>3 DEF IdeInv
<1>3. CASE Len(buf) + 1 # WORDS
  <2>1. IdeTyping'
    BY <1>3, InWordIs DEF IdeInv, IdeTyping
  <2>2. CallInv' /\ DevInv'
    BY <1>1, <1>3, InWordIs DEF IdeInv, CallInv, DevInv
  <2>3. BufInv'
    BY <1>3, InWordIs DEF BufInv
  <2> QED
    BY <2>1, <2>2, <2>3 DEF IdeInv
<1> QED
  BY <1>2, <1>3

(* A word written is the next word of the contents to write. *)
LEMMA OutWordIs ==
  ASSUME IdeInv, OutWord
  PROVE  /\ pc = "transfer" /\ call.op = "write" /\ call \in Calls
         /\ Len(dev.words) \in Nat /\ Len(dev.words) < WORDS
         /\ dev' \in [st : Status, cmd : {"none", "read", "write", "flush"}, words : Seq(WordType)]
         /\ dev'.words = Words(call.data, Len(dev.words) + 1)
         /\ Len(dev'.words) = Len(dev.words) + 1
         /\ dev'.st = (IF Len(dev.words) + 1 = WORDS THEN "busy" ELSE "data")
         /\ dev'.cmd = "write"
         /\ pc' = (IF Len(dev.words) + 1 = WORDS THEN "flush" ELSE "transfer")
         /\ UNCHANGED <<store, regs, call, buf, got, failed>>
<1> USE IdeAssumption
<1> DEFINE d == call.data
           w == dev.words
           n == Len(w) + 1
<1>1. /\ pc = "transfer" /\ call.op = "write" /\ dev.st = "data" /\ dev.cmd = "write"
      /\ Len(w) < WORDS /\ w = Words(d, Len(w))
  BY DEF OutWord, IdeInv, DevInv
<1>2. call \in Calls /\ d \in Contents
  BY <1>1, CallParts DEF IdeInv, CallInv
<1>3. dev \in [st : Status, cmd : {"none", "read", "write", "flush"}, words : Seq(WordType)]
  BY DEF IdeInv, IdeTyping
<1>4. Len(w) \in Nat
  BY <1>3
<1> DEFINE v == Append(w, [of |-> d, word |-> n])
           t == IF n = WORDS THEN "busy" ELSE dev.st
<1>5. dev' = [dev EXCEPT !.words = v, !.st = t]
  BY DEF OutWord
<1>6. v = Words(d, n)
  <2>1. \A k \in Nat : Append(Words(d, k), [of |-> d, word |-> k + 1]) = Words(d, k + 1)
    BY <1>2, WordsGrow
  <2> QED
    BY <1>1, <1>4, <2>1
<1>7. v \in Seq(WordType) /\ Len(v) = n
  <2>1. n \in Nat
    BY <1>4
  <2> QED
    BY <1>2, <1>6, <2>1, WordsGrow
<1>8. t \in Status
  BY <1>1 DEF Status
<1> HIDE DEF v, t
<1>9. /\ dev' \in [st : Status, cmd : {"none", "read", "write", "flush"}, words : Seq(WordType)]
      /\ dev'.words = v /\ dev'.st = t /\ dev'.cmd = dev.cmd
  BY <1>3, <1>5, <1>7, <1>8
<1>10. pc' = (IF n = WORDS THEN "flush" ELSE "transfer")
       /\ UNCHANGED <<store, regs, call, buf, got, failed>>
  BY DEF OutWord, LastWord
<1> QED
  BY <1>1, <1>2, <1>4, <1>6, <1>7, <1>9, <1>10 DEF t

(* A word written; after the last one the controller is busy. *)
LEMMA OutWordInv ==
  ASSUME IdeInv, OutWord
  PROVE  IdeInv'
<1> USE IdeAssumption
<1>1. IdeTyping'
  BY OutWordIs DEF IdeInv, IdeTyping
<1>2. CallInv'
  BY OutWordIs DEF IdeInv, CallInv
<1>3. DevInv'
  BY OutWordIs DEF DevInv
<1>4. BufInv'
  BY OutWordIs DEF BufInv
<1> QED
  BY <1>1, <1>2, <1>3, <1>4 DEF IdeInv

(* The flush is ignored while the controller is busy with the words. *)
LEMMA FlushInv ==
  ASSUME IdeInv, Flush
  PROVE  IdeInv'
<1> USE IdeAssumption
<1>1. /\ pc = "flush" /\ pc' = "flushed" /\ dev' = DevCommand("flush")
      /\ UNCHANGED <<store, regs, call, buf, got, failed>>
  BY DEF Flush
<1>2. dev.st # "data"
  BY <1>1 DEF IdeInv, DevInv
<1>3. dev' = (IF dev.st = "busy" THEN dev ELSE [st |-> "busy", cmd |-> "flush", words |-> <<>>])
  BY <1>1, <1>2 DEF DevCommand
<1>4. /\ dev' \in [st : Status, cmd : {"none", "read", "write", "flush"}, words : Seq(WordType)]
      /\ Len(dev'.words) <= WORDS
  BY <1>3 DEF IdeInv, IdeTyping, Status
<1>5. IdeTyping'
  BY <1>1, <1>4 DEF IdeInv, IdeTyping
<1>6. CallInv' /\ BufInv'
  BY <1>1 DEF IdeInv, CallInv, BufInv
<1>7. DevInv'
  BY <1>1, <1>3 DEF IdeInv, DevInv
<1> QED
  BY <1>5, <1>6, <1>7 DEF IdeInv

(* The call returns when BSY is clear. *)
LEMMA FlushedInv ==
  ASSUME IdeInv, Flushed
  PROVE  IdeInv'
<1> USE IdeAssumption
<1>1. /\ pc = "flushed" /\ pc' = "idle" /\ call' = NoCall /\ dev.st # "busy"
      /\ UNCHANGED <<store, dev, regs, buf, got, failed>>
  BY DEF Flushed, WaitReady, devVars
<1>2. IdeTyping'
  BY <1>1 DEF IdeInv, IdeTyping
<1>3. CallInv' /\ BufInv'
  BY <1>1 DEF CallInv, BufInv
<1>4. DevInv'
  BY <1>1 DEF IdeInv, IdeTyping, DevInv, Status
<1> QED
  BY <1>2, <1>3, <1>4 DEF IdeInv

(* The controller finishes: a sector changes only when all the words of a  *)
(* write have arrived, and it is the sector of the call.                   *)
LEMMA DoneIs ==
  ASSUME IdeInv, DevDone
  PROVE  /\ UNCHANGED <<regs, pc, call, buf, got, failed>>
         /\ dev' \in [st : Status, cmd : {"none", "read", "write", "flush"}, words : Seq(WordType)]
         /\ Len(dev'.words) <= WORDS
         /\ call \in Calls
         /\ \/ /\ pc \in {"flush", "flushed"} /\ dev'.st = "ready"
               /\ dev.cmd = "write" /\ store' = [store EXCEPT ![call.lba] = call.data]
            \/ /\ pc = "flushed" /\ dev'.st = "ready" /\ dev.cmd = "flush" /\ store' = store
            \/ /\ pc = "drq" /\ dev'.st = "data" /\ dev'.cmd = dev.cmd /\ dev'.words = <<>>
               /\ dev.words = <<>> /\ store' = store
<1> USE IdeAssumption
<1>0. dev \in [st : Status, cmd : {"none", "read", "write", "flush"}, words : Seq(WordType)]
      /\ Len(dev.words) <= WORDS
  BY DEF IdeInv, IdeTyping
<1>1. dev.st = "busy" /\ UNCHANGED <<regs, pc, call, buf, got, failed>>
  BY DEF DevDone
<1>2. pc \in {"drq", "flush", "flushed"}
  BY <1>1 DEF IdeInv, IdeTyping, DevInv
<1>3. call \in Calls /\ Selected = call.lba
  BY <1>2, SelectedIs DEF IdeInv, CallInv
<1>4. /\ DevIdle \in [st : Status, cmd : {"none", "read", "write", "flush"}, words : Seq(WordType)]
      /\ Len(DevIdle.words) = 0 /\ DevIdle.st = "ready"
  BY DEF DevIdle, Status
<1>5. CASE pc = "drq"
  <2>1. dev.words = <<>> /\ dev.cmd \in {"read", "write"} /\ Len(dev.words) # WORDS
    BY <1>3, <1>5, CallParts DEF IdeInv, DevInv
  <2>2. dev' = [dev EXCEPT !.st = "data"] /\ store' = store
    BY <2>1 DEF DevDone
  <2>3. /\ dev' \in [st : Status, cmd : {"none", "read", "write", "flush"}, words : Seq(WordType)]
        /\ dev'.st = "data" /\ dev'.cmd = dev.cmd /\ dev'.words = dev.words
    BY <1>0, <2>2 DEF Status
  <2> QED
    BY <1>0, <1>1, <1>3, <1>5, <2>1, <2>2, <2>3
<1>6. CASE pc \in {"flush", "flushed"} /\ dev.cmd = "write"
  <2>1. call.op = "write"
    BY <1>6 DEF IdeInv, CallInv
  <2>2. call.data \in Contents
    BY <1>3, <2>1, CallParts
  <2>3. dev.words = Words(call.data, WORDS)
    BY <1>1, <1>6 DEF IdeInv, DevInv
  <2>4. Len(dev.words) = WORDS /\ dev.words[1].of = call.data
    <3>1. WORDS \in Nat /\ WORDS > 0
      OBVIOUS
    <3>2. Len(Words(call.data, WORDS)) = WORDS /\ Words(call.data, WORDS)[1].of = call.data
      BY <2>2, <3>1, WordsGrow
    <3> QED
      BY <2>3, <3>2
  <2>5. store' = [store EXCEPT ![call.lba] = call.data] /\ dev' = DevIdle
    BY <1>3, <1>6, <2>4 DEF DevDone
  <2> QED
    BY <1>1, <1>3, <1>4, <1>6, <2>5
<1>7. CASE pc \in {"flush", "flushed"} /\ dev.cmd # "write"
  <2>1. pc = "flushed" /\ dev.cmd = "flush"
    BY <1>1, <1>7 DEF IdeInv, DevInv
  <2>2. store' = store /\ dev' = DevIdle
    BY <2>1 DEF DevDone
  <2> QED
    BY <1>1, <1>3, <1>4, <2>1, <2>2
<1> QED
  BY <1>2, <1>5, <1>6, <1>7

(* The controller finishes. *)
LEMMA DoneInv ==
  ASSUME IdeInv, DevDone
  PROVE  IdeInv'
<1> USE IdeAssumption
<1>1. CASE pc \in {"flush", "flushed"} /\ dev.cmd = "write"
  <2>1. /\ dev'.st = "ready" /\ store' = [store EXCEPT ![call.lba] = call.data]
    BY <1>1, DoneIs
  <2>2. call \in Calls /\ call.op = "write" /\ call.lba \in Lbas /\ call.data \in Contents
    BY <1>1, DoneIs, CallParts DEF IdeInv, CallInv
  <2>3. store' \in [Lbas -> Contents] /\ store'[call.lba] = call.data
    BY <2>1, <2>2 DEF IdeInv, IdeTyping
  <2>4. IdeTyping'
    BY <2>3, DoneIs DEF IdeInv, IdeTyping
  <2>5. CallInv'
    BY DoneIs DEF IdeInv, CallInv
  <2>6. pc' = pc /\ call' = call
    BY DoneIs
  <2>7. DevInv'
    BY <1>1, <2>1, <2>3, <2>6 DEF DevInv
  <2>8. BufInv'
    BY <1>1, <2>6 DEF BufInv
  <2> QED
    BY <2>4, <2>5, <2>7, <2>8 DEF IdeInv
<1>2. CASE ~(pc \in {"flush", "flushed"} /\ dev.cmd = "write")
  <2>1. store' = store
    BY <1>2, DoneIs
  <2>2. IdeTyping'
    BY <2>1, DoneIs DEF IdeInv, IdeTyping
  <2>3. CallInv' /\ BufInv'
    BY <2>1, DoneIs DEF IdeInv, CallInv, BufInv
  <2>4. DevInv'
    BY <1>2, <2>1, DoneIs DEF IdeInv, DevInv
  <2> QED
    BY <2>2, <2>3, <2>4 DEF IdeInv
<1> QED
  BY <1>1, <1>2

(* The controller reports an error and forgets the words it had. *)
LEMMA FailInv ==
  ASSUME IdeInv, DevFail
  PROVE  IdeInv'
<1> USE IdeAssumption
<1>1. /\ dev.st = "busy" /\ dev' = [dev EXCEPT !.st = "error", !.words = <<>>]
      /\ failed' = TRUE /\ UNCHANGED <<store, regs, pc, call, buf, got>>
  BY DEF DevFail
<1>2. /\ dev' \in [st : Status, cmd : {"none", "read", "write", "flush"}, words : Seq(WordType)]
      /\ dev'.st = "error" /\ dev'.cmd = dev.cmd /\ dev'.words = <<>> /\ Len(dev'.words) = 0
  <2>1. dev \in [st : Status, cmd : {"none", "read", "write", "flush"}, words : Seq(WordType)]
    BY DEF IdeInv, IdeTyping
  <2>2. <<>> \in Seq(WordType) /\ Len(<<>>) = 0 /\ "error" \in Status
    BY DEF Status
  <2> QED
    BY <1>1, <2>1, <2>2
<1>3. IdeTyping'
  <2>1. failed' \in BOOLEAN
    BY <1>1, Zenon
  <2> QED
    BY <1>1, <1>2, <2>1 DEF IdeInv, IdeTyping
<1>4. CallInv' /\ BufInv'
  BY <1>1 DEF IdeInv, CallInv, BufInv
<1>5. DevInv'
  BY <1>1, <1>2 DEF IdeInv, DevInv
<1> QED
  BY <1>3, <1>4, <1>5 DEF IdeInv

(* Every step of callers, driver and controller keeps the invariant. *)
LEMMA IdeStepInv == IdeInv /\ [IdeNext]_ideVars => IdeInv'
<1> SUFFICES ASSUME IdeInv, [IdeNext]_ideVars PROVE IdeInv'
  OBVIOUS
<1>1. ASSUME NEW lba \in Lbas, ide_read_sector(lba) PROVE IdeInv'
  <2>1. [op |-> "read", lba |-> lba, data |-> 0] \in Calls
    BY DEF Calls
  <2> QED
    BY <1>1, <2>1, BeginInv DEF ide_read_sector
<1>2. ASSUME NEW lba \in Lbas, NEW data \in Writes, ide_write_sector(lba, data) PROVE IdeInv'
  <2>1. [op |-> "write", lba |-> lba, data |-> data] \in Calls
    BY DEF Calls
  <2> QED
    BY <1>2, <2>1, BeginInv DEF ide_write_sector
<1>3. CASE Driver
  BY <1>3, SelectInv, CommandInv, DrqInv, InWordInv, OutWordInv, FlushInv, FlushedInv DEF Driver
<1>4. CASE Controller
  BY <1>4, DoneInv, FailInv DEF Controller
<1>5. CASE UNCHANGED ideVars
  <2> USE <1>5 DEF ideVars
  <2>1. IdeTyping'
    BY DEF IdeInv, IdeTyping
  <2>2. CallInv' /\ BufInv'
    BY DEF IdeInv, CallInv, BufInv
  <2>3. DevInv'
    BY DEF IdeInv, DevInv
  <2> QED
    BY <2>1, <2>2, <2>3 DEF IdeInv
<1> QED
  BY <1>1, <1>2, <1>3, <1>4, <1>5 DEF IdeNext

-----------------------------------------------------------------------------
(* The driver implements Sectors. *)

(* A caller's call is a request. *)
LEMMA BeginAsks ==
  ASSUME IdeInv, NEW op, NEW lba, NEW data,
         [op |-> op, lba |-> lba, data |-> data] \in Calls, Begin(op, lba, data)
  PROVE  SD!Ask
<1>1. /\ pc = "idle" /\ pc' = "select" /\ call' = [op |-> op, lba |-> lba, data |-> data]
      /\ UNCHANGED <<store, got, failed>>
  BY DEF Begin, devVars
<1>2. Request = SD!None
  BY <1>1 DEF Request, SD!None
<1>3. call' \in Calls /\ call'.op = op /\ call'.lba = lba /\ call'.data = data
  BY <1>1
<1>4. CASE op = "read"
  <2>1. lba \in Lbas
    BY <1>1, <1>4 DEF Calls
  <2>2. Request' = [op |-> "read", sector |-> lba]
    BY <1>1, <1>3, <1>4 DEF Request
  <2> QED
    BY <1>1, <1>2, <2>1, <2>2 DEF SD!Ask, SD!Reqs
<1>5. CASE op = "write"
  <2>1. lba \in Lbas /\ data \in Contents
    BY <1>1, <1>5 DEF Calls, Contents
  <2>2. Request' = [op |-> "write", sector |-> lba, data |-> data]
    BY <1>1, <1>3, <1>5 DEF Request
  <2> QED
    BY <1>1, <1>2, <2>1, <2>2 DEF SD!Ask, SD!Reqs
<1> QED
  BY <1>3, <1>4, <1>5 DEF Calls

(* The last word read answers the request with the sector's contents. *)
LEMMA InWordAnswers ==
  ASSUME IdeInv, InWord
  PROVE  SD!AnswerRead \/ UNCHANGED SD!vars
<1>1. Request = [op |-> "read", sector |-> call.lba]
  BY InWordIs DEF Request
<1>2. CASE Len(buf) + 1 = WORDS
  <2>1. Request' = SD!None
    BY <1>2, InWordIs DEF Request, SD!None
  <2> QED
    BY <1>1, <1>2, <2>1, InWordIs DEF SD!AnswerRead
<1>3. CASE Len(buf) + 1 # WORDS
  <2>1. Request' = Request
    BY <1>3, InWordIs DEF Request
  <2> QED
    BY <1>3, <2>1, InWordIs DEF SD!vars
<1> QED
  BY <1>2, <1>3

(* A write reaches the disk when the controller has all its words, or was  *)
(* there before the call.                                                  *)
LEMMA WriteStep ==
  ASSUME IdeInv, call \in Calls, call.op = "write", pc \in {"transfer", "flush", "flushed"},
         pc' \in {"transfer", "flush", "flushed"}, pc # "transfer" => pc' # "transfer",
         call' = call, UNCHANGED <<got, failed>>,
         store' = store \/ (pc # "transfer" /\ store' = [store EXCEPT ![call.lba] = call.data])
  PROVE  SD!Write \/ UNCHANGED SD!vars
<1> DEFINE R(o) == [op |-> o, sector |-> call.lba, data |-> call.data]
<1>0. store \in [Lbas -> Contents] /\ call.lba \in Lbas /\ call.data \in Contents
  BY CallParts DEF IdeInv, IdeTyping
<1>1. /\ Request = IF pc # "transfer" /\ store[call.lba] = call.data THEN R("written") ELSE R("write")
      /\ Request' = IF pc' # "transfer" /\ store'[call.lba] = call.data THEN R("written") ELSE R("write")
  BY DEF Request
<1>2. store' = store \/ store' = [store EXCEPT ![call.lba] = call.data]
  OBVIOUS
<1>3. CASE Request = R("written")
  <2>1. pc # "transfer" /\ store[call.lba] = call.data
    BY <1>1, <1>3
  <2>2. store' = store
    BY <1>0, <1>2, <2>1
  <2>3. Request' = Request
    BY <1>1, <2>1, <2>2
  <2> QED
    BY <2>2, <2>3 DEF SD!vars
<1>4. CASE Request = R("write") /\ Request' = R("written")
  <2>1. store'[call.lba] = call.data
    BY <1>1, <1>4
  <2>2. store' = [store EXCEPT ![call.lba] = call.data]
    BY <1>0, <1>2, <2>1
  <2>3. Request' = [Request EXCEPT !.op = "written"]
    BY <1>4
  <2> QED
    BY <1>4, <2>2, <2>3 DEF SD!Write
<1>5. CASE Request = R("write") /\ Request' = R("write")
  <2>1. pc' = "transfer" \/ store'[call.lba] # call.data
    BY <1>1, <1>5
  <2>2. store' = store
    BY <1>0, <2>1
  <2> QED
    BY <1>5, <2>2 DEF SD!vars
<1> QED
  BY <1>1, <1>3, <1>4, <1>5

(* The call returns after the write, or after an error. *)
LEMMA FlushedAnswers ==
  ASSUME IdeInv, Flushed
  PROVE  SD!AnswerWrite
<1>1. /\ pc = "flushed" /\ pc' = "idle" /\ dev.st # "busy"
      /\ UNCHANGED <<store, got, failed>>
  BY DEF Flushed, WaitReady, devVars
<1>2. Request' = SD!None
  BY <1>1 DEF Request, SD!None
<1>3. call \in Calls /\ call.op = "write"
  BY <1>1 DEF IdeInv, CallInv
<1>4. store[call.lba] = call.data \/ failed
  BY <1>1 DEF IdeInv, DevInv
<1>5. Request.op = "written" \/ (Request.op = "write" /\ failed)
  BY <1>1, <1>3, <1>4 DEF Request
<1> QED
  BY <1>1, <1>2, <1>5 DEF SD!AnswerWrite

(* Every step of the driver and the controller is a step of Sectors. *)
LEMMA IdeSimulates == IdeInv /\ [IdeNext]_ideVars => [SD!Next]_(SD!vars)
<1> SUFFICES ASSUME IdeInv, [IdeNext]_ideVars PROVE SD!Next \/ UNCHANGED SD!vars
  OBVIOUS
<1>1. ASSUME NEW lba \in Lbas, ide_read_sector(lba) PROVE SD!Next
  <2>1. [op |-> "read", lba |-> lba, data |-> 0] \in Calls
    BY DEF Calls
  <2> QED
    BY <1>1, <2>1, BeginAsks DEF ide_read_sector, SD!Next
<1>2. ASSUME NEW lba \in Lbas, NEW data \in Writes, ide_write_sector(lba, data) PROVE SD!Next
  <2>1. [op |-> "write", lba |-> lba, data |-> data] \in Calls
    BY DEF Calls
  <2> QED
    BY <1>2, <2>1, BeginAsks DEF ide_write_sector, SD!Next
<1>3. ASSUME pc # "idle", pc' # "idle", pc \notin {"flush", "flushed"}, pc' \notin {"flush", "flushed"},
             UNCHANGED <<store, call, got, failed>>
      PROVE  UNCHANGED SD!vars
  BY <1>3 DEF Request, SD!vars
<1>4. CASE ide_select_sector
  BY <1>3, <1>4 DEF ide_select_sector, devVars
<1>5. CASE Command
  BY <1>3, <1>5 DEF Command
<1>6. CASE DrqSeen
  BY <1>3, <1>6 DEF DrqSeen, devVars
<1>7. CASE InWord
  BY <1>7, InWordAnswers DEF SD!Next
<1>8. CASE OutWord
  <2>1. /\ pc = "transfer" /\ call.op = "write" /\ call \in Calls /\ pc' \in {"transfer", "flush"}
        /\ UNCHANGED <<store, call, got, failed>>
    BY <1>8, OutWordIs
  <2> QED
    BY <2>1, WriteStep DEF SD!Next
<1>9. CASE Flush
  <2>1. pc = "flush" /\ pc' = "flushed" /\ UNCHANGED <<store, call, got, failed>>
    BY <1>9 DEF Flush
  <2>2. call \in Calls /\ call.op = "write"
    BY <2>1 DEF IdeInv, CallInv
  <2> QED
    BY <2>1, <2>2, WriteStep DEF SD!Next
<1>10. CASE Flushed
  BY <1>10, FlushedAnswers DEF SD!Next
<1>11. CASE DevDone
  <2>1. CASE pc = "drq"
    BY <1>3, <1>11, <2>1, DoneIs
  <2>2. CASE pc # "drq"
    <3>1. /\ pc \in {"flush", "flushed"} /\ call \in Calls /\ UNCHANGED <<pc, call, got, failed>>
          /\ store' = store \/ store' = [store EXCEPT ![call.lba] = call.data]
      BY <1>11, <2>2, DoneIs
    <3>2. call.op = "write"
      BY <3>1 DEF IdeInv, CallInv
    <3> QED
      BY <3>1, <3>2, WriteStep DEF SD!Next
  <2> QED
    BY <2>1, <2>2
<1>12. CASE DevFail
  <2>1. failed' = TRUE /\ UNCHANGED <<store, pc, call, got>>
    BY <1>12 DEF DevFail
  <2>2. Request' = Request
    BY <2>1 DEF Request
  <2> QED
    BY <2>1, <2>2 DEF SD!Fail, SD!Next
<1>13. CASE UNCHANGED ideVars
  BY <1>13 DEF ideVars, Request, SD!vars
<1> QED
  BY <1>1, <1>2, <1>4, <1>5, <1>6, <1>7, <1>8, <1>9, <1>10, <1>11, <1>12, <1>13
    DEF IdeNext, Driver, Controller

-----------------------------------------------------------------------------
(* Where ext2 keeps things. *)

(* A block is a whole number of sectors and of inodes. *)
LEMMA Ext2Sizes ==
  ASSUME NEW i, Ext2OK(i)
  PROVE  /\ BlockSize(i) \in Nat /\ DiskInodeSize(i) \in Nat \ {0}
         /\ BlockSize(i) \div SECTOR \in Nat \ {0}
         /\ BlockSize(i) = SECTOR * (BlockSize(i) \div SECTOR)
         /\ BlockSize(i) \div DiskInodeSize(i) \in Nat \ {0}
         /\ BlockSize(i) = DiskInodeSize(i) * (BlockSize(i) \div DiskInodeSize(i))
         /\ BlockSize(i) \div SECTOR = 2 * 2^i.log /\ 2^i.log \in Nat /\ (i.log = 0 => 2^i.log = 1)
<1>1. i.log = 0 \/ i.log = 1 \/ i.log = 2
  BY DEF Ext2OK
<1>2. 2^0 = 1 /\ 2^1 = 2 /\ 2^2 = 4
  OBVIOUS
<1>3. 2^i.log \in {1, 2, 4} /\ (i.log = 0 => 2^i.log = 1)
  <2>1. CASE i.log = 0
    BY <1>2, <2>1
  <2>2. CASE i.log = 1
    BY <1>2, <2>2
  <2>3. CASE i.log = 2
    BY <1>2, <2>3
  <2> QED
    BY <1>1, <2>1, <2>2, <2>3
<1> DEFINE e == 2^i.log
           b == BlockSize(i)
           z == DiskInodeSize(i)
           q == b \div z
<1>4. b = 1024 * e
  BY DEF BlockSize
<1>5. e \in {1, 2, 4}
  BY <1>3
<1>6. z \in Nat /\ z >= 128 /\ b % z = 0
  BY DEF Ext2OK
<1> HIDE DEF e, b, z
<1>7. b \in Nat \ {0} /\ b \div 512 = 2 * e /\ b = 512 * (b \div 512)
  BY <1>4, <1>5
<1>8. q \in Nat /\ b = z * q
  <2>1. b \div z \in Nat /\ b = z * (b \div z) + (b % z)
    <3>1. z \in Nat \ {0} /\ b \in Nat
      BY <1>6, <1>7
    <3> QED
      BY <3>1, DivMod
  <2> HIDE DEF q
  <2>2. q \in Nat /\ b = z * q + 0
    BY <1>6, <2>1 DEF q
  <2> QED
    BY <1>6, <2>2
<1> HIDE DEF q
<1>9. q # 0
  <2> SUFFICES ASSUME q = 0 PROVE FALSE
    OBVIOUS
  <2>1. b = 0
    BY <1>6, <1>8
  <2> QED
    BY <1>7, <2>1
<1> QED
  BY <1>3, <1>5, <1>6, <1>7, <1>8, <1>9 DEF SECTOR, e, b, z, q

(* Inode j of a table that starts at block T, S sectors and I inodes of Z  *)
(* bytes to a block: the sector and byte of its block that ext2_read_inode *)
(* computes are those that byte T * block_size + j * Z of the file system  *)
(* is in.                                                                  *)
InodeFits(S, Z, I, T, j) ==
  /\ ((j % I) * Z) \div SECTOR \in 0..(S - 1)
  /\ (T * (SECTOR * S) + j * Z) \div SECTOR = (T + j \div I) * S + ((j % I) * Z) \div SECTOR
  /\ (T * (SECTOR * S) + j * Z) % SECTOR = ((j % I) * Z) % SECTOR

(* It fits whenever sectors and inodes fill the block. *)
LEMMA InodeArithmetic ==
  ASSUME NEW S \in Nat \ {0}, NEW Z \in Nat \ {0}, NEW I \in Nat \ {0}, SECTOR * S = Z * I,
         NEW T \in Nat, NEW j \in Nat
  PROVE  InodeFits(S, Z, I, T, j)
<1> DEFINE q    == j \div I
           r    == j % I
           off  == r * Z
           byte == T * (SECTOR * S) + j * Z
           D    == SECTOR
           o    == off \div D
           p    == off % D
<1>1. D \in Nat \ {0} /\ D * S = Z * I
  BY DEF SECTOR
<1> HIDE DEF D
<1>2. q \in Nat /\ r \in 0..(I - 1) /\ j = I * q + r
  BY DivMod
<1> HIDE DEF q, r
<1>3. off \in Nat /\ off + Z <= D * S
  <2>1. Z * r \in Nat /\ Z * r + Z <= Z * I /\ Z * r = r * Z
    BY <1>2, Products
  <2> QED
    BY <1>1, <2>1
<1>4. j * Z = (D * S) * q + off
  <2>1. Z * (I * q + r) = (Z * I) * q + Z * r
    BY <1>2, Products
  <2>2. j * Z = Z * j /\ Z * r = r * Z
    BY <1>2
  <2> QED
    BY <1>1, <1>2, <2>1, <2>2
<1>5. byte = D * ((T + q) * S) + off
  <2>1. T * (D * S) + (D * S) * q = D * ((T + q) * S)
    <3>1. D * S = S * D /\ D * S \in Nat
      BY <1>1
    <3>2. T * (D * S) + (D * S) * q = (D * S) * (T + q)
      BY <1>2, <3>1
    <3>3. \A a \in Nat : (D * S) * a = D * (a * S)
      BY <1>1
    <3>4. T + q \in Nat
      BY <1>2
    <3> QED
      BY <3>2, <3>3, <3>4
  <2>2. T * (D * S) \in Nat /\ (D * S) * q \in Nat
    BY <1>1, <1>2
  <2> QED
    BY <1>3, <1>4, <2>1, <2>2 DEF D
<1> HIDE DEF off
<1>6. o \in Nat /\ p \in 0..(D - 1) /\ off = D * o + p
  BY <1>1, <1>3, DivMod
<1> HIDE DEF o, p
<1>7. o < S
  <2>1. \A d \in Nat : D * (S + d) = D * S + D * d /\ D * d \in Nat
    BY <1>1
  <2>2. o >= S => o - S \in Nat /\ o = S + (o - S)
    BY <1>6
  <2>3. o >= S => D * o >= D * S
    BY <1>1, <2>1, <2>2
  <2>4. D * o \in Nat /\ D * S \in Nat
    BY <1>1, <1>6
  <2> QED
    BY <1>3, <1>6, <2>3, <2>4
<1> DEFINE u == (T + q) * S + o
<1>8. u \in Nat /\ byte = D * u + p
  <2>1. (T + q) * S \in Nat
    BY <1>2
  <2>2. \A a \in Nat : D * (a + o) = D * a + D * o /\ D * a \in Nat /\ D * o \in Nat
    BY <1>1, <1>6
  <2>3. D * u = D * ((T + q) * S) + D * o
    BY <2>1, <2>2
  <2> HIDE DEF byte
  <2> QED
    BY <1>5, <1>6, <2>1, <2>2, <2>3
<1>9. byte \in Nat
  BY <1>1, <1>6, <1>8
<1> HIDE DEF u, byte
<1>10. byte \div D = u /\ byte % D = p
  BY <1>1, <1>6, <1>8, <1>9, DivUnique
<1> QED
  BY <1>6, <1>7, <1>10 DEF u, byte, D, o, p, off, q, r, InodeFits

-----------------------------------------------------------------------------
(* The callers. *)

(* the types of the callers' variables *)
DiskTyping ==
  /\ img \in Images /\ asked \in BOOLEAN
  /\ at \in {"mbr", "super", "bgdt", "inode", "table", "up", "halt"}
  /\ part_lba \in Nat /\ block_size \in Nat /\ inode_size \in Nat /\ inode_table \in Nat
  /\ blk \in Nat /\ blk_a \in Seq(Contents \cup {-1})
  /\ ino \in Nat /\ reads \in 0..MaxInodes /\ spare \in 0..MaxSpare

(* Only spare sectors are ever written, and only once the system is up. *)
StoreInv ==
  /\ \A l \in Lbas : l \notin SpareLbas \/ at \in {"mbr", "super", "bgdt"} => store[l] = l
  /\ call.op = "write" => at = "up" /\ call.lba \in SpareLbas

(* the sector that was asked for *)
Target ==
  IF at = "mbr" THEN 0
  ELSE IF at = "super" THEN part_lba + 2 ELSE part_lba + blk * Sects + Len(blk_a)

(* A sector asked for is being read, or has been. *)
AskInv ==
  /\ asked => at \in {"mbr", "super", "bgdt", "table"}
  /\ at # "up" /\ ~asked => pc = "idle"
  /\ asked => /\ Target \in Lbas
              /\ IF pc = "idle" THEN got = store[Target]
                 ELSE call.op = "read" /\ call.lba = Target
              /\ at \in {"bgdt", "table"} => Len(blk_a) < Sects

(* what ext2_init found in the superblock, and in the descriptors *)
Mounted == img.ext2 /\ part_lba = img.start /\ block_size = BlockSize(img)
           /\ inode_size = DiskInodeSize(img)
Described == Mounted /\ inode_table = img.inode_table

(* What is known at each place of kmain and of a syscall. *)
FsInv ==
  /\ at = "super" => part_lba = Partition(img)
  /\ at \in {"mbr", "super"} => inode_size = 0
  /\ at = "bgdt" => Mounted /\ blk = img.first_data + 1
  /\ at = "inode" => inode_size = 0 \/ Described
  /\ at = "table" => Described /\ blk = InodeBlock(img, ino)
  /\ at = "up" => Described /\ where = InodePlace(ino)
  /\ at \in {"inode", "table", "up"} => ino \in Inodes \cup {EXT2_ROOT_INODE}
  /\ at \notin {"up", "halt"} => reads < MaxInodes

(* the part of the block that has been read *)
BlockInv ==
  at \in {"bgdt", "table"} =>
    /\ Len(blk_a) <= Sects
    /\ \A k \in 1..Len(blk_a) : blk_a[k] = part_lba + blk * Sects + k - 1

DiskInv == DiskTyping /\ StoreInv /\ AskInv /\ FsInv /\ BlockInv

(* What the machine, given its disk, can rely on. *)
LEMMA ImageFacts ==
  ASSUME DiskTyping
  PROVE  /\ img.start \in Nat /\ Partition(img) \in Nat /\ Partition(img) + 2 \in Lbas
         /\ img.ext2 => Ext2OK(img) /\ BlockSectors(img, img.first_data + 1) \subseteq Lbas
         /\ img.ext2 => \A n \in Inodes \cup {EXT2_ROOT_INODE} :
                          BlockSectors(img, InodeBlock(img, n)) \subseteq Lbas \ SpareLbas
BY ImagesAssumption DEF DiskTyping

(* The block size that the kernel has found gives whole sectors. *)
LEMMA MountedSects ==
  ASSUME DiskTyping, Mounted
  PROVE  /\ Ext2OK(img) /\ Sects \in Nat \ {0} /\ Sects = BlockSize(img) \div SECTOR
         /\ inode_size \in Nat \ {0}
BY ImageFacts, Ext2Sizes DEF Mounted, Sects

(* The next sector of the block being read. *)
LEMMA TargetInBlock ==
  ASSUME DiskInv, at \in {"bgdt", "table"}, Len(blk_a) < Sects
  PROVE  /\ Target = part_lba + blk * Sects + Len(blk_a)
         /\ Target \in Lbas /\ Target \in Nat
         /\ at = "table" => Target \notin SpareLbas
<1>1. DiskTyping /\ Mounted
  BY DEF DiskInv, FsInv, Described
<1>2. /\ Sects \in Nat \ {0} /\ Sects = BlockSize(img) \div SECTOR /\ part_lba = img.start
      /\ Len(blk_a) \in Nat /\ blk \in Nat /\ img.start \in Nat
  BY <1>1, MountedSects, ImageFacts DEF DiskTyping, Mounted
<1>3. Target = img.start + blk * Sects + Len(blk_a)
  BY <1>2 DEF Target
<1>4. Target \in BlockSectors(img, blk)
  BY <1>2, <1>3 DEF BlockSectors
<1>5. Target \in Nat
  BY <1>2, <1>3
<1>6. CASE at = "bgdt"
  <2>1. blk = img.first_data + 1
    BY <1>6 DEF DiskInv, FsInv
  <2> QED
    BY <1>1, <1>2, <1>3, <1>4, <1>5, <1>6, <2>1, ImageFacts DEF Mounted
<1>7. CASE at = "table"
  <2>1. blk = InodeBlock(img, ino) /\ ino \in Inodes \cup {EXT2_ROOT_INODE}
    BY <1>7 DEF DiskInv, FsInv
  <2>2. BlockSectors(img, blk) \subseteq Lbas \ SpareLbas
    BY <1>1, <2>1, ImageFacts DEF Mounted
  <2> QED
    BY <1>2, <1>3, <1>4, <1>5, <2>2
<1> QED
  BY <1>6, <1>7

(* A sector of the file system, once asked for. *)
LEMMA AskPreserves ==
  ASSUME IdeInv, DiskInv, NEW lba \in Lbas, Ask(lba), lba = Target, spare' = spare,
         at \in {"mbr", "super", "bgdt", "table"},
         at \in {"bgdt", "table"} => Len(blk_a) < Sects
  PROVE  DiskInv' /\ IdeNext
<1>1. /\ asked' = TRUE /\ pc' = "select" /\ call' = [op |-> "read", lba |-> lba, data |-> 0]
      /\ UNCHANGED <<img, at, part_lba, block_size, inode_size, inode_table, blk, blk_a>>
      /\ UNCHANGED <<ino, where, reads, store, got, spare>>
  BY DEF Ask, ide_read_sector, Begin, devVars, fsVars, blkVars, inoVars
<1>2. call'.op = "read" /\ call'.lba = lba /\ Target' = Target
  BY <1>1 DEF Target, Sects
<1>3. DiskTyping'
  <2>1. asked' \in BOOLEAN
    BY <1>1, Zenon
  <2> QED
    BY <1>1, <2>1 DEF DiskInv, DiskTyping
<1>4. StoreInv'
  BY <1>1, <1>2 DEF DiskInv, StoreInv
<1>5. AskInv'
  BY <1>1, <1>2 DEF AskInv, Sects
<1>6. FsInv'
  BY <1>1 DEF DiskInv, FsInv, Mounted, Described, InodePlace
<1>7. BlockInv'
  BY <1>1 DEF DiskInv, BlockInv, Sects
<1>8. IdeNext
  BY DEF Ask, IdeNext
<1> QED
  BY <1>3, <1>4, <1>5, <1>6, <1>7, <1>8 DEF DiskInv

(* The three places where the kernel asks for a sector. *)
LEMMA AsksPreserve ==
  ASSUME IdeInv, DiskInv, AskMbr \/ AskSuper \/ AskBlock, spare' = spare
  PROVE  DiskInv' /\ IdeNext
<1>1. CASE AskMbr
  <2>1. at = "mbr" /\ Ask(0) /\ Target = 0 /\ 0 \in Lbas
    BY <1>1, ImagesAssumption DEF AskMbr, Target
  <2> QED
    BY <2>1, AskPreserves
<1>2. CASE AskSuper
  <2>1. at = "super" /\ Ask(part_lba + 2) /\ Target = part_lba + 2
    BY <1>2 DEF AskSuper, Target
  <2>2. part_lba + 2 \in Lbas
    BY <2>1, ImageFacts DEF DiskInv, FsInv
  <2> QED
    BY <2>1, <2>2, AskPreserves
<1>3. CASE AskBlock
  <2>1. /\ at \in {"bgdt", "table"} /\ Len(blk_a) < Sects
        /\ Ask(part_lba + blk * Sects + Len(blk_a))
    BY <1>3 DEF AskBlock
  <2>2. Target = part_lba + blk * Sects + Len(blk_a) /\ Target \in Lbas
    BY <2>1, TargetInBlock
  <2>3. Ask(Target)
    BY <2>1, <2>2
  <2> QED
    BY <2>1, <2>2, <2>3, AskPreserves
<1> QED
  BY <1>1, <1>2, <1>3

(* mbr_find_partition and ext2_set_partition. *)
LEMMA PartitionPreserves ==
  ASSUME DiskInv, mbr_find_partition, spare' = spare
  PROVE  DiskInv'
<1>1. /\ at = "mbr" /\ asked /\ pc = "idle" /\ asked' = FALSE /\ at' = "super"
      /\ part_lba' = Partition(img)
      /\ UNCHANGED <<img, block_size, inode_size, inode_table, blk, blk_a, ino, where, reads>>
      /\ UNCHANGED <<store, pc, call, got, spare>>
  BY DEF mbr_find_partition, Returned, ideVars, blkVars, inoVars
<1>2. DiskTyping'
  <2>1. asked' \in BOOLEAN
    BY <1>1, Zenon
  <2>2. part_lba' \in Nat
    BY <1>1, ImageFacts DEF DiskInv
  <2> QED
    BY <1>1, <2>1, <2>2 DEF DiskInv, DiskTyping
<1>3. StoreInv'
  BY <1>1 DEF DiskInv, StoreInv
<1>4. AskInv' /\ FsInv' /\ BlockInv'
  BY <1>1 DEF DiskInv, AskInv, FsInv, BlockInv
<1> QED
  BY <1>2, <1>3, <1>4 DEF DiskInv

(* ext2_init takes the superblock for one only where it is. *)
LEMMA SuperPreserves ==
  ASSUME DiskInv, ext2_init, spare' = spare
  PROVE  DiskInv'
<1>1. /\ at = "super" /\ asked /\ pc = "idle" /\ asked' = FALSE
      /\ UNCHANGED <<img, part_lba, inode_table, where, reads, store, pc, call, got, spare>>
  BY DEF ext2_init, Returned, ideVars
<1>2. /\ part_lba = Partition(img) /\ inode_size = 0 /\ reads < MaxInodes
      /\ call.op # "write"
  BY <1>1 DEF DiskInv, FsInv, StoreInv
<1>3. got = part_lba + 2
  <2>1. Target \in Lbas /\ got = store[Target] /\ Target = part_lba + 2
    BY <1>1 DEF DiskInv, AskInv, Target
  <2> QED
    BY <1>1, <2>1 DEF DiskInv, StoreInv
<1>4. asked' \in BOOLEAN
  BY <1>1, Zenon
<1>5. StoreInv' /\ at' # "up"
  BY <1>1, <1>2 DEF ext2_init, DiskInv, StoreInv
<1>6. CASE MagicOK
  <2>1. /\ block_size' = 1024 * 2^img.log /\ inode_size' = InodeSize
        /\ blk' = img.first_data + 1 /\ blk_a' = <<>> /\ at' = "bgdt" /\ ino' = ino
    BY <1>6 DEF ext2_init
  <2>2. img.ext2 /\ part_lba = img.start
    <3>1. img.ext2 /\ part_lba + 2 = img.start + 2 /\ img.start \in Nat /\ part_lba \in Nat
      BY <1>3, <1>6, ImageFacts DEF MagicOK, DiskInv, DiskTyping
    <3> QED
      BY <3>1
  <2>3. Ext2OK(img)
    BY <2>2, ImageFacts DEF DiskInv
  <2>4. InodeSize = DiskInodeSize(img)
    BY <2>3 DEF InodeSize, DiskInodeSize, Ext2OK
  <2>5. block_size' = BlockSize(img)
    BY <2>1 DEF BlockSize
  <2>6. Mounted'
    BY <1>1, <2>1, <2>2, <2>4, <2>5 DEF Mounted, BlockSize, DiskInodeSize
  <2>7. block_size' \in Nat /\ inode_size' \in Nat /\ blk' \in Nat
    BY <2>1, <2>3, <2>4, <2>5, Ext2Sizes DEF Ext2OK
  <2>8. blk_a' \in Seq(Contents \cup {-1}) /\ Len(blk_a') = 0
    BY <2>1
  <2>9. DiskTyping'
    BY <1>1, <1>4, <2>1, <2>7, <2>8 DEF DiskInv, DiskTyping
  <2>10. AskInv'
    BY <1>1, <2>1 DEF AskInv
  <2>11. FsInv'
    BY <1>1, <1>2, <2>1, <2>6 DEF FsInv
  <2>12. BlockInv'
    <3>1. Sects' \in Nat
      BY <2>3, <2>5, Ext2Sizes DEF Sects
    <3> QED
      BY <2>8, <3>1 DEF BlockInv
  <2> QED
    BY <1>5, <2>9, <2>10, <2>11, <2>12 DEF DiskInv
<1>7. CASE ~MagicOK
  <2>1. /\ at' = "inode" /\ ino' = EXT2_ROOT_INODE
        /\ UNCHANGED <<block_size, inode_size, blk, blk_a>>
    BY <1>7 DEF ext2_init, blkVars
  <2>2. DiskTyping'
    BY <1>1, <1>4, <2>1 DEF DiskInv, DiskTyping, EXT2_ROOT_INODE
  <2>3. AskInv' /\ FsInv' /\ BlockInv'
    BY <1>1, <1>2, <2>1 DEF AskInv, FsInv, BlockInv
  <2> QED
    BY <1>5, <2>2, <2>3 DEF DiskInv
<1> QED
  BY <1>6, <1>7

(* A sector of the block arrives: it is the one asked for. *)
LEMMA ReadBlockPreserves ==
  ASSUME DiskInv, ext2_read_block, spare' = spare
  PROVE  DiskInv'
<1>1. /\ at \in {"bgdt", "table"} /\ asked /\ pc = "idle" /\ asked' = FALSE
      /\ blk_a' = Append(blk_a, got)
      /\ UNCHANGED <<img, at, part_lba, block_size, inode_size, inode_table, blk, ino, where, reads>>
      /\ UNCHANGED <<store, pc, call, got, spare>>
  BY DEF ext2_read_block, Returned, ideVars, fsVars, inoVars
<1>2. Len(blk_a) < Sects
  BY <1>1 DEF DiskInv, AskInv
<1>3. /\ Target = part_lba + blk * Sects + Len(blk_a) /\ Target \in Lbas
      /\ at = "table" => Target \notin SpareLbas
  BY <1>1, <1>2, TargetInBlock
<1>4. got = Target
  <2>1. got = store[Target]
    BY <1>1 DEF DiskInv, AskInv
  <2> QED
    BY <1>1, <1>3, <2>1 DEF DiskInv, StoreInv
<1>5. blk_a \in Seq(Contents \cup {-1}) /\ Len(blk_a) \in Nat /\ got \in Contents
  BY <1>3, <1>4 DEF DiskInv, DiskTyping, Contents
<1>6. /\ blk_a' \in Seq(Contents \cup {-1}) /\ Len(blk_a') = Len(blk_a) + 1
      /\ \A k \in 1..Len(blk_a) : blk_a'[k] = blk_a[k]
      /\ blk_a'[Len(blk_a) + 1] = got
  BY <1>1, <1>5
<1>7. DiskTyping'
  <2>1. asked' \in BOOLEAN
    BY <1>1, Zenon
  <2> QED
    BY <1>1, <1>6, <2>1 DEF DiskInv, DiskTyping
<1>8. StoreInv' /\ FsInv'
  BY <1>1 DEF DiskInv, StoreInv, FsInv, Mounted, Described, InodePlace
<1>9. AskInv'
  BY <1>1 DEF AskInv
<1>10. BlockInv'
  <2>1. DiskTyping /\ Mounted
    BY <1>1 DEF DiskInv, FsInv, Described
  <2>2. Sects' = Sects /\ Sects \in Nat /\ part_lba \in Nat /\ blk \in Nat
    BY <1>1, <2>1, MountedSects DEF Sects, DiskTyping
  <2>3. blk * Sects \in Nat
    BY <2>2
  <2>4. ASSUME NEW k \in 1..Len(blk_a') PROVE blk_a'[k] = part_lba + blk * Sects + k - 1
    <3>1. CASE k \in 1..Len(blk_a)
      BY <1>1, <1>6, <3>1 DEF DiskInv, BlockInv
    <3>2. CASE k = Len(blk_a) + 1
      BY <1>3, <1>4, <1>5, <1>6, <2>2, <2>3, <3>2
    <3> QED
      BY <1>5, <1>6, <3>1, <3>2
  <2> QED
    BY <1>1, <1>2, <1>5, <1>6, <2>2, <2>4 DEF BlockInv
<1> QED
  BY <1>7, <1>8, <1>9, <1>10 DEF DiskInv

(* The first sector of the block after the superblock's has the group      *)
(* descriptors.                                                            *)
LEMMA BgdPreserves ==
  ASSUME DiskInv, LoadBgd, spare' = spare
  PROVE  DiskInv'
<1>1. /\ at = "bgdt" /\ Len(blk_a) = Sects /\ ~asked /\ at' = "inode" /\ ino' = EXT2_ROOT_INODE
      /\ inode_table' = (IF blk_a[1] = BgdSector THEN img.inode_table ELSE 0)
      /\ UNCHANGED <<img, asked, part_lba, block_size, inode_size, blk, blk_a, where, reads>>
      /\ UNCHANGED <<store, pc, call, got, spare>>
  BY DEF LoadBgd, BlockRead, ideVars, blkVars
<1>2. DiskTyping /\ Mounted /\ blk = img.first_data + 1 /\ reads < MaxInodes
  BY <1>1 DEF DiskInv, FsInv
<1>3. Ext2OK(img) /\ Sects \in Nat \ {0} /\ Sects = 2 * 2^img.log /\ part_lba = img.start
      /\ 2^img.log \in Nat /\ (img.log = 0 => 2^img.log = 1) /\ img.start \in Nat
  BY <1>2, MountedSects, Ext2Sizes, ImageFacts DEF Mounted
<1>4. blk_a[1] = part_lba + blk * Sects + 1 - 1
  BY <1>1, <1>3 DEF DiskInv, BlockInv
<1>5. blk = (IF img.log = 0 THEN 2 ELSE 1)
  BY <1>2, <1>3 DEF Ext2OK
<1>6. blk_a[1] = BgdSector
  <2> DEFINE e == 2^img.log
  <2>1. BgdSector = img.start + (IF img.log = 0 THEN 4 ELSE 2 * e)
    BY DEF BgdSector
  <2>2. e \in Nat /\ (img.log = 0 => e = 1) /\ Sects = 2 * e
    BY <1>3
  <2> HIDE DEF e
  <2>3. blk * Sects = (IF img.log = 0 THEN 4 ELSE 2 * e)
    BY <1>5, <2>2
  <2>4. blk * Sects \in Nat
    BY <2>2, <2>3
  <2> QED
    BY <1>3, <1>4, <2>1, <2>3, <2>4
<1>7. inode_table' = img.inode_table /\ inode_table' \in Nat
  BY <1>1, <1>3, <1>6 DEF Ext2OK
<1>8. DiskTyping'
  BY <1>1, <1>7 DEF DiskInv, DiskTyping, EXT2_ROOT_INODE
<1>9. Described'
  BY <1>1, <1>2, <1>7 DEF Described, Mounted
<1>10. StoreInv'
  BY <1>1 DEF DiskInv, StoreInv
<1>11. AskInv' /\ FsInv' /\ BlockInv'
  BY <1>1, <1>2, <1>9 DEF DiskInv, AskInv, FsInv, BlockInv
<1> QED
  BY <1>8, <1>10, <1>11 DEF DiskInv

(* Looking for an inode: the division, the block it is in, the next inode. *)
LEMMA InodeStepsPreserve ==
  ASSUME IdeInv, DiskInv, DivideError \/ AskInode \/ ReadInode, spare' = spare
  PROVE  DiskInv'
<1>1. CASE DivideError
  <2>1. /\ at = "inode" /\ at' = "halt"
        /\ UNCHANGED <<img, asked, part_lba, block_size, inode_size, inode_table, blk, blk_a>>
        /\ UNCHANGED <<ino, where, reads, store, pc, call, got, spare>>
    BY <1>1 DEF DivideError, ideVars, fsVars, blkVars, inoVars
  <2>2. DiskTyping'
    BY <2>1 DEF DiskInv, DiskTyping
  <2>3. StoreInv'
    BY <2>1 DEF DiskInv, StoreInv
  <2>4. AskInv' /\ FsInv' /\ BlockInv'
    BY <2>1 DEF DiskInv, AskInv, FsInv, BlockInv
  <2> QED
    BY <2>2, <2>3, <2>4 DEF DiskInv
<1>2. CASE AskInode
  <2>1. /\ at = "inode" /\ inode_size # 0 /\ at' = "table" /\ blk_a' = <<>>
        /\ blk' = inode_table + (ino - 1) \div (block_size \div inode_size)
        /\ UNCHANGED <<img, asked, part_lba, block_size, inode_size, inode_table>>
        /\ UNCHANGED <<ino, where, reads, store, pc, call, got, spare>>
    BY <1>2 DEF AskInode, InodeIndex, InodesInBlock, ideVars, fsVars, inoVars
  <2>2. DiskTyping /\ Described /\ Mounted /\ ino \in Inodes \cup {EXT2_ROOT_INODE} /\ ~asked
    BY <2>1 DEF DiskInv, FsInv, AskInv, Described
  <2>3. ino - 1 \in Nat
    BY <2>2, DiskAssumption DEF EXT2_ROOT_INODE
  <2>4. blk' = InodeBlock(img, ino)
    BY <2>1, <2>2 DEF InodeBlock, Described, Mounted
  <2>5. blk' \in Nat
    <3>1. block_size \div inode_size \in Nat \ {0} /\ inode_table \in Nat
      BY <2>2, MountedSects, Ext2Sizes DEF Mounted, DiskTyping
    <3>2. (ino - 1) \div (block_size \div inode_size) \in Nat
      BY <2>3, <3>1, DivMod
    <3> QED
      BY <2>1, <3>1, <3>2
  <2>6. blk_a' \in Seq(Contents \cup {-1}) /\ Len(blk_a') = 0
    BY <2>1
  <2>7. DiskTyping'
    BY <2>1, <2>5, <2>6 DEF DiskInv, DiskTyping
  <2>8. StoreInv'
    BY <2>1 DEF DiskInv, StoreInv
  <2>9. Described' /\ Mounted'
    BY <2>1, <2>2 DEF Described, Mounted
  <2>10. AskInv'
    BY <2>1, <2>2 DEF DiskInv, AskInv
  <2>11. FsInv'
    BY <2>1, <2>2, <2>4, <2>9 DEF DiskInv, FsInv
  <2>12. BlockInv'
    <3>1. Sects' = Sects /\ Sects \in Nat
      BY <2>1, <2>2, MountedSects DEF Sects
    <3> QED
      BY <2>6, <3>1 DEF BlockInv
  <2> QED
    BY <2>7, <2>8, <2>10, <2>11, <2>12 DEF DiskInv
<1>3. CASE ReadInode
  <2>1. /\ at = "up" /\ pc = "idle" /\ reads < MaxInodes /\ ino' \in Inodes /\ at' = "inode"
        /\ UNCHANGED <<img, asked, part_lba, block_size, inode_size, inode_table, blk, blk_a>>
        /\ UNCHANGED <<reads, store, pc, call, got, spare>>
    BY <1>3 DEF ReadInode, ideVars, fsVars, blkVars
  <2>2. Described /\ ~asked
    BY <2>1 DEF DiskInv, FsInv, AskInv
  <2>3. DiskTyping'
    BY <2>1, DiskAssumption DEF DiskInv, DiskTyping
  <2>4. Described'
    BY <2>1, <2>2 DEF Described, Mounted
  <2>5. StoreInv'
    <3>1. call.op # "write"
      BY <2>1 DEF IdeInv, CallInv, NoCall
    <3> QED
      BY <2>1, <3>1 DEF DiskInv, StoreInv
  <2>6. AskInv' /\ FsInv' /\ BlockInv'
    BY <2>1, <2>2, <2>4 DEF AskInv, FsInv, BlockInv
  <2> QED
    BY <2>3, <2>5, <2>6 DEF DiskInv
<1> QED
  BY <1>1, <1>2, <1>3

(* ext2_read_inode takes the inode from the block where ext2 keeps it. *)
LEMMA InodePreserves ==
  ASSUME DiskInv, ext2_read_inode, spare' = spare
  PROVE  DiskInv'
<1> DEFINE I    == block_size \div inode_size
           j    == ino - 1
           off  == (j % I) * inode_size
           byte == img.inode_table * BlockSize(img) + j * DiskInodeSize(img)
<1>1. /\ at = "table" /\ Len(blk_a) = Sects /\ ~asked /\ at' = "up" /\ reads' = reads + 1
      /\ where' = [sector |-> blk_a[off \div SECTOR + 1], byte |-> off % SECTOR]
      /\ UNCHANGED <<img, asked, part_lba, block_size, inode_size, inode_table, blk, blk_a, ino>>
      /\ UNCHANGED <<store, pc, call, got, spare>>
  BY DEF ext2_read_inode, BlockRead, InodeIndex, InodesInBlock, ideVars, fsVars, blkVars
<1>2. /\ DiskTyping /\ Described /\ Mounted /\ ino \in Inodes \cup {EXT2_ROOT_INODE}
      /\ blk = InodeBlock(img, ino) /\ reads < MaxInodes
  BY <1>1 DEF DiskInv, FsInv, Described
<1>3. /\ Sects \in Nat \ {0} /\ inode_size \in Nat \ {0} /\ I \in Nat \ {0}
      /\ SECTOR * Sects = inode_size * I /\ BlockSize(img) = SECTOR * Sects
      /\ inode_size = DiskInodeSize(img) /\ block_size = BlockSize(img)
      /\ img.inode_table \in Nat /\ part_lba = img.start /\ img.start \in Nat
  BY <1>2, MountedSects, Ext2Sizes, ImageFacts DEF Mounted, Ext2OK
<1>4. j \in Nat
  BY <1>2, DiskAssumption DEF EXT2_ROOT_INODE
<1>5. blk = img.inode_table + j \div I
  BY <1>2, <1>3 DEF InodeBlock
<1>6. /\ off \div SECTOR \in 0..(Sects - 1)
      /\ byte \div SECTOR = blk * Sects + off \div SECTOR
      /\ byte % SECTOR = off % SECTOR
  <2> DEFINE T == img.inode_table
             b == T * (SECTOR * Sects) + j * inode_size
  <2> HIDE DEF I, j
  <2>1. T \in Nat
    BY <1>3
  <2>2. byte = b
    BY <1>3
  <2> HIDE DEF T
  <2>3. /\ off \div SECTOR \in 0..(Sects - 1)
        /\ b \div SECTOR = (T + j \div I) * Sects + off \div SECTOR
        /\ b % SECTOR = off % SECTOR
    <3>1. /\ Sects \in Nat \ {0} /\ inode_size \in Nat \ {0} /\ I \in Nat \ {0}
          /\ SECTOR * Sects = inode_size * I
      BY <1>3
    <3>2. InodeFits(Sects, inode_size, I, T, j)
      BY <1>4, <2>1, <3>1, InodeArithmetic, Zenon
    <3> QED
      BY <3>2, Zenon DEF InodeFits
  <2>4. T + j \div I = blk
    BY <1>5 DEF T
  <2> HIDE DEF b, off, byte
  <2> QED
    BY <2>2, <2>3, <2>4
<1>7. InodePlace(ino) = [sector |-> img.start + byte \div SECTOR, byte |-> byte % SECTOR]
  BY DEF InodePlace
<1> HIDE DEF byte, off
<1>8. blk_a[off \div SECTOR + 1] = img.start + byte \div SECTOR
  <2> DEFINE o == off \div SECTOR
  <2>1. o \in 0..(Sects - 1) /\ byte \div SECTOR = blk * Sects + o
    BY <1>6
  <2> HIDE DEF o
  <2>2. o + 1 \in 1..Len(blk_a) /\ o \in Nat
    BY <1>1, <1>3, <2>1
  <2>3. blk_a[o + 1] = part_lba + blk * Sects + (o + 1) - 1
    BY <1>1, <2>2 DEF DiskInv, BlockInv
  <2>4. blk * Sects \in Nat
    BY <1>2, <1>3 DEF DiskTyping
  <2>5. blk_a[o + 1] = img.start + (blk * Sects + o)
    BY <1>3, <2>2, <2>3, <2>4
  <2> QED
    BY <2>1, <2>5 DEF o
<1>9. where' = InodePlace(ino)
  BY <1>1, <1>6, <1>7, <1>8
<1>10. InodePlace(ino)' = InodePlace(ino)
  BY <1>1 DEF InodePlace
<1>11. reads' \in 0..MaxInodes
  BY <1>1, <1>2, DiskAssumption DEF DiskTyping
<1>12. DiskTyping'
  BY <1>1, <1>2, <1>11 DEF DiskTyping
<1>13. Described'
  BY <1>1, <1>2 DEF Described, Mounted
<1>14. StoreInv'
  BY <1>1 DEF DiskInv, StoreInv
<1>15. FsInv'
  BY <1>1, <1>2, <1>9, <1>10, <1>13 DEF FsInv
<1>16. AskInv' /\ BlockInv'
  BY <1>1 DEF AskInv, BlockInv
<1> QED
  BY <1>12, <1>14, <1>15, <1>16 DEF DiskInv

(* Calls for the sectors outside the file system's structures. *)
LEMMA SparePreserves ==
  ASSUME IdeInv, DiskInv, ReadSector \/ WriteSector
  PROVE  DiskInv' /\ IdeNext
<1>1. PICK op, lba, data :
        /\ lba \in SpareLbas /\ Begin(op, lba, data)
        /\ (op = "read" /\ data = 0) \/ (op = "write" /\ data \in Writes)
  BY DEF ReadSector, WriteSector, ide_read_sector, ide_write_sector
<1>2. /\ at = "up" /\ spare < MaxSpare /\ spare' = spare + 1
      /\ UNCHANGED <<img, at, asked, part_lba, block_size, inode_size, inode_table, blk, blk_a>>
      /\ UNCHANGED <<ino, where, reads>>
  BY DEF ReadSector, WriteSector, diskVars, fsVars, blkVars, inoVars
<1>3. /\ pc' = "select" /\ call'.lba = lba /\ UNCHANGED <<store, got>>
  BY <1>1 DEF Begin, devVars
<1>4. lba \in Lbas
  BY <1>1, DiskAssumption
<1>5. IdeNext
  <2>1. CASE op = "read" /\ data = 0
    BY <1>1, <1>4, <2>1 DEF IdeNext, ide_read_sector
  <2>2. CASE op = "write" /\ data \in Writes
    BY <1>1, <1>4, <2>2 DEF IdeNext, ide_write_sector
  <2> QED
    BY <1>1, <2>1, <2>2
<1>6. ~asked
  BY <1>2 DEF DiskInv, AskInv
<1>7. DiskTyping'
  BY <1>2, DiskAssumption DEF DiskInv, DiskTyping
<1>8. StoreInv'
  BY <1>1, <1>2, <1>3 DEF DiskInv, StoreInv
<1>9. AskInv' /\ BlockInv'
  BY <1>2, <1>6 DEF AskInv, BlockInv
<1>10. FsInv'
  BY <1>2 DEF DiskInv, FsInv, Described, Mounted, InodePlace
<1> QED
  BY <1>5, <1>7, <1>8, <1>9, <1>10 DEF DiskInv

(* What a step of the driver or the controller does to a call. *)
LEMMA IdeWork ==
  ASSUME IdeInv, Driver \/ Controller
  PROVE  /\ pc # "idle"
         /\ \/ pc' # "idle" /\ call' = call /\ got' = got
            \/ pc' = "idle" /\ call' = NoCall /\ (call.op = "read" => got' = store[call.lba])
         /\ \/ store' = store
            \/ call.op = "write" /\ store' = [store EXCEPT ![call.lba] = call.data]
<1>1. CASE ide_select_sector \/ Command \/ DrqSeen \/ Flush
  BY <1>1 DEF ide_select_sector, Command, DrqSeen, Flush, devVars
<1>2. CASE InWord
  BY <1>2, InWordIs
<1>3. CASE OutWord
  BY <1>3, OutWordIs
<1>4. CASE Flushed
  <2>1. pc = "flushed" /\ pc' = "idle" /\ call' = NoCall /\ store' = store
    BY <1>4 DEF Flushed, devVars
  <2>2. call.op = "write"
    BY <2>1 DEF IdeInv, CallInv
  <2> QED
    BY <2>1, <2>2
<1>5. CASE DevDone
  <2>1. pc \in {"flush", "flushed"} => call.op = "write"
    BY DEF IdeInv, CallInv
  <2> QED
    BY <1>5, <2>1, DoneIs
<1>6. CASE DevFail
  <2>1. dev.st = "busy" /\ UNCHANGED <<store, pc, call, got>>
    BY <1>6 DEF DevFail
  <2>2. pc # "idle"
    BY <2>1 DEF IdeInv, DevInv
  <2> QED
    BY <2>1, <2>2
<1> QED
  BY <1>1, <1>2, <1>3, <1>4, <1>5, <1>6 DEF Driver, Controller

(* While the driver works the caller waits. *)
LEMMA WorkPreserves ==
  ASSUME IdeInv, DiskInv, Driver \/ Controller, UNCHANGED <<diskVars, spare>>
  PROVE  DiskInv'
<1>1. /\ UNCHANGED <<img, at, asked, part_lba, block_size, inode_size, inode_table, blk, blk_a>>
      /\ UNCHANGED <<ino, where, reads, spare>>
  BY DEF diskVars, fsVars, blkVars, inoVars
<1>2. /\ pc # "idle"
      /\ \/ pc' # "idle" /\ call' = call /\ got' = got
         \/ pc' = "idle" /\ call' = NoCall /\ (call.op = "read" => got' = store[call.lba])
      /\ \/ store' = store
         \/ call.op = "write" /\ store' = [store EXCEPT ![call.lba] = call.data]
  BY IdeWork
<1>3. store \in [Lbas -> Contents]
  BY DEF IdeInv, IdeTyping
<1>4. DiskTyping'
  BY <1>1 DEF DiskInv, DiskTyping
<1>5. StoreInv'
  <2>1. call'.op = "write" => call' = call
    BY <1>2 DEF NoCall
  <2>2. call.op = "write" => at = "up" /\ call.lba \in SpareLbas
    BY DEF DiskInv, StoreInv
  <2>3. ASSUME NEW l \in Lbas, l \notin SpareLbas \/ at \in {"mbr", "super", "bgdt"}
        PROVE  store'[l] = l
    <3>1. store[l] = l
      BY <2>3 DEF DiskInv, StoreInv
    <3>2. store'[l] = store[l]
      BY <1>2, <1>3, <2>2, <2>3
    <3> QED
      BY <3>1, <3>2
  <2> QED
    BY <1>1, <2>1, <2>2, <2>3 DEF StoreInv
<1>6. AskInv'
  <2>1. (asked /\ at # "up" /\ call.op = "read" /\ call.lba = Target) \/ (at = "up" /\ ~asked)
    BY <1>2 DEF DiskInv, AskInv
  <2>2. Target' = Target /\ Sects' = Sects
    BY <1>1 DEF Target, Sects
  <2> QED
    BY <1>1, <1>2, <2>1, <2>2 DEF DiskInv, AskInv
<1>7. FsInv'
  BY <1>1 DEF DiskInv, FsInv, Described, Mounted, InodePlace
<1>8. BlockInv'
  BY <1>1 DEF DiskInv, BlockInv, Sects
<1> QED
  BY <1>4, <1>5, <1>6, <1>7, <1>8 DEF DiskInv

-----------------------------------------------------------------------------
(* The results. *)

IInv == IdeInv /\ DiskInv

(* What the callers do to the driver is what IdeNext allows. *)
LEMMA StepDisk ==
  ASSUME IInv, [Next]_vars
  PROVE  DiskInv' /\ [IdeNext]_ideVars
<1> USE DEF IInv
<1>1. ASSUME Boot \/ Inode \/ ReadInode, UNCHANGED spare
      PROVE  DiskInv' /\ [IdeNext]_ideVars
  <2>1. CASE AskMbr \/ AskSuper \/ AskBlock
    BY <1>1, <2>1, AsksPreserve
  <2>2. CASE mbr_find_partition
    BY <1>1, <2>2, PartitionPreserves DEF mbr_find_partition, Returned
  <2>3. CASE ext2_init
    BY <1>1, <2>3, SuperPreserves DEF ext2_init, Returned
  <2>4. CASE LoadBgd
    BY <1>1, <2>4, BgdPreserves DEF LoadBgd
  <2>5. CASE DivideError \/ AskInode \/ ReadInode
    BY <1>1, <2>5, InodeStepsPreserve DEF DivideError, AskInode, ReadInode
  <2>6. CASE ext2_read_block
    BY <1>1, <2>6, ReadBlockPreserves DEF ext2_read_block, Returned
  <2>7. CASE ext2_read_inode
    BY <1>1, <2>7, InodePreserves DEF ext2_read_inode
  <2> QED
    BY <1>1, <2>1, <2>2, <2>3, <2>4, <2>5, <2>6, <2>7 DEF Boot, Inode
<1>2. CASE ReadSector \/ WriteSector
  BY <1>2, SparePreserves
<1>3. CASE (Driver \/ Controller) /\ UNCHANGED <<diskVars, spare>>
  BY <1>3, WorkPreserves DEF IdeNext
<1>4. CASE UNCHANGED vars
  <2>1. /\ UNCHANGED <<img, at, asked, part_lba, block_size, inode_size, inode_table, blk, blk_a>>
        /\ UNCHANGED <<ino, where, reads, spare, store, pc, call, got>> /\ UNCHANGED ideVars
    BY <1>4 DEF vars, ideVars, diskVars, fsVars, blkVars, inoVars
  <2>2. DiskTyping' /\ BlockInv'
    BY <2>1 DEF DiskInv, DiskTyping, BlockInv, Sects
  <2>3. StoreInv'
    BY <2>1 DEF DiskInv, StoreInv
  <2>4. AskInv'
    BY <2>1 DEF DiskInv, AskInv, Target, Sects
  <2>5. FsInv'
    BY <2>1 DEF DiskInv, FsInv, Described, Mounted, InodePlace
  <2> QED
    BY <2>1, <2>2, <2>3, <2>4, <2>5 DEF DiskInv
<1> QED
  BY <1>1, <1>2, <1>3, <1>4 DEF Next

(* The machine starts with an idle controller and nothing read. *)
LEMMA InitInv ==
  ASSUME Init
  PROVE  IInv
<1>1. /\ store = [l \in Lbas |-> l] /\ dev = DevIdle /\ pc = "idle" /\ call = NoCall
      /\ regs = [head |-> 0, hi |-> 0, mid |-> 0, lo |-> 0]
      /\ buf = <<>> /\ got = 0 /\ failed = FALSE
  BY DEF Init, IdeInit
<1>2. IdeTyping
  <2>1. store \in [Lbas -> Contents]
    BY <1>1 DEF Contents
  <2>2. regs \in [head : 0..(NIBBLE - 1), hi : 0..(BYTE - 1), mid : 0..(BYTE - 1), lo : 0..(BYTE - 1)]
    BY <1>1 DEF NIBBLE, BYTE
  <2>3. /\ dev \in [st : Status, cmd : {"none", "read", "write", "flush"}, words : Seq(WordType)]
        /\ Len(dev.words) = 0
    BY <1>1 DEF DevIdle, Status
  <2>4. buf \in Seq(WordType) /\ Len(buf) = 0
    BY <1>1
  <2>5. failed \in BOOLEAN
    BY <1>1, Zenon
  <2> QED
    BY <1>1, <2>1, <2>2, <2>3, <2>4, <2>5, IdeAssumption DEF IdeTyping
<1>3. CallInv /\ DevInv /\ BufInv
  BY <1>1 DEF CallInv, DevInv, BufInv, DevIdle
<1>4. DiskTyping
  <2>1. asked \in BOOLEAN
    BY DEF Init
  <2>2. blk_a \in Seq(Contents \cup {-1})
    BY DEF Init
  <2> QED
    BY <2>1, <2>2, DiskAssumption DEF Init, DiskTyping
<1>5. StoreInv
  BY <1>1 DEF StoreInv, NoCall
<1>6. AskInv /\ FsInv /\ BlockInv
  BY <1>1, DiskAssumption DEF Init, AskInv, FsInv, BlockInv
<1> QED
  BY <1>2, <1>3, <1>4, <1>5, <1>6 DEF IInv, IdeInv, DiskInv

(* Whatever the controller does, the driver is where it has to be, and the *)
(* kernel has read the sectors it asked for.                               *)
THEOREM Invariance == Spec => []IInv
<1>1. Init => IInv
  BY InitInv
<1>2. IInv /\ [Next]_vars => IInv'
  BY StepDisk, IdeStepInv DEF IInv
<1> QED
  BY <1>1, <1>2, PTL DEF Spec

(* Every variable keeps its type. *)
THEOREM TypeCorrect == Spec => []TypeOK
<1>1. IInv => TypeOK
  <2> SUFFICES ASSUME IInv PROVE TypeOK
    OBVIOUS
  <2>1. call.op \in {"none", "read", "write"}
    <3>1. CASE pc = "idle"
      BY <3>1 DEF IInv, IdeInv, CallInv, NoCall
    <3>2. CASE pc # "idle"
      BY <3>2, CallParts DEF IInv, IdeInv, CallInv
    <3> QED
      BY <3>1, <3>2
  <2>2. IdeTypeOK
    BY <2>1 DEF IInv, IdeInv, IdeTyping, IdeTypeOK
  <2> QED
    BY <2>2 DEF IInv, DiskInv, DiskTyping, TypeOK
<1> QED
  BY <1>1, Invariance, PTL

(* Whatever the disk and its sizes, once an inode has been read its bytes  *)
(* are those that ext2 keeps it in, and nothing is taken for an inode on a *)
(* disk without an ext2 file system.                                       *)
THEOREM InodeCorrect == Spec => []InodeLocated
<1>1. IInv => InodeLocated
  BY DEF IInv, DiskInv, FsInv, Described, Mounted, InodeLocated
<1> QED
  BY <1>1, Invariance, PTL

(* Every behaviour of the driver, under these callers and with a           *)
(* controller that may fail, is a behaviour of Sectors.                    *)
THEOREM Refinement == Spec => RefinesSectors
<1>1. Init => SD!Init
  <2> SUFFICES ASSUME Init PROVE SD!Init
    OBVIOUS
  <2>1. store \in [Lbas -> Contents] /\ Request = SD!None /\ got = 0 /\ failed = FALSE
    BY DEF Init, IdeInit, Contents, Request, SD!None
  <2> QED
    BY <2>1 DEF SD!Init
<1>2. IInv /\ [Next]_vars => [SD!Next]_(SD!vars)
  BY StepDisk, IdeSimulates DEF IInv
<1> QED
  BY <1>1, <1>2, Invariance, PTL DEF Spec, RefinesSectors, SD!Spec
=============================================================================
