--------------------------- MODULE KeyboardProofs ----------------------------
(***************************************************************************)
(* kb_getchar reads a stable slot and the ring buffer is a bounded queue,  *)
(* for any size of it and any number of keys, with IRQ1 between any two    *)
(* steps of kb_getchar.                                                    *)
(***************************************************************************)
EXTENDS Keyboard, SequenceTheorems, TLAPS

(* The slots between tail and head. *)
Occupied(i) == IF kb_tail <= kb_head THEN kb_tail <= i /\ i < kb_head
                                     ELSE kb_tail <= i \/ i < kb_head

(* What kb_getchar knows of kb_head is stale but safe: IRQ1 only makes a   *)
(* non-empty buffer fuller.                                                *)
HeadSeen == pc = "test" /\ head_seen # kb_tail => kb_head # kb_tail

SlotsFilled == \A i \in Index : Occupied(i) => kb_buf[i] \in Chars

IInv == TypeOK /\ ReadStable /\ HeadSeen /\ SlotsFilled

-----------------------------------------------------------------------------
(* The modulo of NextIndex is a wrap-around at the last slot. *)
LEMMA NextIndexWraps ==
  ASSUME NEW i \in Index
  PROVE  /\ NextIndex(i) = IF i = KB_BUF_SIZE - 1 THEN 0 ELSE i + 1
         /\ NextIndex(i) \in Index
<1> USE KeyboardAssumption DEF Index
<1>1. CASE i = KB_BUF_SIZE - 1
  <2>1. KB_BUF_SIZE % KB_BUF_SIZE = 0
    OBVIOUS
  <2> QED
    BY <1>1, <2>1 DEF NextIndex
<1>2. CASE i # KB_BUF_SIZE - 1
  <2>1. i + 1 \in 0..(KB_BUF_SIZE - 1)
    BY <1>2
  <2>2. (i + 1) % KB_BUF_SIZE = i + 1
    BY <2>1
  <2> QED
    BY <1>2, <2>1, <2>2 DEF NextIndex
<1> QED
  BY <1>1, <1>2

(* At boot the buffer is empty and nobody reads it. *)
LEMMA InitInv == Init => IInv
<1> SUFFICES ASSUME Init PROVE IInv
  OBVIOUS
<1> USE KeyboardAssumption DEF Init, Index
<1>1. TypeOK
  <2>1. kb_buf \in [Index -> Chars \cup {0}] /\ 0 \in Index
    OBVIOUS
  <2>2. <<>> \in Seq(Chars)
    OBVIOUS
  <2> QED
    BY <2>1, <2>2 DEF TypeOK
<1>2. ReadStable /\ HeadSeen /\ SlotsFilled
  BY DEF ReadStable, HeadSeen, SlotsFilled, Occupied
<1> QED
  BY <1>1, <1>2 DEF IInv

(* keyboard_handler writes the slot at kb_head, never the one at kb_tail   *)
(* of a non-empty buffer.                                                  *)
LEMMA KeyPreserves ==
  ASSUME IInv, NEW ch \in Chars, Key(ch)
  PROVE  IInv'
<1> USE KeyboardAssumption
<1>1. keys' \in 0..MaxKeys
  BY DEF Key, IInv, TypeOK
<1>2. CASE UNCHANGED kbVars
  <2>1. TypeOK'
    BY <1>1, <1>2 DEF Key, IInv, TypeOK, kbVars, rdVars
  <2>2. ReadStable' /\ HeadSeen' /\ SlotsFilled'
    BY <1>2 DEF Key, IInv, ReadStable, HeadSeen, SlotsFilled, Occupied, kbVars, rdVars
  <2> QED
    BY <2>1, <2>2 DEF IInv
<1>3. CASE ~IsCtrlC(ch) /\ ~Full
  <2>1. /\ kb_buf' = [kb_buf EXCEPT ![kb_head] = ch]
        /\ kb_head' = NextIndex(kb_head) /\ kb_head' # kb_tail
        /\ UNCHANGED <<kb_tail, lost, sigint, ctrl_held, pc, head_seen, c, out>>
    BY <1>3 DEF Key, Full, rdVars
  <2>2. kb_head \in Index /\ kb_tail \in Index /\ kb_buf \in [Index -> Chars \cup {0}]
    BY DEF IInv, TypeOK
  <2>3. /\ kb_head' = IF kb_head = KB_BUF_SIZE - 1 THEN 0 ELSE kb_head + 1
        /\ kb_head' \in Index
    BY <2>1, <2>2, NextIndexWraps
  <2>4. TypeOK'
    BY <1>1, <2>1, <2>2, <2>3 DEF IInv, TypeOK
  <2>5. ReadStable'
    BY <2>1, <2>2 DEF IInv, ReadStable
  <2>6. HeadSeen'
    BY <2>1 DEF HeadSeen
  <2>7. SlotsFilled'
    <3> SUFFICES ASSUME NEW i \in Index, Occupied(i)' PROVE kb_buf'[i] \in Chars
      BY DEF SlotsFilled
    <3>1. i = kb_head \/ Occupied(i)
      BY <2>1, <2>2, <2>3 DEF Occupied, Index
    <3> QED
      BY <2>1, <2>2, <3>1 DEF IInv, SlotsFilled
  <2> QED
    BY <2>4, <2>5, <2>6, <2>7 DEF IInv
<1> QED
  BY <1>2, <1>3 DEF Key

(* The steps of kb_getchar. *)
LEMMA ReaderPreserves ==
  ASSUME IInv, Reader
  PROVE  IInv'
<1> USE KeyboardAssumption
<1>1. CASE LoadHead
  BY <1>1 DEF LoadHead, kbVars, IInv, TypeOK, ReadStable, HeadSeen, SlotsFilled, Occupied
<1>2. CASE TestEmpty
  <2>1. TypeOK'
    BY <1>2 DEF TestEmpty, kbVars, IInv, TypeOK
  <2>2. ReadStable' /\ HeadSeen'
    BY <1>2 DEF TestEmpty, SeenEmpty, kbVars, IInv, ReadStable, HeadSeen
  <2>3. SlotsFilled'
    BY <1>2 DEF TestEmpty, kbVars, IInv, SlotsFilled, Occupied
  <2> QED
    BY <2>1, <2>2, <2>3 DEF IInv
<1>3. CASE LoadChar
  <2>1. kb_head # kb_tail /\ kb_tail \in Index /\ kb_head \in Index
    BY <1>3 DEF LoadChar, IInv, ReadStable, TypeOK
  <2>2. Occupied(kb_tail)
    BY <2>1 DEF Occupied, Index
  <2>3. c' = kb_buf[kb_tail] /\ c' \in Chars
    BY <1>3, <2>1, <2>2 DEF LoadChar, IInv, SlotsFilled
  <2>4. TypeOK'
    BY <1>3, <2>3 DEF LoadChar, kbVars, IInv, TypeOK
  <2>5. ReadStable' /\ HeadSeen'
    BY <1>3, <2>1, <2>3 DEF LoadChar, kbVars, ReadStable, HeadSeen
  <2>6. SlotsFilled'
    BY <1>3 DEF LoadChar, kbVars, IInv, SlotsFilled, Occupied
  <2> QED
    BY <2>4, <2>5, <2>6 DEF IInv
<1>4. CASE StoreTail
  <2>1. /\ kb_tail' = NextIndex(kb_tail) /\ pc' = "idle" /\ out' = Append(out, c)
        /\ UNCHANGED <<kb_buf, kb_head, ctrl_held, head_seen, c, lost, sigint, keys>>
    BY <1>4 DEF StoreTail
  <2>2. kb_head # kb_tail /\ kb_tail \in Index /\ kb_head \in Index /\ c \in Chars
    BY <1>4 DEF StoreTail, IInv, ReadStable, TypeOK
  <2>3. /\ kb_tail' = IF kb_tail = KB_BUF_SIZE - 1 THEN 0 ELSE kb_tail + 1
        /\ kb_tail' \in Index
    BY <2>1, <2>2, NextIndexWraps
  <2>4. TypeOK'
    BY <2>1, <2>2, <2>3 DEF IInv, TypeOK
  <2>5. ReadStable' /\ HeadSeen'
    BY <2>1 DEF ReadStable, HeadSeen
  <2>6. SlotsFilled'
    <3> SUFFICES ASSUME NEW i \in Index, Occupied(i)' PROVE kb_buf[i] \in Chars
      BY <2>1 DEF SlotsFilled
    <3>1. Occupied(i)
      BY <2>1, <2>2, <2>3 DEF Occupied, Index
    <3> QED
      BY <3>1 DEF IInv, SlotsFilled
  <2> QED
    BY <2>4, <2>5, <2>6 DEF IInv
<1> QED
  BY <1>1, <1>2, <1>3, <1>4 DEF Reader

(* Every scancode and every access of kb_getchar keeps the invariant. *)
LEMMA StepInv == IInv /\ [Next]_vars => IInv'
<1> SUFFICES ASSUME IInv, [Next]_vars PROVE IInv'
  OBVIOUS
<1>1. CASE CtrlPress \/ CtrlRelease
  BY <1>1 DEF CtrlPress, CtrlRelease, kbVars, rdVars, IInv, TypeOK, ReadStable, HeadSeen,
              SlotsFilled, Occupied
<1>2. ASSUME NEW ch \in Chars, Key(ch) PROVE IInv'
  BY <1>2, KeyPreserves
<1>3. CASE Reader
  BY <1>3, ReaderPreserves
<1>4. CASE UNCHANGED vars
  BY <1>4 DEF vars, kbVars, rdVars, IInv, TypeOK, ReadStable, HeadSeen, SlotsFilled, Occupied
<1> QED
  BY <1>1, <1>2, <1>3, <1>4 DEF Next, Handler

-----------------------------------------------------------------------------
(* The inductive invariant holds in every reachable state. *)
THEOREM Invariance == Spec => []IInv
BY InitInv, StepInv, PTL DEF Spec

(* The slot that kb_getchar reads holds a character and is not overwritten *)
(* before kb_tail has moved past it.                                       *)
THEOREM ReadCorrect == Spec => []ReadStable
<1>1. IInv => ReadStable
  BY DEF IInv
<1> QED
  BY <1>1, Invariance, PTL

(* Every variable keeps its type: the indices never leave the buffer.      *)
THEOREM TypeCorrect == Spec => []TypeOK
<1>1. IInv => TypeOK
  BY DEF IInv
<1> QED
  BY <1>1, Invariance, PTL

-----------------------------------------------------------------------------
(* The ring buffer as a sequence. *)

(* A position counted from kb_tail wraps around at most once. *)
LEMMA SlotWraps ==
  ASSUME NEW t \in Index, NEW i \in Nat, i < KB_BUF_SIZE
  PROVE  (t + i) % KB_BUF_SIZE = IF t + i < KB_BUF_SIZE THEN t + i ELSE t + i - KB_BUF_SIZE
<1> USE KeyboardAssumption DEF Index
<1>1. CASE t + i < KB_BUF_SIZE
  BY <1>1
<1>2. CASE ~(t + i < KB_BUF_SIZE)
  <2>1. /\ t + i = KB_BUF_SIZE * 1 + (t + i - KB_BUF_SIZE)
        /\ t + i - KB_BUF_SIZE \in 0..(KB_BUF_SIZE - 1)
    BY <1>2
  <2> QED
    BY <1>2, <2>1
<1> QED
  BY <1>1, <1>2

(* The number of characters in the buffer. *)
LEMMA CountIs ==
  IInv => /\ Count = IF kb_tail <= kb_head THEN kb_head - kb_tail
                                          ELSE kb_head + KB_BUF_SIZE - kb_tail
          /\ Count \in Index
<1> SUFFICES ASSUME IInv
             PROVE  /\ Count = IF kb_tail <= kb_head THEN kb_head - kb_tail
                                                    ELSE kb_head + KB_BUF_SIZE - kb_tail
                    /\ Count \in Index
  OBVIOUS
<1> USE KeyboardAssumption DEF Index
<1>0. kb_head \in Index /\ kb_tail \in Index
  BY DEF IInv, TypeOK
<1>1. CASE kb_tail <= kb_head
  <2>1. kb_head - kb_tail \in Nat /\ kb_head - kb_tail < KB_BUF_SIZE
    BY <1>0, <1>1
  <2>2. kb_head - kb_tail + KB_BUF_SIZE = KB_BUF_SIZE * 1 + (kb_head - kb_tail)
    BY <1>0
  <2>3. (kb_head - kb_tail + KB_BUF_SIZE) % KB_BUF_SIZE = kb_head - kb_tail
    BY <2>1, <2>2
  <2> QED
    BY <1>0, <1>1, <2>1, <2>3 DEF Count
<1>2. CASE ~(kb_tail <= kb_head)
  <2>1. kb_head - kb_tail + KB_BUF_SIZE \in 0..(KB_BUF_SIZE - 1)
    BY <1>0, <1>2
  <2>2. (kb_head - kb_tail + KB_BUF_SIZE) % KB_BUF_SIZE = kb_head - kb_tail + KB_BUF_SIZE
    BY <2>1
  <2> QED
    BY <1>0, <1>2, <2>1, <2>2 DEF Count
<1> QED
  BY <1>1, <1>2

(* The slot of the i-th character of the queue. *)
Slot(i) == IF kb_tail + i - 1 < KB_BUF_SIZE THEN kb_tail + i - 1
                                            ELSE kb_tail + i - 1 - KB_BUF_SIZE

(* The queue is a sequence of characters, each in its slot. *)
LEMMA QueuedIs ==
  IInv => /\ Queued \in Seq(Chars) /\ Len(Queued) = Count /\ Count \in Nat
          /\ \A i \in 1..Count : Queued[i] = kb_buf[Slot(i)]
<1> SUFFICES ASSUME IInv
             PROVE  /\ Queued \in Seq(Chars) /\ Len(Queued) = Count /\ Count \in Nat
                    /\ \A i \in 1..Count : Queued[i] = kb_buf[Slot(i)]
  OBVIOUS
<1> USE KeyboardAssumption
<1>1. kb_head \in Index /\ kb_tail \in Index
  BY DEF IInv, TypeOK
<1>2. /\ Count = IF kb_tail <= kb_head THEN kb_head - kb_tail
                                       ELSE kb_head + KB_BUF_SIZE - kb_tail
      /\ Count \in Index /\ Count \in Nat
  BY <1>1, CountIs DEF Index
<1>3. ASSUME NEW i \in 1..Count
      PROVE  (kb_tail + i - 1) % KB_BUF_SIZE = Slot(i) /\ kb_buf[Slot(i)] \in Chars
  <2>1. i - 1 \in Nat /\ i - 1 < KB_BUF_SIZE /\ kb_tail + (i - 1) = kb_tail + i - 1
    BY <1>1, <1>2 DEF Index
  <2>2. (kb_tail + i - 1) % KB_BUF_SIZE = Slot(i)
    BY <1>1, <2>1, SlotWraps DEF Slot
  <2>3. Slot(i) \in Index /\ Occupied(Slot(i))
    BY <1>1, <1>2 DEF Slot, Occupied, Index
  <2> QED
    BY <2>2, <2>3 DEF IInv, SlotsFilled
<1>4. \A i \in 1..Count : kb_buf[(kb_tail + i - 1) % KB_BUF_SIZE] \in Chars
  BY <1>3
<1>5. Queued \in Seq(Chars) /\ Len(Queued) = Count
  BY <1>2, <1>4 DEF Queued
<1>6. \A i \in 1..Count : Queued[i] = kb_buf[(kb_tail + i - 1) % KB_BUF_SIZE]
  BY DEF Queued
<1> QED
  BY <1>2, <1>3, <1>5, <1>6

(* keyboard_handler appends to the queue, or loses the key if it is full. *)
LEMMA KeyQueues ==
  ASSUME IInv, IInv', NEW ch \in Chars, Key(ch)
  PROVE  KQ!Next \/ UNCHANGED <<Queued, out, lost>>
<1> USE KeyboardAssumption
<1>1. kb_head \in Index /\ kb_tail \in Index /\ kb_buf \in [Index -> Chars \cup {0}]
  BY DEF IInv, TypeOK
<1>2. /\ NextIndex(kb_head) = IF kb_head = KB_BUF_SIZE - 1 THEN 0 ELSE kb_head + 1
      /\ NextIndex(kb_head) \in Index
  BY <1>1, NextIndexWraps
<1>3. Count = IF kb_tail <= kb_head THEN kb_head - kb_tail ELSE kb_head + KB_BUF_SIZE - kb_tail
  BY CountIs
<1>4. /\ Queued \in Seq(Chars) /\ Len(Queued) = Count /\ Count \in Nat
      /\ \A i \in 1..Count : Queued[i] = kb_buf[Slot(i)]
  BY QueuedIs
<1>5. CASE IsCtrlC(ch)
  BY <1>5 DEF Key, kbVars, Queued, Count
<1>6. CASE ~IsCtrlC(ch) /\ Full
  <2>1. lost' = lost + 1 /\ UNCHANGED <<kbVars, out>>
    BY <1>6 DEF Key
  <2>2. Queued' = Queued
    BY <2>1 DEF kbVars, Queued, Count
  <2>3. Count = KB_BUF_SIZE - 1
    BY <1>1, <1>2, <1>3, <1>6 DEF Full, Index
  <2> QED
    BY <1>4, <2>1, <2>2, <2>3 DEF KQ!Next, KQ!Lose
<1>7. CASE ~IsCtrlC(ch) /\ ~Full
  <2>1. /\ kb_buf' = [kb_buf EXCEPT ![kb_head] = ch]
        /\ kb_head' = NextIndex(kb_head) /\ kb_head' # kb_tail
        /\ UNCHANGED <<kb_tail, lost, out>>
    BY <1>7 DEF Key, Full
  <2>2. Count' = IF kb_tail <= kb_head' THEN kb_head' - kb_tail
                                        ELSE kb_head' + KB_BUF_SIZE - kb_tail
    <3>1. (IInv => Count = IF kb_tail <= kb_head THEN kb_head - kb_tail
                                                 ELSE kb_head + KB_BUF_SIZE - kb_tail)'
      BY CountIs, PTL
    <3> QED
      BY <2>1, <3>1
  <2>3. Count' = Count + 1 /\ Count < KB_BUF_SIZE - 1
    BY <1>1, <1>2, <1>3, <2>1, <2>2 DEF Index
  <2>4. /\ Queued' \in Seq(Chars) /\ Len(Queued') = Count'
        /\ \A i \in 1..Count' : Queued'[i] = kb_buf'[Slot(i)]
    <3>1. (IInv => /\ Queued \in Seq(Chars) /\ Len(Queued) = Count /\ Count \in Nat
                   /\ \A i \in 1..Count : Queued[i] = kb_buf[Slot(i)])'
      BY QueuedIs, PTL
    <3> QED
      BY <2>1, <3>1 DEF Slot
  <2>5. \A i \in 1..Count : Slot(i) \in Index /\ Slot(i) # kb_head
    BY <1>1, <1>3 DEF Slot, Index
  <2>6. Slot(Count + 1) = kb_head
    BY <1>1, <1>3, <2>3 DEF Slot, Index
  <2>7. Queued' = Append(Queued, ch)
    <3>1. Append(Queued, ch) \in Seq(Chars) /\ Len(Append(Queued, ch)) = Count + 1
      BY <1>4
    <3>2. ASSUME NEW i \in 1..(Count + 1) PROVE Queued'[i] = Append(Queued, ch)[i]
      <4>1. CASE i = Count + 1
        BY <1>1, <1>4, <2>1, <2>3, <2>4, <2>6, <4>1
      <4>2. CASE i # Count + 1
        BY <1>1, <1>4, <2>1, <2>3, <2>4, <2>5, <4>2
      <4> QED
        BY <4>1, <4>2
    <3> QED
      BY <2>3, <2>4, <3>1, <3>2, SeqEqual
  <2> QED
    BY <1>4, <2>1, <2>3, <2>7 DEF KQ!Next, KQ!Put
<1> QED
  BY <1>5, <1>6, <1>7

(* The store of kb_tail takes the first character off the queue, and that  *)
(* is the one kb_getchar returns; its other steps leave the queue alone.   *)
LEMMA ReaderQueues ==
  ASSUME IInv, IInv', Reader
  PROVE  KQ!Next \/ UNCHANGED <<Queued, out, lost>>
<1> USE KeyboardAssumption
<1>1. CASE LoadHead \/ TestEmpty \/ LoadChar
  BY <1>1 DEF LoadHead, TestEmpty, LoadChar, kbVars, Queued, Count
<1>2. CASE StoreTail
  <2>1. /\ kb_tail' = NextIndex(kb_tail) /\ out' = Append(out, c)
        /\ UNCHANGED <<kb_buf, kb_head, lost>>
    BY <1>2 DEF StoreTail
  <2>2. kb_head \in Index /\ kb_tail \in Index /\ kb_head # kb_tail /\ c = kb_buf[kb_tail]
    BY <1>2 DEF StoreTail, IInv, TypeOK, ReadStable
  <2>3. kb_tail' = IF kb_tail = KB_BUF_SIZE - 1 THEN 0 ELSE kb_tail + 1
    BY <2>1, <2>2, NextIndexWraps
  <2>4. Count = IF kb_tail <= kb_head THEN kb_head - kb_tail ELSE kb_head + KB_BUF_SIZE - kb_tail
    BY CountIs
  <2>5. Count' = IF kb_tail' <= kb_head THEN kb_head - kb_tail'
                                        ELSE kb_head + KB_BUF_SIZE - kb_tail'
    <3>1. (IInv => Count = IF kb_tail <= kb_head THEN kb_head - kb_tail
                                                 ELSE kb_head + KB_BUF_SIZE - kb_tail)'
      BY CountIs, PTL
    <3> QED
      BY <2>1, <3>1
  <2>6. Count' = Count - 1 /\ Count > 0
    BY <2>2, <2>3, <2>4, <2>5 DEF Index
  <2>7. /\ Queued \in Seq(Chars) /\ Len(Queued) = Count /\ Count \in Nat
        /\ \A i \in 1..Count : Queued[i] = kb_buf[Slot(i)]
    BY QueuedIs
  <2>8. /\ Queued' \in Seq(Chars) /\ Len(Queued') = Count'
        /\ \A i \in 1..Count' : Queued'[i] = kb_buf[Slot(i)']
    <3>1. (IInv => /\ Queued \in Seq(Chars) /\ Len(Queued) = Count /\ Count \in Nat
                   /\ \A i \in 1..Count : Queued[i] = kb_buf[Slot(i)])'
      BY QueuedIs, PTL
    <3> QED
      BY <2>1, <3>1
  <2>9. \A i \in 1..Count' : Slot(i)' = Slot(i + 1)
    BY <2>2, <2>3, <2>4, <2>6 DEF Slot, Index
  <2>10. Queued # <<>> /\ Head(Queued) = c
    BY <2>2, <2>6, <2>7 DEF Slot, Index
  <2>11. Queued' = Tail(Queued)
    <3>1. /\ Tail(Queued) \in Seq(Chars) /\ Len(Tail(Queued)) = Count'
          /\ \A i \in 1..Count' : Tail(Queued)[i] = Queued[i + 1]
      BY <2>6, <2>7, <2>10, HeadTailProperties
    <3>2. \A i \in 1..Count' : Queued'[i] = Tail(Queued)[i]
      BY <2>6, <2>7, <2>8, <2>9, <3>1
    <3> QED
      BY <2>8, <3>1, <3>2, SeqEqual
  <2> QED
    BY <2>1, <2>10, <2>11 DEF KQ!Next, KQ!Get
<1> QED
  BY <1>1, <1>2 DEF Reader

(* The ring buffer implements the bounded queue: whatever IRQ1 does between *)
(* the steps of kb_getchar, nothing is lost while there is room, nothing is *)
(* duplicated and the order is kept.                                        *)
THEOREM Refinement == Spec => RefinesKeyQueue
<1>1. Init => KQ!Init
  <2> SUFFICES ASSUME Init PROVE KQ!Init
    OBVIOUS
  <2>1. Count = 0
    BY InitInv, CountIs DEF Init
  <2>2. Queued = <<>>
    BY <2>1, InitInv, QueuedIs
  <2> QED
    BY <2>2 DEF Init, KQ!Init
<1>2. IInv /\ IInv' /\ [Next]_vars => [KQ!Next]_(KQ!vars)
  <2> SUFFICES ASSUME IInv, IInv', [Next]_vars
               PROVE  KQ!Next \/ UNCHANGED <<Queued, out, lost>>
    BY DEF KQ!vars
  <2>1. CASE CtrlPress \/ CtrlRelease
    BY <2>1 DEF CtrlPress, CtrlRelease, kbVars, Queued, Count
  <2>2. ASSUME NEW ch \in Chars, Key(ch) PROVE KQ!Next \/ UNCHANGED <<Queued, out, lost>>
    BY <2>2, KeyQueues
  <2>3. CASE Reader
    BY <2>3, ReaderQueues
  <2>4. CASE UNCHANGED vars
    BY <2>4 DEF vars, kbVars, Queued, Count
  <2> QED
    BY <2>1, <2>2, <2>3, <2>4 DEF Next, Handler
<1> QED
  BY <1>1, <1>2, Invariance, PTL DEF Spec, RefinesKeyQueue, KQ!Spec
=============================================================================
