---------------------------- MODULE ScreenProofs -----------------------------
(***************************************************************************)
(* Where the cursor and the writes of putcar can go, for a screen of any   *)
(* size, any text and any number of echoes, each of them between any two   *)
(* accesses of an interrupted putcar; and, as long as none came there,     *)
(* that the screen shows the text.                                         *)
(***************************************************************************)
EXTENDS Screen, SequenceTheorems, WellFoundedInduction, TLAPS

Cell == [ch : Int, attr : Nat]

(* The type of the driver's state, without its history. *)
Scr == [kX : Signed, kY : Signed, kattr : Nat, video : [Cells -> Cell],
        index : {"lo", "hi"}, lo : 0..(BYTE - 1), hi : 0..(BYTE - 1)]

-----------------------------------------------------------------------------
(* Arithmetic. *)

(* A signed char holds what fits in it. *)
LEMMA SCharType ==
  ASSUME NEW v \in Int
  PROVE  SChar(v) \in Signed
<1> USE ScreenAssumption
<1> DEFINE H == CHMOD \div 2
<1>1. H \in Nat /\ CHMOD = 2 * H /\ H > 0
  OBVIOUS
<1> HIDE DEF H
<1>2. (v + H) % CHMOD \in 0..(CHMOD - 1)
  BY <1>1
<1> QED
  BY <1>1, <1>2 DEF SChar, Signed, H

(* What fits in a signed char is kept. *)
LEMMA SCharId ==
  ASSUME NEW v \in Signed
  PROVE  SChar(v) = v
<1> USE ScreenAssumption
<1> DEFINE H == CHMOD \div 2
<1>1. H \in Nat /\ CHMOD = 2 * H /\ H > 0
  OBVIOUS
<1> HIDE DEF H
<1>2. v \in Int /\ v + H \in 0..(CHMOD - 1)
  BY <1>1 DEF Signed, H
<1>3. (v + H) % CHMOD = v + H
  BY <1>1, <1>2
<1> QED
  BY <1>1, <1>2, <1>3 DEF SChar, H

(* The rows and columns that occur without tabs fit in a signed char. *)
LEMMA SmallSigned ==
  ASSUME NEW v \in Int, -1 <= v, v <= ROWS + 1 \/ v <= COLS + 1
  PROVE  v \in Signed /\ SChar(v) = v
<1> USE ScreenAssumption
<1> DEFINE H == CHMOD \div 2
<1>1. H \in Nat /\ ROWS + 1 < H /\ COLS + 1 < H
  OBVIOUS
<1> HIDE DEF H
<1>2. v \in Signed
  BY <1>1 DEF Signed, H
<1> QED
  BY <1>2, SCharId

(* The position of a cell on the screen, and of the row below it. *)
LEMMA AddrRange ==
  ASSUME NEW x \in Int, NEW y \in Int, 0 <= x, 0 <= y
  PROVE  /\ Addr(x, y) \in Nat
         /\ x < COLS /\ y < ROWS => Addr(x, y) \in Cells
         /\ x <= COLS /\ y < ROWS => Addr(x, y) \in 0..SIZE
         /\ x < COLS /\ y = ROWS => Addr(x, y) \in SIZE..(SIZE + COLS - 1)
<1> USE ScreenAssumption
<1>1. y * COLS \in Nat /\ SIZE \in Nat /\ SIZE = ROWS * COLS
  BY DEF SIZE
<1>2. y < ROWS => y * COLS + COLS <= SIZE
  <2> SUFFICES ASSUME y < ROWS PROVE (y + 1) * COLS <= ROWS * COLS
    BY <1>1
  <2>1. ROWS = y + 1 + (ROWS - y - 1) /\ ROWS - y - 1 \in Nat
    OBVIOUS
  <2>2. \A d \in Nat : (y + 1 + d) * COLS = (y + 1) * COLS + d * COLS /\ d * COLS \in Nat
    OBVIOUS
  <2> QED
    BY <2>1, <2>2
<1> QED
  BY <1>1, <1>2 DEF Addr, Cells

(* The two bytes of a cursor position. *)
LEMMA CursorBytes ==
  ASSUME NEW pos \in Nat, pos < BYTE * BYTE
  PROVE  /\ pos % BYTE \in 0..(BYTE - 1) /\ pos \div BYTE \in 0..(BYTE - 1)
         /\ (pos \div BYTE) * BYTE + (pos % BYTE) = pos
<1> USE ScreenAssumption
<1>1. /\ pos \div BYTE \in Nat /\ pos % BYTE \in 0..(BYTE - 1)
      /\ pos = BYTE * (pos \div BYTE) + (pos % BYTE)
  OBVIOUS
<1>2. \A q \in Nat, r \in Nat : pos = BYTE * q + r => q < BYTE /\ q * BYTE + r = pos
  <2> SUFFICES ASSUME NEW q \in Nat, NEW r \in Nat, pos = BYTE * q + r
               PROVE  q < BYTE /\ q * BYTE + r = pos
    OBVIOUS
  <2>1. q >= BYTE => BYTE * q >= BYTE * BYTE
    OBVIOUS
  <2>2. BYTE * q \in Nat /\ BYTE * BYTE \in Nat /\ BYTE * q = q * BYTE
    OBVIOUS
  <2> QED
    BY <2>1, <2>2
<1> DEFINE Q == pos \div BYTE
           R == pos % BYTE
<1>3. Q \in Nat /\ R \in 0..(BYTE - 1) /\ pos = BYTE * Q + R
  BY <1>1
<1> SUFFICES R \in 0..(BYTE - 1) /\ Q \in 0..(BYTE - 1) /\ Q * BYTE + R = pos
  OBVIOUS
<1> HIDE DEF Q, R
<1> QED
  BY <1>2, <1>3

(* A position is an unsigned short. *)
LEMMA CursorPosType ==
  ASSUME NEW x \in Int, NEW y \in Int
  PROVE  CursorPos(x, y) \in Nat /\ CursorPos(x, y) < BYTE * BYTE
<1> USE ScreenAssumption
<1>1. BYTE * BYTE \in Nat \ {0} /\ Addr(x, y) \in Int
  BY DEF Addr
<1> QED
  BY <1>1 DEF CursorPos

-----------------------------------------------------------------------------
(* What an uninterrupted putcar does to the cursor, wherever it finds it. *)

(* The first row and the first column. *)
LEMMA ZeroSigned == 0 \in Signed
BY SmallSigned, ScreenAssumption

(* putcar before the scrolling keeps the type of the state. *)
LEMMA MovedType ==
  ASSUME NEW s \in Scr, NEW c \in Int
  PROVE  Moved(s, c) \in Scr
<1> USE ScreenAssumption
<1>1. s.kX \in Int /\ s.kY \in Int /\ s.kX \in Signed /\ s.kY \in Signed /\ s.kattr \in Nat
  BY DEF Scr, Signed
<1>2. SChar(s.kX + 1) \in Signed /\ SChar(s.kY + 1) \in Signed
  BY <1>1, SCharType
<1>3. Rem(s.kX) \in Int
  BY <1>1 DEF Rem
<1>4. SChar(s.kX + TAB - Rem(s.kX)) \in Signed
  BY <1>1, <1>3, SCharType
<1>5. CASE c = NL
  <2>1. Moved(s, c) = [s EXCEPT !.kX = 0, !.kY = SChar(@ + 1)]
    BY <1>5 DEF Moved, NL, TABC, CR
  <2> QED
    BY <1>2, <2>1, ZeroSigned DEF Scr
<1>6. CASE c = TABC
  <2>1. Moved(s, c) = [s EXCEPT !.kX = SChar(@ + TAB - Rem(@))]
    BY <1>6 DEF Moved, NL, TABC, CR
  <2> QED
    BY <1>4, <2>1 DEF Scr
<1>7. CASE c = CR
  <2>1. Moved(s, c) = [s EXCEPT !.kX = 0]
    BY <1>7 DEF Moved, NL, TABC, CR
  <2> QED
    BY <2>1, ZeroSigned DEF Scr
<1>8. CASE c \notin {NL, TABC, CR}
  <2> DEFINE a == Addr(s.kX, s.kY)
             v == IF a \in Cells THEN [s.video EXCEPT ![a] = [ch |-> c, attr |-> s.kattr]]
                                 ELSE s.video
             x == SChar(s.kX + 1)
             X == IF LineFull(x) THEN 0 ELSE x
             Y == IF LineFull(x) THEN SChar(s.kY + 1) ELSE s.kY
  <2>1. Moved(s, c) = [s EXCEPT !.video = v, !.kX = X, !.kY = Y]
    BY <1>8 DEF Moved
  <2>2. X \in Signed /\ Y \in Signed
    BY <1>1, <1>2, ZeroSigned
  <2>3. v \in [Cells -> Cell]
    <3>1. s.video \in [Cells -> Cell] /\ [ch |-> c, attr |-> s.kattr] \in Cell
      BY <1>1 DEF Scr, Cell
    <3> QED
      BY <3>1
  <2> HIDE DEF v, X, Y
  <2> QED
    BY <2>1, <2>2, <2>3 DEF Scr
<1> QED
  BY <1>5, <1>6, <1>7, <1>8

(* A round of the loop of scrollup stores a cell. *)
LEMMA ScrolledCellType ==
  ASSUME NEW v \in [Cells -> Cell], NEW a \in Cells, NEW n \in Nat
  PROVE  ScrolledCell(v, a, n) \in Cell
<1> USE ScreenAssumption
<1>1. SIZE \in Nat /\ n * COLS \in Nat
  BY DEF SIZE
<1>2. a + n * COLS < SIZE => a + n * COLS \in Cells
  BY <1>1 DEF Cells
<1>3. Blank \in Cell
  BY DEF Blank, Cell
<1> QED
  BY <1>2, <1>3 DEF ScrolledCell

(* scrollup brings the cursor back to the last row. *)
LEMMA ScrolledIs ==
  ASSUME NEW t \in Scr
  PROVE  /\ Scrolled(t) \in Scr
         /\ Scrolled(t).kX = t.kX
         /\ Scrolled(t).kY = IF t.kY > ROWS - 1 THEN ROWS - 1 ELSE t.kY
<1> USE ScreenAssumption
<1>1. t.kY \in Int /\ t.kY \in Signed /\ t.video \in [Cells -> Cell]
  BY DEF Scr, Signed
<1>2. CASE t.kY > ROWS - 1
  <2> DEFINE n == t.kY - (ROWS - 1)
             v == [a \in Cells |-> ScrolledCell(t.video, a, n)]
  <2>1. n \in Nat
    BY <1>1, <1>2
  <2>2. t.kY - n = ROWS - 1
    BY <1>1
  <2>3. SChar(ROWS - 1) = ROWS - 1 /\ ROWS - 1 \in Signed
    BY SmallSigned
  <2>4. v \in [Cells -> Cell]
    BY <1>1, <2>1, ScrolledCellType
  <2>5. Scrolled(t) = scrollup(t, n)
    BY <1>2 DEF Scrolled, ScreenFull
  <2> HIDE DEF n
  <2> DEFINE y == SChar(t.kY - n)
             Y == IF y < 0 THEN 0 ELSE y
  <2>6. Y = ROWS - 1
    BY <2>2, <2>3
  <2>7. scrollup(t, n) = [t EXCEPT !.video = v, !.kY = Y]
    BY DEF scrollup
  <2> HIDE DEF v, Y
  <2>8. scrollup(t, n) \in Scr /\ scrollup(t, n).kX = t.kX /\ scrollup(t, n).kY = ROWS - 1
    BY <2>3, <2>4, <2>6, <2>7 DEF Scr
  <2> QED
    BY <1>2, <2>5, <2>8
<1>3. CASE ~(t.kY > ROWS - 1)
  BY <1>3 DEF Scrolled, ScreenFull
<1> QED
  BY <1>2, <1>3

(* update_cursor sets both registers and nothing else. *)
LEMMA UpdateCursorIs ==
  ASSUME NEW t \in Scr
  PROVE  /\ update_cursor(t) \in Scr
         /\ update_cursor(t).kX = t.kX /\ update_cursor(t).kY = t.kY
         /\ update_cursor(t).hi * BYTE + update_cursor(t).lo = CursorPos(t.kX, t.kY)
<1> DEFINE pos == CursorPos(t.kX, t.kY)
           lo  == pos % BYTE
           hi  == pos \div BYTE
<1>1. t.kX \in Int /\ t.kY \in Int
  BY ScreenAssumption DEF Scr, Signed
<1>2. pos \in Nat /\ pos < BYTE * BYTE
  BY <1>1, CursorPosType
<1>3. update_cursor(t) = [t EXCEPT !.index = "hi", !.lo = lo, !.hi = hi]
  BY DEF update_cursor
<1> HIDE DEF pos
<1>4. lo \in 0..(BYTE - 1) /\ hi \in 0..(BYTE - 1) /\ hi * BYTE + lo = pos
  BY <1>2, CursorBytes
<1> HIDE DEF lo, hi
<1> QED
  BY <1>3, <1>4 DEF Scr, pos

(* One putcar: from a row at most one below the screen it returns to the   *)
(* screen, and so it does from a column at most one beyond it unless the   *)
(* character is a tab.                                                     *)
LEMMA PutcarIs ==
  ASSUME NEW s \in Scr, NEW c \in Int
  PROVE  /\ putcar(s, c) \in Scr
         /\ s.kY \in 0..ROWS => putcar(s, c).kY \in 0..(ROWS - 1)
         /\ s.kY \in {ROWS - 1, ROWS} => putcar(s, c).kY = ROWS - 1
         /\ s.kX \in 0..COLS /\ c # TABC => putcar(s, c).kX \in 0..(COLS - 1)
         /\ putcar(s, c).hi * BYTE + putcar(s, c).lo
              = CursorPos(putcar(s, c).kX, putcar(s, c).kY)
<1> USE ScreenAssumption
<1> DEFINE t == Moved(s, c)
           x == SChar(s.kX + 1)
<1>1. t \in Scr
  BY MovedType
<1>2. s.kX \in Int /\ s.kY \in Int /\ t.kX \in Int /\ t.kY \in Int
  BY <1>1 DEF Scr, Signed
<1>3. t.kY \in {s.kY, SChar(s.kY + 1)}
  BY DEF Moved, Scr, NL, TABC, CR
<1>4. c # TABC => t.kX = 0 \/ (t.kX = x /\ ~LineFull(x))
  BY DEF Moved, Scr, NL, TABC, CR
<1>5. s.kY \in 0..ROWS => t.kY \in {s.kY, s.kY + 1}
  BY <1>2, <1>3, SmallSigned
<1>6. s.kX \in 0..COLS /\ c # TABC => t.kX \in 0..(COLS - 1)
  BY <1>2, <1>4, SmallSigned DEF LineFull
<1> HIDE DEF t
<1> DEFINE u == Scrolled(t)
<1>7. u \in Scr /\ u.kX = t.kX /\ u.kY = IF t.kY > ROWS - 1 THEN ROWS - 1 ELSE t.kY
  BY <1>1, ScrolledIs
<1>8. putcar(s, c) = update_cursor(u)
  BY DEF putcar, t
<1> HIDE DEF u
<1>9. s.kY \in 0..ROWS => u.kY \in 0..(ROWS - 1)
  BY <1>2, <1>5, <1>7
<1>10. s.kY \in {ROWS - 1, ROWS} => u.kY = ROWS - 1
  BY <1>2, <1>5, <1>7
<1> QED
  BY <1>6, <1>7, <1>8, <1>9, <1>10, UpdateCursorIs

-----------------------------------------------------------------------------
(* The inductive invariant. *)

Scrolling   == {"arg", "copy", "subY", "subY2"}
TabLabels   == {"tab", "tab2", "tab3"}
HaveCurPos  == {"indexLo", "dataLo", "indexHi", "dataHi"}

Typing ==
  /\ scr \in Scr
  /\ m \in [pc : Labels, c : Int, reg : Int, n : Int, i : Cells]
  /\ m.pc = "tab3" => m.reg \in Signed
  /\ m.pc \in HaveCurPos => m.reg \in Nat /\ m.reg < BYTE * BYTE
  /\ printing \in {0, White, Yellow}
  /\ echoes \in 0..MaxEcho /\ chars \in 0..MaxChars
  /\ tabbed \in BOOLEAN /\ raced \in BOOLEAN /\ recolored \in BOOLEAN /\ torn \in BOOLEAN

(* The row: below the screen only from IncY to SubStore, and there in step *)
(* with what scrollup has read of it.                                      *)
RowInv ==
  /\ scr.kY \in 0..ROWS
  /\ m.pc \in Scrolling => scr.kY \in {ROWS - 1, ROWS}
  /\ m.pc \notin Scrolling \cup {"testY"} => scr.kY < ROWS
  /\ m.pc \in {"copy", "subY", "subY2"} => m.n \in {0, 1} /\ (m.n = 0 => scr.kY = ROWS - 1)
  /\ m.pc = "subY2" => m.reg \in {ROWS - 1, ROWS} /\ (m.n = 0 => m.reg = ROWS - 1)
  /\ m.pc = "setY" => m.reg \in 0..(ROWS - 1)

(* The column without tabs: beyond the margin only from IncX to ZeroX. *)
ColInv ==
  /\ m.pc \in TabLabels => tabbed
  /\ ~tabbed =>
       /\ scr.kX \in 0..COLS
       /\ m.pc \notin {"testX", "zeroX"} => scr.kX < COLS
       /\ m.pc \in {"addr2", "setX"} => m.reg \in 0..(COLS - 1)
       /\ m.pc \in {"char", "attr"} => m.reg \in Cells

(* update_cursor, unless an echo came into it: how far the registers of    *)
(* the CRT controller have got.                                            *)
CurInv ==
  ~torn =>
    /\ m.pc = "curX" => m.reg = scr.kY
    /\ m.pc \in HaveCurPos => m.reg = CursorPos(scr.kX, scr.kY)
    /\ m.pc = "dataLo" => scr.index = "lo"
    /\ m.pc \in {"indexHi", "dataHi"} => scr.lo = m.reg % BYTE
    /\ m.pc = "dataHi" => scr.index = "hi"
    /\ m.pc = "idle" /\ chars > 0 => scr.hi * BYTE + scr.lo = CursorPos(scr.kX, scr.kY)

IInv == Typing /\ RowInv /\ ColInv /\ CurInv /\ StrayWrites

-----------------------------------------------------------------------------
(* The steps. *)

(* What every step may assume of the state it starts in. *)
LEMMA Ints ==
  ASSUME Typing
  PROVE  /\ scr.kX \in Int /\ scr.kY \in Int /\ scr.kX \in Signed /\ scr.kY \in Signed
         /\ scr.kattr \in Nat /\ scr.video \in [Cells -> Cell]
         /\ m.pc \in Labels /\ m.c \in Int /\ m.reg \in Int /\ m.n \in Int /\ m.i \in Cells
         /\ SIZE \in Nat /\ 0 \in Cells /\ 0 \in Signed
<1> USE ScreenAssumption
<1>1. scr.kX \in Int /\ scr.kY \in Int /\ scr.kX \in Signed /\ scr.kY \in Signed
  BY DEF Typing, Scr, Signed
<1>2. scr.kattr \in Nat /\ scr.video \in [Cells -> Cell]
  BY DEF Typing, Scr
<1>3. m.pc \in Labels /\ m.c \in Int /\ m.reg \in Int /\ m.n \in Int /\ m.i \in Cells
  BY DEF Typing
<1>4. SIZE \in Nat \ {0}
  BY DEF SIZE
<1>5. 0 \in Cells /\ SIZE \in Nat
  BY <1>4 DEF Cells
<1> QED
  BY <1>1, <1>2, <1>3, <1>5, ZeroSigned

(* The driver's state keeps its type when one part of it is stored. *)
LEMMA StoreType ==
  ASSUME NEW s \in Scr
  PROVE  /\ \A x \in Signed : [s EXCEPT !.kX = x] \in Scr /\ [s EXCEPT !.kY = x] \in Scr
         /\ \A a \in Nat : [s EXCEPT !.kattr = a] \in Scr
         /\ \A v \in [Cells -> Cell] : [s EXCEPT !.video = v] \in Scr
         /\ \A i \in {"lo", "hi"} : [s EXCEPT !.index = i] \in Scr
         /\ \A b \in 0..(BYTE - 1) : [s EXCEPT !.lo = b] \in Scr /\ [s EXCEPT !.hi = b] \in Scr
BY DEF Scr

(* An access keeps the types if what it loads or stores has its type. *)
LEMMA AccessType ==
  ASSUME Typing, NEW a, NEW b \in Labels, NEW s \in Scr, NEW r \in Int, Access(a, b, s, r),
         b = "tab3" => r \in Signed,
         b \in HaveCurPos => r \in Nat /\ r < BYTE * BYTE
  PROVE  Typing'
<1>1. m' = [m EXCEPT !.pc = b, !.reg = r] /\ scr' = s
  BY DEF Access
<1>2. m' \in [pc : Labels, c : Int, reg : Int, n : Int, i : Cells] /\ m'.pc = b /\ m'.reg = r
  BY <1>1 DEF Typing
<1> QED
  BY <1>1, <1>2 DEF Access, Typing, histVars

(* The accesses for a glyph keep the types. *)
LEMMA GlyphType ==
  ASSUME Typing, Glyph
  PROVE  Typing'
<1> USE ScreenAssumption
<1>0. scr \in Scr
  BY DEF Typing
<1>1. CASE AddrX
  BY <1>0, <1>1, Ints, AccessType DEF AddrX, Load, Labels, HaveCurPos
<1>2. CASE AddrY
  BY <1>0, <1>2, Ints, AccessType DEF AddrY, Load, Labels, HaveCurPos, Addr
<1>3. Here \in Cell
  BY Ints DEF Here, Old, Cell
<1>4. ASSUME NEW h \in Cell
      PROVE  [scr EXCEPT !.video = IF m.reg \in Cells THEN [@ EXCEPT ![m.reg] = h] ELSE @] \in Scr
  <2> DEFINE v == IF m.reg \in Cells THEN [scr.video EXCEPT ![m.reg] = h] ELSE scr.video
  <2>1. v \in [Cells -> Cell]
    BY Ints
  <2>2. [scr EXCEPT !.video = v] \in Scr
    BY <1>0, <2>1, StoreType
  <2> QED
    BY <2>2
<1>5. CASE WriteChar
  <2>1. [Here EXCEPT !.ch = m.c] \in Cell
    BY <1>3, Ints DEF Cell
  <2> QED
    BY <1>4, <1>5, <2>1, Ints, AccessType DEF WriteChar, StoreCell, Labels, HaveCurPos
<1>6. CASE WriteAttr
  <2>1. [Here EXCEPT !.attr = scr.kattr] \in Cell
    BY <1>3, Ints DEF Cell
  <2> QED
    BY <1>4, <1>6, <2>1, Ints, AccessType DEF WriteAttr, StoreCell, Labels, HaveCurPos
<1>7. CASE LoadX
  BY <1>0, <1>7, Ints, AccessType DEF LoadX, Load, Labels, HaveCurPos
<1>8. CASE IncX
  <2>0. SChar(m.reg + 1) \in Signed
    BY Ints, SCharType
  <2>1. [scr EXCEPT !.kX = SChar(m.reg + 1)] \in Scr
    BY <1>0, <2>0, StoreType
  <2> QED
    BY <1>8, <2>1, Ints, AccessType DEF IncX, StoreX, Labels, HaveCurPos
<1>9. CASE TestX
  <2>1. (IF LineFull(scr.kX) THEN "zeroX" ELSE "testY") \in Labels \ (HaveCurPos \cup {"tab3"})
    BY DEF Labels, HaveCurPos
  <2> QED
    BY <1>0, <1>9, <2>1, Ints, AccessType DEF TestX, Load
<1> QED
  BY <1>1, <1>2, <1>5, <1>6, <1>7, <1>8, <1>9 DEF Glyph

(* The accesses for a new line, a return or a tab keep the types. *)
LEMMA LineType ==
  ASSUME Typing, Line
  PROVE  Typing'
<1> USE ScreenAssumption
<1>0. scr \in Scr
  BY DEF Typing
<1>1. CASE ZeroX
  <2>1. (IF m.c = CR THEN "testY" ELSE "incY") \in Labels \ (HaveCurPos \cup {"tab3"})
    BY DEF Labels, HaveCurPos
  <2>2. [scr EXCEPT !.kX = 0] \in Scr
    BY <1>0, Ints, StoreType
  <2> QED
    BY <1>1, <2>1, <2>2, Ints, AccessType DEF ZeroX, StoreX
<1>2. CASE LoadY
  BY <1>0, <1>2, Ints, AccessType DEF LoadY, Load, Labels, HaveCurPos
<1>3. CASE IncY
  <2>0. SChar(m.reg + 1) \in Signed
    BY Ints, SCharType
  <2>1. [scr EXCEPT !.kY = SChar(m.reg + 1)] \in Scr
    BY <1>0, <2>0, StoreType
  <2> QED
    BY <1>3, <2>1, Ints, AccessType DEF IncY, StoreY, Labels, HaveCurPos
<1>4. CASE TestY
  <2>1. (IF ScreenFull(scr.kY) THEN "arg" ELSE "curY") \in Labels \ (HaveCurPos \cup {"tab3"})
    BY DEF Labels, HaveCurPos, CursorLabels
  <2> QED
    BY <1>0, <1>4, <2>1, Ints, AccessType DEF TestY, Load
<1>5. CASE TabLoad
  BY <1>0, <1>5, Ints, AccessType DEF TabLoad, Load, Labels, HaveCurPos
<1>6. CASE TabRem
  <2>1. Rem(scr.kX) \in Int
    BY Ints DEF Rem
  <2>2. SChar(m.reg + TAB - Rem(scr.kX)) \in Signed
    BY <2>1, Ints, SCharType
  <2>3. \A v \in Signed : v \in Int
    BY DEF Signed
  <2> QED
    BY <1>0, <1>6, <2>2, <2>3, AccessType DEF TabRem, Load, Labels, HaveCurPos
<1>7. CASE TabStore
  <2>1. m.reg \in Signed
    BY <1>7 DEF TabStore, StoreX, Access, Typing
  <2>2. [scr EXCEPT !.kX = m.reg] \in Scr
    BY <1>0, <2>1, StoreType
  <2> QED
    BY <1>7, <2>2, Ints, AccessType DEF TabStore, StoreX, Labels, HaveCurPos
<1> QED
  BY <1>1, <1>2, <1>3, <1>4, <1>5, <1>6, <1>7 DEF Line

(* The accesses of scrollup keep the types: n is never negative. *)
LEMMA ScrollType ==
  ASSUME Typing, RowInv, Scroll
  PROVE  Typing'
<1> USE ScreenAssumption
<1>0. scr \in Scr
  BY DEF Typing
<1>1. CASE LoadArg
  <2>1. scr.kY - (ROWS - 1) \in Int
    BY Ints
  <2>2. m' \in [pc : Labels, c : Int, reg : Int, n : Int, i : Cells] /\ m'.pc = "copy"
    BY <1>1, <2>1, Ints DEF LoadArg, Typing, Labels
  <2> QED
    BY <1>1, <2>2 DEF LoadArg, Typing, HaveCurPos, histVars
<1>2. CASE CopyCell
  <2>1. m.pc = "copy" /\ m.n \in Nat
    BY <1>2 DEF CopyCell, RowInv
  <2>2. ScrolledCell(scr.video, m.i, m.n) \in Cell
    BY <2>1, Ints, ScrolledCellType
  <2> DEFINE v == [scr.video EXCEPT ![m.i] = ScrolledCell(scr.video, m.i, m.n)]
  <2>3. v \in [Cells -> Cell]
    BY <2>2, Ints
  <2>4. scr' = [scr EXCEPT !.video = v]
    BY <1>2 DEF CopyCell
  <2>5. scr' \in Scr
    BY <1>0, <2>3, <2>4, StoreType
  <2>6. (IF m.i = SIZE - 1 THEN 0 ELSE m.i + 1) \in Cells
    BY Ints DEF Cells
  <2>7. (IF m.i = SIZE - 1 THEN "subY" ELSE "copy") \in Labels \ (HaveCurPos \cup {"tab3"})
    BY DEF Labels, HaveCurPos
  <2>8. /\ m' \in [pc : Labels, c : Int, reg : Int, n : Int, i : Cells]
        /\ m'.pc \notin HaveCurPos \cup {"tab3"}
    BY <1>2, <2>6, <2>7, Ints DEF CopyCell, Typing
  <2> QED
    BY <1>2, <2>5, <2>8 DEF CopyCell, Typing, histVars
<1>3. CASE SubLoad
  BY <1>0, <1>3, Ints, AccessType DEF SubLoad, Load, Labels, HaveCurPos
<1>4. CASE SubStore
  <2>0. SChar(m.reg - m.n) \in Signed
    BY Ints, SCharType
  <2>1. [scr EXCEPT !.kY = SChar(m.reg - m.n)] \in Scr
    BY <1>0, <2>0, StoreType
  <2> QED
    BY <1>4, <2>1, Ints, AccessType DEF SubStore, StoreY, Labels, HaveCurPos
<1>5. CASE NotNeg
  <2>1. [scr EXCEPT !.kY = IF scr.kY < 0 THEN 0 ELSE scr.kY] \in Scr
    BY <1>0, Ints, StoreType
  <2> QED
    BY <1>5, <2>1, Ints, AccessType DEF NotNeg, StoreY, Labels, HaveCurPos, CursorLabels
<1> QED
  BY <1>1, <1>2, <1>3, <1>4, <1>5 DEF Scroll

(* The accesses of update_cursor keep the types. *)
LEMMA CursorType ==
  ASSUME Typing, Cursor
  PROVE  Typing'
<1> USE ScreenAssumption
<1>0. scr \in Scr
  BY DEF Typing
<1>1. CASE CurY
  BY <1>0, <1>1, Ints, AccessType DEF CurY, Load, Labels, HaveCurPos, CursorLabels
<1>2. CASE CurX
  <2>1. CursorPos(scr.kX, m.reg) \in Nat /\ CursorPos(scr.kX, m.reg) < BYTE * BYTE
    BY Ints, CursorPosType
  <2>2. Access("curX", "indexLo", scr, CursorPos(scr.kX, m.reg)) /\ "indexLo" \in Labels
    BY <1>2 DEF CurX, Load, Labels, CursorLabels
  <2>3. CursorPos(scr.kX, m.reg) \in Int
    BY <2>1
  <2> QED
    BY <1>0, <2>1, <2>2, <2>3, AccessType
<1>3. m.pc \in HaveCurPos => m.reg \in Nat /\ m.reg < BYTE * BYTE
  BY DEF Typing
<1>4. ASSUME NEW b \in 0..(BYTE - 1) PROVE OutData(b) \in Scr
  BY <1>0, StoreType DEF OutData
<1>5. CASE IndexLo
  <2>1. [scr EXCEPT !.index = "lo"] \in Scr
    BY <1>0, StoreType
  <2>2. m.pc \in HaveCurPos
    BY <1>5 DEF IndexLo, Access, HaveCurPos
  <2> QED
    BY <1>3, <1>5, <2>1, <2>2, Ints, AccessType DEF IndexLo, Labels, CursorLabels
<1>6. CASE DataLo
  <2>1. m.pc \in HaveCurPos
    BY <1>6 DEF DataLo, Access, HaveCurPos
  <2>2. m.reg % BYTE \in 0..(BYTE - 1)
    BY Ints
  <2>3. OutData(m.reg % BYTE) \in Scr
    BY <1>4, <2>2
  <2> QED
    BY <1>3, <1>6, <2>1, <2>3, Ints, AccessType DEF DataLo, Labels, CursorLabels
<1>7. CASE IndexHi
  <2>1. [scr EXCEPT !.index = "hi"] \in Scr
    BY <1>0, StoreType
  <2>2. m.pc \in HaveCurPos
    BY <1>7 DEF IndexHi, Access, HaveCurPos
  <2> QED
    BY <1>3, <1>7, <2>1, <2>2, Ints, AccessType DEF IndexHi, Labels, CursorLabels
<1>8. CASE DataHi
  <2>1. m.pc \in HaveCurPos
    BY <1>8 DEF DataHi, HaveCurPos
  <2>2. m.reg \div BYTE \in 0..(BYTE - 1)
    BY <1>3, <2>1, CursorBytes
  <2>3. OutData(m.reg \div BYTE) \in Scr
    BY <1>4, <2>2
  <2>4. Idle \in [pc : Labels, c : Int, reg : Int, n : Int, i : Cells] /\ Idle.pc = "idle"
    BY Ints DEF Idle, Labels
  <2> QED
    BY <1>8, <2>3, <2>4 DEF DataHi, Typing, HaveCurPos, histVars
<1> QED
  BY <1>1, <1>2, <1>5, <1>6, <1>7, <1>8 DEF Cursor

(* What one access changes. *)
LEMMA AccessIs ==
  ASSUME Typing, NEW a, NEW b, NEW s, NEW r, Access(a, b, s, r)
  PROVE  /\ m.pc = a /\ m'.pc = b /\ m'.reg = r /\ m'.n = m.n /\ scr' = s
         /\ tabbed' = tabbed /\ raced' = raced /\ torn' = torn /\ chars' = chars
BY DEF Access, Typing, histVars

Invs == RowInv /\ ColInv /\ CurInv /\ StrayWrites

(* A glyph: without tabs its address is on the screen. *)
LEMMA GlyphInvs ==
  ASSUME Typing, Invs, Glyph
  PROVE  Invs'
<1> USE ScreenAssumption
<1>0. scr \in Scr
  BY DEF Typing
<1>1. CASE AddrX
  BY <1>0, <1>1, Ints, AccessIs
    DEF AddrX, Load, Invs, RowInv, ColInv, CurInv, StrayWrites, Scrolling, TabLabels,
        HaveCurPos
<1>2. CASE AddrY
  <2>1. /\ m.pc = "addr2" /\ m'.pc = "char" /\ m'.reg = Addr(m.reg, scr.kY) /\ m'.n = m.n
        /\ scr' = scr /\ beyond' = beyond
        /\ tabbed' = tabbed /\ raced' = raced /\ torn' = torn /\ chars' = chars
    BY <1>2, AccessIs DEF AddrY, Load
  <2>2. ~tabbed => m.reg \in 0..(COLS - 1) /\ scr.kY \in 0..(ROWS - 1)
    BY <2>1 DEF Invs, RowInv, ColInv, Scrolling
  <2>3. ~tabbed => m.reg \in Int /\ 0 <= m.reg /\ m.reg < COLS
                   /\ scr.kY \in Int /\ 0 <= scr.kY /\ scr.kY < ROWS
    BY <2>2
  <2>4. ~tabbed => Addr(m.reg, scr.kY) \in Cells
    BY <2>3, AddrRange
  <2> QED
    BY <2>1, <2>4, Ints
      DEF Invs, RowInv, ColInv, CurInv, StrayWrites, Scrolling, TabLabels, HaveCurPos
<1>3. CASE WriteChar
  <2>1. /\ m.pc = "char" /\ m'.pc = "attr"
        /\ m'.reg = m.reg /\ m'.n = m.n
        /\ tabbed' = tabbed /\ raced' = raced /\ torn' = torn /\ chars' = chars
    BY <1>3 DEF WriteChar, StoreCell, Access, Typing, histVars
  <2>2. scr' = [scr EXCEPT !.video = IF m.reg \in Cells
                                     THEN [@ EXCEPT ![m.reg] = [Here EXCEPT !.ch = m.c]]
                                     ELSE @]
    BY <1>3 DEF WriteChar, StoreCell, Access
  <2>3. /\ scr'.kX = scr.kX /\ scr'.kY = scr.kY
        /\ scr'.index = scr.index /\ scr'.lo = scr.lo
        /\ scr'.hi = scr.hi
    BY <1>0, <2>2 DEF Scr
  <2>4. ~tabbed => beyond' = beyond
    BY <2>1, <2>3, <1>3 DEF WriteChar, StoreCell, Invs, ColInv
  <2> QED
    BY <2>1, <2>3, <2>4, Ints
      DEF Invs, RowInv, ColInv, CurInv, StrayWrites, Scrolling, TabLabels, HaveCurPos
<1>4. CASE WriteAttr
  <2>1. /\ m.pc = "attr" /\ m'.pc = "incX"
        /\ m'.reg = m.reg /\ m'.n = m.n
        /\ tabbed' = tabbed /\ raced' = raced /\ torn' = torn /\ chars' = chars
    BY <1>4 DEF WriteAttr, StoreCell, Access, Typing, histVars
  <2>2. scr' = [scr EXCEPT !.video = IF m.reg \in Cells
                                     THEN [@ EXCEPT ![m.reg] = [Here EXCEPT !.attr = scr.kattr]]
                                     ELSE @]
    BY <1>4 DEF WriteAttr, StoreCell, Access
  <2>3. /\ scr'.kX = scr.kX /\ scr'.kY = scr.kY
        /\ scr'.index = scr.index /\ scr'.lo = scr.lo
        /\ scr'.hi = scr.hi
    BY <1>0, <2>2 DEF Scr
  <2>4. ~tabbed => beyond' = beyond
    BY <2>1, <2>3, <1>4 DEF WriteAttr, StoreCell, Invs, ColInv
  <2> QED
    BY <2>1, <2>3, <2>4, Ints
      DEF Invs, RowInv, ColInv, CurInv, StrayWrites, Scrolling, TabLabels, HaveCurPos
<1>5. CASE LoadX
  BY <1>0, <1>5, Ints, AccessIs
    DEF LoadX, Load, Invs, RowInv, ColInv, CurInv, StrayWrites, Scrolling, TabLabels,
        HaveCurPos
<1>6. CASE IncX
  <2>1. /\ m.pc = "setX" /\ m'.pc = "testX"
        /\ m'.reg = m.reg /\ m'.n = m.n
        /\ tabbed' = tabbed /\ raced' = raced /\ torn' = torn
        /\ chars' = chars /\ beyond' = beyond
    BY <1>6 DEF IncX, StoreX, Access, Typing, histVars
  <2>2. scr' = [scr EXCEPT !.kX = SChar(m.reg + 1)]
    BY <1>6 DEF IncX, StoreX, Access
  <2>3. /\ scr'.kX = SChar(m.reg + 1) /\ scr'.kY = scr.kY
        /\ scr'.index = scr.index /\ scr'.lo = scr.lo
        /\ scr'.hi = scr.hi
    BY <1>0, <2>2 DEF Scr
  <2>4. ~tabbed => SChar(m.reg + 1) = m.reg + 1
    BY <2>1, <2>3, Ints, SmallSigned DEF Invs, ColInv
  <2> QED
    BY <2>1, <2>3, <2>4, Ints
      DEF Invs, RowInv, ColInv, CurInv, StrayWrites, Scrolling, TabLabels, HaveCurPos
<1>7. CASE TestX
  BY <1>0, <1>7, Ints, AccessIs
    DEF TestX, Load, LineFull, Invs, RowInv, ColInv, CurInv, StrayWrites, Scrolling,
        TabLabels, HaveCurPos
<1> QED
  BY <1>1, <1>2, <1>3, <1>4, <1>5, <1>6, <1>7 DEF Glyph

(* A new line may leave the row one below the screen. *)
LEMMA LineInvs ==
  ASSUME Typing, Invs, Line
  PROVE  Invs'
<1> USE ScreenAssumption
<1>0. scr \in Scr
  BY DEF Typing
<1>1. CASE ZeroX
  <2>1. /\ m.pc = "zeroX" /\ m'.pc = (IF m.c = CR THEN "testY" ELSE "incY")
        /\ m'.reg = m.reg /\ m'.n = m.n
        /\ tabbed' = tabbed /\ raced' = raced /\ torn' = torn
        /\ chars' = chars /\ beyond' = beyond
    BY <1>1 DEF ZeroX, StoreX, Access, Typing, histVars
  <2>2. scr' = [scr EXCEPT !.kX = 0]
    BY <1>1 DEF ZeroX, StoreX, Access
  <2>3. /\ scr'.kX = 0 /\ scr'.kY = scr.kY
        /\ scr'.index = scr.index /\ scr'.lo = scr.lo
        /\ scr'.hi = scr.hi
    BY <1>0, <2>2 DEF Scr
  <2> QED
    BY <2>1, <2>3, Ints
      DEF Invs, RowInv, ColInv, CurInv, StrayWrites, Scrolling, TabLabels, HaveCurPos
<1>2. CASE LoadY
  BY <1>0, <1>2, Ints, AccessIs
    DEF LoadY, Load, Invs, RowInv, ColInv, CurInv, StrayWrites, Scrolling, TabLabels,
        HaveCurPos
<1>3. CASE IncY
  <2>1. /\ m.pc = "setY" /\ m'.pc = "testY"
        /\ m'.reg = m.reg /\ m'.n = m.n
        /\ tabbed' = tabbed /\ raced' = raced /\ torn' = torn
        /\ chars' = chars /\ beyond' = beyond
    BY <1>3 DEF IncY, StoreY, Access, Typing, histVars
  <2>2. scr' = [scr EXCEPT !.kY = SChar(m.reg + 1)]
    BY <1>3 DEF IncY, StoreY, Access
  <2>3. /\ scr'.kX = scr.kX /\ scr'.kY = SChar(m.reg + 1)
        /\ scr'.index = scr.index /\ scr'.lo = scr.lo
        /\ scr'.hi = scr.hi
    BY <1>0, <2>2 DEF Scr
  <2>4. SChar(m.reg + 1) = m.reg + 1
    BY <2>1, <2>3, Ints, SmallSigned DEF Invs, RowInv
  <2> QED
    BY <2>1, <2>3, <2>4, Ints
      DEF Invs, RowInv, ColInv, CurInv, StrayWrites, Scrolling, TabLabels, HaveCurPos
<1>4. CASE TestY
  BY <1>0, <1>4, Ints, AccessIs
    DEF TestY, Load, ScreenFull, Invs, RowInv, ColInv, CurInv, StrayWrites, Scrolling,
        TabLabels, HaveCurPos
<1>5. CASE TabLoad
  BY <1>0, <1>5, Ints, AccessIs
    DEF TabLoad, Load, Invs, RowInv, ColInv, CurInv, StrayWrites, Scrolling, TabLabels,
        HaveCurPos
<1>6. CASE TabRem
  BY <1>0, <1>6, Ints, AccessIs
    DEF TabRem, Load, Invs, RowInv, ColInv, CurInv, StrayWrites, Scrolling, TabLabels,
        HaveCurPos
<1>7. CASE TabStore
  <2>1. /\ m.pc = "tab3" /\ m'.pc = "testY"
        /\ m'.reg = m.reg /\ m'.n = m.n
        /\ tabbed' = tabbed /\ raced' = raced /\ torn' = torn
        /\ chars' = chars /\ beyond' = beyond
    BY <1>7 DEF TabStore, StoreX, Access, Typing, histVars
  <2>2. scr' = [scr EXCEPT !.kX = m.reg]
    BY <1>7 DEF TabStore, StoreX, Access
  <2>3. /\ scr'.kX = m.reg /\ scr'.kY = scr.kY
        /\ scr'.index = scr.index /\ scr'.lo = scr.lo
        /\ scr'.hi = scr.hi
    BY <1>0, <2>2 DEF Scr
  <2> QED
    BY <2>1, <2>3, Ints
      DEF Invs, RowInv, ColInv, CurInv, StrayWrites, Scrolling, TabLabels, HaveCurPos
<1> QED
  BY <1>1, <1>2, <1>3, <1>4, <1>5, <1>6, <1>7 DEF Line

(* scrollup brings it back, though an echo may have done so before. *)
LEMMA ScrollInvs ==
  ASSUME Typing, Invs, Scroll
  PROVE  Invs'
<1> USE ScreenAssumption
<1>0. scr \in Scr
  BY DEF Typing
<1>1. CASE LoadArg
  <2>1. /\ m.pc = "arg" /\ m'.pc = "copy"
        /\ m'.reg = m.reg /\ m'.n = scr.kY - (ROWS - 1)
        /\ tabbed' = tabbed /\ raced' = raced /\ torn' = torn
        /\ chars' = chars /\ beyond' = beyond
    BY <1>1 DEF LoadArg, Typing, histVars
  <2>2. scr' = scr
    BY <1>1 DEF LoadArg
  <2>3. /\ scr'.kX = scr.kX /\ scr'.kY = scr.kY
        /\ scr'.index = scr.index /\ scr'.lo = scr.lo
        /\ scr'.hi = scr.hi
    BY <1>0, <2>2 DEF Scr
  <2> QED
    BY <2>1, <2>3, Ints
      DEF Invs, RowInv, ColInv, CurInv, StrayWrites, Scrolling, TabLabels, HaveCurPos
<1>2. CASE CopyCell
  <2>1. /\ m.pc = "copy" /\ m'.pc = (IF m.i = SIZE - 1 THEN "subY" ELSE "copy")
        /\ m'.reg = m.reg /\ m'.n = m.n
        /\ tabbed' = tabbed /\ raced' = raced /\ torn' = torn
        /\ chars' = chars /\ beyond' = beyond
    BY <1>2 DEF CopyCell, Typing, histVars
  <2>2. scr' = [scr EXCEPT !.video[m.i] = ScrolledCell(scr.video, m.i, m.n)]
    BY <1>2 DEF CopyCell
  <2>3. /\ scr'.kX = scr.kX /\ scr'.kY = scr.kY
        /\ scr'.index = scr.index /\ scr'.lo = scr.lo
        /\ scr'.hi = scr.hi
    BY <1>0, <2>2 DEF Scr
  <2> QED
    BY <2>1, <2>3, Ints
      DEF Invs, RowInv, ColInv, CurInv, StrayWrites, Scrolling, TabLabels, HaveCurPos
<1>3. CASE SubLoad
  BY <1>0, <1>3, Ints, AccessIs
    DEF SubLoad, Load, Invs, RowInv, ColInv, CurInv, StrayWrites, Scrolling, TabLabels,
        HaveCurPos
<1>4. CASE SubStore
  <2>1. /\ m.pc = "subY2" /\ m'.pc = "neg"
        /\ m'.reg = m.reg /\ m'.n = m.n
        /\ tabbed' = tabbed /\ raced' = raced /\ torn' = torn
        /\ chars' = chars /\ beyond' = beyond
    BY <1>4 DEF SubStore, StoreY, Access, Typing, histVars
  <2>2. scr' = [scr EXCEPT !.kY = SChar(m.reg - m.n)]
    BY <1>4 DEF SubStore, StoreY, Access
  <2>3. /\ scr'.kX = scr.kX /\ scr'.kY = SChar(m.reg - m.n)
        /\ scr'.index = scr.index /\ scr'.lo = scr.lo
        /\ scr'.hi = scr.hi
    BY <1>0, <2>2 DEF Scr
  <2>4. SChar(m.reg - m.n) = m.reg - m.n
    BY <2>1, <2>3, Ints, SmallSigned DEF Invs, RowInv
  <2> QED
    BY <2>1, <2>3, <2>4, Ints
      DEF Invs, RowInv, ColInv, CurInv, StrayWrites, Scrolling, TabLabels, HaveCurPos
<1>5. CASE NotNeg
  <2>1. /\ m.pc = "neg" /\ m'.pc = "curY"
        /\ m'.reg = m.reg /\ m'.n = m.n
        /\ tabbed' = tabbed /\ raced' = raced /\ torn' = torn
        /\ chars' = chars /\ beyond' = beyond
    BY <1>5 DEF NotNeg, StoreY, Access, Typing, histVars
  <2>2. scr' = [scr EXCEPT !.kY = IF scr.kY < 0 THEN 0 ELSE scr.kY]
    BY <1>5 DEF NotNeg, StoreY, Access
  <2>3. /\ scr'.kX = scr.kX /\ scr'.kY = (IF scr.kY < 0 THEN 0 ELSE scr.kY)
        /\ scr'.index = scr.index /\ scr'.lo = scr.lo
        /\ scr'.hi = scr.hi
    BY <1>0, <2>2 DEF Scr
  <2> QED
    BY <2>1, <2>3, Ints
      DEF Invs, RowInv, ColInv, CurInv, StrayWrites, Scrolling, TabLabels, HaveCurPos
<1> QED
  BY <1>1, <1>2, <1>3, <1>4, <1>5 DEF Scroll

(* update_cursor ends with both registers set. *)
LEMMA CursorInvs ==
  ASSUME Typing, Invs, Cursor
  PROVE  Invs'
<1> USE ScreenAssumption
<1>0. scr \in Scr
  BY DEF Typing
<1>1. CASE CurY
  BY <1>0, <1>1, Ints, AccessIs
    DEF CurY, Load, Invs, RowInv, ColInv, CurInv, StrayWrites, Scrolling, TabLabels,
        HaveCurPos
<1>2. CASE CurX
  BY <1>0, <1>2, Ints, AccessIs
    DEF CurX, Load, Invs, RowInv, ColInv, CurInv, StrayWrites, Scrolling, TabLabels,
        HaveCurPos
<1>3. CASE IndexLo
  <2>1. /\ m.pc = "indexLo" /\ m'.pc = "dataLo"
        /\ m'.reg = m.reg /\ m'.n = m.n
        /\ tabbed' = tabbed /\ raced' = raced /\ torn' = torn
        /\ chars' = chars /\ beyond' = beyond
    BY <1>3 DEF IndexLo, Access, Typing, histVars
  <2>2. scr' = [scr EXCEPT !.index = "lo"]
    BY <1>3 DEF IndexLo, Access
  <2>3. /\ scr'.kX = scr.kX /\ scr'.kY = scr.kY
        /\ scr'.index = "lo" /\ scr'.lo = scr.lo
        /\ scr'.hi = scr.hi
    BY <1>0, <2>2 DEF Scr
  <2> QED
    BY <2>1, <2>3, Ints
      DEF Invs, RowInv, ColInv, CurInv, StrayWrites, Scrolling, TabLabels, HaveCurPos
<1>4. CASE DataLo
  <2>1. /\ m.pc = "dataLo" /\ m'.pc = "indexHi"
        /\ m'.reg = m.reg /\ m'.n = m.n
        /\ tabbed' = tabbed /\ raced' = raced /\ torn' = torn
        /\ chars' = chars /\ beyond' = beyond
    BY <1>4 DEF DataLo, Access, Typing, histVars
  <2>2. scr' = OutData(m.reg % BYTE)
    BY <1>4 DEF DataLo, Access
  <2>3. /\ scr'.kX = scr.kX /\ scr'.kY = scr.kY
        /\ scr'.index = scr.index /\ scr'.lo = (IF scr.index = "lo" THEN m.reg % BYTE ELSE scr.lo)
        /\ scr'.hi = (IF scr.index = "lo" THEN scr.hi ELSE m.reg % BYTE)
    BY <1>0, <2>2 DEF Scr, OutData
  <2> QED
    BY <2>1, <2>3, Ints
      DEF Invs, RowInv, ColInv, CurInv, StrayWrites, Scrolling, TabLabels, HaveCurPos
<1>5. CASE IndexHi
  <2>1. /\ m.pc = "indexHi" /\ m'.pc = "dataHi"
        /\ m'.reg = m.reg /\ m'.n = m.n
        /\ tabbed' = tabbed /\ raced' = raced /\ torn' = torn
        /\ chars' = chars /\ beyond' = beyond
    BY <1>5 DEF IndexHi, Access, Typing, histVars
  <2>2. scr' = [scr EXCEPT !.index = "hi"]
    BY <1>5 DEF IndexHi, Access
  <2>3. /\ scr'.kX = scr.kX /\ scr'.kY = scr.kY
        /\ scr'.index = "hi" /\ scr'.lo = scr.lo
        /\ scr'.hi = scr.hi
    BY <1>0, <2>2 DEF Scr
  <2> QED
    BY <2>1, <2>3, Ints
      DEF Invs, RowInv, ColInv, CurInv, StrayWrites, Scrolling, TabLabels, HaveCurPos
<1>6. CASE DataHi
  <2>1. /\ m.pc = "dataHi" /\ m'.pc = "idle"
        /\ m'.reg = 0 /\ m'.n = 0
        /\ tabbed' = tabbed /\ raced' = raced /\ torn' = torn
        /\ chars' = chars /\ beyond' = beyond
    BY <1>6 DEF DataHi, Idle, Typing, histVars
  <2>2. scr' = OutData(m.reg \div BYTE)
    BY <1>6 DEF DataHi
  <2>3. /\ scr'.kX = scr.kX /\ scr'.kY = scr.kY
        /\ scr'.index = scr.index
        /\ scr'.lo = (IF scr.index = "lo" THEN m.reg \div BYTE ELSE scr.lo)
        /\ scr'.hi = (IF scr.index = "lo" THEN scr.hi ELSE m.reg \div BYTE)
    BY <1>0, <2>2 DEF Scr, OutData
  <2>4. m.reg \in Nat /\ m.reg < BYTE * BYTE
    BY <2>1, <2>3 DEF Typing, HaveCurPos
  <2>5. ~torn => scr'.hi * BYTE + scr'.lo = CursorPos(scr'.kX, scr'.kY)
    <3> SUFFICES ASSUME ~torn
                 PROVE  scr'.hi * BYTE + scr'.lo = CursorPos(scr'.kX, scr'.kY)
      OBVIOUS
    <3>1. /\ m.reg = CursorPos(scr.kX, scr.kY) /\ scr.lo = m.reg % BYTE
          /\ scr.index = "hi"
      BY <2>1, <2>3 DEF Invs, CurInv, HaveCurPos
    <3>2. scr'.hi = m.reg \div BYTE /\ scr'.lo = m.reg % BYTE
      BY <2>1, <2>3, <3>1
    <3>3. (m.reg \div BYTE) * BYTE + (m.reg % BYTE) = m.reg
      BY <2>4, CursorBytes
    <3> QED
      BY <2>1, <2>3, <3>1, <3>2, <3>3
  <2>6. CurInv'
    BY <2>1, <2>3, <2>5 DEF CurInv, HaveCurPos
  <2> QED
    BY <2>1, <2>3, <2>6, Ints DEF Invs, RowInv, ColInv, StrayWrites, Scrolling, TabLabels
<1> QED
  BY <1>1, <1>2, <1>3, <1>4, <1>5, <1>6 DEF Cursor

(* The calls of the system set the colour. *)
LEMMA SyscallsInvs ==
  ASSUME Typing, Invs, Syscalls
  PROVE  (Typing /\ Invs)'
<1> USE ScreenAssumption
<1>0. scr \in Scr
  BY DEF Typing
<1>1. ASSUME NEW a \in Nat, scr' = [scr EXCEPT !.kattr = a], printing' \in {0, White, Yellow},
             UNCHANGED <<beyond, m, histVars>>
      PROVE  (Typing /\ Invs)'
  <2>1. scr' \in Scr
    BY <1>0, <1>1, StoreType
  <2>2. /\ scr'.kX = scr.kX /\ scr'.kY = scr.kY
        /\ scr'.index = scr.index /\ scr'.lo = scr.lo /\ scr'.hi = scr.hi
    BY <1>0, <1>1 DEF Scr
  <2>3. Typing'
    BY <1>1, <2>1 DEF Typing, histVars
  <2>4. Invs'
    BY <1>1, <2>2 DEF Invs, RowInv, ColInv, CurInv, StrayWrites, histVars
  <2> QED
    BY <2>3, <2>4
<1>2. CASE SYS_PRINT
  BY <1>1, <1>2 DEF SYS_PRINT, StartPrint, White
<1>3. CASE SYS_LS
  BY <1>1, <1>3 DEF SYS_LS, StartPrint, Yellow
<1>4. CASE SYS_SETCOLOR
  <2>1. PICK a \in Colors : scr' = [scr EXCEPT !.kattr = a]
    BY <1>4 DEF SYS_SETCOLOR
  <2> QED
    BY <1>1, <1>4, <2>1 DEF SYS_SETCOLOR, Typing
<1>5. CASE EndPrint
  BY <1>5 DEF EndPrint, Typing, Invs, RowInv, ColInv, CurInv, StrayWrites, histVars
<1> QED
  BY <1>2, <1>3, <1>4, <1>5 DEF Syscalls

(* The call of putcar for the next character. *)
LEMMA PutcarInvs ==
  ASSUME Typing, Invs, NEW kind \in {"glyph", "nl", "tab", "cr"}, Putcar(kind)
  PROVE  (Typing /\ Invs)'
<1> USE ScreenAssumption
<1> DEFINE c == IF kind = "glyph" THEN chars + 1
                ELSE IF kind = "nl" THEN NL ELSE IF kind = "tab" THEN TABC ELSE CR
           b == IF c = TABC THEN "tab" ELSE IF c > 0 THEN "addr" ELSE "zeroX"
<1>1. c \in Int /\ chars \in Int
  BY DEF Typing, NL, TABC, CR
<1>2. /\ m.pc = "idle" /\ m' = [m EXCEPT !.pc = b, !.c = c] /\ scr' = scr
      /\ chars' = chars + 1 /\ chars < MaxChars /\ tabbed' = (tabbed \/ c = TABC)
      /\ torn' = FALSE /\ UNCHANGED <<beyond, printing, echoes, raced, recolored>>
  BY DEF Putcar
<1>3. b \in {"tab", "addr", "zeroX"} /\ (b = "tab" => c = TABC)
  OBVIOUS
<1> HIDE DEF c, b
<1>4. m' \in [pc : Labels, c : Int, reg : Int, n : Int, i : Cells] /\ m'.pc = b
  BY <1>1, <1>2, <1>3 DEF Typing, Labels
<1>5. Typing'
  <2>1. tabbed' \in BOOLEAN /\ torn' \in BOOLEAN
    BY <1>2, Zenon
  <2>2. chars' \in 0..MaxChars
    BY <1>1, <1>2 DEF Typing
  <2>3. m'.pc # "tab3" /\ m'.pc \notin HaveCurPos
    BY <1>3, <1>4 DEF HaveCurPos
  <2> QED
    BY <1>2, <1>4, <2>1, <2>2, <2>3 DEF Typing
<1>6. Invs'
  BY <1>2, <1>3, <1>4, Ints
    DEF Invs, RowInv, ColInv, CurInv, StrayWrites, Scrolling, TabLabels, HaveCurPos
<1> QED
  BY <1>5, <1>6

(* An echo, wherever it comes: it finds the row at most one below the      *)
(* screen and, without tabs, the column at most one beyond it, never both, *)
(* and leaves the cursor on the screen.                                    *)
LEMMA EchoInvs ==
  ASSUME Typing, Invs, NEW attr \in Nat, NEW cs \in Seq(Int), Len(cs) \in {1, 3},
         \A k \in DOMAIN cs : cs[k] # TABC, Echo(attr, cs)
  PROVE  (Typing /\ Invs)'
<1> USE ScreenAssumption
<1> DEFINE s0 == [scr EXCEPT !.kattr = attr]
           s1 == putcar(s0, cs[1])
           s2 == putcar(s1, cs[2])
           s3 == putcar(s2, cs[3])
<1>1. /\ chars + Len(cs) <= MaxChars /\ chars' = chars + Len(cs)
      /\ echoes < MaxEcho /\ echoes' = echoes + 1
      /\ raced' = (raced \/ m.pc # "idle")
      /\ recolored' = (recolored \/ printing \notin {0, attr})
      /\ torn' = (m.pc \in CursorLabels \/ (torn /\ m.pc # "idle"))
      /\ scr' = (IF Len(cs) = 1 THEN s1 ELSE s3)
      /\ beyond' = beyond \cup Stray(s0, cs[1])
                         \cup (IF Len(cs) = 1 THEN {} ELSE Stray(s1, cs[2]))
      /\ m' = m /\ printing' = printing /\ tabbed' = tabbed
  BY DEF Echo
<1>2. s0 \in Scr /\ s0.kX = scr.kX /\ s0.kY = scr.kY
  BY DEF Typing, Scr
<1>3. cs[1] \in Int /\ cs[1] # TABC
  OBVIOUS
<1>4. Len(cs) = 3 => cs[2] \in Int /\ cs[2] # TABC /\ cs[3] \in Int /\ cs[3] # TABC
  <2> SUFFICES ASSUME Len(cs) = 3
               PROVE  cs[2] \in Int /\ cs[2] # TABC /\ cs[3] \in Int /\ cs[3] # TABC
    OBVIOUS
  <2>1. DOMAIN cs = 1..3 /\ \A k \in 1..3 : cs[k] \in Int
    OBVIOUS
  <2>2. 2 \in DOMAIN cs /\ 3 \in DOMAIN cs
    BY <2>1
  <2> QED
    BY <2>1, <2>2
<1> HIDE DEF s0
<1>5. /\ s1 \in Scr
      /\ s0.kY \in 0..ROWS => s1.kY \in 0..(ROWS - 1)
      /\ s0.kY \in {ROWS - 1, ROWS} => s1.kY = ROWS - 1
      /\ s0.kX \in 0..COLS => s1.kX \in 0..(COLS - 1)
      /\ s1.hi * BYTE + s1.lo = CursorPos(s1.kX, s1.kY)
  BY <1>2, <1>3, PutcarIs
<1> HIDE DEF s1
<1>6. ASSUME Len(cs) = 3
      PROVE  /\ s2 \in Scr
             /\ s1.kY \in 0..ROWS => s2.kY \in 0..(ROWS - 1)
             /\ s1.kY \in {ROWS - 1, ROWS} => s2.kY = ROWS - 1
             /\ s1.kX \in 0..COLS => s2.kX \in 0..(COLS - 1)
  BY <1>4, <1>5, <1>6, PutcarIs
<1> HIDE DEF s2
<1>7. ASSUME Len(cs) = 3
      PROVE  /\ s3 \in Scr
             /\ s2.kY \in 0..ROWS => s3.kY \in 0..(ROWS - 1)
             /\ s2.kY \in {ROWS - 1, ROWS} => s3.kY = ROWS - 1
             /\ s2.kX \in 0..COLS => s3.kX \in 0..(COLS - 1)
             /\ s3.hi * BYTE + s3.lo = CursorPos(s3.kX, s3.kY)
  BY <1>4, <1>6, <1>7, PutcarIs
<1> HIDE DEF s3
<1>8. /\ scr' \in Scr
      /\ scr.kY \in 0..ROWS => scr'.kY \in 0..(ROWS - 1)
      /\ scr.kY \in {ROWS - 1, ROWS} => scr'.kY = ROWS - 1
      /\ scr.kX \in 0..COLS => scr'.kX \in 0..(COLS - 1)
      /\ scr'.hi * BYTE + scr'.lo = CursorPos(scr'.kX, scr'.kY)
  <2>1. CASE Len(cs) = 1
    BY <1>1, <1>2, <1>5, <2>1
  <2>2. CASE Len(cs) = 3
    <3>1. scr.kY \in 0..ROWS => s1.kY \in 0..ROWS
      BY <1>2, <1>5
    <3>2. scr.kY \in 0..ROWS => s2.kY \in 0..ROWS
      BY <1>6, <2>2, <3>1
    <3>3. scr.kX \in 0..COLS => s2.kX \in 0..COLS
      BY <1>2, <1>5, <1>6, <2>2
    <3>4. scr.kY \in {ROWS - 1, ROWS} => s2.kY = ROWS - 1
      BY <1>2, <1>5, <1>6, <2>2
    <3> QED
      BY <1>1, <1>7, <2>2, <3>2, <3>3, <3>4
  <2> QED
    BY <2>1, <2>2
<1>9. Typing'
  <2>1. raced' \in BOOLEAN /\ recolored' \in BOOLEAN /\ torn' \in BOOLEAN
    BY <1>1, Zenon
  <2>2. echoes' \in 0..MaxEcho /\ chars' \in 0..MaxChars
    BY <1>1 DEF Typing
  <2> QED
    BY <1>1, <1>8, <2>1, <2>2 DEF Typing
<1>10. RowInv'
  <2>1. scr'.kY \in 0..(ROWS - 1)
    BY <1>8 DEF Invs, RowInv
  <2>2. m.pc \in Scrolling => scr'.kY = ROWS - 1
    BY <1>8 DEF Invs, RowInv
  <2> QED
    BY <1>1, <2>1, <2>2 DEF Invs, RowInv, Scrolling
<1>11. ColInv'
  <2>1. ~tabbed => scr'.kX \in 0..(COLS - 1)
    BY <1>8 DEF Invs, ColInv
  <2> QED
    BY <1>1, <2>1 DEF Invs, ColInv
<1>12. CurInv'
  BY <1>1, <1>8 DEF Invs, CurInv, HaveCurPos, CursorLabels
<1>13. StrayWrites'
  <2> SUFFICES ASSUME ~tabbed
               PROVE  beyond' \subseteq (IF raced' THEN SIZE..(SIZE + COLS - 1) ELSE {})
    BY <1>1 DEF StrayWrites
  <2>1. scr.kX \in 0..COLS /\ scr.kY \in 0..ROWS
    BY DEF Invs, ColInv, RowInv
  <2>2. /\ scr.kX = COLS => scr.kY < ROWS /\ m.pc # "idle"
        /\ scr.kY = ROWS => m.pc # "idle"
    BY <2>1 DEF Invs, ColInv, RowInv, Scrolling
  <2> DEFINE a0 == Addr(s0.kX, s0.kY)
  <2>3. a0 \in Cells \/ (m.pc # "idle" /\ a0 \in SIZE..(SIZE + COLS - 1))
    <3>1. a0 = Addr(scr.kX, scr.kY)
      BY <1>2
    <3>2. scr.kX \in Int /\ scr.kY \in Int /\ 0 <= scr.kX /\ 0 <= scr.kY
      BY <2>1
    <3>3. /\ scr.kX < COLS /\ scr.kY < ROWS => a0 \in Cells
          /\ scr.kX <= COLS /\ scr.kY < ROWS => a0 \in 0..SIZE
          /\ scr.kX < COLS /\ scr.kY = ROWS => a0 \in SIZE..(SIZE + COLS - 1)
      BY <3>1, <3>2, AddrRange
    <3> HIDE DEF a0
    <3>5. a0 \in 0..SIZE => a0 \in Cells \/ a0 \in SIZE..(SIZE + COLS - 1)
      BY Ints DEF Cells
    <3> QED
      BY <2>1, <2>2, <3>3, <3>5
  <2>4. Addr(s1.kX, s1.kY) \in Cells
    <3>1. s1.kX \in 0..(COLS - 1) /\ s1.kY \in 0..(ROWS - 1)
      BY <1>2, <1>5, <2>1
    <3>2. s1.kX \in Int /\ s1.kY \in Int /\ 0 <= s1.kX /\ 0 <= s1.kY /\ s1.kX < COLS /\ s1.kY < ROWS
      BY <3>1
    <3> QED
      BY <3>2, AddrRange
  <2>5. Stray(s0, cs[1]) \subseteq (IF m.pc # "idle" THEN SIZE..(SIZE + COLS - 1) ELSE {})
    BY <2>3 DEF Stray
  <2>6. Stray(s1, cs[2]) = {}
    BY <2>4 DEF Stray
  <2>7. beyond \subseteq (IF raced THEN SIZE..(SIZE + COLS - 1) ELSE {})
    BY DEF Invs, StrayWrites
  <2> QED
    BY <1>1, <2>5, <2>6, <2>7
<1> QED
  BY <1>9, <1>10, <1>11, <1>12, <1>13 DEF Invs

(* The three kinds of echo. *)
LEMMA EchoesInvs ==
  ASSUME Typing, Invs, EchoGlyph \/ EchoEnter \/ EchoCtrlC
  PROVE  (Typing /\ Invs)'
<1>1. chars \in Nat
  BY ScreenAssumption DEF Typing
<1>2. CASE EchoGlyph
  <2>1. /\ <<chars + 1>> \in Seq(Int) /\ Len(<<chars + 1>>) = 1
        /\ \A k \in DOMAIN <<chars + 1>> : <<chars + 1>>[k] # TABC
    BY <1>1 DEF TABC
  <2> QED
    BY <1>2, <2>1, EchoInvs DEF EchoGlyph, White
<1>3. CASE EchoEnter
  <2>1. /\ <<NL>> \in Seq(Int) /\ Len(<<NL>>) = 1
        /\ \A k \in DOMAIN <<NL>> : <<NL>>[k] # TABC
    BY DEF TABC, NL
  <2> QED
    BY <1>3, <2>1, EchoInvs DEF EchoEnter, White
<1>4. CASE EchoCtrlC
  <2> DEFINE cs == <<chars + 1, chars + 2, NL>>
  <2>1. cs \in Seq(Int) /\ Len(cs) = 3 /\ \A k \in DOMAIN cs : cs[k] # TABC
    BY <1>1 DEF TABC, NL
  <2>2. Echo(Red, cs) /\ Red \in Nat
    BY <1>4 DEF EchoCtrlC, Red
  <2> HIDE DEF cs
  <2> QED
    BY <2>1, <2>2, EchoInvs
<1> QED
  BY <1>2, <1>3, <1>4

-----------------------------------------------------------------------------
(* Induction.  The least-number principle is an instance of WFMin: it      *)
(* speaks of sets, which the provers can be given.                         *)

(* A set of numbers with 0 and every successor holds all of them. *)
LEMMA Induction ==
  ASSUME NEW S, 0 \in S, \A n \in Nat : n \in S => n + 1 \in S
  PROVE  \A n \in Nat : n \in S
<1> SUFFICES ASSUME Nat \ S # {} PROVE FALSE
  OBVIOUS
<1>1. PICK k \in Nat \ S : \A y \in Nat \ S : ~(<<y, k>> \in OpToRel(<, Nat))
  BY NatLessThanWellFounded, WFMin
<1>2. \A x, y \in Nat : x < y => <<x, y>> \in OpToRel(<, Nat)
  BY DEF OpToRel
<1>3. \A y \in Nat \ S : ~(y < k)
  BY <1>1, <1>2
<1>4. k - 1 \in Nat /\ k - 1 \in S
  BY <1>3
<1> QED
  BY <1>4

-----------------------------------------------------------------------------
(* The page: what a further character changes on it. *)

Chr == [c : {NL, TABC, CR} \cup (Nat \ {0}), attr : Nat]

(* The position on the page after each character of a text, and after all. *)
PosIn(t) ==
  LET pos[k \in 0..Len(t)] ==
        IF k = 0 THEN [row |-> 0, col |-> 0] ELSE Advance(pos[k - 1], t[k].c)
  IN pos

End(t) == PosIn(t)[Len(t)]

(* The first line on the screen. *)
Top(t) == IF End(t).row < ROWS THEN 0 ELSE End(t).row - (ROWS - 1)

(* The glyphs put at a position of the page, and what is left there. *)
Hits(t, p) == {k \in DOMAIN t : t[k].c > 0 /\ PosIn(t)[k - 1] = p}

Untouched(p) == IF p.row < ROWS THEN Old ELSE Blank

At(t, p) ==
  LET ks == Hits(t, p)
      k  == CHOOSE i \in ks : \A j \in ks : j <= i
  IN IF ks # {} THEN [ch |-> t[k].c, attr |-> t[k].attr] ELSE Untouched(p)

(* The same for a cell of the screen whose first line is top. *)
CellPos(top, a) == [row |-> top + a \div COLS, col |-> a % COLS]
Seen(t, top, a) == At(t, CellPos(top, a))

(* No tab went beyond the right margin. *)
OnPage(t) == \A k \in DOMAIN t : PosIn(t)[k].col < COLS

(* A cell is as wanted, the colour unless rc; the screen shows t; the      *)
(* cursor is after t.                                                      *)
Like(cell, want, rc) == cell.ch = want.ch /\ (rc \/ cell.attr = want.attr)
Shows(v, t, top, rc) == \A a \in Cells : Like(v[a], Seen(t, top, a), rc)
Stands(s, t, top)    == s.kX = End(t).col /\ s.kY = End(t).row - top
Rest(s, t, rc)       == Stands(s, t, Top(t)) /\ Shows(s.video, t, Top(t), rc)

Pos == [row : Nat, col : Nat]

(* The position after a character. *)
LEMMA AdvanceType ==
  ASSUME NEW p \in Pos, NEW c
  PROVE  Advance(p, c) \in Pos /\ p.row <= Advance(p, c).row /\ Advance(p, c).row <= p.row + 1
<1> USE ScreenAssumption
<1> DEFINE tabbedCol == (p.col \div TAB + 1) * TAB
<1>1. p.row \in Nat /\ p.col \in Nat
  BY DEF Pos
<1>2. tabbedCol \in Nat
  BY <1>1
<1> HIDE DEF tabbedCol
<1>3. Advance(p, c) \in {[row |-> p.row + 1, col |-> 0], [row |-> p.row, col |-> 0],
                         [row |-> p.row, col |-> tabbedCol], [row |-> p.row, col |-> p.col + 1]}
  BY DEF Advance, tabbedCol
<1> QED
  BY <1>1, <1>2, <1>3 DEF Pos

Follows(g, t, n) == \A k \in Nat : k <= n =>
  g[k] = IF k = 0 THEN [row |-> 0, col |-> 0] ELSE Advance(g[k - 1], t[k].c)

(* The recursion of PosIn has a solution. *)
LEMMA PosExists ==
  ASSUME NEW t
  PROVE  \A n \in Nat : \E g : DOMAIN g = 0..n /\ Follows(g, t, n)
<1> DEFINE S == {n \in Nat : \E g : DOMAIN g = 0..n /\ Follows(g, t, n)}
<1>1. 0 \in S
  <2> DEFINE g == [k \in 0..0 |-> [row |-> 0, col |-> 0]]
  <2>1. DOMAIN g = 0..0 /\ Follows(g, t, 0)
    BY DEF Follows
  <2> QED
    BY <2>1
<1>2. ASSUME NEW n \in Nat, n \in S PROVE n + 1 \in S
  <2>1. PICK g : DOMAIN g = 0..n /\ Follows(g, t, n)
    BY <1>2
  <2> DEFINE w == Advance(g[n], t[n + 1].c)
             h == [k \in 0..(n + 1) |-> IF k = n + 1 THEN w ELSE g[k]]
  <2> HIDE DEF w
  <2>2. ASSUME NEW k \in Nat, k <= n + 1
        PROVE  h[k] = IF k = 0 THEN [row |-> 0, col |-> 0] ELSE Advance(h[k - 1], t[k].c)
    <3>1. CASE k = n + 1
      BY <3>1 DEF w
    <3>2. CASE k # n + 1
      <4>1. k \in 0..n /\ h[k] = g[k]
        BY <2>2, <3>2
      <4>2. k # 0 => k - 1 \in 0..n /\ h[k - 1] = g[k - 1]
        BY <4>1
      <4> QED
        BY <2>1, <2>2, <4>1, <4>2 DEF Follows
    <3> QED
      BY <3>1, <3>2
  <2>3. Follows(h, t, n + 1)
    BY <2>2 DEF Follows
  <2>4. DOMAIN h = 0..(n + 1)
    OBVIOUS
  <2> QED
    BY <2>3, <2>4
<1> HIDE DEF S
<1>3. \A n \in Nat : n \in S
  BY <1>1, <1>2, Induction
<1> QED
  BY <1>3 DEF S

(* PosIn, as its definition says. *)
LEMMA PosIs ==
  ASSUME NEW t \in Seq(Chr)
  PROVE  /\ PosIn(t)[0] = [row |-> 0, col |-> 0]
         /\ \A k \in 1..Len(t) : PosIn(t)[k] = Advance(PosIn(t)[k - 1], t[k].c)
<1> DEFINE n == Len(t)
           R(f) == [k \in 0..n |-> IF k = 0 THEN [row |-> 0, col |-> 0]
                                   ELSE Advance(f[k - 1], t[k].c)]
           v == CHOOSE f : f = R(f)
<1>1. n \in Nat
  OBVIOUS
<1>2. PosIn(t) = v
  BY Zenon DEF PosIn
<1> HIDE DEF n
<1>3. PICK g : DOMAIN g = 0..n /\ Follows(g, t, n)
  BY <1>1, PosExists
<1> DEFINE h == [k \in 0..n |-> g[k]]
<1>4. h = R(h)
  <2>1. ASSUME NEW k \in 0..n
        PROVE  h[k] = IF k = 0 THEN [row |-> 0, col |-> 0] ELSE Advance(h[k - 1], t[k].c)
    <3>1. k \in Nat /\ k <= n /\ (k # 0 => k - 1 \in 0..n)
      BY <1>1
    <3>2. g[k] = IF k = 0 THEN [row |-> 0, col |-> 0] ELSE Advance(g[k - 1], t[k].c)
      BY <1>3, <3>1 DEF Follows
    <3> QED
      BY <3>1, <3>2
  <2> QED
    BY <2>1
<1> HIDE DEF h
<1>5. v = R(v)
  BY <1>4, Zenon
<1> HIDE DEF v
<1>6. \A k \in 0..n : v[k] = IF k = 0 THEN [row |-> 0, col |-> 0]
                             ELSE Advance(v[k - 1], t[k].c)
  <2> DEFINE G(k) == IF k = 0 THEN [row |-> 0, col |-> 0] ELSE Advance(v[k - 1], t[k].c)
  <2>1. v = [k \in 0..n |-> G(k)]
    BY <1>5, Zenon
  <2> HIDE DEF G
  <2>2. \A k \in 0..n : v[k] = G(k)
    BY <2>1
  <2> QED
    BY <2>2 DEF G
<1>7. v[0] = [row |-> 0, col |-> 0]
  BY <1>1, <1>6
<1>8. ASSUME NEW k \in 1..n PROVE v[k] = Advance(v[k - 1], t[k].c)
  <2>1. k \in 0..n /\ k # 0
    BY <1>1
  <2> QED
    BY <1>6, <2>1
<1> QED
  BY <1>2, <1>7, <1>8 DEF n

(* The positions are positions. *)
LEMMA PosType ==
  ASSUME NEW t \in Seq(Chr)
  PROVE  \A k \in 0..Len(t) : PosIn(t)[k] \in Pos
<1> DEFINE n == Len(t)
           S == {k \in Nat : k <= n => PosIn(t)[k] \in Pos}
<1>1. n \in Nat
  OBVIOUS
<1>2. 0 \in S
  BY PosIs DEF Pos
<1>3. ASSUME NEW k \in Nat, k \in S PROVE k + 1 \in S
  <2> SUFFICES ASSUME k + 1 <= n PROVE PosIn(t)[k + 1] \in Pos
    OBVIOUS
  <2>1. PosIn(t)[k] \in Pos
    BY <1>1, <1>3
  <2>2. k + 1 \in 1..n /\ (k + 1) - 1 = k
    BY <1>1
  <2>3. PosIn(t)[k + 1] = Advance(PosIn(t)[k], t[k + 1].c)
    BY <2>2, PosIs
  <2> QED
    BY <2>1, <2>3, AdvanceType
<1> HIDE DEF S
<1>4. \A k \in Nat : k \in S
  BY <1>2, <1>3, Induction
<1> QED
  BY <1>1, <1>4 DEF S

(* The row never decreases. *)
LEMMA RowsGrow ==
  ASSUME NEW t \in Seq(Chr)
  PROVE  \A k \in 0..Len(t) : PosIn(t)[k].row <= End(t).row
<1> DEFINE n == Len(t)
           r(k) == PosIn(t)[k].row
           S == {j \in Nat : j <= n => r(n - j) <= r(n)}
<1>1. n \in Nat
  OBVIOUS
<1>2. \A k \in 0..n : r(k) \in Nat
  BY PosType DEF Pos
<1>3. ASSUME NEW k \in 1..n PROVE r(k - 1) <= r(k)
  <2>1. k - 1 \in 0..n
    BY <1>1
  <2>2. PosIn(t)[k - 1] \in Pos
    BY <2>1, PosType
  <2> QED
    BY <2>2, PosIs, AdvanceType
<1> HIDE DEF r
<1>4. 0 \in S
  <2>1. n - 0 = n /\ n \in 0..n
    BY <1>1
  <2> QED
    BY <1>2, <2>1
<1>5. ASSUME NEW j \in Nat, j \in S PROVE j + 1 \in S
  <2> SUFFICES ASSUME j + 1 <= n PROVE r(n - (j + 1)) <= r(n)
    OBVIOUS
  <2> HIDE DEF n
  <2> DEFINE k == n - j
  <2>1. k \in 1..n /\ n - (j + 1) = k - 1 /\ k \in 0..n /\ k - 1 \in 0..n /\ n \in 0..n /\ j <= n
    BY <1>1
  <2>2. r(k) <= r(n)
    BY <1>5, <2>1
  <2> HIDE DEF k
  <2>3. r(k - 1) <= r(k)
    BY <1>3, <2>1
  <2> QED
    BY <1>2, <2>1, <2>2, <2>3
<1> HIDE DEF S
<1>6. \A j \in Nat : j \in S
  BY <1>4, <1>5, Induction
<1>7. ASSUME NEW k \in 0..n PROVE r(k) <= r(n)
  <2>1. n - k \in Nat /\ n - k <= n /\ n - (n - k) = k
    BY <1>1
  <2>2. n - k \in S
    BY <1>6, <2>1
  <2> QED
    BY <2>1, <2>2 DEF S
<1> QED
  BY <1>7 DEF r, End

(* A further character leaves the positions before it alone. *)
LEMMA PosAppend ==
  ASSUME NEW t \in Seq(Chr), NEW x \in Chr
  PROVE  /\ \A k \in 0..Len(t) : PosIn(Append(t, x))[k] = PosIn(t)[k]
         /\ End(Append(t, x)) = Advance(End(t), x.c)
<1> DEFINE u == Append(t, x)
           n == Len(t)
           S == {k \in Nat : k <= n => PosIn(u)[k] = PosIn(t)[k]}
<1>1. /\ n \in Nat /\ u \in Seq(Chr) /\ Len(u) = n + 1 /\ u[n + 1] = x
      /\ \A k \in 1..n : u[k] = t[k]
  BY AppendProperties
<1> HIDE DEF u
<1>2. 0 \in S
  BY <1>1, PosIs
<1>3. ASSUME NEW k \in Nat, k \in S PROVE k + 1 \in S
  <2> SUFFICES ASSUME k + 1 <= n PROVE PosIn(u)[k + 1] = PosIn(t)[k + 1]
    OBVIOUS
  <2>1. PosIn(u)[k] = PosIn(t)[k] /\ k + 1 \in 1..n /\ k + 1 \in 1..(n + 1) /\ (k + 1) - 1 = k
    BY <1>1, <1>3
  <2>2. PosIn(t)[k + 1] = Advance(PosIn(t)[k], t[k + 1].c)
    BY <2>1, PosIs
  <2>3. PosIn(u)[k + 1] = Advance(PosIn(u)[k], u[k + 1].c)
    BY <1>1, <2>1, PosIs
  <2> QED
    BY <1>1, <2>1, <2>2, <2>3
<1> HIDE DEF S
<1>4. \A k \in Nat : k \in S
  BY <1>2, <1>3, Induction
<1>5. \A k \in 0..n : PosIn(u)[k] = PosIn(t)[k]
  BY <1>1, <1>4 DEF S
<1>6. End(u) = Advance(End(t), x.c)
  <2>1. n + 1 \in 1..(n + 1) /\ (n + 1) - 1 = n /\ n \in 0..n
    BY <1>1
  <2>2. PosIn(u)[n + 1] = Advance(PosIn(u)[n], u[n + 1].c)
    BY <1>1, <2>1, PosIs
  <2> QED
    BY <1>1, <1>5, <2>1, <2>2 DEF End
<1> QED
  BY <1>5, <1>6 DEF u

(* A non-empty set of numbers up to n has a greatest. *)
LEMMA Greatest ==
  ASSUME NEW n \in Nat, NEW S \in SUBSET (1..n), S # {}
  PROVE  \E i \in S : \A j \in S : j <= i
<1> DEFINE D == {d \in Nat : n - d \in S}
<1>0. \A j \in S : n - j \in D /\ n - (n - j) = j
  OBVIOUS
<1>1. D # {}
  BY <1>0
<1>2. PICK d \in D : \A y \in D : ~(<<y, d>> \in OpToRel(<, Nat))
  BY <1>1, NatLessThanWellFounded, WFMin
<1>3. \A x, y \in Nat : x < y => <<x, y>> \in OpToRel(<, Nat)
  BY DEF OpToRel
<1>4. \A y \in D : ~(y < d)
  BY <1>2, <1>3
<1>5. n - d \in S
  OBVIOUS
<1>6. ASSUME NEW j \in S PROVE j <= n - d
  <2>1. n - j \in D /\ ~(n - j < d) /\ d \in Nat /\ j \in Nat
    BY <1>0, <1>4
  <2> QED
    BY <2>1
<1> QED
  BY <1>5, <1>6

(* What a further character changes on the page: the place where it goes, *)
(* if it is a glyph.                                                       *)
LEMMA AtAppend ==
  ASSUME NEW t \in Seq(Chr), NEW x \in Chr, NEW p
  PROVE  At(Append(t, x), p) = IF x.c > 0 /\ End(t) = p THEN [ch |-> x.c, attr |-> x.attr]
                               ELSE At(t, p)
<1> DEFINE u == Append(t, x)
           n == Len(t)
           K(ks) == CHOOSE i \in ks : \A j \in ks : j <= i
<1>1. /\ n \in Nat /\ u \in Seq(Chr) /\ Len(u) = n + 1 /\ u[n + 1] = x
      /\ \A k \in 1..n : u[k] = t[k]
  BY AppendProperties
<1>2. \A k \in 0..n : PosIn(u)[k] = PosIn(t)[k]
  BY PosAppend
<1>3. DOMAIN t = 1..n /\ DOMAIN u = 1..(n + 1)
  BY <1>1
<1> HIDE DEF u, n
<1>4. Hits(t, p) \subseteq 1..n
  BY <1>3 DEF Hits
<1>5. ASSUME NEW k \in 1..n PROVE k \in Hits(u, p) <=> k \in Hits(t, p)
  <2>1. k \in 1..(n + 1) /\ k - 1 \in 0..n
    BY <1>1
  <2> QED
    BY <1>1, <1>2, <1>3, <2>1 DEF Hits
<1>6. n + 1 \in Hits(u, p) <=> (x.c > 0 /\ End(t) = p)
  <2>1. n + 1 \in 1..(n + 1) /\ (n + 1) - 1 = n /\ n \in 0..n
    BY <1>1
  <2> QED
    BY <1>1, <1>2, <1>3, <2>1 DEF Hits, End, n
<1>7. Hits(u, p) \subseteq 1..(n + 1)
  BY <1>3 DEF Hits
<1>8. CASE x.c > 0 /\ End(t) = p
  <2>1. n + 1 \in Hits(u, p) /\ \A j \in Hits(u, p) : j <= n + 1 /\ j \in Nat
    BY <1>1, <1>6, <1>7, <1>8
  <2> HIDE DEF K
  <2>2. K(Hits(u, p)) = n + 1
    <3>1. K(Hits(u, p)) \in Hits(u, p) /\ \A j \in Hits(u, p) : j <= K(Hits(u, p))
      BY <2>1 DEF K
    <3> QED
      BY <1>1, <2>1, <3>1
  <2>3. At(u, p) = [ch |-> u[n + 1].c, attr |-> u[n + 1].attr]
    BY <2>1, <2>2 DEF At, K
  <2> QED
    BY <1>1, <1>8, <2>3 DEF u
<1>9. CASE ~(x.c > 0 /\ End(t) = p)
  <2>1. Hits(u, p) = Hits(t, p)
    <3>1. n + 1 \notin Hits(u, p)
      BY <1>6, <1>9
    <3>2. \A k \in 1..(n + 1) : k = n + 1 \/ k \in 1..n
      BY <1>1
    <3> QED
      BY <1>4, <1>5, <1>7, <3>1, <3>2
  <2> HIDE DEF K
  <2>2. Hits(t, p) # {} => K(Hits(t, p)) \in 1..n
    <3>1. Hits(t, p) # {} => \E i \in Hits(t, p) : \A j \in Hits(t, p) : j <= i
      BY <1>1, <1>4, Greatest
    <3> QED
      BY <1>4, <3>1 DEF K
  <2>3. /\ At(u, p) = IF Hits(u, p) # {} THEN [ch |-> u[K(Hits(u, p))].c,
                                                attr |-> u[K(Hits(u, p))].attr]
                       ELSE Untouched(p)
        /\ At(t, p) = IF Hits(t, p) # {} THEN [ch |-> t[K(Hits(t, p))].c,
                                                attr |-> t[K(Hits(t, p))].attr]
                       ELSE Untouched(p)
    BY Zenon DEF At, K
  <2>4. At(u, p) = At(t, p)
    BY <1>1, <2>1, <2>2, <2>3
  <2> QED
    BY <1>9, <2>4 DEF u
<1> QED
  BY <1>8, <1>9

(* Nothing is below the row of the cursor. *)
LEMMA AtBelow ==
  ASSUME NEW t \in Seq(Chr), NEW p, p.row \in Nat, End(t).row < p.row
  PROVE  At(t, p) = Untouched(p)
<1>1. Hits(t, p) = {}
  <2> SUFFICES ASSUME NEW k \in DOMAIN t, PosIn(t)[k - 1] = p PROVE FALSE
    BY DEF Hits
  <2> DEFINE n == Len(t)
  <2>1. n \in Nat /\ k \in 1..n
    OBVIOUS
  <2> HIDE DEF n
  <2>2. k - 1 \in 0..n /\ n \in 0..n
    BY <2>1
  <2>3. PosIn(t)[k - 1].row <= End(t).row /\ End(t).row \in Nat
    BY <2>2, RowsGrow, PosType DEF n, End, Pos
  <2> QED
    BY <2>3
<1> QED
  BY <1>1, Zenon DEF At

(* The page of a longer text. *)
LEMMA OnPageAppend ==
  ASSUME NEW t \in Seq(Chr), NEW x \in Chr, OnPage(Append(t, x))
  PROVE  OnPage(t) /\ End(Append(t, x)).col < COLS
<1> DEFINE u == Append(t, x)
           n == Len(t)
<1>1. /\ n \in Nat /\ u \in Seq(Chr) /\ Len(u) = n + 1
  BY AppendProperties
<1>2. DOMAIN t = 1..n /\ DOMAIN u = 1..(n + 1)
  BY <1>1
<1>3. \A k \in 0..n : PosIn(u)[k] = PosIn(t)[k]
  BY PosAppend
<1> HIDE DEF u, n
<1>4. \A k \in 1..(n + 1) : PosIn(u)[k].col < COLS
  BY <1>2 DEF OnPage, u
<1>5. \A k \in 1..n : k \in 1..(n + 1) /\ k \in 0..n
  BY <1>1
<1>6. n + 1 \in 1..(n + 1)
  BY <1>1
<1> QED
  BY <1>1, <1>2, <1>3, <1>4, <1>5, <1>6 DEF OnPage, End, u

(* Where the cursor is on the page: never at or beyond the margin. *)
LEMMA EndIs ==
  ASSUME NEW t \in Seq(Chr), OnPage(t)
  PROVE  End(t) \in Pos /\ End(t).row \in Nat /\ End(t).col \in 0..(COLS - 1)
<1> USE ScreenAssumption
<1> DEFINE n == Len(t)
<1>1. n \in Nat /\ DOMAIN t = 1..n /\ n \in 0..n
  OBVIOUS
<1> HIDE DEF n
<1>2. PosIn(t)[n] \in Pos
  BY <1>1, PosType DEF n
<1>3. PosIn(t)[n].col < COLS
  <2>1. CASE n = 0
    BY <2>1, PosIs
  <2>2. CASE n # 0
    BY <1>1, <2>2 DEF OnPage
  <2> QED
    BY <2>1, <2>2
<1> QED
  BY <1>2, <1>3 DEF End, Pos, n

-----------------------------------------------------------------------------
(* The screen as a part of the page. *)

(* Quotient and remainder are unique. *)
LEMMA DivUnique ==
  ASSUME NEW n \in Nat \ {0}, NEW q \in Int, NEW r \in 0..(n - 1),
         NEW Q \in Int, NEW R \in 0..(n - 1), q * n + r = Q * n + R
  PROVE  q = Q /\ r = R
<1>1. ASSUME NEW a \in Int, NEW b \in Int, a < b PROVE a * n + n <= b * n
  <2>1. b = a + 1 + (b - a - 1) /\ b - a - 1 \in Nat
    BY <1>1
  <2>2. \A d \in Nat : (a + 1 + d) * n = a * n + n + d * n /\ d * n \in Nat
    OBVIOUS
  <2>3. a * n \in Int /\ b * n \in Int
    OBVIOUS
  <2> QED
    BY <2>1, <2>2, <2>3
<1>2. q * n \in Int /\ Q * n \in Int
  OBVIOUS
<1>3. ~(q < Q) /\ ~(Q < q)
  BY <1>1, <1>2
<1> QED
  BY <1>2, <1>3

(* The row and the column of a cell. *)
LEMMA CellIs ==
  ASSUME NEW a \in Cells
  PROVE  /\ a \in Nat /\ a \div COLS \in 0..(ROWS - 1) /\ a % COLS \in 0..(COLS - 1)
         /\ a = (a \div COLS) * COLS + (a % COLS)
         /\ a + COLS < SIZE <=> a \div COLS < ROWS - 1
<1> USE ScreenAssumption
<1> DEFINE q == a \div COLS
           r == a % COLS
<1>1. SIZE \in Nat /\ SIZE = ROWS * COLS
  BY DEF SIZE
<1>2. a \in Nat /\ a < SIZE
  BY <1>1 DEF Cells
<1>3. q \in Nat /\ r \in 0..(COLS - 1) /\ a = COLS * q + r
  BY <1>2
<1> HIDE DEF q, r
<1>4. q * COLS \in Nat /\ COLS * q = q * COLS
  BY <1>3
<1>5. ASSUME NEW b \in Nat, ROWS <= b PROVE SIZE <= b * COLS
  <2>1. b = ROWS + (b - ROWS) /\ b - ROWS \in Nat
    BY <1>5
  <2>2. \A d \in Nat : (ROWS + d) * COLS = ROWS * COLS + d * COLS /\ d * COLS \in Nat
    OBVIOUS
  <2> QED
    BY <1>1, <2>1, <2>2
<1>6. ASSUME NEW b \in Nat, b < ROWS PROVE b * COLS + COLS <= SIZE
  <2>1. ROWS = b + 1 + (ROWS - b - 1) /\ ROWS - b - 1 \in Nat
    BY <1>6
  <2>2. \A d \in Nat : (b + 1 + d) * COLS = b * COLS + COLS + d * COLS /\ d * COLS \in Nat
    BY <1>6
  <2>3. b * COLS \in Nat
    OBVIOUS
  <2> QED
    BY <1>1, <2>1, <2>2, <2>3
<1>7. q < ROWS
  BY <1>1, <1>2, <1>3, <1>4, <1>5
<1>8. (q + 1) * COLS = q * COLS + COLS
  BY <1>3
<1>9. a + COLS < SIZE <=> q < ROWS - 1
  <2>1. ASSUME q < ROWS - 1 PROVE a + COLS < SIZE
    <3>1. q + 1 \in Nat /\ q + 1 < ROWS
      BY <1>3, <2>1
    <3>2. (q + 1) * COLS + COLS <= SIZE
      BY <1>6, <3>1
    <3> QED
      BY <1>1, <1>3, <1>4, <1>8, <3>2
  <2>2. ASSUME ~(q < ROWS - 1) PROVE ~(a + COLS < SIZE)
    <3>1. q + 1 \in Nat /\ ROWS <= q + 1
      BY <1>3, <2>2
    <3>2. SIZE <= (q + 1) * COLS
      BY <1>5, <3>1
    <3> QED
      BY <1>1, <1>3, <1>4, <1>8, <3>2
  <2> QED
    BY <2>1, <2>2
<1> QED
  BY <1>2, <1>3, <1>4, <1>7, <1>9 DEF q, r

(* A cell and its address. *)
LEMMA CellUnique ==
  ASSUME NEW a \in Cells, NEW x \in 0..(COLS - 1), NEW y \in Int
  PROVE  (a \div COLS = y /\ a % COLS = x) <=> a = Addr(x, y)
<1> USE ScreenAssumption
<1> DEFINE q == a \div COLS
           r == a % COLS
<1>1. q \in Int /\ r \in 0..(COLS - 1) /\ a = q * COLS + r
  BY CellIs
<1> HIDE DEF q, r
<1>2. a = Addr(x, y) => q = y /\ r = x
  BY <1>1, DivUnique DEF Addr
<1>3. q = y /\ r = x => a = Addr(x, y)
  BY <1>1 DEF Addr
<1> QED
  BY <1>2, <1>3 DEF q, r

(* The cell below. *)
LEMMA CellBelow ==
  ASSUME NEW a \in Cells, a + COLS < SIZE
  PROVE  a + COLS \in Cells /\ (a + COLS) \div COLS = a \div COLS + 1
         /\ (a + COLS) % COLS = a % COLS
<1> USE ScreenAssumption
<1> DEFINE q == a \div COLS
           r == a % COLS
           b == a + COLS
           Q == b \div COLS
           R == b % COLS
<1>1. q \in Int /\ r \in 0..(COLS - 1) /\ a = q * COLS + r /\ a \in Nat
  BY CellIs
<1>2. SIZE \in Nat
  BY DEF SIZE
<1>3. b \in Cells
  BY <1>1, <1>2 DEF Cells
<1>4. Q \in Int /\ R \in 0..(COLS - 1) /\ b = Q * COLS + R
  BY <1>3, CellIs
<1> HIDE DEF q, r, Q, R
<1>5. (q + 1) * COLS + r = Q * COLS + R
  <2>1. (q + 1) * COLS = q * COLS + COLS /\ q * COLS \in Int /\ Q * COLS \in Int
    BY <1>1, <1>4
  <2> QED
    BY <1>1, <1>4, <2>1
<1>6. q + 1 = Q /\ r = R
  <2> DEFINE q1 == q + 1
  <2>1. q1 \in Int /\ q1 * COLS + r = Q * COLS + R
    BY <1>1, <1>5
  <2> HIDE DEF q1
  <2>2. q1 = Q /\ r = R
    BY <1>1, <1>4, <2>1, DivUnique
  <2> QED
    BY <2>2 DEF q1
<1> QED
  BY <1>3, <1>6 DEF q, r, Q, R

(* The line of the cursor on the screen. *)
LEMMA TopIs ==
  ASSUME NEW t \in Seq(Chr), OnPage(t)
  PROVE  Top(t) \in Nat /\ End(t).row - Top(t) \in 0..(ROWS - 1)
         /\ (Top(t) # 0 => End(t).row - Top(t) = ROWS - 1)
BY EndIs, ScreenAssumption DEF Top

(* A further character scrolls the screen by at most one line. *)
LEMMA TopAppend ==
  ASSUME NEW t \in Seq(Chr), NEW x \in Chr, OnPage(Append(t, x))
  PROVE  LET u == Append(t, x)
             y == End(u).row - Top(t)
         IN /\ y \in 0..ROWS /\ y \in {End(t).row - Top(t), End(t).row - Top(t) + 1}
            /\ y < ROWS => Top(u) = Top(t)
            /\ y = ROWS => Top(u) = Top(t) + 1 /\ End(u).row = End(t).row + 1
<1> USE ScreenAssumption
<1> DEFINE u == Append(t, x)
<1>1. OnPage(t)
  BY OnPageAppend
<1>2. /\ Top(t) \in Nat /\ End(t).row - Top(t) \in 0..(ROWS - 1) /\ End(t).row \in Nat
      /\ (Top(t) # 0 => End(t).row - Top(t) = ROWS - 1) /\ End(t) \in Pos
  BY <1>1, TopIs, EndIs
<1>3. End(u) = Advance(End(t), x.c)
  BY PosAppend
<1>4. End(u).row \in Nat /\ End(t).row <= End(u).row /\ End(u).row <= End(t).row + 1
  BY <1>2, <1>3, AdvanceType DEF Pos
<1>5. Top(u) = IF End(u).row < ROWS THEN 0 ELSE End(u).row - (ROWS - 1)
  BY DEF Top
<1>6. Top(t) = IF End(t).row < ROWS THEN 0 ELSE End(t).row - (ROWS - 1)
  BY DEF Top
<1> HIDE DEF u
<1> SUFFICES LET y == End(u).row - Top(t)
             IN /\ y \in 0..ROWS /\ y \in {End(t).row - Top(t), End(t).row - Top(t) + 1}
                /\ y < ROWS => Top(u) = Top(t)
                /\ y = ROWS => Top(u) = Top(t) + 1 /\ End(u).row = End(t).row + 1
  BY DEF u
<1>7. \A r \in Nat, R \in Nat, T \in Nat : \A TT :
        /\ r <= R /\ R <= r + 1
        /\ T = (IF r < ROWS THEN 0 ELSE r - (ROWS - 1))
        /\ TT = (IF R < ROWS THEN 0 ELSE R - (ROWS - 1))
        => /\ R - T \in 0..ROWS /\ R - T \in {r - T, r - T + 1}
           /\ R - T < ROWS => TT = T
           /\ R - T = ROWS => TT = T + 1 /\ R = r + 1
  OBVIOUS
<1> QED
  BY <1>2, <1>4, <1>5, <1>6, <1>7

(* What a further character changes on the screen before the scrolling. *)
LEMMA SeenAppend ==
  ASSUME NEW t \in Seq(Chr), NEW x \in Chr, OnPage(t), NEW a \in Cells
  PROVE  Seen(Append(t, x), Top(t), a) =
           IF x.c > 0 /\ a = Addr(End(t).col, End(t).row - Top(t))
           THEN [ch |-> x.c, attr |-> x.attr] ELSE Seen(t, Top(t), a)
<1> USE ScreenAssumption
<1> DEFINE p == End(t)
           y == p.row - Top(t)
<1>1. Top(t) \in Nat /\ y \in Int /\ p \in Pos /\ p.row \in Nat /\ p.col \in 0..(COLS - 1)
  BY TopIs, EndIs
<1>2. a \div COLS \in Nat /\ a % COLS \in Nat
  BY CellIs
<1>3. (a \div COLS = y /\ a % COLS = p.col) <=> a = Addr(p.col, y)
  BY <1>1, CellUnique
<1>4. p = CellPos(Top(t), a) <=> (p.row = Top(t) + a \div COLS /\ p.col = a % COLS)
  BY <1>1 DEF CellPos, Pos
<1>5. p = CellPos(Top(t), a) <=> a = Addr(p.col, y)
  BY <1>1, <1>2, <1>3, <1>4
<1> HIDE DEF p, y
<1>6. At(Append(t, x), CellPos(Top(t), a)) =
        IF x.c > 0 /\ End(t) = CellPos(Top(t), a) THEN [ch |-> x.c, attr |-> x.attr]
        ELSE At(t, CellPos(Top(t), a))
  BY AtAppend
<1> QED
  BY <1>5, <1>6 DEF Seen, p, y

(* What scrolling by one line changes: the last line is not begun yet. *)
LEMMA SeenScrolled ==
  ASSUME NEW t \in Seq(Chr), NEW x \in Chr, OnPage(Append(t, x)), NEW a \in Cells,
         End(Append(t, x)).row - Top(t) = ROWS
  PROVE  Seen(Append(t, x), Top(Append(t, x)), a) =
           IF a + COLS < SIZE THEN Seen(Append(t, x), Top(t), a + COLS) ELSE Blank
<1> USE ScreenAssumption
<1> DEFINE u == Append(t, x)
           q == a \div COLS
<1>1. OnPage(t)
  BY OnPageAppend
<1>2. Top(u) = Top(t) + 1 /\ End(u).row = End(t).row + 1
  BY TopAppend
<1>3. Top(t) \in Nat /\ End(t) \in Pos /\ End(t).row \in Nat
  BY <1>1, TopIs, EndIs
<1>4. q \in 0..(ROWS - 1) /\ (a + COLS < SIZE <=> q < ROWS - 1)
  BY CellIs
<1>5. CASE a + COLS < SIZE
  <2>1. (a + COLS) \div COLS = q + 1 /\ (a + COLS) % COLS = a % COLS
    BY <1>5, CellBelow
  <2> HIDE DEF q
  <2>2. Top(t) + (q + 1) = (Top(t) + 1) + q
    BY <1>3, <1>4
  <2>3. CellPos(Top(u), a) = CellPos(Top(t), a + COLS)
    BY <1>2, <2>1, <2>2 DEF CellPos, q
  <2> QED
    BY <1>5, <2>3 DEF Seen
<1>6. CASE ~(a + COLS < SIZE)
  <2> DEFINE h == CellPos(Top(u), a)
  <2>1. h.row = Top(u) + q
    BY DEF CellPos
  <2> HIDE DEF h, q
  <2>2. q = ROWS - 1
    BY <1>4, <1>6
  <2>3. h.row = Top(t) + ROWS /\ h.row \in Nat /\ ~(h.row < ROWS)
    BY <1>2, <1>3, <2>1, <2>2
  <2>4. End(t).row < h.row
    BY <1>2, <1>3, <2>3
  <2>5. End(t) # h
    BY <1>3, <2>3, <2>4
  <2>6. At(u, h) = At(t, h)
    BY <2>5, AtAppend
  <2>7. At(t, h) = Blank
    BY <2>3, <2>4, AtBelow DEF Untouched
  <2> QED
    BY <1>6, <2>6, <2>7 DEF Seen, h
<1> QED
  BY <1>5, <1>6

-----------------------------------------------------------------------------
(* putcar without interruption shows the text with its character. *)

(* A tab that stays on the screen. *)
LEMMA TabIs ==
  ASSUME NEW x \in Nat
  PROVE  x + TAB - Rem(x) = (x \div TAB + 1) * TAB /\ (x \div TAB + 1) * TAB \in Nat
<1> USE ScreenAssumption
<1> DEFINE q == x \div TAB
           r == x % TAB
<1>1. q \in Nat /\ r \in Nat /\ x = TAB * q + r
  OBVIOUS
<1>2. Rem(x) = r
  BY DEF Rem
<1> HIDE DEF q, r
<1>3. (q + 1) * TAB = q * TAB + TAB /\ TAB * q = q * TAB /\ q * TAB \in Nat
  BY <1>1
<1>4. x + TAB - r = (q + 1) * TAB /\ (q + 1) * TAB \in Nat
  BY <1>1, <1>3
<1> QED
  BY <1>2, <1>4 DEF q

(* The address of the next glyph is on the screen. *)
LEMMA NextCell ==
  ASSUME NEW t \in Seq(Chr), OnPage(t)
  PROVE  Addr(End(t).col, End(t).row - Top(t)) \in Cells
<1> USE ScreenAssumption
<1> DEFINE x == End(t).col
           y == End(t).row - Top(t)
<1>1. x \in 0..(COLS - 1) /\ y \in 0..(ROWS - 1)
  BY EndIs, TopIs
<1> HIDE DEF x, y
<1>2. x \in Int /\ y \in Int /\ 0 <= x /\ 0 <= y /\ x < COLS /\ y < ROWS
  BY <1>1
<1>3. Addr(x, y) \in Cells
  BY <1>2, AddrRange
<1> QED
  BY <1>3 DEF x, y

(* Before the scrolling, only a glyph changes what the screen must show.   *)
LEMMA ShowsNext ==
  ASSUME NEW t \in Seq(Chr), NEW x \in Chr, OnPage(t), NEW v, NEW rc
  PROVE  /\ ~(x.c > 0) /\ Shows(v, t, Top(t), rc) => Shows(v, Append(t, x), Top(t), rc)
         /\ /\ x.c > 0
            /\ \A a \in Cells : IF a = Addr(End(t).col, End(t).row - Top(t))
                                THEN v[a].ch = x.c /\ (rc \/ v[a].attr = x.attr)
                                ELSE Like(v[a], Seen(t, Top(t), a), rc)
            => Shows(v, Append(t, x), Top(t), rc)
<1> DEFINE A == Addr(End(t).col, End(t).row - Top(t))
<1>1. \A a \in Cells : Seen(Append(t, x), Top(t), a) =
         IF x.c > 0 /\ a = A THEN [ch |-> x.c, attr |-> x.attr] ELSE Seen(t, Top(t), a)
  BY SeenAppend
<1> HIDE DEF A
<1>2. ~(x.c > 0) /\ Shows(v, t, Top(t), rc) => Shows(v, Append(t, x), Top(t), rc)
  BY <1>1 DEF Shows
<1>3. ASSUME x.c > 0, \A a \in Cells : IF a = A THEN v[a].ch = x.c /\ (rc \/ v[a].attr = x.attr)
                                       ELSE Like(v[a], Seen(t, Top(t), a), rc)
      PROVE  Shows(v, Append(t, x), Top(t), rc)
  <2> SUFFICES ASSUME NEW a \in Cells PROVE Like(v[a], Seen(Append(t, x), Top(t), a), rc)
    BY DEF Shows
  <2>1. CASE a = A
    BY <1>1, <1>3, <2>1 DEF Like
  <2>2. CASE a # A
    BY <1>1, <1>3, <2>2
  <2> QED
    BY <2>1, <2>2
<1> QED
  BY <1>2, <1>3 DEF A

(* The characters. *)
LEMMA ChrIs ==
  ASSUME NEW x \in Chr
  PROVE  /\ x.c \in Int /\ x.attr \in Nat /\ NL < 0 /\ TABC < 0 /\ CR < 0
         /\ x.c \in {NL, TABC, CR} \/ x.c > 0
         /\ NL # CR /\ NL # TABC /\ TABC # CR
BY DEF Chr, NL, TABC, CR

(* The position after each kind of character. *)
LEMMA AdvanceIs ==
  ASSUME NEW t \in Seq(Chr), NEW x \in Chr
  PROVE  LET p == End(t)
             q == End(Append(t, x))
         IN /\ x.c = NL => q = [row |-> p.row + 1, col |-> 0]
            /\ x.c = CR => q = [row |-> p.row, col |-> 0]
            /\ x.c = TABC => q = [row |-> p.row, col |-> (p.col \div TAB + 1) * TAB]
            /\ x.c > 0 /\ p.col = COLS - 1 => q = [row |-> p.row + 1, col |-> 0]
            /\ x.c > 0 /\ p.col # COLS - 1 => q = [row |-> p.row, col |-> p.col + 1]
<1> DEFINE p == End(t)
           q == End(Append(t, x))
           T == (p.col \div TAB + 1) * TAB
<1>1. q = Advance(p, x.c)
  BY PosAppend
<1> HIDE DEF p, q, T
<1>2. /\ x.c = NL => Advance(p, x.c) = [row |-> p.row + 1, col |-> 0]
      /\ x.c = CR => Advance(p, x.c) = [row |-> p.row, col |-> 0]
      /\ x.c = TABC => Advance(p, x.c) = [row |-> p.row, col |-> T]
      /\ x.c > 0 /\ p.col = COLS - 1 => Advance(p, x.c) = [row |-> p.row + 1, col |-> 0]
      /\ x.c > 0 /\ p.col # COLS - 1 => Advance(p, x.c) = [row |-> p.row, col |-> p.col + 1]
  BY ChrIs DEF Advance, T
<1> QED
  BY <1>1, <1>2 DEF p, q, T

(* putcar up to the test of kY. *)
LEMMA MovedShows ==
  ASSUME NEW s \in Scr, NEW t \in Seq(Chr), NEW x \in Chr, NEW rc,
         OnPage(Append(t, x)), Rest(s, t, rc), s.kattr = x.attr
  PROVE  LET r == Moved(s, x.c)
             u == Append(t, x)
         IN Stands(r, u, Top(t)) /\ Shows(r.video, u, Top(t), rc) /\ r.kattr = s.kattr
<1> USE ScreenAssumption
<1> DEFINE r == Moved(s, x.c)
           u == Append(t, x)
           p == End(t)
           y == p.row - Top(t)
<1>1. OnPage(t) /\ End(u).col < COLS
  BY OnPageAppend
<1>2. /\ p.row \in Nat /\ p.col \in 0..(COLS - 1) /\ Top(t) \in Nat /\ y \in 0..(ROWS - 1)
  BY <1>1, EndIs, TopIs
<1>3. s.kX = p.col /\ s.kY = y /\ Shows(s.video, t, Top(t), rc)
  BY DEF Rest, Stands
<1>4. SChar(p.col + 1) = p.col + 1 /\ SChar(y + 1) = y + 1
  <2>1. p.col + 1 \in Int /\ -1 <= p.col + 1 /\ p.col + 1 <= COLS + 1
    BY <1>2
  <2> HIDE DEF y
  <2>2. y + 1 \in Int /\ -1 <= y + 1 /\ y + 1 <= ROWS + 1
    BY <1>2
  <2> QED
    BY <2>1, <2>2, SmallSigned
<1>5. (p.row + 1) - Top(t) = y + 1
  BY <1>2
<1>6. /\ x.c = NL => End(u) = [row |-> p.row + 1, col |-> 0]
      /\ x.c = CR => End(u) = [row |-> p.row, col |-> 0]
      /\ x.c = TABC => End(u) = [row |-> p.row, col |-> (p.col \div TAB + 1) * TAB]
      /\ x.c > 0 /\ p.col = COLS - 1 => End(u) = [row |-> p.row + 1, col |-> 0]
      /\ x.c > 0 /\ p.col # COLS - 1 => End(u) = [row |-> p.row, col |-> p.col + 1]
  BY AdvanceIs
<1>7. ~(x.c > 0) => Shows(s.video, u, Top(t), rc)
  BY <1>1, <1>3, ShowsNext
<1>8. p.row - Top(t) = y /\ y \in Nat
  BY <1>2
<1> SUFFICES r.kX = End(u).col /\ r.kY = End(u).row - Top(t)
             /\ Shows(r.video, u, Top(t), rc) /\ r.kattr = s.kattr
  BY DEF Stands
<1> HIDE DEF y, p, u
<1>9. CASE x.c = NL
  <2>1. r = [s EXCEPT !.kX = 0, !.kY = SChar(@ + 1)]
    BY <1>9, ChrIs DEF Moved
  <2>2. r.kX = 0 /\ r.kY = y + 1 /\ r.video = s.video /\ r.kattr = s.kattr
    BY <1>3, <1>4, <2>1 DEF Scr
  <2> QED
    BY <1>5, <1>6, <1>7, <1>9, <2>2, ChrIs
<1>10. CASE x.c = CR
  <2>1. r = [s EXCEPT !.kX = 0]
    BY <1>10, ChrIs DEF Moved
  <2>2. r.kX = 0 /\ r.kY = y /\ r.video = s.video /\ r.kattr = s.kattr
    BY <1>3, <2>1 DEF Scr
  <2> QED
    BY <1>8, <1>6, <1>7, <1>10, <2>2, ChrIs
<1>11. CASE x.c = TABC
  <2> DEFINE T == (p.col \div TAB + 1) * TAB
  <2>1. r = [s EXCEPT !.kX = SChar(@ + TAB - Rem(@))]
    BY <1>11, ChrIs DEF Moved
  <2>2. r.kX = SChar(p.col + TAB - Rem(p.col)) /\ r.kY = y /\ r.video = s.video
        /\ r.kattr = s.kattr
    BY <1>3, <2>1 DEF Scr
  <2>3. p.col + TAB - Rem(p.col) = T /\ T \in Nat
    <3>1. p.col \in Nat
      BY <1>2
    <3> QED
      BY <3>1, TabIs, Zenon
  <2>4. End(u) = [row |-> p.row, col |-> T]
    BY <1>6, <1>11
  <2> HIDE DEF T
  <2>6. SChar(T) = T
    BY <1>1, <2>3, <2>4, SmallSigned
  <2> QED
    BY <1>7, <1>8, <1>11, <2>2, <2>3, <2>4, <2>6, ChrIs
<1>12. CASE x.c > 0
  <2> DEFINE a == Addr(s.kX, s.kY)
             v == [s.video EXCEPT ![a] = [ch |-> x.c, attr |-> s.kattr]]
             X == SChar(s.kX + 1)
             Z == IF LineFull(X) THEN 0 ELSE X
             Y == IF LineFull(X) THEN SChar(s.kY + 1) ELSE s.kY
  <2>1. a \in Cells /\ a = Addr(p.col, y)
    BY <1>1, <1>3, NextCell DEF p, y
  <2>2. r = [s EXCEPT !.video = v, !.kX = Z, !.kY = Y]
    BY <1>12, <2>1, ChrIs DEF Moved
  <2>3. Z = End(u).col /\ Y = End(u).row - Top(t)
    <3>1. X = p.col + 1
      BY <1>3, <1>4
    <3>2. CASE p.col = COLS - 1
      <4>1. LineFull(X)
        BY <3>1, <3>2 DEF LineFull
      <4>2. Z = 0 /\ Y = y + 1
        BY <1>3, <1>4, <4>1
      <4> QED
        BY <1>5, <1>6, <1>12, <3>2, <4>2
    <3>3. CASE p.col # COLS - 1
      <4>1. ~LineFull(X)
        BY <1>2, <3>1, <3>3 DEF LineFull
      <4>2. Z = p.col + 1 /\ Y = y
        BY <1>3, <3>1, <4>1
      <4> QED
        BY <1>8, <1>6, <1>12, <3>3, <4>2
    <3> QED
      BY <3>2, <3>3
  <2> HIDE DEF Z, Y
  <2>4. Shows(v, u, Top(t), rc)
    <3>1. s.video \in [Cells -> Cell]
      BY DEF Scr
    <3>2. \A b \in Cells : v[b] = IF b = a THEN [ch |-> x.c, attr |-> s.kattr] ELSE s.video[b]
      BY <2>1, <3>1
    <3> HIDE DEF v, a
    <3>3. \A b \in Cells : IF b = a THEN v[b].ch = x.c /\ (rc \/ v[b].attr = x.attr)
                           ELSE Like(v[b], Seen(t, Top(t), b), rc)
      BY <1>3, <3>2 DEF Shows
    <3> QED
      BY <1>1, <1>12, <2>1, <3>3, ShowsNext DEF p, y, u
  <2> HIDE DEF v
  <2>5. r.kX = Z /\ r.kY = Y /\ r.video = v /\ r.kattr = s.kattr
    BY <2>2 DEF Scr
  <2> QED
    BY <2>3, <2>4, <2>5
<1> QED
  BY <1>9, <1>10, <1>11, <1>12, ChrIs

(* The whole of it. *)
LEMMA PutcarShows ==
  ASSUME NEW s \in Scr, NEW t \in Seq(Chr), NEW x \in Chr, NEW rc,
         OnPage(Append(t, x)), Rest(s, t, rc), s.kattr = x.attr
  PROVE  /\ putcar(s, x.c) \in Scr /\ putcar(s, x.c).kattr = s.kattr
         /\ Rest(putcar(s, x.c), Append(t, x), rc)
<1> USE ScreenAssumption
<1> DEFINE r == Moved(s, x.c)
           u == Append(t, x)
           z == Scrolled(r)
           y == End(u).row - Top(t)
<1>1. Stands(r, u, Top(t)) /\ Shows(r.video, u, Top(t), rc) /\ r.kattr = s.kattr
  BY MovedShows
<1>2. r \in Scr
  BY MovedType, ChrIs
<1>3. /\ y \in 0..ROWS /\ (y < ROWS => Top(u) = Top(t))
      /\ (y = ROWS => Top(u) = Top(t) + 1)
  BY TopAppend
<1>4. r.kX = End(u).col /\ r.kY = y
  BY <1>1 DEF Stands
<1>5. OnPage(t)
  BY OnPageAppend
<1>6. Top(t) \in Nat /\ End(t).row \in Nat
  BY <1>5, TopIs, EndIs
<1>7. End(u).row \in Int
  <2>1. End(t) \in Pos /\ End(u) = Advance(End(t), x.c)
    BY <1>5, EndIs, PosAppend
  <2> QED
    BY <2>1, AdvanceType DEF Pos
<1> HIDE DEF r
<1>8. z \in Scr /\ z.kattr = s.kattr /\ Rest(z, u, rc)
  <2>1. CASE y < ROWS
    <3>1. ~ScreenFull(r.kY)
      BY <1>3, <1>4, <2>1 DEF ScreenFull
    <3>2. z = r
      BY <3>1 DEF Scrolled
    <3> QED
      BY <1>1, <1>2, <1>3, <2>1, <3>2 DEF Rest
  <2>2. CASE y = ROWS
    <3> DEFINE v == [a \in Cells |-> ScrolledCell(r.video, a, 1)]
    <3>1. ScreenFull(r.kY) /\ r.kY - (ROWS - 1) = 1 /\ r.kY - 1 = ROWS - 1
      BY <1>4, <2>2 DEF ScreenFull
    <3>2. SChar(ROWS - 1) = ROWS - 1
      BY SmallSigned
    <3>3. z = [r EXCEPT !.video = v, !.kY = ROWS - 1]
      <4>1. z = scrollup(r, 1)
        BY <3>1 DEF Scrolled
      <4> DEFINE Y == IF SChar(r.kY - 1) < 0 THEN 0 ELSE SChar(r.kY - 1)
      <4>2. Y = ROWS - 1
        BY <3>1, <3>2
      <4>3. scrollup(r, 1) = [r EXCEPT !.video = v, !.kY = Y]
        BY DEF scrollup
      <4> QED
        BY <4>1, <4>2, <4>3
    <3>4. Shows(v, u, Top(u), rc)
      <4> SUFFICES ASSUME NEW a \in Cells PROVE Like(v[a], Seen(u, Top(u), a), rc)
        BY DEF Shows
      <4>1. Seen(u, Top(u), a) = IF a + COLS < SIZE THEN Seen(u, Top(t), a + COLS) ELSE Blank
        BY <2>2, SeenScrolled
      <4>2. v[a] = IF a + COLS < SIZE THEN r.video[a + COLS] ELSE Blank
        <5>1. 1 * COLS = COLS
          OBVIOUS
        <5> QED
          BY <5>1 DEF ScrolledCell
      <4> HIDE DEF v, u
      <4>3. CASE a + COLS < SIZE
        <5>1. a + COLS \in Cells
          BY <4>3, CellBelow
        <5>2. Like(r.video[a + COLS], Seen(u, Top(t), a + COLS), rc)
          BY <1>1, <5>1 DEF Shows
        <5> QED
          BY <4>1, <4>2, <4>3, <5>2
      <4>4. CASE ~(a + COLS < SIZE)
        BY <4>1, <4>2, <4>4 DEF Like
      <4> QED
        BY <4>3, <4>4
    <3>5. ROWS - 1 = End(u).row - Top(u)
      BY <1>3, <1>6, <1>7, <2>2
    <3> HIDE DEF v
    <3>6. z.kX = r.kX /\ z.kY = ROWS - 1 /\ z.video = v /\ z.kattr = r.kattr
      BY <1>2, <3>3 DEF Scr
    <3>7. z \in Scr
      BY <1>2, ScrolledIs
    <3> QED
      BY <1>1, <1>4, <3>4, <3>5, <3>6, <3>7 DEF Rest, Stands
  <2> QED
    BY <1>3, <2>1, <2>2
<1> HIDE DEF z
<1>9. putcar(s, x.c) = update_cursor(z)
  BY DEF putcar, z, r
<1> DEFINE w == update_cursor(z)
<1>10. w \in Scr /\ w.kX = z.kX /\ w.kY = z.kY
  BY <1>8, UpdateCursorIs
<1>11. w.video = z.video /\ w.kattr = z.kattr
  BY <1>8 DEF update_cursor, Scr
<1> HIDE DEF w
<1>12. Rest(w, u, rc)
  BY <1>8, <1>10, <1>11 DEF Rest, Stands
<1> QED
  BY <1>8, <1>9, <1>10, <1>11, <1>12 DEF w

(* putcar leaves the colour alone. *)
LEMMA PutcarColour ==
  ASSUME NEW s \in Scr, NEW c \in Int
  PROVE  putcar(s, c).kattr = s.kattr
<1> DEFINE r == Moved(s, c)
           z == Scrolled(r)
<1>1. r \in Scr /\ z \in Scr
  BY MovedType, ScrolledIs
<1>2. r.kattr = s.kattr
  BY DEF Moved, Scr
<1> HIDE DEF r
<1>3. z.kattr = r.kattr
  BY <1>1 DEF Scrolled, scrollup, Scr
<1> HIDE DEF z
<1>4. update_cursor(z).kattr = z.kattr
  BY <1>1 DEF update_cursor, Scr
<1> QED
  BY <1>2, <1>3, <1>4 DEF putcar, r, z

-----------------------------------------------------------------------------
(* putcar access by access: where the cursor is, what the registers hold   *)
(* and what is on the screen, by the label of the next access.             *)

GlyphSteps == {"addr", "addr2", "char", "attr", "incX", "setX", "testX"}
NotYet     == TabLabels \cup {"addr", "addr2", "char"}
Written    == {"incX", "setX", "testX", "zeroX", "incY", "setY", "testY", "arg"}
Before     == NotYet \cup {"attr", "incX", "setX"}
Counted    == {"testY", "arg", "copy", "subY", "subY2"}
Full       == {"arg", "copy", "subY", "subY2"}
Done       == CursorLabels \cup {"neg"}

(* putcar(x.c) in progress after the text t, with screen s and registers w. *)
Where(s, w, t, x) ==
  LET p == End(t)
      u == Append(t, x)
      y == p.row - Top(t)
  IN
  /\ w.pc \in Before => Stands(s, t, Top(t))
  /\ w.pc = "testX" => s.kX = p.col + 1 /\ s.kY = y
  /\ w.pc = "zeroX" => s.kY = y
  /\ w.pc \in {"incY", "setY"} => s.kX = 0 /\ s.kY = y
  /\ w.pc \in Counted => Stands(s, u, Top(t))
  /\ w.pc \in Full => s.kY = ROWS
  /\ w.pc \in Done => Stands(s, u, Top(u))

Regs(s, w, t, x) ==
  LET u == Append(t, x) IN
  /\ w.c = x.c
  /\ w.pc \in TabLabels => x.c = TABC
  /\ w.pc \in GlyphSteps => x.c > 0
  /\ w.pc = "zeroX" => x.c # TABC /\ (x.c > 0 => End(t).col = COLS - 1)
  /\ w.pc \in {"incY", "setY"} => End(u) = [row |-> End(t).row + 1, col |-> 0]
  /\ w.pc \in {"tab2", "addr2", "setX"} => w.reg = s.kX
  /\ w.pc = "tab3" => w.reg = End(u).col
  /\ w.pc \in {"char", "attr"} => w.reg = Addr(s.kX, s.kY)
  /\ w.pc = "setY" => w.reg = s.kY
  /\ w.pc \in {"copy", "subY", "subY2"} => w.n = 1
  /\ w.pc = "subY2" => w.reg = ROWS

Video(v, w, t, x, rc) ==
  LET u == Append(t, x) IN
  /\ w.pc \in NotYet => Shows(v, t, Top(t), rc)
  /\ w.pc = "attr" => \A a \in Cells : IF a = w.reg THEN v[a].ch = x.c
                                       ELSE Like(v[a], Seen(t, Top(t), a), rc)
  /\ w.pc \in Written => Shows(v, u, Top(t), rc)
  /\ w.pc = "copy" =>
       \A a \in Cells : Like(v[a], Seen(u, IF a < w.i THEN Top(u) ELSE Top(t), a), rc)
  /\ w.pc \in {"subY", "subY2"} \cup Done => Shows(v, u, Top(u), rc)

Mid(s, w, t, x, rc) ==
  Where(s, w, t, x) /\ Regs(s, w, t, x) /\ Video(s.video, w, t, x, rc)

(* What an access leaves alone. *)
LEMMA AccessKeeps ==
  ASSUME Typing, NEW a, NEW b, NEW s, NEW r, Access(a, b, s, r)
  PROVE  /\ m.pc = a /\ m'.pc = b /\ m'.reg = r /\ m'.n = m.n /\ m'.c = m.c /\ m'.i = m.i
         /\ scr' = s
BY DEF Access, Typing

(* putcar(x.c) after t, in a state between two accesses. *)
Within(t, x, rc) ==
  /\ t \in Seq(Chr) /\ x \in Chr /\ OnPage(Append(t, x))
  /\ Mid(scr, m, t, x, rc)
  /\ rc \/ scr.kattr = x.attr

(* What is known of the positions and of the registers throughout. *)
LEMMA WithinIs ==
  ASSUME Typing, NEW t, NEW x, NEW rc, Within(t, x, rc)
  PROVE  LET p == End(t)
             y == p.row - Top(t)
             u == Append(t, x)
             q == End(u)
         IN /\ OnPage(t) /\ p.row \in Nat /\ p.col \in 0..(COLS - 1)
            /\ Top(t) \in Nat /\ y \in 0..(ROWS - 1)
            /\ SChar(p.col + 1) = p.col + 1 /\ SChar(y + 1) = y + 1
            /\ q.row \in Nat /\ q.col \in 0..(COLS - 1) /\ q.row - Top(t) \in 0..ROWS
            /\ q.row - Top(t) < ROWS => Top(u) = Top(t)
            /\ q.row - Top(t) = ROWS => Top(u) = Top(t) + 1 /\ q.row - Top(u) = ROWS - 1
<1> USE ScreenAssumption
<1> DEFINE p == End(t)
           y == p.row - Top(t)
           u == Append(t, x)
           q == End(u)
<1>0. t \in Seq(Chr) /\ x \in Chr /\ OnPage(u)
  BY DEF Within
<1>1. OnPage(t)
  BY <1>0, OnPageAppend
<1>2. /\ p.row \in Nat /\ p.col \in 0..(COLS - 1) /\ Top(t) \in Nat /\ y \in 0..(ROWS - 1)
  BY <1>0, <1>1, EndIs, TopIs
<1>3. u \in Seq(Chr)
  BY <1>0, AppendProperties
<1>4. q.row \in Nat /\ q.col \in 0..(COLS - 1)
  BY <1>0, <1>3, EndIs
<1>5. /\ q.row - Top(t) \in 0..ROWS /\ (q.row - Top(t) < ROWS => Top(u) = Top(t))
      /\ (q.row - Top(t) = ROWS => Top(u) = Top(t) + 1)
  BY <1>0, TopAppend
<1> HIDE DEF p, q, u
<1>6. q.row - Top(t) = ROWS => Top(u) = Top(t) + 1 /\ q.row - Top(u) = ROWS - 1
  BY <1>2, <1>4, <1>5
<1> HIDE DEF y
<1>7. SChar(p.col + 1) = p.col + 1 /\ SChar(y + 1) = y + 1
  <2>1. p.col + 1 \in Int /\ -1 <= p.col + 1 /\ p.col + 1 <= COLS + 1
    BY <1>2
  <2>2. y + 1 \in Int /\ -1 <= y + 1 /\ y + 1 <= ROWS + 1
    BY <1>2
  <2> QED
    BY <2>1, <2>2, SmallSigned
<1> QED
  BY <1>1, <1>2, <1>4, <1>5, <1>6, <1>7 DEF p, y, u, q

(* A glyph. *)
LEMMA GlyphText ==
  ASSUME Typing, NEW t, NEW x, NEW rc, Within(t, x, rc), Glyph
  PROVE  m'.pc # "idle" /\ Mid(scr', m', t, x, rc)
<1> USE ScreenAssumption
<1> USE DEF Before, NotYet, TabLabels, GlyphSteps, Written, Counted, Full, Done, CursorLabels
<1> DEFINE p == End(t)
           y == p.row - Top(t)
           u == Append(t, x)
           q == End(u)
<1>0. /\ scr \in Scr /\ t \in Seq(Chr) /\ x \in Chr
      /\ Where(scr, m, t, x) /\ Regs(scr, m, t, x) /\ Video(scr.video, m, t, x, rc)
      /\ rc \/ scr.kattr = x.attr
  BY DEF Typing, Within, Mid
<1>1. /\ OnPage(t) /\ p.row \in Nat /\ p.col \in 0..(COLS - 1)
      /\ Top(t) \in Nat /\ y \in 0..(ROWS - 1) /\ SChar(p.col + 1) = p.col + 1
  BY WithinIs
<1>2. CASE AddrX
  <2>1. /\ m.pc = "addr" /\ m'.pc = "addr2" /\ m'.reg = scr.kX /\ m'.c = m.c /\ scr' = scr
    BY <1>2, AccessKeeps DEF AddrX, Load
  <2> QED
    BY <1>0, <2>1 DEF Mid, Where, Regs, Video
<1>3. CASE AddrY
  <2>1. /\ m.pc = "addr2" /\ m'.pc = "char" /\ m'.reg = Addr(m.reg, scr.kY) /\ m'.c = m.c
        /\ scr' = scr
    BY <1>3, AccessKeeps DEF AddrY, Load
  <2> QED
    BY <1>0, <2>1 DEF Mid, Where, Regs, Video
<1>4. ASSUME m.pc \in {"char", "attr"}
      PROVE  m.reg = Addr(p.col, y) /\ m.reg \in Cells
  BY <1>0, <1>1, <1>4, NextCell DEF Where, Regs, Stands
<1>5. CASE WriteChar
  <2> DEFINE h == [Here EXCEPT !.ch = m.c]
             v == IF m.reg \in Cells THEN [scr.video EXCEPT ![m.reg] = h] ELSE scr.video
  <2>1. /\ m.pc = "char" /\ m'.pc = "attr" /\ m'.reg = m.reg /\ m'.c = m.c
        /\ scr' = [scr EXCEPT !.video = v]
    <3>1. Access("char", "attr", [scr EXCEPT !.video = v], m.reg)
      BY <1>5 DEF WriteChar, StoreCell
    <3> HIDE DEF v
    <3> QED
      BY <3>1, AccessKeeps
  <2>2. m.reg \in Cells /\ m.c = x.c
    BY <1>0, <1>4, <2>1 DEF Regs
  <2>3. scr.video \in [Cells -> Cell] /\ Here \in Cell
    BY <2>2, Ints DEF Here
  <2>4. h.ch = x.c
    BY <2>2, <2>3 DEF Cell
  <2> HIDE DEF h
  <2>5. \A a \in Cells : v[a] = IF a = m.reg THEN h ELSE scr.video[a]
    BY <2>2, <2>3
  <2> HIDE DEF v
  <2>6. scr'.kX = scr.kX /\ scr'.kY = scr.kY /\ scr'.video = v
    BY <1>0, <2>1 DEF Scr
  <2>7. \A a \in Cells : IF a = m.reg THEN v[a].ch = x.c
                         ELSE Like(v[a], Seen(t, Top(t), a), rc)
    BY <1>0, <2>1, <2>4, <2>5 DEF Video, Shows
  <2>8. Video(v, m', t, x, rc)
    BY <2>1, <2>7 DEF Video
  <2>9. Where(scr', m', t, x) /\ Regs(scr', m', t, x)
    BY <1>0, <2>1, <2>6 DEF Where, Regs, Stands
  <2> QED
    BY <2>1, <2>6, <2>8, <2>9 DEF Mid
<1>6. CASE WriteAttr
  <2> DEFINE h == [Here EXCEPT !.attr = scr.kattr]
             v == IF m.reg \in Cells THEN [scr.video EXCEPT ![m.reg] = h] ELSE scr.video
  <2>1. /\ m.pc = "attr" /\ m'.pc = "incX" /\ m'.reg = m.reg /\ m'.c = m.c
        /\ scr' = [scr EXCEPT !.video = v]
    <3>1. Access("attr", "incX", [scr EXCEPT !.video = v], m.reg)
      BY <1>6 DEF WriteAttr, StoreCell
    <3> HIDE DEF v
    <3> QED
      BY <3>1, AccessKeeps
  <2>2. m.reg \in Cells /\ m.reg = Addr(p.col, y) /\ x.c > 0
    BY <1>0, <1>4, <2>1 DEF Regs
  <2>3. scr.video \in [Cells -> Cell] /\ Here = scr.video[m.reg] /\ Here \in Cell
    BY <2>2, Ints DEF Here
  <2>4. Here.ch = x.c
    BY <1>0, <2>1, <2>2, <2>3 DEF Video
  <2>5. h.ch = x.c /\ h.attr = scr.kattr
    BY <2>3, <2>4 DEF Cell
  <2> HIDE DEF h
  <2>6. \A a \in Cells : v[a] = IF a = m.reg THEN h ELSE scr.video[a]
    BY <2>2, <2>3
  <2> HIDE DEF v
  <2>7. scr'.kX = scr.kX /\ scr'.kY = scr.kY /\ scr'.video = v
    BY <1>0, <2>1 DEF Scr
  <2>8. \A a \in Cells : IF a = m.reg THEN v[a].ch = x.c /\ (rc \/ v[a].attr = x.attr)
                         ELSE Like(v[a], Seen(t, Top(t), a), rc)
    BY <1>0, <2>1, <2>5, <2>6 DEF Video
  <2>9. Shows(v, u, Top(t), rc)
    BY <1>0, <1>1, <2>2, <2>8, ShowsNext
  <2>10. Video(v, m', t, x, rc)
    BY <2>1, <2>9 DEF Video
  <2>11. Where(scr', m', t, x) /\ Regs(scr', m', t, x)
    BY <1>0, <2>1, <2>7 DEF Where, Regs, Stands
  <2> QED
    BY <2>1, <2>7, <2>10, <2>11 DEF Mid
<1>7. CASE LoadX
  <2>1. /\ m.pc = "incX" /\ m'.pc = "setX" /\ m'.reg = scr.kX /\ m'.c = m.c /\ scr' = scr
    BY <1>7, AccessKeeps DEF LoadX, Load
  <2> QED
    BY <1>0, <2>1 DEF Mid, Where, Regs, Video
<1>8. CASE IncX
  <2>1. /\ m.pc = "setX" /\ m'.pc = "testX" /\ m'.reg = m.reg /\ m'.c = m.c
        /\ scr' = [scr EXCEPT !.kX = SChar(m.reg + 1)]
    BY <1>8, AccessKeeps DEF IncX, StoreX
  <2>2. m.reg = p.col /\ scr.kY = y
    BY <1>0, <2>1 DEF Where, Regs, Stands
  <2>3. scr'.kX = p.col + 1 /\ scr'.kY = scr.kY /\ scr'.video = scr.video
    BY <1>0, <1>1, <2>1, <2>2 DEF Scr
  <2> QED
    BY <1>0, <2>1, <2>2, <2>3 DEF Mid, Where, Regs, Video
<1>9. CASE TestX
  <2>1. /\ m.pc = "testX" /\ m'.pc = (IF LineFull(scr.kX) THEN "zeroX" ELSE "testY")
        /\ m'.reg = m.reg /\ m'.c = m.c /\ scr' = scr
    BY <1>9, AccessKeeps DEF TestX, Load
  <2>2. scr.kX = p.col + 1 /\ scr.kY = y /\ x.c > 0 /\ m.c = x.c /\ Shows(scr.video, u, Top(t), rc)
    BY <1>0, <2>1 DEF Where, Regs, Video
  <2>3. CASE p.col = COLS - 1
    <3>1. m'.pc = "zeroX"
      BY <1>1, <2>1, <2>2, <2>3 DEF LineFull
    <3> QED
      BY <2>1, <2>2, <2>3, <3>1, ChrIs, <1>0 DEF Mid, Where, Regs, Video, TABC
  <2>4. CASE p.col # COLS - 1
    <3>1. m'.pc = "testY"
      BY <1>1, <2>1, <2>2, <2>4 DEF LineFull
    <3>2. q = [row |-> p.row, col |-> p.col + 1]
      BY <1>0, <2>2, <2>4, AdvanceIs
    <3>3. Stands(scr, u, Top(t))
      BY <2>2, <3>2 DEF Stands
    <3> QED
      BY <2>1, <2>2, <3>1, <3>3 DEF Mid, Where, Regs, Video
  <2> QED
    BY <2>3, <2>4
<1> QED
  BY <1>2, <1>3, <1>5, <1>6, <1>7, <1>8, <1>9 DEF Glyph

(* A new line, a return, a full line or a tab, and the test for the last row. *)
LEMMA LineText ==
  ASSUME Typing, NEW t, NEW x, NEW rc, Within(t, x, rc), Line
  PROVE  m'.pc # "idle" /\ Mid(scr', m', t, x, rc)
<1> USE ScreenAssumption
<1> USE DEF Before, NotYet, TabLabels, GlyphSteps, Written, Counted, Full, Done, CursorLabels
<1> DEFINE p == End(t)
           y == p.row - Top(t)
           u == Append(t, x)
           q == End(u)
<1>0. /\ scr \in Scr /\ t \in Seq(Chr) /\ x \in Chr
      /\ Where(scr, m, t, x) /\ Regs(scr, m, t, x) /\ Video(scr.video, m, t, x, rc)
  BY DEF Typing, Within, Mid
<1>1. /\ OnPage(t) /\ p.row \in Nat /\ p.col \in 0..(COLS - 1)
      /\ Top(t) \in Nat /\ y \in 0..(ROWS - 1) /\ SChar(y + 1) = y + 1
      /\ q.row \in Nat /\ q.col \in 0..(COLS - 1) /\ q.row - Top(t) \in 0..ROWS
      /\ q.row - Top(t) < ROWS => Top(u) = Top(t)
  BY WithinIs
<1>2. CASE ZeroX
  <2>1. /\ m.pc = "zeroX" /\ m'.pc = (IF m.c = CR THEN "testY" ELSE "incY")
        /\ m'.reg = m.reg /\ m'.c = m.c /\ scr' = [scr EXCEPT !.kX = 0]
    BY <1>2, AccessKeeps DEF ZeroX, StoreX
  <2>2. /\ scr.kY = y /\ x.c # TABC /\ (x.c > 0 => p.col = COLS - 1) /\ m.c = x.c
        /\ Shows(scr.video, u, Top(t), rc)
    BY <1>0, <2>1 DEF Where, Regs, Video
  <2>3. scr'.kX = 0 /\ scr'.kY = scr.kY /\ scr'.video = scr.video
    BY <1>0, <2>1 DEF Scr
  <2>4. CASE x.c = CR
    <3>1. q = [row |-> p.row, col |-> 0]
      BY <1>0, <2>4, AdvanceIs
    <3>2. Stands(scr', u, Top(t))
      BY <2>2, <2>3, <3>1 DEF Stands
    <3> QED
      BY <2>1, <2>2, <2>3, <2>4, <3>2 DEF Mid, Where, Regs, Video
  <2>5. CASE x.c # CR
    <3>1. q = [row |-> p.row + 1, col |-> 0]
      BY <1>0, <2>2, <2>5, AdvanceIs, ChrIs
    <3>2. m'.pc = "incY"
      BY <2>1, <2>2, <2>5
    <3>3. Where(scr', m', t, x)
      BY <2>2, <2>3, <3>2 DEF Where
    <3>4. Regs(scr', m', t, x)
      BY <2>1, <2>2, <3>1, <3>2 DEF Regs
    <3>5. Video(scr'.video, m', t, x, rc)
      BY <2>2, <2>3, <3>2 DEF Video
    <3> QED
      BY <3>2, <3>3, <3>4, <3>5 DEF Mid
  <2> QED
    BY <2>4, <2>5
<1>3. CASE LoadY
  <2>1. /\ m.pc = "incY" /\ m'.pc = "setY" /\ m'.reg = scr.kY /\ m'.c = m.c /\ scr' = scr
    BY <1>3, AccessKeeps DEF LoadY, Load
  <2> QED
    BY <1>0, <2>1 DEF Mid, Where, Regs, Video
<1>4. CASE IncY
  <2>1. /\ m.pc = "setY" /\ m'.pc = "testY" /\ m'.reg = m.reg /\ m'.c = m.c
        /\ scr' = [scr EXCEPT !.kY = SChar(m.reg + 1)]
    BY <1>4, AccessKeeps DEF IncY, StoreY
  <2>2. /\ scr.kX = 0 /\ scr.kY = y /\ m.reg = y /\ q = [row |-> p.row + 1, col |-> 0]
        /\ m.c = x.c /\ Shows(scr.video, u, Top(t), rc)
    BY <1>0, <2>1 DEF Where, Regs, Video
  <2>3. scr'.kX = 0 /\ scr'.kY = y + 1 /\ scr'.video = scr.video
    BY <1>0, <1>1, <2>1, <2>2 DEF Scr
  <2>4. y + 1 = (p.row + 1) - Top(t)
    BY <1>1
  <2>5. Stands(scr', u, Top(t))
    BY <2>2, <2>3, <2>4 DEF Stands
  <2> QED
    BY <2>1, <2>2, <2>3, <2>5 DEF Mid, Where, Regs, Video
<1>5. CASE TestY
  <2>1. /\ m.pc = "testY" /\ m'.pc = (IF ScreenFull(scr.kY) THEN "arg" ELSE "curY")
        /\ m'.reg = m.reg /\ m'.c = m.c /\ scr' = scr
    BY <1>5, AccessKeeps DEF TestY, Load
  <2>2. Stands(scr, u, Top(t)) /\ m.c = x.c /\ Shows(scr.video, u, Top(t), rc)
    BY <1>0, <2>1 DEF Where, Regs, Video
  <2>3. scr.kY = q.row - Top(t)
    BY <2>2 DEF Stands
  <2> HIDE DEF q, u
  <2>4. CASE q.row - Top(t) = ROWS
    <3>1. m'.pc = "arg" /\ scr.kY = ROWS
      BY <2>1, <2>3, <2>4 DEF ScreenFull
    <3> QED
      BY <2>1, <2>2, <3>1 DEF Mid, Where, Regs, Video, u
  <2>5. CASE q.row - Top(t) # ROWS
    <3>1. m'.pc = "curY" /\ Top(u) = Top(t)
      BY <1>1, <2>1, <2>3, <2>5 DEF ScreenFull
    <3> QED
      BY <2>1, <2>2, <3>1 DEF Mid, Where, Regs, Video, u
  <2> QED
    BY <2>4, <2>5
<1>6. CASE TabLoad
  <2>1. /\ m.pc = "tab" /\ m'.pc = "tab2" /\ m'.reg = scr.kX /\ m'.c = m.c /\ scr' = scr
    BY <1>6, AccessKeeps DEF TabLoad, Load
  <2> QED
    BY <1>0, <2>1 DEF Mid, Where, Regs, Video
<1>7. CASE TabRem
  <2>1. /\ m.pc = "tab2" /\ m'.pc = "tab3" /\ m'.reg = SChar(m.reg + TAB - Rem(scr.kX))
        /\ m'.c = m.c /\ scr' = scr
    BY <1>7, AccessKeeps DEF TabRem, Load
  <2>2. m.reg = p.col /\ scr.kX = p.col /\ x.c = TABC
    BY <1>0, <2>1 DEF Where, Regs, Stands
  <2>3. q.col = (p.col \div TAB + 1) * TAB
    BY <1>0, <2>2, AdvanceIs
  <2>4. p.col + TAB - Rem(p.col) = q.col
    <3>1. p.col \in Nat
      BY <1>1
    <3> QED
      BY <2>3, <3>1, TabIs, Zenon
  <2>5. SChar(q.col) = q.col
    BY <1>1, SmallSigned
  <2>6. m'.reg = q.col
    BY <2>1, <2>2, <2>4, <2>5
  <2> QED
    BY <1>0, <2>1, <2>6 DEF Mid, Where, Regs, Video
<1>8. CASE TabStore
  <2>1. /\ m.pc = "tab3" /\ m'.pc = "testY" /\ m'.reg = m.reg /\ m'.c = m.c
        /\ scr' = [scr EXCEPT !.kX = m.reg]
    BY <1>8, AccessKeeps DEF TabStore, StoreX
  <2>2. /\ m.reg = q.col /\ scr.kY = y /\ x.c = TABC /\ m.c = x.c
        /\ Shows(scr.video, t, Top(t), rc)
    BY <1>0, <2>1 DEF Where, Regs, Stands, Video
  <2>3. scr'.kX = q.col /\ scr'.kY = y /\ scr'.video = scr.video
    BY <1>0, <2>1, <2>2 DEF Scr
  <2>4. q.row = p.row
    BY <1>0, <2>2, AdvanceIs
  <2>5. Stands(scr', u, Top(t))
    BY <2>3, <2>4 DEF Stands
  <2>6. Shows(scr.video, u, Top(t), rc)
    BY <1>0, <1>1, <2>2, ShowsNext, ChrIs
  <2> QED
    BY <2>1, <2>2, <2>3, <2>5, <2>6 DEF Mid, Where, Regs, Video
<1> QED
  BY <1>2, <1>3, <1>4, <1>5, <1>6, <1>7, <1>8 DEF Line

(* Scrolling: behind the loop the screen is the new one, before it the old. *)
LEMMA ScrollText ==
  ASSUME Typing, NEW t, NEW x, NEW rc, Within(t, x, rc), Scroll
  PROVE  m'.pc # "idle" /\ Mid(scr', m', t, x, rc)
<1> USE ScreenAssumption
<1> USE DEF Before, NotYet, TabLabels, GlyphSteps, Written, Counted, Full, Done, CursorLabels
<1> DEFINE u == Append(t, x)
           q == End(u)
<1>0. /\ scr \in Scr /\ t \in Seq(Chr) /\ x \in Chr /\ OnPage(u)
      /\ Where(scr, m, t, x) /\ Regs(scr, m, t, x) /\ Video(scr.video, m, t, x, rc)
  BY DEF Typing, Within, Mid
<1>1. /\ Top(t) \in Nat /\ q.row \in Nat
      /\ q.row - Top(t) = ROWS => Top(u) = Top(t) + 1 /\ q.row - Top(u) = ROWS - 1
  BY WithinIs
<1>2. ASSUME m.pc \in Full
      PROVE  /\ scr.kY = ROWS /\ scr.kX = q.col /\ q.row - Top(t) = ROWS
             /\ q.row - Top(u) = ROWS - 1
  BY <1>0, <1>1, <1>2 DEF Where, Stands
<1>3. CASE LoadArg
  <2>1. /\ m.pc = "arg" /\ m'.pc = "copy" /\ m'.n = scr.kY - (ROWS - 1) /\ m'.i = 0
        /\ m'.c = m.c /\ scr' = scr
    BY <1>3 DEF LoadArg, Typing
  <2>2. m'.n = 1
    BY <1>2, <2>1
  <2>3. Where(scr', m', t, x) /\ Regs(scr', m', t, x)
    BY <1>0, <2>1, <2>2 DEF Where, Regs
  <2>4. \A a \in Cells : ~(a < m'.i)
    BY <2>1, CellIs
  <2>5. Video(scr'.video, m', t, x, rc)
    BY <1>0, <2>1, <2>4 DEF Video, Shows
  <2> QED
    BY <2>1, <2>3, <2>5 DEF Mid
<1>4. CASE CopyCell
  <2> DEFINE h == ScrolledCell(scr.video, m.i, m.n)
             v == [scr.video EXCEPT ![m.i] = h]
  <2>1. /\ m.pc = "copy" /\ m'.pc = (IF m.i = SIZE - 1 THEN "subY" ELSE "copy")
        /\ m'.i = (IF m.i = SIZE - 1 THEN 0 ELSE m.i + 1)
        /\ m'.c = m.c /\ m'.reg = m.reg /\ m'.n = m.n
        /\ scr' = [scr EXCEPT !.video = v]
    BY <1>4 DEF CopyCell, Typing
  <2>2. m.n = 1 /\ m.c = x.c /\ Stands(scr, u, Top(t)) /\ scr.kY = ROWS
    BY <1>0, <2>1 DEF Regs, Where
  <2>3. /\ m.i \in Cells /\ SIZE \in Nat /\ scr.video \in [Cells -> Cell]
    BY Ints
  <2>4. \A a \in Cells : Like(scr.video[a], Seen(u, IF a < m.i THEN Top(u) ELSE Top(t), a), rc)
    BY <1>0, <2>1 DEF Video
  <2>5. Like(h, Seen(u, Top(u), m.i), rc)
    <3>1. h = IF m.i + COLS < SIZE THEN scr.video[m.i + COLS] ELSE Blank
      <4>1. m.n * COLS = COLS
        BY <2>2
      <4> QED
        BY <4>1 DEF ScrolledCell
    <3>2. Seen(u, Top(u), m.i) = IF m.i + COLS < SIZE THEN Seen(u, Top(t), m.i + COLS) ELSE Blank
      BY <1>0, <1>2, <2>1, <2>3, SeenScrolled
    <3> HIDE DEF h, u
    <3>3. CASE m.i + COLS < SIZE
      <4>1. m.i + COLS \in Cells /\ m.i \in Nat
        BY <2>3, <3>3, CellBelow, CellIs
      <4>2. ~(m.i + COLS < m.i)
        BY <4>1
      <4>3. Like(scr.video[m.i + COLS], Seen(u, Top(t), m.i + COLS), rc)
        BY <2>4, <4>1, <4>2
      <4> QED
        BY <3>1, <3>2, <3>3, <4>3
    <3>4. CASE ~(m.i + COLS < SIZE)
      BY <3>1, <3>2, <3>4 DEF Like
    <3> QED
      BY <3>3, <3>4
  <2> HIDE DEF h
  <2>6. \A a \in Cells : v[a] = IF a = m.i THEN h ELSE scr.video[a]
    BY <2>3
  <2> HIDE DEF v
  <2>7. scr'.kX = scr.kX /\ scr'.kY = scr.kY /\ scr'.video = v
    BY <1>0, <2>1 DEF Scr
  <2>8. Where(scr', m', t, x)
    BY <2>1, <2>2, <2>7 DEF Where, Stands
  <2>9. Regs(scr', m', t, x)
    BY <2>1, <2>2 DEF Regs
  <2>10. ASSUME NEW a \in Cells
         PROVE  Like(v[a], Seen(u, IF a < m.i + 1 THEN Top(u) ELSE Top(t), a), rc)
    <3>1. a \in Nat /\ m.i \in Nat
      BY <2>3, CellIs
    <3>2. CASE a = m.i
      BY <2>5, <2>6, <3>1, <3>2
    <3>3. CASE a # m.i
      <4>1. a < m.i + 1 <=> a < m.i
        BY <3>1, <3>3
      <4> QED
        BY <2>4, <2>6, <3>3, <4>1
    <3> QED
      BY <3>2, <3>3
  <2>11. Video(v, m', t, x, rc)
    <3>1. CASE m.i = SIZE - 1
      <4>1. \A a \in Cells : a < m.i + 1
        BY <2>3, <3>1 DEF Cells
      <4>2. Shows(v, u, Top(u), rc)
        BY <2>10, <4>1 DEF Shows
      <4> QED
        BY <2>1, <3>1, <4>2 DEF Video
    <3>2. CASE m.i # SIZE - 1
      BY <2>1, <2>10, <3>2 DEF Video
    <3> QED
      BY <3>1, <3>2
  <2> QED
    BY <2>1, <2>7, <2>8, <2>9, <2>11 DEF Mid
<1>5. CASE SubLoad
  <2>1. /\ m.pc = "subY" /\ m'.pc = "subY2" /\ m'.reg = scr.kY /\ m'.c = m.c /\ m'.n = m.n
        /\ scr' = scr
    BY <1>5, AccessKeeps DEF SubLoad, Load
  <2> QED
    BY <1>0, <1>2, <2>1 DEF Mid, Where, Regs, Video
<1>6. CASE SubStore
  <2>1. /\ m.pc = "subY2" /\ m'.pc = "neg" /\ m'.c = m.c
        /\ scr' = [scr EXCEPT !.kY = SChar(m.reg - m.n)]
    BY <1>6, AccessKeeps DEF SubStore, StoreY
  <2>2. m.reg - m.n = ROWS - 1 /\ m.c = x.c /\ Shows(scr.video, u, Top(u), rc)
    BY <1>0, <2>1 DEF Regs, Video
  <2>3. SChar(ROWS - 1) = ROWS - 1
    BY SmallSigned
  <2>4. scr'.kX = scr.kX /\ scr'.kY = ROWS - 1 /\ scr'.video = scr.video
    BY <1>0, <2>1, <2>2, <2>3 DEF Scr
  <2>5. Stands(scr', u, Top(u))
    BY <1>2, <2>1, <2>4 DEF Stands
  <2> QED
    BY <2>1, <2>2, <2>4, <2>5 DEF Mid, Where, Regs, Video
<1>7. CASE NotNeg
  <2>1. /\ m.pc = "neg" /\ m'.pc = "curY" /\ m'.c = m.c
        /\ scr' = [scr EXCEPT !.kY = IF scr.kY < 0 THEN 0 ELSE scr.kY]
    BY <1>7, AccessKeeps DEF NotNeg, StoreY
  <2>2. m.c = x.c /\ Stands(scr, u, Top(u)) /\ Shows(scr.video, u, Top(u), rc)
    BY <1>0, <2>1 DEF Where, Regs, Video
  <2>3. scr.kY \in Nat
    <3>1. u \in Seq(Chr)
      BY <1>0, AppendProperties
    <3>2. q.row - Top(u) \in Nat
      <4>1. q.row - Top(u) \in 0..(ROWS - 1)
        BY <1>0, <3>1, TopIs
      <4> QED
        BY <4>1
    <3> QED
      BY <2>2, <3>2 DEF Stands
  <2>4. scr'.kX = scr.kX /\ scr'.kY = scr.kY /\ scr'.video = scr.video
    BY <1>0, <2>1, <2>3 DEF Scr
  <2>5. Stands(scr', u, Top(u))
    BY <2>2, <2>4 DEF Stands
  <2> QED
    BY <2>1, <2>2, <2>4, <2>5 DEF Mid, Where, Regs, Video
<1> QED
  BY <1>3, <1>4, <1>5, <1>6, <1>7 DEF Scroll

(* update_cursor changes nothing that is seen; after it putcar is done. *)
LEMMA CursorText ==
  ASSUME Typing, NEW t, NEW x, NEW rc, Within(t, x, rc), Cursor
  PROVE  IF m'.pc = "idle" THEN Rest(scr', Append(t, x), rc) ELSE Mid(scr', m', t, x, rc)
<1> USE DEF Before, NotYet, TabLabels, GlyphSteps, Written, Counted, Full, Done, CursorLabels
<1> DEFINE u == Append(t, x)
<1>0. scr \in Scr /\ Where(scr, m, t, x) /\ Regs(scr, m, t, x) /\ Video(scr.video, m, t, x, rc)
  BY DEF Typing, Within, Mid
<1>1. ASSUME m.pc \in CursorLabels, scr'.kX = scr.kX, scr'.kY = scr.kY, scr'.video = scr.video
      PROVE  Rest(scr', u, rc)
  BY <1>0, <1>1 DEF Where, Stands, Video, Rest
<1>2. ASSUME m'.pc \in CursorLabels, m'.c = m.c, Rest(scr', u, rc)
      PROVE  m'.pc # "idle" /\ Mid(scr', m', t, x, rc)
  BY <1>0, <1>2 DEF Rest, Mid, Where, Regs, Video
<1>3. \A b : OutData(b) \in {[scr EXCEPT !.lo = b], [scr EXCEPT !.hi = b]}
  BY DEF OutData
<1>4. CASE CurY
  <2>1. m.pc = "curY" /\ m'.pc = "curX" /\ m'.c = m.c /\ scr' = scr
    BY <1>4, AccessKeeps DEF CurY, Load
  <2> QED
    BY <1>1, <1>2, <2>1
<1>5. CASE CurX
  <2>1. m.pc = "curX" /\ m'.pc = "indexLo" /\ m'.c = m.c /\ scr' = scr
    BY <1>5, AccessKeeps DEF CurX, Load
  <2> QED
    BY <1>1, <1>2, <2>1
<1>6. CASE IndexLo
  <2>1. /\ m.pc = "indexLo" /\ m'.pc = "dataLo" /\ m'.c = m.c
        /\ scr' = [scr EXCEPT !.index = "lo"]
    BY <1>6, AccessKeeps DEF IndexLo
  <2>2. scr'.kX = scr.kX /\ scr'.kY = scr.kY /\ scr'.video = scr.video
    BY <1>0, <2>1 DEF Scr
  <2> QED
    BY <1>1, <1>2, <2>1, <2>2
<1>7. CASE DataLo
  <2>1. /\ m.pc = "dataLo" /\ m'.pc = "indexHi" /\ m'.c = m.c
        /\ scr' = OutData(m.reg % BYTE)
    BY <1>7, AccessKeeps DEF DataLo
  <2>2. scr'.kX = scr.kX /\ scr'.kY = scr.kY /\ scr'.video = scr.video
    BY <1>0, <1>3, <2>1 DEF Scr
  <2> QED
    BY <1>1, <1>2, <2>1, <2>2
<1>8. CASE IndexHi
  <2>1. /\ m.pc = "indexHi" /\ m'.pc = "dataHi" /\ m'.c = m.c
        /\ scr' = [scr EXCEPT !.index = "hi"]
    BY <1>8, AccessKeeps DEF IndexHi
  <2>2. scr'.kX = scr.kX /\ scr'.kY = scr.kY /\ scr'.video = scr.video
    BY <1>0, <2>1 DEF Scr
  <2> QED
    BY <1>1, <1>2, <2>1, <2>2
<1>9. CASE DataHi
  <2>1. m.pc = "dataHi" /\ m'.pc = "idle" /\ scr' = OutData(m.reg \div BYTE)
    BY <1>9 DEF DataHi, Idle
  <2>2. scr'.kX = scr.kX /\ scr'.kY = scr.kY /\ scr'.video = scr.video
    BY <1>0, <1>3, <2>1 DEF Scr
  <2> QED
    BY <1>1, <2>1, <2>2
<1> QED
  BY <1>4, <1>5, <1>6, <1>7, <1>8, <1>9 DEF Cursor

-----------------------------------------------------------------------------
(* The invariant of the text: between two calls of putcar the screen shows *)
(* it, and inside one it is on its way from the text without the last      *)
(* character to the text with it.                                          *)

TextInv ==
  /\ text \in Seq(Chr)
  /\ printing # 0 /\ ~recolored => scr.kattr = printing
  /\ ~Quiet => printing # 0
  /\ ~raced /\ OnPage(text) =>
       IF Quiet THEN Rest(scr, text, recolored)
       ELSE \E t \in Seq(Chr), x \in Chr :
              text = Append(t, x) /\ x.attr = printing /\ Mid(scr, m, t, x, recolored)

(* The accesses of putcar leave the colour and the history alone. *)
LEMMA AccessColour ==
  ASSUME Typing, Glyph \/ Line \/ Scroll \/ Cursor
  PROVE  scr'.kattr = scr.kattr /\ UNCHANGED <<printing, histVars>> /\ ~Quiet
<1>0. scr \in Scr
  BY DEF Typing
<1>1. \A v : /\ [scr EXCEPT !.kX = v].kattr = scr.kattr /\ [scr EXCEPT !.kY = v].kattr = scr.kattr
             /\ [scr EXCEPT !.video = v].kattr = scr.kattr
             /\ [scr EXCEPT !.index = v].kattr = scr.kattr
             /\ [scr EXCEPT !.lo = v].kattr = scr.kattr /\ [scr EXCEPT !.hi = v].kattr = scr.kattr
  BY <1>0 DEF Scr
<1>2. ASSUME NEW a, a # "idle", NEW b, NEW s, NEW r, Access(a, b, s, r), s.kattr = scr.kattr
      PROVE  scr'.kattr = scr.kattr /\ UNCHANGED <<printing, histVars>> /\ ~Quiet
  BY <1>2 DEF Access, Quiet
<1>3. \A b : OutData(b).kattr = scr.kattr
  BY <1>1 DEF OutData
<1>4. ASSUME NEW a, a # "idle", NEW b, NEW r, Load(a, b, r) \/ StoreX(a, b, r) \/ StoreY(a, b, r)
                                               \/ StoreCell(a, b, r)
      PROVE  scr'.kattr = scr.kattr /\ UNCHANGED <<printing, histVars>> /\ ~Quiet
  <2>1. CASE Load(a, b, r)
    BY <1>2, <1>4, <2>1 DEF Load
  <2>2. CASE StoreX(a, b, r)
    <3>1. Access(a, b, [scr EXCEPT !.kX = r], m.reg)
      BY <2>2 DEF StoreX
    <3> QED
      BY <1>1, <1>2, <1>4, <3>1
  <2>3. CASE StoreY(a, b, r)
    <3>1. Access(a, b, [scr EXCEPT !.kY = r], m.reg)
      BY <2>3 DEF StoreY
    <3> QED
      BY <1>1, <1>2, <1>4, <3>1
  <2>4. CASE StoreCell(a, b, r)
    <3> DEFINE v == IF m.reg \in Cells THEN [scr.video EXCEPT ![m.reg] = r] ELSE scr.video
    <3>1. Access(a, b, [scr EXCEPT !.video = v], m.reg)
      BY <2>4 DEF StoreCell
    <3> HIDE DEF v
    <3> QED
      BY <1>1, <1>2, <1>4, <3>1
  <2> QED
    BY <1>4, <2>1, <2>2, <2>3, <2>4
<1>5. CASE Glyph
  BY <1>4, <1>5, Zenon DEF Glyph, AddrX, AddrY, WriteChar, WriteAttr, LoadX, IncX, TestX
<1>6. CASE Line
  BY <1>4, <1>6, Zenon DEF Line, ZeroX, LoadY, IncY, TestY, TabLoad, TabRem, TabStore
<1>7. CASE Scroll
  <2>1. CASE LoadArg
    BY <2>1 DEF LoadArg, Quiet
  <2>2. CASE CopyCell
    <3>1. scr' = [scr EXCEPT !.video =
                    [scr.video EXCEPT ![m.i] = ScrolledCell(scr.video, m.i, m.n)]]
      BY <2>2 DEF CopyCell
    <3>2. m.pc = "copy" /\ UNCHANGED <<printing, histVars>>
      BY <2>2 DEF CopyCell
    <3> QED
      BY <1>1, <3>1, <3>2 DEF Quiet
  <2>3. CASE SubLoad \/ SubStore \/ NotNeg
    BY <1>4, <2>3, Zenon DEF SubLoad, SubStore, NotNeg
  <2> QED
    BY <1>7, <2>1, <2>2, <2>3 DEF Scroll
<1>8. CASE Cursor
  <2>1. CASE CurY \/ CurX
    BY <1>4, <2>1, Zenon DEF CurY, CurX
  <2>2. CASE IndexLo
    <3>1. Access("indexLo", "dataLo", [scr EXCEPT !.index = "lo"], m.reg)
      BY <2>2 DEF IndexLo
    <3> QED
      BY <1>1, <1>2, <3>1
  <2>3. CASE DataLo
    <3>1. Access("dataLo", "indexHi", OutData(m.reg % BYTE), m.reg)
      BY <2>3 DEF DataLo
    <3> QED
      BY <1>2, <1>3, <3>1
  <2>4. CASE IndexHi
    <3>1. Access("indexHi", "dataHi", [scr EXCEPT !.index = "hi"], m.reg)
      BY <2>4 DEF IndexHi
    <3> QED
      BY <1>1, <1>2, <3>1
  <2>5. CASE DataHi
    <3>1. m.pc = "dataHi" /\ scr' = OutData(m.reg \div BYTE) /\ UNCHANGED <<printing, histVars>>
      BY <2>5 DEF DataHi
    <3> QED
      BY <1>3, <3>1 DEF Quiet
  <2> QED
    BY <1>8, <2>1, <2>2, <2>3, <2>4, <2>5 DEF Cursor
<1> QED
  BY <1>5, <1>6, <1>7, <1>8

(* The accesses of putcar keep the invariant. *)
LEMMA AccessText ==
  ASSUME Typing, TextInv, Glyph \/ Line \/ Scroll \/ Cursor
  PROVE  TextInv'
<1>1. /\ scr'.kattr = scr.kattr /\ ~Quiet /\ printing' = printing /\ text' = text
      /\ raced' = raced /\ recolored' = recolored
  BY AccessColour DEF histVars
<1>2. printing # 0
  BY <1>1 DEF TextInv
<1>3. ASSUME ~raced, OnPage(text)
      PROVE  IF Quiet' THEN Rest(scr', text, recolored)
             ELSE \E t \in Seq(Chr), x \in Chr :
                    text = Append(t, x) /\ x.attr = printing /\ Mid(scr', m', t, x, recolored)
  <2>1. PICK t \in Seq(Chr), x \in Chr :
          text = Append(t, x) /\ x.attr = printing /\ Mid(scr, m, t, x, recolored)
    BY <1>1, <1>3 DEF TextInv
  <2>2. recolored \/ scr.kattr = x.attr
    BY <1>2, <2>1 DEF TextInv
  <2>3. Within(t, x, recolored)
    BY <1>3, <2>1, <2>2 DEF Within
  <2>4. IF m'.pc = "idle" THEN Rest(scr', Append(t, x), recolored)
        ELSE Mid(scr', m', t, x, recolored)
    BY <2>3, GlyphText, LineText, ScrollText, CursorText
  <2> QED
    BY <2>1, <2>4 DEF Quiet
<1> QED
  BY <1>1, <1>2, <1>3 DEF TextInv

(* Rest does not depend on the colour of the next character. *)
LEMMA RestKept ==
  ASSUME NEW s \in Scr, NEW t, NEW rc, NEW a, Rest(s, t, rc)
  PROVE  Rest([s EXCEPT !.kattr = a], t, rc)
<1>1. [s EXCEPT !.kattr = a].kX = s.kX /\ [s EXCEPT !.kattr = a].kY = s.kY
      /\ [s EXCEPT !.kattr = a].video = s.video
  BY DEF Scr
<1> QED
  BY <1>1 DEF Rest, Stands

(* The calls of the system keep the invariant. *)
LEMMA SyscallsText ==
  ASSUME Typing, TextInv, Syscalls
  PROVE  TextInv'
<1>0. scr \in Scr
  BY DEF Typing
<1>1. ASSUME printing = 0, NEW a, scr' = [scr EXCEPT !.kattr = a], printing' \in {0, a},
             UNCHANGED <<m, histVars>>
      PROVE  TextInv'
  <2>1. Quiet /\ Quiet'
    BY <1>1 DEF TextInv, Quiet
  <2>2. text' = text /\ raced' = raced /\ recolored' = recolored /\ scr'.kattr = a
    BY <1>0, <1>1 DEF histVars, Scr
  <2>3. ~raced /\ OnPage(text) => Rest(scr', text, recolored)
    BY <1>0, <1>1, <2>1, RestKept DEF TextInv
  <2>4. text \in Seq(Chr)
    BY DEF TextInv
  <2> QED
    BY <1>1, <2>1, <2>2, <2>3, <2>4 DEF TextInv
<1>2. CASE SYS_PRINT
  BY <1>1, <1>2 DEF SYS_PRINT, StartPrint
<1>3. CASE SYS_LS
  BY <1>1, <1>3 DEF SYS_LS, StartPrint
<1>4. CASE SYS_SETCOLOR
  <2>1. PICK a \in Colors : scr' = [scr EXCEPT !.kattr = a]
    BY <1>4 DEF SYS_SETCOLOR
  <2> QED
    BY <1>1, <1>4, <2>1 DEF SYS_SETCOLOR
<1>5. CASE EndPrint
  <2>1. /\ Quiet /\ Quiet' /\ printing' = 0 /\ scr' = scr /\ text' = text
        /\ raced' = raced /\ recolored' = recolored
    BY <1>5 DEF EndPrint, Quiet, histVars
  <2> QED
    BY <2>1 DEF TextInv
<1> QED
  BY <1>2, <1>3, <1>4, <1>5 DEF Syscalls

(* The call of putcar. *)
LEMMA PutcarText ==
  ASSUME Typing, TextInv, NEW kind \in {"glyph", "nl", "tab", "cr"}, Putcar(kind)
  PROVE  TextInv'
<1> USE ScreenAssumption
<1> DEFINE c == IF kind = "glyph" THEN chars + 1
                ELSE IF kind = "nl" THEN NL ELSE IF kind = "tab" THEN TABC ELSE CR
           b == IF c = TABC THEN "tab" ELSE IF c > 0 THEN "addr" ELSE "zeroX"
           x == [c |-> c, attr |-> printing]
<1>1. chars \in Nat /\ printing \in Nat /\ scr \in Scr
  BY DEF Typing, White, Yellow
<1>2. c \in {NL, TABC, CR} \cup (Nat \ {0})
  BY <1>1
<1>3. /\ Quiet /\ printing # 0 /\ m' = [m EXCEPT !.pc = b, !.c = c] /\ scr' = scr
      /\ text' = Note(raced, <<x>>)
      /\ printing' = printing /\ raced' = raced /\ recolored' = recolored
  BY DEF Putcar, Quiet
<1>4. b \in {"tab", "addr", "zeroX"} /\ (b = "tab" <=> c = TABC) /\ (b = "addr" <=> c > 0)
  BY <1>2 DEF TABC
<1> HIDE DEF c, b
<1>5. x \in Chr /\ x.c = c /\ x.attr = printing
  BY <1>1, <1>2 DEF Chr
<1> HIDE DEF x
<1>6. m'.pc = b /\ m'.c = c
  BY <1>3 DEF Typing
<1>7. ~Quiet'
  BY <1>4, <1>6 DEF Quiet
<1>8. text \in Seq(Chr)
  BY DEF TextInv
<1>9. ~raced => text' = Append(text, x)
  BY <1>3, <1>5, <1>8, AppendIsConcat DEF Note
<1>10. text' \in Seq(Chr)
  <2>1. raced => text' = <<>>
    BY <1>3 DEF Note
  <2>2. Append(text, x) \in Seq(Chr)
    BY <1>5, <1>8, AppendProperties
  <2>3. <<>> \in Seq(Chr)
    OBVIOUS
  <2> QED
    BY <1>9, <2>1, <2>2, <2>3, Zenon
<1>11. ASSUME ~raced, OnPage(text') PROVE Mid(scr', m', text, x, recolored)
  <2>0. OnPage(Append(text, x))
    BY <1>9, <1>11, Zenon
  <2>1. OnPage(text)
    BY <1>5, <1>8, <2>0, OnPageAppend
  <2>2. Rest(scr, text, recolored)
    BY <1>3, <1>11, <2>1 DEF TextInv
  <2>3. Stands(scr, text, Top(text)) /\ Shows(scr.video, text, Top(text), recolored)
    BY <2>2 DEF Rest
  <2>4. ~(x.c > 0) => Shows(scr.video, Append(text, x), Top(text), recolored)
    BY <1>5, <1>8, <2>1, <2>3, ShowsNext
  <2>5. Where(scr', m', text, x)
    BY <1>3, <1>4, <1>6, <2>3
      DEF Where, Stands, Before, NotYet, TabLabels, GlyphSteps, Counted, Full, Done, CursorLabels
  <2>6. Regs(scr', m', text, x)
    BY <1>4, <1>5, <1>6 DEF Regs, TabLabels, GlyphSteps
  <2>7. Video(scr'.video, m', text, x, recolored)
    BY <1>3, <1>4, <1>5, <1>6, <2>3, <2>4
      DEF Video, NotYet, TabLabels, Written, Done, CursorLabels
  <2> QED
    BY <2>5, <2>6, <2>7 DEF Mid
<1>12. ~raced /\ OnPage(text') =>
         \E t \in Seq(Chr), z \in Chr :
           text' = Append(t, z) /\ z.attr = printing /\ Mid(scr', m', t, z, recolored)
  BY <1>5, <1>8, <1>9, <1>11
<1>13. printing # 0 /\ ~recolored => scr.kattr = printing
  BY DEF TextInv
<1> QED
  BY <1>3, <1>7, <1>10, <1>12, <1>13 DEF TextInv

(* The texts that an echo appends. *)
LEMMA ConcatOne ==
  ASSUME NEW t \in Seq(Chr), NEW s \in Seq(Chr), Len(s) = 1
  PROVE  s[1] \in Chr /\ t \o s = Append(t, s[1])
<1>1. s[1] \in Chr
  BY ElementOfSeq
<1>2. s = <<s[1]>>
  BY SeqEqual
<1> QED
  BY <1>1, <1>2, AppendIsConcat

(* The same for three characters. *)
LEMMA ConcatThree ==
  ASSUME NEW t \in Seq(Chr), NEW s \in Seq(Chr), Len(s) = 3
  PROVE  /\ s[1] \in Chr /\ s[2] \in Chr /\ s[3] \in Chr
         /\ t \o s = Append(Append(Append(t, s[1]), s[2]), s[3])
<1>1. s[1] \in Chr /\ s[2] \in Chr /\ s[3] \in Chr
  BY ElementOfSeq
<1> DEFINE t1 == Append(t, s[1])
           t2 == Append(t1, s[2])
           t3 == Append(t2, s[3])
           n  == Len(t)
<1>2. n \in Nat
  OBVIOUS
<1>3. /\ t1 \in Seq(Chr) /\ Len(t1) = n + 1 /\ t1[n + 1] = s[1]
      /\ \A k \in 1..n : t1[k] = t[k]
  BY <1>1, AppendProperties
<1> HIDE DEF t1
<1>4. /\ t2 \in Seq(Chr) /\ Len(t2) = n + 2 /\ t2[n + 2] = s[2]
      /\ \A k \in 1..(n + 1) : t2[k] = t1[k]
  BY <1>1, <1>2, <1>3, AppendProperties
<1> HIDE DEF t2
<1>5. /\ t3 \in Seq(Chr) /\ Len(t3) = n + 3 /\ t3[n + 3] = s[3]
      /\ \A k \in 1..(n + 2) : t3[k] = t2[k]
  BY <1>1, <1>2, <1>4, AppendProperties
<1> HIDE DEF t3
<1>6. /\ t \o s \in Seq(Chr) /\ Len(t \o s) = n + 3
      /\ \A k \in 1..(n + 3) : (t \o s)[k] = IF k <= n THEN t[k] ELSE s[k - n]
  <2>1. /\ t \o s \in Seq(Chr) /\ Len(t \o s) = n + Len(s)
        /\ \A k \in 1..(n + Len(s)) : (t \o s)[k] = IF k <= n THEN t[k] ELSE s[k - n]
    BY ConcatProperties, Zenon
  <2> QED
    BY <2>1, Zenon
<1> DEFINE u == t \o s
<1> HIDE DEF u, n
<1>7. ASSUME NEW k \in 1..(n + 3) PROVE u[k] = t3[k]
  <2>1. CASE k \in 1..n
    <3>1. k \in 1..(n + 1) /\ k \in 1..(n + 2) /\ k <= n
      BY <1>2, <2>1
    <3> QED
      BY <1>3, <1>4, <1>5, <1>6, <2>1, <3>1 DEF u
  <2>2. CASE k = n + 1
    <3>1. k \in 1..(n + 1) /\ k \in 1..(n + 2) /\ ~(k <= n) /\ k - n = 1
      BY <1>2, <2>2
    <3> QED
      BY <1>3, <1>4, <1>5, <1>6, <2>2, <3>1 DEF u
  <2>3. CASE k = n + 2
    <3>1. k \in 1..(n + 2) /\ ~(k <= n) /\ k - n = 2
      BY <1>2, <2>3
    <3> QED
      BY <1>4, <1>5, <1>6, <2>3, <3>1 DEF u
  <2>4. CASE k = n + 3
    <3>1. ~(k <= n) /\ k - n = 3
      BY <1>2, <2>4
    <3> QED
      BY <1>5, <1>6, <2>4, <3>1 DEF u
  <2> QED
    BY <1>2, <2>1, <2>2, <2>3, <2>4
<1>8. u = t3
  BY <1>5, <1>6, <1>7, SeqEqual DEF u
<1> QED
  BY <1>1, <1>8 DEF u, t1, t2, t3

(* The colour of a character may be forgotten. *)
LEMMA RestWeaker ==
  ASSUME NEW s, NEW t, NEW rc, NEW rd, Rest(s, t, rc), rc => rd
  PROVE  Rest(s, t, rd)
BY DEF Rest, Shows, Like

(* An echo: in the middle of a putcar the text is forgotten; between two   *)
(* of them the screen shows it with the echo.                              *)
LEMMA EchoText ==
  ASSUME Typing, TextInv, NEW attr \in Nat, NEW cs \in Seq({NL, TABC, CR} \cup (Nat \ {0})),
         Len(cs) \in {1, 3}, Echo(attr, cs)
  PROVE  TextInv'
<1> USE ScreenAssumption
<1> DEFINE s0 == [scr EXCEPT !.kattr = attr]
           s1 == putcar(s0, cs[1])
           s2 == putcar(s1, cs[2])
           s3 == putcar(s2, cs[3])
           e  == [k \in DOMAIN cs |-> [c |-> cs[k], attr |-> attr]]
<1>1. /\ raced' = (raced \/ m.pc # "idle")
      /\ recolored' = (recolored \/ printing \notin {0, attr})
      /\ text' = Note(raced', e)
      /\ scr' = (IF Len(cs) = 1 THEN s1 ELSE s3)
      /\ m' = m /\ printing' = printing
  BY DEF Echo
<1>2. scr \in Scr /\ text \in Seq(Chr)
  BY DEF Typing, TextInv
<1>3. s0 \in Scr /\ s0.kattr = attr
  BY <1>2 DEF Scr
<1>4. e \in Seq(Chr) /\ Len(e) = Len(cs) /\ \A k \in 1..Len(cs) : e[k].c = cs[k] /\ e[k].attr = attr
  <2>1. DOMAIN cs = 1..Len(cs) /\ Len(cs) \in Nat
    OBVIOUS
  <2>2. \A k \in 1..Len(cs) : [c |-> cs[k], attr |-> attr] \in Chr
    BY DEF Chr
  <2>3. e = [k \in 1..Len(cs) |-> [c |-> cs[k], attr |-> attr]]
    BY <2>1
  <2> DEFINE n == Len(cs)
  <2> HIDE DEF n
  <2>4. e \in Seq(Chr) /\ Len(e) = n
    BY <2>1, <2>2, <2>3, IsASeq DEF n
  <2> QED
    BY <2>3, <2>4 DEF n
<1> HIDE DEF e, s0
<1>5. recolored => recolored'
  BY <1>1, Zenon
<1>6. raced' => text' = <<>>
  BY <1>1 DEF Note
<1>7. ~raced' => ~raced /\ Quiet /\ Quiet' /\ text' = text \o e
  BY <1>1, Zenon DEF Note, Quiet
<1>8. text' \in Seq(Chr)
  <2>1. text \o e \in Seq(Chr)
    BY <1>2, <1>4, ConcatProperties
  <2>2. <<>> \in Seq(Chr)
    OBVIOUS
  <2> QED
    BY <1>6, <1>7, <2>1, <2>2, Zenon
<1>9. \A k \in 1..Len(cs) : cs[k] \in Int
  BY DEF NL, TABC, CR
<1>10. s1 \in Scr /\ s1.kattr = attr
  <2>1. cs[1] \in Int
    BY <1>9
  <2> QED
    BY <1>3, <2>1, PutcarIs, PutcarColour
<1>11. ASSUME Len(cs) = 3
       PROVE  s2 \in Scr /\ s2.kattr = attr /\ s3 \in Scr /\ s3.kattr = attr
  <2>1. cs[2] \in Int /\ cs[3] \in Int
    BY <1>9, <1>11
  <2> HIDE DEF s1
  <2>2. s2 \in Scr /\ s2.kattr = attr
    BY <1>10, <2>1, PutcarIs, PutcarColour
  <2> HIDE DEF s2
  <2> QED
    BY <2>1, <2>2, PutcarIs, PutcarColour
<1>12. scr'.kattr = attr
  BY <1>1, <1>10, <1>11
<1>13. printing' # 0 /\ ~recolored' => scr'.kattr = printing'
  BY <1>1, <1>12, Zenon
<1>14. ~Quiet' => printing' # 0
  BY <1>1 DEF TextInv, Quiet
<1>15. ASSUME ~raced', OnPage(text') PROVE Rest(scr', text', recolored')
  <2> DEFINE rc == recolored
             u  == text \o e
  <2>1. text' = u /\ OnPage(u)
    BY <1>7, <1>15, Zenon
  <2>2. OnPage(text) => Rest(s0, text, rc)
    BY <1>2, <1>7, <1>15, RestKept DEF TextInv, s0
  <2>3. \A k \in 1..Len(cs) : e[k].c = cs[k] /\ e[k].attr = attr
    BY <1>4
  <2>4. CASE Len(cs) = 1
    <3>1. e[1] \in Chr /\ u = Append(text, e[1])
      BY <1>2, <1>4, <2>4, ConcatOne
    <3>2. e[1].c = cs[1] /\ e[1].attr = attr
      BY <2>3, <2>4
    <3>3. OnPage(Append(text, e[1])) /\ OnPage(text)
      BY <1>2, <2>1, <3>1, OnPageAppend
    <3>4. Rest(s0, text, rc)
      BY <2>2, <3>3
    <3>5. Rest(putcar(s0, e[1].c), Append(text, e[1]), rc)
      BY <1>2, <1>3, <3>1, <3>2, <3>3, <3>4, PutcarShows
    <3>6. Rest(s1, u, rc) /\ scr' = s1
      BY <1>1, <2>4, <3>1, <3>2, <3>5
    <3> HIDE DEF s1, u
    <3>7. Rest(s1, u, recolored')
      BY <1>5, <3>6, RestWeaker
    <3> QED
      BY <2>1, <3>6, <3>7
  <2>5. CASE Len(cs) = 3
    <3> DEFINE t1 == Append(text, e[1])
               t2 == Append(t1, e[2])
    <3>1. e[1] \in Chr /\ e[2] \in Chr /\ e[3] \in Chr /\ u = Append(t2, e[3])
      BY <1>2, <1>4, <2>5, ConcatThree
    <3>2. /\ e[1].c = cs[1] /\ e[1].attr = attr /\ e[2].c = cs[2] /\ e[2].attr = attr
          /\ e[3].c = cs[3] /\ e[3].attr = attr
      BY <2>3, <2>5
    <3>3. t1 \in Seq(Chr)
      BY <1>2, <3>1, AppendProperties
    <3>4. t2 \in Seq(Chr)
      BY <3>1, <3>3, AppendProperties
    <3> HIDE DEF t2
    <3>5. OnPage(Append(t2, e[3])) /\ OnPage(t2)
      BY <2>1, <3>1, <3>4, OnPageAppend
    <3> HIDE DEF t1
    <3>6. OnPage(Append(t1, e[2])) /\ OnPage(t1)
      BY <3>1, <3>3, <3>5, OnPageAppend DEF t2
    <3>7. OnPage(Append(text, e[1])) /\ OnPage(text)
      BY <1>2, <3>1, <3>6, OnPageAppend DEF t1
    <3>8. Rest(s1, t1, rc)
      <4>1. Rest(putcar(s0, e[1].c), Append(text, e[1]), rc)
        BY <1>2, <1>3, <2>2, <3>1, <3>2, <3>7, PutcarShows
      <4> QED
        BY <3>2, <4>1 DEF t1
    <3> HIDE DEF s1
    <3>9. Rest(s2, t2, rc)
      <4>1. Rest(putcar(s1, e[2].c), Append(t1, e[2]), rc)
        BY <1>10, <3>1, <3>2, <3>3, <3>6, <3>8, PutcarShows
      <4> QED
        BY <3>2, <4>1 DEF t2
    <3> HIDE DEF s2
    <3>10. Rest(s3, u, rc) /\ scr' = s3
      <4>1. Rest(putcar(s2, e[3].c), Append(t2, e[3]), rc)
        BY <1>11, <2>5, <3>1, <3>2, <3>4, <3>5, <3>9, PutcarShows
      <4> QED
        BY <1>1, <2>5, <3>1, <3>2, <4>1
    <3> HIDE DEF s3, u
    <3>11. Rest(s3, u, recolored')
      BY <1>5, <3>10, RestWeaker
    <3> QED
      BY <2>1, <3>10, <3>11
  <2> QED
    BY <2>4, <2>5
<1> QED
  BY <1>7, <1>8, <1>13, <1>14, <1>15, Zenon DEF TextInv

(* The three kinds of echo. *)
LEMMA EchoesText ==
  ASSUME Typing, TextInv, EchoGlyph \/ EchoEnter \/ EchoCtrlC
  PROVE  TextInv'
<1> DEFINE C == {NL, TABC, CR} \cup (Nat \ {0})
<1>1. chars + 1 \in C /\ chars + 2 \in C /\ NL \in C
  BY ScreenAssumption DEF Typing
<1> HIDE DEF C
<1>2. CASE EchoGlyph
  <2>1. <<chars + 1>> \in Seq(C) /\ Len(<<chars + 1>>) = 1
    BY <1>1
  <2> QED
    BY <1>2, <2>1, EchoText DEF EchoGlyph, White, C
<1>3. CASE EchoEnter
  <2>1. <<NL>> \in Seq(C) /\ Len(<<NL>>) = 1
    BY <1>1
  <2> QED
    BY <1>3, <2>1, EchoText DEF EchoEnter, White, C
<1>4. CASE EchoCtrlC
  <2> DEFINE cs == <<chars + 1, chars + 2, NL>>
  <2>1. cs \in Seq(C) /\ Len(cs) = 3
    BY <1>1
  <2>2. Echo(Red, cs) /\ Red \in Nat
    BY <1>4 DEF EchoCtrlC, Red
  <2> HIDE DEF cs
  <2> QED
    BY <2>1, <2>2, EchoText DEF C
<1> QED
  BY <1>2, <1>3, <1>4

(* What the invariant says of the screen between two calls. *)
LEMMA TextShown ==
  ASSUME Typing, TextInv
  PROVE  ScreenShowsText
<1> SUFFICES ASSUME Quiet, ~raced, \A k \in DOMAIN text : Page[k].col < COLS, NEW a \in Cells
             PROVE  /\ scr.video[a].ch = Shown(a).ch
                    /\ recolored \/ scr.video[a].attr = Shown(a).attr
  BY Zenon DEF ScreenShowsText
<1>1. Page = PosIn(text)
  BY Zenon DEF Page, PosIn
<1>2. Shown(a) = Seen(text, Top(text), a)
  BY <1>1, Zenon DEF Shown, Seen, At, Hits, Untouched, CellPos, Top, End
<1>3. OnPage(text)
  BY <1>1 DEF OnPage
<1>4. Like(scr.video[a], Seen(text, Top(text), a), recolored)
  BY <1>3 DEF TextInv, Rest, Shows
<1> QED
  BY <1>2, <1>4, Zenon DEF Like

-----------------------------------------------------------------------------
(* The theorems. *)

(* The inductive invariant holds in every reachable state. *)
THEOREM Invariance == Spec => []IInv
<1> USE ScreenAssumption
<1>1. Init => IInv
  <2> SUFFICES ASSUME Init PROVE IInv
    OBVIOUS
  <2>1. SIZE \in Nat \ {0}
    BY DEF SIZE
  <2>2. 0 \in Cells
    BY <2>1 DEF Cells
  <2>3. [a \in Cells |-> Old] \in [Cells -> Cell]
    BY DEF Old, Cell
  <2>4. scr \in Scr /\ scr.kX = 0 /\ scr.kY = 0
    BY <2>3, ZeroSigned DEF Init, Scr
  <2>5. m \in [pc : Labels, c : Int, reg : Int, n : Int, i : Cells] /\ m.pc = "idle"
    BY <2>2 DEF Init, Idle, Labels
  <2>6. Typing
    <3>1. m.pc # "tab3" /\ m.pc \notin HaveCurPos
      BY <2>5 DEF HaveCurPos
    <3>2. tabbed \in BOOLEAN /\ raced \in BOOLEAN /\ recolored \in BOOLEAN /\ torn \in BOOLEAN
      BY Zenon DEF Init
    <3>3. printing \in {0, White, Yellow} /\ echoes \in 0..MaxEcho /\ chars \in 0..MaxChars
      BY DEF Init
    <3> QED
      BY <2>4, <2>5, <3>1, <3>2, <3>3 DEF Typing
  <2>7. Invs
    BY <2>4, <2>5 DEF Init, Invs, RowInv, ColInv, CurInv, StrayWrites, Scrolling, TabLabels,
       HaveCurPos
  <2> QED
    BY <2>6, <2>7 DEF IInv, Invs
<1>2. IInv /\ [Next]_vars => IInv'
  <2> SUFFICES ASSUME Typing, Invs, [Next]_vars PROVE (Typing /\ Invs)'
    BY DEF IInv, Invs
  <2>1. CASE Syscalls
    BY <2>1, SyscallsInvs
  <2>2. CASE Glyph
    BY <2>2, GlyphType, GlyphInvs
  <2>3. CASE Line
    BY <2>3, LineType, LineInvs
  <2>4. CASE Scroll
    BY <2>4, ScrollType, ScrollInvs DEF Invs
  <2>5. CASE Cursor
    BY <2>5, CursorType, CursorInvs
  <2>6. CASE \E kind \in {"glyph", "nl", "tab", "cr"} : Putcar(kind)
    BY <2>6, PutcarInvs
  <2>7. CASE EchoGlyph \/ EchoEnter \/ EchoCtrlC
    BY <2>7, EchoesInvs
  <2>8. CASE UNCHANGED vars
    BY <2>8 DEF vars, histVars, Typing, Invs, RowInv, ColInv, CurInv, StrayWrites
  <2> QED
    BY <2>1, <2>2, <2>3, <2>4, <2>5, <2>6, <2>7, <2>8 DEF Next
<1> QED
  BY <1>1, <1>2, PTL DEF Spec

(* The types of the model's variables. *)
THEOREM TypeCorrect == Spec => []TypeOK
<1>1. IInv => TypeOK
  <2> SUFFICES ASSUME Typing PROVE TypeOK
    BY DEF IInv
  <2>1. /\ scr.kX \in Signed /\ scr.kY \in Signed /\ scr.kattr \in Nat
        /\ DOMAIN scr.video = Cells /\ scr.index \in {"lo", "hi"}
        /\ scr.lo \in 0..(BYTE - 1) /\ scr.hi \in 0..(BYTE - 1)
    BY DEF Typing, Scr
  <2> QED
    BY <2>1 DEF Typing, TypeOK
<1> QED
  BY <1>1, Invariance, PTL

(* Whatever echoes interrupt it, putcar leaves the cursor on the screen,   *)
(* and scrollup is never called for more than one line.                    *)
THEOREM CursorCorrect == Spec => []CursorOnScreen
<1>1. IInv => CursorOnScreen
  BY ScreenAssumption DEF IInv, CursorOnScreen, RowInv, ColInv, Quiet, Scrolling
<1> QED
  BY <1>1, Invariance, PTL

(* Without tabs, the only memory outside the screen that is ever written   *)
(* is the row below it, and that only by an echo inside a putcar.          *)
THEOREM StrayCorrect == Spec => []StrayWrites
<1>1. IInv => StrayWrites
  BY DEF IInv
<1> QED
  BY <1>1, Invariance, PTL

(* Unless an echo came inside update_cursor, the hardware cursor is where  *)
(* the next character goes.                                                *)
THEOREM HardwareCursorCorrect == Spec => []HardwareCursor
<1>1. IInv => HardwareCursor
  BY DEF IInv, CurInv, HardwareCursor, Quiet
<1> QED
  BY <1>1, Invariance, PTL

(* Unless an echo came in the middle of a putcar or a tab went beyond the  *)
(* margin, the screen shows the end of all that was put out, in the order  *)
(* of the calls, scrolled and wrapped, in the colours of the calls.        *)
THEOREM TextCorrect == Spec => []ScreenShowsText
<1> USE ScreenAssumption
<1>1. Init => TextInv
  <2> SUFFICES ASSUME Init PROVE TextInv
    OBVIOUS
  <2>1. /\ text = <<>> /\ text \in Seq(Chr) /\ Len(text) = 0 /\ Quiet /\ printing = 0
    BY DEF Init, Quiet, Idle
  <2>2. End(text) = [row |-> 0, col |-> 0]
    BY <2>1, PosIs DEF End
  <2>3. Top(text) = 0
    BY <2>2 DEF Top
  <2>4. Stands(scr, text, Top(text))
    BY <2>2, <2>3 DEF Init, Stands
  <2>5. ASSUME NEW a \in Cells PROVE scr.video[a] = Seen(text, Top(text), a)
    <3>1. CellPos(0, a).row = a \div COLS /\ a \div COLS \in 0..(ROWS - 1)
      BY CellIs DEF CellPos
    <3>2. Untouched(CellPos(0, a)) = Old
      BY <3>1 DEF Untouched
    <3>3. DOMAIN text = {}
      BY <2>1
    <3>4. Hits(text, CellPos(0, a)) = {}
      BY <3>3 DEF Hits
    <3>5. At(text, CellPos(0, a)) = Old
      BY <3>2, <3>4, Zenon DEF At
    <3>6. scr.video = [b \in Cells |-> Old]
      BY DEF Init
    <3> QED
      BY <2>3, <3>5, <3>6 DEF Seen
  <2>6. Rest(scr, text, recolored)
    BY <2>4, <2>5 DEF Rest, Shows, Like
  <2> QED
    BY <2>1, <2>6 DEF TextInv
<1>2. IInv /\ TextInv /\ [Next]_vars => TextInv'
  <2> SUFFICES ASSUME Typing, TextInv, [Next]_vars PROVE TextInv'
    BY DEF IInv
  <2>1. CASE Syscalls
    BY <2>1, SyscallsText
  <2>2. CASE Glyph \/ Line \/ Scroll \/ Cursor
    BY <2>2, AccessText
  <2>3. CASE \E kind \in {"glyph", "nl", "tab", "cr"} : Putcar(kind)
    BY <2>3, PutcarText
  <2>4. CASE EchoGlyph \/ EchoEnter \/ EchoCtrlC
    BY <2>4, EchoesText
  <2>5. CASE UNCHANGED vars
    <3>1. /\ scr' = scr /\ m' = m /\ printing' = printing /\ text' = text
          /\ raced' = raced /\ recolored' = recolored /\ (Quiet' <=> Quiet)
      BY <2>5 DEF vars, histVars, Quiet
    <3> QED
      BY <3>1, Zenon DEF TextInv
  <2> QED
    BY <2>1, <2>2, <2>3, <2>4, <2>5 DEF Next
<1>3. IInv /\ TextInv => ScreenShowsText
  BY TextShown DEF IInv
<1> QED
  BY <1>1, <1>2, <1>3, Invariance, PTL DEF Spec
=============================================================================
