------------------------------- MODULE Screen -------------------------------
(***************************************************************************)
(* drivers/screen.c, as print uses it inside a syscall and as              *)
(* keyboard_handler uses it for the echo.  A syscall runs with interrupts  *)
(* on and putcar keeps the cursor in the globals kX and kY, so the echo of *)
(* a key may come between any two of its loads and stores; the echo itself *)
(* runs with interrupts off and is one step.  The actions below are the    *)
(* memory accesses of the code gcc emits for putcar without optimisation,  *)
(* as the Makefile builds it; putcar(s, c) is the same function when       *)
(* nothing interrupts it.                                                  *)
(***************************************************************************)
EXTENDS Integers, Sequences

CONSTANTS
  COLS, ROWS,      \* 80 and 25
  TAB,             \* 8
  CHMOD,           \* 256: kX and kY are signed char
  BYTE,            \* 256: the cursor registers hold a byte each
  Colors,          \* attributes a program passes to SYS_SETCOLOR
  MaxChars,        \* bound: characters put on the screen
  MaxEcho          \* bound: keys echoed

(* A signed char holds two rows below the screen and two columns beyond    *)
(* it: an echo may find the cursor on the first of them and move it on.    *)
ASSUME ScreenAssumption ==
  /\ COLS \in Nat \ {0} /\ ROWS \in Nat \ {0, 1} /\ TAB \in Nat \ {0}
  /\ CHMOD \in Nat /\ CHMOD % 2 = 0 /\ ROWS + 1 < CHMOD \div 2 /\ COLS + 1 < CHMOD \div 2
  /\ BYTE \in Nat \ {0} /\ Colors \subseteq Nat
  /\ MaxChars \in Nat /\ MaxEcho \in Nat

SIZE  == COLS * ROWS
Cells == 0..(SIZE - 1)

(* Characters: the three that putcar treats by themselves, and glyphs,     *)
(* which are numbered so that no two are the same.                         *)
NL   == -1
TABC == -2
CR   == -3

White  == 15     \* 0x0F
Yellow == 14     \* 0x0E
Red    == 12     \* 0x0C
Blank == [ch |-> 0, attr |-> 7]            \* what scrollup fills in
Old   == [ch |-> 0, attr |-> 0]            \* what was there before the kernel

VARIABLES
  scr,       \* kX, kY, kattr, video, and the CRT controller: index, lo, hi
  beyond,    \* history: addresses outside the video memory that were written
  m,         \* the putcar in progress in the syscall: pc, c and its registers
  printing,  \* 0, or the attribute the print in progress set
  echoes,    \* history: keys echoed
  chars,     \* history: characters put on the screen, which also numbers them
  text,      \* history: those characters, until one of the two below
  tabbed,    \* history: a tab was printed
  raced,     \* history: an echo came in the middle of a putcar
  recolored, \* history: an echo changed the colour of a print in progress
  torn       \* history: an echo came while putcar was setting the cursor

histVars == <<echoes, chars, text, tabbed, raced, recolored, torn>>
vars     == <<scr, beyond, m, printing, histVars>>

Idle == [pc |-> "idle", c |-> 0, reg |-> 0, n |-> 0, i |-> 0]

Init ==
  /\ scr = [kX |-> 0, kY |-> 0, kattr |-> 7, video |-> [a \in Cells |-> Old],
            index |-> "lo", lo |-> 0, hi |-> 0]
  /\ beyond = {} /\ m = Idle /\ printing = 0
  /\ echoes = 0 /\ chars = 0 /\ text = <<>>
  /\ tabbed = FALSE /\ raced = FALSE /\ recolored = FALSE /\ torn = FALSE

-----------------------------------------------------------------------------
(* putcar without interruption. *)

(* Mutated form: the cursor is an int. *)
mut_SChar(v) == v

(* the value a signed char keeps of v *)
SChar(v) == ((v + CHMOD \div 2) % CHMOD) - CHMOD \div 2

(* the C remainder kX % 8, which has the sign of kX *)
Rem(x) == IF x >= 0 THEN x % TAB ELSE -((-x) % TAB)

(* (address - RAMSCREEN) / 2 *)
Addr(x, y) == y * COLS + x

(* unsigned short pos *)
CursorPos(x, y) == Addr(x, y) % (BYTE * BYTE)

update_cursor(s) ==
  LET pos == CursorPos(s.kX, s.kY) IN
  [s EXCEPT !.index = "hi", !.lo = pos % BYTE, !.hi = pos \div BYTE]

(* Mutated form: the last line is not cleared. *)
mut_ScrolledCell(video, a, n) ==
  IF a + n * COLS < SIZE THEN video[a + n * COLS] ELSE video[a]

(* what the loop of scrollup(n) stores in cell a *)
ScrolledCell(video, a, n) ==
  IF a + n * COLS < SIZE THEN video[a + n * COLS] ELSE Blank

scrollup(s, n) ==
  LET y == SChar(s.kY - n) IN
  [s EXCEPT !.video = [a \in Cells |-> ScrolledCell(s.video, a, n)],
            !.kY = IF y < 0 THEN 0 ELSE y]

(* Mutated form: the test is kX > 80. *)
mut_LineFull(x) == x > COLS

(* kX > 79 *)
LineFull(x) == x > COLS - 1

(* Mutated form: the test is kY > 25. *)
mut_ScreenFull(y) == y > ROWS

(* kY > 24 *)
ScreenFull(y) == y > ROWS - 1

(* putcar up to the test of kY *)
Moved(s, c) ==
  LET a == Addr(s.kX, s.kY)
      x == SChar(s.kX + 1)
  IN CASE c = NL   -> [s EXCEPT !.kX = 0, !.kY = SChar(@ + 1)]
       [] c = TABC -> [s EXCEPT !.kX = SChar(@ + TAB - Rem(@))]
       [] c = CR   -> [s EXCEPT !.kX = 0]
       [] OTHER    ->
            [s EXCEPT !.video = IF a \in Cells
                                THEN [@ EXCEPT ![a] = [ch |-> c, attr |-> s.kattr]]
                                ELSE @,
                      !.kX = IF LineFull(x) THEN 0 ELSE x,
                      !.kY = IF LineFull(x) THEN SChar(@ + 1) ELSE @]

Scrolled(t) == IF ScreenFull(t.kY) THEN scrollup(t, t.kY - (ROWS - 1)) ELSE t

putcar(s, c) == update_cursor(Scrolled(Moved(s, c)))

(* the address outside the video memory that putcar(s, c) writes, if any *)
Stray(s, c) == IF c > 0 THEN {Addr(s.kX, s.kY)} \ Cells ELSE {}

-----------------------------------------------------------------------------
(* The syscalls.  SYS_PRINT and SYS_LS set their colour and print; what    *)
(* SYS_SETCOLOR sets is overwritten by the next of them.                   *)

StartPrint(attr) ==
  /\ printing = 0
  /\ printing' = attr /\ scr' = [scr EXCEPT !.kattr = attr]
  /\ UNCHANGED <<beyond, m, histVars>>

SYS_PRINT == StartPrint(White)
SYS_LS    == StartPrint(Yellow)

SYS_SETCOLOR ==
  /\ printing = 0
  /\ \E attr \in Colors : scr' = [scr EXCEPT !.kattr = attr]
  /\ UNCHANGED <<beyond, m, printing, histVars>>

(* the end of the string *)
EndPrint ==
  /\ printing # 0 /\ m.pc = "idle"
  /\ printing' = 0
  /\ UNCHANGED <<scr, beyond, m, histVars>>

(* The text is remembered as long as it determines the screen. *)
Note(race, s) == IF race THEN <<>> ELSE text \o s

(* the call of putcar for the next character of the string *)
Putcar(kind) ==
  LET c == IF kind = "glyph" THEN chars + 1
           ELSE IF kind = "nl" THEN NL ELSE IF kind = "tab" THEN TABC ELSE CR
  IN
  /\ printing # 0 /\ m.pc = "idle" /\ chars < MaxChars
  /\ m' = [m EXCEPT !.pc = IF c = TABC THEN "tab" ELSE IF c > 0 THEN "addr" ELSE "zeroX",
                    !.c = c]
  /\ chars' = chars + 1 /\ text' = Note(raced, <<[c |-> c, attr |-> printing]>>)
  /\ tabbed' = (tabbed \/ c = TABC)
  /\ torn' = FALSE
  /\ UNCHANGED <<scr, beyond, printing, echoes, raced, recolored>>

(* One access to memory or to a port: from label a to label b, with the    *)
(* screen s and the register r after it.                                   *)
Access(a, b, s, r) ==
  /\ m.pc = a
  /\ m' = [m EXCEPT !.pc = b, !.reg = r]
  /\ scr' = s
  /\ UNCHANGED <<printing, histVars>>

Load(a, b, r) == Access(a, b, scr, r) /\ UNCHANGED beyond
StoreX(a, b, x) == Access(a, b, [scr EXCEPT !.kX = x], m.reg) /\ UNCHANGED beyond
StoreY(a, b, y) == Access(a, b, [scr EXCEPT !.kY = y], m.reg) /\ UNCHANGED beyond

(* a byte of the cell whose address was computed *)
StoreCell(a, b, cell) ==
  /\ Access(a, b, [scr EXCEPT !.video = IF m.reg \in Cells
                                        THEN [@ EXCEPT ![m.reg] = cell] ELSE @], m.reg)
  /\ beyond' = beyond \cup ({m.reg} \ Cells)

Here == IF m.reg \in Cells THEN scr.video[m.reg] ELSE Old

(* a tab: kX is loaded twice *)
TabLoad  == Load("tab", "tab2", scr.kX)
TabRem   == Load("tab2", "tab3", SChar(m.reg + TAB - Rem(scr.kX)))
TabStore == StoreX("tab3", "testY", m.reg)

(* a glyph: its address, its two bytes, kX++ and the test for the margin *)
AddrX     == Load("addr", "addr2", scr.kX)
AddrY     == Load("addr2", "char", Addr(m.reg, scr.kY))
WriteChar == StoreCell("char", "attr", [Here EXCEPT !.ch = m.c])
WriteAttr == StoreCell("attr", "incX", [Here EXCEPT !.attr = scr.kattr])
LoadX     == Load("incX", "setX", scr.kX)
IncX      == StoreX("setX", "testX", SChar(m.reg + 1))
TestX     == Load("testX", IF LineFull(scr.kX) THEN "zeroX" ELSE "testY", m.reg)

(* a new line, a return or a full line *)
ZeroX == StoreX("zeroX", IF m.c = CR THEN "testY" ELSE "incY", 0)
LoadY == Load("incY", "setY", scr.kY)
IncY  == StoreY("setY", "testY", SChar(m.reg + 1))

(* if (kY > 24) scrollup(kY - 24): the argument is loaded again *)
TestY == Load("testY", IF ScreenFull(scr.kY) THEN "arg" ELSE "curY", m.reg)

LoadArg ==
  /\ m.pc = "arg"
  /\ m' = [m EXCEPT !.pc = "copy", !.n = scr.kY - (ROWS - 1), !.i = 0]
  /\ UNCHANGED <<scr, beyond, printing, histVars>>

(* a round of the loop *)
CopyCell ==
  /\ m.pc = "copy"
  /\ scr' = [scr EXCEPT !.video[m.i] = ScrolledCell(scr.video, m.i, m.n)]
  /\ m' = [m EXCEPT !.pc = IF m.i = SIZE - 1 THEN "subY" ELSE "copy",
                    !.i = IF m.i = SIZE - 1 THEN 0 ELSE m.i + 1]
  /\ UNCHANGED <<beyond, printing, histVars>>

(* kY -= n, and the test for a negative row *)
SubLoad  == Load("subY", "subY2", scr.kY)
SubStore == StoreY("subY2", "neg", SChar(m.reg - m.n))
NotNeg   == StoreY("neg", "curY", IF scr.kY < 0 THEN 0 ELSE scr.kY)

(* update_cursor: the two registers of the CRT controller are written      *)
(* through one index register                                              *)
CurY    == Load("curY", "curX", scr.kY)
CurX    == Load("curX", "indexLo", CursorPos(scr.kX, m.reg))
IndexLo == Access("indexLo", "dataLo", [scr EXCEPT !.index = "lo"], m.reg) /\ UNCHANGED beyond

(* Mutated form: the second index is not written. *)
mut_IndexHi == Access("indexHi", "dataHi", scr, m.reg) /\ UNCHANGED beyond

IndexHi == Access("indexHi", "dataHi", [scr EXCEPT !.index = "hi"], m.reg) /\ UNCHANGED beyond

(* outb(0x3D5, byte): the register the index points to *)
OutData(byte) == IF scr.index = "lo" THEN [scr EXCEPT !.lo = byte] ELSE [scr EXCEPT !.hi = byte]

DataLo == Access("dataLo", "indexHi", OutData(m.reg % BYTE), m.reg) /\ UNCHANGED beyond

DataHi ==
  /\ m.pc = "dataHi"
  /\ scr' = OutData(m.reg \div BYTE) /\ m' = Idle
  /\ UNCHANGED <<beyond, printing, histVars>>

-----------------------------------------------------------------------------
(* The end of keyboard_handler: the echo, with interrupts off. *)

CursorLabels == {"curY", "curX", "indexLo", "dataLo", "indexHi", "dataHi"}

Echo(attr, cs) ==
  LET s0 == [scr EXCEPT !.kattr = attr]
      s1 == putcar(s0, cs[1])
      s2 == putcar(s1, cs[2])
  IN
  /\ echoes < MaxEcho /\ chars + Len(cs) <= MaxChars
  /\ echoes' = echoes + 1 /\ chars' = chars + Len(cs)
  /\ raced' = (raced \/ m.pc # "idle")
  /\ recolored' = (recolored \/ printing \notin {0, attr})
  /\ torn' = (m.pc \in CursorLabels \/ (torn /\ m.pc # "idle"))
  /\ text' = Note(raced', [k \in DOMAIN cs |-> [c |-> cs[k], attr |-> attr]])
  /\ scr' = IF Len(cs) = 1 THEN s1 ELSE putcar(s2, cs[3])
  /\ beyond' = beyond \cup Stray(s0, cs[1])
                      \cup (IF Len(cs) = 1 THEN {} ELSE Stray(s1, cs[2]))
  /\ UNCHANGED <<m, printing, tabbed>>

(* kbmap has no tab and no return; Ctrl+C echoes ^C and a new line in red *)
EchoGlyph == Echo(White, <<chars + 1>>)
EchoEnter == Echo(White, <<NL>>)
EchoCtrlC == Echo(Red, <<chars + 1, chars + 2, NL>>)

Syscalls == SYS_PRINT \/ SYS_LS \/ SYS_SETCOLOR \/ EndPrint
Glyph    == AddrX \/ AddrY \/ WriteChar \/ WriteAttr \/ LoadX \/ IncX \/ TestX
Line     == ZeroX \/ LoadY \/ IncY \/ TestY \/ TabLoad \/ TabRem \/ TabStore
Scroll   == LoadArg \/ CopyCell \/ SubLoad \/ SubStore \/ NotNeg
Cursor   == CurY \/ CurX \/ IndexLo \/ DataLo \/ IndexHi \/ DataHi

Next ==
  \/ Syscalls \/ Glyph \/ Line \/ Scroll \/ Cursor
  \/ \E kind \in {"glyph", "nl", "tab", "cr"} : Putcar(kind)
  \/ EchoGlyph \/ EchoEnter \/ EchoCtrlC

Spec == Init /\ [][Next]_vars

-----------------------------------------------------------------------------
Labels == CursorLabels \cup
  {"idle", "tab", "tab2", "tab3", "addr", "addr2", "char", "attr", "incX", "setX",
   "testX", "zeroX", "incY", "setY", "testY", "arg", "copy", "subY", "subY2", "neg"}

Signed == (-(CHMOD \div 2))..(CHMOD \div 2 - 1)

(* Every variable has its type. *)
TypeOK ==
  /\ scr.kX \in Signed /\ scr.kY \in Signed /\ scr.kattr \in Nat
  /\ DOMAIN scr.video = Cells /\ scr.index \in {"lo", "hi"}
  /\ scr.lo \in 0..(BYTE - 1) /\ scr.hi \in 0..(BYTE - 1)
  /\ m.pc \in Labels /\ m.reg \in Int /\ m.i \in Cells /\ m.n \in Int
  /\ printing \in {0, White, Yellow}
  /\ echoes \in 0..MaxEcho /\ chars \in 0..MaxChars
  /\ {tabbed, raced, recolored, torn} \subseteq BOOLEAN

Quiet == m.pc = "idle"

(* Wherever an echo comes between the steps of putcar, the cursor ends on  *)
(* the screen: the row always does, and is never more than one below it    *)
(* meanwhile, so scrollup moves at most one line; the column does as long  *)
(* as no tab was printed.                                                  *)
CursorOnScreen ==
  /\ scr.kY \in 0..ROWS
  /\ m.pc \in {"copy", "subY", "subY2"} => m.n \in {0, 1}
  /\ Quiet => scr.kY < ROWS
  /\ Quiet /\ ~tabbed => scr.kX \in 0..(COLS - 1)

(* Without tabs putcar writes outside the video memory only when an echo   *)
(* finds the cursor between the end of the last line and the scrolling,    *)
(* and then within one row of it: no other memory is ever touched.         *)
StrayWrites ==
  ~tabbed => beyond \subseteq (IF raced THEN SIZE..(SIZE + COLS - 1) ELSE {})

(* Reference: the text on a page without end, where it is never scrolled.  *)
Advance(p, c) ==
  CASE c = NL   -> [row |-> p.row + 1, col |-> 0]
    [] c = CR   -> [row |-> p.row, col |-> 0]
    [] c = TABC -> [row |-> p.row, col |-> (p.col \div TAB + 1) * TAB]
    [] OTHER    -> IF p.col = COLS - 1 THEN [row |-> p.row + 1, col |-> 0]
                                       ELSE [row |-> p.row, col |-> p.col + 1]

Page ==
  LET pos[k \in 0..Len(text)] ==
        IF k = 0 THEN [row |-> 0, col |-> 0] ELSE Advance(pos[k - 1], text[k].c)
  IN pos

(* The last ROWS lines of the page, as far as they were begun. *)
Shown(a) ==
  LET last == Page[Len(text)].row
      top  == IF last < ROWS THEN 0 ELSE last - (ROWS - 1)
      here == [row |-> top + a \div COLS, col |-> a % COLS]
      ks   == {k \in DOMAIN text : text[k].c > 0 /\ Page[k - 1] = here}
      k    == CHOOSE i \in ks : \A j \in ks : j <= i
  IN IF ks # {} THEN [ch |-> text[k].c, attr |-> text[k].attr]
     ELSE IF here.row < ROWS THEN Old ELSE Blank

(* Unless an echo came in the middle of a putcar or a tab went beyond the  *)
(* right margin, the screen shows the end of the text: all that SYS_PRINT, *)
(* SYS_LS and the echo put out, in the order of the calls, wrapped at the  *)
(* margin; each character in the colour of its call unless a key with      *)
(* another colour was echoed during a print.                               *)
ScreenShowsText ==
  Quiet /\ ~raced /\ (\A k \in DOMAIN text : Page[k].col < COLS) =>
    \A a \in Cells : /\ scr.video[a].ch = Shown(a).ch
                     /\ recolored \/ scr.video[a].attr = Shown(a).attr

(* The hardware cursor is where the next character goes, whatever echoes   *)
(* came before; only an echo inside update_cursor itself, which shares the *)
(* index register, leaves it wrong, and the next character repairs it.     *)
HardwareCursor ==
  Quiet /\ ~torn /\ chars > 0 =>
    scr.hi * BYTE + scr.lo = CursorPos(scr.kX, scr.kY)
=============================================================================
