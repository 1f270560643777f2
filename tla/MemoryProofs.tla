---------------------------- MODULE MemoryProofs -----------------------------
(***************************************************************************)
(* The user halves of address spaces have disjoint frames, and each space  *)
(* keeps the kernel mapped, for any page size, any number of tables and    *)
(* any programs that the linker makes.                                     *)
(*                                                                         *)
(* The argument gives every frame a role: <<kind, n, d, i>> says what      *)
(* the n-th address space uses it for.  A frame has one role, so frames    *)
(* reached on different ways through the page tables are different.        *)
(***************************************************************************)
EXTENDS Memory, FiniteSetTheorems, WellFoundedInduction, TLAPS

-----------------------------------------------------------------------------
(* Pages and cells: division by N. *)

(* A number is its page and its place in the page. *)
LEMMA DivMod ==
  ASSUME NEW a \in Nat
  PROVE  /\ a \div N \in Nat /\ a % N \in Cells
         /\ a = N * (a \div N) + (a % N)
<1>1. N \in Nat /\ N > 0
  BY MemoryAssumption
<1> QED
  BY <1>1 DEF Cells

(* Whole pages keep the order of their numbers. *)
LEMMA PagesOrdered ==
  ASSUME NEW a \in Nat, NEW b \in Nat
  PROVE  /\ N * a < N * b => a < b
         /\ a < b => N * a + N <= N * b
         /\ a <= b => N * a <= N * b
         /\ N * a \in Nat
<1>1. N \in Nat /\ N > 0
  BY MemoryAssumption
<1>2. N * a \in Nat /\ N * b \in Nat
  BY <1>1
<1>3. ASSUME a < b PROVE N * a + N <= N * b
  <2>1. PICK k \in Nat : b = a + 1 + k
    <3>1. b - a - 1 \in Nat /\ b = a + 1 + (b - a - 1)
      BY <1>3
    <3> QED
      BY <3>1
  <2>2. N * b = N * a + N + N * k
    BY <2>1, <1>1
  <2>3. N * k \in Nat
    BY <1>1
  <2> QED
    BY <2>2, <2>3, <1>2, <1>1
<1>4. ASSUME b < a PROVE N * b <= N * a
  <2>1. PICK k \in Nat : a = b + k
    <3>1. a - b \in Nat /\ a = b + (a - b)
      BY <1>4
    <3> QED
      BY <3>1
  <2>2. N * a = N * b + N * k
    BY <2>1, <1>1
  <2>3. N * k \in Nat
    BY <1>1
  <2> QED
    BY <2>2, <2>3, <1>2
<1>5. N * a < N * b => a < b
  BY <1>2, <1>4
<1>6. a <= b => N * a <= N * b
  BY <1>3, <1>2, <1>1
<1> QED
  BY <1>2, <1>3, <1>5, <1>6

(* The page of a number between two page boundaries. *)
LEMMA DivIs ==
  ASSUME NEW a \in Nat, NEW k \in Nat, N * k <= a, a < N * k + N
  PROVE  a \div N = k /\ a % N = a - N * k
<1>1. N \in Nat /\ N > 0
  BY MemoryAssumption
<1>2. a \div N \in Nat /\ a % N \in Cells /\ a = N * (a \div N) + (a % N)
  BY DivMod
<1>3. N * k \in Nat /\ N * (a \div N) \in Nat
  BY <1>1, <1>2
<1>4. (a % N) \in 0..(N - 1)
  BY <1>2 DEF Cells
<1>5. ~(a \div N < k)
  <2> SUFFICES ASSUME a \div N < k PROVE FALSE
    OBVIOUS
  <2>1. N * (a \div N) + N <= N * k
    BY <1>2, PagesOrdered
  <2> QED
    BY <2>1, <1>2, <1>3, <1>4, <1>1
<1>6. ~(k < a \div N)
  <2> SUFFICES ASSUME k < a \div N PROVE FALSE
    OBVIOUS
  <2>1. N * k + N <= N * (a \div N)
    BY <1>2, PagesOrdered
  <2> QED
    BY <2>1, <1>2, <1>3, <1>4, <1>1
<1>7. a \div N = k
  BY <1>2, <1>5, <1>6
<1>8. (a % N) = a - N * k
  BY <1>2, <1>3, <1>4, <1>7
<1> QED
  BY <1>7, <1>8

(* PageBase rounds down to a page. *)
LEMMA PageBaseIs ==
  ASSUME NEW a \in Nat
  PROVE  PageBase(a) = N * (a \div N) /\ PageBase(a) \in Nat /\ PageBase(a) <= a
<1>1. N \in Nat /\ N > 0
  BY MemoryAssumption
<1>2. a \div N \in Nat /\ (a % N) \in 0..(N - 1) /\ a = N * (a \div N) + (a % N)
  BY DivMod DEF Cells
<1>3. N * (a \div N) \in Nat
  BY <1>1, <1>2
<1> QED
  BY <1>2, <1>3 DEF PageBase

(* A page table entry holds its frame and its flags. *)
LEMMA EntryIs ==
  ASSUME NEW f \in Nat
  PROVE  /\ Entry(f, PWU) \in Nat /\ FrameOf(Entry(f, PWU)) = f /\ Present(Entry(f, PWU))
         /\ Entry(f, PRESENT + WRITE) \in Nat
         /\ ~Present(0)
  BY DEF Entry, FrameOf, Present, PWU, PRESENT, WRITE, USER

-----------------------------------------------------------------------------
(* The allocator, as far as the loader depends on it. *)

Total == total_pages(MemSize)

(* The bitmap covers the memory and keeps the reserved area. *)
Alloc(p) ==
  /\ p.total = Total /\ p.used \subseteq AllFrames
  /\ p \in [total : Nat, used : SUBSET AllFrames, free : Int]
  /\ 0..(PMM_RESERVED - 1) \subseteq p.used

(* No frame beyond the identity map is taken. *)
Low(p) == \A f \in (KTables * N)..(Total - 1) : f \notin p.used

(* The same, or the identity map is full and another frame is left. *)
Room(p) == Low(p) \/ (Identity \subseteq p.used /\ FreeFrames(p) # {})

(* The numbers of the machine. *)
LEMMA Sizes ==
  /\ N \in Nat /\ N > 1 /\ KTables \in Nat /\ KTables > 0 /\ KTables <= N
  /\ KTables * N \in Nat /\ Total \in Nat /\ KTables * N + 1 < Total
  /\ Total <= MemSize /\ Total <= PMM_MAX_PAGES /\ MemSize \in Nat
  /\ PMM_RESERVED \in Nat /\ PMM_RESERVED > 0 /\ PMM_RESERVED <= KTables * N
  /\ WORD \in Nat /\ PMM_MAX_PAGES \in Nat
<1>1. N \in Nat /\ N > 1 /\ KTables \in Nat /\ KTables > 0 /\ KTables <= N
  BY MemoryAssumption
<1>2. KTables * N \in Nat
  BY <1>1
<1>3. PMM_MAX_PAGES \in Nat /\ PMM_RESERVED \in Nat /\ PMM_RESERVED > 0
  BY FramesAssumption
<1>4. MemSize \in Nat /\ PMM_RESERVED <= KTables * N /\ KTables * N + 1 < Total
  BY MemoryAssumption DEF Total
<1>5. Total \in Nat /\ Total <= MemSize /\ Total <= PMM_MAX_PAGES
  BY <1>3, <1>4 DEF Total, total_pages
<1>6. N * N \in Nat
  BY <1>1
<1>7. WORD \in Nat
  BY <1>1, <1>6 DEF WORD
<1> QED
  BY <1>1, <1>2, <1>3, <1>4, <1>5, <1>7

(* The fixed frames are in the reserved area, which the identity map       *)
(* reaches.                                                                *)
LEMMA StaticIs ==
  /\ Static \subseteq 0..(PMM_RESERVED - 1)
  /\ 0..(PMM_RESERVED - 1) \subseteq Identity
  /\ Identity \subseteq 0..(MemSize - 1)
  /\ KernelFrames \subseteq Static
  /\ \A i \in 1..10 : TaskFrames[i] \in Static
<1>1. Static \subseteq 0..(PMM_RESERVED - 1)
  BY MemoryAssumption
<1>2. 0..(PMM_RESERVED - 1) \subseteq Identity
  BY Sizes DEF Identity
<1>3. Identity \subseteq 0..(MemSize - 1)
  BY Sizes DEF Identity
<1> QED
  BY <1>1, <1>2, <1>3 DEF Static

(* A non-empty set of numbers has a least element. *)
LEMMA LeastExists ==
  ASSUME NEW S, S \subseteq Nat, S # {}
  PROVE  \E x \in S : \A y \in S : x <= y
<1> DEFINE R == OpToRel(<, Nat)
<1>1. R = {ss \in Nat \X Nat : ss[1] < ss[2]}
  BY DEF OpToRel
<1>2. IsWellFoundedOn(R, Nat)
  BY NatLessThanWellFounded
<1> HIDE DEF R
<1>3. PICK x \in S : \A y \in S : ~(<<y, x>> \in R)
  BY <1>2, WFMin
<1>4. \A y \in S : ~(y < x)
  BY <1>1, <1>3
<1> QED
  BY <1>4

(* pmm_alloc_page returns the first frame whose bit is clear, and sets it. *)
LEMMA FrameIs ==
  ASSUME NEW p, Alloc(p), FreeFrames(p) # {}
  PROVE  /\ Frame(p) \in 0..(Total - 1) /\ Frame(p) \notin p.used
         /\ \A g \in 0..(Total - 1) : g \notin p.used => Frame(p) <= g
         /\ pmm_alloc_page(p).used = p.used \cup {Frame(p)}
         /\ Alloc(pmm_alloc_page(p))
<1>1. p.total = Total /\ Total \in Nat /\ p.used \subseteq AllFrames
  BY Sizes DEF Alloc
<1>2. FreeFrames(p) \subseteq Nat
  BY <1>1 DEF FreeFrames
<1>3. \E f \in FreeFrames(p) : \A g \in FreeFrames(p) : f <= g
  BY <1>2, LeastExists
<1>4. Frame(p) \in FreeFrames(p) /\ \A g \in FreeFrames(p) : Frame(p) <= g
  BY <1>3, Zenon DEF Frame
<1>5. Frame(p) \in 0..(Total - 1) /\ Frame(p) \notin p.used
  BY <1>1, <1>4 DEF FreeFrames
<1>6. \A g \in 0..(Total - 1) : g \notin p.used => Frame(p) <= g
  BY <1>1, <1>4 DEF FreeFrames
<1>7. Frame(p) \in AllFrames
  BY <1>5, Sizes DEF AllFrames
<1> DEFINE fr == Frame(p)
<1> HIDE DEF fr
<1>8. pmm_alloc_page(p) = [p EXCEPT !.used = @ \cup {fr}, !.free = @ - 1]
  BY Zenon DEF pmm_alloc_page, fr
<1>9. p \in [total : Nat, used : SUBSET AllFrames, free : Int] /\ fr \in AllFrames
  BY <1>7 DEF Alloc, fr
<1>10. /\ pmm_alloc_page(p).used = p.used \cup {fr}
       /\ pmm_alloc_page(p).total = p.total
       /\ pmm_alloc_page(p) \in [total : Nat, used : SUBSET AllFrames, free : Int]
  <2>1. p.used \cup {fr} \in SUBSET AllFrames /\ p.free - 1 \in Int /\ p.total \in Nat
    BY <1>9
  <2>2. pmm_alloc_page(p) = [total |-> p.total, used |-> p.used \cup {fr}, free |-> p.free - 1]
    BY <1>8, <1>9
  <2> QED
    BY <2>1, <2>2
<1>11. 0..(PMM_RESERVED - 1) \subseteq pmm_alloc_page(p).used
  BY <1>10 DEF Alloc
<1>12. Alloc(pmm_alloc_page(p))
  BY <1>1, <1>10, <1>11, <1>9 DEF Alloc
<1> QED
  BY <1>5, <1>6, <1>10, <1>12 DEF fr

(* Below the end of the identity map there is always another frame, and    *)
(* one that the kernel can write leaves the rest as it was.                *)
LEMMA LowAlloc ==
  ASSUME NEW p, Alloc(p), Low(p)
  PROVE  /\ FreeFrames(p) # {}
         /\ Writable({Frame(p)}) => Low(pmm_alloc_page(p))
         /\ Room(pmm_alloc_page(p))
<1>1. KTables * N \in (KTables * N)..(Total - 1) /\ KTables * N + 1 \in (KTables * N)..(Total - 1)
  BY Sizes
<1>2. KTables * N \notin p.used /\ KTables * N + 1 \notin p.used
  BY <1>1 DEF Low
<1>3. KTables * N \in 0..(Total - 1) /\ KTables * N + 1 \in 0..(Total - 1)
  BY Sizes
<1>4. FreeFrames(p) # {}
  BY <1>2, <1>3, Sizes DEF FreeFrames, Alloc
<1> DEFINE fr == Frame(p)
           q  == pmm_alloc_page(p)
<1> HIDE DEF fr, q
<1>5. /\ fr \in 0..(Total - 1) /\ fr \notin p.used
      /\ \A g \in 0..(Total - 1) : g \notin p.used => fr <= g
      /\ q.used = p.used \cup {fr}
      /\ Alloc(q)
  BY <1>4, FrameIs DEF fr, q
<1>6. ASSUME Writable({fr}) PROVE Low(q)
  <2>1. fr \in 0..(KTables * N - 1)
    BY <1>6 DEF Writable, Identity
  <2>2. \A f \in (KTables * N)..(Total - 1) : f # fr
    BY <2>1, Sizes
  <2> QED
    BY <2>2, <1>5 DEF Low
<1>7. ASSUME ~Writable({fr}) PROVE Room(q)
  <2>1. fr \notin Identity
    BY <1>7 DEF Writable
  <2>2. ~(fr < KTables * N)
    BY <2>1, <1>5, Sizes DEF Identity
  <2>3. ASSUME NEW g \in Identity PROVE g \in p.used
    <3>1. g \in 0..(Total - 1) /\ g < KTables * N
      BY Sizes DEF Identity
    <3>2. ~(fr <= g)
      BY <3>1, <2>2, <1>5, Sizes
    <3> QED
      BY <3>1, <3>2, <1>5
  <2>4. Identity \subseteq q.used
    BY <2>3, <1>5
  <2>5. KTables * N \notin q.used \/ KTables * N + 1 \notin q.used
    BY <1>2, <1>5, Sizes
  <2>6. q.total = Total
    BY <1>5 DEF Alloc
  <2>7. FreeFrames(q) # {}
    BY <2>5, <2>6, <1>3 DEF FreeFrames
  <2> QED
    BY <2>4, <2>7 DEF Room
<1> QED
  BY <1>4, <1>6, <1>7 DEF Room, fr, q

(* With room, a frame that the kernel can write has nothing taken beyond.  *)
LEMMA RoomAlloc ==
  ASSUME NEW p, Alloc(p), Room(p), Writable({Frame(p)})
  PROVE  Low(p)
<1>1. CASE Low(p)
  BY <1>1
<1>2. CASE Identity \subseteq p.used /\ FreeFrames(p) # {}
  <2>1. Frame(p) \notin p.used
    BY <1>2, FrameIs
  <2>2. Frame(p) \in Identity
    BY DEF Writable
  <2> QED
    BY <2>1, <2>2, <1>2
<1> QED
  BY <1>1, <1>2 DEF Room
-----------------------------------------------------------------------------
(* Who uses which frame. *)

Ram    == 0..(MemSize - 1)
Pages  == [Cells -> Nat]
Mem    == [Ram -> Pages]
Roles  == Nat \X Nat \X Nat \X Nat

(* P[n] is the page directory of the n-th address space, r the role of     *)
(* each frame, u the frames in use.                                        *)
DirsOwned(u, r, P) ==
  \A n \in DOMAIN P : P[n] \in u /\ r[P[n]] = <<1, n, 0, 0>>

TabsOwned(m, u, r, P) ==
  \A n \in DOMAIN P : \A d \in UserDirs :
    Present(m[P[n]][d]) =>
      LET t == FrameOf(m[P[n]][d]) IN t \in u /\ r[t] = <<2, n, d, 0>>

PagesOwned(m, u, r, P) ==
  \A n \in DOMAIN P : \A d \in UserDirs : \A i \in Cells :
    Present(m[P[n]][d]) /\ Present(m[FrameOf(m[P[n]][d])][i]) =>
      LET f == FrameOf(m[FrameOf(m[P[n]][d])][i]) IN f \in u /\ r[f] = <<3, n, d, i>>

Owned(m, u, r, P) == DirsOwned(u, r, P) /\ TabsOwned(m, u, r, P) /\ PagesOwned(m, u, r, P)

(* Roles differ when one of their parts does. *)
LEMMA RolesDiffer ==
  ASSUME NEW a, NEW b, NEW c, NEW d, NEW w, NEW x, NEW y, NEW z,
         <<a, b, c, d>> = <<w, x, y, z>>
  PROVE  a = w /\ b = x /\ c = y /\ d = z
  OBVIOUS

(* Memory of which no frame in use has changed. *)
LEMMA UntouchedOwned ==
  ASSUME NEW m, NEW m2, NEW u, NEW r, NEW P,
         Owned(m, u, r, P), \A g \in u : m2[g] = m[g]
  PROVE  Owned(m2, u, r, P)
<1>1. DirsOwned(u, r, P)
  BY DEF Owned
<1>2. ASSUME NEW n \in DOMAIN P PROVE m2[P[n]] = m[P[n]]
  BY <1>1 DEF DirsOwned
<1>3. TabsOwned(m2, u, r, P)
  BY <1>2 DEF Owned, TabsOwned
<1>4. ASSUME NEW n \in DOMAIN P, NEW d \in UserDirs, Present(m[P[n]][d])
      PROVE  m2[FrameOf(m[P[n]][d])] = m[FrameOf(m[P[n]][d])]
  BY <1>4 DEF Owned, TabsOwned
<1>5. PagesOwned(m2, u, r, P)
  BY <1>2, <1>4 DEF Owned, PagesOwned
<1> QED
  BY <1>1, <1>3, <1>5 DEF Owned

(* A frame that nobody uses may get any role. *)
LEMMA FreshRole ==
  ASSUME NEW m, NEW u, NEW r \in [Ram -> Roles], NEW P, NEW f \in Ram, NEW role \in Roles,
         Owned(m, u, r, P), u \subseteq Ram, f \notin u
  PROVE  Owned(m, u, [r EXCEPT ![f] = role], P)
<1> DEFINE s == [r EXCEPT ![f] = role]
<1>1. \A g \in u : s[g] = r[g]
  OBVIOUS
<1> HIDE DEF s
<1>2. DirsOwned(u, s, P)
  BY <1>1 DEF Owned, DirsOwned
<1>3. TabsOwned(m, u, s, P)
  BY <1>1 DEF Owned, TabsOwned
<1>4. PagesOwned(m, u, s, P)
  BY <1>1 DEF Owned, PagesOwned
<1> QED
  BY <1>2, <1>3, <1>4 DEF Owned, s

(* More frames in use. *)
LEMMA MoreUsed ==
  ASSUME NEW m, NEW u, NEW u2, NEW r, NEW P, Owned(m, u, r, P), u \subseteq u2
  PROVE  Owned(m, u2, r, P)
<1>1. DirsOwned(u2, r, P)
  BY DEF Owned, DirsOwned
<1>2. TabsOwned(m, u2, r, P)
  BY DEF Owned, TabsOwned
<1>3. PagesOwned(m, u2, r, P)
  BY DEF Owned, PagesOwned
<1> QED
  BY <1>1, <1>2, <1>3 DEF Owned

(* An empty page table, for directory entry e of the k-th address space. *)
LEMMA TableOwned ==
  ASSUME NEW m, NEW m2, NEW u, NEW r, NEW P, NEW k \in DOMAIN P, NEW e \in UserDirs, NEW t \in u,
         Owned(m, u, r, P), r[t] = <<2, k, e, 0>>,
         ~Present(m[P[k]][e]),
         \A n \in DOMAIN P : P[n] # t,
         \A n \in DOMAIN P, d \in UserDirs : Present(m[P[n]][d]) => FrameOf(m[P[n]][d]) # t,
         \A g \in u : g # P[k] /\ g # t => m2[g] = m[g],
         \A d \in Cells : d # e => m2[P[k]][d] = m[P[k]][d],
         FrameOf(m2[P[k]][e]) = t,
         \A i \in Cells : ~Present(m2[t][i])
  PROVE  Owned(m2, u, r, P)
<1>1. DirsOwned(u, r, P)
  BY DEF Owned
<1>2. ASSUME NEW n \in DOMAIN P, n # k PROVE m2[P[n]] = m[P[n]]
  <2>1. r[P[n]] = <<1, n, 0, 0>> /\ r[P[k]] = <<1, k, 0, 0>> /\ P[n] \in u
    BY <1>1 DEF DirsOwned
  <2>2. P[n] # P[k]
    BY <2>1, <1>2
  <2> QED
    BY <2>1, <2>2
<1>3. UserDirs \subseteq Cells
  BY DEF UserDirs
<1>4. ASSUME NEW n \in DOMAIN P, NEW d \in UserDirs, <<n, d>> # <<k, e>>
      PROVE  m2[P[n]][d] = m[P[n]][d]
  BY <1>2, <1>3, <1>4
<1>5. TabsOwned(m2, u, r, P)
  <2> SUFFICES ASSUME NEW n \in DOMAIN P, NEW d \in UserDirs, Present(m2[P[n]][d])
               PROVE  LET v == FrameOf(m2[P[n]][d]) IN v \in u /\ r[v] = <<2, n, d, 0>>
    BY DEF TabsOwned
  <2>1. CASE <<n, d>> = <<k, e>>
    BY <2>1
  <2>2. CASE <<n, d>> # <<k, e>>
    BY <2>2, <1>4 DEF Owned, TabsOwned
  <2> QED
    BY <2>1, <2>2
<1>6. PagesOwned(m2, u, r, P)
  <2> SUFFICES ASSUME NEW n \in DOMAIN P, NEW d \in UserDirs, NEW i \in Cells,
                      Present(m2[P[n]][d]), Present(m2[FrameOf(m2[P[n]][d])][i])
               PROVE  LET f == FrameOf(m2[FrameOf(m2[P[n]][d])][i]) IN f \in u /\ r[f] = <<3, n, d, i>>
    BY DEF PagesOwned
  <2>1. <<n, d>> # <<k, e>>
    OBVIOUS
  <2>2. m2[P[n]][d] = m[P[n]][d]
    BY <2>1, <1>4
  <2> DEFINE v == FrameOf(m[P[n]][d])
  <2>3. v \in u /\ r[v] = <<2, n, d, 0>> /\ v # t
    BY <2>2 DEF Owned, TabsOwned
  <2>4. r[P[k]] = <<1, k, 0, 0>>
    BY <1>1 DEF DirsOwned
  <2>5. v # P[k]
    BY <2>3, <2>4
  <2>6. m2[v] = m[v]
    BY <2>3, <2>5
  <2> QED
    BY <2>2, <2>6 DEF Owned, PagesOwned
<1> QED
  BY <1>1, <1>5, <1>6 DEF Owned

(* A page, in entry j of the table of directory entry e of the k-th        *)
(* address space.                                                          *)
LEMMA PageOwned ==
  ASSUME NEW m, NEW m2, NEW u, NEW r, NEW P, NEW k \in DOMAIN P, NEW e \in UserDirs, NEW j \in Cells,
         NEW t, NEW f \in u,
         Owned(m, u, r, P), r[f] = <<3, k, e, j>>,
         Present(m[P[k]][e]), t = FrameOf(m[P[k]][e]),
         \A g \in u : g # t => m2[g] = m[g],
         \A i \in Cells : i # j => m2[t][i] = m[t][i],
         FrameOf(m2[t][j]) = f
  PROVE  Owned(m2, u, r, P)
<1>1. DirsOwned(u, r, P)
  BY DEF Owned
<1>2. r[t] = <<2, k, e, 0>>
  BY DEF Owned, TabsOwned
<1>3. ASSUME NEW n \in DOMAIN P PROVE m2[P[n]] = m[P[n]]
  <2>1. r[P[n]] = <<1, n, 0, 0>> /\ P[n] \in u
    BY <1>1 DEF DirsOwned
  <2>2. P[n] # t
    BY <2>1, <1>2
  <2> QED
    BY <2>1, <2>2
<1>4. TabsOwned(m2, u, r, P)
  BY <1>3 DEF Owned, TabsOwned
<1>5. PagesOwned(m2, u, r, P)
  <2> SUFFICES ASSUME NEW n \in DOMAIN P, NEW d \in UserDirs, NEW i \in Cells,
                      Present(m2[P[n]][d]), Present(m2[FrameOf(m2[P[n]][d])][i])
               PROVE  LET g == FrameOf(m2[FrameOf(m2[P[n]][d])][i]) IN g \in u /\ r[g] = <<3, n, d, i>>
    BY DEF PagesOwned
  <2> DEFINE v == FrameOf(m[P[n]][d])
  <2>1. m2[P[n]][d] = m[P[n]][d] /\ Present(m[P[n]][d])
    BY <1>3
  <2>2. v \in u /\ r[v] = <<2, n, d, 0>>
    BY <2>1 DEF Owned, TabsOwned
  <2>3. CASE v # t
    <3>1. m2[v] = m[v]
      BY <2>3, <2>2
    <3> QED
      BY <3>1, <2>1 DEF Owned, PagesOwned
  <2>4. CASE v = t
    <3>1. n = k /\ d = e
      BY <2>2, <2>4, <1>2
    <3>2. CASE i = j
      BY <3>1, <3>2, <2>1
    <3>3. CASE i # j
      <4>1. m2[v][i] = m[v][i]
        BY <2>4, <3>3
      <4> QED
        BY <4>1, <2>1 DEF Owned, PagesOwned
    <3> QED
      BY <3>2, <3>3
  <2> QED
    BY <2>3, <2>4
<1> QED
  BY <1>1, <1>4, <1>5 DEF Owned

(* A page directory p for a further address space k, with at most one user *)
(* page table: t, at entry e, whose pages have their roles.  The frames    *)
(* that are written belong to nobody else.                                 *)
DirAdded(m, m2, u, r, P, P2, k, p, t, e) ==
  /\ p \in u /\ r[p] = <<1, k, 0, 0>>
  /\ k \notin DOMAIN P /\ DOMAIN P2 = DOMAIN P \cup {k}
  /\ P2[k] = p /\ \A n \in DOMAIN P : P2[n] = P[n]
  /\ \A n \in DOMAIN P : m2[P[n]] = m[P[n]]
  /\ \A g \in u, n \in DOMAIN P, d \in UserDirs : r[g] = <<2, n, d, 0>> => m2[g] = m[g]
  /\ \A d \in UserDirs : Present(m2[p][d]) =>
       /\ d = e /\ FrameOf(m2[p][d]) = t /\ t \in u /\ r[t] = <<2, k, e, 0>>
       /\ \A i \in Cells : Present(m2[t][i]) =>
            FrameOf(m2[t][i]) \in u /\ r[FrameOf(m2[t][i])] = <<3, k, e, i>>

(* The new directory and what it maps have their owner. *)
LEMMA DirOwned ==
  ASSUME NEW m, NEW m2, NEW u, NEW r, NEW P, NEW P2, NEW k, NEW p, NEW t, NEW e,
         Owned(m, u, r, P), DirAdded(m, m2, u, r, P, P2, k, p, t, e)
  PROVE  Owned(m2, u, r, P2)
<1> USE DEF DirAdded
<1>1. DirsOwned(u, r, P2)
  BY DEF Owned, DirsOwned
<1>2. TabsOwned(m2, u, r, P2)
  <2> SUFFICES ASSUME NEW n \in DOMAIN P2, NEW d \in UserDirs, Present(m2[P2[n]][d])
               PROVE  LET v == FrameOf(m2[P2[n]][d]) IN v \in u /\ r[v] = <<2, n, d, 0>>
    BY DEF TabsOwned
  <2>1. CASE n = k
    BY <2>1
  <2>2. CASE n \in DOMAIN P
    BY <2>2 DEF Owned, TabsOwned
  <2> QED
    BY <2>1, <2>2
<1>3. PagesOwned(m2, u, r, P2)
  <2> SUFFICES ASSUME NEW n \in DOMAIN P2, NEW d \in UserDirs, NEW i \in Cells,
                      Present(m2[P2[n]][d]), Present(m2[FrameOf(m2[P2[n]][d])][i])
               PROVE  LET g == FrameOf(m2[FrameOf(m2[P2[n]][d])][i]) IN g \in u /\ r[g] = <<3, n, d, i>>
    BY DEF PagesOwned
  <2>1. CASE n = k
    BY <2>1
  <2>2. CASE n \in DOMAIN P
    <3> DEFINE v == FrameOf(m[P[n]][d])
    <3>1. m2[P2[n]] = m[P[n]]
      BY <2>2
    <3>2. v \in u /\ r[v] = <<2, n, d, 0>>
      BY <3>1, <2>2 DEF Owned, TabsOwned
    <3>3. m2[v] = m[v]
      BY <3>2, <2>2
    <3> QED
      BY <3>1, <3>3, <2>2 DEF Owned, PagesOwned
  <2> QED
    BY <2>1, <2>2
<1> QED
  BY <1>1, <1>2, <1>3 DEF Owned
-----------------------------------------------------------------------------
(* What the kernel's own tables hold, and what each address space shares   *)
(* with them.                                                              *)
KernelTables(m) ==
  /\ \A i \in Cells : m[KERNEL_PD][i] = IF i < KTables THEN Entry(KERNEL_PT + i, PWU) ELSE 0
  /\ \A f \in KPTs : \A i \in Cells : m[f][i] = Entry((f - KERNEL_PT) * N + i, PWU)

KernelShared(m, P) ==
  \A n \in DOMAIN P : \A i \in Cells : i < KTables => m[P[n]][i] = m[KERNEL_PD][i]

(* The fixed frames have their roles from the start. *)
TaskRole(l, n, f) ==
  IF f = l.pd THEN <<1, n, 0, 0>>
  ELSE IF f = l.pt THEN <<2, n, TASK_CODE_VIRT \div N, 0>>
  ELSE IF f = l.code THEN <<3, n, TASK_CODE_VIRT \div N, TASK_CODE_VIRT % N>>
  ELSE IF f = l.stack THEN <<3, n, TASK_CODE_VIRT \div N, TASK_STACK_VIRT % N>>
  ELSE <<4, n, 0, 0>>

FramesOf(l) == {l.pd, l.pt, l.code, l.stack, l.kstack}

StaticRole(f) ==
  IF f \in KernelFrames THEN <<0, 0, 0, 0>>
  ELSE IF f \in FramesOf(Layout["A"]) THEN TaskRole(Layout["A"], 1, f)
  ELSE TaskRole(Layout["B"], 2, f)

StaticRoles(r) == \A f \in Static : r[f] = StaticRole(f)

Taken(p) == p.used \cap Ram

(* The frame that is handed out next is in RAM and nobody uses it. *)
LEMMA TakenIs ==
  ASSUME NEW p, Alloc(p), FreeFrames(p) # {}
  PROVE  /\ Frame(p) \in Ram /\ Frame(p) \notin Taken(p) /\ Frame(p) \notin Static
         /\ Taken(pmm_alloc_page(p)) = Taken(p) \cup {Frame(p)}
         /\ Static \subseteq Taken(p)
         /\ Taken(p) \subseteq Ram
         /\ Alloc(pmm_alloc_page(p))
<1> DEFINE fr == Frame(p)
           q  == pmm_alloc_page(p)
<1> HIDE DEF fr, q
<1>1. fr \in 0..(Total - 1) /\ fr \notin p.used /\ q.used = p.used \cup {fr} /\ Alloc(q)
  BY FrameIs DEF fr, q
<1>2. fr \in Ram
  BY <1>1, Sizes DEF Ram
<1>3. Static \subseteq p.used
  BY StaticIs DEF Alloc
<1>4. Static \subseteq Ram
  BY StaticIs DEF Ram
<1> QED
  BY <1>1, <1>2, <1>3, <1>4 DEF Taken, fr, q

(* Memory of which no frame of the kernel and no kernel entry of a         *)
(* directory has changed.                                                  *)
LEMMA KernelUntouched ==
  ASSUME NEW m, NEW m2, NEW P, KernelTables(m), KernelShared(m, P),
         \A f \in KernelFrames : m2[f] = m[f],
         \A n \in DOMAIN P : \A i \in Cells : i < KTables => m2[P[n]][i] = m[P[n]][i]
  PROVE  KernelTables(m2) /\ KernelShared(m2, P)
<1>1. m2[KERNEL_PD] = m[KERNEL_PD] /\ \A f \in KPTs : m2[f] = m[f]
  BY DEF KernelFrames
<1>2. KernelTables(m2)
  BY <1>1, Zenon DEF KernelTables
<1>3. KernelShared(m2, P)
  BY <1>1 DEF KernelShared
<1> QED
  BY <1>2, <1>3

(* The way to page i of directory entry d of directory p. *)
Mapped(m, p, d, i) == Present(m[p][d]) /\ Present(m[FrameOf(m[p][d])][i])
Target(m, p, d, i) == FrameOf(m[FrameOf(m[p][d])][i])

(* proc_map_page, in an address space whose directory entry has a table. *)
SetPage(m, t, j, f) == [m EXCEPT ![t][j] = Entry(f, PWU)]

SetPageDone(m, m2, u, r, P, k, e, j, f, t) ==
  /\ m2 \in Mem /\ Owned(m2, u, r, P)
  /\ KernelTables(m2) /\ KernelShared(m2, P)
  /\ Mapped(m2, P[k], e, j) /\ Target(m2, P[k], e, j) = f
  /\ \A g \in u : g # t => m2[g] = m[g]
  /\ \A i \in Cells : i # j => m2[t][i] = m[t][i]
  /\ r[t] = <<2, k, e, 0>> /\ t \in u

(* The new page gets its owner, and nothing else changes. *)
LEMMA SetPageOwned ==
  ASSUME NEW m \in Mem, NEW u, u \subseteq Ram, NEW r, NEW P,
         NEW k \in DOMAIN P, NEW e \in UserDirs, NEW j \in Cells, NEW f \in u,
         Owned(m, u, r, P), r[f] = <<3, k, e, j>>, Present(m[P[k]][e]),
         KernelTables(m), KernelShared(m, P), StaticRoles(r), KernelFrames \subseteq Static,
         NEW t, t = FrameOf(m[P[k]][e]), NEW m2, m2 = SetPage(m, t, j, f)
  PROVE  SetPageDone(m, m2, u, r, P, k, e, j, f, t)
<1>1. t \in u /\ r[t] = <<2, k, e, 0>>
  BY DEF Owned, TabsOwned
<1>2. P[k] \in u /\ \A n \in DOMAIN P : P[n] \in u /\ r[P[n]] = <<1, n, 0, 0>>
  BY DEF Owned, DirsOwned
<1>3. f \in Nat
  BY DEF Ram
<1>4. Entry(f, PWU) \in Nat /\ FrameOf(Entry(f, PWU)) = f /\ Present(Entry(f, PWU))
  BY <1>3, EntryIs
<1>5. t \in Ram /\ m[t] \in [Cells -> Nat]
  BY <1>1 DEF Mem, Pages
<1>6. m2 = [m EXCEPT ![t] = [m[t] EXCEPT ![j] = Entry(f, PWU)]]
  BY DEF SetPage
<1>7. /\ m2[t] = [m[t] EXCEPT ![j] = Entry(f, PWU)]
      /\ \A g \in Ram : g # t => m2[g] = m[g]
  BY <1>5, <1>6 DEF Mem
<1>8. m2[t] \in Pages
  BY <1>4, <1>5, <1>7 DEF Pages
<1>9. m2 \in Mem
  BY <1>8, <1>6, <1>7, <1>5 DEF Mem
<1>10. m2[t][j] = Entry(f, PWU) /\ \A i \in Cells : i # j => m2[t][i] = m[t][i]
  BY <1>5, <1>7
<1>11. \A g \in u : g # t => m2[g] = m[g]
  BY <1>7
<1>12. FrameOf(m2[t][j]) = f
  BY <1>4, <1>10
<1>13. Owned(m2, u, r, P)
  BY <1>10, <1>11, <1>12, PageOwned
<1>14. \A n \in DOMAIN P : P[n] # t
  BY <1>1, <1>2
<1>15. \A g \in KernelFrames : g # t
  <2> SUFFICES ASSUME t \in KernelFrames PROVE FALSE
    OBVIOUS
  <2>1. r[t] = <<0, 0, 0, 0>>
    BY DEF StaticRoles, StaticRole
  <2> QED
    BY <2>1, <1>1
<1>16. \A g \in KernelFrames : g \in Ram
  BY StaticIs DEF Ram
<1>17. \A g \in KernelFrames : m2[g] = m[g]
  BY <1>15, <1>16, <1>7
<1>18. \A n \in DOMAIN P : m2[P[n]] = m[P[n]]
  BY <1>14, <1>2, <1>11
<1>19. KernelTables(m2) /\ KernelShared(m2, P)
  BY <1>17, <1>18, KernelUntouched
<1>20. Mapped(m2, P[k], e, j) /\ Target(m2, P[k], e, j) = f
  BY <1>18, <1>10, <1>4 DEF Mapped, Target
<1> QED
  BY <1>1, <1>9, <1>10, <1>11, <1>13, <1>19, <1>20 DEF SetPageDone

(* ... and when the table has to be made first. *)
AddTable(m, p, e, t) == [NewTable(m, t) EXCEPT ![p][e] = Entry(t, PWU)]

AddTableDone(m, m2, u, r, s, P, k, e, t) ==
  /\ m2 \in Mem /\ Owned(m2, u \cup {t}, s, P)
  /\ KernelTables(m2) /\ KernelShared(m2, P)
  /\ s \in [Ram -> Roles] /\ StaticRoles(s) /\ \A g \in u : s[g] = r[g]
  /\ Present(m2[P[k]][e]) /\ FrameOf(m2[P[k]][e]) = t
  /\ \A g \in u : g # P[k] => m2[g] = m[g]
  /\ \A d \in Cells : d # e => m2[P[k]][d] = m[P[k]][d]

(* The new table gets its owner, and nothing else changes. *)
LEMMA AddTableOwned ==
  ASSUME NEW m \in Mem, NEW u, u \subseteq Ram, NEW r \in [Ram -> Roles], NEW P,
         NEW k \in DOMAIN P, k \in Nat, NEW e \in UserDirs, NEW t \in Ram, t \notin u,
         Owned(m, u, r, P), ~Present(m[P[k]][e]), KernelFrames \subseteq u,
         KernelTables(m), KernelShared(m, P),
         NEW m2, m2 = AddTable(m, P[k], e, t), NEW s, s = [r EXCEPT ![t] = <<2, k, e, 0>>],
         StaticRoles(r), Static \subseteq u
  PROVE  AddTableDone(m, m2, u, r, s, P, k, e, t)
<1> DEFINE p == P[k]
<1>1. p \in u /\ \A n \in DOMAIN P : P[n] \in u /\ r[P[n]] = <<1, n, 0, 0>>
  BY DEF Owned, DirsOwned
<1> HIDE DEF p
<1>2. t \in Nat /\ e \in Cells /\ e \in Nat /\ e >= KTables
  BY Sizes DEF Ram, UserDirs, Cells
<1>3. Entry(t, PWU) \in Nat /\ FrameOf(Entry(t, PWU)) = t /\ Present(Entry(t, PWU)) /\ ~Present(0)
  BY <1>2, EntryIs
<1>4. p # t /\ p \in Ram
  BY <1>1
<1> DEFINE m1 == [m EXCEPT ![t] = Zero]
<1>5. Zero \in Pages /\ \A i \in Cells : Zero[i] = 0
  BY DEF Zero, Pages
<1>6. m1 \in Mem /\ m1[t] = Zero /\ \A g \in Ram : g # t => m1[g] = m[g]
  BY <1>5 DEF Mem
<1>7. m2 = [m1 EXCEPT ![p] = [m1[p] EXCEPT ![e] = Entry(t, PWU)]]
  BY DEF AddTable, NewTable, p
<1> HIDE DEF m1
<1>8. m1[p] = m[p] /\ m[p] \in [Cells -> Nat]
  BY <1>4, <1>6 DEF Mem, Pages
<1>9. /\ m2[p] = [m[p] EXCEPT ![e] = Entry(t, PWU)]
      /\ \A g \in Ram : g # p => m2[g] = m1[g]
  BY <1>4, <1>6, <1>7, <1>8 DEF Mem
<1>10. m2[p] \in Pages
  BY <1>2, <1>3, <1>8, <1>9 DEF Pages
<1>11. m2 \in Mem
  BY <1>10, <1>9, <1>7, <1>6, <1>4 DEF Mem
<1>12. m2[p][e] = Entry(t, PWU) /\ \A d \in Cells : d # e => m2[p][d] = m[p][d]
  BY <1>2, <1>8, <1>9
<1>13. \A g \in u : g # p => m2[g] = m[g]
  BY <1>9, <1>6
<1>14. m2[t] = Zero
  BY <1>9, <1>6, <1>4
<1>15. <<2, k, e, 0>> \in Roles
  BY <1>2 DEF Roles
<1>16. /\ s \in [Ram -> Roles] /\ \A g \in u : s[g] = r[g]
       /\ s[t] = <<2, k, e, 0>>
  BY <1>15
<1>17. Owned(m, u, s, P)
  BY <1>15, FreshRole
<1>18. Owned(m, u \cup {t}, s, P)
  BY <1>17, MoreUsed
<1>19. \A n \in DOMAIN P : P[n] # t
  BY <1>1
<1>20. \A n \in DOMAIN P, d \in UserDirs : Present(m[P[n]][d]) => FrameOf(m[P[n]][d]) # t
  BY DEF Owned, TabsOwned
<1>21. Owned(m2, u \cup {t}, s, P)
  <2> DEFINE u2 == u \cup {t}
  <2>1. t \in u2 /\ Owned(m, u2, s, P)
    BY <1>18
  <2>2. \A g \in u2 : g # P[k] /\ g # t => m2[g] = m[g]
    BY <1>13 DEF p
  <2>3. \A d \in Cells : d # e => m2[P[k]][d] = m[P[k]][d]
    BY <1>12 DEF p
  <2>4. FrameOf(m2[P[k]][e]) = t
    BY <1>12, <1>3 DEF p
  <2>5. \A i \in Cells : ~Present(m2[t][i])
    BY <1>14, <1>5, <1>3
  <2> HIDE DEF u2
  <2>6. s[t] = <<2, k, e, 0>>
    BY <1>16
  <2>7. Owned(m2, u2, s, P)
    BY <2>1, <2>2, <2>3, <2>4, <2>5, <2>6, <1>19, <1>20, TableOwned, ZenonT(60)
  <2> QED
    BY <2>7 DEF u2
<1>22. StaticRoles(s)
  BY <1>16 DEF StaticRoles
<1>23. \A g \in KernelFrames : m2[g] = m[g]
  <2>1. p \notin KernelFrames
    <3> SUFFICES ASSUME p \in KernelFrames PROVE FALSE
      OBVIOUS
    <3>1. r[p] = <<0, 0, 0, 0>>
      BY DEF StaticRoles, StaticRole, Static
    <3>2. r[p] = <<1, k, 0, 0>>
      BY <1>1 DEF p
    <3> QED
      BY <3>1, <3>2
  <2> QED
    BY <2>1, <1>13
<1>24. \A n \in DOMAIN P : \A i \in Cells : i < KTables => m2[P[n]][i] = m[P[n]][i]
  <2> SUFFICES ASSUME NEW n \in DOMAIN P, NEW i \in Cells, i < KTables
               PROVE  m2[P[n]][i] = m[P[n]][i]
    OBVIOUS
  <2>1. i # e
    BY <1>2, Sizes DEF Cells
  <2>2. CASE P[n] = p
    BY <2>1, <2>2, <1>12
  <2>3. CASE P[n] # p
    BY <2>3, <1>1, <1>13
  <2> QED
    BY <2>2, <2>3
<1>25. KernelTables(m2) /\ KernelShared(m2, P)
  BY <1>23, <1>24, KernelUntouched
<1>26. Present(m2[P[k]][e]) /\ FrameOf(m2[P[k]][e]) = t
  BY <1>12, <1>3 DEF p
<1> QED
  BY <1>11, <1>12, <1>13, <1>16, <1>21, <1>22, <1>25, <1>26 DEF p, AddTableDone
-----------------------------------------------------------------------------
(* From m to m2 every page but one stays where it is, with its contents. *)
Keeps(m, m2, P, k, e, j) ==
  \A n \in DOMAIN P, d \in UserDirs, i \in Cells :
    Mapped(m, P[n], d, i) /\ <<n, d, i>> # <<k, e, j>> =>
      /\ Mapped(m2, P[n], d, i) /\ Target(m2, P[n], d, i) = Target(m, P[n], d, i)
      /\ m2[Target(m, P[n], d, i)] = m[Target(m, P[n], d, i)]

(* Keeping pages is transitive. *)
LEMMA KeepsTrans ==
  ASSUME NEW a, NEW b, NEW c, NEW P, NEW k, NEW e, NEW j,
         Keeps(a, b, P, k, e, j), Keeps(b, c, P, k, e, j)
  PROVE  Keeps(a, c, P, k, e, j)
  BY DEF Keeps

(* Writing a frame that nobody uses keeps every page. *)
LEMMA UntouchedKeeps ==
  ASSUME NEW m, NEW m2, NEW u, NEW r, NEW P, NEW k, NEW e, NEW j,
         Owned(m, u, r, P), \A g \in u : m2[g] = m[g]
  PROVE  Keeps(m, m2, P, k, e, j)
<1> SUFFICES ASSUME NEW n \in DOMAIN P, NEW d \in UserDirs, NEW i \in Cells, Mapped(m, P[n], d, i)
             PROVE  /\ Mapped(m2, P[n], d, i) /\ Target(m2, P[n], d, i) = Target(m, P[n], d, i)
                    /\ m2[Target(m, P[n], d, i)] = m[Target(m, P[n], d, i)]
  BY DEF Keeps
<1>1. m2[P[n]] = m[P[n]]
  BY DEF Owned, DirsOwned
<1>2. m2[FrameOf(m[P[n]][d])] = m[FrameOf(m[P[n]][d])]
  BY DEF Owned, TabsOwned, Mapped
<1>3. Target(m, P[n], d, i) \in u
  BY DEF Owned, PagesOwned, Mapped, Target
<1> QED
  BY <1>1, <1>2, <1>3 DEF Mapped, Target

MapDone(m, m2, u, r, P, k, e, j, f) ==
  /\ m2 \in Mem /\ KernelTables(m2) /\ KernelShared(m2, P)
  /\ \E s \in [Ram -> Roles] : StaticRoles(s) /\ Owned(m2, u \cup {f}, s, P) /\ \A g \in u : s[g] = r[g]
  /\ Mapped(m2, P[k], e, j) /\ Target(m2, P[k], e, j) = f /\ m2[f] = m[f]
  /\ Keeps(m, m2, P, k, e, j)

(* The last step of proc_map_page: frame f gets its place in a table. *)
LEMMA MapFinish ==
  ASSUME NEW m \in Mem, NEW u, u \subseteq Ram, NEW r \in [Ram -> Roles], NEW P,
         NEW k \in DOMAIN P, k \in Nat, NEW e \in UserDirs, NEW j \in Cells,
         NEW f \in Ram, f \notin u,
         Owned(m, u, r, P), Present(m[P[k]][e]),
         KernelTables(m), KernelShared(m, P), StaticRoles(r), Static \subseteq u,
         NEW m2, m2 = SetPage(m, FrameOf(m[P[k]][e]), j, f)
  PROVE  MapDone(m, m2, u, r, P, k, e, j, f)
<1> DEFINE role == <<3, k, e, j>>
           s  == [r EXCEPT ![f] = role]
           u2 == u \cup {f}
           t  == FrameOf(m[P[k]][e])
<1>1. role \in Roles
  BY Sizes DEF Roles, UserDirs, Cells
<1> HIDE DEF role
<1>2. s \in [Ram -> Roles] /\ s[f] = role /\ \A g \in u : s[g] = r[g]
  BY <1>1
<1>3. Owned(m, u, s, P)
  BY <1>1, FreshRole
<1> HIDE DEF s
<1>4. Owned(m, u2, s, P) /\ f \in u2 /\ u2 \subseteq Ram /\ u \subseteq u2
  BY <1>3, MoreUsed
<1>5. StaticRoles(s)
  BY <1>2 DEF StaticRoles
<1>6. KernelFrames \subseteq Static
  BY StaticIs
<1>7. s[f] = <<3, k, e, j>>
  BY <1>2 DEF role
<1> HIDE DEF u2, t
<1>8. m2 = SetPage(m, t, j, f) /\ t = FrameOf(m[P[k]][e])
  BY DEF t
<1>9. /\ m2 \in Mem /\ Owned(m2, u2, s, P)
      /\ KernelTables(m2) /\ KernelShared(m2, P)
      /\ Mapped(m2, P[k], e, j) /\ Target(m2, P[k], e, j) = f
      /\ \A g \in u2 : g # t => m2[g] = m[g]
      /\ \A i \in Cells : i # j => m2[t][i] = m[t][i]
      /\ s[t] = <<2, k, e, 0>> /\ t \in u2
  <2>1. SetPageDone(m, m2, u2, s, P, k, e, j, f, t)
    BY <1>4, <1>5, <1>6, <1>7, <1>8, SetPageOwned, ZenonT(60)
  <2> QED
    BY <2>1, Zenon DEF SetPageDone
<1>10. f # t
  BY <1>7, <1>9
<1>11. m2[f] = m[f]
  BY <1>4, <1>9, <1>10
<1>12. Keeps(m, m2, P, k, e, j)
  <2> SUFFICES ASSUME NEW n \in DOMAIN P, NEW d \in UserDirs, NEW i \in Cells, Mapped(m, P[n], d, i),
                      <<n, d, i>> # <<k, e, j>>
               PROVE  /\ Mapped(m2, P[n], d, i) /\ Target(m2, P[n], d, i) = Target(m, P[n], d, i)
                      /\ m2[Target(m, P[n], d, i)] = m[Target(m, P[n], d, i)]
    BY DEF Keeps
  <2> DEFINE v == FrameOf(m[P[n]][d])
  <2>1. P[n] \in u2 /\ s[P[n]] = <<1, n, 0, 0>>
    BY <1>4 DEF Owned, DirsOwned
  <2>2. m2[P[n]] = m[P[n]]
    <3>1. P[n] # t
      BY <2>1, <1>9
    <3> QED
      BY <3>1, <2>1, <1>9
  <2>3. v \in u2 /\ s[v] = <<2, n, d, 0>>
    BY <1>4 DEF Owned, TabsOwned, Mapped
  <2>4. m2[v][i] = m[v][i]
    <3>1. CASE v # t
      BY <3>1, <2>3, <1>9
    <3>2. CASE v = t
      <4>1. n = k /\ d = e
        BY <3>2, <2>3, <1>9
      <4> QED
        BY <4>1, <3>2, <1>9
    <3> QED
      BY <3>1, <3>2
  <2>5. Target(m, P[n], d, i) \in u2 /\ s[Target(m, P[n], d, i)] = <<3, n, d, i>>
    BY <1>4 DEF Owned, PagesOwned, Mapped, Target
  <2>6. Target(m, P[n], d, i) # t
    BY <2>5, <1>9
  <2>7. m2[Target(m, P[n], d, i)] = m[Target(m, P[n], d, i)]
    BY <2>5, <2>6, <1>9
  <2> QED
    BY <2>2, <2>4, <2>7 DEF Mapped, Target
<1>13. StaticRoles(s) /\ Owned(m2, u \cup {f}, s, P) /\ \A g \in u : s[g] = r[g]
  BY <1>2, <1>5, <1>9 DEF u2
<1> QED
  BY <1>2, <1>9, <1>11, <1>12, <1>13 DEF MapDone

(* A new table keeps every page. *)
LEMMA AddTableKeeps ==
  ASSUME NEW m, NEW m2, NEW u, NEW r, NEW P, NEW k \in DOMAIN P, NEW e \in UserDirs, NEW j,
         Owned(m, u, r, P), ~Present(m[P[k]][e]),
         \A g \in u : g # P[k] => m2[g] = m[g],
         \A d \in Cells : d # e => m2[P[k]][d] = m[P[k]][d]
  PROVE  Keeps(m, m2, P, k, e, j)
<1> SUFFICES ASSUME NEW n \in DOMAIN P, NEW d \in UserDirs, NEW i \in Cells, Mapped(m, P[n], d, i)
             PROVE  /\ Mapped(m2, P[n], d, i) /\ Target(m2, P[n], d, i) = Target(m, P[n], d, i)
                    /\ m2[Target(m, P[n], d, i)] = m[Target(m, P[n], d, i)]
  BY DEF Keeps
<1>1. P[n] \in u /\ r[P[n]] = <<1, n, 0, 0>> /\ r[P[k]] = <<1, k, 0, 0>>
  BY DEF Owned, DirsOwned
<1>2. m2[P[n]][d] = m[P[n]][d]
  <2>1. CASE n # k
    <3>1. P[n] # P[k]
      BY <2>1, <1>1
    <3> QED
      BY <3>1, <1>1
  <2>2. CASE n = k
    <3>1. d # e /\ d \in Cells
      BY <2>2 DEF Mapped, UserDirs
    <3> QED
      BY <3>1, <2>2
  <2> QED
    BY <2>1, <2>2
<1> DEFINE v == FrameOf(m[P[n]][d])
<1>3. v \in u /\ r[v] = <<2, n, d, 0>>
  BY DEF Owned, TabsOwned, Mapped
<1>4. m2[v] = m[v]
  <2>1. v # P[k]
    BY <1>1, <1>3
  <2> QED
    BY <2>1, <1>3
<1>5. Target(m, P[n], d, i) \in u /\ r[Target(m, P[n], d, i)] = <<3, n, d, i>>
  BY DEF Owned, PagesOwned, Mapped, Target
<1>6. m2[Target(m, P[n], d, i)] = m[Target(m, P[n], d, i)]
  <2>1. Target(m, P[n], d, i) # P[k]
    BY <1>1, <1>5
  <2> QED
    BY <2>1, <1>5
<1> QED
  BY <1>2, <1>4, <1>6 DEF Mapped, Target
-----------------------------------------------------------------------------
(* What a fresh frame f, mapped at page virt of the k-th address space,    *)
(* leaves: memory m2 and bitmap q.                                         *)
PageAdded(m, m2, p, q, r, P, k, virt, image) ==
  LET e == virt \div N
      j == virt % N IN
  /\ m2 \in Mem /\ KernelTables(m2) /\ KernelShared(m2, P)
  /\ Alloc(q) /\ Low(q) /\ Taken(p) \subseteq Taken(q)
  /\ \E s \in [Ram -> Roles] :
       StaticRoles(s) /\ Owned(m2, Taken(q), s, P) /\ \A g \in Taken(p) : s[g] = r[g]
  /\ Mapped(m2, P[k], e, j) /\ m2[Target(m2, P[k], e, j)] = image
  /\ Keeps(m, m2, P, k, e, j)

MapForm(m, p, pd, virt, f, r) ==
  /\ NeedsTable(m, pd, virt) =>
       /\ r.mem = SetPage(AddTable(m, pd, virt \div N, Frame(p)), Frame(p), virt % N, f)
       /\ r.pmm = pmm_alloc_page(p)
  /\ ~NeedsTable(m, pd, virt) =>
       r.mem = SetPage(m, FrameOf(m[pd][virt \div N]), virt % N, f) /\ r.pmm = p

(* proc_map_page with and without a table in place. *)
LEMMA MapForms ==
  ASSUME NEW m, NEW p, NEW pd, NEW virt, NEW f
  PROVE  MapForm(m, p, pd, virt, f, proc_map_page(m, p, pd, virt, f))
<1>1. CASE NeedsTable(m, pd, virt)
  BY <1>1 DEF MapForm, proc_map_page, SetPage, AddTable
<1>2. CASE ~NeedsTable(m, pd, virt)
  BY <1>2 DEF MapForm, proc_map_page, SetPage
<1> QED
  BY <1>1, <1>2

(* proc_map_page gives the page to the address space and takes nothing     *)
(* from any other.                                                         *)
LEMMA MapPage ==
  ASSUME NEW m \in Mem, NEW p, Alloc(p), Low(p), NEW r \in [Ram -> Roles], StaticRoles(r),
         NEW P, NEW k \in DOMAIN P, k \in Nat,
         NEW virt \in Nat, virt \div N \in UserDirs, NEW image \in Pages,
         Owned(m, Taken(p), r, P), KernelTables(m), KernelShared(m, P),
         Writable({Frame(p)}),
         NeedsTable(m, P[k], virt) => Writable({Frame(pmm_alloc_page(p))}),
         NEW R, R = proc_map_page([m EXCEPT ![Frame(p)] = image], pmm_alloc_page(p), P[k], virt, Frame(p))
  PROVE  PageAdded(m, R.mem, p, R.pmm, r, P, k, virt, image)
<1> DEFINE fr == Frame(p)
           p1 == pmm_alloc_page(p)
           u  == Taken(p)
           m1 == [m EXCEPT ![fr] = image]
           e  == virt \div N
           j  == virt % N
<1>1. FreeFrames(p) # {} /\ Low(p1)
  BY LowAlloc
<1>2. /\ fr \in Ram /\ fr \notin u /\ fr \notin Static
      /\ Taken(p1) = u \cup {fr} /\ Static \subseteq u /\ u \subseteq Ram /\ Alloc(p1)
  BY <1>1, TakenIs
<1>3. e \in UserDirs /\ j \in Cells
  BY DivMod
<1>4. R = proc_map_page(m1, p1, P[k], virt, fr)
  OBVIOUS
<1>5. Writable({fr}) /\ (NeedsTable(m, P[k], virt) => Writable({Frame(p1)}))
  OBVIOUS
<1>6. Owned(m, u, r, P)
  OBVIOUS
<1>7. e = virt \div N /\ j = virt % N
  OBVIOUS
<1>8. /\ m1 \in Mem /\ m1[fr] = image /\ \A g \in u : m1[g] = m[g]
  BY <1>2 DEF Mem
<1>9. u = Taken(p)
  OBVIOUS
<1> HIDE DEF fr, p1, u, m1, e, j
<1>10. Owned(m1, u, r, P)
  BY <1>6, <1>8, UntouchedOwned
<1>11. \A n \in DOMAIN P : P[n] \in u
  BY <1>6 DEF Owned, DirsOwned
<1>12. KernelFrames \subseteq u
  BY <1>2, StaticIs
<1>13. KernelTables(m1) /\ KernelShared(m1, P)
  BY <1>8, <1>11, <1>12, KernelUntouched
<1>14. Keeps(m, m1, P, k, e, j)
  BY <1>6, <1>8, UntouchedKeeps, ZenonT(60)
<1>15. m1[P[k]] = m[P[k]]
  BY <1>8, <1>11
<1>16. /\ NeedsTable(m1, P[k], virt) <=> ~Present(m1[P[k]][e])
       /\ NeedsTable(m, P[k], virt) <=> ~Present(m1[P[k]][e])
  BY <1>15, <1>7 DEF NeedsTable
<1>17. CASE Present(m1[P[k]][e])
  <2> DEFINE m2 == SetPage(m1, FrameOf(m1[P[k]][e]), j, fr)
  <2>1. R.mem = m2 /\ R.pmm = p1
    <3>1. MapForm(m1, p1, P[k], virt, fr, R)
      BY <1>4, MapForms, Zenon
    <3> QED
      BY <3>1, <1>16, <1>17, <1>7, Zenon DEF MapForm
  <2> HIDE DEF m2
  <2>2. m2 = SetPage(m1, FrameOf(m1[P[k]][e]), j, fr)
    BY DEF m2
  <2>3. MapDone(m1, m2, u, r, P, k, e, j, fr)
    BY <2>2, <1>2, <1>3, <1>8, <1>10, <1>13, <1>17, MapFinish, ZenonT(60)
  <2>4. /\ m2 \in Mem /\ KernelTables(m2) /\ KernelShared(m2, P)
        /\ \E s \in [Ram -> Roles] : StaticRoles(s) /\ Owned(m2, u \cup {fr}, s, P) /\ \A g \in u : s[g] = r[g]
        /\ Mapped(m2, P[k], e, j) /\ Target(m2, P[k], e, j) = fr /\ m2[fr] = m1[fr]
        /\ Keeps(m1, m2, P, k, e, j)
    BY <2>3, Zenon DEF MapDone
  <2>5. Keeps(m, m2, P, k, e, j)
    BY <2>4, <1>14, KeepsTrans
  <2>6. m2[Target(m2, P[k], e, j)] = image
    BY <2>4, <1>8
  <2>7. u \subseteq Taken(p1)
    BY <1>2
  <2>8. Low(p1) /\ Alloc(p1)
    BY <1>1, <1>2 DEF p1
  <2> QED
    BY <2>1, <2>4, <2>5, <2>6, <2>7, <2>8, <1>2, <1>7, <1>9, Zenon DEF PageAdded
<1>18. CASE ~Present(m1[P[k]][e])
  <2> DEFINE t  == Frame(p1)
             p2 == pmm_alloc_page(p1)
             s1 == [r EXCEPT ![t] = <<2, k, e, 0>>]
             m2 == AddTable(m1, P[k], e, t)
             m3 == SetPage(m2, t, j, fr)
             u2 == u \cup {t}
  <2>1. Low(p1) /\ Alloc(p1)
    BY <1>1, <1>2 DEF p1
  <2>2. Writable({t})
    BY <1>5, <1>16, <1>18
  <2>3. FreeFrames(p1) # {} /\ Low(p2)
    BY <2>1, <2>2, LowAlloc
  <2>4. t \in Ram /\ t \notin Taken(p1) /\ Taken(p2) = Taken(p1) \cup {t} /\ Alloc(p2)
    BY <2>1, <2>3, TakenIs
  <2>5. R.mem = m3 /\ R.pmm = p2
    <3>1. MapForm(m1, p1, P[k], virt, fr, R)
      BY <1>4, MapForms, Zenon
    <3> QED
      BY <3>1, <1>16, <1>18, <1>7, Zenon DEF MapForm
  <2>6. m2 = AddTable(m1, P[k], e, t) /\ s1 = [r EXCEPT ![t] = <<2, k, e, 0>>] /\ m3 = SetPage(m2, t, j, fr)
    OBVIOUS
  <2>7. t \notin u /\ t # fr /\ fr \notin u2 /\ u2 \subseteq Ram /\ Static \subseteq u2 /\ Taken(p2) = u2 \cup {fr} /\ u \subseteq u2
    BY <2>4, <1>2
  <2>8. u2 = u \cup {t}
    OBVIOUS
  <2> HIDE DEF t, p2, s1, m2, m3, u2
  <2>9. AddTableDone(m1, m2, u, r, s1, P, k, e, t)
    BY <2>4, <2>6, <2>7, <1>2, <1>3, <1>8, <1>10, <1>12, <1>13, <1>18, AddTableOwned, ZenonT(60)
  <2>10. /\ m2 \in Mem /\ Owned(m2, u2, s1, P)
         /\ KernelTables(m2) /\ KernelShared(m2, P)
         /\ s1 \in [Ram -> Roles] /\ StaticRoles(s1) /\ \A g \in u : s1[g] = r[g]
         /\ Present(m2[P[k]][e]) /\ FrameOf(m2[P[k]][e]) = t
         /\ \A g \in u : g # P[k] => m2[g] = m1[g]
         /\ \A d \in Cells : d # e => m2[P[k]][d] = m1[P[k]][d]
    BY <2>9, <2>8, Zenon DEF AddTableDone
  <2>11. Keeps(m1, m2, P, k, e, j)
    BY <2>10, <1>10, <1>18, <1>3, AddTableKeeps, ZenonT(60)
  <2>12. m2[fr] = image
    <3>1. fr # P[k] /\ P[k] # t
      BY <1>2, <1>11, <2>7
    <3>2. m2 = [[m1 EXCEPT ![t] = Zero] EXCEPT ![P[k]][e] = Entry(t, PWU)]
      BY <2>6 DEF AddTable, NewTable
    <3> QED
      BY <3>1, <3>2, <2>7, <1>8, <1>2, <2>4 DEF Mem
  <2>13. m3 = SetPage(m2, FrameOf(m2[P[k]][e]), j, fr)
    BY <2>6, <2>10
  <2>14. MapDone(m2, m3, u2, s1, P, k, e, j, fr)
    BY <2>13, <2>10, <2>7, <1>2, <1>3, MapFinish, ZenonT(60)
  <2>15. /\ m3 \in Mem /\ KernelTables(m3) /\ KernelShared(m3, P)
         /\ \E s \in [Ram -> Roles] : StaticRoles(s) /\ Owned(m3, u2 \cup {fr}, s, P) /\ \A g \in u2 : s[g] = s1[g]
         /\ Mapped(m3, P[k], e, j) /\ Target(m3, P[k], e, j) = fr /\ m3[fr] = m2[fr]
         /\ Keeps(m2, m3, P, k, e, j)
    BY <2>14, Zenon DEF MapDone
  <2>16. PICK s \in [Ram -> Roles] : StaticRoles(s) /\ Owned(m3, Taken(p2), s, P) /\ \A g \in u2 : s[g] = s1[g]
    BY <2>15, <2>7
  <2>17. \A g \in u : s[g] = r[g]
    BY <2>16, <2>10, <2>7
  <2>18. Keeps(m, m3, P, k, e, j)
    BY <2>15, <2>11, <1>14, KeepsTrans
  <2>19. m3[Target(m3, P[k], e, j)] = image
    BY <2>15, <2>12
  <2>20. u \subseteq Taken(p2)
    BY <2>7
  <2>21. Low(p2) /\ Alloc(p2)
    BY <2>3, <2>4
  <2> QED
    BY <2>5, <2>15, <2>16, <2>17, <2>18, <2>19, <2>20, <2>21, <1>7, <1>9, Zenon DEF PageAdded
<1> QED
  BY <1>17, <1>18
-----------------------------------------------------------------------------
(* The inductive invariant. *)

Building == pc \in {"segment", "page"}
Started  == pc \notin {"init_paging", "pmm_init"}

(* The page directories in use: those of the registered address spaces and *)
(* the one that elf_exec is filling.                                       *)
Count == IF Building THEN Len(spaces) + 1 ELSE Len(spaces)
Dirs  == [n \in 1..Count |-> IF n <= Len(spaces) THEN spaces[n].pd ELSE pd_phys]

SpaceRec == [pd : Ram, kstack : Ram, file : Files \cup {NoFile}]

TypeInv ==
  /\ pc \in {"init_paging", "pmm_init", "A", "B", "elf_exec", "segment", "page", "sched_enter", "fault"}
  /\ mem \in Mem /\ elf_buf \in [0..(MAX_ELF_SIZE - 1) -> Nat]
  /\ spaces \in Seq(SpaceRec)
  /\ pd_phys \in Ram /\ vaddr \in 0..(WORD - 1)
  /\ pc \in {"init_paging", "pmm_init", "A"} => Len(spaces) = 0
  /\ pc = "B" => Len(spaces) = 1

PmmInv ==
  /\ ~Started => pmm = NoMemory
  /\ Started => Alloc(pmm)
  /\ pc \in {"A", "B", "segment", "page"} => Low(pmm)
  /\ pc = "elf_exec" => Room(pmm)

(* The loader is in a segment of its file, at the start of a page.         *)
LoadInv ==
  /\ Building => file \in Files /\ seg \in Nat \ {0}
  /\ pc = "page" =>
       /\ seg <= Len(file.segs) /\ file.segs[seg].load
       /\ vaddr = N * (vaddr \div N)
       /\ file.segs[seg].vaddr \div N <= vaddr \div N

KernelInv == pc # "init_paging" => KernelTables(mem) /\ KernelShared(mem, Dirs)

StacksOwned(u, r, sp) ==
  \A n \in 1..Len(sp) : sp[n].kstack \in u /\ r[sp[n].kstack] = <<4, n, 0, 0>>

(* Every frame in use has one role. *)
RoleInv ==
  \E r \in [Ram -> Roles] :
    /\ StaticRoles(r)
    /\ Started => Owned(mem, Taken(pmm), r, Dirs) /\ StacksOwned(Taken(pmm), r, spaces)

IInv == TypeInv /\ PmmInv /\ LoadInv /\ KernelInv /\ RoleInv

-----------------------------------------------------------------------------
(* Fewer address spaces. *)
LEMMA FewerOwned ==
  ASSUME NEW m, NEW u, NEW r, NEW P, NEW P2, Owned(m, u, r, P),
         DOMAIN P2 \subseteq DOMAIN P, \A n \in DOMAIN P2 : P2[n] = P[n]
  PROVE  Owned(m, u, r, P2)
<1>1. DirsOwned(u, r, P2)
  BY DEF Owned, DirsOwned
<1>2. TabsOwned(m, u, r, P2)
  BY DEF Owned, TabsOwned
<1>3. PagesOwned(m, u, r, P2)
  BY DEF Owned, PagesOwned
<1> QED
  BY <1>1, <1>2, <1>3 DEF Owned

(* Fewer directories share the kernel's tables as more do. *)
LEMMA FewerShared ==
  ASSUME NEW m, NEW P, NEW P2, KernelShared(m, P),
         DOMAIN P2 \subseteq DOMAIN P, \A n \in DOMAIN P2 : P2[n] = P[n]
  PROVE  KernelShared(m, P2)
  BY DEF KernelShared

(* An empty function owns nothing. *)
LEMMA NoneOwned ==
  ASSUME NEW m, NEW u, NEW r, NEW P, DOMAIN P = {}
  PROVE  Owned(m, u, r, P) /\ KernelShared(m, P)
  BY DEF Owned, DirsOwned, TabsOwned, PagesOwned, KernelShared

(* The number of address spaces. *)
LEMMA CountIs ==
  ASSUME TypeInv
  PROVE  /\ Len(spaces) \in Nat /\ DOMAIN spaces = 1..Len(spaces) /\ Count \in Nat
         /\ Building => Count = Len(spaces) + 1 /\ Dirs[Count] = pd_phys
         /\ ~Building => Count = Len(spaces)
         /\ DOMAIN Dirs = 1..Count
         /\ \A n \in 1..Len(spaces) : n \in DOMAIN Dirs /\ Dirs[n] = spaces[n].pd /\ spaces[n] \in SpaceRec
<1> DEFINE L == Len(spaces)
<1>1. L \in Nat /\ DOMAIN spaces = 1..L
  BY DEF TypeInv
<1>2. \A n \in 1..L : spaces[n] \in SpaceRec
  BY DEF TypeInv
<1>3. Count = IF Building THEN L + 1 ELSE L
  BY DEF Count
<1>4. DOMAIN Dirs = 1..Count
  BY DEF Dirs
<1>5. Dirs = [n \in 1..Count |-> IF n <= L THEN spaces[n].pd ELSE pd_phys]
  BY DEF Dirs
<1> HIDE DEF L
<1>6. L \in Nat
  BY <1>1
<1>7. CASE Building
  <2>1. Count = L + 1
    BY <1>7, <1>3
  <2>2. Count \in Nat /\ Count \in 1..Count /\ ~(Count <= L) /\ 1..L \subseteq 1..Count
    BY <1>6, <2>1
  <2>3. Dirs[Count] = pd_phys /\ \A n \in 1..L : Dirs[n] = spaces[n].pd
    BY <2>2, <1>5, <1>6
  <2> QED
    BY <1>1, <1>2, <1>4, <1>7, <2>1, <2>2, <2>3 DEF L
<1>8. CASE ~Building
  <2>1. Count = L
    BY <1>8, <1>3
  <2>2. \A n \in 1..L : Dirs[n] = spaces[n].pd
    BY <2>1, <1>5, <1>6
  <2> QED
    BY <1>1, <1>2, <1>4, <1>6, <1>8, <2>1, <2>2 DEF L
<1> QED
  BY <1>7, <1>8

(* Steps that leave the address spaces and the bitmap alone. *)
LEMMA SameDirs ==
  ASSUME TypeInv, spaces' = spaces, pd_phys' = pd_phys, Building' => Building
  PROVE  /\ DOMAIN Dirs' \subseteq DOMAIN Dirs
         /\ \A n \in DOMAIN Dirs' : Dirs'[n] = Dirs[n]
<1>1. Len(spaces) \in Nat /\ Len(spaces') = Len(spaces)
  BY CountIs
<1>2. Count \in Nat /\ Count' \in Nat /\ Count' <= Count
  BY <1>1 DEF Count, Building
<1>3. DOMAIN Dirs = 1..Count /\ DOMAIN Dirs' = 1..(Count')
  BY DEF Dirs
<1>4. DOMAIN Dirs' \subseteq DOMAIN Dirs
  BY <1>2, <1>3
<1>5. \A n \in 1..Count : Dirs[n] = IF n <= Len(spaces) THEN spaces[n].pd ELSE pd_phys
  BY DEF Dirs
<1>6. \A n \in 1..(Count') : Dirs'[n] = IF n <= Len(spaces') THEN spaces'[n].pd ELSE pd_phys'
  BY DEF Dirs
<1>7. \A n \in DOMAIN Dirs' : Dirs'[n] = Dirs[n]
  BY <1>3, <1>4, <1>5, <1>6, <1>1
<1> QED
  BY <1>4, <1>7

(* A step that writes no memory and starts no address space keeps owners and roles. *)
LEMMA SameOwners ==
  ASSUME IInv, Started, Started', UNCHANGED <<mem, pmm, spaces, pd_phys>>, Building' => Building
  PROVE  KernelInv' /\ RoleInv'
<1>1. /\ DOMAIN Dirs' \subseteq DOMAIN Dirs
      /\ \A n \in DOMAIN Dirs' : Dirs'[n] = Dirs[n]
  BY SameDirs DEF IInv
<1>2. PICK r \in [Ram -> Roles] :
        StaticRoles(r) /\ Owned(mem, Taken(pmm), r, Dirs) /\ StacksOwned(Taken(pmm), r, spaces)
  BY DEF IInv, RoleInv
<1>3. Owned(mem, Taken(pmm), r, Dirs')
  BY <1>1, <1>2, FewerOwned
<1>4. Owned(mem', Taken(pmm'), r, Dirs') /\ StacksOwned(Taken(pmm'), r, spaces')
  BY <1>2, <1>3
<1>5. RoleInv'
  BY <1>2, <1>4 DEF RoleInv
<1>6. KernelTables(mem) /\ KernelShared(mem, Dirs)
  BY DEF IInv, KernelInv, Started
<1>7. KernelShared(mem, Dirs')
  BY <1>1, <1>6, FewerShared
<1>8. KernelTables(mem') /\ KernelShared(mem', Dirs')
  BY <1>6, <1>7
<1> QED
  BY <1>5, <1>8 DEF KernelInv
-----------------------------------------------------------------------------
(* The role of a fixed frame is a role. *)
LEMMA StaticRoleType == \A f : StaticRole(f) \in Roles
<1>1. TASK_CODE_VIRT \in Nat /\ TASK_STACK_VIRT \in Nat
  BY MemoryAssumption
<1>2. /\ TASK_CODE_VIRT \div N \in Nat /\ TASK_CODE_VIRT % N \in Nat
      /\ TASK_STACK_VIRT % N \in Nat
  BY <1>1, DivMod DEF Cells
<1>3. \A l, f : TaskRole(l, 1, f) \in Roles /\ TaskRole(l, 2, f) \in Roles
  BY <1>2 DEF TaskRole, Roles
<1>4. <<0, 0, 0, 0>> \in Roles
  BY DEF Roles
<1> QED
  BY <1>3, <1>4, Zenon DEF StaticRole

(* At power-on the invariant holds. *)
LEMMA InitInv == Init => IInv
<1> SUFFICES ASSUME Init PROVE IInv
  OBVIOUS
<1>1. pc = "init_paging" /\ spaces = <<>> /\ vaddr = 0 /\ pd_phys = 0 /\ pmm = NoMemory
  BY DEF Init
<1>2. Junk \in Nat /\ MAX_ELF_SIZE \in Nat /\ MAX_ELF_SIZE < WORD
  BY MemoryAssumption
<1>3. mem \in Mem
  BY <1>2 DEF Init, Mem, Ram, Pages
<1>4. elf_buf \in [0..(MAX_ELF_SIZE - 1) -> Nat]
  BY DEF Init
<1>5. 0 \in Ram /\ 0 \in 0..(WORD - 1)
  BY <1>2, Sizes DEF Ram
<1>6. spaces \in Seq(SpaceRec) /\ Len(spaces) = 0
  BY <1>1
<1>7. TypeInv
  BY <1>1, <1>3, <1>4, <1>5, <1>6 DEF TypeInv
<1>8. PmmInv /\ LoadInv /\ KernelInv
  BY <1>1 DEF PmmInv, LoadInv, KernelInv, Started, Building
<1>9. RoleInv
  <2> DEFINE r == [f \in Ram |-> StaticRole(f)]
  <2>1. r \in [Ram -> Roles]
    BY StaticRoleType
  <2>2. Static \subseteq Ram
    BY StaticIs DEF Ram
  <2>3. StaticRoles(r)
    BY <2>2 DEF StaticRoles
  <2> QED
    BY <2>1, <2>3, <1>1 DEF RoleInv, Started
<1> QED
  BY <1>7, <1>8, <1>9 DEF IInv

(* init_paging writes the kernel's tables. *)
LEMMA PagingInv ==
  ASSUME IInv, init_paging PROVE IInv'
<1> USE DEF IInv
<1>1. /\ pc = "init_paging" /\ pc' = "pmm_init"
      /\ UNCHANGED <<pmm, elf_buf, spaces, file, seg, vaddr, pd_phys>>
  BY DEF init_paging, load
<1>2. mem \in Mem /\ DOMAIN mem = Ram
  BY DEF TypeInv, Mem
<1>3. /\ KERNEL_PD \in Ram /\ KPTs \subseteq Ram /\ KERNEL_PD \notin KPTs
      /\ KERNEL_PT \in Nat
  <2>1. KERNEL_PD \in Static /\ KPTs \subseteq Static
    BY StaticIs DEF KernelFrames
  <2>2. Static \subseteq Ram
    BY StaticIs DEF Ram
  <2>3. KERNEL_PT \in Nat
    BY MemoryAssumption
  <2> QED
    BY <2>1, <2>2, <2>3, MemoryAssumption
<1>4. KPTs = KERNEL_PT..(KERNEL_PT + KTables - 1)
  BY DEF KPTs
<1>5. mem' = [f \in Ram |->
       IF f = KERNEL_PD THEN [i \in Cells |-> IF i < KTables THEN Entry(KERNEL_PT + i, PWU) ELSE 0]
       ELSE IF f \in KPTs THEN [i \in Cells |-> Entry((f - KERNEL_PT) * N + i, PWU)]
       ELSE mem[f]]
  BY <1>2 DEF init_paging
<1>6. KernelTables(mem')
  <2>1. mem'[KERNEL_PD] = [i \in Cells |-> IF i < KTables THEN Entry(KERNEL_PT + i, PWU) ELSE 0]
    BY <1>3, <1>5
  <2>2. \A f \in KPTs : mem'[f] = [i \in Cells |-> Entry((f - KERNEL_PT) * N + i, PWU)]
    BY <1>3, <1>5
  <2> QED
    BY <2>1, <2>2 DEF KernelTables
<1>7. mem' \in Mem
  <2>1. [i \in Cells |-> IF i < KTables THEN Entry(KERNEL_PT + i, PWU) ELSE 0] \in Pages
    <3>1. \A i \in Cells : KERNEL_PT + i \in Nat
      BY <1>3, Sizes DEF Cells
    <3>2. \A i \in Cells : Entry(KERNEL_PT + i, PWU) \in Nat
      BY <3>1, EntryIs
    <3> QED
      BY <3>2 DEF Pages
  <2>2. ASSUME NEW f \in KPTs PROVE [i \in Cells |-> Entry((f - KERNEL_PT) * N + i, PWU)] \in Pages
    <3>1. f - KERNEL_PT \in Nat
      BY <1>3, <1>4, Sizes
    <3>2. (f - KERNEL_PT) * N \in Nat
      BY <3>1, Sizes
    <3>3. \A i \in Cells : (f - KERNEL_PT) * N + i \in Nat
      BY <3>2, Sizes DEF Cells
    <3>4. \A i \in Cells : Entry((f - KERNEL_PT) * N + i, PWU) \in Nat
      BY <3>3, EntryIs
    <3> QED
      BY <3>4 DEF Pages
  <2>3. \A f \in Ram : mem[f] \in Pages
    BY <1>2 DEF Mem
  <2>4. \A f \in Ram : mem'[f] \in Pages
    BY <2>1, <2>2, <2>3, <1>5
  <2> QED
    BY <2>4, <1>5 DEF Mem
<1>8. TypeInv'
  BY <1>1, <1>7 DEF TypeInv
<1>9. PmmInv' /\ LoadInv'
  BY <1>1 DEF PmmInv, LoadInv, Started, Building
<1>10. DOMAIN Dirs' = {}
  <2>1. Len(spaces') = 0
    BY <1>1 DEF TypeInv
  <2>2. Count' = 0
    BY <1>1, <2>1 DEF Count, Building
  <2> QED
    BY <2>2 DEF Dirs
<1>11. KernelInv'
  BY <1>6, <1>10, NoneOwned DEF KernelInv
<1>12. RoleInv'
  BY <1>1 DEF RoleInv, Started
<1> QED
  BY <1>8, <1>9, <1>11, <1>12

(* pmm_init leaves the reserved area taken and the rest free. *)
LEMMA PmmInitIs == Alloc(pmm_init(MemSize)) /\ Low(pmm_init(MemSize))
<1> DEFINE free == PMM_RESERVED..(Total - 1)
           p == pmm_init(MemSize)
<1>1. p = [total |-> Total, used |-> AllFrames \ free, free |-> Cardinality(free)]
  BY DEF pmm_init, Total
<1>2. IsFiniteSet(free)
  BY Sizes, FS_Interval
<1>3. Cardinality(free) \in Int
  BY <1>2, FS_CardinalityType
<1> HIDE DEF p
<1>4. p \in [total : Nat, used : SUBSET AllFrames, free : Int]
  BY <1>1, <1>3, Sizes
<1>5. 0..(PMM_RESERVED - 1) \subseteq p.used
  BY <1>1, Sizes DEF AllFrames
<1>6. Alloc(p)
  BY <1>1, <1>4, <1>5 DEF Alloc
<1>7. Low(p)
  BY <1>1, Sizes DEF Low
<1> QED
  BY <1>6, <1>7 DEF p

(* pmm_init starts the allocator with the reserved frames in use. *)
LEMMA InitPmmInv ==
  ASSUME IInv, InitPmm PROVE IInv'
<1> USE DEF IInv
<1>1. /\ pc = "pmm_init" /\ pc' = "A" /\ pmm' = pmm_init(MemSize)
      /\ UNCHANGED <<mem, elf_buf, spaces, file, seg, vaddr, pd_phys>>
  BY DEF InitPmm, load
<1>2. TypeInv'
  BY <1>1 DEF TypeInv
<1>3. PmmInv' /\ LoadInv'
  BY <1>1, PmmInitIs DEF PmmInv, LoadInv, Started, Building
<1>4. DOMAIN Dirs' = {}
  <2>1. Len(spaces') = 0
    BY <1>1 DEF TypeInv
  <2>2. Count' = 0
    BY <1>1, <2>1 DEF Count, Building
  <2> QED
    BY <2>2 DEF Dirs
<1>5. KernelTables(mem')
  BY <1>1 DEF KernelInv
<1>6. KernelInv'
  BY <1>4, <1>5, NoneOwned DEF KernelInv
<1>7. PICK r \in [Ram -> Roles] : StaticRoles(r)
  BY DEF RoleInv
<1>8. StacksOwned(Taken(pmm'), r, spaces')
  BY <1>1 DEF StacksOwned, TypeInv
<1>9. RoleInv'
  BY <1>4, <1>7, <1>8, NoneOwned DEF RoleInv
<1> QED
  BY <1>2, <1>3, <1>6, <1>9

(* elf_exec without a program registers nothing. *)
LEMMA ReadFileType ==
  ASSUME TypeInv, NEW f \in Files
  PROVE  ReadFile(f) \in [0..(MAX_ELF_SIZE - 1) -> Nat]
<1>1. f.tag \in Nat
  BY FilesAssumption
<1>2. MAX_ELF_SIZE \in Nat
  BY MemoryAssumption
<1>3. \A o \in 0..(MAX_ELF_SIZE - 1) : f.tag + o \in Nat /\ elf_buf[o] \in Nat
  BY <1>1, <1>2 DEF TypeInv
<1> QED
  BY <1>3 DEF ReadFile, TypeInv

(* elf_exec returns with an error: only elf_buf has changed. *)
LEMMA RejectedInv ==
  ASSUME IInv, ElfRejected PROVE IInv'
<1> USE DEF IInv
<1>1. /\ pc = "elf_exec" /\ pc' = "sched_enter"
      /\ UNCHANGED <<mem, pmm, spaces, file, seg, vaddr, pd_phys>>
  BY DEF ElfRejected, load
<1>2. elf_buf' \in [0..(MAX_ELF_SIZE - 1) -> Nat]
  BY ReadFileType DEF ElfRejected, TypeInv
<1>3. TypeInv'
  BY <1>1, <1>2 DEF TypeInv
<1>4. PmmInv' /\ LoadInv'
  BY <1>1 DEF PmmInv, LoadInv, Started, Building
<1>5. Started /\ Started' /\ ~Building'
  BY <1>1 DEF Started, Building
<1>6. KernelInv' /\ RoleInv'
  BY <1>1, <1>5, SameOwners
<1> QED
  BY <1>3, <1>4, <1>6

(* A page fault in the loader stops the machine and leaves everything as   *)
(* it is.                                                                  *)
LEMMA FaultInv ==
  ASSUME IInv, Started, PageFault, elf_buf' \in [0..(MAX_ELF_SIZE - 1) -> Nat] PROVE IInv'
<1> USE DEF IInv
<1>1. pc' = "fault" /\ UNCHANGED <<mem, pmm, spaces, file, seg, vaddr, pd_phys>>
  BY DEF PageFault, load
<1>2. TypeInv'
  BY <1>1 DEF TypeInv
<1>3. PmmInv' /\ LoadInv'
  BY <1>1 DEF PmmInv, LoadInv, Started, Building
<1>4. Started' /\ ~Building'
  BY <1>1 DEF Started, Building
<1>5. KernelInv' /\ RoleInv'
  BY <1>1, <1>4, SameOwners
<1> QED
  BY <1>2, <1>3, <1>5
-----------------------------------------------------------------------------
(* The roles of the frames of a built-in task. *)
TaskRoles(l, k) ==
  /\ FramesOf(l) \subseteq Static
  /\ StaticRole(l.pd) = <<1, k, 0, 0>>
  /\ StaticRole(l.pt) = <<2, k, TASK_CODE_VIRT \div N, 0>>
  /\ StaticRole(l.code) = <<3, k, TASK_CODE_VIRT \div N, TASK_CODE_VIRT % N>>
  /\ StaticRole(l.stack) = <<3, k, TASK_CODE_VIRT \div N, TASK_STACK_VIRT % N>>
  /\ StaticRole(l.kstack) = <<4, k, 0, 0>>

(* The frames of paging.h and task.h do not overlap. *)
LEMMA LayoutRoles == TaskRoles(Layout["A"], 1) /\ TaskRoles(Layout["B"], 2)
<1> DEFINE a == Layout["A"]
           b == Layout["B"]
           T == TaskFrames
<1>1. /\ T[1] = a.pd /\ T[2] = a.pt /\ T[3] = a.code /\ T[4] = a.stack /\ T[5] = a.kstack
      /\ T[6] = b.pd /\ T[7] = b.pt /\ T[8] = b.code /\ T[9] = b.stack /\ T[10] = b.kstack
  BY DEF TaskFrames
<1> HIDE DEF T
<1>2. \A i, j \in 1..10 : i # j => T[i] # T[j]
  BY MemoryAssumption DEF T
<1>3. \A i \in 1..10 : T[i] \notin KernelFrames /\ T[i] \in Static
  BY MemoryAssumption, StaticIs DEF T
<1> HIDE DEF a, b
<1>4. FramesOf(a) = {T[i] : i \in 1..5} /\ FramesOf(b) = {T[i] : i \in 6..10}
  <2>1. \A i \in 1..5 : i = 1 \/ i = 2 \/ i = 3 \/ i = 4 \/ i = 5
    OBVIOUS
  <2>2. \A i \in 6..10 : i = 6 \/ i = 7 \/ i = 8 \/ i = 9 \/ i = 10
    OBVIOUS
  <2> QED
    BY <1>1, <2>1, <2>2 DEF FramesOf
<1>5. FramesOf(a) \subseteq Static /\ FramesOf(b) \subseteq Static
  BY <1>3, <1>4
<1>6. FramesOf(a) \cap KernelFrames = {} /\ FramesOf(b) \cap KernelFrames = {}
  BY <1>3, <1>4
<1>7. FramesOf(a) \cap FramesOf(b) = {}
  <2>1. \A i \in 1..5, j \in 6..10 : T[i] # T[j]
    BY <1>2
  <2> QED
    BY <2>1, <1>4
<1>8. \A f \in FramesOf(a) : StaticRole(f) = TaskRole(a, 1, f)
  BY <1>6 DEF StaticRole, a
<1>9. \A f \in FramesOf(b) : StaticRole(f) = TaskRole(b, 2, f)
  BY <1>6, <1>7 DEF StaticRole, a, b
<1>10. /\ a.pt # a.pd /\ a.code # a.pd /\ a.code # a.pt /\ a.stack # a.pd /\ a.stack # a.pt /\ a.stack # a.code
       /\ a.kstack # a.pd /\ a.kstack # a.pt /\ a.kstack # a.code /\ a.kstack # a.stack
  BY <1>1, <1>2
<1>11. /\ b.pt # b.pd /\ b.code # b.pd /\ b.code # b.pt /\ b.stack # b.pd /\ b.stack # b.pt /\ b.stack # b.code
       /\ b.kstack # b.pd /\ b.kstack # b.pt /\ b.kstack # b.code /\ b.kstack # b.stack
  BY <1>1, <1>2
<1>12. TaskRoles(a, 1)
  BY <1>5, <1>8, <1>10 DEF TaskRoles, TaskRole, FramesOf
<1>13. TaskRoles(b, 2)
  BY <1>5, <1>9, <1>11 DEF TaskRoles, TaskRole, FramesOf
<1> QED
  BY <1>12, <1>13 DEF a, b

(* One more address space, the k-th. *)
LEMMA OneMore ==
  ASSUME TypeInv, NEW s \in SpaceRec, spaces' = Append(spaces, s)
  PROVE  /\ spaces' \in Seq(SpaceRec) /\ Len(spaces') = Len(spaces) + 1
         /\ spaces'[Len(spaces) + 1] = s
         /\ \A n \in 1..Len(spaces) : spaces'[n] = spaces[n]
  BY DEF TypeInv

(* The memory that launch_tasks leaves for the task with layout l. *)
LaunchMem(m, l, t) ==
  [m EXCEPT
     ![l.code] = [i \in Cells |-> IF i < N \div 4 THEN UserCode(t) ELSE m[l.code][i]],
     ![l.pt]   = [Zero EXCEPT ![TASK_CODE_VIRT % N]  = Entry(l.code, PWU),
                              ![TASK_STACK_VIRT % N] = Entry(l.stack, PWU)],
     ![l.pd]   = create_task_space(l, m[KERNEL_PD])]

(* What that memory holds. *)
LaunchDone(m, m2, l) ==
  /\ m2 \in Mem
  /\ \A g \in Ram : g \notin {l.pd, l.pt, l.code} => m2[g] = m[g]
  /\ \A i \in Cells : i < KTables => m2[l.pd][i] = m[KERNEL_PD][i]
  /\ \A d \in UserDirs : Present(m2[l.pd][d]) =>
       d = TASK_CODE_VIRT \div N /\ FrameOf(m2[l.pd][d]) = l.pt
  /\ \A i \in Cells : Present(m2[l.pt][i]) =>
       \/ i = TASK_CODE_VIRT % N /\ FrameOf(m2[l.pt][i]) = l.code
       \/ i = TASK_STACK_VIRT % N /\ FrameOf(m2[l.pt][i]) = l.stack

(* The page directory of create_task_space is a page. *)
LEMMA SpaceIs ==
  ASSUME NEW l, l.pt \in Ram, NEW kpd \in Pages
  PROVE  /\ create_task_space(l, kpd) \in Pages
         /\ \A i \in Cells : i < KTables => create_task_space(l, kpd)[i] = kpd[i]
         /\ \A d \in UserDirs : Present(create_task_space(l, kpd)[d]) =>
              d = TASK_CODE_VIRT \div N /\ FrameOf(create_task_space(l, kpd)[d]) = l.pt
<1> DEFINE c == create_task_space(l, kpd)
           kv == KERNEL_VIRTUAL..(KERNEL_VIRTUAL + KTables - 1)
<1>1. c = [i \in Cells |->
             IF i < KTables THEN kpd[i]
             ELSE IF i = TASK_CODE_VIRT \div N THEN Entry(l.pt, PWU)
             ELSE IF i \in kv THEN Entry(KERNEL_PT + i - KERNEL_VIRTUAL, PRESENT + WRITE)
             ELSE 0]
  BY DEF create_task_space
<1>2. l.pt \in Nat /\ KERNEL_PT \in Nat /\ KERNEL_VIRTUAL \in Nat
  BY MemoryAssumption DEF Ram
<1>3. Entry(l.pt, PWU) \in Nat /\ FrameOf(Entry(l.pt, PWU)) = l.pt /\ ~Present(0)
  BY <1>2, EntryIs
<1>4. \A i \in kv : Entry(KERNEL_PT + i - KERNEL_VIRTUAL, PRESENT + WRITE) \in Nat
  <2>1. \A i \in kv : KERNEL_PT + i - KERNEL_VIRTUAL \in Nat
    BY <1>2, Sizes
  <2> QED
    BY <2>1, EntryIs
<1>5. \A d \in UserDirs : d \in Cells /\ ~(d < KTables) /\ d \notin kv
  BY Sizes DEF UserDirs, Cells
<1>6. \A i \in Cells : kpd[i] \in Nat
  BY DEF Pages
<1> HIDE DEF c, kv
<1>7. c \in Pages
  BY <1>1, <1>3, <1>4, <1>6 DEF Pages
<1>8. \A i \in Cells : i < KTables => c[i] = kpd[i]
  BY <1>1
<1>9. \A d \in UserDirs : Present(c[d]) => d = TASK_CODE_VIRT \div N /\ FrameOf(c[d]) = l.pt
  <2> SUFFICES ASSUME NEW d \in UserDirs, Present(c[d])
               PROVE  d = TASK_CODE_VIRT \div N /\ FrameOf(c[d]) = l.pt
    OBVIOUS
  <2>1. c[d] = IF d = TASK_CODE_VIRT \div N THEN Entry(l.pt, PWU) ELSE 0
    BY <1>1, <1>5
  <2> QED
    BY <2>1, <1>3
<1> QED
  BY <1>7, <1>8, <1>9 DEF c

TaskTable(tab, c, s) ==
  /\ tab \in Pages
  /\ \A i \in Cells : Present(tab[i]) =>
       \/ i = TASK_CODE_VIRT % N /\ FrameOf(tab[i]) = c
       \/ i = TASK_STACK_VIRT % N /\ FrameOf(tab[i]) = s

(* A page table with code and stack. *)
LEMMA TaskTableIs ==
  ASSUME NEW c \in Ram, NEW s \in Ram, NEW tab,
         tab = [Zero EXCEPT ![TASK_CODE_VIRT % N]  = Entry(c, PWU), ![TASK_STACK_VIRT % N] = Entry(s, PWU)]
  PROVE  TaskTable(tab, c, s)
<1>1. TASK_CODE_VIRT \in Nat /\ TASK_STACK_VIRT \in Nat
  BY MemoryAssumption
<1> DEFINE x == TASK_CODE_VIRT % N
           y == TASK_STACK_VIRT % N
<1>2. x \in Cells /\ y \in Cells /\ x # y
  <2>1. /\ TASK_CODE_VIRT = N * (TASK_CODE_VIRT \div N) + x /\ x \in Cells
        /\ TASK_STACK_VIRT = N * (TASK_STACK_VIRT \div N) + y /\ y \in Cells
    BY <1>1, DivMod
  <2>2. TASK_CODE_VIRT \div N = TASK_STACK_VIRT \div N /\ TASK_CODE_VIRT # TASK_STACK_VIRT
    BY MemoryAssumption
  <2> QED
    BY <2>1, <2>2
<1>3. c \in Nat /\ s \in Nat
  BY DEF Ram
<1>4. Entry(c, PWU) \in Nat /\ FrameOf(Entry(c, PWU)) = c /\ Entry(s, PWU) \in Nat /\ FrameOf(Entry(s, PWU)) = s /\ ~Present(0)
  BY <1>3, EntryIs
<1> HIDE DEF x, y
<1>5. tab = [Zero EXCEPT ![x] = Entry(c, PWU), ![y] = Entry(s, PWU)]
  BY DEF x, y
<1>6. Zero = [i \in Cells |-> 0]
  BY DEF Zero
<1>7. tab = [i \in Cells |-> IF i = y THEN Entry(s, PWU) ELSE IF i = x THEN Entry(c, PWU) ELSE 0]
  BY <1>2, <1>5, <1>6
<1>8. tab \in Pages
  <2> DEFINE v == Entry(c, PWU)
             w == Entry(s, PWU)
  <2>1. v \in Nat /\ w \in Nat
    BY <1>4
  <2> HIDE DEF v, w
  <2>2. [i \in Cells |-> IF i = y THEN w ELSE IF i = x THEN v ELSE 0] \in Pages
    BY <2>1 DEF Pages
  <2> QED
    BY <2>2, <1>7 DEF v, w
<1>9. \A i \in Cells : Present(tab[i]) => (i = x /\ FrameOf(tab[i]) = c) \/ (i = y /\ FrameOf(tab[i]) = s)
  BY <1>4, <1>7
<1> QED
  BY <1>8, <1>9 DEF x, y, TaskTable

(* The memory that launch_tasks leaves is as it should be. *)
LEMMA LaunchIs ==
  ASSUME NEW m \in Mem, NEW l, NEW t, FramesOf(l) \subseteq Ram,
         l.pd # l.pt, l.pd # l.code, l.pt # l.code
  PROVE  LaunchDone(m, LaunchMem(m, l, t), l)
<1> DEFINE img == [i \in Cells |-> IF i < N \div 4 THEN UserCode(t) ELSE m[l.code][i]]
           tab == [Zero EXCEPT ![TASK_CODE_VIRT % N]  = Entry(l.code, PWU), ![TASK_STACK_VIRT % N] = Entry(l.stack, PWU)]
           dir == create_task_space(l, m[KERNEL_PD])
           m2  == LaunchMem(m, l, t)
<1>1. l.pd \in Ram /\ l.pt \in Ram /\ l.code \in Ram /\ l.stack \in Ram
  BY DEF FramesOf
<1>2. m2 = [m EXCEPT ![l.code] = img, ![l.pt] = tab, ![l.pd] = dir]
  BY DEF LaunchMem
<1>3. KERNEL_PD \in Ram
  BY StaticIs DEF KernelFrames, Ram
<1>4. img \in Pages
  <2>1. UserCode(t) \in Nat
    BY DEF UserCode
  <2>2. m[l.code] \in Pages
    BY <1>1 DEF Mem
  <2> QED
    BY <2>1, <2>2 DEF Pages
<1>5. m[KERNEL_PD] \in Pages
  BY <1>3 DEF Mem
<1>6. /\ dir \in Pages
      /\ \A i \in Cells : i < KTables => dir[i] = m[KERNEL_PD][i]
      /\ \A d \in UserDirs : Present(dir[d]) => d = TASK_CODE_VIRT \div N /\ FrameOf(dir[d]) = l.pt
  BY <1>1, <1>5, SpaceIs
<1>7. /\ tab \in Pages
      /\ \A i \in Cells : Present(tab[i]) =>
           \/ i = TASK_CODE_VIRT % N /\ FrameOf(tab[i]) = l.code
           \/ i = TASK_STACK_VIRT % N /\ FrameOf(tab[i]) = l.stack
  <2>1. TaskTable(tab, l.code, l.stack)
    BY <1>1, TaskTableIs, Zenon
  <2> QED
    BY <2>1, Zenon DEF TaskTable
<1> HIDE DEF img, tab, dir, m2
<1>8. m2 \in Mem /\ m2[l.pd] = dir /\ m2[l.pt] = tab /\ \A g \in Ram : g \notin {l.pd, l.pt, l.code} => m2[g] = m[g]
  BY <1>1, <1>2, <1>4, <1>6, <1>7 DEF Mem
<1> QED
  BY <1>6, <1>7, <1>8 DEF LaunchDone, m2
-----------------------------------------------------------------------------
(* launch_tasks, one task at a time: the k-th address space. *)
LEMMA LaunchOwned ==
  ASSUME IInv, NEW t, NEW l, NEW k \in 1..2, TaskRoles(l, k), Len(spaces) = k - 1,
         pc \in {"A", "B"}, pc' \in {"B", "elf_exec"},
         mem' = LaunchMem(mem, l, t), pmm' = pmm,
         spaces' = Append(spaces, [pd |-> l.pd, kstack |-> l.kstack, file |-> NoFile])
  PROVE  /\ mem' \in Mem /\ spaces' \in Seq(SpaceRec) /\ Len(spaces') = k
         /\ KernelInv' /\ RoleInv'
<1> USE DEF IInv
<1> DEFINE u == Taken(pmm)
           P == Dirs
           Q == Dirs'
           m == mem
           m2 == mem'
           e == TASK_CODE_VIRT \div N
<1>1. Started /\ ~Building /\ Started' /\ ~Building'
  BY DEF Started, Building
<1>2. PICK r \in [Ram -> Roles] : StaticRoles(r) /\ Owned(m, u, r, P) /\ StacksOwned(u, r, spaces)
  BY <1>1 DEF RoleInv
<1>3. Alloc(pmm) /\ Low(pmm)
  BY <1>1 DEF PmmInv
<1>4. FreeFrames(pmm) # {}
  BY <1>3, LowAlloc
<1>5. Static \subseteq u /\ u \subseteq Ram
  BY <1>3, <1>4, TakenIs
<1>6. FramesOf(l) \subseteq Static
  BY DEF TaskRoles
<1>7. /\ r[l.pd] = <<1, k, 0, 0>> /\ r[l.pt] = <<2, k, e, 0>>
      /\ r[l.code] = <<3, k, e, TASK_CODE_VIRT % N>> /\ r[l.stack] = <<3, k, e, TASK_STACK_VIRT % N>>
      /\ r[l.kstack] = <<4, k, 0, 0>>
  BY <1>2, <1>6 DEF TaskRoles, StaticRoles, FramesOf
<1>8. l.pd \in u /\ l.pt \in u /\ l.code \in u /\ l.stack \in u /\ l.kstack \in u
  BY <1>5, <1>6 DEF FramesOf
<1>9. l.pd # l.pt /\ l.pd # l.code /\ l.pt # l.code
  BY <1>7
<1>10. LaunchDone(m, m2, l)
  <2>1. m \in Mem /\ FramesOf(l) \subseteq Ram
    BY <1>5, <1>6 DEF TypeInv
  <2>2. LaunchDone(m, LaunchMem(m, l, t), l)
    BY <2>1, <1>9, LaunchIs
  <2> QED
    BY <2>2
<1>11. [pd |-> l.pd, kstack |-> l.kstack, file |-> NoFile] \in SpaceRec
  BY <1>5, <1>8 DEF SpaceRec
<1>12. /\ spaces' \in Seq(SpaceRec) /\ Len(spaces') = Len(spaces) + 1
       /\ spaces'[Len(spaces) + 1] = [pd |-> l.pd, kstack |-> l.kstack, file |-> NoFile]
       /\ \A n \in 1..Len(spaces) : spaces'[n] = spaces[n]
  BY <1>11, OneMore
<1>13. Len(spaces') = k /\ spaces'[k].pd = l.pd /\ spaces'[k].kstack = l.kstack
  BY <1>12
<1>14. DOMAIN P = 1..(k - 1) /\ \A n \in 1..(k - 1) : P[n] = spaces[n].pd
  BY <1>1, CountIs
<1>15. DOMAIN Q = 1..k /\ \A n \in 1..k : Q[n] = spaces'[n].pd
  <2>1. Count' = k
    BY <1>1, <1>13 DEF Count
  <2> QED
    BY <2>1, <1>13 DEF Dirs
<1>16. k \notin DOMAIN P /\ DOMAIN Q = DOMAIN P \cup {k} /\ Q[k] = l.pd /\ \A n \in DOMAIN P : Q[n] = P[n]
  <2>1. \A n \in 1..(k - 1) : n \in 1..k /\ spaces'[n] = spaces[n]
    BY <1>12
  <2> QED
    BY <2>1, <1>13, <1>14, <1>15
<1> HIDE DEF u, P, Q, m, m2, e
<1>17. /\ \A g \in Ram : g \notin {l.pd, l.pt, l.code} => m2[g] = m[g]
       /\ \A i \in Cells : i < KTables => m2[l.pd][i] = m[KERNEL_PD][i]
       /\ \A d \in UserDirs : Present(m2[l.pd][d]) => d = e /\ FrameOf(m2[l.pd][d]) = l.pt
       /\ \A i \in Cells : Present(m2[l.pt][i]) =>
            \/ i = TASK_CODE_VIRT % N /\ FrameOf(m2[l.pt][i]) = l.code
            \/ i = TASK_STACK_VIRT % N /\ FrameOf(m2[l.pt][i]) = l.stack
       /\ m2 \in Mem
  BY <1>10, Zenon DEF LaunchDone, e
<1>18. \A n \in DOMAIN P : P[n] \in u /\ r[P[n]] = <<1, n, 0, 0>>
  BY <1>2 DEF Owned, DirsOwned
<1>19. \A n \in DOMAIN P : m2[P[n]] = m[P[n]]
  <2> SUFFICES ASSUME NEW n \in DOMAIN P PROVE m2[P[n]] = m[P[n]]
    OBVIOUS
  <2>1. n # k
    BY <1>16
  <2>2. P[n] # l.pd /\ P[n] # l.pt /\ P[n] # l.code
    BY <2>1, <1>7, <1>18
  <2> QED
    BY <2>2, <1>17, <1>18, <1>5
<1>20. \A g \in u, n \in DOMAIN P, d \in UserDirs : r[g] = <<2, n, d, 0>> => m2[g] = m[g]
  <2> SUFFICES ASSUME NEW g \in u, NEW n \in DOMAIN P, NEW d \in UserDirs, r[g] = <<2, n, d, 0>>
               PROVE  m2[g] = m[g]
    OBVIOUS
  <2>1. n # k
    BY <1>16
  <2>2. g # l.pd /\ g # l.pt /\ g # l.code
    BY <2>1, <1>7
  <2> QED
    BY <2>2, <1>17, <1>5
<1>21. \A d \in UserDirs : Present(m2[l.pd][d]) =>
            /\ d = e /\ FrameOf(m2[l.pd][d]) = l.pt /\ l.pt \in u /\ r[l.pt] = <<2, k, e, 0>>
            /\ \A i \in Cells : Present(m2[l.pt][i]) =>
                 FrameOf(m2[l.pt][i]) \in u /\ r[FrameOf(m2[l.pt][i])] = <<3, k, e, i>>
  <2>1. \A i \in Cells : Present(m2[l.pt][i]) =>
          FrameOf(m2[l.pt][i]) \in u /\ r[FrameOf(m2[l.pt][i])] = <<3, k, e, i>>
    BY <1>7, <1>8, <1>17
  <2> QED
    BY <2>1, <1>7, <1>8, <1>17
<1>22. Owned(m2, u, r, Q)
  <2>1. DirAdded(m, m2, u, r, P, Q, k, l.pd, l.pt, e)
    BY <1>7, <1>8, <1>16, <1>19, <1>20, <1>21, Zenon DEF DirAdded
  <2> QED
    BY <2>1, <1>2, DirOwned, Zenon
<1>23. \A f \in KernelFrames : m2[f] = m[f]
  <2> SUFFICES ASSUME NEW f \in KernelFrames PROVE m2[f] = m[f]
    OBVIOUS
  <2>1. f \in Static /\ r[f] = <<0, 0, 0, 0>>
    BY <1>2, StaticIs DEF StaticRoles, StaticRole
  <2>2. f # l.pd /\ f # l.pt /\ f # l.code
    BY <2>1, <1>7
  <2> QED
    BY <2>1, <2>2, <1>5, <1>17
<1>24. KernelTables(m) /\ KernelShared(m, P)
  BY DEF KernelInv, m, P
<1>25. KernelTables(m2) /\ KernelShared(m2, P)
  BY <1>19, <1>23, <1>24, KernelUntouched
<1>26. m2[KERNEL_PD] = m[KERNEL_PD]
  BY <1>23 DEF KernelFrames
<1>27. KernelShared(m2, Q)
  BY <1>16, <1>17, <1>25, <1>26 DEF KernelShared
<1>28. KernelInv'
  BY <1>25, <1>27 DEF KernelInv, m2, Q
<1>29. StacksOwned(u, r, spaces')
  <2> SUFFICES ASSUME NEW n \in 1..k
               PROVE  spaces'[n].kstack \in u /\ r[spaces'[n].kstack] = <<4, n, 0, 0>>
    BY <1>13 DEF StacksOwned
  <2>1. CASE n = k
    BY <2>1, <1>13, <1>7, <1>8
  <2>2. CASE n # k
    <3>1. n \in 1..Len(spaces)
      BY <2>2
    <3> QED
      BY <3>1, <1>12, <1>2 DEF StacksOwned
  <2> QED
    BY <2>1, <2>2
<1>30. RoleInv'
  <2>1. u = Taken(pmm')
    BY DEF u
  <2>2. Owned(mem', Taken(pmm'), r, Dirs') /\ StacksOwned(Taken(pmm'), r, spaces')
    BY <2>1, <1>22, <1>29 DEF m2, Q
  <2> QED
    BY <2>2, <1>2 DEF RoleInv
<1> QED
  BY <1>12, <1>13, <1>17, <1>28, <1>30 DEF m2

(* launch_tasks keeps the invariant. *)
LEMMA LaunchInv ==
  ASSUME IInv, NEW t \in {"A", "B"}, launch_task(t) PROVE IInv'
<1> USE DEF IInv
<1> DEFINE l == Layout[t]
           k == IF t = "A" THEN 1 ELSE 2
<1>1. /\ pc = t /\ pc' = IF t = "A" THEN "B" ELSE "elf_exec"
      /\ UNCHANGED <<pmm, elf_buf, file, seg, vaddr, pd_phys>>
      /\ mem' = LaunchMem(mem, l, t)
      /\ spaces' = Append(spaces, [pd |-> l.pd, kstack |-> l.kstack, file |-> NoFile])
  BY DEF launch_task, load, LaunchMem
<1>2. k \in 1..2 /\ TaskRoles(l, k)
  BY LayoutRoles
<1>3. Len(spaces) = k - 1
  BY <1>1 DEF TypeInv
<1>4. pc \in {"A", "B"} /\ pc' \in {"B", "elf_exec"}
  BY <1>1
<1>5. t = "A" => k = 1
  OBVIOUS
<1> HIDE DEF l, k
<1>6. /\ mem' \in Mem /\ spaces' \in Seq(SpaceRec) /\ Len(spaces') = k
      /\ KernelInv' /\ RoleInv'
  BY <1>1, <1>2, <1>3, <1>4, LaunchOwned
<1>7. TypeInv'
  BY <1>1, <1>4, <1>5, <1>6 DEF TypeInv
<1>8. PmmInv'
  BY <1>1, <1>4 DEF PmmInv, Started, Room
<1>9. LoadInv'
  BY <1>1, <1>4 DEF LoadInv, Building
<1> QED
  BY <1>6, <1>7, <1>8, <1>9
-----------------------------------------------------------------------------
(* proc_alloc_pd: a directory with the kernel's entries and no others. *)
LEMMA StartInv ==
  ASSUME IInv, NEW f \in Files, ElfStart(f) PROVE IInv'
<1> USE DEF IInv
<1> DEFINE pd == Frame(pmm)
<1>1. pc = "elf_exec" /\ elf_buf' = ReadFile(f)
  BY DEF ElfStart
<1>2. elf_buf' \in [0..(MAX_ELF_SIZE - 1) -> Nat]
  BY <1>1, ReadFileType
<1>3. Started /\ ~Building
  BY <1>1 DEF Started, Building
<1>4. CASE ~Writable({pd})
  <2>1. PageFault
    BY <1>4 DEF ElfStart
  <2> QED
    BY <2>1, <1>2, <1>3, FaultInv
<1>5. CASE Writable({pd})
  <2>1. /\ pmm' = pmm_alloc_page(pmm) /\ mem' = [mem EXCEPT ![pd] = mem[KERNEL_PD]]
        /\ pd_phys' = pd /\ file' = f /\ seg' = 1 /\ vaddr' = 0
        /\ pc' = "segment" /\ spaces' = spaces
    BY <1>5 DEF ElfStart
  <2>2. Alloc(pmm) /\ Low(pmm)
    BY <1>1, <1>3, <1>5, RoomAlloc DEF PmmInv
  <2>3. FreeFrames(pmm) # {} /\ Low(pmm')
    BY <2>1, <2>2, <1>5, LowAlloc
  <2> DEFINE u  == Taken(pmm)
             u2 == Taken(pmm')
             m  == mem
             m2 == mem'
             P  == Dirs
             Q  == Dirs'
             k  == Len(spaces) + 1
  <2>4. /\ pd \in Ram /\ pd \notin u /\ pd \notin Static
        /\ u2 = u \cup {pd} /\ Static \subseteq u /\ u \subseteq Ram /\ Alloc(pmm')
    BY <2>1, <2>2, <2>3, TakenIs
  <2>5. PICK r \in [Ram -> Roles] : StaticRoles(r) /\ Owned(m, u, r, P) /\ StacksOwned(u, r, spaces)
    BY <1>3 DEF RoleInv
  <2>6. KernelTables(m) /\ KernelShared(m, P)
    BY <1>1 DEF KernelInv
  <2>7. m \in Mem /\ m2 = [m EXCEPT ![pd] = m[KERNEL_PD]]
    BY <2>1 DEF TypeInv
  <2>8. KERNEL_PD \in Ram /\ KernelFrames \subseteq u
    BY <2>4, StaticIs DEF KernelFrames
  <2>9. k \in Nat /\ k >= 1 /\ DOMAIN P = 1..(k - 1) /\ \A n \in 1..(k - 1) : P[n] = spaces[n].pd
    BY <1>3, CountIs
  <2>10. DOMAIN Q = 1..k /\ \A n \in 1..k : Q[n] = IF n <= k - 1 THEN spaces[n].pd ELSE pd
    <3>1. Count' = k
      BY <2>1 DEF Count, Building
    <3> QED
      BY <3>1, <2>1, <2>9 DEF Dirs
  <2>11. k \notin DOMAIN P /\ DOMAIN Q = DOMAIN P \cup {k} /\ Q[k] = pd /\ \A n \in DOMAIN P : Q[n] = P[n]
    <3> HIDE DEF k, P, Q
    <3> QED
      BY <2>9, <2>10
  <2> HIDE DEF u, u2, m, m2, P, Q, k, pd
  <2>12. m2 \in Mem /\ m2[pd] = m[KERNEL_PD] /\ \A g \in u : m2[g] = m[g]
    BY <2>4, <2>7, <2>8 DEF Mem
  <2> DEFINE role == <<1, k, 0, 0>>
             s == [r EXCEPT ![pd] = role]
  <2>13. role \in Roles
    BY <2>9 DEF Roles
  <2> HIDE DEF role
  <2>14. s \in [Ram -> Roles] /\ s[pd] = role /\ \A g \in u : s[g] = r[g]
    BY <2>4, <2>13
  <2>15. Owned(m, u, s, P)
    BY <2>4, <2>5, <2>13, FreshRole
  <2> HIDE DEF s
  <2>16. Owned(m2, u, s, P)
    BY <2>12, <2>15, UntouchedOwned
  <2>17. Owned(m2, u2, s, P)
    BY <2>4, <2>16, MoreUsed
  <2>18. \A d \in UserDirs : ~Present(m2[pd][d])
    <3>1. \A d \in UserDirs : d \in Cells /\ ~(d < KTables)
      BY Sizes DEF UserDirs, Cells
    <3>2. \A d \in UserDirs : m[KERNEL_PD][d] = 0
      BY <3>1, <2>6 DEF KernelTables
    <3>3. ~Present(0)
      BY EntryIs
    <3> QED
      BY <3>2, <3>3, <2>12
  <2>19. DirAdded(m2, m2, u2, s, P, Q, k, pd, pd, 0)
    <3>1. pd \in u2 /\ s[pd] = <<1, k, 0, 0>>
      BY <2>4, <2>14 DEF role
    <3> QED
      BY <3>1, <2>11, <2>18 DEF DirAdded
  <2>20. Owned(m2, u2, s, Q)
    BY <2>17, <2>19, DirOwned, Zenon
  <2>21. StaticRoles(s)
    BY <2>4, <2>5, <2>14 DEF StaticRoles
  <2>22. StacksOwned(u2, s, spaces)
    BY <2>4, <2>5, <2>14 DEF StacksOwned
  <2>23. RoleInv'
    <3>1. Owned(mem', Taken(pmm'), s, Dirs') /\ StacksOwned(Taken(pmm'), s, spaces')
      BY <2>20, <2>22, <2>1 DEF m2, u2, Q
    <3> QED
      BY <3>1, <2>14, <2>21 DEF RoleInv
  <2>24. \A n \in DOMAIN P : P[n] \in u
    BY <2>5 DEF Owned, DirsOwned
  <2>25. KernelTables(m2) /\ KernelShared(m2, P)
    BY <2>6, <2>8, <2>12, <2>24, KernelUntouched
  <2>26. m2[KERNEL_PD] = m[KERNEL_PD]
    BY <2>8, <2>12 DEF KernelFrames
  <2>27. KernelShared(m2, Q)
    BY <2>11, <2>12, <2>25, <2>26 DEF KernelShared
  <2>28. KernelInv'
    BY <2>25, <2>27 DEF KernelInv, m2, Q
  <2>29. 0 \in 0..(WORD - 1)
    BY MemoryAssumption, Sizes
  <2>30. TypeInv'
    <3>1. mem' \in Mem /\ pd_phys' \in Ram
      BY <2>1, <2>4, <2>12 DEF m2, pd
    <3> QED
      BY <3>1, <2>1, <2>29, <1>2 DEF TypeInv
  <2>31. PmmInv'
    BY <2>1, <2>3, <2>4 DEF PmmInv, Started
  <2>32. LoadInv'
    BY <2>1 DEF LoadInv, Building
  <2> QED
    BY <2>23, <2>28, <2>30, <2>31, <2>32
<1> QED
  BY <1>4, <1>5

(* The addresses of a segment. *)
LEMMA SegmentIs ==
  ASSUME NEW f \in Files, NEW i \in 1..Len(f.segs), f.segs[i].load
  PROVE  SegmentOK(f.segs[i])
  BY FilesAssumption

(* Nothing wraps around, and the loop ends at a page boundary. *)
LEMMA SegmentAddress ==
  ASSUME NEW g, SegmentOK(g)
  PROVE  /\ g.vaddr \in Nat /\ g.memsz \in Nat /\ g.offset \in Nat /\ g.filesz \in Nat
         /\ g.filesz <= g.memsz /\ g.vaddr + g.memsz + N - 1 < WORD
         /\ g.offset + g.filesz <= MAX_ELF_SIZE /\ g.offset % N = g.vaddr % N
         /\ g.vaddr < WORD
         /\ PageBase(g.vaddr) = N * (g.vaddr \div N) /\ PageBase(g.vaddr) \in 0..(WORD - 1)
         /\ PageBase(g.vaddr) \div N = g.vaddr \div N
         /\ SegmentEnd(g) = N * ((g.vaddr + g.memsz + N - 1) \div N)
         /\ SegmentEnd(g) < WORD /\ SegmentEnd(g) \in Nat
         /\ (g.vaddr + g.memsz + N - 1) \div N \in Nat
<1> DEFINE v == g.vaddr
           e == g.vaddr + g.memsz + N - 1
<1>1. /\ v \in Nat /\ g.memsz \in Nat /\ g.offset \in Nat /\ g.filesz \in Nat
      /\ g.filesz <= g.memsz /\ e < WORD
      /\ g.offset + g.filesz <= MAX_ELF_SIZE /\ g.offset % N = g.vaddr % N
  BY DEF SegmentOK
<1>2. e \in Nat /\ v < WORD /\ v \in Nat
  BY <1>1, Sizes
<1>3. PageBase(v) = N * (v \div N) /\ PageBase(v) \in Nat /\ PageBase(v) <= v /\ v \div N \in Nat
  BY <1>2, PageBaseIs, DivMod
<1>4. PageBase(v) \in 0..(WORD - 1)
  BY <1>2, <1>3, Sizes
<1>5. PageBase(v) \div N = v \div N
  <2> DEFINE b == PageBase(v)
             q == v \div N
  <2>1. b \in Nat /\ q \in Nat /\ N * q <= b /\ b < N * q + N
    BY <1>3, Sizes
  <2> HIDE DEF b, q
  <2>2. b \div N = q
    BY <2>1, DivIs
  <2> QED
    BY <2>2 DEF b, q
<1> HIDE DEF e
<1>6. e % WORD = e
  BY <1>1, <1>2, Sizes
<1>7. SegmentEnd(g) = PageBase(e)
  BY <1>6 DEF SegmentEnd, e
<1>8. PageBase(e) = N * (e \div N) /\ PageBase(e) \in Nat /\ PageBase(e) <= e /\ e \div N \in Nat
  BY <1>2, PageBaseIs, DivMod
<1>9. SegmentEnd(g) < WORD /\ SegmentEnd(g) \in Nat
  BY <1>1, <1>2, <1>7, <1>8, Sizes
<1> QED
  BY <1>1, <1>2, <1>3, <1>4, <1>5, <1>7, <1>8, <1>9 DEF e

(* The head of the segment loop. *)
LEMMA SegmentInv ==
  ASSUME IInv, ElfSegment PROVE IInv'
<1> USE DEF IInv
<1>1. /\ pc = "segment" /\ seg <= Len(file.segs)
      /\ UNCHANGED <<mem, pmm, elf_buf, spaces, file, pd_phys>>
  BY DEF ElfSegment
<1>2. file \in Files /\ seg \in Nat \ {0} /\ Len(file.segs) \in Nat
  BY <1>1, FilesAssumption DEF LoadInv, Building
<1>3. seg \in 1..Len(file.segs)
  BY <1>1, <1>2
<1>4. /\ pc' \in {"segment", "page"}
      /\ pc' = "page" => /\ file.segs[seg].load /\ vaddr' = PageBase(file.segs[seg].vaddr) /\ seg' = seg
      /\ pc' = "segment" => seg' = seg + 1 /\ vaddr' = vaddr
  BY <1>1 DEF ElfSegment
<1>5. pc' = "page" =>
        /\ vaddr' \in 0..(WORD - 1) /\ vaddr' \div N = file.segs[seg].vaddr \div N
        /\ vaddr' = N * (vaddr' \div N) /\ file.segs[seg].vaddr \div N \in Nat
  <2> SUFFICES ASSUME pc' = "page"
               PROVE  /\ vaddr' \in 0..(WORD - 1) /\ vaddr' \div N = file.segs[seg].vaddr \div N
                      /\ vaddr' = N * (vaddr' \div N) /\ file.segs[seg].vaddr \div N \in Nat
    OBVIOUS
  <2> DEFINE g == file.segs[seg]
  <2>1. SegmentOK(g) /\ vaddr' = PageBase(g.vaddr)
    BY <1>2, <1>3, <1>4, SegmentIs
  <2> HIDE DEF g
  <2>2. /\ g.vaddr \in Nat /\ PageBase(g.vaddr) = N * (g.vaddr \div N) /\ PageBase(g.vaddr) \in 0..(WORD - 1)
        /\ PageBase(g.vaddr) \div N = g.vaddr \div N
    BY <2>1, SegmentAddress
  <2>3. g.vaddr \div N \in Nat
    BY <2>2, DivMod
  <2> QED
    BY <2>1, <2>2, <2>3 DEF g
<1>6. TypeInv'
  BY <1>1, <1>4, <1>5 DEF TypeInv
<1>7. PmmInv'
  BY <1>1, <1>4 DEF PmmInv, Started
<1>8. LoadInv'
  BY <1>1, <1>2, <1>4, <1>5 DEF LoadInv, Building
<1>9. Started /\ Started' /\ Building
  BY <1>1, <1>4 DEF Started, Building
<1>10. KernelInv' /\ RoleInv'
  BY <1>1, <1>9, SameOwners
<1> QED
  BY <1>6, <1>7, <1>8, <1>10
-----------------------------------------------------------------------------
(* A page of segment g that the loader fills: inside the segment, and the  *)
(* copy stays inside elf_buf.                                              *)
LEMMA PageInSegment ==
  ASSUME NEW g, SegmentOK(g), NEW va \in 0..(WORD - 1), va = N * (va \div N),
         g.vaddr \div N <= va \div N, va < SegmentEnd(g)
  PROVE  /\ va \div N \in Nat /\ (va \div N) \div N \in UserDirs
         /\ va + N < WORD /\ (va + N) \div N = va \div N + 1
         /\ va + N = N * (va \div N + 1)
         /\ g.offset + va - g.vaddr >= 0
<1> DEFINE v == va \div N
           a == g.vaddr
           e == g.vaddr + g.memsz + N - 1
           h == e \div N
<1>1. /\ a \in Nat /\ g.memsz \in Nat /\ g.offset \in Nat /\ h \in Nat
      /\ SegmentEnd(g) = N * h /\ SegmentEnd(g) < WORD /\ g.offset % N = a % N
  BY SegmentAddress
<1>2. va \in Nat /\ v \in Nat /\ a \div N \in Nat /\ va = N * v /\ a \div N <= v
  BY <1>1, DivMod, Sizes
<1>3. \A w \in (a \div N)..(h - 1) : w \div N \in UserDirs
  BY DEF SegmentOK
<1> HIDE DEF v, a, e, h
<1>4. N * v < N * h
  BY <1>1, <1>2
<1>5. v < h
  BY <1>1, <1>2, <1>4, PagesOrdered
<1>6. v \in (a \div N)..(h - 1)
  BY <1>1, <1>2, <1>5
<1>7. v \div N \in UserDirs
  BY <1>3, <1>6
<1>8. N * v + N <= N * h /\ N * h \in Nat /\ N * v \in Nat
  BY <1>1, <1>2, <1>5, PagesOrdered
<1>9. va + N < WORD
  BY <1>1, <1>2, <1>8, Sizes
<1>10. va + N = N * (v + 1)
  BY <1>2, Sizes
<1>11. (va + N) \div N = v + 1
  <2>1. va + N \in Nat /\ v + 1 \in Nat /\ N * (v + 1) <= va + N /\ va + N < N * (v + 1) + N
    BY <1>10, <1>2, <1>8, Sizes
  <2> QED
    BY <2>1, DivIs
<1>12. g.offset + va - a >= 0
  <2>1. N * (a \div N) <= N * v /\ N * (a \div N) \in Nat
    BY <1>2, PagesOrdered
  <2>2. a = N * (a \div N) + (a % N) /\ (a % N) \in 0..(N - 1)
    BY <1>1, DivMod DEF Cells
  <2>3. g.offset = N * (g.offset \div N) + (g.offset % N) /\ g.offset \div N \in Nat
    BY <1>1, DivMod
  <2>4. N * (g.offset \div N) \in Nat
    BY <2>3, Sizes
  <2>5. (a % N) <= g.offset
    BY <2>2, <2>3, <2>4, <1>1, Sizes
  <2>6. va >= a - (a % N)
    BY <2>1, <2>2, <1>2, <1>1, Sizes
  <2> QED
    BY <2>5, <2>6, <2>2, <1>1, <1>2, Sizes
<1> QED
  BY <1>2, <1>7, <1>9, <1>10, <1>11, <1>12 DEF v, a

(* The page then holds the bytes of the file, as far as the segment has    *)
(* them, and zeros.                                                        *)
LEMMA PageImageIs ==
  ASSUME TypeInv, NEW g, SegmentOK(g), NEW va \in 0..(WORD - 1), va = N * (va \div N),
         g.vaddr \div N <= va \div N, va < SegmentEnd(g), NEW old
  PROVE  /\ PageImage(g, va, old) \in Pages
         /\ \A j \in Cells : PageImage(g, va, old)[j] =
              IF va + j < g.vaddr + g.filesz THEN elf_buf[g.offset + va - g.vaddr + j] ELSE 0
<1> DEFINE src   == (g.offset + va - g.vaddr) % WORD
           avail == (g.offset + g.filesz - src) % WORD
           img   == PageImage(g, va, old)
<1>1. /\ g.vaddr \in Nat /\ g.memsz \in Nat /\ g.offset \in Nat /\ g.filesz \in Nat
      /\ g.filesz <= g.memsz /\ g.vaddr + g.memsz + N - 1 < WORD
      /\ g.offset + g.filesz <= MAX_ELF_SIZE
  BY SegmentAddress
<1>2. g.offset + va - g.vaddr >= 0
  BY PageInSegment
<1>3. va \in Nat /\ WORD \in Nat /\ MAX_ELF_SIZE \in Nat /\ MAX_ELF_SIZE < WORD /\ N \in Nat
  BY MemoryAssumption, Sizes
<1>4. (g.vaddr + g.filesz) % WORD = g.vaddr + g.filesz
  <2>1. g.vaddr + g.filesz \in 0..(WORD - 1)
    BY <1>1, <1>3, Sizes
  <2> QED
    BY <2>1, <1>3
<1>5. img = [j \in Cells |-> IF va < g.vaddr + g.filesz /\ j < avail THEN elf_buf[src + j] ELSE 0]
  BY <1>4 DEF PageImage
<1> HIDE DEF img
<1>6. CASE va < g.vaddr + g.filesz
  <2>1. g.offset + va - g.vaddr \in 0..(WORD - 1) /\ g.offset + va - g.vaddr < g.offset + g.filesz
    BY <1>1, <1>2, <1>3, <1>6
  <2>2. src = g.offset + va - g.vaddr
    BY <2>1, <1>3
  <2>3. g.offset + g.filesz - src \in 0..(WORD - 1)
    BY <2>1, <2>2, <1>1, <1>3
  <2>4. avail = g.vaddr + g.filesz - va
    <3>1. avail = g.offset + g.filesz - src
      BY <2>3, <1>3
    <3> QED
      BY <3>1, <2>2, <1>1, <1>3
  <2>5. ASSUME NEW j \in Cells PROVE j \in Nat /\ (j < avail <=> va + j < g.vaddr + g.filesz)
    BY <2>4, <1>1, <1>3 DEF Cells
  <2>6. \A j \in Cells : img[j] = IF va + j < g.vaddr + g.filesz THEN elf_buf[g.offset + va - g.vaddr + j] ELSE 0
    BY <1>5, <1>6, <2>2, <2>5
  <2>7. ASSUME NEW j \in Cells, va + j < g.vaddr + g.filesz
        PROVE  elf_buf[g.offset + va - g.vaddr + j] \in Nat
    <3>1. g.offset + va - g.vaddr + j \in 0..(MAX_ELF_SIZE - 1)
      BY <2>1, <2>5, <2>7, <1>1, <1>3
    <3> QED
      BY <3>1 DEF TypeInv
  <2>8. \A j \in Cells : img[j] \in Nat
    BY <2>6, <2>7
  <2>9. img \in Pages
    BY <1>5, <2>8 DEF Pages
  <2> QED
    BY <2>6, <2>9 DEF img
<1>7. CASE ~(va < g.vaddr + g.filesz)
  <2>1. \A j \in Cells : ~(va + j < g.vaddr + g.filesz)
    BY <1>1, <1>3, <1>7 DEF Cells
  <2>2. img = [j \in Cells |-> 0]
    BY <1>5, <1>7
  <2>3. img \in Pages
    BY <2>2 DEF Pages
  <2> QED
    BY <2>1, <2>2, <2>3 DEF img
<1> QED
  BY <1>6, <1>7

(* A page more for the process that elf_exec builds. *)
LEMMA AddPageOwned ==
  ASSUME IInv, Building, NEW virt \in Nat, virt \div N \in UserDirs, NEW image \in Pages,
         CanAddPage(virt), NEW R, R = AddPage(virt, image)
  PROVE  \E r \in [Ram -> Roles] :
           /\ StaticRoles(r) /\ Owned(mem, Taken(pmm), r, Dirs) /\ StacksOwned(Taken(pmm), r, spaces)
           /\ PageAdded(mem, R.mem, pmm, R.pmm, r, Dirs, Count, virt, image)
<1> USE DEF IInv
<1>1. Started /\ Low(pmm) /\ Alloc(pmm)
  BY DEF Building, Started, PmmInv
<1>2. PICK r \in [Ram -> Roles] :
        StaticRoles(r) /\ Owned(mem, Taken(pmm), r, Dirs) /\ StacksOwned(Taken(pmm), r, spaces)
  BY <1>1 DEF RoleInv
<1>3. KernelTables(mem) /\ KernelShared(mem, Dirs) /\ mem \in Mem
  BY DEF KernelInv, Building, TypeInv
<1> DEFINE P == Dirs
           k == Count
<1>4. k \in DOMAIN P /\ k \in Nat /\ P[k] = pd_phys
  BY CountIs
<1>5. Writable({Frame(pmm)}) /\ (NeedsTable(mem, P[k], virt) => Writable({Frame(pmm_alloc_page(pmm))}))
  BY <1>4, Zenon DEF CanAddPage
<1>6. R = proc_map_page([mem EXCEPT ![Frame(pmm)] = image], pmm_alloc_page(pmm), P[k], virt, Frame(pmm))
  BY <1>4, Zenon DEF AddPage
<1>7. Owned(mem, Taken(pmm), r, P) /\ KernelShared(mem, P)
  BY <1>2, <1>3
<1> HIDE DEF P, k
<1>8. PageAdded(mem, R.mem, pmm, R.pmm, r, P, k, virt, image)
  BY <1>1, <1>2, <1>3, <1>4, <1>5, <1>6, <1>7, MapPage, ZenonT(60)
<1> QED
  BY <1>2, <1>8 DEF P, k
-----------------------------------------------------------------------------
(* The page loop of elf_exec. *)
LEMMA ElfPageInv ==
  ASSUME IInv, ElfPage PROVE IInv'
<1> USE DEF IInv
<1> DEFINE g == file.segs[seg]
           virt == vaddr \div N
           img == PageImage(g, vaddr, mem[Frame(pmm)])
           R == AddPage(virt, img)
<1>1. pc = "page" /\ elf_buf' = elf_buf
  BY DEF ElfPage
<1>2. Started /\ Building
  BY <1>1 DEF Started, Building
<1>3. /\ file \in Files /\ seg \in Nat \ {0} /\ Len(file.segs) \in Nat
      /\ seg <= Len(file.segs) /\ g.load /\ vaddr = N * virt /\ g.vaddr \div N <= virt
  BY <1>1, <1>2, FilesAssumption DEF LoadInv
<1>4. SegmentOK(g)
  <2>1. seg \in 1..Len(file.segs)
    BY <1>3
  <2> QED
    BY <2>1, <1>3, SegmentIs
<1>5. vaddr \in 0..(WORD - 1) /\ vaddr \in Nat /\ SegmentEnd(g) \in Nat
  BY <1>4, SegmentAddress, Sizes DEF TypeInv
<1>6. CASE vaddr >= SegmentEnd(g)
  <2>1. pc' = "segment" /\ seg' = seg + 1 /\ UNCHANGED <<mem, pmm, spaces, file, vaddr, pd_phys>>
    BY <1>6 DEF ElfPage
  <2>2. TypeInv'
    BY <1>1, <2>1 DEF TypeInv
  <2>3. PmmInv'
    BY <1>1, <2>1 DEF PmmInv, Started
  <2>4. LoadInv'
    BY <1>3, <2>1 DEF LoadInv, Building
  <2>5. KernelInv' /\ RoleInv'
    BY <1>2, <2>1, SameOwners DEF Started
  <2> QED
    BY <2>2, <2>3, <2>4, <2>5
<1>7. CASE ~(vaddr >= SegmentEnd(g)) /\ ~CanAddPage(virt)
  <2>1. PageFault
    BY <1>7, Zenon DEF ElfPage
  <2>2. elf_buf' \in [0..(MAX_ELF_SIZE - 1) -> Nat]
    BY <1>1 DEF TypeInv
  <2> QED
    BY <2>1, <2>2, <1>2, FaultInv
<1>8. CASE ~(vaddr >= SegmentEnd(g)) /\ CanAddPage(virt)
  <2>1. /\ mem' = R.mem /\ pmm' = R.pmm /\ vaddr' = (vaddr + N) % WORD
        /\ UNCHANGED <<pc, spaces, file, seg, pd_phys>>
    BY <1>8, Zenon DEF ElfPage
  <2>2. vaddr < SegmentEnd(g)
    BY <1>5, <1>8
  <2>3. /\ virt \in Nat /\ virt \div N \in UserDirs
        /\ vaddr + N < WORD /\ (vaddr + N) \div N = virt + 1
        /\ vaddr + N = N * (virt + 1)
    BY <1>3, <1>4, <1>5, <2>2, PageInSegment
  <2>4. img \in Pages
    BY <1>3, <1>4, <1>5, <2>2, PageImageIs
  <2> HIDE DEF g, virt, img, R
  <2>5. R = AddPage(virt, img)
    BY DEF R
  <2>6. PICK r \in [Ram -> Roles] :
          /\ StaticRoles(r) /\ Owned(mem, Taken(pmm), r, Dirs) /\ StacksOwned(Taken(pmm), r, spaces)
          /\ PageAdded(mem, R.mem, pmm, R.pmm, r, Dirs, Count, virt, img)
    BY <1>2, <1>8, <2>3, <2>4, <2>5, AddPageOwned
  <2>7. PageAdded(mem, mem', pmm, pmm', r, Dirs, Count, virt, img)
    BY <2>1, <2>6
  <2>8. /\ mem' \in Mem /\ KernelTables(mem') /\ KernelShared(mem', Dirs)
        /\ Alloc(pmm') /\ Low(pmm') /\ Taken(pmm) \subseteq Taken(pmm')
        /\ \E s \in [Ram -> Roles] :
             StaticRoles(s) /\ Owned(mem', Taken(pmm'), s, Dirs) /\ \A f \in Taken(pmm) : s[f] = r[f]
    BY <2>7, Zenon DEF PageAdded
  <2>9. Dirs' = Dirs
    BY <2>1 DEF Dirs, Count, Building
  <2>10. PICK s \in [Ram -> Roles] :
           StaticRoles(s) /\ Owned(mem', Taken(pmm'), s, Dirs) /\ \A f \in Taken(pmm) : s[f] = r[f]
    BY <2>8
  <2>11. StacksOwned(Taken(pmm'), s, spaces')
    BY <2>1, <2>6, <2>8, <2>10 DEF StacksOwned
  <2>12. RoleInv'
    BY <2>9, <2>10, <2>11 DEF RoleInv
  <2>13. KernelInv'
    BY <2>8, <2>9 DEF KernelInv
  <2>14. PmmInv'
    BY <1>1, <2>1, <2>8 DEF PmmInv, Started
  <2>15. vaddr' = vaddr + N /\ vaddr' \in 0..(WORD - 1)
    <3>1. vaddr + N \in 0..(WORD - 1)
      BY <1>5, <2>3, Sizes
    <3> QED
      BY <3>1, <2>1, Sizes
  <2>16. TypeInv'
    BY <1>1, <2>1, <2>8, <2>15 DEF TypeInv
  <2>17. vaddr' \div N = virt + 1 /\ vaddr' = N * (vaddr' \div N)
    BY <2>3, <2>15
  <2>18. g.vaddr \div N <= vaddr' \div N
    <3>1. g.vaddr \div N \in Nat
      BY <1>4, SegmentAddress, DivMod
    <3> QED
      BY <3>1, <1>3, <2>3, <2>17
  <2>19. LoadInv'
    BY <1>3, <1>1, <2>1, <2>17, <2>18 DEF LoadInv, Building, g
  <2> QED
    BY <2>12, <2>13, <2>14, <2>16, <2>19
<1> QED
  BY <1>6, <1>7, <1>8

(* User stack, kernel stack, registration. *)
LEMMA FinishInv ==
  ASSUME IInv, ElfFinish PROVE IInv'
<1> USE DEF IInv
<1> DEFINE R == AddPage(USER_STACK_VIRT, Zero)
           virt == USER_STACK_VIRT
<1>1. pc = "segment" /\ elf_buf' = elf_buf
  BY Zenon DEF ElfFinish
<1>2. Started /\ Building
  BY <1>1 DEF Started, Building
<1>3. file \in Files
  BY <1>2 DEF LoadInv
<1>4. CASE ~CanAddPage(virt)
  <2>1. PageFault
    BY <1>4, Zenon DEF ElfFinish
  <2>2. elf_buf' \in [0..(MAX_ELF_SIZE - 1) -> Nat]
    BY <1>1 DEF TypeInv
  <2> QED
    BY <2>1, <2>2, <1>2, FaultInv
<1>5. CASE CanAddPage(virt)
  <2> DEFINE ks == Frame(R.pmm)
             rec == [pd |-> pd_phys, kstack |-> ks, file |-> file]
             k == Count
  <2>1. /\ mem' = R.mem /\ pmm' = pmm_alloc_page(R.pmm) /\ spaces' = Append(spaces, rec)
        /\ pc' = "elf_exec" /\ UNCHANGED <<elf_buf, file, seg, vaddr, pd_phys>>
    BY <1>5, Zenon DEF ElfFinish, load
  <2>2. Zero \in Pages
    BY DEF Zero, Pages
  <2>3. virt \in Nat /\ virt \div N \in UserDirs
    BY MemoryAssumption
  <2> HIDE DEF R, virt
  <2>4. R = AddPage(virt, Zero)
    BY DEF R, virt
  <2>5. PICK r \in [Ram -> Roles] :
          /\ StaticRoles(r) /\ Owned(mem, Taken(pmm), r, Dirs) /\ StacksOwned(Taken(pmm), r, spaces)
          /\ PageAdded(mem, R.mem, pmm, R.pmm, r, Dirs, k, virt, Zero)
    BY <1>2, <1>5, <2>2, <2>3, <2>4, AddPageOwned
  <2> DEFINE q == R.pmm
             u == Taken(pmm)
             u1 == Taken(q)
             u2 == Taken(pmm')
             m2 == mem'
             P == Dirs
             Q == Dirs'
  <2>6. PageAdded(mem, m2, pmm, q, r, P, k, virt, Zero)
    BY <2>1, <2>5
  <2>7. pmm' = pmm_alloc_page(q)
    BY <2>1
  <2>8. /\ m2 \in Mem /\ KernelTables(m2) /\ KernelShared(m2, P)
        /\ Alloc(q) /\ Low(q) /\ u \subseteq u1
        /\ \E s \in [Ram -> Roles] :
             StaticRoles(s) /\ Owned(m2, u1, s, P) /\ \A f \in u : s[f] = r[f]
    BY <2>6, Zenon DEF PageAdded
  <2>9. PICK s \in [Ram -> Roles] :
          StaticRoles(s) /\ Owned(m2, u1, s, P) /\ \A f \in u : s[f] = r[f]
    BY <2>8
  <2>10. FreeFrames(q) # {} /\ Room(pmm')
    BY <2>7, <2>8, LowAlloc
  <2>11. /\ ks \in Ram /\ ks \notin u1 /\ ks \notin Static /\ u2 = u1 \cup {ks}
         /\ Static \subseteq u1 /\ u1 \subseteq Ram /\ Alloc(pmm')
    BY <2>7, <2>8, <2>10, TakenIs
  <2>12. rec \in SpaceRec
    BY <2>11, <1>3 DEF SpaceRec, TypeInv
  <2>13. /\ spaces' \in Seq(SpaceRec) /\ Len(spaces') = Len(spaces) + 1
         /\ spaces'[Len(spaces) + 1] = rec
         /\ \A n \in 1..Len(spaces) : spaces'[n] = spaces[n]
    <3> HIDE DEF rec
    <3> QED
      BY <2>1, <2>12, OneMore
  <2>14. /\ Len(spaces) \in Nat /\ k = Len(spaces) + 1 /\ DOMAIN P = 1..k /\ P[k] = pd_phys
         /\ \A n \in 1..Len(spaces) : P[n] = spaces[n].pd
    BY <1>2, CountIs
  <2>15. DOMAIN Q = 1..k /\ \A n \in 1..k : Q[n] = spaces'[n].pd
    <3>1. Count' = Len(spaces')
      BY <2>1 DEF Count, Building
    <3>2. Count' = k
      BY <3>1, <2>13, <2>14
    <3>3. \A n \in 1..k : n <= Len(spaces')
      BY <2>13, <2>14
    <3> QED
      BY <3>2, <3>3 DEF Dirs
  <2>16. DOMAIN Q = DOMAIN P /\ \A n \in DOMAIN Q : Q[n] = P[n]
    <3>1. spaces'[k].pd = pd_phys
      BY <2>13, <2>14
    <3>2. \A n \in 1..k : n = k \/ n \in 1..Len(spaces)
      BY <2>14
    <3> HIDE DEF P, Q, k
    <3> QED
      BY <3>1, <3>2, <2>13, <2>14, <2>15
  <2> DEFINE role == <<4, k, 0, 0>>
             z == [s EXCEPT ![ks] = role]
  <2>17. role \in Roles
    BY <2>14 DEF Roles
  <2>18. spaces'[k].kstack = ks
    BY <2>13, <2>14
  <2> HIDE DEF q, u, u1, u2, m2, P, Q, ks, role, k, rec
  <2>19. z \in [Ram -> Roles] /\ z[ks] = role /\ \A f \in u1 : z[f] = s[f]
    BY <2>11, <2>17
  <2>20. Owned(m2, u1, z, P)
    BY <2>9, <2>11, <2>17, FreshRole
  <2> HIDE DEF z
  <2>21. Owned(m2, u2, z, P)
    BY <2>11, <2>20, MoreUsed
  <2>22. Owned(m2, u2, z, Q)
    BY <2>16, <2>21, FewerOwned
  <2>23. StaticRoles(z)
    BY <2>9, <2>11, <2>19 DEF StaticRoles
  <2>24. StacksOwned(u2, z, spaces')
    <3> SUFFICES ASSUME NEW n \in 1..Len(spaces')
                 PROVE  spaces'[n].kstack \in u2 /\ z[spaces'[n].kstack] = <<4, n, 0, 0>>
      BY DEF StacksOwned
    <3>1. CASE n = k
      BY <3>1, <2>11, <2>18, <2>19 DEF role
    <3>2. CASE n # k
      <4>1. n \in 1..Len(spaces) /\ spaces'[n] = spaces[n]
        BY <3>2, <2>13, <2>14
      <4>2. spaces[n].kstack \in u /\ r[spaces[n].kstack] = <<4, n, 0, 0>>
        BY <4>1, <2>5 DEF StacksOwned, u
      <4> QED
        BY <4>1, <4>2, <2>8, <2>9, <2>11, <2>19
    <3> QED
      BY <3>1, <3>2
  <2>25. RoleInv'
    <3>1. Owned(mem', Taken(pmm'), z, Dirs') /\ StacksOwned(Taken(pmm'), z, spaces')
      BY <2>22, <2>24 DEF m2, u2, Q
    <3> QED
      BY <3>1, <2>19, <2>23 DEF RoleInv
  <2>26. KernelShared(m2, Q)
    BY <2>8, <2>16, FewerShared
  <2>27. KernelInv'
    BY <2>8, <2>26 DEF KernelInv, m2, Q
  <2>28. TypeInv'
    <3>1. mem' \in Mem
      BY <2>8 DEF m2
    <3> QED
      BY <3>1, <1>1, <2>1, <2>13 DEF TypeInv
  <2>29. PmmInv'
    BY <2>1, <2>10, <2>11 DEF PmmInv, Started
  <2>30. LoadInv'
    BY <2>1 DEF LoadInv, Building
  <2> QED
    BY <2>25, <2>27, <2>28, <2>29, <2>30
<1> QED
  BY <1>4, <1>5

(* Every step keeps the invariant. *)
LEMMA StepInv == IInv /\ [Next]_vars => IInv'
<1> SUFFICES ASSUME IInv, [Next]_vars PROVE IInv'
  OBVIOUS
<1>1. CASE UNCHANGED vars
  BY <1>1 DEF vars, load, IInv, TypeInv, PmmInv, LoadInv, KernelInv, RoleInv, Started, Building, Dirs, Count
<1>2. CASE \E f \in Files : ElfStart(f)
  BY <1>2, StartInv
<1> QED
  BY <1>1, <1>2, PagingInv, InitPmmInv, LaunchInv, RejectedInv, SegmentInv, ElfPageInv, FinishInv
     DEF Next

(* The invariant of the boot and of the loader, for machines of any size   *)
(* and any programs that the linker makes.                                 *)
THEOREM Invariance == Spec => []IInv
<1>1. Init => IInv
  BY InitInv
<1>2. IInv /\ [Next]_vars => IInv'
  BY StepInv
<1> QED
  BY <1>1, <1>2, PTL DEF Spec
-----------------------------------------------------------------------------
(* Every variable has its type (TypeOK): the tables that the loader builds *)
(* in fresh frames stay pages, and the bitmap covers what it hands out.    *)
THEOREM TypeCorrect == Spec => []TypeOK
<1>1. IInv => TypeOK
  <2> SUFFICES ASSUME IInv PROVE TypeOK
    OBVIOUS
  <2> USE DEF IInv
  <2>1. \A f \in DOMAIN mem : mem[f] \in [Cells -> Nat]
    BY DEF TypeInv, Mem, Pages
  <2>2. pd_phys \in DOMAIN mem
    BY DEF TypeInv, Mem
  <2>3. pmm.total \in 0..PMM_MAX_PAGES /\ pmm.used \subseteq AllFrames
    <3>1. CASE Started
      BY <3>1, Sizes DEF PmmInv, Alloc
    <3>2. CASE ~Started
      BY <3>2, Sizes DEF PmmInv, NoMemory
    <3> QED
      BY <3>1, <3>2
  <2> QED
    BY <2>1, <2>2, <2>3 DEF TypeOK, TypeInv
<1> QED
  BY <1>1, Invariance, PTL

(* The identity map as a directory sees it. *)
LEMMA IdentityIs ==
  ASSUME NEW m, NEW dir, KernelTables(m), NEW v \in Identity,
         \A i \in Cells : i < KTables => dir[i] = m[KERNEL_PD][i]
  PROVE  LET e == dir[v \div N] IN
         Present(e) /\ Present(m[FrameOf(e)][v % N]) /\ FrameOf(m[FrameOf(e)][v % N]) = v
<1> DEFINE q == v \div N
           j == v % N
           f == KERNEL_PT + q
<1>1. v \in Nat /\ v < KTables * N
  BY Sizes DEF Identity
<1>2. q \in Nat /\ j \in Cells /\ v = N * q + j
  BY <1>1, DivMod
<1>3. KERNEL_PT \in Nat /\ KTables \in Nat /\ N \in Nat
  BY MemoryAssumption, Sizes
<1> HIDE DEF q, j
<1>4. j \in 0..(N - 1)
  BY <1>2 DEF Cells
<1>5. q < KTables
  <2>1. N * q \in Nat /\ N * q < N * KTables
    BY <1>1, <1>2, <1>3, <1>4
  <2> QED
    BY <2>1, <1>2, <1>3, PagesOrdered
<1>6. q \in Cells
  BY <1>2, <1>5, Sizes DEF Cells
<1>7. f \in Nat /\ f \in KPTs /\ f - KERNEL_PT = q
  BY <1>2, <1>3, <1>5 DEF KPTs
<1> HIDE DEF f
<1>8. dir[q] = Entry(f, PWU)
  BY <1>5, <1>6 DEF KernelTables, f
<1>9. Present(dir[q]) /\ FrameOf(dir[q]) = f
  BY <1>7, <1>8, EntryIs
<1>10. m[f][j] = Entry((f - KERNEL_PT) * N + j, PWU)
  BY <1>2, <1>7 DEF KernelTables
<1>11. (f - KERNEL_PT) * N + j = v
  <2>1. q * N = N * q
    BY <1>2, <1>3
  <2> QED
    BY <2>1, <1>2, <1>7
<1>12. Present(m[f][j]) /\ FrameOf(m[f][j]) = v
  BY <1>1, <1>10, <1>11, EntryIs
<1> QED
  BY <1>9, <1>12 DEF q, j

(* Every address space keeps the kernel at its own addresses               *)
(* (KernelMapped): launch_tasks and elf_exec never touch the kernel's      *)
(* tables or its entries in a page directory.                              *)
THEOREM KernelCorrect == Spec => []KernelMapped
<1>1. IInv => KernelMapped
  <2> SUFFICES ASSUME IInv, pc # "init_paging",
                      NEW pd \in {KERNEL_PD} \cup {s.pd : s \in Spaces}, NEW v \in Identity
               PROVE  LET e == mem[pd][v \div N] IN
                      Present(e) /\ Present(mem[FrameOf(e)][v % N]) /\ FrameOf(mem[FrameOf(e)][v % N]) = v
    BY Zenon DEF KernelMapped
  <2> USE DEF IInv
  <2>1. KernelTables(mem) /\ KernelShared(mem, Dirs)
    BY DEF KernelInv
  <2>2. \A i \in Cells : i < KTables => mem[pd][i] = mem[KERNEL_PD][i]
    <3>1. CASE pd = KERNEL_PD
      BY <3>1
    <3>2. CASE pd \in {s.pd : s \in Spaces}
      <4>1. PICK n \in DOMAIN spaces : pd = spaces[n].pd
        BY <3>2 DEF Spaces
      <4>2. n \in DOMAIN Dirs /\ Dirs[n] = pd
        BY <4>1, CountIs
      <4> QED
        BY <4>2, <2>1 DEF KernelShared
    <3> QED
      BY <3>1, <3>2
  <2> QED
    BY <2>1, <2>2, IdentityIs
<1> QED
  BY <1>1, Invariance, PTL
-----------------------------------------------------------------------------
(* What an address space was given has its role, so spaces are disjoint    *)
(* because roles differ.                                                   *)

(* A function that tells the elements of a finite set apart counts them. *)
LEMMA CountImage ==
  ASSUME NEW S, IsFiniteSet(S), NEW T, NEW f \in [S -> T],
         \A x, y \in S : f[x] = f[y] => x = y, \A z \in T : \E x \in S : f[x] = z
  PROVE  IsFiniteSet(T) /\ Cardinality(T) = Cardinality(S)
<1>1. f \in Bijection(S, T)
  BY Zenon DEF Bijection, Injection, Surjection, IsInjective
<1>2. ExistsBijection(S, T)
  BY <1>1, Zenon DEF ExistsBijection
<1> QED
  BY <1>2, FS_Bijection

(* A page number is its directory entry and its place in the table. *)
LEMMA PageSplit ==
  ASSUME NEW v \in 0..(N * N - 1), NEW w \in 0..(N * N - 1),
         v \div N = w \div N, v % N = w % N
  PROVE  v = w
<1>1. v \in Nat /\ w \in Nat
  BY Sizes
<1>2. v = N * (v \div N) + (v % N) /\ w = N * (w \div N) + (w % N)
  BY <1>1, DivMod
<1> QED
  BY <1>2

(* The roles of the frames of the n-th address space. *)
SpaceRoles(r, s, n) ==
  /\ s.pd \in Ram /\ r[s.pd] = <<1, n, 0, 0>>
  /\ s.kstack \in Ram /\ r[s.kstack] = <<4, n, 0, 0>>
  /\ \A f \in Tables(s) : f \in Ram /\ \E d \in Nat : r[f] = <<2, n, d, 0>>
  /\ \A v \in PageSet(s) : PageFrame(s, v) \in Ram /\ r[PageFrame(s, v)] = <<3, n, v \div N, v % N>>

(* They are what the invariant's assignment of roles gives the space. *)
LEMMA SpaceRolesHold ==
  ASSUME IInv, NEW n \in DOMAIN spaces, NEW r \in [Ram -> Roles],
         Owned(mem, Taken(pmm), r, Dirs), StacksOwned(Taken(pmm), r, spaces)
  PROVE  SpaceRoles(r, spaces[n], n)
<1> USE DEF IInv
<1> DEFINE s == spaces[n]
           u == Taken(pmm)
<1>1. n \in 1..Len(spaces) /\ n \in DOMAIN Dirs /\ Dirs[n] = s.pd
  BY CountIs
<1>2. u \subseteq Ram
  BY DEF Taken
<1>3. s.pd \in u /\ r[s.pd] = <<1, n, 0, 0>>
  BY <1>1 DEF Owned, DirsOwned
<1>4. s.kstack \in u /\ r[s.kstack] = <<4, n, 0, 0>>
  BY <1>1 DEF StacksOwned
<1> HIDE DEF u, s
<1>5. ASSUME NEW f \in Tables(s) PROVE f \in Ram /\ \E d \in Nat : r[f] = <<2, n, d, 0>>
  <2>1. PICK d \in UserDirs : Present(mem[s.pd][d]) /\ f = FrameOf(mem[s.pd][d])
    BY <1>5 DEF Tables
  <2>2. d \in Nat
    BY Sizes DEF UserDirs, Cells
  <2>3. f \in u /\ r[f] = <<2, n, d, 0>>
    BY <2>1, <1>1 DEF Owned, TabsOwned, u
  <2> QED
    BY <2>2, <2>3, <1>2
<1>6. ASSUME NEW v \in PageSet(s)
      PROVE  PageFrame(s, v) \in Ram /\ r[PageFrame(s, v)] = <<3, n, v \div N, v % N>>
  <2> DEFINE d == v \div N
             i == v % N
  <2>1. /\ v \in 0..(N * N - 1) /\ d \in UserDirs
        /\ Present(mem[s.pd][d]) /\ Present(mem[FrameOf(mem[s.pd][d])][i])
    BY <1>6 DEF PageSet
  <2>2. i \in Cells
    <3>1. v \in Nat
      BY <2>1, Sizes
    <3> QED
      BY <3>1, DivMod
  <2>3. PageFrame(s, v) = FrameOf(mem[FrameOf(mem[s.pd][d])][i])
    BY DEF PageFrame
  <2> HIDE DEF d, i
  <2>4. PageFrame(s, v) \in u /\ r[PageFrame(s, v)] = <<3, n, d, i>>
    <3>1. PagesOwned(mem, u, r, Dirs)
      BY DEF Owned, u
    <3>2. Present(mem[Dirs[n]][d]) /\ Present(mem[FrameOf(mem[Dirs[n]][d])][i])
      BY <1>1, <2>1
    <3>3. /\ FrameOf(mem[FrameOf(mem[Dirs[n]][d])][i]) \in u
          /\ r[FrameOf(mem[FrameOf(mem[Dirs[n]][d])][i])] = <<3, n, d, i>>
      BY <3>1, <3>2, <1>1, <2>1, <2>2, Zenon DEF PagesOwned
    <3> QED
      BY <3>3, <2>3, <1>1
  <2> QED
    BY <2>4, <1>2 DEF d, i
<1>7. SpaceRoles(r, s, n)
  BY <1>2, <1>3, <1>4, <1>5, <1>6 DEF SpaceRoles
<1> QED
  BY <1>7 DEF s

(* A frame of the n-th address space has a role there. *)
LEMMA PrivateRole ==
  ASSUME NEW r, NEW s, NEW n, SpaceRoles(r, s, n), NEW f \in Private(s)
  PROVE  \E c \in 1..4 : \E d, i : r[f] = <<c, n, d, i>>
<1>1. CASE f = s.pd
  BY <1>1 DEF SpaceRoles
<1>2. CASE f = s.kstack
  BY <1>2 DEF SpaceRoles
<1>3. CASE f \in Tables(s)
  BY <1>3 DEF SpaceRoles
<1>4. CASE f \in PageFrames(s)
  BY <1>4 DEF SpaceRoles, PageFrames
<1> QED
  BY <1>1, <1>2, <1>3, <1>4 DEF Private

(* The frames of one address space are all different. *)
LEMMA PrivateCount ==
  ASSUME NEW r, NEW s, NEW n, SpaceRoles(r, s, n)
  PROVE  Cardinality(Private(s)) = 2 + Cardinality(Tables(s)) + Cardinality(PageSet(s))
<1> DEFINE A == {s.pd, s.kstack}
           T == Tables(s)
           F == PageFrames(s)
           V == PageSet(s)
<1>1. /\ r[s.pd] = <<1, n, 0, 0>> /\ r[s.kstack] = <<4, n, 0, 0>>
      /\ \A f \in T : \E d \in Nat : r[f] = <<2, n, d, 0>>
      /\ \A v \in V : r[PageFrame(s, v)] = <<3, n, v \div N, v % N>>
  BY DEF SpaceRoles
<1>2. IsFiniteSet(A) /\ Cardinality(A) = 2
  <2>1. s.kstack \notin {s.pd}
    BY <1>1
  <2>2. IsFiniteSet({s.pd}) /\ Cardinality({s.pd}) = 1
    BY FS_Singleton
  <2>3. IsFiniteSet({s.pd} \cup {s.kstack}) /\ Cardinality({s.pd} \cup {s.kstack}) = 2
    BY <2>1, <2>2, FS_AddElement
  <2>4. A = {s.pd} \cup {s.kstack}
    OBVIOUS
  <2> QED
    BY <2>3, <2>4
<1>3. IsFiniteSet(T)
  <2>1. T \in SUBSET Ram
    BY DEF SpaceRoles
  <2>2. IsFiniteSet(Ram)
    BY Sizes, FS_Interval DEF Ram
  <2> QED
    BY <2>1, <2>2, FS_Subset
<1>4. V \subseteq 0..(N * N - 1)
  BY DEF PageSet
<1>5. IsFiniteSet(V)
  <2>1. N * N - 1 \in Int
    BY Sizes
  <2>2. IsFiniteSet(0..(N * N - 1))
    BY <2>1, FS_Interval
  <2>3. V \in SUBSET (0..(N * N - 1))
    BY <1>4
  <2> HIDE DEF V
  <2> QED
    BY <2>2, <2>3, FS_Subset
<1>6. F = {PageFrame(s, v) : v \in V}
  BY DEF PageFrames
<1> HIDE DEF V, F, T, A
<1>7. IsFiniteSet(F) /\ Cardinality(F) = Cardinality(V)
  <2> DEFINE h == [v \in V |-> PageFrame(s, v)]
  <2>1. h \in [V -> F]
    BY <1>6
  <2>2. \A v, w \in V : h[v] = h[w] => v = w
    <3> SUFFICES ASSUME NEW v \in V, NEW w \in V, PageFrame(s, v) = PageFrame(s, w) PROVE v = w
      OBVIOUS
    <3>1. v \div N = w \div N /\ v % N = w % N
      BY <1>1
    <3> QED
      BY <3>1, <1>4, PageSplit
  <2>3. \A z \in F : \E v \in V : h[v] = z
    BY <1>6
  <2> HIDE DEF h
  <2> QED
    BY <2>1, <2>2, <2>3, <1>5, CountImage
<1>8. A \cap T = {}
  BY <1>1 DEF A
<1>9. (A \cup T) \cap F = {}
  BY <1>1, <1>6 DEF A
<1>10. IsFiniteSet(A \cup T) /\ Cardinality(A \cup T) = 2 + Cardinality(T)
  <2>1. IsFiniteSet(A \cup T) /\ Cardinality(A \cup T) = Cardinality(A) + Cardinality(T) - Cardinality(A \cap T)
    BY <1>2, <1>3, FS_Union
  <2>2. Cardinality(A \cap T) = 0
    BY <1>8, FS_EmptySet
  <2>3. Cardinality(T) \in Nat
    BY <1>3, FS_CardinalityType
  <2> QED
    BY <2>1, <2>2, <2>3, <1>2
<1>11. Cardinality((A \cup T) \cup F) = 2 + Cardinality(T) + Cardinality(V)
  <2> DEFINE B == A \cup T
  <2>1. IsFiniteSet(B) /\ B \cap F = {} /\ Cardinality(B) = 2 + Cardinality(T)
    BY <1>9, <1>10
  <2> HIDE DEF B
  <2>2. Cardinality(B \cup F) = Cardinality(B) + Cardinality(F) - Cardinality(B \cap F)
    BY <2>1, <1>7, FS_Union
  <2>3. Cardinality(B \cap F) = 0
    BY <2>1, FS_EmptySet
  <2>4. Cardinality(T) \in Nat /\ Cardinality(V) \in Nat
    BY <1>3, <1>5, FS_CardinalityType
  <2>5. Cardinality(B \cup F) = 2 + Cardinality(T) + Cardinality(V)
    BY <2>1, <2>2, <2>3, <2>4, <1>7
  <2> QED
    BY <2>5 DEF B
<1>12. Private(s) = (A \cup T) \cup F
  BY DEF Private, A, T, F
<1> QED
  BY <1>11, <1>12 DEF T, V

(* The user halves are disjoint (UserHalvesDisjoint): directory, tables,   *)
(* kernel stack and user pages of a process are different frames, which    *)
(* were given to no other process and not to the kernel's tables, whatever *)
(* programs elf_exec loads, also when it maps a page twice or stops in a   *)
(* page fault.  The identity map common to all spaces is not part of it.   *)
THEOREM DisjointCorrect == Spec => []UserHalvesDisjoint
<1>1. IInv => UserHalvesDisjoint
  <2> SUFFICES ASSUME IInv PROVE UserHalvesDisjoint
    OBVIOUS
  <2>1. CASE ~Started
    <3>1. Len(spaces) = 0
      BY <2>1 DEF IInv, TypeInv, Started
    <3>2. DOMAIN spaces = {}
      BY <3>1, CountIs DEF IInv
    <3>3. Spaces = {}
      BY <3>2 DEF Spaces
    <3> QED
      BY <3>3 DEF UserHalvesDisjoint
  <2>2. CASE Started
    <3>1. PICK r \in [Ram -> Roles] :
            StaticRoles(r) /\ Owned(mem, Taken(pmm), r, Dirs) /\ StacksOwned(Taken(pmm), r, spaces)
      BY <2>2 DEF IInv, RoleInv
    <3>2. \A n \in DOMAIN spaces : SpaceRoles(r, spaces[n], n)
      BY <3>1, SpaceRolesHold
    <3>3. \A f \in KernelFrames : r[f] = <<0, 0, 0, 0>>
      BY <3>1, StaticIs DEF StaticRoles, StaticRole
    <3>4. ASSUME NEW s \in Spaces PROVE Private(s) \cap KernelFrames = {}
      <4>1. PICK n \in DOMAIN spaces : s = spaces[n]
        BY <3>4 DEF Spaces
      <4>2. SpaceRoles(r, s, n)
        BY <4>1, <3>2
      <4>3. \A f \in Private(s) : \E c \in 1..4 : \E d, i : r[f] = <<c, n, d, i>>
        BY <4>2, PrivateRole
      <4> SUFFICES ASSUME NEW f \in Private(s), f \in KernelFrames PROVE FALSE
        OBVIOUS
      <4>4. PICK c \in 1..4 : \E d, i : r[f] = <<c, n, d, i>>
        BY <4>3
      <4> QED
        BY <4>4, <3>3
    <3>5. ASSUME NEW s \in Spaces
          PROVE  Cardinality(Private(s)) = 2 + Cardinality(Tables(s)) + Cardinality(PageSet(s))
      <4>1. PICK n \in DOMAIN spaces : s = spaces[n]
        BY <3>5 DEF Spaces
      <4> QED
        BY <4>1, <3>2, PrivateCount
    <3>6. ASSUME NEW s \in Spaces, NEW t \in Spaces, s # t PROVE Private(s) \cap Private(t) = {}
      <4>1. PICK n \in DOMAIN spaces : s = spaces[n]
        BY <3>6 DEF Spaces
      <4>2. PICK k \in DOMAIN spaces : t = spaces[k]
        BY <3>6 DEF Spaces
      <4>3. n # k /\ SpaceRoles(r, s, n) /\ SpaceRoles(r, t, k)
        BY <4>1, <4>2, <3>2, <3>6
      <4> SUFFICES ASSUME NEW f \in Private(s), f \in Private(t) PROVE FALSE
        OBVIOUS
      <4>4. PICK c \in 1..4 : \E d, i : r[f] = <<c, n, d, i>>
        BY <4>3, PrivateRole
      <4>5. PICK b \in 1..4 : \E d, i : r[f] = <<b, k, d, i>>
        BY <4>3, PrivateRole
      <4> QED
        BY <4>3, <4>4, <4>5
    <3> QED
      BY <3>4, <3>5, <3>6 DEF UserHalvesDisjoint
  <2> QED
    BY <2>1, <2>2
<1> QED
  BY <1>1, Invariance, PTL
-----------------------------------------------------------------------------
(* The image of a program.  What the loader needs of a file beyond         *)
(* FilesAssumption, so that ImageLoaded holds: ext2_read_file reads its    *)
(* segments whole (files above 12 KB are the finding of run mem_long),     *)
(* segments in a common page agree on what is there, and the user stack    *)
(* has its page for itself.                                                *)

Segs(f)         == {i \in 1..Len(f.segs) : f.segs[i].load}
SegPages(g)     == (g.vaddr \div N)..((g.vaddr + g.memsz + N - 1) \div N - 1)
InSegment(g, a) == g.vaddr <= a /\ a < g.vaddr + g.memsz

(* The cell at address a, as the pages of segment g of file f have it. *)
Byte(f, g, a) == IF a < g.vaddr + g.filesz THEN f.tag + (g.offset + a - g.vaddr) ELSE 0

Accepted(f) == ReadSize(f) >= EHDR /\ f.magic

Whole(f) == \A i \in Segs(f) : f.segs[i].offset + f.segs[i].filesz <= ReadSize(f)

Agree(f) ==
  \A i, j \in Segs(f) : i < j =>
    \A v \in SegPages(f.segs[j]), o \in Cells :
      InSegment(f.segs[i], N * v + o) => Byte(f, f.segs[i], N * v + o) = Byte(f, f.segs[j], N * v + o)

StackApart(f) == \A i \in Segs(f) : USER_STACK_VIRT \notin SegPages(f.segs[i])

Loadable == \A f \in Files : Accepted(f) => Whole(f) /\ Agree(f) /\ StackApart(f)

(* Page v of segment g of f is mapped through page directory pd and holds  *)
(* the segment's cells.                                                    *)
PageDone(m, pd, f, g, v) ==
  /\ Mapped(m, pd, v \div N, v % N)
  /\ \A o \in Cells : InSegment(g, N * v + o) =>
       m[Target(m, pd, v \div N, v % N)][o] = Byte(f, g, N * v + o)

(* All pages of segment i that come before page b. *)
Filled(m, pd, f, i, b) == \A v \in SegPages(f.segs[i]) : v < b => PageDone(m, pd, f, f.segs[i], v)
FilledAll(m, pd, f, i) == \A v \in SegPages(f.segs[i]) : PageDone(m, pd, f, f.segs[i], v)

SpacesLoaded ==
  \A n \in 1..Len(spaces) : spaces[n].file # NoFile =>
    \A i \in Segs(spaces[n].file) : FilledAll(mem, spaces[n].pd, spaces[n].file, i)

(* elf_buf holds the file, and what comes before segment seg is loaded. *)
LoadingInv ==
  /\ Accepted(file)
  /\ \A o \in 0..(ReadSize(file) - 1) : elf_buf[o] = file.tag + o
  /\ \A i \in Segs(file) : i < seg => FilledAll(mem, pd_phys, file, i)

ImageInv ==
  /\ pc \in {"init_paging", "pmm_init", "A", "B"} => \A n \in 1..Len(spaces) : spaces[n].file = NoFile
  /\ SpacesLoaded
  /\ Building => LoadingInv
  /\ pc = "page" => Filled(mem, pd_phys, file, seg, vaddr \div N)

(* Different pages have different places in the tables. *)
LEMMA PlaceDiffers ==
  ASSUME NEW v \in Nat, NEW w \in Nat, v \div N = w \div N, v % N = w % N
  PROVE  v = w
<1>1. v = N * (v \div N) + (v % N) /\ w = N * (w \div N) + (w % N)
  BY DivMod
<1> QED
  BY <1>1

(* The pages of a segment have places in the user's part. *)
LEMMA SegPagePlace ==
  ASSUME NEW f \in Files, NEW i \in Segs(f), NEW v \in SegPages(f.segs[i])
  PROVE  v \in Nat /\ v \div N \in UserDirs /\ v % N \in Cells
<1> DEFINE g == f.segs[i]
<1>1. SegmentOK(g)
  BY SegmentIs DEF Segs
<1>2. v \div N \in UserDirs
  BY <1>1 DEF SegmentOK, SegPages
<1> HIDE DEF g
<1>3. g.vaddr \in Nat /\ (g.vaddr + g.memsz + N - 1) \div N \in Nat
  BY <1>1, SegmentAddress
<1>4. g.vaddr \div N \in Nat
  BY <1>3, DivMod
<1>5. v \in Nat
  BY <1>3, <1>4 DEF SegPages, g
<1> QED
  BY <1>2, <1>5, DivMod

(* A page that is done stays done when another one is mapped. *)
LEMMA DoneKept ==
  ASSUME NEW m, NEW m2, NEW P, NEW k, NEW e, NEW j, Keeps(m, m2, P, k, e, j),
         NEW n \in DOMAIN P, NEW f, NEW g, NEW v, v \div N \in UserDirs, v % N \in Cells,
         PageDone(m, P[n], f, g, v), <<n, v \div N, v % N>> # <<k, e, j>>
  PROVE  PageDone(m2, P[n], f, g, v)
<1> DEFINE d == v \div N
           i == v % N
<1>1. Mapped(m, P[n], d, i)
  BY DEF PageDone
<1>2. <<n, d, i>> # <<k, e, j>> /\ d \in UserDirs /\ i \in Cells
  OBVIOUS
<1>3. \A o \in Cells : InSegment(g, N * v + o) => m[Target(m, P[n], d, i)][o] = Byte(f, g, N * v + o)
  BY DEF PageDone
<1> HIDE DEF d, i
<1>4. /\ Mapped(m2, P[n], d, i) /\ Target(m2, P[n], d, i) = Target(m, P[n], d, i)
      /\ m2[Target(m, P[n], d, i)] = m[Target(m, P[n], d, i)]
  BY <1>1, <1>2, Zenon DEF Keeps
<1>5. \A o \in Cells : InSegment(g, N * v + o) => m2[Target(m2, P[n], d, i)][o] = Byte(f, g, N * v + o)
  BY <1>3, <1>4
<1> QED
  BY <1>4, <1>5 DEF PageDone, d, i

(* So do the programs loaded before, when the k-th address space is not    *)
(* theirs.                                                                 *)
LEMMA SpacesKept ==
  ASSUME TypeInv, SpacesLoaded, NEW m2, NEW k, NEW e, NEW j, Keeps(mem, m2, Dirs, k, e, j),
         k \notin 1..Len(spaces)
  PROVE  \A n \in 1..Len(spaces) : spaces[n].file # NoFile =>
           \A i \in Segs(spaces[n].file) : FilledAll(m2, spaces[n].pd, spaces[n].file, i)
<1> SUFFICES ASSUME NEW n \in 1..Len(spaces), spaces[n].file # NoFile, NEW i \in Segs(spaces[n].file),
                    NEW v \in SegPages(spaces[n].file.segs[i])
             PROVE  PageDone(m2, spaces[n].pd, spaces[n].file, spaces[n].file.segs[i], v)
  BY DEF FilledAll
<1> DEFINE f == spaces[n].file
           g == f.segs[i]
<1>1. f \in Files
  BY CountIs DEF SpaceRec
<1>2. PageDone(mem, spaces[n].pd, f, g, v)
  BY DEF SpacesLoaded, FilledAll
<1>3. v \in Nat /\ v \div N \in UserDirs /\ v % N \in Cells
  BY <1>1, SegPagePlace
<1>4. n \in DOMAIN Dirs /\ Dirs[n] = spaces[n].pd
  BY CountIs
<1>5. n # k
  OBVIOUS
<1>6. <<n, v \div N, v % N>> # <<k, e, j>>
  BY <1>5
<1>7. PageDone(mem, Dirs[n], f, g, v)
  BY <1>2, <1>4
<1> HIDE DEF f, g
<1>8. PageDone(m2, Dirs[n], f, g, v)
  BY <1>3, <1>4, <1>6, <1>7, DoneKept
<1> QED
  BY <1>8, <1>4 DEF f, g

(* The page that AddPage makes of a page of the current segment. *)
LEMMA PageFilled ==
  ASSUME IInv, ImageInv, Loadable, pc = "page", NEW m2,
         Mapped(m2, pd_phys, (vaddr \div N) \div N, (vaddr \div N) % N),
         m2[Target(m2, pd_phys, (vaddr \div N) \div N, (vaddr \div N) % N)]
           = PageImage(file.segs[seg], vaddr, mem[Frame(pmm)]),
         vaddr < SegmentEnd(file.segs[seg])
  PROVE  /\ vaddr \div N \in SegPages(file.segs[seg])
         /\ PageDone(m2, pd_phys, file, file.segs[seg], vaddr \div N)
         /\ \A i \in Segs(file) : i < seg /\ vaddr \div N \in SegPages(file.segs[i]) =>
              PageDone(m2, pd_phys, file, file.segs[i], vaddr \div N)
<1> USE DEF IInv
<1> DEFINE g   == file.segs[seg]
           v   == vaddr \div N
           img == PageImage(g, vaddr, mem[Frame(pmm)])
           t   == Target(m2, pd_phys, v \div N, v % N)
<1>1. /\ file \in Files /\ seg \in 1..Len(file.segs) /\ seg \in Nat /\ g.load
      /\ vaddr = N * v /\ g.vaddr \div N <= v
  BY FilesAssumption DEF LoadInv, Building
<1>2. SegmentOK(g) /\ seg \in Segs(file)
  BY <1>1, SegmentIs DEF Segs
<1>3. vaddr \in 0..(WORD - 1) /\ vaddr < SegmentEnd(g)
  BY DEF TypeInv
<1>4. /\ Accepted(file) /\ \A o \in 0..(ReadSize(file) - 1) : elf_buf[o] = file.tag + o
  BY DEF ImageInv, Building, LoadingInv
<1>5. Whole(file) /\ Agree(file)
  BY <1>1, <1>4 DEF Loadable
<1>6. g.offset + g.filesz <= ReadSize(file)
  BY <1>2, <1>5 DEF Whole
<1>7. Mapped(m2, pd_phys, v \div N, v % N) /\ m2[t] = img
  OBVIOUS
<1> HIDE DEF g, v
<1>8. \A o \in Cells : img[o] = IF vaddr + o < g.vaddr + g.filesz
                                THEN elf_buf[g.offset + vaddr - g.vaddr + o] ELSE 0
  BY <1>1, <1>2, <1>3, PageImageIs DEF v
<1>9. g.offset + vaddr - g.vaddr >= 0
  BY <1>1, <1>2, <1>3, PageInSegment DEF v
<1>10. /\ g.vaddr \in Nat /\ g.memsz \in Nat /\ g.offset \in Nat /\ g.filesz \in Nat
       /\ SegmentEnd(g) = N * ((g.vaddr + g.memsz + N - 1) \div N)
       /\ (g.vaddr + g.memsz + N - 1) \div N \in Nat
  BY <1>2, SegmentAddress
<1>11. vaddr \in Nat /\ v \in Nat /\ g.vaddr \div N \in Nat
  <2>1. vaddr \in Nat
    BY <1>3, Sizes
  <2> QED
    BY <2>1, <1>10, DivMod DEF v
<1>12. v \in SegPages(g)
  <2> DEFINE h == (g.vaddr + g.memsz + N - 1) \div N
  <2>1. N * v < N * h /\ h \in Nat
    BY <1>1, <1>3, <1>10
  <2> HIDE DEF h
  <2>2. v < h
    BY <2>1, <1>11, PagesOrdered
  <2>3. v \in (g.vaddr \div N)..(h - 1)
    BY <2>1, <2>2, <1>1, <1>11
  <2> QED
    BY <2>3 DEF SegPages, h
<1>13. ReadSize(file) \in Nat
  BY <1>1, MemoryAssumption, FilesAssumption DEF ReadSize
<1> HIDE DEF img, t
<1>14. \A o \in Cells : m2[t][o] = Byte(file, g, N * v + o)
  <2> SUFFICES ASSUME NEW o \in Cells PROVE img[o] = Byte(file, g, N * v + o)
    BY <1>7
  <2>1. o \in Nat /\ N * v + o = vaddr + o
    BY <1>1, Sizes DEF Cells
  <2>2. CASE vaddr + o < g.vaddr + g.filesz
    <3> DEFINE x == g.offset + vaddr - g.vaddr + o
    <3>1. x \in 0..(ReadSize(file) - 1)
      BY <2>1, <2>2, <1>6, <1>9, <1>10, <1>11, <1>13
    <3>2. elf_buf[x] = file.tag + x
      BY <3>1, <1>4
    <3>3. x = g.offset + (vaddr + o) - g.vaddr
      BY <2>1, <1>10, <1>11
    <3>4. img[o] = elf_buf[x]
      BY <1>8, <2>2
    <3> HIDE DEF x
    <3>5. img[o] = file.tag + (g.offset + (vaddr + o) - g.vaddr)
      BY <3>2, <3>3, <3>4
    <3> QED
      BY <3>5, <2>1, <2>2 DEF Byte
  <2>3. CASE ~(vaddr + o < g.vaddr + g.filesz)
    BY <2>1, <2>3, <1>8 DEF Byte
  <2> QED
    BY <2>2, <2>3
<1>15. PageDone(m2, pd_phys, file, g, v)
  BY <1>7, <1>14 DEF PageDone, t
<1>16. ASSUME NEW i \in Segs(file), i < seg
       PROVE  PageDone(m2, pd_phys, file, file.segs[i], v)
  <2>1. \A o \in Cells : InSegment(file.segs[i], N * v + o) =>
          Byte(file, file.segs[i], N * v + o) = Byte(file, g, N * v + o)
    BY <1>2, <1>5, <1>12, <1>16, Zenon DEF Agree, g
  <2>2. \A o \in Cells : InSegment(file.segs[i], N * v + o) =>
          m2[t][o] = Byte(file, file.segs[i], N * v + o)
    BY <2>1, <1>14
  <2> QED
    BY <2>2, <1>7 DEF PageDone, t
<1> QED
  BY <1>12, <1>15, <1>16 DEF g, v

(* A page fault stops the machine with the programs as they are. *)
LEMMA FaultImage ==
  ASSUME ImageInv, PageFault PROVE ImageInv'
<1>1. pc' = "fault" /\ UNCHANGED <<mem, spaces>>
  BY DEF PageFault
<1>2. SpacesLoaded'
  BY <1>1 DEF ImageInv, SpacesLoaded
<1> QED
  BY <1>1, <1>2 DEF ImageInv, Building

(* Before elf_exec there is no program, and a rejected file is none. *)
LEMMA BootImage ==
  ASSUME IInv, ImageInv,
         init_paging \/ InitPmm \/ launch_task("A") \/ launch_task("B") \/ ElfRejected
  PROVE  ImageInv'
<1> USE DEF IInv
<1>1. CASE init_paging
  <2>1. pc = "init_paging" /\ pc' = "pmm_init" /\ spaces' = spaces
    BY <1>1 DEF init_paging
  <2>2. \A n \in 1..Len(spaces') : spaces'[n].file = NoFile
    BY <2>1 DEF ImageInv
  <2> QED
    BY <2>1, <2>2 DEF ImageInv, SpacesLoaded, Building
<1>2. CASE InitPmm
  <2>1. pc = "pmm_init" /\ pc' = "A" /\ spaces' = spaces
    BY <1>2 DEF InitPmm
  <2>2. \A n \in 1..Len(spaces') : spaces'[n].file = NoFile
    BY <2>1 DEF ImageInv
  <2> QED
    BY <2>1, <2>2 DEF ImageInv, SpacesLoaded, Building
<1>3. ASSUME NEW t \in {"A", "B"}, launch_task(t) PROVE ImageInv'
  <2> DEFINE rec == [pd |-> Layout[t].pd, kstack |-> Layout[t].kstack, file |-> NoFile]
  <2>1. pc = t /\ pc' \in {"B", "elf_exec"} /\ spaces' = Append(spaces, rec)
    BY <1>3 DEF launch_task
  <2>2. \A n \in 1..Len(spaces) : spaces[n].file = NoFile
    BY <2>1 DEF ImageInv
  <2>3. spaces \in Seq(SpaceRec)
    BY DEF TypeInv
  <2>4. rec.file = NoFile
    OBVIOUS
  <2> HIDE DEF rec
  <2>5. \A n \in 1..Len(spaces') : spaces'[n].file = NoFile
    BY <2>1, <2>2, <2>3, <2>4
  <2> QED
    BY <2>1, <2>5 DEF ImageInv, SpacesLoaded, Building
<1>4. CASE ElfRejected
  <2>1. pc' = "sched_enter" /\ UNCHANGED <<mem, spaces>>
    BY <1>4 DEF ElfRejected
  <2>2. SpacesLoaded'
    BY <2>1 DEF ImageInv, SpacesLoaded
  <2> QED
    BY <2>1, <2>2 DEF ImageInv, Building
<1> QED
  BY <1>1, <1>2, <1>3, <1>4

(* elf_exec reads the file; nothing of it is loaded yet. *)
LEMMA StartImage ==
  ASSUME IInv, ImageInv, NEW f \in Files, ElfStart(f) PROVE ImageInv'
<1> USE DEF IInv
<1> DEFINE pd == Frame(pmm)
<1>1. pc = "elf_exec" /\ elf_buf' = ReadFile(f) /\ Accepted(f)
  BY DEF ElfStart, Accepted
<1>2. CASE ~Writable({pd})
  BY <1>2, FaultImage DEF ElfStart
<1>3. CASE Writable({pd})
  <2>1. /\ pmm' = pmm_alloc_page(pmm) /\ mem' = [mem EXCEPT ![pd] = mem[KERNEL_PD]]
        /\ pd_phys' = pd /\ file' = f /\ seg' = 1 /\ vaddr' = 0
        /\ pc' = "segment" /\ spaces' = spaces
    BY <1>3 DEF ElfStart
  <2>2. Started
    BY <1>1 DEF Started
  <2>3. Alloc(pmm) /\ Low(pmm)
    BY <1>1, <1>3, <2>2, RoomAlloc DEF PmmInv
  <2>4. FreeFrames(pmm) # {}
    BY <2>3, <1>3, LowAlloc
  <2>5. pd \notin Taken(pmm)
    BY <2>3, <2>4, TakenIs
  <2>6. \A g \in Taken(pmm) : mem'[g] = mem[g]
    <3>1. mem \in Mem
      BY DEF TypeInv
    <3>2. Taken(pmm) \subseteq Ram
      BY DEF Taken
    <3> HIDE DEF pd
    <3> QED
      BY <2>1, <2>5, <3>1, <3>2 DEF Mem
  <2>7. PICK r \in [Ram -> Roles] : Owned(mem, Taken(pmm), r, Dirs)
    BY <2>2 DEF RoleInv
  <2>8. Keeps(mem, mem', Dirs, 0, 0, 0)
    BY <2>6, <2>7, UntouchedKeeps
  <2>9. 0 \notin 1..Len(spaces)
    OBVIOUS
  <2>10. \A n \in 1..Len(spaces) : spaces[n].file # NoFile =>
           \A i \in Segs(spaces[n].file) : FilledAll(mem', spaces[n].pd, spaces[n].file, i)
    BY <2>8, <2>9, SpacesKept DEF ImageInv
  <2>11. SpacesLoaded'
    BY <2>1, <2>10 DEF SpacesLoaded
  <2>12. \A o \in 0..(ReadSize(f) - 1) : elf_buf'[o] = f.tag + o
    <3>1. elf_buf \in [0..(MAX_ELF_SIZE - 1) -> Nat]
      BY DEF TypeInv
    <3>2. ReadSize(f) \in Nat /\ ReadSize(f) <= MAX_ELF_SIZE /\ MAX_ELF_SIZE \in Nat
      <4>1. f.size \in Nat /\ MAX_ELF_SIZE \in Nat /\ DirectBytes \in Nat
        BY MemoryAssumption, FilesAssumption
      <4> QED
        BY <4>1 DEF ReadSize
    <3>3. elf_buf' = [o \in 0..(MAX_ELF_SIZE - 1) |-> IF o < ReadSize(f) THEN f.tag + o ELSE elf_buf[o]]
      BY <1>1, <3>1 DEF ReadFile
    <3> QED
      BY <3>2, <3>3
  <2>13. \A i \in Segs(f) : ~(i < 1)
    BY FilesAssumption DEF Segs
  <2>14. LoadingInv'
    BY <1>1, <2>1, <2>12, <2>13 DEF LoadingInv, Accepted, Segs, ReadSize
  <2> QED
    BY <2>1, <2>11, <2>14 DEF ImageInv
<1> QED
  BY <1>2, <1>3

(* The head of the segment loop: no page of the segment is below its       *)
(* first, and one that is not PT_LOAD has none.                            *)
LEMMA SegmentImage ==
  ASSUME IInv, ImageInv, ElfSegment PROVE ImageInv'
<1> USE DEF IInv
<1>1. pc = "segment" /\ seg <= Len(file.segs) /\ UNCHANGED <<mem, pmm, elf_buf, spaces, file, pd_phys>>
  BY DEF ElfSegment
<1>2. file \in Files /\ seg \in Nat \ {0} /\ Len(file.segs) \in Nat /\ seg \in 1..Len(file.segs)
  BY <1>1, FilesAssumption DEF LoadInv, Building
<1>3. LoadingInv
  BY <1>1 DEF ImageInv, Building
<1>4. SpacesLoaded'
  BY <1>1 DEF ImageInv, SpacesLoaded
<1>5. CASE file.segs[seg].load
  <2> DEFINE g == file.segs[seg]
  <2>1. pc' = "page" /\ vaddr' = PageBase(g.vaddr) /\ seg' = seg
    BY <1>5 DEF ElfSegment
  <2>2. LoadingInv'
    BY <1>1, <1>3, <2>1 DEF LoadingInv
  <2>3. SegmentOK(g)
    BY <1>2, <1>5, SegmentIs
  <2>4. vaddr' \div N = g.vaddr \div N /\ g.vaddr \in Nat /\ (g.vaddr + g.memsz + N - 1) \div N \in Nat
    BY <2>1, <2>3, SegmentAddress
  <2>5. g.vaddr \div N \in Nat
    BY <2>4, DivMod
  <2>6. \A v \in SegPages(g) : ~(v < vaddr' \div N)
    BY <2>4, <2>5 DEF SegPages
  <2>7. \A v \in SegPages(file'.segs[seg']) : v < vaddr' \div N =>
          PageDone(mem', pd_phys', file', file'.segs[seg'], v)
    BY <2>1, <2>6, <1>1
  <2> QED
    BY <2>1, <2>2, <2>7, <1>4 DEF ImageInv, Filled
<1>6. CASE ~file.segs[seg].load
  <2>1. seg' = seg + 1 /\ pc' = "segment"
    BY <1>6, <1>1 DEF ElfSegment
  <2>2. \A i \in Segs(file) : i < seg + 1 => i < seg
    BY <1>2, <1>6 DEF Segs
  <2>3. LoadingInv'
    BY <1>1, <1>3, <2>1, <2>2 DEF LoadingInv
  <2> QED
    BY <2>1, <2>3, <1>4 DEF ImageInv
<1> QED
  BY <1>5, <1>6

(* A page of the current segment, or its end: no page that was done is     *)
(* touched, and a page that an earlier segment had is replaced by one that *)
(* agrees with it.                                                         *)
LEMMA PageStepImage ==
  ASSUME IInv, ImageInv, Loadable, ElfPage PROVE ImageInv'
<1> USE DEF IInv
<1> DEFINE g == file.segs[seg]
           virt == vaddr \div N
           img == PageImage(g, vaddr, mem[Frame(pmm)])
           R == AddPage(virt, img)
<1>1. pc = "page" /\ elf_buf' = elf_buf
  BY DEF ElfPage
<1>2. Started /\ Building
  BY <1>1 DEF Started, Building
<1>3. /\ file \in Files /\ seg \in Nat \ {0} /\ Len(file.segs) \in Nat
      /\ seg <= Len(file.segs) /\ g.load /\ vaddr = N * virt /\ g.vaddr \div N <= virt
      /\ seg \in Segs(file)
  BY <1>1, <1>2, FilesAssumption DEF LoadInv, Segs
<1>4. SegmentOK(g)
  BY <1>3, SegmentIs DEF Segs
<1>5. vaddr \in 0..(WORD - 1) /\ vaddr \in Nat /\ SegmentEnd(g) \in Nat
  BY <1>4, SegmentAddress, Sizes DEF TypeInv
<1>6. LoadingInv /\ Filled(mem, pd_phys, file, seg, virt) /\ SpacesLoaded
  BY <1>1, <1>2 DEF ImageInv
<1>7. CASE vaddr >= SegmentEnd(g)
  <2>1. pc' = "segment" /\ seg' = seg + 1 /\ UNCHANGED <<mem, pmm, spaces, file, vaddr, pd_phys>>
    BY <1>7 DEF ElfPage
  <2>2. FilledAll(mem, pd_phys, file, seg)
    <3> DEFINE h == (g.vaddr + g.memsz + N - 1) \div N
    <3>1. SegmentEnd(g) = N * h /\ h \in Nat /\ g.vaddr \in Nat
      BY <1>4, SegmentAddress
    <3>2. virt \in Nat /\ g.vaddr \div N \in Nat
      BY <1>5, <3>1, DivMod
    <3>3. SegPages(g) = (g.vaddr \div N)..(h - 1)
      BY DEF SegPages
    <3>4. N * virt >= N * h
      BY <1>3, <1>7, <3>1
    <3> HIDE DEF h, virt
    <3>5. virt >= h
      <4> SUFFICES ASSUME virt < h PROVE FALSE
        BY <3>1, <3>2
      <4>1. N * virt + N <= N * h /\ N * virt \in Nat /\ N * h \in Nat
        BY <3>1, <3>2, PagesOrdered
      <4> QED
        BY <4>1, <3>4, Sizes
    <3>6. \A v \in SegPages(g) : v < virt
      BY <3>1, <3>2, <3>3, <3>5
    <3> QED
      BY <3>6, <1>6 DEF Filled, FilledAll
  <2>3. \A i \in Segs(file) : i < seg + 1 => i < seg \/ i = seg
    BY <1>3 DEF Segs
  <2>4. LoadingInv'
    BY <1>1, <1>6, <2>1, <2>2, <2>3 DEF LoadingInv
  <2>5. SpacesLoaded'
    BY <1>6, <2>1 DEF SpacesLoaded
  <2> QED
    BY <2>1, <2>4, <2>5 DEF ImageInv
<1>8. CASE ~(vaddr >= SegmentEnd(g)) /\ ~CanAddPage(virt)
  <2>1. PageFault
    BY <1>8, Zenon DEF ElfPage
  <2> QED
    BY <2>1, FaultImage
<1>9. CASE ~(vaddr >= SegmentEnd(g)) /\ CanAddPage(virt)
  <2>1. /\ mem' = R.mem /\ pmm' = R.pmm /\ vaddr' = (vaddr + N) % WORD
        /\ UNCHANGED <<pc, spaces, file, seg, pd_phys>>
    BY <1>9, Zenon DEF ElfPage
  <2>2. vaddr < SegmentEnd(g)
    BY <1>5, <1>9
  <2>3. /\ virt \in Nat /\ virt \div N \in UserDirs
        /\ vaddr + N < WORD /\ (vaddr + N) \div N = virt + 1
    BY <1>3, <1>4, <1>5, <2>2, PageInSegment
  <2>4. img \in Pages
    BY <1>3, <1>4, <1>5, <2>2, PageImageIs
  <2>5. vaddr' \div N = virt + 1
    <3>1. vaddr + N \in 0..(WORD - 1)
      BY <1>5, <2>3, Sizes
    <3>2. vaddr' = vaddr + N
      BY <3>1, <2>1, Sizes
    <3> QED
      BY <3>2, <2>3
  <2> HIDE DEF g, virt, img, R
  <2>6. R = AddPage(virt, img)
    BY DEF R
  <2>7. PICK r \in [Ram -> Roles] :
          PageAdded(mem, R.mem, pmm, R.pmm, r, Dirs, Count, virt, img)
    BY <1>2, <1>9, <2>3, <2>4, <2>6, AddPageOwned
  <2> DEFINE k == Count
             d == virt \div N
             j == virt % N
             m2 == mem'
  <2>8. PageAdded(mem, m2, pmm, pmm', r, Dirs, k, virt, img)
    BY <2>1, <2>7
  <2>9. /\ Mapped(m2, Dirs[k], d, j) /\ m2[Target(m2, Dirs[k], d, j)] = img
        /\ Keeps(mem, m2, Dirs, k, d, j)
    BY <2>8, Zenon DEF PageAdded
  <2>10. k \in DOMAIN Dirs /\ Dirs[k] = pd_phys /\ k \notin 1..Len(spaces)
    BY <1>2, CountIs
  <2> HIDE DEF k
  <2>11. /\ virt \in SegPages(g) /\ PageDone(m2, pd_phys, file, g, virt)
         /\ \A i \in Segs(file) : i < seg /\ virt \in SegPages(file.segs[i]) =>
              PageDone(m2, pd_phys, file, file.segs[i], virt)
    <3>1. Mapped(m2, pd_phys, d, j) /\ m2[Target(m2, pd_phys, d, j)] = img
      BY <2>9, <2>10
    <3> QED
      BY <1>1, <2>2, <3>1, PageFilled DEF g, virt, img
  <2>12. ASSUME NEW i \in Segs(file), NEW v \in SegPages(file.segs[i]), v # virt,
                PageDone(mem, pd_phys, file, file.segs[i], v)
         PROVE  PageDone(m2, pd_phys, file, file.segs[i], v)
    <3>1. v \in Nat /\ v \div N \in UserDirs /\ v % N \in Cells
      BY <1>3, SegPagePlace
    <3>2. ~(v \div N = d /\ v % N = j)
      BY <3>1, <2>3, <2>12, PlaceDiffers
    <3>3. <<k, v \div N, v % N>> # <<k, d, j>>
      BY <3>2
    <3>4. PageDone(mem, Dirs[k], file, file.segs[i], v)
      BY <2>10, <2>12
    <3> HIDE DEF m2, d, j
    <3>5. PageDone(m2, Dirs[k], file, file.segs[i], v)
      BY <2>9, <2>10, <3>1, <3>3, <3>4, DoneKept
    <3> QED
      BY <3>5, <2>10
  <2>13. \A i \in Segs(file) : i < seg => FilledAll(m2, pd_phys, file, i)
    <3> SUFFICES ASSUME NEW i \in Segs(file), i < seg, NEW v \in SegPages(file.segs[i])
                 PROVE  PageDone(m2, pd_phys, file, file.segs[i], v)
      BY DEF FilledAll
    <3>1. PageDone(mem, pd_phys, file, file.segs[i], v)
      BY <1>6 DEF LoadingInv, FilledAll
    <3> QED
      BY <3>1, <2>11, <2>12
  <2>14. Filled(m2, pd_phys, file, seg, virt + 1)
    <3> SUFFICES ASSUME NEW v \in SegPages(file.segs[seg]), v < virt + 1
                 PROVE  PageDone(m2, pd_phys, file, file.segs[seg], v)
      BY DEF Filled
    <3>1. v \in Nat
      BY <1>3, SegPagePlace
    <3>2. CASE v = virt
      BY <3>2, <2>11 DEF g
    <3>3. CASE v < virt
      <4>1. PageDone(mem, pd_phys, file, file.segs[seg], v)
        BY <3>3, <1>6 DEF Filled
      <4>2. v # virt
        BY <3>3, <3>1, <2>3
      <4> QED
        BY <4>1, <4>2, <1>3, <2>12
    <3> QED
      BY <3>1, <3>2, <3>3, <2>3
  <2>15. \A n \in 1..Len(spaces) : spaces[n].file # NoFile =>
           \A i \in Segs(spaces[n].file) : FilledAll(m2, spaces[n].pd, spaces[n].file, i)
    <3> HIDE DEF m2, d, j
    <3> QED
      BY <1>6, <2>9, <2>10, SpacesKept
  <2>16. SpacesLoaded'
    BY <2>1, <2>15 DEF SpacesLoaded
  <2>17. LoadingInv'
    BY <1>1, <1>6, <2>1, <2>13 DEF LoadingInv
  <2>18. Filled(mem', pd_phys', file', seg', vaddr' \div N)
    BY <2>1, <2>5, <2>14
  <2> QED
    BY <1>1, <2>1, <2>16, <2>17, <2>18 DEF ImageInv
<1> QED
  BY <1>7, <1>8, <1>9

(* elf_exec registers the process with all its segments loaded. *)
LEMMA FinishImage ==
  ASSUME IInv, ImageInv, Loadable, ElfFinish PROVE ImageInv'
<1> USE DEF IInv
<1> DEFINE virt == USER_STACK_VIRT
           R == AddPage(virt, Zero)
<1>1. pc = "segment" /\ seg > Len(file.segs)
  BY Zenon DEF ElfFinish
<1>2. Started /\ Building
  BY <1>1 DEF Started, Building
<1>3. file \in Files /\ seg \in Nat /\ Len(file.segs) \in Nat
  BY <1>2, FilesAssumption DEF LoadInv
<1>4. LoadingInv /\ SpacesLoaded
  BY <1>2 DEF ImageInv
<1>5. CASE ~CanAddPage(virt)
  <2>1. PageFault
    BY <1>5, Zenon DEF ElfFinish
  <2> QED
    BY <2>1, FaultImage
<1>6. CASE CanAddPage(virt)
  <2> DEFINE ks == Frame(R.pmm)
             rec == [pd |-> pd_phys, kstack |-> ks, file |-> file]
             k == Count
             d == virt \div N
             j == virt % N
             m2 == mem'
  <2>1. mem' = R.mem /\ spaces' = Append(spaces, rec) /\ pc' = "elf_exec"
    BY <1>6, Zenon DEF ElfFinish, load
  <2>2. Zero \in Pages
    BY DEF Zero, Pages
  <2>3. virt \in Nat /\ virt \div N \in UserDirs
    BY MemoryAssumption
  <2>4. StackApart(file)
    BY <1>3, <1>4 DEF Loadable, LoadingInv
  <2>5. \A i \in Segs(file) : virt \notin SegPages(file.segs[i])
    BY <2>4 DEF StackApart
  <2>6. spaces \in Seq(SpaceRec)
    BY DEF TypeInv
  <2> HIDE DEF R, virt
  <2>7. R = AddPage(virt, Zero)
    BY DEF R
  <2>8. PICK r \in [Ram -> Roles] : PageAdded(mem, R.mem, pmm, R.pmm, r, Dirs, k, virt, Zero)
    BY <1>2, <1>6, <2>2, <2>3, <2>7, AddPageOwned
  <2>9. Keeps(mem, R.mem, Dirs, k, d, j)
    BY <2>8, Zenon DEF PageAdded
  <2>10. Keeps(mem, m2, Dirs, k, d, j)
    BY <2>1, <2>9
  <2>11. k \in DOMAIN Dirs /\ Dirs[k] = pd_phys /\ k = Len(spaces) + 1 /\ Len(spaces) \in Nat
    BY <1>2, CountIs
  <2>12. k \notin 1..Len(spaces)
    BY <2>11
  <2>13. rec.pd = pd_phys /\ rec.file = file
    OBVIOUS
  <2> HIDE DEF k, m2, d, j, rec
  <2>14. \A i \in Segs(file) : FilledAll(m2, pd_phys, file, i)
    <3> SUFFICES ASSUME NEW i \in Segs(file), NEW v \in SegPages(file.segs[i])
                 PROVE  PageDone(m2, pd_phys, file, file.segs[i], v)
      BY DEF FilledAll
    <3>1. i < seg
      BY <1>1, <1>3 DEF Segs
    <3>2. PageDone(mem, Dirs[k], file, file.segs[i], v)
      BY <3>1, <1>4, <2>11 DEF LoadingInv, FilledAll
    <3>3. v \in Nat /\ v \div N \in UserDirs /\ v % N \in Cells
      BY <1>3, SegPagePlace
    <3>4. v # virt
      BY <2>5
    <3>5. ~(v \div N = d /\ v % N = j)
      BY <3>3, <3>4, <2>3, PlaceDiffers DEF d, j
    <3>6. <<k, v \div N, v % N>> # <<k, d, j>>
      BY <3>5
    <3>7. PageDone(m2, Dirs[k], file, file.segs[i], v)
      BY <2>10, <2>11, <3>2, <3>3, <3>6, DoneKept
    <3> QED
      BY <3>7, <2>11
  <2>15. \A n \in 1..Len(spaces) : spaces[n].file # NoFile =>
           \A i \in Segs(spaces[n].file) : FilledAll(m2, spaces[n].pd, spaces[n].file, i)
    BY <1>4, <2>10, <2>12, SpacesKept
  <2>16. \A n \in 1..Len(spaces') : (n \in 1..Len(spaces) /\ spaces'[n] = spaces[n]) \/ spaces'[n] = rec
    BY <2>1, <2>6
  <2>17. SpacesLoaded'
    <3> SUFFICES ASSUME NEW n \in 1..Len(spaces'), spaces'[n].file # NoFile, NEW i \in Segs(spaces'[n].file)
                 PROVE  FilledAll(m2, spaces'[n].pd, spaces'[n].file, i)
      BY DEF SpacesLoaded, m2
    <3> QED
      BY <2>13, <2>14, <2>15, <2>16
  <2> QED
    BY <2>1, <2>17 DEF ImageInv, Building
<1> QED
  BY <1>5, <1>6

(* Every step keeps the images, when the programs are loadable. *)
LEMMA ImageStep == Loadable /\ IInv /\ ImageInv /\ [Next]_vars => ImageInv'
<1> SUFFICES ASSUME Loadable, IInv, ImageInv, [Next]_vars PROVE ImageInv'
  OBVIOUS
<1>1. CASE UNCHANGED vars
  <2>1. UNCHANGED <<pc, mem, pmm, elf_buf, spaces, file, seg, vaddr, pd_phys>>
    BY <1>1 DEF vars, load
  <2>2. SpacesLoaded' /\ (LoadingInv => LoadingInv')
    BY <2>1 DEF ImageInv, SpacesLoaded, LoadingInv
  <2> QED
    BY <2>1, <2>2 DEF ImageInv, Building
<1>2. CASE \E f \in Files : ElfStart(f)
  BY <1>2, StartImage
<1> QED
  BY <1>1, <1>2, BootImage, SegmentImage, PageStepImage, FinishImage DEF Next

(* An address x + b of an area of z cells at x is in one of its pages. *)
LEMMA AddressPage ==
  ASSUME NEW x \in Nat, NEW z \in Nat, NEW b \in 0..(z - 1)
  PROVE  (x + b) \div N \in (x \div N)..((x + z + N - 1) \div N - 1)
<1> DEFINE a == x + b
           e == x + z + N - 1
           v == a \div N
           h == e \div N
           w == x \div N
           ra == a % N
           re == e % N
           rx == x % N
<1>1. a \in Nat /\ e \in Nat /\ x <= a /\ a + N <= e /\ N \in Nat
  BY Sizes
<1> HIDE DEF a, e
<1>2. v \in Nat /\ ra \in 0..(N - 1) /\ a = N * v + ra
  BY <1>1, DivMod DEF Cells
<1>3. h \in Nat /\ re \in 0..(N - 1) /\ e = N * h + re
  BY <1>1, DivMod DEF Cells
<1>4. w \in Nat /\ rx \in 0..(N - 1) /\ x = N * w + rx
  BY DivMod DEF Cells
<1> HIDE DEF v, h, w, ra, re, rx
<1>5. v < h
  <2> SUFFICES ASSUME h <= v PROVE FALSE
    BY <1>2, <1>3
  <2>1. N * h <= N * v /\ N * h \in Nat /\ N * v \in Nat
    BY <1>2, <1>3, PagesOrdered
  <2> QED
    BY <2>1, <1>1, <1>2, <1>3
<1>6. w <= v
  <2> SUFFICES ASSUME v < w PROVE FALSE
    BY <1>2, <1>4
  <2>1. N * v + N <= N * w /\ N * v \in Nat /\ N * w \in Nat
    BY <1>2, <1>4, PagesOrdered
  <2> QED
    BY <2>1, <1>1, <1>2, <1>4
<1>7. v \in w..(h - 1)
  BY <1>2, <1>3, <1>4, <1>5, <1>6
<1> QED
  BY <1>7 DEF v, w, h, a, e

(* A page with a directory entry for the user is one of N * N. *)
LEMMA PageNumber ==
  ASSUME NEW v \in Nat, v \div N \in UserDirs
  PROVE  v \in 0..(N * N - 1)
<1> DEFINE x == v \div N
           q == v % N
<1>1. x \in Nat /\ x < N /\ N \in Nat
  BY DivMod, Sizes DEF UserDirs, Cells
<1>2. v = N * x + q /\ q \in 0..(N - 1)
  BY DivMod DEF Cells
<1> HIDE DEF x, q
<1>3. N * x + N <= N * N /\ N * x \in Nat /\ N * N \in Nat
  BY <1>1, PagesOrdered
<1> QED
  BY <1>1, <1>2, <1>3

(* Byte counts from the start of the segment. *)
LEMMA ByteIs ==
  ASSUME NEW f, NEW g, NEW b \in Nat, f.tag \in Nat, g.vaddr \in Nat, g.offset \in Nat, g.filesz \in Nat
  PROVE  Byte(f, g, g.vaddr + b) = IF b < g.filesz THEN f.tag + g.offset + b ELSE 0
<1>1. g.offset + (g.vaddr + b) - g.vaddr = g.offset + b
  OBVIOUS
<1>2. g.vaddr + b < g.vaddr + g.filesz <=> b < g.filesz
  OBVIOUS
<1>3. f.tag + (g.offset + b) = f.tag + g.offset + b
  OBVIOUS
<1> QED
  BY <1>1, <1>2, <1>3 DEF Byte

(* Every program is loaded as elf.h says (ImageLoaded): each PT_LOAD       *)
(* segment is at its p_vaddr, its bytes first and zeros up to p_memsz,     *)
(* and stays so while further programs are loaded or the loader faults,    *)
(* for all programs that are Loadable.                                     *)
THEOREM ImageCorrect == ASSUME Loadable PROVE Spec => []ImageLoaded
<1>1. Init => ImageInv
  <2> SUFFICES ASSUME Init PROVE ImageInv
    OBVIOUS
  <2>1. pc = "init_paging" /\ spaces = <<>>
    BY DEF Init
  <2>2. \A n \in 1..Len(spaces) : FALSE
    BY <2>1
  <2> QED
    BY <2>1, <2>2 DEF ImageInv, SpacesLoaded, Building
<1>2. IInv /\ ImageInv => ImageLoaded
  <2> SUFFICES ASSUME IInv, ImageInv, NEW s \in Spaces, s.file # NoFile, NEW i \in Segments(s),
                      NEW b \in 0..(s.file.segs[i].memsz - 1)
               PROVE  LET g == s.file.segs[i]
                          a == g.vaddr + b IN
                      /\ a \div N \in PageSet(s)
                      /\ mem[PageFrame(s, a \div N)][a % N] =
                           IF b < g.filesz THEN s.file.tag + g.offset + b ELSE 0
    BY DEF ImageLoaded
  <2> DEFINE f == s.file
             g == f.segs[i]
             a == g.vaddr + b
             v == a \div N
             o == a % N
  <2>1. PICK n \in 1..Len(spaces) : s = spaces[n]
    BY CountIs DEF Spaces, IInv
  <2>2. f \in Files
    BY <2>1, CountIs DEF IInv, SpaceRec
  <2>3. i \in Segs(f)
    BY <2>2, FilesAssumption DEF Segments, Segs
  <2>4. FilledAll(mem, s.pd, f, i)
    BY <2>1, <2>3 DEF ImageInv, SpacesLoaded
  <2>5. SegmentOK(g)
    BY <2>2, <2>3, SegmentIs DEF Segs
  <2>6. f.tag \in Nat
    BY <2>2, FilesAssumption
  <2>7. b \in 0..(g.memsz - 1)
    OBVIOUS
  <2> HIDE DEF g
  <2>8. g.vaddr \in Nat /\ g.memsz \in Nat /\ g.offset \in Nat /\ g.filesz \in Nat
    BY <2>5, SegmentAddress
  <2>9. a \in Nat /\ b \in Nat
    BY <2>7, <2>8
  <2>10. v \in Nat /\ o \in Cells /\ a = N * v + o
    BY <2>9, DivMod
  <2>11. InSegment(g, a)
    BY <2>7, <2>8 DEF InSegment
  <2>12. v \in SegPages(g)
    BY <2>7, <2>8, AddressPage DEF SegPages
  <2>13. PageDone(mem, s.pd, f, g, v)
    BY <2>4, <2>12 DEF FilledAll, g
  <2>14. v \div N \in UserDirs /\ v % N \in Cells
    BY <2>2, <2>3, <2>12, SegPagePlace DEF g
  <2>15. v \in 0..(N * N - 1)
    BY <2>10, <2>14, PageNumber
  <2> HIDE DEF v, o
  <2>16. v \in PageSet(s) /\ PageFrame(s, v) = Target(mem, s.pd, v \div N, v % N)
    BY <2>13, <2>14, <2>15 DEF PageSet, PageFrame, PageDone, Mapped, Target
  <2>17. mem[PageFrame(s, v)][o] = Byte(f, g, a)
    BY <2>10, <2>11, <2>13, <2>16 DEF PageDone
  <2>18. Byte(f, g, a) = IF b < g.filesz THEN f.tag + g.offset + b ELSE 0
    BY <2>6, <2>8, <2>9, ByteIs
  <2> QED
    BY <2>16, <2>17, <2>18 DEF g, v, o
<1>3. IInv /\ ImageInv /\ [Next]_vars => ImageInv'
  BY ImageStep
<1> QED
  BY <1>1, <1>2, <1>3, Invariance, PTL DEF Spec
=============================================================================
