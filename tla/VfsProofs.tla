------------------------------ MODULE VfsProofs ------------------------------
(***************************************************************************)
(* Open files, for any number of tasks, nodes and descriptors and any disk *)
(* images: the node pool and the descriptor tables stay in step, the two   *)
(* directory loops agree, and what a descriptor returns is its file.  The  *)
(* loops of ext2.c are recursive functions of Ext2; the lemmas of the      *)
(* first half say what they compute, by induction on their rounds.         *)
(***************************************************************************)
EXTENDS Vfs, SequenceTheorems, WellFoundedInduction, TLAPS

-----------------------------------------------------------------------------
(* Induction.  The least-number principle is an instance of WFMin: it      *)
(* speaks of sets, which the provers can be given.                         *)

(* A set of numbers with 0 and every successor holds all of them. *)
LEMMA Induction ==
  ASSUME NEW S, 0 \in S, \A n \in Nat : n \in S => n + 1 \in S
  PROVE  \A n \in Nat : n \in S
<1> SUFFICES ASSUME Nat \ S # {} PROVE FALSE
  OBVIOUS
<1>1. PICK m \in Nat \ S : \A y \in Nat \ S : ~(<<y, m>> \in OpToRel(<, Nat))
  BY NatLessThanWellFounded, WFMin
<1>2. \A x, y \in Nat : x < y => <<x, y>> \in OpToRel(<, Nat)
  BY DEF OpToRel
<1>3. \A y \in Nat \ S : ~(y < m)
  BY <1>1, <1>2
<1>4. m - 1 \in Nat /\ m - 1 \in S
  BY <1>3
<1> QED
  BY <1>4

(* The loop of n rounds that starts with v and whose round k does G[k] has *)
(* a history of values in V.                                               *)
HasHistory(V, v, n, G) ==
  \E g \in [0..n -> V] : g[0] = v /\ \A k \in 1..n : g[k] = G[k][g[k - 1]]

(* Every such loop has one. *)
LEMMA Iteration ==
  ASSUME NEW V, NEW v \in V, NEW n \in Nat, NEW G \in [1..n -> [V -> V]]
  PROVE  HasHistory(V, v, n, G)
<1> DEFINE Q(m) == \E g \in [0..m -> V] : g[0] = v /\ \A k \in 1..m : g[k] = G[k][g[k - 1]]
           S    == {m \in Nat : m <= n => Q(m)}
<1>1. 0 \in S
  <2> DEFINE g == [k \in 0..0 |-> v]
  <2>1. g \in [0..0 -> V] /\ g[0] = v
    OBVIOUS
  <2>2. \A k \in 1..0 : g[k] = G[k][g[k - 1]]
    OBVIOUS
  <2> QED
    BY <2>1, <2>2
<1>2. ASSUME NEW m \in Nat, m \in S PROVE m + 1 \in S
  <2> SUFFICES ASSUME m + 1 <= n PROVE Q(m + 1)
    OBVIOUS
  <2>1. PICK g \in [0..m -> V] : g[0] = v /\ \A k \in 1..m : g[k] = G[k][g[k - 1]]
    BY <1>2
  <2> DEFINE w == G[m + 1][g[m]]
             h == [k \in 0..(m + 1) |-> IF k = m + 1 THEN w ELSE g[k]]
  <2>2. w \in V
    BY <2>1
  <2>3. h \in [0..(m + 1) -> V] /\ h[0] = v
    BY <2>1, <2>2
  <2>4. ASSUME NEW k \in 1..(m + 1) PROVE h[k] = G[k][h[k - 1]]
    <3>1. CASE k = m + 1
      BY <3>1
    <3>2. CASE k # m + 1
      BY <2>1, <3>2
    <3> QED
      BY <3>1, <3>2
  <2> QED
    BY <2>3, <2>4
<1> HIDE DEF S
<1>3. \A m \in Nat : m \in S
  BY <1>1, <1>2, Induction
<1>4. n \in S
  BY <1>3
<1> QED
  BY <1>4 DEF S, HasHistory

-----------------------------------------------------------------------------
(* The directory. *)

(* The loops get past entry k. *)
Passes(i, k) == InDirectory(i, EntryOffsets(i.dirent)[k]) /\ i.dirent[k].rec_len # 0

Matches(i, name, k) == i.dirent[k].inode # 0 /\ i.dirent[k].name = name

(* The scan of ext2_find, as its definition says. *)
LEMMA ScanIs ==
  ASSUME NEW i \in Images, NEW name
  PROVE  LET de == i.dirent
             f  == Scan(i, name) IN
         /\ f[Len(de) + 1] = 0
         /\ \A k \in 1..Len(de) :
              f[k] = IF ~Passes(i, k) THEN 0
                     ELSE IF Matches(i, name, k) THEN de[k].inode ELSE f[k + 1]
<1> DEFINE de == i.dirent
           n  == Len(de)
           F(k, next) == IF ~Passes(i, k) THEN 0
                         ELSE IF Matches(i, name, k) THEN de[k].inode ELSE next
           D(f) == [k \in 1..(n + 1) |->
                     IF k > n \/ ~InDirectory(i, EntryOffsets(de)[k]) THEN 0
                     ELSE IF de[k].rec_len = 0 THEN 0
                     ELSE IF de[k].inode # 0 /\ de[k].name = name THEN de[k].inode
                     ELSE f[k + 1]]
<1>1. n \in Nat /\ \A k \in 1..n : de[k].inode \in Nat
  BY ImagesAssumption
<1> DEFINE G == [j \in 1..n |-> [v \in Nat |-> F(n + 1 - j, v)]]
<1>2. G \in [1..n -> [Nat -> Nat]]
  <2>1. ASSUME NEW k \in 1..n, NEW v \in Nat PROVE F(k, v) \in Nat
    BY <1>1
  <2> HIDE DEF F
  <2>2. ASSUME NEW j \in 1..n PROVE [v \in Nat |-> F(n + 1 - j, v)] \in [Nat -> Nat]
    <3>1. n + 1 - j \in 1..n
      BY <1>1
    <3> QED
      BY <2>1, <3>1
  <2> QED
    BY <2>2
<1> HIDE DEF G
<1>3. PICK h \in [0..n -> Nat] : h[0] = 0 /\ \A j \in 1..n : h[j] = G[j][h[j - 1]]
  <2>1. HasHistory(Nat, 0, n, G)
    BY <1>1, <1>2, Iteration
  <2> QED
    BY <2>1 DEF HasHistory
<1> DEFINE g == [k \in 1..(n + 1) |-> h[n + 1 - k]]
<1> HIDE DEF n, F
<1>4. g = D(g)
  <2>1. ASSUME NEW k \in 1..(n + 1) PROVE g[k] = D(g)[k]
    <3>1. CASE k = n + 1
      <4>1. n + 1 - k = 0 /\ k > n
        BY <1>1, <3>1
      <4> QED
        BY <1>3, <4>1
    <3>2. CASE k # n + 1
      <4>1. k \in 1..n /\ n + 1 - k \in 1..n /\ (n + 1 - k) - 1 = n + 1 - (k + 1)
            /\ k + 1 \in 1..(n + 1) /\ ~(k > n) /\ n + 1 - (n + 1 - k) = k
            /\ (n + 1 - k) - 1 \in 0..n
        BY <1>1, <3>2
      <4>2. g[k] = G[n + 1 - k][g[k + 1]] /\ g[k + 1] \in Nat
        BY <1>3, <4>1
      <4>3. G[n + 1 - k][g[k + 1]] = F(k, g[k + 1])
        BY <4>1, <4>2 DEF G
      <4>4. F(k, g[k + 1]) = D(g)[k]
        BY <4>1 DEF F, Passes, Matches
      <4> QED
        BY <4>2, <4>3, <4>4
    <3> QED
      BY <3>1, <3>2
  <2> QED
    BY <2>1
<1> HIDE DEF g
<1>5. Scan(i, name) = D(Scan(i, name))
  BY <1>4, Zenon DEF Scan, n, de
<1>6. /\ n + 1 \in 1..(n + 1) /\ n + 1 > n
      /\ \A k \in 1..n : k \in 1..(n + 1) /\ ~(k > n)
  BY <1>1
<1>7. Scan(i, name)[n + 1] = 0
  BY <1>5, <1>6
<1>8. ASSUME NEW k \in 1..n PROVE Scan(i, name)[k] = F(k, Scan(i, name)[k + 1])
  BY <1>5, <1>6 DEF F, Passes, Matches
<1> QED
  BY <1>7, <1>8 DEF n, F

(* ext2_find returns the inode of an entry that the loop reaches and that  *)
(* has the name, if there is one.                                          *)
LEMMA FindIs ==
  ASSUME NEW i \in Images, NEW name
  PROVE  LET f == ext2_find(i, name)
             reached(k) == (\A j \in 1..k : Passes(i, j)) /\ Matches(i, name, k) IN
         /\ f # 0 => \E k \in 1..Len(i.dirent) : reached(k) /\ f = i.dirent[k].inode
         /\ (\E k \in 1..Len(i.dirent) : reached(k)) => f # 0
<1> DEFINE f == Scan(i, name)
           n == Len(i.dirent)
           Hit(k, m) == (\A j \in k..m : Passes(i, j)) /\ Matches(i, name, m)
           P(k) == /\ f[k] # 0 => \E m \in k..n : Hit(k, m) /\ f[k] = i.dirent[m].inode
                   /\ (\E m \in k..n : Hit(k, m)) => f[k] # 0
           S == {d \in Nat : d <= n => P(n + 1 - d)}
<1>1. n \in Nat
  BY ImagesAssumption
<1>2. /\ f[n + 1] = 0
      /\ \A k \in 1..n : f[k] = IF ~Passes(i, k) THEN 0
                                ELSE IF Matches(i, name, k) THEN i.dirent[k].inode ELSE f[k + 1]
  BY ScanIs
<1> HIDE DEF f, n
<1>3. 0 \in S
  <2>1. n + 1 - 0 = n + 1 /\ (n + 1)..n = {}
    BY <1>1
  <2> QED
    BY <1>2, <2>1
<1>4. ASSUME NEW d \in Nat, d \in S PROVE d + 1 \in S
  <2> SUFFICES ASSUME d + 1 <= n PROVE P(n + 1 - (d + 1))
    OBVIOUS
  <2> DEFINE k == n + 1 - (d + 1)
  <2>1. k \in 1..n /\ k + 1 = n + 1 - d /\ d <= n
    BY <1>1
  <2> HIDE DEF k
  <2>2. P(k + 1)
    BY <1>4, <2>1
  <2>3. f[k] = IF ~Passes(i, k) THEN 0
               ELSE IF Matches(i, name, k) THEN i.dirent[k].inode ELSE f[k + 1]
    BY <1>2, <2>1
  <2>4. \A m \in k..n : m = k \/ m \in (k + 1)..n
    BY <1>1, <2>1
  <2>5. /\ \A m \in (k + 1)..n : m \in k..n /\ m # k
        /\ \A m \in (k + 1)..n : \A j \in k..m : j = k \/ j \in (k + 1)..m
        /\ \A m \in (k + 1)..n : \A j \in (k + 1)..m : j \in k..m
        /\ \A m \in k..n : k \in k..m
        /\ \A j \in k..k : j = k
        /\ k \in k..n
    BY <1>1, <2>1
  <2>6. CASE ~Passes(i, k)
    <3>1. f[k] = 0
      BY <2>3, <2>6
    <3>2. \A m \in k..n : ~Hit(k, m)
      BY <2>5, <2>6
    <3> QED
      BY <3>1, <3>2 DEF k
  <2>7. CASE Passes(i, k) /\ Matches(i, name, k)
    <3>1. f[k] = i.dirent[k].inode /\ f[k] # 0
      BY <2>3, <2>7 DEF Matches
    <3>2. Hit(k, k)
      BY <2>5, <2>7
    <3> QED
      BY <2>5, <3>1, <3>2 DEF k
  <2>8. CASE Passes(i, k) /\ ~Matches(i, name, k)
    <3>1. f[k] = f[k + 1]
      BY <2>3, <2>8
    <3>2. \A m \in (k + 1)..n : Hit(k, m) <=> Hit(k + 1, m)
      BY <2>5, <2>8
    <3>3. ~Hit(k, k)
      BY <2>8
    <3>4. \A m \in k..n : Hit(k, m) => m \in (k + 1)..n /\ Hit(k + 1, m)
      BY <2>4, <3>2, <3>3
    <3> HIDE DEF Hit
    <3>5. f[k] # 0 => \E m \in k..n : Hit(k, m) /\ f[k] = i.dirent[m].inode
      BY <2>2, <2>5, <3>1, <3>2
    <3>6. (\E m \in k..n : Hit(k, m)) => f[k] # 0
      BY <2>2, <3>1, <3>4
    <3> QED
      BY <3>5, <3>6 DEF k
  <2> QED
    BY <2>6, <2>7, <2>8
<1> HIDE DEF S
<1>5. \A d \in Nat : d \in S
  BY <1>3, <1>4, Induction
<1>6. n + 1 - n = 1 /\ n <= n
  BY <1>1
<1>7. P(1)
  BY <1>1, <1>5, <1>6 DEF S
<1> QED
  BY <1>7 DEF ext2_find, f, n

(* ext2_ls gets past the first k entries when it gets past each of them. *)
LEMMA LiveIs ==
  ASSUME NEW i \in Images
  PROVE  \A k \in 1..Len(i.dirent) : Live(i)[k] <=> \A j \in 1..k : Passes(i, j)
<1> DEFINE f == Live(i)
           n == Len(i.dirent)
           A(k) == \A j \in 1..k : Passes(i, j)
           D(g) == [k \in 0..n |->
                      k = 0 \/ (g[k - 1] /\ InDirectory(i, EntryOffsets(i.dirent)[k])
                                         /\ ~Stops(i.dirent, k))]
           w == [k \in 0..n |-> A(k)]
<1>1. n \in Nat
  BY ImagesAssumption
<1>2. \A k \in 1..n : A(k) <=> A(k - 1) /\ Passes(i, k)
  <2> HIDE DEF n
  <2> SUFFICES ASSUME NEW k \in 1..n PROVE A(k) <=> A(k - 1) /\ Passes(i, k)
    OBVIOUS
  <2>1. /\ k \in 1..k /\ \A j \in 1..k : j = k \/ j \in 1..(k - 1)
        /\ \A j \in 1..(k - 1) : j \in 1..k
    BY <1>1
  <2> QED
    BY <2>1
<1>3. A(0)
  OBVIOUS
<1> HIDE DEF A, n
<1>4. \A k \in 0..n : k # 0 => k \in 1..n /\ k - 1 \in 0..n
  BY <1>1
<1>5. w = D(w)
  <2>1. ASSUME NEW k \in 0..n PROVE A(k) <=> D(w)[k]
    BY <1>2, <1>3, <1>4 DEF Passes, Stops
  <2>2. ASSUME NEW k \in 0..n PROVE A(k) = D(w)[k]
    <3>1. A(k) \in BOOLEAN
      BY Zenon DEF A
    <3>2. D(w)[k] \in BOOLEAN
      BY Zenon
    <3> QED
      BY <2>1, <3>1, <3>2, Zenon
  <2> QED
    BY <2>2, Zenon
<1> HIDE DEF w
<1>6. f = D(f)
  BY <1>5, Zenon DEF Live, n
<1> HIDE DEF f
<1>7. ASSUME NEW k \in 1..n PROVE f[k] <=> f[k - 1] /\ Passes(i, k)
  <2>1. k \in 0..n /\ k # 0
    BY <1>1
  <2> QED
    BY <1>6, <2>1 DEF Passes, Stops
<1>8. f[0]
  <2>1. 0 \in 0..n
    BY <1>1
  <2> QED
    BY <1>6, <2>1
<1> DEFINE S == {k \in Nat : k <= n => (f[k] <=> A(k))}
<1>9. 0 \in S
  BY <1>3, <1>8
<1>10. ASSUME NEW k \in Nat, k \in S PROVE k + 1 \in S
  <2> SUFFICES ASSUME k + 1 <= n PROVE f[k + 1] <=> A(k + 1)
    OBVIOUS
  <2>1. k + 1 \in 1..n /\ (k + 1) - 1 = k /\ k <= n
    BY <1>1
  <2> QED
    BY <1>2, <1>7, <1>10, <2>1
<1> HIDE DEF S
<1>11. \A k \in Nat : k \in S
  BY <1>9, <1>10, Induction
<1>12. ASSUME NEW k \in 1..n PROVE f[k] <=> A(k)
  <2>1. k \in Nat /\ k <= n
    BY <1>1
  <2> QED
    BY <1>11, <2>1 DEF S
<1> QED
  BY <1>12 DEF f, A, n

(* Both loops agree on the names there are. *)
LEMMA LsFinds ==
  ASSUME NEW i \in Images, NEW name
  PROVE  name \in ext2_ls(i) <=> ext2_find(i, name) # 0
<1> DEFINE n == Len(i.dirent)
           A(k) == \A j \in 1..k : Passes(i, j)
<1>1. name \in ext2_ls(i) <=> \E k \in 1..n : A(k) /\ Matches(i, name, k)
  <2>1. name \in ext2_ls(i) <=> \E k \in 1..n : Live(i)[k] /\ Matches(i, name, k)
    BY Zenon DEF ext2_ls, Matches
  <2>2. \A k \in 1..n : Live(i)[k] <=> A(k)
    BY LiveIs
  <2> HIDE DEF A, n
  <2> QED
    BY <2>1, <2>2
<1>2. (\E k \in 1..n : A(k) /\ Matches(i, name, k)) <=> ext2_find(i, name) # 0
  BY FindIs
<1> QED
  BY <1>1, <1>2


-----------------------------------------------------------------------------
(* Reading a file. *)

(* Quotient and remainder. *)
LEMMA DivMod ==
  ASSUME NEW l \in Nat, NEW B \in Nat \ {0}
  PROVE  /\ l \div B \in Nat /\ l % B \in 0..(B - 1)
         /\ l = B * (l \div B) + (l % B)
OBVIOUS

(* They are the only ones. *)
LEMMA DivUnique ==
  ASSUME NEW l \in Nat, NEW B \in Nat \ {0}, NEW q \in Nat, NEW r \in 0..(B - 1), l = B * q + r
  PROVE  l \div B = q /\ l % B = r
OBVIOUS

(* byte p of a file, counted from 1, and n bytes after byte o *)
ByteAt(i, ino, p) ==
  LET b == i.inode[ino].i_block[(p - 1) \div block_size] IN
  IF b = 0 THEN 0 ELSE i.block[b][(p - 1) % block_size]
Piece(i, ino, o, n) == [j \in 1..n |-> ByteAt(i, ino, o + j)]

(* where x blocks of a file end, as far as the direct blocks reach; how    *)
(* many bytes k rounds of the loop have copied                             *)
End(x) == Smaller(x, NDIRECT) * block_size
From(o, size, e) == IF e <= o THEN 0 ELSE Smaller(size, e - o)
Reach(o, size, k) == From(o, size, End(o \div block_size + k))
Continues(i, ino, o, L, blk, f, n) ==
  Piece(i, ino, o, L) \o BlockBytes(i, ino, blk, f, n) = Piece(i, ino, o, L + n)

(* a is an array of L bytes; a \o b is a and then b *)
IsArray(a, L) == a = [j \in 1..L |-> a[j]]
IsJoin(a, L, b, n) == a \o b = [j \in 1..(L + n) |-> IF j <= L THEN a[j] ELSE b[j - L]]

(* The bytes of two arrays one after the other. *)
LEMMA Joined ==
  ASSUME NEW L \in Nat, NEW n \in Nat, NEW a, NEW b, IsArray(a, L), IsArray(b, n)
  PROVE  IsJoin(a, L, b, n)
<1>0. a = [j \in 1..L |-> a[j]] /\ b = [j \in 1..n |-> b[j]]
  BY Zenon DEF IsArray
<1> DEFINE X == {a[j] : j \in 1..L} \cup {b[j] : j \in 1..n}
           d == a \o b
<1>1. a \in [1..L -> X] /\ b \in [1..n -> X]
  BY <1>0, Zenon
<1> HIDE DEF X
<1>2. a \in Seq(X) /\ Len(a) = L /\ b \in Seq(X) /\ Len(b) = n
  BY <1>1
<1>3. /\ d \in Seq(X) /\ Len(d) = L + n
      /\ \A j \in 1..(L + n) : d[j] = IF j <= L THEN a[j] ELSE b[j - L]
  BY <1>2, ConcatProperties
<1> HIDE DEF d
<1>4. d = [j \in 1..(L + n) |-> d[j]]
  BY <1>3
<1>5. d = [j \in 1..(L + n) |-> IF j <= L THEN a[j] ELSE b[j - L]]
  BY <1>3, <1>4, Zenon
<1> QED
  BY <1>5, Zenon DEF d, IsJoin

(* The bytes of block blk from byte f on continue the file at byte p. *)
LEMMA BlockContinues ==
  ASSUME NEW i, NEW ino, NEW o \in Nat, NEW L \in Nat, NEW blk \in Nat, NEW f \in Nat,
         NEW n \in Nat, o + L = block_size * blk + f, f + n <= block_size
  PROVE  Continues(i, ino, o, L, blk, f, n)
<1> USE Ext2Assumption
<1> DEFINE a == Piece(i, ino, o, L)
           b == BlockBytes(i, ino, blk, f, n)
           c == Piece(i, ino, o, L + n)
<1>1. ASSUME NEW j \in 1..n PROVE b[j] = ByteAt(i, ino, o + (L + j))
  <2> DEFINE l == o + (L + j) - 1
             r == f + j - 1
  <2>1. r \in 0..(block_size - 1)
    OBVIOUS
  <2>2. block_size * blk \in Nat
    OBVIOUS
  <2>3. l = block_size * blk + r /\ l \in Nat
    BY <2>2
  <2> HIDE DEF l, r
  <2>4. l \div block_size = blk /\ l % block_size = r
    BY <2>1, <2>3, DivUnique
  <2>5. b[j] = LET x == i.inode[ino].i_block[blk] IN IF x = 0 THEN 0 ELSE i.block[x][r]
    BY DEF BlockBytes, r
  <2> HIDE DEF b
  <2> QED
    BY <2>4, <2>5 DEF ByteAt, l
<1>2. Len(a) = L /\ Len(b) = n /\ Len(c) = L + n
  BY DEF Piece, BlockBytes
<1>3. a = [j \in 1..L |-> a[j]] /\ b = [j \in 1..n |-> b[j]]
  BY DEF Piece, BlockBytes
<1>4. a \o b = [j \in 1..(L + n) |-> IF j <= L THEN a[j] ELSE b[j - L]]
  <2> HIDE DEF a, b
  <2>1. IsArray(a, L) /\ IsArray(b, n)
    BY <1>3, Zenon DEF IsArray
  <2>2. IsJoin(a, L, b, n)
    BY <2>1, Joined
  <2> QED
    BY <2>2, Zenon DEF IsJoin
<1>5. ASSUME NEW j \in 1..(L + n) PROVE (IF j <= L THEN a[j] ELSE b[j - L]) = c[j]
  <2>1. CASE j <= L
    BY <2>1 DEF Piece
  <2>2. CASE ~(j <= L)
    <3>1. j - L \in 1..n /\ L + (j - L) = j
      BY <2>2
    <3> HIDE DEF b
    <3>2. b[j - L] = ByteAt(i, ino, o + j)
      BY <1>1, <3>1
    <3> QED
      BY <2>2, <3>2 DEF Piece
  <2> QED
    BY <2>1, <2>2
<1>6. c = [j \in 1..(L + n) |-> c[j]]
  BY DEF Piece
<1> HIDE DEF a, b, c
<1> QED
  BY <1>4, <1>5, <1>6 DEF a, b, c, Continues


(* Round k continues where round k - 1 stopped. *)
LEMMA RoundIs ==
  ASSUME NEW i, NEW ino, NEW o \in Nat, NEW size \in Nat, NEW k \in 1..NDIRECT
  PROVE  /\ Reach(o, size, k - 1) \in Nat /\ Reach(o, size, k) \in Nat
         /\ CopyRound(i, ino, o, size, k, Piece(i, ino, o, Reach(o, size, k - 1)))
              = Piece(i, ino, o, Reach(o, size, k))
<1> USE Ext2Assumption
<1> DEFINE B   == block_size
           q   == o \div B
           r   == o % B
           blk == q + k - 1
           f   == IF k = 1 THEN r ELSE 0
           L   == Reach(o, size, k - 1)
           M   == Reach(o, size, k)
           buf == Piece(i, ino, o, L)
           n   == Smaller(B - f, size - L)
<1>1. q \in Nat /\ r \in 0..(B - 1) /\ o = B * q + r
  BY DivMod
<1>2. L = From(o, size, End(q + (k - 1))) /\ M = From(o, size, End(q + k))
  BY DEF Reach
<1>3. CopyRound(i, ino, o, size, k, buf)
        = IF Len(buf) < size /\ blk < NDIRECT
          THEN buf \o BlockBytes(i, ino, blk, f, Smaller(B - f, size - Len(buf))) ELSE buf
  BY DEF CopyRound
<1> HIDE DEF q, r, L, M
<1>4. blk \in Nat /\ q + (k - 1) = blk /\ q + k = blk + 1
  BY <1>1
<1> HIDE DEF blk
<1>5. \A x \in Nat : End(x) \in Nat
  BY DEF Smaller, End
<1>6. L \in Nat /\ M \in Nat /\ L <= size
  BY <1>2, <1>4, <1>5 DEF Smaller, From
<1>7. Len(buf) = L
  BY <1>6 DEF Piece
<1>8. CASE blk >= NDIRECT
  <2>1. End(blk) = End(blk + 1)
    BY <1>4, <1>8 DEF End, Smaller
  <2>2. L = M
    BY <1>2, <1>4, <2>1
  <2>3. CopyRound(i, ino, o, size, k, buf) = buf
    BY <1>3, <1>4, <1>8
  <2> QED
    BY <1>6, <2>2, <2>3 DEF L, M
<1>9. CASE blk < NDIRECT
  <2> DEFINE p == B * blk
             s == B * q
  <2>1. End(blk) = p /\ End(blk + 1) = p + B
    <3>1. Smaller(blk, NDIRECT) = blk /\ Smaller(blk + 1, NDIRECT) = blk + 1
      BY <1>4, <1>9 DEF Smaller
    <3>2. blk * B = B * blk /\ (blk + 1) * B = B * blk + B
      BY <1>4
    <3> QED
      BY <3>1, <3>2 DEF End
  <2>2. s \in Nat /\ p \in Nat /\ o = s + r
    BY <1>1, <1>4
  <2>3. k = 1 => p = s
    <3>1. k = 1 => blk = q
      BY <1>1 DEF blk
    <3> QED
      BY <3>1
  <2>4. k # 1 => p >= s + B
    <3>1. k # 1 => blk >= q + 1
      BY <1>1 DEF blk
    <3>2. \A d \in Nat : B * (q + 1 + d) = B * q + B + B * d /\ B * d \in Nat
      BY <1>1
    <3>3. k # 1 => blk - q - 1 \in Nat /\ blk = q + 1 + (blk - q - 1)
      BY <1>1, <1>4, <3>1
    <3> QED
      BY <2>2, <3>2, <3>3
  <2> HIDE DEF p, s
  <2>5. /\ L = IF p <= o THEN 0 ELSE Smaller(size, p - o)
        /\ M = IF p + B <= o THEN 0 ELSE Smaller(size, p + B - o)
    <3>1. L = From(o, size, p) /\ M = From(o, size, p + B)
      BY <1>2, <1>4, <2>1
    <3> QED
      BY <2>2, <3>1 DEF From, Smaller
  <2>6. CASE L = size
    <3>1. M = size
      BY <1>1, <1>6, <2>2, <2>3, <2>4, <2>5, <2>6 DEF Smaller
    <3>2. CopyRound(i, ino, o, size, k, buf) = buf
      BY <1>3, <1>6, <1>7, <2>6
    <3> QED
      BY <1>6, <2>6, <3>1, <3>2 DEF L, M
  <2>7. CASE L # size
    <3>1. L < size
      BY <1>6, <2>7
    <3>2. o + L = p + f /\ f \in 0..(B - 1)
      <4>1. CASE k = 1
        BY <1>1, <2>2, <2>3, <2>5, <4>1
      <4>2. CASE k # 1
        <5>1. L = Smaller(size, p - o) /\ p - o \in Nat
          BY <1>1, <2>2, <2>4, <2>5, <4>2
        <5>2. L = p - o
          BY <2>7, <5>1 DEF Smaller
        <5> QED
          BY <2>2, <4>2, <5>2
      <4> QED
        BY <4>1, <4>2
    <3> HIDE DEF f
    <3>3. M = L + n /\ n \in Nat /\ f + n <= B
      BY <1>1, <1>6, <2>2, <2>5, <3>1, <3>2 DEF Smaller
    <3>4. CopyRound(i, ino, o, size, k, buf) = buf \o BlockBytes(i, ino, blk, f, n)
      BY <1>3, <1>7, <1>9, <3>1
    <3>5. o + L = B * blk + f /\ f \in Nat
      BY <3>2 DEF p
    <3> HIDE DEF n
    <3>6. buf \o BlockBytes(i, ino, blk, f, n) = Piece(i, ino, o, L + n)
      <4>1. blk \in Nat /\ L \in Nat /\ n \in Nat /\ f \in Nat
        BY <1>4, <1>6, <3>3, <3>5
      <4>2. f + n <= block_size /\ o + L = block_size * blk + f
        BY <3>3, <3>5
      <4> QED
        <5>1. Continues(i, ino, o, L, blk, f, n)
          BY <4>1, <4>2, BlockContinues, Zenon
        <5> QED
          BY <5>1, Zenon DEF Continues
    <3> QED
      BY <1>6, <3>3, <3>4, <3>6 DEF L, M
  <2> QED
    BY <2>6, <2>7
<1> QED
  BY <1>4, <1>8, <1>9

(* The loop copies the bytes of the file from o on, as far as it gets. *)
LEMMA CopiedIs ==
  ASSUME NEW i, NEW ino, NEW o \in Nat, NEW size \in Nat
  PROVE  Copied(i, ino, o, size)[NDIRECT] = Piece(i, ino, o, Reach(o, size, NDIRECT))
<1> USE Ext2Assumption
<1> DEFINE g == Copied(i, ino, o, size)
           w == [k \in 0..NDIRECT |-> Piece(i, ino, o, Reach(o, size, k))]
           R(k, b) == CopyRound(i, ino, o, size, k, b)
           D(h) == [k \in 0..NDIRECT |-> IF k = 0 THEN <<>> ELSE R(k, h[k - 1])]
<1>1. ASSUME NEW k \in 1..NDIRECT PROVE R(k, w[k - 1]) = w[k] /\ k - 1 \in 0..NDIRECT
  BY RoundIs
<1>2. w[0] = <<>>
  <2>1. Reach(o, size, 0) = 0
    <3> DEFINE q == o \div block_size
               s == Smaller(q, NDIRECT)
    <3>1. q \in Nat /\ o % block_size \in Nat /\ o = block_size * q + (o % block_size)
      BY DivMod
    <3> HIDE DEF q
    <3>2. s \in Nat /\ s <= q
      BY <3>1 DEF Smaller
    <3> HIDE DEF s
    <3>3. s * block_size <= block_size * q /\ s * block_size \in Nat /\ block_size * q \in Nat
      <4>1. \A d \in Nat : block_size * (s + d) = s * block_size + block_size * d
                           /\ block_size * d \in Nat
        BY <3>2
      <4>2. q - s \in Nat /\ q = s + (q - s)
        BY <3>1, <3>2
      <4>3. block_size * q = s * block_size + block_size * (q - s) /\ block_size * (q - s) \in Nat
        BY <4>1, <4>2
      <4> HIDE DEF s
      <4>4. s * block_size \in Nat
        BY <3>2
      <4> QED
        BY <4>3, <4>4
    <3>4. s * block_size <= o
      BY <3>1, <3>3
    <3>5. q + 0 = q
      BY <3>1
    <3> QED
      BY <3>4, <3>5 DEF Reach, From, End, s, q
  <2>2. Piece(i, ino, o, 0) = <<>>
    BY DEF Piece
  <2> QED
    BY <2>1, <2>2
<1>3. w = D(w)
  <2>1. \A k \in 0..NDIRECT : k # 0 => k \in 1..NDIRECT
    OBVIOUS
  <2>2. \A k \in 0..NDIRECT : w[k] = IF k = 0 THEN <<>> ELSE R(k, w[k - 1])
    <3> HIDE DEF w, R
    <3> QED
      BY <1>1, <1>2, <2>1
  <2>3. w = [k \in 0..NDIRECT |-> w[k]]
    OBVIOUS
  <2> HIDE DEF w, R
  <2> QED
    BY <2>2, <2>3, Zenon
<1> HIDE DEF w
<1>4. g = D(g)
  BY <1>3, Zenon DEF Copied
<1> HIDE DEF g, R
<1> DEFINE S == {k \in Nat : k <= NDIRECT => g[k] = w[k]}
<1>5. 0 \in S
  <2>1. 0 \in 0..NDIRECT
    OBVIOUS
  <2>2. g[0] = <<>>
    BY <1>4, <2>1
  <2> QED
    BY <1>2, <2>2
<1>6. ASSUME NEW k \in Nat, k \in S PROVE k + 1 \in S
  <2> SUFFICES ASSUME k + 1 <= NDIRECT PROVE g[k + 1] = w[k + 1]
    OBVIOUS
  <2>1. k + 1 \in 1..NDIRECT /\ k + 1 \in 0..NDIRECT /\ k + 1 # 0 /\ (k + 1) - 1 = k /\ k <= NDIRECT
    OBVIOUS
  <2>2. g[k + 1] = R(k + 1, g[(k + 1) - 1])
    BY <1>4, <2>1
  <2>3. R(k + 1, w[(k + 1) - 1]) = w[k + 1]
    BY <1>1, <2>1
  <2> QED
    BY <1>6, <2>1, <2>2, <2>3
<1> HIDE DEF S
<1>7. NDIRECT \in S
  BY <1>5, <1>6, Induction
<1>8. g[NDIRECT] = w[NDIRECT]
  BY <1>7 DEF S
<1> QED
  BY <1>8 DEF g, w

(* What ext2_pread returns: bytes of the file from o on, none beyond the   *)
(* direct blocks and, unless o + count overflows, none beyond its size.    *)
LEMMA PreadIs ==
  ASSUME NEW i, NEW ino, FileOK(i, ino), NEW o \in Nat, NEW count \in Nat
  PROVE  \E n \in Nat :
           /\ ext2_pread(i, ino, o, count) = Piece(i, ino, o, n)
           /\ n = 0 \/ o + n <= NDIRECT * block_size
           /\ o + count < WORD => n = 0 \/ o + n <= i.inode[ino].i_size
<1> USE Ext2Assumption
<1> DEFINE fs == i.inode[ino].i_size
           s  == IF (o + count) % WORD > fs THEN fs - o ELSE count
<1>1. fs \in Nat
  BY DEF FileOK
<1>2. CASE o >= fs
  <2>1. ext2_pread(i, ino, o, count) = <<>>
    BY <1>2 DEF ext2_pread
  <2>2. Piece(i, ino, o, 0) = <<>>
    BY DEF Piece
  <2> QED
    BY <2>1, <2>2
<1>3. CASE ~(o >= fs)
  <2>1. ext2_pread(i, ino, o, count) = Copied(i, ino, o, s)[NDIRECT]
    BY <1>3 DEF ext2_pread
  <2>2. s \in Nat
    BY <1>1, <1>3
  <2>3. o + count < WORD => o + s <= fs
    <3> SUFFICES ASSUME o + count < WORD PROVE o + s <= fs
      OBVIOUS
    <3>1. (o + count) % WORD = o + count
      OBVIOUS
    <3> QED
      BY <1>1, <1>3, <3>1
  <2> HIDE DEF s
  <2> DEFINE n == Reach(o, s, NDIRECT)
             e == Smaller(o \div block_size + NDIRECT, NDIRECT) * block_size
  <2>4. o \div block_size \in Nat
    BY DivMod
  <2>5. Smaller(o \div block_size + NDIRECT, NDIRECT) = NDIRECT
    BY <2>4 DEF Smaller
  <2>6. e = NDIRECT * block_size /\ e \in Nat
    BY <2>5
  <2>7. n = IF e <= o THEN 0 ELSE Smaller(s, e - o)
    BY DEF Reach, From, End
  <2> HIDE DEF n, e
  <2>8. n \in Nat /\ (n = 0 \/ o + n <= e) /\ n <= s
    BY <2>2, <2>6, <2>7 DEF Smaller
  <2>9. Copied(i, ino, o, s)[NDIRECT] = Piece(i, ino, o, n)
    BY <2>2, CopiedIs DEF n
  <2>10. o + count < WORD => n = 0 \/ o + n <= fs
    BY <1>1, <2>2, <2>3, <2>8
  <2> QED
    BY <2>1, <2>6, <2>8, <2>9, <2>10
<1> QED
  BY <1>2, <1>3

-----------------------------------------------------------------------------
(* Files. *)

(* A piece has its length. *)
LEMMA PieceLen ==
  ASSUME NEW i, NEW ino, NEW o \in Nat, NEW n \in Nat
  PROVE  Len(Piece(i, ino, o, n)) = n
  BY DEF Piece

(* A piece of the direct blocks is a sequence of bytes. *)
LEMMA PieceBytes ==
  ASSUME NEW i, NEW ino, FileOK(i, ino), NEW o \in Nat, NEW n \in Nat,
         n = 0 \/ o + n <= NDIRECT * block_size
  PROVE  Piece(i, ino, o, n) \in Seq(Nat)
<1> USE Ext2Assumption
<1>1. ASSUME NEW j \in 1..n PROVE ByteAt(i, ino, o + j) \in Nat
  <2> DEFINE l == o + j - 1
             q == l \div block_size
             r == l % block_size
             N == NDIRECT
  <2>1. l \in Nat /\ l < NDIRECT * block_size
    <3> DEFINE e == NDIRECT * block_size
    <3>1. e \in Nat /\ (n = 0 \/ o + n <= e)
      OBVIOUS
    <3> HIDE DEF e
    <3> QED
      BY <3>1 DEF e
  <2> HIDE DEF l
  <2>2. q \in Nat /\ r \in 0..(block_size - 1) /\ l = block_size * q + r
    BY <2>1, DivMod
  <2> HIDE DEF q, r
  <2>3. q \in 0..(NDIRECT - 1)
    <3> SUFFICES ASSUME q >= NDIRECT PROVE FALSE
      BY <2>2
    <3>1. \A d \in Nat : block_size * (NDIRECT + d) = NDIRECT * block_size + block_size * d
                         /\ block_size * d \in Nat
      OBVIOUS
    <3>2. q - NDIRECT \in Nat /\ q = NDIRECT + (q - NDIRECT)
      BY <2>2
    <3>3. block_size * q = NDIRECT * block_size + block_size * (q - NDIRECT)
          /\ block_size * (q - NDIRECT) \in Nat
      BY <3>1, <3>2
    <3> DEFINE x == block_size * q
               y == NDIRECT * block_size
               z == block_size * (q - NDIRECT)
    <3>4. x \in Nat /\ y \in Nat /\ z \in Nat /\ x = y + z /\ l = x + r /\ l < y
      BY <2>1, <2>2, <3>3
    <3> HIDE DEF x, y, z
    <3> QED
      BY <2>2, <3>4
  <2>4. LET b == i.inode[ino].i_block[q] IN b # 0 => i.block[b][r] \in Nat
    BY <2>2, <2>3 DEF FileOK
  <2> QED
    BY <2>4 DEF ByteAt, l, q, r
<1> HIDE DEF Piece
<1>2. Piece(i, ino, o, n) \in [1..n -> Nat]
  BY <1>1 DEF Piece
<1> QED
  BY <1>2

(* Two pieces in a row are one. *)
LEMMA PiecesJoin ==
  ASSUME NEW i, NEW ino, NEW o \in Nat, NEW n \in Nat
  PROVE  Piece(i, ino, 0, o) \o Piece(i, ino, o, n) = Piece(i, ino, 0, o + n)
<1> DEFINE a == Piece(i, ino, 0, o)
           b == Piece(i, ino, o, n)
           c == Piece(i, ino, 0, o + n)
<1>1. /\ a = [j \in 1..o |-> a[j]] /\ b = [j \in 1..n |-> b[j]]
      /\ c = [j \in 1..(o + n) |-> c[j]]
  BY DEF Piece
<1>2. ASSUME NEW j \in 1..(o + n) PROVE (IF j <= o THEN a[j] ELSE b[j - o]) = c[j]
  <2>1. CASE j <= o
    BY <2>1 DEF Piece
  <2>2. CASE ~(j <= o)
    <3>1. j - o \in 1..n /\ o + (j - o) = 0 + j
      BY <2>2
    <3> QED
      BY <2>2, <3>1 DEF Piece
  <2> QED
    BY <2>1, <2>2
<1> HIDE DEF a, b, c
<1>3. a \o b = [j \in 1..(o + n) |-> IF j <= o THEN a[j] ELSE b[j - o]]
  <2>1. IsArray(a, o) /\ IsArray(b, n)
    BY <1>1, Zenon DEF IsArray
  <2>2. IsJoin(a, o, b, n)
    BY <2>1, Joined
  <2> QED
    BY <2>2, Zenon DEF IsJoin
<1> QED
  BY <1>1, <1>2, <1>3 DEF a, b, c

(* A piece from the start of a file, no longer than the file and its       *)
(* direct blocks, is the beginning of the file's content.                  *)
LEMMA PieceIsPrefix ==
  ASSUME NEW i, NEW ino, FileOK(i, ino), NEW n \in Nat,
         n <= Smaller(i.inode[ino].i_size, NDIRECT * block_size)
  PROVE  LET c == Content(i, ino) IN
         n <= Len(c) /\ Piece(i, ino, 0, n) = SubSeq(c, 1, n)
<1> USE Ext2Assumption
<1> DEFINE c == Content(i, ino)
           m == Smaller(i.inode[ino].i_size, NDIRECT * block_size)
           p == Piece(i, ino, 0, n)
           s == SubSeq(c, 1, n)
<1>1. m \in Nat
  BY DEF Smaller, FileOK
<1>2. c = [j \in 1..m |-> ByteAt(i, ino, j)]
  BY Zenon DEF Content, ByteAt
<1>3. p = [j \in 1..n |-> ByteAt(i, ino, 0 + j)]
  BY DEF Piece
<1> HIDE DEF m, c, p
<1> DEFINE X == {ByteAt(i, ino, j) : j \in 1..m}
<1>4. c \in [1..m -> X]
  BY <1>2
<1> HIDE DEF X
<1>5. c \in Seq(X) /\ Len(c) = m
  BY <1>1, <1>4
<1>6. n <= m /\ (\A j \in 1..n : j \in 1..m /\ 0 + j = j)
  BY <1>1 DEF m
<1>7. s = [j \in 1..n |-> c[j]]
  <2>1. s = [j \in 1..(n - 1 + 1) |-> c[1 + j - 1]]
    BY <1>5, <1>6
  <2>2. n - 1 + 1 = n /\ \A j \in 1..n : 1 + j - 1 = j
    OBVIOUS
  <2> QED
    BY <2>1, <2>2
<1>8. s = p
  BY <1>2, <1>3, <1>6, <1>7
<1> QED
  BY <1>5, <1>6, <1>8 DEF c, p

-----------------------------------------------------------------------------

(* The part of TypeOK that does not depend on file contents. *)
TablesOK ==
  /\ node_used \in [Pool -> {0, 1}]
  /\ files \in [Tasks -> [Fds -> [node : Pool \cup {NULL}, used : {0, 1}]]]

IInv == TablesOK /\ NodesNotShared /\ NoNodeLeak

-----------------------------------------------------------------------------
(* Closing an open descriptor frees exactly its own node. *)
LEMMA ClosePreserves ==
  ASSUME IInv, NEW t \in Tasks, NEW fd, SysClose(t, fd)
  PROVE  IInv'
<1> USE VfsAssumption
<1>1. fd \in Fds /\ fd \in OpenFds(t)
  BY DEF SysClose, BadFd, Fds, OpenFds
<1> DEFINE n == files[t][fd].node
<1>2. n \in Pool /\ node_used[n] = 1
  BY <1>1 DEF IInv, NodesNotShared
<1>3. /\ node_used' = [node_used EXCEPT ![n] = 0]
      /\ files' = [files EXCEPT ![t][fd] = Closed]
  BY DEF SysClose, vfs_close
<1>4. /\ files'[t][fd].used = 0
      /\ \A u \in Tasks, g \in Fds : u # t \/ g # fd => files'[u][g] = files[u][g]
  BY <1>1, <1>3 DEF IInv, TablesOK, Closed
<1>5. TablesOK'
  BY <1>1, <1>2, <1>3 DEF IInv, TablesOK, Closed
<1>6. \A u \in Tasks : \A g \in OpenFds(u)' :
        g \in OpenFds(u) /\ files'[u][g] = files[u][g] /\ (u # t \/ g # fd)
  BY <1>4 DEF OpenFds
<1>7. NodesNotShared'
  <2>1. \A u \in Tasks : \A g \in OpenFds(u)' : files[u][g].node # n
    BY <1>1, <1>6 DEF IInv, NodesNotShared
  <2> QED
    BY <1>2, <1>3, <1>6, <2>1 DEF IInv, NodesNotShared, TablesOK
<1>8. NoNodeLeak'
  <2> SUFFICES ASSUME NEW m \in Pool, node_used'[m] = 1
               PROVE  \E u \in Tasks : \E g \in OpenFds(u)' : files'[u][g].node = m
    BY DEF NoNodeLeak
  <2>1. m # n /\ node_used[m] = 1
    BY <1>2, <1>3 DEF IInv, TablesOK
  <2>2. PICK u \in Tasks, g \in Fds : g \in OpenFds(u) /\ files[u][g].node = m
    BY <2>1 DEF IInv, NoNodeLeak, OpenFds
  <2>3. files'[u][g] = files[u][g] /\ g \in OpenFds(u)'
    BY <1>4, <2>1, <2>2 DEF OpenFds
  <2> QED
    BY <2>2, <2>3
<1> QED
  BY <1>5, <1>7, <1>8 DEF IInv

(* A successful open links a free node to a free descriptor. *)
LEMMA OpenPreserves ==
  ASSUME IInv, NEW t \in Tasks, NEW path, OpenSucceeds(t, path)
  PROVE  IInv'
<1> USE VfsAssumption
<1>1. PICK n \in FreeNodes, fd \in FreeFds(t) :
        /\ node_used' = [node_used EXCEPT ![n] = 1]
        /\ files' = [files EXCEPT ![t][fd] = [node |-> n, used |-> 1]]
  BY DEF OpenSucceeds
<1>2. n \in Pool /\ node_used[n] = 0 /\ fd \in Fds /\ fd \notin OpenFds(t)
  BY <1>1 DEF FreeNodes, FreeFds, OpenFds, Fds
<1>3. /\ files'[t][fd] = [node |-> n, used |-> 1]
      /\ \A u \in Tasks, g \in Fds : u # t \/ g # fd => files'[u][g] = files[u][g]
  BY <1>1, <1>2 DEF IInv, TablesOK
<1>4. TablesOK'
  BY <1>1, <1>2 DEF IInv, TablesOK
<1>5. \A u \in Tasks : \A g \in OpenFds(u) : files[u][g].node # n /\ files'[u][g] = files[u][g]
  BY <1>2, <1>3 DEF IInv, NodesNotShared, OpenFds
<1>6. \A u \in Tasks : \A g \in OpenFds(u)' : (u = t /\ g = fd) \/ g \in OpenFds(u)
  BY <1>3 DEF OpenFds
<1>7. NodesNotShared'
  <2> SUFFICES ASSUME NEW u \in Tasks, NEW v \in Tasks, NEW f \in OpenFds(u)', NEW g \in OpenFds(v)'
               PROVE  /\ files'[u][f].node \in Pool /\ node_used'[files'[u][f].node] = 1
                      /\ files'[u][f].node = files'[v][g].node => u = v /\ f = g
    BY DEF NodesNotShared
  <2>1. files'[u][f].node \in Pool /\ node_used'[files'[u][f].node] = 1
    BY <1>1, <1>2, <1>3, <1>5, <1>6 DEF IInv, NodesNotShared, TablesOK
  <2>2. files'[u][f].node = files'[v][g].node => u = v /\ f = g
    BY <1>3, <1>5, <1>6 DEF IInv, NodesNotShared
  <2> QED
    BY <2>1, <2>2
<1>8. NoNodeLeak'
  <2> SUFFICES ASSUME NEW m \in Pool, node_used'[m] = 1
               PROVE  \E u \in Tasks : \E g \in OpenFds(u)' : files'[u][g].node = m
    BY DEF NoNodeLeak
  <2>1. CASE m = n
    BY <1>2, <1>3, <2>1 DEF OpenFds
  <2>2. CASE m # n
    <3>1. node_used[m] = 1
      BY <1>1, <1>2, <2>2 DEF IInv, TablesOK
    <3>2. PICK u \in Tasks, g \in Fds : g \in OpenFds(u) /\ files[u][g].node = m
      BY <3>1 DEF IInv, NoNodeLeak, OpenFds
    <3>3. files'[u][g] = files[u][g] /\ g \in OpenFds(u)'
      BY <1>5, <3>2 DEF OpenFds
    <3> QED
      BY <3>2, <3>3
  <2> QED
    BY <2>1, <2>2
<1> QED
  BY <1>4, <1>7, <1>8 DEF IInv

(* An open that finds no descriptor leaves both tables as they were. *)
LEMMA NoFdPreserves ==
  ASSUME IInv, NEW t \in Tasks, NEW path, OpenNoFd(t, path)
  PROVE  node_used' = node_used /\ files' = files
<1>1. PICK n \in FreeNodes : node_used' = [[node_used EXCEPT ![n] = 1] EXCEPT ![n] = 0]
  BY DEF OpenNoFd, vfs_close
<1>2. n \in Pool /\ node_used[n] = 0 /\ node_used \in [Pool -> {0, 1}]
  BY <1>1 DEF FreeNodes, IInv, TablesOK
<1>3. node_used' = node_used
  BY <1>1, <1>2
<1> QED
  BY <1>3 DEF OpenNoFd

(* Steps that leave both tables alone preserve the invariant. *)
LEMMA SameTables == IInv /\ UNCHANGED <<node_used, files>> => IInv'
  BY DEF IInv, TablesOK, NodesNotShared, NoNodeLeak, OpenFds

-----------------------------------------------------------------------------
(* The tables satisfy the invariant after any sequence of file syscalls of *)
(* any tasks.                                                              *)
THEOREM Invariance == Spec => []IInv
<1>1. Init => IInv
  BY DEF Init, IInv, TablesOK, NodesNotShared, NoNodeLeak, OpenFds, Closed
<1>2. IInv /\ [Next]_vars => IInv'
  <2> SUFFICES ASSUME IInv, [Next]_vars PROVE IInv'
    OBVIOUS
  <2>1. ASSUME NEW t \in Tasks, NEW path \in Paths, SysOpen(t, path) PROVE IInv'
    BY <2>1, OpenPreserves, NoFdPreserves, SameTables DEF SysOpen, OpenFails, vars
  <2>2. ASSUME NEW t \in Tasks, NEW fd \in (-1)..MAX_FD, SysClose(t, fd) PROVE IInv'
    BY <2>2, ClosePreserves
  <2>3. ASSUME NEW t \in Tasks, NEW fd \in (-1)..MAX_FD, NEW count \in Counts,
               SysRead(t, fd, count) \/ SysBadFd(t, fd)
        PROVE  IInv'
    BY <2>3, SameTables DEF SysRead, SysBadFd, vars
  <2>4. ASSUME NEW t \in Tasks, NEW fd \in (-1)..MAX_FD, SysBadFd(t, fd) PROVE IInv'
    BY <2>4, SameTables DEF SysBadFd, vars
  <2>5. CASE UNCHANGED vars
    BY <2>5, SameTables DEF vars
  <2> QED
    BY <2>1, <2>2, <2>3, <2>4, <2>5 DEF Next
<1> QED
  BY <1>1, <1>2, PTL DEF Spec

(* SYS_CLOSE of one descriptor never takes the node of another.            *)
THEOREM OwnershipCorrect == Spec => []NodesNotShared
  BY Invariance, PTL DEF IInv

(* Every used node can be given back: some task still has it open.         *)
THEOREM NoLeakCorrect == Spec => []NoNodeLeak
  BY Invariance, PTL DEF IInv

-----------------------------------------------------------------------------
(* The data: what the nodes and the descriptors hold.  A used node has an  *)
(* inode whose blocks can be read, which is what makes the bytes of a read *)
(* bytes.                                                                  *)
DataOK ==
  /\ img \in Images /\ node_inode \in [Pool -> Nat]
  /\ \A n \in Pool : node_used[n] = 1 => FileOK(img, node_inode[n])
  /\ \A t \in Tasks, fd \in Fds : fd < 3 => files[t][fd] = Closed
  /\ offset \in [Tasks -> [Fds -> 0..(WORD - 1)]]
  /\ got \in [Tasks -> [Fds -> Seq(Nat)]]

(* What ext2_find returns, when it is not 0, is the inode of a file. *)
LEMMA FoundIsFile ==
  ASSUME NEW i \in Images, NEW name, ext2_find(i, name) # 0
  PROVE  ext2_find(i, name) \in Nat /\ FileOK(i, ext2_find(i, name))
<1> DEFINE f == ext2_find(i, name)
<1>1. PICK k \in 1..Len(i.dirent) : Matches(i, name, k) /\ f = i.dirent[k].inode
  BY FindIs
<1> HIDE DEF f
<1>2. i.dirent[k].inode \in Nat /\ (i.dirent[k].inode # 0 => FileOK(i, i.dirent[k].inode))
  BY ImagesAssumption
<1>3. f # 0
  BY DEF f
<1>4. f \in Nat /\ FileOK(i, f)
  BY <1>1, <1>2, <1>3
<1> QED
  BY <1>4 DEF f

(* A descriptor that a syscall accepts is open, and its node is a file's. *)
LEMMA GoodFd ==
  ASSUME IInv, DataOK, NEW t \in Tasks, NEW fd \in (-1)..MAX_FD, ~BadFd(t, fd)
  PROVE  /\ fd \in Fds /\ fd >= 3 /\ fd \in OpenFds(t)
         /\ files[t][fd].node \in Pool /\ node_used[files[t][fd].node] = 1
         /\ InodeOf(t, fd) \in Nat /\ FileOK(img, InodeOf(t, fd))
<1>1. fd \in 3..(MAX_FD - 1) /\ files[t][fd].used = 1
  BY DEF BadFd
<1>2. fd \in Fds /\ fd >= 3
  BY <1>1, VfsAssumption DEF Fds
<1>3. fd \in OpenFds(t)
  BY <1>1, <1>2 DEF OpenFds
<1>4. files[t][fd].node \in Pool /\ node_used[files[t][fd].node] = 1
  BY <1>3 DEF IInv, NodesNotShared
<1> QED
  BY <1>2, <1>3, <1>4 DEF DataOK, InodeOf

(* A read appends a piece of the file, from the descriptor's offset on. *)
LEMMA ReadAppends ==
  ASSUME IInv, DataOK, NEW t \in Tasks, NEW fd \in (-1)..MAX_FD, NEW count \in Counts,
         SysRead(t, fd, count)
  PROVE  \E n \in Nat :
           LET ino == InodeOf(t, fd)
               o   == offset[t][fd] IN
           /\ offset' = [offset EXCEPT ![t][fd] = (o + n) % WORD]
           /\ got' = [got EXCEPT ![t][fd] = got[t][fd] \o Piece(img, ino, o, n)]
           /\ n = 0 \/ o + n <= NDIRECT * block_size
           /\ o + count < WORD => n = 0 \/ o + n <= img.inode[ino].i_size
<1> DEFINE ino  == InodeOf(t, fd)
           o    == offset[t][fd]
           data == ext2_pread(img, ino, o, count)
<1>1. ~BadFd(t, fd)
  BY DEF SysRead
<1>2. fd \in Fds /\ FileOK(img, ino)
  BY <1>1, GoodFd
<1>3. o \in Nat /\ count \in Nat
  BY <1>2, VfsAssumption, Ext2Assumption DEF DataOK
<1>4. /\ offset' = [offset EXCEPT ![t][fd] = (o + Len(data)) % WORD]
      /\ got' = [got EXCEPT ![t][fd] = got[t][fd] \o data]
  BY DEF SysRead, InodeOf
<1> HIDE DEF ino, o, data
<1>5. PICK n \in Nat :
           /\ data = Piece(img, ino, o, n)
           /\ n = 0 \/ o + n <= NDIRECT * block_size
           /\ o + count < WORD => n = 0 \/ o + n <= img.inode[ino].i_size
  BY <1>2, <1>3, PreadIs DEF data
<1>6. Len(data) = n
  BY <1>3, <1>5, PieceLen
<1> QED
  BY <1>4, <1>5, <1>6 DEF ino, o

(* A read leaves the data well typed. *)
LEMMA ReadKeepsData ==
  ASSUME IInv, DataOK, NEW t \in Tasks, NEW fd \in (-1)..MAX_FD, NEW count \in Counts,
         SysRead(t, fd, count)
  PROVE  DataOK'
<1> DEFINE ino == InodeOf(t, fd)
           o   == offset[t][fd]
           g   == got[t][fd]
<1>1. fd \in Fds /\ FileOK(img, ino)
  BY GoodFd DEF SysRead
<1>2. o \in Nat /\ g \in Seq(Nat)
  BY <1>1, Ext2Assumption DEF DataOK
<1>3. PICK n \in Nat :
           /\ offset' = [offset EXCEPT ![t][fd] = (o + n) % WORD]
           /\ got' = [got EXCEPT ![t][fd] = g \o Piece(img, ino, o, n)]
           /\ n = 0 \/ o + n <= NDIRECT * block_size
  BY ReadAppends
<1> HIDE DEF ino, o, g
<1>4. Piece(img, ino, o, n) \in Seq(Nat)
  BY <1>1, <1>2, <1>3, PieceBytes
<1>5. g \o Piece(img, ino, o, n) \in Seq(Nat)
  BY <1>2, <1>4, ConcatProperties
<1>6. (o + n) % WORD \in 0..(WORD - 1)
  <2>1. WORD \in Nat \ {0}
    BY Ext2Assumption
  <2> QED
    BY <1>2, <2>1
<1>7. offset' \in [Tasks -> [Fds -> 0..(WORD - 1)]]
  BY <1>1, <1>3, <1>6 DEF DataOK
<1>8. got' \in [Tasks -> [Fds -> Seq(Nat)]]
  BY <1>1, <1>3, <1>5 DEF DataOK
<1> QED
  BY <1>7, <1>8 DEF DataOK, SysRead

(* An open gives node n the file's inode. *)
LEMMA OpenKeepsData ==
  ASSUME IInv, DataOK, NEW t \in Tasks, NEW path, OpenSucceeds(t, path) \/ OpenNoFd(t, path)
  PROVE  DataOK'
<1> DEFINE ino == ext2_find(img, FileName(path))
<1>1. ASSUME NEW n \in FreeNodes, FillNode(n, path)
      PROVE  node_inode' \in [Pool -> Nat] /\ FileOK(img, node_inode'[n])
             /\ n \in Pool /\ \A m \in Pool : m # n => node_inode'[m] = node_inode[m]
  <2>1. node_inode' = [node_inode EXCEPT ![n] = ino] /\ ino # 0
    BY <1>1 DEF FillNode
  <2>2. ino \in Nat /\ FileOK(img, ino)
    BY <2>1, FoundIsFile DEF DataOK
  <2> HIDE DEF ino
  <2>3. n \in Pool
    BY DEF FreeNodes
  <2> QED
    BY <2>1, <2>2, <2>3 DEF DataOK
<1>2. CASE OpenNoFd(t, path)
  <2>1. node_used' = node_used /\ files' = files
    BY <1>2, NoFdPreserves
  <2>2. PICK n \in FreeNodes : FillNode(n, path)
    BY <1>2 DEF OpenNoFd
  <2>3. node_used[n] = 0
    BY DEF FreeNodes
  <2>4. UNCHANGED <<img, offset, got>>
    BY <1>2 DEF OpenNoFd
  <2>5. ASSUME NEW m \in Pool, node_used'[m] = 1 PROVE FileOK(img', node_inode'[m])
    BY <1>1, <2>1, <2>2, <2>3, <2>4, <2>5 DEF DataOK
  <2> QED
    BY <1>1, <2>1, <2>2, <2>4, <2>5 DEF DataOK
<1>3. CASE OpenSucceeds(t, path)
  <2>1. PICK n \in FreeNodes, fd \in FreeFds(t) :
          /\ FillNode(n, path)
          /\ node_used' = [node_used EXCEPT ![n] = 1]
          /\ files' = [files EXCEPT ![t][fd] = [node |-> n, used |-> 1]]
          /\ offset' = [offset EXCEPT ![t][fd] = 0]
          /\ got' = [got EXCEPT ![t][fd] = <<>>]
          /\ img' = img
    BY <1>3 DEF OpenSucceeds
  <2>2. fd \in Fds /\ fd >= 3 /\ fd \in Int
    BY VfsAssumption DEF FreeFds, Fds
  <2>3. offset' \in [Tasks -> [Fds -> 0..(WORD - 1)]]
    <3>1. 0 \in 0..(WORD - 1)
      BY Ext2Assumption
    <3> QED
      BY <2>1, <2>2, <3>1 DEF DataOK
  <2>4. got' \in [Tasks -> [Fds -> Seq(Nat)]]
    <3>1. <<>> \in Seq(Nat)
      OBVIOUS
    <3> QED
      BY <2>1, <2>2, <3>1 DEF DataOK
  <2>5. ASSUME NEW u \in Tasks, NEW g \in Fds, g < 3 PROVE files'[u][g] = Closed
    <3>1. g # fd
      BY <2>2, <2>5 DEF Fds
    <3>2. files'[u][g] = files[u][g]
      BY <2>1, <2>2, <3>1 DEF IInv, TablesOK
    <3> QED
      BY <2>5, <3>2 DEF DataOK
  <2>6. ASSUME NEW m \in Pool, node_used'[m] = 1 PROVE FileOK(img', node_inode'[m])
    <3>1. m # n => node_used[m] = 1
      BY <2>1, <2>6 DEF IInv, TablesOK
    <3> QED
      BY <1>1, <2>1, <3>1 DEF DataOK
  <2> QED
    BY <1>1, <2>1, <2>3, <2>4, <2>5, <2>6 DEF DataOK
<1> QED
  BY <1>2, <1>3

(* A close leaves the data well typed. *)
LEMMA CloseKeepsData ==
  ASSUME IInv, DataOK, NEW t \in Tasks, NEW fd \in (-1)..MAX_FD, SysClose(t, fd)
  PROVE  DataOK'
<1>1. fd \in Fds /\ fd >= 3 /\ files[t][fd].node \in Pool
  BY GoodFd DEF SysClose
<1>2. /\ node_used' = [node_used EXCEPT ![files[t][fd].node] = 0]
      /\ files' = [files EXCEPT ![t][fd] = Closed]
      /\ offset' = [offset EXCEPT ![t][fd] = 0]
      /\ got' = [got EXCEPT ![t][fd] = <<>>]
      /\ img' = img /\ node_inode' = node_inode
  BY DEF SysClose, vfs_close
<1>3. offset' \in [Tasks -> [Fds -> 0..(WORD - 1)]]
  <2>1. 0 \in 0..(WORD - 1)
    BY Ext2Assumption
  <2> QED
    BY <1>1, <1>2, <2>1 DEF DataOK
<1>4. got' \in [Tasks -> [Fds -> Seq(Nat)]]
  <2>1. <<>> \in Seq(Nat)
    OBVIOUS
  <2> QED
    BY <1>1, <1>2, <2>1 DEF DataOK
<1>5. \A m \in Pool : node_used'[m] = 1 => node_used[m] = 1
  BY <1>1, <1>2 DEF IInv, TablesOK
<1>6. \A u \in Tasks, g \in Fds : g < 3 => files'[u][g] = Closed
  BY <1>1, <1>2 DEF DataOK, IInv, TablesOK
<1> QED
  BY <1>2, <1>3, <1>4, <1>5, <1>6 DEF DataOK

(* The pool, the tables and what they hold stay well formed.               *)
THEOREM DataCorrect == Spec => [](IInv /\ DataOK)
<1>1. Init => DataOK
  <2> SUFFICES ASSUME Init PROVE DataOK
    OBVIOUS
  <2>1. <<>> \in Seq(Nat) /\ 0 \in 0..(WORD - 1) /\ 0 \in Nat
    BY Ext2Assumption
  <2>2. offset \in [Tasks -> [Fds -> 0..(WORD - 1)]] /\ got \in [Tasks -> [Fds -> Seq(Nat)]]
    BY <2>1 DEF Init
  <2> QED
    BY <2>2 DEF Init, DataOK
<1>2. IInv /\ DataOK /\ [Next]_vars => DataOK'
  <2> SUFFICES ASSUME IInv, DataOK, [Next]_vars PROVE DataOK'
    OBVIOUS
  <2>1. ASSUME UNCHANGED vars PROVE DataOK'
    BY <2>1 DEF vars, DataOK
  <2>2. ASSUME NEW t \in Tasks, NEW path \in Paths, SysOpen(t, path) PROVE DataOK'
    BY <2>1, <2>2, OpenKeepsData DEF SysOpen, OpenFails
  <2>3. ASSUME NEW t \in Tasks, NEW fd \in (-1)..MAX_FD, SysClose(t, fd) PROVE DataOK'
    BY <2>3, CloseKeepsData
  <2>4. ASSUME NEW t \in Tasks, NEW fd \in (-1)..MAX_FD, NEW count \in Counts,
               SysRead(t, fd, count)
        PROVE  DataOK'
    BY <2>4, ReadKeepsData
  <2>5. ASSUME NEW t \in Tasks, NEW fd \in (-1)..MAX_FD, SysBadFd(t, fd) PROVE DataOK'
    BY <2>1, <2>5 DEF SysBadFd
  <2> QED
    BY <2>1, <2>2, <2>3, <2>4, <2>5 DEF Next
<1> QED
  BY <1>1, <1>2, Invariance, PTL DEF Spec

(* Every variable keeps its type, whatever files the image holds and       *)
(* however the reads wrap; descriptors 0, 1 and 2 are never handed out.    *)
THEOREM TypeCorrect == Spec => []TypeOK
<1>1. IInv /\ DataOK => TypeOK
  BY DEF IInv, TablesOK, DataOK, TypeOK
<1> QED
  BY <1>1, DataCorrect, PTL

(* On any image the loop of SYS_LS shows a name exactly when the loop of   *)
(* SYS_OPEN finds it.                                                      *)
THEOREM LsCorrect == Spec => []LsShowsOpenable
<1>1. DataOK => LsShowsOpenable
  BY LsFinds DEF DataOK, LsShowsOpenable
<1> QED
  BY <1>1, DataCorrect, PTL

-----------------------------------------------------------------------------
(* What has been read.  No sum of an offset and a count exceeds a u32: the *)
(* images and counts for which it does are the finding of run vfs_wrap.    *)
NoWrap == \A count \in Counts : NDIRECT * block_size + count < WORD

(* The bytes that a read can reach of a file. *)
Limit(i, ino) == Smaller(i.inode[ino].i_size, NDIRECT * block_size)

(* An open descriptor has returned its file from the start to its offset. *)
Read(t, f) ==
  /\ offset[t][f] <= Limit(img, InodeOf(t, f))
  /\ got[t][f] = Piece(img, InodeOf(t, f), 0, offset[t][f])

ReadOK == \A t \in Tasks : \A f \in OpenFds(t) : Read(t, f)

(* A read takes its descriptor on along the file. *)
LEMMA ReadAdvances ==
  ASSUME NoWrap, IInv, DataOK, ReadOK, NEW t \in Tasks, NEW fd \in (-1)..MAX_FD,
         NEW count \in Counts, SysRead(t, fd, count)
  PROVE  Read(t, fd)'
<1> USE Ext2Assumption
<1> DEFINE ino == InodeOf(t, fd)
           o   == offset[t][fd]
           g   == got[t][fd]
           NB  == NDIRECT * block_size
           fs  == img.inode[ino].i_size
<1>1. fd \in Fds /\ fd \in OpenFds(t) /\ FileOK(img, ino)
  BY GoodFd DEF SysRead
<1>2. o \in Nat /\ fs \in Nat /\ count \in Nat /\ NB \in Nat /\ NB < WORD /\ WORD \in Nat
  <2>1. o \in Nat
    BY <1>1 DEF DataOK
  <2>2. fs \in Nat
    BY <1>1 DEF FileOK
  <2> QED
    BY <2>1, <2>2, VfsAssumption
<1>3. o <= Limit(img, ino) /\ g = Piece(img, ino, 0, o)
  BY <1>1 DEF ReadOK, Read
<1>4. PICK n \in Nat :
           /\ offset' = [offset EXCEPT ![t][fd] = (o + n) % WORD]
           /\ got' = [got EXCEPT ![t][fd] = g \o Piece(img, ino, o, n)]
           /\ n = 0 \/ o + n <= NB
           /\ o + count < WORD => n = 0 \/ o + n <= fs
  BY ReadAppends
<1>5. NB + count < WORD
  BY DEF NoWrap
<1>6. InodeOf(t, fd)' = ino /\ img' = img
  BY DEF SysRead, InodeOf
<1>7. offset'[t][fd] = (o + n) % WORD /\ got'[t][fd] = g \o Piece(img, ino, o, n)
  BY <1>1, <1>4 DEF DataOK
<1>8. Limit(img, ino) = Smaller(fs, NB)
  BY DEF Limit
<1> HIDE DEF ino, o, g, NB, fs
<1>9. o <= NB /\ o <= fs
  BY <1>2, <1>3, <1>8 DEF Smaller
<1>10. o + n <= NB /\ o + n <= fs
  BY <1>2, <1>4, <1>5, <1>9
<1>11. (o + n) % WORD = o + n
  <2>1. o + n \in 0..(WORD - 1)
    BY <1>2, <1>10
  <2> HIDE DEF NB
  <2> QED
    BY <1>2, <2>1
<1>12. offset'[t][fd] = o + n /\ o + n <= Limit(img, ino)
  BY <1>2, <1>7, <1>8, <1>10, <1>11 DEF Smaller
<1>13. got'[t][fd] = Piece(img, ino, 0, o + n)
  <2>1. Piece(img, ino, 0, o) \o Piece(img, ino, o, n) = Piece(img, ino, 0, o + n)
    BY <1>2, PiecesJoin
  <2> QED
    BY <1>3, <1>7, <2>1, Zenon
<1> QED
  BY <1>6, <1>12, <1>13 DEF Read

(* A descriptor whose entry, node and history a step leaves alone has read *)
(* what it had read.                                                       *)
LEMMA OthersKeep ==
  ASSUME NEW u, NEW f, Read(u, f), img' = img, files'[u][f] = files[u][f],
         node_inode'[files[u][f].node] = node_inode[files[u][f].node],
         offset'[u][f] = offset[u][f], got'[u][f] = got[u][f]
  PROVE  Read(u, f)'
  BY DEF Read, InodeOf

(* Opening a file disturbs no descriptor that is open already: it takes a  *)
(* node that none of them has.                                             *)
LEMMA OpenKeepsReads ==
  ASSUME IInv, DataOK, ReadOK, NEW t \in Tasks, NEW path,
         OpenSucceeds(t, path) \/ OpenNoFd(t, path)
  PROVE  ReadOK'
<1>1. ASSUME NEW n \in FreeNodes, FillNode(n, path), NEW u \in Tasks, NEW g \in OpenFds(u)
      PROVE  node_inode'[files[u][g].node] = node_inode[files[u][g].node]
  <2>1. node_inode' = [node_inode EXCEPT ![n] = ext2_find(img, FileName(path))]
    BY <1>1 DEF FillNode
  <2>2. files[u][g].node \in Pool /\ files[u][g].node # n
    BY DEF IInv, NodesNotShared, FreeNodes
  <2> QED
    BY <2>1, <2>2 DEF DataOK
<1>2. CASE OpenNoFd(t, path)
  <2>1. files' = files /\ UNCHANGED <<img, offset, got>>
    BY <1>2 DEF OpenNoFd
  <2>2. PICK n \in FreeNodes : FillNode(n, path)
    BY <1>2 DEF OpenNoFd
  <2> SUFFICES ASSUME NEW u \in Tasks, NEW g \in OpenFds(u)' PROVE Read(u, g)'
    BY DEF ReadOK
  <2>3. g \in OpenFds(u)
    BY <2>1 DEF OpenFds
  <2>4. Read(u, g)
    BY <2>3 DEF ReadOK
  <2> QED
    BY <1>1, <2>1, <2>2, <2>3, <2>4, OthersKeep
<1>3. CASE OpenSucceeds(t, path)
  <2>1. PICK n \in FreeNodes, fd \in FreeFds(t) :
          /\ FillNode(n, path)
          /\ files' = [files EXCEPT ![t][fd] = [node |-> n, used |-> 1]]
          /\ offset' = [offset EXCEPT ![t][fd] = 0]
          /\ got' = [got EXCEPT ![t][fd] = <<>>]
          /\ img' = img
    BY <1>3 DEF OpenSucceeds
  <2>2. fd \in Fds
    BY VfsAssumption DEF FreeFds, Fds
  <2> SUFFICES ASSUME NEW u \in Tasks, NEW g \in OpenFds(u)' PROVE Read(u, g)'
    BY DEF ReadOK
  <2>3. g \in Fds /\ files'[u][g].used = 1
    BY DEF OpenFds
  <2>4. CASE u = t /\ g = fd
    <3>1. offset'[u][g] = 0 /\ got'[u][g] = <<>>
      BY <2>1, <2>2, <2>4 DEF DataOK
    <3>2. InodeOf(u, g)' = ext2_find(img, FileName(path)) /\ InodeOf(u, g)' # 0
      <4>1. files'[u][g].node = n /\ n \in Pool
        BY <2>1, <2>2, <2>4 DEF IInv, TablesOK, FreeNodes
      <4>2. node_inode'[n] = ext2_find(img, FileName(path)) /\ node_inode'[n] # 0
        BY <2>1, <4>1 DEF FillNode, DataOK
      <4> QED
        BY <4>1, <4>2 DEF InodeOf
    <3>3. FileOK(img, InodeOf(u, g)')
      BY <3>2, FoundIsFile DEF DataOK
    <3>4. 0 <= Limit(img, InodeOf(u, g)')
      BY <3>3, Ext2Assumption DEF Limit, FileOK, Smaller
    <3>5. Piece(img, InodeOf(u, g)', 0, 0) = <<>>
      BY DEF Piece
    <3> QED
      BY <2>1, <3>1, <3>4, <3>5 DEF Read
  <2>5. CASE ~(u = t /\ g = fd)
    <3>1. files'[u][g] = files[u][g]
      BY <2>1, <2>2, <2>3, <2>5 DEF IInv, TablesOK
    <3>2. offset'[u][g] = offset[u][g] /\ got'[u][g] = got[u][g]
      BY <2>1, <2>2, <2>3, <2>5 DEF DataOK
    <3>3. g \in OpenFds(u)
      BY <2>3, <3>1 DEF OpenFds
    <3>4. Read(u, g)
      BY <3>3 DEF ReadOK
    <3> QED
      BY <1>1, <2>1, <3>1, <3>2, <3>3, <3>4, OthersKeep
  <2> QED
    BY <2>4, <2>5
<1> QED
  BY <1>2, <1>3

(* Every open descriptor has returned its file from the start to its       *)
(* offset: any files, any sizes of reads, any interleaving.                *)
THEOREM ReadInvariance == ASSUME NoWrap PROVE Spec => []ReadOK
<1>1. Init => ReadOK
  BY DEF Init, ReadOK, OpenFds, Closed
<1>2. IInv /\ DataOK /\ ReadOK /\ [Next]_vars => ReadOK'
  <2> SUFFICES ASSUME IInv, DataOK, ReadOK, [Next]_vars PROVE ReadOK'
    OBVIOUS
  <2>1. ASSUME UNCHANGED vars PROVE ReadOK'
    BY <2>1 DEF vars, ReadOK, OpenFds, Read, InodeOf
  <2>2. ASSUME NEW t \in Tasks, NEW path \in Paths, SysOpen(t, path) PROVE ReadOK'
    BY <2>1, <2>2, OpenKeepsReads DEF SysOpen, OpenFails
  <2>3. ASSUME NEW t \in Tasks, NEW fd \in (-1)..MAX_FD, SysClose(t, fd) PROVE ReadOK'
    <3>1. fd \in Fds
      BY <2>3, GoodFd DEF SysClose
    <3>2. /\ files' = [files EXCEPT ![t][fd] = Closed]
          /\ offset' = [offset EXCEPT ![t][fd] = 0]
          /\ got' = [got EXCEPT ![t][fd] = <<>>]
          /\ img' = img /\ node_inode' = node_inode
      BY <2>3 DEF SysClose
    <3> SUFFICES ASSUME NEW u \in Tasks, NEW g \in OpenFds(u)' PROVE Read(u, g)'
      BY DEF ReadOK
    <3>3. g \in Fds /\ files'[u][g].used = 1
      BY DEF OpenFds
    <3>4. ~(u = t /\ g = fd)
      BY <3>1, <3>2, <3>3 DEF IInv, TablesOK, Closed
    <3>5. files'[u][g] = files[u][g]
      BY <3>1, <3>2, <3>3, <3>4 DEF IInv, TablesOK
    <3>6. offset'[u][g] = offset[u][g] /\ got'[u][g] = got[u][g]
      BY <3>1, <3>2, <3>3, <3>4 DEF DataOK
    <3>7. Read(u, g)
      BY <3>3, <3>5 DEF ReadOK, OpenFds
    <3> QED
      BY <3>2, <3>5, <3>6, <3>7, OthersKeep
  <2>4. ASSUME NEW t \in Tasks, NEW fd \in (-1)..MAX_FD, NEW count \in Counts,
               SysRead(t, fd, count)
        PROVE  ReadOK'
    <3>1. fd \in Fds
      BY <2>4, GoodFd DEF SysRead
    <3>2. UNCHANGED <<img, node_inode, files>>
      BY <2>4 DEF SysRead
    <3> SUFFICES ASSUME NEW u \in Tasks, NEW g \in OpenFds(u)' PROVE Read(u, g)'
      BY DEF ReadOK
    <3>3. g \in Fds /\ g \in OpenFds(u)
      BY <3>2 DEF OpenFds
    <3>4. CASE u = t /\ g = fd
      BY <2>4, <3>4, ReadAdvances
    <3>5. CASE ~(u = t /\ g = fd)
      <4>1. offset'[u][g] = offset[u][g] /\ got'[u][g] = got[u][g]
        BY <2>4, <3>1, <3>3, <3>5 DEF SysRead, DataOK
      <4>2. Read(u, g)
        BY <3>3 DEF ReadOK
      <4> QED
        BY <3>2, <4>1, <4>2, OthersKeep
    <3> QED
      BY <3>4, <3>5
  <2>5. ASSUME NEW t \in Tasks, NEW fd \in (-1)..MAX_FD, SysBadFd(t, fd) PROVE ReadOK'
    BY <2>1, <2>5 DEF SysBadFd
  <2> QED
    BY <2>1, <2>2, <2>3, <2>4, <2>5 DEF Next
<1> QED
  BY <1>1, <1>2, DataCorrect, PTL DEF Spec

(* Where no read wraps, what SYS_READ returns through a descriptor, read   *)
(* after read, is the file's content in order: no byte is lost, repeated   *)
(* or taken from another file, at any block boundary, in any file.         *)
THEOREM ReadsCorrect == ASSUME NoWrap PROVE Spec => []ReadsAreSequential
<1>1. IInv /\ DataOK /\ ReadOK => ReadsAreSequential
  <2> SUFFICES ASSUME IInv, DataOK, ReadOK, NEW t \in Tasks, NEW f \in OpenFds(t)
               PROVE  LET c == Content(img, InodeOf(t, f)) IN
                      /\ offset[t][f] = Len(got[t][f])
                      /\ Len(got[t][f]) <= Len(c)
                      /\ got[t][f] = SubSeq(c, 1, Len(got[t][f]))
    BY DEF ReadsAreSequential
  <2> DEFINE ino == InodeOf(t, f)
             o   == offset[t][f]
  <2>1. o <= Limit(img, ino) /\ got[t][f] = Piece(img, ino, 0, o)
    BY DEF ReadOK, Read
  <2>2. f \in Fds /\ files[t][f].node \in Pool /\ node_used[files[t][f].node] = 1
    BY DEF IInv, NodesNotShared, OpenFds
  <2>3. FileOK(img, ino) /\ o \in Nat
    BY <2>2, Ext2Assumption DEF DataOK, InodeOf
  <2> HIDE DEF ino, o
  <2>4. Len(got[t][f]) = o
    BY <2>1, <2>3, PieceLen
  <2>5. o <= Len(Content(img, ino)) /\ Piece(img, ino, 0, o) = SubSeq(Content(img, ino), 1, o)
    BY <2>1, <2>3, PieceIsPrefix DEF Limit
  <2> QED
    BY <2>1, <2>4, <2>5 DEF ino, o
<1> QED
  BY <1>1, DataCorrect, ReadInvariance, PTL
=============================================================================
