---------------------------- MODULE ShellProofs ------------------------------
(***************************************************************************)
(* The shell over the keyboard driver, for any buffer and line size, any   *)
(* word for its commands, any width of an int and any number of keys and   *)
(* signals.                                                                *)
(***************************************************************************)
EXTENDS Shell, KeyboardProofs, WellFoundedInduction, TLAPS

-----------------------------------------------------------------------------
(* Induction.  The least-number principle is an instance of WFMin: it      *)
(* speaks of sets, which the provers can be given.                         *)

(* A non-empty set of numbers has a least element. *)
LEMMA MinIs ==
  ASSUME NEW S, S \subseteq Nat, S # {}
  PROVE  Min(S) \in S /\ \A y \in S : Min(S) <= y
<1>1. PICK m \in S : \A y \in S : ~(<<y, m>> \in OpToRel(<, Nat))
  BY NatLessThanWellFounded, WFMin
<1>2. \A x, y \in Nat : x < y => <<x, y>> \in OpToRel(<, Nat)
  BY DEF OpToRel
<1>3. \A y \in S : ~(y < m)
  BY <1>1, <1>2, Zenon
<1>4. \A y \in S : m <= y
  BY <1>3
<1> QED
  BY <1>4 DEF Min

(* A set of numbers with 0 and every successor holds all of them. *)
LEMMA Induction ==
  ASSUME NEW S, 0 \in S, \A n \in Nat : n \in S => n + 1 \in S
  PROVE  \A n \in Nat : n \in S
<1> SUFFICES ASSUME Nat \ S # {} PROVE FALSE
  OBVIOUS
<1> DEFINE m == Min(Nat \ S)
<1>1. m \in Nat \ S /\ \A y \in Nat \ S : m <= y
  BY MinIs
<1> HIDE DEF m
<1>2. m - 1 \in Nat /\ m - 1 \in S
  BY <1>1
<1> QED
  BY <1>1, <1>2

(* The loop of n rounds that starts with v and whose round k does G[k] has *)
(* a history of values in V.                                               *)
HasHistory(V, v, n, G) ==
  \E g \in [0..n -> V] : g[0] = v /\ \A k \in 1..n : g[k] = G[k][g[k - 1]]

(* Every such loop has one. *)
LEMMA Iteration ==
  ASSUME NEW V, NEW v \in V, NEW n \in Nat, NEW G \in [1..n -> [V -> V]]
  PROVE  HasHistory(V, v, n, G)
<1> DEFINE Q(m) == \E g \in [0..m -> V] : g[0] = v /\ \A k \in 1..m : g[k] = G[k][g[k - 1]]
           S    == {m \in Nat : m <= n => Q(m)}
<1>1. 0 \in S
  <2> DEFINE g == [k \in 0..0 |-> v]
  <2>1. g \in [0..0 -> V] /\ g[0] = v
    OBVIOUS
  <2>2. \A k \in 1..0 : g[k] = G[k][g[k - 1]]
    OBVIOUS
  <2> QED
    BY <2>1, <2>2
<1>2. ASSUME NEW m \in Nat, m \in S PROVE m + 1 \in S
  <2> SUFFICES ASSUME m + 1 <= n PROVE Q(m + 1)
    OBVIOUS
  <2>1. PICK g \in [0..m -> V] : g[0] = v /\ \A k \in 1..m : g[k] = G[k][g[k - 1]]
    BY <1>2
  <2> DEFINE w == G[m + 1][g[m]]
             h == [k \in 0..(m + 1) |-> IF k = m + 1 THEN w ELSE g[k]]
  <2>2. w \in V
    BY <2>1
  <2>3. h \in [0..(m + 1) -> V] /\ h[0] = v
    BY <2>1, <2>2
  <2>4. ASSUME NEW k \in 1..(m + 1) PROVE h[k] = G[k][h[k - 1]]
    <3>1. CASE k = m + 1
      BY <3>1
    <3>2. CASE k # m + 1
      BY <2>1, <3>2
    <3> QED
      BY <3>1, <3>2
  <2> QED
    BY <2>3, <2>4
<1> HIDE DEF S
<1>3. \A m \in Nat : m \in S
  BY <1>1, <1>2, Induction
<1>4. n \in S
  BY <1>3
<1> QED
  BY <1>4 DEF S, HasHistory

-----------------------------------------------------------------------------
(* Arithmetic modulo the range of an int. *)

M == 2 * (INT_MAX + 1)

(* An int has at least one value. *)
LEMMA MIs == M \in Nat \ {0} /\ M = 2 * (INT_MAX + 1)
  BY ShellAssumption DEF M

(* A multiple of m that is smaller than m is 0. *)
LEMMA SmallMultiple ==
  ASSUME NEW m \in Nat \ {0}, NEW k \in Int, m * k < m, m * k > -m
  PROVE  k = 0
<1>1. CASE k >= 1
  <2>1. k - 1 \in Nat /\ m * k = m + m * (k - 1)
    BY <1>1
  <2>2. m * (k - 1) \in Nat
    BY <2>1
  <2> QED
    BY <2>1, <2>2
<1>2. CASE k <= -1
  <2>1. -1 - k \in Nat /\ m * k = -m - m * (-1 - k)
    BY <1>2
  <2>2. m * (-1 - k) \in Nat
    BY <2>1
  <2> QED
    BY <2>1, <2>2
<1> QED
  BY <1>1, <1>2

(* The modulo is a remainder. *)
LEMMA Remainder ==
  ASSUME NEW m \in Nat \ {0}, NEW a \in Int
  PROVE  \E q \in Int : a = m * q + (a % m) /\ a % m \in 0..(m - 1)
<1>1. a \div m \in Int /\ a = m * (a \div m) + (a % m) /\ a % m \in 0..(m - 1)
  OBVIOUS
<1> QED
  BY <1>1

(* The modulo of a small number is the number. *)
LEMMA SmallMod ==
  ASSUME NEW m \in Nat \ {0}, NEW a \in 0..(m - 1)
  PROVE  a % m = a
OBVIOUS

(* One round of str_atoi works modulo m. *)
LEMMA Congruent ==
  ASSUME NEW m \in Nat \ {0}, NEW a \in Int, NEW b \in Int, NEW d \in Int, a % m = b % m
  PROVE  (10 * a + d) % m = (10 * b + d) % m
<1> DEFINE x == 10 * a + d
           y == 10 * b + d
           rx == x % m
           ry == y % m
<1>1. x \in Int /\ y \in Int
  OBVIOUS
<1>2. PICK qa \in Int : a = m * qa + (a % m) /\ a % m \in 0..(m - 1)
  BY Remainder
<1>3. PICK qb \in Int : b = m * qb + (b % m) /\ b % m \in 0..(m - 1)
  BY Remainder
<1>4. PICK qx \in Int : x = m * qx + rx /\ rx \in 0..(m - 1)
  BY <1>1, Remainder
<1>5. PICK qy \in Int : y = m * qy + ry /\ ry \in 0..(m - 1)
  BY <1>1, Remainder
<1>6. x - y = 10 * (a - b)
  OBVIOUS
<1> HIDE DEF x, y, rx, ry
<1> DEFINE k == qx - qy - 10 * (qa - qb)
<1>7. k \in Int
  OBVIOUS
<1>8. m * k = ry - rx
  <2>1. m * k = m * qx - m * qy - 10 * (m * qa - m * qb)
    OBVIOUS
  <2> DEFINE A == m * qa
             B == m * qb
             X == m * qx
             Y == m * qy
  <2>2. A \in Int /\ B \in Int /\ X \in Int /\ Y \in Int
    OBVIOUS
  <2>3. m * k = X - Y - 10 * (A - B) /\ x = X + rx /\ y = Y + ry
        /\ a = A + (a % m) /\ b = B + (a % m) /\ a % m \in Int
    BY <1>2, <1>3, <1>4, <1>5, <2>1
  <2> HIDE DEF A, B, X, Y, k
  <2> QED
    BY <1>1, <1>4, <1>5, <1>6, <2>2, <2>3
<1> HIDE DEF k
<1>9. k = 0
  <2>1. ry - rx < m /\ ry - rx > -m
    BY <1>4, <1>5
  <2>2. m * k < m /\ m * k > -m
    BY <1>8, <2>1
  <2> QED
    BY <1>7, <2>2, SmallMultiple
<1>10. rx = ry
  <2>1. m * k = 0
    BY <1>9
  <2> QED
    BY <1>4, <1>5, <1>8, <2>1
<1> QED
  BY <1>10 DEF rx, ry, x, y

(* Int32 of a number below 2 * (INT_MAX + 1) is that number modulo it, and *)
(* is that number when it is positive.                                     *)
LEMMA Int32Is ==
  ASSUME NEW n \in 0..(M - 1)
  PROVE  /\ Int32(n) \in Int /\ Int32(n) <= INT_MAX /\ Int32(n) % M = n
         /\ Int32(n) > 0 => Int32(n) = n
<1>1. M \in Nat \ {0} /\ M = 2 * (INT_MAX + 1) /\ INT_MAX \in Nat
  BY MIs, ShellAssumption
<1> HIDE DEF M
<1>2. CASE n > INT_MAX
  <2>1. Int32(n) = n - M
    BY <1>1, <1>2 DEF Int32
  <2>2. (n - M) % M = n
    BY <1>1
  <2> QED
    BY <1>1, <1>2, <2>1, <2>2
<1>3. CASE ~(n > INT_MAX)
  <2>1. Int32(n) = n
    BY <1>3 DEF Int32
  <2>2. n % M = n
    BY <1>1
  <2> QED
    BY <1>1, <1>3, <2>1, <2>2
<1> QED
  BY <1>2, <1>3

-----------------------------------------------------------------------------
(* str_atoi. *)

(* the number of leading digits, and a round of the loop *)
Digits(s) == Min({i \in 1..Len(s) : ~IsDigit(s[i])} \cup {Len(s) + 1}) - 1
AtoiStep(s, i, x) == Int32((10 * x + s[i] - ZERO) % (2 * (INT_MAX + 1)))
DigitStep(s, i, x) == 10 * x + s[i] - ZERO

(* Digits is what its name says. *)
LEMMA DigitsAre ==
  ASSUME NEW s \in Seq(Nat)
  PROVE  /\ Digits(s) \in 0..Len(s)
         /\ \A i \in 1..Digits(s) : IsDigit(s[i])
         /\ Digits(s) < Len(s) => ~IsDigit(s[Digits(s) + 1])
<1> DEFINE T == {i \in 1..Len(s) : ~IsDigit(s[i])} \cup {Len(s) + 1}
           d == Min(T)
<1>1. Len(s) \in Nat
  OBVIOUS
<1>2. T \subseteq Nat /\ Len(s) + 1 \in T
  BY <1>1
<1>3. d \in T /\ \A y \in T : d <= y
  <2> HIDE DEF T
  <2> QED
    BY <1>2, MinIs
<1> HIDE DEF d
<1>4. Digits(s) = d - 1
  BY DEF Digits, d
<1>5. d \in 1..(Len(s) + 1)
  BY <1>1, <1>3
<1>6. \A i \in 1..(d - 1) : IsDigit(s[i])
  <2> SUFFICES ASSUME NEW i \in 1..(d - 1), ~IsDigit(s[i]) PROVE FALSE
    OBVIOUS
  <2>1. i \in 1..Len(s) /\ i < d
    BY <1>1, <1>5
  <2>2. i \in T
    BY <2>1
  <2> QED
    BY <1>3, <1>5, <2>1, <2>2
<1>7. d - 1 < Len(s) => ~IsDigit(s[d])
  BY <1>1, <1>3, <1>5
<1>8. d - 1 + 1 = d
  BY <1>5
<1> QED
  BY <1>4, <1>5, <1>6, <1>7, <1>8

(* A round of str_atoi returns an int. *)
LEMMA AtoiStepIs ==
  ASSUME NEW s \in Seq(Nat), NEW i \in 1..Len(s), NEW x \in Int
  PROVE  LET y == DigitStep(s, i, x) IN
         /\ y \in Int /\ AtoiStep(s, i, x) \in Int /\ AtoiStep(s, i, x) <= INT_MAX
         /\ AtoiStep(s, i, x) % M = y % M
         /\ AtoiStep(s, i, x) > 0 => AtoiStep(s, i, x) = y % M
<1> DEFINE y == DigitStep(s, i, x)
<1>1. y \in Int
  BY ShellAssumption DEF DigitStep
<1>2. AtoiStep(s, i, x) = Int32(y % M)
  BY DEF AtoiStep, DigitStep, M
<1> HIDE DEF y
<1>3. M \in Nat \ {0}
  BY MIs
<1>4. y % M \in 0..(M - 1)
  BY <1>1, <1>3
<1>5. /\ Int32(y % M) \in Int /\ Int32(y % M) <= INT_MAX /\ Int32(y % M) % M = y % M
      /\ Int32(y % M) > 0 => Int32(y % M) = y % M
  BY <1>4, Int32Is
<1> QED
  BY <1>1, <1>2, <1>5 DEF y

(* str_atoi is its loop. *)
LEMMA AtoiIs ==
  ASSUME NEW s \in Seq(Nat)
  PROVE  \E v \in [0..Digits(s) -> Int] :
           /\ v[0] = 0 /\ str_atoi(s) = v[Digits(s)]
           /\ \A i \in 1..Digits(s) : v[i] = AtoiStep(s, i, v[i - 1])
<1> DEFINE n == Digits(s)
           G == [k \in 1..n |-> [x \in Int |-> AtoiStep(s, k, x)]]
           D(f) == [i \in 0..n |-> IF i = 0 THEN 0 ELSE AtoiStep(s, i, f[i - 1])]
           R(f) == [i \in 0..n |-> IF i = 0 THEN 0
                     ELSE Int32((10 * f[i - 1] + s[i] - ZERO) % (2 * (INT_MAX + 1)))]
           v == CHOOSE f : f = R(f)
<1>1. n \in Nat /\ \A i \in 1..n : i \in 1..Len(s) /\ i - 1 \in 0..n
  BY DigitsAre
<1>2. str_atoi(s) = v[n]
  BY Zenon DEF str_atoi, Digits
<1> HIDE DEF n
<1>3. G \in [1..n -> [Int -> Int]]
  BY <1>1, AtoiStepIs
<1>4. PICK g \in [0..n -> Int] : g[0] = 0 /\ \A k \in 1..n : g[k] = G[k][g[k - 1]]
  <2> HIDE DEF G
  <2>1. HasHistory(Int, 0, n, G)
    <3>1. 0 \in Int
      OBVIOUS
    <3> QED
      BY <1>1, <1>3, <3>1, Iteration, Zenon
  <2> QED
    BY <2>1 DEF HasHistory
<1>5. g = D(g)
  <2>1. ASSUME NEW i \in 0..n PROVE g[i] = IF i = 0 THEN 0 ELSE AtoiStep(s, i, g[i - 1])
    <3>1. CASE i = 0
      BY <1>4, <3>1
    <3>2. CASE i # 0
      <4>1. i \in 1..n /\ i - 1 \in 0..n
        BY <1>1, <3>2
      <4> QED
        BY <1>4, <3>2, <4>1
    <3> QED
      BY <3>1, <3>2
  <2> QED
    BY <2>1
<1>6. g = R(g)
  BY <1>5, Zenon DEF AtoiStep
<1>7. v = R(v)
  BY <1>6, Zenon
<1> HIDE DEF v
<1>8. v = D(v)
  BY <1>7, Zenon DEF AtoiStep
<1> HIDE DEF R
<1>9. v[0] = 0 /\ \A i \in 1..n : v[i] = AtoiStep(s, i, v[i - 1])
  BY <1>1, <1>8
<1>10. \A i \in Nat : i <= n => v[i] \in Int
  <2> DEFINE S == {i \in Nat : i <= n => v[i] \in Int}
  <2>1. 0 \in S
    BY <1>9
  <2>2. ASSUME NEW i \in Nat, i \in S PROVE i + 1 \in S
    <3> SUFFICES ASSUME i + 1 <= n PROVE v[i + 1] \in Int
      OBVIOUS
    <3>1. i + 1 \in 1..n /\ i + 1 \in 1..Len(s) /\ (i + 1) - 1 = i /\ v[i] \in Int
      BY <1>1, <2>2
    <3>2. v[i + 1] = AtoiStep(s, i + 1, v[i])
      BY <1>9, <3>1
    <3> QED
      BY <3>1, <3>2, AtoiStepIs
  <2> HIDE DEF S
  <2>3. \A i \in Nat : i \in S
    BY <2>1, <2>2, Induction
  <2> QED
    BY <2>3 DEF S
<1>11. v \in [0..n -> Int]
  BY <1>1, <1>8, <1>10
<1> QED
  BY <1>2, <1>9, <1>11 DEF n

(* So is Value. *)
LEMMA ValueIs ==
  ASSUME NEW d \in Seq(Nat)
  PROVE  \E w \in [0..Len(d) -> Int] :
           /\ w[0] = 0 /\ Value(d) = w[Len(d)] % M
           /\ \A i \in 1..Len(d) : w[i] = DigitStep(d, i, w[i - 1])
<1> DEFINE n == Len(d)
           G == [k \in 1..n |-> [x \in Int |-> DigitStep(d, k, x)]]
           D(f) == [i \in 0..n |-> IF i = 0 THEN 0 ELSE DigitStep(d, i, f[i - 1])]
           R(f) == [i \in 0..n |-> IF i = 0 THEN 0 ELSE 10 * f[i - 1] + d[i] - ZERO]
           v == CHOOSE f : f = R(f)
<1>1. n \in Nat /\ \A i \in 1..n : i \in 1..Len(d) /\ i - 1 \in 0..n
  OBVIOUS
<1>2. Value(d) = v[n] % M
  BY Zenon DEF Value, M
<1> HIDE DEF n
<1>3. G \in [1..n -> [Int -> Int]]
  BY <1>1, AtoiStepIs
<1>4. PICK g \in [0..n -> Int] : g[0] = 0 /\ \A k \in 1..n : g[k] = G[k][g[k - 1]]
  <2> HIDE DEF G
  <2>1. HasHistory(Int, 0, n, G)
    <3>1. 0 \in Int
      OBVIOUS
    <3> QED
      BY <1>1, <1>3, <3>1, Iteration, Zenon
  <2> QED
    BY <2>1 DEF HasHistory
<1>5. g = D(g)
  <2>1. ASSUME NEW i \in 0..n PROVE g[i] = IF i = 0 THEN 0 ELSE DigitStep(d, i, g[i - 1])
    <3>1. CASE i = 0
      BY <1>4, <3>1
    <3>2. CASE i # 0
      <4>1. i \in 1..n /\ i - 1 \in 0..n
        BY <1>1, <3>2
      <4> QED
        BY <1>4, <3>2, <4>1
    <3> QED
      BY <3>1, <3>2
  <2> QED
    BY <2>1
<1>6. g = R(g)
  BY <1>5, Zenon DEF DigitStep
<1>7. v = R(v)
  BY <1>6, Zenon
<1> HIDE DEF v
<1>8. v = D(v)
  BY <1>7, Zenon DEF DigitStep
<1> HIDE DEF R
<1>9. v[0] = 0 /\ \A i \in 1..n : v[i] = DigitStep(d, i, v[i - 1])
  BY <1>1, <1>8
<1>10. \A i \in Nat : i <= n => v[i] \in Int
  <2> DEFINE S == {i \in Nat : i <= n => v[i] \in Int}
  <2>1. 0 \in S
    BY <1>9
  <2>2. ASSUME NEW i \in Nat, i \in S PROVE i + 1 \in S
    <3> SUFFICES ASSUME i + 1 <= n PROVE v[i + 1] \in Int
      OBVIOUS
    <3>1. i + 1 \in 1..n /\ i + 1 \in 1..Len(d) /\ (i + 1) - 1 = i /\ v[i] \in Int
      BY <1>1, <2>2
    <3>2. v[i + 1] = DigitStep(d, i + 1, v[i])
      BY <1>9, <3>1
    <3> QED
      BY <3>1, <3>2, AtoiStepIs
  <2> HIDE DEF S
  <2>3. \A i \in Nat : i \in S
    BY <2>1, <2>2, Induction
  <2> QED
    BY <2>3 DEF S
<1>11. v \in [0..n -> Int]
  BY <1>1, <1>8, <1>10
<1> QED
  BY <1>2, <1>9, <1>11 DEF n

(* A positive result of str_atoi is the value of the digits, modulo 2^w:   *)
(* the wrap-arounds of the rounds amount to one at the end.                *)
LEMMA AtoiValue ==
  ASSUME NEW s \in Seq(Nat)
  PROVE  /\ str_atoi(s) \in Int
         /\ str_atoi(s) > 0 => Digits(s) > 0 /\ Value(SubSeq(s, 1, Digits(s))) = str_atoi(s)
<1> DEFINE n == Digits(s)
           d == SubSeq(s, 1, n)
<1>1. n \in 0..Len(s) /\ n \in Nat /\ Len(s) \in Nat
  BY DigitsAre
<1>2. PICK v \in [0..n -> Int] :
           /\ v[0] = 0 /\ str_atoi(s) = v[n]
           /\ \A i \in 1..n : v[i] = AtoiStep(s, i, v[i - 1])
  BY AtoiIs
<1> HIDE DEF n
<1>3. d \in Seq(Nat) /\ Len(d) = n /\ \A i \in 1..n : d[i] = s[i]
  BY <1>1
<1>4. PICK w \in [0..n -> Int] :
           /\ w[0] = 0 /\ Value(d) = w[n] % M
           /\ \A i \in 1..n : w[i] = DigitStep(d, i, w[i - 1])
  <2> HIDE DEF d
  <2>1. \E x \in [0..Len(d) -> Int] :
           /\ x[0] = 0 /\ Value(d) = x[Len(d)] % M
           /\ \A i \in 1..Len(d) : x[i] = DigitStep(d, i, x[i - 1])
    BY <1>3, ValueIs
  <2> QED
    BY <1>3, <2>1
<1>5. M \in Nat \ {0} /\ INT_MAX < M
  BY MIs, ShellAssumption
<1>6. \A i \in Nat : i <= n => v[i] % M = w[i] % M /\ (i > 0 => v[i] <= INT_MAX)
  <2> DEFINE S == {i \in Nat : i <= n => v[i] % M = w[i] % M /\ (i > 0 => v[i] <= INT_MAX)}
  <2>1. 0 \in S
    BY <1>2, <1>4
  <2>2. ASSUME NEW i \in Nat, i \in S PROVE i + 1 \in S
    <3> SUFFICES ASSUME i + 1 <= n PROVE v[i + 1] % M = w[i + 1] % M /\ v[i + 1] <= INT_MAX
      OBVIOUS
    <3> DEFINE j == i + 1
               e == s[j] - ZERO
    <3>1. j \in 1..n /\ j \in 1..Len(s) /\ j - 1 = i /\ i \in 0..n /\ i <= n
      BY <1>1
    <3>2. v[i] % M = w[i] % M /\ v[i] \in Int /\ w[i] \in Int
      BY <1>2, <1>4, <2>2, <3>1
    <3>3. v[j] = AtoiStep(s, j, v[i])
      BY <1>2, <3>1
    <3>4. w[j] = DigitStep(d, j, w[i]) /\ d[j] = s[j]
      BY <1>3, <1>4, <3>1
    <3>5. e \in Int
      BY <3>1, ShellAssumption
    <3>6. DigitStep(s, j, v[i]) = 10 * v[i] + e /\ w[j] = 10 * w[i] + e
      BY <3>1, <3>2, <3>4, ShellAssumption DEF DigitStep
    <3>7. v[j] <= INT_MAX /\ v[j] % M = DigitStep(s, j, v[i]) % M
      BY <3>1, <3>2, <3>3, AtoiStepIs
    <3> HIDE DEF e, j
    <3>8. (10 * v[i] + e) % M = (10 * w[i] + e) % M
      BY <1>5, <3>2, <3>5, Congruent
    <3> QED
      BY <3>6, <3>7, <3>8 DEF j
  <2> HIDE DEF S
  <2>3. \A i \in Nat : i \in S
    BY <2>1, <2>2, Induction
  <2> QED
    BY <2>3 DEF S
<1>7. v[n] \in Int /\ v[n] % M = w[n] % M
  BY <1>1, <1>2, <1>6
<1>8. v[n] > 0 => n > 0 /\ v[n] <= INT_MAX
  BY <1>1, <1>2, <1>6
<1>9. v[n] > 0 => v[n] % M = v[n]
  <2> SUFFICES ASSUME v[n] > 0 PROVE v[n] % M = v[n]
    OBVIOUS
  <2>1. v[n] \in 0..(M - 1)
    BY <1>5, <1>7, <1>8, ShellAssumption
  <2> QED
    BY <1>5, <2>1, SmallMod
<1>10. str_atoi(s) > 0 => n > 0 /\ Value(d) = str_atoi(s)
  BY <1>2, <1>4, <1>7, <1>8, <1>9
<1> QED
  BY <1>2, <1>7, <1>10 DEF n

-----------------------------------------------------------------------------
(* The argument of a command. *)

(* the first space of l, and the first character after the spaces *)
WordEnd(l) == Min({i \in 1..Len(l) : l[i] = SP} \cup {Len(l) + 1})
ArgStart(l) == Min({i \in WordEnd(l)..Len(l) : l[i] # SP} \cup {Len(l) + 1})

(* A sequence over a set is one over a larger set. *)
LEMMA SeqWidens ==
  ASSUME NEW X, NEW Y, X \subseteq Y, NEW s \in Seq(X)
  PROVE  s \in Seq(Y)
<1>1. Len(s) \in Nat /\ s \in [1..Len(s) -> X]
  BY LenProperties
<1>2. s \in [1..Len(s) -> Y]
  BY <1>1
<1> QED
  BY <1>1, <1>2

(* A part of a sequence. *)
LEMMA PartIs ==
  ASSUME NEW X, NEW s \in Seq(X), NEW a \in 1..(Len(s) + 1), NEW b \in (a - 1)..Len(s)
  PROVE  /\ SubSeq(s, a, b) \in Seq(X) /\ Len(SubSeq(s, a, b)) = b - a + 1
         /\ \A i \in 1..(b - a + 1) : SubSeq(s, a, b)[i] = s[a + i - 1]
<1>1. \A i \in a..b : i \in 1..Len(s)
  OBVIOUS
<1>2. \A i \in a..b : s[i] \in X
  BY <1>1
<1>3. a \in Int /\ b \in Int /\ Len(s) \in Nat
  OBVIOUS
<1>4. /\ SubSeq(s, a, b) \in Seq(X)
      /\ Len(SubSeq(s, a, b)) = IF a <= b THEN b - a + 1 ELSE 0
      /\ \A i \in 1..(b - a + 1) : SubSeq(s, a, b)[i] = s[a + i - 1]
  BY <1>2, <1>3, SubSeqProperties
<1>5. (IF a <= b THEN b - a + 1 ELSE 0) = b - a + 1
  BY <1>3
<1> QED
  BY <1>4, <1>5

(* str_skip_word skips what is not a space, and then the spaces. *)
LEMMA SkipIs ==
  ASSUME NEW l \in Seq(Nat)
  PROVE  LET w == WordEnd(l)
             a == ArgStart(l) IN
         /\ w \in 1..(Len(l) + 1) /\ (\A i \in 1..(w - 1) : l[i] # SP)
         /\ w <= Len(l) => l[w] = SP
         /\ a \in w..(Len(l) + 1) /\ (\A i \in w..(a - 1) : l[i] = SP)
         /\ a <= Len(l) => l[a] # SP
         /\ str_skip_word(l) = SubSeq(l, a, Len(l))
<1> DEFINE n == Len(l)
           T == {i \in 1..n : l[i] = SP} \cup {n + 1}
           w == Min(T)
           U == {i \in w..n : l[i] # SP} \cup {n + 1}
           a == Min(U)
<1>1. n \in Nat
  OBVIOUS
<1>2. T \subseteq Nat /\ n + 1 \in T
  BY <1>1
<1>3. w \in T /\ \A y \in T : w <= y
  <2> HIDE DEF T
  <2> QED
    BY <1>2, MinIs
<1>4. WordEnd(l) = w /\ ArgStart(l) = a
  BY Zenon DEF WordEnd, ArgStart
<1>5. str_skip_word(l) = SubSeq(l, a, n)
  BY Zenon DEF str_skip_word
<1> HIDE DEF n, w
<1>6. w \in 1..(n + 1)
  BY <1>1, <1>3
<1>7. U \subseteq Nat /\ n + 1 \in U
  BY <1>1, <1>6
<1>8. a \in U /\ \A y \in U : a <= y
  <2> HIDE DEF U
  <2> QED
    BY <1>7, MinIs
<1> HIDE DEF a
<1>9. a \in w..(n + 1)
  BY <1>1, <1>6, <1>8
<1>10. ASSUME NEW i \in 1..(w - 1) PROVE l[i] # SP
  <2> SUFFICES ASSUME l[i] = SP PROVE FALSE
    OBVIOUS
  <2>1. i \in 1..n /\ i < w
    BY <1>1, <1>6
  <2> QED
    BY <1>3, <1>6, <2>1
<1>11. ASSUME NEW i \in w..(a - 1) PROVE l[i] = SP
  <2> SUFFICES ASSUME l[i] # SP PROVE FALSE
    OBVIOUS
  <2>1. i \in w..n /\ i < a
    BY <1>1, <1>6, <1>9
  <2> QED
    BY <1>8, <1>9, <2>1
<1>12. (w <= n => l[w] = SP) /\ (a <= n => l[a] # SP)
  BY <1>1, <1>3, <1>6, <1>8, <1>9
<1> QED
  BY <1>4, <1>5, <1>6, <1>9, <1>10, <1>11, <1>12 DEF n

(* The lines that execute takes for a raise. *)
LEMMA RaiseLine ==
  ASSUME NEW l, Command(l) = "raise"
  PROVE  str_starts(l, RAISE \o <<SP>>) \/ l = RAISE
  BY DEF Command, str_eq

(* A line that makes the shell call SYS_KILL asks for that signal. *)
LEMMA RaiseAsks ==
  ASSUME NEW l \in Seq(Chars \ {NL}), Command(l) = "raise", str_atoi(str_skip_word(l)) > 0
  PROVE  AsksFor(l, str_atoi(str_skip_word(l)))
<1> DEFINE w == WordEnd(l)
           a == ArgStart(l)
           n == Len(l)
           R == Len(RAISE)
           arg == SubSeq(l, a, n)
           k == Digits(arg)
           d == SubSeq(arg, 1, k)
           sig == str_atoi(str_skip_word(l))
<1>1. l \in Seq(Nat) /\ n \in Nat
  <2>1. Chars \ {NL} \subseteq Nat
    BY ShellAssumption
  <2>2. l \in Seq(Nat)
    BY <2>1, SeqWidens
  <2> QED
    BY <2>2
<1>2. /\ RAISE \in Seq(Nat) /\ R \in Nat
      /\ \A i \in 1..R : RAISE[i] # SP
  <2>1. RAISE \in Seq(Chars \ {NL, SP})
    BY ShellAssumption
  <2>2. \A i \in 1..R : RAISE[i] \in Chars \ {NL, SP}
    BY <2>1
  <2>3. Chars \ {NL, SP} \subseteq Nat
    BY ShellAssumption
  <2>4. RAISE \in Seq(Nat)
    BY <2>1, <2>3, SeqWidens
  <2> QED
    BY <2>2, <2>4
<1>3. /\ w \in 1..(n + 1) /\ (\A i \in 1..(w - 1) : l[i] # SP)
      /\ w <= n => l[w] = SP
      /\ a \in w..(n + 1) /\ (\A i \in w..(a - 1) : l[i] = SP)
      /\ a <= n => l[a] # SP
      /\ str_skip_word(l) = arg
  BY <1>1, SkipIs
<1> HIDE DEF w, a, n, R
<1>4. a \in 1..(n + 1) /\ n \in (a - 1)..n
  BY <1>1, <1>3
<1>5. /\ arg \in Seq(Nat) /\ Len(arg) = n - a + 1
      /\ \A i \in 1..(n - a + 1) : arg[i] = l[a + i - 1]
  BY <1>1, <1>4, PartIs DEF n
<1> HIDE DEF arg
<1>6. sig = str_atoi(arg) /\ sig > 0
  BY <1>3
<1> HIDE DEF sig
<1>7. /\ k \in 1..Len(arg) /\ k \in Nat
      /\ \A i \in 1..k : IsDigit(arg[i])
      /\ k < Len(arg) => ~IsDigit(arg[k + 1])
      /\ Value(d) = sig
  <2>1. /\ k \in 0..Len(arg) /\ (\A i \in 1..k : IsDigit(arg[i]))
        /\ k < Len(arg) => ~IsDigit(arg[k + 1])
    BY <1>5, DigitsAre
  <2>2. sig > 0 => k > 0 /\ Value(d) = sig
    BY <1>5, <1>6, AtoiValue, Zenon
  <2> HIDE DEF k, d
  <2>3. Len(arg) \in Nat
    BY <1>5
  <2> QED
    BY <1>6, <2>1, <2>2, <2>3
<1>8. a <= n
  BY <1>4, <1>5, <1>7, <1>1
<1>9. str_starts(l, RAISE \o <<SP>>) \/ l = RAISE
  BY RaiseLine
<1> HIDE DEF k, d
<1>10. CASE l = RAISE
  <2>1. \A i \in 1..n : l[i] # SP
    BY <1>2, <1>10 DEF n, R
  <2> QED
    BY <1>1, <1>3, <1>8, <2>1
<1>11. CASE str_starts(l, RAISE \o <<SP>>)
  <2> DEFINE p == RAISE \o <<SP>>
  <2>1. /\ p \in Seq(Nat) /\ Len(p) = R + 1
        /\ (\A i \in 1..R : p[i] = RAISE[i]) /\ p[R + 1] = SP
    <3>1. <<SP>> \in Seq(Nat) /\ Len(<<SP>>) = 1 /\ <<SP>>[1] = SP
      <4>1. SP \in Nat
        BY ShellAssumption
      <4> QED
        BY <4>1
    <3> DEFINE q == <<SP>>
    <3> HIDE DEF q
    <3>2. /\ RAISE \o q \in Seq(Nat) /\ Len(RAISE \o q) = Len(RAISE) + Len(q)
          /\ \A i \in 1..(Len(RAISE) + Len(q)) :
               (RAISE \o q)[i] = IF i <= Len(RAISE) THEN RAISE[i] ELSE q[i - Len(RAISE)]
      BY <1>2, <3>1, ConcatProperties DEF q
    <3>3. Len(q) = 1 /\ q[1] = SP
      BY <3>1 DEF q
    <3>4. R + 1 - R = 1 /\ R + 1 \in 1..(R + 1) /\ ~(R + 1 <= R)
          /\ \A i \in 1..R : i \in 1..(R + 1) /\ i <= R
      BY <1>2
    <3> QED
      BY <3>2, <3>3, <3>4 DEF q, R
  <2>2. Len(p) <= n /\ SubSeq(p, 1, Len(p)) = SubSeq(l, 1, Len(p))
    BY <1>11 DEF str_starts, IsPrefix, n
  <2> HIDE DEF p
  <2>3. R + 1 <= n /\ \A i \in 1..(R + 1) : p[i] = l[i]
    <3>1. R + 1 <= n
      BY <1>1, <1>2, <2>1, <2>2
    <3>2. 1 \in 1..(Len(p) + 1) /\ Len(p) \in (1 - 1)..Len(p) /\ Len(p) - 1 + 1 = R + 1
          /\ 1 \in 1..(Len(l) + 1) /\ Len(p) \in (1 - 1)..Len(l)
      BY <1>1, <1>2, <2>1, <3>1 DEF n
    <3>3. \A i \in 1..(Len(p) - 1 + 1) : SubSeq(p, 1, Len(p))[i] = p[1 + i - 1]
      BY <2>1, <3>2, PartIs
    <3>4. \A i \in 1..(Len(p) - 1 + 1) : SubSeq(l, 1, Len(p))[i] = l[1 + i - 1]
      BY <1>1, <3>2, PartIs
    <3>5. \A i \in 1..(R + 1) : 1 + i - 1 = i
      BY <1>2
    <3> QED
      BY <2>2, <3>1, <3>2, <3>3, <3>4, <3>5
  <2>4. l[R + 1] = SP /\ \A i \in 1..R : l[i] = RAISE[i] /\ l[i] # SP
    BY <1>2, <2>1, <2>3
  <2>5. w = R + 1
    <3>1. w <= R + 1
      <4> SUFFICES ASSUME ~(w <= R + 1) PROVE FALSE
        OBVIOUS
      <4>1. R + 1 \in 1..(w - 1)
        BY <1>1, <1>2, <1>3
      <4> QED
        BY <1>3, <2>4, <4>1
    <3>2. w <= n /\ l[w] = SP
      BY <1>1, <1>2, <1>3, <2>3, <3>1
    <3>3. ~(w \in 1..R)
      BY <2>4, <3>2
    <3> QED
      BY <1>1, <1>2, <1>3, <3>1, <3>3
  <2>6. a > R + 1
    BY <1>1, <1>2, <1>3, <1>8, <2>4, <2>5
  <2> DEFINE i == a - 1
             j == a - 1 + k
  <2>7. i \in (R + 1)..n /\ j \in 1..n /\ i < j /\ i + 1 = a /\ j - a + 1 = k
    BY <1>1, <1>2, <1>4, <1>5, <1>7, <1>8, <2>6
  <2>8. \A m \in (R + 1)..i : l[m] = SP
    BY <1>3, <2>5
  <2>9. \A m \in (i + 1)..j : IsDigit(l[m])
    <3> SUFFICES ASSUME NEW m \in (i + 1)..j PROVE IsDigit(l[m])
      OBVIOUS
    <3>1. m - a + 1 \in 1..k /\ m - a + 1 \in 1..(n - a + 1) /\ a + (m - a + 1) - 1 = m
      BY <1>1, <1>4, <1>5, <1>7, <2>7
    <3> QED
      BY <1>5, <1>7, <3>1
  <2>10. j < n => ~IsDigit(l[j + 1])
    <3> SUFFICES ASSUME j < n PROVE ~IsDigit(l[j + 1])
      OBVIOUS
    <3>1. k < Len(arg) /\ k + 1 \in 1..(n - a + 1) /\ a + (k + 1) - 1 = j + 1
      BY <1>1, <1>4, <1>5, <1>7, <2>7
    <3> QED
      BY <1>5, <1>7, <3>1
  <2>11. SubSeq(l, i + 1, j) = d
    <3> DEFINE e == SubSeq(l, i + 1, j)
    <3>1. i + 1 \in 1..(Len(l) + 1) /\ j \in ((i + 1) - 1)..Len(l) /\ j - (i + 1) + 1 = k
      BY <1>1, <1>2, <1>4, <1>7, <2>7 DEF n
    <3>2. e \in Seq(Nat) /\ Len(e) = k /\ \A x \in 1..k : e[x] = l[(i + 1) + x - 1]
      <4>1. /\ e \in Seq(Nat) /\ Len(e) = j - (i + 1) + 1
            /\ \A x \in 1..(j - (i + 1) + 1) : e[x] = l[(i + 1) + x - 1]
        BY <1>1, <3>1, PartIs
      <4> HIDE DEF e
      <4> QED
        BY <3>1, <4>1
    <3>3. 1 \in 1..(Len(arg) + 1) /\ k \in (1 - 1)..Len(arg) /\ k - 1 + 1 = k
      BY <1>5, <1>7
    <3>4. d \in Seq(Nat) /\ Len(d) = k /\ \A x \in 1..k : d[x] = arg[1 + x - 1]
      <4>1. /\ d \in Seq(Nat) /\ Len(d) = k - 1 + 1
            /\ \A x \in 1..(k - 1 + 1) : d[x] = arg[1 + x - 1]
        BY <1>5, <3>3, PartIs DEF d
      <4> QED
        BY <3>3, <4>1
    <3> HIDE DEF e
    <3>5. ASSUME NEW x \in 1..k PROVE e[x] = d[x]
      <4>1. 1 + x - 1 = x /\ x \in 1..(n - a + 1) /\ (i + 1) + x - 1 = a + x - 1
        BY <1>1, <1>4, <1>5, <1>7
      <4> QED
        BY <1>5, <3>2, <3>4, <4>1
    <3>6. e = d
      BY <3>2, <3>4, <3>5, SeqEqual
    <3> QED
      BY <3>6 DEF e
  <2>12. str_starts(l, RAISE)
    <3>1. 1 \in 1..(Len(RAISE) + 1) /\ R \in (1 - 1)..Len(RAISE) /\ R - 1 + 1 = R
          /\ 1 \in 1..(Len(l) + 1) /\ R \in (1 - 1)..Len(l)
      BY <1>1, <1>2, <2>3 DEF n, R
    <3> DEFINE u == SubSeq(RAISE, 1, R)
               v == SubSeq(l, 1, R)
    <3>2. u \in Seq(Nat) /\ Len(u) = R - 1 + 1 /\ \A x \in 1..(R - 1 + 1) : u[x] = RAISE[1 + x - 1]
      BY <1>2, <3>1, PartIs
    <3>3. v \in Seq(Nat) /\ Len(v) = R - 1 + 1 /\ \A x \in 1..(R - 1 + 1) : v[x] = l[1 + x - 1]
      BY <1>1, <3>1, PartIs
    <3> HIDE DEF u, v
    <3>4. ASSUME NEW x \in 1..R PROVE u[x] = v[x]
      <4>1. 1 + x - 1 = x
        BY <1>2
      <4> QED
        BY <2>4, <3>1, <3>2, <3>3, <4>1
    <3>5. u = v
      BY <3>1, <3>2, <3>3, <3>4, SeqEqual
    <3>6. Len(RAISE) <= Len(l)
      BY <1>1, <1>2, <2>3 DEF n, R
    <3> QED
      BY <3>5, <3>6 DEF str_starts, IsPrefix, u, v, R
  <2>13. Value(SubSeq(l, i + 1, j)) = sig
    BY <1>7, <2>11
  <2> HIDE DEF i, j
  <2> QED
    BY <2>7, <2>8, <2>9, <2>10, <2>12, <2>13, Zenon DEF AsksFor, R, n, sig
<1> QED
  BY <1>9, <1>10, <1>11

-----------------------------------------------------------------------------
(* The lines of a text. *)

(* one character of Ends *)
EndStep(s, n, x) == IF s[n] = NL THEN Append(x, n) ELSE x

(* e is the history of the recursion of Ends. *)
EndsOf(s, e) ==
  /\ e \in [0..Len(s) -> Seq(1..Len(s))]
  /\ e[0] = <<>> /\ Ends(s) = e[Len(s)]
  /\ \A n \in 1..Len(s) : e[n] = EndStep(s, n, e[n - 1])

(* Ends has its history, and returns positions in s. *)
LEMMA EndsIs ==
  ASSUME NEW s \in Seq(Chars)
  PROVE  \E e : EndsOf(s, e)
<1> DEFINE m == Len(s)
           V == Seq(1..m)
           G == [n \in 1..m |-> [x \in V |-> EndStep(s, n, x)]]
           D(f) == [n \in 0..m |-> IF n = 0 THEN <<>> ELSE EndStep(s, n, f[n - 1])]
           R(f) == [n \in 0..m |-> IF n = 0 THEN <<>>
                     ELSE IF s[n] = NL THEN Append(f[n - 1], n) ELSE f[n - 1]]
           v == CHOOSE f : f = R(f)
<1>1. m \in Nat /\ \A n \in 1..m : n - 1 \in 0..m
  OBVIOUS
<1>2. Ends(s) = v[m]
  BY Zenon DEF Ends
<1>3. ASSUME NEW n \in 1..m, NEW x \in V PROVE EndStep(s, n, x) \in V
  BY AppendProperties DEF EndStep
<1>4. <<>> \in V
  OBVIOUS
<1> HIDE DEF m, V
<1>5. G \in [1..m -> [V -> V]]
  BY <1>3
<1>6. PICK g \in [0..m -> V] : g[0] = <<>> /\ \A k \in 1..m : g[k] = G[k][g[k - 1]]
  <2> HIDE DEF G
  <2>1. HasHistory(V, <<>>, m, G)
    BY <1>1, <1>4, <1>5, Iteration
  <2> QED
    BY <2>1 DEF HasHistory
<1>7. g = D(g)
  <2>1. ASSUME NEW n \in 0..m PROVE g[n] = IF n = 0 THEN <<>> ELSE EndStep(s, n, g[n - 1])
    <3>1. CASE n = 0
      BY <1>6, <3>1
    <3>2. CASE n # 0
      <4>1. n \in 1..m /\ n - 1 \in 0..m
        BY <1>1, <3>2
      <4>2. g[n - 1] \in V
        BY <1>6, <4>1
      <4> QED
        BY <1>6, <3>2, <4>1, <4>2
    <3> QED
      BY <3>1, <3>2
  <2> QED
    BY <2>1
<1>8. g = R(g)
  BY <1>7, Zenon DEF EndStep
<1>9. v = R(v)
  BY <1>8, Zenon
<1> HIDE DEF v
<1>10. v = D(v)
  BY <1>9, Zenon DEF EndStep
<1> HIDE DEF R
<1>11. v[0] = <<>> /\ \A n \in 1..m : v[n] = EndStep(s, n, v[n - 1])
  BY <1>1, <1>10
<1>12. \A n \in Nat : n <= m => v[n] \in V
  <2> DEFINE S == {n \in Nat : n <= m => v[n] \in V}
  <2>1. 0 \in S
    BY <1>4, <1>11
  <2>2. ASSUME NEW n \in Nat, n \in S PROVE n + 1 \in S
    <3> SUFFICES ASSUME n + 1 <= m PROVE v[n + 1] \in V
      OBVIOUS
    <3>1. n + 1 \in 1..m /\ (n + 1) - 1 = n /\ v[n] \in V
      BY <1>1, <2>2
    <3>2. v[n + 1] = EndStep(s, n + 1, v[n])
      BY <1>11, <3>1
    <3> QED
      BY <1>3, <3>1, <3>2
  <2> HIDE DEF S
  <2>3. \A n \in Nat : n \in S
    BY <2>1, <2>2, Induction
  <2> QED
    BY <2>3 DEF S
<1>13. v \in [0..m -> V]
  BY <1>1, <1>10, <1>12
<1> QED
  BY <1>2, <1>11, <1>13 DEF EndsOf, m, V

(* Ends returns positions of s. *)
LEMMA EndsType ==
  ASSUME NEW s \in Seq(Chars)
  PROVE  /\ Ends(s) \in Seq(1..Len(s)) /\ Len(Ends(s)) \in Nat
         /\ \A k \in 1..Len(Ends(s)) : Ends(s)[k] \in 1..Len(s)
<1>1. PICK e : EndsOf(s, e)
  BY EndsIs
<1>2. Len(s) \in 0..Len(s)
  OBVIOUS
<1>3. Ends(s) \in Seq(1..Len(s))
  BY <1>1, <1>2 DEF EndsOf
<1> QED
  BY <1>3

(* An empty text has no lines. *)
LEMMA EndsEmpty == Ends(<<>>) = <<>>
<1>1. <<>> \in Seq(Chars)
  OBVIOUS
<1>2. PICK e : EndsOf(<<>>, e)
  BY <1>1, EndsIs
<1> QED
  BY <1>2 DEF EndsOf

(* A character more is a line more if it is an Enter. *)
LEMMA EndsAppend ==
  ASSUME NEW s \in Seq(Chars), NEW x \in Chars
  PROVE  Ends(Append(s, x)) = IF x = NL THEN Append(Ends(s), Len(s) + 1) ELSE Ends(s)
<1> DEFINE t == Append(s, x)
           m == Len(s)
<1>1. /\ t \in Seq(Chars) /\ Len(t) = m + 1 /\ m \in Nat
      /\ (\A n \in 1..m : t[n] = s[n]) /\ t[m + 1] = x
  BY AppendProperties
<1> HIDE DEF t
<1>2. PICK e : EndsOf(s, e)
  BY EndsIs
<1>3. PICK f : EndsOf(t, f)
  BY <1>1, EndsIs
<1>4. \A n \in Nat : n <= m => e[n] = f[n]
  <2> DEFINE S == {n \in Nat : n <= m => e[n] = f[n]}
  <2>1. 0 \in S
    BY <1>2, <1>3 DEF EndsOf
  <2>2. ASSUME NEW n \in Nat, n \in S PROVE n + 1 \in S
    <3> SUFFICES ASSUME n + 1 <= m PROVE e[n + 1] = f[n + 1]
      OBVIOUS
    <3>1. n + 1 \in 1..m /\ n + 1 \in 1..(m + 1) /\ (n + 1) - 1 = n /\ e[n] = f[n]
      BY <1>1, <2>2
    <3>2. e[n + 1] = EndStep(s, n + 1, e[n])
      BY <1>2, <3>1 DEF EndsOf
    <3>3. f[n + 1] = EndStep(t, n + 1, f[n])
      BY <1>1, <1>3, <3>1 DEF EndsOf
    <3>4. s[n + 1] = t[n + 1]
      BY <1>1, <3>1
    <3> QED
      BY <3>1, <3>2, <3>3, <3>4 DEF EndStep
  <2> HIDE DEF S
  <2>3. \A n \in Nat : n \in S
    BY <2>1, <2>2, Induction
  <2> QED
    BY <2>3 DEF S
<1>5. m + 1 \in 1..(m + 1) /\ (m + 1) - 1 = m
  BY <1>1
<1>6. Ends(t) = EndStep(t, m + 1, f[m]) /\ Ends(s) = e[m]
  BY <1>1, <1>2, <1>3, <1>5 DEF EndsOf
<1>7. f[m] = e[m]
  BY <1>1, <1>4
<1> QED
  BY <1>1, <1>6, <1>7 DEF EndStep, t

(* What Cut keeps. *)
LEMMA CutIs ==
  ASSUME NEW X, NEW u \in Seq(X)
  PROVE  LET c0 == IF Len(u) < LINE_SIZE THEN Len(u) ELSE LINE_SIZE - 1 IN
         /\ Cut(u) = SubSeq(u, 1, c0) /\ c0 \in 0..Len(u)
         /\ Cut(u) \in Seq(X) /\ Len(Cut(u)) = c0 /\ \A i \in 1..c0 : Cut(u)[i] = u[i]
<1> DEFINE c0 == IF Len(u) < LINE_SIZE THEN Len(u) ELSE LINE_SIZE - 1
           T  == {Len(u), LINE_SIZE - 1}
<1>1. Len(u) \in Nat /\ LINE_SIZE \in Nat \ {0}
  BY ShellAssumption
<1>2. Min(T) \in T /\ \A y \in T : Min(T) <= y
  <2>1. T \subseteq Nat /\ T # {}
    BY <1>1
  <2> HIDE DEF T
  <2> QED
    BY <2>1, MinIs
<1>3. Min(T) = c0
  BY <1>1, <1>2
<1>4. Cut(u) = SubSeq(u, 1, c0)
  BY <1>3, Zenon DEF Cut
<1>5. c0 \in 0..Len(u) /\ c0 - 1 + 1 = c0 /\ 1 \in 1..(Len(u) + 1) /\ c0 \in (1 - 1)..Len(u)
      /\ \A i \in 1..c0 : 1 + i - 1 = i
  BY <1>1
<1> HIDE DEF c0
<1>6. /\ SubSeq(u, 1, c0) \in Seq(X) /\ Len(SubSeq(u, 1, c0)) = c0 - 1 + 1
      /\ \A i \in 1..(c0 - 1 + 1) : SubSeq(u, 1, c0)[i] = u[1 + i - 1]
  BY <1>5, PartIs
<1>7. Cut(u) \in Seq(X) /\ Len(Cut(u)) = c0 /\ \A i \in 1..c0 : Cut(u)[i] = u[i]
  BY <1>4, <1>5, <1>6
<1> QED
  BY <1>4, <1>5, <1>7 DEF c0

(* An empty line stays empty. *)
LEMMA CutEmpty == Cut(<<>>) = <<>>
<1>1. <<>> \in Seq(Chars) /\ Len(<<>>) = 0
  OBVIOUS
<1>2. Cut(<<>>) \in Seq(Chars) /\ Len(Cut(<<>>)) \in 0..Len(<<>>)
  BY <1>1, CutIs
<1> QED
  BY <1>1, <1>2, EmptySeq

(* A line grows as the shell's copy of it does. *)
LEMMA CutAppend ==
  ASSUME NEW X, NEW u \in Seq(X), NEW x \in X
  PROVE  Cut(Append(u, x)) = IF Len(Cut(u)) < LINE_SIZE - 1 THEN Append(Cut(u), x) ELSE Cut(u)
<1> DEFINE w == Append(u, x)
           cu == Cut(u)
           cw == Cut(w)
<1>1. /\ w \in Seq(X) /\ Len(w) = Len(u) + 1 /\ Len(u) \in Nat
      /\ (\A i \in 1..Len(u) : w[i] = u[i]) /\ w[Len(u) + 1] = x
  BY AppendProperties
<1>2. LINE_SIZE \in Nat \ {0}
  BY ShellAssumption
<1> DEFINE m == IF Len(u) < LINE_SIZE THEN Len(u) ELSE LINE_SIZE - 1
           n == IF Len(w) < LINE_SIZE THEN Len(w) ELSE LINE_SIZE - 1
<1>3. cu \in Seq(X) /\ Len(cu) = m /\ \A i \in 1..m : cu[i] = u[i]
  BY CutIs
<1>4. cw \in Seq(X) /\ Len(cw) = n /\ \A i \in 1..n : cw[i] = w[i]
  <2> HIDE DEF w
  <2> QED
    BY <1>1, CutIs
<1> HIDE DEF w, cu, cw
<1>5. CASE m < LINE_SIZE - 1
  <2>1. m = Len(u) /\ n = Len(u) + 1
    BY <1>1, <1>2, <1>5
  <2> HIDE DEF m, n
  <2> DEFINE a == Append(cu, x)
  <2>2. /\ a \in Seq(X) /\ Len(a) = m + 1
        /\ (\A i \in 1..m : a[i] = cu[i]) /\ a[m + 1] = x
    BY <1>3, AppendProperties
  <2> HIDE DEF a
  <2>3. ASSUME NEW i \in 1..n PROVE cw[i] = a[i]
    <3>1. i \in 1..m \/ i = m + 1
      BY <1>1, <2>1
    <3> QED
      BY <1>1, <1>3, <1>4, <2>1, <2>2, <3>1
  <2>4. cw = a
    BY <1>4, <2>1, <2>2, <2>3, SeqEqual
  <2> QED
    BY <1>3, <1>5, <2>4 DEF a, cu, cw, w
<1>6. CASE ~(m < LINE_SIZE - 1)
  <2>1. m = n /\ m <= Len(u) /\ m \in Nat
    BY <1>1, <1>2, <1>6
  <2> HIDE DEF m, n
  <2>2. ASSUME NEW i \in 1..n PROVE cw[i] = cu[i]
    <3>1. i \in 1..m /\ i \in 1..Len(u)
      BY <1>1, <2>1
    <3> QED
      BY <1>1, <1>3, <1>4, <2>1, <3>1
  <2>3. cw = cu
    BY <1>3, <1>4, <2>1, <2>2, SeqEqual
  <2> QED
    BY <1>3, <1>6, <2>3 DEF cu, cw, w
<1> QED
  BY <1>5, <1>6

(* The end and the beginning of the line that is being typed. *)
Open(s) == IF Lines(s) = 0 THEN 1 ELSE Ends(s)[Lines(s)] + 1

(* The last line is what follows the last Enter. *)
LEMMA LastLine ==
  ASSUME NEW s \in Seq(Chars)
  PROVE  /\ Open(s) \in 1..(Len(s) + 1) /\ Lines(s) \in Nat
         /\ Typed(s, Lines(s) + 1) = Cut(SubSeq(s, Open(s), Len(s)))
<1>1. /\ Lines(s) \in Nat /\ Len(s) \in Nat
      /\ \A k \in 1..Lines(s) : Ends(s)[k] \in 1..Len(s)
  BY EndsType DEF Lines
<1>2. Open(s) \in 1..(Len(s) + 1)
  BY <1>1 DEF Open
<1> DEFINE L == Lines(s)
           E == Ends(s)
           k == L + 1
           from == IF k = 1 THEN 1 ELSE E[k - 1] + 1
           to == IF k > Len(E) THEN Len(s) ELSE E[k] - 1
<1>3. Typed(s, k) = Cut(SubSeq(s, from, to))
  BY Zenon DEF Typed
<1>4. from = Open(s) /\ to = Len(s)
  <2>1. k > Len(E) /\ (k = 1 <=> L = 0) /\ k - 1 = L
    BY <1>1 DEF Lines
  <2> QED
    BY <2>1 DEF Open
<1> QED
  BY <1>1, <1>2, <1>3, <1>4

(* A character more does not change the lines that are complete. *)
LEMMA CompleteStays ==
  ASSUME NEW s \in Seq(Chars), NEW x \in Chars, NEW k \in 1..Lines(s)
  PROVE  Typed(Append(s, x), k) = Typed(s, k) /\ k <= Lines(Append(s, x))
<1> DEFINE t == Append(s, x)
           E == Ends(s)
           F == Ends(t)
<1>1. Len(s) \in Nat /\ E \in Seq(1..Len(s)) /\ Lines(s) = Len(E) /\ Len(E) \in Nat
      /\ \A j \in 1..Len(E) : E[j] \in 1..Len(s)
  BY EndsType DEF Lines
<1>2. /\ t \in Seq(Chars) /\ Len(t) = Len(s) + 1 /\ \A i \in 1..Len(s) : t[i] = s[i]
  BY AppendProperties
<1>3. F = IF x = NL THEN Append(E, Len(s) + 1) ELSE E
  BY EndsAppend
<1> HIDE DEF t, E, F
<1>4. Len(F) \in Nat /\ Len(E) <= Len(F) /\ \A j \in 1..Len(E) : F[j] = E[j]
  <2>1. CASE x = NL
    <3>1. E \in Seq(Nat) /\ Len(s) + 1 \in Nat
      <4>1. 1..Len(s) \subseteq Nat
        BY <1>1
      <4> QED
        BY <1>1, <4>1, SeqWidens
    <3> QED
      BY <1>3, <2>1, <3>1, AppendProperties
  <2>2. CASE x # NL
    BY <1>1, <1>3, <2>2
  <2> QED
    BY <2>1, <2>2
<1> DEFINE from == IF k = 1 THEN 1 ELSE E[k - 1] + 1
           to == E[k] - 1
<1>5. k <= Len(E) /\ k <= Len(F) /\ ~(k > Len(E)) /\ ~(k > Len(F)) /\ k \in 1..Len(E)
      /\ (k # 1 => k - 1 \in 1..Len(E))
  BY <1>1, <1>4
<1>6. Typed(s, k) = Cut(SubSeq(s, from, to))
  <2>1. Typed(s, k) = Cut(SubSeq(s, from, IF k > Len(E) THEN Len(s) ELSE E[k] - 1))
    BY Zenon DEF Typed, E
  <2> QED
    BY <1>5, <2>1
<1>7. Typed(t, k) = Cut(SubSeq(t, from, to))
  <2>1. Typed(t, k) = Cut(SubSeq(t, IF k = 1 THEN 1 ELSE F[k - 1] + 1,
                                 IF k > Len(F) THEN Len(t) ELSE F[k] - 1))
    BY Zenon DEF Typed, F
  <2>2. (IF k = 1 THEN 1 ELSE F[k - 1] + 1) = from
        /\ (IF k > Len(F) THEN Len(t) ELSE F[k] - 1) = to
    BY <1>4, <1>5
  <2> QED
    BY <2>1, <2>2
<1>8. from \in 1..(Len(s) + 1) /\ to \in 0..(Len(s) - 1)
  BY <1>1, <1>5
<1> HIDE DEF from, to
<1>9. SubSeq(s, from, to) = SubSeq(t, from, to)
  <2>1. CASE to < from
    <3>1. from \in Int /\ to \in Int
      BY <1>1, <1>8
    <3>2. SubSeq(s, from, to) = <<>> /\ SubSeq(t, from, to) = <<>>
      BY <2>1, <3>1, SubSeqEmpty
    <3> QED
      BY <3>2
  <2>2. CASE ~(to < from)
    <3> DEFINE a == SubSeq(s, from, to)
               b == SubSeq(t, from, to)
    <3>1. to \in (from - 1)..Len(s) /\ to \in (from - 1)..Len(t) /\ from \in 1..(Len(t) + 1)
          /\ \A i \in 1..(to - from + 1) : from + i - 1 \in 1..Len(s)
      BY <1>1, <1>2, <1>8, <2>2
    <3>2. /\ a \in Seq(Chars) /\ Len(a) = to - from + 1
          /\ \A i \in 1..(to - from + 1) : a[i] = s[from + i - 1]
      BY <1>8, <3>1, PartIs
    <3>3. /\ b \in Seq(Chars) /\ Len(b) = to - from + 1
          /\ \A i \in 1..(to - from + 1) : b[i] = t[from + i - 1]
      BY <1>2, <3>1, PartIs
    <3> HIDE DEF a, b
    <3>4. ASSUME NEW i \in 1..(to - from + 1) PROVE a[i] = b[i]
      BY <1>2, <3>1, <3>2, <3>3
    <3>5. a = b
      BY <3>2, <3>3, <3>4, SeqEqual
    <3> QED
      BY <3>5 DEF a, b
  <2> QED
    BY <2>1, <2>2
<1>10. k <= Lines(t)
  BY <1>5 DEF Lines, F
<1> QED
  BY <1>6, <1>7, <1>9, <1>10 DEF t

(* A character other than Enter goes to the end of the last line. *)
LEMMA CharGoesOn ==
  ASSUME NEW s \in Seq(Chars), NEW x \in Chars, x # NL
  PROVE  LET last == Typed(s, Lines(s) + 1) IN
         /\ Lines(Append(s, x)) = Lines(s)
         /\ Typed(Append(s, x), Lines(s) + 1)
              = IF Len(last) < LINE_SIZE - 1 THEN Append(last, x) ELSE last
<1> DEFINE t == Append(s, x)
           a == SubSeq(s, Open(s), Len(s))
           b == SubSeq(t, Open(s), Len(s) + 1)
           o == Open(s)
<1>1. Lines(t) = Lines(s) /\ Open(t) = Open(s)
  BY EndsAppend DEF Lines, Open
<1>2. /\ t \in Seq(Chars) /\ Len(t) = Len(s) + 1 /\ Len(s) \in Nat
      /\ (\A i \in 1..Len(s) : t[i] = s[i]) /\ t[Len(s) + 1] = x
  BY AppendProperties
<1> HIDE DEF t
<1>3. o \in 1..(Len(s) + 1) /\ Typed(s, Lines(s) + 1) = Cut(a)
  BY LastLine
<1>4. Typed(t, Lines(s) + 1) = Cut(b)
  <2>1. Typed(t, Lines(t) + 1) = Cut(SubSeq(t, Open(t), Len(t)))
    BY <1>2, LastLine
  <2> QED
    BY <1>1, <1>2, <2>1
<1> HIDE DEF o
<1>5. b = Append(a, x)
  <2> DEFINE m == Len(s) - o + 1
             d == Append(a, x)
  <2>1. o \in 1..(Len(t) + 1) /\ Len(s) \in (o - 1)..Len(s) /\ Len(t) \in (o - 1)..Len(t)
        /\ Len(t) - o + 1 = m + 1 /\ m \in Nat /\ o + (m + 1) - 1 = Len(s) + 1
        /\ \A i \in 1..m : o + i - 1 \in 1..Len(s)
    BY <1>2, <1>3
  <2>2. a \in Seq(Chars) /\ Len(a) = m /\ \A i \in 1..m : a[i] = s[o + i - 1]
    BY <1>3, <2>1, PartIs DEF o
  <2>3. b \in Seq(Chars) /\ Len(b) = m + 1 /\ \A i \in 1..(m + 1) : b[i] = t[o + i - 1]
    <3>1. /\ SubSeq(t, o, Len(t)) \in Seq(Chars) /\ Len(SubSeq(t, o, Len(t))) = Len(t) - o + 1
          /\ \A i \in 1..(Len(t) - o + 1) : SubSeq(t, o, Len(t))[i] = t[o + i - 1]
      BY <1>2, <2>1, PartIs
    <3>2. SubSeq(t, o, Len(t)) = b
      BY <1>2 DEF o
    <3> HIDE DEF b
    <3> QED
      BY <2>1, <3>1, <3>2
  <2> HIDE DEF a, b, m
  <2>4. d \in Seq(Chars) /\ Len(d) = m + 1 /\ (\A i \in 1..m : d[i] = a[i]) /\ d[m + 1] = x
    BY <2>2, AppendProperties
  <2> HIDE DEF d
  <2>5. ASSUME NEW i \in 1..(m + 1) PROVE b[i] = d[i]
    <3>1. CASE i = m + 1
      BY <1>2, <2>1, <2>3, <2>4, <3>1
    <3>2. CASE i # m + 1
      <4>1. i \in 1..m
        BY <2>1, <3>2
      <4> QED
        BY <1>2, <2>1, <2>2, <2>3, <2>4, <4>1
    <3> QED
      BY <3>1, <3>2
  <2>6. b = d
    BY <2>3, <2>4, <2>5, SeqEqual
  <2> QED
    BY <2>6 DEF d
<1>6. a \in Seq(Chars)
  <2>1. Len(s) \in (o - 1)..Len(s)
    BY <1>2, <1>3
  <2> QED
    BY <1>3, <2>1, PartIs DEF o
<1> HIDE DEF a, b
<1>7. Cut(Append(a, x)) = IF Len(Cut(a)) < LINE_SIZE - 1 THEN Append(Cut(a), x) ELSE Cut(a)
  BY <1>6, CutAppend
<1> QED
  BY <1>1, <1>3, <1>4, <1>5, <1>7 DEF t

(* An Enter completes the last line and begins an empty one. *)
LEMMA EnterCompletes ==
  ASSUME NEW s \in Seq(Chars)
  PROVE  /\ Lines(Append(s, NL)) = Lines(s) + 1
         /\ Typed(Append(s, NL), Lines(s) + 1) = Typed(s, Lines(s) + 1)
         /\ Typed(Append(s, NL), Lines(s) + 2) = <<>>
<1> DEFINE t == Append(s, NL)
           E == Ends(s)
           F == Ends(t)
           L == Len(E)
           m == Len(s)
<1>1. NL \in Chars /\ LINE_SIZE \in Nat \ {0}
  BY ShellAssumption
<1>2. m \in Nat /\ E \in Seq(Nat) /\ L \in Nat
  <2>1. E \in Seq(1..m) /\ m \in Nat
    BY EndsType
  <2>2. 1..m \subseteq Nat
    BY <2>1
  <2>3. E \in Seq(Nat)
    BY <2>1, <2>2, SeqWidens
  <2> QED
    BY <2>1, <2>3
<1>3. F = Append(E, m + 1)
  BY <1>1, EndsAppend
<1>4. /\ t \in Seq(Chars) /\ Len(t) = m + 1 /\ \A i \in 1..m : t[i] = s[i]
  BY <1>1, AppendProperties
<1>5. Open(s) = IF L = 0 THEN 1 ELSE E[L] + 1
  BY DEF Open, Lines
<1>6. Open(s) \in 1..(m + 1) /\ Typed(s, L + 1) = Cut(SubSeq(s, Open(s), m))
  BY LastLine DEF Lines
<1> HIDE DEF E, m, t
<1>7. Len(F) = L + 1 /\ F[L + 1] = m + 1 /\ \A j \in 1..L : F[j] = E[j]
  BY <1>2, <1>3, AppendProperties
<1> HIDE DEF F
<1>8. Typed(t, L + 1) = Cut(SubSeq(t, Open(s), m))
  <2> DEFINE k == L + 1
  <2>1. Typed(t, k) = Cut(SubSeq(t, IF k = 1 THEN 1 ELSE F[k - 1] + 1,
                                 IF k > Len(F) THEN Len(t) ELSE F[k] - 1))
    BY Zenon DEF Typed, F
  <2>2. (IF k = 1 THEN 1 ELSE F[k - 1] + 1) = Open(s)
    <3>1. (k = 1 <=> L = 0) /\ k - 1 = L /\ (L # 0 => L \in 1..L)
      BY <1>2
    <3> QED
      BY <1>5, <1>7, <3>1
  <2>3. (IF k > Len(F) THEN Len(t) ELSE F[k] - 1) = m
    BY <1>2, <1>7
  <2> QED
    BY <2>1, <2>2, <2>3
<1>9. SubSeq(t, Open(s), m) = SubSeq(s, Open(s), m)
  <2> DEFINE o == Open(s)
             a == SubSeq(s, o, m)
             b == SubSeq(t, o, m)
  <2> HIDE DEF o
  <2>1. o \in 1..(Len(s) + 1) /\ m \in (o - 1)..Len(s) /\ m \in (o - 1)..Len(t)
        /\ o \in 1..(Len(t) + 1) /\ \A i \in 1..(m - o + 1) : o + i - 1 \in 1..m
    BY <1>2, <1>4, <1>6 DEF m, o
  <2>2. a \in Seq(Chars) /\ Len(a) = m - o + 1 /\ \A i \in 1..(m - o + 1) : a[i] = s[o + i - 1]
    BY <2>1, PartIs
  <2>3. b \in Seq(Chars) /\ Len(b) = m - o + 1 /\ \A i \in 1..(m - o + 1) : b[i] = t[o + i - 1]
    BY <1>4, <2>1, PartIs
  <2> HIDE DEF a, b
  <2>4. ASSUME NEW i \in 1..(m - o + 1) PROVE a[i] = b[i]
    BY <1>4, <2>1, <2>2, <2>3
  <2>5. a = b
    BY <2>2, <2>3, <2>4, SeqEqual
  <2> QED
    BY <2>5 DEF a, b, o
<1>10. Typed(t, L + 2) = <<>>
  <2> DEFINE k == L + 2
  <2>1. Typed(t, k) = Cut(SubSeq(t, IF k = 1 THEN 1 ELSE F[k - 1] + 1,
                                 IF k > Len(F) THEN Len(t) ELSE F[k] - 1))
    BY Zenon DEF Typed, F
  <2>2. (IF k = 1 THEN 1 ELSE F[k - 1] + 1) = m + 2
        /\ (IF k > Len(F) THEN Len(t) ELSE F[k] - 1) = m + 1
    <3>1. k # 1 /\ k - 1 = L + 1 /\ k > Len(F) /\ m + 1 + 1 = m + 2
      BY <1>2, <1>7
    <3> QED
      BY <1>4, <1>7, <3>1
  <2>3. SubSeq(t, m + 2, m + 1) = <<>>
    BY <1>2, SubSeqEmpty
  <2> QED
    BY <2>1, <2>2, <2>3, CutEmpty
<1>11. Lines(t) = Len(F) /\ Lines(s) = L
  BY DEF Lines, F, E
<1> QED
  BY <1>6, <1>7, <1>8, <1>9, <1>10, <1>11 DEF t

(* Before anything is typed the last line is empty. *)
LEMMA NothingTyped == Lines(<<>>) = 0 /\ Typed(<<>>, 1) = <<>>
<1>1. <<>> \in Seq(Chars)
  OBVIOUS
<1>2. Lines(<<>>) = 0
  BY EndsEmpty DEF Lines
<1>3. /\ Open(<<>>) \in 1..(Len(<<>>) + 1)
      /\ Typed(<<>>, Lines(<<>>) + 1) = Cut(SubSeq(<<>>, Open(<<>>), Len(<<>>)))
  BY <1>1, LastLine
<1>4. SubSeq(<<>>, 1, 0) = <<>> /\ Open(<<>>) = 1
  BY <1>2 DEF Open
<1>5. Len(<<>>) = 0 /\ Lines(<<>>) + 1 = 1
  BY <1>2
<1>6. Typed(<<>>, 1) = Cut(<<>>)
  BY <1>3, <1>4, <1>5, Zenon
<1> QED
  BY <1>2, <1>6, CutEmpty

-----------------------------------------------------------------------------
(* The invariant. *)

(* The shell's own variables have their types; every handler is installed  *)
(* when _start leaves its first lines.                                     *)
ShellOK ==
  /\ sh \in {"start", "prompt", "read", "got", "run", "cat", "cat_read", "cat_close",
             "raise", "killing", "term", "astray", "halt"}
  /\ ninst \in 0..3 /\ (sh = "start" => ninst < 3)
  /\ line \in Seq(Chars \ {NL}) /\ Len(line) < LINE_SIZE
  /\ pending \subseteq 1..(NSIG - 1) /\ mask \subseteq 1..(NSIG - 1)
  /\ cmds \in Seq(Seq(Chars \ {NL}))

(* Between two lines; the states that wait for no character. *)
Between == {"start", "prompt", "cat", "cat_read", "cat_close", "raise", "killing"}

(* Where the shell is in the text it has read, at every one of its steps:  *)
(* LinesAsTyped speaks of the polling loop only.                           *)
LinesOK ==
  /\ \A k \in 1..Len(cmds) : k <= Lines(out) /\ cmds[k] = Typed(out, k)
  /\ sh \in Between => Len(cmds) = Lines(out) /\ Typed(out, Lines(out) + 1) = <<>>
  /\ sh = "read" => Len(cmds) = Lines(out) /\ line = Typed(out, Lines(out) + 1)
  /\ sh = "got" => /\ c \in Chars
                   /\ \E o \in Seq(Chars) : /\ out = Append(o, c) /\ Len(cmds) = Lines(o)
                                            /\ line = Typed(o, Lines(o) + 1)
  /\ sh = "run" => /\ Lines(out) = Len(cmds) + 1 /\ line = Typed(out, Lines(out))
                   /\ Typed(out, Lines(out) + 1) = <<>>

(* The line that is about to raise a signal is the last one executed. *)
Raising ==
  sh = "raise" => /\ Len(cmds) > 0 /\ cmds[Len(cmds)] = line
                  /\ Command(line) = "raise" /\ RaisedSig > 0

ShInv == IInv /\ ShellOK /\ LinesOK /\ Raising /\ NoUnaskedSignal

(* The shell uses the driver through its operations only. *)
LEMMA ShellStep == [ShNext]_allVars => [Next]_vars
<1> SUFFICES ASSUME [ShNext]_allVars PROVE [Next]_vars
  OBVIOUS
<1>1. CASE UNCHANGED allVars
  BY <1>1 DEF allVars
<1>2. ASSUME NEW ch \in Chars, KeyArrives(ch) PROVE Next
  BY <1>2 DEF KeyArrives, Next, Handler
<1>3. CASE CtrlKey
  BY <1>3 DEF CtrlKey, Next, Handler
<1>4. CASE Getchar
  BY <1>4 DEF Getchar, Next, Reader
<1>5. CASE Deliver \/ Sigaction \/ Prompt \/ GotChar \/ Execute \/ CatOpen \/ CatRead \/ CatClose
           \/ KillLoad \/ KillStore \/ Crash
  BY <1>5 DEF Deliver, Sigaction, Prompt, GotChar, Execute, CatOpen, CatRead, CatClose,
              KillLoad, KillStore, Crash
<1> QED
  BY <1>1, <1>2, <1>3, <1>4, <1>5 DEF ShNext, Program

(* No signal is added. *)
LEMMA SignalsKeep ==
  ASSUME NoUnaskedSignal, ShellOK, sigint' = sigint, pending' \cup mask' \subseteq pending \cup mask,
         cmds' = cmds \/ cmds' = Append(cmds, line)
  PROVE  NoUnaskedSignal'
<1>1. Len(cmds) \in Nat /\ Len(cmds') \in Nat /\ Len(cmds) <= Len(cmds')
      /\ \A k \in 1..Len(cmds) : cmds'[k] = cmds[k]
  <2>1. cmds \in Seq(Seq(Chars \ {NL})) /\ line \in Seq(Chars \ {NL}) /\ Len(cmds) \in Nat
    BY DEF ShellOK
  <2>2. CASE cmds' = cmds
    BY <2>1, <2>2
  <2>3. CASE cmds' = Append(cmds, line)
    BY <2>1, <2>3, AppendProperties
  <2> QED
    BY <2>2, <2>3
<1>2. \A k \in 1..Len(cmds) : k \in 1..Len(cmds')
  BY <1>1
<1> QED
  BY <1>1, <1>2 DEF NoUnaskedSignal

(* A key adds at most the signal of a Ctrl+C. *)
LEMMA KeyPreservesShell ==
  ASSUME ShInv, NEW ch \in Chars, KeyArrives(ch)
  PROVE  ShellOK' /\ LinesOK' /\ Raising' /\ NoUnaskedSignal'
<1>1. UNCHANGED <<sh, ninst, line, mask, cmds>>
  BY DEF KeyArrives
<1>2. out' = out /\ c' = c
  BY DEF KeyArrives, Key, rdVars
<1>3. SIGINT \in 1..(NSIG - 1) /\ sigint \in Nat
  BY ShellAssumption DEF ShInv, IInv, TypeOK
<1>4. (pending' = pending \/ (pending' = pending \cup {SIGINT} /\ sigint' = sigint + 1))
      /\ (sigint' = sigint \/ sigint' = sigint + 1)
  BY DEF KeyArrives, Key
<1>5. ShellOK'
  BY <1>1, <1>3, <1>4 DEF ShInv, ShellOK
<1>6. LinesOK' /\ Raising'
  BY <1>1, <1>2 DEF ShInv, LinesOK, Raising, RaisedSig
<1>7. NoUnaskedSignal'
  <2> SUFFICES ASSUME NEW s \in pending' \cup mask'
               PROVE  (s = SIGINT /\ sigint' > 0) \/ \E k \in 1..Len(cmds') : AsksFor(cmds'[k], s)
    BY DEF NoUnaskedSignal
  <2>1. CASE s \in pending \cup mask
    BY <1>1, <1>3, <1>4, <2>1 DEF ShInv, NoUnaskedSignal
  <2>2. CASE s \notin pending \cup mask
    BY <1>1, <1>3, <1>4, <2>2
  <2> QED
    BY <2>1, <2>2
<1> QED
  BY <1>5, <1>6, <1>7

(* Reading: a character becomes the last one of the text. *)
LEMMA GetcharPreserves ==
  ASSUME ShInv, Getchar
  PROVE  ShellOK' /\ LinesOK' /\ Raising' /\ NoUnaskedSignal'
<1>1. sh \in {"read", "term", "astray"} /\ UNCHANGED <<ninst, line, pending, mask, cmds>>
  BY DEF Getchar, shVars
<1>2. sigint' = sigint
  BY DEF Getchar, LoadHead, TestEmpty, LoadChar, StoreTail
<1>3. NoUnaskedSignal'
  BY <1>1, <1>2, SignalsKeep DEF ShInv
<1>4. CASE (LoadHead \/ TestEmpty \/ LoadChar) /\ UNCHANGED shVars
  <2>1. sh' = sh /\ out' = out
    BY <1>4 DEF shVars, LoadHead, TestEmpty, LoadChar
  <2> QED
    BY <1>1, <1>3, <2>1 DEF ShInv, ShellOK, LinesOK, Raising, RaisedSig, Between
<1>5. CASE StoreTail /\ Goto(IF sh = "read" THEN "got" ELSE sh)
  <2>1. sh' = (IF sh = "read" THEN "got" ELSE sh) /\ out' = Append(out, c) /\ c' = c /\ pc = "store"
    BY <1>5 DEF Goto, StoreTail
  <2>2. out \in Seq(Chars) /\ c \in Chars
    BY <2>1 DEF ShInv, IInv, TypeOK, ReadStable
  <2>3. ShellOK' /\ Raising'
    BY <1>1, <2>1 DEF ShInv, ShellOK, Raising
  <2>4. ASSUME NEW k \in 1..Len(cmds) PROVE k <= Lines(out') /\ cmds[k] = Typed(out', k)
    <3>1. k \in 1..Lines(out) /\ cmds[k] = Typed(out, k)
      <4>1. k <= Lines(out) /\ cmds[k] = Typed(out, k) /\ Lines(out) \in Nat
        BY <2>2, LastLine DEF ShInv, LinesOK
      <4> QED
        BY <4>1
    <3> QED
      BY <2>1, <2>2, <3>1, CompleteStays
  <2>5. sh' = "got" => /\ c' \in Chars
                       /\ \E o \in Seq(Chars) : /\ out' = Append(o, c') /\ Len(cmds') = Lines(o)
                                                /\ line' = Typed(o, Lines(o) + 1)
    BY <1>1, <2>1, <2>2 DEF ShInv, LinesOK
  <2>6. LinesOK'
    BY <1>1, <2>1, <2>4, <2>5 DEF LinesOK, Between
  <2> QED
    BY <1>3, <2>3, <2>6
<1> QED
  BY <1>4, <1>5 DEF Getchar

(* GotChar stores the character in line, or ends it. *)
LEMMA GotCharPreserves ==
  ASSUME ShInv, GotChar
  PROVE  ShellOK' /\ LinesOK' /\ Raising' /\ NoUnaskedSignal'
<1>1. /\ sh = "got" /\ UNCHANGED <<ninst, pending, mask, cmds>>
      /\ out' = out /\ c' = c /\ sigint' = sigint
  BY DEF GotChar, vars, rdVars
<1>2. NoUnaskedSignal'
  BY <1>1, SignalsKeep DEF ShInv
<1>3. c \in Chars
  BY <1>1 DEF ShInv, LinesOK
<1>4. PICK o \in Seq(Chars) : out = Append(o, c) /\ Len(cmds) = Lines(o)
                              /\ line = Typed(o, Lines(o) + 1)
  BY <1>1 DEF ShInv, LinesOK
<1>5. Lines(o) \in Nat
  BY LastLine
<1>6. CASE c = NL
  <2>1. sh' = "run" /\ line' = line
    BY <1>6 DEF GotChar, Goto
  <2>2. /\ Lines(out) = Lines(o) + 1 /\ Typed(out, Lines(o) + 1) = Typed(o, Lines(o) + 1)
        /\ Typed(out, Lines(o) + 2) = <<>>
    BY <1>4, <1>6, EnterCompletes
  <2>3. Lines(o) + 1 + 1 = Lines(o) + 2
    BY <1>5
  <2>4. LinesOK'
    BY <1>1, <1>4, <2>1, <2>2, <2>3 DEF ShInv, LinesOK, Between
  <2>5. ShellOK' /\ Raising'
    BY <1>1, <2>1 DEF ShInv, ShellOK, Raising
  <2> QED
    BY <1>2, <2>4, <2>5
<1>7. CASE c # NL
  <2>1. sh' = "read" /\ line' = IF LineHasRoom THEN Append(line, c) ELSE line
    BY <1>7 DEF GotChar, Goto
  <2>2. /\ Lines(out) = Lines(o)
        /\ Typed(out, Lines(o) + 1)
             = IF Len(line) < LINE_SIZE - 1 THEN Append(line, c) ELSE line
    BY <1>3, <1>4, <1>7, CharGoesOn
  <2>3. LinesOK'
    BY <1>1, <1>4, <2>1, <2>2 DEF ShInv, LinesOK, LineHasRoom, Between
  <2>4. line' \in Seq(Chars \ {NL}) /\ Len(line') < LINE_SIZE
    <3>1. line \in Seq(Chars \ {NL}) /\ Len(line) < LINE_SIZE /\ c \in Chars \ {NL}
          /\ LINE_SIZE \in Nat /\ Len(line) \in Nat
      BY <1>3, <1>7, ShellAssumption DEF ShInv, ShellOK
    <3>2. Append(line, c) \in Seq(Chars \ {NL}) /\ Len(Append(line, c)) = Len(line) + 1
      BY <3>1, AppendProperties
    <3> QED
      BY <2>1, <3>1, <3>2 DEF LineHasRoom
  <2>5. ShellOK' /\ Raising'
    BY <1>1, <2>1, <2>4 DEF ShInv, ShellOK, Raising
  <2> QED
    BY <1>2, <2>3, <2>5
<1> QED
  BY <1>6, <1>7

(* Execute takes the line that Enter has completed. *)
LEMMA ExecutePreserves ==
  ASSUME ShInv, Execute
  PROVE  ShellOK' /\ LinesOK' /\ Raising' /\ NoUnaskedSignal'
<1>1. /\ sh = "run" /\ UNCHANGED <<ninst, line, pending, mask>>
      /\ out' = out /\ c' = c /\ sigint' = sigint /\ cmds' = Append(cmds, line)
  BY DEF Execute, vars, rdVars
<1>2. NoUnaskedSignal'
  BY <1>1, SignalsKeep DEF ShInv
<1>3. sh' \in {"cat", "raise", "prompt"}
  BY DEF Execute, Goto
<1>4. sh' = "raise" => Command(line) = "raise" /\ RaisedSig > 0
  BY DEF Execute, Goto, RaisedSig
<1>5. /\ cmds \in Seq(Seq(Chars \ {NL})) /\ line \in Seq(Chars \ {NL}) /\ Len(cmds) \in Nat
      /\ cmds' \in Seq(Seq(Chars \ {NL})) /\ Len(cmds') = Len(cmds) + 1
      /\ (\A k \in 1..Len(cmds) : cmds'[k] = cmds[k]) /\ cmds'[Len(cmds) + 1] = line
  BY <1>1, AppendProperties DEF ShInv, ShellOK
<1>6. ShellOK'
  BY <1>1, <1>3, <1>5 DEF ShInv, ShellOK
<1>7. Raising'
  BY <1>1, <1>4, <1>5 DEF Raising, RaisedSig
<1>8. /\ Lines(out) = Len(cmds) + 1 /\ line = Typed(out, Lines(out))
      /\ Typed(out, Lines(out) + 1) = <<>>
      /\ \A k \in 1..Len(cmds) : k <= Lines(out) /\ cmds[k] = Typed(out, k)
  BY <1>1 DEF ShInv, LinesOK
<1>9. ASSUME NEW k \in 1..Len(cmds') PROVE k <= Lines(out) /\ cmds'[k] = Typed(out, k)
  <2>1. k \in 1..Len(cmds) \/ k = Len(cmds) + 1
    BY <1>5
  <2> QED
    BY <1>5, <1>8, <2>1
<1>10. LinesOK'
  BY <1>1, <1>3, <1>5, <1>8, <1>9 DEF LinesOK, Between
<1> QED
  BY <1>2, <1>6, <1>7, <1>10

(* SYS_KILL from the shell sends the signal that its line asked for. *)
LEMMA KillLoadPreserves ==
  ASSUME ShInv, KillLoad
  PROVE  ShellOK' /\ LinesOK' /\ Raising' /\ NoUnaskedSignal'
<1>1. /\ sh = "raise" /\ UNCHANGED <<ninst, line, pending, cmds>>
      /\ out' = out /\ c' = c /\ sigint' = sigint
  BY DEF KillLoad, vars, rdVars
<1>2. sh' \in {"killing", "prompt"}
  BY DEF KillLoad, Goto
<1>3. mask' = mask \/ (RaisedSig < NSIG /\ mask' = pending \cup {RaisedSig})
  BY DEF KillLoad
<1>4. /\ Len(cmds) > 0 /\ cmds[Len(cmds)] = line
      /\ Command(line) = "raise" /\ RaisedSig > 0
  BY <1>1 DEF ShInv, Raising
<1>5. line \in Seq(Chars \ {NL}) /\ Len(cmds) \in Nat
  BY DEF ShInv, ShellOK
<1>6. AsksFor(line, RaisedSig)
  BY <1>4, <1>5, RaiseAsks DEF RaisedSig
<1>7. RaisedSig \in Int
  <2>1. line \in Seq(Nat)
    <3>1. Chars \ {NL} \subseteq Nat
      BY ShellAssumption
    <3> QED
      BY <1>5, <3>1, SeqWidens
  <2>2. str_skip_word(line) \in Seq(Nat)
    <3> DEFINE a == ArgStart(line)
    <3>1. a \in 1..(Len(line) + 1) /\ str_skip_word(line) = SubSeq(line, a, Len(line))
      <4>1. /\ WordEnd(line) \in 1..(Len(line) + 1) /\ a \in WordEnd(line)..(Len(line) + 1)
            /\ str_skip_word(line) = SubSeq(line, a, Len(line))
        BY <2>1, SkipIs
      <4> HIDE DEF a
      <4> QED
        BY <2>1, <4>1
    <3> HIDE DEF a
    <3>2. Len(line) \in (a - 1)..Len(line)
      BY <2>1, <3>1
    <3> QED
      BY <2>1, <3>1, <3>2, PartIs
  <2> QED
    BY <2>2, AtoiValue DEF RaisedSig
<1>8. mask' \subseteq 1..(NSIG - 1)
  <2>1. CASE mask' = mask
    BY <2>1 DEF ShInv, ShellOK
  <2>2. CASE RaisedSig < NSIG /\ mask' = pending \cup {RaisedSig}
    <3>1. NSIG \in Int
      BY ShellAssumption
    <3>2. RaisedSig \in 1..(NSIG - 1)
      BY <1>4, <1>7, <2>2, <3>1
    <3> QED
      BY <2>2, <3>2 DEF ShInv, ShellOK
  <2> QED
    BY <1>3, <2>1, <2>2
<1>9. ShellOK'
  BY <1>1, <1>2, <1>8 DEF ShInv, ShellOK
<1>10. LinesOK' /\ Raising'
  BY <1>1, <1>2 DEF ShInv, LinesOK, Raising, Between
<1>11. NoUnaskedSignal'
  <2> SUFFICES ASSUME NEW s \in pending' \cup mask'
               PROVE  (s = SIGINT /\ sigint' > 0) \/ \E k \in 1..Len(cmds') : AsksFor(cmds'[k], s)
    BY DEF NoUnaskedSignal
  <2>1. CASE s \in pending \cup mask
    BY <1>1, <2>1 DEF ShInv, NoUnaskedSignal
  <2>2. CASE s \notin pending \cup mask
    <3>1. s = RaisedSig
      BY <1>1, <1>3, <2>2
    <3>2. Len(cmds) \in 1..Len(cmds)
      BY <1>4, <1>5
    <3> QED
      BY <1>1, <1>4, <1>6, <3>1, <3>2
  <2> QED
    BY <2>1, <2>2
<1> QED
  BY <1>9, <1>10, <1>11

(* The steps that only move the shell on between two lines, or take it     *)
(* away from its program.                                                  *)
LEMMA OtherPreserves ==
  ASSUME ShInv, Deliver \/ Crash \/ Sigaction \/ Prompt \/ CatOpen \/ CatRead \/ CatClose \/ KillStore
  PROVE  ShellOK' /\ LinesOK' /\ Raising' /\ NoUnaskedSignal'
<1>1. cmds' = cmds /\ out' = out /\ c' = c /\ sigint' = sigint
  BY DEF Deliver, Crash, Sigaction, Prompt, CatOpen, CatRead, CatClose, KillStore, vars, rdVars
<1>2. pending' \cup mask' \subseteq pending \cup mask
  BY DEF Deliver, Crash, Sigaction, Prompt, CatOpen, CatRead, CatClose, KillStore
<1>3. NoUnaskedSignal'
  BY <1>1, <1>2, SignalsKeep DEF ShInv
<1>4. CASE Deliver \/ Crash
  <2>1. sh' \in {"term", "astray", "halt"} /\ UNCHANGED <<ninst, line>>
    BY <1>4 DEF Deliver, Crash, HandlerOf
  <2>2. LinesOK' /\ Raising'
    BY <1>1, <2>1 DEF ShInv, LinesOK, Raising, Between
  <2>3. ShellOK'
    BY <1>1, <1>2, <2>1 DEF ShInv, ShellOK
  <2> QED
    BY <1>3, <2>2, <2>3
<1>5. CASE Sigaction
  <2>1. /\ sh = "start" /\ ninst' = ninst + 1 /\ line' = line
        /\ sh' = IF ninst + 1 = 3 THEN "prompt" ELSE "start"
    BY <1>5 DEF Sigaction, Goto, Installs
  <2>2. LinesOK' /\ Raising'
    BY <1>1, <2>1 DEF ShInv, LinesOK, Raising, Between
  <2>3. ninst' \in 0..3 /\ (sh' = "start" => ninst' < 3) /\ sh' \in {"prompt", "start"}
    BY <2>1 DEF ShInv, ShellOK
  <2>4. ShellOK'
    BY <1>1, <1>2, <2>1, <2>3 DEF ShInv, ShellOK
  <2> QED
    BY <1>3, <2>2, <2>4
<1>6. CASE Prompt
  <2>1. sh = "prompt" /\ sh' = "read" /\ line' = <<>> /\ ninst' = ninst
    BY <1>6 DEF Prompt, Goto
  <2>2. LinesOK' /\ Raising'
    BY <1>1, <2>1 DEF ShInv, LinesOK, Raising, Between
  <2>3. <<>> \in Seq(Chars \ {NL}) /\ Len(<<>>) < LINE_SIZE
    BY ShellAssumption
  <2>4. ShellOK'
    BY <1>1, <1>2, <2>1, <2>3 DEF ShInv, ShellOK
  <2> QED
    BY <1>3, <2>2, <2>4
<1>7. CASE CatOpen \/ CatRead \/ CatClose \/ KillStore
  <2>1. /\ sh \in {"cat", "cat_read", "cat_close", "killing"} /\ UNCHANGED <<ninst, line>>
        /\ sh' \in {"cat_read", "cat_close", "prompt"}
    BY <1>7 DEF CatOpen, CatRead, CatClose, KillStore, Goto
  <2>2. LinesOK' /\ Raising'
    BY <1>1, <2>1 DEF ShInv, LinesOK, Raising, Between
  <2>3. ShellOK'
    BY <1>1, <1>2, <2>1 DEF ShInv, ShellOK
  <2> QED
    BY <1>3, <2>2, <2>3
<1> QED
  BY <1>4, <1>5, <1>6, <1>7

-----------------------------------------------------------------------------
(* The invariant of the shell and its driver, with a key or a signal       *)
(* between any two steps.                                                  *)
THEOREM ShInvariance == ShSpec => []ShInv
<1>1. ShInit => ShInv
  <2> SUFFICES ASSUME ShInit PROVE ShInv
    OBVIOUS
  <2>1. IInv
    BY InitInv DEF ShInit
  <2>2. <<>> \in Seq(Chars \ {NL}) /\ Len(<<>>) < LINE_SIZE /\ <<>> \in Seq(Seq(Chars \ {NL}))
        /\ Len(<<>>) = 0
    BY ShellAssumption
  <2>3. ShellOK
    BY <2>2 DEF ShInit, ShellOK
  <2>4. out = <<>> /\ cmds = <<>> /\ sh = "start" /\ pending = {} /\ mask = {}
    BY DEF ShInit, Init
  <2>5. LinesOK
    BY <2>2, <2>4, NothingTyped DEF LinesOK, Between
  <2>6. Raising /\ NoUnaskedSignal
    BY <2>4 DEF Raising, NoUnaskedSignal
  <2> QED
    BY <2>1, <2>3, <2>5, <2>6 DEF ShInv
<1>2. ShInv /\ [ShNext]_allVars => ShInv'
  <2> SUFFICES ASSUME ShInv, [ShNext]_allVars PROVE ShInv'
    OBVIOUS
  <2>1. IInv'
    BY ShellStep, StepInv DEF ShInv
  <2> SUFFICES ShellOK' /\ LinesOK' /\ Raising' /\ NoUnaskedSignal'
    BY <2>1 DEF ShInv
  <2>2. CASE UNCHANGED shVars /\ UNCHANGED <<out, c, sigint>>
    BY <2>2 DEF shVars, ShInv, ShellOK, LinesOK, Raising, RaisedSig, NoUnaskedSignal
  <2>3. CASE UNCHANGED allVars
    BY <2>2, <2>3 DEF allVars, vars, rdVars
  <2>4. CASE CtrlKey
    BY <2>2, <2>4 DEF CtrlKey, CtrlPress, CtrlRelease, rdVars
  <2>5. CASE \E ch \in Chars : KeyArrives(ch)
    BY <2>5, KeyPreservesShell
  <2>6. CASE Getchar
    BY <2>6, GetcharPreserves
  <2>7. CASE GotChar
    BY <2>7, GotCharPreserves
  <2>8. CASE Execute
    BY <2>8, ExecutePreserves
  <2>9. CASE KillLoad
    BY <2>9, KillLoadPreserves
  <2>10. CASE Deliver \/ Crash \/ Sigaction \/ Prompt \/ CatOpen \/ CatRead \/ CatClose \/ KillStore
    BY <2>10, OtherPreserves
  <2> QED
    BY <2>3, <2>4, <2>5, <2>6, <2>7, <2>8, <2>9, <2>10 DEF ShNext, Program
<1> QED
  BY <1>1, <1>2, PTL DEF ShSpec

(* The shell with its driver is a run of the driver: all that is proved of *)
(* kb_getchar holds of it under the shell.                                 *)
THEOREM DriverUsed == ShSpec => Spec
<1>1. ShInit => Init
  BY DEF ShInit
<1> QED
  BY <1>1, ShellStep, PTL DEF ShSpec, Spec

(* The slot that kb_getchar reads for the shell is stable and holds a      *)
(* character.                                                              *)
THEOREM ShReadCorrect == ShSpec => []ReadStable
  BY DriverUsed, ReadCorrect, PTL

(* Under the shell the ring buffer is a bounded queue. *)
THEOREM ShRefinement == ShSpec => RefinesKeyQueue
  BY DriverUsed, Refinement, PTL

(* Every variable has its type: line never fills the place of its final    *)
(* zero, and only signal numbers become pending.                           *)
THEOREM ShTypeCorrect == ShSpec => []ShTypeOK
<1>1. ShInv => ShTypeOK
  <2>1. Len(Installs) = 3
    BY DEF Installs
  <2> QED
    BY <2>1 DEF ShInv, IInv, ShellOK, ShTypeOK
<1> QED
  BY <1>1, ShInvariance, PTL

(* The shell executes the lines typed, in order and cut to its buffer,     *)
(* whatever the sizes, the keys and the moments at which they arrive.      *)
THEOREM LinesCorrect == ShSpec => []LinesAsTyped
<1>1. ShInv => LinesAsTyped
  BY DEF ShInv, LinesOK, LinesAsTyped
<1> QED
  BY <1>1, ShInvariance, PTL

(* No signal becomes pending for the shell that neither a Ctrl+C nor an    *)
(* executed `raise` asked for, whatever str_skip_word and the wrap-arounds *)
(* of str_atoi make of a line.                                             *)
THEOREM SignalsAsked == ShSpec => []NoUnaskedSignal
<1>1. ShInv => NoUnaskedSignal
  BY DEF ShInv
<1> QED
  BY <1>1, ShInvariance, PTL
=============================================================================
