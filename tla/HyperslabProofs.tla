---------------------------- MODULE HyperslabProofs ----------------------------
(* Proofs about Hyperslab, for every rank, shape and address width.        *)
EXTENDS Hyperslab, FiniteSetTheorems, SequenceTheorems, WellFoundedInduction, TLAPS

--------------------------------------------------------------------------------
(* Induction over the naturals, for sets.                                  *)

(* A set of naturals that is not empty has a least element.                *)
LEMMA LeastNat ==
  ASSUME NEW T, T \subseteq Nat, T # {}
  PROVE  \E n \in T : \A m \in T : n <= m
<1> DEFINE R == OpToRel(<, Nat)
<1>1. IsWellFoundedOn(R, Nat)
  BY NatLessThanWellFounded
<1> HIDE DEF R
<1>2. PICK n \in T : \A y \in T : ~(<<y, n>> \in R)
  BY <1>1, WFMin
<1>3. \A y \in T : ~(y < n)
  <2>1. R = {ss \in Nat \X Nat : ss[1] < ss[2]}
    BY DEF R, OpToRel
  <2> QED BY <1>2, <2>1
<1> QED BY <1>3

(* Induction over the first naturals, for a set of them.                   *)
LEMMA UpTo ==
  ASSUME NEW N \in Nat, NEW S, 0 \in S, \A n \in 0 .. N - 1 : n \in S => n + 1 \in S
  PROVE  0 .. N \subseteq S
<1> SUFFICES ASSUME ~(0 .. N \subseteq S) PROVE FALSE
  OBVIOUS
<1> DEFINE T == (0 .. N) \ S
<1>0. T \subseteq Nat /\ T # {}
  OBVIOUS
<1>1. PICK n \in T : \A m \in T : n <= m
  <2> HIDE DEF T
  <2> QED BY <1>0, LeastNat
<1>2. n # 0 /\ n \in 0 .. N /\ n \notin S
  OBVIOUS
<1>3. n - 1 \in 0 .. N - 1 /\ n - 1 \notin T
  BY <1>1, <1>2
<1> QED BY <1>2, <1>3

(* g is defined by recursion over the first naturals.                      *)
Recurses(g, N, D, d, step) ==
  /\ g \in [0 .. N -> D]
  /\ g[0] = d
  /\ \A n \in 1 .. N : g[n] = step[<<n, g[n - 1]>>]

(* Such a function exists.                                                 *)
LEMMA Recursion ==
  ASSUME NEW N \in Nat, NEW D, NEW d \in D, NEW step \in [(1 .. N) \X D -> D]
  PROVE  \E g : Recurses(g, N, D, d, step)
<1> DEFINE P(g, k) == g[0] = d /\ \A n \in 1 .. k : g[n] = step[<<n, g[n - 1]>>]
<1> DEFINE S == {k \in 0 .. N : \E g \in [0 .. k -> D] : P(g, k)}
<1>1. 0 \in S
  <2> DEFINE g == [n \in 0 .. 0 |-> d]
  <2>1. g \in [0 .. 0 -> D] /\ P(g, 0)
    OBVIOUS
  <2>2. 0 \in 0 .. N
    OBVIOUS
  <2> HIDE DEF g
  <2> QED BY <2>1, <2>2
<1>2. ASSUME NEW k \in 0 .. N - 1, k \in S PROVE k + 1 \in S
  <2>1. PICK g \in [0 .. k -> D] : P(g, k)
    BY <1>2
  <2> DEFINE h == [n \in 0 .. k + 1 |-> IF n = k + 1 THEN step[<<k + 1, g[k]>>] ELSE g[n]]
  <2>2. k + 1 \in 1 .. N /\ g[k] \in D
    OBVIOUS
  <2>3. step[<<k + 1, g[k]>>] \in D
    BY <2>2
  <2>4. h \in [0 .. k + 1 -> D]
    BY <2>3
  <2>5. h[0] = d
    BY <2>1
  <2>6. ASSUME NEW n \in 1 .. k + 1 PROVE h[n] = step[<<n, h[n - 1]>>]
    <3>1. CASE n = k + 1
      <4>1. h[n - 1] = g[k]
        BY <3>1
      <4>2. h[k + 1] = step[<<k + 1, g[k]>>]
        OBVIOUS
      <4> HIDE DEF h
      <4> QED BY <3>1, <4>1, <4>2
    <3>2. CASE n # k + 1
      <4>1. n \in 1 .. k /\ n - 1 \in 0 .. k
        BY <3>2
      <4>2. h[n] = g[n] /\ h[n - 1] = g[n - 1]
        BY <4>1, <3>2
      <4> QED BY <2>1, <4>1, <4>2
    <3> QED BY <3>1, <3>2
  <2> HIDE DEF h
  <2>7. P(h, k + 1)
    BY <2>5, <2>6
  <2> QED BY <2>2, <2>4, <2>7
<1> HIDE DEF S
<1>3. 0 .. N \subseteq S
  BY <1>1, <1>2, UpTo
<1>4. N \in S
  BY <1>3
<1> QED BY <1>4 DEF S, Recurses

(* Two functions that start alike and go on alike are alike.               *)
AlikeSteps(g, h, N) == g[0] = h[0] /\ \A n \in 1 .. N : g[n - 1] = h[n - 1] => g[n] = h[n]
Alike(g, h, N) == \A n \in 0 .. N : g[n] = h[n]
LEMMA SameRecursion ==
  ASSUME NEW N \in Nat, NEW g, NEW h, AlikeSteps(g, h, N)
  PROVE  Alike(g, h, N)
<1> DEFINE S == {n \in 0 .. N : g[n] = h[n]}
<1>1. 0 \in S
  BY DEF AlikeSteps
<1>2. \A n \in 0 .. N - 1 : n \in S => n + 1 \in S
  <2> SUFFICES ASSUME NEW n \in 0 .. N - 1, n \in S PROVE n + 1 \in S
    OBVIOUS
  <2>1. n + 1 \in 1 .. N /\ n + 1 - 1 = n
    OBVIOUS
  <2>2. g[n + 1] = h[n + 1]
    BY <2>1 DEF AlikeSteps
  <2> QED BY <2>1, <2>2
<1> HIDE DEF S
<1>3. 0 .. N \subseteq S
  BY <1>1, <1>2, UpTo
<1> QED BY <1>3 DEF S, Alike

--------------------------------------------------------------------------------
(* Row-major numbers.                                                      *)

(* The number of c in the first n dimensions s.                            *)
Row(s, c, n) ==
  LET f[a \in 0 .. n] == IF a = 0 THEN 0 ELSE f[a - 1] * s[a] + c[a]
  IN  f[n]

Numbers(s, n) == \A a \in 1 .. n : s[a] \in Int

RowStep(s, c, n) ==
  /\ \A a \in 0 .. n : Row(s, c, a) \in Int
  /\ Row(s, c, 0) = 0
  /\ \A a \in 1 .. n : Row(s, c, a) = Row(s, c, a - 1) * s[a] + c[a]
LEMMA RowSteps ==
  ASSUME NEW n \in Nat, NEW s, NEW c, Numbers(s, n), Numbers(c, n)
  PROVE  RowStep(s, c, n)
<1> DEFINE step == [x \in (1 .. n) \X Int |-> x[2] * s[x[1]] + c[x[1]]]
<1>1. step \in [(1 .. n) \X Int -> Int]
  <2> SUFFICES ASSUME NEW a \in 1 .. n, NEW q \in Int PROVE q * s[a] + c[a] \in Int
    OBVIOUS
  <2>1. s[a] \in Int /\ c[a] \in Int
    BY DEF Numbers
  <2> QED BY <2>1
<1>2. \A a \in 1 .. n, q \in Int : step[<<a, q>>] = q * s[a] + c[a]
  OBVIOUS
<1> HIDE DEF step
<1>3. 0 \in Int
  OBVIOUS
<1>4. PICK g : Recurses(g, n, Int, 0, step)
  BY <1>1, <1>3, Recursion
<1>5. \A a \in 1 .. n : g[a] = g[a - 1] * s[a] + c[a]
  <2> TAKE a \in 1 .. n
  <2>1. g[a - 1] \in Int
    BY <1>4 DEF Recurses
  <2> QED BY <1>2, <1>4, <2>1 DEF Recurses
<1>6. g[0] = 0 /\ \A a \in 0 .. n : g[a] \in Int
  BY <1>4 DEF Recurses
<1>7. ASSUME NEW m \in 0 .. n PROVE Row(s, c, m) = g[m]
  <2> DEFINE Is(f) == f = [a \in 0 .. m |-> IF a = 0 THEN 0 ELSE f[a - 1] * s[a] + c[a]]
  <2> DEFINE row == CHOOSE f : Is(f)
  <2> DEFINE h == [a \in 0 .. m |-> g[a]]
  <2>0. m \in Nat
    OBVIOUS
  <2>1. Is(h)
    <3> SUFFICES ASSUME NEW a \in 0 .. m
                 PROVE  g[a] = IF a = 0 THEN 0 ELSE h[a - 1] * s[a] + c[a]
      OBVIOUS
    <3>1. CASE a = 0
      BY <1>6, <3>1
    <3>2. CASE a # 0
      <4>1. a \in 1 .. n /\ a - 1 \in 0 .. m
        BY <3>2
      <4>2. h[a - 1] = g[a - 1]
        BY <4>1
      <4> QED BY <1>5, <3>2, <4>1, <4>2
    <3> QED BY <3>1, <3>2
  <2>2. Is(row)
    BY <2>1
  <2>3. Row(s, c, m) = row[m]
    BY DEF Row
  <2> HIDE DEF row, h
  <2>4. \A a \in 0 .. m : row[a] = IF a = 0 THEN 0 ELSE row[a - 1] * s[a] + c[a]
    BY <2>2
  <2>5. row[0] = 0 /\ \A a \in 1 .. m : row[a] = row[a - 1] * s[a] + c[a]
    BY <2>0, <2>4
  <2>6. AlikeSteps(g, row, m)
    BY <1>5, <1>6, <2>5 DEF AlikeSteps
  <2>7. Alike(g, row, m)
    BY <2>0, <2>6, SameRecursion
  <2> QED BY <2>0, <2>3, <2>7 DEF Alike
<1>8. \A a \in 1 .. n : a \in 0 .. n /\ a - 1 \in 0 .. n
  OBVIOUS
<1> QED BY <1>5, <1>6, <1>7, <1>8 DEF RowStep

(* The product of the k dimensions after the first i.                      *)
Times(s, i, k) ==
  LET f[a \in 0 .. k] == IF a = 0 THEN 1 ELSE f[a - 1] * s[i + a]
  IN  f[k]

TimesStep(s, i, n) ==
  /\ \A a \in 0 .. n : Times(s, i, a) \in Int
  /\ Times(s, i, 0) = 1
  /\ \A a \in 1 .. n : Times(s, i, a) = Times(s, i, a - 1) * s[i + a]
LEMMA TimesSteps ==
  ASSUME NEW n \in Nat, NEW i \in Nat, NEW s, Numbers(s, i + n)
  PROVE  TimesStep(s, i, n)
<1>0. \A a \in 1 .. n : s[i + a] \in Int
  <2> TAKE a \in 1 .. n
  <2>1. i + a \in 1 .. i + n
    OBVIOUS
  <2> QED BY <2>1 DEF Numbers
<1> DEFINE step == [x \in (1 .. n) \X Int |-> x[2] * s[i + x[1]]]
<1>1. step \in [(1 .. n) \X Int -> Int]
  <2> SUFFICES ASSUME NEW a \in 1 .. n, NEW q \in Int PROVE q * s[i + a] \in Int
    OBVIOUS
  <2>1. s[i + a] \in Int
    BY <1>0
  <2> QED BY <2>1
<1>2. \A a \in 1 .. n, q \in Int : step[<<a, q>>] = q * s[i + a]
  OBVIOUS
<1> HIDE DEF step
<1>3. 1 \in Int
  OBVIOUS
<1>4. PICK g : Recurses(g, n, Int, 1, step)
  BY <1>1, <1>3, Recursion
<1>5. \A a \in 1 .. n : g[a] = g[a - 1] * s[i + a]
  <2> TAKE a \in 1 .. n
  <2>1. g[a - 1] \in Int
    BY <1>4 DEF Recurses
  <2> QED BY <1>2, <1>4, <2>1 DEF Recurses
<1>6. g[0] = 1 /\ \A a \in 0 .. n : g[a] \in Int
  BY <1>4 DEF Recurses
<1>7. ASSUME NEW m \in 0 .. n PROVE Times(s, i, m) = g[m]
  <2> DEFINE Is(f) == f = [a \in 0 .. m |-> IF a = 0 THEN 1 ELSE f[a - 1] * s[i + a]]
  <2> DEFINE row == CHOOSE f : Is(f)
  <2> DEFINE h == [a \in 0 .. m |-> g[a]]
  <2>0. m \in Nat
    OBVIOUS
  <2>1. Is(h)
    <3> SUFFICES ASSUME NEW a \in 0 .. m
                 PROVE  g[a] = IF a = 0 THEN 1 ELSE h[a - 1] * s[i + a]
      OBVIOUS
    <3>1. CASE a = 0
      BY <1>6, <3>1
    <3>2. CASE a # 0
      <4>1. a \in 1 .. n /\ a - 1 \in 0 .. m
        BY <3>2
      <4>2. h[a - 1] = g[a - 1]
        BY <4>1
      <4> QED BY <1>5, <3>2, <4>1, <4>2
    <3> QED BY <3>1, <3>2
  <2>2. Is(row)
    BY <2>1
  <2>3. Times(s, i, m) = row[m]
    BY DEF Times
  <2> HIDE DEF row, h
  <2>4. \A a \in 0 .. m : row[a] = IF a = 0 THEN 1 ELSE row[a - 1] * s[i + a]
    BY <2>2
  <2>5. row[0] = 1 /\ \A a \in 1 .. m : row[a] = row[a - 1] * s[i + a]
    BY <2>0, <2>4
  <2>6. AlikeSteps(g, row, m)
    BY <1>5, <1>6, <2>5 DEF AlikeSteps
  <2>7. Alike(g, row, m)
    BY <2>0, <2>6, SameRecursion
  <2> QED BY <2>0, <2>3, <2>7 DEF Alike
<1>8. \A a \in 1 .. n : a \in 0 .. n /\ a - 1 \in 0 .. n
  OBVIOUS
<1> QED BY <1>5, <1>6, <1>7, <1>8 DEF TimesStep

--------------------------------------------------------------------------------
(* Arithmetic.                                                             *)

LEMMA TimesMonotone ==
  ASSUME NEW x \in Nat, NEW y \in Nat, NEW u \in Nat, NEW v \in Nat, x <= y, u <= v
  PROVE  x * u <= y * v
<1>1. x * u <= y * u
  <2>1. PICK d \in Nat : y = x + d
    <3>1. y - x \in Nat /\ y = x + (y - x)
      OBVIOUS
    <3> QED BY <3>1
  <2>2. y * u = x * u + d * u
    BY <2>1
  <2>3. d * u \in Nat /\ x * u \in Nat
    OBVIOUS
  <2> QED BY <2>2, <2>3
<1>2. y * u <= y * v
  <2>1. PICK d \in Nat : v = u + d
    <3>1. v - u \in Nat /\ v = u + (v - u)
      OBVIOUS
    <3> QED BY <3>1
  <2>2. y * v = y * u + y * d
    BY <2>1
  <2>3. y * d \in Nat /\ y * u \in Nat
    OBVIOUS
  <2> QED BY <2>2, <2>3
<1>3. x * u \in Nat /\ y * u \in Nat /\ y * v \in Nat
  OBVIOUS
<1> QED BY <1>1, <1>2, <1>3

(* One dimension more.                                                     *)
LEMMA PlaceBound ==
  ASSUME NEW p \in Nat, NEW x \in 0 .. p - 1, NEW s \in Nat, NEW c \in 0 .. s - 1
  PROVE  x * s + c \in 0 .. p * s - 1
<1>1. (x + 1) * s <= p * s
  BY TimesMonotone
<1>2. (x + 1) * s = x * s + s /\ x * s \in Nat /\ p * s \in Nat
  OBVIOUS
<1> QED BY <1>1, <1>2

LEMMA PlaceUnique ==
  ASSUME NEW x \in Nat, NEW y \in Nat, NEW s \in Nat, NEW c \in 0 .. s - 1, NEW d \in 0 .. s - 1,
         x * s + c = y * s + d
  PROVE  x = y /\ c = d
<1>1. ~(x < y)
  <2> SUFFICES ASSUME x < y PROVE FALSE
    OBVIOUS
  <2>1. (x + 1) * s <= y * s
    BY TimesMonotone
  <2>2. (x + 1) * s = x * s + s /\ x * s \in Nat /\ y * s \in Nat
    OBVIOUS
  <2> QED BY <2>1, <2>2
<1>2. ~(y < x)
  <2> SUFFICES ASSUME y < x PROVE FALSE
    OBVIOUS
  <2>1. (y + 1) * s <= x * s
    BY TimesMonotone
  <2>2. (y + 1) * s = y * s + s /\ x * s \in Nat /\ y * s \in Nat
    OBVIOUS
  <2> QED BY <2>1, <2>2
<1>3. x = y
  BY <1>1, <1>2
<1>4. x * s \in Nat
  OBVIOUS
<1> QED BY <1>3, <1>4

LEMMA ModSmall ==
  ASSUME NEW w \in Nat \ {0}, NEW x \in 0 .. w - 1
  PROVE  x % w = x
<1> QED OBVIOUS

LEMMA TimesAssociative ==
  ASSUME NEW x \in Int, NEW y \in Int, NEW z \in Int
  PROVE  (x * y) * z = x * (y * z) /\ x * y = y * x
<1> QED OBVIOUS

(* Where the number of a place is taken apart: x rows of t blocks, c       *)
(* blocks and the rest.                                                    *)
LEMMA TimesSum ==
  ASSUME NEW x \in Int, NEW s \in Int, NEW c \in Int, NEW t \in Int
  PROVE  (x * s + c) * t = x * (s * t) + c * t
<1>1. (x * s + c) * t = (x * s) * t + c * t
  OBVIOUS
<1> QED BY <1>1, TimesAssociative

--------------------------------------------------------------------------------
(* Products and row-major numbers.                                         *)

Naturals(s, n) == \A a \in 1 .. n : s[a] \in Nat
Positives(s, n) == \A a \in 1 .. n : s[a] \in Nat \ {0}
Within(s, c, n) == \A a \in 1 .. n : s[a] \in Nat /\ c[a] \in 0 .. s[a] - 1

LEMMA NumbersFacts ==
  ASSUME NEW n \in Nat, NEW s
  PROVE  /\ Positives(s, n) => Naturals(s, n)
         /\ Naturals(s, n) => Numbers(s, n)
         /\ \A m \in 0 .. n : /\ Numbers(s, n) => Numbers(s, m)
                              /\ Naturals(s, n) => Naturals(s, m)
                              /\ Positives(s, n) => Positives(s, m)
<1>1. \A m \in 0 .. n : \A a \in 1 .. m : a \in 1 .. n
  OBVIOUS
<1> QED BY <1>1 DEF Numbers, Naturals, Positives

LEMMA WithinFacts ==
  ASSUME NEW n \in Nat, NEW s, NEW c, Within(s, c, n)
  PROVE  /\ Positives(s, n) /\ Naturals(c, n)
         /\ Numbers(s, n) /\ Numbers(c, n)
         /\ \A m \in 0 .. n : Within(s, c, m)
<1>1. \A m \in 0 .. n : \A a \in 1 .. m : a \in 1 .. n
  OBVIOUS
<1>2. ASSUME NEW a \in 1 .. n PROVE s[a] \in Nat \ {0} /\ c[a] \in Nat
  BY DEF Within
<1>3. Positives(s, n) /\ Naturals(c, n)
  BY <1>2 DEF Positives, Naturals
<1>4. Numbers(s, n) /\ Numbers(c, n)
  BY <1>3, NumbersFacts
<1> QED BY <1>1, <1>3, <1>4 DEF Within

(* A product of positive numbers is positive.                              *)
LEMMA TimesPositive ==
  ASSUME NEW n \in Nat, NEW i \in Nat, NEW s, Positives(s, i + n)
  PROVE  \A a \in 0 .. n : Times(s, i, a) \in Nat \ {0}
<1> DEFINE S == {a \in 0 .. n : Times(s, i, a) \in Nat \ {0}}
<1>0. TimesStep(s, i, n)
  <2>1. Numbers(s, i + n)
    BY NumbersFacts
  <2> QED BY <2>1, TimesSteps
<1>1. 0 \in S
  BY <1>0 DEF TimesStep
<1>2. ASSUME NEW a \in 0 .. n - 1, a \in S PROVE a + 1 \in S
  <2>1. a + 1 \in 1 .. n /\ a + 1 - 1 = a /\ i + (a + 1) \in 1 .. i + n
    OBVIOUS
  <2>2. Times(s, i, a + 1) = Times(s, i, a) * s[i + (a + 1)]
    BY <1>0, <2>1 DEF TimesStep
  <2>3. s[i + (a + 1)] \in Nat \ {0} /\ Times(s, i, a) \in Nat \ {0}
    BY <1>2, <2>1 DEF Positives
  <2>4. \A x, y \in Nat \ {0} : x * y \in Nat \ {0}
    OBVIOUS
  <2> QED BY <2>1, <2>2, <2>3, <2>4
<1> HIDE DEF S
<1>3. 0 .. n \subseteq S
  BY <1>1, <1>2, UpTo
<1> QED BY <1>3 DEF S

LEMMA TimesSplit ==
  ASSUME NEW i \in Nat, NEW j \in Nat, NEW k \in Nat, NEW s, Numbers(s, i + j + k)
  PROVE  Times(s, i, j + k) = Times(s, i, j) * Times(s, i + j, k)
<1> DEFINE S == {a \in 0 .. k : Times(s, i, j + a) = Times(s, i, j) * Times(s, i + j, a)}
<1>0. TimesStep(s, i, j + k) /\ TimesStep(s, i + j, k)
  <2>1. j + k \in Nat /\ i + j \in Nat /\ i + (j + k) = i + j + k
    OBVIOUS
  <2> QED BY <2>1, TimesSteps
<1>1. Times(s, i, j) \in Int
  <2>1. j \in 0 .. j + k
    OBVIOUS
  <2> QED BY <1>0, <2>1 DEF TimesStep
<1>2. 0 \in S
  <2>1. Times(s, i + j, 0) = 1
    BY <1>0 DEF TimesStep
  <2> QED BY <1>1, <2>1
<1>3. ASSUME NEW a \in 0 .. k - 1, a \in S PROVE a + 1 \in S
  <2>1. /\ a + 1 \in 1 .. k /\ a + 1 - 1 = a /\ a \in 0 .. k
        /\ j + (a + 1) \in 1 .. j + k /\ j + (a + 1) - 1 = j + a
        /\ i + (j + (a + 1)) = i + j + (a + 1) /\ i + j + (a + 1) \in 1 .. i + j + k
    OBVIOUS
  <2> DEFINE d == s[i + j + (a + 1)]
  <2>2. d \in Int
    BY <2>1 DEF Numbers
  <2>3. Times(s, i, j + (a + 1)) = Times(s, i, j + a) * d
    BY <1>0, <2>1 DEF TimesStep
  <2>4. Times(s, i + j, a + 1) = Times(s, i + j, a) * d
    BY <1>0, <2>1 DEF TimesStep
  <2>5. Times(s, i + j, a) \in Int
    BY <1>0, <2>1 DEF TimesStep
  <2>6. Times(s, i, j + a) = Times(s, i, j) * Times(s, i + j, a)
    BY <1>3
  <2> HIDE DEF d
  <2>7. (Times(s, i, j) * Times(s, i + j, a)) * d = Times(s, i, j) * (Times(s, i + j, a) * d)
    BY <1>1, <2>2, <2>5, TimesAssociative
  <2> QED BY <2>1, <2>3, <2>4, <2>6, <2>7
<1> HIDE DEF S
<1>4. 0 .. k \subseteq S
  BY <1>2, <1>3, UpTo
<1> QED BY <1>4 DEF S

AlikeAfter(s, i, t, j, n) == \A a \in 1 .. n : s[i + a] = t[j + a]
LEMMA TimesSame ==
  ASSUME NEW n \in Nat, NEW i \in Nat, NEW j \in Nat, NEW s, NEW t,
         Numbers(s, i + n), Numbers(t, j + n), AlikeAfter(s, i, t, j, n)
  PROVE  \A a \in 0 .. n : Times(s, i, a) = Times(t, j, a)
<1> DEFINE S == {a \in 0 .. n : Times(s, i, a) = Times(t, j, a)}
<1>0. TimesStep(s, i, n) /\ TimesStep(t, j, n)
  BY TimesSteps
<1>1. 0 \in S
  BY <1>0 DEF TimesStep
<1>2. ASSUME NEW a \in 0 .. n - 1, a \in S PROVE a + 1 \in S
  <2>1. a + 1 \in 1 .. n /\ a + 1 - 1 = a
    OBVIOUS
  <2>2. Times(s, i, a + 1) = Times(s, i, a) * s[i + (a + 1)]
    BY <1>0, <2>1 DEF TimesStep
  <2>3. Times(t, j, a + 1) = Times(t, j, a) * t[j + (a + 1)]
    BY <1>0, <2>1 DEF TimesStep
  <2>4. s[i + (a + 1)] = t[j + (a + 1)]
    BY <2>1 DEF AlikeAfter
  <2> QED BY <1>2, <2>1, <2>2, <2>3, <2>4
<1> HIDE DEF S
<1>3. 0 .. n \subseteq S
  BY <1>1, <1>2, UpTo
<1> QED BY <1>3 DEF S

LEMMA RowSame ==
  ASSUME NEW n \in Nat, NEW s, NEW t, NEW c, NEW d,
         Numbers(s, n), Numbers(t, n), Numbers(c, n), Numbers(d, n),
         \A a \in 1 .. n : s[a] = t[a] /\ c[a] = d[a]
  PROVE  Row(s, c, n) = Row(t, d, n)
<1> DEFINE S == {a \in 0 .. n : Row(s, c, a) = Row(t, d, a)}
<1>0. RowStep(s, c, n) /\ RowStep(t, d, n)
  BY RowSteps
<1>1. 0 \in S
  BY <1>0 DEF RowStep
<1>2. ASSUME NEW a \in 0 .. n - 1, a \in S PROVE a + 1 \in S
  <2>1. a + 1 \in 1 .. n /\ a + 1 - 1 = a
    OBVIOUS
  <2>2. Row(s, c, a + 1) = Row(s, c, a) * s[a + 1] + c[a + 1]
    BY <1>0, <2>1 DEF RowStep
  <2>3. Row(t, d, a + 1) = Row(t, d, a) * t[a + 1] + d[a + 1]
    BY <1>0, <2>1 DEF RowStep
  <2>4. s[a + 1] = t[a + 1] /\ c[a + 1] = d[a + 1]
    BY <2>1
  <2> QED BY <1>2, <2>1, <2>2, <2>3, <2>4
<1> HIDE DEF S
<1>3. 0 .. n \subseteq S
  BY <1>1, <1>2, UpTo
<1> QED BY <1>3 DEF S

(* A place in the dimensions has a number below their product.             *)
LEMMA RowBound ==
  ASSUME NEW n \in Nat, NEW s, NEW c, Within(s, c, n)
  PROVE  \A a \in 0 .. n : Row(s, c, a) \in 0 .. Times(s, 0, a) - 1
<1> DEFINE S == {a \in 0 .. n : Row(s, c, a) \in 0 .. Times(s, 0, a) - 1}
<1>0. Numbers(s, n) /\ Numbers(c, n) /\ Positives(s, n)
  BY WithinFacts
<1>1. RowStep(s, c, n)
  BY <1>0, RowSteps
<1>2. TimesStep(s, 0, n) /\ \A a \in 0 .. n : Times(s, 0, a) \in Nat \ {0}
  <2>1. 0 + n = n
    OBVIOUS
  <2> QED BY <1>0, <2>1, TimesSteps, TimesPositive
<1>3. 0 \in S
  BY <1>1, <1>2 DEF RowStep, TimesStep
<1>4. ASSUME NEW a \in 0 .. n - 1, a \in S PROVE a + 1 \in S
  <2>1. a + 1 \in 1 .. n /\ a + 1 - 1 = a /\ 0 + (a + 1) = a + 1 /\ a \in 0 .. n
    OBVIOUS
  <2>2. Row(s, c, a + 1) = Row(s, c, a) * s[a + 1] + c[a + 1]
    BY <1>1, <2>1 DEF RowStep
  <2>3. Times(s, 0, a + 1) = Times(s, 0, a) * s[a + 1]
    BY <1>2, <2>1 DEF TimesStep
  <2>4. s[a + 1] \in Nat /\ c[a + 1] \in 0 .. s[a + 1] - 1
    BY <2>1 DEF Within
  <2>5. Times(s, 0, a) \in Nat /\ Row(s, c, a) \in 0 .. Times(s, 0, a) - 1
    BY <1>2, <1>4, <2>1
  <2>6. Row(s, c, a) * s[a + 1] + c[a + 1] \in 0 .. Times(s, 0, a) * s[a + 1] - 1
    BY <2>4, <2>5, PlaceBound
  <2> QED BY <2>1, <2>2, <2>3, <2>6
<1> HIDE DEF S
<1>5. 0 .. n \subseteq S
  BY <1>3, <1>4, UpTo
<1> QED BY <1>5 DEF S

(* Places with one number are one place.                                   *)
LEMMA RowUnique ==
  ASSUME NEW n \in Nat, NEW s, NEW c, NEW d, Within(s, c, n), Within(s, d, n),
         Row(s, c, n) = Row(s, d, n)
  PROVE  \A a \in 1 .. n : c[a] = d[a]
<1> DEFINE S == {a \in 0 .. n : Row(s, c, a) = Row(s, d, a) => \A b \in 1 .. a : c[b] = d[b]}
<1>0. RowStep(s, c, n) /\ RowStep(s, d, n)
  BY WithinFacts, RowSteps
<1>1. 0 \in S
  OBVIOUS
<1>2. \A a \in 0 .. n : Row(s, c, a) \in Nat /\ Row(s, d, a) \in Nat
  <2>1. \A a \in 0 .. n : Times(s, 0, a) \in Nat
    <3>1. 0 + n = n /\ Positives(s, n)
      BY WithinFacts
    <3> QED BY <3>1, TimesPositive
  <2>2. \A p \in Nat : \A x \in 0 .. p - 1 : x \in Nat
    OBVIOUS
  <2> QED BY <2>1, <2>2, RowBound
<1>3. ASSUME NEW a \in 0 .. n - 1, a \in S PROVE a + 1 \in S
  <2> SUFFICES ASSUME Row(s, c, a + 1) = Row(s, d, a + 1), NEW b \in 1 .. a + 1 PROVE c[b] = d[b]
    <3>1. a + 1 \in 0 .. n
      OBVIOUS
    <3> QED BY <3>1
  <2>1. a + 1 \in 1 .. n /\ a + 1 - 1 = a /\ a \in 0 .. n
    OBVIOUS
  <2>2. Row(s, c, a + 1) = Row(s, c, a) * s[a + 1] + c[a + 1]
    BY <1>0, <2>1 DEF RowStep
  <2>3. Row(s, d, a + 1) = Row(s, d, a) * s[a + 1] + d[a + 1]
    BY <1>0, <2>1 DEF RowStep
  <2>4. s[a + 1] \in Nat /\ c[a + 1] \in 0 .. s[a + 1] - 1 /\ d[a + 1] \in 0 .. s[a + 1] - 1
    BY <2>1 DEF Within
  <2>5. Row(s, c, a) \in Nat /\ Row(s, d, a) \in Nat
    BY <1>2, <2>1
  <2>6. Row(s, c, a) = Row(s, d, a) /\ c[a + 1] = d[a + 1]
    BY <2>2, <2>3, <2>4, <2>5, PlaceUnique
  <2>7. CASE b = a + 1
    BY <2>6, <2>7
  <2>8. CASE b # a + 1
    <3>1. b \in 1 .. a
      BY <2>8
    <3> QED BY <1>3, <2>6, <3>1
  <2> QED BY <2>7, <2>8
<1> HIDE DEF S
<1>4. 0 .. n \subseteq S
  BY <1>1, <1>3, UpTo
<1>5. n \in S
  BY <1>4
<1> QED BY <1>5 DEF S

(* The k numbers of s after the first i.                                   *)
After(s, i, k) == [a \in 1 .. k |-> s[i + a]]

LEMMA AfterFacts ==
  ASSUME NEW i \in Nat, NEW k \in Nat, NEW s
  PROVE  /\ \A a \in 1 .. k : After(s, i, k)[a] = s[i + a]
         /\ Numbers(s, i + k) => Numbers(After(s, i, k), k)
         /\ \A c : Within(s, c, i + k) => Within(After(s, i, k), After(c, i, k), k)
<1>1. \A t : \A a \in 1 .. k : After(t, i, k)[a] = t[i + a]
  BY DEF After
<1>2. \A a \in 1 .. k : i + a \in 1 .. i + k
  OBVIOUS
<1>3. Numbers(s, i + k) => Numbers(After(s, i, k), k)
  BY <1>1, <1>2 DEF Numbers
<1>4. ASSUME NEW c, Within(s, c, i + k) PROVE Within(After(s, i, k), After(c, i, k), k)
  <2> SUFFICES ASSUME NEW a \in 1 .. k
               PROVE  /\ After(s, i, k)[a] \in Nat
                      /\ After(c, i, k)[a] \in 0 .. After(s, i, k)[a] - 1
    BY DEF Within
  <2>1. s[i + a] \in Nat /\ c[i + a] \in 0 .. s[i + a] - 1
    BY <1>2, <1>4 DEF Within
  <2> QED BY <1>1, <2>1
<1> QED BY <1>1, <1>3, <1>4

LEMMA TimesAfter ==
  ASSUME NEW i \in Nat, NEW k \in Nat, NEW s, Numbers(s, i + k)
  PROVE  Times(After(s, i, k), 0, k) = Times(s, i, k)
<1> DEFINE t == After(s, i, k)
<1> DEFINE o == 0
<1>0. o \in Nat /\ o + k = k /\ k \in 0 .. k /\ \A a \in 1 .. k : o + a = a
  OBVIOUS
<1>1. Numbers(t, k) /\ \A a \in 1 .. k : t[a] = s[i + a]
  BY AfterFacts
<1> HIDE DEF t, o
<1>2. Numbers(t, o + k) /\ AlikeAfter(t, o, s, i, k)
  BY <1>0, <1>1 DEF AlikeAfter
<1>3. \A a \in 0 .. k : Times(t, o, a) = Times(s, i, a)
  BY <1>0, <1>2, TimesSame
<1> QED BY <1>0, <1>3 DEF t, o

(* The number of a place is that of its first axes, in blocks of the size  *)
(* of the others, and that of the others.                                  *)
LEMMA RowSplit ==
  ASSUME NEW i \in Nat, NEW k \in Nat, NEW s, NEW c, Numbers(s, i + k), Numbers(c, i + k)
  PROVE  Row(s, c, i + k) = Row(s, c, i) * Times(s, i, k) + Row(After(s, i, k), After(c, i, k), k)
<1> DEFINE t == After(s, i, k)
<1> DEFINE d == After(c, i, k)
<1> DEFINE S == {a \in 0 .. k : Row(s, c, i + a) = Row(s, c, i) * Times(s, i, a) + Row(t, d, a)}
<1>1. /\ \A a \in 1 .. k : t[a] = s[i + a] /\ d[a] = c[i + a]
      /\ Numbers(t, k) /\ Numbers(d, k)
  BY AfterFacts
<1>2. RowStep(s, c, i + k) /\ TimesStep(s, i, k)
  <2>1. i + k \in Nat
    OBVIOUS
  <2> QED BY <2>1, RowSteps, TimesSteps
<1> HIDE DEF t, d
<1>3. RowStep(t, d, k)
  BY <1>1, RowSteps
<1>4. Row(s, c, i) \in Int
  <2>1. i \in 0 .. i + k
    OBVIOUS
  <2> QED BY <1>2, <2>1 DEF RowStep
<1>5. 0 \in S
  <2>1. Times(s, i, 0) = 1 /\ Row(t, d, 0) = 0
    BY <1>2, <1>3 DEF TimesStep, RowStep
  <2> QED BY <1>4, <2>1
<1>6. ASSUME NEW a \in 0 .. k - 1, a \in S PROVE a + 1 \in S
  <2>1. /\ a + 1 \in 1 .. k /\ a + 1 - 1 = a /\ a \in 0 .. k
        /\ i + (a + 1) \in 1 .. i + k /\ i + (a + 1) - 1 = i + a
    OBVIOUS
  <2> DEFINE x == Row(s, c, i)
  <2> DEFINE y == Times(s, i, a)
  <2> DEFINE z == Row(t, d, a)
  <2> DEFINE u == s[i + (a + 1)]
  <2> DEFINE v == c[i + (a + 1)]
  <2>2. Row(s, c, i + (a + 1)) = Row(s, c, i + a) * u + v
    BY <1>2, <2>1 DEF RowStep
  <2>3. Times(s, i, a + 1) = y * u
    BY <1>2, <2>1 DEF TimesStep
  <2>4. Row(t, d, a + 1) = z * u + v
    <3>1. Row(t, d, a + 1) = z * t[a + 1] + d[a + 1]
      BY <1>3, <2>1 DEF RowStep
    <3> QED BY <1>1, <2>1, <3>1
  <2>5. y \in Int
    BY <1>2, <2>1 DEF TimesStep
  <2>6. z \in Int
    BY <1>3, <2>1 DEF RowStep
  <2>7. u \in Int /\ v \in Int
    BY <2>1 DEF Numbers
  <2>8. Row(s, c, i + a) = x * y + z
    BY <1>6
  <2>9. Row(s, c, i + (a + 1)) = (x * y + z) * u + v
    BY <2>2, <2>8
  <2> HIDE DEF x, y, z, u, v
  <2>10. (x * y + z) * u = x * (y * u) + z * u
    BY <1>4, <2>5, <2>6, <2>7, TimesSum DEF x
  <2>11. x * (y * u) \in Int /\ z * u \in Int
    BY <1>4, <2>5, <2>6, <2>7 DEF x
  <2>12. Row(s, c, i + (a + 1)) = x * (y * u) + (z * u + v)
    BY <2>7, <2>9, <2>10, <2>11
  <2> QED BY <2>1, <2>3, <2>4, <2>12 DEF x
<1> HIDE DEF S
<1>7. 0 .. k \subseteq S
  BY <1>5, <1>6, UpTo
<1>8. k \in S
  BY <1>7
<1> QED BY <1>8 DEF S, t, d

(* The last place has the largest number.                                  *)
LEMMA RowLast ==
  ASSUME NEW n \in Nat, NEW s, NEW c, Positives(s, n), \A a \in 1 .. n : c[a] = s[a] - 1
  PROVE  Row(s, c, n) = Times(s, 0, n) - 1
<1> DEFINE S == {a \in 0 .. n : Row(s, c, a) = Times(s, 0, a) - 1}
<1>0. Numbers(s, n) /\ Numbers(c, n)
  <2>1. Numbers(s, n)
    BY NumbersFacts
  <2>2. Numbers(c, n)
    BY <2>1 DEF Numbers
  <2> QED BY <2>1, <2>2
<1>1. RowStep(s, c, n)
  BY <1>0, RowSteps
<1>2. TimesStep(s, 0, n)
  <2>1. 0 + n = n
    OBVIOUS
  <2> QED BY <1>0, <2>1, TimesSteps
<1>3. 0 \in S
  BY <1>1, <1>2 DEF RowStep, TimesStep
<1>4. ASSUME NEW a \in 0 .. n - 1, a \in S PROVE a + 1 \in S
  <2>1. a + 1 \in 1 .. n /\ a + 1 - 1 = a /\ 0 + (a + 1) = a + 1 /\ a \in 0 .. n
    OBVIOUS
  <2>2. Row(s, c, a + 1) = Row(s, c, a) * s[a + 1] + c[a + 1]
    BY <1>1, <2>1 DEF RowStep
  <2>3. Times(s, 0, a + 1) = Times(s, 0, a) * s[a + 1]
    BY <1>2, <2>1 DEF TimesStep
  <2>4. s[a + 1] \in Int /\ c[a + 1] = s[a + 1] - 1
    BY <1>0, <2>1 DEF Numbers
  <2>5. Times(s, 0, a) \in Int /\ Row(s, c, a) = Times(s, 0, a) - 1
    BY <1>2, <1>4, <2>1 DEF TimesStep
  <2>6. \A x, y \in Int : (x - 1) * y + (y - 1) = x * y - 1
    OBVIOUS
  <2>7. Row(s, c, a + 1) = (Times(s, 0, a) - 1) * s[a + 1] + (s[a + 1] - 1)
    BY <2>2, <2>4, <2>5
  <2>8. Row(s, c, a + 1) = Times(s, 0, a) * s[a + 1] - 1
    BY <2>4, <2>5, <2>6, <2>7
  <2> QED BY <2>1, <2>3, <2>8
<1> HIDE DEF S
<1>5. 0 .. n \subseteq S
  BY <1>3, <1>4, UpTo
<1> QED BY <1>5 DEF S

LEMMA FlatIsRow ==
  ASSUME NEW s, NEW c
  PROVE  Flat(s, c) = Row(s, c, Len(s))
<1> QED BY DEF Flat, Row

--------------------------------------------------------------------------------
(* Largest, least, and the odometer.                                       *)

LEMMA MinIs ==
  ASSUME NEW T, T \subseteq Nat, T # {}
  PROVE  Min(T) \in T /\ \A m \in T : Min(T) <= m
<1>1. \E n \in T : \A m \in T : n <= m
  BY LeastNat
<1> QED BY <1>1 DEF Min

LEMMA MaxIs ==
  ASSUME NEW n \in Nat, NEW T, T \subseteq 1 .. n, T # {}
  PROVE  Max(T) \in T /\ \A m \in T : m <= Max(T)
<1> DEFINE U == {n - x : x \in T}
<1>1. U \subseteq Nat /\ U # {}
  <2>1. \A x \in T : x \in Int /\ n - x \in Nat
    OBVIOUS
  <2> QED BY <2>1
<1>2. PICK u \in U : \A v \in U : u <= v
  <2> HIDE DEF U
  <2> QED BY <1>1, LeastNat
<1>3. PICK x \in T : u = n - x
  OBVIOUS
<1>4. \A y \in T : x >= y
  <2> TAKE y \in T
  <2>1. n - x <= n - y
    BY <1>2, <1>3
  <2> QED BY <2>1
<1>5. \A y \in T : Max(T) >= y /\ Max(T) \in T
  BY <1>4 DEF Max
<1> QED BY <1>5

(* A turn goes to the next number.                                         *)
LEMMA TurnFacts ==
  ASSUME NEW n \in Nat, NEW s, NEW i, DOMAIN i = 1 .. n, Within(s, i, n)
  PROVE  /\ DOMAIN Turn(i, s) = 1 .. n
         /\ Within(s, Turn(i, s), n)
         /\ Row(s, i, n) + 1 < Times(s, 0, n) => Row(s, Turn(i, s), n) = Row(s, i, n) + 1
<1> DEFINE room == {a \in 1 .. n : i[a] + 1 < s[a]}
<1> DEFINE at == IF room = {} THEN 0 ELSE Max(room)
<1> DEFINE j == [a \in 1 .. n |-> IF a < at THEN i[a] ELSE IF a = at THEN i[a] + 1 ELSE 0]
<1>1. Turn(i, s) = j
  BY DEF Turn
<1>2. \A a \in 1 .. n : s[a] \in Nat /\ i[a] \in Nat /\ i[a] + 1 <= s[a]
  <2> TAKE a \in 1 .. n
  <2>1. s[a] \in Nat /\ i[a] \in 0 .. s[a] - 1
    BY DEF Within
  <2> QED BY <2>1
<1>3. room # {} => at \in room /\ \A a \in room : a <= at
  <2>1. room \subseteq 1 .. n
    OBVIOUS
  <2> HIDE DEF room
  <2> QED BY <2>1, MaxIs
<1>4. at \in 0 .. n
  BY <1>3
<1>5. \A a \in 1 .. n : a > at => i[a] + 1 = s[a]
  <2> SUFFICES ASSUME NEW a \in 1 .. n, a > at PROVE i[a] + 1 = s[a]
    OBVIOUS
  <2>1. a \notin room
    BY <1>3, <1>4
  <2>2. ~(i[a] + 1 < s[a])
    BY <2>1
  <2>3. s[a] \in Nat /\ i[a] \in Nat /\ i[a] + 1 <= s[a]
    BY <1>2
  <2> QED BY <2>2, <2>3
<1>6. at # 0 => i[at] + 1 < s[at]
  BY <1>3
<1>7. DOMAIN j = 1 .. n
  OBVIOUS
<1>8. \A a \in 1 .. n : j[a] = IF a < at THEN i[a] ELSE IF a = at THEN i[a] + 1 ELSE 0
  OBVIOUS
<1>9. at = 0 => room = {}
  BY <1>3
<1> HIDE DEF at, j, room
<1>10. Within(s, j, n)
  <2> SUFFICES ASSUME NEW a \in 1 .. n PROVE s[a] \in Nat /\ j[a] \in 0 .. s[a] - 1
    BY DEF Within
  <2>1. s[a] \in Nat /\ i[a] \in Nat /\ i[a] + 1 <= s[a]
    BY <1>2
  <2>2. j[a] = IF a < at THEN i[a] ELSE IF a = at THEN i[a] + 1 ELSE 0
    BY <1>8
  <2>3. a = at => i[a] + 1 < s[a]
    BY <1>4, <1>6
  <2> QED BY <2>1, <2>2, <2>3
<1>11. ASSUME Row(s, i, n) + 1 < Times(s, 0, n) PROVE Row(s, j, n) = Row(s, i, n) + 1
  <2>1. at # 0
    <3> SUFFICES ASSUME at = 0 PROVE FALSE
      OBVIOUS
    <3>1. \A a \in 1 .. n : i[a] = s[a] - 1
      <4> TAKE a \in 1 .. n
      <4>1. i[a] + 1 = s[a]
        BY <1>5
      <4> QED BY <1>2, <4>1
    <3>2. Row(s, i, n) = Times(s, 0, n) - 1
      <4>1. Positives(s, n)
        BY WithinFacts
      <4> QED BY <3>1, <4>1, RowLast
    <3>3. Times(s, 0, n) \in Int
      <4>1. Numbers(s, 0 + n) /\ n \in 0 .. n
        BY WithinFacts
      <4>2. TimesStep(s, 0, n)
        BY <4>1, TimesSteps
      <4> QED BY <4>1, <4>2 DEF TimesStep
    <3> QED BY <1>11, <3>2, <3>3
  <2>2. at \in 1 .. n
    BY <1>4, <2>1
  <2>3. RowStep(s, i, n) /\ RowStep(s, j, n)
    BY <1>10, WithinFacts, RowSteps
  <2> DEFINE S == {a \in 0 .. n : Row(s, j, a) = IF a < at THEN Row(s, i, a) ELSE Row(s, i, a) + 1}
  <2>4. 0 \in S
    BY <2>2, <2>3 DEF RowStep
  <2>5. ASSUME NEW a \in 0 .. n - 1, a \in S PROVE a + 1 \in S
    <3>1. a + 1 \in 1 .. n /\ a + 1 - 1 = a /\ a \in 0 .. n
      OBVIOUS
    <3>2. Row(s, i, a + 1) = Row(s, i, a) * s[a + 1] + i[a + 1]
      BY <2>3, <3>1 DEF RowStep
    <3>3. Row(s, j, a + 1) = Row(s, j, a) * s[a + 1] + j[a + 1]
      BY <2>3, <3>1 DEF RowStep
    <3>4. Row(s, i, a) \in Int
      BY <2>3, <3>1 DEF RowStep
    <3>5. s[a + 1] \in Nat /\ i[a + 1] \in Nat
      BY <1>2, <3>1
    <3>6. Row(s, i, a) * s[a + 1] \in Int
      BY <3>4, <3>5
    <3>7. Row(s, j, a) = IF a < at THEN Row(s, i, a) ELSE Row(s, i, a) + 1
      BY <2>5
    <3>8. CASE a + 1 < at
      <4>1. j[a + 1] = i[a + 1]
        BY <1>8, <3>1, <3>8
      <4>2. Row(s, j, a) = Row(s, i, a)
        BY <2>2, <3>7, <3>8
      <4> QED BY <3>1, <3>2, <3>3, <3>8, <4>1, <4>2
    <3>9. CASE a + 1 = at
      <4>1. j[a + 1] = i[a + 1] + 1
        BY <1>8, <2>2, <3>1, <3>9
      <4>2. Row(s, j, a) = Row(s, i, a)
        BY <2>2, <3>7, <3>9
      <4>3. Row(s, j, a + 1) = Row(s, i, a + 1) + 1
        BY <3>2, <3>3, <3>5, <3>6, <4>1, <4>2
      <4> QED BY <2>2, <3>1, <3>9, <4>3
    <3>10. CASE a + 1 > at
      <4>1. j[a + 1] = 0
        BY <1>8, <2>2, <3>1, <3>10
      <4>2. Row(s, j, a) = Row(s, i, a) + 1
        BY <2>2, <3>7, <3>10
      <4>3. i[a + 1] + 1 = s[a + 1]
        BY <1>5, <3>1, <3>10
      <4>4. (Row(s, i, a) + 1) * s[a + 1] = Row(s, i, a) * s[a + 1] + s[a + 1]
        BY <3>4, <3>5
      <4>5. Row(s, j, a + 1) = Row(s, i, a) * s[a + 1] + s[a + 1]
        BY <3>3, <3>5, <3>6, <4>1, <4>2, <4>4
      <4>6. Row(s, j, a + 1) = Row(s, i, a + 1) + 1
        BY <3>2, <3>5, <3>6, <4>3, <4>5
      <4> QED BY <2>2, <3>1, <3>10, <4>6
    <3> QED BY <2>2, <3>1, <3>8, <3>9, <3>10
  <2> HIDE DEF S
  <2>6. 0 .. n \subseteq S
    BY <2>4, <2>5, UpTo
  <2>7. n \in S
    BY <2>6
  <2> QED BY <2>2, <2>7 DEF S
<1> QED BY <1>1, <1>7, <1>10, <1>11

--------------------------------------------------------------------------------
(* The counts, strides and offsets of the code.                            *)

IsShape(s) == s \in Seq(Nat)

LEMMA ShapeFacts ==
  ASSUME NEW s, IsShape(s)
  PROVE  /\ Len(s) \in Nat /\ DOMAIN s = 1 .. Len(s)
         /\ Naturals(s, Len(s)) /\ Numbers(s, Len(s))
<1>1. Len(s) \in Nat /\ DOMAIN s = 1 .. Len(s) /\ \A a \in 1 .. Len(s) : s[a] \in Nat
  BY DEF IsShape
<1>2. Naturals(s, Len(s))
  BY <1>1 DEF Naturals
<1> QED BY <1>1, <1>2, NumbersFacts

LEMMA WidthFacts == Width \in Nat /\ MaxU64 \in Nat \ {0} /\ MaxU64 < Width
<1> QED BY WidthAssumption DEF MaxU64

(* element_count() is the product, cut off at the largest number.          *)
LEMMA CountIs ==
  ASSUME NEW s, IsShape(s)
  PROVE  element_count(s) = IF \E a \in 1 .. Len(s) : s[a] = 0 THEN 0
                            ELSE Lesser(Times(s, 0, Len(s)), MaxU64)
<1> DEFINE n == Len(s)
<1> DEFINE V(a) == IF \E b \in 1 .. a : s[b] = 0 THEN 0 ELSE Lesser(Times(s, 0, a), MaxU64)
<1> DEFINE Is(f) == f = [a \in 0 .. n |-> IF a = 0 THEN 1 ELSE Lesser(f[a - 1] * s[a], MaxU64)]
<1> DEFINE g == [a \in 0 .. n |-> V(a)]
<1> DEFINE f == CHOOSE h : Is(h)
<1>0. n \in Nat /\ Naturals(s, n) /\ Numbers(s, n)
  BY ShapeFacts
<1>1. TimesStep(s, 0, n)
  <2>1. 0 + n = n
    BY <1>0
  <2> HIDE DEF n
  <2> QED BY <1>0, <2>1, TimesSteps
<1>2. element_count(s) = f[n]
  BY DEF element_count
<1> HIDE DEF n
<1>3. V(0) = 1
  <2>1. Times(s, 0, 0) = 1
    BY <1>1 DEF TimesStep
  <2> QED BY <2>1, WidthFacts DEF Lesser
<1>4. ASSUME NEW a \in 1 .. n PROVE V(a) = Lesser(V(a - 1) * s[a], MaxU64)
  <2>1. a \in Nat /\ a - 1 \in 0 .. n /\ 0 + a = a
    BY <1>0
  <2>2. s[a] \in Nat
    BY <1>0 DEF Naturals
  <2>3. \A b \in 1 .. a : b = a \/ b \in 1 .. a - 1
    BY <2>1
  <2>4. \A b \in 1 .. a - 1 : b \in 1 .. a
    BY <2>1
  <2>5. a \in 1 .. a
    BY <2>1
  <2>6. Lesser(0, MaxU64) = 0
    BY WidthFacts DEF Lesser
  <2>7. CASE \E b \in 1 .. a - 1 : s[b] = 0
    <3>1. V(a - 1) = 0 /\ V(a) = 0
      BY <2>4, <2>7, Zenon
    <3>2. 0 * s[a] = 0
      BY <2>2
    <3> QED BY <2>6, <3>1, <3>2
  <2>8. CASE ~(\E b \in 1 .. a - 1 : s[b] = 0) /\ s[a] = 0
    <3>1. V(a) = 0 /\ V(a - 1) = Lesser(Times(s, 0, a - 1), MaxU64)
      BY <2>5, <2>8, Zenon
    <3>2. V(a - 1) \in Int
      BY <1>1, <2>1, <3>1, WidthFacts DEF TimesStep, Lesser
    <3>3. \A x \in Int : x * 0 = 0
      OBVIOUS
    <3>4. V(a - 1) * s[a] = 0
      BY <2>8, <3>2, <3>3
    <3> QED BY <2>6, <3>1, <3>4
  <2>9. CASE ~(\E b \in 1 .. a - 1 : s[b] = 0) /\ s[a] # 0
    <3>1. ~\E b \in 1 .. a : s[b] = 0
      BY <2>3, <2>9
    <3>2. V(a) = Lesser(Times(s, 0, a), MaxU64) /\ V(a - 1) = Lesser(Times(s, 0, a - 1), MaxU64)
      BY <2>9, <3>1, Zenon
    <3>3. Times(s, 0, a) = Times(s, 0, a - 1) * s[a]
      BY <1>1, <2>1 DEF TimesStep
    <3>4. Positives(s, 0 + (a - 1))
      <4> SUFFICES ASSUME NEW b \in 1 .. 0 + (a - 1) PROVE s[b] \in Nat \ {0}
        BY DEF Positives
      <4>1. b \in 1 .. n /\ b \in 1 .. a - 1
        BY <1>0, <2>1
      <4> QED BY <1>0, <2>9, <4>1 DEF Naturals
    <3>5. Times(s, 0, a - 1) \in Nat \ {0}
      <4>1. a - 1 \in Nat /\ a - 1 \in 0 .. a - 1
        BY <2>1
      <4> QED BY <3>4, <4>1, TimesPositive
    <3> DEFINE t == Times(s, 0, a - 1)
    <3> DEFINE d == s[a]
    <3>6. t \in Nat \ {0} /\ d \in Nat \ {0}
      BY <2>2, <2>9, <3>5
    <3> HIDE DEF t, d
    <3>7. Lesser(t * d, MaxU64) = Lesser(Lesser(t, MaxU64) * d, MaxU64)
      <4>1. CASE t < MaxU64
        BY <4>1 DEF Lesser
      <4>2. CASE ~(t < MaxU64)
        <5>1. Lesser(t, MaxU64) = MaxU64
          BY <4>2 DEF Lesser
        <5>2. MaxU64 * 1 <= t * d /\ MaxU64 * 1 <= MaxU64 * d
          BY <3>6, <4>2, WidthFacts, TimesMonotone
        <5>3. t * d \in Nat /\ MaxU64 * d \in Nat /\ MaxU64 * 1 = MaxU64
          BY <3>6, WidthFacts
        <5>4. ~(t * d < MaxU64) /\ ~(MaxU64 * d < MaxU64)
          BY <5>2, <5>3, WidthFacts
        <5> QED BY <5>1, <5>4 DEF Lesser
      <4> QED BY <4>1, <4>2
    <3> QED BY <3>2, <3>3, <3>7 DEF t, d
  <2> QED BY <2>7, <2>8, <2>9
<1>5. Is(g)
  <2> SUFFICES ASSUME NEW a \in 0 .. n
               PROVE  V(a) = IF a = 0 THEN 1 ELSE Lesser(g[a - 1] * s[a], MaxU64)
    OBVIOUS
  <2> HIDE DEF V
  <2>1. CASE a = 0
    BY <1>3, <2>1
  <2>2. CASE a # 0
    <3>1. a \in 1 .. n /\ a - 1 \in 0 .. n
      BY <1>0, <2>2
    <3>2. g[a - 1] = V(a - 1)
      BY <3>1
    <3> QED BY <1>4, <2>2, <3>1, <3>2
  <2> QED BY <2>1, <2>2
<1>6. Is(f)
  BY <1>5
<1>7. g[0] = 1 /\ \A a \in 1 .. n : g[a] = Lesser(g[a - 1] * s[a], MaxU64)
  <2>1. \A a \in 0 .. n : g[a] = IF a = 0 THEN 1 ELSE Lesser(g[a - 1] * s[a], MaxU64)
    <3> HIDE DEF g
    <3> QED BY <1>5
  <2>2. \A a \in 1 .. n : a \in 0 .. n /\ a # 0
    BY <1>0
  <2>3. 0 \in 0 .. n
    BY <1>0
  <2> HIDE DEF g
  <2> QED BY <2>1, <2>2, <2>3
<1>8. g[n] = V(n)
  BY <1>0
<1> HIDE DEF f, g, V
<1>9. f[0] = 1 /\ \A a \in 1 .. n : f[a] = Lesser(f[a - 1] * s[a], MaxU64)
  <2>1. \A a \in 0 .. n : f[a] = IF a = 0 THEN 1 ELSE Lesser(f[a - 1] * s[a], MaxU64)
    BY <1>6
  <2>2. \A a \in 1 .. n : a \in 0 .. n /\ a # 0
    BY <1>0
  <2>3. 0 \in 0 .. n
    BY <1>0
  <2> QED BY <2>1, <2>2, <2>3
<1>10. AlikeSteps(f, g, n)
  BY <1>7, <1>9 DEF AlikeSteps
<1>11. Alike(f, g, n)
  BY <1>0, <1>10, SameRecursion
<1>12. f[n] = g[n]
  BY <1>0, <1>11 DEF Alike
<1> QED BY <1>2, <1>8, <1>12 DEF V, n

(* A count below the largest number is the product.                        *)
LEMMA CountExact ==
  ASSUME NEW s, IsShape(s)
  PROVE  /\ element_count(s) \in 0 .. MaxU64
         /\ Positives(s, Len(s)) => element_count(s) = Lesser(Times(s, 0, Len(s)), MaxU64)
         /\ element_count(s) # 0 => Positives(s, Len(s))
         /\ Positives(s, Len(s)) => element_count(s) # 0 /\ Times(s, 0, Len(s)) \in Nat \ {0}
<1>0. Len(s) \in Nat /\ Naturals(s, Len(s)) /\ Numbers(s, Len(s)) /\ 0 + Len(s) = Len(s)
  BY ShapeFacts
<1>1. CASE \E a \in 1 .. Len(s) : s[a] = 0
  <2>1. element_count(s) = 0
    BY <1>1, CountIs
  <2>2. ~Positives(s, Len(s))
    BY <1>1 DEF Positives
  <2> QED BY <2>1, <2>2, WidthFacts
<1>2. CASE ~\E a \in 1 .. Len(s) : s[a] = 0
  <2>1. Positives(s, Len(s))
    BY <1>0, <1>2 DEF Positives, Naturals
  <2>2. Times(s, 0, Len(s)) \in Nat \ {0}
    <3>1. Len(s) \in 0 .. Len(s)
      BY <1>0
    <3> QED BY <1>0, <2>1, <3>1, TimesPositive
  <2>3. element_count(s) = Lesser(Times(s, 0, Len(s)), MaxU64)
    BY <1>2, CountIs
  <2>4. element_count(s) \in 0 .. MaxU64 /\ element_count(s) # 0
    BY <2>2, <2>3, WidthFacts DEF Lesser
  <2> QED BY <2>1, <2>2, <2>3, <2>4
<1> QED BY <1>1, <1>2

(* A part of a product is not larger.                                      *)
LEMMA TimesParts ==
  ASSUME NEW n \in Nat, NEW s, Positives(s, n), NEW a \in 0 .. n
  PROVE  /\ Times(s, 0, n) \in Nat \ {0} /\ Times(s, 0, a) \in Nat \ {0}
         /\ Times(s, a, n - a) \in Nat \ {0}
         /\ Times(s, 0, n) = Times(s, 0, a) * Times(s, a, n - a)
         /\ Times(s, a, n - a) <= Times(s, 0, n) /\ Times(s, 0, a) <= Times(s, 0, n)
<1>0. n - a \in Nat /\ 0 + n = n /\ 0 + a + (n - a) = n /\ a + (n - a) = n /\ 0 + a = a
  OBVIOUS
<1>1. Numbers(s, n)
  BY NumbersFacts
<1>2. Times(s, 0, n) \in Nat \ {0} /\ Times(s, 0, a) \in Nat \ {0}
  BY <1>0, TimesPositive
<1>3. Times(s, a, n - a) \in Nat \ {0}
  <2>1. n - a \in 0 .. n - a
    OBVIOUS
  <2> QED BY <1>0, <2>1, TimesPositive
<1>4. Times(s, 0, n) = Times(s, 0, a) * Times(s, a, n - a)
  <2>1. 0 \in Nat /\ a \in Nat
    OBVIOUS
  <2>2. Times(s, 0, a + (n - a)) = Times(s, 0, a) * Times(s, 0 + a, n - a)
    BY <1>0, <1>1, <2>1, TimesSplit
  <2> QED BY <1>0, <2>2
<1> DEFINE x == Times(s, 0, a)
<1> DEFINE y == Times(s, a, n - a)
<1>5. x \in Nat \ {0} /\ y \in Nat \ {0}
  BY <1>2, <1>3
<1> HIDE DEF x, y
<1>6. 1 * y <= x * y /\ x * 1 <= x * y
  BY <1>5, TimesMonotone
<1>7. y <= x * y /\ x <= x * y
  BY <1>5, <1>6
<1> QED BY <1>2, <1>3, <1>4, <1>7 DEF x, y

(* One dimension less.                                                     *)
LEMMA TimesFirst ==
  ASSUME NEW n \in Nat, NEW s, Numbers(s, n), NEW a \in 1 .. n
  PROVE  /\ Times(s, a - 1, n - (a - 1)) = s[a] * Times(s, a, n - a)
         /\ Times(s, a, n - a) \in Int /\ s[a] \in Int
<1>0. /\ a - 1 \in Nat /\ n - a \in Nat /\ a \in Nat /\ 1 + (n - a) = n - (a - 1)
      /\ a - 1 + 1 = a /\ a - 1 + 1 + (n - a) = n /\ a + (n - a) = n
  OBVIOUS
<1>1. Times(s, a - 1, 1 + (n - a)) = Times(s, a - 1, 1) * Times(s, a - 1 + 1, n - a)
  BY <1>0, TimesSplit
<1>2. Times(s, a - 1, 1) = s[a] /\ s[a] \in Int
  <2>1. Numbers(s, a)
    BY <1>0, NumbersFacts
  <2>2. TimesStep(s, a - 1, 1)
    BY <1>0, <2>1, TimesSteps
  <2>3. Times(s, a - 1, 0) = 1
    BY <2>2 DEF TimesStep
  <2>4. 1 \in 1 .. 1 /\ 1 - 1 = 0
    OBVIOUS
  <2>5. Times(s, a - 1, 1) = 1 * s[a - 1 + 1]
    BY <2>2, <2>3, <2>4 DEF TimesStep
  <2>6. s[a] \in Int
    BY DEF Numbers
  <2> QED BY <1>0, <2>5, <2>6
<1>3. Times(s, a, n - a) \in Int
  <2>1. TimesStep(s, a, n - a) /\ n - a \in 0 .. n - a
    BY <1>0, TimesSteps
  <2> QED BY <2>1 DEF TimesStep
<1> QED BY <1>0, <1>1, <1>2, <1>3

LEMMA StridesAre ==
  ASSUME NEW s, IsShape(s), Positives(s, Len(s)), Times(s, 0, Len(s)) < Width
  PROVE  \A a \in 1 .. Len(s) : strides(s)[a] = Times(s, a, Len(s) - a)
<1> DEFINE n == Len(s)
<1> DEFINE Is(f) == f = [a \in DOMAIN s |-> IF a = Len(s) THEN 1 ELSE f[a + 1] * s[a + 1] % Width]
<1> DEFINE g == [a \in DOMAIN s |-> Times(s, a, Len(s) - a)]
<1> DEFINE f == CHOOSE h : Is(h)
<1>0. n \in Nat /\ DOMAIN s = 1 .. n /\ Numbers(s, n) /\ Positives(s, n)
  BY ShapeFacts
<1>1. strides(s) = f
  BY DEF strides, Axes
<1>2. \A a \in 1 .. n : g[a] = Times(s, a, n - a)
  BY <1>0
<1>a. \A h : Is(h) <=> h = [a \in 1 .. n |-> IF a = n THEN 1 ELSE h[a + 1] * s[a + 1] % Width]
  BY <1>0
<1>b. g = [a \in 1 .. n |-> g[a]]
  BY <1>0
<1> HIDE DEF n, Is, g
<1>3. g[n] = 1 \/ n = 0
  <2> SUFFICES ASSUME n # 0 PROVE g[n] = 1
    OBVIOUS
  <2>1. TimesStep(s, n, 0)
    <3>1. n + 0 = n
      BY <1>0
    <3> QED BY <1>0, <3>1, TimesSteps
  <2>2. n - n = 0 /\ n \in 1 .. n
    BY <1>0
  <2> QED BY <1>2, <2>1, <2>2 DEF TimesStep
<1>4. ASSUME NEW a \in 1 .. n, a # n PROVE g[a] = g[a + 1] * s[a + 1] % Width
  <2>1. a + 1 \in 1 .. n /\ a + 1 - 1 = a /\ a \in 0 .. n
    BY <1>0, <1>4
  <2>2. Times(s, a, n - a) = s[a + 1] * Times(s, a + 1, n - (a + 1))
    <3> DEFINE b == a + 1
    <3>0. b \in 1 .. n /\ b - 1 = a
      BY <2>1
    <3> HIDE DEF b
    <3>1. Times(s, b - 1, n - (b - 1)) = s[b] * Times(s, b, n - b)
      BY <1>0, <3>0, TimesFirst
    <3> QED BY <3>0, <3>1 DEF b
  <2>3. Times(s, a + 1, n - (a + 1)) \in Int /\ s[a + 1] \in Int
    BY <1>0, <2>1, TimesFirst
  <2>4. Times(s, a, n - a) \in Nat /\ Times(s, a, n - a) <= Times(s, 0, n) /\ Times(s, 0, n) \in Nat
    BY <1>0, <2>1, TimesParts
  <2>5. Times(s, a, n - a) \in 0 .. Width - 1
    BY <2>4, WidthFacts DEF n
  <2>6. Width \in Nat \ {0}
    BY WidthFacts
  <2>7. Times(s, a, n - a) % Width = Times(s, a, n - a)
    BY <2>5, <2>6, ModSmall
  <2>8. s[a + 1] * Times(s, a + 1, n - (a + 1)) = Times(s, a + 1, n - (a + 1)) * s[a + 1]
    BY <2>3, TimesAssociative
  <2> QED BY <1>2, <2>1, <2>2, <2>7, <2>8
<1>5. Is(g)
  <2>1. ASSUME NEW a \in 1 .. n PROVE g[a] = IF a = n THEN 1 ELSE g[a + 1] * s[a + 1] % Width
    <3>1. CASE a = n
      <4>1. n # 0
        BY <3>1
      <4> QED BY <1>3, <3>1, <4>1
    <3>2. CASE a # n
      BY <1>4, <3>2
    <3> QED BY <3>1, <3>2
  <2>2. g = [a \in 1 .. n |-> IF a = n THEN 1 ELSE g[a + 1] * s[a + 1] % Width]
    BY <1>b, <2>1
  <2> QED BY <1>a, <2>2
<1>6. Is(f)
  BY <1>5
<1> HIDE DEF f
<1>7. \A a \in 1 .. n : f[a] = IF a = n THEN 1 ELSE f[a + 1] * s[a + 1] % Width
  <2>1. f = [a \in 1 .. n |-> IF a = n THEN 1 ELSE f[a + 1] * s[a + 1] % Width]
    BY <1>6, <1>a
  <2> QED BY <2>1
<1> DEFINE S == {k \in 0 .. n : k < n => f[n - k] = g[n - k]}
<1>8. 0 \in S
  <2>1. n > 0 => n \in 1 .. n /\ n - 0 = n
    BY <1>0
  <2> QED BY <1>0, <1>3, <1>7, <2>1
<1>9. ASSUME NEW k \in 0 .. n - 1, k \in S PROVE k + 1 \in S
  <2> SUFFICES ASSUME k + 1 < n PROVE f[n - (k + 1)] = g[n - (k + 1)]
    BY <1>0
  <2> DEFINE a == n - (k + 1)
  <2>1. a \in 1 .. n /\ a # n /\ a + 1 = n - k /\ k < n
    BY <1>0
  <2>2. f[a + 1] = g[a + 1]
    BY <1>9, <2>1
  <2> HIDE DEF a
  <2>3. f[a] = f[a + 1] * s[a + 1] % Width
    BY <1>7, <2>1
  <2>4. g[a] = g[a + 1] * s[a + 1] % Width
    BY <1>4, <2>1
  <2> QED BY <2>2, <2>3, <2>4 DEF a
<1> HIDE DEF S
<1>10. 0 .. n \subseteq S
  BY <1>0, <1>8, <1>9, UpTo
<1>11. ASSUME NEW a \in 1 .. n PROVE f[a] = g[a]
  <2>1. n - a \in 0 .. n /\ n - a < n /\ n - (n - a) = a
    BY <1>0
  <2>2. n - a \in S
    BY <1>10, <2>1
  <2> QED BY <2>1, <2>2 DEF S
<1> QED BY <1>1, <1>2, <1>11 DEF n

(* The offset of a place by its first m axes.                              *)
LEMMA DotIs ==
  ASSUME NEW s, IsShape(s), Positives(s, Len(s)), Times(s, 0, Len(s)) < Width,
         NEW m \in 0 .. Len(s), NEW c, Within(s, c, m)
  PROVE  /\ Dot(c, strides(s), m) = Row(s, c, m) * Times(s, m, Len(s) - m)
         /\ Dot(c, strides(s), m) \in Nat
<1> DEFINE n == Len(s)
<1>0. n \in Nat /\ Numbers(s, n) /\ Positives(s, n) /\ m \in Nat /\ m \in 0 .. n
  BY ShapeFacts
<1>1. \A a \in 1 .. n : strides(s)[a] = Times(s, a, n - a)
  BY StridesAre
<1>2. Times(s, 0, n) < Width
  OBVIOUS
<1> HIDE DEF n
<1> DEFINE V(a) == Row(s, c, a) * Times(s, a, n - a)
<1> DEFINE z == strides(s)
<1> DEFINE Is(f) == f = [a \in 0 .. m |-> IF a = 0 THEN 0 ELSE (f[a - 1] + c[a] * z[a]) % Width]
<1> DEFINE g == [a \in 0 .. m |-> V(a)]
<1> DEFINE f == CHOOSE h : Is(h)
<1>3. Dot(c, z, m) = f[m]
  BY DEF Dot
<1> HIDE DEF z
<1>4. RowStep(s, c, m) /\ \A a \in 0 .. m : Row(s, c, a) \in 0 .. Times(s, 0, a) - 1
  BY <1>0, WithinFacts, RowSteps, RowBound
<1>5. V(0) = 0
  <2>1. Row(s, c, 0) = 0
    BY <1>4 DEF RowStep
  <2>2. Times(s, 0, n - 0) \in Int
    <3>1. 0 \in 0 .. n
      BY <1>0
    <3> QED BY <1>0, <3>1, TimesParts
  <2> QED BY <2>1, <2>2
<1>6. ASSUME NEW a \in 0 .. m PROVE V(a) \in 0 .. Width - 1
  <2>1. a \in 0 .. n
    BY <1>0
  <2> DEFINE x == Row(s, c, a)
  <2> DEFINE p == Times(s, 0, a)
  <2> DEFINE t == Times(s, a, n - a)
  <2>2. p \in Nat /\ t \in Nat \ {0} /\ p * t = Times(s, 0, n)
    BY <1>0, <2>1, TimesParts
  <2>3. x \in 0 .. p - 1
    BY <1>4
  <2> HIDE DEF x, p, t
  <2>4. x * t + 0 \in 0 .. p * t - 1
    <3>1. 0 \in 0 .. t - 1 /\ t \in Nat
      BY <2>2
    <3> QED BY <2>2, <2>3, <3>1, PlaceBound
  <2>5. x * t \in Nat
    BY <2>2, <2>3
  <2>6. x * t \in 0 .. Width - 1
    <3>1. p * t \in Nat
      BY <2>2
    <3> QED BY <1>2, <2>2, <2>4, <2>5, <3>1, WidthFacts
  <2> QED BY <2>6 DEF x, t
<1>7. ASSUME NEW a \in 1 .. m PROVE V(a) = (V(a - 1) + c[a] * z[a]) % Width
  <2>1. a \in 1 .. n /\ a - 1 \in 0 .. m /\ a \in 0 .. m
    BY <1>0
  <2> DEFINE x == Row(s, c, a - 1)
  <2> DEFINE t == Times(s, a, n - a)
  <2>2. Row(s, c, a) = x * s[a] + c[a] /\ x \in Int
    BY <1>4, <2>1 DEF RowStep
  <2>3. Times(s, a - 1, n - (a - 1)) = s[a] * t /\ t \in Int /\ s[a] \in Int
    BY <1>0, <2>1, TimesFirst
  <2>4. c[a] \in Int
    <3>1. Numbers(c, m)
      BY <1>0, WithinFacts
    <3> QED BY <3>1 DEF Numbers
  <2>5. z[a] = t
    BY <1>1, <2>1 DEF z
  <2>6. V(a) = (x * s[a] + c[a]) * t /\ V(a - 1) = x * (s[a] * t)
    BY <2>2, <2>3
  <2>7. V(a) \in 0 .. Width - 1
    BY <1>6, <2>1
  <2> HIDE DEF V, x, t
  <2>8. V(a) = V(a - 1) + c[a] * z[a]
    BY <2>2, <2>3, <2>4, <2>5, <2>6, TimesSum
  <2>9. V(a) % Width = V(a)
    <3>1. Width \in Nat \ {0}
      BY WidthFacts
    <3> QED BY <2>7, <3>1, ModSmall
  <2> QED BY <2>8, <2>9
<1>8. Is(g)
  <2> SUFFICES ASSUME NEW a \in 0 .. m
               PROVE  V(a) = IF a = 0 THEN 0 ELSE (g[a - 1] + c[a] * z[a]) % Width
    OBVIOUS
  <2> HIDE DEF V
  <2>1. CASE a = 0
    BY <1>5, <2>1
  <2>2. CASE a # 0
    <3>1. a \in 1 .. m /\ a - 1 \in 0 .. m
      BY <1>0, <2>2
    <3>2. g[a - 1] = V(a - 1)
      BY <3>1
    <3> HIDE DEF g
    <3> QED BY <1>7, <2>2, <3>1, <3>2
  <2> QED BY <2>1, <2>2
<1>9. Is(f)
  BY <1>8
<1>10. \A a \in 0 .. m : g[a] = V(a)
  OBVIOUS
<1> HIDE DEF f, g, V
<1>11. \A a \in 0 .. m : f[a] = IF a = 0 THEN 0 ELSE (f[a - 1] + c[a] * z[a]) % Width
  BY <1>9
<1>12. f[0] = 0 /\ \A a \in 1 .. m : f[a] = (f[a - 1] + c[a] * z[a]) % Width
  <2>1. 0 \in 0 .. m /\ \A a \in 1 .. m : a \in 0 .. m /\ a # 0
    BY <1>0
  <2> QED BY <1>11, <2>1
<1>13. g[0] = 0 /\ \A a \in 1 .. m : g[a] = (g[a - 1] + c[a] * z[a]) % Width
  <2>1. 0 \in 0 .. m /\ \A a \in 1 .. m : a \in 0 .. m /\ a - 1 \in 0 .. m
    BY <1>0
  <2> QED BY <1>5, <1>7, <1>10, <2>1
<1>14. AlikeSteps(f, g, m)
  BY <1>12, <1>13 DEF AlikeSteps
<1>15. Alike(f, g, m)
  BY <1>0, <1>14, SameRecursion
<1>16. f[m] = g[m] /\ m \in 0 .. m
  BY <1>0, <1>15 DEF Alike
<1>17. V(m) \in Nat
  <2>1. V(m) \in 0 .. Width - 1
    BY <1>6, <1>16
  <2> QED BY <2>1, WidthFacts
<1>18. Dot(c, z, m) = V(m)
  BY <1>3, <1>10, <1>16
<1> QED BY <1>17, <1>18 DEF z, V, n

--------------------------------------------------------------------------------
(* Selections.                                                             *)

(* A read of s from d was let in.                                          *)
Reads(d, s) == d \in Datasets /\ s \in Slabs(d) /\ Valid(d, s)

SlabIn(d, s, n) ==
  /\ n \in Nat /\ n = Len(d.shape) /\ n = Len(s.start) /\ n = Len(s.count)
  /\ IsShape(d.shape) /\ IsShape(s.count)
  /\ DOMAIN d.shape = 1 .. n /\ DOMAIN s.start = 1 .. n /\ DOMAIN s.count = 1 .. n
  /\ \A a \in 1 .. n : /\ s.start[a] \in Nat /\ s.count[a] \in Nat /\ d.shape[a] \in Nat
                       /\ s.start[a] + s.count[a] <= d.shape[a] /\ d.shape[a] <= MaxU64
LEMMA SlabFacts ==
  ASSUME NEW d, NEW s, Reads(d, s)
  PROVE  SlabIn(d, s, Len(d.shape))
<1>1. d \in Datasets /\ s \in Slabs(d) /\ Valid(d, s)
  BY DEF Reads
<1>2. d.shape \in Seq(0 .. Width - 1)
  BY <1>1, DatasetsAssumption
<1>3. /\ Len(d.shape) \in Nat /\ DOMAIN d.shape = 1 .. Len(d.shape)
      /\ \A a \in 1 .. Len(d.shape) : d.shape[a] \in 0 .. Width - 1
  <2> DEFINE T == 0 .. Width - 1
  <2>1. d.shape \in Seq(T)
    BY <1>2
  <2> HIDE DEF T
  <2>2. /\ Len(d.shape) \in Nat /\ DOMAIN d.shape = 1 .. Len(d.shape)
        /\ \A a \in 1 .. Len(d.shape) : d.shape[a] \in T
    BY <2>1
  <2> QED BY <2>2 DEF T
<1>4. PICK n \in {Len(d.shape), Len(d.shape) + 1} :
        s \in [start : [1 .. n -> Starts], count : [1 .. n -> Counts]]
  BY <1>1 DEF Slabs
<1>5. n \in Nat
  BY <1>3
<1>6. s.start \in [1 .. n -> Starts] /\ s.count \in [1 .. n -> Counts]
  BY <1>4
<1>7. s.start \in Seq(Starts) /\ Len(s.start) = n /\ s.count \in Seq(Counts) /\ Len(s.count) = n
  BY <1>5, <1>6
<1>8. n = Len(d.shape)
  BY <1>1, <1>7 DEF Valid
<1>9. \A x \in 0 .. Width - 1 : x \in Nat /\ x <= MaxU64
  BY WidthAssumption DEF MaxU64
<1>10. \A a \in 1 .. n : /\ s.start[a] \in Nat /\ s.count[a] \in Nat /\ d.shape[a] \in Nat
                         /\ s.start[a] + s.count[a] <= d.shape[a] /\ d.shape[a] <= MaxU64
  <2> TAKE a \in 1 .. n
  <2>1. s.start[a] \in Nat /\ s.count[a] \in Nat
    BY <1>6, <1>9, WidthAssumption
  <2>2. d.shape[a] \in Nat /\ d.shape[a] <= MaxU64
    BY <1>3, <1>8, <1>9
  <2>3. s.start[a] + s.count[a] <= d.shape[a]
    BY <1>1, <1>3, <1>8 DEF Valid, Axes
  <2> QED BY <2>1, <2>2, <2>3
<1>11. IsShape(d.shape)
  <2>1. d.shape = [a \in 1 .. Len(d.shape) |-> d.shape[a]]
    BY <1>2
  <2> QED BY <1>3, <1>8, <1>10, <2>1 DEF IsShape
<1>12. IsShape(s.count)
  <2>1. s.count = [a \in 1 .. n |-> s.count[a]]
    BY <1>6
  <2> QED BY <1>5, <1>10, <2>1 DEF IsShape
<1>13. DOMAIN s.start = 1 .. n /\ DOMAIN s.count = 1 .. n
  BY <1>6
<1> QED BY <1>3, <1>7, <1>8, <1>10, <1>11, <1>12, <1>13 DEF SlabIn

(* What it is to be in a box.                                              *)
LEMMA BoxIs ==
  ASSUME NEW s, NEW n \in Nat, Len(s.start) = n,
         \A a \in 1 .. n : s.start[a] \in Nat /\ s.count[a] \in Nat, NEW c
  PROVE  c \in Box(s) <=>
           /\ c \in [1 .. n -> Nat]
           /\ \A a \in 1 .. n : s.start[a] <= c[a] /\ c[a] < s.start[a] + s.count[a]
<1> DEFINE on(a) == s.start[a] .. s.start[a] + s.count[a] - 1
<1>1. c \in Box(s) <=> c \in [1 .. n -> UNION {on(a) : a \in 1 .. n}] /\ \A a \in 1 .. n : c[a] \in on(a)
  BY DEF Box
<1>2. \A a \in 1 .. n : \A x : x \in on(a) <=>
        x \in Nat /\ s.start[a] <= x /\ x < s.start[a] + s.count[a]
  <2> TAKE a \in 1 .. n
  <2> DEFINE u == s.start[a]
  <2> DEFINE v == s.count[a]
  <2>1. u \in Nat /\ v \in Nat
    OBVIOUS
  <2> HIDE DEF u, v
  <2>2. \A x : x \in u .. u + v - 1 <=> x \in Nat /\ u <= x /\ x < u + v
    BY <2>1
  <2> QED BY <2>2 DEF u, v
<1> HIDE DEF on
<1>3. ASSUME c \in [1 .. n -> UNION {on(a) : a \in 1 .. n}], \A a \in 1 .. n : c[a] \in on(a)
      PROVE  /\ c \in [1 .. n -> Nat]
             /\ \A a \in 1 .. n : s.start[a] <= c[a] /\ c[a] < s.start[a] + s.count[a]
  BY <1>2, <1>3
<1>4. ASSUME c \in [1 .. n -> Nat],
             \A a \in 1 .. n : s.start[a] <= c[a] /\ c[a] < s.start[a] + s.count[a]
      PROVE  c \in [1 .. n -> UNION {on(a) : a \in 1 .. n}] /\ \A a \in 1 .. n : c[a] \in on(a)
  <2>1. \A a \in 1 .. n : c[a] \in on(a)
    BY <1>2, <1>4
  <2> QED BY <1>4, <2>1
<1> QED BY <1>1, <1>3, <1>4

(* Where an element of a selection is in the output.                       *)
Place(s, c) == Flat(s.count, Minus(c, s.start, Len(s.count)))

PlaceIn(d, s, c, n) ==
  LET r == Minus(c, s.start, n)
  IN  /\ Within(s.count, r, n) /\ Within(d.shape, c, n)
      /\ \A a \in 1 .. n : r[a] = c[a] - s.start[a] /\ c[a] = s.start[a] + r[a]
      /\ Positives(s.count, n) /\ Positives(d.shape, n)
      /\ Place(s, c) = Row(s.count, r, n)
      /\ Place(s, c) \in 0 .. Times(s.count, 0, n) - 1
      /\ c \in [1 .. n -> Nat]
LEMMA PlaceFacts ==
  ASSUME NEW d, NEW s, Reads(d, s), NEW c \in Box(s)
  PROVE  PlaceIn(d, s, c, Len(d.shape))
<1> DEFINE n == Len(d.shape)
<1> DEFINE r == Minus(c, s.start, n)
<1>0. SlabIn(d, s, n)
  BY SlabFacts
<1> HIDE DEF n
<1>1. n \in Nat /\ n = Len(s.start) /\ n = Len(s.count)
  BY <1>0 DEF SlabIn
<1>2. \A a \in 1 .. n : s.start[a] \in Nat /\ s.count[a] \in Nat
  BY <1>0 DEF SlabIn
<1>3. /\ c \in [1 .. n -> Nat]
      /\ \A a \in 1 .. n : s.start[a] <= c[a] /\ c[a] < s.start[a] + s.count[a]
  BY <1>1, <1>2, BoxIs
<1>4. \A a \in 1 .. n : r[a] = c[a] - s.start[a]
  BY DEF Minus
<1> HIDE DEF r
<1>5. ASSUME NEW a \in 1 .. n
      PROVE  /\ r[a] \in 0 .. s.count[a] - 1 /\ c[a] \in 0 .. d.shape[a] - 1
             /\ c[a] = s.start[a] + r[a] /\ s.count[a] \in Nat /\ d.shape[a] \in Nat
  <2>1. /\ s.start[a] \in Nat /\ s.count[a] \in Nat /\ d.shape[a] \in Nat /\ c[a] \in Nat
        /\ s.start[a] + s.count[a] <= d.shape[a]
    BY <1>0, <1>3 DEF SlabIn
  <2>2. s.start[a] <= c[a] /\ c[a] < s.start[a] + s.count[a]
    BY <1>3
  <2>3. r[a] = c[a] - s.start[a]
    BY <1>4
  <2> QED BY <2>1, <2>2, <2>3
<1>6. Within(s.count, r, n) /\ Within(d.shape, c, n)
  BY <1>5 DEF Within
<1>7. Positives(s.count, n) /\ Positives(d.shape, n)
  BY <1>1, <1>6, WithinFacts
<1>8. Place(s, c) = Row(s.count, r, n)
  BY <1>1, FlatIsRow DEF Place, r
<1>9. Place(s, c) \in 0 .. Times(s.count, 0, n) - 1
  <2>1. n \in 0 .. n
    BY <1>1
  <2> QED BY <1>1, <1>6, <1>8, <2>1, RowBound
<1>10. \A a \in 1 .. n : r[a] = c[a] - s.start[a] /\ c[a] = s.start[a] + r[a]
  BY <1>4, <1>5
<1> QED BY <1>3, <1>6, <1>7, <1>8, <1>9, <1>10 DEF PlaceIn, r, n

--------------------------------------------------------------------------------
(* Runs of data that is not chunked.                                       *)

First(d, s) ==
  Min({f \in 1 .. Len(d.shape) : \A a \in f + 1 .. Len(d.shape) : /\ s.start[a] = 0
                                                                 /\ s.count[a] = d.shape[a]})

LEMMA FirstFacts ==
  ASSUME NEW d, NEW s, Reads(d, s), Len(d.shape) # 0
  PROVE  /\ First(d, s) \in 1 .. Len(d.shape)
         /\ \A a \in First(d, s) + 1 .. Len(d.shape) : s.start[a] = 0 /\ s.count[a] = d.shape[a]
<1> DEFINE n == Len(d.shape)
<1> DEFINE T == {f \in 1 .. n : \A a \in f + 1 .. n : s.start[a] = 0 /\ s.count[a] = d.shape[a]}
<1>0. n \in Nat /\ n # 0
  BY SlabFacts DEF SlabIn
<1> HIDE DEF n
<1>1. n \in T
  <2>1. n \in 1 .. n /\ \A a \in n + 1 .. n : FALSE
    BY <1>0
  <2> QED BY <2>1
<1>2. T \subseteq Nat /\ T \subseteq 1 .. n
  BY <1>0
<1>3. First(d, s) = Min(T)
  BY DEF First, n
<1>4. Min(T) \in T
  <2> HIDE DEF T
  <2> QED BY <1>1, <1>2, MinIs
<1> QED BY <1>3, <1>4 DEF n

(* An element's number in the selection and its number in the dataset end  *)
(* alike.                                                                  *)
Ends(d, s, c, t, n) ==
  LET f == First(d, s)
      T == Times(s.count, f, n - f)
      r == Minus(c, s.start, n)
  IN  /\ t \in 0 .. T - 1
      /\ Place(s, c) = (Row(s.count, r, f - 1) * s.count[f] + r[f]) * T + t
      /\ Flat(d.shape, c) = (Row(d.shape, c, f - 1) * d.shape[f] + c[f]) * T + t
      /\ (\A a \in f + 1 .. n : c[a] = d.shape[a] - 1) => t = T - 1
LEMMA DenseSplit ==
  ASSUME NEW d, NEW s, Reads(d, s), Len(d.shape) # 0, NEW c \in Box(s)
  PROVE  /\ \E t : Ends(d, s, c, t, Len(d.shape))
         /\ Times(d.shape, First(d, s), Len(d.shape) - First(d, s))
              = Times(s.count, First(d, s), Len(d.shape) - First(d, s))
<1> DEFINE n == Len(d.shape)
<1> DEFINE f == First(d, s)
<1> DEFINE k == n - f
<1> DEFINE r == Minus(c, s.start, n)
<1> DEFINE t == Row(After(s.count, f, k), After(r, f, k), k)
<1>0. PlaceIn(d, s, c, n) /\ SlabIn(d, s, n)
  BY PlaceFacts, SlabFacts
<1>1. f \in 1 .. n /\ \A a \in f + 1 .. n : s.start[a] = 0 /\ s.count[a] = d.shape[a]
  BY FirstFacts
<1> HIDE DEF n, f
<1>2. n \in Nat /\ n = Len(d.shape)
  BY <1>0 DEF SlabIn
<1>3. /\ Within(s.count, r, n) /\ Within(d.shape, c, n)
      /\ \A a \in 1 .. n : r[a] = c[a] - s.start[a] /\ c[a] = s.start[a] + r[a]
      /\ Positives(s.count, n) /\ Positives(d.shape, n)
      /\ Place(s, c) = Row(s.count, r, n)
      /\ c \in [1 .. n -> Nat]
  BY <1>0 DEF PlaceIn
<1> HIDE DEF r
<1>4. Numbers(s.count, n) /\ Numbers(d.shape, n) /\ Numbers(r, n) /\ Numbers(c, n)
  BY <1>2, <1>3, WithinFacts
<1>5. /\ f \in Nat /\ k \in Nat /\ f + k = n /\ f - 1 \in Nat /\ f \in 0 .. n
      /\ \A a \in 1 .. k : f + a \in f + 1 .. n /\ f + a \in 1 .. n
  BY <1>1, <1>2
<1> HIDE DEF k, t
<1>6. \A a \in 1 .. k : s.count[f + a] = d.shape[f + a] /\ r[f + a] = c[f + a]
  <2> TAKE a \in 1 .. k
  <2>1. s.start[f + a] = 0 /\ s.count[f + a] = d.shape[f + a]
    BY <1>1, <1>5
  <2>2. r[f + a] = c[f + a] - s.start[f + a] /\ c[f + a] \in Nat
    BY <1>3, <1>5
  <2> QED BY <2>1, <2>2
<1>nums. /\ Numbers(s.count, f + k) /\ Numbers(d.shape, f + k)
         /\ Numbers(r, f + k) /\ Numbers(c, f + k)
  BY <1>4, <1>5
<1>7. Times(d.shape, f, k) = Times(s.count, f, k)
  <2>0. \A a \in 1 .. k : s.count[f + a] = d.shape[f + a]
    BY <1>6
  <2>1. \A a \in 0 .. k : Times(s.count, f, a) = Times(d.shape, f, a)
    <3>1. AlikeAfter(s.count, f, d.shape, f, k)
      BY <2>0 DEF AlikeAfter
    <3> QED BY <1>5, <1>nums, <3>1, TimesSame
  <2>2. k \in 0 .. k
    BY <1>5
  <2> QED BY <2>1, <2>2
<1>8. /\ Row(s.count, r, n) = Row(s.count, r, f) * Times(s.count, f, k) + t
      /\ Row(d.shape, c, n) = Row(d.shape, c, f) * Times(d.shape, f, k)
                                + Row(After(d.shape, f, k), After(c, f, k), k)
  BY <1>5, <1>nums, RowSplit DEF t
<1>9. Row(After(d.shape, f, k), After(c, f, k), k) = t
  <2>1. /\ Numbers(After(d.shape, f, k), k) /\ Numbers(After(c, f, k), k)
        /\ Numbers(After(s.count, f, k), k) /\ Numbers(After(r, f, k), k)
    BY <1>4, <1>5, AfterFacts
  <2>2. \A a \in 1 .. k : /\ After(d.shape, f, k)[a] = After(s.count, f, k)[a]
                          /\ After(c, f, k)[a] = After(r, f, k)[a]
    <3>1. \A x : \A a \in 1 .. k : After(x, f, k)[a] = x[f + a]
      BY <1>5, AfterFacts
    <3> QED BY <1>6, <3>1
  <2> QED BY <1>5, <2>1, <2>2, RowSame DEF t
<1>10. Times(After(s.count, f, k), 0, k) = Times(s.count, f, k)
  BY <1>5, <1>nums, TimesAfter
<1>11. Within(After(s.count, f, k), After(r, f, k), k)
  BY <1>3, <1>5, AfterFacts
<1>12. t \in 0 .. Times(s.count, f, k) - 1
  <2>1. k \in 0 .. k
    BY <1>5
  <2> QED BY <1>5, <1>10, <1>11, <2>1, RowBound DEF t
<1>13. (\A a \in f + 1 .. n : c[a] = d.shape[a] - 1) => t = Times(s.count, f, k) - 1
  <2> SUFFICES ASSUME \A a \in f + 1 .. n : c[a] = d.shape[a] - 1
               PROVE  t = Times(s.count, f, k) - 1
    OBVIOUS
  <2>1. \A a \in 1 .. k : After(r, f, k)[a] = After(s.count, f, k)[a] - 1
    <3> TAKE a \in 1 .. k
    <3>1. After(r, f, k)[a] = r[f + a] /\ After(s.count, f, k)[a] = s.count[f + a]
      BY <1>5, AfterFacts
    <3>2. c[f + a] = d.shape[f + a] - 1
      BY <1>5
    <3> QED BY <1>6, <3>1, <3>2
  <2>2. Positives(After(s.count, f, k), k)
    BY <1>5, <1>11, WithinFacts
  <2> QED BY <1>5, <1>10, <2>1, <2>2, RowLast DEF t
<1>14. /\ Row(s.count, r, f) = Row(s.count, r, f - 1) * s.count[f] + r[f]
       /\ Row(d.shape, c, f) = Row(d.shape, c, f - 1) * d.shape[f] + c[f]
  <2>1. RowStep(s.count, r, n) /\ RowStep(d.shape, c, n)
    BY <1>2, <1>4, RowSteps
  <2> QED BY <1>1, <2>1 DEF RowStep
<1>15. Flat(d.shape, c) = Row(d.shape, c, n)
  BY <1>2, FlatIsRow
<1>16. Place(s, c) = (Row(s.count, r, f - 1) * s.count[f] + r[f]) * Times(s.count, f, k) + t
  BY <1>3, <1>8, <1>14
<1>17. Flat(d.shape, c) = (Row(d.shape, c, f - 1) * d.shape[f] + c[f]) * Times(s.count, f, k) + t
  BY <1>7, <1>8, <1>9, <1>14, <1>15
<1>18. Ends(d, s, c, t, n)
  BY <1>12, <1>13, <1>16, <1>17 DEF Ends, f, k, r
<1> QED BY <1>7, <1>18 DEF n, f, k

(* How many axes the odometer has, and its run.                            *)
Outer(d, s) == IF Len(d.shape) = 0 THEN 0 ELSE First(d, s) - 1

Run(d, s, i) ==
  IF Len(d.shape) = 0
    THEN [src |-> 0, dst |-> 0, len |-> 1]
    ELSE LET f     == First(d, s)
             coord == Plus(s.start, i, f - 1) \o <<s.start[f]>>
         IN  [src |-> Dot(coord, strides(d.shape), f),
              dst |-> Dot(i, strides(s.count), f - 1),
              len |-> element_count(SubSeq(s.count, f, Len(d.shape)))]

(* The dimensions of a selection that is not empty.                        *)
Sized(d, s, n) ==
  /\ Positives(s.count, n) /\ Positives(d.shape, n)
  /\ element_count(s.count) = Times(s.count, 0, n) /\ Times(s.count, 0, n) < MaxU64
LEMMA SizedFacts ==
  ASSUME NEW d, NEW s, Reads(d, s), Fits(d, s), element_count(s.count) # 0
  PROVE  Sized(d, s, Len(d.shape))
<1> DEFINE n == Len(d.shape)
<1>0. SlabIn(d, s, n)
  BY SlabFacts
<1> HIDE DEF n
<1>1. n \in Nat /\ n = Len(s.count) /\ IsShape(s.count)
  BY <1>0 DEF SlabIn
<1>2. Positives(s.count, n)
  BY <1>1, CountExact
<1>3. Positives(d.shape, n)
  <2> SUFFICES ASSUME NEW a \in 1 .. n PROVE d.shape[a] \in Nat \ {0}
    BY DEF Positives
  <2>1. /\ s.start[a] \in Nat /\ d.shape[a] \in Nat
        /\ s.start[a] + s.count[a] <= d.shape[a]
    BY <1>0 DEF SlabIn
  <2>2. s.count[a] \in Nat \ {0}
    BY <1>2 DEF Positives
  <2> QED BY <2>1, <2>2
<1>4. element_count(s.count) = Lesser(Times(s.count, 0, n), MaxU64) /\ Times(s.count, 0, n) \in Nat
  BY <1>1, <1>2, CountExact
<1>5. element_count(s.count) < MaxU64
  BY DEF Fits
<1>6. element_count(s.count) = Times(s.count, 0, n) /\ Times(s.count, 0, n) < MaxU64
  BY <1>4, <1>5, WidthFacts DEF Lesser
<1> QED BY <1>2, <1>3, <1>6 DEF Sized, n

(* The product of dimensions taken from a shape.                           *)
LEMMA SubCount ==
  ASSUME NEW s, IsShape(s), Positives(s, Len(s)), Times(s, 0, Len(s)) < MaxU64,
         NEW f \in 1 .. Len(s)
  PROVE  /\ element_count(SubSeq(s, f, Len(s))) = Times(s, f - 1, Len(s) - (f - 1))
         /\ element_count(SubSeq(s, 1, f - 1)) = Times(s, 0, f - 1)
<1> DEFINE n == Len(s)
<1>0. n \in Nat /\ Numbers(s, n) /\ Positives(s, n)
  BY ShapeFacts
<1>a. s \in Seq(Nat) /\ f \in 1 .. n
  BY DEF IsShape
<1>b. Times(s, 0, n) < MaxU64
  OBVIOUS
<1> DEFINE k == n - (f - 1)
<1> DEFINE i == f - 1
<1>1. k \in Nat /\ i \in Nat /\ i + k = n /\ i \in 0 .. n /\ k = n - i /\ f \in Int
  BY <1>0
<1> HIDE DEF n
<1>2. ASSUME NEW t, IsShape(t), NEW j \in Nat, NEW o \in Nat, Len(t) = j, o + j \in 0 .. n,
             \A a \in 1 .. j : t[a] = s[o + a],
             Times(s, o, j) <= Times(s, 0, n), Times(s, o, j) \in Nat
      PROVE  element_count(t) = Times(s, o, j)
  <2> DEFINE z == 0
  <2>1. z \in Nat /\ z + j = j /\ j \in 0 .. j /\ \A a \in 1 .. j : z + a = a
    BY <1>2
  <2>2. Numbers(t, j)
    BY <1>2, ShapeFacts
  <2>3. Numbers(s, o + j) /\ Positives(s, o + j)
    BY <1>0, <1>2, NumbersFacts
  <2>4. AlikeAfter(t, z, s, o, j)
    BY <1>2, <2>1 DEF AlikeAfter
  <2> HIDE DEF z
  <2>5. Times(t, z, j) = Times(s, o, j)
    BY <1>2, <2>1, <2>2, <2>3, <2>4, TimesSame
  <2>6. Positives(t, j)
    <3> SUFFICES ASSUME NEW a \in 1 .. j PROVE t[a] \in Nat \ {0}
      BY DEF Positives
    <3>1. o + a \in 1 .. o + j
      BY <1>2
    <3> QED BY <1>2, <2>3, <3>1 DEF Positives
  <2>7. element_count(t) = Lesser(Times(t, 0, j), MaxU64)
    BY <1>2, <2>6, CountExact
  <2>8. Times(t, 0, j) = Times(s, o, j)
    BY <2>5 DEF z
  <2>9. Times(s, 0, n) \in Nat
    BY <1>0, <1>1, TimesParts
  <2> QED BY <1>2, <1>b, <2>7, <2>8, <2>9, WidthFacts DEF Lesser
<1>3. element_count(SubSeq(s, f, n)) = Times(s, i, k)
  <2> DEFINE t == SubSeq(s, f, n)
  <2>1. IsShape(t) /\ Len(t) = k /\ \A a \in 1 .. k : t[a] = s[i + a]
    <3>1. t \in Seq(Nat) /\ Len(t) = n - f + 1
      BY <1>0, <1>a DEF n
    <3>2. n - f + 1 = k
      BY <1>0, <1>1
    <3>3. \A a \in 1 .. n - f + 1 : t[a] = s[f + a - 1]
      BY <1>0, <1>a DEF n
    <3>4. \A a \in 1 .. k : f + a - 1 = i + a
      BY <1>1
    <3> QED BY <3>1, <3>2, <3>3, <3>4 DEF IsShape
  <2>2. Times(s, i, k) <= Times(s, 0, n) /\ Times(s, i, k) \in Nat
    BY <1>0, <1>1, TimesParts
  <2>3. i + k \in 0 .. n
    BY <1>0, <1>1
  <2> HIDE DEF t, i, k
  <2>4. element_count(t) = Times(s, i, k)
    BY <1>1, <1>2, <2>1, <2>2, <2>3
  <2> QED BY <2>4 DEF t
<1>4. element_count(SubSeq(s, 1, i)) = Times(s, 0, i)
  <2> DEFINE t == SubSeq(s, 1, i)
  <2>1. IsShape(t) /\ Len(t) = i /\ \A a \in 1 .. i : t[a] = s[0 + a]
    <3>1. t \in Seq(Nat) /\ Len(t) = i
      BY <1>0, <1>a, <1>1 DEF n
    <3>2. \A a \in 1 .. i : t[a] = s[a]
      BY <1>0, <1>a, <1>1 DEF n
    <3>3. \A a \in 1 .. i : 0 + a = a
      BY <1>1
    <3> QED BY <3>1, <3>2, <3>3 DEF IsShape
  <2>2. Times(s, 0, i) <= Times(s, 0, n) /\ Times(s, 0, i) \in Nat
    BY <1>0, <1>1, TimesParts
  <2>3. 0 + i \in 0 .. n /\ 0 \in Nat
    BY <1>1
  <2> HIDE DEF t, i
  <2>4. element_count(t) = Times(s, 0, i)
    BY <1>1, <1>2, <2>1, <2>2, <2>3
  <2> QED BY <2>4 DEF t
<1> QED BY <1>3, <1>4 DEF n, k, i

(* A run is a block of the output and a block of the data, and holds the   *)
(* elements whose first coordinates are the odometer's.                    *)
AtTurn(s, i, m, c) == \A a \in 1 .. m : c[a] = s.start[a] + i[a]
RunIs(d, s, i, n) ==
  LET m   == Outer(d, s)
      len == Times(s.count, m, n - m)
      run == Run(d, s, i)
  IN  /\ run.len = len /\ run.dst = Row(s.count, i, m) * len /\ run.src \in Nat
      /\ \A c \in Box(s) : AtTurn(s, i, m, c) =>
           /\ Flat(d.shape, c) = run.src + (Place(s, c) - run.dst)
           /\ Place(s, c) - run.dst \in 0 .. len - 1
      /\ \A c \in Box(s) : Place(s, c) \in run.dst .. run.dst + len - 1 => AtTurn(s, i, m, c)
      /\ \E c \in Box(s) : Flat(d.shape, c) = run.src + len - 1
DenseRead(d, s) ==
  Reads(d, s) /\ Fits(d, s) /\ d.layout \in {"compact", "contiguous"} /\ element_count(s.count) # 0

(* Of a scalar.                                                            *)
LEMMA ScalarRun ==
  ASSUME NEW d, NEW s, DenseRead(d, s), Len(d.shape) = 0, NEW i
  PROVE  RunIs(d, s, i, Len(d.shape)) /\ Outer(d, s) = 0
<1> DEFINE n == Len(d.shape)
<1>0. Reads(d, s) /\ SlabIn(d, s, n)
  BY SlabFacts DEF DenseRead
<1>1. Outer(d, s) = 0 /\ Run(d, s, i) = [src |-> 0, dst |-> 0, len |-> 1] /\ n = 0 /\ n - 0 = 0
  BY DEF Outer, Run
<1> HIDE DEF n
<1>2. \A x, y : Row(x, y, 0) = 0 /\ Times(x, 0, 0) = 1
  <2> TAKE x, y
  <2>1. Numbers(x, 0) /\ Numbers(y, 0) /\ 0 + 0 = 0
    BY DEF Numbers
  <2>2. RowStep(x, y, 0) /\ TimesStep(x, 0, 0)
    BY <2>1, RowSteps, TimesSteps
  <2> QED BY <2>2 DEF RowStep, TimesStep
<1>3. Len(d.shape) = 0 /\ Len(s.count) = 0 /\ Len(s.start) = 0
  BY <1>0, <1>1 DEF SlabIn
<1>4. \A c : Flat(d.shape, c) = 0 /\ Place(s, c) = 0
  BY <1>2, <1>3, FlatIsRow DEF Place
<1>5. \E c : c \in Box(s)
  <2> DEFINE e == [a \in 1 .. 0 |-> 0]
  <2>1. e \in [1 .. 0 -> Nat]
    OBVIOUS
  <2> HIDE DEF e
  <2>2. e \in Box(s)
    <3>1. \A a \in 1 .. 0 : FALSE
      OBVIOUS
    <3>2. 0 \in Nat
      OBVIOUS
    <3> QED BY <1>3, <2>1, <3>1, <3>2, BoxIs
  <2> QED BY <2>2
<1>6. Times(s.count, 0, 0) = 1 /\ Row(s.count, i, 0) = 0
  BY <1>2
<1>7. \A c : AtTurn(s, i, 0, c)
  BY DEF AtTurn
<1>8. RunIs(d, s, i, n)
  BY <1>1, <1>4, <1>5, <1>6, <1>7 DEF RunIs
<1> QED BY <1>1, <1>8 DEF n

(* Arithmetic of the two blocks: X rows before, u blocks of T, the rest t. *)
LEMMA BlockArithmetic ==
  ASSUME NEW R \in Nat, NEW X \in Nat, NEW w \in Nat \ {0}, NEW z \in Nat, NEW b \in Nat,
         NEW T \in Nat \ {0}, NEW u \in 0 .. w - 1, NEW t \in 0 .. T - 1
  PROVE  /\ (R * w + u) * T + t = R * (w * T) + (u * T + t)
         /\ (X * z + (b + u)) * T + t = (X * z + b) * T + (u * T + t)
         /\ u * T + t \in 0 .. w * T - 1
         /\ u = w - 1 /\ t = T - 1 => u * T + t = w * T - 1
<1>1. (R * w + u) * T = R * (w * T) + u * T
  BY TimesSum
<1> DEFINE y == X * z
<1>2. y \in Nat
  OBVIOUS
<1> HIDE DEF y
<1>3. (y + (b + u)) * T = (y + b) * T + u * T
  BY <1>2
<1>4. u * T + t \in 0 .. w * T - 1
  BY PlaceBound
<1>5. u = w - 1 /\ t = T - 1 => u * T + t = w * T - 1
  <2>1. (w - 1) * T = w * T - T /\ w * T \in Nat
    OBVIOUS
  <2> QED BY <2>1
<1>6. R * (w * T) \in Nat /\ u * T \in Nat /\ (y + b) * T \in Nat
  BY <1>2
<1> QED BY <1>1, <1>3, <1>4, <1>5, <1>6 DEF y

(* A coordinate of a selection on one axis: b its start, w its count, z    *)
(* the dimension, u how far in.                                            *)
LEMMA OnAxis ==
  ASSUME NEW b \in Nat, NEW w \in Nat \ {0}, NEW z \in Nat, b + w <= z, NEW u \in 0 .. w - 1
  PROVE  /\ b + u \in 0 .. z - 1 /\ b + u \in Nat /\ b <= b + u /\ b + u < b + w
         /\ b \in 0 .. z - 1
         /\ b + w - 1 \in Nat /\ b <= b + w - 1 /\ b + w - 1 < b + w
         /\ b + u = b + w - 1 => u = w - 1
  OBVIOUS

LEMMA ZeroIn == ASSUME NEW w \in Nat \ {0} PROVE 0 \in 0 .. w - 1
  OBVIOUS

(* Of data with axes.                                                      *)
LEMMA AxesRun ==
  ASSUME NEW d, NEW s, DenseRead(d, s), Len(d.shape) # 0,
         NEW i, Within(s.count, i, Outer(d, s))
  PROVE  RunIs(d, s, i, Len(d.shape)) /\ Outer(d, s) \in 0 .. Len(d.shape) - 1
<1> DEFINE n == Len(d.shape)
<1> DEFINE f == First(d, s)
<1> DEFINE m == f - 1
<1> DEFINE T == Times(s.count, f, n - f)
<1> DEFINE len == Times(s.count, m, n - m)
<1> DEFINE coord == Plus(s.start, i, m) \o <<s.start[f]>>
<1> DEFINE run == Run(d, s, i)
<1>0. Reads(d, s) /\ Fits(d, s) /\ d.layout \in {"compact", "contiguous"} /\ element_count(s.count) # 0
  BY DEF DenseRead
<1>1. SlabIn(d, s, n) /\ Sized(d, s, n)
  BY <1>0, SlabFacts, SizedFacts
<1>2. f \in 1 .. n /\ \A a \in f + 1 .. n : s.start[a] = 0 /\ s.count[a] = d.shape[a]
  BY <1>0, FirstFacts
<1>3. Outer(d, s) = m /\ run = [src |-> Dot(coord, strides(d.shape), f),
                                dst |-> Dot(i, strides(s.count), m),
                                len |-> element_count(SubSeq(s.count, f, n))]
  BY DEF Outer, Run
<1>4. n # 0 /\ n = Len(d.shape)
  OBVIOUS
<1>5. \A c \in Box(s) : (\E t : Ends(d, s, c, t, n)) /\ Times(d.shape, f, n - f) = T
  BY <1>0, DenseSplit
<1>f. f = First(d, s)
  OBVIOUS
<1> HIDE DEF n, f, run
<1>6. n \in Nat /\ n = Len(s.count) /\ IsShape(s.count) /\ IsShape(d.shape)
  BY <1>1 DEF SlabIn
<1>7. f \in Nat /\ m \in Nat /\ m \in 0 .. n - 1 /\ m \in 0 .. n /\ f \in 0 .. n /\ m + 1 = f /\ f \in 1 .. f
  BY <1>2, <1>6
<1>8. /\ Positives(s.count, n) /\ Positives(d.shape, n)
      /\ Times(s.count, 0, n) < MaxU64 /\ Times(s.count, 0, n) \in Nat
  <2>1. Positives(s.count, n) /\ Positives(d.shape, n) /\ Times(s.count, 0, n) < MaxU64
    BY <1>1 DEF Sized
  <2> QED BY <1>6, <2>1, CountExact
<1>9. Times(d.shape, 0, n) < Width /\ Times(s.count, 0, n) < Width
  <2>1. element_count(d.shape) < MaxU64
    BY <1>0 DEF Fits
  <2>2. element_count(d.shape) = Lesser(Times(d.shape, 0, n), MaxU64) /\ Times(d.shape, 0, n) \in Nat
    BY <1>4, <1>6, <1>8, CountExact
  <2> QED BY <1>8, <2>1, <2>2, WidthFacts DEF Lesser
<1>10. Numbers(s.count, n) /\ Numbers(d.shape, n)
  BY <1>6, <1>8, NumbersFacts
<1>11. len = s.count[f] * T /\ T \in Nat \ {0} /\ len \in Nat \ {0}
  <2>1. len = s.count[f] * T
    BY <1>2, <1>6, <1>10, TimesFirst
  <2>2. T \in Nat \ {0}
    BY <1>6, <1>7, <1>8, TimesParts
  <2>3. len \in Nat \ {0}
    <3> HIDE DEF m
    <3> QED BY <1>6, <1>7, <1>8, TimesParts
  <2> QED BY <2>1, <2>2, <2>3
<1> HIDE DEF m
<1>12. Within(s.count, i, m) /\ Numbers(i, m) /\ Naturals(i, m)
  BY <1>3, <1>7, WithinFacts
<1>13. run.len = len
  <2>1. element_count(SubSeq(s.count, f, Len(s.count))) = Times(s.count, f - 1, Len(s.count) - (f - 1))
    BY <1>2, <1>6, <1>8, SubCount
  <2> QED BY <1>3, <1>6, <2>1 DEF m
<1>14. run.dst = Row(s.count, i, m) * len
  <2>1. Dot(i, strides(s.count), m) = Row(s.count, i, m) * Times(s.count, m, Len(s.count) - m)
    BY <1>6, <1>7, <1>8, <1>9, <1>12, DotIs
  <2> QED BY <1>3, <1>6, <2>1
<1> DEFINE R == Row(s.count, i, m)
<1>15. R \in Nat
  <2>1. R \in 0 .. Times(s.count, 0, m) - 1
    <3>1. m \in 0 .. m
      BY <1>7
    <3> QED BY <1>7, <1>12, <3>1, RowBound
  <2>2. Times(s.count, 0, m) \in Nat
    BY <1>6, <1>7, <1>8, TimesParts
  <2> HIDE DEF R
  <2> QED BY <2>1, <2>2
<1>16. /\ \A a \in 1 .. m : coord[a] = s.start[a] + i[a]
       /\ coord[f] = s.start[f]
  <2> DEFINE p == Plus(s.start, i, m)
  <2>1. p = [a \in 1 .. m |-> s.start[a] + i[a]]
    BY DEF Plus
  <2>2. p \in Seq(Int)
    <3>1. \A a \in 1 .. m : s.start[a] + i[a] \in Int
      <4> TAKE a \in 1 .. m
      <4>1. a \in 1 .. n
        BY <1>6, <1>7
      <4>2. s.start[a] \in Nat /\ i[a] \in Int
        BY <1>1, <1>12, <4>1 DEF SlabIn, Numbers
      <4> QED BY <4>2
    <3> HIDE DEF p
    <3> QED BY <1>7, <2>1, <3>1
  <2>3. Len(p) = m
    <3> HIDE DEF p
    <3> QED BY <1>7, <2>1, <2>2
  <2>4. s.start[f] \in Int
    BY <1>1, <1>2 DEF SlabIn
  <2> HIDE DEF p
  <2>5. \A a \in 1 .. m : (p \o <<s.start[f]>>)[a] = p[a]
    BY <1>7, <2>2, <2>3, <2>4
  <2>6. (p \o <<s.start[f]>>)[m + 1] = s.start[f]
    BY <1>7, <2>2, <2>3, <2>4
  <2>7. \A a \in 1 .. m : p[a] = s.start[a] + i[a]
    BY <2>1
  <2> QED BY <1>7, <2>5, <2>6, <2>7 DEF p
<1> HIDE DEF coord
<1>17. Within(d.shape, coord, f)
  <2> SUFFICES ASSUME NEW a \in 1 .. f PROVE d.shape[a] \in Nat /\ coord[a] \in 0 .. d.shape[a] - 1
    BY DEF Within
  <2>1. a \in 1 .. n
    BY <1>2, <1>6
  <2>2. /\ s.start[a] \in Nat /\ d.shape[a] \in Nat /\ s.start[a] + s.count[a] <= d.shape[a]
    BY <1>1, <2>1 DEF SlabIn
  <2>3. s.count[a] \in Nat \ {0}
    BY <1>8, <2>1 DEF Positives
  <2>4. CASE a = f
    <3>1. 0 \in 0 .. s.count[a] - 1
      BY <2>3, ZeroIn
    <3>2. s.start[a] \in 0 .. d.shape[a] - 1
      BY <2>2, <2>3, <3>1, OnAxis
    <3> QED BY <1>16, <2>2, <2>4, <3>2
  <2>5. CASE a # f
    <3>1. a \in 1 .. m
      BY <1>7, <2>5
    <3>2. i[a] \in 0 .. s.count[a] - 1
      BY <1>12, <3>1 DEF Within
    <3>3. coord[a] = s.start[a] + i[a]
      BY <1>16, <3>1
    <3>4. s.start[a] + i[a] \in 0 .. d.shape[a] - 1
      BY <2>2, <2>3, <3>2, OnAxis
    <3> QED BY <2>2, <3>3, <3>4
  <2> QED BY <2>4, <2>5
<1> DEFINE X == Row(d.shape, coord, m)
<1>18. X \in Nat /\ Row(d.shape, coord, f) = X * d.shape[f] + s.start[f]
  <2>1. RowStep(d.shape, coord, f)
    BY <1>7, <1>17, WithinFacts, RowSteps
  <2>2. f - 1 = m
    BY DEF m
  <2>3. Row(d.shape, coord, f) = X * d.shape[f] + s.start[f]
    BY <1>7, <1>16, <2>1, <2>2 DEF RowStep
  <2>4. m \in 0 .. f
    BY <1>7
  <2>5. X \in 0 .. Times(d.shape, 0, m) - 1
    BY <1>7, <1>17, <2>4, RowBound
  <2>6. Times(d.shape, 0, m) \in Nat
    BY <1>6, <1>7, <1>8, TimesParts
  <2> HIDE DEF X
  <2> QED BY <2>3, <2>5, <2>6
<1>19. /\ run.src = (X * d.shape[f] + s.start[f]) * Times(d.shape, f, n - f)
       /\ run.src \in Nat
  <2>1. /\ Dot(coord, strides(d.shape), f) = Row(d.shape, coord, f) * Times(d.shape, f, Len(d.shape) - f)
        /\ Dot(coord, strides(d.shape), f) \in Nat
    BY <1>4, <1>6, <1>7, <1>8, <1>9, <1>17, DotIs
  <2> QED BY <1>3, <1>4, <1>18, <2>1
<1> HIDE DEF R, X
<1>20. /\ s.start[f] \in Nat /\ s.count[f] \in Nat \ {0} /\ d.shape[f] \in Nat
  <2>1. s.start[f] \in Nat /\ d.shape[f] \in Nat
    BY <1>1, <1>2 DEF SlabIn
  <2> QED BY <1>2, <1>8, <2>1 DEF Positives
<1> HIDE DEF T, len
(* An element of the selection.                                            *)
<1>21. ASSUME NEW c \in Box(s)
       PROVE  LET r == Minus(c, s.start, n) IN
              /\ \E q \in 0 .. len - 1 : Place(s, c) = Row(s.count, r, m) * len + q
              /\ AtTurn(s, i, m, c) =>
                   \E q \in 0 .. len - 1 :
                     /\ Place(s, c) = R * len + q /\ Flat(d.shape, c) = run.src + q
                     /\ (/\ \A a \in f + 1 .. n : c[a] = d.shape[a] - 1
                         /\ c[f] = s.start[f] + s.count[f] - 1) => q = len - 1
              /\ Within(s.count, r, m) /\ Row(s.count, r, m) \in Nat
              /\ \A a \in 1 .. m : r[a] = c[a] - s.start[a] /\ c[a] \in Nat /\ s.start[a] \in Nat
  <2> DEFINE r == Minus(c, s.start, n)
  <2>1. PlaceIn(d, s, c, n)
    BY <1>0, PlaceFacts DEF n
  <2>2. /\ Within(s.count, r, n) /\ Within(d.shape, c, n)
        /\ \A a \in 1 .. n : r[a] = c[a] - s.start[a] /\ c[a] = s.start[a] + r[a]
        /\ c \in [1 .. n -> Nat]
    BY <2>1 DEF PlaceIn
  <2>3. PICK t : Ends(d, s, c, t, n)
    BY <1>5
  <2>4. T = Times(d.shape, f, n - f)
    BY <1>5
  <2>5. /\ t \in 0 .. T - 1
        /\ Place(s, c) = (Row(s.count, r, m) * s.count[f] + r[f]) * T + t
        /\ Flat(d.shape, c) = (Row(d.shape, c, m) * d.shape[f] + c[f]) * T + t
        /\ (\A a \in f + 1 .. n : c[a] = d.shape[a] - 1) => t = T - 1
    BY <1>f, <2>3 DEF Ends, T, m
  <2> HIDE DEF r
  <2> DEFINE u == r[f]
  <2> DEFINE Rr == Row(s.count, r, m)
  <2>6. u \in 0 .. s.count[f] - 1 /\ c[f] = s.start[f] + u
    BY <1>2, <2>2 DEF Within
  <2>7. Within(s.count, r, m) /\ Within(d.shape, c, m)
    BY <1>6, <1>7, <2>2, WithinFacts
  <2>8. Rr \in Nat
    <3>1. m \in 0 .. m
      BY <1>7
    <3>2. Rr \in 0 .. Times(s.count, 0, m) - 1
      BY <1>7, <2>7, <3>1, RowBound
    <3>3. Times(s.count, 0, m) \in Nat
      BY <1>6, <1>7, <1>8, TimesParts
    <3> HIDE DEF Rr
    <3> QED BY <3>2, <3>3
  <2>9. \A a \in 1 .. m : r[a] = c[a] - s.start[a] /\ c[a] \in Nat /\ s.start[a] \in Nat
    <3> TAKE a \in 1 .. m
    <3>1. a \in 1 .. n
      BY <1>6, <1>7
    <3>2. s.start[a] \in Nat
      BY <1>1, <3>1 DEF SlabIn
    <3> QED BY <2>2, <3>1, <3>2
  <2> DEFINE q == u * T + t
  <2>10. /\ (Rr * s.count[f] + u) * T + t = Rr * (s.count[f] * T) + q
         /\ (X * d.shape[f] + (s.start[f] + u)) * T + t = (X * d.shape[f] + s.start[f]) * T + q
         /\ q \in 0 .. s.count[f] * T - 1
         /\ u = s.count[f] - 1 /\ t = T - 1 => q = s.count[f] * T - 1
    <3> DEFINE w == s.count[f]
    <3> DEFINE z == d.shape[f]
    <3> DEFINE b == s.start[f]
    <3>1. w \in Nat \ {0} /\ z \in Nat /\ b \in Nat
      BY <1>20
    <3>2. u \in 0 .. w - 1 /\ t \in 0 .. T - 1 /\ T \in Nat \ {0}
      BY <1>11, <2>5, <2>6
    <3> HIDE DEF u, Rr, w, z, b
    <3>3. /\ (Rr * w + u) * T + t = Rr * (w * T) + (u * T + t)
          /\ (X * z + (b + u)) * T + t = (X * z + b) * T + (u * T + t)
          /\ u * T + t \in 0 .. w * T - 1
          /\ u = w - 1 /\ t = T - 1 => u * T + t = w * T - 1
      BY <1>18, <2>8, <3>1, <3>2, BlockArithmetic
    <3> QED BY <3>3 DEF w, z, b
  <2>11. q \in 0 .. len - 1 /\ Place(s, c) = Rr * len + q
    BY <1>11, <2>5, <2>10
  <2>12. ASSUME AtTurn(s, i, m, c)
         PROVE  /\ Place(s, c) = R * len + q /\ Flat(d.shape, c) = run.src + q
                /\ (/\ \A a \in f + 1 .. n : c[a] = d.shape[a] - 1
                    /\ c[f] = s.start[f] + s.count[f] - 1) => q = len - 1
    <3>1. \A a \in 1 .. m : r[a] = i[a] /\ c[a] = coord[a]
      <4> TAKE a \in 1 .. m
      <4>1. c[a] = s.start[a] + i[a] /\ i[a] \in Int
        BY <1>12, <2>12 DEF AtTurn, Numbers
      <4>2. r[a] = c[a] - s.start[a] /\ s.start[a] \in Nat
        BY <2>9
      <4>3. coord[a] = s.start[a] + i[a]
        BY <1>16
      <4> QED BY <4>1, <4>2, <4>3
    <3>2. Rr = R
      <4>1. Numbers(s.count, m) /\ Numbers(r, m)
        BY <1>7, <2>7, WithinFacts
      <4>2. \A a \in 1 .. m : s.count[a] = s.count[a] /\ r[a] = i[a]
        BY <3>1
      <4> QED BY <1>7, <1>12, <4>1, <4>2, RowSame DEF R
    <3>3. Row(d.shape, c, m) = X
      <4>1. Numbers(d.shape, m) /\ Numbers(c, m)
        BY <1>7, <2>7, WithinFacts
      <4>2. Numbers(coord, m)
        <5>1. Within(d.shape, coord, m)
          <6>1. m \in 0 .. f
            BY <1>7
          <6> QED BY <1>7, <1>17, <6>1, WithinFacts
        <5> QED BY <1>7, <5>1, WithinFacts
      <4>3. \A a \in 1 .. m : d.shape[a] = d.shape[a] /\ c[a] = coord[a]
        BY <3>1
      <4> QED BY <1>7, <4>1, <4>2, <4>3, RowSame DEF X
    <3>4. Flat(d.shape, c) = run.src + q
      <4>1. Flat(d.shape, c) = (X * d.shape[f] + (s.start[f] + u)) * T + t
        BY <2>5, <2>6, <3>3
      <4>2. run.src = (X * d.shape[f] + s.start[f]) * T
        BY <1>19, <2>4
      <4> QED BY <2>10, <4>1, <4>2
    <3>5. ASSUME \A a \in f + 1 .. n : c[a] = d.shape[a] - 1, c[f] = s.start[f] + s.count[f] - 1
          PROVE  q = len - 1
      <4>1. t = T - 1
        BY <2>5, <3>5
      <4>2. u = s.count[f] - 1
        <5> DEFINE w == s.count[f]
        <5> DEFINE b == s.start[f]
        <5>1. w \in Nat \ {0} /\ b \in Nat /\ u \in 0 .. w - 1 /\ b + u = b + w - 1
          BY <1>20, <2>6, <3>5
        <5> HIDE DEF u, w, b
        <5>2. u = w - 1
          BY <5>1
        <5> QED BY <5>2 DEF w
      <4> QED BY <1>11, <2>10, <4>1, <4>2
    <3> QED BY <2>11, <3>2, <3>4, <3>5
  <2> HIDE DEF q, u, Rr
  <2> QED BY <2>7, <2>8, <2>9, <2>11, <2>12 DEF Rr, r
<1>22. ASSUME NEW c \in Box(s), AtTurn(s, i, m, c)
       PROVE  /\ Flat(d.shape, c) = run.src + (Place(s, c) - run.dst)
              /\ Place(s, c) - run.dst \in 0 .. len - 1
  <2>1. PICK q \in 0 .. len - 1 : Place(s, c) = R * len + q /\ Flat(d.shape, c) = run.src + q
    BY <1>21, <1>22
  <2>2. run.dst = R * len /\ R * len \in Nat
    BY <1>11, <1>14, <1>15 DEF R
  <2>3. Place(s, c) - run.dst = q
    BY <1>11, <2>1, <2>2
  <2> QED BY <2>1, <2>3
<1>23. ASSUME NEW c \in Box(s), Place(s, c) \in run.dst .. run.dst + len - 1
       PROVE  AtTurn(s, i, m, c)
  <2> DEFINE r == Minus(c, s.start, n)
  <2> DEFINE Rr == Row(s.count, r, m)
  <2>1. PICK q \in 0 .. len - 1 : Place(s, c) = Rr * len + q
    BY <1>21
  <2>2. /\ Within(s.count, r, m) /\ Rr \in Nat
        /\ \A a \in 1 .. m : r[a] = c[a] - s.start[a] /\ c[a] \in Nat /\ s.start[a] \in Nat
    BY <1>21
  <2> HIDE DEF r, Rr
  <2> DEFINE p == Place(s, c) - run.dst
  <2>3. run.dst = R * len /\ R * len \in Nat
    BY <1>11, <1>14, <1>15 DEF R
  <2>4. p \in 0 .. len - 1 /\ Rr * len + q = R * len + p
    <3> DEFINE x == Rr * len
    <3> DEFINE y == R * len
    <3> DEFINE e == Place(s, c)
    <3>0. Rr \in Nat /\ len \in Nat /\ R * len \in Nat
      BY <1>11, <2>2, <2>3
    <3>1. x \in Nat /\ y \in Nat /\ len \in Nat /\ q \in 0 .. len - 1
      BY <3>0
    <3>2. e = x + q /\ run.dst = y /\ e \in y .. y + len - 1 /\ p = e - y
      BY <1>23, <2>1, <2>3
    <3> HIDE DEF x, y, e, p
    <3>3. p \in 0 .. len - 1 /\ x + q = y + p
      BY <3>1, <3>2
    <3> QED BY <3>3 DEF x, y
  <2> HIDE DEF p
  <2>5. Rr = R
    <3>1. Rr \in Nat /\ R \in Nat /\ len \in Nat
      BY <1>11, <1>15, <2>2
    <3> QED BY <2>4, <3>1, PlaceUnique
  <2>6. \A a \in 1 .. m : r[a] = i[a]
    BY <1>7, <1>12, <2>2, <2>5, RowUnique DEF R, Rr
  <2> QED BY <2>2, <2>6 DEF AtTurn
<1>24. \E c \in Box(s) : Flat(d.shape, c) = run.src + len - 1
  <2> DEFINE c == [a \in 1 .. n |-> IF a < f THEN s.start[a] + i[a]
                                   ELSE IF a = f THEN s.start[f] + s.count[f] - 1
                                   ELSE d.shape[a] - 1]
  <2>1. ASSUME NEW a \in 1 .. n
        PROVE  c[a] \in Nat /\ s.start[a] <= c[a] /\ c[a] < s.start[a] + s.count[a]
    <3>1. s.start[a] \in Nat /\ s.count[a] \in Nat \ {0} /\ d.shape[a] \in Nat
      BY <1>1, <1>8 DEF SlabIn, Positives
    <3>2. CASE a < f
      <4>1. a \in 1 .. m
        BY <1>7, <3>2
      <4>2. i[a] \in 0 .. s.count[a] - 1
        BY <1>12, <4>1 DEF Within
      <4>3. c[a] = s.start[a] + i[a]
        BY <3>2
      <4>4. s.start[a] + s.count[a] <= d.shape[a]
        BY <1>1 DEF SlabIn
      <4>5. s.start[a] + i[a] \in Nat /\ s.start[a] <= s.start[a] + i[a] /\ s.start[a] + i[a] < s.start[a] + s.count[a]
        BY <3>1, <4>2, <4>4, OnAxis
      <4> HIDE DEF c
      <4> QED BY <4>3, <4>5
    <3>3. CASE a = f
      <4>1. c[a] = s.start[a] + s.count[a] - 1
        BY <3>3, <1>7
      <4>4. s.start[a] + s.count[a] <= d.shape[a] /\ 0 \in 0 .. s.count[a] - 1
        BY <1>1, <3>1, ZeroIn DEF SlabIn
      <4>5. s.start[a] + s.count[a] - 1 \in Nat /\ s.start[a] <= s.start[a] + s.count[a] - 1
            /\ s.start[a] + s.count[a] - 1 < s.start[a] + s.count[a]
        BY <3>1, <4>4, OnAxis
      <4> HIDE DEF c
      <4> QED BY <4>1, <4>5
    <3>4. CASE a > f
      <4>1. s.start[a] = 0 /\ s.count[a] = d.shape[a]
        <5>1. a \in f + 1 .. n
          BY <1>7, <3>4
        <5> QED BY <1>2, <5>1
      <4>2. c[a] = d.shape[a] - 1
        BY <3>4, <1>7
      <4> HIDE DEF c
      <4> QED BY <3>1, <4>1, <4>2
    <3> QED BY <1>7, <3>2, <3>3, <3>4
  <2>2. c \in [1 .. n -> Nat]
    <3>1. c = [a \in 1 .. n |-> c[a]]
      OBVIOUS
    <3> HIDE DEF c
    <3> QED BY <2>1, <3>1
  <2>3. \A a \in 1 .. m : c[a] = s.start[a] + i[a]
    <3> TAKE a \in 1 .. m
    <3>1. a \in 1 .. n /\ a < f
      BY <1>6, <1>7
    <3> QED BY <3>1
  <2>4. /\ \A a \in f + 1 .. n : c[a] = d.shape[a] - 1
        /\ c[f] = s.start[f] + s.count[f] - 1
    <3>1. \A a \in f + 1 .. n : a \in 1 .. n /\ ~(a < f) /\ a # f
      BY <1>7
    <3>2. ~(f < f)
      BY <1>7
    <3> QED BY <1>2, <3>1, <3>2
  <2> HIDE DEF c
  <2>5. c \in Box(s)
    <3>1. Len(s.start) = n /\ \A a \in 1 .. n : s.start[a] \in Nat /\ s.count[a] \in Nat
      BY <1>1 DEF SlabIn
    <3> QED BY <1>6, <2>1, <2>2, <3>1, BoxIs
  <2>6. AtTurn(s, i, m, c)
    BY <2>3 DEF AtTurn
  <2>7. PICK q \in 0 .. len - 1 :
          /\ Place(s, c) = R * len + q /\ Flat(d.shape, c) = run.src + q
          /\ (/\ \A a \in f + 1 .. n : c[a] = d.shape[a] - 1
              /\ c[f] = s.start[f] + s.count[f] - 1) => q = len - 1
    BY <1>21, <2>5, <2>6
  <2>8. q = len - 1
    BY <2>4, <2>7
  <2>9. Flat(d.shape, c) = run.src + len - 1
    BY <1>11, <1>19, <2>7, <2>8
  <2> QED BY <2>5, <2>9
<1>25. RunIs(d, s, i, n)
  BY <1>3, <1>13, <1>14, <1>19, <1>22, <1>23, <1>24 DEF RunIs, len, run
<1> QED BY <1>3, <1>7, <1>25 DEF n

(* Of any data that is not chunked.                                        *)
LEMMA RunFacts ==
  ASSUME NEW d, NEW s, DenseRead(d, s), NEW i, Within(s.count, i, Outer(d, s))
  PROVE  RunIs(d, s, i, Len(d.shape)) /\ Outer(d, s) \in 0 .. Len(d.shape)
<1>1. CASE Len(d.shape) = 0
  <2>1. RunIs(d, s, i, Len(d.shape)) /\ Outer(d, s) = 0
    BY <1>1, ScalarRun
  <2> QED BY <1>1, <2>1
<1>2. CASE Len(d.shape) # 0
  <2>1. RunIs(d, s, i, Len(d.shape)) /\ Outer(d, s) \in 0 .. Len(d.shape) - 1
    BY <1>2, AxesRun
  <2>2. Len(d.shape) \in Nat
    BY SlabFacts DEF DenseRead, SlabIn
  <2> QED BY <2>1, <2>2
<1> QED BY <1>1, <1>2

--------------------------------------------------------------------------------
(* The inductive invariant.                                                *)

(* What the output is made of before a copy.                               *)
Bases == {Zero, Fill}

(* A read of data that is not chunked, P - o turns into its loop: the runs *)
(* before have been copied and nothing else has.                           *)
DenseAt(d, s, i, o, b) ==
  LET n == Len(d.shape)
      m == Outer(d, s)
      P == Times(s.count, 0, m)
      L == Times(s.count, m, n - m)
  IN  /\ DOMAIN b = 0 .. element_count(s.count) - 1
      /\ o \in Nat
      /\ element_count(s.count) = 0 => o = 0
      /\ element_count(s.count) # 0 =>
           /\ o \in 0 .. P /\ DOMAIN i = 1 .. m /\ Within(s.count, i, m)
           /\ o > 0 => Row(s.count, i, m) = P - o
           /\ \A c \in Box(s) :
                Place(s, c) < (P - o) * L => b[Place(s, c)] = <<"data", 0, Flat(d.shape, c)>>
           /\ \A e \in DOMAIN b : e >= (P - o) * L => b[e] \in Bases

(* The box of record k that a selection wants, and what it holds.          *)
Lo(d, s, k) == [a \in 1 .. Len(d.shape) |-> Larger(d.chunks[k].offset[a], s.start[a])]
Hi(d, s, k) == [a \in 1 .. Len(d.shape) |-> Lesser(SatAdd(d.chunks[k].offset[a], d.chunk[a]),
                                                  s.start[a] + s.count[a])]
Cuts(d, s, k) == \A a \in 1 .. Len(d.shape) : Lo(d, s, k)[a] < Hi(d, s, k)[a]
HoldsAt(d, k, c) ==
  \A a \in 1 .. Len(d.shape) : /\ d.chunks[k].offset[a] <= c[a]
                               /\ c[a] < d.chunks[k].offset[a] + d.chunk[a]

(* The records to come are those the selection wants, in their order, and  *)
(* after those that were copied.                                           *)
Waits(td, k) == \E j \in 1 .. Len(td) : td[j] = k
TodoInv(d, s, td) ==
  /\ td \in Seq(1 .. Len(d.chunks))
  /\ \A j \in 1 .. Len(td) : Cuts(d, s, td[j])
  /\ \A j, l \in 1 .. Len(td) : j < l => td[j] < td[l]
  /\ \A k \in 1 .. Len(d.chunks) :
       Cuts(d, s, k) => Waits(td, k) \/ \A j \in 1 .. Len(td) : k < td[j]

(* The output before a copy: its fill was left out only if every element   *)
(* selected is in some chunk.                                              *)
Covers(d, s) == \A c \in Box(s) : \E k \in DOMAIN d.chunks : HoldsAt(d, k, c)
Base(d, s, v) == v = Zero => Covers(d, s)

(* What is to be seen of c once the records S have been copied.            *)
Shown(d, v, c, S) ==
  IF S = {} THEN v
  ELSE <<"data", Max(S), Flat(d.chunk, Minus(c, d.chunks[Max(S)].offset, Len(d.shape)))>>
Past(d, td, c) == {k \in DOMAIN d.chunks : HoldsAt(d, k, c) /\ ~Waits(td, k)}

(* Between two chunks.                                                     *)
NextAt(d, s, td, b) ==
  /\ DOMAIN b = 0 .. element_count(s.count) - 1
  /\ \E v \in Bases :
       /\ Base(d, s, v)
       /\ \A c \in Box(s) : b[Place(s, c)] = Shown(d, v, c, Past(d, td, c))

(* The rows of a chunk, by all axes but the last.                          *)
RowOf(d, s, k, c) ==
  LET m == Len(d.shape) - 1
      W == Minus(Hi(d, s, k), Lo(d, s, k), m)
  IN  Row(W, Minus(c, Lo(d, s, k), m), m)
Rows(d, s, k) ==
  LET m == Len(d.shape) - 1
  IN  Times(Minus(Hi(d, s, k), Lo(d, s, k), m), 0, m)

(* In the loop over them, with o turns to go.                              *)
Seen(d, s, td, o, c) ==
  LET k == Head(td)
  IN  IF HoldsAt(d, k, c) /\ RowOf(d, s, k, c) < Rows(d, s, k) - o
        THEN Past(d, td, c) \cup {k} ELSE Past(d, td, c)
CopyAt(d, s, td, l, h, i, o, b) ==
  LET k == Head(td)
      m == Len(d.shape) - 1
      W == Minus(Hi(d, s, k), Lo(d, s, k), m)
  IN  /\ l = Lo(d, s, k) /\ h = Hi(d, s, k)
      /\ o \in 0 .. Rows(d, s, k) /\ DOMAIN i = 1 .. m /\ Within(W, i, m)
      /\ o > 0 => Row(W, i, m) = Rows(d, s, k) - o
      /\ DOMAIN b = 0 .. element_count(s.count) - 1
      /\ \E v \in Bases :
           /\ Base(d, s, v)
           /\ \A c \in Box(s) : b[Place(s, c)] = Shown(d, v, c, Seen(d, s, td, o, c))

(* What a read that ended has to show.                                     *)
Wanted(d, c) ==
  CASE d.layout \in {"compact", "contiguous"} -> <<"data", 0, Flat(d.shape, c)>>
    [] d.layout = "unwritten" -> Fill
    [] d.layout = "chunked" -> Shown(d, Fill, c, {k \in DOMAIN d.chunks : HoldsAt(d, k, c)})
Values(d, s, b) == \A c \in Box(s) : b[Place(s, c)] = Wanted(d, c)
PastEnd(d, s) == \E c \in Box(s) : Flat(d.shape, c) >= d.stored
NoBytes(d, s) == \E c \in Box(s) : \E k \in DOMAIN d.chunks : HoldsAt(d, k, c) /\ d.chunks[k].size = 0

Control ==
  /\ phase \in {"idle", "start", "dense", "next", "copy", "done", "listed"}
  /\ result # "none" => phase = "done"
  /\ phase \in {"start", "dense", "next", "copy"} => Reads(ds, slab)
  /\ result \in {"ok", "TooShort", "Short"} => Reads(ds, slab)
  /\ phase = "dense" => ds.layout \in {"compact", "contiguous"}
  /\ phase \in {"next", "copy"} => ds.layout = "chunked"
  /\ phase = "listed" => ds \in Datasets /\ listed = chunks_of(ds)
Records == phase \in {"next", "copy"} => TodoInv(ds, slab, todo) /\ (phase = "copy" => todo # <<>>)
Loops ==
  Fits(ds, slab) =>
    /\ phase = "dense" => DenseAt(ds, slab, index, left, out)
    /\ phase = "next" => NextAt(ds, slab, todo, out)
    /\ phase = "copy" => CopyAt(ds, slab, todo, lo, hi, index, left, out)
Ended ==
  /\ result = "ok" /\ Fits(ds, slab) => Values(ds, slab, out)
  /\ result = "TooShort" /\ Fits(ds, slab) => PastEnd(ds, slab)
  /\ result = "Short" => NoBytes(ds, slab)
IInv == Control /\ Records /\ Loops /\ Ended

--------------------------------------------------------------------------------
(* Reads of data that is not chunked.                                      *)

(* The first turn.                                                         *)
LEMMA RowZeros ==
  ASSUME NEW n \in Nat, NEW s, Numbers(s, n)
  PROVE  Row(s, Zeros(n), n) = 0
<1> DEFINE z == Zeros(n)
<1>1. \A a \in 1 .. n : z[a] = 0
  BY DEF Zeros
<1> HIDE DEF z
<1>2. Numbers(z, n)
  BY <1>1 DEF Numbers
<1>3. RowStep(s, z, n)
  BY <1>2, RowSteps
<1> DEFINE S == {a \in 0 .. n : Row(s, z, a) = 0}
<1>4. 0 \in S
  BY <1>3 DEF RowStep
<1>5. ASSUME NEW a \in 0 .. n - 1, a \in S PROVE a + 1 \in S
  <2>1. a + 1 \in 1 .. n /\ a + 1 \in 0 .. n /\ (a + 1) - 1 = a
    OBVIOUS
  <2>2. Row(s, z, a + 1) = Row(s, z, a) * s[a + 1] + z[a + 1]
    BY <1>3, <2>1 DEF RowStep
  <2>3. Row(s, z, a) = 0 /\ z[a + 1] = 0 /\ s[a + 1] \in Int
    BY <1>1, <1>5, <2>1 DEF Numbers
  <2> QED BY <2>1, <2>2, <2>3
<1> HIDE DEF S
<1>6. 0 .. n \subseteq S
  BY <1>4, <1>5, UpTo
<1>7. n \in S
  BY <1>6
<1> QED BY <1>7 DEF S, z

LEMMA ZerosFacts ==
  ASSUME NEW n \in Nat
  PROVE  DOMAIN Zeros(n) = 1 .. n /\ Len(Zeros(n)) = n /\ \A a \in 1 .. n : Zeros(n)[a] = 0
<1>1. Zeros(n) \in Seq(Nat)
  BY DEF Zeros
<1>2. DOMAIN Zeros(n) = 1 .. n
  BY DEF Zeros
<1>3. Len(Zeros(n)) = n
  BY <1>1, <1>2
<1> QED BY <1>2, <1>3 DEF Zeros

(* The odometer of a read that is not empty.                               *)
Turns(d, s, P, L) ==
  /\ P = Times(s.count, 0, Outer(d, s)) /\ L = Times(s.count, Outer(d, s), Len(d.shape) - Outer(d, s))
  /\ P \in Nat \ {0} /\ L \in Nat \ {0} /\ element_count(s.count) = P * L
  /\ Positives(s.count, Outer(d, s)) /\ Outer(d, s) \in Nat
LEMMA TurnsFacts ==
  ASSUME NEW d, NEW s, DenseRead(d, s)
  PROVE  /\ Turns(d, s, Times(s.count, 0, Outer(d, s)),
                  Times(s.count, Outer(d, s), Len(d.shape) - Outer(d, s)))
         /\ element_count(SubSeq(s.count, 1, Outer(d, s))) = Times(s.count, 0, Outer(d, s))
<1> DEFINE n == Len(d.shape)
<1> DEFINE m == Outer(d, s)
<1>1. SlabIn(d, s, n) /\ Sized(d, s, n)
  BY SlabFacts, SizedFacts DEF DenseRead
<1>2. n \in Nat /\ n = Len(s.count) /\ IsShape(s.count)
  BY <1>1 DEF SlabIn
<1>3. Positives(s.count, n) /\ Times(s.count, 0, n) < MaxU64 /\ element_count(s.count) = Times(s.count, 0, n)
  BY <1>1 DEF Sized
<1>4. m \in 0 .. n /\ (n # 0 => m + 1 \in 1 .. n)
  <2>1. CASE n = 0
    BY <2>1 DEF Outer
  <2>2. CASE n # 0
    <3>1. First(d, s) \in 1 .. n
      BY <2>2, FirstFacts DEF DenseRead
    <3>2. m = First(d, s) - 1
      BY <2>2 DEF Outer
    <3> QED BY <1>2, <3>1, <3>2
  <2> QED BY <2>1, <2>2
<1> HIDE DEF n, m
<1>5. /\ Times(s.count, 0, m) \in Nat \ {0} /\ Times(s.count, m, n - m) \in Nat \ {0}
      /\ Times(s.count, 0, n) = Times(s.count, 0, m) * Times(s.count, m, n - m)
  BY <1>2, <1>3, <1>4, TimesParts
<1>6. Positives(s.count, m) /\ m \in Nat
  BY <1>2, <1>3, <1>4, NumbersFacts
<1>7. element_count(SubSeq(s.count, 1, m)) = Times(s.count, 0, m)
  <2>1. CASE n # 0
    <3> DEFINE f == m + 1
    <3>1. f \in 1 .. Len(s.count) /\ f - 1 = m
      BY <1>2, <1>4, <2>1
    <3> HIDE DEF f
    <3>2. element_count(SubSeq(s.count, 1, f - 1)) = Times(s.count, 0, f - 1)
      BY <1>2, <1>3, <3>1, SubCount
    <3> QED BY <3>1, <3>2
  <2>2. CASE n = 0
    <3>1. m = 0
      BY <1>4, <2>2
    <3>2. s.count = <<>>
      BY <1>2, <2>2, EmptySeq DEF IsShape
    <3>3. SubSeq(s.count, 1, m) = s.count
      BY <3>1, <3>2
    <3> QED BY <1>2, <1>3, <2>2, <3>1, <3>3
  <2> QED BY <2>1, <2>2
<1> QED BY <1>3, <1>5, <1>6, <1>7 DEF Turns, n, m

LEMMA DenseStart ==
  ASSUME NEW d, NEW s, NEW b, NEW v \in Bases, NEW o,
         Reads(d, s), Fits(d, s), d.layout \in {"compact", "contiguous"},
         b = [e \in 0 .. element_count(s.count) - 1 |-> v],
         o = IF element_count(s.count) = 0 THEN 0
             ELSE element_count(SubSeq(s.count, 1, Outer(d, s)))
  PROVE  DenseAt(d, s, Zeros(Outer(d, s)), o, b)
<1> DEFINE n == Len(d.shape)
<1> DEFINE m == Outer(d, s)
<1> DEFINE P == Times(s.count, 0, m)
<1> DEFINE L == Times(s.count, m, n - m)
<1>1. DOMAIN b = 0 .. element_count(s.count) - 1 /\ \A e \in DOMAIN b : b[e] \in Bases
  OBVIOUS
<1>2. CASE element_count(s.count) = 0
  BY <1>1, <1>2 DEF DenseAt
<1>3. CASE element_count(s.count) # 0
  <2>0. DenseRead(d, s)
    BY <1>3 DEF DenseRead
  <2>1. Turns(d, s, P, L) /\ o = P
    BY <1>3, <2>0, TurnsFacts
  <2>2. P \in Nat \ {0} /\ L \in Nat \ {0} /\ Positives(s.count, m) /\ m \in Nat
    BY <2>1 DEF Turns
  <2>3. Within(s.count, Zeros(m), m) /\ DOMAIN Zeros(m) = 1 .. m
    <3>1. DOMAIN Zeros(m) = 1 .. m /\ \A a \in 1 .. m : Zeros(m)[a] = 0
      BY <2>2, ZerosFacts
    <3>2. \A a \in 1 .. m : s.count[a] \in Nat /\ 0 \in 0 .. s.count[a] - 1
      BY <2>2, ZeroIn DEF Positives
    <3> QED BY <3>1, <3>2 DEF Within
  <2>4. Row(s.count, Zeros(m), m) = 0
    BY <2>2, NumbersFacts, RowZeros
  <2>5. \A c \in Box(s) : Place(s, c) \in Nat
    <3> TAKE c \in Box(s)
    <3>1. PlaceIn(d, s, c, n)
      BY PlaceFacts
    <3>2. Place(s, c) \in 0 .. Times(s.count, 0, n) - 1
      BY <3>1 DEF PlaceIn
    <3> QED BY <3>2
  <2> HIDE DEF P, L, m
  <2>6. P - o = 0 /\ (P - o) * L = 0 /\ o \in 0 .. P /\ o \in Nat
    BY <2>1, <2>2
  <2>7. \A c \in Box(s) : ~(Place(s, c) < (P - o) * L)
    BY <2>5, <2>6
  <2> QED BY <1>1, <1>3, <2>3, <2>4, <2>6, <2>7 DEF DenseAt, P, L, m
<1> QED BY <1>2, <1>3

(* The output after a run.                                                 *)
Pasted(b, k, run) ==
  [e \in DOMAIN b |-> IF e \in run.dst .. run.dst + run.len - 1
                        THEN <<"data", k, run.src + e - run.dst>> ELSE b[e]]

(* Where the next run goes: x = P - o of the blocks are done.              *)
LEMMA BlockStep ==
  ASSUME NEW P \in Nat \ {0}, NEW L \in Nat \ {0}, NEW o \in 1 .. P
  PROVE  /\ (P - o) * L \in Nat /\ (P - (o - 1)) * L = (P - o) * L + L
         /\ (P - o) * L + L <= P * L /\ P * L \in Nat
<1>1. ((P - o) + 1) * L <= P * L
  BY TimesMonotone
<1>2. ((P - o) + 1) * L = (P - o) * L + L
  OBVIOUS
<1>3. P - (o - 1) = (P - o) + 1 /\ (P - o) * L \in Nat /\ P * L \in Nat
  OBVIOUS
<1> QED BY <1>1, <1>2, <1>3

(* The run of a turn: its block of the output is next.                     *)
DenseTurn(d, s, i, o, b) ==
  LET run == Run(d, s, i)
      P   == Times(s.count, 0, Outer(d, s))
      L   == Times(s.count, Outer(d, s), Len(d.shape) - Outer(d, s))
  IN  /\ RunIs(d, s, i, Len(d.shape)) /\ Turns(d, s, P, L) /\ o \in 1 .. P
      /\ Row(s.count, i, Outer(d, s)) = P - o
      /\ run.dst = (P - o) * L /\ run.len = L /\ run.dst \in Nat /\ L \in Nat \ {0}
      /\ (P - (o - 1)) * L = run.dst + L
      /\ run.dst + L <= P * L /\ P * L \in Nat /\ DOMAIN b = 0 .. P * L - 1
LEMMA DenseTurnFacts ==
  ASSUME NEW d, NEW s, NEW i, NEW o, NEW b, Reads(d, s), Fits(d, s),
         d.layout \in {"compact", "contiguous"}, DenseAt(d, s, i, o, b), o > 0
  PROVE  DenseRead(d, s) /\ DenseTurn(d, s, i, o, b)
<1> DEFINE n == Len(d.shape)
<1> DEFINE m == Outer(d, s)
<1> DEFINE P == Times(s.count, 0, m)
<1> DEFINE L == Times(s.count, m, n - m)
<1> DEFINE run == Run(d, s, i)
<1>1. element_count(s.count) # 0
  BY DEF DenseAt
<1>2. DenseRead(d, s)
  BY <1>1 DEF DenseRead
<1>3. Turns(d, s, P, L)
  BY <1>2, TurnsFacts
<1>4. P \in Nat \ {0} /\ L \in Nat \ {0} /\ element_count(s.count) = P * L
  BY <1>3 DEF Turns
<1>5. o \in 0 .. P /\ Within(s.count, i, m) /\ Row(s.count, i, m) = P - o
  BY <1>1 DEF DenseAt
<1>6. RunIs(d, s, i, n)
  BY <1>2, <1>5, RunFacts
<1>7. run.len = L /\ run.dst = Row(s.count, i, m) * L
  BY <1>6 DEF RunIs
<1>8. DOMAIN b = 0 .. P * L - 1
  BY <1>4 DEF DenseAt
<1> HIDE DEF n, m, P, L, run
<1>9. o \in 1 .. P
  BY <1>4, <1>5
<1>10. /\ (P - o) * L \in Nat /\ (P - (o - 1)) * L = (P - o) * L + L
       /\ (P - o) * L + L <= P * L /\ P * L \in Nat
  BY <1>4, <1>9, BlockStep
<1> QED BY <1>2, <1>3, <1>4, <1>5, <1>6, <1>7, <1>8, <1>9, <1>10 DEF DenseTurn, n, m, P, L, run

(* The run lies in the output, where nothing has been copied.              *)
LEMMA DenseFits ==
  ASSUME NEW d, NEW s, NEW i, NEW o, NEW b, Reads(d, s), Fits(d, s),
         d.layout \in {"compact", "contiguous"}, DenseAt(d, s, i, o, b), o > 0,
         NEW e \in Run(d, s, i).dst .. Run(d, s, i).dst + Run(d, s, i).len - 1
  PROVE  e \in DOMAIN b /\ b[e] \in Bases
<1> DEFINE m == Outer(d, s)
<1> DEFINE P == Times(s.count, 0, m)
<1> DEFINE L == Times(s.count, m, Len(d.shape) - m)
<1> DEFINE x == Run(d, s, i).dst
<1> DEFINE y == P * L
<1>1. DenseTurn(d, s, i, o, b)
  BY DenseTurnFacts
<1>2. x = (P - o) * L /\ x \in Nat /\ L \in Nat \ {0} /\ x + L <= y /\ y \in Nat /\ DOMAIN b = 0 .. y - 1
      /\ Run(d, s, i).len = L
  BY <1>1 DEF DenseTurn
<1>3. \A ee \in DOMAIN b : ee >= (P - o) * L => b[ee] \in Bases
  <2>1. element_count(s.count) # 0
    BY DenseTurnFacts DEF DenseRead
  <2> QED BY <2>1 DEF DenseAt
<1>4. e \in x .. x + L - 1
  BY <1>2
<1>5. \A ee \in DOMAIN b : ee >= x => b[ee] \in Bases
  BY <1>2, <1>3
<1> HIDE DEF m, P, L, x, y
<1>6. e \in 0 .. y - 1 /\ e >= x
  BY <1>2, <1>4
<1> QED BY <1>2, <1>5, <1>6

(* The run reaches past the data only if an element selected does.         *)
LEMMA DenseShort ==
  ASSUME NEW d, NEW s, NEW i, NEW o, NEW b, Reads(d, s), Fits(d, s),
         d.layout \in {"compact", "contiguous"}, DenseAt(d, s, i, o, b), o > 0,
         Run(d, s, i).src + Run(d, s, i).len > d.stored
  PROVE  PastEnd(d, s)
<1> DEFINE L == Times(s.count, Outer(d, s), Len(d.shape) - Outer(d, s))
<1> DEFINE run == Run(d, s, i)
<1>1. DenseTurn(d, s, i, o, b)
  BY DenseTurnFacts
<1>2. RunIs(d, s, i, Len(d.shape)) /\ run.len = L /\ L \in Nat \ {0}
  BY <1>1 DEF DenseTurn
<1>3. PICK c \in Box(s) : Flat(d.shape, c) = run.src + L - 1
  BY <1>2 DEF RunIs
<1>4. run.src \in Nat
  BY <1>2 DEF RunIs
<1>5. d.stored \in Nat
  <2>1. d \in Datasets /\ d.layout # "chunked"
    BY DEF Reads
  <2> QED BY <2>1, DatasetsAssumption
<1>6. Flat(d.shape, c) >= d.stored
  <2> DEFINE x == run.src
  <2> DEFINE z == d.stored
  <2> DEFINE y == Flat(d.shape, c)
  <2>1. x \in Nat /\ z \in Nat /\ y = x + L - 1 /\ x + L > z /\ L \in Nat
    BY <1>2, <1>3, <1>4, <1>5
  <2> HIDE DEF x, y, z, L
  <2>2. y >= z
    BY <2>1
  <2> QED BY <2>2 DEF y, z
<1> QED BY <1>6 DEF PastEnd

(* At the end of the loop everything has been copied.                      *)
LEMMA DenseEnd ==
  ASSUME NEW d, NEW s, NEW i, NEW b, Reads(d, s), Fits(d, s),
         d.layout \in {"compact", "contiguous"}, DenseAt(d, s, i, 0, b)
  PROVE  Values(d, s, b)
<1> SUFFICES ASSUME NEW c \in Box(s) PROVE b[Place(s, c)] = <<"data", 0, Flat(d.shape, c)>>
  BY DEF Values, Wanted
<1> DEFINE n == Len(d.shape)
<1>1. PlaceIn(d, s, c, n)
  BY PlaceFacts
<1>2. SlabIn(d, s, n)
  BY SlabFacts
<1>3. element_count(s.count) # 0
  <2>1. Positives(s.count, n) /\ n = Len(s.count) /\ IsShape(s.count)
    BY <1>1, <1>2 DEF PlaceIn, SlabIn
  <2> QED BY <2>1, CountExact
<1>4. DenseRead(d, s) /\ Sized(d, s, n)
  BY <1>3, SizedFacts DEF DenseRead
<1> DEFINE m == Outer(d, s)
<1> DEFINE P == Times(s.count, 0, m)
<1> DEFINE L == Times(s.count, m, n - m)
<1>5. Turns(d, s, P, L)
  BY <1>4, TurnsFacts
<1>6. P \in Nat /\ L \in Nat /\ P * L = Times(s.count, 0, n)
  BY <1>4, <1>5 DEF Turns, Sized
<1>7. Place(s, c) \in 0 .. P * L - 1
  BY <1>1, <1>6 DEF PlaceIn
<1>8. Place(s, c) < (P - 0) * L => b[Place(s, c)] = <<"data", 0, Flat(d.shape, c)>>
  BY <1>3 DEF DenseAt
<1> HIDE DEF n, m, P, L
<1>9. P - 0 = P /\ P * L \in Nat
  BY <1>6
<1>10. Place(s, c) < (P - 0) * L
  <2> DEFINE x == P * L
  <2>1. x \in Nat /\ Place(s, c) \in 0 .. x - 1
    BY <1>7, <1>9
  <2> HIDE DEF x
  <2>2. Place(s, c) < x
    BY <2>1
  <2> QED BY <1>9, <2>2 DEF x
<1> QED BY <1>8, <1>10

LEMMA DenseStep ==
  ASSUME NEW d, NEW s, NEW i, NEW o, NEW b, Reads(d, s), Fits(d, s),
         d.layout \in {"compact", "contiguous"}, DenseAt(d, s, i, o, b), o > 0
  PROVE  DenseAt(d, s, Turn(i, s.count), o - 1, Pasted(b, 0, Run(d, s, i)))
<1> DEFINE n == Len(d.shape)
<1> DEFINE m == Outer(d, s)
<1> DEFINE P == Times(s.count, 0, m)
<1> DEFINE L == Times(s.count, m, n - m)
<1> DEFINE run == Run(d, s, i)
<1> DEFINE x == run.dst
<1> DEFINE j == Turn(i, s.count)
<1> DEFINE w == Pasted(b, 0, run)
<1>1. DenseRead(d, s) /\ DenseTurn(d, s, i, o, b)
  BY DenseTurnFacts
<1>2. element_count(s.count) # 0
  BY <1>1 DEF DenseRead
<1>3. /\ RunIs(d, s, i, n) /\ Turns(d, s, P, L) /\ o \in 1 .. P
      /\ Row(s.count, i, m) = P - o
      /\ x = (P - o) * L /\ run.len = L /\ x \in Nat /\ L \in Nat \ {0}
      /\ (P - (o - 1)) * L = x + L
  BY <1>1 DEF DenseTurn
<1>4. /\ DOMAIN b = 0 .. element_count(s.count) - 1
      /\ DOMAIN i = 1 .. m /\ Within(s.count, i, m)
      /\ \A c \in Box(s) :
           Place(s, c) < (P - o) * L => b[Place(s, c)] = <<"data", 0, Flat(d.shape, c)>>
      /\ \A e \in DOMAIN b : e >= (P - o) * L => b[e] \in Bases
  BY <1>2 DEF DenseAt
<1>5. P \in Nat \ {0} /\ m \in Nat /\ element_count(s.count) = Times(s.count, 0, n)
  <2>1. Sized(d, s, n)
    BY <1>1, <1>2, SizedFacts DEF DenseRead
  <2> QED BY <1>3, <2>1 DEF Turns, Sized
<1>6. /\ DOMAIN w = DOMAIN b
      /\ \A e \in DOMAIN b : e \in x .. x + run.len - 1 => w[e] = <<"data", 0, run.src + e - x>>
      /\ \A e \in DOMAIN b : e \notin x .. x + run.len - 1 => w[e] = b[e]
  BY DEF Pasted
<1>7. /\ \A c \in Box(s) : AtTurn(s, i, m, c) => Flat(d.shape, c) = run.src + (Place(s, c) - x)
      /\ \A c \in Box(s) : Place(s, c) \in x .. x + L - 1 => AtTurn(s, i, m, c)
      /\ run.src \in Nat
  BY <1>3 DEF RunIs
<1>8. \A c \in Box(s) : Place(s, c) \in DOMAIN b /\ Place(s, c) \in Nat
  <2> TAKE c \in Box(s)
  <2>1. PlaceIn(d, s, c, n)
    BY PlaceFacts
  <2>2. Place(s, c) \in 0 .. Times(s.count, 0, n) - 1
    BY <2>1 DEF PlaceIn
  <2> QED BY <1>4, <1>5, <2>2
<1>9. /\ DOMAIN j = 1 .. m /\ Within(s.count, j, m)
      /\ Row(s.count, i, m) + 1 < P => Row(s.count, j, m) = Row(s.count, i, m) + 1
  BY <1>4, <1>5, TurnFacts
<1> DEFINE src == run.src
<1>s. src \in Nat /\ src = run.src
  BY <1>7
<1> HIDE DEF n, m, P, L, x, j, w, run
<1>10. o - 1 \in 0 .. P /\ o - 1 \in Nat
  BY <1>3, <1>5
<1>11. o - 1 > 0 => Row(s.count, j, m) = P - (o - 1)
  BY <1>3, <1>5, <1>9
<1>12. \A e \in DOMAIN w : e >= (P - (o - 1)) * L => w[e] \in Bases
  <2> SUFFICES ASSUME NEW e \in DOMAIN w, e >= x + L PROVE w[e] \in Bases
    BY <1>3
  <2>1. e \in DOMAIN b /\ e \in Int
    BY <1>4, <1>6
  <2>2. e \notin x .. x + L - 1 /\ e >= x
    BY <1>3, <2>1
  <2> QED BY <1>3, <1>4, <1>6, <2>1, <2>2
<1>13. ASSUME NEW c \in Box(s), Place(s, c) < (P - (o - 1)) * L
       PROVE  w[Place(s, c)] = <<"data", 0, Flat(d.shape, c)>>
  <2> DEFINE e == Place(s, c)
  <2>1. e \in DOMAIN b /\ e \in Nat
    BY <1>8
  <2>2. e < x + L
    BY <1>3, <1>13
  <2>3. CASE e < x
    <3>1. b[e] = <<"data", 0, Flat(d.shape, c)>>
      BY <1>3, <1>4, <2>3
    <3>2. e \notin x .. x + L - 1
      <4> HIDE DEF e
      <4> QED BY <1>3, <2>1, <2>3
    <3> QED BY <1>3, <1>6, <2>1, <3>1, <3>2
  <2>4. CASE ~(e < x)
    <3>1. e \in x .. x + L - 1
      <4> HIDE DEF e
      <4> QED BY <1>3, <2>1, <2>2, <2>4
    <3>2. AtTurn(s, i, m, c)
      BY <1>7, <3>1
    <3>3. Flat(d.shape, c) = src + (e - x)
      BY <1>7, <3>2
    <3>4. w[e] = <<"data", 0, src + e - x>>
      BY <1>3, <1>6, <2>1, <3>1
    <3> HIDE DEF e, src
    <3>5. src + e - x = src + (e - x)
      BY <1>3, <1>s, <2>1
    <3> QED BY <3>3, <3>4, <3>5 DEF e
  <2> QED BY <2>3, <2>4
<1> QED BY <1>2, <1>4, <1>6, <1>9, <1>10, <1>11, <1>12, <1>13 DEF DenseAt, n, m, P, L, j, w, run

--------------------------------------------------------------------------------
(* Reads of chunks.                                                        *)

Chunks(d, n) ==
  /\ n \in Nat \ {0} /\ n = Len(d.shape) /\ IsShape(d.chunk) /\ Len(d.chunk) = n
  /\ Positives(d.chunk, n) /\ DOMAIN d.shape = 1 .. n /\ IsShape(d.shape)
  /\ Len(d.chunks) \in Nat /\ DOMAIN d.chunks = 1 .. Len(d.chunks)
  /\ \A k \in 1 .. Len(d.chunks) : \A a \in 1 .. n : d.chunks[k].offset[a] \in Nat
LEMMA ChunksFacts ==
  ASSUME NEW d \in Datasets, d.layout = "chunked"
  PROVE  Chunks(d, Len(d.shape))
<1> DEFINE n == Len(d.shape)
<1>1. /\ d.shape \in Seq(0 .. Width - 1) /\ d.shape # <<>>
      /\ d.chunk \in [DOMAIN d.shape -> 1 .. Width - 1]
      /\ d.chunks \in Seq([offset : [DOMAIN d.shape -> 0 .. Width - 1], size : Nat])
  BY DatasetsAssumption
<1>2. n \in Nat \ {0} /\ DOMAIN d.shape = 1 .. n
  BY <1>1, EmptySeq
<1>3. IsShape(d.shape)
  BY <1>1, <1>2, WidthFacts DEF IsShape
<1> HIDE DEF n
<1>4. d.chunk \in [1 .. n -> 1 .. Width - 1]
  BY <1>1, <1>2
<1>5. d.chunk \in [1 .. n -> Nat]
  BY <1>4, WidthFacts
<1>6. IsShape(d.chunk) /\ Len(d.chunk) = n
  <2>1. d.chunk \in Seq(Nat)
    BY <1>2, <1>5
  <2>2. DOMAIN d.chunk = 1 .. n
    BY <1>5
  <2> QED BY <1>2, <2>1, <2>2 DEF IsShape
<1>7. Positives(d.chunk, n)
  <2>1. \A a \in 1 .. n : d.chunk[a] \in 1 .. Width - 1
    BY <1>4
  <2> QED BY <2>1, WidthFacts DEF Positives
<1> DEFINE R == [offset : [1 .. n -> 0 .. Width - 1], size : Nat]
<1>8. d.chunks \in Seq(R)
  BY <1>1, <1>2
<1>9. Len(d.chunks) \in Nat /\ DOMAIN d.chunks = 1 .. Len(d.chunks)
  BY <1>8
<1>10. \A k \in 1 .. Len(d.chunks) : d.chunks[k] \in R
  <2> HIDE DEF R
  <2> QED BY <1>8, <1>9
<1>11. ASSUME NEW k \in 1 .. Len(d.chunks), NEW a \in 1 .. n PROVE d.chunks[k].offset[a] \in Nat
  <2>1. d.chunks[k].offset \in [1 .. n -> 0 .. Width - 1]
    BY <1>10
  <2>2. d.chunks[k].offset[a] \in 0 .. Width - 1
    BY <2>1
  <2> QED BY <2>2, WidthFacts
<1> QED BY <1>2, <1>3, <1>6, <1>7, <1>9, <1>11 DEF Chunks, n

(* The box of a chunk on one axis: b and w the selection, z and g the      *)
(* chunk.                                                                  *)
LEMMA Overlap ==
  ASSUME NEW b \in Nat, NEW w \in Nat, NEW z \in Nat, NEW g \in Nat \ {0}, b + w <= MaxU64
  PROVE  LET l == Larger(z, b)
             h == Lesser(SatAdd(z, g), b + w)
         IN  /\ l \in Nat /\ h \in Nat
             /\ b <= l /\ z <= l /\ h <= b + w /\ h <= z + g
             /\ \A x \in Nat : b <= x /\ x < b + w /\ z <= x /\ x < z + g <=> l <= x /\ x < h
<1> DEFINE l == Larger(z, b)
<1> DEFINE t == SatAdd(z, g)
<1> DEFINE h == Lesser(t, b + w)
<1>1. l \in Nat /\ b <= l /\ z <= l /\ (l = b \/ l = z)
  BY DEF Larger
<1>2. t \in Nat /\ t <= z + g /\ (t = z + g \/ t = MaxU64)
  BY WidthFacts DEF SatAdd, Lesser
<1> HIDE DEF t
<1>3. h \in Nat /\ h <= t /\ h <= b + w /\ (h = t \/ h = b + w)
  BY <1>2 DEF Lesser
<1> HIDE DEF l, h
<1>4. \A x \in Nat : b <= x /\ x < b + w /\ z <= x /\ x < z + g <=> l <= x /\ x < h
  BY <1>1, <1>2, <1>3, WidthFacts
<1>5. h <= z + g
  BY <1>2, <1>3
<1> QED BY <1>1, <1>3, <1>4, <1>5 DEF l, t, h

(* The box of record k.                                                    *)
BoxIn(d, s, k, n) ==
  LET l == Lo(d, s, k)
      h == Hi(d, s, k)
  IN  /\ l \in [1 .. n -> Nat] /\ h \in [1 .. n -> Nat]
      /\ \A a \in 1 .. n :
           /\ l[a] \in Nat /\ h[a] \in Nat /\ s.start[a] <= l[a] /\ d.chunks[k].offset[a] <= l[a]
           /\ h[a] <= s.start[a] + s.count[a] /\ h[a] <= d.chunks[k].offset[a] + d.chunk[a]
      /\ \A c \in [1 .. n -> Nat] :
           c \in Box(s) /\ HoldsAt(d, k, c) <=> \A a \in 1 .. n : l[a] <= c[a] /\ c[a] < h[a]
LEMMA BoxFacts ==
  ASSUME NEW d, NEW s, Reads(d, s), d.layout = "chunked", NEW k \in 1 .. Len(d.chunks)
  PROVE  BoxIn(d, s, k, Len(d.shape))
<1> DEFINE n == Len(d.shape)
<1> DEFINE l == Lo(d, s, k)
<1> DEFINE h == Hi(d, s, k)
<1>1. SlabIn(d, s, n) /\ Chunks(d, n)
  BY SlabFacts, ChunksFacts DEF Reads
<1>2. /\ \A a \in 1 .. n : l[a] = Larger(d.chunks[k].offset[a], s.start[a])
      /\ \A a \in 1 .. n : h[a] = Lesser(SatAdd(d.chunks[k].offset[a], d.chunk[a]), s.start[a] + s.count[a])
  BY DEF Lo, Hi
<1>3. n \in Nat /\ Len(s.start) = n /\ \A a \in 1 .. n : s.start[a] \in Nat /\ s.count[a] \in Nat
  BY <1>1 DEF SlabIn
<1>l. l = [a \in 1 .. n |-> l[a]] /\ h = [a \in 1 .. n |-> h[a]]
  BY DEF Lo, Hi
<1>h. \A c : HoldsAt(d, k, c) <=> \A a \in 1 .. n : d.chunks[k].offset[a] <= c[a] /\ c[a] < d.chunks[k].offset[a] + d.chunk[a]
  BY DEF HoldsAt
<1> HIDE DEF n, l, h
<1>4. ASSUME NEW a \in 1 .. n
      PROVE  /\ l[a] \in Nat /\ h[a] \in Nat /\ s.start[a] <= l[a] /\ d.chunks[k].offset[a] <= l[a]
             /\ h[a] <= s.start[a] + s.count[a] /\ h[a] <= d.chunks[k].offset[a] + d.chunk[a]
             /\ \A x \in Nat : /\ s.start[a] <= x /\ x < s.start[a] + s.count[a]
                               /\ d.chunks[k].offset[a] <= x /\ x < d.chunks[k].offset[a] + d.chunk[a]
                               <=> l[a] <= x /\ x < h[a]
  <2> DEFINE b == s.start[a]
  <2> DEFINE w == s.count[a]
  <2> DEFINE z == d.chunks[k].offset[a]
  <2> DEFINE g == d.chunk[a]
  <2>1. b \in Nat /\ w \in Nat
    BY <1>3
  <2>2. z \in Nat /\ g \in Nat \ {0}
    BY <1>1 DEF Chunks, Positives
  <2>3. b + w <= MaxU64
    <3>1. b + w <= d.shape[a] /\ d.shape[a] <= MaxU64 /\ d.shape[a] \in Nat
      BY <1>1 DEF SlabIn
    <3> HIDE DEF b, w
    <3> QED BY <2>1, <3>1, WidthFacts
  <2>4. l[a] = Larger(z, b) /\ h[a] = Lesser(SatAdd(z, g), b + w)
    BY <1>2
  <2> HIDE DEF b, w, z, g
  <2>5. LET ll == Larger(z, b)
             hh == Lesser(SatAdd(z, g), b + w)
         IN  /\ ll \in Nat /\ hh \in Nat
             /\ b <= ll /\ z <= ll /\ hh <= b + w /\ hh <= z + g
             /\ \A x \in Nat : b <= x /\ x < b + w /\ z <= x /\ x < z + g <=> ll <= x /\ x < hh
    BY <2>1, <2>2, <2>3, Overlap
  <2>6. /\ l[a] \in Nat /\ h[a] \in Nat
        /\ b <= l[a] /\ z <= l[a] /\ h[a] <= b + w /\ h[a] <= z + g
        /\ \A x \in Nat : b <= x /\ x < b + w /\ z <= x /\ x < z + g <=> l[a] <= x /\ x < h[a]
    BY <2>4, <2>5
  <2> QED BY <2>6 DEF b, w, z, g
<1>5. l \in [1 .. n -> Nat] /\ h \in [1 .. n -> Nat]
  BY <1>4, <1>l
<1>6. ASSUME NEW c \in [1 .. n -> Nat]
      PROVE  c \in Box(s) /\ HoldsAt(d, k, c) <=> \A a \in 1 .. n : l[a] <= c[a] /\ c[a] < h[a]
  <2>1. c \in Box(s) <=> \A a \in 1 .. n : s.start[a] <= c[a] /\ c[a] < s.start[a] + s.count[a]
    BY <1>3, BoxIs
  <2>2. ASSUME NEW a \in 1 .. n
        PROVE  /\ s.start[a] <= c[a] /\ c[a] < s.start[a] + s.count[a]
               /\ d.chunks[k].offset[a] <= c[a] /\ c[a] < d.chunks[k].offset[a] + d.chunk[a]
               <=> l[a] <= c[a] /\ c[a] < h[a]
    <3>1. c[a] \in Nat
      OBVIOUS
    <3> QED BY <1>4, <3>1
  <2> QED BY <1>h, <2>1, <2>2
<1> QED BY <1>4, <1>5, <1>6 DEF BoxIn, n, l, h

(* Two places that differ on the last axis.                                *)
LEMMA RowEnd ==
  ASSUME NEW n \in Nat \ {0}, NEW s, NEW c, NEW r, Numbers(s, n), Numbers(c, n), Numbers(r, n),
         \A a \in 1 .. n - 1 : r[a] = c[a]
  PROVE  Row(s, r, n) = Row(s, c, n) + (r[n] - c[n])
<1>1. RowStep(s, c, n) /\ RowStep(s, r, n)
  BY RowSteps
<1>2. n \in 1 .. n /\ n - 1 \in 0 .. n /\ n - 1 \in Nat
  OBVIOUS
<1>3. Row(s, c, n) = Row(s, c, n - 1) * s[n] + c[n] /\ Row(s, r, n) = Row(s, r, n - 1) * s[n] + r[n]
  BY <1>1, <1>2 DEF RowStep
<1>4. Row(s, c, n - 1) = Row(s, r, n - 1)
  <2>1. Numbers(s, n - 1) /\ Numbers(c, n - 1) /\ Numbers(r, n - 1)
    BY <1>2, NumbersFacts
  <2> QED BY <1>2, <2>1, RowSame
<1>5. Row(s, c, n - 1) \in Int /\ s[n] \in Int /\ c[n] \in Int /\ r[n] \in Int
  BY <1>1, <1>2 DEF RowStep, Numbers
<1> DEFINE x == Row(s, c, n - 1) * s[n]
<1>6. x \in Int
  BY <1>5
<1> HIDE DEF x
<1>7. Row(s, c, n) = x + c[n] /\ Row(s, r, n) = x + r[n]
  BY <1>3, <1>4 DEF x
<1> QED BY <1>5, <1>6, <1>7

(* An offset over all the axes is the number of the place.                 *)
LEMMA DotAll ==
  ASSUME NEW s, IsShape(s), Positives(s, Len(s)), Times(s, 0, Len(s)) < Width,
         NEW c, Within(s, c, Len(s))
  PROVE  Dot(c, strides(s), Len(s)) = Row(s, c, Len(s)) /\ Row(s, c, Len(s)) \in Nat
<1> DEFINE n == Len(s)
<1>1. n \in Nat /\ Numbers(s, n)
  BY ShapeFacts
<1>0. IsShape(s) /\ Positives(s, n) /\ Times(s, 0, n) < Width /\ Within(s, c, n) /\ n = Len(s)
  OBVIOUS
<1> HIDE DEF n
<1>2. n \in 0 .. n /\ n - n = 0 /\ n + 0 = n /\ 0 \in Nat
  BY <1>1
<1>3. Dot(c, strides(s), n) = Row(s, c, n) * Times(s, n, n - n) /\ Dot(c, strides(s), n) \in Nat
  BY <1>0, <1>2, DotIs
<1>4. Times(s, n, 0) = 1
  <2>1. TimesStep(s, n, 0)
    BY <1>1, <1>2, TimesSteps
  <2> QED BY <2>1 DEF TimesStep
<1>5. Row(s, c, n) \in Int
  <2>1. Numbers(c, n)
    BY <1>0, <1>1, WithinFacts
  <2>2. RowStep(s, c, n)
    BY <1>1, <2>1, RowSteps
  <2> QED BY <1>2, <2>2 DEF RowStep
<1>6. Dot(c, strides(s), n) = Row(s, c, n) * 1
  BY <1>2, <1>3, <1>4
<1>7. Row(s, c, n) * 1 = Row(s, c, n)
  BY <1>5
<1> QED BY <1>3, <1>6, <1>7 DEF n

(* No two elements of a selection share a place.                           *)
LEMMA PlaceSame ==
  ASSUME NEW d, NEW s, Reads(d, s), NEW c \in Box(s), NEW e \in Box(s), Place(s, c) = Place(s, e)
  PROVE  c = e
<1> DEFINE n == Len(d.shape)
<1> DEFINE r == Minus(c, s.start, n)
<1> DEFINE q == Minus(e, s.start, n)
<1>1. PlaceIn(d, s, c, n) /\ PlaceIn(d, s, e, n) /\ SlabIn(d, s, n)
  BY PlaceFacts, SlabFacts
<1>2. /\ Within(s.count, r, n) /\ \A a \in 1 .. n : c[a] = s.start[a] + r[a]
      /\ Place(s, c) = Row(s.count, r, n) /\ c \in [1 .. n -> Nat]
  BY <1>1 DEF PlaceIn
<1>3. /\ Within(s.count, q, n) /\ \A a \in 1 .. n : e[a] = s.start[a] + q[a]
      /\ Place(s, e) = Row(s.count, q, n) /\ e \in [1 .. n -> Nat]
  BY <1>1 DEF PlaceIn
<1>4. n \in Nat
  BY <1>1 DEF SlabIn
<1> HIDE DEF n, r, q
<1>5. \A a \in 1 .. n : r[a] = q[a]
  <2>1. Row(s.count, r, n) = Row(s.count, q, n)
    BY <1>2, <1>3
  <2>2. Within(s.count, r, n) /\ Within(s.count, q, n)
    BY <1>2, <1>3
  <2> QED BY <1>4, <2>1, <2>2, RowUnique
<1>6. \A a \in 1 .. n : c[a] = e[a]
  BY <1>2, <1>3, <1>5
<1>7. c \in [1 .. n -> Nat] /\ e \in [1 .. n -> Nat]
  BY <1>2, <1>3
<1>8. c = [a \in 1 .. n |-> c[a]] /\ e = [a \in 1 .. n |-> e[a]]
  BY <1>7
<1>9. [a \in 1 .. n |-> c[a]] = [a \in 1 .. n |-> e[a]]
  BY <1>6
<1> QED BY <1>8, <1>9

(* A row of a chunk.                                                       *)
RowRun(d, s, k, l, h, i) ==
  LET n     == Len(d.shape)
      coord == Plus(l, i, n - 1) \o <<l[n]>>
  IN  [src |-> Dot(Minus(coord, d.chunks[k].offset, n), strides(d.chunk), n),
       dst |-> Dot(Minus(coord, s.start, n), strides(s.count), n),
       len |-> h[n] - l[n]]
ChunkRead(d, s, k) ==
  /\ Reads(d, s) /\ Fits(d, s) /\ d.layout = "chunked"
  /\ k \in 1 .. Len(d.chunks) /\ Cuts(d, s, k)

(* The dimensions of what is read from a chunk, and of the chunk.          *)
LEMMA ChunkSizes ==
  ASSUME NEW d, NEW s, NEW k, ChunkRead(d, s, k)
  PROVE  LET n == Len(d.shape)
             W == Minus(Hi(d, s, k), Lo(d, s, k), n - 1)
         IN  /\ Sized(d, s, n)
             /\ Times(d.chunk, 0, n) < MaxU64 /\ element_count(d.chunk) = Times(d.chunk, 0, n)
             /\ Times(d.chunk, 0, n) \in Nat \ {0}
             /\ W \in [1 .. n - 1 -> Nat \ {0}]
             /\ \A a \in 1 .. n - 1 : W[a] = Hi(d, s, k)[a] - Lo(d, s, k)[a] /\ W[a] <= s.count[a]
<1> DEFINE n == Len(d.shape)
<1> DEFINE l == Lo(d, s, k)
<1> DEFINE h == Hi(d, s, k)
<1> DEFINE W == Minus(h, l, n - 1)
<1>0. /\ Reads(d, s) /\ Fits(d, s) /\ d.layout = "chunked" /\ k \in 1 .. Len(d.chunks)
      /\ \A a \in 1 .. n : l[a] < h[a]
  BY DEF ChunkRead, Cuts
<1>1. SlabIn(d, s, n) /\ Chunks(d, n) /\ BoxIn(d, s, k, n)
  BY <1>0, SlabFacts, ChunksFacts, BoxFacts DEF Reads
<1>2. \A a \in 1 .. n : /\ l[a] \in Nat /\ h[a] \in Nat /\ s.start[a] <= l[a]
                        /\ h[a] <= s.start[a] + s.count[a]
  BY <1>1 DEF BoxIn
<1>3. n \in Nat \ {0} /\ Positives(d.chunk, n) /\ IsShape(d.chunk) /\ Len(d.chunk) = n
  BY <1>1 DEF Chunks
<1>4. IsShape(s.count) /\ Len(s.count) = n /\ \A a \in 1 .. n : s.start[a] \in Nat /\ s.count[a] \in Nat
  BY <1>1 DEF SlabIn
<1>5. W = [a \in 1 .. n - 1 |-> h[a] - l[a]]
  BY DEF Minus
<1> HIDE DEF n, l, h, W
<1>6. ASSUME NEW a \in 1 .. n
      PROVE  h[a] - l[a] \in Nat \ {0} /\ h[a] - l[a] <= s.count[a] /\ s.count[a] # 0
  <2> DEFINE x == h[a]
  <2> DEFINE y == l[a]
  <2> DEFINE b == s.start[a]
  <2> DEFINE w == s.count[a]
  <2>1. x \in Nat /\ y \in Nat /\ b \in Nat /\ w \in Nat /\ y < x /\ b <= y /\ x <= b + w
    BY <1>0, <1>2, <1>4
  <2> HIDE DEF x, y, b, w
  <2>2. x - y \in Nat \ {0} /\ x - y <= w /\ w # 0
    BY <2>1
  <2> QED BY <2>2 DEF x, y, w
<1>7. Positives(s.count, n)
  BY <1>4, <1>6 DEF Positives
<1>8. element_count(s.count) # 0
  BY <1>4, <1>7, CountExact
<1>9. Sized(d, s, n)
  BY <1>0, <1>8, SizedFacts DEF n
<1>10. element_count(d.chunk) < MaxU64
  BY <1>0 DEF Fits
<1>11. element_count(d.chunk) = Lesser(Times(d.chunk, 0, n), MaxU64) /\ Times(d.chunk, 0, n) \in Nat \ {0}
  BY <1>3, CountExact
<1>12. Times(d.chunk, 0, n) < MaxU64 /\ element_count(d.chunk) = Times(d.chunk, 0, n)
  BY <1>10, <1>11, WidthFacts DEF Lesser
<1>13. \A a \in 1 .. n - 1 : a \in 1 .. n
  BY <1>3
<1>14. \A a \in 1 .. n - 1 : W[a] = h[a] - l[a]
  BY <1>5
<1>15. W \in [1 .. n - 1 -> Nat \ {0}]
  BY <1>5, <1>6, <1>13
<1> QED BY <1>6, <1>9, <1>11, <1>12, <1>13, <1>14, <1>15 DEF n, l, h, W

(* An element of the selection in the chunk: its place in each.            *)
InChunk(d, k, c) == Flat(d.chunk, Minus(c, d.chunks[k].offset, Len(d.shape)))
PointIn(d, s, k, c, n) ==
  LET r == Minus(c, d.chunks[k].offset, n)
  IN  /\ Within(d.chunk, r, n) /\ InChunk(d, k, c) = Row(d.chunk, r, n)
      /\ InChunk(d, k, c) \in 0 .. Times(d.chunk, 0, n) - 1
      /\ c \in [1 .. n -> Nat]
      /\ \A a \in 1 .. n : Lo(d, s, k)[a] <= c[a] /\ c[a] < Hi(d, s, k)[a]
      /\ \A a \in 1 .. n : r[a] = c[a] - d.chunks[k].offset[a] /\ d.chunks[k].offset[a] \in Nat
LEMMA PointFacts ==
  ASSUME NEW d, NEW s, NEW k, ChunkRead(d, s, k), NEW c \in Box(s), HoldsAt(d, k, c)
  PROVE  PointIn(d, s, k, c, Len(d.shape))
<1> DEFINE n == Len(d.shape)
<1> DEFINE r == Minus(c, d.chunks[k].offset, n)
<1>0. Reads(d, s) /\ d.layout = "chunked" /\ k \in 1 .. Len(d.chunks)
  BY DEF ChunkRead
<1>1. SlabIn(d, s, n) /\ Chunks(d, n) /\ BoxIn(d, s, k, n) /\ PlaceIn(d, s, c, n)
  BY <1>0, SlabFacts, ChunksFacts, BoxFacts, PlaceFacts DEF Reads
<1>2. c \in [1 .. n -> Nat]
  BY <1>1 DEF PlaceIn
<1>3. \A a \in 1 .. n : Lo(d, s, k)[a] <= c[a] /\ c[a] < Hi(d, s, k)[a]
  BY <1>1, <1>2 DEF BoxIn
<1>4. \A a \in 1 .. n : r[a] = c[a] - d.chunks[k].offset[a]
  BY DEF Minus
<1>5. InChunk(d, k, c) = Row(d.chunk, r, Len(d.chunk))
  BY FlatIsRow DEF InChunk
<1>6. n \in Nat /\ Len(d.chunk) = n
  BY <1>1 DEF Chunks
<1>h. \A a \in 1 .. n : d.chunks[k].offset[a] <= c[a] /\ c[a] < d.chunks[k].offset[a] + d.chunk[a]
  BY DEF HoldsAt
<1> HIDE DEF n, r
<1>7. ASSUME NEW a \in 1 .. n
      PROVE  d.chunk[a] \in Nat /\ r[a] \in 0 .. d.chunk[a] - 1 /\ d.chunks[k].offset[a] \in Nat
  <2> DEFINE z == d.chunks[k].offset[a]
  <2> DEFINE g == d.chunk[a]
  <2> DEFINE x == c[a]
  <2>1. z \in Nat /\ g \in Nat
    BY <1>0, <1>1 DEF Chunks, Positives
  <2>2. x \in Nat /\ z <= x /\ x < z + g /\ r[a] = x - z
    BY <1>h, <1>2, <1>4
  <2> HIDE DEF z, g, x
  <2>3. r[a] \in 0 .. g - 1
    BY <2>1, <2>2
  <2> QED BY <2>1, <2>3 DEF z, g
<1>8. Within(d.chunk, r, n)
  BY <1>7 DEF Within
<1>9. Row(d.chunk, r, n) \in 0 .. Times(d.chunk, 0, n) - 1
  <2>1. n \in 0 .. n
    BY <1>6
  <2> QED BY <1>6, <1>8, <2>1, RowBound
<1> QED BY <1>2, <1>3, <1>4, <1>5, <1>6, <1>7, <1>8, <1>9 DEF PointIn, n, r

(* Two of them in one row.                                                 *)
LEMMA RowPoints ==
  ASSUME NEW d, NEW s, NEW k, ChunkRead(d, s, k), NEW c \in Box(s), HoldsAt(d, k, c),
         NEW e \in Box(s), HoldsAt(d, k, e), \A a \in 1 .. Len(d.shape) - 1 : e[a] = c[a]
  PROVE  /\ Place(s, e) = Place(s, c) + (e[Len(d.shape)] - c[Len(d.shape)])
         /\ InChunk(d, k, e) = InChunk(d, k, c) + (e[Len(d.shape)] - c[Len(d.shape)])
         /\ e[Len(d.shape)] \in Nat /\ c[Len(d.shape)] \in Nat
<1> DEFINE n == Len(d.shape)
<1>0. Reads(d, s) /\ d.layout = "chunked" /\ k \in 1 .. Len(d.chunks)
  BY DEF ChunkRead
<1>1. /\ SlabIn(d, s, n) /\ Chunks(d, n) /\ PlaceIn(d, s, c, n) /\ PlaceIn(d, s, e, n)
      /\ PointIn(d, s, k, c, n) /\ PointIn(d, s, k, e, n)
  BY <1>0, SlabFacts, ChunksFacts, PlaceFacts, PointFacts DEF Reads
<1>2. n \in Nat \ {0} /\ n \in 1 .. n /\ \A a \in 1 .. n - 1 : a \in 1 .. n
  BY <1>1 DEF Chunks
<1>e. \A a \in 1 .. n - 1 : e[a] = c[a]
  OBVIOUS
<1>3. \A a \in 1 .. n : e[a] \in Nat /\ c[a] \in Nat /\ s.start[a] \in Nat
  BY <1>1 DEF PlaceIn, SlabIn
<1> DEFINE r == Minus(c, s.start, n)
<1> DEFINE q == Minus(e, s.start, n)
<1>4. /\ Within(s.count, r, n) /\ Within(s.count, q, n)
      /\ \A a \in 1 .. n : r[a] = c[a] - s.start[a] /\ q[a] = e[a] - s.start[a]
      /\ Place(s, c) = Row(s.count, r, n) /\ Place(s, e) = Row(s.count, q, n)
  BY <1>1 DEF PlaceIn
<1> DEFINE x == Minus(c, d.chunks[k].offset, n)
<1> DEFINE y == Minus(e, d.chunks[k].offset, n)
<1>5. /\ Within(d.chunk, x, n) /\ Within(d.chunk, y, n)
      /\ \A a \in 1 .. n : x[a] = c[a] - d.chunks[k].offset[a] /\ y[a] = e[a] - d.chunks[k].offset[a]
      /\ \A a \in 1 .. n : d.chunks[k].offset[a] \in Nat
      /\ InChunk(d, k, c) = Row(d.chunk, x, n) /\ InChunk(d, k, e) = Row(d.chunk, y, n)
  BY <1>1 DEF PointIn
<1> HIDE DEF n, r, q, x, y
<1>6. \A a \in 1 .. n - 1 : q[a] = r[a] /\ y[a] = x[a]
  BY <1>2, <1>e, <1>4, <1>5
<1>7. q[n] - r[n] = e[n] - c[n]
  BY <1>2, <1>3, <1>4
<1>8. y[n] - x[n] = e[n] - c[n]
  BY <1>2, <1>3, <1>5
<1>9. Row(s.count, q, n) = Row(s.count, r, n) + (q[n] - r[n])
  <2>1. Numbers(s.count, n) /\ Numbers(r, n) /\ Numbers(q, n)
    BY <1>2, <1>4, WithinFacts
  <2> QED BY <1>2, <1>6, <2>1, RowEnd
<1>10. Row(d.chunk, y, n) = Row(d.chunk, x, n) + (y[n] - x[n])
  <2>1. Numbers(d.chunk, n) /\ Numbers(x, n) /\ Numbers(y, n)
    BY <1>2, <1>5, WithinFacts
  <2> QED BY <1>2, <1>6, <2>1, RowEnd
<1> QED BY <1>2, <1>3, <1>4, <1>5, <1>7, <1>8, <1>9, <1>10 DEF n

(* The run of a turn of the loop over a chunk's rows.                      *)
RowIs(d, s, k, i) ==
  LET m   == Len(d.shape) - 1
      run == RowRun(d, s, k, Lo(d, s, k), Hi(d, s, k), i)
  IN  /\ run.src \in Nat /\ run.dst \in Nat /\ run.len \in Nat \ {0}
      /\ run.src + run.len <= element_count(d.chunk)
      /\ \A e \in run.dst .. run.dst + run.len - 1 : \E c \in Box(s) : Place(s, c) = e
      /\ \A c \in Box(s) :
           Place(s, c) \in run.dst .. run.dst + run.len - 1
             <=> /\ HoldsAt(d, k, c)
                 /\ RowOf(d, s, k, c) = Row(Minus(Hi(d, s, k), Lo(d, s, k), m), i, m)
      /\ \A c \in Box(s) :
           Place(s, c) \in run.dst .. run.dst + run.len - 1 =>
             InChunk(d, k, c) = run.src + Place(s, c) - run.dst

LEMMA Joined ==
  ASSUME NEW p \in Seq(Nat), NEW x \in Nat
  PROVE  /\ p \o <<x>> \in Seq(Nat) /\ Len(p \o <<x>>) = Len(p) + 1
         /\ \A a \in 1 .. Len(p) : (p \o <<x>>)[a] = p[a]
         /\ (p \o <<x>>)[Len(p) + 1] = x
<1> DEFINE y == <<x>>
<1>1. y \in Seq(Nat) /\ Len(y) = 1 /\ y[1] = x /\ Len(p) \in Nat
  OBVIOUS
<1> HIDE DEF y
<1>2. /\ p \o y \in Seq(Nat) /\ Len(p \o y) = Len(p) + 1
      /\ \A a \in 1 .. Len(p) + 1 : (p \o y)[a] = IF a <= Len(p) THEN p[a] ELSE y[a - Len(p)]
  <2>1. y \in Seq(Nat)
    BY <1>1
  <2>2. p \o y \in Seq(Nat)
    BY <2>1, ConcatProperties
  <2>3. Len(p \o y) = Len(p) + Len(y)
    BY <2>1, ConcatProperties
  <2>4. \A a \in 1 .. Len(p) + Len(y) : (p \o y)[a] = IF a <= Len(p) THEN p[a] ELSE y[a - Len(p)]
    BY <2>1, ConcatProperties, Zenon
  <2> QED BY <1>1, <2>2, <2>3, <2>4
<1>3. \A a \in 1 .. Len(p) : a \in 1 .. Len(p) + 1 /\ a <= Len(p)
  BY <1>1
<1>4. /\ Len(p) + 1 \in 1 .. Len(p) + 1 /\ ~(Len(p) + 1 <= Len(p)) /\ (Len(p) + 1) - Len(p) = 1
  BY <1>1
<1> QED BY <1>1, <1>2, <1>3, <1>4 DEF y

LEMMA RowFacts ==
  ASSUME NEW d, NEW s, NEW k, ChunkRead(d, s, k), NEW i,
         Within(Minus(Hi(d, s, k), Lo(d, s, k), Len(d.shape) - 1), i, Len(d.shape) - 1)
  PROVE  RowIs(d, s, k, i)
<1> DEFINE n == Len(d.shape)
<1> DEFINE m == n - 1
<1> DEFINE l == Lo(d, s, k)
<1> DEFINE h == Hi(d, s, k)
<1> DEFINE W == Minus(h, l, m)
<1> DEFINE run == RowRun(d, s, k, l, h, i)
<1> DEFINE p == Plus(l, i, m)
<1> DEFINE coord == p \o <<l[n]>>
<1>0. Reads(d, s) /\ d.layout = "chunked" /\ k \in 1 .. Len(d.chunks) /\ \A a \in 1 .. n : l[a] < h[a]
  BY DEF ChunkRead, Cuts
<1>1. SlabIn(d, s, n) /\ Chunks(d, n) /\ BoxIn(d, s, k, n)
  BY <1>0, SlabFacts, ChunksFacts, BoxFacts DEF Reads
<1>2. n \in Nat \ {0} /\ m \in Nat /\ n \in 1 .. n /\ m + 1 = n
  BY <1>1 DEF Chunks
<1>3. /\ \A a \in 1 .. n : l[a] \in Nat /\ h[a] \in Nat
      /\ \A c \in [1 .. n -> Nat] :
           c \in Box(s) /\ HoldsAt(d, k, c) <=> \A a \in 1 .. n : l[a] <= c[a] /\ c[a] < h[a]
  BY <1>1 DEF BoxIn
<1>4. /\ Sized(d, s, n) /\ Times(d.chunk, 0, n) < MaxU64 /\ element_count(d.chunk) = Times(d.chunk, 0, n)
      /\ Times(d.chunk, 0, n) \in Nat \ {0}
      /\ \A a \in 1 .. m : W[a] = h[a] - l[a]
      /\ W \in [1 .. m -> Nat \ {0}]
  BY ChunkSizes
<1>5. /\ run.src = Dot(Minus(coord, d.chunks[k].offset, n), strides(d.chunk), n)
      /\ run.dst = Dot(Minus(coord, s.start, n), strides(s.count), n)
      /\ run.len = h[n] - l[n]
  BY DEF RowRun
<1>6. Within(W, i, m)
  OBVIOUS
<1>7. p = [a \in 1 .. m |-> l[a] + i[a]]
  BY DEF Plus
<1>r. \A c : RowOf(d, s, k, c) = Row(W, Minus(c, l, m), m)
  BY DEF RowOf
<1>m. \A c : \A a \in 1 .. m : Minus(c, l, m)[a] = c[a] - l[a]
  BY DEF Minus
<1> HIDE DEF n, m, l, h, W, run, p
<1>w. \A a \in 1 .. m : W[a] \in Nat
  BY <1>4
<1>8. ASSUME NEW a \in 1 .. m
      PROVE  a \in 1 .. n /\ i[a] \in Nat /\ l[a] + i[a] \in Nat /\ l[a] + i[a] < h[a] /\ l[a] <= l[a] + i[a]
  <2>1. a \in 1 .. n
    BY <1>2
  <2>2. i[a] \in 0 .. W[a] - 1
    BY <1>6 DEF Within
  <2>3. W[a] = h[a] - l[a]
    BY <1>4
  <2>4. l[a] \in Nat /\ h[a] \in Nat
    BY <1>3, <2>1
  <2> DEFINE b == l[a]
  <2> DEFINE t == h[a]
  <2> DEFINE u == i[a]
  <2>5. b \in Nat /\ t \in Nat /\ u \in 0 .. (t - b) - 1
    BY <2>2, <2>3, <2>4
  <2> HIDE DEF b, t, u
  <2>6. u \in Nat /\ b + u \in Nat /\ b + u < t /\ b <= b + u
    BY <2>5
  <2> QED BY <2>1, <2>6 DEF b, t, u
<1>9. p \in Seq(Nat) /\ Len(p) = m /\ l[n] \in Nat /\ h[n] \in Nat /\ l[n] < h[n]
  <2>1. p \in [1 .. m -> Nat]
    BY <1>7, <1>8
  <2>2. p \in Seq(Nat)
    BY <1>2, <2>1
  <2>3. DOMAIN p = 1 .. m
    BY <2>1
  <2>4. Len(p) = m
    BY <1>2, <2>2, <2>3
  <2> QED BY <1>0, <1>2, <1>3, <2>2, <2>4
<1>10. /\ \A a \in 1 .. m : coord[a] = l[a] + i[a]
       /\ coord[n] = l[n] /\ coord \in [1 .. n -> Nat]
  <2>0. p \in Seq(Nat) /\ Len(p) = m /\ l[n] \in Nat /\ m \in Nat
    BY <1>2, <1>9
  <2>1. coord \in Seq(Nat) /\ Len(coord) = m + 1
    BY <2>0, Joined
  <2>2. \A a \in 1 .. m : coord[a] = p[a]
    BY <2>0, Joined
  <2>3. coord[m + 1] = l[n]
    BY <2>0, Joined
  <2> HIDE DEF coord
  <2>4. coord \in [1 .. n -> Nat]
    BY <1>2, <2>1
  <2>5. \A a \in 1 .. m : p[a] = l[a] + i[a]
    BY <1>7
  <2> QED BY <1>2, <2>2, <2>3, <2>4, <2>5
<1> HIDE DEF coord
<1> DEFINE len == h[n] - l[n]
<1>11. len \in Nat \ {0} /\ run.len = len /\ len = h[n] - l[n]
  BY <1>5, <1>9
<1>t. \A x \in Nat : /\ l[n] <= x /\ x < h[n] => x - l[n] \in 0 .. len - 1
                     /\ x \in 0 .. len - 1 => /\ l[n] + x \in Nat /\ l[n] <= l[n] + x
                                              /\ l[n] + x < h[n]
  <2> DEFINE b == l[n]
  <2> DEFINE t == h[n]
  <2>1. b \in Nat /\ t \in Nat /\ b < t /\ len = t - b
    BY <1>9
  <2> HIDE DEF b, t, len
  <2>2. \A x \in Nat : /\ b <= x /\ x < t => x - b \in 0 .. len - 1
                       /\ x \in 0 .. len - 1 => b + x \in Nat /\ b <= b + x /\ b + x < t
    BY <2>1
  <2> QED BY <2>2 DEF b, t
<1> HIDE DEF len
(* The elements of the row.                                                *)
<1> DEFINE At(u) == [a \in 1 .. n |-> IF a = n THEN l[n] + u ELSE l[a] + i[a]]
<1>12. ASSUME NEW u \in 0 .. len - 1
       PROVE  /\ At(u) \in Box(s) /\ HoldsAt(d, k, At(u)) /\ At(u)[n] = l[n] + u
              /\ \A a \in 1 .. m : At(u)[a] = l[a] + i[a]
              /\ \A a \in 1 .. m : At(u)[a] = coord[a]
  <2> DEFINE e == At(u)
  <2>1. \A a \in 1 .. m : e[a] = l[a] + i[a]
    <3> TAKE a \in 1 .. m
    <3>1. a \in 1 .. n /\ a # n
      BY <1>2
    <3> QED BY <3>1
  <2>2. e[n] = l[n] + u
    BY <1>2
  <2>3. e = [a \in 1 .. n |-> e[a]]
    OBVIOUS
  <2> HIDE DEF e
  <2>4. l[n] + u \in Nat /\ l[n] <= l[n] + u /\ l[n] + u < h[n]
    <3>1. u \in Nat
      OBVIOUS
    <3> QED BY <1>t, <3>1
  <2>5. ASSUME NEW a \in 1 .. n PROVE e[a] \in Nat /\ l[a] <= e[a] /\ e[a] < h[a]
    <3>1. CASE a = n
      BY <2>2, <2>4, <3>1
    <3>2. CASE a # n
      <4>1. a \in 1 .. m
        BY <1>2, <3>2
      <4> QED BY <1>8, <2>1, <4>1
    <3> QED BY <3>1, <3>2
  <2>6. e \in [1 .. n -> Nat]
    BY <2>3, <2>5
  <2>7. e \in Box(s) /\ HoldsAt(d, k, e)
    BY <1>3, <2>5, <2>6
  <2> QED BY <1>10, <2>1, <2>2, <2>7 DEF e
<1>13. coord \in Box(s) /\ HoldsAt(d, k, coord)
  <2>1. ASSUME NEW a \in 1 .. n PROVE l[a] <= coord[a] /\ coord[a] < h[a]
    <3>1. CASE a = n
      BY <1>9, <1>10, <3>1
    <3>2. CASE a # n
      <4>1. a \in 1 .. m
        BY <1>2, <3>2
      <4> QED BY <1>8, <1>10, <4>1
    <3> QED BY <3>1, <3>2
  <2> QED BY <1>3, <1>10, <2>1
<1>14. PlaceIn(d, s, coord, n) /\ PointIn(d, s, k, coord, n)
  BY <1>0, <1>13, PlaceFacts, PointFacts DEF n
<1>15. run.dst = Place(s, coord) /\ run.dst \in Nat
  <2> DEFINE r == Minus(coord, s.start, n)
  <2>1. Within(s.count, r, n) /\ Place(s, coord) = Row(s.count, r, n)
    BY <1>14 DEF PlaceIn
  <2>2. IsShape(s.count) /\ Len(s.count) = n
    BY <1>1 DEF SlabIn
  <2>3. Positives(s.count, n) /\ Times(s.count, 0, n) < MaxU64
    BY <1>4 DEF Sized
  <2>4. Times(s.count, 0, n) \in Nat
    BY <1>2, <2>2, <2>3, CountExact
  <2>5. Times(s.count, 0, n) < Width
    BY <2>3, <2>4, WidthFacts
  <2> HIDE DEF r
  <2>6. Dot(r, strides(s.count), n) = Row(s.count, r, n) /\ Row(s.count, r, n) \in Nat
    BY <2>1, <2>2, <2>3, <2>5, DotAll
  <2> QED BY <1>5, <2>1, <2>6 DEF r
<1>16. run.src = InChunk(d, k, coord) /\ run.src \in Nat
  <2> DEFINE r == Minus(coord, d.chunks[k].offset, n)
  <2>1. Within(d.chunk, r, n) /\ InChunk(d, k, coord) = Row(d.chunk, r, n)
    BY <1>14 DEF PointIn
  <2>2. IsShape(d.chunk) /\ Len(d.chunk) = n /\ Positives(d.chunk, n)
    BY <1>1 DEF Chunks
  <2>5. Times(d.chunk, 0, n) < Width
    BY <1>4, WidthFacts
  <2> HIDE DEF r
  <2>6. Dot(r, strides(d.chunk), n) = Row(d.chunk, r, n) /\ Row(d.chunk, r, n) \in Nat
    BY <2>1, <2>2, <2>5, DotAll
  <2> QED BY <1>5, <2>1, <2>6 DEF r
<1> DEFINE dst == run.dst
<1> DEFINE src == run.src
<1>n. dst \in Nat /\ src \in Nat /\ dst = Place(s, coord) /\ src = InChunk(d, k, coord)
  BY <1>15, <1>16
<1> HIDE DEF dst, src
(* Their places.                                                           *)
<1>17. ASSUME NEW e \in Box(s), HoldsAt(d, k, e), \A a \in 1 .. m : e[a] = coord[a]
       PROVE  /\ Place(s, e) = dst + (e[n] - l[n]) /\ InChunk(d, k, e) = src + (e[n] - l[n])
              /\ e[n] \in Nat
  <2>1. \A a \in 1 .. Len(d.shape) - 1 : e[a] = coord[a]
    BY <1>17 DEF m, n
  <2>2. /\ Place(s, e) = Place(s, coord) + (e[n] - coord[n])
        /\ InChunk(d, k, e) = InChunk(d, k, coord) + (e[n] - coord[n]) /\ e[n] \in Nat
    BY <1>13, <1>17, <2>1, RowPoints DEF n
  <2> QED BY <1>n, <1>10, <2>2
<1> HIDE DEF At
<1>18. ASSUME NEW u \in 0 .. len - 1
       PROVE  Place(s, At(u)) = dst + u /\ InChunk(d, k, At(u)) = src + u
  <2>1. /\ Place(s, At(u)) = dst + (At(u)[n] - l[n]) /\ InChunk(d, k, At(u)) = src + (At(u)[n] - l[n])
        /\ At(u)[n] = l[n] + u
    BY <1>12, <1>17
  <2>2. (l[n] + u) - l[n] = u
    BY <1>9
  <2> QED BY <2>1, <2>2
<1>19. src + len <= Times(d.chunk, 0, n)
  <2> DEFINE u == len - 1
  <2>1. u \in 0 .. len - 1
    BY <1>11
  <2>2. PointIn(d, s, k, At(u), n)
    BY <1>12, <2>1, PointFacts DEF n
  <2>3. InChunk(d, k, At(u)) \in 0 .. Times(d.chunk, 0, n) - 1
    BY <2>2 DEF PointIn
  <2>4. InChunk(d, k, At(u)) = src + u
    BY <1>18, <2>1
  <2> DEFINE x == Times(d.chunk, 0, n)
  <2>5. x \in Nat /\ src + (len - 1) \in 0 .. x - 1
    BY <1>4, <2>3, <2>4
  <2> HIDE DEF x, u
  <2>6. src + len <= x
    BY <1>n, <1>11, <2>5
  <2> QED BY <2>6 DEF x
<1>20. ASSUME NEW e \in dst .. dst + len - 1
       PROVE  \E u \in 0 .. len - 1 : e = dst + u
  <2>0. dst \in Nat /\ len \in Nat
    BY <1>n, <1>11
  <2>1. e - dst \in 0 .. len - 1 /\ e = dst + (e - dst)
    BY <2>0
  <2> QED BY <2>1
<1>21. ASSUME NEW e \in dst .. dst + len - 1 PROVE \E c \in Box(s) : Place(s, c) = e
  <2>1. PICK u \in 0 .. len - 1 : e = dst + u
    BY <1>20
  <2>2. At(u) \in Box(s) /\ Place(s, At(u)) = e
    BY <1>12, <1>18, <2>1
  <2> QED BY <2>2
<1>22. ASSUME NEW c \in Box(s), HoldsAt(d, k, c), RowOf(d, s, k, c) = Row(W, i, m)
       PROVE  Place(s, c) \in dst .. dst + len - 1 /\ InChunk(d, k, c) = src + Place(s, c) - dst
  <2> DEFINE q == Minus(c, l, m)
  <2>1. PointIn(d, s, k, c, n)
    BY <1>22, PointFacts DEF n
  <2>2. c \in [1 .. n -> Nat] /\ \A a \in 1 .. n : l[a] <= c[a] /\ c[a] < h[a]
    BY <2>1 DEF PointIn, l, h
  <2>3. \A a \in 1 .. m : q[a] = c[a] - l[a]
    BY <1>m
  <2>4. Row(W, q, m) = Row(W, i, m)
    BY <1>r, <1>22
  <2> HIDE DEF q
  <2>5. Within(W, q, m)
    <3> SUFFICES ASSUME NEW a \in 1 .. m PROVE W[a] \in Nat /\ q[a] \in 0 .. W[a] - 1
      BY DEF Within
    <3>1. W[a] = h[a] - l[a] /\ W[a] \in Nat /\ q[a] = c[a] - l[a] /\ a \in 1 .. n
      BY <1>4, <1>w, <1>8, <2>3
    <3>2. l[a] \in Nat /\ h[a] \in Nat /\ c[a] \in Nat /\ l[a] <= c[a] /\ c[a] < h[a]
      BY <1>3, <2>2, <3>1
    <3> QED BY <3>1, <3>2
  <2>6. \A a \in 1 .. m : q[a] = i[a]
    BY <1>2, <1>6, <2>4, <2>5, RowUnique
  <2>7. \A a \in 1 .. m : c[a] = coord[a]
    <3> TAKE a \in 1 .. m
    <3>1. a \in 1 .. n /\ i[a] \in Nat /\ coord[a] = l[a] + i[a]
      BY <1>8, <1>10
    <3>2. c[a] - l[a] = i[a]
      BY <2>3, <2>6
    <3>3. c[a] \in Nat /\ l[a] \in Nat
      BY <1>3, <2>2, <3>1
    <3> QED BY <3>1, <3>2, <3>3
  <2>8. Place(s, c) = dst + (c[n] - l[n]) /\ InChunk(d, k, c) = src + (c[n] - l[n])
    BY <1>17, <1>22, <2>7
  <2> DEFINE v == c[n] - l[n]
  <2>9. v \in 0 .. len - 1
    <3>1. c[n] \in Nat /\ l[n] <= c[n] /\ c[n] < h[n]
      BY <1>2, <2>2
    <3> QED BY <1>t, <3>1
  <2>10. Place(s, c) = dst + v /\ InChunk(d, k, c) = src + v
    BY <2>8
  <2> HIDE DEF v
  <2>11. dst + v \in dst .. dst + len - 1 /\ src + v = src + (dst + v) - dst
    <3>1. dst \in Nat /\ src \in Nat /\ len \in Nat
      BY <1>n, <1>11
    <3> QED BY <2>9, <3>1
  <2> QED BY <2>10, <2>11
<1>23. ASSUME NEW c \in Box(s), Place(s, c) \in dst .. dst + len - 1
       PROVE  HoldsAt(d, k, c) /\ RowOf(d, s, k, c) = Row(W, i, m)
  <2>1. PICK u \in 0 .. len - 1 : Place(s, c) = dst + u
    BY <1>20, <1>23
  <2>2. At(u) \in Box(s) /\ HoldsAt(d, k, At(u)) /\ Place(s, c) = Place(s, At(u))
        /\ \A a \in 1 .. m : At(u)[a] = l[a] + i[a]
    BY <1>12, <1>18, <2>1
  <2>3. c = At(u)
    BY <1>0, <2>2, PlaceSame
  <2>4. \A a \in 1 .. m : c[a] = l[a] + i[a]
    BY <2>2, <2>3
  <2> DEFINE q == Minus(c, l, m)
  <2>5. \A a \in 1 .. m : q[a] = c[a] - l[a]
    BY <1>m
  <2> HIDE DEF q
  <2>6. \A a \in 1 .. m : q[a] = i[a]
    <3> TAKE a \in 1 .. m
    <3>1. l[a] \in Nat /\ i[a] \in Nat
      BY <1>3, <1>8
    <3>2. q[a] = (l[a] + i[a]) - l[a]
      BY <2>4, <2>5
    <3> QED BY <3>1, <3>2
  <2>7. Numbers(W, m) /\ Numbers(i, m)
    BY <1>2, <1>6, WithinFacts
  <2>8. Numbers(q, m)
    BY <2>6, <2>7 DEF Numbers
  <2>9. Row(W, q, m) = Row(W, i, m)
    BY <1>2, <2>6, <2>7, <2>8, RowSame
  <2> QED BY <1>r, <2>2, <2>3, <2>9 DEF q
<1>24. /\ dst \in Nat /\ src \in Nat /\ len \in Nat \ {0} /\ src + len <= element_count(d.chunk)
       /\ \A e \in dst .. dst + len - 1 : \E c \in Box(s) : Place(s, c) = e
       /\ \A c \in Box(s) : Place(s, c) \in dst .. dst + len - 1
                              <=> HoldsAt(d, k, c) /\ RowOf(d, s, k, c) = Row(W, i, m)
       /\ \A c \in Box(s) : Place(s, c) \in dst .. dst + len - 1 =>
                              InChunk(d, k, c) = src + Place(s, c) - dst
  BY <1>n, <1>4, <1>11, <1>19, <1>21, <1>22, <1>23
<1> QED BY <1>11, <1>24 DEF RowIs, dst, src, run, W, l, h, m, n

--------------------------------------------------------------------------------
(* The loop over the chunks.                                               *)

HeadIn(d, s, td, k) ==
  /\ k = Head(td) /\ k \in 1 .. Len(d.chunks) /\ Cuts(d, s, k) /\ Waits(td, k)
  /\ \A j \in 1 .. Len(d.chunks) : Cuts(d, s, j) /\ ~Waits(td, j) => j < k
  /\ TodoInv(d, s, Tail(td))
  /\ \A j : Waits(Tail(td), j) <=> Waits(td, j) /\ j # k
LEMMA HeadFacts ==
  ASSUME NEW d, NEW s, NEW td, Len(d.chunks) \in Nat, TodoInv(d, s, td), td # <<>>
  PROVE  HeadIn(d, s, td, Head(td))
<1> DEFINE N == Len(d.chunks)
<1> DEFINE tl == Tail(td)
<1> DEFINE k == Head(td)
<1>1. /\ td \in Seq(1 .. N) /\ N \in Nat
      /\ \A j \in 1 .. Len(td) : Cuts(d, s, td[j])
      /\ \A j, l \in 1 .. Len(td) : j < l => td[j] < td[l]
      /\ \A j \in 1 .. N : Cuts(d, s, j) => Waits(td, j) \/ \A l \in 1 .. Len(td) : j < td[l]
  BY DEF TodoInv
<1>2. Len(td) \in Nat \ {0} /\ k = td[1]
  <2>1. td \in Seq(1 .. N)
    BY <1>1
  <2> HIDE DEF N
  <2> QED BY <2>1, EmptySeq
<1>3. tl \in Seq(1 .. N) /\ Len(tl) = Len(td) - 1 /\ \A j \in 1 .. Len(tl) : tl[j] = td[j + 1]
  <2>1. td \in Seq(1 .. N) /\ td # <<>>
    BY <1>1
  <2> HIDE DEF N
  <2> QED BY <2>1, EmptySeq
<1>k. k = Head(td)
  OBVIOUS
<1> HIDE DEF N, tl, k
<1>4. 1 \in 1 .. Len(td) /\ \A j \in 1 .. Len(tl) : j + 1 \in 1 .. Len(td) /\ 1 < j + 1
  BY <1>2, <1>3
<1>5. \A j \in 1 .. Len(td) : td[j] \in 1 .. N
  <2>1. td \in Seq(1 .. N)
    BY <1>1
  <2> DEFINE T == 1 .. N
  <2>2. td \in Seq(T)
    BY <2>1
  <2> HIDE DEF T
  <2>3. \A j \in 1 .. Len(td) : td[j] \in T
    BY <2>2
  <2> QED BY <2>3 DEF T
<1>6. k \in 1 .. N /\ Cuts(d, s, k) /\ Waits(td, k)
  BY <1>1, <1>2, <1>4, <1>5 DEF Waits
<1>7. \A j \in 1 .. N : Cuts(d, s, j) /\ ~Waits(td, j) => j < k
  BY <1>1, <1>2, <1>4
<1>8. ASSUME NEW j PROVE Waits(tl, j) <=> Waits(td, j) /\ j # k
  <2>1. ASSUME NEW l \in 1 .. Len(tl), tl[l] = j PROVE Waits(td, j) /\ j # k
    <3>1. l + 1 \in 1 .. Len(td) /\ td[l + 1] = j /\ td[1] < td[l + 1]
      BY <1>1, <1>3, <1>4, <2>1
    <3>2. td[1] \in 1 .. N /\ td[l + 1] \in 1 .. N
      BY <1>4, <1>5, <3>1
    <3>3. j # k
      BY <1>1, <1>2, <3>1, <3>2
    <3> QED BY <3>1, <3>3 DEF Waits
  <2>2. ASSUME NEW l \in 1 .. Len(td), td[l] = j, j # k PROVE Waits(tl, j)
    <3>1. l # 1
      BY <1>2, <2>2
    <3>2. l - 1 \in 1 .. Len(tl) /\ (l - 1) + 1 = l
      BY <1>2, <1>3, <3>1
    <3>3. tl[l - 1] = td[(l - 1) + 1]
      BY <1>3, <3>2
    <3>4. tl[l - 1] = j
      BY <2>2, <3>2, <3>3
    <3> QED BY <3>2, <3>4 DEF Waits
  <2> QED BY <2>1, <2>2 DEF Waits
<1>9. TodoInv(d, s, tl)
  <2>1. \A j \in 1 .. Len(tl) : Cuts(d, s, tl[j])
    BY <1>1, <1>3, <1>4
  <2>2. \A j, l \in 1 .. Len(tl) : j < l => tl[j] < tl[l]
    <3> SUFFICES ASSUME NEW j \in 1 .. Len(tl), NEW l \in 1 .. Len(tl), j < l PROVE tl[j] < tl[l]
      OBVIOUS
    <3>1. j + 1 < l + 1 /\ j + 1 \in 1 .. Len(td) /\ l + 1 \in 1 .. Len(td)
      BY <1>2, <1>3
    <3>2. td[j + 1] < td[l + 1]
      BY <1>1, <3>1
    <3> QED BY <1>3, <3>2
  <2>3. ASSUME NEW j \in 1 .. N, Cuts(d, s, j)
        PROVE  Waits(tl, j) \/ \A l \in 1 .. Len(tl) : j < tl[l]
    <3>1. CASE Waits(td, j) /\ j # k
      BY <1>8, <3>1
    <3>2. CASE j = k
      <4>1. ASSUME NEW l \in 1 .. Len(tl) PROVE j < tl[l]
        <5>1. td[1] < td[l + 1] /\ tl[l] = td[l + 1]
          BY <1>1, <1>3, <1>4
        <5> QED BY <1>2, <3>2, <5>1
      <4> QED BY <4>1
    <3>3. CASE ~Waits(td, j)
      <4>1. \A l \in 1 .. Len(td) : j < td[l]
        BY <1>1, <2>3, <3>3
      <4> QED BY <1>3, <1>4, <4>1
    <3> QED BY <3>1, <3>2, <3>3
  <2> QED BY <1>3, <2>1, <2>2, <2>3 DEF TodoInv, N
<1> QED BY <1>k, <1>6, <1>7, <1>8, <1>9 DEF HeadIn, N, tl

(* A product of smaller numbers is not larger.                             *)
LEMMA TimesLess ==
  ASSUME NEW n \in Nat, NEW s, NEW t, Positives(s, n), Positives(t, n), \A a \in 1 .. n : s[a] <= t[a]
  PROVE  Times(s, 0, n) <= Times(t, 0, n)
<1> DEFINE S == {a \in 0 .. n : Times(s, 0, a) <= Times(t, 0, a)}
<1>0. 0 + n = n
  OBVIOUS
<1>1. TimesStep(s, 0, n) /\ TimesStep(t, 0, n)
  <2>1. Numbers(s, n) /\ Numbers(t, n)
    BY NumbersFacts
  <2> QED BY <1>0, <2>1, TimesSteps
<1>2. \A a \in 0 .. n : Times(s, 0, a) \in Nat \ {0} /\ Times(t, 0, a) \in Nat \ {0}
  BY <1>0, TimesPositive
<1>3. 0 \in S
  BY <1>1 DEF TimesStep
<1>4. ASSUME NEW a \in 0 .. n - 1, a \in S PROVE a + 1 \in S
  <2>1. a + 1 \in 1 .. n /\ (a + 1) - 1 = a /\ 0 + (a + 1) = a + 1 /\ a \in 0 .. n /\ a + 1 \in 0 .. n
    OBVIOUS
  <2>2. /\ Times(s, 0, a + 1) = Times(s, 0, a) * s[a + 1]
        /\ Times(t, 0, a + 1) = Times(t, 0, a) * t[a + 1]
    BY <1>1, <2>1 DEF TimesStep
  <2>3. s[a + 1] \in Nat /\ t[a + 1] \in Nat /\ s[a + 1] <= t[a + 1]
    BY <2>1 DEF Positives
  <2>4. Times(s, 0, a) \in Nat /\ Times(t, 0, a) \in Nat /\ Times(s, 0, a) <= Times(t, 0, a)
    BY <1>2, <1>4, <2>1
  <2>5. Times(s, 0, a) * s[a + 1] <= Times(t, 0, a) * t[a + 1]
    BY <2>3, <2>4, TimesMonotone
  <2> QED BY <2>1, <2>2, <2>5
<1> HIDE DEF S
<1>5. 0 .. n \subseteq S
  BY <1>3, <1>4, UpTo
<1> QED BY <1>5 DEF S

(* The rows of a chunk are counted exactly.                                *)
LEMMA RowsCount ==
  ASSUME NEW d, NEW s, NEW k, ChunkRead(d, s, k)
  PROVE  LET m == Len(d.shape) - 1
             W == Minus(Hi(d, s, k), Lo(d, s, k), m)
         IN  /\ element_count(W) = Times(W, 0, m) /\ Times(W, 0, m) \in Nat \ {0}
             /\ Positives(W, m) /\ m \in Nat
<1> DEFINE n == Len(d.shape)
<1> DEFINE m == n - 1
<1> DEFINE W == Minus(Hi(d, s, k), Lo(d, s, k), m)
<1>1. /\ Sized(d, s, n) /\ W \in [1 .. m -> Nat \ {0}]
      /\ \A a \in 1 .. m : W[a] <= s.count[a]
  BY ChunkSizes
<1>2. n \in Nat \ {0} /\ m \in Nat /\ m \in 0 .. n
  <2>1. Chunks(d, n)
    BY ChunksFacts DEF ChunkRead, Reads
  <2> QED BY <2>1 DEF Chunks
<1> HIDE DEF n, m, W
<1>3. Positives(W, m)
  BY <1>1 DEF Positives
<1>4. IsShape(W) /\ Len(W) = m
  <2>1. W \in [1 .. m -> Nat]
    BY <1>1
  <2>2. W \in Seq(Nat) /\ DOMAIN W = 1 .. m
    BY <1>2, <2>1
  <2> QED BY <1>2, <2>2 DEF IsShape
<1>5. Positives(s.count, n) /\ Times(s.count, 0, n) < MaxU64
  BY <1>1 DEF Sized
<1>6. Positives(s.count, m) /\ Times(s.count, 0, m) <= Times(s.count, 0, n)
      /\ Times(s.count, 0, m) \in Nat /\ Times(s.count, 0, n) \in Nat
  BY <1>2, <1>5, NumbersFacts, TimesParts
<1>7. Times(W, 0, m) <= Times(s.count, 0, m)
  BY <1>1, <1>2, <1>3, <1>6, TimesLess
<1>8. element_count(W) = Lesser(Times(W, 0, m), MaxU64) /\ Times(W, 0, m) \in Nat \ {0}
  BY <1>3, <1>4, CountExact
<1>9. Times(W, 0, m) < MaxU64
  BY <1>5, <1>6, <1>7, <1>8, WidthFacts
<1> QED BY <1>2, <1>3, <1>8, <1>9 DEF Lesser, n, m, W

LEMMA RowOfBound ==
  ASSUME NEW d, NEW s, NEW k, ChunkRead(d, s, k), NEW c \in Box(s), HoldsAt(d, k, c)
  PROVE  RowOf(d, s, k, c) \in 0 .. Rows(d, s, k) - 1
<1> DEFINE n == Len(d.shape)
<1> DEFINE m == n - 1
<1> DEFINE l == Lo(d, s, k)
<1> DEFINE h == Hi(d, s, k)
<1> DEFINE W == Minus(h, l, m)
<1> DEFINE q == Minus(c, l, m)
<1>1. RowOf(d, s, k, c) = Row(W, q, m) /\ Rows(d, s, k) = Times(W, 0, m)
  BY DEF RowOf, Rows
<1>2. /\ W \in [1 .. m -> Nat \ {0}]
      /\ \A a \in 1 .. m : W[a] = h[a] - l[a]
  BY ChunkSizes
<1>3. PointIn(d, s, k, c, n) /\ BoxIn(d, s, k, n) /\ Chunks(d, n)
  BY PointFacts, BoxFacts, ChunksFacts DEF ChunkRead, Reads
<1>4. /\ c \in [1 .. n -> Nat] /\ \A a \in 1 .. n : l[a] <= c[a] /\ c[a] < h[a]
      /\ \A a \in 1 .. n : l[a] \in Nat /\ h[a] \in Nat
  BY <1>3 DEF PointIn, BoxIn
<1>5. n \in Nat \ {0} /\ m \in Nat /\ m \in 0 .. m
  BY <1>3 DEF Chunks
<1>6. \A a \in 1 .. m : q[a] = c[a] - l[a]
  BY DEF Minus
<1> HIDE DEF n, l, h, W, q
<1>7. ASSUME NEW a \in 1 .. m PROVE W[a] \in Nat /\ q[a] \in 0 .. W[a] - 1
  <2>1. a \in 1 .. n
    BY <1>5
  <2>2. W[a] \in Nat /\ W[a] = h[a] - l[a] /\ q[a] = c[a] - l[a]
    BY <1>2, <1>6
  <2>3. l[a] \in Nat /\ h[a] \in Nat /\ c[a] \in Nat /\ l[a] <= c[a] /\ c[a] < h[a]
    BY <1>4, <2>1
  <2> QED BY <2>2, <2>3
<1> HIDE DEF m
<1>8. Within(W, q, m)
  BY <1>7 DEF Within
<1>9. Row(W, q, m) \in 0 .. Times(W, 0, m) - 1
  BY <1>5, <1>8, RowBound
<1> QED BY <1>1, <1>9

(* What has been seen of an element comes from an earlier record.          *)
Earlier(S, k, N) == S \subseteq 1 .. N /\ \A j \in S : j < k
LEMMA PastFacts ==
  ASSUME NEW d, NEW s, NEW td, NEW k, ChunkRead(d, s, k), HeadIn(d, s, td, k), NEW c \in Box(s)
  PROVE  Earlier(Past(d, td, c), k, Len(d.chunks))
<1> DEFINE n == Len(d.shape)
<1>0. Reads(d, s) /\ d.layout = "chunked" /\ k \in 1 .. Len(d.chunks)
  BY DEF ChunkRead
<1>1. Chunks(d, n) /\ PlaceIn(d, s, c, n)
  BY <1>0, ChunksFacts, PlaceFacts DEF Reads
<1>2. DOMAIN d.chunks = 1 .. Len(d.chunks) /\ c \in [1 .. n -> Nat]
  BY <1>1 DEF Chunks, PlaceIn
<1>3. ASSUME NEW j \in Past(d, td, c) PROVE j \in 1 .. Len(d.chunks) /\ j < k
  <2>1. j \in 1 .. Len(d.chunks) /\ HoldsAt(d, j, c) /\ ~Waits(td, j)
    BY <1>2 DEF Past
  <2>2. BoxIn(d, s, j, n)
    BY <1>0, <2>1, BoxFacts
  <2>3. \A a \in 1 .. n : /\ Lo(d, s, j)[a] <= c[a] /\ c[a] < Hi(d, s, j)[a]
                          /\ Lo(d, s, j)[a] \in Nat /\ Hi(d, s, j)[a] \in Nat
    BY <1>2, <2>1, <2>2 DEF BoxIn
  <2>4. Cuts(d, s, j)
    <3> SUFFICES ASSUME NEW a \in 1 .. n PROVE Lo(d, s, j)[a] < Hi(d, s, j)[a]
      BY DEF Cuts
    <3> DEFINE x == Lo(d, s, j)[a]
    <3> DEFINE y == Hi(d, s, j)[a]
    <3> DEFINE z == c[a]
    <3>1. x \in Nat /\ y \in Nat /\ z \in Nat /\ x <= z /\ z < y
      BY <1>2, <2>3
    <3> HIDE DEF x, y, z
    <3>2. x < y
      BY <3>1
    <3> QED BY <3>2 DEF x, y
  <2> QED BY <2>1, <2>4 DEF HeadIn
<1> QED BY <1>3 DEF Earlier

From(x, k, p)  == x = <<"data", k, p>>
NotFrom(x, k) == <<x[1], x[2]>> # <<"data", k>>
LEMMA ShownFacts ==
  ASSUME NEW d, NEW v \in Bases, NEW c, NEW S, NEW N \in Nat, NEW k \in 1 .. N, Earlier(S, k, N)
  PROVE  /\ From(Shown(d, v, c, S \cup {k}), k, InChunk(d, k, c))
         /\ NotFrom(Shown(d, v, c, S), k)
<1>1. S \subseteq 1 .. N /\ \A j \in S : j < k
  BY DEF Earlier
<1>2. Max(S \cup {k}) = k
  <2> DEFINE T == S \cup {k}
  <2>1. T \subseteq 1 .. N /\ T # {} /\ k \in T
    BY <1>1
  <2>2. Max(T) \in T /\ \A j \in T : j <= Max(T)
    BY <2>1, MaxIs
  <2> DEFINE x == Max(T)
  <2>3. x \in T /\ k <= x
    BY <2>1, <2>2
  <2> HIDE DEF x
  <2>4. x \in 1 .. N /\ (x \in S \/ x = k)
    BY <2>1, <2>3
  <2>5. x = k
    BY <1>1, <2>3, <2>4
  <2> QED BY <2>5 DEF x
<1>3. From(Shown(d, v, c, S \cup {k}), k, InChunk(d, k, c))
  <2>1. S \cup {k} # {}
    OBVIOUS
  <2> QED BY <1>2, <2>1 DEF From, Shown, InChunk
<1>4. CASE S = {}
  <2>1. Shown(d, v, c, S) = v
    BY <1>4 DEF Shown
  <2>2. v[1] # "data"
    BY DEF Bases, Zero, Fill
  <2> QED BY <1>3, <2>1, <2>2 DEF NotFrom
<1>5. CASE S # {}
  <2>1. Max(S) \in S
    BY <1>1, <1>5, MaxIs
  <2>2. Max(S) < k /\ Max(S) \in 1 .. N
    BY <1>1, <2>1
  <2>3. Max(S) # k
    BY <2>2
  <2>4. Shown(d, v, c, S)[2] = Max(S)
    BY <1>5 DEF Shown
  <2> QED BY <1>3, <2>3, <2>4 DEF NotFrom
<1> QED BY <1>4, <1>5

(* Before the loop over the rows of a chunk.                               *)
LEMMA CopyStart ==
  ASSUME NEW d, NEW s, NEW td, NEW b, Reads(d, s), Fits(d, s), d.layout = "chunked",
         TodoInv(d, s, td), td # <<>>, NextAt(d, s, td, b)
  PROVE  LET k == Head(td)
             m == Len(d.shape) - 1
             W == Minus(Hi(d, s, k), Lo(d, s, k), m)
         IN  CopyAt(d, s, td, Lo(d, s, k), Hi(d, s, k), Zeros(m), element_count(W), b)
<1> DEFINE k == Head(td)
<1> DEFINE m == Len(d.shape) - 1
<1> DEFINE W == Minus(Hi(d, s, k), Lo(d, s, k), m)
<1> DEFINE o == element_count(W)
<1>1. Chunks(d, Len(d.shape))
  BY ChunksFacts DEF Reads
<1>2. HeadIn(d, s, td, k)
  BY <1>1, HeadFacts DEF Chunks
<1>3. ChunkRead(d, s, k)
  BY <1>2 DEF HeadIn, ChunkRead
<1>4. o = Rows(d, s, k) /\ o \in Nat \ {0} /\ Positives(W, m) /\ m \in Nat
  BY <1>3, RowsCount DEF Rows
<1>5. DOMAIN Zeros(m) = 1 .. m /\ Within(W, Zeros(m), m)
  <2> HIDE DEF m, W
  <2>1. DOMAIN Zeros(m) = 1 .. m /\ \A a \in 1 .. m : Zeros(m)[a] = 0
    BY <1>4, ZerosFacts
  <2>2. \A a \in 1 .. m : W[a] \in Nat /\ 0 \in 0 .. W[a] - 1
    BY <1>4, ZeroIn DEF Positives
  <2> QED BY <2>1, <2>2 DEF Within
<1>6. Row(W, Zeros(m), m) = 0
  <2> HIDE DEF m, W
  <2> QED BY <1>4, NumbersFacts, RowZeros
<1>7. ASSUME NEW c \in Box(s) PROVE Seen(d, s, td, o, c) = Past(d, td, c)
  <2>1. CASE ~HoldsAt(d, k, c)
    BY <2>1 DEF Seen
  <2>2. CASE HoldsAt(d, k, c)
    <3>1. RowOf(d, s, k, c) \in 0 .. Rows(d, s, k) - 1
      BY <1>3, <2>2, RowOfBound
    <3>2. Rows(d, s, k) - o = 0
      BY <1>4
    <3>3. ~(RowOf(d, s, k, c) < Rows(d, s, k) - o)
      BY <3>1, <3>2
    <3> QED BY <3>3 DEF Seen
  <2> QED BY <2>1, <2>2
<1>8. PICK v \in Bases : Base(d, s, v) /\ \A c \in Box(s) : b[Place(s, c)] = Shown(d, v, c, Past(d, td, c))
  BY DEF NextAt
<1>9. \A c \in Box(s) : b[Place(s, c)] = Shown(d, v, c, Seen(d, s, td, o, c))
  BY <1>7, <1>8
<1>10. DOMAIN b = 0 .. element_count(s.count) - 1
  BY DEF NextAt
<1> HIDE DEF k, m, W, o
<1>11. o \in 0 .. Rows(d, s, k) /\ Row(W, Zeros(m), m) = Rows(d, s, k) - o
  BY <1>4, <1>6
<1> QED BY <1>5, <1>8, <1>9, <1>10, <1>11 DEF CopyAt, k, m, W, o

(* In it: the run lies in the chunk and in the output, where nothing has   *)
(* been copied of this record.                                             *)
LEMMA CopyTurn ==
  ASSUME NEW d, NEW s, NEW td, NEW l, NEW h, NEW i, NEW o, NEW b,
         Reads(d, s), Fits(d, s), d.layout = "chunked",
         TodoInv(d, s, td), td # <<>>, CopyAt(d, s, td, l, h, i, o, b)
  PROVE  /\ HeadIn(d, s, td, Head(td)) /\ ChunkRead(d, s, Head(td)) /\ RowIs(d, s, Head(td), i)
         /\ l = Lo(d, s, Head(td)) /\ h = Hi(d, s, Head(td))
         /\ Rows(d, s, Head(td)) \in Nat \ {0} /\ Len(d.shape) - 1 \in Nat
         /\ Len(d.chunks) \in Nat
<1>1. Chunks(d, Len(d.shape))
  BY ChunksFacts DEF Reads
<1>2. HeadIn(d, s, td, Head(td)) /\ Len(d.chunks) \in Nat
  BY <1>1, HeadFacts DEF Chunks
<1>3. ChunkRead(d, s, Head(td))
  BY <1>2 DEF HeadIn, ChunkRead
<1>4. /\ l = Lo(d, s, Head(td)) /\ h = Hi(d, s, Head(td))
      /\ Within(Minus(Hi(d, s, Head(td)), Lo(d, s, Head(td)), Len(d.shape) - 1), i, Len(d.shape) - 1)
  BY DEF CopyAt
<1>5. RowIs(d, s, Head(td), i)
  BY <1>3, <1>4, RowFacts
<1>6. Rows(d, s, Head(td)) \in Nat \ {0} /\ Len(d.shape) - 1 \in Nat
  BY <1>3, RowsCount DEF Rows
<1> QED BY <1>2, <1>3, <1>4, <1>5, <1>6

LEMMA CopyFits ==
  ASSUME NEW d, NEW s, NEW td, NEW l, NEW h, NEW i, NEW o, NEW b,
         Reads(d, s), Fits(d, s), d.layout = "chunked",
         TodoInv(d, s, td), td # <<>>, CopyAt(d, s, td, l, h, i, o, b), o > 0
  PROVE  LET run == RowRun(d, s, Head(td), l, h, i)
         IN  /\ run.src + run.len <= element_count(d.chunk)
             /\ \A e \in run.dst .. run.dst + run.len - 1 :
                  e \in DOMAIN b /\ NotFrom(b[e], Head(td))
<1> DEFINE k == Head(td)
<1> DEFINE m == Len(d.shape) - 1
<1> DEFINE W == Minus(Hi(d, s, k), Lo(d, s, k), m)
<1> DEFINE run == RowRun(d, s, k, Lo(d, s, k), Hi(d, s, k), i)
<1>1. /\ HeadIn(d, s, td, k) /\ ChunkRead(d, s, k) /\ RowIs(d, s, k, i)
      /\ l = Lo(d, s, k) /\ h = Hi(d, s, k) /\ Len(d.chunks) \in Nat
      /\ Rows(d, s, k) \in Nat
  BY CopyTurn
<1>2. run.src + run.len <= element_count(d.chunk)
  BY <1>1 DEF RowIs
<1>3. Row(W, i, m) = Rows(d, s, k) - o /\ DOMAIN b = 0 .. element_count(s.count) - 1 /\ o \in 0 .. Rows(d, s, k)
  BY DEF CopyAt
<1>4. ASSUME NEW e \in run.dst .. run.dst + run.len - 1
      PROVE  e \in DOMAIN b /\ NotFrom(b[e], k)
  <2>1. PICK c \in Box(s) : Place(s, c) = e
    BY <1>1 DEF RowIs
  <2>2. HoldsAt(d, k, c) /\ RowOf(d, s, k, c) = Row(W, i, m)
    BY <1>1, <2>1 DEF RowIs
  <2>3. e \in DOMAIN b
    <3>1. PlaceIn(d, s, c, Len(d.shape))
      BY PlaceFacts
    <3>2. Sized(d, s, Len(d.shape))
      BY <1>1, ChunkSizes
    <3> QED BY <1>3, <2>1, <3>1, <3>2 DEF PlaceIn, Sized
  <2>4. Seen(d, s, td, o, c) = Past(d, td, c)
    <3>1. ~(RowOf(d, s, k, c) < Rows(d, s, k) - o)
      <4>1. RowOf(d, s, k, c) = Rows(d, s, k) - o
        BY <1>3, <2>2
      <4>2. Rows(d, s, k) - o \in Int
        BY <1>1, <1>3
      <4> DEFINE x == Rows(d, s, k) - o
      <4> HIDE DEF x
      <4>3. ~(x < x)
        BY <4>2 DEF x
      <4> QED BY <4>1, <4>3 DEF x
    <3> QED BY <3>1 DEF Seen
  <2>5. PICK v \in Bases : b[Place(s, c)] = Shown(d, v, c, Seen(d, s, td, o, c))
    BY DEF CopyAt
  <2> DEFINE S == Past(d, td, c)
  <2> DEFINE N == Len(d.chunks)
  <2>6. Earlier(S, k, N) /\ k \in 1 .. N /\ N \in Nat
    BY <1>1, PastFacts DEF HeadIn
  <2> HIDE DEF S, k, N
  <2>7. NotFrom(Shown(d, v, c, S), k)
    BY <2>6, ShownFacts
  <2> QED BY <2>1, <2>3, <2>4, <2>5, <2>7 DEF S
<1> QED BY <1>1, <1>2, <1>4

LEMMA CopyStep ==
  ASSUME NEW d, NEW s, NEW td, NEW l, NEW h, NEW i, NEW o, NEW b,
         Reads(d, s), Fits(d, s), d.layout = "chunked",
         TodoInv(d, s, td), td # <<>>, CopyAt(d, s, td, l, h, i, o, b), o > 0
  PROVE  CopyAt(d, s, td, l, h, Turn(i, Minus(h, l, Len(d.shape) - 1)), o - 1,
                Pasted(b, Head(td), RowRun(d, s, Head(td), l, h, i)))
<1> DEFINE k == Head(td)
<1> DEFINE m == Len(d.shape) - 1
<1> DEFINE W == Minus(Hi(d, s, k), Lo(d, s, k), m)
<1> DEFINE P == Rows(d, s, k)
<1> DEFINE run == RowRun(d, s, k, Lo(d, s, k), Hi(d, s, k), i)
<1> DEFINE j == Turn(i, W)
<1> DEFINE w == Pasted(b, k, run)
<1> DEFINE N == Len(d.chunks)
<1>1. /\ HeadIn(d, s, td, k) /\ ChunkRead(d, s, k) /\ RowIs(d, s, k, i)
      /\ l = Lo(d, s, k) /\ h = Hi(d, s, k) /\ N \in Nat
      /\ P \in Nat \ {0} /\ m \in Nat
  BY CopyTurn
<1>2. /\ o \in 0 .. P /\ DOMAIN i = 1 .. m /\ Within(W, i, m)
      /\ Row(W, i, m) = P - o /\ DOMAIN b = 0 .. element_count(s.count) - 1
  BY DEF CopyAt
<1>3. PICK v \in Bases : Base(d, s, v) /\ \A c \in Box(s) : b[Place(s, c)] = Shown(d, v, c, Seen(d, s, td, o, c))
  BY DEF CopyAt
<1>4. P = Times(W, 0, m)
  BY DEF Rows
<1>5. /\ \A c \in Box(s) : Place(s, c) \in run.dst .. run.dst + run.len - 1
                             <=> HoldsAt(d, k, c) /\ RowOf(d, s, k, c) = Row(W, i, m)
      /\ \A c \in Box(s) : Place(s, c) \in run.dst .. run.dst + run.len - 1 =>
                             InChunk(d, k, c) = run.src + Place(s, c) - run.dst
  BY <1>1 DEF RowIs
<1>6. /\ DOMAIN w = DOMAIN b
      /\ \A e \in DOMAIN b : e \in run.dst .. run.dst + run.len - 1 => w[e] = <<"data", k, run.src + e - run.dst>>
      /\ \A e \in DOMAIN b : e \notin run.dst .. run.dst + run.len - 1 => w[e] = b[e]
  BY DEF Pasted
<1>7. \A c \in Box(s) : Place(s, c) \in DOMAIN b
  <2> TAKE c \in Box(s)
  <2>1. PlaceIn(d, s, c, Len(d.shape))
    BY PlaceFacts
  <2>2. Sized(d, s, Len(d.shape))
    BY <1>1, ChunkSizes
  <2> QED BY <1>2, <2>1, <2>2 DEF PlaceIn, Sized
<1>8. \A c, x : Seen(d, s, td, x, c) =
        IF HoldsAt(d, k, c) /\ RowOf(d, s, k, c) < P - x THEN Past(d, td, c) \cup {k} ELSE Past(d, td, c)
  BY DEF Seen
<1>9. \A c \in Box(s) : Earlier(Past(d, td, c), k, N) /\ k \in 1 .. N
  BY <1>1, PastFacts DEF HeadIn
<1>10. \A c \in Box(s) : HoldsAt(d, k, c) => RowOf(d, s, k, c) \in 0 .. P - 1
  BY <1>1, RowOfBound
<1>q. Minus(h, l, Len(d.shape) - 1) = W /\ RowRun(d, s, Head(td), l, h, i) = run
  BY <1>1
<1> DEFINE Run1 == run.dst .. run.dst + run.len - 1
<1> HIDE DEF k, m, W, P, run, j, w, N
<1>11. o \in 1 .. P /\ o - 1 \in 0 .. P /\ P \in Nat
  BY <1>1, <1>2
<1>12. /\ DOMAIN j = 1 .. m /\ Within(W, j, m)
       /\ Row(W, i, m) + 1 < P => Row(W, j, m) = Row(W, i, m) + 1
  BY <1>1, <1>2, <1>4, TurnFacts DEF j
<1>13. o - 1 > 0 => Row(W, j, m) = P - (o - 1)
  BY <1>2, <1>11, <1>12
<1>14. ASSUME NEW c \in Box(s) PROVE w[Place(s, c)] = Shown(d, v, c, Seen(d, s, td, o - 1, c))
  <2> DEFINE e == Place(s, c)
  <2> DEFINE S == Past(d, td, c)
  <2> DEFINE r == RowOf(d, s, k, c)
  <2>1. e \in DOMAIN b
    BY <1>7
  <2>2. CASE HoldsAt(d, k, c) /\ r = Row(W, i, m)
    <3>1. e \in Run1
      BY <1>5, <2>2
    <3>2. w[e] = <<"data", k, run.src + e - run.dst>>
      BY <1>6, <2>1, <3>1
    <3>3. InChunk(d, k, c) = run.src + e - run.dst
      BY <1>5, <3>1
    <3>4. r = P - o
      BY <1>2, <2>2
    <3>5. P - o < P - (o - 1)
      BY <1>11
    <3>6. Seen(d, s, td, o - 1, c) = S \cup {k}
      BY <1>8, <2>2, <3>4, <3>5
    <3>7. Earlier(S, k, N) /\ k \in 1 .. N /\ N \in Nat
      BY <1>1, <1>9
    <3> HIDE DEF S
    <3>8. From(Shown(d, v, c, S \cup {k}), k, InChunk(d, k, c))
      BY <3>7, ShownFacts
    <3> QED BY <3>2, <3>3, <3>6, <3>8 DEF From
  <2>3. CASE ~(HoldsAt(d, k, c) /\ r = Row(W, i, m))
    <3>1. e \notin Run1
      BY <1>5, <2>3
    <3>2. w[e] = b[e]
      BY <1>6, <2>1, <3>1
    <3>3. HoldsAt(d, k, c) => (r < P - o <=> r < P - (o - 1))
      <4> SUFFICES ASSUME HoldsAt(d, k, c) PROVE r < P - o <=> r < P - (o - 1)
        OBVIOUS
      <4>1. r \in 0 .. P - 1 /\ r # P - o
        BY <1>2, <1>10, <2>3
      <4> HIDE DEF r
      <4> QED BY <1>11, <4>1
    <3>4. Seen(d, s, td, o, c) = Seen(d, s, td, o - 1, c)
      BY <1>8, <3>3
    <3> QED BY <1>3, <3>2, <3>4
  <2> QED BY <2>2, <2>3
<1>15. CopyAt(d, s, td, Lo(d, s, k), Hi(d, s, k), j, o - 1, w)
  BY <1>2, <1>3, <1>6, <1>11, <1>12, <1>13, <1>14 DEF CopyAt, k, m, W, P
<1> QED BY <1>1, <1>q, <1>15 DEF j, w, k

(* After it.                                                               *)
LEMMA CopyEnd ==
  ASSUME NEW d, NEW s, NEW td, NEW l, NEW h, NEW i, NEW b,
         Reads(d, s), Fits(d, s), d.layout = "chunked",
         TodoInv(d, s, td), td # <<>>, CopyAt(d, s, td, l, h, i, 0, b)
  PROVE  NextAt(d, s, Tail(td), b)
<1> DEFINE k == Head(td)
<1> DEFINE P == Rows(d, s, k)
<1>1. HeadIn(d, s, td, k) /\ ChunkRead(d, s, k) /\ P \in Nat \ {0}
  BY CopyTurn
<1>2. PICK v \in Bases : Base(d, s, v) /\ \A c \in Box(s) : b[Place(s, c)] = Shown(d, v, c, Seen(d, s, td, 0, c))
  BY DEF CopyAt
<1>3. DOMAIN b = 0 .. element_count(s.count) - 1
  BY DEF CopyAt
<1>4. DOMAIN d.chunks = 1 .. Len(d.chunks)
  <2>1. Chunks(d, Len(d.shape))
    BY ChunksFacts DEF Reads
  <2> QED BY <2>1 DEF Chunks
<1>5. ASSUME NEW c \in Box(s) PROVE Seen(d, s, td, 0, c) = Past(d, Tail(td), c)
  <2>1. HoldsAt(d, k, c) => RowOf(d, s, k, c) < P - 0
    <3> SUFFICES ASSUME HoldsAt(d, k, c) PROVE RowOf(d, s, k, c) < P - 0
      OBVIOUS
    <3>1. RowOf(d, s, k, c) \in 0 .. P - 1
      BY <1>1, RowOfBound
    <3> HIDE DEF P
    <3> QED BY <1>1, <3>1
  <2>2. Seen(d, s, td, 0, c) = IF HoldsAt(d, k, c) THEN Past(d, td, c) \cup {k} ELSE Past(d, td, c)
    BY <2>1 DEF Seen
  <2>3. \A j : Waits(Tail(td), j) <=> Waits(td, j) /\ j # k
    BY <1>1 DEF HeadIn
  <2>4. k \in DOMAIN d.chunks
    BY <1>1, <1>4 DEF HeadIn
  <2>5. \A j : j \in Past(d, Tail(td), c) <=> j \in DOMAIN d.chunks /\ HoldsAt(d, j, c) /\ ~Waits(Tail(td), j)
    BY DEF Past
  <2>6. \A j : j \in Past(d, td, c) <=> j \in DOMAIN d.chunks /\ HoldsAt(d, j, c) /\ ~Waits(td, j)
    BY DEF Past
  <2> HIDE DEF k
  <2>7. \A j : j \in Past(d, Tail(td), c) <=> j \in Past(d, td, c) \/ (j = k /\ HoldsAt(d, k, c))
    BY <2>3, <2>4, <2>5, <2>6
  <2> DEFINE S == Past(d, td, c)
  <2> DEFINE T == Past(d, Tail(td), c)
  <2> HIDE DEF S, T
  <2>8. CASE HoldsAt(d, k, c)
    <3>1. \A j : j \in T <=> j \in S \/ j = k
      BY <2>7, <2>8 DEF S, T
    <3>2. T = S \cup {k}
      BY <3>1
    <3> QED BY <2>2, <2>8, <3>2 DEF S, T
  <2>9. CASE ~HoldsAt(d, k, c)
    <3>1. \A j : j \in T <=> j \in S
      BY <2>7, <2>9 DEF S, T
    <3>2. T = S
      BY <3>1
    <3> QED BY <2>2, <2>9, <3>2 DEF S, T
  <2> QED BY <2>8, <2>9
<1>6. \A c \in Box(s) : b[Place(s, c)] = Shown(d, v, c, Past(d, Tail(td), c))
  BY <1>2, <1>5
<1> QED BY <1>2, <1>3, <1>6 DEF NextAt

(* After the last chunk.                                                   *)
LEMMA ChunksEnd ==
  ASSUME NEW d, NEW s, NEW b, d.layout = "chunked", NextAt(d, s, <<>>, b)
  PROVE  Values(d, s, b)
<1> SUFFICES ASSUME NEW c \in Box(s) PROVE b[Place(s, c)] = Wanted(d, c)
  BY DEF Values
<1> DEFINE S == {k \in DOMAIN d.chunks : HoldsAt(d, k, c)}
<1>1. Past(d, <<>>, c) = S
  <2>1. \A k : ~Waits(<<>>, k)
    BY DEF Waits
  <2> QED BY <2>1 DEF Past
<1>2. PICK v \in Bases : Base(d, s, v) /\ b[Place(s, c)] = Shown(d, v, c, Past(d, <<>>, c))
  BY DEF NextAt
<1>3. Wanted(d, c) = Shown(d, Fill, c, S)
  BY DEF Wanted
<1>4. Shown(d, v, c, S) = Shown(d, Fill, c, S)
  <2>1. CASE S # {}
    <3> HIDE DEF S
    <3> QED BY <2>1 DEF Shown
  <2>2. CASE S = {}
    <3>1. ~Covers(d, s)
      BY <2>2 DEF Covers
    <3>2. v = Fill
      BY <1>2, <3>1 DEF Base, Bases
    <3> QED BY <3>2
  <2> QED BY <2>1, <2>2
<1> QED BY <1>1, <1>2, <1>3, <1>4

(* A record the selection wants holds an element of it.                    *)
LEMMA WantedRecord ==
  ASSUME NEW d, NEW s, NEW k \in 1 .. Len(d.chunks), Reads(d, s), d.layout = "chunked", Cuts(d, s, k)
  PROVE  \E c \in Box(s) : HoldsAt(d, k, c)
<1> DEFINE n == Len(d.shape)
<1> DEFINE l == Lo(d, s, k)
<1> DEFINE h == Hi(d, s, k)
<1>1. BoxIn(d, s, k, n)
  BY BoxFacts
<1>2. /\ l \in [1 .. n -> Nat] /\ \A a \in 1 .. n : l[a] \in Nat
      /\ \A c \in [1 .. n -> Nat] :
           c \in Box(s) /\ HoldsAt(d, k, c) <=> \A a \in 1 .. n : l[a] <= c[a] /\ c[a] < h[a]
  BY <1>1 DEF BoxIn
<1>3. \A a \in 1 .. n : l[a] < h[a]
  BY DEF Cuts
<1> HIDE DEF n, l, h
<1>4. \A a \in 1 .. n : l[a] <= l[a] /\ l[a] < h[a]
  BY <1>2, <1>3
<1>5. l \in Box(s) /\ HoldsAt(d, k, l)
  BY <1>2, <1>4
<1> QED BY <1>5

(* The records to copy.                                                    *)
Needed(d, s) ==
  LET f[k \in 0 .. Len(d.chunks)] ==
        IF k = 0 THEN <<>> ELSE IF Cuts(d, s, k) THEN Append(f[k - 1], k) ELSE f[k - 1]
  IN  f[Len(d.chunks)]
Sofar(d, s, q, k, N) ==
  /\ q \in Seq(1 .. N)
  /\ \A j \in 1 .. Len(q) : Cuts(d, s, q[j]) /\ q[j] <= k
  /\ \A j, l \in 1 .. Len(q) : j < l => q[j] < q[l]
  /\ \A j \in 1 .. k : Cuts(d, s, j) => Waits(q, j)
LEMMA SofarStep ==
  ASSUME NEW d, NEW s, NEW N \in Nat, NEW k \in 1 .. N, NEW q, Sofar(d, s, q, k - 1, N)
  PROVE  Sofar(d, s, IF Cuts(d, s, k) THEN Append(q, k) ELSE q, k, N)
<1>1. /\ q \in Seq(1 .. N)
      /\ \A j \in 1 .. Len(q) : Cuts(d, s, q[j]) /\ q[j] <= k - 1
      /\ \A j, l \in 1 .. Len(q) : j < l => q[j] < q[l]
      /\ \A j \in 1 .. k - 1 : Cuts(d, s, j) => Waits(q, j)
  BY DEF Sofar
<1>2. Len(q) \in Nat /\ \A j \in 1 .. Len(q) : q[j] \in Nat
  <2>1. q \in Seq(1 .. N)
    BY <1>1
  <2>2. q \in Seq(Nat)
    BY <2>1
  <2> QED BY <2>2
<1>3. \A j \in 1 .. Len(q) : q[j] < k /\ q[j] <= k
  BY <1>1, <1>2
<1>4. \A j \in 1 .. k : j = k \/ j \in 1 .. k - 1
  OBVIOUS
<1>5. CASE ~Cuts(d, s, k)
  <2>1. \A j \in 1 .. k : Cuts(d, s, j) => Waits(q, j)
    BY <1>1, <1>4, <1>5
  <2> QED BY <1>1, <1>3, <1>5, <2>1 DEF Sofar
<1>6. CASE Cuts(d, s, k)
  <2> DEFINE r == Append(q, k)
  <2>1. /\ r \in Seq(1 .. N) /\ Len(r) = Len(q) + 1
        /\ \A j \in 1 .. Len(q) : r[j] = q[j]
        /\ r[Len(q) + 1] = k
    <3>1. q \in Seq(1 .. N)
      BY <1>1
    <3> DEFINE T == 1 .. N
    <3>2. q \in Seq(T) /\ k \in T
      BY <3>1
    <3> HIDE DEF T
    <3> QED BY <3>2, AppendProperties DEF T
  <2> HIDE DEF r
  <2>2. \A j \in 1 .. Len(r) : j \in 1 .. Len(q) \/ j = Len(q) + 1
    BY <1>2, <2>1
  <2>3. \A j \in 1 .. Len(r) : Cuts(d, s, r[j]) /\ r[j] <= k
    <3> TAKE j \in 1 .. Len(r)
    <3>1. CASE j \in 1 .. Len(q)
      BY <1>1, <1>3, <2>1, <3>1
    <3>2. CASE j = Len(q) + 1
      BY <1>6, <2>1, <3>2
    <3> QED BY <2>2, <3>1, <3>2
  <2>4. ASSUME NEW j \in 1 .. Len(r), NEW l \in 1 .. Len(r), j < l PROVE r[j] < r[l]
    <3>1. j \in 1 .. Len(q)
      BY <1>2, <2>1, <2>4
    <3>2. CASE l \in 1 .. Len(q)
      BY <1>1, <2>1, <2>4, <3>1, <3>2
    <3>3. CASE l = Len(q) + 1
      BY <1>3, <2>1, <3>1, <3>3
    <3> QED BY <2>2, <3>2, <3>3
  <2>5. Len(q) + 1 \in 1 .. Len(r) /\ \A j \in 1 .. Len(q) : j \in 1 .. Len(r)
    BY <1>2, <2>1
  <2>6. \A j : Waits(q, j) => Waits(r, j)
    BY <2>1, <2>5 DEF Waits
  <2>7. Waits(r, k)
    BY <2>1, <2>5 DEF Waits
  <2>8. \A j \in 1 .. k : Cuts(d, s, j) => Waits(r, j)
    BY <1>1, <1>4, <2>6, <2>7
  <2>9. Sofar(d, s, r, k, N)
    BY <2>1, <2>3, <2>4, <2>8 DEF Sofar
  <2> QED BY <1>6, <2>9 DEF r
<1> QED BY <1>5, <1>6

LEMMA NeededFacts ==
  ASSUME NEW d, NEW s, Len(d.chunks) \in Nat
  PROVE  TodoInv(d, s, Needed(d, s)) /\ \A k \in 1 .. Len(d.chunks) : Cuts(d, s, k) => Waits(Needed(d, s), k)
<1> DEFINE N == Len(d.chunks)
<1> DEFINE D == Seq(1 .. N)
<1> DEFINE step == [x \in (1 .. N) \X D |-> IF Cuts(d, s, x[1]) THEN Append(x[2], x[1]) ELSE x[2]]
<1>0. N \in Nat
  OBVIOUS
<1>1. step \in [(1 .. N) \X D -> D]
  <2> SUFFICES ASSUME NEW k \in 1 .. N, NEW q \in D
               PROVE  (IF Cuts(d, s, k) THEN Append(q, k) ELSE q) \in D
    OBVIOUS
  <2>1. Append(q, k) \in D
    <3> DEFINE T == 1 .. N
    <3>1. q \in Seq(T) /\ k \in T
      OBVIOUS
    <3> HIDE DEF T
    <3> QED BY <3>1, AppendProperties DEF T
  <2> QED BY <2>1
<1>2. \A k \in 1 .. N, q \in D : step[<<k, q>>] = IF Cuts(d, s, k) THEN Append(q, k) ELSE q
  OBVIOUS
<1> HIDE DEF step
<1>3. <<>> \in D
  BY EmptySeq
<1> DEFINE Is(f) == f = [k \in 0 .. N |-> IF k = 0 THEN <<>>
                                          ELSE IF Cuts(d, s, k) THEN Append(f[k - 1], k) ELSE f[k - 1]]
<1> DEFINE g == CHOOSE f : Is(f)
<1>4. Needed(d, s) = g[N]
  BY DEF Needed
<1> HIDE DEF N, D
<1>5. PICK h : Recurses(h, N, D, <<>>, step)
  BY <1>0, <1>1, <1>3, Recursion
<1>6. Is(h)
  <2>1. h \in [0 .. N -> D] /\ h[0] = <<>> /\ \A k \in 1 .. N : h[k] = step[<<k, h[k - 1]>>]
    BY <1>5 DEF Recurses
  <2>2. ASSUME NEW k \in 0 .. N
        PROVE  h[k] = IF k = 0 THEN <<>> ELSE IF Cuts(d, s, k) THEN Append(h[k - 1], k) ELSE h[k - 1]
    <3>1. CASE k = 0
      BY <2>1, <3>1
    <3>2. CASE k # 0
      <4>1. k \in 1 .. N /\ k - 1 \in 0 .. N
        BY <1>0, <3>2
      <4>2. h[k - 1] \in D
        BY <2>1, <4>1
      <4>3. h[k] = step[<<k, h[k - 1]>>]
        BY <2>1, <4>1
      <4> QED BY <1>2, <3>2, <4>1, <4>2, <4>3
    <3> QED BY <3>1, <3>2
  <2>3. h = [k \in 0 .. N |-> h[k]]
    BY <2>1
  <2> QED BY <2>2, <2>3
<1>7. Is(g)
  <2> HIDE DEF Is
  <2> QED BY <1>6, Zenon DEF g
<1> HIDE DEF g
<1>8. \A k \in 0 .. N : g[k] = IF k = 0 THEN <<>> ELSE IF Cuts(d, s, k) THEN Append(g[k - 1], k) ELSE g[k - 1]
  BY <1>7
<1> HIDE DEF Is
<1> DEFINE S == {k \in 0 .. N : Sofar(d, s, g[k], k, N)}
<1>9. 0 \in S
  <2>1. g[0] = <<>>
    BY <1>0, <1>8
  <2>2. Len(<<>>) = 0 /\ <<>> \in Seq(1 .. N)
    BY EmptySeq
  <2>3. \A j \in 1 .. 0 : FALSE
    OBVIOUS
  <2>4. Sofar(d, s, <<>>, 0, N)
    BY <2>2, <2>3 DEF Sofar
  <2> QED BY <1>0, <2>1, <2>4
<1>10. ASSUME NEW k \in 0 .. N - 1, k \in S PROVE k + 1 \in S
  <2> DEFINE j == k + 1
  <2>1. j \in 1 .. N /\ j \in 0 .. N /\ j - 1 = k /\ j # 0
    BY <1>0
  <2> HIDE DEF j
  <2>2. Sofar(d, s, g[k], j - 1, N)
    BY <1>10, <2>1
  <2>3. g[j] = IF Cuts(d, s, j) THEN Append(g[k], j) ELSE g[k]
    BY <1>8, <2>1
  <2>4. Sofar(d, s, g[j], j, N)
    BY <1>0, <2>1, <2>2, <2>3, SofarStep
  <2>5. j \in S
    BY <2>1, <2>4
  <2> QED BY <2>5 DEF j
<1> HIDE DEF S
<1>11. 0 .. N \subseteq S
  BY <1>0, <1>9, <1>10, UpTo
<1>12. Sofar(d, s, g[N], N, N)
  BY <1>0, <1>11 DEF S
<1> QED BY <1>4, <1>12 DEF Sofar, TodoInv, N

--------------------------------------------------------------------------------
(* Coverage.                                                               *)

LEMMA DivFacts ==
  ASSUME NEW x \in Nat, NEW w \in Nat \ {0}
  PROVE  x \div w \in Nat /\ (x \div w) * w <= x /\ x < (x \div w) * w + w
<1> DEFINE q == x \div w
<1> DEFINE r == x % w
<1>1. q \in Int /\ r \in 0 .. w - 1 /\ x = w * q + r
  OBVIOUS
<1> HIDE DEF q, r
<1>2. w * q = q * w
  BY <1>1
<1>3. ~(q < 0)
  <2> SUFFICES ASSUME q < 0 PROVE FALSE
    OBVIOUS
  <2>1. 0 - q \in Nat /\ 1 <= 0 - q
    BY <1>1
  <2>2. 1 * w <= (0 - q) * w
    BY <2>1, TimesMonotone
  <2>3. (0 - q) * w = 0 - q * w /\ q * w \in Int /\ 1 * w = w
    BY <1>1
  <2> QED BY <1>1, <1>2, <2>2, <2>3
<1>4. q \in Nat /\ q * w \in Nat
  BY <1>1, <1>3
<1> QED BY <1>1, <1>2, <1>4 DEF q

LEMMA DivMonotone ==
  ASSUME NEW x \in Nat, NEW y \in Nat, x <= y, NEW w \in Nat \ {0}
  PROVE  x \div w <= y \div w
<1> DEFINE p == x \div w
<1> DEFINE q == y \div w
<1>1. p \in Nat /\ p * w <= x /\ q \in Nat /\ y < q * w + w
  BY DivFacts
<1> HIDE DEF p, q
<1>2. SUFFICES ASSUME q < p PROVE FALSE
  BY <1>1 DEF p, q
<1>3. (q + 1) * w <= p * w
  BY <1>1, <1>2, TimesMonotone
<1>4. (q + 1) * w = q * w + w /\ q * w \in Nat /\ p * w \in Nat
  BY <1>1
<1> QED BY <1>1, <1>3, <1>4

(* The fill is left out only if every element selected is in some chunk.   *)
LEMMA CoverFacts ==
  ASSUME Reads(ds, slab), ds.layout = "chunked", chunks_cover
  PROVE  Covers(ds, slab)
<1> SUFFICES ASSUME NEW c \in Box(slab) PROVE \E k \in DOMAIN ds.chunks : HoldsAt(ds, k, c)
  BY DEF Covers
<1> DEFINE n == Len(ds.shape)
<1>1. SlabIn(ds, slab, n) /\ Chunks(ds, n) /\ PlaceIn(ds, slab, c, n)
  BY SlabFacts, ChunksFacts, PlaceFacts DEF Reads
<1>2. element_count(slab.count) # 0
  <2>1. Positives(slab.count, n) /\ n = Len(slab.count) /\ IsShape(slab.count)
    BY <1>1 DEF PlaceIn, SlabIn
  <2> QED BY <2>1, CountExact
<1>3. \A cell \in Cells : \E k \in DOMAIN ds.chunks : Marks(k, cell)
  BY <1>2 DEF chunks_cover
<1> DEFINE cell == [a \in 1 .. n |-> c[a] \div ds.chunk[a]]
<1>4. ASSUME NEW a \in 1 .. n
      PROVE  cell[a] \in FirstCell(a) .. LastCell(a) /\ cell[a] \in Nat
             /\ cell[a] * ds.chunk[a] <= c[a] /\ c[a] < cell[a] * ds.chunk[a] + ds.chunk[a]
  <2> DEFINE x == c[a]
  <2> DEFINE b == slab.start[a]
  <2> DEFINE w == slab.count[a]
  <2> DEFINE g == ds.chunk[a]
  <2>1. b \in Nat /\ w \in Nat
    BY <1>1 DEF SlabIn
  <2>2. g \in Nat \ {0}
    BY <1>1 DEF Chunks, Positives
  <2>3. x \in Nat /\ b <= x /\ x < b + w
    <3>1. Len(slab.start) = n /\ n \in Nat /\ \A z \in 1 .. n : slab.start[z] \in Nat /\ slab.count[z] \in Nat
      BY <1>1 DEF SlabIn
    <3> QED BY <3>1, BoxIs
  <2>4. cell[a] = x \div g /\ FirstCell(a) = b \div g /\ LastCell(a) = (b + w - 1) \div g
    BY DEF FirstCell, LastCell
  <2> HIDE DEF x, b, w, g, cell
  <2>5. b + w - 1 \in Nat /\ x <= b + w - 1
    BY <2>1, <2>3
  <2>6. b \div g <= x \div g /\ x \div g <= (b + w - 1) \div g
    BY <2>1, <2>2, <2>3, <2>5, DivMonotone
  <2>7. x \div g \in Nat /\ (x \div g) * g <= x /\ x < (x \div g) * g + g
    BY <2>2, <2>3, DivFacts
  <2>8. b \div g \in Nat /\ (b + w - 1) \div g \in Nat
    BY <2>1, <2>2, <2>5, DivFacts
  <2>9. x \div g \in b \div g .. (b + w - 1) \div g
    BY <2>6, <2>7, <2>8
  <2> QED BY <2>4, <2>7, <2>9 DEF x, g
<1>5. cell \in Cells
  <2>1. cell \in [1 .. n -> UNION {FirstCell(a) .. LastCell(a) : a \in 1 .. n}]
    <3>1. cell = [a \in 1 .. n |-> cell[a]]
      OBVIOUS
    <3> HIDE DEF cell
    <3>2. \A a \in 1 .. n : cell[a] \in UNION {FirstCell(z) .. LastCell(z) : z \in 1 .. n}
      BY <1>4
    <3> QED BY <3>1, <3>2
  <2> HIDE DEF cell
  <2> QED BY <1>4, <2>1 DEF Cells, Rank
<1>6. PICK k \in DOMAIN ds.chunks : Marks(k, cell)
  BY <1>3, <1>5
<1>7. \A a \in 1 .. n : ds.chunks[k].offset[a] = cell[a] * ds.chunk[a]
  BY <1>6 DEF Marks, Rank
<1> HIDE DEF cell
<1>8. HoldsAt(ds, k, c)
  BY <1>4, <1>7 DEF HoldsAt
<1> QED BY <1>8

(* A held element makes its record one the selection wants.                *)
LEMMA HeldIsWanted ==
  ASSUME NEW d, NEW s, Reads(d, s), d.layout = "chunked", NEW k \in 1 .. Len(d.chunks),
         NEW c \in Box(s), HoldsAt(d, k, c)
  PROVE  Cuts(d, s, k)
<1> DEFINE n == Len(d.shape)
<1>1. BoxIn(d, s, k, n) /\ PlaceIn(d, s, c, n)
  BY BoxFacts, PlaceFacts
<1>2. c \in [1 .. n -> Nat]
  BY <1>1 DEF PlaceIn
<1>3. \A a \in 1 .. n : /\ Lo(d, s, k)[a] <= c[a] /\ c[a] < Hi(d, s, k)[a]
                        /\ Lo(d, s, k)[a] \in Nat /\ Hi(d, s, k)[a] \in Nat
  BY <1>1, <1>2 DEF BoxIn
<1> SUFFICES ASSUME NEW a \in 1 .. n PROVE Lo(d, s, k)[a] < Hi(d, s, k)[a]
  BY DEF Cuts
<1> DEFINE x == Lo(d, s, k)[a]
<1> DEFINE y == Hi(d, s, k)[a]
<1> DEFINE z == c[a]
<1>4. x \in Nat /\ y \in Nat /\ z \in Nat /\ x <= z /\ z < y
  BY <1>2, <1>3
<1> HIDE DEF x, y, z
<1>5. x < y
  BY <1>4
<1> QED BY <1>5 DEF x, y

(* Every place of a selection is in its output.                            *)
LEMMA PlaceInOutput ==
  ASSUME NEW d, NEW s, Reads(d, s), Fits(d, s), NEW c \in Box(s)
  PROVE  Place(s, c) \in 0 .. element_count(s.count) - 1
<1> DEFINE n == Len(d.shape)
<1>1. SlabIn(d, s, n) /\ PlaceIn(d, s, c, n)
  BY SlabFacts, PlaceFacts
<1>2. element_count(s.count) # 0
  <2>1. Positives(s.count, n) /\ n = Len(s.count) /\ IsShape(s.count)
    BY <1>1 DEF PlaceIn, SlabIn
  <2> QED BY <2>1, CountExact
<1>3. Sized(d, s, n)
  BY <1>2, SizedFacts
<1> QED BY <1>1, <1>3 DEF PlaceIn, Sized

LEMMA ChunkStart ==
  ASSUME NEW d, NEW s, NEW b, NEW v \in Bases, Reads(d, s), Fits(d, s), d.layout = "chunked",
         Base(d, s, v), b = [e \in 0 .. element_count(s.count) - 1 |-> v]
  PROVE  NextAt(d, s, Needed(d, s), b)
<1> DEFINE N == Len(d.chunks)
<1>1. N \in Nat /\ DOMAIN d.chunks = 1 .. N
  <2>1. Chunks(d, Len(d.shape))
    BY ChunksFacts DEF Reads
  <2> QED BY <2>1 DEF Chunks
<1>2. \A k \in 1 .. N : Cuts(d, s, k) => Waits(Needed(d, s), k)
  BY <1>1, NeededFacts
<1>3. ASSUME NEW c \in Box(s) PROVE b[Place(s, c)] = Shown(d, v, c, Past(d, Needed(d, s), c))
  <2>1. Place(s, c) \in 0 .. element_count(s.count) - 1
    BY PlaceInOutput
  <2>2. \A k \in 1 .. N : HoldsAt(d, k, c) => Waits(Needed(d, s), k)
    BY <1>2, HeldIsWanted
  <2>3. Past(d, Needed(d, s), c) = {}
    BY <1>1, <2>2 DEF Past
  <2> QED BY <2>1, <2>3 DEF Shown
<1> QED BY <1>3 DEF NextAt

--------------------------------------------------------------------------------
(* The steps, by the operators above.                                      *)

LEMMA StateIs ==
  /\ needed = Needed(ds, slab)
  /\ DenseRun = Run(ds, slab, index)
  /\ (IF Rank = 0 THEN 0 ELSE FirstAxis - 1) = Outer(ds, slab)
  /\ \A k : ChunkRun(k) = RowRun(ds, slab, k, lo, hi, index)
  /\ \A k : BoxLo(k) = Lo(ds, slab, k) /\ BoxHi(k) = Hi(ds, slab, k)
  /\ \A k, run : Copied(k, run) = Pasted(out, k, run)
<1>1. \A k : BoxLo(k) = Lo(ds, slab, k) /\ BoxHi(k) = Hi(ds, slab, k)
  BY DEF BoxLo, BoxHi, Lo, Hi, Rank
<1>2. needed = Needed(ds, slab)
  BY DEF needed, Needed, intersects, Cuts, BoxLo, BoxHi, Lo, Hi, Rank
<1>3. FirstAxis = First(ds, slab)
  BY DEF FirstAxis, First, Rank
<1>4. (IF Rank = 0 THEN 0 ELSE FirstAxis - 1) = Outer(ds, slab)
  BY <1>3 DEF Outer, Rank
<1>5. DenseRun = Run(ds, slab, index)
  BY <1>3 DEF DenseRun, Run, Rank
<1>6. \A k : ChunkRun(k) = RowRun(ds, slab, k, lo, hi, index)
  BY DEF ChunkRun, RowRun, Rank
<1>7. \A k, run : Copied(k, run) = Pasted(out, k, run)
  BY DEF Copied, Pasted
<1> QED BY <1>1, <1>2, <1>4, <1>5, <1>6, <1>7

LEMMA InitInv == Init => IInv
  BY DEF Init, IInv, Control, Records, Loops, Ended

LEMMA CallInv ==
  ASSUME IInv, NEW d \in Datasets, NEW s \in Slabs(d), Call(d, s)
  PROVE  IInv'
<1>1. phase = "idle" /\ ds' = d /\ slab' = s
  BY DEF Call
<1>2. result = "none"
  BY <1>1 DEF IInv, Control
<1>3. CASE ~Valid(d, s)
  <2>1. phase' = "done" /\ result' = "BadRequest"
    BY <1>3 DEF Call, End
  <2> QED BY <2>1 DEF IInv, Control, Records, Loops, Ended
<1>4. CASE Valid(d, s)
  <2>1. phase' = "start" /\ result' = "none"
    BY <1>2, <1>4 DEF Call, End
  <2>2. Reads(ds', slab')
    BY <1>1, <1>4 DEF Reads
  <2> QED BY <2>1, <2>2 DEF IInv, Control, Records, Loops, Ended
<1> QED BY <1>3, <1>4

LEMMA ListInv ==
  ASSUME IInv, NEW d \in Datasets, ListChunks(d)
  PROVE  IInv'
<1>1. phase' = "listed" /\ ds' = d /\ listed' = chunks_of(d) /\ phase = "idle" /\ result' = result
  BY DEF ListChunks
<1>2. result' = "none"
  BY <1>1 DEF IInv, Control
<1>3. listed' = chunks_of(ds')
  BY <1>1
<1> QED BY <1>1, <1>2, <1>3 DEF IInv, Control, Records, Loops, Ended

LEMMA ReturnInv ==
  ASSUME Return
  PROVE  IInv'
<1>1. phase' = "idle" /\ result' = "none"
  BY DEF Return
<1> QED BY <1>1 DEF IInv, Control, Records, Loops, Ended

LEMMA StartInv ==
  ASSUME IInv, Start
  PROVE  IInv'
<1> DEFINE v == IF selection_is_covered THEN Zero ELSE Fill
<1> DEFINE n == element_count(slab.count)
<1>1. phase = "start" /\ ds' = ds /\ slab' = slab
  BY DEF Start
<1>2. Reads(ds, slab) /\ result = "none"
  BY <1>1 DEF IInv, Control
<1>3. out' = [e \in 0 .. n - 1 |-> v]
  BY DEF Start
<1>4. v \in Bases
  BY DEF Bases
<1>5. ds.layout \in {"compact", "contiguous", "unwritten", "chunked"}
  BY <1>2, DatasetsAssumption DEF Reads
<1>6. CASE ds.layout = "unwritten"
  <2>1. phase' = "done" /\ result' = "ok"
    BY <1>6 DEF Start, End
  <2>2. v = Fill
    BY <1>6 DEF selection_is_covered
  <2>3. Fits(ds, slab) => Values(ds, slab, out')
    <3> SUFFICES ASSUME Fits(ds, slab), NEW c \in Box(slab)
                 PROVE  out'[Place(slab, c)] = Fill
      BY <1>6 DEF Values, Wanted
    <3>1. Place(slab, c) \in 0 .. n - 1
      BY <1>2, PlaceInOutput
    <3> QED BY <1>3, <2>2, <3>1
  <2> QED BY <1>1, <1>2, <2>1, <2>3 DEF IInv, Control, Records, Loops, Ended
<1>7. CASE ds.layout = "chunked"
  <2>1. phase' = "next" /\ todo' = needed /\ result' = "none"
    BY <1>2, <1>7 DEF Start, End
  <2>2. todo' = Needed(ds, slab)
    BY <2>1, StateIs
  <2>3. TodoInv(ds, slab, todo')
    <3>1. Chunks(ds, Len(ds.shape))
      BY <1>2, <1>7, ChunksFacts DEF Reads
    <3> QED BY <2>2, <3>1, NeededFacts DEF Chunks
  <2>4. Base(ds, slab, v)
    <3>1. ASSUME v = Zero PROVE Covers(ds, slab)
      <4>1. selection_is_covered
        BY <3>1 DEF Zero, Fill
      <4>2. chunks_cover
        BY <1>7, <4>1 DEF selection_is_covered
      <4> QED BY <1>2, <1>7, <4>2, CoverFacts
    <3> QED BY <3>1 DEF Base
  <2>5. Fits(ds, slab) => NextAt(ds, slab, todo', out')
    <3> HIDE DEF v
    <3> QED BY <1>2, <1>3, <1>4, <1>7, <2>2, <2>4, ChunkStart
  <2> QED BY <1>1, <1>2, <1>7, <2>1, <2>3, <2>5 DEF IInv, Control, Records, Loops, Ended
<1>8. CASE ds.layout \in {"compact", "contiguous"}
  <2> DEFINE m == IF Rank = 0 THEN 0 ELSE FirstAxis - 1
  <2>1. /\ phase' = "dense" /\ result' = "none" /\ index' = Zeros(m)
        /\ left' = IF n = 0 THEN 0 ELSE element_count(SubSeq(slab.count, 1, Len(index')))
    BY <1>2, <1>8 DEF Start, End
  <2>2. m = Outer(ds, slab)
    BY StateIs
  <2> HIDE DEF m
  <2>3. n # 0 /\ Fits(ds, slab) => Len(Zeros(m)) = m
    <3> SUFFICES ASSUME n # 0, Fits(ds, slab) PROVE Len(Zeros(m)) = m
      OBVIOUS
    <3>1. DenseRead(ds, slab)
      BY <1>2, <1>8 DEF DenseRead
    <3>2. Outer(ds, slab) \in Nat
      BY <3>1, TurnsFacts DEF Turns
    <3> QED BY <2>2, <3>2, ZerosFacts
  <2>4. ASSUME Fits(ds, slab) PROVE DenseAt(ds, slab, index', left', out')
    <3>1. left' = IF element_count(slab.count) = 0 THEN 0
                  ELSE element_count(SubSeq(slab.count, 1, Outer(ds, slab)))
      BY <2>1, <2>2, <2>3, <2>4
    <3>2. index' = Zeros(Outer(ds, slab))
      BY <2>1, <2>2
    <3>3. out' = [e \in 0 .. element_count(slab.count) - 1 |-> v]
      BY <1>3
    <3> HIDE DEF v
    <3> QED BY <1>2, <1>4, <1>8, <2>4, <3>1, <3>2, <3>3, DenseStart
  <2> QED BY <1>1, <1>2, <1>8, <2>1, <2>4 DEF IInv, Control, Records, Loops, Ended
<1> QED BY <1>5, <1>6, <1>7, <1>8

LEMMA CopyDenseInv ==
  ASSUME IInv, CopyDense
  PROVE  IInv'
<1> DEFINE run == Run(ds, slab, index)
<1>1. phase = "dense" /\ left > 0 /\ ds' = ds /\ slab' = slab
  BY DEF CopyDense
<1>2. Reads(ds, slab) /\ result = "none" /\ ds.layout \in {"compact", "contiguous"}
  BY <1>1 DEF IInv, Control
<1>3. Fits(ds, slab) => DenseAt(ds, slab, index, left, out)
  BY <1>1 DEF IInv, Loops
<1>4. DenseRun = run /\ Copied(0, run) = Pasted(out, 0, run)
  BY StateIs
<1> HIDE DEF run
<1>5. CASE run.src + run.len > ds.stored /\ End("TooShort")
  <2>1. phase' = "done" /\ result' = "TooShort"
    BY <1>5 DEF End
  <2>2. Fits(ds, slab) => PastEnd(ds, slab)
    BY <1>1, <1>2, <1>3, <1>5, DenseShort DEF run
  <2> QED BY <1>1, <1>2, <2>1, <2>2 DEF IInv, Control, Records, Loops, Ended
<1>6. CASE /\ out' = Copied(0, run) /\ index' = Turn(index, slab.count)
           /\ left' = left - 1 /\ UNCHANGED <<phase, result>>
  <2>1. phase' = "dense" /\ result' = "none"
    BY <1>1, <1>2, <1>6
  <2>2. Fits(ds, slab) => DenseAt(ds, slab, index', left', out')
    BY <1>1, <1>2, <1>3, <1>4, <1>6, DenseStep DEF run
  <2> QED BY <1>1, <1>2, <2>1, <2>2 DEF IInv, Control, Records, Loops, Ended
<1> QED BY <1>4, <1>5, <1>6 DEF CopyDense

LEMMA DenseDoneInv ==
  ASSUME IInv, DenseDone
  PROVE  IInv'
<1>1. /\ phase = "dense" /\ left = 0 /\ ds' = ds /\ slab' = slab /\ out' = out
      /\ phase' = "done" /\ result' = "ok"
  BY DEF DenseDone, End
<1>2. Reads(ds, slab) /\ ds.layout \in {"compact", "contiguous"}
  BY <1>1 DEF IInv, Control
<1>3. Fits(ds, slab) => DenseAt(ds, slab, index, 0, out)
  BY <1>1 DEF IInv, Loops
<1>4. Fits(ds, slab) => Values(ds, slab, out)
  BY <1>2, <1>3, DenseEnd
<1> QED BY <1>1, <1>2, <1>4 DEF IInv, Control, Records, Loops, Ended

LEMMA NextChunkInv ==
  ASSUME IInv, NextChunk
  PROVE  IInv'
<1> DEFINE k == Head(todo)
<1>1. /\ phase = "next" /\ todo # <<>> /\ ds' = ds /\ slab' = slab /\ todo' = todo /\ out' = out
  BY DEF NextChunk
<1>2. Reads(ds, slab) /\ result = "none" /\ ds.layout = "chunked" /\ TodoInv(ds, slab, todo)
  BY <1>1 DEF IInv, Control, Records
<1>3. Fits(ds, slab) => NextAt(ds, slab, todo, out)
  BY <1>1 DEF IInv, Loops
<1>4. Chunks(ds, Len(ds.shape))
  BY <1>2, ChunksFacts DEF Reads
<1>5. k \in 1 .. Len(ds.chunks) /\ Cuts(ds, slab, k) /\ DOMAIN ds.chunks = 1 .. Len(ds.chunks)
  <2>1. HeadIn(ds, slab, todo, k)
    BY <1>1, <1>2, <1>4, HeadFacts DEF Chunks
  <2> QED BY <1>4, <2>1 DEF HeadIn, Chunks
<1>6. CASE ds.chunks[k].size = 0 /\ End("Short")
  <2>1. phase' = "done" /\ result' = "Short"
    BY <1>6 DEF End
  <2>2. NoBytes(ds, slab)
    <3>1. \E c \in Box(slab) : HoldsAt(ds, k, c)
      BY <1>2, <1>5, WantedRecord
    <3> QED BY <1>5, <1>6, <3>1 DEF NoBytes
  <2> QED BY <1>1, <1>2, <2>1, <2>2 DEF IInv, Control, Records, Loops, Ended
<1>7. CASE /\ lo' = BoxLo(k) /\ hi' = BoxHi(k) /\ index' = Zeros(Rank - 1)
           /\ left' = element_count([a \in 1 .. Rank - 1 |-> hi'[a] - lo'[a]])
           /\ phase' = "copy" /\ UNCHANGED result
  <2>1. lo' = Lo(ds, slab, k) /\ hi' = Hi(ds, slab, k)
    BY <1>7, StateIs
  <2>2. left' = element_count(Minus(hi', lo', Len(ds.shape) - 1)) /\ index' = Zeros(Len(ds.shape) - 1)
    BY <1>7 DEF Minus, Rank
  <2>3. Fits(ds, slab) => CopyAt(ds, slab, todo, lo', hi', index', left', out)
    BY <1>1, <1>2, <1>3, <2>1, <2>2, CopyStart
  <2> QED BY <1>1, <1>2, <1>7, <2>3 DEF IInv, Control, Records, Loops, Ended
<1> QED BY <1>6, <1>7 DEF NextChunk

LEMMA CopyChunkInv ==
  ASSUME IInv, CopyChunk
  PROVE  IInv'
<1> DEFINE k == Head(todo)
<1> DEFINE run == RowRun(ds, slab, k, lo, hi, index)
<1>1. /\ phase = "copy" /\ left > 0 /\ ds' = ds /\ slab' = slab /\ todo' = todo
      /\ lo' = lo /\ hi' = hi /\ phase' = "copy" /\ result' = result
      /\ out' = Copied(k, ChunkRun(k)) /\ index' = Turn(index, Minus(hi, lo, Rank - 1)) /\ left' = left - 1
  BY DEF CopyChunk
<1>2. /\ Reads(ds, slab) /\ result = "none" /\ ds.layout = "chunked" /\ TodoInv(ds, slab, todo)
      /\ todo # <<>>
  BY <1>1 DEF IInv, Control, Records
<1>3. Fits(ds, slab) => CopyAt(ds, slab, todo, lo, hi, index, left, out)
  BY <1>1 DEF IInv, Loops
<1>4. out' = Pasted(out, k, run)
  <2>1. ChunkRun(k) = run
    BY StateIs
  <2>2. Copied(k, run) = Pasted(out, k, run)
    BY StateIs
  <2> QED BY <1>1, <2>1, <2>2
<1>5. index' = Turn(index, Minus(hi, lo, Len(ds.shape) - 1))
  BY <1>1 DEF Rank
<1>6. Fits(ds, slab) => CopyAt(ds, slab, todo, lo, hi, index', left', out')
  BY <1>1, <1>2, <1>3, <1>4, <1>5, CopyStep
<1> QED BY <1>1, <1>2, <1>6 DEF IInv, Control, Records, Loops, Ended

LEMMA ChunkDoneInv ==
  ASSUME IInv, ChunkDone
  PROVE  IInv'
<1>1. /\ phase = "copy" /\ left = 0 /\ ds' = ds /\ slab' = slab /\ todo' = Tail(todo)
      /\ out' = out /\ phase' = "next" /\ result' = result
  BY DEF ChunkDone
<1>2. /\ Reads(ds, slab) /\ result = "none" /\ ds.layout = "chunked" /\ TodoInv(ds, slab, todo)
      /\ todo # <<>>
  BY <1>1 DEF IInv, Control, Records
<1>3. Fits(ds, slab) => CopyAt(ds, slab, todo, lo, hi, index, 0, out)
  BY <1>1 DEF IInv, Loops
<1>4. TodoInv(ds, slab, Tail(todo))
  <2>1. Chunks(ds, Len(ds.shape))
    BY <1>2, ChunksFacts DEF Reads
  <2>2. HeadIn(ds, slab, todo, Head(todo))
    BY <1>2, <2>1, HeadFacts DEF Chunks
  <2> QED BY <2>2 DEF HeadIn
<1>5. Fits(ds, slab) => NextAt(ds, slab, Tail(todo), out)
  BY <1>2, <1>3, CopyEnd
<1> QED BY <1>1, <1>2, <1>4, <1>5 DEF IInv, Control, Records, Loops, Ended

LEMMA ChunksDoneInv ==
  ASSUME IInv, ChunksDone
  PROVE  IInv'
<1>1. /\ phase = "next" /\ todo = <<>> /\ ds' = ds /\ slab' = slab /\ out' = out
      /\ phase' = "done" /\ result' = "ok"
  BY DEF ChunksDone, End
<1>2. Reads(ds, slab) /\ ds.layout = "chunked"
  BY <1>1 DEF IInv, Control
<1>3. Fits(ds, slab) => NextAt(ds, slab, <<>>, out)
  BY <1>1 DEF IInv, Loops
<1>4. Fits(ds, slab) => Values(ds, slab, out)
  BY <1>2, <1>3, ChunksEnd
<1> QED BY <1>1, <1>2, <1>4 DEF IInv, Control, Records, Loops, Ended

(* The invariant.                                                          *)
LEMMA Invariant == Spec => []IInv
<1>1. ASSUME IInv, [Next]_vars PROVE IInv'
  <2>1. CASE UNCHANGED vars
    BY <1>1, <2>1 DEF vars, IInv, Control, Records, Loops, Ended
  <2>2. ASSUME NEW d \in Datasets, ListChunks(d) PROVE IInv'
    BY <1>1, <2>2, ListInv
  <2>3. ASSUME NEW d \in Datasets, NEW s \in Slabs(d), Call(d, s) PROVE IInv'
    BY <1>1, <2>3, CallInv
  <2>4. CASE Start
    BY <1>1, <2>4, StartInv
  <2>5. CASE CopyDense
    BY <1>1, <2>5, CopyDenseInv
  <2>6. CASE DenseDone
    BY <1>1, <2>6, DenseDoneInv
  <2>7. CASE NextChunk
    BY <1>1, <2>7, NextChunkInv
  <2>8. CASE CopyChunk
    BY <1>1, <2>8, CopyChunkInv
  <2>9. CASE ChunkDone
    BY <1>1, <2>9, ChunkDoneInv
  <2>10. CASE ChunksDone
    BY <1>1, <2>10, ChunksDoneInv
  <2>11. CASE Return
    BY <2>11, ReturnInv
  <2> QED BY <1>1, <2>1, <2>2, <2>3, <2>4, <2>5, <2>6, <2>7, <2>8, <2>9, <2>10, <2>11 DEF Next, Read
<1> QED BY <1>1, InitInv, PTL DEF Spec

LEMMA HoldsIs ==
  ASSUME Reads(ds, slab), NEW c \in Box(slab), NEW k
  PROVE  Holds(k, c) <=> HoldsAt(ds, k, c)
<1>1. PlaceIn(ds, slab, c, Len(ds.shape))
  BY PlaceFacts
<1>2. DOMAIN c = 1 .. Len(ds.shape)
  BY <1>1 DEF PlaceIn
<1> QED BY <1>2 DEF Holds, HoldsAt

(* A read that is not refused, whose elements are fewer than the largest   *)
(* number, copies every element selected once, from its place in the data  *)
(* or in the last chunk that holds it to its place in the output; a run    *)
(* never leaves its chunk or the output, and a skipped fill pass never     *)
(* shows (read.rs:639-842 and 880-969).                                    *)
THEOREM ReadsAreExact == Spec => [](Fits(ds, slab) => CopiesAreExact)
<1>1. ASSUME IInv, Fits(ds, slab) PROVE ValuesAreSelected
  <2> SUFFICES ASSUME result = "ok", NEW c \in Box(slab)
               PROVE  out[Flat(slab.count, Minus(c, slab.start, Rank))] = Expected(c)
    BY DEF ValuesAreSelected
  <2>1. Reads(ds, slab) /\ Values(ds, slab, out)
    BY <1>1 DEF IInv, Control, Ended
  <2>2. out[Place(slab, c)] = Wanted(ds, c)
    BY <2>1 DEF Values
  <2>3. Flat(slab.count, Minus(c, slab.start, Rank)) = Place(slab, c)
    <3>1. SlabIn(ds, slab, Len(ds.shape))
      BY <2>1, SlabFacts
    <3>2. Len(slab.count) = Rank
      BY <3>1 DEF SlabIn, Rank
    <3> QED BY <3>2 DEF Place
  <2>4. {k \in DOMAIN ds.chunks : Holds(k, c)} = {k \in DOMAIN ds.chunks : HoldsAt(ds, k, c)}
    BY <2>1, HoldsIs
  <2>5. Expected(c) = Wanted(ds, c)
    BY <2>4 DEF Expected, Wanted, Shown, Rank
  <2> QED BY <2>2, <2>3, <2>5
<1>2. ASSUME IInv, Fits(ds, slab) PROVE RunsFitAndAreDisjoint
  <2> SUFFICES ASSUME left > 0 PROVE RunsFitAndAreDisjoint
    BY DEF RunsFitAndAreDisjoint
  <2>1. CASE phase = "copy"
    <3> DEFINE k == Head(todo)
    <3> DEFINE run == ChunkRun(k)
    <3>1. /\ Reads(ds, slab) /\ ds.layout = "chunked" /\ TodoInv(ds, slab, todo) /\ todo # <<>>
          /\ CopyAt(ds, slab, todo, lo, hi, index, left, out)
      BY <1>2, <2>1 DEF IInv, Control, Records, Loops
    <3>2. run = RowRun(ds, slab, k, lo, hi, index)
      BY StateIs
    <3>3. /\ run.src + run.len <= element_count(ds.chunk)
          /\ \A e \in run.dst .. run.dst + run.len - 1 : e \in DOMAIN out /\ NotFrom(out[e], k)
      BY <1>2, <3>1, <3>2, CopyFits
    <3> HIDE DEF run, k
    <3>4. \A e \in run.dst .. run.dst + run.len - 1 :
            e \in DOMAIN out /\ <<out[e][1], out[e][2]>> # <<"data", k>>
      BY <3>3 DEF NotFrom
    <3> QED BY <2>1, <3>3, <3>4 DEF RunsFitAndAreDisjoint, run, k
  <2>2. CASE phase = "dense"
    <3> DEFINE run == DenseRun
    <3>1. /\ Reads(ds, slab) /\ ds.layout \in {"compact", "contiguous"}
          /\ DenseAt(ds, slab, index, left, out)
      BY <1>2, <2>2 DEF IInv, Control, Loops
    <3>2. run = Run(ds, slab, index)
      BY StateIs
    <3>3. \A e \in run.dst .. run.dst + run.len - 1 : e \in DOMAIN out /\ out[e] \in Bases
      BY <1>2, <3>1, <3>2, DenseFits
    <3> HIDE DEF run
    <3>4. \A x \in Bases : <<x[1], x[2]>> # <<"data", 0>>
      BY DEF Bases, Zero, Fill
    <3>5. \A e \in run.dst .. run.dst + run.len - 1 :
            e \in DOMAIN out /\ <<out[e][1], out[e][2]>> # <<"data", 0>>
      BY <3>3, <3>4
    <3> QED BY <2>2, <3>5 DEF RunsFitAndAreDisjoint, run
  <2>3. CASE phase \notin {"copy", "dense"}
    BY <2>3 DEF RunsFitAndAreDisjoint
  <2> QED BY <2>1, <2>2, <2>3
<1>3. IInv => (Fits(ds, slab) => CopiesAreExact)
  BY <1>1, <1>2 DEF CopiesAreExact
<1> QED BY <1>3, Invariant, PTL

(* Such a read fails only if an element selected lies past the end of the  *)
(* data, or, against read.rs:667-669, in a chunk that has no bytes.        *)
THEOREM FailuresHaveCauses == Spec => [](Fits(ds, slab) => FailureHasCause)
<1>1. ASSUME IInv, Fits(ds, slab) PROVE FailureHasCause
  <2>1. ASSUME result = "TooShort" PROVE \E c \in Box(slab) : Flat(ds.shape, c) >= ds.stored
    BY <1>1, <2>1 DEF IInv, Ended, PastEnd
  <2>2. ASSUME result = "Short"
        PROVE  UnwrittenIsFatal
    <3>1. Reads(ds, slab) /\ NoBytes(ds, slab)
      BY <1>1, <2>2 DEF IInv, Control, Ended
    <3> QED BY <3>1, HoldsIs DEF NoBytes, UnwrittenIsFatal
  <2> QED BY <2>1, <2>2 DEF FailureHasCause
<1> QED BY <1>1, Invariant, PTL

--------------------------------------------------------------------------------
(* The listing.                                                            *)

(* A chunk on the grid that holds a coordinate is on the coordinate's cell.*)
LEMMA GridUnique ==
  ASSUME NEW c \in Nat, NEW z \in Nat, NEW g \in Nat \ {0}, z % g = 0, z <= c, c < z + g
  PROVE  c - (c % g) = z
<1> DEFINE q == c \div g
<1> DEFINE r == c % g
<1> DEFINE p == z \div g
<1>1. q \in Nat /\ p \in Nat
  BY DivFacts
<1> DEFINE t == z % g
<1>2. r \in 0 .. g - 1 /\ c = g * q + r
  OBVIOUS
<1>3. z = g * p + t
  OBVIOUS
<1>4. z = p * g /\ q * g \in Nat /\ c = q * g + r
  <2>1. t = 0
    OBVIOUS
  <2> HIDE DEF q, r, p, t
  <2>2. g * q = q * g /\ g * p = p * g /\ q * g \in Nat /\ p * g \in Nat
    BY <1>1
  <2> QED BY <1>2, <1>3, <2>1, <2>2
<1> HIDE DEF q, r, p, t
<1>5. c - z \in 0 .. g - 1
  OBVIOUS
<1>6. q * g + r = p * g + (c - z)
  BY <1>2, <1>4
<1>7. q = p /\ r = c - z
  BY <1>1, <1>2, <1>5, <1>6, PlaceUnique
<1> QED BY <1>2, <1>4, <1>7 DEF r

(* And that cell holds it.                                                 *)
LEMMA GridHolds ==
  ASSUME NEW c \in Nat, NEW g \in Nat \ {0}, NEW z, c - (c % g) = z
  PROVE  z \in Nat /\ z <= c /\ c < z + g
<1> DEFINE q == c \div g
<1> DEFINE r == c % g
<1>1. q \in Nat
  BY DivFacts
<1>2. r \in 0 .. g - 1 /\ c = g * q + r
  OBVIOUS
<1>3. z = c - r
  OBVIOUS
<1> HIDE DEF q, r
<1> DEFINE m == g * q
<1>4. m \in Nat /\ c = m + r
  BY <1>1, <1>2
<1> HIDE DEF m
<1> QED BY <1>2, <1>3, <1>4

(* What is listed of a chunk that starts inside.                           *)
ClippedIn(d, k, s, n) ==
  /\ Len(s.start) = n
  /\ \A a \in 1 .. n : /\ s.start[a] \in Nat /\ s.count[a] \in Nat
                       /\ s.start[a] = d.chunks[k].offset[a]
                       /\ s.count[a] <= d.chunk[a]
                       /\ s.count[a] = d.chunk[a] \/ s.start[a] + s.count[a] = d.shape[a]
                       /\ s.start[a] + s.count[a] <= d.shape[a] /\ d.shape[a] <= MaxU64
LEMMA ClippedFacts ==
  ASSUME NEW d \in Datasets, d.layout = "chunked", NEW k \in DOMAIN d.chunks, Inside(d, k)
  PROVE  ClippedIn(d, k, Clipped(d, k), Len(d.shape))
<1> DEFINE n == Len(d.shape)
<1> DEFINE s == Clipped(d, k)
<1>1. Chunks(d, n)
  BY ChunksFacts
<1>2. d.chunks \in Seq([offset : [DOMAIN d.shape -> 0 .. Width - 1], size : Nat])
  BY DatasetsAssumption
<1>3. n \in Nat /\ DOMAIN d.shape = 1 .. n
  BY <1>1 DEF Chunks
<1> HIDE DEF n
<1> DEFINE R == [offset : [1 .. n -> 0 .. Width - 1], size : Nat]
<1>4. d.chunks \in Seq(R)
  BY <1>2, <1>3
<1>5. d.chunks[k] \in R
  <2> HIDE DEF R
  <2> QED BY <1>4
<1>6. d.chunks[k].offset \in [1 .. n -> 0 .. Width - 1]
  BY <1>5
<1>7. s.start = d.chunks[k].offset
  BY DEF Clipped
<1>8. Len(s.start) = n
  <2> DEFINE z == d.chunks[k].offset
  <2>1. z \in [1 .. n -> 0 .. Width - 1]
    BY <1>6
  <2> HIDE DEF z
  <2>2. Len(z) = n
    BY <1>3, <2>1
  <2> QED BY <1>7, <2>2 DEF z
<1>9. ASSUME NEW a \in 1 .. n
      PROVE  /\ s.start[a] \in Nat /\ s.count[a] \in Nat
             /\ s.start[a] = d.chunks[k].offset[a]
             /\ s.count[a] <= d.chunk[a]
             /\ s.count[a] = d.chunk[a] \/ s.start[a] + s.count[a] = d.shape[a]
             /\ s.start[a] + s.count[a] <= d.shape[a] /\ d.shape[a] <= MaxU64
  <2> DEFINE z == d.chunks[k].offset[a]
  <2> DEFINE g == d.chunk[a]
  <2> DEFINE w == d.shape[a]
  <2>1. z \in 0 .. Width - 1
    BY <1>6
  <2>2. g \in Nat \ {0}
    BY <1>1 DEF Chunks, Positives
  <2>3. w \in 0 .. Width - 1
    <3> DEFINE T == 0 .. Width - 1
    <3>1. d.shape \in Seq(T)
      BY DatasetsAssumption
    <3> HIDE DEF T
    <3>2. d.shape[a] \in T
      BY <1>3, <3>1
    <3> QED BY <3>2 DEF T
  <2>4. z < w
    BY <1>3 DEF Inside
  <2>5. s.count[a] = Lesser(g, w - z)
    BY <1>3 DEF Clipped
  <2>6. s.start[a] = z
    BY <1>7
  <2> HIDE DEF z, g, w, s
  <2>7. z \in Nat /\ w \in Nat /\ w <= MaxU64
    BY <2>1, <2>3, WidthAssumption DEF MaxU64
  <2>8. /\ s.count[a] \in Nat /\ s.count[a] <= g /\ z + s.count[a] <= w
        /\ s.count[a] = g \/ z + s.count[a] = w
    BY <2>2, <2>4, <2>5, <2>7 DEF Lesser
  <2> QED BY <2>6, <2>7, <2>8 DEF z, g, w
<1> QED BY <1>8, <1>9 DEF ClippedIn, n

(* An element of the dataset is listed with the chunk of its cell, and     *)
(* with no other.                                                          *)
OnCell(d, k, c) == \A a \in 1 .. Len(d.shape) : c[a] - (c[a] % d.chunk[a]) = d.chunks[k].offset[a]
WholeBox(d) == Box([start |-> Zeros(Len(d.shape)), count |-> d.shape])

LEMMA WholeBoxIs ==
  ASSUME NEW d \in Datasets, NEW c
  PROVE  /\ Len(d.shape) \in Nat /\ DOMAIN d.shape = 1 .. Len(d.shape)
         /\ \A a \in 1 .. Len(d.shape) : d.shape[a] \in Nat /\ d.shape[a] <= MaxU64
         /\ Len(Zeros(Len(d.shape))) = Len(d.shape)
         /\ c \in WholeBox(d) <=>
              c \in [1 .. Len(d.shape) -> Nat] /\ \A a \in 1 .. Len(d.shape) : c[a] < d.shape[a]
<1> DEFINE n == Len(d.shape)
<1> DEFINE s == [start |-> Zeros(n), count |-> d.shape]
<1>1. n \in Nat /\ DOMAIN d.shape = 1 .. n /\ \A a \in 1 .. n : d.shape[a] \in 0 .. Width - 1
  <2> DEFINE T == 0 .. Width - 1
  <2>1. d.shape \in Seq(T)
    BY DatasetsAssumption
  <2> HIDE DEF T
  <2>2. n \in Nat /\ DOMAIN d.shape = 1 .. n /\ \A a \in 1 .. n : d.shape[a] \in T
    BY <2>1
  <2> QED BY <2>2 DEF T
<1>2. \A a \in 1 .. n : d.shape[a] \in Nat /\ d.shape[a] <= MaxU64
  BY <1>1, WidthAssumption DEF MaxU64
<1>3. Len(Zeros(n)) = n /\ \A a \in 1 .. n : Zeros(n)[a] = 0
  <2> HIDE DEF n
  <2> QED BY <1>1 DEF Zeros
<1>4. s.start = Zeros(n) /\ s.count = d.shape
  OBVIOUS
<1>5. WholeBox(d) = Box(s)
  BY DEF WholeBox
<1> HIDE DEF n, s
<1>6. Len(s.start) = n /\ \A a \in 1 .. n : s.start[a] \in Nat /\ s.count[a] \in Nat
  BY <1>2, <1>3, <1>4
<1>7. c \in Box(s) <=>
        /\ c \in [1 .. n -> Nat]
        /\ \A a \in 1 .. n : s.start[a] <= c[a] /\ c[a] < s.start[a] + s.count[a]
  BY <1>1, <1>6, BoxIs
<1>8. c \in Box(s) <=> c \in [1 .. n -> Nat] /\ \A a \in 1 .. n : c[a] < d.shape[a]
  BY <1>2, <1>3, <1>4, <1>7
<1> QED BY <1>1, <1>2, <1>3, <1>5, <1>8 DEF n

LEMMA InClipped ==
  ASSUME NEW d \in Datasets, d.layout = "chunked", NEW c \in WholeBox(d),
         NEW k \in DOMAIN d.chunks
  PROVE  /\ OnCell(d, k, c) => Inside(d, k) /\ c \in Box(Clipped(d, k))
         /\ Inside(d, k) /\ (\A a \in 1 .. Len(d.shape) : d.chunks[k].offset[a] % d.chunk[a] = 0)
              /\ c \in Box(Clipped(d, k)) => OnCell(d, k, c)
<1> DEFINE n == Len(d.shape)
<1> DEFINE s == Clipped(d, k)
<1>1. n \in Nat /\ DOMAIN d.shape = 1 .. n /\ c \in [1 .. n -> Nat]
      /\ \A a \in 1 .. n : c[a] \in Nat /\ c[a] < d.shape[a] /\ d.shape[a] \in Nat
  BY WholeBoxIs
<1>2. \A a \in 1 .. n : d.chunk[a] \in Nat \ {0} /\ d.chunks[k].offset[a] \in Nat
  BY ChunksFacts DEF Chunks, Positives
<1>3. Inside(d, k) => ClippedIn(d, k, s, n)
  BY ClippedFacts
<1>4. Inside(d, k) =>
        (c \in Box(s) <=> \A a \in 1 .. n : s.start[a] <= c[a] /\ c[a] < s.start[a] + s.count[a])
  <2> SUFFICES ASSUME ClippedIn(d, k, s, n)
               PROVE  c \in Box(s) <=> \A a \in 1 .. n : s.start[a] <= c[a] /\ c[a] < s.start[a] + s.count[a]
    BY <1>3
  <2> HIDE DEF s, n
  <2>1. Len(s.start) = n /\ \A a \in 1 .. n : s.start[a] \in Nat /\ s.count[a] \in Nat
    BY DEF ClippedIn
  <2> QED BY <1>1, <2>1, BoxIs
<1>5. ASSUME OnCell(d, k, c) PROVE Inside(d, k) /\ c \in Box(s)
  <2>1. \A a \in 1 .. n : d.chunks[k].offset[a] <= c[a] /\ c[a] < d.chunks[k].offset[a] + d.chunk[a]
    <3> TAKE a \in 1 .. n
    <3>1. c[a] - (c[a] % d.chunk[a]) = d.chunks[k].offset[a]
      BY <1>5 DEF OnCell
    <3> QED BY <1>1, <1>2, <3>1, GridHolds
  <2>2. Inside(d, k)
    <3> SUFFICES ASSUME NEW a \in 1 .. n PROVE d.chunks[k].offset[a] < d.shape[a]
      BY <1>1 DEF Inside
    <3> DEFINE z == d.chunks[k].offset[a]
    <3>1. z \in Nat /\ z <= c[a] /\ c[a] < d.shape[a] /\ c[a] \in Nat /\ d.shape[a] \in Nat
      BY <1>1, <1>2, <2>1
    <3> HIDE DEF z
    <3>2. z < d.shape[a]
      BY <3>1
    <3> QED BY <3>2 DEF z
  <2>3. ClippedIn(d, k, s, n)
    BY <1>3, <2>2
  <2> HIDE DEF s
  <2>4. ASSUME NEW a \in 1 .. n PROVE s.start[a] <= c[a] /\ c[a] < s.start[a] + s.count[a]
    <3> DEFINE z == s.start[a]
    <3> DEFINE v == s.count[a]
    <3> DEFINE g == d.chunk[a]
    <3> DEFINE w == d.shape[a]
    <3>1. /\ z \in Nat /\ v \in Nat /\ z = d.chunks[k].offset[a]
          /\ v = g \/ z + v = w
      BY <2>3 DEF ClippedIn
    <3>2. z <= c[a] /\ c[a] < z + g
      BY <2>1, <3>1
    <3>3. c[a] < w /\ w \in Nat
      BY <1>1
    <3> HIDE DEF z, v, g, w
    <3>4. c[a] < z + v
      BY <3>1, <3>2, <3>3
    <3> QED BY <3>2, <3>4 DEF z, v
  <2> QED BY <1>4, <2>2, <2>4
<1>6. ASSUME Inside(d, k), \A a \in 1 .. n : d.chunks[k].offset[a] % d.chunk[a] = 0, c \in Box(s)
      PROVE  OnCell(d, k, c)
  <2>1. ClippedIn(d, k, s, n)
    BY <1>3, <1>6
  <2>2. \A a \in 1 .. n : s.start[a] <= c[a] /\ c[a] < s.start[a] + s.count[a]
    BY <1>4, <1>6
  <2> HIDE DEF s
  <2>3. ASSUME NEW a \in 1 .. n PROVE c[a] - (c[a] % d.chunk[a]) = d.chunks[k].offset[a]
    <3> DEFINE z == d.chunks[k].offset[a]
    <3> DEFINE v == s.count[a]
    <3> DEFINE g == d.chunk[a]
    <3> DEFINE x == c[a]
    <3>0. z = s.start[a]
      BY <2>1 DEF ClippedIn
    <3>1. v \in Nat /\ v <= g
      BY <2>1 DEF ClippedIn
    <3>2. z <= x /\ x < z + v
      BY <2>2, <3>0
    <3>3. z \in Nat /\ g \in Nat \ {0} /\ x \in Nat
      BY <1>1, <1>2
    <3>4. z % g = 0
      BY <1>6
    <3> HIDE DEF z, v, g, x
    <3>5. x < z + g
      BY <3>1, <3>2, <3>3
    <3>6. x - (x % g) = z
      BY <3>2, <3>3, <3>4, <3>5, GridUnique
    <3> QED BY <3>6 DEF z, g, x
  <2> QED BY <2>3 DEF OnCell, n
<1> QED BY <1>5, <1>6

(* Reading the chunks one by one, as chunks_of() tells a caller to, visits *)
(* every element of a dataset with a whole index once, and every selection *)
(* listed is one a read accepts, whatever the index.                       *)
THEOREM TheListingTiles == Spec => []ListingTiles
<1>1. ASSUME NEW d \in Datasets, d.layout = "chunked", NEW s \in chunks_of(d) PROVE Valid(d, s)
  <2>1. PICK k \in DOMAIN d.chunks : Inside(d, k) /\ s = Clipped(d, k)
    BY <1>1 DEF chunks_of
  <2>2. ClippedIn(d, k, s, Len(d.shape))
    BY <1>1, <2>1, ClippedFacts
  <2>3. \A a \in 1 .. Len(d.shape) : d.shape[a] \in Nat /\ d.shape[a] <= MaxU64
    BY WholeBoxIs
  <2>4. DOMAIN d.shape = 1 .. Len(d.shape)
    BY WholeBoxIs
  <2>5. \A a \in 1 .. Len(d.shape) : s.start[a] + s.count[a] <= d.shape[a] /\ s.start[a] + s.count[a] \in Nat
    BY <2>2 DEF ClippedIn
  <2>6. \A a \in 1 .. Len(d.shape) : s.start[a] + s.count[a] <= MaxU64
    <3> TAKE a \in 1 .. Len(d.shape)
    <3> DEFINE y == s.start[a] + s.count[a]
    <3> DEFINE w == d.shape[a]
    <3>1. y \in Nat /\ y <= w /\ w \in Nat /\ w <= MaxU64
      BY <2>3, <2>5
    <3> HIDE DEF y, w
    <3>2. y <= MaxU64
      BY <3>1, WidthFacts
    <3> QED BY <3>2 DEF y
  <2> QED BY <2>2, <2>4, <2>5, <2>6 DEF Valid, Axes, ClippedIn
<1>2. ASSUME NEW d \in Datasets, d.layout # "chunked", NEW s \in chunks_of(d)
      PROVE  Valid(d, s) /\ Box(s) = WholeBox(d)
  <2> DEFINE n == Len(d.shape)
  <2>1. s = [start |-> Zeros(n), count |-> d.shape]
    BY <1>2 DEF chunks_of
  <2>2. s.start = Zeros(n) /\ s.count = d.shape /\ Box(s) = WholeBox(d)
    BY <2>1 DEF WholeBox
  <2>3. n \in Nat /\ DOMAIN d.shape = 1 .. n /\ Len(s.start) = n
    BY <2>2, WholeBoxIs
  <2>4. \A a \in 1 .. n : d.shape[a] \in Nat /\ d.shape[a] <= MaxU64
    BY WholeBoxIs
  <2> HIDE DEF n
  <2>5. \A a \in 1 .. n : s.start[a] = 0
    BY <2>2, <2>3 DEF Zeros
  <2>6. \A a \in 1 .. n : s.start[a] + s.count[a] = d.shape[a]
    BY <2>2, <2>4, <2>5
  <2>7. \A a \in 1 .. n : s.start[a] + s.count[a] <= MaxU64 /\ s.start[a] + s.count[a] <= d.shape[a]
    BY <2>4, <2>6
  <2> QED BY <2>2, <2>3, <2>7 DEF Valid, Axes, n
<1>3. ASSUME NEW d \in Datasets, IsWhole(d), NEW c \in WholeBox(d)
      PROVE  Cardinality({s \in chunks_of(d) : c \in Box(s)}) = 1
  <2> DEFINE L == {s \in chunks_of(d) : c \in Box(s)}
  <2>1. CASE d.layout # "chunked"
    <3>1. chunks_of(d) = {[start |-> Zeros(Len(d.shape)), count |-> d.shape]}
      BY <2>1 DEF chunks_of
    <3>2. L = {[start |-> Zeros(Len(d.shape)), count |-> d.shape]}
      BY <1>2, <1>3, <2>1, <3>1
    <3> QED BY <3>2, FS_Singleton
  <2>2. CASE d.layout = "chunked"
    <3> DEFINE n == Len(d.shape)
    <3> DEFINE K == {k \in DOMAIN d.chunks : OnCell(d, k, c)}
    <3>1. n \in Nat /\ DOMAIN d.shape = 1 .. n /\ c \in [1 .. n -> Nat]
      BY WholeBoxIs
    <3>2. DOMAIN c = 1 .. n
      BY <3>1
    <3>3. {k \in DOMAIN d.chunks : \A a \in DOMAIN c : c[a] - (c[a] % d.chunk[a]) = d.chunks[k].offset[a]} = K
      BY <3>2 DEF OnCell
    <3>4. Cardinality(K) = 1
      BY <1>3, <2>2, <3>3 DEF IsWhole, WholeBox
    <3>5. \A k \in DOMAIN d.chunks :
            Inside(d, k) => \A a \in 1 .. n : d.chunks[k].offset[a] % d.chunk[a] = 0
      BY <1>3, <2>2, <3>1 DEF IsWhole
    <3>6. IsFiniteSet(K)
      <4>1. DOMAIN d.chunks = 1 .. Len(d.chunks) /\ Len(d.chunks) \in Nat
        BY <2>2, ChunksFacts DEF Chunks
      <4>2. IsFiniteSet(DOMAIN d.chunks)
        BY <4>1, FS_Interval
      <4>3. K \in SUBSET (DOMAIN d.chunks)
        OBVIOUS
      <4> HIDE DEF K
      <4> QED BY <4>2, <4>3, FS_Subset
    <3>7. PICK k : K = {k}
      <4> HIDE DEF K
      <4> QED BY <3>4, <3>6, FS_Singleton
    <3>8. k \in DOMAIN d.chunks /\ OnCell(d, k, c)
      BY <3>7
    <3>9. Inside(d, k) /\ c \in Box(Clipped(d, k))
      BY <2>2, <3>8, InClipped
    <3>10. Clipped(d, k) \in L
      BY <2>2, <3>8, <3>9 DEF chunks_of
    <3>11. ASSUME NEW s \in L PROVE s = Clipped(d, k)
      <4>1. PICK j \in DOMAIN d.chunks : Inside(d, j) /\ s = Clipped(d, j)
        BY <2>2 DEF chunks_of
      <4>2. c \in Box(Clipped(d, j))
        BY <4>1
      <4>3. OnCell(d, j, c)
        BY <2>2, <3>5, <4>1, <4>2, InClipped
      <4>4. j = k
        BY <3>7, <4>3
      <4> QED BY <4>1, <4>4
    <3>12. L = {Clipped(d, k)}
      <4> HIDE DEF L
      <4> QED BY <3>10, <3>11
    <3> QED BY <3>12, FS_Singleton
  <2> QED BY <2>1, <2>2
<1>4. ASSUME IInv PROVE ListingTiles
  <2> SUFFICES ASSUME phase = "listed" PROVE ListingTiles
    BY DEF ListingTiles
  <2>1. ds \in Datasets /\ listed = chunks_of(ds)
    BY <1>4 DEF IInv, Control
  <2>2. \A s \in listed : Valid(ds, s)
    BY <1>1, <1>2, <2>1
  <2>3. IsWhole(ds) => \A c \in Box([start |-> Zeros(Rank), count |-> ds.shape]) :
                         Cardinality({s \in listed : c \in Box(s)}) = 1
    BY <1>3, <2>1 DEF WholeBox, Rank
  <2> QED BY <2>2, <2>3 DEF ListingTiles
<1> QED BY <1>4, Invariant, PTL
================================================================================
