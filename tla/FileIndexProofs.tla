---------------------------- MODULE FileIndexProofs ----------------------------
(* Proofs about FileIndex, for every set of files and every limit.         *)
EXTENDS FileIndex, FiniteSetTheorems, SequenceTheorems, WellFoundedInduction, TLAPS

--------------------------------------------------------------------------------
(* Induction over the naturals, for sets.                                  *)

(* A set of naturals that is not empty has a least element.                *)
LEMMA LeastNat ==
  ASSUME NEW T, T \subseteq Nat, T # {}
  PROVE  \E n \in T : \A m \in T : n <= m
<1> DEFINE R == OpToRel(<, Nat)
<1>1. IsWellFoundedOn(R, Nat)
  BY NatLessThanWellFounded
<1> HIDE DEF R
<1>2. PICK n \in T : \A y \in T : ~(<<y, n>> \in R)
  BY <1>1, WFMin
<1>3. \A y \in T : ~(y < n)
  <2>1. R = {ss \in Nat \X Nat : ss[1] < ss[2]}
    BY DEF R, OpToRel
  <2> QED BY <1>2, <2>1
<1> QED BY <1>3

(* Induction over the first naturals, for a set of them.                   *)
LEMMA UpTo ==
  ASSUME NEW N \in Nat, NEW S, 0 \in S, \A n \in 0 .. N - 1 : n \in S => n + 1 \in S
  PROVE  0 .. N \subseteq S
<1> SUFFICES ASSUME ~(0 .. N \subseteq S) PROVE FALSE
  OBVIOUS
<1> DEFINE T == (0 .. N) \ S
<1>0. T \subseteq Nat /\ T # {}
  OBVIOUS
<1>1. PICK n \in T : \A m \in T : n <= m
  <2> HIDE DEF T
  <2> QED BY <1>0, LeastNat
<1>2. n # 0 /\ n \in 0 .. N /\ n \notin S
  OBVIOUS
<1>3. n - 1 \in 0 .. N - 1 /\ n - 1 \notin T
  BY <1>1, <1>2
<1> QED BY <1>2, <1>3

(* g is defined by recursion over the first naturals.                      *)
Recurses(g, N, D, d, step) ==
  /\ g \in [0 .. N -> D]
  /\ g[0] = d
  /\ \A n \in 1 .. N : g[n] = step[<<n, g[n - 1]>>]

(* Such a function exists.                                                 *)
LEMMA Recursion ==
  ASSUME NEW N \in Nat, NEW D, NEW d \in D, NEW step \in [(1 .. N) \X D -> D]
  PROVE  \E g : Recurses(g, N, D, d, step)
<1> DEFINE P(g, k) == g[0] = d /\ \A n \in 1 .. k : g[n] = step[<<n, g[n - 1]>>]
<1> DEFINE S == {k \in 0 .. N : \E g \in [0 .. k -> D] : P(g, k)}
<1>1. 0 \in S
  <2> DEFINE g == [n \in 0 .. 0 |-> d]
  <2>1. g \in [0 .. 0 -> D] /\ P(g, 0)
    OBVIOUS
  <2>2. 0 \in 0 .. N
    OBVIOUS
  <2> HIDE DEF g
  <2> QED BY <2>1, <2>2
<1>2. ASSUME NEW k \in 0 .. N - 1, k \in S PROVE k + 1 \in S
  <2>1. PICK g \in [0 .. k -> D] : P(g, k)
    BY <1>2
  <2> DEFINE h == [n \in 0 .. k + 1 |-> IF n = k + 1 THEN step[<<k + 1, g[k]>>] ELSE g[n]]
  <2>2. k + 1 \in 1 .. N /\ g[k] \in D
    OBVIOUS
  <2>3. step[<<k + 1, g[k]>>] \in D
    BY <2>2
  <2>4. h \in [0 .. k + 1 -> D]
    BY <2>3
  <2>5. h[0] = d
    BY <2>1
  <2>6. ASSUME NEW n \in 1 .. k + 1 PROVE h[n] = step[<<n, h[n - 1]>>]
    <3>1. CASE n = k + 1
      <4>1. h[n - 1] = g[k]
        BY <3>1
      <4>2. h[k + 1] = step[<<k + 1, g[k]>>]
        OBVIOUS
      <4> HIDE DEF h
      <4> QED BY <3>1, <4>1, <4>2
    <3>2. CASE n # k + 1
      <4>1. n \in 1 .. k /\ n - 1 \in 0 .. k
        BY <3>2
      <4>2. h[n] = g[n] /\ h[n - 1] = g[n - 1]
        BY <4>1, <3>2
      <4> QED BY <2>1, <4>1, <4>2
    <3> QED BY <3>1, <3>2
  <2> HIDE DEF h
  <2>7. P(h, k + 1)
    BY <2>5, <2>6
  <2> QED BY <2>2, <2>4, <2>7
<1> HIDE DEF S
<1>3. 0 .. N \subseteq S
  BY <1>1, <1>2, UpTo
<1>4. N \in S
  BY <1>3
<1> QED BY <1>4 DEF S, Recurses

(* Two functions that start alike and go on alike are alike.               *)
AlikeSteps(g, h, N) == g[0] = h[0] /\ \A n \in 1 .. N : g[n - 1] = h[n - 1] => g[n] = h[n]
Alike(g, h, N) == \A n \in 0 .. N : g[n] = h[n]
LEMMA SameRecursion ==
  ASSUME NEW N \in Nat, NEW g, NEW h, AlikeSteps(g, h, N)
  PROVE  Alike(g, h, N)
<1> DEFINE S == {n \in 0 .. N : g[n] = h[n]}
<1>1. 0 \in S
  BY DEF AlikeSteps
<1>2. \A n \in 0 .. N - 1 : n \in S => n + 1 \in S
  <2> SUFFICES ASSUME NEW n \in 0 .. N - 1, n \in S PROVE n + 1 \in S
    OBVIOUS
  <2>1. n + 1 \in 1 .. N /\ n + 1 - 1 = n
    OBVIOUS
  <2>2. g[n + 1] = h[n + 1]
    BY <2>1 DEF AlikeSteps
  <2> QED BY <2>1, <2>2
<1> HIDE DEF S
<1>3. 0 .. N \subseteq S
  BY <1>1, <1>2, UpTo
<1> QED BY <1>3 DEF S, Alike

--------------------------------------------------------------------------------
(* The operators on sequences.                                             *)

(* Keep, as a recursion.                                                   *)
Keeps(k, s, S, T) ==
  /\ k \in [0 .. Len(s) -> Seq(T)]
  /\ k[0] = <<>>
  /\ \A n \in 1 .. Len(s) : k[n] = IF s[n] \in S THEN Append(k[n - 1], s[n]) ELSE k[n - 1]
LEMMA KeepSteps ==
  ASSUME NEW T, NEW s \in Seq(T), NEW S
  PROVE  \E k : Keeps(k, s, S, T) /\ Keep(s, S) = k[Len(s)]
<1> DEFINE N == Len(s)
<1> DEFINE D == Seq(T)
<1> DEFINE step == [x \in (1 .. N) \X D |->
                      IF s[x[1]] \in S THEN Append(x[2], s[x[1]]) ELSE x[2]]
<1>1. N \in Nat /\ \A n \in 1 .. N : s[n] \in T
  OBVIOUS
<1>2. step \in [(1 .. N) \X D -> D]
  <2> SUFFICES ASSUME NEW n \in 1 .. N, NEW q \in D
               PROVE  (IF s[n] \in S THEN Append(q, s[n]) ELSE q) \in D
    OBVIOUS
  <2> QED BY <1>1
<1> DEFINE d == <<>>
<1>3. d \in D
  OBVIOUS
<1>4. \A n \in 1 .. N, q \in D :
        step[<<n, q>>] = IF s[n] \in S THEN Append(q, s[n]) ELSE q
  OBVIOUS
<1> HIDE DEF step, D, N, d
<1>5. PICK g : Recurses(g, N, D, d, step)
  BY <1>1, <1>2, <1>3, Recursion
<1>6. \A n \in 1 .. N : g[n] = IF s[n] \in S THEN Append(g[n - 1], s[n]) ELSE g[n - 1]
  <2> TAKE n \in 1 .. N
  <2>1. g[n - 1] \in D
    BY <1>1, <1>5 DEF Recurses
  <2> QED BY <1>4, <1>5, <2>1 DEF Recurses
<1> DEFINE Is(k) == k = [n \in 0 .. N |-> IF n = 0 THEN <<>>
                           ELSE IF s[n] \in S THEN Append(k[n - 1], s[n]) ELSE k[n - 1]]
<1> DEFINE kept == CHOOSE k : Is(k)
<1>7. Is(g)
  <2>1. \A n \in 0 .. N : g[n] = IF n = 0 THEN <<>>
                           ELSE IF s[n] \in S THEN Append(g[n - 1], s[n]) ELSE g[n - 1]
    <3>1. g[0] = <<>>
      BY <1>5 DEF d, Recurses
    <3>2. \A n \in 0 .. N : n # 0 => n \in 1 .. N
      BY <1>1
    <3> QED BY <1>6, <3>1, <3>2, Zenon
  <2> QED BY <1>5, <2>1 DEF Recurses
<1>8. Is(kept)
  BY <1>7
<1>9. Keep(s, S) = kept[N]
  BY DEF Keep, N
<1>10. /\ kept[0] = <<>>
       /\ \A n \in 1 .. N : kept[n] = IF s[n] \in S THEN Append(kept[n - 1], s[n]) ELSE kept[n - 1]
  <2> HIDE DEF kept
  <2>1. \A n \in 0 .. N : kept[n] = IF n = 0 THEN <<>>
                           ELSE IF s[n] \in S THEN Append(kept[n - 1], s[n]) ELSE kept[n - 1]
    BY <1>8
  <2> QED BY <1>1, <2>1
<1> HIDE DEF kept
<1>11. Alike(g, kept, N)
  <2>1. AlikeSteps(g, kept, N)
    BY <1>5, <1>6, <1>10 DEF AlikeSteps, d, Recurses
  <2> QED BY <1>1, <2>1, SameRecursion
<1>12. Keep(s, S) = g[N]
  BY <1>1, <1>9, <1>11 DEF Alike
<1>13. Keeps(g, s, S, T)
  BY <1>5, <1>6 DEF D, N, d, Recurses, Keeps
<1> QED BY <1>12, <1>13 DEF N

(* h says where the elements of q are in the first n elements of s: those  *)
(* that are in S, each once.                                               *)
Picks(h, q, s, n, S) ==
  /\ h \in [1 .. Len(q) -> 1 .. n]
  /\ \A i \in 1 .. Len(q) : s[h[i]] \in S /\ q[i] = s[h[i]]
  /\ \A i, j \in 1 .. Len(q) : h[i] = h[j] => i = j
  /\ \A p \in 1 .. n : s[p] \in S => \E i \in 1 .. Len(q) : h[i] = p

(* One more element.                                                       *)
LEMMA PicksOne ==
  ASSUME NEW T, NEW s \in Seq(T), NEW S, NEW n \in 0 .. Len(s) - 1, NEW q \in Seq(T),
         NEW h, Picks(h, q, s, n, S), s[n + 1] \in S
  PROVE  \E g : Picks(g, Append(q, s[n + 1]), s, n + 1, S)
<1> DEFINE m == Len(q) + 1
<1> DEFINE r == Append(q, s[n + 1])
<1> DEFINE g == [i \in 1 .. m |-> IF i = m THEN n + 1 ELSE h[i]]
<1>0. Len(q) \in Nat /\ m \in Nat /\ n \in Nat /\ s[n + 1] \in T
  OBVIOUS
<1>1. Len(r) = m /\ r[m] = s[n + 1] /\ \A i \in 1 .. Len(q) : r[i] = q[i]
  BY <1>0
<1>2. \A i \in 1 .. m : i = m \/ i \in 1 .. Len(q)
  BY <1>0
<1>3. g[m] = n + 1 /\ \A i \in 1 .. Len(q) : g[i] = h[i] /\ h[i] \in 1 .. n
  BY <1>0 DEF Picks
<1>4. DOMAIN g = 1 .. m
  OBVIOUS
<1>5. g \in [1 .. m -> 1 .. n + 1]
  <2>0. \A x \in 1 .. n : x \in 1 .. n + 1
    BY <1>0
  <2>1. \A i \in 1 .. Len(q) : h[i] \in 1 .. n + 1
    BY <1>3, <2>0
  <2> QED BY <1>0, <1>2, <2>1
<1>6. m \in 1 .. m /\ \A i \in 1 .. Len(q) : i \in 1 .. m
  BY <1>0
<1> HIDE DEF g, r, m
<1>7. \A i \in 1 .. m : s[g[i]] \in S /\ r[i] = s[g[i]]
  BY <1>1, <1>2, <1>3 DEF Picks
<1>8. \A i, j \in 1 .. m : g[i] = g[j] => i = j
  <2> TAKE i, j \in 1 .. m
  <2>1. \A p \in 1 .. n : p # n + 1
    BY <1>0
  <2>2. CASE i = m
    BY <1>2, <1>3, <2>1, <2>2
  <2>3. CASE j = m
    BY <1>2, <1>3, <2>1, <2>3
  <2>4. CASE i # m /\ j # m
    BY <1>2, <1>3, <2>4 DEF Picks
  <2> QED BY <2>2, <2>3, <2>4
<1>9. \A p \in 1 .. n + 1 : s[p] \in S => \E i \in 1 .. m : g[i] = p
  <2> SUFFICES ASSUME NEW p \in 1 .. n + 1, s[p] \in S PROVE \E i \in 1 .. m : g[i] = p
    OBVIOUS
  <2>1. CASE p = n + 1
    BY <1>3, <1>6, <2>1
  <2>2. CASE p # n + 1
    <3>1. p \in 1 .. n
      BY <1>0, <2>2
    <3> QED BY <1>3, <1>6, <3>1 DEF Picks
  <2> QED BY <2>1, <2>2
<1>10. Picks(g, r, s, n + 1, S)
  BY <1>1, <1>5, <1>7, <1>8, <1>9 DEF Picks
<1> QED BY <1>10 DEF r

(* What Keep returns.                                                      *)
LEMMA KeepFacts ==
  ASSUME NEW T, NEW s \in Seq(T), NEW S
  PROVE  Keep(s, S) \in Seq(T) /\ \E h : Picks(h, Keep(s, S), s, Len(s), S)
<1>0. PICK k : Keeps(k, s, S, T) /\ Keep(s, S) = k[Len(s)]
  BY KeepSteps
<1>1. /\ k \in [0 .. Len(s) -> Seq(T)]
      /\ k[0] = <<>>
      /\ \A n \in 1 .. Len(s) : k[n] = IF s[n] \in S THEN Append(k[n - 1], s[n]) ELSE k[n - 1]
  BY <1>0 DEF Keeps
<1>2. Len(s) \in Nat
  OBVIOUS
<1> DEFINE Q == {n \in 0 .. Len(s) : \E h : Picks(h, k[n], s, n, S)}
<1>3. 0 \in Q
  <2> DEFINE h == [i \in 1 .. 0 |-> i]
  <2>1. Len(k[0]) = 0
    BY <1>1
  <2>2. Picks(h, k[0], s, 0, S)
    BY <2>1 DEF Picks
  <2> HIDE DEF h
  <2> QED BY <1>2, <2>2
<1>4. ASSUME NEW n \in 0 .. Len(s) - 1, n \in Q PROVE n + 1 \in Q
  <2>1. PICK h : Picks(h, k[n], s, n, S)
    BY <1>4
  <2>2. n + 1 \in 1 .. Len(s) /\ n + 1 \in 0 .. Len(s) /\ n \in 0 .. Len(s) /\ n + 1 - 1 = n
    BY <1>2
  <2>3. k[n + 1] = IF s[n + 1] \in S THEN Append(k[n], s[n + 1]) ELSE k[n]
    BY <1>1, <2>2
  <2>4. k[n] \in Seq(T)
    BY <1>1, <2>2
  <2>5. CASE s[n + 1] \in S
    <3>1. \E g : Picks(g, Append(k[n], s[n + 1]), s, n + 1, S)
      BY <2>1, <2>4, <2>5, PicksOne
    <3> QED BY <2>2, <2>3, <2>5, <3>1
  <2>6. CASE s[n + 1] \notin S
    <3>1. \A p \in 1 .. n + 1 : p = n + 1 \/ p \in 1 .. n
      BY <2>2
    <3>2. \A p \in 1 .. n : p \in 1 .. n + 1
      BY <2>2
    <3>3. Picks(h, k[n], s, n + 1, S)
      BY <2>1, <2>6, <3>1, <3>2 DEF Picks
    <3> QED BY <2>2, <2>3, <2>6, <3>3
  <2> QED BY <2>5, <2>6
<1> HIDE DEF Q
<1>5. 0 .. Len(s) \subseteq Q
  BY <1>2, <1>3, <1>4, UpTo
<1>6. Len(s) \in Q /\ k[Len(s)] \in Seq(T)
  BY <1>1, <1>2, <1>5
<1> QED BY <1>0, <1>6 DEF Q

(* Its elements are those of s in S.                                       *)
LEMMA KeepElements ==
  ASSUME NEW T, NEW s \in Seq(T), NEW S
  PROVE  /\ Keep(s, S) \in Seq(T)
         /\ ToSet(Keep(s, S)) = ToSet(s) \cap S
         /\ Keep(s, S) # <<>> <=> ToSet(s) \cap S # {}
         /\ Keep(s, S) # <<>> => Keep(s, S)[1] \in ToSet(s) \cap S
<1> DEFINE q == Keep(s, S)
<1>1. q \in Seq(T)
  BY KeepFacts
<1>2. PICK h : Picks(h, q, s, Len(s), S)
  BY KeepFacts
<1> HIDE DEF q
<1>3. DOMAIN q = 1 .. Len(q) /\ DOMAIN s = 1 .. Len(s) /\ Len(q) \in Nat
  BY <1>1
<1>4. ToSet(q) = ToSet(s) \cap S
  <2>1. ASSUME NEW x \in ToSet(q) PROVE x \in ToSet(s) \cap S
    <3>1. PICK i \in 1 .. Len(q) : x = q[i]
      BY <1>3 DEF ToSet
    <3>2. h[i] \in 1 .. Len(s) /\ s[h[i]] \in S /\ x = s[h[i]]
      BY <1>2, <3>1 DEF Picks
    <3> QED BY <1>3, <3>2 DEF ToSet
  <2>2. ASSUME NEW x \in ToSet(s) \cap S PROVE x \in ToSet(q)
    <3>1. PICK p \in 1 .. Len(s) : x = s[p]
      BY <1>3 DEF ToSet
    <3>2. PICK i \in 1 .. Len(q) : h[i] = p
      BY <1>2, <3>1 DEF Picks
    <3>3. x = q[i]
      BY <1>2, <3>1, <3>2 DEF Picks
    <3> QED BY <1>3, <3>3 DEF ToSet
  <2> QED BY <2>1, <2>2
<1>5. q # <<>> <=> ToSet(q) # {}
  BY <1>1, <1>3 DEF ToSet
<1>6. q # <<>> => q[1] \in ToSet(q)
  BY <1>1, <1>3 DEF ToSet
<1> QED BY <1>1, <1>4, <1>5, <1>6 DEF q

(* The elements of a sequence have different names.                        *)
Different(s) == \A i, j \in DOMAIN s : s[i].name = s[j].name => i = j

(* What Keep leaves has different names if s has.                          *)
LEMMA KeepDifferent ==
  ASSUME NEW T, NEW s \in Seq(T), NEW S, Different(s)
  PROVE  Different(Keep(s, S))
<1> DEFINE q == Keep(s, S)
<1>1. q \in Seq(T)
  BY KeepFacts
<1>2. PICK h : Picks(h, q, s, Len(s), S)
  BY KeepFacts
<1> HIDE DEF q
<1>3. DOMAIN q = 1 .. Len(q) /\ DOMAIN s = 1 .. Len(s)
  BY <1>1
<1>4. ASSUME NEW i \in 1 .. Len(q), NEW j \in 1 .. Len(q), q[i].name = q[j].name PROVE i = j
  <2>1. h[i] \in DOMAIN s /\ h[j] \in DOMAIN s /\ q[i] = s[h[i]] /\ q[j] = s[h[j]]
    BY <1>2, <1>3 DEF Picks
  <2>2. h[i] = h[j]
    BY <1>4, <2>1 DEF Different
  <2> QED BY <1>2, <2>2 DEF Picks
<1> QED BY <1>3, <1>4 DEF Different, q

(* Two sequences, one after the other.                                     *)
LEMMA ConcatFacts ==
  ASSUME NEW T, NEW s \in Seq(T), NEW t \in Seq(T)
  PROVE  /\ s \o t \in Seq(T)
         /\ ToSet(s \o t) = ToSet(s) \cup ToSet(t)
         /\ Len(s \o t) = Len(s) + Len(t)
         /\ \A i \in DOMAIN s : i \in DOMAIN (s \o t) /\ (s \o t)[i] = s[i]
         /\ \A i \in DOMAIN t : Len(s) + i \in DOMAIN (s \o t) /\ (s \o t)[Len(s) + i] = t[i]
         /\ \A i \in DOMAIN (s \o t) : \/ i \in DOMAIN s
                                       \/ \E j \in DOMAIN t : i = Len(s) + j
<1> DEFINE r == s \o t
<1>1. r \in Seq(T) /\ Len(r) = Len(s) + Len(t) /\ Len(s) \in Nat /\ Len(t) \in Nat
  OBVIOUS
<1>2. /\ \A i \in 1 .. Len(s) : r[i] = s[i]
      /\ \A i \in 1 .. Len(t) : r[Len(s) + i] = t[i]
  BY <1>1
<1>3. DOMAIN r = 1 .. Len(r) /\ DOMAIN s = 1 .. Len(s) /\ DOMAIN t = 1 .. Len(t)
  BY <1>1
<1> HIDE DEF r
<1>4. /\ \A i \in 1 .. Len(s) : i \in 1 .. Len(r)
      /\ \A i \in 1 .. Len(t) : Len(s) + i \in 1 .. Len(r)
  BY <1>1
<1>5. ASSUME NEW i \in 1 .. Len(r), i \notin 1 .. Len(s) PROVE \E j \in 1 .. Len(t) : i = Len(s) + j
  <2>1. i - Len(s) \in 1 .. Len(t) /\ i = Len(s) + (i - Len(s))
    BY <1>1, <1>5
  <2> QED BY <2>1
<1>6. ToSet(r) = ToSet(s) \cup ToSet(t)
  <2>1. \A x \in ToSet(r) : x \in ToSet(s) \cup ToSet(t)
    <3> TAKE x \in ToSet(r)
    <3>1. PICK i \in 1 .. Len(r) : x = r[i]
      BY <1>3 DEF ToSet
    <3>2. CASE i \in 1 .. Len(s)
      BY <1>2, <1>3, <3>1, <3>2 DEF ToSet
    <3>3. CASE i \notin 1 .. Len(s)
      <4>1. PICK j \in 1 .. Len(t) : i = Len(s) + j
        BY <1>5, <3>3
      <4> QED BY <1>2, <1>3, <3>1, <4>1 DEF ToSet
    <3> QED BY <3>2, <3>3
  <2>2. \A x \in ToSet(s) : x \in ToSet(r)
    BY <1>2, <1>3, <1>4 DEF ToSet
  <2>3. \A x \in ToSet(t) : x \in ToSet(r)
    BY <1>2, <1>3, <1>4 DEF ToSet
  <2> QED BY <2>1, <2>2, <2>3
<1> QED BY <1>1, <1>2, <1>3, <1>4, <1>5, <1>6 DEF r

(* If they have no name in common, the whole has different names.          *)
LEMMA ConcatDifferent ==
  ASSUME NEW T, NEW s \in Seq(T), NEW t \in Seq(T), Different(s), Different(t),
         \A i \in DOMAIN s, j \in DOMAIN t : s[i].name # t[j].name
  PROVE  Different(s \o t)
<1> DEFINE r == s \o t
<1>1. /\ \A i \in DOMAIN s : r[i] = s[i]
      /\ \A i \in DOMAIN t : r[Len(s) + i] = t[i]
      /\ \A i \in DOMAIN r : i \in DOMAIN s \/ \E j \in DOMAIN t : i = Len(s) + j
  BY ConcatFacts
<1> HIDE DEF r
<1>2. ASSUME NEW i \in DOMAIN r, NEW j \in DOMAIN r, r[i].name = r[j].name PROVE i = j
  <2>1. CASE i \in DOMAIN s /\ j \in DOMAIN s
    BY <1>1, <1>2, <2>1 DEF Different
  <2>2. CASE i \in DOMAIN s /\ j \notin DOMAIN s
    <3>1. PICK k \in DOMAIN t : j = Len(s) + k
      BY <1>1, <2>2
    <3> QED BY <1>1, <1>2, <2>2, <3>1
  <2>3. CASE i \notin DOMAIN s /\ j \in DOMAIN s
    <3>1. PICK k \in DOMAIN t : i = Len(s) + k
      BY <1>1, <2>3
    <3> QED BY <1>1, <1>2, <2>3, <3>1
  <2>4. CASE i \notin DOMAIN s /\ j \notin DOMAIN s
    <3>1. PICK k \in DOMAIN t : i = Len(s) + k
      BY <1>1, <2>4
    <3>2. PICK l \in DOMAIN t : j = Len(s) + l
      BY <1>1, <2>4
    <3>3. k = l
      BY <1>1, <1>2, <3>1, <3>2 DEF Different
    <3> QED BY <3>1, <3>2, <3>3
  <2> QED BY <2>1, <2>2, <2>3, <2>4
<1> QED BY <1>2 DEF Different, r

(* FlattenSeq, as a recursion.                                             *)
Flattens(k, ss, T) ==
  /\ k \in [0 .. Len(ss) -> Seq(T)]
  /\ k[0] = <<>>
  /\ \A n \in 0 .. Len(ss) - 1 : k[n + 1] = k[n] \o ss[n + 1]
LEMMA FlattenSteps ==
  ASSUME NEW T, NEW ss \in Seq(Seq(T))
  PROVE  \E k : Flattens(k, ss, T) /\ FlattenSeq(ss) = k[Len(ss)]
<1> DEFINE N == Len(ss)
<1> DEFINE D == Seq(T)
<1> DEFINE d == <<>>
<1> DEFINE step == [x \in (1 .. N) \X D |-> x[2] \o ss[x[1]]]
<1>1. N \in Nat /\ \A n \in 1 .. N : ss[n] \in D
  OBVIOUS
<1>2. step \in [(1 .. N) \X D -> D]
  <2> SUFFICES ASSUME NEW n \in 1 .. N, NEW q \in D PROVE q \o ss[n] \in D
    OBVIOUS
  <2> QED BY <1>1
<1>3. d \in D
  OBVIOUS
<1>4. \A n \in 1 .. N, q \in D : step[<<n, q>>] = q \o ss[n]
  OBVIOUS
<1>5. N = 0 => ss = <<>>
  OBVIOUS
<1>6. \A q \in D : <<>> \o q = q
  OBVIOUS
<1> HIDE DEF step, D, N, d
<1>7. PICK g : Recurses(g, N, D, d, step)
  BY <1>1, <1>2, <1>3, Recursion
<1>8. \A n \in 1 .. N : g[n] = g[n - 1] \o ss[n]
  <2> TAKE n \in 1 .. N
  <2>1. g[n - 1] \in D
    BY <1>1, <1>7 DEF Recurses
  <2> QED BY <1>4, <1>7, <2>1 DEF Recurses
<1>9. Flattens(g, ss, T)
  <2>1. \A n \in 0 .. N - 1 : g[n + 1] = g[n] \o ss[n + 1]
    <3> TAKE n \in 0 .. N - 1
    <3>1. n + 1 \in 1 .. N /\ g[n] \in D /\ g[n + 1] = step[<<n + 1, g[n]>>]
      BY <1>1, <1>7 DEF Recurses
    <3> QED BY <1>4, <3>1
  <2> QED BY <1>7, <2>1 DEF D, N, d, Recurses, Flattens
<1>10. CASE N = 0
  <2>1. FlattenSeq(ss) = ss
    BY <1>10 DEF FlattenSeq, N
  <2>2. g[N] = <<>>
    BY <1>7, <1>10 DEF Recurses, d
  <2> QED BY <1>5, <1>9, <1>10, <2>1, <2>2 DEF N
<1>11. CASE N # 0
  <2> DEFINE Is(k) == k = [i \in 1 .. N |-> IF i = 1 THEN ss[i] ELSE k[i - 1] \o ss[i]]
  <2> DEFINE flatten == CHOOSE k : Is(k)
  <2> DEFINE h == [i \in 1 .. N |-> g[i]]
  <2>1. g[0] = <<>>
    BY <1>7 DEF Recurses, d
  <2>2. \A i \in 1 .. N : h[i] = IF i = 1 THEN ss[i] ELSE h[i - 1] \o ss[i]
    <3> TAKE i \in 1 .. N
    <3>1. CASE i = 1
      <4>1. g[1] = <<>> \o ss[1] /\ ss[1] \in D
        <5>1. 1 \in 1 .. N /\ 1 - 1 = 0
          BY <3>1
        <5> QED BY <1>1, <1>8, <2>1, <5>1
      <4>2. g[1] = ss[1]
        BY <1>6, <4>1
      <4> QED BY <3>1, <4>2
    <3>2. CASE i # 1
      <4>1. i - 1 \in 1 .. N
        BY <1>1, <3>2
      <4> QED BY <1>8, <3>2, <4>1
    <3> QED BY <3>1, <3>2
  <2>3. Is(h)
    <3>1. DOMAIN h = 1 .. N
      OBVIOUS
    <3> HIDE DEF h
    <3>2. h = [i \in 1 .. N |-> h[i]]
      BY <3>1 DEF h
    <3> QED BY <2>2, <3>2
  <2>4. Is(flatten)
    <3> HIDE DEF h
    <3> QED BY <2>3
  <2>5. FlattenSeq(ss) = flatten[N]
    BY <1>11 DEF FlattenSeq, N
  <2> HIDE DEF flatten, h
  <2>6. \A i \in 1 .. N : flatten[i] = IF i = 1 THEN ss[i] ELSE flatten[i - 1] \o ss[i]
    BY <2>4
  <2> DEFINE f == [i \in 0 .. N |-> IF i = 0 THEN <<>> ELSE flatten[i]]
  <2>7. f[0] = <<>> /\ \A i \in 1 .. N : f[i] = flatten[i]
    BY <1>1
  <2> HIDE DEF f
  <2>8. \A i \in 1 .. N : f[i] = f[i - 1] \o ss[i]
    <3> TAKE i \in 1 .. N
    <3>1. CASE i = 1
      <4>1. f[1] = ss[1] /\ ss[1] \in D
        BY <1>1, <2>6, <2>7, <3>1
      <4>2. <<>> \o ss[1] = ss[1]
        BY <1>6, <4>1
      <4>3. f[i - 1] = <<>>
        BY <2>7, <3>1
      <4> QED BY <3>1, <4>1, <4>2, <4>3
    <3>2. CASE i # 1
      <4>1. i - 1 \in 1 .. N
        BY <1>1, <3>2
      <4> QED BY <2>6, <2>7, <3>2, <4>1
    <3> QED BY <3>1, <3>2
  <2>9. AlikeSteps(g, f, N)
    BY <1>8, <2>1, <2>7, <2>8 DEF AlikeSteps
  <2>10. Alike(g, f, N)
    BY <1>1, <2>9, SameRecursion
  <2>11. N \in 0 .. N /\ N \in 1 .. N
    BY <1>1, <1>11
  <2>12. FlattenSeq(ss) = g[N]
    BY <2>5, <2>7, <2>10, <2>11 DEF Alike
  <2> QED BY <1>9, <2>12 DEF N
<1> QED BY <1>10, <1>11

(* Its elements are those of the parts.                                    *)
FirstParts(ss, n) == UNION {ToSet(ss[i]) : i \in 1 .. n}
GoesBy(k, ss, n) == ToSet(k[n]) = FirstParts(ss, n)
LEMMA FlattenPrefix ==
  ASSUME NEW T, NEW ss \in Seq(Seq(T)), NEW k, Flattens(k, ss, T)
  PROVE  \A n \in 0 .. Len(ss) : GoesBy(k, ss, n)
<1> DEFINE N == Len(ss)
<1> DEFINE Q == {n \in 0 .. N : GoesBy(k, ss, n)}
<1>1. /\ N \in Nat /\ \A n \in 1 .. N : ss[n] \in Seq(T)
      /\ k[0] = <<>>
      /\ k \in [0 .. N -> Seq(T)]
      /\ \A n \in 0 .. N - 1 : k[n + 1] = k[n] \o ss[n + 1]
  <2>1. N \in Nat /\ \A n \in 1 .. N : ss[n] \in Seq(T)
    OBVIOUS
  <2>2. /\ k[0] = <<>>
        /\ k \in [0 .. N -> Seq(T)]
        /\ \A n \in 0 .. N - 1 : k[n + 1] = k[n] \o ss[n + 1]
    BY DEF Flattens
  <2> QED BY <2>1, <2>2
<1> HIDE DEF N
<1>2. 0 \in Q
  <2>1. ToSet(k[0]) = {} /\ FirstParts(ss, 0) = {}
    BY <1>1 DEF ToSet, FirstParts
  <2>2. 0 \in 0 .. N
    BY <1>1
  <2> QED BY <2>1, <2>2 DEF GoesBy
<1>3. ASSUME NEW n \in 0 .. N - 1, n \in Q PROVE n + 1 \in Q
  <2>1. n + 1 \in 1 .. N /\ n + 1 \in 0 .. N /\ n \in 0 .. N /\ n + 1 - 1 = n
    BY <1>1
  <2>2. k[n + 1] = k[n] \o ss[n + 1] /\ k[n] \in Seq(T) /\ ss[n + 1] \in Seq(T)
    BY <1>1, <2>1
  <2>3. ToSet(k[n + 1]) = ToSet(k[n]) \cup ToSet(ss[n + 1])
    BY <2>2, ConcatFacts
  <2>4. \A i \in 1 .. n + 1 : i \in 1 .. n \/ i = n + 1
    BY <2>1
  <2>5. n + 1 \in 1 .. n + 1 /\ \A i \in 1 .. n : i \in 1 .. n + 1
    BY <2>1
  <2>6. FirstParts(ss, n + 1) = FirstParts(ss, n) \cup ToSet(ss[n + 1])
    BY <2>4, <2>5, Zenon DEF FirstParts
  <2>7. GoesBy(k, ss, n + 1)
    BY <1>3, <2>3, <2>6 DEF GoesBy
  <2> QED BY <2>1, <2>7
<1> HIDE DEF Q
<1>4. 0 .. N \subseteq Q
  BY <1>1, <1>2, <1>3, UpTo
<1> QED BY <1>4 DEF Q, N

(* The elements of all the sequences have different names.                 *)
Apart(ss) ==
  \A i, j \in DOMAIN ss : \A p \in DOMAIN ss[i], q \in DOMAIN ss[j] :
    ss[i][p].name = ss[j][q].name => i = j /\ p = q

LEMMA FlattenFacts ==
  ASSUME NEW T, NEW ss \in Seq(Seq(T))
  PROVE  /\ FlattenSeq(ss) \in Seq(T)
         /\ ToSet(FlattenSeq(ss)) = UNION {ToSet(ss[i]) : i \in DOMAIN ss}
         /\ Apart(ss) => Different(FlattenSeq(ss))
<1> DEFINE N == Len(ss)
<1>1. N \in Nat /\ DOMAIN ss = 1 .. N /\ \A n \in 1 .. N : ss[n] \in Seq(T)
  OBVIOUS
<1>2. PICK k : Flattens(k, ss, T) /\ FlattenSeq(ss) = k[N]
  BY FlattenSteps
<1>3. \A n \in 0 .. N : GoesBy(k, ss, n)
  BY <1>2, FlattenPrefix
<1>4. /\ N \in 0 .. N /\ k[N] \in Seq(T)
      /\ k \in [0 .. N -> Seq(T)]
      /\ \A n \in 0 .. N - 1 : k[n + 1] = k[n] \o ss[n + 1]
      /\ k[0] = <<>>
  <2>1. N \in 0 .. N
    BY <1>1
  <2> QED BY <1>2, <2>1 DEF Flattens
<1> HIDE DEF N
<1>5. ASSUME Apart(ss) PROVE Different(k[N])
  <2> DEFINE Q == {n \in 0 .. N : Different(k[n])}
  <2>1. 0 \in Q
    <3>1. DOMAIN k[0] = {}
      BY <1>4
    <3> QED BY <1>1, <3>1 DEF Different
  <2>2. ASSUME NEW n \in 0 .. N - 1, n \in Q PROVE n + 1 \in Q
    <3>1. n + 1 \in 1 .. N /\ n + 1 \in 0 .. N /\ n \in 0 .. N /\ n + 1 - 1 = n
      BY <1>1
    <3>2. k[n + 1] = k[n] \o ss[n + 1] /\ k[n] \in Seq(T) /\ ss[n + 1] \in Seq(T)
      BY <1>1, <1>4, <3>1
    <3>3. Different(ss[n + 1])
      <4>1. \A p \in DOMAIN ss[n + 1], q \in DOMAIN ss[n + 1] :
              ss[n + 1][p].name = ss[n + 1][q].name => p = q
        <5>1. n + 1 \in DOMAIN ss
          BY <1>1, <3>1
        <5> DEFINE s == ss[n + 1]
        <5>2. \A p, q \in DOMAIN s : s[p].name = s[q].name => p = q
          BY <1>5, <5>1 DEF Apart
        <5> QED BY <5>2
      <4> QED BY <4>1 DEF Different
    <3>4. ASSUME NEW p \in DOMAIN k[n], NEW q \in DOMAIN ss[n + 1], k[n][p].name = ss[n + 1][q].name
          PROVE  FALSE
      <4>1. k[n][p] \in FirstParts(ss, n)
        <5>1. k[n][p] \in ToSet(k[n])
          BY DEF ToSet
        <5> QED BY <1>3, <3>1, <5>1 DEF GoesBy
      <4>2. PICK i \in 1 .. n : k[n][p] \in ToSet(ss[i])
        BY <4>1 DEF FirstParts
      <4>3. PICK r \in DOMAIN ss[i] : k[n][p] = ss[i][r]
        BY <4>2 DEF ToSet
      <4>4. i \in 1 .. N /\ i # n + 1
        BY <1>1, <3>1
      <4> QED BY <1>1, <1>5, <3>1, <3>4, <4>3, <4>4 DEF Apart
    <3>5. Different(k[n]) /\ \A p \in DOMAIN k[n], q \in DOMAIN ss[n + 1] : k[n][p].name # ss[n + 1][q].name
      BY <2>2, <3>4
    <3>6. Different(k[n + 1])
      BY <3>2, <3>3, <3>5, ConcatDifferent
    <3> QED BY <3>1, <3>6
  <2> HIDE DEF Q
  <2>3. 0 .. N \subseteq Q
    BY <1>1, <2>1, <2>2, UpTo
  <2> QED BY <1>4, <2>3 DEF Q
<1>6. ToSet(k[N]) = UNION {ToSet(ss[i]) : i \in DOMAIN ss}
  BY <1>1, <1>3, <1>4 DEF GoesBy, FirstParts
<1> QED BY <1>2, <1>4, <1>5, <1>6

--------------------------------------------------------------------------------
(* What is reached.                                                        *)

(* C has with a place all that the place leads to.                         *)
Closed(C, next) == \A x \in C \cap DOMAIN next : next[x] \subseteq C

(* One step along next.                                                    *)
Onward(w, next) == w \cup UNION {next[x] : x \in w \cap DOMAIN next}

(* Reach, as a recursion.                                                  *)
Reaches(k, S, next) ==
  /\ k[0] = S
  /\ \A n \in 1 .. Cardinality(DOMAIN next) : k[n] = Onward(k[n - 1], next)
LEMMA ReachSteps ==
  ASSUME NEW S, NEW next, IsFiniteSet(DOMAIN next)
  PROVE  \E k : Reaches(k, S, next) /\ Reach(S, next) = k[Cardinality(DOMAIN next)]
<1> DEFINE N == Cardinality(DOMAIN next)
<1> DEFINE U == S \cup UNION {next[x] : x \in DOMAIN next}
<1> DEFINE D == SUBSET U
<1> DEFINE step == [x \in (1 .. N) \X D |-> Onward(x[2], next)]
<1>1. N \in Nat
  BY FS_CardinalityType
<1>2. \A q \in D : Onward(q, next) \in D
  BY DEF Onward
<1>3. S \in D
  OBVIOUS
<1> HIDE DEF D, N
<1>4. step \in [(1 .. N) \X D -> D]
  BY <1>2
<1>5. \A n \in 1 .. N, q \in D : step[<<n, q>>] = Onward(q, next)
  OBVIOUS
<1> HIDE DEF step
<1>6. PICK g : Recurses(g, N, D, S, step)
  BY <1>1, <1>3, <1>4, Recursion
<1>7. \A n \in 1 .. N : g[n] = Onward(g[n - 1], next)
  <2> TAKE n \in 1 .. N
  <2>1. g[n - 1] \in D
    BY <1>1, <1>6 DEF Recurses
  <2> QED BY <1>5, <1>6, <2>1 DEF Recurses
<1> DEFINE Is(k) == k = [n \in 0 .. N |-> IF n = 0 THEN S ELSE
                           k[n - 1] \cup UNION {next[x] : x \in k[n - 1] \cap DOMAIN next}]
<1> DEFINE within == CHOOSE k : Is(k)
<1>8. Is(g)
  <2>1. \A n \in 0 .. N : g[n] = IF n = 0 THEN S ELSE
                           g[n - 1] \cup UNION {next[x] : x \in g[n - 1] \cap DOMAIN next}
    <3>1. g[0] = S
      BY <1>6 DEF Recurses
    <3>2. \A n \in 0 .. N : n # 0 => n \in 1 .. N
      BY <1>1
    <3> QED BY <1>7, <3>1, <3>2, Zenon DEF Onward
  <2> QED BY <1>6, <2>1 DEF Recurses
<1>9. Is(within)
  BY <1>8
<1>10. Reach(S, next) = within[N]
  BY DEF Reach, N
<1>11. within[0] = S /\ \A n \in 1 .. N : within[n] = Onward(within[n - 1], next)
  <2> HIDE DEF within
  <2>1. \A n \in 0 .. N : within[n] = IF n = 0 THEN S ELSE
                  within[n - 1] \cup UNION {next[x] : x \in within[n - 1] \cap DOMAIN next}
    BY <1>9
  <2>2. 0 \in 0 .. N /\ \A n \in 1 .. N : n \in 0 .. N /\ n # 0
    BY <1>1
  <2> QED BY <2>1, <2>2, Zenon DEF Onward
<1> HIDE DEF within
<1>12. Reaches(within, S, next)
  BY <1>11 DEF Reaches, N
<1> QED BY <1>10, <1>12 DEF N

(* Reach has S, leads nowhere else, and has no more than it must: after as *)
(* many steps as there are places that lead on, nothing is new.            *)
LEMMA ReachFacts ==
  ASSUME NEW S, NEW next, IsFiniteSet(DOMAIN next)
  PROVE  /\ S \subseteq Reach(S, next)
         /\ Closed(Reach(S, next), next)
         /\ \A C : S \subseteq C /\ Closed(C, next) => Reach(S, next) \subseteq C
<1> DEFINE N == Cardinality(DOMAIN next)
<1> DEFINE D == DOMAIN next
<1>1. PICK k : Reaches(k, S, next) /\ Reach(S, next) = k[N]
  BY ReachSteps
<1>2. N \in Nat /\ N = Cardinality(D) /\ IsFiniteSet(D)
  BY FS_CardinalityType
<1>3. k[0] = S /\ \A n \in 0 .. N - 1 : k[n + 1] = Onward(k[n], next)
  <2>1. \A n \in 1 .. N : k[n] = Onward(k[n - 1], next)
    BY <1>1 DEF Reaches
  <2>2. \A n \in 0 .. N - 1 : n + 1 \in 1 .. N /\ n + 1 - 1 = n
    BY <1>2
  <2> QED BY <1>1, <2>1, <2>2 DEF Reaches
<1> HIDE DEF N
<1>4. \A n \in 0 .. N - 1 : n \in 0 .. N /\ n + 1 \in 0 .. N
  BY <1>2
<1>5. 0 \in 0 .. N /\ N \in 0 .. N
  BY <1>2
<1>6. S \subseteq k[N]
  <2> DEFINE Q == {n \in 0 .. N : S \subseteq k[n]}
  <2>1. 0 \in Q
    BY <1>3, <1>5
  <2>2. \A n \in 0 .. N - 1 : n \in Q => n + 1 \in Q
    BY <1>3, <1>4 DEF Onward
  <2> HIDE DEF Q
  <2>3. 0 .. N \subseteq Q
    BY <1>2, <2>1, <2>2, UpTo
  <2> QED BY <1>5, <2>3 DEF Q
<1>7. ASSUME NEW C, S \subseteq C, Closed(C, next) PROVE k[N] \subseteq C
  <2> DEFINE Q == {n \in 0 .. N : k[n] \subseteq C}
  <2>1. 0 \in Q
    BY <1>3, <1>5, <1>7
  <2>2. \A n \in 0 .. N - 1 : n \in Q => n + 1 \in Q
    BY <1>3, <1>4, <1>7 DEF Onward, Closed
  <2> HIDE DEF Q
  <2>3. 0 .. N \subseteq Q
    BY <1>2, <2>1, <2>2, UpTo
  <2> QED BY <1>5, <2>3 DEF Q
<1>8. Closed(k[N], next)
  <2> DEFINE Q == {n \in 0 .. N : Closed(k[n], next) \/ Cardinality(k[n] \cap D) > n}
  <2>1. \A w : IsFiniteSet(w \cap D) /\ Cardinality(w \cap D) \in Nat
    <3> TAKE w
    <3>1. w \cap D \subseteq D
      OBVIOUS
    <3> QED BY <1>2, <3>1, FS_Subset, FS_CardinalityType
  <2>2. 0 \in Q
    <3>1. ASSUME ~Closed(k[0], next) PROVE Cardinality(k[0] \cap D) > 0
      <4>1. k[0] \cap D # {}
        BY <3>1 DEF Closed
      <4>2. Cardinality(k[0] \cap D) # 0
        BY <2>1, <4>1, FS_EmptySet
      <4> QED BY <2>1, <4>2
    <3> QED BY <1>5, <3>1
  <2>3. ASSUME NEW n \in 0 .. N - 1, n \in Q PROVE n + 1 \in Q
    <3>1. n \in Nat /\ n + 1 \in 0 .. N /\ k[n + 1] = Onward(k[n], next)
      BY <1>2, <1>3, <1>4
    <3>2. ASSUME ~Closed(k[n + 1], next) PROVE Cardinality(k[n + 1] \cap D) > n + 1
      <4>1. PICK x \in k[n + 1] \cap D : ~(next[x] \subseteq k[n + 1])
        BY <3>2 DEF Closed
      <4>2. x \notin k[n]
        <5> SUFFICES ASSUME x \in k[n] PROVE FALSE
          OBVIOUS
        <5>1. x \in k[n] \cap DOMAIN next
          BY <4>1
        <5>2. next[x] \subseteq k[n + 1]
          BY <3>1, <5>1 DEF Onward
        <5> QED BY <4>1, <5>2
      <4>3. ~Closed(k[n], next)
        <5> SUFFICES ASSUME Closed(k[n], next) PROVE FALSE
          OBVIOUS
        <5>1. k[n + 1] = k[n]
          BY <3>1 DEF Onward, Closed
        <5> QED BY <4>1, <4>2, <5>1
      <4>4. Cardinality(k[n] \cap D) > n
        BY <2>3, <4>3
      <4>5. k[n] \subseteq k[n + 1]
        BY <3>1 DEF Onward
      <4>6. (k[n] \cap D) \cup {x} \subseteq k[n + 1] \cap D
        BY <4>1, <4>5
      <4>7. Cardinality((k[n] \cap D) \cup {x}) = Cardinality(k[n] \cap D) + 1
        <5>1. x \notin k[n] \cap D
          BY <4>2
        <5> QED BY <2>1, <5>1, FS_AddElement
      <4>8. Cardinality((k[n] \cap D) \cup {x}) <= Cardinality(k[n + 1] \cap D)
        BY <2>1, <4>6, FS_Subset
      <4> DEFINE A == Cardinality(k[n] \cap D)
      <4> DEFINE B == Cardinality(k[n + 1] \cap D)
      <4>9. A \in Nat /\ B \in Nat /\ A > n /\ A + 1 <= B
        BY <2>1, <4>4, <4>7, <4>8
      <4> HIDE DEF A, B
      <4>10. B > n + 1
        BY <3>1, <4>9
      <4> QED BY <4>10 DEF B
    <3> QED BY <3>1, <3>2
  <2> HIDE DEF Q
  <2>4. 0 .. N \subseteq Q
    BY <1>2, <2>2, <2>3, UpTo
  <2>5. N \in Q
    BY <1>5, <2>4
  <2>6. k[N] \cap D \subseteq D
    OBVIOUS
  <2>7. Cardinality(k[N] \cap D) <= N
    BY <1>2, <2>6, FS_Subset
  <2>8. ~(Cardinality(k[N] \cap D) > N)
    BY <1>2, <2>1, <2>7
  <2> QED BY <2>5, <2>8 DEF Q
<1> QED BY <1>1, <1>6, <1>7, <1>8 DEF N

--------------------------------------------------------------------------------
(* Files.                                                                  *)

(* The fields of a message.                                                *)
LEMMA MessageFacts ==
  ASSUME NEW m \in Message
  PROVE  /\ m.ok \in BOOLEAN
         /\ m.kind \in {"cont", "table", "datatype", "link"} => m.to \in Nat
         /\ m.kind \in {"link", "attribute"} => m.name \in STRING
         /\ m.kind = "links" => m.links \in Seq(Entry)
         /\ m.kind = "attributes" => m.names \in Seq(STRING) /\ m.complete \in BOOLEAN
<1>1. CASE m \in [kind : {"cont", "table", "datatype"}, ok : BOOLEAN, to : Nat]
  BY <1>1
<1>2. CASE m \in [kind : {"link"}, ok : BOOLEAN, name : STRING, to : Nat]
  BY <1>2
<1>3. CASE m \in [kind : {"links"}, ok : BOOLEAN, links : Seq(Entry)]
  BY <1>3
<1>4. CASE m \in [kind : {"attribute"}, ok : BOOLEAN, name : STRING]
  BY <1>4
<1>5. CASE m \in [kind : {"attributes"}, ok : BOOLEAN, names : Seq(STRING), complete : BOOLEAN]
  BY <1>5
<1>6. CASE m \in [kind : {"layout", "dataspace", "pipeline", "fill"}, ok : BOOLEAN]
  BY <1>6
<1> QED BY <1>1, <1>2, <1>3, <1>4, <1>5, <1>6 DEF Message

(* The blocks of a file.                                                   *)
LEMMA BlockFacts ==
  ASSUME NEW f \in Files, NEW b \in DOMAIN f.blocks
  PROVE  /\ f.blocks[b].messages \in Seq(Message)
         /\ f.blocks[b].version \in {1, 2}
         /\ f.blocks[b].ok \in BOOLEAN
         /\ DOMAIN f.blocks[b].messages = 1 .. Len(f.blocks[b].messages)
         /\ \A i \in DOMAIN f.blocks[b].messages : f.blocks[b].messages[i] \in Message
<1>1. f.blocks[b] \in [version : {1, 2}, ok : BOOLEAN, messages : Seq(Message)]
  BY FilesAssumption DEF IsFile
<1> QED BY <1>1

(* Its B-tree nodes and symbol table nodes.                                *)
LEMMA NodeFacts ==
  ASSUME NEW f \in Files, NEW n \in DOMAIN f.nodes
  PROVE  /\ f.nodes[n].children \in Seq(Nat)
         /\ f.nodes[n].level \in Nat
         /\ f.nodes[n].ok \in BOOLEAN
<1>1. f.nodes[n] \in [level : Nat, ok : BOOLEAN, children : Seq(Nat)]
  BY FilesAssumption DEF IsFile
<1> QED BY <1>1

LEMMA TableFacts ==
  ASSUME NEW f \in Files, NEW t \in DOMAIN f.tables
  PROVE  f.tables[t].entries \in Seq(Entry) /\ f.tables[t].ok \in BOOLEAN
<1>1. f.tables[t] \in [ok : BOOLEAN, entries : Seq(Entry)]
  BY FilesAssumption DEF IsFile
<1> QED BY <1>1

(* C has with a block the blocks it continues in.                          *)
Continues(f, C) ==
  \A b \in C \cap DOMAIN f.blocks : \A i \in DOMAIN f.blocks[b].messages :
    f.blocks[b].messages[i].kind = "cont" => f.blocks[b].messages[i].to \in C

(* The blocks of an object are the smallest such set that has the first.   *)
LEMMA BlocksFacts ==
  ASSUME NEW f \in Files, NEW a
  PROVE  /\ a \in BlocksOf(f, a)
         /\ Continues(f, BlocksOf(f, a))
         /\ \A C : a \in C /\ Continues(f, C) => BlocksOf(f, a) \subseteq C
<1> DEFINE next == [b \in DOMAIN f.blocks |-> {m.to : m \in Conts(f, b)}]
<1>1. DOMAIN next = DOMAIN f.blocks /\ IsFiniteSet(DOMAIN next)
  BY FilesAssumption DEF IsFile
<1>2. BlocksOf(f, a) = Reach({a}, next)
  BY DEF BlocksOf
<1>3. \A C : Closed(C, next) <=> Continues(f, C)
  <2> TAKE C
  <2>1. \A b \in DOMAIN f.blocks : next[b] = {m.to : m \in Conts(f, b)}
    OBVIOUS
  <2> HIDE DEF next
  <2>2. ASSUME Closed(C, next), NEW b \in C \cap DOMAIN f.blocks, NEW i \in DOMAIN f.blocks[b].messages,
               f.blocks[b].messages[i].kind = "cont"
        PROVE  f.blocks[b].messages[i].to \in C
    <3>1. f.blocks[b].messages[i] \in Conts(f, b)
      BY <2>2 DEF Conts, ToSet
    <3>2. f.blocks[b].messages[i].to \in next[b]
      BY <2>1, <3>1
    <3> QED BY <1>1, <2>2, <3>2 DEF Closed
  <2>3. ASSUME Continues(f, C), NEW b \in C \cap DOMAIN next, NEW x \in next[b] PROVE x \in C
    <3>1. PICK m \in Conts(f, b) : x = m.to
      BY <1>1, <2>1
    <3>2. PICK i \in DOMAIN f.blocks[b].messages : m = f.blocks[b].messages[i] /\ m.kind = "cont"
      BY DEF Conts, ToSet
    <3> QED BY <1>1, <2>3, <3>1, <3>2 DEF Continues
  <2> QED BY <2>2, <2>3 DEF Closed, Continues
<1> HIDE DEF next
<1>4. /\ {a} \subseteq Reach({a}, next)
      /\ Closed(Reach({a}, next), next)
      /\ \A C : {a} \subseteq C /\ Closed(C, next) => Reach({a}, next) \subseteq C
  BY <1>1, ReachFacts
<1> QED BY <1>2, <1>3, <1>4

(* They are finitely many.                                                 *)
LEMMA BlocksFinite ==
  ASSUME NEW f \in Files, NEW a
  PROVE  IsFiniteSet(BlocksOf(f, a))
<1> DEFINE T(b) == {f.blocks[b].messages[i].to : i \in DOMAIN f.blocks[b].messages}
<1> DEFINE C == {a} \cup UNION {T(b) : b \in DOMAIN f.blocks}
<1>1. ASSUME NEW b \in DOMAIN f.blocks PROVE IsFiniteSet(T(b))
  <2>1. IsFiniteSet(DOMAIN f.blocks[b].messages)
    BY BlockFacts, FS_Interval
  <2> DEFINE D == DOMAIN f.blocks[b].messages
  <2> DEFINE g == [i \in D |-> f.blocks[b].messages[i].to]
  <2>2. g \in Surjection(D, T(b))
    BY DEF Surjection
  <2> HIDE DEF g, D
  <2> QED BY <2>1, <2>2, FS_Surjection DEF D
<1>2. IsFiniteSet(DOMAIN f.blocks)
  BY FilesAssumption DEF IsFile
<1> DEFINE X == {T(b) : b \in DOMAIN f.blocks}
<1>3. IsFiniteSet(X)
  <2> DEFINE D == DOMAIN f.blocks
  <2> DEFINE g == [b \in D |-> T(b)]
  <2>1. g \in Surjection(D, X)
    <3> HIDE DEF T
    <3> QED BY DEF Surjection
  <2> HIDE DEF g, D, X
  <2> QED BY <1>2, <2>1, FS_Surjection DEF D
<1>4. IsFiniteSet(UNION X)
  <2>1. \A x \in X : IsFiniteSet(x)
    BY <1>1
  <2> HIDE DEF X
  <2> QED BY <1>3, <2>1, FS_UNION
<1>5. IsFiniteSet(C)
  <2> HIDE DEF T
  <2>1. IsFiniteSet({a})
    BY FS_Singleton
  <2> QED BY <1>4, <2>1, FS_Union
<1>6. a \in C
  OBVIOUS
<1>7. Continues(f, C)
  <2> SUFFICES ASSUME NEW b \in DOMAIN f.blocks, NEW i \in DOMAIN f.blocks[b].messages
               PROVE  f.blocks[b].messages[i].to \in C
    BY DEF Continues
  <2>1. f.blocks[b].messages[i].to \in T(b)
    OBVIOUS
  <2> HIDE DEF T
  <2> QED BY <2>1
<1> HIDE DEF C
<1>8. BlocksOf(f, a) \subseteq C
  BY <1>6, <1>7, BlocksFacts
<1> QED BY <1>5, <1>8, FS_Subset

(* C has with a node those below it.                                       *)
GoesBelow(f, C) ==
  \A n \in C \cap DOMAIN f.nodes :
    f.nodes[n].level > 0 => \A i \in DOMAIN f.nodes[n].children : f.nodes[n].children[i] \in C

(* The nodes of a B-tree are the smallest such set that has its root.      *)
LEMMA NodesFacts ==
  ASSUME NEW f \in Files, NEW a
  PROVE  /\ Roots(f, a) \subseteq NodesOf(f, a)
         /\ GoesBelow(f, NodesOf(f, a))
         /\ \A C : Roots(f, a) \subseteq C /\ GoesBelow(f, C) => NodesOf(f, a) \subseteq C
<1> DEFINE next == [n \in DOMAIN f.nodes |->
                      IF f.nodes[n].level > 0 THEN ToSet(f.nodes[n].children) ELSE {}]
<1> DEFINE R == Roots(f, a)
<1>1. DOMAIN next = DOMAIN f.nodes /\ IsFiniteSet(DOMAIN next)
  BY FilesAssumption DEF IsFile
<1>2. NodesOf(f, a) = Reach(R, next)
  BY DEF NodesOf
<1>3. \A C : Closed(C, next) <=> GoesBelow(f, C)
  <2> TAKE C
  <2>1. \A n \in DOMAIN f.nodes :
          next[n] = IF f.nodes[n].level > 0 THEN ToSet(f.nodes[n].children) ELSE {}
    OBVIOUS
  <2> HIDE DEF next
  <2>2. ASSUME Closed(C, next), NEW n \in C \cap DOMAIN f.nodes, f.nodes[n].level > 0,
               NEW i \in DOMAIN f.nodes[n].children
        PROVE  f.nodes[n].children[i] \in C
    <3>1. f.nodes[n].children[i] \in next[n]
      BY <2>1, <2>2 DEF ToSet
    <3> QED BY <1>1, <2>2, <3>1 DEF Closed
  <2>3. ASSUME GoesBelow(f, C), NEW n \in C \cap DOMAIN next, NEW x \in next[n] PROVE x \in C
    <3>1. f.nodes[n].level > 0 /\ x \in ToSet(f.nodes[n].children)
      BY <1>1, <2>1
    <3>2. PICK i \in DOMAIN f.nodes[n].children : x = f.nodes[n].children[i]
      BY <3>1 DEF ToSet
    <3> QED BY <1>1, <2>3, <3>1, <3>2 DEF GoesBelow
  <2> QED BY <2>2, <2>3 DEF Closed, GoesBelow
<1> HIDE DEF next, R
<1>4. /\ R \subseteq Reach(R, next)
      /\ Closed(Reach(R, next), next)
      /\ \A C : R \subseteq C /\ Closed(C, next) => Reach(R, next) \subseteq C
  BY <1>1, ReachFacts
<1> QED BY <1>2, <1>3, <1>4 DEF R

(* They are finitely many if the roots are.                                *)
LEMMA NodesFinite ==
  ASSUME NEW f \in Files, NEW a, IsFiniteSet(Roots(f, a))
  PROVE  IsFiniteSet(NodesOf(f, a))
<1> DEFINE T(n) == {f.nodes[n].children[i] : i \in DOMAIN f.nodes[n].children}
<1> DEFINE X == {T(n) : n \in DOMAIN f.nodes}
<1> DEFINE C == Roots(f, a) \cup UNION X
<1>1. ASSUME NEW n \in DOMAIN f.nodes PROVE IsFiniteSet(T(n))
  <2>1. IsFiniteSet(DOMAIN f.nodes[n].children)
    <3>1. DOMAIN f.nodes[n].children = 1 .. Len(f.nodes[n].children) /\ Len(f.nodes[n].children) \in Nat
      BY NodeFacts
    <3>2. \A k \in Nat : IsFiniteSet(1 .. k)
      BY FS_Interval
    <3> QED BY <3>1, <3>2
  <2> DEFINE D == DOMAIN f.nodes[n].children
  <2> DEFINE g == [i \in D |-> f.nodes[n].children[i]]
  <2>2. g \in Surjection(D, T(n))
    BY DEF Surjection
  <2> HIDE DEF g, D
  <2> QED BY <2>1, <2>2, FS_Surjection DEF D
<1>2. IsFiniteSet(DOMAIN f.nodes)
  BY FilesAssumption DEF IsFile
<1>3. IsFiniteSet(X)
  <2> DEFINE D == DOMAIN f.nodes
  <2> DEFINE g == [n \in D |-> T(n)]
  <2>1. g \in Surjection(D, X)
    <3> HIDE DEF T
    <3> QED BY DEF Surjection
  <2> HIDE DEF g, D, X
  <2> QED BY <1>2, <2>1, FS_Surjection DEF D
<1>4. IsFiniteSet(UNION X)
  <2>1. \A x \in X : IsFiniteSet(x)
    BY <1>1
  <2> HIDE DEF X
  <2> QED BY <1>3, <2>1, FS_UNION
<1>5. IsFiniteSet(C)
  <2> HIDE DEF X
  <2> QED BY <1>4, FS_Union
<1>6. Roots(f, a) \subseteq C
  OBVIOUS
<1>7. GoesBelow(f, C)
  <2> SUFFICES ASSUME NEW n \in DOMAIN f.nodes, NEW i \in DOMAIN f.nodes[n].children
               PROVE  f.nodes[n].children[i] \in C
    BY DEF GoesBelow
  <2>1. f.nodes[n].children[i] \in T(n)
    OBVIOUS
  <2> HIDE DEF T
  <2> QED BY <2>1
<1> HIDE DEF C
<1>8. NodesOf(f, a) \subseteq C
  BY <1>6, <1>7, NodesFacts
<1> QED BY <1>5, <1>8, FS_Subset

(* A message of an object is one of a block of it.                         *)
LEMMA MessagesFacts ==
  ASSUME NEW f \in Files, NEW a, NEW kind, NEW m
  PROVE  /\ m \in MessagesOf(f, a, kind) <=>
              \E b \in BlocksOf(f, a) \cap DOMAIN f.blocks : \E i \in DOMAIN f.blocks[b].messages :
                m = f.blocks[b].messages[i] /\ m.kind = kind
         /\ m \in MessagesOf(f, a, kind) => m \in Message /\ m.kind = kind
<1>1. ASSUME m \in MessagesOf(f, a, kind)
      PROVE  \E b \in BlocksOf(f, a) \cap DOMAIN f.blocks : \E i \in DOMAIN f.blocks[b].messages :
               m = f.blocks[b].messages[i] /\ m.kind = kind
  <2>1. PICK k \in PlacesOf(f, a, kind) : m = At(f, k)
    BY <1>1 DEF MessagesOf
  <2>2. PICK b \in BlocksOf(f, a) \cap DOMAIN f.blocks : k \in PlacesIn(f, b) /\ At(f, k).kind = kind
    BY <2>1 DEF PlacesOf
  <2>3. PICK i \in DOMAIN f.blocks[b].messages : k = <<b, i>>
    BY <2>2 DEF PlacesIn
  <2>4. m = f.blocks[b].messages[i]
    BY <2>1, <2>3 DEF At
  <2> QED BY <2>1, <2>2, <2>4
<1>2. ASSUME NEW b \in BlocksOf(f, a) \cap DOMAIN f.blocks, NEW i \in DOMAIN f.blocks[b].messages,
             m = f.blocks[b].messages[i], m.kind = kind
      PROVE  m \in MessagesOf(f, a, kind)
  <2>1. <<b, i>> \in PlacesIn(f, b) /\ At(f, <<b, i>>) = m
    BY <1>2 DEF PlacesIn, At
  <2>2. <<b, i>> \in PlacesOf(f, a, kind)
    BY <1>2, <2>1 DEF PlacesOf
  <2> QED BY <2>1, <2>2 DEF MessagesOf
<1>3. ASSUME m \in MessagesOf(f, a, kind) PROVE m \in Message /\ m.kind = kind
  <2>1. PICK b \in BlocksOf(f, a) \cap DOMAIN f.blocks : \E i \in DOMAIN f.blocks[b].messages :
               m = f.blocks[b].messages[i] /\ m.kind = kind
    BY <1>1, <1>3
  <2> QED BY <2>1, BlockFacts
<1> QED BY <1>1, <1>2, <1>3

(* A place is a block of the object and a position in it.                  *)
LEMMA PlacesFacts ==
  ASSUME NEW f \in Files, NEW a, NEW kind, NEW b, NEW i
  PROVE  <<b, i>> \in PlacesOf(f, a, kind) <=>
           /\ b \in BlocksOf(f, a) \cap DOMAIN f.blocks
           /\ i \in DOMAIN f.blocks[b].messages
           /\ f.blocks[b].messages[i].kind = kind
<1>1. At(f, <<b, i>>) = f.blocks[b].messages[i]
  BY DEF At
<1>2. \A c : <<b, i>> \in PlacesIn(f, c) <=> c = b /\ i \in DOMAIN f.blocks[b].messages
  BY DEF PlacesIn
<1> QED BY <1>1, <1>2 DEF PlacesOf

(* Children are entries, and links that lead somewhere.                    *)
LEMMA ChildrenFacts ==
  ASSUME NEW f \in Files, NEW a, NEW c \in ChildrenOf(f, a)
  PROVE  c \in Entry /\ c.name \in STRING /\ c.to \in Nat \ {Undefined}
<1>0. \A s \in Seq(Entry) : \A x \in ToSet(s) : x \in Entry
  BY DEF ToSet
<1>1. CASE c \in EntriesOf(f, a)
  <2>1. PICK t \in DOMAIN f.tables : c \in ToSet(f.tables[t].entries)
    BY <1>1 DEF EntriesOf
  <2>2. f.tables[t].entries \in Seq(Entry)
    BY TableFacts
  <2>3. c \in Entry
    BY <1>0, <2>1, <2>2
  <2> QED BY <2>3 DEF ChildrenOf, Entry
<1>2. CASE c \in LinksOf(f, a)
  <2>1. CASE \E m \in MessagesOf(f, a, "link") : c = [name |-> m.name, to |-> m.to]
    BY <2>1, MessagesFacts, MessageFacts DEF ChildrenOf, Entry
  <2>2. CASE \E m \in MessagesOf(f, a, "links") : c \in ToSet(m.links)
    <3>1. PICK m \in MessagesOf(f, a, "links") : c \in ToSet(m.links)
      BY <2>2
    <3>2. m.links \in Seq(Entry)
      BY MessagesFacts, MessageFacts
    <3>3. c \in Entry
      BY <1>0, <3>1, <3>2
    <3> QED BY <3>3 DEF ChildrenOf, Entry
  <2> QED BY <1>2, <2>1, <2>2 DEF LinksOf
<1> QED BY <1>1, <1>2 DEF ChildrenOf

(* Where one step along a chain of datatypes leads.                        *)
Hop(f, b) == IF Shared(f, b) = {} THEN b ELSE (CHOOSE m \in Shared(f, b) : TRUE).to

LEMMA HopType ==
  ASSUME NEW f \in Files, NEW b \in Nat
  PROVE  Hop(f, b) \in Nat
<1>1. CASE Shared(f, b) = {}
  BY <1>1 DEF Hop
<1>2. CASE Shared(f, b) # {}
  <2> DEFINE m == CHOOSE m \in Shared(f, b) : TRUE
  <2>1. m \in Shared(f, b)
    BY <1>2
  <2> HIDE DEF m
  <2>2. m \in Message /\ m.kind = "datatype"
    BY <2>1, MessagesFacts DEF Shared
  <2> QED BY <1>2, <2>2, MessageFacts DEF Hop, m
<1> QED BY <1>1, <1>2

(* The chain of datatypes, as a recursion.                                 *)
LEMMA ChainFacts ==
  ASSUME NEW f \in Files, NEW a \in Nat
  PROVE  /\ TypeChain(f, a)[0] = a
         /\ \A n \in 0 .. MaxHops : TypeChain(f, a)[n] \in Nat
         /\ \A n \in 0 .. MaxHops - 1 : TypeChain(f, a)[n + 1] = Hop(f, TypeChain(f, a)[n])
<1> DEFINE N == MaxHops
<1> DEFINE D == Nat
<1> DEFINE step == [x \in (1 .. N) \X D |-> Hop(f, x[2])]
<1>1. N \in Nat
  BY BoundsAssumption
<1>2. step \in [(1 .. N) \X D -> D]
  BY HopType
<1>3. \A n \in 1 .. N, q \in D : step[<<n, q>>] = Hop(f, q)
  OBVIOUS
<1>4. a \in D
  OBVIOUS
<1> HIDE DEF step, D, N
<1>5. PICK g : Recurses(g, N, D, a, step)
  BY <1>1, <1>2, <1>4, Recursion
<1>6. g[0] = a /\ DOMAIN g = 0 .. N /\ \A n \in 1 .. N : g[n] = Hop(f, g[n - 1])
  <2>1. \A n \in 1 .. N : g[n - 1] \in D
    BY <1>1, <1>5 DEF Recurses
  <2> QED BY <1>3, <1>5, <2>1 DEF Recurses
<1> DEFINE Is(k) == k = [n \in 0 .. N |-> IF n = 0 THEN a ELSE
                           IF Shared(f, k[n - 1]) = {} THEN k[n - 1]
                           ELSE (CHOOSE m \in Shared(f, k[n - 1]) : TRUE).to]
<1> DEFINE after == CHOOSE k : Is(k)
<1>7. Is(g)
  <2>1. \A n \in 0 .. N : g[n] = IF n = 0 THEN a ELSE
                           IF Shared(f, g[n - 1]) = {} THEN g[n - 1]
                           ELSE (CHOOSE m \in Shared(f, g[n - 1]) : TRUE).to
    <3>1. \A n \in 0 .. N : n # 0 => n \in 1 .. N
      BY <1>1
    <3> QED BY <1>6, <3>1, Zenon DEF Hop
  <2> QED BY <1>5, <2>1 DEF Recurses
<1>8. Is(after)
  BY <1>7
<1>9. TypeChain(f, a) = after
  BY DEF TypeChain, N
<1>10. after[0] = a /\ \A n \in 1 .. N : after[n] = Hop(f, after[n - 1])
  <2> HIDE DEF after
  <2>1. \A n \in 0 .. N : after[n] = IF n = 0 THEN a ELSE
                  IF Shared(f, after[n - 1]) = {} THEN after[n - 1]
                  ELSE (CHOOSE m \in Shared(f, after[n - 1]) : TRUE).to
    BY <1>8
  <2>2. 0 \in 0 .. N /\ \A n \in 1 .. N : n \in 0 .. N /\ n # 0
    BY <1>1
  <2> QED BY <2>1, <2>2, Zenon DEF Hop
<1> HIDE DEF after
<1>11. \A n \in 0 .. N - 1 : after[n + 1] = Hop(f, after[n])
  <2>1. \A n \in 0 .. N - 1 : n + 1 \in 1 .. N /\ n + 1 - 1 = n
    BY <1>1
  <2> QED BY <1>10, <2>1
<1>12. \A n \in 0 .. N : after[n] \in Nat
  <2> DEFINE Q == {n \in 0 .. N : after[n] \in Nat}
  <2>1. 0 \in Q
    BY <1>1, <1>10
  <2>2. ASSUME NEW n \in 0 .. N - 1, n \in Q PROVE n + 1 \in Q
    <3>1. n + 1 \in 0 .. N /\ after[n] \in Nat
      BY <1>1, <2>2
    <3>2. after[n + 1] \in Nat
      BY <1>11, <3>1, HopType
    <3> QED BY <3>1, <3>2
  <2> HIDE DEF Q
  <2>3. 0 .. N \subseteq Q
    BY <1>1, <2>1, <2>2, UpTo
  <2> QED BY <2>3 DEF Q
<1> QED BY <1>9, <1>10, <1>11, <1>12 DEF N

(* A chain that has ended stays where it is.                               *)
LEMMA ChainEnds ==
  ASSUME NEW f \in Files, NEW a \in Nat, NEW h \in 0 .. MaxHops,
         Shared(f, TypeChain(f, a)[h]) = {}
  PROVE  \A n \in h .. MaxHops : TypeChain(f, a)[n] = TypeChain(f, a)[h]
<1> DEFINE c == TypeChain(f, a)
<1> DEFINE Q == {n \in 0 .. MaxHops : n >= h => c[n] = c[h]}
<1>1. MaxHops \in Nat /\ h \in Nat /\ h <= MaxHops
  BY BoundsAssumption
<1>2. 0 \in Q
  <2>1. 0 >= h => h = 0
    BY <1>1
  <2>2. 0 \in 0 .. MaxHops
    BY <1>1
  <2> QED BY <2>1, <2>2
<1>3. ASSUME NEW n \in 0 .. MaxHops - 1, n \in Q PROVE n + 1 \in Q
  <2>1. n + 1 \in 0 .. MaxHops /\ n \in Nat
    BY <1>1
  <2>2. CASE n >= h
    <3>1. c[n] = c[h]
      BY <1>3, <2>2
    <3>2. c[n + 1] = Hop(f, c[n])
      BY ChainFacts
    <3>3. c[n + 1] = c[h]
      BY <3>1, <3>2 DEF Hop
    <3> QED BY <2>1, <3>3
  <2>3. CASE ~(n >= h)
    <3>1. n + 1 >= h => n + 1 = h
      BY <1>1, <2>1, <2>3
    <3> HIDE DEF c
    <3> QED BY <2>1, <3>1
  <2> QED BY <2>2, <2>3
<1> HIDE DEF Q, c
<1>4. 0 .. MaxHops \subseteq Q
  BY <1>1, <1>2, <1>3, UpTo
<1>5. ASSUME NEW n \in h .. MaxHops PROVE c[n] = c[h]
  <2>1. n \in 0 .. MaxHops /\ n >= h
    BY <1>1
  <2> QED BY <1>4, <2>1 DEF Q
<1> QED BY <1>5 DEF c

(* Objects, level by level.                                                *)
Levels(k, f) ==
  /\ k[0] = {<<<<>>, f.root>>}
  /\ \A n \in 0 .. MaxDepth : k[n + 1] = UNION {Below(f, o) : o \in k[n]}
LEMMA ObjectSteps ==
  ASSUME NEW f \in Files
  PROVE  \E k : Levels(k, f) /\ Objects(f) = UNION {k[n] : n \in 0 .. MaxDepth + 1}
<1> DEFINE N == MaxDepth + 1
<1> DEFINE O == Seq(STRING) \X Nat
<1> DEFINE D == SUBSET O
<1> DEFINE r == {<<<<>>, f.root>>}
<1> DEFINE step == [x \in (1 .. N) \X D |-> UNION {Below(f, o) : o \in x[2]}]
<1>1. N \in Nat
  BY BoundsAssumption
<1>2. \A o \in O : Below(f, o) \subseteq O
  <2> SUFFICES ASSUME NEW s \in Seq(STRING), NEW x, NEW c \in ChildrenOf(f, x)
               PROVE  <<Append(s, c.name), c.to>> \in O
    BY DEF Below
  <2>1. c.name \in STRING /\ c.to \in Nat
    BY ChildrenFacts
  <2>2. Append(s, c.name) \in Seq(STRING)
    BY <2>1
  <2> QED BY <2>1, <2>2, Zenon
<1>3. r \in D
  <2>1. <<>> \in Seq(STRING)
    OBVIOUS
  <2>2. f.root \in Nat
    BY FilesAssumption DEF IsFile
  <2>3. <<<<>>, f.root>> \in O
    BY <2>1, <2>2, Zenon
  <2> HIDE DEF O
  <2> QED BY <2>3
<1>4. \A q \in D : UNION {Below(f, o) : o \in q} \in D
  BY <1>2
<1> HIDE DEF D, N, r
<1>5. step \in [(1 .. N) \X D -> D]
  BY <1>4
<1>6. \A n \in 1 .. N, q \in D : step[<<n, q>>] = UNION {Below(f, o) : o \in q}
  OBVIOUS
<1> HIDE DEF step
<1>7. PICK g : Recurses(g, N, D, r, step)
  BY <1>1, <1>3, <1>5, Recursion
<1>8. \A n \in 1 .. N : g[n] = UNION {Below(f, o) : o \in g[n - 1]}
  <2>1. \A n \in 1 .. N : g[n - 1] \in D
    BY <1>1, <1>7 DEF Recurses
  <2> QED BY <1>6, <1>7, <2>1 DEF Recurses
<1> DEFINE Is(k) == k = [n \in 0 .. N |-> IF n = 0 THEN r ELSE UNION {Below(f, o) : o \in k[n - 1]}]
<1> DEFINE at == CHOOSE k : Is(k)
<1>9. Is(g)
  <2>1. \A n \in 0 .. N : g[n] = IF n = 0 THEN r ELSE UNION {Below(f, o) : o \in g[n - 1]}
    <3>1. g[0] = r
      BY <1>7 DEF Recurses
    <3>2. \A n \in 0 .. N : n # 0 => n \in 1 .. N
      BY <1>1
    <3> QED BY <1>8, <3>1, <3>2, Zenon
  <2> QED BY <1>7, <2>1 DEF Recurses
<1>10. Is(at)
  BY <1>9
<1>11. Objects(f) = UNION {at[n] : n \in 0 .. MaxDepth + 1}
  BY DEF Objects, N, r
<1>12. at[0] = r /\ \A n \in 1 .. N : at[n] = UNION {Below(f, o) : o \in at[n - 1]}
  <2> HIDE DEF at
  <2>1. \A n \in 0 .. N : at[n] = IF n = 0 THEN r ELSE UNION {Below(f, o) : o \in at[n - 1]}
    BY <1>10
  <2>2. 0 \in 0 .. N /\ \A n \in 1 .. N : n \in 0 .. N /\ n # 0
    BY <1>1
  <2> QED BY <2>1, <2>2, Zenon
<1> HIDE DEF at
<1>13. Levels(at, f)
  <2>1. \A n \in 0 .. MaxDepth : n + 1 \in 1 .. N /\ n + 1 - 1 = n
    BY BoundsAssumption DEF N
  <2> QED BY <1>12, <2>1 DEF Levels, r
<1> QED BY <1>11, <1>13

(* What is below an object.                                                *)
LEMMA BelowFacts ==
  ASSUME NEW f, NEW o, NEW p
  PROVE  p \in Below(f, o) <=>
           /\ KindOf(f, o[2]) = "group"
           /\ \E c \in ChildrenOf(f, o[2]) : p = <<Append(o[1], c.name), c.to>>
BY DEF Below

(* The objects are the smallest set that has the root and what is below    *)
(* those above the limit; each is where its path says.                     *)
LEMMA ObjectsFacts ==
  ASSUME NEW f \in Files
  PROVE  /\ <<<<>>, f.root>> \in Objects(f)
         /\ \A o \in Objects(f) : /\ o = <<o[1], o[2]>> /\ o[1] \in Seq(STRING)
                                  /\ o[2] \in Nat \ {Undefined} /\ Len(o[1]) <= MaxDepth + 1
         /\ \A o \in Objects(f) : Len(o[1]) <= MaxDepth => Below(f, o) \subseteq Objects(f)
         /\ \A C : /\ <<<<>>, f.root>> \in C
                   /\ \A o \in C \cap Objects(f) : Len(o[1]) <= MaxDepth => Below(f, o) \subseteq C
                   => Objects(f) \subseteq C
<1>1. PICK k : Levels(k, f) /\ Objects(f) = UNION {k[n] : n \in 0 .. MaxDepth + 1}
  BY ObjectSteps
<1> DEFINE N == MaxDepth + 1
<1>2. N \in Nat /\ MaxDepth \in Nat /\ N - 1 = MaxDepth
  BY BoundsAssumption
<1>3. k[0] = {<<<<>>, f.root>>} /\ \A n \in 0 .. N - 1 : k[n + 1] = UNION {Below(f, o) : o \in k[n]}
  BY <1>1, <1>2 DEF Levels
<1>4. Objects(f) = UNION {k[n] : n \in 0 .. N}
  BY <1>1
<1>5. f.root \in Nat \ {Undefined}
  BY FilesAssumption DEF IsFile
<1>6. \A n \in 0 .. N - 1 : n \in 0 .. N /\ n + 1 \in 0 .. N /\ n <= MaxDepth
  BY <1>2
<1>7. \A n \in 0 .. N : n <= MaxDepth => n \in 0 .. N - 1
  BY <1>2
<1>8. 0 \in 0 .. N /\ \A n \in 0 .. N : n <= N
  BY <1>2
<1> HIDE DEF N
<1> DEFINE Fits(o, n) == /\ o = <<o[1], o[2]>> /\ o[1] \in Seq(STRING)
                         /\ o[2] \in Nat \ {Undefined} /\ Len(o[1]) = n
<1>9. \A n \in 0 .. N : \A o \in k[n] : Fits(o, n)
  <2> DEFINE Q == {n \in 0 .. N : \A o \in k[n] : Fits(o, n)}
  <2>1. 0 \in Q
    <3> DEFINE e == <<>>
    <3>1. e \in Seq(STRING) /\ Len(e) = 0
      OBVIOUS
    <3>2. k[0] = {<<e, f.root>>}
      BY <1>3
    <3> HIDE DEF e
    <3>3. Fits(<<e, f.root>>, 0)
      BY <1>5, <3>1
    <3> HIDE DEF Fits
    <3> QED BY <1>8, <3>2, <3>3
  <2>2. ASSUME NEW n \in 0 .. N - 1, n \in Q PROVE n + 1 \in Q
    <3>1. n \in Nat /\ n + 1 \in 0 .. N
      BY <1>6
    <3>2. ASSUME NEW p \in k[n + 1] PROVE Fits(p, n + 1)
      <4>1. PICK o \in k[n] : p \in Below(f, o)
        BY <1>3
      <4>2. o[1] \in Seq(STRING) /\ Len(o[1]) = n
        BY <2>2
      <4>3. PICK c \in ChildrenOf(f, o[2]) : p = <<Append(o[1], c.name), c.to>>
        BY <4>1, BelowFacts
      <4>4. c.name \in STRING /\ c.to \in Nat \ {Undefined}
        BY ChildrenFacts
      <4>5. Append(o[1], c.name) \in Seq(STRING) /\ Len(Append(o[1], c.name)) = n + 1
        BY <4>2, <4>4
      <4> QED BY <4>3, <4>4, <4>5
    <3> HIDE DEF Fits
    <3> QED BY <3>1, <3>2
  <2> HIDE DEF Q
  <2>3. 0 .. N \subseteq Q
    BY <1>2, <2>1, <2>2, UpTo
  <2> QED BY <2>3 DEF Q
<1>10. <<<<>>, f.root>> \in Objects(f)
  BY <1>3, <1>4, <1>8
<1>11. \A o \in Objects(f) : \E n \in 0 .. N : o \in k[n] /\ Fits(o, n)
  BY <1>4, <1>9
<1>12. ASSUME NEW o \in Objects(f)
       PROVE  /\ o = <<o[1], o[2]>> /\ o[1] \in Seq(STRING)
              /\ o[2] \in Nat \ {Undefined} /\ Len(o[1]) <= MaxDepth + 1
  BY <1>8, <1>11 DEF N
<1>13. ASSUME NEW o \in Objects(f), Len(o[1]) <= MaxDepth PROVE Below(f, o) \subseteq Objects(f)
  <2>1. PICK n \in 0 .. N : o \in k[n] /\ Len(o[1]) = n
    BY <1>11
  <2>2. n \in 0 .. N - 1 /\ n + 1 \in 0 .. N
    BY <1>6, <1>7, <1>13, <2>1
  <2>3. Below(f, o) \subseteq k[n + 1]
    BY <1>3, <2>1, <2>2
  <2> QED BY <1>4, <2>2, <2>3
<1>14. ASSUME NEW C, <<<<>>, f.root>> \in C,
              \A o \in C \cap Objects(f) : Len(o[1]) <= MaxDepth => Below(f, o) \subseteq C
       PROVE  Objects(f) \subseteq C
  <2> DEFINE Q == {n \in 0 .. N : k[n] \subseteq C}
  <2>1. 0 \in Q
    BY <1>3, <1>8, <1>14
  <2>2. ASSUME NEW n \in 0 .. N - 1, n \in Q PROVE n + 1 \in Q
    <3>1. n \in 0 .. N /\ n + 1 \in 0 .. N /\ n <= MaxDepth
      BY <1>6
    <3>2. ASSUME NEW o \in k[n] PROVE Below(f, o) \subseteq C
      <4>1. o \in C \cap Objects(f)
        BY <1>4, <2>2, <3>1
      <4>2. Len(o[1]) = n
        BY <1>9, <3>1
      <4> QED BY <1>14, <3>1, <4>1, <4>2
    <3>3. k[n + 1] \subseteq C
      BY <1>3, <3>2
    <3> QED BY <3>1, <3>3
  <2> HIDE DEF Q
  <2>3. 0 .. N \subseteq Q
    BY <1>2, <2>1, <2>2, UpTo
  <2> QED BY <1>4, <2>3 DEF Q
<1> QED BY <1>10, <1>12, <1>13, <1>14

--------------------------------------------------------------------------------
(* What the messages of an object header say.                              *)

(* The messages of the object at a, in some order, without continuations.  *)
IsHeader(f, a, ms) ==
  /\ ms \in Seq(Message)
  /\ \A m : m \in ToSet(ms) <=>
       \E b \in BlocksOf(f, a) \cap DOMAIN f.blocks : \E i \in DOMAIN f.blocks[b].messages :
         m = f.blocks[b].messages[i] /\ m.kind # "cont"

(* The links among them have different names.                              *)
LinksDiffer(ms) ==
  \A i, j \in DOMAIN ms :
    ms[i].kind = "link" /\ ms[j].kind = "link" /\ ms[i].name = ms[j].name => i = j

LEMMA HeaderMessages ==
  ASSUME NEW f \in Files, NEW a, NEW ms, IsHeader(f, a, ms), NEW kind, kind # "cont", NEW m
  PROVE  m \in ToSet(ms) /\ m.kind = kind <=> m \in MessagesOf(f, a, kind)
<1>1. m \in ToSet(ms) <=>
        \E b \in BlocksOf(f, a) \cap DOMAIN f.blocks : \E i \in DOMAIN f.blocks[b].messages :
          m = f.blocks[b].messages[i] /\ m.kind # "cont"
  BY DEF IsHeader
<1>2. m \in MessagesOf(f, a, kind) <=>
        \E b \in BlocksOf(f, a) \cap DOMAIN f.blocks : \E i \in DOMAIN f.blocks[b].messages :
          m = f.blocks[b].messages[i] /\ m.kind = kind
  BY MessagesFacts
<1> QED BY <1>1, <1>2

(* Of, Has and First, as sets.                                             *)
LEMMA OfFacts ==
  ASSUME NEW ms \in Seq(Message), NEW kind
  PROVE  /\ Of(ms, kind) \in Seq(Message)
         /\ ToSet(Of(ms, kind)) = {m \in ToSet(ms) : m.kind = kind}
         /\ Has(ms, kind) <=> \E m \in ToSet(ms) : m.kind = kind
         /\ Has(ms, kind) => First(ms, kind) \in ToSet(ms) /\ First(ms, kind).kind = kind
<1> DEFINE S == {m \in ToSet(ms) : m.kind = kind}
<1>1. ToSet(ms) \cap S = S
  OBVIOUS
<1>2. Of(ms, kind) = Keep(ms, S)
  BY DEF Of
<1>3. /\ Keep(ms, S) \in Seq(Message)
      /\ ToSet(Keep(ms, S)) = ToSet(ms) \cap S
      /\ Keep(ms, S) # <<>> <=> ToSet(ms) \cap S # {}
      /\ Keep(ms, S) # <<>> => Keep(ms, S)[1] \in ToSet(ms) \cap S
  <2> HIDE DEF S
  <2> QED BY KeepElements
<1> QED BY <1>1, <1>2, <1>3 DEF Has, First

LEMMA HeaderHas ==
  ASSUME NEW f \in Files, NEW a, NEW ms, IsHeader(f, a, ms), NEW kind, kind # "cont"
  PROVE  /\ Has(ms, kind) <=> MessagesOf(f, a, kind) # {}
         /\ Has(ms, kind) => First(ms, kind) \in MessagesOf(f, a, kind)
<1>1. ms \in Seq(Message)
  BY DEF IsHeader
<1> QED BY <1>1, OfFacts, HeaderMessages

(* An object has one message of these kinds.                               *)
Singles == {"links", "attributes", "datatype", "table", "layout", "dataspace", "pipeline", "fill"}
LEMMA OneMessage ==
  ASSUME NEW f \in Files, OneOfEach(f), NEW a, NEW kind \in Singles,
         NEW m \in MessagesOf(f, a, kind), NEW n \in MessagesOf(f, a, kind)
  PROVE  m = n
<1>1. CASE a \in DOMAIN f.blocks
  BY <1>1 DEF OneOfEach, Singles
<1>2. CASE a \notin DOMAIN f.blocks
  <2>1. Continues(f, {a})
    BY <1>2 DEF Continues
  <2>2. BlocksOf(f, a) \subseteq {a}
    BY <2>1, BlocksFacts
  <2> QED BY <1>2, <2>2, MessagesFacts
<1> QED BY <1>1, <1>2

LEMMA HeaderFirst ==
  ASSUME NEW f \in Files, OneOfEach(f), NEW a, NEW ms, IsHeader(f, a, ms), NEW kind \in Singles
  PROVE  /\ Has(ms, kind) => MessagesOf(f, a, kind) = {First(ms, kind)}
         /\ ~Has(ms, kind) => MessagesOf(f, a, kind) = {}
         /\ ParsesFirst(ms, kind) <=> ~BadMessage(f, a, {kind})
<1>1. kind # "cont"
  BY DEF Singles
<1>2. Has(ms, kind) <=> MessagesOf(f, a, kind) # {}
  BY <1>1, HeaderHas
<1>3. Has(ms, kind) => First(ms, kind) \in MessagesOf(f, a, kind)
  BY <1>1, HeaderHas
<1>4. Has(ms, kind) => MessagesOf(f, a, kind) = {First(ms, kind)}
  BY <1>3, OneMessage
<1>5. BadMessage(f, a, {kind}) <=> \E m \in MessagesOf(f, a, kind) : ~m.ok
  BY DEF BadMessage
<1> QED BY <1>2, <1>4, <1>5 DEF ParsesFirst

(* What an entry says of its attributes is what the object says.           *)
Own(f, a, attributes, complete) ==
  /\ ToSet(attributes) =
       {m.name : m \in {k \in MessagesOf(f, a, "attribute") : k.ok}}
         \cup UNION {ToSet(m.names) : m \in MessagesOf(f, a, "attributes")}
  /\ complete <=> \A m \in MessagesOf(f, a, "attributes") : m.complete

LEMMA HeaderOwn ==
  ASSUME NEW f \in Files, OneOfEach(f), NEW a, NEW ms, IsHeader(f, a, ms)
  PROVE  /\ Own(f, a, Attributes(ms), AttributesComplete(ms))
         /\ Attributes(ms) \in Seq(STRING)
         /\ AttributesComplete(ms) \in BOOLEAN
<1> DEFINE S == {m \in ToSet(ms) : m.kind = "attribute" /\ m.ok}
<1> DEFINE good == Keep(ms, S)
<1> DEFINE names == [i \in DOMAIN good |-> good[i].name]
<1> DEFINE dense == IF Has(ms, "attributes") THEN First(ms, "attributes").names ELSE <<>>
<1>1. ms \in Seq(Message)
  BY DEF IsHeader
<1>2. Attributes(ms) = names \o dense
  BY DEF Attributes
<1>3. S = {k \in MessagesOf(f, a, "attribute") : k.ok}
  <2>1. \A m : m \in ToSet(ms) /\ m.kind = "attribute" <=> m \in MessagesOf(f, a, "attribute")
    BY HeaderMessages
  <2> QED BY <2>1
<1>4. good \in Seq(Message) /\ ToSet(good) = S
  <2>1. good \in Seq(Message) /\ ToSet(good) = ToSet(ms) \cap S
    <3> HIDE DEF S
    <3> QED BY <1>1, KeepElements
  <2>2. ToSet(ms) \cap S = S
    OBVIOUS
  <2> QED BY <2>1, <2>2
<1>5. \A m \in S : m.name \in STRING
  BY <1>3, MessagesFacts, MessageFacts
<1> HIDE DEF good, S
<1>6. names \in Seq(STRING) /\ ToSet(names) = {m.name : m \in S}
  <2>1. DOMAIN good = 1 .. Len(good) /\ Len(good) \in Nat
    BY <1>4
  <2>2. \A i \in DOMAIN good : good[i] \in S
    BY <1>4 DEF ToSet
  <2>3. \A m \in S : \E i \in DOMAIN good : m = good[i]
    BY <1>4 DEF ToSet
  <2>4. names \in Seq(STRING) /\ DOMAIN names = DOMAIN good
    BY <1>5, <2>1, <2>2
  <2>5. \A i \in DOMAIN good : names[i] = good[i].name
    OBVIOUS
  <2> HIDE DEF names
  <2> QED BY <2>2, <2>3, <2>4, <2>5 DEF ToSet
<1>7. dense \in Seq(STRING) /\ ToSet(dense) = UNION {ToSet(m.names) : m \in MessagesOf(f, a, "attributes")}
  <2>1. CASE Has(ms, "attributes")
    <3>1. MessagesOf(f, a, "attributes") = {First(ms, "attributes")}
      BY <2>1, HeaderFirst DEF Singles
    <3>2. First(ms, "attributes").names \in Seq(STRING)
      BY <3>1, MessagesFacts, MessageFacts
    <3> QED BY <2>1, <3>1, <3>2
  <2>2. CASE ~Has(ms, "attributes")
    <3>1. MessagesOf(f, a, "attributes") = {}
      BY <2>2, HeaderFirst DEF Singles
    <3> QED BY <2>2, <3>1 DEF ToSet
  <2> QED BY <2>1, <2>2
<1> HIDE DEF names, dense
<1>8. ToSet(Attributes(ms)) = ToSet(names) \cup ToSet(dense)
  BY <1>2, <1>6, <1>7, ConcatFacts
<1>9. AttributesComplete(ms) <=> \A m \in MessagesOf(f, a, "attributes") : m.complete
  <2>1. CASE Has(ms, "attributes")
    <3>1. MessagesOf(f, a, "attributes") = {First(ms, "attributes")}
      BY <2>1, HeaderFirst DEF Singles
    <3> QED BY <2>1, <3>1 DEF AttributesComplete
  <2>2. CASE ~Has(ms, "attributes")
    <3>1. MessagesOf(f, a, "attributes") = {}
      BY <2>2, HeaderFirst DEF Singles
    <3> QED BY <2>2, <3>1 DEF AttributesComplete
  <2> QED BY <2>1, <2>2
<1>10. Attributes(ms) \in Seq(STRING)
  BY <1>2, <1>6, <1>7, ConcatFacts
<1>11. AttributesComplete(ms) \in BOOLEAN
  BY DEF AttributesComplete
<1> QED BY <1>3, <1>6, <1>7, <1>8, <1>9, <1>10, <1>11 DEF Own

(* The links of a new-style group are its children.                        *)
LEMMA HeaderLinks ==
  ASSUME NEW f \in Files, OneOfEach(f), NEW a, NEW ms, IsHeader(f, a, ms), ~Has(ms, "table")
  PROVE  /\ Links(ms) \in Seq(Entry)
         /\ ToSet(Links(ms)) = ChildrenOf(f, a)
         /\ NamesDiffer(f) /\ a \in DOMAIN f.blocks /\ LinksDiffer(ms) => Different(Links(ms))
<1> DEFINE L == {m \in ToSet(ms) : m.kind = "link"}
<1> DEFINE inline == Keep(ms, L)
<1> DEFINE mapped == [i \in DOMAIN inline |-> [name |-> inline[i].name, to |-> inline[i].to]]
<1> DEFINE dense == IF Has(ms, "links") THEN First(ms, "links").links ELSE <<>>
<1> DEFINE all == mapped \o dense
<1> DEFINE H == {l \in ToSet(all) : l.to # Undefined}
<1>1. ms \in Seq(Message) /\ DOMAIN ms = 1 .. Len(ms)
  BY DEF IsHeader
<1>2. Links(ms) = Keep(all, H)
  BY DEF Links, Of
<1>3. L = MessagesOf(f, a, "link")
  <2>1. \A m : m \in ToSet(ms) /\ m.kind = "link" <=> m \in MessagesOf(f, a, "link")
    BY HeaderMessages
  <2>2. \A m \in MessagesOf(f, a, "link") : m \in L
    BY <2>1
  <2>3. \A m \in L : m \in MessagesOf(f, a, "link")
    BY <2>1
  <2> QED BY <2>2, <2>3
<1>4. inline \in Seq(Message) /\ ToSet(inline) = L
  <2>1. inline \in Seq(Message) /\ ToSet(inline) = ToSet(ms) \cap L
    <3> HIDE DEF L
    <3> QED BY <1>1, KeepElements
  <2>2. ToSet(ms) \cap L = L
    OBVIOUS
  <2> QED BY <2>1, <2>2
<1>5. PICK h : Picks(h, inline, ms, Len(ms), L)
  <2> HIDE DEF L
  <2> QED BY <1>1, KeepFacts
<1>6. \A m \in L : m.name \in STRING /\ m.to \in Nat
  BY <1>3, MessagesFacts, MessageFacts
<1>7. \A m \in L : m.kind = "link"
  OBVIOUS
<1> HIDE DEF inline, L
<1>8. /\ DOMAIN inline = 1 .. Len(inline) /\ Len(inline) \in Nat
      /\ \A i \in DOMAIN inline : inline[i] \in L
      /\ \A m \in L : \E i \in DOMAIN inline : m = inline[i]
  BY <1>4 DEF ToSet
<1>9. /\ DOMAIN mapped = DOMAIN inline
      /\ \A i \in DOMAIN inline : mapped[i] = [name |-> inline[i].name, to |-> inline[i].to]
  OBVIOUS
<1>10. mapped \in Seq(Entry)
  <2>1. \A i \in DOMAIN inline : [name |-> inline[i].name, to |-> inline[i].to] \in Entry
    BY <1>6, <1>8 DEF Entry
  <2> QED BY <1>8, <2>1
<1> HIDE DEF mapped
<1>11. ToSet(mapped) = {[name |-> m.name, to |-> m.to] : m \in MessagesOf(f, a, "link")}
  BY <1>3, <1>8, <1>9 DEF ToSet
<1>12. /\ dense \in Seq(Entry)
       /\ ToSet(dense) = UNION {ToSet(m.links) : m \in MessagesOf(f, a, "links")}
       /\ dense = <<>> \/ \E m \in MessagesOf(f, a, "links") : dense = m.links
  <2>1. CASE Has(ms, "links")
    <3>1. MessagesOf(f, a, "links") = {First(ms, "links")}
      BY <2>1, HeaderFirst DEF Singles
    <3>2. First(ms, "links").links \in Seq(Entry)
      BY <3>1, MessagesFacts, MessageFacts
    <3> QED BY <2>1, <3>1, <3>2
  <2>2. CASE ~Has(ms, "links")
    <3>1. MessagesOf(f, a, "links") = {}
      BY <2>2, HeaderFirst DEF Singles
    <3> QED BY <2>2, <3>1 DEF ToSet
  <2> QED BY <2>1, <2>2
<1> HIDE DEF dense
<1>13. all \in Seq(Entry) /\ ToSet(all) = LinksOf(f, a)
  BY <1>10, <1>11, <1>12, ConcatFacts DEF LinksOf
<1>14. MessagesOf(f, a, "table") = {}
  BY HeaderFirst DEF Singles
<1>15. H = ChildrenOf(f, a) /\ ToSet(all) \cap H = H
  BY <1>13, <1>14 DEF ChildrenOf
<1> HIDE DEF H, all
<1>16. Keep(all, H) \in Seq(Entry) /\ ToSet(Keep(all, H)) = ToSet(all) \cap H
  BY <1>13, KeepElements
<1>17. ASSUME NamesDiffer(f), a \in DOMAIN f.blocks, LinksDiffer(ms) PROVE Different(Links(ms))
  <2>1. Different(mapped)
    <3> SUFFICES ASSUME NEW i \in DOMAIN inline, NEW j \in DOMAIN inline, inline[i].name = inline[j].name
                 PROVE  i = j
      BY <1>9 DEF Different
    <3>1. h[i] \in DOMAIN ms /\ h[j] \in DOMAIN ms /\ inline[i] = ms[h[i]] /\ inline[j] = ms[h[j]]
      BY <1>1, <1>5, <1>8 DEF Picks
    <3>2. ms[h[i]].kind = "link" /\ ms[h[j]].kind = "link"
      BY <1>7, <1>8, <3>1
    <3>3. h[i] = h[j]
      BY <1>17, <3>1, <3>2 DEF LinksDiffer
    <3> QED BY <1>5, <1>8, <3>3 DEF Picks
  <2>2. Different(dense) /\ \A i \in DOMAIN mapped, j \in DOMAIN dense : mapped[i].name # dense[j].name
    <3>1. CASE dense = <<>>
      BY <3>1 DEF Different
    <3>2. CASE \E m \in MessagesOf(f, a, "links") : dense = m.links
      <4>1. /\ \A i, j \in DOMAIN dense : dense[i].name = dense[j].name => i = j
            /\ \A i \in DOMAIN dense : \A k \in PlacesOf(f, a, "link") : At(f, k).name # dense[i].name
        BY <1>17, <3>2 DEF NamesDiffer
      <4>2. ASSUME NEW i \in DOMAIN mapped, NEW j \in DOMAIN dense, mapped[i].name = dense[j].name
            PROVE  FALSE
        <5>1. inline[i] \in MessagesOf(f, a, "link") /\ mapped[i].name = inline[i].name
          BY <1>3, <1>8, <1>9
        <5>2. PICK k \in PlacesOf(f, a, "link") : inline[i] = At(f, k)
          BY <5>1 DEF MessagesOf
        <5> QED BY <4>1, <4>2, <5>1, <5>2
      <4> QED BY <4>1, <4>2 DEF Different
    <3> QED BY <1>12, <3>1, <3>2
  <2>3. Different(all)
    BY <1>10, <1>12, <2>1, <2>2, ConcatDifferent DEF all
  <2> QED BY <1>2, <1>13, <2>3, KeepDifferent
<1> QED BY <1>2, <1>15, <1>16, <1>17

(* The names in symbol table nodes differ.                                 *)
TablesDiffer(f, ts) ==
  \A i, j \in DOMAIN ts :
    ts[i] \in DOMAIN f.tables /\ ts[j] \in DOMAIN f.tables =>
      \A p \in DOMAIN f.tables[ts[i]].entries, q \in DOMAIN f.tables[ts[j]].entries :
        f.tables[ts[i]].entries[p].name = f.tables[ts[j]].entries[q].name => i = j /\ p = q

(* The entries of the symbol table nodes of an old-style group are its     *)
(* children.                                                               *)
LEMMA TableEntries ==
  ASSUME NEW f \in Files, NEW a, MessagesOf(f, a, "table") # {},
         NEW ts \in Seq(Nat), ToSet(ts) = TablesOf(f, a), \A i \in DOMAIN ts : TableReads(f, ts[i])
  PROVE  /\ Entries(f, ts) \in Seq(Entry)
         /\ ToSet(Entries(f, ts)) = ChildrenOf(f, a)
         /\ TablesDiffer(f, ts) => Different(Entries(f, ts))
<1> DEFINE ss == [i \in DOMAIN ts |-> f.tables[ts[i]].entries]
<1> DEFINE all == FlattenSeq(ss)
<1> DEFINE H == {e \in ToSet(all) : e.to # Undefined}
<1>1. Entries(f, ts) = Keep(all, H)
  BY DEF Entries
<1>2. \A i \in DOMAIN ts : ts[i] \in DOMAIN f.tables /\ f.tables[ts[i]].entries \in Seq(Entry)
  BY TableFacts DEF TableReads
<1>3. DOMAIN ts = 1 .. Len(ts) /\ Len(ts) \in Nat
  OBVIOUS
<1>4. ss \in Seq(Seq(Entry)) /\ DOMAIN ss = DOMAIN ts
  BY <1>2, <1>3
<1>5. \A i \in DOMAIN ts : ss[i] = f.tables[ts[i]].entries
  OBVIOUS
<1> HIDE DEF ss
<1>6. all \in Seq(Entry) /\ ToSet(all) = UNION {ToSet(ss[i]) : i \in DOMAIN ss}
  BY <1>4, FlattenFacts
<1>7. ToSet(all) = EntriesOf(f, a)
  <2>1. ASSUME NEW x \in ToSet(all) PROVE x \in EntriesOf(f, a)
    <3>1. PICK i \in DOMAIN ts : x \in ToSet(f.tables[ts[i]].entries)
      <4>1. PICK i \in DOMAIN ss : x \in ToSet(ss[i])
        BY <1>6
      <4> QED BY <1>4, <1>5, <4>1
    <3>2. ts[i] \in TablesOf(f, a) \cap DOMAIN f.tables
      BY <1>2 DEF ToSet
    <3> QED BY <3>1, <3>2 DEF EntriesOf
  <2>2. ASSUME NEW x \in EntriesOf(f, a) PROVE x \in ToSet(all)
    <3>1. PICK t \in TablesOf(f, a) : x \in ToSet(f.tables[t].entries)
      BY DEF EntriesOf
    <3>2. PICK i \in DOMAIN ts : t = ts[i]
      BY DEF ToSet
    <3> QED BY <1>4, <1>5, <1>6, <3>1, <3>2
  <2> QED BY <2>1, <2>2
<1>8. H = ChildrenOf(f, a) /\ ToSet(all) \cap H = H
  BY <1>7 DEF ChildrenOf
<1>9. ASSUME TablesDiffer(f, ts) PROVE Different(all)
  <2>1. Apart(ss)
    <3> SUFFICES ASSUME NEW i \in DOMAIN ts, NEW j \in DOMAIN ts, NEW p \in DOMAIN ss[i],
                        NEW q \in DOMAIN ss[j], ss[i][p].name = ss[j][q].name
                 PROVE  i = j /\ p = q
      BY <1>4 DEF Apart
    <3>1. /\ p \in DOMAIN f.tables[ts[i]].entries /\ q \in DOMAIN f.tables[ts[j]].entries
          /\ f.tables[ts[i]].entries[p].name = f.tables[ts[j]].entries[q].name
      BY <1>5
    <3> QED BY <1>2, <1>9, <3>1 DEF TablesDiffer
  <2> QED BY <1>4, <2>1, FlattenFacts
<1> HIDE DEF H, all
<1>10. Keep(all, H) \in Seq(Entry) /\ ToSet(Keep(all, H)) = ToSet(all) \cap H
  BY <1>6, KeepElements
<1>11. TablesDiffer(f, ts) => Different(Keep(all, H))
  BY <1>6, <1>9, KeepDifferent
<1> QED BY <1>1, <1>8, <1>10, <1>11

--------------------------------------------------------------------------------
(* A search.  kids gives for a place, by position, the places it names; q  *)
(* is the stack of places to visit, sn those visited.                      *)

(* A place to visit was visited, or will be twice.                         *)
Again(q, sn) ==
  \/ \E i, j \in DOMAIN q : i # j /\ q[i] = q[j]
  \/ \E i \in DOMAIN q : q[i] \in sn

(* A place named by one visited is named once more, or the first one is.   *)
Twice(kids, a, sn) ==
  \/ \E b, c \in sn : \E i \in DOMAIN kids[b], j \in DOMAIN kids[c] :
       (b # c \/ i # j) /\ kids[b][i] = kids[c][j]
  \/ \E b \in sn : \E i \in DOMAIN kids[b] : kids[b][i] = a

Named(kids, sn, x) == \E b \in sn : \E i \in DOMAIN kids[b] : kids[b][i] = x

Search(kids, a, q, sn) ==
  /\ q \in Seq(Nat) /\ IsFiniteSet(sn)
  /\ a \in sn \cup ToSet(q)
  /\ \A x : Named(kids, sn, x) => x \in sn \cup ToSet(q)
  /\ \A x \in sn \cup ToSet(q) : x = a \/ Named(kids, sn, x)
  /\ Again(q, sn) => Twice(kids, a, sn)

(* While nothing was passed over.                                          *)
Strict(kids, a, q, sn) == Twice(kids, a, sn) => Again(q, sn)

(* t lists what the place names, k, in some order.                         *)
Lists(g, t, k) ==
  /\ g \in [DOMAIN t -> DOMAIN k]
  /\ \A j \in DOMAIN t : t[j] = k[g[j]]
  /\ \A i, j \in DOMAIN t : g[i] = g[j] => i = j
  /\ \A i \in DOMAIN k : \E j \in DOMAIN t : g[j] = i

LEMMA SearchStarts ==
  ASSUME NEW kids, NEW a \in Nat
  PROVE  Search(kids, a, <<a>>, {}) /\ Strict(kids, a, <<a>>, {})
<1>1. <<a>> \in Seq(Nat) /\ ToSet(<<a>>) = {a} /\ DOMAIN <<a>> = {1}
  BY DEF ToSet
<1>2. IsFiniteSet({})
  BY FS_EmptySet
<1>3. ~Again(<<a>>, {}) /\ ~Twice(kids, a, {}) /\ \A x : ~Named(kids, {}, x)
  BY <1>1 DEF Again, Twice, Named
<1> QED BY <1>1, <1>2, <1>3 DEF Search, Strict

(* The first element of a sequence and the rest.                           *)
LEMMA HeadTail ==
  ASSUME NEW T, NEW q \in Seq(T), q # <<>>
  PROVE  /\ Tail(q) \in Seq(T) /\ Head(q) = q[1] /\ Head(q) \in T /\ 1 \in DOMAIN q
         /\ ToSet(q) = {Head(q)} \cup ToSet(Tail(q))
         /\ \A i \in DOMAIN Tail(q) : i + 1 \in DOMAIN q /\ i + 1 # 1 /\ Tail(q)[i] = q[i + 1]
         /\ \A i \in DOMAIN q : i = 1 \/ i - 1 \in DOMAIN Tail(q)
<1> DEFINE r == Tail(q)
<1>1. /\ r \in Seq(T) /\ Len(q) \in Nat \ {0} /\ Len(r) = Len(q) - 1
      /\ \A i \in 1 .. Len(r) : r[i] = q[i + 1]
      /\ Head(q) = q[1] /\ DOMAIN q = 1 .. Len(q)
  BY HeadTailProperties
<1>2. DOMAIN r = 1 .. Len(r)
  BY <1>1
<1> HIDE DEF r
<1>3. /\ 1 \in DOMAIN q
      /\ \A i \in DOMAIN r : i + 1 \in DOMAIN q /\ i + 1 # 1
      /\ \A i \in DOMAIN q : i = 1 \/ (i - 1 \in DOMAIN r /\ i - 1 + 1 = i)
  BY <1>1, <1>2
<1>4. ToSet(q) = {q[1]} \cup ToSet(r)
  <2>1. \A i \in DOMAIN q : q[i] \in {q[1]} \cup ToSet(r)
    <3> TAKE i \in DOMAIN q
    <3>1. CASE i = 1
      BY <3>1
    <3>2. CASE i # 1
      <4>1. PICK j \in DOMAIN r : j + 1 = i
        BY <1>3, <3>2
      <4>2. q[i] = r[j]
        BY <1>1, <1>2, <4>1
      <4> QED BY <4>2 DEF ToSet
    <3> QED BY <3>1, <3>2
  <2>2. \A i \in DOMAIN r : r[i] \in ToSet(q)
    BY <1>1, <1>2, <1>3 DEF ToSet
  <2>3. q[1] \in ToSet(q)
    BY <1>3 DEF ToSet
  <2> QED BY <2>1, <2>2, <2>3 DEF ToSet
<1>5. Head(q) \in T
  BY <1>1, <1>3
<1> QED BY <1>1, <1>2, <1>3, <1>4, <1>5 DEF r

(* Again, of the parts of a stack.                                         *)
LEMMA AgainConcat ==
  ASSUME NEW t \in Seq(Nat), NEW r \in Seq(Nat), NEW sn
  PROVE  Again(t \o r, sn) <=> \/ Again(t, sn) \/ Again(r, sn) \/ ToSet(t) \cap ToSet(r) # {}
<1> DEFINE q == t \o r
<1> DEFINE n == Len(t)
<1>1. /\ \A i \in DOMAIN t : i \in DOMAIN q /\ q[i] = t[i]
      /\ \A i \in DOMAIN r : n + i \in DOMAIN q /\ q[n + i] = r[i]
      /\ \A i \in DOMAIN q : i \in DOMAIN t \/ \E j \in DOMAIN r : i = n + j
  BY ConcatFacts
<1>2. n \in Nat /\ DOMAIN t = 1 .. n /\ DOMAIN r = 1 .. Len(r)
  OBVIOUS
<1>3. /\ \A i, j \in DOMAIN r : n + i = n + j => i = j
      /\ \A i \in DOMAIN t, j \in DOMAIN r : i # n + j
  BY <1>2
<1> HIDE DEF q, n
<1>4. Again(t, sn) => Again(q, sn)
  BY <1>1 DEF Again
<1>5. Again(r, sn) => Again(q, sn)
  <2>1. CASE \E i \in DOMAIN r : r[i] \in sn
    BY <1>1, <2>1 DEF Again
  <2>2. CASE \E i, j \in DOMAIN r : i # j /\ r[i] = r[j]
    <3>1. PICK i \in DOMAIN r, j \in DOMAIN r : i # j /\ r[i] = r[j]
      BY <2>2
    <3>2. n + i \in DOMAIN q /\ n + j \in DOMAIN q /\ n + i # n + j /\ q[n + i] = q[n + j]
      BY <1>1, <1>3, <3>1
    <3> QED BY <3>2 DEF Again
  <2> QED BY <2>1, <2>2 DEF Again
<1>6. ASSUME ToSet(t) \cap ToSet(r) # {} PROVE Again(q, sn)
  <2>1. PICK i \in DOMAIN t, j \in DOMAIN r : t[i] = r[j]
    BY <1>6 DEF ToSet
  <2>2. i \in DOMAIN q /\ n + j \in DOMAIN q /\ i # n + j /\ q[i] = q[n + j]
    BY <1>1, <1>3, <2>1
  <2> QED BY <2>2 DEF Again
<1>7. ASSUME NEW i \in DOMAIN q, q[i] \in sn PROVE Again(t, sn) \/ Again(r, sn)
  BY <1>1, <1>7 DEF Again
<1>8. ASSUME NEW i \in DOMAIN q, NEW j \in DOMAIN q, i # j, q[i] = q[j]
      PROVE  Again(t, sn) \/ Again(r, sn) \/ ToSet(t) \cap ToSet(r) # {}
  <2>1. CASE i \in DOMAIN t /\ j \in DOMAIN t
    BY <1>1, <1>8, <2>1 DEF Again
  <2>2. CASE i \in DOMAIN t /\ j \notin DOMAIN t
    <3>1. PICK y \in DOMAIN r : j = n + y
      BY <1>1, <2>2
    <3>2. t[i] = r[y]
      BY <1>1, <1>8, <2>2, <3>1
    <3> QED BY <2>2, <3>2 DEF ToSet
  <2>3. CASE i \notin DOMAIN t /\ j \in DOMAIN t
    <3>1. PICK x \in DOMAIN r : i = n + x
      BY <1>1, <2>3
    <3>2. t[j] = r[x]
      BY <1>1, <1>8, <2>3, <3>1
    <3> QED BY <2>3, <3>2 DEF ToSet
  <2>4. CASE i \notin DOMAIN t /\ j \notin DOMAIN t
    <3>1. PICK x \in DOMAIN r : i = n + x
      BY <1>1, <2>4
    <3>2. PICK y \in DOMAIN r : j = n + y
      BY <1>1, <2>4
    <3>3. x # y /\ r[x] = r[y]
      BY <1>1, <1>8, <3>1, <3>2
    <3> QED BY <3>3 DEF Again
  <2> QED BY <2>1, <2>2, <2>3, <2>4
<1> QED BY <1>4, <1>5, <1>6, <1>7, <1>8 DEF Again, q

LEMMA AgainHead ==
  ASSUME NEW q \in Seq(Nat), q # <<>>, NEW sn
  PROVE  Again(q, sn) <=> \/ Head(q) \in sn \/ Head(q) \in ToSet(Tail(q)) \/ Again(Tail(q), sn)
<1> DEFINE r == Tail(q)
<1> DEFINE b == Head(q)
<1>1. /\ r \in Seq(Nat) /\ b = q[1] /\ 1 \in DOMAIN q
      /\ \A i \in DOMAIN r : i + 1 \in DOMAIN q /\ i + 1 # 1 /\ r[i] = q[i + 1]
      /\ \A i \in DOMAIN q : i = 1 \/ i - 1 \in DOMAIN r
  BY HeadTail
<1>2. DOMAIN r \subseteq Nat /\ DOMAIN q \subseteq Nat
  BY <1>1
<1>3. <<b>> \in Seq(Nat) /\ DOMAIN <<b>> = {1} /\ ToSet(<<b>>) = {b}
  BY <1>1 DEF ToSet
<1>4. q = <<b>> \o r
  BY HeadTailProperties
<1>5. Again(<<b>>, sn) <=> b \in sn
  BY <1>3 DEF Again
<1>6. Again(<<b>> \o r, sn) <=> Again(<<b>>, sn) \/ Again(r, sn) \/ ToSet(<<b>>) \cap ToSet(r) # {}
  BY <1>1, <1>3, AgainConcat
<1> QED BY <1>3, <1>4, <1>5, <1>6

(* A place named twice, before and after a visit.                          *)
LEMMA TwiceVisits ==
  ASSUME NEW kids, NEW a, NEW sn, NEW b, b \notin sn
  PROVE  Twice(kids, a, sn \cup {b}) <=>
           \/ Twice(kids, a, sn)
           \/ \E i, j \in DOMAIN kids[b] : i # j /\ kids[b][i] = kids[b][j]
           \/ \E i \in DOMAIN kids[b] : kids[b][i] = a \/ Named(kids, sn, kids[b][i])
<1>1. ASSUME Twice(kids, a, sn) PROVE Twice(kids, a, sn \cup {b})
  BY <1>1 DEF Twice
<1>2. ASSUME NEW i \in DOMAIN kids[b], NEW j \in DOMAIN kids[b], i # j, kids[b][i] = kids[b][j]
      PROVE  Twice(kids, a, sn \cup {b})
  BY <1>2 DEF Twice
<1>3. ASSUME NEW i \in DOMAIN kids[b], kids[b][i] = a PROVE Twice(kids, a, sn \cup {b})
  BY <1>3 DEF Twice
<1>4. ASSUME NEW i \in DOMAIN kids[b], Named(kids, sn, kids[b][i]) PROVE Twice(kids, a, sn \cup {b})
  <2>1. PICK c \in sn : \E j \in DOMAIN kids[c] : kids[c][j] = kids[b][i]
    BY <1>4 DEF Named
  <2>2. PICK j \in DOMAIN kids[c] : kids[c][j] = kids[b][i]
    BY <2>1
  <2>3. b # c /\ b \in sn \cup {b} /\ c \in sn \cup {b}
    OBVIOUS
  <2> QED BY <2>2, <2>3 DEF Twice
<1>5. ASSUME NEW c \in sn \cup {b}, NEW i \in DOMAIN kids[c], kids[c][i] = a
      PROVE  \/ Twice(kids, a, sn)
             \/ \E k \in DOMAIN kids[b] : kids[b][k] = a
  BY <1>5 DEF Twice
<1>6. ASSUME NEW c \in sn \cup {b}, NEW d \in sn \cup {b}, NEW i \in DOMAIN kids[c], NEW j \in DOMAIN kids[d],
             c # d \/ i # j, kids[c][i] = kids[d][j]
      PROVE  \/ Twice(kids, a, sn)
             \/ \E k, l \in DOMAIN kids[b] : k # l /\ kids[b][k] = kids[b][l]
             \/ \E k \in DOMAIN kids[b] : Named(kids, sn, kids[b][k])
  <2>1. CASE c \in sn /\ d \in sn
    BY <1>6, <2>1 DEF Twice
  <2>2. CASE c \in sn /\ d = b
    BY <1>6, <2>2 DEF Named
  <2>3. CASE c = b /\ d \in sn
    BY <1>6, <2>3 DEF Named
  <2>4. CASE c = b /\ d = b
    BY <1>6, <2>4
  <2> QED BY <2>1, <2>2, <2>3, <2>4
<1>7. Twice(kids, a, sn \cup {b}) =>
           \/ Twice(kids, a, sn)
           \/ \E i, j \in DOMAIN kids[b] : i # j /\ kids[b][i] = kids[b][j]
           \/ \E i \in DOMAIN kids[b] : kids[b][i] = a \/ Named(kids, sn, kids[b][i])
  <2> SUFFICES ASSUME Twice(kids, a, sn \cup {b})
               PROVE  \/ Twice(kids, a, sn)
                      \/ \E i, j \in DOMAIN kids[b] : i # j /\ kids[b][i] = kids[b][j]
                      \/ \E i \in DOMAIN kids[b] : kids[b][i] = a \/ Named(kids, sn, kids[b][i])
    OBVIOUS
  <2>1. CASE \E c \in sn \cup {b} : \E i \in DOMAIN kids[c] : kids[c][i] = a
    <3>1. PICK c \in sn \cup {b} : \E i \in DOMAIN kids[c] : kids[c][i] = a
      BY <2>1
    <3>2. PICK i \in DOMAIN kids[c] : kids[c][i] = a
      BY <3>1
    <3> QED BY <1>5, <3>2
  <2>2. CASE \E c, d \in sn \cup {b} : \E i \in DOMAIN kids[c], j \in DOMAIN kids[d] :
               (c # d \/ i # j) /\ kids[c][i] = kids[d][j]
    <3>1. PICK c \in sn \cup {b}, d \in sn \cup {b} : \E i \in DOMAIN kids[c], j \in DOMAIN kids[d] :
               (c # d \/ i # j) /\ kids[c][i] = kids[d][j]
      BY <2>2
    <3>2. PICK i \in DOMAIN kids[c], j \in DOMAIN kids[d] : (c # d \/ i # j) /\ kids[c][i] = kids[d][j]
      BY <3>1
    <3> QED BY <1>6, <3>2
  <2> QED BY <2>1, <2>2 DEF Twice
<1> QED BY <1>1, <1>2, <1>3, <1>4, <1>7

(* A visit to the place on top.                                            *)
LEMMA SearchVisits ==
  ASSUME NEW kids, NEW a, NEW q, NEW sn, Search(kids, a, q, sn), q # <<>>, Head(q) \notin sn,
         NEW t \in Seq(Nat), NEW g, Lists(g, t, kids[Head(q)])
  PROVE  /\ Search(kids, a, t \o Tail(q), sn \cup {Head(q)})
         /\ Strict(kids, a, q, sn) => Strict(kids, a, t \o Tail(q), sn \cup {Head(q)})
<1> DEFINE b == Head(q)
<1> DEFINE r == Tail(q)
<1> DEFINE p == t \o r
<1> DEFINE un == sn \cup {b}
<1>1. q \in Seq(Nat) /\ IsFiniteSet(sn)
  BY DEF Search
<1>2. r \in Seq(Nat) /\ ToSet(q) = {b} \cup ToSet(r)
  BY <1>1, HeadTail
<1>3. p \in Seq(Nat) /\ ToSet(p) = ToSet(t) \cup ToSet(r)
  <2>1. r \in Seq(Nat)
    BY <1>2
  <2> HIDE DEF r
  <2> QED BY <2>1, ConcatFacts
<1>4. IsFiniteSet(un)
  BY <1>1, FS_AddElement
<1>5. \A x : Named(kids, {b}, x) <=> x \in ToSet(t)
  <2>1. \A x : Named(kids, {b}, x) <=> \E i \in DOMAIN kids[b] : kids[b][i] = x
    BY DEF Named
  <2>2. ASSUME NEW i \in DOMAIN kids[b] PROVE kids[b][i] \in ToSet(t)
    <3>1. PICK j \in DOMAIN t : g[j] = i
      BY DEF Lists
    <3>2. t[j] = kids[b][i]
      BY <3>1 DEF Lists
    <3> QED BY <3>2 DEF ToSet
  <2>3. ASSUME NEW j \in DOMAIN t PROVE \E i \in DOMAIN kids[b] : kids[b][i] = t[j]
    BY DEF Lists
  <2> QED BY <2>1, <2>2, <2>3 DEF ToSet
<1>6. \A x : Named(kids, un, x) <=> Named(kids, sn, x) \/ x \in ToSet(t)
  <2>1. \A x : Named(kids, un, x) <=> Named(kids, sn, x) \/ Named(kids, {b}, x)
    BY DEF Named
  <2> QED BY <1>5, <2>1
<1>7. /\ a \in sn \cup ToSet(q)
      /\ \A x : Named(kids, sn, x) => x \in sn \cup ToSet(q)
      /\ \A x \in sn \cup ToSet(q) : x = a \/ Named(kids, sn, x)
  BY DEF Search
<1>8. /\ a \in un \cup ToSet(p)
      /\ \A x : Named(kids, un, x) => x \in un \cup ToSet(p)
      /\ \A x \in un \cup ToSet(p) : x = a \/ Named(kids, un, x)
  <2>1. un \cup ToSet(p) = (sn \cup ToSet(q)) \cup ToSet(t)
    BY <1>2, <1>3
  <2> HIDE DEF un, p
  <2> QED BY <1>6, <1>7, <2>1
<1>9. Again(p, un) <=> Again(t, un) \/ Again(r, un) \/ ToSet(t) \cap ToSet(r) # {}
  BY <1>2, AgainConcat
<1>10. Again(r, un) <=> Again(q, sn)
  <2>1. Again(q, sn) <=> b \in ToSet(r) \/ Again(r, sn)
    BY <1>1, AgainHead
  <2>2. Again(r, un) <=> Again(r, sn) \/ b \in ToSet(r)
    BY DEF Again, ToSet
  <2> QED BY <2>1, <2>2
<1> DEFINE Same == \E i, j \in DOMAIN kids[b] : i # j /\ kids[b][i] = kids[b][j]
<1>11. (\E i, j \in DOMAIN t : i # j /\ t[i] = t[j]) <=> Same
  <2>1. ASSUME NEW i \in DOMAIN t, NEW j \in DOMAIN t, i # j, t[i] = t[j] PROVE Same
    <3>1. g[i] \in DOMAIN kids[b] /\ g[j] \in DOMAIN kids[b] /\ g[i] # g[j]
      BY <2>1 DEF Lists
    <3>2. kids[b][g[i]] = kids[b][g[j]]
      BY <2>1 DEF Lists
    <3> QED BY <3>1, <3>2
  <2>2. ASSUME NEW i \in DOMAIN kids[b], NEW j \in DOMAIN kids[b], i # j, kids[b][i] = kids[b][j]
        PROVE  \E x, y \in DOMAIN t : x # y /\ t[x] = t[y]
    <3>1. PICK x \in DOMAIN t : g[x] = i
      BY DEF Lists
    <3>2. PICK y \in DOMAIN t : g[y] = j
      BY DEF Lists
    <3>3. t[x] = t[y] /\ x # y
      BY <2>2, <3>1, <3>2 DEF Lists
    <3> QED BY <3>3
  <2> QED BY <2>1, <2>2
<1>12. Again(p, un) <=> Again(q, sn) \/ Same \/ \E x \in ToSet(t) : x \in sn \cup ToSet(q)
  <2>1. Again(t, un) <=> Same \/ \E x \in ToSet(t) : x \in un
    BY <1>11 DEF Again, ToSet
  <2> HIDE DEF Same, p
  <2> QED BY <1>2, <1>9, <1>10, <2>1
<1>13. Twice(kids, a, un) <=>
         Twice(kids, a, sn) \/ Same \/ \E x \in ToSet(t) : x = a \/ Named(kids, sn, x)
  <2>1. Twice(kids, a, un) <=>
           \/ Twice(kids, a, sn) \/ Same
           \/ \E i \in DOMAIN kids[b] : kids[b][i] = a \/ Named(kids, sn, kids[b][i])
    BY TwiceVisits
  <2>2. (\E i \in DOMAIN kids[b] : kids[b][i] = a \/ Named(kids, sn, kids[b][i])) <=>
          \E x : Named(kids, {b}, x) /\ (x = a \/ Named(kids, sn, x))
    <3>1. \A x : Named(kids, {b}, x) <=> \E i \in DOMAIN kids[b] : kids[b][i] = x
      BY DEF Named
    <3> QED BY <3>1
  <2> HIDE DEF Same, un
  <2> QED BY <1>5, <2>1, <2>2
<1>14. \A x : x \in sn \cup ToSet(q) <=> x = a \/ Named(kids, sn, x)
  BY <1>7
<1>15. Again(q, sn) => Twice(kids, a, sn)
  BY DEF Search
<1> HIDE DEF Same, p, un
<1>16. Again(p, un) => Twice(kids, a, un)
  BY <1>12, <1>13, <1>14, <1>15
<1>17. Strict(kids, a, q, sn) => Strict(kids, a, p, un)
  BY <1>12, <1>13, <1>14 DEF Strict
<1>18. Search(kids, a, p, un)
  BY <1>3, <1>4, <1>8, <1>16 DEF Search
<1> QED BY <1>17, <1>18 DEF p, un

(* The place on top was visited and is passed over.                        *)
LEMMA SearchSkips ==
  ASSUME NEW kids, NEW a, NEW q, NEW sn, Search(kids, a, q, sn), q # <<>>, Head(q) \in sn
  PROVE  Search(kids, a, Tail(q), sn)
<1>1. q \in Seq(Nat) /\ IsFiniteSet(sn)
  BY DEF Search
<1>2. Tail(q) \in Seq(Nat) /\ ToSet(q) = {Head(q)} \cup ToSet(Tail(q))
  BY <1>1, HeadTail
<1>3. sn \cup ToSet(q) = sn \cup ToSet(Tail(q))
  BY <1>2
<1>4. Again(Tail(q), sn) => Again(q, sn)
  BY <1>1, AgainHead
<1> QED BY <1>1, <1>2, <1>3, <1>4 DEF Search

--------------------------------------------------------------------------------
(* Reading an object header.                                               *)

(* Where the continuations of a block lead, by position.                   *)
Leads(ms) == [i \in {j \in DOMAIN ms : ms[j].kind = "cont"} |-> ms[i].to]

LEMMA TargetsFacts ==
  ASSUME NEW ms \in Seq(Message)
  PROVE  Targets(ms) \in Seq(Nat) /\ \E g : Lists(g, Targets(ms), Leads(ms))
<1> DEFINE S == {m \in ToSet(ms) : m.kind = "cont"}
<1> DEFINE conts == Keep(ms, S)
<1> DEFINE to == [i \in DOMAIN conts |-> conts[i].to]
<1> DEFINE N == Len(conts)
<1>1. Targets(ms) = Reverse(to)
  BY DEF Targets, Of
<1>2. conts \in Seq(Message) /\ ToSet(conts) = ToSet(ms) \cap S
  <2> HIDE DEF S
  <2> QED BY KeepElements
<1>3. PICK h : Picks(h, conts, ms, Len(ms), S)
  <2> HIDE DEF S
  <2> QED BY KeepFacts
<1>4. \A i \in DOMAIN ms : ms[i] \in S <=> ms[i].kind = "cont"
  BY DEF ToSet
<1>5. \A m \in S : m.kind = "cont"
  OBVIOUS
<1> HIDE DEF conts, S
<1>6. N \in Nat /\ DOMAIN conts = 1 .. N /\ DOMAIN ms = 1 .. Len(ms)
  BY <1>2
<1>7. \A i \in 1 .. N : conts[i] \in Message /\ conts[i].kind = "cont"
  BY <1>2, <1>3, <1>5, <1>6 DEF Picks
<1>8. \A i \in 1 .. N : conts[i].to \in Nat
  BY <1>7, MessageFacts
<1>9. to \in Seq(Nat) /\ Len(to) = N /\ \A i \in 1 .. N : to[i] = conts[i].to
  BY <1>6, <1>8
<1> HIDE DEF to, N
<1> DEFINE t == Reverse(to)
<1>10. \A j \in 1 .. N : (N - j) + 1 \in 1 .. N
  BY <1>6
<1>11. t = [j \in 1 .. N |-> to[(N - j) + 1]]
  BY <1>9 DEF Reverse
<1>12. t \in Seq(Nat) /\ DOMAIN t = 1 .. N /\ \A j \in 1 .. N : t[j] = to[(N - j) + 1]
  <2>1. \A j \in 1 .. N : to[(N - j) + 1] \in Nat
    BY <1>8, <1>9, <1>10
  <2> QED BY <1>6, <1>11, <2>1
<1> HIDE DEF t
<1> DEFINE g == [j \in 1 .. N |-> h[(N - j) + 1]]
<1>13. /\ h \in [1 .. N -> DOMAIN ms]
       /\ \A i \in 1 .. N : ms[h[i]] \in S /\ conts[i] = ms[h[i]]
       /\ \A i, j \in 1 .. N : h[i] = h[j] => i = j
       /\ \A p \in DOMAIN ms : ms[p] \in S => \E i \in 1 .. N : h[i] = p
  BY <1>3, <1>6 DEF Picks, N
<1>14. g \in [1 .. N -> DOMAIN ms] /\ \A j \in 1 .. N : g[j] = h[(N - j) + 1]
  BY <1>10, <1>13
<1> HIDE DEF g
<1>15. \A j \in 1 .. N : ms[g[j]].kind = "cont" /\ t[j] = ms[g[j]].to
  <2> TAKE j \in 1 .. N
  <2>1. PICK i \in 1 .. N : i = (N - j) + 1
    BY <1>10
  <2>2. g[j] = h[i] /\ t[j] = to[i]
    BY <1>12, <1>14, <2>1
  <2>3. conts[i] = ms[h[i]] /\ ms[h[i]].kind = "cont"
    BY <1>5, <1>13
  <2>4. to[i] = conts[i].to
    BY <1>9
  <2> QED BY <2>2, <2>3, <2>4
<1>16. \A i, j \in 1 .. N : g[i] = g[j] => i = j
  <2> TAKE i, j \in 1 .. N
  <2>1. PICK x \in 1 .. N : x = (N - i) + 1
    BY <1>10
  <2>2. PICK y \in 1 .. N : y = (N - j) + 1
    BY <1>10
  <2>3. g[i] = h[x] /\ g[j] = h[y]
    BY <1>14, <2>1, <2>2
  <2>4. h[x] = h[y] => x = y
    BY <1>13
  <2>5. x = y => i = j
    BY <1>6, <2>1, <2>2
  <2> QED BY <2>3, <2>4, <2>5
<1>17. \A i \in DOMAIN ms : ms[i].kind = "cont" => \E j \in 1 .. N : g[j] = i
  <2> SUFFICES ASSUME NEW i \in DOMAIN ms, ms[i].kind = "cont" PROVE \E j \in 1 .. N : g[j] = i
    OBVIOUS
  <2>1. PICK x \in 1 .. N : h[x] = i
    BY <1>4, <1>13
  <2>2. PICK j \in 1 .. N : j = (N - x) + 1
    BY <1>10
  <2>3. (N - j) + 1 = x
    BY <1>6, <2>2
  <2> QED BY <1>14, <2>1, <2>3
<1>18. Targets(ms) = t
  BY <1>1 DEF t
<1>19. Lists(g, t, Leads(ms))
  <2> DEFINE k == Leads(ms)
  <2>1. DOMAIN k = {j \in DOMAIN ms : ms[j].kind = "cont"} /\ \A i \in DOMAIN k : k[i] = ms[i].to
    BY DEF Leads
  <2> HIDE DEF k
  <2>2. g \in [1 .. N -> DOMAIN k]
    BY <1>14, <1>15, <2>1
  <2>3. \A j \in 1 .. N : t[j] = k[g[j]]
    BY <1>15, <2>1, <2>2
  <2> QED BY <1>12, <1>16, <1>17, <2>1, <2>2, <2>3 DEF Lists, k
<1> QED BY <1>12, <1>18, <1>19

(* What Framed returns.                                                    *)
LEMMA FramedFacts ==
  ASSUME NEW ms \in Seq(Message)
  PROVE  /\ Framed(ms) \in Seq(Message)
         /\ \A m : m \in ToSet(Framed(ms)) <=> \E i \in DOMAIN ms : m = ms[i] /\ m.kind # "cont"
         /\ \E g : /\ g \in [DOMAIN Framed(ms) -> DOMAIN ms]
                   /\ \A j \in DOMAIN Framed(ms) : Framed(ms)[j] = ms[g[j]]
                   /\ \A i, j \in DOMAIN Framed(ms) : g[i] = g[j] => i = j
<1> DEFINE S == {m \in ToSet(ms) : m.kind # "cont"}
<1> DEFINE q == Keep(ms, S)
<1>1. Framed(ms) = q
  BY DEF Framed
<1>2. q \in Seq(Message) /\ ToSet(q) = ToSet(ms) \cap S
  <2> HIDE DEF S
  <2> QED BY KeepElements
<1>3. PICK h : Picks(h, q, ms, Len(ms), S)
  <2> HIDE DEF S
  <2> QED BY KeepFacts
<1>4. \A m : m \in ToSet(ms) \cap S <=> \E i \in DOMAIN ms : m = ms[i] /\ m.kind # "cont"
  BY DEF ToSet
<1> HIDE DEF q, S
<1>5. DOMAIN q = 1 .. Len(q) /\ DOMAIN ms = 1 .. Len(ms)
  BY <1>2
<1>6. /\ h \in [DOMAIN q -> DOMAIN ms]
      /\ \A j \in DOMAIN q : q[j] = ms[h[j]]
      /\ \A i, j \in DOMAIN q : h[i] = h[j] => i = j
  BY <1>3, <1>5 DEF Picks
<1> QED BY <1>1, <1>2, <1>4, <1>6

(* What each block names.                                                  *)
BlockKids(f) == [b \in DOMAIN f.blocks |-> Leads(f.blocks[b].messages)]

LEMMA BlockKidsFacts ==
  ASSUME NEW f \in Files, NEW b \in DOMAIN f.blocks, NEW i
  PROVE  /\ BlockKids(f)[b] = Leads(f.blocks[b].messages)
         /\ i \in DOMAIN BlockKids(f)[b] <=> i \in DOMAIN f.blocks[b].messages /\ f.blocks[b].messages[i].kind = "cont"
         /\ i \in DOMAIN BlockKids(f)[b] => BlockKids(f)[b][i] = f.blocks[b].messages[i].to
BY DEF BlockKids, Leads

(* A block is named twice exactly if the search meets one again.           *)
LEMMA PlacesAre ==
  ASSUME NEW f \in Files, NEW a, NEW kind, NEW k \in PlacesOf(f, a, kind)
  PROVE  /\ k = <<k[1], k[2]>>
         /\ k[1] \in BlocksOf(f, a) \cap DOMAIN f.blocks
         /\ k[2] \in DOMAIN f.blocks[k[1]].messages
         /\ f.blocks[k[1]].messages[k[2]].kind = kind
<1>1. PICK b \in BlocksOf(f, a) \cap DOMAIN f.blocks : k \in PlacesIn(f, b)
  BY DEF PlacesOf
<1>2. PICK i \in DOMAIN f.blocks[b].messages : k = <<b, i>>
  BY <1>1 DEF PlacesIn
<1>3. k[1] = b /\ k[2] = i
  BY <1>2
<1>4. f.blocks[k[1]].messages[k[2]].kind = kind
  BY DEF PlacesOf, At
<1> QED BY <1>1, <1>2, <1>3, <1>4

LEMMA TwiceIsNamed ==
  ASSUME NEW f \in Files, NEW a, NEW sn, sn \subseteq BlocksOf(f, a) \cap DOMAIN f.blocks,
         Twice(BlockKids(f), a, sn)
  PROVE  NamedTwice(f, a)
<1> DEFINE kids == BlockKids(f)
<1>1. ASSUME NEW b \in sn, NEW i \in DOMAIN kids[b]
      PROVE  <<b, i>> \in PlacesOf(f, a, "cont") /\ Target(f, <<b, i>>) = kids[b][i]
  <2>1. /\ b \in BlocksOf(f, a) \cap DOMAIN f.blocks /\ i \in DOMAIN f.blocks[b].messages
        /\ f.blocks[b].messages[i].kind = "cont" /\ kids[b][i] = f.blocks[b].messages[i].to
    BY BlockKidsFacts
  <2>2. <<b, i>> \in PlacesOf(f, a, "cont")
    BY <2>1, PlacesFacts
  <2>3. Target(f, <<b, i>>) = f.blocks[b].messages[i].to
    BY DEF Target, At
  <2> QED BY <2>1, <2>2, <2>3
<1> HIDE DEF kids
<1>2. CASE \E b \in sn : \E i \in DOMAIN kids[b] : kids[b][i] = a
  BY <1>1, <1>2 DEF NamedTwice
<1>3. CASE \E b, c \in sn : \E i \in DOMAIN kids[b], j \in DOMAIN kids[c] :
             (b # c \/ i # j) /\ kids[b][i] = kids[c][j]
  <2>1. PICK b \in sn, c \in sn : \E i \in DOMAIN kids[b], j \in DOMAIN kids[c] :
             (b # c \/ i # j) /\ kids[b][i] = kids[c][j]
    BY <1>3
  <2>2. PICK i \in DOMAIN kids[b], j \in DOMAIN kids[c] : (b # c \/ i # j) /\ kids[b][i] = kids[c][j]
    BY <2>1
  <2>3. <<b, i>> # <<c, j>>
    BY <2>2
  <2>4. /\ <<b, i>> \in PlacesOf(f, a, "cont") /\ <<c, j>> \in PlacesOf(f, a, "cont")
        /\ Target(f, <<b, i>>) = Target(f, <<c, j>>)
    BY <1>1, <2>2
  <2> QED BY <2>3, <2>4, Zenon DEF NamedTwice
<1> QED BY <1>2, <1>3 DEF Twice, kids

LEMMA NamedIsTwice ==
  ASSUME NEW f \in Files, NEW a, NamedTwice(f, a)
  PROVE  Twice(BlockKids(f), a, BlocksOf(f, a) \cap DOMAIN f.blocks)
<1> DEFINE kids == BlockKids(f)
<1> DEFINE sn == BlocksOf(f, a) \cap DOMAIN f.blocks
<1>1. ASSUME NEW k \in PlacesOf(f, a, "cont")
      PROVE  k[1] \in sn /\ k[2] \in DOMAIN kids[k[1]] /\ Target(f, k) = kids[k[1]][k[2]] /\ k = <<k[1], k[2]>>
  <2>1. /\ k = <<k[1], k[2]>> /\ k[1] \in sn /\ k[2] \in DOMAIN f.blocks[k[1]].messages
        /\ f.blocks[k[1]].messages[k[2]].kind = "cont"
    BY PlacesAre
  <2>2. k[2] \in DOMAIN kids[k[1]] /\ kids[k[1]][k[2]] = f.blocks[k[1]].messages[k[2]].to
    BY <2>1, BlockKidsFacts
  <2> QED BY <2>1, <2>2 DEF Target, At
<1> HIDE DEF kids, sn
<1>2. ASSUME \E k \in PlacesOf(f, a, "cont") : Target(f, k) = a PROVE Twice(kids, a, sn)
  BY <1>1, <1>2 DEF Twice
<1>3. ASSUME \E k, l \in PlacesOf(f, a, "cont") : k # l /\ Target(f, k) = Target(f, l)
      PROVE  Twice(kids, a, sn)
  <2>1. PICK k \in PlacesOf(f, a, "cont"), l \in PlacesOf(f, a, "cont") : k # l /\ Target(f, k) = Target(f, l)
    BY <1>3
  <2>2. k[1] # l[1] \/ k[2] # l[2]
    BY <1>1, <2>1
  <2>3. /\ k[1] \in sn /\ l[1] \in sn /\ k[2] \in DOMAIN kids[k[1]] /\ l[2] \in DOMAIN kids[l[1]]
        /\ kids[k[1]][k[2]] = kids[l[1]][l[2]]
    BY <1>1, <2>1
  <2> QED BY <2>2, <2>3 DEF Twice
<1> QED BY <1>2, <1>3 DEF NamedTwice, kids, sn

(* The messages of some blocks, continuations apart.                       *)
Holds(f, sn, ms) ==
  /\ ms \in Seq(Message)
  /\ \A m : m \in ToSet(ms) <=>
       \E b \in sn : \E i \in DOMAIN f.blocks[b].messages :
         m = f.blocks[b].messages[i] /\ m.kind # "cont"

GoesOn(f, b) ==
  \A i \in DOMAIN f.blocks[b].messages :
    f.blocks[b].messages[i].kind = "cont" => f.blocks[b].messages[i].to # Undefined

Spared(f, a) == IF a \in DOMAIN f.blocks /\ f.blocks[a].version = 2 THEN 1 ELSE 0

(* The header of the object at a is being read: the state of the loop.     *)
Reading(f, a, q, sn, bl, ms) ==
  /\ a \in Nat \ {Undefined}
  /\ Search(BlockKids(f), a, q, sn) /\ Strict(BlockKids(f), a, q, sn)
  /\ sn \cup ToSet(q) \subseteq BlocksOf(f, a)
  /\ \A b \in sn : Readable(f, b) /\ GoesOn(f, b)
  /\ Holds(f, sn, ms)
  /\ bl = Cardinality(sn) - Spared(f, a) /\ bl <= MaxBlocks
  /\ NamesDiffer(f) /\ a \in DOMAIN f.blocks => LinksDiffer(ms)

LEMMA ReadingStarts ==
  ASSUME NEW f \in Files, NEW a \in Nat \ {Undefined}
  PROVE  Reading(f, a, <<a>>, {}, 0 - Spared(f, a), <<>>)
<1>1. Search(BlockKids(f), a, <<a>>, {}) /\ Strict(BlockKids(f), a, <<a>>, {})
  BY SearchStarts
<1>2. ToSet(<<a>>) = {a}
  BY DEF ToSet
<1>3. a \in BlocksOf(f, a)
  BY BlocksFacts
<1>4. Holds(f, {}, <<>>)
  BY DEF Holds, ToSet
<1>5. Cardinality({}) = 0 /\ Spared(f, a) \in {0, 1} /\ MaxBlocks \in Nat
  BY FS_EmptySet, BoundsAssumption DEF Spared
<1>6. LinksDiffer(<<>>)
  BY DEF LinksDiffer
<1> QED BY <1>1, <1>2, <1>3, <1>4, <1>5, <1>6 DEF Reading

LEMMA ReadingFacts ==
  ASSUME NEW f \in Files, NEW a, NEW q, NEW sn, NEW bl, NEW ms, Reading(f, a, q, sn, bl, ms)
  PROVE  /\ q \in Seq(Nat) /\ IsFiniteSet(sn) /\ sn \subseteq DOMAIN f.blocks
         /\ sn \subseteq BlocksOf(f, a) \cap DOMAIN f.blocks
         /\ Cardinality(sn) \in Nat /\ Spared(f, a) \in {0, 1} /\ bl \in Int
<1>1. q \in Seq(Nat) /\ IsFiniteSet(sn)
  BY DEF Reading, Search
<1>2. Cardinality(sn) \in Nat
  BY <1>1, FS_CardinalityType
<1>3. sn \subseteq DOMAIN f.blocks /\ sn \subseteq BlocksOf(f, a)
  BY DEF Reading, Readable
<1>4. Spared(f, a) \in {0, 1}
  BY DEF Spared
<1>5. bl \in Int
  BY <1>2, <1>4 DEF Reading
<1> QED BY <1>1, <1>2, <1>3, <1>4, <1>5

(* The messages of one more block.                                         *)
LEMMA HoldsMore ==
  ASSUME NEW f \in Files, NEW sn, NEW ms, Holds(f, sn, ms), NEW b \in DOMAIN f.blocks
  PROVE  Holds(f, sn \cup {b}, ms \o Framed(f.blocks[b].messages))
<1> DEFINE M == f.blocks[b].messages
<1> DEFINE F == Framed(M)
<1>1. ms \in Seq(Message)
  BY DEF Holds
<1>2. M \in Seq(Message)
  BY BlockFacts
<1>3. F \in Seq(Message) /\ \A m : m \in ToSet(F) <=> \E i \in DOMAIN M : m = M[i] /\ m.kind # "cont"
  <2> HIDE DEF M
  <2> QED BY <1>2, FramedFacts
<1> HIDE DEF F
<1>4. ms \o F \in Seq(Message) /\ ToSet(ms \o F) = ToSet(ms) \cup ToSet(F)
  BY <1>1, <1>3, ConcatFacts
<1>5. \A m : m \in ToSet(ms \o F) <=>
       \E c \in sn \cup {b} : \E i \in DOMAIN f.blocks[c].messages :
         m = f.blocks[c].messages[i] /\ m.kind # "cont"
  <2>1. \A m : m \in ToSet(ms) <=>
       \E c \in sn : \E i \in DOMAIN f.blocks[c].messages :
         m = f.blocks[c].messages[i] /\ m.kind # "cont"
    BY DEF Holds
  <2> QED BY <1>3, <1>4, <2>1
<1> QED BY <1>4, <1>5 DEF Holds, F

(* Its links have names of their own.                                      *)
LEMMA LinksDifferMore ==
  ASSUME NEW f \in Files, NEW a \in DOMAIN f.blocks, NamesDiffer(f), NEW sn, NEW ms,
         sn \subseteq BlocksOf(f, a) \cap DOMAIN f.blocks, Holds(f, sn, ms), LinksDiffer(ms),
         NEW b \in BlocksOf(f, a) \cap DOMAIN f.blocks, b \notin sn
  PROVE  LinksDiffer(ms \o Framed(f.blocks[b].messages))
<1> DEFINE M == f.blocks[b].messages
<1> DEFINE F == Framed(M)
<1>1. ms \in Seq(Message)
  BY DEF Holds
<1>2. M \in Seq(Message)
  BY BlockFacts
<1>3. F \in Seq(Message)
  <2> HIDE DEF M
  <2> QED BY <1>2, FramedFacts
<1>4. PICK g : /\ g \in [DOMAIN F -> DOMAIN M]
               /\ \A j \in DOMAIN F : F[j] = M[g[j]]
               /\ \A i, j \in DOMAIN F : g[i] = g[j] => i = j
  <2> HIDE DEF M
  <2> QED BY <1>2, FramedFacts
<1>5. \A k, l \in PlacesOf(f, a, "link") : At(f, k).name = At(f, l).name => k = l
  BY DEF NamesDiffer
<1>6. ASSUME NEW c \in BlocksOf(f, a) \cap DOMAIN f.blocks, NEW d \in BlocksOf(f, a) \cap DOMAIN f.blocks,
             NEW i \in DOMAIN f.blocks[c].messages, NEW j \in DOMAIN f.blocks[d].messages,
             f.blocks[c].messages[i].kind = "link", f.blocks[d].messages[j].kind = "link",
             f.blocks[c].messages[i].name = f.blocks[d].messages[j].name
      PROVE  c = d /\ i = j
  <2>1. <<c, i>> \in PlacesOf(f, a, "link") /\ <<d, j>> \in PlacesOf(f, a, "link")
    BY <1>6, PlacesFacts
  <2>2. At(f, <<c, i>>) = f.blocks[c].messages[i] /\ At(f, <<d, j>>) = f.blocks[d].messages[j]
    BY DEF At
  <2>3. <<c, i>> = <<d, j>>
    BY <1>5, <1>6, <2>1, <2>2
  <2> QED BY <2>3
<1>7. ASSUME NEW i \in DOMAIN F, NEW j \in DOMAIN F, F[i].kind = "link", F[j].kind = "link", F[i].name = F[j].name
      PROVE  i = j
  <2>1. g[i] \in DOMAIN M /\ g[j] \in DOMAIN M /\ F[i] = M[g[i]] /\ F[j] = M[g[j]]
    BY <1>4
  <2>2. g[i] = g[j]
    BY <1>6, <1>7, <2>1
  <2> QED BY <1>4, <2>2
<1>8. ASSUME NEW i \in DOMAIN ms, NEW j \in DOMAIN F, ms[i].kind = "link", F[j].kind = "link", ms[i].name = F[j].name
      PROVE  FALSE
  <2>1. ms[i] \in ToSet(ms)
    BY DEF ToSet
  <2>2. PICK c \in sn : \E k \in DOMAIN f.blocks[c].messages : ms[i] = f.blocks[c].messages[k]
    BY <2>1 DEF Holds
  <2>3. PICK k \in DOMAIN f.blocks[c].messages : ms[i] = f.blocks[c].messages[k]
    BY <2>2
  <2>4. g[j] \in DOMAIN M /\ F[j] = M[g[j]]
    BY <1>4
  <2>5. c = b
    BY <1>6, <1>8, <2>3, <2>4
  <2> QED BY <2>5
<1> HIDE DEF F
<1> DEFINE s == ms \o F
<1>9. /\ Len(ms) \in Nat
      /\ \A i \in DOMAIN ms : s[i] = ms[i]
      /\ \A i \in DOMAIN F : s[Len(ms) + i] = F[i]
      /\ \A i \in DOMAIN s : i \in DOMAIN ms \/ \E j \in DOMAIN F : i = Len(ms) + j
  BY <1>1, <1>3, ConcatFacts
<1> HIDE DEF s
<1>10. ASSUME NEW i \in DOMAIN s, NEW j \in DOMAIN s, s[i].kind = "link", s[j].kind = "link", s[i].name = s[j].name
       PROVE  i = j
  <2>1. CASE i \in DOMAIN ms /\ j \in DOMAIN ms
    BY <1>9, <1>10, <2>1 DEF LinksDiffer
  <2>2. CASE i \in DOMAIN ms /\ j \notin DOMAIN ms
    <3>1. PICK y \in DOMAIN F : j = Len(ms) + y
      BY <1>9, <2>2
    <3> QED BY <1>8, <1>9, <1>10, <2>2, <3>1
  <2>3. CASE i \notin DOMAIN ms /\ j \in DOMAIN ms
    <3>1. PICK x \in DOMAIN F : i = Len(ms) + x
      BY <1>9, <2>3
    <3> QED BY <1>8, <1>9, <1>10, <2>3, <3>1
  <2>4. CASE i \notin DOMAIN ms /\ j \notin DOMAIN ms
    <3>1. PICK x \in DOMAIN F : i = Len(ms) + x
      BY <1>9, <2>4
    <3>2. PICK y \in DOMAIN F : j = Len(ms) + y
      BY <1>9, <2>4
    <3> QED BY <1>7, <1>9, <1>10, <3>1, <3>2
  <2> QED BY <2>1, <2>2, <2>3, <2>4
<1> QED BY <1>10 DEF LinksDiffer, s, F

(* A block is read.                                                        *)
LEMMA ReadingSteps ==
  ASSUME NEW f \in Files, NEW a, NEW q, NEW sn, NEW bl, NEW ms, Reading(f, a, q, sn, bl, ms), q # <<>>,
         bl < MaxBlocks, Head(q) \notin sn, Readable(f, Head(q)), GoesOn(f, Head(q))
  PROVE  Reading(f, a, Targets(f.blocks[Head(q)].messages) \o Tail(q), sn \cup {Head(q)}, bl + 1,
                 ms \o Framed(f.blocks[Head(q)].messages))
<1> DEFINE b == Head(q)
<1> DEFINE M == f.blocks[b].messages
<1> DEFINE t == Targets(M)
<1> DEFINE kids == BlockKids(f)
<1> DEFINE un == sn \cup {b}
<1>1. /\ a \in Nat \ {Undefined}
      /\ Search(kids, a, q, sn) /\ Strict(kids, a, q, sn)
      /\ sn \cup ToSet(q) \subseteq BlocksOf(f, a)
      /\ \A c \in sn : Readable(f, c) /\ GoesOn(f, c)
      /\ Holds(f, sn, ms)
      /\ bl = Cardinality(sn) - Spared(f, a) /\ bl <= MaxBlocks
      /\ NamesDiffer(f) /\ a \in DOMAIN f.blocks => LinksDiffer(ms)
  BY DEF Reading
<1>2. /\ q \in Seq(Nat) /\ IsFiniteSet(sn) /\ sn \subseteq BlocksOf(f, a) \cap DOMAIN f.blocks
      /\ Cardinality(sn) \in Nat /\ Spared(f, a) \in {0, 1} /\ bl \in Int
  BY ReadingFacts
<1>3. b \in DOMAIN f.blocks /\ b \in ToSet(q)
  BY <1>2, HeadTail DEF Readable
<1>4. M \in Seq(Message)
  BY <1>3, BlockFacts
<1>5. t \in Seq(Nat) /\ \E g : Lists(g, t, Leads(M))
  <2> HIDE DEF M
  <2> QED BY <1>4, TargetsFacts
<1>6. PICK g : Lists(g, t, Leads(M))
  BY <1>5
<1>7. kids[b] = Leads(M)
  BY <1>3 DEF BlockKids
<1>8. Search(kids, a, t \o Tail(q), un) /\ Strict(kids, a, t \o Tail(q), un)
  <2> HIDE DEF kids, t
  <2>1. Lists(g, t, kids[Head(q)])
    BY <1>6, <1>7
  <2>2. t \in Seq(Nat)
    BY <1>5
  <2> QED BY <1>1, <2>1, <2>2, SearchVisits
<1>9. un \cup ToSet(t \o Tail(q)) \subseteq BlocksOf(f, a)
  <2>1. Tail(q) \in Seq(Nat) /\ ToSet(Tail(q)) \subseteq ToSet(q)
    BY <1>2, HeadTail
  <2>2. ToSet(t \o Tail(q)) = ToSet(t) \cup ToSet(Tail(q))
    <3> DEFINE r == Tail(q)
    <3>1. t \in Seq(Nat) /\ r \in Seq(Nat)
      BY <1>5, <2>1
    <3> HIDE DEF t, r
    <3>2. ToSet(t \o r) = ToSet(t) \cup ToSet(r)
      BY <3>1, ConcatFacts
    <3> QED BY <3>2 DEF t, r
  <2>3. ASSUME NEW x \in ToSet(t) PROVE x \in BlocksOf(f, a)
    <3>1. PICK j \in DOMAIN t : x = t[j]
      BY DEF ToSet
    <3>2. g[j] \in DOMAIN Leads(M) /\ x = Leads(M)[g[j]]
      BY <1>6, <3>1 DEF Lists
    <3>3. g[j] \in DOMAIN M /\ M[g[j]].kind = "cont" /\ x = M[g[j]].to
      BY <3>2 DEF Leads
    <3>4. Continues(f, BlocksOf(f, a)) /\ b \in BlocksOf(f, a)
      BY <1>1, <1>3, BlocksFacts
    <3> QED BY <1>3, <3>3, <3>4 DEF Continues
  <2> HIDE DEF t
  <2> QED BY <1>1, <1>3, <2>1, <2>2, <2>3
<1>10. \A c \in un : Readable(f, c) /\ GoesOn(f, c)
  BY <1>1
<1>11. Holds(f, un, ms \o Framed(M))
  BY <1>1, <1>3, HoldsMore
<1>12. bl + 1 = Cardinality(un) - Spared(f, a) /\ bl + 1 <= MaxBlocks
  <2>1. Cardinality(un) = Cardinality(sn) + 1
    BY <1>2, FS_AddElement
  <2> QED BY <1>1, <1>2, <2>1, BoundsAssumption
<1>13. NamesDiffer(f) /\ a \in DOMAIN f.blocks => LinksDiffer(ms \o Framed(M))
  BY <1>1, <1>2, <1>3, LinksDifferMore
<1> QED BY <1>1, <1>8, <1>9, <1>10, <1>11, <1>12, <1>13 DEF Reading

(* All blocks are read.                                                    *)
LEMMA ReadingEnds ==
  ASSUME NEW f \in Files, NEW a, NEW sn, NEW bl, NEW ms, Reading(f, a, <<>>, sn, bl, ms)
  PROVE  /\ IsHeader(f, a, ms) /\ ~BadHeader(f, a) /\ a \in DOMAIN f.blocks
         /\ NamesDiffer(f) => LinksDiffer(ms)
<1> DEFINE kids == BlockKids(f)
<1>1. /\ a \in Nat \ {Undefined}
      /\ Search(kids, a, <<>>, sn) /\ Strict(kids, a, <<>>, sn)
      /\ \A c \in sn : Readable(f, c) /\ GoesOn(f, c)
      /\ Holds(f, sn, ms)
      /\ bl = Cardinality(sn) - Spared(f, a) /\ bl <= MaxBlocks
      /\ NamesDiffer(f) /\ a \in DOMAIN f.blocks => LinksDiffer(ms)
  BY DEF Reading
<1>2. /\ IsFiniteSet(sn) /\ sn \subseteq BlocksOf(f, a) \cap DOMAIN f.blocks
      /\ Cardinality(sn) \in Nat /\ bl \in Int
  BY ReadingFacts
<1>3. ToSet(<<>>) = {} /\ ~Again(<<>>, sn)
  BY DEF ToSet, Again
<1>4. a \in sn /\ \A x : Named(kids, sn, x) => x \in sn
  <2> HIDE DEF kids
  <2> QED BY <1>1, <1>3 DEF Search
<1>5. Continues(f, sn)
  <2> SUFFICES ASSUME NEW b \in sn, NEW i \in DOMAIN f.blocks[b].messages, f.blocks[b].messages[i].kind = "cont"
               PROVE  f.blocks[b].messages[i].to \in sn
    BY DEF Continues
  <2>1. i \in DOMAIN kids[b] /\ kids[b][i] = f.blocks[b].messages[i].to
    BY <1>2, BlockKidsFacts
  <2> QED BY <1>4, <2>1 DEF Named
<1>6. sn = BlocksOf(f, a) /\ a \in DOMAIN f.blocks
  BY <1>2, <1>4, <1>5, BlocksFacts
<1>7. sn = BlocksOf(f, a) \cap DOMAIN f.blocks
  BY <1>2, <1>6
<1>8. IsHeader(f, a, ms)
  BY <1>1, <1>7 DEF Holds, IsHeader
<1>9. ~NamedTwice(f, a)
  <2>1. ~Twice(kids, a, sn)
    <3> HIDE DEF kids
    <3> QED BY <1>1, <1>3 DEF Strict
  <2> QED BY <1>7, <2>1, NamedIsTwice
<1>10. Undefined \notin BlocksOf(f, a)
  <2> SUFFICES ASSUME Undefined \in sn PROVE FALSE
    BY <1>6
  <2>1. Named(kids, sn, Undefined)
    <3> HIDE DEF kids
    <3> QED BY <1>1 DEF Search
  <2>2. PICK b \in sn : \E i \in DOMAIN kids[b] : kids[b][i] = Undefined
    BY <2>1 DEF Named
  <2>3. PICK i \in DOMAIN kids[b] : kids[b][i] = Undefined
    BY <2>2
  <2>4. /\ i \in DOMAIN f.blocks[b].messages /\ f.blocks[b].messages[i].kind = "cont"
        /\ f.blocks[b].messages[i].to = Undefined
    BY <1>2, <2>3, BlockKidsFacts
  <2> QED BY <1>1, <2>4 DEF GoesOn
<1>11. ~(Cardinality(BlocksOf(f, a)) > MaxBlocks + f.blocks[a].version - 1)
  <2> DEFINE v == f.blocks[a].version
  <2> DEFINE n == Cardinality(sn)
  <2>1. v \in {1, 2} /\ Spared(f, a) = v - 1
    BY <1>6, BlockFacts DEF Spared
  <2>2. n \in Nat /\ bl = n - Spared(f, a) /\ bl <= MaxBlocks /\ MaxBlocks \in Nat
    BY <1>1, <1>2, BoundsAssumption
  <2> HIDE DEF v, n
  <2>3. ~(n > MaxBlocks + v - 1)
    BY <2>1, <2>2
  <2> QED BY <1>6, <2>3 DEF v, n
<1>12. ~BadHeader(f, a)
  BY <1>1, <1>6, <1>9, <1>10, <1>11 DEF BadHeader
<1> QED BY <1>1, <1>6, <1>8, <1>12

(* A block cannot be read.                                                 *)
LEMMA ReadingFails ==
  ASSUME NEW f \in Files, NEW a, NEW q, NEW sn, NEW bl, NEW ms, Reading(f, a, q, sn, bl, ms), q # <<>>,
         ~(bl < MaxBlocks /\ Head(q) \notin sn /\ Readable(f, Head(q)) /\ GoesOn(f, Head(q)))
  PROVE  BadHeader(f, a)
<1> DEFINE b == Head(q)
<1> DEFINE kids == BlockKids(f)
<1>1. /\ Search(kids, a, q, sn)
      /\ sn \cup ToSet(q) \subseteq BlocksOf(f, a)
      /\ bl = Cardinality(sn) - Spared(f, a)
  BY DEF Reading
<1>2. /\ q \in Seq(Nat) /\ IsFiniteSet(sn) /\ sn \subseteq BlocksOf(f, a) \cap DOMAIN f.blocks
      /\ Cardinality(sn) \in Nat /\ Spared(f, a) \in {0, 1} /\ bl \in Int
  BY ReadingFacts
<1>3. b \in ToSet(q) /\ b \in BlocksOf(f, a) /\ 1 \in DOMAIN q /\ q[1] = b
  BY <1>1, <1>2, HeadTail
<1>4. CASE b \in sn
  <2>1. Again(q, sn)
    BY <1>3, <1>4 DEF Again
  <2>2. Twice(kids, a, sn)
    <3> HIDE DEF kids
    <3> QED BY <1>1, <2>1 DEF Search
  <2> QED BY <1>2, <2>2, TwiceIsNamed DEF BadHeader
<1>5. CASE ~Readable(f, b)
  BY <1>3, <1>5 DEF BadHeader
<1>6. CASE Readable(f, b) /\ ~GoesOn(f, b)
  <2>1. PICK i \in DOMAIN f.blocks[b].messages :
          f.blocks[b].messages[i].kind = "cont" /\ f.blocks[b].messages[i].to = Undefined
    BY <1>6 DEF GoesOn
  <2>2. Continues(f, BlocksOf(f, a))
    BY BlocksFacts
  <2>3. Undefined \in BlocksOf(f, a)
    BY <1>3, <1>6, <2>1, <2>2 DEF Continues, Readable
  <2> QED BY <2>3 DEF BadHeader
<1>7. CASE b \notin sn /\ ~(bl < MaxBlocks) /\ Readable(f, a)
  <2> DEFINE B == BlocksOf(f, a)
  <2> DEFINE v == f.blocks[a].version
  <2> DEFINE n == Cardinality(sn)
  <2> DEFINE k == Cardinality(B)
  <2>1. v \in {1, 2} /\ Spared(f, a) = v - 1
    BY <1>7, BlockFacts DEF Spared, Readable
  <2>2. IsFiniteSet(B) /\ k \in Nat
    BY BlocksFinite, FS_CardinalityType
  <2>3. Cardinality(sn \cup {b}) = n + 1
    BY <1>2, <1>7, FS_AddElement
  <2>4. sn \cup {b} \subseteq B
    BY <1>2, <1>3
  <2>5. Cardinality(sn \cup {b}) <= k
    <3> HIDE DEF B
    <3> QED BY <2>2, <2>4, FS_Subset DEF k
  <2>6. n \in Nat /\ bl = n - Spared(f, a) /\ ~(bl < MaxBlocks) /\ MaxBlocks \in Nat
    BY <1>1, <1>2, <1>7, BoundsAssumption
  <2> HIDE DEF v, n, k
  <2>7. k > MaxBlocks + v - 1
    BY <2>1, <2>2, <2>3, <2>5, <2>6
  <2> QED BY <2>7 DEF k, v, BadHeader
<1>8. CASE ~Readable(f, a)
  BY <1>8, BlocksFacts DEF BadHeader
<1> QED BY <1>4, <1>5, <1>6, <1>7, <1>8

--------------------------------------------------------------------------------
(* Walking the B-tree of an old-style group.                               *)

(* What each node names.                                                   *)
NodeKids(f) == [n \in DOMAIN f.nodes |-> IF f.nodes[n].level > 0 THEN f.nodes[n].children ELSE <<>>]

LEMMA NodeKidsFacts ==
  ASSUME NEW f \in Files, NEW n \in DOMAIN f.nodes, NEW i
  PROVE  /\ i \in DOMAIN NodeKids(f)[n] <=> f.nodes[n].level > 0 /\ i \in DOMAIN f.nodes[n].children
         /\ i \in DOMAIN NodeKids(f)[n] => NodeKids(f)[n][i] = f.nodes[n].children[i]
<1>1. NodeKids(f)[n] = IF f.nodes[n].level > 0 THEN f.nodes[n].children ELSE <<>>
  BY DEF NodeKids
<1>2. DOMAIN <<>> = {}
  OBVIOUS
<1>3. CASE f.nodes[n].level > 0
  BY <1>1, <1>3
<1>4. CASE ~(f.nodes[n].level > 0)
  <2>1. NodeKids(f)[n] = <<>>
    BY <1>1, <1>4
  <2> QED BY <1>2, <1>4, <2>1
<1> QED BY <1>3, <1>4

(* The symbol table nodes that some of its nodes list.                     *)
Found(f, sn, lv) ==
  /\ lv \in Seq(Nat)
  /\ \A t : t \in ToSet(lv) <=>
       \E n \in sn : f.nodes[n].level = 0 /\ \E i \in DOMAIN f.nodes[n].children : t = f.nodes[n].children[i]

Sound(f, n) == n \in DOMAIN f.nodes /\ f.nodes[n].ok

(* The B-tree of the group at a, with root r, is walked: the state of the  *)
(* loop.                                                                   *)
Walking(f, a, r, q, sn, lv) ==
  /\ r \in Nat /\ Roots(f, a) = {r}
  /\ Search(NodeKids(f), r, q, sn)
  /\ sn \cup ToSet(q) \subseteq NodesOf(f, a)
  /\ \A n \in sn : Sound(f, n)
  /\ Found(f, sn, lv)
  /\ Cardinality(sn) <= MaxNodes + 1
  /\ NamesDiffer(f) /\ a \in DOMAIN f.blocks => TablesDiffer(f, lv)

LEMMA WalkingStarts ==
  ASSUME NEW f \in Files, NEW a, NEW r \in Nat, Roots(f, a) = {r}
  PROVE  Walking(f, a, r, <<r>>, {}, <<>>)
<1>1. Search(NodeKids(f), r, <<r>>, {})
  BY SearchStarts
<1>2. ToSet(<<r>>) = {r}
  BY DEF ToSet
<1>3. r \in NodesOf(f, a)
  BY NodesFacts
<1>4. Found(f, {}, <<>>)
  BY DEF Found, ToSet
<1>5. Cardinality({}) = 0 /\ MaxNodes \in Nat
  BY FS_EmptySet, BoundsAssumption
<1>6. TablesDiffer(f, <<>>)
  BY DEF TablesDiffer
<1> QED BY <1>1, <1>2, <1>3, <1>4, <1>5, <1>6 DEF Walking

LEMMA WalkingFacts ==
  ASSUME NEW f \in Files, NEW a, NEW r, NEW q, NEW sn, NEW lv, Walking(f, a, r, q, sn, lv)
  PROVE  /\ q \in Seq(Nat) /\ IsFiniteSet(sn) /\ sn \subseteq NodesOf(f, a) \cap DOMAIN f.nodes
         /\ Cardinality(sn) \in Nat /\ lv \in Seq(Nat)
         /\ IsFiniteSet(NodesOf(f, a)) /\ Cardinality(NodesOf(f, a)) \in Nat
<1>1. q \in Seq(Nat) /\ IsFiniteSet(sn)
  BY DEF Walking, Search
<1>2. Cardinality(sn) \in Nat
  BY <1>1, FS_CardinalityType
<1>3. sn \subseteq DOMAIN f.nodes /\ sn \subseteq NodesOf(f, a)
  BY DEF Walking, Sound
<1>4. lv \in Seq(Nat)
  BY DEF Walking, Found
<1>5. Roots(f, a) = {r}
  BY DEF Walking
<1>6. IsFiniteSet(Roots(f, a))
  BY <1>5, FS_Singleton
<1>7. IsFiniteSet(NodesOf(f, a))
  BY <1>6, NodesFinite
<1> QED BY <1>1, <1>2, <1>3, <1>4, <1>7, FS_CardinalityType

(* The children of one more leaf.                                          *)
LEMMA FoundMore ==
  ASSUME NEW f \in Files, NEW sn, NEW lv, Found(f, sn, lv), NEW b \in DOMAIN f.nodes, f.nodes[b].level = 0
  PROVE  Found(f, sn \cup {b}, lv \o f.nodes[b].children)
<1> DEFINE C == f.nodes[b].children
<1>1. lv \in Seq(Nat) /\ C \in Seq(Nat)
  BY NodeFacts DEF Found
<1>2. lv \o C \in Seq(Nat) /\ ToSet(lv \o C) = ToSet(lv) \cup ToSet(C)
  <2> HIDE DEF C
  <2> QED BY <1>1, ConcatFacts
<1>3. \A t : t \in ToSet(C) <=> \E i \in DOMAIN f.nodes[b].children : t = f.nodes[b].children[i]
  BY DEF ToSet
<1>4. \A t : t \in ToSet(lv) <=>
       \E n \in sn : f.nodes[n].level = 0 /\ \E i \in DOMAIN f.nodes[n].children : t = f.nodes[n].children[i]
  BY DEF Found
<1>5. \A t : t \in ToSet(lv \o C) <=>
       \E n \in sn \cup {b} : f.nodes[n].level = 0 /\ \E i \in DOMAIN f.nodes[n].children : t = f.nodes[n].children[i]
  BY <1>2, <1>3, <1>4
<1> QED BY <1>2, <1>5 DEF Found

LEMMA FoundSame ==
  ASSUME NEW f \in Files, NEW sn, NEW lv, Found(f, sn, lv), NEW b \in DOMAIN f.nodes, f.nodes[b].level # 0
  PROVE  Found(f, sn \cup {b}, lv)
BY DEF Found

(* A place of an entry: leaf, position of its table, position there.       *)
IsPlace(f, a, n, i, j) ==
  /\ n \in LeavesOf(f, a) /\ i \in DOMAIN f.nodes[n].children
  /\ f.nodes[n].children[i] \in DOMAIN f.tables
  /\ j \in DOMAIN f.tables[f.nodes[n].children[i]].entries

LEMMA EntryPlaced ==
  ASSUME NEW f \in Files, NEW a, NEW n, NEW i, NEW j, IsPlace(f, a, n, i, j)
  PROVE  <<n, i, j>> \in EntryPlaces(f, a)
<1> DEFINE I(m) == {p \in DOMAIN f.nodes[m].children : f.nodes[m].children[p] \in DOMAIN f.tables}
<1> DEFINE J(m, p) == {<<m, p, k>> : k \in DOMAIN f.tables[f.nodes[m].children[p]].entries}
<1> DEFINE K(m) == UNION {J(m, p) : p \in I(m)}
<1>1. <<n, i, j>> \in J(n, i) /\ i \in I(n) /\ n \in LeavesOf(f, a)
  BY DEF IsPlace
<1>2. EntryPlaces(f, a) = UNION {K(m) : m \in LeavesOf(f, a)}
  BY DEF EntryPlaces
<1>3. <<n, i, j>> \in EntryPlaces(f, a)
  <2> HIDE DEF I, J
  <2>1. <<n, i, j>> \in K(n)
    BY <1>1
  <2> HIDE DEF K
  <2> QED BY <1>1, <1>2, <2>1
<1> QED BY <1>3

(* Its entries have names of their own.                                    *)
LEMMA TablesDifferMore ==
  ASSUME NEW f \in Files, NEW a \in DOMAIN f.blocks, NamesDiffer(f), NEW sn, NEW lv,
         sn \subseteq NodesOf(f, a) \cap DOMAIN f.nodes, Found(f, sn, lv), TablesDiffer(f, lv),
         NEW b \in NodesOf(f, a) \cap DOMAIN f.nodes, b \notin sn, f.nodes[b].level = 0
  PROVE  TablesDiffer(f, lv \o f.nodes[b].children)
<1> DEFINE C == f.nodes[b].children
<1>1. lv \in Seq(Nat) /\ C \in Seq(Nat)
  BY NodeFacts DEF Found
<1>2. \A k, l \in EntryPlaces(f, a) : EntryAt(f, k).name = EntryAt(f, l).name => k = l
  BY DEF NamesDiffer
<1>3. ASSUME NEW n, NEW m, NEW i, NEW j, NEW p, NEW q,
             IsPlace(f, a, n, i, p), IsPlace(f, a, m, j, q),
             f.tables[f.nodes[n].children[i]].entries[p].name = f.tables[f.nodes[m].children[j]].entries[q].name
      PROVE  n = m /\ i = j /\ p = q
  <2>1. <<n, i, p>> \in EntryPlaces(f, a)
    BY <1>3, EntryPlaced
  <2>2. <<m, j, q>> \in EntryPlaces(f, a)
    BY <1>3, EntryPlaced
  <2>3. EntryAt(f, <<n, i, p>>).name = EntryAt(f, <<m, j, q>>).name
    BY <1>3 DEF EntryAt
  <2>4. <<n, i, p>> = <<m, j, q>>
    BY <1>2, <2>1, <2>2, <2>3, Zenon
  <2> QED BY <2>4
<1>4. b \in LeavesOf(f, a)
  BY DEF LeavesOf
<1>5. ASSUME NEW i \in DOMAIN C, NEW j \in DOMAIN C, NEW p, NEW q,
             C[i] \in DOMAIN f.tables, C[j] \in DOMAIN f.tables,
             p \in DOMAIN f.tables[C[i]].entries, q \in DOMAIN f.tables[C[j]].entries,
             f.tables[C[i]].entries[p].name = f.tables[C[j]].entries[q].name
      PROVE  i = j /\ p = q
  <2>1. IsPlace(f, a, b, i, p) /\ IsPlace(f, a, b, j, q)
    BY <1>4, <1>5 DEF IsPlace
  <2> QED BY <1>3, <1>5, <2>1
<1>6. ASSUME NEW i \in DOMAIN lv, NEW j \in DOMAIN C, NEW p, NEW q,
             lv[i] \in DOMAIN f.tables, C[j] \in DOMAIN f.tables,
             p \in DOMAIN f.tables[lv[i]].entries, q \in DOMAIN f.tables[C[j]].entries,
             f.tables[lv[i]].entries[p].name = f.tables[C[j]].entries[q].name
      PROVE  FALSE
  <2>1. lv[i] \in ToSet(lv)
    BY DEF ToSet
  <2>2. PICK n \in sn : f.nodes[n].level = 0 /\ \E k \in DOMAIN f.nodes[n].children : lv[i] = f.nodes[n].children[k]
    BY <2>1 DEF Found
  <2>3. PICK k \in DOMAIN f.nodes[n].children : lv[i] = f.nodes[n].children[k]
    BY <2>2
  <2>4. n \in LeavesOf(f, a)
    BY <2>2 DEF LeavesOf
  <2>5. IsPlace(f, a, n, k, p) /\ IsPlace(f, a, b, j, q)
    BY <1>4, <1>6, <2>3, <2>4 DEF IsPlace
  <2>6. f.tables[f.nodes[n].children[k]].entries[p].name = f.tables[C[j]].entries[q].name
    BY <1>6, <2>3
  <2>7. n = b
    BY <1>3, <2>5, <2>6
  <2> QED BY <2>7
<1> HIDE DEF C
<1> DEFINE s == lv \o C
<1>9. /\ Len(lv) \in Nat
      /\ \A i \in DOMAIN lv : s[i] = lv[i]
      /\ \A i \in DOMAIN C : s[Len(lv) + i] = C[i]
      /\ \A i \in DOMAIN s : i \in DOMAIN lv \/ \E j \in DOMAIN C : i = Len(lv) + j
  BY <1>1, ConcatFacts
<1> HIDE DEF s
<1>10. ASSUME NEW i \in DOMAIN s, NEW j \in DOMAIN s, NEW p, NEW q,
              s[i] \in DOMAIN f.tables, s[j] \in DOMAIN f.tables,
              p \in DOMAIN f.tables[s[i]].entries, q \in DOMAIN f.tables[s[j]].entries,
              f.tables[s[i]].entries[p].name = f.tables[s[j]].entries[q].name
       PROVE  i = j /\ p = q
  <2>1. CASE i \in DOMAIN lv /\ j \in DOMAIN lv
    <3>1. s[i] = lv[i] /\ s[j] = lv[j]
      BY <1>9, <2>1
    <3> QED BY <1>10, <2>1, <3>1 DEF TablesDiffer
  <2>2. CASE i \in DOMAIN lv /\ j \notin DOMAIN lv
    <3>1. PICK y \in DOMAIN C : j = Len(lv) + y
      BY <1>9, <2>2
    <3>2. s[i] = lv[i] /\ s[j] = C[y]
      BY <1>9, <2>2, <3>1
    <3> QED BY <1>6, <1>10, <2>2, <3>2
  <2>3. CASE i \notin DOMAIN lv /\ j \in DOMAIN lv
    <3>1. PICK x \in DOMAIN C : i = Len(lv) + x
      BY <1>9, <2>3
    <3>2. s[j] = lv[j] /\ s[i] = C[x]
      BY <1>9, <2>3, <3>1
    <3> QED BY <1>6, <1>10, <2>3, <3>2
  <2>4. CASE i \notin DOMAIN lv /\ j \notin DOMAIN lv
    <3>1. PICK x \in DOMAIN C : i = Len(lv) + x
      BY <1>9, <2>4
    <3>2. PICK y \in DOMAIN C : j = Len(lv) + y
      BY <1>9, <2>4
    <3>3. s[i] = C[x] /\ s[j] = C[y]
      BY <1>9, <3>1, <3>2
    <3>4. /\ C[x] \in DOMAIN f.tables /\ C[y] \in DOMAIN f.tables
          /\ p \in DOMAIN f.tables[C[x]].entries /\ q \in DOMAIN f.tables[C[y]].entries
          /\ f.tables[C[x]].entries[p].name = f.tables[C[y]].entries[q].name
      BY <1>10, <3>3
    <3>5. x = y /\ p = q
      BY <1>5, <3>4
    <3> QED BY <3>1, <3>2, <3>5
  <2> QED BY <2>1, <2>2, <2>3, <2>4
<1> QED BY <1>10 DEF TablesDiffer, s, C

(* A sequence reversed lists the same places.                              *)
LEMMA ReverseLists ==
  ASSUME NEW c \in Seq(Nat)
  PROVE  Reverse(c) \in Seq(Nat) /\ \E g : Lists(g, Reverse(c), c)
<1> DEFINE N == Len(c)
<1> DEFINE t == Reverse(c)
<1> DEFINE g == [j \in 1 .. N |-> (N - j) + 1]
<1>1. N \in Nat /\ DOMAIN c = 1 .. N /\ \A i \in 1 .. N : c[i] \in Nat
  OBVIOUS
<1>2. t = [j \in 1 .. N |-> c[(N - j) + 1]]
  BY DEF Reverse
<1> HIDE DEF N
<1>3. \A j \in 1 .. N : (N - j) + 1 \in 1 .. N
  BY <1>1
<1>4. t \in Seq(Nat) /\ DOMAIN t = 1 .. N /\ \A j \in 1 .. N : t[j] = c[(N - j) + 1]
  <2>1. \A j \in 1 .. N : c[(N - j) + 1] \in Nat
    BY <1>1, <1>3
  <2> QED BY <1>1, <1>2, <2>1
<1> HIDE DEF t
<1>5. g \in [1 .. N -> 1 .. N] /\ \A j \in 1 .. N : g[j] = (N - j) + 1
  BY <1>3
<1> HIDE DEF g
<1>6. \A j \in 1 .. N : t[j] = c[g[j]]
  BY <1>4, <1>5
<1>7. \A i, j \in 1 .. N : g[i] = g[j] => i = j
  BY <1>1, <1>5
<1>8. \A i \in 1 .. N : \E j \in 1 .. N : g[j] = i
  <2> SUFFICES ASSUME NEW i \in 1 .. N PROVE \E j \in 1 .. N : g[j] = i
    OBVIOUS
  <2>1. (N - i) + 1 \in 1 .. N /\ (N - ((N - i) + 1)) + 1 = i
    BY <1>1
  <2> QED BY <1>5, <2>1
<1>9. Lists(g, t, c)
  BY <1>1, <1>4, <1>5, <1>6, <1>7, <1>8 DEF Lists
<1> QED BY <1>4, <1>9 DEF t

LEMMA NodeKidsListed ==
  ASSUME NEW f \in Files, NEW n \in DOMAIN f.nodes
  PROVE  LET t == IF f.nodes[n].level = 0 THEN <<>> ELSE Reverse(f.nodes[n].children)
         IN  t \in Seq(Nat) /\ \E g : Lists(g, t, NodeKids(f)[n])
<1>1. f.nodes[n].children \in Seq(Nat) /\ f.nodes[n].level \in Nat
  BY NodeFacts
<1>2. NodeKids(f)[n] = IF f.nodes[n].level > 0 THEN f.nodes[n].children ELSE <<>>
  BY DEF NodeKids
<1>3. CASE f.nodes[n].level = 0
  <2>1. NodeKids(f)[n] = <<>>
    BY <1>2, <1>3
  <2>2. Lists(<<>>, <<>>, <<>>)
    BY DEF Lists
  <2> QED BY <1>3, <2>1, <2>2
<1>4. CASE f.nodes[n].level # 0
  <2>1. NodeKids(f)[n] = f.nodes[n].children
    BY <1>1, <1>2, <1>4
  <2>2. Reverse(f.nodes[n].children) \in Seq(Nat) /\ \E g : Lists(g, Reverse(f.nodes[n].children), f.nodes[n].children)
    BY <1>1, ReverseLists
  <2> QED BY <1>4, <2>1, <2>2
<1> QED BY <1>3, <1>4

(* A node is read.                                                         *)
LEMMA WalkingSteps ==
  ASSUME NEW f \in Files, NEW a, NEW r, NEW q, NEW sn, NEW lv, Walking(f, a, r, q, sn, lv), q # <<>>,
         Cardinality(sn) <= MaxNodes, Head(q) \notin sn, Sound(f, Head(q))
  PROVE  LET node == f.nodes[Head(q)]
         IN  Walking(f, a, r, (IF node.level = 0 THEN <<>> ELSE Reverse(node.children)) \o Tail(q),
                     sn \cup {Head(q)}, IF node.level = 0 THEN lv \o node.children ELSE lv)
<1> DEFINE b == Head(q)
<1> DEFINE node == f.nodes[b]
<1> DEFINE t == IF node.level = 0 THEN <<>> ELSE Reverse(node.children)
<1> DEFINE kids == NodeKids(f)
<1> DEFINE un == sn \cup {b}
<1> DEFINE lw == IF node.level = 0 THEN lv \o node.children ELSE lv
<1>1. /\ r \in Nat /\ Roots(f, a) = {r}
      /\ Search(kids, r, q, sn)
      /\ sn \cup ToSet(q) \subseteq NodesOf(f, a)
      /\ \A n \in sn : Sound(f, n)
      /\ Found(f, sn, lv)
      /\ NamesDiffer(f) /\ a \in DOMAIN f.blocks => TablesDiffer(f, lv)
  BY DEF Walking
<1>2. /\ q \in Seq(Nat) /\ IsFiniteSet(sn) /\ sn \subseteq NodesOf(f, a) \cap DOMAIN f.nodes
      /\ Cardinality(sn) \in Nat
  BY WalkingFacts
<1>3. b \in DOMAIN f.nodes /\ b \in ToSet(q) /\ b \in NodesOf(f, a)
  BY <1>1, <1>2, HeadTail DEF Sound
<1>4. t \in Seq(Nat) /\ \E g : Lists(g, t, kids[b])
  BY <1>3, NodeKidsListed
<1>5. PICK g : Lists(g, t, kids[b])
  BY <1>4
<1>6. Search(kids, r, t \o Tail(q), un)
  <2> HIDE DEF kids, t
  <2>1. t \in Seq(Nat)
    BY <1>4
  <2> QED BY <1>1, <1>5, <2>1, SearchVisits
<1>7. un \cup ToSet(t \o Tail(q)) \subseteq NodesOf(f, a)
  <2> DEFINE p == Tail(q)
  <2>1. p \in Seq(Nat) /\ ToSet(p) \subseteq ToSet(q)
    BY <1>2, HeadTail
  <2>2. ToSet(t \o p) = ToSet(t) \cup ToSet(p)
    <3>1. t \in Seq(Nat) /\ p \in Seq(Nat)
      BY <1>4, <2>1
    <3> HIDE DEF t, p
    <3> QED BY <3>1, ConcatFacts
  <2>3. ASSUME NEW x \in ToSet(t) PROVE x \in NodesOf(f, a)
    <3> HIDE DEF t, kids
    <3>1. PICK j \in DOMAIN t : x = t[j]
      BY DEF ToSet
    <3>2. g[j] \in DOMAIN kids[b] /\ x = kids[b][g[j]]
      BY <1>5, <3>1 DEF Lists
    <3>3. g[j] \in DOMAIN node.children /\ node.level > 0 /\ x = node.children[g[j]]
      BY <1>3, <3>2, NodeKidsFacts DEF kids
    <3>4. GoesBelow(f, NodesOf(f, a))
      BY NodesFacts
    <3> QED BY <1>3, <3>3, <3>4 DEF GoesBelow
  <2> HIDE DEF t, p
  <2>4. un \cup ToSet(t \o p) \subseteq NodesOf(f, a)
    BY <1>1, <1>3, <2>1, <2>2, <2>3
  <2> QED BY <2>4 DEF p
<1>8. \A n \in un : Sound(f, n)
  BY <1>1
<1>9. Found(f, un, lw)
  <2>1. CASE node.level = 0
    BY <1>1, <1>3, <2>1, FoundMore
  <2>2. CASE node.level # 0
    BY <1>1, <1>3, <2>2, FoundSame
  <2> QED BY <2>1, <2>2
<1>10. Cardinality(un) <= MaxNodes + 1
  <2>1. Cardinality(un) = Cardinality(sn) + 1
    BY <1>2, FS_AddElement
  <2> QED BY <1>2, <2>1, BoundsAssumption
<1>11. NamesDiffer(f) /\ a \in DOMAIN f.blocks => TablesDiffer(f, lw)
  <2>1. CASE node.level = 0
    BY <1>1, <1>2, <1>3, <2>1, TablesDifferMore
  <2>2. CASE node.level # 0
    BY <1>1, <2>2
  <2> QED BY <2>1, <2>2
<1>12. Walking(f, a, r, t \o Tail(q), un, lw)
  <2> HIDE DEF t, lw, un
  <2> QED BY <1>1, <1>6, <1>7, <1>8, <1>9, <1>10, <1>11 DEF Walking
<1> QED BY <1>12

LEMMA WalkingSkips ==
  ASSUME NEW f \in Files, NEW a, NEW r, NEW q, NEW sn, NEW lv, Walking(f, a, r, q, sn, lv), q # <<>>,
         Head(q) \in sn
  PROVE  Walking(f, a, r, Tail(q), sn, lv)
<1>1. Search(NodeKids(f), r, Tail(q), sn)
  BY SearchSkips DEF Walking
<1>2. q \in Seq(Nat)
  BY WalkingFacts
<1>3. ToSet(Tail(q)) \subseteq ToSet(q)
  BY <1>2, HeadTail
<1> QED BY <1>1, <1>3 DEF Walking

(* All nodes are read.                                                     *)
LEMMA WalkingEnds ==
  ASSUME NEW f \in Files, NEW a, NEW r, NEW sn, NEW lv, Walking(f, a, r, <<>>, sn, lv)
  PROVE  /\ lv \in Seq(Nat) /\ ToSet(lv) = TablesOf(f, a)
         /\ \A n \in NodesOf(f, a) : Sound(f, n)
         /\ Cardinality(NodesOf(f, a)) <= MaxNodes + 1
<1> DEFINE kids == NodeKids(f)
<1>1. /\ r \in Nat /\ Roots(f, a) = {r}
      /\ Search(kids, r, <<>>, sn)
      /\ \A n \in sn : Sound(f, n)
      /\ Found(f, sn, lv)
      /\ Cardinality(sn) <= MaxNodes + 1
  BY DEF Walking
<1>2. IsFiniteSet(sn) /\ sn \subseteq NodesOf(f, a) \cap DOMAIN f.nodes /\ lv \in Seq(Nat)
  BY WalkingFacts
<1>3. ToSet(<<>>) = {}
  BY DEF ToSet
<1>4. r \in sn /\ \A x : Named(kids, sn, x) => x \in sn
  <2> HIDE DEF kids
  <2> QED BY <1>1, <1>3 DEF Search
<1>5. GoesBelow(f, sn)
  <2> SUFFICES ASSUME NEW n \in sn, f.nodes[n].level > 0, NEW i \in DOMAIN f.nodes[n].children
               PROVE  f.nodes[n].children[i] \in sn
    BY DEF GoesBelow
  <2>1. i \in DOMAIN kids[n] /\ kids[n][i] = f.nodes[n].children[i]
    BY <1>2, NodeKidsFacts
  <2> QED BY <1>4, <2>1 DEF Named
<1>6. sn = NodesOf(f, a)
  BY <1>1, <1>2, <1>4, <1>5, NodesFacts
<1>7. ASSUME NEW x PROVE x \in ToSet(lv) <=> x \in TablesOf(f, a)
  <2>1. x \in TablesOf(f, a) <=> \E n \in LeavesOf(f, a) : x \in ToSet(f.nodes[n].children)
    BY DEF TablesOf
  <2>2. \A n : n \in LeavesOf(f, a) <=> n \in sn /\ f.nodes[n].level = 0
    BY <1>2, <1>6 DEF LeavesOf
  <2>3. \A n : x \in ToSet(f.nodes[n].children) <=> \E i \in DOMAIN f.nodes[n].children : x = f.nodes[n].children[i]
    BY DEF ToSet
  <2>4. x \in ToSet(lv) <=>
       \E n \in sn : f.nodes[n].level = 0 /\ \E i \in DOMAIN f.nodes[n].children : x = f.nodes[n].children[i]
    BY <1>1 DEF Found
  <2> QED BY <2>1, <2>2, <2>3, <2>4
<1> QED BY <1>1, <1>2, <1>6, <1>7

LEMMA NodePlaced ==
  ASSUME NEW f \in Files, NEW a, NEW n \in NodesOf(f, a) \cap DOMAIN f.nodes, f.nodes[n].level > 0,
         NEW i \in DOMAIN f.nodes[n].children
  PROVE  <<n, i>> \in NodePlaces(f, a)
<1> DEFINE J(m) == {<<m, k>> : k \in DOMAIN f.nodes[m].children}
<1> DEFINE I == {k \in NodesOf(f, a) \cap DOMAIN f.nodes : f.nodes[k].level > 0}
<1>1. n \in I /\ <<n, i>> \in J(n)
  OBVIOUS
<1>2. NodePlaces(f, a) = UNION {J(m) : m \in I}
  BY DEF NodePlaces
<1> HIDE DEF I, J
<1> QED BY <1>1, <1>2

LEMMA TwiceIsNode ==
  ASSUME NEW f \in Files, NEW a, NEW r, Roots(f, a) = {r}, NEW sn,
         sn \subseteq NodesOf(f, a) \cap DOMAIN f.nodes, Twice(NodeKids(f), r, sn)
  PROVE  NodeNamedTwice(f, a)
<1> DEFINE kids == NodeKids(f)
<1>1. ASSUME NEW b \in sn, NEW i \in DOMAIN kids[b]
      PROVE  <<b, i>> \in NodePlaces(f, a) /\ NodeAt(f, <<b, i>>) = kids[b][i]
  <2>1. /\ b \in NodesOf(f, a) \cap DOMAIN f.nodes /\ i \in DOMAIN f.nodes[b].children
        /\ f.nodes[b].level > 0 /\ kids[b][i] = f.nodes[b].children[i]
    BY NodeKidsFacts
  <2>2. <<b, i>> \in NodePlaces(f, a)
    BY <2>1, NodePlaced
  <2>3. NodeAt(f, <<b, i>>) = f.nodes[b].children[i]
    BY DEF NodeAt
  <2> QED BY <2>1, <2>2, <2>3
<1> HIDE DEF kids
<1>2. CASE \E b \in sn : \E i \in DOMAIN kids[b] : kids[b][i] = r
  BY <1>1, <1>2 DEF NodeNamedTwice
<1>3. CASE \E b, c \in sn : \E i \in DOMAIN kids[b], j \in DOMAIN kids[c] :
             (b # c \/ i # j) /\ kids[b][i] = kids[c][j]
  <2>1. PICK b \in sn, c \in sn : \E i \in DOMAIN kids[b], j \in DOMAIN kids[c] :
             (b # c \/ i # j) /\ kids[b][i] = kids[c][j]
    BY <1>3
  <2>2. PICK i \in DOMAIN kids[b], j \in DOMAIN kids[c] : (b # c \/ i # j) /\ kids[b][i] = kids[c][j]
    BY <2>1
  <2>3. <<b, i>> # <<c, j>>
    BY <2>2
  <2>4. /\ <<b, i>> \in NodePlaces(f, a) /\ <<c, j>> \in NodePlaces(f, a)
        /\ NodeAt(f, <<b, i>>) = NodeAt(f, <<c, j>>)
    BY <1>1, <2>2
  <2> QED BY <2>3, <2>4, Zenon DEF NodeNamedTwice
<1> QED BY <1>2, <1>3 DEF Twice, kids

(* A node cannot be read, or the limit is reached.                         *)
LEMMA WalkingFails ==
  ASSUME NEW f \in Files, NEW a, NEW r, NEW q, NEW sn, NEW lv, Walking(f, a, r, q, sn, lv), q # <<>>,
         \/ Cardinality(sn) > MaxNodes
         \/ Head(q) \notin sn /\ ~Sound(f, Head(q))
  PROVE  BadGroup(f, a) \/ AtNodeLimit(f, a)
<1> DEFINE b == Head(q)
<1> DEFINE N == NodesOf(f, a)
<1> DEFINE n == Cardinality(sn)
<1> DEFINE k == Cardinality(N)
<1>1. /\ Roots(f, a) = {r}
      /\ Search(NodeKids(f), r, q, sn)
      /\ sn \cup ToSet(q) \subseteq N
  BY DEF Walking
<1>2. /\ q \in Seq(Nat) /\ IsFiniteSet(sn) /\ sn \subseteq N \cap DOMAIN f.nodes
      /\ n \in Nat /\ IsFiniteSet(N) /\ k \in Nat
  BY WalkingFacts
<1>3. b \in N /\ 1 \in DOMAIN q /\ q[1] = b
  BY <1>1, <1>2, HeadTail
<1>4. CASE b \notin sn /\ ~Sound(f, b)
  BY <1>3, <1>4 DEF BadGroup, Sound
<1>5. CASE n > MaxNodes /\ b \notin sn
  <2>1. Cardinality(sn \cup {b}) = n + 1
    BY <1>2, <1>5, FS_AddElement
  <2>2. sn \cup {b} \subseteq N
    BY <1>2, <1>3
  <2>3. Cardinality(sn \cup {b}) <= k
    <3> HIDE DEF N
    <3> QED BY <1>2, <2>2, FS_Subset DEF k
  <2> HIDE DEF n, k
  <2>4. k > MaxNodes + 1
    BY <1>2, <1>5, <2>1, <2>3, BoundsAssumption
  <2> QED BY <2>4 DEF k, BadGroup
<1>6. CASE n > MaxNodes /\ b \in sn
  <2>1. Again(q, sn)
    BY <1>3, <1>6 DEF Again
  <2>2. Twice(NodeKids(f), r, sn)
    BY <1>1, <2>1 DEF Search
  <2>3. NodeNamedTwice(f, a)
    BY <1>1, <1>2, <2>2, TwiceIsNode
  <2>4. n <= k
    <3>1. sn \subseteq N
      BY <1>2
    <3> HIDE DEF N
    <3> QED BY <1>2, <3>1, FS_Subset DEF n, k
  <2> HIDE DEF n, k
  <2>5. k = MaxNodes + 1 \/ k > MaxNodes + 1
    BY <1>2, <1>6, <2>4, BoundsAssumption
  <2> QED BY <2>3, <2>5 DEF k, BadGroup, AtNodeLimit
<1> QED BY <1>4, <1>5, <1>6

--------------------------------------------------------------------------------
(* What a header that was read says of its object.                         *)

LEMMA BadKinds ==
  ASSUME NEW f, NEW a, NEW kinds
  PROVE  BadMessage(f, a, kinds) <=> \E kind \in kinds : BadMessage(f, a, {kind})
BY DEF BadMessage

LEMMA HeaderKinds ==
  ASSUME NEW f \in Files, NEW a, NEW ms, IsHeader(f, a, ms)
  PROVE  /\ IsDataset(ms) <=> KindOf(f, a) = "dataset"
         /\ IsCommittedDatatype(ms) <=> KindOf(f, a) = "type"
         /\ KindOf(f, a) \in {"dataset", "type", "group"}
<1>1. Has(ms, "layout") <=> MessagesOf(f, a, "layout") # {}
  BY HeaderHas
<1>2. Has(ms, "datatype") <=> MessagesOf(f, a, "datatype") # {}
  BY HeaderHas
<1> QED BY <1>1, <1>2 DEF IsDataset, IsCommittedDatatype, KindOf

LEMMA HeaderType ==
  ASSUME NEW f \in Files, OneOfEach(f), NEW a, NEW ms, IsHeader(f, a, ms)
  PROVE  /\ TypeReads(ms) <=> ~BadMessage(f, a, {"datatype"}) /\ MessagesOf(f, a, "datatype") # {}
         /\ Has(ms, "datatype") =>
              /\ First(ms, "datatype").to \in Nat
              /\ First(ms, "datatype").to = Undefined => Shared(f, a) = {}
              /\ First(ms, "datatype").to # Undefined => Shared(f, a) # {} /\ Hop(f, a) = First(ms, "datatype").to
<1>1. "datatype" \in Singles /\ "datatype" # "cont"
  BY DEF Singles
<1>2. /\ Has(ms, "datatype") => MessagesOf(f, a, "datatype") = {First(ms, "datatype")}
      /\ ~Has(ms, "datatype") => MessagesOf(f, a, "datatype") = {}
      /\ ParsesFirst(ms, "datatype") <=> ~BadMessage(f, a, {"datatype"})
  BY <1>1, HeaderFirst
<1>3. TypeReads(ms) <=> ~BadMessage(f, a, {"datatype"}) /\ MessagesOf(f, a, "datatype") # {}
  BY <1>2 DEF TypeReads, ParsesFirst
<1>4. ASSUME Has(ms, "datatype")
      PROVE  /\ First(ms, "datatype").to \in Nat
             /\ First(ms, "datatype").to = Undefined => Shared(f, a) = {}
             /\ First(ms, "datatype").to # Undefined => Shared(f, a) # {} /\ Hop(f, a) = First(ms, "datatype").to
  <2> DEFINE m == First(ms, "datatype")
  <2>1. m \in MessagesOf(f, a, "datatype") /\ MessagesOf(f, a, "datatype") = {m}
    BY <1>2, <1>4
  <2>2. m \in Message /\ m.kind = "datatype"
    BY <2>1, MessagesFacts
  <2>3. m.to \in Nat
    BY <2>2, MessageFacts
  <2> HIDE DEF m
  <2>4. m.to = Undefined => Shared(f, a) = {}
    BY <2>1 DEF Shared
  <2>5. m.to # Undefined => Shared(f, a) = {m}
    BY <2>1 DEF Shared
  <2>6. m.to # Undefined => Hop(f, a) = m.to
    BY <2>5 DEF Hop
  <2> QED BY <2>3, <2>4, <2>5, <2>6 DEF m
<1> QED BY <1>3, <1>4

(* The kinds of message that build_dataset() parses, the datatype apart.   *)
Parts == {"dataspace", "layout", "pipeline", "fill", "attributes"}

LEMMA HeaderDataset ==
  ASSUME NEW f \in Files, OneOfEach(f), NEW a, NEW ms, IsHeader(f, a, ms)
  PROVE  DatasetReads(ms) <=>
           /\ ~BadMessage(f, a, Parts) /\ ~BadMessage(f, a, {"datatype"})
           /\ MessagesOf(f, a, "datatype") # {}
<1>1. TypeReads(ms) <=> ~BadMessage(f, a, {"datatype"}) /\ MessagesOf(f, a, "datatype") # {}
  BY HeaderType
<1>2. \A kind \in Singles : ParsesFirst(ms, kind) <=> ~BadMessage(f, a, {kind})
  BY HeaderFirst
<1>3. BadMessage(f, a, Parts) <=> \E kind \in Parts : BadMessage(f, a, {kind})
  BY BadKinds
<1>4. ~BadMessage(f, a, Parts) <=> \A kind \in Parts : ParsesFirst(ms, kind)
  BY <1>2, <1>3 DEF Parts, Singles
<1> QED BY <1>1, <1>4 DEF DatasetReads, TypeReads, AttributesRead, Parts

LEMMA HeaderGroup ==
  ASSUME NEW f \in Files, OneOfEach(f), NEW a, NEW ms, IsHeader(f, a, ms)
  PROVE  /\ AttributesRead(ms) <=> ~BadMessage(f, a, {"attributes"})
         /\ Has(ms, "table") => /\ Roots(f, a) = {First(ms, "table").to} /\ First(ms, "table").to \in Nat
                                /\ First(ms, "table").ok <=> ~BadMessage(f, a, {"table"})
         /\ Has(ms, "table") <=> MessagesOf(f, a, "table") # {}
         /\ LinksRead(ms) <=> ~BadMessage(f, a, {"link", "links"})
         /\ ~Has(ms, "table") => ~BadMessage(f, a, {"table"}) /\ NodesOf(f, a) = {} /\ TablesOf(f, a) = {}
<1>1. AttributesRead(ms) <=> ~BadMessage(f, a, {"attributes"})
  BY HeaderFirst DEF AttributesRead, Singles
<1>2. /\ Has(ms, "table") => MessagesOf(f, a, "table") = {First(ms, "table")}
      /\ ~Has(ms, "table") => MessagesOf(f, a, "table") = {}
      /\ ParsesFirst(ms, "table") <=> ~BadMessage(f, a, {"table"})
  BY HeaderFirst DEF Singles
<1>3. ASSUME Has(ms, "table")
      PROVE  /\ Roots(f, a) = {First(ms, "table").to} /\ First(ms, "table").to \in Nat
             /\ First(ms, "table").ok <=> ~BadMessage(f, a, {"table"})
  <2> DEFINE m == First(ms, "table")
  <2>1. MessagesOf(f, a, "table") = {m}
    BY <1>2, <1>3
  <2>2. m \in Message /\ m.kind = "table"
    BY <2>1, MessagesFacts
  <2>3. m.to \in Nat
    BY <2>2, MessageFacts
  <2>4. Roots(f, a) = {m.to}
    <3> HIDE DEF m
    <3> QED BY <2>1 DEF Roots
  <2> QED BY <1>2, <1>3, <2>3, <2>4 DEF ParsesFirst
<1>4. LinksRead(ms) <=> ~BadMessage(f, a, {"link", "links"})
  <2>1. ParsesFirst(ms, "links") <=> ~BadMessage(f, a, {"links"})
    BY HeaderFirst DEF Singles
  <2>2. \A m : m \in ToSet(ms) /\ m.kind = "link" <=> m \in MessagesOf(f, a, "link")
    BY HeaderMessages
  <2>3. (\A i \in DOMAIN ms : ms[i].kind = "link" => ms[i].ok) <=> \A m \in MessagesOf(f, a, "link") : m.ok
    BY <2>2 DEF ToSet
  <2>4. BadMessage(f, a, {"link"}) <=> \E m \in MessagesOf(f, a, "link") : ~m.ok
    BY DEF BadMessage
  <2>5. BadMessage(f, a, {"link", "links"}) <=> BadMessage(f, a, {"link"}) \/ BadMessage(f, a, {"links"})
    BY DEF BadMessage
  <2> QED BY <2>1, <2>3, <2>4, <2>5 DEF LinksRead
<1>5. ASSUME ~Has(ms, "table")
      PROVE  ~BadMessage(f, a, {"table"}) /\ NodesOf(f, a) = {} /\ TablesOf(f, a) = {}
  <2>1. MessagesOf(f, a, "table") = {}
    BY <1>2, <1>5
  <2>2. Roots(f, a) = {} /\ ~BadMessage(f, a, {"table"})
    BY <2>1 DEF Roots, BadMessage
  <2>3. Roots(f, a) \subseteq {} /\ GoesBelow(f, {})
    BY <2>2 DEF GoesBelow
  <2>4. NodesOf(f, a) \subseteq {}
    BY <2>3, NodesFacts
  <2>5. TablesOf(f, a) = {}
    BY <2>4 DEF TablesOf, LeavesOf
  <2> QED BY <2>2, <2>4, <2>5
<1>6. Has(ms, "table") <=> MessagesOf(f, a, "table") # {}
  BY <1>2
<1> QED BY <1>1, <1>3, <1>4, <1>5, <1>6

(* A group whose header and storage were read has nothing wrong with it,   *)
(* and one that fails has.                                                 *)
LEMMA NewGroupGood ==
  ASSUME NEW f \in Files, OneOfEach(f), NEW a, NEW ms, IsHeader(f, a, ms),
         ~Has(ms, "table"), AttributesRead(ms), LinksRead(ms)
  PROVE  ~BadGroup(f, a)
<1>1. /\ ~BadMessage(f, a, {"attributes"}) /\ ~BadMessage(f, a, {"table"})
      /\ ~BadMessage(f, a, {"link", "links"})
      /\ NodesOf(f, a) = {} /\ TablesOf(f, a) = {}
  BY HeaderGroup
<1>2. ~BadMessage(f, a, {"attributes", "table"})
  BY <1>1 DEF BadMessage
<1>3. Cardinality(NodesOf(f, a)) = 0 /\ MaxNodes \in Nat
  BY <1>1, FS_EmptySet, BoundsAssumption
<1>4. ~(Cardinality(NodesOf(f, a)) > MaxNodes + 1)
  BY <1>3
<1> QED BY <1>1, <1>2, <1>4 DEF BadGroup

LEMMA OldGroupGood ==
  ASSUME NEW f \in Files, OneOfEach(f), NEW a, NEW ms, IsHeader(f, a, ms),
         Has(ms, "table"), First(ms, "table").ok, AttributesRead(ms),
         NEW r, NEW sn, NEW lv, Walking(f, a, r, <<>>, sn, lv), \A i \in DOMAIN lv : TableReads(f, lv[i])
  PROVE  ~BadGroup(f, a)
<1>1. ~BadMessage(f, a, {"attributes"}) /\ ~BadMessage(f, a, {"table"}) /\ MessagesOf(f, a, "table") # {}
  BY HeaderGroup
<1>2. ~BadMessage(f, a, {"attributes", "table"})
  BY <1>1 DEF BadMessage
<1>3. /\ ToSet(lv) = TablesOf(f, a)
      /\ \A n \in NodesOf(f, a) : Sound(f, n)
      /\ Cardinality(NodesOf(f, a)) <= MaxNodes + 1
  BY WalkingEnds
<1>4. Cardinality(NodesOf(f, a)) \in Nat /\ MaxNodes \in Nat
  BY WalkingFacts, BoundsAssumption
<1>5. ~(Cardinality(NodesOf(f, a)) > MaxNodes + 1)
  BY <1>3, <1>4
<1>6. \A t \in TablesOf(f, a) : TableReads(f, t)
  BY <1>3 DEF ToSet
<1> QED BY <1>1, <1>2, <1>3, <1>5, <1>6 DEF BadGroup, Sound

LEMMA GroupBad ==
  ASSUME NEW f \in Files, OneOfEach(f), NEW a, NEW ms, IsHeader(f, a, ms),
         \/ ~AttributesRead(ms)
         \/ Has(ms, "table") /\ ~First(ms, "table").ok
         \/ ~Has(ms, "table") /\ ~LinksRead(ms)
  PROVE  BadGroup(f, a)
<1>1. CASE ~AttributesRead(ms)
  <2>1. BadMessage(f, a, {"attributes"})
    BY <1>1, HeaderGroup
  <2>2. BadMessage(f, a, {"attributes", "table"})
    BY <2>1 DEF BadMessage
  <2> QED BY <2>2 DEF BadGroup
<1>2. CASE Has(ms, "table") /\ ~First(ms, "table").ok
  <2>1. BadMessage(f, a, {"table"})
    BY <1>2, HeaderGroup
  <2>2. BadMessage(f, a, {"attributes", "table"})
    BY <2>1 DEF BadMessage
  <2> QED BY <2>2 DEF BadGroup
<1>3. CASE ~Has(ms, "table") /\ ~LinksRead(ms)
  <2>1. BadMessage(f, a, {"link", "links"}) /\ MessagesOf(f, a, "table") = {}
    BY <1>3, HeaderGroup
  <2> QED BY <2>1 DEF BadGroup
<1> QED BY <1>1, <1>2, <1>3

LEMMA TablesBad ==
  ASSUME NEW f \in Files, NEW a, NEW r, NEW sn, NEW lv, Walking(f, a, r, <<>>, sn, lv),
         NEW i \in DOMAIN lv, ~TableReads(f, lv[i])
  PROVE  BadGroup(f, a)
<1>1. ToSet(lv) = TablesOf(f, a) /\ lv[i] \in ToSet(lv)
  BY WalkingEnds DEF ToSet
<1> QED BY <1>1 DEF BadGroup

--------------------------------------------------------------------------------
(* The invariant: what is being read is what the walk is about.            *)

GroupFrame == [addr : Nat \ {Undefined}, path : Seq(STRING), children : Seq(Entry),
               attributes : Seq(STRING), complete : BOOLEAN]
IndexEntry == [kind : {"group", "dataset"}, path : Seq(STRING), addr : Nat \ {Undefined}, type : Nat,
               attributes : Seq(STRING), complete : BOOLEAN]

(* The frames below this one know their children.                          *)
Unopened == IF pc = "child" \/ (pc = "block" /\ reading.for # "group") THEN 0 ELSE 1

Opened(f, fr) == Own(f, fr.addr, fr.attributes, fr.complete) /\ ToSet(fr.children) \subseteq ChildrenOf(f, fr.addr)

Resolves(f, d) ==
  /\ d.type = TypeChain(f, d.addr)[MaxHops]
  /\ \A m \in MessagesOf(f, d.type, "datatype") : m.to = Undefined

IsOwn(f, d) == Own(f, d.addr, d.attributes, d.complete) /\ (d.kind = "dataset" => Resolves(f, d))

(* The datatype of dataset d is looked up, h hops along, at a.             *)
Following(f, d, h, a) ==
  /\ d \in IndexEntry /\ d.kind = "dataset" /\ Own(f, d.addr, d.attributes, d.complete)
  /\ h \in 1 .. MaxHops /\ a = TypeChain(f, d.addr)[h]
  /\ KindOf(f, d.addr) = "dataset" /\ ~BadHeader(f, d.addr) /\ ~BadMessage(f, d.addr, Parts)
  /\ \A n \in 0 .. h - 1 : ~BadType(f, TypeChain(f, d.addr)[n])

(* A group whose B-tree is walked.                                         *)
Listing(f, a, ms) ==
  /\ IsHeader(f, a, ms) /\ ~BadHeader(f, a) /\ a \in DOMAIN f.blocks
  /\ Has(ms, "table") /\ First(ms, "table").ok /\ AttributesRead(ms)

Typed ==
  /\ file \in Files /\ OneOfEach(file)
  /\ pc \in {"enter", "block", "node", "child", "done", "failed"}
  /\ frames \in Seq(GroupFrame) /\ index \in Seq(IndexEntry)
  /\ pc \in {"enter", "block", "node", "child"} => frames # <<>>

ReadingInv ==
  pc = "block" =>
    /\ Reading(file, reading.addr, queue, seen, blocks, messages)
    /\ reading.for \in {"group", "child", "type"}
    /\ reading.for = "group" => reading.addr = frames[1].addr
    /\ reading.for # "group" => frames[1].children # <<>>
    /\ reading.for = "child" => reading.addr = Child.to
    /\ reading.for = "type" =>
         /\ dataset = <<dataset[1], dataset[2]>>
         /\ Following(file, dataset[1], dataset[2], reading.addr)
         /\ dataset[1].addr = Child.to /\ dataset[1].path = ChildPath

WalkingInv ==
  pc = "node" =>
    /\ Listing(file, frames[1].addr, messages)
    /\ Walking(file, frames[1].addr, First(messages, "table").to, queue, seen, leaves)

OpenedInv == pc # "failed" => \A p \in DOMAIN frames : p > Unopened => Opened(file, frames[p])
OwnInv == \A i \in DOMAIN index : IsOwn(file, index[i])

ReadInv == Typed /\ ReadingInv /\ WalkingInv /\ OpenedInv /\ OwnInv

(* The invariant: where the walk is in the file.                           *)

Place(x) == <<x.path, x.addr>>
Listed(X, path, a) == \E i \in DOMAIN X : X[i].path = path /\ X[i].addr = a
Harmless(f, a) == KindOf(f, a) = "type" /\ ~BadObject(f, a)

(* The frames are a path of groups from the root; those from e on were     *)
(* entered.                                                                *)
Stacked(f, F, e) ==
  /\ F # <<>> => Place(F[Len(F)]) = <<<<>>, f.root>>
  /\ \A p \in DOMAIN F : /\ Place(F[p]) \in Objects(f) /\ KindOf(f, F[p].addr) = "group"
                         /\ Len(F[p].path) = Len(F) - p
                         /\ p >= e => Len(F[p].path) <= MaxDepth
                         /\ p > 1 => Front(F[p - 1].path) = F[p].path

(* What is listed is what it says, with nothing wrong.                     *)
Sorted(f, X) ==
  \A i \in DOMAIN X : /\ Place(X[i]) \in Objects(f) /\ X[i].kind = KindOf(f, X[i].addr)
                      /\ ~BadObject(f, X[i].addr)
                      /\ X[i].kind = "group" => Len(X[i].path) <= MaxDepth

(* No child of a group listed, or opened (those from o on), is left out.   *)
Accounted(f, X, path, c) == Listed(X, Append(path, c.name), c.to) \/ Harmless(f, c.to)
IndexCovered(f, X) ==
  \A i \in DOMAIN X : X[i].kind = "group" =>
    \A c \in ChildrenOf(f, X[i].addr) : Accounted(f, X, X[i].path, c)
ChildCovered(f, F, X, p, c) ==
  \/ c \in ToSet(F[p].children)
  \/ Accounted(f, X, F[p].path, c)
  \/ p > 1 /\ F[p - 1].path = Append(F[p].path, c.name) /\ F[p - 1].addr = c.to
FramesCovered(f, F, X, o) ==
  \A p \in DOMAIN F : p >= o =>
    /\ ~BadObject(f, F[p].addr) /\ ToSet(F[p].children) \subseteq ChildrenOf(f, F[p].addr)
    /\ \A c \in ChildrenOf(f, F[p].addr) : ChildCovered(f, F, X, p, c)
RootCovered(f, F, X) == F = <<>> => Listed(X, <<>>, f.root)

(* The groups entered are those listed and those on the stack from e on,   *)
(* once each.                                                              *)
IsEntered(F, X, e, a) ==
  \/ \E i \in DOMAIN X : X[i].kind = "group" /\ X[i].addr = a
  \/ \E p \in DOMAIN F : p >= e /\ F[p].addr = a
Once(F, X, e, v) ==
  /\ \A a : a \in v <=> IsEntered(F, X, e, a)
  /\ \A i, j \in DOMAIN X : X[i].kind = "group" /\ X[j].kind = "group" /\ X[i].addr = X[j].addr => i = j
  /\ \A p, q \in DOMAIN F : p >= e /\ q >= e /\ F[p].addr = F[q].addr => p = q
  /\ \A i \in DOMAIN X, p \in DOMAIN F : p >= e /\ X[i].kind = "group" => X[i].addr # F[p].addr

(* No path is listed twice, nor will be.                                   *)
PathsOnce(X) == \A i, j \in DOMAIN X : X[i].path = X[j].path => i = j
FramesNew(F, X) == \A i \in DOMAIN X, p \in DOMAIN F : X[i].path # F[p].path
ChildNew(F, X, p, path) ==
  /\ \A i \in DOMAIN X : X[i].path # path
  /\ p > 1 => F[p - 1].path # path
ChildrenNew(F, X, o) ==
  \A p \in DOMAIN F : p >= o =>
    /\ Different(F[p].children)
    /\ \A k \in DOMAIN F[p].children : ChildNew(F, X, p, Append(F[p].path, F[p].children[k].name))

(* What is listed is the root, or below what is listed or opened.          *)
Hangs(F, X, o, path) ==
  \/ path = <<>>
  \/ \E j \in DOMAIN X : Front(path) = X[j].path
  \/ \E p \in DOMAIN F : p >= o /\ Front(path) = F[p].path
Rooted(F, X, o) == \A i \in DOMAIN X : Hangs(F, X, o, X[i].path)

Walked(f, F, X, o, e, v) ==
  /\ Stacked(f, F, e) /\ Sorted(f, X)
  /\ IndexCovered(f, X) /\ FramesCovered(f, F, X, o) /\ RootCovered(f, F, X)
  /\ Once(F, X, e, v)
  /\ PathsOnce(X) /\ FramesNew(F, X) /\ ChildrenNew(F, X, o) /\ Rooted(F, X, o)

WalkInv ==
  /\ Conforms(file)
  /\ pc # "failed" => Walked(file, frames, index, Unopened + 1, IF pc = "enter" THEN 2 ELSE 1, visited)
  /\ pc = "done" => frames = <<>>
  /\ pc = "failed" => \/ Rejected(file)
                      \/ \E o \in Objects(file) : KindOf(file, o[2]) = "group" /\ AtNodeLimit(file, o[2])

--------------------------------------------------------------------------------
(* What the steps do to the stack.                                         *)

Done(F) == [F EXCEPT ![1].children = Tail(@)]
Open(F, children, attributes, complete) ==
  [F EXCEPT ![1].children = children, ![1].attributes = attributes, ![1].complete = complete]

(* Two stacks of the same groups.                                          *)
SameGroups(F, G) ==
  /\ G \in Seq(GroupFrame) /\ Len(G) = Len(F) /\ DOMAIN G = DOMAIN F
  /\ \A p \in DOMAIN F : G[p].addr = F[p].addr /\ G[p].path = F[p].path
  /\ \A p \in DOMAIN F : p # 1 => G[p] = F[p]

LEMMA FrameTypes ==
  ASSUME NEW F \in Seq(GroupFrame), F # <<>>
  PROVE  /\ Len(F) \in Nat /\ Len(F) >= 1 /\ DOMAIN F = 1 .. Len(F) /\ 1 \in DOMAIN F /\ Head(F) = F[1]
         /\ \A p \in DOMAIN F : /\ F[p] \in GroupFrame /\ F[p].addr \in Nat \ {Undefined}
                                /\ F[p].path \in Seq(STRING) /\ F[p].children \in Seq(Entry)
<1>1. Len(F) \in Nat /\ Len(F) >= 1 /\ DOMAIN F = 1 .. Len(F) /\ 1 \in DOMAIN F /\ Head(F) = F[1]
  OBVIOUS
<1>2. \A p \in DOMAIN F : F[p] \in GroupFrame
  OBVIOUS
<1> QED BY <1>1, <1>2 DEF GroupFrame

LEMMA DoneFacts ==
  ASSUME NEW F \in Seq(GroupFrame), F # <<>>, F[1].children # <<>>
  PROVE  /\ SameGroups(F, Done(F)) /\ Done(F)[1].children = Tail(F[1].children)
         /\ Done(F)[1].attributes = F[1].attributes /\ Done(F)[1].complete = F[1].complete
<1>1. /\ Len(F) \in Nat /\ DOMAIN F = 1 .. Len(F) /\ 1 \in DOMAIN F
      /\ \A p \in DOMAIN F : F[p] \in GroupFrame
  BY FrameTypes
<1> DEFINE x == [F[1] EXCEPT !.children = Tail(F[1].children)]
<1>2. Done(F) = [F EXCEPT ![1] = x]
  BY <1>1 DEF Done
<1>3. F[1] \in GroupFrame /\ F[1].children \in Seq(Entry)
  BY <1>1, FrameTypes
<1>4. Tail(F[1].children) \in Seq(Entry)
  BY <1>3, HeadTail
<1>5. /\ x \in GroupFrame /\ x.addr = F[1].addr /\ x.path = F[1].path /\ x.children = Tail(F[1].children)
      /\ x.attributes = F[1].attributes /\ x.complete = F[1].complete
  BY <1>3, <1>4 DEF GroupFrame
<1> HIDE DEF x
<1>6. /\ DOMAIN Done(F) = DOMAIN F /\ Done(F)[1] = x /\ \A p \in DOMAIN F : p # 1 => Done(F)[p] = F[p]
  BY <1>1, <1>2
<1>7. Done(F) \in Seq(GroupFrame) /\ Len(Done(F)) = Len(F)
  BY <1>1, <1>2, <1>5
<1> QED BY <1>5, <1>6, <1>7 DEF SameGroups

LEMMA OpenFacts ==
  ASSUME NEW F \in Seq(GroupFrame), F # <<>>, NEW ch \in Seq(Entry), NEW at \in Seq(STRING), NEW co \in BOOLEAN
  PROVE  /\ SameGroups(F, Open(F, ch, at, co)) /\ Open(F, ch, at, co)[1].children = ch
         /\ Open(F, ch, at, co)[1].attributes = at /\ Open(F, ch, at, co)[1].complete = co
<1>1. /\ Len(F) \in Nat /\ DOMAIN F = 1 .. Len(F) /\ 1 \in DOMAIN F
      /\ \A p \in DOMAIN F : F[p] \in GroupFrame
  BY FrameTypes
<1> DEFINE G == Open(F, ch, at, co)
<1> DEFINE x == [F[1] EXCEPT !.children = ch, !.attributes = at, !.complete = co]
<1>2. G = [F EXCEPT ![1] = x]
  BY <1>1 DEF Open
<1>3. F[1] \in GroupFrame
  BY <1>1
<1>5. /\ x \in GroupFrame /\ x.addr = F[1].addr /\ x.path = F[1].path /\ x.children = ch
      /\ x.attributes = at /\ x.complete = co
  BY <1>3 DEF GroupFrame
<1> HIDE DEF x, G
<1>6. DOMAIN G = DOMAIN F /\ G[1] = x /\ \A p \in DOMAIN F : p # 1 => G[p] = F[p]
  BY <1>1, <1>2
<1>7. G \in Seq(GroupFrame) /\ Len(G) = Len(F)
  BY <1>1, <1>2, <1>5
<1> QED BY <1>5, <1>6, <1>7 DEF SameGroups, G

LEMMA PushFacts ==
  ASSUME NEW F \in Seq(GroupFrame), NEW x \in GroupFrame
  PROVE  /\ <<x>> \o F \in Seq(GroupFrame) /\ Len(<<x>> \o F) = Len(F) + 1 /\ (<<x>> \o F)[1] = x
         /\ \A p \in DOMAIN F : p + 1 \in DOMAIN (<<x>> \o F) /\ (<<x>> \o F)[p + 1] = F[p]
         /\ \A p \in DOMAIN (<<x>> \o F) : p = 1 \/ (p - 1 \in DOMAIN F /\ (<<x>> \o F)[p] = F[p - 1])
         /\ <<x>> \o F # <<>>
<1> DEFINE G == <<x>> \o F
<1>1. G \in Seq(GroupFrame) /\ Len(G) = Len(F) + 1 /\ DOMAIN F = 1 .. Len(F) /\ Len(F) \in Nat
  OBVIOUS
<1>2. DOMAIN G = 1 .. Len(F) + 1 /\ G[1] = x /\ \A p \in 1 .. Len(F) : G[p + 1] = F[p]
  BY <1>1
<1> HIDE DEF G
<1>3. \A p \in DOMAIN G : p = 1 \/ (p - 1 \in DOMAIN F /\ G[p] = F[p - 1])
  BY <1>1, <1>2
<1>4. G # <<>>
  BY <1>1
<1> QED BY <1>1, <1>2, <1>3, <1>4 DEF G

LEMMA PopFacts ==
  ASSUME NEW F \in Seq(GroupFrame), F # <<>>
  PROVE  /\ Tail(F) \in Seq(GroupFrame) /\ Len(Tail(F)) = Len(F) - 1
         /\ \A p \in DOMAIN Tail(F) : p + 1 \in DOMAIN F /\ Tail(F)[p] = F[p + 1]
         /\ \A p \in DOMAIN F : p = 1 \/ (p - 1 \in DOMAIN Tail(F) /\ Tail(F)[p - 1] = F[p])
<1>1. Tail(F) \in Seq(GroupFrame) /\ Len(Tail(F)) = Len(F) - 1
  OBVIOUS
<1>2. /\ \A p \in DOMAIN Tail(F) : p + 1 \in DOMAIN F /\ Tail(F)[p] = F[p + 1]
      /\ \A p \in DOMAIN F : p = 1 \/ p - 1 \in DOMAIN Tail(F)
  BY HeadTail
<1>3. \A p \in DOMAIN F : p \in Nat
  OBVIOUS
<1>4. \A p \in DOMAIN F : p # 1 => Tail(F)[p - 1] = F[(p - 1) + 1] /\ (p - 1) + 1 = p
  BY <1>2, <1>3
<1> QED BY <1>1, <1>2, <1>4

(* The index with one more entry.                                          *)
LEMMA AppendFacts ==
  ASSUME NEW X \in Seq(IndexEntry), NEW d \in IndexEntry
  PROVE  /\ Append(X, d) \in Seq(IndexEntry)
         /\ \A i \in DOMAIN X : i \in DOMAIN Append(X, d) /\ Append(X, d)[i] = X[i]
         /\ \A i \in DOMAIN Append(X, d) : i \in DOMAIN X \/ Append(X, d)[i] = d
         /\ \A i \in DOMAIN Append(X, d) : i \in DOMAIN X \/ i = Len(X) + 1
         /\ Len(X) + 1 \in DOMAIN Append(X, d) /\ Append(X, d)[Len(X) + 1] = d
<1> DEFINE Y == Append(X, d)
<1>1. Y \in Seq(IndexEntry) /\ Len(Y) = Len(X) + 1 /\ DOMAIN X = 1 .. Len(X) /\ Len(X) \in Nat
  OBVIOUS
<1>2. DOMAIN Y = 1 .. Len(X) + 1 /\ Y[Len(X) + 1] = d /\ \A i \in 1 .. Len(X) : Y[i] = X[i]
  BY <1>1
<1> HIDE DEF Y
<1>3. \A i \in DOMAIN Y : i \in DOMAIN X \/ i = Len(X) + 1
  BY <1>1, <1>2
<1> QED BY <1>1, <1>2, <1>3 DEF Y

--------------------------------------------------------------------------------
(* Every step keeps the first invariant.                                   *)

LEMMA FailKeepsRead ==
  ASSUME ReadInv, Fail
  PROVE  ReadInv'
<1>1. pc' = "failed" /\ file' = file /\ frames' = frames /\ index' = index
  BY DEF Fail
<1>2. Typed'
  BY <1>1 DEF ReadInv, Typed
<1>3. ReadingInv' /\ WalkingInv' /\ OpenedInv'
  BY <1>1 DEF ReadingInv, WalkingInv, OpenedInv
<1>4. OwnInv'
  BY <1>1 DEF ReadInv, OwnInv
<1> QED BY <1>2, <1>3, <1>4 DEF ReadInv

LEMMA HeaderStarts ==
  ASSUME file \in Files, NEW STATE a, a \in Nat \ {Undefined}, NEW CONSTANT for, ReadHeader(a, for)
  PROVE  /\ Reading(file, a, queue', seen', blocks', messages')
         /\ reading'.addr = a /\ reading'.for = for /\ pc' = "block"
<1>1. Reading(file, a, <<a>>, {}, 0 - Spared(file, a), <<>>)
  BY ReadingStarts
<1>2. blocks' = 0 - Spared(file, a)
  BY DEF ReadHeader, Spared
<1>3. queue' = <<a>> /\ seen' = {} /\ messages' = <<>> /\ reading' = [addr |-> a, for |-> for] /\ pc' = "block"
  BY DEF ReadHeader
<1> QED BY <1>1, <1>2, <1>3

LEMMA HeaderEnds ==
  ASSUME ReadInv, pc = "block", queue = <<>>
  PROVE  /\ IsHeader(file, reading.addr, messages) /\ ~BadHeader(file, reading.addr)
         /\ reading.addr \in DOMAIN file.blocks /\ reading.addr \in Nat \ {Undefined}
         /\ NamesDiffer(file) => LinksDiffer(messages)
<1>1. file \in Files /\ Reading(file, reading.addr, <<>>, seen, blocks, messages)
  BY DEF ReadInv, Typed, ReadingInv
<1>2. reading.addr \in Nat \ {Undefined}
  BY <1>1 DEF Reading
<1> QED BY <1>1, <1>2, ReadingEnds

(* The child that is next.                                                 *)
LEMMA TheChild ==
  ASSUME ReadInv, \/ pc = "child" /\ Head(frames).children # <<>>
                  \/ pc = "block" /\ reading.for # "group"
  PROVE  /\ frames # <<>> /\ frames[1].children # <<>> /\ 1 \in DOMAIN frames
         /\ Child = frames[1].children[1] /\ Child \in ToSet(frames[1].children)
         /\ Child \in ChildrenOf(file, frames[1].addr)
         /\ Child \in Entry /\ Child.name \in STRING /\ Child.to \in Nat \ {Undefined}
         /\ ChildPath = Append(frames[1].path, Child.name) /\ ChildPath \in Seq(STRING)
<1>1. file \in Files /\ frames \in Seq(GroupFrame) /\ frames # <<>>
  BY DEF ReadInv, Typed
<1>2. 1 \in DOMAIN frames /\ Head(frames) = frames[1] /\ frames[1].path \in Seq(STRING) /\ frames[1].children \in Seq(Entry)
  BY <1>1, FrameTypes
<1>3. frames[1].children # <<>>
  BY <1>2 DEF ReadInv, ReadingInv
<1>4. Unopened = 0 /\ pc # "failed"
  BY DEF Unopened
<1>5. ToSet(frames[1].children) \subseteq ChildrenOf(file, frames[1].addr)
  BY <1>2, <1>4 DEF ReadInv, OpenedInv, Opened
<1>6. Child = frames[1].children[1] /\ Child \in ToSet(frames[1].children)
  BY <1>2, <1>3, HeadTail DEF Child
<1>7. Child \in Entry /\ Child.name \in STRING /\ Child.to \in Nat \ {Undefined}
  BY <1>1, <1>5, <1>6, ChildrenFacts
<1>8. ChildPath = Append(frames[1].path, Child.name)
  BY <1>2 DEF ChildPath
<1>9. ChildPath \in Seq(STRING)
  BY <1>2, <1>7, <1>8
<1> QED BY <1>1, <1>2, <1>3, <1>5, <1>6, <1>7, <1>8, <1>9

LEMMA EnterKeepsRead ==
  ASSUME ReadInv, Enter
  PROVE  ReadInv'
<1> DEFINE a == Head(frames).addr
<1>1. file \in Files /\ frames \in Seq(GroupFrame) /\ frames # <<>> /\ pc = "enter" /\ index \in Seq(IndexEntry)
  BY DEF ReadInv, Typed, Enter
<1>2. a = frames[1].addr /\ a \in Nat \ {Undefined}
  BY <1>1, FrameTypes
<1>3. ReadHeader(a, "group") /\ file' = file /\ frames' = frames /\ index' = index
  BY DEF Enter
<1>4. Reading(file, a, queue', seen', blocks', messages') /\ reading'.addr = a /\ reading'.for = "group" /\ pc' = "block"
  <2> HIDE DEF a
  <2> QED BY <1>1, <1>2, <1>3, HeaderStarts
<1> HIDE DEF a
<1>5. Typed'
  BY <1>3, <1>4 DEF ReadInv, Typed, Enter
<1>6. ReadingInv'
  BY <1>2, <1>3, <1>4 DEF ReadingInv
<1>7. WalkingInv'
  BY <1>4 DEF WalkingInv
<1>8. OpenedInv'
  <2>1. Unopened = 1 /\ Unopened' = 1
    BY <1>1, <1>4 DEF Unopened
  <2> QED BY <1>1, <1>3, <2>1 DEF ReadInv, OpenedInv
<1>9. OwnInv'
  BY <1>3 DEF ReadInv, OwnInv
<1> QED BY <1>5, <1>6, <1>7, <1>8, <1>9 DEF ReadInv

LEMMA ReadBlockKeepsRead ==
  ASSUME ReadInv, ReadBlock
  PROVE  ReadInv'
<1> DEFINE b == Head(queue)
<1> DEFINE ms == file.blocks[b].messages
<1>1. file \in Files /\ pc = "block" /\ queue # <<>> /\ Reading(file, reading.addr, queue, seen, blocks, messages)
  BY DEF ReadInv, Typed, ReadingInv, ReadBlock
<1>2. blocks < MaxBlocks /\ b \notin seen /\ Readable(file, b) /\ GoesOn(file, b)
  BY DEF ReadBlock, BlockReads, GoesOn
<1>3. /\ queue' = Targets(ms) \o Tail(queue) /\ seen' = seen \cup {b} /\ blocks' = blocks + 1
      /\ messages' = messages \o Framed(ms)
      /\ file' = file /\ pc' = pc /\ reading' = reading /\ dataset' = dataset
      /\ frames' = frames /\ index' = index
  BY DEF ReadBlock, walk
<1>4. Reading(file, reading.addr, queue', seen', blocks', messages')
  BY <1>1, <1>2, <1>3, ReadingSteps
<1>5. Typed'
  BY <1>3 DEF ReadInv, Typed
<1>6. ReadingInv'
  BY <1>3, <1>4 DEF ReadInv, ReadingInv, Child, ChildPath
<1>7. WalkingInv'
  BY <1>1, <1>3 DEF WalkingInv
<1>8. OpenedInv'
  <2>1. Unopened' = Unopened
    BY <1>3 DEF Unopened
  <2> QED BY <1>1, <1>3, <2>1 DEF ReadInv, OpenedInv
<1>9. OwnInv'
  BY <1>3 DEF ReadInv, OwnInv
<1> QED BY <1>5, <1>6, <1>7, <1>8, <1>9 DEF ReadInv

LEMMA OpenKeepsRead ==
  ASSUME ReadInv, pc \in {"block", "node"}, Unopened = 1, IsHeader(file, frames[1].addr, messages),
         NEW STATE ch, ch \in Seq(Entry), ToSet(ch) = ChildrenOf(file, frames[1].addr),
         frames' = Begin(ch), pc' = "child", file' = file, index' = index
  PROVE  /\ ReadInv'
         /\ SameGroups(frames, frames') /\ frames'[1].children = ch
<1> DEFINE at == Attributes(messages)
<1> DEFINE co == AttributesComplete(messages)
<1>1. file \in Files /\ OneOfEach(file) /\ frames \in Seq(GroupFrame) /\ frames # <<>>
  BY DEF ReadInv, Typed
<1>2. Own(file, frames[1].addr, at, co) /\ at \in Seq(STRING) /\ co \in BOOLEAN
  BY <1>1, HeaderOwn
<1>3. frames' = Open(frames, ch, at, co)
  BY DEF Begin, Open
<1> HIDE DEF at, co
<1>4. /\ SameGroups(frames, frames') /\ frames'[1].children = ch
      /\ frames'[1].attributes = at /\ frames'[1].complete = co
  BY <1>1, <1>2, <1>3, OpenFacts
<1>5. /\ frames' \in Seq(GroupFrame) /\ DOMAIN frames' = DOMAIN frames /\ 1 \in DOMAIN frames /\ frames' # <<>>
      /\ \A p \in DOMAIN frames : p # 1 => frames'[p] = frames[p]
      /\ \A p \in DOMAIN frames : p \in Nat /\ p >= 1
  <2>1. 1 \in DOMAIN frames /\ \A p \in DOMAIN frames : p \in Nat /\ p >= 1
    BY <1>1, FrameTypes
  <2> QED BY <1>4, <2>1 DEF SameGroups
<1>6. frames'[1].addr = frames[1].addr
  BY <1>4, <1>5 DEF SameGroups
<1>7. Typed'
  BY <1>5 DEF ReadInv, Typed
<1>8. ReadingInv' /\ WalkingInv'
  BY DEF ReadingInv, WalkingInv
<1>9. OpenedInv'
  <2>1. Opened(file, frames'[1])
    BY <1>2, <1>4, <1>6 DEF Opened
  <2>2. \A p \in DOMAIN frames : p # 1 => Opened(file, frames[p])
    BY <1>5 DEF ReadInv, OpenedInv
  <2>3. \A p \in DOMAIN frames' : Opened(file, frames'[p])
    BY <1>5, <2>1, <2>2
  <2> QED BY <2>3 DEF OpenedInv
<1>10. OwnInv'
  BY DEF ReadInv, OwnInv
<1> QED BY <1>4, <1>7, <1>8, <1>9, <1>10 DEF ReadInv

LEMMA NewStyleKeepsRead ==
  ASSUME ReadInv, NewStyleGroup
  PROVE  ReadInv'
<1>1. /\ pc = "block" /\ queue = <<>> /\ reading.for = "group" /\ ~Has(messages, "table")
      /\ frames' = Begin(Links(messages)) /\ pc' = "child" /\ file' = file /\ index' = index
  BY DEF NewStyleGroup, HeaderRead
<1>2. IsHeader(file, frames[1].addr, messages) /\ file \in Files /\ OneOfEach(file)
  BY <1>1, HeaderEnds DEF ReadInv, ReadingInv, Typed
<1>3. Links(messages) \in Seq(Entry) /\ ToSet(Links(messages)) = ChildrenOf(file, frames[1].addr)
  BY <1>1, <1>2, HeaderLinks
<1>4. Unopened = 1
  BY <1>1 DEF Unopened
<1> QED BY <1>1, <1>2, <1>3, <1>4, OpenKeepsRead

LEMMA OldStyleKeepsRead ==
  ASSUME ReadInv, OldStyleGroup
  PROVE  ReadInv'
<1> DEFINE a == frames[1].addr
<1> DEFINE r == First(messages, "table").to
<1>1. /\ pc = "block" /\ queue = <<>> /\ reading.for = "group" /\ Has(messages, "table")
      /\ First(messages, "table").ok /\ AttributesRead(messages)
      /\ pc' = "node" /\ queue' = <<r>> /\ seen' = {} /\ leaves' = <<>>
      /\ file' = file /\ messages' = messages /\ frames' = frames /\ index' = index
  BY DEF OldStyleGroup, HeaderRead, walk
<1>2. /\ IsHeader(file, a, messages) /\ ~BadHeader(file, a) /\ a \in DOMAIN file.blocks
      /\ file \in Files /\ OneOfEach(file)
  BY <1>1, HeaderEnds DEF ReadInv, ReadingInv, Typed
<1>3. Roots(file, a) = {r} /\ r \in Nat
  BY <1>1, <1>2, HeaderGroup
<1>4. Walking(file, a, r, <<r>>, {}, <<>>)
  BY <1>2, <1>3, WalkingStarts
<1>5. Typed'
  BY <1>1 DEF ReadInv, Typed
<1>6. ReadingInv'
  BY <1>1 DEF ReadingInv
<1>7. WalkingInv'
  BY <1>1, <1>2, <1>4 DEF WalkingInv, Listing
<1>8. OpenedInv'
  <2>1. Unopened' = 1 /\ Unopened = 1
    BY <1>1 DEF Unopened
  <2> QED BY <1>1, <2>1 DEF ReadInv, OpenedInv
<1>9. OwnInv'
  BY <1>1 DEF ReadInv, OwnInv
<1> QED BY <1>5, <1>6, <1>7, <1>8, <1>9 DEF ReadInv

(* The B-tree walk goes on.                                                *)
LEMMA NodesKeepRead ==
  ASSUME ReadInv, pc = "node", pc' = pc,
         Walking(file, frames[1].addr, First(messages, "table").to, queue', seen', leaves'),
         file' = file, messages' = messages, frames' = frames, index' = index
  PROVE  ReadInv'
<1>1. Typed'
  BY DEF ReadInv, Typed
<1>2. ReadingInv'
  BY DEF ReadingInv
<1>3. WalkingInv'
  BY DEF ReadInv, WalkingInv
<1>4. OpenedInv'
  <2>1. Unopened' = 1 /\ Unopened = 1
    BY DEF Unopened
  <2> QED BY <2>1 DEF ReadInv, OpenedInv
<1>5. OwnInv'
  BY DEF ReadInv, OwnInv
<1> QED BY <1>1, <1>2, <1>3, <1>4, <1>5 DEF ReadInv

LEMMA ReadNodeKeepsRead ==
  ASSUME ReadInv, ReadNode
  PROVE  ReadInv'
<1> DEFINE n == Head(queue)
<1> DEFINE node == file.nodes[n]
<1>1. /\ pc = "node" /\ queue # <<>> /\ n \notin seen /\ Cardinality(seen) <= MaxNodes /\ Sound(file, n)
      /\ seen' = seen \cup {n}
      /\ leaves' = IF node.level = 0 THEN leaves \o node.children ELSE leaves
      /\ queue' = (IF node.level = 0 THEN <<>> ELSE Reverse(node.children)) \o Tail(queue)
      /\ file' = file /\ pc' = pc /\ messages' = messages /\ frames' = frames /\ index' = index
  BY DEF ReadNode, NodeReads, Sound, walk
<1>2. file \in Files /\ Walking(file, frames[1].addr, First(messages, "table").to, queue, seen, leaves)
  BY <1>1 DEF ReadInv, Typed, WalkingInv
<1>3. Walking(file, frames[1].addr, First(messages, "table").to, queue', seen', leaves')
  BY <1>1, <1>2, WalkingSteps
<1> QED BY <1>1, <1>3, NodesKeepRead

LEMMA SkipNodeKeepsRead ==
  ASSUME ReadInv, SkipNode
  PROVE  ReadInv'
<1>1. /\ pc = "node" /\ queue # <<>> /\ Head(queue) \in seen
      /\ queue' = Tail(queue) /\ seen' = seen /\ leaves' = leaves
      /\ file' = file /\ pc' = pc /\ messages' = messages /\ frames' = frames /\ index' = index
  BY DEF SkipNode, walk
<1>2. file \in Files /\ Walking(file, frames[1].addr, First(messages, "table").to, queue, seen, leaves)
  BY <1>1 DEF ReadInv, Typed, WalkingInv
<1>3. Walking(file, frames[1].addr, First(messages, "table").to, queue', seen', leaves')
  BY <1>1, <1>2, WalkingSkips
<1> QED BY <1>1, <1>3, NodesKeepRead

(* The symbol table nodes hold the children.                               *)
LEMMA TablesListChildren ==
  ASSUME ReadInv, pc = "node", queue = <<>>, \A i \in DOMAIN leaves : TableReads(file, leaves[i])
  PROVE  /\ Entries(file, leaves) \in Seq(Entry)
         /\ ToSet(Entries(file, leaves)) = ChildrenOf(file, frames[1].addr)
         /\ NamesDiffer(file) => Different(Entries(file, leaves))
<1> DEFINE a == frames[1].addr
<1>1. /\ file \in Files /\ OneOfEach(file) /\ IsHeader(file, a, messages) /\ Has(messages, "table")
      /\ a \in DOMAIN file.blocks
      /\ Walking(file, a, First(messages, "table").to, <<>>, seen, leaves)
  BY DEF ReadInv, Typed, WalkingInv, Listing
<1>2. leaves \in Seq(Nat) /\ ToSet(leaves) = TablesOf(file, a)
  BY <1>1, WalkingEnds
<1>3. MessagesOf(file, a, "table") # {}
  BY <1>1, HeaderGroup
<1>4. NamesDiffer(file) => TablesDiffer(file, leaves)
  BY <1>1 DEF Walking
<1> QED BY <1>1, <1>2, <1>3, <1>4, TableEntries

LEMMA ReadTablesKeepsRead ==
  ASSUME ReadInv, ReadTables
  PROVE  ReadInv'
<1>1. /\ pc = "node" /\ queue = <<>> /\ \A i \in DOMAIN leaves : TableReads(file, leaves[i])
      /\ frames' = Begin(Entries(file, leaves)) /\ pc' = "child" /\ file' = file /\ index' = index
  BY DEF ReadTables
<1>2. /\ Entries(file, leaves) \in Seq(Entry)
      /\ ToSet(Entries(file, leaves)) = ChildrenOf(file, frames[1].addr)
  BY <1>1, TablesListChildren
<1>3. IsHeader(file, frames[1].addr, messages)
  BY <1>1 DEF ReadInv, WalkingInv, Listing
<1>4. Unopened = 1
  BY <1>1 DEF Unopened
<1> QED BY <1>1, <1>2, <1>3, <1>4, OpenKeepsRead

LEMMA NextChildKeepsRead ==
  ASSUME ReadInv, NextChild
  PROVE  ReadInv'
<1>1. /\ pc = "child" /\ Head(frames).children # <<>> /\ ReadHeader(Child.to, "child")
      /\ file' = file /\ frames' = frames /\ index' = index
  BY DEF NextChild, walk
<1>2. file \in Files /\ Child.to \in Nat \ {Undefined} /\ frames[1].children # <<>>
  BY <1>1, TheChild DEF ReadInv, Typed
<1>3. /\ Reading(file, Child.to, queue', seen', blocks', messages')
      /\ reading'.addr = Child.to /\ reading'.for = "child" /\ pc' = "block"
  <2> DEFINE a == Child.to
  <2>1. a \in Nat \ {Undefined} /\ ReadHeader(a, "child")
    BY <1>1, <1>2
  <2> HIDE DEF a
  <2>2. /\ Reading(file, a, queue', seen', blocks', messages')
        /\ reading'.addr = a /\ reading'.for = "child" /\ pc' = "block"
    BY <1>2, <2>1, HeaderStarts
  <2> QED BY <2>2 DEF a
<1>4. Child' = Child
  BY <1>1 DEF Child
<1>5. Typed'
  BY <1>1, <1>3 DEF ReadInv, Typed
<1>6. ReadingInv'
  BY <1>1, <1>2, <1>3, <1>4 DEF ReadingInv
<1>7. WalkingInv'
  BY <1>3 DEF WalkingInv
<1>8. OpenedInv'
  <2>1. Unopened' = 0 /\ Unopened = 0
    BY <1>1, <1>3 DEF Unopened
  <2> QED BY <1>1, <2>1 DEF ReadInv, OpenedInv
<1>9. OwnInv'
  BY <1>1 DEF ReadInv, OwnInv
<1> QED BY <1>5, <1>6, <1>7, <1>8, <1>9 DEF ReadInv

(* A child is finished, with or without an entry.                          *)
LEMMA ChildKeepsRead ==
  ASSUME ReadInv, pc = "block", reading.for # "group", frames' = ChildDone, pc' = "child", file' = file,
         \/ index' = index
         \/ \E d \in IndexEntry : index' = Append(index, d) /\ IsOwn(file, d)
  PROVE  ReadInv'
<1>1. file \in Files /\ frames \in Seq(GroupFrame) /\ index \in Seq(IndexEntry)
  BY DEF ReadInv, Typed
<1>2. frames # <<>> /\ frames[1].children # <<>> /\ 1 \in DOMAIN frames
  BY TheChild
<1>3. frames' = Done(frames)
  BY DEF ChildDone, Done
<1>4. /\ SameGroups(frames, frames') /\ frames'[1].children = Tail(frames[1].children)
      /\ frames'[1].attributes = frames[1].attributes /\ frames'[1].complete = frames[1].complete
  BY <1>1, <1>2, <1>3, DoneFacts
<1>5. /\ frames' \in Seq(GroupFrame) /\ DOMAIN frames' = DOMAIN frames /\ frames' # <<>>
      /\ \A p \in DOMAIN frames : p # 1 => frames'[p] = frames[p]
      /\ frames'[1].addr = frames[1].addr
  BY <1>2, <1>4 DEF SameGroups
<1>6. \A p \in DOMAIN frames : Opened(file, frames[p]) /\ p \in Nat /\ p > 0
  <2>1. Unopened = 0 /\ \A p \in DOMAIN frames : p \in Nat /\ p > 0
    BY <1>1 DEF Unopened
  <2> QED BY <2>1 DEF ReadInv, OpenedInv
<1>7. index' \in Seq(IndexEntry) /\ OwnInv'
  <2>1. CASE index' = index
    BY <1>1, <2>1 DEF ReadInv, OwnInv
  <2>2. ASSUME NEW d \in IndexEntry, index' = Append(index, d), IsOwn(file, d)
        PROVE  index' \in Seq(IndexEntry) /\ OwnInv'
    <3>1. /\ index' \in Seq(IndexEntry)
          /\ \A i \in DOMAIN index : index'[i] = index[i]
          /\ \A i \in DOMAIN index' : i \in DOMAIN index \/ index'[i] = d
      BY <1>1, <2>2, AppendFacts
    <3> QED BY <2>2, <3>1 DEF ReadInv, OwnInv
  <2> QED BY <2>1, <2>2
<1>8. Typed'
  BY <1>5, <1>7 DEF ReadInv, Typed
<1>9. ReadingInv' /\ WalkingInv'
  BY DEF ReadingInv, WalkingInv
<1>10. OpenedInv'
  <2>1. Opened(file, frames'[1])
    <3>1. frames[1].children \in Seq(Entry)
      BY <1>1, <1>2, FrameTypes
    <3>2. ToSet(frames'[1].children) \subseteq ToSet(frames[1].children)
      BY <1>2, <1>4, <3>1, HeadTail
    <3> QED BY <1>2, <1>4, <1>5, <1>6, <3>2 DEF Opened
  <2>2. \A p \in DOMAIN frames' : Opened(file, frames'[p])
    BY <1>5, <1>6, <2>1
  <2> QED BY <2>2 DEF OpenedInv
<1> QED BY <1>7, <1>8, <1>9, <1>10 DEF ReadInv

(* The entry of a dataset.                                                 *)
LEMMA DatasetFacts ==
  ASSUME ReadInv, HeaderRead("child"), NEW STATE type, type \in Nat
  PROVE  /\ Dataset(type) \in IndexEntry /\ Dataset(type).kind = "dataset" /\ Dataset(type).type = type
         /\ Dataset(type).addr = Child.to /\ Dataset(type).path = ChildPath
         /\ Own(file, Child.to, Dataset(type).attributes, Dataset(type).complete)
<1>1. pc = "block" /\ queue = <<>> /\ reading.for = "child"
  BY DEF HeaderRead
<1>2. reading.addr = Child.to /\ IsHeader(file, reading.addr, messages) /\ file \in Files /\ OneOfEach(file)
  BY <1>1, HeaderEnds DEF ReadInv, ReadingInv, Typed
<1>3. ChildPath \in Seq(STRING) /\ Child.to \in Nat \ {Undefined}
  BY <1>1, TheChild
<1>4. /\ Own(file, Child.to, Attributes(messages), AttributesComplete(messages))
      /\ Attributes(messages) \in Seq(STRING) /\ AttributesComplete(messages) \in BOOLEAN
  BY <1>2, HeaderOwn
<1>5. Dataset(type) = [kind |-> "dataset", path |-> ChildPath, addr |-> Child.to, type |-> type,
                       attributes |-> Attributes(messages), complete |-> AttributesComplete(messages)]
  BY <1>2 DEF Dataset
<1> QED BY <1>3, <1>4, <1>5 DEF IndexEntry

(* The end of a chain of datatypes.                                        *)
LEMMA ChainResolves ==
  ASSUME NEW f \in Files, NEW a \in Nat, NEW h \in 0 .. MaxHops, NEW b, b = TypeChain(f, a)[h], Shared(f, b) = {}
  PROVE  b = TypeChain(f, a)[MaxHops] /\ \A m \in MessagesOf(f, b, "datatype") : m.to = Undefined
<1>1. MaxHops \in h .. MaxHops
  BY BoundsAssumption
<1>2. \A n \in h .. MaxHops : TypeChain(f, a)[n] = TypeChain(f, a)[h]
  BY ChainEnds
<1> QED BY <1>1, <1>2 DEF Shared

LEMMA DatasetChildKeepsRead ==
  ASSUME ReadInv, DatasetChild
  PROVE  ReadInv'
<1> DEFINE a == reading.addr
<1> DEFINE d == Dataset(a)
<1>1. /\ HeaderRead("child") /\ DatasetReads(messages) /\ First(messages, "datatype").to = Undefined
      /\ index' = Append(index, d) /\ frames' = ChildDone /\ pc' = "child" /\ file' = file
  BY DEF DatasetChild
<1>2. pc = "block" /\ queue = <<>> /\ reading.for = "child"
  BY <1>1 DEF HeaderRead
<1>3. /\ a = Child.to /\ IsHeader(file, a, messages) /\ file \in Files /\ OneOfEach(file)
      /\ a \in Nat \ {Undefined}
  BY <1>2, HeaderEnds DEF ReadInv, ReadingInv, Typed
<1>4. /\ d \in IndexEntry /\ d.kind = "dataset" /\ d.type = a /\ d.addr = a
      /\ Own(file, a, d.attributes, d.complete)
  BY <1>1, <1>3, DatasetFacts
<1>5. Shared(file, a) = {}
  BY <1>1, <1>3, HeaderType DEF DatasetReads
<1>6. TypeChain(file, a)[0] = a /\ 0 \in 0 .. MaxHops
  BY <1>3, ChainFacts, BoundsAssumption
<1>7. a = TypeChain(file, a)[MaxHops] /\ \A m \in MessagesOf(file, a, "datatype") : m.to = Undefined
  <2> HIDE DEF a
  <2> QED BY <1>3, <1>5, <1>6, ChainResolves
<1>8. IsOwn(file, d)
  <2> HIDE DEF d, a
  <2> QED BY <1>4, <1>7 DEF IsOwn, Resolves
<1> HIDE DEF d
<1> QED BY <1>1, <1>2, <1>4, <1>8, ChildKeepsRead

LEMMA CommittedKeepsRead ==
  ASSUME ReadInv, CommittedDatatype
  PROVE  ReadInv'
<1>1. pc = "block" /\ reading.for = "child" /\ frames' = ChildDone /\ pc' = "child" /\ file' = file /\ index' = index
  BY DEF CommittedDatatype, HeaderRead
<1> QED BY <1>1, ChildKeepsRead

(* The next datatype of a chain.                                           *)
LEMMA ChainGoesOn ==
  ASSUME NEW f \in Files, NEW a \in Nat, NEW h \in 0 .. MaxHops - 1
  PROVE  TypeChain(f, a)[h + 1] = Hop(f, TypeChain(f, a)[h])
BY ChainFacts

(* The header of a datatype is read next.                                  *)
LEMMA FollowKeepsRead ==
  ASSUME ReadInv, pc = "block", reading.for # "group", NEW STATE a, a \in Nat \ {Undefined}, ReadHeader(a, "type"),
         dataset' = <<dataset'[1], dataset'[2]>>, Following(file, dataset'[1], dataset'[2], a),
         dataset'[1].addr = Child.to, dataset'[1].path = ChildPath,
         file' = file, frames' = frames, index' = index
  PROVE  ReadInv'
<1>1. file \in Files /\ frames[1].children # <<>>
  BY TheChild DEF ReadInv, Typed
<1>2. /\ Reading(file, a, queue', seen', blocks', messages')
      /\ reading'.addr = a /\ reading'.for = "type" /\ pc' = "block"
  BY <1>1, HeaderStarts
<1>3. Child' = Child /\ ChildPath' = ChildPath
  BY DEF Child, ChildPath
<1>4. Typed'
  BY <1>2 DEF ReadInv, Typed
<1>5. ReadingInv'
  BY <1>1, <1>2, <1>3 DEF ReadingInv
<1>6. WalkingInv'
  BY <1>2 DEF WalkingInv
<1>7. OpenedInv'
  <2>1. Unopened' = 0 /\ Unopened = 0
    BY <1>2 DEF Unopened
  <2> QED BY <1>2, <2>1 DEF ReadInv, OpenedInv
<1>8. OwnInv'
  BY DEF ReadInv, OwnInv
<1> QED BY <1>4, <1>5, <1>6, <1>7, <1>8 DEF ReadInv

LEMMA SharedKeepsRead ==
  ASSUME ReadInv, SharedDatatype
  PROVE  ReadInv'
<1> DEFINE a == reading.addr
<1> DEFINE d == Dataset(Undefined)
<1> DEFINE b == First(messages, "datatype").to
<1>1. /\ HeaderRead("child") /\ IsDataset(messages) /\ DatasetReads(messages) /\ b # Undefined
      /\ dataset' = <<d, 1>> /\ ReadHeader(b, "type") /\ file' = file /\ frames' = frames /\ index' = index
  BY DEF SharedDatatype, walk
<1>2. pc = "block" /\ queue = <<>> /\ reading.for = "child"
  BY <1>1 DEF HeaderRead
<1>3. /\ a = Child.to /\ IsHeader(file, a, messages) /\ ~BadHeader(file, a) /\ file \in Files /\ OneOfEach(file)
      /\ a \in Nat \ {Undefined}
  BY <1>2, HeaderEnds DEF ReadInv, ReadingInv, Typed
<1>4. Undefined \in Nat
  BY DEF Undefined
<1>5. /\ d \in IndexEntry /\ d.kind = "dataset" /\ d.addr = a /\ d.path = ChildPath
      /\ Own(file, a, d.attributes, d.complete)
  BY <1>1, <1>3, <1>4, DatasetFacts
<1>6. b \in Nat \ {Undefined} /\ Hop(file, a) = b
  BY <1>1, <1>3, HeaderType DEF DatasetReads
<1>7. KindOf(file, a) = "dataset"
  BY <1>1, <1>3, HeaderKinds
<1>8. /\ ~BadMessage(file, a, Parts) /\ ~BadMessage(file, a, {"datatype"})
      /\ MessagesOf(file, a, "datatype") # {}
  BY <1>1, <1>3, HeaderDataset
<1>9. ~BadType(file, a)
  BY <1>3, <1>8 DEF BadType
<1>10. TypeChain(file, a)[0] = a /\ 0 \in 0 .. MaxHops - 1 /\ 1 \in 1 .. MaxHops
  BY <1>3, ChainFacts, BoundsAssumption
<1> HIDE DEF a, d, b
<1>11. TypeChain(file, a)[0 + 1] = b
  BY <1>3, <1>6, <1>10, ChainGoesOn
<1>12. Following(file, d, 1, b)
  <2>1. \A n \in 0 .. 1 - 1 : n = 0
    OBVIOUS
  <2>2. \A n \in 0 .. 1 - 1 : ~BadType(file, TypeChain(file, a)[n])
    BY <1>9, <1>10, <2>1
  <2>3. b = TypeChain(file, a)[1]
    BY <1>11
  <2> QED BY <1>3, <1>5, <1>7, <1>8, <1>10, <2>2, <2>3 DEF Following
<1>13. dataset'[1] = d /\ dataset'[2] = 1 /\ dataset' = <<dataset'[1], dataset'[2]>>
  BY <1>1
<1>14. /\ Following(file, dataset'[1], dataset'[2], b)
       /\ dataset'[1].addr = Child.to /\ dataset'[1].path = ChildPath
  BY <1>3, <1>5, <1>12, <1>13
<1>15. reading.for # "group" /\ ReadHeader(b, "type")
  BY <1>1, <1>2
<1> QED BY <1>1, <1>2, <1>6, <1>13, <1>14, <1>15, FollowKeepsRead

(* The header of a datatype was read.                                      *)
LEMMA TypeContext ==
  ASSUME ReadInv, HeaderRead("type")
  PROVE  /\ pc = "block" /\ queue = <<>> /\ reading.for = "type" /\ file \in Files /\ OneOfEach(file)
         /\ IsHeader(file, reading.addr, messages) /\ ~BadHeader(file, reading.addr) /\ reading.addr \in Nat \ {Undefined}
         /\ dataset = <<dataset[1], dataset[2]>>
         /\ Following(file, dataset[1], dataset[2], reading.addr)
         /\ dataset[1].addr = Child.to /\ dataset[1].path = ChildPath
         /\ dataset[1].addr \in Nat \ {Undefined}
<1>1. pc = "block" /\ queue = <<>> /\ reading.for = "type"
  BY DEF HeaderRead
<1>2. Child.to \in Nat \ {Undefined}
  BY <1>1, TheChild
<1> QED BY <1>1, <1>2, HeaderEnds DEF ReadInv, ReadingInv, Typed

LEMMA FoundKeepsRead ==
  ASSUME ReadInv, DatatypeFound
  PROVE  ReadInv'
<1> DEFINE b == reading.addr
<1> DEFINE c == dataset[1]
<1> DEFINE d == [c EXCEPT !.type = b]
<1>1. /\ HeaderRead("type") /\ TypeReads(messages) /\ First(messages, "datatype").to = Undefined
      /\ index' = Append(index, d) /\ frames' = ChildDone /\ pc' = "child" /\ file' = file
  BY DEF DatatypeFound
<1>2. /\ pc = "block" /\ reading.for = "type" /\ file \in Files /\ OneOfEach(file) /\ IsHeader(file, b, messages)
      /\ b \in Nat \ {Undefined} /\ Following(file, c, dataset[2], b) /\ c.addr \in Nat \ {Undefined}
  BY <1>1, TypeContext
<1> HIDE DEF c, b
<1>3. /\ c \in IndexEntry /\ c.kind = "dataset" /\ Own(file, c.addr, c.attributes, c.complete)
      /\ dataset[2] \in 1 .. MaxHops /\ b = TypeChain(file, c.addr)[dataset[2]]
  BY <1>2 DEF Following
<1>4. Shared(file, b) = {}
  BY <1>1, <1>2, HeaderType DEF TypeReads
<1>5. b = TypeChain(file, c.addr)[MaxHops] /\ \A m \in MessagesOf(file, b, "datatype") : m.to = Undefined
  <2>1. dataset[2] \in 0 .. MaxHops /\ c.addr \in Nat
    BY <1>2, <1>3
  <2> QED BY <1>2, <1>3, <1>4, <2>1, ChainResolves
<1>6. /\ d \in IndexEntry /\ d.type = b /\ d.addr = c.addr /\ d.attributes = c.attributes /\ d.complete = c.complete
  BY <1>2, <1>3 DEF IndexEntry
<1> HIDE DEF d
<1>7. IsOwn(file, d)
  BY <1>3, <1>5, <1>6 DEF IsOwn, Resolves
<1>8. reading.for # "group"
  BY <1>2
<1> QED BY <1>1, <1>2, <1>6, <1>7, <1>8, ChildKeepsRead

LEMMA NextDatatypeKeepsRead ==
  ASSUME ReadInv, NextDatatype
  PROVE  ReadInv'
<1> DEFINE a == reading.addr
<1> DEFINE d == dataset[1]
<1> DEFINE h == dataset[2]
<1> DEFINE b == First(messages, "datatype").to
<1>1. /\ HeaderRead("type") /\ TypeReads(messages) /\ b # Undefined /\ h < MaxHops
      /\ dataset' = [dataset EXCEPT ![2] = @ + 1] /\ ReadHeader(b, "type")
      /\ file' = file /\ frames' = frames /\ index' = index
  BY DEF NextDatatype, walk
<1>2. /\ pc = "block" /\ reading.for = "type" /\ file \in Files /\ OneOfEach(file) /\ IsHeader(file, a, messages)
      /\ ~BadHeader(file, a) /\ a \in Nat \ {Undefined} /\ Following(file, d, h, a) /\ d.addr \in Nat \ {Undefined}
      /\ d.addr = Child.to /\ d.path = ChildPath /\ dataset = <<d, h>>
  BY <1>1, TypeContext
<1>3. b \in Nat \ {Undefined} /\ Hop(file, a) = b
  BY <1>1, <1>2, HeaderType DEF TypeReads
<1>4. ~BadType(file, a)
  BY <1>1, <1>2, HeaderType DEF BadType
<1>5. dataset' = <<d, h + 1>>
  BY <1>1, <1>2
<1> HIDE DEF a, b, d, h
<1>6. /\ h \in 1 .. MaxHops /\ a = TypeChain(file, d.addr)[h]
      /\ \A n \in 0 .. h - 1 : ~BadType(file, TypeChain(file, d.addr)[n])
  BY <1>2 DEF Following
<1>7. h \in 0 .. MaxHops - 1 /\ h + 1 \in 1 .. MaxHops /\ \A n \in 0 .. (h + 1) - 1 : n = h \/ n \in 0 .. h - 1
  BY <1>1, <1>6, BoundsAssumption
<1>8. TypeChain(file, d.addr)[h + 1] = b
  <2>1. d.addr \in Nat
    BY <1>2
  <2> QED BY <1>2, <1>3, <1>6, <1>7, <2>1, ChainGoesOn
<1>9. \A n \in 0 .. (h + 1) - 1 : ~BadType(file, TypeChain(file, d.addr)[n])
  BY <1>4, <1>6, <1>7
<1>10. Following(file, d, h + 1, b)
  BY <1>2, <1>7, <1>8, <1>9 DEF Following
<1>11. dataset'[1] = d /\ dataset'[2] = h + 1 /\ dataset' = <<dataset'[1], dataset'[2]>>
  BY <1>5
<1>12. /\ Following(file, dataset'[1], dataset'[2], b)
       /\ dataset'[1].addr = Child.to /\ dataset'[1].path = ChildPath
  BY <1>2, <1>10, <1>11
<1>13. reading.for # "group" /\ ReadHeader(b, "type")
  BY <1>1, <1>2
<1> QED BY <1>1, <1>2, <1>3, <1>11, <1>12, <1>13, FollowKeepsRead

LEMMA GroupChildKeepsRead ==
  ASSUME ReadInv, GroupChild
  PROVE  ReadInv'
<1> DEFINE x == Frame(reading.addr, ChildPath)
<1> DEFINE G == Done(frames)
<1>1. /\ HeaderRead("child") /\ frames' = <<x>> \o G /\ pc' = "enter" /\ file' = file /\ index' = index
  BY DEF GroupChild, ChildDone, Done
<1>2. pc = "block" /\ queue = <<>> /\ reading.for = "child"
  BY <1>1 DEF HeaderRead
<1>3. frames # <<>> /\ frames[1].children # <<>> /\ ChildPath \in Seq(STRING) /\ frames \in Seq(GroupFrame)
  BY <1>2, TheChild DEF ReadInv, Typed
<1>4. reading.addr \in Nat \ {Undefined}
  BY <1>2, HeaderEnds
<1>5. x \in GroupFrame
  <2>1. x = [addr |-> reading.addr, path |-> ChildPath, children |-> <<>>, attributes |-> <<>>, complete |-> TRUE]
    BY DEF Frame
  <2>2. <<>> \in Seq(Entry) /\ <<>> \in Seq(STRING) /\ TRUE \in BOOLEAN
    OBVIOUS
  <2> HIDE DEF x
  <2> QED BY <1>3, <1>4, <2>1, <2>2 DEF GroupFrame
<1>6. SameGroups(frames, G)
  BY <1>3, DoneFacts
<1>7. /\ Done(frames)[1].children = Tail(frames[1].children)
      /\ Done(frames)[1].attributes = frames[1].attributes /\ Done(frames)[1].complete = frames[1].complete
  BY <1>3, DoneFacts
<1> HIDE DEF x
<1>8. \A p \in DOMAIN frames : Opened(file, frames[p]) /\ p \in Nat /\ p > 0
  <2>1. Unopened = 0 /\ \A p \in DOMAIN frames : p \in Nat /\ p > 0
    BY <1>2, <1>3 DEF Unopened
  <2> QED BY <1>2, <2>1 DEF ReadInv, OpenedInv
<1>9. Opened(file, G[1])
  <2>1. frames[1].children \in Seq(Entry) /\ 1 \in DOMAIN frames
    BY <1>3, FrameTypes
  <2>2. ToSet(G[1].children) \subseteq ToSet(frames[1].children)
    BY <1>3, <1>7, <2>1, HeadTail
  <2> QED BY <1>6, <1>7, <1>8, <2>1, <2>2 DEF Opened, SameGroups
<1> HIDE DEF G
<1>10. \A p \in DOMAIN G : Opened(file, G[p])
  BY <1>6, <1>8, <1>9 DEF SameGroups
<1>11. G \in Seq(GroupFrame)
  BY <1>6 DEF SameGroups
<1>12. /\ frames' \in Seq(GroupFrame) /\ frames' # <<>>
       /\ \A p \in DOMAIN frames' : p = 1 \/ (p - 1 \in DOMAIN G /\ frames'[p] = G[p - 1])
  BY <1>1, <1>5, <1>11, PushFacts
<1>13. Typed'
  BY <1>1, <1>12 DEF ReadInv, Typed
<1>14. ReadingInv' /\ WalkingInv'
  BY <1>1 DEF ReadingInv, WalkingInv
<1>15. OpenedInv'
  <2>1. Unopened' = 1
    BY <1>1 DEF Unopened
  <2>2. \A p \in DOMAIN frames' : p > 1 => Opened(file, frames'[p])
    BY <1>10, <1>12
  <2> QED BY <1>1, <2>1, <2>2 DEF OpenedInv
<1>16. OwnInv'
  BY <1>1 DEF ReadInv, OwnInv
<1> QED BY <1>13, <1>14, <1>15, <1>16 DEF ReadInv

LEMMA EndGroupKeepsRead ==
  ASSUME ReadInv, EndGroup
  PROVE  /\ ReadInv'
         /\ \E d \in IndexEntry : /\ index' = Append(index, d) /\ d.kind = "group"
                                  /\ d.path = frames[1].path /\ d.addr = frames[1].addr
<1> DEFINE g == frames[1]
<1> DEFINE d == [kind |-> "group", path |-> g.path, addr |-> g.addr, type |-> Undefined,
                 attributes |-> g.attributes, complete |-> g.complete]
<1>1. frames \in Seq(GroupFrame) /\ frames # <<>> /\ index \in Seq(IndexEntry) /\ pc = "child"
  BY DEF ReadInv, Typed, EndGroup
<1>2. 1 \in DOMAIN frames /\ Head(frames) = g /\ g \in GroupFrame
  BY <1>1, FrameTypes
<1>3. /\ index' = Append(index, d) /\ frames' = Tail(frames) /\ file' = file
      /\ pc' = IF Len(frames) = 1 THEN "done" ELSE "child"
  BY <1>2 DEF EndGroup
<1>4. \A p \in DOMAIN frames : Opened(file, frames[p]) /\ p \in Nat /\ p > 0
  <2>1. Unopened = 0 /\ \A p \in DOMAIN frames : p \in Nat /\ p > 0
    BY <1>1 DEF Unopened
  <2> QED BY <1>1, <2>1 DEF ReadInv, OpenedInv
<1>5. d \in IndexEntry /\ d.kind = "group" /\ d.path = g.path /\ d.addr = g.addr
  BY <1>2 DEF IndexEntry, GroupFrame, Undefined
<1>6. IsOwn(file, d)
  BY <1>2, <1>4 DEF IsOwn, Opened
<1> HIDE DEF d
<1>7. /\ index' \in Seq(IndexEntry)
      /\ \A i \in DOMAIN index : index'[i] = index[i]
      /\ \A i \in DOMAIN index' : i \in DOMAIN index \/ index'[i] = d
  BY <1>1, <1>3, <1>5, AppendFacts
<1>8. OwnInv'
  BY <1>3, <1>6, <1>7 DEF ReadInv, OwnInv
<1>9. /\ frames' \in Seq(GroupFrame) /\ Len(frames') = Len(frames) - 1
      /\ \A p \in DOMAIN frames' : p + 1 \in DOMAIN frames /\ frames'[p] = frames[p + 1]
  BY <1>1, <1>3, PopFacts
<1>10. pc' = "child" => frames' # <<>>
  <2>1. Len(frames) \in Nat /\ Len(frames) >= 1
    BY <1>1, FrameTypes
  <2> QED BY <1>3, <1>9, <2>1
<1>11. Typed'
  BY <1>3, <1>7, <1>9, <1>10 DEF ReadInv, Typed
<1>12. ReadingInv' /\ WalkingInv'
  BY <1>3 DEF ReadingInv, WalkingInv
<1>13. OpenedInv'
  <2>1. \A p \in DOMAIN frames' : Opened(file, frames'[p])
    BY <1>4, <1>9
  <2> QED BY <1>3, <2>1 DEF OpenedInv
<1> QED BY <1>3, <1>5, <1>8, <1>11, <1>12, <1>13 DEF ReadInv

--------------------------------------------------------------------------------
(* The first theorem.                                                      *)

LEMMA ReadStarts ==
  ASSUME Init, OneOfEach(file)
  PROVE  ReadInv
<1> DEFINE x == Frame(file.root, <<>>)
<1>1. file \in Files /\ pc = "enter" /\ frames = <<x>> /\ index = <<>>
  BY DEF Init
<1>2. file.root \in Nat \ {Undefined}
  BY <1>1, FilesAssumption DEF IsFile
<1>3. x \in GroupFrame
  <2>1. x = [addr |-> file.root, path |-> <<>>, children |-> <<>>, attributes |-> <<>>, complete |-> TRUE]
    BY DEF Frame
  <2>2. <<>> \in Seq(Entry) /\ <<>> \in Seq(STRING) /\ TRUE \in BOOLEAN
    OBVIOUS
  <2> HIDE DEF x
  <2> QED BY <1>2, <2>1, <2>2 DEF GroupFrame
<1> HIDE DEF x
<1>4. frames \in Seq(GroupFrame) /\ frames # <<>> /\ DOMAIN frames = {1} /\ index \in Seq(IndexEntry)
  BY <1>1, <1>3
<1>5. Typed
  BY <1>1, <1>4 DEF Typed
<1>6. ReadingInv /\ WalkingInv
  BY <1>1 DEF ReadingInv, WalkingInv
<1>7. OpenedInv
  <2>1. Unopened = 1
    BY <1>1 DEF Unopened
  <2> QED BY <1>4, <2>1 DEF OpenedInv
<1>8. OwnInv
  BY <1>1 DEF OwnInv
<1> QED BY <1>5, <1>6, <1>7, <1>8 DEF ReadInv

LEMMA ReadStutters ==
  ASSUME ReadInv, UNCHANGED vars
  PROVE  ReadInv'
BY DEF ReadInv, vars, Typed, ReadingInv, WalkingInv, OpenedInv, OwnInv, Unopened, Child, ChildPath

LEMMA ReadSteps ==
  ASSUME ReadInv, [Next]_vars
  PROVE  ReadInv'
<1>1. CASE Enter
  BY <1>1, EnterKeepsRead
<1>2. CASE ReadBlock
  BY <1>2, ReadBlockKeepsRead
<1>3. CASE NewStyleGroup
  BY <1>3, NewStyleKeepsRead
<1>4. CASE OldStyleGroup
  BY <1>4, OldStyleKeepsRead
<1>5. CASE ReadNode
  BY <1>5, ReadNodeKeepsRead
<1>6. CASE SkipNode
  BY <1>6, SkipNodeKeepsRead
<1>7. CASE ReadTables
  BY <1>7, ReadTablesKeepsRead
<1>8. CASE NextChild
  BY <1>8, NextChildKeepsRead
<1>9. CASE DatasetChild
  BY <1>9, DatasetChildKeepsRead
<1>10. CASE SharedDatatype
  BY <1>10, SharedKeepsRead
<1>11. CASE DatatypeFound
  BY <1>11, FoundKeepsRead
<1>12. CASE NextDatatype
  BY <1>12, NextDatatypeKeepsRead
<1>13. CASE CommittedDatatype
  BY <1>13, CommittedKeepsRead
<1>14. CASE GroupChild
  BY <1>14, GroupChildKeepsRead
<1>15. CASE EndGroup
  BY <1>15, EndGroupKeepsRead
<1>16. CASE EnterFails \/ BlockFails \/ GroupFails \/ TableFails \/ DatasetFails
  <2>1. Fail
    BY <1>16 DEF EnterFails, BlockFails, GroupFails, TableFails, DatasetFails
  <2> QED BY <2>1, FailKeepsRead
<1>17. CASE UNCHANGED vars
  BY <1>17, ReadStutters
<1> QED BY <1>1, <1>2, <1>3, <1>4, <1>5, <1>6, <1>7, <1>8, <1>9, <1>10, <1>11, <1>12, <1>13, <1>14,
           <1>15, <1>16, <1>17 DEF Next

LEMMA ReadImplies ==
  ASSUME ReadInv
  PROVE  EntriesAreOwn
<1>1. \A i \in DOMAIN index : IsOwn(file, index[i])
  BY DEF ReadInv, OwnInv
<1>2. AttributesAreOwn
  BY <1>1 DEF AttributesAreOwn, IsOwn, Own
<1>3. CompleteMeansAll
  BY <1>1 DEF CompleteMeansAll, IsOwn, Own
<1>4. TypesResolve
  BY <1>1 DEF TypesResolve, IsOwn, Resolves
<1> QED BY <1>2, <1>3, <1>4 DEF EntriesAreOwn

(* In a file whose objects have one message of a kind, as the format asks, *)
(* every entry of the index, at every moment of the walk and whatever else *)
(* is wrong with the file, has the attributes and the datatype of its own  *)
(* object header (build_group() and build_dataset(), index.rs:550-746).    *)
THEOREM EntriesAreTheirOwn == Spec /\ OneOfEach(file) => []EntriesAreOwn
<1>1. Init /\ OneOfEach(file) => ReadInv
  BY ReadStarts
<1>2. ReadInv /\ [Next]_vars => ReadInv'
  BY ReadSteps
<1>3. ReadInv => EntriesAreOwn
  BY ReadImplies
<1> QED BY <1>1, <1>2, <1>3, PTL DEF Spec

--------------------------------------------------------------------------------
(* What the steps do to the walk.                                          *)

LEMMA FrontAppend ==
  ASSUME NEW v \in Seq(STRING), NEW s \in STRING
  PROVE  Front(Append(v, s)) = v
<1> DEFINE q == Append(v, s)
<1> DEFINE n == Len(v)
<1>1. n \in Nat /\ q \in Seq(STRING) /\ Len(q) = n + 1 /\ \A i \in 1 .. n : q[i] = v[i]
  <2>1. n \in Nat
    OBVIOUS
  <2>2. q \in Seq(STRING) /\ Len(q) = n + 1
    BY AppendProperties
  <2>3. ASSUME NEW T, NEW w \in Seq(T), NEW x \in T
        PROVE  \A i \in 1 .. Len(w) : Append(w, x)[i] = w[i]
    OBVIOUS
  <2>4. \A i \in 1 .. n : q[i] = v[i]
    BY <2>3, Zenon
  <2> QED BY <2>1, <2>2, <2>4
<1>2. Front(q) = SubSeq(q, 1, n)
  <2>1. Len(q) - 1 = n
    BY <1>1
  <2> HIDE DEF q, n
  <2> QED BY <2>1 DEF Front
<1> HIDE DEF q
<1>3. SubSeq(q, 1, n) = [i \in 1 .. n |-> q[i]]
  BY <1>1
<1>4. v = [i \in 1 .. n |-> v[i]]
  OBVIOUS
<1>5. [i \in 1 .. n |-> q[i]] = [i \in 1 .. n |-> v[i]]
  BY <1>1
<1> QED BY <1>2, <1>3, <1>4, <1>5 DEF q

LEMMA PathFacts ==
  ASSUME NEW v \in Seq(STRING), NEW s \in STRING
  PROVE  /\ Append(v, s) \in Seq(STRING) /\ Append(v, s) # <<>> /\ Len(Append(v, s)) = Len(v) + 1
         /\ Front(Append(v, s)) = v
         /\ \A w \in Seq(STRING), t \in STRING : Append(v, s) = Append(w, t) => v = w /\ s = t
<1>1. Append(v, s) \in Seq(STRING) /\ Append(v, s) # <<>> /\ Len(Append(v, s)) = Len(v) + 1
  BY AppendProperties
<1>2. Front(Append(v, s)) = v
  BY FrontAppend
<1>3. ASSUME NEW w \in Seq(STRING), NEW t \in STRING, Append(v, s) = Append(w, t)
      PROVE  v = w /\ s = t
  <2>1. Front(Append(w, t)) = w
    BY FrontAppend
  <2>2. Len(v) = Len(w)
    BY <1>2, <1>3, <2>1
  <2>3. Append(v, s)[Len(v) + 1] = s /\ Append(w, t)[Len(w) + 1] = t
    BY AppendProperties
  <2> QED BY <1>2, <1>3, <2>1, <2>2, <2>3
<1> QED BY <1>1, <1>2, <1>3

LEMMA SamePath ==
  ASSUME NEW v \in Seq(STRING), NEW s \in STRING, NEW w \in Seq(STRING), NEW t \in STRING,
         Append(v, s) = Append(w, t)
  PROVE  v = w /\ s = t
<1>1. \A x \in Seq(STRING), y \in STRING : Append(v, s) = Append(x, y) => v = x /\ s = y
  BY PathFacts
<1> QED BY <1>1, Zenon

LEMMA EntryTypes ==
  ASSUME NEW X \in Seq(IndexEntry), NEW i \in DOMAIN X
  PROVE  X[i] \in IndexEntry /\ X[i].path \in Seq(STRING) /\ X[i].addr \in Nat \ {Undefined}
<1>1. X[i] \in IndexEntry
  OBVIOUS
<1> QED BY <1>1 DEF IndexEntry

(* The paths of frames go by their place on the stack.                     *)
LEMMA FrameLengths ==
  ASSUME NEW f \in Files, NEW F \in Seq(GroupFrame), NEW e, Stacked(f, F, e), NEW p \in DOMAIN F, NEW q \in DOMAIN F
  PROVE  /\ p \in Nat /\ q \in Nat /\ p >= 1 /\ q >= 1 /\ p <= Len(F) /\ Len(F) \in Nat
         /\ F[p].path = F[q].path => p = q
         /\ \A s \in STRING : F[q].path = Append(F[p].path, s) => q = p - 1
<1>1. /\ p \in Nat /\ q \in Nat /\ p >= 1 /\ q >= 1 /\ p <= Len(F) /\ q <= Len(F) /\ Len(F) \in Nat
  OBVIOUS
<1>2. Len(F[p].path) = Len(F) - p /\ Len(F[q].path) = Len(F) - q
  BY DEF Stacked
<1>3. F[p].path = F[q].path => p = q
  BY <1>1, <1>2
<1>4. F[p].path \in Seq(STRING)
  <2>1. F # <<>>
    OBVIOUS
  <2> QED BY <2>1, FrameTypes
<1>5. ASSUME NEW s \in STRING, F[q].path = Append(F[p].path, s) PROVE q = p - 1
  <2>1. Len(Append(F[p].path, s)) = Len(F[p].path) + 1
    BY <1>4, PathFacts
  <2> QED BY <1>1, <1>2, <1>5, <2>1
<1> QED BY <1>1, <1>3, <1>5

(* Where a child is.                                                       *)
LEMMA ChildPlace ==
  ASSUME NEW f \in Files, NEW F \in Seq(GroupFrame), Stacked(f, F, 1), NEW p \in DOMAIN F,
         NEW c \in ChildrenOf(f, F[p].addr)
  PROVE  /\ <<Append(F[p].path, c.name), c.to>> \in Objects(f)
         /\ Append(F[p].path, c.name) \in Seq(STRING) /\ Len(Append(F[p].path, c.name)) = Len(F[p].path) + 1
<1> DEFINE o == Place(F[p])
<1>1. o \in Objects(f) /\ o[1] = F[p].path /\ o[2] = F[p].addr /\ KindOf(f, F[p].addr) = "group"
  BY DEF Stacked, Place
<1>2. p >= 1 /\ F # <<>>
  OBVIOUS
<1>3. Len(o[1]) <= MaxDepth
  BY <1>1, <1>2 DEF Stacked
<1> HIDE DEF o
<1>4. <<Append(o[1], c.name), c.to>> \in Below(f, o)
  BY <1>1, BelowFacts
<1>5. <<Append(o[1], c.name), c.to>> \in Objects(f)
  BY <1>1, <1>3, <1>4, ObjectsFacts
<1>6. c.name \in STRING /\ F[p].path \in Seq(STRING)
  BY <1>2, ChildrenFacts, FrameTypes
<1> QED BY <1>1, <1>5, <1>6, PathFacts

(* The same groups are at the same places.                                 *)
LEMMA SameStacked ==
  ASSUME NEW f, NEW F \in Seq(GroupFrame), F # <<>>, NEW G, SameGroups(F, G), NEW e, Stacked(f, F, e)
  PROVE  Stacked(f, G, e)
<1>1. /\ DOMAIN G = DOMAIN F /\ Len(G) = Len(F) /\ \A p \in DOMAIN F : G[p].addr = F[p].addr /\ G[p].path = F[p].path
  BY DEF SameGroups
<1>2. \A p \in DOMAIN F : Place(G[p]) = Place(F[p])
  BY <1>1 DEF Place
<1>3. Len(F) \in DOMAIN F /\ \A p \in DOMAIN F : p > 1 => p - 1 \in DOMAIN F
  BY FrameTypes
<1>4. F # <<>> /\ G # <<>> /\ Place(G[Len(G)]) = <<<<>>, f.root>>
  BY <1>1, <1>2, <1>3 DEF Stacked
<1>5. \A p \in DOMAIN F : p > 1 => Front(G[p - 1].path) = G[p].path
  BY <1>1, <1>3 DEF Stacked
<1> QED BY <1>1, <1>2, <1>4, <1>5 DEF Stacked

LEMMA SameOnce ==
  ASSUME NEW F, NEW G, SameGroups(F, G), NEW X, NEW e, NEW v, Once(F, X, e, v)
  PROVE  Once(G, X, e, v)
<1>1. DOMAIN G = DOMAIN F /\ \A p \in DOMAIN F : G[p].addr = F[p].addr
  BY DEF SameGroups
<1>2. \A a : IsEntered(G, X, e, a) <=> IsEntered(F, X, e, a)
  BY <1>1 DEF IsEntered
<1> QED BY <1>1, <1>2 DEF Once

(* The walk begins.                                                        *)
LEMMA WalkedStarts ==
  ASSUME NEW f \in Files, Conforms(f), NEW F \in Seq(GroupFrame), Len(F) = 1, Place(F[1]) = <<<<>>, f.root>>
  PROVE  Walked(f, F, <<>>, 2, 2, {})
<1>1. DOMAIN F = {1} /\ F # <<>> /\ F[1].path = <<>> /\ F[1].addr = f.root
  <2>1. DOMAIN F = {1} /\ F # <<>>
    OBVIOUS
  <2>2. <<F[1].path, F[1].addr>> = <<<<>>, f.root>>
    BY DEF Place
  <2> QED BY <2>1, <2>2
<1>2. DOMAIN <<>> = {} /\ Len(<<>>) = 0
  OBVIOUS
<1>3. Place(F[1]) \in Objects(f) /\ KindOf(f, f.root) = "group"
  BY ObjectsFacts DEF Conforms
<1>4. Stacked(f, F, 2)
  BY <1>1, <1>2, <1>3 DEF Stacked
<1>5. FramesCovered(f, F, <<>>, 2) /\ ChildrenNew(F, <<>>, 2) /\ RootCovered(f, F, <<>>)
  BY <1>1 DEF FramesCovered, ChildrenNew, RootCovered
<1>6. Sorted(f, <<>>) /\ IndexCovered(f, <<>>) /\ PathsOnce(<<>>) /\ FramesNew(F, <<>>) /\ Rooted(F, <<>>, 2)
  BY <1>2 DEF Sorted, IndexCovered, PathsOnce, FramesNew, Rooted
<1>7. Once(F, <<>>, 2, {})
  BY <1>1, <1>2 DEF Once, IsEntered
<1> QED BY <1>4, <1>5, <1>6, <1>7 DEF Walked

(* The group on top is entered.                                            *)
LEMMA WalkedEnters ==
  ASSUME NEW f \in Files, NEW F \in Seq(GroupFrame), F # <<>>, NEW X, NEW v, Walked(f, F, X, 2, 2, v),
         Len(F) - 1 <= MaxDepth, F[1].addr \notin v
  PROVE  Walked(f, F, X, 2, 1, v \cup {F[1].addr})
<1> DEFINE a == F[1].addr
<1>1. \A p \in DOMAIN F : p \in Nat /\ (p = 1 \/ p >= 2)
  OBVIOUS
<1>2. 1 \in DOMAIN F /\ Len(F) \in Nat
  BY FrameTypes
<1>3. Stacked(f, F, 1)
  <2>1. Stacked(f, F, 2)
    BY DEF Walked
  <2>2. Len(F[1].path) <= MaxDepth
    BY <1>2, <2>1 DEF Stacked
  <2> QED BY <1>1, <2>1, <2>2 DEF Stacked
<1>4. Once(F, X, 2, v)
  BY DEF Walked
<1>5. \A b : IsEntered(F, X, 1, b) <=> IsEntered(F, X, 2, b) \/ b = a
  BY <1>1, <1>2 DEF IsEntered
<1>6. ~IsEntered(F, X, 2, a)
  BY <1>4 DEF Once
<1>7. /\ \A i \in DOMAIN X : X[i].kind = "group" => X[i].addr # a
      /\ \A p \in DOMAIN F : p >= 2 => F[p].addr # a
  BY <1>6 DEF IsEntered
<1>8. Once(F, X, 1, v \cup {a})
  <2>1. \A b : b \in v \cup {a} <=> IsEntered(F, X, 1, b)
    BY <1>4, <1>5 DEF Once
  <2>2. \A p, q \in DOMAIN F : p >= 1 /\ q >= 1 /\ F[p].addr = F[q].addr => p = q
    BY <1>1, <1>4, <1>7 DEF Once
  <2>3. \A i \in DOMAIN X, p \in DOMAIN F : p >= 1 /\ X[i].kind = "group" => X[i].addr # F[p].addr
    BY <1>1, <1>4, <1>7 DEF Once
  <2> QED BY <1>4, <2>1, <2>2, <2>3 DEF Once
<1> QED BY <1>3, <1>8 DEF Walked

(* The group on top knows its children.                                    *)
LEMMA WalkedOpens ==
  ASSUME NEW f \in Files, NEW F \in Seq(GroupFrame), F # <<>>, NEW X \in Seq(IndexEntry), NEW v,
         Walked(f, F, X, 2, 1, v), NEW G, SameGroups(F, G), ~BadObject(f, F[1].addr),
         ToSet(G[1].children) = ChildrenOf(f, F[1].addr), Different(G[1].children)
  PROVE  Walked(f, G, X, 1, 1, v)
<1>1. \A p \in DOMAIN F : p \in Nat /\ (p = 1 \/ p >= 2)
  OBVIOUS
<1>2. /\ 1 \in DOMAIN F /\ DOMAIN G = DOMAIN F /\ G # <<>>
      /\ \A p \in DOMAIN F : G[p].addr = F[p].addr /\ G[p].path = F[p].path
      /\ \A p \in DOMAIN F : p # 1 => G[p] = F[p]
  <2>1. 1 \in DOMAIN F
    BY FrameTypes
  <2> QED BY <2>1 DEF SameGroups
<1>3. Stacked(f, F, 1) /\ Stacked(f, G, 1)
  BY SameStacked DEF Walked
<1>4. Once(G, X, 1, v)
  BY SameOnce DEF Walked
<1>5. FramesCovered(f, G, X, 1)
  <2>1. FramesCovered(f, F, X, 2)
    BY DEF Walked
  <2>2. \A c \in ChildrenOf(f, G[1].addr) : ChildCovered(f, G, X, 1, c)
    BY <1>2 DEF ChildCovered
  <2>3. ASSUME NEW p \in DOMAIN F, p # 1, NEW c, ChildCovered(f, F, X, p, c) PROVE ChildCovered(f, G, X, p, c)
    <3>1. p > 1 => p - 1 \in DOMAIN F
      OBVIOUS
    <3> QED BY <1>2, <2>3, <3>1 DEF ChildCovered
  <2> QED BY <1>1, <1>2, <2>1, <2>2, <2>3 DEF FramesCovered
<1>6. FramesNew(F, X) /\ FramesNew(G, X)
  BY <1>2 DEF Walked, FramesNew
<1>7. Rooted(F, X, 2) /\ Rooted(G, X, 1)
  <2>1. Rooted(F, X, 2)
    BY DEF Walked
  <2>2. ASSUME NEW i \in DOMAIN X, Hangs(F, X, 2, X[i].path) PROVE Hangs(G, X, 1, X[i].path)
    <3>1. ASSUME NEW p \in DOMAIN F, p >= 2, Front(X[i].path) = F[p].path PROVE Hangs(G, X, 1, X[i].path)
      BY <1>1, <1>2, <3>1 DEF Hangs
    <3> QED BY <2>2, <3>1 DEF Hangs
  <2> QED BY <2>1, <2>2 DEF Rooted
<1>8. ASSUME NEW k \in DOMAIN G[1].children PROVE ChildNew(G, X, 1, Append(G[1].path, G[1].children[k].name))
  <2> DEFINE c == G[1].children[k]
  <2>1. c \in ChildrenOf(f, F[1].addr)
    BY DEF ToSet
  <2>2. c.name \in STRING /\ G[1].path \in Seq(STRING) /\ G[1].path = F[1].path
    BY <1>2, <2>1, ChildrenFacts, FrameTypes
  <2>3. ASSUME NEW i \in DOMAIN X, X[i].path = Append(F[1].path, c.name) PROVE FALSE
    <3>1. X[i].path # <<>> /\ Front(X[i].path) = F[1].path
      BY <2>2, <2>3, PathFacts
    <3>2. \/ \E j \in DOMAIN X : F[1].path = X[j].path
          \/ \E p \in DOMAIN F : p >= 2 /\ F[1].path = F[p].path
      BY <1>7, <3>1 DEF Rooted, Hangs
    <3>3. \A p \in DOMAIN F : F[1].path = F[p].path => p = 1
      BY <1>2, <1>3, FrameLengths
    <3>4. ~(1 >= 2)
      OBVIOUS
    <3> QED BY <1>2, <1>6, <3>2, <3>3, <3>4 DEF FramesNew
  <2> QED BY <2>2, <2>3 DEF ChildNew
<1>9. ChildrenNew(G, X, 1)
  <2>1. ChildrenNew(F, X, 2)
    BY DEF Walked
  <2>2. ASSUME NEW p \in DOMAIN F, p # 1, NEW path, ChildNew(F, X, p, path) PROVE ChildNew(G, X, p, path)
    <3>1. p > 1 => p - 1 \in DOMAIN F
      OBVIOUS
    <3> QED BY <1>2, <2>2, <3>1 DEF ChildNew
  <2> QED BY <1>1, <1>2, <1>8, <2>1, <2>2 DEF ChildrenNew
<1>10. Sorted(f, X) /\ IndexCovered(f, X) /\ PathsOnce(X)
  BY DEF Walked
<1>11. RootCovered(f, G, X)
  BY <1>2 DEF RootCovered
<1> QED BY <1>3, <1>4, <1>5, <1>6, <1>7, <1>9, <1>10, <1>11 DEF Walked

(* The next child, c, with its path, is taken from the group on top: all   *)
(* but c is accounted for.                                                 *)
ButOne(f, G, X, v, c, path) ==
  /\ G \in Seq(GroupFrame) /\ G # <<>> /\ Stacked(f, G, 1) /\ Once(G, X, 1, v)
  /\ Sorted(f, X) /\ IndexCovered(f, X) /\ PathsOnce(X)
  /\ FramesNew(G, X) /\ Rooted(G, X, 1) /\ ChildrenNew(G, X, 1)
  /\ \A p \in DOMAIN G : /\ ~BadObject(f, G[p].addr) /\ ToSet(G[p].children) \subseteq ChildrenOf(f, G[p].addr)
                         /\ \A x \in ChildrenOf(f, G[p].addr) : ChildCovered(f, G, X, p, x) \/ (p = 1 /\ x = c)
  /\ c \in ChildrenOf(f, G[1].addr) /\ path = Append(G[1].path, c.name)
  /\ path \in Seq(STRING) /\ Len(path) = Len(G) /\ <<path, c.to>> \in Objects(f) /\ Front(path) = G[1].path
  /\ \A i \in DOMAIN X : X[i].path # path
  /\ \A p \in DOMAIN G : G[p].path # path
  /\ \A p \in DOMAIN G : \A k \in DOMAIN G[p].children : Append(G[p].path, G[p].children[k].name) # path

LEMMA ChildTaken ==
  ASSUME NEW f \in Files, NEW F \in Seq(GroupFrame), F # <<>>, NEW X \in Seq(IndexEntry), NEW v,
         Walked(f, F, X, 1, 1, v), F[1].children # <<>>
  PROVE  ButOne(f, Done(F), X, v, F[1].children[1], Append(F[1].path, F[1].children[1].name))
<1> DEFINE G == Done(F)
<1> DEFINE s == F[1].children
<1> DEFINE c == s[1]
<1> DEFINE P == Append(F[1].path, c.name)
<1>1. SameGroups(F, G) /\ G[1].children = Tail(s)
  BY DoneFacts
<1>2. /\ \A p \in DOMAIN F : p \in Nat /\ p >= 1
      /\ 1 \in DOMAIN F /\ Len(F) \in Nat /\ F[1].path \in Seq(STRING) /\ s \in Seq(Entry)
  BY FrameTypes
<1>3. /\ c \in ToSet(s) /\ ToSet(s) = {c} \cup ToSet(Tail(s)) /\ 1 \in DOMAIN s
      /\ \A k \in DOMAIN Tail(s) : k + 1 \in DOMAIN s /\ k + 1 # 1 /\ Tail(s)[k] = s[k + 1]
  <2>1. s # <<>>
    OBVIOUS
  <2> HIDE DEF s
  <2>2. Head(s) = c /\ 1 \in DOMAIN s /\ ToSet(s) = {Head(s)} \cup ToSet(Tail(s))
    BY <1>2, <2>1, HeadTail
  <2>3. \A k \in DOMAIN Tail(s) : k + 1 \in DOMAIN s /\ k + 1 # 1 /\ Tail(s)[k] = s[k + 1]
    BY <1>2, <2>1, HeadTail
  <2> HIDE DEF c
  <2> QED BY <2>2, <2>3
<1> HIDE DEF G
<1>4. /\ G \in Seq(GroupFrame) /\ DOMAIN G = DOMAIN F /\ Len(G) = Len(F)
      /\ \A p \in DOMAIN F : G[p].addr = F[p].addr /\ G[p].path = F[p].path
      /\ \A p \in DOMAIN F : p # 1 => G[p] = F[p]
  BY <1>1 DEF SameGroups
<1>5. /\ Stacked(f, F, 1) /\ Once(F, X, 1, v) /\ FramesCovered(f, F, X, 1)
      /\ FramesNew(F, X) /\ ChildrenNew(F, X, 1) /\ Rooted(F, X, 1)
  BY DEF Walked
<1>6. Stacked(f, G, 1) /\ Once(G, X, 1, v)
  BY <1>1, <1>5, SameStacked, SameOnce
<1>7. c \in ChildrenOf(f, F[1].addr)
  BY <1>2, <1>3, <1>5 DEF FramesCovered
<1>8. c.name \in STRING
  BY <1>7, ChildrenFacts
<1>9. <<P, c.to>> \in Objects(f) /\ P \in Seq(STRING) /\ Len(P) = Len(F[1].path) + 1
  BY <1>2, <1>5, <1>7, ChildPlace
<1>10. Len(P) = Len(F)
  <2>1. Len(F[1].path) = Len(F) - 1
    BY <1>2, <1>5 DEF Stacked
  <2> QED BY <1>2, <1>9, <2>1
<1>11. Front(P) = F[1].path
  BY <1>2, <1>8, PathFacts
<1>12. \A i \in DOMAIN X : X[i].path # P
  BY <1>2, <1>3, <1>5 DEF ChildrenNew, ChildNew
<1>13. \A p \in DOMAIN F : F[p].path # P
  <2> SUFFICES ASSUME NEW p \in DOMAIN F, F[p].path = P PROVE FALSE
    OBVIOUS
  <2>1. Len(F[p].path) = Len(F) - p /\ p >= 1 /\ p \in Nat
    BY <1>2, <1>5 DEF Stacked
  <2> QED BY <1>2, <1>10, <2>1
<1>14. \A k \in DOMAIN Tail(s) : Tail(s)[k].name # c.name
  <2>1. Different(s)
    BY <1>2, <1>5 DEF ChildrenNew
  <2> HIDE DEF s
  <2> QED BY <1>3, <2>1 DEF Different
<1>15. \A p \in DOMAIN F : ToSet(G[p].children) \subseteq ToSet(F[p].children)
  BY <1>1, <1>3, <1>4
<1>16. \A p \in DOMAIN F : \A k \in DOMAIN G[p].children : G[p].children[k].name \in STRING
  <2> SUFFICES ASSUME NEW p \in DOMAIN F, NEW k \in DOMAIN G[p].children PROVE G[p].children[k].name \in STRING
    OBVIOUS
  <2>1. G[p].children[k] \in ToSet(F[p].children)
    BY <1>15 DEF ToSet
  <2>2. G[p].children[k] \in ChildrenOf(f, F[p].addr)
    BY <1>2, <1>5, <2>1 DEF FramesCovered
  <2> QED BY <2>2, ChildrenFacts
<1>17. \A p \in DOMAIN F : \A k \in DOMAIN G[p].children : Append(G[p].path, G[p].children[k].name) # P
  <2> SUFFICES ASSUME NEW p \in DOMAIN F, NEW k \in DOMAIN G[p].children,
                      Append(G[p].path, G[p].children[k].name) = P
               PROVE  FALSE
    OBVIOUS
  <2>1. G[p].children[k].name \in STRING /\ G[p].path \in Seq(STRING) /\ G[p].path = F[p].path
    BY <1>4, <1>16, FrameTypes
  <2>2. G[p].path = F[1].path /\ G[p].children[k].name = c.name
    <3>1. Append(G[p].path, G[p].children[k].name) = Append(F[1].path, c.name)
      OBVIOUS
    <3> HIDE DEF c, P
    <3> DEFINE w == G[p].path
    <3> DEFINE t == G[p].children[k].name
    <3> DEFINE u == F[1].path
    <3> DEFINE r == c.name
    <3>2. w \in Seq(STRING) /\ t \in STRING /\ u \in Seq(STRING) /\ r \in STRING /\ Append(w, t) = Append(u, r)
      BY <1>2, <1>8, <2>1, <3>1
    <3> HIDE DEF w, t, u, r
    <3>3. w = u /\ t = r
      <4>1. w \in Seq(STRING)
        BY <3>2
      <4>2. t \in STRING
        BY <3>2
      <4>3. u \in Seq(STRING)
        BY <3>2
      <4>4. r \in STRING
        BY <3>2
      <4>5. Append(w, t) = Append(u, r)
        BY <3>2
      <4> QED BY <4>1, <4>2, <4>3, <4>4, <4>5, SamePath
    <3> QED BY <3>3 DEF w, t, u, r
  <2>3. p = 1
    <3>1. F[p].path = F[1].path /\ 1 \in DOMAIN F
      BY <1>2, <2>1, <2>2
    <3>2. Stacked(f, F, 1)
      BY <1>5
    <3> QED BY <3>1, <3>2, FrameLengths
  <2>4. k \in DOMAIN Tail(s) /\ Tail(s)[k].name = c.name
    BY <1>1, <2>2, <2>3
  <2> QED BY <1>14, <2>4
<1>18. \A p \in DOMAIN G : /\ ~BadObject(f, G[p].addr) /\ ToSet(G[p].children) \subseteq ChildrenOf(f, G[p].addr)
                           /\ \A x \in ChildrenOf(f, G[p].addr) : ChildCovered(f, G, X, p, x) \/ (p = 1 /\ x = c)
  <2> SUFFICES ASSUME NEW p \in DOMAIN F
               PROVE  /\ ~BadObject(f, F[p].addr) /\ ToSet(G[p].children) \subseteq ChildrenOf(f, F[p].addr)
                      /\ \A x \in ChildrenOf(f, F[p].addr) : ChildCovered(f, G, X, p, x) \/ (p = 1 /\ x = c)
    BY <1>4
  <2>1. /\ ~BadObject(f, F[p].addr) /\ ToSet(F[p].children) \subseteq ChildrenOf(f, F[p].addr)
        /\ \A x \in ChildrenOf(f, F[p].addr) : ChildCovered(f, F, X, p, x)
    BY <1>2, <1>5 DEF FramesCovered
  <2>2. ToSet(G[p].children) \subseteq ChildrenOf(f, F[p].addr)
    BY <1>15, <2>1
  <2>3. p > 1 => p - 1 \in DOMAIN F
    OBVIOUS
  <2>4. ASSUME NEW x, ChildCovered(f, F, X, p, x) PROVE ChildCovered(f, G, X, p, x) \/ (p = 1 /\ x = c)
    <3>1. CASE p = 1 /\ x \in ToSet(F[1].children)
      BY <1>1, <1>3, <3>1 DEF ChildCovered
    <3>2. CASE ~(p = 1 /\ x \in ToSet(F[1].children))
      BY <1>4, <2>3, <2>4, <3>2 DEF ChildCovered
    <3> QED BY <3>1, <3>2
  <2> QED BY <2>1, <2>2, <2>4
<1>19. FramesNew(G, X)
  BY <1>4, <1>5 DEF FramesNew
<1>20. Rooted(G, X, 1)
  BY <1>4, <1>5 DEF Rooted, Hangs
<1>21. ChildrenNew(G, X, 1)
  <2> SUFFICES ASSUME NEW p \in DOMAIN F
               PROVE  /\ Different(G[p].children)
                      /\ \A k \in DOMAIN G[p].children : ChildNew(G, X, p, Append(G[p].path, G[p].children[k].name))
    BY <1>4 DEF ChildrenNew
  <2>1. /\ Different(F[p].children)
        /\ \A k \in DOMAIN F[p].children : ChildNew(F, X, p, Append(F[p].path, F[p].children[k].name))
    BY <1>2, <1>5 DEF ChildrenNew
  <2>2. p > 1 => p - 1 \in DOMAIN F
    OBVIOUS
  <2>3. \A path : ChildNew(F, X, p, path) => ChildNew(G, X, p, path)
    BY <1>4, <2>2 DEF ChildNew
  <2>4. CASE p # 1
    BY <1>4, <2>1, <2>3, <2>4
  <2>5. CASE p = 1
    <3>1. Different(Tail(s))
      <4>1. Different(s)
        BY <2>1, <2>5
      <4>2. \A i, j \in DOMAIN Tail(s) : i \in Nat /\ j \in Nat
        <5> DEFINE r == Tail(s)
        <5>1. r \in Seq(Entry)
          BY <1>2, HeadTail
        <5> HIDE DEF r
        <5>2. \A i, j \in DOMAIN r : i \in Nat /\ j \in Nat
          BY <5>1
        <5> QED BY <5>2 DEF r
      <4> HIDE DEF s
      <4> QED BY <1>3, <4>1, <4>2 DEF Different
    <3>2. \A k \in DOMAIN Tail(s) : ChildNew(F, X, 1, Append(F[1].path, Tail(s)[k].name))
      BY <1>3, <2>1, <2>5
    <3> QED BY <1>1, <1>2, <1>4, <2>3, <2>5, <3>1, <3>2
  <2> QED BY <2>4, <2>5
<1> HIDE DEF c, P
<1>22. ButOne(f, G, X, v, c, P)
  <2>1. P = Append(F[1].path, c.name)
    BY DEF P
  <2>2. Sorted(f, X) /\ IndexCovered(f, X) /\ PathsOnce(X)
    BY DEF Walked
  <2>3. G # <<>>
    BY <1>2, <1>4
  <2> QED BY <1>2, <1>4, <1>6, <1>7, <1>9, <1>10, <1>11, <1>12, <1>13, <1>17, <1>18, <1>19, <1>20, <1>21, <2>1, <2>2, <2>3 DEF ButOne
<1> QED BY <1>22 DEF c, P, G

(* The child is passed over.                                               *)
LEMMA WalkedPasses ==
  ASSUME NEW f \in Files, NEW G, NEW X \in Seq(IndexEntry), NEW v, NEW c, NEW P,
         ButOne(f, G, X, v, c, P), Harmless(f, c.to)
  PROVE  Walked(f, G, X, 1, 1, v)
<1>1. \A p : ChildCovered(f, G, X, p, c)
  BY DEF ChildCovered, Accounted
<1>2. FramesCovered(f, G, X, 1)
  BY <1>1 DEF ButOne, FramesCovered
<1>3. RootCovered(f, G, X)
  BY DEF ButOne, RootCovered
<1> QED BY <1>2, <1>3 DEF ButOne, Walked

(* The child is a dataset, and listed.                                     *)
LEMMA WalkedLists ==
  ASSUME NEW f \in Files, NEW G, NEW X \in Seq(IndexEntry), NEW v, NEW c, NEW P,
         ButOne(f, G, X, v, c, P), NEW d \in IndexEntry, d.kind = "dataset", KindOf(f, c.to) = "dataset",
         d.path = P, d.addr = c.to, ~BadObject(f, c.to)
  PROVE  Walked(f, G, Append(X, d), 1, 1, v)
<1> DEFINE Y == Append(X, d)
<1>1. /\ Y \in Seq(IndexEntry)
      /\ \A i \in DOMAIN X : i \in DOMAIN Y /\ Y[i] = X[i]
      /\ \A i \in DOMAIN Y : i \in DOMAIN X \/ (i = Len(X) + 1 /\ Y[i] = d)
      /\ Len(X) + 1 \in DOMAIN Y /\ Y[Len(X) + 1] = d
  BY AppendFacts
<1> HIDE DEF Y
<1>2. \A path, a : Listed(X, path, a) => Listed(Y, path, a)
  BY <1>1 DEF Listed
<1>3. Listed(Y, P, c.to)
  BY <1>1 DEF Listed
<1>4. \A path, x : Accounted(f, X, path, x) => Accounted(f, Y, path, x)
  BY <1>2 DEF Accounted
<1>5. Sorted(f, Y)
  <2>1. Place(d) \in Objects(f)
    BY DEF ButOne, Place
  <2> QED BY <1>1, <2>1 DEF ButOne, Sorted
<1>6. IndexCovered(f, Y)
  BY <1>1, <1>4 DEF ButOne, IndexCovered
<1>7. FramesCovered(f, G, Y, 1)
  <2>1. \A p, x : ChildCovered(f, G, X, p, x) => ChildCovered(f, G, Y, p, x)
    BY <1>4 DEF ChildCovered
  <2>2. ChildCovered(f, G, Y, 1, c)
    BY <1>3 DEF ButOne, ChildCovered, Accounted
  <2> QED BY <2>1, <2>2 DEF ButOne, FramesCovered
<1>8. RootCovered(f, G, Y)
  BY DEF ButOne, RootCovered
<1>9. Once(G, Y, 1, v)
  <2>1. \A a : IsEntered(G, Y, 1, a) <=> IsEntered(G, X, 1, a)
    BY <1>1 DEF IsEntered
  <2>2. \A i \in DOMAIN Y : Y[i].kind = "group" => i \in DOMAIN X /\ Y[i] = X[i]
    BY <1>1
  <2>3. Once(G, X, 1, v)
    BY DEF ButOne
  <2> QED BY <2>1, <2>2, <2>3 DEF Once
<1>10. PathsOnce(Y)
  <2>1. PathsOnce(X) /\ \A i \in DOMAIN X : X[i].path # d.path
    BY DEF ButOne
  <2> QED BY <1>1, <2>1 DEF PathsOnce
<1>11. FramesNew(G, Y)
  <2>1. FramesNew(G, X) /\ \A p \in DOMAIN G : G[p].path # d.path
    BY DEF ButOne
  <2> QED BY <1>1, <2>1 DEF FramesNew
<1>12. ChildrenNew(G, Y, 1)
  <2> SUFFICES ASSUME NEW p \in DOMAIN G, NEW k \in DOMAIN G[p].children
               PROVE  ChildNew(G, Y, p, Append(G[p].path, G[p].children[k].name))
    <3>1. \A p \in DOMAIN G : Different(G[p].children)
      <4>1. \A p \in DOMAIN G : p >= 1
        BY DEF ButOne
      <4> QED BY <4>1 DEF ButOne, ChildrenNew
    <3> QED BY <3>1 DEF ChildrenNew
  <2> DEFINE path == Append(G[p].path, G[p].children[k].name)
  <2>1. p >= 1
    BY DEF ButOne
  <2>2. path # P
    BY DEF ButOne
  <2>3. ChildNew(G, X, p, path)
    BY <2>1 DEF ButOne, ChildrenNew
  <2> HIDE DEF path
  <2>4. ChildNew(G, Y, p, path)
    BY <1>1, <2>2, <2>3 DEF ChildNew
  <2> QED BY <2>4 DEF path
<1>13. Rooted(G, Y, 1)
  <2>1. Hangs(G, Y, 1, d.path)
    BY DEF ButOne, Hangs
  <2>2. \A path : Hangs(G, X, 1, path) => Hangs(G, Y, 1, path)
    BY <1>1 DEF Hangs
  <2> QED BY <1>1, <2>1, <2>2 DEF ButOne, Rooted
<1>14. Stacked(f, G, 1)
  BY DEF ButOne
<1> QED BY <1>5, <1>6, <1>7, <1>8, <1>9, <1>10, <1>11, <1>12, <1>13, <1>14 DEF Walked, Y

(* The child is a group, and goes on the stack.                            *)
LEMMA WalkedPushes ==
  ASSUME NEW f \in Files, NEW G, NEW X \in Seq(IndexEntry), NEW v, NEW c, NEW P,
         ButOne(f, G, X, v, c, P), NEW x \in GroupFrame, KindOf(f, c.to) = "group", x.path = P, x.addr = c.to
  PROVE  Walked(f, <<x>> \o G, X, 2, 2, v)
<1> DEFINE H == <<x>> \o G
<1>1. G \in Seq(GroupFrame) /\ G # <<>>
  BY DEF ButOne
<1>2. /\ H \in Seq(GroupFrame) /\ Len(H) = Len(G) + 1 /\ H[1] = x /\ H # <<>>
      /\ \A p \in DOMAIN G : p + 1 \in DOMAIN H /\ H[p + 1] = G[p]
      /\ \A p \in DOMAIN H : p = 1 \/ (p - 1 \in DOMAIN G /\ H[p] = G[p - 1])
  BY <1>1, PushFacts
<1>3. Len(G) \in Nat /\ Len(G) >= 1 /\ 1 \in DOMAIN G /\ Len(G) \in DOMAIN G /\ \A p \in DOMAIN G : p \in Nat /\ p >= 1
  BY <1>1
<1> HIDE DEF H
<1>4. \A p \in DOMAIN H : p \in Nat /\ (p >= 2 => p - 1 \in DOMAIN G /\ p - 1 >= 1 /\ H[p] = G[p - 1])
  BY <1>2
<1>5. \A p \in DOMAIN G : p + 1 \in DOMAIN H /\ p + 1 >= 2 /\ H[p + 1] = G[p] /\ (p + 1) - 1 = p
  <2> TAKE p \in DOMAIN G
  <2>1. p \in Nat /\ p >= 1
    BY <1>3
  <2>2. p + 1 >= 2 /\ (p + 1) - 1 = p
    BY <2>1
  <2> QED BY <1>2, <2>2
<1>6. Stacked(f, H, 2)
  <2>1. Stacked(f, G, 1)
    BY DEF ButOne
  <2>2. Place(H[Len(H)]) = <<<<>>, f.root>>
    BY <1>1, <1>2, <1>3, <1>5, <2>1 DEF Stacked
  <2>3. ASSUME NEW p \in DOMAIN H, p = 1
        PROVE  Place(H[p]) \in Objects(f) /\ KindOf(f, H[p].addr) = "group" /\ Len(H[p].path) = Len(H) - p
    <3>1. <<P, c.to>> \in Objects(f) /\ Len(P) = Len(G)
      BY DEF ButOne
    <3>2. Len(H) - p = Len(G)
      BY <1>2, <1>3, <2>3
    <3> QED BY <1>2, <2>3, <3>1, <3>2 DEF Place
  <2>4. ASSUME NEW p \in DOMAIN H, p >= 2
        PROVE  /\ Place(H[p]) \in Objects(f) /\ KindOf(f, H[p].addr) = "group"
               /\ Len(H[p].path) = Len(H) - p /\ Len(H[p].path) <= MaxDepth
    <3>1. p - 1 \in DOMAIN G /\ p - 1 >= 1 /\ H[p] = G[p - 1] /\ p \in Nat
      BY <1>4, <2>4
    <3>2. /\ Place(G[p - 1]) \in Objects(f) /\ KindOf(f, G[p - 1].addr) = "group"
          /\ Len(G[p - 1].path) = Len(G) - (p - 1) /\ Len(G[p - 1].path) <= MaxDepth
      BY <2>1, <3>1 DEF Stacked
    <3>3. Len(G) - (p - 1) = Len(H) - p
      BY <1>2, <1>3, <3>1
    <3> QED BY <3>1, <3>2, <3>3
  <2>5. ASSUME NEW p \in DOMAIN H, p > 1 PROVE Front(H[p - 1].path) = H[p].path
    <3>1. p - 1 \in DOMAIN G /\ H[p] = G[p - 1] /\ p \in Nat
      BY <1>4, <2>5
    <3>2. CASE p = 2
      <4>1. H[p - 1] = x /\ H[p] = G[1]
        BY <1>2, <3>1, <3>2
      <4> QED BY <4>1 DEF ButOne
    <3>3. CASE p # 2
      <4>1. p - 1 > 1 /\ p - 1 \in DOMAIN H /\ (p - 1) - 1 \in DOMAIN G /\ H[p - 1] = G[(p - 1) - 1]
        BY <1>1, <1>2, <1>4, <2>5, <3>1, <3>3
      <4>2. Front(G[(p - 1) - 1].path) = G[p - 1].path
        BY <2>1, <3>1, <4>1 DEF Stacked
      <4> QED BY <3>1, <4>1, <4>2
    <3> QED BY <3>2, <3>3
  <2>6. \A p \in DOMAIN H : p \in Nat /\ (p = 1 \/ p >= 2)
    BY <1>2
  <2> QED BY <2>2, <2>3, <2>4, <2>5, <2>6 DEF Stacked
<1>7. FramesCovered(f, H, X, 2)
  <2> SUFFICES ASSUME NEW p \in DOMAIN H, p >= 2
               PROVE  /\ ~BadObject(f, H[p].addr) /\ ToSet(H[p].children) \subseteq ChildrenOf(f, H[p].addr)
                      /\ \A y \in ChildrenOf(f, H[p].addr) : ChildCovered(f, H, X, p, y)
    BY DEF FramesCovered
  <2> DEFINE q == p - 1
  <2>1. q \in DOMAIN G /\ q >= 1 /\ H[p] = G[q] /\ p \in Nat /\ q \in Nat /\ p = q + 1
    BY <1>4
  <2> HIDE DEF q
  <2>2. /\ ~BadObject(f, G[q].addr) /\ ToSet(G[q].children) \subseteq ChildrenOf(f, G[q].addr)
        /\ \A y \in ChildrenOf(f, G[q].addr) : ChildCovered(f, G, X, q, y) \/ (q = 1 /\ y = c)
    BY <2>1 DEF ButOne
  <2>3. ASSUME NEW y, ChildCovered(f, G, X, q, y) PROVE ChildCovered(f, H, X, p, y)
    <3>1. q > 1 => p > 1 /\ H[p - 1] = G[q - 1]
      <4>1. q > 1 => q - 1 \in DOMAIN G /\ p - 1 = (q - 1) + 1 /\ p > 1
        BY <1>1, <2>1
      <4> QED BY <1>5, <4>1
    <3> QED BY <2>1, <2>3, <3>1 DEF ChildCovered
  <2>4. ASSUME q = 1 PROVE ChildCovered(f, H, X, p, c)
    <3>1. p = 2 /\ H[p - 1] = x /\ H[p] = G[1]
      BY <1>2, <2>1, <2>4
    <3>2. P = Append(G[1].path, c.name)
      BY DEF ButOne
    <3> QED BY <3>1, <3>2 DEF ChildCovered
  <2> QED BY <2>1, <2>2, <2>3, <2>4
<1>8. RootCovered(f, H, X)
  BY <1>2 DEF RootCovered
<1>9. Once(H, X, 2, v)
  <2>1. Once(G, X, 1, v)
    BY DEF ButOne
  <2>2. \A a : IsEntered(H, X, 2, a) <=> IsEntered(G, X, 1, a)
    <3> TAKE a
    <3>1. ASSUME NEW p \in DOMAIN H, p >= 2, H[p].addr = a PROVE IsEntered(G, X, 1, a)
      <4>1. p - 1 \in DOMAIN G /\ p - 1 >= 1 /\ H[p] = G[p - 1]
        BY <1>4, <3>1
      <4> QED BY <3>1, <4>1 DEF IsEntered
    <3>2. ASSUME NEW p \in DOMAIN G, G[p].addr = a PROVE IsEntered(H, X, 2, a)
      <4>1. p + 1 \in DOMAIN H /\ p + 1 >= 2 /\ H[p + 1] = G[p]
        BY <1>5
      <4> QED BY <3>2, <4>1 DEF IsEntered
    <3> QED BY <3>1, <3>2 DEF IsEntered
  <2>3. ASSUME NEW p \in DOMAIN H, NEW q \in DOMAIN H, p >= 2, q >= 2, H[p].addr = H[q].addr PROVE p = q
    <3>1. /\ p - 1 \in DOMAIN G /\ p - 1 >= 1 /\ H[p] = G[p - 1] /\ p \in Nat
          /\ q - 1 \in DOMAIN G /\ q - 1 >= 1 /\ H[q] = G[q - 1] /\ q \in Nat
      BY <1>4, <2>3
    <3>2. p - 1 = q - 1
      BY <2>1, <2>3, <3>1 DEF Once
    <3> QED BY <3>1, <3>2
  <2>4. ASSUME NEW i \in DOMAIN X, NEW p \in DOMAIN H, p >= 2, X[i].kind = "group" PROVE X[i].addr # H[p].addr
    <3>1. p - 1 \in DOMAIN G /\ p - 1 >= 1 /\ H[p] = G[p - 1]
      BY <1>4, <2>4
    <3> QED BY <2>1, <2>4, <3>1 DEF Once
  <2> QED BY <2>1, <2>2, <2>3, <2>4 DEF Once
<1>10. FramesNew(H, X)
  <2>1. FramesNew(G, X) /\ \A i \in DOMAIN X : X[i].path # x.path
    BY DEF ButOne
  <2> QED BY <1>2, <2>1 DEF FramesNew
<1>11. ChildrenNew(H, X, 2)
  <2> SUFFICES ASSUME NEW p \in DOMAIN H, p >= 2
               PROVE  /\ Different(H[p].children)
                      /\ \A k \in DOMAIN H[p].children : ChildNew(H, X, p, Append(H[p].path, H[p].children[k].name))
    BY DEF ChildrenNew
  <2> DEFINE q == p - 1
  <2>1. q \in DOMAIN G /\ q >= 1 /\ H[p] = G[q] /\ p \in Nat /\ q \in Nat /\ p = q + 1
    BY <1>4
  <2> HIDE DEF q
  <2>2. /\ Different(G[q].children)
        /\ \A k \in DOMAIN G[q].children : ChildNew(G, X, q, Append(G[q].path, G[q].children[k].name))
    BY <2>1 DEF ButOne, ChildrenNew
  <2>3. \A k \in DOMAIN G[q].children : Append(G[q].path, G[q].children[k].name) # P
    BY <2>1 DEF ButOne
  <2>4. ASSUME NEW path, ChildNew(G, X, q, path), path # P PROVE ChildNew(H, X, p, path)
    <3>1. CASE q = 1
      <4>1. H[p - 1] = x
        BY <1>2, <2>1, <3>1
      <4> QED BY <2>4, <4>1 DEF ChildNew
    <3>2. CASE q # 1
      <4>1. q > 1 /\ q - 1 \in DOMAIN G /\ p - 1 = (q - 1) + 1
        BY <1>1, <2>1, <3>2
      <4>2. H[p - 1] = G[q - 1]
        BY <1>5, <4>1
      <4> QED BY <2>4, <4>1, <4>2 DEF ChildNew
    <3> QED BY <3>1, <3>2
  <2> QED BY <2>1, <2>2, <2>3, <2>4
<1>12. Rooted(H, X, 2)
  <2>1. ASSUME NEW path, Hangs(G, X, 1, path) PROVE Hangs(H, X, 2, path)
    <3>1. ASSUME NEW p \in DOMAIN G, Front(path) = G[p].path PROVE Hangs(H, X, 2, path)
      BY <1>5, <3>1 DEF Hangs
    <3> QED BY <2>1, <3>1 DEF Hangs
  <2> QED BY <2>1 DEF ButOne, Rooted
<1>13. Sorted(f, X) /\ IndexCovered(f, X) /\ PathsOnce(X)
  BY DEF ButOne
<1> QED BY <1>6, <1>7, <1>8, <1>9, <1>10, <1>11, <1>12, <1>13 DEF Walked, H

(* The group on top has no child left: it leaves the stack and is listed.  *)
LEMMA WalkedEnds ==
  ASSUME NEW f \in Files, NEW F \in Seq(GroupFrame), F # <<>>, NEW X \in Seq(IndexEntry), NEW v,
         Walked(f, F, X, 1, 1, v), F[1].children = <<>>,
         NEW d \in IndexEntry, d.kind = "group", d.path = F[1].path, d.addr = F[1].addr
  PROVE  /\ Walked(f, Tail(F), Append(X, d), 1, 1, v)
         /\ Tail(F) = <<>> => Walked(f, Tail(F), Append(X, d), 2, 1, v)
<1> DEFINE T == Tail(F)
<1> DEFINE Y == Append(X, d)
<1>1. /\ Y \in Seq(IndexEntry)
      /\ \A i \in DOMAIN X : i \in DOMAIN Y /\ Y[i] = X[i]
      /\ \A i \in DOMAIN Y : i \in DOMAIN X \/ (i = Len(X) + 1 /\ Y[i] = d)
      /\ Len(X) + 1 \in DOMAIN Y /\ Y[Len(X) + 1] = d
  BY AppendFacts
<1>2. /\ T \in Seq(GroupFrame) /\ Len(T) = Len(F) - 1
      /\ \A p \in DOMAIN T : p + 1 \in DOMAIN F /\ T[p] = F[p + 1]
      /\ \A p \in DOMAIN F : p = 1 \/ (p - 1 \in DOMAIN T /\ T[p - 1] = F[p])
  BY PopFacts
<1>3. /\ Len(F) \in Nat /\ Len(F) >= 1 /\ 1 \in DOMAIN F
      /\ \A p \in DOMAIN F : p \in Nat /\ p >= 1
  BY FrameTypes
<1> HIDE DEF T, Y
<1>4. \A p \in DOMAIN T : p \in Nat /\ p >= 1 /\ p + 1 > 1 /\ (p + 1) - 1 = p
  BY <1>2
<1>5. \A p \in DOMAIN T : p > 1 => p - 1 \in DOMAIN T /\ T[p - 1] = F[p]
  BY <1>2
<1>6. /\ Stacked(f, F, 1) /\ Once(F, X, 1, v) /\ FramesCovered(f, F, X, 1) /\ Sorted(f, X) /\ IndexCovered(f, X)
      /\ FramesNew(F, X) /\ ChildrenNew(F, X, 1) /\ Rooted(F, X, 1) /\ PathsOnce(X)
  BY DEF Walked
<1>7. \A path, a : Listed(X, path, a) => Listed(Y, path, a)
  BY <1>1 DEF Listed
<1>8. Listed(Y, F[1].path, F[1].addr)
  BY <1>1 DEF Listed
<1>9. \A path, x : Accounted(f, X, path, x) => Accounted(f, Y, path, x)
  BY <1>7 DEF Accounted
<1>10. Stacked(f, T, 1)
  <2>1. T # <<>> => Place(T[Len(T)]) = <<<<>>, f.root>>
    <3> SUFFICES ASSUME T # <<>> PROVE Place(T[Len(T)]) = <<<<>>, f.root>>
      OBVIOUS
    <3>1. Len(T) \in DOMAIN T /\ Len(T) + 1 = Len(F)
      BY <1>2, <1>3
    <3>2. T[Len(T)] = F[Len(F)]
      BY <1>2, <3>1
    <3> QED BY <1>6, <3>2 DEF Stacked
  <2>2. ASSUME NEW p \in DOMAIN T
        PROVE  /\ Place(T[p]) \in Objects(f) /\ KindOf(f, T[p].addr) = "group"
               /\ Len(T[p].path) = Len(T) - p /\ Len(T[p].path) <= MaxDepth
               /\ p > 1 => Front(T[p - 1].path) = T[p].path
    <3>1. p + 1 \in DOMAIN F /\ T[p] = F[p + 1] /\ p + 1 >= 1 /\ p + 1 > 1 /\ (p + 1) - 1 = p
      BY <1>2, <1>3, <1>4
    <3>2. /\ Place(F[p + 1]) \in Objects(f) /\ KindOf(f, F[p + 1].addr) = "group"
          /\ Len(F[p + 1].path) = Len(F) - (p + 1) /\ Len(F[p + 1].path) <= MaxDepth
          /\ Front(F[(p + 1) - 1].path) = F[p + 1].path
      BY <1>6, <3>1 DEF Stacked
    <3>3. Len(F) - (p + 1) = Len(T) - p
      BY <1>2, <1>3, <1>4
    <3> QED BY <1>5, <3>1, <3>2, <3>3
  <2> QED BY <2>1, <2>2 DEF Stacked
<1>11. Sorted(f, Y)
  <2>1. Place(d) \in Objects(f) /\ KindOf(f, d.addr) = "group" /\ Len(d.path) <= MaxDepth
    BY <1>3, <1>6 DEF Stacked, Place
  <2>2. ~BadObject(f, d.addr)
    BY <1>3, <1>6 DEF FramesCovered
  <2> QED BY <1>1, <1>6, <2>1, <2>2 DEF Sorted
<1>12. IndexCovered(f, Y)
  <2>1. ASSUME NEW c \in ChildrenOf(f, d.addr) PROVE Accounted(f, Y, d.path, c)
    <3>1. ChildCovered(f, F, X, 1, c)
      BY <1>3, <1>6 DEF FramesCovered
    <3>2. ToSet(F[1].children) = {}
      BY DEF ToSet
    <3>3. ~(1 > 1)
      OBVIOUS
    <3>4. Accounted(f, X, F[1].path, c)
      BY <3>1, <3>2, <3>3 DEF ChildCovered
    <3> QED BY <1>9, <3>4
  <2> QED BY <1>1, <1>6, <1>9, <2>1 DEF IndexCovered
<1>13. FramesCovered(f, T, Y, 1)
  <2> SUFFICES ASSUME NEW p \in DOMAIN T
               PROVE  /\ ~BadObject(f, T[p].addr) /\ ToSet(T[p].children) \subseteq ChildrenOf(f, T[p].addr)
                      /\ \A c \in ChildrenOf(f, T[p].addr) : ChildCovered(f, T, Y, p, c)
    BY DEF FramesCovered
  <2> DEFINE q == p + 1
  <2>1. q \in DOMAIN F /\ T[p] = F[q] /\ q >= 1 /\ q - 1 = p /\ p >= 1 /\ p \in Nat
    BY <1>2, <1>3, <1>4
  <2> HIDE DEF q
  <2>2. /\ ~BadObject(f, F[q].addr) /\ ToSet(F[q].children) \subseteq ChildrenOf(f, F[q].addr)
        /\ \A c \in ChildrenOf(f, F[q].addr) : ChildCovered(f, F, X, q, c)
    BY <1>6, <2>1 DEF FramesCovered
  <2>3. ASSUME NEW c, ChildCovered(f, F, X, q, c) PROVE ChildCovered(f, T, Y, p, c)
    <3>1. CASE c \in ToSet(F[q].children) \/ Accounted(f, X, F[q].path, c)
      BY <1>9, <2>1, <3>1 DEF ChildCovered
    <3>2. CASE F[q - 1].path = Append(F[q].path, c.name) /\ F[q - 1].addr = c.to
      <4>1. CASE p = 1
        <5>1. Listed(Y, Append(T[p].path, c.name), c.to)
          BY <1>8, <2>1, <3>2, <4>1
        <5> QED BY <5>1 DEF ChildCovered, Accounted
      <4>2. CASE p # 1
        <5>1. p > 1
          BY <2>1, <4>2
        <5>2. T[p - 1] = F[q - 1]
          BY <1>5, <2>1, <5>1
        <5> QED BY <2>1, <3>2, <5>1, <5>2 DEF ChildCovered
      <4> QED BY <4>1, <4>2
    <3> QED BY <2>3, <3>1, <3>2 DEF ChildCovered
  <2> QED BY <2>1, <2>2, <2>3
<1>14. RootCovered(f, T, Y)
  <2> SUFFICES ASSUME T = <<>> PROVE Listed(Y, <<>>, f.root)
    BY DEF RootCovered
  <2>1. Len(F) = 1
    BY <1>2, <1>3
  <2>2. <<F[1].path, F[1].addr>> = <<<<>>, f.root>>
    BY <1>6, <2>1 DEF Stacked, Place
  <2>3. F[1].path = <<>> /\ F[1].addr = f.root
    BY <2>2
  <2> QED BY <1>8, <2>3
<1>15. Once(T, Y, 1, v)
  <2>1. \A a : IsEntered(T, Y, 1, a) <=> IsEntered(F, X, 1, a)
    <3> TAKE a
    <3>1. ASSUME NEW i \in DOMAIN Y, Y[i].kind = "group", Y[i].addr = a PROVE IsEntered(F, X, 1, a)
      <4>1. 1 >= 1
        OBVIOUS
      <4> QED BY <1>1, <1>3, <3>1, <4>1 DEF IsEntered
    <3>2. ASSUME NEW p \in DOMAIN T, T[p].addr = a PROVE IsEntered(F, X, 1, a)
      BY <1>2, <1>3, <3>2 DEF IsEntered
    <3>3. ASSUME NEW i \in DOMAIN X, X[i].kind = "group", X[i].addr = a PROVE IsEntered(T, Y, 1, a)
      BY <1>1, <3>3 DEF IsEntered
    <3>4. ASSUME NEW p \in DOMAIN F, F[p].addr = a PROVE IsEntered(T, Y, 1, a)
      <4>1. CASE p = 1
        BY <1>1, <3>4, <4>1 DEF IsEntered
      <4>2. CASE p # 1
        <5>1. p - 1 \in DOMAIN T /\ T[p - 1] = F[p]
          BY <1>2, <4>2
        <5>2. p - 1 >= 1
          BY <1>4, <5>1
        <5> QED BY <3>4, <5>1, <5>2 DEF IsEntered
      <4> QED BY <4>1, <4>2
    <3> QED BY <3>1, <3>2, <3>3, <3>4 DEF IsEntered
  <2>2. \A i \in DOMAIN X : X[i].kind = "group" => X[i].addr # d.addr
    <3>1. 1 >= 1
      OBVIOUS
    <3> QED BY <1>3, <1>6, <3>1 DEF Once
  <2>3. \A i, j \in DOMAIN Y : Y[i].kind = "group" /\ Y[j].kind = "group" /\ Y[i].addr = Y[j].addr => i = j
    BY <1>1, <1>6, <2>2 DEF Once
  <2>4. ASSUME NEW p \in DOMAIN T, NEW q \in DOMAIN T, T[p].addr = T[q].addr PROVE p = q
    <3>1. /\ p + 1 \in DOMAIN F /\ T[p] = F[p + 1] /\ p + 1 >= 1 /\ p \in Nat
          /\ q + 1 \in DOMAIN F /\ T[q] = F[q + 1] /\ q + 1 >= 1 /\ q \in Nat
      BY <1>2, <1>3, <1>4
    <3>2. p + 1 = q + 1
      BY <1>6, <2>4, <3>1 DEF Once
    <3> QED BY <3>1, <3>2
  <2>5. ASSUME NEW p \in DOMAIN T PROVE d.addr # T[p].addr
    <3>1. p + 1 \in DOMAIN F /\ T[p] = F[p + 1] /\ p + 1 >= 1 /\ 1 >= 1 /\ p + 1 # 1
      BY <1>2, <1>3, <1>4
    <3> QED BY <1>3, <1>6, <3>1 DEF Once
  <2>6. ASSUME NEW i \in DOMAIN X, X[i].kind = "group", NEW p \in DOMAIN T PROVE X[i].addr # T[p].addr
    <3>1. p + 1 \in DOMAIN F /\ T[p] = F[p + 1] /\ p + 1 >= 1
      BY <1>2, <1>3, <1>4
    <3> QED BY <1>6, <2>6, <3>1 DEF Once
  <2>7. \A i \in DOMAIN Y, p \in DOMAIN T : Y[i].kind = "group" => Y[i].addr # T[p].addr
    BY <1>1, <2>5, <2>6
  <2>8. \A a : a \in v <=> IsEntered(T, Y, 1, a)
    BY <1>6, <2>1 DEF Once
  <2> QED BY <2>3, <2>4, <2>7, <2>8 DEF Once
<1>16. PathsOnce(Y)
  <2>1. \A i \in DOMAIN X : X[i].path # d.path
    BY <1>3, <1>6 DEF FramesNew
  <2> QED BY <1>1, <1>6, <2>1 DEF PathsOnce
<1>17. FramesNew(T, Y)
  <2>1. ASSUME NEW p \in DOMAIN T PROVE d.path # T[p].path
    <3>1. p + 1 \in DOMAIN F /\ T[p] = F[p + 1] /\ p + 1 # 1
      BY <1>2, <1>4
    <3>2. Stacked(f, F, 1)
      BY <1>6
    <3>3. F[1].path = F[p + 1].path => 1 = p + 1
      BY <1>3, <3>1, <3>2, FrameLengths
    <3> QED BY <3>1, <3>3
  <2>2. \A i \in DOMAIN X, p \in DOMAIN T : X[i].path # T[p].path
    BY <1>2, <1>6 DEF FramesNew
  <2> QED BY <1>1, <2>1, <2>2 DEF FramesNew
<1>18. ChildrenNew(T, Y, 1)
  <2> SUFFICES ASSUME NEW p \in DOMAIN T
               PROVE  /\ Different(T[p].children)
                      /\ \A k \in DOMAIN T[p].children : ChildNew(T, Y, p, Append(T[p].path, T[p].children[k].name))
    BY DEF ChildrenNew
  <2> DEFINE q == p + 1
  <2>1. q \in DOMAIN F /\ T[p] = F[q] /\ q >= 1 /\ q > 1 /\ q - 1 = p /\ p >= 1 /\ p \in Nat
    BY <1>2, <1>3, <1>4
  <2> HIDE DEF q
  <2>2. /\ Different(F[q].children)
        /\ \A k \in DOMAIN F[q].children : ChildNew(F, X, q, Append(F[q].path, F[q].children[k].name))
    BY <1>6, <2>1 DEF ChildrenNew
  <2>3. \A k \in DOMAIN F[q].children : F[q].children[k].name \in STRING
    <3> TAKE k \in DOMAIN F[q].children
    <3>1. F[q].children[k] \in ChildrenOf(f, F[q].addr)
      BY <1>6, <2>1 DEF FramesCovered, ToSet
    <3> QED BY <3>1, ChildrenFacts
  <2>4. ASSUME NEW s \in STRING, ChildNew(F, X, q, Append(F[q].path, s)) PROVE ChildNew(T, Y, p, Append(T[p].path, s))
    <3> DEFINE path == Append(F[q].path, s)
    <3>1. F[1].path = path => 1 = q - 1
      <4>1. Len(F[1].path) = Len(F) - 1 /\ Len(F[q].path) = Len(F) - q
        BY <1>3, <1>6, <2>1 DEF Stacked
      <4>2. F[q].path \in Seq(STRING)
        BY <2>1, FrameTypes
      <4>3. Len(path) = Len(F[q].path) + 1
        BY <4>2, PathFacts
      <4>4. q \in Nat /\ Len(F) \in Nat
        BY <1>3, <2>1
      <4>5. ASSUME F[1].path = path PROVE 1 = q - 1
        <5> HIDE DEF path
        <5>1. Len(F) - 1 = Len(F) - q + 1
          BY <4>1, <4>3, <4>5
        <5> QED BY <4>4, <5>1
      <4> QED BY <4>5
    <3>2. ChildNew(F, X, q, path)
      BY <2>4
    <3> HIDE DEF path
    <3>3. F[p].path # path /\ \A i \in DOMAIN X : X[i].path # path
      BY <2>1, <3>2 DEF ChildNew
    <3>4. d.path # path
      BY <2>1, <3>1, <3>3
    <3>5. p > 1 => T[p - 1].path # path
      BY <1>5, <3>3
    <3>6. ChildNew(T, Y, p, path)
      BY <1>1, <3>3, <3>4, <3>5 DEF ChildNew
    <3> QED BY <2>1, <3>6 DEF path
  <2> QED BY <2>1, <2>2, <2>3, <2>4
<1>19. Rooted(T, Y, 1)
  <2>1. ASSUME NEW path, Hangs(F, X, 1, path) PROVE Hangs(T, Y, 1, path)
    <3>1. ASSUME NEW p \in DOMAIN F, Front(path) = F[p].path PROVE Hangs(T, Y, 1, path)
      <4>1. CASE p = 1
        BY <1>1, <3>1, <4>1 DEF Hangs
      <4>2. CASE p # 1
        <5>1. p - 1 \in DOMAIN T /\ T[p - 1] = F[p]
          BY <1>2, <4>2
        <5> QED BY <1>4, <3>1, <5>1 DEF Hangs
      <4> QED BY <4>1, <4>2
    <3>2. ASSUME NEW j \in DOMAIN X, Front(path) = X[j].path PROVE Hangs(T, Y, 1, path)
      BY <1>1, <3>2 DEF Hangs
    <3> QED BY <2>1, <3>1, <3>2 DEF Hangs
  <2>2. Hangs(T, Y, 1, d.path)
    <3>1. CASE Len(F) = 1
      <4>1. <<F[1].path, F[1].addr>> = <<<<>>, f.root>>
        BY <1>6, <3>1 DEF Stacked, Place
      <4>2. F[1].path = <<>>
        BY <4>1
      <4> QED BY <4>2 DEF Hangs
    <3>2. CASE Len(F) # 1
      <4>1. 2 \in DOMAIN F /\ 2 > 1 /\ 2 - 1 = 1 /\ 2 # 1
        <5>1. Len(F) >= 2
          <6> DEFINE n == Len(F)
          <6>1. n \in Nat /\ n >= 1 /\ n # 1
            BY <1>3, <3>2
          <6> HIDE DEF n
          <6>2. n >= 2
            BY <6>1
          <6> QED BY <6>2 DEF n
        <5>2. DOMAIN F = 1 .. Len(F)
          BY FrameTypes
        <5> QED BY <1>3, <5>1, <5>2
      <4>2. Front(F[1].path) = F[2].path
        BY <1>6, <4>1 DEF Stacked
      <4>3. 1 \in DOMAIN T /\ T[1] = F[2] /\ 1 >= 1
        BY <1>2, <4>1
      <4> QED BY <4>2, <4>3 DEF Hangs
    <3> QED BY <3>1, <3>2
  <2> QED BY <1>1, <1>6, <2>1, <2>2 DEF Rooted
<1>20. Walked(f, T, Y, 1, 1, v)
  BY <1>10, <1>11, <1>12, <1>13, <1>14, <1>15, <1>16, <1>17, <1>18, <1>19 DEF Walked
<1>21. ASSUME T = <<>> PROVE Walked(f, T, Y, 2, 1, v)
  <2>1. DOMAIN T = {}
    BY <1>21
  <2>2. FramesCovered(f, T, Y, 2) /\ ChildrenNew(T, Y, 2)
    BY <2>1 DEF FramesCovered, ChildrenNew
  <2>3. Rooted(T, Y, 2)
    BY <1>19, <2>1 DEF Rooted, Hangs
  <2> QED BY <1>20, <2>2, <2>3 DEF Walked
<1> QED BY <1>20, <1>21 DEF T, Y

--------------------------------------------------------------------------------
(* Every step keeps the second invariant.                                  *)

(* Before the group on top is entered, after it, and once it is opened.    *)
BeforeEntry == pc = "enter"
BeforeOpen == pc = "node" \/ (pc = "block" /\ reading.for = "group")
AfterOpen == pc = "child" \/ (pc = "block" /\ reading.for # "group")
AtWork == BeforeEntry \/ BeforeOpen \/ AfterOpen

LEMMA WalkContext ==
  ASSUME ReadInv, WalkInv, AtWork
  PROVE  /\ file \in Files /\ Conforms(file) /\ OneOfEach(file) /\ NamesDiffer(file)
         /\ frames \in Seq(GroupFrame) /\ frames # <<>> /\ index \in Seq(IndexEntry)
         /\ 1 \in DOMAIN frames /\ Head(frames) = frames[1]
         /\ BeforeEntry => Walked(file, frames, index, 2, 2, visited)
         /\ BeforeOpen => Walked(file, frames, index, 2, 1, visited)
         /\ AfterOpen => Walked(file, frames, index, 1, 1, visited)
<1>1. pc \in {"enter", "block", "node", "child"} /\ pc # "failed"
  BY DEF AtWork, BeforeEntry, BeforeOpen, AfterOpen
<1>2. /\ file \in Files /\ Conforms(file) /\ OneOfEach(file) /\ NamesDiffer(file)
      /\ frames \in Seq(GroupFrame) /\ frames # <<>> /\ index \in Seq(IndexEntry)
  BY <1>1 DEF ReadInv, Typed, WalkInv, Conforms
<1>3. 1 \in DOMAIN frames /\ Head(frames) = frames[1]
  BY <1>2, FrameTypes
<1>4. Walked(file, frames, index, Unopened + 1, IF pc = "enter" THEN 2 ELSE 1, visited)
  BY <1>1 DEF WalkInv
<1>5. BeforeEntry => Walked(file, frames, index, 2, 2, visited)
  <2>1. pc = "enter" => Unopened + 1 = 2
    BY DEF Unopened
  <2> QED BY <1>4, <2>1 DEF BeforeEntry
<1>6. BeforeOpen => Walked(file, frames, index, 2, 1, visited)
  <2>1. BeforeOpen => Unopened + 1 = 2 /\ pc # "enter"
    BY DEF Unopened, BeforeOpen
  <2> QED BY <1>4, <2>1
<1>7. AfterOpen => Walked(file, frames, index, 1, 1, visited)
  <2>1. AfterOpen => Unopened + 1 = 1 /\ pc # "enter"
    BY DEF Unopened, AfterOpen
  <2> QED BY <1>4, <2>1
<1> QED BY <1>2, <1>3, <1>5, <1>6, <1>7

LEMMA WalkGoesOn ==
  ASSUME Conforms(file), file' = file,
         \/ BeforeEntry' /\ Walked(file, frames', index', 2, 2, visited')
         \/ BeforeOpen' /\ Walked(file, frames', index', 2, 1, visited')
         \/ AfterOpen' /\ Walked(file, frames', index', 1, 1, visited')
  PROVE  WalkInv'
<1>1. pc' # "failed" /\ pc' # "done"
  BY DEF BeforeEntry, BeforeOpen, AfterOpen
<1>2. CASE BeforeEntry' /\ Walked(file, frames', index', 2, 2, visited')
  <2>1. pc' = "enter" /\ Unopened' + 1 = 2
    BY <1>2 DEF BeforeEntry, Unopened
  <2> QED BY <1>1, <1>2, <2>1 DEF WalkInv
<1>3. CASE BeforeOpen' /\ Walked(file, frames', index', 2, 1, visited')
  <2>1. pc' # "enter" /\ Unopened' + 1 = 2
    BY <1>3 DEF BeforeOpen, Unopened
  <2> QED BY <1>1, <1>3, <2>1 DEF WalkInv
<1>4. CASE AfterOpen' /\ Walked(file, frames', index', 1, 1, visited')
  <2>1. pc' # "enter" /\ Unopened' + 1 = 1
    BY <1>4 DEF AfterOpen, Unopened
  <2> QED BY <1>1, <1>4, <2>1 DEF WalkInv
<1> QED BY <1>2, <1>3, <1>4

(* A step that reads and leaves the walk as it is.                         *)
LEMMA WalkStays ==
  ASSUME ReadInv, WalkInv, \/ BeforeOpen /\ BeforeOpen'
                           \/ AfterOpen /\ AfterOpen',
         file' = file, frames' = frames, index' = index, visited' = visited
  PROVE  WalkInv'
BY WalkContext, WalkGoesOn DEF AtWork

LEMMA EnterWalks ==
  ASSUME ReadInv, WalkInv, Enter
  PROVE  WalkInv'
<1>1. /\ BeforeEntry /\ MayEnter(Head(frames).addr) /\ visited' = visited \cup {Head(frames).addr}
      /\ file' = file /\ frames' = frames /\ index' = index /\ BeforeOpen'
  BY DEF Enter, ReadHeader, BeforeEntry, BeforeOpen
<1>2. /\ file \in Files /\ Conforms(file) /\ frames \in Seq(GroupFrame) /\ frames # <<>>
      /\ Walked(file, frames, index, 2, 2, visited) /\ Head(frames) = frames[1]
  BY <1>1, WalkContext DEF AtWork
<1>3. Len(frames) - 1 <= MaxDepth /\ frames[1].addr \notin visited
  BY <1>1, <1>2 DEF MayEnter
<1>4. Walked(file, frames, index, 2, 1, visited \cup {frames[1].addr})
  BY <1>2, <1>3, WalkedEnters
<1> QED BY <1>1, <1>2, <1>4, WalkGoesOn

LEMMA ReadingWalks ==
  ASSUME ReadInv, WalkInv,
         ReadBlock \/ OldStyleGroup \/ ReadNode \/ SkipNode \/ NextChild \/ SharedDatatype \/ NextDatatype
  PROVE  WalkInv'
<1>1. file' = file /\ frames' = frames /\ index' = index /\ visited' = visited
  <2>1. CASE ReadBlock
    BY <2>1 DEF ReadBlock, walk
  <2>2. CASE OldStyleGroup
    BY <2>2 DEF OldStyleGroup, walk
  <2>3. CASE ReadNode
    BY <2>3 DEF ReadNode, walk
  <2>4. CASE SkipNode
    BY <2>4 DEF SkipNode, walk
  <2>5. CASE NextChild
    BY <2>5 DEF NextChild, walk
  <2>6. CASE SharedDatatype
    BY <2>6 DEF SharedDatatype, walk
  <2>7. CASE NextDatatype
    BY <2>7 DEF NextDatatype, walk
  <2> QED BY <2>1, <2>2, <2>3, <2>4, <2>5, <2>6, <2>7
<1>2. (BeforeOpen /\ BeforeOpen') \/ (AfterOpen /\ AfterOpen')
  <2>1. CASE ReadBlock
    BY <2>1 DEF ReadBlock, BeforeOpen, AfterOpen
  <2>2. CASE OldStyleGroup
    BY <2>2 DEF OldStyleGroup, HeaderRead, BeforeOpen
  <2>3. CASE ReadNode
    BY <2>3 DEF ReadNode, BeforeOpen
  <2>4. CASE SkipNode
    BY <2>4 DEF SkipNode, BeforeOpen
  <2>5. CASE NextChild
    BY <2>5 DEF NextChild, ReadHeader, AfterOpen
  <2>6. CASE SharedDatatype
    BY <2>6 DEF SharedDatatype, ReadHeader, HeaderRead, AfterOpen
  <2>7. CASE NextDatatype
    BY <2>7 DEF NextDatatype, ReadHeader, HeaderRead, AfterOpen
  <2> QED BY <2>1, <2>2, <2>3, <2>4, <2>5, <2>6, <2>7
<1> QED BY <1>1, <1>2, WalkStays

(* The group on top is a group.                                            *)
LEMMA TopIsGroup ==
  ASSUME ReadInv, WalkInv, AtWork
  PROVE  /\ KindOf(file, frames[1].addr) = "group" /\ Place(frames[1]) \in Objects(file)
         /\ Len(frames[1].path) = Len(frames) - 1
<1>1. \E e : Stacked(file, frames, e)
  BY WalkContext DEF AtWork, Walked
<1>2. 1 \in DOMAIN frames
  BY WalkContext
<1> QED BY <1>1, <1>2 DEF Stacked

(* The group on top knows its children.                                    *)
LEMMA OpenWalks ==
  ASSUME ReadInv, WalkInv, BeforeOpen, IsHeader(file, frames[1].addr, messages), Unopened = 1,
         ~BadHeader(file, frames[1].addr), ~BadGroup(file, frames[1].addr),
         NEW STATE ch, ch \in Seq(Entry), ToSet(ch) = ChildrenOf(file, frames[1].addr), Different(ch),
         frames' = Begin(ch), pc' = "child", file' = file, index' = index, visited' = visited
  PROVE  WalkInv'
<1>1. /\ file \in Files /\ Conforms(file) /\ frames \in Seq(GroupFrame) /\ frames # <<>> /\ index \in Seq(IndexEntry)
      /\ Walked(file, frames, index, 2, 1, visited)
  BY WalkContext DEF AtWork
<1>2. SameGroups(frames, frames') /\ frames'[1].children = ch
  <2>1. pc \in {"block", "node"}
    BY DEF BeforeOpen
  <2> QED BY <2>1, OpenKeepsRead
<1>3. ~BadObject(file, frames[1].addr)
  <2>1. KindOf(file, frames[1].addr) = "group"
    BY TopIsGroup DEF AtWork
  <2> QED BY <2>1 DEF BadObject
<1>4. Walked(file, frames', index, 1, 1, visited)
  <2> DEFINE G == frames'
  <2>1. SameGroups(frames, G) /\ ToSet(G[1].children) = ChildrenOf(file, frames[1].addr) /\ Different(G[1].children)
    BY <1>2
  <2> HIDE DEF G
  <2>2. Walked(file, G, index, 1, 1, visited)
    BY <1>1, <1>3, <2>1, WalkedOpens
  <2> QED BY <2>2 DEF G
<1>5. AfterOpen'
  BY DEF AfterOpen
<1> QED BY <1>1, <1>4, <1>5, WalkGoesOn

LEMMA NewStyleWalks ==
  ASSUME ReadInv, WalkInv, NewStyleGroup
  PROVE  WalkInv'
<1>1. /\ pc = "block" /\ queue = <<>> /\ reading.for = "group" /\ ~Has(messages, "table")
      /\ AttributesRead(messages) /\ LinksRead(messages)
      /\ frames' = Begin(Links(messages)) /\ pc' = "child" /\ file' = file /\ index' = index /\ visited' = visited
  BY DEF NewStyleGroup, HeaderRead
<1>2. BeforeOpen /\ Unopened = 1
  BY <1>1 DEF BeforeOpen, Unopened
<1>3. file \in Files /\ OneOfEach(file) /\ NamesDiffer(file)
  BY <1>2, WalkContext DEF AtWork
<1>4. /\ IsHeader(file, frames[1].addr, messages) /\ ~BadHeader(file, frames[1].addr)
      /\ frames[1].addr \in DOMAIN file.blocks /\ LinksDiffer(messages)
  BY <1>1, <1>3, HeaderEnds DEF ReadInv, ReadingInv
<1>5. /\ Links(messages) \in Seq(Entry) /\ ToSet(Links(messages)) = ChildrenOf(file, frames[1].addr)
      /\ Different(Links(messages))
  BY <1>1, <1>3, <1>4, HeaderLinks
<1>6. ~BadGroup(file, frames[1].addr)
  BY <1>1, <1>3, <1>4, NewGroupGood
<1> QED BY <1>1, <1>2, <1>4, <1>5, <1>6, OpenWalks

LEMMA ReadTablesWalks ==
  ASSUME ReadInv, WalkInv, ReadTables
  PROVE  WalkInv'
<1>1. /\ pc = "node" /\ queue = <<>> /\ \A i \in DOMAIN leaves : TableReads(file, leaves[i])
      /\ frames' = Begin(Entries(file, leaves)) /\ pc' = "child" /\ file' = file /\ index' = index
      /\ visited' = visited
  BY DEF ReadTables
<1>2. BeforeOpen /\ Unopened = 1
  BY <1>1 DEF BeforeOpen, Unopened
<1>3. file \in Files /\ OneOfEach(file) /\ NamesDiffer(file)
  BY <1>2, WalkContext DEF AtWork
<1>4. /\ IsHeader(file, frames[1].addr, messages) /\ ~BadHeader(file, frames[1].addr)
      /\ Has(messages, "table") /\ First(messages, "table").ok /\ AttributesRead(messages)
      /\ Walking(file, frames[1].addr, First(messages, "table").to, <<>>, seen, leaves)
  BY <1>1 DEF ReadInv, WalkingInv, Listing
<1>5. /\ Entries(file, leaves) \in Seq(Entry) /\ ToSet(Entries(file, leaves)) = ChildrenOf(file, frames[1].addr)
      /\ Different(Entries(file, leaves))
  BY <1>1, <1>3, TablesListChildren
<1>6. ~BadGroup(file, frames[1].addr)
  BY <1>1, <1>3, <1>4, OldGroupGood
<1> QED BY <1>1, <1>2, <1>4, <1>5, <1>6, OpenWalks

(* The next child and its path, taken from the group on top.               *)
LEMMA ChildContext ==
  ASSUME ReadInv, WalkInv, pc = "block", reading.for # "group"
  PROVE  /\ file \in Files /\ Conforms(file) /\ OneOfEach(file) /\ index \in Seq(IndexEntry)
         /\ ButOne(file, Done(frames), index, visited, Child, ChildPath)
         /\ Child.to \in Nat \ {Undefined} /\ <<ChildPath, Child.to>> \in Objects(file)
<1>1. AfterOpen
  BY DEF AfterOpen
<1>2. /\ file \in Files /\ Conforms(file) /\ OneOfEach(file) /\ index \in Seq(IndexEntry)
      /\ frames \in Seq(GroupFrame) /\ frames # <<>> /\ Walked(file, frames, index, 1, 1, visited)
  BY <1>1, WalkContext DEF AtWork
<1>3. /\ frames[1].children # <<>> /\ Child = frames[1].children[1]
      /\ ChildPath = Append(frames[1].path, Child.name) /\ Child.to \in Nat \ {Undefined}
  BY TheChild
<1>4. ButOne(file, Done(frames), index, visited, frames[1].children[1],
             Append(frames[1].path, frames[1].children[1].name))
  BY <1>2, <1>3, ChildTaken
<1>5. ButOne(file, Done(frames), index, visited, Child, ChildPath)
  BY <1>3, <1>4
<1>6. <<ChildPath, Child.to>> \in Objects(file)
  BY <1>5 DEF ButOne
<1> QED BY <1>2, <1>3, <1>5, <1>6

(* A child is passed over.                                                 *)
LEMMA CommittedWalks ==
  ASSUME ReadInv, WalkInv, CommittedDatatype
  PROVE  WalkInv'
<1>1. /\ pc = "block" /\ queue = <<>> /\ reading.for = "child" /\ IsCommittedDatatype(messages)
      /\ frames' = Done(frames) /\ pc' = "child" /\ file' = file /\ index' = index /\ visited' = visited
  BY DEF CommittedDatatype, HeaderRead, ChildDone, Done
<1>2. /\ file \in Files /\ Conforms(file) /\ index \in Seq(IndexEntry)
      /\ ButOne(file, Done(frames), index, visited, Child, ChildPath)
  BY <1>1, ChildContext
<1>3. IsHeader(file, Child.to, messages) /\ ~BadHeader(file, Child.to)
  BY <1>1, HeaderEnds DEF ReadInv, ReadingInv
<1>4. KindOf(file, Child.to) = "type"
  BY <1>1, <1>2, <1>3, HeaderKinds
<1>5. Harmless(file, Child.to)
  BY <1>3, <1>4 DEF Harmless, BadObject
<1>6. Walked(file, Done(frames), index, 1, 1, visited)
  <2> DEFINE G == Done(frames)
  <2> DEFINE c == Child
  <2> DEFINE P == ChildPath
  <2>1. ButOne(file, G, index, visited, c, P) /\ Harmless(file, c.to)
    BY <1>2, <1>5
  <2> HIDE DEF G, c, P
  <2>2. Walked(file, G, index, 1, 1, visited)
    BY <1>2, <2>1, WalkedPasses
  <2> QED BY <2>2 DEF G
<1>7. AfterOpen'
  BY <1>1 DEF AfterOpen
<1> QED BY <1>1, <1>2, <1>6, <1>7, WalkGoesOn

(* A dataset is listed.                                                    *)
LEMMA ListWalks ==
  ASSUME ReadInv, WalkInv, pc = "block", reading.for # "group",
         KindOf(file, Child.to) = "dataset", ~BadObject(file, Child.to),
         NEW STATE d, d \in IndexEntry, d.kind = "dataset", d.path = ChildPath, d.addr = Child.to,
         index' = Append(index, d), frames' = ChildDone, pc' = "child", file' = file, visited' = visited
  PROVE  WalkInv'
<1>1. /\ file \in Files /\ Conforms(file) /\ index \in Seq(IndexEntry)
      /\ ButOne(file, Done(frames), index, visited, Child, ChildPath)
  BY ChildContext
<1>2. Walked(file, Done(frames), Append(index, d), 1, 1, visited)
  <2> DEFINE G == Done(frames)
  <2> DEFINE c == Child
  <2> DEFINE P == ChildPath
  <2>1. /\ ButOne(file, G, index, visited, c, P) /\ KindOf(file, c.to) = "dataset" /\ ~BadObject(file, c.to)
        /\ d.path = P /\ d.addr = c.to
    BY <1>1
  <2> HIDE DEF G, c, P
  <2>2. Walked(file, G, Append(index, d), 1, 1, visited)
    BY <1>1, <2>1, WalkedLists
  <2> QED BY <2>2 DEF G
<1>3. frames' = Done(frames) /\ AfterOpen'
  BY DEF ChildDone, Done, AfterOpen
<1> QED BY <1>1, <1>2, <1>3, WalkGoesOn

(* A dataset whose chain of datatypes was found good up to its end.        *)
LEMMA DatasetGood ==
  ASSUME NEW f \in Files, NEW a \in Nat, NEW h \in 0 .. MaxHops,
         KindOf(f, a) = "dataset", ~BadHeader(f, a), ~BadMessage(f, a, Parts),
         \A n \in 0 .. h : ~BadType(f, TypeChain(f, a)[n]), Shared(f, TypeChain(f, a)[h]) = {}
  PROVE  ~BadObject(f, a)
<1>1. \A n \in h .. MaxHops : TypeChain(f, a)[n] = TypeChain(f, a)[h]
  BY ChainEnds
<1>2. h \in 0 .. h /\ MaxHops \in h .. MaxHops /\ \A n \in 0 .. MaxHops : n \in 0 .. h \/ n \in h .. MaxHops
  BY BoundsAssumption
<1>3. \A n \in 0 .. MaxHops : ~BadType(f, TypeChain(f, a)[n])
  BY <1>1, <1>2
<1>4. Shared(f, TypeChain(f, a)[MaxHops]) = {}
  BY <1>1, <1>2
<1>5. ~BadDataset(f, a)
  BY <1>3, <1>4 DEF BadDataset, Parts
<1> QED BY <1>5 DEF BadObject

LEMMA DatasetWalks ==
  ASSUME ReadInv, WalkInv, DatasetChild
  PROVE  WalkInv'
<1> DEFINE a == Child.to
<1> DEFINE d == Dataset(reading.addr)
<1>1. /\ HeaderRead("child") /\ IsDataset(messages) /\ DatasetReads(messages)
      /\ First(messages, "datatype").to = Undefined
      /\ index' = Append(index, d) /\ frames' = ChildDone /\ pc' = "child" /\ file' = file /\ visited' = visited
  BY DEF DatasetChild
<1>2. pc = "block" /\ queue = <<>> /\ reading.for = "child" /\ reading.for # "group"
  BY <1>1 DEF HeaderRead
<1>3. /\ reading.addr = a /\ IsHeader(file, a, messages) /\ ~BadHeader(file, a) /\ a \in Nat
      /\ file \in Files /\ OneOfEach(file)
  BY <1>2, HeaderEnds DEF ReadInv, ReadingInv, Typed
<1>4. d \in IndexEntry /\ d.kind = "dataset" /\ d.addr = a /\ d.path = ChildPath
  <2>1. reading.addr \in Nat
    BY <1>3
  <2> QED BY <1>1, <2>1, DatasetFacts
<1> HIDE DEF a, d
<1>5. KindOf(file, a) = "dataset"
  BY <1>1, <1>3, HeaderKinds
<1>6. /\ ~BadMessage(file, a, Parts) /\ ~BadMessage(file, a, {"datatype"})
      /\ MessagesOf(file, a, "datatype") # {}
  BY <1>1, <1>3, HeaderDataset
<1>7. ~BadType(file, a)
  BY <1>3, <1>6 DEF BadType
<1>8. Shared(file, a) = {}
  BY <1>1, <1>3, HeaderType DEF DatasetReads
<1>9. TypeChain(file, a)[0] = a /\ 0 \in 0 .. MaxHops
  BY <1>3, ChainFacts, BoundsAssumption
<1>10. ~BadObject(file, a)
  <2>1. \A n \in 0 .. 0 : ~BadType(file, TypeChain(file, a)[n])
    <3>1. \A n \in 0 .. 0 : n = 0
      OBVIOUS
    <3> QED BY <1>7, <1>9, <3>1
  <2>2. Shared(file, TypeChain(file, a)[0]) = {}
    BY <1>8, <1>9
  <2> QED BY <1>3, <1>5, <1>6, <1>9, <2>1, <2>2, DatasetGood
<1>11. KindOf(file, Child.to) = "dataset" /\ ~BadObject(file, Child.to) /\ d.addr = Child.to
  BY <1>4, <1>5, <1>10 DEF a
<1> QED BY <1>1, <1>2, <1>4, <1>11, ListWalks

LEMMA FoundWalks ==
  ASSUME ReadInv, WalkInv, DatatypeFound
  PROVE  WalkInv'
<1> DEFINE b == reading.addr
<1> DEFINE c == dataset[1]
<1> DEFINE h == dataset[2]
<1> DEFINE d == [c EXCEPT !.type = b]
<1>1. /\ HeaderRead("type") /\ TypeReads(messages) /\ First(messages, "datatype").to = Undefined
      /\ index' = Append(index, d) /\ frames' = ChildDone /\ pc' = "child" /\ file' = file /\ visited' = visited
  BY DEF DatatypeFound
<1>2. /\ pc = "block" /\ reading.for = "type" /\ file \in Files /\ OneOfEach(file) /\ IsHeader(file, b, messages)
      /\ ~BadHeader(file, b) /\ b \in Nat /\ Following(file, c, h, b) /\ c.addr \in Nat
      /\ c.addr = Child.to /\ c.path = ChildPath
  BY <1>1, TypeContext
<1> HIDE DEF c, b, h
<1>3. /\ c \in IndexEntry /\ c.kind = "dataset" /\ h \in 1 .. MaxHops /\ b = TypeChain(file, c.addr)[h]
      /\ KindOf(file, c.addr) = "dataset" /\ ~BadHeader(file, c.addr) /\ ~BadMessage(file, c.addr, Parts)
      /\ \A n \in 0 .. h - 1 : ~BadType(file, TypeChain(file, c.addr)[n])
  BY <1>2 DEF Following
<1>4. Shared(file, b) = {} /\ ~BadType(file, b)
  BY <1>1, <1>2, HeaderType DEF TypeReads, BadType
<1>5. h \in 0 .. MaxHops /\ \A n \in 0 .. h : n = h \/ n \in 0 .. h - 1
  BY <1>3, BoundsAssumption
<1>6. \A n \in 0 .. h : ~BadType(file, TypeChain(file, c.addr)[n])
  BY <1>3, <1>4, <1>5
<1>7. ~BadObject(file, c.addr)
  <2> DEFINE a == c.addr
  <2>1. /\ a \in Nat /\ KindOf(file, a) = "dataset" /\ ~BadHeader(file, a) /\ ~BadMessage(file, a, Parts)
        /\ \A n \in 0 .. h : ~BadType(file, TypeChain(file, a)[n])
        /\ Shared(file, TypeChain(file, a)[h]) = {}
    BY <1>2, <1>3, <1>4, <1>6
  <2> HIDE DEF a
  <2>2. ~BadObject(file, a)
    BY <1>2, <1>5, <2>1, DatasetGood
  <2> QED BY <2>2 DEF a
<1>8. d \in IndexEntry /\ d.kind = "dataset" /\ d.addr = Child.to /\ d.path = ChildPath
  BY <1>2, <1>3 DEF IndexEntry
<1> HIDE DEF d
<1>9. reading.for # "group" /\ KindOf(file, Child.to) = "dataset" /\ ~BadObject(file, Child.to)
  BY <1>2, <1>3, <1>7
<1> QED BY <1>1, <1>2, <1>8, <1>9, ListWalks

LEMMA GroupChildWalks ==
  ASSUME ReadInv, WalkInv, GroupChild
  PROVE  WalkInv'
<1> DEFINE x == Frame(reading.addr, ChildPath)
<1> DEFINE G == Done(frames)
<1>1. /\ HeaderRead("child") /\ ~IsDataset(messages) /\ ~IsCommittedDatatype(messages)
      /\ frames' = <<x>> \o G /\ pc' = "enter" /\ file' = file /\ index' = index /\ visited' = visited
  BY DEF GroupChild, ChildDone, Done
<1>2. pc = "block" /\ queue = <<>> /\ reading.for = "child" /\ reading.for # "group"
  BY <1>1 DEF HeaderRead
<1>3. /\ file \in Files /\ Conforms(file) /\ index \in Seq(IndexEntry)
      /\ ButOne(file, G, index, visited, Child, ChildPath)
  BY <1>2, ChildContext
<1>4. IsHeader(file, Child.to, messages) /\ reading.addr = Child.to /\ reading.addr \in Nat \ {Undefined}
  BY <1>2, HeaderEnds DEF ReadInv, ReadingInv
<1>5. KindOf(file, Child.to) = "group"
  BY <1>1, <1>3, <1>4, HeaderKinds
<1>6. x \in GroupFrame /\ x.path = ChildPath /\ x.addr = Child.to
  <2>1. x = [addr |-> reading.addr, path |-> ChildPath, children |-> <<>>, attributes |-> <<>>, complete |-> TRUE]
    BY DEF Frame
  <2>2. <<>> \in Seq(Entry) /\ <<>> \in Seq(STRING) /\ TRUE \in BOOLEAN
    OBVIOUS
  <2>3. ChildPath \in Seq(STRING)
    BY <1>2, TheChild
  <2> HIDE DEF x
  <2> QED BY <1>4, <2>1, <2>2, <2>3 DEF GroupFrame
<1>7. Walked(file, <<x>> \o G, index, 2, 2, visited)
  <2> DEFINE c == Child
  <2> DEFINE P == ChildPath
  <2>1. /\ ButOne(file, G, index, visited, c, P) /\ KindOf(file, c.to) = "group"
        /\ x \in GroupFrame /\ x.path = P /\ x.addr = c.to
    BY <1>3, <1>5, <1>6
  <2> HIDE DEF G, c, P, x
  <2> QED BY <1>3, <2>1, WalkedPushes
<1>8. BeforeEntry'
  BY <1>1 DEF BeforeEntry
<1> HIDE DEF x, G
<1> QED BY <1>1, <1>3, <1>7, <1>8, WalkGoesOn

LEMMA EndGroupWalks ==
  ASSUME ReadInv, WalkInv, EndGroup
  PROVE  WalkInv'
<1>1. AfterOpen /\ file' = file /\ frames' = Tail(frames) /\ visited' = visited
      /\ pc' = IF Len(frames) = 1 THEN "done" ELSE "child"
  BY DEF EndGroup, AfterOpen
<1>2. /\ file \in Files /\ Conforms(file) /\ frames \in Seq(GroupFrame) /\ frames # <<>> /\ index \in Seq(IndexEntry)
      /\ Walked(file, frames, index, 1, 1, visited) /\ Head(frames) = frames[1]
  BY <1>1, WalkContext DEF AtWork
<1>3. frames[1].children = <<>>
  BY <1>2 DEF EndGroup
<1>4. PICK d \in IndexEntry : /\ index' = Append(index, d) /\ d.kind = "group"
                              /\ d.path = frames[1].path /\ d.addr = frames[1].addr
  BY EndGroupKeepsRead
<1>5. /\ Walked(file, Tail(frames), Append(index, d), 1, 1, visited)
      /\ Tail(frames) = <<>> => Walked(file, Tail(frames), Append(index, d), 2, 1, visited)
  BY <1>2, <1>3, <1>4, WalkedEnds
<1>6. CASE Len(frames) # 1
  <2>1. AfterOpen'
    BY <1>1, <1>6 DEF AfterOpen
  <2> QED BY <1>1, <1>2, <1>4, <1>5, <2>1, WalkGoesOn
<1>7. CASE Len(frames) = 1
  <2>1. frames' = <<>>
    <3>1. Len(Tail(frames)) = Len(frames) - 1 /\ Tail(frames) \in Seq(GroupFrame)
      BY <1>2, PopFacts
    <3> QED BY <1>1, <1>7, <3>1
  <2>2. pc' = "done" /\ Unopened' + 1 = 2
    BY <1>1, <1>7 DEF Unopened
  <2>3. Walked(file, frames', index', 2, 1, visited)
    BY <1>1, <1>4, <1>5, <2>1
  <2> QED BY <1>1, <1>2, <2>1, <2>2, <2>3 DEF WalkInv
<1> QED BY <1>6, <1>7

--------------------------------------------------------------------------------
(* A step that fails has a reason.                                         *)

LimitedGroup(f) == \E o \in Objects(f) : KindOf(f, o[2]) = "group" /\ AtNodeLimit(f, o[2])

LEMMA FailedFor ==
  ASSUME WalkInv, Fail, Rejected(file) \/ LimitedGroup(file)
  PROVE  WalkInv'
<1>1. Conforms(file) /\ pc' = "failed" /\ file' = file
  BY DEF WalkInv, Fail
<1> QED BY <1>1 DEF WalkInv, LimitedGroup

LEMMA RejectedFor ==
  ASSUME NEW f, NEW path, NEW a, <<path, a>> \in Objects(f), BadObject(f, a)
  PROVE  Rejected(f)
<1>1. \E o \in Objects(f) : BadObject(f, o[2])
  BY Zenon
<1> QED BY <1>1 DEF Rejected

LEMMA TopRejected ==
  ASSUME ReadInv, WalkInv, AtWork, BadHeader(file, frames[1].addr) \/ BadGroup(file, frames[1].addr)
  PROVE  Rejected(file)
<1>1. KindOf(file, frames[1].addr) = "group" /\ <<frames[1].path, frames[1].addr>> \in Objects(file)
  BY TopIsGroup DEF Place
<1>2. BadObject(file, frames[1].addr)
  BY <1>1 DEF BadObject
<1> QED BY <1>1, <1>2, RejectedFor

LEMMA EnterFailsRightly ==
  ASSUME ReadInv, WalkInv, EnterFails
  PROVE  WalkInv'
<1> DEFINE a == frames[1].addr
<1>1. BeforeEntry /\ ~MayEnter(Head(frames).addr) /\ Fail
  BY DEF EnterFails, BeforeEntry
<1>2. /\ file \in Files /\ Conforms(file) /\ frames \in Seq(GroupFrame) /\ frames # <<>> /\ index \in Seq(IndexEntry)
      /\ Walked(file, frames, index, 2, 2, visited) /\ Head(frames) = frames[1] /\ 1 \in DOMAIN frames
  BY <1>1, WalkContext DEF AtWork
<1>3. /\ KindOf(file, a) = "group" /\ <<frames[1].path, a>> \in Objects(file)
      /\ Len(frames[1].path) = Len(frames) - 1
  BY <1>1, TopIsGroup DEF AtWork, Place
<1>4. Len(frames) \in Nat /\ MaxDepth \in Nat
  BY <1>2, FrameTypes, BoundsAssumption
<1>5. ~(Len(frames) - 1 <= MaxDepth) \/ a \in visited
  BY <1>1, <1>2 DEF MayEnter
<1> DEFINE o == <<frames[1].path, a>>
<1>6. o \in Objects(file) /\ o[1] = frames[1].path /\ o[2] = a
  BY <1>3
<1> HIDE DEF o, a
<1>7. CASE ~(Len(frames) - 1 <= MaxDepth)
  <2>1. Len(o[1]) > MaxDepth
    BY <1>3, <1>4, <1>6, <1>7
  <2>2. Rejected(file)
    BY <1>3, <1>6, <2>1 DEF Rejected
  <2> QED BY <1>1, <2>2, FailedFor
<1>8. CASE a \in visited
  <2>1. IsEntered(frames, index, 2, a)
    BY <1>2, <1>8 DEF Walked, Once
  <2>2. ASSUME NEW path, <<path, a>> \in Objects(file), path # frames[1].path PROVE Rejected(file)
    <3> DEFINE p == <<path, a>>
    <3>1. p \in Objects(file) /\ p[1] = path /\ p[2] = a
      BY <2>2
    <3> HIDE DEF p
    <3>2. o # p
      BY <1>6, <2>2, <3>1
    <3> QED BY <1>3, <1>6, <3>1, <3>2 DEF Rejected
  <2>3. ASSUME NEW i \in DOMAIN index, index[i].addr = a PROVE Rejected(file)
    <3>1. <<index[i].path, a>> \in Objects(file)
      BY <1>2, <2>3 DEF Walked, Sorted, Place
    <3>2. index[i].path # frames[1].path
      BY <1>2 DEF Walked, FramesNew
    <3> QED BY <2>2, <3>1, <3>2
  <2>4. ASSUME NEW p \in DOMAIN frames, p >= 2, frames[p].addr = a PROVE Rejected(file)
    <3>1. Stacked(file, frames, 2)
      BY <1>2 DEF Walked
    <3>2. <<frames[p].path, a>> \in Objects(file) /\ Len(frames[p].path) = Len(frames) - p /\ p \in Nat
      BY <2>4, <3>1 DEF Stacked, Place
    <3>3. Len(frames[p].path) # Len(frames[1].path)
      BY <1>3, <1>4, <2>4, <3>2
    <3> QED BY <2>2, <3>2, <3>3
  <2>5. Rejected(file)
    BY <2>1, <2>3, <2>4 DEF IsEntered
  <2> QED BY <1>1, <2>5, FailedFor
<1> QED BY <1>5, <1>7, <1>8

LEMMA ChildRejected ==
  ASSUME ReadInv, WalkInv, pc = "block", reading.for # "group", BadObject(file, Child.to)
  PROVE  Rejected(file)
<1>1. <<ChildPath, Child.to>> \in Objects(file)
  BY ChildContext
<1> QED BY <1>1, RejectedFor

(* A datatype that is wrong makes its dataset wrong.                       *)
LEMMA TypeRejected ==
  ASSUME ReadInv, WalkInv, pc = "block", reading.for = "type",
         \/ BadType(file, reading.addr)
         \/ dataset[2] >= MaxHops /\ Shared(file, reading.addr) # {}
  PROVE  Rejected(file)
<1> DEFINE a == Child.to
<1> DEFINE h == dataset[2]
<1>1. Following(file, dataset[1], h, reading.addr) /\ dataset[1].addr = a
  BY DEF ReadInv, ReadingInv
<1>2. h \in 1 .. MaxHops /\ reading.addr = TypeChain(file, a)[h] /\ KindOf(file, a) = "dataset"
  BY <1>1 DEF Following
<1> HIDE DEF a, h
<1>3. h \in 0 .. MaxHops /\ (h >= MaxHops => h = MaxHops)
  BY <1>2, BoundsAssumption
<1>6. BadDataset(file, a)
  <2>1. CASE BadType(file, reading.addr)
    BY <1>2, <1>3, <2>1 DEF BadDataset
  <2>2. CASE dataset[2] >= MaxHops /\ Shared(file, reading.addr) # {}
    <3>1. h = MaxHops
      BY <1>3, <2>2 DEF h
    <3> QED BY <1>2, <2>2, <3>1 DEF BadDataset
  <2> QED BY <2>1, <2>2
<1>7. BadObject(file, a)
  BY <1>2, <1>6 DEF BadObject
<1> QED BY <1>7, ChildRejected DEF a

LEMMA BlockFailsRightly ==
  ASSUME ReadInv, WalkInv, BlockFails
  PROVE  WalkInv'
<1> DEFINE b == Head(queue)
<1>1. pc = "block" /\ queue # <<>> /\ ~BlockReads(b) /\ Fail
  BY DEF BlockFails
<1>2. /\ file \in Files /\ Reading(file, reading.addr, queue, seen, blocks, messages)
      /\ reading.for \in {"group", "child", "type"}
  BY <1>1 DEF ReadInv, Typed, ReadingInv
<1>3. ~(blocks < MaxBlocks /\ b \notin seen /\ Readable(file, b) /\ GoesOn(file, b))
  <2>1. GoesOn(file, b) => \A i \in DOMAIN file.blocks[b].messages :
          file.blocks[b].messages[i].kind = "cont" => file.blocks[b].messages[i].to # Undefined
    BY DEF GoesOn
  <2> QED BY <1>1, <2>1 DEF BlockReads
<1>4. BadHeader(file, reading.addr)
  BY <1>1, <1>2, <1>3, ReadingFails
<1>5. CASE reading.for = "group"
  <2>1. reading.addr = frames[1].addr /\ AtWork
    BY <1>1, <1>5 DEF ReadInv, ReadingInv, AtWork, BeforeOpen
  <2> QED BY <1>1, <1>4, <2>1, TopRejected, FailedFor
<1>6. CASE reading.for = "child"
  <2>1. BadObject(file, Child.to)
    BY <1>1, <1>4, <1>6 DEF ReadInv, ReadingInv, BadObject
  <2>2. reading.for # "group"
    BY <1>6
  <2> QED BY <1>1, <2>1, <2>2, ChildRejected, FailedFor
<1>7. CASE reading.for = "type"
  <2>1. BadType(file, reading.addr)
    BY <1>4 DEF BadType
  <2> QED BY <1>1, <1>7, <2>1, TypeRejected, FailedFor
<1> QED BY <1>2, <1>5, <1>6, <1>7

LEMMA GroupFailsRightly ==
  ASSUME ReadInv, WalkInv, GroupFails
  PROVE  WalkInv'
<1>1. /\ pc = "block" /\ queue = <<>> /\ reading.for = "group" /\ Fail
      /\ \/ ~AttributesRead(messages)
         \/ Has(messages, "table") /\ ~First(messages, "table").ok
         \/ ~Has(messages, "table") /\ ~LinksRead(messages)
  BY DEF GroupFails, HeaderRead
<1>2. file \in Files /\ OneOfEach(file) /\ IsHeader(file, frames[1].addr, messages)
  BY <1>1, HeaderEnds DEF ReadInv, Typed, ReadingInv
<1>3. BadGroup(file, frames[1].addr)
  BY <1>1, <1>2, GroupBad
<1>4. AtWork
  BY <1>1 DEF AtWork, BeforeOpen
<1> QED BY <1>1, <1>3, <1>4, TopRejected, FailedFor

LEMMA TableFailsRightly ==
  ASSUME ReadInv, WalkInv, TableFails
  PROVE  WalkInv'
<1> DEFINE a == frames[1].addr
<1>1. pc = "node" /\ Fail /\ AtWork
  BY DEF TableFails, AtWork, BeforeOpen
<1>2. file \in Files /\ Walking(file, a, First(messages, "table").to, queue, seen, leaves)
  BY <1>1 DEF ReadInv, Typed, WalkingInv
<1>3. CASE queue = <<>>
  <2>1. PICK i \in DOMAIN leaves : ~TableReads(file, leaves[i])
    BY <1>3 DEF TableFails
  <2>2. BadGroup(file, a)
    BY <1>2, <1>3, <2>1, TablesBad
  <2> QED BY <1>1, <2>2, TopRejected, FailedFor
<1>4. CASE queue # <<>>
  <2>1. Cardinality(seen) > MaxNodes \/ (Head(queue) \notin seen /\ ~NodeReads(Head(queue)))
    BY <1>4 DEF TableFails
  <2>2. \/ Cardinality(seen) > MaxNodes
        \/ Head(queue) \notin seen /\ ~Sound(file, Head(queue))
    <3>1. ~(Cardinality(seen) <= MaxNodes) => Cardinality(seen) > MaxNodes
      <4>1. Cardinality(seen) \in Nat /\ MaxNodes \in Nat
        BY <1>2, WalkingFacts, FS_CardinalityType, BoundsAssumption
      <4> QED BY <4>1
    <3> QED BY <2>1, <3>1 DEF NodeReads, Sound
  <2>3. BadGroup(file, a) \/ AtNodeLimit(file, a)
    BY <1>2, <1>4, <2>2, WalkingFails
  <2>4. CASE AtNodeLimit(file, a)
    <3>1. KindOf(file, a) = "group" /\ <<frames[1].path, a>> \in Objects(file)
      BY <1>1, TopIsGroup DEF Place
    <3> DEFINE o == <<frames[1].path, a>>
    <3>2. o \in Objects(file) /\ o[2] = a
      BY <3>1
    <3> HIDE DEF o, a
    <3>3. LimitedGroup(file)
      BY <2>4, <3>1, <3>2 DEF LimitedGroup
    <3> QED BY <1>1, <3>3, FailedFor
  <2>5. CASE BadGroup(file, a)
    BY <1>1, <2>5, TopRejected, FailedFor
  <2> QED BY <2>3, <2>4, <2>5
<1> QED BY <1>3, <1>4

LEMMA DatasetFailsRightly ==
  ASSUME ReadInv, WalkInv, DatasetFails
  PROVE  WalkInv'
<1>1. Fail /\ pc = "block" /\ queue = <<>>
  BY DEF DatasetFails, HeaderRead
<1>2. IsHeader(file, reading.addr, messages) /\ ~BadHeader(file, reading.addr) /\ file \in Files /\ OneOfEach(file)
  BY <1>1, HeaderEnds DEF ReadInv, Typed
<1>3. CASE reading.for = "child"
  <2> DEFINE a == reading.addr
  <2>1. a = Child.to /\ reading.for # "group"
    BY <1>1, <1>3 DEF ReadInv, ReadingInv
  <2>2. IsDataset(messages) /\ ~DatasetReads(messages)
    BY <1>3 DEF DatasetFails, HeaderRead
  <2>3. KindOf(file, a) = "dataset"
    BY <1>2, <2>2, HeaderKinds
  <2>4. BadMessage(file, a, Parts) \/ BadMessage(file, a, {"datatype"}) \/ MessagesOf(file, a, "datatype") = {}
    BY <1>2, <2>2, HeaderDataset
  <2>5. a \in Nat
    BY <1>1, HeaderEnds
  <2> HIDE DEF a
  <2>6. BadMessage(file, a, Parts) \/ BadType(file, a)
    BY <2>4 DEF BadType
  <2>7. TypeChain(file, a)[0] = a /\ 0 \in 0 .. MaxHops
    BY <1>2, <2>5, ChainFacts, BoundsAssumption
  <2>8. BadDataset(file, a)
    BY <2>6, <2>7 DEF BadDataset, Parts
  <2>9. BadObject(file, Child.to)
    BY <2>1, <2>3, <2>8 DEF BadObject
  <2> QED BY <1>1, <2>1, <2>9, ChildRejected, FailedFor
<1>4. CASE reading.for # "child"
  <2>1. /\ reading.for = "type"
        /\ TypeReads(messages) => First(messages, "datatype").to # Undefined /\ dataset[2] >= MaxHops
    BY <1>4 DEF DatasetFails, HeaderRead
  <2>2. \/ BadType(file, reading.addr)
        \/ dataset[2] >= MaxHops /\ Shared(file, reading.addr) # {}
    <3>1. CASE TypeReads(messages)
      BY <1>2, <2>1, <3>1, HeaderType DEF TypeReads
    <3>2. CASE ~TypeReads(messages)
      BY <1>2, <3>2, HeaderType DEF BadType
    <3> QED BY <3>1, <3>2
  <2> QED BY <1>1, <2>1, <2>2, TypeRejected, FailedFor
<1> QED BY <1>3, <1>4

--------------------------------------------------------------------------------
(* The other two theorems.                                                 *)

LEMMA WalkStarts ==
  ASSUME Init, Conforms(file)
  PROVE  WalkInv
<1>1. /\ file \in Files /\ pc = "enter" /\ frames = <<Frame(file.root, <<>>)>>
      /\ index = <<>> /\ visited = {} /\ OneOfEach(file)
  BY DEF Init, Conforms
<1>2. frames \in Seq(GroupFrame)
  BY <1>1, ReadStarts DEF ReadInv, Typed
<1>3. Len(frames) = 1 /\ Place(frames[1]) = <<<<>>, file.root>>
  BY <1>1 DEF Place, Frame
<1>4. Walked(file, frames, <<>>, 2, 2, {})
  BY <1>1, <1>2, <1>3, WalkedStarts
<1>5. Unopened + 1 = 2
  BY <1>1 DEF Unopened
<1> QED BY <1>1, <1>4, <1>5 DEF WalkInv

LEMMA WalkSteps ==
  ASSUME ReadInv, WalkInv, [Next]_vars
  PROVE  WalkInv'
<1>1. CASE Enter
  BY <1>1, EnterWalks
<1>2. CASE ReadBlock \/ OldStyleGroup \/ ReadNode \/ SkipNode \/ NextChild \/ SharedDatatype \/ NextDatatype
  BY <1>2, ReadingWalks
<1>3. CASE NewStyleGroup
  BY <1>3, NewStyleWalks
<1>4. CASE ReadTables
  BY <1>4, ReadTablesWalks
<1>5. CASE DatasetChild
  BY <1>5, DatasetWalks
<1>6. CASE DatatypeFound
  BY <1>6, FoundWalks
<1>7. CASE CommittedDatatype
  BY <1>7, CommittedWalks
<1>8. CASE GroupChild
  BY <1>8, GroupChildWalks
<1>9. CASE EndGroup
  BY <1>9, EndGroupWalks
<1>10. CASE EnterFails
  BY <1>10, EnterFailsRightly
<1>11. CASE BlockFails
  BY <1>11, BlockFailsRightly
<1>12. CASE GroupFails
  BY <1>12, GroupFailsRightly
<1>13. CASE TableFails
  BY <1>13, TableFailsRightly
<1>14. CASE DatasetFails
  BY <1>14, DatasetFailsRightly
<1>15. CASE UNCHANGED vars
  BY <1>15 DEF vars, WalkInv, Unopened
<1> QED BY <1>1, <1>2, <1>3, <1>4, <1>5, <1>6, <1>7, <1>8, <1>9, <1>10, <1>11, <1>12, <1>13, <1>14,
           <1>15 DEF Next

(* At the end every object is listed, or a datatype with nothing wrong.    *)
AllAccounted(f, X) == \A o \in Objects(f) : Listed(X, o[1], o[2]) \/ Harmless(f, o[2])

LEMMA WalkCovers ==
  ASSUME NEW f \in Files, NEW X, Sorted(f, X), IndexCovered(f, X), Listed(X, <<>>, f.root)
  PROVE  AllAccounted(f, X)
<1> DEFINE C == {o \in Objects(f) : Listed(X, o[1], o[2]) \/ Harmless(f, o[2])}
<1>1. <<<<>>, f.root>> \in C
  <2> DEFINE r == <<<<>>, f.root>>
  <2>1. r \in Objects(f) /\ r[1] = <<>> /\ r[2] = f.root
    BY ObjectsFacts
  <2>2. Listed(X, r[1], r[2])
    BY <2>1
  <2> HIDE DEF r
  <2>3. r \in C
    BY <2>1, <2>2
  <2> QED BY <2>3 DEF r
<1>2. ASSUME NEW o \in C, Len(o[1]) <= MaxDepth, NEW p \in Below(f, o) PROVE p \in C
  <2>1. KindOf(f, o[2]) = "group" /\ \E c \in ChildrenOf(f, o[2]) : p = <<Append(o[1], c.name), c.to>>
    BY <1>2, BelowFacts
  <2>2. PICK c \in ChildrenOf(f, o[2]) : p = <<Append(o[1], c.name), c.to>>
    BY <2>1
  <2>3. p \in Objects(f)
    BY <1>2, ObjectsFacts
  <2>4. Listed(X, o[1], o[2])
    BY <2>1 DEF Harmless
  <2>5. PICK i \in DOMAIN X : X[i].path = o[1] /\ X[i].addr = o[2]
    BY <2>4 DEF Listed
  <2>6. X[i].kind = "group"
    BY <2>1, <2>5 DEF Sorted
  <2>7. Accounted(f, X, X[i].path, c)
    BY <2>2, <2>5, <2>6 DEF IndexCovered
  <2>8. Listed(X, Append(o[1], c.name), c.to) \/ Harmless(f, c.to)
    BY <2>5, <2>7 DEF Accounted
  <2>9. p[1] = Append(o[1], c.name) /\ p[2] = c.to
    BY <2>2
  <2> QED BY <2>3, <2>8, <2>9
<1> HIDE DEF C
<1>3. Objects(f) \subseteq C
  <2>1. \A o \in C \cap Objects(f) : Len(o[1]) <= MaxDepth => Below(f, o) \subseteq C
    BY <1>2
  <2> QED BY <1>1, <2>1, ObjectsFacts
<1> QED BY <1>3 DEF C, AllAccounted

LEMMA NothingWrong ==
  ASSUME NEW f \in Files, NEW X \in Seq(IndexEntry), NEW F, NEW e, NEW v,
         Sorted(f, X), AllAccounted(f, X), Once(F, X, e, v)
  PROVE  ~Rejected(f)
<1>1. ASSUME NEW o \in Objects(f), KindOf(f, o[2]) = "group"
      PROVE  \E i \in DOMAIN X : X[i].path = o[1] /\ X[i].addr = o[2] /\ X[i].kind = "group" /\ Len(X[i].path) <= MaxDepth
  <2>1. Listed(X, o[1], o[2])
    BY <1>1 DEF AllAccounted, Harmless
  <2>2. PICK i \in DOMAIN X : X[i].path = o[1] /\ X[i].addr = o[2]
    BY <2>1 DEF Listed
  <2> QED BY <1>1, <2>2 DEF Sorted
<1>2. ASSUME NEW o \in Objects(f), NEW p \in Objects(f), o[2] = p[2], KindOf(f, o[2]) = "group" PROVE o = p
  <2>1. PICK i \in DOMAIN X : X[i].path = o[1] /\ X[i].addr = o[2] /\ X[i].kind = "group"
    BY <1>1, <1>2
  <2>2. KindOf(f, p[2]) = "group"
    BY <1>2
  <2>3. PICK j \in DOMAIN X : X[j].path = p[1] /\ X[j].addr = p[2] /\ X[j].kind = "group"
    BY <1>1, <2>2
  <2>4. i = j
    BY <1>2, <2>1, <2>3 DEF Once
  <2>5. o = <<o[1], o[2]>> /\ p = <<p[1], p[2]>>
    BY ObjectsFacts
  <2> QED BY <1>2, <2>1, <2>3, <2>4, <2>5
<1>3. ASSUME NEW o \in Objects(f), KindOf(f, o[2]) = "group" PROVE ~(Len(o[1]) > MaxDepth)
  <2>1. Len(o[1]) <= MaxDepth
    BY <1>1, <1>3
  <2>2. Len(o[1]) \in Nat /\ MaxDepth \in Nat
    BY ObjectsFacts, BoundsAssumption
  <2> QED BY <2>1, <2>2
<1>4. ASSUME NEW o \in Objects(f) PROVE ~BadObject(f, o[2])
  <2>1. CASE Listed(X, o[1], o[2])
    BY <2>1 DEF Listed, Sorted
  <2>2. CASE Harmless(f, o[2])
    BY <2>2 DEF Harmless
  <2> QED BY <2>1, <2>2 DEF AllAccounted
<1> QED BY <1>2, <1>3, <1>4 DEF Rejected

LEMMA PathsCounted ==
  ASSUME NEW X \in Seq(IndexEntry), PathsOnce(X)
  PROVE  Cardinality({X[i].path : i \in DOMAIN X}) = Len(X)
<1> DEFINE T == {X[i].path : i \in DOMAIN X}
<1> DEFINE n == Len(X)
<1> DEFINE g == [i \in 1 .. n |-> X[i].path]
<1>1. n \in Nat /\ DOMAIN X = 1 .. n
  OBVIOUS
<1>2. g \in [1 .. n -> T] /\ (\A i, j \in 1 .. n : g[i] = g[j] => i = j) /\ \A t \in T : \E i \in 1 .. n : g[i] = t
  BY <1>1 DEF PathsOnce
<1> HIDE DEF g, T, n
<1>3. g \in Bijection(1 .. n, T)
  BY <1>2 DEF Bijection, Injection, Surjection, IsInjective
<1>4. ExistsBijection(1 .. n, T)
  BY <1>3 DEF ExistsBijection
<1>5. IsFiniteSet(1 .. n) /\ Cardinality(1 .. n) = n
  BY <1>1, FS_Interval
<1>6. Cardinality(T) = n
  BY <1>4, <1>5, FS_Bijection
<1> QED BY <1>6 DEF T, n

LEMMA IndexMatches ==
  ASSUME NEW f \in Files, NEW X \in Seq(IndexEntry), Sorted(f, X), AllAccounted(f, X)
  PROVE  {<<X[i].path, X[i].addr, X[i].kind>> : i \in DOMAIN X}
           = {<<o[1], o[2], KindOf(f, o[2])>> : o \in {p \in Objects(f) : KindOf(f, p[2]) # "type"}}
<1>1. ASSUME NEW i \in DOMAIN X
      PROVE  \E o \in {p \in Objects(f) : KindOf(f, p[2]) # "type"} :
               <<X[i].path, X[i].addr, X[i].kind>> = <<o[1], o[2], KindOf(f, o[2])>>
  <2> DEFINE o == Place(X[i])
  <2>1. o \in Objects(f) /\ X[i].kind = KindOf(f, X[i].addr)
    BY DEF Sorted
  <2>2. o[1] = X[i].path /\ o[2] = X[i].addr
    BY DEF Place
  <2>3. X[i].kind \in {"group", "dataset"}
    BY EntryTypes DEF IndexEntry
  <2> HIDE DEF o
  <2> QED BY <2>1, <2>2, <2>3
<1>2. ASSUME NEW o \in Objects(f), KindOf(f, o[2]) # "type"
      PROVE  \E i \in DOMAIN X : <<X[i].path, X[i].addr, X[i].kind>> = <<o[1], o[2], KindOf(f, o[2])>>
  <2>1. Listed(X, o[1], o[2])
    BY <1>2 DEF AllAccounted, Harmless
  <2>2. PICK i \in DOMAIN X : X[i].path = o[1] /\ X[i].addr = o[2]
    BY <2>1 DEF Listed
  <2>3. X[i].kind = KindOf(f, o[2])
    BY <2>2 DEF Sorted
  <2> QED BY <2>2, <2>3
<1> DEFINE L == {<<X[i].path, X[i].addr, X[i].kind>> : i \in DOMAIN X}
<1> DEFINE R == {<<o[1], o[2], KindOf(f, o[2])>> : o \in {p \in Objects(f) : KindOf(f, p[2]) # "type"}}
<1>3. ASSUME NEW x \in L PROVE x \in R
  <2>1. PICK i \in DOMAIN X : x = <<X[i].path, X[i].addr, X[i].kind>>
    OBVIOUS
  <2> QED BY <1>1, <2>1
<1>4. ASSUME NEW x \in R PROVE x \in L
  <2>1. PICK o \in {p \in Objects(f) : KindOf(f, p[2]) # "type"} : x = <<o[1], o[2], KindOf(f, o[2])>>
    OBVIOUS
  <2>2. o \in Objects(f) /\ KindOf(f, o[2]) # "type"
    BY <2>1
  <2> QED BY <1>2, <2>1, <2>2
<1> HIDE DEF L, R
<1>5. L = R
  BY <1>3, <1>4
<1> QED BY <1>5 DEF L, R

LEMMA WalkImplies ==
  ASSUME ReadInv, WalkInv
  PROVE  IndexIsWhole /\ OutcomeIsRight
<1>1. file \in Files /\ index \in Seq(IndexEntry)
  BY DEF ReadInv, Typed
<1>2. ASSUME pc = "done"
      PROVE  /\ Sorted(file, index) /\ AllAccounted(file, index) /\ PathsOnce(index)
             /\ Once(frames, index, 1, visited)
  <2>1. Walked(file, frames, index, Unopened + 1, 1, visited) /\ frames = <<>>
    BY <1>2 DEF WalkInv
  <2>2. Listed(index, <<>>, file.root)
    BY <2>1 DEF Walked, RootCovered
  <2>3. Sorted(file, index) /\ IndexCovered(file, index) /\ PathsOnce(index) /\ Once(frames, index, 1, visited)
    BY <2>1 DEF Walked
  <2> QED BY <1>1, <2>2, <2>3, WalkCovers
<1>3. IndexIsWhole
  BY <1>1, <1>2, IndexMatches, PathsCounted DEF IndexIsWhole
<1>4. OutcomeIsRight
  <2>1. pc = "done" => ~Rejected(file)
    BY <1>1, <1>2, NothingWrong
  <2> QED BY <2>1 DEF OutcomeIsRight, WalkInv
<1> QED BY <1>3, <1>4

LEMMA WalkInvariant == Spec /\ Conforms(file) => [](ReadInv /\ WalkInv)
<1>1. Init /\ Conforms(file) => ReadInv /\ WalkInv
  BY ReadStarts, WalkStarts DEF Conforms
<1>2. ReadInv /\ WalkInv /\ [Next]_vars => (ReadInv /\ WalkInv)'
  BY ReadSteps, WalkSteps
<1> QED BY <1>1, <1>2, PTL DEF Spec

(* The open of a file that conforms where it does not look lists, if it    *)
(* succeeds, every group and dataset that a path of hard links leads to,   *)
(* each once, under its path, and nothing else, whatever the order the     *)
(* depth-first walk meets them in (index.rs:411-442, 550-618).             *)
THEOREM TheIndexIsWhole == Spec /\ Conforms(file) => []IndexIsWhole
<1>1. ReadInv /\ WalkInv => IndexIsWhole
  BY WalkImplies
<1> QED BY <1>1, WalkInvariant, PTL

(* It succeeds only if nothing is wrong with what those paths lead to: no  *)
(* damaged block, message, B-tree or datatype chain, no group too deep or  *)
(* with two paths; and it fails only for one of these, or for a B-tree at  *)
(* its limit that names a node twice (index.rs:550-746,                    *)
(* objheader.rs:160-410, btree1.rs:102-110).                               *)
THEOREM TheOutcomeIsRight == Spec /\ Conforms(file) => []OutcomeIsRight
<1>1. ReadInv /\ WalkInv => OutcomeIsRight
  BY WalkImplies
<1> QED BY <1>1, WalkInvariant, PTL
================================================================================
