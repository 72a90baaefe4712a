---------------------------- MODULE ChunkWalkProofs ----------------------------
(***************************************************************************)
(* Proofs about ChunkWalk for every graph of nodes, any number of callers  *)
(* and every limit.  The argument: a walk keeps to the nodes that can be   *)
(* reached (WalkInv, first part) and what it has not followed is on its    *)
(* stack (the other parts), so that when the stack is empty the visited    *)
(* nodes are closed under children and contain the root, which makes them  *)
(* all the nodes that can be reached.                                      *)
(***************************************************************************)
EXTENDS ChunkWalk, FiniteSetTheorems, TLAPS

(* The reachable nodes contain the root and are closed.                    *)
LEMMA ReachableIsClosed ==
  ASSUME NEW t \in Trees
  PROVE  /\ Reachable(t) \subseteq Nodes
         /\ ToSet(t.root) \subseteq Reachable(t)
         /\ Closed(t, Reachable(t))
<1>1. Reachable(t) \subseteq Nodes
  BY DEF Reachable
<1>2. ToSet(t.root) \subseteq Reachable(t)
  <2>1. ToSet(t.root) \subseteq Nodes
    BY TreesAssumption DEF ToSet
  <2>2. QED
    BY <2>1 DEF Reachable
<1>3. ASSUME NEW n \in Reachable(t), t.kind[n] = "inner", NEW k \in ToSet(t.kids[n])
      PROVE  k \in Reachable(t)
  <2>1. k \in Nodes
    BY <1>1, <1>3, TreesAssumption DEF ToSet
  <2>2. ASSUME NEW S \in SUBSET Nodes, ToSet(t.root) \subseteq S, Closed(t, S) PROVE k \in S
    <3>1. n \in S
      BY <2>2 DEF Reachable
    <3>2. QED
      BY <1>3, <2>2, <3>1 DEF Closed
  <2>3. QED
    BY <2>1, <2>2 DEF Reachable
<1>4. QED
  BY <1>1, <1>2, <1>3 DEF Closed

(* And they are the smallest such set.                                     *)
LEMMA ReachableIsLeast ==
  ASSUME NEW t \in Trees, NEW S \in SUBSET Nodes, ToSet(t.root) \subseteq S, Closed(t, S)
  PROVE  Reachable(t) \subseteq S
BY DEF Reachable

(* What a push adds to a list, and a pop takes from it.                    *)
LEMMA PushSet ==
  ASSUME NEW T, NEW s \in Seq(T), NEW t \in Seq(T)
  PROVE  s \o t \in Seq(T) /\ ToSet(s \o t) = ToSet(s) \cup ToSet(t)
<1>1. /\ s \o t \in Seq(T) /\ Len(s \o t) = Len(s) + Len(t) /\ Len(s) \in Nat /\ Len(t) \in Nat
      /\ \A i \in 1 .. Len(s) + Len(t) : (s \o t)[i] = IF i <= Len(s) THEN s[i] ELSE t[i - Len(s)]
  OBVIOUS
<1>2. /\ DOMAIN s = 1 .. Len(s) /\ DOMAIN t = 1 .. Len(t)
      /\ DOMAIN (s \o t) = 1 .. Len(s) + Len(t)
  BY <1>1
<1> DEFINE u == s \o t
           m == Len(s)
           n == Len(t)
<1>3. /\ m \in Nat /\ n \in Nat /\ DOMAIN s = 1 .. m /\ DOMAIN t = 1 .. n /\ DOMAIN u = 1 .. m + n
      /\ \A i \in 1 .. m + n : u[i] = IF i <= m THEN s[i] ELSE t[i - m]
  BY <1>1, <1>2
<1> HIDE DEF u, m, n
<1>4. ASSUME NEW i \in 1 .. m + n PROVE u[i] \in ToSet(s) \cup ToSet(t)
  <2>1. CASE i <= m
    <3>1. i \in DOMAIN s /\ u[i] = s[i]
      BY <1>3, <2>1
    <3>2. QED
      BY <3>1 DEF ToSet
  <2>2. CASE ~(i <= m)
    <3>1. i - m \in 1 .. n /\ u[i] = t[i - m]
      BY <1>3, <2>2
    <3>2. QED
      BY <1>3, <3>1 DEF ToSet
  <2>3. QED
    BY <2>1, <2>2
<1>5. ASSUME NEW i \in 1 .. m PROVE s[i] \in ToSet(u)
  <2>1. i \in 1 .. m + n /\ u[i] = s[i]
    BY <1>3
  <2>2. QED
    BY <1>3, <2>1 DEF ToSet
<1>6. ASSUME NEW i \in 1 .. n PROVE t[i] \in ToSet(u)
  <2>1. m + i \in 1 .. m + n /\ ~(m + i <= m) /\ (m + i) - m = i
    BY <1>3
  <2>2. u[m + i] = t[i]
    BY <1>3, <2>1
  <2>3. QED
    BY <1>3, <2>1, <2>2 DEF ToSet
<1>7. ToSet(u) = ToSet(s) \cup ToSet(t)
  <2>1. ToSet(u) = {u[i] : i \in 1 .. m + n} /\ ToSet(s) = {s[i] : i \in 1 .. m} /\ ToSet(t) = {t[i] : i \in 1 .. n}
    BY <1>3 DEF ToSet
  <2>2. QED
    BY <1>4, <1>5, <1>6, <2>1
<1>8. QED
  BY <1>1, <1>7 DEF u

LEMMA PopSet ==
  ASSUME NEW T, NEW s \in Seq(T), s # <<>>
  PROVE  /\ s[Len(s)] \in T /\ s[Len(s)] \in ToSet(s)
         /\ SubSeq(s, 1, Len(s) - 1) \in Seq(T)
         /\ ToSet(s) = ToSet(SubSeq(s, 1, Len(s) - 1)) \cup {s[Len(s)]}
<1> DEFINE m == Len(s)
           u == SubSeq(s, 1, m - 1)
<1>1. /\ m \in Nat /\ m > 0 /\ DOMAIN s = 1 .. m /\ u \in Seq(T)
      /\ DOMAIN u = 1 .. m - 1 /\ \A i \in 1 .. m - 1 : u[i] = s[i]
  OBVIOUS
<1>2. \A i \in 1 .. m : s[i] \in T
  OBVIOUS
<1> HIDE DEF m, u
<1>3. m \in 1 .. m /\ \A i \in 1 .. m : i = m \/ i \in 1 .. m - 1
  BY <1>1
<1>4. ToSet(s) = {s[i] : i \in 1 .. m} /\ ToSet(u) = {s[i] : i \in 1 .. m - 1}
  BY <1>1 DEF ToSet
<1>5. {s[i] : i \in 1 .. m} = {s[i] : i \in 1 .. m - 1} \cup {s[m]}
  BY <1>1, <1>3
<1>6. QED
  BY <1>1, <1>2, <1>3, <1>4, <1>5 DEF m, u

(* A list without repetitions stays one when another is pushed that shares *)
(* nothing with it.                                                        *)
LEMMA PushOnce ==
  ASSUME NEW T, NEW s \in Seq(T), NEW t \in Seq(T), IsInjective(s), IsInjective(t),
         ToSet(s) \cap ToSet(t) = {}
  PROVE  IsInjective(s \o t)
<1> DEFINE u == s \o t
           m == Len(s)
           n == Len(t)
<1>1. /\ m \in Nat /\ n \in Nat /\ DOMAIN s = 1 .. m /\ DOMAIN t = 1 .. n /\ DOMAIN u = 1 .. m + n
      /\ \A i \in 1 .. m + n : u[i] = IF i <= m THEN s[i] ELSE t[i - m]
  OBVIOUS
<1> HIDE DEF u, m, n
<1>2. ASSUME NEW i \in 1 .. m + n, NEW j \in 1 .. m + n, u[i] = u[j] PROVE i = j
  <2>1. CASE i <= m /\ j <= m
    BY <1>1, <1>2, <2>1 DEF IsInjective
  <2>2. CASE ~(i <= m) /\ ~(j <= m)
    <3>1. i - m \in 1 .. n /\ j - m \in 1 .. n /\ t[i - m] = t[j - m]
      BY <1>1, <1>2, <2>2
    <3>2. i - m = j - m
      BY <1>1, <3>1 DEF IsInjective
    <3>3. QED
      BY <1>1, <3>2
  <2>3. ASSUME NEW k \in 1 .. m + n, NEW l \in 1 .. m + n, k <= m, ~(l <= m) PROVE u[k] # u[l]
    <3>1. k \in 1 .. m /\ l - m \in 1 .. n /\ u[k] = s[k] /\ u[l] = t[l - m]
      BY <1>1, <2>3
    <3>2. u[k] \in ToSet(s) /\ u[l] \in ToSet(t)
      BY <1>1, <3>1 DEF ToSet
    <3>3. QED
      BY <3>2
  <2>4. QED
    BY <1>2, <2>1, <2>2, <2>3
<1>3. QED
  BY <1>1, <1>2 DEF IsInjective, u

(* The records of a leaf, pushed one after the other.                      *)
LEMMA LeafRecords ==
  ASSUME NEW t \in Trees, NEW n \in Nodes
  PROVE  LET l == [i \in DOMAIN t.recs[n] |-> <<n, i>>]
         IN  l \in Seq(Places(t)) /\ ToSet(l) = Records(t, n) /\ IsInjective(l)
<1> DEFINE l == [i \in DOMAIN t.recs[n] |-> <<n, i>>]
<1>1. Len(t.recs[n]) \in Nat /\ DOMAIN t.recs[n] = 1 .. Len(t.recs[n])
  BY TreesAssumption
<1>2. \A i \in DOMAIN t.recs[n] : <<n, i>> \in Places(t)
  BY DEF Places, Records
<1>3. l \in Seq(Places(t))
  BY <1>1, <1>2
<1>4. ToSet(l) = Records(t, n)
  BY DEF ToSet, Records
<1>5. IsInjective(l)
  BY DEF IsInjective
<1>6. QED
  BY <1>3, <1>4, <1>5

(* The sort by offsets neither loses nor repeats a record.                 *)
LEMMA SortKeeps ==
  ASSUME tree \in Trees, NEW s \in Seq(Places(tree)), NEW t \in Sorts(s), IsInjective(s)
  PROVE  /\ t \in Seq(Places(tree)) /\ ToSet(t) = ToSet(s) /\ IsInjective(t)
         /\ \A i, j \in DOMAIN t : i < j => Offset(t[i]) <= Offset(t[j])
<1> DEFINE Q == {q \in [DOMAIN s -> DOMAIN s] : \A i, j \in DOMAIN s : i < j =>
                   \/ Offset(s[q[i]]) < Offset(s[q[j]])
                   \/ Offset(s[q[i]]) = Offset(s[q[j]]) /\ q[i] < q[j]}
<1>0. t \in {[i \in DOMAIN s |-> s[p[i]]] : p \in Q}
  BY DEF Sorts
<1>1. PICK p \in Q : t = [i \in DOMAIN s |-> s[p[i]]]
  <2> HIDE DEF Q
  <2> QED
    BY <1>0
<1>2. t \in Seq(Places(tree))
  <2>1. /\ DOMAIN s = 1 .. Len(s) /\ Len(s) \in Nat /\ p \in [DOMAIN s -> DOMAIN s]
        /\ \A i \in DOMAIN s : s[i] \in Places(tree)
    OBVIOUS
  <2>2. QED
    BY <1>1, <2>1
<1>3. /\ p \in [DOMAIN s -> DOMAIN s]
      /\ \A i, j \in DOMAIN s : i < j =>
           \/ Offset(s[p[i]]) < Offset(s[p[j]])
           \/ Offset(s[p[i]]) = Offset(s[p[j]]) /\ p[i] < p[j]
  OBVIOUS
<1> HIDE DEF Q
<1>4. \A i \in DOMAIN s : Offset(s[i]) \in Nat
  <2> SUFFICES ASSUME NEW i \in DOMAIN s PROVE Offset(s[i]) \in Nat
    OBVIOUS
  <2>1. s[i] \in Places(tree)
    OBVIOUS
  <2>a. PICK n \in Nodes : s[i] \in Records(tree, n)
    BY <2>1 DEF Places
  <2>2. PICK k \in DOMAIN tree.recs[n] : s[i] = <<n, k>>
    BY <2>a DEF Records
  <2>3. tree.recs[n][k] \in Nat
    BY TreesAssumption
  <2>4. QED
    BY <2>2, <2>3 DEF Offset
<1>5. DOMAIN s \subseteq Int
  OBVIOUS
<1>6. ASSUME NEW i \in DOMAIN s, NEW j \in DOMAIN s, p[i] = p[j], i < j PROVE FALSE
  <2>1. p[i] \in DOMAIN s
    BY <1>3
  <2>2. Offset(s[p[i]]) \in Nat /\ p[i] \in Int
    BY <1>4, <1>5, <2>1
  <2>3. QED
    BY <1>3, <1>6, <2>2
<1>7. p \in Injection(DOMAIN s, DOMAIN s)
  BY <1>3, <1>5, <1>6 DEF Injection, IsInjective
<1>8. IsFiniteSet(DOMAIN s)
  BY FS_Interval
<1>9. p \in Surjection(DOMAIN s, DOMAIN s)
  BY <1>7, <1>8, FS_Injection
<1>10. \A k \in DOMAIN s : \E i \in DOMAIN s : p[i] = k
  BY <1>9 DEF Surjection
<1>11. DOMAIN t = DOMAIN s /\ \A i \in DOMAIN s : t[i] = s[p[i]] /\ p[i] \in DOMAIN s
  BY <1>1, <1>3
<1>12. ToSet(t) = ToSet(s)
  <2>1. ToSet(t) = {t[i] : i \in DOMAIN s} /\ ToSet(s) = {s[i] : i \in DOMAIN s}
    BY <1>11 DEF ToSet
  <2>2. ASSUME NEW k \in DOMAIN s PROVE s[k] \in {t[i] : i \in DOMAIN s}
    <3>1. PICK i \in DOMAIN s : p[i] = k
      BY <1>10
    <3>2. t[i] = s[k]
      BY <1>11, <3>1
    <3>3. QED
      BY <3>2
  <2>3. ASSUME NEW i \in DOMAIN s PROVE t[i] \in {s[k] : k \in DOMAIN s}
    BY <1>11
  <2>4. QED
    BY <2>1, <2>2, <2>3
<1>13. IsInjective(t)
  BY <1>7, <1>11 DEF IsInjective, Injection
<1>14. ASSUME NEW i \in DOMAIN t, NEW j \in DOMAIN t, i < j PROVE Offset(t[i]) <= Offset(t[j])
  <2>1. i \in DOMAIN s /\ j \in DOMAIN s /\ t[i] = s[p[i]] /\ t[j] = s[p[j]] /\ p[i] \in DOMAIN s /\ p[j] \in DOMAIN s
    BY <1>11
  <2>2. Offset(s[p[i]]) \in Nat /\ Offset(s[p[j]]) \in Nat
    BY <1>4, <2>1
  <2>3. Offset(s[p[i]]) < Offset(s[p[j]]) \/ Offset(s[p[i]]) = Offset(s[p[j]])
    BY <1>3, <1>14, <2>1
  <2>4. QED
    BY <2>1, <2>2, <2>3
<1>15. QED
  BY <1>2, <1>12, <1>13, <1>14

(* A walk whose stack is empty has the whole index.                        *)
LEMMA WalkDone ==
  ASSUME IInv, NEW c \in Callers, pc[c] = "walk", stack[c] = <<>>
  PROVE  ToSet(out[c]) = Index(tree) /\ IsInjective(out[c])
<1>1. tree \in Trees /\ visited[c] \in SUBSET Nodes /\ WalkInv(c)
  BY DEF IInv, TypeOK
<1>2. Followed(c) = visited[c]
  <2>1. ToSet(stack[c]) = {}
    BY DEF ToSet
  <2>2. QED
    BY <2>1 DEF Followed
<1>3. ToSet(tree.root) \subseteq visited[c] /\ Closed(tree, visited[c]) /\ visited[c] \subseteq Reachable(tree)
  BY <1>1, <1>2 DEF WalkInv, Closed
<1>4. visited[c] = Reachable(tree)
  BY <1>1, <1>3, ReachableIsLeast
<1>5. QED
  BY <1>1, <1>4 DEF WalkInv, Index, Pushed

(* The initial state.                                                      *)
LEMMA InitInv == Init => IInv
<1> SUFFICES ASSUME Init PROVE IInv
  OBVIOUS
<1>1. TypeOK
  BY DEF Init, TypeOK
<1>2. IndexIsWhole
  BY DEF Init, IndexIsWhole
<1>3. ASSUME NEW c \in Callers PROVE WalkInv(c)
  <2>1. stack[c] = <<>> /\ out[c] = <<>> /\ visited[c] = {} /\ pc[c] = "idle"
    BY <1>3 DEF Init
  <2>2. QED
    BY <2>1 DEF WalkInv, Followed, Pushed, ToSet, IsInjective
<1>4. QED
  BY <1>1, <1>2, <1>3 DEF Init, IInv

(* Nothing that is said of the file alone changes while the file does not. *)
LEMMA SameFile ==
  ASSUME tree' = tree
  PROVE  /\ Reachable(tree)' = Reachable(tree) /\ Index(tree)' = Index(tree)
         /\ Places(tree)' = Places(tree)
         /\ \A s : IsIndex(s)' <=> IsIndex(s)
<1>1. Reachable(tree)' = Reachable(tree)
  BY DEF Reachable, Closed
<1>2. Index(tree)' = Index(tree)
  BY <1>1 DEF Index, Records
<1>3. Places(tree)' = Places(tree)
  BY DEF Places, Records
<1>4. QED
  BY <1>1, <1>2, <1>3 DEF IsIndex, Offset

(* What the parts of the invariant say after a step, the file being what   *)
(* it was.                                                                 *)
LEMMA WalkAfter ==
  ASSUME tree' = tree, NEW c \in Callers,
         Followed(c)' \subseteq Reachable(tree),
         pc'[c] = "walk" => ToSet(tree.root) \subseteq Followed(c)',
         \A n \in visited'[c] : tree.kind[n] = "inner" => ToSet(tree.kids[n]) \subseteq Followed(c)',
         ToSet(out'[c]) = UNION {Records(tree, n) : n \in {m \in visited'[c] : tree.kind[m] = "leaf"}},
         IsInjective(out'[c])
  PROVE  WalkInv(c)'
<1>1. Reachable(tree)' = Reachable(tree)
  BY SameFile
<1>2. Pushed(c, visited[c])'
  BY DEF Pushed, Records
<1>3. QED
  BY <1>1, <1>2 DEF WalkInv

(* A walk that keeps its stack and its lists, and does not start.          *)
LEMMA KeptWalk ==
  ASSUME IInv, NEW d \in Callers, tree' = tree, pc'[d] = "walk" => pc[d] = "walk",
         stack'[d] = stack[d], visited'[d] = visited[d], out'[d] = out[d]
  PROVE  WalkInv(d)'
<1>1. WalkInv(d)
  BY DEF IInv
<1>2. Followed(d)' = Followed(d)
  BY DEF Followed
<1>3. QED
  BY <1>1, <1>2, WalkAfter DEF WalkInv, Pushed

(* A walk before its first step, and after its last.                       *)
LEMMA FreshWalk ==
  ASSUME tree \in Trees, NEW c \in Callers, tree' = tree, visited'[c] = {}, out'[c] = <<>>,
         ToSet(stack'[c]) \subseteq ToSet(tree.root),
         pc'[c] = "walk" => stack'[c] = tree.root
  PROVE  WalkInv(c)'
<1>1. ToSet(tree.root) \subseteq Reachable(tree)
  BY ReachableIsClosed
<1>2. Followed(c)' = ToSet(stack'[c])
  BY DEF Followed
<1>3. /\ ToSet(out'[c]) = UNION {Records(tree, n) : n \in {m \in visited'[c] : tree.kind[m] = "leaf"}}
      /\ IsInjective(out'[c])
  BY DEF ToSet, IsInjective
<1>4. QED
  BY <1>1, <1>2, <1>3, WalkAfter

(* The same of the index that is kept.                                     *)
LEMMA WholeAfter ==
  ASSUME tree' = tree,
         \A s \in once' : IsIndex(s),
         \A c \in Callers : result'[c] = "ok" => IsIndex(value'[c])
  PROVE  IndexIsWhole'
BY SameFile DEF IndexIsWhole

(* A step of caller c that visits nothing.                                 *)
LEMMA SameWalk ==
  ASSUME IInv, NEW c \in Callers, tree' = tree, visited' = visited, out' = out,
         stack' = stack, pc'[c] # "walk", \A d \in Callers : d # c => pc'[d] = pc[d]
  PROVE  \A d \in Callers : WalkInv(d)'
BY KeptWalk

(* Pushing the records of a leaf that is new.                              *)
LEMMA LeafPushed ==
  ASSUME IInv, NEW c \in Callers, NEW n \in Nodes, n \notin visited[c], tree.kind[n] = "leaf"
  PROVE  LET o == out[c] \o [i \in DOMAIN tree.recs[n] |-> <<n, i>>]
             V == visited[c] \cup {n}
         IN  /\ o \in Seq(Places(tree)) /\ IsInjective(o)
             /\ ToSet(o) = UNION {Records(tree, k) : k \in {m \in V : tree.kind[m] = "leaf"}}
<1> DEFINE l == [i \in DOMAIN tree.recs[n] |-> <<n, i>>]
           L == UNION {Records(tree, k) : k \in {m \in visited[c] : tree.kind[m] = "leaf"}}
<1>1. tree \in Trees /\ out[c] \in Seq(Places(tree)) /\ ToSet(out[c]) = L /\ IsInjective(out[c])
  BY DEF IInv, TypeOK, WalkInv, Pushed
<1>2. l \in Seq(Places(tree)) /\ ToSet(l) = Records(tree, n) /\ IsInjective(l)
  BY <1>1, LeafRecords
<1>3. L \cap Records(tree, n) = {}
  BY DEF Records
<1>4. UNION {Records(tree, k) : k \in {m \in visited[c] \cup {n} : tree.kind[m] = "leaf"}} = L \cup Records(tree, n)
  OBVIOUS
<1> HIDE DEF l, L
<1>5. out[c] \o l \in Seq(Places(tree)) /\ ToSet(out[c] \o l) = L \cup Records(tree, n)
  BY <1>1, <1>2, PushSet
<1>6. IsInjective(out[c] \o l)
  BY <1>1, <1>2, <1>3, PushOnce
<1>7. QED
  BY <1>4, <1>5, <1>6 DEF l

(* Every step preserves the invariant.                                     *)
LEMMA StepInv == IInv /\ [Next]_vars => IInv'
<1> SUFFICES ASSUME IInv, [Next]_vars PROVE IInv'
  OBVIOUS
<1>a. /\ tree \in Trees /\ TypeOK /\ IndexIsWhole
      /\ \A c \in Callers : WalkInv(c)
      /\ \A c \in Callers : pc[c] = "idle" => visited[c] = {}
  BY DEF IInv, TypeOK
<1>b. /\ Reachable(tree) \subseteq Nodes
      /\ ToSet(tree.root) \subseteq Reachable(tree)
      /\ Closed(tree, Reachable(tree))
  BY <1>a, ReachableIsClosed
<1>c. tree.kids \in [Nodes -> Seq(Nodes)] /\ tree.root \in Seq(Nodes)
  BY <1>a, TreesAssumption
<1>d. /\ \A s \in once : IsIndex(s)
      /\ \A c \in Callers : result[c] = "ok" => IsIndex(value[c])
  BY <1>a DEF IndexIsWhole
<1>e. <<>> \in Seq(Nodes) /\ <<>> \in Seq(Places(tree)) /\ ToSet(<<>>) = {}
  BY DEF ToSet
<1>1. ASSUME NEW c \in Callers, Chunks(c) PROVE IInv'
  <2>0. /\ tree' = tree /\ once' = once /\ visited' = visited /\ out' = out /\ failed' = failed
        /\ pc[c] = "idle" /\ visited[c] = {} /\ \A d \in Callers : d # c => pc'[d] = pc[d]
    BY <1>1, <1>a DEF Chunks, End, TypeOK
  <2>1. TypeOK'
    <3>1. /\ pc' \in [Callers -> {"idle", "walk", "take", "done"}]
          /\ result' \in [Callers -> {"none", "ok", "unresolved", "TooLarge", "Malformed", "Source"}]
      BY <1>1, <1>a DEF Chunks, End, TypeOK
    <3>2. stack' \in [Callers -> Seq(Nodes)] /\ value' \in [Callers -> Seq(Places(tree))]
      <4> DEFINE T == Seq(Places(tree))
                 N == Seq(Nodes)
      <4>1. /\ stack \in [Callers -> N] /\ value \in [Callers -> T] /\ tree.root \in N
            /\ \A s \in once : s \in T
        BY <1>a, <1>c DEF TypeOK
      <4> HIDE DEF T, N
      <4>2. stack' \in [Callers -> N] /\ value' \in [Callers -> T]
        BY <1>1, <4>1 DEF Chunks
      <4>3. QED
        BY <4>2 DEF T, N
    <3>3. QED
      BY <1>a, <2>0, <3>1, <3>2, SameFile DEF TypeOK
  <2>2. IndexIsWhole'
    <3>1. \A d \in Callers : result'[d] = "ok" => IsIndex(value'[d])
      BY <1>1, <1>a, <1>d DEF Chunks, End, TypeOK
    <3>2. QED
      BY <1>d, <2>0, <3>1, WholeAfter
  <2>3. ASSUME NEW d \in Callers PROVE WalkInv(d)'
    <3>1. CASE pc'[c] # "walk" /\ stack' = stack
      BY <2>0, <3>1, SameWalk
    <3>2. CASE stack' = [stack EXCEPT ![c] = tree.root] /\ d = c
      <4>1. stack'[c] = tree.root
        BY <1>a, <3>2 DEF TypeOK
      <4>2. out[c] = <<>>
        <5>1. ToSet(out[c]) = {} /\ out[c] \in Seq(Places(tree))
          BY <1>a, <2>0 DEF WalkInv, Pushed, TypeOK
        <5>2. \A i \in DOMAIN out[c] : out[c][i] \in ToSet(out[c])
          BY DEF ToSet
        <5>3. 1 \notin DOMAIN out[c]
          BY <5>1, <5>2
        <5>4. QED
          BY <5>1, <5>3
      <4>3. QED
        BY <1>a, <2>0, <3>2, <4>1, <4>2, FreshWalk
    <3>3. CASE stack' = [stack EXCEPT ![c] = tree.root] /\ d # c
      <4>1. stack'[d] = stack[d]
        BY <1>a, <3>3 DEF TypeOK
      <4>2. QED
        BY <2>0, <3>3, <4>1, KeptWalk
    <3>4. (pc'[c] # "walk" /\ stack' = stack) \/ stack' = [stack EXCEPT ![c] = tree.root]
      BY <1>1, <1>a DEF Chunks, End, TypeOK
    <3>5. QED
      BY <3>1, <3>2, <3>3, <3>4
  <2>4. \A d \in Callers : pc'[d] = "idle" => visited'[d] = {}
    BY <1>a, <2>0
  <2>5. QED
    BY <2>1, <2>2, <2>3, <2>4 DEF IInv
<1>2. ASSUME NEW c \in Callers, ResolvedChunks(c) PROVE IInv'
  <2>0. /\ tree' = tree /\ once' = once /\ visited' = visited /\ out' = out /\ stack' = stack
        /\ failed' = failed /\ pc'[c] = "done" /\ \A e \in Callers : e # c => pc'[e] = pc[e]
    BY <1>2, <1>a DEF ResolvedChunks, End, TypeOK
  <2>1. TypeOK'
    <3>1. /\ pc' \in [Callers -> {"idle", "walk", "take", "done"}]
          /\ result' \in [Callers -> {"none", "ok", "unresolved", "TooLarge", "Malformed", "Source"}]
      BY <1>2, <1>a DEF ResolvedChunks, End, TypeOK
    <3>2. value' \in [Callers -> Seq(Places(tree))]
      <4> DEFINE T == Seq(Places(tree))
      <4>1. value \in [Callers -> T] /\ \A s \in once : s \in T
        BY <1>a DEF TypeOK
      <4> HIDE DEF T
      <4>2. value' \in [Callers -> T]
        BY <1>2, <4>1 DEF ResolvedChunks
      <4>3. QED
        BY <4>2 DEF T
    <3>3. QED
      BY <1>a, <2>0, <3>1, <3>2, SameFile DEF TypeOK
  <2>2. IndexIsWhole'
    <3>1. \A d \in Callers : result'[d] = "ok" => IsIndex(value'[d])
      BY <1>2, <1>a, <1>d DEF ResolvedChunks, End, TypeOK
    <3>2. QED
      BY <1>d, <2>0, <3>1, WholeAfter
  <2>3. \A d \in Callers : WalkInv(d)'
    BY <2>0, SameWalk
  <2>4. QED
    BY <1>a, <2>0, <2>1, <2>2, <2>3 DEF IInv
<1>3. ASSUME NEW c \in Callers, Visit(c) PROVE IInv'
  <2> DEFINE n == Top(c)
             leaf == tree.kind[n] = "leaf"
             push == out[c] \o [i \in DOMAIN tree.recs[n] |-> <<n, i>>]
             V == visited[c] \cup {n}
  <2>0. /\ pc[c] = "walk" /\ pc' = pc /\ tree' = tree /\ once' = once /\ result' = result
        /\ value' = value /\ failed' = failed /\ n \notin visited[c] /\ tree.kind[n] # "bad"
    BY <1>3 DEF Visit, Pops
  <2>1. /\ n \in Nodes /\ n \in ToSet(stack[c]) /\ Rest(c) \in Seq(Nodes)
        /\ ToSet(stack[c]) = ToSet(Rest(c)) \cup {n}
    <3>1. stack[c] \in Seq(Nodes) /\ stack[c] # <<>>
      BY <1>3, <1>a DEF Visit, Pops, TypeOK
    <3>2. QED
      BY <3>1, PopSet DEF Top, Rest
  <2>2. /\ tree.kids[n] \in Seq(Nodes)
        /\ Rest(c) \o tree.kids[n] \in Seq(Nodes)
        /\ ToSet(Rest(c) \o tree.kids[n]) = ToSet(Rest(c)) \cup ToSet(tree.kids[n])
    BY <1>c, <2>1, PushSet
  <2>3. leaf => /\ push \in Seq(Places(tree)) /\ IsInjective(push)
                /\ ToSet(push) = UNION {Records(tree, k) : k \in {m \in V : tree.kind[m] = "leaf"}}
    BY <2>0, <2>1, LeafPushed
  <2>4. /\ visited' = [visited EXCEPT ![c] = V]
        /\ out' = [out EXCEPT ![c] = IF leaf THEN push ELSE out[c]]
        /\ stack' = [stack EXCEPT ![c] = IF leaf THEN Rest(c) ELSE Rest(c) \o tree.kids[n]]
    BY <1>3 DEF Visit
  <2>5. /\ visited'[c] = V
        /\ out'[c] = (IF leaf THEN push ELSE out[c])
        /\ stack'[c] = (IF leaf THEN Rest(c) ELSE Rest(c) \o tree.kids[n])
        /\ \A d \in Callers : d # c => visited'[d] = visited[d] /\ out'[d] = out[d] /\ stack'[d] = stack[d]
    BY <1>a, <2>4 DEF TypeOK
  <2>6. n \in Reachable(tree) /\ WalkInv(c)
    BY <1>a, <2>1 DEF WalkInv, Followed
  <2>7. leaf \/ tree.kind[n] = "inner"
    BY <1>a, <2>0, <2>1, TreesAssumption
  <2> HIDE DEF n, leaf, push, V
  <2>8. TypeOK'
    <3>1. visited' \in [Callers -> SUBSET Nodes]
      BY <1>a, <2>1, <2>4 DEF TypeOK, V
    <3>2. out' \in [Callers -> Seq(Places(tree))] /\ stack' \in [Callers -> Seq(Nodes)]
      <4> DEFINE T == Seq(Places(tree))
                 N == Seq(Nodes)
      <4>1. /\ out \in [Callers -> T] /\ stack \in [Callers -> N] /\ (leaf => push \in T)
            /\ Rest(c) \in N /\ Rest(c) \o tree.kids[n] \in N
        BY <1>a, <2>1, <2>2, <2>3 DEF TypeOK
      <4> HIDE DEF T, N
      <4>a. (IF leaf THEN push ELSE out[c]) \in T
        BY <4>1
      <4>b. (IF leaf THEN Rest(c) ELSE Rest(c) \o tree.kids[n]) \in N
        BY <4>1
      <4>2. out' \in [Callers -> T] /\ stack' \in [Callers -> N]
        BY <2>4, <4>1, <4>a, <4>b
      <4>3. QED
        BY <4>2 DEF T, N
    <3>3. QED
      BY <1>a, <2>0, <3>1, <3>2, SameFile DEF TypeOK
  <2>9. IndexIsWhole'
    BY <1>d, <2>0, WholeAfter
  <2>10. WalkInv(c)'
    <3>0. Followed(c)' = V \cup (IF leaf THEN ToSet(Rest(c)) ELSE ToSet(Rest(c)) \cup ToSet(tree.kids[n]))
      BY <2>2, <2>5 DEF Followed
    <3>1. Followed(c) \subseteq Followed(c)'
      BY <2>1, <3>0 DEF Followed, V
    <3>2. ~leaf => ToSet(tree.kids[n]) \subseteq Reachable(tree)
      BY <1>b, <2>6, <2>7 DEF Closed
    <3>3. Followed(c)' \subseteq Reachable(tree)
      BY <2>1, <2>6, <3>0, <3>2 DEF WalkInv, Followed, V
    <3>4. pc'[c] = "walk" => ToSet(tree.root) \subseteq Followed(c)'
      BY <2>0, <2>6, <3>1 DEF WalkInv
    <3>5. ASSUME NEW m \in visited'[c], tree.kind[m] = "inner"
          PROVE  ToSet(tree.kids[m]) \subseteq Followed(c)'
      <4>1. CASE m \in visited[c]
        BY <2>6, <3>1, <3>5, <4>1 DEF WalkInv
      <4>2. CASE m = n
        BY <3>0, <3>5, <4>2 DEF leaf
      <4>3. QED
        BY <2>5, <4>1, <4>2 DEF V
    <3>6. /\ ToSet(out'[c]) = UNION {Records(tree, k) : k \in {m \in visited'[c] : tree.kind[m] = "leaf"}}
          /\ IsInjective(out'[c])
      <4>1. CASE leaf
        BY <2>3, <2>5, <4>1
      <4>2. CASE ~leaf
        <5>1. {m \in V : tree.kind[m] = "leaf"} = {m \in visited[c] : tree.kind[m] = "leaf"}
          BY <4>2 DEF V, leaf
        <5>2. QED
          BY <2>5, <2>6, <4>2, <5>1 DEF WalkInv, Pushed
      <4>3. QED
        BY <4>1, <4>2
    <3>7. QED
      BY <2>0, <3>3, <3>4, <3>5, <3>6, WalkAfter
  <2>11. ASSUME NEW d \in Callers, d # c PROVE WalkInv(d)'
    BY <2>0, <2>5, <2>11, KeptWalk
  <2>12. \A d \in Callers : pc[d] = "idle" => visited'[d] = {}
    BY <1>a, <2>0, <2>5
  <2>13. QED
    BY <2>0, <2>8, <2>9, <2>10, <2>11, <2>12 DEF IInv
<1>4. ASSUME NEW c \in Callers, Skip(c) PROVE IInv'
  <2>0. /\ tree' = tree /\ once' = once /\ pc' = pc /\ pc[c] = "walk" /\ Top(c) \in visited[c]
        /\ visited' = visited /\ out' = out /\ result' = result /\ value' = value /\ failed' = failed
        /\ stack' = [stack EXCEPT ![c] = Rest(c)] /\ stack[c] # <<>>
    BY <1>4 DEF Skip, Pops
  <2>a. stack'[c] = Rest(c) /\ \A d \in Callers : d # c => stack'[d] = stack[d]
    BY <1>a, <2>0 DEF TypeOK
  <2>b. Rest(c) \in Seq(Nodes) /\ ToSet(stack[c]) = ToSet(Rest(c)) \cup {Top(c)}
    <3>1. stack[c] \in Seq(Nodes)
      BY <1>a DEF TypeOK
    <3>2. QED
      BY <2>0, <3>1, PopSet DEF Top, Rest
  <2>1. TypeOK'
    <3>1. stack' \in [Callers -> Seq(Nodes)]
      <4> DEFINE N == Seq(Nodes)
      <4>1. stack \in [Callers -> N] /\ Rest(c) \in N
        BY <1>a, <2>b DEF TypeOK
      <4> HIDE DEF N
      <4>2. stack' \in [Callers -> N]
        BY <2>0, <4>1
      <4>3. QED
        BY <4>2 DEF N
    <3>2. QED
      BY <1>a, <2>0, <3>1, SameFile DEF TypeOK
  <2>2. IndexIsWhole'
    BY <1>d, <2>0, WholeAfter
  <2>3. WalkInv(c)'
    <3>1. WalkInv(c) /\ Followed(c)' = Followed(c)
      BY <1>a, <2>0, <2>a, <2>b DEF Followed
    <3>2. QED
      BY <2>0, <3>1, WalkAfter DEF WalkInv, Pushed
  <2>4. ASSUME NEW d \in Callers, d # c PROVE WalkInv(d)'
    BY <2>0, <2>a, <2>4, KeptWalk
  <2>5. QED
    BY <1>a, <2>0, <2>1, <2>2, <2>3, <2>4 DEF IInv
<1>5. ASSUME NEW c \in Callers, WalkFails(c) PROVE IInv'
  <2>0. /\ tree' = tree /\ once' = once /\ visited' = visited /\ out' = out /\ stack' = stack
        /\ value' = value /\ pc'[c] = "done" /\ \A d \in Callers : d # c => pc'[d] = pc[d]
    BY <1>5, <1>a DEF WalkFails, End, TypeOK
  <2>1. TypeOK'
    <3>1. \E how \in {"TooLarge", "Malformed", "Source"} : End(c, how)
      BY <1>5, Zenon DEF WalkFails
    <3>2. failed' = failed \/ failed' = [failed EXCEPT ![c] = TRUE]
      BY <1>5, Zenon DEF WalkFails
    <3>3. failed' \in [Callers -> BOOLEAN]
      BY <1>a, <3>2, Zenon DEF TypeOK
    <3>4. /\ pc' \in [Callers -> {"idle", "walk", "take", "done"}]
          /\ result' \in [Callers -> {"none", "ok", "unresolved", "TooLarge", "Malformed", "Source"}]
      BY <1>a, <3>1 DEF End, TypeOK
    <3>5. QED
      BY <1>a, <2>0, <3>3, <3>4, SameFile DEF TypeOK
  <2>2. \A d \in Callers : result'[d] = "ok" => result[d] = "ok"
    BY <1>5, <1>a DEF WalkFails, End, TypeOK
  <2>3. IndexIsWhole'
    BY <1>d, <2>0, <2>2, WholeAfter
  <2>4. \A d \in Callers : WalkInv(d)'
    BY <2>0, SameWalk
  <2>5. QED
    BY <1>a, <2>0, <2>1, <2>3, <2>4 DEF IInv
<1>6. ASSUME NEW c \in Callers, Set(c) PROVE IInv'
  <2>0. /\ tree' = tree /\ visited' = visited /\ out' = out /\ stack' = stack
        /\ result' = result /\ value' = value /\ failed' = failed
        /\ pc' = [pc EXCEPT ![c] = "take"]
        /\ pc'[c] = "take" /\ \A d \in Callers : d # c => pc'[d] = pc[d]
    BY <1>6, <1>a DEF Set, TypeOK
  <2>1. PICK s \in Sorts(out[c]) : once' = IF once = {} THEN {s} ELSE once
    BY <1>6 DEF Set
  <2>2. out[c] \in Seq(Places(tree)) /\ ToSet(out[c]) = Index(tree) /\ IsInjective(out[c])
    <3>1. out[c] \in Seq(Places(tree))
      BY <1>a DEF TypeOK
    <3>2. QED
      BY <1>6, <3>1, WalkDone DEF Set
  <2>3. /\ s \in Seq(Places(tree)) /\ ToSet(s) = Index(tree) /\ IsInjective(s)
        /\ \A i, j \in DOMAIN s : i < j => Offset(s[i]) <= Offset(s[j])
    BY <1>a, <2>2, SortKeeps
  <2>4. IsIndex(s)
    BY <2>3 DEF IsIndex
  <2>5. TypeOK'
    <3> DEFINE T == Seq(Places(tree))
    <3>1. s \in T /\ \A x \in once : x \in T
      BY <1>a, <2>3 DEF TypeOK
    <3> HIDE DEF T
    <3>2. \A x \in once' : x \in T
      BY <2>1, <3>1
    <3>3. pc' \in [Callers -> {"idle", "walk", "take", "done"}]
      BY <1>a, <2>0 DEF TypeOK
    <3>4. QED
      BY <1>a, <2>0, <3>2, <3>3, SameFile DEF TypeOK, T
  <2>6. IndexIsWhole'
    <3>1. \A x \in once' : IsIndex(x)
      BY <1>d, <2>1, <2>4
    <3>2. QED
      BY <1>d, <2>0, <3>1, WholeAfter
  <2>7. \A d \in Callers : WalkInv(d)'
    BY <2>0, SameWalk
  <2>8. QED
    BY <1>a, <2>0, <2>5, <2>6, <2>7 DEF IInv
<1>7. ASSUME NEW c \in Callers, Take(c) PROVE IInv'
  <2>0. /\ tree' = tree /\ once' = once /\ visited' = visited /\ out' = out /\ stack' = stack
        /\ failed' = failed /\ pc'[c] = "done" /\ \A d \in Callers : d # c => pc'[d] = pc[d]
    BY <1>7, <1>a DEF Take, End, TypeOK
  <2>1. PICK s \in once : value' = [value EXCEPT ![c] = s]
    BY <1>7 DEF Take
  <2>2. TypeOK'
    <3> DEFINE T == Seq(Places(tree))
    <3>1. value \in [Callers -> T] /\ s \in T
      BY <1>a, <2>1 DEF TypeOK
    <3> HIDE DEF T
    <3>2. value' \in [Callers -> T]
      BY <2>1, <3>1
    <3>3. /\ pc' \in [Callers -> {"idle", "walk", "take", "done"}]
          /\ result' \in [Callers -> {"none", "ok", "unresolved", "TooLarge", "Malformed", "Source"}]
      BY <1>7, <1>a DEF Take, End, TypeOK
    <3>4. QED
      BY <1>a, <2>0, <3>2, <3>3, SameFile DEF TypeOK, T
  <2>3. \A d \in Callers : result'[d] = "ok" => IsIndex(value'[d])
    <3>1. value'[c] = s /\ IsIndex(s)
      BY <1>a, <1>d, <2>1 DEF TypeOK
    <3>2. \A d \in Callers : d # c => result'[d] = result[d] /\ value'[d] = value[d]
      BY <1>7, <1>a, <2>1 DEF Take, End, TypeOK
    <3>3. QED
      BY <1>d, <3>1, <3>2
  <2>4. IndexIsWhole'
    BY <1>d, <2>0, <2>3, WholeAfter
  <2>5. \A d \in Callers : WalkInv(d)'
    BY <2>0, SameWalk
  <2>6. QED
    BY <1>a, <2>0, <2>2, <2>4, <2>5 DEF IInv
<1>8. ASSUME NEW c \in Callers, Return(c) PROVE IInv'
  <2>0. /\ tree' = tree /\ once' = once /\ pc'[c] = "idle" /\ visited'[c] = {} /\ out'[c] = <<>>
        /\ stack'[c] = <<>> /\ result'[c] = "none"
    BY <1>8, <1>a DEF Return, TypeOK
  <2>1. TypeOK'
    <3> DEFINE T == Seq(Places(tree))
               N == Seq(Nodes)
    <3>1. /\ value \in [Callers -> T] /\ out \in [Callers -> T] /\ stack \in [Callers -> N]
          /\ <<>> \in T /\ <<>> \in N
      BY <1>a, <1>e DEF TypeOK
    <3> HIDE DEF T, N
    <3>2. value' \in [Callers -> T] /\ out' \in [Callers -> T] /\ stack' \in [Callers -> N]
      BY <1>8, <3>1 DEF Return
    <3>3. /\ pc' \in [Callers -> {"idle", "walk", "take", "done"}]
          /\ result' \in [Callers -> {"none", "ok", "unresolved", "TooLarge", "Malformed", "Source"}]
          /\ visited' \in [Callers -> SUBSET Nodes]
      BY <1>8, <1>a DEF Return, TypeOK
    <3>4. failed' \in [Callers -> BOOLEAN]
      BY <1>8, <1>a DEF Return, TypeOK
    <3>5. QED
      BY <1>a, <2>0, <3>2, <3>3, <3>4, SameFile DEF TypeOK, T, N
  <2>2. \A d \in Callers : d # c => /\ result'[d] = result[d] /\ value'[d] = value[d]
                                     /\ pc'[d] = pc[d] /\ visited'[d] = visited[d]
                                     /\ out'[d] = out[d] /\ stack'[d] = stack[d]
    BY <1>8, <1>a DEF Return, TypeOK
  <2>3. IndexIsWhole'
    BY <1>d, <2>0, <2>2, WholeAfter
  <2>4. WalkInv(c)'
    BY <1>a, <1>e, <2>0, FreshWalk
  <2>5. ASSUME NEW d \in Callers, d # c PROVE WalkInv(d)'
    BY <2>0, <2>2, <2>5, KeptWalk
  <2>6. \A d \in Callers : pc'[d] = "idle" => visited'[d] = {}
    BY <1>a, <2>0, <2>2
  <2>7. QED
    BY <2>1, <2>3, <2>4, <2>5, <2>6 DEF IInv
<1>9. CASE UNCHANGED vars
  <2>1. /\ tree' = tree /\ once' = once /\ pc' = pc /\ stack' = stack /\ visited' = visited
        /\ out' = out /\ result' = result /\ value' = value /\ failed' = failed
    BY <1>9 DEF vars, local
  <2>2. TypeOK'
    BY <1>a, <2>1, SameFile DEF TypeOK
  <2>3. IndexIsWhole'
    BY <1>d, <2>1, WholeAfter
  <2>4. ASSUME NEW d \in Callers PROVE WalkInv(d)'
    BY <2>1, KeptWalk
  <2>5. QED
    BY <1>a, <2>1, <2>2, <2>3, <2>4 DEF IInv
<1>10. QED
  BY <1>1, <1>2, <1>3, <1>4, <1>5, <1>6, <1>7, <1>8, <1>9 DEF Next, Walk

(* Every behaviour keeps the invariant: the walks of all callers stay      *)
(* inside the file's tree and forget nothing they have still to follow.    *)
THEOREM Invariance == Spec => []IInv
BY InitInv, StepInv, PTL DEF Spec

(* Every variable of the chunk index keeps its type.                       *)
THEOREM TypeCorrect == Spec => []TypeOK
<1>1. IInv => TypeOK
  BY DEF IInv
<1>2. QED
  BY Invariance, <1>1, PTL

(* Whatever the graph of nodes and the interleaving of the callers, the    *)
(* index that is stored or returned is the whole index of the file         *)
(* (index.rs:252-259, btree1.rs:52-94).                                    *)
THEOREM IndexWhole == Spec => []IndexIsWhole
<1>1. IInv => IndexIsWhole
  BY DEF IInv
<1>2. QED
  BY Invariance, <1>1, PTL

(* What a walk has pushed is never more than the file holds.               *)
LEMMA WalkIsBounded ==
  ASSUME IInv, NEW c \in Callers
  PROVE  /\ Cardinality(Reachable(tree)) \in Nat /\ Cardinality(Index(tree)) \in Nat
         /\ Cardinality(visited[c]) \in Nat /\ Cardinality(visited[c]) <= Cardinality(Reachable(tree))
         /\ Len(out[c]) \in Nat /\ Len(out[c]) <= Cardinality(Index(tree))
<1>1. tree \in Trees /\ WalkInv(c) /\ out[c] \in Seq(Places(tree))
  BY DEF IInv, TypeOK
<1>2. Reachable(tree) \subseteq Nodes
  BY <1>1, ReachableIsClosed
<1>3. Index(tree) \subseteq Places(tree)
  BY <1>2 DEF Index, Places
<1>4. IsFiniteSet(Reachable(tree)) /\ IsFiniteSet(Index(tree))
  BY <1>1, <1>2, <1>3, FiniteAssumption, FS_Subset
<1>5. visited[c] \subseteq Reachable(tree)
  BY <1>1 DEF WalkInv, Followed
<1>6. ToSet(out[c]) \subseteq Index(tree)
  BY <1>1, <1>5 DEF WalkInv, Pushed, Index
<1>7. IsFiniteSet(visited[c]) /\ Cardinality(visited[c]) <= Cardinality(Reachable(tree))
  BY <1>4, <1>5, FS_Subset
<1>8. Len(out[c]) \in Nat /\ DOMAIN out[c] = 1 .. Len(out[c])
  BY <1>1
<1>9. out[c] \in Injection(1 .. Len(out[c]), Index(tree))
  <2>1. IsInjective(out[c])
    BY <1>1 DEF WalkInv, Pushed
  <2>2. out[c] \in [1 .. Len(out[c]) -> Index(tree)]
    <3>1. \A i \in 1 .. Len(out[c]) : out[c][i] \in Index(tree)
      BY <1>6, <1>8 DEF ToSet
    <3>2. out[c] = [i \in 1 .. Len(out[c]) |-> out[c][i]]
      BY <1>1, <1>8
    <3>3. QED
      BY <3>1, <3>2
  <2>3. QED
    BY <2>1, <2>2 DEF Injection
<1>10. Cardinality(1 .. Len(out[c])) <= Cardinality(Index(tree))
  BY <1>4, <1>9, FS_Injection
<1>11. Cardinality(1 .. Len(out[c])) = Len(out[c])
  <2> DEFINE m == Len(out[c])
  <2>1. m \in Nat
    BY <1>8
  <2> HIDE DEF m
  <2>2. Cardinality(1 .. m) = IF 1 > m THEN 0 ELSE m - 1 + 1
    BY <2>1, FS_Interval
  <2>3. (IF 1 > m THEN 0 ELSE m - 1 + 1) = m
    BY <2>1
  <2>4. QED
    BY <2>2, <2>3 DEF m
<1>12. QED
  BY <1>4, <1>7, <1>8, <1>10, <1>11, FS_CardinalityType

(* Why call c may have failed with the result r.                           *)
Cause(c, r) ==
  /\ r = "Malformed" => \E n \in Reachable(tree) : tree.kind[n] = "bad"
  /\ r = "TooLarge" => \/ Cardinality(Reachable(tree)) > MaxNodes
                        \/ Cardinality(Index(tree)) > MaxNodes
  /\ r = "Source" => failed'[c]

(* The causes of the failures, the file being what it was.                 *)
LEMMA CausesAfter ==
  ASSUME tree' = tree, \A c \in Callers : Cause(c, result'[c])
  PROVE  FailureHasCause'
BY SameFile DEF FailureHasCause, Cause

(* A walk that gives up has met what it complains of.                      *)
LEMMA FailsForCause ==
  ASSUME IInv, NEW c \in Callers, WalkFails(c)
  PROVE  Cause(c, result'[c])
<1>0. /\ result \in [Callers -> {"none", "ok", "unresolved", "TooLarge", "Malformed", "Source"}]
      /\ failed \in [Callers -> BOOLEAN]
  BY DEF IInv, TypeOK
<1>a. Top(c) \in Reachable(tree)
  <2>1. stack[c] \in Seq(Nodes) /\ stack[c] # <<>> /\ ToSet(stack[c]) \subseteq Reachable(tree)
    BY DEF IInv, TypeOK, WalkInv, Followed, WalkFails, Pops
  <2>2. QED
    BY <2>1, PopSet DEF Top
<1>1. CASE TooLarge(c) /\ End(c, "TooLarge")
  <2>1. result'[c] = "TooLarge"
    BY <1>0, <1>1 DEF End
  <2>2. Cardinality(Reachable(tree)) > MaxNodes \/ Cardinality(Index(tree)) > MaxNodes
    BY <1>1, WalkIsBounded, MaxNodesAssumption DEF TooLarge
  <2>3. QED
    BY <2>1, <2>2 DEF Cause
<1>2. CASE tree.kind[Top(c)] = "bad" /\ End(c, "Malformed")
  <2>1. result'[c] = "Malformed"
    BY <1>0, <1>2 DEF End
  <2>2. QED
    BY <1>a, <1>2, <2>1 DEF Cause
<1>3. CASE End(c, "Source") /\ failed' = [failed EXCEPT ![c] = TRUE]
  <2>1. result'[c] = "Source" /\ failed'[c]
    BY <1>0, <1>3, Zenon DEF End
  <2>2. QED
    BY <2>1 DEF Cause
<1>4. QED
  BY <1>1, <1>2, <1>3, Zenon DEF WalkFails

(* A step of caller c keeps the causes of the failures.                    *)
LEMMA StepKeepsCauses ==
  ASSUME IInv, FailureHasCause, NEW c \in Callers,
         Chunks(c) \/ ResolvedChunks(c) \/ Walk(c) \/ Return(c)
  PROVE  FailureHasCause'
<1>0. /\ result \in [Callers -> {"none", "ok", "unresolved", "TooLarge", "Malformed", "Source"}]
      /\ failed \in [Callers -> BOOLEAN]
  BY DEF IInv, TypeOK
<1>1. /\ tree' = tree
      /\ \A d \in Callers : d # c => result'[d] = result[d] /\ (failed[d] => failed'[d])
  BY <1>0 DEF Chunks, ResolvedChunks, Walk, Visit, Skip, WalkFails, Set, Take, Return, End
<1>2. Cause(c, result'[c])
  <2>1. CASE WalkFails(c)
    BY <2>1, FailsForCause
  <2>2. CASE Visit(c) \/ Skip(c)
    BY <2>2 DEF Visit, Skip, FailureHasCause, Cause
  <2>3. CASE Set(c)
    BY <2>3 DEF Set, FailureHasCause, Cause
  <2>4. CASE Chunks(c) \/ ResolvedChunks(c) \/ Take(c) \/ Return(c)
    <3>1. result'[c] \in {"none", "ok", "unresolved"} \/ (result' = result /\ failed' = failed)
      BY <1>0, <2>4 DEF Chunks, ResolvedChunks, Take, Return, End
    <3>2. QED
      BY <3>1 DEF FailureHasCause, Cause
  <2>5. QED
    BY <2>1, <2>2, <2>3, <2>4 DEF Walk
<1>3. ASSUME NEW d \in Callers, d # c PROVE Cause(d, result'[d])
  BY <1>1, <1>3 DEF FailureHasCause, Cause
<1>4. QED
  BY <1>1, <1>2, <1>3, CausesAfter

(* A walk fails only for a reason: a damaged node it can reach, a file     *)
(* beyond the limit, or a read the source refused in this very call, never *)
(* for what happened to another caller or to an earlier call               *)
(* (btree1.rs:52-94, index.rs:252-259).                                    *)
THEOREM FailuresExplained == Spec => []FailureHasCause
<1>1. Init => FailureHasCause
  BY DEF Init, FailureHasCause
<1>2. IInv /\ FailureHasCause /\ [Next]_vars => FailureHasCause'
  <2> SUFFICES ASSUME IInv, FailureHasCause, [Next]_vars PROVE FailureHasCause'
    OBVIOUS
  <2>1. CASE Next
    BY <2>1, StepKeepsCauses DEF Next
  <2>2. CASE UNCHANGED vars
    <3>1. tree' = tree /\ result' = result /\ failed' = failed
      BY <2>2 DEF vars, local
    <3>2. \A c \in Callers : Cause(c, result'[c])
      BY <3>1 DEF FailureHasCause, Cause
    <3>3. QED
      BY <3>1, <3>2, CausesAfter
  <2>3. QED
    BY <2>1, <2>2
<1>3. QED
  BY Invariance, <1>1, <1>2, PTL DEF Spec
================================================================================
