------------------------------ MODULE IoPlanProofs ------------------------------
(* Proofs about IoPlan, for every file, merging policy and list of ranges. *)
EXTENDS IoPlan, SequenceTheorems, TLAPS

(* Sums and differences of addresses are addresses, and exact as long as   *)
(* nothing wraps.                                                          *)
LEMMA Arithmetic ==
  ASSUME NEW a \in Address, NEW b \in Address
  PROVE  /\ Add(a, b) \in Address
         /\ Sub(a, b) \in Address
         /\ SatSub(a, b) \in Address
         /\ a + b < Width => Add(a, b) = a + b
         /\ b <= a => Sub(a, b) = a - b
         /\ MaxOf(a, b) \in {a, b} /\ a <= MaxOf(a, b) /\ b <= MaxOf(a, b)
BY WidthAssumption DEF Address, Add, Sub, SatSub, MaxOf

(* The fields of a range are numbers.                                      *)
LEMMA RangeFields ==
  ASSUME NEW q \in ByteRanges
  PROVE  q.offset \in Nat /\ q.len \in Nat
BY WidthAssumption DEF ByteRanges, Address

(* A sequence, its domain, its length and its elements.                    *)
LEMMA SeqDomain ==
  ASSUME NEW S, NEW s \in Seq(S)
  PROVE  /\ DOMAIN s = 1 .. Len(s)
         /\ Len(s) \in Nat
         /\ s = <<>> <=> Len(s) = 0
         /\ \A i \in 1 .. Len(s) : s[i] \in S
         /\ s # <<>> => Len(s) \in DOMAIN s /\ s[Len(s)] \in S
BY LenProperties, ElementOfSeq, EmptySeq

(* The initial state.                                                      *)
LEMMA InitInv == Init => IInv
<1>1. <<>> \in Seq(ByteRanges) /\ <<>> \in Seq(Nat) /\ <<>> \in Seq([from : Nat, len : Nat])
      /\ DOMAIN <<>> = {} /\ <<>> \in [{} -> [req : Nat, at : Nat, len : Nat]]
  OBVIOUS
<1>2. QED
  BY <1>1 DEF Init, IInv, TypeOK, PhaseInv, Sorted, Ascending, PlanInFile, MergedIsBounded,
              ScatterExact, ByteRanges, RangesInFile, IsMerged, InFile

PlanInv ==
  /\ \A i \in DOMAIN ranges \ todo : IsPlaced(i)
  /\ Sorted
  /\ Ascending
  /\ PlanInFile
  /\ MergedIsBounded

(* A step that leaves the plan alone keeps what is known of it.            *)
LEMMA PlanFrame ==
  ASSUME PlanInv, UNCHANGED <<ranges, todo, reqs, part>>
  PROVE  PlanInv'
BY DEF PlanInv, IsPlaced, Sorted, Last, Ascending, PlanInFile, RangesInFile, InFile,
       MergedIsBounded, IsMerged

(* One placed range: what the three placing actions have in common.  The   *)
(* requests before the last are left alone, the last may only grow.        *)
PlacingGrows(i) ==
  /\ reqs' \in Seq(ByteRanges)
  /\ reqs' # <<>>
  /\ Len(reqs') \in {Len(reqs), Len(reqs) + 1}
  /\ \A k \in DOMAIN reqs : /\ reqs'[k].offset = reqs[k].offset
                            /\ k < Len(reqs') => reqs'[k] = reqs[k]
  /\ reqs'[Len(reqs')].offset <= ranges[i].offset
  /\ Len(reqs') = Len(reqs) + 1 => reqs'[Len(reqs')].offset = ranges[i].offset

PlacingFits(i, at) ==
  RangesInFile => /\ InFile(reqs'[Len(reqs')])
                  /\ at + ranges[i].len <= reqs'[Len(reqs')].len
                  /\ \A k \in DOMAIN reqs : reqs[k].len <= reqs'[k].len

PlacingBounded(i) ==
  \/ ranges[i].len # 0 /\ reqs'[Len(reqs')].len <= MaxRequest
  \/ ranges[i].len = 0 /\ \A k \in DOMAIN reqs : reqs'[k] = reqs[k]
  \/ Len(reqs') = Len(reqs) + 1

PlacingMaps(i, at) ==
  /\ ranges[i].len # 0 => reqs'[Len(reqs')].offset + at = ranges[i].offset
  /\ part' = [part EXCEPT ![i] = [req |-> Len(reqs'), at |-> at, len |-> ranges[i].len]]
  /\ todo' = todo \ {i}

Placing(i, at) ==
  PlacingGrows(i) /\ PlacingFits(i, at) /\ PlacingBounded(i) /\ PlacingMaps(i, at)

(* Placing a range preserves the invariant.                                *)
LEMMA PlaceInv ==
  ASSUME IInv, NEW i \in todo, phase = "plan", IsNext(i), NEW at \in Nat, Placing(i, at),
         UNCHANGED <<phase, ranges, got, out, result>>
  PROVE  IInv'
<1> DEFINE m == Len(reqs)
           n == Len(reqs')
<1>a. /\ reqs' \in Seq(ByteRanges) /\ reqs' # <<>>
      /\ n \in {m, m + 1}
  BY DEF Placing, PlacingGrows, PlacingFits, PlacingBounded, PlacingMaps
<1>b. \A k \in DOMAIN reqs : /\ reqs'[k].offset = reqs[k].offset
                             /\ k < n => reqs'[k] = reqs[k]
  BY DEF Placing, PlacingGrows, PlacingFits, PlacingBounded, PlacingMaps
<1>c. /\ reqs'[n].offset <= ranges[i].offset
      /\ n = m + 1 => reqs'[n].offset = ranges[i].offset
  BY DEF Placing, PlacingGrows, PlacingFits, PlacingBounded, PlacingMaps
<1>d. ranges[i].len # 0 => reqs'[n].offset + at = ranges[i].offset
  BY DEF Placing, PlacingGrows, PlacingFits, PlacingBounded, PlacingMaps
<1>e. RangesInFile => /\ InFile(reqs'[n])
                      /\ at + ranges[i].len <= reqs'[n].len
                      /\ \A k \in DOMAIN reqs : reqs[k].len <= reqs'[k].len
  BY DEF Placing, PlacingGrows, PlacingFits, PlacingBounded, PlacingMaps
<1>f. \/ ranges[i].len # 0 /\ reqs'[n].len <= MaxRequest
      \/ ranges[i].len = 0 /\ \A k \in DOMAIN reqs : reqs'[k] = reqs[k]
      \/ n = m + 1
  BY DEF Placing, PlacingGrows, PlacingFits, PlacingBounded, PlacingMaps
<1>g. /\ part' = [part EXCEPT ![i] = [req |-> n, at |-> at, len |-> ranges[i].len]]
      /\ todo' = todo \ {i}
  BY DEF Placing, PlacingGrows, PlacingFits, PlacingBounded, PlacingMaps
<1>1. /\ ranges \in Seq(ByteRanges) /\ reqs \in Seq(ByteRanges)
      /\ i \in DOMAIN ranges /\ ranges[i] \in ByteRanges
      /\ part \in [DOMAIN ranges -> [req : Nat, at : Nat, len : Nat]]
  BY SeqDomain DEF IInv, TypeOK
<1>2. /\ DOMAIN reqs = 1 .. m /\ m \in Nat
      /\ DOMAIN reqs' = 1 .. n /\ n \in Nat
      /\ n # 0
      /\ n = m \/ n = m + 1
  <2>1. DOMAIN reqs = 1 .. m /\ m \in Nat /\ (reqs = <<>> <=> m = 0)
    BY <1>1, SeqDomain
  <2>2. /\ DOMAIN reqs' = 1 .. n /\ n \in Nat
        /\ (reqs' = <<>> <=> n = 0)
    BY <1>a, SeqDomain
  <2>3. QED
    BY <1>a, <2>1, <2>2
<1>0. reqs = <<>> <=> m = 0
  BY <1>1, SeqDomain
<1> HIDE DEF m, n
<1>3. /\ \A k \in DOMAIN reqs : reqs[k] \in ByteRanges
      /\ \A k \in DOMAIN reqs' : reqs'[k] \in ByteRanges
  BY <1>1, <1>a, <1>2, ElementOfSeq DEF m, n
<1>4. part'[i] = [req |-> n, at |-> at, len |-> ranges[i].len]
      /\ \A j \in DOMAIN ranges \ {i} : part'[j] = part[j]
  BY <1>1, <1>g
<1>5. TypeOK'
  <2>1. ranges[i].len \in Nat
    BY <1>1, RangeFields
  <2>2. part' \in [DOMAIN ranges' -> [req : Nat, at : Nat, len : Nat]]
    BY <1>1, <1>2, <1>g, <2>1
  <2>3. QED
    BY <1>a, <1>g, <2>2 DEF IInv, TypeOK
<1>6. PhaseInv'
  BY <1>g DEF IInv, PhaseInv
<1>7. \A j \in DOMAIN ranges' \ todo' : IsPlaced(j)'
  <2>1. IsPlaced(i)'
    <3>1. n \in DOMAIN reqs'
      BY <1>2
    <3>2. QED
      BY <1>4, <1>d, <3>1 DEF IsPlaced
  <2>2. ASSUME NEW j \in DOMAIN ranges \ todo PROVE IsPlaced(j)'
    <3>1. IsPlaced(j) /\ j # i
      BY DEF IInv
    <3>2. part'[j] = part[j] /\ part[j].req \in DOMAIN reqs
      BY <1>4, <3>1 DEF IsPlaced
    <3>3. part[j].req \in DOMAIN reqs' /\ reqs'[part[j].req].offset = reqs[part[j].req].offset
      BY <1>b, <1>2, <3>2
    <3>4. QED
      BY <3>1, <3>2, <3>3 DEF IsPlaced
  <2>3. QED
    BY <1>g, <2>1, <2>2
<1>8. Sorted'
  <2>1. ASSUME NEW j \in todo' PROVE reqs'[n].offset <= ranges[j].offset
    <3>0. j \in todo /\ j \in DOMAIN ranges
      BY <1>g DEF IInv, TypeOK
    <3>1. j \in todo /\ ranges[j] \in ByteRanges
      BY <1>1, <3>0, SeqDomain
    <3>2. ranges[i].offset <= ranges[j].offset
      <4>1. ranges[i].offset \in Nat /\ ranges[j].offset \in Nat
        BY <3>1, <1>1, RangeFields
      <4>2. ranges[i].offset < ranges[j].offset \/ ranges[i].offset = ranges[j].offset
        BY <3>1 DEF IsNext
      <4>3. QED
        BY <4>1, <4>2
    <3>3. reqs'[n].offset \in Int /\ ranges[i].offset \in Int /\ ranges[j].offset \in Int
      <4>1. n \in DOMAIN reqs'
        BY <1>2
      <4>2. QED
        BY <1>1, <1>3, <3>1, <4>1, RangeFields
    <3>4. QED
      BY <1>c, <3>2, <3>3
  <2>2. QED
    BY <2>1 DEF Sorted, Last, n
<1>9. Ascending'
  <2>1. ASSUME NEW k \in DOMAIN reqs', k > 1 PROVE reqs'[k - 1].offset <= reqs'[k].offset
    <3>1. CASE k \in DOMAIN reqs
      <4>1. k - 1 \in DOMAIN reqs /\ reqs[k - 1].offset <= reqs[k].offset
        BY <3>1, <2>1, <1>2 DEF IInv, Ascending
      <4>2. QED
        BY <3>1, <4>1, <1>b
    <3>2. CASE k \notin DOMAIN reqs
      <4>1. k = m + 1 /\ k = n /\ reqs # <<>>
        BY <3>2, <2>1, <1>0, <1>2
      <4>2. reqs'[k - 1].offset = reqs[m].offset
        BY <4>1, <1>2, <1>b
      <4>3. reqs[m].offset <= ranges[i].offset
        BY <4>1 DEF IInv, Sorted, Last, m
      <4>4. QED
        BY <4>1, <4>2, <4>3, <1>c
    <3>3. QED
      BY <3>1, <3>2
  <2>2. QED
    BY <2>1 DEF Ascending
<1>10. PlanInFile'
  <2> SUFFICES ASSUME RangesInFile
               PROVE  /\ \A k \in DOMAIN reqs' : InFile(reqs'[k])
                      /\ \A j \in DOMAIN ranges \ todo' :
                           part'[j].at + part'[j].len <= reqs'[part'[j].req].len
    BY DEF PlanInFile, RangesInFile, InFile
  <2>1. ASSUME NEW k \in DOMAIN reqs' PROVE InFile(reqs'[k])
    <3>1. CASE k = n
      BY <3>1, <1>e
    <3>2. CASE k # n
      <4>1. k \in DOMAIN reqs /\ reqs'[k] = reqs[k]
        BY <3>2, <1>2, <1>b
      <4>2. QED
        BY <4>1 DEF IInv, PlanInFile
    <3>3. QED
      BY <3>1, <3>2
  <2>2. ASSUME NEW j \in DOMAIN ranges \ todo
        PROVE  part'[j].at + part'[j].len <= reqs'[part'[j].req].len
    <3>1. part'[j] = part[j] /\ part[j].req \in DOMAIN reqs
      BY <1>4 DEF IInv, IsPlaced
    <3>2. part[j].at + part[j].len <= reqs[part[j].req].len
      BY DEF IInv, PlanInFile
    <3>3. reqs[part[j].req].len <= reqs'[part[j].req].len
      BY <1>e, <3>1
    <3>4. part[j].at \in Nat /\ part[j].len \in Nat
      BY <1>1
    <3>5. reqs[part[j].req].len \in Int /\ reqs'[part[j].req].len \in Int
      <4>1. part[j].req \in DOMAIN reqs'
        BY <3>1, <1>2
      <4>2. QED
        BY <3>1, <4>1, <1>3, RangeFields
    <3>6. QED
      BY <3>1, <3>2, <3>3, <3>4, <3>5
  <2>3. part'[i].at + part'[i].len <= reqs'[part'[i].req].len
    BY <1>4, <1>e
  <2>4. QED
    BY <2>1, <2>2, <2>3, <1>g
<1>11. MergedIsBounded'
  <2> SUFFICES ASSUME NEW k \in DOMAIN reqs', IsMerged(k)' PROVE reqs'[k].len <= MaxRequest
    BY DEF MergedIsBounded
  <2>1. PICK a \in DOMAIN ranges \ todo', b \in DOMAIN ranges \ todo' :
          /\ a # b /\ part'[a].req = k /\ part'[b].req = k
          /\ part'[a].len # 0 /\ part'[b].len # 0
    BY DEF IsMerged
  <2>2. CASE a # i /\ b # i /\ reqs'[k] = reqs[k]
    <3>1. a \in DOMAIN ranges \ todo /\ b \in DOMAIN ranges \ todo
          /\ part'[a] = part[a] /\ part'[b] = part[b]
      BY <2>1, <2>2, <1>4, <1>g
    <3>2. k \in DOMAIN reqs
      BY <3>1, <2>1 DEF IInv, IsPlaced
    <3>3. IsMerged(k)
      BY <3>1, <2>1 DEF IsMerged
    <3>4. QED
      BY <3>2, <3>3, <2>2 DEF IInv, MergedIsBounded
  <2>3. ASSUME NEW c \in DOMAIN ranges \ todo, part'[c].req = m + 1, c # i PROVE FALSE
    BY <2>3, <1>2, <1>4 DEF IInv, IsPlaced
  <2>4. CASE ~(a # i /\ b # i /\ reqs'[k] = reqs[k])
    <3>1. k = n
      <4>1. CASE a = i \/ b = i
        BY <4>1, <2>1, <1>4
      <4>2. CASE a # i /\ b # i
        <5>1. k \in DOMAIN reqs
          BY <4>2, <2>1, <1>4, <1>g DEF IInv, IsPlaced
        <5>2. QED
          BY <5>1, <4>2, <2>4, <1>2, <1>b
      <4>3. QED
        BY <4>1, <4>2
    <3>2. n = m
      <4>1. CASE a # i
        BY <4>1, <2>1, <2>3, <3>1, <1>2, <1>g
      <4>2. CASE b # i
        BY <4>2, <2>1, <2>3, <3>1, <1>2, <1>g
      <4>3. QED
        BY <4>1, <4>2, <2>1
    <3>3. ~(ranges[i].len = 0 /\ \A h \in DOMAIN reqs : reqs'[h] = reqs[h])
      <4>1. k \in DOMAIN reqs
        BY <3>1, <3>2, <1>2
      <4>2. CASE a = i \/ b = i
        <5>1. ranges[i].len # 0
          BY <4>2, <2>1, <1>4
        <5>2. QED
          BY <5>1
      <4>3. CASE a # i /\ b # i
        BY <4>1, <4>3, <2>4
      <4>4. QED
        BY <4>2, <4>3
    <3>4. QED
      BY <3>1, <3>2, <3>3, <1>2, <1>f
  <2>5. QED
    BY <2>2, <2>4
<1>12. ScatterExact'
  BY DEF IInv, ScatterExact
<1>13. QED
  BY <1>5, <1>6, <1>7, <1>8, <1>9, <1>10, <1>11, <1>12 DEF IInv

(* Every step preserves the invariant.                                     *)
LEMMA StepInv == IInv /\ [Next]_vars => IInv'
<1> SUFFICES ASSUME IInv, [Next]_vars PROVE IInv'
  OBVIOUS
<1>a. PlanInv
  BY DEF IInv, PlanInv
<1>b. /\ ranges \in Seq(ByteRanges) /\ reqs \in Seq(ByteRanges)
      /\ todo \subseteq DOMAIN ranges
  BY DEF IInv, TypeOK
<1>c. \A i \in todo : ranges[i] \in ByteRanges
  BY <1>b, SeqDomain
<1>d. /\ DOMAIN reqs = 1 .. Len(reqs) /\ Len(reqs) \in Nat
      /\ reqs # <<>> => Last \in ByteRanges /\ Len(reqs) # 0
  BY <1>b, SeqDomain DEF Last
<1>1. ASSUME NEW rs \in Inputs, Call(rs) PROVE IInv'
  <2>1. rs \in Seq(ByteRanges)
    BY InputsAssumption DEF Address, ByteRanges
  <2>2. reqs = <<>> /\ reqs' = <<>> /\ result = "none" /\ result' = "none" /\ DOMAIN reqs = {}
    BY <1>1 DEF Call, IInv, PhaseInv
  <2>3. TypeOK'
    BY <1>1, <2>1 DEF Call, IInv, TypeOK, Unplaced
  <2>4. QED
    BY <1>1, <2>1, <2>2, <2>3 DEF Call, IInv, PhaseInv, Sorted, Ascending, PlanInFile,
        MergedIsBounded, ScatterExact
<1>2. ASSUME NEW i \in todo, PlaceEmpty(i) PROVE IInv'
  <2> DEFINE q == ranges[i]
  <2>1. q \in ByteRanges /\ q.offset \in Nat /\ q.len = 0
    BY <1>2, <1>c, RangeFields DEF PlaceEmpty
  <2>2. CASE reqs = <<>>
    <3> DEFINE e == [offset |-> q.offset, len |-> 0]
    <3>1. reqs' = <<e>> /\ Len(reqs) = 0 /\ DOMAIN reqs = {}
      BY <1>2, <2>2 DEF PlaceEmpty
    <3>2. e \in ByteRanges
      BY <2>1, WidthAssumption DEF ByteRanges, Address
    <3>3. reqs' \in Seq(ByteRanges) /\ reqs' # <<>> /\ Len(reqs') = 1 /\ reqs'[1] = e
      BY <3>1, <3>2
    <3>4. RangesInFile => q.offset + 0 <= Size
      BY <1>b, <2>1 DEF RangesInFile, InFile
    <3>5. Placing(i, 0)
      BY <1>2, <2>1, <3>1, <3>3, <3>4 DEF PlaceEmpty, InFile, Placing, PlacingGrows, PlacingFits, PlacingBounded,
          PlacingMaps
    <3>6. QED
      BY <1>2, <3>5, PlaceInv DEF PlaceEmpty
  <2>3. CASE reqs # <<>>
    <3>1. reqs' = reqs
      BY <1>2, <2>3 DEF PlaceEmpty
    <3>2. Len(reqs) \in DOMAIN reqs /\ reqs[Len(reqs)] = Last /\ Last \in ByteRanges
      BY <1>d, <2>3 DEF Last
    <3>3. Last.offset <= q.offset
      BY <2>3 DEF IInv, Sorted
    <3>4. RangesInFile => InFile(Last)
      BY <3>2 DEF IInv, PlanInFile
    <3>5. \A k \in DOMAIN reqs : reqs[k].len <= reqs[k].len
      BY <1>b, SeqDomain, RangeFields
    <3>6. 0 + q.len <= Last.len
      BY <2>1, <3>2, RangeFields
    <3>7. part' = [part EXCEPT ![i] = [req |-> Len(reqs), at |-> 0, len |-> q.len]]
          /\ todo' = todo \ {i}
      BY <1>2, <2>1, <3>1 DEF PlaceEmpty
    <3>8. Placing(i, 0)
      BY <1>b, <2>1, <2>3, <3>1, <3>2, <3>3, <3>4, <3>5, <3>6, <3>7 DEF Placing, PlacingGrows, PlacingFits, PlacingBounded, PlacingMaps
    <3>9. QED
      BY <1>2, <3>8, PlaceInv DEF PlaceEmpty
  <2>4. QED
    BY <2>2, <2>3
<1>3. ASSUME NEW i \in todo, PlaceMerged(i) PROVE IInv'
  <2> DEFINE q == ranges[i]
             m == Len(reqs)
             l == MergedLen(i)
             e == [offset |-> Last.offset, len |-> l]
             at == q.offset - Last.offset
  <2>1. /\ reqs # <<>> /\ Last \in ByteRanges /\ q \in ByteRanges
        /\ q.len # 0 /\ Last.offset <= q.offset /\ l <= MaxRequest
        /\ m \in DOMAIN reqs /\ reqs[m] = Last
    BY <1>3, <1>c, <1>d DEF PlaceMerged, Merges, Last
  <2>2. /\ q.offset \in Address /\ q.len \in Address
        /\ Last.offset \in Address /\ Last.len \in Address
    BY <2>1 DEF ByteRanges
  <2>3. l \in Address
    <3>1. Add(q.offset, q.len) \in Address /\ LastEnd \in Address
      BY <2>2, Arithmetic DEF LastEnd
    <3>2. MaxOf(Add(q.offset, q.len), LastEnd) \in Address
      BY <3>1, Arithmetic
    <3>3. QED
      BY <2>2, <3>2, Arithmetic DEF MergedLen
  <2>4. at \in Nat /\ Last.offset + at = q.offset
    BY <2>1, <2>2 DEF Address
  <2>5. RangesInFile =>
          /\ Last.offset + l <= Size
          /\ at + q.len <= l
          /\ Last.len <= l
    <3> SUFFICES ASSUME RangesInFile PROVE Last.offset + l <= Size /\ at + q.len <= l /\ Last.len <= l
      OBVIOUS
    <3>1. q.offset + q.len <= Size /\ Last.offset + Last.len <= Size
      BY <1>b, <2>1 DEF RangesInFile, InFile, IInv, PlanInFile
    <3>2. /\ q.offset \in Nat /\ q.len \in Nat /\ Last.offset \in Nat /\ Last.len \in Nat
          /\ Size < Width /\ Size \in Nat /\ Width \in Nat
      BY <2>2, WidthAssumption DEF Address
    <3>3. Add(q.offset, q.len) = q.offset + q.len /\ LastEnd = Last.offset + Last.len
      BY <3>1, <3>2 DEF Add, LastEnd
    <3>4. l = MaxOf(q.offset + q.len, Last.offset + Last.len) - Last.offset
      BY <2>1, <3>2, <3>3 DEF MergedLen, Sub, MaxOf
    <3>5. Last.offset <= q.offset /\ at = q.offset - Last.offset
      BY <2>1
    <3> HIDE DEF q, l, at
    <3>6. QED
      BY <3>1, <3>2, <3>4, <3>5 DEF MaxOf
  <2>6. reqs' = [reqs EXCEPT ![m] = e]
    <3>1. reqs' = [reqs EXCEPT ![m].len = l]
      BY <1>3 DEF PlaceMerged
    <3>2. [reqs[m] EXCEPT !.len = l] = e
      BY <2>1 DEF ByteRanges
    <3>3. QED
      BY <3>1, <3>2
  <2>7. e \in ByteRanges
    BY <2>2, <2>3 DEF ByteRanges
  <2> HIDE DEF l, e, at
  <2>8. /\ reqs' \in Seq(ByteRanges) /\ Len(reqs') = m /\ reqs'[m] = e
        /\ \A k \in DOMAIN reqs : k # m => reqs'[k] = reqs[k]
        /\ reqs' # <<>>
    <3>1. reqs' \in Seq(ByteRanges) /\ Len(reqs') = m /\ reqs'[m] = e
          /\ \A k \in DOMAIN reqs : k # m => reqs'[k] = reqs[k]
      BY <1>b, <2>1, <2>6, <2>7, ExceptSeq
    <3>2. QED
      BY <1>d, <2>1, <3>1, EmptySeq
  <2>9. e.offset = Last.offset /\ e.len = l
    BY DEF e
  <2>10. part' = [part EXCEPT ![i] = [req |-> Len(reqs'), at |-> at, len |-> q.len]]
         /\ todo' = todo \ {i}
    BY <1>3, <2>8 DEF PlaceMerged, at
  <2>11. \A k \in DOMAIN reqs : /\ reqs'[k].offset = reqs[k].offset
                                /\ k < Len(reqs') => reqs'[k] = reqs[k]
    BY <1>d, <2>1, <2>8, <2>9
  <2>12. RangesInFile => \A k \in DOMAIN reqs : reqs[k].len <= reqs'[k].len
    <3>1. \A k \in DOMAIN reqs : reqs[k].len \in Nat
      BY <1>b, SeqDomain, RangeFields
    <3>2. QED
      BY <2>1, <2>5, <2>8, <2>9, <3>1
  <2>13. Placing(i, at)
    <3>1. /\ reqs'[Len(reqs')].offset = Last.offset
          /\ reqs'[Len(reqs')].len = l
      BY <2>8, <2>9
    <3>2. RangesInFile => /\ InFile(reqs'[Len(reqs')])
                          /\ at + q.len <= reqs'[Len(reqs')].len
                          /\ \A k \in DOMAIN reqs : reqs[k].len <= reqs'[k].len
      BY <2>5, <2>12, <3>1 DEF InFile
    <3>3. Len(reqs') = Len(reqs) /\ Len(reqs) \in Nat
      BY <1>d, <2>8
    <3>4. Len(reqs') # Len(reqs) + 1
      BY <3>3
    <3>5. /\ reqs'[Len(reqs')].offset <= ranges[i].offset
          /\ ranges[i].len # 0 /\ reqs'[Len(reqs')].len <= MaxRequest
      BY <2>1, <3>1
    <3>6. reqs'[Len(reqs')].offset + at = ranges[i].offset
      BY <2>4, <3>1
    <3>7. /\ reqs' \in Seq(ByteRanges) /\ reqs' # <<>>
          /\ Len(reqs') \in {Len(reqs), Len(reqs) + 1}
      BY <2>8, <3>3
    <3>8. ASSUME NEW a, a = at PROVE Placing(i, a)
      <4>1. PlacingGrows(i)
        BY <2>11, <3>4, <3>5, <3>7 DEF PlacingGrows
      <4>2. PlacingFits(i, a)
        BY <3>2, <3>8 DEF PlacingFits
      <4>3. PlacingBounded(i)
        BY <3>5 DEF PlacingBounded
      <4>4. PlacingMaps(i, a)
        BY <2>10, <3>6, <3>8 DEF PlacingMaps
      <4>5. QED
        BY <4>1, <4>2, <4>3, <4>4 DEF Placing
    <3>9. QED
      BY <3>8
  <2>14. QED
    BY <1>3, <2>4, <2>13, PlaceInv DEF PlaceMerged
<1>4. ASSUME NEW i \in todo, PlaceAlone(i) PROVE IInv'
  <2> DEFINE q == ranges[i]
             m == Len(reqs)
  <2>1. /\ q \in ByteRanges /\ q.offset \in Nat /\ q.len \in Nat
        /\ reqs' = Append(reqs, q) /\ m \in Nat
    BY <1>4, <1>c, <1>d, RangeFields DEF PlaceAlone
  <2>2. /\ reqs' \in Seq(ByteRanges) /\ Len(reqs') = m + 1 /\ reqs'[m + 1] = q
        /\ \A k \in 1 .. m : reqs'[k] = reqs[k]
        /\ reqs' # <<>>
    BY <1>b, <2>1, AppendProperties
  <2>3. RangesInFile => InFile(q)
    BY <1>b DEF RangesInFile
  <2>4. \A k \in DOMAIN reqs : reqs[k].len \in Nat
    BY <1>b, SeqDomain, RangeFields
  <2>5. part' = [part EXCEPT ![i] = [req |-> Len(reqs'), at |-> 0, len |-> q.len]]
        /\ todo' = todo \ {i}
    BY <1>4, <2>2 DEF PlaceAlone
  <2>6. Placing(i, 0)
    BY <1>d, <2>1, <2>2, <2>3, <2>4, <2>5 DEF Placing, PlacingGrows, PlacingFits, PlacingBounded, PlacingMaps
  <2>7. QED
    BY <1>4, <2>6, PlaceInv DEF PlaceAlone
<1>5. CASE Send
  <2>1. PlanInv'
    BY <1>5, <1>a, PlanFrame DEF Send
  <2>2. TypeOK' /\ PhaseInv' /\ ScatterExact'
    BY <1>5 DEF Send, IInv, TypeOK, PhaseInv, ScatterExact
  <2>3. QED
    BY <2>1, <2>2 DEF IInv, PlanInv
<1>6. ASSUME NEW lens \in [DOMAIN reqs -> 0 .. Size], Answer(lens) PROVE IInv'
  <2>1. lens \in Seq(Nat) /\ DOMAIN lens = DOMAIN reqs
    BY <1>d, WidthAssumption
  <2>2. PlanInv'
    BY <1>6, <1>a, PlanFrame DEF Answer
  <2>3. TypeOK' /\ PhaseInv' /\ ScatterExact'
    BY <1>6, <2>1 DEF Answer, IInv, TypeOK, PhaseInv, ScatterExact
  <2>4. QED
    BY <2>2, <2>3 DEF IInv, PlanInv
<1>7. CASE SourceFails
  <2>1. PlanInv'
    BY <1>7, <1>a, PlanFrame DEF SourceFails
  <2>2. TypeOK' /\ PhaseInv' /\ ScatterExact'
    BY <1>7 DEF SourceFails, IInv, TypeOK, PhaseInv, ScatterExact
  <2>3. QED
    BY <2>1, <2>2 DEF IInv, PlanInv
<1>8. CASE Scatter
  <2>1. PlanInv'
    BY <1>8, <1>a, PlanFrame DEF Scatter
  <2>2. todo = {} /\ \A i \in DOMAIN ranges : IsPlaced(i)
    BY <1>8 DEF Scatter, IInv, PhaseInv
  <2>3. \A i \in DOMAIN ranges :
          /\ reqs[part[i].req].offset \in Nat /\ part[i].at \in Nat /\ part[i].len \in Nat
    <3> TAKE i \in DOMAIN ranges
    <3>1. part[i].req \in DOMAIN reqs
      BY <2>2 DEF IsPlaced
    <3>2. reqs[part[i].req] \in ByteRanges
      BY <1>b, <3>1, SeqDomain
    <3>3. part[i].at \in Nat /\ part[i].len \in Nat
      BY DEF IInv, TypeOK
    <3>4. QED
      BY <3>2, <3>3, RangeFields
  <2>4. PhaseInv'
    BY <1>8 DEF Scatter, IInv, PhaseInv
  <2>5. TypeOK' /\ ScatterExact'
    <3>1. CASE \E i \in DOMAIN ranges : ~Reaches(i)
      BY <1>8, <3>1 DEF Scatter, IInv, TypeOK, PhaseInv, ScatterExact
    <3>2. CASE \A i \in DOMAIN ranges : Reaches(i)
      <4> DEFINE slice(i) == [from |-> reqs[part[i].req].offset + part[i].at, len |-> part[i].len]
      <4>1. result' = "ok" /\ out' = [i \in DOMAIN ranges |-> slice(i)]
        BY <1>8, <3>2 DEF Scatter
      <4>2. \A i \in DOMAIN ranges : slice(i) \in [from : Nat, len : Nat]
        BY <2>3
      <4>3. DOMAIN ranges = 1 .. Len(ranges) /\ Len(ranges) \in Nat
        BY <1>b, SeqDomain
      <4>4. out' \in Seq([from : Nat, len : Nat])
        BY <4>1, <4>2, <4>3
      <4>5. TypeOK'
        BY <1>8, <4>1, <4>4 DEF Scatter, IInv, TypeOK
      <4>6. \A i \in DOMAIN ranges : /\ slice(i).len = ranges[i].len
                                     /\ ranges[i].len # 0 => slice(i).from = ranges[i].offset
        BY <2>2 DEF IsPlaced
      <4>7. ScatterExact'
        BY <1>8, <4>1, <4>6 DEF Scatter, ScatterExact
      <4>8. QED
        BY <4>5, <4>7
    <3>3. QED
      BY <3>1, <3>2
  <2>6. QED
    BY <2>1, <2>4, <2>5 DEF IInv, PlanInv
<1>9. CASE Return
  <2>1. /\ ranges' = <<>> /\ reqs' = <<>> /\ part' = <<>> /\ todo' = {} /\ got' = <<>>
        /\ out' = <<>> /\ result' = "none" /\ phase' = "idle" /\ DOMAIN <<>> = {}
    BY <1>9 DEF Return, IInv, PhaseInv
  <2>2. TypeOK'
    BY <2>1 DEF TypeOK
  <2>3. QED
    BY <2>1, <2>2 DEF IInv, PhaseInv, Sorted, Ascending, PlanInFile, MergedIsBounded, ScatterExact
<1>10. CASE UNCHANGED vars
  <2>1. PlanInv'
    BY <1>10, <1>a, PlanFrame DEF vars
  <2>2. TypeOK' /\ PhaseInv' /\ ScatterExact'
    BY <1>10 DEF vars, IInv, TypeOK, PhaseInv, ScatterExact
  <2>3. QED
    BY <2>1, <2>2 DEF IInv, PlanInv
<1>11. QED
  BY <1>1, <1>2, <1>3, <1>4, <1>5, <1>6, <1>7, <1>8, <1>9, <1>10 DEF Next

(* The inductive invariant holds in every state of every read.             *)
THEOREM Invariance == Spec => []IInv
<1>1. QED
  BY InitInv, StepInv, PTL DEF Spec

(* Types: whatever offsets and lengths the ranges have, every request and  *)
(* every part plan() computes is an address and a place (io.rs:82-134).    *)
THEOREM TypeCorrect == Spec => []TypeOK
<1>1. IInv => TypeOK
  BY DEF IInv
<1>2. QED
  BY <1>1, Invariance, PTL

(* A read that succeeds gives every range its own bytes, for every list of *)
(* ranges, gap and size, however short the source answers: what scatter()  *)
(* cuts out of a merged buffer is the interval asked for (io.rs:139-170).  *)
THEOREM ScatterIsExact == Spec => []ScatterExact
<1>1. IInv => ScatterExact
  BY DEF IInv
<1>2. QED
  BY <1>1, Invariance, PTL

(* Merging ranges that lie in the file makes requests that lie in the file *)
(* and hold every part (io.rs:112-122).                                    *)
THEOREM PlanStaysInFile == Spec => []PlanInFile
<1>1. IInv => PlanInFile
  BY DEF IInv
<1>2. QED
  BY <1>1, Invariance, PTL

(* A request that serves two ranges is at most max_request_size long, and  *)
(* the requests are in ascending order of offset (io.rs:30, io.rs:79).     *)
THEOREM MergedAndOrdered == Spec => [](MergedIsBounded /\ Ascending)
<1>1. IInv => MergedIsBounded /\ Ascending
  BY DEF IInv
<1>2. QED
  BY <1>1, Invariance, PTL
================================================================================
