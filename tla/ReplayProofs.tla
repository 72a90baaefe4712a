------------------------------ MODULE ReplayProofs ------------------------------
(* Proofs about Replay, for every file size, page size, limit of rounds,   *)
(* set of drivers, walks and prefetch windows.                             *)
EXTENDS Replay, FiniteSetTheorems, SequenceTheorems, TLAPS

(* A page starts at or before any offset that divides into it.             *)
LEMMA DivBounds ==
  ASSUME NEW n \in Nat
  PROVE  /\ n \div PageSize \in Nat
         /\ (n \div PageSize) * PageSize <= n
         /\ n < (n \div PageSize + 1) * PageSize
BY SizesAssumption, Z3

(* Offsets in order lie in pages in order.                                 *)
LEMMA DivMonotone ==
  ASSUME NEW a \in Nat, NEW b \in Nat, a <= b
  PROVE  a \div PageSize <= b \div PageSize
<1> DEFINE x == a \div PageSize
<1> DEFINE y == b \div PageSize
<1>1. x \in Nat /\ y \in Nat /\ x * PageSize <= a /\ b < (y + 1) * PageSize
  BY DivBounds
<1> HIDE DEF x, y
<1>2. PageSize \in Nat /\ PageSize > 0
  BY SizesAssumption
<1>3. ASSUME y < x PROVE FALSE
  <2>1. (y + 1) * PageSize <= x * PageSize
    BY <1>1, <1>2, <1>3, Z3
  <2>2. (y + 1) * PageSize \in Nat /\ x * PageSize \in Nat
    BY <1>1, <1>2
  <2> QED BY <1>1, <2>1, <2>2
<1>4. x <= y
  BY <1>1, <1>3
<1> QED BY <1>4 DEF x, y

(* Every page of the file starts inside it and has bytes.                  *)
LEMMA PageFacts ==
  ASSUME NEW p \in Pages
  PROVE  /\ p \in Nat
         /\ Start(p) \in Nat
         /\ Start(p) < Size
         /\ Start(p + 1) = Start(p) + PageSize
         /\ PageLen(p) \in Nat /\ PageLen(p) > 0
<1> DEFINE last == (Size - 1) \div PageSize
<1>1. Size \in Nat /\ Size > 0 /\ PageSize \in Nat /\ PageSize > 0
  BY SizesAssumption
<1>2. last \in Nat /\ last * PageSize <= Size - 1
  BY <1>1, DivBounds
<1>3. p \in Nat /\ p <= last
  BY <1>2 DEF Pages
<1> HIDE DEF last
<1>4. p * PageSize <= last * PageSize /\ p * PageSize \in Nat /\ last * PageSize \in Nat
  BY <1>1, <1>2, <1>3, Z3
<1>5. Start(p) \in Nat /\ Start(p) < Size
  BY <1>1, <1>2, <1>4 DEF Start
<1>6. Start(p + 1) = Start(p) + PageSize
  BY <1>1, <1>3, Z3 DEF Start
<1>7. PageLen(p) \in Nat /\ PageLen(p) > 0
  BY <1>1, <1>5 DEF PageLen, MinOf
<1> QED BY <1>3, <1>5, <1>6, <1>7

(* The pages are finite in number, and page 0 is one of them.              *)
LEMMA PagesFinite == IsFiniteSet(Pages) /\ 0 \in Pages
<1>1. (Size - 1) \div PageSize \in Nat
  BY SizesAssumption, DivBounds
<1> QED BY <1>1, FS_Interval DEF Pages

(* A read inside the file spans pages of the file.                         *)
LEMMA SpanFacts ==
  ASSUME NEW q \in ByteRange, q.len # 0, q.offset + q.len <= Size
  PROVE  Span(q) \subseteq Pages
<1>1. q.offset \in Nat /\ q.len \in Nat /\ q.len > 0 /\ Size \in Nat /\ Size > 0
  BY SizesAssumption DEF ByteRange
<1>2. q.offset + q.len - 1 \in Nat /\ Size - 1 \in Nat /\ q.offset + q.len - 1 <= Size - 1
  BY <1>1
<1>3. (q.offset + q.len - 1) \div PageSize <= (Size - 1) \div PageSize
  BY <1>2, DivMonotone
<1>4. /\ q.offset \div PageSize \in Nat /\ (q.offset + q.len - 1) \div PageSize \in Nat
      /\ (Size - 1) \div PageSize \in Nat
  BY <1>1, <1>2, DivBounds
<1> QED BY <1>3, <1>4 DEF Span, Pages

(* A whole page has what any read inside the file needs of it.             *)
LEMMA WholeIsEnough ==
  ASSUME NEW q \in ByteRange, q.len # 0, q.offset + q.len <= Size, NEW p \in Span(q)
  PROVE  Needed(q, p) <= PageLen(p)
<1>1. /\ p \in Pages /\ Start(p) \in Nat /\ Start(p + 1) = Start(p) + PageSize
      /\ q.offset + q.len \in Nat /\ Size \in Nat /\ PageSize \in Nat
  BY SpanFacts, PageFacts, SizesAssumption DEF ByteRange
<1> QED BY <1>1 DEF Needed, PageLen, MinOf

(* With whole pages one read is Malformed exactly when it leaves the file, *)
(* Incomplete exactly when it lacks a page, and never Garbled.             *)
LEMMA ReadFacts ==
  ASSUME NEW held \in [Pages -> Nat], Whole(held), NEW q \in ByteRange
  PROVE  /\ ReadOutcome(held, q) \in {"Exact", "Malformed", "Incomplete"}
         /\ ReadOutcome(held, q) = "Malformed" <=> q.len # 0 /\ q.offset + q.len > Size
         /\ ReadOutcome(held, q) = "Incomplete" <=> Lacks(held, q) # {}
<1>0. q.offset \in Nat /\ q.len \in Nat /\ Size \in Nat
  BY SizesAssumption DEF ByteRange
<1>1. CASE q.len = 0
  BY <1>1 DEF ReadOutcome, Lacks
<1>2. CASE q.len # 0 /\ q.offset + q.len > Size
  BY <1>0, <1>2 DEF ReadOutcome, Lacks
<1>3. CASE q.len # 0 /\ q.offset + q.len <= Size
  <2>0. ~(q.offset + q.len > Size)
    BY <1>0, <1>3
  <2>1. CASE \E p \in Span(q) : held[p] = 0
    BY <1>3, <2>0, <2>1 DEF ReadOutcome, Lacks
  <2>2. CASE ~ \E p \in Span(q) : held[p] = 0
    <3>1. \A p \in Span(q) : held[p] = PageLen(p)
      BY <1>3, <2>2, SpanFacts DEF Whole
    <3>2. \A p \in Span(q) : held[p] >= Needed(q, p)
      <4> TAKE p \in Span(q)
      <4>1. p \in Pages
        BY <1>3, SpanFacts
      <4>2. Needed(q, p) \in Int /\ PageLen(p) \in Int
        BY <4>1, <1>0, PageFacts, SizesAssumption DEF Needed, MinOf
      <4> QED BY <1>3, <3>1, <4>2, WholeIsEnough
    <3> QED BY <1>3, <2>0, <2>2, <3>2 DEF ReadOutcome, Lacks
  <2> QED BY <2>1, <2>2
<1> QED BY <1>0, <1>1, <1>2, <1>3

(* Whatever the pages are, a read records only pages of the file, and only *)
(* ones it lacks.                                                          *)
LEMMA LacksFacts ==
  ASSUME NEW held, NEW q \in ByteRange
  PROVE  \A p \in Lacks(held, q) : p \in Pages /\ held[p] = 0
<1>1. CASE q.len = 0 \/ q.offset + q.len > Size
  BY <1>1 DEF Lacks
<1>2. CASE ~(q.len = 0 \/ q.offset + q.len > Size)
  <2>1. q.len # 0 /\ q.offset + q.len <= Size
    BY <1>2, SizesAssumption DEF ByteRange
  <2> QED BY <1>2, <2>1, SpanFacts DEF Lacks
<1> QED BY <1>1, <1>2

(* The same of a batch.                                                    *)
LEMMA BatchLacksFacts ==
  ASSUME NEW held, NEW n \in Reads
  PROVE  \A p \in BatchLacks(held, n.ranges) : p \in Pages /\ held[p] = 0
<1>1. \A i \in DOMAIN n.ranges : n.ranges[i] \in ByteRange
  BY ElementOfSeq DEF Reads
<1>2. SeenRanges(held, n.ranges) \subseteq DOMAIN n.ranges
  BY DEF SeenRanges
<1> QED BY <1>1, <1>2, LacksFacts DEF BatchLacks

(* With whole pages a batch is Malformed exactly when one of its ranges    *)
(* leaves the file; it is Incomplete only if it records a page, and Exact  *)
(* otherwise.                                                              *)
LEMMA BatchFacts ==
  ASSUME NEW held \in [Pages -> Nat], Whole(held), NEW n \in Reads
  PROVE  /\ BatchOutcome(held, n.ranges) \in {"Exact", "Malformed", "Incomplete"}
         /\ BatchOutcome(held, n.ranges) = "Malformed" <=> LeavesFile(n)
         /\ BatchOutcome(held, n.ranges) = "Incomplete" => BatchLacks(held, n.ranges) # {}
<1>1. \A i \in DOMAIN n.ranges : n.ranges[i] \in ByteRange
  BY ElementOfSeq DEF Reads
<1>2. (\E i \in DOMAIN n.ranges : ReadOutcome(held, n.ranges[i]) = "Malformed") <=> LeavesFile(n)
  BY <1>1, ReadFacts DEF LeavesFile
<1>3. ~ \E i \in DOMAIN n.ranges : ReadOutcome(held, n.ranges[i]) = "Garbled"
  BY <1>1, ReadFacts
<1>4. ASSUME ~LeavesFile(n), NEW i \in DOMAIN n.ranges, ReadOutcome(held, n.ranges[i]) = "Incomplete"
      PROVE  BatchLacks(held, n.ranges) # {}
  <2>1. SeenRanges(held, n.ranges) = DOMAIN n.ranges
    BY <1>2, <1>4 DEF SeenRanges, BadRanges
  <2>2. Lacks(held, n.ranges[i]) # {}
    BY <1>1, <1>4, ReadFacts
  <2> QED BY <2>1, <2>2 DEF BatchLacks
<1> QED BY <1>2, <1>3, <1>4 DEF BatchOutcome

(* The reads of a walk are batches of ranges.                              *)
LEMMA WalkFacts ==
  ASSUME NEW w \in Walk
  PROVE  /\ Len(w.reads) \in Nat
         /\ DOMAIN w.reads = 1 .. Len(w.reads)
         /\ \A i \in DOMAIN w.reads : w.reads[i] \in Reads
         /\ w.ends \in {"Value", "Malformed"}
<1>1. w.reads \in Seq(Reads) /\ w.ends \in {"Value", "Malformed"}
  BY DEF Walk
<1>2. \A i \in 1 .. Len(w.reads) : w.reads[i] \in Reads
  BY <1>1, ElementOfSeq
<1> QED BY <1>1, <1>2

--------------------------------------------------------------------------------
(* The invariance proof.                                                   *)

(* The invariant of one driver reads that driver's variables only, and     *)
(* asks less of it once the source has answered short.                     *)
LEMMA Frame ==
  ASSUME NEW x \in Drivers, DriverInv(x), degraded => degraded',
         pc'[x] = pc[x], walk'[x] = walk[x], pages'[x] = pages[x], wanted'[x] = wanted[x],
         todo'[x] = todo[x], asked'[x] = asked[x], previous'[x] = previous[x],
         round'[x] = round[x], at'[x] = at[x], missing'[x] = missing[x], lost'[x] = lost[x],
         garbled'[x] = garbled[x], outcome'[x] = outcome[x], result'[x] = result[x]
  PROVE  DriverInv(x)'
<1>1. Held(x)' = Held(x)
  BY DEF Held
<1>2. WantedInv(x)'
  BY <1>1 DEF DriverInv, WantedInv
<1>3. StartInv(x)' /\ MissingInv(x)' /\ ParseInv(x)'
  BY DEF DriverInv, StartInv, MissingInv, ParseInv
<1>4. JudgeInv(x)' /\ ResultInv(x)'
  BY DEF DriverInv, JudgeInv, ResultInv
<1> QED BY <1>2, <1>3, <1>4 DEF DriverInv

(* A step of the environment touches no driver.                            *)
LEMMA Shared ==
  ASSUME IInv, UNCHANGED local, degraded => degraded', degraded' \in BOOLEAN,
         cache' \in [Pages -> Nat], ~degraded' => Whole(cache')
  PROVE  IInv'
<1>1. TypeOK'
  BY DEF IInv, TypeOK, local
<1>2. PagesWhole'
  BY DEF IInv, PagesWhole, Whole, local
<1>3. \A x \in Drivers : DriverInv(x)'
  BY Frame DEF IInv, local
<1> QED BY <1>1, <1>2, <1>3 DEF IInv

(* The initial state satisfies the invariant.                              *)
LEMMA InitInv == Init => IInv
<1> SUFFICES ASSUME Init PROVE IInv
  OBVIOUS
<1> USE DEF Init
<1>0. NoWalk \in Walk
  BY EmptySeq DEF NoWalk, Walk
<1>1. TypeOK
  <2>1. 0 \in 0 .. MaxRounds
    BY SizesAssumption
  <2>2. /\ walk \in [Drivers -> Walk] /\ round \in [Drivers -> 0 .. MaxRounds]
        /\ pages \in [Drivers -> [Pages -> Nat]] /\ at \in [Drivers -> Nat \ {0}]
    BY <1>0, <2>1
  <2>3. /\ wanted \in [Drivers -> SUBSET Pages] /\ todo \in [Drivers -> SUBSET Pages]
        /\ asked \in [Drivers -> SUBSET Pages] /\ previous \in [Drivers -> SUBSET Pages]
        /\ missing \in [Drivers -> SUBSET Pages] /\ lost \in [Drivers -> SUBSET Nat]
    OBVIOUS
  <2> QED BY <2>2, <2>3 DEF TypeOK
<1>2. PagesWhole
  BY DEF PagesWhole, Whole
<1>3. ASSUME NEW d \in Drivers PROVE DriverInv(d)
  BY DEF DriverInv, StartInv, WantedInv, MissingInv, ParseInv, JudgeInv, ResultInv
<1> QED BY <1>1, <1>2, <1>3 DEF IInv

(* The prefetch window has page 0 at least.                                *)
LEMMA WindowFacts ==
  ASSUME NEW n \in Nat
  PROVE  Window(n) \subseteq Pages /\ 0 \in Window(n)
<1>1. CeilDiv(n, PageSize) \in Nat
  BY SizesAssumption, DivBounds DEF CeilDiv
<1>2. 0 < MaxOf(CeilDiv(n, PageSize), 1)
  BY <1>1 DEF MaxOf
<1> QED BY <1>2, PagesFinite DEF Window

(* The pages a driver holds or wants are finite in number.                 *)
LEMMA HeldFinite ==
  ASSUME NEW d, NEW W \in SUBSET Pages
  PROVE  IsFiniteSet(Held(d) \cup W) /\ Cardinality(Held(d) \cup W) \in Nat
BY PagesFinite, FS_Subset, FS_CardinalityType DEF Held

(* Call preserves the invariant.                                           *)
LEMMA CallInv ==
  ASSUME IInv, NEW d \in Drivers, NEW w \in Walks[d], NEW prefetch \in Prefetches[d],
         Call(d, w, prefetch)
  PROVE  IInv'
<1> USE DEF Call
<1>0. w \in Walk /\ Window(prefetch) \subseteq Pages /\ 0 \in Window(prefetch)
  BY WalksAssumption, PrefetchesAssumption, WindowFacts
<1>1. TypeOK'
  <2>1. 1 \in 0 .. MaxRounds
    BY SizesAssumption
  <2> QED BY <1>0, <2>1 DEF IInv, TypeOK
<1>2. PagesWhole'
  BY DEF IInv, PagesWhole
<1>3. DriverInv(d)'
  <2>1. /\ pc[d] = "idle" /\ pc'[d] = "lookup" /\ wanted'[d] = Window(prefetch)
        /\ todo'[d] = Window(prefetch) /\ round'[d] = 1
        /\ UNCHANGED <<pages, previous, at, missing, lost, garbled>>
    BY DEF IInv, TypeOK
  <2>2. previous[d] = {}
    BY <2>1 DEF IInv, DriverInv, StartInv
  <2>3. 1 <= Cardinality(Held(d) \cup Window(prefetch))
    <3>1. Held(d) \cup Window(prefetch) # {}
      BY <1>0
    <3>2. Cardinality(Held(d) \cup Window(prefetch)) # 0
      BY <1>0, <3>1, HeldFinite, FS_EmptySet
    <3> QED BY <1>0, <3>2, HeldFinite
  <2>4. WantedInv(d)'
    <3>1. Held(d)' = Held(d)
      BY <2>1 DEF Held
    <3> QED BY <2>1, <2>2, <2>3, <3>1 DEF WantedInv
  <2>5. StartInv(d)'
    BY <2>1 DEF IInv, DriverInv, StartInv
  <2> QED BY <2>1, <2>4, <2>5 DEF DriverInv, MissingInv, ParseInv, JudgeInv, ResultInv
<1>4. ASSUME NEW x \in Drivers, x # d PROVE DriverInv(x)'
  BY <1>4, Frame DEF IInv, TypeOK
<1> QED BY <1>1, <1>2, <1>3, <1>4 DEF IInv

(* Lookup preserves the invariant: the page is held now, or asked for.     *)
LEMMA LookupInv ==
  ASSUME IInv, NEW d \in Drivers, Lookup(d)
  PROVE  IInv'
<1>0. PICK p \in todo[d] :
    /\ pc[d] = "lookup"
    /\ todo' = [todo EXCEPT ![d] = @ \ {p}]
    /\ pages' = [pages EXCEPT ![d][p] = IF @ = 0 THEN cache[p] ELSE @]
    /\ asked' = [asked EXCEPT ![d] =
                   IF pages[d][p] = 0 /\ cache[p] = 0 THEN @ \cup {p} ELSE @]
    /\ UNCHANGED <<cache, pc, walk, wanted, previous, round, at, missing, lost,
                   garbled, outcome, result, degraded>>
  BY DEF Lookup
<1>1. /\ p \in Pages /\ todo'[d] = todo[d] \ {p}
      /\ pages'[d] = [pages[d] EXCEPT ![p] = IF pages[d][p] = 0 THEN cache[p] ELSE pages[d][p]]
      /\ asked'[d] = IF pages[d][p] = 0 /\ cache[p] = 0 THEN asked[d] \cup {p} ELSE asked[d]
      /\ \A x \in Drivers : x # d => /\ pages'[x] = pages[x] /\ asked'[x] = asked[x]
                                     /\ todo'[x] = todo[x]
  BY <1>0 DEF IInv, TypeOK
<1>2. TypeOK'
  <2>1. pages' \in [Drivers -> [Pages -> Nat]]
    <3>1. pages'[d] \in [Pages -> Nat]
      BY <1>1 DEF IInv, TypeOK
    <3> QED BY <1>0, <1>1, <3>1 DEF IInv, TypeOK
  <2>2. asked' \in [Drivers -> SUBSET Pages] /\ todo' \in [Drivers -> SUBSET Pages]
    BY <1>0, <1>1 DEF IInv, TypeOK
  <2> QED BY <1>0, <2>1, <2>2 DEF IInv, TypeOK
<1>3. PagesWhole'
  BY <1>0, <1>1 DEF IInv, TypeOK, PagesWhole, Whole
<1>4. DriverInv(d)'
  <2>1. StartInv(d)'
    BY <1>0 DEF IInv, DriverInv, StartInv
  <2>2. WantedInv(d)'
    <3> SUFFICES ASSUME ~degraded PROVE WantedInv(d)'
      BY <1>0 DEF WantedInv
    <3>1. /\ previous[d] \subseteq wanted[d] /\ wanted[d] \subseteq Pages
          /\ \A i \in wanted[d] : pages[d][i] > 0 \/ i \in todo[d] \/ i \in asked[d]
          /\ round[d] <= Cardinality(Held(d) \cup wanted[d])
      BY <1>0 DEF IInv, TypeOK, DriverInv, WantedInv
    <3>2. /\ pages'[d][p] > 0 \/ p \in asked'[d]
          /\ \A i \in Pages : pages[d][i] > 0 => pages'[d][i] > 0
          /\ \A i \in Pages : i # p => pages'[d][i] = pages[d][i]
      BY <1>1 DEF IInv, TypeOK
    <3>3. \A i \in wanted[d] : pages'[d][i] > 0 \/ i \in todo'[d] \/ i \in asked'[d]
      BY <1>1, <3>1, <3>2
    <3>4. round[d] <= Cardinality(Held(d)' \cup wanted[d])
      <4>1. Held(d) \cup wanted[d] \subseteq Held(d)' \cup wanted[d]
        BY <3>2 DEF Held
      <4>2. IsFiniteSet(Held(d)' \cup wanted[d])
        BY <3>1, PagesFinite, FS_Subset DEF Held
      <4>3. /\ Cardinality(Held(d) \cup wanted[d]) <= Cardinality(Held(d)' \cup wanted[d])
            /\ Cardinality(Held(d)' \cup wanted[d]) \in Nat
        BY <4>1, <4>2, FS_Subset, FS_CardinalityType
      <4>4. round[d] \in Nat
        BY DEF IInv, TypeOK
      <4>5. Cardinality(Held(d) \cup wanted[d]) \in Nat
        BY <3>1, HeldFinite
      <4> QED BY <3>1, <4>3, <4>4, <4>5
    <3> QED BY <1>0, <3>1, <3>3, <3>4 DEF WantedInv
  <2> QED BY <1>0, <2>1, <2>2 DEF DriverInv, MissingInv, ParseInv, JudgeInv, ResultInv
<1>5. ASSUME NEW x \in Drivers, x # d PROVE DriverInv(x)'
  BY <1>0, <1>1, <1>5, Frame DEF IInv, TypeOK
<1> QED BY <1>2, <1>3, <1>4, <1>5 DEF IInv

(* EndLookup preserves the invariant.                                      *)
LEMMA EndLookupInv ==
  ASSUME IInv, NEW d \in Drivers, EndLookup(d)
  PROVE  IInv'
<1> USE DEF EndLookup
<1>1. TypeOK' /\ PagesWhole'
  BY DEF IInv, TypeOK, PagesWhole
<1>2. DriverInv(d)'
  <2>1. /\ pc[d] = "lookup" /\ todo[d] = {} /\ pc'[d] \in {"walk", "await"}
        /\ asked[d] # {} => pc'[d] = "await"
        /\ UNCHANGED <<walk, pages, wanted, todo, asked, previous, round, at, missing, lost,
                       garbled, degraded>>
    BY DEF IInv, TypeOK
  <2>2. at[d] = 1 /\ missing[d] = {} /\ lost[d] = {} /\ ~garbled[d]
    BY <2>1 DEF IInv, DriverInv, StartInv
  <2>3. WantedInv(d)'
    <3>1. Held(d)' = Held(d)
      BY <2>1 DEF Held
    <3> QED BY <2>1, <3>1 DEF IInv, DriverInv, WantedInv
  <2>4. ParseInv(d)'
    <3>1. \A i \in DOMAIN walk[d].reads : ~(i < 1)
      BY WalkFacts DEF IInv, TypeOK
    <3> QED BY <2>1, <2>2, <3>1 DEF ParseInv
  <2> QED BY <2>1, <2>2, <2>3, <2>4 DEF DriverInv, StartInv, MissingInv, JudgeInv, ResultInv
<1>3. ASSUME NEW x \in Drivers, x # d PROVE DriverInv(x)'
  BY <1>3, Frame DEF IInv, TypeOK
<1> QED BY <1>1, <1>2, <1>3 DEF IInv

(* The answers arrive: unless one is short, every page asked for is held.  *)
LEMMA StoreInv ==
  ASSUME IInv, NEW d \in Drivers, NEW got, \A p \in asked[d] : got[p] \in Nat,
         Store(d, got), degraded => degraded', degraded' \in BOOLEAN,
         ~degraded' => \A p \in asked[d] : got[p] = PageLen(p)
  PROVE  IInv'
<1> DEFINE stored(old) == [p \in Pages |-> IF p \in asked[d] /\ got[p] > 0 THEN got[p] ELSE old[p]]
<1>0. /\ pc[d] = "await" /\ cache' = stored(cache)
      /\ pages' = [pages EXCEPT ![d] = stored(pages[d])]
      /\ asked' = [asked EXCEPT ![d] = {}] /\ pc' = [pc EXCEPT ![d] = "walk"]
      /\ UNCHANGED <<walk, wanted, todo, previous, round, at, missing, lost,
                     garbled, outcome, result>>
  BY DEF Store, IInv, TypeOK
<1>1. /\ pages'[d] = stored(pages[d]) /\ asked'[d] = {} /\ pc'[d] = "walk"
      /\ \A x \in Drivers : x # d => /\ pages'[x] = pages[x] /\ asked'[x] = asked[x]
                                     /\ pc'[x] = pc[x]
  BY <1>0 DEF IInv, TypeOK
<1>2. \A old \in [Pages -> Nat] : stored(old) \in [Pages -> Nat]
  OBVIOUS
<1>3. \A old \in [Pages -> Nat] : Whole(old) /\ ~degraded' => Whole(stored(old))
  BY DEF Whole
<1>4. \A old \in [Pages -> Nat] : \A p \in Pages : old[p] > 0 => stored(old)[p] > 0
  OBVIOUS
<1>5. ~degraded' => \A old \in [Pages -> Nat] : \A p \in asked[d] : stored(old)[p] > 0
  <2>1. \A p \in asked[d] : p \in Pages /\ PageLen(p) \in Nat /\ PageLen(p) > 0
    BY PageFacts DEF IInv, TypeOK
  <2> QED BY <2>1
<1>6. pages[d] \in [Pages -> Nat] /\ cache \in [Pages -> Nat] /\ wanted[d] \subseteq Pages
  BY DEF IInv, TypeOK
<1> HIDE DEF stored
<1>7. TypeOK'
  <2>1. cache' \in [Pages -> Nat] /\ pages' \in [Drivers -> [Pages -> Nat]]
    BY <1>0, <1>2, <1>6 DEF IInv, TypeOK
  <2> QED BY <1>0, <2>1 DEF IInv, TypeOK
<1>8. PagesWhole'
  BY <1>0, <1>1, <1>3, <1>6 DEF IInv, PagesWhole
<1>9. DriverInv(d)'
  <2>1. at[d] = 1 /\ missing[d] = {} /\ lost[d] = {} /\ ~garbled[d]
    BY <1>0 DEF IInv, DriverInv, StartInv
  <2>2. WantedInv(d)'
    <3> SUFFICES ASSUME ~degraded' PROVE WantedInv(d)'
      BY DEF WantedInv
    <3>1. /\ previous[d] \subseteq wanted[d]
          /\ \A i \in wanted[d] : pages[d][i] > 0 \/ i \in asked[d]
          /\ round[d] <= Cardinality(Held(d) \cup wanted[d])
      BY <1>0 DEF IInv, DriverInv, WantedInv
    <3>2. \A i \in wanted[d] : pages'[d][i] > 0
      BY <1>1, <1>4, <1>5, <1>6, <3>1
    <3>3. round[d] <= Cardinality(Held(d)' \cup wanted[d])
      <4>1. Held(d) \cup wanted[d] \subseteq Held(d)' \cup wanted[d]
        BY <1>1, <1>4, <1>6 DEF Held
      <4>2. IsFiniteSet(Held(d)' \cup wanted[d])
        BY <1>6, PagesFinite, FS_Subset DEF Held
      <4>3. /\ Cardinality(Held(d) \cup wanted[d]) <= Cardinality(Held(d)' \cup wanted[d])
            /\ Cardinality(Held(d)' \cup wanted[d]) \in Nat
        BY <4>1, <4>2, FS_Subset, FS_CardinalityType
      <4>4. round[d] \in Nat
        BY DEF IInv, TypeOK
      <4>5. Cardinality(Held(d) \cup wanted[d]) \in Nat
        BY <1>6, HeldFinite
      <4> QED BY <3>1, <4>3, <4>4, <4>5
    <3> QED BY <1>0, <3>1, <3>2, <3>3 DEF WantedInv
  <2>3. ParseInv(d)'
    <3>1. \A i \in DOMAIN walk[d].reads : ~(i < 1)
      BY WalkFacts DEF IInv, TypeOK
    <3> QED BY <1>0, <2>1, <3>1 DEF ParseInv
  <2> QED BY <1>0, <1>1, <2>1, <2>2, <2>3 DEF DriverInv, StartInv, MissingInv, JudgeInv, ResultInv
<1>10. ASSUME NEW x \in Drivers, x # d PROVE DriverInv(x)'
  BY <1>0, <1>1, <1>10, Frame DEF IInv
<1> QED BY <1>7, <1>8, <1>9, <1>10 DEF IInv

(* SourceAnswers preserves the invariant.                                  *)
LEMMA SourceAnswersInv ==
  ASSUME IInv, NEW d \in Drivers, SourceAnswers(d)
  PROVE  IInv'
<1> DEFINE got == [p \in asked[d] |-> PageLen(p)]
<1>1. Store(d, got) /\ UNCHANGED degraded
  BY DEF SourceAnswers
<1>2. \A p \in asked[d] : got[p] = PageLen(p) /\ got[p] \in Nat
  BY PageFacts DEF IInv, TypeOK
<1>3. degraded' \in BOOLEAN
  BY <1>1 DEF IInv, TypeOK
<1> HIDE DEF got
<1> QED BY <1>1, <1>2, <1>3, StoreInv

(* SourceAnswersShort preserves the invariant.                             *)
LEMMA SourceAnswersShortInv ==
  ASSUME IInv, NEW d \in Drivers, SourceAnswersShort(d)
  PROVE  IInv'
<1>1. PICK got \in [asked[d] -> 0 .. PageSize] : Store(d, got) /\ degraded' = TRUE
  BY DEF SourceAnswersShort
<1>2. \A p \in asked[d] : got[p] \in Nat
  BY <1>1
<1> QED BY <1>1, <1>2, StoreInv

(* SourceFails preserves the invariant.                                    *)
LEMMA SourceFailsInv ==
  ASSUME IInv, NEW d \in Drivers, SourceFails(d)
  PROVE  IInv'
<1> USE DEF SourceFails
<1>1. TypeOK' /\ PagesWhole'
  BY DEF IInv, TypeOK, PagesWhole
<1>2. DriverInv(d)'
  <2>1. pc'[d] = "done" /\ result'[d] = "Source"
    BY DEF IInv, TypeOK
  <2> QED BY <2>1 DEF DriverInv, StartInv, WantedInv, MissingInv, ParseInv, JudgeInv, ResultInv
<1>3. ASSUME NEW x \in Drivers, x # d PROVE DriverInv(x)'
  BY <1>3, Frame DEF IInv, TypeOK
<1> QED BY <1>1, <1>2, <1>3 DEF IInv

(* WalkRead preserves the invariant: over whole pages a read has the       *)
(* synchronous walk's outcome, or it records a page.                       *)
LEMMA WalkReadInv ==
  ASSUME IInv, NEW d \in Drivers, WalkRead(d)
  PROVE  IInv'
<1> DEFINE n == walk[d].reads[at[d]]
           o == BatchOutcome(pages[d], n.ranges)
           lacks == BatchLacks(pages[d], n.ranges)
<1>0. /\ pc[d] = "walk" /\ at[d] <= Len(walk[d].reads)
      /\ missing' = [missing EXCEPT ![d] = missing[d] \cup lacks]
      /\ UNCHANGED <<cache, walk, pages, wanted, todo, asked, previous, round, result, degraded>>
      /\ \/ /\ at' = [at EXCEPT ![d] = at[d] + 1]
            /\ UNCHANGED <<pc, outcome>>
            /\ \/ o = "Exact" /\ UNCHANGED <<lost, garbled>>
               \/ o = "Garbled" /\ garbled' = [garbled EXCEPT ![d] = TRUE] /\ UNCHANGED lost
               \/ /\ o \in n.keep
                  /\ lost' = [lost EXCEPT ![d] = lost[d] \cup {at[d]}] /\ UNCHANGED garbled
         \/ /\ pc' = [pc EXCEPT ![d] = "judge"]
            /\ UNCHANGED <<at, lost>>
            /\ \/ /\ o = "Garbled" /\ garbled' = [garbled EXCEPT ![d] = TRUE]
                  /\ outcome' = [outcome EXCEPT ![d] = "Malformed"]
               \/ /\ o \in {"Incomplete", "Malformed"} \ n.keep /\ UNCHANGED garbled
                  /\ outcome' = [outcome EXCEPT ![d] = o]
  BY DEF WalkRead, IInv, TypeOK
<1>1. /\ walk[d] \in Walk /\ at[d] \in Nat /\ at[d] > 0 /\ at[d] \in DOMAIN walk[d].reads
      /\ n \in Reads /\ pages[d] \in [Pages -> Nat]
  BY <1>0, WalkFacts DEF IInv, TypeOK
<1>2. lacks \subseteq Pages /\ \A p \in lacks : pages[d][p] = 0
  BY <1>1, BatchLacksFacts
<1>3. ~degraded => /\ o \in {"Exact", "Malformed", "Incomplete"}
                   /\ o = "Malformed" <=> LeavesFile(n)
                   /\ o = "Incomplete" => lacks # {}
  BY <1>1, BatchFacts DEF IInv, PagesWhole
<1> HIDE DEF o, lacks
<1>4. TypeOK'
  <2>1. missing' \in [Drivers -> SUBSET Pages]
    BY <1>0, <1>2 DEF IInv, TypeOK
  <2>2. at' \in [Drivers -> Nat \ {0}] /\ lost' \in [Drivers -> SUBSET Nat]
    <3>1. at[d] + 1 \in Nat \ {0} /\ lost[d] \cup {at[d]} \in SUBSET Nat
      BY <1>1 DEF IInv, TypeOK
    <3>2. at' = [at EXCEPT ![d] = at[d] + 1] \/ at' = at
      BY <1>0
    <3>3. lost' = [lost EXCEPT ![d] = lost[d] \cup {at[d]}] \/ lost' = lost
      BY <1>0
    <3>4. at' \in [Drivers -> Nat \ {0}]
      BY <3>1, <3>2 DEF IInv, TypeOK
    <3>5. lost' \in [Drivers -> SUBSET Nat]
      BY <3>1, <3>3 DEF IInv, TypeOK
    <3> QED BY <3>4, <3>5
  <2>3. /\ pc' \in [Drivers -> {"idle", "lookup", "await", "walk", "judge", "done"}]
        /\ outcome' \in [Drivers -> {"none", "Value", "Incomplete", "Malformed"}]
        /\ garbled' \in [Drivers -> BOOLEAN]
    BY <1>0 DEF IInv, TypeOK
  <2> QED BY <1>0, <2>1, <2>2, <2>3 DEF IInv, TypeOK
<1>5. PagesWhole'
  BY <1>0 DEF IInv, PagesWhole
<1>6. DriverInv(d)'
  <2>1. pc'[d] \in {"walk", "judge"} /\ missing'[d] = missing[d] \cup lacks
    BY <1>0 DEF IInv, TypeOK
  <2>2. StartInv(d)' /\ ResultInv(d)'
    BY <2>1 DEF StartInv, ResultInv
  <2>3. WantedInv(d)'
    <3>1. Held(d)' = Held(d)
      BY <1>0 DEF Held
    <3> QED BY <1>0, <2>1, <3>1 DEF IInv, DriverInv, WantedInv
  <2>4. MissingInv(d)'
    BY <1>0, <1>2, <2>1 DEF IInv, DriverInv, MissingInv
  <2>5. ParseInv(d)' /\ JudgeInv(d)'
    <3> SUFFICES ASSUME ~degraded PROVE ParseInv(d)' /\ JudgeInv(d)'
      BY <1>0 DEF ParseInv, JudgeInv
    <3> DEFINE reads == walk[d].reads
               left(k) == {i \in DOMAIN reads : i < k /\ LeavesFile(reads[i])}
    <3>1. /\ ~garbled[d]
          /\ \A i \in DOMAIN reads : i < at[d] /\ LeavesFile(reads[i]) => "Malformed" \in reads[i].keep
          /\ missing[d] = {} => lost[d] = left(at[d])
      BY <1>0 DEF IInv, DriverInv, ParseInv
    <3>2. CASE pc'[d] = "walk"
      <4>1. /\ at'[d] = at[d] + 1 /\ garbled' = garbled
            /\ \/ o = "Exact" /\ lost'[d] = lost[d]
               \/ o \in n.keep /\ lost'[d] = lost[d] \cup {at[d]}
        BY <1>0, <1>3, <3>2 DEF IInv, TypeOK
      <4>2. \A i \in DOMAIN reads : i < at[d] + 1 <=> i < at[d] \/ i = at[d]
        BY <1>1, WalkFacts
      <4>3. \A i \in DOMAIN reads : i < at'[d] /\ LeavesFile(reads[i]) => "Malformed" \in reads[i].keep
        BY <1>3, <3>1, <4>1, <4>2
      <4>4. left(at[d] + 1) = IF LeavesFile(n) THEN left(at[d]) \cup {at[d]} ELSE left(at[d])
        BY <1>1, <4>2
      <4>5. missing'[d] = {} => o = "Exact" \/ (o = "Malformed" /\ LeavesFile(n))
        BY <1>3, <2>1
      <4>6. missing'[d] = {} => lost'[d] = left(at'[d])
        <5> SUFFICES ASSUME missing'[d] = {} PROVE lost'[d] = left(at'[d])
          OBVIOUS
        <5>1. lost[d] = left(at[d])
          BY <2>1, <3>1
        <5>2. CASE o = "Exact" /\ lost'[d] = lost[d]
          BY <1>3, <4>1, <4>4, <5>1, <5>2
        <5>3. CASE o \in n.keep /\ lost'[d] = lost[d] \cup {at[d]}
          <6>1. o # "Exact"
            BY <1>1, <5>3 DEF Reads
          <6> QED BY <4>1, <4>4, <4>5, <5>1, <5>3, <6>1
        <5> QED BY <4>1, <5>2, <5>3
      <4> QED BY <1>0, <3>1, <3>2, <4>1, <4>3, <4>6 DEF ParseInv, JudgeInv
    <3>3. CASE pc'[d] = "judge"
      <4>1. /\ at' = at /\ lost' = lost /\ garbled' = garbled
            /\ o \in {"Incomplete", "Malformed"} \ n.keep /\ outcome'[d] = o
        BY <1>0, <1>3, <3>3 DEF IInv, TypeOK
      <4>2. ParseInv(d)'
        BY <1>0, <2>1, <3>1, <4>1 DEF ParseInv
      <4>3. o = "Malformed" => SyncResult(walk[d]) = "Malformed"
        BY <1>1, <1>3, <4>1 DEF SyncResult
      <4>4. o = "Incomplete" => missing'[d] # {}
        BY <1>3, <2>1
      <4> QED BY <1>0, <4>1, <4>2, <4>3, <4>4 DEF JudgeInv
    <3> QED BY <2>1, <3>2, <3>3
  <2> QED BY <2>2, <2>3, <2>4, <2>5 DEF DriverInv
<1>7. ASSUME NEW x \in Drivers, x # d PROVE DriverInv(x)'
  BY <1>0, <1>7, Frame DEF IInv, TypeOK
<1> QED BY <1>4, <1>5, <1>6, <1>7 DEF IInv

(* A walk whose reads are all made, with no read left untolerated, ends as *)
(* the synchronous one does, having done without the same reads.           *)
LEMMA EndFacts ==
  ASSUME NEW w \in Walk, NEW k \in Nat, k > Len(w.reads)
  PROVE  /\ {i \in DOMAIN w.reads : i < k /\ LeavesFile(w.reads[i])} = SyncLost(w)
         /\ (\A i \in DOMAIN w.reads : i < k /\ LeavesFile(w.reads[i]) => "Malformed" \in w.reads[i].keep)
              => SyncResult(w) = w.ends
<1>1. \A i \in DOMAIN w.reads : i < k
  BY WalkFacts
<1> QED BY <1>1 DEF SyncLost, SyncResult

(* WalkEnds preserves the invariant.                                       *)
LEMMA WalkEndsInv ==
  ASSUME IInv, NEW d \in Drivers, WalkEnds(d)
  PROVE  IInv'
<1> USE DEF WalkEnds
<1>0. walk[d] \in Walk /\ at[d] \in Nat /\ walk[d].ends \in {"Value", "Malformed"}
  BY WalkFacts DEF IInv, TypeOK
<1>1. TypeOK' /\ PagesWhole'
  BY <1>0 DEF IInv, TypeOK, PagesWhole
<1>2. DriverInv(d)'
  <2>1. /\ pc[d] = "walk" /\ pc'[d] = "judge" /\ outcome'[d] = walk[d].ends
        /\ at[d] > Len(walk[d].reads)
        /\ UNCHANGED <<walk, pages, wanted, todo, asked, previous, round, at, missing, lost,
                       garbled, degraded>>
    BY DEF IInv, TypeOK
  <2>2. WantedInv(d)'
    <3>1. Held(d)' = Held(d)
      BY <2>1 DEF Held
    <3>2. WantedInv(d)
      BY DEF IInv, DriverInv
    <3> HIDE DEF WalkEnds
    <3> QED BY <2>1, <3>1, <3>2 DEF WantedInv
  <2>3. MissingInv(d)' /\ ParseInv(d)'
    BY <2>1 DEF IInv, DriverInv, MissingInv, ParseInv
  <2>4. JudgeInv(d)'
    <3>1. ~degraded => SyncResult(walk[d]) = walk[d].ends
      BY <1>0, <2>1, EndFacts DEF IInv, DriverInv, ParseInv
    <3> QED BY <1>0, <2>1, <3>1 DEF JudgeInv
  <2> QED BY <2>1, <2>2, <2>3, <2>4 DEF DriverInv, StartInv, ResultInv
<1>3. ASSUME NEW x \in Drivers, x # d PROVE DriverInv(x)'
  BY <1>3, Frame DEF IInv, TypeOK
<1> QED BY <1>1, <1>2, <1>3 DEF IInv

(* With a source that answers in full the pages a round lacks are never    *)
(* the ones the round before lacked: those are held.                       *)
LEMMA NothingNewMeansNothing ==
  ASSUME IInv, NEW d \in Drivers, pc[d] = "judge", ~degraded, NothingNew(d)
  PROVE  missing[d] = {}
<1>1. \A p \in missing[d] : p \in Pages /\ pages[d][p] = 0
  BY DEF IInv, TypeOK, DriverInv, MissingInv
<1>2. \A p \in previous[d] : pages[d][p] > 0
  BY DEF IInv, DriverInv, WantedInv
<1>3. \A p \in missing[d] : p \notin previous[d]
  BY <1>1, <1>2
<1> QED BY <1>3 DEF NothingNew

(* Finish preserves the invariant.                                         *)
LEMMA FinishInv ==
  ASSUME IInv, NEW d \in Drivers, Finish(d)
  PROVE  IInv'
<1> USE DEF Finish
<1>1. TypeOK' /\ PagesWhole'
  BY DEF IInv, TypeOK, PagesWhole
<1>2. DriverInv(d)'
  <2>1. /\ pc[d] = "judge" /\ pc'[d] = "done"
        /\ UNCHANGED <<walk, lost, garbled, degraded>>
        /\ \/ outcome[d] = "Value" /\ NothingNew(d) /\ result'[d] = "Value"
           \/ outcome[d] = "Incomplete" /\ NothingNew(d) /\ result'[d] = "Stuck"
           \/ outcome[d] = "Malformed" /\ result'[d] = "Malformed"
    BY DEF IInv, TypeOK
  <2>2. ResultInv(d)'
    <3> SUFFICES ASSUME ~degraded PROVE ResultInv(d)'
      BY <2>1 DEF ResultInv
    <3>1. CASE outcome[d] = "Value" /\ NothingNew(d) /\ result'[d] = "Value"
      <4>1. missing[d] = {}
        BY <2>1, <3>1, NothingNewMeansNothing
      <4>2. at[d] > Len(walk[d].reads) /\ walk[d].ends = "Value"
        BY <2>1, <3>1 DEF IInv, DriverInv, JudgeInv
      <4>3. /\ ~garbled[d]
            /\ \A i \in DOMAIN walk[d].reads :
                 i < at[d] /\ LeavesFile(walk[d].reads[i]) => "Malformed" \in walk[d].reads[i].keep
            /\ lost[d] = {i \in DOMAIN walk[d].reads : i < at[d] /\ LeavesFile(walk[d].reads[i])}
        BY <2>1, <4>1 DEF IInv, DriverInv, ParseInv
      <4>4. walk[d] \in Walk /\ at[d] \in Nat
        BY DEF IInv, TypeOK
      <4>5. SyncResult(walk[d]) = "Value" /\ lost[d] = SyncLost(walk[d])
        BY <4>2, <4>3, <4>4, EndFacts
      <4> QED BY <2>1, <3>1, <4>3, <4>5 DEF ResultInv
    <3>2. CASE outcome[d] = "Incomplete" /\ NothingNew(d)
      <4>1. missing[d] = {} /\ missing[d] # {}
        BY <2>1, <3>2, NothingNewMeansNothing DEF IInv, DriverInv, JudgeInv
      <4> QED BY <4>1
    <3>3. CASE outcome[d] = "Malformed" /\ result'[d] = "Malformed"
      BY <2>1, <3>3 DEF IInv, DriverInv, JudgeInv, ResultInv
    <3> QED BY <2>1, <3>1, <3>2, <3>3
  <2> QED BY <2>1, <2>2 DEF DriverInv, StartInv, WantedInv, MissingInv, ParseInv, JudgeInv
<1>3. ASSUME NEW x \in Drivers, x # d PROVE DriverInv(x)'
  BY <1>3, Frame DEF IInv, TypeOK
<1> QED BY <1>1, <1>2, <1>3 DEF IInv

(* A page more than the pages held and wanted.                             *)
LEMMA OneMore ==
  ASSUME NEW d, NEW W \in SUBSET Pages, NEW M \in SUBSET Pages, M # {},
         W \subseteq Held(d), M \cap Held(d) = {}
  PROVE  Cardinality(Held(d) \cup W) + 1 <= Cardinality(Held(d) \cup M)
<1>1. Held(d) \cup W = Held(d)
  OBVIOUS
<1>2. IsFiniteSet(Held(d) \cup M) /\ IsFiniteSet(Held(d))
  BY PagesFinite, FS_Subset DEF Held
<1>3. /\ Held(d) \in SUBSET (Held(d) \cup M) /\ Held(d) # Held(d) \cup M
  OBVIOUS
<1>4. Cardinality(Held(d)) <= Cardinality(Held(d) \cup M) /\ Cardinality(Held(d)) # Cardinality(Held(d) \cup M)
  BY <1>2, <1>3, FS_Subset
<1>5. Cardinality(Held(d)) \in Nat /\ Cardinality(Held(d) \cup M) \in Nat
  BY <1>2, FS_CardinalityType
<1> QED BY <1>1, <1>4, <1>5

(* NextRound preserves the invariant.                                      *)
LEMMA NextRoundInv ==
  ASSUME IInv, NEW d \in Drivers, NextRound(d)
  PROVE  IInv'
<1>0. /\ pc[d] = "judge" /\ ~NothingNew(d)
      /\ previous' = [previous EXCEPT ![d] = missing[d]]
      /\ wanted' = [wanted EXCEPT ![d] = missing[d]]
      /\ UNCHANGED <<cache, walk, pages, asked, degraded>>
  BY DEF NextRound
<1>1. PagesWhole'
  BY <1>0 DEF IInv, PagesWhole
<1>2. CASE /\ round[d] < MaxRounds
           /\ round' = [round EXCEPT ![d] = @ + 1]
           /\ todo' = [todo EXCEPT ![d] = missing[d]]
           /\ at' = [at EXCEPT ![d] = 1]
           /\ missing' = [missing EXCEPT ![d] = {}]
           /\ lost' = [lost EXCEPT ![d] = {}]
           /\ garbled' = [garbled EXCEPT ![d] = FALSE]
           /\ outcome' = [outcome EXCEPT ![d] = "none"]
           /\ pc' = [pc EXCEPT ![d] = "lookup"]
           /\ UNCHANGED result
  <2>1. TypeOK'
    <3>1. round' \in [Drivers -> 0 .. MaxRounds]
      BY <1>2, SizesAssumption DEF IInv, TypeOK
    <3>2. /\ at' \in [Drivers -> Nat \ {0}] /\ garbled' \in [Drivers -> BOOLEAN]
          /\ lost' \in [Drivers -> SUBSET Nat] /\ missing' \in [Drivers -> SUBSET Pages]
          /\ todo' \in [Drivers -> SUBSET Pages]
      BY <1>2 DEF IInv, TypeOK
    <3> QED BY <1>0, <1>2, <3>1, <3>2 DEF IInv, TypeOK
  <2>2. /\ pc'[d] = "lookup" /\ round'[d] = round[d] + 1 /\ todo'[d] = missing[d]
        /\ wanted'[d] = missing[d] /\ previous'[d] = missing[d]
        /\ at'[d] = 1 /\ missing'[d] = {} /\ lost'[d] = {} /\ ~garbled'[d]
    BY <1>0, <1>2 DEF IInv, TypeOK
  <2>3. WantedInv(d)'
    <3> SUFFICES ASSUME ~degraded PROVE WantedInv(d)'
      BY <1>0 DEF WantedInv
    <3>1. /\ round[d] <= Cardinality(Held(d) \cup wanted[d])
          /\ wanted[d] \subseteq Held(d)
      BY <1>0 DEF IInv, TypeOK, DriverInv, WantedInv, Held
    <3>2. missing[d] # {} /\ missing[d] \cap Held(d) = {}
      BY <1>0 DEF IInv, TypeOK, DriverInv, MissingInv, NothingNew, Held
    <3>3. wanted[d] \in SUBSET Pages /\ missing[d] \in SUBSET Pages /\ round[d] \in Nat
      BY DEF IInv, TypeOK
    <3>4. Cardinality(Held(d) \cup wanted[d]) + 1 <= Cardinality(Held(d) \cup missing[d])
      BY <3>1, <3>2, <3>3, OneMore
    <3>5. round[d] + 1 <= Cardinality(Held(d) \cup missing[d])
      <4>1. Cardinality(Held(d) \cup wanted[d]) \in Nat /\ Cardinality(Held(d) \cup missing[d]) \in Nat
        BY <3>3, HeldFinite
      <4> QED BY <3>1, <3>3, <3>4, <4>1
    <3>6. Held(d)' = Held(d)
      BY <1>0 DEF Held
    <3> QED BY <2>2, <3>5, <3>6 DEF WantedInv
  <2>4. DriverInv(d)'
    BY <2>2, <2>3 DEF DriverInv, StartInv, MissingInv, ParseInv, JudgeInv, ResultInv
  <2>5. ASSUME NEW x \in Drivers, x # d PROVE DriverInv(x)'
    BY <1>0, <1>2, <2>5, Frame DEF IInv, TypeOK
  <2> QED BY <1>1, <2>1, <2>4, <2>5 DEF IInv
<1>3. CASE /\ result' = [result EXCEPT ![d] = "Limit"]
           /\ pc' = [pc EXCEPT ![d] = "done"]
           /\ UNCHANGED <<round, todo, at, missing, lost, garbled, outcome>>
  <2>1. TypeOK'
    BY <1>0, <1>3 DEF IInv, TypeOK
  <2>2. pc'[d] = "done" /\ result'[d] = "Limit"
    BY <1>3 DEF IInv, TypeOK
  <2>3. DriverInv(d)'
    BY <2>2 DEF DriverInv, StartInv, WantedInv, MissingInv, ParseInv, JudgeInv, ResultInv
  <2>4. ASSUME NEW x \in Drivers, x # d PROVE DriverInv(x)'
    BY <1>0, <1>3, <2>4, Frame DEF IInv, TypeOK
  <2> QED BY <1>1, <2>1, <2>3, <2>4 DEF IInv
<1> QED BY <1>2, <1>3 DEF NextRound

(* Return and Cancel preserve the invariant.                               *)
LEMMA LeaveInv ==
  ASSUME IInv, NEW d \in Drivers, Leave(d)
  PROVE  IInv'
<1> USE DEF Leave
<1>0. NoWalk \in Walk /\ 0 \in 0 .. MaxRounds
  BY EmptySeq, SizesAssumption DEF NoWalk, Walk
<1>1. TypeOK'
  <2>1. pages' \in [Drivers -> [Pages -> Nat]] /\ walk' \in [Drivers -> Walk]
    BY <1>0 DEF IInv, TypeOK
  <2>2. round' \in [Drivers -> 0 .. MaxRounds] /\ at' \in [Drivers -> Nat \ {0}]
    BY <1>0 DEF IInv, TypeOK
  <2>3. /\ wanted' \in [Drivers -> SUBSET Pages] /\ todo' \in [Drivers -> SUBSET Pages]
        /\ asked' \in [Drivers -> SUBSET Pages] /\ previous' \in [Drivers -> SUBSET Pages]
        /\ missing' \in [Drivers -> SUBSET Pages] /\ lost' \in [Drivers -> SUBSET Nat]
    BY DEF IInv, TypeOK
  <2>4. /\ garbled' \in [Drivers -> BOOLEAN] /\ degraded' \in BOOLEAN /\ cache' \in [Pages -> Nat]
        /\ pc' \in [Drivers -> {"idle", "lookup", "await", "walk", "judge", "done"}]
        /\ outcome' \in [Drivers -> {"none", "Value", "Incomplete", "Malformed"}]
        /\ result' \in [Drivers -> {"none", "Value", "Stuck", "Malformed", "Source", "Limit"}]
    BY DEF IInv, TypeOK
  <2> QED BY <2>1, <2>2, <2>3, <2>4 DEF TypeOK
<1>2. PagesWhole'
  BY DEF IInv, TypeOK, PagesWhole, Whole
<1>3. DriverInv(d)'
  <2>1. /\ pc'[d] = "idle" /\ at'[d] = 1 /\ missing'[d] = {} /\ lost'[d] = {} /\ ~garbled'[d]
        /\ previous'[d] = {}
    BY DEF IInv, TypeOK
  <2> QED BY <2>1 DEF DriverInv, StartInv, WantedInv, MissingInv, ParseInv, JudgeInv, ResultInv
<1>4. ASSUME NEW x \in Drivers, x # d PROVE DriverInv(x)'
  BY <1>4, Frame DEF IInv, TypeOK
<1> QED BY <1>1, <1>2, <1>3, <1>4 DEF IInv

(* Every step preserves the invariant.                                     *)
LEMMA NextInv == IInv /\ [Next]_vars => IInv'
<1> SUFFICES ASSUME IInv, [Next]_vars PROVE IInv'
  OBVIOUS
<1>1. ASSUME NEW d \in Drivers, NEW w \in Walks[d], NEW prefetch \in Prefetches[d],
             Call(d, w, prefetch)
      PROVE  IInv'
  BY <1>1, CallInv
<1>2. ASSUME NEW d \in Drivers, Step(d) PROVE IInv'
  BY <1>2, LookupInv, EndLookupInv, SourceAnswersInv, SourceAnswersShortInv, SourceFailsInv,
     WalkReadInv, WalkEndsInv, FinishInv, NextRoundInv
  DEF Step
<1>3. ASSUME NEW d \in Drivers, Return(d) \/ Cancel(d) PROVE IInv'
  BY <1>3, LeaveInv DEF Return, Cancel
<1>4. ASSUME NEW p \in Pages, Evict(p) \/ ReaderStores(p) PROVE IInv'
  <2>1. UNCHANGED local /\ degraded' = degraded
    BY <1>4 DEF Evict, ReaderStores
  <2>2. PICK v \in {0, PageLen(p)} : cache' = [cache EXCEPT ![p] = v]
    BY <1>4 DEF Evict, ReaderStores
  <2>3. v \in Nat
    BY PageFacts
  <2>4. cache' \in [Pages -> Nat]
    BY <2>2, <2>3 DEF IInv, TypeOK
  <2>5. ~degraded' => Whole(cache')
    BY <2>1, <2>2 DEF IInv, TypeOK, PagesWhole, Whole
  <2>6. degraded' \in BOOLEAN
    BY <2>1 DEF IInv, TypeOK
  <2> QED BY <2>1, <2>4, <2>5, <2>6, Shared
<1>5. ASSUME NEW p \in Pages, NEW n \in 1 .. PageSize, WalkStoresShort(p, n) PROVE IInv'
  <2>1. UNCHANGED local /\ degraded' = TRUE /\ cache' \in [Pages -> Nat]
    BY <1>5 DEF WalkStoresShort, IInv, TypeOK
  <2> QED BY <2>1, Shared
<1>6. CASE UNCHANGED vars
  <2>1. UNCHANGED local /\ degraded' = degraded /\ cache' = cache
    BY <1>6 DEF vars
  <2>2. cache' \in [Pages -> Nat] /\ degraded' \in BOOLEAN
    BY <2>1 DEF IInv, TypeOK
  <2>3. ~degraded' => Whole(cache')
    BY <2>1 DEF IInv, PagesWhole
  <2> QED BY <2>1, <2>2, <2>3, Shared
<1> QED BY <1>1, <1>2, <1>3, <1>4, <1>5, <1>6 DEF Next

(* Every reachable state satisfies the inductive invariant.                *)
THEOREM Invariance == Spec => []IInv
BY InitInv, NextInv, PTL DEF Spec

(* The variables keep their types; no more than MAX_ROUNDS rounds are      *)
(* begun (replay.rs:196-247).                                              *)
THEOREM TypeCorrect == Spec => []TypeOK
<1>1. IInv => TypeOK
  BY DEF IInv
<1> QED BY <1>1, Invariance, PTL

(* Over a source that answers in full, a replayed walk that returns a      *)
(* value returns the synchronous walk's value (replay.rs:196-247,          *)
(* netcdf.rs:1040).                                                        *)
THEOREM ValuesSynchronous == Spec => []ValueIsSynchronous
<1>1. IInv => ValueIsSynchronous
  BY DEF IInv, DriverInv, ResultInv, ValueIsSynchronous
<1> QED BY <1>1, Invariance, PTL

(* Over a source that answers in full, a replayed walk never gets stuck    *)
(* and is malformed only where the synchronous walk is (replay.rs:228-     *)
(* 236).                                                                   *)
THEOREM FailuresSynchronous == Spec => []FailureIsSynchronous
<1>1. IInv => FailureIsSynchronous
  BY DEF IInv, DriverInv, ResultInv, FailureIsSynchronous
<1> QED BY <1>1, Invariance, PTL

(* Over a source that answers in full, every round earns a page, so that a *)
(* walk takes no more rounds than the file has pages (replay.rs:46, 196-   *)
(* 247).                                                                   *)
THEOREM RoundsBounded == Spec => []RoundsEarnPages
<1>1. ASSUME IInv, NEW d \in Drivers, ~degraded, pc[d] \in {"walk", "judge"}
      PROVE  round[d] <= Cardinality({p \in Pages : pages[d][p] > 0})
  <2>1. /\ \A p \in wanted[d] : pages[d][p] > 0
        /\ round[d] <= Cardinality(Held(d) \cup wanted[d])
    BY <1>1 DEF IInv, DriverInv, WantedInv
  <2>2. Held(d) \cup wanted[d] = Held(d)
    BY <1>1, <2>1 DEF IInv, TypeOK, Held
  <2> QED BY <2>1, <2>2 DEF Held
<1>2. IInv => RoundsEarnPages
  BY <1>1 DEF RoundsEarnPages
<1> QED BY <1>2, Invariance, PTL
================================================================================
