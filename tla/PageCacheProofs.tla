---------------------------- MODULE PageCacheProofs ----------------------------
(* Proofs about PageCache, for every file, page size, reader set and       *)
(* request set.                                                            *)
EXTENDS PageCache, SequenceTheorems, TLAPS

(* A page starts at or before any offset that divides into it.             *)
LEMMA DivBounds ==
  ASSUME NEW n \in Nat
  PROVE  /\ n \div PageSize \in Nat
         /\ (n \div PageSize) * PageSize <= n
         /\ n < (n \div PageSize + 1) * PageSize
BY PageSizeAssumption, Z3

(* Where a page starts and where the next one does.                        *)
LEMMA StartFacts ==
  ASSUME NEW a \in Nat
  PROVE  /\ Start(a) \in Nat
         /\ Start(a + 1) = Start(a) + PageSize
         /\ a <= Start(a)
         /\ \A b \in Nat : a <= b => Start(a) <= Start(b)
BY PageSizeAssumption, Z3 DEF Start

(* The file has a length.                                                  *)
LEMMA SizeNat == Size \in Nat
BY FileAssumption, LenProperties DEF Size

(* The numbers of the pages.                                               *)
LEMMA PagesFacts ==
  ASSUME NEW p
  PROVE  p \in Pages <=> p \in Nat /\ Start(p) < Size
BY StartFacts, SizeNat DEF Pages

(* The length of a slice, and that it is a sequence of bytes.              *)
LEMMA SliceFacts ==
  ASSUME NEW o \in Nat, NEW n \in Nat, o + n <= Size
  PROVE  /\ Slice(o, n) \in Seq(Int)
         /\ Len(Slice(o, n)) = n
         /\ \A i \in 1 .. n : Slice(o, n)[i] = File[o + i]
BY FileAssumption, SubSeqProperties, SizeNat DEF Slice, Size

(* A slice of a slice is a slice of the file.                              *)
LEMMA SliceOfSlice ==
  ASSUME NEW o \in Nat, NEW n \in Nat, o + n <= Size,
         NEW a \in Nat, NEW m \in Nat, a + m <= n
  PROVE  SubSeq(Slice(o, n), a + 1, a + m) = Slice(o + a, m)
<1>1. CASE m = 0
  BY <1>1, SubSeqEmpty DEF Slice
<1>2. CASE m > 0
  <2>1. /\ o + 1 \in 1 .. Len(File) /\ o + n \in 1 .. Len(File)
        /\ a + 1 \in 1 .. (o + n) - (o + 1) + 1
        /\ a + m \in 1 .. (o + n) - (o + 1) + 1
    BY <1>2, SizeNat DEF Size
  <2>2. SubSeq(SubSeq(File, o + 1, o + n), a + 1, a + m)
          = SubSeq(File, (o + 1) + (a + 1) - 1, (o + 1) + (a + m) - 1)
    BY <2>1, FileAssumption, SubSeqOfSubSeq
  <2>3. (o + 1) + (a + 1) - 1 = o + a + 1 /\ (o + 1) + (a + m) - 1 = o + a + m
    OBVIOUS
  <2> QED BY <2>2, <2>3 DEF Slice
<1> QED BY <1>1, <1>2

(* Slices that touch make one slice.                                       *)
LEMMA SliceConcat ==
  ASSUME NEW o \in Nat, NEW n \in Nat, NEW m \in Nat, o + n + m <= Size
  PROVE  Slice(o, n) \o Slice(o + n, m) = Slice(o, n + m)
<1>1. /\ o + 1 \in 1 .. Len(File) + 1
      /\ o + n \in (o + 1) - 1 .. Len(File)
      /\ o + n + m \in o + n .. Len(File)
  BY SizeNat DEF Size
<1>2. SubSeq(File, o + 1, o + n) \o SubSeq(File, (o + n) + 1, o + n + m)
        = SubSeq(File, o + 1, o + n + m)
  BY <1>1, FileAssumption, ConcatAdjacentSubSeq
<1>3. o + n + m = o + (n + m)
  OBVIOUS
<1> QED BY <1>2, <1>3 DEF Slice

--------------------------------------------------------------------------------

(* The initial state.                                                      *)
LEMMA InitInv == Init => IInv
<1> SUFFICES ASSUME Init PROVE IInv
  OBVIOUS
<1>1. TypeOK
  BY EmptySeq DEF Init, TypeOK, NoReq, NoRun, PCs, Absent
<1>2. PagesAreFileBytes
  <2>1. ASSUME NEW p \in Pages PROVE IsPageOf(Absent, p)
    <3>1. Start(p) \in Nat /\ Start(p) < Size /\ Size \in Nat
      BY PagesFacts, StartFacts, SizeNat
    <3>2. Len(Absent) = 0 /\ Len(Absent) <= PageLen(p)
      BY <3>1, EmptySeq, PageSizeAssumption DEF Absent, PageLen, MinOf
    <3> QED BY <3>1, <3>2, SubSeqEmpty DEF IsPageOf, Slice, Absent
  <2> QED BY <2>1 DEF Init, PagesAreFileBytes
<1>3. PagesWhole
  BY DEF Init, PagesWhole
<1>4. \A r \in Readers : ReaderInv(r)
  BY DEF Init, ReaderInv, InBounds, RunInv, NothingForgotten, AssembleInv, ResultInv,
         Reading, NoReq
<1> QED BY <1>1, <1>2, <1>3, <1>4 DEF IInv

(* A step of another reader leaves what is known of reader x as it was.    *)
LEMMA Frame ==
  ASSUME NEW x \in Readers, TypeOK, ReaderInv(x),
         pc'[x] = pc[x], req'[x] = req[x], at'[x] = at[x], pages'[x] = pages[x],
         todo'[x] = todo[x], run'[x] = run[x], buf'[x] = buf[x], out'[x] = out[x],
         result'[x] = result[x], degraded => degraded'
  PROVE  ReaderInv(x)'
BY DEF ReaderInv, InBounds, RunInv, NothingForgotten, AssembleInv, ResultInv, Owed

(* The first and the last page of a range inside the file.                 *)
LEMMA RangePages ==
  ASSUME NEW q \in [offset : Nat, len : Nat], q.len # 0, q.offset + q.len <= Size
  PROVE  /\ First(q) \in Pages /\ Last(q) \in Pages
         /\ First(q) <= Last(q)
         /\ Start(First(q)) <= q.offset
         /\ q.offset < Start(First(q)) + PageSize
         /\ q.offset + q.len <= Start(Last(q)) + PageSize
         /\ Start(Last(q)) < q.offset + q.len
         /\ \A p \in First(q) .. Last(q) : p \in Pages
<1> DEFINE o == q.offset
           e == q.offset + q.len - 1
<1>1. o \in Nat /\ e \in Nat /\ o <= e /\ e < Size
  BY SizeNat
<1>2. /\ First(q) \in Nat /\ Start(First(q)) <= o /\ o < Start(First(q) + 1)
      /\ Last(q) \in Nat /\ Start(Last(q)) <= e /\ e < Start(Last(q) + 1)
  BY <1>1, DivBounds DEF First, Last, Start
<1>3. /\ Start(First(q)) \in Nat /\ Start(Last(q)) \in Nat
      /\ Start(First(q) + 1) = Start(First(q)) + PageSize
      /\ Start(Last(q) + 1) = Start(Last(q)) + PageSize
  BY <1>2, StartFacts
<1>4. First(q) <= Last(q)
  <2> SUFFICES ASSUME Last(q) + 1 <= First(q) PROVE FALSE
    BY <1>2
  <2>1. Start(Last(q) + 1) <= Start(First(q))
    BY <1>2, StartFacts
  <2> QED BY <2>1, <1>1, <1>2, <1>3, PageSizeAssumption
<1>5. First(q) \in Pages /\ Last(q) \in Pages
  BY <1>1, <1>2, <1>3, SizeNat, PagesFacts
<1>6. \A p \in First(q) .. Last(q) : p \in Pages
  <2> TAKE p \in First(q) .. Last(q)
  <2>1. p \in Nat /\ p <= Last(q)
    BY <1>2
  <2>2. Start(p) \in Nat /\ Start(p) <= Start(Last(q))
    BY <2>1, <1>2, StartFacts
  <2> QED BY <2>1, <2>2, <1>1, <1>2, <1>3, SizeNat, PagesFacts
<1> QED BY <1>1, <1>2, <1>3, <1>4, <1>5, <1>6, PageSizeAssumption

(* The actions that leave the shared cache and the pages alone.            *)
LEMMA LocalInv ==
  ASSUME PagesAreFileBytes, PagesWhole, UNCHANGED <<cache, pages, degraded>>
  PROVE  PagesAreFileBytes' /\ PagesWhole'
BY DEF PagesAreFileBytes, PagesWhole, IsPageOf

(* Call preserves the invariant.                                           *)
LEMMA CallInv ==
  ASSUME IInv, NEW r \in Readers, NEW q \in Requests[r], Call(r, q)
  PROVE  IInv'
<1> USE DEF Call, IInv
<1>1. TypeOK'
  BY RequestsAssumption DEF TypeOK, PCs
<1>2. PagesAreFileBytes' /\ PagesWhole'
  BY LocalInv
<1>3. ReaderInv(r)'
  BY DEF TypeOK, ReaderInv, InBounds, RunInv, NothingForgotten, AssembleInv, ResultInv,
         Reading
<1>4. ASSUME NEW x \in Readers, x # r PROVE ReaderInv(x)'
  BY <1>4, Frame DEF TypeOK
<1> QED BY <1>1, <1>2, <1>3, <1>4

(* Bounds preserves the invariant.                                         *)
LEMMA BoundsInv ==
  ASSUME IInv, NEW r \in Readers, Bounds(r)
  PROVE  IInv'
<1> USE DEF Bounds, IInv
<1>0. req[r] \in [offset : Nat, len : Nat]
  BY DEF TypeOK
<1>a. CASE req[r].len # 0 /\ req[r].offset + req[r].len <= Size
  <2>1. First(req[r]) \in Nat /\ First(req[r]) <= Last(req[r]) /\ Last(req[r]) \in Nat
    BY <1>0, <1>a, RangePages, PagesFacts
  <2>a. /\ pc' = [pc EXCEPT ![r] = "lookup"]
        /\ at' = [at EXCEPT ![r] = First(req[r])]
        /\ UNCHANGED <<cache, req, pages, todo, run, buf, out, result, degraded>>
    BY <1>a, <1>0, SizeNat
  <2>2. TypeOK'
    BY <2>a, <2>1 DEF TypeOK, PCs
  <2>3. PagesAreFileBytes' /\ PagesWhole'
    BY LocalInv
  <2>4. ReaderInv(r)'
    BY <1>0, <1>a, <2>1, <2>a
    DEF TypeOK, ReaderInv, InBounds, RunInv, NothingForgotten, AssembleInv, ResultInv,
        Reading, Owed
  <2>5. ASSUME NEW x \in Readers, x # r PROVE ReaderInv(x)'
    <3>1. pc'[x] = pc[x] /\ at'[x] = at[x]
      BY <2>5, <2>a DEF TypeOK
    <3> QED BY <3>1, <2>a, Frame
  <2> QED BY <2>2, <2>3, <2>4, <2>5
<1>b. CASE ~(req[r].len # 0 /\ req[r].offset + req[r].len <= Size)
  <2>1. UNCHANGED <<cache, req, at, pages, todo, run, buf, out, degraded>>
    BY <1>b, <1>0, SizeNat
  <2>2. TypeOK'
    BY <2>1 DEF TypeOK, PCs, Errors
  <2>3. PagesAreFileBytes' /\ PagesWhole'
    BY LocalInv
  <2>4. /\ pc'[r] = "done"
        /\ \/ req[r].len = 0 /\ result'[r] = "ok"
           \/ req[r].offset + req[r].len > Size /\ result'[r] = "OutOfBounds"
    BY <1>b, <1>0, SizeNat DEF TypeOK
  <2>5. req[r].len = 0 => Slice(req[r].offset, req[r].len) = <<>>
    BY <1>0, SubSeqEmpty DEF Slice
  <2>6. out[r] = <<>> /\ out' = out /\ req' = req
    BY <2>1 DEF ReaderInv, AssembleInv
  <2>7. ReaderInv(r)'
    BY <2>4, <2>5, <2>6, EmptySeq
    DEF ReaderInv, InBounds, RunInv, NothingForgotten, AssembleInv, ResultInv, Reading
  <2>8. ASSUME NEW x \in Readers, x # r PROVE ReaderInv(x)'
    <3>1. pc'[x] = pc[x] /\ result'[x] = result[x]
      BY <2>8, <1>b, <1>0, SizeNat DEF TypeOK
    <3> QED BY <3>1, <2>1, Frame
  <2> QED BY <2>2, <2>3, <2>7, <2>8
<1> QED BY <1>a, <1>b

(* Lookup preserves the invariant.                                         *)
LEMMA LookupInv ==
  ASSUME IInv, NEW r \in Readers, Lookup(r)
  PROVE  IInv'
<1> USE DEF Lookup, IInv
<1> DEFINE p == at[r]
           q == req[r]
<1>0. q \in [offset : Nat, len : Nat] /\ q.len # 0 /\ q.offset + q.len <= Size
  BY DEF TypeOK, ReaderInv, InBounds, Reading
<1>1. /\ p \in First(q) .. Last(q) /\ p \in Pages /\ p \in Nat
      /\ First(q) \in Nat /\ Last(q) \in Nat /\ First(q) <= Last(q)
      /\ \A i \in First(q) .. Last(q) : i \in Pages
  BY <1>0, RangePages, PagesFacts DEF ReaderInv, NothingForgotten
<1>2. TypeOK'
  <2>1. cache[p] \in Seq(Int)
    BY <1>1 DEF TypeOK
  <2>2. pages' \in [Readers -> [Pages -> Seq(Int)]]
    BY <2>1, <1>1 DEF TypeOK
  <2>3. todo' \in [Readers -> SUBSET Pages]
    BY <1>1 DEF TypeOK
  <2>4. at' \in [Readers -> Nat] /\ pc' \in [Readers -> PCs]
    BY <1>1 DEF TypeOK, PCs
  <2> QED BY <2>2, <2>3, <2>4 DEF TypeOK
<1>3. PagesAreFileBytes'
  BY <1>1 DEF PagesAreFileBytes, TypeOK, IsPageOf
<1>4. PagesWhole'
  BY <1>1 DEF PagesWhole, TypeOK
<1>5. ReaderInv(r)'
  <2>1. \A i \in First(q) .. Last(q) : i # p =>
           pages'[r][i] # Absent \/ i \in todo'[r] \/ p + 1 <= i
    <3> TAKE i \in First(q) .. Last(q)
    <3>1. pages[r][i] # Absent \/ i \in todo[r] \/ p <= i
      BY <1>1 DEF ReaderInv, NothingForgotten, Owed, Reading
    <3>2. i \in todo[r] => i \in todo'[r]
      BY DEF TypeOK
    <3>3. i # p => pages'[r][i] = pages[r][i]
      BY <1>1 DEF TypeOK
    <3> QED BY <3>1, <3>2, <3>3, <1>1
  <2>2. pages'[r][p] # Absent \/ p \in todo'[r]
    BY <1>1 DEF TypeOK
  <2>3. /\ req' = req /\ run' = run /\ buf' = buf /\ out' = out /\ result' = result
        /\ at'[r] = p + 1
        /\ pc'[r] = IF p = Last(q) THEN "fetch" ELSE "lookup"
    BY DEF TypeOK
  <2>4. NothingForgotten(r)'
    BY <1>1, <2>1, <2>2, <2>3 DEF NothingForgotten, Owed
  <2>5. (InBounds(r) /\ RunInv(r) /\ AssembleInv(r) /\ ResultInv(r))'
    BY <2>3, <1>0
    DEF ReaderInv, InBounds, RunInv, AssembleInv, ResultInv, Reading
  <2> QED BY <2>4, <2>5 DEF ReaderInv
<1>6. ASSUME NEW x \in Readers, x # r PROVE ReaderInv(x)'
  BY <1>6, Frame DEF TypeOK
<1> QED BY <1>2, <1>3, <1>4, <1>5, <1>6

(* FetchRun preserves the invariant.                                       *)
LEMMA FetchRunInv ==
  ASSUME IInv, NEW r \in Readers, FetchRun(r)
  PROVE  IInv'
<1> USE DEF FetchRun, IInv
<1>1. PICK s \in Pages, e \in Pages :
        /\ IsFirstRun(todo[r], s, e)
        /\ run' = [run EXCEPT ![r] = [start |-> s, end |-> e]]
        /\ todo' = [todo EXCEPT ![r] = @ \ (s .. e)]
  OBVIOUS
<1>2. s \in Nat /\ e \in Nat /\ s <= e
  BY <1>1, PagesFacts DEF IsFirstRun
<1>3. TypeOK'
  BY <1>1, <1>2 DEF TypeOK, PCs
<1>4. PagesAreFileBytes' /\ PagesWhole'
  BY LocalInv
<1>5. ReaderInv(r)'
  <2>1. /\ UNCHANGED <<req, at, pages, buf, out, result, degraded>>
        /\ pc[r] = "fetch" /\ pc'[r] = "await"
        /\ run'[r].start = s /\ run'[r].end = e
        /\ todo'[r] = todo[r] \ (s .. e)
    BY <1>1 DEF TypeOK
  <2>2. NothingForgotten(r)'
    BY <2>1 DEF ReaderInv, NothingForgotten, Owed, Reading
  <2>3. RunInv(r)'
    BY <2>1, <1>2 DEF RunInv
  <2>4. (InBounds(r) /\ AssembleInv(r) /\ ResultInv(r))'
    BY <2>1 DEF ReaderInv, InBounds, AssembleInv, ResultInv, Reading
  <2> QED BY <2>2, <2>3, <2>4 DEF ReaderInv
<1>6. ASSUME NEW x \in Readers, x # r PROVE ReaderInv(x)'
  BY <1>1, <1>6, Frame DEF TypeOK
<1> QED BY <1>3, <1>4, <1>5, <1>6

(* A run of pages inside the file: how many bytes it asks for.             *)
LEMMA RunFacts ==
  ASSUME NEW s \in Pages, NEW e \in Pages, s <= e
  PROVE  /\ s \in Nat /\ e \in Nat /\ Start(s) \in Nat
         /\ RunExtent(s, e) \in Nat
         /\ Start(s) + RunExtent(s, e) <= Size
         /\ \A p \in s .. e :
              /\ p \in Pages
              /\ Start(p) \in Nat
              /\ Start(s) <= Start(p)
              /\ Start(p) + PageLen(p) <= Start(s) + RunExtent(s, e)
              /\ PageLen(p) \in Nat \ {0}
              /\ MinOf(PageSize, RunExtent(s, e) - (Start(p) - Start(s))) = PageLen(p)
<1>1. /\ s \in Nat /\ e \in Nat /\ Start(s) < Size /\ Start(e) < Size
      /\ Start(s) \in Nat /\ Start(e) \in Nat /\ Start(s) <= Start(e)
      /\ Start(e + 1) = Start(e) + PageSize
      /\ Size \in Nat
  BY PagesFacts, StartFacts, SizeNat
<1>2. /\ RunExtent(s, e) \in Nat
      /\ Start(s) + RunExtent(s, e) = MinOf(Start(e) + PageSize, Size)
  BY <1>1, PageSizeAssumption DEF RunExtent, MinOf
<1>3. ASSUME NEW p \in s .. e
      PROVE  /\ p \in Nat
             /\ Start(p) \in Nat /\ Start(s) <= Start(p) /\ Start(p) <= Start(e)
             /\ p # e => Start(p) + PageSize <= Start(e)
  <2>1. p \in Nat /\ s <= p /\ p <= e
    BY <1>1
  <2>2. p # e => p + 1 <= e
    BY <2>1, <1>1
  <2>3. Start(p) \in Nat /\ Start(s) <= Start(p) /\ Start(p) <= Start(e)
    BY <2>1, <1>1, StartFacts
  <2>4. Start(p + 1) = Start(p) + PageSize
    BY <2>1, StartFacts
  <2>5. p + 1 <= e => Start(p + 1) <= Start(e)
    BY <2>1, <1>1, StartFacts, p + 1 \in Nat
  <2> QED BY <2>1, <2>2, <2>3, <2>4, <2>5
<1>4. ASSUME NEW p \in s .. e
      PROVE  /\ p \in Pages
             /\ Start(p) + PageLen(p) <= Start(s) + RunExtent(s, e)
             /\ PageLen(p) \in Nat \ {0}
             /\ MinOf(PageSize, RunExtent(s, e) - (Start(p) - Start(s))) = PageLen(p)
  <2>1. p \in Pages
    BY <1>1, <1>3, PagesFacts
  <2> QED BY <2>1, <1>1, <1>2, <1>3, PageSizeAssumption DEF PageLen, MinOf
<1> QED BY <1>1, <1>2, <1>3, <1>4, PageSizeAssumption DEF MinOf

(* SourceAnswers preserves the invariant.                                  *)
LEMMA SourceAnswersInv ==
  ASSUME IInv, NEW r \in Readers, SourceAnswers(r)
  PROVE  IInv'
<1> USE DEF SourceAnswers, IInv
<1> DEFINE s == run[r].start
           e == run[r].end
<1>1. s \in Pages /\ e \in Pages /\ s <= e /\ s \in Nat /\ e \in Nat
  BY PagesFacts DEF ReaderInv, RunInv
<1>2. Slice(Start(s), RunExtent(s, e)) \in Seq(Int)
  BY <1>1, RunFacts, SliceFacts
<1>3. TypeOK'
  BY <1>1, <1>2 DEF TypeOK, PCs
<1>4. PagesAreFileBytes' /\ PagesWhole'
  BY LocalInv
<1>5. ReaderInv(r)'
  <2>1. /\ UNCHANGED <<req, pages, todo, run, out, result, degraded>>
        /\ pc[r] = "await" /\ pc'[r] = "store" /\ at'[r] = s
        /\ buf'[r] = Slice(Start(s), RunExtent(s, e))
    BY DEF TypeOK
  <2>2. NothingForgotten(r)'
    BY <2>1 DEF ReaderInv, NothingForgotten, Owed, Reading
  <2>3. RunInv(r)'
    BY <2>1, <1>1 DEF RunInv
  <2>4. (InBounds(r) /\ AssembleInv(r) /\ ResultInv(r))'
    BY <2>1 DEF ReaderInv, InBounds, AssembleInv, ResultInv, Reading
  <2> QED BY <2>2, <2>3, <2>4 DEF ReaderInv
<1>6. ASSUME NEW x \in Readers, x # r PROVE ReaderInv(x)'
  BY <1>6, Frame DEF TypeOK
<1> QED BY <1>3, <1>4, <1>5, <1>6

(* SourceFails preserves the invariant.                                    *)
LEMMA SourceFailsInv ==
  ASSUME IInv, NEW r \in Readers, SourceFails(r)
  PROVE  IInv'
<1> USE DEF SourceFails, IInv
<1>1. TypeOK'
  BY DEF TypeOK, PCs, Errors
<1>2. PagesAreFileBytes' /\ PagesWhole'
  BY LocalInv
<1>3. ReaderInv(r)'
  BY DEF TypeOK, ReaderInv, InBounds, RunInv, NothingForgotten, AssembleInv, ResultInv,
         Reading
<1>4. ASSUME NEW x \in Readers, x # r PROVE ReaderInv(x)'
  BY <1>4, Frame DEF TypeOK
<1> QED BY <1>1, <1>2, <1>3, <1>4

(* Storing a page that is the file's bytes at its place, in the cache and  *)
(* in the reader's own pages, keeps both invariants of the pages.          *)
LEMMA StoredPage ==
  ASSUME TypeOK, PagesAreFileBytes, PagesWhole,
         NEW p \in Pages, NEW page \in Seq(Int), IsPageOf(page, p),
         cache' = [cache EXCEPT ![p] = page],
         ~degraded' => ~degraded /\ Len(page) = PageLen(p),
         \A x \in Readers : \A i \in Pages : pages'[x][i] = pages[x][i] \/ (i = p /\ pages'[x][i] = page)
  PROVE  PagesAreFileBytes' /\ PagesWhole'
<1>1. \A i \in Pages : cache'[i] = IF i = p THEN page ELSE cache[i]
  BY DEF TypeOK
<1>2. PagesAreFileBytes'
  BY <1>1 DEF PagesAreFileBytes, IsPageOf
<1>3. PagesWhole'
  BY <1>1 DEF PagesWhole
<1> QED BY <1>2, <1>3

(* StorePage preserves the invariant.                                      *)
LEMMA StorePageInv ==
  ASSUME IInv, NEW r \in Readers, StorePage(r)
  PROVE  IInv'
<1> USE DEF IInv
<1> DEFINE p    == at[r]
           s    == run[r].start
           e    == run[r].end
           from == Start(p) - Start(s)
           page == SubSeq(buf[r], from + 1, from + MinOf(PageSize, Len(buf[r]) - from))
<1>0. /\ pc[r] = "store" /\ p <= e /\ from < Len(buf[r])
      /\ cache' = [cache EXCEPT ![p] = page]
      /\ pages' = [pages EXCEPT ![r][p] = page]
      /\ at' = [at EXCEPT ![r] = p + 1]
      /\ UNCHANGED <<pc, req, todo, run, buf, out, result, degraded>>
  BY DEF StorePage
<1>1. /\ s \in Pages /\ e \in Pages /\ s <= e /\ s \in Nat /\ e \in Nat
      /\ p \in s .. e
      /\ buf[r] = Slice(Start(s), RunExtent(s, e))
  BY <1>0, PagesFacts DEF ReaderInv, RunInv
<1>2. /\ p \in Pages /\ p \in Nat
      /\ Start(s) \in Nat /\ Start(p) \in Nat /\ from \in Nat
      /\ RunExtent(s, e) \in Nat /\ Start(s) + RunExtent(s, e) <= Size
      /\ PageLen(p) \in Nat \ {0}
      /\ from + PageLen(p) <= RunExtent(s, e)
      /\ MinOf(PageSize, RunExtent(s, e) - from) = PageLen(p)
  BY <1>1, RunFacts
<1>3. Len(buf[r]) = RunExtent(s, e)
  BY <1>1, <1>2, SliceFacts
<1>4. page = Slice(Start(p), PageLen(p))
  <2>1. page = SubSeq(Slice(Start(s), RunExtent(s, e)), from + 1, from + PageLen(p))
    BY <1>1, <1>2, <1>3
  <2>2. SubSeq(Slice(Start(s), RunExtent(s, e)), from + 1, from + PageLen(p))
          = Slice(Start(s) + from, PageLen(p))
    <3> HIDE DEF from, s, e, p
    <3> QED BY <1>2, SliceOfSlice
  <2>3. Start(s) + from = Start(p)
    BY <1>2
  <2> QED BY <2>1, <2>2, <2>3
<1>5. page \in Seq(Int) /\ Len(page) = PageLen(p) /\ page # Absent
  <2>1. Start(p) + PageLen(p) <= Size
    BY <1>2, SizeNat
  <2> QED BY <1>2, <1>4, <2>1, SliceFacts, EmptySeq DEF Absent
<1> HIDE DEF page
<1>6. TypeOK'
  <2>1. cache' \in [Pages -> Seq(Int)]
    BY <1>0, <1>2, <1>5 DEF TypeOK
  <2>2. pages' \in [Readers -> [Pages -> Seq(Int)]]
    BY <1>0, <1>2, <1>5 DEF TypeOK
  <2>3. at' \in [Readers -> Nat]
    <3>1. at' = [at EXCEPT ![r] = p + 1] /\ p + 1 \in Nat
      BY <1>0, <1>2
    <3>2. at \in [Readers -> Nat]
      BY DEF TypeOK
    <3> HIDE DEF p, IInv
    <3> QED BY <3>1, <3>2
  <2>4. UNCHANGED <<pc, req, todo, run, buf, out, result, degraded>>
    BY <1>0
  <2> QED BY <2>1, <2>2, <2>3, <2>4 DEF TypeOK
<1>7. PagesAreFileBytes' /\ PagesWhole'
  <2>1. IsPageOf(page, p)
    BY <1>4, <1>5, <1>2 DEF IsPageOf
  <2>2. \A x \in Readers : \A i \in Pages :
          pages'[x][i] = pages[x][i] \/ (i = p /\ pages'[x][i] = page)
    BY <1>0 DEF TypeOK
  <2> QED BY <1>0, <1>2, <1>5, <2>1, <2>2, StoredPage
<1>8. ReaderInv(r)'
  <2>1. /\ UNCHANGED <<pc, req, todo, run, buf, out, result, degraded>>
        /\ at'[r] = p + 1
        /\ pages'[r][p] = page
        /\ \A i \in Pages : i # p => pages'[r][i] = pages[r][i]
    BY <1>0, <1>2 DEF TypeOK
  <2>2. NothingForgotten(r)'
    <3>1. req[r] \in [offset : Nat, len : Nat] /\ req[r].len # 0
          /\ req[r].offset + req[r].len <= Size
      BY <1>0 DEF TypeOK, ReaderInv, InBounds, Reading
    <3>2. ASSUME NEW i \in First(req[r]) .. Last(req[r])
          PROVE  pages'[r][i] # Absent \/ Owed(r, i)'
      <4>1. i \in Pages /\ i \in Nat
        BY <3>1, <3>2, RangePages, PagesFacts
      <4>2. pages[r][i] # Absent \/ Owed(r, i)
        BY <1>0 DEF ReaderInv, NothingForgotten, Reading
      <4>3. CASE i = p
        BY <4>3, <2>1, <1>5
      <4>4. CASE i # p
        BY <4>1, <4>2, <4>4, <2>1, <1>0, <1>1, <1>2 DEF Owed
      <4> QED BY <4>3, <4>4
    <3> QED BY <3>2, <2>1, <1>0 DEF NothingForgotten
  <2>3. RunInv(r)'
    <3>1. p + 1 \in s .. e + 1
      BY <1>1
    <3> QED BY <2>1, <1>1, <3>1 DEF RunInv
  <2>4. (InBounds(r) /\ AssembleInv(r) /\ ResultInv(r))'
    BY <2>1, <1>0 DEF ReaderInv, InBounds, AssembleInv, ResultInv
  <2> QED BY <2>2, <2>3, <2>4 DEF ReaderInv
<1>9. ASSUME NEW x \in Readers, x # r PROVE ReaderInv(x)'
  <2>1. at'[x] = at[x] /\ pages'[x] = pages[x]
    BY <1>9, <1>0 DEF TypeOK
  <2> QED BY <2>1, <1>0, Frame
<1> QED BY <1>6, <1>7, <1>8, <1>9

(* EndStore preserves the invariant.                                       *)
LEMMA EndStoreInv ==
  ASSUME IInv, NEW r \in Readers, EndStore(r)
  PROVE  IInv'
<1> USE DEF EndStore, IInv
<1> DEFINE s == run[r].start
           e == run[r].end
<1>1. TypeOK'
  BY EmptySeq DEF TypeOK, PCs, NoRun
<1>2. PagesAreFileBytes' /\ PagesWhole'
  BY LocalInv
<1>3. at[r] > e
  <2>1. /\ s \in Pages /\ e \in Pages /\ s <= e /\ s \in Nat /\ e \in Nat
        /\ at[r] \in s .. e + 1
        /\ buf[r] = Slice(Start(s), RunExtent(s, e))
    BY PagesFacts DEF ReaderInv, RunInv
  <2>2. Len(buf[r]) = RunExtent(s, e)
    BY <2>1, RunFacts, SliceFacts
  <2>3. CASE at[r] \in s .. e
    <3>1. /\ Start(at[r]) \in Nat /\ Start(s) \in Nat /\ PageLen(at[r]) \in Nat \ {0}
          /\ Start(at[r]) + PageLen(at[r]) <= Start(s) + RunExtent(s, e)
          /\ RunExtent(s, e) \in Nat
      BY <2>1, <2>3, RunFacts
    <3>2. Start(at[r]) - Start(s) < Len(buf[r])
      BY <3>1, <2>2
    <3> QED BY <3>1, <3>2, <2>1, <2>2
  <2> QED BY <2>1, <2>3
<1>4. ReaderInv(r)'
  <2>1. /\ UNCHANGED <<req, at, pages, todo, out, result, degraded>>
        /\ pc[r] = "store" /\ pc'[r] = "fetch"
    BY DEF TypeOK
  <2>2. NothingForgotten(r)'
    <3>1. \A i \in First(req[r]) .. Last(req[r]) : pages[r][i] # Absent \/ i \in todo[r]
      <4>1. at[r] \in Nat /\ e \in Nat /\ \A i : i \notin at[r] .. e
        BY <1>3 DEF TypeOK
      <4> QED BY <2>1, <4>1 DEF ReaderInv, NothingForgotten, Owed, Reading
    <3> QED BY <3>1, <2>1 DEF NothingForgotten, Owed
  <2>3. (InBounds(r) /\ RunInv(r) /\ AssembleInv(r) /\ ResultInv(r))'
    BY <2>1 DEF ReaderInv, InBounds, RunInv, AssembleInv, ResultInv, Reading
  <2> QED BY <2>2, <2>3 DEF ReaderInv
<1>5. ASSUME NEW x \in Readers, x # r PROVE ReaderInv(x)'
  BY <1>5, Frame DEF TypeOK
<1> QED BY <1>1, <1>2, <1>4, <1>5

(* StartAssemble preserves the invariant.                                  *)
LEMMA StartAssembleInv ==
  ASSUME IInv, NEW r \in Readers, StartAssemble(r)
  PROVE  IInv'
<1> USE DEF IInv
<1> DEFINE q == req[r]
<1>0. /\ pc[r] = "fetch" /\ todo[r] = {}
      /\ pc' = [pc EXCEPT ![r] = "assemble"]
      /\ at' = [at EXCEPT ![r] = First(q)]
      /\ UNCHANGED <<cache, req, pages, todo, run, buf, out, result, degraded>>
  BY DEF StartAssemble
<1>1. q \in [offset : Nat, len : Nat] /\ q.len # 0 /\ q.offset + q.len <= Size
  BY <1>0 DEF TypeOK, ReaderInv, InBounds, Reading
<1>2. /\ First(q) \in Nat /\ Last(q) \in Nat /\ First(q) <= Last(q)
      /\ Start(First(q)) \in Nat /\ Start(First(q)) <= q.offset
  BY <1>1, RangePages, PagesFacts, StartFacts
<1>3. TypeOK'
  BY <1>0, <1>2 DEF TypeOK, PCs
<1>4. PagesAreFileBytes' /\ PagesWhole'
  BY <1>0, LocalInv
<1>5. ReaderInv(r)'
  <2>1. /\ pc'[r] = "assemble" /\ at'[r] = First(q) /\ req' = req /\ out' = out
        /\ degraded' = degraded /\ pages' = pages /\ todo' = todo /\ result' = result
    BY <1>0 DEF TypeOK
  <2>2. Reached(q, First(q)) = q.offset
    BY <1>1, <1>2 DEF Reached, MinOf, MaxOf
  <2>3. out[r] = <<>> /\ Len(out[r]) = 0 /\ Slice(q.offset, 0) = <<>>
    BY <1>0, <1>1, EmptySeq, SubSeqEmpty DEF ReaderInv, AssembleInv, Slice
  <2>4. AssembleInv(r)'
    BY <2>1, <2>2, <2>3, <1>1, <1>2 DEF AssembleInv
  <2>5. NothingForgotten(r)'
    BY <2>1, <1>0 DEF ReaderInv, NothingForgotten, Owed, Reading
  <2>6. (InBounds(r) /\ RunInv(r) /\ ResultInv(r))'
    BY <2>1, <1>0, <1>1 DEF ReaderInv, InBounds, RunInv, ResultInv
  <2> QED BY <2>4, <2>5, <2>6 DEF ReaderInv
<1>6. ASSUME NEW x \in Readers, x # r PROVE ReaderInv(x)'
  <2>1. pc'[x] = pc[x] /\ at'[x] = at[x]
    BY <1>6, <1>0 DEF TypeOK
  <2> QED BY <2>1, <1>0, Frame
<1> QED BY <1>3, <1>4, <1>5, <1>6

(* What a page a reader holds looks like, for the assembly.                *)
LEMMA HeldPage ==
  ASSUME IInv, NEW r \in Readers, NEW p \in Pages
  PROVE  LET page == pages[r][p]
         IN  /\ page \in Seq(Int) /\ Len(page) \in Nat
             /\ page = Slice(Start(p), Len(page))
             /\ Len(page) <= PageLen(p)
             /\ PageLen(p) \in Nat /\ PageLen(p) <= PageSize
             /\ Start(p) \in Nat /\ Start(p) + PageLen(p) <= Size
             /\ PageLen(p) # PageSize => Start(p) + PageLen(p) = Size
             /\ ~degraded /\ page # Absent => Len(page) = PageLen(p)
<1>1. pages[r][p] \in Seq(Int)
  BY DEF IInv, TypeOK
<1>2. Len(pages[r][p]) \in Nat
  BY <1>1, LenProperties
<1>3. IsPageOf(pages[r][p], p)
  BY DEF IInv, PagesAreFileBytes
<1>4. /\ PageLen(p) \in Nat /\ PageLen(p) <= PageSize
      /\ Start(p) \in Nat /\ Start(p) + PageLen(p) <= Size
      /\ PageLen(p) # PageSize => Start(p) + PageLen(p) = Size
  <2>1. p \in Nat /\ Start(p) < Size /\ Size \in Nat
    BY PagesFacts, SizeNat
  <2>2. Start(p) \in Nat
    BY <2>1, StartFacts
  <2> QED BY <2>1, <2>2, PageSizeAssumption DEF PageLen, MinOf
<1>5. ~degraded /\ pages[r][p] # Absent => Len(pages[r][p]) = PageLen(p)
  BY DEF IInv, PagesWhole
<1> QED BY <1>1, <1>2, <1>3, <1>4, <1>5 DEF IsPageOf

(* AssembleOne preserves the invariant.                                    *)
LEMMA AssembleOneInv ==
  ASSUME IInv, NEW r \in Readers, AssembleOne(r)
  PROVE  IInv'
<1> DEFINE q    == req[r]
           p    == First(q)
           page == pages[r][p]
           from == q.offset - Start(p)
<1>0. /\ pc[r] = "assemble" /\ First(q) = Last(q)
      /\ pc' = [pc EXCEPT ![r] = "done"]
      /\ \/ page = Absent
         \/ /\ page # Absent /\ from + q.len > Len(page)
            /\ result' = [result EXCEPT ![r] = "ShortPage"] /\ out' = out
         \/ /\ page # Absent /\ from + q.len <= Len(page)
            /\ result' = [result EXCEPT ![r] = "ok"]
            /\ out' = [out EXCEPT ![r] = SubSeq(page, from + 1, from + q.len)]
      /\ UNCHANGED <<cache, req, at, pages, todo, run, buf, degraded>>
  BY DEF AssembleOne
<1>1. q \in [offset : Nat, len : Nat] /\ q.len # 0 /\ q.offset + q.len <= Size
  BY <1>0 DEF IInv, TypeOK, ReaderInv, InBounds, Reading
<1>2. /\ p \in Pages /\ p \in Nat /\ Start(p) <= q.offset
      /\ q.offset + q.len <= Start(p) + PageSize
      /\ p \in First(q) .. Last(q)
  BY <1>0, <1>1, RangePages, PagesFacts
<1>3. /\ page \in Seq(Int) /\ Len(page) \in Nat
      /\ page = Slice(Start(p), Len(page))
      /\ Len(page) <= PageLen(p)
      /\ PageLen(p) \in Nat /\ PageLen(p) <= PageSize
      /\ Start(p) \in Nat /\ Start(p) + PageLen(p) <= Size
      /\ PageLen(p) # PageSize => Start(p) + PageLen(p) = Size
      /\ ~degraded /\ page # Absent => Len(page) = PageLen(p)
  BY <1>2, HeldPage
<1>4. page # Absent
  BY <1>0, <1>2 DEF IInv, ReaderInv, NothingForgotten, Owed, Reading
<1>5. /\ from \in Nat
      /\ ~degraded => from + q.len <= Len(page)
  BY <1>1, <1>2, <1>3, <1>4, SizeNat
<1>6. ASSUME from + q.len <= Len(page)
      PROVE  SubSeq(page, from + 1, from + q.len) = Slice(q.offset, q.len)
  <2>1. Start(p) + Len(page) <= Size
    BY <1>3, SizeNat
  <2>2. SubSeq(Slice(Start(p), Len(page)), from + 1, from + q.len)
          = Slice(Start(p) + from, q.len)
    <3>1. /\ Start(p) \in Nat /\ Len(page) \in Nat /\ from \in Nat /\ q.len \in Nat
          /\ from + q.len <= Len(page)
      BY <1>1, <1>3, <1>5, <1>6
    <3> HIDE DEF from, page, p, q
    <3> QED BY <2>1, <3>1, SliceOfSlice
  <2>3. Start(p) + from = q.offset
    BY <1>1, <1>3
  <2> QED BY <2>2, <2>3, <1>3
<1>7. Slice(q.offset, q.len) \in Seq(Int) /\ Len(Slice(q.offset, q.len)) = q.len
  BY <1>1, SliceFacts
<1>a. \/ /\ degraded
         /\ result' = [result EXCEPT ![r] = "ShortPage"] /\ out' = out
      \/ /\ result' = [result EXCEPT ![r] = "ok"]
         /\ out' = [out EXCEPT ![r] = Slice(q.offset, q.len)]
  <2>1. CASE from + q.len <= Len(page)
    <3>1. from \in Nat /\ q.len \in Nat /\ Len(page) \in Nat
      BY <1>1, <1>3, <1>5
    <3> HIDE DEF from, page, q
    <3>2. ~(from + q.len > Len(page))
      BY <2>1, <3>1
    <3> QED BY <2>1, <3>2, <1>0, <1>4, <1>6
  <2>2. CASE ~(from + q.len <= Len(page))
    <3> HIDE DEF from, page, q
    <3> QED BY <2>2, <1>0, <1>4, <1>5
  <2> QED BY <2>1, <2>2
<1> HIDE DEF from, page
<1>8. TypeOK'
  <2>1. out' \in [Readers -> Seq(Int)] /\ result' \in [Readers -> Errors \cup {"none", "ok"}]
    <3>1. out \in [Readers -> Seq(Int)] /\ result \in [Readers -> Errors \cup {"none", "ok"}]
      BY DEF IInv, TypeOK
    <3> QED BY <3>1, <1>a, <1>7 DEF Errors
  <2>2. pc' \in [Readers -> PCs]
    BY <1>0 DEF IInv, TypeOK, PCs
  <2> QED BY <1>0, <2>1, <2>2 DEF IInv, TypeOK
<1>9. PagesAreFileBytes' /\ PagesWhole'
  BY <1>0, LocalInv DEF IInv
<1>10. ReaderInv(r)'
  <2>1. /\ pc'[r] = "done" /\ req' = req /\ degraded' = degraded
        /\ \/ result'[r] = "ShortPage" /\ degraded
           \/ /\ result'[r] = "ok" /\ out'[r] = Slice(q.offset, q.len)
              /\ Len(out'[r]) = q.len
    BY <1>0, <1>a, <1>7 DEF IInv, TypeOK
  <2> QED
    BY <2>1, <1>1
    DEF ReaderInv, InBounds, RunInv, NothingForgotten, AssembleInv, ResultInv, Reading
<1>11. ASSUME NEW x \in Readers, x # r PROVE ReaderInv(x)'
  <2>1. pc'[x] = pc[x] /\ out'[x] = out[x] /\ result'[x] = result[x]
    BY <1>11, <1>0, <1>a DEF IInv, TypeOK
  <2> QED BY <2>1, <1>0, Frame DEF IInv
<1> QED BY <1>8, <1>9, <1>10, <1>11 DEF IInv

(* EndAssemble preserves the invariant.                                    *)
LEMMA EndAssembleInv ==
  ASSUME IInv, NEW r \in Readers, EndAssemble(r)
  PROVE  IInv'
<1> DEFINE q == req[r]
<1>0. /\ pc[r] = "assemble" /\ at[r] > Last(q)
      /\ pc' = [pc EXCEPT ![r] = "done"]
      /\ result' = [result EXCEPT ![r] = IF Len(out[r]) # q.len THEN "ShortPage" ELSE "ok"]
      /\ UNCHANGED <<cache, req, at, pages, todo, run, buf, out, degraded>>
  BY DEF EndAssemble
<1>1. q \in [offset : Nat, len : Nat] /\ q.len # 0 /\ q.offset + q.len <= Size
  BY <1>0 DEF IInv, TypeOK, ReaderInv, InBounds, Reading
<1>2. /\ Last(q) \in Nat /\ First(q) \in Nat /\ at[r] = Last(q) + 1
      /\ Start(Last(q) + 1) = Start(Last(q)) + PageSize /\ Start(Last(q)) \in Nat
      /\ q.offset + q.len <= Start(Last(q)) + PageSize
  <2>1. /\ First(q) \in Nat /\ Last(q) \in Nat
        /\ q.offset + q.len <= Start(Last(q)) + PageSize
    BY <1>1, RangePages, PagesFacts
  <2>2. Start(Last(q) + 1) = Start(Last(q)) + PageSize /\ Start(Last(q)) \in Nat
    BY <2>1, StartFacts
  <2>3. at[r] \in First(q) .. Last(q) + 1
    BY <1>0 DEF IInv, ReaderInv, AssembleInv
  <2> QED BY <1>0, <2>1, <2>2, <2>3
<1>3. Reached(q, at[r]) = q.offset + q.len
  BY <1>1, <1>2, PageSizeAssumption DEF Reached, MinOf, MaxOf
<1>4. /\ Len(out[r]) = q.len => out[r] = Slice(q.offset, q.len)
      /\ ~degraded => Len(out[r]) = q.len
  BY <1>0, <1>1, <1>3 DEF IInv, ReaderInv, AssembleInv
<1>5. TypeOK'
  BY <1>0 DEF IInv, TypeOK, PCs, Errors
<1>6. PagesAreFileBytes' /\ PagesWhole'
  BY <1>0, LocalInv DEF IInv
<1>7. ReaderInv(r)'
  <2>1. /\ pc'[r] = "done" /\ req' = req /\ degraded' = degraded /\ out' = out
        /\ result'[r] = IF Len(out[r]) # q.len THEN "ShortPage" ELSE "ok"
    BY <1>0 DEF IInv, TypeOK
  <2> QED
    BY <2>1, <1>1, <1>4
    DEF ReaderInv, InBounds, RunInv, NothingForgotten, AssembleInv, ResultInv, Reading
<1>8. ASSUME NEW x \in Readers, x # r PROVE ReaderInv(x)'
  <2>1. pc'[x] = pc[x] /\ result'[x] = result[x]
    BY <1>8, <1>0 DEF IInv, TypeOK
  <2> QED BY <2>1, <1>0, Frame DEF IInv
<1> QED BY <1>5, <1>6, <1>7, <1>8 DEF IInv

(* Rearranging sums.                                                       *)
LEMMA SumArithmetic ==
  \A s0, n0, l0, z \in Nat : n0 <= l0 /\ s0 + l0 <= z => s0 + n0 <= z
OBVIOUS


(* What one page adds to the assembly, in numbers: lo is where the         *)
(* assembly stands, hi is where the page's part ends.                      *)
LEMMA PartFacts ==
  ASSUME IInv, NEW r \in Readers, NEW q \in [offset : Nat, len : Nat],
         q.len # 0, q.offset + q.len <= Size,
         NEW p \in First(q) .. Last(q), pages[r][p] # Absent,
         NEW lo, lo = MaxOf(q.offset, Start(p)),
         NEW hi, hi = MinOf(q.offset + q.len, Start(p) + Len(pages[r][p]))
  PROVE  /\ p \in Pages /\ p \in Nat /\ lo \in Nat /\ hi \in Nat
         /\ Reached(q, p) = lo
         /\ Reached(q, p + 1) \in Nat
         /\ q.offset <= lo /\ lo < Reached(q, p + 1) /\ hi <= Reached(q, p + 1)
         /\ Reached(q, p + 1) <= q.offset + q.len
         /\ ~degraded => hi = Reached(q, p + 1)
         /\ PagePart(q, p, pages[r][p]) = IF lo < hi THEN Slice(lo, hi - lo) ELSE <<>>
<1>1. /\ p \in Pages /\ p \in Nat /\ First(q) \in Nat /\ Last(q) \in Nat
      /\ First(q) <= p /\ p <= Last(q)
      /\ q.offset < Start(First(q)) + PageSize
      /\ Start(Last(q)) < q.offset + q.len
  BY RangePages, PagesFacts
<1>2. /\ Start(First(q)) \in Nat /\ Start(p) \in Nat /\ Start(Last(q)) \in Nat
      /\ Start(First(q)) <= Start(p) /\ Start(p) <= Start(Last(q))
      /\ Start(p + 1) = Start(p) + PageSize
  BY <1>1, StartFacts
<1> DEFINE page == pages[r][p]
<1>3. /\ page \in Seq(Int) /\ Len(page) \in Nat
      /\ page = Slice(Start(p), Len(page))
      /\ Len(page) <= PageLen(p)
      /\ PageLen(p) \in Nat /\ PageLen(p) <= PageSize
      /\ Start(p) + PageLen(p) <= Size
      /\ PageLen(p) # PageSize => Start(p) + PageLen(p) = Size
      /\ ~degraded => Len(page) = PageLen(p)
  BY <1>1, HeldPage
<1> HIDE DEF page
<1>4. hi = MinOf(q.offset + q.len, Start(p) + Len(page))
  BY DEF page
<1>5. /\ q.offset \in Nat /\ q.len \in Nat /\ PageSize \in Nat \ {0} /\ Size \in Nat
      /\ Start(p) < q.offset + q.len /\ q.offset < Start(p) + PageSize
  BY <1>1, <1>2, PageSizeAssumption, SizeNat
<1>6. /\ Reached(q, p) = MinOf(q.offset + q.len, MaxOf(q.offset, Start(p)))
      /\ Reached(q, p + 1) = MinOf(q.offset + q.len, MaxOf(q.offset, Start(p) + PageSize))
  BY <1>2 DEF Reached
<1>7. /\ lo \in Nat /\ hi \in Nat /\ Reached(q, p + 1) \in Nat
      /\ Reached(q, p) = lo
      /\ q.offset <= lo /\ Start(p) <= lo /\ lo < Reached(q, p + 1) /\ hi <= Reached(q, p + 1)
      /\ Reached(q, p + 1) <= q.offset + q.len
      /\ hi <= Start(p) + Len(page)
      /\ ~degraded => hi = Reached(q, p + 1)
  <2>1. /\ Start(p) \in Nat /\ Len(page) \in Nat /\ PageLen(p) \in Nat
        /\ Len(page) <= PageLen(p) /\ PageLen(p) <= PageSize
        /\ Start(p) + PageLen(p) <= Size
        /\ PageLen(p) # PageSize => Start(p) + PageLen(p) = Size
        /\ ~degraded => Len(page) = PageLen(p)
    BY <1>2, <1>3
  <2> DEFINE o == q.offset
             n == q.len
             s == Start(p)
             k == Len(page)
             full == PageLen(p)
             up == Reached(q, p + 1)
  <2>2. /\ o \in Nat /\ n \in Nat /\ s \in Nat /\ k \in Nat /\ full \in Nat
        /\ Size \in Nat /\ PageSize \in Nat \ {0}
        /\ o + n <= Size /\ s < o + n /\ o < s + PageSize /\ n # 0
        /\ k <= full /\ full <= PageSize /\ s + full <= Size
        /\ full # PageSize => s + full = Size
        /\ ~degraded => k = full
    BY <2>1, <1>5
  <2>3. /\ lo = MaxOf(o, s) /\ hi = MinOf(o + n, s + k)
        /\ up = MinOf(o + n, MaxOf(o, s + PageSize))
        /\ Reached(q, p) = MinOf(o + n, MaxOf(o, s))
    BY <1>4, <1>6
  <2> HIDE DEF o, n, s, k, full, up
  <2>4. lo = (IF o < s THEN s ELSE o) /\ lo \in Nat /\ o <= lo /\ s <= lo /\ lo < o + n
    <3>1. CASE o < s
      BY <3>1, <2>2, <2>3 DEF MaxOf
    <3>2. CASE ~(o < s)
      <4>1. lo = o
        BY <3>2, <2>3 DEF MaxOf
      <4> QED BY <4>1, <3>2, <2>2
    <3> QED BY <3>1, <3>2
  <2>5. hi = (IF o + n < s + k THEN o + n ELSE s + k) /\ hi \in Nat /\ hi <= s + k
    <3>1. hi = MinOf(o + n, s + k)
      BY <2>3
    <3>2. CASE o + n < s + k
      <4>1. hi = o + n
        BY <3>1, <3>2 DEF MinOf
      <4> QED BY <4>1, <3>2, <2>2
    <3>3. CASE ~(o + n < s + k)
      <4>1. hi = s + k
        BY <3>1, <3>3 DEF MinOf
      <4> QED BY <4>1, <3>3, <2>2
    <3> QED BY <3>2, <3>3
  <2>6. up = (IF o + n < s + PageSize THEN o + n ELSE s + PageSize) /\ up \in Nat
    BY <2>2, <2>3 DEF MinOf, MaxOf
  <2>7. Reached(q, p) = lo
    BY <2>2, <2>3, <2>4 DEF MinOf
  <2>8. lo < up /\ hi <= up /\ up <= o + n
    <3>1. lo < s + PageSize
      BY <2>2, <2>4
    <3>2. s + k <= s + PageSize
      BY <2>2
    <3>3. CASE o + n < s + PageSize
      BY <3>3, <2>2, <2>4, <2>5, <2>6
    <3>4. CASE ~(o + n < s + PageSize)
      <4>1. up = s + PageSize
        BY <3>4, <2>6
      <4> QED BY <4>1, <3>1, <3>2, <3>4, <2>2, <2>5
    <3> QED BY <3>3, <3>4
  <2>9. ~degraded => hi = up
    BY <2>2, <2>5, <2>6
  <2> QED BY <2>4, <2>5, <2>6, <2>7, <2>8, <2>9 DEF o, n, s, k, up
<1>8. ASSUME lo < hi
      PROVE  SubSeq(page, lo - Start(p) + 1, hi - Start(p)) = Slice(lo, hi - lo)
  <2> DEFINE a == lo - Start(p)
             m == hi - lo
  <2>1. /\ a \in Nat /\ m \in Nat /\ a + m <= Len(page) /\ Start(p) + Len(page) <= Size
        /\ a + m = hi - Start(p) /\ Start(p) + a = lo
    <3>1. /\ Start(p) \in Nat /\ Len(page) \in Nat /\ PageLen(p) \in Nat
          /\ Len(page) <= PageLen(p) /\ Start(p) + PageLen(p) <= Size
      BY <1>2, <1>3
    <3>2. /\ lo \in Nat /\ hi \in Nat /\ Start(p) <= lo /\ hi <= Start(p) + Len(page)
          /\ Size \in Nat /\ lo < hi
      BY <1>5, <1>7, <1>8
    <3>3. /\ lo - Start(p) \in Nat /\ hi - lo \in Nat
          /\ (lo - Start(p)) + (hi - lo) <= Len(page)
          /\ (lo - Start(p)) + (hi - lo) = hi - Start(p)
          /\ Start(p) + (lo - Start(p)) = lo
      <4> DEFINE st == Start(p)
                 ln == Len(page)
      <4>1. st \in Nat /\ ln \in Nat /\ lo \in Nat /\ hi \in Nat
        BY <3>1, <3>2
      <4>2. st <= lo /\ hi <= st + ln /\ lo < hi
        BY <3>2
      <4> HIDE DEF st, ln
      <4>3. /\ lo - st \in Nat /\ hi - lo \in Nat /\ (lo - st) + (hi - lo) <= ln
            /\ (lo - st) + (hi - lo) = hi - st /\ st + (lo - st) = lo
        BY <4>1, <4>2, SMTT(60)
      <4>4. QED
        BY <4>3, Zenon DEF st, ln
    <3>4. Start(p) + Len(page) <= Size
      BY <3>1, <3>2, SumArithmetic, Zenon
    <3> QED BY <3>3, <3>4
  <2>2. SubSeq(Slice(Start(p), Len(page)), a + 1, a + m) = Slice(Start(p) + a, m)
    <3>1. Start(p) \in Nat /\ Len(page) \in Nat
      BY <1>2, <1>3
    <3> HIDE DEF a, m
    <3> QED BY <2>1, <3>1, SliceOfSlice
  <2> QED BY <2>1, <2>2, <1>3
<1>9. PagePart(q, p, page) = IF lo < hi THEN Slice(lo, hi - lo) ELSE <<>>
  BY <1>4, <1>8 DEF PagePart
<1> QED BY <1>1, <1>7, <1>9 DEF page

(* AssemblePage preserves the invariant.                                   *)
LEMMA AssemblePageInv ==
  ASSUME IInv, NEW r \in Readers, AssemblePage(r)
  PROVE  IInv'
<1> DEFINE q  == req[r]
           p  == at[r]
           lo == MaxOf(q.offset, Start(p))
           hi == MinOf(q.offset + q.len, Start(p) + Len(pages[r][p]))
           part == PagePart(q, p, pages[r][p])
<1>0. /\ pc[r] = "assemble" /\ p <= Last(q)
      /\ \/ pages[r][p] = Absent
         \/ /\ out' = [out EXCEPT ![r] = @ \o part]
            /\ at' = [at EXCEPT ![r] = p + 1]
            /\ UNCHANGED <<pc, result>>
      /\ UNCHANGED <<cache, req, pages, todo, run, buf, degraded>>
  BY DEF AssemblePage
<1>1. q \in [offset : Nat, len : Nat] /\ q.len # 0 /\ q.offset + q.len <= Size
  BY <1>0 DEF IInv, TypeOK, ReaderInv, InBounds, Reading
<1>2. First(q) \in Nat /\ Last(q) \in Nat
  BY <1>1, RangePages, PagesFacts
<1>3. p \in First(q) .. Last(q)
  BY <1>0, <1>2 DEF IInv, ReaderInv, AssembleInv
<1>4. pages[r][p] # Absent
  BY <1>0, <1>3 DEF IInv, ReaderInv, NothingForgotten, Owed, Reading
<1>5. /\ p \in Pages /\ p \in Nat /\ lo \in Nat /\ hi \in Nat
      /\ Reached(q, p) = lo
      /\ Reached(q, p + 1) \in Nat
      /\ q.offset <= lo /\ lo < Reached(q, p + 1) /\ hi <= Reached(q, p + 1)
      /\ Reached(q, p + 1) <= q.offset + q.len
      /\ ~degraded => hi = Reached(q, p + 1)
      /\ part = IF lo < hi THEN Slice(lo, hi - lo) ELSE <<>>
  <2> HIDE DEF p, q
  <2> QED BY <1>1, <1>3, <1>4, PartFacts
<1>6. /\ out' = [out EXCEPT ![r] = @ \o part]
      /\ at' = [at EXCEPT ![r] = p + 1]
      /\ UNCHANGED <<pc, result, cache, req, pages, todo, run, buf, degraded>>
  BY <1>0, <1>4
<1>7. /\ out[r] \in Seq(Int) /\ Len(out[r]) \in Nat
      /\ Len(out[r]) <= lo - q.offset
      /\ Len(out[r]) = lo - q.offset => out[r] = Slice(q.offset, lo - q.offset)
      /\ ~degraded => Len(out[r]) = lo - q.offset
  <2>1. out[r] \in Seq(Int)
    BY DEF IInv, TypeOK
  <2>2. Len(out[r]) \in Nat
    BY <2>1, LenProperties
  <2> HIDE DEF lo
  <2> QED BY <2>1, <2>2, <1>0, <1>5 DEF IInv, ReaderInv, AssembleInv
<1> HIDE DEF lo, hi, part
<1>8. /\ part \in Seq(Int)
      /\ Len(part) = IF lo < hi THEN hi - lo ELSE 0
  <2>1. CASE lo < hi
    <3>1. hi - lo \in Nat /\ lo + (hi - lo) <= Size
      BY <2>1, <1>1, <1>5, SizeNat
    <3> QED BY <2>1, <3>1, <1>5, SliceFacts
  <2>2. CASE ~(lo < hi)
    BY <2>2, <1>5, EmptySeq
  <2> QED BY <2>1, <2>2
<1>9. /\ out[r] \o part \in Seq(Int)
      /\ Len(out[r] \o part) = Len(out[r]) + Len(part)
  BY <1>7, <1>8, ConcatProperties
<1>10. /\ Len(out[r] \o part) <= Reached(q, p + 1) - q.offset
       /\ ~degraded => Len(out[r] \o part) = Reached(q, p + 1) - q.offset
  <2>1. q.offset \in Nat
    BY <1>1
  <2> HIDE DEF q, p
  <2> DEFINE up == Reached(q, p + 1)
             l  == Len(out[r])
  <2>2. /\ up \in Nat /\ lo \in Nat /\ hi \in Nat /\ l \in Nat /\ q.offset <= lo
        /\ lo < up /\ hi <= up /\ l <= lo - q.offset
        /\ ~degraded => hi = up /\ l = lo - q.offset
    BY <1>5, <1>7
  <2>3. /\ lo < hi => Len(out[r] \o part) = l + (hi - lo)
        /\ ~(lo < hi) => Len(out[r] \o part) = l
    <3>1. Len(out[r] \o part) = l + Len(part)
      BY <1>9
    <3>2. (lo < hi => Len(part) = hi - lo) /\ (~(lo < hi) => Len(part) = 0)
      BY <1>8
    <3> HIDE DEF up, l
    <3> QED BY <2>2, <3>1, <3>2
  <2> HIDE DEF up, l
  <2>4. /\ Len(out[r] \o part) <= up - q.offset
        /\ ~degraded => Len(out[r] \o part) = up - q.offset
    BY <2>1, <2>2, <2>3
  <2> QED BY <2>4 DEF up
<1>11. ASSUME Len(out[r] \o part) = Reached(q, p + 1) - q.offset
       PROVE  out[r] \o part = Slice(q.offset, Reached(q, p + 1) - q.offset)
  <2>1. q.offset \in Nat
    BY <1>1
  <2> HIDE DEF q, p
  <2>2. lo < hi /\ hi = Reached(q, p + 1) /\ Len(out[r]) = lo - q.offset
    <3> DEFINE up == Reached(q, p + 1)
               l  == Len(out[r])
    <3>1. /\ up \in Nat /\ lo \in Nat /\ hi \in Nat /\ l \in Nat /\ q.offset <= lo
          /\ lo < up /\ hi <= up /\ l <= lo - q.offset
      BY <1>5, <1>7
    <3>2. /\ lo < hi => l + (hi - lo) = up - q.offset
          /\ ~(lo < hi) => l = up - q.offset
      <4>1. l + Len(part) = up - q.offset
        BY <1>9, <1>11
      <4>2. (lo < hi => Len(part) = hi - lo) /\ (~(lo < hi) => Len(part) = 0)
        BY <1>8
      <4> HIDE DEF up, l
      <4> QED BY <3>1, <4>1, <4>2
    <3> HIDE DEF up, l
    <3>3. lo < hi /\ hi = up /\ l = lo - q.offset
      BY <2>1, <3>1, <3>2
    <3> QED BY <3>3 DEF up, l
  <2>3. out[r] = Slice(q.offset, lo - q.offset) /\ part = Slice(lo, hi - lo)
    BY <2>2, <1>5, <1>7
  <2>4. Slice(q.offset, lo - q.offset) \o Slice(q.offset + (lo - q.offset), hi - lo)
          = Slice(q.offset, (lo - q.offset) + (hi - lo))
    <3> DEFINE o == q.offset
               e == q.offset + q.len
    <3>1. /\ o \in Nat /\ e \in Nat /\ Size \in Nat /\ e <= Size
      BY <1>1, SizeNat
    <3>2. /\ lo \in Nat /\ hi \in Nat /\ o <= lo /\ lo < hi /\ hi <= e
      BY <1>5, <2>2
    <3> HIDE DEF o, e
    <3>3. /\ lo - o \in Nat /\ hi - lo \in Nat
          /\ o + (lo - o) + (hi - lo) <= Size
      BY <3>1, <3>2
    <3> QED BY <3>1, <3>3, SliceConcat DEF o
  <2>5. q.offset + (lo - q.offset) = lo /\ (lo - q.offset) + (hi - lo) = hi - q.offset
    BY <2>1, <1>5
  <2> QED BY <2>2, <2>3, <2>4, <2>5
<1>12. TypeOK'
  <2>1. out' \in [Readers -> Seq(Int)]
    BY <1>6, <1>9 DEF IInv, TypeOK
  <2>2. at' \in [Readers -> Nat]
    BY <1>5, <1>6 DEF IInv, TypeOK
  <2> QED BY <1>6, <2>1, <2>2 DEF IInv, TypeOK
<1>13. PagesAreFileBytes' /\ PagesWhole'
  BY <1>6, LocalInv DEF IInv
<1>14. ReaderInv(r)'
  <2>1. /\ UNCHANGED <<pc, result, req, pages, todo, run, buf, degraded>>
        /\ out'[r] = out[r] \o part /\ at'[r] = p + 1 /\ pc[r] = "assemble"
    BY <1>0, <1>6 DEF IInv, TypeOK
  <2>2. p + 1 \in First(q) .. Last(q) + 1
    BY <1>2, <1>3
  <2>3. AssembleInv(r)'
    BY <2>1, <2>2, <1>10, <1>11 DEF AssembleInv
  <2>4. (InBounds(r) /\ RunInv(r) /\ NothingForgotten(r) /\ ResultInv(r))'
    BY <2>1 DEF IInv, ReaderInv, InBounds, RunInv, NothingForgotten, ResultInv, Owed
  <2> QED BY <2>3, <2>4 DEF ReaderInv
<1>15. ASSUME NEW x \in Readers, x # r PROVE ReaderInv(x)'
  <2>1. out'[x] = out[x] /\ at'[x] = at[x]
    BY <1>15, <1>6 DEF IInv, TypeOK
  <2> QED BY <2>1, <1>6, Frame DEF IInv
<1> QED BY <1>12, <1>13, <1>14, <1>15 DEF IInv

(* Leave preserves the invariant.                                          *)
LEMMA LeaveInv ==
  ASSUME IInv, NEW r \in Readers, Leave(r)
  PROVE  IInv'
<1> USE DEF Leave, IInv
<1>0. \A x \in Readers : \A i \in Pages : pages'[x][i] = pages[x][i] \/ pages'[x][i] = Absent
  BY DEF TypeOK
<1>1. TypeOK'
  <2>1. pages' \in [Readers -> [Pages -> Seq(Int)]]
    BY EmptySeq DEF TypeOK, Absent
  <2> QED BY <2>1, EmptySeq DEF TypeOK, PCs, NoReq, NoRun
<1>2. ASSUME NEW p \in Pages PROVE IsPageOf(Absent, p)
  <2>1. p \in Nat /\ Start(p) \in Nat /\ Start(p) < Size /\ Size \in Nat
    BY PagesFacts, StartFacts, SizeNat
  <2>2. Len(Absent) = 0 /\ Len(Absent) <= PageLen(p)
    BY <2>1, EmptySeq, PageSizeAssumption DEF Absent, PageLen, MinOf
  <2> QED BY <2>1, <2>2, SubSeqEmpty DEF IsPageOf, Slice, Absent
<1>3. PagesAreFileBytes'
  BY <1>0, <1>2 DEF PagesAreFileBytes, IsPageOf
<1>4. PagesWhole'
  BY <1>0 DEF PagesWhole
<1>5. ReaderInv(r)'
  <2>1. /\ pc'[r] = "idle" /\ out'[r] = <<>> /\ result'[r] = "none" /\ req'[r] = NoReq
    BY DEF TypeOK
  <2> QED
    BY <2>1
    DEF ReaderInv, InBounds, RunInv, NothingForgotten, AssembleInv, ResultInv, Reading
<1>6. ASSUME NEW x \in Readers, x # r PROVE ReaderInv(x)'
  BY <1>6, Frame DEF TypeOK
<1> QED BY <1>1, <1>3, <1>4, <1>5, <1>6

(* A step of the environment touches no reader.                            *)
LEMMA Shared ==
  ASSUME IInv, UNCHANGED local, degraded => degraded'
  PROVE  \A x \in Readers : ReaderInv(x)'
BY Frame DEF IInv, local

(* Evict preserves the invariant.                                          *)
LEMMA EvictInv ==
  ASSUME IInv, NEW p \in Pages, Evict(p)
  PROVE  IInv'
<1> USE DEF Evict
<1>1. \A i \in Pages : cache'[i] = cache[i] \/ cache'[i] = Absent
  BY DEF IInv, TypeOK
<1>2. TypeOK'
  BY EmptySeq DEF IInv, TypeOK, local, Absent
<1>3. PagesAreFileBytes'
  <2>1. ASSUME NEW i \in Pages PROVE IsPageOf(Absent, i)
    <3>1. i \in Nat /\ Start(i) \in Nat /\ Start(i) < Size /\ Size \in Nat
      BY PagesFacts, StartFacts, SizeNat
    <3>2. Len(Absent) = 0 /\ Len(Absent) <= PageLen(i)
      BY <3>1, EmptySeq, PageSizeAssumption DEF Absent, PageLen, MinOf
    <3> QED BY <3>1, <3>2, SubSeqEmpty DEF IsPageOf, Slice, Absent
  <2> QED BY <1>1, <2>1 DEF IInv, PagesAreFileBytes, IsPageOf, local
<1>4. PagesWhole'
  BY <1>1 DEF IInv, PagesWhole, local
<1> QED BY <1>2, <1>3, <1>4, Shared DEF IInv

(* Clear preserves the invariant.                                          *)
LEMMA ClearInv ==
  ASSUME IInv, Clear
  PROVE  IInv'
<1> USE DEF Clear
<1>1. \A i \in Pages : cache'[i] = Absent
  OBVIOUS
<1>2. TypeOK'
  BY EmptySeq DEF IInv, TypeOK, local, Absent
<1>3. PagesAreFileBytes'
  <2>1. ASSUME NEW i \in Pages PROVE IsPageOf(Absent, i)
    <3>1. i \in Nat /\ Start(i) \in Nat /\ Start(i) < Size /\ Size \in Nat
      BY PagesFacts, StartFacts, SizeNat
    <3>2. Len(Absent) = 0 /\ Len(Absent) <= PageLen(i)
      BY <3>1, EmptySeq, PageSizeAssumption DEF Absent, PageLen, MinOf
    <3> QED BY <3>1, <3>2, SubSeqEmpty DEF IsPageOf, Slice, Absent
  <2> QED BY <1>1, <2>1 DEF IInv, PagesAreFileBytes, IsPageOf, local
<1>4. PagesWhole'
  BY <1>1 DEF IInv, PagesWhole, local
<1> QED BY <1>2, <1>3, <1>4, Shared DEF IInv

(* PutPage preserves the invariant.                                        *)
LEMMA PutPageInv ==
  ASSUME IInv, NEW p \in Pages, NEW page \in Prefixes(p), PutPage(p, page)
  PROVE  IInv'
<1> USE DEF PutPage
<1>1. /\ p \in Nat /\ Start(p) \in Nat /\ PageLen(p) \in Nat
      /\ Start(p) + PageLen(p) <= Size
  <2>1. p \in Nat /\ Start(p) < Size /\ Size \in Nat
    BY PagesFacts, SizeNat
  <2>2. Start(p) \in Nat
    BY <2>1, StartFacts
  <2> QED BY <2>1, <2>2, PageSizeAssumption DEF PageLen, MinOf
<1>2. PICK n \in 1 .. PageLen(p) : page = Slice(Start(p), n)
  BY DEF Prefixes
<1>3. n \in Nat /\ n <= PageLen(p) /\ Start(p) + n <= Size
  BY <1>1, <1>2, SizeNat
<1>4. page \in Seq(Int) /\ Len(page) = n
  BY <1>1, <1>2, <1>3, SliceFacts
<1>5. IsPageOf(page, p)
  BY <1>2, <1>3, <1>4 DEF IsPageOf
<1>6. TypeOK'
  BY <1>4 DEF IInv, TypeOK, local
<1>7. PagesAreFileBytes' /\ PagesWhole'
  <2>1. pages' = pages
    BY DEF local
  <2>2. ~degraded' => ~degraded /\ Len(page) = PageLen(p)
    <3>1. Len(page) # PageLen(p) => Len(page) < PageLen(p)
      BY <1>1, <1>3, <1>4
    <3>2. degraded' <=> (degraded \/ Len(page) < PageLen(p))
      BY Zenon
    <3> QED BY <3>1, <3>2, Zenon
  <2> QED BY <1>4, <1>5, <2>1, <2>2, StoredPage DEF IInv
<1> QED BY <1>6, <1>7, Shared DEF IInv

(* Every step preserves the invariant.                                     *)
LEMMA NextInv == IInv /\ [Next]_vars => IInv'
<1> SUFFICES ASSUME IInv, [Next]_vars PROVE IInv'
  OBVIOUS
<1>1. ASSUME NEW r \in Readers, NEW q \in Requests[r], Call(r, q) PROVE IInv'
  BY <1>1, CallInv
<1>2. ASSUME NEW r \in Readers, Step(r) PROVE IInv'
  BY <1>2, BoundsInv, LookupInv, FetchRunInv, SourceAnswersInv, SourceFailsInv, StorePageInv,
     EndStoreInv, StartAssembleInv, AssembleOneInv, AssemblePageInv, EndAssembleInv
  DEF Step
<1>3. ASSUME NEW r \in Readers, Cancel(r) \/ Return(r) PROVE IInv'
  BY <1>3, LeaveInv DEF Cancel, Return
<1>4. ASSUME NEW p \in Pages, Evict(p) PROVE IInv'
  BY <1>4, EvictInv
<1>5. ASSUME NEW p \in Pages, NEW page \in Prefixes(p), PutPage(p, page) PROVE IInv'
  BY <1>5, PutPageInv
<1>6. CASE Clear
  BY <1>6, ClearInv
<1>7. CASE UNCHANGED vars
  <2>1. UNCHANGED local /\ UNCHANGED <<cache, degraded>>
    BY <1>7 DEF vars
  <2>2. TypeOK'
    BY <2>1 DEF IInv, TypeOK, local
  <2>3. PagesAreFileBytes' /\ PagesWhole'
    BY <2>1, LocalInv DEF IInv, local
  <2> QED BY <2>1, <2>2, <2>3, Shared DEF IInv
<1> QED BY <1>1, <1>2, <1>3, <1>4, <1>5, <1>6, <1>7 DEF Next

(* Every reachable state satisfies the inductive invariant, for any file,  *)
(* page size, readers and requests.                                        *)
THEOREM Invariance == Spec => []IInv
BY InitInv, NextInv, PTL DEF Spec

(* The variables keep their types (cache.rs:251-517).                      *)
THEOREM TypeCorrect == Spec => []TypeOK
<1>1. IInv => TypeOK
  BY DEF IInv
<1> QED BY <1>1, Invariance, PTL

(* No page is ever held under the wrong index or with the wrong bytes      *)
(* (cache.rs:447-465, 323-329).                                            *)
THEOREM PagesCorrect == Spec => []PagesAreFileBytes
<1>1. IInv => PagesAreFileBytes
  BY DEF IInv
<1> QED BY <1>1, Invariance, PTL

(* A successful read returns exactly the range asked for, under any        *)
(* interleaving of readers, evictions, clears and short pages              *)
(* (cache.rs:344-517).                                                     *)
THEOREM ReadsCorrect == Spec => []ReadsExact
<1>1. IInv => ReadsExact
  BY DEF IInv, ReadsExact, ReaderInv, ResultInv
<1> QED BY <1>1, Invariance, PTL

(* The "lost a page" error is dead code (cache.rs:480, 498).               *)
THEOREM NoPageLost == Spec => []NeverLosesPage
<1>1. IInv => NeverLosesPage
  BY DEF IInv, NeverLosesPage, ReaderInv, ResultInv
<1> QED BY <1>1, Invariance, PTL

(* A read inside the file fails only through the source or a short page    *)
(* stored before (cache.rs:484, 509).                                      *)
THEOREM FailuresExplained == Spec => []FailureHasCause
<1>1. IInv => FailureHasCause
  BY DEF IInv, FailureHasCause, ReaderInv, ResultInv
<1> QED BY <1>1, Invariance, PTL
--------------------------------------------------------------------------------
(* The refinement: the page cache implements the abstract reader.          *)

(* What a caller sees of a reader: whether its call is under way and, once *)
(* it is over, what it got.                                                *)
Phase(x) == IF pc[x] = "idle" THEN "idle" ELSE IF pc[x] = "done" THEN "done" ELSE "pending"
Given(x) == IF result[x] = "ok" THEN [ok |-> TRUE, bytes |-> out[x]]
            ELSE [ok |-> FALSE, bytes |-> <<>>]

(* A step after which every caller sees what it saw before is a stutter    *)
(* of the abstract reader.                                                 *)
LEMMA Stutters ==
  ASSUME req' = req, \A x \in Readers : Phase(x)' = Phase(x) /\ Given(x)' = Given(x)
  PROVE  UNCHANGED Reads!vars
<1>1. [x \in Readers |-> Phase(x)]' = [x \in Readers |-> Phase(x)]
  OBVIOUS
<1>2. [x \in Readers |-> Given(x)]' = [x \in Readers |-> Given(x)]
  OBVIOUS
<1> QED BY <1>1, <1>2 DEF Reads!vars, Phase, Given

(* A step that ends the call of one reader, with a result that the         *)
(* invariant explains, is that reader's abstract answer.                   *)
LEMMA Answers ==
  ASSUME IInv, IInv', NEW r \in Readers,
         pc[r] \notin {"idle", "done"}, pc' = [pc EXCEPT ![r] = "done"], req' = req,
         \A x \in Readers : x # r => result'[x] = result[x] /\ out'[x] = out[x]
  PROVE  Reads!Answer(r)
<1>1. Phase(r) = "pending" /\ Phase(r)' = "done"
  BY DEF Phase, IInv, TypeOK
<1>2. \A x \in Readers : x # r => Phase(x)' = Phase(x) /\ Given(x)' = Given(x)
  BY DEF Phase, Given, IInv, TypeOK
<1>3. \/ Given(r)' = Reads!Failure
      \/ Reads!InFile(req[r]) /\ Given(r)' = Reads!Exactly(req[r])
  <2>1. CASE result'[r] = "ok"
    <3>1. /\ out'[r] = Slice(req[r].offset, req[r].len)
          /\ req[r].len = 0 \/ req[r].offset + req[r].len <= Size
      BY <2>1 DEF IInv, ReaderInv, ResultInv
    <3> QED BY <2>1, <3>1 DEF Given, Reads!InFile, Reads!Exactly, Reads!Slice, Reads!Size, Slice, Size
  <2>2. CASE result'[r] # "ok"
    BY <2>2 DEF Given, Reads!Failure
  <2> QED BY <2>1, <2>2
<1>4. [x \in Readers |-> Phase(x)]' = [[x \in Readers |-> Phase(x)] EXCEPT ![r] = "done"]
  BY <1>1, <1>2
<1>5. [x \in Readers |-> Given(x)]' = [[x \in Readers |-> Given(x)] EXCEPT ![r] = Given(r)']
  BY <1>2
<1> QED BY <1>1, <1>3, <1>4, <1>5 DEF Reads!Answer, Phase, Given

(* Call is the abstract Ask.                                               *)
LEMMA CallAsks ==
  ASSUME IInv, NEW r \in Readers, NEW q \in Requests[r], Call(r, q)
  PROVE  Reads!Ask(r, q)
<1> USE DEF Call
<1>1. Phase(r) = "idle" /\ Phase(r)' = "pending"
  BY DEF Phase, IInv, TypeOK
<1>2. \A x \in Readers : x # r => Phase(x)' = Phase(x)
  BY DEF Phase, IInv, TypeOK
<1>3. \A x \in Readers : Given(x)' = Given(x)
  BY DEF Given
<1>4. [x \in Readers |-> Phase(x)]' = [[x \in Readers |-> Phase(x)] EXCEPT ![r] = "pending"]
  BY <1>1, <1>2
<1>5. [x \in Readers |-> Given(x)]' = [x \in Readers |-> Given(x)]
  BY <1>3
<1> QED BY <1>1, <1>4, <1>5 DEF Reads!Ask, Phase, Given

(* Return and Cancel are the abstract Leave.                               *)
LEMMA LeaveLeaves ==
  ASSUME IInv, NEW r \in Readers, Cancel(r) \/ Return(r)
  PROVE  Reads!Leave(r)
<1> USE DEF Cancel, Return, Leave
<1>1. Phase(r) \in {"pending", "done"} /\ Phase(r)' = "idle" /\ Given(r)' = Reads!Failure
  BY DEF Phase, Given, IInv, TypeOK, Reads!Failure
<1>2. \A x \in Readers : x # r => Phase(x)' = Phase(x) /\ Given(x)' = Given(x)
  BY DEF Phase, Given, IInv, TypeOK
<1>3. req' = [req EXCEPT ![r] = Reads!NoRequest]
  BY DEF NoReq, Reads!NoRequest
<1>4. [x \in Readers |-> Phase(x)]' = [[x \in Readers |-> Phase(x)] EXCEPT ![r] = "idle"]
  BY <1>1, <1>2
<1>5. [x \in Readers |-> Given(x)]' = [[x \in Readers |-> Given(x)] EXCEPT ![r] = Reads!Failure]
  BY <1>1, <1>2
<1> QED BY <1>1, <1>3, <1>4, <1>5 DEF Reads!Leave, Phase, Given

(* A step inside a call either ends it, which is the abstract Answer, or   *)
(* shows its caller nothing.                                               *)
LEMMA StepRefines ==
  ASSUME IInv, IInv', NEW r \in Readers, Step(r)
  PROVE  Reads!Answer(r) \/ UNCHANGED Reads!vars
<1> USE DEF IInv
<1>1. pc[r] \notin {"idle", "done"} /\ result[r] = "none" /\ req' = req
  BY DEF Step, Bounds, Lookup, FetchRun, SourceAnswers, SourceFails, StorePage, EndStore,
         StartAssemble, AssembleOne, AssemblePage, EndAssemble, ReaderInv, ResultInv
<1>2. \A x \in Readers : x # r => pc'[x] = pc[x] /\ result'[x] = result[x] /\ out'[x] = out[x]
  <2> USE DEF TypeOK
  <2>1. CASE Bounds(r) \/ Lookup(r) \/ FetchRun(r)
    BY <2>1 DEF Bounds, Lookup, FetchRun
  <2>2. CASE SourceAnswers(r) \/ SourceFails(r) \/ StorePage(r) \/ EndStore(r)
    BY <2>2 DEF SourceAnswers, SourceFails, StorePage, EndStore
  <2>3. CASE StartAssemble(r) \/ AssembleOne(r)
    BY <2>3 DEF StartAssemble, AssembleOne
  <2>4. CASE AssemblePage(r) \/ EndAssemble(r)
    BY <2>4 DEF AssemblePage, EndAssemble
  <2> QED BY <2>1, <2>2, <2>3, <2>4 DEF Step
<1>3. CASE pc'[r] = "done"
  <2>1. pc' = [pc EXCEPT ![r] = "done"]
    BY <1>2, <1>3 DEF TypeOK
  <2> QED BY <1>1, <1>2, <2>1, Answers
<1>4. CASE pc'[r] # "done"
  <2>1. pc'[r] # "idle"
    BY <1>1 DEF Step, Bounds, Lookup, FetchRun, SourceAnswers, SourceFails, StorePage, EndStore,
         StartAssemble, AssembleOne, AssemblePage, EndAssemble, TypeOK
  <2>2. result'[r] = "none"
    BY <1>4 DEF ReaderInv, ResultInv
  <2>3. \A x \in Readers : Phase(x)' = Phase(x) /\ Given(x)' = Given(x)
    BY <1>1, <1>2, <1>4, <2>1, <2>2 DEF Phase, Given
  <2> QED BY <1>1, <2>3, Stutters
<1> QED BY <1>3, <1>4

(* Every step of the page cache is a step of the abstract reader or a      *)
(* stutter: evictions, clears and stored pages show no caller anything.    *)
LEMMA NextRefines ==
  ASSUME IInv, IInv', [Next]_vars
  PROVE  [Reads!Next]_(Reads!vars)
<1>1. ASSUME NEW r \in Readers, NEW q \in Requests[r], Call(r, q) PROVE Reads!Next
  BY <1>1, CallAsks DEF Reads!Next
<1>2. ASSUME NEW r \in Readers, Step(r) PROVE Reads!Next \/ UNCHANGED Reads!vars
  BY <1>2, StepRefines DEF Reads!Next
<1>3. ASSUME NEW r \in Readers, Cancel(r) \/ Return(r) PROVE Reads!Next
  BY <1>3, LeaveLeaves DEF Reads!Next
<1>4. ASSUME UNCHANGED local PROVE UNCHANGED Reads!vars
  BY <1>4, Stutters DEF local, Phase, Given
<1>5. CASE \E p \in Pages : Evict(p) \/ \E page \in Prefixes(p) : PutPage(p, page)
  BY <1>4, <1>5 DEF Evict, PutPage
<1>6. CASE Clear
  BY <1>4, <1>6 DEF Clear
<1>7. CASE UNCHANGED vars
  BY <1>4, <1>7 DEF vars
<1> QED BY <1>1, <1>2, <1>3, <1>5, <1>6, <1>7 DEF Next

(* IoCache::read implements the abstract positional reader: whatever       *)
(* pages, evictions, clears, racing fills and short answers do, a caller   *)
(* sees the exact bytes of a range inside the file or an error             *)
(* (cache.rs:344-517).                                                     *)
THEOREM Refinement == Spec => ImplementsByteReads
<1>1. Init => Reads!Init
  BY DEF Init, Reads!Init, NoReq, Reads!NoRequest, Reads!Failure
<1>2. IInv /\ IInv' /\ [Next]_vars => [Reads!Next]_(Reads!vars)
  BY NextRefines
<1> QED BY <1>1, <1>2, Invariance, PTL DEF Spec, ImplementsByteReads, Reads!Spec
================================================================================
