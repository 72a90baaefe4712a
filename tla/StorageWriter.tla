---------------------------- MODULE StorageWriter -----------------------------
(***************************************************************************)
(* What an HDF5 library stores for the records of a dense group and the    *)
(* chunks of a dataset, and the damaged and partly fetched forms of it.    *)
(***************************************************************************)
EXTENDS Formats

Set(s) == {s[i] : i \in DOMAIN s}
Opt(cond, s) == IF cond THEN s ELSE <<>>
Rep(n, x) == [i \in 1..n |-> x]
Sorted(S, Lt(_, _)) ==
  [k \in 1..Cardinality(S) |-> CHOOSE x \in S : Cardinality({y \in S : Lt(y, x)}) = k - 1]
File(at) == [at |-> at, absent |-> {}]
NoFile == File(<<>>)

\* Least number of bytes that hold v.
BytesFor(v) == IF v < 256 THEN 1 ELSE IF v < 65536 THEN 2 ELSE 3

\* Every way to damage one structure of a file, or to miss one.
Harm(at) == {[at EXCEPT ![a].sound = FALSE] : a \in DOMAIN at}
            \cup {[at EXCEPT ![a].sig = "none"] : a \in DOMAIN at}
            \cup {[at EXCEPT ![a].version = 9] : a \in DOMAIN at}

-----------------------------------------------------------------------------
\* Version 2 B-trees over given records, in their order.
TreeCap(size, rec, d) ==
  IF d = 0 THEN LeafMax(size, rec)
  ELSE LET ptr == OffsetSize + BytesFor(LeafMax(size, rec))
           most == CHOOSE m \in 0..size :
                     /\ m * rec + (m + 1) * ptr <= size - NodeOverhead
                     /\ (m + 1) * rec + (m + 2) * ptr > size - NodeOverhead
       IN (most + 1) * LeafMax(size, rec) + most

RECURSIVE TreeNodes(_, _, _, _)
TreeNodes(a, d, size, recs) ==
  LET mid == (Len(recs) + 1) \div 2 IN
  IF d = 0 THEN a :> [sig |-> "BTLF", version |-> 0, sound |-> TRUE, recs |-> recs]
  ELSE (a :> [sig |-> "BTIN", version |-> 0, sound |-> TRUE, recs |-> <<recs[mid]>>,
              widths |-> <<BytesFor(LeafMax(size, 11)),
                           IF d > 1 THEN BytesFor(TreeCap(size, 11, d - 1)) ELSE 0>>,
              kids |-> <<[a |-> 2 * a, n |-> IF d = 1 THEN mid - 1 ELSE 1],
                         [a |-> 2 * a + 1, n |-> IF d = 1 THEN Len(recs) - mid ELSE 1]>>])
       @@ TreeNodes(2 * a, d - 1, size, SubSeq(recs, 1, mid - 1))
       @@ TreeNodes(2 * a + 1, d - 1, size, SubSeq(recs, mid + 1, Len(recs)))

Tree(a, d, size, recs) ==
  (a :> [sig |-> "BTHD", version |-> 0, sound |-> TRUE, recSize |-> 11, nodeSize |-> size,
         depth |-> d, root |-> a + 1, rootRecs |-> IF d = 0 THEN Len(recs) ELSE 1])
  @@ TreeNodes(a + 1, d, size, recs)

-----------------------------------------------------------------------------
\* A block's pieces are the lengths of its records and, negative, of its gaps; a
\* record is named by its place in the heap.
BlockCells(offset, head, size, pieces) ==
  LET put(cells, n) ==
        cells \o IF n < 0 THEN Rep(-n, [kind |-> "zero"])
                 ELSE <<[kind |-> "rec", name |-> offset + head + Len(cells), len |-> n]>>
                      \o Rep(n - 1, [kind |-> "body"])
      cells == FoldLeft(put, <<>>, pieces)
  IN cells \o Rep(size - head - Len(cells), [kind |-> "zero"])

\* Where a heap g of a table width, a starting size and a largest direct size
\* puts its blocks: row r starts behind all rows before it, and has blocks of
\* one size.
RowSize(g, r) == IF r = 0 THEN g.start ELSE g.start * 2^(r - 1)
RowStart(g, r) == IF r = 0 THEN 0 ELSE g.width * g.start * 2^(r - 1)
\* The rows of an indirect block that spans `size` bytes of the heap.
RowsOf(g, size) == CHOOSE r \in 1..MaxRows : RowStart(g, r) = size

RECURSIVE HeapBlocks(_, _, _, _, _)

\* The blocks of a table of some rows at place o, from place in the heap to
\* pieces: direct blocks at 1000 + place, indirect ones at 2000 + place.
HeapBlocks(g, sums, blocks, o, rows) ==
  LET place(i) == o + RowStart(g, (i - 1) \div g.width)
                    + ((i - 1) % g.width) * RowSize(g, (i - 1) \div g.width)
      size(i) == RowSize(g, (i - 1) \div g.width)
      direct(i) == size(i) <= g.maxDirect
      used(i) == \E b \in DOMAIN blocks : b >= place(i) /\ b < place(i) + size(i)
      head == BlockHeaderLen + IF sums THEN BlockSumLen ELSE 0
      inUse == {i \in 1..(rows * g.width) : used(i)}
  IN ((2000 + o) :> [sig |-> "FHIB", version |-> 0, heap |-> 1, sound |-> TRUE,
                     entries |-> [i \in 1..(rows * g.width) |->
                       IF ~used(i) THEN NoAddr ELSE place(i) + IF direct(i) THEN 1000 ELSE 2000]])
     @@ [a \in {1000 + place(i) : i \in {i \in inUse : direct(i)}} |->
           LET i == CHOOSE i \in inUse : 1000 + place(i) = a IN
           [sig |-> "FHDB", version |-> 0, heap |-> 1, sound |-> TRUE, size |-> size(i), offset |-> place(i),
            cells |-> BlockCells(place(i), head, size(i), blocks[place(i)])]]
     @@ FoldSet(LAMBDA i, at : at @@ HeapBlocks(g, sums, blocks, place(i), RowsOf(g, size(i))),
                <<>>, {i \in inUse : ~direct(i)})

\* A heap from which records were deleted: their bytes stay, their number goes
\* from the count.  A heap of no rows has one direct block.
HeapAt(g, blocks, sums, rows, deleted) ==
  LET at == HeapBlocks(g, sums, blocks, 0, IF rows = 0 THEN 1 ELSE rows)
      count == FoldFunctionOnSet(LAMBDA p, n : n + Len(SelectSeq(p, LAMBDA x : x > 0)), 0,
                                 blocks, DOMAIN blocks)
      kept == IF rows = 0 THEN {1000} ELSE DOMAIN at
  IN (1 :> [sig |-> "FRHP", version |-> 0, sound |-> TRUE, width |-> g.width, start |-> g.start,
            maxDirect |-> g.maxDirect, at |-> 0, blockSums |-> sums, filtered |-> FALSE,
            root |-> IF rows = 0 THEN 1000 ELSE 2000, rows |-> rows,
            count |-> count - Cardinality(deleted), idLen |-> 7])
     @@ [a \in kept |-> at[a]]

HeapRecords(at) ==
  UNION {{x \in Set(at[a].cells) : x.kind = "rec"} : a \in {a \in DOMAIN at : at[a].sig = "FHDB"}}

\* Without sums a damaged direct block is not noticed; it is damaged with them only.
DenseCase(at, index, indexAt, written) ==
  LET whole == at @@ indexAt
      gaps == \E a \in DOMAIN at : at[a].sig = "FHDB" /\
                \E i, j \in DOMAIN at[a].cells :
                  i < j /\ at[a].cells[i].kind = "zero" /\ at[a].cells[j].kind = "rec"
      case(all, absent, good) ==
        [file |-> [at |-> all, absent |-> absent], heap |-> 1, index |-> index,
         written |-> written, sound |-> good /\ (gaps => index # NoAddr)]
  IN {case(whole, {}, TRUE)}
     \cup {case(whole, {a}, FALSE) : a \in DOMAIN whole}
     \cup (IF ~at[1].blockSums THEN {} ELSE {case(all, {}, FALSE) : all \in Harm(whole)})
     \cup {case([whole EXCEPT ![a].cells = <<[kind |-> "bad"]>> \o Tail(@)], {}, FALSE) :
             a \in {a \in DOMAIN at : at[a].sig = "FHDB" /\ at[a].cells[1].kind = "rec"}}

\* The name index of the records.
NameIndex(records) ==
  LET byName == Sorted(records, LAMBDA p, q : p.name > q.name)
  IN [k \in DOMAIN byName |->
        [len |-> 7, class |-> 0, offset |-> byName[k].name, length |-> byName[k].len]]

PieceLists == {<<2, 1>>, <<-1, 2>>, <<6>>, <<1, 1, 1>>}

Geometry(w, s, m) == [width |-> w, start |-> s, maxDirect |-> m]
Square == Geometry(2, 8, 8)

\* Geometry, blocks and the rows of the root: a direct root, two rows, a child
\* below, and a child of a child.
HeapShapes ==
  {<<Square, 0 :> p, 0>> : p \in PieceLists}
  \cup {<<Square, (0 :> p) @@ (16 :> q), 2>> : p \in PieceLists, q \in {<<-1, 2>>, <<2, 1>>}}
  \cup {<<Square, (0 :> <<1, 1, 1>>) @@ (16 :> <<1, 1>>) @@ (40 :> p), 3>> : p \in PieceLists}
  \cup {<<Square, (0 :> <<1, 1>>) @@ (168 :> <<2, 1>>), 5>>}

\* Other geometries, with rows of larger direct blocks and with a child: width 4
\* with blocks of up to twice the starting size, and width 2 with the same, whose
\* children have two rows.
OtherShapes ==
  {<<Geometry(4, 8, 16), (0 :> <<1, 2>>) @@ (64 :> p), 3>> : p \in {<<2, 9>>, <<-1, 2>>}}
  \cup {<<Geometry(4, 8, 16), (0 :> <<1, 2>>) @@ (136 :> p), 4>> : p \in PieceLists}
  \cup {<<Geometry(2, 8, 16), (0 :> <<1, 2>>) @@ (32 :> p), 3>> : p \in {<<2, 9>>, <<-1, 2>>}}
  \cup {<<Geometry(2, 8, 16), (0 :> <<1, 2>>) @@ (80 :> p), 4>> : p \in PieceLists}

\* One record of the heap was deleted; nothing is damaged.
DeletedShapes ==
  {<<Square, 0 :> p, 0>> : p \in {<<1, 1, 1>>, <<2, 1>>, <<1, -1, 2>>}}
  \cup {<<Square, (0 :> p) @@ (16 :> <<-1, 2>>), 2>> : p \in PieceLists}

MCDenseCases ==
  UNION {
    LET at == HeapAt(s[1], s[2], sums, s[3], {})
        written == HeapRecords(at)
        ids == NameIndex(written)
        deepest == IF Len(ids) >= 7 THEN 2 ELSE IF Len(ids) >= 3 THEN 1 ELSE 0
    IN DenseCase(at, NoAddr, <<>>, written)
       \cup DenseCase(at, 30, Tree(30, deepest, 512, ids), written)
       \cup DenseCase(at, 30, Tree(30, 0, 512, ids), written)
       \cup (IF deepest < 2 THEN {}
             ELSE UNION {DenseCase(at, 30, Tree(30, deepest, size, ids), written)
                         : size \in {2815, 2826}})
    : s \in HeapShapes, sums \in BOOLEAN}
  \cup UNION {
    LET at == HeapAt(s[1], s[2], TRUE, s[3], {})
        written == HeapRecords(at)
    IN DenseCase(at, NoAddr, <<>>, written) \cup DenseCase(at, 30, Tree(30, 0, 512, NameIndex(written)), written)
    : s \in OtherShapes}
  \cup UNION {
    LET records == HeapRecords(HeapAt(s[1], s[2], FALSE, s[3], {}))
        at(d) == HeapAt(s[1], s[2], FALSE, s[3], {d})
    IN UNION {DenseCase(at(d), NoAddr, <<>>, records \ {d})
              \cup DenseCase(at(d), 30, Tree(30, 0, 512, NameIndex(records \ {d})), records \ {d}) : d \in records}
    : s \in DeletedShapes}

-----------------------------------------------------------------------------
\* Chunked datasets: a shape, a chunk shape and the chunks that were written.
GridOf(shape, dims) == [k \in DOMAIN shape |-> Cardinality({i \div dims[k] : i \in 0..(shape[k] - 1)})]
InGrid(grid) == Sorted({c \in [DOMAIN grid -> 0..3] : \A k \in DOMAIN grid : c[k] < grid[k]}, Before)

\* Chunk i as a writer stores it, and as a reader is to see it.
Stored(i, filtered) == Element(300 + 10 * i, IF filtered THEN 3 + i ELSE 0, IF filtered THEN i % 2 ELSE 0)
Seen(coord, i, dims, filtered) ==
  [size |-> IF filtered THEN 3 + i ELSE element_count(dims) * 4,
   mask |-> IF filtered THEN i % 2 ELSE 0,
   offset |-> [k \in DOMAIN dims |-> coord[k] * dims[k]], a |-> 300 + 10 * i]

Elems(n, lo, written, f) == [i \in 1..n |-> IF lo + i \in written THEN Stored(lo + i, f) ELSE Unwritten]
Struct(sig, rest) == rest @@ [sig |-> sig, version |-> 0, sound |-> TRUE]
Most(S) == IF S = {} THEN 0 ELSE CHOOSE x \in S : \A y \in S : y <= x

\* The structures of an index of n chunks at address 5.
FixedAt(n, written, f, pageBits) ==
  (5 :> Struct("FAHD", [block |-> 6, pageBits |-> pageBits, max |-> n, client |-> IF f THEN 1 ELSE 0]))
  @@ (6 :> Struct("FADB", [elems |-> Elems(n, 0, written, f)]))

\* Inline room for one element, then data blocks of 1, 2 and 2 and 2 elements,
\* the first two of which this reader follows.
ExtensibleAt(written, f) ==
  LET block(lo, n) == \E i \in written : i > lo /\ i <= lo + n IN
  (5 :> Struct("EAHD", [indexBlock |-> 6, elemSize |-> 8, min |-> 1, bits |-> 4, inline |-> 1,
                        maxSet |-> Most(written), client |-> IF f THEN 1 ELSE 0]))
  @@ (6 :> Struct("EAIB", [elems |-> Elems(1, 0, written, f),
                           addrs |-> <<IF block(1, 1) THEN 7 ELSE NoAddr,
                                       IF block(2, 2) THEN 8 ELSE NoAddr>> \o Rep(5, NoAddr)]))
  @@ (IF block(1, 1) THEN 7 :> Struct("EADB", [elems |-> Elems(1, 1, written, f)]) ELSE <<>>)
  @@ (IF block(2, 2) THEN 8 :> Struct("EADB", [elems |-> Elems(2, 2, written, f)]) ELSE <<>>)

\* Shapes, chunk shapes and maximum shapes of datasets that may grow along no
\* axis, along the first, along the second and along both.
ChunkShapes ==
  {<<<<5>>, <<2>>, <<5>>>>, <<<<3, 4>>, <<2, 2>>, <<3, 4>>>>, <<<<2, 5>>, <<1, 2>>, <<2, 5>>>>,
   <<<<3, 4>>, <<2, 2>>, <<6, 4>>>>, <<<<3, 4>>, <<2, 2>>, <<3, 6>>>>, <<<<3, 4>>, <<2, 2>>, <<6, 6>>>>}

\* An index of the chunks of the coordinates in `written`, of a given kind.  An
\* array is indexed by the number of the chunk in the grid of the maximum shape;
\* an extensible one has an unlimited axis, and counts along it last.
ChunkCase(s, written, f, index, unlimited) ==
  LET coords == InGrid(GridOf(s[1], s[2]))
      number(c) == 1 + NumberOver(GridOf(s[3], s[2]), unlimited, c)
      numbers == {number(c) : c \in written}
      order == SelectSeq(coords, LAMBDA c : c \in written)
      want == [k \in DOMAIN order |-> Seen(order[k], number(order[k]), s[2], f)]
      recs == [k \in DOMAIN order |-> Stored(number(order[k]), f) @@ [scaled |-> Append(order[k], 0)]]
      at == CASE index = "fixed" -> FixedAt(element_count(GridOf(s[3], s[2])), numbers, f, 10)
              [] index = "extensible" -> ExtensibleAt(numbers, f)
              [] index = "btree2" -> Tree(5, IF Len(recs) >= 3 THEN 1 ELSE 0, 512, recs)
      dataset == [shape |-> s[1], dims |-> s[2], maximum |-> s[3], unlimited |-> unlimited,
                  elemSize |-> 4, address |-> 5, filtered |-> f, index |-> index,
                  one |-> [size |-> 0, mask |-> 0]]
      case(all, absent, good) ==
        [file |-> [at |-> all, absent |-> absent], dataset |-> dataset, written |-> want,
         sound |-> good]
  IN {case(at, {}, index # "extensible" \/ Most(numbers) <= 4)}
     \cup {case(at, {a}, FALSE) : a \in DOMAIN at}
     \cup {case(all, {}, FALSE) : all \in Harm(at)}

\* One chunk, or chunks laid one behind the other, need no index.
PlainChunkCases ==
  {[file |-> NoFile, sound |-> TRUE,
    dataset |-> [shape |-> <<3, 4>>, dims |-> <<3, 4>>, maximum |-> <<3, 4>>, unlimited |-> 0,
                 elemSize |-> 4, address |-> 310, filtered |-> f, index |-> "single",
                 one |-> [size |-> 4, mask |-> IF f THEN 1 ELSE 0]],
    written |-> <<Seen(<<0, 0>>, 1, <<3, 4>>, f)>>] : f \in BOOLEAN}
  \cup
  {[file |-> NoFile, sound |-> TRUE,
    dataset |-> [shape |-> s[1], dims |-> s[2], maximum |-> s[3], unlimited |-> 0, elemSize |-> 4,
                 address |-> 310, filtered |-> FALSE, index |-> "implicit", one |-> [size |-> 0, mask |-> 0]],
    written |-> LET coords == InGrid(GridOf(s[1], s[2]))
                    number(c) == NumberOver(GridOf(s[3], s[2]), 0, c)
                IN [k \in DOMAIN coords |->
                      [Seen(coords[k], k, s[2], FALSE)
                         EXCEPT !.a = 310 + number(coords[k]) * element_count(s[2]) * 4]]]
   : s \in ChunkShapes}

MCChunkCases ==
  PlainChunkCases
  \cup UNION {LET coords == InGrid(GridOf(s[1], s[2]))
                  written == {coords[k] : k \in w \cap DOMAIN coords}
              IN UNION {ChunkCase(s, written, f, x[1], x[2])
                          : x \in {<<"fixed", 0>>, <<"btree2", 0>>}
                                    \cup {<<"extensible", k>> : k \in DOMAIN s[1]}}
              : s \in ChunkShapes, f \in BOOLEAN, w \in {{}, {1}, {3}, {1, 4}, 1..4, {2, 6}}}
=============================================================================
