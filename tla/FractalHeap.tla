----------------------------- MODULE FractalHeap -----------------------------
(***************************************************************************)
(* Fractal heaps (fractal.rs) and the dense link and attribute storage     *)
(* kept in them (dense.rs).                                                *)
(*                                                                         *)
(* A direct block holds cells, one for a byte, of kind "rec" for the first *)
(* byte of a record, "body" for its other bytes, "zero" for unused space   *)
(* and "bad" where no record parses.  An indirect block holds the          *)
(* addresses of its children.  A block is sound when its checksum is that  *)
(* of its bytes; read at another length than written, it never is.         *)
(***************************************************************************)
EXTENDS Btree2, TLC

CONSTANTS MaxBlocks,       \* MAX_BLOCKS
          MaxHeapDepth,    \* the 64 of read_indirect_block
          MaxRows,         \* u16::MAX
          BlockHeaderLen,  \* signature, version, heap address, block offset
          BlockSumLen      \* the checksum of a direct block, when it has one

Least(a, b) == IF a < b THEN a ELSE b
SatMinus(a, b) == IF a > b THEN a - b ELSE 0

-----------------------------------------------------------------------------
\* Header::read, with the checks of its fields.
ReadHeapHeader(file, address) ==
  Then(Fetch(file, address), LAMBDA h :
    Check(h.sig = "FRHP", "malformed",
    Check(h.version = 0, "unsupported",
    Check(h.sound, "checksum",
    Check(h.width > 0 /\ h.start > 0, "malformed",
    Ok([h EXCEPT !.at = address]))))))

\* Rows 0 and 1 have blocks of the starting size; each later row doubles it.
row_block_size(h, row) == IF row < 2 THEN h.start ELSE h.start * 2^(row - 1)

\* The first row whose blocks are larger than a direct block may be.
max_direct_rows(h) ==
  CHOOSE r \in 0..MaxRows :
    /\ r = MaxRows \/ row_block_size(h, r) > h.maxDirect
    /\ \A q \in 0..(r - 1) : row_block_size(h, q) <= h.maxDirect

direct_block_header_len(h) == BlockHeaderLen + IF h.blockSums THEN BlockSumLen ELSE 0

\* read_direct_block: check one direct block and push its payload, with the heap
\* offset at which that payload starts.
ReadDirect(file, h, a, size, out) ==
  Check(Len(out) <= MaxBlocks, "malformed",
  Then(Fetch(file, a), LAMBDA b :
    Check(b.sig = "FHDB", "malformed",
    Check(b.version = 0, "unsupported",
    Check(b.heap = h.at, "malformed",
    Check(h.blockSums => b.sound /\ size = b.size, "checksum",
    Check(direct_block_header_len(h) <= size, "malformed",
    Ok(Append(out, [at |-> b.offset + direct_block_header_len(h),
                    cells |-> SubSeq(b.cells, 1, size - direct_block_header_len(h))])))))))))

\* Rows of the child indirect block in row `row`.
child_rows(h, row) == SatMinus(row, max_direct_rows(h)) + 1

RECURSIVE ReadIndirect(_, _, _, _, _, _)

\* read_indirect_block: direct children first, row by row, then indirect ones.
ReadIndirect(file, h, a, rows, out, depth) ==
  LET mdr == max_direct_rows(h)
      direct == Least(rows, mdr) * h.width
      indirect == SatMinus(rows, mdr) * h.width
      row(i) == (i - 1) \div h.width
  IN
  Check(depth <= MaxHeapDepth, "malformed",
  Then(Fetch(file, a), LAMBDA b :
    Check(b.sig = "FHIB", "malformed",
    Check(b.version = 0, "unsupported",
    Check(b.heap = h.at, "malformed",
    Check(b.sound /\ Len(b.entries) = direct + indirect, "checksum",
    Loop(LAMBDA acc, i :
           IF b.entries[i] = NoAddr THEN Ok(acc)
           ELSE IF i <= direct
           THEN ReadDirect(file, h, b.entries[i], row_block_size(h, row(i)), acc)
           ELSE ReadIndirect(file, h, b.entries[i], child_rows(h, row(i)), acc, depth + 1),
         out, Span(direct + indirect))))))))

\* FractalHeap::read
ReadHeap(file, address) ==
  Then(ReadHeapHeader(file, address), LAMBDA h :
    Check(~h.filtered, "unsupported",
    Then(IF h.root = NoAddr THEN Ok(<<>>)
         ELSE IF h.rows = 0 THEN ReadDirect(file, h, h.root, h.start, <<>>)
         ELSE ReadIndirect(file, h, h.root, h.rows, <<>>, 0),
         LAMBDA bs : Ok([blocks |-> SortSeq(bs, LAMBDA x, y : x.at < y.at),
                         count |-> h.count, idLen |-> h.idLen]))))

-----------------------------------------------------------------------------
\* parse_at of a link or an attribute at a cell: the record and its length.
ParseAt(cells, pos) ==
  Check(cells[pos].kind = "rec", "malformed",
  Check(pos + cells[pos].len - 1 <= Len(cells), "bounds", Ok(cells[pos])))

\* FractalHeap::get
GetRecord(heap, id) ==
  LET Holds(b) == b.at <= id.offset /\ id.offset < b.at + Len(b.cells)
      hits == SelectSeq(heap.blocks, Holds)
  IN Check(id.len >= heap.idLen, "malformed",
     Check(id.class = 0, "unsupported",
     Check(hits # <<>>, "malformed",
     LET b == hits[1]
         start == id.offset - b.at
     IN Check(start + id.length <= Len(b.cells), "malformed",
              Ok(SubSeq(b.cells, start + 1, start + id.length))))))

\* walk_indexed: the records the B-tree's heap IDs name.
WalkIndexed(heap, ids) ==
  MapAll(LAMBDA id : Then(GetRecord(heap, id), LAMBDA bytes :
                       Check(bytes # <<>>, "bounds", ParseAt(bytes, 1))), ids)

RECURSIVE WalkBlock(_, _, _, _)

\* The loop of walk_lenient over one block: it ends at unused space and once the
\* header's count is reached.
WalkBlock(cells, pos, out, count) ==
  IF pos > Len(cells) \/ Len(out) >= count \/ cells[pos].kind = "zero" THEN Ok(out)
  ELSE LET r == ParseAt(cells, pos) IN
       Check(r.ok, "malformed",
       Check(r.v.len > 0, "malformed",
             WalkBlock(cells, pos + r.v.len, Append(out, r.v), count)))

\* Mutant: any walk is complete.
WalkComplete(heap) ==
  Then(Loop(LAMBDA out, b : WalkBlock(b.cells, 1, out, heap.count), <<>>, heap.blocks),
       LAMBDA out : Ok([list |-> out, complete |-> TRUE]))

\* walk_lenient
WalkLenient(heap) ==
  Then(Loop(LAMBDA out, b : WalkBlock(b.cells, 1, out, heap.count), <<>>, heap.blocks),
       LAMBDA out : Ok([list |-> out, complete |-> Len(out) = heap.count]))

-----------------------------------------------------------------------------
\* read_dense_links
ReadDenseLinks(file, heapAddress, index) ==
  Then(ReadHeap(file, heapAddress), LAMBDA heap :
    Then(WalkLenient(heap), LAMBDA w :
      IF w.complete THEN Ok(w.list)
      ELSE Check(index # NoAddr, "malformed",
           Then(ReadBtree(file, index), LAMBDA ids : WalkIndexed(heap, ids)))))

\* Mutant: an index that misses bytes counts as one that cannot be followed.
ReadDenseAttributesSwallow(file, heapAddress, index) ==
  Then(ReadHeap(file, heapAddress), LAMBDA heap :
    Then(WalkLenient(heap), LAMBDA w :
      IF w.complete \/ index = NoAddr THEN Ok(w)
      ELSE LET ids == ReadBtree(file, index) IN
           IF ~ids.ok THEN Ok(w)
           ELSE LET r == WalkIndexed(heap, ids.v) IN
                IF r.ok THEN Ok([list |-> r.v, complete |-> TRUE]) ELSE Ok(w)))

\* read_dense_attributes: the list, and whether it is whole.
ReadDenseAttributes(file, heapAddress, index) ==
  Then(ReadHeap(file, heapAddress), LAMBDA heap :
    Then(WalkLenient(heap), LAMBDA w :
      IF w.complete \/ index = NoAddr THEN Ok(w)
      ELSE Then(ReadBtree(file, index), LAMBDA ids :
             LET r == WalkIndexed(heap, ids) IN
             IF r.ok THEN Ok([list |-> r.v, complete |-> TRUE])
             ELSE IF r.e = "incomplete" THEN r ELSE Ok(w))))
=============================================================================
