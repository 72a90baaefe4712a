---------------------------- MODULE ChunkIndexes -----------------------------
(***************************************************************************)
(* Version 4 chunk indexes (chunk_index.rs): five ways to list the chunks  *)
(* of a dataset, resolved into one sorted list of chunk records.           *)
(***************************************************************************)
EXTENDS Btree2, TLC

CONSTANTS FileBytes   \* ctx.source.size()

\* read.rs element_count: the product of the dimensions.
element_count(dims) == FoldLeft(LAMBDA p, d : p * d, 1, dims)

chunk_count(total) == Check(total <= FileBytes, "malformed", Ok(total))

chunk_grid(shape, dims) ==
  [k \in DOMAIN shape |-> IF dims[k] = 0 THEN 0 ELSE (shape[k] + dims[k] - 1) \div dims[k]]

Extent(grid, k) == IF grid[k] = 0 THEN 1 ELSE grid[k]

\* Element offset of chunk number `index`, in row-major chunk order.
chunk_offset(index, grid, dims) ==
  [k \in DOMAIN grid |->
     ((index \div element_count([j \in 1..(Len(grid) - k) |-> Extent(grid, k + j)]))
        % Extent(grid, k)) * dims[k]]

Element(a, size, mask) == [a |-> a, size |-> size, mask |-> mask]
Unwritten == Element(NoAddr, 0, 0)

\* The chunks of an array of elements; an element of no address is no chunk,
\* and one of no size is stored unfiltered.
elements_to_records(elements, grid, dims, full) ==
  LET rec(i) == [size |-> IF elements[i].size = 0 THEN full ELSE elements[i].size,
                 mask |-> elements[i].mask,
                 offset |-> chunk_offset(i - 1, grid, dims), a |-> elements[i].a]
      written == SelectSeq(Span(Len(elements)), LAMBDA i : elements[i].a # NoAddr)
  IN [k \in DOMAIN written |-> rec(written[k])]

\* expect_signature, the version, and verify_checksum over `len` entries.
Block(file, a, sig, Holds(_)) ==
  Then(Fetch(file, a), LAMBDA b :
    Check(b.sig = sig, "malformed",
    Check(b.version = 0, "unsupported",
    Check(b.sound /\ Holds(b), "checksum", Ok(b)))))

\* read_elements: only a filtered client stores sizes and masks.
read_elements(b, n, client) ==
  Ok([i \in 1..n |-> IF client = 1 THEN b[i] ELSE Element(b[i].a, 0, 0)])

read_fixed_array(file, address) ==
  Then(Block(file, address, "FAHD", LAMBDA b : TRUE), LAMBDA h :
    IF h.block = NoAddr THEN Ok(<<>>)
    ELSE Check(h.pageBits = 0 \/ h.max <= 2^h.pageBits, "unsupported",
         Then(Block(file, h.block, "FADB", LAMBDA b : Len(b.elems) = h.max),
              LAMBDA b : read_elements(b.elems, h.max, h.client))))

\* Elements held by the one data block of super block sblk.
data_block_capacity(sblk, min) == min * 2^((sblk + 1) \div 2)

FirstSuperBlocks == 2   \* SBLK_FIRST_IDX

Fewer(a, b) == IF a < b THEN a ELSE b

\* Mutant: a data block that is not allocated is passed over.
DataBlockSkips(file, h, blocks, out, sblk) ==
  LET wanted == Fewer(data_block_capacity(sblk, h.min), h.maxSet - Len(out))
  IN IF Len(out) >= h.maxSet \/ blocks[sblk + 1] = NoAddr THEN Ok(out)
     ELSE Then(Fetch(file, blocks[sblk + 1]),
               LAMBDA b : Then(read_elements(b.elems, wanted, h.client), LAMBDA es : Ok(out \o es)))

\* One step of the loop over the data blocks the index block points at; a block
\* that is not allocated leaves its whole run unwritten.
DataBlock(file, h, blocks, out, sblk) ==
  LET capacity == data_block_capacity(sblk, h.min)
      wanted == Fewer(capacity, h.maxSet - Len(out))
  IN IF Len(out) >= h.maxSet THEN Ok(out)
     ELSE IF blocks[sblk + 1] = NoAddr THEN Ok(out \o [i \in 1..wanted |-> Unwritten])
     ELSE Then(Block(file, blocks[sblk + 1], "EADB", LAMBDA b : Len(b.elems) = capacity),
               LAMBDA b : Then(read_elements(b.elems, wanted, h.client), LAMBDA es : Ok(out \o es)))

\* Elements inline, then in the direct data blocks, then nowhere this reader
\* looks.
read_extensible_array(file, address) ==
  Then(Block(file, address, "EAHD", LAMBDA b : TRUE), LAMBDA h :
    IF h.indexBlock = NoAddr THEN Ok(<<>>)
    ELSE
    Check(h.elemSize > 0 /\ h.min > 0, "malformed",
    LET addresses == FirstSuperBlocks + 1 + (h.bits - Log2(h.min)) IN
    Then(Block(file, h.indexBlock, "EAIB",
               LAMBDA b : Len(b.elems) = h.inline /\ Len(b.addrs) = addresses), LAMBDA ib :
      Then(read_elements(ib.elems, Fewer(h.inline, h.maxSet), h.client), LAMBDA first :
        Then(Loop(LAMBDA out, s : DataBlock(file, h, ib.addrs, out, s - 1), first,
                  Span(FirstSuperBlocks)),
             LAMBDA out : Check(Len(out) >= h.maxSet, "unsupported", Ok(out)))))))

\* Records of a chunk B-tree: scaled offsets, one for each stored dimension.
read_btree2_chunks(file, address, dims, filtered) ==
  Then(ReadBtree(file, address), LAMBDA recs :
    MapAll(LAMBDA r :
      Check(Len(r.scaled) >= Len(dims), "malformed",
      Check(r.a # NoAddr, "malformed",
      Ok([size |-> IF filtered THEN r.size ELSE 0, mask |-> IF filtered THEN r.mask ELSE 0,
          offset |-> [k \in DOMAIN dims |-> r.scaled[k] * dims[k]], a |-> r.a]))), recs))

Before(x, y) ==
  \E k \in DOMAIN x : x[k] < y[k] /\ \A j \in 1..(k - 1) : x[j] = y[j]

\* chunk_index::read
ReadChunkIndex(file, d) ==
  LET grid == chunk_grid(d.shape, d.dims)
      full == element_count(d.dims) * d.elemSize
      at(i) == [size |-> full, mask |-> 0, offset |-> chunk_offset(i, grid, d.dims),
                a |-> d.address + i * full]
      records ==
        CASE d.index = "single" ->
               Ok(<<[size |-> IF d.filtered THEN d.one.size ELSE full, mask |-> d.one.mask,
                     offset |-> [k \in DOMAIN d.shape |-> 0], a |-> d.address]>>)
          [] d.index = "implicit" ->
               Then(chunk_count(element_count(grid)),
                    LAMBDA n : Ok([i \in 1..n |-> at(i - 1)]))
          [] d.index = "fixed" ->
               Then(chunk_count(element_count(grid)), LAMBDA n :
                 Then(read_fixed_array(file, d.address),
                      LAMBDA es : Ok(elements_to_records(es, grid, d.dims, full))))
          [] d.index = "extensible" ->
               Then(read_extensible_array(file, d.address),
                    LAMBDA es : Ok(elements_to_records(es, grid, d.dims, full)))
          [] d.index = "btree2" ->
               Then(read_btree2_chunks(file, d.address, d.dims, d.filtered), LAMBDA rs :
                 Ok([i \in DOMAIN rs |->
                       [rs[i] EXCEPT !.size = IF @ = 0 THEN full ELSE @]]))
          [] OTHER -> Err("malformed")
  IN IF d.address = NoAddr THEN Ok(<<>>)
     ELSE Then(records, LAMBDA rs : Ok(SortSeq(rs, LAMBDA x, y : Before(x.offset, y.offset))))
=============================================================================
