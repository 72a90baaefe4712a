------------------------------- MODULE Formats -------------------------------
(***************************************************************************)
(* The decoders of the reader as calls on what a writer left in a file.    *)
(* Each action is one call of one decoder, on an input of the instance     *)
(* that holds the bytes and what their writer meant by them; the answer    *)
(* is compared with that.  The writers are in the instance (MCFormats).    *)
(***************************************************************************)
EXTENDS FractalHeap, ChunkIndexes, Filters, Messages, Values, Extents, FiniteSets

CONSTANTS DenseCases, ChunkCases, FilterCases, MessageCases, FileCases,
          NumberCases, StringCases, NameCases, VlenCases, AttributeCases, FillCases, SelectCases

VARIABLES call,   \* the call that was answered last, or Idle
          res     \* its answer

vars == <<call, res>>

Idle == [op |-> "idle"]
Init == call = Idle /\ res = Ok(<<>>)

Answer(op, c, r) == call = Idle /\ call' = [op |-> op, c |-> c] /\ res' = r

-----------------------------------------------------------------------------
ReadLinks ==
  \E c \in DenseCases : Answer("links", c, ReadDenseLinks(c.file, c.heap, c.index))

ReadAttributes ==
  \E c \in DenseCases : Answer("attributes", c, ReadDenseAttributes(c.file, c.heap, c.index))

ReadChunks ==
  \E c \in ChunkCases : Answer("chunks", c, ReadChunkIndex(c.file, c.dataset))

DecodeChunk ==
  \E c \in FilterCases : Answer("decode", c, decode_chunk(c.pipeline, c.mask, c.data))

ParseOne ==
  \E c \in MessageCases : Answer("message", c, ParseMessage(c.kind, c.ctx, c.body))

\* from_byte_source as far as the file's root.
OpenFile ==
  \E c \in FileCases :
    Answer("open", c,
      Then(detect_container(c.file), LAMBDA container :
        IF container # "hdf5" THEN Ok([container |-> container, at |-> 0, root |-> NoAddr])
        ELSE Then(ReadSuperblock(c.file), LAMBDA sb :
               Then(RootHeader(sb), LAMBDA root :
                 Ok([container |-> container, at |-> sb.at, root |-> root])))))

ReadNumbers ==
  \E c \in NumberCases :
    Answer("numbers", c, get_of(ToNativeOrder(c.bytes, c.type), c.type, c.as))

ReadStrings ==
  \E c \in StringCases : Answer("strings", c, to_strings_of(c.bytes, c.type))

ReadName ==
  \E c \in NameCases : Answer("name", c, LocalHeapName(c.file, c.address, c.offset))

ReadVlen ==
  \E c \in VlenCases :
    Answer("vlen", c,
      IF c.type.kind = "string" THEN resolve_vlen_strings(c.file, c.sz, c.type, c.descriptors)
      ELSE resolve_vlen_sequences(c.file, c.sz, c.type, c.descriptors))

DecodeAttribute ==
  \E c \in AttributeCases : Answer("value", c, Ok(decode_value(c.attr, c.file, c.sz)))

FillBuffer ==
  \E c \in FillCases : Answer("fill", c, Ok(fill(c.bytes, c.len, c.elementSize)))

Select ==
  \E c \in SelectCases :
    Answer("select", c, IF c.ranges THEN from_ranges(c.request.axes, c.shape)
                        ELSE to_hyperslab(c.request, c.shape))

\* The caller has the answer.
Return == call # Idle /\ call' = Idle /\ res' = Ok(<<>>)

Next ==
  \/ ReadLinks \/ ReadAttributes \/ ReadChunks \/ DecodeChunk \/ ParseOne \/ OpenFile
  \/ ReadNumbers \/ ReadStrings \/ ReadName \/ ReadVlen \/ DecodeAttribute \/ FillBuffer \/ Select
  \/ Return

Spec == Init /\ [][Next]_vars

-----------------------------------------------------------------------------
DenseList == IF call.op = "links" THEN res.v ELSE res.v.list

\* A departure of the code from its comment and the format: the children of an
\* indirect block "each cover as many rows as their size implies" (fractal.rs:520),
\* those whose blocks fill it; child_rows (fractal.rs:527) counts from the first
\* indirect row, which is that number only where the width is twice the largest
\* direct block over the starting block.  Other children are read at a wrong
\* length and refused.
RowsOfSize(h, size) == CHOOSE r \in 1..MaxRows : h.width * h.start * 2^(r - 1) = size
MisSizedChild(c) ==
  LET h == c.file.at[c.heap]
      row(i) == (i - 1) \div h.width
  IN /\ h.rows > 0
     /\ \E i \in DOMAIN c.file.at[h.root].entries :
          /\ c.file.at[h.root].entries[i] # NoAddr
          /\ row(i) >= max_direct_rows(h)
          /\ child_rows(h, row(i)) # RowsOfSize(h, row_block_size(h, row(i)))

\* A departure of the code from its doc: a heap with free space inside "fails
\* loudly" (fractal.rs:16-19), but the bytes of a deleted record stay in its block
\* and parse, so the walk (fractal.rs:203-225) may take them for a record, and
\* may reach the count with them.
Blocks(file) == {file.at[a] : a \in {a \in DOMAIN file.at : file.at[a].sig = "FHDB"}}
Walkable(file) ==
  UNION {{b.cells[i] : i \in {i \in DOMAIN b.cells :
            b.cells[i].kind = "rec" /\ \A j \in 1..i : b.cells[j].kind # "zero"}} : b \in Blocks(file)}
TakesDeleted(c) ==
  \E d \in Walkable(c.file) \ c.written :
    Cardinality({r \in Walkable(c.file) : r.name < d.name}) < c.file.at[c.heap].count
CountsDeleted(c) ==
  TakesDeleted(c) /\ Cardinality(Walkable(c.file)) >= c.file.at[c.heap].count

\* A list of links, or a list of attributes that is not marked as short, holds
\* every record that was stored and no other, whatever the heap's shape, its
\* gaps and the depth of its name index (read_dense_links,
\* read_dense_attributes), unless the walk counts a deleted record; a short list
\* holds no other record either, unless the walk takes a deleted one; and a sound
\* heap whose records the walk or an index can find is read, but for the
\* children of MisSizedChild.
DenseIsWhole ==
  call.op \in {"links", "attributes"} =>
    /\ res.ok /\ ~TakesDeleted(call.c) => ToSet(DenseList) \subseteq call.c.written
    /\ (res.ok /\ (call.op = "links" \/ res.v.complete)) /\ ~CountsDeleted(call.c) =>
         /\ ToSet(DenseList) = call.c.written
         /\ Len(DenseList) = Cardinality(call.c.written)
    /\ call.c.sound /\ ~MisSizedChild(call.c) /\ ~CountsDeleted(call.c) =>
         res.ok /\ (call.op = "links" \/ res.v.complete)

\* A walk that misses bytes says so: an answer given while bytes are missing is
\* the answer of the whole file.  A replay that took a short answer for the
\* answer would never fetch the rest.
MissingIsNotData ==
  /\ call.op = "links" /\ res.ok =>
       res = ReadDenseLinks([call.c.file EXCEPT !.absent = {}], call.c.heap, call.c.index)
  /\ call.op = "attributes" /\ res.ok =>
       res = ReadDenseAttributes([call.c.file EXCEPT !.absent = {}], call.c.heap, call.c.index)
  /\ call.op = "chunks" /\ res.ok =>
       res = ReadChunkIndex([call.c.file EXCEPT !.absent = {}], call.c.dataset)

\* The number of a chunk in a grid, row by row, with axis u (if any) moved to the
\* front.
NumberOver(grid, u, coord) ==
  LET axes == SelectSeq(<<u>>, LAMBDA k : k > 0) \o SelectSeq(Span(Len(grid)), LAMBDA k : k # u)
  IN FoldLeft(LAMBDA n, k : n * grid[k] + coord[k], 0, axes)

\* A departure of the code from the format: chunk_index::read takes the shape and
\* the chunk shape, which "together give each chunk's position"
\* (chunk_index.rs:67-70, index.rs:301-306), but the arrays are numbered over the
\* grid of the maximum shape, and an extensible one with its unlimited axis first.
\* A chunk whose number in the current grid is another is read at the place of
\* another chunk, without an error.
NumberedOtherwise(c) ==
  LET d == c.dataset
      coord(r) == [k \in DOMAIN d.dims |-> r.offset[k] \div d.dims[k]]
  IN /\ d.index \in {"implicit", "fixed", "extensible"}
     /\ \E r \in ToSet(c.written) :
          NumberOver(chunk_grid(d.maximum, d.dims), d.unlimited, coord(r))
            # NumberOver(chunk_grid(d.shape, d.dims), 0, coord(r))

\* Whatever kind of index a dataset has, the list of its chunks names each
\* written chunk once, at the offset it was written for, in row-major order, but
\* for the datasets of NumberedOtherwise; chunks that were never written are not
\* in it.
ChunksAtTheirPlace ==
  call.op = "chunks" =>
    /\ res.ok /\ ~NumberedOtherwise(call.c) => res.v = call.c.written
    /\ call.c.sound => res.ok

\* Departures of unblosc from the Blosc format, none of which decode_chunk
\* reports as such.  Its doc (filters.rs:120-125) says that a container is split
\* into independently compressed blocks, that the header names the codec, and
\* that the shuffle inside has to be undone:
\*   - each block is shuffled by itself, the code unshuffles all of them at once
\*     (filters.rs:204-210), and wrong values come out;
ShuffledBlocks(b) ==
  /\ b.nbytes > b.blocksize
  /\ BitOf(b.flags, BLOSC_DOBITSHUFFLE) = 1 \/ (BitOf(b.flags, BLOSC_DOSHUFFLE) = 1 /\ b.typesize > 1)
\*   - elements that do not come in eights are not bit shuffled, the code moves
\*     their bits (filters.rs:306-335);
LooseElements(b) ==
  BitOf(b.flags, BLOSC_DOBITSHUFFLE) = 1 /\ b.nbytes % (8 * b.typesize) # 0
\*   - flag 0x2, a container that is a plain copy, is not looked at;
PlainCopy(b) == BitOf(b.flags, 1) = 1
\*   - a block may be stored in several streams, the code reads the first;
SplitBlock(b) == \E k \in DOMAIN b.blocks : Len(b.blocks[k]) > 1
\*   - the format numbers zlib 3 and zstd 4, blosc_codec (filters.rs:100-113) and
\*     the tests number them 4 and 5.
OtherNumber(b) ==
  \E k \in DOMAIN b.blocks : \E t \in ToSet(FlattenSeq(b.blocks[k])) :
    "codec" \in DOMAIN t /\ <<t.codec, b.flags \div 32>> \in {<<"deflate", 3>>, <<"zstd", 4>>}

BloscDeparts(c) ==
  \E k \in DOMAIN c.data :
    /\ "blosc" \in DOMAIN c.data[k]
    /\ LET b == c.data[k].blosc
       IN ShuffledBlocks(b) \/ LooseElements(b) \/ PlainCopy(b) \/ SplitBlock(b) \/ OtherNumber(b)

\* Undoing a pipeline gives back what the writer put into it, for every set of
\* filters that were left out for this chunk, but for the containers of
\* BloscDeparts; a chunk whose checksum does not match, and one of a codec or a
\* filter this reader lacks, is refused (decode_chunk).
FiltersUndone ==
  call.op = "decode" /\ ~BloscDeparts(call.c) =>
    IF call.c.sound THEN res = Ok(call.c.raw) ELSE ~res.ok

\* A departure of the code from the format: a member's offset in a compound type
\* takes "only as wide as the compound's own size needs" bytes (datatype.rs:
\* 354-355), one for each byte of that size; compound_offset_width (datatype.rs:
\* 474-480) gives one too few for sizes from 256 to 511, and the members after
\* the first offset are read out of place.
OffsetBytes(size) == IF size < 256 THEN 1 ELSE IF size < 65536 THEN 2 ELSE 3
NarrowOffsets(c) ==
  /\ c.kind = "datatype" /\ c.type.class = 6
  /\ c.body[1].v \div 16 \in {3, 4}
  /\ compound_offset_width(c.type.size) # OffsetBytes(c.type.size)

\* A parser reads every field of a message where its writer put it and stops on
\* the byte after the message, so the next record starts there, but for the
\* compound types of NarrowOffsets; and a file is found behind a user block of
\* any size, with the root its superblock names.
MessagesWhole ==
  /\ call.op = "message" /\ ~NarrowOffsets(call.c) =>
       IF call.c.sound
       THEN /\ res.ok
            /\ \A f \in DOMAIN call.c.want : Get(res.v.v, f) = call.c.want[f]
            /\ \A f \in DOMAIN call.c.parts : GetSeq(res.v.v, f) = call.c.parts[f]
            /\ call.c.kind = "datatype" => TypeOf(res.v.v) = call.c.type
            /\ res.v.next = call.c.next
       ELSE ~res.ok
  /\ call.op = "open" => IF call.c.sound THEN res = Ok(call.c.want) ELSE ~res.ok

\* The value of a number, a string, a name, a variable-length element, an attribute or
\* a fill value is the one that was stored: in its byte order and its width,
\* without the padding around it.
ValuesAreStored ==
  call.op \in {"numbers", "strings", "name", "vlen", "value", "fill"} =>
    IF call.c.sound THEN res = Ok(call.c.want) ELSE ~res.ok

\* A departure of the code: the end of `..=j` and `i..=j` is j + 1
\* (extent.rs:180-188), which is 0 in a release build when j is usize::MAX (a
\* debug build panics), so a request that names elements outside the axis may
\* come back as an empty selection (extent.rs:88-94) and not as an error.
WrappedEnd(c) ==
  \E k \in DOMAIN c.request.axes :
    c.request.axes[k].form \in {"..=j", "i..=j"} /\ c.request.axes[k].j = UsizeMax

\* A request selects the elements its ranges name on each axis, or is refused:
\* nothing outside the shape is ever selected, and nothing inside it refused,
\* but for the inclusive ends of WrappedEnd, which select nothing or are refused.
SelectionsExact ==
  call.op = "select" =>
    LET c == call.c
        named(k) == IF c.request.all THEN 0..(c.shape[k] - 1) ELSE c.elements[k]
        taken(k) == res.v.start[k]..(res.v.start[k] + res.v.count[k] - 1)
    IN IF WrappedEnd(c) THEN res.ok => \E k \in DOMAIN c.shape : taken(k) = {}
       ELSE /\ res.ok => \A k \in DOMAIN c.shape : taken(k) = named(k)
            /\ res.ok <=> c.legal

\* Every superblock is found and read, version 1 with addresses of 8 bytes
\* included: it is longer than the block parse_at reads.
EverySuperblockFits == call.op = "open" => res = Ok(call.c.want)
=============================================================================
