------------------------------- MODULE Hyperslab -------------------------------
(***************************************************************************)
(* The arithmetic of a read: Hyperslab::validate, selection_is_covered,    *)
(* for_each_run, read_chunked's copy loop (copy_chunk in the asynchronous  *)
(* engine) and chunks_of, in crates/oxcdf-hdf5/src/read.rs.                *)
(*                                                                         *)
(* One read of one dataset, one contiguous run of elements at a time.  A   *)
(* coordinate is a sequence with one number for each axis, and the value   *)
(* of an element is where it was copied from: <<"data", record, place>>,   *)
(* with record 0 for data that is not chunked.  Addresses and sizes are    *)
(* below Width; sums and products of the file's numbers wrap or saturate   *)
(* there as the code's do.  That chunks are found in a cache, fetched and  *)
(* decoded is the subject of ChunkRead.                                    *)
(***************************************************************************)
EXTENDS Integers, Sequences, FiniteSets, FiniteSetsExt

CONSTANTS
  Width,    (* 2^64                                                        *)
  Datasets, (* [layout, shape, chunk, chunks, stored] records, see below   *)
  Starts,   (* the coordinates a selection may start at                    *)
  Counts    (* and the counts it may have on each axis                     *)

(* layout is "compact", "contiguous", "unwritten" (contiguous without an   *)
(* address) or "chunked"; chunks is the chunk index, [offset, size] each,  *)
(* and stored is how many elements of the data are really there.           *)
ASSUME DatasetsAssumption ==
  \A d \in Datasets :
    /\ d.layout \in {"compact", "contiguous", "unwritten", "chunked"}
    /\ d.shape \in Seq(0 .. Width - 1)
    /\ d.layout = "chunked" =>
         /\ d.shape # <<>>
         /\ d.chunk \in [DOMAIN d.shape -> 1 .. Width - 1]
         /\ d.chunks \in Seq([offset : [DOMAIN d.shape -> 0 .. Width - 1], size : Nat])
    /\ d.layout # "chunked" => d.stored \in Nat

ASSUME WidthAssumption ==
  Width \in Nat \ {0, 1} /\ Starts \subseteq 0 .. Width - 1 /\ Counts \subseteq 0 .. Width - 1

VARIABLES
  phase,  (* where the read is                                             *)
  ds,     (* the dataset                                                   *)
  slab,   (* the selection: [start, count]                                 *)
  out,    (* the output: element number -> value                           *)
  todo,   (* the records of the chunk index still to copy, in order        *)
  lo, hi, (* the box of the current chunk that the selection wants         *)
  index,  (* the odometer of the current loop                              *)
  left,   (* how many runs the current loop has left                       *)
  listed, (* what chunks_of() returned                                     *)
  result  (* how the read ended                                            *)

vars == <<phase, ds, slab, out, todo, lo, hi, index, left, listed, result>>

MaxU64       == Width - 1
Axes(seq)    == DOMAIN seq
Lesser(a, b) == IF a < b THEN a ELSE b
Larger(a, b) == IF a < b THEN b ELSE a
SatAdd(a, b) == Lesser(a + b, MaxU64)

(* element_count(): the product of the dimensions, saturating.             *)
element_count(dims) ==
  LET f[a \in 0 .. Len(dims)] ==
        IF a = 0 THEN 1 ELSE Lesser(f[a - 1] * dims[a], MaxU64)
  IN  f[Len(dims)]

(* strides(): row-major strides, wrapping.                                 *)
strides(shape) ==
  LET f[a \in Axes(shape)] ==
        IF a = Len(shape) THEN 1 ELSE f[a + 1] * shape[a + 1] % Width
  IN  f

(* The sum of c[a] * s[a] over the first n axes.                           *)
Dot(c, s, n) ==
  LET f[a \in 0 .. n] == IF a = 0 THEN 0 ELSE (f[a - 1] + c[a] * s[a]) % Width
  IN  f[n]

Minus(c, d, n) == [a \in 1 .. n |-> c[a] - d[a]]
Plus(c, d, n)  == [a \in 1 .. n |-> c[a] + d[a]]

(* One turn of the odometer: the last axis that has room moves on, and the *)
(* axes after it start again.                                              *)
Turn(i, limit) ==
  LET room == {a \in DOMAIN i : i[a] + 1 < limit[a]}
      at   == IF room = {} THEN 0 ELSE Max(room)
  IN  [a \in DOMAIN i |-> IF a < at THEN i[a] ELSE IF a = at THEN i[a] + 1 ELSE 0]

Zeros(n) == [a \in 1 .. n |-> 0]

(* Hyperslab::validate(): the selection has the dataset's rank and lies in *)
(* its shape.                                                              *)
Valid(d, s) ==
  /\ Len(s.start) = Len(d.shape)
  /\ \A a \in Axes(d.shape) : /\ s.start[a] + s.count[a] <= MaxU64
                              /\ s.start[a] + s.count[a] <= d.shape[a]

Rank == Len(ds.shape)

--------------------------------------------------------------------------------
(* Coverage.                                                               *)

(* The cells of the chunk grid the selection touches on one axis.          *)
FirstCell(a) == slab.start[a] \div ds.chunk[a]
LastCell(a)  == (slab.start[a] + slab.count[a] - 1) \div ds.chunk[a]

(* The block of cells it touches.                                          *)
Cells ==
  {c \in [1 .. Rank -> UNION {FirstCell(a) .. LastCell(a) : a \in 1 .. Rank}] :
     \A a \in 1 .. Rank : c[a] \in FirstCell(a) .. LastCell(a)}

(* Mutant: a chunk that touches a cell covers it, on the grid or not.      *)
MarksOffGrid(k, cell) ==
  /\ ds.chunks[k].size # 0
  /\ \A a \in 1 .. Rank : ds.chunks[k].offset[a] \div ds.chunk[a] = cell[a]

(* Record k marks a cell: it is written, and on the grid.                  *)
Marks(k, cell) ==
  /\ ds.chunks[k].size # 0
  /\ \A a \in 1 .. Rank : ds.chunks[k].offset[a] = cell[a] * ds.chunk[a]

(* How many cells there are, or more than there are chunks.                *)
TooManyCells ==
  LET f[a \in 0 .. Rank] ==
        IF a = 0 THEN 1 ELSE f[a - 1] * (LastCell(a) - FirstCell(a) + 1)
  IN  f[Rank] > Len(ds.chunks)

(* chunks_cover(): every cell the selection touches has its chunk.         *)
chunks_cover ==
  \/ element_count(slab.count) = 0
  \/ /\ ~TooManyCells
     /\ \A cell \in Cells : \E k \in DOMAIN ds.chunks : Marks(k, cell)

(* selection_is_covered(): will the copies overwrite the whole output?     *)
selection_is_covered ==
  CASE ds.layout \in {"compact", "contiguous"} -> TRUE
    [] ds.layout = "unwritten"                 -> FALSE
    [] ds.layout = "chunked"                   -> chunks_cover

--------------------------------------------------------------------------------
(* Runs.                                                                   *)

(* The first axis of a run: the trailing axes taken in full join it.       *)
FirstAxis ==
  Min({f \in 1 .. Rank : \A a \in f + 1 .. Rank : /\ slab.start[a] = 0
                                                  /\ slab.count[a] = ds.shape[a]})

(* A run of a dataset that is not chunked, at the odometer's place.        *)
DenseRun ==
  IF Rank = 0
    THEN [src |-> 0, dst |-> 0, len |-> 1]
    ELSE LET f     == FirstAxis
             coord == Plus(slab.start, index, f - 1) \o <<slab.start[f]>>
         IN  [src |-> Dot(coord, strides(ds.shape), f),
              dst |-> Dot(index, strides(slab.count), f - 1),
              len |-> element_count(SubSeq(slab.count, f, Rank))]

(* The box of a record that the selection wants: far edges saturate.       *)
BoxLo(k) == [a \in 1 .. Rank |-> Larger(ds.chunks[k].offset[a], slab.start[a])]
BoxHi(k) == [a \in 1 .. Rank |-> Lesser(SatAdd(ds.chunks[k].offset[a], ds.chunk[a]),
                                        slab.start[a] + slab.count[a])]

(* intersects()                                                            *)
intersects(k) == \A a \in 1 .. Rank : BoxLo(k)[a] < BoxHi(k)[a]

(* The records to copy, in the order of the chunk index.                   *)
needed ==
  LET f[k \in 0 .. Len(ds.chunks)] ==
        IF k = 0 THEN <<>> ELSE IF intersects(k) THEN Append(f[k - 1], k) ELSE f[k - 1]
  IN  f[Len(ds.chunks)]

(* A run of chunk k: one row of its box.                                   *)
ChunkRun(k) ==
  LET coord == Plus(lo, index, Rank - 1) \o <<lo[Rank]>>
  IN  [src |-> Dot(Minus(coord, ds.chunks[k].offset, Rank), strides(ds.chunk), Rank),
       dst |-> Dot(Minus(coord, slab.start, Rank), strides(slab.count), Rank),
       len |-> hi[Rank] - lo[Rank]]

(* The elements of the output a run covers, copied from record k.          *)
Copied(k, run) ==
  [e \in DOMAIN out |->
     IF e \in run.dst .. run.dst + run.len - 1
       THEN <<"data", k, run.src + e - run.dst>>
       ELSE out[e]]

Fill == <<"fill", 0, 0>>
Zero == <<"zero", 0, 0>>

--------------------------------------------------------------------------------
(* The read.                                                               *)

NoSlab    == [start |-> <<>>, count |-> <<>>]
NoDataset == [layout |-> "compact", shape |-> <<>>, chunk |-> <<>>, chunks |-> <<>>, stored |-> 0]

Init ==
  /\ phase = "idle"
  /\ ds = NoDataset
  /\ slab = NoSlab
  /\ out = <<>>
  /\ todo = <<>>
  /\ lo = <<>> /\ hi = <<>> /\ index = <<>>
  /\ left = 0
  /\ listed = {}
  /\ result = "none"

End(how) == phase' = "done" /\ result' = how

(* read_hyperslab() is called and validates the selection.                 *)
Call(d, s) ==
  /\ phase = "idle"
  /\ ds' = d
  /\ slab' = s
  /\ \/ ~Valid(d, s) /\ End("BadRequest")
     \/ Valid(d, s) /\ phase' = "start" /\ UNCHANGED result
  /\ UNCHANGED <<out, todo, lo, hi, index, left, listed>>

(* The output starts from the fill value unless the selection is covered,  *)
(* and the loop of the layout is set up.                                   *)
Start ==
  /\ phase = "start"
  /\ LET n == element_count(slab.count)
     IN  /\ out' = [e \in 0 .. n - 1 |-> IF selection_is_covered THEN Zero ELSE Fill]
         /\ CASE ds.layout = "unwritten" ->
                   End("ok") /\ UNCHANGED <<todo, index, left>>
              [] ds.layout = "chunked" ->
                   /\ phase' = "next"
                   /\ todo' = needed
                   /\ UNCHANGED <<index, left, result>>
              [] ds.layout \in {"compact", "contiguous"} ->
                   /\ phase' = "dense"
                   /\ index' = Zeros(IF Rank = 0 THEN 0 ELSE FirstAxis - 1)
                   /\ left' = IF n = 0 THEN 0 ELSE element_count(SubSeq(slab.count, 1, Len(index')))
                   /\ UNCHANGED <<todo, result>>
  /\ UNCHANGED <<ds, slab, lo, hi, listed>>

(* Mutant: the last element of the data counts as missing.                 *)
CopyDenseStrict ==
  /\ phase = "dense"
  /\ left > 0
  /\ \/ /\ DenseRun.src + DenseRun.len >= ds.stored
        /\ End("TooShort")
        /\ UNCHANGED <<out, index, left>>
     \/ /\ DenseRun.src + DenseRun.len < ds.stored
        /\ out' = Copied(0, DenseRun)
        /\ index' = Turn(index, slab.count)
        /\ left' = left - 1
        /\ UNCHANGED <<phase, result>>
  /\ UNCHANGED <<ds, slab, todo, lo, hi, listed>>

(* One run of data that is not chunked, if the data is that long.          *)
CopyDense ==
  /\ phase = "dense"
  /\ left > 0
  /\ \/ /\ DenseRun.src + DenseRun.len > ds.stored
        /\ End("TooShort")
        /\ UNCHANGED <<out, index, left>>
     \/ /\ DenseRun.src + DenseRun.len <= ds.stored
        /\ out' = Copied(0, DenseRun)
        /\ index' = Turn(index, slab.count)
        /\ left' = left - 1
        /\ UNCHANGED <<phase, result>>
  /\ UNCHANGED <<ds, slab, todo, lo, hi, listed>>

DenseDone ==
  /\ phase = "dense"
  /\ left = 0
  /\ End("ok")
  /\ UNCHANGED <<ds, slab, out, todo, lo, hi, index, left, listed>>

(* The next chunk the selection needs: a record of no bytes decodes to too *)
(* few, for any other the rows of its box are copied.                      *)
NextChunk ==
  /\ phase = "next"
  /\ todo # <<>>
  /\ \/ /\ ds.chunks[Head(todo)].size = 0
        /\ End("Short")
        /\ UNCHANGED <<lo, hi, index, left>>
     \/ /\ ds.chunks[Head(todo)].size # 0
        /\ lo' = BoxLo(Head(todo))
        /\ hi' = BoxHi(Head(todo))
        /\ index' = Zeros(Rank - 1)
        /\ left' = element_count([a \in 1 .. Rank - 1 |-> hi'[a] - lo'[a]])
        /\ phase' = "copy"
        /\ UNCHANGED result
  /\ UNCHANGED <<ds, slab, out, todo, listed>>

CopyChunk ==
  /\ phase = "copy"
  /\ left > 0
  /\ out' = Copied(Head(todo), ChunkRun(Head(todo)))
  /\ index' = Turn(index, Minus(hi, lo, Rank - 1))
  /\ left' = left - 1
  /\ UNCHANGED <<phase, ds, slab, todo, lo, hi, listed, result>>

ChunkDone ==
  /\ phase = "copy"
  /\ left = 0
  /\ phase' = "next"
  /\ todo' = Tail(todo)
  /\ UNCHANGED <<ds, slab, out, lo, hi, index, left, listed, result>>

ChunksDone ==
  /\ phase = "next"
  /\ todo = <<>>
  /\ End("ok")
  /\ UNCHANGED <<ds, slab, out, todo, lo, hi, index, left, listed>>

(* Mutant: an edge chunk is listed at its full size.                       *)
ClippedFull(d, k) == [start |-> d.chunks[k].offset, count |-> d.chunk]

(* The part of a stored chunk that lies in the dataset.                    *)
Clipped(d, k) ==
  [start |-> d.chunks[k].offset,
   count |-> [a \in DOMAIN d.shape |-> Lesser(d.chunk[a], d.shape[a] - d.chunks[k].offset[a])]]

(* chunks_of(): every stored chunk as a selection, and one selection for   *)
(* a dataset that is not chunked.  A chunk that starts outside is left out.*)
Inside(d, k) == \A a \in DOMAIN d.shape : d.chunks[k].offset[a] < d.shape[a]
chunks_of(d) ==
  IF d.layout = "chunked" THEN {Clipped(d, k) : k \in {j \in DOMAIN d.chunks : Inside(d, j)}}
  ELSE {[start |-> Zeros(Len(d.shape)), count |-> d.shape]}

ListChunks(d) ==
  /\ phase = "idle"
  /\ phase' = "listed"
  /\ ds' = d
  /\ listed' = chunks_of(d)
  /\ UNCHANGED <<slab, out, todo, lo, hi, index, left, result>>

Return ==
  /\ phase \in {"done", "listed"}
  /\ phase' = "idle"
  /\ ds' = NoDataset
  /\ slab' = NoSlab
  /\ out' = <<>>
  /\ todo' = <<>>
  /\ lo' = <<>> /\ hi' = <<>> /\ index' = <<>>
  /\ left' = 0
  /\ listed' = {}
  /\ result' = "none"

Slabs(d) ==
  {s \in UNION {[start : [1 .. n -> Starts], count : [1 .. n -> Counts]] :
                  n \in {Len(d.shape), Len(d.shape) + 1}} :
     Len(s.start) = Len(d.shape) \/ s.start = Zeros(Len(s.start))}

Read == Start \/ CopyDense \/ DenseDone \/ NextChunk \/ CopyChunk \/ ChunkDone \/ ChunksDone

Next ==
  \/ \E d \in Datasets : ListChunks(d) \/ \E s \in Slabs(d) : Call(d, s)
  \/ Read
  \/ Return

Spec == Init /\ [][Next]_vars

--------------------------------------------------------------------------------
(* What the read should return, by coordinates.                            *)

(* The place of a coordinate in row-major order.                           *)
Flat(shape, c) ==
  LET f[a \in 0 .. Len(shape)] == IF a = 0 THEN 0 ELSE f[a - 1] * shape[a] + c[a]
  IN  f[Len(shape)]

(* The coordinates of a box.                                               *)
Box(s) ==
  LET n == Len(s.start)
      on(a) == s.start[a] .. s.start[a] + s.count[a] - 1
  IN  {c \in [1 .. n -> UNION {on(a) : a \in 1 .. n}] : \A a \in 1 .. n : c[a] \in on(a)}

(* Does chunk k hold the element at c?                                     *)
Holds(k, c) ==
  \A a \in DOMAIN c : /\ ds.chunks[k].offset[a] <= c[a]
                      /\ c[a] < ds.chunks[k].offset[a] + ds.chunk[a]

Expected(c) ==
  CASE ds.layout \in {"compact", "contiguous"} -> <<"data", 0, Flat(ds.shape, c)>>
    [] ds.layout = "unwritten" -> Fill
    [] ds.layout = "chunked" ->
         LET held == {k \in DOMAIN ds.chunks : Holds(k, c)}
         IN  IF held = {} THEN Fill
             ELSE <<"data", Max(held), Flat(ds.chunk, Minus(c, ds.chunks[Max(held)].offset, Rank))>>

(* Are the elements of the selection, of data that is not chunked and of a *)
(* chunk fewer than the largest number?  Their offsets wrap otherwise.     *)
Fits(d, s) ==
  /\ element_count(s.count) < MaxU64
  /\ d.layout \in {"compact", "contiguous"} => element_count(d.shape) < MaxU64
  /\ d.layout = "chunked" => element_count(d.chunk) < MaxU64

(* A read that succeeds returns, for every coordinate of the selection,    *)
(* the element stored there, of the last chunk that holds it, and the fill *)
(* value where nothing is stored, never the zeros the buffer is made of    *)
(* (read.rs:639-718): runs joined over full axes, edge chunks, chunks off  *)
(* the grid, and a skipped fill pass included.                             *)
ValuesAreSelected ==
  result = "ok" =>
    \A c \in Box(slab) : out[Flat(slab.count, Minus(c, slab.start, Rank))] = Expected(c)

(* A case in which the code departs from what it says of itself: a record  *)
(* of size zero is a chunk that was "never written" (read.rs:347) and so   *)
(* "must read as its fill value" (read.rs:667-669), but the copy loop      *)
(* decodes its no bytes and fails the read (read.rs:928).                  *)
UnwrittenIsFatal ==
  \E c \in Box(slab) : \E k \in DOMAIN ds.chunks : Holds(k, c) /\ ds.chunks[k].size = 0

(* A read that is not refused fails only if an element selected lies past  *)
(* the end of the data; a read of chunks never fails over what lies        *)
(* outside the selection, and over a chunk inside it only in the case      *)
(* above, in which the code departs from its documents (read.rs:805-842,   *)
(* 880-966).                                                               *)
FailureHasCause ==
  /\ result = "TooShort" => \E c \in Box(slab) : Flat(ds.shape, c) >= ds.stored
  /\ result = "Short" => UnwrittenIsFatal

(* The run about to be copied lies in its source and in the output, and no *)
(* element of it has been copied from the same record before: no slice is  *)
(* out of bounds and the runs of a loop are disjoint (read.rs:750-842 and  *)
(* 937-965, copy_chunk at 1257-1305).                                      *)
RunsFitAndAreDisjoint ==
  left > 0 =>
    LET record == IF phase = "copy" THEN Head(todo) ELSE 0
        run    == IF phase = "copy" THEN ChunkRun(record) ELSE DenseRun
    IN  /\ phase = "copy" => run.src + run.len <= element_count(ds.chunk)
        /\ phase \in {"copy", "dense"} =>
             \A e \in run.dst .. run.dst + run.len - 1 :
               e \in DOMAIN out /\ <<out[e][1], out[e][2]>> # <<"data", record>>

(* Is the chunk index whole: one chunk on every cell of the grid, each     *)
(* once, and none between the cells?                                       *)
IsWhole(d) ==
  d.layout = "chunked" =>
    /\ \A c \in Box([start |-> Zeros(Len(d.shape)), count |-> d.shape]) :
         Cardinality({k \in DOMAIN d.chunks :
           \A a \in DOMAIN c : c[a] - (c[a] % d.chunk[a]) = d.chunks[k].offset[a]}) = 1
    /\ \A k \in DOMAIN d.chunks :
         Inside(d, k) => \A a \in DOMAIN d.shape : d.chunks[k].offset[a] % d.chunk[a] = 0

(* Reading the chunks one by one, as chunks_of() tells a caller to, visits *)
(* every element of a dataset with a whole index exactly once, and every   *)
(* selection it lists is one a read accepts (read.rs:1593-1634).           *)
ListingTiles ==
  phase = "listed" =>
    /\ \A s \in listed : Valid(ds, s)
    /\ IsWhole(ds) =>
         \A c \in Box([start |-> Zeros(Rank), count |-> ds.shape]) :
           Cardinality({s \in listed : c \in Box(s)}) = 1

(* A read copies every element selected once, from its place to its place, *)
(* and nothing out of bounds (read.rs:639-842 and 880-969).                *)
CopiesAreExact == ValuesAreSelected /\ RunsFitAndAreDisjoint
================================================================================
