# A verification project for oxcdf

oxcdf reads netCDF-3 and netCDF-4/HDF5 files in pure Rust, synchronously and
asynchronously, from local files, memory and object stores. It only reads: there is no
file state to corrupt. What can go wrong is that it returns other bytes than the file's,
fails on a file that is fine, loses metadata without saying so, or does not stop. This
project models the parts where that is hard to see from the code or to reach with a test.

Paths below are relative to `crates/`: `hdf5/` is `crates/oxcdf-hdf5/src/`, `nc/` is
`crates/oxcdf/src/`.

## 1. The system

| Part | State it keeps | Operations | Used by |
|---|---|---|---|
| Page cache `IoCache` (`hdf5/cache.rs`) | fixed-size pages by index, shared by every handle of a file; moka evicts them | `read`, `read_async`, `page`, `put_page`, `clear` | `Ctx`, replay, asynchronous reads |
| Chunk cache `ChunkCache` (`hdf5/cache.rs`) | decoded chunks by file address, evicted by moka | `get_or_decode`, `contains`, `insert`, `get`, `clear` | the read engine |
| Replay driver (`hdf5/replay.rs`) | the pages of one walk, the pages it wants, the round | `replay`, `fetch`, `ReplaySource::read_exact_at`, `read_ranges` | every asynchronous open and metadata walk |
| Request merging (`hdf5/io.rs`, `context.rs`) | none | `plan`, `scatter`, `Ctx::read_ranges`, `Ctx::read_upto` | the read engine |
| Read engine (`hdf5/read.rs`) | none of its own; shares both caches | `read_hyperslab`, `read_hyperslab_async_with`, read-ahead, coverage, chunk copies, `chunks_of` | the public read methods |
| Chunk index (`hdf5/index.rs`, `chunk_index.rs`, `btree1.rs`, `btree2.rs`) | a `OnceLock` per dataset, filled on first use | `chunks`, `resolve_chunks`, `prepare`, `prepare_all` | the read engine |
| File index (`hdf5/index.rs`, `objheader.rs`, `symbol_table.rs`, `dense.rs`, `fractal.rs`, `heap.rs`) | the tree of groups, datasets and attributes, immutable after the open | `build_group`, `resolve_children`, `read_attributes`, `build_dataset` | opens |
| Filters (`hdf5/filters.rs`) | none | the inverse filter pipeline of one chunk | the read engine |
| Messages and low-level formats (`hdf5/message/*`, `superblock.rs`, `cursor.rs`, `checksum.rs`, `dtype.rs`, `container.rs`) | none | parse one structure | the file index |
| Byte sources (`hdf5/source.rs`, `async_source.rs`, `object_store_source.rs`) | size of the file or object | `read_exact_at`, `read_ranges` | everything above |
| netCDF model (`nc/netcdf.rs`) | dimensions, variables, groups derived from the HDF5 index | dimension scales, `DIMENSION_LIST`, phony dimensions, attribute decoding | users |
| Classic netCDF-3 (`nc/classic.rs`) | header, record layout | header parse, hyperslab reads | users |
| Extents (`nc/extent.rs`) | none | selection arguments to hyperslabs | users |
| Asynchronous facades (`hdf5/async_hdf5.rs`, `nc/async_netcdf.rs`) | the parsed file and its source | `open_with`, `walk`, `prepare`, `read_selection` | users |

How they interact. An open parses the whole tree of headers through a `Ctx`, which reads
through the page cache. A synchronous open does so directly; an asynchronous one hands the
same parser to the replay driver. Values are read later: the read engine asks the chunk
index which chunks a selection touches, fetches the ones the chunk cache does not hold
(plus a few of read-ahead) as one merged batch, decodes them and copies the parts selected.
Nothing holds a lock across these steps. Any number of threads and tasks share the two
caches, which may drop an entry at any time.

What is hard: interleavings of readers over caches that evict (page cache, chunk cache);
values checked before an `await` and used after it (the asynchronous engine); walks that
are run several times over incomplete data (replay); errors that one caller may swallow
and another must not; sources that answer short, late or not at all; boundary arithmetic
on pages, chunks, partial edge chunks and merged ranges.

What makes each part correct: a cached read returns the bytes of the file and nothing else,
whoever else reads (page cache); an asynchronous walk ends with the value or the error of the
synchronous one (replay); a read has the value of every element selected or fails for a cause
(read engine); merging never changes what a range gets (request merging); a chunk index is
whole or absent, and names each chunk at its place (chunk index); an open lists what the
file's links lead to (file index); dense storage is read whole or marked as short (fractal
heap); undoing filters gives back what was written (filters); a parser stays in step with the
writer's fields (messages); values, strings and attributes are those stored (netCDF values);
names and numbers of dimensions are those of the conventions (netCDF model); the values of a
classic file are found where its header lays them out, by both handles (classic).

## 2. Modules

One module per part, an `MC` module with its instance for TLC, and a `Proofs` module where
there are theorems. Definitions called "Mutant" are deliberate errors: each is put in place
of the definition after it to confirm that a property notices.

| Module | Models | State and actions |
|---|---|---|
| `ByteReads` | what a positional reader promises | a request per reader, answered by the range's bytes or an error |
| `PageCache` | `IoCache::read`, `read_async`, `page`, `put_page`, `clear` (`hdf5/cache.rs`) | the shared pages and, per reader, the pages found, the run being fetched, the bytes assembled. One action per page looked up, run fetched, page stored, page assembled; other actions evict, clear and store pages |
| `Replay` | `replay`, `fetch`, `ReplaySource` (`hdf5/replay.rs`) and `AsyncHdf5File::walk` | shared pages; per driver the walk, its pages, the ranges wanted now and in the round before. A walk is a list of reads, each with the errors the parser swallows, and an end |
| `ChunkRead` | `read_chunked`, `prefetch_chunks`, the chunked arm of `read_hyperslab_async_with` (`hdf5/read.rs`), `ChunkCache` | decoded chunks in the cache; per reader the chunks missing, fetched and decoded, and the cells copied |
| `IoPlan` | `plan`, `scatter`, `Ctx::read_ranges`, `fetch_bytes` | the ranges still to be placed, the requests so far, where each range lies in them. Sums wrap at the address width |
| `Hyperslab` | `Hyperslab::validate`, `selection_is_covered`, `for_each_run`, `copy_chunk`, `chunks_of` (`hdf5/read.rs`) | the odometer and the output, one run a step; `Expected` defines by coordinates what the output should be |
| `ChunkWalk` | `DatasetIndex::chunks`, `prepare` (`hdf5/index.rs`), `read_chunk_index` (`hdf5/btree1.rs`) | the `OnceLock` and, per caller, a walk of any graph of nodes |
| `FileIndex` | `from_source_reusing`, `build_group`, `resolve_children`, `read_attributes`, `build_dataset` (`hdf5/index.rs`), object headers (`objheader.rs`), symbol tables, committed datatypes (`message/mod.rs`) | the calls of `build_group` as a stack of frames, the header being read as a stack of blocks, the index so far |
| `Results` | `Result`, `?` and reads of bytes a walk may lack (`hdf5/error.rs`, `context.rs`) | operators |
| `Btree2` | `BtreeV2::read`, `collect`, `NodeLayout::derive` (`hdf5/btree2.rs`) | operators over nodes by address |
| `FractalHeap` | `FractalHeap::read`, `get`, `walk_indexed`, `walk_lenient` (`hdf5/fractal.rs`), `read_dense_links`, `read_dense_attributes` (`hdf5/dense.rs`) | operators over blocks of cells |
| `ChunkIndexes` | `chunk_index::read` with every index it knows (`hdf5/chunk_index.rs`) | operators over array blocks and B-trees |
| `Filters` | `decode_chunk` and the filters it undoes (`hdf5/filters.rs`) | operators over bytes and, where a decompressor is external, tokens |
| `Grammar` | `Cursor` (`hdf5/cursor.rs`) | a body is a sequence of fields with widths; a parser is the list of items it reads |
| `Messages` | every `parse` of `hdf5/message/*`, both superblocks, symbol table entries, `detect_container` | operators that list the items |
| `Values` | `RawData::get`, `to_strings`, `resolve_vlen_*` (`hdf5/read.rs`), both heaps (`hdf5/heap.rs`), attribute values (`nc/netcdf.rs`), `FillValue::fill` | operators over bytes |
| `Extents` | `Extents::to_hyperslab`, `Hyperslab::from_ranges` | operators |
| `Formats` | one call of one of these decoders | the call and its answer. One action per decoder; its input comes with what the writer meant |
| `StorageWriter`, `MessageWriter`, `ValueWriter`, `MCFormats` | the instance: how a writer lays out heaps, indexes, filtered chunks, messages and values | definitions |
| `ClassicHeader` | `Header::parse` (`nc/classic.rs`) | the items of a header and what is made of them |
| `Classic` | `ClassicFile`, its netCDF view and `AsyncNetcdfFile` over it (`nc/classic.rs`, `netcdf.rs`, `async_netcdf.rs`) | the open handle, the task of an asynchronous call with its pages and rounds, the last answer. One action per call and per round |
| `NcDims` | `NcFile::from_hdf5` down to `PhonyDims::resolve` (`nc/netcdf.rs`), `datasets_recursive` (`hdf5/index.rs`) | groups still to be scanned, scales found, groups being built, the datasets of the current one by name, its dimensions, names of the current variable's axes. A stable sort is a relation: the permutations that order its input and keep ties |

`PageCache` is refined to `ByteReads` (`ImplementsByteReads`). The caches meet the engines
through what the caches may do: `Replay` and `ChunkRead` carry their own cache with the
actions of other readers, and `IoPlan` and `PageCache` are the two ways `Ctx::read_ranges`
may take. `FileIndex` gives the tree that `NcDims` starts from, and takes what dense storage
returns as given; `FractalHeap` over `Btree2` says what that is. `Classic` composes
`ClassicHeader`, `Messages` (for the way a header is parsed), `Values` and `Extents` with the
rounds of a replay.

The format modules describe the reader only. What a file should hold is said by the writers
of the instance, which lay structures out from the format and never look at the reader's
definitions: a property compares the two. A field is a width and a value, so that a parser
that takes a wrong width loses its place ("desync") as it does over bytes.

Abstractions that are shared by all: bytes and values are numbers that identify their place;
a structure of the file parses or it does not; wording of errors is left out, their kind is
kept where a caller tells kinds apart. `moka` is external: it may evict any entry at any
time, and never changes one.

## 3. Runs

| Run | What it asks | Instance, and why it is enough |
|---|---|---|
| `page_cache` | reads return the file's bytes, implement `ByteReads`, lose no page, fail only for a cause, and end | five bytes in pages of two, so the last page is short. One reader has requests that start, end and cross pages in every way, one that is empty and one that leaves the file; the other crosses the first two pages. Eviction, clearing and short pages stored from outside stand for any number of further readers |
| `replay` | the asynchronous result is the synchronous one when the source answers in full; every round earns a page; walks end | five bytes, three rounds, walks with swallowed errors, a batch, and a read outside the file. Other readers and walks are actions that store pages, short ones too |
| `chunk_read` | a success has every value, a failure of either engine has a cause or is one of three named departures, reads end | seven records of every kind, a cell named twice and one never written, both engines, with and without a cache; another reader inserts any chunk |
| `ioplan` | every range gets its bytes; the plan stays in the file | all lists of up to two of 20 ranges, and of three of six, in a file of six bytes with addresses below 16, so that overlaps, repetitions, empty ranges and wrapping sums all occur |
| `hyperslab` | values by coordinates with runs that are disjoint and in bounds (`CopiesAreExact`), failures have a cause but for one named departure, the listing tiles the dataset | ranks 0 to 3, every layout, indexes with a chunk twice, off the grid, between two cells of it, at the end of the address space or of size zero; all starts and counts up to 3. Every read of the run fits the address width (`Fits`) |
| `chunkwalk` | the index is whole, in order and with nothing twice, failures have a cause, calls end | two threads over six trees: plain with equal offsets in two leaves, cyclic with a shared leaf, damaged, with more nodes or more records than the limit, none |
| `fileindex` | an open lists exactly what hard links lead to, fails exactly for a cause, attributes and datatypes belong to their objects, opens end | 721 files in which blocks, nodes, links and datatypes lead forward, back, to each other and nowhere; every limit is small enough to be met and passed by one |
| `ncdims` | invented dimensions fit, are needed, are numbered apart, children first; empty axes stay apart | 1712 files of three shapes with two levels of groups |
| `formats` | what a decoder returns is what the writer stored, or an error where something is wrong or missing: dense links and attributes, chunk indexes, filters, messages and superblocks, values, selections | heaps of one to several blocks, of tables of width 2 and 4 with and without nested blocks, with gaps, deleted and unindexed records and name indexes of depth 0 to 2; arrays and trees in which any block is absent or damaged, of datasets that may grow along either axis; every subset of a pipeline masked, Blosc containers of one and several blocks, shuffled, split or plainly copied, of every codec number; each message version with its flags, and each cut short, with compounds of 200, 256, 511 and 512 bytes; numbers of one and two bytes in both orders, with values that fit the type asked for; selections whose bounds are all the values of a `usize` of 0 to 6, the wrapping ones included |
| `superblock` (violation) | every superblock fits in 96 bytes | version 1 with 8-byte addresses |
| `classic` | an open describes the file, reads return what its writer put at each index, failures have a cause, asynchronous calls end | files with no, one and several record variables, of all integer types and chars, scalars, headers longer than the first window and cut ones; records in more pages than there are rounds; pages of 16 bytes, six rounds, one page that cannot be read, two calls in a row (an open and a read) by either handle |
| `classic_async` (violation) | an asynchronous read serves every variable from the pages it holds | the same files, asynchronous only |

`fileindex` compares with a definition of the file's contents that knows no order and no
stack (`Objects`, `Rejected`). Its files are as damaged as they like where the open looks; where
it does not look they conform (`Conforms`, assumed of the instance as `FilesConform`): the root is
a group, an object has one message of a kind, and the links of a group have different names. So no
two leaves of a B-tree name the same symbol table node: such a file would list children twice.

Fairness. A reader, driver or caller that can take a step takes one: threads are scheduled,
and an executor polls a task that was woken. A source that was asked answers or fails, since
every read of `object_store` and of the operating system returns. Nothing is assumed of
evictions, of other readers, of cancellation or of new calls. Under this, reads, walks, calls
and opens end. Deadlock is checked except in `fileindex` and `ncdims`, where an open that is
over does nothing more, and in `classic`, where the bound on calls is reached.

A property may join two that are about one question: `EntriesAreOwn` of `FileIndex` is about
attributes, about the flag that says whether they are all there and about datatypes;
`InventedServe` and `NumbersFollowTheWalk` of `NcDims` and `CopiesAreExact` of `Hyperslab` name
their parts in the same way.

Departures. Where the code does something else than its documentation or the file format says, the
instance has the case, and the property names it by an operator of its own (`TakesDeleted`,
`WrappedEnd` and so on, each with the lines that disagree) and says what holds of everything else.
Without the operator the run fails. A departure is not what a reader should rely on; section 5 lists
all of them.

## 4. Proofs

TLAPS proves these for every value of the constants: every file, page size, set of readers,
drivers and callers, list of ranges, address width, rank, shape, chunk index, selection, walk,
graph of nodes, HDF5 file with its limits, and set of netCDF files. The assumptions are those
named in the modules (positive page size, requests that are pairs of naturals, a finite file and
so on); TLC evaluates each of them on its instance. Each rests on an inductive invariant of its
module (`IInv`, and for `FileIndex` `ReadInv` and `WalkInv`); as far as TLC can evaluate it, it
was checked on the instance of the run before it was proved.

**`PageCacheProofs`**: `TypeCorrect`, `PagesCorrect`, `ReadsCorrect`, `NoPageLost`,
`FailuresExplained`, `Refinement`. The invariant `IInv` adds to the types and to
`PagesAreFileBytes` what each reader knows at its step: the run being fetched lies in its range,
every page of the range before the current run is held by the reader itself (so that an eviction
cannot hurt it), and the bytes assembled are a prefix of the range. Without the second,
`NeverLosesPage` is not inductive; without the third, `ReadsExact` is not. `Refinement` proves
`ImplementsByteReads`: the actions that start, end and drop a read are those of `ByteReads`, every
other step of a reader and every eviction, clear and page stored from outside is a stutter, and
the step that answers maps to an answer of the abstract reader because `IInv` says that the bytes
assembled are those of the range.

**`IoPlanProofs`**: `TypeCorrect`, `ScatterIsExact`, `PlanStaysInFile`, `MergedAndOrdered`. `IInv`
says that ranges are placed in the order of their offsets and that a range that was placed lies in
its request at its place (`IsPlaced`), which merging must preserve for all earlier ranges when a
request grows.

**`ChunkReadProofs`**: `TypeCorrect`, `ValuesProved` (`ValuesCorrect`), `FailuresExplained`
(`FailureHasCause`). The invariant of a reader mentions its own variables and never the shared
cache, so that no other reader and no eviction can disturb it; all that is known of the cache is
that it holds decoded chunks. `OutInv` says what the output holds when the records before the
current one are copied (the last of several records of one cell wins), which gives the values.
`WantedInv` (a record needed is in the batch unless the cache reported it or the index has no size
for it) and `FetchedInv` (what the batch holds and the selection needs is decoded) are what makes
the copy of the asynchronous engine fail only for a chunk that was seen before the await
(`LostToEviction`) or has no size (`UnwrittenIsFatal`). `CauseInv` carries the cause of a failure,
of the source, of the decoder or of the copy, from the step that met it to the end.

**`ReplayProofs`**: `TypeCorrect`, `ValuesSynchronous`, `FailuresSynchronous`, `RoundsBounded`.
Until the source answers short, every page held is whole (`PagesWhole`). `ParseInv` compares a run
of the parser with the synchronous one, read by read: it went past a read as the synchronous walk
does, unless it recorded a missing page (`MissingInv`), and then the driver does not accept the
value. `WantedInv` is the argument for progress: what the last round lacked is wanted by this one
and held before the parser starts, so the next round lacks something else; hence no walk is given
up for asking for no new bytes, and the rounds are bounded by the pages held.

**`ChunkWalkProofs`**: `TypeCorrect`, `IndexWhole`, `FailuresExplained`. `IInv` is the invariant
of a graph search: the children of a visited node are visited or on the stack, and the list put
out has each record of each leaf visited once (`Pushed`): a leaf is put out when it is visited for
the first time, and the sort that follows neither loses nor repeats anything. When the stack is
empty, the visited nodes are closed under children and contain the root, so they contain
everything reachable. That a walk refused as too large met a file as large as the limit needs
cardinalities: the nodes visited are among the reachable ones, the records put out among those of
the index. This is where the nodes and records have to be finite (`FiniteAssumption`).

**`NcDimsProofs`**: `TypeCorrect`, `InventedNeeded`, `NumbersOrdered`, `InventedServes`, for every
set of files whose groups form a tree. The conjuncts of the invariant:

* `WalkInv`: no group is entered twice, and the children a group has begun with are built, except
  the one being built. It is why a group that is built gets no more variables and why the numbers
  of children come before those of their parents; it rests on the groups having one parent each,
  as `GroupIndex` owns its children.
* `PhaseInv`, `DimsInv`, `AxesInv`: every variable belongs to a built group or to the current one;
  invented dimensions are marked by their names, and empty ones grow; the axes named so far have a
  dimension that serves them. The sort at the end of a group loses and repeats nothing
  (`SortKeeps`), so what was shown of the current group's dimensions holds of the reported ones.
* `NeededInv`: two dimensions of one length and growth, the later invented, are both on the axes
  of one variable, or of the one being built: the variable for which the later one was invented
  already had the earlier one.
* `NumbersInv` and `ApartInv`: every number handed out or recorded is below the counter, so the
  next one is new, and a name invented for an empty axis is of a number nobody had.

`NumbersOrdered` and `InventedServes` are proved for the behaviours in which the counter stays
below `i64::MAX` (`Spec /\ []CounterFits => ...`). The condition is needed: a file may record
`_Netcdf4Dimid = i64::MAX`, the scan then leaves the counter there (`saturating_add`), and the
first invented number is that of a dimension of the file, the next one wraps (section 5). The files
of the run stay far from the end, so the run checks the properties without the condition.
`InventedNeeded` and the first half of `InventedServe` (`InventedFits`, a conjunct of `IInv`) hold
without it.

**`FileIndexProofs`**: `EntriesAreTheirOwn` (`EntriesAreOwn`), `TheIndexIsWhole`
(`IndexIsWhole`), `TheOutcomeIsRight` (`OutcomeIsRight`). The first holds of every file whose
objects have one message of a kind (`OneOfEach`), the others of every file that conforms where the
open does not look (`Conforms`, section 3); nothing is assumed of blocks, nodes, addresses, cycles
or lengths. The argument has three layers:

* Operators. `Keep`, `FlattenSeq`, `Reach`, `Objects` and `TypeChain` are recursive functions;
  their values are shown to satisfy their equations (`Recursion`), and what they compute is shown
  by taking the least number at which a fact fails (`LeastNat`, `UpTo`), which needs no induction
  theorem with an operator for a parameter.
* Searches. `Search` is the invariant of a stack of places still to visit, for header blocks
  (`Reading`) and B-tree nodes (`Walking`) alike: what is visited or stacked is what is named by a
  visited place. A place met again is one that two places name (`Again`, `Twice`), which is how a
  block read twice is tied to `NamedTwice`, and a limit passed to a cardinality. `ReadInv` adds
  that the messages so far are those of the blocks read, and that frames and entries have the
  attributes of their own header.
* The walk. `Walked` says where the depth-first walk is: the frames are a path of groups from the
  root (`Stacked`); what is listed exists and is sound (`Sorted`); every child of a listed or opened
  group is listed, still to come, on the stack, or a sound committed datatype (`IndexCovered`,
  `FramesCovered`); the groups entered are those listed and stacked, once each (`Once`); no path is
  listed twice or will be (`PathsOnce`, `FramesNew`, `ChildrenNew`, `Rooted`). When the stack is
  empty the list is closed under children and holds the root, so it is `Objects`, level by level.
  `Once` is what turns a group that may not be entered into two paths to it.

**`HyperslabProofs`**: `ReadsAreExact` (`CopiesAreExact`), `FailuresHaveCauses`
(`FailureHasCause`), `TheListingTiles` (`ListingTiles`), for every rank.

* Numbers. `Row` is the row-major number of a coordinate over its first n axes and `Times` the
  product of the dimensions. `RowBound` and `RowUnique` make it a bijection onto 0 .. product - 1,
  `RowSplit` takes it apart at an axis, and `TurnFacts` says that a turn of the odometer adds one to
  it. `CountExact`, `StridesAre` and `DotIs` show that the saturating counts, wrapping strides
  and wrapping sums of the code are these numbers as long as the product is below the width.
* Loops. `DenseAt` and `CopyAt` tie the turns left to the odometer's row number, and what the output
  holds to the rows behind it; between two chunks `NextAt` says which record shows at an element:
  the last one copied that holds it. `TodoInv` keeps the records to come in order and after those
  copied. The output was made of zeros instead of the fill value only if every element selected is
  in some chunk (`Covers`, from `chunks_cover` by `CoverFacts`), so no zero is left at the end.
* The listing. A chunk of a whole index that holds a coordinate is on its cell of the grid
  (`GridUnique`), and the index has one record for each cell.

`ReadsAreExact` and `FailuresHaveCauses` have `Fits` as a condition: the elements selected, those of
a dataset that is not chunked and those of one chunk are fewer than the largest `u64`. A selection or
a chunk beyond that cannot be held in memory; the shape of a contiguous dataset is not looked at,
and the strides of one beyond it wrap (section 5). `TheListingTiles` has no
condition, and its first half, that every selection listed is one a read accepts, holds for every
index.

`TypeCorrect` and `MergedAndOrdered` state `TypeOK` and `MergedIsBounded` of their modules, which
no run checks separately.

Only model-checked:

* liveness (`ReadsEnd`, `WalksEnd`, `CallsEnd`, `OpensEnd` and the like), which is out of the
  prover's reach;
* the format modules and `Classic`. They decode nested data by `RECURSIVE` operators (types within
  types, blocks within blocks), which leave the prover without its SMT backend, and what they are
  compared with is an instance: the writers lay out particular structures, so there is no statement
  for every value of a constant.

## 5. Findings

The two violation runs show disagreements between the code and its own documentation.

* A version 1 superblock with 8-byte addresses is 100 bytes long; the reader takes 96 and
  refuses the file (`hdf5/superblock.rs:86`; the comment at 83 says every variant fits).
* An asynchronous read of a fixed variable of a classic file is served from the pages of the
  open instead of its own, and fails when they are not among them (`nc/classic.rs:373`; the
  comment at 309 says where the bytes come from). `FailureHasCause` of the passing run names the case
  (`BeyondTheOpen`), and demands an answer for every selection inside those pages.

Further observations made while modelling. They are in the models. Where one makes a property
fail, its departure is named in brackets: the property excludes just that case.

Asynchronous reads and caches:

* A read over the pages of a walk may return wrong bytes after a short answer of the source:
  the copy of the next page starts where the short one ended (`hdf5/replay.rs:145`;
  `hdf5/async_hdf5.rs:130` says never). `ValueIsSynchronous` is about full answers.
* The number of rounds is the number of scattered objects and not the depth of dependent reads
  (`hdf5/replay.rs:24`), since a walk stops at the first read that it lacks: a valid file with
  more than 64 of them cannot be opened asynchronously, nor can a record variable be read whose
  runs lie in 64 pages or more (`TooManyRounds` of `Classic`; `RoundsEarnPages` of `Replay` is about
  rounds and pages, not about the depth of reads).
* An asynchronous read may fail because a chunk was evicted while it waited
  (`hdf5/read.rs:1131`, `1175`; `hdf5/async_hdf5.rs:77` says reads need no
  coordination; `LostToEviction`).
* A classic file never uses the page cache of the driver: `walk_bytes` finds none
  (`nc/async_netcdf.rs:189`; the comment at 454 says it does).

Reads:

* A chunk record of size zero is "never written" to the coverage test and to the prefetch but
  fails the copy in both engines (`hdf5/read.rs:347`, `928`; 667 says that it reads as its fill value;
  `UnwrittenIsFatal` of `ChunkRead` and of `Hyperslab`).
* A read-ahead chunk beyond the end of a truncated file fails the read that does not need it
  (`hdf5/read.rs:442`, `1145`; the comment at 1158 says that it is not fatal; `AheadIsFatal`).
* The strides of a contiguous dataset of 2^64 elements or more wrap (`hdf5/read.rs:730`), and a read
  of a few elements of such a damaged shape is served from other places than their own; the theorems
  have `Fits` as a condition for this reason.
* `chunks_of` lists a chunk that lies between the cells of the grid like any other
  (`hdf5/read.rs:1609`): over such an index the listing visits elements twice. `IsWhole`, the
  condition of `ListingTiles`, excludes it; the proof showed that one record on every cell alone is
  not enough.
* `IoConfig::NONE` still merges ranges that touch (`hdf5/io.rs:52`, `117`).
* The end of an inclusive range wraps at `usize::MAX` in a release build (`nc/extent.rs:180`-188):
  `..=usize::MAX` is an empty selection and no error, `i..=usize::MAX` with a positive i is refused
  (`WrappedEnd`). A debug build panics, which the model leaves out.

File index and dense storage:

* `attributes_complete` is true although inline attributes were skipped (`hdf5/index.rs:627`;
  `hdf5/index.rs:207` says every attribute was found; `SkippedInline`). A short dense part is
  reported.
* A group with two hard links is rejected as a cycle (`hdf5/index.rs:563`).
* `child_rows` (`hdf5/fractal.rs:527`) is right only when the table width is
  2^(max_direct_rows - 1), which the netCDF library's default (width 4, blocks of 512 bytes to 64 KiB)
  is not; a heap of another shape with nested indirect blocks is misread or refused (the comment at
  520 says that they cover the rows their size implies; `MisSizedChild`).
* Records deleted from a heap stay in it and are walked like the others, until the count is
  reached: a list may hold a deleted record (`TakesDeleted`), and a walk that ends on the count may
  hold one in place of a live one (`CountsDeleted`). The doc at `hdf5/fractal.rs:16`-19 says that
  free space fails loudly.
* An error of the name index itself is an error of the whole list of attributes, and only an
  error of a record behind it is turned into a short list (`hdf5/dense.rs:59`).
  Reading records needs no further bytes, so the branch for an incomplete read
  (`hdf5/dense.rs:87`) is never taken; `MissingIsNotData` checks that none is needed.
* The limit on the nodes of a group B-tree is looked at before a node that was read is passed over
  (`hdf5/btree1.rs:102`): a tree of just as many nodes as may be is accepted or refused by where it
  names one of them twice. `OutcomeIsRight` leaves this open; the proof found it.
* Inner nodes of a group B-tree are popped from a stack, so the later children come first.

Formats:

* `compound_offset_width` (`hdf5/message/datatype.rs:474`) gives one byte for compound types of
  256 to 511 bytes, whose offsets have two: the format's width is floor(log2(size)) / 8 + 1, and the
  doc at 354 says as wide as the size needs (`NarrowOffsets`).
* The chunks of a fixed, an implicit or an extensible array are numbered over the maximum shape of
  the dataset, an extensible one with its unlimited axis first; the reader numbers them over the
  current shape (`hdf5/index.rs:301`-306). Where an axis other than the first may still grow, chunks
  are read in each other's places without an error (`NumberedOtherwise`).
* An extensible array is read with two super blocks and the data block pointers they need; a
  larger one is refused, never cut short.
* Blosc containers (`hdf5/filters.rs:126`): the shuffle of each block is undone over the whole chunk
  (204-210; `ShuffledBlocks`); bits of elements that do not come in eights are moved although the
  writer left them (`LooseElements`); the flag of a plain copy is not looked at (`PlainCopy`); of a
  block in several streams the first is read (`SplitBlock`); zlib and zstd have the numbers 4 and 5
  where the format has 3 and 4 (100-113, and the tests of the repository; `OtherNumber`).
* A variable-length element without an address is an error even when it is empty
  (`hdf5/heap.rs:191`).
* CDF-5, listed as untested in the repository's README, has its record count read as four bytes
  (`nc/classic.rs:527`; `NarrowCount`): such a file does not open.

netCDF dimensions:

* An axis without a name may take the dimension that a later axis of the same variable has by
  reference, since only earlier axes are excluded (`nc/netcdf.rs:656`).
* A number handed out to a scale may be recorded by a later one; which of the two
  `_Netcdf4Coordinates` means then depends on the order of a hash map (`nc/netcdf.rs:884`).
* A scale that records the largest number leaves no free one: the counter saturates there
  (`nc/netcdf.rs:584`), the first number invented is the scale's own, although 648 says that an
  invented number never collides with one the file uses, and the second wraps in a release build.
  The theorems about numbers have `CounterFits` as a condition for this reason.
* An invented name may be the name of a dimension of the file (`nc/netcdf.rs:675`).

## 6. Not modelled

* Numeric kernels: checksums (right or wrong here), decompressors of other crates (external),
  floating-point conversions (kept as bytes).
* The calls to the operating system and to `object_store`, of which only the outcome appears.
* `ndarray` results, compound attribute values, formatting and statistics: conversions without
  state.
* Far matches of blosclz, and heaps with a block size near 2^63, which no small instance reaches.
* The order in which a group lists its children, which the repository promises for one symbol
  table node only.

## 7. Plan

Done: `PageCache` with `ByteReads`, `Replay`, `ChunkRead`, `IoPlan`, `Hyperslab`, `ChunkWalk`,
`FileIndex`, `NcDims`, the formats and the classic container; proofs for the first eight, with the
refinement of `ByteReads`. Every safety property of their runs is a theorem.

Left:

1. `FileIndex` over `FractalHeap`, in place of dense storage that is given.
2. The decoders of `Values`, `Extents` and `Filters` that need no `RECURSIVE` operator, stated for
   every input rather than for what the writers of the instance lay out.
3. The values of floating-point and compound attributes.
