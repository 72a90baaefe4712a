------------------------------- MODULE Classic -------------------------------
(***************************************************************************)
(* Classic netCDF files, from the file to the values of a call: the open   *)
(* and its window (classic.rs), the netCDF view of the header (netcdf.rs), *)
(* reads of fixed and record variables, and the asynchronous handle, which *)
(* runs the same code over pages it fetches round by round                 *)
(* (async_netcdf.rs, replay.rs; the driver itself is module Replay).       *)
(*                                                                         *)
(* A file has its header as fields and the byte at offset o is o % 256.    *)
(***************************************************************************)
EXTENDS Messages, Values, Extents, FiniteSets

CONSTANTS
  Files,        \* the files; see MCClassic
  Calls(_),     \* the calls on a file's variables
  Modes,        \* subset of {"sync", "async"}
  FirstWindow,  \* 1 << 16 in from_source
  PageSize,     \* request_size
  Prefetch,     \* prefetch_bytes of the open
  MaxRounds,    \* MAX_ROUNDS of replay.rs
  MaxCalls,     \* bound: calls of one behaviour
  FillName      \* the name "_FillValue"

VARIABLES file, mode, handle, task, out, calls

vars == <<file, mode, handle, task, out, calls>>

Idle == [op |-> "idle"]
NoHandle == [open |-> FALSE]
OpenCall == [op |-> "open"]
None == [call |-> OpenCall, r |-> Ok(<<>>), bad |-> {}]

LastPage == (file.size - 1) \div PageSize
PagesOf(o, len) == (o \div PageSize)..((o + len - 1) \div PageSize)
ByteAt(o) == o % 256

-----------------------------------------------------------------------------
(* A source is the file, with the pages that cannot be read, or the pages  *)
(* a walk holds.                                                           *)
OnFile(bad) == [held |-> FALSE, bad |-> bad]
OnPages(pages) == [held |-> TRUE, pages |-> pages]

\* read_vec
ReadVec(src, o, len) ==
  LET missing == IF src.held THEN PagesOf(o, len) \ src.pages ELSE {} IN
  IF len = 0 /\ src.held THEN Ok(<<>>)
  ELSE Check(o + len <= file.size, "bounds",
       IF missing # {} THEN Err("incomplete") @@ [missing |-> missing]
       ELSE Check(src.held \/ len = 0 \/ PagesOf(o, len) \cap src.bad = {}, "io",
                  Ok([i \in 1..len |-> ByteAt(o + i - 1)])))

ClassicCtx(magic) ==
  [length |-> IF magic = "cdf5" THEN 8 ELSE 4, offset |-> IF magic = "cdf1" THEN 4 ELSE 8,
   version |-> 0, size |-> 0, framed |-> TRUE]

RECURSIVE FromWindow(_, _)

\* Mutant: the header is parsed from the first window only.
FromWindowOnce(src, window) ==
  Then(ReadVec(src, 0, window), LAMBDA bytes :
    LET h == ParseMessage("classic", ClassicCtx(file.magic), Cut(file.body, window))
    IN Then(h, LAMBDA r : Ok(HeaderOf(r.v))))

\* The loop of from_source: a header longer than the window is read again from
\* one four times as long.
FromWindow(src, window) ==
  Then(ReadVec(src, 0, window), LAMBDA bytes :
    LET h == ParseMessage("classic", ClassicCtx(file.magic), Cut(file.body, window))
    IN IF ~h.ok /\ h.e = "bounds" /\ window < file.size
       THEN FromWindow(src, Below(window * 4, file.size))
       ELSE Then(h, LAMBDA r : Ok(HeaderOf(r.v))))

\* ClassicFile::from_source
FromSource(src) ==
  Then(ReadVec(src, 0, 4), LAMBDA magic :
    Check(file.magic \in {"cdf1", "cdf2", "cdf5"}, "malformed",
          FromWindow(src, Below(file.size, FirstWindow))))

classic_attributes(attributes) ==
  [k \in DOMAIN attributes |->
     LET a == attributes[k] IN
     [name |-> a.name,
      value |-> decode_value([type |-> ToDatatype(a.type), count |-> Len(a.raw) \div TypeSize(a.type),
                              data |-> a.raw], [at |-> <<>>, absent |-> {}], <<>>)]]

\* from_classic: a variable named as its only dimension is a coordinate.
FromClassic(h) ==
  [dimensions |-> [k \in DOMAIN h.dimensions |->
     h.dimensions[k] @@ [has_coordinate_variable |->
       \E v \in ToSet(h.variables) : v.name = h.dimensions[k].name]],
   variables |-> [k \in DOMAIN h.variables |->
     LET v == h.variables[k] IN
     [name |-> v.name, shape |-> v.shape, attributes |-> classic_attributes(v.attributes),
      is_coordinate |-> Len(v.dims) = 1 /\ h.dimensions[v.dims[1] + 1].name = v.name]],
   attributes |-> classic_attributes(h.attributes)]

\* from_byte_source: the container is told from the first eight bytes.
Open(src) ==
  Then(IF file.size >= 8 THEN ReadVec(src, 0, 8) ELSE Ok(<<>>), LAMBDA magic :
    Then(detect_container([size |-> file.size, magic |-> 0 :> file.magic]), LAMBDA container :
      FromSource(src)))

-----------------------------------------------------------------------------
row_major_strides(shape) == [k \in DOMAIN shape |-> Product(SubSeq(shape, k + 1, Len(shape)))]

\* The indexes a loop over an odometer visits, the last axis fastest.
Odometer(counts) ==
  FoldLeft(LAMBDA all, n : FlattenSeq([i \in DOMAIN all |-> [j \in 1..n |-> Append(all[i], j - 1)]]),
           << <<>> >>, counts)

Dot(s, t) == FoldLeft(LAMBDA sum, k : sum + s[k] * t[k], 0, Span(Len(s)))

\* Byte runs of read_fixed_variable: where each begins in the file, how long it
\* is, and where it goes in the result.
FixedRuns(v, slab) ==
  LET rank == Len(v.shape)
      size == TypeSize(v.type)
      outer == IF rank = 0 THEN << <<>> >> ELSE Odometer(Front(slab.count))
      start(index) == [k \in 1..rank |-> slab.start[k] + (IF k < rank THEN index[k] ELSE 0)]
      run == IF rank = 0 THEN 1 ELSE slab.count[rank]
  IN [k \in DOMAIN outer |->
        [at |-> v.begin + Dot(start(outer[k]), row_major_strides(v.shape)) * size, len |-> run * size,
         to |-> Dot(outer[k], row_major_strides(slab.count)) * size]]

\* Mutant: the runs of every record go where those of the first do.
RecordRunsAtFirst(v, slab, stride) ==
  LET inner == FixedRuns([v EXCEPT !.shape = Tail(@)],
                         [start |-> Tail(slab.start), count |-> Tail(slab.count)])
  IN FlattenSeq([r \in 1..slab.count[1] |->
       [k \in DOMAIN inner |-> [inner[k] EXCEPT !.at = @ + (slab.start[1] + r - 1) * stride]]])

\* Byte runs of read_record_variable: those of one record, then of the next,
\* which begins one stride later.
RecordRuns(v, slab, stride) ==
  LET inner == FixedRuns([v EXCEPT !.shape = Tail(@)],
                         [start |-> Tail(slab.start), count |-> Tail(slab.count)])
  IN FlattenSeq([r \in 1..slab.count[1] |->
       [k \in DOMAIN inner |->
          [inner[k] EXCEPT !.at = @ + (slab.start[1] + r - 1) * stride,
                           !.to = @ + (r - 1) * row_major_strides(slab.count)[1] * TypeSize(v.type)]]])

\* copy_from_slice into result[to..to + Len(bytes)], which panics outside it.
CopyTo(result, to, bytes) ==
  Check(to + Len(bytes) <= Len(result), "panic",
        Ok(SubSeq(result, 1, to) \o bytes \o SubSeq(result, to + Len(bytes) + 1, Len(result))))

\* The loops over the runs, each copied to its place in a result of zeros.
ReadRuns(src, runs, total) ==
  Loop(LAMBDA result, run : Then(ReadVec(src, run.at, run.len), LAMBDA bytes : CopyTo(result, run.to, bytes)),
       [i \in 1..total |-> 0], runs)

\* The source the file was opened over.  An asynchronous open ran over pages of
\* its own; a page that is missing there is noted there.
OwnSource(src, h) == IF src.held THEN OnPages(h.pages) ELSE src
NotedElsewhere(r) == IF r.ok \/ r.e # "incomplete" THEN r ELSE [r EXCEPT !.missing = {}]

\* read_selection_with.  A fixed variable of one dimension or more is read from
\* the file's own source, a scalar and a record variable from src.
ReadSelectionWith(src, h, v, slab) ==
  Then(validate(slab.start, slab.count, v.shape), LAMBDA valid :
    LET total == Product(slab.count) * TypeSize(v.type) IN
    Then(IF v.is_record THEN ReadRuns(src, RecordRuns(v, slab, h.record_stride), total)
         ELSE IF v.shape = <<>> THEN ReadRuns(src, FixedRuns(v, slab), total)
         ELSE NotedElsewhere(ReadRuns(OwnSource(src, h), FixedRuns(v, slab), total)),
         LAMBDA bytes : Ok(ReverseEach(bytes, TypeSize(v.type)))))

\* decode_numbers, for the integer types and chars.
decode_numbers(bytes, code) ==
  MapAll(LAMBDA b : read_integer(b, code \in {1, 3, 4, 10}), ElementsOf(bytes, TypeSize(code)))

\* ClassicFile::read_strings: a string for each row of the last axis.
Rows(bytes, shape) ==
  LET width == IF shape = <<>> THEN 1 ELSE Last(shape)
  IN [k \in DOMAIN ElementsOf(bytes, width) |-> Unpad(ElementsOf(bytes, width)[k], "space")]

\* What each method makes of the bytes it read.  An answer is a sequence of
\* strings, and a number a string of one.
Each(values) == [k \in DOMAIN values |-> <<values[k]>>]
Convert(call, v, bytes) ==
  LET numbers == get_of(bytes, ToDatatype(v.type), call.as) IN
  CASE call.op = "raw" -> Ok(Each(bytes))
    [] call.op = "values" -> Then(numbers, LAMBDA vs : Ok(Each(vs)))
    [] call.op = "value" -> Then(numbers, LAMBDA vs : Then(one_value(vs), LAMBDA x : Ok(Each(<<x>>))))
    [] call.op = "strings" -> to_strings_of(bytes, ToDatatype(v.type))
    [] call.op = "rows" -> Ok(Rows(bytes, v.shape))
    [] call.op = "numbers" -> Then(decode_numbers(bytes, v.type), LAMBDA vs : Ok(Each(vs)))

\* Variable::read_selection and AsyncVariable::read_classic_selection inside a
\* get_* method, and the two methods of ClassicFile.
ReadCall(src, h, call) ==
  LET v == h.header.variables[call.var] IN
  Check(call.op = "rows" => v.type = Char, "unsupported",
  Then(ReadSelectionWith(src, h, v, to_hyperslab(call.request, v.shape).v), LAMBDA bytes :
    Convert(call, v, bytes)))

\* fill_value
FillValue(h, call) ==
  LET named == SelectSeq(h.nc.variables[call.var].attributes, LAMBDA a : a.name = FillName)
  IN IF named = <<>> THEN <<>> ELSE scalar_from_attribute(named[1].value, call.as)

-----------------------------------------------------------------------------
Init ==
  /\ file \in Files
  /\ mode \in Modes
  /\ handle = NoHandle
  /\ task = Idle
  /\ out = None
  /\ calls = 0

\* The answer of a call, with the fault when it failed.
Answer(call, r, bad) == out' = [call |-> call, r |-> r, bad |-> IF r.ok THEN {} ELSE bad]

Opened(header, pages) ==
  [open |-> TRUE, header |-> header, nc |-> FromClassic(header), pages |-> pages,
   record_stride |-> header.record_stride]

\* A fault of the source: at most one page that cannot be read.
Faults == {{}} \cup {{p} : p \in 0..LastPage}

\* A call whose selection does not fit the variable ends before it reads.
Refused(call) ==
  call.op \notin {"open", "fill"}
  /\ ~to_hyperslab(call.request, handle.header.variables[call.var].shape).ok

\* NetcdfFile::open
SyncOpen ==
  /\ mode = "sync" /\ ~handle.open /\ calls < MaxCalls
  /\ \E bad \in Faults : \E r \in {Open(OnFile(bad))} :
       /\ handle' = IF r.ok THEN Opened(r.v, {}) ELSE handle
       /\ Answer(OpenCall, IF r.ok THEN Ok(<<>>) ELSE r, bad)
  /\ calls' = calls + 1
  /\ UNCHANGED <<file, mode, task>>

\* Variable::get_values and its siblings.
SyncRead ==
  /\ mode = "sync" /\ handle.open /\ calls < MaxCalls
  /\ \E call \in Calls(file), bad \in Faults :
       /\ call.op # "fill" /\ ~Refused(call)
       /\ \E r \in {ReadCall(OnFile(bad), handle, call)} : Answer(call, r, bad)
  /\ calls' = calls + 1
  /\ UNCHANGED <<file, mode, handle, task>>

\* Calls that read nothing, of both handles.
AnswerAtOnce ==
  /\ handle.open /\ task = Idle /\ calls < MaxCalls
  /\ \E call \in Calls(file) :
       \/ call.op = "fill" /\ Answer(call, Ok(Each(FillValue(handle, call))), {})
       \/ Refused(call) /\ Answer(call, Err("request"), {})
  /\ calls' = calls + 1
  /\ UNCHANGED <<file, mode, handle, task>>

\* replay: start with a window at the front of the file.
Replay(call, prefetch) ==
  LET pages == (prefetch + PageSize - 1) \div PageSize IN
  [op |-> "walk", call |-> call, pages |-> {}, previous |-> {}, round |-> 0,
   wanted |-> 0..(Below(IF pages = 0 THEN 1 ELSE pages, LastPage + 1) - 1)]

\* AsyncNetcdfFile::open_with
AsyncOpen ==
  /\ mode = "async" /\ ~handle.open /\ task = Idle /\ calls < MaxCalls
  /\ task' = Replay(OpenCall, Prefetch)
  /\ calls' = calls + 1
  /\ UNCHANGED <<file, mode, handle, out>>

\* walk_bytes, for the get_* methods of AsyncVariable.
AsyncRead ==
  /\ mode = "async" /\ handle.open /\ task = Idle /\ calls < MaxCalls
  /\ \E call \in Calls(file) :
       call.op \notin {"fill", "rows", "numbers"} /\ ~Refused(call) /\ task' = Replay(call, PageSize)
  /\ calls' = calls + 1
  /\ UNCHANGED <<file, mode, handle, out>>

\* Mutant: another round over the same pages.
NextRoundSame(t, missing) == t

\* Another round, for the pages this one lacked.
NextRound(t, missing) ==
  [t EXCEPT !.wanted = missing, !.previous = missing, !.round = @ + 1]

\* Incomplete, and more to ask for than in the last round.
Continue(t, r) ==
  ~r.ok /\ r.e = "incomplete" /\ r.missing \notin {{}, t.previous} /\ t.round + 1 < MaxRounds

Finish(t, r, bad) ==
  /\ task' = Idle
  /\ handle' = IF r.ok /\ t.call = OpenCall THEN Opened(r.v, t.pages) ELSE handle
  /\ Answer(t.call, IF ~r.ok THEN IF r.e = "incomplete" THEN Err("malformed") ELSE r
                    ELSE IF t.call = OpenCall THEN Ok(<<>>) ELSE r, bad)

Fetched(t) == [t EXCEPT !.pages = @ \cup t.wanted]
Walked(t) ==
  IF t.call = OpenCall THEN Open(OnPages(t.pages)) ELSE ReadCall(OnPages(t.pages), handle, t.call)

\* One round of replay: fetch what is wanted, then run the walk over it.
Round ==
  /\ task.op = "walk"
  /\ \/ \E bad \in Faults :
          /\ (task.wanted \ task.pages) \cap bad # {}
          /\ Finish(task, Err("io"), bad)
     \/ \E t \in {Fetched(task)} : \E r \in {Walked(t)} :
          IF Continue(t, r) THEN task' = NextRound(t, r.missing) /\ UNCHANGED <<handle, out>>
          ELSE Finish(t, r, {})
  /\ UNCHANGED <<file, mode, calls>>

Next == SyncOpen \/ SyncRead \/ AnswerAtOnce \/ AsyncOpen \/ AsyncRead \/ Round

Spec == Init /\ [][Next]_vars /\ WF_vars(Round)

-----------------------------------------------------------------------------
Answered == calls > 0 /\ task = Idle /\ out.r.ok
IsRead == out.call.op \notin {"open", "fill"}

\* An open file is described as its writer described it: the dimensions with
\* the record count in place of the stored zero, the variables, their
\* coordinates and the values of the attributes, however often the window of
\* from_source grew and whatever rounds it took.
HeaderIsWhole ==
  handle.open =>
    /\ handle.nc = file.meant
    /\ Answered /\ out.call.op = "fill" => out.r.v = Each(out.call.want)

\* The elements a call asks for, in row-major order.
Picked(call) ==
  FoldLeft(LAMBDA all, s : FlattenSeq([i \in DOMAIN all |-> [j \in DOMAIN s |-> Append(all[i], s[j])]]),
           << <<>> >>, call.picks)

\* A value at offset o, whose most significant byte comes first.
Stored(o, type) ==
  LET u == FoldLeft(LAMBDA s, i : s * 256 + ByteAt(o + i - 1), 0, Span(type.size))
  IN IF type.signed /\ 2 * u >= 256^type.size THEN u - 256^type.size ELSE u

\* Every value a read returns is the one the writer put at that index, be it
\* one run of a fixed variable or one element in each record, with the records
\* of other variables between them.
ValuesAreLaidOut ==
  Answered /\ IsRead =>
    LET call == out.call
        at(index) == file.at[call.var][index]
        type == file.types[call.var]
        n == TypeSize(type)
        indexes == Picked(call)
    IN CASE call.op = "raw" ->
              out.r.v = FlattenSeq([k \in DOMAIN indexes |->
                          [i \in 1..n |-> <<ByteAt(at(indexes[k]) + n - i)>>]])
         [] call.op \in {"values", "value", "numbers"} ->
              out.r.v = [k \in DOMAIN indexes |->
                          <<Stored(at(indexes[k]), [size |-> n, signed |-> type \in {1, 3, 4, 10}])>>]
         [] call.op = "strings" -> out.r.v = [k \in DOMAIN indexes |-> <<ByteAt(at(indexes[k]))>>]
         [] call.op = "rows" ->
              FlattenSeq(out.r.v) = [k \in DOMAIN indexes |-> ByteAt(at(indexes[k]))]

HasCause(o) ==
  \/ ~file.sound
  \/ o.bad # {}
  \/ o.call.op # "open" /\ ~o.call.legal

\* The pages that hold what a call selects.
SelectedPages(call) ==
  LET indexes == Picked(call) IN
  UNION {PagesOf(file.at[call.var][indexes[k]], TypeSize(file.types[call.var])) : k \in DOMAIN indexes}

AsyncRecord(o) == mode = "async" /\ o.call.op # "open" /\ file.records[o.call.var]
AsyncFixed(o) ==
  mode = "async" /\ o.call.op # "open" /\ ~file.records[o.call.var] /\ file.shapes[o.call.var] # <<>>

\* Departures: calls that fail although file, source and request are sound.
\* MAX_ROUNDS is there to "stop a damaged or hostile file from looping forever"
\* and "the count of rounds equals the depth of the dependent reads" (replay.rs);
\* the runs of a record variable do not depend on each other, but the first one
\* that is missing ends the round, and one in each of MaxRounds pages is one too
\* many (read_record_variable, replay).
TooManyRounds(o) == AsyncRecord(o) /\ Cardinality(SelectedPages(o.call)) >= MaxRounds

\* read_selection_with "serves a read from pages it holds", but the runs of a
\* fixed variable are read from the pages of the open (read_fixed_variable).
BeyondTheOpen(o) == AsyncFixed(o) /\ ~(SelectedPages(o.call) \subseteq handle.pages)

\* The record count of CDF-5 has eight bytes, of which Header::parse reads four.
NarrowCount == file.magic = "cdf5"

\* A call fails only for a damaged file, a page the source could not read or a
\* request that does not fit, whatever rounds an asynchronous call takes; and
\* where the code departs from what it says: for the three reasons above, and no
\* others.  A record variable in fewer pages is read, and so is a fixed one in the
\* pages of the open.
FailureHasCause ==
  calls > 0 /\ task = Idle /\ ~out.r.ok =>
    HasCause(out) \/ NarrowCount \/ TooManyRounds(out) \/ BeyondTheOpen(out)

\* The same without BeyondTheOpen: "The asynchronous engine uses this to serve a
\* read from pages it holds" (read_selection_with).
AsyncFailureHasCause ==
  calls > 0 /\ task = Idle /\ ~out.r.ok => HasCause(out) \/ NarrowCount \/ TooManyRounds(out)

\* Every walk ends: a round either brings pages the walk lacked or is the last.
ReadsEnd == (task # Idle) ~> (task = Idle)
=============================================================================
