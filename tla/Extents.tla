------------------------------- MODULE Extents -------------------------------
(***************************************************************************)
(* What a caller may ask for, turned into a hyperslab (extent.rs,          *)
(* Hyperslab::from_ranges and validate in read.rs).                        *)
(***************************************************************************)
EXTENDS Results

CONSTANTS UsizeMax    \* usize::MAX; arithmetic without a check wraps there

Wrap(n) == n % (UsizeMax + 1)

Slice(s) == [kind |-> "slice", start |-> s, stride |-> 1]
SliceEnd(s, e) == [kind |-> "end", start |-> s, end |-> e, stride |-> 1]
SliceCount(s, c) == [kind |-> "count", start |-> s, count |-> c, stride |-> 1]
Index(i) == [kind |-> "index", start |-> i, stride |-> 1]

\* Mutant: an inclusive end taken as the end.
ExtentFromExclusive(r) ==
  CASE r.form = "i"     -> Index(r.i)
    [] r.form = "i..j"  -> SliceEnd(r.i, r.j)
    [] r.form = "i.."   -> Slice(r.i)
    [] r.form = "..j"   -> SliceEnd(0, r.j)
    [] r.form = "..=j"  -> SliceEnd(0, r.j)
    [] r.form = "i..=j" -> SliceEnd(r.i, r.j)
    [] r.form = ".."    -> Slice(0)
    [] r.form = "i,n"   -> SliceCount(r.i, r.j)
    [] r.form = "step"  -> [Slice(r.i) EXCEPT !.stride = r.j]

\* The From impls of one axis, one for each kind of range.
ExtentFrom(r) ==
  CASE r.form = "i"     -> Index(r.i)
    [] r.form = "i..j"  -> SliceEnd(r.i, r.j)
    [] r.form = "i.."   -> Slice(r.i)
    [] r.form = "..j"   -> SliceEnd(0, r.j)
    [] r.form = "..=j"  -> SliceEnd(0, Wrap(r.j + 1))
    [] r.form = "i..=j" -> SliceEnd(r.i, Wrap(r.j + 1))
    [] r.form = ".."    -> Slice(0)
    [] r.form = "i,n"   -> SliceCount(r.i, r.j)
    [] r.form = "step"  -> [Slice(r.i) EXCEPT !.stride = r.j]

\* Extent::resolve on an axis of length len.
resolve(e, len) ==
  Check(e.stride = 1, "unsupported",
  CASE e.kind = "slice" -> Ok(<<e.start, IF len > e.start THEN len - e.start ELSE 0>>)
    [] e.kind = "end" -> Check(e.end >= e.start, "request", Ok(<<e.start, e.end - e.start>>))
    [] e.kind = "count" -> Ok(<<e.start, e.count>>)
    [] e.kind = "index" -> Ok(<<e.start, 1>>))

validate(start, count, shape) ==
  Check(Len(start) = Len(shape) /\ Len(count) = Len(shape), "request",
  Check(\A k \in DOMAIN shape : start[k] + count[k] <= UsizeMax /\ start[k] + count[k] <= shape[k],
        "request", Ok([start |-> start, count |-> count])))

\* Extents::to_hyperslab; an empty tuple and a full range select everything.
to_hyperslab(request, shape) ==
  IF request.all THEN Ok([start |-> [k \in DOMAIN shape |-> 0], count |-> shape])
  ELSE Check(Len(request.axes) = Len(shape), "request",
       Then(MapAll(LAMBDA k : resolve(ExtentFrom(request.axes[k]), shape[k]), Span(Len(shape))),
            LAMBDA rs : validate([k \in DOMAIN rs |-> rs[k][1]], [k \in DOMAIN rs |-> rs[k][2]],
                                 shape)))

\* Hyperslab::from_ranges, then the validation a read starts with.
from_ranges(ranges, shape) ==
  Check(Len(ranges) = Len(shape), "request",
  Check(\A k \in DOMAIN ranges : ranges[k].j >= ranges[k].i, "request",
        validate([k \in DOMAIN ranges |-> ranges[k].i],
                 [k \in DOMAIN ranges |-> ranges[k].j - ranges[k].i], shape)))
=============================================================================
