------------------------------- MODULE Grammar -------------------------------
(***************************************************************************)
(* How the parsers read (cursor.rs).                                       *)
(*                                                                         *)
(* A body is the sequence of the fields its writer wrote, each with its    *)
(* width w in bytes and its value v, a number (a text is a number too) or  *)
(* the body `in` of what is stored inside.  A parser is a list of items it *)
(* reads in order; the list grows as the fields that decide what follows   *)
(* are known, so it is an operator of the fields read so far.  An item     *)
(* that does not fall on a field of its width reads bytes of two fields or *)
(* half of one: the parse has lost its place ("desync").                   *)
(***************************************************************************)
EXTENDS Integers, Results

AllOnes == -1                   \* every bit set, at any width
Bit(n, k) == (n \div 2^k) % 2 = 1
PadTo(n, align) == ((n + align - 1) \div align) * align
Get(m, f) == IF f \in DOMAIN m THEN m[f] ELSE 0
GetSeq(m, f) == IF f \in DOMAIN m THEN m[f] ELSE <<>>

Item(n, how) == <<[name |-> n, how |-> how]>>
Uint(n, w) == <<[name |-> n, how |-> "uint", w |-> w]>>
Bytes(n, w) == <<[name |-> n, how |-> "bytes", w |-> w]>>
Many(n, w, k) == <<[name |-> n, how |-> "many", w |-> w, k |-> k]>>
Addr(n, w) == <<[name |-> n, how |-> "addr", w |-> w, required |-> FALSE]>>
AddrRequired(n, w) == <<[name |-> n, how |-> "addr", w |-> w, required |-> TRUE]>>
Skip(w) == <<[name |-> "skipped", how |-> "bytes", w |-> w]>>
Str(n, align) == <<[name |-> n, how |-> "str", align |-> align]>>
Subs(n, kind, ctx, k) == <<[name |-> n, how |-> "subs", kind |-> kind, ctx |-> ctx, k |-> k]>>
Inside(n, kind, ctx, w) == <<[name |-> n, how |-> "inside", kind |-> kind, ctx |-> ctx, w |-> w]>>
Refuse(cond, e) == IF cond THEN <<[name |-> "error", how |-> "refuse", e |-> e]>> ELSE <<>>
When(cond, items) == IF cond THEN items ELSE <<>>

-----------------------------------------------------------------------------
\* Cursor: every read is bounded by the buffer.
Remaining(body, i) == FoldLeft(LAMBDA s, f : s + f.w, 0, SubSeq(body, i, Len(body)))

TakeField(body, i, w) ==
  Check(Remaining(body, i) >= w, "bounds", Check(body[i].w = w, "desync", Ok(body[i].v)))

uint(body, i, w) ==
  IF w = 0 THEN Ok(0) ELSE Check(w <= 8, "unsupported", TakeField(body, i, w))

\* Skipping reads no field, so it may cover several.
RECURSIVE SkipFields(_, _, _)
SkipFields(body, i, w) ==
  IF w = 0 THEN Ok(i)
  ELSE Check(Remaining(body, i) >= w, "bounds",
       Check(body[i].w <= w, "desync", SkipFields(body, i + 1, w - body[i].w)))

\* A string ends at its NUL, counted in its width; then up to the alignment,
\* counted from the start of the string.
cstring_padded(body, i, align) ==
  Check(i <= Len(body), "malformed",
  Check("nul" \in DOMAIN body[i], "desync",
  Then(SkipFields(body, i + 1, (align - (body[i].w % align)) % align),
       LAMBDA next : Ok([v |-> body[i].v, next |-> next]))))

\* The fields of the first n bytes.
RECURSIVE Cut(_, _)
Cut(body, n) ==
  IF body = <<>> \/ n = 0 THEN <<>>
  ELSE IF Head(body).w > n THEN <<[w |-> n, v |-> 0]>>
  ELSE <<Head(body)>> \o Cut(Tail(body), n - Head(body).w)
=============================================================================
