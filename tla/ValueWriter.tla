----------------------------- MODULE ValueWriter -----------------------------
(***************************************************************************)
(* Chunks as a filter pipeline leaves them, stored values, and requests.   *)
(***************************************************************************)
EXTENDS MessageWriter

\* Byte k of every element, for each k in turn; what is left over stays.
ShuffleStreams(data, size) ==
  LET n == Len(data) \div size
      stream(k) == [e \in 1..n |-> data[(e - 1) * size + k]]
  IN IF size <= 1 THEN data
     ELSE FlattenSeq([k \in 1..size |-> stream(k)]) \o SubSeq(data, n * size + 1, Len(data))

Sum(data) == [k \in 1..4 |-> SumToken(data, k)]

\* Bits in place of bytes, of as many elements as come in eights.
ShuffleBits(data, size) ==
  LET n == 8 * size * (Len(data) \div (8 * size))
  IN bitshuffle(SubSeq(data, 1, n), size) \o SubSeq(data, n + 1, Len(data))

\* A Blosc container of blocks of f.block bytes, each shuffled by itself and then
\* compressed, in one stream or in two; or a plain copy of the data, whose bytes
\* are no offsets.  f.number is the number of the codec in the flags.
Container(data, f) ==
  LET moved(d) == IF f.shuffled THEN ShuffleStreams(d, f.size)
                  ELSE IF f.bits THEN ShuffleBits(d, f.size) ELSE d
      last(k) == IF k * f.block < Len(data) THEN k * f.block ELSE Len(data)
      part(k) == moved(SubSeq(data, (k - 1) * f.block + 1, last(k)))
      packed(d) == <<[codec |-> f.codec, of |-> d]>>
      streams(d) == IF f.split /\ Len(d) > 1
                    THEN <<packed(SubSeq(d, 1, Len(d) \div 2)), packed(SubSeq(d, Len(d) \div 2 + 1, Len(d)))>>
                    ELSE <<packed(d)>>
      flag(cond, k) == IF cond THEN 2^k ELSE 0
  IN <<[blosc |-> [version |-> 2, blocksize |-> f.block, nbytes |-> Len(data), typesize |-> f.size,
                   flags |-> 32 * f.number + flag(f.shuffled, 0) + flag(f.copied, 1) + flag(f.bits, 2),
                   blocks |-> IF f.copied THEN Rep(Len(data) \div 4, PastTheChunk)
                              ELSE [k \in 1..Ceiling(Len(data), f.block) |-> streams(part(k))]]]>>

Filtered(f, data) ==
  CASE f.id = "shuffle" -> ShuffleStreams(data, f.size)
    [] f.id \in {"deflate", "zstd"} -> <<[codec |-> f.id, of |-> data]>>
    [] f.id = "fletcher32" -> data \o Sum(data)
    [] f.id = "blosc" -> Container(data, f)
    [] OTHER -> data      \* a filter this reader does not have

Encoded(pipeline, mask, data) ==
  FoldLeft(LAMBDA d, i : IF BitOf(mask, i - 1) = 1 THEN d ELSE Filtered(pipeline[i], d),
           data, Span(Len(pipeline)))

Filter(id, size) == [id |-> id, size |-> size]
SimpleFilters == {Filter("shuffle", 2), Filter("shuffle", 3), Filter("deflate", 0),
                  Filter("zstd", 0), Filter("fletcher32", 0)}

\* Codecs by the number that blosc_codec gives them, and by the number that the
\* format gives the two it numbers otherwise.
Codecs == {<<"lz4", 1>>, <<"lz4", 2>>, <<"deflate", 4>>, <<"zstd", 5>>}
FormatCodecs == {<<"deflate", 3>>, <<"zstd", 4>>}

Blosc(codec, size, block, shuffled, bits) ==
  [id |-> "blosc", size |-> size, block |-> block, codec |-> codec[1], number |-> codec[2],
   shuffled |-> shuffled, bits |-> bits, split |-> FALSE, copied |-> FALSE]

BloscFilters ==
  {Blosc(c, 2, 6, FALSE, FALSE) : c \in Codecs \cup FormatCodecs}
  \cup {Blosc(c, t, b, s, ~s) : c \in {<<"lz4", 1>>, <<"zstd", 5>>}, t \in {1, 2}, b \in {6, 16}, s \in BOOLEAN}
  \cup {[Blosc(<<"lz4", 1>>, 2, b, s, FALSE) EXCEPT !.split = TRUE] : b \in {6, 16}, s \in BOOLEAN}
  \cup {[Blosc(<<"lz4", 1>>, 2, b, FALSE, FALSE) EXCEPT !.copied = TRUE] : b \in {6, 16}}

Raw(n) == [i \in 1..n |-> Byte((i * 91) % 256)]

Chunk(pipeline, mask, n) ==
  [pipeline |-> pipeline, mask |-> mask, data |-> Encoded(pipeline, mask, Raw(n)), raw |-> Raw(n),
   sound |-> TRUE]

\* The output of the blosclz compressor: literals, and matches that go back
\* `back` bytes for `len`; the distance is stored less one, the length less two.
LzOp(op) ==
  IF "lit" \in DOMAIN op THEN <<Byte(Len(op.lit) - 1)>> \o op.lit
  ELSE LET stored == op.len - 2
           low == (op.back - 1) % 256
           high == (op.back - 1) \div 256
       IN IF stored < 7 THEN <<Byte(32 * stored + high), Byte(low)>>
          ELSE <<Byte(32 * 7 + high)>> \o Rep((stored - 7) \div 255, Byte(255))
               \o <<Byte((stored - 7) % 255), Byte(low)>>

\* What a match stands for: the last `back` bytes, over and over.
LzExpand(ops) ==
  FoldLeft(LAMBDA out, op :
             IF "lit" \in DOMAIN op THEN out \o op.lit
             ELSE out \o [i \in 1..op.len |-> out[Len(out) - op.back + 1 + ((i - 1) % op.back)]],
           <<>>, ops)

LzList(n, b, l) == <<[lit |-> Raw(n)], [back |-> b, len |-> l], [lit |-> Raw(2)], [back |-> 2, len |-> 3]>>
LzLists ==
  {LzList(n, b, l) : n \in {2, 5}, b \in 1..2, l \in {3, 4, 8, 9, 10}}
  \cup {LzList(2, 2, l) : l \in {263, 264, 265}}

LzChunk(ops) ==
  LET raw == LzExpand(ops) IN
  [pipeline |-> <<Filter("blosc", 1)>>, mask |-> 0, raw |-> raw, sound |-> TRUE,
   data |-> <<[blosc |-> [version |-> 2, blocksize |-> Len(raw), nbytes |-> Len(raw), typesize |-> 1,
                          flags |-> 0,
                          blocks |-> <<<<FlattenSeq([k \in DOMAIN ops |-> LzOp(ops[k])])>>>>]]>>]

MCFilterCases ==
  {Chunk(<<f>>, m, n) : f \in SimpleFilters \cup BloscFilters, m \in 0..1, n \in {1, 5, 12, 16}}
  \cup {Chunk(<<f, g>>, m, n) : f, g \in SimpleFilters, m \in 0..3, n \in {5, 6}}
  \cup {Chunk(<<Filter("shuffle", 2), Filter("deflate", 0), Filter("fletcher32", 0)>>, m, 6) : m \in 0..7}
  \cup {[Chunk(<<Blosc(<<"snappy", n>>, 1, 6, FALSE, FALSE)>>, 0, 5) EXCEPT !.sound = FALSE] : n \in {3, 6}}
  \cup {LzChunk(ops) : ops \in LzLists}
  \cup {[Chunk(<<Filter("fletcher32", 0)>>, 0, 5) EXCEPT !.data = Raw(5) \o Reverse(Sum(Raw(5)))]}
  \cup {[Chunk(<<f>>, 0, 5) EXCEPT !.data = Raw(k), !.sound = FALSE]
          : f \in {Filter("fletcher32", 0), Filter("deflate", 0), Filter("zstd", 0), Filter("szip", 0)},
            k \in {3, 9}}

-----------------------------------------------------------------------------
BytesOf(v, n, big) ==
  LET low == [k \in 1..n |-> ((v % 256^n) \div 256^(k - 1)) % 256] IN IF big THEN Reverse(low) ELSE low
Fits(v, t) == IF t.signed THEN -(256^t.size \div 2) <= v /\ v < 256^t.size \div 2
              ELSE 0 <= v /\ v < 256^t.size

Ints == {[class |-> "int", size |-> n, signed |-> s, big |-> b] : n \in 1..2, s, b \in BOOLEAN}
Numbers == {-32768, -200, -128, -1, 0, 1, 127, 128, 255, 256, 32767, 65535}

MCNumberCases ==
  {[bytes |-> BytesOf(v, t.size, t.big) \o BytesOf(w, t.size, t.big), type |-> t, as |-> u,
    want |-> <<v, w>>, sound |-> TRUE]
     : t \in Ints, u \in {[signed |-> s, size |-> n] : s \in BOOLEAN, n \in 1..2}, v, w \in Numbers}
NumbersThatFit ==
  {c \in MCNumberCases : \A k \in 1..2 : Fits(c.want[k], c.type) /\ Fits(c.want[k], c.as)}
  \cup {[bytes |-> <<1, 2>>, type |-> [class |-> "string", size |-> 2, big |-> FALSE],
         as |-> [signed |-> TRUE, size |-> 2], want |-> <<>>, sound |-> FALSE]}

Texts == {<<>>, <<65>>, <<65, 66>>, <<65, 32, 66>>, <<32, 65>>}
Padded(text, n, pad) == text \o Rep(n - Len(text), IF pad = "space" THEN 32 ELSE 0)

MCStringCases ==
  {[bytes |-> Padded(s, n, p) \o Padded(t, n, p), sound |-> TRUE, want |-> <<s, t>>,
    type |-> [class |-> "string", size |-> n, pad |-> p, big |-> FALSE]]
     : s, t \in Texts, n \in 3..4, p \in {"null", "term", "space"}}

-----------------------------------------------------------------------------
Sz == [offset |-> 8, length |-> 8]

\* A collection of objects, each padded to 8 bytes; free space of a header's
\* size or more is an object of index 0.
Collection(datas, free) ==
  LET n == Len(datas)
      body == FoldLeft(LAMBDA s, d : s + 16 + PadTo(Len(d), 8), 0, datas)
  IN [sig |-> "GCOL", version |-> 1, sound |-> TRUE, size |-> 16 + body + free,
      bytesInFile |-> 16 + body + free,
      objs |-> [k \in 1..n |-> [index |-> k, size |-> Len(datas[k]), data |-> datas[k]]]
               \o Opt(free >= 16, <<[index |-> 0, size |-> free, data |-> <<>>]>>)]

Descriptor(length, a, i) == [length |-> length, address |-> a, index |-> i]

VlenString == [class |-> "vlen", kind |-> "string", size |-> 16, big |-> FALSE,
               base |-> [class |-> "string", size |-> 1, big |-> FALSE]]
VlenInts(b) == [class |-> "vlen", kind |-> "sequence", size |-> 16, big |-> FALSE,
                base |-> [class |-> "int", size |-> 2, signed |-> FALSE, big |-> b]]

HeapTexts == <<<<65>>, <<65, 66, 67, 68, 69, 70, 71, 72>>, <<66, 65, 67>>>>
HeapInts(b) == <<BytesOf(258, 2, b), BytesOf(772, 2, b) \o BytesOf(5, 2, b), BytesOf(1, 2, b)>>

\* What element k of a list of elements is: 0 is the empty value.
VlenCase(type, datas, valueOf, els, free) ==
  [type |-> type, sz |-> Sz, sound |-> TRUE,
   file |-> File((70 :> Collection(datas, free)) @@ (71 :> Collection(Reverse(datas), free))),
   descriptors |-> [k \in DOMAIN els |->
      IF els[k] = 0 THEN Descriptor(0, 0, 0)
      ELSE IF els[k] < 0 THEN Descriptor(Len(datas[-els[k]]) \div type.base.size, 71, 4 + els[k])
      ELSE Descriptor(Len(datas[els[k]]) \div type.base.size, 70, els[k])],
   want |-> [k \in DOMAIN els |-> IF els[k] = 0 THEN <<>>
                                  ELSE valueOf[IF els[k] < 0 THEN -els[k] ELSE els[k]]]]

VlenGood ==
  {VlenCase(VlenString, HeapTexts, HeapTexts, els, free)
     : els \in UNION {[1..n -> -3..3] : n \in 0..2}, free \in {0, 8, 32}}
  \cup {VlenCase(VlenInts(b), HeapInts(b), HeapInts(FALSE), els, 32)
          : b \in BOOLEAN, els \in [1..2 -> -3..3]}

MCVlenCases ==
  VlenGood
  \cup {[c EXCEPT !.sound = FALSE, !.file.at[70].sig = "none"] :
          c \in {VlenCase(VlenString, HeapTexts, HeapTexts, <<1>>, 0)}}
  \cup {[VlenCase(VlenString, HeapTexts, HeapTexts, <<2>>, 0) EXCEPT !.sound = FALSE, !.descriptors[1] = d]
          : d \in {Descriptor(3, 70, 4), Descriptor(3, 90, 1), Descriptor(0, Undefined, 0)}}
  \cup {[VlenCase(VlenString, HeapTexts, HeapTexts, <<2>>, 0) EXCEPT !.sound = FALSE,
           !.file.at[70].bytesInFile = 40],
        [VlenCase(VlenString, HeapTexts, HeapTexts, <<2>>, 0) EXCEPT !.sound = FALSE,
           !.file.at[70].objs[2].size = 900]}

\* A local heap of three names; the last one has no NUL behind it.
NameHeap == [sig |-> "HEAP", version |-> 0, segment |-> 80, size |-> 7]
NameBytes == <<65, 66, 0, 0, 67, 68, 69>>
NameCase(offset, want) ==
  [file |-> File((79 :> NameHeap) @@ (80 :> NameBytes)), address |-> 79, offset |-> offset,
   want |-> want, sound |-> TRUE]
BrokenName(h, offset) ==
  [NameCase(offset, <<>>) EXCEPT !.sound = FALSE, !.file = File((79 :> h) @@ (80 :> NameBytes))]

MCNameCases ==
  {NameCase(0, <<65, 66>>), NameCase(3, <<>>), NameCase(4, <<67, 68, 69>>)}
  \cup {BrokenName(NameHeap, 7), BrokenName([NameHeap EXCEPT !.sig = "none"], 0),
        BrokenName([NameHeap EXCEPT !.version = 1], 0),
        BrokenName([NameHeap EXCEPT !.segment = Undefined], 0),
        BrokenName([NameHeap EXCEPT !.size = 8], 0)}

-----------------------------------------------------------------------------
\* Attributes whose value bytes a version 1 message pads to 8.
AttributeOf(type, count, data, variant, values, padded) ==
  [attr |-> [type |-> type, count |-> count,
             data |-> data \o Opt(padded, Rep(PadTo(Len(data), 8) - Len(data), 0))],
   file |-> NoFile, sz |-> Sz, sound |-> TRUE, want |-> [variant |-> variant, values |-> values]]

IntVariant(t, n) ==
  <<IF t.signed THEN "Int" ELSE "Uint", t.size>> \o Opt(n # 1, <<"s">>)

MCAttributeCases ==
  {AttributeOf(t, Len(vs), FlattenSeq([k \in DOMAIN vs |-> BytesOf(vs[k], t.size, t.big)]),
               IntVariant(t, Len(vs)), vs, p)
     : p \in BOOLEAN, t \in Ints, vs \in {<<>>, <<1>>, <<7, 100>>, <<3, 2, 1>>}}
  \cup {AttributeOf([class |-> "float", size |-> 4, big |-> b], n, Rep(n, <<1, 2, 3, 4>>)[1],
                    <<"Float", 4>>, <<IF b THEN <<4, 3, 2, 1>> ELSE <<1, 2, 3, 4>>>>, p)
          : b, p \in BOOLEAN, n \in {1}}
  \cup {AttributeOf([class |-> "string", size |-> Len(t) + 1, pad |-> p, big |-> FALSE], 1,
                    Padded(t, Len(t) + 1, p), <<"Str">>, t, q)
          : t \in Texts, p \in {"null", "space"}, q \in BOOLEAN}
  \cup {AttributeOf([class |-> "string", size |-> 1, pad |-> "null", big |-> FALSE], Len(t), t,
                    <<"Str">>, t, FALSE) : t \in Texts}
  \cup {LET c == AttributeOf(VlenString, Len(v.descriptors), <<>>, <<"Strs">>, v.want, FALSE)
        IN [c EXCEPT !.file = v.file, !.attr = @ @@ [descriptors |-> v.descriptors]]
          : v \in {v \in VlenGood : v.type.kind = "string"}}

MCFillCases ==
  {[bytes |-> b, elementSize |-> n, len |-> len, sound |-> TRUE,
    want |-> IF Len(b) # n \/ n = 0 THEN Rep(len, 0) ELSE [i \in 1..len |-> b[((i - 1) % n) + 1]]]
     : b \in {<<>>, <<5>>, <<5, 6>>, <<5, 6, 7>>}, n \in 0..3, len \in {0, 3, 6, 12, 18}}

-----------------------------------------------------------------------------
Axes == [form : {"i", "i..j", "i..", "..j", "..=j", "i..=j", "..", "i,n", "step"},
         i : 0..UsizeMax, j : 0..UsizeMax]

\* The elements a range names, and whether it lies on an axis of length n.
Named(r, n) ==
  CASE r.form = "i" -> {r.i}
    [] r.form = "i..j" -> r.i..(r.j - 1)
    [] r.form = "i.." -> r.i..(n - 1)
    [] r.form = "..j" -> 0..(r.j - 1)
    [] r.form = "..=j" -> 0..r.j
    [] r.form = "i..=j" -> r.i..r.j
    [] r.form = ".." -> 0..(n - 1)
    [] r.form = "i,n" -> r.i..(r.i + r.j - 1)
    [] r.form = "step" -> {k \in r.i..(n - 1) : r.j # 0 /\ (k - r.i) % (IF r.j = 0 THEN 1 ELSE r.j) = 0}

OnAxis(r, n) ==
  /\ Named(r, n) \subseteq 0..(n - 1)
  /\ r.form \in {"i..j", "i..=j", "i..", "i,n", "step"} => r.i <= n
  /\ r.form = "i..j" => r.i <= r.j
  /\ r.form = "i..=j" => r.i <= r.j + 1
  /\ r.form = "step" => r.j = 1

SelectCase(shape, axes, all, ranges) ==
  [shape |-> shape, request |-> [all |-> all, axes |-> axes], ranges |-> ranges,
   elements |-> [k \in DOMAIN axes |-> IF k \in DOMAIN shape THEN Named(axes[k], shape[k]) ELSE {}],
   legal |-> all \/ (/\ Len(axes) = Len(shape)
                     /\ \A k \in DOMAIN shape : OnAxis(axes[k], shape[k]))]

MCSelectCases ==
  {SelectCase(<<n>>, <<r>>, FALSE, FALSE) : n \in 0..UsizeMax, r \in Axes}
  \cup {SelectCase(<<3, 2>>, <<r, q>>, FALSE, FALSE)
          : r \in {r \in Axes : r.i = 1 /\ r.j \in {0, 3}}, q \in {q \in Axes : q.i = 0 /\ q.j = 2}}
  \cup {SelectCase(<<n, 3>>, <<r, q>>, FALSE, TRUE)
          : n \in 0..3, r, q \in {r \in Axes : r.form = "i..j" /\ r.i \in 0..2}}
  \cup {SelectCase(s, <<>>, TRUE, FALSE) : s \in {<<>>, <<0>>, <<3, 2>>}}
  \cup {SelectCase(<<3, 2>>, <<[form |-> "..", i |-> 0, j |-> 0]>>, FALSE, FALSE)}
=============================================================================
