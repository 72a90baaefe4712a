------------------------------- MODULE Filters -------------------------------
(***************************************************************************)
(* Chunk filters (filters.rs).  Data is a sequence of byte tokens: [b] for *)
(* a byte, one token [codec, of] for what a compressor makes of a sequence *)
(* (the compression libraries are external), [sum, part] for the four      *)
(* bytes of a Fletcher-32 checksum, and one token [blosc] for a container. *)
(***************************************************************************)
EXTENDS Results

Byte(n) == [b |-> n]
Low(n, k) == n % 2^k
BitOf(n, k) == (n \div 2^k) % 2
Ceiling(a, b) == (a + b - 1) \div b

-----------------------------------------------------------------------------
\* Byte i of an element is gathered from stream i; a remainder that fills no
\* element stays where it is.
unshuffle(data, size) ==
  IF size <= 1 \/ Len(data) <= size THEN data
  ELSE LET count == Len(data) \div size
       IN [i \in DOMAIN data |->
             IF i > count * size THEN data[i]
             ELSE data[((i - 1) % size) * count + (i - 1) \div size + 1]]

shuffle(data, size) ==
  IF size <= 1 \/ Len(data) <= size THEN data
  ELSE LET count == Len(data) \div size
       IN [i \in DOMAIN data |->
             IF i > count * size THEN data[i]
             ELSE data[((i - 1) % count) * size + (i - 1) \div count + 1]]

\* The bit transpose both directions share: bit k of the result is bit From(k)
\* of the data.
MoveBits(data, From(_)) ==
  LET bit(k) == BitOf(data[k \div 8 + 1].b, k % 8)
      byte(i) == FoldLeft(LAMBDA s, j : s + bit(From(8 * (i - 1) + j - 1)) * 2^(j - 1), 0, Span(8))
  IN [i \in DOMAIN data |-> Byte(byte(i))]

unbitshuffle(data, size) ==
  IF size = 0 \/ Len(data) % size # 0 THEN data
  ELSE LET elements == Len(data) \div size
           rows == size * 8
       IN MoveBits(data, LAMBDA k : (k % rows) * elements + k \div rows)

bitshuffle(data, size) ==
  IF size = 0 \/ Len(data) % size # 0 THEN data
  ELSE LET elements == Len(data) \div size
           rows == size * 8
       IN MoveBits(data, LAMBDA k : (k % elements) * rows + k \div elements)

-----------------------------------------------------------------------------
\* A run of bytes that give a length 255 at a time: the length and the position
\* after it.
RECURSIVE ExtraLength(_, _, _)
ExtraLength(data, pos, length) ==
  Check(pos <= Len(data), "malformed",
  IF data[pos].b = 255 THEN ExtraLength(data, pos + 1, length + 255)
  ELSE Ok([length |-> length + data[pos].b, pos |-> pos + 1]))

\* Mutant: a match copied as one block, from what was there before it.
CopyMatchBlock(out, start, length) ==
  out \o [i \in 1..length |-> IF start + i <= Len(out) THEN out[start + i] ELSE Byte(0)]

\* A match may overlap what it produces, so it is copied byte by byte.
CopyMatch(out, start, length) ==
  FoldLeft(LAMBDA o, i : Append(o, o[start + i]), out, Span(length))

RECURSIVE Blosclz(_, _, _, _)

\* unblosclz from a position on: a literal run, or a back-reference.
Blosclz(data, pos, out, first) ==
  IF pos > Len(data) THEN Ok(out)
  ELSE
  LET token == data[pos].b
      run == Low(token, 5) + 1
      len3 == token \div 32
  IN IF first \/ len3 = 0
     THEN Check(pos + run <= Len(data), "malformed",
                Blosclz(data, pos + run + 1, out \o SubSeq(data, pos + 1, pos + run), FALSE))
     ELSE Then(IF len3 = 7 THEN ExtraLength(data, pos + 1, 7)
               ELSE Ok([length |-> len3, pos |-> pos + 1]), LAMBDA m :
            Check(m.pos <= Len(data), "malformed",
            LET near == Low(token, 5) * 256 + data[m.pos].b
                far == near = 8191
                distance == IF far /\ m.pos + 2 <= Len(data)
                            THEN near + data[m.pos + 1].b * 256 + data[m.pos + 2].b ELSE near
            IN Check(far => m.pos + 2 <= Len(data), "malformed",
               Check(distance + 1 <= Len(out), "malformed",
                     Blosclz(data, m.pos + (IF far THEN 3 ELSE 1),
                             CopyMatch(out, Len(out) - (distance + 1), m.length + 2), FALSE)))))

unblosclz(data) == Blosclz(data, 1, <<>>, TRUE)

\* What a compression library gives back for its own output.
Expand(codec, data) ==
  IF Len(data) = 1 /\ "codec" \in DOMAIN data[1] /\ data[1].codec = codec
  THEN Ok(data[1].of) ELSE Err("malformed")

inflate(data) == Expand("deflate", data)
unzstd(data)  == Expand("zstd", data)

\* mod blosc_codec: the number in the flags of a container names its codec.
blosc_codec ==
  (0 :> "blosclz") @@ (1 :> "lz4") @@ (2 :> "lz4hc") @@ (3 :> "snappy") @@ (4 :> "zlib") @@ (5 :> "zstd")

\* The body of one block, by the codec of the container.
DecodeBlock(number, body) ==
  LET codec == IF number \in DOMAIN blosc_codec THEN blosc_codec[number] ELSE "other" IN
  CASE codec \in {"lz4", "lz4hc"} -> Expand("lz4", body)
    [] codec = "zlib" -> inflate(body)
    [] codec = "zstd" -> unzstd(body)
    [] codec = "blosclz" -> unblosclz(body)
    [] OTHER -> Err("unsupported")

BLOSC_DOSHUFFLE    == 0     \* flag bits, by their place
BLOSC_DOBITSHUFFLE == 2

\* What the offset of a block leads to: its streams, each behind its length, of
\* which one is read; or a place past the end of the chunk.
PastTheChunk == <<>>

ReadBlock(b, streams) ==
  Check(streams # PastTheChunk, "malformed", DecodeBlock(b.flags \div 32, streams[1]))

\* unblosc: undo a container's blocks, then the shuffle inside it.
unblosc(data) ==
  Check(Len(data) = 1 /\ "blosc" \in DOMAIN data[1], "malformed",
  LET b == data[1].blosc IN
  Check(b.version = 2, "unsupported",
  Check(b.blocksize > 0 /\ Len(b.blocks) >= Ceiling(b.nbytes, b.blocksize), "malformed",
  Then(Loop(LAMBDA out, k : Then(ReadBlock(b, b.blocks[k]), LAMBDA d : Ok(out \o d)),
            <<>>, Span(Ceiling(b.nbytes, b.blocksize))), LAMBDA out :
    LET cut == SubSeq(out, 1, IF Len(out) < b.nbytes THEN Len(out) ELSE b.nbytes)
    IN Ok(IF BitOf(b.flags, BLOSC_DOBITSHUFFLE) = 1 THEN unbitshuffle(cut, b.typesize)
          ELSE IF BitOf(b.flags, BLOSC_DOSHUFFLE) = 1 THEN unshuffle(cut, b.typesize) ELSE cut)))))

-----------------------------------------------------------------------------
SumToken(of, k) == [sum |-> of, part |-> k]

\* The checksum is accepted in either byte order, and removed.
verify_and_strip_fletcher32(data) ==
  Check(Len(data) >= 4, "malformed",
  LET kept == SubSeq(data, 1, Len(data) - 4)
      stored == SubSeq(data, Len(data) - 3, Len(data))
  IN Check(\/ stored = [k \in 1..4 |-> SumToken(kept, k)]
           \/ stored = [k \in 1..4 |-> SumToken(kept, 5 - k)], "checksum", Ok(kept)))

decode_one(filter, data) ==
  CASE filter.id = "deflate" -> inflate(data)
    [] filter.id = "shuffle" -> Ok(unshuffle(data, filter.size))
    [] filter.id = "fletcher32" -> verify_and_strip_fletcher32(data)
    [] filter.id = "zstd" -> unzstd(data)
    [] filter.id = "blosc" -> unblosc(data)
    [] OTHER -> Err("unsupported")

\* From the back, without the filters the mask says were skipped.
decode_chunk(pipeline, mask, data) ==
  Loop(LAMBDA buf, i : IF BitOf(mask, i - 1) = 1 THEN Ok(buf) ELSE decode_one(pipeline[i], buf),
       data, Reverse(Span(Len(pipeline))))

pipeline_is_supported(pipeline) ==
  \A i \in DOMAIN pipeline :
    pipeline[i].id \in {"deflate", "shuffle", "fletcher32", "zstd", "blosc"}
=============================================================================
