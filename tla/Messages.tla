------------------------------ MODULE Messages -------------------------------
(***************************************************************************)
(* The messages of object headers, the superblock and the containers       *)
(* (message/*.rs, superblock.rs, symbol_table.rs, container.rs).           *)
(***************************************************************************)
EXTENDS ClassicHeader, TLC

\* Mutant: the length field is as wide as the number in the flags.
LinkFieldsNarrow(m, ctx) ==
  LET flags == Get(m, "flags") kind == Get(m, "kind") IN
  Uint("version", 1) \o Refuse(Get(m, "version") # 1, "unsupported") \o Uint("flags", 1)
  \o When(Bit(flags, 3), Uint("kind", 1))
  \o When(Bit(flags, 2), Uint("order", 8))
  \o When(Bit(flags, 4), Skip(1))
  \o Uint("nameLen", 1 + (flags % 4)) \o Bytes("name", Get(m, "nameLen"))
  \o IF kind = 0 THEN AddrRequired("address", ctx.offset)
     ELSE Uint("len", 2) \o Bytes("raw", Get(m, "len"))

\* Link::parse_at
LinkFields(m, ctx) ==
  LET flags == Get(m, "flags") kind == Get(m, "kind") IN
  Uint("version", 1) \o Refuse(Get(m, "version") # 1, "unsupported") \o Uint("flags", 1)
  \o When(Bit(flags, 3), Uint("kind", 1))
  \o When(Bit(flags, 2), Uint("order", 8))
  \o When(Bit(flags, 4), Skip(1))
  \o Uint("nameLen", 2^(flags % 4)) \o Bytes("name", Get(m, "nameLen"))
  \o IF kind = 0 THEN AddrRequired("address", ctx.offset)
     ELSE Uint("len", 2) \o Bytes("raw", Get(m, "len"))

\* LinkInfo::parse and AttributeInfo::parse; the index counter is 8 bytes in
\* the first and 2 in the second.
InfoFields(m, ctx, counter) ==
  LET flags == Get(m, "flags") IN
  Uint("version", 1) \o Refuse(Get(m, "version") # 0, "unsupported") \o Uint("flags", 1)
  \o When(Bit(flags, 0), counter)
  \o Addr("heap", ctx.offset) \o Addr("names", ctx.offset)
  \o When(Bit(flags, 1), Addr("orders", ctx.offset))

LinkInfoFields(m, ctx) == InfoFields(m, ctx, Uint("maxIndex", 8))
AttributeInfoFields(m, ctx) == InfoFields(m, ctx, Skip(2))

SymbolTableFields(m, ctx) ==
  AddrRequired("btree", ctx.offset) \o AddrRequired("localHeap", ctx.offset)

-----------------------------------------------------------------------------
\* Dataspace::parse, both versions.
DataspaceFields(m, ctx) ==
  LET version == Get(m, "version") flags == Get(m, "flags") rank == Get(m, "rank") IN
  Uint("version", 1) \o Refuse(version \notin {1, 2}, "unsupported")
  \o Uint("rank", 1) \o Uint("flags", 1)
  \o (IF version = 1 THEN Skip(1) \o Skip(4)
      ELSE Uint("kind", 1) \o Refuse(Get(m, "kind") > 2, "malformed"))
  \o Many("dims", ctx.length, rank)
  \o When(Bit(flags, 0), Many("maxDims", ctx.length, rank))
  \o When(version = 1 /\ Bit(flags, 1), Skip(rank * ctx.length))

\* Version 1 has no kind: rank 0 is a scalar.
DataspaceKind(m) ==
  IF m.version = 1 THEN IF m.rank = 0 THEN "scalar" ELSE "simple"
  ELSE <<"scalar", "simple", "null">>[m.kind + 1]

DataspaceCount(m) ==
  CASE DataspaceKind(m) = "null" -> 0
    [] DataspaceKind(m) = "scalar" -> 1
    [] DataspaceKind(m) = "simple" -> FoldLeft(LAMBDA p, d : p * d, 1, m.dims)

-----------------------------------------------------------------------------
FillTail(m) ==
  Item("left", "left")
  \o When(Get(m, "left") >= 4,
          Uint("size", 4) \o Item("leftThen", "left")
          \o When(Get(m, "size") # 0 /\ Get(m, "leftThen") >= Get(m, "size"),
                  Bytes("bytes", Get(m, "size"))))

\* FillValue::parse: a value that is not there is no value, never an error.
FillValueFields(m, ctx) ==
  LET version == Get(m, "version") IN
  Uint("version", 1) \o Refuse(version \notin 1..3, "unsupported")
  \o (IF version = 3 THEN Uint("flags", 1) \o When(Bit(Get(m, "flags"), 5), FillTail(m))
      ELSE Skip(1) \o Skip(1) \o Uint("defined", 1)
           \o When(version = 1 \/ Get(m, "defined") # 0, FillTail(m)))

\* FillValue::parse_old
FillValueOldFields(m, ctx) == FillTail(m)

\* parse_filter_v1 and parse_filter_v2
FilterFields(m, ctx) ==
  LET n == Get(m, "clients") len == Get(m, "nameLen") IN
  Uint("id", 2)
  \o When(ctx.version = 1 \/ Get(m, "id") >= 256, Uint("nameLen", 2))
  \o Uint("flags", 2) \o Uint("clients", 2)
  \o When(len > 0, Bytes("name", IF ctx.version = 1 THEN PadTo(len, 8) ELSE len))
  \o Many("client", 4, n)
  \o When(ctx.version = 1 /\ n % 2 = 1, Skip(4))

\* FilterPipeline::parse
PipelineFields(m, ctx) ==
  LET version == Get(m, "version") IN
  Uint("version", 1) \o Uint("count", 1) \o Refuse(version \notin {1, 2}, "unsupported")
  \o When(version = 1, Skip(6))
  \o Subs("filters", "filter", [ctx EXCEPT !.version = version], Get(m, "count"))

-----------------------------------------------------------------------------
\* The chunk shape is stored with the element size as a last entry.
ChunkShape(m, w) ==
  Refuse(Get(m, "dimensionality") = 0, "malformed")
  \o Many("chunkDims", w, Get(m, "dimensionality") - 1) \o Uint("elementSize", w)

\* Layout::parse_v1_v2
LayoutV1Fields(m, ctx) ==
  LET class == Get(m, "class") IN
  Uint("dimensionality", 1) \o Uint("class", 1) \o Skip(5)
  \o Refuse(class > 2, "malformed")
  \o CASE class = 0 -> Many("shape", 4, Get(m, "dimensionality")) \o Uint("size", 4)
                       \o Bytes("data", Get(m, "size"))
       [] class = 1 -> Addr("address", ctx.offset) \o Many("shape", 4, Get(m, "dimensionality"))
       [] OTHER -> Addr("address", ctx.offset) \o ChunkShape(m, 4)

\* What versions 3 and 4 have in common.
LayoutPlain(m, ctx) ==
  IF Get(m, "class") = 0 THEN Uint("size", 2) \o Bytes("data", Get(m, "size"))
  ELSE Addr("address", ctx.offset) \o Uint("size", ctx.length)

\* Layout::parse_v3
LayoutV3Fields(m, ctx) ==
  Uint("class", 1) \o Refuse(Get(m, "class") > 2, "malformed")
  \o IF Get(m, "class") < 2 THEN LayoutPlain(m, ctx)
     ELSE Uint("dimensionality", 1) \o Addr("address", ctx.offset) \o ChunkShape(m, 4)

\* Layout::parse_v4, with the parameters of each kind of chunk index.
LayoutV4Fields(m, ctx) ==
  LET index == Get(m, "index") IN
  Uint("class", 1) \o Refuse(Get(m, "class") > 2, "malformed")
  \o IF Get(m, "class") < 2 THEN LayoutPlain(m, ctx)
     ELSE Uint("flags", 1) \o Uint("dimensionality", 1)
          \o Refuse(Get(m, "dimensionality") = 0, "malformed") \o Uint("dimWidth", 1)
          \o ChunkShape(m, Get(m, "dimWidth"))
          \o Uint("index", 1) \o Refuse(index \notin 1..5, "unsupported")
          \o (CASE index = 1 /\ Bit(Get(m, "flags"), 1) ->
                    Uint("filteredSize", ctx.length) \o Uint("mask", 4)
               [] index = 3 -> Uint("pageBits", 1)
               [] index = 4 -> Many("array", 1, 5)
               [] index = 5 -> Uint("nodeSize", 4) \o Many("percents", 1, 2)
               [] OTHER -> <<>>)
          \o Addr("address", ctx.offset)

LayoutFields(m, ctx) ==
  LET version == Get(m, "version") IN
  Uint("version", 1) \o Refuse(version \notin 1..4, "unsupported")
  \o CASE version = 3 -> LayoutV3Fields(m, ctx)
       [] version = 4 -> LayoutV4Fields(m, ctx)
       [] OTHER -> LayoutV1Fields(m, ctx)

\* SharedMessage::parse
SharedFields(m, ctx) ==
  LET version == Get(m, "version") kind == Get(m, "kind") IN
  Uint("version", 1) \o Uint("kind", 1) \o Refuse(version \notin 1..3, "unsupported")
  \o When(version = 1, Skip(6))
  \o Refuse(version > 1 /\ kind > 3, "unsupported")
  \o When(version = 1 \/ kind = 2, AddrRequired("address", ctx.offset))

\* SharedMessage::committed_address
CommittedAddress(m) ==
  IF "address" \in DOMAIN m THEN Ok(m.address)
  ELSE Err(IF m.kind = 0 THEN "malformed" ELSE "unsupported")

-----------------------------------------------------------------------------
\* The first byte of a datatype holds its version and its class, the next three
\* the bit field.
TypeVersion(m) == Get(m, "head") \div 16
TypeClass(m) == Get(m, "head") % 16
TypeCount(m) == Get(m, "bits0") + 256 * Get(m, "bits1")

FixedPointFields(m, ctx) == Uint("bitOffset", 2) \o Uint("bitPrecision", 2)

\* Byte order bits 0 and 6; the order of VAX floats is refused.
FloatingPointFields(m, ctx) ==
  Refuse(Bit(Get(m, "bits0"), 6), "unsupported")
  \o Uint("bitOffset", 2) \o Uint("bitPrecision", 2) \o Many("parts", 1, 4) \o Uint("bias", 4)

Padding(code) == Refuse(code > 2, "malformed")
Charset(code) == Refuse(code > 1, "unsupported")

OpaqueFields(m, ctx) == Bytes("tag", Get(m, "bits0"))

\* Width of a member's offset in a compound type of `size` bytes.
compound_offset_width(size) ==
  LET log2 == IF size = 0 THEN 0 ELSE CHOOSE k \in 0..29 : 2^k <= size /\ size < 2^(k + 1)
  IN IF log2 <= 8 THEN 1 ELSE (log2 + 7) \div 8

\* A member of a compound type, in the compound type's version.
MemberFields(m, ctx) ==
  Str("name", IF ctx.version < 3 THEN 8 ELSE 1)
  \o (IF ctx.version < 3 THEN Uint("offset", 4) ELSE Uint("offset", compound_offset_width(ctx.size)))
  \o When(ctx.version = 1,
          Uint("rank", 1) \o Skip(3) \o Skip(4) \o Skip(4) \o Many("dims", 4, 4))
  \o Subs("type", "datatype", ctx, 1)

EnumFields(m, ctx) ==
  Subs("base", "datatype", ctx, 1)
  \o Subs("names", "enumName", [ctx EXCEPT !.version = TypeVersion(m)], TypeCount(m))
  \o When("base" \in DOMAIN m, Many("values", m.base[1].size, TypeCount(m)))

EnumNameFields(m, ctx) == Str("name", IF ctx.version < 3 THEN 8 ELSE 1)

VlenFields(m, ctx) ==
  Refuse(Get(m, "bits0") % 16 > 1, "malformed")
  \o Padding(Get(m, "bits0") \div 16) \o Charset(Get(m, "bits1") % 16)
  \o Subs("base", "datatype", ctx, 1)

ArrayFields(m, ctx) ==
  LET v2 == TypeVersion(m) = 2 rank == Get(m, "rank") IN
  Uint("rank", 1) \o When(v2, Skip(3)) \o Many("dims", 4, rank)
  \o When(v2, Skip(rank * 4)) \o Subs("base", "datatype", ctx, 1)

\* Datatype::parse_at
DatatypeFields(m, ctx) ==
  LET class == TypeClass(m)
      inner == [ctx EXCEPT !.version = TypeVersion(m), !.size = Get(m, "size")]
  IN
  Uint("head", 1) \o Refuse(TypeVersion(m) \notin 1..4, "malformed")
  \o Uint("bits0", 1) \o Uint("bits1", 1) \o Uint("bits2", 1) \o Uint("size", 4)
  \o CASE class = 0 -> FixedPointFields(m, ctx)
       [] class = 1 -> FloatingPointFields(m, ctx)
       [] class = 3 -> Padding(Get(m, "bits0") % 16) \o Charset(Get(m, "bits0") \div 16)
       [] class = 5 -> OpaqueFields(m, ctx)
       [] class = 6 -> Subs("members", "member", inner, TypeCount(m))
       [] class = 8 -> EnumFields(m, ctx)
       [] class = 9 -> VlenFields(m, ctx)
       [] class = 10 -> ArrayFields(m, ctx)
       [] OTHER -> <<>>       \* a reference, or a class that is not decoded

RECURSIVE TypeOf(_)

\* The type a datatype's fields describe.  A member of a version 1 compound type
\* with a rank is an array of what it stores.
TypeOf(t) ==
  LET class == t.head % 16
      kid(name, at, dims, type) == [name |-> name, at |-> at, dims |-> dims, type |-> TypeOf(type)]
      member(m) == kid(m.name, m.offset,
                       IF "rank" \in DOMAIN m THEN SubSeq(m.dims, 1, m.rank) ELSE <<>>, m.type[1])
  IN [class |-> class, size |-> t.size,
      kids |-> CASE class = 6 -> [k \in DOMAIN t.members |-> member(t.members[k])]
                 [] class \in {8, 9, 10} ->
                      <<kid(0, 0, IF class = 10 THEN t.dims ELSE <<>>, t.base[1])>>
                 [] OTHER -> <<>>]

RECURSIVE IsDecodable(_)
IsDecodable(type) ==
  IF type.class \in {6, 10} THEN \A k \in DOMAIN type.kids : IsDecodable(type.kids[k].type)
  ELSE type.class \in {0, 1, 3, 5, 7, 8, 9}

-----------------------------------------------------------------------------
\* Attribute::read: version 1 pads its three blocks.  The value is the rest of
\* a message's body, and in a heap, where records follow each other, as long as
\* the type and the shape imply.
AttributeFields(m, ctx) ==
  LET version == Get(m, "version")
      padded(w) == IF version = 1 THEN PadTo(w, 8) ELSE w
  IN
  Uint("version", 1) \o Refuse(version \notin 1..3, "unsupported") \o Uint("flags", 1)
  \o Uint("nameLen", 2) \o Uint("typeLen", 2) \o Uint("spaceLen", 2)
  \o Refuse(version # 1 /\ Get(m, "flags") % 4 # 0, "unsupported")
  \o When(version = 3, Skip(1))
  \o Bytes("name", padded(Get(m, "nameLen")))
  \o Inside("datatype", "datatype", ctx, padded(Get(m, "typeLen")))
  \o Inside("dataspace", "dataspace", ctx, padded(Get(m, "spaceLen")))
  \o (IF ~ctx.framed /\ "dataspace" \in DOMAIN m
      THEN Bytes("data", DataspaceCount(m.dataspace) * m.datatype.size)
      ELSE Item("data", "rest"))

\* SymbolTableEntry::parse, with its scratch pad.
EntryFields(m, ctx) ==
  Uint("nameOffset", ctx.offset) \o Addr("header", ctx.offset)
  \o Uint("cache", 4) \o Skip(4)
  \o Inside("scratch", CASE Get(m, "cache") = 1 -> "symbolTable"
                         [] Get(m, "cache") = 2 -> "linkOffset"
                         [] OTHER -> "nothing", ctx, 16)

LinkOffsetFields(m, ctx) == Uint("linkOffset", 4)

EncodedLen(sz) == sz.offset * 2 + 4 + 4 + 16

ValidSizes(m) ==
  Refuse(Get(m, "offsetSize") \notin {1, 2, 4, 8} \/ Get(m, "lengthSize") \notin {1, 2, 4, 8},
         "unsupported")

\* Superblock::parse_v0_v1
SuperblockOldFields(m, ctx) ==
  LET sz == [ctx EXCEPT !.offset = Get(m, "offsetSize"), !.length = Get(m, "lengthSize")] IN
  Skip(1) \o Skip(1) \o Skip(1) \o Skip(1) \o Uint("offsetSize", 1) \o Uint("lengthSize", 1)
  \o Skip(1) \o ValidSizes(m)
  \o Uint("leafK", 2) \o Uint("internalK", 2) \o Skip(4)
  \o When(Get(m, "version") = 1, Uint("istoreK", 2) \o Skip(2))
  \o Uint("base", sz.offset) \o Addr("freeSpace", sz.offset) \o Uint("eof", sz.offset)
  \o Addr("driver", sz.offset)
  \o Item("left", "left") \o Refuse(Get(m, "left") < EncodedLen(sz), "malformed")
  \o Subs("root", "entry", sz, 1)

\* Superblock::parse_v2_v3
SuperblockNewFields(m, ctx) ==
  LET w == Get(m, "offsetSize") IN
  Uint("offsetSize", 1) \o Uint("lengthSize", 1) \o ValidSizes(m) \o Skip(1)
  \o Uint("base", w) \o Addr("extension", w) \o Uint("eof", w) \o AddrRequired("rootHeader", w)
  \o Item("sum", "sum")

\* Superblock::parse_at, after the signature.
SuperblockFields(m, ctx) ==
  Skip(8) \o Uint("version", 1) \o Refuse(Get(m, "version") > 3, "unsupported")
  \o IF Get(m, "version") < 2 THEN SuperblockOldFields(m, ctx) ELSE SuperblockNewFields(m, ctx)

-----------------------------------------------------------------------------
FieldsOf(kind, m, ctx) ==
  CASE kind = "link" -> LinkFields(m, ctx)
    [] kind = "linkInfo" -> LinkInfoFields(m, ctx)
    [] kind = "attributeInfo" -> AttributeInfoFields(m, ctx)
    [] kind = "symbolTable" -> SymbolTableFields(m, ctx)
    [] kind = "dataspace" -> DataspaceFields(m, ctx)
    [] kind = "fill" -> FillValueFields(m, ctx)
    [] kind = "fillOld" -> FillValueOldFields(m, ctx)
    [] kind = "filter" -> FilterFields(m, ctx)
    [] kind = "pipeline" -> PipelineFields(m, ctx)
    [] kind = "layout" -> LayoutFields(m, ctx)
    [] kind = "shared" -> SharedFields(m, ctx)
    [] kind = "datatype" -> DatatypeFields(m, ctx)
    [] kind = "member" -> MemberFields(m, ctx)
    [] kind = "enumName" -> EnumNameFields(m, ctx)
    [] kind = "attribute" -> AttributeFields(m, ctx)
    [] kind = "entry" -> EntryFields(m, ctx)
    [] kind = "linkOffset" -> LinkOffsetFields(m, ctx)
    [] kind = "superblock" -> SuperblockFields(m, ctx)
    [] kind = "classic" -> ClassicFields(m, ctx)
    [] kind = "dimension" -> DimensionFields(m, ctx)
    [] kind = "classicAttribute" -> ClassicAttributeFields(m, ctx)
    [] kind = "variable" -> VariableFields(m, ctx)
    [] kind = "nothing" -> <<>>

RECURSIVE Parse(_, _, _, _, _, _)

At(v, next) == [v |-> v, next |-> next]

\* One item at field i of a body: its value and the field after it.
ReadItem(f, body, i) ==
  CASE f.how = "refuse" -> Err(f.e)
    [] f.how = "left" -> Ok(At(Remaining(body, i), i))
    [] f.how = "rest" -> Ok(At([k \in 1..(Len(body) + 1 - i) |-> body[i + k - 1].v], Len(body) + 1))
    [] f.how = "sum" ->
         Then(TakeField(body, i, 4), LAMBDA good : Check(good = 1, "checksum", Ok(At(good, i + 1))))
    [] f.how = "uint" ->
         Then(uint(body, i, f.w), LAMBDA v : Ok(At(v, IF f.w = 0 THEN i ELSE i + 1)))
    [] f.how = "bytes" ->
         Then(SkipFields(body, i, f.w), LAMBDA next :
           Ok(At([k \in 1..(next - i) |-> body[i + k - 1].v], next)))
    [] f.how = "many" ->
         Loop(LAMBDA acc, k : Then(uint(body, acc.next, f.w), LAMBDA v :
                                Ok(At(Append(acc.v, v), acc.next + 1))), At(<<>>, i), Span(f.k))
    [] f.how = "addr" ->
         Then(uint(body, i, f.w), LAMBDA v :
           Check(f.required => v # AllOnes, "malformed",
                 Ok(At(IF v = AllOnes THEN NoAddr ELSE v, i + 1))))
    [] f.how = "str" -> cstring_padded(body, i, f.align)
    [] f.how = "subs" ->
         Loop(LAMBDA acc, k : Then(Parse(f.kind, f.ctx, body, acc.next, <<>>, 0), LAMBDA r :
                                Ok(At(Append(acc.v, r.v), r.next))), At(<<>>, i), Span(f.k))
    [] f.how = "inside" ->
         Then(TakeField(body, i, f.w), LAMBDA v :
           Check("in" \in DOMAIN body[i], "desync",
           Then(Parse(f.kind, f.ctx, body[i].in, 1, <<>>, 0), LAMBDA r : Ok(At(r.v, i + 1)))))

\* Parse a message from field i on: the items after the n read so far.
Parse(kind, ctx, body, i, m, n) ==
  LET items == FieldsOf(kind, m, ctx) IN
  IF n >= Len(items) THEN Ok(At(m, i))
  ELSE Then(ReadItem(items[n + 1], body, i), LAMBDA r :
         Parse(kind, ctx, body, r.next, (items[n + 1].name :> r.v) @@ m, n + 1))

ParseMessage(kind, ctx, body) == Parse(kind, ctx, body, 1, <<>>, 0)

-----------------------------------------------------------------------------
UserBlocks == {512 * 2^k : k \in 0..7}   \* bound: a user block of up to 64 KiB

\* What the eight bytes at an offset say.
MagicAt(file, o) == IF o \in DOMAIN file.magic THEN file.magic[o] ELSE "other"

\* detect_container
detect_container(file) ==
  LET first == MagicAt(file, 0) IN
  IF file.size >= 8 /\ first \in {"hdf5", "cdf1", "cdf2", "cdf5"} THEN Ok(first)
  ELSE Check(\E o \in UserBlocks : o + 8 <= file.size /\ MagicAt(file, o) = "hdf5",
             "malformed", Ok("hdf5"))

SuperblockLen == 96

\* Superblock::read: the first offset that holds a signature is the one parsed.
ReadSuperblock(file) ==
  LET found == {o \in {0} \cup UserBlocks : o + 8 <= file.size /\ MagicAt(file, o) = "hdf5"} IN
  Check(found # {}, "malformed",
  LET at == CHOOSE o \in found : \A p \in found : o <= p
      avail == IF file.size - at < SuperblockLen THEN file.size - at ELSE SuperblockLen
  IN Then(ParseMessage("superblock", [offset |-> 8, length |-> 8, version |-> 0, size |-> 0,
                                      framed |-> TRUE], Cut(file.at[at], avail)),
          LAMBDA r : Ok([at |-> at] @@ r.v)))

\* root_object_header_address
RootHeader(sb) ==
  IF "rootHeader" \in DOMAIN sb THEN Ok(sb.rootHeader)
  ELSE Check(sb.root[1].header # NoAddr, "malformed", Ok(sb.root[1].header))
=============================================================================
