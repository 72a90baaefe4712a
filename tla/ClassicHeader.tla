---------------------------- MODULE ClassicHeader ----------------------------
(***************************************************************************)
(* The header of a classic netCDF file (classic.rs): which fields it has,  *)
(* and what the reader makes of them.                                      *)
(***************************************************************************)
EXTENDS Grammar

NC_DIMENSION == 10
NC_VARIABLE  == 11
NC_ATTRIBUTE == 12

pad4(n) == PadTo(n, 4)

\* NcType::from_code and size.
TypeCodes == 1..11
TypeSize(code) == <<1, 1, 2, 4, 4, 8, 1, 2, 4, 8, 8>>[code]
Char == 2

\* to_datatype: values are big-endian, and a char is a string of one byte.
ToDatatype(code) ==
  LET size == TypeSize(code) IN
  CASE code = Char -> [class |-> "string", size |-> 1, pad |-> "term", big |-> TRUE]
    [] code \in {5, 6} -> [class |-> "float", size |-> size, big |-> TRUE]
    [] OTHER -> [class |-> "int", size |-> size, signed |-> code \in {1, 3, 4, 10}, big |-> TRUE]

\* read_name
NameFields(m, ctx) ==
  LET len == Get(m, "nameLen") IN
  Uint("nameLen", ctx.length) \o Bytes("name", len) \o Skip(pad4(len) - len)

\* A list: its tag and its count, and its items when it is there.
ListFields(m, tag, count, code, items) ==
  Uint(tag[1], 4) \o Uint(count[1], count[2])
  \o Refuse(Get(m, tag[1]) \notin {0, code}, "malformed")
  \o When(Get(m, tag[1]) = code, items)

DimensionFields(m, ctx) == NameFields(m, ctx) \o Uint("len", ctx.length)

\* One attribute of read_attributes, its value padded to 4 bytes.
ClassicAttributeFields(m, ctx) ==
  LET code == Get(m, "type")
      bytes == IF code \in TypeCodes THEN Get(m, "n") * TypeSize(code) ELSE 0
  IN NameFields(m, ctx) \o Uint("type", 4) \o Refuse(code \notin TypeCodes, "malformed")
     \o Uint("n", ctx.length) \o Bytes("raw", bytes) \o Skip(pad4(bytes) - bytes)

ReadAttributesFields(m, ctx) ==
  ListFields(m, <<"attTag">>, <<"attCount", ctx.length>>, NC_ATTRIBUTE,
             Subs("attributes", "classicAttribute", ctx, Get(m, "attCount")))

\* One variable; ctx.size is the number of the file's dimensions.
VariableFields(m, ctx) ==
  NameFields(m, ctx) \o Uint("rank", ctx.length) \o Many("dimIds", ctx.length, Get(m, "rank"))
  \o ReadAttributesFields(m, ctx)
  \o Uint("type", 4) \o Refuse(Get(m, "type") \notin TypeCodes, "malformed")
  \o Uint("vsize", ctx.length) \o Uint("begin", ctx.offset)
  \o Refuse(\E k \in DOMAIN GetSeq(m, "dimIds") : m.dimIds[k] >= ctx.size, "malformed")

\* Header::parse as far as the fields; the record count has 4 bytes in every
\* variant.
ClassicFields(m, ctx) ==
  Skip(4) \o Uint("records", 4)
  \o ListFields(m, <<"dimTag">>, <<"dimCount", ctx.length>>, NC_DIMENSION,
                Subs("dimensions", "dimension", ctx, Get(m, "dimCount")))
  \o ReadAttributesFields(m, ctx)
  \o ListFields(m, <<"varTag">>, <<"varCount", ctx.length>>, NC_VARIABLE,
                Subs("variables", "variable", [ctx EXCEPT !.size = Len(GetSeq(m, "dimensions"))],
                     Get(m, "varCount")))

-----------------------------------------------------------------------------
Product(s) == FoldLeft(LAMBDA p, n : p * n, 1, s)
SumOf(s) == FoldLeft(LAMBDA a, n : a + n, 0, s)

\* Mutant: the record dimension keeps the length in its entry.
DimensionAsStored(h, d) == [name |-> d.name, is_unlimited |-> d.len = 0, len |-> d.len]

\* A length of 0 marks the record dimension, whose length is the record count.
DimensionOf(h, d) ==
  [name |-> d.name, is_unlimited |-> d.len = 0, len |-> IF d.len = 0 THEN h.records ELSE d.len]

VariableOf(h, v) ==
  LET dims == [k \in DOMAIN v.dimIds |-> DimensionOf(h, h.dimensions[v.dimIds[k] + 1])]
      shape == [k \in DOMAIN dims |-> dims[k].len]
      record == dims # <<>> /\ dims[1].is_unlimited
  IN [name |-> v.name, dims |-> v.dimIds, shape |-> shape, type |-> v.type, begin |-> v.begin,
      attributes |-> GetSeq(v, "attributes"), is_record |-> record,
      per_record |-> IF record THEN Product(Tail(shape)) * TypeSize(v.type) ELSE 0]

\* Mutant: a lone record variable is padded like the others.
RecordStrideAlwaysPadded(records) ==
  SumOf([k \in DOMAIN records |-> pad4(records[k].per_record)])

\* With exactly one record variable there is no padding between records.
RecordStride(records) ==
  IF Len(records) = 1 THEN records[1].per_record
  ELSE SumOf([k \in DOMAIN records |-> pad4(records[k].per_record)])

\* Header::parse: what becomes of the fields.
HeaderOf(h) ==
  LET dims == GetSeq(h, "dimensions")
      vars == GetSeq(h, "variables")
      all == [k \in DOMAIN vars |-> VariableOf(h, vars[k])]
  IN [dimensions |-> [k \in DOMAIN dims |-> DimensionOf(h, dims[k])],
      attributes |-> GetSeq(h, "attributes"), variables |-> all, record_count |-> h.records,
      record_stride |-> RecordStride(SelectSeq(all, LAMBDA v : v.is_record))]
=============================================================================
