------------------------------- MODULE Values --------------------------------
(***************************************************************************)
(* From the bytes of a read to values: numbers and strings (read.rs,       *)
(* dtype.rs), variable-length values in the global heap (heap.rs,          *)
(* read.rs), attribute values (netcdf.rs) and fill values.                 *)
(*                                                                         *)
(* A byte is a number below 256; the machine is little-endian.  A datatype *)
(* is a record of its class, size, byte order and what its class needs.    *)
(* Floats are kept as their bytes: a conversion between floats and         *)
(* integers is the machine's.                                              *)
(***************************************************************************)
EXTENDS Integers, Results

Below(a, b) == IF a < b THEN a ELSE b

ReverseEach(bytes, size) ==
  IF size <= 1 THEN bytes
  ELSE [i \in DOMAIN bytes |->
          IF i > (Len(bytes) \div size) * size THEN bytes[i]
          ELSE bytes[((i - 1) \div size) * size + size - ((i - 1) % size)]]

\* The end of read_hyperslab: descriptors of variable-length values are stored
\* little-endian whatever their type says.
ToNativeOrder(bytes, type) ==
  IF type.class # "vlen" /\ type.big THEN ReverseEach(bytes, type.size) ELSE bytes

ElementsOf(bytes, size) ==
  IF size = 0 THEN <<>>
  ELSE [k \in 1..(Len(bytes) \div size) |-> SubSeq(bytes, (k - 1) * size + 1, k * size)]

-----------------------------------------------------------------------------
read_unsigned(bytes) ==
  Check(Len(bytes) \in 1..8, "unsupported",
        Ok(FoldLeft(LAMBDA s, i : s + bytes[i] * 256^(i - 1), 0, Span(Len(bytes)))))

\* A number of n bytes read as two's complement.
SignExtend(v, n) == IF 2 * v >= 256^n THEN v - 256^n ELSE v

read_integer(bytes, signed) ==
  Then(read_unsigned(bytes), LAMBDA v : Ok(IF signed THEN SignExtend(v, Len(bytes)) ELSE v))

\* `value as T`: the low bytes, in T's signedness.
Cast(v, T) == IF T.signed THEN SignExtend(v % 256^T.size, T.size) ELSE v % 256^T.size

\* RawData::get_of for an integer T: a stored T is copied, another integer is
\* converted.
get_of(bytes, type, T) ==
  Check(type.class = "int", "type",
  IF type.signed = T.signed /\ type.size = T.size
  THEN Ok([k \in DOMAIN ElementsOf(bytes, T.size) |->
             read_integer(ElementsOf(bytes, T.size)[k], T.signed).v])
  ELSE MapAll(LAMBDA b : Then(IF type.signed THEN read_integer(b, TRUE) ELSE read_unsigned(b),
                              LAMBDA v : Ok(Cast(v, T))),
              ElementsOf(bytes, type.size)))

\* The first NUL ends a string.
UpToNul(raw) ==
  LET nuls == {i \in DOMAIN raw : raw[i] = 0}
  IN IF nuls = {} THEN raw ELSE SubSeq(raw, 1, (CHOOSE i \in nuls : \A j \in nuls : i <= j) - 1)

Space == 32

\* The value of one fixed-width string; in a space-padded one trailing spaces
\* are padding.
Unpad(raw, pad) ==
  LET kept == UpToNul(raw)
      solid == {i \in DOMAIN kept : kept[i] # Space}
  IN IF pad # "space" THEN kept
     ELSE SubSeq(kept, 1, IF solid = {} THEN 0 ELSE CHOOSE i \in solid : \A j \in solid : j <= i)

to_strings_of(bytes, type) ==
  Check(type.class = "string", "unsupported",
        Ok([k \in DOMAIN ElementsOf(bytes, type.size) |->
              Unpad(ElementsOf(bytes, type.size)[k], type.pad)]))

\* DType::of, as a pair of a kind and a size.
DTypeOf(type) ==
  CASE type.class = "int" -> <<IF type.signed THEN "Int" ELSE "Uint", type.size % 256>>
    [] type.class = "float" -> <<"Float", type.size % 256>>
    [] type.class = "string" -> IF type.size = 1 THEN <<"Char", 1>> ELSE <<"FixedString", type.size>>
    [] type.class = "vlen" -> <<IF type.kind = "string" THEN "String" ELSE "Vlen", 0>>
    [] OTHER -> <<"Other", 0>>

-----------------------------------------------------------------------------
CollectionHeaderLen(sz) == 8 + sz.length
ObjectHeaderLen(sz) == 8 + sz.length

RECURSIVE HeapObjects(_, _, _, _)

\* The loop of GlobalHeap::read over the `left` bytes of a collection: each
\* object is padded to 8 bytes, and object 0 is the free space at the end.
HeapObjects(sz, objs, left, out) ==
  IF left < ObjectHeaderLen(sz) \/ objs = <<>> THEN Ok(out)
  ELSE LET o == Head(objs)
           after == left - ObjectHeaderLen(sz)
           pad == (8 - (o.size % 8)) % 8
       IN IF o.index = 0 THEN Ok(out)
          ELSE Check(o.size <= after, "malformed",
               IF after - o.size < pad THEN Ok(Append(out, o))
               ELSE HeapObjects(sz, Tail(objs), after - o.size - pad, Append(out, o)))

\* GlobalHeap::read
ReadCollection(file, sz, address) ==
  Then(Fetch(file, address), LAMBDA c :
    Check(c.sig = "GCOL", "malformed",
    Check(c.version = 1, "unsupported",
    Check(c.size >= CollectionHeaderLen(sz), "malformed",
    Check(c.size <= c.bytesInFile, "bounds",
          HeapObjects(sz, c.objs, c.size - CollectionHeaderLen(sz), <<>>))))))

\* GlobalHeap::object
HeapObject(objs, index) ==
  LET hits == SelectSeq(objs, LAMBDA o : o.index = index)
  IN Check(hits # <<>>, "malformed", Ok(hits[1].data))

DescriptorLen(sz) == 4 + sz.offset + 4
Undefined == -1        \* an address of all ones

\* with_vlen_descriptors: each element's bytes in the heap.
WithVlenDescriptors(file, sz, elementSize, descriptors, Decode(_, _)) ==
  Check(elementSize >= DescriptorLen(sz), "malformed",
    MapAll(LAMBDA d :
      Check(d.address # Undefined, "malformed",
      IF d.length = 0 THEN Ok(Decode(<<>>, 0))
      ELSE Then(ReadCollection(file, sz, d.address), LAMBDA objs :
             Then(HeapObject(objs, d.index % 65536), LAMBDA data :
               Ok(Decode(data, d.length))))), descriptors))

resolve_vlen_strings_of(file, sz, elementSize, descriptors) ==
  WithVlenDescriptors(file, sz, elementSize, descriptors,
    LAMBDA bytes, length : UpToNul(SubSeq(bytes, 1, Below(length, Len(bytes)))))

\* The length counts values of the base type, not bytes.
resolve_vlen_sequences(file, sz, type, descriptors) ==
  Check(type.class = "vlen" /\ type.kind = "sequence", "unsupported",
  WithVlenDescriptors(file, sz, type.size, descriptors,
    LAMBDA bytes, length :
      LET values == SubSeq(bytes, 1, Below(length * type.base.size, Len(bytes)))
      IN IF type.base.big THEN ReverseEach(values, type.base.size) ELSE values))

\* resolve_vlen_strings
resolve_vlen_strings(file, sz, type, descriptors) ==
  Check(type.class = "vlen" /\ type.kind = "string", "unsupported",
        resolve_vlen_strings_of(file, sz, type.size, descriptors))

-----------------------------------------------------------------------------
\* Mutant: the buffer alone says how many values there are.
AttributeCountOfBuffer(attr) ==
  IF attr.type.size = 0 THEN 0 ELSE Len(attr.data) \div attr.type.size

\* The dataspace says how many values there are; a version 1 message pads the
\* bytes, and a cut message has fewer.
attribute_element_count(attr) ==
  IF attr.type.size = 0 THEN 0 ELSE Below(attr.count, Len(attr.data) \div attr.type.size)

\* The values of an attribute in native order: element, needs_swap.
AttributeElements(attr) ==
  [k \in 1..attribute_element_count(attr) |->
     LET raw == SubSeq(attr.data, (k - 1) * attr.type.size + 1, k * attr.type.size)
     IN IF attr.type.big THEN Reverse(raw) ELSE raw]

\* decode_all_text, joined: an attribute of chars is one text.
AttributeText(attr) ==
  LET size == attr.type.size
      count == IF attribute_element_count(attr) = 0 THEN 1 ELSE attribute_element_count(attr)
      part(k) == SubSeq(attr.data, (k - 1) * size + 1, Below(k * size, Len(attr.data)))
  IN IF size = 0 THEN <<>>
     ELSE FoldLeft(LAMBDA text, k : text \o Unpad(part(k), attr.type.pad), <<>>, Span(count))

RawValue(attr) == [variant |-> <<"Raw">>, values |-> attr.data]
OneOrMany(one, many, values) ==
  [variant |-> IF Len(values) = 1 THEN one ELSE many, values |-> values]

\* decode_value: what cannot be decoded stays as its bytes.
decode_value(attr, file, sz) ==
  CASE attr.type.class = "string" -> [variant |-> <<"Str">>, values |-> AttributeText(attr)]
    [] attr.type.class = "vlen" ->
         LET text == IF attr.type.kind # "string" THEN Err("unsupported")
                     ELSE resolve_vlen_strings_of(file, sz, attr.type.size, attr.descriptors)
         IN IF text.ok THEN [variant |-> <<"Strs">>, values |-> text.v] ELSE RawValue(attr)
    [] attr.type.class = "int" /\ attr.type.size \in {1, 2, 4, 8} ->
         OneOrMany(DTypeOf(attr.type), DTypeOf(attr.type) \o <<"s">>,
                   [k \in DOMAIN AttributeElements(attr) |->
                      read_integer(AttributeElements(attr)[k], attr.type.signed).v])
    [] attr.type.class = "float" /\ attr.type.size \in {4, 8} ->
         OneOrMany(DTypeOf(attr.type), DTypeOf(attr.type) \o <<"s">>, AttributeElements(attr))
    [] OTHER -> RawValue(attr)

\* scalar_from_attribute for an integer T, as a sequence of at most one value.
scalar_from_attribute(value, T) ==
  IF value.variant[1] \in {"Int", "Uint"} /\ value.values # <<>>
  THEN <<Cast(value.values[1], T)>> ELSE <<>>

\* one_value
one_value(values) == Check(Len(values) = 1, "request", Ok(values[1]))

-----------------------------------------------------------------------------
RECURSIVE Tile(_, _)

\* The tiling loop: copy what is written behind itself, as much as fits.
Tile(buf, len) ==
  IF Len(buf) >= len THEN buf ELSE Tile(buf \o SubSeq(buf, 1, Below(Len(buf), len - Len(buf))), len)

\* FillValue::fill
fill(bytes, len, elementSize) ==
  IF bytes = <<>> \/ elementSize = 0 \/ Len(bytes) # elementSize THEN [i \in 1..len |-> 0]
  ELSE Tile(SubSeq(bytes, 1, Below(elementSize, len)), len)

-----------------------------------------------------------------------------
\* LocalHeap::read and name_at: the name at an offset of the heap's segment.
LocalHeapName(file, address, offset) ==
  Then(Fetch(file, address), LAMBDA h :
    Check(h.sig = "HEAP", "malformed",
    Check(h.version = 0, "unsupported",
    Check(h.segment # Undefined, "malformed",
    Then(Fetch(file, h.segment), LAMBDA bytes :
      Check(h.size <= Len(bytes), "bounds",
      Check(offset < h.size, "malformed",
            Ok(UpToNul(SubSeq(bytes, offset + 1, h.size))))))))))
=============================================================================
