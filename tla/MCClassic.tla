------------------------------- MODULE MCClassic -------------------------------
(***************************************************************************)
(* Classic files as a writer lays them out, and the calls on them.         *)
(***************************************************************************)
EXTENDS Classic

Opt(cond, s) == IF cond THEN s ELSE <<>>
F(w, v) == [w |-> w, v |-> v]
Pad(n) == Opt(n % 4 # 0, <<F(4 - (n % 4), 0)>>)
Up4(n) == n + ((4 - (n % 4)) % 4)

(* A name is its length and a number; an attribute has its bytes.          *)
Name(w, n) == <<F(w, n[1])>> \o <<F(n[1], n[2])>> \o Pad(n[1])
List(w, tag, items) ==
  <<F(4, IF items = <<>> THEN 0 ELSE tag), F(w, Len(items))>> \o FlattenSeq(items)

MCFillName == <<77>>
MCUsizeMax == 20
Att(name, type, bytes) == [name |-> name, type |-> type, bytes |-> bytes]
AttFields(w, a) ==
  Name(w, a.name) \o <<F(4, a.type), F(w, Len(a.bytes) \div TypeSize(a.type))>>
  \o [k \in DOMAIN a.bytes |-> F(1, a.bytes[k])] \o Pad(Len(a.bytes))
Atts(w, as) == List(w, 12, [k \in DOMAIN as |-> AttFields(w, as[k])])

(* A file: dims as <<name, length>>, length 0 for the records; variables   *)
(* with the numbers of their dimensions.                                   *)
Var(name, dims, type, atts) == [name |-> name, dims |-> dims, type |-> type, atts |-> atts]

VarFields(w, ow, v, begin) ==
  Name(w, v.name) \o <<F(w, Len(v.dims))>> \o [k \in DOMAIN v.dims |-> F(w, v.dims[k])]
  \o Atts(w, v.atts) \o <<F(4, v.type), F(w, 0), F(ow, begin)>>

Body(s, begins) ==
  LET w == IF s.magic = "cdf5" THEN 8 ELSE 4
      ow == IF s.magic = "cdf1" THEN 4 ELSE 8
  IN <<F(4, 0), F(w, s.records)>>
     \o List(w, 10, [k \in DOMAIN s.dims |-> Name(w, s.dims[k][1]) \o <<F(w, s.dims[k][2])>>])
     \o Atts(w, s.atts)
     \o List(w, 11, [k \in DOMAIN s.vars |-> VarFields(w, ow, s.vars[k], begins[k])])

IsRecord(s, v) == v.dims # <<>> /\ s.dims[v.dims[1] + 1][2] = 0
ShapeOf(s, v) ==
  [k \in DOMAIN v.dims |-> LET n == s.dims[v.dims[k] + 1][2] IN IF n = 0 THEN s.records ELSE n]
RECURSIVE Volume(_)
Volume(shape) == IF shape = <<>> THEN 1 ELSE Head(shape) * Volume(Tail(shape))
BytesOfVar(s, v) ==
  TypeSize(v.type) * Volume(IF IsRecord(s, v) THEN Tail(ShapeOf(s, v)) ELSE ShapeOf(s, v))

(* Fixed variables come first, each padded; then the records, each made of *)
(* the padded slabs of all record variables.  A lone one is not padded.    *)
Lone(s) == Cardinality({k \in DOMAIN s.vars : IsRecord(s, s.vars[k])}) = 1
Slot(s, v) == IF IsRecord(s, v) /\ Lone(s) THEN BytesOfVar(s, v) ELSE Up4(BytesOfVar(s, v))
SlotsBefore(s, k, record) ==
  FoldLeft(LAMBDA sum, j : sum + (IF IsRecord(s, s.vars[j]) = record THEN Slot(s, s.vars[j]) ELSE 0),
           0, Span(k - 1))
HeaderLen(s) == Remaining(Body(s, [k \in DOMAIN s.vars |-> 0]), 1)
FixedEnd(s) == HeaderLen(s) + SlotsBefore(s, Len(s.vars) + 1, FALSE)
Begins(s) ==
  [k \in DOMAIN s.vars |->
     IF IsRecord(s, s.vars[k]) THEN FixedEnd(s) + SlotsBefore(s, k, TRUE)
     ELSE HeaderLen(s) + SlotsBefore(s, k, FALSE)]

Indexes(shape) ==
  {i \in [DOMAIN shape -> 0..11] : \A k \in DOMAIN shape : i[k] < shape[k]}
RECURSIVE Rank(_, _)
Rank(shape, i) ==
  IF shape = <<>> THEN 0 ELSE Head(i) * Volume(Tail(shape)) + Rank(Tail(shape), Tail(i))

OffsetOf(s, k, i) ==
  LET v == s.vars[k] shape == ShapeOf(s, v) IN
  IF IsRecord(s, v)
  THEN Begins(s)[k] + i[1] * SlotsBefore(s, Len(s.vars) + 1, TRUE)
       + TypeSize(v.type) * Rank(Tail(shape), Tail(i))
  ELSE Begins(s)[k] + TypeSize(v.type) * Rank(shape, i)

Meaning(as) ==
  [k \in DOMAIN as |-> [name |-> <<as[k].name[2]>>, value |-> as[k].value]]

File(s) ==
  [magic |-> s.magic, body |-> Body(s, Begins(s)), sound |-> TRUE,
   size |-> FixedEnd(s) + s.records * SlotsBefore(s, Len(s.vars) + 1, TRUE),
   types |-> [k \in DOMAIN s.vars |-> s.vars[k].type],
   records |-> [k \in DOMAIN s.vars |-> IsRecord(s, s.vars[k])],
   shapes |-> [k \in DOMAIN s.vars |-> ShapeOf(s, s.vars[k])],
   at |-> [k \in DOMAIN s.vars |->
             [i \in Indexes(ShapeOf(s, s.vars[k])) |-> OffsetOf(s, k, i)]],
   meant |-> [dimensions |-> [k \in DOMAIN s.dims |->
                [name |-> <<s.dims[k][1][2]>>, is_unlimited |-> s.dims[k][2] = 0,
                 len |-> IF s.dims[k][2] = 0 THEN s.records ELSE s.dims[k][2],
                 has_coordinate_variable |-> \E j \in DOMAIN s.vars : s.vars[j].name = s.dims[k][1]]],
              variables |-> [k \in DOMAIN s.vars |->
                [name |-> <<s.vars[k].name[2]>>, shape |-> ShapeOf(s, s.vars[k]),
                 attributes |-> Meaning(s.vars[k].atts),
                 is_coordinate |-> Len(s.vars[k].dims) = 1
                                   /\ s.dims[s.vars[k].dims[1] + 1][1] = s.vars[k].name]],
              attributes |-> Meaning(s.atts)],
   fills |-> [k \in DOMAIN s.vars |->
                LET own == SelectSeq(s.vars[k].atts, LAMBDA a : <<a.name[2]>> = MCFillName)
                IN IF own = <<>> THEN <<>> ELSE own[1].value.values]]

-----------------------------------------------------------------------------
T == <<1, 11>>  X == <<3, 12>>  Y == <<4, 13>>

FillAtt == Att(<<2, 77>>, 3, <<255, 254>>) @@ [value |-> [variant |-> <<"Int", 2>>, values |-> <<-2>>]]
TextAtt == Att(<<5, 21>>, 2, <<65, 66, 67>>) @@ [value |-> [variant |-> <<"Str">>, values |-> <<65, 66, 67>>]]

Fixed(magic) ==
  [magic |-> magic, records |-> 0, dims |-> <<<<X, 2>>, <<Y, 3>>>>, atts |-> <<TextAtt>>,
   vars |-> <<Var(X, <<0>>, 1, <<>>), Var(<<2, 31>>, <<0, 1>>, 3, <<>>), Var(<<1, 32>>, <<>>, 4, <<>>)>>]
LoneRecord(magic) ==
  [magic |-> magic, records |-> 3, dims |-> <<<<T, 0>>, <<Y, 3>>>>, atts |-> <<>>,
   vars |-> <<Var(<<1, 33>>, <<0, 1>>, 2, <<>>)>>]
Mixed(magic, n) ==
  [magic |-> magic, records |-> n, dims |-> <<<<X, 2>>, <<T, 0>>>>, atts |-> <<>>,
   vars |-> <<Var(T, <<1>>, 1, <<>>), Var(<<4, 35>>, <<0>>, 2, <<>>),
              Var(<<1, 34>>, <<1, 0, 0>>, 3, <<FillAtt>>)>>]
(* A record in each page, and more of them than MaxRounds allows rounds.     *)
Long ==
  [magic |-> "cdf2", records |-> 6, dims |-> <<<<T, 0>>, <<Y, 12>>>>, atts |-> <<>>,
   vars |-> <<Var(T, <<0>>, 1, <<>>), Var(<<1, 36>>, <<0, 1>>, 2, <<>>)>>]
Empty == [magic |-> "cdf1", records |-> 0, dims |-> <<>>, atts |-> <<>>, vars |-> <<>>]

Specs ==
  {Fixed("cdf1"), LoneRecord("cdf2"), Mixed("cdf1", 2), Mixed("cdf2", 1), Mixed("cdf1", 0), Long, Empty,
   LoneRecord("cdf5")}

(* Files cut inside the header, with a wrong tag, type or dimension.       *)
Broken(s, i, v) == [File(s) EXCEPT !.sound = FALSE, !.body[i].v = v]
FieldOf(s, what) ==
  LET body == File(s).body
      hits == {i \in DOMAIN body : body[i].w = 4 /\ body[i].v = what}
  IN CHOOSE i \in hits : \A j \in hits : i <= j

MCFiles ==
  {File(s) : s \in Specs}
  \cup {[File(Fixed("cdf1")) EXCEPT !.sound = FALSE, !.size = n] : n \in {7, 9, 40}}
  \cup {Broken(Fixed("cdf1"), FieldOf(Fixed("cdf1"), tag), 9) : tag \in 10..12}
  \cup {[File(LoneRecord("cdf1")) EXCEPT !.sound = FALSE, !.magic = "other"]}

(* Axes: everything, one element, a range, and ones outside.               *)
Axis(form, i, j) == [form |-> form, i |-> i, j |-> j]
AxesOf(n) ==
  {[axis |-> Axis("..", 0, 0), pick |-> [k \in 1..n |-> k - 1], legal |-> TRUE],
   [axis |-> Axis("i", 1, 0), pick |-> <<1>>, legal |-> 1 < n],
   [axis |-> Axis("i..j", 1, 1), pick |-> <<>>, legal |-> 1 <= n],
   [axis |-> Axis("i..j", 1, 3), pick |-> <<1, 2>>, legal |-> 3 <= n]}

RECURSIVE Requests(_)
Requests(shape) ==
  IF shape = <<>> THEN {<<>>}
  ELSE {<<a>> \o rest : a \in AxesOf(Head(shape)), rest \in Requests(Tail(shape))}

Call(op, k, as, picks, axes, legal, want) ==
  [op |-> op, var |-> k, as |-> as, picks |-> picks, legal |-> legal, want |-> want,
   request |-> [all |-> FALSE, axes |-> axes]]
Int16 == [signed |-> TRUE, size |-> 2]

MCCalls(f) ==
  UNION {
    LET shape == f.shapes[k]
        char == f.types[k] = 2
        whole == [j \in DOMAIN shape |-> [n \in 1..shape[j] |-> n - 1]]
        all(op, legal) == [Call(op, k, Int16, whole, <<>>, legal, <<>>) EXCEPT !.request.all = TRUE]
        ops == {"raw"} \cup (IF char THEN {"strings"} ELSE IF f.types[k] \in {1, 3} THEN {"values", "value"} ELSE {})
        single(r) == \A j \in DOMAIN r : Len(r[j].pick) = 1
    IN {Call(op, k, Int16, [j \in DOMAIN r |-> r[j].pick], [j \in DOMAIN r |-> r[j].axis],
             (\A j \in DOMAIN r : r[j].legal) /\ (op = "value" => single(r)), <<>>)
          : op \in ops, r \in Requests(shape)}
       \cup {all("raw", TRUE), all("rows", char)}
       \cup (IF f.types[k] \in {1, 3} THEN {all("numbers", TRUE)} ELSE {})
       \cup {Call("fill", k, Int16, <<>>, <<>>, TRUE, f.fills[k])}
    : k \in DOMAIN f.types}
================================================================================
