---------------------------- MODULE MessageWriter ----------------------------
(***************************************************************************)
(* Object header messages and superblocks as an HDF5 library writes them.  *)
(***************************************************************************)
EXTENDS StorageWriter

F(w, v) == [w |-> w, v |-> v]
Nested(w, body) == [w |-> w, v |-> 0, in |-> body]
NulText(w, v) == [w |-> w, v |-> v, nul |-> TRUE]
All(w, s) == [k \in DOMAIN s |-> F(w, s[k])]
WidthOf(body) == Remaining(body, 1)
Ctx(o, l) == [offset |-> o, length |-> l, version |-> 0, size |-> 0, framed |-> TRUE]

\* Texts and values, as numbers no other field has.
TheName == 1001  ThePath == 1002  TheValue == 1003  TheTag == 1004  TheFilter == 1005

\* A message, the numbers it says and the sequences it says.
Msg(kind, ctx, body, want, parts) ==
  [kind |-> kind, ctx |-> ctx, body |-> body, want |-> want, parts |-> parts]

-----------------------------------------------------------------------------
\* kind 99: the writer leaves the type byte out, and the link is a hard link.
LinkMsg(k, order, charset, kind, name) ==
  LET flags == k + (IF order THEN 4 ELSE 0) + (IF kind # 99 THEN 8 ELSE 0) + (IF charset THEN 16 ELSE 0)
      hard == kind \in {0, 99}
  IN Msg("link", Ctx(4, 2),
       <<F(1, 1), F(1, flags)>> \o Opt(kind # 99, <<F(1, kind)>>) \o Opt(order, <<F(8, 7)>>)
       \o Opt(charset, <<F(1, 1)>>) \o <<F(2^k, name)>> \o Opt(name > 0, <<F(name, TheName)>>)
       \o (IF hard THEN <<F(4, 77)>> ELSE <<F(2, 5), F(5, ThePath)>>),
       IF hard THEN [address |-> 77] ELSE [kind |-> kind],
       [name |-> Opt(name > 0, <<TheName>>), raw |-> Opt(~hard, <<ThePath>>)])

InfoMsg(kind, flags, heap) ==
  Msg(kind, Ctx(4, 2),
      <<F(1, 0), F(1, flags)>> \o Opt(flags % 2 = 1, <<F(IF kind = "linkInfo" THEN 8 ELSE 2, 9)>>)
      \o <<F(4, heap), F(4, 12)>> \o Opt(flags >= 2, <<F(4, 13)>>),
      [heap |-> IF heap = AllOnes THEN NoAddr ELSE heap, names |-> 12,
       orders |-> IF flags >= 2 THEN 13 ELSE NoAddr], <<>>)

SpaceBody(version, dims, flags, l) ==
  (IF version = 1 THEN <<F(1, 1), F(1, Len(dims)), F(1, flags), F(1, 0), F(4, 0)>>
   ELSE <<F(1, 2), F(1, Len(dims)), F(1, flags), F(1, IF dims = <<>> THEN 0 ELSE 1)>>)
  \o All(l, dims) \o Opt(flags % 2 = 1, All(l, dims))
  \o Opt(version = 1 /\ flags >= 2, All(l, dims))

SpaceMsg(version, dims, flags) ==
  Msg("dataspace", Ctx(4, 2), SpaceBody(version, dims, flags, 2),
      [rank |-> Len(dims)], [dims |-> dims])

\* n: the size of the value, 0 when there is none.
FillMsg(version, n) ==
  LET value == <<F(4, n)>> \o Opt(n > 0, <<F(n, TheValue)>>) IN
  Msg(IF version = 0 THEN "fillOld" ELSE "fill", Ctx(4, 2),
      CASE version = 0 -> value
        [] version = 1 -> <<F(1, 1), F(1, 2), F(1, 2), F(1, 1)>> \o value
        [] version = 2 -> <<F(1, 2), F(1, 2), F(1, 2), F(1, IF n > 0 THEN 1 ELSE 0)>> \o Opt(n > 0, value)
        [] version = 3 -> <<F(1, 3), F(1, IF n > 0 THEN 32 ELSE 0)>> \o Opt(n > 0, value),
      <<>>, [bytes |-> Opt(n > 0, <<TheValue>>)])

\* A filter is <<id, length of its name, number of parameters>>.
FilterBody(version, f) ==
  <<F(2, f[1])>> \o Opt(version = 1 \/ f[1] >= 256, <<F(2, f[2])>>) \o <<F(2, 1), F(2, f[3])>>
  \o Opt(f[2] > 0 /\ (version = 1 \/ f[1] >= 256),
         <<F(IF version = 1 THEN ((f[2] + 7) \div 8) * 8 ELSE f[2], TheFilter)>>)
  \o All(4, Span(f[3])) \o Opt(version = 1 /\ f[3] % 2 = 1, <<F(4, 0)>>)

PipelineMsg(version, fs) ==
  Msg("pipeline", Ctx(4, 2),
      <<F(1, version), F(1, Len(fs))>> \o Opt(version = 1, <<F(2, 0), F(4, 0)>>)
      \o FlattenSeq([k \in DOMAIN fs |-> FilterBody(version, fs[k])]),
      [count |-> Len(fs)], <<>>)

\* Class 0 compact, 1 contiguous, 2 chunked with an index of a version 4 kind.
LayoutMsg(version, class, dims, index, flags) ==
  LET stored == Append(dims, 8)
      want == CASE class = 0 -> <<>>
                [] class = 1 -> [address |-> 50]
                [] class = 2 -> [address |-> 50, elementSize |-> 8]
      old == CASE class = 0 -> All(4, dims) \o <<F(4, 6), F(6, TheValue)>>
               [] class = 1 -> <<F(4, 50)>> \o All(4, dims)
               [] class = 2 -> <<F(4, 50)>> \o All(4, stored)
      plain == IF class = 0 THEN <<F(2, 6), F(6, TheValue)>> ELSE <<F(4, 50), F(2, 90)>>
      params == CASE index = 1 -> Opt(flags = 2, <<F(2, 44), F(4, 1)>>)
                  [] index = 2 -> <<>>
                  [] index = 3 -> <<F(1, 10)>>
                  [] index = 4 -> All(1, <<32, 4, 4, 16, 10>>)
                  [] index = 5 -> <<F(4, 2048), F(1, 100), F(1, 40)>>
  IN Msg("layout", Ctx(4, 2),
       <<F(1, version)>> \o
       (CASE version < 3 -> <<F(1, Len(IF class = 2 THEN stored ELSE dims)), F(1, class), F(1, 0), F(4, 0)>>
                            \o old
          [] version = 3 -> <<F(1, class)>> \o
               (IF class < 2 THEN plain ELSE <<F(1, Len(stored)), F(4, 50)>> \o All(4, stored))
          [] version = 4 -> <<F(1, class)>> \o
               (IF class < 2 THEN plain
                ELSE <<F(1, flags), F(1, Len(stored)), F(1, 2)>> \o All(2, stored)
                     \o <<F(1, index)>> \o params \o <<F(4, 50)>>)), want,
       [data |-> Opt(class = 0, <<TheValue>>), chunkDims |-> Opt(class = 2, dims)])

SharedMsg(version, kind) ==
  Msg("shared", Ctx(4, 2),
      <<F(1, version), F(1, kind)>> \o Opt(version = 1, <<F(2, 0), F(4, 0)>>)
      \o Opt(version = 1 \/ kind = 2, <<F(4, 60)>>),
      [kind |-> kind, address |-> IF version = 1 \/ kind = 2 THEN 60 ELSE 0], <<>>)

-----------------------------------------------------------------------------
\* Datatypes as a body and the type it stands for.
Type(body, class, size, kids) ==
  [body |-> body, type |-> [class |-> class, size |-> size, kids |-> kids]]
Kid(name, at, dims, t) == [name |-> name, at |-> at, dims |-> dims, type |-> t.type]
TypeHead(version, class, b0, b1, size) ==
  <<F(1, 16 * version + class), F(1, b0), F(1, b1), F(1, 0), F(4, size)>>

IntType(v, size) == Type(TypeHead(v, 0, 8, 0, size) \o <<F(2, 0), F(2, 8 * size)>>, 0, size, <<>>)
FloatType(v) ==
  Type(TypeHead(v, 1, 32, 63, 8) \o <<F(2, 0), F(2, 64)>> \o All(1, <<52, 11, 0, 52>>) \o <<F(4, 1023)>>,
       1, 8, <<>>)
StringType(v) == Type(TypeHead(v, 3, 16, 0, 5), 3, 5, <<>>)
OpaqueType(v) == Type(TypeHead(v, 5, 8, 0, 3) \o <<F(8, TheTag)>>, 5, 3, <<>>)
VlenType(v, base) == Type(TypeHead(v, 9, 1, 1, 16) \o base.body, 9, 16, <<Kid(0, 0, <<>>, base)>>)

\* A name of n characters, with its NUL and, before version 3, padded to 8.
NameField(v, n) ==
  <<NulText(n + 1, TheName)>> \o Opt(v < 3 /\ (n + 1) % 8 # 0, <<F(8 - ((n + 1) % 8), 0)>>)

EnumType(v, base, names) ==
  Type(TypeHead(v, 8, Len(names), 0, base.type.size) \o base.body
       \o FlattenSeq([k \in DOMAIN names |-> NameField(v, names[k])])
       \o All(base.type.size, names), 8, base.type.size, <<Kid(0, 0, <<>>, base)>>)

ArrayType(v, dims, base) ==
  LET size == element_count(dims) * base.type.size IN
  Type(TypeHead(v, 10, 0, 0, size) \o <<F(1, Len(dims))>> \o Opt(v = 2, <<F(3, 0)>>) \o All(4, dims)
       \o Opt(v = 2, All(4, dims)) \o base.body, 10, size, <<Kid(0, 0, dims, base)>>)

\* Members are <<length of the name, offset, type, array shape (version 1)>>.
CompoundType(v, size, members) ==
  LET member(m) ==
        NameField(v, m[1])
        \o <<F(IF v < 3 THEN 4 ELSE BytesFor(size), m[2])>>
        \o Opt(v = 1, <<F(1, Len(m[4])), F(3, 0), F(4, 0), F(4, 0)>>
                      \o All(4, m[4] \o Rep(4 - Len(m[4]), 0)))
        \o m[3].body
  IN Type(TypeHead(v, 6, Len(members), 0, size)
          \o FlattenSeq([k \in DOMAIN members |-> member(members[k])]), 6, size,
          [k \in DOMAIN members |-> Kid(TheName, members[k][2], IF v = 1 THEN members[k][4] ELSE <<>>,
                                        members[k][3])])

\* Compound types: the size and the length of the first name; offsets take one
\* byte below 256 and two from there on.
Types ==
  UNION {{IntType(v, 4), FloatType(v), StringType(v), OpaqueType(v), VlenType(v, StringType(v)),
          EnumType(v, IntType(v, 2), <<3, 7, 1>>), ArrayType(2, <<2, 3>>, IntType(v, 4)),
          ArrayType(3, <<4>>, ArrayType(3, <<2>>, FloatType(v)))} : v \in 1..3}
  \cup {CompoundType(v, s[1], <<<<s[2], 0, IntType(v, 4), <<>>>>,
                                <<7, 4, VlenType(v, IntType(v, 2)), <<2, 3>>>>,
                                <<2, 100, CompoundType(v, 12, <<<<1, 8, IntType(v, 4), <<>>>>>>), <<>>>>>>)
        : v \in 1..3, s \in {<<200, 1>>, <<256, 6>>, <<511, 8>>, <<512, 1>>}}

\* Attributes of a type of 4 bytes, `framed` by a message or in a heap.
AttributeMsg(version, dims, framed) ==
  LET pad(body) == LET over == WidthOf(body) % 8 IN
                   IF version = 1 /\ over # 0 THEN Append(body, F(8 - over, 0)) ELSE body
      type == pad(IntType(1, 4).body)
      space == pad(SpaceBody(1, dims, 0, 2))
      value == Opt(element_count(dims) > 0, <<F(4 * element_count(dims), TheValue)>>)
  IN Msg("attribute", [Ctx(4, 2) EXCEPT !.framed = framed],
       <<F(1, version), F(1, 0), F(2, 5), F(2, WidthOf(IntType(1, 4).body)),
         F(2, WidthOf(SpaceBody(1, dims, 0, 2)))>>
       \o Opt(version = 3, <<F(1, 1)>>)
       \o <<F(IF version = 1 THEN 8 ELSE 5, TheName), Nested(WidthOf(type), type), Nested(WidthOf(space), space)>>
       \o value,
       <<>>, [name |-> <<TheName>>, data |-> [k \in DOMAIN value |-> value[k].v]])

-----------------------------------------------------------------------------
Written ==
  {LinkMsg(k, o, c, t, n) : k \in 0..3, o, c \in BOOLEAN, t \in {99, 0, 1, 64}, n \in {0, 3}}
  \cup {InfoMsg(kind, fl, h) : kind \in {"linkInfo", "attributeInfo"}, fl \in 0..3, h \in {11, AllOnes}}
  \cup {SpaceMsg(v, d, fl) : v \in {1, 2}, d \in {<<>>, <<3>>, <<2, 5>>}, fl \in {0, 1}}
  \cup {SpaceMsg(1, <<2, 5>>, fl) : fl \in {2, 3}}
  \cup {FillMsg(v, n) : v \in 0..3, n \in {0, 4}}
  \cup {PipelineMsg(v, fs) : v \in {1, 2},
          fs \in {<<>>} \cup {<<f>> : f \in {<<1, 8, 1>>, <<2, 0, 2>>, <<32015, 4, 3>>}}
                \cup {<<<<2, 7, 1>>, <<32001, 5, 7>>, <<3, 0, 0>>>>}}
  \cup {LayoutMsg(v, class, d, 1, 0) : v \in 1..3, class \in 0..2, d \in {<<3>>, <<2, 3>>}}
  \cup {LayoutMsg(4, class, <<2, 3>>, i, fl) : class \in 0..2, i \in 1..5, fl \in {0, 2}}
  \cup {SharedMsg(v, k) : v \in 1..3, k \in 0..3}
  \cup {AttributeMsg(v, d, f) : v \in 1..3, d \in {<<>>, <<3>>, <<2, 2>>}, f \in BOOLEAN}
  \cup {Msg("symbolTable", Ctx(4, 2), <<F(4, 21), F(4, 22)>>, [btree |-> 21, localHeap |-> 22], <<>>)}
  \cup {Msg("datatype", Ctx(4, 2), t.body, [size |-> t.type.size], <<>>) @@ [type |-> t.type] : t \in Types}

\* A message followed by other bytes, the same message cut before its last
\* field, and in a version nobody wrote.
MCMessageCases ==
  UNION {
    LET rest == <<F(3, 9)>>
        takesRest == c.kind = "attribute" /\ c.ctx.framed
        mayBeCut == c.kind \notin {"fill", "fillOld", "shared"} /\ ~takesRest
    IN {[c EXCEPT !.body = IF takesRest THEN @ ELSE @ \o rest] @@ [next |-> Len(c.body) + 1, sound |-> TRUE]}
       \cup (IF mayBeCut THEN {[c EXCEPT !.body = SubSeq(@, 1, Len(@) - 1)] @@ [next |-> 0, sound |-> FALSE]}
             ELSE {})
       \cup (IF c.kind \in {"symbolTable", "fillOld"} THEN {}
             ELSE {[c EXCEPT !.body[1].v = 112] @@ [next |-> 0, sound |-> FALSE]})
    : c \in Written}

-----------------------------------------------------------------------------
\* A superblock behind a user block, with the root at address 40.
SuperblockBody(version, w) ==
  <<F(8, 0), F(1, version)>> \o
  (IF version < 2
   THEN All(1, <<0, 0, 0, 0, w, w, 0>>) \o <<F(2, 4), F(2, 16), F(4, 0)>>
        \o Opt(version = 1, <<F(2, 32), F(2, 0)>>)
        \o <<F(w, 0), F(w, AllOnes), F(w, 900), F(w, AllOnes)>>
        \o <<F(w, 0), F(w, 40), F(4, 1), F(4, 0), Nested(16, <<F(w, 41), F(w, 42)>> \o Opt(w < 8, <<F(16 - 2 * w, 0)>>))>>
   ELSE <<F(1, w), F(1, w), F(1, 0), F(w, 0), F(w, AllOnes), F(w, 900), F(w, 40), F(4, 1)>>)

SuperblockFile(version, w, user) ==
  [file |-> [size |-> user + 900, magic |-> user :> "hdf5", at |-> user :> SuperblockBody(version, w)],
   want |-> [container |-> "hdf5", at |-> user, root |-> 40], sound |-> TRUE]

\* Version 1 with addresses of 8 bytes is 100 bytes long.
MCWideFileCases == {SuperblockFile(1, 8, user) : user \in {0, 512}}

NoWant == [container |-> "none", at |-> 0, root |-> NoAddr]

MCFileCases ==
  ({SuperblockFile(v, w, user) : v \in 0..3, w \in {2, 4, 8}, user \in {0, 512, 1024, 4096}}
     \ {SuperblockFile(1, 8, user) : user \in {0, 512, 1024, 4096}})
  \cup {[file |-> [size |-> 900, magic |-> 0 :> m, at |-> <<>>], sound |-> TRUE,
         want |-> [container |-> m, at |-> 0, root |-> NoAddr]] : m \in {"cdf1", "cdf2", "cdf5"}}
  \cup {[file |-> [size |-> 4000, magic |-> m :> "hdf5", at |-> m :> SuperblockBody(2, 8)],
         sound |-> FALSE, want |-> NoWant] : m \in {768, 4096}}
  \cup {[file |-> [SuperblockFile(v, 8, 512).file EXCEPT !.size = 512 + n], sound |-> FALSE, want |-> NoWant]
        : v \in {0, 2}, n \in {7, 8, 40}}
  \cup {[file |-> [SuperblockFile(2, 8, 0).file EXCEPT !.at[0][10].v = 0], sound |-> FALSE,
         want |-> NoWant]}
=============================================================================
