----------------------------- MODULE MCFileIndex -----------------------------
(* Instances of FileIndex for TLC.                                         *)
EXTENDS FileIndex

Msg(k)        == [kind |-> k, ok |-> TRUE]
Bad(m)        == [m EXCEPT !.ok = FALSE]
Cont(b)       == [kind |-> "cont", ok |-> TRUE, to |-> b]
Link(n, a)    == [kind |-> "link", ok |-> TRUE, name |-> n, to |-> a]
Dense(ls)     == [kind |-> "links", ok |-> TRUE, links |-> ls]
Table(n)      == [kind |-> "table", ok |-> TRUE, to |-> n]
Type(a)       == [kind |-> "datatype", ok |-> TRUE, to |-> a]
Attr(n)       == [kind |-> "attribute", ok |-> TRUE, name |-> n]
Attrs(ns, c)  == [kind |-> "attributes", ok |-> TRUE, names |-> ns, complete |-> c]
Hard(n, a)    == [name |-> n, to |-> a]

Block(v, ms)  == [version |-> v, ok |-> TRUE, messages |-> ms]
Damaged(v)    == [version |-> v, ok |-> FALSE, messages |-> <<>>]
File(bs, ns, ts) == [root |-> 1, blocks |-> bs, nodes |-> ns, tables |-> ts]
Values(ms)    == Block(2, ms \o <<Msg("dataspace"), Msg("layout")>>)

(* A root with a dataset, a datatype, a group and a link that is soft or   *)
(* leads anywhere: to the dataset again, back, to the group once more, to  *)
(* nothing.  Object 8 is damaged.                                          *)
LinkFiles ==
  {File(<<Block(1, <<Link("d", 2), Dense(<<Hard("t", 4), Hard("g", 3)>>)>>),
          Values(<<Type(0), Attr("u")>>),
          Block(2, <<Link("x", x), Link("h", h), Attr("v")>>),
          Block(2, <<Type(0)>>), Block(1, <<Dense(<<Hard("k", y)>>)>>),
          Block(2, <<Link("z", z)>>), Values(<<>>), Damaged(1), Block(2, <<>>)>>, <<>>, <<>>) :
     x \in {0, 1, 2, 3, 5, 7, 8}, h \in {0, 5, 99}, y \in {0, 2, 3, 6}, z \in {0, 2, 9}}

(* Object headers in several blocks, of both versions.                     *)
BlockFiles ==
  {File(<<Block(v, <<Attr("u"), Cont(c), Cont(3)>>), Block(v, <<Attr("v"), Cont(d)>>),
          Block(v, <<Link("d", 6)>> \o e), w, Block(v, <<Cont(4)>>),
          Values(<<Type(0), Attr("w")>>)>>, <<>>, <<>>) :
     v \in {1, 2}, c \in {0, 2, 3}, d \in {1, 2, 4, 5, 9},
     e \in {<<>>, <<Cont(5)>>, <<Bad(Attr("x"))>>},
     w \in {Block(1, <<Attr("y")>>), Damaged(2)}}

(* Old-style groups: B-trees whose nodes repeat, go round or are damaged.  *)
TableFiles ==
  {File(<<Block(1, <<Table(1)>>), Values(<<Type(0)>>), Block(1, <<Table(n)>>)>>,
        <<[level |-> 1, ok |-> TRUE, children |-> <<2, a, 3>>],
          [level |-> 0, ok |-> TRUE, children |-> <<1>>],
          [level |-> b[1], ok |-> TRUE, children |-> <<b[2]>>],
          [level |-> 0, ok |-> TRUE, children |-> <<>>],
          [level |-> 0, ok |-> FALSE, children |-> <<>>]>>
          \o [i \in 1 .. 6 |-> [level |-> 6 - i, ok |-> TRUE, children |-> IF i = 6 THEN <<>> ELSE <<6 + i>>]],
        <<[ok |-> TRUE, entries |-> <<Hard("d", 2), Hard("s", 0)>>],
          [ok |-> TRUE, entries |-> <<Hard("g", 3)>>],
          [ok |-> FALSE, entries |-> <<>>]>>) :
     n \in {4, 5, 6, 7}, a \in {1, 2, 4, 5, 9}, b \in {<<0, 2>>, <<0, 3>>, <<1, 1>>, <<1, 2>>}}

(* Datasets: messages missing or damaged, datatypes shared, attributes     *)
(* inline and dense.                                                       *)
DatasetFiles ==
  {File(<<Block(2, <<Link("d", 2), Link("e", 6)>>),
          Values(<<t, a, b>>), Block(2, <<Type(c)>>), Block(2, <<Type(0), Attr("n")>>),
          Block(2, <<Attr("o")>>), Values(<<Type(0), Attr("e")>>)>>, <<>>, <<>>) :
     t \in {Type(0), Type(3), Type(4), Bad(Type(0)), Msg("fill")},
     a \in {Attr("u"), Bad(Msg("pipeline"))},
     b \in {Msg("fill"), Attrs(<<"v", "w">>, TRUE), Attrs(<<"v">>, FALSE), Bad(Attrs(<<>>, TRUE))},
     c \in {0, 3, 4, 5, 9}}

(* Groups with a damaged message.                                          *)
GroupFiles ==
  {File(<<Block(2, <<m, Link("d", 2)>>), Values(<<Type(0)>>)>>, <<>>, <<>>) :
     m \in {Bad(Attrs(<<>>, TRUE)), Bad(Table(1)), Bad(Link("e", 2)), Bad(Dense(<<>>)),
            Attrs(<<"u">>, FALSE)}}

(* B-trees of as many nodes as may be, with a node named again.            *)
LimitFiles ==
  {File(<<Block(1, <<Table(1)>>)>>,
        <<[level |-> 1, ok |-> TRUE, children |-> c]>>
          \o [i \in 1 .. 4 |-> [level |-> 0, ok |-> TRUE, children |-> <<>>]], <<>>) :
     c \in {<<2, 3, 4, 5>>, <<2, 2, 3, 4, 5>>, <<2, 3, 4, 5, 5>>, <<2, 1, 3, 4>>}}

MCFiles ==
  LinkFiles \cup BlockFiles \cup TableFiles \cup DatasetFiles \cup GroupFiles \cup LimitFiles

(* They are as damaged as they like, but no two links of a group have one  *)
(* name, and so on.                                                        *)
ASSUME FilesConform == \A f \in MCFiles : Conforms(f)
================================================================================
