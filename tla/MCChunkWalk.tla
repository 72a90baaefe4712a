------------------------------ MODULE MCChunkWalk ------------------------------
(* Trees of up to five nodes: a plain one whose leaves hold equal offsets, *)
(* one with a cycle and a leaf reached three ways, one with a damaged      *)
(* node, one with more nodes and one with more records than the limit, and *)
(* a dataset that was never written.                                       *)
EXTENDS ChunkWalk

Leaves(ns)  == [n \in Nodes |-> IF n \in ns THEN "leaf" ELSE "inner"]
Kids(given) == [n \in Nodes |-> IF n \in DOMAIN given THEN given[n] ELSE <<>>]
Recs        == <<<<>>, <<2, 5>>, <<>>, <<0, 5>>, <<1, 3, 4>>>>

Plain   == [root |-> <<1>>, kind |-> Leaves({2, 4, 5}), recs |-> Recs,
            kids |-> Kids(<<<<2, 3>>, <<>>, <<4>>>>)]
Cyclic  == [root |-> <<1>>, kind |-> Leaves({4}), recs |-> Recs,
            kids |-> Kids(<<<<2, 3, 4>>, <<4, 1>>, <<4, 3>>>>)]
Damaged == [Plain EXCEPT !.kind[4] = "bad"]
Deep    == [root |-> <<1>>, kind |-> Leaves({}), recs |-> Recs,
            kids |-> Kids(<<<<2>>, <<3>>, <<4>>, <<5>>, <<1>>>>)]
Wide    == [root |-> <<1>>, kind |-> Leaves({2, 4, 5}), recs |-> Recs,
            kids |-> Kids(<<<<2, 4, 5>>>>)]
Empty   == [Plain EXCEPT !.root = <<>>]

MCTrees == {Plain, Cyclic, Damaged, Deep, Wide, Empty}
MCNodes == 1 .. 5
================================================================================
