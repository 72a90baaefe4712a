------------------------------ MODULE MCHyperslab ------------------------------
(* Small datasets of every layout for Hyperslab.                           *)
EXTENDS Hyperslab

Dense(layout, shape, stored) ==
  [layout |-> layout, shape |-> shape, chunk |-> <<>>, chunks |-> <<>>, stored |-> stored]

Chunked(shape, chunk, offsets) ==
  [layout |-> "chunked", shape |-> shape, chunk |-> chunk, stored |-> 0,
   chunks |-> [k \in DOMAIN offsets |-> [offset |-> offsets[k], size |-> 1]]]

Whole1 == Chunked(<<5>>, <<2>>, << <<0>>, <<2>>, <<4>> >>)
Whole2 == Chunked(<<3, 3>>, <<2, 2>>, << <<0, 0>>, <<0, 2>>, <<2, 0>>, <<2, 2>> >>)
Whole3 == Chunked(<<2, 3, 2>>, <<2, 2, 1>>,
                  << <<0, 0, 0>>, <<0, 0, 1>>, <<0, 2, 0>>, <<0, 2, 1>> >>)

(* A damaged index: a chunk named twice, one missing, chunks off the grid, *)
(* in place of one on it or besides, and a chunk at the end of the address *)
(* space.                                                                  *)
Twice   == Chunked(<<3, 3>>, <<2, 2>>, << <<0, 0>>, <<0, 2>>, <<2, 0>>, <<0, 0>> >>)
OffGrid == Chunked(<<3, 3>>, <<2, 2>>, << <<1, 1>>, <<0, 2>>, <<31, 31>>, <<2, 0>>, <<2, 2>> >>)
Between == Chunked(<<3>>, <<2>>, << <<0>>, <<1>>, <<2>> >>)
NoBytes == [Whole1 EXCEPT !.chunks[2].size = 0]

MCDatasets ==
  {Dense("contiguous", <<>>, 1), Dense("compact", <<2, 3, 2>>, 12),
   Dense("contiguous", <<3, 2>>, 5), Dense("contiguous", <<3, 3>>, 9),
   Dense("unwritten", <<3>>, 0),
   Whole1, Whole2, Whole3, Twice, OffGrid, Between, NoBytes}

MCStarts == {0, 1, 2, 31}
================================================================================
