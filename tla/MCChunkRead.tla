------------------------------- MODULE MCChunkRead -------------------------------
(* Instances of ChunkRead for TLC.                                         *)
EXTENDS ChunkRead

Chunk(cell, state) == [cell |-> cell, state |-> state]

AllModes == [r \in Readers |-> [async : BOOLEAN, cached : BOOLEAN]]

(* Every kind of record, cell 1 named twice and cell 4 never written.      *)
MixedChunks == <<Chunk(1, "good"), Chunk(1, "good"), Chunk(2, "good"),
                 Chunk(3, "corrupt"), Chunk(5, "short"), Chunk(6, "unwritten"),
                 Chunk(7, "outside")>>
MixedSelections ==
  [r \in Readers |-> {{}, {1, 2}, {1, 4}, {2, 3}, {4, 5}, {6}, {6, 7}, {1, 2, 3}}]
================================================================================
