-------------------------------- MODULE MCIoPlan --------------------------------
(* Instances of IoPlan for TLC.                                            *)
EXTENDS IoPlan

R(offset, len) == [offset |-> offset, len |-> len]

(* Up to three ranges in or across the end of a file of six bytes, and at  *)
(* the end of the address space.                                           *)
MCRanges == {R(o, l) : o \in 0 .. 5, l \in {0, 1, 3}} \cup {R(14, 3), R(15, 0)}
MCInputs == UNION {[1 .. n -> MCRanges] : n \in 0 .. 2}
              \cup [1 .. 3 -> {R(0, 1), R(1, 3), R(3, 0), R(3, 3), R(5, 1), R(14, 3)}]
================================================================================
