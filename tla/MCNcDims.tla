-------------------------------- MODULE MCNcDims --------------------------------
(* Instances of NcDims for TLC.                                            *)
EXTENDS NcDims

Axis(l, u, r) == [len |-> l, unlimited |-> u, ref |-> r]
Plain(n, axes) == [name |-> n, addr |-> n, scale |-> FALSE, phantom |-> FALSE,
                   id |-> {}, axes |-> axes, coords |-> <<>>]
ScaleOf(n, id, axis, ph) == [Plain(n, <<axis>>) EXCEPT !.scale = TRUE, !.id = id, !.phantom = ph]

(* Axes without a name: of length two, growing, empty, growing and empty.  *)
Bare == {Axis(2, FALSE, 0), Axis(2, TRUE, 0), Axis(0, FALSE, 0), Axis(0, TRUE, 0)}
(* ... and with one: a reference to scale 1, to no scale, to a bad heap.   *)
Listed == {Axis(2, FALSE, 1), Axis(2, FALSE, 9), Axis(2, FALSE, -1)}

(* A group of two plain variables beside a child group of one.             *)
BareFiles ==
  {<<[datasets |-> <<Plain(6, <<a, b>>), Plain(4, <<c>>)>>, groups |-> <<2>>],
     [datasets |-> <<Plain(5, <<d, a>>)>>, groups |-> <<>>]>> :
     a \in Bare, b \in Bare, c \in Bare, d \in Bare}

(* Scales in the root, with and without numbers, phantom or not, and       *)
(* variables that use them by reference, by number or by size.             *)
ScaleFiles ==
  {<<[datasets |-> <<ScaleOf(3, i, Axis(2, FALSE, 0), FALSE), ScaleOf(1, j, Axis(2, u, 0), ph),
                     [Plain(6, <<a, b>>) EXCEPT !.coords = c]>>, groups |-> <<2, 3>>],
     [datasets |-> <<Plain(5, <<Axis(2, u, 0), a>>)>>, groups |-> <<>>],
     [datasets |-> <<ScaleOf(7, {}, Axis(3, FALSE, 0), FALSE)>>, groups |-> <<>>]>> :
     i \in {{}, {1}, {4}}, j \in {{}, {0}}, u \in BOOLEAN, ph \in BOOLEAN,
     a \in Listed \cup {Axis(2, FALSE, 0)}, b \in Bare \cup {Axis(2, FALSE, 1)},
     c \in {<<>>, <<0, 1>>, <<0>>}}

(* A scale with two axes, a scalar scale, and one dataset under two names. *)
OddFiles ==
  {<<[datasets |-> <<[ScaleOf(1, {}, Axis(2, FALSE, 0), FALSE) EXCEPT !.axes = <<a, b>>],
                     [ScaleOf(2, {}, Axis(2, FALSE, 0), FALSE) EXCEPT !.axes = <<>>],
                     [ScaleOf(3, {}, Axis(2, FALSE, 0), FALSE) EXCEPT !.addr = 1, !.axes = <<a, b>>],
                     Plain(4, <<>>)>>, groups |-> <<>>]>> :
     a \in Bare, b \in Bare}

MCFiles == BareFiles \cup ScaleFiles \cup OddFiles
================================================================================
