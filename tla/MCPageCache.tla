------------------------------ MODULE MCPageCache ------------------------------
(* PageCache for TLC: a file of five bytes in pages of two, so that the    *)
(* last page is short.  One reader asks for ranges that start, end and     *)
(* cross pages, the empty range and one that leaves the file among them;   *)
(* the other comes in its way over the first two pages.                    *)
EXTENDS PageCache

CONSTANTS r1, r2

MCFile == <<10, 11, 12, 13, 14>>

Range(o, l) == [offset |-> o, len |-> l]

MCRequests ==
  [r \in Readers |->
     IF r = r1 THEN {Range(0, 5), Range(1, 3), Range(4, 1), Range(2, 2), Range(5, 0), Range(4, 2)}
               ELSE {Range(1, 2)}]

================================================================================
