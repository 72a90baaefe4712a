-------------------------------- MODULE MCReplay --------------------------------
(* Instances of Replay for TLC.                                            *)
EXTENDS Replay

Q(offset, len) == [offset |-> offset, len |-> len]
R(ranges, keep) == [ranges |-> ranges, keep |-> keep]

(* Five bytes in pages of two.  An open that reads the superblock, then a  *)
(* header, then an attribute value in the heap across two pages; a walk    *)
(* that reads two ranges at once and finds the file malformed; one with an *)
(* attribute index that lies outside the file.                             *)
OpenWalk == [reads |-> <<R(<<Q(0, 1)>>, {}),
                         R(<<Q(4, 1)>>, {}),
                         R(<<Q(1, 2)>>, {"Incomplete", "Malformed"})>>,
             ends |-> "Value"]
BatchWalk == [reads |-> <<R(<<Q(2, 1), Q(4, 1)>>, {})>>, ends |-> "Malformed"]
IndexWalk == [reads |-> <<R(<<Q(4, 1), Q(4, 2), Q(2, 1)>>, {"Malformed"}),
                          R(<<Q(3, 2), Q(0, 0)>>, {})>>,
              ends |-> "Value"]
MCWalks == [d \in Drivers |-> {OpenWalk, BatchWalk, IndexWalk}]
MCPrefetches == [d \in Drivers |-> {0, 3}]
================================================================================
