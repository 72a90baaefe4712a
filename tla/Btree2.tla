------------------------------- MODULE Btree2 --------------------------------
(***************************************************************************)
(* Version 2 B-trees (btree2.rs): the header, the field widths derived     *)
(* from the sizes in it, and the in-order walk.  A node of the model       *)
(* carries the widths its writer used; a reader that derives others reads  *)
(* a stretch of another length, whose checksum does not match.             *)
(***************************************************************************)
EXTENDS Results

CONSTANTS MaxNodes,      \* MAX_NODES
          NodeOverhead,  \* NODE_OVERHEAD
          OffsetSize     \* width of an address

\* floor(log2(v)), and 0 for 0: u64::BITS - 1 - leading_zeros.
Log2(v) == IF v = 0 THEN 0 ELSE CHOOSE k \in 0..29 : 2^k <= v /\ v < 2^(k + 1)

enc_size(v) == (Log2(v) + 8) \div 8

LeafMax(nodeSize, recSize) == (nodeSize - NodeOverhead) \div recSize

\* Per depth the largest cumulative record count and the width of that field;
\* depth 0 has width 0.  NodeLayout::derive.
Derive(nodeSize, recSize, depth) ==
  LET nrec == enc_size(LeafMax(nodeSize, recSize))
      lay[d \in 0..depth] ==
        IF d = 0 THEN [cum |-> LeafMax(nodeSize, recSize), width |-> 0]
        ELSE LET below == lay[d - 1]
                 ptr == OffsetSize + nrec + IF d > 1 THEN below.width ELSE 0
                 room == IF nodeSize > NodeOverhead + nrec
                         THEN nodeSize - (NodeOverhead + nrec) ELSE 0
                 max == room \div (recSize + ptr)
                 cum == (max + 1) * below.cum + max
             IN [cum |-> cum, width |-> enc_size(cum)]
  IN [nrec |-> nrec, width |-> [d \in 0..depth |-> lay[d].width]]

\* The widths collect reads a child pointer of a node at `depth` with.
PointerWidths(layout, depth) ==
  <<layout.nrec, IF depth > 1 THEN layout.width[depth - 1] ELSE 0>>

RECURSIVE Collect(_, _, _, _, _, _)

\* Read one node and, for an internal node, its children: child, record, ...,
\* child.  acc holds the records so far and the nodes visited.
Collect(file, layout, a, depth, n, acc) ==
  LET seen == [acc EXCEPT !.seen = @ + 1] IN
  Check(seen.seen <= MaxNodes, "malformed",
  Then(Fetch(file, a), LAMBDA b :
    Check(b.sig = (IF depth = 0 THEN "BTLF" ELSE "BTIN"), "malformed",
    Check(/\ b.sound
          /\ n = Len(b.recs)
          /\ depth > 0 => b.widths = PointerWidths(layout, depth), "checksum",
    IF depth = 0 THEN Ok([seen EXCEPT !.out = @ \o b.recs])
    ELSE Loop(LAMBDA s, i :
                Then(Collect(file, layout, b.kids[i].a, depth - 1, b.kids[i].n, s),
                     LAMBDA t : Ok(IF i <= n THEN [t EXCEPT !.out = Append(@, b.recs[i])] ELSE t)),
              seen, Span(n + 1))))))

\* BtreeV2::read
ReadBtree(file, address) ==
  Then(Fetch(file, address), LAMBDA h :
    Check(h.sig = "BTHD", "malformed",
    Check(h.version = 0, "unsupported",
    Check(h.sound, "checksum",
    Check(h.recSize > 0 /\ h.nodeSize > NodeOverhead, "malformed",
    IF h.root = NoAddr THEN Ok(<<>>)
    ELSE Then(Collect(file, Derive(h.nodeSize, h.recSize, h.depth), h.root, h.depth,
                      h.rootRecs, [out |-> <<>>, seen |-> 0]),
              LAMBDA s : Ok(s.out)))))))
=============================================================================
