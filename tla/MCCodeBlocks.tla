--------------------------- MODULE MCCodeBlocks ---------------------------
(***************************************************************************)
(* CodeBlocks for TLC: the last layer has any size the programs can send,  *)
(* the layers before it a fixed one.                                       *)
(***************************************************************************)
EXTENDS CodeBlocks

\* Every multiple of 8 bits that fits a layer's symbols.
MCSizes == {8 * k : k \in 1 .. (14400 * 6 - 24) \div 8}

\* The layers before the last have two code blocks.
MCOther == 6128

MCInit ==
  /\ \E b \in Sizes : tbs = [l \in Layers |-> IF l = LayerNum - 1 THEN b ELSE MCOther]
  /\ Idle

MCSpec == MCInit /\ [][Next]_vars

=============================================================================
