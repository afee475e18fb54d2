--------------------------- MODULE MCPairedListener ---------------------------
(* Instances of PairedListener small enough for TLC.                        *)
EXTENDS PairedListener, TLC

Symmetry == Permutations(Conns)
=============================================================================
