--------------------------- MODULE MCConnections ---------------------------
EXTENDS Connections, TLC
CONSTANTS c1, c2, c3, c4
Symmetry == Permutations(Cells)
=============================================================================
