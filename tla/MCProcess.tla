------------------------------ MODULE MCProcess ------------------------------
(* Process with fewer pages than its processes and threads could ask for.    *)
EXTENDS Process, TLC

CONSTANTS p1, p2, p3
MCPages == {p1, p2, p3}
Symmetry == Permutations(MCPages)
=============================================================================
