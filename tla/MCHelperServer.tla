--------------------------- MODULE MCHelperServer ---------------------------
(* Instances of HelperServer for TLC: the connections are interchangeable. *)
EXTENDS HelperServer, TLC

Symmetry == Permutations(Conns)
=============================================================================
