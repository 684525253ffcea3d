--------------------------- MODULE MCProxyManager ---------------------------
(* Instances of ProxyManager for TLC: services are interchangeable. *)
EXTENDS ProxyManager, TLC

Symmetry == Permutations(Services)
=============================================================================
