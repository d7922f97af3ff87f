--------------------------- MODULE MCLoadBalancer ---------------------------
(* Symmetry of LoadBalancer for the model checker: gateways, and requests   *)
(* of one kind, are interchangeable.                                        *)
EXTENDS LoadBalancer, TLC

Symmetry == Permutations(Gateways) \cup Permutations(Proxies)
=============================================================================
