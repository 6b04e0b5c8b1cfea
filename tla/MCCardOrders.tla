---------------------------- MODULE MCCardOrders ----------------------------
(* Instances of CardOrders for TLC. *)
EXTENDS CardOrders, TLC
Symmetry == Permutations(Handlers) \union Permutations(Orders)
=============================================================================
