----------------------------- MODULE MCDelivery -----------------------------
(* Instances of Delivery for TLC. *)
EXTENDS Delivery, TLC

Symmetry == Permutations(Handlers) \union Permutations(Recipients)
=============================================================================
