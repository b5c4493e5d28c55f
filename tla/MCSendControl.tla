---------------------------- MODULE MCSendControl ----------------------------
(* Instances of SendControl for TLC.  Rows are kept distinguishable: a run   *)
(* that is over points at an arbitrary but fixed one.                       *)
EXTENDS SendControl, TLC

Symmetry == Permutations(Handlers) \union Permutations(Recipients)
              \union Permutations(Requests)
=============================================================================
