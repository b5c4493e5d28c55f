---------------------------- MODULE MCRecipients ----------------------------
(* Recipients for TLC: the requests are interchangeable.                   *)
EXTENDS Recipients, TLC

Symmetry == Permutations(Requests)
=============================================================================
