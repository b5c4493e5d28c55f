----------------------------- MODULE MCLibrary -----------------------------
(* Instances of Library for TLC. *)
EXTENDS Library
=============================================================================
