-------------------------- MODULE MCGenerationQueue --------------------------
(* Instances of GenerationQueue for TLC. *)
EXTENDS GenerationQueue
=============================================================================
