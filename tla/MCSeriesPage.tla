---------------------------- MODULE MCSeriesPage ----------------------------
(* Instances of SeriesPage for TLC. *)
EXTENDS SeriesPage
=============================================================================
