---------------------------- MODULE MCIssueEditor ----------------------------
(* Instances of IssueEditor for TLC. *)
EXTENDS IssueEditor
=============================================================================
