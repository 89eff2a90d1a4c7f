------------------------------ MODULE MCSlack -------------------------------
(* Values for the run of Slack. *)
EXTENDS Slack
=============================================================================
