---------------------------- MODULE MCServerLogin ----------------------------
(* Model values for the runs of ServerLogin. *)
EXTENDS ServerLogin, TLC

Symmetries == Permutations(Sessions) \cup Permutations(Addresses)
=============================================================================
