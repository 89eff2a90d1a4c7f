------------------------------ MODULE MCRoster ------------------------------
(* Values for the runs of Roster: the buddy "Ann" has a capital letter. *)
EXTENDS Roster

MCNames == {"Ann", "ann", "bob"}
MCSpelled == {"Ann", "bob"}
MCKeys == {"ann", "bob"}
Symmetries == Permutations(Jids)
MCLower == [n \in MCNames |-> IF n = "Ann" THEN "ann" ELSE n]
=============================================================================
