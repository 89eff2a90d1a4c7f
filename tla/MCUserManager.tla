---------------------------- MODULE MCUserManager ----------------------------
(* Model values for the runs of UserManager. *)
EXTENDS UserManager, TLC

\* The stray presences the runs let through.
Unsubscriptions == {<<"unsubscribed", Bare>>}

AllStrays == ({"probe", "error"} \X JIDs) \cup Unsubscriptions
=============================================================================
