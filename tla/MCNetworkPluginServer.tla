----------------------- MODULE MCNetworkPluginServer -----------------------
(* Model values and symmetry for the runs of NetworkPluginServer. *)
EXTENDS NetworkPluginServer, TLC

\* Users are interchangeable, and so are Backend objects; sound for the runs
\* that check safety properties only.
Symmetry == Permutations(Users) \cup Permutations(Backends)
=============================================================================
