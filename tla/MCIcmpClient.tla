----------------------------- MODULE MCIcmpClient -----------------------------
(* Instances of IcmpClient for TLC. *)
EXTENDS IcmpClient, TLC

\* The tasks are interchangeable.
Symmetry == Permutations(Task)
==============================================================================
