---------------------------- MODULE MCBarcoClient ----------------------------
(* Instances of BarcoClient for TLC. *)
EXTENDS BarcoClient, TLC

\* The tasks are interchangeable: no definition tells one from another.
Symmetry == Permutations(Task)
==============================================================================
