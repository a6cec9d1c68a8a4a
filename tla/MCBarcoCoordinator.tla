-------------------------- MODULE MCBarcoCoordinator --------------------------
(* Instances of BarcoCoordinator for TLC. *)
EXTENDS BarcoCoordinator, TLC

\* The objects are interchangeable.
Symmetry == Permutations(Instance)

Optional1 == <<"sleep">>
Optional3 == <<"last_macro", "errors", "sleep">>
==============================================================================
