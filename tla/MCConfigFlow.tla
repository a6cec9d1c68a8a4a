---------------------------- MODULE MCConfigFlow ----------------------------
(* Two hosts; the projector at "b" does not tell its type. *)
EXTENDS ConfigFlow, TLC

\* The flows are interchangeable.
Symmetry == Permutations(Flow)

HostsAB == [a1 |-> "a", b1 |-> "b"]
ModelsAB == [a |-> "DP2K", b |-> None]
==============================================================================
