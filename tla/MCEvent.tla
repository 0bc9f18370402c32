------------------------------ MODULE MCEvent ------------------------------
(* Event on two functions. *)
EXTENDS Event, TLC

CONSTANTS f, g

Symmetry == Permutations({f, g})
============================================================================
