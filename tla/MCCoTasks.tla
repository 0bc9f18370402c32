----------------------------- MODULE MCCoTasks -----------------------------
(* Instances of the scheduler for TLC. *)
EXTENDS CoTaskTrouble

CONSTANTS a, b

\* The created threads are alike: sound for the runs without liveness.
Symmetry == Permutations(Coroutine)

\* What follows once two cases of trouble have come together is not explored.
OneTrouble == Cardinality(trouble) <= 1
============================================================================
