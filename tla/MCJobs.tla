-------------------------------- MODULE MCJobs --------------------------------
(* Instances of Jobs for TLC. *)
EXTENDS Jobs, TLC

\* Triggers differ in nothing but when they come.
Symmetry == Permutations(Runs)

===============================================================================
