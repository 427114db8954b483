--------------------------- MODULE MCRunLifecycle ---------------------------
(* RunLifecycle on small instances.  Runs, messages and deliveries are     *)
(* interchangeable names, so TLC may identify permuted states.             *)
EXTENDS RunLifecycle, TLC

Symmetry == Permutations(Runs) \cup Permutations(Messages)
            \cup Permutations(Deliveries)
=============================================================================
