----------------------------- MODULE MCNodeAgent -----------------------------
(* Model values of NodeAgent for TLC. *)
EXTENDS NodeAgent, TLC

Symmetry == Permutations(Threads)
==============================================================================
