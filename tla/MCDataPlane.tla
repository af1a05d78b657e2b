---------------------------- MODULE MCDataPlane ----------------------------
(* DataPlane on small instances.                                           *)
EXTENDS DataPlane, TLC

Symmetry == Permutations(Reqs)
============================================================================
