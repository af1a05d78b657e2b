--------------------------- MODULE MCStreamRunner ---------------------------
(* StreamRunner on small instances: symmetry sets for the safety runs.      *)
EXTENDS StreamRunner, TLC

Symmetry == Permutations(Tasks) \cup Permutations(Handlers)
=============================================================================
