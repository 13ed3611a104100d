---------------------------- MODULE MCComponents ----------------------------
(* An instance of Components: the requests of the server are alike.        *)
EXTENDS Components, TLC

Symmetry == Permutations(Worker)

=============================================================================
