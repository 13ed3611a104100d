---------------------------- MODULE MCDispatcher ----------------------------
(* Dispatcher on small instances: requests and models are interchangeable. *)
EXTENDS Dispatcher, TLC

Symmetry == Permutations(Request) \cup Permutations(Model)
=============================================================================
