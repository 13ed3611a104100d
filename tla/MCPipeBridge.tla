---------------------------- MODULE MCPipeBridge ----------------------------
(* An instance of PipeBridge: four words, with which a script can be said, *)
(* a thought, and a script in a thought.                                   *)
EXTENDS PipeBridge, TLC

Tokens == {<<"<cel>">>, <<"</cel>">>, <<"<think>">>, <<"text">>}

\* The permissions are alike.
Symmetry == Permutations(Key)

=============================================================================
