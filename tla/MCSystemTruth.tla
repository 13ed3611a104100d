---------------------------- MODULE MCSystemTruth ----------------------------
(* An instance of SystemTruth: two threads of one process, one of another. *)
EXTENDS SystemTruth, TLC

CONSTANTS a, b, c, daemon, cli

Homes == (a :> daemon) @@ (b :> daemon) @@ (c :> cli)
=============================================================================
