--------------------------- MODULE MCModelLibrary ---------------------------
(***************************************************************************)
(* The instance of ModelLibrary for model checking: a third call where the *)
(* steps of all the calls are those of a GGUF file, two calls that meet    *)
(* where the manifest adds to them.                                        *)
(***************************************************************************)
EXTENDS ModelLibrary

Calls == [e \in Manifest |-> IF e \in {"file", "none"} THEN 3 ELSE 2]
=============================================================================
