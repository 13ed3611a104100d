--------------------------- MODULE InferenceQueue ---------------------------
(***************************************************************************)
(* What NeuralDispatcher promises its callers, with the semaphore, the     *)
(* engine mutex, the kernel and the channels left out: a request is        *)
(* submitted, waits, is served alone by the one engine or withdrawn        *)
(* because no engine can serve it, and is finished once and for all.       *)
(***************************************************************************)
CONSTANT Request

VARIABLES waiting, serving, finished

vars == <<waiting, serving, finished>>

TypeOK ==
  /\ waiting \subseteq Request
  /\ serving \subseteq Request
  /\ finished \subseteq Request

Init ==
  /\ waiting = {}
  /\ serving = {}
  /\ finished = {}

Submit(r) ==
  /\ r \notin waiting \cup serving \cup finished
  /\ waiting' = waiting \cup {r}
  /\ UNCHANGED <<serving, finished>>

\* The engine takes a request only when it serves no other.
Serve(r) ==
  /\ r \in waiting
  /\ serving = {}
  /\ waiting' = waiting \ {r}
  /\ serving' = {r}
  /\ UNCHANGED finished

\* No model is configured, the kernel cannot be loaded, or the prompt cannot
\* be handed to it.
Withdraw(r) ==
  /\ r \in waiting
  /\ waiting' = waiting \ {r}
  /\ finished' = finished \cup {r}
  /\ UNCHANGED serving

Complete(r) ==
  /\ r \in serving
  /\ serving' = serving \ {r}
  /\ finished' = finished \cup {r}
  /\ UNCHANGED waiting

Next ==
  \E r \in Request : Submit(r) \/ Serve(r) \/ Withdraw(r) \/ Complete(r)

SafeSpec == Init /\ [][Next]_vars

Fairness ==
  \A r \in Request :
    /\ WF_vars(Complete(r))
    /\ SF_vars(Serve(r) \/ Withdraw(r))

Spec == SafeSpec /\ Fairness
=============================================================================
