----------------------------- MODULE Dispatcher -----------------------------
(***************************************************************************)
(* NeuralDispatcher (interface-engines/dispatcher/src/lib.rs): every call  *)
(* of dispatch_stream spawns a task that queues for a slot, resolves the   *)
(* model, takes the engine mutex, loads the model when another one is      *)
(* cached, generates on a blocking thread through a C callback, and ends   *)
(* its stream.  One cancellation flag is shared by all of the tasks.       *)
(*                                                                         *)
(* The tokens are abstracted to what the callback tells apart: plain text, *)
(* the piece that opens a <TRIGGER: block and the piece that closes it.    *)
(***************************************************************************)
EXTENDS Naturals, Sequences, FiniteSets

CONSTANTS
  Request,    \* the calls of dispatch_stream
  Model,      \* the models that can be configured
  None,       \* no request, no model, or a lowered flag
  Slots,      \* permits of inference_semaphore, 4 in the code
  Capacity,   \* messages a stream's channel holds, 100 in the code
  MaxTokens   \* tokens one generation may produce, 4096 in the code

ASSUME DispatcherAssumption ==
  /\ IsFiniteSet(Request)
  /\ None \notin Request
  /\ None \notin Model
  /\ Slots \in Nat \ {0}
  /\ Capacity \in Nat \ {0}
  /\ MaxTokens \in Nat \ {0}

VARIABLES
  pc,           \* where the task of each request is
  permits,      \* free permits of inference_semaphore
  owner,        \* the request whose task holds the cached_engine mutex
  activeModel,  \* the model Permission.json names, None when it names none
  path,         \* model_path, as each task resolved it
  cached,       \* the engine in cached_engine, named by the request that
                \* instantiated it; its cached_path is path[cached]
  live,         \* the engine instances the kernel holds and nobody freed
  cancel,       \* cancel_flag: None when false, else the request that raised it
  buf,          \* the callback's interception buffer
  tokens,       \* callbacks made in the generation of each request
  outcome,      \* how the generation of each request ended
  outbox,       \* messages a task has decided on and still has to send
  sent,         \* messages that entered the channel of each request
  taken,        \* how many of them the receiver has read
  rx            \* whether the receiver is still there

taskVars == <<pc, permits, owner, path, cached, live, cancel, buf, tokens,
              outcome, outbox, sent>>
clientVars == <<taken, rx>>
vars == <<pc, permits, owner, activeModel, path, cached, live, cancel, buf,
          tokens, outcome, outbox, sent, taken, rx>>

-----------------------------------------------------------------------------
Message == {"text", "trigger", "fragment", "error", "done"}

Buffer == {"plain", "open", "closed"}

Outcome == {"none", "natural", "trigger", "cancel", "hangup", "panic", "failed", "crashed"}

\* The task is inside the C call, its final buffer check still ahead.
Generating == {"generating", "sending", "trigger", "flagging", "panicked", "generated"}

\* The task holds the guard of cached_engine.
Locked == Generating \cup {"loading", "closing"}

\* The task holds a permit of inference_semaphore.
Admitted == Locked \cup {"resolving", "rejecting", "contending"}

Pc == Admitted \cup {"idle", "queued", "closed"}

TypeOK ==
  /\ pc \in [Request -> Pc]
  /\ permits \in Nat
  /\ owner \in Request \cup {None}
  /\ activeModel \in Model \cup {None}
  /\ path \in [Request -> Model \cup {None}]
  /\ cached \in Request \cup {None}
  /\ live \subseteq Request
  /\ cancel \in Request \cup {None}
  /\ buf \in [Request -> Buffer]
  /\ tokens \in [Request -> 0..MaxTokens]
  /\ outcome \in [Request -> Outcome]
  /\ outbox \in [Request -> Seq(Message)]
  /\ sent \in [Request -> Seq(Message)]
  /\ taken \in [Request -> Nat]
  /\ rx \in [Request -> BOOLEAN]

Init ==
  /\ pc = [r \in Request |-> "idle"]
  /\ permits = Slots
  /\ owner = None
  /\ activeModel \in Model \cup {None}
  /\ path = [r \in Request |-> None]
  /\ cached = None
  /\ live = {}
  /\ cancel = None
  /\ buf = [r \in Request |-> "plain"]
  /\ tokens = [r \in Request |-> 0]
  /\ outcome = [r \in Request |-> "none"]
  /\ outbox = [r \in Request |-> <<>>]
  /\ sent = [r \in Request |-> <<>>]
  /\ taken = [r \in Request |-> 0]
  /\ rx = [r \in Request |-> TRUE]

-----------------------------------------------------------------------------
\* A step of the task of r from one place to another.
Goto(r, from, to) ==
  /\ pc[r] = from
  /\ pc' = [pc EXCEPT ![r] = to]

HasRoom(r) == Len(sent[r]) - taken[r] < Capacity

\* Sender::send and blocking_send: wait for room in the channel, or fail at
\* once when the receiver is gone.
Send(r, m) ==
  IF rx[r]
  THEN HasRoom(r) /\ sent' = [sent EXCEPT ![r] = Append(@, m)]
  ELSE UNCHANGED sent

-----------------------------------------------------------------------------
(* The caller's side. *)

\* dispatch_stream up to its return: the flag is lowered for the new request
\* and the task is spawned.
Dispatch(r) ==
  /\ Goto(r, "idle", "queued")
  /\ cancel' = None
  /\ UNCHANGED <<permits, owner, activeModel, path, cached, live, buf, tokens,
                 outcome, outbox, sent, clientVars>>

\* The caller reads one message.
Receive(r) ==
  /\ rx[r]
  /\ taken[r] < Len(sent[r])
  /\ taken' = [taken EXCEPT ![r] = @ + 1]
  /\ UNCHANGED <<taskVars, activeModel, rx>>

\* The caller drops its receiver, and the messages still in it: the HTTP
\* client or the pipe went away.
HangUp(r) ==
  /\ rx[r]
  /\ pc[r] \notin {"idle", "closed"}
  /\ rx' = [rx EXCEPT ![r] = FALSE]
  /\ taken' = [taken EXCEPT ![r] = Len(sent[r])]
  /\ UNCHANGED <<taskVars, activeModel>>

\* The user configures another model, or none.
SwitchModel ==
  /\ activeModel' \in (Model \cup {None}) \ {activeModel}
  /\ UNCHANGED <<taskVars, clientVars>>

-----------------------------------------------------------------------------
(* The task, up to the engine. *)

AcquireSlot(r) ==
  /\ Goto(r, "queued", "resolving")
  /\ permits > 0
  /\ permits' = permits - 1
  /\ UNCHANGED <<owner, activeModel, path, cached, live, cancel, buf, tokens,
                 outcome, outbox, sent, clientVars>>

\* resolve_active_model_path, before the engine mutex is asked for.
Resolve(r) ==
  /\ \/ /\ activeModel # None
        /\ Goto(r, "resolving", "contending")
        /\ UNCHANGED outbox
     \/ /\ activeModel = None
        /\ Goto(r, "resolving", "rejecting")
        /\ outbox' = [outbox EXCEPT ![r] = <<"error", "done">>]
  /\ path' = [path EXCEPT ![r] = activeModel]
  /\ UNCHANGED <<permits, owner, activeModel, cached, live, cancel, buf,
                 tokens, outcome, sent, clientVars>>

\* Faulty form: the guard of the mutex is not waited for.
LockEngineUnguarded(r) ==
  /\ Goto(r, "contending", "loading")
  /\ owner' = r
  /\ UNCHANGED <<permits, activeModel, path, cached, live, cancel, buf,
                 tokens, outcome, outbox, sent, clientVars>>

LockEngine(r) ==
  /\ Goto(r, "contending", "loading")
  /\ owner = None
  /\ owner' = r
  /\ UNCHANGED <<permits, activeModel, path, cached, live, cancel, buf,
                 tokens, outcome, outbox, sent, clientVars>>

\* Faulty form: any cached engine will do.
CachedServesAny(r) == cached # None

\* The cached engine serves the request iff it was loaded from its path.
CachedServes(r) == cached # None /\ path[cached] = path[r]

\* Faulty form: the engine is taken out of the cache but not freed.
EvictLeaks(r) ==
  /\ pc[r] = "loading"
  /\ cached # None
  /\ ~CachedServes(r)
  /\ cached' = None
  /\ UNCHANGED <<pc, permits, owner, activeModel, path, live, cancel, buf,
                 tokens, outcome, outbox, sent, clientVars>>

\* The engine of another model is taken out of the cache and freed.
Evict(r) ==
  /\ pc[r] = "loading"
  /\ cached # None
  /\ ~CachedServes(r)
  /\ live' = live \ {cached}
  /\ cached' = None
  /\ UNCHANGED <<pc, permits, owner, activeModel, path, cancel, buf, tokens,
                 outcome, outbox, sent, clientVars>>

\* The library and the model load, and the new engine is cached.
Instantiate(r) ==
  /\ pc[r] = "loading"
  /\ cached = None
  /\ cached' = r
  /\ live' = live \cup {r}
  /\ UNCHANGED <<pc, permits, owner, activeModel, path, cancel, buf, tokens,
                 outcome, outbox, sent, clientVars>>

\* The library does not load or the kernel returns a null engine; or there is
\* an engine, and its library exports no cluaiz_kernel_generate_stream.
NotGenerated(r) ==
  /\ cached = None \/ CachedServes(r)
  /\ Goto(r, "loading", "closing")
  /\ outcome' = [outcome EXCEPT ![r] = "failed"]
  /\ outbox' = [outbox EXCEPT ![r] = <<"error", "done">>]
  /\ UNCHANGED <<permits, owner, activeModel, path, cached, live, cancel, buf,
                 tokens, sent, clientVars>>

\* The kernel binary or its .ready marker is missing.  The task reports it
\* with blocking_send, which panics on a runtime thread: the unwinding drops
\* the guard, the permit and the sender, and nothing is sent.
KernelMissing(r) ==
  /\ cached = None
  /\ Goto(r, "loading", "closed")
  /\ outcome' = [outcome EXCEPT ![r] = "crashed"]
  /\ owner' = None
  /\ permits' = permits + 1
  /\ UNCHANGED <<activeModel, path, cached, live, cancel, buf, tokens, outbox,
                 sent, clientVars>>

\* The prompt holds a NUL, and CString::new(prompt_clone).unwrap() panics: the
\* task ends as with a missing kernel, the engine stays in the cache.
PromptPanics(r) ==
  /\ CachedServes(r)
  /\ Goto(r, "loading", "closed")
  /\ outcome' = [outcome EXCEPT ![r] = "crashed"]
  /\ owner' = None
  /\ permits' = permits + 1
  /\ UNCHANGED <<activeModel, path, cached, live, cancel, buf, tokens, outbox,
                 sent, clientVars>>

\* The prompt goes to the engine, cached before or just now.
StartGeneration(r) ==
  /\ CachedServes(r)
  /\ Goto(r, "loading", "generating")
  /\ UNCHANGED <<permits, owner, activeModel, path, cached, live, cancel, buf,
                 tokens, outcome, outbox, sent, clientVars>>

-----------------------------------------------------------------------------
(* The generation: the kernel calls callback once per token. *)

\* What the callback does between its look at the flag and its first send.
\* Pieces of a trigger are held back, the piece that closes it makes the
\* callback hand the whole trigger over.
Intercept(r) ==
  \/ /\ buf[r] = "plain"                \* a piece of text
     /\ Goto(r, "generating", "sending")
     /\ UNCHANGED buf
  \/ /\ buf[r] = "plain"                \* the piece that completes <TRIGGER:
     /\ Goto(r, "generating", "generating")
     /\ buf' = [buf EXCEPT ![r] = "open"]
  \/ /\ buf[r] = "open"                 \* a piece of the payload
     /\ Goto(r, "generating", "generating")
     /\ UNCHANGED buf
  \/ /\ buf[r] # "closed"               \* the piece that completes </TRIGGER>
     /\ Goto(r, "generating", "trigger")
     /\ buf' = [buf EXCEPT ![r] = "closed"]

Callback(r) ==
  /\ cancel = None
  /\ tokens[r] < MaxTokens
  /\ Intercept(r)
  /\ tokens' = [tokens EXCEPT ![r] = @ + 1]
  /\ UNCHANGED <<permits, owner, activeModel, path, cached, live, cancel,
                 outcome, outbox, sent, clientVars>>

\* The generation of r is over, the callback or the kernel ended it.
EndGeneration(r, from, how) ==
  /\ Goto(r, from, "generated")
  /\ outcome' = [outcome EXCEPT ![r] = how]

\* The callback finds the flag raised and stops the kernel.
CallbackCancelled(r) ==
  /\ cancel # None
  /\ tokens[r] < MaxTokens
  /\ EndGeneration(r, "generating", "cancel")
  /\ UNCHANGED <<permits, owner, activeModel, path, cached, live, cancel, buf,
                 tokens, outbox, sent, clientVars>>

\* The callback sends a piece of text; it stops the kernel if nobody listens.
SendToken(r) ==
  /\ Send(r, "text")
  /\ IF rx[r]
     THEN Goto(r, "sending", "generating") /\ UNCHANGED outcome
     ELSE EndGeneration(r, "sending", "hangup")
  /\ UNCHANGED <<permits, owner, activeModel, path, cached, live, cancel, buf,
                 tokens, outbox, clientVars>>

\* Faulty form: the callback lets the kernel go on after the trigger.
SendTriggerGoesOn(r) ==
  /\ Goto(r, "trigger", "generating")
  /\ Send(r, "trigger")
  /\ buf' = [buf EXCEPT ![r] = "plain"]
  /\ UNCHANGED <<permits, owner, activeModel, path, cached, live, cancel,
                 tokens, outcome, outbox, clientVars>>

\* The callback hands the trigger over first ...
SendTrigger(r) ==
  /\ Goto(r, "trigger", "flagging")
  /\ Send(r, "trigger")
  /\ UNCHANGED <<permits, owner, activeModel, path, cached, live, cancel, buf,
                 tokens, outcome, outbox, clientVars>>

\* ... and raises the flag after that.
RaiseCancel(r) ==
  /\ EndGeneration(r, "flagging", "trigger")
  /\ cancel' = r
  /\ UNCHANGED <<permits, owner, activeModel, path, cached, live, buf, tokens,
                 outbox, sent, clientVars>>

\* The kernel reaches the end of its answer or its token limit.
KernelEnds(r) ==
  /\ EndGeneration(r, "generating", "natural")
  /\ UNCHANGED <<permits, owner, activeModel, path, cached, live, cancel, buf,
                 tokens, outbox, sent, clientVars>>

\* The C call panics and the panic boundary catches it.
KernelPanics(r) ==
  /\ Goto(r, "generating", "panicked")
  /\ outcome' = [outcome EXCEPT ![r] = "panic"]
  /\ UNCHANGED <<permits, owner, activeModel, path, cached, live, cancel, buf,
                 tokens, outbox, sent, clientVars>>

ReportPanic(r) ==
  /\ Goto(r, "panicked", "generated")
  /\ Send(r, "error")
  /\ UNCHANGED <<permits, owner, activeModel, path, cached, live, cancel, buf,
                 tokens, outcome, outbox, clientVars>>

-----------------------------------------------------------------------------
(* The end of the task. *)

\* Faulty form: a trigger the model left open is dropped.
LeftOverClosedOnly(r) ==
  IF cancel = None /\ buf[r] = "closed" THEN <<"trigger">> ELSE <<>>

\* The final buffer check: a trigger the callback did not take care of is
\* sent now, unless the flag says that some callback did.
LeftOver(r) ==
  IF cancel # None \/ buf[r] = "plain" THEN <<>>
  ELSE IF buf[r] = "open" THEN <<"fragment">> ELSE <<"trigger">>

\* Faulty form: the end marker is sent for natural ends only.
FinalCheckSilent(r) ==
  /\ Goto(r, "generated", "closing")
  /\ outbox' = [outbox EXCEPT ![r] =
       IF outcome[r] = "natural" THEN Append(LeftOver(r), "done") ELSE LeftOver(r)]
  /\ UNCHANGED <<permits, owner, activeModel, path, cached, live, cancel, buf,
                 tokens, outcome, sent, clientVars>>

FinalCheck(r) ==
  /\ Goto(r, "generated", "closing")
  /\ outbox' = [outbox EXCEPT ![r] = Append(LeftOver(r), "done")]
  /\ UNCHANGED <<permits, owner, activeModel, path, cached, live, cancel, buf,
                 tokens, outcome, sent, clientVars>>

\* The next of the messages the task ends its stream with.
SendLast(r) ==
  /\ pc[r] \in {"rejecting", "closing"}
  /\ outbox[r] # <<>>
  /\ Send(r, Head(outbox[r]))
  /\ outbox' = [outbox EXCEPT ![r] = Tail(@)]
  /\ UNCHANGED <<pc, permits, owner, activeModel, path, cached, live, cancel,
                 buf, tokens, outcome, clientVars>>

\* Faulty form: the guard of the mutex outlives the task.
ReturnLocked(r) ==
  /\ outbox[r] = <<>>
  /\ Goto(r, "rejecting", "closed") \/ Goto(r, "closing", "closed")
  /\ permits' = permits + 1
  /\ UNCHANGED <<owner, activeModel, path, cached, live, cancel, buf, tokens,
                 outcome, outbox, sent, clientVars>>

\* The task returns: the guard, the permit and the sender are dropped.
Return(r) ==
  /\ outbox[r] = <<>>
  /\ \/ Goto(r, "rejecting", "closed") /\ UNCHANGED owner
     \/ Goto(r, "closing", "closed") /\ owner' = None
  /\ permits' = permits + 1
  /\ UNCHANGED <<activeModel, path, cached, live, cancel, buf, tokens, outcome,
                 outbox, sent, clientVars>>

-----------------------------------------------------------------------------
\* Everything the task of r does by itself once it does not wait for others.
TaskStep(r) ==
  \/ Resolve(r) \/ Evict(r) \/ Instantiate(r) \/ NotGenerated(r)
  \/ KernelMissing(r) \/ PromptPanics(r) \/ StartGeneration(r)
  \/ Callback(r) \/ CallbackCancelled(r) \/ SendToken(r) \/ SendTrigger(r)
  \/ RaiseCancel(r) \/ KernelEnds(r) \/ KernelPanics(r) \/ ReportPanic(r)
  \/ FinalCheck(r) \/ SendLast(r) \/ Return(r)

Next ==
  \/ SwitchModel
  \/ \E r \in Request :
       \/ Dispatch(r) \/ Receive(r) \/ HangUp(r)
       \/ AcquireSlot(r) \/ LockEngine(r) \/ TaskStep(r)

SafeSpec == Init /\ [][Next]_vars

\* The runtime keeps polling a task that can move, the kernel keeps
\* producing, and a caller that has not hung up keeps reading.  Tokio's
\* semaphore and mutex hand over in FIFO order, so a task that is passed over
\* again and again does not exist: the two waits are strongly fair.
Fairness ==
  \A r \in Request :
    /\ WF_vars(TaskStep(r))
    /\ WF_vars(Receive(r))
    /\ SF_vars(AcquireSlot(r))
    /\ SF_vars(LockEngine(r))

Spec == SafeSpec /\ Fairness

-----------------------------------------------------------------------------
(* Properties. *)

\* The semaphore loses and gains no permit: what is not free is held by an
\* admitted task, on every way out of dispatch_stream, the panics included.
PermitsConserved ==
  permits + Cardinality({r \in Request : pc[r] \in Admitted}) = Slots

\* One engine is resident at most, and it is the cached one: switching models
\* neither leaks the old engine nor keeps a freed one in the cache.
OneEngineResident == live = {cached} \ {None}

\* A generation runs on a live engine of the model its own task resolved,
\* whatever other requests and the user do to the cache and Permission.json.
GeneratesOnResolvedModel ==
  \A r \in Request : pc[r] \in Generating =>
    /\ cached \in live
    /\ path[r] \in Model
    /\ path[cached] = path[r]

\* A trigger the model emitted reaches a caller that stayed, whole or cut
\* short: between them the callback and the final buffer check miss none.
TriggerDelivered ==
  \A r \in Request :
    pc[r] = "closed" /\ rx[r] /\ buf[r] # "plain" =>
      \E i \in 1..Len(sent[r]) : sent[r][i] \in {"trigger", "fragment"}

\* Nothing of the payload leaks: no text follows a trigger in a stream.
NoTextAfterTrigger ==
  \A r \in Request : \A i, j \in 1..Len(sent[r]) :
    i < j /\ sent[r][i] \in {"trigger", "fragment"} => sent[r][j] # "text"

\* [DONE] is the last message of a stream and every stream that stays open
\* to its end carries it.  Only a task that panicked before its generation,
\* on a missing kernel or on a prompt with a NUL, ends a stream without it,
\* and that stream is empty: no answer breaks off in silence.
StreamsEndWithDone ==
  \A r \in Request :
    /\ \A i \in 1..Len(sent[r]) : sent[r][i] = "done" => i = Len(sent[r])
    /\ pc[r] = "closed" /\ rx[r] =>
         \/ sent[r] # <<>> /\ sent[r][Len(sent[r])] = "done"
         \/ sent[r] = <<>> /\ outcome[r] = "crashed"

\* The shared flag never cuts an answer in the middle: it stops a generation
\* at its first token or not at all.
CancelBeforeFirstToken ==
  \A r \in Request : outcome[r] = "cancel" => tokens[r] = 0

\* No engine is freed while a generation runs.
NeverFreedInUse ==
  [][~(live \subseteq live') => \A r \in Request : pc[r] \notin Generating]_vars

\* The dispatcher is an inference queue: it serves one request at a time.
Queue == INSTANCE InferenceQueue WITH
  waiting <- {r \in Request : pc[r] \in {"queued", "resolving", "contending", "loading"}},
  serving <- {r \in Request : pc[r] \in Generating},
  finished <- {r \in Request : pc[r] \in {"rejecting", "closing", "closed"}}

QueueSafety == Queue!SafeSpec

QueueSpec == Queue!Spec

\* What the README says of cancel_flag, "bound to the CallbackData": only the
\* callback of a generation stops that generation with it.
CancelStopsOwnGeneration ==
  [][\A r \in Request :
       outcome[r] = "none" /\ outcome'[r] = "cancel" => cancel = r]_vars
=============================================================================
