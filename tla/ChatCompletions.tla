--------------------------- MODULE ChatCompletions ---------------------------
(***************************************************************************)
(* chat_completions (Inference-engine/api/src/handlers/chat.rs) on top of  *)
(* the dispatcher.  A streaming session reads its stream, and when a whole *)
(* trigger arrives it runs the tool and dispatches the prompt again with   *)
(* the result, three rounds at most; the other handlers (JSON answers,     *)
(* chat_stream, dispatch_prompt) only read.                                *)
(***************************************************************************)
EXTENDS Dispatcher

CONSTANTS
  Session,    \* the HTTP requests
  Streaming,  \* those with "stream": true
  MaxIters    \* rounds of the tool loop, 3 in the code

ASSUME ChatAssumption ==
  /\ Streaming \subseteq Session
  /\ MaxIters \in Nat \ {0}

VARIABLES
  phase,  \* where each session is
  cur,    \* rx: the request whose stream the session reads
  iters   \* max_iters: the rounds left after the current one

chatVars == <<phase, cur, iters>>
allVars == <<vars, phase, cur, iters>>

ChatTypeOK ==
  /\ TypeOK
  /\ phase \in [Session -> {"start", "reading", "tool", "resume", "finished", "gone"}]
  /\ cur \in [Session -> Request \cup {None}]
  /\ iters \in [Session -> 0..MaxIters]

ChatInit ==
  /\ Init
  /\ phase = [s \in Session |-> "start"]
  /\ cur = [s \in Session |-> None]
  /\ iters = [s \in Session |-> MaxIters]

-----------------------------------------------------------------------------
\* The request a dispatch creates; which name it gets does not matter.
IdleRequests == {r \in Request : pc[r] = "idle"}
NewRequest == CHOOSE r \in IdleRequests : TRUE

\* The session calls dispatch_stream and reads the stream it returns.
DispatchFor(s) ==
  /\ IdleRequests # {}
  /\ Dispatch(NewRequest)
  /\ cur' = [cur EXCEPT ![s] = NewRequest]

Begin(s) ==
  /\ phase[s] = "start"
  /\ DispatchFor(s)
  /\ phase' = [phase EXCEPT ![s] = "reading"]
  /\ iters' = [iters EXCEPT ![s] = @ - 1]

NextMessage(s) == sent[cur[s]][taken[cur[s]] + 1]

\* rx.recv() returns a message.  A whole trigger starts a tool, anything else
\* goes on to the client.
Read(s) ==
  /\ phase[s] = "reading"
  /\ Receive(cur[s])
  /\ IF s \in Streaming /\ NextMessage(s) = "trigger"
     THEN phase' = [phase EXCEPT ![s] = "tool"]
     ELSE UNCHANGED phase
  /\ UNCHANGED <<cur, iters>>

\* Faulty form: a stream that carried no [DONE] keeps the session waiting.
StreamOverDone(s) ==
  /\ phase[s] = "reading"
  /\ pc[cur[s]] = "closed"
  /\ sent[cur[s]] # <<>>
  /\ taken[cur[s]] = Len(sent[cur[s]])
  /\ phase' = [phase EXCEPT ![s] = "finished"]
  /\ UNCHANGED <<vars, cur, iters>>

\* rx.recv() returns None: the task has dropped its sender.
StreamOver(s) ==
  /\ phase[s] = "reading"
  /\ pc[cur[s]] = "closed"
  /\ taken[cur[s]] = Len(sent[cur[s]])
  /\ phase' = [phase EXCEPT ![s] = "finished"]
  /\ UNCHANGED <<vars, cur, iters>>

\* UnifiedExecutor::execute returns, a result or an error text.
RunTool(s) ==
  /\ phase[s] = "tool"
  /\ phase' = [phase EXCEPT ![s] = "resume"]
  /\ UNCHANGED <<vars, cur, iters>>

\* Faulty form: one round too many is read.
ResumeOneMore(s) ==
  /\ phase[s] = "resume"
  /\ DispatchFor(s)
  /\ iters' = [iters EXCEPT ![s] = @ - 1]
  /\ phase' = [phase EXCEPT ![s] = "reading"]

\* The prompt with the result is dispatched; its stream is read only when a
\* round is left, otherwise the loop ends here.
Resume(s) ==
  /\ phase[s] = "resume"
  /\ DispatchFor(s)
  /\ IF iters[s] > 0
     THEN /\ iters' = [iters EXCEPT ![s] = @ - 1]
          /\ phase' = [phase EXCEPT ![s] = "reading"]
     ELSE /\ phase' = [phase EXCEPT ![s] = "finished"]
          /\ UNCHANGED iters

\* The HTTP client disconnects and axum drops the handler, at an await or a
\* yield: those before and after the tool, but never during its run.
Disconnect(s) ==
  /\ phase[s] \in {"reading", "tool", "resume"}
  /\ phase' = [phase EXCEPT ![s] = "gone"]
  /\ UNCHANGED <<vars, cur, iters>>

\* A session still owns the receiver of r.
Reads(s, r) == cur[s] = r /\ phase[s] \in {"reading", "tool", "resume"}

\* Faulty form: the session ends without dropping the receiver it holds.
DropReceiverButLast(r) ==
  /\ \A s \in Session : cur[s] # r
  /\ HangUp(r)
  /\ UNCHANGED chatVars

\* A receiver nobody owns is dropped: the old one once the session has the
\* new one, the last one with the session.
DropReceiver(r) ==
  /\ \A s \in Session : ~Reads(s, r)
  /\ HangUp(r)
  /\ UNCHANGED chatVars

SessionStep(s) == Read(s) \/ StreamOver(s) \/ RunTool(s) \/ Resume(s)

ChatNext ==
  \/ \E s \in Session : Begin(s) \/ SessionStep(s) \/ Disconnect(s)
  \/ \E r \in Request :
       \/ DropReceiver(r)
       \/ (AcquireSlot(r) \/ LockEngine(r) \/ TaskStep(r)) /\ UNCHANGED chatVars
  \/ SwitchModel /\ UNCHANGED chatVars

ChatSafeSpec == ChatInit /\ [][ChatNext]_allVars

\* As in Dispatcher, with the sessions in the place of the callers: clients
\* that stay keep reading, tools return and dropped receivers are noticed.
ChatFairness ==
  /\ \A r \in Request :
       /\ WF_allVars(TaskStep(r) /\ UNCHANGED chatVars)
       /\ SF_allVars(AcquireSlot(r) /\ UNCHANGED chatVars)
       /\ SF_allVars(LockEngine(r) /\ UNCHANGED chatVars)
       /\ WF_allVars(DropReceiver(r))
  /\ \A s \in Session : WF_allVars(SessionStep(s))

ChatSpec == ChatSafeSpec /\ ChatFairness

-----------------------------------------------------------------------------
(* Properties. *)

\* Every session that began comes to its final [DONE] event or to a client
\* that left, also when its task crashed without a message.
EverySessionEnds ==
  \A s \in Session : phase[s] = "reading" ~> phase[s] \in {"finished", "gone"}

\* Whatever the sessions leave behind, interrupted streams and the unread last
\* round included, the engine and all the slots are free again in the end.
EngineReleased ==
  (\A s \in Session : phase[s] \in {"finished", "gone"})
    ~> (owner = None /\ permits = Slots)

=============================================================================
