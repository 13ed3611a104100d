-------------------------- MODULE DispatcherProofs --------------------------
(***************************************************************************)
(* What holds of Dispatcher for any number of requests, models, slots, any *)
(* channel capacity and any token limit, and of ChatCompletions on top of  *)
(* it for any number of sessions and rounds.                               *)
(***************************************************************************)
EXTENDS ChatCompletions, FiniteSetTheorems, SequenceTheorems, TLAPS

-----------------------------------------------------------------------------
(* Types. *)

\* The places of a task, spelled out.
LEMMA PcValues ==
  Pc = {"idle", "queued", "resolving", "rejecting", "contending", "loading",
        "generating", "sending", "trigger", "flagging", "panicked",
        "generated", "closing", "closed"}
BY DEF Pc, Admitted, Locked, Generating

LEMMA InitTypeOK == Init => TypeOK
BY DispatcherAssumption, PcValues DEF Init, TypeOK, Buffer, Outcome

\* The final buffer check sends a trigger at most, and [DONE] after it.
LEMMA LeftOverValues ==
  ASSUME TypeOK, NEW r \in Request
  PROVE  LeftOver(r) \in {<<>>, <<"fragment">>, <<"trigger">>}
BY DEF LeftOver

LEMMA LeftOverType ==
  ASSUME TypeOK, NEW r \in Request
  PROVE  Append(LeftOver(r), "done") \in Seq(Message)
<1>1. <<>> \in Seq(Message) /\ <<"fragment">> \in Seq(Message) /\ <<"trigger">> \in Seq(Message)
  BY DEF Message
<1>2. LeftOver(r) \in Seq(Message)
  BY <1>1, LeftOverValues
<1>3. "done" \in Message
  BY DEF Message
<1>4. QED
  BY <1>2, <1>3

\* The sends of a task keep the types.
LEMMA SendType ==
  ASSUME TypeOK, NEW r \in Request, NEW m \in Message, Send(r, m)
  PROVE  sent' \in [Request -> Seq(Message)]
<1>1. sent[r] \in Seq(Message)
  BY DEF TypeOK
<1>2. Append(sent[r], m) \in Seq(Message)
  BY <1>1
<1>3. QED
  BY <1>2 DEF TypeOK, Send

\* No step of any task, caller or user leaves the types.
LEMMA ReceiveType ==
  ASSUME TypeOK, NEW r \in Request, Receive(r)
  PROVE  taken' \in [Request -> Nat]
<1>1. taken \in [Request -> Nat]
  BY DEF TypeOK
<1>2. taken' = [taken EXCEPT ![r] = @ + 1]
  BY DEF Receive
<1>3. QED
  BY <1>1, <1>2

LEMMA NextTypeOK == TypeOK /\ [Next]_vars => TypeOK'
<1> USE DispatcherAssumption DEF TypeOK, clientVars, taskVars
<1> SUFFICES ASSUME TypeOK, [Next]_vars
             PROVE  TypeOK'
  OBVIOUS
<1>1. CASE SwitchModel
  BY <1>1 DEF SwitchModel
<1>2. CASE UNCHANGED vars
  BY <1>2 DEF vars
<1>3. ASSUME NEW r \in Request, Dispatch(r) \/ Receive(r) \/ HangUp(r)
      PROVE  TypeOK'
  <2>1. CASE Dispatch(r)
    BY <2>1, PcValues DEF Dispatch, Goto
  <2>2. CASE Receive(r)
    <3>1. taken' \in [Request -> Nat]
      BY <2>2, ReceiveType
    <3>2. UNCHANGED <<taskVars, activeModel, rx>>
      BY <2>2 DEF Receive
    <3>3. QED
      BY <3>1, <3>2
  <2>3. CASE HangUp(r)
    <3>1. Len(sent[r]) \in Nat
      OBVIOUS
    <3>2. QED
      BY <2>3, <3>1 DEF HangUp
  <2>4. QED
    BY <1>3, <2>1, <2>2, <2>3
<1>4. ASSUME NEW r \in Request, AcquireSlot(r) \/ LockEngine(r) \/ Resolve(r)
      PROVE  TypeOK'
  <2>1. <<"error", "done">> \in Seq(Message)
    BY DEF Message
  <2>2. CASE AcquireSlot(r)
    BY <2>2, PcValues, SMTT(30) DEF AcquireSlot, Goto
  <2>3. CASE LockEngine(r)
    BY <2>3, PcValues, SMTT(30) DEF LockEngine, Goto
  <2>4. CASE Resolve(r)
    <3>1. pc' \in [Request -> Pc]
      BY <2>4, PcValues DEF Resolve, Goto
    <3>2. outbox' \in [Request -> Seq(Message)]
      BY <2>1, <2>4 DEF Resolve
    <3>3. QED
      BY <2>4, <3>1, <3>2 DEF Resolve
  <2>5. QED
    BY <1>4, <2>2, <2>3, <2>4
<1>5. ASSUME NEW r \in Request,
             \/ StartGeneration(r) \/ Evict(r) \/ Instantiate(r)
             \/ NotGenerated(r) \/ KernelMissing(r) \/ PromptPanics(r)
      PROVE  TypeOK'
  <2>1. <<"error", "done">> \in Seq(Message)
    BY DEF Message
  <2>2. CASE StartGeneration(r) \/ Evict(r) \/ Instantiate(r)
    BY <2>2, PcValues DEF StartGeneration, Evict, Instantiate, Goto
  <2>3. CASE NotGenerated(r)
    BY <2>1, <2>3, PcValues DEF NotGenerated, Goto, Outcome
  <2>4. CASE KernelMissing(r)
    BY <2>4, PcValues DEF KernelMissing, Goto, Outcome
  <2>5. CASE PromptPanics(r)
    BY <2>5, PcValues DEF PromptPanics, Goto, Outcome
  <2>6. QED
    BY <1>5, <2>2, <2>3, <2>4, <2>5
<1>6. ASSUME NEW r \in Request, Callback(r)
      PROVE  TypeOK'
  <2>1. tokens' \in [Request -> 0..MaxTokens]
    BY <1>6 DEF Callback
  <2>2. pc' \in [Request -> Pc] /\ buf' \in [Request -> Buffer]
    BY <1>6, PcValues DEF Callback, Intercept, Goto, Buffer
  <2>3. QED
    BY <1>6, <2>1, <2>2 DEF Callback
<1>7. ASSUME NEW r \in Request,
             \/ CallbackCancelled(r) \/ RaiseCancel(r) \/ KernelEnds(r)
             \/ KernelPanics(r)
      PROVE  TypeOK'
  BY <1>7, PcValues DEF CallbackCancelled, RaiseCancel, KernelEnds,
     KernelPanics, EndGeneration, Goto, Outcome
<1>8. ASSUME NEW r \in Request,
             SendToken(r) \/ SendTrigger(r) \/ ReportPanic(r)
      PROVE  TypeOK'
  <2>1. sent' \in [Request -> Seq(Message)]
    BY <1>8, SendType DEF SendToken, SendTrigger, ReportPanic, Message
  <2>2. pc' \in [Request -> Pc] /\ outcome' \in [Request -> Outcome]
    BY <1>8, PcValues DEF SendToken, SendTrigger, ReportPanic, EndGeneration,
       Goto, Outcome
  <2>3. QED
    BY <1>8, <2>1, <2>2 DEF SendToken, SendTrigger, ReportPanic
<1>9. ASSUME NEW r \in Request, FinalCheck(r) \/ SendLast(r) \/ Return(r)
      PROVE  TypeOK'
  <2>1. CASE FinalCheck(r)
    BY <2>1, LeftOverType, PcValues DEF FinalCheck, Goto
  <2>2. CASE SendLast(r)
    <3>1. Head(outbox[r]) \in Message /\ Tail(outbox[r]) \in Seq(Message)
      BY <2>2 DEF SendLast
    <3>2. sent' \in [Request -> Seq(Message)]
      BY <2>2, <3>1, SendType DEF SendLast
    <3>3. QED
      BY <2>2, <3>1, <3>2 DEF SendLast
  <2>3. CASE Return(r)
    <3>1. pc' \in [Request -> Pc]
      BY <2>3, PcValues DEF Return, Goto
    <3>2. owner' \in Request \cup {None} /\ permits' \in Nat
      BY <2>3 DEF Return
    <3>3. QED
      BY <2>3, <3>1, <3>2 DEF Return
  <2>4. QED
    BY <1>9, <2>1, <2>2, <2>3
<1>10. QED
  BY <1>1, <1>2, <1>3, <1>4, <1>5, <1>6, <1>7, <1>8, <1>9 DEF Next, TaskStep

\* Type correctness, for every value of the constants.
THEOREM TypeCorrect == SafeSpec => []TypeOK
BY InitTypeOK, NextTypeOK, PTL DEF SafeSpec

-----------------------------------------------------------------------------
(* The inductive invariant. *)

\* The guard of the mutex is where the tasks are: owner says which one holds
\* it, and no other task is past LockEngine.
EngineExclusive == \A r \in Request : pc[r] \in Locked <=> owner = r

\* A task asks for the engine with a model at hand.
PathResolved ==
  \A r \in Request :
    pc[r] \in {"contending", "loading"} \cup Generating => path[r] \in Model

\* The cached engine was instantiated by a task that resolves no path again.
EngineStarted ==
  cached # None => pc[cached] \in Generating \cup {"loading", "closing", "closed"}

\* The flag is down from the first callback that found it down to the end of
\* that generation, and a generation it stopped is over.
FlagLowered ==
  \A r \in Request :
    /\ pc[r] \in {"generating", "sending", "trigger", "flagging"} /\ tokens[r] > 0 =>
         cancel = None
    /\ pc[r] \in {"idle", "queued", "resolving", "contending", "loading"} =>
         tokens[r] = 0 /\ outcome[r] = "none"
    /\ outcome[r] = "cancel" => pc[r] \in {"generated", "closing", "closed"}

IInv ==
  /\ TypeOK
  /\ EngineExclusive
  /\ PathResolved
  /\ EngineStarted
  /\ OneEngineResident
  /\ GeneratesOnResolvedModel
  /\ FlagLowered
  /\ CancelBeforeFirstToken

THEOREM InitIInv == Init => IInv
BY InitTypeOK, DispatcherAssumption DEF Init, IInv, EngineExclusive, PathResolved,
   EngineStarted, OneEngineResident, GeneratesOnResolvedModel, FlagLowered,
   CancelBeforeFirstToken, Locked, Generating

\* The steps a task takes without touching the mutex, the engine cache, its
\* path or the flag: only its own place, tokens and outcome move.
OwnStep(r) ==
  \/ Callback(r) \/ CallbackCancelled(r) \/ SendToken(r) \/ SendTrigger(r)
  \/ KernelEnds(r) \/ KernelPanics(r) \/ ReportPanic(r) \/ FinalCheck(r)

LEMMA OwnStepShape ==
  ASSUME TypeOK, NEW r \in Request, OwnStep(r)
  PROVE  /\ pc[r] \in Generating
         /\ pc'[r] \in Generating \cup {"closing"}
         /\ \A s \in Request \ {r} : pc'[s] = pc[s]
         /\ UNCHANGED <<permits, owner, activeModel, path, cached, live, cancel>>
BY DEF OwnStep, TypeOK, Callback, Intercept, CallbackCancelled, SendToken,
   SendTrigger, KernelEnds, KernelPanics, ReportPanic, FinalCheck,
   EndGeneration, Goto, Generating

\* The steps that leave every place and everything about the engine alone.
QuietStep(r) == Receive(r) \/ HangUp(r) \/ SendLast(r)

LEMMA QuietStepShape ==
  ASSUME TypeOK, NEW r \in Request, QuietStep(r)
  PROVE  UNCHANGED <<pc, permits, owner, activeModel, path, cached, live,
                     cancel, tokens, outcome>>
BY DEF QuietStep, Receive, HangUp, SendLast, taskVars

\* Next, with its steps in these groups.
LEMMA NextCases ==
  ASSUME [Next]_vars
  PROVE  \/ SwitchModel
         \/ UNCHANGED vars
         \/ \E r \in Request :
              \/ OwnStep(r) \/ QuietStep(r)
              \/ Dispatch(r) \/ AcquireSlot(r) \/ Resolve(r) \/ LockEngine(r)
              \/ StartGeneration(r) \/ Evict(r) \/ Instantiate(r) \/ NotGenerated(r)
              \/ KernelMissing(r) \/ PromptPanics(r) \/ RaiseCancel(r) \/ Return(r)
BY DEF Next, TaskStep, OwnStep, QuietStep

\* What the steps around the engine need of the types.
EngineTyped ==
  /\ pc \in [Request -> Pc]
  /\ permits \in Nat
  /\ owner \in Request \cup {None}
  /\ activeModel \in Model \cup {None}
  /\ path \in [Request -> Model \cup {None}]
  /\ cached \in Request \cup {None}
  /\ live \subseteq Request
  /\ cancel \in Request \cup {None}
  /\ tokens \in [Request -> 0..MaxTokens]
  /\ outcome \in [Request -> Outcome]

LEMMA EngineTypes == TypeOK => EngineTyped
BY DEF TypeOK, EngineTyped

\* The mutex is handed from task to task and never shared.
LEMMA NextEngineExclusive ==
  TypeOK /\ EngineExclusive /\ [Next]_vars => EngineExclusive'
<1> SUFFICES ASSUME TypeOK, EngineExclusive, [Next]_vars
             PROVE  EngineExclusive'
  OBVIOUS
<1> EngineTyped
  BY EngineTypes
<1> USE DispatcherAssumption DEF EngineExclusive, EngineTyped
<1>1. CASE SwitchModel \/ UNCHANGED vars
  BY <1>1 DEF SwitchModel, vars, taskVars
<1>2. ASSUME NEW r \in Request, OwnStep(r) \/ QuietStep(r)
      PROVE  EngineExclusive'
  BY <1>2, OwnStepShape, QuietStepShape DEF Locked
<1>3. ASSUME NEW r \in Request,
             \/ Dispatch(r) \/ AcquireSlot(r) \/ Resolve(r) \/ StartGeneration(r)
             \/ Evict(r) \/ Instantiate(r) \/ NotGenerated(r) \/ RaiseCancel(r)
      PROVE  EngineExclusive'
  BY <1>3 DEF Dispatch, AcquireSlot, Resolve, StartGeneration, Evict, Instantiate,
     NotGenerated, RaiseCancel, EndGeneration, Goto, Locked, Generating
<1>4. ASSUME NEW r \in Request, LockEngine(r) \/ KernelMissing(r) \/ PromptPanics(r) \/ Return(r)
      PROVE  EngineExclusive'
  <2>1. CASE LockEngine(r)
    BY <2>1 DEF LockEngine, Goto, Locked, Generating
  <2>2. CASE KernelMissing(r) \/ PromptPanics(r)
    BY <2>2 DEF KernelMissing, PromptPanics, Goto, Locked, Generating
  <2>3. CASE Return(r) /\ pc[r] = "rejecting"
    BY <2>3 DEF Return, Goto, Locked, Generating
  <2>4. CASE Return(r) /\ pc[r] = "closing"
    BY <2>4 DEF Return, Goto, Locked, Generating
  <2>5. QED
    BY <1>4, <2>1, <2>2, <2>3, <2>4 DEF Return, Goto
<1>5. QED
  BY <1>1, <1>2, <1>3, <1>4, NextCases

LEMMA NextPathResolved ==
  TypeOK /\ PathResolved /\ [Next]_vars => PathResolved'
<1> SUFFICES ASSUME TypeOK, PathResolved, [Next]_vars
             PROVE  PathResolved'
  OBVIOUS
<1> EngineTyped
  BY EngineTypes
<1> USE DispatcherAssumption DEF PathResolved, EngineTyped
<1>1. CASE SwitchModel \/ UNCHANGED vars
  BY <1>1 DEF SwitchModel, vars, taskVars
<1>2. ASSUME NEW r \in Request, OwnStep(r) \/ QuietStep(r)
      PROVE  PathResolved'
  BY <1>2, OwnStepShape, QuietStepShape DEF Generating
<1>3. ASSUME NEW r \in Request, Resolve(r)
      PROVE  PathResolved'
  BY <1>3 DEF Resolve, Goto, Generating
<1>4. ASSUME NEW r \in Request,
             \/ Dispatch(r) \/ AcquireSlot(r) \/ LockEngine(r) \/ StartGeneration(r)
             \/ Evict(r) \/ Instantiate(r) \/ NotGenerated(r)
             \/ KernelMissing(r) \/ PromptPanics(r) \/ RaiseCancel(r) \/ Return(r)
      PROVE  PathResolved'
  BY <1>4 DEF Dispatch, AcquireSlot, LockEngine, StartGeneration, Evict, Instantiate,
     NotGenerated, KernelMissing, PromptPanics, RaiseCancel, Return, EndGeneration, Goto,
     Generating
<1>5. QED
  BY <1>1, <1>2, <1>3, <1>4, NextCases

LEMMA NextEngineStarted ==
  TypeOK /\ EngineStarted /\ [Next]_vars => EngineStarted'
<1> SUFFICES ASSUME TypeOK, EngineStarted, [Next]_vars
             PROVE  EngineStarted'
  OBVIOUS
<1> EngineTyped
  BY EngineTypes
<1> USE DispatcherAssumption DEF EngineStarted, EngineTyped
<1>1. CASE SwitchModel \/ UNCHANGED vars
  BY <1>1 DEF SwitchModel, vars, taskVars
<1>2. ASSUME NEW r \in Request, OwnStep(r) \/ QuietStep(r)
      PROVE  EngineStarted'
  BY <1>2, OwnStepShape, QuietStepShape
<1>3. ASSUME NEW r \in Request,
             \/ Dispatch(r) \/ AcquireSlot(r) \/ Resolve(r) \/ LockEngine(r)
             \/ StartGeneration(r) \/ NotGenerated(r) \/ KernelMissing(r) \/ PromptPanics(r)
             \/ RaiseCancel(r) \/ Return(r)
      PROVE  EngineStarted'
  BY <1>3 DEF Dispatch, AcquireSlot, Resolve, LockEngine, StartGeneration,
     NotGenerated, KernelMissing, PromptPanics, RaiseCancel, Return, EndGeneration, Goto,
     Generating
<1>4. ASSUME NEW r \in Request, Evict(r) \/ Instantiate(r)
      PROVE  EngineStarted'
  BY <1>4 DEF Evict, Instantiate, Goto, Generating
<1>5. QED
  BY <1>1, <1>2, <1>3, <1>4, NextCases

\* Loading frees before it instantiates, so the kernel never holds a second
\* engine and the cache never a freed one.
LEMMA NextOneEngineResident ==
  TypeOK /\ OneEngineResident /\ [Next]_vars => OneEngineResident'
<1> SUFFICES ASSUME TypeOK, OneEngineResident, [Next]_vars
             PROVE  OneEngineResident'
  OBVIOUS
<1> EngineTyped
  BY EngineTypes
<1> USE DispatcherAssumption DEF OneEngineResident, EngineTyped
<1>1. CASE SwitchModel \/ UNCHANGED vars
  BY <1>1 DEF SwitchModel, vars, taskVars
<1>2. ASSUME NEW r \in Request, OwnStep(r) \/ QuietStep(r)
      PROVE  OneEngineResident'
  BY <1>2, OwnStepShape, QuietStepShape
<1>3. ASSUME NEW r \in Request,
             \/ Dispatch(r) \/ AcquireSlot(r) \/ Resolve(r) \/ LockEngine(r)
             \/ StartGeneration(r) \/ NotGenerated(r) \/ KernelMissing(r) \/ PromptPanics(r)
             \/ RaiseCancel(r) \/ Return(r)
      PROVE  OneEngineResident'
  BY <1>3 DEF Dispatch, AcquireSlot, Resolve, LockEngine, StartGeneration,
     NotGenerated, KernelMissing, PromptPanics, RaiseCancel, Return
<1>4. ASSUME NEW r \in Request, Evict(r) \/ Instantiate(r)
      PROVE  OneEngineResident'
  BY <1>4 DEF Evict, Instantiate
<1>5. QED
  BY <1>1, <1>2, <1>3, <1>4, NextCases

\* The engine under a generation stays: only the owner of the mutex touches
\* the cache, and the owner is the one that generates.
LEMMA NextGeneratesOnResolvedModel ==
  IInv /\ [Next]_vars => GeneratesOnResolvedModel'
<1> SUFFICES ASSUME IInv, [Next]_vars
             PROVE  GeneratesOnResolvedModel'
  OBVIOUS
<1> EngineTyped
  BY EngineTypes DEF IInv
<1> USE DispatcherAssumption DEF GeneratesOnResolvedModel, EngineTyped, IInv
<1>1. CASE SwitchModel \/ UNCHANGED vars
  BY <1>1 DEF SwitchModel, vars, taskVars
<1>2. ASSUME NEW r \in Request, OwnStep(r) \/ QuietStep(r)
      PROVE  GeneratesOnResolvedModel'
  BY <1>2, OwnStepShape, QuietStepShape
<1>3. ASSUME NEW r \in Request, Resolve(r)
      PROVE  GeneratesOnResolvedModel'
  <2>1. cached # r
    BY <1>3 DEF Resolve, Goto, EngineStarted, Generating
  <2>2. QED
    BY <1>3, <2>1 DEF Resolve, Goto, Generating, OneEngineResident
<1>4. ASSUME NEW r \in Request,
             \/ Dispatch(r) \/ AcquireSlot(r) \/ LockEngine(r)
             \/ NotGenerated(r) \/ KernelMissing(r) \/ PromptPanics(r)
             \/ RaiseCancel(r) \/ Return(r)
      PROVE  GeneratesOnResolvedModel'
  BY <1>4 DEF Dispatch, AcquireSlot, LockEngine, NotGenerated,
     KernelMissing, PromptPanics, RaiseCancel, Return, EndGeneration, Goto, Generating
<1>5. ASSUME NEW r \in Request, StartGeneration(r)
      PROVE  GeneratesOnResolvedModel'
  BY <1>5 DEF StartGeneration, CachedServes, Goto, Generating, OneEngineResident, PathResolved
<1>6. ASSUME NEW r \in Request, Evict(r) \/ Instantiate(r)
      PROVE  GeneratesOnResolvedModel'
  <2>1. pc[r] = "loading"
    BY <1>6 DEF Evict, Instantiate, Goto
  <2>2. \A s \in Request : pc[s] \notin Generating
    BY <2>1 DEF EngineExclusive, Locked, Generating
  <2>3. QED
    BY <1>6, <2>1, <2>2 DEF Evict, Instantiate, Goto, PathResolved, Generating
<1>7. QED
  BY <1>1, <1>2, <1>3, <1>4, <1>5, <1>6, NextCases

\* Only a dispatch lowers the flag and only the owner of the mutex raises it,
\* on its way out; so it is down all along a generation that found it down.
LEMMA NextFlagLowered ==
  IInv /\ [Next]_vars => FlagLowered' /\ CancelBeforeFirstToken'
<1> SUFFICES ASSUME IInv, [Next]_vars
             PROVE  FlagLowered' /\ CancelBeforeFirstToken'
  OBVIOUS
<1> EngineTyped
  BY EngineTypes DEF IInv
<1> USE DispatcherAssumption DEF FlagLowered, CancelBeforeFirstToken, EngineTyped, IInv
<1>1. CASE SwitchModel \/ UNCHANGED vars
  BY <1>1 DEF SwitchModel, vars, taskVars
<1>2. ASSUME NEW r \in Request, QuietStep(r)
      PROVE  FlagLowered' /\ CancelBeforeFirstToken'
  BY <1>2, QuietStepShape
<1>3. ASSUME NEW r \in Request, Callback(r)
      PROVE  FlagLowered' /\ CancelBeforeFirstToken'
  BY <1>3 DEF Callback, Intercept, Goto
<1>4. ASSUME NEW r \in Request, CallbackCancelled(r)
      PROVE  FlagLowered' /\ CancelBeforeFirstToken'
  <2>1. tokens[r] = 0
    BY <1>4 DEF CallbackCancelled, EndGeneration, Goto
  <2>2. QED
    BY <1>4, <2>1 DEF CallbackCancelled, EndGeneration, Goto
<1>5. ASSUME NEW r \in Request,
             \/ SendToken(r) \/ SendTrigger(r) \/ KernelEnds(r)
             \/ KernelPanics(r) \/ ReportPanic(r) \/ FinalCheck(r)
      PROVE  FlagLowered' /\ CancelBeforeFirstToken'
  <2>1. CASE SendToken(r)
    BY <2>1 DEF SendToken, EndGeneration, Goto
  <2>2. CASE SendTrigger(r)
    BY <2>2 DEF SendTrigger, Goto
  <2>3. CASE KernelEnds(r)
    BY <2>3 DEF KernelEnds, EndGeneration, Goto
  <2>4. CASE KernelPanics(r)
    BY <2>4 DEF KernelPanics, Goto
  <2>5. CASE ReportPanic(r)
    BY <2>5 DEF ReportPanic, Goto
  <2>6. CASE FinalCheck(r)
    BY <2>6 DEF FinalCheck, Goto
  <2>7. QED
    BY <1>5, <2>1, <2>2, <2>3, <2>4, <2>5, <2>6
<1>6. ASSUME NEW r \in Request,
             \/ Dispatch(r) \/ AcquireSlot(r) \/ Resolve(r) \/ LockEngine(r)
             \/ StartGeneration(r) \/ Evict(r) \/ Instantiate(r)
      PROVE  FlagLowered' /\ CancelBeforeFirstToken'
  <2>1. CASE Dispatch(r)
    BY <2>1 DEF Dispatch, Goto
  <2>2. CASE AcquireSlot(r)
    BY <2>2 DEF AcquireSlot, Goto
  <2>3. CASE Resolve(r)
    BY <2>3 DEF Resolve, Goto
  <2>4. CASE LockEngine(r)
    BY <2>4 DEF LockEngine, Goto
  <2>5. CASE StartGeneration(r)
    BY <2>5 DEF StartGeneration, Goto
  <2>6. CASE Evict(r)
    BY <2>6 DEF Evict
  <2>7. CASE Instantiate(r)
    BY <2>7 DEF Instantiate, Goto
  <2>8. QED
    BY <1>6, <2>1, <2>2, <2>3, <2>4, <2>5, <2>6, <2>7
<1>7. ASSUME NEW r \in Request, NotGenerated(r) \/ KernelMissing(r) \/ PromptPanics(r) \/ Return(r)
      PROVE  FlagLowered' /\ CancelBeforeFirstToken'
  <2>1. CASE NotGenerated(r)
    BY <2>1 DEF NotGenerated, Goto
  <2>2. CASE KernelMissing(r) \/ PromptPanics(r)
    BY <2>2 DEF KernelMissing, PromptPanics, Goto
  <2>3. CASE Return(r)
    BY <2>3 DEF Return, Goto
  <2>4. QED
    BY <1>7, <2>1, <2>2, <2>3
<1>8. ASSUME NEW r \in Request, RaiseCancel(r)
      PROVE  FlagLowered' /\ CancelBeforeFirstToken'
  <2>1. \A s \in Request \ {r} : pc[s] \notin Generating
    BY <1>8 DEF RaiseCancel, EndGeneration, Goto, EngineExclusive, Locked, Generating
  <2>2. QED
    BY <1>8, <2>1 DEF RaiseCancel, EndGeneration, Goto, Generating
<1>9. QED
  BY <1>1, <1>2, <1>3, <1>4, <1>5, <1>6, <1>7, <1>8, NextCases DEF OwnStep

LEMMA NextIInv == IInv /\ [Next]_vars => IInv'
BY NextTypeOK, NextEngineExclusive, NextPathResolved, NextEngineStarted,
   NextOneEngineResident, NextGeneratesOnResolvedModel, NextFlagLowered DEF IInv

LEMMA IInvHolds == SafeSpec => []IInv
BY InitIInv, NextIInv, PTL DEF SafeSpec

\* Whatever the number of models and the order of requests and switches, one
\* engine at most is resident, and it is the cached one.
THEOREM Residency == SafeSpec => []OneEngineResident
<1>1. IInv => OneEngineResident
  BY DEF IInv
<1>2. QED
  BY <1>1, IInvHolds, PTL

\* A generation runs on a live engine of the model its own task resolved.
THEOREM EngineIdentity == SafeSpec => []GeneratesOnResolvedModel
<1>1. IInv => GeneratesOnResolvedModel
  BY DEF IInv
<1>2. QED
  BY <1>1, IInvHolds, PTL

\* The shared flag stops a generation at its first token or not at all.
THEOREM NoMidAnswerCancel == SafeSpec => []CancelBeforeFirstToken
<1>1. IInv => CancelBeforeFirstToken
  BY DEF IInv
<1>2. QED
  BY <1>1, IInvHolds, PTL

\* No step frees an engine while a generation runs.
THEOREM NoUseAfterFree == SafeSpec => NeverFreedInUse
<1>1. IInv /\ [Next]_vars =>
        [~(live \subseteq live') => \A r \in Request : pc[r] \notin Generating]_vars
  <2> SUFFICES ASSUME IInv, Next, ~(live \subseteq live'),
                      NEW r \in Request, pc[r] \in Generating
               PROVE  FALSE
    BY DEF vars
  <2> USE DEF IInv
  <2>1. PICK s \in Request : Evict(s)
    <3>1. CASE SwitchModel \/ UNCHANGED vars
      BY <3>1 DEF SwitchModel, vars, taskVars
    <3>2. ASSUME NEW t \in Request, OwnStep(t) \/ QuietStep(t)
          PROVE  FALSE
      BY <3>2, OwnStepShape, QuietStepShape
    <3>3. ASSUME NEW t \in Request,
                 \/ Dispatch(t) \/ AcquireSlot(t) \/ Resolve(t) \/ LockEngine(t)
                 \/ StartGeneration(t) \/ Instantiate(t) \/ NotGenerated(t)
                 \/ KernelMissing(t) \/ PromptPanics(t) \/ RaiseCancel(t) \/ Return(t)
          PROVE  FALSE
      BY <3>3 DEF Dispatch, AcquireSlot, Resolve, LockEngine, StartGeneration,
         Instantiate, NotGenerated, KernelMissing, PromptPanics, RaiseCancel, Return
    <3>4. QED
      BY <3>1, <3>2, <3>3, NextCases
  <2>2. pc[s] = "loading"
    BY <2>1 DEF Evict
  <2>3. owner = s /\ owner = r
    BY <2>2 DEF EngineExclusive, Locked
  <2>4. QED
    BY <2>2, <2>3 DEF Generating
<1>2. QED
  BY <1>1, IInvHolds, PTL DEF SafeSpec, NeverFreedInUse

-----------------------------------------------------------------------------
(* The semaphore. *)

AdmittedRequests == {r \in Request : pc[r] \in Admitted}

LEMMA AdmittedFinite == IsFiniteSet(AdmittedRequests)
BY DispatcherAssumption, FS_Subset DEF AdmittedRequests

\* The count of free permits follows the set of admitted tasks.
LEMMA NextPermitsConserved ==
  TypeOK /\ PermitsConserved /\ [Next]_vars => PermitsConserved'
<1> SUFFICES ASSUME TypeOK, PermitsConserved, [Next]_vars
             PROVE  PermitsConserved'
  OBVIOUS
<1> DEFINE A == AdmittedRequests
<1>a. Cardinality(A) \in Nat
  BY AdmittedFinite, FS_CardinalityType
<1>b. permits + Cardinality(A) = Slots
  BY DEF PermitsConserved, AdmittedRequests
<1>c. SUFFICES permits' + Cardinality(A') = Slots
  BY DEF PermitsConserved, AdmittedRequests
<1>d. permits \in Nat /\ Slots \in Nat
  BY DispatcherAssumption DEF TypeOK
<1>1. CASE permits' = permits /\ A' = A
  BY <1>1, <1>b
<1>2. ASSUME NEW r \in Request, AcquireSlot(r)
      PROVE  permits' + Cardinality(A') = Slots
  <2>1. r \notin A /\ A' = A \cup {r}
    BY <1>2 DEF AcquireSlot, Goto, AdmittedRequests, Admitted, Locked, Generating, TypeOK
  <2>2. Cardinality(A') = Cardinality(A) + 1
    BY <2>1, AdmittedFinite, FS_AddElement
  <2>3. permits' = permits - 1
    BY <1>2 DEF AcquireSlot
  <2>4. QED
    BY <2>2, <2>3, <1>a, <1>b, <1>d
<1>3. ASSUME NEW r \in Request, KernelMissing(r) \/ PromptPanics(r) \/ Return(r)
      PROVE  permits' + Cardinality(A') = Slots
  <2>1. r \in A /\ A' = A \ {r}
    <3>1. pc[r] \in Admitted /\ pc' = [pc EXCEPT ![r] = "closed"]
      BY <1>3 DEF KernelMissing, PromptPanics, Return, Goto, Admitted, Locked
    <3>2. QED
      BY <3>1 DEF AdmittedRequests, Admitted, Locked, Generating, TypeOK
  <2>2. Cardinality(A') = Cardinality(A) - 1
    BY <2>1, AdmittedFinite, FS_RemoveElement
  <2>3. permits' = permits + 1
    BY <1>3 DEF KernelMissing, PromptPanics, Return
  <2>4. QED
    BY <2>2, <2>3, <1>a, <1>b, <1>d
<1>4. ASSUME NEW r \in Request,
             \/ Dispatch(r) \/ Resolve(r) \/ LockEngine(r) \/ StartGeneration(r)
             \/ Evict(r) \/ Instantiate(r) \/ NotGenerated(r) \/ RaiseCancel(r)
      PROVE  permits' = permits /\ A' = A
  BY <1>4 DEF Dispatch, Resolve, LockEngine, StartGeneration, Evict, Instantiate,
     NotGenerated, RaiseCancel, EndGeneration, Goto, AdmittedRequests,
     Admitted, Locked, Generating, TypeOK
<1>5. ASSUME NEW r \in Request, OwnStep(r) \/ QuietStep(r)
      PROVE  permits' = permits /\ A' = A
  BY <1>5, OwnStepShape, QuietStepShape DEF AdmittedRequests, Admitted, Locked
<1>6. CASE SwitchModel \/ UNCHANGED vars
  BY <1>1, <1>6 DEF SwitchModel, vars, taskVars, AdmittedRequests
<1>7. QED
  BY <1>1, <1>2, <1>3, <1>4, <1>5, <1>6, NextCases

\* No permit is lost or invented on any way out of a task.
THEOREM PermitConservation == SafeSpec => []PermitsConserved
<1>1. Init => PermitsConserved
  <2> SUFFICES ASSUME Init PROVE PermitsConserved
    OBVIOUS
  <2>1. {r \in Request : pc[r] \in Admitted} = {}
    BY DEF Init, Admitted, Locked, Generating
  <2>2. Cardinality({}) = 0
    BY FS_EmptySet
  <2>3. permits = Slots /\ Slots \in Nat
    BY DispatcherAssumption DEF Init
  <2>4. QED
    BY <2>1, <2>2, <2>3 DEF PermitsConserved
<1>2. QED
  BY <1>1, InitTypeOK, NextTypeOK, NextPermitsConserved, PTL DEF SafeSpec

-----------------------------------------------------------------------------
(* The dispatcher implements the inference queue. *)

\* A task that starts a generation finds no other one running.
LEMMA ServesAlone ==
  ASSUME IInv, NEW r \in Request, pc[r] = "loading"
  PROVE  {s \in Request : pc[s] \in Generating} = {}
BY DEF IInv, EngineExclusive, Locked, Generating

\* Every step of the dispatcher is a step of the queue or changes nothing in it.
LEMMA NextQueue ==
  IInv /\ [Next]_vars => [Queue!Next]_(Queue!vars)
<1> SUFFICES ASSUME IInv, [Next]_vars
             PROVE  Queue!Next \/ UNCHANGED Queue!vars
  OBVIOUS
<1> USE DEF IInv, TypeOK, Queue!Next, Queue!vars
<1>1. CASE SwitchModel \/ UNCHANGED vars
  BY <1>1 DEF SwitchModel, vars, taskVars
<1>2. ASSUME NEW r \in Request, QuietStep(r)
      PROVE  UNCHANGED Queue!vars
  BY <1>2, QuietStepShape
<1>3. ASSUME NEW r \in Request, OwnStep(r), pc'[r] # "closing"
      PROVE  UNCHANGED Queue!vars
  BY <1>3, OwnStepShape DEF Generating
<1>4. ASSUME NEW r \in Request, OwnStep(r), pc'[r] = "closing"
      PROVE  Queue!Complete(r)
  BY <1>4, OwnStepShape DEF Queue!Complete, Generating
<1>5. ASSUME NEW r \in Request, Dispatch(r)
      PROVE  Queue!Submit(r)
  BY <1>5 DEF Dispatch, Goto, Queue!Submit, Generating
<1>6. ASSUME NEW r \in Request,
             \/ AcquireSlot(r) \/ LockEngine(r) \/ Evict(r) \/ Instantiate(r)
             \/ RaiseCancel(r) \/ Return(r)
      PROVE  UNCHANGED Queue!vars
  BY <1>6 DEF AcquireSlot, LockEngine, Evict, Instantiate, RaiseCancel, Return,
     EndGeneration, Goto, Generating
<1>7. ASSUME NEW r \in Request, Resolve(r)
      PROVE  Queue!Withdraw(r) \/ UNCHANGED Queue!vars
  <2>1. CASE activeModel = None
    BY <1>7, <2>1 DEF Resolve, Goto, Queue!Withdraw, Generating
  <2>2. CASE activeModel # None
    BY <1>7, <2>2 DEF Resolve, Goto, Generating
  <2>3. QED
    BY <2>1, <2>2
<1>8. ASSUME NEW r \in Request, NotGenerated(r) \/ KernelMissing(r) \/ PromptPanics(r)
      PROVE  Queue!Withdraw(r)
  BY <1>8 DEF NotGenerated, KernelMissing, PromptPanics, Goto, Queue!Withdraw, Generating
<1>9. ASSUME NEW r \in Request, StartGeneration(r)
      PROVE  Queue!Serve(r)
  <2>1. {s \in Request : pc[s] \in Generating} = {}
    BY <1>9, ServesAlone DEF StartGeneration, Goto
  <2>2. QED
    BY <1>9, <2>1 DEF StartGeneration, Goto, Queue!Serve, Generating
<1>10. QED
  BY <1>1, <1>2, <1>3, <1>4, <1>5, <1>6, <1>7, <1>8, <1>9, NextCases

\* Requests are served one at a time, in every behaviour of the dispatcher.
THEOREM ImplementsQueue == SafeSpec => QueueSafety
<1>1. Init => Queue!Init
  BY DEF Init, Queue!Init, Generating
<1>2. QED
  BY <1>1, IInvHolds, NextQueue, PTL DEF SafeSpec, QueueSafety, Queue!SafeSpec
-----------------------------------------------------------------------------
(* The streams. *)

\* A message of S is in the stream q.
Holds(q, S) == \E i \in 1..Len(q) : q[i] \in S

Triggers == {"trigger", "fragment"}

\* What StreamsEndWithDone and NoTextAfterTrigger say of one stream.
DoneIsLast(q) == \A i \in 1..Len(q) : q[i] = "done" => i = Len(q)
TextComesFirst(q) ==
  \A i, j \in 1..Len(q) : i < j /\ q[i] \in Triggers => q[j] # "text"
EndsWithDone(q) == q # <<>> /\ q[Len(q)] = "done"

\* What a task may still have to send.
Endings ==
  {<<>>, <<"done">>, <<"error", "done">>, <<"fragment", "done">>, <<"trigger", "done">>}

\* The task of r has not come to its callbacks.
Early == {"idle", "queued", "resolving", "contending", "loading"}

\* A stream is empty before the generation, free of triggers until the
\* callback hands one over, and complete once the endings are sent.
StreamShape ==
  \A r \in Request :
    /\ outbox[r] \in Endings
    /\ pc[r] \notin {"rejecting", "closing"} => outbox[r] = <<>>
    /\ pc[r] \in Early => sent[r] = <<>> /\ buf[r] = "plain"
    /\ pc[r] = "rejecting" => buf[r] = "plain"
    /\ pc[r] \in {"generating", "sending", "trigger", "panicked"} => ~Holds(sent[r], Triggers)
    /\ pc[r] \in Generating \/ outbox[r] # <<>> => ~Holds(sent[r], {"done"})
    /\ DoneIsLast(sent[r])
    /\ TextComesFirst(sent[r])

\* Who comes to the end of a task with a receiver has sent its [DONE]; a task
\* that crashed has sent nothing.
StreamDone ==
  \A r \in Request :
    /\ outcome[r] = "crashed" => pc[r] = "closed" /\ sent[r] = <<>>
    /\ pc[r] \in {"rejecting", "closing", "closed"} /\ outbox[r] = <<>> /\ rx[r]
         /\ outcome[r] # "crashed" => EndsWithDone(sent[r])

\* A trigger in the buffer has been sent, or the flag is down and the final
\* check will send it, or it is about to be sent.
TriggerKept ==
  \A r \in Request :
    /\ buf[r] # "plain" /\ pc[r] \in Generating => tokens[r] > 0
    /\ rx[r] /\ buf[r] # "plain" =>
         /\ pc[r] = "flagging" => Holds(sent[r], Triggers)
         /\ pc[r] \in {"panicked", "generated"} => cancel = None \/ Holds(sent[r], Triggers)
         /\ pc[r] \in {"rejecting", "closing", "closed"} =>
              Holds(sent[r], Triggers) \/ Holds(outbox[r], Triggers)

\* What appending one message does to a stream.
LEMMA AppendHolds ==
  ASSUME NEW q \in Seq(Message), NEW m \in Message, NEW S
  PROVE  Holds(Append(q, m), S) <=> Holds(q, S) \/ m \in S
<1> DEFINE a == Append(q, m)
<1>1. Len(a) = Len(q) + 1 /\ Len(q) \in Nat
  OBVIOUS
<1>2. (\A i \in 1..Len(q) : a[i] = q[i]) /\ a[Len(q) + 1] = m
  OBVIOUS
<1>3. ASSUME Holds(a, S) PROVE Holds(q, S) \/ m \in S
  BY <1>1, <1>2, <1>3 DEF Holds
<1>4. ASSUME Holds(q, S) PROVE Holds(a, S)
  BY <1>1, <1>2, <1>4 DEF Holds
<1>5. ASSUME m \in S PROVE Holds(a, S)
  <2>1. Len(q) + 1 \in 1..Len(a)
    BY <1>1
  <2>2. QED
    BY <1>2, <1>5, <2>1 DEF Holds
<1>6. QED
  BY <1>3, <1>4, <1>5

LEMMA AppendDone ==
  ASSUME NEW q \in Seq(Message), NEW m \in Message,
         DoneIsLast(q), ~Holds(q, {"done"})
  PROVE  DoneIsLast(Append(q, m))
<1> DEFINE a == Append(q, m)
<1>1. Len(a) = Len(q) + 1 /\ Len(q) \in Nat
  OBVIOUS
<1>2. \A i \in 1..Len(q) : a[i] = q[i]
  OBVIOUS
<1>3. QED
  BY <1>1, <1>2 DEF Holds, DoneIsLast

LEMMA AppendText ==
  ASSUME NEW q \in Seq(Message), NEW m \in Message,
         TextComesFirst(q), m # "text" \/ ~Holds(q, Triggers)
  PROVE  TextComesFirst(Append(q, m))
<1> DEFINE a == Append(q, m)
<1>1. Len(a) = Len(q) + 1 /\ Len(q) \in Nat
  OBVIOUS
<1>2. (\A i \in 1..Len(q) : a[i] = q[i]) /\ a[Len(q) + 1] = m
  OBVIOUS
<1> HIDE DEF a
<1>3. SUFFICES ASSUME NEW i \in 1..Len(a), NEW j \in 1..Len(a),
                      i < j, a[i] \in Triggers
               PROVE  a[j] # "text"
  BY DEF TextComesFirst, a
<1>4. i \in 1..Len(q) /\ q[i] \in Triggers
  BY <1>1, <1>2, <1>3
<1>5. CASE j \in 1..Len(q)
  BY <1>2, <1>3, <1>4, <1>5 DEF TextComesFirst
<1>6. CASE j = Len(q) + 1
  BY <1>2, <1>4, <1>6 DEF Holds
<1>7. QED
  BY <1>1, <1>5, <1>6

LEMMA AppendEnds ==
  ASSUME NEW q \in Seq(Message)
  PROVE  EndsWithDone(Append(q, "done"))
BY DEF EndsWithDone, Message

\* An ending shrinks to an ending, and its last message is [DONE].
LEMMA EndingStep ==
  ASSUME NEW o \in Endings, o # <<>>
  PROVE  /\ Head(o) \in Message \ {"text"}
         /\ Tail(o) \in Endings
         /\ Tail(o) = <<>> <=> Head(o) = "done"
         /\ Holds(o, Triggers) => Head(o) \in Triggers
<1>1. CASE o = <<"done">>
  BY <1>1 DEF Endings, Message, Holds, Triggers
<1>2. ASSUME NEW m \in {"error", "fragment", "trigger"}, o = <<m, "done">>
      PROVE  /\ Head(o) = m /\ Tail(o) = <<"done">>
             /\ Holds(o, Triggers) => m \in Triggers
  <2>1. Len(o) = 2 /\ o[1] = m /\ o[2] = "done"
    BY <1>2
  <2>2. Head(o) = m /\ Tail(o) = <<"done">>
    BY <1>2
  <2>3. Holds(o, Triggers) => m \in Triggers
    BY <2>1 DEF Holds, Triggers
  <2>4. QED
    BY <2>2, <2>3
<1>3. o = <<"done">> \/ \E m \in {"error", "fragment", "trigger"} : o = <<m, "done">>
  BY DEF Endings
<1>4. <<"done">> \in Endings /\ <<"done">> # <<>>
  BY DEF Endings
<1>5. QED
  BY <1>1, <1>2, <1>3, <1>4 DEF Message

\* What the final check adds is an ending; it has the trigger the buffer holds.
LEMMA FinalEnding ==
  ASSUME TypeOK, NEW r \in Request
  PROVE  /\ Append(LeftOver(r), "done") \in Endings \ {<<>>}
         /\ cancel = None /\ buf[r] # "plain" => Holds(Append(LeftOver(r), "done"), Triggers)
<1>1. /\ Append(<<>>, "done") = <<"done">>
      /\ \A m \in Triggers : Append(<<m>>, "done") = <<m, "done">>
  <2>1. Append(<<>>, "done") = <<"done">>
    OBVIOUS
  <2>2. ASSUME NEW m \in Triggers
        PROVE  Append(<<m>>, "done") = <<m, "done">>
    <3> DEFINE a == Append(<<m>>, "done")
               b == <<m, "done">>
    <3>1. a \in Seq({m, "done"}) /\ b \in Seq({m, "done"})
      OBVIOUS
    <3>2. Len(a) = 2 /\ Len(b) = 2 /\ a[1] = b[1] /\ a[2] = b[2]
      OBVIOUS
    <3> HIDE DEF a, b
    <3>3. a = b
      BY <3>1, <3>2, SeqEqual
    <3>4. QED
      BY <3>3 DEF a, b
  <2>3. QED
    BY <2>1, <2>2
<1>2. Append(LeftOver(r), "done") \in Endings \ {<<>>}
  <2>1. CASE LeftOver(r) = <<>>
    BY <1>1, <2>1 DEF Endings
  <2>2. ASSUME NEW m \in Triggers, LeftOver(r) = <<m>>
        PROVE  Append(LeftOver(r), "done") \in Endings \ {<<>>}
    <3>1. <<m, "done">> # <<>>
      OBVIOUS
    <3>2. QED
      BY <1>1, <2>2, <3>1 DEF Endings, Triggers
  <2>3. QED
    BY <2>1, <2>2, LeftOverValues DEF Triggers
<1>3. ASSUME cancel = None, buf[r] # "plain"
      PROVE  Holds(Append(LeftOver(r), "done"), Triggers)
  <2>1. PICK m \in Triggers : LeftOver(r) = <<m>>
    BY <1>3 DEF LeftOver, Triggers
  <2>2. Append(LeftOver(r), "done")[1] \in Triggers /\ Len(Append(LeftOver(r), "done")) = 2
    BY <1>1, <2>1
  <2>3. QED
    BY <2>2 DEF Holds
<1>4. QED
  BY <1>2, <1>3

LEMMA EmptyStream ==
  /\ \A S : ~Holds(<<>>, S)
  /\ DoneIsLast(<<>>)
  /\ TextComesFirst(<<>>)
BY DEF Holds, DoneIsLast, TextComesFirst

\* The streams a send touches: its own, if the receiver is there.
LEMMA SendShape ==
  ASSUME TypeOK, NEW r \in Request, NEW m \in Message, Send(r, m)
  PROVE  /\ \A s \in Request \ {r} : sent'[s] = sent[s]
         /\ IF rx[r] THEN sent'[r] = Append(sent[r], m) ELSE sent'[r] = sent[r]
BY DEF TypeOK, Send

\* The steps that touch no stream, no ending and no buffer.
PlaceStep(r) ==
  \/ Dispatch(r) \/ AcquireSlot(r) \/ LockEngine(r) \/ StartGeneration(r) \/ Evict(r)
  \/ Instantiate(r) \/ KernelMissing(r) \/ PromptPanics(r) \/ CallbackCancelled(r) \/ RaiseCancel(r)
  \/ KernelEnds(r) \/ KernelPanics(r) \/ Return(r) \/ Receive(r) \/ HangUp(r)

SendStep(r) == SendToken(r) \/ SendTrigger(r) \/ ReportPanic(r)

\* Next, by what its steps do to the streams.
LEMMA NextStreams ==
  ASSUME [Next]_vars
  PROVE  \/ SwitchModel \/ UNCHANGED vars
         \/ \E r \in Request :
              \/ PlaceStep(r) \/ SendStep(r) \/ Resolve(r) \/ NotGenerated(r)
              \/ Callback(r) \/ FinalCheck(r) \/ SendLast(r)
BY DEF Next, TaskStep, PlaceStep, SendStep

\* What the proofs about the streams need of the types.
StreamTyped ==
  /\ pc \in [Request -> Pc]
  /\ buf \in [Request -> Buffer]
  /\ tokens \in [Request -> 0..MaxTokens]
  /\ outcome \in [Request -> Outcome]
  /\ outbox \in [Request -> Seq(Message)]
  /\ sent \in [Request -> Seq(Message)]
  /\ rx \in [Request -> BOOLEAN]

LEMMA StreamTypes == TypeOK => StreamTyped
BY DEF TypeOK, StreamTyped

\* Text goes out before the trigger only, [DONE] at the end only.
LEMMA NextStreamShape ==
  TypeOK /\ StreamShape /\ [Next]_vars => StreamShape'
<1> SUFFICES ASSUME TypeOK, StreamShape, [Next]_vars
             PROVE  StreamShape'
  OBVIOUS
<1> StreamTyped
  BY StreamTypes
<1> USE DEF StreamShape, StreamTyped
<1>1. CASE SwitchModel \/ UNCHANGED vars
  BY <1>1 DEF SwitchModel, vars, taskVars
<1>2. ASSUME NEW r \in Request, PlaceStep(r)
      PROVE  StreamShape'
  <2>1. UNCHANGED <<outbox, sent, buf>>
    BY <1>2 DEF PlaceStep, Dispatch, AcquireSlot, LockEngine, StartGeneration, Evict, Instantiate,
       KernelMissing, PromptPanics, CallbackCancelled, RaiseCancel, KernelEnds,
       KernelPanics, Return,
       Receive, HangUp, taskVars
  <2>2. CASE UNCHANGED pc
    BY <2>1, <2>2
  <2>3. CASE PlaceStep(r) /\ ~UNCHANGED pc
    <3>1. /\ pc[r] \in Early => pc'[r] \in Early \cup {"generating", "closed"}
          /\ pc'[r] \in Early => pc[r] \in Early
          /\ pc[r] \in {"rejecting", "closing"} => pc'[r] = "closed" /\ outbox[r] = <<>>
          /\ pc'[r] \notin {"rejecting", "closing"}
          /\ pc'[r] \in Generating => pc[r] \in Generating \cup Early
          /\ pc'[r] \in {"generating", "sending", "trigger", "panicked"} =>
               pc[r] \in {"generating", "sending", "trigger", "panicked"} \cup Early
          /\ \A s \in Request \ {r} : pc'[s] = pc[s]
      BY <2>3 DEF PlaceStep, Dispatch, AcquireSlot, LockEngine, StartGeneration, Evict, Instantiate,
         KernelMissing, PromptPanics, CallbackCancelled, RaiseCancel, KernelEnds,
         KernelPanics, Return,
         EndGeneration, Goto, Early, Generating, Receive, HangUp, taskVars
    <3>2. QED
      BY <2>1, <3>1, EmptyStream
  <2>4. QED
    BY <1>2, <2>2, <2>3
<1>3. ASSUME NEW r \in Request, SendStep(r)
      PROVE  StreamShape'
  <2>1. PICK m \in Message :
          /\ Send(r, m)
          /\ m # "done"
          /\ \/ pc[r] = "sending" /\ m = "text"
             \/ pc[r] \in {"trigger", "panicked"} /\ m # "text"
          /\ m \in Triggers => pc'[r] = "flagging"
    <3>1. CASE SendToken(r)
      <4>1. Send(r, "text") /\ pc[r] = "sending"
        BY <3>1 DEF SendToken, EndGeneration, Goto
      <4>2. "text" \in Message /\ "text" # "done" /\ "text" \notin Triggers
        BY DEF Message, Triggers
      <4>3. QED
        BY <4>1, <4>2
    <3>2. CASE SendTrigger(r)
      <4>1. Send(r, "trigger") /\ pc[r] = "trigger" /\ pc'[r] = "flagging"
        BY <3>2 DEF SendTrigger, Goto
      <4>2. "trigger" \in Message /\ "trigger" # "done" /\ "trigger" # "text"
        BY DEF Message
      <4>3. QED
        BY <4>1, <4>2
    <3>3. CASE ReportPanic(r)
      <4>1. Send(r, "error") /\ pc[r] = "panicked"
        BY <3>3 DEF ReportPanic, Goto
      <4>2. "error" \in Message /\ "error" \notin Triggers \cup {"done", "text"}
        BY DEF Message, Triggers
      <4>3. QED
        BY <4>1, <4>2
    <3>4. QED
      BY <1>3, <3>1, <3>2, <3>3 DEF SendStep
  <2>2. /\ UNCHANGED <<outbox, buf>>
        /\ pc[r] \in {"sending", "trigger", "panicked"}
        /\ pc'[r] \in {"generating", "flagging", "generated"}
        /\ \A s \in Request \ {r} : pc'[s] = pc[s]
    BY <1>3 DEF SendStep, SendToken, SendTrigger, ReportPanic, EndGeneration, Goto
  <2>3. \A s \in Request \ {r} : sent'[s] = sent[s]
    BY <2>1, SendShape
  <2>4. sent'[r] = sent[r] \/ sent'[r] = Append(sent[r], m)
    BY <2>1, SendShape
  <2>5. ~Holds(sent[r], Triggers) /\ ~Holds(sent[r], {"done"})
    BY <2>2 DEF Generating
  <2>6. /\ pc'[r] # "flagging" => ~Holds(sent'[r], Triggers)
        /\ ~Holds(sent'[r], {"done"})
        /\ DoneIsLast(sent'[r])
        /\ TextComesFirst(sent'[r])
    <3>1. sent[r] \in Seq(Message) /\ DoneIsLast(sent[r]) /\ TextComesFirst(sent[r])
      OBVIOUS
    <3>2. /\ Holds(Append(sent[r], m), Triggers) => m \in Triggers
          /\ ~Holds(Append(sent[r], m), {"done"})
      BY <2>1, <2>5, <3>1, AppendHolds
    <3>3. DoneIsLast(Append(sent[r], m)) /\ TextComesFirst(Append(sent[r], m))
      BY <2>5, <3>1, AppendDone, AppendText
    <3>4. QED
      BY <2>1, <2>4, <2>5, <3>1, <3>2, <3>3
  <2>7. QED
    BY <2>2, <2>3, <2>6 DEF Generating, Early
<1>4. ASSUME NEW r \in Request, Resolve(r) \/ NotGenerated(r) \/ FinalCheck(r)
      PROVE  StreamShape'
  <2>1. <<"error", "done">> \in Endings
    BY DEF Endings
  <2>2. outbox'[r] \in Endings /\ \A s \in Request \ {r} : outbox'[s] = outbox[s]
    BY <1>4, <2>1, FinalEnding DEF Resolve, NotGenerated, FinalCheck
  <2>3. /\ UNCHANGED <<sent, buf>>
        /\ pc[r] \in Early \cup {"generated"}
        /\ pc'[r] \in {"contending", "rejecting", "closing"}
        /\ pc'[r] = "contending" => outbox'[r] = outbox[r]
        /\ pc'[r] \in {"contending", "rejecting"} => pc[r] = "resolving"
        /\ \A s \in Request \ {r} : pc'[s] = pc[s]
    BY <1>4 DEF Resolve, NotGenerated, FinalCheck, Goto, Early
  <2>4. ~Holds(sent[r], {"done"})
    BY <2>3, EmptyStream DEF Generating
  <2>5. QED
    BY <2>2, <2>3, <2>4 DEF Generating, Early
<1>5. ASSUME NEW r \in Request, Callback(r)
      PROVE  StreamShape'
  <2>1. /\ UNCHANGED <<sent, outbox>>
        /\ pc[r] = "generating"
        /\ pc'[r] \in {"generating", "sending", "trigger"}
        /\ \A s \in Request \ {r} : pc'[s] = pc[s] /\ buf'[s] = buf[s]
    BY <1>5 DEF Callback, Intercept, Goto
  <2>2. QED
    BY <2>1 DEF Generating, Early
<1>6. ASSUME NEW r \in Request, SendLast(r)
      PROVE  StreamShape'
  <2>1. /\ UNCHANGED <<pc, buf>>
        /\ pc[r] \in {"rejecting", "closing"}
        /\ outbox[r] # <<>>
        /\ Send(r, Head(outbox[r]))
        /\ outbox'[r] = Tail(outbox[r])
        /\ \A s \in Request \ {r} : outbox'[s] = outbox[s]
    BY <1>6 DEF SendLast
  <2>2. /\ Head(outbox[r]) \in Message \ {"text"}
        /\ Tail(outbox[r]) \in Endings
        /\ Tail(outbox[r]) = <<>> <=> Head(outbox[r]) = "done"
    BY <2>1, EndingStep
  <2>3. \A s \in Request \ {r} : sent'[s] = sent[s]
    BY <2>1, <2>2, SendShape
  <2>4. sent'[r] = sent[r] \/ sent'[r] = Append(sent[r], Head(outbox[r]))
    BY <2>1, <2>2, SendShape
  <2>5. /\ outbox'[r] # <<>> => ~Holds(sent'[r], {"done"})
        /\ DoneIsLast(sent'[r])
        /\ TextComesFirst(sent'[r])
    <3> DEFINE m == Head(outbox[r])
    <3>1. /\ sent[r] \in Seq(Message) /\ DoneIsLast(sent[r]) /\ TextComesFirst(sent[r])
          /\ ~Holds(sent[r], {"done"})
      BY <2>1
    <3>2. Tail(outbox[r]) # <<>> => ~Holds(Append(sent[r], m), {"done"})
      BY <2>2, <3>1, AppendHolds
    <3>3. DoneIsLast(Append(sent[r], m)) /\ TextComesFirst(Append(sent[r], m))
      BY <2>2, <3>1, AppendDone, AppendText
    <3>4. QED
      BY <2>1, <2>4, <3>1, <3>2, <3>3
  <2>6. QED
    BY <2>1, <2>2, <2>3, <2>5 DEF Generating, Early
<1>7. QED
  BY <1>1, <1>2, <1>3, <1>4, <1>5, <1>6, NextStreams

\* Nobody returns before [DONE] is out, but for the panics before a generation.
LEMMA NextStreamDone ==
  TypeOK /\ StreamShape /\ StreamDone /\ [Next]_vars => StreamDone'
<1> SUFFICES ASSUME TypeOK, StreamShape, StreamDone, [Next]_vars
             PROVE  StreamDone'
  OBVIOUS
<1> StreamTyped
  BY StreamTypes
<1> USE DEF StreamDone, StreamTyped
<1>1. CASE SwitchModel \/ UNCHANGED vars
  BY <1>1 DEF SwitchModel, vars, taskVars, clientVars
<1>2. ASSUME NEW r \in Request, Receive(r) \/ HangUp(r)
      PROVE  StreamDone'
  <2>1. UNCHANGED <<pc, outcome, outbox, sent>> /\ \A s \in Request : rx'[s] => rx[s]
    BY <1>2 DEF Receive, HangUp, taskVars
  <2>2. QED
    BY <2>1
<1>3. ASSUME NEW r \in Request, PlaceStep(r), ~Receive(r), ~HangUp(r)
      PROVE  StreamDone'
  <2>1. UNCHANGED <<outbox, sent, rx>>
    BY <1>3 DEF PlaceStep, Dispatch, AcquireSlot, LockEngine, StartGeneration, Evict, Instantiate,
       KernelMissing, PromptPanics, CallbackCancelled, RaiseCancel, KernelEnds,
       KernelPanics, Return,
       clientVars
  <2>2. /\ pc'[r] \in {"rejecting", "closing"} => FALSE
        /\ pc'[r] = "closed" =>
             \/ outcome'[r] = "crashed"
             \/ pc[r] \in {"rejecting", "closing"} /\ outcome' = outcome
        /\ pc[r] # "closed"
        /\ outcome'[r] = "crashed" => pc'[r] = "closed" /\ sent[r] = <<>>
    <3>1. CASE Return(r)
      BY <3>1 DEF Return, Goto
    <3>2. CASE KernelMissing(r) \/ PromptPanics(r)
      <4>1. pc[r] = "loading" /\ pc'[r] = "closed"
        BY <3>2 DEF KernelMissing, PromptPanics, Goto
      <4>2. sent[r] = <<>>
        BY <4>1 DEF StreamShape, Early
      <4>3. outcome'[r] = "crashed"
        BY <3>2 DEF KernelMissing, PromptPanics
      <4>4. QED
        BY <4>1, <4>2, <4>3
    <3>3. CASE CallbackCancelled(r) \/ RaiseCancel(r) \/ KernelEnds(r) \/ KernelPanics(r)
      BY <3>3 DEF CallbackCancelled, RaiseCancel, KernelEnds, KernelPanics, EndGeneration, Goto
    <3>4. CASE Evict(r)
      BY <3>4 DEF Evict
    <3>5. CASE \/ Dispatch(r) \/ AcquireSlot(r) \/ LockEngine(r)
               \/ StartGeneration(r) \/ Instantiate(r)
      BY <3>5 DEF Dispatch, AcquireSlot, LockEngine, StartGeneration, Instantiate, Goto
    <3>6. QED
      BY <1>3, <3>1, <3>2, <3>3, <3>4, <3>5 DEF PlaceStep
  <2>3. \A s \in Request \ {r} : pc'[s] = pc[s] /\ outcome'[s] = outcome[s]
    BY <1>3 DEF PlaceStep, Dispatch, AcquireSlot, LockEngine, StartGeneration, Evict, Instantiate,
       KernelMissing, PromptPanics, CallbackCancelled, RaiseCancel, KernelEnds,
       KernelPanics, Return,
       EndGeneration, Goto
  <2>4. QED
    BY <2>1, <2>2, <2>3
<1>4. ASSUME NEW r \in Request, SendStep(r) \/ Callback(r)
      PROVE  StreamDone'
  <2>1. UNCHANGED <<outbox, rx>>
    BY <1>4 DEF SendStep, SendToken, SendTrigger, ReportPanic, Callback, clientVars
  <2>2. /\ pc[r] \in Generating /\ pc'[r] \in Generating
        /\ outcome'[r] # "crashed"
        /\ \A s \in Request \ {r} : pc'[s] = pc[s] /\ outcome'[s] = outcome[s]
    BY <1>4 DEF SendStep, SendToken, SendTrigger, ReportPanic, Callback, Intercept,
       EndGeneration, Goto, Generating
  <2>3. \A s \in Request \ {r} : sent'[s] = sent[s]
    BY <1>4, SendShape DEF SendStep, SendToken, SendTrigger, ReportPanic, Callback, Message
  <2>4. QED
    BY <2>1, <2>2, <2>3 DEF Generating
<1>5. ASSUME NEW r \in Request, Resolve(r) \/ NotGenerated(r) \/ FinalCheck(r)
      PROVE  StreamDone'
  <2>1. /\ UNCHANGED <<sent, rx>>
        /\ pc'[r] \in {"contending", "rejecting", "closing"}
        /\ pc'[r] # "contending" => outbox'[r] # <<>>
        /\ outcome'[r] # "crashed"
        /\ \A s \in Request \ {r} :
             pc'[s] = pc[s] /\ outcome'[s] = outcome[s] /\ outbox'[s] = outbox[s]
    <3>1. <<"error", "done">> # <<>>
      OBVIOUS
    <3>2. QED
      BY <1>5, <3>1, FinalEnding
         DEF Resolve, NotGenerated, FinalCheck, Goto, clientVars
  <2>2. QED
    BY <2>1
<1>6. ASSUME NEW r \in Request, SendLast(r)
      PROVE  StreamDone'
  <2>1. /\ UNCHANGED <<pc, outcome, rx>>
        /\ pc[r] \in {"rejecting", "closing"}
        /\ outbox[r] # <<>> /\ outbox[r] \in Endings
        /\ Send(r, Head(outbox[r]))
        /\ outbox'[r] = Tail(outbox[r])
        /\ \A s \in Request \ {r} : outbox'[s] = outbox[s]
    BY <1>6 DEF SendLast, clientVars, StreamShape
  <2>2. Head(outbox[r]) \in Message /\ (Tail(outbox[r]) = <<>> => Head(outbox[r]) = "done")
    BY <2>1, EndingStep
  <2>3. \A s \in Request \ {r} : sent'[s] = sent[s]
    BY <2>1, <2>2, SendShape
  <2>4. rx[r] => sent'[r] = Append(sent[r], Head(outbox[r]))
    BY <2>1, <2>2, SendShape
  <2>5. rx[r] /\ outbox'[r] = <<>> => EndsWithDone(sent'[r])
    <3>1. EndsWithDone(Append(sent[r], "done"))
      <4>1. sent[r] \in Seq(Message)
        OBVIOUS
      <4>2. QED
        BY <4>1, AppendEnds
    <3>2. QED
      BY <2>1, <2>2, <2>4, <3>1
  <2>6. QED
    BY <2>1, <2>3, <2>5
<1>7. QED
  BY <1>1, <1>2, <1>3, <1>4, <1>5, <1>6, NextStreams

\* The steps that leave the streams, the endings, the buffers and the tokens
\* alone, and that do not raise the flag.
TriggerIdle(r) ==
  \/ Dispatch(r) \/ AcquireSlot(r) \/ LockEngine(r) \/ StartGeneration(r) \/ Evict(r)
  \/ Instantiate(r) \/ KernelMissing(r) \/ PromptPanics(r) \/ Return(r)

\* The generation ends with an open trigger only while the flag is down, and
\* the flag stays down until the final check; a trigger that was handed over is
\* in the stream before the flag is raised.
LEMMA NextTriggerKept ==
  IInv /\ StreamShape /\ TriggerKept /\ [Next]_vars => TriggerKept'
<1> SUFFICES ASSUME IInv, StreamShape, TriggerKept, [Next]_vars
             PROVE  TriggerKept'
  OBVIOUS
<1>t. TypeOK
  BY DEF IInv
<1> StreamTyped
  BY <1>t, StreamTypes
<1>f. \A r \in Request :
        pc[r] \in {"generating", "sending", "trigger", "flagging"} /\ tokens[r] > 0 =>
          cancel = None
  BY DEF IInv, FlagLowered
<1> USE DEF TriggerKept, StreamTyped
<1>1. CASE SwitchModel \/ UNCHANGED vars
  BY <1>1 DEF SwitchModel, vars, taskVars, clientVars
<1>2. ASSUME NEW r \in Request, Receive(r) \/ HangUp(r)
      PROVE  TriggerKept'
  <2>1. /\ UNCHANGED <<pc, buf, tokens, cancel, outbox, sent>>
        /\ \A s \in Request : rx'[s] => rx[s]
    BY <1>2 DEF Receive, HangUp, taskVars
  <2>2. QED
    BY <2>1
<1>3. ASSUME NEW r \in Request, TriggerIdle(r)
      PROVE  TriggerKept'
  <2>1. /\ UNCHANGED <<buf, tokens, outbox, sent, rx>>
        /\ cancel' \in {cancel, None}
    BY <1>3 DEF TriggerIdle, Dispatch, AcquireSlot, LockEngine, StartGeneration, Evict, Instantiate,
       KernelMissing, PromptPanics, Return, clientVars
  <2>2. /\ \/ pc[r] \in Early
           \/ pc[r] \in {"rejecting", "closing"} /\ pc'[r] = "closed"
        /\ \A s \in Request \ {r} : pc'[s] = pc[s]
    BY <1>3 DEF TriggerIdle, Dispatch, AcquireSlot, LockEngine, StartGeneration, Evict, Instantiate,
       KernelMissing, PromptPanics, Return, Goto, Early
  <2>3. pc[r] \in Early => buf[r] = "plain"
    BY DEF StreamShape
  <2>4. QED
    BY <2>1, <2>2, <2>3 DEF Generating
<1>4. ASSUME NEW r \in Request,
             CallbackCancelled(r) \/ KernelEnds(r) \/ KernelPanics(r)
      PROVE  TriggerKept'
  <2>1. /\ UNCHANGED <<buf, tokens, outbox, sent, rx, cancel>>
        /\ pc[r] = "generating"
        /\ pc'[r] \in {"generated", "panicked"}
        /\ \A s \in Request \ {r} : pc'[s] = pc[s]
    BY <1>4 DEF CallbackCancelled, KernelEnds, KernelPanics, EndGeneration, Goto, clientVars
  <2>2. buf[r] # "plain" => cancel = None
    BY <1>f, <2>1 DEF Generating
  <2>3. QED
    BY <2>1, <2>2 DEF Generating
<1>5. ASSUME NEW r \in Request, RaiseCancel(r)
      PROVE  TriggerKept'
  <2>1. /\ UNCHANGED <<buf, tokens, outbox, sent, rx>>
        /\ pc[r] = "flagging"
        /\ pc'[r] = "generated"
        /\ \A s \in Request \ {r} : pc'[s] = pc[s]
    BY <1>5 DEF RaiseCancel, EndGeneration, Goto, clientVars
  <2>2. \A s \in Request \ {r} : pc[s] \notin {"panicked", "generated"}
    BY <2>1 DEF IInv, EngineExclusive, Locked, Generating
  <2>3. QED
    BY <2>1, <2>2 DEF Generating
<1>6. ASSUME NEW r \in Request, Callback(r)
      PROVE  TriggerKept'
  <2>1. /\ UNCHANGED <<outbox, sent, rx, cancel>>
        /\ tokens'[r] = tokens[r] + 1
        /\ pc'[r] \in {"generating", "sending", "trigger"}
        /\ \A s \in Request \ {r} :
             pc'[s] = pc[s] /\ buf'[s] = buf[s] /\ tokens'[s] = tokens[s]
    BY <1>6 DEF Callback, Intercept, Goto, clientVars
  <2>2. tokens'[r] > 0
    BY <2>1, DispatcherAssumption
  <2>3. QED
    BY <2>1, <2>2
<1>7. ASSUME NEW r \in Request, SendToken(r)
      PROVE  TriggerKept'
  <2>1. /\ UNCHANGED <<buf, tokens, outbox, rx, cancel>>
        /\ pc[r] = "sending"
        /\ pc'[r] \in {"generating", "generated"}
        /\ rx[r] => pc'[r] = "generating"
        /\ \A s \in Request \ {r} : pc'[s] = pc[s]
    BY <1>7 DEF SendToken, EndGeneration, Goto, clientVars
  <2>2. \A s \in Request \ {r} : sent'[s] = sent[s]
    BY <1>t, <1>7, SendShape DEF SendToken, Message
  <2>3. QED
    BY <2>1, <2>2 DEF Generating
<1>8. ASSUME NEW r \in Request, SendTrigger(r) \/ ReportPanic(r)
      PROVE  TriggerKept'
  <2>1. PICK m \in Message : Send(r, m) /\ (SendTrigger(r) => m = "trigger")
    <3>1. ReportPanic(r) => Send(r, "error") /\ ~SendTrigger(r)
      BY DEF ReportPanic, SendTrigger, Goto
    <3>2. SendTrigger(r) => Send(r, "trigger")
      BY DEF SendTrigger
    <3>3. "error" \in Message /\ "trigger" \in Message
      BY DEF Message
    <3>4. QED
      BY <1>8, <3>1, <3>2, <3>3
  <2>2. /\ UNCHANGED <<buf, tokens, outbox, rx, cancel>>
        /\ \/ SendTrigger(r) /\ pc[r] = "trigger" /\ pc'[r] = "flagging"
           \/ pc[r] = "panicked" /\ pc'[r] = "generated"
        /\ \A s \in Request \ {r} : pc'[s] = pc[s]
    BY <1>8 DEF SendTrigger, ReportPanic, Goto, clientVars
  <2>3. \A s \in Request \ {r} : sent'[s] = sent[s]
    BY <1>t, <2>1, SendShape
  <2>4. rx[r] => (Holds(sent'[r], Triggers) <=> Holds(sent[r], Triggers) \/ m \in Triggers)
    <3>1. rx[r] => sent'[r] = Append(sent[r], m)
      BY <1>t, <2>1, SendShape
    <3>2. sent[r] \in Seq(Message)
      OBVIOUS
    <3>3. Holds(Append(sent[r], m), Triggers) <=> Holds(sent[r], Triggers) \/ m \in Triggers
      BY <3>2, AppendHolds
    <3>4. QED
      BY <3>1, <3>3
  <2>5. "trigger" \in Triggers
    BY DEF Triggers
  <2>6. QED
    BY <2>1, <2>2, <2>3, <2>4, <2>5 DEF Generating
<1>9. ASSUME NEW r \in Request, Resolve(r) \/ NotGenerated(r)
      PROVE  TriggerKept'
  <2>1. /\ UNCHANGED <<buf, tokens, sent, rx, cancel>>
        /\ pc[r] \in Early
        /\ pc'[r] \in {"contending", "rejecting", "closing"}
        /\ \A s \in Request \ {r} : pc'[s] = pc[s] /\ outbox'[s] = outbox[s]
    BY <1>9 DEF Resolve, NotGenerated, Goto, Early, clientVars
  <2>2. buf[r] = "plain"
    BY <2>1 DEF StreamShape
  <2>3. QED
    BY <2>1, <2>2
<1>10. ASSUME NEW r \in Request, FinalCheck(r)
       PROVE  TriggerKept'
  <2>1. /\ UNCHANGED <<buf, tokens, sent, rx, cancel>>
        /\ pc[r] = "generated"
        /\ pc'[r] = "closing"
        /\ outbox'[r] = Append(LeftOver(r), "done")
        /\ \A s \in Request \ {r} : pc'[s] = pc[s] /\ outbox'[s] = outbox[s]
    BY <1>10 DEF FinalCheck, Goto, clientVars
  <2>2. cancel = None /\ buf[r] # "plain" => Holds(outbox'[r], Triggers)
    BY <1>t, <2>1, FinalEnding
  <2>3. QED
    BY <2>1, <2>2 DEF Generating
<1>11. ASSUME NEW r \in Request, SendLast(r)
       PROVE  TriggerKept'
  <2>1. /\ UNCHANGED <<pc, buf, tokens, rx, cancel>>
        /\ pc[r] \in {"rejecting", "closing"}
        /\ outbox[r] # <<>> /\ outbox[r] \in Endings
        /\ Send(r, Head(outbox[r]))
        /\ \A s \in Request \ {r} : outbox'[s] = outbox[s]
    BY <1>11 DEF SendLast, clientVars, StreamShape
  <2>2. /\ Head(outbox[r]) \in Message
        /\ Holds(outbox[r], Triggers) => Head(outbox[r]) \in Triggers
    BY <2>1, EndingStep
  <2>3. \A s \in Request \ {r} : sent'[s] = sent[s]
    BY <1>t, <2>1, <2>2, SendShape
  <2>4. rx[r] /\ (Holds(sent[r], Triggers) \/ Holds(outbox[r], Triggers)) =>
          Holds(sent'[r], Triggers)
    <3>1. rx[r] => sent'[r] = Append(sent[r], Head(outbox[r]))
      BY <1>t, <2>1, <2>2, SendShape
    <3>2. sent[r] \in Seq(Message)
      OBVIOUS
    <3>3. Holds(Append(sent[r], Head(outbox[r])), Triggers) <=>
            Holds(sent[r], Triggers) \/ Head(outbox[r]) \in Triggers
      BY <2>2, <3>2, AppendHolds
    <3>4. QED
      BY <2>2, <3>1, <3>3
  <2>5. QED
    BY <2>1, <2>3, <2>4 DEF Generating
<1>12. QED
  BY <1>1, <1>2, <1>3, <1>4, <1>5, <1>6, <1>7, <1>8, <1>9, <1>10, <1>11, NextStreams
     DEF PlaceStep, SendStep, TriggerIdle

\* What the streams need: the engine's invariant and the three above.
StreamInv == IInv /\ StreamShape /\ StreamDone /\ TriggerKept

LEMMA InitStreams == Init => StreamShape /\ StreamDone /\ TriggerKept
<1> SUFFICES ASSUME Init PROVE StreamShape /\ StreamDone /\ TriggerKept
  OBVIOUS
<1>1. <<>> \in Endings
  BY DEF Endings
<1>2. StreamShape
  BY <1>1, EmptyStream DEF Init, StreamShape, Generating
<1>3. StreamDone /\ TriggerKept
  BY DEF Init, StreamDone, TriggerKept
<1>4. QED
  BY <1>2, <1>3

LEMMA StreamInvHolds == SafeSpec => []StreamInv
<1>1. Init => StreamInv
  BY InitIInv, InitStreams DEF StreamInv
<1>2. IInv => TypeOK
  BY DEF IInv
<1>3. StreamInv /\ [Next]_vars => StreamInv'
  BY <1>2, NextIInv, NextStreamShape, NextStreamDone, NextTriggerKept DEF StreamInv
<1>4. QED
  BY <1>1, <1>3, PTL DEF SafeSpec

\* No text follows a trigger in any stream: nothing of the payload leaks
\* (callback and the final buffer check of dispatch_stream).
THEOREM NoLeak == SafeSpec => []NoTextAfterTrigger
<1>1. StreamInv => NoTextAfterTrigger
  BY DEF StreamInv, StreamShape, TextComesFirst, Triggers, NoTextAfterTrigger
<1>2. QED
  BY <1>1, StreamInvHolds, PTL

\* [DONE] comes last, and every stream that is still read to its end has it,
\* whatever way its task took; a task that panics before its generation, on a
\* missing kernel or a prompt with a NUL, leaves an empty stream.
THEOREM DoneOnce == SafeSpec => []StreamsEndWithDone
<1>1. StreamInv => StreamsEndWithDone
  <2> SUFFICES ASSUME StreamInv, NEW r \in Request
               PROVE  /\ DoneIsLast(sent[r])
                      /\ pc[r] = "closed" /\ rx[r] =>
                           \/ EndsWithDone(sent[r])
                           \/ sent[r] = <<>> /\ outcome[r] = "crashed"
    BY DEF StreamsEndWithDone, DoneIsLast, EndsWithDone
  <2>1. DoneIsLast(sent[r]) /\ (pc[r] = "closed" => outbox[r] = <<>>)
    BY DEF StreamInv, StreamShape
  <2>2. QED
    BY <2>1 DEF StreamInv, StreamDone
<1>2. QED
  BY <1>1, StreamInvHolds, PTL

\* A caller that stays gets the trigger its model emitted, however requests
\* raise and lower the flag they share.
THEOREM TriggerArrives == SafeSpec => []TriggerDelivered
<1>1. StreamInv => TriggerDelivered
  <2> SUFFICES ASSUME StreamInv, NEW r \in Request,
                      pc[r] = "closed", rx[r], buf[r] # "plain"
               PROVE  Holds(sent[r], Triggers)
    BY DEF TriggerDelivered, Holds, Triggers
  <2>1. outbox[r] = <<>>
    BY DEF StreamInv, StreamShape
  <2>2. ~Holds(outbox[r], Triggers)
    BY <2>1, EmptyStream
  <2>3. QED
    BY <2>2 DEF StreamInv, TriggerKept
<1>2. QED
  BY <1>1, StreamInvHolds, PTL

-----------------------------------------------------------------------------
(* chat_completions on top of the dispatcher. *)

\* A session that reads or runs a tool has a stream, one that has not begun has
\* all of its rounds.
SessionInv ==
  \A s \in Session :
    /\ phase[s] \in {"reading", "tool", "resume"} => cur[s] \in Request
    /\ phase[s] = "start" => iters[s] = MaxIters

ChatInv == ChatTypeOK /\ SessionInv

LEMMA NewRequestIdle ==
  ASSUME IdleRequests # {}
  PROVE  NewRequest \in Request /\ pc[NewRequest] = "idle"
BY DEF IdleRequests, NewRequest

\* Every step of the sessions is a step of the dispatcher or leaves it alone.
LEMMA ChatStep ==
  ASSUME ChatInv, [ChatNext]_allVars
  PROVE  [Next]_vars
<1>1. CASE UNCHANGED allVars
  BY <1>1 DEF allVars
<1>2. ASSUME NEW s \in Session, Begin(s) \/ SessionStep(s) \/ Disconnect(s)
      PROVE  [Next]_vars
  <2>1. CASE Begin(s) \/ Resume(s)
    <3>1. NewRequest \in Request /\ Dispatch(NewRequest)
      BY <2>1, NewRequestIdle DEF Begin, Resume, DispatchFor
    <3>2. QED
      BY <3>1 DEF Next
  <2>2. CASE Read(s)
    <3>1. cur[s] \in Request /\ Receive(cur[s])
      BY <2>2 DEF Read, ChatInv, SessionInv
    <3>2. QED
      BY <3>1 DEF Next
  <2>3. CASE StreamOver(s) \/ RunTool(s) \/ Disconnect(s)
    BY <2>3 DEF StreamOver, RunTool, Disconnect
  <2>4. QED
    BY <1>2, <2>1, <2>2, <2>3 DEF SessionStep
<1>3. ASSUME NEW r \in Request,
             DropReceiver(r) \/ AcquireSlot(r) \/ LockEngine(r) \/ TaskStep(r)
      PROVE  [Next]_vars
  BY <1>3 DEF DropReceiver, Next
<1>4. CASE SwitchModel
  BY <1>4 DEF Next
<1>5. QED
  BY <1>1, <1>2, <1>3, <1>4 DEF ChatNext

LEMMA InitChatInv == ChatInit => ChatInv
<1> SUFFICES ASSUME ChatInit PROVE ChatInv
  OBVIOUS
<1>1. TypeOK
  BY InitTypeOK DEF ChatInit
<1>2. MaxIters \in 0..MaxIters
  BY ChatAssumption
<1>3. QED
  BY <1>1, <1>2 DEF ChatInit, ChatInv, ChatTypeOK, SessionInv

LEMMA NextChatInv == ChatInv /\ [ChatNext]_allVars => ChatInv'
<1> SUFFICES ASSUME ChatInv, [ChatNext]_allVars
             PROVE  ChatInv'
  OBVIOUS
<1>t. TypeOK'
  BY ChatStep, NextTypeOK DEF ChatInv, ChatTypeOK
<1>u. SUFFICES /\ phase' \in [Session -> {"start", "reading", "tool", "resume", "finished", "gone"}]
               /\ cur' \in [Session -> Request \cup {None}]
               /\ iters' \in [Session -> 0..MaxIters]
               /\ SessionInv'
  BY <1>t DEF ChatInv, ChatTypeOK
<1> USE ChatAssumption DEF ChatInv, ChatTypeOK, SessionInv
<1>1. CASE UNCHANGED chatVars
  BY <1>1 DEF chatVars
<1>2. ASSUME NEW s \in Session, Begin(s) \/ Resume(s)
      PROVE  /\ phase' \in [Session -> {"start", "reading", "tool", "resume", "finished", "gone"}]
             /\ cur' \in [Session -> Request \cup {None}]
             /\ iters' \in [Session -> 0..MaxIters]
             /\ SessionInv'
  <2>1. NewRequest \in Request /\ cur' = [cur EXCEPT ![s] = NewRequest]
    BY <1>2, NewRequestIdle DEF Begin, Resume, DispatchFor
  <2>2. \/ iters[s] > 0 /\ iters' = [iters EXCEPT ![s] = @ - 1]
        \/ UNCHANGED iters
    BY <1>2 DEF Begin, Resume
  <2>3. iters' \in [Session -> 0..MaxIters]
    BY <2>2
  <2>4. /\ phase' \in [Session -> {"start", "reading", "tool", "resume", "finished", "gone"}]
        /\ phase'[s] \in {"reading", "finished"}
        /\ \A u \in Session \ {s} : phase'[u] = phase[u]
    BY <1>2 DEF Begin, Resume
  <2>5. \A u \in Session \ {s} : iters'[u] = iters[u] /\ cur'[u] = cur[u]
    BY <2>1, <2>2
  <2>6. QED
    BY <2>1, <2>3, <2>4, <2>5
<1>3. ASSUME NEW s \in Session, Read(s) \/ StreamOver(s) \/ RunTool(s) \/ Disconnect(s)
      PROVE  /\ phase' \in [Session -> {"start", "reading", "tool", "resume", "finished", "gone"}]
             /\ cur' \in [Session -> Request \cup {None}]
             /\ iters' \in [Session -> 0..MaxIters]
             /\ SessionInv'
  BY <1>3 DEF Read, StreamOver, RunTool, Disconnect
<1>4. QED
  BY <1>1, <1>2, <1>3 DEF ChatNext, SessionStep, DropReceiver, allVars, chatVars

LEMMA ChatInvHolds == ChatSafeSpec => []ChatInv
BY InitChatInv, NextChatInv, PTL DEF ChatSafeSpec

\* The sessions keep to their types: the rounds never run below none
\* (max_iters of chat_completions), and they send the dispatcher nothing it
\* does not expect.
THEOREM ChatTypeCorrect == ChatSafeSpec => []ChatTypeOK
<1>1. ChatInv => ChatTypeOK
  BY DEF ChatInv
<1>2. QED
  BY <1>1, ChatInvHolds, PTL

\* The sessions are callers of the dispatcher as Dispatcher describes them:
\* what was proved of it holds under them.
THEOREM ChatImplementsDispatcher == ChatSafeSpec => SafeSpec
<1>1. ChatInit => Init
  BY DEF ChatInit
<1>2. ChatInv /\ [ChatNext]_allVars => [Next]_vars
  BY ChatStep
<1>3. QED
  BY <1>1, <1>2, ChatInvHolds, PTL DEF ChatSafeSpec, SafeSpec

\* So requests of interrupted and resumed sessions too are served one at a time,
\* and their slots come back.
THEOREM ChatImplementsQueue == ChatSafeSpec => QueueSafety /\ []PermitsConserved
BY ChatImplementsDispatcher, ImplementsQueue, PermitConservation, PTL

=============================================================================
