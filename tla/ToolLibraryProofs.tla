------------------------- MODULE ToolLibraryProofs --------------------------
(***************************************************************************)
(* Proofs about ToolLoop, for any tokens, bounds, payloads and capacities: *)
(* its types; a tool's successful answer is whole (AnswerIsWhole); the     *)
(* interceptor accounts for all the model says (Accounted), shows no       *)
(* trigger and misses none (TriggersCaught).                               *)
(*                                                                         *)
(* From "The directory of a model" on, proofs about ModelLibrary, for any  *)
(* number of tasks, inodes, chunks, calls and faults: its types; what the  *)
(* roster lists is complete (ListedIsComplete); weights that one pull has  *)
(* named are whole (PartIsAtomic), and so is what is left when nothing     *)
(* fails (QuietIsWhole).  The two modules share no name.                   *)
(***************************************************************************)
EXTENDS ToolLoop, ModelLibrary, SequenceTheorems, WellFoundedInduction, TLAPS

-----------------------------------------------------------------------------
(* The tool's process *)

\* The thread is started when the caller waits; past stdout nobody is left who
\* could write to it; past the wait the child is reaped.  A successful answer
\* was received from it.
PInv ==
  /\ made \in [Stream -> Nat]
  /\ taken \in [Stream -> Nat]
  /\ caller \in {"idle", "write"} => reader = "none"
  /\ reader \in {"err", "wait", "send", "sent"} => taken["out"] = made["out"] /\ ~InUse("out")
  /\ reader \in {"send", "sent"} => child = "reaped"
  /\ answer.ok = TRUE =>
       /\ caller = "returned"
       /\ reader = "sent"
       /\ succeeded = TRUE
       /\ answer.size = taken["out"]

LEMMA ProcessInitWhole == ProcessInit => PInv
BY DEF ProcessInit, PInv, Pending, Stream, InUse

LEMMA CallerWhole ==
  ASSUME PInv, Spawn \/ CallerStep \/ Timeout
  PROVE  PInv'
<1>1. CASE Spawn
  BY <1>1 DEF Spawn, PInv, pipes, Failure, InUse
<1>2. CASE Feed
  BY <1>2 DEF Feed, PInv, InUse
<1>3. CASE FeedFails
  BY <1>3 DEF FeedFails, PInv, pipes, Failure, InUse
<1>4. CASE Receive
  <2>1. CASE succeeded = TRUE
    <3>1. answer' = [ok |-> TRUE, size |-> taken["out"]]
      BY <1>4, <2>1 DEF Receive
    <3> QED
      BY <1>4, <2>1, <3>1 DEF Receive, PInv, pipes, InUse
  <2>2. CASE succeeded # TRUE
    <3>1. answer' = Failure \/ succeeded
      BY <1>4 DEF Receive
    <3>2. answer' = Failure
      BY <1>4, <2>2, <3>1 DEF Receive
    <3> QED
      BY <1>4, <3>2 DEF Receive, PInv, pipes, Failure, InUse
  <2> QED
    BY <2>1, <2>2
<1>5. CASE Timeout
  <2>1. child' = child \/ (child = "running" /\ child' = "exited")
    BY <1>5 DEF Timeout, Kill
  <2> QED
    BY <1>5, <2>1 DEF Timeout, PInv, pipes, Failure, InUse
<1> QED
  BY <1>1, <1>2, <1>3, <1>4, <1>5 DEF CallerStep

LEMMA ReaderWhole ==
  ASSUME PInv, ReaderStep
  PROVE  PInv'
<1>1. "out" \in Stream /\ "err" \in Stream
  BY DEF Stream
<1>2. CASE Read("out", "err")
  <2>1. /\ reader = "out"
        /\ UNCHANGED <<caller, answer, child, heirs, succeeded, made>>
    BY <1>2 DEF Read, caller_vars
  <2>2. CASE taken' = [taken EXCEPT !["out"] = made["out"]] /\ UNCHANGED reader
    BY <1>1, <2>1, <2>2 DEF PInv, InUse
  <2>3. CASE AtEnd("out") /\ reader' = "err" /\ UNCHANGED taken
    BY <2>1, <2>3 DEF PInv, AtEnd, InUse
  <2> QED
    BY <1>2, <2>2, <2>3 DEF Read
<1>3. CASE Read("err", "wait")
  <2>1. /\ reader = "err"
        /\ UNCHANGED <<caller, answer, child, heirs, succeeded, made>>
    BY <1>3 DEF Read, caller_vars
  <2>2. CASE taken' = [taken EXCEPT !["err"] = made["err"]] /\ UNCHANGED reader
    BY <1>1, <2>1, <2>2 DEF PInv, InUse
  <2>3. CASE AtEnd("err") /\ reader' = "wait" /\ UNCHANGED taken
    BY <2>1, <2>3 DEF PInv, InUse
  <2> QED
    BY <1>3, <2>2, <2>3 DEF Read
<1>4. CASE Reap
  BY <1>4 DEF Reap, PInv, caller_vars, pipes, InUse
<1>5. CASE Send
  BY <1>5 DEF Send, PInv, caller_vars, pipes, InUse
<1> QED
  BY <1>2, <1>3, <1>4, <1>5 DEF ReaderStep

LEMMA ChildWhole ==
  ASSUME PInv, ChildStep
  PROVE  PInv'
<1>1. CASE Eat
  BY <1>1 DEF Eat, PInv, caller_vars, InUse
<1>2. ASSUME NEW s \in Stream, Make(s) PROVE PInv'
  <2>1. UNCHANGED <<caller, answer, child, heirs, succeeded, taken, reader>>
    BY <1>2 DEF Make, caller_vars
  <2>2. made' \in [Stream -> Nat]
    BY <1>2 DEF Make, PInv
  <2>3. InUse("out") => reader \notin {"err", "wait", "send", "sent"}
    BY DEF PInv
  <2>4. InUse("out") \/ made'["out"] = made["out"]
    BY <1>2 DEF Make, PInv, Stream
  <2> QED
    BY <2>1, <2>2, <2>3, <2>4 DEF PInv, InUse
<1>3. CASE Exit
  <2>1. answer.ok # TRUE
    BY <1>3 DEF Exit, PInv
  <2> QED
    BY <1>3, <2>1 DEF Exit, PInv, caller_vars, pipes, InUse
<1>4. CASE Fork
  BY <1>4 DEF Fork, PInv, caller_vars, pipes, InUse
<1>5. CASE Close
  BY <1>5 DEF Close, PInv, caller_vars, pipes, InUse
<1> QED
  BY <1>1, <1>2, <1>3, <1>4, <1>5 DEF ChildStep

\* Only the tool's own steps change its process.
LEMMA NextWhole == PInv /\ [Next]_vars => PInv'
<1> SUFFICES ASSUME PInv, [Next]_vars PROVE PInv'
  OBVIOUS
<1>1. CASE UNCHANGED process
  BY <1>1 DEF process, caller_vars, pipes, PInv, InUse
<1>2. CASE Spawn \/ CallerStep \/ Timeout
  BY <1>2, CallerWhole
<1>3. CASE ReaderStep
  BY <1>3, ReaderWhole
<1>4. CASE ChildStep
  BY <1>4, ChildWhole
<1>5. CASE Generate
  BY <1>1, <1>5 DEF Generate, Collect, Pass, Continue, Start, Hold, EndOfText, ContinueEnds
<1>6. CASE Router
  BY <1>1, <1>2, <1>6 DEF Router, Finish, TakeTrigger, CallTool, ToolReturns, Resume
<1>7. CASE HangUp
  BY <1>1, <1>7 DEF HangUp
<1>8. CASE Sandbox
  BY <1>2, <1>3, <1>4, <1>8 DEF Sandbox
<1>9. CASE UNCHANGED vars
  BY <1>1, <1>9 DEF vars
<1> QED
  BY <1>5, <1>6, <1>7, <1>8, <1>9 DEF Next

\* A tool that succeeds has given all its output: whatever races the thread
\* that reads it, nothing is returned before stdout has come to its end and the
\* child has been waited for.
THEOREM WholeAnswer == Spec => []AnswerIsWhole
<1>1. Init => PInv
  BY ProcessInitWhole DEF Init
<1>2. PInv => AnswerIsWhole
  BY DEF PInv, AnswerIsWhole
<1> QED
  BY <1>1, <1>2, NextWhole, PTL DEF Spec

-----------------------------------------------------------------------------
(* The interceptor *)

\* What it works on are texts.
Texts ==
  /\ said \in Seq(Symbol)
  /\ shown \in Seq(Symbol)
  /\ cache \in Seq(Symbol)
  /\ json \in Seq(Symbol)
  /\ capture \in BOOLEAN

AInv == Texts /\ Accounted

\* A token is a text.
LEMMA TokenText ==
  ASSUME ToolAssumption, NEW token \in Token
  PROVE  token \in Seq(Symbol)
<1>1. \A a \in Symbol : <<a>> \in Seq(Symbol)
  OBVIOUS
<1>2. \A a, b \in Symbol : <<a, b>> \in Seq(Symbol)
  OBVIOUS
<1>3. token \in {<<a>> : a \in Symbol} \/ token \in {<<a, b>> : a, b \in Symbol}
  BY DEF ToolAssumption
<1>4. CASE token \in {<<a>> : a \in Symbol}
  BY <1>1, <1>4
<1>5. CASE token \in {<<a, b>> : a, b \in Symbol}
  <2>1. PICK a \in Symbol, b \in Symbol : token = <<a, b>>
    BY <1>5
  <2> QED
    BY <1>2, <2>1
<1> QED
  BY <1>3, <1>4, <1>5

\* A trigger that occurs has a first occurrence.
LEMMA FirstPlace ==
  ASSUME NEW trigger, NEW text \in Seq(Symbol), Occurs(trigger, text)
  PROVE  First(trigger, text) \in 1..Len(text)
<1>1. /\ Places(trigger, text) \subseteq Nat
      /\ Places(trigger, text) \subseteq 1..Len(text)
      /\ Places(trigger, text) # {}
  BY DEF Places, Occurs
<1>2. PICK x \in Places(trigger, text) :
        \A y \in Places(trigger, text) : <<y, x>> \notin OpToRel(<, Nat)
  BY <1>1, WFMin, NatLessThanWellFounded
<1>3. \A y \in Places(trigger, text) : ~(y < x)
  BY <1>1, <1>2 DEF OpToRel
<1>4. \A y \in Places(trigger, text) : x <= y
  BY <1>1, <1>3
<1> QED
  BY <1>1, <1>4 DEF First

\* A text cut in two.
LEMMA CutInTwo ==
  ASSUME NEW text \in Seq(Symbol), NEW i \in 1..Len(text) + 1
  PROVE  /\ SubSeq(text, 1, i - 1) \in Seq(Symbol)
         /\ SubSeq(text, i, Len(text)) \in Seq(Symbol)
         /\ SubSeq(text, 1, i - 1) \o SubSeq(text, i, Len(text)) = text
<1>1. Len(text) \in Nat /\ \A j \in 1..Len(text) : text[j] \in Symbol
  BY LenProperties, ElementOfSeq
<1>2. SubSeq(text, 1, i - 1) \in Seq(Symbol) /\ SubSeq(text, i, Len(text)) \in Seq(Symbol)
  BY <1>1, SubSeqProperties
<1>3. SubSeq(text, 1, i - 1) \o SubSeq(text, i, Len(text)) = SubSeq(text, 1, Len(text))
  <2> DEFINE m == 1
             k == i - 1
             n == Len(text)
  <2>1. m \in 1..Len(text) + 1 /\ k \in (m - 1)..Len(text) /\ n \in k..Len(text) /\ k + 1 = i
    BY <1>1
  <2>2. SubSeq(text, m, k) \o SubSeq(text, k + 1, n) = SubSeq(text, m, n)
    <3> HIDE DEF m, k, n
    <3> QED
      BY <2>1, ConcatAdjacentSubSeq
  <2> QED
    BY <2>1, <2>2
<1> QED
  BY <1>2, <1>3, SubSeqFull

\* The concatenation of texts is associative, and a text.
LEMMA Regroup == \A a, b, c \in Seq(Symbol) : (a \o b) \o c = a \o (b \o c)
BY ConcatAssociative

LEMMA Concatenated == \A a, b \in Seq(Symbol) : a \o b \in Seq(Symbol)
BY ConcatProperties

\* What is held and the token that follows it make up the text.
LEMMA Said ==
  ASSUME ToolAssumption, AInv, NEW token \in Token, Say(token)
  PROVE  /\ said' = shown \o (Held \o token)
         /\ said' \in Seq(Symbol)
         /\ Held \in Seq(Symbol)
         /\ Held \o token \in Seq(Symbol)
<1>1. said = shown \o Held
  BY DEF Say, AInv, Accounted
<1>2. Held \in Seq(Symbol) /\ token \in Seq(Symbol)
  BY TokenText DEF AInv, Texts, Held
<1>3. said' = said \o token
  BY DEF Say
<1>4. shown \in Seq(Symbol)
  BY DEF AInv, Texts
<1>5. Held \o token \in Seq(Symbol)
  BY <1>2, Concatenated
<1>6. shown \o (Held \o token) \in Seq(Symbol)
  BY <1>4, <1>5, Concatenated
<1>7. (shown \o Held) \o token = shown \o (Held \o token)
  BY <1>2, <1>4, Regroup
<1> QED
  BY <1>1, <1>2, <1>3, <1>5, <1>6, <1>7

\* What is shown of a text and the rest that is held account for it.
LEMMA Split ==
  ASSUME shown \in Seq(Symbol), NEW text \in Seq(Symbol), said' = shown \o text,
         NEW front \in Seq(Symbol), NEW rest \in Seq(Symbol), front \o rest = text,
         shown' = shown \o front, Held' = rest
  PROVE  shown' \in Seq(Symbol) /\ Accounted'
<1>1. (shown \o front) \o rest = shown \o (front \o rest)
  BY Regroup
<1> QED
  BY <1>1, ConcatProperties DEF Accounted

LEMMA CollectAccounts ==
  ASSUME ToolAssumption, AInv, NEW token \in Token, Collect(token)
  PROVE  AInv'
<1>1. /\ said' = shown \o (json \o token) /\ said' \in Seq(Symbol)
      /\ json \o token \in Seq(Symbol)
  <2>1. Say(token) /\ Held = json
    BY DEF Collect, Held
  <2> QED
    BY <2>1, Said
<1>2. capture' = TRUE /\ json' = json \o token /\ shown' = shown /\ cache' = cache \o token
  BY DEF Collect, Captured
<1>3. cache' \in Seq(Symbol)
  BY <1>2, TokenText, ConcatProperties DEF AInv, Texts
<1>4. Held' = json'
  BY <1>2 DEF Held
<1> QED
  BY <1>1, <1>2, <1>3, <1>4 DEF AInv, Texts, Accounted

LEMMA StartAccounts ==
  ASSUME ToolAssumption, AInv, NEW trigger \in {Legacy, Dynamic}, NEW token \in Token,
         Start(trigger, token)
  PROVE  AInv'
<1> DEFINE text == cache \o token
           i == First(trigger, text)
<1>1. said' = shown \o text /\ said' \in Seq(Symbol) /\ text \in Seq(Symbol)
  <2>1. Say(token) /\ Held = cache
    BY DEF Start, Held
  <2> QED
    BY <2>1, Said
<1>2. /\ Occurs(trigger, text)
      /\ shown' = shown \o SubSeq(text, 1, i - 1)
      /\ json' = SubSeq(text, i, Len(text))
      /\ capture' = TRUE
      /\ cache' = <<>>
  BY DEF Start, Captured
<1>3. i \in 1..Len(text)
  BY <1>1, <1>2, FirstPlace
<1>4. /\ SubSeq(text, 1, i - 1) \in Seq(Symbol)
      /\ SubSeq(text, i, Len(text)) \in Seq(Symbol)
      /\ SubSeq(text, 1, i - 1) \o SubSeq(text, i, Len(text)) = text
  <2>1. i \in 1..Len(text) + 1
    BY <1>1, <1>3, LenProperties
  <2> QED
    BY <1>1, <2>1, CutInTwo
<1>5. Held' = SubSeq(text, i, Len(text))
  BY <1>2 DEF Held
<1>6. shown' \in Seq(Symbol) /\ Accounted'
  <2> HIDE DEF text, i
  <2>1. shown \in Seq(Symbol)
    BY DEF AInv, Texts
  <2> QED
    BY <1>1, <1>2, <1>4, <1>5, <2>1, Split
<1>7. cache' \in Seq(Symbol)
  BY <1>2
<1> QED
  BY <1>1, <1>2, <1>4, <1>6, <1>7 DEF AInv, Texts

LEMMA HoldAccounts ==
  ASSUME ToolAssumption, AInv, NEW trigger \in {Legacy, Dynamic}, NEW token \in Token,
         Hold(trigger, token)
  PROVE  AInv'
<1> DEFINE text == cache \o token
<1>1. said' = shown \o text /\ said' \in Seq(Symbol) /\ text \in Seq(Symbol)
  <2>1. Say(token) /\ Held = cache
    BY DEF Hold, Held
  <2> QED
    BY <2>1, Said
<1>2. /\ text # <<>>
      /\ shown' = shown \o Front(text)
      /\ cache' = <<text[Len(text)]>>
      /\ capture' = capture /\ capture # TRUE
      /\ json' = json
  BY DEF Hold, Begins, Beginning, AInv, Texts
<1>3. Len(text) \in 1..Len(text) + 1 /\ Len(text) \in 1..Len(text)
  BY <1>1, <1>2, LenProperties, EmptySeq
<1>4. SubSeq(text, Len(text), Len(text)) = <<text[Len(text)]>>
  <2> DEFINE n == Len(text)
  <2>1. n \in 1..Len(text) /\ n \in n..Len(text) /\ n \in Int /\ n + 1 \in Int /\ n < n + 1
    BY <1>3
  <2>2. <<text[n]>> \in Seq(Symbol)
    BY <1>1, <2>1, ElementOfSeq
  <2> HIDE DEF n, text
  <2>3. SubSeq(text, n, n) = <<text[n]>> \o SubSeq(text, n + 1, n)
    BY <1>1, <2>1, SubSeqRecursiveFirst
  <2>4. SubSeq(text, n + 1, n) = <<>>
    BY <2>1, SubSeqEmpty
  <2>5. SubSeq(text, n, n) = <<text[n]>>
    BY <2>2, <2>3, <2>4, ConcatEmptySeq
  <2> QED
    BY <2>5 DEF n
<1>5. /\ Front(text) \in Seq(Symbol)
      /\ <<text[Len(text)]>> \in Seq(Symbol)
      /\ Front(text) \o <<text[Len(text)]>> = text
  BY <1>1, <1>3, <1>4, CutInTwo DEF Front
<1>6. Held' = <<text[Len(text)]>>
  BY <1>2 DEF Held, AInv, Texts
<1>7. shown' \in Seq(Symbol) /\ Accounted'
  <2> HIDE DEF text
  <2>1. shown \in Seq(Symbol)
    BY DEF AInv, Texts
  <2> QED
    BY <1>1, <1>2, <1>5, <1>6, <2>1, Split
<1> QED
  BY <1>1, <1>2, <1>5, <1>7 DEF AInv, Texts

LEMMA PassAccounts ==
  ASSUME ToolAssumption, AInv, NEW token \in Token, Pass(token)
  PROVE  AInv'
<1> DEFINE text == cache \o token
<1>1. said' = shown \o text /\ said' \in Seq(Symbol) /\ text \in Seq(Symbol)
  <2>1. Say(token) /\ Held = cache
    BY DEF Pass, Held
  <2> QED
    BY <2>1, Said
<1>2. /\ shown' = shown \o text
      /\ cache' = <<>>
      /\ capture' = capture /\ capture # TRUE
      /\ json' = json
  BY DEF Pass, AInv, Texts
<1>3. Held' = <<>> /\ cache' \in Seq(Symbol)
  BY <1>2, EmptySeq DEF Held
<1>4. shown' \in Seq(Symbol) /\ Accounted'
  BY <1>1, <1>2, <1>3, ConcatEmptySeq DEF Accounted
<1> QED
  BY <1>1, <1>2, <1>3, <1>4 DEF AInv, Texts

\* The other steps of the first generation leave the texts alone; from the
\* trigger on nothing has to be accounted for.
LEMMA OthersAccount ==
  ASSUME ToolAssumption, AInv,
         \/ \E token \in Token : Continue(token)
         \/ EndOfText \/ ContinueEnds \/ Router \/ HangUp \/ Sandbox
  PROVE  AInv'
<1>1. CASE UNCHANGED <<stream, interceptor>> /\ (pc' \in {"generate", "after"} => pc \in {"generate", "after"})
  BY <1>1 DEF stream, interceptor, AInv, Texts, Accounted, Held
<1>2. ASSUME NEW token \in Token, Continue(token) PROVE AInv'
  <2>1. /\ pc' \notin {"generate", "after"}
        /\ UNCHANGED <<said, cache, json, capture>>
        /\ shown' = shown \/ shown' = shown \o token
    BY <1>2 DEF Continue, interceptor
  <2>2. shown' \in Seq(Symbol)
    <3>1. token \in Seq(Symbol) /\ shown \in Seq(Symbol)
      BY TokenText DEF AInv, Texts
    <3> QED
      BY <2>1, <3>1, ConcatProperties
  <2> QED
    BY <2>1, <2>2 DEF AInv, Texts, Accounted
<1>3. CASE TakeTrigger
  BY <1>3, EmptySeq DEF TakeTrigger, AInv, Texts, Accounted
<1>4. CASE EndOfText \/ ContinueEnds \/ HangUp
  BY <1>1, <1>4 DEF EndOfText, ContinueEnds, HangUp
<1>5. CASE Finish \/ CallTool \/ ToolReturns \/ Resume
  BY <1>1, <1>5 DEF Finish, CallTool, ToolReturns, Resume
<1>6. CASE Sandbox
  BY <1>1, <1>6 DEF Sandbox
<1> QED
  BY <1>2, <1>3, <1>4, <1>5, <1>6 DEF Router

LEMMA InitAccounts == Init => AInv
<1> SUFFICES ASSUME Init PROVE AInv
  OBVIOUS
<1>1. said = <<>> /\ shown = <<>> /\ cache = <<>> /\ json = <<>> /\ capture = FALSE
  BY DEF Init
<1>2. <<>> \in Seq(Symbol) /\ <<>> \o <<>> = <<>>
  BY EmptySeq, ConcatEmptySeq
<1> QED
  BY <1>1, <1>2 DEF AInv, Texts, Accounted, Held

LEMMA NextAccounts == ToolAssumption /\ AInv /\ [Next]_vars => AInv'
<1> SUFFICES ASSUME ToolAssumption, AInv, [Next]_vars PROVE AInv'
  OBVIOUS
<1>1. CASE Generate
  BY <1>1, CollectAccounts, StartAccounts, HoldAccounts, PassAccounts, OthersAccount DEF Generate
<1>2. CASE Router \/ HangUp \/ Sandbox
  BY <1>2, OthersAccount
<1>3. CASE UNCHANGED vars
  BY <1>3 DEF vars, stream, interceptor, AInv, Texts, Accounted, Held
<1> QED
  BY <1>1, <1>2, <1>3 DEF Next

\* The interceptor loses nothing and repeats nothing: what the model has said in
\* the first generation is what the callback was given, followed by what is
\* held back, however a trigger is spread over tokens.
THEOREM NothingLost == Spec => []Accounted
<1>1. ToolAssumption
  BY ToolAssumption
<1>2. AInv => Accounted
  BY DEF AInv
<1> QED
  BY <1>1, <1>2, InitAccounts, NextAccounts, PTL DEF Spec

-----------------------------------------------------------------------------
(* Types *)

LEMMA ProcessTyped ==
  ASSUME ProcessAssumption, ProcessTypeOK, ProcessStep \/ UNCHANGED process
  PROVE  ProcessTypeOK'
<1> DEFINE Answer == [ok : BOOLEAN, size : Nat]
<1>0. Failure \in Answer
  BY DEF Failure
<1>1. CASE Spawn
  <2>1. answer' \in Answer
    BY <1>0, <1>1 DEF Spawn, ProcessTypeOK
  <2> QED
    BY <1>1, <2>1 DEF Spawn, ProcessTypeOK, pipes
<1>2. CASE Feed
  BY <1>2 DEF Feed, ProcessTypeOK, ProcessAssumption
<1>3. CASE FeedFails
  <2>1. answer' \in Answer
    BY <1>0, <1>3 DEF FeedFails, ProcessTypeOK
  <2> QED
    BY <1>3, <2>1 DEF FeedFails, ProcessTypeOK, pipes
<1>4. CASE Receive
  <2>1. taken["out"] \in Nat
    BY DEF ProcessTypeOK, Stream
  <2>2. answer' \in [ok : BOOLEAN, size : Nat]
    BY <1>4, <2>1 DEF Receive, Failure
  <2> QED
    BY <1>4, <2>2 DEF Receive, ProcessTypeOK, pipes
<1>5. CASE Timeout
  BY <1>5 DEF Timeout, Kill, ProcessTypeOK, pipes, Failure
<1>6. ASSUME NEW s \in Stream, NEW then \in {"err", "wait"}, Read(s, then) PROVE ProcessTypeOK'
  BY <1>6 DEF Read, ProcessTypeOK, caller_vars
<1>7. CASE Reap \/ Send
  BY <1>7 DEF Reap, Send, ProcessTypeOK, caller_vars, pipes
<1>8. CASE Eat
  BY <1>8 DEF Eat, ProcessTypeOK, ProcessAssumption, caller_vars
<1>9. ASSUME NEW s \in Stream, Make(s) PROVE ProcessTypeOK'
  BY <1>9 DEF Make, ProcessTypeOK, caller_vars
<1>10. CASE Exit
  BY <1>10 DEF Exit, ProcessTypeOK, caller_vars, pipes
<1>11. CASE Fork \/ Close
  BY <1>11 DEF Fork, Close, ProcessTypeOK, caller_vars, pipes
<1>12. CASE UNCHANGED process
  BY <1>12 DEF process, ProcessTypeOK, caller_vars, pipes
<1> QED
  BY <1>1, <1>2, <1>3, <1>4, <1>5, <1>6, <1>7, <1>8, <1>9, <1>10, <1>11, <1>12
  DEF ProcessStep, CallerStep, ReaderStep, ChildStep, Stream

\* The variables of the loop that AInv does not type.
Control ==
  /\ pc \in {"generate", "after", "tool", "resume", "continue", "done", "aborted"}
  /\ matched \in BOOLEAN
  /\ listening \in BOOLEAN
  /\ left \in 0..MaxTokens \cup 0..MaxAnswer
  /\ tool \in {"none", "legacy", "cel"}
  /\ acc \in Seq(Symbol)
  /\ Len(acc) <= Window
  /\ masked \in BOOLEAN
  /\ capture => json # <<>>

\* A token counts down; the text that is captured is never empty.
LEMMA SayTyped ==
  ASSUME ToolAssumption, AInv, Control, NEW token \in Token, NEW trigger \in {Legacy, Dynamic},
         Collect(token) \/ Start(trigger, token) \/ Hold(trigger, token) \/ Pass(token)
  PROVE  Control'
<1>1. left' \in 0..MaxTokens \cup 0..MaxAnswer
  BY DEF Collect, Start, Hold, Pass, Say, Control, ToolAssumption
<1>2. CASE Collect(token)
  <2>1. json \in Seq(Symbol) /\ token \in Seq(Symbol) /\ json # <<>>
    BY <1>2, TokenText DEF Collect, AInv, Texts, Control
  <2>2. json \o token # <<>>
    BY <2>1
  <2> QED
    BY <1>1, <1>2, <2>2 DEF Collect, Say, Captured, Control
<1>3. CASE Start(trigger, token)
  <2> DEFINE text == cache \o token
             i == First(trigger, text)
  <2>1. text \in Seq(Symbol)
    BY TokenText, ConcatProperties DEF AInv, Texts
  <2>2. i \in 1..Len(text)
    BY <1>3, <2>1, FirstPlace DEF Start
  <2>3. SubSeq(text, i, Len(text)) # <<>>
    <3> HIDE DEF text, i
    <3>1. Len(text) \in Nat /\ i \in 1..Len(text)+1 /\ Len(text) \in i-1..Len(text)
      BY <2>1, <2>2, LenProperties
    <3>2. Len(SubSeq(text, i, Len(text))) # 0
      <4>1. \A k \in 1..Len(text) : text[k] \in Symbol
        BY <2>1, ElementOfSeq
      <4> QED
        BY <2>2, <3>1, <4>1, SubSeqProperties
    <3> QED
      BY <3>2, EmptySeq
  <2> QED
    BY <1>1, <1>3, <2>3 DEF Start, Say, Captured, Control
<1>4. CASE Hold(trigger, token)
  BY <1>1, <1>4 DEF Hold, Say, Control
<1>5. CASE Pass(token)
  BY <1>1, <1>5 DEF Pass, Say, Control
<1> QED
  BY <1>2, <1>3, <1>4, <1>5

\* The text of the second generation stays within the window.
LEMMA ContinueTyped ==
  ASSUME ToolAssumption, Control, NEW token \in Token, Continue(token)
  PROVE  Control'
<1>1. left' \in 0..MaxTokens \cup 0..MaxAnswer
  BY DEF Continue, Control, ToolAssumption
<1>2. acc \o token \in Seq(Symbol)
  BY TokenText, ConcatProperties DEF Control
<1>3. ASSUME NEW text \in Seq(Symbol) PROVE Recent(text) \in Seq(Symbol) /\ Len(Recent(text)) <= Window
  <2>1. CASE Len(text) > Window
    <3>1. Keep \in Nat /\ Window \in Nat /\ Keep <= Window /\ Keep >= 1
      BY <2>1 DEF ToolAssumption
    <3>2. /\ SubSeq(text, Len(text) - Keep + 1, Len(text)) \in Seq(Symbol)
          /\ Len(SubSeq(text, Len(text) - Keep + 1, Len(text))) = Keep
      BY <2>1, <3>1
    <3> QED
      BY <2>1, <3>1, <3>2 DEF Recent
  <2>2. CASE ~(Len(text) > Window)
    <3>1. Recent(text) = text
      BY <2>2 DEF Recent
    <3> QED
      BY <1>3, <2>2, <3>1, LenProperties DEF ToolAssumption
  <2> QED
    BY <2>1, <2>2
<1>4. acc' = acc \/ acc' = Recent(acc \o token)
  BY DEF Continue
<1>5. acc' \in Seq(Symbol) /\ Len(acc') <= Window
  BY <1>2, <1>3, <1>4 DEF Control
<1> QED
  BY <1>1, <1>5 DEF Continue, interceptor, Control

LEMMA RestTyped ==
  ASSUME ToolAssumption, AInv, Control,
         EndOfText \/ ContinueEnds \/ Router \/ HangUp \/ Sandbox \/ UNCHANGED vars
  PROVE  Control'
<1>1. CASE EndOfText \/ ContinueEnds
  BY <1>1 DEF EndOfText, ContinueEnds, stream, interceptor, Control
<1>5. CASE HangUp
  BY <1>5 DEF HangUp, stream, interceptor, Control
<1>6. CASE Sandbox
  BY <1>6 DEF Sandbox, stream, interceptor, Control
<1>4. CASE UNCHANGED vars
  BY <1>4 DEF vars, stream, interceptor, Control
<1>2. CASE Finish \/ CallTool \/ ToolReturns \/ Resume
  BY <1>2 DEF Finish, CallTool, ToolReturns, Resume, stream, interceptor, Control
<1>3. CASE TakeTrigger
  <2>1. MaxAnswer \in 0..MaxTokens \cup 0..MaxAnswer
    BY DEF ToolAssumption
  <2>2. Fallback \in {"legacy", tool}
    BY DEF Fallback
  <2> QED
    BY <1>3, <2>1, <2>2 DEF TakeTrigger, Control
<1> QED
  BY <1>1, <1>2, <1>3, <1>4, <1>5, <1>6 DEF Router

LEMMA InitTyped == ToolAssumption /\ ProcessAssumption /\ Init => ProcessTypeOK /\ Control
<1> SUFFICES ASSUME ToolAssumption, ProcessAssumption, Init PROVE ProcessTypeOK /\ Control
  OBVIOUS
<1>1. ProcessTypeOK
  <2>1. Pending \in [ok : BOOLEAN, size : Nat]
    BY DEF Pending
  <2>2. [s \in Stream |-> 0] \in [Stream -> Nat]
    OBVIOUS
  <2>3. 0 \in 0..Payload
    BY DEF ProcessAssumption
  <2> QED
    BY <2>1, <2>2, <2>3 DEF Init, ProcessInit, ProcessTypeOK
<1>2. <<>> \in Seq(Symbol) /\ Len(<<>>) = 0
  BY EmptySeq
<1>3. MaxTokens \in 0..MaxTokens /\ 0 <= Window
  BY DEF ToolAssumption
<1> QED
  BY <1>1, <1>2, <1>3 DEF Init, Control

LEMMA NextTyped ==
  ToolAssumption /\ ProcessAssumption /\ AInv /\ ProcessTypeOK /\ Control /\ [Next]_vars
    => ProcessTypeOK' /\ Control'
<1> SUFFICES ASSUME ToolAssumption, ProcessAssumption, AInv, ProcessTypeOK, Control, [Next]_vars
             PROVE  ProcessTypeOK' /\ Control'
  OBVIOUS
<1>1. ProcessStep \/ UNCHANGED process
  <2>1. CASE Generate \/ HangUp
    BY <2>1 DEF Generate, HangUp, Collect, Pass, Continue, Start, Hold, EndOfText, ContinueEnds
  <2>2. CASE Router
    BY <2>2 DEF Router, Finish, TakeTrigger, CallTool, ToolReturns, Resume, ProcessStep
  <2>3. CASE Sandbox
    BY <2>3 DEF Sandbox, ProcessStep
  <2>4. CASE UNCHANGED vars
    BY <2>4 DEF vars
  <2> QED
    BY <2>1, <2>2, <2>3, <2>4 DEF Next
<1>2. Control'
  <2>1. CASE Generate
    <3>1. Legacy \in {Legacy, Dynamic}
      OBVIOUS
    <3> QED
      BY <2>1, <3>1, SayTyped, ContinueTyped, RestTyped DEF Generate
  <2>2. CASE Router \/ HangUp \/ Sandbox \/ UNCHANGED vars
    BY <2>2, RestTyped
  <2> QED
    BY <2>1, <2>2 DEF Next
<1> QED
  BY <1>1, <1>2, ProcessTyped

\* The variables of the loop and of the tool's process keep their types, for
\* any tokens and bounds; a capture is never empty and the text of the second
\* generation never longer than the window.
THEOREM TypeCorrect == Spec => []ToolTypeOK
<1>1. ToolAssumption /\ ProcessAssumption
  BY ToolAssumption, ProcessAssumption
<1>2. AInv /\ ProcessTypeOK /\ Control => ToolTypeOK
  BY DEF AInv, Texts, Control, ToolTypeOK
<1> QED
  BY <1>1, <1>2, InitAccounts, NextAccounts, InitTyped, NextTyped, PTL DEF Spec

-----------------------------------------------------------------------------
(* The triggers *)

\* A trigger is two symbols, one behind the other.
Here(trigger, text, i) == text[i] = trigger[1] /\ text[i + 1] = trigger[2]
Free(trigger, text) == \A i \in 1..(Len(text) - 1) : ~Here(trigger, text, i)

\* What is looked for in the first generation.
Wanted == {Legacy} \cup {t \in {Dynamic} : matched}

\* Nothing is held, and what was shown last is not the beginning of a trigger;
\* or that is held.
Waiting ==
  \/ /\ cache = <<>>
     /\ \A trigger \in Wanted : shown = <<>> \/ shown[Len(shown)] # trigger[1]
  \/ cache = <<"<">> \/ cache = <<"use">>

\* What the second generation looks back to is the end of what it has shown.
Echo == shown = <<>> \/ (acc # <<>> /\ acc[Len(acc)] = shown[Len(shown)])

Clean ==
  ~masked => /\ Free(Legacy, shown)
             /\ matched /\ tool = "none" => Free(Dynamic, shown)

FirstGeneration ==
  /\ ~capture => Waiting
  /\ capture /\ tool = "none" => ~Complete(json)

CaughtInv ==
  /\ Clean
  /\ pc \in {"generate", "after"} => FirstGeneration
  /\ pc = "generate" => tool = "none"
  /\ pc \in {"tool", "resume", "continue"} => tool # "none" /\ Echo
  /\ NeverMissed

LEMMA Pairs ==
  /\ Legacy[1] = "<" /\ Legacy[2] = "TRIGGER:" /\ Len(Legacy) = 2
  /\ Dynamic[1] = "use" /\ Dynamic[2] = "extension" /\ Len(Dynamic) = 2
  /\ Legacy \in Seq(Symbol) /\ Dynamic \in Seq(Symbol)
BY DEF Legacy, Dynamic, Symbol

\* Where a trigger occurs.
LEMMA PlacesOf ==
  ASSUME NEW trigger \in {Legacy, Dynamic}, NEW text \in Seq(Symbol)
  PROVE  Places(trigger, text) = {i \in 1..(Len(text) - 1) : Here(trigger, text, i)}
<1>1. Len(trigger) = 2 /\ trigger \in Seq(Symbol) /\ Len(text) \in Nat
  BY Pairs
<1>2. ASSUME NEW i \in 1..Len(text)
      PROVE  IsPrefix(trigger, SubSeq(text, i, Len(text)))
               <=> i \in 1..(Len(text) - 1) /\ Here(trigger, text, i)
  <2> DEFINE rest == SubSeq(text, i, Len(text))
  <2>1. /\ rest \in Seq(Symbol) /\ Len(rest) = Len(text) - i + 1
        /\ \A j \in 1..Len(rest) : rest[j] = text[i + j - 1]
    BY <1>1
  <2> HIDE DEF rest
  <2>2. 2 <= Len(rest) <=> i \in 1..(Len(text) - 1)
    BY <1>1, <2>1
  <2>3. ASSUME 2 <= Len(rest)
        PROVE  SubSeq(trigger, 1, 2) = SubSeq(rest, 1, 2) <=> Here(trigger, text, i)
    <3>1. SubSeq(trigger, 1, 2) = trigger
      BY <1>1, SubSeqFull
    <3>2. /\ SubSeq(rest, 1, 2) \in Seq(Symbol) /\ Len(SubSeq(rest, 1, 2)) = 2
          /\ SubSeq(rest, 1, 2)[1] = rest[1] /\ SubSeq(rest, 1, 2)[2] = rest[2]
      BY <2>1, <2>3
    <3>3. rest[1] = text[i] /\ rest[2] = text[i + 1]
      BY <1>1, <2>1, <2>3
    <3>4. trigger = SubSeq(rest, 1, 2) <=> trigger[1] = rest[1] /\ trigger[2] = rest[2]
      BY <1>1, <3>2, SeqEqual
    <3> QED
      BY <3>1, <3>3, <3>4 DEF Here
  <2> QED
    BY <1>1, <2>2, <2>3 DEF IsPrefix, rest
<1> QED
  BY <1>1, <1>2 DEF Places

LEMMA FreeOf ==
  ASSUME NEW trigger \in {Legacy, Dynamic}, NEW text \in Seq(Symbol)
  PROVE  Free(trigger, text) <=> ~Occurs(trigger, text)
BY PlacesOf DEF Free, Occurs

\* The first place is a place and none comes before it.
LEMMA FirstOf ==
  ASSUME NEW trigger \in {Legacy, Dynamic}, NEW text \in Seq(Symbol), Occurs(trigger, text)
  PROVE  /\ First(trigger, text) \in Places(trigger, text)
         /\ \A j \in Places(trigger, text) : First(trigger, text) <= j
<1>1. /\ Places(trigger, text) \subseteq Nat
      /\ Places(trigger, text) # {}
  BY DEF Places, Occurs
<1>2. PICK x \in Places(trigger, text) :
        \A y \in Places(trigger, text) : <<y, x>> \notin OpToRel(<, Nat)
  BY <1>1, WFMin, NatLessThanWellFounded
<1>3. \A y \in Places(trigger, text) : ~(y < x)
  BY <1>1, <1>2 DEF OpToRel
<1>4. \A y \in Places(trigger, text) : x <= y
  BY <1>1, <1>3
<1> QED
  BY <1>4 DEF First

\* Two texts that are free of a trigger make up one unless it is put together
\* where they meet.
LEMMA Joined ==
  ASSUME NEW trigger \in {Legacy, Dynamic}, NEW s \in Seq(Symbol), NEW t \in Seq(Symbol),
         Free(trigger, s), Free(trigger, t),
         s = <<>> \/ t = <<>> \/ s[Len(s)] # trigger[1] \/ t[1] # trigger[2]
  PROVE  Free(trigger, s \o t)
<1>1. Len(s) \in Nat /\ Len(t) \in Nat /\ Len(s \o t) = Len(s) + Len(t)
  OBVIOUS
<1>2. \A i \in 1..Len(s) : (s \o t)[i] = s[i]
  OBVIOUS
<1>3. \A i \in Len(s) + 1..Len(s) + Len(t) : (s \o t)[i] = t[i - Len(s)]
  OBVIOUS
<1>4. SUFFICES ASSUME NEW i \in 1..(Len(s \o t) - 1), Here(trigger, s \o t, i) PROVE FALSE
  BY DEF Free
<1>5. CASE i + 1 <= Len(s)
  BY <1>1, <1>2, <1>4, <1>5 DEF Free, Here
<1>6. CASE i > Len(s)
  <2>1. i - Len(s) \in 1..(Len(t) - 1) /\ (i + 1) - Len(s) = (i - Len(s)) + 1
    BY <1>1, <1>6
  <2>2. Here(trigger, t, i - Len(s))
    BY <1>1, <1>3, <1>4, <1>6, <2>1 DEF Here
  <2> QED
    BY <2>1, <2>2 DEF Free
<1>7. CASE i = Len(s)
  <2>1. s # <<>> /\ t # <<>>
    BY <1>1, <1>7
  <2>2. (s \o t)[i] = s[Len(s)] /\ (s \o t)[i + 1] = t[1]
    BY <1>1, <1>2, <1>3, <1>7
  <2> QED
    BY <1>4, <2>1, <2>2 DEF Here
<1> QED
  BY <1>1, <1>5, <1>6, <1>7

\* A beginning of a text is free of what it is free of.
LEMMA FreeFront ==
  ASSUME NEW trigger \in {Legacy, Dynamic}, NEW text \in Seq(Symbol), NEW k \in 0..Len(text),
         \A i \in 1..(k - 1) : ~Here(trigger, text, i)
  PROVE  Free(trigger, SubSeq(text, 1, k)) /\ SubSeq(text, 1, k) \in Seq(Symbol)
<1>1. /\ SubSeq(text, 1, k) \in Seq(Symbol) /\ Len(SubSeq(text, 1, k)) = k
      /\ \A i \in 1..k : SubSeq(text, 1, k)[i] = text[i]
  OBVIOUS
<1> QED
  BY <1>1 DEF Free, Here

LEMMA FrontBegins ==
  ASSUME NEW text \in Seq(Symbol), NEW k \in 0..Len(text), SubSeq(text, 1, k) # <<>>
  PROVE  SubSeq(text, 1, k)[1] = text[1]
<1>1. /\ SubSeq(text, 1, k) \in Seq(Symbol) /\ Len(SubSeq(text, 1, k)) = k
      /\ \A i \in 1..k : SubSeq(text, 1, k)[i] = text[i]
  OBVIOUS
<1>2. k # 0
  BY <1>1
<1> QED
  BY <1>1, <1>2

LEMMA JoinedEnds ==
  ASSUME NEW s \in Seq(Symbol), NEW t \in Seq(Symbol), Len(t) >= 1
  PROVE  (s \o t)[Len(s \o t)] = t[Len(t)] /\ s \o t # <<>>
<1>1. Len(s) \in Nat /\ Len(t) \in Nat /\ Len(s \o t) = Len(s) + Len(t) /\ s \o t \in Seq(Symbol)
  OBVIOUS
<1>2. \A i \in Len(s) + 1..Len(s) + Len(t) : (s \o t)[i] = t[i - Len(s)]
  OBVIOUS
<1>3. Len(s \o t) \in Len(s) + 1..Len(s) + Len(t) /\ Len(s \o t) - Len(s) = Len(t)
  BY <1>1
<1>4. s \o t # <<>>
  BY <1>1
<1> QED
  BY <1>2, <1>3, <1>4

\* The rest of a text from a place on.
LEMMA FreeRest ==
  ASSUME NEW trigger \in {Legacy, Dynamic}, NEW s \in Seq(Symbol), NEW t \in Seq(Symbol),
         Free(trigger, s \o t)
  PROVE  Free(trigger, t)
<1>1. Len(s) \in Nat /\ Len(t) \in Nat /\ Len(s \o t) = Len(s) + Len(t)
  OBVIOUS
<1>2. \A i \in 1..Len(t) : (s \o t)[Len(s) + i] = t[i]
  OBVIOUS
<1>3. SUFFICES ASSUME NEW i \in 1..(Len(t) - 1), Here(trigger, t, i) PROVE FALSE
  BY DEF Free
<1>4. Len(s) + i \in 1..(Len(s \o t) - 1) /\ (Len(s) + i) + 1 = Len(s) + (i + 1)
  BY <1>1
<1>5. Here(trigger, s \o t, Len(s) + i)
  BY <1>1, <1>2, <1>3, <1>4 DEF Here
<1> QED
  BY <1>4, <1>5 DEF Free

\* A token has one symbol or two.
LEMMA TokenShape ==
  ASSUME ToolAssumption, NEW token \in Token
  PROVE  token \in Seq(Symbol) /\ Len(token) \in 1..2
<1>1. token \in {<<a>> : a \in Symbol} \/ token \in {<<a, b>> : a, b \in Symbol}
  BY DEF ToolAssumption
<1>2. CASE token \in {<<a>> : a \in Symbol}
  BY <1>2
<1>3. CASE token \in {<<a, b>> : a, b \in Symbol}
  <2>1. PICK a \in Symbol, b \in Symbol : token = <<a, b>>
    BY <1>3
  <2> QED
    BY <2>1
<1> QED
  BY <1>1, <1>2, <1>3

\* What has come together when a token is looked at.
LEMMA TextShape ==
  ASSUME ToolAssumption, Texts, Waiting, NEW token \in Token
  PROVE  /\ cache \o token \in Seq(Symbol)
         /\ Len(cache \o token) \in 1..3
         /\ cache # <<>> => (cache \o token)[1] = cache[1]
<1>1. token \in Seq(Symbol) /\ Len(token) \in 1..2 /\ cache \in Seq(Symbol)
  BY TokenShape DEF Texts
<1>2. Len(cache) \in 0..1
  BY DEF Waiting
<1>3. Len(cache \o token) = Len(cache) + Len(token) /\ cache \o token \in Seq(Symbol)
  BY <1>1
<1>4. cache # <<>> => (cache \o token)[1] = cache[1]
  BY <1>1
<1>5. Len(cache \o token) \in 1..3
  <2> DEFINE c == Len(cache)
             n == Len(token)
  <2>1. c \in 0..1 /\ n \in 1..2 /\ Len(cache \o token) = c + n
    BY <1>1, <1>2, <1>3
  <2> HIDE DEF c, n
  <2> QED
    BY <2>1
<1> QED
  BY <1>3, <1>4, <1>5

\* A part of it, from its beginning, puts no trigger together with what was
\* shown.
LEMMA Grown ==
  ASSUME Texts, Waiting, NEW trigger \in Wanted, Free(trigger, shown),
         NEW piece \in Seq(Symbol), Free(trigger, piece),
         cache # <<>> /\ piece # <<>> => piece[1] = cache[1]
  PROVE  Free(trigger, shown \o piece)
<1>1. trigger \in {Legacy, Dynamic} /\ shown \in Seq(Symbol)
  BY DEF Wanted, Texts
<1>2. trigger[2] \notin {"<", "use"}
  BY <1>1, Pairs
<1>3. shown = <<>> \/ piece = <<>> \/ shown[Len(shown)] # trigger[1] \/ piece[1] # trigger[2]
  <2>1. CASE cache = <<>> /\ (shown = <<>> \/ shown[Len(shown)] # trigger[1])
    BY <2>1
  <2>2. CASE cache = <<"<">> \/ cache = <<"use">>
    <3>1. cache[1] \in {"<", "use"}
      BY <2>2
    <3>2. Len(cache) = 1
      BY <2>2
    <3>3. cache \in Seq(Symbol)
      BY DEF Texts
    <3>4. cache # <<>>
      BY <3>2, <3>3, EmptySeq
    <3> QED
      BY <1>2, <3>1, <3>4
  <2> QED
    BY <2>1, <2>2 DEF Waiting
<1> QED
  BY <1>1, <1>3, Joined

\* What is sought is what is wanted; what is wanted of the dynamic trigger is
\* looked for first.
LEMMA WantedOf ==
  /\ Legacy \in Wanted /\ Wanted \subseteq {Legacy, Dynamic}
  /\ matched => Dynamic \in Wanted
  /\ Dynamic \in Wanted => matched
  /\ Legacy # Dynamic
<1>1. Legacy # Dynamic
  BY Pairs
<1> QED
  BY <1>1 DEF Wanted

LEMMA PassCaught ==
  ASSUME ToolAssumption, AInv, CaughtInv, matched \in BOOLEAN, NEW token \in Token, Pass(token)
  PROVE  CaughtInv'
<1> DEFINE text == cache \o token
<1>1. /\ pc = "generate" /\ ~capture /\ Waiting /\ Texts /\ tool = "none"
      /\ shown' = shown \o text /\ cache' = <<>>
      /\ pc' \in {"generate", "after"}
      /\ UNCHANGED <<matched, capture, tool, masked>>
  BY DEF Pass, Say, CaughtInv, FirstGeneration, AInv
<1>2. /\ text \in Seq(Symbol) /\ Len(text) \in 1..3
      /\ cache # <<>> => text[1] = cache[1]
      /\ shown \in Seq(Symbol)
  BY <1>1, TextShape DEF Texts
<1>3. \A trigger \in Wanted : ~Occurs(trigger, text) /\ ~Begins(trigger, text)
  <2>1. matched => ~Occurs(Dynamic, text) /\ ~Begins(Dynamic, text)
    BY DEF Pass, Sought
  <2>2. ~Occurs(Legacy, text) /\ ~Begins(Legacy, text)
    BY <2>1 DEF Pass, Sought
  <2> QED
    BY <2>1, <2>2, WantedOf
<1>4. ASSUME NEW trigger \in Wanted PROVE /\ Free(trigger, shown) => Free(trigger, shown')
                                          /\ shown'[Len(shown')] # trigger[1]
  <2>1. Free(trigger, text)
    BY <1>2, <1>3, FreeOf, WantedOf
  <2>2. Free(trigger, shown) => Free(trigger, shown \o text)
    <3> HIDE DEF text
    <3> QED
      BY <1>1, <1>2, <2>1, Grown
  <2>3. text[Len(text)] # trigger[1]
    BY <1>2, <1>3 DEF Begins
  <2>4. (shown \o text)[Len(shown \o text)] = text[Len(text)]
    <3>1. text \in Seq(Symbol) /\ Len(text) \in 1..3 /\ shown \in Seq(Symbol)
      BY <1>2
    <3> HIDE DEF text
    <3>2. Len(text) >= 1
      BY <3>1
    <3> QED
      BY <3>1, <3>2, JoinedEnds
  <2> QED
    BY <1>1, <2>2, <2>3, <2>4
<1>5. Clean'
  BY <1>1, <1>4, WantedOf DEF CaughtInv, Clean
<1>6. FirstGeneration'
  BY <1>1, <1>4 DEF FirstGeneration, Waiting, Wanted
<1> QED
  BY <1>1, <1>5, <1>6 DEF CaughtInv, NeverMissed

LEMMA HoldCaught ==
  ASSUME ToolAssumption, AInv, CaughtInv, matched \in BOOLEAN, NEW token \in Token,
         NEW trigger \in {Legacy, Dynamic}, Hold(trigger, token)
  PROVE  CaughtInv'
<1> DEFINE text == cache \o token
           front == SubSeq(text, 1, Len(text) - 1)
<1>1. /\ pc = "generate" /\ ~capture /\ Waiting /\ Texts /\ tool = "none"
      /\ shown' = shown \o front /\ cache' = <<text[Len(text)]>>
      /\ UNCHANGED <<pc, matched, capture, tool>>
      /\ Sought(trigger, text) /\ ~Occurs(trigger, text) /\ Begins(trigger, text)
      /\ masked' = (masked \/ (trigger = Dynamic /\ Occurs(Legacy, text)))
  BY DEF Hold, Say, CaughtInv, FirstGeneration, AInv, Front, Beginning
<1>2. /\ text \in Seq(Symbol) /\ Len(text) \in 1..3
      /\ cache # <<>> => text[1] = cache[1]
      /\ shown \in Seq(Symbol)
  BY <1>1, TextShape DEF Texts
<1>3. cache' = <<"<">> \/ cache' = <<"use">>
  BY <1>1, Pairs DEF Begins
<1>4. \A t \in Wanted : ~masked' => ~Occurs(t, text)
  <2>1. trigger = Dynamic => matched
    BY <1>1, WantedOf DEF Sought
  <2>2. trigger = Legacy => (matched => ~Occurs(Dynamic, text))
    BY <1>1, WantedOf DEF Sought
  <2> QED
    BY <1>1, <2>1, <2>2, WantedOf
<1>5. ASSUME NEW t \in Wanted, Free(t, shown), ~Occurs(t, text) PROVE Free(t, shown')
  <2>1. t \in {Legacy, Dynamic}
    BY WantedOf
  <2>2. Free(t, text)
    BY <1>2, <1>5, <2>1, FreeOf
  <2>3. text \in Seq(Symbol) /\ Len(text) \in 1..3
    BY <1>2
  <2> HIDE DEF text
  <2>4. Len(text) - 1 \in 0..Len(text)
    BY <2>3
  <2>5. Free(t, front) /\ front \in Seq(Symbol)
    <3>1. \A i \in 1..(Len(text) - 1 - 1) : ~Here(t, text, i)
      BY <2>2, <2>3 DEF Free
    <3> QED
      BY <2>1, <2>3, <2>4, <3>1, FreeFront
  <2>6. front # <<>> => front[1] = text[1]
    BY <2>3, <2>4, FrontBegins
  <2> HIDE DEF front
  <2> QED
    BY <1>1, <1>2, <1>5, <2>5, <2>6, Grown
<1>6. Clean'
  BY <1>1, <1>4, <1>5, WantedOf DEF CaughtInv, Clean
<1>7. FirstGeneration'
  BY <1>1, <1>3 DEF FirstGeneration, Waiting
<1> QED
  BY <1>1, <1>6, <1>7 DEF CaughtInv, NeverMissed

LEMMA StartCaught ==
  ASSUME ToolAssumption, AInv, CaughtInv, matched \in BOOLEAN, NEW token \in Token,
         NEW trigger \in {Legacy, Dynamic}, Start(trigger, token)
  PROVE  CaughtInv'
<1> DEFINE text == cache \o token
           k == First(trigger, text)
           piece == SubSeq(text, 1, k - 1)
<1>1. /\ pc = "generate" /\ ~capture /\ Waiting /\ Texts /\ tool = "none"
      /\ Sought(trigger, text) /\ Occurs(trigger, text)
      /\ shown' = shown \o piece
      /\ Captured(SubSeq(text, k, Len(text)))
      /\ UNCHANGED <<matched, masked>>
  BY DEF Start, Say, CaughtInv, FirstGeneration, AInv
<1>2. /\ text \in Seq(Symbol) /\ Len(text) \in 1..3
      /\ cache # <<>> => text[1] = cache[1]
      /\ shown \in Seq(Symbol)
  BY <1>1, TextShape DEF Texts
<1>3. /\ k \in 1..(Len(text) - 1)
      /\ Here(trigger, text, k)
      /\ \A j \in 1..(Len(text) - 1) : Here(trigger, text, j) => k <= j
  <2> HIDE DEF text
  <2>1. k \in Places(trigger, text) /\ \A j \in Places(trigger, text) : k <= j
    BY <1>1, <1>2, FirstOf
  <2>2. Places(trigger, text) = {j \in 1..(Len(text) - 1) : Here(trigger, text, j)}
    BY <1>2, PlacesOf
  <2> HIDE DEF k
  <2> QED
    BY <2>1, <2>2
<1>4. ASSUME NEW t \in Wanted, NEW j \in 1..(k - 1 - 1) PROVE ~Here(t, text, j)
  <2>1. CASE t = trigger
    BY <1>2, <1>3, <1>4, <2>1
  <2>2. CASE t # trigger /\ trigger = Dynamic
    \* There is room for one symbol only.
    BY <1>2, <1>3, <1>4, <2>2
  <2>3. CASE t # trigger /\ trigger = Legacy
    <3>1. t = Dynamic /\ ~Occurs(Dynamic, text)
      BY <1>1, <2>3, WantedOf DEF Sought
    <3>2. Free(Dynamic, text)
      BY <1>2, <3>1, FreeOf
    <3> QED
      BY <1>2, <1>3, <3>1, <3>2 DEF Free
  <2> QED
    BY <2>1, <2>2, <2>3
<1>5. ASSUME NEW t \in Wanted, Free(t, shown) PROVE Free(t, shown')
  <2>1. t \in {Legacy, Dynamic}
    BY WantedOf
  <2> HIDE DEF text, k
  <2>2. Free(t, piece) /\ piece \in Seq(Symbol)
    <3>1. k - 1 \in 0..Len(text)
      BY <1>2, <1>3
    <3> QED
      BY <1>2, <1>4, <2>1, <3>1, FreeFront
  <2>3. piece # <<>> => piece[1] = text[1]
    <3>1. k - 1 \in 0..Len(text)
      BY <1>2, <1>3
    <3> QED
      BY <1>2, <3>1, FrontBegins
  <2> HIDE DEF piece
  <2> QED
    BY <1>1, <1>2, <1>5, <2>2, <2>3, Grown
<1>6. Clean'
  BY <1>1, <1>5, WantedOf DEF CaughtInv, Clean
<1>7. /\ capture' = TRUE
      /\ pc' \in {"generate", "after", "aborted"}
      /\ pc' = "generate" => tool' = "none"
      /\ tool' = "none" /\ pc' \in {"generate", "after"} => ~Complete(json')
  BY <1>1 DEF Captured
<1>8. pc' \in {"generate", "after"} => FirstGeneration'
  BY <1>7 DEF FirstGeneration
<1> QED
  BY <1>6, <1>7, <1>8 DEF CaughtInv, NeverMissed

LEMMA CollectCaught ==
  ASSUME CaughtInv, NEW token \in Token, Collect(token)
  PROVE  CaughtInv'
<1>1. /\ pc = "generate" /\ tool = "none"
      /\ UNCHANGED <<matched, masked, shown>>
      /\ Captured(json \o token)
  BY DEF Collect, Say, CaughtInv
<1>2. /\ capture' = TRUE
      /\ pc' \in {"generate", "after", "aborted"}
      /\ pc' = "generate" => tool' = "none"
      /\ tool' = "none" /\ pc' \in {"generate", "after"} => ~Complete(json')
  BY <1>1 DEF Captured
<1>3. Clean'
  BY <1>1 DEF CaughtInv, Clean
<1>4. pc' \in {"generate", "after"} => FirstGeneration'
  BY <1>2 DEF FirstGeneration
<1> QED
  BY <1>2, <1>3, <1>4 DEF CaughtInv, NeverMissed

\* The last place is a place and none comes behind it; there is one such.
LEMMA LastOf ==
  ASSUME NEW trigger \in {Legacy, Dynamic}, NEW text \in Seq(Symbol), Occurs(trigger, text)
  PROVE  /\ Last2(trigger, text) \in Places(trigger, text)
         /\ \A j \in Places(trigger, text) : j <= Last2(trigger, text)
<1> DEFINE back == {Len(text) - i : i \in Places(trigger, text)}
<1>1. /\ Places(trigger, text) \subseteq 1..Len(text)
      /\ Places(trigger, text) # {}
      /\ Len(text) \in Nat
  BY DEF Places, Occurs
<1>2. back \subseteq Nat /\ back # {}
  BY <1>1
<1>3. PICK x \in back : \A y \in back : <<y, x>> \notin OpToRel(<, Nat)
  <2> HIDE DEF back
  <2> QED
    BY <1>2, WFMin, NatLessThanWellFounded
<1>4. \A y \in back : ~(y < x)
  BY <1>2, <1>3 DEF OpToRel
<1>5. PICK i \in Places(trigger, text) : x = Len(text) - i
  BY <1>3
<1>6. \A j \in Places(trigger, text) : j <= i
  <2> SUFFICES ASSUME NEW j \in Places(trigger, text) PROVE j <= i
    OBVIOUS
  <2>1. ~(Len(text) - j < Len(text) - i)
    BY <1>4, <1>5
  <2> QED
    BY <1>1, <2>1
<1> QED
  BY <1>6 DEF Last2

\* The second generation looks for a trigger in the end of what it has shown,
\* with the token: so a token completes none with what was shown before it.
LEMMA ContinueCaught ==
  ASSUME ToolAssumption, AInv, CaughtInv, acc \in Seq(Symbol), NEW token \in Token, Continue(token)
  PROVE  CaughtInv'
<1> DEFINE text == acc \o token
<1>1. /\ pc = "continue" /\ tool # "none" /\ Echo /\ Clean
      /\ UNCHANGED <<matched, masked, tool, capture, json>>
  BY DEF Continue, CaughtInv, interceptor
<1>2. \/ pc' \in {"done", "aborted"} /\ UNCHANGED shown
      \/ /\ ~Occurs(Legacy, text)
         /\ acc' = Recent(text)
         /\ shown' = shown \o token
         /\ pc' \in {"continue", "done"}
  BY <1>1 DEF Continue
<1>3. CASE pc' \in {"done", "aborted"} /\ UNCHANGED shown
  BY <1>1, <1>3 DEF CaughtInv, Clean, NeverMissed
<1>4. CASE /\ ~Occurs(Legacy, text)
           /\ acc' = Recent(text)
           /\ shown' = shown \o token
           /\ pc' \in {"continue", "done"}
  <2>1. /\ token \in Seq(Symbol) /\ Len(token) >= 1 /\ acc \in Seq(Symbol)
        /\ shown \in Seq(Symbol)
    <3>1. token \in Seq(Symbol) /\ Len(token) \in 1..2
      BY TokenShape
    <3>2. acc \in Seq(Symbol) /\ shown \in Seq(Symbol)
      BY DEF AInv, Texts
    <3>3. Len(token) >= 1
      BY <3>1
    <3> QED
      BY <3>1, <3>2, <3>3
  <2>2. text \in Seq(Symbol) /\ Len(text) = Len(acc) + Len(token) /\ Len(text) >= 1
    BY <2>1
  <2>3. Free(Legacy, text)
    BY <1>4, <2>2, FreeOf
  <2>4. Free(Legacy, token)
    BY <2>1, <2>3, FreeRest
  <2>5. shown = <<>> \/ shown[Len(shown)] # Legacy[1] \/ token[1] # Legacy[2]
    <3> SUFFICES ASSUME shown # <<>>, shown[Len(shown)] = Legacy[1], token[1] = Legacy[2]
                 PROVE  FALSE
      OBVIOUS
    <3>1. acc # <<>> /\ acc[Len(acc)] = Legacy[1]
      BY <1>1 DEF Echo
    <3>2. Len(acc) \in 1..(Len(text) - 1)
      BY <2>1, <2>2, <3>1
    <3>3. text[Len(acc)] = acc[Len(acc)] /\ text[Len(acc) + 1] = token[1]
      BY <2>1, <2>2, <3>2
    <3> HIDE DEF text
    <3>4. Here(Legacy, text, Len(acc))
      BY <3>1, <3>3 DEF Here
    <3> QED
      BY <2>3, <3>2, <3>4 DEF Free
  <2>6. Free(Legacy, shown) => Free(Legacy, shown')
    BY <1>4, <2>1, <2>4, <2>5, Joined
  <2>7. Clean'
    BY <1>1, <2>6 DEF Clean
  <2>8. acc' # <<>> /\ acc'[Len(acc')] = text[Len(text)]
    <3> HIDE DEF text
    <3>1. CASE Len(text) > Window
      <4> DEFINE from == Len(text) - Keep + 1
      <4>1. Keep \in Nat /\ Keep >= 1 /\ Keep <= Len(text) /\ Len(text) \in Nat
        BY <2>2, <3>1 DEF ToolAssumption
      <4>2. from \in 1..Len(text) /\ Len(text) - from + 1 = Keep /\ from + Keep - 1 = Len(text)
        BY <4>1
      <4>3. acc' = SubSeq(text, from, Len(text))
        BY <1>4, <3>1 DEF Recent
      <4> HIDE DEF from
      <4>4. /\ Len(acc') = Len(text) - from + 1
            /\ \A i \in 1..Len(text) - from + 1 : acc'[i] = text[from + i - 1]
        BY <2>2, <4>2, <4>3
      <4>5. Len(acc') = Keep /\ acc'[Keep] = text[from + Keep - 1]
        BY <4>1, <4>2, <4>4
      <4>6. Len(<<>>) = 0
        BY EmptySeq
      <4> QED
        BY <4>1, <4>2, <4>5, <4>6
    <3>2. CASE ~(Len(text) > Window)
      <4>1. acc' = text
        BY <1>4, <3>2 DEF Recent
      <4> QED
        BY <2>2, <4>1
    <3> QED
      BY <3>1, <3>2
  <2>9. text[Len(text)] = token[Len(token)] /\ shown'[Len(shown')] = token[Len(token)]
    BY <1>4, <2>1, JoinedEnds
  <2>10. Echo'
    BY <2>8, <2>9 DEF Echo
  <2> QED
    BY <1>1, <1>4, <2>7, <2>10 DEF CaughtInv, NeverMissed
<1> QED
  BY <1>2, <1>3, <1>4

\* The second generation begins with empty buffers.
LEMMA TakeCaught ==
  ASSUME CaughtInv, TakeTrigger
  PROVE  CaughtInv'
<1>1. /\ shown' = <<>> /\ pc' = "tool" /\ tool' # "none"
      /\ UNCHANGED <<matched, masked>>
  BY DEF TakeTrigger
<1>2. \A trigger \in {Legacy, Dynamic} : Free(trigger, <<>>)
  BY DEF Free
<1>3. Clean' /\ Echo'
  BY <1>1, <1>2 DEF Clean, Echo
<1> QED
  BY <1>1, <1>3 DEF CaughtInv, NeverMissed

\* What the request ends with holds no trigger that should have been taken: one
\* that is shown would have been cut off, and one that is held would have been
\* complete, or would be taken at the end of the text.
LEMMA FinishCaught ==
  ASSUME AInv, CaughtInv, Finish
  PROVE  CaughtInv'
<1>1. /\ pc = "after" /\ pc' = "done" /\ Fallback = "none"
      /\ UNCHANGED <<said, shown, cache, json, capture, matched, masked, tool>>
  BY DEF Finish, stream, interceptor
<1>2. tool = "none"
  BY <1>1 DEF Fallback
<1>3. Clean /\ FirstGeneration /\ said = shown \o Held
  BY <1>1 DEF CaughtInv, AInv, Accounted
<1>4. shown \in Seq(Symbol) /\ cache \in Seq(Symbol) /\ json \in Seq(Symbol)
  BY DEF AInv, Texts
<1>5. Clean'
  BY <1>1, <1>3 DEF Clean
<1>6. ASSUME ~masked, ~(capture /\ ~IsLegacy(json))
      PROVE  ~ClosedTrigger(said) /\ ~OpenTrigger(said)
  <2>1. Free(Legacy, shown)
    BY <1>3, <1>6 DEF Clean
  <2>2. CASE ~capture
    <3>1. Waiting /\ said = shown \o cache
      BY <1>3, <2>2 DEF FirstGeneration, Held
    <3>2. Free(Legacy, cache)
      BY <3>1 DEF Waiting, Free
    <3>3. Free(Legacy, shown \o cache)
      BY <1>4, <2>1, <3>1, <3>2, Grown, WantedOf DEF AInv
    <3>4. shown \o cache \in Seq(Symbol)
      BY <1>4
    <3>5. ~Occurs(Legacy, said)
      BY <3>1, <3>3, <3>4, FreeOf
    <3> QED
      BY <3>5 DEF ClosedTrigger, OpenTrigger, Occurs
  <2>3. CASE capture
    <3> DEFINE n == Len(shown)
               m == Len(json)
    <3>1. said = shown \o json /\ IsLegacy(json)
      BY <1>3, <1>6, <2>3 DEF Held
    <3>2. ~Has(json, "</TRIGGER>")
      BY <1>2, <1>3, <2>3, <3>1 DEF FirstGeneration, Complete
    <3>3. /\ n \in Nat /\ m \in Nat /\ Len(said) = n + m /\ said \in Seq(Symbol)
          /\ \A i \in 1..n : said[i] = shown[i]
          /\ \A i \in 1..m : said[n + i] = json[i]
      BY <1>4, <3>1
    <3>4. 1 \in Places(Legacy, json)
      <4>1. SubSeq(json, 1, m) = json
        BY <1>4, SubSeqFull
      <4>2. IsPrefix(Legacy, json)
        BY <3>1 DEF IsLegacy
      <4>3. m >= 1
        BY <1>4, <4>2, Pairs DEF IsPrefix
      <4>4. IsPrefix(Legacy, SubSeq(json, 1, Len(json)))
        BY <4>1, <4>2
      <4>5. 1 \in 1..Len(json)
        BY <1>4, <4>3
      <4> QED
        BY <4>4, <4>5 DEF Places
    <3>5. /\ Places(Legacy, said) = {i \in 1..(n + m - 1) : Here(Legacy, said, i)}
          /\ Places(Legacy, json) = {i \in 1..(m - 1) : Here(Legacy, json, i)}
      BY <1>4, <3>3, PlacesOf
    <3>6. \A i \in 1..(n - 1) : ~Here(Legacy, said, i)
      BY <2>1, <3>3 DEF Free, Here
    <3>7. \A j \in 1..(m - 1) : Here(Legacy, said, n + j) <=> Here(Legacy, json, j)
      <4> SUFFICES ASSUME NEW j \in 1..(m - 1)
                   PROVE  Here(Legacy, said, n + j) <=> Here(Legacy, json, j)
        OBVIOUS
      <4> HIDE DEF n, m
      <4>1. said[n + j] = json[j] /\ said[n + (j + 1)] = json[j + 1] /\ (n + j) + 1 = n + (j + 1)
        BY <3>3
      <4> QED
        BY <4>1 DEF Here
    <3>num. n \in Nat /\ m \in Nat
      BY <3>3
    <3> HIDE DEF n, m
    <3>8. ~ClosedTrigger(said)
      <4> SUFFICES ASSUME NEW i \in Places(Legacy, said), NEW j \in i+2..(n + m), NEW k \in j+1..(n + m),
                          said[k] = "</TRIGGER>"
                   PROVE  FALSE
        BY <3>3 DEF ClosedTrigger
      <4>1. i \in 1..(n + m - 1) /\ Here(Legacy, said, i)
        BY <3>5
      <4>2. CASE k > n
        <5>1. k - n \in 1..m /\ n + (k - n) = k
          BY <3>3, <4>1, <4>2
        <5>2. json[k - n] = "</TRIGGER>"
          BY <3>3, <5>1
        <5> QED
          BY <3>2, <5>1, <5>2 DEF Has, m
      <4>3. CASE ~(k > n)
        <5>1. i \in 1..(n - 1)
          BY <3>3, <4>1, <4>3
        <5> QED
          BY <3>6, <4>1, <5>1
      <4> QED
        BY <4>2, <4>3
    <3>9. ~OpenTrigger(said)
      <4>1. n + 1 \in Places(Legacy, said)
        <5>1. 1 \in 1..(m - 1) /\ Here(Legacy, json, 1)
          BY <3>4, <3>5
        <5>2. Here(Legacy, said, n + 1)
          BY <3>7, <5>1
        <5>3. n + 1 \in 1..(n + m - 1)
          BY <3>num, <5>1
        <5> QED
          BY <3>5, <5>2, <5>3
      <4>2. PICK last \in Places(Legacy, said) :
              last = Last2(Legacy, said) /\ \A i \in Places(Legacy, said) : i <= last
        <5>1. said \in Seq(Symbol) /\ Occurs(Legacy, said)
          BY <3>3, <4>1 DEF Occurs
        <5> QED
          BY <5>1, LastOf
      <4>3. last \in n+1..(n + m - 1) /\ Here(Legacy, said, last)
        <5>1. last \in 1..(n + m - 1) /\ Here(Legacy, said, last)
          BY <3>5, <4>2
        <5>2. n + 1 <= last
          BY <4>1, <4>2
        <5> QED
          BY <3>num, <5>1, <5>2
      <4>0. SUFFICES ASSUME NEW j \in last+2..(n + m), NEW k \in j+1..(n + m),
                                  said[j] = ">", said[k] = "}"
                           PROVE  FALSE
        BY <3>3, <4>2 DEF OpenTrigger
      <4>4. PICK l \in 1..(m - 1) : n + l = last
        BY <3>num, <4>3
      <4>5. l \in Places(Legacy, json)
        BY <3>5, <3>7, <4>3, <4>4
      <4>6. \A i \in Places(Legacy, json) : i <= l
        <5> SUFFICES ASSUME NEW i \in Places(Legacy, json) PROVE i <= l
          OBVIOUS
        <5>1. i \in 1..(m - 1) /\ Here(Legacy, said, n + i)
          BY <3>5, <3>7
        <5>2. n + i \in 1..(n + m - 1)
          BY <3>num, <5>1
        <5>3. n + i <= last
          BY <3>5, <4>2, <5>1, <5>2
        <5>4. i \in Nat /\ l \in Nat
          BY <4>4, <5>1
        <5>5. n + i <= n + l
          BY <4>4, <5>3
        <5> QED
          BY <3>num, <5>4, <5>5
      <4>7. Last2(Legacy, json) = l
        <5>1. Occurs(Legacy, json)
          BY <4>5 DEF Occurs
        <5>2. /\ Last2(Legacy, json) \in Places(Legacy, json)
              /\ \A i \in Places(Legacy, json) : i <= Last2(Legacy, json)
          BY <1>4, <5>1, LastOf
        <5>3. Last2(Legacy, json) <= l /\ l <= Last2(Legacy, json)
          BY <4>5, <4>6, <5>2
        <5>4. Last2(Legacy, json) \in 1..(m - 1)
          BY <3>5, <5>2
        <5> QED
          BY <4>4, <5>3, <5>4
      <4>8. Has(json, "}")
        <5>1. k - n \in 1..m /\ n + (k - n) = k
          BY <3>num, <4>3
        <5>2. json[k - n] = "}"
          BY <3>3, <4>0, <5>1
        <5> QED
          BY <5>1, <5>2 DEF Has, m
      <4>9. Angle(Actual(json))
        <5> DEFINE actual == SubSeq(json, l, m)
                   at == j - n - l + 1
        <5>1. j - n \in 1..m /\ n + (j - n) = j /\ at \in 1..(m - l + 1) /\ l + at - 1 = j - n
          BY <3>num, <4>3, <4>4
        <5>2. /\ Len(actual) = m - l + 1
              /\ \A i \in 1..(m - l + 1) : actual[i] = json[l + i - 1]
          <6>1. l \in 1..Len(json) + 1 /\ Len(json) \in l - 1..Len(json)
            BY <3>num, <4>4 DEF m
          <6> QED
            BY <1>4, <6>1 DEF m
        <5>3. json[j - n] = ">"
          BY <3>3, <4>0, <5>1
        <5> HIDE DEF actual, at
        <5>4. actual[at] = ">" /\ at \in 1..Len(actual)
          BY <5>1, <5>2, <5>3
        <5>5. Actual(json) = actual
          BY <4>7 DEF Actual, actual, m
        <5> QED
          BY <5>4, <5>5 DEF Angle, Has
      <4> QED
        BY <1>1, <2>3, <3>1, <4>8, <4>9 DEF Fallback
    <3> QED
      BY <3>8, <3>9
  <2> QED
    BY <2>2, <2>3
<1> QED
  BY <1>1, <1>5, <1>6 DEF CaughtInv, NeverMissed

LEMMA RestCaught ==
  ASSUME Control, CaughtInv,
         \/ EndOfText \/ ContinueEnds \/ CallTool \/ ToolReturns
         \/ Resume \/ HangUp \/ Sandbox \/ UNCHANGED vars
  PROVE  CaughtInv'
<1>1. UNCHANGED <<shown, said, cache, json, capture, tool, acc, masked, matched>>
  BY DEF EndOfText, ContinueEnds, CallTool, ToolReturns, Resume, HangUp, Sandbox, vars, stream, interceptor
<1>2. \/ pc' = pc
      \/ pc = "generate" /\ pc' = "after"
      \/ pc = "continue" /\ pc' = "done"
      \/ pc \in {"tool", "resume"} /\ pc' \in {"resume", "continue", "aborted"}
  BY DEF EndOfText, ContinueEnds, CallTool, ToolReturns, Resume, HangUp, Sandbox, vars
<1>3. Clean' /\ (FirstGeneration => FirstGeneration') /\ (Echo => Echo')
  BY <1>1 DEF CaughtInv, Clean, FirstGeneration, Waiting, Wanted, Echo
<1> QED
  BY <1>1, <1>2, <1>3 DEF CaughtInv, NeverMissed

LEMMA InitCaught == Init => CaughtInv
<1> SUFFICES ASSUME Init PROVE CaughtInv
  OBVIOUS
<1>1. /\ pc = "generate" /\ shown = <<>> /\ cache = <<>> /\ capture = FALSE /\ tool = "none"
  BY DEF Init
<1>2. \A trigger \in {Legacy, Dynamic} : Free(trigger, <<>>)
  BY DEF Free
<1> QED
  BY <1>1, <1>2 DEF CaughtInv, Clean, FirstGeneration, Waiting, NeverMissed

LEMMA NextCaught ==
  ToolAssumption /\ AInv /\ Control /\ CaughtInv /\ [Next]_vars => CaughtInv'
<1> SUFFICES ASSUME ToolAssumption, AInv, Control, CaughtInv, [Next]_vars PROVE CaughtInv'
  OBVIOUS
<1>1. matched \in BOOLEAN /\ acc \in Seq(Symbol)
  BY DEF Control
<1>2. CASE Generate
  BY <1>1, <1>2, CollectCaught, PassCaught, ContinueCaught, StartCaught, HoldCaught, RestCaught
  DEF Generate
<1>3. CASE Router
  BY <1>3, FinishCaught, TakeCaught, RestCaught DEF Router
<1>4. CASE HangUp \/ Sandbox \/ UNCHANGED vars
  BY <1>4, RestCaught
<1> QED
  BY <1>2, <1>3, <1>4 DEF Next

\* The interceptor shows no trigger, in neither generation, and a request does
\* not end with one that it should have taken, for any tokens of one or two
\* pieces, any number of them, and any window of the second generation.
THEOREM TriggersTaken == Spec => []TriggersCaught
<1>1. ToolAssumption /\ ProcessAssumption
  BY ToolAssumption, ProcessAssumption
<1>2. AInv /\ CaughtInv => TriggersCaught
  <2> SUFFICES ASSUME AInv, CaughtInv PROVE TriggersCaught
    OBVIOUS
  <2>1. shown \in Seq(Symbol)
    BY DEF AInv, Texts
  <2>2. \A trigger \in {Legacy, Dynamic} : Free(trigger, shown) <=> ~Occurs(trigger, shown)
    BY <2>1, FreeOf
  <2> QED
    BY <2>2 DEF CaughtInv, Clean, TriggersCaught, NeverShown
<1> QED
  BY <1>1, <1>2, InitAccounts, NextAccounts, InitTyped, NextTyped, InitCaught, NextCaught, PTL DEF Spec

-----------------------------------------------------------------------------
(* The directory of a model *)

\* The task has inode i open, or a write to it handed over.
Uses(t, i) == task[t].fd = i \/ \E w \in task[t].pending : w[1] = i

\* What a task has handed over is at most one chunk, that of the file it has
\* open, the one before next unless it is data.
Handle(d) ==
  /\ d.fd # None <=> d.pc \in {"stream", "rename"}
  /\ d.fd = None => d.next = 1 /\ ~d.broken
  /\ d.fd # None => d.pending \subseteq {<<d.fd, IF d.data THEN Foreign ELSE d.next - 1>>}
  /\ d.pc = "rename" => d.next = Chunks + 1
  /\ \A v, w \in d.pending : v = w

HandleInv ==
  /\ LibraryTypeOK
  /\ \A t \in Task : Handle(task[t])

Pc == {"idle", "look", "create", "stream", "rename", "extras", "manifest",
       "dna", "unlink", "rmdir"}

\* The four ways in which a step changes what its task is doing.
LEMMA Becomes ==
  ASSUME HandleInv, NEW t \in Task, NEW d \in Doing, Become(t, d), Handle(d)
  PROVE  task' \in [Task -> Doing] /\ \A u \in Task : Handle(task'[u])
BY DEF HandleInv, LibraryTypeOK, Become, Doing, Unit, File, Chunk

LEMMA Goes ==
  ASSUME HandleInv, NEW t \in Task, NEW place \in Pc, Goto(t, place),
         place \in {"stream", "rename"} <=> task[t].pc \in {"stream", "rename"},
         place = "rename" => task[t].next = Chunks + 1
  PROVE  task' \in [Task -> Doing] /\ \A u \in Task : Handle(task'[u])
<1> DEFINE d == [task[t] EXCEPT !.pc = place]
<1>1. d \in Doing /\ Handle(d)
  BY DEF HandleInv, LibraryTypeOK, Doing, Handle, Pc, Unit, File, Chunk
<1>2. Become(t, d)
  BY DEF Goto, Become, HandleInv, LibraryTypeOK, Doing, Unit, File, Chunk
<1> QED
  BY <1>1, <1>2, Becomes

LEMMA One == 1 \in 1..Chunks + 1 /\ 1 \in 1..Attempts
BY LibraryAssumption DEF Attempts

\* What a task does when it has nothing open.
LEMMA Shut ==
  ASSUME NEW d \in Doing, d.fd = None, d.next = 1, ~d.broken, d.pc \notin {"stream", "rename"},
         \A v, w \in d.pending : v = w
  PROVE  Handle(d)
BY DEF Handle

LEMMA Closes ==
  ASSUME HandleInv, NEW t \in Task, NEW place \in Pc \ {"stream", "rename"}
  PROVE  /\ Closed(t, place) \in Doing /\ Handle(Closed(t, place))
         /\ Done(t) \in Doing /\ Handle(Done(t))
<1>1. task[t] \in Doing /\ \A v, w \in task[t].pending : v = w
  BY DEF HandleInv, LibraryTypeOK, Handle
<1>2. Closed(t, place) \in Doing
  BY <1>1, One DEF Closed, Doing, Pc
<1>3. Handle(Closed(t, place))
  BY <1>1, <1>2, Shut DEF Closed, Doing
<1>4. task[t].pending \in SUBSET (Inode \X Content)
  BY <1>1 DEF Doing
<1>5. Done(t) \in Doing
  BY <1>4, One DEF Done, Idle, Doing
<1>6. Handle(Done(t))
  BY <1>1, <1>5, Shut DEF Done, Idle
<1> QED
  BY <1>2, <1>3, <1>5, <1>6

LEMMA Calls ==
  ASSUME HandleInv, NEW t \in Task, NEW d \in Doing, Call(t, d),
         d.fd = None, d.next = 1, ~d.broken, d.pc \notin {"stream", "rename"}
  PROVE  /\ task' \in [Task -> Doing] /\ \A u \in Task : Handle(task'[u])
         /\ calls' \in 0..MaxCalls[entry]
<1> DEFINE e == [d EXCEPT !.pending = task[t].pending]
<1>1. task[t] \in Doing /\ \A v, w \in task[t].pending : v = w
  BY DEF HandleInv, LibraryTypeOK, Handle
<1>2. task[t].pending \in SUBSET (Inode \X Content)
  BY <1>1 DEF Doing
<1>3. e \in Doing
  BY <1>2 DEF Doing
<1>4. e.fd = None /\ e.next = 1 /\ ~e.broken /\ e.pc \notin {"stream", "rename"}
      /\ e.pending = task[t].pending
  BY DEF Doing
<1>5. Handle(e)
  <2> HIDE DEF e
  <2> QED
    BY <1>1, <1>3, <1>4, Shut
<1>6. calls' \in 0..MaxCalls[entry]
  BY LibraryAssumption DEF Call, HandleInv, LibraryTypeOK, Doing, Unit, File, Chunk
<1> QED
  BY <1>3, <1>5, <1>6, Becomes DEF Call

\* Reclaim empties what nobody can reach and changes nothing else.
LEMMA Reclaims ==
  ASSUME NEW files \in [Inode -> File], Reclaim(files)
  PROVE  /\ file' \in [Inode -> File]
         /\ \A i \in Inode : file'[i] = files[i] \/ file'[i] = NewFile
         /\ \A i \in Inode : i = part' \/ i = weights' => file'[i] = files[i]
         /\ \A i \in Inode, t \in Task : Uses(t, i)' => file'[i] = files[i]
<1>1. NewFile \in File
  BY DEF NewFile, File
<1>2. \A i \in Inode : file'[i] = IF i \in Unused' THEN NewFile ELSE files[i]
  BY DEF Reclaim
<1>3. \A i \in Inode : i = part' \/ i = weights' => i \notin Unused'
  BY DEF Unused
<1>4. \A i \in Inode, t \in Task : Uses(t, i)' => i \notin Unused'
  BY DEF Unused, Users, Uses
<1>5. file' \in [Inode -> File]
  BY <1>1 DEF Reclaim
<1> QED
  BY <1>2, <1>3, <1>4, <1>5

\* The inode that File::create returns.
LEMMA Opens ==
  ASSUME HandleInv, NEW t \in Task, NEW old \in {part, weights}, NEW i \in Inode, Open(t, old, i)
  PROVE  \/ old = None /\ i # part /\ i # weights /\ \A u \in Task : ~Uses(u, i)
         \/ old # None /\ i = old
<1>1. CASE old = None
  <2>1. i \in Unused
    BY <1>1 DEF Open
  <2> QED
    BY <1>1, <2>1 DEF Unused, Users, Uses
<1> QED
  BY <1>1 DEF Open

LEMMA Faulted ==
  ASSUME LibraryTypeOK, Fault
  PROVE  faults' \in 0..MaxFaults /\ faults' # 0
BY LibraryAssumption DEF Fault, LibraryTypeOK, Doing, Unit, File, Chunk

LEMMA GivesUp ==
  ASSUME HandleInv, NEW t \in Task, GiveUp(t)
  PROVE  /\ task' \in [Task -> Doing] /\ \A u \in Task : Handle(task'[u])
         /\ file' \in [Inode -> File]
BY Closes, Becomes, Reclaims DEF GiveUp, HandleInv, LibraryTypeOK, Pc, Doing, Unit, File, Chunk

LEMMA CreateTyped ==
  ASSUME HandleInv, NEW t \in Task, UNCHANGED entry, Create(t)
  PROVE  HandleInv'
<1>1. PICK i \in Inode :
        IF task[t].inPlace
          THEN Open(t, weights, i) /\ weights' = i /\ UNCHANGED part
          ELSE Open(t, part, i) /\ part' = i /\ UNCHANGED weights
  BY DEF Create
<1> DEFINE d == [task[t] EXCEPT !.pc = "stream", !.fd = i]
<1>2. task' = [task EXCEPT ![t].pc = "stream", ![t].fd = i]
  BY <1>1 DEF Open
<1>3. Become(t, d)
  BY <1>2 DEF Become, HandleInv, LibraryTypeOK, Doing, Unit, File, Chunk
<1>4. d \in Doing /\ Handle(d)
  <2>1. task[t] \in Doing /\ task[t].fd = None /\ task[t].next = 1 /\ task[t].pending = {}
    BY DEF HandleInv, LibraryTypeOK, Handle, Create, At
  <2> QED
    BY <2>1, LibraryAssumption DEF Doing, Handle
<1>5. file' \in [Inode -> File]
  <2>1. PICK b \in BOOLEAN : file' = [file EXCEPT ![i] = [NewFile EXCEPT !.shared = b]]
    <3>1. (task[t].inPlace \/ Users(i) # {}) \in BOOLEAN
      OBVIOUS
    <3> QED
      BY <1>1, <3>1 DEF Open
  <2>2. [NewFile EXCEPT !.shared = b] \in File
    BY DEF NewFile, File
  <2> QED
    BY <2>1, <2>2 DEF HandleInv, LibraryTypeOK
<1>6. (part \in Inode \cup {None} /\ weights \in Inode \cup {None})'
  BY <1>1 DEF HandleInv, LibraryTypeOK, Doing, Unit, File, Chunk
<1> QED
  BY <1>3, <1>4, <1>5, <1>6, Becomes DEF Create, HandleInv, LibraryTypeOK, Doing, Unit, File, Chunk

LEMMA HandTyped ==
  ASSUME HandleInv, NEW t \in Task, UNCHANGED entry, Hand(t)
  PROVE  HandleInv'
<1> DEFINE d == [task[t] EXCEPT !.pending = {<<task[t].fd, Brought(t)>>}, !.next = @ + 1]
<1>1. task[t] \in Doing /\ Handle(task[t]) /\ task[t].pc = "stream" /\ task[t].next <= Chunks
  BY DEF Hand, HandleInv, LibraryTypeOK, At, Doing, Unit, File, Chunk
<1>2. task[t].fd \in Inode /\ task[t].next \in Chunk /\ Brought(t) \in Content
  BY <1>1, LibraryAssumption DEF Handle, Doing, Chunk, Content, Brought
<1>3. d \in Doing
  <2>1. {<<task[t].fd, Brought(t)>>} \in SUBSET (Inode \X Content)
    BY <1>2
  <2>2. task[t].next + 1 \in 1..Chunks + 1
    BY <1>2, LibraryAssumption DEF Chunk
  <2> QED
    BY <1>1, <2>1, <2>2 DEF Doing
<1>4. Handle(d)
  BY <1>1, <1>2, LibraryAssumption DEF Handle, Doing, Chunk, Brought
<1>5. Become(t, d)
  BY <1>1 DEF Hand, Become, HandleInv, LibraryTypeOK, Doing, Unit, File, Chunk
<1> QED
  BY <1>3, <1>4, <1>5, Becomes DEF Hand, HandleInv, LibraryTypeOK, Doing, Unit, File, Chunk

LEMMA WriteTyped ==
  ASSUME HandleInv, NEW t \in Task, UNCHANGED entry, Write(t) \/ WriteFails(t)
  PROVE  HandleInv'
<1>1. task[t] \in Doing /\ Handle(task[t])
  BY DEF HandleInv, LibraryTypeOK, Doing, Unit, File, Chunk
<1>2. ASSUME NEW w \in task[t].pending, NEW b \in BOOLEAN, task[t].fd = None => ~b,
             task' = [task EXCEPT ![t].pending = {}, ![t].broken = b]
      PROVE  task' \in [Task -> Doing] /\ \A u \in Task : Handle(task'[u])
  <2> DEFINE d == [task[t] EXCEPT !.pending = {}, !.broken = b]
  <2>1. d \in Doing /\ Handle(d)
    BY <1>1, <1>2 DEF Doing, Handle
  <2>2. Become(t, d)
    BY <1>1, <1>2 DEF Become, Doing, HandleInv, LibraryTypeOK, Unit, File, Chunk
  <2> QED
    BY <2>1, <2>2, Becomes
<1>3. \A w \in task[t].pending : w[1] \in Inode /\ w[2] \in Content
  BY <1>1 DEF Doing
<1>4. CASE Write(t)
  <2>1. PICK w \in task[t].pending :
          /\ task' = [task EXCEPT ![t].pending = {}]
          /\ Reclaim([file EXCEPT ![w[1]].chunks = @ \cup {w[2]}])
    BY <1>4 DEF Write
  <2>2. [file EXCEPT ![w[1]].chunks = @ \cup {w[2]}] \in [Inode -> File]
    BY <1>3 DEF HandleInv, LibraryTypeOK, File, Doing, Unit, Chunk
  <2>3. task' = [task EXCEPT ![t].pending = {}, ![t].broken = task[t].broken]
    BY <1>1, <2>1 DEF HandleInv, LibraryTypeOK, Doing, Unit, File, Chunk
  <2>4. task[t].broken \in BOOLEAN /\ (task[t].fd = None => ~task[t].broken)
    BY <1>1 DEF Doing, Handle
  <2>5. task' \in [Task -> Doing] /\ \A u \in Task : Handle(task'[u])
    BY <1>2, <2>3, <2>4
  <2> QED
    BY <1>4, <2>1, <2>2, <2>5, Reclaims DEF Write, HandleInv, LibraryTypeOK, Doing, Unit, File, Chunk
<1>5. CASE WriteFails(t)
  <2>1. PICK w \in task[t].pending :
          /\ task' = [task EXCEPT ![t].pending = {}, ![t].broken = task[t].fd = w[1]]
          /\ Reclaim([file EXCEPT ![w[1]].lost = TRUE])
    BY <1>5 DEF WriteFails
  <2>2. [file EXCEPT ![w[1]].lost = TRUE] \in [Inode -> File]
    BY <1>3 DEF HandleInv, LibraryTypeOK, File, Doing, Unit, Chunk
  <2>3. (task[t].fd = w[1]) \in BOOLEAN /\ (task[t].fd = None => ~(task[t].fd = w[1]))
    BY <1>3, <2>1, LibraryAssumption
  <2>4. task' \in [Task -> Doing] /\ \A u \in Task : Handle(task'[u])
    BY <1>2, <2>1, <2>3
  <2> QED
    BY <1>5, <2>1, <2>2, <2>4, Reclaims, Faulted DEF WriteFails, HandleInv, LibraryTypeOK, Doing, Unit, File, Chunk
<1> QED
  BY <1>4, <1>5

LEMMA RenameDataTyped ==
  ASSUME HandleInv, NEW t \in Task, UNCHANGED entry, RenameData(t)
  PROVE  HandleInv'
<1>1. file' \in [Inode -> File]
  BY Reclaims DEF RenameData, HandleInv, LibraryTypeOK
<1>2. task' \in [Task -> Doing] /\ \A u \in Task : Handle(task'[u])
  BY Closes, Becomes DEF RenameData, Pc
<1>3. unit' \in Unit
  BY DEF RenameData, HandleInv, LibraryTypeOK, Unit
<1> QED
  BY <1>1, <1>2, <1>3 DEF RenameData, HandleInv, LibraryTypeOK, Doing, Unit, File, Chunk

LEMMA RenameTyped ==
  ASSUME HandleInv, NEW t \in Task, UNCHANGED entry, Rename(t)
  PROVE  HandleInv'
<1>1. [file EXCEPT ![part].shared = @ \/ task[t].fd # part] \in [Inode -> File]
  BY DEF Rename, HandleInv, LibraryTypeOK, File, Doing, Unit, Chunk
<1>2. file' \in [Inode -> File]
  BY <1>1, Reclaims DEF Rename
<1>3. task' \in [Task -> Doing] /\ \A u \in Task : Handle(task'[u])
  BY Closes, Becomes DEF Rename, Pc
<1> QED
  BY <1>2, <1>3 DEF Rename, HandleInv, LibraryTypeOK, Doing, Unit, File, Chunk

LEMMA CrashTyped ==
  ASSUME HandleInv, NEW t \in Task, UNCHANGED entry, Crash(t)
  PROVE  HandleInv'
<1> DEFINE files == [i \in Inode |->
             [file[i] EXCEPT !.lost = @ \/ \E w \in task[t].pending : w[1] = i]]
<1>1. files \in [Inode -> File]
  BY DEF HandleInv, LibraryTypeOK, File, Doing, Unit, Chunk
<1>2. file' \in [Inode -> File]
  BY <1>1, Reclaims DEF Crash
<1>3. Idle \in Doing /\ Handle(Idle)
  BY LibraryAssumption DEF Idle, Doing, Handle, Attempts
<1>4. task' \in [Task -> Doing] /\ \A u \in Task : Handle(task'[u])
  BY <1>3, Becomes DEF Crash
<1> QED
  BY <1>2, <1>4, Faulted DEF Crash, HandleInv, LibraryTypeOK, Doing, Unit, File, Chunk

\* Nothing is written, renamed or deleted in the steps of a pull after the
\* weights, nor in those of a purge but the first.
LEMMA AroundTyped ==
  ASSUME HandleInv, NEW t \in Task, UNCHANGED entry,
         \/ CallPull(t) \/ CallDownload(t) \/ CallPurge(t) \/ Look(t)
         \/ FetchExtras(t) \/ FetchData(t)
         \/ WriteManifest(t) \/ ManifestFails(t) \/ WriteDna(t)
         \/ Rmdir(t) \/ PurgeAgain(t)
  PROVE  HandleInv'
<1>1. unit \in Unit /\ NoUnit \in Unit
  BY DEF HandleInv, LibraryTypeOK, Unit, NoUnit, Doing, File, Chunk
<1>2. CASE CallPull(t)
  <2> DEFINE d == [Idle EXCEPT !.pc = "look"]
  <2>1. d \in Doing /\ d.fd = None /\ d.next = 1 /\ ~d.broken /\ d.pc = "look"
    BY One DEF Idle, Doing
  <2> QED
    BY <1>1, <1>2, <2>1, Calls DEF CallPull, HandleInv, LibraryTypeOK, Doing, Unit, File, Chunk
<1>3. CASE CallDownload(t)
  <2> DEFINE d == [Idle EXCEPT !.pc = "create", !.inPlace = TRUE]
  <2>1. d \in Doing /\ d.fd = None /\ d.next = 1 /\ ~d.broken /\ d.pc = "create"
    BY One DEF Idle, Doing
  <2> QED
    BY <1>1, <1>3, <2>1, Calls DEF CallDownload, HandleInv, LibraryTypeOK, Doing, Unit, File, Chunk
<1>4. CASE CallPurge(t)
  <2> DEFINE d == [Idle EXCEPT !.pc = "unlink"]
  <2>1. d \in Doing /\ d.fd = None /\ d.next = 1 /\ ~d.broken /\ d.pc = "unlink"
    BY One DEF Idle, Doing
  <2> QED
    BY <1>4, <2>1, Calls DEF CallPurge, HandleInv, LibraryTypeOK, Doing, Unit, File, Chunk
<1>5. CASE Look(t)
  BY <1>1, <1>5, Goes DEF Look, At, Pc, HandleInv, LibraryTypeOK, Unit, Doing, File, Chunk
<1>6. CASE FetchExtras(t)
  BY <1>1, <1>6, Goes, Faulted DEF FetchExtras, At, Pc, HandleInv, LibraryTypeOK, Unit, Doing, File, Chunk
<1>7. CASE WriteManifest(t)
  BY <1>1, <1>7, Goes DEF WriteManifest, At, Pc, HandleInv, LibraryTypeOK, Unit, Doing, File, Chunk
<1>8. CASE ManifestFails(t)
  BY <1>8, Goes, Closes, Becomes, Faulted DEF ManifestFails, At, Pc, HandleInv, LibraryTypeOK, Doing, Unit, File, Chunk
<1>9. CASE WriteDna(t)
  BY <1>1, <1>9, Closes, Becomes, Faulted DEF WriteDna, Pc, HandleInv, LibraryTypeOK, Unit, Doing, File, Chunk
<1>10. CASE Rmdir(t)
  BY <1>1, <1>10, Closes, Becomes DEF Rmdir, Pc, HandleInv, LibraryTypeOK, Doing, Unit, File, Chunk
<1>11. CASE PurgeAgain(t)
  <2>1. CASE task[t].attempt < Attempts
    <3> DEFINE d == [task[t] EXCEPT !.pc = "unlink", !.attempt = @ + 1]
    <3>1. d \in Doing /\ Handle(d)
      BY <1>11, <2>1 DEF PurgeAgain, At, HandleInv, LibraryTypeOK, Doing, Handle, Attempts, Unit, File, Chunk
    <3>2. Become(t, d)
      BY <1>11, <2>1 DEF PurgeAgain, Become, HandleInv, LibraryTypeOK, Doing, Unit, File, Chunk
    <3> QED
      BY <1>11, <3>1, <3>2, Becomes DEF PurgeAgain, HandleInv, LibraryTypeOK, Doing, Unit, File, Chunk
  <2>2. CASE ~(task[t].attempt < Attempts)
    BY <1>11, <2>2, Closes, Becomes DEF PurgeAgain, Pc, HandleInv, LibraryTypeOK, Doing, Unit, File, Chunk
  <2> QED
    BY <2>1, <2>2
<1>12. CASE FetchData(t)
  <2> DEFINE d == [task[t] EXCEPT !.pc = "create", !.data = TRUE]
  <2>1. task[t] \in Doing /\ Handle(task[t]) /\ task[t].pc = "extras"
    BY <1>12 DEF FetchData, At, HandleInv, LibraryTypeOK
  <2>2. d \in Doing /\ d.pc = "create" /\ d.fd = task[t].fd /\ d.next = task[t].next
        /\ d.broken = task[t].broken /\ d.pending = task[t].pending
    BY <2>1 DEF Doing
  <2>3. Handle(d)
    <3> HIDE DEF d
    <3> QED
      BY <2>1, <2>2 DEF Handle
  <2>4. Become(t, d)
    BY <1>12 DEF FetchData, Become, HandleInv, LibraryTypeOK, Doing
  <2> QED
    BY <1>1, <1>12, <2>2, <2>3, <2>4, Becomes DEF FetchData, HandleInv, LibraryTypeOK, Unit
<1> QED
  BY <1>2, <1>3, <1>4, <1>5, <1>6, <1>7, <1>8, <1>9, <1>10, <1>11, <1>12

LEMMA EndsTyped ==
  ASSUME HandleInv, NEW t \in Task, UNCHANGED entry,
         \/ CreateFails(t) \/ DownloadFails(t) \/ HandFails(t) \/ RenameFails(t)
         \/ StreamEnds(t) \/ Abort(t) \/ Unlink(t)
  PROVE  HandleInv'
<1>1. CASE CreateFails(t) \/ DownloadFails(t) \/ HandFails(t) \/ RenameFails(t)
  <2>1. GiveUp(t) /\ faults' \in 0..MaxFaults
    BY <1>1, Faulted DEF CreateFails, DownloadFails, HandFails, RenameFails, HandleInv, LibraryTypeOK, Doing, Unit, File, Chunk
  <2> QED
    BY <2>1, GivesUp DEF GiveUp, HandleInv, LibraryTypeOK, Doing, Unit, File, Chunk
<1>2. CASE StreamEnds(t)
  <2>1. file' \in [Inode -> File]
    BY <1>2, Reclaims DEF StreamEnds, HandleInv, LibraryTypeOK, Doing, Unit, File, Chunk
  <2>2. task[t] \in Doing /\ task[t].next = Chunks + 1
    BY <1>2, LibraryAssumption DEF StreamEnds, HandleInv, LibraryTypeOK, Doing, Unit, File, Chunk
  <2>3. task' \in [Task -> Doing] /\ \A u \in Task : Handle(task'[u])
    BY <1>2, <2>2, Goes, Closes, Becomes DEF StreamEnds, At, Pc
  <2> QED
    BY <1>2, <2>1, <2>3 DEF StreamEnds, HandleInv, LibraryTypeOK, Doing, Unit, File, Chunk
<1>3. CASE Abort(t)
  BY <1>3, Closes, Becomes, Reclaims DEF Abort, Pc, HandleInv, LibraryTypeOK, Doing, Unit, File, Chunk
<1>4. CASE Unlink(t)
  <2>1. file' \in [Inode -> File]
    BY <1>4, Reclaims DEF Unlink, HandleInv, LibraryTypeOK, Doing, Unit, File, Chunk
  <2>2. task' \in [Task -> Doing] /\ \A u \in Task : Handle(task'[u])
    BY <1>4, Goes DEF Unlink, At, Pc
  <2>3. unit' \in Unit
    BY <1>4 DEF Unlink, HandleInv, LibraryTypeOK, Unit, Doing, File, Chunk
  <2> QED
    BY <1>4, <2>1, <2>2, <2>3 DEF Unlink, HandleInv, LibraryTypeOK, Doing, Unit, File, Chunk
<1> QED
  BY <1>1, <1>2, <1>3, <1>4

LEMMA Typed == LibraryInit => HandleInv
BY LibraryAssumption
DEF LibraryInit, HandleInv, LibraryTypeOK, Idle, NoUnit, NewFile, Doing, Unit, File, Handle, Attempts, Chunk

LEMMA StaysTyped == HandleInv /\ [LibraryNext]_libraryVars => HandleInv'
<1>1. ASSUME HandleInv, UNCHANGED libraryVars
      PROVE  HandleInv'
  BY <1>1 DEF libraryVars, HandleInv, LibraryTypeOK, Doing, Unit, File, Chunk
<1>2. ASSUME HandleInv, LibraryNext
      PROVE  HandleInv'
  BY <1>2, CreateTyped, HandTyped, WriteTyped, RenameTyped, RenameDataTyped, CrashTyped,
    AroundTyped, EndsTyped
  DEF LibraryNext, Works, Step
<1> QED
  BY <1>1, <1>2

\* The tasks, the directory and the files keep their types, for any number of
\* tasks, chunks, calls and faults.
THEOREM LibraryTypeCorrect == LibrarySpec => []LibraryTypeOK
<1>1. LibrarySpec => []HandleInv
  BY Typed, StaysTyped, PTL DEF LibrarySpec
<1>2. HandleInv => LibraryTypeOK
  BY DEF HandleInv
<1> QED
  BY <1>1, <1>2, PTL

-----------------------------------------------------------------------------
(* The roster lists what is complete *)

\* The weights have their name by now.
Named(d) ==
  \/ d.pc \in {"extras", "manifest", "dna"}
  \/ d.pc = "stream" /\ d.inPlace
  \/ d.data

\* Only a purge or an abort takes the weights that the manifest names from where
\* they have their name, and only these, a download or a fault leave a manifest
\* without the splits that lie beside the weights.
ListInv ==
  /\ \A t \in Task :
       /\ task[t].pc \in {"unlink", "rmdir"} => "purge" \in meddled
       /\ task[t].inPlace => "download" \in meddled
       /\ task[t].data => entry = "onnx"
  /\ entry # "none" /\ meddled \cap {"purge", "abort"} = {} =>
       /\ Listed => Cached
       /\ \A t \in Task : Named(task[t]) => Cached
  /\ entry = "file" /\ meddled = {} /\ faults = 0 =>
       /\ Listed => unit.extras
       /\ \A t \in Task : task[t].pc \in {"manifest", "dna"} => unit.extras

\* What a step makes of its task, and that it leaves the others alone.
LEMMA Becoming ==
  ASSUME HandleInv, NEW t \in Task, NEW d, Become(t, d)
  PROVE  task'[t] = d /\ \A u \in Task \ {t} : task'[u] = task[u]
BY DEF HandleInv, LibraryTypeOK, Become, Doing, Unit, File, Chunk

LEMMA Going ==
  ASSUME HandleInv, NEW t \in Task, NEW place, Goto(t, place)
  PROVE  /\ task'[t] = [task[t] EXCEPT !.pc = place]
         /\ task'[t].pc = place /\ task'[t].inPlace = task[t].inPlace
         /\ task'[t].data = task[t].data
         /\ task'[t].fd = task[t].fd /\ task'[t].next = task[t].next
         /\ task'[t].pending = task[t].pending /\ task'[t].broken = task[t].broken
         /\ \A u \in Task \ {t} : task'[u] = task[u]
BY DEF HandleInv, LibraryTypeOK, Goto, Doing, Unit, File, Chunk

LEMMA Closing ==
  ASSUME HandleInv, NEW t \in Task, NEW place
  PROVE  /\ Closed(t, place).pc = place /\ Closed(t, place).inPlace = task[t].inPlace
         /\ Closed(t, place).fd = None /\ Closed(t, place).pending = task[t].pending
         /\ ~Closed(t, place).broken /\ ~Closed(t, place).data
         /\ Done(t).pc = "idle" /\ ~Done(t).inPlace
         /\ Done(t).fd = None /\ Done(t).pending = task[t].pending
         /\ ~Done(t).broken /\ ~Done(t).data
BY DEF HandleInv, LibraryTypeOK, Closed, Done, Doing, Idle, Unit, File, Chunk

\* What the first step of a call makes of its task.
LEMMA Calling ==
  ASSUME HandleInv, NEW t \in Task, NEW d \in Doing, Call(t, d)
  PROVE  /\ task[t].pc = "idle" /\ task[t].fd = None
         /\ task'[t].pc = d.pc /\ task'[t].inPlace = d.inPlace
         /\ task'[t].fd = d.fd /\ task'[t].pending = task[t].pending
         /\ task'[t].broken = d.broken /\ task'[t].data = d.data
         /\ \A u \in Task \ {t} : task'[u] = task[u]
<1>1. task'[t] = [d EXCEPT !.pending = task[t].pending]
      /\ \A u \in Task \ {t} : task'[u] = task[u]
  BY Becoming DEF Call
<1> QED
  BY <1>1 DEF Call, At, Doing, HandleInv, Handle

Started(t, place, inPlace) ==
  /\ task[t].pc = "idle" /\ task[t].fd = None
  /\ task'[t].pc = place /\ task'[t].inPlace = inPlace
  /\ task'[t].fd = None /\ task'[t].pending = task[t].pending
  /\ ~task'[t].broken /\ ~task'[t].data
  /\ \A u \in Task \ {t} : task'[u] = task[u]

LEMMA Starting ==
  ASSUME HandleInv, NEW t \in Task
  PROVE  /\ CallPull(t) => Started(t, "look", FALSE)
         /\ CallDownload(t) => Started(t, "create", TRUE)
         /\ CallPurge(t) => Started(t, "unlink", FALSE)
<1>1. CallPull(t) => Started(t, "look", FALSE)
  <2> DEFINE d == [Idle EXCEPT !.pc = "look"]
  <2>1. d \in Doing /\ d.pc = "look" /\ d.inPlace = FALSE /\ d.fd = None /\ ~d.broken /\ ~d.data
    BY One DEF Idle, Doing
  <2>2. CallPull(t) => Call(t, d)
    BY DEF CallPull
  <2> HIDE DEF d
  <2> QED
    BY <2>1, <2>2, Calling DEF Started
<1>2. CallDownload(t) => Started(t, "create", TRUE)
  <2> DEFINE d == [Idle EXCEPT !.pc = "create", !.inPlace = TRUE]
  <2>1. d \in Doing /\ d.pc = "create" /\ d.inPlace = TRUE /\ d.fd = None /\ ~d.broken /\ ~d.data
    BY One DEF Idle, Doing
  <2>2. CallDownload(t) => Call(t, d)
    BY DEF CallDownload
  <2> HIDE DEF d
  <2> QED
    BY <2>1, <2>2, Calling DEF Started
<1>3. CallPurge(t) => Started(t, "unlink", FALSE)
  <2> DEFINE d == [Idle EXCEPT !.pc = "unlink"]
  <2>1. d \in Doing /\ d.pc = "unlink" /\ d.inPlace = FALSE /\ d.fd = None /\ ~d.broken /\ ~d.data
    BY One DEF Idle, Doing
  <2>2. CallPurge(t) => Call(t, d)
    BY DEF CallPurge
  <2> HIDE DEF d
  <2> QED
    BY <2>1, <2>2, Calling DEF Started
<1> QED
  BY <1>1, <1>2, <1>3

\* What is known of a step of t that keeps what the roster lists.
KeepsList(t) ==
  /\ \A u \in Task \ {t} : task'[u] = task[u]
  /\ task'[t].data => entry = "onnx"
  /\ meddled \subseteq meddled'
  /\ faults' = 0 => faults = 0
  /\ task'[t].pc \in {"unlink", "rmdir"} => "purge" \in meddled'
  /\ task'[t].inPlace => "download" \in meddled'
  /\ Cached /\ meddled' \cap {"purge", "abort"} = {} => Cached'
  /\ Named(task'[t]) => Cached' \/ meddled' \cap {"purge", "abort"} # {} \/ entry = "none"
  /\ unit'.manifest => unit.manifest \/ task[t].pc = "manifest"
  /\ unit.extras => unit'.extras \/ "purge" \in meddled'
  /\ task'[t].pc \in {"manifest", "dna"} /\ entry = "file" /\ meddled' = {} /\ faults' = 0
       => unit'.extras \/ task[t].pc = "manifest"

LEMMA ListKept ==
  ASSUME HandleInv, ListInv, NEW t \in Task, UNCHANGED entry, KeepsList(t)
  PROVE  ListInv'
<1>1. ASSUME NEW u \in Task
      PROVE  /\ task'[u].pc \in {"unlink", "rmdir"} => "purge" \in meddled'
             /\ task'[u].inPlace => "download" \in meddled'
             /\ task'[u].data => entry = "onnx"
  BY <1>1 DEF ListInv, KeepsList
<1>2. ASSUME entry # "none", meddled' \cap {"purge", "abort"} = {}
      PROVE  /\ Listed' => Cached'
             /\ \A u \in Task : Named(task'[u]) => Cached'
  <2>1. meddled \cap {"purge", "abort"} = {}
    BY <1>2 DEF KeepsList
  <2>2. Listed' => Cached'
    BY <1>2, <2>1 DEF ListInv, Listed, Named, KeepsList
  <2>3. ASSUME NEW u \in Task \ {t}, Named(task'[u])
        PROVE  Cached'
    BY <1>2, <2>1, <2>3 DEF ListInv, KeepsList
  <2> QED
    BY <1>2, <2>2, <2>3 DEF KeepsList
<1>3. ASSUME entry = "file", meddled' = {}, faults' = 0
      PROVE  /\ Listed' => unit'.extras
             /\ \A u \in Task : task'[u].pc \in {"manifest", "dna"} => unit'.extras
  <2>1. meddled = {} /\ faults = 0
    BY <1>3 DEF KeepsList
  <2>2. unit.extras => unit'.extras
    BY <1>3 DEF KeepsList
  <2>3. Listed' => unit'.extras
    BY <1>3, <2>1, <2>2 DEF ListInv, Listed, KeepsList
  <2>4. ASSUME NEW u \in Task, task'[u].pc \in {"manifest", "dna"}
        PROVE  unit'.extras
    BY <1>3, <2>1, <2>2, <2>4 DEF ListInv, KeepsList
  <2> QED
    BY <2>3, <2>4
<1> QED
  BY <1>1, <1>2, <1>3 DEF ListInv

LEMMA LaterFaults ==
  ASSUME HandleInv, HandleInv', UNCHANGED faults \/ Fault
  PROVE  faults' = 0 => faults = 0
BY LibraryAssumption DEF HandleInv, LibraryTypeOK, Doing, Unit, File, Chunk, Fault

LEMMA PullKeepsList ==
  ASSUME HandleInv, HandleInv', ListInv, NEW t \in Task,
         \/ CallPull(t) \/ Look(t) \/ FetchExtras(t) \/ FetchData(t) \/ WriteManifest(t)
         \/ ManifestFails(t) \/ WriteDna(t)
  PROVE  KeepsList(t)
<1>1. faults' = 0 => faults = 0
  BY LaterFaults DEF CallPull, Look, FetchExtras, FetchData, WriteManifest, ManifestFails, WriteDna
<1>u. unit \in Unit /\ (task[t].data => entry = "onnx")
  BY DEF HandleInv, LibraryTypeOK, ListInv
<1>2. CASE CallPull(t)
  BY <1>1, <1>u, <1>2, Starting DEF CallPull, Started, Named, Cached, KeepsList, Unit
<1>3. CASE Look(t)
  <2>1. task'[t].pc = (IF Found THEN "extras" ELSE "create") /\ task'[t].inPlace = task[t].inPlace
        /\ task'[t].data = task[t].data /\ \A u \in Task \ {t} : task'[u] = task[u]
    BY <1>3, Going DEF Look
  <2>2. task[t].inPlace => "download" \in meddled
    BY DEF ListInv
  <2>3. unit'.manifest = unit.manifest /\ unit'.extras = unit.extras
    BY <1>u, <1>3 DEF Look, Unit
  <2>4. Cached' = Cached /\ meddled' = meddled /\ task[t].pc = "look"
    BY <1>3 DEF Look, Cached, At
  <2>5. task[t].data => Cached \/ meddled \cap {"purge", "abort"} # {} \/ entry = "none"
    BY DEF ListInv, Named
  <2>6. Found => Cached \/ entry = "none"
    BY DEF Found
  <2> QED
    BY <1>1, <1>u, <2>1, <2>2, <2>3, <2>4, <2>5, <2>6 DEF Named, KeepsList
<1>4. CASE FetchExtras(t)
  <2>1. /\ task'[t].pc = "manifest" /\ task'[t].inPlace = task[t].inPlace
        /\ task'[t].data = task[t].data /\ \A u \in Task \ {t} : task'[u] = task[u]
    BY <1>4, Going DEF FetchExtras
  <2>2. task[t].inPlace => "download" \in meddled
    BY DEF ListInv
  <2>3. Cached \/ meddled \cap {"purge", "abort"} # {} \/ entry = "none"
    BY <1>4 DEF ListInv, Named, FetchExtras, At
  <2>4. unit'.manifest = unit.manifest /\ (unit.extras => unit'.extras)
    BY <1>u, <1>4 DEF FetchExtras, Unit
  <2>5. entry = "file" /\ faults' = 0 => unit'.extras
    <3>1. Fault => faults' # 0
      BY Faulted DEF HandleInv
    <3> QED
      BY <1>u, <1>4, <3>1 DEF FetchExtras, Unit
  <2>6. Cached' = Cached /\ meddled' = meddled
    BY <1>4 DEF FetchExtras, Cached
  <2> QED
    BY <1>1, <1>u, <2>1, <2>2, <2>3, <2>4, <2>5, <2>6 DEF Named, KeepsList
<1>8. CASE FetchData(t)
  <2>1. /\ task'[t].pc = "create" /\ task'[t].inPlace = task[t].inPlace
        /\ \A u \in Task \ {t} : task'[u] = task[u]
    BY <1>8 DEF FetchData, HandleInv, LibraryTypeOK, Doing
  <2>2. task[t].inPlace => "download" \in meddled
    BY DEF ListInv
  <2>3. Cached \/ meddled \cap {"purge", "abort"} # {} \/ entry = "none"
    BY <1>8 DEF ListInv, Named, FetchData, At
  <2>4. unit'.manifest = unit.manifest /\ unit'.extras = unit.extras
    BY <1>u, <1>8 DEF FetchData, Unit
  <2>5. Cached' = Cached /\ meddled' = meddled /\ entry = "onnx"
    BY <1>8 DEF FetchData, Cached
  <2> QED
    BY <1>1, <2>1, <2>2, <2>3, <2>4, <2>5 DEF KeepsList
<1>5. CASE WriteManifest(t)
  BY <1>1, <1>u, <1>5, Going DEF WriteManifest, At, Named, Cached, ListInv, KeepsList, Unit
<1>6. CASE ManifestFails(t)
  <2>1. /\ task'[t].pc \in {"dna", "idle"} /\ (task'[t].inPlace => task[t].inPlace)
        /\ (task'[t].data => task[t].data)
        /\ \A u \in Task \ {t} : task'[u] = task[u]
    <3>1. CASE task[t].inPlace
      BY <1>6, <3>1, Going DEF ManifestFails
    <3>2. CASE ~task[t].inPlace
      BY <1>6, <3>2, Becoming, Closing DEF ManifestFails
    <3> QED
      BY <3>1, <3>2
  <2>2. (task[t].inPlace => "download" \in meddled) /\ task[t].pc = "manifest"
    BY <1>6 DEF ListInv, ManifestFails, At
  <2>3. meddled \cap {"purge", "abort"} = {} => Cached \/ entry = "none"
    BY <2>2 DEF ListInv, Named
  <2>4. Cached' = Cached /\ UNCHANGED <<meddled, unit>>
    BY <1>6 DEF ManifestFails, Cached
  <2> QED
    BY <1>1, <1>u, <2>1, <2>2, <2>3, <2>4 DEF Named, KeepsList
<1>7. CASE WriteDna(t)
  BY <1>1, <1>u, <1>7, Becoming, Closing DEF WriteDna, At, Named, Cached, ListInv, KeepsList, Unit
<1> QED
  BY <1>2, <1>3, <1>4, <1>5, <1>6, <1>7, <1>8

LEMMA DownloadKeepsList ==
  ASSUME HandleInv, HandleInv', ListInv, NEW t \in Task,
         \/ CallDownload(t) \/ Create(t) \/ CreateFails(t) \/ DownloadFails(t)
         \/ Hand(t) \/ HandFails(t) \/ StreamEnds(t)
         \/ Rename(t) \/ RenameData(t) \/ RenameFails(t) \/ Abort(t)
  PROVE  KeepsList(t)
<1>1. faults' = 0 => faults = 0
  BY LaterFaults DEF CallDownload, Create, CreateFails, DownloadFails, Hand, HandFails,
    StreamEnds, Rename, RenameData, RenameFails, Abort
<1>2. unit \in Unit /\ (task[t].inPlace => "download" \in meddled)
      /\ (task[t].data => entry = "onnx")
      /\ (task[t].data => Cached \/ meddled \cap {"purge", "abort"} # {})
  BY DEF HandleInv, LibraryTypeOK, ListInv, Named
<1>3. CASE CallDownload(t)
  BY <1>1, <1>2, <1>3, Starting DEF CallDownload, Started, Named, Cached, KeepsList, Unit
<1>4. CASE Create(t)
  <2>1. PICK i \in Inode :
          IF task[t].inPlace
            THEN Open(t, weights, i) /\ weights' = i /\ UNCHANGED part
            ELSE Open(t, part, i) /\ part' = i /\ UNCHANGED weights
    BY <1>4 DEF Create
  <2>2. task' = [task EXCEPT ![t].pc = "stream", ![t].fd = i]
    BY <2>1 DEF Open
  <2>3. task'[t].pc = "stream" /\ task'[t].inPlace = task[t].inPlace
        /\ task'[t].data = task[t].data /\ \A u \in Task \ {t} : task'[u] = task[u]
    BY <2>2 DEF HandleInv, LibraryTypeOK, Doing
  <2>4. (Cached => Cached') /\ (task[t].inPlace => Cached')
    BY <2>1, LibraryAssumption DEF Cached
  <2>5. UNCHANGED <<unit, meddled>>
    BY <1>4 DEF Create
  <2> QED
    BY <1>1, <1>2, <2>3, <2>4, <2>5 DEF Named, KeepsList
<1>5. CASE CreateFails(t) \/ DownloadFails(t) \/ HandFails(t) \/ RenameFails(t)
  <2>1. GiveUp(t)
    BY <1>5 DEF CreateFails, DownloadFails, HandFails, RenameFails
  <2>2. /\ ~task'[t].data /\ (task'[t].inPlace => task[t].inPlace)
        /\ task'[t].pc \in {"manifest", "idle"} /\ (task'[t].pc = "manifest" => task[t].data)
        /\ \A u \in Task \ {t} : task'[u] = task[u]
    <3>1. CASE task[t].data
      <4>1. Become(t, Closed(t, "manifest"))
        BY <2>1, <3>1 DEF GiveUp
      <4> QED
        BY <3>1, <4>1, Becoming, Closing
    <3>2. CASE ~task[t].data
      <4>1. Become(t, Done(t))
        BY <2>1, <3>2 DEF GiveUp
      <4> QED
        BY <4>1, Becoming, Closing
    <3> QED
      BY <3>1, <3>2
  <2>3. UNCHANGED <<weights, unit, meddled>>
    BY <2>1 DEF GiveUp
  <2> QED
    BY <1>1, <1>2, <2>2, <2>3 DEF Named, Cached, KeepsList
<1>6. CASE Hand(t)
  <2>1. task' = [task EXCEPT ![t].pending = {<<task[t].fd, Brought(t)>>}, ![t].next = @ + 1]
    BY <1>6 DEF Hand
  <2>2. task'[t].pc = task[t].pc /\ task'[t].inPlace = task[t].inPlace
        /\ task'[t].data = task[t].data /\ \A u \in Task \ {t} : task'[u] = task[u]
    BY <2>1 DEF HandleInv, LibraryTypeOK, Doing
  <2>3. task[t].pc = "stream" /\ UNCHANGED <<weights, unit, meddled>>
    BY <1>6 DEF Hand, At
  <2>4. Named(task[t]) => Cached \/ meddled \cap {"purge", "abort"} # {} \/ entry = "none"
    BY DEF ListInv
  <2> QED
    BY <1>1, <1>2, <2>2, <2>3, <2>4 DEF Named, Cached, KeepsList
<1>7. CASE StreamEnds(t)
  <2>1. /\ task'[t].pc = (IF task[t].inPlace THEN "manifest" ELSE "rename")
        /\ task'[t].inPlace = task[t].inPlace /\ (task'[t].data => task[t].data)
        /\ \A u \in Task \ {t} : task'[u] = task[u]
    <3>1. CASE task[t].inPlace
      <4>1. task'[t] = Closed(t, "manifest") /\ \A u \in Task \ {t} : task'[u] = task[u]
        BY <1>7, <3>1, Becoming DEF StreamEnds
      <4>2. Closed(t, "manifest").pc = "manifest" /\ Closed(t, "manifest").inPlace = task[t].inPlace
            /\ ~Closed(t, "manifest").data
        BY Closing
      <4> QED
        BY <3>1, <4>1, <4>2
    <3>2. CASE ~task[t].inPlace
      BY <1>7, <3>2, Going DEF StreamEnds
    <3> QED
      BY <3>1, <3>2
  <2>2. task[t].pc = "stream" /\ UNCHANGED <<weights, unit, meddled>>
    BY <1>7 DEF StreamEnds, At
  <2>3. Named(task[t]) => Cached \/ meddled \cap {"purge", "abort"} # {} \/ entry = "none"
    BY DEF ListInv
  <2> QED
    BY <1>1, <1>2, <2>1, <2>2, <2>3 DEF Named, Cached, KeepsList
<1>8. CASE Rename(t)
  <2>1. /\ task'[t].pc = "extras" /\ task'[t].inPlace = task[t].inPlace /\ ~task'[t].data
        /\ \A u \in Task \ {t} : task'[u] = task[u]
    BY <1>8, Becoming, Closing DEF Rename
  <2>2. Cached' /\ UNCHANGED <<unit, meddled>>
    BY <1>8 DEF Rename, Cached
  <2> QED
    BY <1>1, <1>2, <2>1, <2>2 DEF Named, KeepsList
<1>10. CASE RenameData(t)
  <2>1. /\ task'[t].pc = "manifest" /\ task'[t].inPlace = task[t].inPlace /\ ~task'[t].data
        /\ \A u \in Task \ {t} : task'[u] = task[u]
    BY <1>10, Becoming, Closing DEF RenameData
  <2>2. unit'.extras /\ unit'.manifest = unit.manifest
    BY <1>2, <1>10 DEF RenameData, Unit
  <2>3. task[t].data /\ UNCHANGED <<weights, meddled>>
    BY <1>10 DEF RenameData
  <2> QED
    BY <1>1, <1>2, <2>1, <2>2, <2>3 DEF Named, Cached, KeepsList
<1>9. CASE Abort(t)
  <2>1. /\ task'[t].pc = "idle" /\ ~task'[t].inPlace /\ ~task'[t].data
        /\ \A u \in Task \ {t} : task'[u] = task[u]
    BY <1>9, Becoming, Closing DEF Abort
  <2>2. meddled' = meddled \cup {"abort"} /\ UNCHANGED unit
    BY <1>9 DEF Abort
  <2> QED
    BY <1>1, <1>2, <2>1, <2>2 DEF Named, KeepsList
<1> QED
  BY <1>3, <1>4, <1>5, <1>6, <1>7, <1>8, <1>9, <1>10

LEMMA OthersKeepList ==
  ASSUME HandleInv, HandleInv', ListInv, NEW t \in Task,
         \/ CallPurge(t) \/ Unlink(t) \/ Rmdir(t) \/ PurgeAgain(t)
         \/ Write(t) \/ WriteFails(t) \/ Crash(t)
  PROVE  KeepsList(t)
<1>1. faults' = 0 => faults = 0
  BY LaterFaults DEF CallPurge, Unlink, Rmdir, PurgeAgain, Write, WriteFails, Crash
<1>2. unit \in Unit /\ (task[t].inPlace => "download" \in meddled)
      /\ (task[t].pc \in {"unlink", "rmdir"} => "purge" \in meddled)
      /\ (task[t].data => entry = "onnx")
  BY DEF HandleInv, LibraryTypeOK, ListInv
<1>3. CASE CallPurge(t)
  BY <1>1, <1>3, Starting DEF CallPurge, Started, Named, Cached, KeepsList
<1>4. CASE Unlink(t)
  <2>1. /\ task'[t].pc = "rmdir" /\ task'[t].inPlace = task[t].inPlace
        /\ task'[t].data = task[t].data /\ \A u \in Task \ {t} : task'[u] = task[u]
    BY <1>4, Going DEF Unlink
  <2>2. "purge" \in meddled /\ meddled' = meddled
    BY <1>2, <1>4 DEF Unlink, At
  <2>3. unit'.manifest => unit.manifest
    BY <1>2, <1>4 DEF Unlink, Unit
  <2> QED
    BY <1>1, <1>2, <2>1, <2>2, <2>3 DEF Named, KeepsList
<1>5. CASE Rmdir(t)
  <2>1. /\ task'[t].pc = "idle" /\ ~task'[t].inPlace /\ ~task'[t].data
        /\ \A u \in Task \ {t} : task'[u] = task[u]
    BY <1>5, Becoming, Closing DEF Rmdir
  <2>2. "purge" \in meddled /\ meddled' = meddled /\ ~unit'.manifest
    BY <1>2, <1>5 DEF Rmdir, At, NoUnit
  <2> QED
    BY <1>1, <2>1, <2>2 DEF Named, KeepsList
<1>6. CASE PurgeAgain(t)
  <2>1. /\ task'[t].pc \in {"unlink", "idle"} /\ (task'[t].inPlace => task[t].inPlace)
        /\ (task'[t].data => task[t].data) /\ \A u \in Task \ {t} : task'[u] = task[u]
    <3>1. CASE task[t].attempt < Attempts
      BY <1>6, <3>1 DEF PurgeAgain, HandleInv, LibraryTypeOK, Doing
    <3>2. CASE ~(task[t].attempt < Attempts)
      BY <1>6, <3>2, Becoming, Closing DEF PurgeAgain
    <3> QED
      BY <3>1, <3>2
  <2>2. "purge" \in meddled /\ UNCHANGED <<meddled, unit, weights>>
    BY <1>2, <1>6 DEF PurgeAgain, At
  <2> QED
    BY <1>1, <1>2, <2>1, <2>2 DEF Named, Cached, KeepsList
<1>7. CASE Write(t) \/ WriteFails(t)
  <2>1. PICK b \in BOOLEAN : task' = [task EXCEPT ![t].pending = {}, ![t].broken = b]
    <3>1. CASE Write(t)
      <4>1. task' = [task EXCEPT ![t].pending = {}, ![t].broken = task[t].broken]
        BY <3>1 DEF Write, HandleInv, LibraryTypeOK, Doing
      <4>2. task[t].broken \in BOOLEAN
        BY DEF HandleInv, LibraryTypeOK, Doing
      <4> QED
        BY <4>1, <4>2
    <3>2. CASE WriteFails(t)
      <4>1. PICK w : task' = [task EXCEPT ![t].pending = {}, ![t].broken = task[t].fd = w[1]]
        BY <3>2 DEF WriteFails
      <4>2. (task[t].fd = w[1]) \in BOOLEAN
        OBVIOUS
      <4> QED
        BY <4>1, <4>2
    <3> QED
      BY <1>7, <3>1, <3>2
  <2>2. task'[t].pc = task[t].pc /\ task'[t].inPlace = task[t].inPlace
        /\ task'[t].data = task[t].data /\ \A u \in Task \ {t} : task'[u] = task[u]
    BY <2>1 DEF HandleInv, LibraryTypeOK, Doing
  <2>3. UNCHANGED <<weights, unit, meddled>>
    BY <1>7 DEF Write, WriteFails
  <2>4. Named(task[t]) => Cached \/ meddled \cap {"purge", "abort"} # {} \/ entry = "none"
    BY DEF ListInv
  <2>5. task[t].pc \in {"manifest", "dna"} /\ entry = "file" /\ meddled = {} /\ faults = 0 => unit.extras
    BY DEF ListInv
  <2> QED
    BY <1>1, <1>2, <2>2, <2>3, <2>4, <2>5 DEF Named, Cached, KeepsList
<1>8. CASE Crash(t)
  <2>1. /\ task'[t].pc = "idle" /\ ~task'[t].inPlace /\ ~task'[t].data
        /\ \A u \in Task \ {t} : task'[u] = task[u]
    BY <1>8, Becoming DEF Crash, Idle
  <2>2. UNCHANGED <<weights, unit, meddled>>
    BY <1>8 DEF Crash
  <2> QED
    BY <1>1, <2>1, <2>2 DEF Named, Cached, KeepsList
<1> QED
  BY <1>3, <1>4, <1>5, <1>6, <1>7, <1>8

LEMMA ListStays ==
  HandleInv /\ HandleInv' /\ ListInv /\ [LibraryNext]_libraryVars => ListInv'
<1>1. ASSUME ListInv, UNCHANGED libraryVars
      PROVE  ListInv'
  BY <1>1 DEF libraryVars, ListInv, Listed, Cached
<1>2. ASSUME HandleInv, HandleInv', ListInv, LibraryNext
      PROVE  ListInv'
  <2>1. PICK t \in Task :
          \/ Works(t)
          \/ /\ UNCHANGED entry
             /\ \/ CallPull(t) \/ CallDownload(t) \/ CallPurge(t)
                \/ Abort(t) \/ DownloadFails(t) \/ WriteFails(t) \/ Crash(t)
    BY <1>2 DEF LibraryNext
  <2>2. KeepsList(t) /\ UNCHANGED entry
    BY <1>2, <2>1, PullKeepsList, DownloadKeepsList, OthersKeepList DEF Works, Step
  <2> QED
    BY <1>2, <2>2, ListKept
<1> QED
  BY <1>1, <1>2

LEMMA ListInit == LibraryInit => ListInv
BY DEF LibraryInit, ListInv, Named, Idle, NoUnit, Listed

\* A model that the roster lists has its weights, unless a purge or an abort
\* took them or its manifest names none, and the splits that lie beside them as
\* well if only pulls were at work and nothing failed: for any number of tasks,
\* calls and faults.
THEOREM ListedHasItsParts == LibrarySpec => []ListedIsComplete
<1>2. LibrarySpec => []ListInv
  BY ListInit, Typed, StaysTyped, ListStays, PTL DEF LibrarySpec
<1>3. LibraryTypeOK /\ ListInv => ListedIsComplete
  <2> SUFFICES ASSUME LibraryTypeOK, ListInv, Listed
               PROVE  /\ Cached \/ meddled \cap {"purge", "abort"} # {} \/ entry = "none"
                      /\ unit.extras \/ meddled # {} \/ faults > 0 \/ entry # "file"
    BY DEF ListedIsComplete
  <2>1. Cached \/ meddled \cap {"purge", "abort"} # {} \/ entry = "none"
    BY DEF ListInv
  <2>2. unit.extras \/ meddled # {} \/ faults # 0 \/ entry # "file"
    BY DEF ListInv
  <2>3. faults # 0 => faults > 0
    BY LibraryAssumption DEF LibraryTypeOK, Doing, Unit, File, Chunk
  <2> QED
    BY <2>1, <2>2, <2>3
<1> QED
  BY <1>2, <1>3, LibraryTypeCorrect, PTL

-----------------------------------------------------------------------------
(* Weights are named when they are whole *)

\* An inode that was not shared has one user at most.
OneUser(i) ==
  ~file[i].shared => \A t, u \in Task : Uses(t, i) /\ Uses(u, i) => t = u

\* What the stream has brought is there, but for the last chunk.
Delivered(t) ==
  \A c \in 1..task[t].next - 1 :
    \/ c \in file[task[t].fd].chunks
    \/ <<task[t].fd, c>> \in task[t].pending
    \/ task[t].broken /\ c = task[t].next - 1

\* Who writes an inode that is not shared pulls, and it has no name yet.
Private(t) ==
  task[t].fd # None /\ ~file[task[t].fd].shared =>
    /\ ~task[t].inPlace
    /\ task[t].fd # weights
    /\ ~task[t].data => Delivered(t) /\ Foreign \notin file[task[t].fd].chunks
    /\ task[t].broken => file[task[t].fd].lost

\* The write of the last chunk is under way or was lost.
LastDue == file[weights].lost \/ \E t \in Task : <<weights, Chunks>> \in task[t].pending

\* Weights that were not shared are whole, but perhaps for the last chunk, and
\* hold no data.
NamedWhole ==
  Cached /\ ~file[weights].shared =>
    /\ \A c \in Chunk : c \in file[weights].chunks \/ (c = Chunks /\ LastDue)
    /\ Foreign \notin file[weights].chunks
    /\ \A t \in Task : <<weights, Foreign>> \notin task[t].pending

\* An inode that is not shared belongs to one pull, which names it when it has
\* handed over everything.
AtomicInv ==
  /\ part # None => part # weights
  /\ \A i \in Inode : OneUser(i)
  /\ \A t \in Task : Private(t)
  /\ NamedWhole

\* Somebody can reach the inode.
Reachable(i) == i = part \/ i = weights \/ \E t \in Task : Uses(t, i)

LEMMA Retains ==
  ASSUME HandleInv, NEW files \in [Inode -> File], Reclaim(files)
  PROVE  \A i \in Inode : Reachable(i)' => file'[i] = files[i]
BY Reclaims DEF Reachable

\* Most steps leave what is handed over and close at most what is open.
Loosens(t) ==
  /\ \A u \in Task \ {t} : task'[u] = task[u]
  /\ task'[t].pending = task[t].pending
  /\ \/ task'[t].fd = None
     \/ /\ task'[t].fd = task[t].fd /\ task'[t].inPlace = task[t].inPlace
        /\ task'[t].next = task[t].next /\ task'[t].broken = task[t].broken
        /\ task'[t].data = task[t].data
  /\ part' \in {part, None} /\ weights' \in {weights, None}
  /\ \A i \in Inode : Reachable(i)' => file'[i] = file[i]

LEMMA LoosensAtomic ==
  ASSUME HandleInv, HandleInv', AtomicInv, NEW t \in Task, Loosens(t)
  PROVE  AtomicInv'
<1>1. \A u \in Task, i \in Inode : Uses(u, i)' => Uses(u, i) /\ file'[i] = file[i]
  BY LibraryAssumption DEF Loosens, Uses, Reachable
<1>2. part' # None => part' # weights'
  BY DEF Loosens, AtomicInv
<1>3. ASSUME NEW i \in Inode
      PROVE  OneUser(i)'
  BY <1>1 DEF AtomicInv, OneUser
<1>4. ASSUME NEW u \in Task
      PROVE  Private(u)'
  <2> SUFFICES ASSUME task'[u].fd # None
               PROVE  Private(u)'
    BY DEF Private
  <2>1. task'[u].fd = task[u].fd /\ task'[u].inPlace = task[u].inPlace
        /\ task'[u].next = task[u].next /\ task'[u].broken = task[u].broken
        /\ task'[u].pending = task[u].pending /\ task'[u].data = task[u].data
    BY DEF Loosens
  <2>2. PICK j \in Inode : j = task[u].fd
    BY <2>1 DEF HandleInv, LibraryTypeOK, Doing
  <2>3. file'[j] = file[j]
    BY <1>1, <2>1, <2>2 DEF Uses
  <2>4. weights' \in {weights, None} /\ j # None
    BY LibraryAssumption DEF Loosens
  <2>5. Private(u)
    BY DEF AtomicInv
  <2> QED
    BY <2>1, <2>2, <2>3, <2>4, <2>5 DEF Private, Delivered
<1>5. NamedWhole'
  <2> SUFFICES ASSUME Cached'
               PROVE  NamedWhole'
    BY DEF NamedWhole
  <2>1. weights' = weights /\ Cached
    BY DEF Loosens, Cached
  <2>2. weights \in Inode /\ file'[weights] = file[weights]
    BY <2>1 DEF Loosens, Reachable, Cached, HandleInv, LibraryTypeOK
  <2>3. \A u \in Task : task'[u].pending = task[u].pending
    BY DEF Loosens
  <2> QED
    BY <2>1, <2>2, <2>3 DEF AtomicInv, NamedWhole, LastDue
<1> QED
  BY <1>2, <1>3, <1>4, <1>5 DEF AtomicInv

LEMMA StepsLoosen ==
  ASSUME HandleInv, HandleInv', NEW t \in Task,
         \/ CallPull(t) \/ CallDownload(t) \/ CallPurge(t) \/ Look(t)
         \/ FetchExtras(t) \/ FetchData(t)
         \/ WriteManifest(t) \/ ManifestFails(t) \/ WriteDna(t)
         \/ CreateFails(t) \/ DownloadFails(t) \/ HandFails(t) \/ RenameFails(t) \/ RenameData(t)
         \/ StreamEnds(t) \/ Abort(t) \/ Unlink(t) \/ Rmdir(t) \/ PurgeAgain(t)
  PROVE  Loosens(t)
<1>1. file \in [Inode -> File]
  BY DEF HandleInv, LibraryTypeOK
<1>2. CASE CallPull(t) \/ CallDownload(t) \/ CallPurge(t)
  BY <1>2, Starting DEF CallPull, CallDownload, CallPurge, Started, Loosens
<1>3. CASE Look(t)
  BY <1>3, Going DEF Look, Loosens
<1>4. CASE FetchExtras(t) \/ WriteManifest(t)
  BY <1>4, Going DEF FetchExtras, WriteManifest, Loosens
<1>5. CASE ManifestFails(t) \/ WriteDna(t)
  <2>1. \/ task'[t] = Done(t) /\ \A u \in Task \ {t} : task'[u] = task[u]
        \/ Goto(t, "dna")
    BY <1>5, Becoming DEF ManifestFails, WriteDna
  <2>2. UNCHANGED <<part, weights, file>>
    BY <1>5 DEF ManifestFails, WriteDna
  <2> QED
    BY <2>1, <2>2, Going, Closing DEF Loosens
<1>6. CASE CreateFails(t) \/ DownloadFails(t) \/ HandFails(t) \/ RenameFails(t)
  <2>1. GiveUp(t)
    BY <1>6 DEF CreateFails, DownloadFails, HandFails, RenameFails
  <2>2. /\ task'[t].fd = None /\ task'[t].pending = task[t].pending
        /\ \A u \in Task \ {t} : task'[u] = task[u]
    <3>1. CASE task[t].data
      <4>1. Become(t, Closed(t, "manifest"))
        BY <2>1, <3>1 DEF GiveUp
      <4> QED
        BY <4>1, Becoming, Closing
    <3>2. CASE ~task[t].data
      <4>1. Become(t, Done(t))
        BY <2>1, <3>2 DEF GiveUp
      <4> QED
        BY <4>1, Becoming, Closing
    <3> QED
      BY <3>1, <3>2
  <2> QED
    BY <1>1, <2>1, <2>2, Retains DEF GiveUp, Loosens
<1>12. CASE RenameData(t)
  <2>1. /\ task'[t].fd = None /\ task'[t].pending = task[t].pending
        /\ \A u \in Task \ {t} : task'[u] = task[u]
    BY <1>12, Becoming, Closing DEF RenameData
  <2>2. \A i \in Inode : Reachable(i)' => file'[i] = file[i]
    BY <1>1, <1>12, Retains DEF RenameData
  <2> QED
    BY <1>12, <2>1, <2>2 DEF RenameData, Loosens
<1>13. CASE FetchData(t)
  <2>1. /\ task'[t].fd = task[t].fd /\ task'[t].pending = task[t].pending
        /\ \A u \in Task \ {t} : task'[u] = task[u]
    BY <1>13 DEF FetchData, HandleInv, LibraryTypeOK, Doing
  <2>2. task[t].fd = None
    BY <1>13 DEF FetchData, At, HandleInv, Handle
  <2> QED
    BY <1>13, <2>1, <2>2 DEF FetchData, Loosens
<1>7. CASE StreamEnds(t)
  <2>1. \/ \E place \in Pc : task'[t] = Closed(t, place) /\ \A u \in Task \ {t} : task'[u] = task[u]
        \/ Goto(t, "rename")
    BY <1>7, Becoming DEF StreamEnds, Pc
  <2>2. \A i \in Inode : Reachable(i)' => file'[i] = file[i]
    BY <1>1, <1>7, Retains DEF StreamEnds
  <2>3. UNCHANGED <<part, weights>>
    BY <1>7 DEF StreamEnds
  <2> QED
    <3>1. ASSUME NEW place \in Pc, task'[t] = Closed(t, place), \A u \in Task \ {t} : task'[u] = task[u]
          PROVE  Loosens(t)
      <4>1. Closed(t, place).fd = None /\ Closed(t, place).pending = task[t].pending
        BY Closing
      <4> QED
        BY <2>2, <2>3, <3>1, <4>1 DEF Loosens
    <3>2. CASE Goto(t, "rename")
      BY <2>2, <2>3, <3>2, Going DEF Loosens
    <3> QED
      BY <2>1, <3>1, <3>2
<1>8. CASE Abort(t)
  <2>1. task'[t] = Done(t) /\ \A u \in Task \ {t} : task'[u] = task[u]
    BY <1>8, Becoming DEF Abort
  <2>2. \A i \in Inode : Reachable(i)' => file'[i] = file[i]
    BY <1>1, <1>8, Retains DEF Abort
  <2>3. part' = part /\ weights' = None
    BY <1>8 DEF Abort
  <2> QED
    BY <2>1, <2>2, <2>3, Closing DEF Loosens
<1>9. CASE Unlink(t)
  BY <1>1, <1>9, Going, Retains DEF Unlink, Loosens
<1>10. CASE Rmdir(t)
  BY <1>10, Becoming, Closing DEF Rmdir, Loosens
<1>11. CASE PurgeAgain(t)
  <2>1. CASE task[t].attempt < Attempts
    <3>1. task'[t] = [task[t] EXCEPT !.pc = "unlink", !.attempt = @ + 1]
          /\ \A u \in Task \ {t} : task'[u] = task[u]
      BY <1>11, <2>1 DEF PurgeAgain, HandleInv, LibraryTypeOK, Doing
    <3> QED
      BY <1>11, <3>1 DEF PurgeAgain, Loosens, HandleInv, LibraryTypeOK, Doing
  <2>2. CASE ~(task[t].attempt < Attempts)
    BY <1>11, <2>2, Becoming, Closing DEF PurgeAgain, Loosens
  <2> QED
    BY <2>1, <2>2
<1> QED
  BY <1>2, <1>3, <1>4, <1>5, <1>6, <1>7, <1>8, <1>9, <1>10, <1>11, <1>12, <1>13

\* What the task that creates a file becomes, and what the file is.
Created(t, i) ==
  /\ \/ /\ task[t].inPlace /\ weights' = i /\ part' = part
        /\ i = weights \/ (weights = None /\ i # part /\ \A u \in Task : ~Uses(u, i))
     \/ /\ ~task[t].inPlace /\ part' = i /\ weights' = weights
        /\ i = part \/ (part = None /\ i # weights /\ \A u \in Task : ~Uses(u, i))
  /\ task[t].pc = "create" /\ task[t].fd = None /\ task[t].pending = {}
  /\ task'[t].pc = "stream" /\ task'[t].fd = i /\ task'[t].next = 1
  /\ task'[t].pending = {} /\ ~task'[t].broken /\ task'[t].inPlace = task[t].inPlace
  /\ task'[t].data = task[t].data
  /\ \A u \in Task \ {t} : task'[u] = task[u]
  /\ \A j \in Inode \ {i} : file'[j] = file[j]
  /\ file'[i].chunks = {} /\ ~file'[i].lost
  /\ ~file'[i].shared => ~task[t].inPlace /\ \A u \in Task : ~Uses(u, i)

LEMMA Creates ==
  ASSUME HandleInv, NEW t \in Task, Create(t)
  PROVE  \E i \in Inode : Created(t, i)
<1>1. PICK i \in Inode :
        IF task[t].inPlace
          THEN Open(t, weights, i) /\ weights' = i /\ UNCHANGED part
          ELSE Open(t, part, i) /\ part' = i /\ UNCHANGED weights
  BY DEF Create
<1>2. task' = [task EXCEPT ![t].pc = "stream", ![t].fd = i]
      /\ file' = [file EXCEPT ![i] =
           [NewFile EXCEPT !.shared = task[t].inPlace \/ Users(i) # {}]]
  BY <1>1 DEF Open
<1>3. /\ task[t].pc = "create" /\ task[t].pending = {}
      /\ task[t].fd = None /\ task[t].next = 1 /\ ~task[t].broken
  BY DEF Create, At, HandleInv, Handle
<1>4. /\ task'[t].pc = "stream" /\ task'[t].fd = i /\ task'[t].next = 1
      /\ task'[t].pending = {} /\ ~task'[t].broken /\ task'[t].inPlace = task[t].inPlace
      /\ task'[t].data = task[t].data
      /\ \A u \in Task \ {t} : task'[u] = task[u]
  BY <1>2, <1>3 DEF HandleInv, LibraryTypeOK, Doing
<1>5. /\ \A j \in Inode \ {i} : file'[j] = file[j]
      /\ file'[i].chunks = {} /\ ~file'[i].lost
      /\ file'[i].shared = (task[t].inPlace \/ Users(i) # {})
  BY <1>2 DEF HandleInv, LibraryTypeOK, NewFile
<1>6. Users(i) = {} => \A u \in Task : ~Uses(u, i)
  BY DEF Users, Uses
<1>7. \/ /\ task[t].inPlace /\ weights' = i /\ part' = part
         /\ i = weights \/ (weights = None /\ i # part /\ \A u \in Task : ~Uses(u, i))
      \/ /\ ~task[t].inPlace /\ part' = i /\ weights' = weights
         /\ i = part \/ (part = None /\ i # weights /\ \A u \in Task : ~Uses(u, i))
  <2>1. CASE task[t].inPlace
    BY <1>1, <2>1, Opens
  <2>2. CASE ~task[t].inPlace
    BY <1>1, <2>2, Opens
  <2> QED
    BY <2>1, <2>2
<1> QED
  BY <1>3, <1>4, <1>5, <1>6, <1>7 DEF Created

LEMMA CreateAtomic ==
  ASSUME HandleInv, HandleInv', AtomicInv, NEW t \in Task, Create(t)
  PROVE  AtomicInv'
<1>i. PICK i \in Inode : Created(t, i)
  BY Creates
<1>1. /\ \/ /\ task[t].inPlace /\ weights' = i /\ part' = part
            /\ i = weights \/ (weights = None /\ i # part /\ \A u \in Task : ~Uses(u, i))
         \/ /\ ~task[t].inPlace /\ part' = i /\ weights' = weights
            /\ i = part \/ (part = None /\ i # weights /\ \A u \in Task : ~Uses(u, i))
      /\ task[t].pc = "create" /\ task[t].fd = None /\ task[t].pending = {}
      /\ task'[t].pc = "stream" /\ task'[t].fd = i /\ task'[t].next = 1
      /\ task'[t].pending = {} /\ ~task'[t].broken /\ task'[t].inPlace = task[t].inPlace
      /\ \A u \in Task \ {t} : task'[u] = task[u]
      /\ \A j \in Inode \ {i} : file'[j] = file[j]
      /\ file'[i].chunks = {}
      /\ ~file'[i].shared => ~task[t].inPlace /\ \A u \in Task : ~Uses(u, i)
  BY <1>i DEF Created
<1>2. i # None
  BY LibraryAssumption
<1>3. part' # None => part' # weights'
  BY <1>1, <1>2 DEF AtomicInv
<1>4. \A u \in Task \ {t}, j \in Inode : Uses(u, j)' <=> Uses(u, j)
  BY <1>1 DEF Uses
<1>5. \A j \in Inode : Uses(t, j)' <=> j = i
  BY <1>1 DEF Uses
<1>6. ASSUME NEW j \in Inode
      PROVE  OneUser(j)'
  <2>1. CASE j = i
    BY <1>1, <1>4, <2>1 DEF OneUser
  <2>2. CASE j # i
    BY <1>1, <1>4, <1>5, <2>2 DEF OneUser, AtomicInv
  <2> QED
    BY <2>1, <2>2
<1>7. ASSUME NEW u \in Task
      PROVE  Private(u)'
  <2>1. CASE u = t
    <3>1. ~file'[i].shared => task'[t].fd # weights'
      BY <1>1, <1>2 DEF AtomicInv
    <3>2. Delivered(t)'
      BY <1>1 DEF Delivered
    <3> QED
      BY <1>1, <2>1, <3>1, <3>2 DEF Private
  <2>2. CASE u # t
    <3> SUFFICES ASSUME task'[u].fd # None, ~file'[task'[u].fd].shared
                 PROVE  Private(u)'
      BY DEF Private
    <3>1. task'[u] = task[u]
      BY <1>1, <2>2
    <3>2. PICK j \in Inode : j = task[u].fd
      BY <3>1 DEF HandleInv, LibraryTypeOK, Doing
    <3>3. Uses(u, j)
      BY <3>2 DEF Uses
    <3>4. j # i
      BY <1>1, <3>1, <3>2, <3>3
    <3>5. file'[j] = file[j]
      BY <1>1, <3>4
    <3>6. j # weights => j # weights'
      BY <1>1, <3>4
    <3>7. Private(u)
      BY DEF AtomicInv
    <3> QED
      BY <3>1, <3>2, <3>5, <3>6, <3>7 DEF Private, Delivered
  <2> QED
    BY <2>1, <2>2
<1>8. NamedWhole'
  <2> SUFFICES ASSUME Cached', ~file'[weights'].shared
               PROVE  NamedWhole'
    BY DEF NamedWhole
  <2>1. weights' = weights /\ Cached
    BY <1>1 DEF Cached
  <2>2. weights \in Inode \ {i}
    BY <1>1, <1>2, <2>1 DEF AtomicInv, Cached, HandleInv, LibraryTypeOK
  <2>3. file'[weights] = file[weights]
    BY <1>1, <2>2
  <2>4. \A u \in Task : task'[u].pending = task[u].pending
    BY <1>1
  <2> QED
    BY <2>1, <2>3, <2>4 DEF AtomicInv, NamedWhole, LastDue
<1> QED
  BY <1>3, <1>6, <1>7, <1>8 DEF AtomicInv

\* What a chunk that is handed over changes.
Handed(t) ==
  /\ task[t].pc = "stream" /\ task[t].fd \in Inode /\ task[t].next \in Chunk
  /\ task[t].pending = {} /\ ~task[t].broken
  /\ task'[t].pc = "stream" /\ task'[t].fd = task[t].fd
  /\ task'[t].inPlace = task[t].inPlace /\ ~task'[t].broken /\ task'[t].data = task[t].data
  /\ task'[t].pending = {<<task[t].fd, Brought(t)>>}
  /\ task'[t].next = task[t].next + 1
  /\ \A u \in Task \ {t} : task'[u] = task[u]
  /\ UNCHANGED <<part, weights, file>>

LEMMA Hands ==
  ASSUME HandleInv, NEW t \in Task, Hand(t)
  PROVE  Handed(t)
<1>1. task[t] \in Doing /\ Handle(task[t]) /\ task[t].pc = "stream" /\ task[t].next <= Chunks
  BY DEF Hand, HandleInv, LibraryTypeOK, At
<1>2. task[t].fd \in Inode /\ task[t].next \in Chunk
  BY <1>1, LibraryAssumption DEF Handle, Doing, Chunk
<1>3. task' = [task EXCEPT ![t].pending = {<<task[t].fd, Brought(t)>>}, ![t].next = @ + 1]
      /\ task[t].pending = {} /\ ~task[t].broken /\ UNCHANGED <<part, weights, file>>
  BY DEF Hand
<1>4. /\ task'[t].pc = task[t].pc /\ task'[t].fd = task[t].fd
      /\ task'[t].inPlace = task[t].inPlace /\ task'[t].broken = task[t].broken
      /\ task'[t].data = task[t].data
      /\ task'[t].pending = {<<task[t].fd, Brought(t)>>}
      /\ task'[t].next = task[t].next + 1
      /\ \A u \in Task \ {t} : task'[u] = task[u]
  BY <1>1, <1>3 DEF HandleInv, LibraryTypeOK, Doing
<1> QED
  BY <1>1, <1>2, <1>3, <1>4 DEF Handed

LEMMA HandAtomic ==
  ASSUME HandleInv, HandleInv', AtomicInv, NEW t \in Task, Handed(t)
  PROVE  AtomicInv'
<1>1. \A u \in Task, i \in Inode : Uses(u, i)' => Uses(u, i)
  BY DEF Handed, Uses
<1>2. ASSUME NEW i \in Inode
      PROVE  OneUser(i)'
  BY <1>1 DEF OneUser, AtomicInv, Handed
<1>3. ASSUME NEW u \in Task
      PROVE  Private(u)'
  <2>1. Private(u)
    BY DEF AtomicInv
  <2>2. CASE u = t
    <3>1. ~task[t].data /\ Delivered(t) => Delivered(t)'
      <4> SUFFICES ASSUME ~task[t].data, Delivered(t), NEW c \in 1..task[t].next
                   PROVE  c \in file[task[t].fd].chunks \/ <<task[t].fd, c>> \in task'[t].pending
        BY DEF Delivered, Handed, Chunk
      <4>1. CASE c = task[t].next
        BY <4>1 DEF Handed, Brought
      <4>2. CASE c # task[t].next
        <5>1. c \in 1..task[t].next - 1
          BY <4>2 DEF Handed, Chunk
        <5> QED
          BY <5>1 DEF Delivered, Handed
      <4> QED
        BY <4>1, <4>2
    <3> QED
      BY <2>1, <2>2, <3>1 DEF Private, Handed
  <2>3. CASE u # t
    BY <2>1, <2>3 DEF Private, Delivered, Handed
  <2> QED
    BY <2>2, <2>3
<1>4. NamedWhole'
  <2>1. \A u \in Task : \A w : w \in task[u].pending => w \in task'[u].pending
    BY DEF Handed
  <2>2. LastDue => LastDue'
    BY <2>1 DEF LastDue, Handed
  <2>3. ~file[weights].shared => task[t].fd # weights
    BY LibraryAssumption DEF AtomicInv, Private, Handed
  <2>4. ~file[weights].shared => \A u \in Task :
          <<weights, Foreign>> \in task'[u].pending => <<weights, Foreign>> \in task[u].pending
    BY <2>3 DEF Handed
  <2> QED
    BY <2>2, <2>4 DEF AtomicInv, NamedWhole, Handed, Cached
<1> QED
  BY <1>2, <1>3, <1>4 DEF AtomicInv, Handed

\* What changes when the write w that was handed over has ended, or has failed.
Ended(t, w) ==
  /\ task[t].pending = {w} /\ w[1] \in Inode /\ w[2] \in Content /\ w = <<w[1], w[2]>>
  /\ task[t].fd # None => task[t].fd = w[1]
  /\ task[t].fd # None /\ ~task[t].data => w[2] = task[t].next - 1 /\ w[2] # Foreign
  /\ task'[t].pc = task[t].pc /\ task'[t].fd = task[t].fd /\ task'[t].data = task[t].data
  /\ task'[t].inPlace = task[t].inPlace /\ task'[t].next = task[t].next
  /\ task'[t].pending = {}
  /\ \A u \in Task \ {t} : task'[u] = task[u]
  /\ UNCHANGED <<part, weights>>

Wrote(t, w) ==
  /\ task'[t].broken = task[t].broken
  /\ \A i \in Inode : Reachable(i)' =>
       /\ file'[i].shared = file[i].shared /\ file'[i].lost = file[i].lost
       /\ file'[i].chunks = IF i = w[1] THEN file[i].chunks \cup {w[2]} ELSE file[i].chunks

Lost(t, w) ==
  /\ task'[t].broken = (task[t].fd = w[1])
  /\ \A i \in Inode : Reachable(i)' =>
       /\ file'[i].shared = file[i].shared /\ file'[i].chunks = file[i].chunks
       /\ file'[i].lost = (file[i].lost \/ i = w[1])

LEMMA Ends ==
  ASSUME HandleInv, NEW t \in Task, NEW w \in task[t].pending, NEW b,
         task' = [task EXCEPT ![t].pending = {}, ![t].broken = b],
         UNCHANGED <<part, weights>>
  PROVE  Ended(t, w) /\ task'[t].broken = b
<1>1. task[t] \in Doing /\ Handle(task[t])
  BY DEF HandleInv, LibraryTypeOK
<1>2. task[t].pending = {w}
  BY <1>1 DEF Handle
<1>3. w \in Inode \X Content
  BY <1>1 DEF Doing
<1>4. task[t].fd # None => w = <<task[t].fd, IF task[t].data THEN Foreign ELSE task[t].next - 1>>
  BY <1>1 DEF Handle
<1>5. /\ task'[t].pc = task[t].pc /\ task'[t].fd = task[t].fd /\ task'[t].data = task[t].data
      /\ task'[t].inPlace = task[t].inPlace /\ task'[t].next = task[t].next
      /\ task'[t].pending = {} /\ task'[t].broken = b
      /\ \A u \in Task \ {t} : task'[u] = task[u]
  BY <1>1 DEF HandleInv, LibraryTypeOK, Doing
<1>6. w[1] \in Inode /\ w[2] \in Content /\ w = <<w[1], w[2]>>
  BY <1>3
<1>7. task[t].fd # None => task[t].fd = w[1] /\ (~task[t].data => w[2] = task[t].next - 1)
  BY <1>4
<1>8. task[t].next - 1 # Foreign
  BY <1>1, LibraryAssumption DEF Doing, Foreign
<1> QED
  BY <1>2, <1>5, <1>6, <1>7, <1>8 DEF Ended

LEMMA Writes ==
  ASSUME HandleInv, NEW t \in Task, Write(t)
  PROVE  \E w : Ended(t, w) /\ Wrote(t, w)
<1>1. PICK w \in task[t].pending :
        /\ task' = [task EXCEPT ![t].pending = {}]
        /\ UNCHANGED <<part, weights>>
        /\ Reclaim([file EXCEPT ![w[1]].chunks = @ \cup {w[2]}])
  BY DEF Write
<1> DEFINE files == [file EXCEPT ![w[1]].chunks = @ \cup {w[2]}]
<1>2. task' = [task EXCEPT ![t].pending = {}, ![t].broken = task[t].broken]
  BY <1>1 DEF HandleInv, LibraryTypeOK, Doing
<1>3. Ended(t, w) /\ task'[t].broken = task[t].broken
  BY <1>1, <1>2, Ends
<1>4. files \in [Inode -> File]
  BY <1>3 DEF HandleInv, LibraryTypeOK, File, Ended
<1>5. \A i \in Inode : Reachable(i)' => file'[i] = files[i]
  BY <1>1, <1>4, Retains
<1>6. \A i \in Inode : /\ files[i].shared = file[i].shared /\ files[i].lost = file[i].lost
                       /\ files[i].chunks = IF i = w[1] THEN file[i].chunks \cup {w[2]}
                                                        ELSE file[i].chunks
  BY DEF HandleInv, LibraryTypeOK, File
<1>7. Wrote(t, w)
  <2> HIDE DEF files
  <2> QED
    BY <1>3, <1>5, <1>6 DEF Wrote
<1> QED
  BY <1>3, <1>7

LEMMA WritesFail ==
  ASSUME HandleInv, NEW t \in Task, WriteFails(t)
  PROVE  \E w : Ended(t, w) /\ Lost(t, w)
<1>1. PICK w \in task[t].pending :
        /\ task' = [task EXCEPT ![t].pending = {}, ![t].broken = task[t].fd = w[1]]
        /\ UNCHANGED <<part, weights>>
        /\ Reclaim([file EXCEPT ![w[1]].lost = TRUE])
  BY DEF WriteFails
<1> DEFINE files == [file EXCEPT ![w[1]].lost = TRUE]
<1>2. Ended(t, w) /\ task'[t].broken = (task[t].fd = w[1])
  BY <1>1, Ends
<1>3. files \in [Inode -> File]
  BY <1>2 DEF HandleInv, LibraryTypeOK, File, Ended
<1>4. \A i \in Inode : Reachable(i)' => file'[i] = files[i]
  BY <1>1, <1>3, Retains
<1>5. \A i \in Inode : /\ files[i].shared = file[i].shared /\ files[i].chunks = file[i].chunks
                       /\ files[i].lost = (file[i].lost \/ i = w[1])
  BY DEF HandleInv, LibraryTypeOK, File
<1>6. Lost(t, w)
  <2> HIDE DEF files
  <2> QED
    BY <1>2, <1>4, <1>5 DEF Lost
<1> QED
  BY <1>2, <1>6

LEMMA WriteAtomic ==
  ASSUME HandleInv, HandleInv', AtomicInv, NEW t \in Task, NEW w, Ended(t, w),
         Wrote(t, w) \/ Lost(t, w)
  PROVE  AtomicInv'
<1>1. \A u \in Task, i \in Inode : Uses(u, i)' => Uses(u, i)
  BY DEF Ended, Uses
<1>2. \A i \in Inode : Reachable(i)' =>
        /\ file'[i].shared = file[i].shared
        /\ \A c \in Chunk : c \in file[i].chunks => c \in file'[i].chunks
        /\ file[i].lost => file'[i].lost
  BY DEF Wrote, Lost
<1>3. \A i \in Inode : i = w[1] /\ Reachable(i)' => w[2] \in file'[i].chunks \/ file'[i].lost
  BY DEF Wrote, Lost
<1>4. ASSUME NEW i \in Inode
      PROVE  OneUser(i)'
  BY <1>1, <1>2 DEF OneUser, AtomicInv, Reachable
<1>5. ASSUME NEW u \in Task
      PROVE  Private(u)'
  <2> SUFFICES ASSUME task'[u].fd # None, ~file'[task'[u].fd].shared
               PROVE  Private(u)'
    BY DEF Private
  <2>1. task'[u].fd = task[u].fd /\ task'[u].next = task[u].next
        /\ task'[u].inPlace = task[u].inPlace /\ task'[u].data = task[u].data
    BY DEF Ended
  <2>2. PICK j \in Inode : j = task[u].fd
    BY <2>1 DEF HandleInv, LibraryTypeOK, Doing
  <2>3. Reachable(j)'
    BY <2>1, <2>2 DEF Reachable, Uses
  <2>4. Private(u) /\ ~file[j].shared
    BY <1>2, <2>1, <2>2, <2>3 DEF AtomicInv
  <2>5. /\ ~task[u].inPlace /\ j # weights
        /\ (task[u].broken => file[j].lost)
        /\ (~task[u].data => Delivered(u) /\ Foreign \notin file[j].chunks)
    BY <2>1, <2>2, <2>4 DEF Private
  <2>6. task'[u].broken => file'[j].lost
    <3>1. task'[u].broken = task[u].broken \/ (u = t /\ Lost(t, w) /\ task'[t].broken = (task[t].fd = w[1]))
      BY DEF Ended, Wrote, Lost
    <3>2. CASE task'[u].broken = task[u].broken
      BY <1>2, <2>3, <2>5, <3>2
    <3>3. CASE u = t /\ Lost(t, w) /\ task'[t].broken = (task[t].fd = w[1])
      BY <2>2, <2>3, <3>3 DEF Lost
    <3> QED
      BY <3>1, <3>2, <3>3
  <2>7. ASSUME ~task[u].data, NEW c \in 1..task[u].next - 1
        PROVE  \/ c \in file'[j].chunks
               \/ <<j, c>> \in task'[u].pending
               \/ task'[u].broken /\ c = task[u].next - 1
    <3>1. c \in Chunk
      BY LibraryAssumption DEF HandleInv, LibraryTypeOK, Doing, Chunk
    <3>2. \/ c \in file[j].chunks
          \/ <<j, c>> \in task[u].pending
          \/ task[u].broken /\ c = task[u].next - 1
      BY <2>2, <2>5, <2>7 DEF Delivered
    <3>3. CASE c \in file[j].chunks
      BY <1>2, <2>3, <3>1, <3>3
    <3>4. CASE u # t
      BY <1>2, <2>3, <3>1, <3>2, <3>4 DEF Ended
    <3>5. CASE u = t /\ <<j, c>> \in task[u].pending
      <4>1. w[1] = j /\ w[2] = c /\ c = task[u].next - 1
        BY <2>1, <2>2, <2>7, <3>5 DEF Ended
      <4> QED
        BY <2>2, <2>3, <3>5, <4>1 DEF Wrote, Lost
    <3>6. CASE u = t /\ task[u].broken /\ c = task[u].next - 1
      BY <2>1, <2>2, <3>6 DEF Ended, Wrote, Lost
    <3> QED
      BY <3>2, <3>3, <3>4, <3>5, <3>6
  <2>8. ~task[u].data => Delivered(u)'
    BY <2>1, <2>2, <2>7 DEF Delivered
  <2>10. ASSUME ~task[u].data
         PROVE  Foreign \notin file'[j].chunks
    <3>1. CASE w[1] = j
      <4>1. Uses(t, j) /\ Uses(u, j)
        BY <2>2, <3>1 DEF Uses, Ended
      <4>2. u = t
        BY <2>4, <4>1 DEF AtomicInv, OneUser
      <4>3. w[2] # Foreign
        BY <2>1, <2>10, <4>2 DEF Ended
      <4>4. file'[j].chunks \subseteq file[j].chunks \cup {w[2]}
        BY <2>3 DEF Wrote, Lost
      <4> QED
        BY <2>5, <2>10, <4>3, <4>4
    <3>2. CASE w[1] # j
      BY <2>3, <2>5, <2>10, <3>2 DEF Wrote, Lost
    <3> QED
      BY <3>1, <3>2
  <2>9. weights' = weights
    BY DEF Ended
  <2> QED
    BY <2>1, <2>2, <2>5, <2>6, <2>8, <2>9, <2>10 DEF Private
<1>6. NamedWhole'
  <2> SUFFICES ASSUME Cached', ~file'[weights'].shared
               PROVE  NamedWhole'
    BY DEF NamedWhole
  <2>1. weights' = weights /\ Cached
    BY DEF Ended, Cached
  <2>2. PICK j \in Inode : j = weights /\ Reachable(j)'
    BY <2>1 DEF Reachable, Cached, HandleInv, LibraryTypeOK
  <2>3. ~file[j].shared
    BY <1>2, <2>1, <2>2
  <2>4. \A c \in Chunk : c \in file[j].chunks \/ (c = Chunks /\ LastDue)
    BY <2>1, <2>2, <2>3 DEF AtomicInv, NamedWhole
  <2>5. LastDue => LastDue' \/ Chunks \in file'[j].chunks
    <3> SUFFICES ASSUME LastDue
                 PROVE  LastDue' \/ Chunks \in file'[j].chunks
      OBVIOUS
    <3>1. CASE file[weights].lost
      BY <1>2, <2>1, <2>2, <3>1 DEF LastDue
    <3>2. ASSUME NEW u \in Task, <<weights, Chunks>> \in task[u].pending
          PROVE  LastDue' \/ Chunks \in file'[j].chunks
      <4>1. CASE u # t
        BY <2>1, <3>2, <4>1 DEF LastDue, Ended
      <4>2. CASE u = t
        <5>1. w[1] = j /\ w[2] = Chunks
          BY <2>2, <3>2, <4>2 DEF Ended
        <5> QED
          BY <1>3, <2>1, <2>2, <5>1 DEF LastDue
      <4> QED
        BY <4>1, <4>2
    <3> QED
      BY <3>1, <3>2 DEF LastDue
  <2>6. Foreign \notin file[j].chunks /\ \A u \in Task : <<j, Foreign>> \notin task[u].pending
    BY <2>1, <2>2, <2>3 DEF AtomicInv, NamedWhole
  <2>7. Foreign \notin file'[j].chunks
    <3>1. w[1] = j => w[2] # Foreign
      BY <2>6 DEF Ended
    <3> QED
      BY <2>2, <2>6, <3>1 DEF Wrote, Lost
  <2>8. \A u \in Task : <<j, Foreign>> \notin task'[u].pending
    BY <2>6 DEF Ended
  <2> QED
    BY <1>2, <2>1, <2>2, <2>4, <2>5, <2>7, <2>8 DEF NamedWhole
<1> QED
  BY <1>4, <1>5, <1>6 DEF AtomicInv, Ended

LEMMA RenameAtomic ==
  ASSUME HandleInv, HandleInv', AtomicInv, NEW t \in Task, Rename(t)
  PROVE  AtomicInv'
<1> DEFINE files == [file EXCEPT ![part].shared = @ \/ task[t].fd # part]
<1>1. part \in Inode /\ weights' = part /\ part' = None /\ Cached'
  BY LibraryAssumption DEF Rename, Cached, HandleInv, LibraryTypeOK
<1>2. task'[t].fd = None /\ task'[t].pending = task[t].pending
      /\ \A u \in Task \ {t} : task'[u] = task[u]
  BY Becoming, Closing DEF Rename
<1>3. files \in [Inode -> File]
  BY <1>1 DEF HandleInv, LibraryTypeOK, File
<1>4. \A i \in Inode : Reachable(i)' => file'[i] = files[i]
  BY <1>3, Retains DEF Rename
<1>5. \A i \in Inode : Reachable(i)' =>
        /\ file'[i].chunks = file[i].chunks /\ file'[i].lost = file[i].lost
        /\ ~file'[i].shared => ~file[i].shared /\ (i = part => task[t].fd = part)
  <2>1. \A i \in Inode :
          /\ files[i].chunks = file[i].chunks /\ files[i].lost = file[i].lost
          /\ ~files[i].shared => ~file[i].shared /\ (i = part => task[t].fd = part)
    BY <1>1 DEF HandleInv, LibraryTypeOK, File
  <2> HIDE DEF files
  <2> QED
    BY <1>4, <2>1
<1> HIDE DEF files
<1>6. \A u \in Task, i \in Inode : Uses(u, i)' => Uses(u, i)
  BY <1>2, LibraryAssumption DEF Uses
<1>7. ASSUME NEW i \in Inode
      PROVE  OneUser(i)'
  BY <1>5, <1>6 DEF OneUser, AtomicInv, Reachable
<1>8. ASSUME NEW u \in Task
      PROVE  Private(u)'
  <2> SUFFICES ASSUME task'[u].fd # None, ~file'[task'[u].fd].shared
               PROVE  Private(u)'
    BY DEF Private
  <2>1. u # t /\ task'[u] = task[u]
    BY <1>2
  <2>2. PICK j \in Inode : j = task[u].fd
    BY <2>1 DEF HandleInv, LibraryTypeOK, Doing
  <2>3. Reachable(j)'
    BY <2>1, <2>2 DEF Reachable, Uses
  <2>4. /\ file'[j].chunks = file[j].chunks /\ file'[j].lost = file[j].lost
        /\ ~file[j].shared /\ (j = part => task[t].fd = part)
    BY <1>5, <2>1, <2>2, <2>3
  <2>5. j # part
    BY <2>1, <2>2, <2>4 DEF AtomicInv, OneUser, Uses
  <2>6. Private(u)
    BY DEF AtomicInv
  <2> QED
    BY <1>1, <2>1, <2>2, <2>4, <2>5, <2>6 DEF Private, Delivered
<1>9. NamedWhole'
  <2> SUFFICES ASSUME ~file'[part].shared
               PROVE  /\ \A c \in Chunk : c \in file'[part].chunks \/ (c = Chunks /\ LastDue')
                      /\ Foreign \notin file'[part].chunks
                      /\ \A u \in Task : <<part, Foreign>> \notin task'[u].pending
    BY <1>1 DEF NamedWhole
  <2>1. PICK j \in Inode : j = part
    BY <1>1
  <2>2. /\ file'[j].chunks = file[j].chunks /\ file'[j].lost = file[j].lost
        /\ ~file[j].shared /\ task[t].fd = j
    BY <1>1, <1>5, <2>1 DEF Reachable
  <2>3. Delivered(t) /\ (task[t].broken => file[j].lost) /\ Foreign \notin file[j].chunks
    BY <1>1, <2>1, <2>2, LibraryAssumption DEF AtomicInv, Private, Rename
  <2>4. task[t].next = Chunks + 1 /\ task[t].next - 1 = Chunks
    BY LibraryAssumption DEF Rename, At, HandleInv, Handle
  <2>6. task[t].pending \subseteq {<<j, Chunks>>}
    BY <2>2, <2>4, LibraryAssumption DEF HandleInv, Handle, Rename
  <2>5. ASSUME NEW c \in Chunk
        PROVE  c \in file'[j].chunks \/ (c = Chunks /\ LastDue')
    <3>1. c \in 1..task[t].next - 1
      BY <2>4 DEF Chunk
    <3>2. \/ c \in file[j].chunks
          \/ <<j, c>> \in task[t].pending
          \/ task[t].broken /\ c = Chunks
      BY <2>2, <2>3, <2>4, <3>1 DEF Delivered
    <3>3. CASE <<j, c>> \in task[t].pending
      <4>2. c = Chunks
        BY <2>6, <3>3
      <4> QED
        BY <1>1, <1>2, <2>1, <3>3, <4>2 DEF LastDue
    <3>4. CASE task[t].broken /\ c = Chunks
      BY <1>1, <2>1, <2>2, <2>3, <3>4 DEF LastDue
    <3> QED
      BY <2>2, <3>2, <3>3, <3>4
  <2>7. ASSUME NEW u \in Task
        PROVE  <<j, Foreign>> \notin task'[u].pending
    <3>1. Foreign # Chunks
      BY LibraryAssumption DEF Foreign
    <3>2. CASE u = t
      BY <1>2, <2>6, <3>1, <3>2
    <3>3. CASE u # t
      <4>1. ~Uses(u, j)
        BY <2>2, <3>3 DEF AtomicInv, OneUser, Uses
      <4> QED
        BY <1>2, <3>3, <4>1 DEF Uses
    <3> QED
      BY <3>2, <3>3
  <2> QED
    BY <2>1, <2>2, <2>3, <2>5, <2>7
<1> QED
  BY <1>1, <1>7, <1>8, <1>9 DEF AtomicInv

LEMMA CrashAtomic ==
  ASSUME HandleInv, HandleInv', AtomicInv, NEW t \in Task, Crash(t)
  PROVE  AtomicInv'
<1> DEFINE files == [i \in Inode |->
             [file[i] EXCEPT !.lost = @ \/ \E w \in task[t].pending : w[1] = i]]
<1>1. task'[t] = Idle /\ \A u \in Task \ {t} : task'[u] = task[u]
  BY Becoming DEF Crash
<1>2. files \in [Inode -> File]
  BY DEF HandleInv, LibraryTypeOK, File
<1>3. \A i \in Inode : Reachable(i)' => file'[i] = files[i]
  BY <1>2, Retains DEF Crash
<1>4. \A i \in Inode : Reachable(i)' =>
        /\ file'[i].chunks = file[i].chunks /\ file'[i].shared = file[i].shared
        /\ file'[i].lost = (file[i].lost \/ \E w \in task[t].pending : w[1] = i)
  <2>1. \A i \in Inode :
        /\ files[i].chunks = file[i].chunks /\ files[i].shared = file[i].shared
        /\ files[i].lost = (file[i].lost \/ \E w \in task[t].pending : w[1] = i)
    BY DEF HandleInv, LibraryTypeOK, File
  <2> HIDE DEF files
  <2> QED
    BY <1>3, <2>1
<1> HIDE DEF files
<1>5. task'[t].fd = None /\ task'[t].pending = {} /\ UNCHANGED <<part, weights>>
  BY <1>1 DEF Idle, Crash
<1>6. \A u \in Task, i \in Inode : Uses(u, i)' => Uses(u, i)
  BY <1>1, <1>5, LibraryAssumption DEF Uses
<1>7. ASSUME NEW i \in Inode
      PROVE  OneUser(i)'
  BY <1>4, <1>6 DEF OneUser, AtomicInv, Reachable
<1>8. ASSUME NEW u \in Task
      PROVE  Private(u)'
  <2> SUFFICES ASSUME task'[u].fd # None, ~file'[task'[u].fd].shared
               PROVE  Private(u)'
    BY DEF Private
  <2>1. u # t /\ task'[u] = task[u]
    BY <1>1, <1>5
  <2>2. PICK j \in Inode : j = task[u].fd
    BY <2>1 DEF HandleInv, LibraryTypeOK, Doing
  <2>3. Reachable(j)'
    BY <2>1, <2>2 DEF Reachable, Uses
  <2>4. /\ file'[j].chunks = file[j].chunks /\ file'[j].shared = file[j].shared
        /\ file[j].lost => file'[j].lost
    BY <1>4, <2>3
  <2>5. Private(u)
    BY DEF AtomicInv
  <2> QED
    BY <1>5, <2>1, <2>2, <2>4, <2>5 DEF Private, Delivered
<1>9. NamedWhole'
  <2> SUFFICES ASSUME Cached', ~file'[weights'].shared
               PROVE  NamedWhole'
    BY DEF NamedWhole
  <2>1. PICK j \in Inode : j = weights /\ weights' = weights /\ Cached
    BY <1>5 DEF Cached, HandleInv, LibraryTypeOK
  <2>2. /\ file'[j].chunks = file[j].chunks /\ file'[j].shared = file[j].shared
        /\ file'[j].lost = (file[j].lost \/ \E w \in task[t].pending : w[1] = j)
    BY <1>4, <2>1 DEF Reachable
  <2>3. LastDue => LastDue'
    <3>1. ASSUME NEW u \in Task, <<weights, Chunks>> \in task[u].pending
          PROVE  LastDue'
      <4>1. CASE u = t
        BY <2>1, <2>2, <3>1, <4>1 DEF LastDue
      <4>2. CASE u # t
        BY <1>1, <2>1, <3>1, <4>2 DEF LastDue
      <4> QED
        BY <4>1, <4>2
    <3>2. CASE file[weights].lost
      BY <2>1, <2>2, <3>2 DEF LastDue
    <3> QED
      BY <3>1, <3>2 DEF LastDue
  <2>4. \A u \in Task : task'[u].pending \subseteq task[u].pending
    BY <1>1, <1>5
  <2> QED
    BY <2>1, <2>2, <2>3, <2>4 DEF AtomicInv, NamedWhole
<1> QED
  BY <1>5, <1>7, <1>8, <1>9 DEF AtomicInv

\* The steps that do more than loosen what their task holds.
LEMMA AtomicStays ==
  HandleInv /\ HandleInv' /\ AtomicInv /\ [LibraryNext]_libraryVars => AtomicInv'
<1>1. ASSUME AtomicInv, UNCHANGED libraryVars
      PROVE  AtomicInv'
  BY <1>1 DEF libraryVars, AtomicInv, OneUser, Uses, Private, Delivered, NamedWhole, LastDue, Cached
<1>2. ASSUME HandleInv, HandleInv', AtomicInv, LibraryNext
      PROVE  AtomicInv'
  <2>1. PICK t \in Task :
          \/ Works(t)
          \/ /\ UNCHANGED entry
             /\ \/ CallPull(t) \/ CallDownload(t) \/ CallPurge(t)
                \/ Abort(t) \/ DownloadFails(t) \/ WriteFails(t) \/ Crash(t)
    BY <1>2 DEF LibraryNext
  <2>2. \/ Loosens(t) \/ Create(t) \/ Handed(t) \/ Rename(t) \/ Crash(t)
        \/ \E w : Ended(t, w) /\ (Wrote(t, w) \/ Lost(t, w))
    BY <1>2, <2>1, StepsLoosen, Hands, Writes, WritesFail DEF Works, Step
  <2> QED
    BY <1>2, <2>2, LoosensAtomic, CreateAtomic, HandAtomic, RenameAtomic, CrashAtomic, WriteAtomic
<1> QED
  BY <1>1, <1>2

LEMMA AtomicInit == LibraryInit => AtomicInv
<1> SUFFICES ASSUME LibraryInit
             PROVE  AtomicInv
  OBVIOUS
<1>1. \A t \in Task : task[t].fd = None /\ task[t].pending = {}
  BY DEF LibraryInit, Idle
<1>2. \A t \in Task, i \in Inode : ~Uses(t, i)
  BY <1>1, LibraryAssumption DEF Uses
<1> QED
  BY <1>1, <1>2 DEF LibraryInit, AtomicInv, OneUser, Private, NamedWhole, Cached

\* Weights that one pull wrote and named are whole from then on but for the
\* last chunk, whatever fails and whenever a process dies: for any number of
\* tasks, chunks, calls and faults.
THEOREM NamedWhenWhole == LibrarySpec => []PartIsAtomic
<1>2. LibrarySpec => []AtomicInv
  BY AtomicInit, Typed, StaysTyped, AtomicStays, PTL DEF LibrarySpec
<1>3. LibraryTypeOK /\ AtomicInv => PartIsAtomic
  <2> SUFFICES ASSUME LibraryTypeOK, AtomicInv, Cached, ~file[weights].shared
               PROVE  /\ Chunk \ file[weights].chunks \subseteq {Chunks}
                      /\ \/ file[weights].chunks = Chunk
                         \/ file[weights].lost
                         \/ Users(weights) # {}
    BY DEF PartIsAtomic
  <2>1. \A c \in Chunk : c \in file[weights].chunks \/ (c = Chunks /\ LastDue)
    BY DEF AtomicInv, NamedWhole
  <2>2. file[weights].chunks \subseteq Chunk
    <3>1. file[weights].chunks \subseteq Content
      BY DEF LibraryTypeOK, Cached, File
    <3>2. Foreign \notin file[weights].chunks
      BY DEF AtomicInv, NamedWhole
    <3> QED
      BY <3>1, <3>2 DEF Content
  <2>3. LastDue => file[weights].lost \/ Users(weights) # {}
    BY DEF LastDue, Users
  <2> QED
    BY <2>1, <2>2, <2>3
<1> QED
  BY <1>2, <1>3, LibraryTypeCorrect, PTL

-----------------------------------------------------------------------------
(* What is left is whole *)

\* Chunk c of inode i is there, or on its way.
Coming(i, c) ==
  \/ c \in file[i].chunks
  \/ \E t \in Task : <<i, c>> \in task[t].pending
  \/ \E t \in Task : task[t].pc = "stream" /\ task[t].fd = i /\ task[t].next <= c

\* Unless something fails, what has a name is there or on its way: a task that
\* stops before the end takes the name away, and so does not write .part.
ComingInv ==
  faults = 0 /\ entry # "onnx" =>
    /\ part # None => part # weights
    /\ \A t \in Task : ~task[t].broken
    /\ \A t \in Task : task[t].inPlace /\ task[t].fd # None => task[t].fd # part
    /\ \A i \in Inode : i = part \/ i = weights => \A c \in Chunk : Coming(i, c)

\* A task that loosens what it holds has nothing left to bring to a name.
LEMMA LoosensComing ==
  ASSUME HandleInv, ComingInv, faults = 0, entry # "onnx", UNCHANGED entry, NEW t \in Task, Loosens(t),
         ~task'[t].broken,
         task[t].pc = "stream" => task[t].next > Chunks \/ task[t].fd \notin {part', weights'}
  PROVE  ComingInv'
<1>1. \A u \in Task : task'[u].pending = task[u].pending
  BY DEF Loosens
<1>2. \A u \in Task :
        \/ task'[u].fd = None
        \/ task'[u].fd = task[u].fd /\ task'[u].inPlace = task[u].inPlace
  BY DEF Loosens
<1>3. (part' # None => part' = part) /\ (weights' # None => weights' = weights)
  BY DEF Loosens
<1>4. \A u \in Task : ~task'[u].broken
  BY DEF Loosens, ComingInv
<1>5. ASSUME NEW i \in Inode, i = part' \/ i = weights', NEW c \in Chunk
      PROVE  Coming(i, c)'
  <2>1. i = part \/ i = weights
    BY <1>3, <1>5, LibraryAssumption
  <2>2. Coming(i, c)
    BY <2>1 DEF ComingInv
  <2>3. file'[i] = file[i]
    BY <1>5 DEF Loosens, Reachable
  <2>4. ASSUME NEW u \in Task, task[u].pc = "stream", task[u].fd = i, task[u].next <= c
        PROVE  Coming(i, c)'
    <3>1. CASE u = t
      <4>1. task[t].next > Chunks
        BY <1>5, <2>4, <3>1
      <4>2. task[t].next \in Nat /\ c \in Nat /\ c <= Chunks /\ Chunks \in Nat
        BY LibraryAssumption DEF HandleInv, LibraryTypeOK, Doing, Chunk
      <4> QED
        BY <2>4, <3>1, <4>1, <4>2
    <3>2. CASE u # t
      BY <2>4, <3>2 DEF Loosens, Coming
    <3> QED
      BY <3>1, <3>2
  <2> QED
    BY <1>1, <2>2, <2>3, <2>4 DEF Coming
<1> QED
  BY <1>2, <1>3, <1>4, <1>5 DEF ComingInv

LEMMA LooseningComing ==
  ASSUME HandleInv, HandleInv', ComingInv, faults' = 0, entry # "onnx", UNCHANGED entry,
         NEW t \in Task,
         \/ CallPull(t) \/ CallDownload(t) \/ CallPurge(t) \/ Look(t)
         \/ FetchExtras(t) \/ FetchData(t)
         \/ WriteManifest(t) \/ ManifestFails(t) \/ WriteDna(t)
         \/ CreateFails(t) \/ DownloadFails(t) \/ HandFails(t) \/ RenameFails(t) \/ RenameData(t)
         \/ StreamEnds(t) \/ Abort(t) \/ Unlink(t) \/ Rmdir(t) \/ PurgeAgain(t)
  PROVE  ComingInv'
<1>1. faults = 0 /\ ~DownloadFails(t)
  <2>1. UNCHANGED faults \/ Fault
    BY DEF CallPull, CallDownload, CallPurge, Look, FetchExtras, FetchData, WriteManifest,
      ManifestFails, WriteDna, CreateFails, DownloadFails, HandFails, RenameFails, RenameData,
      StreamEnds, Abort, Unlink, Rmdir, PurgeAgain
  <2>2. Fault => faults' # 0
    BY Faulted DEF HandleInv
  <2> QED
    BY <2>1, <2>2 DEF DownloadFails
<1>2. Loosens(t)
  BY StepsLoosen
<1>3. ~task[t].broken /\ ~task'[t].broken
  <2>1. ~task[t].broken
    BY <1>1 DEF ComingInv
  <2>2. task'[t].fd = None => ~task'[t].broken
    BY DEF HandleInv, Handle
  <2> QED
    BY <1>2, <2>1, <2>2 DEF Loosens
<1>4. task[t].pc = "stream" => task[t].next > Chunks \/ task[t].fd \notin {part', weights'}
  <2> SUFFICES ASSUME task[t].pc = "stream"
               PROVE  task[t].next > Chunks \/ task[t].fd \notin {part', weights'}
    OBVIOUS
  <2>1. StreamEnds(t) \/ Abort(t)
    <3>1. ~(CallPull(t) \/ CallDownload(t) \/ CallPurge(t))
      BY Starting DEF Started
    <3>2. ~HandFails(t)
      BY <1>3 DEF HandFails
    <3> QED
      BY <1>1, <3>1, <3>2 DEF Look, FetchExtras, FetchData, WriteManifest, ManifestFails,
        WriteDna, CreateFails, RenameFails, RenameData, Unlink, Rmdir, PurgeAgain, At
  <2>2. task[t].fd # None
    BY DEF HandleInv, Handle
  <2>3. ASSUME Abort(t)
        PROVE  task[t].fd \notin {part', weights'}
    BY <1>1, <2>2, <2>3 DEF Abort, ComingInv
  <2> QED
    BY <2>1, <2>3 DEF StreamEnds
<1> QED
  BY <1>1, <1>2, <1>3, <1>4, LoosensComing

LEMMA CreateComing ==
  ASSUME HandleInv, HandleInv', ComingInv, faults = 0, entry # "onnx", UNCHANGED entry, NEW t \in Task, Create(t)
  PROVE  ComingInv'
<1>i. PICK i \in Inode : Created(t, i)
  BY Creates
<1>1. /\ \/ /\ task[t].inPlace /\ weights' = i /\ part' = part
            /\ i = weights \/ (weights = None /\ i # part /\ \A u \in Task : ~Uses(u, i))
         \/ /\ ~task[t].inPlace /\ part' = i /\ weights' = weights
            /\ i = part \/ (part = None /\ i # weights /\ \A u \in Task : ~Uses(u, i))
      /\ task[t].pc = "create" /\ task[t].fd = None /\ task[t].pending = {}
      /\ task'[t].pc = "stream" /\ task'[t].fd = i /\ task'[t].next = 1
      /\ task'[t].pending = {} /\ ~task'[t].broken /\ task'[t].inPlace = task[t].inPlace
      /\ \A u \in Task \ {t} : task'[u] = task[u]
      /\ \A j \in Inode \ {i} : file'[j] = file[j]
  BY <1>i DEF Created
<1>2. i # None
  BY LibraryAssumption
<1>3. part' # None => part' # weights'
  BY <1>1, <1>2 DEF ComingInv
<1>4. \A u \in Task : ~task'[u].broken
  BY <1>1 DEF ComingInv
<1>5. ASSUME NEW u \in Task, task'[u].inPlace, task'[u].fd # None
      PROVE  task'[u].fd # part'
  <2>1. CASE u = t
    BY <1>1, <1>2, <1>5, <2>1 DEF ComingInv
  <2>2. CASE u # t
    <3>1. task'[u] = task[u] /\ task[u].fd # part
      BY <1>1, <1>5, <2>2 DEF ComingInv
    <3>2. part' # part => ~Uses(u, i) /\ part' = i
      BY <1>1
    <3> QED
      BY <3>1, <3>2 DEF Uses
  <2> QED
    BY <2>1, <2>2
<1>6. ASSUME NEW j \in Inode, j = part' \/ j = weights', NEW c \in Chunk
      PROVE  Coming(j, c)'
  <2>1. CASE j = i
    <3>1. 1 <= c
      BY DEF Chunk
    <3> QED
      BY <1>1, <2>1, <3>1 DEF Coming
  <2>2. CASE j # i
    <3>1. j = part \/ j = weights
      BY <1>1, <1>6, <2>2
    <3>2. Coming(j, c)
      BY <3>1 DEF ComingInv
    <3>3. file'[j] = file[j]
      BY <1>1, <2>2
    <3>4. \A u \in Task : task'[u].pending = task[u].pending
      BY <1>1
    <3>5. \A u \in Task : task[u].pc = "stream" => task'[u] = task[u]
      BY <1>1
    <3> QED
      BY <3>2, <3>3, <3>4, <3>5 DEF Coming
  <2> QED
    BY <2>1, <2>2
<1> QED
  BY <1>3, <1>4, <1>5, <1>6 DEF ComingInv

LEMMA HandComing ==
  ASSUME HandleInv, ComingInv, faults = 0, entry # "onnx", UNCHANGED entry, NEW t \in Task, Handed(t), ~task[t].data
  PROVE  ComingInv'
<1>1. ASSUME NEW i \in Inode, i = part \/ i = weights, NEW c \in Chunk
      PROVE  Coming(i, c)'
  <2>1. Coming(i, c)
    BY <1>1 DEF ComingInv
  <2>2. CASE c \in file[i].chunks
    BY <2>2 DEF Coming, Handed
  <2>3. ASSUME NEW u \in Task, <<i, c>> \in task[u].pending
        PROVE  <<i, c>> \in task'[u].pending
    BY <2>3 DEF Handed
  <2>4. ASSUME NEW u \in Task, task[u].pc = "stream", task[u].fd = i, task[u].next <= c
        PROVE  Coming(i, c)'
    <3>1. CASE u = t /\ task[t].next = c
      BY <2>4, <3>1 DEF Coming, Handed, Brought
    <3>2. CASE u = t /\ task[t].next # c
      <4>1. task[t].next + 1 <= c
        BY <2>4, <3>2, LibraryAssumption DEF Handed, Chunk
      <4> QED
        BY <2>4, <3>2, <4>1 DEF Coming, Handed
    <3>3. CASE u # t
      BY <2>4, <3>3 DEF Coming, Handed
    <3> QED
      BY <3>1, <3>2, <3>3
  <2> QED
    BY <2>1, <2>2, <2>3, <2>4 DEF Coming
<1> QED
  BY <1>1 DEF ComingInv, Handed

LEMMA WriteComing ==
  ASSUME HandleInv, ComingInv, faults = 0, entry # "onnx", UNCHANGED entry, NEW t \in Task, NEW w, Ended(t, w), Wrote(t, w)
  PROVE  ComingInv'
<1>1. ASSUME NEW i \in Inode, i = part \/ i = weights, NEW c \in Chunk
      PROVE  Coming(i, c)'
  <2>1. Coming(i, c)
    BY <1>1 DEF ComingInv
  <2>2. file'[i].chunks = IF i = w[1] THEN file[i].chunks \cup {w[2]} ELSE file[i].chunks
    BY <1>1 DEF Wrote, Ended, Reachable
  <2>3. CASE c \in file[i].chunks
    BY <2>2, <2>3 DEF Coming
  <2>4. ASSUME NEW u \in Task, <<i, c>> \in task[u].pending
        PROVE  Coming(i, c)'
    <3>1. CASE u = t
      <4>1. w[1] = i /\ w[2] = c
        BY <2>4, <3>1 DEF Ended
      <4> QED
        BY <2>2, <4>1 DEF Coming
    <3>2. CASE u # t
      BY <2>4, <3>2 DEF Coming, Ended
    <3> QED
      BY <3>1, <3>2
  <2>5. ASSUME NEW u \in Task, task[u].pc = "stream", task[u].fd = i, task[u].next <= c
        PROVE  Coming(i, c)'
    BY <2>5 DEF Coming, Ended
  <2> QED
    BY <2>1, <2>3, <2>4, <2>5 DEF Coming
<1> QED
  BY <1>1 DEF ComingInv, Ended, Wrote

LEMMA RenameComing ==
  ASSUME HandleInv, ComingInv, faults = 0, entry # "onnx", UNCHANGED entry, NEW t \in Task, Rename(t)
  PROVE  ComingInv'
<1> DEFINE files == [file EXCEPT ![part].shared = @ \/ task[t].fd # part]
<1>1. part \in Inode /\ weights' = part /\ part' = None
  BY DEF Rename, HandleInv, LibraryTypeOK
<1>2. /\ task[t].pc = "rename" /\ task'[t].fd = None /\ ~task'[t].broken
      /\ task'[t].pending = task[t].pending
      /\ \A u \in Task \ {t} : task'[u] = task[u]
  BY Becoming, Closing DEF Rename, At
<1>3. files \in [Inode -> File] /\ \A i \in Inode : files[i].chunks = file[i].chunks
  BY <1>1 DEF HandleInv, LibraryTypeOK, File
<1>4. file'[part].chunks = file[part].chunks
  <2>1. \A i \in Inode : Reachable(i)' => file'[i] = files[i]
    BY <1>3, Retains DEF Rename
  <2>2. PICK j \in Inode : j = part /\ Reachable(j)'
    BY <1>1 DEF Reachable
  <2> HIDE DEF files
  <2> QED
    BY <1>3, <2>1, <2>2
<1>5. ASSUME NEW i \in Inode, i = part, NEW c \in Chunk
      PROVE  Coming(i, c)'
  <2>1. Coming(i, c)
    BY <1>5 DEF ComingInv
  <2>2. file'[i].chunks = file[i].chunks
    BY <1>4, <1>5
  <2>3. \A u \in Task : task[u].pc = "stream" => task'[u] = task[u]
    BY <1>2
  <2>4. \A u \in Task : task'[u].pending = task[u].pending
    BY <1>2
  <2> QED
    BY <2>1, <2>2, <2>3, <2>4 DEF Coming
<1>6. None \notin Inode
  BY LibraryAssumption
<1> QED
  BY <1>1, <1>2, <1>5, <1>6 DEF ComingInv

LEMMA ComingStays ==
  HandleInv /\ HandleInv' /\ ListInv /\ ComingInv /\ [LibraryNext]_libraryVars => ComingInv'
<1>1. ASSUME ComingInv, UNCHANGED libraryVars
      PROVE  ComingInv'
  BY <1>1 DEF libraryVars, ComingInv, Coming
<1>2. ASSUME HandleInv, HandleInv', ListInv, ComingInv, LibraryNext, faults' = 0, entry' # "onnx"
      PROVE  ComingInv'
  <2>1. PICK t \in Task :
          \/ Works(t)
          \/ /\ UNCHANGED entry
             /\ \/ CallPull(t) \/ CallDownload(t) \/ CallPurge(t)
                \/ Abort(t) \/ DownloadFails(t) \/ WriteFails(t) \/ Crash(t)
    BY <1>2 DEF LibraryNext
  <2>2. ~WriteFails(t) /\ ~Crash(t)
    BY <1>2, Faulted DEF WriteFails, Crash, HandleInv
  <2>3. Create(t) \/ Hand(t) \/ Write(t) \/ Rename(t) => faults = 0
    BY <1>2 DEF Create, Hand, Write, Rename
  <2>6. UNCHANGED entry /\ entry # "onnx" /\ ~task[t].data
    BY <1>2, <2>1 DEF Works, ListInv
  <2>4. CASE Create(t) \/ Hand(t) \/ Write(t) \/ Rename(t)
    BY <1>2, <2>3, <2>4, <2>6, CreateComing, Hands, HandComing, Writes, WriteComing, RenameComing
  <2>5. CASE ~(Create(t) \/ Hand(t) \/ Write(t) \/ Rename(t))
    BY <1>2, <2>1, <2>2, <2>5, <2>6, LooseningComing DEF Works, Step
  <2> QED
    BY <2>4, <2>5
<1>3. faults' # 0 \/ entry' = "onnx" => ComingInv'
  BY DEF ComingInv
<1> QED
  BY <1>1, <1>2, <1>3

\* Data comes with an ONNX model only, and unless something fails no write is lost.
DataInv ==
  /\ entry # "onnx" =>
       /\ \A t \in Task : \A w \in task[t].pending : w[2] # Foreign
       /\ \A i \in Inode : Reachable(i) => Foreign \notin file[i].chunks
  /\ faults = 0 => \A i \in Inode : Reachable(i) => ~file[i].lost

\* No step brings a file back that nobody could reach but that of File::create.
LEMMA DataLoosens ==
  ASSUME HandleInv, DataInv, NEW t \in Task, UNCHANGED entry, faults' = 0 => faults = 0,
         Loosens(t)
  PROVE  DataInv'
<1>1. \A u \in Task : task'[u].pending = task[u].pending
  BY DEF Loosens
<1>2. \A i \in Inode : Reachable(i)' => Reachable(i) /\ file'[i] = file[i]
  BY LibraryAssumption DEF Loosens, Reachable, Uses
<1> QED
  BY <1>1, <1>2 DEF DataInv

LEMMA DataCreate ==
  ASSUME HandleInv, DataInv, NEW t \in Task, UNCHANGED entry, faults' = 0 => faults = 0,
         Create(t)
  PROVE  DataInv'
<1>1. PICK i \in Inode : Created(t, i)
  BY Creates
<1>2. \A u \in Task : task'[u].pending = task[u].pending
  BY <1>1 DEF Created
<1>3. \A j \in Inode \ {i} : Reachable(j)' => Reachable(j) /\ file'[j] = file[j]
  BY <1>1, LibraryAssumption DEF Created, Reachable, Uses
<1>4. file'[i].chunks = {} /\ ~file'[i].lost
  BY <1>1 DEF Created
<1> QED
  BY <1>2, <1>3, <1>4 DEF DataInv

LEMMA DataHand ==
  ASSUME HandleInv, ListInv, DataInv, NEW t \in Task, UNCHANGED entry, faults' = 0 => faults = 0,
         Handed(t)
  PROVE  DataInv'
<1>1. \A i \in Inode : Reachable(i)' => Reachable(i) /\ file'[i] = file[i]
  BY DEF Handed, Reachable, Uses
<1>2. ASSUME entry # "onnx", NEW u \in Task, NEW w \in task'[u].pending
      PROVE  w[2] # Foreign
  <2>1. CASE u = t
    <3>1. w[2] = Brought(t) /\ ~task[t].data
      BY <1>2, <2>1 DEF Handed, ListInv
    <3> QED
      BY <3>1, LibraryAssumption DEF Brought, Handed, Chunk, Foreign
  <2>2. CASE u # t
    BY <1>2, <2>2 DEF Handed, DataInv
  <2> QED
    BY <2>1, <2>2
<1> QED
  BY <1>1, <1>2 DEF DataInv

LEMMA DataWrite ==
  ASSUME HandleInv, DataInv, NEW t \in Task, UNCHANGED entry, faults' = 0 => faults = 0, NEW w,
         Ended(t, w), Wrote(t, w) \/ (Lost(t, w) /\ faults' # 0)
  PROVE  DataInv'
<1>1. \A i \in Inode : Reachable(i)' => Reachable(i)
  BY DEF Ended, Reachable, Uses
<1>2. \A u \in Task : task'[u].pending \subseteq task[u].pending
  BY DEF Ended
<1>3. entry # "onnx" => w[2] # Foreign
  BY DEF Ended, DataInv
<1>4. \A i \in Inode : Reachable(i)' =>
        /\ file'[i].chunks \subseteq file[i].chunks \cup {w[2]}
        /\ faults' = 0 => file'[i].lost = file[i].lost
  BY DEF Wrote, Lost
<1> QED
  BY <1>1, <1>2, <1>3, <1>4 DEF DataInv

LEMMA DataRename ==
  ASSUME HandleInv, DataInv, NEW t \in Task, UNCHANGED entry, faults' = 0 => faults = 0,
         Rename(t)
  PROVE  DataInv'
<1> DEFINE files == [file EXCEPT ![part].shared = @ \/ task[t].fd # part]
<1>1. part \in Inode /\ weights' = part /\ part' = None
  BY DEF Rename, HandleInv, LibraryTypeOK
<1>2. /\ task'[t].fd = None
      /\ \A u \in Task : task'[u].pending = task[u].pending
      /\ \A u \in Task \ {t} : task'[u] = task[u]
  BY Becoming, Closing DEF Rename
<1>3. files \in [Inode -> File]
      /\ \A i \in Inode : files[i].chunks = file[i].chunks /\ files[i].lost = file[i].lost
  BY <1>1 DEF HandleInv, LibraryTypeOK, File
<1>4. \A i \in Inode : Reachable(i)' => file'[i] = files[i]
  BY <1>3, Retains DEF Rename
<1>5. \A i \in Inode : Reachable(i)' => Reachable(i)
  BY <1>1, <1>2, LibraryAssumption DEF Reachable, Uses
<1> HIDE DEF files
<1> QED
  BY <1>2, <1>3, <1>4, <1>5 DEF DataInv

LEMMA DataCrash ==
  ASSUME HandleInv, DataInv, NEW t \in Task, UNCHANGED entry, faults' # 0, Crash(t)
  PROVE  DataInv'
<1> DEFINE files == [i \in Inode |->
             [file[i] EXCEPT !.lost = @ \/ \E w \in task[t].pending : w[1] = i]]
<1>1. task'[t] = Idle /\ \A u \in Task \ {t} : task'[u] = task[u]
  BY Becoming DEF Crash
<1>2. task'[t].fd = None /\ task'[t].pending = {} /\ UNCHANGED <<part, weights>>
  BY <1>1 DEF Idle, Crash
<1>3. files \in [Inode -> File] /\ \A i \in Inode : files[i].chunks = file[i].chunks
  BY DEF HandleInv, LibraryTypeOK, File
<1>4. \A i \in Inode : Reachable(i)' => file'[i] = files[i]
  BY <1>3, Retains DEF Crash
<1>5. \A i \in Inode : Reachable(i)' => Reachable(i)
  BY <1>1, <1>2, LibraryAssumption DEF Reachable, Uses
<1>6. \A u \in Task : task'[u].pending \subseteq task[u].pending
  BY <1>1, <1>2
<1> HIDE DEF files
<1> QED
  BY <1>3, <1>4, <1>5, <1>6 DEF DataInv

LEMMA DataStays ==
  HandleInv /\ HandleInv' /\ ListInv /\ DataInv /\ [LibraryNext]_libraryVars => DataInv'
<1>1. ASSUME DataInv, UNCHANGED libraryVars
      PROVE  DataInv'
  BY <1>1 DEF libraryVars, DataInv, Reachable, Uses
<1>2. ASSUME HandleInv, HandleInv', ListInv, DataInv, LibraryNext
      PROVE  DataInv'
  <2>1. PICK t \in Task :
          \/ Works(t)
          \/ /\ UNCHANGED entry
             /\ \/ CallPull(t) \/ CallDownload(t) \/ CallPurge(t)
                \/ Abort(t) \/ DownloadFails(t) \/ WriteFails(t) \/ Crash(t)
    BY <1>2 DEF LibraryNext
  <2>2. KeepsList(t) /\ UNCHANGED entry
    BY <1>2, <2>1, PullKeepsList, DownloadKeepsList, OthersKeepList DEF Works, Step
  <2>3. faults' = 0 => faults = 0
    BY <2>2 DEF KeepsList
  <2>4. WriteFails(t) \/ Crash(t) => faults' # 0
    BY <1>2, Faulted DEF WriteFails, Crash, HandleInv
  <2>5. \/ Loosens(t) \/ Create(t) \/ Handed(t) \/ Rename(t) \/ Crash(t)
        \/ \E w : Ended(t, w) /\ (Wrote(t, w) \/ (Lost(t, w) /\ faults' # 0))
    BY <1>2, <2>1, <2>4, StepsLoosen, Hands, Writes, WritesFail DEF Works, Step
  <2> QED
    BY <1>2, <2>2, <2>3, <2>4, <2>5, DataLoosens, DataCreate, DataHand, DataRename, DataCrash,
      DataWrite
<1> QED
  BY <1>1, <1>2

\* However pulls, downloads, aborts and purges overlap, as long as nothing fails
\* the weights that are left when all are done are whole; for an ONNX model, those
\* that one pull wrote and named: for any number of tasks, chunks and calls.
THEOREM LeftIsWhole == LibrarySpec => []QuietIsWhole
<1>1. LibraryInit => ComingInv /\ DataInv
  BY LibraryAssumption DEF LibraryInit, ComingInv, DataInv, Reachable, Uses, Idle, NewFile
<1>2. LibraryInit => ListInv /\ AtomicInv
  BY ListInit, AtomicInit
<1>3. LibrarySpec => [](ListInv /\ AtomicInv /\ ComingInv /\ DataInv)
  BY <1>1, <1>2, Typed, StaysTyped, ListStays, AtomicStays, ComingStays, DataStays, PTL
  DEF LibrarySpec
<1>4. LibraryTypeOK /\ AtomicInv /\ ComingInv /\ DataInv => QuietIsWhole
  <2> SUFFICES ASSUME LibraryTypeOK, AtomicInv, ComingInv, DataInv, Quiet, faults = 0, Cached,
                      entry = "onnx" => ~file[weights].shared
               PROVE  file[weights].chunks = Chunk
    BY DEF QuietIsWhole
  <2>1. weights \in Inode /\ file[weights].chunks \subseteq Content
    BY DEF LibraryTypeOK, Cached, File
  <2>2. \A t \in Task : task[t].pending = {} /\ task[t].pc = "idle"
    BY DEF Quiet, Idle
  <2>3. CASE entry # "onnx"
    <3>1. \A c \in Chunk : Coming(weights, c)
      BY <2>1, <2>3 DEF ComingInv
    <3>2. Foreign \notin file[weights].chunks
      BY <2>1, <2>3 DEF DataInv, Reachable
    <3> QED
      BY <2>1, <2>2, <3>1, <3>2 DEF Coming, Content
  <2>4. CASE entry = "onnx"
    <3>1. ~file[weights].lost
      BY <2>1 DEF DataInv, Reachable
    <3>2. ~LastDue
      BY <2>2, <3>1 DEF LastDue
    <3>3. Chunk \subseteq file[weights].chunks /\ Foreign \notin file[weights].chunks
      BY <2>4, <3>2 DEF AtomicInv, NamedWhole
    <3> QED
      BY <2>1, <3>3 DEF Content
  <2> QED
    BY <2>3, <2>4
<1> QED
  BY <1>3, <1>4, LibraryTypeCorrect, PTL
=============================================================================
