---------------------------- MODULE BridgeProofs ----------------------------
(***************************************************************************)
(* Proofs about PipeBridge, for any number of clients, commands, keys and  *)
(* tokens: its types, that a handler does not wait for a client that waits *)
(* for it, that an update that was answered is kept, and that what comes   *)
(* for a prompt is what the model has said.                                *)
(***************************************************************************)
EXTENDS PipeBridge, FiniteSetTheorems, SequenceTheorems, WellFoundedInduction, TLAPS

(* Typing *)

LEMMA CommandTypes ==
  /\ Prompt \in Command /\ Query \in Command /\ Mute \in Command
  /\ Commands \subseteq Command
  /\ \A m \in Command : m.kind = "update" => m.key \in Key
BY DEF Prompt, Query, Mute, Commands, Command

\* What a read returns is a command, and it leaves commands in the pipe.
LEMMA ParsedType ==
  ASSUME NEW box \in Seq(Command), NEW n \in 1..Len(box)
  PROVE  /\ Parsed(SubSeq(box, 1, n)) \in Command
         /\ SubSeq(box, n + 1, Len(box)) \in Seq(Command)
<1>1. Len(box) \in Nat /\ \A i \in 1..Len(box) : box[i] \in Command
  BY LenProperties, ElementOfSeq
<1>2. SubSeq(box, 1, n) \in Seq(Command) /\ Len(SubSeq(box, 1, n)) = n
  BY <1>1, SubSeqProperties
<1>3. SubSeq(box, n + 1, Len(box)) \in Seq(Command)
  BY <1>1, SubSeqProperties
<1>4. n = 1 => Head(SubSeq(box, 1, n)) \in Command
  BY <1>2, HeadTailProperties, EmptySeq
<1> QED
  BY <1>2, <1>3, <1>4, CommandTypes DEF Parsed

LEMMA AnsweredType ==
  ASSUME BridgeTypeOK, NEW c \in Client
  PROVE  Answered(c) \in [Client -> {"out", "ready", "waiting", "gone", "failed"}]
BY DEF Answered, BridgeTypeOK

\* The end of a turn, and the steps of a load that go on.
LEMMA TurnType ==
  ASSUME BridgeTypeOK, NEW c \in Client, Turn(c), UNCHANGED <<conn, calls, inbox>>,
         client' \in [Client -> {"out", "ready", "waiting", "gone", "failed"}],
         left' \in 0..MaxTokens, rushed' \subseteq Client, silent' \subseteq Client,
         state' \in {"absent", "empty", "whole"}, granted' \subseteq Key,
         saved' \subseteq Key, lost' \subseteq Key, overlap' \in BOOLEAN
  PROVE  BridgeTypeOK'
BY CommandTypes DEF Turn, BridgeTypeOK, conn, Busy, Saving

LEMMA ProceedType ==
  ASSUME BridgeTypeOK, NEW c \in Client, NEW found \in SUBSET Key, Proceed(c, found),
         UNCHANGED <<conn, calls, inbox, left, habits, saved>>,
         state' \in {"absent", "empty", "whole"}, granted' \subseteq Key,
         lost' \subseteq Key, overlap' \in BOOLEAN
  PROVE  BridgeTypeOK'
<1>1. CASE Turn(c) /\ client' = Answered(c)
  BY <1>1, TurnType, AnsweredType DEF BridgeTypeOK, habits
<1>2. CASE /\ command[c].kind = "update"
           /\ handler' = [handler EXCEPT ![c] = "open"]
           /\ copy' = [copy EXCEPT ![c] = found]
           /\ UNCHANGED <<client, command, answer>>
  BY <1>2 DEF BridgeTypeOK, conn, habits, Busy, Saving
<1>3. CASE /\ command[c].kind = "prompt"
           /\ handler' = [handler EXCEPT ![c] = "stream"]
           /\ UNCHANGED <<client, command, copy, answer>>
  BY <1>3 DEF BridgeTypeOK, conn, habits, Busy, Saving
<1> QED
  BY <1>1, <1>2, <1>3 DEF Proceed

LEMMA ClientType ==
  ASSUME BridgeAssumption, BridgeTypeOK, NEW c \in Client, ClientStep(c)
  PROVE  BridgeTypeOK'
<1>1. CASE Connect(c)
  BY <1>1 DEF Connect, BridgeTypeOK, habits, file, Busy, Saving
<1>2. CASE Refuse(c)
  BY <1>2 DEF Refuse, BridgeTypeOK, conn, habits, file
<1>3. ASSUME NEW m \in Commands, Send(c, m) PROVE BridgeTypeOK'
  <2>1. m \in Command /\ inbox[c] \in Seq(Command)
    BY CommandTypes DEF BridgeTypeOK
  <2>2. Append(inbox[c], m) \in Seq(Command)
    BY <2>1, AppendProperties
  <2>3. inbox' \in [Client -> Seq(Command)]
    BY <1>3, <2>2 DEF Send, BridgeTypeOK
  <2>4. calls' \in [Client -> 0..MaxCommands]
    BY <1>3 DEF Send, BridgeTypeOK, BridgeAssumption
  <2>5. rushed' \subseteq Client
    BY <1>3 DEF Send, BridgeTypeOK
  <2> QED
    BY <1>3, <2>3, <2>4, <2>5 DEF Send, BridgeTypeOK, conn, file
<1>4. CASE Leave(c)
  BY <1>4 DEF Leave, BridgeTypeOK, conn, habits, file
<1> QED
  BY <1>1, <1>2, <1>3, <1>4 DEF ClientStep

LEMMA ReadType ==
  ASSUME BridgeTypeOK, NEW c \in Client, Read(c)
  PROVE  BridgeTypeOK'
<1>1. PICK n \in 1..Len(inbox[c]) :
       LET m == Parsed(SubSeq(inbox[c], 1, n))
       IN  /\ inbox' = [inbox EXCEPT ![c] = SubSeq(@, n + 1, Len(@))]
           /\ \/ /\ m # Mute
                 /\ handler' = [handler EXCEPT ![c] = "load"]
                 /\ command' = [command EXCEPT ![c] = m]
                 /\ UNCHANGED <<client, silent>>
              \/ /\ m \in {Query, Prompt}
                 /\ client' = Answered(c)
                 /\ UNCHANGED <<handler, command, silent>>
              \/ /\ m = Mute
                 /\ silent' = silent \cup {c}
                 /\ UNCHANGED <<client, handler, command>>
  BY DEF Read
<1> DEFINE m == Parsed(SubSeq(inbox[c], 1, n))
<1>2. m \in Command /\ SubSeq(inbox[c], n + 1, Len(inbox[c])) \in Seq(Command)
  BY ParsedType DEF BridgeTypeOK
<1>3. inbox' \in [Client -> Seq(Command)]
  BY <1>1, <1>2 DEF BridgeTypeOK
<1>4. client' \in [Client -> {"out", "ready", "waiting", "gone", "failed"}]
  BY <1>1, AnsweredType DEF BridgeTypeOK
<1>5. /\ command' \in [Client -> Command]
      /\ handler' \in [Client -> Busy \cup {"none", "read", "ended"}]
      /\ silent' \subseteq Client
      /\ \A d \in Client : handler'[d] \in {"open", "write"} => command'[d].kind = "update"
  <2>1. "load" \in Busy /\ handler[c] = "read"
    BY DEF Busy, Read
  <2>2. \/ /\ handler' = [handler EXCEPT ![c] = "load"]
           /\ command' = [command EXCEPT ![c] = m]
           /\ UNCHANGED silent
        \/ /\ silent' = silent \/ silent' = silent \cup {c}
           /\ UNCHANGED <<handler, command>>
    BY <1>1
  <2> HIDE DEF m
  <2>3. CASE /\ handler' = [handler EXCEPT ![c] = "load"]
             /\ command' = [command EXCEPT ![c] = m]
             /\ UNCHANGED silent
    <3>1. \A d \in Client : handler'[d] \in {"open", "write"} => d # c
      BY <2>3 DEF BridgeTypeOK
    <3> QED
      BY <1>2, <2>1, <2>3, <3>1 DEF BridgeTypeOK
  <2>4. CASE silent' \subseteq Client /\ UNCHANGED <<handler, command>>
    BY <2>4 DEF BridgeTypeOK
  <2>5. silent \subseteq Client /\ silent \cup {c} \subseteq Client
    BY DEF BridgeTypeOK
  <2> QED
    BY <2>2, <2>3, <2>4, <2>5
<1> QED
  BY <1>3, <1>4, <1>5 DEF Read, BridgeTypeOK, conn, file

LEMMA HandlerType ==
  ASSUME BridgeAssumption, BridgeTypeOK, NEW c \in Client, HandlerStep(c)
  PROVE  BridgeTypeOK'
<1>1. CASE Read(c)
  BY <1>1, ReadType
<1>2. CASE End(c)
  BY <1>2 DEF End, BridgeTypeOK, conn, habits, file
<1>3. CASE Load(c)
  <2>1. ASSUME NEW found \in SUBSET Key, Proceed(c, found), lost' = lost \/ lost' = saved
        PROVE  BridgeTypeOK'
    <3>1. /\ UNCHANGED <<conn, calls, inbox, left, habits, saved>>
          /\ state' \in {"absent", "empty", "whole"} /\ granted' \subseteq Key
          /\ lost' \subseteq Key /\ overlap' \in BOOLEAN
      BY <1>3, <2>1 DEF Load, BridgeTypeOK
    <3> QED
      BY <2>1, <3>1, ProceedType
  <2>3. (IF state = "whole" THEN granted ELSE {}) \in SUBSET Key /\ {} \in SUBSET Key
    BY DEF BridgeTypeOK
  <2>2. CASE /\ handler' = [handler EXCEPT ![c] = "create"]
             /\ UNCHANGED <<client, command, copy, answer, lost>>
    BY <1>3, <2>2 DEF Load, BridgeTypeOK, conn, habits, Busy, Saving
  <2> QED
    BY <1>3, <2>1, <2>2, <2>3 DEF Load
<1>4. CASE Create(c)
  BY <1>4 DEF Create, BridgeTypeOK, conn, habits, Busy, Saving
<1>5. CASE Default(c)
  BY <1>5, ProceedType DEF Default, BridgeTypeOK
<1>6. CASE Open(c)
  BY <1>6 DEF Open, BridgeTypeOK, conn, habits, Busy, Saving
<1>7. CASE Write(c)
  <2>1. command[c].key \in Key
    BY <1>7, CommandTypes DEF Write, BridgeTypeOK
  <2>2. granted' \subseteq Key /\ saved' \subseteq Key /\ lost' \subseteq Key
    BY <1>7, <2>1 DEF Write, Changed, BridgeTypeOK
  <2> QED
    BY <1>7, <2>2, TurnType, AnsweredType DEF Write, BridgeTypeOK, habits
<1>12. CASE CreateFails(c)
  BY <1>12, ProceedType DEF CreateFails, BridgeTypeOK, file
<1>13. CASE SaveFails(c)
  <2>1. command[c].key \in Key
    BY <1>13, CommandTypes DEF SaveFails, BridgeTypeOK
  <2>2. saved' \subseteq Key /\ lost' \subseteq Key
    BY <1>13, <2>1 DEF SaveFails, BridgeTypeOK
  <2> QED
    BY <1>13, <2>2, TurnType, AnsweredType DEF SaveFails, BridgeTypeOK, habits
<1>8. ASSUME NEW token \in Token, Relay(c, token) PROVE BridgeTypeOK'
  BY <1>8 DEF Relay, BridgeTypeOK, BridgeAssumption, conn, habits, file
<1>9. CASE Done(c)
  BY <1>9, TurnType, AnsweredType DEF Done, BridgeTypeOK, habits, file
<1>10. CASE Crashed(c)
  BY <1>10, TurnType DEF Crashed, BridgeTypeOK, file
<1>11. CASE WriteFails(c)
  <2>1. left' \in 0..MaxTokens
    BY <1>11 DEF WriteFails, BridgeTypeOK, BridgeAssumption
  <2> QED
    BY <1>11, <2>1, TurnType DEF WriteFails, BridgeTypeOK, habits, file
<1> QED
  BY <1>1, <1>2, <1>3, <1>4, <1>5, <1>6, <1>7, <1>8, <1>9, <1>10, <1>11, <1>12, <1>13
     DEF HandlerStep

\* The listener counts no further than it lives.
Counting == listener # "dead" => failures < MaxFailures

LEMMA InitType == BridgeAssumption /\ Init => BridgeTypeOK /\ Counting
<1> SUFFICES ASSUME BridgeAssumption, Init PROVE BridgeTypeOK /\ Counting
  OBVIOUS
<1>1. granted \subseteq Key /\ state \in {"absent", "empty", "whole"} /\ saved = granted
  BY DEF Init
<1>2. inbox \in [Client -> Seq(Command)]
  BY EmptySeq DEF Init
<1>3. /\ calls \in [Client -> 0..MaxCommands] /\ failures \in 0..MaxFailures
      /\ left \in 0..MaxTokens /\ failures < MaxFailures
  BY DEF Init, BridgeAssumption
<1>4. command \in [Client -> Command] /\ copy \in [Client -> SUBSET Key]
  BY CommandTypes DEF Init
<1>5. /\ handler \in [Client -> Busy \cup {"none", "read", "ended"}]
      /\ \A c \in Client : handler[c] \notin {"open", "write"}
  BY DEF Init
<1>6. client \in [Client -> {"out", "ready", "waiting", "gone", "failed"}]
  BY DEF Init
<1> QED
  BY <1>1, <1>2, <1>3, <1>4, <1>5, <1>6 DEF Init, BridgeTypeOK, Counting

LEMMA NextType ==
  BridgeAssumption /\ BridgeTypeOK /\ Counting /\ [Next]_vars => BridgeTypeOK' /\ Counting'
<1> SUFFICES ASSUME BridgeAssumption, BridgeTypeOK, Counting, [Next]_vars
             PROVE  BridgeTypeOK' /\ Counting'
  OBVIOUS
<1>1. CASE MakePipe
  <2>1. failures' \in 0..MaxFailures /\ listener' \in {"create", "wait", "dead"} /\ Counting'
    <3>1. CASE failures' = 0 /\ listener' = "wait"
      BY <3>1 DEF BridgeAssumption, Counting
    <3>2. CASE failures' = failures + 1 /\ listener' = IF failures' >= MaxFailures THEN "dead" ELSE "create"
      <4>1. failures \in Nat /\ MaxFailures \in Nat /\ failures < MaxFailures
        BY <1>1 DEF BridgeAssumption, BridgeTypeOK, Counting, MakePipe
      <4> QED
        BY <3>2, <4>1 DEF Counting
    <3> QED
      BY <1>1, <3>1, <3>2 DEF MakePipe
  <2> QED
    BY <1>1, <2>1 DEF MakePipe, BridgeTypeOK, habits, file
<1>2. ASSUME NEW c \in Client, ClientStep(c) \/ HandlerStep(c) PROVE BridgeTypeOK'
  BY <1>2, ClientType, HandlerType
<1>3. ASSUME NEW c \in Client, ClientStep(c) \/ HandlerStep(c) PROVE Counting'
  <2>1. CASE UNCHANGED conn
    BY <2>1 DEF conn, Counting
  <2>2. CASE Connect(c)
    BY <2>2 DEF Connect, Counting
  <2> QED
    BY <1>3, <2>1, <2>2 DEF ClientStep, HandlerStep, Refuse, Send, Leave, Read, End, Load,
       Create, Default, CreateFails, Open, Write, SaveFails, Relay, Done, Crashed, WriteFails
<1>4. CASE UNCHANGED vars
  BY <1>4 DEF vars, conn, habits, file, BridgeTypeOK, Counting
<1> QED
  BY <1>1, <1>2, <1>3, <1>4 DEF Next

\* The variables keep their types: the listener ends at the failure that is one
\* too many, a handler saves for an update only, and what is read is a command,
\* however the writes of a client run together.
THEOREM TypeCorrect == Spec => []BridgeTypeOK
<1>1. BridgeAssumption
  BY BridgeAssumption
<1> QED
  BY <1>1, InitType, NextType, PTL DEF Spec

-----------------------------------------------------------------------------
(* Who is not there yet *)

\* A client that has not come has no handler and has sent nothing.
Strangers == \A c \in Client : client[c] = "out" => handler[c] = "none" /\ inbox[c] = <<>>

LEMMA AnsweredStrangers ==
  ASSUME BridgeTypeOK, NEW c \in Client, NEW d \in Client
  PROVE  Answered(c)[d] = "out" => client[d] = "out"
BY DEF Answered, BridgeTypeOK

LEMMA StrangersStay ==
  ASSUME BridgeTypeOK, Strangers, [Next]_vars
  PROVE  Strangers'
<1>1. ASSUME NEW c \in Client, ClientStep(c) PROVE Strangers'
  <2>1. \A d \in Client : client'[d] = "out" => client[d] = "out" /\ d # c
    BY <1>1 DEF ClientStep, Connect, Refuse, Send, Leave, BridgeTypeOK
  <2>2. \A d \in Client \ {c} : handler'[d] = handler[d] /\ inbox'[d] = inbox[d]
    BY <1>1 DEF ClientStep, Connect, Refuse, Send, Leave, BridgeTypeOK
  <2> QED
    BY <2>1, <2>2 DEF Strangers
<1>2. ASSUME NEW c \in Client, HandlerStep(c) PROVE Strangers'
  <2>1. handler[c] # "none"
    BY <1>2 DEF HandlerStep, Read, End, Load, Create, Default, CreateFails, Open, Write,
       SaveFails, Relay, Done, Crashed, WriteFails
  <2>2. client' = client \/ client' = Answered(c)
    BY <1>2 DEF HandlerStep, Read, End, Load, Create, Default, CreateFails, Proceed,
       Open, Write, SaveFails, Relay, Done, Crashed, WriteFails
  <2>3. \A d \in Client : client'[d] = "out" => client[d] = "out"
    BY <2>2, AnsweredStrangers
  <2>4. \A d \in Client \ {c} : handler'[d] = handler[d] /\ inbox'[d] = inbox[d]
    BY <1>2 DEF HandlerStep, Read, End, Load, Create, Default, CreateFails, Proceed,
       Open, Write, SaveFails, Relay, Done, Crashed, WriteFails, Turn, BridgeTypeOK
  <2> QED
    BY <2>1, <2>3, <2>4 DEF Strangers
<1>3. CASE MakePipe \/ UNCHANGED vars
  BY <1>3 DEF MakePipe, vars, Strangers
<1> QED
  BY <1>1, <1>2, <1>3 DEF Next

-----------------------------------------------------------------------------
(* Who waits for whom *)

\* An application that sends one command at a time is ready when its handler
\* reads and nothing is sent; while it waits, its command is on the way or at work.
Turns(c) ==
  /\ client[c] = "ready" => handler[c] = "read" /\ inbox[c] = <<>>
  /\ client[c] = "waiting" =>
       \/ handler[c] \in Busy /\ inbox[c] = <<>>
       \/ handler[c] = "read" /\ Len(inbox[c]) = 1

Patient == Client \ (Cli \cup rushed \cup silent)

WInv == \A c \in Patient : Turns(c)

LEMMA NotRead == "read" \notin Busy
BY DEF Busy, Saving

\* The other clients stay as they are, and nobody becomes patient again.
Others(c) ==
  /\ Patient' \subseteq Patient
  /\ \A d \in Client \ {c} :
       client'[d] = client[d] /\ handler'[d] = handler[d] /\ inbox'[d] = inbox[d]

LEMMA OthersKeep ==
  ASSUME WInv, NEW c \in Client, Others(c), c \in Patient' => Turns(c)'
  PROVE  WInv'
<1>1. Patient' \subseteq Client
  BY DEF Patient
<1>2. ASSUME NEW d \in Patient', d # c PROVE Turns(d)'
  <2>1. d \in Patient /\ d \in Client \ {c}
    BY <1>1, <1>2 DEF Others
  <2> QED
    BY <2>1 DEF WInv, Turns, Others
<1> QED
  BY <1>2 DEF WInv

LEMMA ClientWaits ==
  ASSUME BridgeTypeOK, Strangers, WInv, NEW c \in Client, ClientStep(c)
  PROVE  WInv'
<1>1. Others(c)
  BY DEF ClientStep, Connect, Refuse, Send, Leave, Others, Patient, BridgeTypeOK, habits
<1>2. ASSUME c \in Patient' PROVE Turns(c)'
  <2>0. c \in Patient
    BY <1>1, <1>2 DEF Others
  <2>1. CASE Connect(c)
    BY <2>1 DEF Connect, Turns, Strangers, BridgeTypeOK
  <2>2. CASE Refuse(c) \/ Leave(c)
    BY <2>2 DEF Refuse, Leave, Turns, BridgeTypeOK
  <2>3. ASSUME NEW m \in Commands, Send(c, m) PROVE Turns(c)'
    <3>1. client[c] = "ready"
      BY <1>2, <2>3 DEF Send, Patient
    <3>2. inbox[c] = <<>> /\ handler[c] = "read"
      BY <2>0, <3>1 DEF WInv, Turns
    <3>3. inbox'[c] = <<m>> /\ client'[c] = "waiting" /\ handler'[c] = "read"
      BY <2>3, <3>2 DEF Send, BridgeTypeOK
    <3> QED
      BY <3>3 DEF Turns
  <2> QED
    BY <2>1, <2>2, <2>3 DEF ClientStep
<1> QED
  BY <1>1, <1>2, OthersKeep

LEMMA AnsweredTurns ==
  ASSUME BridgeTypeOK, NEW c \in Patient, client' = Answered(c),
         handler'[c] = "read", inbox'[c] = <<>>
  PROVE  Turns(c)'
BY DEF Answered, Turns, Patient, BridgeTypeOK

LEMMA AnsweredOthers ==
  ASSUME BridgeTypeOK, NEW c \in Client, NEW d \in Client \ {c}
  PROVE  Answered(c)[d] = client[d]
BY DEF Answered, BridgeTypeOK

\* A read takes a lone command whole.
LEMMA ReadAll ==
  ASSUME NEW box \in Seq(Command), Len(box) = 1, NEW n \in 1..Len(box)
  PROVE  SubSeq(box, n + 1, Len(box)) = <<>>
<1>1. n = 1
  OBVIOUS
<1>2. SubSeq(box, 2, 1) \in Seq(Command) /\ Len(SubSeq(box, 2, 1)) = 0
  BY SubSeqProperties
<1>3. SubSeq(box, 2, 1) = <<>>
  BY <1>2, EmptySeq
<1> QED
  BY <1>1, <1>3

LEMMA ReadWaits ==
  ASSUME BridgeTypeOK, NEW c \in Patient, Turns(c), Read(c), c \in Patient'
  PROVE  Turns(c)'
<1>1. PICK n \in 1..Len(inbox[c]) :
       LET m == Parsed(SubSeq(inbox[c], 1, n))
       IN  /\ inbox' = [inbox EXCEPT ![c] = SubSeq(@, n + 1, Len(@))]
           /\ \/ handler' = [handler EXCEPT ![c] = "load"] /\ UNCHANGED client
              \/ client' = Answered(c) /\ UNCHANGED handler
              \/ silent' = silent \cup {c}
  BY DEF Read
<1>2. inbox[c] \in Seq(Command) /\ c \in Client
  BY DEF BridgeTypeOK, Patient
<1>3. inbox[c] # <<>> /\ Len(inbox[c]) \in Nat
  BY <1>2, LenProperties, EmptySeq
<1>4. handler[c] = "read"
  BY DEF Read
<1>5. client[c] = "waiting" => Len(inbox[c]) = 1
  BY <1>4, NotRead DEF Turns
<1>6. client[c] = "waiting" => inbox'[c] = <<>>
  <2> SUFFICES ASSUME client[c] = "waiting" PROVE inbox'[c] = <<>>
    OBVIOUS
  <2>1. SubSeq(inbox[c], n + 1, Len(inbox[c])) = <<>>
    BY <1>1, <1>2, <1>5, ReadAll
  <2> QED
    BY <1>1, <1>2, <2>1 DEF BridgeTypeOK
<1>7. client[c] # "ready"
  BY <1>3 DEF Turns
<1>8. silent' # silent \cup {c}
  BY DEF Patient
<1>9. CASE handler' = [handler EXCEPT ![c] = "load"] /\ UNCHANGED client
  <2>1. handler'[c] = "load" /\ "load" \in Busy
    BY <1>2, <1>9 DEF BridgeTypeOK, Busy
  <2> QED
    BY <1>6, <1>7, <1>9, <2>1 DEF Turns
<1>10. CASE client' = Answered(c) /\ UNCHANGED handler
  <2>1. CASE client[c] = "waiting"
    BY <1>4, <1>6, <1>10, <2>1, AnsweredTurns
  <2>2. CASE client[c] # "waiting"
    BY <1>7, <1>10, <2>2 DEF Answered, Turns
  <2> QED
    BY <2>1, <2>2
<1> QED
  BY <1>1, <1>8, <1>9, <1>10

\* While the handler is at work the client has sent nothing more.
LEMMA AtWork ==
  ASSUME NEW c \in Patient, Turns(c), handler[c] \in Busy
  PROVE  client[c] # "ready" /\ (client[c] = "waiting" => inbox[c] = <<>>)
BY NotRead DEF Turns

\* A step of the work either goes on, or ends it with an answer.
LEMMA WorkWaits ==
  ASSUME BridgeTypeOK, NEW c \in Patient, Turns(c), handler[c] \in Busy, UNCHANGED inbox,
         \/ handler'[c] \in Busy /\ UNCHANGED client
         \/ handler'[c] = "read" /\ client' = Answered(c)
  PROVE  Turns(c)'
<1>1. client[c] # "ready" /\ (client[c] = "waiting" => inbox[c] = <<>>)
  BY AtWork
<1>2. CASE handler'[c] \in Busy /\ UNCHANGED client
  BY <1>1, <1>2 DEF Turns
<1>3. CASE handler'[c] = "read" /\ client' = Answered(c)
  <2>1. CASE client[c] = "waiting"
    BY <1>1, <1>3, <2>1, AnsweredTurns
  <2>2. CASE client[c] # "waiting"
    BY <1>1, <1>3, <2>2 DEF Answered, Turns
  <2> QED
    BY <2>1, <2>2
<1> QED
  BY <1>2, <1>3

LEMMA HandlerWaits ==
  ASSUME BridgeTypeOK, WInv, NEW c \in Client, HandlerStep(c)
  PROVE  WInv'
<1>1. Patient' \subseteq Patient
  BY DEF HandlerStep, Read, End, Load, Create, Default, CreateFails, Open, Write,
     SaveFails, Relay, Done, Crashed, WriteFails, Patient, habits
<1>2. client' = client \/ client' = Answered(c)
  BY DEF HandlerStep, Read, End, Load, Create, Default, CreateFails, Proceed, Open,
     Write, SaveFails, Relay, Done, Crashed, WriteFails
<1>3. \A d \in Client \ {c} : handler'[d] = handler[d] /\ inbox'[d] = inbox[d]
  BY DEF HandlerStep, Read, End, Load, Create, Default, CreateFails, Proceed, Open,
     Write, SaveFails, Relay, Done, Crashed, WriteFails, Turn, BridgeTypeOK
<1>4. Others(c)
  BY <1>1, <1>2, <1>3, AnsweredOthers DEF Others
<1>5. ASSUME c \in Patient' PROVE Turns(c)'
  <2>1. c \in Patient /\ Turns(c)
    BY <1>1, <1>5 DEF WInv
  <2>2. CASE Read(c)
    BY <1>5, <2>1, <2>2, ReadWaits
  <2>3. CASE End(c) \/ WriteFails(c)
    BY <2>3 DEF End, WriteFails, Turns
  <2>4. CASE \/ Load(c) \/ Create(c) \/ Default(c) \/ CreateFails(c)
             \/ Open(c) \/ Write(c) \/ SaveFails(c) \/ Done(c)
    <3>1. handler[c] \in Busy /\ UNCHANGED inbox
      BY <2>4 DEF Load, Create, Default, CreateFails, Open, Write, SaveFails, Done, Busy,
         Saving
    <3>2. \/ handler'[c] \in Busy /\ UNCHANGED client
          \/ handler'[c] = "read" /\ client' = Answered(c)
      BY <2>4 DEF Load, Create, Default, CreateFails, Open, Write, SaveFails, Done,
         Proceed, Turn, Busy, Saving, BridgeTypeOK
    <3> QED
      BY <2>1, <3>1, <3>2, WorkWaits
  <2>5. ASSUME NEW token \in Token, Relay(c, token) PROVE Turns(c)'
    BY <2>1, <2>5 DEF Relay, Turns
  <2>6. CASE Crashed(c)
    BY <1>5, <2>6 DEF Crashed, Patient
  <2> QED
    BY <2>2, <2>3, <2>4, <2>5, <2>6 DEF HandlerStep
<1> QED
  BY <1>4, <1>5, OthersKeep

\* An application that sends one command at a time is answered: its handler
\* never reads on with nothing to read while it waits.
THEOREM NobodyWaitsForBoth == Spec => []NobodyWaits
<1>1. Init => Strangers /\ WInv
  BY DEF Init, Strangers, WInv, Patient, Turns
<1>2. ASSUME BridgeTypeOK, Strangers, WInv, [Next]_vars PROVE WInv'
  <2>1. CASE MakePipe \/ UNCHANGED vars
    BY <1>2, <2>1 DEF MakePipe, vars, habits, WInv, Patient, Turns
  <2>2. ASSUME NEW c \in Client, ClientStep(c) \/ HandlerStep(c) PROVE WInv'
    BY <1>2, <2>2, ClientWaits, HandlerWaits
  <2> QED
    BY <1>2, <2>1, <2>2 DEF Next
<1>3. BridgeTypeOK /\ WInv => NobodyWaits
  <2> SUFFICES ASSUME BridgeTypeOK, WInv, NEW c \in Patient,
                      client[c] = "waiting", handler[c] = "read", inbox[c] = <<>>
               PROVE  FALSE
    BY DEF NobodyWaits, Patient
  <2>1. Len(inbox[c]) = 1
    BY NotRead DEF WInv, Turns
  <2> QED
    BY <2>1
<1>4. BridgeTypeOK /\ Strangers /\ WInv /\ [Next]_vars => Strangers' /\ WInv'
  BY <1>2, StrangersStay
<1> QED
  BY <1>1, <1>3, <1>4, TypeCorrect, PTL DEF Spec

-----------------------------------------------------------------------------
(* What was answered is kept *)

\* What was answered, without what a failing file operation has lost.
Due == saved \ lost

\* As long as nobody loads the file while another one saves it: one handler
\* saves at a time, from a copy that holds everything that is due; a file that
\* does not parse is in its hands, or nothing is due.
KInv ==
  /\ \A c, d \in Client : handler[c] \in Saving /\ handler[d] \in Saving => c = d
  /\ \A c \in Client : handler[c] = "create" => state = "absent"
  /\ \A c \in Client : handler[c] = "default" => Due = {}
  /\ \A c \in Client : handler[c] \in {"open", "write"} => Due \subseteq copy[c]
  /\ state = "absent" => Due = {}
  /\ state = "empty" => Due = {} \/ \E c \in Client : handler[c] \in {"default", "write"}
  /\ state = "whole" => Due \subseteq granted

\* Steps that neither save nor touch the file.
LEMMA Elsewhere ==
  ASSUME KInv, NEW c \in Client, handler[c] \notin Saving, handler'[c] \notin Saving,
         \A d \in Client \ {c} : handler'[d] = handler[d] /\ copy'[d] = copy[d],
         UNCHANGED <<state, granted, saved, lost>>
  PROVE  KInv'
<1>1. \A d \in Client : handler'[d] \in Saving => d # c /\ handler[d] = handler'[d] /\ copy'[d] = copy[d]
  OBVIOUS
<1>2. {"create", "default", "open", "write"} = Saving
  BY DEF Saving
<1>3. state = "empty" => Due = {} \/ \E d \in Client : handler'[d] \in {"default", "write"}
  BY <1>2 DEF KInv
<1>4. Due' = Due
  BY DEF Due
<1> QED
  BY <1>1, <1>2, <1>3, <1>4 DEF KInv

\* One handler saves at a time.
LEMMA Alone ==
  ASSUME KInv, NEW c \in Client, handler[c] \in Saving
  PROVE  \A d \in Client \ {c} : handler[d] \notin Saving
BY DEF KInv

\* The saver ends with a file that holds what is due.
LEMMA SaverEnds ==
  ASSUME BridgeTypeOK, KInv, NEW c \in Client, handler[c] \in Saving,
         \A d \in Client \ {c} : handler'[d] = handler[d],
         handler'[c] \notin Saving,
         Due' = {} \/ (state' = "whole" /\ Due' \subseteq granted')
  PROVE  KInv'
<1>1. \A d \in Client : handler'[d] \notin Saving
  BY Alone
<1> QED
  BY <1>1 DEF KInv, Saving

\* It goes on.
LEMMA SaverGoesOn ==
  ASSUME BridgeTypeOK, KInv, NEW c \in Client, handler[c] \in Saving,
         \A d \in Client \ {c} : handler'[d] = handler[d],
         handler'[c] = "create" => state' = "absent",
         handler'[c] = "default" => Due' = {},
         handler'[c] \in {"open", "write"} => Due' \subseteq copy'[c],
         state' = "absent" => Due' = {},
         state' = "empty" => Due' = {} \/ handler'[c] \in {"default", "write"},
         state' = "whole" => Due' \subseteq granted'
  PROVE  KInv'
<1>1. \A d \in Client : handler'[d] \in Saving => d = c
  BY Alone
<1> QED
  BY <1>1 DEF KInv, Saving

LEMMA LoadKeeps ==
  ASSUME BridgeTypeOK, KInv, NEW c \in Client, Load(c), ~overlap'
  PROVE  KInv'
<1>1. handler[c] = "load" /\ \A d \in Client \ {c} : handler[d] \notin Saving
  BY DEF Load
<1>2. state = "empty" => Due = {}
  BY <1>1 DEF KInv, Saving
<1>3. \A d \in Client \ {c} : handler'[d] = handler[d]
  BY DEF Load, Proceed, Turn, BridgeTypeOK
<1>4. \A d \in Client : handler'[d] \in Saving => d = c
  BY <1>1, <1>3
<1>5. handler'[c] = "create" => state = "absent"
  BY DEF Load, Proceed, Turn, BridgeTypeOK
<1>6. handler'[c] \notin {"default", "write"}
  BY DEF Load, Proceed, Turn, BridgeTypeOK
<1>8. UNCHANGED <<state, granted, saved>> /\ (lost' = lost \/ lost' = saved)
  BY DEF Load
<1>9. Due' = Due \/ Due' = {}
  BY <1>8 DEF Due
<1>7. handler'[c] = "open" => Due' \subseteq copy'[c]
  <2> SUFFICES ASSUME handler'[c] = "open" PROVE Due' \subseteq copy'[c]
    OBVIOUS
  <2>1. state # "absent" /\ (lost' = saved \/ copy'[c] = IF state = "whole" THEN granted ELSE {})
    BY DEF Load, Proceed, Turn, BridgeTypeOK
  <2>2. lost' = saved => Due' = {}
    BY <1>8 DEF Due
  <2>3. state \in {"empty", "whole"}
    BY <2>1 DEF BridgeTypeOK
  <2>4. state = "whole" => Due \subseteq granted
    BY DEF KInv
  <2> QED
    BY <1>2, <1>9, <2>1, <2>2, <2>3, <2>4
<1>10. /\ state' = "absent" => Due' = {}
       /\ state' = "empty" => Due' = {}
       /\ state' = "whole" => Due' \subseteq granted'
  BY <1>2, <1>8, <1>9 DEF KInv
<1> QED
  BY <1>4, <1>5, <1>6, <1>7, <1>8, <1>10 DEF KInv, Saving

LEMMA HandlerKeeps ==
  ASSUME BridgeTypeOK, KInv, NEW c \in Client, HandlerStep(c), ~overlap'
  PROVE  KInv'
<1>1. CASE Load(c)
  BY <1>1, LoadKeeps
<1>2. CASE Create(c)
  BY <1>2, SaverGoesOn DEF Create, KInv, Due, Saving, BridgeTypeOK
<1>3. CASE Default(c)
  <2>1. /\ handler[c] \in Saving
        /\ state' = "whole" /\ granted' = {} /\ Due' = {}
    BY <1>3 DEF Default, KInv, Due, Saving
  <2>2. \A d \in Client \ {c} : handler'[d] = handler[d]
    BY <1>3 DEF Default, Proceed, Turn, BridgeTypeOK
  <2>3. handler'[c] # "create"
    BY <1>3 DEF Default, Proceed, Turn, BridgeTypeOK
  <2> QED
    BY <2>1, <2>2, <2>3, SaverGoesOn
<1>4. CASE Open(c)
  BY <1>4, SaverGoesOn DEF Open, KInv, Due, Saving, BridgeTypeOK
<1>5. CASE Write(c)
  <2>1. handler[c] \in Saving /\ Due \subseteq copy[c] /\ handler'[c] \notin Saving
    BY <1>5 DEF Write, Turn, KInv, Saving, BridgeTypeOK
  <2>2. state' = "whole" /\ Due' \subseteq granted'
    BY <1>5, <2>1 DEF Write, Changed, Due
  <2>3. \A d \in Client \ {c} : handler'[d] = handler[d]
    BY <1>5 DEF Write, Turn, BridgeTypeOK
  <2> QED
    BY <2>1, <2>2, <2>3, SaverEnds
<1>8. CASE CreateFails(c)
  <2>1. handler[c] \in Saving /\ handler[c] \in {"create", "default"} /\ UNCHANGED file
    BY <1>8 DEF CreateFails, Saving
  <2>2. Due = {} /\ Due' = {}
    BY <2>1 DEF KInv, Due, file
  <2>3. \A d \in Client \ {c} : handler'[d] = handler[d]
    BY <1>8 DEF CreateFails, Proceed, Turn, BridgeTypeOK
  <2>4. handler'[c] \notin {"create", "default", "write"}
    BY <1>8 DEF CreateFails, Proceed, Turn, BridgeTypeOK
  <2> QED
    BY <2>1, <2>2, <2>3, <2>4, SaverGoesOn
<1>9. CASE SaveFails(c)
  <2>1. handler[c] \in Saving /\ handler'[c] \notin Saving
    BY <1>9 DEF SaveFails, Turn, Saving, BridgeTypeOK
  <2>2. \A d \in Client \ {c} : handler'[d] = handler[d]
    BY <1>9 DEF SaveFails, Turn, BridgeTypeOK
  <2>3. CASE handler[c] = "write"
    BY <1>9, <2>1, <2>2, <2>3, SaverEnds DEF SaveFails, Due
  <2>4. CASE handler[c] = "open"
    <3>1. UNCHANGED <<state, granted>> /\ Due' \subseteq Due
      BY <1>9, <2>4 DEF SaveFails, Due
    <3>2. \A d \in Client : handler[d] \notin {"default", "write"}
      BY <2>1, <2>4, Alone DEF Saving
    <3>3. state = "whole" \/ Due = {}
      BY <3>2 DEF KInv, BridgeTypeOK
    <3>4. state = "whole" => Due \subseteq granted
      BY DEF KInv
    <3> QED
      BY <2>1, <2>2, <3>1, <3>3, <3>4, SaverEnds
  <2> QED
    BY <1>9, <2>3, <2>4 DEF SaveFails
<1>6. CASE Read(c) \/ End(c) \/ Done(c) \/ Crashed(c) \/ WriteFails(c)
  <2>1. handler[c] \notin Saving /\ handler'[c] \notin Saving
    BY <1>6 DEF Read, End, Done, Crashed, WriteFails, Turn, Saving, BridgeTypeOK
  <2>2. \A d \in Client \ {c} : handler'[d] = handler[d] /\ copy'[d] = copy[d]
    BY <1>6 DEF Read, End, Done, Crashed, WriteFails, Turn, BridgeTypeOK
  <2>3. UNCHANGED <<state, granted, saved, lost>>
    BY <1>6 DEF Read, End, Done, Crashed, WriteFails, file
  <2> QED
    BY <2>1, <2>2, <2>3, Elsewhere
<1>7. ASSUME NEW token \in Token, Relay(c, token) PROVE KInv'
  BY <1>7, Elsewhere DEF Relay, file, Saving
<1> QED
  BY <1>1, <1>2, <1>3, <1>4, <1>5, <1>6, <1>7, <1>8, <1>9 DEF HandlerStep

LEMMA ClientKeeps ==
  ASSUME BridgeTypeOK, Strangers, KInv, NEW c \in Client, ClientStep(c)
  PROVE  KInv'
<1>1. CASE Connect(c)
  <2>1. handler[c] = "none" /\ handler'[c] = "read"
    BY <1>1 DEF Connect, Strangers, BridgeTypeOK
  <2>2. \A d \in Client \ {c} : handler'[d] = handler[d] /\ copy'[d] = copy[d]
    BY <1>1 DEF Connect, BridgeTypeOK
  <2> QED
    BY <1>1, <2>1, <2>2, Elsewhere DEF Connect, file, Saving
<1>2. CASE UNCHANGED <<handler, copy, file>>
  BY <1>2 DEF KInv, Due, file
<1> QED
  BY <1>1, <1>2 DEF ClientStep, Refuse, Send, Leave

\* An update that was answered is in the file, as long as no load overlapped a
\* save, its own save has not failed, nor has a write or a read of the whole
\* file: the answer comes after the write, and the next writer has read it.
THEOREM AnsweredIsKept == Spec => []UpdatesKept
<1> DEFINE Kept == ~overlap => KInv
<1>1. Init => Strangers /\ Kept
  BY DEF Init, Strangers, KInv, Due, Saving
<1>2. ASSUME BridgeTypeOK, Strangers, Kept, [Next]_vars, ~overlap' PROVE KInv'
  <2>1. ~overlap
    <3>1. CASE MakePipe \/ UNCHANGED vars
      BY <1>2, <3>1 DEF MakePipe, vars, file
    <3>2. ASSUME NEW c \in Client, ClientStep(c) PROVE overlap' = overlap
      BY <3>2 DEF ClientStep, Connect, Refuse, Send, Leave, file
    <3>3. ASSUME NEW c \in Client, HandlerStep(c) PROVE overlap' = overlap \/ Load(c)
      BY <3>3 DEF HandlerStep, Read, End, Create, Default, CreateFails, Open, Write,
         SaveFails, Relay, Done, Crashed, WriteFails, file
    <3>4. ASSUME NEW c \in Client, Load(c) PROVE overlap => overlap'
      BY <3>4, ZenonT(30) DEF Load
    <3> QED
      BY <1>2, <3>1, <3>2, <3>3, <3>4, Zenon DEF Next
  <2>2. CASE MakePipe \/ UNCHANGED vars
    BY <1>2, <2>1, <2>2 DEF MakePipe, vars, file, KInv, Due
  <2>3. ASSUME NEW c \in Client, ClientStep(c) \/ HandlerStep(c) PROVE KInv'
    BY <1>2, <2>1, <2>3, ClientKeeps, HandlerKeeps
  <2> QED
    BY <1>2, <2>2, <2>3 DEF Next
<1>3. BridgeTypeOK /\ Kept => UpdatesKept
  <2> SUFFICES ASSUME BridgeTypeOK, KInv, \A c \in Client : handler[c] \notin Saving
               PROVE  Due \subseteq InFile
    BY DEF UpdatesKept, Due
  <2>1. state = "whole" \/ Due = {}
    BY DEF KInv, Saving, BridgeTypeOK
  <2> QED
    BY <2>1 DEF KInv, InFile
<1>4. BridgeTypeOK /\ Strangers /\ Kept /\ [Next]_vars => Strangers' /\ Kept'
  BY <1>2, StrangersStay
<1> QED
  BY <1>1, <1>3, <1>4, TypeCorrect, PTL DEF Spec

-----------------------------------------------------------------------------
(* The words of a text *)

\* A set of numbers has a least one: what follows is shown for the first length
\* that would be wrong.
LEMMA Least ==
  ASSUME NEW S \in SUBSET Nat, S # {}
  PROVE  \E x \in S : \A y \in S : x <= y
<1>1. PICK x \in S : \A y \in S : <<y, x>> \notin OpToRel(<, Nat)
  BY WFMin, NatLessThanWellFounded
<1>2. \A y \in S : ~(y < x)
  BY <1>1 DEF OpToRel
<1> QED
  BY <1>2

\* What Pick has gathered of the first words.
Gathers(g, text, places, m) ==
  \A n \in 0..m : g[n] = IF n = 0 THEN <<>>
                         ELSE IF n \in places THEN Append(g[n - 1], text[n])
                         ELSE g[n - 1]

LEMMA GathersExists ==
  ASSUME NEW text \in Seq(Symbol), NEW places
  PROVE  \E g \in [0..Len(text) -> Seq(Symbol)] : Gathers(g, text, places, Len(text))
<1> DEFINE Good(m) == \E g \in [0..m -> Seq(Symbol)] : Gathers(g, text, places, m)
           bad == {m \in 0..Len(text) : ~Good(m)}
<1>1. Len(text) \in Nat
  OBVIOUS
<1>2. SUFFICES ASSUME bad # {} PROVE FALSE
  BY <1>1
<1>3. PICK m \in bad : \A k \in bad : m <= k
  <2> HIDE DEF bad
  <2>1. bad \in SUBSET Nat
    BY <1>1 DEF bad
  <2> QED
    BY <1>2, <2>1, Least
<1>4. m \in 0..Len(text) /\ ~Good(m)
  OBVIOUS
<1>5. m # 0
  <2>1. [n \in 0..0 |-> <<>>] \in [0..0 -> Seq(Symbol)]
    BY EmptySeq
  <2>2. Gathers([n \in 0..0 |-> <<>>], text, places, 0)
    BY DEF Gathers
  <2>3. Good(0)
    BY <2>1, <2>2
  <2> QED
    BY <1>4, <2>3
<1>6. m - 1 \in 0..Len(text) /\ m - 1 \notin bad
  <2> HIDE DEF Good
  <2>1. m - 1 \in 0..Len(text) /\ ~(m <= m - 1)
    BY <1>1, <1>4, <1>5
  <2> QED
    BY <1>3, <2>1
<1>7. PICK g \in [0..(m - 1) -> Seq(Symbol)] : Gathers(g, text, places, m - 1)
  BY <1>6
<1> DEFINE next == IF m \in places THEN Append(g[m - 1], text[m]) ELSE g[m - 1]
           h == [n \in 0..m |-> IF n = m THEN next ELSE g[n]]
<1> HIDE DEF bad, Good
<1>8. h \in [0..m -> Seq(Symbol)]
  <2>1. text[m] \in Symbol /\ g[m - 1] \in Seq(Symbol)
    BY <1>1, <1>4, <1>5, <1>7
  <2>2. next \in Seq(Symbol)
    BY <2>1, AppendProperties
  <2>3. \A n \in 0..m : n # m => g[n] \in Seq(Symbol)
    BY <1>4, <1>7
  <2> HIDE DEF next
  <2> QED
    BY <2>2, <2>3
<1>9. Gathers(h, text, places, m)
  <2> SUFFICES ASSUME NEW n \in 0..m
               PROVE  h[n] = IF n = 0 THEN <<>>
                             ELSE IF n \in places THEN Append(h[n - 1], text[n])
                             ELSE h[n - 1]
    BY DEF Gathers
  <2>1. CASE n = m
    <3>1. h[n] = next /\ h[n - 1] = g[m - 1]
      BY <1>4, <1>5, <2>1
    <3> HIDE DEF h
    <3> QED
      BY <1>5, <2>1, <3>1
  <2>2. CASE n # m
    <3>1. n \in 0..(m - 1) /\ h[n] = g[n]
      BY <1>4, <2>2
    <3>2. n # 0 => h[n - 1] = g[n - 1]
      BY <1>4, <2>2
    <3> HIDE DEF h, next
    <3> QED
      BY <1>7, <3>1, <3>2 DEF Gathers
  <2> QED
    BY <2>1, <2>2
<1> HIDE DEF h
<1> QED
  BY <1>4, <1>8, <1>9 DEF Good

\* What is gathered depends on the words and the places up to there alone.
Alike(s, P, t, Q, m) == \A i \in 1..m : s[i] = t[i] /\ (i \in P <=> i \in Q)

LEMMA GathersOnce ==
  ASSUME NEW m \in Nat, NEW s, NEW t, NEW P, NEW Q, NEW g, NEW h,
         Gathers(g, s, P, m), Gathers(h, t, Q, m),
         Alike(s, P, t, Q, m)
  PROVE  \A n \in 0..m : g[n] = h[n]
<1> DEFINE bad == {n \in 0..m : g[n] # h[n]}
<1>1. SUFFICES ASSUME bad # {} PROVE FALSE
  OBVIOUS
<1>2. PICK n \in bad : \A k \in bad : n <= k
  <2> HIDE DEF bad
  <2>1. bad \in SUBSET Nat
    BY DEF bad
  <2> QED
    BY <1>1, <2>1, Least
<1>3. n \in 0..m /\ g[n] # h[n]
  OBVIOUS
<1>4. n # 0
  BY <1>3 DEF Gathers
<1>5. n - 1 \in 0..m /\ n - 1 \notin bad /\ n \in 1..m
  BY <1>2, <1>3, <1>4
<1>6. g[n - 1] = h[n - 1]
  BY <1>5
<1> QED
  BY <1>3, <1>4, <1>5, <1>6 DEF Gathers, Alike

LEMMA PickGathers ==
  ASSUME NEW text \in Seq(Symbol), NEW places
  PROVE  \E g \in [0..Len(text) -> Seq(Symbol)] :
           Gathers(g, text, places, Len(text)) /\ Pick(text, places) = g[Len(text)]
<1> DEFINE picked[n \in 0..Len(text)] ==
             IF n = 0 THEN <<>>
             ELSE IF n \in places THEN Append(picked[n - 1], text[n])
             ELSE picked[n - 1]
           Body(f) == [n \in 0..Len(text) |->
             IF n = 0 THEN <<>>
             ELSE IF n \in places THEN Append(f[n - 1], text[n])
             ELSE f[n - 1]]
<1>1. Len(text) \in Nat
  OBVIOUS
<1>2. PICK g \in [0..Len(text) -> Seq(Symbol)] : Gathers(g, text, places, Len(text))
  BY GathersExists
<1>3. Pick(text, places) = picked[Len(text)]
  BY DEF Pick
<1>4. picked = CHOOSE f : f = Body(f)
  BY DEF picked
<1>5. g = Body(g)
  BY <1>2 DEF Gathers
<1>6. picked = Body(picked)
  <2> HIDE DEF picked, Body
  <2> QED
    BY <1>4, <1>5
<1>7. Gathers(picked, text, places, Len(text))
  <2> HIDE DEF picked
  <2> QED
    BY <1>6 DEF Gathers
<1>8. \A n \in 0..Len(text) : g[n] = picked[n]
  <2> HIDE DEF picked
  <2> QED
    BY <1>1, <1>2, <1>7, GathersOnce DEF Alike
<1> HIDE DEF picked
<1> QED
  BY <1>1, <1>2, <1>3, <1>8

\* With one more word.
LEMMA PickAppend ==
  ASSUME NEW text \in Seq(Symbol), NEW w \in Symbol, NEW P, NEW Q,
         \A i \in Places(text) : i \in P <=> i \in Q
  PROVE  /\ Pick(text, P) \in Seq(Symbol)
         /\ Pick(Append(text, w), Q)
              = IF Len(text) + 1 \in Q THEN Append(Pick(text, P), w) ELSE Pick(text, P)
<1> DEFINE n == Len(text)
           more == Append(text, w)
<1>1. /\ n \in Nat /\ more \in Seq(Symbol) /\ Len(more) = n + 1
      /\ more[n + 1] = w /\ \A i \in 1..n : more[i] = text[i]
  BY AppendProperties
<1>2. PICK g : g \in [0..n -> Seq(Symbol)] /\ Gathers(g, text, P, n) /\ Pick(text, P) = g[n]
  BY PickGathers
<1> HIDE DEF more
<1>3. PICK h : /\ h \in [0..(n + 1) -> Seq(Symbol)]
               /\ Gathers(h, more, Q, n + 1) /\ Pick(more, Q) = h[n + 1]
  BY <1>1, PickGathers
<1> HIDE DEF n
<1>4. Gathers(h, more, Q, n)
  <2>1. 0..n \subseteq 0..(n + 1)
    BY <1>1
  <2> QED
    BY <1>3, <2>1 DEF Gathers
<1>5. Alike(more, Q, text, P, n)
  BY <1>1 DEF Alike, Places, n
<1>6. \A i \in 0..n : h[i] = g[i]
  <2>1. n \in Nat
    BY <1>1
  <2>2. Gathers(h, more, Q, n) /\ Gathers(g, text, P, n) /\ Alike(more, Q, text, P, n)
    BY <1>2, <1>4, <1>5
  <2> QED
    BY <2>1, <2>2, GathersOnce
<1>7. h[n] = g[n] /\ g[n] \in Seq(Symbol)
  BY <1>1, <1>2, <1>6
<1>8. h[n + 1] = IF n + 1 \in Q THEN Append(h[n], w) ELSE h[n]
  <2>1. n + 1 \in 0..(n + 1) /\ n + 1 # 0 /\ (n + 1) - 1 = n
    BY <1>1
  <2> QED
    BY <1>1, <1>3, <2>1 DEF Gathers
<1> QED
  BY <1>2, <1>3, <1>7, <1>8 DEF n, more

LEMMA PickNothing == ASSUME NEW places PROVE Pick(<<>>, places) = <<>>
<1>1. <<>> \in Seq(Symbol) /\ Len(<<>>) = 0
  BY EmptySeq
<1>2. PICK g \in [0..0 -> Seq(Symbol)] : Gathers(g, <<>>, places, 0) /\ Pick(<<>>, places) = g[0]
  BY <1>1, PickGathers
<1> QED
  BY <1>2 DEF Gathers

\* How often a symbol occurs in the first words of a text.
Tally(text, n, symbol) == Cardinality({i \in 1..n : text[i] = symbol})
One(w, symbol) == IF w = symbol THEN 1 ELSE 0

LEMMA TallyStarts == ASSUME NEW text, NEW symbol PROVE Tally(text, 0, symbol) = 0
<1>1. {i \in 1..0 : text[i] = symbol} = {}
  OBVIOUS
<1> QED
  BY <1>1, FS_EmptySet DEF Tally

LEMMA TallySame ==
  ASSUME NEW n \in Nat, NEW s, NEW t, NEW symbol, \A i \in 1..n : s[i] = t[i]
  PROVE  Tally(s, n, symbol) = Tally(t, n, symbol)
<1>1. {i \in 1..n : s[i] = symbol} = {i \in 1..n : t[i] = symbol}
  OBVIOUS
<1> QED
  BY <1>1 DEF Tally

LEMMA TallyGoesOn ==
  ASSUME NEW n \in Nat \ {0}, NEW text, NEW symbol
  PROVE  /\ Tally(text, n - 1, symbol) \in Nat
         /\ Tally(text, n, symbol) = Tally(text, n - 1, symbol) + One(text[n], symbol)
<1> DEFINE old == {i \in 1..(n - 1) : text[i] = symbol}
<1>1. IsFiniteSet(old) /\ Cardinality(old) \in Nat
  <2>1. IsFiniteSet(1..(n - 1))
    BY FS_Interval
  <2>2. IsFiniteSet(old)
    BY <2>1, FS_Subset
  <2> QED
    BY <2>2, FS_CardinalityType
<1>2. n \notin old
  OBVIOUS
<1>3. CASE text[n] = symbol
  <2>1. {i \in 1..n : text[i] = symbol} = old \cup {n}
    BY <1>3
  <2> HIDE DEF old
  <2>2. Cardinality(old \cup {n}) = Cardinality(old) + 1
    BY <1>1, <1>2, FS_AddElement
  <2> QED
    BY <1>1, <1>3, <2>1, <2>2 DEF Tally, One, old
<1>4. CASE text[n] # symbol
  <2>1. {i \in 1..n : text[i] = symbol} = old
    BY <1>4
  <2> QED
    BY <1>1, <1>4, <2>1 DEF Tally, One
<1> QED
  BY <1>3, <1>4

LEMMA CountTally ==
  ASSUME NEW text, NEW symbol
  PROVE  Count(text, symbol) = Tally(text, Len(text), symbol)
BY DEF Count, Tally, Places

LEMMA TallyType ==
  ASSUME NEW n \in Nat, NEW text, NEW symbol
  PROVE  Tally(text, n, symbol) \in Nat
<1>1. n + 1 \in Nat \ {0} /\ (n + 1) - 1 = n
  OBVIOUS
<1> QED
  BY <1>1, TallyGoesOn

LEMMA CountNothing == ASSUME NEW symbol PROVE Count(<<>>, symbol) = 0
<1>1. Len(<<>>) = 0
  BY EmptySeq
<1> QED
  BY <1>1, CountTally, TallyStarts

LEMMA CountType ==
  ASSUME NEW text \in Seq(Symbol), NEW symbol
  PROVE  Count(text, symbol) \in Nat
<1>1. Len(text) \in Nat
  OBVIOUS
<1> QED
  BY <1>1, CountTally, TallyType

LEMMA CountAppend ==
  ASSUME NEW text \in Seq(Symbol), NEW w \in Symbol, NEW symbol
  PROVE  Count(Append(text, w), symbol) = Count(text, symbol) + One(w, symbol)
<1> DEFINE n == Len(text)
           more == Append(text, w)
<1>1. /\ n \in Nat /\ Len(more) = n + 1 /\ n + 1 \in Nat \ {0} /\ (n + 1) - 1 = n
      /\ more[n + 1] = w /\ \A i \in 1..n : more[i] = text[i]
  BY AppendProperties
<1> HIDE DEF n, more
<1>2. Tally(more, n + 1, symbol) = Tally(more, (n + 1) - 1, symbol) + One(more[n + 1], symbol)
  BY <1>1, TallyGoesOn
<1>3. Tally(more, n, symbol) = Tally(text, n, symbol)
  BY <1>1, TallySame
<1>4. Count(more, symbol) = Tally(more, n + 1, symbol) /\ Count(text, symbol) = Tally(text, n, symbol)
  BY <1>1, CountTally DEF n
<1> QED
  BY <1>1, <1>2, <1>3, <1>4 DEF more

\* Taking a tag out of a text leaves the other symbols.
LEMMA CountWithout ==
  ASSUME NEW text \in Seq(Symbol), NEW tag, NEW symbol, symbol # tag
  PROVE  /\ Without(text, tag) \in Seq(Symbol)
         /\ Count(Without(text, tag), symbol) = Count(text, symbol)
<1> DEFINE places == {i \in Places(text) : text[i] # tag}
           last == Len(text)
<1>1. last \in Nat /\ \A i \in 1..last : text[i] \in Symbol
  OBVIOUS
<1>2. PICK g : /\ g \in [0..last -> Seq(Symbol)]
               /\ Gathers(g, text, places, last) /\ Pick(text, places) = g[last]
  <2> HIDE DEF places
  <2> QED
    BY PickGathers
<1>3. \A i \in 1..last : i \in places <=> text[i] # tag
  BY DEF Places
<1> HIDE DEF places, last
<1> DEFINE bad == {n \in 0..last : Count(g[n], symbol) # Tally(text, n, symbol)}
<1>4. bad = {}
  <2> SUFFICES ASSUME bad # {} PROVE FALSE
    OBVIOUS
  <2>1. PICK n \in bad : \A k \in bad : n <= k
    <3>1. bad \in SUBSET Nat
      BY <1>1
    <3> HIDE DEF bad
    <3> QED
      BY <3>1, Least
  <2>2. n \in 0..last /\ Count(g[n], symbol) # Tally(text, n, symbol)
    OBVIOUS
  <2>3. n # 0
    <3>1. 0 \in 0..last
      BY <1>1
    <3>2. g[0] = <<>>
      BY <1>2, <3>1 DEF Gathers
    <3> QED
      BY <2>2, <3>2, CountNothing, TallyStarts
  <2>4. n - 1 \in 0..last /\ n - 1 \notin bad /\ n \in 1..last /\ n \in Nat \ {0}
    <3> HIDE DEF bad
    <3>1. n - 1 \in 0..last /\ n \in 1..last /\ n \in Nat \ {0} /\ ~(n <= n - 1)
      BY <1>1, <2>2, <2>3
    <3> QED
      BY <2>1, <3>1
  <2>5. Count(g[n - 1], symbol) = Tally(text, n - 1, symbol)
    BY <2>4
  <2>6. /\ Tally(text, n - 1, symbol) \in Nat
        /\ Tally(text, n, symbol) = Tally(text, n - 1, symbol) + One(text[n], symbol)
    BY <2>4, TallyGoesOn
  <2>7. g[n] = IF n \in places THEN Append(g[n - 1], text[n]) ELSE g[n - 1]
    BY <1>2, <2>2, <2>3 DEF Gathers
  <2>8. g[n - 1] \in Seq(Symbol) /\ text[n] \in Symbol
    BY <1>1, <1>2, <2>4
  <2> HIDE DEF bad
  <2>9. CASE n \in places
    <3>1. Count(g[n], symbol) = Count(g[n - 1], symbol) + One(text[n], symbol)
      BY <2>7, <2>8, <2>9, CountAppend
    <3> QED
      BY <2>2, <2>5, <2>6, <3>1
  <2>10. CASE n \notin places
    <3>1. One(text[n], symbol) = 0
      BY <1>3, <2>4, <2>10 DEF One
    <3> QED
      BY <2>2, <2>5, <2>6, <2>7, <2>10, <3>1
  <2> QED
    BY <2>9, <2>10
<1>5. Count(g[last], symbol) = Tally(text, last, symbol)
  BY <1>1, <1>4
<1>6. Without(text, tag) = g[last] /\ g[last] \in Seq(Symbol)
  BY <1>1, <1>2 DEF Without, places
<1> QED
  BY <1>5, <1>6, CountTally DEF last

LEMMA CountBoth ==
  ASSUME NEW s \in Seq(Symbol), NEW t \in Seq(Symbol), NEW symbol
  PROVE  Count(s \o t, symbol) = Count(s, symbol) + Count(t, symbol)
<1> DEFINE n == Len(s)
           last == Len(t)
           both == s \o t
<1>1. /\ n \in Nat /\ last \in Nat /\ Len(both) = n + last
      /\ \A i \in 1..n : both[i] = s[i]
      /\ \A i \in 1..last : both[n + i] = t[i]
  OBVIOUS
<1> HIDE DEF n, last, both
<1> DEFINE bad == {k \in 0..last : Tally(both, n + k, symbol) # Count(s, symbol) + Tally(t, k, symbol)}
<1>2. Count(s, symbol) = Tally(s, n, symbol) /\ Tally(s, n, symbol) = Tally(both, n, symbol)
  BY <1>1, CountTally, TallySame DEF n
<1>3. Count(s, symbol) \in Nat
  BY CountType
<1>4. bad = {}
  <2> SUFFICES ASSUME bad # {} PROVE FALSE
    OBVIOUS
  <2>1. PICK k \in bad : \A j \in bad : k <= j
    <3>1. bad \in SUBSET Nat
      BY <1>1
    <3> HIDE DEF bad
    <3> QED
      BY <3>1, Least
  <2>2. k \in 0..last /\ Tally(both, n + k, symbol) # Count(s, symbol) + Tally(t, k, symbol)
    OBVIOUS
  <2>3. k # 0
    <3>1. n + 0 = n
      BY <1>1
    <3> QED
      BY <1>2, <1>3, <2>2, <3>1, TallyStarts
  <2>4. k - 1 \in 0..last /\ k - 1 \notin bad /\ k \in 1..last /\ k \in Nat \ {0}
    <3> HIDE DEF bad
    <3>1. k - 1 \in 0..last /\ k \in 1..last /\ k \in Nat \ {0} /\ ~(k <= k - 1)
      BY <1>1, <2>2, <2>3
    <3> QED
      BY <2>1, <3>1
  <2>5. Tally(both, n + (k - 1), symbol) = Count(s, symbol) + Tally(t, k - 1, symbol)
    BY <2>4
  <2>6. /\ Tally(t, k - 1, symbol) \in Nat
        /\ Tally(t, k, symbol) = Tally(t, k - 1, symbol) + One(t[k], symbol)
    BY <2>4, TallyGoesOn
  <2>7. n + k \in Nat \ {0} /\ (n + k) - 1 = n + (k - 1)
    BY <1>1, <2>4
  <2>8. Tally(both, n + k, symbol) = Tally(both, n + (k - 1), symbol) + One(both[n + k], symbol)
    BY <2>7, TallyGoesOn
  <2>9. both[n + k] = t[k]
    BY <1>1, <2>4
  <2>10. One(t[k], symbol) \in Nat
    BY DEF One
  <2> HIDE DEF bad
  <2> QED
    BY <1>3, <2>2, <2>5, <2>6, <2>8, <2>9, <2>10
<1>5. Tally(both, n + last, symbol) = Count(s, symbol) + Tally(t, last, symbol)
  <2>1. last \in 0..last
    BY <1>1
  <2> QED
    BY <1>4, <2>1
<1> QED
  BY <1>1, <1>5, CountTally DEF last, both

-----------------------------------------------------------------------------
(* What is in a script, and what is a thought *)

LEMMA WithoutType ==
  ASSUME NEW text \in Seq(Symbol), NEW tag
  PROVE  Without(text, tag) \in Seq(Symbol)
<1> DEFINE places == {i \in Places(text) : text[i] # tag}
<1> HIDE DEF places
<1>1. Len(text) \in Nat
  OBVIOUS
<1>2. PICK g \in [0..Len(text) -> Seq(Symbol)] : Pick(text, places) = g[Len(text)]
  BY PickGathers
<1>3. Pick(text, places) \in Seq(Symbol)
  BY <1>1, <1>2
<1> QED
  BY <1>3 DEF Without, places

LEMMA WithoutNothing == ASSUME NEW tag PROVE Without(<<>>, tag) = <<>>
BY PickNothing DEF Without

LEMMA WithoutWord ==
  ASSUME NEW w \in Symbol, NEW tag
  PROVE  Without(<<w>>, tag) = IF w = tag THEN <<>> ELSE <<w>>
<1> DEFINE places == {i \in Places(<<w>>) : <<w>>[i] # tag}
<1>1. /\ <<>> \in Seq(Symbol) /\ Len(<<>>) = 0
      /\ Append(<<>>, w) = <<w>> /\ Len(<<w>>) = 1 /\ <<w>>[1] = w
  BY EmptySeq
<1>2. 1 \in places <=> w # tag
  BY <1>1 DEF Places
<1> HIDE DEF places
<1>3. Pick(Append(<<>>, w), places) = IF 1 \in places THEN Append(Pick(<<>>, places), w)
                                     ELSE Pick(<<>>, places)
  <2>1. \A i \in Places(<<>>) : i \in places <=> i \in places
    OBVIOUS
  <2>2. Len(<<>>) + 1 = 1
    BY <1>1
  <2>3. Pick(Append(<<>>, w), places) = IF Len(<<>>) + 1 \in places THEN Append(Pick(<<>>, places), w)
                                       ELSE Pick(<<>>, places)
    <3> DEFINE none == <<>>
    <3>1. none \in Seq(Symbol)
      BY <1>1
    <3> HIDE DEF none
    <3>2. Pick(Append(none, w), places) = IF Len(none) + 1 \in places THEN Append(Pick(none, places), w)
                                          ELSE Pick(none, places)
      BY <3>1, PickAppend
    <3> QED
      BY <3>2 DEF none
  <2> QED
    BY <2>2, <2>3
<1>4. Without(<<w>>, tag) = Pick(<<w>>, places)
  BY DEF Without, places
<1>5. Pick(<<>>, places) = <<>>
  BY PickNothing
<1> QED
  BY <1>1, <1>2, <1>3, <1>4, <1>5

\* A word does not change what the words before it are.
LEMMA ScriptBefore ==
  ASSUME NEW text \in Seq(Symbol), NEW w \in Symbol, NEW i \in 0..Len(text)
  PROVE  InScript(Append(text, w), i) <=> InScript(text, i)
<1>1. \A j \in 1..Len(text) : Append(text, w)[j] = text[j]
  BY AppendProperties
<1>2. Len(text) \in Nat
  OBVIOUS
<1>3. \A j \in 1..i : Append(text, w)[j] = text[j] /\ \A k \in j..i : Append(text, w)[k] = text[k]
  BY <1>1, <1>2
<1> QED
  BY <1>3 DEF InScript

LEMMA ThoughtBefore ==
  ASSUME NEW text \in Seq(Symbol), NEW w \in Symbol, NEW i \in 0..Len(text)
  PROVE  IsThought(Append(text, w), i) <=> IsThought(text, i)
<1> DEFINE more == Append(text, w)
<1>1. \A j \in 1..Len(text) : more[j] = text[j] /\ (InScript(more, j) <=> InScript(text, j))
  BY AppendProperties, ScriptBefore
<1>2. Len(text) \in Nat
  OBVIOUS
<1> HIDE DEF more
<1>3. \A j \in 1..i : /\ more[j] = text[j] /\ (InScript(more, j) <=> InScript(text, j))
                      /\ \A k \in j..i : more[k] = text[k] /\ (InScript(more, k) <=> InScript(text, k))
  BY <1>1, <1>2
<1>4. IsThought(more, i) <=> IsThought(text, i)
  BY <1>3 DEF IsThought
<1> QED
  BY <1>4 DEF more

\* What the word itself is.
LEMMA ScriptAfter ==
  ASSUME NEW text \in Seq(Symbol), NEW w \in Symbol
  PROVE  InScript(Append(text, w), Len(text) + 1)
           <=> w = "<cel>" \/ (InScript(text, Len(text)) /\ w # "</cel>")
<1> DEFINE more == Append(text, w)
           n == Len(text)
<1>1. n \in Nat /\ more[n + 1] = w /\ \A j \in 1..n : more[j] = text[j]
  BY AppendProperties
<1> HIDE DEF more, n
<1>2. ASSUME InScript(more, n + 1) PROVE w = "<cel>" \/ (InScript(text, n) /\ w # "</cel>")
  <2>1. PICK j \in 1..(n + 1) : more[j] = "<cel>" /\ \A k \in j..(n + 1) : more[k] # "</cel>"
    BY <1>2 DEF InScript
  <2>2. CASE j = n + 1
    BY <1>1, <2>1, <2>2
  <2>3. CASE j # n + 1
    <3>1. j \in 1..n /\ n + 1 \in j..(n + 1) /\ \A k \in j..n : k \in j..(n + 1) /\ k \in 1..n
      BY <1>1, <2>3
    <3> QED
      BY <1>1, <2>1, <3>1 DEF InScript
  <2> QED
    BY <2>2, <2>3
<1>3. ASSUME w = "<cel>" PROVE InScript(more, n + 1)
  <2>1. n + 1 \in 1..(n + 1) /\ \A k \in (n + 1)..(n + 1) : k = n + 1
    BY <1>1
  <2> QED
    BY <1>1, <1>3, <2>1 DEF InScript
<1>4. ASSUME InScript(text, n), w # "</cel>" PROVE InScript(more, n + 1)
  <2>1. PICK j \in 1..n : text[j] = "<cel>" /\ \A k \in j..n : text[k] # "</cel>"
    BY <1>4 DEF InScript
  <2>2. j \in 1..(n + 1) /\ \A k \in j..(n + 1) : k = n + 1 \/ (k \in j..n /\ k \in 1..n)
    BY <1>1
  <2> QED
    BY <1>1, <1>4, <2>1, <2>2 DEF InScript
<1> QED
  BY <1>2, <1>3, <1>4 DEF more, n

LEMMA ThoughtAfter ==
  ASSUME NEW text \in Seq(Symbol), NEW w \in Symbol
  PROVE  IsThought(Append(text, w), Len(text) + 1)
           <=> \/ w = "<think>" /\ ~InScript(Append(text, w), Len(text) + 1)
               \/ /\ IsThought(text, Len(text))
                  /\ w = "</think>" => InScript(Append(text, w), Len(text) + 1)
<1> DEFINE more == Append(text, w)
           n == Len(text)
<1>1. n \in Nat /\ more[n + 1] = w
      /\ \A j \in 1..n : more[j] = text[j] /\ (InScript(more, j) <=> InScript(text, j))
  BY AppendProperties, ScriptBefore
<1> HIDE DEF more, n
<1>2. ASSUME IsThought(more, n + 1)
      PROVE  \/ w = "<think>" /\ ~InScript(more, n + 1)
             \/ IsThought(text, n) /\ (w = "</think>" => InScript(more, n + 1))
  <2>1. PICK j \in 1..(n + 1) :
          /\ more[j] = "<think>"
          /\ ~InScript(more, j)
          /\ \A k \in j..(n + 1) : more[k] = "</think>" => InScript(more, k)
    BY <1>2 DEF IsThought
  <2>2. CASE j = n + 1
    BY <1>1, <2>1, <2>2
  <2>3. CASE j # n + 1
    <3>1. j \in 1..n /\ n + 1 \in j..(n + 1) /\ \A k \in j..n : k \in j..(n + 1) /\ k \in 1..n
      BY <1>1, <2>3
    <3>2. IsThought(text, n)
      BY <1>1, <2>1, <3>1 DEF IsThought
    <3> QED
      BY <1>1, <2>1, <3>1, <3>2
  <2> QED
    BY <2>2, <2>3
<1>3. ASSUME w = "<think>", ~InScript(more, n + 1) PROVE IsThought(more, n + 1)
  <2>1. n + 1 \in 1..(n + 1) /\ \A k \in (n + 1)..(n + 1) : k = n + 1
    BY <1>1
  <2> QED
    BY <1>1, <1>3, <2>1 DEF IsThought
<1>4. ASSUME IsThought(text, n), w = "</think>" => InScript(more, n + 1) PROVE IsThought(more, n + 1)
  <2>1. PICK j \in 1..n :
          /\ text[j] = "<think>"
          /\ ~InScript(text, j)
          /\ \A k \in j..n : text[k] = "</think>" => InScript(text, k)
    BY <1>4 DEF IsThought
  <2>2. j \in 1..(n + 1) /\ \A k \in j..(n + 1) : k = n + 1 \/ (k \in j..n /\ k \in 1..n)
    BY <1>1
  <2> QED
    BY <1>1, <1>4, <2>1, <2>2 DEF IsThought
<1> QED
  BY <1>2, <1>3, <1>4 DEF more, n

\* The words of each kind, with one more word.
LEMMA KindsAfter ==
  ASSUME NEW text \in Seq(Symbol), NEW w \in Symbol
  PROVE  LET more == Append(text, w)
             script == InScript(more, Len(text) + 1)
             thought == IsThought(more, Len(text) + 1)
             says == ~script /\ w \notin Tag
         IN  /\ Pick(more, Scripts(more))
                  = IF script /\ w # "<cel>" THEN Append(Pick(text, Scripts(text)), w)
                    ELSE Pick(text, Scripts(text))
             /\ Pick(more, Thoughts(more))
                  = IF says /\ thought THEN Append(Pick(text, Thoughts(text)), w)
                    ELSE Pick(text, Thoughts(text))
             /\ Pick(more, Words(more) \ Thoughts(more))
                  = IF says /\ ~thought THEN Append(Pick(text, Words(text) \ Thoughts(text)), w)
                    ELSE Pick(text, Words(text) \ Thoughts(text))
<1> DEFINE more == Append(text, w)
           n == Len(text)
<1>1. n \in Nat /\ Len(more) = n + 1 /\ more[n + 1] = w /\ \A j \in 1..n : more[j] = text[j]
  BY AppendProperties
<1>2. /\ \A j \in 1..n : InScript(more, j) <=> InScript(text, j)
      /\ \A j \in 1..n : IsThought(more, j) <=> IsThought(text, j)
  BY ScriptBefore, ThoughtBefore
<1>3. Places(text) = 1..n /\ Places(more) = 1..(n + 1)
  BY <1>1 DEF Places
<1>4. \A P, Q : (\A i \in Places(text) : i \in P <=> i \in Q) =>
        Pick(more, Q) = IF n + 1 \in Q THEN Append(Pick(text, P), w) ELSE Pick(text, P)
  BY PickAppend
<1> HIDE DEF more, n
<1>5. n + 1 \in Places(more) /\ \A i \in 1..n : i \in Places(more)
  BY <1>1, <1>3
<1>6. /\ \A i \in Places(text) : i \in Scripts(text) <=> i \in Scripts(more)
      /\ n + 1 \in Scripts(more) <=> InScript(more, n + 1) /\ w # "<cel>"
  BY <1>1, <1>2, <1>3, <1>5 DEF Scripts
<1>7. /\ \A i \in Places(text) : i \in Words(text) <=> i \in Words(more)
      /\ n + 1 \in Words(more) <=> ~InScript(more, n + 1) /\ w \notin Tag
  BY <1>1, <1>2, <1>3, <1>5 DEF Words
<1>8. /\ \A i \in Places(text) : i \in Thoughts(text) <=> i \in Thoughts(more)
      /\ n + 1 \in Thoughts(more) <=> n + 1 \in Words(more) /\ IsThought(more, n + 1)
  BY <1>2, <1>3, <1>7 DEF Thoughts
<1>9. Pick(more, Scripts(more))
        = IF n + 1 \in Scripts(more) THEN Append(Pick(text, Scripts(text)), w)
          ELSE Pick(text, Scripts(text))
  BY <1>4, <1>6
<1>10. Pick(more, Thoughts(more))
        = IF n + 1 \in Thoughts(more) THEN Append(Pick(text, Thoughts(text)), w)
          ELSE Pick(text, Thoughts(text))
  BY <1>4, <1>8
<1>11. Pick(more, Words(more) \ Thoughts(more))
        = IF n + 1 \in Words(more) \ Thoughts(more)
          THEN Append(Pick(text, Words(text) \ Thoughts(text)), w)
          ELSE Pick(text, Words(text) \ Thoughts(text))
  <2>1. \A i \in Places(text) : i \in Words(text) \ Thoughts(text) <=> i \in Words(more) \ Thoughts(more)
    BY <1>7, <1>8
  <2> QED
    BY <1>4, <2>1
<1> QED
  BY <1>6, <1>7, <1>8, <1>9, <1>10, <1>11 DEF more, n

-----------------------------------------------------------------------------
(* The stream of an answer *)

Stream ==
  [cel : BOOLEAN, script : Seq(Symbol), think : BOOLEAN, said : Seq(Symbol), odd : BOOLEAN,
   content : Seq(Symbol), thinking : Seq(Symbol), run : Seq(Symbol)]

\* Each word went one way.
Counted(a) ==
  \A symbol \in Symbol \ Tag :
    Count(a.said, symbol)
      = Count(a.content, symbol) + Count(a.thinking, symbol)
        + Count(a.script, symbol) + Count(a.run, symbol)

\* The flags say what the last word was, and every word has gone where it
\* belongs.
Sorted(a) ==
  /\ a.cel <=> InScript(a.said, Len(a.said))
  /\ a.think <=> IsThought(a.said, Len(a.said))
  /\ a.content = Pick(a.said, Words(a.said) \ Thoughts(a.said))
  /\ a.thinking = Pick(a.said, Thoughts(a.said))
  /\ a.run \o a.script = Pick(a.said, Scripts(a.said))

Faithful(a) == a \in Stream /\ Counted(a) /\ (~a.odd => Sorted(a))

FaithfulInv ==
  /\ answer \in [Client -> Stream]
  /\ \A c \in Client : Faithful(answer[c])

LEMMA NewFaithful == Faithful(NewAnswer)
<1> DEFINE a == NewAnswer
<1>1. <<>> \in Seq(Symbol) /\ Len(<<>>) = 0 /\ <<>> \o <<>> = <<>>
  BY EmptySeq, ConcatEmptySeq
<1>2. /\ a \in Stream /\ a.said = <<>> /\ a.content = <<>> /\ a.thinking = <<>>
      /\ a.script = <<>> /\ a.run = <<>> /\ a.cel = FALSE /\ a.think = FALSE
  BY <1>1 DEF NewAnswer, Stream
<1> HIDE DEF a
<1>3. Counted(a)
  BY <1>2, CountNothing DEF Counted
<1>4. ~InScript(<<>>, 0) /\ ~IsThought(<<>>, 0)
  BY DEF InScript, IsThought
<1>5. Sorted(a)
  BY <1>1, <1>2, <1>4, PickNothing DEF Sorted
<1> QED
  BY <1>2, <1>3, <1>5 DEF Faithful, a

\* A token of an answer: it ends a script, or is part of one, or is sent.
Relayed(a, b, token) ==
  LET text == Without(token, "<cel>")
      think == InThink(a.think, text)
  IN  /\ b.said = a.said \o token
      /\ b.odd = (a.odd \/ ~Whole(token))
      /\ \/ /\ Contains(text, "</cel>")
            /\ b.cel = FALSE /\ b.script = <<>>
            /\ b.run = a.run \o a.script \o Without(text, "</cel>")
            /\ b.think = a.think /\ b.content = a.content /\ b.thinking = a.thinking
         \/ /\ ~Contains(text, "</cel>") /\ InCel(a.cel, token)
            /\ b.cel = TRUE /\ b.script = a.script \o text /\ b.run = a.run
            /\ b.think = a.think /\ b.content = a.content /\ b.thinking = a.thinking
         \/ /\ ~Contains(text, "</cel>") /\ ~InCel(a.cel, token)
            /\ b.cel = a.cel /\ b.script = a.script /\ b.run = a.run
            /\ b.think = think
            /\ think => b.thinking = a.thinking \o Bare(text) /\ b.content = a.content
            /\ ~think => b.content = a.content \o Bare(text) /\ b.thinking = a.thinking

LEMMA RelayRelays ==
  ASSUME NEW c \in Client, NEW token \in Seq(Symbol), Relay(c, token),
         answer \in [Client -> Stream]
  PROVE  /\ answer' = [answer EXCEPT ![c] = answer'[c]]
         /\ Relayed(answer[c], answer'[c], token)
         /\ answer'[c] \in Stream
<1> DEFINE a == answer[c]
           text == Without(token, "<cel>")
           bare == Bare(text)
           think == InThink(a.think, text)
           new == [a EXCEPT !.said = @ \o token, !.odd = @ \/ ~Whole(token)]
           ends == [new EXCEPT !.cel = FALSE, !.script = <<>>,
                               !.run = @ \o a.script \o Without(text, "</cel>")]
           part == [new EXCEPT !.cel = TRUE, !.script = @ \o text]
           sent == IF think THEN [new EXCEPT !.think = think, !.thinking = @ \o bare]
                   ELSE [new EXCEPT !.think = think, !.content = @ \o bare]
<1>1. a \in Stream
  OBVIOUS
<1>2. \/ Contains(text, "</cel>") /\ answer' = [answer EXCEPT ![c] = ends]
      \/ ~Contains(text, "</cel>") /\ InCel(a.cel, token) /\ answer' = [answer EXCEPT ![c] = part]
      \/ ~Contains(text, "</cel>") /\ ~InCel(a.cel, token) /\ answer' = [answer EXCEPT ![c] = sent]
  BY Zenon DEF Relay
<1>3. text \in Seq(Symbol) /\ bare \in Seq(Symbol) /\ Without(text, "</cel>") \in Seq(Symbol)
  BY WithoutType DEF Bare
<1>4. think \in BOOLEAN /\ InCel(a.cel, token) \in BOOLEAN
  BY <1>1 DEF InThink, InCel, Stream, Contains
<1> HIDE DEF a, text, bare, think
<1>5. new \in Stream /\ new.said = a.said \o token /\ new.odd = (a.odd \/ ~Whole(token))
      /\ new.cel = a.cel /\ new.script = a.script /\ new.run = a.run
      /\ new.think = a.think /\ new.content = a.content /\ new.thinking = a.thinking
  <2> DEFINE longer == a.said \o token
             odd == a.odd \/ ~Whole(token)
  <2>1. longer \in Seq(Symbol)
    BY <1>1 DEF Stream
  <2>2. odd \in BOOLEAN
    OBVIOUS
  <2>3. new = [a EXCEPT !.said = longer, !.odd = odd]
    OBVIOUS
  <2>4. longer = a.said \o token /\ odd = (a.odd \/ ~Whole(token))
    OBVIOUS
  <2> HIDE DEF longer, odd, new
  <2> QED
    BY <1>1, <2>1, <2>2, <2>3, <2>4 DEF Stream
<1> HIDE DEF new
<1>6. CASE Contains(text, "</cel>") /\ answer' = [answer EXCEPT ![c] = ends]
  <2>1. /\ ends \in Stream
        /\ ends.said = new.said /\ ends.odd = new.odd /\ ends.cel = FALSE /\ ends.script = <<>>
        /\ ends.run = new.run \o a.script \o Without(text, "</cel>")
        /\ ends.think = new.think /\ ends.content = new.content /\ ends.thinking = new.thinking
    <3>1. new.run \o a.script \o Without(text, "</cel>") \in Seq(Symbol) /\ <<>> \in Seq(Symbol)
      BY <1>1, <1>3, <1>5 DEF Stream
    <3> QED
      BY <1>5, <3>1 DEF Stream
  <2> HIDE DEF ends
  <2>2. answer'[c] = ends
    BY <1>6
  <2> QED
    BY <1>5, <1>6, <2>1, <2>2 DEF Relayed, a, text
<1>7. CASE ~Contains(text, "</cel>") /\ InCel(a.cel, token) /\ answer' = [answer EXCEPT ![c] = part]
  <2>1. /\ part \in Stream
        /\ part.said = new.said /\ part.odd = new.odd /\ part.cel = TRUE
        /\ part.script = new.script \o text /\ part.run = new.run
        /\ part.think = new.think /\ part.content = new.content /\ part.thinking = new.thinking
    <3>1. new.script \o text \in Seq(Symbol)
      BY <1>3, <1>5 DEF Stream
    <3> QED
      BY <1>5, <3>1 DEF Stream
  <2> HIDE DEF part
  <2>2. answer'[c] = part
    BY <1>7
  <2> QED
    BY <1>5, <1>7, <2>1, <2>2 DEF Relayed, a, text
<1>8. CASE ~Contains(text, "</cel>") /\ ~InCel(a.cel, token) /\ answer' = [answer EXCEPT ![c] = sent]
  <2>1. /\ sent \in Stream
        /\ sent.said = new.said /\ sent.odd = new.odd /\ sent.cel = new.cel
        /\ sent.script = new.script /\ sent.run = new.run /\ sent.think = think
        /\ think => sent.thinking = new.thinking \o bare /\ sent.content = new.content
        /\ ~think => sent.content = new.content \o bare /\ sent.thinking = new.thinking
    <3>1. new.thinking \o bare \in Seq(Symbol) /\ new.content \o bare \in Seq(Symbol)
      BY <1>3, <1>5 DEF Stream
    <3>2. CASE think
      BY <1>4, <1>5, <3>1, <3>2 DEF Stream
    <3>3. CASE ~think
      BY <1>4, <1>5, <3>1, <3>3 DEF Stream
    <3> QED
      BY <3>2, <3>3
  <2> HIDE DEF sent
  <2>2. answer'[c] = sent
    BY <1>8
  <2> QED
    BY <1>5, <1>8, <2>1, <2>2 DEF Relayed, a, text, bare, think
<1> QED
  BY <1>2, <1>6, <1>7, <1>8

\* A token adds to what is said what it adds to one of the four.
LEMMA RelayCounts ==
  ASSUME NEW a \in Stream, NEW b \in Stream, NEW token \in Seq(Symbol),
         Relayed(a, b, token), Counted(a)
  PROVE  Counted(b)
<1> DEFINE text == Without(token, "<cel>")
           bare == Bare(text)
           rest == Without(text, "</cel>")
<1> SUFFICES ASSUME NEW symbol \in Symbol \ Tag
             PROVE  Count(b.said, symbol)
                      = Count(b.content, symbol) + Count(b.thinking, symbol)
                        + Count(b.script, symbol) + Count(b.run, symbol)
  BY DEF Counted
<1>1. symbol # "<cel>" /\ symbol # "</cel>" /\ symbol # "<think>" /\ symbol # "</think>"
  BY DEF Tag
<1>2. text \in Seq(Symbol) /\ Count(text, symbol) = Count(token, symbol)
  BY <1>1, CountWithout
<1>3. rest \in Seq(Symbol) /\ Count(rest, symbol) = Count(token, symbol)
  <2> HIDE DEF text
  <2> QED
    BY <1>1, <1>2, CountWithout
<1>4. bare \in Seq(Symbol) /\ Count(bare, symbol) = Count(token, symbol)
  <2> HIDE DEF text
  <2>1. /\ Without(text, "<think>") \in Seq(Symbol)
        /\ Count(Without(text, "<think>"), symbol) = Count(token, symbol)
    BY <1>1, <1>2, CountWithout
  <2> QED
    BY <1>1, <2>1, CountWithout DEF Bare
<1>5. /\ a.said \in Seq(Symbol) /\ a.content \in Seq(Symbol) /\ a.thinking \in Seq(Symbol)
      /\ a.script \in Seq(Symbol) /\ a.run \in Seq(Symbol)
  BY DEF Stream
<1>6. Count(a.said, symbol) = Count(a.content, symbol) + Count(a.thinking, symbol)
                               + Count(a.script, symbol) + Count(a.run, symbol)
  BY DEF Counted
<1>7. /\ Count(a.content, symbol) \in Nat /\ Count(a.thinking, symbol) \in Nat
      /\ Count(a.script, symbol) \in Nat /\ Count(a.run, symbol) \in Nat
      /\ Count(token, symbol) \in Nat
  BY <1>5, CountType
<1>8. \A s, t \in Seq(Symbol) : Count(s \o t, symbol) = Count(s, symbol) + Count(t, symbol)
  BY CountBoth
<1>9. b.said = a.said \o token
  BY DEF Relayed
<1> HIDE DEF text, bare, rest
<1>10. Count(b.said, symbol) = Count(a.said, symbol) + Count(token, symbol)
  BY <1>5, <1>8, <1>9
<1>11. CASE /\ b.script = <<>> /\ b.run = a.run \o a.script \o rest
            /\ b.content = a.content /\ b.thinking = a.thinking
  <2>1. a.run \o a.script \in Seq(Symbol)
    BY <1>5
  <2>2. Count(b.run, symbol) = Count(a.run, symbol) + Count(a.script, symbol) + Count(token, symbol)
    BY <1>3, <1>5, <1>8, <1>11, <2>1
  <2>3. Count(b.script, symbol) = 0
    BY <1>11, CountNothing
  <2> QED
    BY <1>6, <1>7, <1>10, <1>11, <2>2, <2>3
<1>12. CASE /\ b.script = a.script \o text /\ b.run = a.run
            /\ b.content = a.content /\ b.thinking = a.thinking
  <2>1. Count(b.script, symbol) = Count(a.script, symbol) + Count(token, symbol)
    BY <1>2, <1>5, <1>8, <1>12
  <2> QED
    BY <1>6, <1>7, <1>10, <1>12, <2>1
<1>13. CASE /\ b.script = a.script /\ b.run = a.run
            /\ b.thinking = a.thinking \o bare /\ b.content = a.content
  <2>1. Count(b.thinking, symbol) = Count(a.thinking, symbol) + Count(token, symbol)
    BY <1>4, <1>5, <1>8, <1>13
  <2> QED
    BY <1>6, <1>7, <1>10, <1>13, <2>1
<1>14. CASE /\ b.script = a.script /\ b.run = a.run
            /\ b.content = a.content \o bare /\ b.thinking = a.thinking
  <2>1. Count(b.content, symbol) = Count(a.content, symbol) + Count(token, symbol)
    BY <1>4, <1>5, <1>8, <1>14
  <2> QED
    BY <1>6, <1>7, <1>10, <1>14, <2>1
<1> QED
  BY <1>11, <1>12, <1>13, <1>14 DEF Relayed, text, bare, rest

LEMMA Regrouped == \A a, b, c \in Seq(Symbol) : (a \o b) \o c = a \o (b \o c)
BY ConcatAssociative

\* A word that is a token of its own goes where it belongs.
LEMMA RelaySorts ==
  ASSUME NEW a \in Stream, NEW b \in Stream, NEW token \in Seq(Symbol),
         Relayed(a, b, token), Sorted(a), Whole(token)
  PROVE  Sorted(b)
<1>1. PICK w : token = <<w>> /\ w \in Symbol /\ w \notin {"<ce", "l>"}
  <2>1. Len(token) = 1 /\ token[1] \notin {"<ce", "l>"}
    BY DEF Whole
  <2>2. token[1] \in Symbol /\ token = <<token[1]>>
    BY <2>1
  <2> QED
    BY <2>1, <2>2
<1>2. w \in {"<cel>", "</cel>", "<think>", "</think>", "text"}
  BY <1>1 DEF Symbol, Tag
<1> DEFINE old == a.said
           n == Len(old)
           more == Append(old, w)
           script == InScript(more, n + 1)
           thought == IsThought(more, n + 1)
           text == Without(token, "<cel>")
<1>3. /\ old \in Seq(Symbol) /\ a.content \in Seq(Symbol) /\ a.thinking \in Seq(Symbol)
      /\ a.script \in Seq(Symbol) /\ a.run \in Seq(Symbol)
      /\ a.cel \in BOOLEAN /\ a.think \in BOOLEAN
  BY DEF Stream
<1>4. \A s \in Seq(Symbol) : s \o <<w>> = Append(s, w)
  BY <1>1
<1>5. \A s \in Seq(Symbol) : s \o <<>> = s
  BY ConcatEmptySeq
<1>6. more = b.said /\ Len(b.said) = n + 1
  <2>1. b.said = old \o <<w>>
    BY <1>1 DEF Relayed
  <2>2. Len(more) = n + 1
    BY <1>3, <1>1, AppendProperties
  <2> QED
    BY <1>3, <1>4, <2>1, <2>2
<1>7. script <=> w = "<cel>" \/ (a.cel /\ w # "</cel>")
  BY <1>1, <1>3, ScriptAfter DEF Sorted
<1>8. thought <=> (w = "<think>" /\ ~script) \/ (a.think /\ (w = "</think>" => script))
  BY <1>1, <1>3, ThoughtAfter DEF Sorted
<1>9. /\ Pick(more, Scripts(more))
           = IF script /\ w # "<cel>" THEN Append(a.run \o a.script, w) ELSE a.run \o a.script
      /\ Pick(more, Thoughts(more))
           = IF ~script /\ w \notin Tag /\ thought THEN Append(a.thinking, w) ELSE a.thinking
      /\ Pick(more, Words(more) \ Thoughts(more))
           = IF ~script /\ w \notin Tag /\ ~thought THEN Append(a.content, w) ELSE a.content
  <2>1. /\ Pick(more, Scripts(more))
             = IF script /\ w # "<cel>" THEN Append(Pick(old, Scripts(old)), w)
               ELSE Pick(old, Scripts(old))
        /\ Pick(more, Thoughts(more))
             = IF ~script /\ w \notin Tag /\ thought THEN Append(Pick(old, Thoughts(old)), w)
               ELSE Pick(old, Thoughts(old))
        /\ Pick(more, Words(more) \ Thoughts(more))
             = IF ~script /\ w \notin Tag /\ ~thought
               THEN Append(Pick(old, Words(old) \ Thoughts(old)), w)
               ELSE Pick(old, Words(old) \ Thoughts(old))
    <3> HIDE DEF old
    <3> QED
      BY <1>1, <1>3, KindsAfter
  <2>2. /\ a.run \o a.script = Pick(old, Scripts(old))
        /\ a.thinking = Pick(old, Thoughts(old))
        /\ a.content = Pick(old, Words(old) \ Thoughts(old))
    BY DEF Sorted
  <2> HIDE DEF old, n, more, script, thought
  <2> QED
    BY <2>1, <2>2
<1>10. text = IF w = "<cel>" THEN <<>> ELSE <<w>>
  BY <1>1, WithoutWord
<1>11. Contains(text, "</cel>") <=> w = "</cel>"
  <2>1. CASE w = "<cel>"
    BY <1>10, <2>1 DEF Contains
  <2>2. CASE w # "<cel>"
    BY <1>10, <2>2 DEF Contains
  <2> QED
    BY <2>1, <2>2
<1>12. InCel(a.cel, token) <=> a.cel \/ w = "<cel>"
  BY <1>1 DEF InCel, Contains
<1> HIDE DEF old, n, more, script, thought, text
<1>13. SUFFICES /\ b.cel <=> script
                /\ b.think <=> thought
                /\ b.content = Pick(more, Words(more) \ Thoughts(more))
                /\ b.thinking = Pick(more, Thoughts(more))
                /\ b.run \o b.script = Pick(more, Scripts(more))
  BY <1>6 DEF Sorted, script, thought
<1>14. CASE w = "</cel>"
  <2>1. /\ b.cel = FALSE /\ b.script = <<>>
        /\ b.run = a.run \o a.script \o Without(text, "</cel>")
        /\ b.think = a.think /\ b.content = a.content /\ b.thinking = a.thinking
    BY <1>11, <1>14 DEF Relayed, text
  <2>2. Without(text, "</cel>") = <<>>
    BY <1>1, <1>10, <1>14, WithoutWord
  <2>3. a.run \o a.script \in Seq(Symbol)
    BY <1>3
  <2>4. b.run \o b.script = a.run \o a.script
    BY <1>5, <2>1, <2>2, <2>3
  <2>5. ~script /\ w \in Tag /\ (thought <=> a.think)
    BY <1>7, <1>8, <1>14 DEF Tag
  <2> QED
    BY <1>9, <2>1, <2>4, <2>5
<1>15. CASE w # "</cel>" /\ (a.cel \/ w = "<cel>")
  <2>1. /\ b.cel = TRUE /\ b.script = a.script \o text /\ b.run = a.run
        /\ b.think = a.think /\ b.content = a.content /\ b.thinking = a.thinking
    BY <1>11, <1>12, <1>15 DEF Relayed, text
  <2>2. script /\ (thought <=> a.think)
    BY <1>7, <1>8, <1>15
  <2>3. CASE w = "<cel>"
    <3>1. b.script = a.script
      BY <1>3, <1>5, <1>10, <2>1, <2>3
    <3> QED
      BY <1>9, <2>1, <2>2, <2>3, <3>1
  <2>4. CASE w # "<cel>"
    <3>1. b.script = a.script \o <<w>>
      BY <1>10, <2>1, <2>4
    <3>2. a.run \o (a.script \o <<w>>) = (a.run \o a.script) \o <<w>> /\ a.run \o a.script \in Seq(Symbol)
      <4>1. <<w>> \in Seq(Symbol)
        BY <1>1
      <4>2. (a.run \o a.script) \o <<w>> = a.run \o (a.script \o <<w>>)
        <5> DEFINE run == a.run
                   part == a.script
                   word == <<w>>
        <5>1. run \in Seq(Symbol) /\ part \in Seq(Symbol) /\ word \in Seq(Symbol)
          BY <1>3, <4>1
        <5> HIDE DEF run, part, word
        <5>2. (run \o part) \o word = run \o (part \o word)
          BY <5>1, Regrouped
        <5> QED
          BY <5>2 DEF run, part, word
      <4>3. a.run \o a.script \in Seq(Symbol)
        BY <1>3
      <4> QED
        BY <4>2, <4>3
    <3>3. b.run \o b.script = Append(a.run \o a.script, w)
      BY <1>4, <2>1, <3>1, <3>2
    <3> QED
      BY <1>9, <2>1, <2>2, <2>4, <3>3
  <2> QED
    BY <2>3, <2>4
<1>16. CASE w # "</cel>" /\ ~a.cel /\ w # "<cel>"
  <2>1. text = <<w>> /\ ~script
    BY <1>7, <1>10, <1>16
  <2>2. InThink(a.think, text) <=> thought
    BY <1>8, <2>1 DEF InThink, Contains
  <2>3. /\ b.cel = a.cel /\ b.script = a.script /\ b.run = a.run /\ b.think = InThink(a.think, text)
        /\ thought => b.thinking = a.thinking \o Bare(text) /\ b.content = a.content
        /\ ~thought => b.content = a.content \o Bare(text) /\ b.thinking = a.thinking
    BY <1>11, <1>12, <1>16, <2>2 DEF Relayed, text
  <2>4. Bare(text) = IF w \in Tag THEN <<>> ELSE <<w>>
    <3>1. CASE w = "<think>"
      BY <1>1, <2>1, <3>1, WithoutWord, WithoutNothing DEF Bare, Tag
    <3>2. CASE w = "</think>"
      BY <1>1, <2>1, <3>2, WithoutWord DEF Bare, Tag
    <3>3. CASE w = "text"
      BY <1>1, <2>1, <3>3, WithoutWord DEF Bare, Tag
    <3> QED
      BY <1>2, <1>16, <3>1, <3>2, <3>3
  <2>5. CASE w \in Tag
    <3>1. b.thinking = a.thinking /\ b.content = a.content
      BY <1>3, <1>5, <2>3, <2>4, <2>5
    <3> QED
      BY <1>9, <1>16, <2>1, <2>2, <2>3, <2>5, <3>1
  <2>6. CASE w \notin Tag
    <3>1. /\ thought => b.thinking = Append(a.thinking, w) /\ b.content = a.content
          /\ ~thought => b.content = Append(a.content, w) /\ b.thinking = a.thinking
      BY <1>3, <1>4, <2>3, <2>4, <2>6
    <3> QED
      BY <1>9, <1>16, <2>1, <2>2, <2>3, <2>6, <3>1
  <2> QED
    BY <2>5, <2>6
<1> QED
  BY <1>14, <1>15, <1>16

LEMMA RelayFaithful ==
  ASSUME BridgeAssumption, FaithfulInv,
         NEW c \in Client, NEW token \in Token, Relay(c, token)
  PROVE  FaithfulInv'
<1>1. token \in Seq(Symbol)
  BY DEF BridgeAssumption
<1>2. /\ answer' = [answer EXCEPT ![c] = answer'[c]]
      /\ Relayed(answer[c], answer'[c], token)
      /\ answer'[c] \in Stream
  BY <1>1, RelayRelays DEF FaithfulInv
<1>3. answer[c] \in Stream /\ Counted(answer[c]) /\ (~answer[c].odd => Sorted(answer[c]))
  BY DEF FaithfulInv, Faithful
<1>4. Counted(answer'[c])
  BY <1>1, <1>2, <1>3, RelayCounts
<1>5. ~answer'[c].odd => Sorted(answer'[c])
  <2>1. ~answer'[c].odd => ~answer[c].odd /\ Whole(token)
    BY <1>2 DEF Relayed
  <2> QED
    BY <1>1, <1>2, <1>3, <2>1, RelaySorts
<1>6. answer' \in [Client -> Stream] /\ \A d \in Client \ {c} : answer'[d] = answer[d]
  BY <1>2 DEF FaithfulInv
<1> QED
  BY <1>2, <1>4, <1>5, <1>6 DEF FaithfulInv, Faithful

LEMMA NextFaithful == BridgeAssumption /\ FaithfulInv /\ [Next]_vars => FaithfulInv'
<1> SUFFICES ASSUME BridgeAssumption, FaithfulInv, [Next]_vars PROVE FaithfulInv'
  OBVIOUS
<1>1. CASE UNCHANGED answer
  BY <1>1 DEF FaithfulInv
<1>2. ASSUME NEW c \in Client, answer' = [answer EXCEPT ![c] = NewAnswer]
      PROVE  FaithfulInv'
  <2>1. NewAnswer \in Stream
    BY NewFaithful DEF Faithful
  <2>2. answer' \in [Client -> Stream] /\ \A d \in Client : answer'[d] = answer[d] \/ answer'[d] = NewAnswer
    BY <1>2, <2>1 DEF FaithfulInv
  <2> QED
    BY <2>2, NewFaithful DEF FaithfulInv
<1>3. CASE MakePipe \/ UNCHANGED vars
  BY <1>1, <1>3 DEF MakePipe, vars
<1>4. ASSUME NEW c \in Client, ClientStep(c) PROVE UNCHANGED answer
  BY <1>4 DEF ClientStep, Connect, Refuse, Send, Leave
<1>5. ASSUME NEW c \in Client, HandlerStep(c)
      PROVE  \/ UNCHANGED answer
             \/ answer' = [answer EXCEPT ![c] = NewAnswer]
             \/ \E token \in Token : Relay(c, token)
  BY <1>5, Zenon DEF HandlerStep, Read, End, Load, Create, Default, CreateFails, Proceed,
     Open, Write, SaveFails, Done, Crashed, WriteFails, Turn
<1> QED
  BY <1>1, <1>2, <1>3, <1>4, <1>5, RelayFaithful DEF Next

\* No word of an answer is lost or sent twice, for any tokens whatever: each was
\* sent or is part of a script.  As long as the words come one by one, what is
\* sent as text, as thoughts and what is executed is exactly what is meant to be.
THEOREM FaithfulAnswers == Spec => []AnswersFaithful
<1>1. BridgeAssumption
  BY BridgeAssumption
<1>2. Init => FaithfulInv
  <2> SUFFICES ASSUME Init PROVE FaithfulInv
    OBVIOUS
  <2>1. answer = [c \in Client |-> NewAnswer] /\ NewAnswer \in Stream
    BY NewFaithful DEF Init, Faithful
  <2> QED
    BY <2>1, NewFaithful DEF FaithfulInv
<1>3. FaithfulInv => AnswersFaithful
  BY DEF FaithfulInv, Faithful, Counted, Sorted, AnswersFaithful
<1> QED
  BY <1>1, <1>2, <1>3, NextFaithful, PTL DEF Spec

=============================================================================
