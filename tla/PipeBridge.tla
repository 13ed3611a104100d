----------------------------- MODULE PipeBridge -----------------------------
(***************************************************************************)
(* The named pipe of the daemon (Inference-engine/api/src/ffi_bridge.rs):  *)
(* the listener makes one pipe instance after the other, every connection  *)
(* gets a handler, a handler reads a command, answers it, and reads again. *)
(* A command is a JSON action or a prompt; the answer to a prompt is       *)
(* streamed, without the CEL scripts the model writes, which the daemon    *)
(* executes itself.                                                        *)
(*                                                                         *)
(* The clients are the command line (cmd/src/cli/run.rs), which sends one  *)
(* prompt and reads for ever, and applications, which send what they like. *)
(***************************************************************************)
EXTENDS Naturals, Sequences, SequencesExt, FiniteSets

CONSTANTS
  Client,       \* the connections that are tried
  Cli,          \* those of the command line
  Key,          \* the permissions that can be updated
  Token,        \* what the model says, each a sequence of symbols
  MaxTokens,    \* bound: tokens of all answers
  MaxCommands,  \* bound: commands of a client
  MaxFailures   \* 10: failures in a row that end the listener

Tag == {"<cel>", "</cel>", "<think>", "</think>"}

\* The words of the model; a tag may come in two halves, too.
Symbol == Tag \cup {"text", "<ce", "l>"}

ASSUME BridgeAssumption ==
  /\ Cli \subseteq Client
  /\ Token \subseteq Seq(Symbol)
  /\ MaxTokens \in Nat
  /\ MaxCommands \in Nat
  /\ MaxFailures \in Nat \ {0}

VARIABLES
  listener,  \* where start_named_pipe_server is
  failures,  \* consecutive_failures
  client,    \* where each client is
  calls,     \* the commands it has sent
  inbox,     \* those the handler has not read
  handler,   \* where each handler is
  command,   \* the command it is about
  copy,      \* the permissions it has loaded
  answer,    \* the answer each handler streams
  left,      \* the tokens that may still be said
  rushed,    \* history: clients that did not wait for an answer
  silent,    \* history: clients a command of which was not answered
  state,     \* Permission.json: absent, empty (what a writer has left does not
             \* parse), or whole
  granted,   \* and the keys that are set in it
  saved,     \* history: the keys whose update was answered
  lost,      \* history: those that a failing file operation has lost
  overlap    \* history: somebody loaded the file while another one was saving it

conn == <<listener, failures>>
habits == <<rushed, silent>>
file == <<state, granted, saved, lost, overlap>>
vars == <<conn, client, calls, inbox, handler, command, copy, answer, left, habits, file>>

-----------------------------------------------------------------------------
\* An answer at its beginning.
NewAnswer ==
  [cel |-> FALSE,       \* in_cel_block
   script |-> <<>>,     \* cel_buffer
   think |-> FALSE,     \* in_think_block
   said |-> <<>>,       \* history: what the model has said,
   odd |-> FALSE,       \* history: in tokens some of which are more or less than a word
   content |-> <<>>,    \* what the client was sent as text,
   thinking |-> <<>>,   \* as thoughts,
   run |-> <<>>]        \* and the scripts that were executed, joined

Command == [kind : {"prompt", "query", "mute"}] \cup [kind : {"update"}, key : Key]
Prompt == [kind |-> "prompt"]
Query == [kind |-> "query"]

\* An update without a payload: no answer.
Mute == [kind |-> "mute"]

Commands == {Prompt, Query, Mute} \cup {[kind |-> "update", key |-> k] : k \in Key}

Saving == {"create", "default", "open", "write"}
Busy == Saving \cup {"load", "stream"}

\* Of the answers AnswersFaithful says what they hold.
BridgeTypeOK ==
  /\ listener \in {"create", "wait", "dead"}
  /\ failures \in 0..MaxFailures
  /\ client \in [Client -> {"out", "ready", "waiting", "gone", "failed"}]
  /\ calls \in [Client -> 0..MaxCommands]
  /\ inbox \in [Client -> Seq(Command)]
  /\ handler \in [Client -> Busy \cup {"none", "read", "ended"}]
  /\ command \in [Client -> Command]
  /\ copy \in [Client -> SUBSET Key]
  /\ left \in 0..MaxTokens
  /\ rushed \subseteq Client
  /\ silent \subseteq Client
  /\ state \in {"absent", "empty", "whole"}
  /\ granted \subseteq Key
  /\ saved \subseteq Key
  /\ lost \subseteq Key
  /\ overlap \in BOOLEAN
  /\ \A c \in Client : handler[c] \in {"open", "write"} => command[c].kind = "update"

Init ==
  /\ listener = "create"
  /\ failures = 0
  /\ client = [c \in Client |-> "out"]
  /\ calls = [c \in Client |-> 0]
  /\ inbox = [c \in Client |-> <<>>]
  /\ handler = [c \in Client |-> "none"]
  /\ command = [c \in Client |-> Prompt]
  /\ copy = [c \in Client |-> {}]
  /\ answer = [c \in Client |-> NewAnswer]
  /\ left = MaxTokens
  /\ rushed = {}
  /\ silent = {}
  /\ state \in {"absent", "whole"}
  /\ granted \in IF state = "whole" THEN SUBSET Key ELSE {{}}
  /\ saved = granted
  /\ lost = {}
  /\ overlap = FALSE

-----------------------------------------------------------------------------
(* The listener. *)

\* Bound: followed as long as somebody is to come.
MakePipe ==
  /\ listener = "create"
  /\ \E c \in Client : client[c] = "out"
  /\ \/ /\ listener' = "wait"
        /\ failures' = 0
     \/ /\ failures' = failures + 1
        /\ listener' = IF failures' >= MaxFailures THEN "dead" ELSE "create"
  /\ UNCHANGED <<client, calls, inbox, handler, command, copy, answer, habits, file, left>>

\* A client finds the pipe when an instance waits: the handler is spawned and
\* the listener makes the next one.
Connect(c) ==
  /\ client[c] = "out"
  /\ listener = "wait"
  /\ client' = [client EXCEPT ![c] = "ready"]
  /\ handler' = [handler EXCEPT ![c] = "read"]
  /\ listener' = "create"
  /\ UNCHANGED <<failures, calls, inbox, command, copy, answer, habits, file, left>>

\* A client that comes between two instances finds no pipe.
Refuse(c) ==
  /\ client[c] = "out"
  /\ listener # "wait"
  /\ client' = [client EXCEPT ![c] = "failed"]
  /\ UNCHANGED <<conn, calls, inbox, handler, command, copy, answer, habits, file, left>>

-----------------------------------------------------------------------------
(* The clients. *)

\* The command line sends a prompt and waits; an application need not wait.
Send(c, m) ==
  /\ client[c] \in {"ready", "waiting"}
  /\ c \in Cli => client[c] = "ready" /\ m = Prompt /\ calls[c] = 0
  /\ calls[c] < MaxCommands
  /\ calls' = [calls EXCEPT ![c] = @ + 1]
  /\ inbox' = [inbox EXCEPT ![c] = Append(@, m)]
  /\ client' = [client EXCEPT ![c] = "waiting"]
  /\ rushed' = IF client[c] = "waiting" THEN rushed \cup {c} ELSE rushed
  /\ UNCHANGED <<conn, handler, command, copy, answer, silent, file, left>>

Leave(c) ==
  /\ client[c] \in {"ready", "waiting"}
  /\ client' = [client EXCEPT ![c] = "gone"]
  /\ UNCHANGED <<conn, calls, inbox, handler, command, copy, answer, habits, file, left>>

\* Faulty form: the last line of an answer is not sent.
Unanswered(c) == client

\* The answer has come to its end.  The command line goes on reading: its
\* break leaves the loop over the lines only.
Answered(c) ==
  IF client[c] = "waiting" /\ c \notin Cli THEN [client EXCEPT ![c] = "ready"] ELSE client

-----------------------------------------------------------------------------
(* The handler. *)

\* The locals of a turn of the loop end with it.
Turn(c) ==
  /\ handler' = [handler EXCEPT ![c] = "read"]
  /\ command' = [command EXCEPT ![c] = Prompt]
  /\ copy' = [copy EXCEPT ![c] = {}]
  /\ answer' = [answer EXCEPT ![c] = NewAnswer]

\* What a read returns is one command, whatever was sent: several commands
\* are no JSON and become a prompt.
Parsed(commands) == IF Len(commands) = 1 THEN Head(commands) ELSE Prompt

\* Updates, the answer to a prompt and some queries begin with a load of the
\* permissions.  The other queries, and a prompt the dispatcher refuses, are
\* answered at once.
Read(c) ==
  /\ handler[c] = "read"
  /\ \E n \in 1..Len(inbox[c]) :
       LET m == Parsed(SubSeq(inbox[c], 1, n))
       IN  /\ inbox' = [inbox EXCEPT ![c] = SubSeq(@, n + 1, Len(@))]
           /\ \/ /\ m # Mute
                 /\ handler' = [handler EXCEPT ![c] = "load"]
                 /\ command' = [command EXCEPT ![c] = m]
                 /\ UNCHANGED <<client, silent>>
              \/ /\ m \in {Query, Prompt}
                 /\ client' = Answered(c)
                 /\ UNCHANGED <<handler, command, silent>>
              \/ /\ m = Mute
                 /\ silent' = silent \cup {c}
                 /\ UNCHANGED <<client, handler, command>>
  /\ UNCHANGED <<conn, calls, copy, answer, rushed, file, left>>

\* Nothing to read and nobody to send it.
End(c) ==
  /\ handler[c] = "read"
  /\ client[c] = "gone"
  /\ inbox[c] = <<>>
  /\ handler' = [handler EXCEPT ![c] = "ended"]
  /\ UNCHANGED <<conn, client, calls, inbox, command, copy, answer, habits, file, left>>

\* With the permissions at hand.  A query, and a value that is no permission,
\* are answered.
Proceed(c, found) ==
  \/ /\ command[c].kind = "update"
     /\ handler' = [handler EXCEPT ![c] = "open"]
     /\ copy' = [copy EXCEPT ![c] = found]
     /\ UNCHANGED <<client, command, answer>>
  \/ /\ command[c].kind \in {"query", "update"}
     /\ Turn(c)
     /\ client' = Answered(c)
  \/ /\ command[c].kind = "prompt"
     /\ handler' = [handler EXCEPT ![c] = "stream"]
     /\ UNCHANGED <<client, command, copy, answer>>

\* PermissionSchema::load.  A file that does not parse, or cannot be read, counts
\* as the defaults: what it holds is lost if they are saved.
Load(c) ==
  /\ handler[c] = "load"
  /\ overlap' = (overlap \/ \E d \in Client \ {c} : handler[d] \in Saving)
  /\ \/ /\ state = "absent"
        /\ handler' = [handler EXCEPT ![c] = "create"]
        /\ UNCHANGED <<client, command, copy, answer, lost>>
     \/ /\ state # "absent"
        /\ Proceed(c, IF state = "whole" THEN granted ELSE {})
        /\ UNCHANGED lost
     \/ /\ state # "absent"
        /\ Proceed(c, {})
        /\ lost' = IF handler'[c] = "open" THEN saved ELSE lost
  /\ UNCHANGED <<conn, calls, inbox, left, habits, state, granted, saved>>

\* A missing file is created with the defaults.
Create(c) ==
  /\ handler[c] = "create"
  /\ handler' = [handler EXCEPT ![c] = "default"]
  /\ state' = "empty"
  /\ UNCHANGED <<conn, client, calls, inbox, command, copy, answer, habits, granted, saved, lost, overlap, left>>

Default(c) ==
  /\ handler[c] = "default"
  /\ state' = "whole"
  /\ granted' = {}
  /\ Proceed(c, {})
  /\ UNCHANGED <<conn, calls, inbox, habits, saved, lost, overlap, left>>

\* It cannot be created, or what is written of it does not parse; the handler
\* goes on with the defaults.
CreateFails(c) ==
  /\ handler[c] \in {"create", "default"}
  /\ Proceed(c, {})
  /\ UNCHANGED <<conn, calls, inbox, habits, file, left>>

\* PermissionSchema::save.
Open(c) ==
  /\ handler[c] = "open"
  /\ handler' = [handler EXCEPT ![c] = "write"]
  /\ state' = "empty"
  /\ UNCHANGED <<conn, client, calls, inbox, command, copy, answer, habits, granted, saved, lost, overlap, left>>

\* Faulty form: what was loaded is not written back.
OnlyKey(c) == {command[c].key}

\* The loaded permissions with the one key changed.
Changed(c) == copy[c] \cup {command[c].key}

Write(c) ==
  /\ handler[c] = "write"
  /\ state' = "whole"
  /\ granted' = Changed(c)
  /\ saved' = saved \cup {command[c].key}
  /\ lost' = lost \ {command[c].key}
  /\ Turn(c)
  /\ client' = Answered(c)
  /\ UNCHANGED <<conn, calls, inbox, habits, overlap, left>>

\* The file cannot be opened, and stays as it is, or what is written of it does
\* not parse.  That is logged; the client gets the answer of a success.
SaveFails(c) ==
  /\ handler[c] \in {"open", "write"}
  /\ saved' = saved \cup {command[c].key}
  /\ lost' = IF handler[c] = "open" THEN lost \cup {command[c].key} ELSE saved'
  /\ Turn(c)
  /\ client' = Answered(c)
  /\ UNCHANGED <<conn, calls, inbox, habits, state, granted, overlap, left>>

-----------------------------------------------------------------------------
(* The stream of an answer. *)

Places(text) == 1..Len(text)

\* The words of a text at some of its places, in their order.
Pick(text, places) ==
  LET picked[n \in 0..Len(text)] ==
        IF n = 0 THEN <<>>
        ELSE IF n \in places THEN Append(picked[n - 1], text[n])
        ELSE picked[n - 1]
  IN  picked[Len(text)]

Without(text, tag) == Pick(text, {i \in Places(text) : text[i] # tag})

\* A word alone.
Whole(token) == Len(token) = 1 /\ token[1] \notin {"<ce", "l>"}

\* Faulty form: the tag is looked for in every token, the block is not kept.
InThisToken(before, token) == Contains(token, "<cel>")

\* in_cel_block once the opening tag was looked for.
InCel(before, token) == before \/ Contains(token, "<cel>")

\* in_think_block once both tags were looked for.
InThink(before, token) == (before \/ Contains(token, "<think>")) /\ ~Contains(token, "</think>")

\* What is left of a token that is sent.
Bare(token) == Without(Without(token, "<think>"), "</think>")

\* One token.
Relay(c, token) ==
  /\ handler[c] = "stream"
  /\ left > 0
  /\ left' = left - 1
  /\ LET a == answer[c]
         said == [a EXCEPT !.said = @ \o token, !.odd = @ \/ ~Whole(token)]
         text == Without(token, "<cel>")
         bare == Bare(text)
         think == InThink(a.think, text)
     IN  \/ /\ Contains(text, "</cel>")
            /\ answer' = [answer EXCEPT ![c] =
                 [said EXCEPT !.cel = FALSE, !.script = <<>>,
                              !.run = @ \o a.script \o Without(text, "</cel>")]]
         \/ /\ ~Contains(text, "</cel>")
            /\ InCel(a.cel, token)
            /\ answer' = [answer EXCEPT ![c] = [said EXCEPT !.cel = TRUE, !.script = @ \o text]]
         \/ /\ ~Contains(text, "</cel>")
            /\ ~InCel(a.cel, token)
            /\ answer' = [answer EXCEPT ![c] =
                 IF think THEN [said EXCEPT !.think = think, !.thinking = @ \o bare]
                 ELSE [said EXCEPT !.think = think, !.content = @ \o bare]]
            /\ bare # <<>> => client[c] # "gone"
  /\ UNCHANGED <<conn, client, calls, inbox, handler, command, copy, habits, file>>

\* [DONE].
Done(c) ==
  /\ handler[c] = "stream"
  /\ Turn(c)
  /\ client' = Answered(c)
  /\ UNCHANGED <<conn, calls, inbox, left, habits, file>>

\* A stream that ends without it: its task has crashed.
Crashed(c) ==
  /\ handler[c] = "stream"
  /\ Turn(c)
  /\ silent' = silent \cup {c}
  /\ UNCHANGED <<conn, client, calls, inbox, left, rushed, file>>

\* The write of a line fails when the client is gone.
WriteFails(c) ==
  /\ handler[c] = "stream"
  /\ client[c] = "gone"
  /\ left > 0
  /\ left' = left - 1
  /\ \E token \in Token :
       LET text == Without(token, "<cel>")
       IN  ~Contains(text, "</cel>") /\ ~InCel(answer[c].cel, token) /\ Bare(text) # <<>>
  /\ Turn(c)
  /\ UNCHANGED <<conn, client, calls, inbox, habits, file>>

-----------------------------------------------------------------------------
ClientStep(c) == Connect(c) \/ Refuse(c) \/ (\E m \in Commands : Send(c, m)) \/ Leave(c)

HandlerStep(c) ==
  \/ Read(c) \/ End(c) \/ Load(c) \/ Create(c) \/ Default(c) \/ CreateFails(c)
  \/ Open(c) \/ Write(c) \/ SaveFails(c)
  \/ (\E token \in Token : Relay(c, token)) \/ Done(c) \/ Crashed(c) \/ WriteFails(c)

Next == MakePipe \/ \E c \in Client : ClientStep(c) \/ HandlerStep(c)

Spec == Init /\ [][Next]_vars

-----------------------------------------------------------------------------
(* Properties. *)

\* The word at i is in a script: the last tag of one before it has opened it.
InScript(text, i) ==
  \E j \in 1..i : text[j] = "<cel>" /\ \A k \in j..i : text[k] # "</cel>"

\* It is a thought.  Tags in a script count as words of the script.
IsThought(text, i) ==
  \E j \in 1..i :
    /\ text[j] = "<think>"
    /\ ~InScript(text, j)
    /\ \A k \in j..i : text[k] = "</think>" => InScript(text, k)

Scripts(text) == {i \in Places(text) : InScript(text, i) /\ text[i] # "<cel>"}
Words(text) == {i \in Places(text) : ~InScript(text, i) /\ text[i] \notin Tag}
Thoughts(text) == {i \in Words(text) : IsThought(text, i)}

Count(text, symbol) == Cardinality({i \in Places(text) : text[i] = symbol})

\* No word of an answer is lost or sent twice: each is sent, or is part of a
\* script.  When the words come one by one, what is sent as text, as thoughts
\* and what is executed is exactly what is meant to be.
AnswersFaithful ==
  \A c \in Client :
    LET a == answer[c]
    IN  IF a.odd
        THEN \A symbol \in Symbol \ Tag :
               Count(a.said, symbol)
                 = Count(a.content, symbol) + Count(a.thinking, symbol)
                   + Count(a.script, symbol) + Count(a.run, symbol)
        ELSE /\ a.content = Pick(a.said, Words(a.said) \ Thoughts(a.said))
             /\ a.thinking = Pick(a.said, Thoughts(a.said))
             /\ a.run \o a.script = Pick(a.said, Scripts(a.said))

\* What the next load finds in the file when nobody is at it.
InFile == IF state = "whole" THEN granted ELSE {}

\* An update that was answered is in the file when nobody is at it, unless
\* somebody loaded the file while another one was saving it (overlap), its own
\* save has failed, or a write or read of the whole file has (lost): the client
\* is answered a success all the same, but a failure loses nothing else.
UpdatesKept ==
  ~overlap /\ (\A c \in Client : handler[c] \notin Saving) => saved \ lost \subseteq InFile

\* A handler does not wait for a client that waits for it: an application that
\* sends one command at a time gets an answer to each, but for one without a
\* payload and for a crash.  (The command line waits for ever.)
NobodyWaits ==
  \A c \in Client \ (Cli \cup rushed \cup silent) :
    ~(client[c] = "waiting" /\ handler[c] = "read" /\ inbox[c] = <<>>)

=============================================================================
