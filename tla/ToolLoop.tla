------------------------------ MODULE ToolLoop ------------------------------
(***************************************************************************)
(* One request of the router with its tools (engines/src/api/router.rs,    *)
(* generate_stream, the agentic loop).  What the model says goes through   *)
(* an interceptor that holds back whatever may become a trigger: the       *)
(* legacy <TRIGGER:name>{...}</TRIGGER>, or, when a skill with a           *)
(* cel_grammar was matched, the text that grammar begins with.  A complete *)
(* trigger stops the generation, the tool is executed (ProcessTool), and   *)
(* a second generation, past the interceptor, answers with its result.     *)
(*                                                                         *)
(* Text is a sequence of symbols: the pieces the interceptor looks for,    *)
(* and "text" or "wide", a character of several bytes, for everything      *)
(* else.  A token of the model is a short sequence of symbols.             *)
(***************************************************************************)
EXTENDS ProcessTool, Sequences, SequencesExt

CONSTANTS
  Token,      \* the tokens of the model
  MaxTokens,  \* bound: those of the first generation,
  MaxAnswer,  \* and those of the second
  Window,     \* 30: the second generation looks at more of its text than this,
  Keep,       \* 20: and forgets it but for so much
  MaxResult   \* max_ctx * 2: a longer result is truncated

Symbol == {"text", "wide", "<", "TRIGGER:", "use", "extension", "{", "}", ">", "</TRIGGER>", "line"}
Legacy == <<"<", "TRIGGER:">>
Dynamic == <<"use", "extension">>

ASSUME ToolAssumption ==
  /\ Token \subseteq {<<a>> : a \in Symbol} \cup {<<a, b>> : a, b \in Symbol}
  /\ MaxTokens \in Nat
  /\ MaxAnswer \in Nat
  /\ MaxResult \in Nat
  /\ Window \in Nat
  /\ Keep \in 1..Window

VARIABLES
  pc,
  matched,    \* a skill with a cel_grammar was matched
  listening,  \* the callback answers true
  left,       \* the tokens the generation may still have
  said,       \* what the model has said in it
  shown,      \* what the callback was given of it
  cache,      \* buffer_cache
  json,       \* json_buffer
  capture,
  tool,       \* tool_state: none, or the kind of trigger
  acc,        \* trig_acc
  masked      \* history: a legacy trigger ended in the token that began a dynamic one

stream == <<left, said, shown>>
interceptor == <<cache, json, capture, tool>>
vars == <<pc, matched, listening, stream, interceptor, acc, masked, process>>

ToolTypeOK ==
  /\ ProcessTypeOK
  /\ pc \in {"generate", "after", "tool", "resume", "continue", "done", "aborted"}
  /\ matched \in BOOLEAN
  /\ listening \in BOOLEAN
  /\ left \in 0..MaxTokens \cup 0..MaxAnswer
  /\ said \in Seq(Symbol)
  /\ shown \in Seq(Symbol)
  /\ cache \in Seq(Symbol)
  /\ json \in Seq(Symbol)
  /\ capture \in BOOLEAN
  /\ capture => json # <<>>
  /\ tool \in {"none", "legacy", "cel"}
  /\ acc \in Seq(Symbol)
  /\ Len(acc) <= Window
  /\ masked \in BOOLEAN

Init ==
  /\ ProcessInit
  /\ pc = "generate"
  /\ matched \in BOOLEAN
  /\ listening = TRUE
  /\ left = MaxTokens
  /\ said = <<>>
  /\ shown = <<>>
  /\ cache = <<>>
  /\ json = <<>>
  /\ capture = FALSE
  /\ tool = "none"
  /\ acc = <<>>
  /\ masked = FALSE

-----------------------------------------------------------------------------
\* What the interceptor finds in a text.

Places(trigger, text) == {i \in 1..Len(text) : IsPrefix(trigger, SubSeq(text, i, Len(text)))}
Occurs(trigger, text) == Places(trigger, text) # {}
First(trigger, text) == CHOOSE i \in Places(trigger, text) : \A j \in Places(trigger, text) : i <= j
Last2(trigger, text) == CHOOSE i \in Places(trigger, text) : \A j \in Places(trigger, text) : j <= i

\* Faulty form: only a buffer that is such a beginning altogether.
WholeBegins(trigger, text) == IsPrefix(text, trigger)

\* The text ends in what may become the trigger.
Begins(trigger, text) == text # <<>> /\ text[Len(text)] = trigger[1]

Has(text, symbol) == \E i \in 1..Len(text) : text[i] = symbol

\* There is a '>', which ends the closing tag too.
Angle(text) == Has(text, ">") \/ Has(text, "</TRIGGER>")

IsLegacy(text) == IsPrefix(Legacy, text)

\* A complete trigger, by what it begins with.
Complete(text) ==
  IF IsLegacy(text) THEN Has(text, "</TRIGGER>")
  ELSE IF Has(text, "{") THEN Has(text, "}")
  ELSE Angle(text) \/ Has(text, "line")

\* From the last trigger that begins in the text (rfind).
Actual(text) == SubSeq(text, Last2(Legacy, text), Len(text))

\* The first '>' is the one of the closing tag: the payload would begin behind
\* its end, a slice that panics.
Headless(text) ==
  LET actual == Actual(text)
      end == CHOOSE i \in 1..Len(actual) : actual[i] = "</TRIGGER>"
  IN  ~Has(SubSeq(actual, 1, end - 1), ">")

-----------------------------------------------------------------------------
\* The first generation: each token is an action.

\* The buffers after a token: a trigger that is complete stops the generation.
Captured(text) ==
  /\ capture' = TRUE
  /\ json' = text
  /\ \/ /\ ~Complete(text)
        /\ UNCHANGED <<pc, tool>>
     \/ /\ Complete(text)
        /\ IsLegacy(text)
        /\ Headless(text)
        /\ pc' = "aborted"
        /\ UNCHANGED tool
     \/ /\ Complete(text)
        /\ IsLegacy(text) => ~Headless(text)
        /\ pc' = "after"
        /\ tool' = IF IsLegacy(text) THEN "legacy" ELSE "cel"

Say(token) ==
  /\ pc = "generate"
  /\ left > 0
  /\ left' = left - 1
  /\ said' = said \o token

Collect(token) ==
  /\ Say(token)
  /\ capture
  /\ cache' = cache \o token
  /\ Captured(json \o token)
  /\ UNCHANGED <<matched, listening, shown, acc, masked, process>>

\* Whether a trigger is looked for in the text: the legacy one last, and not
\* when the text ends in the beginning of a dynamic one.
Sought(trigger, text) ==
  \/ trigger = Dynamic /\ matched
  \/ /\ trigger = Legacy
     /\ matched => ~Occurs(Dynamic, text) /\ ~Begins(Dynamic, text)

\* What precedes the trigger is shown, whatever the callback answers.
Start(trigger, token) ==
  /\ Say(token)
  /\ ~capture
  /\ LET text == cache \o token
         i == First(trigger, text)
     IN  /\ Sought(trigger, text)
         /\ Occurs(trigger, text)
         /\ shown' = shown \o SubSeq(text, 1, i - 1)
         /\ Captured(SubSeq(text, i, Len(text)))
  /\ cache' = <<>>
  /\ UNCHANGED <<matched, listening, acc, masked, process>>

\* Faulty form: the buffer is cleared with what was shown of it.
ClearBuffer(text) == <<>>

\* The beginning of a trigger stays in the buffer.
Beginning(text) == <<text[Len(text)]>>

Hold(trigger, token) ==
  /\ Say(token)
  /\ ~capture
  /\ LET text == cache \o token
     IN  /\ Sought(trigger, text)
         /\ ~Occurs(trigger, text)
         /\ Begins(trigger, text)
         /\ shown' = shown \o Front(text)
         /\ cache' = Beginning(text)
         /\ masked' = (masked \/ (trigger = Dynamic /\ Occurs(Legacy, text)))
  /\ UNCHANGED <<pc, matched, listening, json, capture, tool, acc, process>>

\* Plain text.  Here the answer of the callback stops the generation.
Pass(token) ==
  /\ Say(token)
  /\ ~capture
  /\ LET text == cache \o token
     IN  /\ \A trigger \in {Legacy, Dynamic} :
              Sought(trigger, text) => ~Occurs(trigger, text) /\ ~Begins(trigger, text)
         /\ matched => ~Begins(Dynamic, text)
         /\ shown' = shown \o text
  /\ cache' = <<>>
  /\ pc' = IF listening THEN pc ELSE "after"
  /\ UNCHANGED <<matched, listening, json, capture, tool, acc, masked, process>>

EndOfText ==
  /\ pc = "generate"
  /\ pc' = "after"
  /\ UNCHANGED <<matched, listening, stream, interceptor, acc, masked, process>>

-----------------------------------------------------------------------------
\* A legacy trigger without its closing tag is taken when it has a brace.
Fallback ==
  IF capture /\ IsLegacy(json) /\ Has(json, "}") /\ Angle(Actual(json)) THEN "legacy" ELSE tool

\* Without a trigger the request is done.  What the interceptor still holds is
\* not shown.
Finish ==
  /\ pc = "after"
  /\ Fallback = "none"
  /\ pc' = "done"
  /\ UNCHANGED <<matched, listening, stream, interceptor, acc, masked, process>>

\* The buffers of the first generation end with it.
TakeTrigger ==
  /\ pc = "after"
  /\ Fallback # "none"
  /\ tool' = Fallback
  /\ pc' = "tool"
  /\ left' = MaxAnswer
  /\ said' = <<>>
  /\ shown' = <<>>
  /\ cache' = <<>>
  /\ json' = <<>>
  /\ capture' = FALSE
  /\ UNCHANGED <<matched, listening, acc, masked, process>>

\* The macro that does not parse, the component that is not found or runs in
\* the engine, and the one that is a process.
CallTool ==
  /\ pc = "tool"
  /\ caller = "idle"
  /\ \/ /\ Spawn
        /\ UNCHANGED pc
     \/ /\ pc' = "resume"
        /\ UNCHANGED process
  /\ UNCHANGED <<matched, listening, stream, interceptor, acc, masked>>

ToolReturns ==
  /\ pc = "tool"
  /\ caller = "returned"
  /\ pc' = "resume"
  /\ UNCHANGED <<matched, listening, stream, interceptor, acc, masked, process>>

\* The trigger and the result are appended to the prompt.  A result that is
\* cut inside of a character panics.
Resume ==
  /\ pc = "resume"
  /\ \/ pc' = "continue"
     \/ /\ answer.ok
        /\ answer.size > MaxResult
        /\ pc' = "aborted"
  /\ UNCHANGED <<matched, listening, stream, interceptor, acc, masked, process>>

\* The end of the text that is looked at for a trigger.
Recent(text) == IF Len(text) > Window THEN SubSeq(text, Len(text) - Keep + 1, Len(text)) ELSE text

\* The second generation: what comes before a trigger is shown, the trigger
\* ends it.  The text is cut at a byte.
Continue(token) ==
  /\ pc = "continue"
  /\ left > 0
  /\ left' = left - 1
  /\ LET text == acc \o token
     IN  \/ /\ Occurs(Legacy, text)
            /\ pc' = "done"
            /\ UNCHANGED <<shown, acc>>
         \/ /\ ~Occurs(Legacy, text)
            /\ Len(text) > Window
            /\ Has(text, "wide")
            /\ pc' = "aborted"
            /\ UNCHANGED <<shown, acc>>
         \/ /\ ~Occurs(Legacy, text)
            /\ acc' = Recent(text)
            /\ shown' = shown \o token
            /\ pc' = IF listening THEN pc ELSE "done"
  /\ UNCHANGED <<matched, listening, said, interceptor, masked, process>>

ContinueEnds ==
  /\ pc = "continue"
  /\ pc' = "done"
  /\ UNCHANGED <<matched, listening, stream, interceptor, acc, masked, process>>

\* From now on the callback answers false.
HangUp ==
  /\ pc \in {"generate", "continue"}
  /\ listening
  /\ listening' = FALSE
  /\ UNCHANGED <<pc, matched, stream, interceptor, acc, masked, process>>

\* The process and its thread go on when the request has gone on without them.
Sandbox ==
  /\ CallerStep \/ ReaderStep \/ Timeout \/ ChildStep
  /\ UNCHANGED <<pc, matched, listening, stream, interceptor, acc, masked>>

Generate ==
  \/ \E token \in Token :
       \/ Collect(token) \/ Pass(token) \/ Continue(token)
       \/ \E trigger \in {Legacy, Dynamic} : Start(trigger, token) \/ Hold(trigger, token)
  \/ EndOfText \/ ContinueEnds

Router == Finish \/ TakeTrigger \/ CallTool \/ ToolReturns \/ Resume

Next == Generate \/ Router \/ HangUp \/ Sandbox

\* A generation comes to its end, the router goes on.
Spec ==
  /\ Init
  /\ [][Next]_vars
  /\ WF_vars(EndOfText)
  /\ WF_vars(ContinueEnds)
  /\ WF_vars(Router)
  /\ ProcessFairness

-----------------------------------------------------------------------------
\* Properties.

\* What the interceptor holds.
Held == IF capture THEN json ELSE cache

\* In the first generation no symbol is lost, shown twice or shown out of
\* order: what the model has said is what was shown and what is held.
Accounted == pc \in {"generate", "after"} => said = shown \o Held

\* However its pieces are spread over tokens, no legacy trigger is shown in
\* either generation and no dynamic one in the first; unless a legacy one ends
\* in the token in which a dynamic one begins (masked).  In the second, where
\* only <TRIGGER: is looked for, a dynamic one is shown like any text.
NeverShown ==
  ~masked => ~Occurs(Legacy, shown) /\ (matched /\ tool = "none" => ~Occurs(Dynamic, shown))

\* A complete legacy trigger is not missed, except behind an unfinished macro.
ClosedTrigger(text) ==
  \E i \in Places(Legacy, text) : \E j \in i+2..Len(text) : \E k \in j+1..Len(text) :
    text[j] = ">" /\ text[k] = "</TRIGGER>"

\* An unclosed one is taken at the end of the text, if it has a header and a
\* brace and no other begins behind it.
OpenTrigger(text) ==
  /\ Occurs(Legacy, text)
  /\ \E j \in Last2(Legacy, text)+2..Len(text) : \E k \in j+1..Len(text) :
       text[j] = ">" /\ text[k] = "}"

NeverMissed ==
  pc = "done" /\ tool = "none" /\ ~masked /\ ~(capture /\ ~IsLegacy(json))
    => ~ClosedTrigger(said) /\ ~OpenTrigger(said)

\* The interceptor shows no trigger and misses none, and the check of the
\* second generation shows no legacy one.
TriggersCaught == NeverShown /\ NeverMissed

\* The thread is held by somebody who has a pipe open: a descendant of the
\* tool, or the tool itself when the kill did not reach it.
HeldOpen == heirs \cap Stream # {} \/ (spared /\ child = "running")

\* A request comes to its end whatever the tool and its descendants do, if the
\* payload fits into a pipe.  (One that does not is written without a timeout:
\* a child that does not read holds the request.)  And so does the thread that
\* reads the output, unless somebody holds it.
EveryRequestEnds ==
  Payload <= Capacity =>
    <>[](pc \in {"done", "aborted"} /\ (reader \in {"none", "sent"} \/ HeldOpen))

=============================================================================
