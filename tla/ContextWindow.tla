---------------------------- MODULE ContextWindow ----------------------------
(***************************************************************************)
(* One llama engine (RuntimeB and NativeLlama, interface-engines/llama/    *)
(* src): the KV cache of its single sequence, the prompt tokens remembered *)
(* as already cached, the ingestion of a prompt in batches, and the        *)
(* generation loop that drafts, shifts the context and stops.              *)
(*                                                                         *)
(* Tokens of prompts are kept apart, generated ones are all Answer.  The   *)
(* llama.cpp side is modelled by what stream.rs and core.rs rely on: a     *)
(* decode stores its tokens at the given positions and fails when they do  *)
(* not fit in the n_ctx cells.  RuntimeB::prefill is not exported through  *)
(* the C interface (the hub prefills by a call with nothing to generate),  *)
(* and is left out.                                                        *)
(***************************************************************************)
EXTENDS Integers, Sequences, FiniteSets

CONSTANTS
  Token,      \* tokens of prompts
  Answer,     \* every generated token
  Draft,      \* every token guessed ahead and not accepted
  None,       \* no state file
  Prompts,    \* what generate_stream is called with, tokenized
  NCtx,       \* n_ctx, the cells of the KV cache
  NBatch,     \* n_batch, the largest batch of a decode
  Discards,   \* n_discard in each context_shifting_mode: 0 when it is off,
              \* else 5, 10, 25 or 50 percent of n_ctx, and 16 at least
  Margin,     \* cells left when the window is shifted, 32 in the code
  Reserve,    \* the most cells a call reserves for its answer, 256 in the code
  MaxTokens,  \* max_tokens of a call; the hub's prefill asks for 0
  MaxThink,   \* suppressed tokens of one call, 4096 in the code
  MaxDrafts,  \* drafted tokens per step: 4 in the code, 0 without lookahead
  Faults      \* whether decode and load can fail for other reasons than space

ASSUME ContextAssumption ==
  /\ Answer \notin Token
  /\ Draft \notin Token \cup {Answer}
  /\ Prompts \subseteq Seq(Token) \ {<<>>}
  /\ NCtx \in Nat \ {0}
  /\ NBatch \in Nat \ {0}
  /\ Discards \subseteq Nat
  /\ Margin \in Nat
  /\ Reserve \in Nat
  /\ MaxTokens \in Nat
  /\ MaxThink \in Nat \ {0}
  /\ MaxDrafts \in Nat
  /\ Faults \in BOOLEAN

VARIABLES
  discard,    \* n_discard of the mode the engine was instantiated with
  phase,      \* "idle", "ingest", "loop" or "decode"
  kv,         \* the KV cache: the token at every occupied position
  fresh,      \* the logits a sample reads are those of the last cached token
  prefilled,  \* last_prefilled_tokens
  file,       \* the state file of dump_kv_cache
  prompt,     \* the tokenized prompt of the current call
  budget,     \* its max_tokens
  pivot,      \* is_pivot: it continues the cached conversation
  todo,       \* its tokens still to be decoded
  nCur,       \* the next position to decode at
  promptLen,  \* original_prompt_len
  nGen,       \* tokens generated for the answer
  nThought    \* suppressed_count: tokens generated in a think block

callVars == <<discard, prompt, budget, pivot, promptLen>>
vars == <<discard, phase, kv, fresh, prefilled, file, prompt, budget, pivot,
          todo, nCur, promptLen, nGen, nThought>>

-----------------------------------------------------------------------------
Least(a, b) == IF a <= b THEN a ELSE b
Most(a, b) == IF a >= b THEN a ELSE b

Held == DOMAIN kv

EmptyCache == [q \in {} |-> Answer]

\* llama_memory_seq_pos_max + 1
NextPosition ==
  IF Held = {} THEN 0 ELSE (CHOOSE p \in Held : \A q \in Held : q <= p) + 1

\* llama_memory_seq_rm(mem, 0, p, -1)
RemoveFrom(p) == [q \in {h \in Held : h < p} |-> kv[q]]

\* The cache c after s has been decoded from position p on.
Store(c, p, s) ==
  [q \in DOMAIN c \cup p..(p + Len(s) - 1) |->
     IF q \in p..(p + Len(s) - 1) THEN s[q - p + 1] ELSE c[q]]

Fits(p, n) == p + n <= NCtx

\* gen_reserve is taken off the context of a call with b tokens to generate.
MaxPromptOf(b) == Most(NCtx - Least(b, Reserve), 1)

\* The newest tokens of p, as many as such a call takes.
Window(p, b) ==
  SubSeq(p, Len(p) - Least(Len(p), MaxPromptOf(b)) + 1, Len(p))

\* How many tokens s and t start with in common.
CommonPrefix(s, t) ==
  Cardinality({n \in 1..Least(Len(s), Len(t)) : \A i \in 1..n : s[i] = t[i]})

Contents == Token \cup {Answer, Draft}

IsCache(c) == DOMAIN c \subseteq 0..(NCtx - 1) /\ c \in [DOMAIN c -> Contents]

TypeOK ==
  /\ discard \in Discards
  /\ phase \in {"idle", "ingest", "loop", "decode"}
  /\ IsCache(kv)
  /\ fresh \in BOOLEAN
  /\ prefilled \in Seq(Token)
  /\ file # None => file.tokens \in Seq(Token) /\ IsCache(file.cache)
  /\ prompt \in Seq(Token)
  /\ budget \in 0..MaxTokens
  /\ pivot \in BOOLEAN
  /\ todo \in Seq(Token)
  /\ nCur \in 0..NCtx
  /\ promptLen \in Nat
  /\ nGen \in 0..(MaxTokens + MaxDrafts)
  /\ nThought \in 0..MaxThink

Init ==
  /\ discard \in Discards
  /\ phase = "idle"
  /\ prompt = <<>>
  /\ budget = 0
  /\ pivot = FALSE
  /\ todo = <<>>
  /\ nCur = 0
  /\ promptLen = 0
  /\ nGen = 0
  /\ nThought = 0
  /\ kv = EmptyCache
  /\ fresh = FALSE
  /\ prefilled = <<>>
  /\ file = None

-----------------------------------------------------------------------------
(* Between the calls: dump_kv_cache, load_kv_cache. *)

Idle ==
  /\ phase = "idle"
  /\ UNCHANGED <<phase, callVars, todo, nCur, nGen, nThought>>

\* llama_state_seq_save_file with the remembered tokens, which may be none.
Dump ==
  /\ Idle
  /\ file' = [tokens |-> prefilled, cache |-> kv]
  /\ UNCHANGED <<kv, fresh, prefilled>>

\* A state file of one sequence carries no logits.
Load ==
  /\ Idle
  /\ file # None
  /\ kv' = file.cache
  /\ fresh' = FALSE
  /\ prefilled' = file.tokens
  /\ UNCHANGED file

\* llama.cpp drops the sequence when it cannot read its state.
LoadFails ==
  /\ Idle
  /\ Faults
  /\ kv' = EmptyCache
  /\ fresh' = FALSE
  /\ UNCHANGED <<prefilled, file>>

-----------------------------------------------------------------------------
(* generate_stream: the prompt. *)

\* The call (p, b) begins: rest is still to be decoded, from position n on.
Begin(p, b, isPivot, n, rest) ==
  /\ phase = "idle"
  /\ phase' = "ingest"
  /\ prompt' = p
  /\ budget' = b
  /\ pivot' = isPivot
  /\ nCur' = n
  /\ todo' = rest
  /\ promptLen' = n + Len(rest)
  /\ nGen' = 0
  /\ nThought' = 0
  /\ fresh' = (fresh /\ kv' = kv)
  /\ UNCHANGED <<discard, prefilled, file>>

\* A prompt is decoded from where it leaves the remembered tokens; when none
\* are remembered the cache is cleared.
Extend(p, b) ==
  /\ Len(p) <= MaxPromptOf(b)
  /\ LET n == CommonPrefix(prefilled, p) IN
       /\ kv' = RemoveFrom(n)
       /\ Begin(p, b, FALSE, n, SubSeq(p, n + 1, Len(p)))

\* A [PIVOT_CONTINUE] prompt is decoded behind whatever the cache holds.
Continue(p, b) ==
  /\ Len(p) <= MaxPromptOf(b)
  /\ UNCHANGED kv
  /\ Begin(p, b, TRUE, NextPosition, p)

\* Faulty form: the newest tokens are lost.
RestartOldest(p, b) ==
  /\ Len(p) > MaxPromptOf(b)
  /\ kv' = EmptyCache
  /\ Begin(p, b, FALSE, 0, SubSeq(p, 1, MaxPromptOf(b)))

\* A prompt that is too long, pivot or not, loses its oldest tokens and is
\* decoded into an empty cache.
Restart(p, b) ==
  /\ Len(p) > MaxPromptOf(b)
  /\ kv' = EmptyCache
  /\ Begin(p, b, FALSE, 0, Window(p, b))

\* The prompt cannot be tokenized: the cache has been cut down already.
Rejected ==
  /\ Idle
  /\ Faults
  /\ kv' = RemoveFrom(Len(prefilled))
  /\ fresh' = (fresh /\ kv' = kv)
  /\ prefilled' = <<>>
  /\ UNCHANGED file

\* The call returns, with an answer or an error: the remembered tokens are
\* forgotten, the cache stays, the locals are gone.
Return ==
  /\ phase' = "idle"
  /\ prompt' = <<>>
  /\ budget' = 0
  /\ pivot' = FALSE
  /\ todo' = <<>>
  /\ nCur' = 0
  /\ promptLen' = 0
  /\ nGen' = 0
  /\ nThought' = 0
  /\ prefilled' = <<>>
  /\ UNCHANGED <<discard, file>>

IngestBatch ==
  /\ phase = "ingest"
  /\ todo # <<>>
  /\ LET n == Least(NBatch, Len(todo)) IN
       /\ Fits(nCur, n)
       /\ kv' = Store(kv, nCur, SubSeq(todo, 1, n))
       /\ nCur' = nCur + n
       /\ todo' = SubSeq(todo, n + 1, Len(todo))
       /\ fresh' = (n = Len(todo))
  /\ UNCHANGED <<phase, prefilled, file, callVars, nGen, nThought>>

IngestFails ==
  /\ phase = "ingest"
  /\ todo # <<>>
  /\ Faults \/ ~Fits(nCur, Least(NBatch, Len(todo)))
  /\ Return
  /\ kv' = kv
  /\ fresh' = FALSE

\* The first token is sampled; the caller may refuse the opening think tag.
Sample ==
  /\ phase = "ingest"
  /\ todo = <<>>
  /\ \/ /\ phase' = "loop"
        /\ UNCHANGED <<prefilled, file, callVars, todo, nCur, nGen, nThought>>
     \/ Return
  /\ UNCHANGED <<kv, fresh>>

-----------------------------------------------------------------------------
(* generate_stream: the loop. *)

\* Faulty form: one cell of the head is given up.
KeepLess == Most(Least(promptLen, NCtx \div 2), 1) - 1

\* n_keep: the head of the prompt that a shift leaves in place.
Keep == Most(Least(promptLen, NCtx \div 2), 1)

Shifting == discard # 0

CanSlide == Keep + discard < nCur

\* The cache without the discard cells after the head, the rest moved down.
Slid ==
  LET head == {h \in Held : h < Keep}
      tail == {h \in Held : Keep + discard <= h /\ h < nCur}
  IN [q \in head \cup {h - discard : h \in tail} |->
        IF q \in head THEN kv[q] ELSE kv[q + discard]]

\* shift_context: the cache after it, and the next position.
ShiftedCache(due) == IF Shifting /\ due /\ CanSlide THEN Slid ELSE kv

ShiftedPosition(due) == IF Shifting /\ due /\ CanSlide THEN nCur - discard ELSE nCur

\* Faulty form: the window is shifted when the cache is already full.
DueLate == nCur > NCtx - Margin + 1

Due == nCur >= NCtx - Margin

\* A token is shown: the window is shifted if need be, then it is decoded.
Show ==
  /\ phase = "loop"
  /\ nGen < budget
  /\ phase' = "decode"
  /\ kv' = ShiftedCache(Due)
  /\ nCur' = ShiftedPosition(Due)
  /\ UNCHANGED <<fresh, prefilled, file, callVars, todo, nGen, nThought>>

\* The token ends the answer, or the caller refuses it.
ShowLast ==
  /\ phase = "loop"
  /\ nGen < budget
  /\ kv' = ShiftedCache(Due)
  /\ Return
  /\ UNCHANGED fresh

\* The budget is used up, or the call is cancelled.
Leave ==
  /\ phase = "loop"
  /\ Return
  /\ UNCHANGED <<kv, fresh>>

\* How many tokens may be drafted at the next position n.
Drafts(n) == 0..Least(MaxDrafts, Most(NCtx - n - 2, 0))

AnswerOf(n) == [i \in 1..n |-> Answer]

\* Faulty form: the tokens of a think block are not counted.
ThoughtsFree(t) == nThought

\* suppressed_count after t more tokens of a think block.
Thoughts(t) == nThought + t

\* Faulty form: the rejected drafts stay.
AcceptKeeping(c, n, d, m) == kv' = Store(c, n, AnswerOf(1 + m) \o [i \in 1..(d - m) |-> Draft])

\* Of d drafts m are accepted: the cache is cut behind them.
Accept(c, n, d, m) == kv' = Store(c, n, AnswerOf(1 + m))

\* A token and d drafts have been decoded at n, onto cache c: m drafts agree
\* with the samples, and of the tokens gained t belong to a think block.  The
\* call goes on, or ends in the drafts or at the limit of the think block.
Verify(c, n, d) ==
  /\ \E m \in 0..d : \E t \in 0..(m + 1) :
       /\ Thoughts(t) < MaxThink \/ (Thoughts(t) = MaxThink /\ m > 0)
       /\ Accept(c, n, d, m)
       /\ \/ /\ Thoughts(t) < MaxThink
             /\ phase' = "loop"
             /\ nCur' = n + 1 + m
             /\ nGen' = nGen + m + 1 - t
             /\ nThought' = Thoughts(t)
             /\ UNCHANGED <<prefilled, file, callVars, todo>>
          \/ d > 0 /\ Return
  /\ fresh' = TRUE

\* The first of them reaches the limit of the think block: the loop is left
\* at once, with the drafts still in the cache.
Overthought(c, n, d) ==
  /\ Thoughts(1) = MaxThink
  /\ kv' = Store(c, n, AnswerOf(1) \o [i \in 1..d |-> Draft])
  /\ Return
  /\ fresh' = (d = 0)

Decoded(c, n, d) == Verify(c, n, d) \/ Overthought(c, n, d)

Decode ==
  /\ phase = "decode"
  /\ \E d \in Drafts(nCur) : Fits(nCur, 1 + d) /\ Decoded(kv, nCur, d)

\* The decode fails: the window is shifted at once and the batch tried again.
DecodeFails ==
  /\ phase = "decode"
  /\ \E d \in Drafts(nCur) :
       /\ Faults \/ ~Fits(nCur, 1 + d)
       /\ LET c == ShiftedCache(TRUE)
              n == ShiftedPosition(TRUE)
          IN \/ /\ Shifting
                /\ Fits(n, 1 + d)
                /\ Decoded(c, n, d)
             \/ /\ ~Shifting \/ Faults \/ ~Fits(n, 1 + d)
                /\ kv' = c
                /\ fresh' = FALSE
                /\ Return

-----------------------------------------------------------------------------
Call ==
  \E p \in Prompts, b \in {0, MaxTokens} : Extend(p, b) \/ Continue(p, b) \/ Restart(p, b)

Step == IngestBatch \/ IngestFails \/ Sample \/ Show \/ ShowLast \/ Leave \/ Decode \/ DecodeFails

Next ==
  \/ Dump \/ Load \/ LoadFails
  \/ Call \/ Rejected
  \/ Step

SafeSpec == Init /\ [][Next]_vars

\* A call is one function that runs to its end on its own thread; whether it
\* is cancelled or its answer ends is not up to it.
Spec == SafeSpec /\ WF_vars(Step)

-----------------------------------------------------------------------------
(* Properties *)

\* The cache has no gap, and a call that generates goes on right behind it:
\* what attention sees is one sequence (stream.rs, n_cur and seq_rm).
Contiguous ==
  /\ Held = 0..(NextPosition - 1)
  /\ phase \in {"ingest", "loop", "decode"} => nCur = NextPosition

\* When the first token is sampled, the cache ends with the prompt, or with
\* its newest part if it is too long, and unless the call continues the cached
\* conversation it holds nothing else (prefix matching and trimming).
PromptIngested ==
  phase = "ingest" /\ todo = <<>> =>
    LET w == Window(prompt, budget) IN
      /\ \A i \in 1..Len(w) : kv[nCur - Len(w) + i - 1] = w[i]
      /\ ~pivot => nCur = Len(w)

\* However often the window slides, the head of the prompt stays where it
\* was (n_keep in shift_context).
PromptHeadKept ==
  phase \in {"loop", "decode"} /\ ~pivot =>
    \A q \in 0..(Least(promptLen, NCtx \div 2) - 1) : kv[q] = Window(prompt, budget)[q + 1]

\* A window that can slide at all, that is, whose kept head and discard leave
\* something of the context, has slid before it is full: every sampled token
\* finds a free cell (shift_context, and the margin it is called with).  Modes
\* 1 to 3 always can; mode 4 cannot when the prompt fills half of the context.
ShiftedInTime ==
  phase = "decode" /\ Shifting /\ Keep + discard < NCtx => Fits(nCur, 1)

\* What docs/engine/booster.md says of every mode but "Off": the cache is
\* intercepted "just before overflow" and its oldest part dropped, so that no
\* token of a generation finds it full.
SlidesBeforeOverflow == phase = "decode" /\ Shifting => Fits(nCur, 1)

\* Every call of generate_stream returns.
GenerationEnds == phase # "idle" ~> phase = "idle"
=============================================================================
