---------------------------- MODULE ContextProofs ----------------------------
(***************************************************************************)
(* What ContextWindow keeps for every choice of prompts, sizes, modes and   *)
(* limits.  The cache never has a gap and the next position of a call is    *)
(* its end (Gapless), and no tokens are remembered between the calls; from  *)
(* this follow the types, that a shift comes in time whenever there is      *)
(* something to discard, and where the prompt is in the cache.              *)
(***************************************************************************)
EXTENDS ContextWindow, SequenceTheorems, FiniteSetTheorems, TLAPS

\* The cache c holds the positions up to n.
Sound(c, n) ==
  /\ n \in 0..NCtx
  /\ DOMAIN c = 0..(n - 1)
  /\ c \in [0..(n - 1) -> Contents]

NothingRemembered == prefilled = <<>>

FileSound ==
  file # None => file.tokens = <<>> /\ \E n \in 0..NCtx : Sound(file.cache, n)

Gapless == \E n \in 0..NCtx : Sound(kv, n) /\ (phase # "idle" => nCur = n)

\* A call generates no more than it may.
WithinBudget ==
  /\ phase = "ingest" => nGen = 0 /\ nThought = 0
  /\ phase = "decode" => nGen < budget

IInv ==
  /\ TypeOK
  /\ NothingRemembered
  /\ FileSound
  /\ Gapless
  /\ WithinBudget

-----------------------------------------------------------------------------
\* Least and Most of integers.
LEMMA LeastMost ==
  ASSUME NEW x \in Int, NEW y \in Int
  PROVE  /\ Least(x, y) \in {x, y} /\ Least(x, y) <= x /\ Least(x, y) <= y
         /\ Most(x, y) \in {x, y} /\ Most(x, y) >= x /\ Most(x, y) >= y
BY DEF Least, Most

\* A sound cache is a cache.
LEMMA SoundIsCache ==
  ASSUME NEW c, NEW n, Sound(c, n)
  PROVE  IsCache(c)
BY ContextAssumption DEF Sound, IsCache

\* The next position of a cache without a gap is its size.
LEMMA NextOfSound ==
  ASSUME NEW n, Sound(kv, n)
  PROVE  NextPosition = n
<1>1. CASE n = 0
  BY <1>1 DEF Sound, NextPosition, Held
<1>2. CASE n # 0
  <2>1. n \in Nat /\ Held = 0..(n - 1) /\ 0 \in Held
    BY <1>2, ContextAssumption DEF Sound, Held
  <2>2. n - 1 \in Held /\ \A q \in Held : q <= n - 1
    BY <1>2, <2>1
  <2>3. \A p \in Held : (\A q \in Held : q <= p) => p = n - 1
    BY <2>1, <2>2
  <2> DEFINE last == CHOOSE p \in Held : \A q \in Held : q <= p
  <2>4. last = n - 1
    BY <2>2, <2>3
  <2>5. NextPosition = last + 1
    BY <2>1 DEF NextPosition
  <2> HIDE DEF last
  <2>6. QED
    BY <2>1, <2>4, <2>5
<1>3. QED
  BY <1>1, <1>2

\* Decoding right behind a sound cache gives a sound cache.
LEMMA StoreSound ==
  ASSUME NEW c, NEW n, Sound(c, n), NEW s \in Seq(Contents), Fits(n, Len(s))
  PROVE  /\ Sound(Store(c, n, s), n + Len(s))
         /\ \A q \in 0..(n - 1) : Store(c, n, s)[q] = c[q]
         /\ \A i \in 1..Len(s) : Store(c, n, s)[n + i - 1] = s[i]
<1> DEFINE k == Len(s)
           D == 0..(n - 1) \cup n..(n + k - 1)
<1>1. n \in Nat /\ k \in Nat /\ n + k \in 0..NCtx
  BY ContextAssumption DEF Sound, Fits
<1>2. D = 0..(n + k - 1)
  BY <1>1
<1>3. Store(c, n, s) = [q \in D |-> IF q \in n..(n + k - 1) THEN s[q - n + 1] ELSE c[q]]
  BY DEF Store, Sound
<1>4. \A q \in n..(n + k - 1) : q - n + 1 \in 1..k
  BY <1>1
<1>5. \A q \in D \ n..(n + k - 1) : c[q] \in Contents
  BY <1>1 DEF Sound
<1>6. \A i \in 1..k : s[i] \in Contents
  OBVIOUS
<1>7. Store(c, n, s) \in [0..(n + k - 1) -> Contents]
  BY <1>2, <1>3, <1>4, <1>5, <1>6
<1>8. \A q \in 0..(n - 1) : Store(c, n, s)[q] = c[q]
  BY <1>1, <1>2, <1>3
<1>10. ASSUME NEW i \in 1..k
       PROVE  Store(c, n, s)[n + i - 1] = s[i]
  <2> DEFINE q == n + i - 1
  <2>1. q \in n..(n + k - 1) /\ q - n + 1 = i
    BY <1>1
  <2>2. q \in D
    BY <2>1
  <2> HIDE DEF q, D
  <2>3. Store(c, n, s)[q] = s[q - n + 1]
    BY <1>3, <2>1, <2>2
  <2>4. QED
    BY <2>1, <2>3 DEF q
<1>11. QED
  BY <1>1, <1>7, <1>8, <1>10 DEF Sound

\* A shift of a sound cache gives a sound cache with the same head.
LEMMA SlidSound ==
  ASSUME Sound(kv, nCur), promptLen \in Nat, discard \in Discards, CanSlide
  PROVE  /\ Sound(Slid, nCur - discard)
         /\ Keep < nCur - discard
         /\ \A q \in 0..(Keep - 1) : Slid[q] = kv[q]
<1> DEFINE head == {h \in Held : h < Keep}
           tail == {h \in Held : Keep + discard <= h /\ h < nCur}
           D == head \cup {h - discard : h \in tail}
<1>1. /\ nCur \in 0..NCtx /\ Held = 0..(nCur - 1)
      /\ NCtx \in Nat /\ discard \in Nat /\ NCtx \div 2 \in Int
  BY ContextAssumption DEF Sound, Held
<1>2. Keep \in Nat
  BY <1>1 DEF Keep, Least, Most
<1>3. Keep + discard < nCur
  BY DEF CanSlide
<1>4. head = 0..(Keep - 1)
  BY <1>1, <1>2, <1>3
<1>5. {h - discard : h \in tail} = Keep..(nCur - discard - 1)
  <2>1. ASSUME NEW x \in {h - discard : h \in tail}
        PROVE  x \in Keep..(nCur - discard - 1)
    BY <1>1, <1>2, <1>3
  <2>2. ASSUME NEW x \in Keep..(nCur - discard - 1)
        PROVE  x \in {h - discard : h \in tail}
    <3>1. x + discard \in tail /\ x = (x + discard) - discard
      BY <1>1, <1>2, <1>3
    <3>2. QED
      BY <3>1
  <2>3. QED
    BY <2>1, <2>2
<1>6. D = 0..(nCur - discard - 1)
  <2>1. D = 0..(Keep - 1) \cup Keep..(nCur - discard - 1)
    BY <1>4, <1>5
  <2>2. Keep <= nCur - discard /\ nCur - discard \in Int
    BY <1>1, <1>2, <1>3
  <2> HIDE DEF D
  <2>3. QED
    BY <1>2, <2>1, <2>2
<1>7. Slid = [q \in D |-> IF q \in head THEN kv[q] ELSE kv[q + discard]]
  BY DEF Slid
<1>8. ASSUME NEW q \in 0..(nCur - discard - 1)
      PROVE  q \in 0..(Keep - 1) \/ q + discard \in 0..(nCur - 1)
  BY <1>1, <1>2, <1>3
<1>9. \A h \in 0..(nCur - 1) : kv[h] \in Contents
  BY <1>1 DEF Sound
<1>10. Slid \in [0..(nCur - discard - 1) -> Contents]
  BY <1>1, <1>4, <1>6, <1>7, <1>8, <1>9
<1>11. nCur - discard \in 0..NCtx /\ Keep < nCur - discard
  BY <1>1, <1>2, <1>3
<1>12. \A q \in 0..(Keep - 1) : Slid[q] = kv[q]
  BY <1>4, <1>7
<1>13. QED
  BY <1>10, <1>11, <1>12 DEF Sound
-----------------------------------------------------------------------------
(* The sequences of the actions. *)

\* A part of a sequence has the type of the whole.
LEMMA PartTyped ==
  ASSUME NEW S, NEW s \in Seq(S), NEW m \in 1..(Len(s) + 1), NEW n \in 0..Len(s)
  PROVE  /\ SubSeq(s, m, n) \in Seq(S)
         /\ Len(SubSeq(s, m, n)) = IF m <= n THEN n - m + 1 ELSE 0
         /\ \A i \in 1..(n - m + 1) : SubSeq(s, m, n)[i] = s[m + i - 1]
<1>1. m \in Int /\ n \in Int /\ Len(s) \in Nat
  OBVIOUS
<1>2. \A i \in m..n : i \in 1..Len(s)
  OBVIOUS
<1>3. \A i \in m..n : s[i] \in S
  BY <1>2, ElementOfSeq
<1>4. QED
  BY <1>1, <1>3, SubSeqProperties

\* A sequence of prompt tokens is one of cache contents.
LEMMA TokensAreContents ==
  ASSUME NEW s \in Seq(Token)
  PROVE  s \in Seq(Contents)
BY SeqMonotonic DEF Contents

\* The sequences that a verified batch leaves in the cache.
LEMMA AnswerTyped ==
  ASSUME NEW n \in Nat, NEW d \in Nat
  PROVE  /\ AnswerOf(n) \in Seq(Contents)
         /\ Len(AnswerOf(n)) = n
         /\ AnswerOf(n) \o [i \in 1..d |-> Draft] \in Seq(Contents)
         /\ Len(AnswerOf(n) \o [i \in 1..d |-> Draft]) = n + d
<1>1. AnswerOf(n) \in Seq(Contents) /\ Len(AnswerOf(n)) = n
  BY DEF AnswerOf, Contents
<1>2. [i \in 1..d |-> Draft] \in Seq(Contents) /\ Len([i \in 1..d |-> Draft]) = d
  BY DEF Contents
<1>3. QED
  BY <1>1, <1>2, ConcatProperties

\* The window of a prompt is its newest part; a prompt that fits is all of it.
LEMMA WindowTyped ==
  ASSUME NEW p \in Seq(Token), NEW b \in Nat
  PROVE  /\ MaxPromptOf(b) \in Nat
         /\ Window(p, b) \in Seq(Token)
         /\ Len(Window(p, b)) = Least(Len(p), MaxPromptOf(b))
         /\ Len(p) <= MaxPromptOf(b) => Window(p, b) = p
<1> DEFINE M == MaxPromptOf(b)
           l == Least(Len(p), M)
<1>1. M \in Nat /\ Len(p) \in Nat
  BY ContextAssumption DEF MaxPromptOf, Most, Least
<1>2. l \in 0..Len(p) /\ (Len(p) <= M => l = Len(p))
  BY <1>1 DEF Least
<1>3. Window(p, b) = SubSeq(p, Len(p) - l + 1, Len(p))
  BY DEF Window
<1> HIDE DEF M, l
<1>4. Len(p) - l + 1 \in 1..(Len(p) + 1)
  BY <1>1, <1>2
<1>5. Window(p, b) \in Seq(Token) /\ Len(Window(p, b)) = l
  BY <1>1, <1>2, <1>3, <1>4, PartTyped
<1>6. ASSUME Len(p) <= M
      PROVE  Window(p, b) = SubSeq(p, 1, Len(p))
  <2>1. Len(p) - l + 1 = 1
    BY <1>1, <1>2, <1>6
  <2>2. QED
    BY <1>3, <2>1
<1>7. QED
  BY <1>1, <1>5, <1>6, SubSeqFull DEF M, l
-----------------------------------------------------------------------------
(* How the actions keep the invariant: between the calls, when a call begins *)
(* and returns, and while it runs.                                           *)

LEMMA IdleKeeps ==
  ASSUME IInv, Idle, prefilled' = <<>>, fresh' \in BOOLEAN,
         NEW n \in 0..NCtx, Sound(kv', n), FileSound'
  PROVE  IInv'
<1>1. IsCache(kv')
  BY SoundIsCache
<1>2. file' # None => file'.tokens \in Seq(Token) /\ IsCache(file'.cache)
  BY SoundIsCache, EmptySeq DEF FileSound
<1>3. prefilled' \in Seq(Token)
  BY EmptySeq
<1>4. TypeOK'
  BY <1>1, <1>2, <1>3 DEF IInv, TypeOK, Idle, callVars, IsCache
<1>5. Gapless' /\ WithinBudget'
  BY DEF IInv, Idle, callVars, Gapless, WithinBudget
<1>6. QED
  BY <1>4, <1>5 DEF IInv, NothingRemembered

LEMMA ReturnKeeps ==
  ASSUME IInv, Return, fresh' \in BOOLEAN, NEW n \in 0..NCtx, Sound(kv', n)
  PROVE  IInv'
<1>1. IsCache(kv')
  BY SoundIsCache
<1>2. TypeOK'
  <2>1. /\ <<>> \in Seq(Token)
        /\ 0 \in 0..MaxTokens /\ 0 \in 0..NCtx
        /\ 0 \in 0..(MaxTokens + MaxDrafts) /\ 0 \in 0..MaxThink
    BY EmptySeq, ContextAssumption
  <2>2. QED
    BY <1>1, <2>1 DEF IInv, TypeOK, Return
<1>3. Gapless' /\ WithinBudget' /\ FileSound' /\ NothingRemembered'
  BY DEF IInv, Return, Gapless, WithinBudget, FileSound, NothingRemembered
<1>4. QED
  BY <1>2, <1>3 DEF IInv

LEMMA BeginKeeps ==
  ASSUME IInv, NEW p \in Prompts, NEW b \in {0, MaxTokens}, NEW isPivot \in BOOLEAN,
         NEW n \in 0..NCtx, NEW rest \in Seq(Token),
         Begin(p, b, isPivot, n, rest), Sound(kv', n)
  PROVE  IInv'
<1>1. IsCache(kv')
  BY SoundIsCache
<1>2. p \in Seq(Token) /\ b \in 0..MaxTokens /\ n + Len(rest) \in Nat
  BY ContextAssumption
<1>3. TypeOK'
  <2>1. /\ 0 \in 0..(MaxTokens + MaxDrafts) /\ 0 \in 0..MaxThink
        /\ n + Len(rest) \in Nat
    BY <1>2, ContextAssumption
  <2>2. fresh' \in BOOLEAN
    BY DEF Begin
  <2>3. QED
    BY <1>1, <1>2, <2>1, <2>2 DEF IInv, TypeOK, Begin
<1>4. Gapless' /\ WithinBudget' /\ FileSound' /\ NothingRemembered'
  BY DEF IInv, Begin, Gapless, WithinBudget, FileSound, NothingRemembered
<1>5. QED
  BY <1>3, <1>4 DEF IInv

\* A batch decoded behind a sound cache, verified or broken off.
LEMMA DecodedKeeps ==
  ASSUME IInv, phase = "decode", NEW c, NEW n, Sound(c, n),
         NEW d \in 0..MaxDrafts, Fits(n, 1 + d), Decoded(c, n, d)
  PROVE  IInv'
<1>1. n \in Nat /\ d \in Nat /\ n + 1 + d <= NCtx /\ NCtx \in Nat
  BY ContextAssumption DEF Sound, Fits
<1>2. CASE Overthought(c, n, d)
  <2> DEFINE s == AnswerOf(1) \o [i \in 1..d |-> Draft]
  <2>1. s \in Seq(Contents) /\ Len(s) = 1 + d
    BY <1>1, AnswerTyped
  <2>2. kv' = Store(c, n, s) /\ Return /\ fresh' \in BOOLEAN
    BY <1>2 DEF Overthought
  <2> HIDE DEF s
  <2>3. Sound(kv', n + (1 + d))
    BY <2>1, <2>2, StoreSound
  <2>4. n + (1 + d) \in 0..NCtx
    BY <1>1
  <2>5. QED
    BY <2>2, <2>3, <2>4, ReturnKeeps
<1>3. CASE Verify(c, n, d)
  <2> DEFINE Outcome(m, t) ==
          /\ kv' = Store(c, n, AnswerOf(1 + m))
          /\ \/ /\ Thoughts(t) < MaxThink
                /\ phase' = "loop"
                /\ nCur' = n + 1 + m
                /\ nGen' = nGen + m + 1 - t
                /\ nThought' = Thoughts(t)
                /\ UNCHANGED <<prefilled, file, callVars, todo>>
             \/ Return
  <2>0. PICK m \in 0..d : \E t \in 0..(m + 1) : Outcome(m, t)
    BY <1>3 DEF Verify, Accept
  <2>1. PICK t \in 0..(m + 1) : Outcome(m, t)
    BY <2>0
  <2>2. m \in Nat /\ t \in Nat /\ t <= m + 1 /\ m <= d
    BY <1>1
  <2>3. AnswerOf(1 + m) \in Seq(Contents) /\ Len(AnswerOf(1 + m)) = 1 + m
    <3>1. 1 + m \in Nat /\ 0 \in Nat
      BY <2>2
    <3>2. QED
      BY <3>1, AnswerTyped
  <2>4. Fits(n, 1 + m) /\ n + (1 + m) \in 0..NCtx
    BY <1>1, <2>2 DEF Fits
  <2>5. Sound(kv', n + (1 + m))
    BY <2>1, <2>3, <2>4, StoreSound
  <2>6. fresh' \in BOOLEAN
    BY <1>3 DEF Verify
  <2>7. CASE Return
    BY <2>4, <2>5, <2>6, <2>7, ReturnKeeps
  <2>8. CASE /\ Thoughts(t) < MaxThink
             /\ phase' = "loop"
             /\ nCur' = n + 1 + m
             /\ nGen' = nGen + m + 1 - t
             /\ nThought' = Thoughts(t)
             /\ UNCHANGED <<prefilled, file, callVars, todo>>
    <3>1. nGen \in Nat /\ nGen < MaxTokens /\ nThought \in Nat /\ MaxThink \in Nat
      BY ContextAssumption DEF IInv, TypeOK, WithinBudget
    <3>2. nGen' \in 0..(MaxTokens + MaxDrafts)
      BY <2>2, <2>8, <3>1, ContextAssumption
    <3>3. nThought' \in 0..MaxThink
      BY <2>2, <2>8, <3>1 DEF Thoughts
    <3>4. nCur' = n + (1 + m) /\ nCur' \in 0..NCtx
      BY <1>1, <2>2, <2>4, <2>8
    <3>5. IsCache(kv')
      BY <2>5, SoundIsCache
    <3>6. TypeOK'
      BY <2>6, <2>8, <3>2, <3>3, <3>4, <3>5 DEF IInv, TypeOK, callVars, IsCache
    <3>7. Gapless'
      BY <2>4, <2>5, <3>4 DEF Gapless
    <3>8. WithinBudget' /\ FileSound' /\ NothingRemembered'
      BY <2>8 DEF IInv, WithinBudget, FileSound, NothingRemembered
    <3>9. QED
      BY <3>6, <3>7, <3>8 DEF IInv
  <2>9. QED
    BY <2>1, <2>7, <2>8
<1>4. QED
  BY <1>2, <1>3 DEF Decoded
-----------------------------------------------------------------------------
\* The cache cut down to nothing, and the one a shift leaves.
LEMMA EmptySound ==
  Sound(EmptyCache, 0)
BY ContextAssumption DEF Sound, EmptyCache

LEMMA CutSound ==
  ASSUME NEW n \in 0..NCtx, Sound(kv, n)
  PROVE  RemoveFrom(0) = EmptyCache
BY ContextAssumption DEF Sound, RemoveFrom, EmptyCache, Held

LEMMA ShiftSound ==
  ASSUME TypeOK, Sound(kv, nCur), NEW due \in BOOLEAN
  PROVE  Sound(ShiftedCache(due), ShiftedPosition(due))
<1>1. CASE Shifting /\ due /\ CanSlide
  <2>1. promptLen \in Nat /\ discard \in Discards
    BY DEF TypeOK
  <2>2. QED
    BY <1>1, <2>1, SlidSound DEF ShiftedCache, ShiftedPosition
<1>2. CASE ~(Shifting /\ due /\ CanSlide)
  BY <1>2 DEF ShiftedCache, ShiftedPosition
<1>3. QED
  BY <1>1, <1>2

LEMMA DueTyped ==
  Due \in BOOLEAN
BY DEF Due

LEMMA InitIInv ==
  Init => IInv
<1> SUFFICES ASSUME Init
             PROVE  IInv
  OBVIOUS
<1>1. Sound(kv, 0) /\ 0 \in 0..NCtx
  BY EmptySound, ContextAssumption DEF Init
<1>2. TypeOK
  <2>1. /\ <<>> \in Seq(Token)
        /\ 0 \in 0..MaxTokens /\ 0 \in 0..NCtx
        /\ 0 \in 0..(MaxTokens + MaxDrafts) /\ 0 \in 0..MaxThink
    BY EmptySeq, ContextAssumption
  <2>2. IsCache(kv)
    BY <1>1, SoundIsCache
  <2>3. QED
    BY <2>1, <2>2 DEF Init, TypeOK
<1>3. Gapless
  BY <1>1 DEF Init, Gapless
<1>4. QED
  BY <1>2, <1>3 DEF Init, IInv, NothingRemembered, FileSound, WithinBudget

\* No call before has left tokens to match a prompt with.
LEMMA NothingInCommon ==
  ASSUME NEW p \in Seq(Token)
  PROVE  CommonPrefix(<<>>, p) = 0
<1>1. Least(Len(<<>>), Len(p)) = 0
  BY EmptySeq DEF Least
<1>2. {n \in 1..0 : \A i \in 1..n : <<>>[i] = p[i]} = {}
  OBVIOUS
<1>3. QED
  BY <1>1, <1>2, FS_EmptySet DEF CommonPrefix

LEMMA CallKeeps ==
  ASSUME IInv, NEW p \in Prompts, NEW b \in {0, MaxTokens},
         Extend(p, b) \/ Continue(p, b) \/ Restart(p, b)
  PROVE  IInv'
<1>1. PICK n \in 0..NCtx : Sound(kv, n)
  BY DEF IInv, Gapless
<1>2. p \in Seq(Token) /\ b \in Nat /\ Len(p) \in Nat
  BY ContextAssumption
<1>3. Window(p, b) \in Seq(Token)
  BY <1>2, WindowTyped
<1>4. 0 \in 0..NCtx
  BY ContextAssumption
<1>5. CASE Extend(p, b)
  <2>1. /\ kv' = RemoveFrom(0)
        /\ Begin(p, b, FALSE, 0, SubSeq(p, 0 + 1, Len(p)))
    BY <1>2, <1>5, NothingInCommon DEF IInv, NothingRemembered, Extend
  <2>2. SubSeq(p, 0 + 1, Len(p)) \in Seq(Token)
    BY <1>2, SubSeqFull
  <2>3. Sound(kv', 0)
    BY <1>1, <2>1, CutSound, EmptySound
  <2>4. QED
    BY <1>4, <2>1, <2>2, <2>3, BeginKeeps
<1>6. CASE Continue(p, b)
  <2>1. NextPosition = n
    BY <1>1, NextOfSound
  <2>2. kv' = kv /\ Begin(p, b, TRUE, n, p)
    BY <1>6, <2>1 DEF Continue
  <2>3. QED
    BY <1>1, <1>2, <2>2, BeginKeeps
<1>7. CASE Restart(p, b)
  <2>1. kv' = EmptyCache /\ Begin(p, b, FALSE, 0, Window(p, b))
    BY <1>7 DEF Restart
  <2>2. QED
    BY <1>3, <1>4, <2>1, EmptySound, BeginKeeps
<1>8. QED
  BY <1>5, <1>6, <1>7

LEMMA BetweenCallsKeeps ==
  ASSUME IInv, Dump \/ Load \/ LoadFails \/ Rejected
  PROVE  IInv'
<1>1. PICK n \in 0..NCtx : Sound(kv, n)
  BY DEF IInv, Gapless
<1>2. prefilled = <<>> /\ FileSound /\ fresh \in BOOLEAN /\ 0 \in 0..NCtx
  BY ContextAssumption DEF IInv, NothingRemembered, TypeOK
<1>3. CASE Dump
  <2>1. /\ Idle /\ kv' = kv /\ fresh' \in BOOLEAN /\ prefilled' = <<>>
        /\ file'.tokens = <<>> /\ file'.cache = kv
    BY <1>2, <1>3 DEF Dump
  <2>2. FileSound'
    BY <1>1, <2>1 DEF FileSound
  <2>3. QED
    BY <1>1, <2>1, <2>2, IdleKeeps
<1>4. CASE Load
  <2>1. PICK m \in 0..NCtx : Sound(file.cache, m)
    BY <1>2, <1>4 DEF Load, FileSound
  <2>2. Idle /\ kv' = file.cache /\ fresh' \in BOOLEAN /\ prefilled' = <<>> /\ file' = file
    BY <1>2, <1>4 DEF Load, FileSound
  <2>3. FileSound'
    BY <1>2, <2>2 DEF FileSound
  <2>4. QED
    BY <2>1, <2>2, <2>3, IdleKeeps
<1>5. CASE LoadFails
  <2>1. Idle /\ kv' = EmptyCache /\ fresh' \in BOOLEAN /\ prefilled' = <<>> /\ file' = file
    BY <1>2, <1>5 DEF LoadFails
  <2>2. FileSound'
    BY <1>2, <2>1 DEF FileSound
  <2>3. QED
    BY <1>2, <2>1, <2>2, EmptySound, IdleKeeps
<1>6. CASE Rejected
  <2>1. Idle /\ kv' = RemoveFrom(0) /\ fresh' \in BOOLEAN /\ prefilled' = <<>> /\ file' = file
    BY <1>2, <1>6, EmptySeq DEF Rejected
  <2>2. FileSound'
    BY <1>2, <2>1 DEF FileSound
  <2>3. QED
    BY <1>1, <1>2, <2>1, <2>2, CutSound, EmptySound, IdleKeeps
<1>7. QED
  BY <1>3, <1>4, <1>5, <1>6
\* The part of the prompt that a batch takes.
LEMMA BatchTyped ==
  ASSUME TypeOK, todo # <<>>, NEW n, n = Least(NBatch, Len(todo))
  PROVE  /\ n \in 1..Len(todo)
         /\ SubSeq(todo, 1, n) \in Seq(Token)
         /\ Len(SubSeq(todo, 1, n)) = n
         /\ SubSeq(todo, n + 1, Len(todo)) \in Seq(Token)
<1>1. todo \in Seq(Token) /\ Len(todo) \in Nat \ {0}
  BY EmptySeq DEF TypeOK
<1>2. n \in 1..Len(todo)
  BY <1>1, ContextAssumption DEF Least
<1>3. /\ 1 \in 1..(Len(todo) + 1) /\ n \in 0..Len(todo)
      /\ n + 1 \in 1..(Len(todo) + 1) /\ Len(todo) \in 0..Len(todo)
      /\ 1 <= n /\ n - 1 + 1 = n
  BY <1>1, <1>2
<1>4. QED
  BY <1>1, <1>2, <1>3, PartTyped

LEMMA IngestKeeps ==
  ASSUME IInv, IngestBatch \/ IngestFails \/ Sample
  PROVE  IInv'
<1>1. PICK k \in 0..NCtx : Sound(kv, k) /\ (phase # "idle" => nCur = k)
  BY DEF IInv, Gapless
<1>2. TypeOK /\ phase = "ingest"
  BY DEF IInv, IngestBatch, IngestFails, Sample
<1>3. Sound(kv, nCur) /\ nCur \in 0..NCtx
  BY <1>1, <1>2
<1>4. CASE IngestBatch
  <2> DEFINE n == Least(NBatch, Len(todo))
             s == SubSeq(todo, 1, n)
  <2>1. /\ Fits(nCur, n) /\ kv' = Store(kv, nCur, s) /\ nCur' = nCur + n
        /\ todo' = SubSeq(todo, n + 1, Len(todo)) /\ fresh' \in BOOLEAN
        /\ UNCHANGED <<phase, prefilled, file, callVars, nGen, nThought>>
        /\ todo # <<>>
    BY <1>4 DEF IngestBatch
  <2>2. n \in 1..Len(todo) /\ s \in Seq(Token) /\ Len(s) = n /\ todo' \in Seq(Token)
    BY <1>2, <2>1, BatchTyped
  <2> HIDE DEF n, s
  <2>3. Sound(kv', nCur')
    BY <1>3, <2>1, <2>2, TokensAreContents, StoreSound
  <2>4. nCur' \in 0..NCtx /\ IsCache(kv')
    BY <2>3, SoundIsCache DEF Sound
  <2>5. TypeOK'
    BY <1>2, <2>1, <2>2, <2>4 DEF TypeOK, callVars
  <2>6. Gapless'
    BY <2>3, <2>4 DEF Gapless
  <2>7. WithinBudget' /\ FileSound' /\ NothingRemembered'
    BY <2>1 DEF IInv, WithinBudget, FileSound, NothingRemembered, callVars
  <2>8. QED
    BY <2>5, <2>6, <2>7 DEF IInv
<1>5. CASE IngestFails
  <2>1. Return /\ kv' = kv /\ fresh' \in BOOLEAN
    BY <1>5 DEF IngestFails
  <2>2. QED
    BY <1>3, <2>1, ReturnKeeps
<1>6. CASE Sample
  <2>1. CASE Return
    <3>1. kv' = kv /\ fresh' \in BOOLEAN
      BY <1>2, <1>6 DEF Sample, TypeOK
    <3>2. QED
      BY <1>3, <2>1, <3>1, ReturnKeeps
  <2>2. CASE /\ phase' = "loop"
             /\ UNCHANGED <<prefilled, file, callVars, todo, nCur, nGen, nThought>>
    <3>1. kv' = kv /\ fresh' = fresh
      BY <1>6 DEF Sample
    <3>2. TypeOK'
      BY <1>2, <2>2, <3>1 DEF TypeOK, callVars
    <3>3. Gapless'
      BY <1>3, <2>2, <3>1 DEF Gapless
    <3>4. WithinBudget' /\ FileSound' /\ NothingRemembered'
      BY <2>2 DEF IInv, WithinBudget, FileSound, NothingRemembered
    <3>5. QED
      BY <3>2, <3>3, <3>4 DEF IInv
  <2>3. QED
    BY <1>6, <2>1, <2>2 DEF Sample
<1>7. QED
  BY <1>4, <1>5, <1>6

LEMMA LoopKeeps ==
  ASSUME IInv, Show \/ ShowLast \/ Leave \/ Decode \/ DecodeFails
  PROVE  IInv'
<1>1. TypeOK /\ phase \in {"loop", "decode"} /\ fresh \in BOOLEAN
  BY DEF IInv, Show, ShowLast, Leave, Decode, DecodeFails, TypeOK
<1>2. Sound(kv, nCur) /\ nCur \in 0..NCtx
  BY <1>1 DEF IInv, Gapless
<1>3. \A due \in BOOLEAN :
        /\ Sound(ShiftedCache(due), ShiftedPosition(due))
        /\ ShiftedPosition(due) \in 0..NCtx
  BY <1>1, <1>2, ShiftSound DEF Sound
<1>4. CASE Show
  <2>1. Sound(kv', nCur') /\ nCur' \in 0..NCtx
    BY <1>3, <1>4, DueTyped DEF Show
  <2>2. IsCache(kv')
    BY <2>1, SoundIsCache
  <2>3. TypeOK'
    BY <1>1, <1>4, <2>1, <2>2 DEF Show, TypeOK, callVars
  <2>4. Gapless'
    BY <2>1 DEF Gapless
  <2>5. WithinBudget' /\ FileSound' /\ NothingRemembered'
    BY <1>4 DEF IInv, Show, callVars, WithinBudget, FileSound, NothingRemembered
  <2>6. QED
    BY <2>3, <2>4, <2>5 DEF IInv
<1>5. CASE ShowLast
  <2>1. Return /\ kv' = ShiftedCache(Due) /\ fresh' \in BOOLEAN
    BY <1>1, <1>5 DEF ShowLast
  <2>2. QED
    BY <1>3, <2>1, DueTyped, ReturnKeeps
<1>6. CASE Leave
  <2>1. Return /\ kv' = kv /\ fresh' \in BOOLEAN
    BY <1>1, <1>6 DEF Leave
  <2>2. QED
    BY <1>2, <2>1, ReturnKeeps
<1>7. \A n \in Int : Drafts(n) \subseteq 0..MaxDrafts
  BY ContextAssumption DEF Drafts, Least, Most
<1>8. CASE Decode
  <2>1. PICK d \in Drafts(nCur) : Fits(nCur, 1 + d) /\ Decoded(kv, nCur, d)
    BY <1>8 DEF Decode
  <2>2. d \in 0..MaxDrafts /\ phase = "decode"
    BY <1>2, <1>7, <1>8 DEF Decode
  <2>3. QED
    BY <1>2, <2>1, <2>2, DecodedKeeps
<1>9. CASE DecodeFails
  <2> DEFINE c == ShiftedCache(TRUE)
             n == ShiftedPosition(TRUE)
  <2>1. PICK d \in Drafts(nCur) :
          \/ Fits(n, 1 + d) /\ Decoded(c, n, d)
          \/ kv' = c /\ fresh' = FALSE /\ Return
    BY <1>9 DEF DecodeFails
  <2>2. d \in 0..MaxDrafts /\ phase = "decode"
    BY <1>2, <1>7, <1>9 DEF DecodeFails
  <2>3. Sound(c, n) /\ n \in 0..NCtx
    BY <1>3
  <2> HIDE DEF c, n
  <2>4. CASE Fits(n, 1 + d) /\ Decoded(c, n, d)
    BY <2>2, <2>3, <2>4, DecodedKeeps
  <2>5. CASE kv' = c /\ fresh' = FALSE /\ Return
    BY <2>3, <2>5, ReturnKeeps
  <2>6. QED
    BY <2>1, <2>4, <2>5
<1>10. QED
  BY <1>4, <1>5, <1>6, <1>8, <1>9

LEMMA NextIInv ==
  IInv /\ [Next]_vars => IInv'
<1> SUFFICES ASSUME IInv, [Next]_vars
             PROVE  IInv'
  OBVIOUS
<1>1. CASE UNCHANGED vars
  BY <1>1 DEF vars, IInv, TypeOK, NothingRemembered, FileSound, Gapless, WithinBudget
<1>2. CASE Dump \/ Load \/ LoadFails \/ Rejected
  BY <1>2, BetweenCallsKeeps
<1>3. CASE Call
  BY <1>3, CallKeeps DEF Call
<1>4. CASE Step
  BY <1>4, IngestKeeps, LoopKeeps DEF Step
<1>5. QED
  BY <1>1, <1>2, <1>3, <1>4 DEF Next

LEMMA IInvHolds == SafeSpec => []IInv
<1>1. Init => IInv
  BY InitIInv
<1>2. IInv /\ [Next]_vars => IInv'
  BY NextIInv
<1>3. QED
  BY <1>1, <1>2, PTL DEF SafeSpec

-----------------------------------------------------------------------------
\* The types of the state.
THEOREM TypeCorrect == SafeSpec => []TypeOK
<1>1. IInv => TypeOK
  BY DEF IInv
<1>2. QED
  BY <1>1, IInvHolds, PTL

\* The cache never has a gap, and a call always goes on right behind it: for
\* every prompt, every pivot and every failure.
THEOREM NoGaps == SafeSpec => []Contiguous
<1>1. IInv => Contiguous
  <2> SUFFICES ASSUME IInv
               PROVE  Contiguous
    OBVIOUS
  <2>1. PICK n \in 0..NCtx : Sound(kv, n) /\ (phase # "idle" => nCur = n)
    BY DEF IInv, Gapless
  <2>2. NextPosition = n /\ Held = 0..(n - 1)
    BY <2>1, NextOfSound DEF Sound, Held
  <2>3. QED
    BY <2>1, <2>2 DEF Contiguous
<1>2. QED
  BY <1>1, IInvHolds, PTL

\* A window whose head and discard leave something of the context has a cell
\* for every token, in every mode and however long the generation is.
THEOREM RoomForEveryToken == SafeSpec => []ShiftedInTime
<1>1. Init => ShiftedInTime
  BY DEF Init, ShiftedInTime
<1>2. IInv /\ ShiftedInTime /\ [Next]_vars => ShiftedInTime'
  <2> SUFFICES ASSUME IInv, ShiftedInTime, [Next]_vars,
                      phase' = "decode", Shifting', (Keep + discard < NCtx)'
               PROVE  nCur' + 1 <= NCtx
    BY DEF ShiftedInTime, Fits
  <2>1. CASE UNCHANGED vars
    BY <2>1 DEF ShiftedInTime, Fits, vars, Keep, Shifting
  <2>2. CASE Show
    <3>1. phase = "loop"
      BY <2>2 DEF Show
    <3>2. PICK n \in 0..NCtx : nCur = n
      BY <3>1 DEF IInv, Gapless
    <3>3. /\ nCur \in Int /\ NCtx \in Nat /\ Margin \in Nat
          /\ discard \in Nat \ {0} /\ promptLen \in Nat
      BY <2>2, <3>2, ContextAssumption DEF IInv, TypeOK, Show, callVars, Shifting
    <3>4. Shifting /\ Keep \in Int /\ Keep + discard < NCtx
      <4>1. Keep' = Keep /\ discard' = discard
        BY <2>2 DEF Show, callVars, Keep
      <4>2. Keep \in Int
        BY <3>3 DEF Keep, Least, Most
      <4>3. QED
        BY <4>1, <4>2 DEF Shifting
    <3>5. CASE CanSlide /\ Due
      BY <2>2, <3>2, <3>3, <3>4, <3>5 DEF Show, ShiftedPosition
    <3>6. CASE ~Due
      BY <2>2, <3>2, <3>3, <3>6 DEF Show, ShiftedPosition, Due
    <3>7. CASE ~CanSlide
      BY <2>2, <3>2, <3>3, <3>4, <3>7 DEF Show, ShiftedPosition, CanSlide
    <3>8. QED
      BY <3>5, <3>6, <3>7
  <2>3. CASE Next /\ ~Show
    <3>1. ASSUME NEW p, NEW b, Extend(p, b) \/ Continue(p, b) \/ Restart(p, b)
          PROVE  FALSE
      BY <3>1 DEF Extend, Continue, Restart, Begin
    <3>2. ASSUME Dump \/ Load \/ LoadFails \/ Rejected
          PROVE  FALSE
      BY <3>2 DEF Dump, Load, LoadFails, Rejected, Idle
    <3>3. ASSUME Step
          PROVE  FALSE
      BY <2>3, <3>3 DEF Step, IngestBatch, IngestFails, Sample, ShowLast, Leave,
         Decode, DecodeFails, Decoded, Verify, Overthought, Return
    <3>4. QED
      BY <2>3, <3>1, <3>2, <3>3 DEF Next, Call
  <2>4. QED
    BY <2>1, <2>2, <2>3
<1>3. QED
  BY <1>1, <1>2, IInvHolds, PTL DEF SafeSpec
-----------------------------------------------------------------------------
(* The prompt in the cache: PromptPart while it is decoded, HeadPart while    *)
(* the call generates.                                                        *)

PromptPart ==
  phase = "ingest" =>
    LET w == Window(prompt, budget)
        start == promptLen - Len(w)
    IN /\ start \in Nat
       /\ start <= nCur
       /\ nCur <= promptLen
       /\ todo = SubSeq(w, nCur - start + 1, Len(w))
       /\ \A i \in 1..(nCur - start) : kv[start + i - 1] = w[i]
       /\ ~pivot => start = 0

PromptHead == Least(promptLen, NCtx \div 2)

HeadPart ==
  phase \in {"loop", "decode"} =>
    /\ PromptHead <= nCur
    /\ ~pivot => \A q \in 0..(PromptHead - 1) : kv[q] = Window(prompt, budget)[q + 1]

HInv == PromptPart /\ HeadPart

LEMMA WindowOfCall ==
  ASSUME TypeOK
  PROVE  Window(prompt, budget) \in Seq(Token) /\ Len(Window(prompt, budget)) \in Nat
<1>1. prompt \in Seq(Token) /\ budget \in Nat
  BY ContextAssumption DEF TypeOK
<1>2. Window(prompt, budget) \in Seq(Token)
  BY <1>1, WindowTyped
<1>3. QED
  BY <1>2

\* A call begins with the whole window still to be decoded.
LEMMA BeginHead ==
  ASSUME IInv, NEW p \in Prompts, NEW b \in {0, MaxTokens},
         Extend(p, b) \/ Continue(p, b) \/ Restart(p, b)
  PROVE  HInv'
<1> DEFINE w == Window(p, b)
<1>1. p \in Seq(Token) /\ b \in Nat /\ Len(p) \in Nat
  BY ContextAssumption
<1>2. w \in Seq(Token) /\ Len(w) \in Nat /\ (Len(p) <= MaxPromptOf(b) => w = p)
  <2>1. w \in Seq(Token) /\ (Len(p) <= MaxPromptOf(b) => w = p)
    BY <1>1, WindowTyped
  <2> HIDE DEF w
  <2>2. QED
    BY <2>1
<1>3. PICK n \in 0..NCtx, isPivot \in BOOLEAN :
        Begin(p, b, isPivot, n, w) /\ (~isPivot => n = 0)
  <2>1. 0 \in 0..NCtx
    BY ContextAssumption
  <2>2. CASE Extend(p, b)
    <3>0. CommonPrefix(prefilled, p) = 0 /\ 0 + 1 = 1
      BY <1>1, NothingInCommon DEF IInv, NothingRemembered
    <3>1. Begin(p, b, FALSE, 0, SubSeq(p, 1, Len(p))) /\ Len(p) <= MaxPromptOf(b)
      BY <2>2, <3>0 DEF Extend
    <3>2. SubSeq(p, 1, Len(p)) = w
      BY <1>1, <1>2, <3>1, SubSeqFull
    <3>3. QED
      BY <2>1, <3>1, <3>2
  <2>3. CASE Continue(p, b)
    <3>1. PICK n \in 0..NCtx : Sound(kv, n)
      BY DEF IInv, Gapless
    <3>2. Begin(p, b, TRUE, n, p) /\ Len(p) <= MaxPromptOf(b)
      BY <2>3, <3>1, NextOfSound DEF Continue
    <3>3. QED
      BY <1>2, <3>2
  <2>4. CASE Restart(p, b)
    BY <2>1, <2>4 DEF Restart
  <2>5. QED
    BY <2>2, <2>3, <2>4
<1>4. /\ phase' = "ingest" /\ prompt' = p /\ budget' = b /\ pivot' = isPivot
      /\ nCur' = n /\ todo' = w /\ promptLen' = n + Len(w)
  BY <1>3 DEF Begin
<1>5. Window(prompt, budget)' = w
  BY <1>4 DEF Window, MaxPromptOf
<1>6. SubSeq(w, 1, Len(w)) = w
  BY <1>2, SubSeqFull
<1> HIDE DEF w
<1>7. n \in Nat
  BY ContextAssumption
<1>8. promptLen' - Len(w) = n /\ nCur' - n + 1 = 1 /\ nCur' <= promptLen'
  BY <1>2, <1>4, <1>7
<1>9. \A i \in 1..(nCur' - n) : FALSE
  BY <1>4, <1>7
<1>10. PromptPart'
  BY <1>3, <1>4, <1>5, <1>6, <1>7, <1>8, <1>9 DEF PromptPart
<1>11. QED
  BY <1>4, <1>10 DEF HInv, HeadPart

\* A batch takes the next tokens of the window to where they belong.
LEMMA IngestHead ==
  ASSUME IInv, HInv, IngestBatch
  PROVE  HInv'
<1> DEFINE w == Window(prompt, budget)
           start == promptLen - Len(w)
           n == Least(NBatch, Len(todo))
           s == SubSeq(todo, 1, n)
           j == nCur - start
<1>1. /\ phase = "ingest" /\ todo # <<>> /\ Fits(nCur, n)
      /\ kv' = Store(kv, nCur, s) /\ nCur' = nCur + n
      /\ todo' = SubSeq(todo, n + 1, Len(todo))
      /\ UNCHANGED <<phase, callVars>>
  BY DEF IngestBatch
<1>2. TypeOK /\ w \in Seq(Token) /\ Len(w) \in Nat /\ nCur \in Nat /\ promptLen \in Nat
  BY WindowOfCall, ContextAssumption DEF IInv, TypeOK
<1>3. /\ start \in Nat /\ start <= nCur /\ nCur <= promptLen
      /\ todo = SubSeq(w, j + 1, Len(w))
      /\ \A i \in 1..j : kv[start + i - 1] = w[i]
      /\ ~pivot => start = 0
  BY <1>1 DEF HInv, PromptPart
<1>4. /\ n \in 1..Len(todo) /\ s \in Seq(Token) /\ Len(s) = n
      /\ todo \in Seq(Token) /\ Len(todo) \in Nat
  BY <1>1, <1>2, BatchTyped DEF TypeOK
<1>5. Sound(kv, nCur)
  BY <1>1 DEF IInv, Gapless
<1>6. Window(prompt, budget)' = w /\ promptLen' = promptLen /\ pivot' = pivot
  BY <1>1 DEF callVars, Window, MaxPromptOf
<1> HIDE DEF w, n, s
<1>7. /\ \A q \in 0..(nCur - 1) : kv'[q] = kv[q]
      /\ \A i \in 1..n : kv'[nCur + i - 1] = s[i]
  <2>1. s \in Seq(Contents) /\ Fits(nCur, Len(s))
    BY <1>1, <1>4, TokensAreContents
  <2>2. /\ \A q \in 0..(nCur - 1) : Store(kv, nCur, s)[q] = kv[q]
        /\ \A i \in 1..Len(s) : Store(kv, nCur, s)[nCur + i - 1] = s[i]
    BY <1>5, <2>1, StoreSound
  <2>3. QED
    BY <1>1, <1>4, <2>2
<1>8. /\ j \in Nat /\ j <= Len(w) /\ start + j = nCur /\ start + Len(w) = promptLen
      /\ j + 1 \in 1..(Len(w) + 1) /\ Len(w) \in 0..Len(w)
  <2>1. Len(w) \in Nat /\ nCur \in Nat /\ promptLen \in Nat
    BY <1>2
  <2>2. start \in Nat /\ start <= nCur /\ nCur <= promptLen
    BY <1>3
  <2>3. QED
    BY <2>1, <2>2
<1> HIDE DEF start, j
<1>9. /\ Len(todo) = IF j + 1 <= Len(w) THEN Len(w) - (j + 1) + 1 ELSE 0
      /\ \A i \in 1..(Len(w) - (j + 1) + 1) : todo[i] = w[(j + 1) + i - 1]
  <2> DEFINE rest == SubSeq(w, j + 1, Len(w))
  <2>1. w \in Seq(Token) /\ j + 1 \in 1..(Len(w) + 1) /\ Len(w) \in 0..Len(w)
    BY <1>2, <1>8
  <2>2. /\ Len(rest) = IF j + 1 <= Len(w) THEN Len(w) - (j + 1) + 1 ELSE 0
        /\ \A i \in 1..(Len(w) - (j + 1) + 1) : rest[i] = w[(j + 1) + i - 1]
    BY <2>1, PartTyped
  <2>3. todo = rest
    BY <1>3
  <2> HIDE DEF rest
  <2>4. QED
    BY <2>2, <2>3
<1>10. /\ Len(todo) = Len(w) - j
       /\ \A i \in 1..Len(todo) : todo[i] = w[j + i]
  <2>1. Len(todo) = Len(w) - j
    BY <1>2, <1>8, <1>9
  <2>2. ASSUME NEW i \in 1..Len(todo)
        PROVE  todo[i] = w[j + i]
    <3>1. i \in 1..(Len(w) - (j + 1) + 1) /\ (j + 1) + i - 1 = j + i
      BY <1>2, <1>8, <2>1
    <3>2. QED
      BY <1>9, <3>1
  <2>3. QED
    BY <2>1, <2>2
<1>11. \A i \in 1..n : s[i] = w[j + i]
  <2>1. ASSUME NEW i \in 1..n
        PROVE  s[i] = w[j + i]
    <3>1. /\ 1 \in 1..(Len(todo) + 1) /\ n \in 0..Len(todo)
          /\ i \in 1..(n - 1 + 1) /\ 1 + i - 1 = i /\ i \in 1..Len(todo)
      BY <1>4
    <3>2. s[i] = todo[1 + i - 1]
      BY <1>4, <3>1, PartTyped DEF s
    <3>3. QED
      BY <1>10, <3>1, <3>2
  <2>2. QED
    BY <2>1
<1>12. todo' = SubSeq(w, j + n + 1, Len(w))
  <2>1. CASE n = Len(todo)
    <3>1. todo' = <<>>
      BY <1>1, <1>4, <2>1, SubSeqEmpty
    <3>2. SubSeq(w, j + n + 1, Len(w)) = <<>>
      BY <1>2, <1>8, <1>10, <2>1, SubSeqEmpty
    <3>3. QED
      BY <3>1, <3>2
  <2>2. CASE n # Len(todo)
    <3> DEFINE l == Len(w)
               k == Len(todo)
    <3>a. l \in Nat /\ k = l - j /\ n \in 1..k /\ n # k
      BY <1>2, <1>4, <1>10, <2>2
    <3>b. w \in Seq(Token)
      BY <1>2
    <3> HIDE DEF k
    <3>1. /\ j + 1 \in 1..l /\ l \in 1..l
          /\ n + 1 \in 1..(l - (j + 1) + 1) /\ k \in 1..(l - (j + 1) + 1)
          /\ (j + 1) + (n + 1) - 1 = j + n + 1
          /\ (j + 1) + k - 1 = l
      BY <1>8, <3>a
    <3>2. SubSeq(SubSeq(w, j + 1, l), n + 1, k)
            = SubSeq(w, (j + 1) + (n + 1) - 1, (j + 1) + k - 1)
      <4>1. \A x, y \in 1..Len(w) : \A u, v \in 1..(y - x + 1) :
              SubSeq(SubSeq(w, x, y), u, v) = SubSeq(w, x + u - 1, x + v - 1)
        BY <3>b, SubSeqOfSubSeq
      <4>2. QED
        BY <3>1, <4>1
    <3>3. QED
      BY <1>1, <1>3, <3>1, <3>2 DEF k
  <2>3. QED
    BY <2>1, <2>2
<1>13. ASSUME NEW i \in 1..(j + n)
       PROVE  kv'[start + i - 1] = w[i]
  <2>1. CASE i <= j
    <3>1. start + i - 1 \in 0..(nCur - 1) /\ i \in 1..j
      BY <1>3, <1>4, <1>8, <2>1
    <3>2. QED
      BY <1>3, <1>7, <3>1
  <2>2. CASE i > j
    <3>1. i - j \in 1..n /\ nCur + (i - j) - 1 = start + i - 1 /\ j + (i - j) = i
      BY <1>3, <1>4, <1>8, <2>2
    <3>2. kv'[nCur + (i - j) - 1] = w[j + (i - j)]
      BY <1>7, <1>11, <3>1
    <3>3. QED
      BY <3>1, <3>2
  <2>3. QED
    BY <1>4, <1>8, <2>1, <2>2
<1>14. /\ promptLen' - Len(w) = start /\ nCur' - start = j + n
       /\ start <= nCur' /\ nCur' <= promptLen'
  BY <1>1, <1>2, <1>3, <1>4, <1>6, <1>8, <1>10
<1>15. PromptPart'
  BY <1>3, <1>6, <1>12, <1>13, <1>14 DEF PromptPart
<1>16. QED
  BY <1>1, <1>15 DEF HInv, HeadPart
LEMMA HeadTyped ==
  ASSUME TypeOK
  PROVE  PromptHead \in Nat /\ PromptHead <= Keep /\ Keep \in Nat
<1> DEFINE half == NCtx \div 2
<1>1. half \in Nat
  BY ContextAssumption
<1>2. promptLen \in Nat
  BY DEF TypeOK
<1>3. PromptHead = Least(promptLen, half) /\ Keep = Most(Least(promptLen, half), 1)
  BY DEF PromptHead, Keep
<1> HIDE DEF half
<1>4. QED
  BY <1>1, <1>2, <1>3 DEF Least, Most

\* When nothing is left to decode, the call is at the end of its prompt.
LEMMA IngestedToTheEnd ==
  ASSUME IInv, HInv, phase = "ingest", todo = <<>>
  PROVE  nCur = promptLen
<1> DEFINE w == Window(prompt, budget)
           start == promptLen - Len(w)
<1>1. TypeOK /\ w \in Seq(Token) /\ Len(w) \in Nat /\ nCur \in Nat /\ promptLen \in Nat
  BY WindowOfCall, ContextAssumption DEF IInv, TypeOK
<1>2. /\ start \in Nat /\ start <= nCur /\ nCur <= promptLen
      /\ todo = SubSeq(w, nCur - start + 1, Len(w))
  BY DEF HInv, PromptPart
<1> HIDE DEF w
<1> DEFINE next == nCur - start + 1
<1>3. next \in 1..(Len(w) + 1) /\ Len(w) \in 0..Len(w)
  BY <1>1, <1>2
<1>4. todo = SubSeq(w, next, Len(w)) /\ w \in Seq(Token)
  BY <1>1, <1>2
<1> HIDE DEF next
<1>5. Len(todo) = IF next <= Len(w) THEN Len(w) - next + 1 ELSE 0
  BY <1>3, <1>4, PartTyped
<1>6. Len(todo) = 0
  BY EmptySeq
<1>7. QED
  BY <1>1, <1>2, <1>3, <1>5, <1>6 DEF next

\* When all of the prompt is decoded, its head is in the cache.
LEMMA SampleHead ==
  ASSUME IInv, HInv, Sample, phase' = "loop"
  PROVE  HInv'
<1> DEFINE w == Window(prompt, budget)
           start == promptLen - Len(w)
<1>1. /\ phase = "ingest" /\ todo = <<>> /\ kv' = kv
      /\ UNCHANGED <<callVars, nCur>>
  BY DEF Sample, Return
<1>2. TypeOK /\ w \in Seq(Token) /\ Len(w) \in Nat /\ nCur \in Nat /\ promptLen \in Nat
  BY WindowOfCall, ContextAssumption DEF IInv, TypeOK
<1>3. /\ start \in Nat /\ start <= nCur /\ nCur <= promptLen
      /\ todo = SubSeq(w, nCur - start + 1, Len(w))
      /\ \A i \in 1..(nCur - start) : kv[start + i - 1] = w[i]
      /\ ~pivot => start = 0
  BY <1>1 DEF HInv, PromptPart
<1>4. PromptHead \in Nat /\ PromptHead <= promptLen
  BY <1>2, HeadTyped DEF PromptHead, Least
<1>5. Window(prompt, budget)' = w /\ PromptHead' = PromptHead /\ pivot' = pivot
  BY <1>1 DEF callVars, Window, MaxPromptOf, PromptHead
<1> HIDE DEF w
<1>6. nCur = promptLen
  BY <1>1, IngestedToTheEnd
<1>7. ASSUME ~pivot, NEW q \in 0..(PromptHead - 1)
      PROVE  kv'[q] = w[q + 1]
  <2>1. start = 0
    BY <1>3, <1>7
  <2>2. q + 1 \in 1..(nCur - start) /\ start + (q + 1) - 1 = q
    BY <1>2, <1>4, <1>6, <2>1
  <2>3. kv[start + (q + 1) - 1] = w[q + 1]
    BY <1>3, <2>2
  <2>4. QED
    BY <1>1, <2>2, <2>3
<1>8. PromptHead' <= nCur'
  BY <1>1, <1>4, <1>5, <1>6
<1>9. HeadPart'
  BY <1>5, <1>7, <1>8 DEF HeadPart
<1>10. QED
  BY <1>9 DEF HInv, PromptPart

\* A shift leaves the head in place and goes on behind it.
LEMMA ShiftHead ==
  ASSUME IInv, HInv, phase \in {"loop", "decode"}, NEW due \in BOOLEAN
  PROVE  /\ PromptHead <= ShiftedPosition(due)
         /\ \A q \in 0..(PromptHead - 1) : ShiftedCache(due)[q] = kv[q]
<1>1. TypeOK /\ promptLen \in Nat /\ discard \in Discards /\ Sound(kv, nCur)
  BY DEF IInv, TypeOK, Gapless
<1>2. PromptHead <= nCur
  BY DEF HInv, HeadPart
<1>3. PromptHead \in Nat /\ PromptHead <= Keep /\ Keep \in Nat
  BY <1>1, HeadTyped
<1>4. CASE Shifting /\ due /\ CanSlide
  <2>1. Keep < nCur - discard /\ \A q \in 0..(Keep - 1) : Slid[q] = kv[q]
    BY <1>1, <1>4, SlidSound
  <2>2. nCur - discard \in Int
    BY <1>1, ContextAssumption DEF Sound
  <2>3. PromptHead <= nCur - discard /\ 0..(PromptHead - 1) \subseteq 0..(Keep - 1)
    BY <1>3, <2>1, <2>2
  <2>4. QED
    BY <1>4, <2>1, <2>3 DEF ShiftedCache, ShiftedPosition
<1>5. CASE ~(Shifting /\ due /\ CanSlide)
  BY <1>2, <1>5 DEF ShiftedCache, ShiftedPosition
<1>6. QED
  BY <1>4, <1>5

\* A verified batch goes behind the head.
LEMMA DecodedHead ==
  ASSUME IInv, HInv, phase = "decode", NEW c, NEW n, Sound(c, n),
         NEW d \in 0..MaxDrafts, Fits(n, 1 + d), Decoded(c, n, d), phase' # "idle",
         PromptHead <= n, \A q \in 0..(PromptHead - 1) : c[q] = kv[q]
  PROVE  HInv'
<1>1. n \in Nat /\ d \in Nat /\ n + 1 + d <= NCtx /\ NCtx \in Nat
  BY ContextAssumption DEF Sound, Fits
<1>2. PICK m \in 0..d : /\ kv' = Store(c, n, AnswerOf(1 + m))
                        /\ phase' = "loop"
                        /\ nCur' = n + 1 + m
                        /\ UNCHANGED callVars
  BY DEF Decoded, Verify, Overthought, Accept, Return
<1>3. m \in Nat /\ 1 + m \in Nat /\ m <= d
  BY <1>1
<1>4. AnswerOf(1 + m) \in Seq(Contents) /\ Len(AnswerOf(1 + m)) = 1 + m
  BY <1>3, AnswerTyped
<1>5. Fits(n, 1 + m)
  BY <1>1, <1>3 DEF Fits
<1>6. \A q \in 0..(n - 1) : kv'[q] = c[q]
  BY <1>2, <1>4, <1>5, StoreSound
<1>7. PromptHead' = PromptHead /\ pivot' = pivot /\ Window(prompt, budget)' = Window(prompt, budget)
  BY <1>2 DEF callVars, Window, MaxPromptOf, PromptHead
<1>8. PromptHead \in Nat
  BY HeadTyped DEF IInv
<1>9. ASSUME ~pivot, NEW q \in 0..(PromptHead - 1)
      PROVE  kv'[q] = Window(prompt, budget)[q + 1]
  <2>1. q \in 0..(n - 1)
    BY <1>1, <1>8
  <2>2. kv[q] = Window(prompt, budget)[q + 1]
    BY <1>9 DEF HInv, HeadPart
  <2>3. QED
    BY <1>6, <2>1, <2>2
<1>10. PromptHead' <= nCur'
  BY <1>1, <1>2, <1>3, <1>7, <1>8
<1>11. HeadPart'
  BY <1>7, <1>9, <1>10 DEF HeadPart
<1>12. QED
  BY <1>2, <1>11 DEF HInv, PromptPart

LEMMA LoopHead ==
  ASSUME IInv, HInv, Show \/ Decode \/ DecodeFails, phase' # "idle"
  PROVE  HInv'
<1>1. TypeOK /\ phase \in {"loop", "decode"}
  BY DEF IInv, Show, Decode, DecodeFails
<1>2. Sound(kv, nCur) /\ nCur \in Int
  BY <1>1, ContextAssumption DEF IInv, Gapless, Sound
<1>3. \A n \in Int : Drafts(n) \subseteq 0..MaxDrafts
  BY ContextAssumption DEF Drafts, Least, Most
<1>4. CASE Show
  <2>1. /\ phase' = "decode" /\ kv' = ShiftedCache(Due) /\ nCur' = ShiftedPosition(Due)
        /\ UNCHANGED callVars
    BY <1>4 DEF Show
  <2>2. PromptHead' = PromptHead /\ pivot' = pivot /\ Window(prompt, budget)' = Window(prompt, budget)
    BY <2>1 DEF callVars, Window, MaxPromptOf, PromptHead
  <2>3. /\ PromptHead <= nCur'
        /\ \A q \in 0..(PromptHead - 1) : kv'[q] = kv[q]
    BY <1>1, <2>1, DueTyped, ShiftHead
  <2>4. ~pivot => \A q \in 0..(PromptHead - 1) : kv[q] = Window(prompt, budget)[q + 1]
    BY <1>1 DEF HInv, HeadPart
  <2>5. HeadPart'
    BY <2>2, <2>3, <2>4 DEF HeadPart
  <2>6. QED
    BY <2>1, <2>5 DEF HInv, PromptPart
<1>5. CASE Decode
  <2>1. PICK d \in Drafts(nCur) : Fits(nCur, 1 + d) /\ Decoded(kv, nCur, d)
    BY <1>5 DEF Decode
  <2>2. d \in 0..MaxDrafts /\ phase = "decode" /\ PromptHead <= nCur
    BY <1>1, <1>2, <1>3, <1>5 DEF Decode, HInv, HeadPart
  <2>3. QED
    BY <1>2, <2>1, <2>2, DecodedHead
<1>6. CASE DecodeFails
  <2> DEFINE c == ShiftedCache(TRUE)
             n == ShiftedPosition(TRUE)
  <2>1. PICK d \in Drafts(nCur) : Fits(n, 1 + d) /\ Decoded(c, n, d)
    BY <1>6 DEF DecodeFails, Return
  <2>2. d \in 0..MaxDrafts /\ phase = "decode"
    BY <1>2, <1>3, <1>6 DEF DecodeFails
  <2>3. /\ Sound(c, n) /\ PromptHead <= n
        /\ \A q \in 0..(PromptHead - 1) : c[q] = kv[q]
    BY <1>1, <1>2, ShiftSound, ShiftHead
  <2> HIDE DEF c, n
  <2>4. QED
    BY <2>1, <2>2, <2>3, DecodedHead
<1>7. QED
  BY <1>4, <1>5, <1>6

LEMMA NextHInv ==
  IInv /\ HInv /\ [Next]_vars => HInv'
<1> SUFFICES ASSUME IInv, HInv, [Next]_vars
             PROVE  HInv'
  OBVIOUS
<1>1. CASE UNCHANGED vars
  BY <1>1 DEF vars, HInv, PromptPart, HeadPart, PromptHead, Window, MaxPromptOf
<1>2. CASE phase' = "idle"
  BY <1>2 DEF HInv, PromptPart, HeadPart
<1>3. CASE Dump \/ Load \/ LoadFails \/ Rejected
  <2>1. phase' = "idle"
    BY <1>3 DEF Dump, Load, LoadFails, Rejected, Idle
  <2>2. QED
    BY <1>2, <2>1
<1>4. CASE Call
  BY <1>4, BeginHead DEF Call
<1>5. CASE IngestFails \/ ShowLast \/ Leave
  <2>1. phase' = "idle"
    BY <1>5 DEF IngestFails, ShowLast, Leave, Return
  <2>2. QED
    BY <1>2, <2>1
<1>6. CASE IngestBatch
  BY <1>6, IngestHead
<1>7. CASE Sample
  <2>1. phase' = "loop" \/ phase' = "idle"
    BY <1>7 DEF Sample, Return
  <2>2. QED
    BY <1>2, <1>7, <2>1, SampleHead
<1>8. CASE Show \/ Decode \/ DecodeFails
  BY <1>2, <1>8, LoopHead
<1>9. QED
  BY <1>1, <1>3, <1>4, <1>5, <1>6, <1>7, <1>8 DEF Next, Step

LEMMA HInvHolds == SafeSpec => []HInv
<1>1. Init => HInv
  BY DEF Init, HInv, PromptPart, HeadPart
<1>2. IInv /\ HInv /\ [Next]_vars => HInv'
  BY NextHInv
<1>3. QED
  BY <1>1, <1>2, IInvHolds, PTL DEF SafeSpec

\* The first token is sampled behind the whole window of the prompt.
THEOREM PromptIsIngested == SafeSpec => []PromptIngested
<1>1. IInv /\ HInv => PromptIngested
  <2> SUFFICES ASSUME IInv, HInv, phase = "ingest", todo = <<>>
               PROVE  LET w == Window(prompt, budget) IN
                        /\ \A i \in 1..Len(w) : kv[nCur - Len(w) + i - 1] = w[i]
                        /\ ~pivot => nCur = Len(w)
    BY DEF PromptIngested
  <2> DEFINE w == Window(prompt, budget)
             start == promptLen - Len(w)
  <2>1. w \in Seq(Token) /\ Len(w) \in Nat /\ nCur \in Nat /\ promptLen \in Nat
    BY WindowOfCall, ContextAssumption DEF IInv, TypeOK
  <2>2. /\ start \in Nat /\ start <= nCur /\ nCur <= promptLen
        /\ todo = SubSeq(w, nCur - start + 1, Len(w))
        /\ \A i \in 1..(nCur - start) : kv[start + i - 1] = w[i]
        /\ ~pivot => start = 0
    BY DEF HInv, PromptPart
  <2> HIDE DEF w
  <2>3. nCur = promptLen
    BY IngestedToTheEnd
  <2>4. nCur - Len(w) = start /\ nCur - start = Len(w) /\ (~pivot => nCur = Len(w))
    BY <2>1, <2>2, <2>3
  <2>5. \A i \in 1..Len(w) : kv[nCur - Len(w) + i - 1] = w[i]
    BY <2>2, <2>4
  <2>6. QED
    BY <2>4, <2>5 DEF w
<1>2. QED
  BY <1>1, IInvHolds, HInvHolds, PTL

\* However often the window slides, the head of the prompt stays in place.
THEOREM PromptHeadIsKept == SafeSpec => []PromptHeadKept
<1>1. HInv => PromptHeadKept
  BY DEF HInv, HeadPart, PromptHead, PromptHeadKept
<1>2. QED
  BY <1>1, HInvHolds, PTL

=============================================================================
