---------------------------- MODULE BoosterProofs ----------------------------
(***************************************************************************)
(* Proofs about BoosterSettings.                                           *)
(*                                                                         *)
(*  - One client survives one fault: SurvivesOneFault.  Nothing is lost    *)
(*    because the two files are never damaged together: CrashInv says      *)
(*    which of them still holds the settings at every step of a save.      *)
(*  - Loading alone, by any number of clients, keeps the JSON:             *)
(*    LoadingKeepsTheJson.  ReadInv says that nobody ever holds, or has    *)
(*    written, anything but the settings of the initial state.             *)
(***************************************************************************)
EXTENDS BoosterSettings, TLAPS

(* Typing *)

LEMMA InitTyped == Init => TypeOK
  BY SettingsAssumption DEF Init, TypeOK, Pc, Resting

LEMMA NextTyped == TypeOK /\ [Next]_vars => TypeOK'
<1> SUFFICES ASSUME TypeOK, [Next]_vars PROVE TypeOK'
  OBVIOUS
<1> USE SettingsAssumption DEF TypeOK, files
<1>1. ASSUME UNCHANGED vars PROVE TypeOK'
  BY <1>1 DEF vars
<1>2. ASSUME NEW c \in Client, Read(c) PROVE TypeOK'
  BY <1>2 DEF Read, Pc, Resting, Writing
<1>3. ASSUME NEW c \in Client, ReadBin(c) PROVE TypeOK'
  <2>1. Underway(c) \subseteq Setting
    BY DEF Underway
  <2>2. kept' \subseteq Setting
    BY <1>3, <2>1 DEF ReadBin, Loaded
  <2> QED
    BY <1>3, <2>2 DEF ReadBin, Goto, Pc, Resting
<1>4. ASSUME NEW c \in Client, Wipe(c) PROVE TypeOK'
  <2>1. Underway(c) \subseteq Setting
    BY DEF Underway
  <2> QED
    BY <1>4, <2>1 DEF Wipe, Goto, Loaded, Pc, Resting
<1>5. ASSUME NEW c \in Client, NEW s \in Setting, Save(c, s) PROVE TypeOK'
  BY <1>5 DEF Save, Pc, Writing
<1>6. ASSUME NEW c \in Client, OpenJson(c) PROVE TypeOK'
  BY <1>6 DEF OpenJson, Goto, Pc, Writing
<1>7. ASSUME NEW c \in Client, WriteJson(c) PROVE TypeOK'
  BY <1>7 DEF WriteJson, Goto, Pc, Writing
<1>8. ASSUME NEW c \in Client, OpenBin(c) PROVE TypeOK'
  BY <1>8 DEF OpenBin, Goto, Pc, Writing
<1>9. ASSUME NEW c \in Client, WriteBin(c) PROVE TypeOK'
  <2>1. Underway(c) \subseteq Setting
    BY DEF Underway
  <2> QED
    BY <1>9, <2>1 DEF WriteBin, Goto, Loaded, Pc, Resting
<1>10. ASSUME NEW c \in Client, WriteFails(c) PROVE TypeOK'
  <2>1. Underway(c) \subseteq Setting
    BY DEF Underway
  <2> QED
    BY <1>10, <2>1 DEF WriteFails, Loaded, Pc, Resting
<1>11. ASSUME NEW c \in Client, Crash(c) PROVE TypeOK'
  BY <1>11 DEF Crash, Pc, Resting
<1> QED
  BY <1>1, <1>2, <1>3, <1>4, <1>5, <1>6, <1>7, <1>8, <1>9, <1>10, <1>11 DEF Next

\* The variables of the settings files keep their types for any clients,
\* settings and number of faults.
THEOREM TypeCorrect == Spec => []TypeOK
  BY InitTyped, NextTyped, PTL DEF Spec

-----------------------------------------------------------------------------
(* One client, one fault *)

\* What each place of the only client says of the two files.  As long as
\* nothing has failed both hold the settings whenever the client rests, so
\* the one that is not being written is whole.
AtRest(c) ==
  /\ json \in kept \/ (json \notin Setting /\ bin \in kept)
  /\ faults = 0 => json \in kept /\ bin = json

AtOpen(c) ==
  /\ held[c] \in kept
  /\ c \notin saving => json = held[c]
  /\ AtRest(c)

AtJson(c) ==
  /\ held[c] \in kept
  /\ json = Empty
  /\ faults = 0 => bin \in kept
  /\ faults = 0 /\ c \notin saving => bin = held[c]

AtNext(c) ==
  /\ held[c] \in kept
  /\ json = held[c]
  /\ faults = 0 => bin \in kept

AtBin(c) ==
  /\ held[c] \in kept
  /\ json = held[c]
  /\ c \notin orphan

AtFallback(c) ==
  /\ json \notin Setting
  /\ bin \in kept
  /\ faults # 0

CrashInv ==
  \A c \in Client :
    /\ pc[c] \in Resting => AtRest(c)
    /\ pc[c] = "open" => AtOpen(c)
    /\ pc[c] = "json" => AtJson(c)
    /\ pc[c] = "next" => AtNext(c)
    /\ pc[c] = "bin" => AtBin(c)
    /\ pc[c] = "fallback" => AtFallback(c)
    /\ pc[c] # "wipe"

\* A client on its own sees no other save under way.
LEMMA NobodyElse ==
  ASSUME NEW c \in Client, Client = {c}, TypeOK
  PROVE  Underway(c) = {}
  BY SettingsAssumption DEF Underway, TypeOK

LEMMA CrashInit == Init => CrashInv
  BY DEF Init, CrashInv, AtRest, Resting

LEMMA CrashNext ==
  ASSUME NEW cl, Client = {cl}, MaxFaults <= 1,
         TypeOK, CrashInv, [Next]_vars
  PROVE  CrashInv'
<1> USE SettingsAssumption DEF files
<1> DEFINE c == cl
<1>0. c \in Client /\ Underway(c) = {}
  BY NobodyElse
<1>t. /\ pc \in [Client -> Pc]
      /\ held \in [Client -> Setting]
      /\ kept \subseteq Setting
      /\ faults \in 0..MaxFaults
  BY DEF TypeOK
<1>i. /\ pc[c] \in Resting => AtRest(c)
      /\ pc[c] = "open" => AtOpen(c)
      /\ pc[c] = "json" => AtJson(c)
      /\ pc[c] = "next" => AtNext(c)
      /\ pc[c] = "bin" => AtBin(c)
      /\ pc[c] = "fallback" => AtFallback(c)
      /\ pc[c] # "wipe"
  BY <1>0 DEF CrashInv
<1>g. SUFFICES /\ pc'[c] \in Resting => AtRest(c)'
               /\ pc'[c] = "open" => AtOpen(c)'
               /\ pc'[c] = "json" => AtJson(c)'
               /\ pc'[c] = "next" => AtNext(c)'
               /\ pc'[c] = "bin" => AtBin(c)'
               /\ pc'[c] = "fallback" => AtFallback(c)'
               /\ pc'[c] # "wipe"
  BY DEF CrashInv
<1> HIDE DEF c
<1>1. CASE UNCHANGED vars
  BY <1>1, <1>i DEF vars, AtRest, AtOpen, AtJson, AtNext, AtBin, AtFallback
<1>2. CASE Read(c)
  BY <1>0, <1>t, <1>i, <1>2 DEF Read, Resting, AtRest, AtOpen, AtFallback
<1>3. CASE ReadBin(c)
  <2>1. bin \in kept /\ json \notin Setting /\ faults # 0 /\ pc[c] = "fallback"
    BY <1>i, <1>3 DEF ReadBin, Goto, AtFallback
  <2>2. bin \in Setting /\ pc'[c] = "loaded" /\ kept' = {bin}
    BY <2>1, <1>0, <1>t, <1>3 DEF ReadBin, Goto, Loaded
  <2> QED
    BY <2>1, <2>2, <1>3 DEF ReadBin, Resting, AtRest
<1>4. CASE Wipe(c)
  BY <1>i, <1>4 DEF Wipe, Goto
<1>5. CASE \E s \in Setting : Save(c, s)
  BY <1>0, <1>t, <1>i, <1>5 DEF Save, Resting, AtRest, AtOpen
<1>6. CASE OpenJson(c)
  BY <1>0, <1>t, <1>i, <1>6 DEF OpenJson, Goto, Resting, AtRest, AtOpen, AtJson
<1>7. CASE WriteJson(c)
  BY <1>0, <1>t, <1>i, <1>7 DEF WriteJson, Goto, Resting, AtJson, AtNext
<1>8. CASE OpenBin(c)
  BY <1>0, <1>t, <1>i, <1>8 DEF OpenBin, Goto, Resting, AtNext, AtBin
<1>9. CASE WriteBin(c)
  <2>1. pc[c] = "bin" /\ held[c] \in kept /\ json = held[c] /\ c \notin orphan
    BY <1>i, <1>9 DEF WriteBin, Goto, AtBin
  <2>2. json' = held[c] /\ bin' = held[c] /\ kept' = {held[c]} /\ pc'[c] \in Resting
    BY <2>1, <1>0, <1>t, <1>9 DEF WriteBin, Goto, Loaded, Resting
  <2> QED
    BY <2>2 DEF AtRest, Resting
<1>10. CASE WriteFails(c)
  <2>1. faults = 0 /\ faults' = 1 /\ UNCHANGED <<saving, held, files>>
    BY <1>t, <1>10 DEF WriteFails
  <2>2. pc[c] \in Writing /\ pc'[c] \in Resting
    BY <1>0, <1>t, <1>10 DEF WriteFails, Resting
  <2>3. json \in kept \/ (json \notin Setting /\ bin \in kept)
    BY <2>1, <2>2, <1>i, <1>10 DEF Writing, AtRest, AtOpen, AtJson, AtNext, AtBin
  <2>4. CASE c \in saving
    BY <2>1, <2>2, <2>3, <2>4, <1>10 DEF WriteFails, AtRest, Resting
  <2>5. CASE c \notin saving
    <3>1. kept' = {held[c]}
      BY <2>2, <2>5, <1>0, <1>i, <1>10
      DEF WriteFails, Loaded, Writing, AtOpen, AtJson, AtNext, AtBin
    <3>2. json = held[c] \/ (json = Empty /\ bin = held[c])
      BY <2>1, <2>2, <2>5, <1>i DEF Writing, AtOpen, AtJson, AtNext, AtBin
    <3> QED
      BY <2>1, <2>2, <3>1, <3>2 DEF AtRest, Resting
  <2> QED
    BY <2>4, <2>5
<1>11. CASE Crash(c)
  <2>1. faults = 0 /\ faults' = 1 /\ UNCHANGED <<saving, held, files, kept>>
    BY <1>t, <1>11 DEF Crash
  <2>2. pc[c] \in Writing /\ pc'[c] = "idle"
    BY <2>1, <1>0, <1>t, <1>i, <1>11 DEF Crash, Pc, AtFallback
  <2>3. json \in kept \/ (json \notin Setting /\ bin \in kept)
    BY <2>1, <2>2, <1>i DEF Writing, AtRest, AtOpen, AtJson, AtNext, AtBin
  <2> QED
    BY <2>1, <2>2, <2>3 DEF AtRest, Resting
<1>12. [Next]_vars /\ Client = {c}
  BY DEF c
<1> QED
  BY <1>12, <1>1, <1>2, <1>3, <1>4, <1>5, <1>6, <1>7, <1>8, <1>9, <1>10, <1>11 DEF Next

\* What a load of the only client returns was kept.
LEMMA CrashStep ==
  ASSUME NEW cl, Client = {cl}, MaxFaults <= 1,
         TypeOK, CrashInv, [Next]_vars
  PROVE  \A c \in Client :
           pc[c] # "loaded" /\ pc'[c] = "loaded" => held'[c] \in kept
<1> SUFFICES ASSUME NEW c \in Client, pc[c] # "loaded", pc'[c] = "loaded"
             PROVE  held'[c] \in kept
  OBVIOUS
<1> USE SettingsAssumption
<1>1. Client = {c} /\ pc \in [Client -> Pc] /\ held \in [Client -> Setting]
  BY DEF TypeOK
<1>2. pc[c] \in Writing => held[c] \in kept
  BY DEF CrashInv, Writing, AtOpen, AtJson, AtNext, AtBin
<1>3. pc[c] = "fallback" => bin \in kept
  BY DEF CrashInv, AtFallback
<1>4. pc[c] # "wipe" /\ kept \subseteq Setting
  BY DEF CrashInv, TypeOK
<1>5. ReadBin(c) \/ WriteBin(c) \/ WriteFails(c)
  BY <1>1, <1>4 DEF Next, vars, Read, Wipe, Save, OpenJson, WriteJson, OpenBin,
     Crash, Goto
<1>6. CASE ReadBin(c)
  BY <1>1, <1>3, <1>4, <1>6 DEF ReadBin, Goto
<1>7. CASE WriteBin(c) \/ WriteFails(c)
  BY <1>1, <1>2, <1>7 DEF WriteBin, WriteFails, Goto, Writing
<1> QED
  BY <1>5, <1>6, <1>7

\* However the only client loads and saves its settings, one crash or failing
\* write, wherever it strikes, makes no load return anything that was not saved.
THEOREM SurvivesOneFault ==
  ASSUME NEW cl, Client = {cl}, MaxFaults <= 1
  PROVE  Spec => LoadsReturnKept
<1>1. Init => TypeOK /\ CrashInv
  BY InitTyped, CrashInit
<1>2. TypeOK /\ CrashInv /\ [Next]_vars => (TypeOK /\ CrashInv)'
  BY NextTyped, CrashNext
<1>3. TypeOK /\ CrashInv /\ [Next]_vars =>
        [\A c \in Client :
           Alone(c) /\ pc[c] # "loaded" /\ pc'[c] = "loaded"
             => held'[c] \in kept]_vars
  BY CrashStep
<1> QED
  BY <1>1, <1>2, <1>3, PTL DEF Spec, LoadsReturnKept

-----------------------------------------------------------------------------
(* Any number of clients that only load *)

\* There is one setting, and nobody holds or leaves anything else.
ReadInv ==
  \E s \in Setting :
    /\ kept = {s}
    /\ json \in {s, Empty}
    /\ (\A c \in Client : pc[c] # "json") => json = s
    /\ \A c \in Client : pc[c] \in Writing => held[c] = s

LEMMA ReadInit == Init => ReadInv
  BY DEF Init, ReadInv, Writing

LEMMA ReadNext ==
  ASSUME Savers = {}, MaxFaults = 0, TypeOK, ReadInv, [Next]_vars
  PROVE  ReadInv'
<1> USE SettingsAssumption DEF files
<1>1. PICK s \in Setting :
        /\ kept = {s}
        /\ json \in {s, Empty}
        /\ (\A c \in Client : pc[c] # "json") => json = s
        /\ \A c \in Client : pc[c] \in Writing => held[c] = s
  BY DEF ReadInv
<1>2. saving = {} /\ pc \in [Client -> Pc] /\ held \in [Client -> Setting]
  BY DEF TypeOK
<1>3. \A c \in Client : Underway(c) = {}
  BY <1>2 DEF Underway
<1> DEFINE Same == /\ kept' = {s}
                   /\ json' \in {s, Empty}
                   /\ (\A c \in Client : pc'[c] # "json") => json' = s
                   /\ \A c \in Client : pc'[c] \in Writing => held'[c] = s
<1>4. SUFFICES Same
  BY DEF ReadInv
<1>5. CASE UNCHANGED vars
  BY <1>1, <1>5 DEF vars
<1>6. ASSUME NEW c \in Client, NEW x, Loaded(c, x) PROVE kept' = {s}
  BY <1>1, <1>3, <1>6 DEF Loaded
<1>7. ASSUME NEW c \in Client, Read(c) PROVE Same
  <2>1. pc[c] \in Resting /\ UNCHANGED <<json, kept>>
    BY <1>7 DEF Read
  <2>2. pc[c] # "json"
    BY <2>1 DEF Resting
  <2>3. \A d \in Client : pc'[d] \in Writing => held'[d] = s
    BY <1>1, <1>2, <1>7 DEF Read, Writing
  <2>4. \A d \in Client : pc'[d] = "json" <=> pc[d] = "json"
    BY <2>2, <1>2, <1>7 DEF Read
  <2> QED
    BY <2>1, <2>3, <2>4, <1>1
<1>8. ASSUME NEW c \in Client, ReadBin(c) \/ Wipe(c) PROVE Same
  <2>1. kept' = {s} /\ json' = json
    BY <1>1, <1>6, <1>8 DEF ReadBin, Wipe
  <2>2. \A d \in Client : pc'[d] \in Writing =>
          d # c /\ pc'[d] = pc[d] /\ held'[d] = held[d]
    BY <1>2, <1>8 DEF ReadBin, Wipe, Goto, Writing
  <2>3. \A d \in Client : pc'[d] = "json" <=> pc[d] = "json"
    BY <1>2, <1>8 DEF ReadBin, Wipe, Goto
  <2> QED
    BY <1>1, <2>1, <2>2, <2>3
<1>9. ASSUME NEW c \in Client, OpenJson(c) PROVE Same
  BY <1>1, <1>2, <1>9 DEF OpenJson, Goto, Writing
<1>10. ASSUME NEW c \in Client, WriteJson(c) PROVE Same
  <2>1. held[c] = s /\ UNCHANGED <<held, kept>>
    BY <1>1, <1>10 DEF WriteJson, Goto, Writing
  <2>2. json' = s
    BY <2>1, <1>1, <1>10 DEF WriteJson
  <2> QED
    BY <2>1, <2>2, <1>1, <1>2, <1>10 DEF WriteJson, Goto, Writing
<1>11. ASSUME NEW c \in Client, OpenBin(c) PROVE Same
  BY <1>1, <1>2, <1>11 DEF OpenBin, Goto, Writing
<1>12. ASSUME NEW c \in Client, WriteBin(c) PROVE Same
  <2>1. kept' = {s} /\ UNCHANGED <<json, held>>
    BY <1>2, <1>6, <1>12 DEF WriteBin
  <2>2. \A d \in Client : pc'[d] \in Writing => pc[d] \in Writing
    BY <1>2, <1>12 DEF WriteBin, Goto, Writing
  <2>3. \A d \in Client : pc'[d] = "json" <=> pc[d] = "json"
    BY <1>2, <1>12 DEF WriteBin, Goto
  <2> QED
    BY <1>1, <2>1, <2>2, <2>3
<1>13. ASSUME NEW c \in Client
       PROVE  /\ \A x \in Setting : ~Save(c, x)
              /\ ~WriteFails(c) /\ ~Crash(c)
  BY DEF Save, WriteFails, Crash, TypeOK
<1> HIDE DEF Same
<1> QED
  BY <1>4, <1>5, <1>7, <1>8, <1>9, <1>10, <1>11, <1>12, <1>13 DEF Next

\* However many clients load the settings at the same time, none of the saves
\* their loads make loses the JSON.
THEOREM LoadingKeepsTheJson ==
  ASSUME Savers = {}, MaxFaults = 0
  PROVE  Spec => []JsonKept
<1>1. Init => TypeOK /\ ReadInv
  BY InitTyped, ReadInit
<1>2. TypeOK /\ ReadInv /\ [Next]_vars => (TypeOK /\ ReadInv)'
  BY NextTyped, ReadNext
<1>3. ReadInv => JsonKept
  BY DEF ReadInv, JsonKept
<1> QED
  BY <1>1, <1>2, <1>3, PTL DEF Spec
=============================================================================
