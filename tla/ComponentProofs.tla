--------------------------- MODULE ComponentProofs ---------------------------
(***************************************************************************)
(* Proofs about Components: its types; that an execution runs the code it  *)
(* has read itself, by the engine of a call: an entry of WASM_CACHE that   *)
(* carries it was put there by this call and holds what the call has read; *)
(* that the limits it runs under are those of the manifest, where nobody   *)
(* else used the component; and that what is installed stays in the        *)
(* registry, as long as no old copy of it is saved.                        *)
(***************************************************************************)
EXTENDS Components, TLAPS

ActType == act \in [Actor -> Call \cup {Idle}]

\* An actor that is somewhere in the code is in a call.
LEMMA InCall ==
  ASSUME ActType, NEW a \in Actor, act[a].pc # "idle"
  PROVE  act[a] \in Call
BY DEF ActType, Idle

LEMMA IdleOrCall ==
  ASSUME ActType, NEW a \in Actor
  PROVE  /\ act[a] # Idle <=> act[a] \in Call
         /\ act[a] # Idle <=> act[a].pc # "idle"
BY DEF ActType, Idle, Call, Pc, RegistryPc

\* What a call becomes keeps the type.
LEMMA Becomes ==
  ASSUME ActType, NEW a \in Actor, NEW new \in Call \cup {Idle},
         act' = [act EXCEPT ![a] = new]
  PROVE  ActType'
BY DEF ActType

LEMMA Goes ==
  ASSUME ActType, NEW a \in Actor, act[a] \in Call, NEW pc \in Pc, Goto(a, pc)
  PROVE  ActType'
BY DEF ActType, Goto, Call

\* The ways in which the steps change a call.
LEMMA Loads ==
  ASSUME ActType, NEW a \in Actor, act[a] \in Call,
         NEW reg \in SUBSET Component, NEW pc \in Pc,
         act' = [act EXCEPT ![a].reg = reg, ![a].pc = pc]
  PROVE  ActType'
BY DEF ActType, Call

LEMMA Again ==
  ASSUME ActType, NEW a \in Actor, act[a] \in Call, NEW again \in BOOLEAN, NEW pc \in Pc,
         act' = [act EXCEPT ![a].again = again, ![a].pc = pc]
  PROVE  ActType'
BY DEF ActType, Call

LEMMA Registers ==
  ASSUME ActType, NEW a \in Actor, act[a] \in Call,
         NEW reg \in SUBSET Component, NEW pc \in Pc,
         NEW next \in {"index", "deregister", "lookup", "end"},
         act' = [act EXCEPT ![a].reg = reg, ![a].next = next, ![a].pc = pc]
  PROVE  ActType'
BY DEF ActType, Call

LEMMA Syncs ==
  ASSUME ActType, NEW a \in Actor, act[a] \in Call,
         NEW reg \in SUBSET Component, NEW again \in BOOLEAN, NEW pc \in Pc,
         NEW next \in {"index", "deregister", "lookup", "end"},
         \/ act' = [act EXCEPT ![a].reg = reg, ![a].again = again, ![a].next = next, ![a].pc = pc]
         \/ act' = [act EXCEPT ![a].reg = reg, ![a].next = next, ![a].again = again, ![a].pc = pc]
  PROVE  ActType'
BY DEF ActType, Call

LEMMA Limits ==
  ASSUME ActType, NEW a \in Actor, act[a] \in Call,
         NEW limits \in Version \cup {Absent}, NEW pc \in Pc,
         act' = [act EXCEPT ![a].limits = limits, ![a].pc = pc]
  PROVE  ActType'
BY DEF ActType, Call

LEMMA Returns ==
  ASSUME ActType, NEW a \in Actor, Return(a)
  PROVE  ActType'
BY DEF ActType, Return

LEMMA OverwriteType ==
  ASSUME lost \in BOOLEAN, behind \subseteq Actor, NEW a \in Actor, Overwrite(a)
  PROVE  lost' \in BOOLEAN /\ behind' \subseteq Actor
BY DEF Overwrite

-----------------------------------------------------------------------------
\* The steps keep the types.

LEMMA BeginType ==
  ASSUME ComponentAssumption, TypeOK, NEW a \in Actor, NEW c \in Component,
         NEW op \in {"install", "remove", "execute"}, Begin(a, op, c)
  PROVE  TypeOK'
<1>1. calls' \in 0..MaxCalls /\ calls + 1 \in 1..MaxCalls
  BY DEF Begin, TypeOK, ComponentAssumption
<1>2. First(op) \in Pc
  BY DEF First, Pc, RegistryPc
<1>3. PICK v \in Version :
        act' = [act EXCEPT ![a] =
                 [op |-> op, pc |-> First(op), id |-> calls + 1, c |-> c, v |-> v,
                  reg |-> {}, again |-> FALSE, next |-> "end",
                  limits |-> Absent, read |-> Absent, ran |-> Absent]]
  <2>1. 1 \in Version
    BY DEF Version, ComponentAssumption
  <2> QED
    BY <2>1 DEF Begin
<1>4. [op |-> op, pc |-> First(op), id |-> calls + 1, c |-> c, v |-> v,
       reg |-> {}, again |-> FALSE, next |-> "end",
       limits |-> Absent, read |-> Absent, ran |-> Absent] \in Call
  BY <1>1, <1>2 DEF Call
<1>5. ActType'
  BY <1>3, <1>4, Becomes DEF TypeOK, ActType
<1>6. mixed' \subseteq Component
  BY DEF Begin, TypeOK
<1> QED
  BY <1>1, <1>5, <1>6 DEF Begin, TypeOK, ActType, files, registry

LEMMA RegistryTypes ==
  ASSUME TypeOK, NEW a \in Actor, RegistryStep(a)
  PROVE  TypeOK'
<1> USE DEF ActType
<1>0. act[a].pc # "idle" => act[a] \in Call
  BY InCall DEF TypeOK
<1>1. CASE ReadBin(a)
  <2>1. act[a] \in Call
    BY <1>0, <1>1 DEF ReadBin, At
  <2>2. ActType'
    <3>1. (IF PreferBin THEN bin ELSE act[a].reg) \in SUBSET Component
      BY <2>1 DEF PreferBin, Whole, TypeOK, Call
    <3>2. (IF PreferBin THEN "sync" ELSE "readYaml") \in Pc
      BY DEF Pc, RegistryPc
    <3> QED
      BY <1>1, <2>1, <3>1, <3>2, Loads DEF ReadBin, TypeOK
  <2> QED
    BY <1>1, <2>2 DEF ReadBin, TypeOK, files, registry
<1>2. CASE ReadYaml(a)
  <2>1. act[a] \in Call
    BY <1>0, <1>2 DEF ReadYaml, At
  <2>2. Loaded(act[a].op) \in {"index", "deregister", "lookup", "end"}
    BY <2>1 DEF Loaded, Call
  <2>3. ActType'
    <3>1. (IF Whole(yaml) THEN yaml ELSE {}) \in SUBSET Component
      BY DEF Whole, TypeOK
    <3>2. (IF yaml = Absent THEN "openYaml" ELSE "sync") \in Pc
      BY DEF Pc, RegistryPc
    <3>3. (yaml # Absent) \in BOOLEAN
      OBVIOUS
    <3> QED
      BY <1>2, <2>1, <2>2, <3>1, <3>2, <3>3, Syncs DEF ReadYaml, TypeOK
  <2> QED
    BY <1>2, <2>3 DEF ReadYaml, TypeOK, files, registry, history
<1>3. CASE Sync(a)
  <2>1. act[a] \in Call
    BY <1>0, <1>3 DEF Sync, At
  <2>2. Loaded(act[a].op) \in {"index", "deregister", "lookup", "end"}
    BY <2>1 DEF Loaded, Call
  <2>3. ActType'
    <3> DEFINE kept == {c \in act[a].reg : dir[c]}
               pc == IF kept # act[a].reg THEN "openYaml"
                     ELSE IF act[a].again THEN "openBin" ELSE Loaded(act[a].op)
    <3>1. kept \in SUBSET Component
      BY <2>1 DEF Call
    <3>2. pc \in Pc
      BY <2>2 DEF Pc, RegistryPc
    <3>3. (act[a].again /\ kept # act[a].reg) \in BOOLEAN
      BY <2>1 DEF Call
    <3>4. act' = [act EXCEPT ![a].reg = kept,
                            ![a].next = Loaded(act[a].op),
                            ![a].again = act[a].again /\ kept # act[a].reg,
                            ![a].pc = pc]
      BY <1>3 DEF Sync
    <3> HIDE DEF kept, pc
    <3> QED
      BY <2>1, <2>2, <3>1, <3>2, <3>3, <3>4, Syncs DEF TypeOK
  <2> QED
    BY <1>3, <2>3 DEF Sync, TypeOK, files, registry, history
<1>4. CASE OpenYaml(a)
  <2>1. ActType'
    BY <1>0, <1>4, Goes DEF OpenYaml, At, TypeOK, Pc, RegistryPc
  <2>2. lost' \in BOOLEAN /\ behind' \subseteq Actor
    BY <1>4, OverwriteType DEF OpenYaml, TypeOK
  <2> QED
    BY <1>4, <2>1, <2>2 DEF OpenYaml, TypeOK, files
<1>5. CASE WriteYaml(a)
  <2>1. act[a] \in Call
    BY <1>0, <1>5 DEF WriteYaml, At
  <2>2. ActType'
    BY <1>5, <2>1, Goes DEF WriteYaml, TypeOK, Pc, RegistryPc
  <2>3. yaml' \in SUBSET Component
    BY <1>5, <2>1 DEF WriteYaml, Call
  <2> QED
    BY <1>5, <2>2, <2>3 DEF WriteYaml, TypeOK, files, history
<1>6. CASE OpenBin(a)
  <2>1. ActType'
    BY <1>0, <1>6, Goes DEF OpenBin, At, TypeOK, Pc, RegistryPc
  <2>2. lost' \in BOOLEAN /\ behind' \subseteq Actor
    BY <1>6, OverwriteType DEF OpenBin, TypeOK
  <2> QED
    BY <1>6, <2>1, <2>2 DEF OpenBin, TypeOK, files
<1>7. CASE WriteBin(a)
  <2>1. act[a] \in Call
    BY <1>0, <1>7 DEF WriteBin, At
  <2>2. ActType'
    <3>1. CASE act' = [act EXCEPT ![a].again = FALSE, ![a].pc = "openBin"]
      BY <2>1, <3>1, Again DEF TypeOK, Pc, RegistryPc
    <3>2. CASE act[a].next # "end" /\ Goto(a, act[a].next)
      <4>1. act[a].next \in Pc
        BY <2>1 DEF Call, Pc
      <4> QED
        BY <2>1, <3>2, <4>1, Goes DEF TypeOK
    <3>3. CASE Return(a)
      BY <3>3, Returns DEF TypeOK
    <3> QED
      BY <1>7, <3>1, <3>2, <3>3 DEF WriteBin
  <2>3. bin' \in SUBSET Component /\ installed' \subseteq Component
    BY <1>7, <2>1 DEF WriteBin, TypeOK, Call
  <2> QED
    BY <1>7, <2>2, <2>3 DEF WriteBin, TypeOK, files
<1> QED
  BY <1>1, <1>2, <1>3, <1>4, <1>5, <1>6, <1>7 DEF RegistryStep

LEMMA InstallerTypes ==
  ASSUME TypeOK, NEW a \in Actor, InstallerStep(a)
  PROVE  TypeOK'
<1> USE DEF ActType
<1>0. act[a].pc # "idle" => act[a] \in Call
  BY InCall DEF TypeOK
<1>1. CASE Unpack(a)
  <2>1. act[a] \in Call
    BY <1>0, <1>1 DEF Unpack, At
  <2>2. ActType' /\ mixed' \subseteq Component
    <3>1. ASSUME NEW pc \in {"openCode", "readBin"}, Goto(a, pc) PROVE ActType'
      <4>1. pc \in Pc
        BY DEF Pc, RegistryPc
      <4> QED
        BY <2>1, <3>1, <4>1, Goes DEF TypeOK
    <3>2. ASSUME Abort(a) PROVE ActType' /\ mixed' \subseteq Component
      BY <2>1, <3>2, Returns DEF Abort, TypeOK, Call
    <3> QED
      BY <1>1, <3>1, <3>2 DEF Unpack, TypeOK
  <2>3. /\ dir' \in [Component -> BOOLEAN]
        /\ manifest' \in [Component -> Version \cup {Absent}]
    BY <1>1, <2>1 DEF Unpack, TypeOK, Call
  <2> QED
    BY <1>1, <2>2, <2>3 DEF Unpack, TypeOK, registry
<1>2. CASE FailUnpack(a)
  <2>1. act[a] \in Call
    BY <1>0, <1>2 DEF FailUnpack, At
  <2>2. ActType' /\ mixed' \subseteq Component
    BY <1>2, <2>1 DEF FailUnpack, Abort, Return, TypeOK, Call
  <2>3. dir' \in [Component -> BOOLEAN]
    BY <1>2, <2>1 DEF FailUnpack, TypeOK, Call
  <2> QED
    BY <1>2, <2>2, <2>3 DEF FailUnpack, TypeOK, registry
<1>3. CASE OpenCode(a)
  <2>1. act[a] \in Call
    BY <1>0, <1>3 DEF OpenCode, At
  <2>2. ActType' /\ mixed' \subseteq Component
    BY <1>3, <2>1 DEF OpenCode, Goto, Abort, Return, TypeOK, Call, Pc, RegistryPc
  <2>3. code' \in [Component -> Version \cup {Absent, Empty}]
    BY <1>3, <2>1 DEF OpenCode, TypeOK, Call
  <2> QED
    BY <1>3, <2>2, <2>3 DEF OpenCode, TypeOK, registry
<1>4. CASE WriteCode(a)
  <2>1. act[a] \in Call
    BY <1>0, <1>4 DEF WriteCode, At
  <2>2. ActType'
    BY <1>4, <2>1, Goes DEF WriteCode, TypeOK, Pc, RegistryPc
  <2>3. code' \in [Component -> Version \cup {Absent, Empty}]
    BY <1>4, <2>1 DEF WriteCode, TypeOK, Call
  <2> QED
    BY <1>4, <2>2, <2>3 DEF WriteCode, TypeOK, registry, history
<1>5. CASE Index(a)
  <2>1. act[a] \in Call
    BY <1>0, <1>5 DEF Index, At
  <2>2. ActType'
    <3>1. act[a].reg \cup {act[a].c} \in SUBSET Component
      BY <2>1 DEF Call
    <3>2. "openYaml" \in Pc
      BY DEF Pc, RegistryPc
    <3> QED
      BY <1>5, <2>1, <3>1, <3>2, Registers DEF Index, TypeOK
  <2>3. cache' \in [Component -> Version \cup {Absent, Foreign}]
    BY <1>5, <2>1 DEF Index, Cached, TypeOK, Call
  <2> QED
    BY <1>5, <2>2, <2>3 DEF Index, TypeOK, registry, history
<1>6. CASE Delete(a)
  <2>1. act[a] \in Call
    BY <1>0, <1>6 DEF Delete, At
  <2>2. ActType'
    BY <1>6, <2>1, Goes DEF Delete, TypeOK, Pc
  <2> QED
    BY <1>6, <2>1, <2>2 DEF Delete, TypeOK, Call, registry, history
<1>7. CASE DeleteDir(a)
  <2>1. act[a] \in Call
    BY <1>0, <1>7 DEF DeleteDir, At
  <2>2. ActType'
    BY <1>7, <2>1, Goes DEF DeleteDir, TypeOK, Pc, RegistryPc
  <2>3. dir' \in [Component -> BOOLEAN]
    BY <1>7, <2>1 DEF DeleteDir, TypeOK, Call
  <2> QED
    BY <1>7, <2>2, <2>3 DEF DeleteDir, TypeOK, registry
<1>8. CASE Deregister(a)
  <2>1. act[a] \in Call
    BY <1>0, <1>8 DEF Deregister, At
  <2>2. ActType'
    BY <1>8, <2>1 DEF Deregister, Return, TypeOK, Call, Pc, RegistryPc
  <2> QED
    BY <1>8, <2>2 DEF Deregister, TypeOK, files, registry
<1> QED
  BY <1>1, <1>2, <1>3, <1>4, <1>5, <1>6, <1>7, <1>8 DEF InstallerStep

LEMMA ExecutorTypes ==
  ASSUME TypeOK, NEW a \in Actor, ExecutorStep(a)
  PROVE  TypeOK'
<1> USE DEF ActType
<1>0. act[a].pc # "idle" => act[a] \in Call
  BY InCall DEF TypeOK
<1>1. CASE LoadManifest(a)
  <2>1. act[a] \in Call
    BY <1>0, <1>1 DEF LoadManifest, At
  <2>2. ActType'
    <3>1. manifest[act[a].c] \in Version \cup {Absent}
      BY <2>1 DEF TypeOK, Call
    <3>2. "code" \in Pc /\ "saveManifest" \in Pc
      BY DEF Pc
    <3> QED
      BY <1>1, <2>1, <3>1, <3>2, Limits, Returns DEF LoadManifest, TypeOK
  <2> QED
    BY <1>1, <2>2 DEF LoadManifest, TypeOK, files, registry, history
<1>2. CASE SaveManifest(a)
  <2>1. act[a] \in Call
    BY <1>0, <1>2 DEF SaveManifest, At
  <2>2. ActType'
    BY <1>2, <2>1, Goes DEF SaveManifest, TypeOK, Pc
  <2>3. cache' \in [Component -> Version \cup {Absent, Foreign}]
    BY <1>2, <2>1 DEF SaveManifest, TypeOK, Call
  <2> QED
    BY <1>2, <2>2, <2>3 DEF SaveManifest, TypeOK, registry, history
<1>3. CASE ReadCode(a)
  <2>1. act[a] \in Call
    BY <1>0, <1>3 DEF ReadCode, At
  <2>2. ActType'
    BY <1>3, <2>1 DEF ReadCode, Return, TypeOK, Call, Pc
  <2> QED
    BY <1>3, <2>2 DEF ReadCode, TypeOK, files, registry, history
<1>4. CASE Preload(a)
  <2>1. act[a] \in Call
    BY <1>0, <1>4 DEF Preload, At
  <2>2. ActType'
    BY <1>4, <2>1, Goes DEF Preload, TypeOK, Pc
  <2>3. [engine |-> act[a].id, code |-> act[a].read]
          \in [engine : 0..MaxCalls, code : Version \cup {Absent}]
        \/ ~Compiles(a)
    BY <2>1 DEF Call, Compiles
  <2>4. wasm' \in [Component -> [engine : 0..MaxCalls, code : Version \cup {Absent}]]
    BY <1>4, <2>1, <2>3 DEF Preload, TypeOK, Call
  <2> QED
    BY <1>4, <2>2, <2>4 DEF Preload, TypeOK, files, registry, history
<1>5. CASE Run(a)
  <2>1. act[a] \in Call
    BY <1>0, <1>5 DEF Run, At
  <2>2. wasm[act[a].c].code \in Version \cup {Absent}
    BY <2>1 DEF TypeOK, Call
  <2>3. ActType'
    BY <1>5, <2>1, <2>2 DEF Run, Return, TypeOK, Call, Pc
  <2> QED
    BY <1>5, <2>3 DEF Run, TypeOK, files, registry, history
<1>6. CASE End(a)
  <2>1. ActType'
    BY <1>6, Returns DEF End, TypeOK
  <2> QED
    BY <1>6, <2>1 DEF End, TypeOK, files, registry, history
<1> QED
  BY <1>1, <1>2, <1>3, <1>4, <1>5, <1>6 DEF ExecutorStep

LEMMA CrashTypes ==
  ASSUME ComponentAssumption, TypeOK, NEW killed \in SUBSET Actor, Crash(killed),
         wasm' \in [Component -> [engine : 0..MaxCalls, code : Version \cup {Absent}]]
  PROVE  TypeOK'
<1>1. ActType'
  BY DEF Crash, TypeOK, ActType
<1>2. \A b \in killed : act[b] # Idle => act[b].c \in Component
  BY DEF TypeOK, Call
<1>3. mixed' \subseteq Component
  BY <1>2 DEF Crash, TypeOK
<1>4. crashes' \in 0..MaxCrashes
  BY DEF Crash, TypeOK, ComponentAssumption
<1>5. lost' \in BOOLEAN /\ behind' \subseteq Actor
  BY DEF Crash, TypeOK
<1> QED
  BY <1>1, <1>3, <1>4, <1>5 DEF Crash, TypeOK, ActType, files, registry

LEMMA InitType == ComponentAssumption /\ Init => TypeOK
<1> SUFFICES ASSUME ComponentAssumption, Init PROVE TypeOK
  OBVIOUS
<1>1. 1 \in Version
  BY DEF ComponentAssumption, Version
<1>2. PICK names \in SUBSET Preinstalled :
       /\ dir = [c \in Component |-> c \in names]
       /\ manifest = [c \in Component |-> IF c \in names THEN 1 ELSE Absent]
       /\ cache = [c \in Component |-> IF c \in names THEN Foreign ELSE Absent]
       /\ code = [c \in Component |-> IF c \in names THEN 1 ELSE Absent]
       /\ yaml = IF names = {} THEN Absent ELSE names
       /\ bin = yaml
       /\ installed = names
  BY DEF Init
<1>3. names \subseteq Component
  BY DEF ComponentAssumption
<1>4. /\ act \in [Actor -> Call \cup {Idle}]
      /\ wasm \in [Component -> [engine : 0..MaxCalls, code : Version \cup {Absent}]]
      /\ calls \in 0..MaxCalls
      /\ crashes \in 0..MaxCrashes
  BY DEF Init, ComponentAssumption
<1> QED
  <2>1. yaml \in {Absent, Empty} \cup SUBSET Component /\ bin \in {Absent, Empty} \cup SUBSET Component
    BY <1>2, <1>3
  <2>2. dir \in [Component -> BOOLEAN] /\ manifest \in [Component -> Version \cup {Absent}]
    BY <1>1, <1>2
  <2>3. /\ cache \in [Component -> Version \cup {Absent, Foreign}]
        /\ code \in [Component -> Version \cup {Absent, Empty}]
    BY <1>1, <1>2
  <2> QED
    BY <1>2, <1>3, <1>4, <2>1, <2>2, <2>3 DEF Init, TypeOK

LEMMA NextType == ComponentAssumption /\ TypeOK /\ [Next]_vars => TypeOK'
<1> SUFFICES ASSUME ComponentAssumption, TypeOK, [Next]_vars PROVE TypeOK'
  OBVIOUS
<1>1. ASSUME NEW a \in Actor, NEW c \in Component, NEW op \in {"install", "remove", "execute"},
             Begin(a, op, c)
      PROVE  TypeOK'
  BY <1>1, BeginType
<1>2. ASSUME NEW a \in Actor, RegistryStep(a) \/ InstallerStep(a) \/ ExecutorStep(a)
      PROVE  TypeOK'
  BY <1>2, RegistryTypes, InstallerTypes, ExecutorTypes
<1>3. ASSUME NEW a \in Cli, CrashCli(a) PROVE TypeOK'
  <2>1. {a} \in SUBSET Actor
    BY DEF Actor
  <2> QED
    BY <1>3, <2>1, CrashTypes DEF CrashCli, TypeOK
<1>4. CASE CrashServer
  <2>1. Worker \in SUBSET Actor
    BY DEF Actor
  <2>2. wasm' \in [Component -> [engine : 0..MaxCalls, code : Version \cup {Absent}]]
    BY <1>4 DEF CrashServer, ComponentAssumption
  <2> QED
    BY <1>4, <2>1, <2>2, CrashTypes DEF CrashServer
<1>5. CASE UNCHANGED vars
  BY <1>5 DEF vars, files, registry, history, TypeOK
<1> QED
  BY <1>1, <1>2, <1>3, <1>4, <1>5 DEF Next, Actor

\* Every variable keeps its type: a call is in one of its points of the code,
\* the files hold a version or what is left of one, the registry names
\* components only.
THEOREM TypeCorrect == Spec => []TypeOK
<1>1. ComponentAssumption
  BY ComponentAssumption
<1> QED
  BY <1>1, InitType, NextType, PTL DEF Spec

-----------------------------------------------------------------------------
\* The calls have engines of their own.  What WASM_CACHE holds under the engine
\* of a call that has not returned is the component of the call and the code it
\* has read, and the call has been to preload_cache.

OwnEngine ==
  /\ \A a \in Actor : act[a] # Idle => act[a].id \in Nat /\ act[a].id <= calls
  /\ \A a, b \in Actor : act[a] # Idle /\ act[b] # Idle /\ a # b => act[a].id # act[b].id
  /\ \A c \in Component : wasm[c].engine \in Nat /\ wasm[c].engine <= calls

EngineOf(a, c) == act[a] # Idle /\ wasm[c].engine = act[a].id

OwnCode ==
  \A a \in Actor, c \in Component :
     EngineOf(a, c) => /\ c = act[a].c
                       /\ wasm[c].code = act[a].read
                       /\ act[a].pc \in {"run", "ran"}

RanOwn == \A a \in Actor : At(a, "ran") => act[a].ran = act[a].read

EngineInv == OwnEngine /\ OwnCode /\ RanOwn

\* A step of one call outside of preload_cache and the instantiation: it returns,
\* or goes on before them.
Elsewhere(a) ==
  /\ UNCHANGED <<wasm, calls>>
  /\ \A b \in Actor \ {a} : act'[b] = act[b]
  /\ act[a] # Idle
  /\ \/ act'[a] = Idle
     \/ /\ act'[a].id = act[a].id
        /\ act[a].pc \notin {"run", "ran"}
        /\ act'[a].pc \notin {"run", "ran"}

LEMMA ElsewhereOwn ==
  ASSUME TypeOK, EngineInv, NEW a \in Actor, Elsewhere(a)
  PROVE  EngineInv'
<1>1. OwnEngine'
  BY DEF EngineInv, OwnEngine, Elsewhere
<1>2. OwnCode'
  BY DEF EngineInv, OwnCode, EngineOf, Elsewhere
<1>3. RanOwn'
  BY DEF EngineInv, RanOwn, At, Elsewhere, Idle
<1> QED
  BY <1>1, <1>2, <1>3 DEF EngineInv

\* The forms of such a step.
LEMMA GoesElsewhere ==
  ASSUME ActType, NEW a \in Actor, act[a] \in Call, NEW pc \in Pc,
         act[a].pc \notin {"run", "ran"}, pc \notin {"run", "ran"},
         Goto(a, pc), UNCHANGED <<wasm, calls>>
  PROVE  Elsewhere(a)
BY IdleOrCall DEF ActType, Goto, Elsewhere, Call

LEMMA ReturnsElsewhere ==
  ASSUME ActType, NEW a \in Actor, act[a] \in Call, Return(a), UNCHANGED <<wasm, calls>>
  PROVE  Elsewhere(a)
BY IdleOrCall DEF ActType, Return, Elsewhere

LEMMA RegistryElsewhere ==
  ASSUME TypeOK, NEW a \in Actor, RegistryStep(a)
  PROVE  Elsewhere(a)
<1>0. ActType
  BY DEF TypeOK, ActType
<1>1. act[a] \in Call
  BY <1>0, InCall DEF RegistryStep, ReadBin, ReadYaml, Sync, OpenYaml, WriteYaml, OpenBin, WriteBin, At
<1>2. act[a] # Idle
  BY <1>0, <1>1, IdleOrCall
<1>3. act[a].op \in {"install", "remove", "execute"} /\ act[a].next \in {"index", "deregister", "lookup", "end"}
  BY <1>1 DEF Call
<1>4. Loaded(act[a].op) \in {"index", "deregister", "lookup"}
  BY <1>3 DEF Loaded
<1>5. CASE ReadBin(a)
  BY <1>0, <1>1, <1>2, <1>5 DEF ReadBin, Elsewhere, ActType, Call, At
<1>6. CASE ReadYaml(a)
  BY <1>0, <1>1, <1>2, <1>6 DEF ReadYaml, Elsewhere, ActType, Call, At
<1>7. CASE Sync(a)
  BY <1>0, <1>1, <1>2, <1>4, <1>7 DEF Sync, Elsewhere, ActType, Call, At
<1>8. CASE OpenYaml(a) \/ WriteYaml(a) \/ OpenBin(a)
  BY <1>0, <1>1, <1>8, GoesElsewhere DEF OpenYaml, WriteYaml, OpenBin, At, Pc, RegistryPc
<1>9. CASE WriteBin(a)
  <2>1. UNCHANGED <<wasm, calls>> /\ act[a].pc = "writeBin"
    BY <1>9 DEF WriteBin, At
  <2>2. CASE act' = [act EXCEPT ![a].again = FALSE, ![a].pc = "openBin"]
    BY <1>0, <1>1, <1>2, <2>1, <2>2 DEF Elsewhere, ActType, Call
  <2>3. CASE Goto(a, act[a].next)
    <3>1. act[a].next \in Pc
      BY <1>3 DEF Pc
    <3> QED
      BY <1>0, <1>1, <1>3, <2>1, <2>3, <3>1, GoesElsewhere
  <2>4. CASE Return(a)
    BY <1>0, <1>1, <2>1, <2>4, ReturnsElsewhere
  <2> QED
    BY <1>9, <2>2, <2>3, <2>4 DEF WriteBin
<1> QED
  BY <1>5, <1>6, <1>7, <1>8, <1>9 DEF RegistryStep

LEMMA InstallerElsewhere ==
  ASSUME TypeOK, NEW a \in Actor, InstallerStep(a)
  PROVE  Elsewhere(a)
<1>0. ActType
  BY DEF TypeOK, ActType
<1>1. act[a] \in Call /\ act[a].pc \notin {"run", "ran"}
  BY <1>0, InCall DEF InstallerStep, Unpack, FailUnpack, OpenCode, WriteCode,
     Index, Delete, DeleteDir, Deregister, At
<1>2. act[a] # Idle
  BY <1>0, <1>1, IdleOrCall
<1>3. UNCHANGED <<wasm, calls>>
  BY DEF InstallerStep, Unpack, FailUnpack, OpenCode, WriteCode,
     Index, Delete, DeleteDir, Deregister
<1>4. CASE Return(a) \/ Abort(a)
  BY <1>0, <1>1, <1>3, <1>4, ReturnsElsewhere DEF Abort
<1>5. ASSUME NEW pc \in {"openCode", "readBin", "writeCode", "deleteDir"}, Goto(a, pc)
      PROVE  Elsewhere(a)
  <2>1. pc \in Pc /\ pc \notin {"run", "ran"}
    BY DEF Pc, RegistryPc
  <2> QED
    BY <1>0, <1>1, <1>3, <1>5, <2>1, GoesElsewhere
<1>6. CASE Index(a)
  BY <1>0, <1>1, <1>2, <1>6 DEF Index, Elsewhere, ActType, Call
<1>7. CASE Deregister(a) /\ ~Return(a)
  BY <1>0, <1>1, <1>2, <1>7 DEF Deregister, Elsewhere, ActType, Call
<1> QED
  BY <1>4, <1>5, <1>6, <1>7
     DEF InstallerStep, Unpack, FailUnpack, OpenCode, WriteCode, Delete, DeleteDir

\* LoadManifest, SaveManifest, ReadCode and End.
LEMMA ExecutorElsewhere ==
  ASSUME TypeOK, NEW a \in Actor,
         LoadManifest(a) \/ SaveManifest(a) \/ ReadCode(a) \/ End(a)
  PROVE  Elsewhere(a)
<1>0. ActType
  BY DEF TypeOK, ActType
<1>1. act[a] \in Call
  BY <1>0, InCall DEF LoadManifest, SaveManifest, ReadCode, End, At
<1>2. act[a] # Idle
  BY <1>0, <1>1, IdleOrCall
<1>3. UNCHANGED <<wasm, calls>>
  BY DEF LoadManifest, SaveManifest, ReadCode, End
<1>4. CASE Return(a)
  BY <1>0, <1>1, <1>3, <1>4, ReturnsElsewhere
<1>5. CASE LoadManifest(a) /\ ~Return(a)
  BY <1>0, <1>1, <1>2, <1>5 DEF LoadManifest, Elsewhere, ActType, Call, At
<1>6. CASE SaveManifest(a)
  BY <1>0, <1>1, <1>3, <1>6, GoesElsewhere DEF SaveManifest, At, Pc
<1>7. CASE ReadCode(a) /\ ~Return(a)
  BY <1>0, <1>1, <1>2, <1>7 DEF ReadCode, Elsewhere, ActType, Call, At
<1> QED
  BY <1>4, <1>5, <1>6, <1>7 DEF End

\* A call begins with an engine that nothing has.
LEMMA BeginOwn ==
  ASSUME ComponentAssumption, TypeOK, EngineInv, NEW a \in Actor, NEW c \in Component,
         NEW op \in {"install", "remove", "execute"}, Begin(a, op, c)
  PROVE  EngineInv'
<1>1. act[a] = Idle
  BY IdleOrCall DEF Begin, At, TypeOK, ActType
<1>2. /\ act'[a].id = calls + 1
      /\ act'[a].pc \notin {"run", "ran"}
      /\ \A b \in Actor \ {a} : act'[b] = act[b]
      /\ calls' = calls + 1
      /\ calls \in Nat
      /\ wasm' = wasm
  <2>1. First(op) \notin {"run", "ran"}
    BY DEF First
  <2> QED
    BY <2>1, ComponentAssumption DEF Begin, TypeOK
<1>3. OwnEngine'
  BY <1>1, <1>2 DEF EngineInv, OwnEngine
<1>4. OwnCode'
  <2>1. \A d \in Component : wasm'[d].engine # act'[a].id
    BY <1>2 DEF EngineInv, OwnEngine
  <2> QED
    BY <1>2, <2>1 DEF EngineInv, OwnCode, EngineOf
<1>5. RanOwn'
  BY <1>2 DEF EngineInv, RanOwn, At
<1> QED
  BY <1>3, <1>4, <1>5 DEF EngineInv

\* preload_cache puts what the call has read under its component and its engine.
LEMMA PreloadOwn ==
  ASSUME TypeOK, EngineInv, NEW a \in Actor, Preload(a)
  PROVE  EngineInv'
<1>0. act[a] \in Call /\ act[a] # Idle
  BY InCall, IdleOrCall DEF Preload, At, TypeOK, ActType
<1>1. /\ act' = [act EXCEPT ![a].pc = "run"]
      /\ act'[a] = [act[a] EXCEPT !.pc = "run"]
      /\ \A b \in Actor \ {a} : act'[b] = act[b]
      /\ act[a].pc = "preload"
      /\ calls' = calls
      /\ act[a].c \in Component
  BY <1>0 DEF Preload, Goto, At, TypeOK, Call
<1>2. /\ act'[a] # Idle
      /\ act'[a].id = act[a].id /\ act'[a].c = act[a].c /\ act'[a].read = act[a].read
      /\ act'[a].pc = "run"
  BY <1>0, <1>1 DEF Call, Idle
<1>3. \A d \in Component \ {act[a].c} : wasm'[d] = wasm[d]
  BY DEF Preload, TypeOK
<1>4. \/ wasm'[act[a].c] = wasm[act[a].c]
      \/ wasm'[act[a].c] = [engine |-> act[a].id, code |-> act[a].read]
  BY <1>1 DEF Preload, TypeOK
<1>5. OwnEngine'
  BY <1>0, <1>1, <1>2, <1>3, <1>4 DEF EngineInv, OwnEngine
<1>6. ASSUME NEW b \in Actor, NEW d \in Component, EngineOf(b, d)'
      PROVE  d = act'[b].c /\ wasm'[d].code = act'[b].read /\ act'[b].pc \in {"run", "ran"}
  <2>1. act[b] # Idle /\ act[b].id = act'[b].id /\ act[b].c = act'[b].c /\ act[b].read = act'[b].read
    BY <1>0, <1>1, <1>2, <1>6 DEF EngineOf
  <2>2. CASE wasm'[d] = wasm[d]
    BY <1>1, <1>2, <1>6, <2>1, <2>2 DEF EngineInv, OwnCode, EngineOf
  <2>3. CASE d = act[a].c /\ wasm'[d] = [engine |-> act[a].id, code |-> act[a].read]
    <3>1. b = a
      BY <1>0, <1>6, <2>1, <2>3 DEF EngineInv, OwnEngine, EngineOf
    <3> QED
      BY <1>2, <2>3, <3>1
  <2> QED
    BY <1>3, <1>4, <2>2, <2>3
<1>7. OwnCode'
  BY <1>6 DEF OwnCode
<1>8. RanOwn'
  BY <1>1, <1>2 DEF EngineInv, RanOwn, At
<1> QED
  BY <1>5, <1>7, <1>8 DEF EngineInv

\* A module of the call's own engine is the call's own.
LEMMA RunOwn ==
  ASSUME TypeOK, EngineInv, NEW a \in Actor, Run(a)
  PROVE  EngineInv'
<1>0. act[a] \in Call /\ act[a] # Idle
  BY InCall, IdleOrCall DEF Run, At, TypeOK, ActType
<1>1. CASE ~SameEngine(a)
  BY <1>0, <1>1, ElsewhereOwn, ReturnsElsewhere DEF Run, TypeOK, ActType
<1>2. CASE SameEngine(a)
  <2>1. /\ act' = [act EXCEPT ![a].ran = wasm[act[a].c].code, ![a].pc = "ran"]
        /\ UNCHANGED <<wasm, calls>>
    BY <1>2 DEF Run
  <2>2. /\ \A b \in Actor \ {a} : act'[b] = act[b]
        /\ act'[a].id = act[a].id /\ act'[a].c = act[a].c /\ act'[a].read = act[a].read
        /\ act'[a].pc = "ran" /\ act'[a].ran = wasm[act[a].c].code
        /\ act'[a] # Idle
        /\ wasm' = wasm /\ calls' = calls
    BY <1>0, <2>1 DEF TypeOK, Call, Idle
  <2>3. wasm[act[a].c].code = act[a].read
    <3>1. act[a].c \in Component
      BY <1>0 DEF Call
    <3> QED
      BY <1>0, <1>2, <3>1 DEF SameEngine, EngineInv, OwnCode, EngineOf
  <2>4. OwnEngine'
    BY <1>0, <2>2 DEF EngineInv, OwnEngine
  <2>5. OwnCode'
    BY <1>0, <2>2 DEF EngineInv, OwnCode, EngineOf
  <2>6. RanOwn'
    BY <2>2, <2>3 DEF EngineInv, RanOwn, At
  <2> QED
    BY <2>4, <2>5, <2>6 DEF EngineInv
<1> QED
  BY <1>1, <1>2

\* With a process its calls end; with the server's goes the cache.
LEMMA CrashOwn ==
  ASSUME ComponentAssumption, TypeOK, EngineInv, NEW killed \in SUBSET Actor, Crash(killed),
         \/ wasm' = wasm
         \/ wasm' = [c \in Component |-> [engine |-> 0, code |-> Absent]] /\ 0 \in Nat
  PROVE  EngineInv'
<1>1. /\ \A a \in Actor : act'[a] = Idle \/ act'[a] = act[a]
      /\ calls' = calls
      /\ calls \in Nat
  BY DEF Crash, TypeOK, ComponentAssumption
<1>2. \A a \in Actor : act[a] # Idle => act[a].id > 0
  <2>1. \A a \in Actor : act[a] # Idle => act[a].id \in 1..MaxCalls
    BY IdleOrCall DEF TypeOK, ActType, Call
  <2> QED
    BY <2>1 DEF ComponentAssumption
<1>3. OwnEngine'
  BY <1>1 DEF EngineInv, OwnEngine
<1>4. OwnCode'
  BY <1>1, <1>2 DEF EngineInv, OwnCode, EngineOf
<1>5. RanOwn'
  BY <1>1 DEF EngineInv, RanOwn, At, Idle
<1> QED
  BY <1>3, <1>4, <1>5 DEF EngineInv

LEMMA InitOwn == ComponentAssumption /\ Init => EngineInv
<1> SUFFICES ASSUME ComponentAssumption, Init PROVE EngineInv
  OBVIOUS
<1>1. \A a \in Actor : act[a] = Idle
  BY DEF Init
<1>2. OwnEngine /\ OwnCode
  BY <1>1 DEF Init, OwnEngine, OwnCode, EngineOf
<1>3. RanOwn
  BY <1>1 DEF RanOwn, At, Idle
<1> QED
  BY <1>2, <1>3 DEF EngineInv

LEMMA NextOwn == ComponentAssumption /\ TypeOK /\ EngineInv /\ [Next]_vars => EngineInv'
<1> SUFFICES ASSUME ComponentAssumption, TypeOK, EngineInv, [Next]_vars PROVE EngineInv'
  OBVIOUS
<1>1. ASSUME NEW a \in Actor, NEW c \in Component, NEW op \in {"install", "remove", "execute"},
             Begin(a, op, c)
      PROVE  EngineInv'
  BY <1>1, BeginOwn
<1>2. ASSUME NEW a \in Actor, RegistryStep(a) \/ InstallerStep(a)
      PROVE  EngineInv'
  BY <1>2, RegistryElsewhere, InstallerElsewhere, ElsewhereOwn
<1>3. ASSUME NEW a \in Actor, ExecutorStep(a)
      PROVE  EngineInv'
  BY <1>3, ExecutorElsewhere, ElsewhereOwn, PreloadOwn, RunOwn DEF ExecutorStep
<1>4. ASSUME NEW a \in Cli, CrashCli(a) PROVE EngineInv'
  <2>1. {a} \in SUBSET Actor
    BY DEF Actor
  <2> QED
    BY <1>4, <2>1, CrashOwn DEF CrashCli
<1>5. CASE CrashServer
  <2>1. Worker \in SUBSET Actor
    BY DEF Actor
  <2> QED
    BY <1>5, <2>1, CrashOwn DEF CrashServer
<1>6. CASE UNCHANGED vars
  BY <1>6 DEF vars, EngineInv, OwnEngine, OwnCode, EngineOf, RanOwn, At
<1> QED
  BY <1>1, <1>2, <1>3, <1>4, <1>5, <1>6 DEF Next, Actor

\* An execution that succeeds has run the code it has read itself, whatever
\* other calls have put into WASM_CACHE under the same name: an engine made
\* for each call keeps the entries of the others from being instantiated.
THEOREM OwnModule == Spec => []RunsWhatItRead
<1>1. ComponentAssumption
  BY ComponentAssumption
<1>2. EngineInv => RunsWhatItRead
  BY DEF EngineInv, RanOwn, RunsWhatItRead, Actor
<1> QED
  BY <1>1, <1>2, InitType, NextType, InitOwn, NextOwn, PTL DEF Spec

-----------------------------------------------------------------------------
\* The limits of an execution.  A component that is not mixed is used by one
\* call at a time, and none was cut short; so what its cached manifest can be
\* taken for differs from the manifest only while an installation has unpacked
\* the one and not yet dropped the other.

SavePc == {"openYaml", "writeYaml", "openBin", "writeBin"}
LoadPc == {"readBin", "readYaml", "sync"}

\* An installation that has unpacked the manifest and has still to cache it.
Unsettled(call) ==
  /\ call # Idle
  /\ call.op = "install"
  /\ \/ call.pc \in {"openCode", "writeCode", "index"} \cup LoadPc
     \/ call.pc \in SavePc /\ call.next = "index"

\* An execution that has its limits.
Limited(call) == call.pc \in {"saveManifest", "code", "preload", "run"}

\* A call goes through the points of its own operation.
OwnPath(call) ==
  /\ call.pc \in SavePc => call.next \in {Loaded(call.op), "end"}
  /\ call.pc \in {"download", "openCode", "writeCode", "index"} => call.op = "install"
  /\ call.pc \in {"delete", "deleteDir", "deregister"} => call.op = "remove"
  /\ call.pc = "lookup" \/ Limited(call) => call.op = "execute"

OwnPaths == \A a \in Actor : act[a] # Idle => OwnPath(act[a])

UsedAlone ==
  \A a, b \in Actor :
     a # b /\ act[a] # Idle /\ act[b] # Idle /\ act[a].c = act[b].c => act[a].c \in mixed

CacheCurrent ==
  \A c \in Component : c \notin mixed /\ cache[c] \in Version /\ cache[c] # manifest[c]
    => \E a \in Actor : Unsettled(act[a]) /\ act[a].c = c

Unpacked ==
  \A a \in Actor : Unsettled(act[a]) /\ act[a].c \notin mixed => manifest[act[a].c] # Absent

LimitsHold ==
  \A a \in Actor : Limited(act[a]) /\ act[a].c \notin mixed => act[a].limits = manifest[act[a].c]

LimitInv == OwnPaths /\ UsedAlone /\ CacheCurrent /\ Unpacked /\ LimitsHold

\* A step of one call: it changes the manifest of its own component only, and
\* leaves it in order if no other call has used that.
OwnManifest(a) ==
  LET c == act[a].c
  IN  /\ act[a] # Idle
      /\ c \in Component
      /\ mixed \subseteq mixed'
      /\ \A b \in Actor \ {a} : act'[b] = act[b]
      /\ \A d \in Component \ {c} : manifest'[d] = manifest[d] /\ cache'[d] = cache[d]
      /\ act'[a] = Idle \/ (act'[a] # Idle /\ act'[a].c = c /\ OwnPath(act'[a]))
      /\ c \notin mixed' =>
           /\ cache'[c] \in Version /\ cache'[c] # manifest'[c] => Unsettled(act'[a])
           /\ Unsettled(act'[a]) => manifest'[c] # Absent
           /\ Limited(act'[a]) => act'[a].limits = manifest'[c]

LEMMA OwnManifestLimits ==
  ASSUME TypeOK, LimitInv, NEW a \in Actor, OwnManifest(a)
  PROVE  LimitInv'
<1>0. \A b \in Actor : act[b] # Idle => act[b].c \in Component
  BY IdleOrCall DEF TypeOK, ActType, Call
<1>1. \A b \in Actor \ {a} : act[b] # Idle /\ act[b].c = act[a].c => act[a].c \in mixed'
  BY DEF OwnManifest, LimitInv, UsedAlone
<1>2. OwnPaths'
  BY DEF LimitInv, OwnPaths, OwnManifest
<1>3. UsedAlone'
  BY DEF LimitInv, UsedAlone, OwnManifest
<1>4. CacheCurrent'
  <2> SUFFICES ASSUME NEW d \in Component, d \notin mixed', cache'[d] \in Version,
                      cache'[d] # manifest'[d]
               PROVE  \E b \in Actor : Unsettled(act'[b]) /\ act'[b].c = d
    BY DEF CacheCurrent
  <2>1. CASE d = act[a].c
    <3>1. Unsettled(act'[a])
      BY <2>1 DEF OwnManifest
    <3>2. act'[a].c = d
      BY <2>1, <3>1 DEF OwnManifest, Unsettled
    <3> QED
      BY <3>1, <3>2
  <2>2. CASE d # act[a].c
    <3>1. PICK b \in Actor : Unsettled(act[b]) /\ act[b].c = d
      BY <2>2 DEF OwnManifest, LimitInv, CacheCurrent
    <3>2. Unsettled(act'[b]) /\ act'[b].c = d
      BY <2>2, <3>1 DEF OwnManifest
    <3> QED
      BY <3>2
  <2> QED
    BY <2>1, <2>2
<1>5. Unpacked'
  <2> SUFFICES ASSUME NEW b \in Actor, Unsettled(act'[b]), act'[b].c \notin mixed'
               PROVE  manifest'[act'[b].c] # Absent
    BY DEF Unpacked
  <2>1. CASE b = a
    BY <2>1 DEF OwnManifest, Unsettled
  <2>2. CASE b # a
    <3>1. act'[b] = act[b] /\ act[b] # Idle
      BY <2>2 DEF OwnManifest, Unsettled
    <3>2. act[b].c # act[a].c
      BY <1>1, <2>2, <3>1
    <3> QED
      BY <1>0, <3>1, <3>2 DEF OwnManifest, LimitInv, Unpacked
  <2> QED
    BY <2>1, <2>2
<1>6. LimitsHold'
  <2> SUFFICES ASSUME NEW b \in Actor, Limited(act'[b]), act'[b].c \notin mixed'
               PROVE  act'[b].limits = manifest'[act'[b].c]
    BY DEF LimitsHold
  <2>1. act'[b] # Idle
    BY DEF Limited, Idle
  <2>2. CASE b = a
    BY <2>1, <2>2 DEF OwnManifest
  <2>3. CASE b # a
    <3>1. act'[b] = act[b] /\ act[b] # Idle
      BY <2>1, <2>3 DEF OwnManifest
    <3>2. act[b].c # act[a].c
      BY <1>1, <2>3, <3>1
    <3> QED
      BY <1>0, <3>1, <3>2 DEF OwnManifest, LimitInv, LimitsHold
  <2> QED
    BY <2>2, <2>3
<1> QED
  BY <1>2, <1>3, <1>4, <1>5, <1>6 DEF LimitInv

\* A step of one call that leaves the manifests and their caches alone.
Unmanifested(a) ==
  /\ UNCHANGED <<manifest, cache>>
  /\ mixed \subseteq mixed'
  /\ \A b \in Actor \ {a} : act'[b] = act[b]
  /\ act[a] # Idle
  /\ \/ /\ act'[a] = Idle
        /\ Unsettled(act[a]) => act[a].c \in mixed'
     \/ /\ act'[a] # Idle
        /\ act'[a].c = act[a].c
        /\ OwnPath(act'[a])
        /\ Unsettled(act'[a]) <=> Unsettled(act[a])
        /\ Limited(act'[a]) => Limited(act[a]) /\ act'[a].limits = act[a].limits

LEMMA UnmanifestedLimits ==
  ASSUME TypeOK, LimitInv, NEW a \in Actor, Unmanifested(a)
  PROVE  LimitInv'
<1>1. act[a].c \in Component
  BY IdleOrCall DEF Unmanifested, TypeOK, ActType, Call
<1>2. ASSUME act[a].c \notin mixed', cache[act[a].c] \in Version, cache[act[a].c] # manifest[act[a].c]
      PROVE  Unsettled(act'[a])
  <2>1. PICK b \in Actor : Unsettled(act[b]) /\ act[b].c = act[a].c
    BY <1>1, <1>2 DEF Unmanifested, LimitInv, CacheCurrent
  <2>2. b = a
    BY <1>2, <2>1 DEF Unmanifested, LimitInv, UsedAlone, Unsettled
  <2> QED
    BY <1>2, <2>1, <2>2 DEF Unmanifested
<1>3. ASSUME act[a].c \notin mixed', Unsettled(act'[a]) PROVE manifest[act[a].c] # Absent
  BY <1>3 DEF Unmanifested, LimitInv, Unpacked, Unsettled
<1>4. ASSUME act[a].c \notin mixed', Limited(act'[a]) PROVE act'[a].limits = manifest[act[a].c]
  BY <1>4 DEF Unmanifested, LimitInv, LimitsHold, Limited, Idle
<1>5. OwnManifest(a)
  BY <1>1, <1>2, <1>3, <1>4 DEF OwnManifest, Unmanifested
<1> QED
  BY <1>5, OwnManifestLimits

LEMMA RegistryLimits ==
  ASSUME TypeOK, LimitInv, NEW a \in Actor, RegistryStep(a)
  PROVE  LimitInv'
<1>0. ActType
  BY DEF TypeOK, ActType
<1>1. act[a] \in Call
  BY <1>0, InCall DEF RegistryStep, ReadBin, ReadYaml, Sync, OpenYaml, WriteYaml, OpenBin, WriteBin, At
<1>2. act[a] # Idle /\ OwnPath(act[a])
  BY <1>0, <1>1, IdleOrCall DEF LimitInv, OwnPaths
<1>3. UNCHANGED <<manifest, cache, mixed>>
  BY DEF RegistryStep, ReadBin, ReadYaml, Sync, OpenYaml, WriteYaml, OpenBin, WriteBin, files, history
<1>4. act[a].op \in {"install", "remove", "execute"}
  BY <1>1 DEF Call
<1>5. CASE ReadBin(a)
  BY <1>0, <1>1, <1>2, <1>3, <1>5, UnmanifestedLimits
     DEF ReadBin, At, ActType, Call, Unmanifested, Unsettled, Limited, OwnPath, LoadPc, SavePc, Idle
<1>11. Loaded(act[a].op) = "index" <=> act[a].op = "install"
  BY <1>4 DEF Loaded
<1>12. Loaded(act[a].op) = "lookup" <=> act[a].op = "execute"
  BY <1>4 DEF Loaded
<1>13. Loaded(act[a].op) = "deregister" <=> act[a].op = "remove"
  BY <1>4 DEF Loaded
<1>14. Loaded(act[a].op) \in {"index", "deregister", "lookup"}
  BY <1>4 DEF Loaded
<1>6. CASE ReadYaml(a)
  <2>1. /\ act[a].pc = "readYaml"
        /\ \A b \in Actor \ {a} : act'[b] = act[b]
        /\ act'[a].op = act[a].op /\ act'[a].c = act[a].c
        /\ act'[a].next = Loaded(act[a].op)
        /\ act'[a].pc \in {"openYaml", "sync"}
    BY <1>0, <1>1, <1>6 DEF ReadYaml, At, ActType, Call
  <2> QED
    BY <1>2, <1>3, <1>11, <2>1, UnmanifestedLimits
       DEF Unmanifested, Unsettled, Limited, OwnPath, LoadPc, SavePc, Idle
<1>7. CASE Sync(a)
  <2>1. /\ act[a].pc = "sync"
        /\ \A b \in Actor \ {a} : act'[b] = act[b]
        /\ act'[a].op = act[a].op /\ act'[a].c = act[a].c
        /\ act'[a].next = Loaded(act[a].op)
        /\ act'[a].pc \in {"openYaml", "openBin", Loaded(act[a].op)}
    BY <1>0, <1>1, <1>7 DEF Sync, At, ActType, Call
  <2> QED
    BY <1>2, <1>3, <1>11, <1>12, <1>13, <1>14, <2>1, UnmanifestedLimits
       DEF Unmanifested, Unsettled, Limited, OwnPath, LoadPc, SavePc, Idle
<1>8. CASE OpenYaml(a) \/ WriteYaml(a) \/ OpenBin(a)
  BY <1>0, <1>1, <1>2, <1>3, <1>4, <1>8, UnmanifestedLimits
     DEF OpenYaml, WriteYaml, OpenBin, Goto, At, ActType, Call, Unmanifested, Unsettled, Limited,
         OwnPath, LoadPc, SavePc, Idle
<1>9. CASE WriteBin(a)
  <2>1. CASE act' = [act EXCEPT ![a].again = FALSE, ![a].pc = "openBin"]
    BY <1>0, <1>1, <1>2, <1>3, <1>4, <1>9, <2>1, UnmanifestedLimits
       DEF WriteBin, At, ActType, Call, Unmanifested, Unsettled, Limited, OwnPath, LoadPc, SavePc, Idle
  <2>2. CASE act[a].next # "end" /\ Goto(a, act[a].next)
    BY <1>0, <1>1, <1>2, <1>3, <1>4, <1>9, <2>2, UnmanifestedLimits
       DEF WriteBin, Goto, At, ActType, Call, Unmanifested, Unsettled, Limited, OwnPath, LoadPc, SavePc,
           Loaded, Idle
  <2>3. CASE act[a].next = "end" /\ Return(a)
    BY <1>0, <1>1, <1>2, <1>3, <1>4, <1>9, <2>3, UnmanifestedLimits
       DEF WriteBin, Return, At, ActType, Call, Unmanifested, Unsettled, LoadPc, SavePc
  <2> QED
    BY <1>9, <2>1, <2>2, <2>3 DEF WriteBin
<1> QED
  BY <1>5, <1>6, <1>7, <1>8, <1>9 DEF RegistryStep

LEMMA InstallerLimits ==
  ASSUME ComponentAssumption, TypeOK, LimitInv, NEW a \in Actor, InstallerStep(a)
  PROVE  LimitInv'
<1>0. ActType
  BY DEF TypeOK, ActType
<1>1. act[a] \in Call
  BY <1>0, InCall DEF InstallerStep, Unpack, FailUnpack, OpenCode, WriteCode,
     Index, Delete, DeleteDir, Deregister, At
<1>2. act[a] # Idle /\ OwnPath(act[a]) /\ act[a].c \in Component
  BY <1>0, <1>1, IdleOrCall DEF LimitInv, OwnPaths, Call
<1>3. /\ manifest \in [Component -> Version \cup {Absent}]
      /\ cache \in [Component -> Version \cup {Absent, Foreign}]
      /\ act[a].v \in Version
      /\ Absent \notin Version /\ Foreign \notin Version
  BY <1>1 DEF TypeOK, ComponentAssumption, Call
<1>4. CASE Unpack(a)
  <2>1. /\ \A d \in Component \ {act[a].c} : manifest'[d] = manifest[d]
        /\ manifest'[act[a].c] = act[a].v
        /\ cache' = cache /\ act[a].pc = "download"
    BY <1>2, <1>3, <1>4 DEF Unpack, At
  <2>2. CASE Abort(a)
    <3>1. act'[a] = Idle /\ act[a].c \in mixed' /\ mixed \subseteq mixed' /\ \A b \in Actor \ {a} : act'[b] = act[b]
      BY <1>0, <2>2 DEF Abort, Return, ActType
    <3> QED
      BY <1>2, <2>1, <3>1, OwnManifestLimits DEF OwnManifest
  <2>3. ASSUME NEW pc \in {"openCode", "readBin"}, Goto(a, pc), UNCHANGED mixed
        PROVE  LimitInv'
    <3>1. /\ \A b \in Actor \ {a} : act'[b] = act[b]
          /\ act'[a].c = act[a].c /\ act'[a].op = act[a].op /\ act'[a].pc = pc
      BY <1>0, <1>1, <2>3 DEF Goto, ActType, Call
    <3>2. Unsettled(act'[a]) /\ OwnPath(act'[a]) /\ ~Limited(act'[a]) /\ act'[a] # Idle
      BY <1>2, <2>1, <3>1 DEF Unsettled, OwnPath, Limited, LoadPc, SavePc, Idle
    <3> QED
      BY <1>2, <1>3, <2>1, <2>3, <3>1, <3>2, OwnManifestLimits DEF OwnManifest
  <2> QED
    BY <1>4, <2>2, <2>3 DEF Unpack
<1>5. CASE FailUnpack(a)
  BY <1>0, <1>2, <1>5, UnmanifestedLimits DEF FailUnpack, Abort, Return, ActType, Unmanifested
<1>6. CASE OpenCode(a)
  <2>1. CASE Abort(a)
    BY <1>0, <1>2, <1>6, <2>1, UnmanifestedLimits DEF OpenCode, Abort, Return, ActType, Unmanifested
  <2>2. CASE Goto(a, "writeCode") /\ UNCHANGED mixed
    BY <1>0, <1>1, <1>2, <1>6, <2>2, UnmanifestedLimits
       DEF OpenCode, Goto, At, ActType, Call, Unmanifested, Unsettled, Limited, OwnPath, LoadPc, SavePc, Idle
  <2> QED
    BY <1>6, <2>1, <2>2 DEF OpenCode
<1>7. CASE WriteCode(a)
  BY <1>0, <1>1, <1>2, <1>7, UnmanifestedLimits
     DEF WriteCode, Goto, At, ActType, Call, Unmanifested, Unsettled, Limited, OwnPath, LoadPc, SavePc,
         Idle, history
<1>8. CASE Index(a)
  <2>1. /\ \A b \in Actor \ {a} : act'[b] = act[b]
        /\ act'[a].c = act[a].c /\ act'[a].op = act[a].op
        /\ act'[a].next = "end" /\ act'[a].pc = "openYaml"
        /\ act[a].pc = "index"
        /\ manifest' = manifest /\ mixed' = mixed
        /\ \A d \in Component \ {act[a].c} : cache'[d] = cache[d]
        /\ cache'[act[a].c] = Cached(act[a].c)
    BY <1>0, <1>1, <1>2, <1>3, <1>8 DEF Index, At, ActType, Call, history
  <2>2. act'[a] # Idle /\ OwnPath(act'[a]) /\ ~Unsettled(act'[a]) /\ ~Limited(act'[a])
    BY <2>1 DEF Unsettled, OwnPath, Limited, LoadPc, SavePc, Idle
  <2>3. Unsettled(act[a])
    BY <1>2, <2>1 DEF Unsettled, OwnPath
  <2>4. act[a].c \notin mixed => cache'[act[a].c] = Foreign
    BY <2>1, <2>3 DEF LimitInv, Unpacked, Cached
  <2> QED
    BY <1>2, <1>3, <2>1, <2>2, <2>4, OwnManifestLimits DEF OwnManifest
<1>9. CASE Delete(a)
  <2>1. /\ \A b \in Actor \ {a} : act'[b] = act[b]
        /\ act'[a].c = act[a].c /\ act'[a].pc = "deleteDir" /\ act'[a].op = act[a].op
        /\ act[a].pc = "delete"
        /\ mixed' = mixed
        /\ \A d \in Component \ {act[a].c} : manifest'[d] = manifest[d] /\ cache'[d] = cache[d]
        /\ manifest'[act[a].c] = Absent /\ cache'[act[a].c] = Absent
    BY <1>0, <1>1, <1>2, <1>3, <1>9 DEF Delete, Goto, At, ActType, Call, history
  <2>2. act'[a] # Idle /\ OwnPath(act'[a]) /\ ~Unsettled(act'[a]) /\ ~Limited(act'[a])
    BY <1>2, <2>1 DEF Unsettled, OwnPath, Limited, LoadPc, SavePc, Idle
  <2> QED
    BY <1>2, <1>3, <2>1, <2>2, OwnManifestLimits DEF OwnManifest
<1>10. CASE DeleteDir(a)
  <2>1. act[a].op # "install"
    BY <1>2, <1>10 DEF DeleteDir, At, OwnPath
  <2> QED
    BY <1>0, <1>1, <1>2, <1>10, <2>1, UnmanifestedLimits
       DEF DeleteDir, Goto, At, ActType, Call, Unmanifested, Unsettled, Limited, OwnPath, LoadPc, SavePc, Idle
<1>11. CASE Deregister(a)
  <2>1. CASE Return(a)
    BY <1>0, <1>2, <1>11, <2>1, UnmanifestedLimits
       DEF Deregister, At, Return, ActType, Unmanifested, Unsettled, LoadPc, SavePc, files
  <2>2. CASE act' = [act EXCEPT ![a].reg = act[a].reg \ {act[a].c}, ![a].next = "end", ![a].pc = "openYaml"]
    BY <1>0, <1>1, <1>2, <1>11, <2>2, UnmanifestedLimits
       DEF Deregister, At, ActType, Call, Unmanifested, Unsettled, Limited, OwnPath, LoadPc, SavePc, Idle, files
  <2> QED
    BY <1>11, <2>1, <2>2 DEF Deregister
<1> QED
  BY <1>4, <1>5, <1>6, <1>7, <1>8, <1>9, <1>10, <1>11 DEF InstallerStep

\* Where no other call has used the component, a cached manifest that can be
\* taken is that of the manifest.
LEMMA CacheTaken ==
  ASSUME LimitInv, NEW a \in Actor, act[a] # Idle, act[a].op # "install", act[a].c \in Component,
         act[a].c \notin mixed, cache[act[a].c] \in Version
  PROVE  cache[act[a].c] = manifest[act[a].c]
<1> SUFFICES ASSUME cache[act[a].c] # manifest[act[a].c] PROVE FALSE
  OBVIOUS
<1>1. PICK b \in Actor : Unsettled(act[b]) /\ act[b].c = act[a].c
  BY DEF LimitInv, CacheCurrent
<1> QED
  BY <1>1 DEF LimitInv, UsedAlone, Unsettled

LEMMA ExecutorLimits ==
  ASSUME ComponentAssumption, TypeOK, LimitInv, NEW a \in Actor, ExecutorStep(a)
  PROVE  LimitInv'
<1>0. ActType
  BY DEF TypeOK, ActType
<1>1. act[a] \in Call
  BY <1>0, InCall DEF ExecutorStep, LoadManifest, SaveManifest, ReadCode, Preload, Run, End, At
<1>2. act[a] # Idle /\ OwnPath(act[a]) /\ act[a].c \in Component
  BY <1>0, <1>1, IdleOrCall DEF LimitInv, OwnPaths, Call
<1>3. /\ cache \in [Component -> Version \cup {Absent, Foreign}]
      /\ mixed' = mixed
  BY DEF TypeOK, ExecutorStep, LoadManifest, SaveManifest, ReadCode, Preload, Run, End, history
<1>4. act[a].pc \in {"lookup", "saveManifest", "code", "preload", "run", "ran"}
  BY DEF ExecutorStep, LoadManifest, SaveManifest, ReadCode, Preload, Run, End, At
<1>5. ~Unsettled(act[a])
  BY <1>4 DEF Unsettled, LoadPc, SavePc
<1>6. act[a].pc # "ran" => act[a].op # "install"
  BY <1>2, <1>4 DEF OwnPath, Limited
<1>7. CASE Return(a) /\ UNCHANGED files
  BY <1>0, <1>2, <1>3, <1>5, <1>7, UnmanifestedLimits DEF Return, ActType, Unmanifested, files
<1>8. CASE LoadManifest(a) /\ ~Return(a)
  <2>1. PICK limits \in {cache[act[a].c], manifest[act[a].c]}, pc \in {"code", "saveManifest"} :
          /\ act' = [act EXCEPT ![a].limits = limits, ![a].pc = pc]
          /\ limits \in Version \/ limits = manifest[act[a].c]
    BY <1>8 DEF LoadManifest
  <2>2. /\ \A b \in Actor \ {a} : act'[b] = act[b]
        /\ act'[a].c = act[a].c /\ act'[a].op = act[a].op
        /\ act'[a].limits = limits /\ act'[a].pc = pc
        /\ act[a].pc = "lookup"
        /\ manifest' = manifest /\ cache' = cache
    BY <1>0, <1>1, <1>8, <2>1 DEF LoadManifest, At, ActType, Call, files
  <2>3. act'[a] # Idle /\ OwnPath(act'[a]) /\ ~Unsettled(act'[a])
    BY <1>2, <2>2 DEF Unsettled, OwnPath, Limited, LoadPc, SavePc, Idle
  <2>4. act[a].c \notin mixed /\ cache[act[a].c] \in Version => cache[act[a].c] = manifest[act[a].c]
    BY <1>2, <1>6, <2>2, CacheTaken
  <2>5. act[a].c \notin mixed => limits = manifest[act[a].c]
    BY <2>1, <2>4
  <2> QED
    BY <1>2, <1>3, <2>2, <2>3, <2>4, <2>5, OwnManifestLimits DEF OwnManifest
<1>9. CASE SaveManifest(a)
  <2>1. /\ \A b \in Actor \ {a} : act'[b] = act[b]
        /\ act'[a].c = act[a].c /\ act'[a].op = act[a].op
        /\ act'[a].limits = act[a].limits /\ act'[a].pc = "code"
        /\ act[a].pc = "saveManifest"
        /\ manifest' = manifest
        /\ \A d \in Component \ {act[a].c} : cache'[d] = cache[d]
        /\ cache'[act[a].c] \in {act[a].limits, cache[act[a].c]}
    BY <1>0, <1>1, <1>2, <1>3, <1>9 DEF SaveManifest, Goto, At, ActType, Call
  <2>2. act'[a] # Idle /\ OwnPath(act'[a]) /\ ~Unsettled(act'[a])
    BY <1>2, <2>1 DEF Unsettled, OwnPath, Limited, LoadPc, SavePc, Idle
  <2>3. act[a].c \notin mixed /\ cache[act[a].c] \in Version => cache[act[a].c] = manifest[act[a].c]
    BY <1>2, <1>6, <2>1, CacheTaken
  <2>4. act[a].c \notin mixed => act[a].limits = manifest[act[a].c]
    BY <2>1 DEF LimitInv, LimitsHold, Limited
  <2> QED
    BY <1>2, <1>3, <2>1, <2>2, <2>3, <2>4, OwnManifestLimits DEF OwnManifest
<1>10. CASE ReadCode(a) /\ ~Return(a)
  BY <1>0, <1>1, <1>2, <1>3, <1>5, <1>10, UnmanifestedLimits
     DEF ReadCode, At, ActType, Call, Unmanifested, Unsettled, Limited, OwnPath, LoadPc, SavePc, Idle, files
<1>11. CASE Preload(a)
  BY <1>0, <1>1, <1>2, <1>3, <1>5, <1>11, UnmanifestedLimits
     DEF Preload, Goto, At, ActType, Call, Unmanifested, Unsettled, Limited, OwnPath, LoadPc, SavePc,
         Idle, files
<1>12. CASE Run(a) /\ ~Return(a)
  BY <1>0, <1>1, <1>2, <1>3, <1>5, <1>12, UnmanifestedLimits
     DEF Run, At, ActType, Call, Unmanifested, Unsettled, Limited, OwnPath, LoadPc, SavePc, Idle, files
<1> QED
  BY <1>7, <1>8, <1>9, <1>10, <1>11, <1>12 DEF ExecutorStep, LoadManifest, ReadCode, Run, End

\* A call that begins beside another makes the component mixed.
LEMMA BeginLimits ==
  ASSUME TypeOK, LimitInv, NEW a \in Actor, NEW c \in Component,
         NEW op \in {"install", "remove", "execute"}, Begin(a, op, c)
  PROVE  LimitInv'
<1>0. ActType
  BY DEF TypeOK, ActType
<1>1. act[a] = Idle
  BY <1>0, IdleOrCall DEF Begin, At
<1>2. /\ \A b \in Actor \ {a} : act'[b] = act[b]
      /\ act'[a].c = c /\ act'[a].op = op /\ act'[a].pc = First(op)
      /\ manifest' = manifest /\ cache' = cache /\ mixed \subseteq mixed'
  BY <1>0 DEF Begin, ActType, files
<1>3. act'[a] # Idle /\ OwnPath(act'[a]) /\ ~Limited(act'[a]) /\ ~Unsettled(act'[a])
  BY <1>2 DEF First, Unsettled, OwnPath, Limited, LoadPc, SavePc, Idle
<1>4. \A b \in Actor : act[b] # Idle /\ act[b].c = c => c \in mixed'
  BY DEF Begin, Using
<1>5. \A b \in Actor : Unsettled(act[b]) \/ Limited(act[b]) => b # a
  BY <1>1 DEF Unsettled, Limited, Idle
<1>6. \A b \in Actor : Unsettled(act'[b]) \/ Limited(act'[b]) => act'[b] = act[b]
  BY <1>2, <1>3
<1>7. OwnPaths'
  BY <1>2, <1>3 DEF LimitInv, OwnPaths
<1>8. UsedAlone'
  BY <1>2, <1>4 DEF LimitInv, UsedAlone
<1>9. CacheCurrent'
  BY <1>2, <1>5 DEF LimitInv, CacheCurrent
<1>10. Unpacked' /\ LimitsHold'
  BY <1>2, <1>6 DEF LimitInv, Unpacked, LimitsHold
<1> QED
  BY <1>7, <1>8, <1>9, <1>10 DEF LimitInv

\* So does the end of a call that is killed.
LEMMA CrashLimits ==
  ASSUME TypeOK, LimitInv, NEW killed \in SUBSET Actor, Crash(killed)
  PROVE  LimitInv'
<1>1. /\ \A b \in Actor : act'[b] = act[b] \/ (act'[b] = Idle /\ (act[b] # Idle => act[b].c \in mixed'))
      /\ manifest' = manifest /\ cache' = cache /\ mixed \subseteq mixed'
  BY DEF Crash, files
<1>2. \A b \in Actor : act'[b] # Idle => act'[b] = act[b]
  BY <1>1
<1>3. \A b \in Actor : Unsettled(act'[b]) \/ Limited(act'[b]) => act'[b] = act[b]
  BY <1>2 DEF Unsettled, Limited, Idle
<1>4. OwnPaths' /\ UsedAlone'
  BY <1>1, <1>2 DEF LimitInv, OwnPaths, UsedAlone
<1>5. CacheCurrent'
  <2> SUFFICES ASSUME NEW c \in Component, c \notin mixed', cache[c] \in Version,
                      cache[c] # manifest[c]
               PROVE  \E b \in Actor : Unsettled(act'[b]) /\ act'[b].c = c
    BY <1>1 DEF CacheCurrent
  <2>1. PICK b \in Actor : Unsettled(act[b]) /\ act[b].c = c
    BY <1>1 DEF LimitInv, CacheCurrent
  <2>2. act'[b] = act[b]
    BY <1>1, <2>1 DEF Unsettled
  <2> QED
    BY <2>1, <2>2
<1>6. Unpacked' /\ LimitsHold'
  BY <1>1, <1>3 DEF LimitInv, Unpacked, LimitsHold
<1> QED
  BY <1>4, <1>5, <1>6 DEF LimitInv

LEMMA InitLimits == ComponentAssumption /\ Init => LimitInv
<1> SUFFICES ASSUME ComponentAssumption, Init PROVE LimitInv
  OBVIOUS
<1>1. \A a \in Actor : act[a] = Idle
  BY DEF Init
<1>2. \A c \in Component : cache[c] \in {Absent, Foreign}
  BY DEF Init
<1>3. Absent \notin Version /\ Foreign \notin Version
  BY DEF ComponentAssumption
<1>4. OwnPaths /\ UsedAlone /\ CacheCurrent
  BY <1>1, <1>2, <1>3 DEF OwnPaths, UsedAlone, CacheCurrent
<1>5. Unpacked /\ LimitsHold
  BY <1>1 DEF Unpacked, LimitsHold, Unsettled, Limited, Idle
<1> QED
  BY <1>4, <1>5 DEF LimitInv

LEMMA NextLimits == ComponentAssumption /\ TypeOK /\ LimitInv /\ [Next]_vars => LimitInv'
<1> SUFFICES ASSUME ComponentAssumption, TypeOK, LimitInv, [Next]_vars PROVE LimitInv'
  OBVIOUS
<1>1. ASSUME NEW a \in Actor, NEW c \in Component, NEW op \in {"install", "remove", "execute"},
             Begin(a, op, c)
      PROVE  LimitInv'
  BY <1>1, BeginLimits
<1>2. ASSUME NEW a \in Actor, RegistryStep(a) \/ InstallerStep(a) \/ ExecutorStep(a)
      PROVE  LimitInv'
  BY <1>2, RegistryLimits, InstallerLimits, ExecutorLimits
<1>3. ASSUME NEW a \in Cli, CrashCli(a) PROVE LimitInv'
  <2>1. {a} \in SUBSET Actor
    BY DEF Actor
  <2> QED
    BY <1>3, <2>1, CrashLimits DEF CrashCli
<1>4. CASE CrashServer
  <2>1. Worker \in SUBSET Actor
    BY DEF Actor
  <2> QED
    BY <1>4, <2>1, CrashLimits DEF CrashServer
<1>5. CASE UNCHANGED vars
  BY <1>5 DEF vars, files, history, LimitInv, OwnPaths, UsedAlone, CacheCurrent, Unpacked, LimitsHold
<1> QED
  BY <1>1, <1>2, <1>3, <1>4, <1>5 DEF Next, Actor

\* The limits an execution runs under are those of the manifest as it is,
\* unless another call used the component, or one was cut short, at any time:
\* the cached manifest that is believed for its mtime was made from this one.
THEOREM CurrentLimits == Spec => []LimitsAreCurrent
<1>1. ComponentAssumption
  BY ComponentAssumption
<1>2. LimitInv => LimitsAreCurrent
  BY DEF LimitInv, LimitsHold, Limited, LimitsAreCurrent, Actor
<1> QED
  BY <1>1, <1>2, InitType, NextType, InitLimits, NextLimits, PTL DEF Spec

-----------------------------------------------------------------------------
\* What is installed stays registered.  Whoever opens a file makes every other
\* copy of the registry old, and who loads before the writing is over has an old
\* copy too; so, as long as no old copy was saved, one call at a time writes, its
\* copy names everything installed, and of the two files one always does.

YamlNames == IF Whole(yaml) THEN yaml ELSE {}

\* What a has in memory is the registry as the files have it.
UpToDate(a) == act[a].pc \in HasCopy /\ a \notin behind

\* No load drops what is installed.
InstalledExist == \A c \in installed : dir[c]

BeforeLoad == {"download", "openCode", "writeCode", "delete", "deleteDir", "readBin"}

\* A call begins to load with nothing to save, and an installation has its
\* component in the registry it saves.
Shape(call) ==
  /\ call.pc \in BeforeLoad => ~call.again
  /\ call.pc \in SavePc /\ call.op = "install" /\ call.next = "end" => call.c \in call.reg

Shapes == \A a \in Actor : Shape(act[a])

FilesComplete ==
  \/ installed \subseteq Registered
  \/ ~Whole(bin) /\ \E a \in Actor : At(a, "writeYaml")

\* The copy of a was read from registry.yaml or has been written to it.
FromYaml(call) == call.pc \in {"readYaml", "openBin", "writeBin"} \/ (call.pc = "sync" /\ call.again)

Complete(a) ==
  /\ act[a].pc # "readYaml" => installed \subseteq act[a].reg
  /\ act[a].pc = "readYaml" => ~Whole(bin)
  /\ FromYaml(act[a]) => installed \subseteq YamlNames

CopiesComplete == \A a \in Actor : UpToDate(a) => Complete(a)

Writing(call) == call.pc \in {"writeYaml", "writeBin"}

OneWriter ==
  \A a \in Actor : Writing(act[a]) => a \notin behind /\ \A b \in Actor \ {a} : ~UpToDate(b)

KeepInv ==
  /\ InstalledExist
  /\ Shapes
  /\ ~lost => FilesComplete /\ CopiesComplete /\ OneWriter

\* A step of one call that writes neither file.
NoWrite(a) ==
  /\ UNCHANGED <<registry, behind, lost>>
  /\ installed' \subseteq installed
  /\ InstalledExist'
  /\ \A b \in Actor \ {a} : act'[b] = act[b]
  /\ ~Writing(act[a]) /\ ~Writing(act'[a])
  /\ Shape(act'[a])
  /\ act'[a].pc \in HasCopy => act[a].pc \in HasCopy
  /\ ~lost /\ UpToDate(a)' => Complete(a)'

LEMMA NoWriteKeeps ==
  ASSUME KeepInv, NEW a \in Actor, NoWrite(a)
  PROVE  KeepInv'
<1>1. Shapes'
  BY DEF KeepInv, Shapes, NoWrite
<1>2. \A b \in Actor : UpToDate(b)' => UpToDate(b)
  BY DEF NoWrite, UpToDate
<1>3. \A b \in Actor \ {a} : Complete(b) => Complete(b)'
  BY DEF NoWrite, Complete, YamlNames, Whole, registry
<1>4. ASSUME ~lost' PROVE FilesComplete'
  <2>1. FilesComplete
    BY <1>4 DEF KeepInv, NoWrite
  <2>2. Registered' = Registered /\ Whole(bin)' = Whole(bin)
    BY DEF NoWrite, registry, Registered, Whole
  <2>3. CASE installed \subseteq Registered
    BY <2>2, <2>3 DEF FilesComplete, NoWrite
  <2>4. CASE ~Whole(bin) /\ \E b \in Actor : At(b, "writeYaml")
    BY <2>2, <2>4 DEF FilesComplete, NoWrite, Writing, At
  <2> QED
    BY <2>1, <2>3, <2>4 DEF FilesComplete
<1>5. ASSUME ~lost' PROVE CopiesComplete'
  BY <1>2, <1>3, <1>5 DEF KeepInv, CopiesComplete, NoWrite
<1>6. ASSUME ~lost' PROVE OneWriter'
  BY <1>2, <1>6 DEF KeepInv, OneWriter, NoWrite
<1> QED
  BY <1>1, <1>4, <1>5, <1>6 DEF KeepInv, NoWrite

\* The points of the code outside of the registry.
LEMMA OutsideKeeps ==
  ASSUME KeepInv, NEW a \in Actor,
         UNCHANGED <<registry, behind, lost>>,
         installed' \subseteq installed, InstalledExist',
         \A b \in Actor \ {a} : act'[b] = act[b],
         act[a].pc \notin HasCopy, act'[a].pc \notin HasCopy,
         act'[a].pc \in BeforeLoad => ~act'[a].again
  PROVE  KeepInv'
<1>1. ~Writing(act[a]) /\ ~Writing(act'[a])
  BY DEF Writing, HasCopy, RegistryPc
<1>2. Shape(act'[a])
  BY DEF Shape, SavePc, HasCopy, RegistryPc
<1>3. ~UpToDate(a)'
  BY DEF UpToDate
<1>4. NoWrite(a)
  BY <1>1, <1>2, <1>3 DEF NoWrite
<1> QED
  BY <1>4, NoWriteKeeps

LEMMA ExecutorKeeps ==
  ASSUME TypeOK, KeepInv, NEW a \in Actor, ExecutorStep(a)
  PROVE  KeepInv'
<1>0. ActType
  BY DEF TypeOK, ActType
<1>1. act[a] \in Call
  BY <1>0, InCall DEF ExecutorStep, LoadManifest, SaveManifest, ReadCode, Preload, Run, End, At
<1>2. /\ UNCHANGED <<registry, behind, lost, installed, dir>>
      /\ act[a].pc \in {"lookup", "saveManifest", "code", "preload", "run", "ran"}
  BY DEF ExecutorStep, LoadManifest, SaveManifest, ReadCode, Preload, Run, End, At, files, history
<1>3. InstalledExist'
  BY <1>2 DEF KeepInv, InstalledExist
<1>4. \A b \in Actor \ {a} : act'[b] = act[b]
  BY <1>0 DEF ExecutorStep, LoadManifest, SaveManifest, ReadCode, Preload, Run, End, Goto, Return, ActType
<1>5. act'[a] = Idle \/ act'[a].pc \in {"saveManifest", "code", "preload", "run", "ran"}
  BY <1>0, <1>1 DEF ExecutorStep, LoadManifest, SaveManifest, ReadCode, Preload, Run, End, Goto, Return,
     ActType, Call
<1>6. act'[a].pc \in {"idle", "saveManifest", "code", "preload", "run", "ran"}
  BY <1>5 DEF Idle
<1>7. act[a].pc \notin HasCopy /\ act'[a].pc \notin HasCopy \cup BeforeLoad
  BY <1>2, <1>6 DEF HasCopy, RegistryPc, BeforeLoad
<1> QED
  BY <1>2, <1>3, <1>4, <1>7, OutsideKeeps

LEMMA InstallerKeeps ==
  ASSUME TypeOK, OwnPaths, KeepInv, NEW a \in Actor, InstallerStep(a)
  PROVE  KeepInv'
<1>0. ActType
  BY DEF TypeOK, ActType
<1>1. act[a] \in Call
  BY <1>0, InCall DEF InstallerStep, Unpack, FailUnpack, OpenCode, WriteCode,
     Index, Delete, DeleteDir, Deregister, At
<1>2. /\ UNCHANGED <<registry, behind, lost>>
      /\ act[a].c \in Component
      /\ dir \in [Component -> BOOLEAN]
      /\ installed \subseteq Component
      /\ \A c \in installed : dir[c]
      /\ Shape(act[a])
  BY <1>1 DEF InstallerStep, Unpack, FailUnpack, OpenCode, WriteCode,
     Index, Delete, DeleteDir, Deregister, history, Call, TypeOK, KeepInv, InstalledExist, Shapes
<1>3. \A b \in Actor \ {a} : act'[b] = act[b]
  BY <1>0 DEF InstallerStep, Unpack, FailUnpack, OpenCode, WriteCode,
     Index, Delete, DeleteDir, Deregister, Abort, Goto, Return, ActType
<1>4. installed' \subseteq installed /\ InstalledExist'
  <2>1. CASE DeleteDir(a)
    BY <1>2, <2>1 DEF DeleteDir, InstalledExist
  <2>2. CASE Unpack(a) \/ FailUnpack(a)
    BY <1>2, <2>2 DEF Unpack, FailUnpack, InstalledExist
  <2>3. CASE OpenCode(a) \/ WriteCode(a) \/ Index(a) \/ Delete(a) \/ Deregister(a)
    BY <1>2, <2>3 DEF OpenCode, WriteCode, Index, Delete, Deregister, InstalledExist, files, history
  <2> QED
    BY <2>1, <2>2, <2>3 DEF InstallerStep
<1>5. CASE Return(a) \/ Abort(a)
  <2>1. act'[a].pc = "idle"
    BY <1>0, <1>5 DEF Abort, Return, ActType, Idle
  <2>2. ~Writing(act[a]) /\ ~Writing(act'[a]) /\ act'[a].pc \notin HasCopy
    BY <2>1 DEF InstallerStep, Unpack, FailUnpack, OpenCode, WriteCode, Index, Delete, DeleteDir,
       Deregister, At, Writing, HasCopy, RegistryPc
  <2>3. Shape(act'[a])
    BY <2>1 DEF Shape, BeforeLoad, SavePc
  <2> QED
    BY <1>2, <1>3, <1>4, <2>2, <2>3, NoWriteKeeps DEF NoWrite, UpToDate
<1>6. ASSUME NEW pc \in BeforeLoad, act[a].pc \in BeforeLoad, Goto(a, pc)
      PROVE  KeepInv'
  <2>1. act'[a].pc = pc /\ act'[a].again = act[a].again
    BY <1>0, <1>1, <1>6 DEF Goto, ActType, Call
  <2>2. ~act'[a].again
    BY <1>2, <1>6, <2>1 DEF Shape
  <2>3. act[a].pc \notin HasCopy /\ act'[a].pc \notin HasCopy
    BY <1>6, <2>1 DEF BeforeLoad, HasCopy, RegistryPc
  <2> QED
    BY <1>2, <1>3, <1>4, <2>2, <2>3, OutsideKeeps
<1>7. CASE Index(a)
  <2>1. /\ act'[a].reg = act[a].reg \cup {act[a].c} /\ act'[a].c = act[a].c
        /\ act'[a].pc = "openYaml" /\ act[a].pc = "index"
        /\ installed' = installed
    BY <1>0, <1>1, <1>7 DEF Index, At, ActType, Call, history
  <2>2. ~Writing(act[a]) /\ ~Writing(act'[a]) /\ Shape(act'[a]) /\ act[a].pc \in HasCopy
    BY <2>1 DEF Writing, Shape, BeforeLoad, HasCopy
  <2>3. ~lost /\ UpToDate(a)' => Complete(a)'
    BY <1>2, <2>1, <2>2 DEF KeepInv, CopiesComplete, UpToDate, Complete, FromYaml
  <2> QED
    BY <1>2, <1>3, <1>4, <2>2, <2>3, NoWriteKeeps DEF NoWrite
<1>8. CASE Deregister(a) /\ ~Return(a)
  <2>1. /\ act'[a].reg = act[a].reg \ {act[a].c} /\ act'[a].c = act[a].c
        /\ act'[a].op = "remove"
        /\ act'[a].pc = "openYaml" /\ act[a].pc = "deregister"
        /\ installed' = installed \ {act[a].c}
    <3>1. act[a].op = "remove"
      BY <1>0, <1>1, <1>8, IdleOrCall DEF OwnPaths, OwnPath, Deregister, At
    <3> QED
      BY <1>0, <1>1, <1>8, <3>1 DEF Deregister, At, ActType, Call
  <2>2. ~Writing(act[a]) /\ ~Writing(act'[a]) /\ act[a].pc \in HasCopy
    BY <2>1 DEF Writing, HasCopy
  <2>3. Shape(act'[a])
    BY <2>1 DEF Shape, BeforeLoad
  <2>4. ~lost /\ UpToDate(a)' => Complete(a)'
    BY <1>2, <2>1, <2>2 DEF KeepInv, CopiesComplete, UpToDate, Complete, FromYaml
  <2> QED
    BY <1>2, <1>3, <1>4, <2>2, <2>3, <2>4, NoWriteKeeps DEF NoWrite
<1> QED
  BY <1>5, <1>6, <1>7, <1>8 DEF InstallerStep, Unpack, FailUnpack, OpenCode, WriteCode, Delete, DeleteDir,
     BeforeLoad, At

LEMMA BeginKeeps ==
  ASSUME TypeOK, KeepInv, NEW a \in Actor, NEW c \in Component,
         NEW op \in {"install", "remove", "execute"}, Begin(a, op, c)
  PROVE  KeepInv'
<1>0. ActType
  BY DEF TypeOK, ActType
<1>1. /\ \A b \in Actor \ {a} : act'[b] = act[b]
      /\ act'[a].pc = First(op) /\ act'[a].again = FALSE
      /\ act[a].pc = "idle"
      /\ UNCHANGED <<registry, behind, lost, installed, dir>>
  BY <1>0 DEF Begin, At, ActType, files
<1>2. act[a].pc \notin HasCopy /\ act'[a].pc \notin HasCopy
  BY <1>1 DEF First, HasCopy, RegistryPc
<1>3. InstalledExist'
  BY <1>1 DEF KeepInv, InstalledExist
<1> QED
  BY <1>1, <1>2, <1>3, OutsideKeeps

\* What is read while nobody saves names everything installed.
LEMMA ReadBinKeeps ==
  ASSUME TypeOK, KeepInv, NEW a \in Actor, ReadBin(a)
  PROVE  KeepInv'
<1>0. act[a] \in Call
  BY InCall DEF ReadBin, At, TypeOK, ActType
<1>1. /\ \A b \in Actor \ {a} : act'[b] = act[b]
      /\ act[a].pc = "readBin" /\ act'[a].again = act[a].again
      /\ PreferBin => act'[a].pc = "sync" /\ act'[a].reg = bin
      /\ ~PreferBin => act'[a].pc = "readYaml"
      /\ UNCHANGED <<files, registry, installed, lost>>
      /\ behind' = IF Saving = {} THEN behind \ {a} ELSE behind \cup {a}
  BY <1>0 DEF ReadBin, At, TypeOK, Call
<1>2. ~Writing(act[a]) /\ ~Writing(act'[a]) /\ ~act'[a].again
  BY <1>1 DEF KeepInv, Shapes, Shape, BeforeLoad, Writing
<1>3. InstalledExist'
  BY <1>1 DEF KeepInv, InstalledExist, files
<1>4. Shapes'
  BY <1>1, <1>2 DEF KeepInv, Shapes, Shape, BeforeLoad, SavePc
<1>5. Registered' = Registered /\ Whole(bin)' = Whole(bin) /\ YamlNames' = YamlNames
  BY <1>1 DEF registry, Registered, Whole, YamlNames
<1>6. ASSUME ~lost' PROVE FilesComplete'
  BY <1>1, <1>5, <1>6 DEF KeepInv, FilesComplete, At
<1>7. ASSUME ~lost', UpToDate(a)' PROVE Complete(a)'
  <2>1. Saving = {}
    BY <1>1, <1>7 DEF UpToDate
  <2>2. installed \subseteq Registered
    BY <1>1, <1>7, <2>1 DEF KeepInv, FilesComplete, Saving, At
  <2>3. CASE PreferBin
    BY <1>1, <1>2, <2>2, <2>3 DEF Complete, FromYaml, PreferBin, Registered
  <2>4. CASE ~PreferBin
    BY <1>1, <1>5, <2>2, <2>4 DEF Complete, PreferBin, Registered, YamlNames
  <2> QED
    BY <2>3, <2>4
<1>8. \A b \in Actor \ {a} : /\ UpToDate(b)' <=> UpToDate(b)
                             /\ Complete(b) => Complete(b)'
  BY <1>1, <1>5 DEF UpToDate, Complete
<1>9. ASSUME ~lost' PROVE CopiesComplete'
  BY <1>1, <1>7, <1>8, <1>9 DEF KeepInv, CopiesComplete
<1>10. ASSUME ~lost' PROVE OneWriter'
  <2> SUFFICES ASSUME NEW b \in Actor, Writing(act'[b])
               PROVE  b \notin behind' /\ \A d \in Actor \ {b} : ~UpToDate(d)'
    BY DEF OneWriter
  <2>1. b # a /\ Writing(act[b])
    BY <1>1, <1>2
  <2>2. b \in Saving
    BY <2>1 DEF Saving, Writing
  <2>3. b \notin behind' /\ a \in behind'
    BY <1>1, <1>10, <2>1, <2>2 DEF KeepInv, OneWriter
  <2> QED
    BY <1>1, <1>8, <1>10, <2>1, <2>3 DEF KeepInv, OneWriter, UpToDate
<1> QED
  BY <1>3, <1>4, <1>6, <1>9, <1>10 DEF KeepInv

LEMMA LoadKeeps ==
  ASSUME TypeOK, KeepInv, NEW a \in Actor, ReadYaml(a) \/ Sync(a)
  PROVE  KeepInv'
<1>0. act[a] \in Call /\ Loaded(act[a].op) \in {"index", "deregister", "lookup"}
  <2>1. act[a] \in Call
    BY InCall DEF ReadYaml, Sync, At, TypeOK, ActType
  <2> QED
    BY <2>1 DEF Loaded, Call
<1>1. /\ \A b \in Actor \ {a} : act'[b] = act[b]
      /\ act'[a].next = Loaded(act[a].op) /\ act'[a].op = act[a].op
      /\ UNCHANGED <<registry, behind, lost, installed, dir>>
      /\ act[a].pc \in {"readYaml", "sync"}
      /\ act'[a].pc \in {"openYaml", "sync", "openBin", Loaded(act[a].op)}
  <2>1. CASE ReadYaml(a)
    BY <1>0, <2>1 DEF ReadYaml, At, TypeOK, Call, files, history
  <2>2. CASE Sync(a)
    BY <1>0, <2>2 DEF Sync, At, TypeOK, Call, files, history
  <2> QED
    BY <2>1, <2>2
<1>2. InstalledExist'
  BY <1>1 DEF KeepInv, InstalledExist
<1>3. ~Writing(act[a]) /\ ~Writing(act'[a]) /\ Shape(act'[a]) /\ act[a].pc \in HasCopy
  BY <1>0, <1>1 DEF Writing, Shape, BeforeLoad, HasCopy, RegistryPc
<1>4. YamlNames' = YamlNames /\ Whole(bin)' = Whole(bin)
  BY <1>1 DEF registry, YamlNames, Whole
<1>5. ASSUME ~lost, UpToDate(a)' PROVE Complete(a)'
  <2>1. Complete(a)
    BY <1>1, <1>3, <1>5 DEF KeepInv, CopiesComplete, UpToDate
  <2>2. CASE ReadYaml(a)
    <3>1. act[a].pc = "readYaml" /\ act'[a].reg = YamlNames /\ act'[a].pc \in {"openYaml", "sync"}
      BY <1>0, <2>2 DEF ReadYaml, At, TypeOK, Call, YamlNames
    <3> QED
      BY <1>1, <1>4, <2>1, <3>1 DEF Complete, FromYaml
  <2>3. CASE Sync(a)
    <3>1. /\ act[a].pc = "sync"
          /\ act'[a].reg = {c \in act[a].reg : dir[c]}
          /\ act'[a].pc \in {"openYaml", "openBin", Loaded(act[a].op)}
          /\ act'[a].pc = "openBin" => act[a].again
      BY <1>0, <2>3 DEF Sync, At, TypeOK, Call
    <3>2. installed \subseteq act'[a].reg
      BY <2>1, <3>1 DEF Complete, KeepInv, InstalledExist
    <3> QED
      BY <1>0, <1>1, <1>4, <2>1, <3>1, <3>2 DEF Complete, FromYaml
  <2> QED
    BY <2>2, <2>3
<1>6. NoWrite(a)
  BY <1>1, <1>2, <1>3, <1>5 DEF NoWrite
<1> QED
  BY <1>6, NoWriteKeeps

\* Who opens a file makes every other copy old.
LEMMA OpenKeeps ==
  ASSUME TypeOK, KeepInv, NEW a \in Actor, OpenYaml(a) \/ OpenBin(a)
  PROVE  KeepInv'
<1>0. act[a] \in Call
  BY InCall DEF OpenYaml, OpenBin, At, TypeOK, ActType
<1>1. /\ \A b \in Actor \ {a} : act'[b] = act[b]
      /\ act[a].pc \in {"openYaml", "openBin"}
      /\ act'[a].pc \in {"writeYaml", "writeBin"}
      /\ act'[a].c = act[a].c /\ act'[a].op = act[a].op
      /\ act'[a].next = act[a].next /\ act'[a].reg = act[a].reg
      /\ UNCHANGED <<files, installed>>
      /\ Overwrite(a)
  BY <1>0 DEF OpenYaml, OpenBin, Goto, At, TypeOK, Call
<1>2. InstalledExist'
  BY <1>1 DEF KeepInv, InstalledExist, files
<1>3. Shapes'
  BY <1>1 DEF KeepInv, Shapes, Shape, BeforeLoad, SavePc
<1>4. \A b \in Actor \ {a} : ~UpToDate(b)'
  BY <1>1 DEF Overwrite, UpToDate
<1>5. ASSUME ~lost'
      PROVE  /\ ~lost /\ a \notin behind /\ a \notin behind'
             /\ installed \subseteq act[a].reg
             /\ act[a].pc = "openBin" => installed \subseteq YamlNames
             /\ \A b \in Actor \ {a} : ~Writing(act[b])
  <2>1. ~lost /\ a \notin behind /\ a \notin behind'
    BY <1>1, <1>5 DEF Overwrite
  <2>2. UpToDate(a)
    BY <1>1, <2>1 DEF UpToDate, HasCopy, RegistryPc
  <2>3. Complete(a)
    BY <2>1, <2>2 DEF KeepInv, CopiesComplete
  <2>4. \A b \in Actor \ {a} : ~Writing(act[b])
    BY <2>1, <2>2 DEF KeepInv, OneWriter
  <2> QED
    BY <1>1, <2>1, <2>3, <2>4 DEF Complete, FromYaml
<1>6. ASSUME ~lost' PROVE OneWriter'
  BY <1>1, <1>4, <1>5, <1>6 DEF OneWriter
<1>7. ASSUME ~lost' PROVE FilesComplete' /\ Complete(a)'
  <2>1. CASE OpenYaml(a)
    <3>1. /\ act'[a].pc = "writeYaml" /\ bin' = bin /\ act[a].pc = "openYaml"
          /\ \A b \in Actor : ~At(b, "writeYaml")
      BY <1>0, <1>5, <1>7, <2>1 DEF OpenYaml, Goto, At, TypeOK, Call, Writing
    <3>2. Whole(bin) => installed \subseteq bin
      BY <1>5, <1>7, <3>1 DEF KeepInv, FilesComplete, Registered
    <3>3. FilesComplete'
      BY <1>1, <3>1, <3>2 DEF FilesComplete, Registered, Whole, At
    <3> QED
      BY <1>1, <1>5, <1>7, <3>1, <3>3 DEF Complete, FromYaml
  <2>2. CASE OpenBin(a)
    <3>1. act'[a].pc = "writeBin" /\ bin' = Empty /\ yaml' = yaml /\ act[a].pc = "openBin"
      BY <1>0, <2>2 DEF OpenBin, Goto, At, TypeOK, Call
    <3>2. YamlNames' = YamlNames
      BY <3>1 DEF YamlNames, Whole
    <3>3. Registered' = YamlNames'
      BY <3>1 DEF Registered, YamlNames, Whole
    <3> QED
      BY <1>1, <1>5, <1>7, <3>1, <3>2, <3>3 DEF FilesComplete, Complete
  <2> QED
    BY <2>1, <2>2
<1>8. ASSUME ~lost' PROVE CopiesComplete'
  BY <1>4, <1>7, <1>8 DEF CopiesComplete
<1> QED
  BY <1>2, <1>3, <1>6, <1>7, <1>8 DEF KeepInv

\* Who writes is alone.
LEMMA WriteYamlKeeps ==
  ASSUME TypeOK, KeepInv, NEW a \in Actor, WriteYaml(a)
  PROVE  KeepInv'
<1>0. act[a] \in Call
  BY InCall DEF WriteYaml, At, TypeOK, ActType
<1>1. /\ \A b \in Actor \ {a} : act'[b] = act[b]
      /\ act[a].pc = "writeYaml" /\ act'[a].pc = "openBin"
      /\ act'[a].c = act[a].c /\ act'[a].op = act[a].op
      /\ act'[a].next = act[a].next /\ act'[a].reg = act[a].reg
      /\ yaml' = act[a].reg /\ act[a].reg \subseteq Component
      /\ UNCHANGED <<files, history, bin>>
  BY <1>0 DEF WriteYaml, Goto, At, TypeOK, Call
<1>2. InstalledExist'
  BY <1>1 DEF KeepInv, InstalledExist, files, history
<1>3. Shapes'
  BY <1>1 DEF KeepInv, Shapes, Shape, BeforeLoad, SavePc
<1>4. ASSUME ~lost'
      PROVE  /\ installed \subseteq act[a].reg
             /\ \A b \in Actor \ {a} : ~UpToDate(b)' /\ ~Writing(act'[b])
  <2>1. Writing(act[a]) /\ ~lost
    BY <1>1, <1>4 DEF Writing, history
  <2>2. a \notin behind /\ \A b \in Actor \ {a} : ~UpToDate(b)
    BY <2>1 DEF KeepInv, OneWriter
  <2>3. UpToDate(a)
    BY <1>1, <2>2 DEF UpToDate, HasCopy, RegistryPc
  <2>4. installed \subseteq act[a].reg
    BY <1>1, <2>1, <2>3 DEF KeepInv, CopiesComplete, Complete
  <2>5. \A b \in Actor \ {a} : ~Writing(act[b])
    BY <2>1, <2>3 DEF KeepInv, OneWriter
  <2> QED
    BY <1>1, <2>2, <2>4, <2>5 DEF UpToDate, history
<1>5. ASSUME ~lost' PROVE OneWriter'
  BY <1>1, <1>4, <1>5 DEF OneWriter, Writing
<1>6. Whole(yaml)'
  BY <1>1, ComponentAssumption DEF Whole, ComponentAssumption
<1>7. ASSUME ~lost' PROVE FilesComplete'
  <2>1. Whole(bin) => installed \subseteq bin
    BY <1>1, <1>7 DEF KeepInv, FilesComplete, Registered, history
  <2> QED
    BY <1>1, <1>4, <1>6, <1>7, <2>1 DEF FilesComplete, Registered, Whole, history
<1>8. ASSUME ~lost' PROVE Complete(a)'
  BY <1>1, <1>4, <1>6, <1>8 DEF Complete, FromYaml, YamlNames, history
<1>9. ASSUME ~lost' PROVE CopiesComplete'
  BY <1>4, <1>8, <1>9 DEF CopiesComplete
<1> QED
  BY <1>2, <1>3, <1>5, <1>7, <1>9 DEF KeepInv

LEMMA WriteBinKeeps ==
  ASSUME TypeOK, KeepInv, NEW a \in Actor, WriteBin(a)
  PROVE  KeepInv'
<1>0. act[a] \in Call
  BY InCall DEF WriteBin, At, TypeOK, ActType
<1>1. /\ \A b \in Actor \ {a} : act'[b] = act[b]
      /\ act[a].pc = "writeBin"
      /\ bin' = act[a].reg /\ act[a].reg \subseteq Component
      /\ UNCHANGED <<files, yaml, behind, lost>>
  BY <1>0 DEF WriteBin, Goto, Return, At, TypeOK, Call
<1>2. \/ /\ act'[a].pc = "openBin" /\ ~act'[a].again /\ act'[a].reg = act[a].reg
         /\ act'[a].c = act[a].c /\ act'[a].op = act[a].op /\ act'[a].next = act[a].next
         /\ installed' = installed
      \/ /\ act'[a].pc \in {"index", "deregister", "lookup"} /\ act'[a].reg = act[a].reg
         /\ installed' = installed
      \/ /\ act'[a].pc = "idle"
         /\ installed' = installed \/ /\ installed' = installed \cup {act[a].c}
                                      /\ dir[act[a].c] /\ act[a].op = "install" /\ act[a].next = "end"
  <2>1. CASE act' = [act EXCEPT ![a].again = FALSE, ![a].pc = "openBin"] /\ UNCHANGED installed
    BY <1>0, <2>1 DEF TypeOK, Call
  <2>2. CASE act[a].next # "end" /\ Goto(a, act[a].next) /\ UNCHANGED installed
    BY <1>0, <2>2 DEF Goto, TypeOK, Call
  <2>3. CASE /\ act[a].next = "end" /\ Return(a)
             /\ installed' = IF act[a].op = "install" /\ dir[act[a].c]
                             THEN installed \cup {act[a].c} ELSE installed
    BY <1>0, <2>3 DEF Return, TypeOK, Idle
  <2> QED
    BY <2>1, <2>2, <2>3 DEF WriteBin
<1>3. Shape(act[a])
  BY DEF KeepInv, Shapes
<1>4. InstalledExist'
  BY <1>1, <1>2 DEF KeepInv, InstalledExist, files
<1>5. Shapes'
  <2>1. Shape(act'[a])
    BY <1>1, <1>2, <1>3 DEF Shape, BeforeLoad, SavePc
  <2> QED
    BY <1>1, <2>1 DEF KeepInv, Shapes
<1>6. ASSUME ~lost'
      PROVE  /\ installed \subseteq act[a].reg
             /\ installed \subseteq YamlNames
             /\ \A b \in Actor \ {a} : ~UpToDate(b)' /\ ~Writing(act'[b])
  <2>1. Writing(act[a]) /\ ~lost
    BY <1>1, <1>6 DEF Writing
  <2>2. a \notin behind /\ \A b \in Actor \ {a} : ~UpToDate(b)
    BY <2>1 DEF KeepInv, OneWriter
  <2>3. UpToDate(a)
    BY <1>1, <2>2 DEF UpToDate, HasCopy, RegistryPc
  <2>4. installed \subseteq act[a].reg /\ installed \subseteq YamlNames
    BY <1>1, <2>1, <2>3 DEF KeepInv, CopiesComplete, Complete, FromYaml
  <2>5. \A b \in Actor \ {a} : ~Writing(act[b])
    BY <2>1, <2>3 DEF KeepInv, OneWriter
  <2> QED
    BY <1>1, <2>2, <2>4, <2>5 DEF UpToDate
<1>7. ~Writing(act'[a])
  BY <1>2 DEF Writing
<1>8. ASSUME ~lost' PROVE OneWriter'
  BY <1>6, <1>7, <1>8 DEF OneWriter
<1>9. ASSUME ~lost' PROVE FilesComplete'
  <2>1. installed' \subseteq act[a].reg
    BY <1>1, <1>2, <1>3, <1>6, <1>9 DEF Shape, SavePc
  <2>2. Whole(bin)'
    BY <1>1, ComponentAssumption DEF Whole, ComponentAssumption
  <2> QED
    BY <1>1, <2>1, <2>2 DEF FilesComplete, Registered
<1>10. ASSUME ~lost', UpToDate(a)' PROVE Complete(a)'
  <2>1. act'[a].pc # "idle"
    BY <1>10 DEF UpToDate, HasCopy, RegistryPc
  <2>2. YamlNames' = YamlNames
    BY <1>1 DEF YamlNames, Whole
  <2> QED
    BY <1>2, <1>6, <1>10, <2>1, <2>2 DEF Complete, FromYaml
<1>11. ASSUME ~lost' PROVE CopiesComplete'
  BY <1>6, <1>10, <1>11 DEF CopiesComplete
<1> QED
  BY <1>4, <1>5, <1>8, <1>9, <1>11 DEF KeepInv

\* A save that is cut short leaves one of the files, unless it was begun without
\* a readable registry.bin.
LEMMA CrashKeeps ==
  ASSUME TypeOK, KeepInv, NEW killed \in SUBSET Actor, Crash(killed)
  PROVE  KeepInv'
<1>1. /\ \A b \in killed : act'[b] = Idle
      /\ \A b \in Actor \ killed : act'[b] = act[b]
      /\ UNCHANGED <<files, registry, installed>>
      /\ behind' = behind \ killed
      /\ lost' = (lost \/ \E a \in killed : At(a, "writeYaml") /\ ~Whole(bin))
  BY DEF Crash
<1>2. InstalledExist'
  BY <1>1 DEF KeepInv, InstalledExist, files
<1>3. Shapes'
  <2>1. Shape(Idle)
    BY DEF Shape, Idle, BeforeLoad, SavePc
  <2> QED
    BY <1>1, <2>1 DEF KeepInv, Shapes
<1>4. Registered' = Registered /\ Whole(bin)' = Whole(bin) /\ YamlNames' = YamlNames
  BY <1>1 DEF registry, Registered, Whole, YamlNames
<1>5. ASSUME ~lost' PROVE FilesComplete'
  <2>1. ~lost /\ \A a \in killed : ~At(a, "writeYaml") \/ Whole(bin)
    BY <1>1, <1>5
  <2>2. CASE installed \subseteq Registered
    BY <1>1, <1>4, <2>2 DEF FilesComplete
  <2>3. CASE ~Whole(bin) /\ \E a \in Actor : At(a, "writeYaml")
    BY <1>1, <1>4, <2>1, <2>3 DEF FilesComplete, At
  <2> QED
    BY <2>1, <2>2, <2>3 DEF KeepInv, FilesComplete
<1>6. \A b \in Actor : UpToDate(b)' => UpToDate(b) /\ act'[b] = act[b]
  <2>1. Idle.pc \notin HasCopy
    BY DEF Idle, HasCopy, RegistryPc
  <2> QED
    BY <1>1, <2>1 DEF UpToDate
<1>7. ASSUME ~lost' PROVE CopiesComplete'
  <2> SUFFICES ASSUME NEW b \in Actor, UpToDate(b)' PROVE Complete(b)'
    BY DEF CopiesComplete
  <2>1. Complete(b) /\ act'[b] = act[b]
    BY <1>1, <1>6, <1>7 DEF KeepInv, CopiesComplete
  <2> QED
    BY <1>1, <1>4, <2>1 DEF Complete
<1>8. ASSUME ~lost' PROVE OneWriter'
  <2>1. \A b \in Actor : Writing(act'[b]) => act'[b] = act[b]
    BY <1>1 DEF Writing, Idle
  <2> QED
    BY <1>1, <1>6, <1>8, <2>1 DEF KeepInv, OneWriter
<1> QED
  BY <1>2, <1>3, <1>5, <1>7, <1>8 DEF KeepInv

LEMMA InitKeeps == ComponentAssumption /\ Init => KeepInv
<1> SUFFICES ASSUME ComponentAssumption, Init PROVE KeepInv
  OBVIOUS
<1>1. \A a \in Actor : act[a].pc = "idle"
  BY DEF Init, Idle
<1>2. PICK names \in SUBSET Preinstalled :
       /\ dir = [c \in Component |-> c \in names]
       /\ yaml = IF names = {} THEN Absent ELSE names
       /\ bin = yaml
       /\ installed = names
  BY DEF Init
<1>3. InstalledExist
  BY <1>2 DEF InstalledExist, ComponentAssumption
<1>4. Shapes
  BY <1>1 DEF Shapes, Shape, BeforeLoad, SavePc
<1>5. FilesComplete
  <2>1. names # {} => Whole(bin)
    BY <1>2 DEF Whole, ComponentAssumption
  <2> QED
    BY <1>2, <2>1 DEF FilesComplete, Registered
<1>6. CopiesComplete /\ OneWriter
  BY <1>1 DEF CopiesComplete, OneWriter, UpToDate, Writing, HasCopy, RegistryPc
<1> QED
  BY <1>3, <1>4, <1>5, <1>6 DEF KeepInv

LEMMA NextKeeps ==
  ComponentAssumption /\ TypeOK /\ LimitInv /\ KeepInv /\ [Next]_vars => KeepInv'
<1> SUFFICES ASSUME ComponentAssumption, TypeOK, LimitInv, KeepInv, [Next]_vars PROVE KeepInv'
  OBVIOUS
<1>1. ASSUME NEW a \in Actor, NEW c \in Component, NEW op \in {"install", "remove", "execute"},
             Begin(a, op, c)
      PROVE  KeepInv'
  BY <1>1, BeginKeeps
<1>2. ASSUME NEW a \in Actor, RegistryStep(a)
      PROVE  KeepInv'
  BY <1>2, ReadBinKeeps, LoadKeeps, OpenKeeps, WriteYamlKeeps, WriteBinKeeps DEF RegistryStep
<1>3. ASSUME NEW a \in Actor, InstallerStep(a) \/ ExecutorStep(a)
      PROVE  KeepInv'
  BY <1>3, InstallerKeeps, ExecutorKeeps DEF LimitInv
<1>4. ASSUME NEW a \in Cli, CrashCli(a) PROVE KeepInv'
  <2>1. {a} \in SUBSET Actor
    BY DEF Actor
  <2> QED
    BY <1>4, <2>1, CrashKeeps DEF CrashCli
<1>5. CASE CrashServer
  <2>1. Worker \in SUBSET Actor
    BY DEF Actor
  <2> QED
    BY <1>5, <2>1, CrashKeeps DEF CrashServer
<1>6. CASE UNCHANGED vars
  BY <1>6 DEF vars, files, registry, history, KeepInv, InstalledExist, Shapes, FilesComplete, Registered,
     YamlNames, Whole, At, CopiesComplete, Complete, UpToDate, OneWriter
<1> QED
  BY <1>1, <1>2, <1>3, <1>4, <1>5, <1>6 DEF Next, Actor

\* An installed component stays in the registry that the next load finds,
\* however the calls overlap and wherever processes are killed, unless a call
\* has saved a copy older than the files, or was killed in a save it began
\* without a readable registry.bin.
THEOREM StaysRegistered == Spec => []InstalledStaysRegistered
<1>1. ComponentAssumption
  BY ComponentAssumption
<1>2. KeepInv => InstalledStaysRegistered
  BY DEF KeepInv, FilesComplete, InstalledStaysRegistered, Saving, At
<1> QED
  BY <1>1, <1>2, InitType, NextType, InitLimits, NextLimits, InitKeeps, NextKeeps, PTL DEF Spec

=============================================================================
