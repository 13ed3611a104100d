----------------------------- MODULE TruthProofs -----------------------------
(***************************************************************************)
(* Proofs about SystemTruth, for any number of threads, processes, calls   *)
(* and crashes: its types, among them that the holder of an ARBITER is in  *)
(* a negotiation, and that a settled profile survives one crash.           *)
(***************************************************************************)
EXTENDS SystemTruth, TLAPS

(* Typing *)

Places == Calibrating \cup Loading \cup {"idle", "wait"}
Jobs == {"start", "calibrate", "load", "negotiate"}
Purposes == {"none", "lost", "missing", "torn", "last"}

\* Who waits for a mutex is negotiating.
WaitersNegotiate == \A t \in Task : pc[t] = "wait" => job[t] = "negotiate"

TInv == TruthTypeOK /\ WaitersNegotiate

\* The part of the state a thread changes when it moves on.
Moving ==
  /\ pc \in [Task -> Places]
  /\ job \in [Task -> Jobs]
  /\ back \in [Task -> Purposes]
  /\ arbiter \in [Process -> Task \cup {Nobody}]
  /\ known \subseteq Process
  /\ calm \subseteq Task
  /\ got \subseteq {"truth", "default", "error"}
  /\ clash \in BOOLEAN
  /\ \A t \in Task : arbiter[Home[t]] = t => job[t] = "negotiate" /\ pc[t] \notin {"idle", "wait"}
  /\ WaitersNegotiate

Resting ==
  /\ json \in {"absent", "empty", "whole", "garbled"}
  /\ bin \in {"absent", "empty", "whole"}
  /\ locked \subseteq {"json", "bin"}
  /\ orphan \subseteq Task
  /\ calls \in 0..MaxCalls
  /\ crashes \in 0..MaxCrashes
  /\ settled \in BOOLEAN
  /\ wiped \in BOOLEAN

LEMMA Parts ==
  /\ TInv <=> Moving /\ Resting
  /\ TInv' <=> Moving' /\ Resting'
BY DEF TInv, TruthTypeOK, Moving, Resting, Places, Jobs, Purposes, Calibrating, Loading, Persisting

\* A thread that moves on to a place that is neither the beginning of a call nor
\* the wait for the mutex.
LEMMA Moves ==
  ASSUME Moving, NEW t \in Task, pc[t] \notin {"idle", "wait"},
         NEW to \in Places \ {"idle", "wait"}, pc' = [pc EXCEPT ![t] = to],
         NEW purpose \in Purposes, back' = back \/ back' = [back EXCEPT ![t] = purpose],
         job' = job, arbiter' = arbiter,
         known' \subseteq Process, calm' \subseteq Task,
         got' \subseteq {"truth", "default", "error"}, clash' \in BOOLEAN
  PROVE  Moving'
BY DEF Moving, WaitersNegotiate

LEMMA Calibrates ==
  ASSUME Moving, NEW t \in Task, pc[t] \notin {"idle", "wait"},
         NEW purpose \in Purposes, Calibrate(t, purpose),
         job' = job, arbiter' = arbiter, known' = known,
         got' \subseteq {"truth", "default", "error"}
  PROVE  Moving'
<1>1. "unlock json" \in Places \ {"idle", "wait"}
  BY DEF Places, Calibrating, Persisting
<1>2. calm' \subseteq Task /\ clash' \in BOOLEAN
  BY DEF Calibrate, Moving
<1>3. known' \subseteq Process
  BY DEF Moving
<1> QED
  BY <1>1, <1>2, <1>3, Moves DEF Calibrate

LEMMA Ends ==
  ASSUME TruthAssumption, Moving, NEW t \in Task, pc[t] # "idle", End(t),
         known' \subseteq Process, got' \subseteq {"truth", "default", "error"}, clash' = clash
  PROVE  Moving'
<1>1. /\ pc' = [pc EXCEPT ![t] = "idle"] /\ "idle" \in Places
      /\ job' = [job EXCEPT ![t] = "load"] /\ "load" \in Jobs
      /\ back' = [back EXCEPT ![t] = "none"] /\ "none" \in Purposes
      /\ calm' \subseteq Task
  BY DEF End, Places, Jobs, Purposes, Moving
<1>2. /\ arbiter' \in [Process -> Task \cup {Nobody}]
      /\ arbiter'[Home[t]] # t
      /\ \A p \in Process : arbiter'[p] = arbiter[p] \/ arbiter'[p] = Nobody
  BY DEF End, Released, Moving, TruthAssumption
<1>3. ASSUME NEW u \in Task, arbiter'[Home[u]] = u
      PROVE  job'[u] = "negotiate" /\ pc'[u] \notin {"idle", "wait"}
  <2>1. u # t /\ arbiter[Home[u]] = u
    BY <1>2, <1>3 DEF TruthAssumption
  <2> QED
    BY <1>1, <2>1 DEF Moving
<1>4. WaitersNegotiate'
  BY <1>1 DEF Moving, WaitersNegotiate
<1>5. pc' \in [Task -> Places] /\ job' \in [Task -> Jobs] /\ back' \in [Task -> Purposes]
  BY <1>1 DEF Moving
<1> QED
  BY <1>1, <1>2, <1>3, <1>4, <1>5 DEF Moving

LEMMA Returned ==
  ASSUME TruthAssumption, Moving, NEW t \in Task, pc[t] \notin {"idle", "wait"},
         NEW r \in {"truth", "default", "error"}, Return(t, r)
  PROVE  Moving'
<1>1. got' \subseteq {"truth", "default", "error"}
  BY DEF Return, Moving
<1>2. CASE End(t) /\ UNCHANGED clash
  <2>1. known' \subseteq Process
    BY <1>2 DEF Return, Moving, TruthAssumption, memory
  <2> QED
    BY <1>1, <1>2, <2>1, Ends
<1>3. CASE Calibrate(t, "last") /\ UNCHANGED <<job, memory>>
  BY <1>1, <1>3, Calibrates DEF Purposes, memory
<1> QED
  BY <1>2, <1>3 DEF Return

LEMMA IsOver ==
  ASSUME TruthAssumption, Moving, NEW t \in Task, pc[t] \notin {"idle", "wait"},
         NEW ok \in BOOLEAN, Over(t, ok)
  PROVE  Moving'
<1>1. CASE End(t) /\ UNCHANGED <<known, got, clash>>
  BY <1>1, Ends DEF Moving
<1>2. CASE pc' = [pc EXCEPT ![t] = "read json"] /\ UNCHANGED <<job, back, memory, calm, got, clash>>
  <2>1. "read json" \in Places \ {"idle", "wait"}
    BY DEF Places, Loading
  <2> QED
    BY <1>2, <2>1, Moves DEF Moving, memory, Purposes
<1>3. CASE Return(t, "error") \/ Return(t, "default")
  BY <1>3, Returned
<1> QED
  BY <1>1, <1>2, <1>3 DEF Over

LEMMA InitTyped == TruthAssumption /\ Init => TInv
<1> SUFFICES ASSUME TruthAssumption, Init PROVE TInv
  OBVIOUS
<1>1. Resting
  <2>1. PICK left \in Left : json = left.json /\ bin = left.bin /\ locked = left.locked /\ crashes = left.crashes
    BY DEF Init
  <2>2. left.crashes \in {0, 1} /\ left.locked \subseteq {"json", "bin"}
    BY DEF Left
  <2>3. left.json \in {"absent", "whole", "empty"} /\ left.bin \in {"absent", "whole", "empty"}
    BY DEF Left
  <2>4. calls \in 0..MaxCalls /\ crashes \in 0..MaxCrashes
    BY <2>1, <2>2 DEF Init, TruthAssumption
  <2> QED
    BY <2>1, <2>2, <2>3, <2>4 DEF Init, Resting
<1>2. Moving
  BY DEF Init, Moving, WaitersNegotiate, Places, Jobs, Purposes, TruthAssumption
<1> QED
  BY <1>1, <1>2, Parts

LEMMA CallTyped ==
  ASSUME TruthAssumption, TInv, NEW t \in Task, NEW j \in Jobs, Call(t, j)
  PROVE  TInv'
<1>0. Moving /\ Resting /\ pc[t] = "idle"
  BY Parts DEF Call
<1>1. Resting'
  BY <1>0 DEF Call, Resting, files, TruthAssumption
<1>2. PICK to \in Places : pc' = [pc EXCEPT ![t] = to] /\ (to = "wait" => j = "negotiate")
  BY DEF Call, Calibrate, Places, Calibrating, Persisting, Loading
<1>3. back' \in [Task -> Purposes] /\ calm' \subseteq Task /\ clash' \in BOOLEAN
  BY <1>0 DEF Call, Calibrate, Moving, Purposes
<1>4. /\ pc' \in [Task -> Places]
      /\ job' = [job EXCEPT ![t] = j]
      /\ job' \in [Task -> Jobs]
      /\ arbiter' = arbiter /\ known' = known /\ got' = got
  BY <1>0, <1>2 DEF Call, Moving, memory
<1>5. WaitersNegotiate'
  BY <1>0, <1>2, <1>4 DEF Moving, WaitersNegotiate
<1>6. ASSUME NEW u \in Task, arbiter'[Home[u]] = u
      PROVE  job'[u] = "negotiate" /\ pc'[u] \notin {"idle", "wait"}
  <2>1. u # t
    BY <1>0, <1>4, <1>6 DEF Moving
  <2> QED
    BY <1>0, <1>2, <1>4, <1>6, <2>1 DEF Moving
<1>7. Moving'
  BY <1>0, <1>3, <1>4, <1>5, <1>6 DEF Moving
<1> QED
  BY <1>1, <1>7, Parts

LEMMA PersistTyped ==
  ASSUME TInv, NEW t \in Task,
         \/ Unlock(t, "json", "unlock json", "unlock bin")
         \/ Unlock(t, "bin", "unlock bin", "open json")
         \/ OpenJson(t) \/ WriteJson(t) \/ OpenBin(t) \/ WriteBin(t) \/ LockJson(t) \/ LockBin(t)
         \/ Register(t)
  PROVE  TInv'
<1>0. Moving /\ Resting
  BY Parts
<1>1. Resting'
  BY <1>0 DEF Unlock, OpenJson, WriteJson, OpenBin, WriteBin, LockJson, LockBin, Register, Goto,
     Resting, bounds, files, history
<1>2. /\ pc[t] \notin {"idle", "wait"}
      /\ \E to \in Places \ {"idle", "wait"} : pc' = [pc EXCEPT ![t] = to]
  BY DEF Unlock, OpenJson, WriteJson, OpenBin, WriteBin, LockJson, LockBin, Register, Goto,
     Places, Calibrating, Persisting
<1>3. /\ UNCHANGED <<job, back, arbiter, calm, got, clash>>
      /\ known' = known \/ known' = known \cup {Home[t]}
  BY DEF Unlock, OpenJson, WriteJson, OpenBin, WriteBin, LockJson, LockBin, Register, memory, history
<1>4. known' \subseteq Process
  <2>1. Home[t] \in Process
    BY TruthAssumption DEF TruthAssumption
  <2>2. known \subseteq Process
    BY <1>0 DEF Moving
  <2> QED
    BY <1>3, <2>1, <2>2
<1>5. Moving'
  BY <1>0, <1>2, <1>3, <1>4, Moves DEF Moving, Purposes
<1> QED
  BY <1>1, <1>5, Parts

LEMMA LoadTyped ==
  ASSUME TruthAssumption, TInv, NEW t \in Task,
         OpenFails(t) \/ Finish(t) \/ Look(t) \/ ReadJson(t) \/ ReadBin(t) \/ Wipe(t)
  PROVE  TInv'
<1>0. Moving /\ Resting
  BY Parts
<1>1. Resting'
  BY <1>0 DEF OpenFails, Finish, Look, ReadJson, ReadBin, Wipe, Resting, bounds, files
<1> SUFFICES Moving'
  BY <1>1, Parts
<1>2. pc[t] \notin {"idle", "wait"}
  BY DEF OpenFails, Finish, Look, ReadJson, ReadBin, Wipe
<1>3. ASSUME NEW ok \in BOOLEAN, Over(t, ok) PROVE Moving'
  BY <1>0, <1>2, <1>3, IsOver
<1>4. ASSUME NEW r \in {"truth", "default", "error"}, Return(t, r) PROVE Moving'
  BY <1>0, <1>2, <1>4, Returned
<1>5. ASSUME NEW purpose \in Purposes, Calibrate(t, purpose), UNCHANGED <<job, memory, got>>
      PROVE  Moving'
  BY <1>0, <1>2, <1>5, Calibrates DEF Moving, memory
<1>6. ASSUME NEW to \in {"read json", "read bin", "wipe"}, pc' = [pc EXCEPT ![t] = to],
             NEW purpose \in Purposes, back' = back \/ back' = [back EXCEPT ![t] = purpose],
             UNCHANGED <<job, memory, calm, got, clash>>
      PROVE  Moving'
  <2>1. to \in Places \ {"idle", "wait"}
    BY DEF Places, Loading
  <2> QED
    BY <1>0, <1>2, <1>6, <2>1, Moves DEF Moving, memory
<1>7. CASE OpenFails(t) \/ Finish(t)
  BY <1>3, <1>7 DEF OpenFails, Finish
<1>8. CASE Look(t)
  <2>1. UNCHANGED <<job, memory, got>>
    BY <1>8 DEF Look
  <2>2. CASE pc' = [pc EXCEPT ![t] = "read json"] /\ UNCHANGED <<back, calm, clash>>
    BY <1>6, <2>1, <2>2 DEF Purposes
  <2>3. CASE pc' = [pc EXCEPT ![t] = "read bin"] /\ back' = [back EXCEPT ![t] = "missing"] /\ UNCHANGED <<calm, clash>>
    BY <1>6, <2>1, <2>3 DEF Purposes
  <2>4. CASE Calibrate(t, "lost")
    BY <1>5, <2>1, <2>4 DEF Purposes
  <2> QED
    BY <1>8, <2>2, <2>3, <2>4 DEF Look
<1>9. CASE ReadJson(t)
  BY <1>4, <1>6, <1>9 DEF ReadJson, Purposes
<1>10. CASE ReadBin(t)
  <2>1. "none" \in Purposes
    BY DEF Purposes
  <2> QED
    BY <1>4, <1>6, <1>10, <2>1 DEF ReadBin
<1>11. CASE Wipe(t)
  <2>1. back[t] \in Purposes
    BY <1>0 DEF Moving
  <2> QED
    BY <1>5, <1>11, <2>1 DEF Wipe
<1> QED
  BY <1>7, <1>8, <1>9, <1>10, <1>11

LEMMA AcquireTyped ==
  ASSUME TruthAssumption, TInv, NEW t \in Task, Acquire(t)
  PROVE  TInv'
<1>0. Moving /\ Resting
  BY Parts
<1>1. Resting'
  BY <1>0 DEF Acquire, Resting, bounds, files, history
<1>2. /\ pc' = [pc EXCEPT ![t] = "look"] /\ "look" \in Places /\ pc[t] = "wait"
      /\ arbiter' = [arbiter EXCEPT ![Home[t]] = t] /\ arbiter[Home[t]] = Nobody
      /\ UNCHANGED <<job, back, known, calm, got, clash>>
  BY DEF Acquire, Goto, Places, Loading, history
<1>3. ASSUME NEW u \in Task, arbiter'[Home[u]] = u
      PROVE  job'[u] = "negotiate" /\ pc'[u] \notin {"idle", "wait"}
  <2>1. CASE u = t
    BY <1>0, <1>2, <2>1 DEF Moving, WaitersNegotiate
  <2>2. CASE u # t
    <3>1. arbiter[Home[u]] = u
      BY <1>0, <1>2, <1>3, <2>2 DEF Moving, TruthAssumption
    <3> QED
      BY <1>0, <1>2, <2>2, <3>1 DEF Moving
  <2> QED
    BY <2>1, <2>2
<1>4. Moving'
  BY <1>0, <1>2, <1>3 DEF Moving, WaitersNegotiate, TruthAssumption
<1> QED
  BY <1>1, <1>4, Parts

LEMMA CrashTyped ==
  ASSUME TruthAssumption, TInv, NEW p \in Process, Crash(p)
  PROVE  TInv'
<1>0. Moving /\ Resting
  BY Parts
<1>1. Resting'
  BY <1>0 DEF Crash, Resting, files, TruthAssumption
<1>2. /\ "idle" \in Places /\ "load" \in Jobs /\ "none" \in Purposes
  BY DEF Places, Jobs, Purposes
<1>3. pc' \in [Task -> Places] /\ job' \in [Task -> Jobs] /\ back' \in [Task -> Purposes]
  BY <1>0, <1>2 DEF Crash, Moving
<1>4. arbiter' \in [Process -> Task \cup {Nobody}] /\ arbiter' = [arbiter EXCEPT ![p] = Nobody]
  BY <1>0 DEF Crash, Moving
<1>5. ASSUME NEW u \in Task, arbiter'[Home[u]] = u
      PROVE  job'[u] = "negotiate" /\ pc'[u] \notin {"idle", "wait"}
  <2>1. Home[u] # p
    BY <1>0, <1>4, <1>5 DEF Moving, TruthAssumption
  <2>2. arbiter[Home[u]] = u
    BY <1>0, <1>4, <1>5, <2>1 DEF Moving, TruthAssumption
  <2> QED
    BY <1>0, <2>1, <2>2 DEF Crash, Moving
<1>6. WaitersNegotiate'
  BY <1>0 DEF Crash, Moving, WaitersNegotiate
<1>7. Moving'
  BY <1>0, <1>3, <1>4, <1>5, <1>6 DEF Crash, Moving
<1> QED
  BY <1>1, <1>7, Parts

LEMMA NextTyped == TruthAssumption /\ TInv /\ [Next]_vars => TInv'
<1> SUFFICES ASSUME TruthAssumption, TInv, [Next]_vars PROVE TInv'
  OBVIOUS
<1>1. ASSUME NEW t \in Task, NEW j \in Jobs, Call(t, j) PROVE TInv'
  BY <1>1, CallTyped
<1>2. ASSUME NEW t \in Task, Step(t) PROVE TInv'
  BY <1>2, PersistTyped, LoadTyped, AcquireTyped DEF Step
<1>3. ASSUME NEW p \in Process, Crash(p) PROVE TInv'
  BY <1>3, CrashTyped
<1>4. CASE UNCHANGED vars
  BY <1>4 DEF vars, thread, files, memory, bounds, history, TInv, TruthTypeOK, WaitersNegotiate
<1> QED
  BY <1>1, <1>2, <1>3, <1>4 DEF Next, Jobs

\* The variables keep their types; in particular who holds the ARBITER of its
\* process is in a negotiation that has not returned.
THEOREM TypeCorrect == Spec => []TruthTypeOK
<1>1. TruthAssumption
  BY TruthAssumption
<1>2. TInv => TruthTypeOK
  BY DEF TInv
<1> QED
  BY <1>1, <1>2, InitTyped, NextTyped, PTL DEF Spec

-----------------------------------------------------------------------------
(* One crash *)

\* One thread at a time writes the files.
Alone == \A t, u \in Task : pc[t] \in Persisting /\ pc[u] \in Persisting => t = u

\* How far it is with them.
Written ==
  \A t \in Task :
    /\ pc[t] = "write json" => json = "empty"
    /\ pc[t] \in {"open bin", "write bin", "lock json", "lock bin"} => json = "whole"
    /\ pc[t] \in {"lock json", "lock bin"} => bin = "whole"

\* Before a crash, a file is whole unless it is being written.
BothWhole ==
  /\ json = "whole" \/ \E t \in Task : pc[t] = "write json"
  /\ bin = "whole" \/ \E t \in Task : pc[t] = "write bin"

OneWhole == Kept \/ \E t \in Task : pc[t] = "write json"

SInv ==
  /\ ~clash => Alone
  /\ ~wiped => orphan = {}
  /\ ~clash /\ ~wiped =>
       /\ Written
       /\ settled /\ crashes = 0 => BothWhole
       /\ settled /\ crashes = 1 => OneWhole

\* A step that leaves the files alone.  Its thread t was not writing; if it
\* begins to calibrate it is alone, or it clashes.
Harmless(t) ==
  /\ UNCHANGED <<json, bin, orphan, crashes, settled, wiped>>
  /\ pc[t] \notin {"write json", "write bin"}
  /\ \E to \in (Places \ Persisting) \cup {"unlock json", "unlock bin", "open json"} :
       /\ pc' = [pc EXCEPT ![t] = to]
       /\ \/ to \notin Persisting /\ clash' = clash
          \/ pc[t] \in Persisting /\ clash' = clash
          \/ clash' = (clash \/ \E u \in Task \ {t} : pc[u] \in Persisting)

LEMMA HarmlessKeeps ==
  ASSUME Moving, SInv, NEW t \in Task, Harmless(t)
  PROVE  SInv'
<1>1. PICK to \in (Places \ Persisting) \cup {"unlock json", "unlock bin", "open json"} :
       /\ pc' = [pc EXCEPT ![t] = to]
       /\ \/ to \notin Persisting /\ clash' = clash
          \/ pc[t] \in Persisting /\ clash' = clash
          \/ clash' = (clash \/ \E u \in Task \ {t} : pc[u] \in Persisting)
  BY DEF Harmless
<1>2. /\ UNCHANGED <<json, bin, orphan, crashes, settled, wiped>>
      /\ to \notin {"write json", "open bin", "write bin", "lock json", "lock bin"}
      /\ pc'[t] = to
      /\ \A u \in Task \ {t} : pc'[u] = pc[u]
  BY <1>1 DEF Harmless, Persisting, Moving
<1>3. (~clash => Alone)'
  BY <1>1, <1>2 DEF SInv, Alone
<1>4. \A u \in Task : pc[u] \in {"write json", "write bin"} => pc'[u] = pc[u]
  BY <1>2 DEF Harmless
<1>5. Written => Written'
  BY <1>2 DEF Written
<1>6. (BothWhole => BothWhole') /\ (OneWhole => OneWhole')
  BY <1>2, <1>4 DEF BothWhole, OneWhole, Kept
<1>7. ~clash' => ~clash
  BY <1>1
<1> QED
  BY <1>2, <1>3, <1>5, <1>6, <1>7 DEF SInv

LEMMA CalibrateHarmless ==
  ASSUME NEW t \in Task, NEW purpose \in Purposes, Calibrate(t, purpose),
         pc[t] \notin {"write json", "write bin"},
         UNCHANGED <<json, bin, orphan, crashes, settled, wiped>>
  PROVE  Harmless(t)
BY DEF Calibrate, Harmless

LEMMA GoesHarmless ==
  ASSUME NEW t \in Task, NEW to \in {"idle", "wait", "look", "read json", "read bin", "wipe", "over", "register"},
         pc' = [pc EXCEPT ![t] = to], clash' = clash,
         pc[t] \notin {"write json", "write bin"},
         UNCHANGED <<json, bin, orphan, crashes, settled, wiped>>
  PROVE  Harmless(t)
<1>1. to \in Places /\ to \notin Persisting
  BY DEF Places, Calibrating, Loading, Persisting
<1> QED
  BY <1>1 DEF Harmless

LEMMA ReturnHarmless ==
  ASSUME NEW t \in Task, NEW r \in {"truth", "default", "error"}, Return(t, r),
         pc[t] \notin {"write json", "write bin"},
         UNCHANGED <<json, bin, orphan, crashes, settled, wiped>>
  PROVE  Harmless(t)
<1>1. CASE End(t) /\ UNCHANGED clash
  BY <1>1, GoesHarmless DEF End
<1>2. CASE Calibrate(t, "last")
  BY <1>2, CalibrateHarmless DEF Purposes
<1> QED
  BY <1>1, <1>2 DEF Return

LEMMA OverHarmless ==
  ASSUME NEW t \in Task, NEW ok \in BOOLEAN, Over(t, ok),
         pc[t] \notin {"write json", "write bin"},
         UNCHANGED <<json, bin, orphan, crashes, settled, wiped>>
  PROVE  Harmless(t)
<1>1. CASE End(t) /\ UNCHANGED <<known, got, clash>>
  BY <1>1, GoesHarmless DEF End
<1>2. CASE pc' = [pc EXCEPT ![t] = "read json"] /\ UNCHANGED <<job, back, memory, calm, got, clash>>
  BY <1>2, GoesHarmless
<1>3. CASE Return(t, "error") \/ Return(t, "default")
  BY <1>3, ReturnHarmless
<1> QED
  BY <1>1, <1>2, <1>3 DEF Over

\* The steps that only read, and those of the locks.
LEMMA ReadersKeep ==
  ASSUME TInv, SInv, NEW t \in Task,
         \/ \E j \in Jobs : Call(t, j)
         \/ Unlock(t, "json", "unlock json", "unlock bin")
         \/ Unlock(t, "bin", "unlock bin", "open json")
         \/ OpenFails(t) \/ Register(t) \/ Finish(t)
         \/ Acquire(t) \/ Look(t) \/ ReadJson(t) \/ ReadBin(t)
  PROVE  SInv'
<1>0. Moving
  BY Parts
<1> SUFFICES Harmless(t)
  BY <1>0, HarmlessKeeps
<1>1. /\ UNCHANGED <<json, bin, orphan, crashes, settled, wiped>>
      /\ pc[t] \notin {"write json", "write bin"}
  BY DEF Call, Unlock, OpenFails, Register, Finish, Acquire, Look, ReadJson, ReadBin, Goto,
     files, bounds, history
<1>2. ASSUME NEW j \in Jobs, Call(t, j) PROVE Harmless(t)
  <2>1. CASE Calibrate(t, "none")
    BY <1>1, <2>1, CalibrateHarmless DEF Purposes
  <2>2. CASE pc' = [pc EXCEPT ![t] = IF j = "load" THEN "look" ELSE "wait"] /\ UNCHANGED clash
    BY <1>1, <2>2, GoesHarmless
  <2> QED
    BY <1>2, <2>1, <2>2 DEF Call
<1>3. CASE Unlock(t, "json", "unlock json", "unlock bin") \/ Unlock(t, "bin", "unlock bin", "open json")
  BY <1>1, <1>3 DEF Unlock, Goto, Harmless, Persisting, history
<1>4. CASE OpenFails(t) \/ Finish(t)
  BY <1>1, <1>4, OverHarmless DEF OpenFails, Finish
<1>5. CASE Register(t) \/ Acquire(t)
  BY <1>1, <1>5, GoesHarmless DEF Register, Acquire, Goto, history
<1>6. CASE Look(t)
  BY <1>1, <1>6, GoesHarmless, CalibrateHarmless DEF Look, Purposes
<1>7. CASE ReadJson(t)
  BY <1>1, <1>7, GoesHarmless, ReturnHarmless DEF ReadJson
<1>8. CASE ReadBin(t)
  BY <1>1, <1>8, GoesHarmless, ReturnHarmless DEF ReadBin
<1> QED
  BY <1>2, <1>3, <1>4, <1>5, <1>6, <1>7, <1>8

LEMMA OpenJsonKeeps ==
  ASSUME TInv, SInv, NEW t \in Task, OpenJson(t)
  PROVE  SInv'
<1>0. Moving
  BY Parts
<1>1. /\ pc[t] = "open json" /\ pc'[t] = "write json"
      /\ \A u \in Task \ {t} : pc'[u] = pc[u]
      /\ json' = "empty"
      /\ UNCHANGED <<bin, orphan, crashes, settled, clash, wiped>>
  BY <1>0 DEF OpenJson, Goto, Moving, bounds, history
<1>2. (~clash => Alone)'
  BY <1>1 DEF SInv, Alone, Persisting
<1>3. ASSUME ~clash PROVE Written' /\ OneWhole' /\ (BothWhole => BothWhole')
  <2>1. \A u \in Task \ {t} : pc'[u] \notin Persisting
    BY <1>1, <1>2, <1>3 DEF Alone, Persisting
  <2>2. Written'
    BY <1>1, <2>1 DEF Written, Persisting
  <2> QED
    BY <1>1, <2>1, <2>2 DEF OneWhole, BothWhole, Persisting
<1> QED
  BY <1>1, <1>2, <1>3 DEF SInv

LEMMA WriteJsonKeeps ==
  ASSUME TInv, SInv, NEW t \in Task, WriteJson(t)
  PROVE  SInv'
<1>0. Moving
  BY Parts
<1>1. /\ pc[t] = "write json" /\ pc'[t] = "open bin"
      /\ \A u \in Task \ {t} : pc'[u] = pc[u]
      /\ json = "empty" => json' = "whole"
      /\ UNCHANGED <<bin, orphan, crashes, settled, clash, wiped>>
  BY <1>0 DEF WriteJson, Goto, Moving, bounds, history
<1>2. (~clash => Alone)'
  BY <1>1 DEF SInv, Alone, Persisting
<1>3. ASSUME ~clash, Written PROVE Written' /\ OneWhole' /\ (BothWhole => BothWhole')
  <2>1. \A u \in Task \ {t} : pc'[u] \notin Persisting
    BY <1>1, <1>2, <1>3 DEF Alone, Persisting
  <2>2. json' = "whole"
    BY <1>1, <1>3 DEF Written
  <2>3. Written'
    BY <1>1, <2>1, <2>2 DEF Written, Persisting
  <2>4. BothWhole => BothWhole'
    BY <1>1, <2>2 DEF BothWhole
  <2> QED
    BY <2>2, <2>3, <2>4 DEF OneWhole, Kept
<1> QED
  BY <1>1, <1>2, <1>3 DEF SInv

LEMMA OpenBinKeeps ==
  ASSUME TInv, SInv, NEW t \in Task, OpenBin(t)
  PROVE  SInv'
<1>0. Moving
  BY Parts
<1>1. /\ pc[t] = "open bin" /\ pc'[t] = "write bin"
      /\ \A u \in Task \ {t} : pc'[u] = pc[u]
      /\ orphan = {} => orphan' = {}
      /\ UNCHANGED <<json, crashes, settled, clash, wiped>>
  BY <1>0 DEF OpenBin, Goto, Moving, bounds, history
<1>2. (~clash => Alone)'
  BY <1>1 DEF SInv, Alone, Persisting
<1>3. ASSUME ~clash, Written PROVE Written' /\ OneWhole' /\ BothWhole'
  <2>1. \A u \in Task \ {t} : pc'[u] \notin Persisting
    BY <1>1, <1>2, <1>3 DEF Alone, Persisting
  <2>2. json' = "whole"
    BY <1>1, <1>3 DEF Written
  <2>3. Written'
    BY <1>1, <2>1, <2>2 DEF Written, Persisting
  <2>4. BothWhole'
    BY <1>1, <2>2 DEF BothWhole
  <2> QED
    BY <2>2, <2>3, <2>4 DEF OneWhole, Kept
<1> QED
  BY <1>1, <1>2, <1>3 DEF SInv

LEMMA WriteBinKeeps ==
  ASSUME TInv, SInv, NEW t \in Task, WriteBin(t)
  PROVE  SInv'
<1>0. Moving
  BY Parts
<1>1. /\ pc[t] = "write bin" /\ pc'[t] = "lock json"
      /\ \A u \in Task \ {t} : pc'[u] = pc[u]
      /\ orphan = {} => bin' = "whole"
      /\ UNCHANGED <<json, orphan, crashes, settled, clash, wiped>>
  BY <1>0 DEF WriteBin, Goto, Moving, bounds, history
<1>2. (~clash => Alone)'
  BY <1>1 DEF SInv, Alone, Persisting
<1>3. ASSUME ~clash, ~wiped, Written PROVE Written' /\ OneWhole' /\ BothWhole'
  <2>1. \A u \in Task \ {t} : pc'[u] \notin Persisting
    BY <1>1, <1>2, <1>3 DEF Alone, Persisting
  <2>2. json' = "whole" /\ bin' = "whole"
    BY <1>1, <1>3 DEF Written, SInv
  <2>3. Written'
    BY <1>1, <2>1, <2>2 DEF Written, Persisting
  <2> QED
    BY <2>2, <2>3 DEF OneWhole, Kept, BothWhole
<1> QED
  BY <1>1, <1>2, <1>3 DEF SInv

\* From here on there is a profile to survive.
LEMMA LocksKeep ==
  ASSUME TInv, SInv, NEW t \in Task, LockJson(t) \/ LockBin(t)
  PROVE  SInv'
<1>0. Moving
  BY Parts
<1>1. /\ pc[t] \in {"lock json", "lock bin"}
      /\ pc'[t] = "lock bin" \/ pc'[t] \notin Persisting
      /\ \A u \in Task \ {t} : pc'[u] = pc[u]
      /\ UNCHANGED <<json, bin, orphan, crashes, clash, wiped>>
  BY <1>0 DEF LockJson, LockBin, Goto, Moving, Persisting, bounds, history
<1>2. (~clash => Alone)'
  BY <1>1 DEF SInv, Alone, Persisting
<1>3. ASSUME ~clash, Written PROVE Written' /\ OneWhole' /\ BothWhole'
  <2>1. json' = "whole" /\ bin' = "whole"
    BY <1>1, <1>3 DEF Written
  <2>2. Written'
    <3>1. \A u \in Task : pc'[u] # "write json"
      <4>1. \A u \in Task \ {t} : pc[u] \notin Persisting
        BY <1>1, <1>3 DEF SInv, Alone, Persisting
      <4> QED
        BY <1>1, <4>1 DEF Persisting
    <3> QED
      BY <2>1, <3>1 DEF Written
  <2> QED
    BY <2>1, <2>2 DEF OneWhole, Kept, BothWhole
<1> QED
  BY <1>1, <1>2, <1>3 DEF SInv

\* What is deleted is not whole, or this is noted.
LEMMA WipeKeeps ==
  ASSUME TInv, SInv, NEW t \in Task, Wipe(t)
  PROVE  SInv'
<1>0. Moving
  BY Parts
<1>1. /\ pc[t] = "wipe" /\ pc'[t] = "unlock json"
      /\ \A u \in Task \ {t} : pc'[u] = pc[u]
      /\ clash' = (clash \/ \E u \in Task \ {t} : pc[u] \in Persisting)
      /\ UNCHANGED <<json, crashes, settled>>
  BY <1>0 DEF Wipe, Calibrate, Moving, bounds
<1>2. CASE UNCHANGED <<bin, orphan, wiped>>
  <2>1. back[t] \in Purposes
    BY <1>0 DEF Moving
  <2>2. Harmless(t)
    BY <1>1, <1>2, <2>1, CalibrateHarmless DEF Wipe, bounds
  <2> QED
    BY <1>0, <2>2, HarmlessKeeps
<1>3. CASE /\ bin' = "absent"
           /\ orphan' = orphan \cup {u \in Task : pc[u] = "write bin"}
           /\ wiped' = (wiped \/ bin = "whole" \/ \E u \in Task : pc[u] = "write bin")
  <2>1. (~clash => Alone)'
    BY <1>1 DEF SInv, Alone, Persisting
  <2>2. (~wiped => orphan = {})'
    BY <1>3 DEF SInv
  <2>3. ASSUME ~clash', ~wiped'
        PROVE  /\ Written'
               /\ settled' /\ crashes' = 0 => BothWhole'
               /\ settled' /\ crashes' = 1 => OneWhole'
    <3>1. ~clash /\ ~wiped /\ bin # "whole" /\ \A u \in Task \ {t} : pc[u] \notin Persisting
      BY <1>1, <1>3, <2>3
    <3>2. \A u \in Task : pc[u] \notin Persisting
      BY <1>1, <3>1 DEF Persisting
    <3>3. Written'
      BY <1>1, <3>1 DEF Written, Persisting
    <3>4. ~(settled /\ crashes = 0)
      BY <3>1, <3>2 DEF SInv, BothWhole, Persisting
    <3>5. settled /\ crashes = 1 => json = "whole"
      BY <3>1, <3>2 DEF SInv, OneWhole, Kept, Persisting
    <3> QED
      BY <1>1, <3>3, <3>4, <3>5 DEF OneWhole, Kept
  <2> QED
    BY <2>1, <2>2, <2>3 DEF SInv
<1> QED
  BY <1>2, <1>3 DEF Wipe

LEMMA CrashKeeps ==
  ASSUME TInv, SInv, NEW p \in Process, Crash(p)
  PROVE  SInv'
<1>0. Moving /\ crashes \in Nat
  BY Parts DEF Resting, Moving
<1>1. /\ \A u \in Task : pc'[u] = pc[u] \/ pc'[u] = "idle"
      /\ crashes' = crashes + 1
      /\ UNCHANGED <<json, bin, orphan, settled, clash, wiped>>
  BY DEF Crash, files
<1>2. (~clash => Alone)'
  BY <1>1 DEF SInv, Alone, Persisting
<1>3. ASSUME ~clash, ~wiped
      PROVE  Written' /\ (settled /\ crashes = 0 => OneWhole')
  <2>1. Written'
    BY <1>1, <1>3 DEF SInv, Written
  <2>2. ASSUME BothWhole PROVE Kept
    <3>1. ~\E t, u \in Task : pc[t] = "write json" /\ pc[u] = "write bin"
      BY <1>3 DEF SInv, Alone, Persisting
    <3> QED
      BY <2>2, <3>1 DEF BothWhole, Kept
  <2>3. Kept => Kept'
    BY <1>1 DEF Kept
  <2> QED
    BY <1>3, <2>1, <2>2, <2>3 DEF SInv, OneWhole
<1> QED
  BY <1>0, <1>1, <1>2, <1>3 DEF SInv

LEMMA InitKeeps == Init => SInv
<1> SUFFICES ASSUME Init PROVE SInv
  OBVIOUS
<1>1. \A t \in Task : pc[t] = "idle"
  BY DEF Init
<1>2. Alone /\ Written
  BY <1>1 DEF Alone, Written, Persisting
<1>3. PICK left \in Left : json = left.json /\ bin = left.bin /\ crashes = left.crashes
  BY DEF Init
<1>4. settled /\ crashes = 0 => json = "whole" /\ bin = "whole"
  <2>1. left.crashes = 0 => left.json = "absent" \/ (left.json = "whole" /\ left.bin = "whole")
    BY DEF Left
  <2> QED
    BY <1>3, <2>1 DEF Init
<1>5. settled /\ crashes = 1 => json = "whole" \/ bin = "whole"
  <2>1. left.crashes = 1 => left.json = "whole" \/ left.bin = "whole"
    BY DEF Left
  <2> QED
    BY <1>3, <2>1
<1>6. orphan = {}
  BY DEF Init
<1> QED
  BY <1>2, <1>4, <1>5, <1>6 DEF SInv, BothWhole, OneWhole, Kept

LEMMA NextKeeps == TInv /\ SInv /\ [Next]_vars => SInv'
<1> SUFFICES ASSUME TInv, SInv, [Next]_vars PROVE SInv'
  OBVIOUS
<1>1. ASSUME NEW t \in Task, NEW j \in Jobs, Call(t, j) PROVE SInv'
  BY <1>1, ReadersKeep
<1>2. ASSUME NEW t \in Task, Step(t) PROVE SInv'
  BY <1>2, ReadersKeep, OpenJsonKeeps, WriteJsonKeeps, OpenBinKeeps, WriteBinKeeps,
     LocksKeep, WipeKeeps DEF Step
<1>3. ASSUME NEW p \in Process, Crash(p) PROVE SInv'
  BY <1>3, CrashKeeps
<1>4. CASE UNCHANGED vars
  BY <1>4 DEF vars, thread, files, bounds, history, SInv, Alone, Written, BothWhole, OneWhole, Kept
<1> QED
  BY <1>1, <1>2, <1>3, <1>4 DEF Next, Jobs

LEMMA AtMostOne ==
  ASSUME TruthTypeOK, crashes <= 1
  PROVE  crashes = 0 \/ crashes = 1
<1>1. crashes \in Nat
  BY DEF TruthTypeOK
<1> QED
  BY <1>1

\* Once a calibration has come to its end, one crash leaves one of the two
\* files of the profile whole, unless two calibrations wrote at the same time
\* or a load deleted a binary it had not found short: persist_sovereign_state
\* truncates the binary after the JSON is written, never both.
THEOREM OneCrashSurvived == Spec => []SurvivesOneCrash
<1>1. TruthAssumption
  BY TruthAssumption
<1>2. TInv /\ SInv => SurvivesOneCrash
  <2> SUFFICES ASSUME TInv, SInv, settled, crashes <= 1, ~clash, ~wiped,
                      \A t \in Task : pc[t] # "write json"
               PROVE  Kept
    BY DEF SurvivesOneCrash
  <2>1. crashes = 0 \/ crashes = 1
    BY AtMostOne DEF TInv
  <2> QED
    BY <2>1 DEF SInv, BothWhole, OneWhole, Kept
<1> QED
  BY <1>1, <1>2, InitTyped, NextTyped, InitKeeps, NextKeeps, PTL DEF Spec

-----------------------------------------------------------------------------
(* A calm load *)

\* While a load is calm nobody writes and a file is whole; the load has gone
\* where it will find it.
CalmInv ==
  /\ got \subseteq {"truth"}
  /\ \A t \in calm :
       /\ Kept
       /\ \A u \in Task : pc[u] \notin Persisting
       /\ pc[t] \in {"wait", "look", "read json", "read bin"}
       /\ pc[t] = "read json" => json # "absent"
       /\ pc[t] = "read bin" => bin = "whole"

\* Who is not calm itself and begins to calibrate ends the calm of the others.
LEMMA CalibrationDisturbs ==
  ASSUME CalmInv, NEW t \in Task, NEW purpose, Calibrate(t, purpose),
         t \notin calm, got' = got
  PROVE  CalmInv'
<1>1. calm' = {}
  BY DEF Calibrate
<1> QED
  BY <1>1 DEF CalmInv

\* A step to a place where nothing is written.
LEMMA CalmMoves ==
  ASSUME Moving, CalmInv, NEW t \in Task, NEW to, to \notin Persisting,
         pc' = [pc EXCEPT ![t] = to],
         UNCHANGED <<json, bin>>,
         got' \subseteq {"truth"}, calm' \subseteq calm,
         t \in calm' => /\ to \in {"look", "read json", "read bin"}
                        /\ to = "read json" => json # "absent"
                        /\ to = "read bin" => bin = "whole"
  PROVE  CalmInv'
<1>1. /\ pc'[t] = to
      /\ \A u \in Task \ {t} : pc'[u] = pc[u]
  BY DEF Moving
<1>2. calm' \subseteq Task /\ calm \subseteq Task
  BY DEF Moving
<1>3. ASSUME NEW u \in calm'
      PROVE  /\ Kept'
             /\ \A v \in Task : pc'[v] \notin Persisting
             /\ pc'[u] \in {"wait", "look", "read json", "read bin"}
             /\ pc'[u] = "read json" => json' # "absent"
             /\ pc'[u] = "read bin" => bin' = "whole"
  <2>1. u \in calm
    BY <1>3
  <2>2. Kept' /\ \A v \in Task : pc'[v] \notin Persisting
    BY <1>1, <2>1 DEF CalmInv, Kept
  <2>3. CASE u = t
    BY <1>1, <1>3, <2>2, <2>3
  <2>4. CASE u # t
    BY <1>1, <1>2, <2>1, <2>2, <2>4 DEF CalmInv
  <2> QED
    BY <2>3, <2>4
<1> QED
  BY <1>3 DEF CalmInv

LEMMA CalmEnds ==
  ASSUME Moving, CalmInv, NEW t \in Task, End(t), UNCHANGED <<json, bin>>, got' \subseteq {"truth"}
  PROVE  CalmInv'
<1>1. "idle" \notin Persisting
  BY DEF Persisting
<1>2. pc' = [pc EXCEPT ![t] = "idle"] /\ calm' \subseteq calm /\ t \notin calm'
  BY DEF End
<1> QED
  BY <1>1, <1>2, CalmMoves

\* A calm load returns the truth.
LEMMA CalmReturns ==
  ASSUME Moving, CalmInv, NEW t \in Task, NEW r, Return(t, r), UNCHANGED <<json, bin>>,
         t \in calm => r = "truth"
  PROVE  CalmInv'
<1>1. got' \subseteq {"truth"}
  BY DEF Return, CalmInv
<1>2. CASE End(t)
  BY <1>1, <1>2, CalmEnds
<1>3. CASE r = "error" /\ Calibrate(t, "last")
  <2>1. t \notin calm /\ got' = got
    BY <1>3 DEF Return
  <2> QED
    BY <1>3, <2>1, CalibrationDisturbs
<1> QED
  BY <1>2, <1>3 DEF Return

LEMMA CalmOver ==
  ASSUME Moving, CalmInv, NEW t \in Task, NEW ok, Over(t, ok), UNCHANGED <<json, bin>>,
         pc[t] \notin {"wait", "look", "read json", "read bin"}
  PROVE  CalmInv'
<1>1. t \notin calm
  BY DEF CalmInv
<1>2. CASE End(t) /\ UNCHANGED <<known, got, clash>>
  BY <1>2, CalmEnds DEF CalmInv
<1>3. CASE pc' = [pc EXCEPT ![t] = "read json"] /\ UNCHANGED <<job, back, memory, calm, got, clash>>
  <2>1. "read json" \notin Persisting
    BY DEF Persisting
  <2>2. got' \subseteq {"truth"}
    BY <1>3 DEF CalmInv
  <2> QED
    BY <1>1, <1>3, <2>1, <2>2, CalmMoves
<1>4. CASE Return(t, "error") \/ Return(t, "default")
  BY <1>1, <1>4, CalmReturns
<1> QED
  BY <1>2, <1>3, <1>4 DEF Over

\* A call that finds a whole file and no calibration begins calm.
LEMMA CallCalm ==
  ASSUME Moving, CalmInv, NEW t \in Task, NEW j \in Jobs, Call(t, j)
  PROVE  CalmInv'
<1>1. pc[t] = "idle" /\ UNCHANGED <<json, bin, got>> /\ t \notin calm
  BY DEF Call, CalmInv, files
<1>2. CASE Calibrate(t, "none")
  BY <1>1, <1>2, CalibrationDisturbs
<1>3. CASE /\ pc' = [pc EXCEPT ![t] = IF j = "load" THEN "look" ELSE "wait"]
           /\ calm' = IF Kept /\ \A u \in Task : pc[u] \notin Persisting
                      THEN calm \cup {t} ELSE calm \ {t}
  <2>1. pc'[t] \in {"look", "wait"} /\ \A u \in Task \ {t} : pc'[u] = pc[u]
    BY <1>3 DEF Moving
  <2>2. calm \subseteq Task
    BY DEF Moving
  <2>3. ASSUME NEW u \in calm'
        PROVE  /\ Kept'
               /\ \A v \in Task : pc'[v] \notin Persisting
               /\ pc'[u] \in {"wait", "look", "read json", "read bin"}
               /\ pc'[u] = "read json" => json' # "absent"
               /\ pc'[u] = "read bin" => bin' = "whole"
    <3>1. Kept /\ \A v \in Task : pc[v] \notin Persisting
      BY <1>3, <2>3 DEF CalmInv
    <3>2. Kept' /\ \A v \in Task : pc'[v] \notin Persisting
      BY <1>1, <2>1, <3>1 DEF Kept, Persisting
    <3>3. CASE u = t
      BY <2>1, <3>2, <3>3
    <3>4. CASE u # t
      <4>1. u \in calm /\ u \in Task \ {t}
        BY <1>3, <2>2, <2>3, <3>4
      <4> QED
        BY <1>1, <2>1, <3>2, <4>1 DEF CalmInv
    <3> QED
      BY <3>3, <3>4
  <2> QED
    BY <1>1, <2>3 DEF CalmInv
<1> QED
  BY <1>2, <1>3 DEF Call

\* Nobody is calm while a file is being written.
LEMMA PersistCalm ==
  ASSUME Moving, CalmInv, NEW t \in Task,
         \/ Unlock(t, "json", "unlock json", "unlock bin")
         \/ Unlock(t, "bin", "unlock bin", "open json")
         \/ OpenJson(t) \/ WriteJson(t) \/ OpenBin(t) \/ WriteBin(t) \/ LockJson(t) \/ LockBin(t)
  PROVE  CalmInv'
<1>1. pc[t] \in Persisting
  BY DEF Unlock, OpenJson, WriteJson, OpenBin, WriteBin, LockJson, LockBin, Goto, Persisting
<1>2. calm = {}
  BY <1>1 DEF CalmInv
<1>3. calm' = calm /\ got' = got
  BY DEF Unlock, OpenJson, WriteJson, OpenBin, WriteBin, LockJson, LockBin, history
<1> QED
  BY <1>2, <1>3 DEF CalmInv

LEMMA LoadCalm ==
  ASSUME Moving, CalmInv, NEW t \in Task,
         \/ OpenFails(t) \/ Register(t) \/ Finish(t) \/ Acquire(t)
         \/ Look(t) \/ ReadJson(t) \/ ReadBin(t)
  PROVE  CalmInv'
<1>1. UNCHANGED <<json, bin>>
  BY DEF OpenFails, Register, Finish, Acquire, Look, ReadJson, ReadBin, files
<1>2. got \subseteq {"truth"}
  BY DEF CalmInv
<1>3. {"over", "look", "read json", "read bin", "wipe"} \cap Persisting = {}
  BY DEF Persisting
<1>4. CASE OpenFails(t) \/ Finish(t)
  <2>1. pc[t] \in {"open json", "open bin", "over"}
    BY <1>4 DEF OpenFails, Finish
  <2> QED
    BY <1>1, <1>4, <2>1, CalmOver DEF OpenFails, Finish
<1>5. CASE Register(t)
  <2>1. t \notin calm
    BY <1>5 DEF Register, Goto, CalmInv
  <2> QED
    BY <1>1, <1>2, <1>3, <1>5, <2>1, CalmMoves DEF Register, Goto, history
<1>6. CASE Acquire(t)
  BY <1>1, <1>2, <1>3, <1>6, CalmMoves DEF Acquire, Goto, history
<1>7. CASE Look(t)
  <2>1. t \in calm => Kept
    BY DEF CalmInv
  <2>2. CASE json # "absent" /\ pc' = [pc EXCEPT ![t] = "read json"] /\ UNCHANGED <<back, calm, clash>>
    BY <1>1, <1>2, <1>3, <1>7, <2>2, CalmMoves DEF Look
  <2>3. CASE json = "absent" /\ pc' = [pc EXCEPT ![t] = "read bin"] /\ UNCHANGED <<calm, clash>>
    BY <1>1, <1>2, <1>3, <1>7, <2>1, <2>3, CalmMoves DEF Look, Kept
  <2>4. CASE json = "absent" /\ bin = "absent" /\ Calibrate(t, "lost")
    BY <1>7, <2>1, <2>4, CalibrationDisturbs DEF Look, Kept
  <2> QED
    BY <1>7, <2>2, <2>3, <2>4 DEF Look
<1>8. CASE ReadJson(t)
  <2>1. t \in calm => Kept /\ json # "absent"
    BY <1>8 DEF CalmInv, ReadJson
  <2>2. CASE Return(t, "truth")
    BY <1>1, <2>2, CalmReturns
  <2>3. CASE json = "absent" /\ Return(t, "error")
    BY <1>1, <2>1, <2>3, CalmReturns
  <2>4. CASE /\ json \in {"empty", "garbled"} /\ pc' = [pc EXCEPT ![t] = "read bin"]
             /\ UNCHANGED <<job, memory, calm, got, clash>>
    BY <1>1, <1>2, <1>3, <2>1, <2>4, CalmMoves DEF Kept
  <2> QED
    BY <1>8, <2>2, <2>3, <2>4 DEF ReadJson
<1>9. CASE ReadBin(t)
  <2>1. t \in calm => bin = "whole"
    BY <1>9 DEF CalmInv, ReadBin
  <2>2. CASE bin = "whole" /\ Return(t, "truth")
    BY <1>1, <2>2, CalmReturns
  <2>3. CASE bin = "absent" /\ (Return(t, "default") \/ Return(t, "error"))
    BY <1>1, <2>1, <2>3, CalmReturns
  <2>4. CASE /\ bin = "empty" /\ pc' = [pc EXCEPT ![t] = "wipe"]
             /\ UNCHANGED <<job, back, memory, calm, got, clash>>
    BY <1>1, <1>2, <1>3, <2>1, <2>4, CalmMoves
  <2> QED
    BY <1>9, <2>2, <2>3, <2>4 DEF ReadBin
<1> QED
  BY <1>4, <1>5, <1>6, <1>7, <1>8, <1>9

LEMMA WipeCalm ==
  ASSUME CalmInv, NEW t \in Task, Wipe(t)
  PROVE  CalmInv'
<1>1. t \notin calm
  BY DEF Wipe, CalmInv
<1> QED
  BY <1>1, CalibrationDisturbs DEF Wipe

LEMMA CrashCalm ==
  ASSUME Moving, CalmInv, NEW p \in Process, Crash(p)
  PROVE  CalmInv'
<1>1. /\ UNCHANGED <<json, bin, got>>
      /\ \A u \in Task : pc'[u] = IF Home[u] = p THEN "idle" ELSE pc[u]
      /\ calm' = {u \in calm : Home[u] # p}
  BY DEF Crash, files
<1>2. calm \subseteq Task /\ "idle" \notin Persisting
  BY DEF Moving, Persisting
<1> QED
  BY <1>1, <1>2 DEF CalmInv, Kept

LEMMA NextCalm == TInv /\ CalmInv /\ [Next]_vars => CalmInv'
<1> SUFFICES ASSUME TInv, CalmInv, [Next]_vars PROVE CalmInv'
  OBVIOUS
<1>0. Moving
  BY Parts
<1>1. ASSUME NEW t \in Task, NEW j \in Jobs, Call(t, j) PROVE CalmInv'
  BY <1>0, <1>1, CallCalm
<1>2. ASSUME NEW t \in Task, Step(t) PROVE CalmInv'
  BY <1>0, <1>2, PersistCalm, LoadCalm, WipeCalm DEF Step
<1>3. ASSUME NEW p \in Process, Crash(p) PROVE CalmInv'
  BY <1>0, <1>3, CrashCalm
<1>4. CASE UNCHANGED vars
  BY <1>4 DEF vars, thread, files, history, CalmInv, Kept
<1> QED
  BY <1>1, <1>2, <1>3, <1>4 DEF Next, Jobs

\* A load beside which no other thread calibrates returns the profile and does
\* not calibrate: load_system_control falls back on the binary where the JSON
\* is torn or gone, and so a calm negotiation never asks for the ARBITER it
\* holds.
THEOREM CalmLoads == Spec => []CalmSeesTruth
<1>1. TruthAssumption
  BY TruthAssumption
<1>2. Init => CalmInv
  BY DEF Init, CalmInv
<1>3. CalmInv => CalmSeesTruth
  BY DEF CalmInv, CalmSeesTruth, Calibrating, Persisting
<1> QED
  BY <1>1, <1>2, <1>3, InitTyped, NextTyped, NextCalm, PTL DEF Spec

=============================================================================
