----------------------------- MODULE SystemTruth -----------------------------
(***************************************************************************)
(* The hardware profile of the host (cluaiz-shared, hardware/governor.rs   *)
(* and system_control.rs): system_control.json, its shadow .bin, and the   *)
(* ARBITER mutex of each process.  A calibration probes the silicon and    *)
(* writes both files in place; a load reads the JSON, then the binary, and *)
(* calibrates when it finds neither; a negotiation of the context window   *)
(* loads the profile with the ARBITER in its hand, which a calibration     *)
(* locks at its end.                                                       *)
(*                                                                         *)
(* Tasks are threads of several processes; nothing locks the files but the *)
(* read-only bit, which makes an open for writing fail.                    *)
(***************************************************************************)
EXTENDS Naturals

CONSTANTS
  Task,       \* the threads
  Process,    \* the processes
  Home,       \* the process of each thread
  Nobody,     \* the mutex is free
  MaxCalls,   \* bound: calls of all threads
  MaxCrashes  \* bound: processes that are killed

ASSUME TruthAssumption ==
  /\ Home \in [Task -> Process]
  /\ Nobody \notin Task
  /\ MaxCalls \in Nat
  /\ MaxCrashes \in Nat \ {0}

VARIABLES
  pc,       \* where each thread is
  job,      \* the call it is in
  back,     \* what its calibration is for
  json,     \* system_control.json
  bin,      \* system_control.bin
  locked,   \* the files with the read-only bit
  orphan,   \* the threads whose open bin was deleted under them
  arbiter,  \* the thread that holds the ARBITER of each process
  known,    \* the processes whose total_vram_gb is that of the silicon
  calls,
  crashes,
  settled,  \* history: a calibration has come to its end
  calm,     \* history: the loads beside which no other thread has calibrated
  clash,    \* history: two calibrations at the same time
  got,      \* history: what those have returned
  wiped     \* history: a load has deleted a binary other than the one it read

thread == <<pc, job, back>>
files == <<json, bin, locked, orphan>>
memory == <<arbiter, known>>
bounds == <<calls, crashes>>
history == <<settled, calm, got, clash, wiped>>
vars == <<thread, files, memory, bounds, history>>

-----------------------------------------------------------------------------
\* Where a thread is in persist_sovereign_state.
Persisting ==
  {"unlock json", "unlock bin", "open json", "write json", "open bin", "write bin",
   "lock json", "lock bin"}

Calibrating == Persisting \cup {"register", "over"}
Loading == {"look", "read json", "read bin", "wipe"}

TruthTypeOK ==
  /\ pc \in [Task -> Calibrating \cup Loading \cup {"idle", "wait"}]
  /\ job \in [Task -> {"start", "calibrate", "load", "negotiate"}]
  /\ back \in [Task -> {"none", "lost", "missing", "torn", "last"}]
  /\ json \in {"absent", "empty", "whole", "garbled"}
  /\ bin \in {"absent", "empty", "whole"}
  /\ locked \subseteq {"json", "bin"}
  /\ orphan \subseteq Task
  /\ arbiter \in [Process -> Task \cup {Nobody}]
  /\ known \subseteq Process
  /\ calls \in 0..MaxCalls
  /\ crashes \in 0..MaxCrashes
  /\ settled \in BOOLEAN
  /\ calm \subseteq Task
  /\ got \subseteq {"truth", "default", "error"}
  /\ clash \in BOOLEAN
  /\ wiped \in BOOLEAN
  /\ \A t \in Task : arbiter[Home[t]] = t => job[t] = "negotiate" /\ pc[t] \notin {"idle", "wait"}

\* What an earlier run may have left: nothing yet, a calibration, or one that
\* was killed after another one.
Left == {[json |-> "absent", bin |-> "absent", locked |-> {}, crashes |-> 0],
         [json |-> "whole", bin |-> "whole", locked |-> {"json", "bin"}, crashes |-> 0],
         [json |-> "empty", bin |-> "whole", locked |-> {}, crashes |-> 1],
         [json |-> "whole", bin |-> "empty", locked |-> {}, crashes |-> 1],
         [json |-> "whole", bin |-> "whole", locked |-> {"json"}, crashes |-> 1]}

Init ==
  /\ pc = [t \in Task |-> "idle"]
  /\ job = [t \in Task |-> "load"]
  /\ back = [t \in Task |-> "none"]
  /\ \E left \in Left :
       /\ json = left.json
       /\ bin = left.bin
       /\ locked = left.locked
       /\ crashes = left.crashes
  /\ orphan = {}
  /\ arbiter = [p \in Process |-> Nobody]
  /\ known = {}
  /\ calls = 0
  /\ settled = (json # "absent")
  /\ calm = {}
  /\ got = {}
  /\ clash = FALSE
  /\ wiped = FALSE

-----------------------------------------------------------------------------
Goto(t, from, to) ==
  /\ pc[t] = from
  /\ pc' = [pc EXCEPT ![t] = to]

Kept == json = "whole" \/ bin = "whole"

\* t begins to calibrate, for the given purpose.
Calibrate(t, purpose) ==
  /\ pc' = [pc EXCEPT ![t] = "unlock json"]
  /\ back' = [back EXCEPT ![t] = purpose]
  /\ clash' = (clash \/ \E u \in Task \ {t} : pc[u] \in Persisting)
  /\ calm' = IF purpose = "none" THEN {} ELSE calm \cap {t}

\* A call begins; a negotiation waits for the mutex.
Call(t, j) ==
  /\ pc[t] = "idle"
  /\ calls < MaxCalls
  /\ calls' = calls + 1
  /\ job' = [job EXCEPT ![t] = j]
  /\ \/ /\ j \in {"start", "calibrate"}
        /\ Calibrate(t, "none")
     \/ /\ j \in {"load", "negotiate"}
        /\ pc' = [pc EXCEPT ![t] = IF j = "load" THEN "look" ELSE "wait"]
        /\ calm' = IF Kept /\ \A u \in Task : pc[u] \notin Persisting
                   THEN calm \cup {t} ELSE calm \ {t}
        /\ UNCHANGED <<back, clash>>
  /\ UNCHANGED <<files, memory, crashes, settled, got, wiped>>

\* Faulty form: the guard outlives the call.
Held(t) == arbiter

\* The guard of the mutex goes with the call.
Released(t) == [arbiter EXCEPT ![Home[t]] = IF @ = t THEN Nobody ELSE @]

End(t) ==
  /\ pc' = [pc EXCEPT ![t] = "idle"]
  /\ job' = [job EXCEPT ![t] = "load"]
  /\ back' = [back EXCEPT ![t] = "none"]
  /\ arbiter' = Released(t)
  /\ calm' = calm \ {t}

\* load_system_control returns r; a negotiation takes the total from it, and
\* calibrates when there is none and it has none.
Return(t, r) ==
  /\ got' = IF t \in calm THEN got \cup {r} ELSE got
  /\ \/ /\ job[t] = "load" \/ (r = "error" /\ Home[t] \in known)
        /\ End(t)
        /\ UNCHANGED <<known, clash>>
     \/ /\ job[t] = "negotiate"
        /\ r # "error"
        /\ End(t)
        /\ known' = IF r = "truth" THEN known \cup {Home[t]} ELSE known \ {Home[t]}
        /\ UNCHANGED clash
     \/ /\ job[t] = "negotiate"
        /\ r = "error"
        /\ Home[t] \notin known
        /\ Calibrate(t, "last")
        /\ UNCHANGED <<job, memory>>

\* A calibration is over: a load that had found nothing reads on, one whose
\* binary was short gives up, or takes the defaults if there was a JSON.
Over(t, ok) ==
  \/ /\ back[t] \in {"none", "last"}
     /\ End(t)
     /\ UNCHANGED <<known, got, clash>>
  \/ /\ back[t] = "lost"
     /\ ok
     /\ pc' = [pc EXCEPT ![t] = "read json"]
     /\ UNCHANGED <<job, back, memory, calm, got, clash>>
  \/ /\ back[t] = "missing" \/ (back[t] = "lost" /\ ~ok)
     /\ Return(t, "error")
  \/ /\ back[t] = "torn"
     /\ Return(t, "default")

-----------------------------------------------------------------------------
(* persist_sovereign_state. *)

Unlock(t, file, from, to) ==
  /\ Goto(t, from, to)
  /\ locked' = locked \ {file}
  /\ UNCHANGED <<job, back, json, bin, orphan, memory, bounds, history>>

\* Faulty form: the binary is truncated with the JSON.
OpenBoth(t) ==
  /\ Goto(t, "open json", "write json")
  /\ "json" \notin locked
  /\ json' = "empty"
  /\ bin' = "empty"
  /\ UNCHANGED <<job, back, locked, orphan, memory, bounds, history>>

OpenJson(t) ==
  /\ Goto(t, "open json", "write json")
  /\ "json" \notin locked
  /\ json' = "empty"
  /\ UNCHANGED <<job, back, bin, locked, orphan, memory, bounds, history>>

\* Two texts, one over the other, have different lengths.
WriteJson(t) ==
  /\ Goto(t, "write json", "open bin")
  /\ json' \in {"whole"} \cup (IF json = "empty" THEN {} ELSE {"garbled"})
  /\ UNCHANGED <<job, back, bin, locked, orphan, memory, bounds, history>>

OpenBin(t) ==
  /\ Goto(t, "open bin", "write bin")
  /\ "bin" \notin locked
  /\ bin' = "empty"
  /\ orphan' = orphan \ {t}
  /\ UNCHANGED <<job, back, json, locked, memory, bounds, history>>

WriteBin(t) ==
  /\ Goto(t, "write bin", "lock json")
  /\ bin' = IF t \in orphan THEN bin ELSE "whole"
  /\ UNCHANGED <<job, back, json, locked, orphan, memory, bounds, history>>

LockJson(t) ==
  /\ Goto(t, "lock json", "lock bin")
  /\ locked' = locked \cup {"json"}
  /\ UNCHANGED <<job, back, json, bin, orphan, memory, bounds, history>>

\* There is no bit to set on a file that was deleted.
LockBin(t) ==
  /\ pc[t] = "lock bin"
  /\ locked' = IF bin = "absent" THEN locked ELSE locked \cup {"bin"}
  /\ settled' = TRUE
  /\ pc' = [pc EXCEPT ![t] = IF job[t] = "start" THEN "over" ELSE "register"]
  /\ UNCHANGED <<job, back, json, bin, orphan, memory, bounds, calm, got, clash, wiped>>

\* A file that was locked meanwhile cannot be opened.
OpenFails(t) ==
  /\ \/ pc[t] = "open json" /\ "json" \in locked
     \/ pc[t] = "open bin" /\ "bin" \in locked
  /\ Over(t, FALSE)
  /\ UNCHANGED <<files, bounds, settled, wiped>>

\* The end of auto_calibrate: the total is set under the mutex, which is not
\* reentrant.
Register(t) ==
  /\ Goto(t, "register", "over")
  /\ arbiter[Home[t]] = Nobody
  /\ known' = known \cup {Home[t]}
  /\ UNCHANGED <<job, back, files, arbiter, bounds, history>>

Finish(t) ==
  /\ pc[t] = "over"
  /\ Over(t, TRUE)
  /\ UNCHANGED <<files, bounds, settled, wiped>>

-----------------------------------------------------------------------------
(* negotiate_vram_envelope_with_booster and load_system_control. *)

Acquire(t) ==
  /\ Goto(t, "wait", "look")
  /\ arbiter[Home[t]] = Nobody
  /\ arbiter' = [arbiter EXCEPT ![Home[t]] = t]
  /\ UNCHANGED <<job, back, files, known, bounds, history>>

Look(t) ==
  /\ pc[t] = "look"
  /\ \/ /\ json # "absent"
        /\ pc' = [pc EXCEPT ![t] = "read json"]
        /\ UNCHANGED <<back, calm, clash>>
     \/ /\ json = "absent"
        /\ bin # "absent"
        /\ pc' = [pc EXCEPT ![t] = "read bin"]
        /\ back' = [back EXCEPT ![t] = "missing"]
        /\ UNCHANGED <<calm, clash>>
     \/ /\ json = "absent"
        /\ bin = "absent"
        /\ Calibrate(t, "lost")
  /\ UNCHANGED <<job, files, memory, bounds, settled, got, wiped>>

\* Faulty form: a JSON that does not parse is the defaults.
ReadJsonOnly(t) ==
  /\ pc[t] = "read json"
  /\ Return(t, IF json = "whole" THEN "truth" ELSE "default")
  /\ UNCHANGED <<files, bounds, settled, wiped>>

ReadJson(t) ==
  /\ pc[t] = "read json"
  /\ \/ /\ json = "whole"
        /\ Return(t, "truth")
     \/ /\ json = "absent"
        /\ Return(t, "error")
     \/ /\ json \in {"empty", "garbled"}
        /\ pc' = [pc EXCEPT ![t] = "read bin"]
        /\ back' = [back EXCEPT ![t] = "torn"]
        /\ UNCHANGED <<job, memory, calm, got, clash>>
  /\ UNCHANGED <<files, bounds, settled, wiped>>

\* load_binary_truth.
ReadBin(t) ==
  /\ pc[t] = "read bin"
  /\ \/ /\ bin = "whole"
        /\ Return(t, "truth")
     \/ /\ bin = "absent"
        /\ Return(t, IF back[t] = "torn" THEN "default" ELSE "error")
     \/ /\ bin = "empty"
        /\ pc' = [pc EXCEPT ![t] = "wipe"]
        /\ UNCHANGED <<job, back, memory, calm, got, clash>>
  /\ UNCHANGED <<files, bounds, settled, wiped>>

\* A binary that is too short is deleted, whatever it is by now; where the
\* read-only bit protects it, it stays.
Wipe(t) ==
  /\ pc[t] = "wipe"
  /\ \/ /\ bin' = "absent"
        /\ locked' = locked \ {"bin"}
        /\ orphan' = orphan \cup {u \in Task : pc[u] = "write bin"}
        /\ wiped' = (wiped \/ bin = "whole" \/ \E u \in Task : pc[u] = "write bin")
     \/ /\ "bin" \in locked
        /\ UNCHANGED <<bin, locked, orphan, wiped>>
  /\ Calibrate(t, back[t])
  /\ UNCHANGED <<job, json, memory, bounds, settled, got>>

\* A process is killed with all its threads.
Crash(p) ==
  /\ crashes < MaxCrashes
  /\ \E t \in Task : Home[t] = p /\ pc[t] # "idle"
  /\ crashes' = crashes + 1
  /\ pc' = [t \in Task |-> IF Home[t] = p THEN "idle" ELSE pc[t]]
  /\ job' = [t \in Task |-> IF Home[t] = p THEN "load" ELSE job[t]]
  /\ back' = [t \in Task |-> IF Home[t] = p THEN "none" ELSE back[t]]
  /\ arbiter' = [arbiter EXCEPT ![p] = Nobody]
  /\ known' = known \ {p}
  /\ calm' = {t \in calm : Home[t] # p}
  /\ UNCHANGED <<files, calls, settled, got, clash, wiped>>

-----------------------------------------------------------------------------
Step(t) ==
  \/ Unlock(t, "json", "unlock json", "unlock bin") \/ Unlock(t, "bin", "unlock bin", "open json")
  \/ OpenJson(t) \/ WriteJson(t) \/ OpenBin(t) \/ WriteBin(t) \/ LockJson(t) \/ LockBin(t)
  \/ OpenFails(t) \/ Register(t) \/ Finish(t)
  \/ Acquire(t) \/ Look(t) \/ ReadJson(t) \/ ReadBin(t) \/ Wipe(t)

Next ==
  \/ \E t \in Task : (\E j \in {"start", "calibrate", "load", "negotiate"} : Call(t, j)) \/ Step(t)
  \/ \E p \in Process : Crash(p)

\* Threads run.
Spec ==
  /\ Init
  /\ [][Next]_vars
  /\ \A t \in Task : WF_vars(Step(t))

-----------------------------------------------------------------------------
(* Properties. *)

\* Once a calibration has come to its end, one crash, wherever it strikes,
\* leaves one of the files whole, unless two calibrations wrote at the same
\* time or a load deleted a binary it had not found short.  (The next
\* calibration truncates the only one: it must not crash.)
SurvivesOneCrash ==
  settled /\ crashes <= 1 /\ ~clash /\ ~wiped /\ (\A t \in Task : pc[t] # "write json") => Kept

\* A load beside which nobody else calibrates finds the profile, does not
\* calibrate itself, and so does not wait for the mutex it holds.
CalmSeesTruth ==
  /\ got \subseteq {"truth"}
  /\ \A t \in calm : pc[t] \notin Calibrating \cup {"wipe"}

\* The thread waits for the mutex it holds, and the others with it.
Stuck(p) == \E t \in Task : arbiter[p] = t /\ pc[t] = "register"

\* Every call ends, unless a negotiation of its process had to calibrate.
EveryCallEnds ==
  \A t \in Task : pc[t] # "idle" ~> (pc[t] = "idle" \/ Stuck(Home[t]))
=============================================================================
