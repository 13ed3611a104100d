--------------------------- MODULE BoosterSettings ---------------------------
(***************************************************************************)
(* The booster settings of HardwareGovernor (cluaiz-shared, hardware/      *)
(* governor.rs): system_booster.json and its shadow system_booster.bin,    *)
(* which every thread of every process reads with load_booster_settings    *)
(* and writes with save_booster_settings, without any lock.  A save        *)
(* truncates and writes one file after the other; a load that finds a      *)
(* readable JSON saves it again, one that does not falls back to the       *)
(* binary and deletes it when it is unreadable as well.                    *)
(*                                                                         *)
(* fs::write truncates the file when it opens it and writes after that:    *)
(* two steps, between which the file is empty.  Loading, changing and      *)
(* saving (UPDATE_BOOSTER) is a load followed by a save of one client.     *)
(***************************************************************************)
EXTENDS Naturals, FiniteSets

CONSTANTS
  Client,     \* the threads that use the settings, of any process
  Savers,     \* those that also change them
  Setting,    \* the contents of a whole settings file
  Default,    \* BoosterControl::default()
  Absent,     \* there is no such file
  Empty,      \* a file that was truncated and not written yet
  Garbled,    \* a JSON that two clients wrote over one another
  MaxFaults   \* bound: crashes and failing writes

ASSUME SettingsAssumption ==
  /\ Savers \subseteq Client
  /\ Default \in Setting
  /\ Absent \notin Setting
  /\ Empty \notin Setting
  /\ Garbled \notin Setting
  /\ Absent # Empty
  /\ MaxFaults \in Nat

VARIABLES
  pc,      \* where each client is
  saving,  \* the clients that save on their own account, not within a load
  held,    \* the control each client has in memory
  json,    \* system_booster.json
  bin,     \* system_booster.bin
  orphan,  \* the clients whose open bin was deleted under them
  kept,    \* history: what a load may return, the settings saved last and
           \* those a save that did not finish may have left
  faults

files == <<json, bin, orphan>>
vars == <<pc, saving, held, json, bin, orphan, kept, faults>>

-----------------------------------------------------------------------------
Resting == {"idle", "loaded", "saved"}

\* The client is inside save_booster_settings.
Writing == {"open", "json", "next", "bin"}

Pc == Resting \cup Writing \cup {"fallback", "wipe"}

TypeOK ==
  /\ pc \in [Client -> Pc]
  /\ saving \subseteq Savers
  /\ held \in [Client -> Setting]
  /\ json \in Setting \cup {Absent, Empty, Garbled}
  /\ bin \in Setting \cup {Absent, Empty}
  /\ orphan \subseteq Client
  /\ kept \subseteq Setting
  /\ faults \in 0..MaxFaults

\* SystemBooster::ignite has saved the settings at boot.
Init ==
  /\ pc = [c \in Client |-> "idle"]
  /\ saving = {}
  /\ held = [c \in Client |-> Default]
  /\ json \in Setting
  /\ bin = json
  /\ orphan = {}
  /\ kept = {json}
  /\ faults = 0

-----------------------------------------------------------------------------
Goto(c, from, to) ==
  /\ pc[c] = from
  /\ pc' = [pc EXCEPT ![c] = to]

\* The saves of the other clients that are under way.
Underway(c) == {held[d] : d \in {d \in saving \ {c} : pc[d] \in Writing}}

\* The load of c returns s; a later one must not go back behind it.
Loaded(c, s) == kept' = IF s \in kept THEN {s} \cup Underway(c) ELSE kept

\* load_booster_settings reads the JSON first.
Read(c) ==
  /\ pc[c] \in Resting
  /\ \/ /\ json \in Setting
        /\ pc' = [pc EXCEPT ![c] = "open"]
        /\ held' = [held EXCEPT ![c] = json]
     \/ /\ json \notin Setting
        /\ pc' = [pc EXCEPT ![c] = "fallback"]
        /\ UNCHANGED held
  /\ saving' = saving \ {c}
  /\ UNCHANGED <<files, kept, faults>>

\* The JSON does not parse: the binary is read.
ReadBin(c) ==
  /\ \/ /\ bin \in Setting
        /\ Goto(c, "fallback", "loaded")
        /\ held' = [held EXCEPT ![c] = bin]
        /\ Loaded(c, bin)
     \/ /\ bin = Absent
        /\ Goto(c, "fallback", "loaded")
        /\ held' = [held EXCEPT ![c] = Default]
        /\ Loaded(c, Default)
     \/ /\ bin = Empty
        /\ Goto(c, "fallback", "wipe")
        /\ UNCHANGED <<held, kept>>
  /\ UNCHANGED <<saving, files, faults>>

\* Faulty form: the defaults are saved in the place of what was unreadable.
WipeSaving(c) ==
  /\ Goto(c, "wipe", "open")
  /\ held' = [held EXCEPT ![c] = Default]
  /\ UNCHANGED <<saving, files, kept, faults>>

\* The binary was unreadable: it is deleted, whatever it is by now, and the
\* load returns the defaults.
Wipe(c) ==
  /\ Goto(c, "wipe", "loaded")
  /\ held' = [held EXCEPT ![c] = Default]
  /\ Loaded(c, Default)
  /\ bin' = Absent
  /\ orphan' = {d \in Client : pc[d] = "bin"}
  /\ UNCHANGED <<saving, json, faults>>

\* A client saves s, which it may have made from what it loaded.
Save(c, s) ==
  /\ c \in Savers
  /\ pc[c] \in Resting
  /\ pc' = [pc EXCEPT ![c] = "open"]
  /\ saving' = saving \cup {c}
  /\ held' = [held EXCEPT ![c] = s]
  /\ kept' = kept \cup {s}
  /\ UNCHANGED <<files, faults>>

\* Faulty form: both files are truncated before either of them is written.
OpenBoth(c) ==
  /\ Goto(c, "open", "json")
  /\ json' = Empty
  /\ bin' = Empty
  /\ UNCHANGED <<saving, held, orphan, kept, faults>>

OpenJson(c) ==
  /\ Goto(c, "open", "json")
  /\ json' = Empty
  /\ UNCHANGED <<saving, held, bin, orphan, kept, faults>>

\* What another client wrote since the file was opened is written over; the
\* texts have different lengths.
WriteJson(c) ==
  /\ Goto(c, "json", "next")
  /\ json' \in {held[c]} \cup (IF json \in {Empty, held[c]} THEN {} ELSE {Garbled})
  /\ UNCHANGED <<saving, held, bin, orphan, kept, faults>>

OpenBin(c) ==
  /\ Goto(c, "next", "bin")
  /\ bin' = Empty
  /\ orphan' = orphan \ {c}
  /\ UNCHANGED <<saving, held, json, kept, faults>>

\* The end of save_booster_settings.  The archives have one length, so the
\* last of two writers wins; what goes to a deleted file is lost.
WriteBin(c) ==
  /\ bin' = IF c \in orphan THEN bin ELSE held[c]
  /\ \/ /\ c \in saving
        /\ Goto(c, "bin", "saved")
        /\ kept' = {held[c]} \cup Underway(c)
     \/ /\ c \notin saving
        /\ Goto(c, "bin", "loaded")
        /\ Loaded(c, held[c])
  /\ UNCHANGED <<saving, held, json, orphan, faults>>

\* A file cannot be opened or written: a save reports it, a load ignores it.
WriteFails(c) ==
  /\ faults < MaxFaults
  /\ faults' = faults + 1
  /\ pc[c] \in Writing
  /\ \/ /\ c \in saving
        /\ pc' = [pc EXCEPT ![c] = "idle"]
        /\ UNCHANGED kept
     \/ /\ c \notin saving
        /\ pc' = [pc EXCEPT ![c] = "loaded"]
        /\ Loaded(c, held[c])
  /\ UNCHANGED <<saving, held, files>>

\* The process of c is killed in the middle of a load or a save.
Crash(c) ==
  /\ faults < MaxFaults
  /\ faults' = faults + 1
  /\ pc[c] \notin Resting
  /\ pc' = [pc EXCEPT ![c] = "idle"]
  /\ UNCHANGED <<saving, held, files, kept>>

-----------------------------------------------------------------------------
Next ==
  \E c \in Client :
    \/ Read(c) \/ ReadBin(c) \/ Wipe(c)
    \/ \E s \in Setting : Save(c, s)
    \/ OpenJson(c) \/ WriteJson(c) \/ OpenBin(c) \/ WriteBin(c)
    \/ WriteFails(c) \/ Crash(c)

Spec == Init /\ [][Next]_vars

-----------------------------------------------------------------------------
(* Properties. *)

\* No other client has the settings in use or in memory.
Alone(c) == \A d \in Client \ {c} : pc[d] = "idle"

\* What a client that is alone loads was saved: it is what the last save or
\* load left, or what a save that failed or crashed since then was to write
\* (load_booster_settings with its fallback against save_booster_settings).
LoadsReturnKept ==
  [][\A c \in Client :
       Alone(c) /\ pc[c] # "loaded" /\ pc'[c] = "loaded" => held'[c] \in kept]_vars

\* As long as nothing fails the JSON is never lost: but for the moment in which
\* it is being rewritten it holds what was saved, however many clients load it.
JsonKept == faults = 0 /\ (\A c \in Client : pc[c] # "json") => json \in kept
=============================================================================
