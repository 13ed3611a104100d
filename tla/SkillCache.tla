----------------------------- MODULE SkillCache -----------------------------
(***************************************************************************)
(* The compiled cache of one skill (engines/src/api/router.rs and          *)
(* neural_foundry/mod.rs): SKILL.md, the file <model>.kvcache.safetensors  *)
(* that holds the attention state a model has after reading it, and the    *)
(* file .temp_state through which the state enters and leaves a kernel.    *)
(*                                                                         *)
(* The calls of CoreRouter::generate_stream run one after the other (the   *)
(* router of a process is behind a mutex).  A call probes the cache and    *)
(* deletes one that is empty or older than SKILL.md.  When there is none   *)
(* it compiles one: in a background task, with the text of the skill in    *)
(* the prompt instead, when the prompt leaves room for it, and waiting for *)
(* it otherwise.  COMPILATION_LOCKS keeps later calls from compiling what  *)
(* is being compiled.  Then the call loads the cache if it is there.       *)
(*                                                                         *)
(* A file holds a version of the text, or what a writer left of one.       *)
(***************************************************************************)
EXTENDS Naturals, Sequences

CONSTANTS
  Versions,   \* bound: the versions of SKILL.md, one per edit or upgrade
  Slot,       \* the compile tasks there can be at a time
  NoSlot,
  Absent,     \* there is no such file
  Empty,      \* created, nothing written yet
  Torn,       \* a part of a file, which does not parse or load
  Bad,        \* a cache that parses around a torn state
  LoadFits,   \* whether a state may fit the context of the kernel
  MaxFaults   \* bound: crashes and failing file operations

Text == 1..Versions

ASSUME SkillAssumption ==
  /\ Versions \in Nat \ {0}
  /\ {Absent, Empty, Torn, Bad} \cap Text = {}
  /\ Absent \notin {Empty, Torn, Bad}
  /\ Torn \notin {Empty, Bad}
  /\ Empty # Bad
  /\ NoSlot \notin Slot
  /\ LoadFits \subseteq BOOLEAN
  /\ MaxFaults \in Nat

VARIABLES
  skillMd,   \* the version of SKILL.md
  dir,       \* the directory .cache exists
  cache,     \* the .kvcache.safetensors in it
  outdated,  \* SKILL.md has a later mtime than the cache
  temp,      \* the .temp_state in it
  locked,    \* COMPILATION_LOCKS contains the path of the cache
  at,        \* where each compile task is
  source,    \* the text each task compiles
  got,       \* the state each task has read back
  pc,        \* where the call is
  enabled,   \* enable_kvcache, as its probe has read it
  roomy,     \* the skill fits in what its prompt leaves of the context
  content,   \* the text its probe has read
  own,       \* the task it waits for (Agentic Pause)
  texts,     \* the texts it puts before the prompt
  mapped,    \* the state in the cache it has mapped
  loaded,    \* the state it has loaded into the kernel
  raced,     \* history: SKILL.md was changed during a call or a compilation
  backdated, \* history: an upgrade has brought a text older than a cache
  doubled,   \* history: a cache that was there was compiled again
  faults

skill == <<skillMd, dir>>
cached == <<cache, outdated>>
files == <<skill, cached, temp>>
tasks == <<at, source, got>>
query == <<enabled, roomy, content>>
kernel == <<mapped, loaded>>
call == <<pc, query, own, texts, kernel>>
history == <<raced, backdated, doubled>>
vars == <<files, locked, tasks, call, history, faults>>

-----------------------------------------------------------------------------
Writing == {"open", "dump", "read", "create", "head", "body", "cleanup"}

\* The last steps of a task, the good and the bad end.
Ended == {"done", "failed"}

Pc == {"idle", "probe", "discard", "body", "route", "pause", "warm", "map",
       "write", "load", "clean", "generate"}

TypeOK ==
  /\ skillMd \in Text
  /\ dir \in BOOLEAN
  /\ cache \in Text \cup {Absent, Empty, Torn, Bad}
  /\ outdated \in BOOLEAN
  /\ temp \in Text \cup {Absent, Torn}
  /\ locked \in BOOLEAN
  /\ at \in [Slot -> Writing \cup {"done", "failed", "free"}]
  /\ source \in [Slot -> Text]
  /\ got \in [Slot -> Text \cup {Bad}]
  /\ pc \in Pc
  /\ enabled \in BOOLEAN
  /\ roomy \in BOOLEAN
  /\ content \in Text
  /\ own \in Slot \cup {NoSlot}
  /\ texts \in Seq(Text)
  /\ mapped \in Text \cup {Absent, Bad}
  /\ loaded \in Text \cup {Absent}
  /\ raced \in BOOLEAN
  /\ backdated \in BOOLEAN
  /\ doubled \in BOOLEAN
  /\ faults \in 0..MaxFaults

Init ==
  /\ skillMd = 1
  /\ dir = TRUE
  /\ cache = Absent
  /\ outdated = FALSE
  /\ temp = Absent
  /\ locked = FALSE
  /\ at = [s \in Slot |-> "free"]
  /\ source = [s \in Slot |-> 1]
  /\ got = [s \in Slot |-> 1]
  /\ pc = "idle"
  /\ enabled = TRUE
  /\ roomy = FALSE
  /\ content = 1
  /\ own = NoSlot
  /\ texts = <<>>
  /\ mapped = Absent
  /\ loaded = Absent
  /\ raced = FALSE
  /\ backdated = FALSE
  /\ doubled = FALSE
  /\ faults = 0

Fault == faults < MaxFaults /\ faults' = faults + 1

-----------------------------------------------------------------------------
\* The call.

\* A prompt that matches the skill arrives.  ensure_skills_indexed creates the
\* directory again when it has to write an embedding.
Begin ==
  /\ pc = "idle"
  /\ \E fits \in BOOLEAN : roomy' = fits
  /\ dir' \in {dir, TRUE}
  /\ pc' = "probe"
  /\ UNCHANGED <<skillMd, cached, temp, locked, tasks, enabled, content, own, texts,
                 kernel, history, faults>>

\* Faulty form: the times are not compared.
ValidSize == cache # Empty

\* process_intent trusts a cache that is not empty and not older than SKILL.md.
Valid == cache # Empty /\ ~outdated

Probe ==
  /\ pc = "probe"
  /\ enabled' \in BOOLEAN
  /\ \/ /\ ~enabled'
        /\ texts' = <<skillMd>>
        /\ pc' = "warm"
     \/ /\ enabled'
        /\ cache = Absent
        /\ pc' = "body"
        /\ UNCHANGED texts
     \/ /\ enabled'
        /\ cache # Absent
        /\ pc' = IF Valid THEN "warm" ELSE "discard"
        /\ UNCHANGED texts
  /\ UNCHANGED <<files, locked, tasks, roomy, content, own, kernel, history, faults>>

Discard ==
  /\ pc = "discard"
  /\ cache' = Absent
  /\ outdated' = FALSE
  /\ pc' = "body"
  /\ UNCHANGED <<skill, temp, locked, tasks, query, own, texts, kernel, history, faults>>

\* extract_skill_body, for the list of missing caches.
ReadBody ==
  /\ pc = "body"
  /\ content' = skillMd
  /\ pc' = "route"
  /\ UNCHANGED <<files, locked, tasks, enabled, roomy, own, texts, kernel, history, faults>>

\* Faulty form: is_compiling is not asked.
NotCompiling == FALSE

\* COMPILATION_LOCKS contains the path.
Compiling == locked

\* Another call's compilation is still in progress: this call goes on without.
RouteBusy ==
  /\ pc = "route"
  /\ Compiling
  /\ pc' = "warm"
  /\ UNCHANGED <<files, locked, tasks, query, own, texts, kernel, history, faults>>

\* Compile the cache in slot s, beside the call (zero delay) or while it
\* waits (Agentic Pause).
RouteCompile(s) ==
  /\ pc = "route"
  /\ ~Compiling
  /\ at[s] = "free"
  /\ locked' = TRUE
  /\ at' = [at EXCEPT ![s] = "open"]
  /\ source' = [source EXCEPT ![s] = content]
  /\ doubled' = (doubled \/ cache # Absent)
  /\ \/ /\ roomy
        /\ texts' = Append(texts, content)
        /\ pc' = "warm"
        /\ UNCHANGED own
     \/ /\ ~roomy
        /\ own' = s
        /\ pc' = "pause"
        /\ UNCHANGED texts
  /\ UNCHANGED <<files, got, query, kernel, raced, backdated, faults>>

\* The cache is there, if only since the compilation: load it.
Warm ==
  /\ pc = "warm"
  /\ \/ /\ cache = Absent
        /\ pc' = "generate"
     \/ /\ cache # Absent
        /\ \E fits \in LoadFits : pc' = IF fits THEN "map" ELSE "generate"
  /\ UNCHANGED <<files, locked, tasks, query, own, texts, kernel, history, faults>>

\* Maps the cache and truncates temp to copy the state in it.  When the cache
\* does not parse, or temp cannot be opened, the load is tried all the same.
MapCache ==
  /\ pc = "map"
  /\ \/ /\ cache \in Text \cup {Bad}
        /\ mapped' = cache
        /\ temp' = Torn
        /\ pc' = "write"
        /\ UNCHANGED faults
     \/ /\ cache \notin Text \cup {Bad}
        /\ pc' = "load"
        /\ UNCHANGED <<mapped, temp, faults>>
     \/ /\ Fault
        /\ pc' = "load"
        /\ UNCHANGED <<mapped, temp>>
  /\ UNCHANGED <<skill, cached, locked, tasks, query, own, texts, loaded, history>>

\* A task has truncated the cache that is mapped.
Truncated == cache \in {Empty, Torn}

\* Writes the state to temp: to nowhere if temp has been deleted, and not the
\* whole of it if the write fails or the cache was truncated.
WriteTemp ==
  /\ pc = "write"
  /\ \/ /\ temp' = CASE temp = Absent -> Absent
                      [] temp # Absent /\ mapped = Bad -> Torn
                      [] OTHER -> mapped
        /\ UNCHANGED faults
     \/ /\ Truncated
        /\ temp' = IF temp = Absent THEN Absent ELSE Torn
        /\ UNCHANGED faults
     \/ /\ Fault
        /\ UNCHANGED temp
  /\ mapped' = Absent
  /\ pc' = "load"
  /\ UNCHANGED <<skill, cached, locked, tasks, query, own, texts, loaded, history>>

\* load_kv_cache; prefill("") when it fails.  The warm path follows a
\* successful load with the text of the skill.
LoadTemp ==
  /\ pc = "load"
  /\ \/ /\ temp \in Text
        /\ loaded' = temp
        /\ texts' = IF own = NoSlot THEN Append(texts, skillMd) ELSE texts
     \/ /\ temp \notin Text
        /\ loaded' = Absent
        /\ UNCHANGED texts
  /\ pc' = "clean"
  /\ UNCHANGED <<files, locked, tasks, query, own, mapped, history, faults>>

\* Faulty form: a load that failed is tried again.
RetryLoad == IF own = NoSlot /\ loaded # Absent THEN "generate" ELSE "warm"

AfterLoad == IF own = NoSlot THEN "generate" ELSE "warm"

CleanTemp ==
  /\ pc = "clean"
  /\ temp' = Absent
  /\ own' = NoSlot
  /\ pc' = AfterLoad
  /\ UNCHANGED <<skill, cached, locked, tasks, query, texts, kernel, history, faults>>

\* The kernel answers the texts and the prompt.
Generate ==
  /\ pc = "generate"
  /\ pc' = "idle"
  /\ enabled' = TRUE
  /\ roomy' = FALSE
  /\ content' = 1
  /\ texts' = <<>>
  /\ loaded' = Absent
  /\ UNCHANGED <<files, locked, tasks, own, mapped, history, faults>>

-----------------------------------------------------------------------------
\* A compile task, in a slot s: the closure that is spawned, or
\* agentic_pause_compile_cache.  It runs the text through a kernel of its own.

Goto(s, label) == at' = [at EXCEPT ![s] = label]

\* The kernel creates temp, if there is the directory.
OpenDump(s) ==
  /\ at[s] = "open"
  /\ IF dir THEN temp' = Torn /\ Goto(s, "dump")
            ELSE Goto(s, "failed") /\ UNCHANGED temp
  /\ UNCHANGED <<skill, cached, locked, source, got, call, history, faults>>

\* It writes the state, to nowhere if temp has been deleted.
WriteDump(s) ==
  /\ at[s] = "dump"
  /\ temp' = IF temp = Absent THEN Absent ELSE source[s]
  /\ Goto(s, "read")
  /\ UNCHANGED <<skill, cached, locked, source, got, call, history, faults>>

\* What the bytes of a file become when they are wrapped as a tensor.
Wrapped(file) == IF file = Torn THEN Bad ELSE file

ReadDump(s) ==
  /\ at[s] = "read"
  /\ \/ /\ temp = Absent
        /\ Goto(s, "failed")
        /\ UNCHANGED got
     \/ /\ temp # Absent
        /\ got' = [got EXCEPT ![s] = Wrapped(temp)]
        /\ Goto(s, "create")
  /\ UNCHANGED <<files, locked, source, call, history, faults>>

\* serialize_to_file creates the cache, ...
CreateCache(s) ==
  /\ at[s] = "create"
  /\ IF dir THEN /\ cache' = Empty
                 /\ outdated' = FALSE
                 /\ Goto(s, "head")
            ELSE Goto(s, "failed") /\ UNCHANGED cached
  /\ UNCHANGED <<skill, temp, locked, source, got, call, history, faults>>

\* ... and writes its header and the state.  A probe may have deleted it
\* meanwhile; then the writes go to a file without a name.
WriteCache(s, from, part, to) ==
  /\ at[s] = from
  /\ cache' = IF cache = Absent THEN Absent ELSE part
  /\ outdated' = FALSE
  /\ Goto(s, to)
  /\ UNCHANGED <<skill, temp, locked, source, got, call, history, faults>>

WriteHead(s) == WriteCache(s, "head", Torn, "body")

WriteBody(s) == WriteCache(s, "body", got[s], "cleanup")

Cleanup(s) ==
  /\ at[s] = "cleanup"
  /\ temp' = Absent
  /\ Goto(s, "done")
  /\ UNCHANGED <<skill, cached, locked, source, got, call, history, faults>>

\* Faulty form: whether the dump succeeded is not checked.
DumpUnchecked(s) ==
  /\ at[s] = "dump"
  /\ Fault
  /\ Goto(s, "read")
  /\ UNCHANGED <<files, locked, source, got, call, history>>

\* The kernel does not start, or a file operation fails: the files stay as
\* they are.
Abandon(s) ==
  /\ at[s] \in Writing \ {"cleanup"}
  /\ Fault
  /\ Goto(s, "failed")
  /\ UNCHANGED <<files, locked, source, got, call, history>>

\* The path stays locked after the task: never, the drop of the CompilationGuard
\* removes it.
LockedAfter(s) == FALSE

\* The CompilationGuard is dropped, and a call that waits goes on: to load
\* what has been compiled, unless it failed or is too large.
Release(s) ==
  /\ at[s] \in Ended
  /\ locked' = LockedAfter(s)
  /\ Goto(s, "free")
  /\ source' = [source EXCEPT ![s] = 1]
  /\ got' = [got EXCEPT ![s] = 1]
  /\ \/ /\ own # s
        /\ UNCHANGED <<pc, own>>
     \/ /\ own = s
        /\ at[s] = "done"
        /\ TRUE \in LoadFits
        /\ pc' = "map"
        /\ UNCHANGED own
     \/ /\ own = s
        /\ at[s] = "failed" \/ FALSE \in LoadFits
        /\ pc' = "warm"
        /\ own' = NoSlot
  /\ UNCHANGED <<files, query, texts, kernel, history, faults>>

-----------------------------------------------------------------------------
\* The rest of the world.

Active(s) == at[s] # "free"

\* SKILL.md gets another text.
Change ==
  /\ skillMd < Versions
  /\ skillMd' = skillMd + 1
  /\ raced' = (raced \/ pc # "idle" \/ \E s \in Slot : Active(s))
  /\ UNCHANGED <<dir, cache, temp, locked, tasks, call, doubled, faults>>

\* It is edited, which gives it the time of the edit.
Edit ==
  /\ Change
  /\ outdated' = (cache # Absent)
  /\ UNCHANGED backdated

\* HubInstaller unpacks another version over the directory, which keeps .cache.
\* tar gives SKILL.md the time it has in the archive, before that of the cache
\* or after it.
Upgrade ==
  /\ Change
  /\ outdated' \in {FALSE, cache # Absent}
  /\ backdated' = (backdated \/ (cache # Absent /\ ~outdated'))

\* SKILL_CACHE_CLEAR, from the pipe server or the command line.  The directory
\* stays when a file is created in it meanwhile.
Clear ==
  /\ dir
  /\ cache' = Absent
  /\ temp' = Absent
  /\ outdated' = FALSE
  /\ dir' \in BOOLEAN
  /\ UNCHANGED <<skillMd, locked, tasks, call, history, faults>>

\* The process is killed and started again: by hand, or by the fault it takes
\* when it reads a mapped cache that was truncated.
Restart ==
  /\ \/ (pc # "idle" \/ locked) /\ Fault
     \/ pc = "write" /\ Truncated /\ UNCHANGED faults
  /\ locked' = FALSE
  /\ at' = [s \in Slot |-> "free"]
  /\ source' = [s \in Slot |-> 1]
  /\ got' = [s \in Slot |-> 1]
  /\ pc' = "idle"
  /\ enabled' = TRUE
  /\ roomy' = FALSE
  /\ content' = 1
  /\ own' = NoSlot
  /\ texts' = <<>>
  /\ mapped' = Absent
  /\ loaded' = Absent
  /\ UNCHANGED <<files, history>>

CallStep ==
  \/ Probe \/ Discard \/ ReadBody \/ RouteBusy \/ (\E s \in Slot : RouteCompile(s))
  \/ Warm \/ MapCache \/ WriteTemp \/ LoadTemp \/ CleanTemp \/ Generate

TaskStep(s) ==
  \/ OpenDump(s) \/ WriteDump(s) \/ ReadDump(s)
  \/ CreateCache(s) \/ WriteHead(s) \/ WriteBody(s)
  \/ Cleanup(s) \/ Release(s)

Next ==
  \/ Begin
  \/ CallStep
  \/ \E s \in Slot : TaskStep(s) \/ Abandon(s)
  \/ Edit \/ Upgrade \/ Clear \/ Restart

\* A call and the tasks of the runtime are executed to their end.
Spec ==
  /\ Init
  /\ [][Next]_vars
  /\ WF_vars(CallStep)
  /\ \A s \in Slot : WF_vars(TaskStep(s))

-----------------------------------------------------------------------------
\* Properties.

\* The cache and the temp_state of a skill have one writer at a time
\* (router.rs: "Skipping duplicate Agentic Pause").
OneCompiler == \A s, t \in Slot : Active(s) /\ Active(t) => s = t

\* A cache that parses holds a whole state, whatever was interrupted or
\* failed, unless it was compiled again while it was there: only then do a call
\* and a task write temp_state at the same time.
CacheIsWhole == cache = Bad => doubled

\* What a call that has probed the cache loads was compiled from SKILL.md as
\* it is, unless it was changed during a call or a compilation (raced), or an
\* upgrade has brought a text older than the cache, which is trusted by its
\* time (backdated).  Otherwise neither a cache that has become old nor a
\* temp_state left by a failure gets into the kernel.
LoadedIsCurrent ==
  pc = "generate" /\ enabled /\ loaded # Absent /\ ~raced /\ ~backdated => loaded = skillMd

\* A call returns, if it waits for a compilation too.
EveryCallReturns == pc # "idle" ~> pc = "idle"

=============================================================================
