----------------------------- MODULE Components -----------------------------
(***************************************************************************)
(* Installed plugins, extensions and MCP servers: the hub installer        *)
(* (neural_foundry/registry/hub_installer.rs), the registry it and every   *)
(* execution load and save (registry/registry_index.rs: registry.yaml and  *)
(* its copy registry.bin), and the UnifiedExecutor (executor/sandbox.rs)   *)
(* with the cache of compiled modules behind it (inference-cel,            *)
(* execution/wasm_sandbox.rs).                                             *)
(*                                                                         *)
(* Nothing is locked.  Command lines install and remove, the server        *)
(* executes and removes, each its own file operations between those of the *)
(* others, and any of them may be killed.  A file that is being written is *)
(* Empty until its content is there.                                       *)
(***************************************************************************)
EXTENDS Naturals

CONSTANTS
  Cli,        \* processes of the command line
  Worker,     \* requests in the server
  Component,
  Preinstalled, \* those that may have been installed before
  Misplaced,  \* those the executor looks for in another directory (plugins, extensions)
  Versions,   \* bound: the versions of a component
  Absent,     \* there is no such file
  Empty,      \* truncated, not written yet
  Foreign,    \* the installer's cache of a manifest, of a type the executor cannot decode
  MaxCalls,   \* bound: the calls altogether
  MaxCrashes  \* bound: the processes killed

Version == 1..Versions
Actor == Cli \cup Worker

ASSUME ComponentAssumption ==
  /\ Cli \cap Worker = {}
  /\ Preinstalled \cup Misplaced \subseteq Component
  /\ Versions \in Nat \ {0}
  /\ \A names \in SUBSET Component : names \notin {Absent, Empty}
  /\ {Absent, Empty, Foreign} \cap Version = {}
  /\ Absent # Empty
  /\ Foreign \notin {Absent, Empty}
  /\ MaxCalls \in Nat
  /\ MaxCrashes \in Nat

VARIABLES
  dir,        \* the directory of a component exists
  manifest,   \* the version of its manifest-<type>.yaml
  cache,      \* what manifest-<type>.bin was made from
  code,       \* its binary
  yaml,       \* registry.yaml, the names in it
  bin,        \* registry.bin, the same
  wasm,       \* WASM_CACHE: a module's engine and code
  act,        \* the call each actor is in
  calls,      \* counts them; the number of a call names its WASM engine
  installed,  \* history: the components whose registration was saved, until they are removed
  behind,     \* history: the actors whose copy of the registry is older than the files
  lost,       \* history: one of them saved it, or both files were left empty
  mixed,      \* history: the components that two calls used at a time or one left half installed
  crashes

files == <<dir, manifest, cache, code>>
registry == <<yaml, bin>>
history == <<installed, behind, lost, mixed>>
vars == <<files, registry, wasm, act, calls, history, crashes>>

Idle == [op |-> "none", pc |-> "idle"]

\* The shared part of the calls: load and save.
RegistryPc == {"readBin", "readYaml", "sync", "openYaml", "writeYaml", "openBin", "writeBin"}
Pc == RegistryPc \cup
      {"download", "openCode", "writeCode", "index", "delete", "deleteDir", "deregister",
       "lookup", "saveManifest", "code", "preload", "run", "ran", "end"}

\* A call: its component, the version it installs; the registry it has loaded,
\* whether it has still to cache it, and where it goes on when it is saved;
\* the limits and the code it executes with.
Call == [op : {"install", "remove", "execute"}, pc : Pc, id : 1..MaxCalls,
         c : Component, v : Version,
         reg : SUBSET Component, again : BOOLEAN, next : {"index", "deregister", "lookup", "end"},
         limits : Version \cup {Absent}, read : Version \cup {Absent, Empty},
         ran : Version \cup {Absent, Empty}]

TypeOK ==
  /\ dir \in [Component -> BOOLEAN]
  /\ manifest \in [Component -> Version \cup {Absent}]
  /\ cache \in [Component -> Version \cup {Absent, Foreign}]
  /\ code \in [Component -> Version \cup {Absent, Empty}]
  /\ yaml \in {Absent, Empty} \cup SUBSET Component
  /\ bin \in {Absent, Empty} \cup SUBSET Component
  /\ wasm \in [Component -> [engine : 0..MaxCalls, code : Version \cup {Absent}]]
  /\ act \in [Actor -> Call \cup {Idle}]
  /\ calls \in 0..MaxCalls
  /\ installed \subseteq Component
  /\ behind \subseteq Actor
  /\ lost \in BOOLEAN
  /\ mixed \subseteq Component
  /\ crashes \in 0..MaxCrashes

Init ==
  /\ \E names \in SUBSET Preinstalled :
       /\ dir = [c \in Component |-> c \in names]
       /\ manifest = [c \in Component |-> IF c \in names THEN 1 ELSE Absent]
       /\ cache = [c \in Component |-> IF c \in names THEN Foreign ELSE Absent]
       /\ code = [c \in Component |-> IF c \in names THEN 1 ELSE Absent]
       /\ yaml = IF names = {} THEN Absent ELSE names
       /\ bin = yaml
       /\ installed = names
  /\ wasm = [c \in Component |-> [engine |-> 0, code |-> Absent]]
  /\ act = [a \in Actor |-> Idle]
  /\ calls = 0
  /\ behind = {}
  /\ lost = FALSE
  /\ mixed = {}
  /\ crashes = 0

At(a, pc) == act[a].pc = pc

\* Actor a goes on at pc, or its call returns.
Goto(a, pc) == act' = [act EXCEPT ![a].pc = pc]
Return(a) == act' = [act EXCEPT ![a] = Idle]

Using(c) == {a \in Actor : act[a] # Idle /\ act[a].c = c}

First(op) == CASE op = "install" -> "download" [] op = "remove" -> "delete" [] op = "execute" -> "readBin"

\* What is not executed has one version: nobody would tell the others apart.
Begin(a, op, c) ==
  /\ At(a, "idle")
  /\ calls < MaxCalls
  /\ calls' = calls + 1
  /\ op = "remove" => dir[c]
  /\ \E v \in IF op = "install" /\ c \notin Misplaced THEN Version ELSE {1} :
       act' = [act EXCEPT ![a] =
                 [op |-> op, pc |-> First(op), id |-> calls + 1, c |-> c, v |-> v,
                  reg |-> {}, again |-> FALSE, next |-> "end",
                  limits |-> Absent, read |-> Absent, ran |-> Absent]]
  /\ mixed' = IF Using(c) = {} THEN mixed ELSE mixed \cup {c}
  /\ UNCHANGED <<files, registry, wasm, installed, behind, lost, crashes>>

-----------------------------------------------------------------------------
\* MasterRegistry::load, sync_with_filesystem and save.

Whole(file) == file \notin {Absent, Empty}
Saving == {a \in Actor : act[a].pc \in {"writeYaml", "openBin", "writeBin"}}

\* Where a call goes on with its registry.
Loaded(op) == CASE op = "install" -> "index" [] op = "remove" -> "deregister" [] op = "execute" -> "lookup"

\* Faulty form: the source of truth first.
PreferYaml == ~Whole(yaml) /\ yaml # Empty /\ Whole(bin)

\* registry.bin is taken when it can be decoded.
PreferBin == Whole(bin)

ReadBin(a) ==
  /\ At(a, "readBin")
  /\ act' = [act EXCEPT ![a].reg = IF PreferBin THEN bin ELSE @,
                        ![a].pc = IF PreferBin THEN "sync" ELSE "readYaml"]
  /\ behind' = IF Saving = {} THEN behind \ {a} ELSE behind \cup {a}
  /\ UNCHANGED <<files, registry, wasm, calls, installed, lost, mixed, crashes>>

\* An empty document is a registry with nothing in it.  Without a file, the
\* registry is created.
ReadYaml(a) ==
  /\ At(a, "readYaml")
  /\ act' = [act EXCEPT ![a].reg = IF Whole(yaml) THEN yaml ELSE {},
                        ![a].again = yaml # Absent,
                        ![a].next = Loaded(act[a].op),
                        ![a].pc = IF yaml = Absent THEN "openYaml" ELSE "sync"]
  /\ UNCHANGED <<files, registry, wasm, calls, history, crashes>>

\* Components without a directory are dropped, and the registry saved if there
\* are any.  What came from registry.yaml is cached.
Sync(a) ==
  /\ At(a, "sync")
  /\ LET kept == {c \in act[a].reg : dir[c]}
     IN  act' = [act EXCEPT ![a].reg = kept,
                            ![a].next = Loaded(act[a].op),
                            ![a].again = @ /\ kept # act[a].reg,
                            ![a].pc = IF kept # act[a].reg THEN "openYaml"
                                      ELSE IF act[a].again THEN "openBin"
                                      ELSE Loaded(act[a].op)]
  /\ UNCHANGED <<files, registry, wasm, calls, history, crashes>>

\* Where a call has loaded the registry and may still save it.
HasCopy == (RegistryPc \ {"readBin"}) \cup {"index", "deregister"}

\* Actor a changes the files: whoever has loaded them is now behind.
Overwrite(a) ==
  /\ lost' = (lost \/ a \in behind)
  /\ behind' = (behind \cap {a}) \cup {b \in Actor \ {a} : act[b].pc \in HasCopy}

OpenYaml(a) ==
  /\ At(a, "openYaml")
  /\ yaml' = Empty
  /\ Goto(a, "writeYaml")
  /\ Overwrite(a)
  /\ UNCHANGED <<files, bin, wasm, calls, installed, mixed, crashes>>

WriteYaml(a) ==
  /\ At(a, "writeYaml")
  /\ yaml' = act[a].reg
  /\ Goto(a, "openBin")
  /\ UNCHANGED <<files, bin, wasm, calls, history, crashes>>

OpenBin(a) ==
  /\ At(a, "openBin")
  /\ bin' = Empty
  /\ Goto(a, "writeBin")
  /\ Overwrite(a)
  /\ UNCHANGED <<files, yaml, wasm, calls, installed, mixed, crashes>>

\* The load, or the call, is done: "successfully installed and registered".
WriteBin(a) ==
  /\ At(a, "writeBin")
  /\ bin' = act[a].reg
  /\ \/ /\ act[a].again
        /\ act' = [act EXCEPT ![a].again = FALSE, ![a].pc = "openBin"]
        /\ UNCHANGED installed
     \/ /\ ~act[a].again
        /\ act[a].next # "end"
        /\ Goto(a, act[a].next)
        /\ UNCHANGED installed
     \/ /\ ~act[a].again
        /\ act[a].next = "end"
        /\ Return(a)
        /\ installed' = IF act[a].op = "install" /\ dir[act[a].c]
                        THEN installed \cup {act[a].c} ELSE installed
  /\ UNCHANGED <<files, yaml, wasm, calls, behind, lost, mixed, crashes>>

-----------------------------------------------------------------------------
\* HubInstaller::install_component.

\* An installation that ends before its manifest is cached leaves the old cache.
Abort(a) ==
  /\ Return(a)
  /\ mixed' = mixed \cup {act[a].c}

\* The archive is downloaded and unpacked over what is there.  The binary is in
\* it or fetched by itself: one that the server refuses is passed over.
Unpack(a) ==
  /\ At(a, "download")
  /\ dir' = [dir EXCEPT ![act[a].c] = TRUE]
  /\ manifest' = [manifest EXCEPT ![act[a].c] = act[a].v]
  /\ \/ \E pc \in {"openCode", "readBin"} : Goto(a, pc) /\ UNCHANGED mixed
     \/ Abort(a)
  /\ UNCHANGED <<cache, code, registry, wasm, calls, installed, behind, lost, crashes>>

\* There is no archive, or tar cannot read it: the directory stays.
FailUnpack(a) ==
  /\ At(a, "download")
  /\ dir' \in {dir, [dir EXCEPT ![act[a].c] = TRUE]}
  /\ Abort(a)
  /\ UNCHANGED <<manifest, cache, code, registry, wasm, calls, installed, behind, lost, crashes>>

OpenCode(a) ==
  /\ At(a, "openCode")
  /\ \/ /\ dir[act[a].c]
        /\ code' = [code EXCEPT ![act[a].c] = Empty]
        /\ Goto(a, "writeCode")
        /\ UNCHANGED mixed
     \/ /\ ~dir[act[a].c]
        /\ Abort(a)
        /\ UNCHANGED code
  /\ UNCHANGED <<dir, manifest, cache, registry, wasm, calls, installed, behind, lost, crashes>>

\* A file that has been deleted takes what is written to it with it.
WriteCode(a) ==
  /\ At(a, "writeCode")
  /\ code' = [code EXCEPT ![act[a].c] = IF @ = Absent THEN Absent ELSE act[a].v]
  /\ Goto(a, "readBin")
  /\ UNCHANGED <<dir, manifest, cache, registry, wasm, calls, history, crashes>>

\* Faulty form: the cache of the manifest is left to the executor.
IndexNothing(c) == cache[c]

\* The manifest, parsed for the index, is cached in the place of the executor's copy.
Cached(c) == IF manifest[c] = Absent THEN cache[c] ELSE Foreign

\* register_component, and the save that follows.
Index(a) ==
  /\ At(a, "index")
  /\ cache' = [cache EXCEPT ![act[a].c] = Cached(act[a].c)]
  /\ act' = [act EXCEPT ![a].reg = @ \cup {act[a].c}, ![a].next = "end", ![a].pc = "openYaml"]
  /\ UNCHANGED <<dir, manifest, code, registry, wasm, calls, history, crashes>>

-----------------------------------------------------------------------------
\* HubInstaller::remove_component.

Delete(a) ==
  /\ At(a, "delete")
  /\ LET c == act[a].c
     IN  /\ manifest' = [manifest EXCEPT ![c] = Absent]
         /\ cache' = [cache EXCEPT ![c] = Absent]
         /\ code' = [code EXCEPT ![c] = Absent]
  /\ Goto(a, "deleteDir")
  /\ UNCHANGED <<dir, registry, wasm, calls, history, crashes>>

\* The directory stays when there is a file in it again.
DeleteDir(a) ==
  /\ At(a, "deleteDir")
  /\ LET c == act[a].c
         empty == manifest[c] = Absent /\ cache[c] = Absent /\ code[c] = Absent
     IN  /\ dir' = [dir EXCEPT ![c] = @ /\ ~empty]
         /\ installed' = installed \ {c}
  /\ Goto(a, "readBin")
  /\ UNCHANGED <<manifest, cache, code, registry, wasm, calls, behind, lost, mixed, crashes>>

\* Sync has already dropped a component whose directory is gone: deregistering
\* it is an error nobody looks at.
Deregister(a) ==
  /\ At(a, "deregister")
  /\ LET c == act[a].c
     IN  /\ \/ /\ c \in act[a].reg
               /\ act' = [act EXCEPT ![a].reg = @ \ {c}, ![a].next = "end", ![a].pc = "openYaml"]
            \/ /\ c \notin act[a].reg
               /\ Return(a)
         /\ installed' = installed \ {c}
  /\ UNCHANGED <<files, registry, wasm, calls, behind, lost, mixed, crashes>>

-----------------------------------------------------------------------------
\* UnifiedExecutor::execute.

\* The entry, its domain, and a manifest that can be read.
Found(a) ==
  LET c == act[a].c
  IN  c \in act[a].reg /\ c \notin Misplaced /\ dir[c] /\ manifest[c] # Absent

\* The cached manifest is taken when its mtime is not before that of the yaml.
\* That one is the archive's: an older cache may still be later.
LoadManifest(a) ==
  /\ At(a, "lookup")
  /\ LET c == act[a].c
     IN  \/ /\ ~Found(a)
            /\ Return(a)
         \/ /\ Found(a)
            /\ cache[c] \in Version
            /\ act' = [act EXCEPT ![a].limits = cache[c], ![a].pc = "code"]
         \/ /\ Found(a)
            /\ cache[c] # manifest[c]
            /\ act' = [act EXCEPT ![a].limits = manifest[c], ![a].pc = "saveManifest"]
  /\ UNCHANGED <<files, registry, wasm, calls, history, crashes>>

SaveManifest(a) ==
  /\ At(a, "saveManifest")
  /\ cache' = [cache EXCEPT ![act[a].c] = IF dir[act[a].c] THEN act[a].limits ELSE @]
  /\ Goto(a, "code")
  /\ UNCHANGED <<dir, manifest, code, registry, wasm, calls, history, crashes>>

ReadCode(a) ==
  /\ At(a, "code")
  /\ LET found == code[act[a].c]
     IN  IF found = Absent
         THEN Return(a)
         ELSE act' = [act EXCEPT ![a].read = found, ![a].pc = "preload"]
  /\ UNCHANGED <<files, registry, wasm, calls, history, crashes>>

Compiles(a) == act[a].read # Empty

\* preload_cache: compiled for the engine of this call.  What does not compile
\* leaves the old module, and the error is ignored.
Preload(a) ==
  /\ At(a, "preload")
  /\ wasm' = IF Compiles(a)
             THEN [wasm EXCEPT ![act[a].c] = [engine |-> act[a].id, code |-> act[a].read]]
             ELSE wasm
  /\ Goto(a, "run")
  /\ UNCHANGED <<files, registry, calls, history, crashes>>

\* Faulty form: one engine for all calls.
SharedEngine(a) == wasm[act[a].c].engine # 0

\* A module is instantiated in a store of its own engine only.
SameEngine(a) == wasm[act[a].c].engine = act[a].id

Run(a) ==
  /\ At(a, "run")
  /\ IF SameEngine(a)
     THEN act' = [act EXCEPT ![a].ran = wasm[act[a].c].code, ![a].pc = "ran"]
     ELSE Return(a)
  /\ UNCHANGED <<files, registry, wasm, calls, history, crashes>>

End(a) ==
  /\ At(a, "ran")
  /\ Return(a)
  /\ UNCHANGED <<files, registry, wasm, calls, history, crashes>>

-----------------------------------------------------------------------------
\* A command line is killed, or the server with all that runs in it.
Crash(killed) ==
  /\ crashes < MaxCrashes
  /\ crashes' = crashes + 1
  /\ \E a \in killed : act[a] # Idle
  /\ act' = [a \in Actor |-> IF a \in killed THEN Idle ELSE act[a]]
  /\ mixed' = mixed \cup {act[a].c : a \in {b \in killed : act[b] # Idle}}
  /\ behind' = behind \ killed
  /\ lost' = (lost \/ \E a \in killed : At(a, "writeYaml") /\ ~Whole(bin))
  /\ UNCHANGED <<files, registry, calls, installed>>

CrashCli(a) == Crash({a}) /\ UNCHANGED wasm

CrashServer ==
  /\ Crash(Worker)
  /\ wasm' = [c \in Component |-> [engine |-> 0, code |-> Absent]]

RegistryStep(a) ==
  \/ ReadBin(a) \/ ReadYaml(a) \/ Sync(a)
  \/ OpenYaml(a) \/ WriteYaml(a) \/ OpenBin(a) \/ WriteBin(a)

InstallerStep(a) ==
  \/ Unpack(a) \/ FailUnpack(a) \/ OpenCode(a) \/ WriteCode(a)
  \/ Index(a) \/ Delete(a) \/ DeleteDir(a) \/ Deregister(a)

ExecutorStep(a) ==
  \/ LoadManifest(a) \/ SaveManifest(a) \/ ReadCode(a)
  \/ Preload(a) \/ Run(a) \/ End(a)

Next ==
  \/ \E a \in Cli, c \in Component : Begin(a, "install", c) \/ Begin(a, "remove", c)
  \/ \E a \in Worker, c \in Component : Begin(a, "remove", c) \/ Begin(a, "execute", c)
  \/ \E a \in Actor : RegistryStep(a) \/ InstallerStep(a) \/ ExecutorStep(a)
  \/ \E a \in Cli : CrashCli(a)
  \/ CrashServer

Spec == Init /\ [][Next]_vars

-----------------------------------------------------------------------------
\* Properties.

\* What the next load will find.
Registered == IF Whole(bin) THEN bin ELSE IF Whole(yaml) THEN yaml ELSE {}

\* An installed component stays in the registry that the next load finds,
\* wherever processes are killed, unless a call has saved a copy older than the
\* files, or was killed in a save it began without a readable registry.bin.
InstalledStaysRegistered == ~lost /\ Saving = {} => installed \subseteq Registered

\* An execution that succeeds has run the code it has read itself, whatever
\* other calls have put into WASM_CACHE under the same name.
RunsWhatItRead == \A a \in Worker : At(a, "ran") => act[a].ran = act[a].read

\* The limits an execution runs under are those of the manifest as it is,
\* although a cached manifest with a later mtime is believed: unless another
\* call used the component, or one was cut short, at any time.
LimitsAreCurrent ==
  \A a \in Worker : act[a].pc \in {"code", "preload", "run"} /\ act[a].c \notin mixed
                      => act[a].limits = manifest[act[a].c]

=============================================================================
