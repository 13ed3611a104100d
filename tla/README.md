# A verification project for Cluaiz

Cluaiz is a local LLM runtime written in Rust: an HTTP gateway and a pipe server
(`src/Inference-engine/api`), a hub that loads inference kernels as dynamic
libraries (`src/Inference-engine/engines`), the kernels (`src/interface-engines/llama`,
`onnx`), the dispatcher that queues prompts for them
(`src/interface-engines/dispatcher`), a hardware governor with persistent settings
(`cluaiz-shared/src/hardware`), a small language for agents (`src/inference-cel`) and a
command line (`src/cmd`).

These modules model the parts of it that keep state across interleaved calls, TLC
checks them on small instances, and TLAPS proves their main invariants for every
value of the constants. Everything is translated from the source; `PROJECT.json`
names, for each definition, the lines it stands for.

1. [Inventory](#1-inventory)
2. [Modules and their correspondence to the code](#2-modules-and-their-correspondence-to-the-code)
3. [Runs, bounds and what they show](#3-runs-bounds-and-what-they-show)
4. [Fairness](#4-fairness)
5. [Proofs](#5-proofs)
6. [Where the code disagrees with its documents](#6-where-the-code-disagrees-with-its-documents)
7. [What is only model-checked, and what is not modelled](#7-what-is-only-model-checked-and-what-is-not-modelled)
8. [Plan](#8-plan)

To repeat a run: `tlc -config Dispatcher.cfg MCDispatcher.tla` (the module of each
configuration is in `PROJECT.json`, `runs`). To repeat a proof:
`tlapm DispatcherProofs.tla`.

## 1. Inventory

Per component: its state, its operations, what it interacts with, what is hard about
it, and what makes it correct.

**NeuralDispatcher** (`interface-engines/dispatcher/src/lib.rs`). State: a semaphore
with four permits, a mutex around the cached engine and its path, one `cancel_flag`,
and per request a channel of 100 messages and an interception buffer. Operations:
`dispatch_stream`, the task it spawns, the C callback the kernel calls for each token.
Interacts with the kernels (FFI), the readers of the streams, `Permission.json` and the
tool loop. Hard: everything is shared by concurrent tasks, the callback runs on a
blocking thread and may block on a full channel with the mutex in hand, callers hang
up, the model is switched between resolving and locking, the kernel may panic.
Correct when one engine at most exists, a generation runs on the engine its request
resolved, no engine is freed in use, permits are conserved, triggers are neither lost
nor leaked as text, streams end with `[DONE]`, and every dispatch ends.

**ChatCompletions** (`Inference-engine/api/src/handlers/chat.rs`). State: the receiver,
the rounds left, the prompt. Operations: read a message, run the tool of a trigger,
dispatch again with its result (three rounds), disconnect. Hard: the tool loop overlaps
the end of the generation it interrupted; the stream can be dropped at any await.
Correct when every session ends, and the engine and all permits are free again.

**Llama kernel: context window** (`interface-engines/llama/src`: `lib.rs`,
`native/stream.rs`, `native/context.rs`, `native/core.rs`). State: the KV cache, the
tokens remembered as cached, a state file, and the locals of a call. Operations:
`generate_stream`, `prefill`, `dump_kv_cache`, `load_kv_cache`. Hard: a long sequence of
legal calls, each of which may stop at any of a dozen returns, leaves a cache the next
one builds on; shifts, drafts and trimming move positions. Correct when the cache is
one gapless sequence, holds the prompt when generation starts, keeps its head, and
always has a cell for the next token.

**Llama kernel: loading, sampling, configuration.** A chain of fallbacks on model load,
samplers, parameters. Correct when the chain ends with a model or an error.

**Booster settings** (`cluaiz-shared/src/hardware/governor.rs`, 576-641). State:
`system_booster.json` and `.bin`. Operations: load (which saves what it read), save.
Hard: no lock, no atomic rename, any number of threads and processes, crashes.
Correct when a load returns what was saved last and the user's JSON is never lost.

**System profile and VRAM arbiter** (`governor.rs` 40-80, 163-345, 493-548,
`hardware/system_control.rs`). State: `system_control.json` and `.bin` with their read-only
bits, and per process the `ARBITER` mutex and the VRAM it knows. Operations: calibrate
(probe the silicon and write both files), load (the JSON, else the binary, else calibrate),
negotiate the context window (load with the mutex in hand). Hard: two files written in place
by any thread of any process, a load that deletes, calibrations inside of loads, and a mutex
that a calibration asks for. Correct when one crash loses no profile, a load beside which
nobody calibrates returns the truth, and every call returns.

**Circuit breaker** (`hardware/circuit_breaker.rs`). A counter and a flag that live for
one call.

**Runtime hub and kernel loader** (`engines/src/runtime`). State: the loaded libraries.
Finds, downloads and links kernels; calls them through the C interface.

**Skill cache** (`engines/src/api/router.rs`, `engines/src/neural_foundry/mod.rs`,
`api/src/ffi_bridge.rs`). State:
`COMPILATION_LOCKS`, and on disk, per skill, `SKILL.md`, the compiled
`<model>.kvcache.safetensors` and the `.temp_state` through which a state enters and leaves a
kernel. Operations: probe and invalidate, compile in the background or while the call
waits, load, clear. Interacts with a second kernel per compilation and with the user's
editor. Hard: the lock is asked for after the cache was probed, one file serves the
compilations and the loads, files are written in place and mapped by readers, the process
may die at any write. Correct when one task writes a cache at a time, a cache that parses
is whole, what is loaded was compiled from the text as it is, the lock is always released
and no call hangs.

**Tool loop and process sandbox** (`engines/src/api/router.rs` 718-1065,
`inference-cel/src/execution/process_sandbox.rs`). State: the interceptor's buffers, the tool
that was found, the text of the second generation, and a child process with its pipes and
the thread that reads them. Operations: one per token, per step of the router, per read and
write of a pipe. Hard: triggers come in pieces, two kinds of them compete, the reader may
hang up, a child may write to both pipes or to none. Correct when no text is lost or shown
twice, a trigger that came is taken, a tool's answer is whole, and the request ends.

**Component registry, hub installer and executor**
(`neural_foundry/registry/{hub_installer,registry_index}.rs`, `executor/sandbox.rs`,
`inference-cel/src/execution/wasm_sandbox.rs`, `cmd/src/cli/component.rs`). State: per
component a directory, manifest, cached manifest and binary; `registry.yaml` and `.bin`; the
process-wide cache of compiled modules. Operations: install, remove, execute. Hard: every one
of them loads and saves the registry, nothing is locked, a manifest's cache is believed by
its mtime, the module cache is keyed by name only. Correct when what is installed stays
registered, an execution runs what it read, and under the limits of the manifest.

**Unified router**, apart from skills and tools: the matching of skills, the budget and the
HTTP server of the engine.

**IPC bridge and permissions** (`Inference-engine/api/src/ffi_bridge.rs`,
`neural_foundry/security/permission_schema.rs`, the client in `cmd/src/cli/run.rs`). State:
the listener, per connection a handler with the flags of the answer it streams, and
`Permission.json`. Operations: connect, read a command, load and save permissions, relay a
token. Hard: commands that arrive together, tags that span tokens, clients that leave, a file
that is loaded and rewritten by everyone, and whose failures are only logged. Correct when an
answer's words arrive once and as what they are, an answered update lasts unless its own save
failed, and nobody waits for somebody who waits.

**API gateway** (`Inference-engine/api`, the other handlers). Translates requests to calls.

**CEL: planner, lexer, parser** and **CEL execution** (`inference-cel/src`). The first is
pure; the second keeps a registry of integrations, an activation bus of event watchers
and sandboxes with timeouts. Hard: registration races deregistration, a timeout races an
answer, a failed load leaves effects behind.

**Model library** (`engines/src/models/{manager,fetch}`, `registry/discovery.rs`, the menu in
`cmd/src/ui/apps/registry/details.rs`). State: the directory of a model with its weights, the
`.part` file they are downloaded to, its splits or ONNX data and tokenizer, `model_manifest.json` and
`structural_dna.json`; per task an open file and a write under way. Operations: pull (by the
server, the command line and the dashboard), download in place with its abort, purge. Hard: no
lock, one name for every `.part` file, errors that are ignored beside errors that are not, writes
that nobody waits for, a process that dies. Correct when weights that are left alone are whole,
no torn file gets their name, what is listed has the weights it names, and every call returns.

**Neural foundry, skills and prompting, memory transit, telemetry, system
booster, ONNX kernel, drivers, command line and dashboard, interface and documents**:
listed with their reasons in `PROJECT.json`; most are I/O, text or thin wrappers.

### How they interact

```
 HTTP ──> handlers, chat.rs ──dispatch_stream──> dispatcher ──C ABI──> llama kernel
   ^          │   ^  tool                          │   ^                  │
   │          └───┘ (executor)                     │   └── callback ──────┤
   └───────────── stream of messages ──────────────┤                      │
 pipe ──> ffi_bridge (filter, permissions) <───────┘                      │
 router: skill cache, tool loop ── prefill / dump / load / generate ─────>┤
    └── tool ──> executor ──> process sandbox, WASM sandbox                │
 command line ──> hub installer ──> registry, component files             │
 governor (booster settings, system profile, VRAM) <── read on every call ┘
```

## 2. Modules and their correspondence to the code

| module | models | relation |
|---|---|---|
| `InferenceQueue` | what the dispatcher promises: requests wait, one is served at a time, all are finished once | abstract |
| `Dispatcher` | `dispatch_stream`, its task, the callback | implements `InferenceQueue` |
| `ChatCompletions` | sessions and the tool loop | composes with `Dispatcher` (EXTENDS, conjoined actions) |
| `ContextWindow` | the KV cache of one llama engine | |
| `BoosterSettings` | the two settings files and their clients | |
| `SkillCache` | the compiled cache of one skill, the calls and tasks that use it | |
| `ProcessTool` | a tool's process, its pipes and the thread that reads them | |
| `ToolLoop` | the interceptor, the tool call and the second generation of a request | composes with `ProcessTool` (EXTENDS, conjoined actions) |
| `Components` | the files of components, the registry and the module cache | |
| `PipeBridge` | listener, connections, answers and the permission file of the daemon's pipe | |
| `SystemTruth` | the profile's two files, the arbiter of each process, calibration | |
| `ModelLibrary` | the directory of one model, the tasks that pull, download and purge it | |
| `MCDispatcher`, `MCContextWindow`, `MCBoosterSettings`, `MCComponents`, `MCToolLoop`, `MCPipeBridge`, `MCSystemTruth`, `MCModelLibrary` | symmetry, prompts, scenarios, tokens and processes of the instances | |
| `DispatcherProofs`, `ContextProofs`, `BoosterProofs`, `SkillProofs`, `ComponentProofs`, `ToolLibraryProofs`, `BridgeProofs`, `TruthProofs` | theorems | extend the module they are about; `DispatcherProofs` extends `ChatCompletions`, `ToolLibraryProofs` both `ToolLoop` and `ModelLibrary`, which share no name |

Operators marked *Faulty form* are what a plausible mistake would make of the operator
that follows them; no action uses them. They are listed in `PROJECT.json`, `mutants`,
with the property each one breaks.

**Dispatcher.** `pc[r]` is where the task of request `r` stands. The task's locals are
functions of `r` (`path`, `buf`, `tokens`, `outcome`, `outbox`); `permits`, `owner`,
`cached`, `cancel` are the semaphore, the mutex, the cached engine and the flag. A
channel is `sent[r]`, everything that entered it, with `taken[r]`, how much was read.
Tokens are abstracted to what the callback tells apart: text, the piece that opens
`<TRIGGER:`, the piece that closes it. An await or a blocking call is a boundary between
two actions; what happens between two of them is one action. In particular
`SendTrigger` and `RaiseCancel` are two actions, as the callback sends the trigger
before it raises the flag. `KernelMissing` is the panic of `blocking_send` on a runtime
thread, `PromptPanics` that of `CString::new(prompt).unwrap()` on a prompt with a NUL
(`lib.rs:213`): both drop guard, permit and sender without a message, the second with the
engine cached.

**ChatCompletions.** `phase[s]`, `cur[s]` (its receiver) and `iters[s]` (`max_iters`) are
the locals of a handler. Each of its actions is conjoined with the dispatcher's action it
causes: `Begin` and `Resume` with `Dispatch`, `Read` with `Receive`; `DropReceiver` is
`HangUp` for a receiver no session owns any more. `Disconnect` is possible wherever the
handler awaits.

**ContextWindow.** `kv` maps each occupied position to its token. A call is a sequence of
actions: it begins (`Extend` with prefix matching, `Continue` for a pivot, `Restart` for a
prompt that is too long), ingests batches, samples, and then alternates between the part
of the loop before the decode (`Show`, with the shift) and the decode with its drafts
(`Decode`, or `DecodeFails` with the retry after a forced shift). `discard` is what the mode of
the engine drops at a time. Every early return is
an alternative of one of them, and `Return` is what `generate_stream` of `lib.rs` does
around it: it forgets the remembered tokens. llama.cpp is external: a decode stores its
tokens at the positions it is given and fails if they do not fit.

**BoosterSettings.** `fs::write` truncates on opening and writes afterwards, so a save is
four steps (`OpenJson`, `WriteJson`, `OpenBin`, `WriteBin`) and a load is a read followed by
the same steps, or by the binary and, if that is unreadable, by its deletion. An open file
that was deleted is an `orphan`: what is written to it is lost. `kept` is a history
variable: the settings a load may return.

**SkillCache.** The router of a process is behind a mutex, so there is one call at a time,
at `pc`: it probes (`Probe`, `Discard`), reads the text of the skill (`ReadBody`), starts a
compilation or finds one (`RouteCompile`, `RouteBusy`), loads (`Warm`, `MapCache`, `WriteTemp`,
`LoadTemp`, `CleanTemp`) and generates. A compilation is a task in a slot `s`, at `at[s]`, and
goes on beside later calls; the call that waits for it has `own = s`. Each operation on a
file is a step: opening truncates, so `temp` and `cache` go through `Torn` and `Empty` before
they hold a version of the text. A file that was deleted while it was written stays
deleted. `Bad` is a cache that parses around a torn state, since serializing wraps whatever
bytes it is given. `LoadFits` are the outcomes of the comparison of the size of the skill
with the context: both, as nothing here depends on the size. `Restart` is a kill, and also
the bus error of a process that reads a mapped file somebody truncated. `Edit` gives
`SKILL.md` the time of the edit; `Upgrade`, the hub's `tar` over the directory, the time it has in the
archive, so `outdated` may stay or become false. `raced`, `doubled` and `backdated` are history
variables that name what the code leaves open (section 6).

**ProcessTool** and **ToolLoop.** A pipe is counted, not spelled: `made` and `taken` are the
units written to and read from stdout and stderr, `Capacity` what a pipe holds. `AtEnd` is the
end of a `read_to_end`: nobody has the other end open (`InUse`) and nothing is left in the pipe. `heirs`
are the pipes that descendants of the child have open: they inherit them (`Fork`), may write to
them, and may outlive the child, which a kill of the child does not change. The kill may fail
(`spared`). The child's actions and theirs are external and never forced. `ToolLoop` splits text
into the symbols that the interceptor distinguishes: `TRIGGER:`, the brackets and braces, the
two halves of the dynamic trigger, a character of several bytes, anything else. A token is a
sequence of them, so a trigger can be cut anywhere between two symbols. One `Token` is one
action: `Collect` (a trigger is being captured), `Start` (one begins), `Hold` (one may begin),
`Pass`; the order of the code's `if`s is in `Sought`. `Fallback`, `TakeTrigger`, `CallTool`,
`ToolReturns` and `Resume` are the router between the generations, `Continue` the second one.
A slice that panics ends in `aborted`.

**Components.** `act[a]` is the call an actor is in, with its locals, among them the registry it
has loaded (`reg`). Load and save are shared by the calls (`ReadBin`, `ReadYaml`, `Sync`,
`OpenYaml` .. `WriteBin`), and `next` tells where the call goes on afterwards. `Unpack`,
`OpenCode`, `WriteCode` and `Index` are the installer, `LoadManifest` to `Run` the executor. The
number of a call names its WASM engine, as each execution makes one: `SameEngine` is why
a module another call left in the cache fails to instantiate rather than to run. `behind` and
`lost` record that a call has saved an older copy, `mixed` that two calls used a component at
a time.

**PipeBridge.** `handler[c]` is where the task of a connection stands, `inbox[c]` the commands in
its pipe; a read takes any number of them for one (`Parsed`). A file operation of
`PermissionSchema` is a step, as in the booster settings, and each of them may fail: a load that
cannot read goes on with the defaults (`Load`, `CreateFails`), a save that cannot write is
answered like one that can (`SaveFails`). `lost` is what the failing operations have destroyed:
the update, or all of the file. `answer[c]` holds the two flags and
the buffer of the stream filter with histories of what was said and where it went; the model
says tokens of one or two symbols, the tags and the halves of one among them.

**SystemTruth.** A thread is at `pc`, in a `job`; `back` says for which load it calibrates. Both
files go through `empty`, and the read-only bits (`locked`) make an open fail (`OpenFails`).
`orphan` are threads writing to a binary that was deleted under them. `Released` is where a
negotiation gives up the mutex: not while it calibrates, and `Register` waits for it.
`known` are the processes that have learned the size of the VRAM.

**ModelLibrary.** A file is an inode, as `tokio::fs::File` goes on writing the file it opened,
whatever a rename, a purge or another task does to its name; `part` and `weights` name inodes,
`file[i]` holds the chunks written to one. `task[t]` is a task's place in the call with its open
file (`fd`), the `next` chunk and the write that was handed to another thread (`pending`):
`write_all` returns when the chunk is handed over and reports the failure of the chunk before,
and dropping the file waits for nothing. `entry` is what the manifest names: a GGUF file with its
splits beside it, one with splits in a subdirectory, an ONNX file with its data, or no file, when
the roster has a `repo_url` only. `Look` to `Rename` are `download_weights`, which brings the
`data` of an ONNX model too (`FetchData` to `RenameData`), by the same `.part` file; `FetchExtras` to
`WriteDna` the rest of `pull_model_with_manifest`; a task with `inPlace` is `download_gguf_async`, which
shares `Create` to `StreamEnds` and the last two steps with it. Opening a name that exists truncates
its inode, whoever writes to it (`Open`). `Unlink` is one sweep of `remove_dir_all`, which may leave
anything, `Rmdir` its end. `shared` and `lost` are histories of an inode, `meddled` of the directory.
Inodes are those of Unix; the model's id has no colon (section 6).

## 3. Runs, bounds and what they show

| run | asks | instance | states |
|---|---|---|---|
| `dispatcher` | do the engine cache, the streams and the flag stay right under every interleaving? does it implement the queue? | 2 requests, 2 models, 2 slots, channels of 1, 2 tokens | 264 000 |
| `dispatcher_cancel` | violation: is the flag bound to one generation? | 2 requests, 1 model, 1 token | |
| `chat_tool` | do sessions end, is all given back, and is the queue's liveness implemented? | 1 streaming session, 2 rounds, 3 requests, 2 slots | 12 800 |
| `context` | does the cache stay sound over any sequence of calls and failures, in every mode? | 6 cells, batches of 3, 3 prompts, modes that drop nothing, 2 and 3 cells, 2 drafts, 3 tokens | 100 000 |
| `context_extreme` | violation: does the window slide before it is full in mode 4, too? | the same with the mode that drops half | |
| `booster` | one client, one crash or failing write: is anything lost? do clients that only load keep the JSON? | 3 settings; 1 client and 1 fault, or 3 clients and none | 25 000 |
| `skill_cache` | is a cache compiled once, whole and current, and does every call return, with crashes, failures, edits, upgrades and clearing? | 2 versions, 2 slots, 2 faults | 386 000 |
| `components` | does what is installed stay registered, does an execution run what it read, under the limits there are? | a command line and 2 requests, 2 components, 2 versions, 3 calls, 1 crash | 3 780 000 |
| `tools` | is text neither lost nor shown twice, a trigger taken, a tool's answer whole, and does the request end? | 3 tokens of 1 or 2 symbols, then 2 more, pipes of 1, 1 unit of output and 2 of errors, descendants | 697 000 |
| `bridge` | do an answer's words go where they belong, does an update last, does nobody wait for somebody who waits? | the command line and an application, 2 permissions, 3 tokens of 4 words, 2 commands, 2 failures of the listener, any number of the file | 1 360 000 |
| `host` | does one crash lose the profile, does an undisturbed load return the truth, does every call return? | 3 threads, 2 processes, 2 calls, 2 crashes | 63 700 |
| `library` | are weights whole however calls overlap, does no torn file get their name, has a listed model its weights, does every call return? | 2 tasks, 3 calls (2 where the manifest adds steps), 2 chunks, 1 fault, 4 manifests | 332 000 |

Why the bounds are enough for the cases that matter:

- *Two requests* are what every hazard of the dispatcher takes: one that runs and one that
  waits, is dispatched, or switches the model. Two slots let both be admitted so that they
  meet at the mutex; the semaphore itself blocks in `chat_tool`, where three requests share
  two slots. A channel of one message fills at once, so every blocking send is seen
  blocked. Two tokens are the least with which a trigger can be opened and closed in
  separate callbacks, and with which a text can precede one.
- *Two rounds* of the tool loop: one whose stream is read and one whose stream is not.
- *Six cells* with batches of three make a prompt that takes several batches, one that fills
  half of the context, which is what mode 4 stumbles over, and one that is trimmed; with a
  discard of two or three and a margin of one the window shifts within two tokens. The number
  of calls is not bounded: the state space of the cache is finite, and calls of all kinds
  follow one another in it. A pivot after a cached conversation overflows six cells. The three
  prompts are one that has nothing in common with the others, and one that the trimmed one
  begins with. (A prompt of a single cell instead of the first takes 890 000 states or more; that
  was checked, too.)
- *One fault* in `booster`, where one client saves: a second crash during the recovery of the
  first one can destroy both files. The bound is the statement (`SurvivesOneFault` in section 5).
  *Three readers* where none saves are one more than a pair that truncates and reads.
- *Two slots* in `skill_cache` are what a second compiler would need; that it never takes its
  slot is `OneCompiler`. *Two versions* are an edit or an upgrade before,
  during or after a call or a compilation (with three, an edit and an upgrade in either order, it
  was also checked: 1 170 000 states). *Two faults* let a failing write be followed by a restart, and
  the recovery from one crash be struck by another. The number of calls is not bounded.
- *Three calls and one crash* in `components`: an installation, an upgrade or a removal, and an
  execution, at the same time or one after the other, with a kill in any of them; two
  requests and one component are what the module cache is disputed by. One component may be
  installed at the start and one is misplaced, so that the failing lookup happens too.
- *Three tokens* in `tools`, of one symbol or of two, open, fill and close either kind of trigger,
  and cut it at any place but behind a single `<`, which comes with a neighbour. It was also
  checked with four tokens, which allow every cut of a short trigger, and with descendants that
  go on with stderr alone (2 670 000 states). Pipes of one unit block every second write, so that
  stderr blocks the child while the thread still reads stdout. Descendants inherit all the
  pipes, so that the thread is held.
- *Two connections* in `bridge` are a load beside a save, and a connection the listener makes
  while another one is refused; the permission file starts with any subset of the keys, so
  that one update shows the loss of another (the two are symmetric). Three tokens open,
  fill and close a script, or open a thought and think it. With the tag that closes a thought, and
  with half a tag in the token of another, it was also checked (3 720 000 states). Two commands can be
  read as one.
- *Two crashes* in `host` are one more than the property allows for: the second shows that it
  says something, and that calls still end. The initial states (`Left`) include the files an
  earlier crash has left, so that two calls are a recovery and a reader beside it. The
  safety properties were also checked with three calls (5 200 000 states).
- *Three calls of two tasks* in `library` are two pulls that meet and one that comes after them,
  or a pull, a purge or an abort beside it, and a repair. *Two chunks* are the least of which
  one is not the last; *one fault* is a crash, a broken connection or a failing write anywhere
  (it was also checked with two, 607 000 states). *Four inodes*: both names, and an open file
  without a name of either task. *Two calls* when the splits lie in a subdirectory or the model
  is an ONNX one: these add two pulls that meet, one at the weights and one at the data (ONNX alone
  was also checked with three calls, 1 280 000 states).

Bounds named in the modules: `Slots` (4 in the code), `Capacity` (100 messages of a channel;
65 536 bytes of a pipe), `MaxTokens` (4096 for the dispatcher, `max_tokens` of a call in the
window), `MaxIters` (3), `NCtx`, `NBatch`, `Discards`, `Margin` (32), `Reserve` (256), `MaxThink` (4096),
`MaxDrafts` (4), `Window` (30) and `Keep` (20), `MaxResult`, `MaxFailures` (10) are limits the code
has itself. `MaxFaults`, `Versions`, `Slot`, `MaxCalls`, `MaxCrashes`, `MaxCommands`, `MaxAnswer`,
`MaxOutput`, `MaxErrors`, `Heirs`, `Entries`, and the `MaxTokens` of `ToolLoop` and `PipeBridge`, bound the instance.

Deadlock is not checked in `components`, `tools`, `bridge`, `host` and `library`, which stop at their
bounds. The type invariants of the proved modules are theorems (section 5) and are in no run.

The invariants in short (each is stated where it is defined):

- Dispatcher: `OneEngineResident`, `GeneratesOnResolvedModel` about the shared resources;
  `TriggerDelivered`, `NoTextAfterTrigger`, `StreamsEndWithDone` about the streams;
  `CancelBeforeFirstToken` about the shared flag: it can stop the wrong generation, but never
  one that has produced something. `QueueSafety` and, in `chat_tool`, `QueueSpec` say that it
  implements `InferenceQueue`, without and with liveness.
- Chat: `EverySessionEnds`, `EngineReleased`.
- Context: `Contiguous`, `PromptIngested`, `PromptHeadKept`, `ShiftedInTime`,
  `GenerationEnds`; `SlidesBeforeOverflow` is what a document says, and false.
- Booster: `LoadsReturnKept`, `JsonKept`.
- Skill cache: `OneCompiler`, `CacheIsWhole`, `LoadedIsCurrent`, `EveryCallReturns`.
- Components: `InstalledStaysRegistered`, `RunsWhatItRead`, `LimitsAreCurrent`.
- Tools: `Accounted` (what was said is shown or held, in order), `TriggersCaught`,
  `AnswerIsWhole`, `EveryRequestEnds` (and the reading thread ends, unless a pipe is held open).
- Bridge: `AnswersFaithful`, `UpdatesKept`, `NobodyWaits`.
- Host: `SurvivesOneCrash`, `CalmSeesTruth`, `EveryCallEnds`.
- Library: `QuietIsWhole` (when all calls are over and nothing has failed), `PartIsAtomic` (at every
  moment, whatever fails), `ListedIsComplete`, `EveryCallReturns`.

Several of them except what the code gets wrong, by a history variable that names it: `raced`,
`backdated`, `doubled`, `lost`, `mixed`, `masked`, `overlap`, `silent`, `clash`, `wiped`, `shared`, `meddled`. Each of these
exceptions is described in section 6; the property says that nothing else goes wrong.

## 4. Fairness

- *Dispatcher.* `WF(TaskStep(r))`: tokio polls a task that is ready, and the kernel goes on
  producing tokens or ends; a task that is blocked on a full channel is not enabled.
  `WF(Receive(r))`: a caller that has not hung up reads; both of its kinds, the HTTP stream
  and the pipe, do nothing else. Without it a caller that neither reads nor leaves keeps
  the engine for ever, which is a property of the code: nothing times out. `SF` for
  `AcquireSlot` and `LockEngine`: tokio's semaphore and mutex queue their waiters in FIFO
  order, so a waiter is passed over finitely often. `Dispatch`, `HangUp` and `SwitchModel` are
  never forced.
- *ChatCompletions.* The same for the tasks, `WF(SessionStep(s))` for sessions (tools are
  assumed to return; `UnifiedExecutor` has a timeout only for processes), and
  `WF(DropReceiver(r))`: a dropped receiver is dropped. `Disconnect` is never forced.
- *ContextWindow.* `WF(Step)`: a call is one function on one thread. Nothing is assumed about
  the callback or the samplers.
- *BoosterSettings*, *Components* and *PipeBridge* have safety properties only.
- *SkillCache.* `WF(CallStep)`: a call is one function that awaits nothing but the compilation it
  started. `WF(TaskStep(s))` for each slot: tokio runs spawned tasks, and a kernel that reads a
  text returns. A new call, an edit, an upgrade, the clearing, a failure and a restart are never forced.
- *ToolLoop.* `WF(EndOfText)` and `WF(ContinueEnds)`: a generation comes to its end, by its limit of
  tokens if nothing else. `WF(Router)`: the router is one thread. `ProcessFairness`: the caller
  and the reading thread run, and the timeout of `recv_timeout` comes. Nothing is assumed about
  the child and its descendants: they may read nothing and write nothing for ever. The payload is
  assumed to fit into the pipe (section 6).
- *SystemTruth.* `WF(Step(t))`: threads run. Calls and crashes are never forced.
- *ModelLibrary.* `WF(Works(t))`: a task goes on, and the server sends the next chunk or
  the connection breaks. The client of a pull has no timeout (`installer.rs:30`): a server that does
  neither holds it for ever. A write that was handed over comes to its end. Calls, aborts,
  failures and crashes are never forced.

## 5. Proofs

`DispatcherProofs` (from `DispatcherAssumption` alone):

- `TypeCorrect`. The only conjunct that is not a matter of form is that a generation
  never exceeds `MaxTokens`.
- `Residency`, `EngineIdentity`, `NoMidAnswerCancel`, `NoUseAfterFree` follow from the inductive
  invariant `IInv`: `EngineExclusive` (the tasks in the locked region are exactly the owner
  of the mutex, so there is one at most), `PathResolved` (whoever got past resolving has the
  path of a model), `EngineStarted` (an instance names a request that was admitted, with a
  path that does not change any more), `OneEngineResident`, `GeneratesOnResolvedModel` and
  `FlagLowered`. The last one is why the shared flag is no worse than section 6 says: a
  generation that has begun to produce can only see the flag raised by itself, since the
  only other place that raises it is a callback, which needs the mutex.
- `PermitConservation` needs the cardinality of the admitted tasks to change by one in the
  steps that take or return a permit, and is proved with `FiniteSetTheorems`.
- `ImplementsQueue`: initial states and steps map to those of `InferenceQueue`. That it serves
  one request at a time is `EngineExclusive` again.
- `NoLeak` (`NoTextAfterTrigger`), `DoneOnce` (`StreamsEndWithDone`) and `TriggerArrives`
  (`TriggerDelivered`) are about `sent`, which grows by whole outboxes, so each needs to say what
  an outbox may still add. `StreamInv` is `IInv`, `StreamShape` (a stream is empty before the
  generation, free of triggers until the callback hands one over, and its outbox is one of the
  few endings), `StreamDone` (a task at its end with nothing left to send has sent `[DONE]`, unless
  the receiver is gone or it crashed, and who crashed has sent nothing) and `TriggerKept` (a trigger in the buffer is in the channel,
  or in the outbox, or the flag is down, so that the final check will send it).
- The composition: `ChatImplementsDispatcher` is `ChatSafeSpec => SafeSpec`, every step of a session
  and of its requests is a step of `Dispatcher` or leaves its variables alone, so the theorems above hold of
  `ChatCompletions` as well; `ChatImplementsQueue` draws the conclusion for the abstract queue and for the
  permits. `ChatTypeCorrect` (`ChatTypeOK`), by `ChatInv`, which adds
  that a session that reads or runs a tool has a request, and one that starts has all its rounds.

`ContextProofs` (from `ContextAssumption` alone, so for any modes, batches and prompts):

- `IInv` = `TypeOK`, `NothingRemembered` (no tokens are remembered between or in calls),
  `FileSound` (a state file holds a gapless cache), `Gapless` (the cache is `0..n-1` for some `n`,
  and a call is at position `n`), `WithinBudget` (what is left of the think and answer limits).
  It gives `TypeCorrect` and `NoGaps`. `Contiguous` alone is not inductive: the state file has to
  be sound too, and the types of counters depend on the budget.
- `RoomForEveryToken` (`ShiftedInTime`): a window whose kept head and discard leave something of
  the context has slid before the cells run out. It says nothing of mode 4 with a prompt of half
  of the context, which is what `context_extreme` is about (section 6).
- `HInv` = `PromptPart` (during ingestion the cache is what was kept, then the part of the
  prompt decoded so far) and `HeadPart` (while generating, the head is the prompt's). It
  gives `PromptIsIngested` and `PromptHeadIsKept` relative to `IInv`.

`BoosterProofs`:

- `TypeCorrect`.
- `SurvivesOneFault`: one client and `MaxFaults <= 1` imply `LoadsReturnKept`. `CrashInv` says
  which of the two files is whole and kept at each place of a load or a save, before and
  after the fault.
- `LoadingKeepsTheJson`: with `Savers = {}` and `MaxFaults = 0`, `JsonKept` holds for any number
  of clients. `ReadInv` says that only one setting ever circulates unless some client has
  seen an empty JSON, and that such a client never writes.

`SkillProofs` (from `SkillAssumption` alone, so for any number of versions, slots and faults):

- `TypeCorrect`.
- `OneCompilation` (`OneCompiler`), by `LockInv`: a task that is active has the path locked,
  one task is active at most, and a call that waits for one waits until its end. That the lock is taken in the step that starts the task
  and given back by the guard in the step that ends it is what makes it inductive.
- `WholeCache` (`CacheIsWhole`), by `WholeInv`: as long as nothing was compiled over a cache that
  was there, a call that is loading and a task that is dumping exclude each other, so what
  a task reads back is what it wrote.
- `LoadedCurrent` (`LoadedIsCurrent`), by `CurrentInv`: without a race and without an upgrade to a text
  older than the cache, the text a task compiles,
  what it read back, the cache unless it is `outdated`, and what a call mapped, wrote and
  loaded are all the version `SKILL.md` has.

`ComponentProofs` (from `ComponentAssumption`, for any number of processes, requests, components,
versions, calls and crashes):

- `TypeCorrect`: every field of a call holds what the places that read it expect.
- `OwnModule` (`RunsWhatItRead`), by `EngineInv`: the engines of two calls differ, since an engine
  is the number of a call and numbers only grow; a cached module with the engine of a call
  was put there by this call, from what it read.
- `CurrentLimits` (`LimitsAreCurrent`), by `LimitInv`: as long as a component is not `mixed`, a
  call has it for itself, the cache agrees with the manifest but for what that call has still
  to settle, and so do the limits it has taken.
- `StaysRegistered` (`InstalledStaysRegistered`), by `KeepInv`: as long as nothing is
  `lost`, what was installed is complete in a file that a load will read and in each copy
  that may be saved, and one update writes at a time.

`ToolLibraryProofs`, about `ToolLoop` (for any tokens of one or two symbols, any pipes):

- `TypeCorrect` (`ToolTypeOK`): among the types, that a capture is never empty, which relies on the
  first place of a trigger, and that the text of the second generation fits its window.
- `WholeAnswer` (`AnswerIsWhole`), by `PInv`: past stdout the thread has everything and nobody is
  left who could write more; a success was received from a thread that has reaped the child.
- `NothingLost` (`Accounted`), by `AInv`: `said = shown \o cache \o json`. The work is in `Split`: what
  is cut at a trigger, or before its beginning, is put together again.
- `TriggersTaken` (`TriggersCaught`), by `CaughtInv`: no trigger is shown (`Clean`; in the second
  generation no legacy one), what is captured is
  not complete yet and what is held back is empty or a token that may begin one
  (`FirstGeneration`), the second generation looks back to the end of what it has shown (`Echo`),
  and a generation that ends without a tool has not passed over one (`NeverMissed`).
  `Free` (no two neighbours are the trigger) is what the lemmas on cutting and joining use;
  `FreeOf` shows that it is `~Occurs`.

`ToolLibraryProofs`, about `ModelLibrary` (for any tasks, manifests, chunks, calls and faults):

- `LibraryTypeCorrect`, by `HandleInv`: what a task has handed over is at most the chunk before its
  `next`, or data, of the file it has open.
- `ListedHasItsParts` (`ListedIsComplete`), by `ListInv`: who is past the weights, or downloads
  them in place, finds them cached unless a purge or an abort has been at the directory or the
  manifest names none; who is past the splits of a GGUF file has them unless something failed.
- `NamedWhenWhole` (`PartIsAtomic`), by `AtomicInv`: while a file is not shared one task at most
  uses it (`OneUser`), a pull that has not named it yet and has delivered what comes before `next`
  (`Private`); it is named when only its last write may be missing (`NamedWhole`). No data is in it:
  who writes data to a file of its own never names it as the weights.
- `LeftIsWhole` (`QuietIsWhole`), by `ComingInv`: as long as nothing fails, every chunk of a file that has a name
  is in it, handed over, or still to be streamed by a task that has it open. A shared file
  is torn while it has its name; it is this invariant, not one on a single task, that repairs it.
  It says so for a model without data; for an ONNX model the theorem follows from `AtomicInv` and
  `DataInv` (no write is lost unless something fails), and speaks of unshared weights only.

`BridgeProofs` (for any number of connections, commands, keys and tokens):

- `TypeCorrect`: the listener dies at its limit exactly, handlers save for updates only.
- `NobodyWaitsForBoth` (`NobodyWaits`), by `WInv`: while an application that sends one command at a
  time is ready, its handler reads and nothing is under way; while it waits, its command is
  either in the pipe, alone, or at work.
- `AnsweredIsKept` (`UpdatesKept`), by `KInv`: as long as no load overlapped a save, one handler
  saves at a time, what it saves holds what is `Due` (answered before, and not lost to a
  failure), and the file fails to parse only in its hands, or when nothing is due.
- `FaithfulAnswers` (`AnswersFaithful`), by `FaithfulInv`: each word has gone one way (`Counted`), and,
  unless a token carried a tag beside text (`odd`), content, thinking and scripts are what
  `Pick` takes out of what was said, in its order (`Sorted`). `Pick` is a recursive function, and what is said of it for
  every length goes through the least length at which it fails (lemma `Least`, from `WFMin`), since
  the induction theorems of the library are out of reach.

`TruthProofs` (for any number of threads and processes):

- `TypeCorrect`, with the last conjunct of `TruthTypeOK`: who holds a mutex is negotiating and
  past its wait.
- `OneCrashSurvived` (`SurvivesOneCrash`), by `SInv`: as long as calibrations do not meet and no load
  deletes what it has not read, one thread writes at a time, both files are whole but for
  the one it writes, and after the crash one of them still is.
- `CalmLoads` (`CalmSeesTruth`), by `CalmInv`: while a load is calm nobody writes and a file is
  whole, and the load goes where it finds it; so all it gets is the truth.

Every invariant and every action property of a passing run is the subject of a theorem. Each inductive invariant was
checked by TLC on the instance of the run before it was proved. Liveness under fairness and
anything that needs ENABLED is left to TLC.

## 6. Where the code disagrees with its documents

Shown by a violation run (quotes and lines in `PROJECT.json`, `findings`):

- `dispatcher_cancel`: the `cancel_flag` is one for all tasks, so a trigger stops another
  request at its first token; the dispatcher's README says it is bound to the
  `CallbackData`.
- `context_extreme`: in context mode 4 half of the context is discarded; with a prompt of half of
  the context `n_keep + n_discard < n_cur` is never true (`native/context.rs:25`), the window never
  slides and a token is decoded into a full cache, though `docs/engine/booster.md:75` says the
  cache is intercepted just before overflow.

Met while modelling, without a run of their own.

Dispatcher and chat:

- The callback sends the trigger before it raises the flag (`dispatcher/src/lib.rs:247`), so a
  fast tool's resumption can be cancelled by the trigger it answers; the API's README calls
  the restart safe.
- A missing kernel and a prompt with a NUL (from JSON, or a tool's output) panic in the task
  (`dispatcher/src/lib.rs:170`, `213`): the stream ends empty, without an error and `[DONE]`. They are
  the `"crashed"` of `StreamsEndWithDone`.
- The callback's window of 100 bytes may cut a character (`dispatcher/src/lib.rs:254`): a panic in an
  `extern "C"` function ends the process; the model has no such end.
- A trigger may be sent twice: the final buffer check (`dispatcher/src/lib.rs:303`) takes the
  shared flag for "my trigger was sent", and a dispatch lowers it in between.
- After the third trigger `chat.rs` dispatches a prompt whose answer nobody reads
  (`chat.rs:111`); `EngineReleased` covers that nothing leaks.

Context window:

- A pivot's prompt is checked against the whole context, not against the cells that are left
  (`native/stream.rs:174`).
- The think limit leaves the loop with unconfirmed drafts in the cache (`native/stream.rs:508`).
- A failed `RuntimeB::prefill` leaves an empty or partial cache with the old tokens remembered
  (`llama/src/lib.rs:285`), and the next prompt would match them; nothing calls it through the C
  interface, and the model leaves it out.
- A skill prefilled, dumped and loaded through the hub (`hub.rs:153`, `llama/src/lib.rs:366`) is
  thrown away by the next call, since the tokens are forgotten when a call returns
  (`native/stream.rs:64`); the router relies on the match (`router.rs:676`).

Booster settings and skills:

- Two threads that only load may find both files empty; one takes the defaults and deletes
  the binary (`governor.rs:634`).
- A load of the booster settings writes back what it read, and reverts or destroys a save
  beside it (`governor.rs:587`); `LoadsReturnKept` holds for one client only.
- A call that arrives while its skill is compiled gets neither the cache nor the text of
  the skill (`router.rs:458`).
- A skill is probed before `COMPILATION_LOCKS` is asked, so it is compiled again when the
  compilation ends in between; then a task truncates the cache and the `.temp_state` a call
  is loading. The call may load nothing, the task may save a torn state, and the reader of
  the truncated mapping dies. It is what `doubled` excepts in `CacheIsWhole`.
- When `SKILL.md` is edited during a compilation, the cache that results is younger than the
  edit and is never compiled again. It is what `raced` excepts in `LoadedIsCurrent`.
- An upgrade by the hub needs no race for that: `tar` gives `SKILL.md` the time it has in the archive,
  and `.cache` is kept (`hub_installer.rs:169`). A cache compiled after the archive was packed is trusted
  (`neural_foundry/mod.rs:184`), and the state of the old text is loaded for good, with the new text behind
  it. It is what `backdated` excepts.
- A cache cut short by a crash is not empty and not old: it is never compiled again, each
  call tries it and goes on without (`neural_foundry/mod.rs:177`).
- With `enable_kvcache` off a cache that is there is loaded all the same, unchecked, and the
  text of the skill is put before the prompt twice.
- After SKILL_CACHE_CLEAR the directory comes back only when an embedding is written into
  it; until then compilations fail.

Components:

- Registry updates are load, change and save without a lock: one of two installations at a
  time is lost. It is what `lost` excepts.
- A load from `registry.yaml` after a crash is followed by a save that truncates it while
  `registry.bin` is still unreadable: a second crash there empties the registry.
- Two executions of one component at a time fail without need: the module in the cache is
  of the other one's engine (`wasm_sandbox.rs:133`). That modules are "compiled once and reused across
  executions" (10) never happens, as every call has an engine of its own.
- Plugins and extensions are installed in `plugins/` and `extensions/` and looked for in
  `plugin/` and `extension/`.
- A refused download of the binary is registered as a success; `binary_hash` is never compared.
- An executor that writes a manifest's cache after an upgrade makes the old limits stick.
  It is what `mixed` excepts.
- The installer caches plugin manifests of types that the executor cannot decode, so the
  cache is used by nothing until an executor has rewritten it.

Tools:

- A trigger whose first `>` is that of its closing tag, a result cut inside a character, and
  the tail of the second generation cut inside one panic (`router.rs:882`, `1042`, `746`), the
  last one in an `extern "C"` callback. They are the `aborted` of the model.
- A trigger that ends in the token that begins a dynamic one is shown, not taken. It is what
  `masked` excepts.
- A trigger without its closing tag, with header and brace, that is followed by the beginning of
  another one is missed: the fallback at the end of the capture looks for the last
  `<TRIGGER:` (`rfind`, `router.rs:928`), which has no header yet.
- A nested payload loses all its closing braces but one (`router.rs:883`); what the interceptor still holds at the end of
  the generation is not shown; a trigger without brace and closing tag is dropped.
- The callback's `false` is ignored where a prefix is flushed.
- One tool per request is run, although `max_iters` is 3.
- The second generation is stopped at `<TRIGGER:` only (`router.rs:741`): a dynamic macro in it is shown
  as text, although a trigger there is to be stopped (733). `NeverShown` covers legacy triggers in both
  generations and dynamic ones in the first.
- The payload is written to a tool's stdin without a timeout and before its output is read
  (`process_sandbox.rs:61`): a tool that reads none of a large one holds the request for ever.
- A timeout signals the tool alone and ignores whether that worked (`process_sandbox.rs:110`). A descendant
  that inherited stdout or stderr, or a tool that survives, keeps the reading thread for as long as it
  lives, and while it does a tool that has long exited well ends in the timeout: its output is lost.
  They are the `HeldOpen` of `EveryRequestEnds`.
- After a failed write the child is not waited for, and `kill -9` by number may find it reused.

Bridge:

- The command line's `break` leaves the loop over the lines only (`run.rs:436`): a prompt that
  was answered never returns. It is why `NobodyWaits` excepts `Cli`.
- Commands that arrive together, or are longer than 4096 bytes, are taken for a prompt.
- An update without a payload, and a stream that ends without `[DONE]`, are not answered
  (`silent`).
- A `<cel>` that spans two tokens is shown and not executed; text in one token with a tag goes
  into the script; text in one token with `</think>` is shown as content.
- A save that fails is logged (`permission_schema.rs:178`) and the client is answered a success
  (`ffi_bridge.rs:442`): the update is not in the file, or, when the write stops in the middle,
  nothing is. A file that is cut or cannot be read counts as the defaults, and the next save
  removes all other permissions for good. They are the `lost` of `UpdatesKept`.
- A load of the permissions beside a save finds the defaults, and a save after it removes the
  other permissions. It is what `overlap` excepts.
- A client that comes between two pipe instances is refused; a client that stops reading
  blocks its handler.

Host:

- When a negotiation finds no profile, it calibrates with `ARBITER` in hand, and the calibration
  locks it again (`governor.rs:172` and `67`): the thread and its process stop. It is what
  `Stuck` excepts; `CalmSeesTruth` says that it takes a calibration beside it or a lost profile.
- A first calibration killed between the files leaves an empty JSON and no binary: every load
  returns the defaults and none calibrates again.
- A load beside a calibration may delete the binary under its writer, or after it (`wiped`);
  then one crash loses the profile. Two calibrations at a time may do so, too (`clash`).
- `request_vram` has no callers: the allocations and `active_processes.json` stay empty.
- With a total of 0 a negotiation divides by it.
- The circuit breaker is made anew in every call (`llama/src/lib.rs:316`).
- The dashboard watches `system_booster.json` in a directory it is not saved in
  (`dashboard.rs:137`).

Model library, called "atomic installation" (`manager/mod.rs:13`) with a ".part atomic protocol"
(`installer.rs:16`):

- Two pulls of one model share the `.part` file: the second truncates it, the first to end renames
  it, and the weights are torn until the other pull completes them, or for good if it fails. It
  is what `shared` excepts in `PartIsAtomic`. The loser's rename fails, so its pull reports an error.
- The end of a download does not wait for its last write (`installer.rs:63`, `fetch/mod.rs:206`): if
  it fails, nobody is told and the weights stay short (`lost`). Nor is the length compared.
- The `.part` name replaces the extension (`installer.rs:49-50`): `model.onnx` and `model.onnx_data` share
  `model.part`. When two pulls of an ONNX model meet, with nothing failing, the rename of the one
  gives the data of the other the name of the weights, for good, and the model is listed. It is
  what `QuietIsWhole` excepts (without the exception TLC finds it with two calls). No ONNX manifest
  is in the repository; they come from the hub.
- A roster entry without a `download_url` has an empty file name (`registry/mod.rs:344-359`). The
  directory itself then passes for the weights (`manager/mod.rs:70-81`): a pull writes the manifest
  and the DNA, and the model is listed and healthy without any weights.
- Splits in a subdirectory of the repository, as those of the Llama 4 entries, do not begin with the
  name of the weights (`manager/mod.rs:120`), which is the base name: they are never fetched, and
  nothing is reported. `ListedIsComplete` excepts this and the case before.
- A split that could not be downloaded is ignored (`manager/mod.rs:130`); the manifest and the DNA
  are written, and every later pull finds the model healthy.
- The dashboard's download writes the weights in place, fetches no splits, and says "complete"
  when it has failed (`details.rs:152`); what it leaves counts as cached. An abort removes the
  weights, also those another pull has completed since (`fetch/mod.rs:196`).
- The pull command refuses whenever any GGUF is cached, so it repairs nothing; its advice to
  delete with `rm` (`pull.rs:141`) does not help, as `rm` looks for `<models>/<id>.gguf` (`rm.rs:19`).
- A purge beside a pull leaves a listed model without weights, or gives up after three attempts;
  its result is ignored and the menu says "purged" (`details.rs:235`).
- For an id with a colon pulls and lookups use the directory with `-`, downloads and purges the
  one with `:`.
- Discovery's "healing" probes but writes no DNA; `fetch_external_registry` returns an empty list.

## 7. What is only model-checked, and what is not modelled

Only model-checked: all liveness (`QueueSpec`, of which `QueueSafety` is proved; `EverySessionEnds`,
`EngineReleased`, `GenerationEnds`, `EveryCallReturns` of skills and library, `EveryRequestEnds`,
`EveryCallEnds`).
`PermitsConserved`, `NeverFreedInUse` and the types of all modules but `ChatCompletions` are
proved and in no run.

Left out of the modelled components:

- Dispatcher: the embedding dispatcher, the text of messages, the byte offsets at which the
  callback cuts its buffer (`lib.rs:245`).
- ChatCompletions: the injection of skills into the prompt, and telemetry events. Sessions
  other than streaming ones are readers; `HangUp` and `Receive` of `Dispatcher` are them.
- ContextWindow: `RuntimeB::prefill`, which is not exported through the C interface (the hub
  prefills by a call with nothing to generate); the forced end of a think block (its tokens go through the loop like sampled
  ones), logit biases, samplers, `resize_context` and `stitch_signal`, which nothing calls.
- BoosterSettings: the contents of the settings; a JSON that two clients wrote over one
  another is `Garbled`, which no load accepts.
- SkillCache: several skills in one prompt (they share nothing but the order in which they are
  handled), a second process with locks of its own.
- Components: the listing and the measuring of caches, which only read; the toggles of the
  registry, which have no callers; skills, which `register_component` refuses.
- PipeBridge: the actions that are calls of other components (settings, calibration, caches,
  extension calls) are answered like a query; `UPDATE_COMPONENT_PERMISSIONS`; a kill of the daemon
  in the middle of a save, which leaves the cut file of a failing write; `Permission.bin`, which
  nothing here reads.
- SystemTruth: `request_vram`, `release_vram` and the process registry, which nothing reaches;
  the numbers of the envelope; `update_field` and `save_system_control`.

- ModelLibrary: several models (they share nothing), the catalogue and its filters, the variants
  on the hub, the hardware audit and what the DNA is made of; `fetch_asset_auto_heal` and
  `cleanup_partial_download`, which nothing calls.

Components that are not modelled are listed with the reason in `PROJECT.json`; those worth
modelling are in the plan.

## 8. Plan

Done: `InferenceQueue`, `Dispatcher`, `ChatCompletions`, `ContextWindow`, `BoosterSettings`, `SkillCache`,
`ToolLoop` with `ProcessTool`, `Components`, `PipeBridge`, `SystemTruth`, `ModelLibrary`, and proofs for all
of them. What is left, the most important first:

1. The dashboard: its event loop, downloads and streams beside it.
2. Pure operators against reference definitions: the fallback chain of the model load, the
   VRAM envelope, the CEL lexer and plan order.
3. `SkillCache` and `ToolLoop` with two processes on the same files.

Proofs still worth having: that a request is finished once and read once by its session
(`ChatCompletions`); the wait-free part of the bridge
(`NobodyWaits`) for clients that send several commands; that `SkillCache` and `BoosterSettings`
implement an abstract register that returns what was last written, outside the races named above.
