---------------------------- MODULE ModelLibrary ----------------------------
(***************************************************************************)
(* The directory of one model in the library, <models>/<category>/<id>,    *)
(* and the tasks of any process that change it: ModelManager's pull        *)
(* (models/manager/mod.rs), which downloads the weights to a .part file    *)
(* and renames it, the dashboard's download (models/fetch/mod.rs), which   *)
(* writes them in place, and its purge.  Nothing locks the directory.      *)
(*                                                                         *)
(* A file is an inode: a task goes on writing the one it opened, whatever  *)
(* has become of its name.  The weights are a few chunks, the same in      *)
(* every download, so the content of an inode is the set of the chunks     *)
(* that have been written.  tokio's File hands a chunk to another thread   *)
(* and reports a failure with the next one: the last write is never        *)
(* waited for.  The files that come with the weights, further splits and   *)
(* the tokenizer, go the same way under names of their own and are taken   *)
(* together as one, but for the data of an ONNX model: its .part file has  *)
(* the name of that of the weights.                                        *)
(***************************************************************************)
EXTENDS Naturals, FiniteSets

CONSTANTS
  Task,       \* the tasks that pull, download and purge
  Inode,
  Chunks,     \* the number of chunks of the weights
  None,       \* no inode
  Entries,    \* what the manifest may be, see Manifest
  MaxCalls,   \* bound: pulls, downloads and purges, for each manifest
  MaxFaults   \* bound: crashes, failing writes and failing connections

\* What a manifest names: a GGUF file with its splits beside it; one whose splits
\* lie in a subdirectory of the repository; nothing, as it has a repo_url only; an
\* ONNX file with a data file.
Manifest == {"file", "nested", "none", "onnx"}

ASSUME LibraryAssumption ==
  /\ Entries \subseteq Manifest
  /\ Chunks \in Nat \ {0}
  /\ None \notin Inode
  /\ MaxCalls \in [Manifest -> Nat]
  /\ MaxFaults \in Nat

VARIABLES
  entry,     \* the manifest of the model
  task,      \* what each task is doing
  part,      \* the inode of the .part file, or None
  weights,   \* the inode of the weights, or None
  unit,      \* whether the directory and its other files exist
  file,      \* what each inode holds
  meddled,   \* history: what was done to the directory beside pulls
  calls,     \* how many there were
  faults

libraryVars == <<entry, task, part, weights, unit, file, meddled, calls, faults>>

-----------------------------------------------------------------------------
Chunk == 1..Chunks

\* What is in the data file of an ONNX model.
Foreign == Chunks + 1
Content == Chunk \cup {Foreign}
Attempts == 3

\* fd is the open inode, next the chunk the stream brings next, pending the
\* write that was handed over (an inode and a chunk, at most one), broken says
\* that the last write failed and attempt counts those of a purge.  A pull comes
\* to the data when it has the weights.
Doing ==
  [pc : {"idle", "look", "create", "stream", "rename", "extras", "manifest",
         "dna", "unlink", "rmdir"},
   inPlace : BOOLEAN, data : BOOLEAN, fd : Inode \cup {None}, next : 1..Chunks + 1,
   pending : SUBSET (Inode \X Content), broken : BOOLEAN, attempt : 1..Attempts]

Idle ==
  [pc |-> "idle", inPlace |-> FALSE, data |-> FALSE, fd |-> None, next |-> 1,
   pending |-> {}, broken |-> FALSE, attempt |-> 1]

\* extras are the splits or the data, and the tokenizer, dna is
\* structural_dna.json.
Unit == [dir : BOOLEAN, extras : BOOLEAN, manifest : BOOLEAN, dna : BOOLEAN]
NoUnit == [dir |-> FALSE, extras |-> FALSE, manifest |-> FALSE, dna |-> FALSE]

\* The chunks of an inode and, as history, whether more than one task wrote and
\* named it or it was written in place, and whether a write to it was lost.
File == [chunks : SUBSET Content, shared : BOOLEAN, lost : BOOLEAN]
NewFile == [chunks |-> {}, shared |-> FALSE, lost |-> FALSE]

LibraryTypeOK ==
  /\ entry \in Manifest
  /\ task \in [Task -> Doing]
  /\ part \in Inode \cup {None}
  /\ weights \in Inode \cup {None}
  /\ unit \in Unit
  /\ file \in [Inode -> File]
  /\ meddled \subseteq {"purge", "abort", "download"}
  /\ calls \in 0..MaxCalls[entry]
  /\ faults \in 0..MaxFaults

LibraryInit ==
  /\ entry \in Entries
  /\ task = [t \in Task |-> Idle]
  /\ part = None
  /\ weights = None
  /\ unit = NoUnit
  /\ file = [i \in Inode |-> NewFile]
  /\ meddled = {}
  /\ calls = 0
  /\ faults = 0

-----------------------------------------------------------------------------
At(t, pc) == task[t].pc = pc
Become(t, doing) == task' = [task EXCEPT ![t] = doing]
Goto(t, pc) == task' = [task EXCEPT ![t].pc = pc]

\* A task begins a call; a write of the call before may still be under way.
Call(t, doing) ==
  /\ At(t, "idle")
  /\ calls < MaxCalls[entry]
  /\ calls' = calls + 1
  /\ Become(t, [doing EXCEPT !.pending = task[t].pending])

Fault == faults < MaxFaults /\ faults' = faults + 1

\* The file is dropped: what was handed over is still written.
Closed(t, pc) ==
  [task[t] EXCEPT !.pc = pc, !.data = FALSE, !.fd = None, !.next = 1, !.broken = FALSE]

\* The call returns.
Done(t) == [Idle EXCEPT !.pending = task[t].pending]

\* The tasks that have inode i open or a write to it handed over.
Users(i) ==
  {t \in Task : task[t].fd = i \/ \E w \in task[t].pending : w[1] = i}

Unused == {i \in Inode \ {part, weights} : Users(i) = {}}

\* The inodes nobody can reach after this step are free again.
Reclaim(files) ==
  file' = [i \in Inode |-> IF i \in Unused' THEN NewFile ELSE files[i]]

Cached == weights # None

\* The test for the file that the manifest names; when it names none the
\* directory passes for it.
Found == Cached \/ (entry = "none" /\ unit.dir)

Healthy == Found /\ unit.dna

\* The roster lists what has a manifest.
Listed == unit.manifest

\* pull_model_with_manifest makes the directory and returns at once when the
\* unit is healthy.  The pull command comes here only when nothing is cached,
\* the server's pull repairs as well.
CallPull(t) ==
  /\ ~Healthy
  /\ Call(t, [Idle EXCEPT !.pc = "look"])
  /\ unit' = [unit EXCEPT !.dir = TRUE]
  /\ UNCHANGED <<part, weights, file, meddled, faults>>

\* The dashboard downloads a model that it takes for missing, because of what it
\* saw when it looked or because it has purged it, whatever came of that.
CallDownload(t) ==
  /\ Call(t, [Idle EXCEPT !.pc = "create", !.inPlace = TRUE])
  /\ unit' = [unit EXCEPT !.dir = TRUE]
  /\ meddled' = meddled \cup {"download"}
  /\ UNCHANGED <<part, weights, file, faults>>

\* download_weights makes the directory of a file once more and skips what is there.
Look(t) ==
  /\ At(t, "look")
  /\ Goto(t, IF Found THEN "extras" ELSE "create")
  /\ unit' = [unit EXCEPT !.dir = @ \/ entry # "none"]
  /\ UNCHANGED <<part, weights, file, meddled, calls, faults>>

\* File::create on a name: the file that has it, old, is truncated, whoever is
\* writing it; i is the inode that the task gets, of those that are not in use
\* the first.  There is one as long as Inode has two members more than Task.
Open(t, old, i) ==
  /\ IF old = None THEN Unused # {} /\ i = CHOOSE j \in Unused : TRUE
                   ELSE i = old
  /\ task' = [task EXCEPT ![t].pc = "stream", ![t].fd = i]
  /\ file' = [file EXCEPT ![i] =
       [NewFile EXCEPT !.shared = task[t].inPlace \/ Users(i) # {}]]

\* The response has come: a pull creates the .part file, a download the
\* weights themselves.
Create(t) ==
  /\ At(t, "create")
  /\ unit.dir
  /\ entry # "none"
  /\ task[t].pending = {}
  /\ \E i \in Inode :
       IF task[t].inPlace
         THEN Open(t, weights, i) /\ weights' = i /\ UNCHANGED part
         ELSE Open(t, part, i) /\ part' = i /\ UNCHANGED weights
  /\ UNCHANGED <<unit, meddled, calls, faults>>

\* Faulty form: the error is ignored, as it is for the extras.
GiveUpWeights(t) ==
  /\ Become(t, Closed(t, "extras"))
  /\ UNCHANGED <<part, weights, unit, meddled, calls>>
  /\ Reclaim(file)

\* The weights could not be had: the call returns the error.  That the data could
\* not is ignored.
GiveUp(t) ==
  /\ Become(t, IF task[t].data THEN Closed(t, "manifest") ELSE Done(t))
  /\ UNCHANGED <<part, weights, unit, meddled, calls>>
  /\ Reclaim(file)

\* The directory has been purged since it was made, or there is nothing to ask for.
CreateFails(t) ==
  /\ At(t, "create")
  /\ ~unit.dir \/ entry = "none"
  /\ GiveUp(t)
  /\ UNCHANGED faults

\* Faulty form: a connection that breaks is taken for the end of the body.
DownloadStops(t) ==
  /\ At(t, "stream")
  /\ Fault
  /\ Goto(t, "rename")
  /\ UNCHANGED <<part, weights, unit, file, meddled, calls>>

\* The server refuses, the file cannot be opened, the connection breaks.
DownloadFails(t) ==
  /\ At(t, "create") \/ At(t, "stream")
  /\ Fault
  /\ GiveUp(t)

\* What the stream brings.
Brought(t) == IF task[t].data THEN Foreign ELSE task[t].next

\* A chunk has come and the write before it has ended well.
Hand(t) ==
  /\ At(t, "stream")
  /\ task[t].next <= Chunks
  /\ task[t].pending = {}
  /\ ~task[t].broken
  /\ task' = [task EXCEPT ![t].pending = {<<task[t].fd, Brought(t)>>},
                          ![t].next = @ + 1]
  /\ UNCHANGED <<part, weights, unit, file, meddled, calls, faults>>

\* A chunk has come and the write before it has failed.
HandFails(t) ==
  /\ At(t, "stream")
  /\ task[t].next <= Chunks
  /\ task[t].broken
  /\ GiveUp(t)
  /\ UNCHANGED faults

Write(t) ==
  \E w \in task[t].pending :
    /\ task' = [task EXCEPT ![t].pending = {}]
    /\ UNCHANGED <<part, weights, unit, meddled, calls, faults>>
    /\ Reclaim([file EXCEPT ![w[1]].chunks = @ \cup {w[2]}])

\* The disk is full.  When the file has been dropped nobody is told.
WriteFails(t) ==
  /\ Fault
  /\ \E w \in task[t].pending :
       /\ task' = [task EXCEPT ![t].pending = {},
                               ![t].broken = task[t].fd = w[1]]
       /\ UNCHANGED <<part, weights, unit, meddled, calls>>
       /\ Reclaim([file EXCEPT ![w[1]].lost = TRUE])

\* The body has ended.  Nothing is flushed.
StreamEnds(t) ==
  /\ At(t, "stream")
  /\ task[t].next > Chunks
  /\ IF task[t].inPlace THEN Become(t, Closed(t, "manifest"))
                        ELSE Goto(t, "rename")
  /\ UNCHANGED <<part, weights, unit, meddled, calls, faults>>
  /\ Reclaim(file)

\* Whatever .part is by now becomes the weights.
Rename(t) ==
  /\ At(t, "rename")
  /\ ~task[t].data
  /\ part # None
  /\ Become(t, Closed(t, "extras"))
  /\ weights' = part
  /\ part' = None
  /\ UNCHANGED <<unit, meddled, calls, faults>>
  /\ Reclaim([file EXCEPT ![part].shared = @ \/ task[t].fd # part])

\* Or it becomes the data.
RenameData(t) ==
  /\ At(t, "rename")
  /\ task[t].data
  /\ part # None
  /\ Become(t, Closed(t, "manifest"))
  /\ part' = None
  /\ unit' = [unit EXCEPT !.extras = TRUE]
  /\ UNCHANGED <<weights, meddled, calls, faults>>
  /\ Reclaim(file)

\* Another pull has renamed it, or a purge has removed it.
RenameFails(t) ==
  /\ At(t, "rename")
  /\ IF part = None THEN UNCHANGED faults ELSE Fault
  /\ GiveUp(t)

\* Faulty form: what was downloaded is left.
AbortKeeping(t) ==
  /\ At(t, "stream")
  /\ task[t].inPlace
  /\ task[t].next <= Chunks
  /\ Become(t, Done(t))
  /\ meddled' = meddled \cup {"abort"}
  /\ UNCHANGED <<part, weights, unit, calls, faults>>
  /\ Reclaim(file)

\* The user aborts the dashboard's download: with the next chunk the weights
\* are removed, whatever they are by now.
Abort(t) ==
  /\ At(t, "stream")
  /\ task[t].inPlace
  /\ task[t].next <= Chunks
  /\ Become(t, Done(t))
  /\ weights' = None
  /\ meddled' = meddled \cup {"abort"}
  /\ UNCHANGED <<part, unit, calls, faults>>
  /\ Reclaim(file)

\* The splits and the tokenizer: download_weights makes the directory before it
\* does anything else, and how it ends is ignored.  Splits in a subdirectory do
\* not begin with the name of the weights; without a URL nothing is fetched.
FetchExtras(t) ==
  /\ At(t, "extras")
  /\ Goto(t, "manifest")
  /\ \/ /\ entry = "onnx" => unit.extras
        /\ unit' = [unit EXCEPT !.dir = @ \/ entry # "none", !.extras = @ \/ entry = "file"]
        /\ UNCHANGED faults
     \/ /\ entry # "none"
        /\ unit' = [unit EXCEPT !.dir = TRUE]
        /\ Fault
  /\ UNCHANGED <<part, weights, file, meddled, calls>>

\* The data of an ONNX model goes the way of the weights.
FetchData(t) ==
  /\ At(t, "extras")
  /\ entry = "onnx"
  /\ ~unit.extras
  /\ task' = [task EXCEPT ![t].pc = "create", ![t].data = TRUE]
  /\ unit' = [unit EXCEPT !.dir = TRUE]
  /\ UNCHANGED <<part, weights, file, meddled, calls, faults>>

WriteManifest(t) ==
  /\ At(t, "manifest")
  /\ unit.dir
  /\ Goto(t, "dna")
  /\ unit' = [unit EXCEPT !.manifest = TRUE]
  /\ UNCHANGED <<part, weights, file, meddled, calls, faults>>

\* A pull returns the error, a download ignores it.
ManifestFails(t) ==
  /\ At(t, "manifest")
  /\ IF unit.dir THEN Fault ELSE UNCHANGED faults
  /\ IF task[t].inPlace THEN Goto(t, "dna") ELSE Become(t, Done(t))
  /\ UNCHANGED <<part, weights, unit, file, meddled, calls>>

\* generate_cluaiz_dna, whose error both ignore; it is the last step.
WriteDna(t) ==
  /\ At(t, "dna")
  /\ Become(t, Done(t))
  /\ \/ unit' = [unit EXCEPT !.dna = unit.dir] /\ UNCHANGED faults
     \/ Fault /\ UNCHANGED unit
  /\ UNCHANGED <<part, weights, file, meddled, calls>>

-----------------------------------------------------------------------------
\* The dashboard deletes a model that it takes for cached, because of what it
\* saw or because it has downloaded it; purge_model wants the directory only.
CallPurge(t) ==
  /\ unit.dir
  /\ Call(t, [Idle EXCEPT !.pc = "unlink"])
  /\ meddled' = meddled \cup {"purge"}
  /\ UNCHANGED <<part, weights, unit, file, faults>>

\* remove_dir_all removes the entries, up to the first one that it cannot.
Unlink(t) ==
  /\ At(t, "unlink")
  /\ Goto(t, "rmdir")
  /\ part' \in {part, None}
  /\ weights' \in {weights, None}
  /\ \E kept \in SUBSET {"extras", "manifest", "dna"} :
       unit' = [f \in DOMAIN unit |-> unit[f] /\ f \in kept \cup {"dir"}]
  /\ UNCHANGED <<meddled, calls, faults>>
  /\ Reclaim(file)

Empty == part = None /\ weights = None /\ unit = [NoUnit EXCEPT !.dir = unit.dir]

Rmdir(t) ==
  /\ At(t, "rmdir")
  /\ Empty
  /\ Become(t, Done(t))
  /\ unit' = NoUnit
  /\ UNCHANGED <<part, weights, file, meddled, calls, faults>>

\* Faulty form: the attempts are not counted.
PurgeForever(t) ==
  /\ At(t, "rmdir")
  /\ ~Empty
  /\ Goto(t, "unlink")
  /\ UNCHANGED <<part, weights, unit, file, meddled, calls, faults>>

\* Something is left: purge_model tries again, three times in all.
PurgeAgain(t) ==
  /\ At(t, "rmdir")
  /\ ~Empty
  /\ IF task[t].attempt < Attempts
       THEN task' = [task EXCEPT ![t].pc = "unlink", ![t].attempt = @ + 1]
       ELSE Become(t, Done(t))
  /\ UNCHANGED <<part, weights, unit, file, meddled, calls, faults>>

\* The process of t is killed.
Crash(t) ==
  /\ task[t] # Idle
  /\ Fault
  /\ Become(t, Idle)
  /\ UNCHANGED <<part, weights, unit, meddled, calls>>
  /\ Reclaim([i \in Inode |->
       [file[i] EXCEPT !.lost = @ \/ \E w \in task[t].pending : w[1] = i]])

-----------------------------------------------------------------------------
\* What a task does by itself, if the network lets it.
Step(t) ==
  \/ Look(t) \/ Create(t) \/ CreateFails(t)
  \/ Hand(t) \/ HandFails(t) \/ StreamEnds(t)
  \/ Rename(t) \/ RenameData(t) \/ RenameFails(t)
  \/ FetchExtras(t) \/ FetchData(t) \/ WriteManifest(t) \/ ManifestFails(t) \/ WriteDna(t)
  \/ Unlink(t) \/ Rmdir(t) \/ PurgeAgain(t)

Works(t) == UNCHANGED entry /\ (Step(t) \/ Write(t))

LibraryNext ==
  \E t \in Task :
    \/ Works(t)
    \/ /\ UNCHANGED entry
       /\ \/ CallPull(t) \/ CallDownload(t) \/ CallPurge(t)
          \/ Abort(t) \/ DownloadFails(t) \/ WriteFails(t) \/ Crash(t)

LibrarySpec ==
  /\ LibraryInit
  /\ [][LibraryNext]_libraryVars
  /\ \A t \in Task : WF_libraryVars(Works(t))

-----------------------------------------------------------------------------
(* Properties. *)

\* Nobody is at work on the directory.
Quiet == \A t \in Task : task[t] = Idle

\* However pulls, downloads in place, aborts and purges overlap, as long as
\* nothing fails the weights that are left when all are done are whole: a .part
\* file that was renamed too early is completed by the pull that had truncated
\* it (download_weights, download_single_file).  For an ONNX model this holds of
\* weights that one pull wrote and named only: when two pulls meet, one's data may
\* be renamed to the other's weights.
QuietIsWhole ==
  /\ Quiet /\ faults = 0 /\ Cached
  /\ entry = "onnx" => ~file[weights].shared
  => file[weights].chunks = Chunk

\* Weights that one pull wrote and named are whole from then on, whatever fails
\* and whenever the process dies, but for the last chunk: its write may still
\* be under way or have been lost (the .part protocol of download_weights).
PartIsAtomic ==
  Cached /\ ~file[weights].shared =>
    /\ Chunk \ file[weights].chunks \subseteq {Chunks}
    /\ \/ file[weights].chunks = Chunk
       \/ file[weights].lost
       \/ Users(weights) # {}

\* A model that the roster lists has its weights, unless a purge or an abort
\* took them or its manifest names none; if nothing failed and only pulls were
\* at work it has its splits as well, unless they lie in a subdirectory (the
\* order of the steps of pull_model_with_manifest).
ListedIsComplete ==
  Listed =>
    /\ Cached \/ meddled \cap {"purge", "abort"} # {} \/ entry = "none"
    /\ unit.extras \/ meddled # {} \/ faults > 0 \/ entry # "file"

\* Every pull, download and purge returns (the attempts of purge_model, the
\* errors of the others).
EveryCallReturns == \A t \in Task : []<>(task[t].pc = "idle")
=============================================================================
