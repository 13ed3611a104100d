---------------------------- MODULE ProcessTool ----------------------------
(***************************************************************************)
(* A tool that runs as a process of its own (inference-cel,                *)
(* execution/process_sandbox.rs).  The caller writes the payload into the  *)
(* child's stdin, then waits, with a timeout, for a thread that reads      *)
(* stdout to its end, then stderr, and then waits for the child.           *)
(*                                                                         *)
(* The child does what it likes: it reads, writes, exits, does nothing, or *)
(* starts descendants, which inherit its pipes and may outlive it.  Data   *)
(* are counted in units; a pipe holds Capacity of them.                    *)
(***************************************************************************)
EXTENDS Naturals

CONSTANTS
  Payload,    \* the size of the payload
  MaxOutput,  \* bound: what the child writes to stdout
  MaxErrors,  \* bound: what it writes to stderr
  Capacity,   \* what a pipe holds
  Heirs       \* bound: the pipes that descendants of the child may have open

Stream == {"out", "err"}
Pipe == {"in"} \cup Stream

ASSUME ProcessAssumption ==
  /\ Payload \in Nat
  /\ MaxOutput \in Nat
  /\ MaxErrors \in Nat
  /\ Capacity \in Nat \ {0}
  /\ {} \in Heirs
  /\ Heirs \subseteq SUBSET Pipe

VARIABLES
  caller,    \* where execute_with_rules is
  child,     \* the process
  heirs,     \* the pipes its descendants have open
  spared,    \* history: the kill did not reach the running child
  succeeded, \* its exit status
  fed,       \* what the caller has written to its stdin
  eaten,     \* what the child has read of it
  made,      \* what the child has written to stdout and stderr
  taken,     \* what the thread has read of both
  reader,    \* where the thread is
  answer     \* what the call has returned

caller_vars == <<caller, answer>>
pipes == <<fed, eaten, made, taken>>
process == <<caller_vars, child, heirs, spared, succeeded, pipes, reader>>

Limit == [out |-> MaxOutput, err |-> MaxErrors]

\* An answer: the units of stdout it holds.
Failure == [ok |-> FALSE, size |-> 0]
Pending == [ok |-> FALSE, size |-> 1]

ProcessTypeOK ==
  /\ caller \in {"idle", "write", "wait", "returned"}
  /\ child \in {"none", "running", "exited", "reaped"}
  /\ heirs \in Heirs
  /\ spared \in BOOLEAN
  /\ succeeded \in BOOLEAN
  /\ fed \in 0..Payload
  /\ eaten \in 0..Payload
  /\ made \in [Stream -> Nat]
  /\ taken \in [Stream -> Nat]
  /\ reader \in {"none", "out", "err", "wait", "send", "sent"}
  /\ answer \in [ok : BOOLEAN, size : Nat]

ProcessInit ==
  /\ caller = "idle"
  /\ child = "none"
  /\ heirs = {}
  /\ spared = FALSE
  /\ succeeded = FALSE
  /\ fed = 0
  /\ eaten = 0
  /\ made = [s \in Stream |-> 0]
  /\ taken = [s \in Stream |-> 0]
  /\ reader = "none"
  /\ answer = Pending

-----------------------------------------------------------------------------
Spawn ==
  /\ caller = "idle"
  /\ \/ /\ caller' = "write"
        /\ child' = "running"
        /\ UNCHANGED answer
     \/ /\ caller' = "returned"
        /\ answer' = Failure
        /\ UNCHANGED child
  /\ UNCHANGED <<heirs, spared, succeeded, pipes, reader>>

\* Somebody has the other end of a pipe open.
InUse(p) == child = "running" \/ p \in heirs

\* write_all goes on while the pipe has room.  When everything is in it, stdin
\* is closed and the thread is started.
Feed ==
  /\ caller = "write"
  /\ InUse("in")
  /\ \/ /\ fed < Payload
        /\ fed - eaten < Capacity
        /\ fed' = fed + 1
        /\ UNCHANGED <<caller, reader>>
     \/ /\ fed = Payload
        /\ caller' = "wait"
        /\ reader' = "out"
        /\ UNCHANGED fed
  /\ UNCHANGED <<child, heirs, spared, succeeded, eaten, made, taken, answer>>

\* Nobody is left to be fed, and nobody waits for the child any more.  It is
\* noticed when something is left to write.
FeedFails ==
  /\ caller = "write"
  /\ ~InUse("in")
  /\ \/ /\ fed < Payload
        /\ caller' = "returned"
        /\ answer' = Failure
        /\ UNCHANGED reader
     \/ /\ fed = Payload
        /\ caller' = "wait"
        /\ reader' = "out"
        /\ UNCHANGED answer
  /\ UNCHANGED <<child, heirs, spared, succeeded, pipes>>

\* Faulty form: a read that stops when the pipe is empty.
Drained(s) == taken[s] = made[s]

\* Nobody has the other end of the pipe open any more.
AtEnd(s) == taken[s] = made[s] /\ ~InUse(s)

\* read_to_end of one stream, then of the next.
Read(s, then) ==
  /\ reader = s
  /\ \/ /\ taken[s] < made[s]
        /\ taken' = [taken EXCEPT ![s] = made[s]]
        /\ UNCHANGED reader
     \/ /\ AtEnd(s)
        /\ reader' = then
        /\ UNCHANGED taken
  /\ UNCHANGED <<caller_vars, child, heirs, spared, succeeded, fed, eaten, made>>

Reap ==
  /\ reader = "wait"
  /\ child = "exited"
  /\ child' = "reaped"
  /\ reader' = "send"
  /\ UNCHANGED <<caller_vars, heirs, spared, succeeded, pipes>>

\* Whether the caller still listens or not.
Send ==
  /\ reader = "send"
  /\ reader' = "sent"
  /\ UNCHANGED <<caller_vars, child, heirs, spared, succeeded, pipes>>

Receive ==
  /\ caller = "wait"
  /\ reader = "sent"
  /\ caller' = "returned"
  /\ answer' = IF succeeded THEN [ok |-> TRUE, size |-> taken["out"]] ELSE Failure
  /\ UNCHANGED <<child, heirs, spared, succeeded, pipes, reader>>

\* Faulty form: the child is left running.
Spare == child

\* kill -9, whatever has become of the process of that number meanwhile.  Its
\* descendants live on.
Kill == IF child = "running" THEN "exited" ELSE child

\* recv_timeout gives up, in a race with the answer.  Whether the command that
\* kills could be run, and had its effect, is ignored.
Timeout ==
  /\ caller = "wait"
  /\ caller' = "returned"
  /\ \/ /\ child' = Kill
        /\ UNCHANGED spared
     \/ /\ child = "running"
        /\ spared' = TRUE
        /\ UNCHANGED child
  /\ answer' = Failure
  /\ UNCHANGED <<heirs, succeeded, pipes, reader>>

-----------------------------------------------------------------------------
\* The child and its descendants.

Eat ==
  /\ InUse("in")
  /\ eaten < fed
  /\ eaten' = eaten + 1
  /\ UNCHANGED <<caller_vars, child, heirs, spared, succeeded, fed, made, taken, reader>>

Make(s) ==
  /\ InUse(s)
  /\ made[s] < Limit[s]
  /\ made[s] - taken[s] < Capacity
  /\ made' = [made EXCEPT ![s] = @ + 1]
  /\ UNCHANGED <<caller_vars, child, heirs, spared, succeeded, fed, eaten, taken, reader>>

Exit ==
  /\ child = "running"
  /\ child' = "exited"
  /\ succeeded' \in BOOLEAN
  /\ UNCHANGED <<caller_vars, heirs, spared, pipes, reader>>

\* It starts a descendant, which inherits the pipes it does not redirect.
Fork ==
  /\ child = "running"
  /\ heirs' \in {h \in Heirs : heirs \subseteq h}
  /\ UNCHANGED <<caller_vars, child, spared, succeeded, pipes, reader>>

\* Descendants end, or close what they do not need.
Close ==
  /\ heirs' \in {h \in Heirs : h \subseteq heirs}
  /\ UNCHANGED <<caller_vars, child, spared, succeeded, pipes, reader>>

ChildStep == Eat \/ (\E s \in Stream : Make(s)) \/ Exit \/ Fork \/ Close

CallerStep == Feed \/ FeedFails \/ Receive

ReaderStep == Read("out", "err") \/ Read("err", "wait") \/ Reap \/ Send

ProcessStep == Spawn \/ CallerStep \/ ReaderStep \/ Timeout \/ ChildStep

\* The caller and its thread run, the clock of recv_timeout too; nothing is
\* assumed of the child and its descendants.
ProcessFairness == WF_process(CallerStep) /\ WF_process(ReaderStep) /\ WF_process(Timeout)

-----------------------------------------------------------------------------
\* A successful answer is all that the child and its descendants have written
\* to stdout, and the child has ended well: neither a timeout nor a slow thread
\* nor somebody who writes after the child's end cuts it short.
AnswerIsWhole ==
  caller = "returned" /\ answer.ok => succeeded /\ child = "reaped" /\ answer.size = made["out"]

=============================================================================
