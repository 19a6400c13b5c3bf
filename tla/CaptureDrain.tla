---------------------------- MODULE CaptureDrain ----------------------------
(***************************************************************************)
(* The concurrent half of capture_command_pinned                           *)
(* (crates/outctl-engine/src/capture.rs): the captured process tree, the   *)
(* two drain threads that share one byte budget, the stdin writer thread   *)
(* and the calling thread, from the moment the child runs until the        *)
(* capture status is decided.  What happens to the evidence afterwards     *)
(* (manifest, sidecar, rename, publication) is module Spool.               *)
(*                                                                         *)
(* Bytes are counted, not represented.  A SIGKILL takes effect some time   *)
(* after it is sent: a "doomed" process may still write until it dies.     *)
(***************************************************************************)
EXTENDS Naturals, FiniteSets

CONSTANTS
    MaxBytes,    \* options.max_bytes, the budget both streams share
    PipeCap,     \* capacity of a kernel pipe
    ChunkBytes,  \* the most one read returns (CHUNK_BYTES)
    Members,     \* descendants that stay in the child's process group
    Detached,    \* descendants that left it (setsid): SIGKILL misses them
    Redirecting, \* processes that may close one of their pipe ends early
    MaxFaults    \* bound on injected storage, pipe and wait failures

ASSUME CapturePositive ==
    /\ MaxBytes \in Nat \ {0} /\ PipeCap \in Nat \ {0}
    /\ ChunkBytes \in Nat \ {0} /\ MaxFaults \in Nat

ASSUME ProcessesDistinct ==
    "child" \notin Members \cup Detached /\ Members \cap Detached = {}

Streams == {"stdout", "stderr"}
Group == {"child"} \cup Members
Procs == Group \cup Detached

\* capture_failure_key: the errno classes of storage_failure_key are one key.
FailureKeys == {"none", "READ", "WRITE", "SYNC"}

VARIABLES
    required,   \* options.required_capture
    proc,       \* [Procs -> unborn, alive, doomed (SIGKILL pending), dead]
    holders,    \* [Streams -> processes holding the pipe's write end]
    pipe,       \* [Streams -> unread bytes in the pipe]
    dpc,        \* [Streams -> where its drain thread is]
    buf,        \* [Streams -> bytes read and not stored yet]
    writable,   \* [Streams -> the thread's local flag]
    retained,   \* [Streams -> retained_bytes, what the digest covers]
    excess,     \* a stream's file holds bytes beyond its retained_bytes
    lost,       \* a byte was read from a pipe and not retained
    sync_failed,\* a StreamOutcome has sync_failed
    sink,       \* SharedSink: retained_total, sequence, failed, key
    truncated,  \* the AtomicBool
    stop_draining, drained,
    stdin,      \* stdin writer thread: writing, ended, failed
    stop_writing,
    mpc,        \* where the calling thread is
    verdict,    \* what wait_for_child and the drain grace found
    status,     \* capture_status once decided
    faults      \* failures injected so far

env    == <<required, proc, holders>>
files  == <<retained, excess, lost, sync_failed>>
drain  == <<dpc, buf, writable, files>>
shared == <<sink, truncated, stop_draining, drained>>
caller == <<stdin, stop_writing, mpc, verdict, status>>
vars   == <<env, pipe, drain, shared, caller, faults>>

Least(a, b) == IF a <= b THEN a ELSE b

Running(p) == proc[p] \in {"alive", "doomed"}

TypeOK ==
    /\ required \in BOOLEAN
    /\ proc \in [Procs -> {"unborn", "alive", "doomed", "dead"}]
    /\ holders \in [Streams -> SUBSET Procs]
    /\ pipe \in [Streams -> 0..PipeCap]
    /\ dpc \in [Streams -> {"read", "blocked", "store", "sync", "done"}]
    /\ buf \in [Streams -> 0..ChunkBytes]
    /\ writable \in [Streams -> BOOLEAN]
    /\ retained \in [Streams -> Nat]
    /\ excess \in BOOLEAN /\ lost \in BOOLEAN /\ sync_failed \in BOOLEAN
    /\ sink \in [retained_total : Nat, sequence : Nat,
                 failed : BOOLEAN, key : FailureKeys]
    /\ truncated \in BOOLEAN /\ stop_draining \in BOOLEAN
    /\ drained \in 0..2
    /\ stdin \in {"writing", "ended", "failed"}
    /\ stop_writing \in BOOLEAN
    /\ mpc \in {"wait", "reap", "stdin", "grace", "join", "abort", "returned"}
    /\ verdict \in [cancelled : BOOLEAN,
                    grace_exhausted : BOOLEAN, result :
                        {"none", "ok", "cancelled", "finalize_error"}]
    /\ status \in {"none", "COMPLETE", "TRUNCATED", "CAPTURE_FAILED"}
    /\ faults \in 0..MaxFaults

\* The child has been spawned, its pipes are nonblocking, the threads started.
Init ==
    /\ required \in BOOLEAN
    /\ proc = [p \in Procs |-> IF p = "child" THEN "alive" ELSE "unborn"]
    /\ holders = [s \in Streams |-> {"child"}]
    /\ pipe = [s \in Streams |-> 0]
    /\ dpc = [s \in Streams |-> "read"]
    /\ buf = [s \in Streams |-> 0]
    /\ writable = [s \in Streams |-> TRUE]
    /\ retained = [s \in Streams |-> 0]
    /\ excess = FALSE /\ lost = FALSE /\ sync_failed = FALSE
    /\ sink = [retained_total |-> 0, sequence |-> 0,
               failed |-> FALSE, key |-> "none"]
    /\ truncated = FALSE /\ stop_draining = FALSE /\ drained = 0
    /\ stdin = "writing" /\ stop_writing = FALSE
    /\ mpc = "wait"
    /\ verdict = [cancelled |-> FALSE,
                  grace_exhausted |-> FALSE, result |-> "none"]
    /\ status = "none" /\ faults = 0

-----------------------------------------------------------------------------
(* The captured process tree (the environment of the capture).             *)

\* q forks p, which inherits the pipe ends q holds.  A process with a SIGKILL
\* pending forks no more (Linux restarts such a fork and delivers the signal).
Fork(q, p) ==
    /\ proc[q] = "alive" /\ proc[p] = "unborn"
    /\ q \in Detached => p \in Detached
    /\ proc' = [proc EXCEPT ![p] = "alive"]
    /\ holders' = [s \in Streams |-> IF q \in holders[s]
                                      THEN holders[s] \cup {p}
                                      ELSE holders[s]]
    /\ UNCHANGED <<required, pipe, drain, shared, caller, faults>>

\* A process writes one byte; the drain thread still holds the read end.
Write(p, s) ==
    /\ Running(p) /\ p \in holders[s]
    /\ dpc[s] # "done" /\ pipe[s] < PipeCap
    /\ pipe' = [pipe EXCEPT ![s] = @ + 1]
    /\ UNCHANGED <<env, drain, shared, caller, faults>>

\* A process redirects one of its pipe ends away.
Redirect(p, s) ==
    /\ p \in Redirecting /\ proc[p] = "alive" /\ p \in holders[s]
    /\ holders' = [holders EXCEPT ![s] = @ \ {p}]
    /\ UNCHANGED <<required, proc, pipe, drain, shared, caller, faults>>

\* A process exits by itself, or a pending SIGKILL reaches it.
Die(p) ==
    /\ Running(p)
    /\ proc' = [proc EXCEPT ![p] = "dead"]
    /\ holders' = [s \in Streams |-> holders[s] \ {p}]
    /\ UNCHANGED <<required, pipe, drain, shared, caller, faults>>

\* kill_process_group: SIGKILL to the whole group; ESRCH is ignored.
kill_process_group ==
    proc' = [p \in Procs |-> IF p \in Group /\ proc[p] = "alive"
                             THEN "doomed" ELSE proc[p]]

\* A slip: only the direct child is killed.
kill_child_if_required(failed) ==
    proc' = [p \in Procs |-> IF p = "child" /\ proc[p] = "alive" /\ failed
                                /\ required THEN "doomed" ELSE proc[p]]

\* A drain thread that finds the capture failed kills the group of a required
\* command right after it drops the lock; one action with what it did under the
\* lock, since nothing that can run in between depends on both.
kill_if_required(failed) ==
    IF failed /\ required THEN kill_process_group ELSE UNCHANGED proc

-----------------------------------------------------------------------------
(* spawn_drain: the drain thread of stream s.                              *)

\* A slip: a thread that lost its file stops reading.
ReadableWhileStoring(s) == pipe[s] > 0 /\ writable[s]

\* The loop reads whatever the pipe holds.
Readable(s) == pipe[s] > 0

\* read() returned data.  A thread that lost its file keeps reading and
\* drops what it reads, so that the child is not blocked on a full pipe.
ReadData(s) ==
    /\ dpc[s] = "read" /\ Readable(s)
    /\ \E n \in 1..Least(pipe[s], ChunkBytes) :
        /\ pipe' = [pipe EXCEPT ![s] = @ - n]
        /\ IF writable[s]
           THEN /\ buf' = [buf EXCEPT ![s] = n]
                /\ dpc' = [dpc EXCEPT ![s] = "store"]
                /\ UNCHANGED lost
           ELSE /\ lost' = TRUE
                /\ UNCHANGED <<buf, dpc>>
    /\ UNCHANGED <<env, writable, retained, excess, sync_failed, shared,
                   caller, faults>>

\* The loop is left: the thread reports itself drained, and only then syncs.
LeaveLoop(s) ==
    /\ drained' = drained + 1
    /\ dpc' = [dpc EXCEPT ![s] = "sync"]

\* read() returned 0: every write end is closed.
ReadEnd(s) ==
    /\ dpc[s] = "read" /\ pipe[s] = 0 /\ holders[s] = {}
    /\ LeaveLoop(s)
    /\ UNCHANGED <<env, pipe, buf, writable, files, sink, truncated,
                   stop_draining, caller, faults>>

\* read() returned WouldBlock ...
ReadBlocked(s) ==
    /\ dpc[s] = "read" /\ pipe[s] = 0 /\ holders[s] # {}
    /\ dpc' = [dpc EXCEPT ![s] = "blocked"]
    /\ UNCHANGED <<env, pipe, buf, writable, files, shared, caller, faults>>

\* A slip: a blocked reader never looks at the flag.
BlockedForGood(s) ==
    /\ dpc[s] = "blocked"
    /\ dpc' = [dpc EXCEPT ![s] = "read"]
    /\ UNCHANGED <<env, pipe, buf, writable, files, shared, caller, faults>>

\* A slip: a reader that would block takes the stream for ended.
BlockedEnds(s) ==
    /\ dpc[s] = "blocked"
    /\ LeaveLoop(s)
    /\ UNCHANGED <<env, pipe, buf, writable, files, sink, truncated,
                   stop_draining, caller, faults>>

\* ... and then, here and nowhere else, stop_draining is looked at.
Blocked(s) ==
    /\ dpc[s] = "blocked"
    /\ IF stop_draining THEN LeaveLoop(s)
       ELSE dpc' = [dpc EXCEPT ![s] = "read"] /\ UNCHANGED drained
    /\ UNCHANGED <<env, pipe, buf, writable, files, sink, truncated,
                   stop_draining, caller, faults>>

\* mark_capture_failed keeps a key that is already there.
mark_capture_failed ==
    sink' = [sink EXCEPT !.failed = TRUE,
                         !.key = IF @ = "none" THEN "READ" ELSE @]

\* read() failed for good: the stream is abandoned where it is.
ReadError(s) ==
    /\ dpc[s] = "read" /\ faults < MaxFaults
    /\ mark_capture_failed
    /\ kill_if_required(TRUE)
    /\ LeaveLoop(s)
    /\ faults' = faults + 1
    /\ UNCHANGED <<required, holders, pipe, buf, writable, files, truncated,
                   stop_draining, caller>>

\* A slip: a budget for each stream.
OwnAllowance(s) == Least(buf[s], MaxBytes - retained[s])

\* How much of the chunk the shared budget still allows.
Allowance(s) == Least(buf[s], MaxBytes - sink.retained_total)

\* Under the lock: nothing left of the budget, the chunk is dropped.
StoreNothing(s) ==
    /\ dpc[s] = "store" /\ Allowance(s) = 0
    /\ truncated' = TRUE
    /\ lost' = TRUE
    /\ buf' = [buf EXCEPT ![s] = 0]
    /\ dpc' = [dpc EXCEPT ![s] = "read"]
    /\ UNCHANGED <<env, pipe, writable, retained, excess, sync_failed, sink,
                   stop_draining, drained, caller, faults>>

\* Under the lock: the allowed prefix goes to the file and its event to the
\* event file, and both are counted.
StoreChunk(s) ==
    /\ dpc[s] = "store" /\ Allowance(s) > 0
    /\ LET k == Allowance(s) IN
        /\ truncated' = (truncated \/ k # buf[s])
        /\ lost' = (lost \/ k # buf[s])
        /\ retained' = [retained EXCEPT ![s] = @ + k]
        /\ sink' = [sink EXCEPT !.retained_total = @ + k, !.sequence = @ + 1]
    /\ kill_if_required(sink.failed)
    /\ buf' = [buf EXCEPT ![s] = 0]
    /\ dpc' = [dpc EXCEPT ![s] = "read"]
    /\ UNCHANGED <<required, holders, pipe, writable, excess, sync_failed,
                   stop_draining, drained, caller, faults>>

\* Under the lock: writing the bytes or their event fails.  The file may
\* hold a part of the chunk, or all of it, that nothing counts.
StoreError(s) ==
    /\ dpc[s] = "store" /\ Allowance(s) > 0 /\ faults < MaxFaults
    /\ truncated' = (truncated \/ Allowance(s) # buf[s])
    /\ lost' = TRUE
    /\ \E written \in BOOLEAN : excess' = (excess \/ written)
    /\ sink' = [sink EXCEPT !.failed = TRUE, !.key = "WRITE"]
    /\ writable' = [writable EXCEPT ![s] = FALSE]
    /\ kill_if_required(TRUE)
    /\ buf' = [buf EXCEPT ![s] = 0]
    /\ dpc' = [dpc EXCEPT ![s] = "read"]
    /\ faults' = faults + 1
    /\ UNCHANGED <<required, holders, pipe, retained, sync_failed,
                   stop_draining, drained, caller>>

\* A slip: the thread reports itself drained after the sync as well.
SyncReportingAgain(s) ==
    /\ dpc[s] = "sync"
    /\ dpc' = [dpc EXCEPT ![s] = "done"]
    /\ drained' = drained + 1
    /\ UNCHANGED <<env, pipe, buf, writable, files, sink, truncated,
                   stop_draining, caller, faults>>

\* After the loop: sync the stream's file.
Sync(s) ==
    /\ dpc[s] = "sync"
    /\ dpc' = [dpc EXCEPT ![s] = "done"]
    /\ UNCHANGED <<env, pipe, buf, writable, files, shared, caller, faults>>

SyncError(s) ==
    /\ dpc[s] = "sync" /\ faults < MaxFaults
    /\ sync_failed' = TRUE
    /\ mark_capture_failed
    /\ kill_if_required(TRUE)
    /\ dpc' = [dpc EXCEPT ![s] = "done"]
    /\ faults' = faults + 1
    /\ UNCHANGED <<required, holders, pipe, buf, writable, retained, excess,
                   lost, truncated, stop_draining, drained, caller>>

DrainStep(s) ==
    \/ ReadData(s) \/ ReadEnd(s) \/ ReadBlocked(s) \/ Blocked(s)
    \/ StoreNothing(s) \/ StoreChunk(s) \/ Sync(s)

DrainFault(s) == ReadError(s) \/ StoreError(s) \/ SyncError(s)

-----------------------------------------------------------------------------
(* The stdin writer thread.                                                *)

\* The flag is looked at before every write, a blocked one included.  That the
\* thread may end earlier (all written, or the child closed its end) is not
\* seen by anybody before the join.
StdinEnd ==
    /\ stdin = "writing" /\ stop_writing /\ stdin' = "ended"
    /\ UNCHANGED <<env, pipe, drain, shared, stop_writing, mpc, verdict,
                   status, faults>>

StdinError ==
    /\ stdin = "writing" /\ stop_writing /\ faults < MaxFaults
    /\ stdin' = "failed" /\ faults' = faults + 1
    /\ UNCHANGED <<env, pipe, drain, shared, stop_writing, mpc, verdict,
                   status>>

-----------------------------------------------------------------------------
(* The calling thread: wait_for_child, the stdin join, the drain grace,    *)
(* the drain joins and the status.                                         *)

\* The loop finds the caller's token set, or the timeout passed: SIGKILL, then
\* wait().  Either can happen in any round, or never.
CancelObserved ==
    /\ mpc = "wait"
    /\ kill_process_group
    /\ verdict' = [verdict EXCEPT !.cancelled = TRUE]
    /\ mpc' = "reap"
    /\ UNCHANGED <<required, holders, pipe, drain, shared, stdin,
                   stop_writing, status, faults>>

Timeout ==
    /\ mpc = "wait"
    /\ kill_process_group
    /\ mpc' = "reap"
    /\ UNCHANGED <<required, holders, pipe, drain, shared, stdin,
                   stop_writing, verdict, status, faults>>

\* try_wait, or the wait after a SIGKILL, reaps the child; the stdin writer
\* is told to stop.
Reap ==
    /\ mpc \in {"wait", "reap"} /\ proc["child"] = "dead"
    /\ mpc' = "stdin" /\ stop_writing' = TRUE
    /\ UNCHANGED <<env, pipe, drain, shared, stdin, verdict, status, faults>>

\* A slip: the drained messages are taken for the joins.
JoinedWhenDrained == drained = 2

\* Both drain threads have been joined.
Joined == \A s \in Streams : dpc[s] = "done"

\* Waiting for the child fails: kill, wait again whatever comes of it, stop
\* everybody, join, give up.
WaitError ==
    /\ mpc \in {"wait", "reap"} /\ faults < MaxFaults
    /\ kill_process_group
    /\ stop_writing' = TRUE /\ stop_draining' = TRUE
    /\ mpc' = "abort" /\ faults' = faults + 1
    /\ UNCHANGED <<required, holders, pipe, drain, sink, truncated, drained,
                   stdin, verdict, status>>

Abort ==
    /\ mpc = "abort"
    /\ Joined
    /\ stdin # "writing"
    /\ mpc' = "returned"
    /\ verdict' = [verdict EXCEPT !.result = "finalize_error"]
    /\ UNCHANGED <<env, pipe, drain, shared, stdin, stop_writing, status,
                   faults>>

\* Joining the stdin writer; its error returns at once, drain threads and all.
JoinStdin ==
    /\ mpc = "stdin" /\ stdin # "writing"
    /\ IF stdin = "failed"
       THEN /\ mpc' = "returned"
            /\ verdict' = [verdict EXCEPT !.result = "finalize_error"]
       ELSE mpc' = "grace" /\ UNCHANGED verdict
    /\ UNCHANGED <<env, pipe, drain, shared, stdin, stop_writing, status,
                   faults>>

\* wait_for_drainers: both threads reported within the grace ...
GraceDrained ==
    /\ mpc = "grace" /\ drained = 2
    /\ mpc' = "join"
    /\ UNCHANGED <<env, pipe, drain, shared, stdin, stop_writing, verdict,
                   status, faults>>

\* A slip: the readers are stopped and the group is left alone.
GraceExpiredNoKill ==
    /\ mpc = "grace"
    /\ stop_draining' = TRUE
    /\ verdict' = [verdict EXCEPT !.grace_exhausted = TRUE]
    /\ mpc' = "join"
    /\ UNCHANGED <<env, pipe, drain, sink, truncated, drained, stdin,
                   stop_writing, status, faults>>

\* ... or it ran out, perhaps with a message still unread: kill the group and
\* tell the drain threads to stop.
GraceExpired ==
    /\ mpc = "grace"
    /\ kill_process_group
    /\ stop_draining' = TRUE
    /\ verdict' = [verdict EXCEPT !.grace_exhausted = TRUE]
    /\ mpc' = "join"
    /\ UNCHANGED <<required, holders, pipe, drain, sink, truncated, drained,
                   stdin, stop_writing, status, faults>>

\* A slip: only the quota is looked at.
CaptureStatusOfQuota(failed) == IF truncated THEN "TRUNCATED" ELSE "COMPLETE"

\* The capture status of the manifest.
CaptureStatus(failed) ==
    CASE failed -> "CAPTURE_FAILED"
      [] ~failed /\ truncated -> "TRUNCATED"
      [] OTHER -> "COMPLETE"

\* Both threads joined: sync the event file, decide the status.  A cancelled
\* capture gets an incomplete manifest instead, which may fail to be written.
Join ==
    /\ mpc = "join" /\ Joined
    /\ \E event_sync_failed \in BOOLEAN :
        LET sync == event_sync_failed \/ sync_failed
        IN  /\ event_sync_failed => faults < MaxFaults
            /\ faults' = faults + (IF event_sync_failed THEN 1 ELSE 0)
            /\ sink' = [sink EXCEPT
                    !.failed = @ \/ sync,
                    !.key = IF sync /\ @ = "none" THEN "SYNC" ELSE @]
            /\ IF verdict.cancelled
               THEN /\ \E r \in {"cancelled", "finalize_error"} :
                        verdict' = [verdict EXCEPT !.result = r]
                    /\ UNCHANGED status
               ELSE /\ verdict' = [verdict EXCEPT !.result = "ok"]
                    /\ status' = CaptureStatus(sink.failed \/ sync)
    /\ mpc' = "returned"
    /\ UNCHANGED <<env, pipe, drain, truncated, stop_draining, drained, stdin,
                   stop_writing>>

CallerStep == Reap \/ Abort \/ JoinStdin \/ GraceDrained \/ GraceExpired \/ Join

DetachedWrite == \E p \in Detached, s \in Streams : Write(p, s)

ProcessStep ==
    \/ \E q, p \in Procs : Fork(q, p)
    \/ \E p \in Procs, s \in Streams : Write(p, s) \/ Redirect(p, s)
    \/ \E p \in Procs : Die(p)

\* The call has returned and nothing is left to run.
Finished ==
    /\ mpc = "returned" /\ \A s \in Streams : dpc[s] = "done"
    /\ UNCHANGED vars

Next ==
    \/ ProcessStep
    \/ \E s \in Streams : DrainStep(s) \/ DrainFault(s)
    \/ StdinEnd \/ StdinError
    \/ CancelObserved \/ Timeout
    \/ CallerStep \/ WaitError
    \/ Finished

(***************************************************************************)
(* Threads that can run do run, the drain grace expires, and a SIGKILL     *)
(* that was sent reaches its process.  Nothing is assumed of what the      *)
(* command does, nor that it is ever cancelled or timed out.               *)
(***************************************************************************)
Fairness ==
    /\ \A s \in Streams : WF_vars(DrainStep(s))
    /\ WF_vars(StdinEnd)
    /\ WF_vars(CallerStep)
    /\ \A p \in Procs : WF_vars(proc[p] = "doomed" /\ Die(p))

Spec == Init /\ [][Next]_vars
FairSpec == Spec /\ Fairness

-----------------------------------------------------------------------------
(* Properties.                                                             *)

(* The two drain threads never retain more than max_bytes between them,    *)
(* however their reads interleave: the shared counter is the sum of what   *)
(* each stream's digest covers, and every event stands for a byte of it.   *)
SharedBudget ==
    /\ sink.retained_total = retained["stdout"] + retained["stderr"]
    /\ sink.retained_total <= MaxBytes
    /\ sink.sequence <= sink.retained_total

(* A capture is reported COMPLETE only if no byte that was read was        *)
(* dropped, and, unless the drain grace ran out, only if every byte any    *)
(* process wrote was read: both pipes are empty with no writer left.  It   *)
(* is reported TRUNCATED only if the shared budget was used to its last    *)
(* byte and something beyond it was dropped.                               *)
StatusIsHonest ==
    /\ status = "COMPLETE" =>
        /\ ~lost /\ \A s \in Streams : buf[s] = 0
        /\ verdict.grace_exhausted
              \/ \A s \in Streams : pipe[s] = 0 /\ holders[s] = {}
    /\ status = "TRUNCATED" => lost /\ sink.retained_total = MaxBytes

(* A COMPLETE or TRUNCATED manifest describes its files: nothing beyond    *)
(* the counted bytes is in them and both were synced, also when the sync   *)
(* failed only after the thread had reported itself drained.               *)
UsableEvidenceVerifies ==
    status \in {"COMPLETE", "TRUNCATED"} => ~excess /\ ~sync_failed

(* When a usable capture returns, no process of the command's group is     *)
(* left running on an inherited pipe: what still holds one has its SIGKILL *)
(* pending (the drain grace's process-group cleanup).                      *)
InheritedPipesCleanedUp ==
    status \in {"COMPLETE", "TRUNCATED"} =>
        \A s \in Streams : \A p \in Group \cap holders[s] : proc[p] = "doomed"

(* In a required capture a storage failure cancels the command: once the   *)
(* thread that met it has gone on, the child is dead or has its SIGKILL    *)
(* pending, and, when that was a drain thread, so is every process the     *)
(* child left in its group (an event file that fails to sync after the     *)
(* join kills nobody).                                                     *)
RequiredFailureCancels ==
    required /\ sink.failed =>
        /\ proc["child"] # "alive"
        /\ sink.key # "SYNC" => \A p \in Members : proc[p] # "alive"

(* Once the status is decided nothing the manifest records changes any     *)
(* more: no drain thread outlives the decision.                            *)
DecidedIsFrozen ==
    [][status # "none" =>
        UNCHANGED <<retained, excess, lost, sync_failed, sink, truncated>>]_vars

Contract == INSTANCE Collection WITH
    Limit <- MaxBytes, total <- sink.retained_total, dropped <- lost,
    damaged <- sink.failed, verdict <- status,
    recorded <- <<retained, sink.sequence, truncated, excess, sync_failed>>

(***************************************************************************)
(* The two drain threads and the calling thread together are one collector *)
(* with one budget: a loss without a failure happens only with the budget  *)
(* spent to its last byte, no loss or failure is forgotten, the status is  *)
(* the one they call for, also for a failure met after the joins, and      *)
(* nothing the status was drawn from changes after it: no drain thread     *)
(* outlives the decision.                                                  *)
(***************************************************************************)
ImplementsCollection == Contract!Spec

(* A full pipe is always emptied again, past the quota and past a storage  *)
(* failure too, unless its stream has been given up: the child cannot      *)
(* block for ever on output nobody reads.                                  *)
PipesKeepDraining ==
    \A s \in Streams :
        (pipe[s] = PipeCap) ~> (pipe[s] < PipeCap \/ dpc[s] = "done")

(* Once the child has exited, timed out, been cancelled or been given up,  *)
(* the call returns, unless a process outside the group writes for ever.   *)
ReturnsUnlessFlooded ==
    \/ []<><<DetachedWrite>>_vars
    \/ (mpc # "wait") ~> (mpc = "returned")

(* The comment at the drain grace: "Bound that drain window, terminate the *)
(* original process group, and stop the nonblocking readers instead of     *)
(* hanging."  Once the grace has started, the call returns.                *)
GraceBoundsDrain == (mpc = "grace") ~> (mpc = "returned")

=============================================================================
