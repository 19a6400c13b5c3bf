------------------------- MODULE CaptureDrainProofs -------------------------
(***************************************************************************)
(* The safety properties of CaptureDrain, proved for every budget, pipe    *)
(* capacity, chunk size, process tree and number of failures.              *)
(***************************************************************************)
EXTENDS CaptureDrain, TLAPS

\* Whether a drain thread has reported itself drained.
Left(s) == IF dpc[s] \in {"sync", "done"} THEN 1 ELSE 0

(* The channel holds one message of each thread that left its loop.        *)
Counted == drained = Left("stdout") + Left("stderr")

(* A drain thread: nothing is in its buffer outside the critical section,  *)
(* it gives its file up only with the capture marked failed, and it leaves *)
(* a pipe that is not at its end only after a failure or when told to.     *)
DrainInv ==
    \A s \in Streams :
        /\ dpc[s] # "store" => buf[s] = 0
        /\ ~writable[s] => sink.failed
        /\ dpc[s] \in {"sync", "done"} /\ ~sink.failed /\ ~stop_draining
            => pipe[s] = 0 /\ holders[s] = {}

(* Every loss leaves its trace: a dropped byte in truncated or in the      *)
(* failed flag, an uncounted or unsynced one in the failed flag.           *)
FailInv ==
    /\ lost => truncated \/ sink.failed
    /\ excess => sink.failed
    /\ sync_failed => sink.failed
    /\ sink.failed <=> sink.key # "none"

(* The calling thread: a status is decided only after both joins, from the *)
(* flags as they stay, and the drain threads are only told to stop when    *)
(* the grace ran out or the call is being given up.                        *)
CallerInv ==
    /\ status # "none" => mpc = "returned" /\ \A s \in Streams : dpc[s] = "done"
    /\ status \in {"COMPLETE", "TRUNCATED"} => ~sink.failed
    /\ status = "COMPLETE" => ~truncated
    /\ stop_draining => \/ verdict.grace_exhausted
                        \/ mpc = "abort"
                        \/ mpc = "returned" /\ status = "none"
    /\ sink.key = "SYNC" => mpc = "returned"

(* Truncation without a failure means that the budget is spent, whichever  *)
(* thread spent it: a chunk to be stored is never empty, so that nothing   *)
(* is allowed of it only when nothing is left.                             *)
QuotaInv ==
    /\ \A s \in Streams : dpc[s] = "store" => buf[s] > 0
    /\ truncated => lost /\ (sink.failed \/ sink.retained_total = MaxBytes)
    /\ status = "TRUNCATED" => truncated

(* The process tree: who holds a pipe runs, and the group has its SIGKILL  *)
(* wherever the code believes so.                                          *)
GroupKilled == \A p \in Group : proc[p] # "alive"

ProcInv ==
    /\ proc["child"] # "unborn"
    /\ mpc # "wait" => proc["child"] # "alive"
    /\ stop_draining => GroupKilled
    /\ required /\ sink.failed /\ sink.key # "SYNC" => GroupKilled
    /\ \A s \in Streams : \A p \in holders[s] : Running(p)

IInv ==
    TypeOK /\ Counted /\ SharedBudget /\ DrainInv /\ FailInv /\ CallerInv
        /\ QuotaInv /\ ProcInv

(* A SIGKILL, or none, leaves every process in a known state.              *)
LEMMA KillType ==
    ASSUME TypeOK, NEW failed \in BOOLEAN,
           kill_if_required(failed) \/ kill_process_group
    PROVE  proc' \in [Procs -> {"unborn", "alive", "doomed", "dead"}]
<1>1. CASE kill_process_group
  BY <1>1 DEF kill_process_group, TypeOK
<1>2. CASE UNCHANGED proc
  BY <1>2 DEF TypeOK
<1>3. QED
  BY <1>1, <1>2 DEF kill_if_required

(* The type invariant, with the message count of the channel, is           *)
(* inductive: no interleaving sends a third message.                       *)
LEMMA TypeStep ==
    ASSUME TypeOK, Counted, [Next]_vars PROVE TypeOK' /\ Counted'
<1> USE CapturePositive, ProcessesDistinct
    DEF env, files, drain, shared, caller, Streams, TypeOK, Counted, Left,
        FailureKeys, Procs, Group
<1>1. ASSUME NEW q \in Procs, NEW p \in Procs, Fork(q, p)
      PROVE TypeOK' /\ Counted'
  BY <1>1 DEF Fork
<1>2. ASSUME NEW p \in Procs, NEW s \in Streams, Write(p, s)
      PROVE TypeOK' /\ Counted'
  BY <1>2 DEF Write
<1>3. ASSUME NEW p \in Procs, NEW s \in Streams, Redirect(p, s)
      PROVE TypeOK' /\ Counted'
  BY <1>3 DEF Redirect
<1>4. ASSUME NEW p \in Procs, Die(p) PROVE TypeOK' /\ Counted'
  BY <1>4 DEF Die
<1>5. ASSUME NEW s \in Streams, ReadData(s) PROVE TypeOK' /\ Counted'
  <2>1. PICK n \in 1..Least(pipe[s], ChunkBytes) :
            /\ pipe' = [pipe EXCEPT ![s] = @ - n]
            /\ \/ /\ buf' = [buf EXCEPT ![s] = n]
                  /\ dpc' = [dpc EXCEPT ![s] = "store"] /\ lost' = lost
               \/ lost' = TRUE /\ buf' = buf /\ dpc' = dpc
    BY <1>5 DEF ReadData
  <2>2. n \in Nat /\ n <= pipe[s] /\ n <= ChunkBytes
    BY <2>1 DEF Least
  <2>3. pipe' \in [Streams -> 0..PipeCap] /\ buf' \in [Streams -> 0..ChunkBytes]
    BY <2>1, <2>2
  <2>4. dpc' \in [Streams -> {"read", "blocked", "store", "sync", "done"}]
    BY <2>1
  <2>5. lost' \in BOOLEAN
    BY <2>1
  <2>6. Counted'
    BY <1>5, <2>1 DEF ReadData
  <2>7. QED
    BY <1>5, <2>3, <2>4, <2>5, <2>6 DEF ReadData
<1>6. ASSUME NEW s \in Streams, ReadEnd(s) PROVE TypeOK' /\ Counted'
  BY <1>6 DEF ReadEnd, LeaveLoop
<1>7. ASSUME NEW s \in Streams, ReadBlocked(s) PROVE TypeOK' /\ Counted'
  BY <1>7 DEF ReadBlocked
<1>8. ASSUME NEW s \in Streams, Blocked(s) PROVE TypeOK' /\ Counted'
  BY <1>8 DEF Blocked, LeaveLoop
<1>9. ASSUME NEW s \in Streams, StoreNothing(s) PROVE TypeOK' /\ Counted'
  BY <1>9 DEF StoreNothing, Allowance, Least
<1>10. ASSUME NEW s \in Streams, StoreChunk(s) PROVE TypeOK' /\ Counted'
  <2>1. Allowance(s) \in Nat
    BY <1>10 DEF StoreChunk, Allowance, Least
  <2>2. sink' \in [retained_total : Nat, sequence : Nat, failed : BOOLEAN,
                        key : {"none", "READ", "WRITE", "SYNC"}]
    <3>1. sink' = [sink EXCEPT !.retained_total = @ + Allowance(s),
                               !.sequence = @ + 1]
      BY <1>10 DEF StoreChunk
    <3>2. sink.retained_total + Allowance(s) \in Nat /\ sink.sequence + 1 \in Nat
      BY <2>1
    <3>3. QED
      BY <3>1, <3>2
  <2>3. retained' \in [Streams -> Nat]
    BY <1>10, <2>1 DEF StoreChunk
  <2>4. proc' \in [Procs -> {"unborn", "alive", "doomed", "dead"}]
    BY <1>10, KillType DEF StoreChunk
  <2>5. QED
    BY <1>10, <2>2, <2>3, <2>4 DEF StoreChunk
<1>11. ASSUME NEW s \in Streams, Sync(s) PROVE TypeOK' /\ Counted'
  BY <1>11 DEF Sync
<1>12. ASSUME NEW s \in Streams, ReadError(s) PROVE TypeOK' /\ Counted'
  <2>1. sink' \in [retained_total : Nat, sequence : Nat, failed : BOOLEAN,
                        key : {"none", "READ", "WRITE", "SYNC"}]
    BY <1>12 DEF ReadError, mark_capture_failed
  <2>2. proc' \in [Procs -> {"unborn", "alive", "doomed", "dead"}]
    BY <1>12, KillType DEF ReadError
  <2>3. QED
    BY <1>12, <2>1, <2>2 DEF ReadError, LeaveLoop
<1>13. ASSUME NEW s \in Streams, StoreError(s) PROVE TypeOK' /\ Counted'
  <2>1. sink' \in [retained_total : Nat, sequence : Nat, failed : BOOLEAN,
                        key : {"none", "READ", "WRITE", "SYNC"}]
    BY <1>13 DEF StoreError
  <2>2. proc' \in [Procs -> {"unborn", "alive", "doomed", "dead"}]
    BY <1>13, KillType DEF StoreError
  <2>3. QED
    BY <1>13, <2>1, <2>2 DEF StoreError
<1>14. ASSUME NEW s \in Streams, SyncError(s) PROVE TypeOK' /\ Counted'
  <2>1. sink' \in [retained_total : Nat, sequence : Nat, failed : BOOLEAN,
                        key : {"none", "READ", "WRITE", "SYNC"}]
    BY <1>14 DEF SyncError, mark_capture_failed
  <2>2. proc' \in [Procs -> {"unborn", "alive", "doomed", "dead"}]
    BY <1>14, KillType DEF SyncError
  <2>3. QED
    BY <1>14, <2>1, <2>2 DEF SyncError
<1>15. CASE StdinEnd
  BY <1>15 DEF StdinEnd
<1>16. CASE StdinError
  BY <1>16 DEF StdinError
<1>17. CASE CancelObserved
  <2>1. verdict' \in [cancelled : BOOLEAN, grace_exhausted : BOOLEAN,
                           result : {"none", "ok", "cancelled", "finalize_error"}]
    BY <1>17 DEF CancelObserved
  <2>2. proc' \in [Procs -> {"unborn", "alive", "doomed", "dead"}]
    BY <1>17, KillType DEF CancelObserved
  <2>3. QED
    BY <1>17, <2>1, <2>2 DEF CancelObserved
<1>18. CASE Timeout
  BY <1>18 DEF Timeout, kill_process_group
<1>19. CASE Reap
  BY <1>19 DEF Reap
<1>20. CASE WaitError
  BY <1>20 DEF WaitError, kill_process_group
<1>21. CASE Abort
  BY <1>21 DEF Abort, Joined
<1>22. CASE JoinStdin
  BY <1>22 DEF JoinStdin
<1>23. CASE GraceDrained
  BY <1>23 DEF GraceDrained
<1>24. CASE GraceExpired
  <2>1. verdict' \in [cancelled : BOOLEAN, grace_exhausted : BOOLEAN,
                           result : {"none", "ok", "cancelled", "finalize_error"}]
    BY <1>24 DEF GraceExpired
  <2>2. proc' \in [Procs -> {"unborn", "alive", "doomed", "dead"}]
    BY <1>24, KillType DEF GraceExpired
  <2>3. QED
    BY <1>24, <2>1, <2>2 DEF GraceExpired
<1>25. CASE Join
  <2>1. PICK failed \in BOOLEAN :
            /\ failed => faults < MaxFaults
            /\ faults' = faults + (IF failed THEN 1 ELSE 0)
            /\ sink' = [sink EXCEPT
                    !.failed = @ \/ failed \/ sync_failed,
                    !.key = IF (failed \/ sync_failed) /\ @ = "none"
                            THEN "SYNC" ELSE @]
            /\ \/ /\ \E r \in {"cancelled", "finalize_error"} :
                         verdict' = [verdict EXCEPT !.result = r]
                  /\ status' = status
               \/ /\ verdict' = [verdict EXCEPT !.result = "ok"]
                  /\ status' = CaptureStatus(sink.failed \/ failed \/ sync_failed)
    BY <1>25 DEF Join
  <2>2. faults' \in 0..MaxFaults
    BY <2>1
  <2>3. sink' \in [retained_total : Nat, sequence : Nat, failed : BOOLEAN,
                        key : {"none", "READ", "WRITE", "SYNC"}]
    BY <2>1
  <2>4. verdict' \in [cancelled : BOOLEAN, grace_exhausted : BOOLEAN,
                           result : {"none", "ok", "cancelled", "finalize_error"}]
    BY <2>1
  <2>5. status' \in {"none", "COMPLETE", "TRUNCATED", "CAPTURE_FAILED"}
    BY <2>1 DEF CaptureStatus
  <2>6. QED
    BY <1>25, <2>2, <2>3, <2>4, <2>5 DEF Join
<1>26. CASE UNCHANGED vars
  BY <1>26 DEF vars
<1> HIDE
    DEF env, files, drain, shared, caller, Streams, TypeOK, Counted, Left,
        FailureKeys, Procs, Group
<1>27. QED
  BY <1>1, <1>2, <1>3, <1>4, <1>5, <1>6, <1>7, <1>8, <1>9,
     <1>10, <1>11, <1>12, <1>13, <1>14, <1>15, <1>16, <1>17, <1>18,
     <1>19, <1>20, <1>21, <1>22, <1>23, <1>24, <1>25, <1>26
     DEF Next, ProcessStep, DrainStep, DrainFault, CallerStep, Finished

(* Neither thread can take the shared budget past max_bytes, because each  *)
(* computes its allowance and adds to the total under one lock.            *)
LEMMA BudgetStep ==
    ASSUME TypeOK, SharedBudget, [Next]_vars PROVE SharedBudget'
<1> USE CapturePositive, ProcessesDistinct
    DEF env, files, drain, shared, caller, Streams, TypeOK, SharedBudget
<1>1. ASSUME NEW q \in Procs, NEW p \in Procs, Fork(q, p) PROVE SharedBudget'
  BY <1>1 DEF Fork
<1>2. ASSUME NEW p \in Procs, NEW s \in Streams, Write(p, s)
      PROVE SharedBudget'
  BY <1>2 DEF Write
<1>3. ASSUME NEW p \in Procs, NEW s \in Streams, Redirect(p, s)
      PROVE SharedBudget'
  BY <1>3 DEF Redirect
<1>4. ASSUME NEW p \in Procs, Die(p) PROVE SharedBudget'
  BY <1>4 DEF Die
<1>5. ASSUME NEW s \in Streams, ReadData(s) PROVE SharedBudget'
  BY <1>5 DEF ReadData, Readable, Least
<1>6. ASSUME NEW s \in Streams, ReadEnd(s) PROVE SharedBudget'
  BY <1>6 DEF ReadEnd, LeaveLoop
<1>7. ASSUME NEW s \in Streams, ReadBlocked(s) PROVE SharedBudget'
  BY <1>7 DEF ReadBlocked
<1>8. ASSUME NEW s \in Streams, Blocked(s) PROVE SharedBudget'
  BY <1>8 DEF Blocked, LeaveLoop
<1>9. ASSUME NEW s \in Streams, StoreNothing(s) PROVE SharedBudget'
  BY <1>9 DEF StoreNothing, Allowance, Least
<1>10. ASSUME NEW s \in Streams, StoreChunk(s) PROVE SharedBudget'
  BY <1>10 DEF StoreChunk, Allowance, Least, kill_if_required,
      kill_process_group
<1>11. ASSUME NEW s \in Streams, Sync(s) PROVE SharedBudget'
  BY <1>11 DEF Sync
<1>12. ASSUME NEW s \in Streams, ReadError(s) PROVE SharedBudget'
  BY <1>12
   DEF ReadError, LeaveLoop, mark_capture_failed, kill_if_required,
      kill_process_group
<1>13. ASSUME NEW s \in Streams, StoreError(s) PROVE SharedBudget'
  BY <1>13 DEF StoreError, Allowance, Least, kill_if_required,
      kill_process_group
<1>14. ASSUME NEW s \in Streams, SyncError(s) PROVE SharedBudget'
  BY <1>14 DEF SyncError, mark_capture_failed, kill_if_required,
      kill_process_group
<1>15. CASE StdinEnd
  BY <1>15 DEF StdinEnd
<1>16. CASE StdinError
  BY <1>16 DEF StdinError
<1>17. CASE CancelObserved
  BY <1>17 DEF CancelObserved, kill_process_group
<1>18. CASE Timeout
  BY <1>18 DEF Timeout, kill_process_group
<1>19. CASE Reap
  BY <1>19 DEF Reap
<1>20. CASE WaitError
  BY <1>20 DEF WaitError, kill_process_group
<1>21. CASE Abort
  BY <1>21 DEF Abort, Joined
<1>22. CASE JoinStdin
  BY <1>22 DEF JoinStdin
<1>23. CASE GraceDrained
  BY <1>23 DEF GraceDrained
<1>24. CASE GraceExpired
  BY <1>24 DEF GraceExpired, kill_process_group
<1>25. CASE Join
  BY <1>25 DEF Join, Joined, CaptureStatus
<1>26. CASE UNCHANGED vars
  BY <1>26 DEF vars
<1> HIDE DEF env, files, drain, shared, caller, Streams, TypeOK, SharedBudget
<1>27. QED
  BY <1>1, <1>2, <1>3, <1>4, <1>5, <1>6, <1>7, <1>8, <1>9,
     <1>10, <1>11, <1>12, <1>13, <1>14, <1>15, <1>16, <1>17, <1>18,
     <1>19, <1>20, <1>21, <1>22, <1>23, <1>24, <1>25, <1>26
     DEF Next, ProcessStep, DrainStep, DrainFault, CallerStep, Finished

(* A chunk is cut short only where the budget ends, and what the other     *)
(* thread adds in between does not go past it.                             *)
LEMMA QuotaStep ==
    ASSUME TypeOK, SharedBudget, CallerInv, QuotaInv, [Next]_vars PROVE QuotaInv'
<1> USE CapturePositive, ProcessesDistinct
    DEF env, files, drain, shared, caller, Streams, TypeOK, SharedBudget, CallerInv, QuotaInv
<1>1. ASSUME NEW q \in Procs, NEW p \in Procs, Fork(q, p) PROVE QuotaInv'
  BY <1>1 DEF Fork
<1>2. ASSUME NEW p \in Procs, NEW s \in Streams, Write(p, s)
      PROVE QuotaInv'
  BY <1>2 DEF Write
<1>3. ASSUME NEW p \in Procs, NEW s \in Streams, Redirect(p, s)
      PROVE QuotaInv'
  BY <1>3 DEF Redirect
<1>4. ASSUME NEW p \in Procs, Die(p) PROVE QuotaInv'
  BY <1>4 DEF Die
<1>5. ASSUME NEW s \in Streams, ReadData(s) PROVE QuotaInv'
  BY <1>5 DEF ReadData, Readable, Least
<1>6. ASSUME NEW s \in Streams, ReadEnd(s) PROVE QuotaInv'
  BY <1>6 DEF ReadEnd, LeaveLoop
<1>7. ASSUME NEW s \in Streams, ReadBlocked(s) PROVE QuotaInv'
  BY <1>7 DEF ReadBlocked
<1>8. ASSUME NEW s \in Streams, Blocked(s) PROVE QuotaInv'
  BY <1>8 DEF Blocked, LeaveLoop
<1>9. ASSUME NEW s \in Streams, StoreNothing(s) PROVE QuotaInv'
  BY <1>9 DEF StoreNothing, Allowance, Least
<1>10. ASSUME NEW s \in Streams, StoreChunk(s) PROVE QuotaInv'
  BY <1>10 DEF StoreChunk, Allowance, Least, kill_if_required,
      kill_process_group
<1>11. ASSUME NEW s \in Streams, Sync(s) PROVE QuotaInv'
  BY <1>11 DEF Sync
<1>12. ASSUME NEW s \in Streams, ReadError(s) PROVE QuotaInv'
  BY <1>12
   DEF ReadError, LeaveLoop, mark_capture_failed, kill_if_required,
      kill_process_group
<1>13. ASSUME NEW s \in Streams, StoreError(s) PROVE QuotaInv'
  BY <1>13 DEF StoreError, Allowance, Least, kill_if_required,
      kill_process_group
<1>14. ASSUME NEW s \in Streams, SyncError(s) PROVE QuotaInv'
  BY <1>14 DEF SyncError, mark_capture_failed, kill_if_required,
      kill_process_group
<1>15. CASE StdinEnd
  BY <1>15 DEF StdinEnd
<1>16. CASE StdinError
  BY <1>16 DEF StdinError
<1>17. CASE CancelObserved
  BY <1>17 DEF CancelObserved, kill_process_group
<1>18. CASE Timeout
  BY <1>18 DEF Timeout, kill_process_group
<1>19. CASE Reap
  BY <1>19 DEF Reap
<1>20. CASE WaitError
  BY <1>20 DEF WaitError, kill_process_group
<1>21. CASE Abort
  BY <1>21 DEF Abort, Joined
<1>22. CASE JoinStdin
  BY <1>22 DEF JoinStdin
<1>23. CASE GraceDrained
  BY <1>23 DEF GraceDrained
<1>24. CASE GraceExpired
  BY <1>24 DEF GraceExpired, kill_process_group
<1>25. CASE Join
  BY <1>25 DEF Join, Joined, CaptureStatus
<1>26. CASE UNCHANGED vars
  BY <1>26 DEF vars
<1> HIDE DEF env, files, drain, shared, caller, Streams, TypeOK, SharedBudget, CallerInv, QuotaInv
<1>27. QED
  BY <1>1, <1>2, <1>3, <1>4, <1>5, <1>6, <1>7, <1>8, <1>9,
     <1>10, <1>11, <1>12, <1>13, <1>14, <1>15, <1>16, <1>17, <1>18,
     <1>19, <1>20, <1>21, <1>22, <1>23, <1>24, <1>25, <1>26
     DEF Next, ProcessStep, DrainStep, DrainFault, CallerStep, Finished

(* What a drain thread leaves behind is explained by the flags.            *)
LEMMA DrainInvStep ==
    ASSUME TypeOK, DrainInv, FailInv, [Next]_vars PROVE DrainInv'
<1> USE CapturePositive, ProcessesDistinct
    DEF env, files, drain, shared, caller, Streams, TypeOK, DrainInv, FailInv
<1>1. ASSUME NEW q \in Procs, NEW p \in Procs, Fork(q, p) PROVE DrainInv'
  BY <1>1 DEF Fork
<1>2. ASSUME NEW p \in Procs, NEW s \in Streams, Write(p, s) PROVE DrainInv'
  BY <1>2 DEF Write
<1>3. ASSUME NEW p \in Procs, NEW s \in Streams, Redirect(p, s)
      PROVE DrainInv'
  BY <1>3 DEF Redirect
<1>4. ASSUME NEW p \in Procs, Die(p) PROVE DrainInv'
  BY <1>4 DEF Die
<1>5. ASSUME NEW s \in Streams, ReadData(s) PROVE DrainInv'
  BY <1>5 DEF ReadData, Readable, Least
<1>6. ASSUME NEW s \in Streams, ReadEnd(s) PROVE DrainInv'
  BY <1>6 DEF ReadEnd, LeaveLoop
<1>7. ASSUME NEW s \in Streams, ReadBlocked(s) PROVE DrainInv'
  BY <1>7 DEF ReadBlocked
<1>8. ASSUME NEW s \in Streams, Blocked(s) PROVE DrainInv'
  BY <1>8 DEF Blocked, LeaveLoop
<1>9. ASSUME NEW s \in Streams, StoreNothing(s) PROVE DrainInv'
  BY <1>9 DEF StoreNothing, Allowance, Least
<1>10. ASSUME NEW s \in Streams, StoreChunk(s) PROVE DrainInv'
  BY <1>10 DEF StoreChunk, Allowance, Least, kill_if_required,
      kill_process_group
<1>11. ASSUME NEW s \in Streams, Sync(s) PROVE DrainInv'
  BY <1>11 DEF Sync
<1>12. ASSUME NEW s \in Streams, ReadError(s) PROVE DrainInv'
  BY <1>12
   DEF ReadError, LeaveLoop, mark_capture_failed, kill_if_required,
      kill_process_group
<1>13. ASSUME NEW s \in Streams, StoreError(s) PROVE DrainInv'
  BY <1>13 DEF StoreError, Allowance, Least, kill_if_required,
      kill_process_group
<1>14. ASSUME NEW s \in Streams, SyncError(s) PROVE DrainInv'
  BY <1>14 DEF SyncError, mark_capture_failed, kill_if_required,
      kill_process_group
<1>15. CASE StdinEnd
  BY <1>15 DEF StdinEnd
<1>16. CASE StdinError
  BY <1>16 DEF StdinError
<1>17. CASE CancelObserved
  BY <1>17 DEF CancelObserved, kill_process_group
<1>18. CASE Timeout
  BY <1>18 DEF Timeout, kill_process_group
<1>19. CASE Reap
  BY <1>19 DEF Reap
<1>20. CASE WaitError
  BY <1>20 DEF WaitError, kill_process_group
<1>21. CASE Abort
  BY <1>21 DEF Abort, Joined
<1>22. CASE JoinStdin
  BY <1>22 DEF JoinStdin
<1>23. CASE GraceDrained
  BY <1>23 DEF GraceDrained
<1>24. CASE GraceExpired
  BY <1>24 DEF GraceExpired, kill_process_group
<1>25. CASE Join
  BY <1>25 DEF Join, Joined, CaptureStatus
<1>26. CASE UNCHANGED vars
  BY <1>26 DEF vars
<1> HIDE
    DEF env, files, drain, shared, caller, Streams, TypeOK, DrainInv, FailInv
<1>27. QED
  BY <1>1, <1>2, <1>3, <1>4, <1>5, <1>6, <1>7, <1>8, <1>9,
     <1>10, <1>11, <1>12, <1>13, <1>14, <1>15, <1>16, <1>17, <1>18,
     <1>19, <1>20, <1>21, <1>22, <1>23, <1>24, <1>25, <1>26
     DEF Next, ProcessStep, DrainStep, DrainFault, CallerStep, Finished

(* No step drops, miscounts or fails to sync a byte without a flag.        *)
LEMMA FailInvStep ==
    ASSUME TypeOK, DrainInv, FailInv, [Next]_vars PROVE FailInv'
<1> USE CapturePositive, ProcessesDistinct
    DEF env, files, drain, shared, caller, Streams, TypeOK,
        FailInv, DrainInv, FailureKeys
<1>1. ASSUME NEW q \in Procs, NEW p \in Procs, Fork(q, p) PROVE FailInv'
  BY <1>1 DEF Fork
<1>2. ASSUME NEW p \in Procs, NEW s \in Streams, Write(p, s) PROVE FailInv'
  BY <1>2 DEF Write
<1>3. ASSUME NEW p \in Procs, NEW s \in Streams, Redirect(p, s) PROVE FailInv'
  BY <1>3 DEF Redirect
<1>4. ASSUME NEW p \in Procs, Die(p) PROVE FailInv'
  BY <1>4 DEF Die
<1>5. ASSUME NEW s \in Streams, ReadData(s) PROVE FailInv'
  BY <1>5 DEF ReadData, Readable, Least
<1>6. ASSUME NEW s \in Streams, ReadEnd(s) PROVE FailInv'
  BY <1>6 DEF ReadEnd, LeaveLoop
<1>7. ASSUME NEW s \in Streams, ReadBlocked(s) PROVE FailInv'
  BY <1>7 DEF ReadBlocked
<1>8. ASSUME NEW s \in Streams, Blocked(s) PROVE FailInv'
  BY <1>8 DEF Blocked, LeaveLoop
<1>9. ASSUME NEW s \in Streams, StoreNothing(s) PROVE FailInv'
  BY <1>9 DEF StoreNothing, Allowance, Least
<1>10. ASSUME NEW s \in Streams, StoreChunk(s) PROVE FailInv'
  BY <1>10 DEF StoreChunk, Allowance, Least, kill_if_required,
      kill_process_group
<1>11. ASSUME NEW s \in Streams, Sync(s) PROVE FailInv'
  BY <1>11 DEF Sync
<1>12. ASSUME NEW s \in Streams, ReadError(s) PROVE FailInv'
  BY <1>12
   DEF ReadError, LeaveLoop, mark_capture_failed, kill_if_required,
      kill_process_group
<1>13. ASSUME NEW s \in Streams, StoreError(s) PROVE FailInv'
  BY <1>13 DEF StoreError, Allowance, Least, kill_if_required,
      kill_process_group
<1>14. ASSUME NEW s \in Streams, SyncError(s) PROVE FailInv'
  BY <1>14 DEF SyncError, mark_capture_failed, kill_if_required,
      kill_process_group
<1>15. CASE StdinEnd
  BY <1>15 DEF StdinEnd
<1>16. CASE StdinError
  BY <1>16 DEF StdinError
<1>17. CASE CancelObserved
  BY <1>17 DEF CancelObserved, kill_process_group
<1>18. CASE Timeout
  BY <1>18 DEF Timeout, kill_process_group
<1>19. CASE Reap
  BY <1>19 DEF Reap
<1>20. CASE WaitError
  BY <1>20 DEF WaitError, kill_process_group
<1>21. CASE Abort
  BY <1>21 DEF Abort, Joined
<1>22. CASE JoinStdin
  BY <1>22 DEF JoinStdin
<1>23. CASE GraceDrained
  BY <1>23 DEF GraceDrained
<1>24. CASE GraceExpired
  BY <1>24 DEF GraceExpired, kill_process_group
<1>25. CASE Join
  BY <1>25 DEF Join, Joined, CaptureStatus
<1>26. CASE UNCHANGED vars
  BY <1>26 DEF vars
<1> HIDE
    DEF env, files, drain, shared, caller, Streams, TypeOK,
        FailInv, DrainInv, FailureKeys
<1>27. QED
  BY <1>1, <1>2, <1>3, <1>4, <1>5, <1>6, <1>7, <1>8, <1>9,
     <1>10, <1>11, <1>12, <1>13, <1>14, <1>15, <1>16, <1>17, <1>18,
     <1>19, <1>20, <1>21, <1>22, <1>23, <1>24, <1>25, <1>26
     DEF Next, ProcessStep, DrainStep, DrainFault, CallerStep, Finished

(* The status stays what the flags say it is.                             *)
LEMMA CallerInvStep ==
    ASSUME TypeOK, FailInv, CallerInv, [Next]_vars PROVE CallerInv'
<1> USE CapturePositive, ProcessesDistinct
    DEF env, files, drain, shared, caller, Streams, TypeOK, FailInv, CallerInv
<1>1. ASSUME NEW q \in Procs, NEW p \in Procs, Fork(q, p) PROVE CallerInv'
  BY <1>1 DEF Fork
<1>2. ASSUME NEW p \in Procs, NEW s \in Streams, Write(p, s) PROVE CallerInv'
  BY <1>2 DEF Write
<1>3. ASSUME NEW p \in Procs, NEW s \in Streams, Redirect(p, s)
      PROVE CallerInv'
  BY <1>3 DEF Redirect
<1>4. ASSUME NEW p \in Procs, Die(p) PROVE CallerInv'
  BY <1>4 DEF Die
<1>5. ASSUME NEW s \in Streams, ReadData(s) PROVE CallerInv'
  BY <1>5 DEF ReadData, Readable, Least
<1>6. ASSUME NEW s \in Streams, ReadEnd(s) PROVE CallerInv'
  BY <1>6 DEF ReadEnd, LeaveLoop
<1>7. ASSUME NEW s \in Streams, ReadBlocked(s) PROVE CallerInv'
  BY <1>7 DEF ReadBlocked
<1>8. ASSUME NEW s \in Streams, Blocked(s) PROVE CallerInv'
  BY <1>8 DEF Blocked, LeaveLoop
<1>9. ASSUME NEW s \in Streams, StoreNothing(s) PROVE CallerInv'
  BY <1>9 DEF StoreNothing, Allowance, Least
<1>10. ASSUME NEW s \in Streams, StoreChunk(s) PROVE CallerInv'
  BY <1>10 DEF StoreChunk, Allowance, Least, kill_if_required,
      kill_process_group
<1>11. ASSUME NEW s \in Streams, Sync(s) PROVE CallerInv'
  BY <1>11 DEF Sync
<1>12. ASSUME NEW s \in Streams, ReadError(s) PROVE CallerInv'
  BY <1>12
   DEF ReadError, LeaveLoop, mark_capture_failed, kill_if_required,
      kill_process_group
<1>13. ASSUME NEW s \in Streams, StoreError(s) PROVE CallerInv'
  BY <1>13 DEF StoreError, Allowance, Least, kill_if_required,
      kill_process_group
<1>14. ASSUME NEW s \in Streams, SyncError(s) PROVE CallerInv'
  BY <1>14 DEF SyncError, mark_capture_failed, kill_if_required,
      kill_process_group
<1>15. CASE StdinEnd
  BY <1>15 DEF StdinEnd
<1>16. CASE StdinError
  BY <1>16 DEF StdinError
<1>17. CASE CancelObserved
  BY <1>17 DEF CancelObserved, kill_process_group
<1>18. CASE Timeout
  BY <1>18 DEF Timeout, kill_process_group
<1>19. CASE Reap
  BY <1>19 DEF Reap
<1>20. CASE WaitError
  BY <1>20 DEF WaitError, kill_process_group
<1>21. CASE Abort
  BY <1>21 DEF Abort, Joined
<1>22. CASE JoinStdin
  BY <1>22 DEF JoinStdin
<1>23. CASE GraceDrained
  BY <1>23 DEF GraceDrained
<1>24. CASE GraceExpired
  BY <1>24 DEF GraceExpired, kill_process_group
<1>25. CASE Join
  BY <1>25 DEF Join, Joined, CaptureStatus
<1>26. CASE UNCHANGED vars
  BY <1>26 DEF vars
<1> HIDE
    DEF env, files, drain, shared, caller, Streams, TypeOK, FailInv, CallerInv
<1>27. QED
  BY <1>1, <1>2, <1>3, <1>4, <1>5, <1>6, <1>7, <1>8, <1>9,
     <1>10, <1>11, <1>12, <1>13, <1>14, <1>15, <1>16, <1>17, <1>18,
     <1>19, <1>20, <1>21, <1>22, <1>23, <1>24, <1>25, <1>26
     DEF Next, ProcessStep, DrainStep, DrainFault, CallerStep, Finished

(* The group stays killed once it was: the dead fork nobody, and a process *)
(* outside the group forks none into it.                                   *)
LEMMA ProcInvStep ==
    ASSUME TypeOK, FailInv, CallerInv, ProcInv, [Next]_vars PROVE ProcInv'
<1> USE CapturePositive, ProcessesDistinct
    DEF env, files, drain, shared, caller, Streams, TypeOK,
        FailInv, CallerInv, ProcInv, GroupKilled, Running, Group, Procs
<1>1. ASSUME NEW q \in Procs, NEW p \in Procs, Fork(q, p) PROVE ProcInv'
  BY <1>1 DEF Fork
<1>2. ASSUME NEW p \in Procs, NEW s \in Streams, Write(p, s) PROVE ProcInv'
  BY <1>2 DEF Write
<1>3. ASSUME NEW p \in Procs, NEW s \in Streams, Redirect(p, s) PROVE ProcInv'
  BY <1>3 DEF Redirect
<1>4. ASSUME NEW p \in Procs, Die(p) PROVE ProcInv'
  BY <1>4 DEF Die
<1>5. ASSUME NEW s \in Streams, ReadData(s) PROVE ProcInv'
  BY <1>5 DEF ReadData, Readable, Least
<1>6. ASSUME NEW s \in Streams, ReadEnd(s) PROVE ProcInv'
  BY <1>6 DEF ReadEnd, LeaveLoop
<1>7. ASSUME NEW s \in Streams, ReadBlocked(s) PROVE ProcInv'
  BY <1>7 DEF ReadBlocked
<1>8. ASSUME NEW s \in Streams, Blocked(s) PROVE ProcInv'
  BY <1>8 DEF Blocked, LeaveLoop
<1>9. ASSUME NEW s \in Streams, StoreNothing(s) PROVE ProcInv'
  BY <1>9 DEF StoreNothing, Allowance, Least
<1>10. ASSUME NEW s \in Streams, StoreChunk(s) PROVE ProcInv'
  BY <1>10 DEF StoreChunk, Allowance, Least, kill_if_required,
      kill_process_group
<1>11. ASSUME NEW s \in Streams, Sync(s) PROVE ProcInv'
  BY <1>11 DEF Sync
<1>12. ASSUME NEW s \in Streams, ReadError(s) PROVE ProcInv'
  BY <1>12
   DEF ReadError, LeaveLoop, mark_capture_failed, kill_if_required,
      kill_process_group
<1>13. ASSUME NEW s \in Streams, StoreError(s) PROVE ProcInv'
  BY <1>13 DEF StoreError, Allowance, Least, kill_if_required,
      kill_process_group
<1>14. ASSUME NEW s \in Streams, SyncError(s) PROVE ProcInv'
  BY <1>14 DEF SyncError, mark_capture_failed, kill_if_required,
      kill_process_group
<1>15. CASE StdinEnd
  BY <1>15 DEF StdinEnd
<1>16. CASE StdinError
  BY <1>16 DEF StdinError
<1>17. CASE CancelObserved
  BY <1>17 DEF CancelObserved, kill_process_group
<1>18. CASE Timeout
  BY <1>18 DEF Timeout, kill_process_group
<1>19. CASE Reap
  BY <1>19 DEF Reap
<1>20. CASE WaitError
  BY <1>20 DEF WaitError, kill_process_group
<1>21. CASE Abort
  BY <1>21 DEF Abort, Joined
<1>22. CASE JoinStdin
  BY <1>22 DEF JoinStdin
<1>23. CASE GraceDrained
  BY <1>23 DEF GraceDrained
<1>24. CASE GraceExpired
  BY <1>24 DEF GraceExpired, kill_process_group
<1>25. CASE Join
  BY <1>25 DEF Join, Joined, CaptureStatus
<1>26. CASE UNCHANGED vars
  BY <1>26 DEF vars
<1> HIDE
    DEF env, files, drain, shared, caller, Streams, TypeOK,
        FailInv, CallerInv, ProcInv, GroupKilled, Running, Group, Procs
<1>27. QED
  BY <1>1, <1>2, <1>3, <1>4, <1>5, <1>6, <1>7, <1>8, <1>9,
     <1>10, <1>11, <1>12, <1>13, <1>14, <1>15, <1>16, <1>17, <1>18,
     <1>19, <1>20, <1>21, <1>22, <1>23, <1>24, <1>25, <1>26
     DEF Next, ProcessStep, DrainStep, DrainFault, CallerStep, Finished

(* The initial states: the child has just been spawned.                    *)
LEMMA InitInv == Init => IInv
<1> SUFFICES ASSUME Init PROVE IInv
  OBVIOUS
<1> USE CapturePositive, ProcessesDistinct DEF Init, Streams
<1>1. TypeOK
  <2>1. /\ proc \in [Procs -> {"unborn", "alive", "doomed", "dead"}]
        /\ holders \in [Streams -> SUBSET Procs]
    BY DEF Procs, Group
  <2>2. sink \in [retained_total : Nat, sequence : Nat,
                 failed : BOOLEAN, key : FailureKeys]
    BY DEF FailureKeys
  <2>3. verdict \in [cancelled : BOOLEAN, grace_exhausted : BOOLEAN,
                    result : {"none", "ok", "cancelled", "finalize_error"}]
    OBVIOUS
  <2>4. /\ pipe \in [Streams -> 0..PipeCap] /\ buf \in [Streams -> 0..ChunkBytes]
        /\ retained \in [Streams -> Nat] /\ writable \in [Streams -> BOOLEAN]
        /\ dpc \in [Streams -> {"read", "blocked", "store", "sync", "done"}]
    OBVIOUS
  <2>5. /\ required \in BOOLEAN /\ excess \in BOOLEAN /\ lost \in BOOLEAN
        /\ sync_failed \in BOOLEAN /\ truncated \in BOOLEAN
        /\ stop_draining \in BOOLEAN /\ stop_writing \in BOOLEAN
    OBVIOUS
  <2>6. /\ drained \in 0..2 /\ faults \in 0..MaxFaults
        /\ stdin \in {"writing", "ended", "failed"}
        /\ mpc \in {"wait", "reap", "stdin", "grace", "join", "abort", "returned"}
        /\ status \in {"none", "COMPLETE", "TRUNCATED", "CAPTURE_FAILED"}
    OBVIOUS
  <2> HIDE DEF Init, Streams
  <2>7. QED
    BY <2>1, <2>2, <2>3, <2>4, <2>5, <2>6 DEF TypeOK
<1>2. Counted /\ SharedBudget
  BY DEF Counted, Left, SharedBudget
<1>3. DrainInv /\ FailInv /\ CallerInv /\ QuotaInv
  BY DEF DrainInv, FailInv, CallerInv, QuotaInv
<1>4. ProcInv
  BY DEF ProcInv, GroupKilled, Running, Procs, Group
<1>5. QED
  BY <1>1, <1>2, <1>3, <1>4 DEF IInv

(* The conjuncts are inductive together.                                   *)
LEMMA StepInv == IInv /\ [Next]_vars => IInv'
  BY TypeStep, BudgetStep, DrainInvStep, FailInvStep, CallerInvStep,
     QuotaStep, ProcInvStep DEF IInv

(* The inductive invariant holds of every behaviour of the capture.        *)
THEOREM Invariance == Spec => []IInv
  BY InitInv, StepInv, PTL DEF Spec

(* Every variable keeps its type; above all the drained messages, which    *)
(* wait_for_drainers counts, never exceed the two threads.                 *)
THEOREM TypeCorrect == Spec => []TypeOK
<1>1. IInv => TypeOK
  BY DEF IInv
<1>2. QED
  BY <1>1, Invariance, PTL

(* spawn_drain: the two streams share one budget, whatever max_bytes is.   *)
THEOREM BudgetIsShared == Spec => []SharedBudget
<1>1. IInv => SharedBudget
  BY DEF IInv
<1>2. QED
  BY <1>1, Invariance, PTL

(* A COMPLETE capture dropped no byte and, unless the drain grace ran out, *)
(* left none unread; a TRUNCATED one retained max_bytes and lost the rest. *)
THEOREM StatusHolds == Spec => []StatusIsHonest
<1>1. ASSUME IInv, status = "COMPLETE"
      PROVE  /\ ~lost /\ \A s \in Streams : buf[s] = 0
             /\ verdict.grace_exhausted
                   \/ \A s \in Streams : pipe[s] = 0 /\ holders[s] = {}
  <2>1. /\ ~sink.failed /\ ~truncated /\ mpc = "returned"
        /\ \A s \in Streams : dpc[s] = "done"
        /\ stop_draining => verdict.grace_exhausted
    BY <1>1 DEF IInv, CallerInv
  <2>2. QED
    BY <1>1, <2>1 DEF IInv, DrainInv, FailInv
<1>2. ASSUME IInv, status = "TRUNCATED"
      PROVE  lost /\ sink.retained_total = MaxBytes
  BY <1>2 DEF IInv, CallerInv, QuotaInv
<1>3. IInv => StatusIsHonest
  BY <1>1, <1>2 DEF StatusIsHonest
<1>4. QED
  BY <1>3, Invariance, PTL

(* A usable status never covers a file that was miscounted or unsynced.    *)
THEOREM UsableVerifies == Spec => []UsableEvidenceVerifies
<1>1. IInv => UsableEvidenceVerifies
  BY DEF IInv, CallerInv, FailInv, UsableEvidenceVerifies
<1>2. QED
  BY <1>1, Invariance, PTL

(* The drain grace's cleanup reaches every process of the group that       *)
(* inherited a pipe, however large the process tree.                       *)
THEOREM PipesAreCleanedUp == Spec => []InheritedPipesCleanedUp
<1>1. IInv => InheritedPipesCleanedUp
  <2> SUFFICES ASSUME IInv, status \in {"COMPLETE", "TRUNCATED"},
                      NEW s \in Streams, NEW p \in Group \cap holders[s]
               PROVE  proc[p] = "doomed"
    BY DEF InheritedPipesCleanedUp
  <2>1. ~sink.failed /\ dpc[s] = "done"
    BY DEF IInv, CallerInv
  <2>2. stop_draining
    BY <2>1 DEF IInv, DrainInv
  <2>3. proc[p] # "alive"
    BY <2>2 DEF IInv, ProcInv, GroupKilled
  <2>4. QED
    BY <2>3 DEF IInv, ProcInv, Running
<1>2. QED
  BY <1>1, Invariance, PTL

(* A storage failure of a required capture leaves no live child, and none  *)
(* of its group when a drain thread met the failure.                       *)
THEOREM RequiredFailuresCancel == Spec => []RequiredFailureCancels
<1>1. IInv => RequiredFailureCancels
  BY DEF IInv, CallerInv, ProcInv, GroupKilled, Group, RequiredFailureCancels
<1>2. QED
  BY <1>1, Invariance, PTL

-----------------------------------------------------------------------------
(* A status is decided once, and nothing it was drawn from changes after   *)
(* it: both drain threads have been joined.                                *)
LEMMA FrozenStep ==
    ASSUME IInv, [Next]_vars, status # "none"
    PROVE  UNCHANGED <<retained, excess, lost, sync_failed, sink, truncated, status>>
<1>1. mpc = "returned" /\ \A s \in Streams : dpc[s] = "done"
  BY DEF IInv, CallerInv
<1>2. QED
  BY <1>1 DEF Next, ProcessStep, Fork, Write, Redirect, Die, DrainStep,
     ReadData, ReadEnd, ReadBlocked, Blocked, StoreNothing, StoreChunk, Sync,
     DrainFault, ReadError, StoreError, SyncError, StdinEnd, StdinError,
     CancelObserved, Timeout, CallerStep, Reap, Abort, JoinStdin,
     GraceDrained, GraceExpired, Join, WaitError, Finished,
     vars, env, files, drain, shared, caller

(* No drain thread outlives the decision on the status.                    *)
THEOREM DecidedStaysFrozen == Spec => DecidedIsFrozen
<1>1. IInv /\ [Next]_vars =>
        [status # "none" =>
            UNCHANGED <<retained, excess, lost, sync_failed, sink, truncated>>]_vars
  BY FrozenStep
<1>2. QED
  BY <1>1, Invariance, PTL DEF Spec, DecidedIsFrozen

(* Bytes are only added to the budget, and neither a loss nor a failure is *)
(* ever forgotten, whichever thread takes the step.                        *)
LEMMA NothingForgotten ==
    ASSUME IInv, [Next]_vars
    PROVE  /\ sink'.retained_total >= sink.retained_total
           /\ lost => lost'
           /\ sink.failed => sink'.failed
<1>1. sink \in [retained_total : Nat, sequence : Nat, failed : BOOLEAN,
                key : FailureKeys]
  BY DEF IInv, TypeOK
<1>2. CASE \E s \in Streams : StoreChunk(s)
  <2> PICK s \in Streams : StoreChunk(s)
    BY <1>2
  <2>1. Allowance(s) > 0 /\ (lost => lost')
        /\ sink' = [sink EXCEPT !.retained_total = @ + Allowance(s),
                                !.sequence = @ + 1]
    BY DEF StoreChunk
  <2>2. Allowance(s) \in Nat
    BY <1>1, CapturePositive DEF IInv, TypeOK, SharedBudget, Allowance, Least
  <2>3. QED
    BY <1>1, <2>1, <2>2
<1>3. CASE \E s \in Streams : ReadError(s) \/ StoreError(s) \/ SyncError(s)
  <2>1. lost => lost'
    BY <1>3 DEF ReadError, StoreError, SyncError, files
  <2>2. \E k : sink' = [sink EXCEPT !.failed = TRUE, !.key = k]
    BY <1>1, <1>3 DEF ReadError, StoreError, SyncError, mark_capture_failed
  <2>3. QED
    BY <1>1, <2>1, <2>2
<1>4. CASE Join
  BY <1>1, <1>4 DEF Join, drain, files
<1>5. CASE UNCHANGED sink /\ (lost => lost')
  BY <1>1, <1>5
<1>6. \/ UNCHANGED sink /\ (lost => lost')
      \/ Join
      \/ \E s \in Streams : StoreChunk(s) \/ ReadError(s) \/ StoreError(s) \/ SyncError(s)
  BY DEF Next, ProcessStep, Fork, Write, Redirect, Die, DrainStep,
     ReadData, ReadEnd, ReadBlocked, Blocked, StoreNothing, Sync,
     DrainFault, StdinEnd, StdinError,
     CancelObserved, Timeout, CallerStep, Reap, Abort, JoinStdin,
     GraceDrained, GraceExpired, WaitError, Finished,
     vars, env, files, drain, shared, caller
<1>7. QED
  BY <1>2, <1>3, <1>4, <1>5, <1>6

(* What the joins find is what the threads left behind: without a failure  *)
(* the truncated flag is up exactly when a byte was dropped, and then the  *)
(* budget is spent.                                                        *)
Traced ==
    ~sink.failed => /\ lost <=> truncated
                    /\ lost => sink.retained_total = MaxBytes

LEMMA LossIsTraced == IInv => Traced
  BY DEF IInv, TypeOK, FailInv, QuotaInv, Traced

(* The threads and the caller implement a collector that does everything   *)
(* by itself: the abstract total is the counter in the shared sink, a loss *)
(* and a failure are the ghost flag and the sink's, and the verdict is the *)
(* capture status.                                                         *)
THEOREM DrainImplementsCollection == Spec => ImplementsCollection
<1>1. Init => Contract!Init
  BY DEF Init, Contract!Init
<1>2. ASSUME IInv, Traced', SharedBudget', TypeOK', [Next]_vars
      PROVE  [Contract!Next]_Contract!vars
  <2>1. CASE status # "none"
    BY <1>2, <2>1, FrozenStep DEF Contract!vars
  <2>2. CASE status = "none"
    <3>1. sink'.retained_total \in sink.retained_total..MaxBytes
      <4>1. /\ sink.retained_total \in Nat /\ sink'.retained_total \in Nat
            /\ sink'.retained_total <= MaxBytes /\ MaxBytes \in Nat
        BY <1>2, CapturePositive DEF IInv, TypeOK, SharedBudget
      <4>2. QED
        BY <1>2, <4>1, NothingForgotten
    <3>2. Contract!Collect
      BY <1>2, <2>2, <3>1, NothingForgotten DEF Contract!Collect, Traced
    <3>3. status' \in {"none", Contract!Verdict(sink'.failed, lost')}
      <4>1. CASE Join
        <5>1. status' \in {"none", CaptureStatus(sink'.failed)} /\ truncated' = truncated
          BY <1>2, <2>2, <4>1 DEF Join, IInv, TypeOK
        <5>2. QED
          BY <1>2, <5>1 DEF CaptureStatus, Contract!Verdict, Traced, TypeOK
      <4>2. CASE ~Join
        BY <1>2, <2>2, <4>2 DEF Next, ProcessStep, Fork, Write, Redirect, Die, DrainStep,
           ReadData, ReadEnd, ReadBlocked, Blocked, StoreNothing, StoreChunk, Sync,
           DrainFault, ReadError, StoreError, SyncError, StdinEnd, StdinError,
           CancelObserved, Timeout, CallerStep, Reap, Abort, JoinStdin,
           GraceDrained, GraceExpired, WaitError, Finished, vars, caller
      <4>3. QED
        BY <4>1, <4>2
    <3>4. QED
      BY <3>2, <3>3 DEF Contract!Next
  <2>3. QED
    BY <2>1, <2>2
<1>3. IInv => SharedBudget /\ TypeOK
  BY DEF IInv
<1>4. QED
  BY <1>1, <1>2, <1>3, LossIsTraced, Invariance, PTL
  DEF Spec, ImplementsCollection, Contract!Spec

=============================================================================
