-------------------------- MODULE ReferenceCapture --------------------------
(***************************************************************************)
(* capture_command of the Python reference engine                          *)
(* (src/outctl/capture/runner.py): one coroutine waits for the child, two  *)
(* tasks drain its pipes, and the event loop runs one of them at a time    *)
(* between two awaits.  The child may leave members in its process group   *)
(* and descendants that left the group; all of them hold both pipes.       *)
(* Bytes are counted, not spelled.                                         *)
(***************************************************************************)
EXTENDS Naturals, FiniteSets

CONSTANTS
    RcMaxBytes,    \* max_bytes, the retention quota of both streams
    RcChunk,       \* _CHUNK_SIZE
    RcPipe,        \* capacity of a pipe
    RcMade,        \* bound on the bytes written to one stream
    RcMaxFaults,   \* bound on storage failures
    RcMaxCancels   \* bound on cancellations by the caller

ASSUME RcConstants ==
    {RcMaxBytes, RcChunk, RcPipe, RcMade, RcMaxFaults, RcMaxCancels} \subseteq Nat

RcStreams == {"stdout", "stderr"}
RcGroup == {"child", "member"}

VARIABLES
    rcCall,    \* [required, timed]: required_capture, timeout is not None
    rcPc,      \* where capture_command is
    rcAlive,   \* processes that hold the pipes open
    rcPipe,    \* [RcStreams -> bytes in the pipe]
    rcMade,    \* [RcStreams -> bytes written to the pipe so far]
    rcKept,    \* [RcStreams -> retained_bytes, the bytes hashed]
    rcIndexed, \* [RcStreams -> bytes the event index covers]
    rcTorn,    \* streams whose file may hold bytes that were not hashed
    rcCount,   \* captured, the bytes charged to the quota
    rcDrain,   \* [RcStreams -> reading, failed (not writable), eof, cancelled]
    rcFlags,   \* subset of truncated, capture_failed, timed_out, cancelled, raising
    rcFaults, rcCancels

rcVars == <<rcCall, rcPc, rcAlive, rcPipe, rcMade, rcKept, rcIndexed, rcTorn,
            rcCount, rcDrain, rcFlags, rcFaults, rcCancels>>
rcBytes == <<rcPipe, rcMade, rcKept, rcIndexed, rcTorn, rcCount, rcDrain>>

RcZero == [s \in RcStreams |-> 0]
RcSum(f) == f["stdout"] + f["stderr"]
RcFinal == {"COMPLETE", "TRUNCATED", "CAPTURE_FAILED"}
RcDone == {"INCOMPLETE", "raised"} \cup RcFinal

RcTypeOK ==
    /\ rcCall \in [required : BOOLEAN, timed : BOOLEAN]
    /\ rcPc \in {"called", "wait", "reap", "gather", "close"} \cup RcDone
    /\ rcAlive \subseteq RcGroup \cup {"detached"}
    /\ rcPipe \in [RcStreams -> 0..RcPipe]
    /\ \A f \in {rcMade, rcKept, rcIndexed} : f \in [RcStreams -> 0..RcMade]
    /\ rcTorn \subseteq RcStreams
    /\ rcCount \in 0..RcMaxBytes
    /\ rcDrain \in [RcStreams -> {"reading", "failed", "eof", "cancelled"}]
    /\ rcFlags \subseteq
           {"truncated", "capture_failed", "timed_out", "cancelled", "raising"}
    /\ rcFaults \in 0..RcMaxFaults /\ rcCancels \in 0..RcMaxCancels

RcInit ==
    /\ rcCall = [required |-> FALSE, timed |-> FALSE]
    /\ rcPc = "called" /\ rcAlive = {}
    /\ rcPipe = RcZero /\ rcMade = RcZero
    /\ rcKept = RcZero /\ rcIndexed = RcZero /\ rcTorn = {} /\ rcCount = 0
    /\ rcDrain = [s \in RcStreams |-> "reading"]
    /\ rcFlags = {} /\ rcFaults = 0 /\ rcCancels = 0

\* The spool is created and the child started, or create_subprocess_exec raises.
RcStart ==
    /\ rcPc = "called"
    /\ \/ /\ rcCall' \in [required : BOOLEAN, timed : BOOLEAN]
          /\ rcAlive' \in {{"child"} \cup d : d \in SUBSET {"member", "detached"}}
          /\ rcPc' = "wait"
       \/ /\ rcPc' = "raised"
          /\ UNCHANGED <<rcCall, rcAlive>>
    /\ UNCHANGED <<rcBytes, rcFlags, rcFaults, rcCancels>>

\* A process writes a byte; a full pipe blocks it.
RcWrite(s) ==
    /\ rcAlive # {} /\ rcPipe[s] < RcPipe /\ rcMade[s] < RcMade
    /\ rcPipe' = [rcPipe EXCEPT ![s] = @ + 1]
    /\ rcMade' = [rcMade EXCEPT ![s] = @ + 1]
    /\ UNCHANGED <<rcCall, rcPc, rcAlive, rcKept, rcIndexed, rcTorn, rcCount,
                   rcDrain, rcFlags, rcFaults, rcCancels>>

RcExit(p) ==
    /\ p \in rcAlive
    /\ rcAlive' = rcAlive \ {p}
    /\ UNCHANGED <<rcCall, rcPc, rcBytes, rcFlags, rcFaults, rcCancels>>

\* A slip: SIGTERM, which the command may ignore.
RcTerminateGroup == rcAlive' \in {rcAlive, rcAlive \ RcGroup}

\* _kill_group: SIGKILL reaches the group, not who left it.
RcKillGroup == rcAlive' = rcAlive \ RcGroup

-----------------------------------------------------------------------------
(* drain and retain.                                                       *)

\* A slip: a chunk is written whole as long as any quota is left.
RcRetainWhole(s, n) ==
    LET kept == IF rcCount < RcMaxBytes THEN n ELSE 0
    IN  /\ rcKept' = [rcKept EXCEPT ![s] = @ + kept]
        /\ rcIndexed' = [rcIndexed EXCEPT ![s] = @ + kept]
        /\ rcCount' = rcCount + kept
        /\ rcFlags' = rcFlags \cup (IF kept < n THEN {"truncated"} ELSE {})
        /\ UNCHANGED rcTorn

\* A slip: a chunk cut by the quota is not reported.
RcRetainSilently(s, n) ==
    LET kept == IF n < RcMaxBytes - rcCount THEN n ELSE RcMaxBytes - rcCount
    IN  /\ rcKept' = [rcKept EXCEPT ![s] = @ + kept]
        /\ rcIndexed' = [rcIndexed EXCEPT ![s] = @ + kept]
        /\ rcCount' = rcCount + kept
        /\ UNCHANGED <<rcTorn, rcFlags>>

\* retain: what fits the quota is written, hashed and indexed.
RcRetain(s, n) ==
    LET remaining == RcMaxBytes - rcCount
        kept == IF n < remaining THEN n ELSE remaining
    IN  /\ rcKept' = [rcKept EXCEPT ![s] = @ + kept]
        /\ rcIndexed' = [rcIndexed EXCEPT ![s] = @ + kept]
        /\ rcCount' = rcCount + kept
        /\ rcFlags' = rcFlags \cup (IF kept < n THEN {"truncated"} ELSE {})
        /\ UNCHANGED rcTorn

\* retain raises OSError: from StreamWriter.write, with some of the chunk in
\* the file and none of it hashed, or from record, with the chunk written,
\* hashed, and charged to nobody.
RcRetainFails(s, n) ==
    LET remaining == RcMaxBytes - rcCount
        kept == IF n < remaining THEN n ELSE remaining
    IN  /\ remaining > 0
        /\ \/ rcTorn' = rcTorn \cup {s} /\ UNCHANGED rcKept
           \/ rcKept' = [rcKept EXCEPT ![s] = @ + kept] /\ UNCHANGED rcTorn
        /\ rcFlags' = rcFlags \cup {"capture_failed"}
        /\ UNCHANGED <<rcIndexed, rcCount>>

\* The while loop of drain goes on after a storage failure.
RcReading(s) == rcDrain[s] \in {"reading", "failed"}

\* One round of drain: reader.read returns some of what the pipe holds.
RcDrainChunk(s) ==
    /\ rcPc \in {"wait", "reap", "gather"} /\ RcReading(s)
    /\ \E n \in 1..RcChunk :
        /\ n <= rcPipe[s]
        /\ rcPipe' = [rcPipe EXCEPT ![s] = @ - n]
        /\ \/ /\ rcDrain[s] = "failed"
              /\ UNCHANGED <<rcAlive, rcKept, rcIndexed, rcTorn, rcCount,
                             rcDrain, rcFlags, rcFaults>>
           \/ /\ rcDrain[s] = "reading" /\ RcRetain(s, n)
              /\ UNCHANGED <<rcAlive, rcDrain, rcFaults>>
           \/ /\ rcDrain[s] = "reading" /\ rcFaults < RcMaxFaults
              /\ RcRetainFails(s, n)
              /\ rcFaults' = rcFaults + 1
              /\ rcDrain' = [rcDrain EXCEPT ![s] = "failed"]
              /\ IF rcCall.required THEN RcKillGroup ELSE UNCHANGED rcAlive
    /\ UNCHANGED <<rcCall, rcPc, rcMade, rcCancels>>

\* read returns b"": the pipe is empty and nobody holds its other end.
RcDrainEof(s) ==
    /\ rcPc \in {"wait", "reap", "gather"} /\ RcReading(s)
    /\ rcPipe[s] = 0 /\ rcAlive = {}
    /\ rcDrain' = [rcDrain EXCEPT ![s] = "eof"]
    /\ UNCHANGED <<rcCall, rcPc, rcAlive, rcPipe, rcMade, rcKept, rcIndexed,
                   rcTorn, rcCount, rcFlags, rcFaults, rcCancels>>

-----------------------------------------------------------------------------
(* The coroutine itself.                                                   *)

\* wait_for(process.wait()) returns, or the wait after the kill does.
RcWaited ==
    /\ rcPc \in {"wait", "reap"} /\ "child" \notin rcAlive
    /\ rcPc' = "gather"
    /\ UNCHANGED <<rcCall, rcAlive, rcBytes, rcFlags, rcFaults, rcCancels>>

\* The timer of wait_for; the child may have died unnoticed.
RcTimeout ==
    /\ rcPc = "wait" /\ rcCall.timed
    /\ rcFlags' = rcFlags \cup {"timed_out"}
    /\ RcKillGroup
    /\ rcPc' = "reap"
    /\ UNCHANGED <<rcCall, rcBytes, rcFaults, rcCancels>>

\* The caller cancels.  In the try this is handled; in a handler it is on
\* its way out through finally; in gather it also cancels both drainers and
\* skips the rest of finally.
RcCancel ==
    /\ rcCancels < RcMaxCancels
    /\ rcCancels' = rcCancels + 1
    /\ \/ /\ rcPc = "wait" /\ rcPc' = "reap"
          /\ rcFlags' = rcFlags \cup {"cancelled"}
          /\ RcKillGroup /\ UNCHANGED rcDrain
       \/ /\ rcPc = "reap" /\ rcPc' = "gather"
          /\ rcFlags' = rcFlags \cup {"raising"}
          /\ UNCHANGED <<rcAlive, rcDrain>>
       \/ /\ rcPc = "gather" /\ rcPc' = "raised"
          /\ rcDrain' = [s \in RcStreams |->
                 IF RcReading(s) THEN "cancelled" ELSE rcDrain[s]]
          /\ UNCHANGED <<rcAlive, rcFlags>>
    /\ UNCHANGED <<rcCall, rcPipe, rcMade, rcKept, rcIndexed, rcTorn, rcCount,
                   rcFaults>>

\* gather(*drainers) has no timeout of its own.
RcGathered ==
    /\ rcPc = "gather" /\ \A s \in RcStreams : rcDrain[s] = "eof"
    /\ rcPc' = "close"
    /\ UNCHANGED <<rcCall, rcAlive, rcBytes, rcFlags, rcFaults, rcCancels>>

RcStatus ==
    IF "capture_failed" \in rcFlags THEN "CAPTURE_FAILED"
    ELSE IF "truncated" \in rcFlags THEN "TRUNCATED" ELSE "COMPLETE"

\* The files are flushed, synced and closed, and the outcome is decided; what
\* becomes of the directory is the matter of ReferenceSpool.
RcClose ==
    /\ rcPc = "close"
    /\ \/ /\ rcPc' = IF "raising" \in rcFlags THEN "raised"
                     ELSE IF "cancelled" \in rcFlags THEN "INCOMPLETE"
                     ELSE RcStatus
          /\ UNCHANGED rcFaults
       \/ /\ rcFaults < RcMaxFaults /\ rcFaults' = rcFaults + 1
          /\ rcPc' = "raised"
    /\ UNCHANGED <<rcCall, rcAlive, rcBytes, rcFlags, rcCancels>>

RcReturned == rcPc \in RcDone /\ UNCHANGED rcVars

\* The tasks of the event loop.
RcDrainer(s) == RcDrainChunk(s) \/ RcDrainEof(s)
RcCoroutine == RcStart \/ RcWaited \/ RcGathered \/ RcClose

RcNext ==
    \/ \E s \in RcStreams : RcDrainer(s)
    \/ RcCoroutine \/ RcTimeout
    \/ \E s \in RcStreams : RcWrite(s)
    \/ \E p \in RcGroup \cup {"detached"} : RcExit(p)
    \/ RcCancel
    \/ RcReturned

RcSpec == RcInit /\ [][RcNext]_rcVars

-----------------------------------------------------------------------------
(***************************************************************************)
(* What a finished capture says about its bytes is so: COMPLETE means that *)
(* every byte any process of the command wrote is retained, hashed and     *)
(* indexed; TRUNCATED means that the quota was spent and something was     *)
(* lost; and with no storage failure the two streams together never exceed *)
(* max_bytes, whatever the order their chunks arrive in.                   *)
(***************************************************************************)
ReferenceStatusIsHonest ==
    /\ rcPc = "COMPLETE" =>
           /\ rcAlive = {} /\ rcTorn = {}
           /\ rcKept = rcMade /\ rcIndexed = rcMade
    /\ rcPc = "TRUNCATED" =>
           /\ RcSum(rcKept) = RcMaxBytes /\ RcSum(rcMade) > RcMaxBytes
           /\ rcTorn = {} /\ rcIndexed = rcKept
    /\ "capture_failed" \notin rcFlags => RcSum(rcKept) <= RcMaxBytes

RcContract == INSTANCE Collection WITH
    Limit <- RcMaxBytes, total <- rcCount,
    dropped <- "truncated" \in rcFlags, damaged <- "capture_failed" \in rcFlags,
    recorded <- <<rcKept, rcIndexed, rcTorn>>,
    verdict <- IF rcPc \in RcFinal THEN rcPc ELSE "none"

(***************************************************************************)
(* The coroutine and its two drainers are the collector that the drain     *)
(* threads of the Rust engine are (CaptureDrain): one quota, no loss       *)
(* before it is spent, nothing forgotten, and one status, after which no   *)
(* drainer touches a file.                                                 *)
(***************************************************************************)
ReferenceCollects == RcContract!Spec

(***************************************************************************)
(* With a timeout, capture_command returns when the child is alone.  It    *)
(* need not otherwise: the timeout covers process.wait, not the gather, so *)
(* a process that outlives the child keeps the call waiting for EOF.       *)
(***************************************************************************)
ReferenceReturns ==
    (rcPc # "called" /\ rcCall.timed) ~>
        (rcPc \in RcDone \/ rcAlive \cap {"member", "detached"} # {})

=============================================================================
