----------------------------- MODULE Extension -----------------------------
(***************************************************************************)
(* One call of invoke_extension (src/outctl/extensions/slow_path.py): the  *)
(* parent's select loop against a sandboxed worker (worker.py) that runs   *)
(* plugin code, so that from the moment the plugin runs the worker may do  *)
(* anything with its pipes, or nothing for ever.  Bytes are counted; a     *)
(* result document (protocol.py) is a record of what its checks ask, and   *)
(* what is on standard output is what parse_result would make of it.       *)
(***************************************************************************)
EXTENDS Naturals, FiniteSets

CONSTANTS
    ExBody,    \* length of the request
    ExLimit,   \* max_result_bytes, and MAX_STDERR_BYTES
    ExChunk,   \* _READ_CHUNK
    ExPipe,    \* capacity of a pipe
    ExWritten  \* bound on the bytes the worker writes to one stream

ASSUME ExConstants ==
    /\ ExBody \in Nat /\ ExLimit \in Nat /\ ExChunk \in Nat
    /\ ExPipe \in Nat /\ ExWritten \in Nat

ExOutputs == {"stdout", "stderr"}
ExStreams == {"stdin"} \cup ExOutputs

\* What is checked before anything is spawned: plugin roots, the bubblewrap
\* executable, runtime roots, the Nix loader, and the size of the request.
ExChecks == {"plugin_root", "bwrap", "runtime_root", "nix_runtime", "request"}

-----------------------------------------------------------------------------
(* The protocol.                                                           *)

ExPhases == {"COMMISSIONING", "PROJECTION"}

\* An invocation: the extension of its pin and of its request, what its
\* context is bound to, and its result budget.
ExInvocations ==
    [phase : ExPhases, same : BOOLEAN, bound : {"digest", "snapshot", "triple"},
     budget : {"small", "enough"}]

\* ExtensionContext: a commissioning context has its digest and no policy, a
\* projection context a snapshot, with or without its reference and digest.
ExContextFits(v) == v.phase = "COMMISSIONING" <=> v.bound = "digest"

\* ExtensionInvocation: the pin's extension, the policy triple in a
\* projection, room for a result.
ExInvocation(v) ==
    /\ v.same /\ v.budget = "enough"
    /\ v.phase = "PROJECTION" => v.bound = "triple"

ExStatuses == {"ACCEPTED", "EMPTY", "REJECTED", "TIMED_OUT", "FAILED", "MALFORMED"}
ExKinds == {"none", "facts", "policy-candidate", "projection-candidate", "sanitizer"}
ExPayloads == {"empty", "facts", "projection", "forbidden"}

ExExpectedKind(phase) ==
    IF phase = "COMMISSIONING" THEN "facts" ELSE "projection-candidate"

\* _validate_w6_payload: the exact keys and bounds of the kind.
ExPayload(kind, payload) ==
    \/ kind = "facts" /\ payload = "facts"
    \/ kind = "projection-candidate" /\ payload = "projection"

\* What the constructor of ExtensionResult takes.
ExResults ==
    {r \in [own : BOOLEAN, status : ExStatuses, kind : ExKinds, payload : ExPayloads] :
        /\ r.payload # "forbidden"
        /\ r.status = "ACCEPTED" <=> r.kind # "none"
        /\ r.status # "ACCEPTED" => r.payload = "empty"}

\* result_document in the worker, and the MALFORMED result that replaces one
\* it refuses.
ExResultDocument(phase, r) ==
    IF /\ r.own
       /\ r.status = "ACCEPTED" => /\ r.kind = ExExpectedKind(phase)
                                   /\ ExPayload(r.kind, r.payload)
    THEN r.status ELSE "MALFORMED"

\* strict_json_document: within the bounds, an object without duplicate keys.
ExDocuments ==
    [object : BOOLEAN, invocation : {"ours", "another"},
     pin : {"ours", "another", "invalid"}, status : ExStatuses, kind : ExKinds,
     payload : ExPayloads]

\* parse_result: the errors of the constructors of ExtensionPin and
\* ExtensionResult are not ExtensionProtocolError.
ExParse(phase, d) ==
    CASE ~d.object \/ d.invocation # "ours" -> "MALFORMED"
      [] d.object /\ d.invocation = "ours" /\ d.pin = "invalid" -> "raised"
      [] d.object /\ d.invocation = "ours" /\ d.pin = "another" -> "MALFORMED"
      [] OTHER ->
            IF d.status = "ACCEPTED"
            THEN IF d.kind = ExExpectedKind(phase) /\ ExPayload(d.kind, d.payload)
                 THEN "ACCEPTED" ELSE "MALFORMED"
            ELSE IF d.kind = "none" /\ d.payload = "empty" THEN d.status ELSE "raised"

\* What may come of a document plugin code made up, and of the worker's own:
\* the plugin's result, or FAILED when it raised or returned something else.
ExForged == [phase \in ExPhases |-> {ExParse(phase, d) : d \in ExDocuments}]
ExAnswered == [phase \in ExPhases |->
                  {"FAILED"} \cup {ExResultDocument(phase, r) : r \in ExResults}]

-----------------------------------------------------------------------------
(* The installed distributions.                                            *)

ExDistributions == [id : {"pinned", "other"}, intact : BOOLEAN, files : BOOLEAN]

\* _distribution_fingerprint: a bounded manifest of regular files within the
\* distribution's root.
ExFingerprinted(d) == d.files

\* discover_extensions: every one has a fingerprint, and ids are unique.
ExDiscovers(installed) ==
    /\ \A d \in installed : ExFingerprinted(d)
    /\ \A d, e \in installed : d.id = e.id => d = e

\* select_extension takes the one installed match of the pin.
ExSelects(installed) == Cardinality({d \in installed : d.id = "pinned" /\ d.intact}) = 1

ExInstallations ==
    {ExDiscovers(installed) /\ ExSelects(installed) : installed \in SUBSET ExDistributions}

-----------------------------------------------------------------------------

VARIABLES
    exPhase,   \* COMMISSIONING or PROJECTION
    exPc,      \* where invoke_extension is
    exOpen,    \* streams registered with the selector
    exSent,    \* offset: bytes of the body written
    exPipe,    \* [ExStreams -> bytes in the pipe]
    exGot,     \* [ExOutputs -> bytes in the parent's buffer]
    exLate,    \* the deadline has passed
    exFlags,   \* timed_out, overflowed
    exWorker,  \* none, read, plugin, write, or exited
    exHeld,    \* ends of the pipes the worker holds
    exMade,    \* [ExOutputs -> bytes the worker wrote]
    exReply,   \* what parse_result would make of stdout as a whole
    exCode,    \* exit status: 0, 70, killed
    exVerdict, \* what invoke_extension returned, or raised
    exRecord   \* status of the contribution record made of it

exVars == <<exPhase, exPc, exOpen, exSent, exPipe, exGot, exLate, exFlags,
            exWorker, exHeld, exMade, exReply, exCode, exVerdict, exRecord>>
exParent == <<exPhase, exPc, exOpen, exSent, exGot, exFlags, exVerdict, exRecord>>
exChild == <<exWorker, exHeld, exMade, exReply, exCode>>

ExZero == [s \in ExOutputs |-> 0]
ExReadings == ExStatuses \cup {"raised"}
ExVerdicts == ExReadings \cup {"UNAVAILABLE"}

ExTypeOK ==
    /\ exPhase \in ExPhases
    /\ exPc \in {"called", "loop", "reap", "conclude", "contribute", "ended"}
    /\ exOpen \subseteq ExStreams /\ exHeld \subseteq ExStreams
    /\ exSent \in 0..ExBody
    /\ exPipe \in [ExStreams -> 0..ExPipe]
    /\ exGot \in [ExOutputs -> 0..(ExLimit + 1)]
    /\ exMade \in [ExOutputs -> 0..ExWritten]
    /\ exLate \in BOOLEAN /\ exFlags \subseteq {"timed_out", "overflowed"}
    /\ exWorker \in {"none", "read", "plugin", "write", "exited"}
    /\ exReply \in {"none"} \cup ExReadings
    /\ exCode \in {"none", "0", "70", "killed"}
    /\ exVerdict \in {"none"} \cup ExVerdicts
    /\ exRecord \in {"none", "ACCEPTED", "other"}

ExInit ==
    /\ exPhase = "PROJECTION" /\ exPc = "called"
    /\ exOpen = {} /\ exSent = 0 /\ exPipe = [s \in ExStreams |-> 0]
    /\ exGot = ExZero /\ exLate = FALSE /\ exFlags = {}
    /\ exWorker = "none" /\ exHeld = {} /\ exMade = ExZero
    /\ exReply = "none" /\ exCode = "none"
    /\ exVerdict = "none" /\ exRecord = "none"

\* _sandbox_command and Popen: with the checks passed, the worker gets the
\* runtime and plugin roots read-only, its own namespaces and nothing else.
ExSpawns(bad) == bad = {}

\* A failure raises, and nothing ever runs in process.
ExPrepare ==
    /\ exPc = "called"
    /\ \E v \in ExInvocations :
           ExContextFits(v) /\ ExInvocation(v) /\ exPhase' = v.phase
    /\ \E bad \in SUBSET (ExChecks \cup {"popen"}) :
        IF ~ExSpawns(bad)
        THEN /\ exPc' = "ended" /\ exVerdict' = "UNAVAILABLE"
             /\ UNCHANGED <<exOpen, exWorker, exHeld>>
        ELSE /\ exPc' = "loop" /\ exOpen' = ExStreams
             /\ exWorker' = "read" /\ exHeld' = ExStreams
             /\ UNCHANGED exVerdict
    /\ UNCHANGED <<exSent, exPipe, exGot, exLate, exFlags, exMade, exReply,
                   exCode, exRecord>>

-----------------------------------------------------------------------------
(* The worker.                                                             *)

ExExit(code) ==
    /\ exWorker' = "exited" /\ exHeld' = {} /\ exCode' = code

\* main reads its standard input to EOF.
ExWorkerRead ==
    /\ exWorker = "read" /\ exPipe["stdin"] > 0
    /\ exPipe' = [exPipe EXCEPT !["stdin"] = 0]
    /\ UNCHANGED <<exParent, exLate, exChild>>

\* from_bytes: a body cut where the pipe broke is not a document; a whole one
\* rebuilds the invocation, whose digest is the claimed one.
ExFromBytes == exSent = ExBody

\* The request is parsed, the pinned extension selected and the limits and
\* the seccomp filter installed, or main returns 70.
ExWorkerSetup ==
    /\ exWorker = "read" /\ exPipe["stdin"] = 0 /\ "stdin" \notin exOpen
    /\ \E selected \in ExInstallations, confined \in BOOLEAN :
           IF ExFromBytes /\ selected /\ confined
           THEN exWorker' = "plugin" /\ UNCHANGED <<exHeld, exCode>>
           ELSE ExExit("70")
    /\ UNCHANGED <<exParent, exPipe, exLate, exMade, exReply>>

\* Plugin code writes to a pipe of its own accord, closes one, or ends the
\* process; what it prints before the document spoils the document.
ExPlugin ==
    /\ exWorker = "plugin"
    /\ \/ \E s \in ExOutputs :
            /\ s \in exHeld /\ exPipe[s] < ExPipe /\ exMade[s] < ExWritten
            /\ exPipe' = [exPipe EXCEPT ![s] = @ + 1]
            /\ exMade' = [exMade EXCEPT ![s] = @ + 1]
            /\ IF s = "stdout"
               THEN exReply' \in (IF exReply = "none" THEN ExForged[exPhase] ELSE {"MALFORMED"})
               ELSE UNCHANGED exReply
            /\ UNCHANGED <<exWorker, exHeld, exCode>>
       \/ \E s \in exHeld \cap ExOutputs :
            /\ exHeld' = exHeld \ {s}
            /\ UNCHANGED <<exPipe, exMade, exReply, exWorker, exCode>>
       \/ \E code \in {"0", "70"} :
            ExExit(code) /\ UNCHANGED <<exPipe, exMade, exReply>>
       \/ /\ exWorker' = "write"
          /\ UNCHANGED <<exPipe, exHeld, exMade, exReply, exCode>>
    /\ UNCHANGED <<exParent, exLate>>

\* _evaluate returned or raised: the document of this invocation is written by
\* _write_all after whatever the plugin printed, and main returns 0.
ExWorkerWrite ==
    /\ exWorker = "write"
    /\ \/ /\ "stdout" \in exHeld /\ exPipe["stdout"] < ExPipe
          /\ exMade["stdout"] < ExWritten
          /\ exPipe' = [exPipe EXCEPT !["stdout"] = @ + 1]
          /\ exMade' = [exMade EXCEPT !["stdout"] = @ + 1]
          /\ exReply' \in IF exReply = "none" THEN ExAnswered[exPhase] ELSE {"MALFORMED"}
          /\ ExExit("0")
       \/ /\ "stdout" \notin exHeld
          /\ ExExit("70") /\ UNCHANGED <<exPipe, exMade, exReply>>
    /\ UNCHANGED <<exParent, exLate>>

\* time.monotonic() reaches the deadline.
ExDeadline ==
    /\ exPc \in {"loop", "reap"} /\ ~exLate
    /\ exLate' = TRUE
    /\ UNCHANGED <<exParent, exPipe, exChild>>

\* _kill_group; the sandbox's pid namespace dies with the worker.
ExKill ==
    IF exWorker = "exited" THEN UNCHANGED exChild
    ELSE ExExit("killed") /\ UNCHANGED <<exMade, exReply>>

-----------------------------------------------------------------------------
(* _exchange, one ready stream at a time.                                  *)

\* The loop goes on while a stream is registered and time remains.
ExInLoop == exPc = "loop" /\ exOpen # {} /\ ~exLate

ExLoopLate ==
    /\ exPc = "loop" /\ exOpen # {} /\ exLate
    /\ exFlags' = exFlags \cup {"timed_out"}
    /\ ExKill
    /\ exPc' = "reap" /\ exOpen' = {}
    /\ UNCHANGED <<exPhase, exSent, exPipe, exGot, exLate, exVerdict, exRecord>>

\* stdin is writable; a worker that is gone breaks the pipe.
ExSend ==
    /\ ExInLoop /\ "stdin" \in exOpen
    /\ IF "stdin" \in exHeld
       THEN \E n \in 1..ExChunk :
              /\ n <= ExBody - exSent /\ n <= ExPipe - exPipe["stdin"]
              /\ exSent' = exSent + n
              /\ exPipe' = [exPipe EXCEPT !["stdin"] = @ + n]
              /\ exOpen' = IF exSent + n = ExBody THEN exOpen \ {"stdin"} ELSE exOpen
       ELSE exOpen' = exOpen \ {"stdin"} /\ UNCHANGED <<exSent, exPipe>>
    /\ UNCHANGED <<exPhase, exPc, exGot, exLate, exFlags, exChild, exVerdict,
                   exRecord>>

\* len(target) > limit
ExOver(got) == got > ExLimit

\* One byte past the limit is kept, and is an overflow.
ExReceive(s) ==
    /\ ExInLoop /\ s \in exOpen \cap ExOutputs
    /\ \E n \in 1..ExChunk :
        /\ n <= exPipe[s]
        /\ exPipe' = [exPipe EXCEPT ![s] = @ - n]
        /\ LET room == ExLimit + 1 - exGot[s]
               got == exGot[s] + (IF n < room THEN n ELSE room)
           IN  /\ exGot' = [exGot EXCEPT ![s] = got]
               /\ IF ExOver(got)
                  THEN /\ exFlags' = exFlags \cup {"overflowed"}
                       /\ ExKill /\ exPc' = "reap" /\ exOpen' = {}
                  ELSE UNCHANGED <<exFlags, exChild, exPc, exOpen>>
    /\ UNCHANGED <<exPhase, exSent, exLate, exVerdict, exRecord>>

ExEof(s) ==
    /\ ExInLoop /\ s \in exOpen \cap ExOutputs
    /\ exPipe[s] = 0 /\ s \notin exHeld
    /\ exOpen' = exOpen \ {s}
    /\ UNCHANGED <<exPhase, exPc, exSent, exPipe, exGot, exLate, exFlags,
                   exChild, exVerdict, exRecord>>

\* Every stream is closed, or only stdin is left and the worker has exited.
ExLeaveLoop ==
    /\ exPc = "loop"
    /\ exOpen = {} \/ (exOpen = {"stdin"} /\ exWorker = "exited" /\ ~exLate)
    /\ exPc' = "reap" /\ exOpen' = {}
    /\ UNCHANGED <<exPhase, exSent, exPipe, exGot, exLate, exFlags, exChild,
                   exVerdict, exRecord>>

\* A slip: the wait that follows the loop has no timeout.
ExReapUnbounded ==
    /\ exPc = "reap" /\ exWorker = "exited"
    /\ exPc' = "conclude"
    /\ UNCHANGED <<exPhase, exOpen, exSent, exPipe, exGot, exLate, exFlags,
                   exChild, exVerdict, exRecord>>

\* process.wait(timeout=remaining), or the kill and the wait after it.
ExReap ==
    /\ exPc = "reap"
    /\ \/ /\ exWorker = "exited" /\ (exFlags # {} \/ ~exLate)
          /\ UNCHANGED <<exFlags, exChild>>
       \/ /\ exFlags = {} /\ exLate
          /\ exFlags' = {"timed_out"}
          /\ ExKill
    /\ exPc' = "conclude"
    /\ UNCHANGED <<exPhase, exOpen, exSent, exPipe, exGot, exLate, exVerdict,
                   exRecord>>

-----------------------------------------------------------------------------

\* An empty standard output is no document.
ExRead == IF exReply = "none" THEN "MALFORMED" ELSE exReply

\* A slip: the exit status is not asked for.
ExConcludeByReply ==
    IF "timed_out" \in exFlags THEN "TIMED_OUT"
    ELSE IF "overflowed" \in exFlags THEN "MALFORMED"
    ELSE ExRead

\* The verdicts of invoke_extension, in their order.
ExConclusion ==
    IF "timed_out" \in exFlags THEN "TIMED_OUT"
    ELSE IF "overflowed" \in exFlags THEN "MALFORMED"
    ELSE IF exCode # "0" THEN "FAILED"
    ELSE ExRead

ExConclude ==
    /\ exPc = "conclude"
    /\ exVerdict' = ExConclusion
    /\ exPc' = IF exVerdict' = "raised" THEN "ended" ELSE "contribute"
    /\ UNCHANGED <<exPhase, exOpen, exSent, exPipe, exGot, exLate, exFlags,
                   exChild, exRecord>>

\* contribution_record: only a commissioning result becomes source material.
ExContribute ==
    /\ exPc = "contribute"
    /\ exRecord' = IF exPhase # "COMMISSIONING" THEN "none"
                   ELSE IF exVerdict = "ACCEPTED" THEN "ACCEPTED" ELSE "other"
    /\ exPc' = "ended"
    /\ UNCHANGED <<exPhase, exOpen, exSent, exPipe, exGot, exLate, exFlags,
                   exChild, exVerdict>>

ExReturned == exPc = "ended" /\ UNCHANGED exVars

ExCaller ==
    \/ ExPrepare \/ ExLoopLate \/ ExSend \/ ExLeaveLoop \/ ExReap
    \/ \E s \in ExOutputs : ExReceive(s) \/ ExEof(s)
    \/ ExConclude \/ ExContribute

ExNext ==
    \/ ExCaller \/ ExDeadline
    \/ ExWorkerRead \/ ExWorkerSetup \/ ExPlugin \/ ExWorkerWrite
    \/ ExReturned

ExSpec == ExInit /\ [][ExNext]_exVars

-----------------------------------------------------------------------------
(***************************************************************************)
(* An extension's contribution is accepted only on the word of a worker    *)
(* that received the whole request, exited of itself with status 0, and    *)
(* whose standard output was read to its last byte: nothing is ever made   *)
(* of a reply cut by the deadline, the limit or a crash.  No call returns  *)
(* while its worker lives.                                                 *)
(***************************************************************************)
AcceptedReplyIsWhole ==
    /\ (exVerdict = "ACCEPTED" \/ exRecord = "ACCEPTED") =>
           /\ exReply = "ACCEPTED" /\ exCode = "0" /\ exSent = ExBody
           /\ exGot["stdout"] = exMade["stdout"] /\ exPipe["stdout"] = 0
           /\ exGot["stdout"] \in 1..ExLimit
    /\ exVerdict # "none" => exWorker \in {"none", "exited"}

(***************************************************************************)
(* The call returns whatever the worker does or does not do, in particular *)
(* when it neither reads, writes nor exits: the deadline ends every wait   *)
(* of _exchange.                                                           *)
(***************************************************************************)
InvocationReturns == exPc = "loop" ~> exPc = "ended"
=============================================================================
