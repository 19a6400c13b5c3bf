--------------------------- MODULE ReferenceSpool ---------------------------
(***************************************************************************)
(* The directory of one capture of the Python reference engine, and the    *)
(* processes that meet over it without any lock: the capture that          *)
(* finalizes it (capture/runner.py), recover_partials                      *)
(* (capture/recovery.py), readers (retrieval.py) and the ingestion of      *)
(* observations (observations.py).                                         *)
(***************************************************************************)
EXTENDS Naturals, FiniteSets

CONSTANTS
    RsRecoverers,  \* processes that run recover_partials once
    RsReaders,     \* processes that run verify_capture once
    RsObservers    \* processes that ingest the same observation once

ASSUME RsConstants ==
    /\ "capture" \notin RsRecoverers \cup RsReaders \cup RsObservers
    /\ RsRecoverers \cap (RsReaders \cup RsObservers) = {}
    /\ RsReaders \cap RsObservers = {} /\ "none" \notin RsObservers

RsActors == {"capture"} \cup RsRecoverers \cup RsReaders \cup RsObservers
RsFinal == {"COMPLETE", "TRUNCATED", "CAPTURE_FAILED"}

VARIABLES
    rsDir,      \* where the capture is: none, partial, captures
    rsManifest, \* manifest.json: absent, torn (being written), or its status
    rsMarker,   \* recovery.json is there
    rsRaw,      \* the raw files: open, match or mismatch the digests
    rsOutcome,  \* what the drain decided: a final status, or INCOMPLETE
    rsPc,       \* [RsActors -> where it is]
    rsSaw,      \* [RsReaders \cup RsObservers -> status it ended with]
    rsStored,   \* stored observation: none, or who created the record
    rsTold      \* [RsObservers -> the record it returned]

rsVars == <<rsDir, rsManifest, rsMarker, rsRaw, rsOutcome, rsPc, rsSaw,
            rsStored, rsTold>>
rsFiles == <<rsDir, rsManifest, rsMarker, rsRaw>>
rsViews == <<rsSaw, rsStored, rsTold>>

RsStatuses == {"none", "AVAILABLE", "INCOMPLETE", "UNAVAILABLE", "TAMPERED"}

RsTypeOK ==
    /\ rsDir \in {"none", "partial", "captures"}
    /\ rsManifest \in {"absent", "torn", "INCOMPLETE"} \cup RsFinal
    /\ rsMarker \in BOOLEAN
    /\ rsRaw \in {"open", "match", "mismatch"}
    /\ rsOutcome \in {"none", "INCOMPLETE"} \cup RsFinal
    /\ DOMAIN rsPc = RsActors
    /\ rsSaw \in [RsReaders \cup RsObservers -> RsStatuses]
    /\ rsStored \in {"none"} \cup RsObservers
    /\ rsTold \in [RsObservers -> {"none"} \cup RsObservers]

RsInit ==
    /\ rsDir = "none" /\ rsManifest = "absent" /\ rsMarker = FALSE
    /\ rsRaw = "open" /\ rsOutcome = "none"
    /\ rsPc = [a \in RsActors |-> "start"]
    /\ rsSaw = [r \in RsReaders \cup RsObservers |-> "none"]
    /\ rsStored = "none"
    /\ rsTold = [o \in RsObservers |-> "none"]

RsGoto(a, label) == rsPc' = [rsPc EXCEPT ![a] = label]

-----------------------------------------------------------------------------
(* capture_command around its drain.                                       *)

RsMkdir ==
    /\ rsPc["capture"] = "start"
    /\ rsDir' = "partial"
    /\ RsGoto("capture", "run")
    /\ UNCHANGED <<rsManifest, rsMarker, rsRaw, rsOutcome, rsViews>>

\* The files are closed with the outcome of ReferenceCapture; a failed write
\* may leave bytes in a file that its digest does not cover.
RsClose ==
    /\ rsPc["capture"] = "run"
    /\ \E outcome \in RsFinal \cup {"INCOMPLETE"} :
        /\ rsOutcome' = outcome
        /\ rsRaw' \in IF outcome = "CAPTURE_FAILED"
                      THEN {"match", "mismatch"} ELSE {"match"}
        /\ RsGoto("capture", IF outcome = "INCOMPLETE" THEN "check" ELSE "create")
    /\ UNCHANGED <<rsDir, rsManifest, rsMarker, rsViews>>

\* A slip: manifest.json is opened with "w".
RsCreateOver(a) ==
    /\ rsManifest' = "torn"
    /\ RsGoto(a, "fill")

\* open(manifest, "x"): FileExistsError when somebody else made it, and
\* FileNotFoundError when the directory has been renamed; both propagate.
RsCreateNew(a) ==
    IF rsManifest = "absent" /\ (a = "capture" \/ rsDir = "partial")
    THEN rsManifest' = "torn" /\ RsGoto(a, "fill")
    ELSE RsGoto(a, "raised") /\ UNCHANGED rsManifest

RsCreate(a) ==
    /\ rsPc[a] = "create"
    /\ RsCreateNew(a)
    /\ UNCHANGED <<rsDir, rsMarker, rsRaw, rsOutcome, rsViews>>

\* json.dump into the open file.
RsFill(a) ==
    /\ rsPc[a] = "fill"
    /\ rsManifest' = IF a = "capture" THEN rsOutcome ELSE "INCOMPLETE"
    /\ RsGoto(a, IF a = "capture" /\ rsOutcome \in RsFinal
                 THEN "rename" ELSE "marker")
    /\ UNCHANGED <<rsDir, rsMarker, rsRaw, rsOutcome, rsViews>>

\* os.replace to captures/<id>, and the fsync of captures.
RsRename ==
    /\ rsPc["capture"] = "rename"
    /\ rsDir' = "captures"
    /\ RsGoto("capture", "ok")
    /\ UNCHANGED <<rsManifest, rsMarker, rsRaw, rsOutcome, rsViews>>

\* The wrapper is killed, or raises; buffered bytes may be lost.
RsCrash ==
    /\ rsPc["capture"] \notin {"start", "ok", "ended", "raised", "dead"}
    /\ RsGoto("capture", "dead")
    /\ rsRaw' = IF rsRaw = "open" THEN "mismatch" ELSE rsRaw
    /\ UNCHANGED <<rsDir, rsManifest, rsMarker, rsOutcome, rsViews>>

-----------------------------------------------------------------------------
(* recover_partials, and write_incomplete_manifest for both its callers.   *)

\* The glob; there is no lease to tell a live partial from an abandoned one.
RsGlob(r) ==
    /\ rsPc[r] = "start"
    /\ RsGoto(r, IF rsDir = "partial" THEN "check" ELSE "ended")
    /\ UNCHANGED <<rsFiles, rsOutcome, rsViews>>

\* manifest.exists()
RsCheck(a) ==
    /\ rsPc[a] = "check"
    /\ RsGoto(a, IF rsManifest = "absent" \/ (a # "capture" /\ rsDir # "partial")
                 THEN "create" ELSE "marker")
    /\ UNCHANGED <<rsFiles, rsOutcome, rsViews>>

\* marker.exists(), then open(marker, "x"); the capture's own call returns to
\* raise the cancellation.
RsMark(a) ==
    /\ rsPc[a] = "marker"
    /\ \/ /\ rsDir = "partial"
          /\ rsMarker' = TRUE
          /\ RsGoto(a, "ended")
       \/ /\ rsDir # "partial"
          /\ RsGoto(a, "raised") /\ UNCHANGED rsMarker
    /\ UNCHANGED <<rsDir, rsManifest, rsRaw, rsOutcome, rsViews>>

-----------------------------------------------------------------------------
(* _resolve_capture looks under captures, then under partial; the answer   *)
(* for a partial is INCOMPLETE whatever its manifest says.                 *)

RsEnd(a, status) ==
    /\ RsGoto(a, "ended")
    /\ rsSaw' = [rsSaw EXCEPT ![a] = status]

RsResolve(a) ==
    /\ rsPc[a] = "start"
    /\ RsGoto(a, IF rsDir = "captures" THEN "load" ELSE "partial")
    /\ UNCHANGED <<rsFiles, rsOutcome, rsViews>>

RsResolvePartial(a) ==
    /\ rsPc[a] = "partial"
    /\ RsEnd(a, IF rsDir = "partial" THEN "INCOMPLETE" ELSE "UNAVAILABLE")
    /\ UNCHANGED <<rsFiles, rsOutcome, rsStored, rsTold>>

\* _load_manifest: missing, unreadable, or an object.
RsLoad(a) ==
    /\ rsPc[a] = "load"
    /\ CASE rsManifest = "absent" -> RsEnd(a, "INCOMPLETE")
         [] rsManifest = "torn" -> RsEnd(a, "TAMPERED")
         [] OTHER -> RsGoto(a, "verify") /\ UNCHANGED rsSaw
    /\ UNCHANGED <<rsFiles, rsOutcome, rsStored, rsTold>>

\* A slip: the manifest's word is taken for its digests.
RsVerifiesAll == TRUE

\* Every digest of verify_capture is there and matches.
RsVerifies == rsManifest \in RsFinal /\ rsRaw = "match"

RsVerify(a) ==
    /\ rsPc[a] = "verify"
    /\ IF ~RsVerifies THEN RsEnd(a, "TAMPERED")
       ELSE IF a \in RsObservers
       THEN RsGoto(a, "exists") /\ rsSaw' = [rsSaw EXCEPT ![a] = "AVAILABLE"]
       ELSE RsEnd(a, "AVAILABLE")
    /\ UNCHANGED <<rsFiles, rsOutcome, rsStored, rsTold>>

-----------------------------------------------------------------------------
(* _write_immutable, after _capture_metadata: the observation id is the    *)
(* hash of the record without created_at, so that two ingestions of one    *)
(* result meet on one path.                                                *)

\* path.exists(): the stored record agrees but for created_at, and is returned.
RsExists(o) ==
    /\ rsPc[o] = "exists"
    /\ IF rsStored = "none" THEN RsGoto(o, "replace") /\ UNCHANGED rsTold
       ELSE RsGoto(o, "ended") /\ rsTold' = [rsTold EXCEPT ![o] = rsStored]
    /\ UNCHANGED <<rsFiles, rsOutcome, rsSaw, rsStored>>

\* A temporary file replaces whatever is at path by now.
RsReplace(o) ==
    /\ rsPc[o] = "replace"
    /\ rsStored' = o
    /\ rsTold' = [rsTold EXCEPT ![o] = o]
    /\ RsGoto(o, "ended")
    /\ UNCHANGED <<rsFiles, rsOutcome, rsSaw>>

RsAtRest == {"ok", "ended", "raised", "dead"}

RsReturned == (\A a \in RsActors : rsPc[a] \in RsAtRest) /\ UNCHANGED rsVars

RsNext ==
    \/ RsMkdir \/ RsClose \/ RsRename \/ RsCrash \/ RsReturned
    \/ \E a \in {"capture"} \cup RsRecoverers :
           RsCreate(a) \/ RsFill(a) \/ RsCheck(a) \/ RsMark(a)
    \/ \E r \in RsRecoverers : RsGlob(r)
    \/ \E a \in RsReaders \cup RsObservers :
           RsResolve(a) \/ RsResolvePartial(a) \/ RsLoad(a) \/ RsVerify(a)
    \/ \E o \in RsObservers : RsExists(o) \/ RsReplace(o)

RsSpec == RsInit /\ [][RsNext]_rsVars

-----------------------------------------------------------------------------
(***************************************************************************)
(* However a recovery without a lease interleaves with the capture that is *)
(* still at work, one of the two gives way: what captures/ holds has the   *)
(* whole manifest of its own capture, with the status the drain decided,   *)
(* and a capture that returned is there.                                   *)
(***************************************************************************)
PublishedByItsCapture ==
    /\ rsDir = "captures" => rsOutcome \in RsFinal /\ rsManifest = rsOutcome
    /\ rsPc["capture"] = "ok" => rsDir = "captures"

(***************************************************************************)
(* A reader that answered AVAILABLE, and an observation that was stored,   *)
(* stand on a published capture whose files match its manifest, now and    *)
(* not only when they looked; and who was told of a record finds one.      *)
(***************************************************************************)
AvailableIsBacked ==
    /\ (rsStored # "none" \/ \E a \in DOMAIN rsSaw : rsSaw[a] = "AVAILABLE") =>
           rsDir = "captures" /\ rsManifest \in RsFinal /\ rsRaw = "match"
    /\ \A o \in RsObservers : rsTold[o] # "none" => rsStored # "none"

\* What a reader of captures/ finds, and whether anybody was told of it.
RsKept == IF rsDir = "captures" THEN rsManifest ELSE "nothing"
RsPromised ==
    \/ rsPc["capture"] = "ok" \/ rsStored # "none"
    \/ \E a \in DOMAIN rsSaw : rsSaw[a] = "AVAILABLE"

RsContract == INSTANCE Publication WITH
    Outcomes <- RsFinal, taken <- FALSE,
    decided <- IF rsOutcome \in RsFinal THEN rsOutcome ELSE "none",
    kept <- RsKept, told <- RsPromised

(***************************************************************************)
(* The reference engine keeps the contract the Rust engine keeps: what is  *)
(* in captures/ has the outcome that was decided, and once capture_command *)
(* returned, a reader said AVAILABLE or an observation was stored, no      *)
(* recovery and no later step changes or removes it.                       *)
(***************************************************************************)
ReferencePublishes == RsContract!Spec

=============================================================================
