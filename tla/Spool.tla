------------------------------- MODULE Spool -------------------------------
(***************************************************************************)
(* One capture's directory in the spool: how capture_command_pinned        *)
(* creates, finalizes and publishes it, and how recover_partials, run by   *)
(* other processes at any time, finalizes or marks what a dead capture     *)
(* left (crates/outctl-engine/src/capture.rs, storage.rs, manifest.rs).    *)
(*                                                                         *)
(* The file system is kept twice: "live" is what processes see, "disk" is  *)
(* what a power loss is sure to leave.  fsync of a file makes its contents *)
(* durable, fsync of a directory the entries in it.  stdout.raw,           *)
(* stderr.raw and events.ndjson are one entry, "raw".                      *)
(***************************************************************************)
EXTENDS Naturals, FiniteSets

CONSTANTS
    Recoverers,  \* processes that run recover_partials, again and again
    MaxStops,    \* bound on processes dying, or returning, on an I/O error
    MaxLosses    \* bound on power losses

ASSUME SpoolBounds ==
    /\ MaxStops \in Nat /\ MaxLosses \in Nat
    /\ "capture" \notin Recoverers
    /\ {"absent", "free"} \cap Recoverers = {}

Actors == {"capture"} \cup Recoverers

Names == {"raw", "manifest", "sidecar", "publication", "marker"}

Finalized == {"COMPLETE", "TRUNCATED", "CAPTURE_FAILED"}
Incomplete == {"INCOMPLETE", "RECOVERED_INCOMPLETE"}

VARIABLES
    v2,        \* the caller asked for v2 metadata (host durability)
    foreign,   \* captures/<id> is taken by another directory
    live,      \* [dir : where the capture is, names : its entries]
    disk,      \* the same on stable storage
    raw,       \* contents of the streams: open, final, excess, torn
    manifest,  \* capture_status in manifest.json, or torn
    synced,    \* of raw and manifest, those whose contents are durable
    lease,     \* lease.lock: absent, free, or who holds its flock
    index,     \* the index has a live record of the capture
    pc,        \* [Actors -> where it is]
    outcome,   \* capture_status the drain decided
    saw,       \* [Recoverers -> the bundle it read had a sidecar]
    report,    \* [Recoverers -> what its running pass recorded]
    promised,  \* somebody was told that published evidence exists
    stops, losses

fs     == <<live, disk, raw, manifest, synced>>
vars   == <<v2, foreign, fs, lease, index, pc, outcome, saw, report, promised,
            stops, losses>>
fixed  == <<v2, foreign>>
bounds == <<stops, losses>>

Has(name) == name \in live.names

Reports == {"none", "ACTIVE_SKIPPED", "TAMPERED_RETAINED",
            "UNCOMMITTED_RETAINED", "RECOVERED_FINALIZED",
            "CONFLICT_RETAINED", "UNSAFE_RETAINED", "INCOMPLETE"}

Incompleting == {"check", "create", "fill", "msync", "marker", "dirsync"}
Publishing == {"publish", "pubsync"}
Resting == {"mkdir", "ok", "stopped", "idle"}

TypeOK ==
    LET Dirs == [dir : {"none", "partial", "captures"}, names : SUBSET Names]
    IN  /\ v2 \in BOOLEAN /\ foreign \in BOOLEAN
        /\ live \in Dirs /\ disk \in Dirs
        /\ raw \in {"open", "final", "excess", "torn"}
        /\ manifest \in {"torn"} \cup Finalized \cup Incomplete
        /\ synced \in SUBSET {"raw", "manifest"}
        /\ lease \in {"absent", "free"} \cup Actors
        /\ index \in BOOLEAN
        /\ pc \in [Actors -> Incompleting \cup Publishing \cup Resting \cup
                {"lease", "lock", "files", "run", "sidecar", "scsync",
                 "partsync", "rename", "parentsync", "index", "unlock",
                 "inspect", "rebuild", "append"}]
        /\ outcome \in {"none"} \cup Finalized
        /\ saw \in [Recoverers -> BOOLEAN]
        /\ report \in [Recoverers -> Reports]
        /\ promised \in BOOLEAN
        /\ stops \in 0..MaxStops /\ losses \in 0..MaxLosses

Init ==
    /\ v2 \in BOOLEAN /\ foreign \in BOOLEAN
    /\ live = [dir |-> "none", names |-> {}] /\ disk = live
    /\ raw = "open" /\ manifest = "torn" /\ synced = {}
    /\ lease = "absent" /\ index = FALSE
    /\ pc = [a \in Actors |-> IF a = "capture" THEN "mkdir" ELSE "idle"]
    /\ outcome = "none"
    /\ saw = [r \in Recoverers |-> FALSE]
    /\ report = [r \in Recoverers |-> "none"]
    /\ promised = FALSE /\ stops = 0 /\ losses = 0

Goto(a, label) == pc' = [pc EXCEPT ![a] = label]

Create(name) == live' = [live EXCEPT !.names = @ \cup {name}]

\* A slip: the directory is not synced.
SyncNothing == UNCHANGED disk

\* PrivateDir::sync on the capture's own directory.
SyncNames == disk' = [disk EXCEPT !.names = live.names]

\* The call returns; dropping the Spool closes the lease.
EndCapture(label) ==
    /\ Goto("capture", label)
    /\ lease' = IF lease = "capture" THEN "free" ELSE lease

\* recover_partials pushes its record of this capture and goes on.
EndRecord(r, record) ==
    /\ Goto(r, "rebuild")
    /\ report' = [report EXCEPT ![r] = record]

\* A pass of recover_partials is over.
Leave(r) ==
    /\ Goto(r, "idle")
    /\ report' = [report EXCEPT ![r] = "none"]

\* The actor is through with the capture without having published it.
Conclude(a, record) ==
    IF a = "capture" THEN EndCapture("stopped") /\ UNCHANGED report
    ELSE EndRecord(a, record) /\ UNCHANGED lease

-----------------------------------------------------------------------------
(* The capture up to its outcome: prepare_spool, prepare_capture, and the  *)
(* run of the command, whose outcomes module CaptureDrain describes.       *)

Mkdir ==
    /\ pc["capture"] = "mkdir"
    /\ live' = [dir |-> "partial", names |-> {}]
    /\ Goto("capture", "lease")
    /\ UNCHANGED <<fixed, disk, raw, manifest, synced, lease, index, outcome,
                   saw, report, promised, bounds>>

CreateLease ==
    /\ pc["capture"] = "lease"
    /\ lease' = "free"
    /\ Goto("capture", "lock")
    /\ UNCHANGED <<fixed, fs, index, outcome, saw, report, promised, bounds>>

\* try_lock_exclusive; a recovery that holds the flock for a moment wins.
LockLease ==
    /\ pc["capture"] = "lock"
    /\ IF lease = "free"
       THEN lease' = "capture" /\ Goto("capture", "files")
       ELSE EndCapture("stopped")
    /\ UNCHANGED <<fixed, fs, index, outcome, saw, report, promised, bounds>>

CreateFiles ==
    /\ pc["capture"] = "files"
    /\ Create("raw")
    /\ Goto("capture", "run")
    /\ UNCHANGED <<fixed, disk, raw, manifest, synced, lease, index, outcome,
                   saw, report, promised, bounds>>

\* The command ran and its output was drained.  A failed capture's files may
\* hold more than was counted, and may not have been synced.
CommandDrained ==
    /\ pc["capture"] = "run"
    /\ \E status \in Finalized, excess, durable \in BOOLEAN :
        /\ excess \/ ~durable => status = "CAPTURE_FAILED"
        /\ outcome' = status
        /\ raw' = IF excess THEN "excess" ELSE "final"
        /\ synced' = IF durable THEN synced \cup {"raw"} ELSE synced
    /\ Goto("capture", "create")
    /\ UNCHANGED <<fixed, live, disk, manifest, lease, index, saw, report,
                   promised, bounds>>

\* Spawn, setup or wait failed, or the caller cancelled: the capture is closed
\* with an incomplete manifest.
CommandGivenUp ==
    /\ pc["capture"] = "run"
    /\ Goto("capture", "check")
    /\ UNCHANGED <<fixed, fs, lease, index, outcome, saw, report, promised,
                   bounds>>

-----------------------------------------------------------------------------
(* manifest.json: written by the capture with its outcome, and by          *)
(* write_incomplete_manifest, which capture and recovery share.            *)

\* A slip: an incomplete manifest is given the outcome, which is not there.
StatusUnset(a) == outcome

\* A slip: recovery calls what it finds complete.
StatusInvented(a) == IF a \in Recoverers THEN "COMPLETE"
                     ELSE IF outcome = "none" THEN "INCOMPLETE" ELSE outcome

\* What the actor writes into a manifest it creates.
Status(a) ==
    CASE a \in Recoverers -> "RECOVERED_INCOMPLETE"
      [] a \notin Recoverers /\ outcome = "none" -> "INCOMPLETE"
      [] OTHER -> outcome

\* write_incomplete_manifest leaves a manifest that is there alone.
CheckManifest(a) ==
    /\ pc[a] = "check"
    /\ Goto(a, IF Has("manifest") THEN "marker" ELSE "create")
    /\ UNCHANGED <<fixed, fs, lease, index, outcome, saw, report, promised,
                   bounds>>

\* A slip: the file is opened without O_EXCL.
CreateManifestOver(a) ==
    /\ pc[a] = "create"
    /\ Create("manifest") /\ manifest' = "torn"
    /\ synced' = synced \ {"manifest"}
    /\ Goto(a, "fill")
    /\ UNCHANGED <<fixed, disk, raw, lease, index, outcome, saw, report,
                   promised, bounds>>

\* write_new creates with O_EXCL, writes, and syncs the file.
CreateManifest(a) ==
    /\ pc[a] = "create"
    /\ IF Has("manifest")
       THEN Conclude(a, "UNSAFE_RETAINED") /\ UNCHANGED <<live, manifest, synced>>
       ELSE /\ Create("manifest") /\ manifest' = "torn"
            /\ synced' = synced \ {"manifest"}
            /\ Goto(a, "fill")
            /\ UNCHANGED <<lease, report>>
    /\ UNCHANGED <<fixed, disk, raw, index, outcome, saw, promised, bounds>>

FillManifest(a) ==
    /\ pc[a] = "fill"
    /\ manifest' = Status(a)
    /\ Goto(a, "msync")
    /\ UNCHANGED <<fixed, live, disk, raw, synced, lease, index, outcome, saw,
                   report, promised, bounds>>

SyncManifest(a) ==
    /\ pc[a] = "msync"
    /\ synced' = synced \cup {"manifest"}
    /\ Goto(a, CASE Status(a) \in Incomplete -> "marker"
                 [] Status(a) \in Finalized /\ v2 -> "sidecar"
                 [] OTHER -> "partsync")
    /\ UNCHANGED <<fixed, live, disk, raw, manifest, lease, index, outcome, saw,
                   report, promised, bounds>>

\* recovery.json, unless it is there.
WriteMarker(a) ==
    /\ pc[a] = "marker"
    /\ Create("marker")
    /\ Goto(a, "dirsync")
    /\ UNCHANGED <<fixed, disk, raw, manifest, synced, lease, index, outcome,
                   saw, report, promised, bounds>>

SyncMarked(a) ==
    /\ pc[a] = "dirsync"
    /\ SyncNames
    /\ Conclude(a, "INCOMPLETE")
    /\ UNCHANGED <<fixed, live, raw, manifest, synced, index, outcome, saw,
                   promised, bounds>>

-----------------------------------------------------------------------------
(* Finalization, by the capture or by a recovery that found a finalized    *)
(* manifest: sidecar, directory sync, rename, parent sync, publication.    *)

\* write_v2_sidecar: a synced temporary file renamed into place ...
WriteSidecar ==
    /\ pc["capture"] = "sidecar"
    /\ Create("sidecar")
    /\ Goto("capture", "scsync")
    /\ UNCHANGED <<fixed, disk, raw, manifest, synced, lease, index, outcome,
                   saw, report, promised, bounds>>

\* ... and the directory synced; then spool.partial.sync().
SyncPartial ==
    /\ pc["capture"] \in {"scsync", "partsync"}
    /\ SyncNames
    /\ Goto("capture", IF pc["capture"] = "scsync" THEN "partsync" ELSE "rename")
    /\ UNCHANGED <<fixed, live, raw, manifest, synced, lease, index, outcome,
                   saw, report, promised, bounds>>

\* A slip: a plain rename, which replaces what is at captures/<id>.
RenameReplacing(a) ==
    /\ pc[a] = "rename" /\ live.dir = "partial"
    /\ live' = [live EXCEPT !.dir = "captures"]
    /\ Goto(a, "parentsync")
    /\ UNCHANGED <<fixed, disk, raw, manifest, synced, lease, index, outcome,
                   saw, report, promised, bounds>>

\* rename_entry_noreplace into captures/.
Rename(a) ==
    /\ pc[a] = "rename"
    /\ \/ /\ live.dir = "partial" /\ ~foreign
          /\ live' = [live EXCEPT !.dir = "captures"]
          /\ Goto(a, "parentsync")
          /\ UNCHANGED <<lease, report>>
       \/ /\ live.dir = "partial" /\ foreign
          /\ Conclude(a, "CONFLICT_RETAINED")
          /\ UNCHANGED live
       \/ \* Somebody else renamed it: recover_partials returns the error.
          /\ live.dir # "partial"
          /\ IF a = "capture" THEN EndCapture("stopped")
             ELSE Goto(a, "idle") /\ UNCHANGED lease
          /\ UNCHANGED <<live, report>>
    /\ UNCHANGED <<fixed, disk, raw, manifest, synced, index, outcome, saw,
                   promised, bounds>>

\* A publication follows a sidecar, and nothing else.
Publishes(a) == IF a = "capture" THEN v2 ELSE saw[a]

\* captures_root.sync().
SyncParent(a) ==
    /\ pc[a] = "parentsync"
    /\ disk' = [disk EXCEPT !.dir = live.dir]
    /\ IF a = "capture" /\ ~v2
       THEN EndCapture("ok") /\ promised' = TRUE
       ELSE /\ Goto(a, IF Publishes(a) THEN "publish" ELSE "index")
            /\ UNCHANGED <<lease, promised>>
    /\ UNCHANGED <<fixed, live, raw, manifest, synced, index, outcome, saw,
                   report, bounds>>

\* write_v2_publication: the synced record renamed into place ...
WritePublication(a) ==
    /\ pc[a] = "publish"
    /\ Create("publication")
    /\ Goto(a, "pubsync")
    /\ UNCHANGED <<fixed, disk, raw, manifest, synced, lease, index, outcome,
                   saw, report, promised, bounds>>

\* ... and the directory synced.
SyncPublication(a) ==
    /\ pc[a] = "pubsync"
    /\ SyncNames
    /\ Goto(a, "index")
    /\ UNCHANGED <<fixed, live, raw, manifest, synced, lease, index, outcome,
                   saw, report, promised, bounds>>

\* The index record, whose failure is only reported, and the result.
WriteIndex(a) ==
    /\ pc[a] = "index"
    /\ index' \in {index, TRUE}
    /\ IF a = "capture"
       THEN EndCapture("ok") /\ UNCHANGED report
       ELSE EndRecord(a, "RECOVERED_FINALIZED") /\ UNCHANGED lease
    /\ promised' = (promised \/ Publishes(a))
    /\ UNCHANGED <<fixed, fs, outcome, saw, bounds>>

-----------------------------------------------------------------------------
(* recover_partials.                                                       *)

\* The listing of partial/, and the capture's directory opened.
Scan(r) ==
    /\ pc[r] = "idle"
    /\ Goto(r, IF live.dir = "partial" THEN "lease" ELSE "rebuild")
    /\ UNCHANGED <<fixed, fs, lease, index, outcome, saw, report, promised,
                   bounds>>

\* A slip: a missing lease file counts as an active capture.
TryLeaseOnly(r) ==
    /\ pc[r] = "lease"
    /\ IF lease = "free"
       THEN lease' = r /\ Goto(r, "unlock") /\ UNCHANGED report
       ELSE EndRecord(r, "ACTIVE_SKIPPED") /\ UNCHANGED lease
    /\ UNCHANGED <<fixed, fs, index, outcome, saw, promised, bounds>>

\* No lease file is as good as a free one.
TryLease(r) ==
    /\ pc[r] = "lease"
    /\ \/ /\ lease = "absent"
          /\ Goto(r, "inspect") /\ UNCHANGED <<lease, report>>
       \/ /\ lease = "free"
          /\ lease' = r /\ Goto(r, "unlock") /\ UNCHANGED report
       \/ /\ lease \in Actors
          /\ EndRecord(r, "ACTIVE_SKIPPED") /\ UNCHANGED lease
    /\ UNCHANGED <<fixed, fs, index, outcome, saw, promised, bounds>>

\* The File goes out of scope at the end of the if: the flock is gone.
DropLease(r) ==
    /\ pc[r] = "unlock"
    /\ lease' = "free"
    /\ Goto(r, "inspect")
    /\ UNCHANGED <<fixed, fs, index, outcome, saw, report, promised, bounds>>

\* read_manifest_bundle: whole, and bound by the sidecar if there is one.
BundleReads ==
    /\ Has("manifest") /\ manifest # "torn"
    /\ Has("sidecar") => manifest \in Finalized

ArtifactsMatch == Has("raw") /\ raw = "final"

InspectPartial(r) ==
    /\ pc[r] = "inspect"
    /\ \/ /\ ~Has("manifest") \/ (BundleReads /\ manifest \in Incomplete)
          /\ Goto(r, "check") /\ UNCHANGED <<saw, report>>
       \/ /\ Has("manifest") /\ ~BundleReads
          /\ EndRecord(r, "UNSAFE_RETAINED") /\ UNCHANGED saw
       \/ /\ BundleReads /\ manifest \in Finalized /\ ~ArtifactsMatch
          /\ EndRecord(r, "TAMPERED_RETAINED") /\ UNCHANGED saw
       \/ /\ BundleReads /\ manifest \in Finalized /\ ArtifactsMatch
          /\ saw' = [saw EXCEPT ![r] = Has("sidecar")]
          /\ Goto(r, "rename") /\ UNCHANGED report
    /\ UNCHANGED <<fixed, fs, lease, index, outcome, promised, bounds>>

\* An I/O error, or a lost race for a file, inside the step of one capture.
RecordError(r) ==
    /\ stops < MaxStops
    /\ \/ pc[r] \in Incompleting /\ EndRecord(r, "UNSAFE_RETAINED")
       \/ pc[r] \in Publishing /\ EndRecord(r, "UNCOMMITTED_RETAINED")
    /\ stops' = stops + 1
    /\ UNCHANGED <<fixed, fs, lease, index, outcome, saw, promised, losses>>

\* A slip: the delta is believed without its publication record.
ReadablePrepared == live.dir = "captures" /\ BundleReads

\* read_published_manifest_bundle: with a sidecar, only a published one.
Readable ==
    /\ live.dir = "captures" /\ BundleReads
    /\ Has("sidecar") => Has("publication")

\* rebuild_index_in ...
Rebuild(r) ==
    /\ pc[r] = "rebuild"
    /\ index' = (index \/ Readable)
    /\ Goto(r, "append")
    /\ UNCHANGED <<fixed, fs, lease, outcome, saw, report, promised, bounds>>

\* ... then append_uncommitted_v2_records, and the pass returns its records.
AppendUncommitted(r) ==
    /\ pc[r] = "append"
    /\ IF /\ report[r] = "none" /\ live.dir = "captures"
          /\ BundleReads /\ Has("sidecar") /\ ~Readable
       THEN report' = [report EXCEPT ![r] = "UNCOMMITTED_RETAINED"] /\ UNCHANGED pc
       ELSE Leave(r)
    /\ UNCHANGED <<fixed, fs, lease, index, outcome, saw, promised, bounds>>

-----------------------------------------------------------------------------
(* Failures.                                                               *)

\* A step fails, or the process is killed: a capture returns an error and a
\* recovery gives up its pass; both leave the files as they are.
Stop(a) ==
    /\ stops < MaxStops /\ pc[a] \notin Resting
    /\ IF a = "capture" THEN Goto(a, "stopped") /\ UNCHANGED report
       ELSE Leave(a)
    /\ lease' = IF lease = a THEN "free" ELSE lease
    /\ stops' = stops + 1
    /\ UNCHANGED <<fixed, fs, index, outcome, saw, promised, losses>>

\* Power is lost.  Each change that was not synced is on the disk or not; a
\* rename without a sync leaves the directory at either place, or nowhere.
PowerLoss ==
    /\ losses < MaxLosses
    /\ \E d \in {live.dir, disk.dir} \cup
                (IF live.dir = disk.dir THEN {} ELSE {"partial"}) :
       \E n \in SUBSET live.names :
        /\ disk.names \subseteq n
        /\ d = "none" => n = {}
        /\ live' = [dir |-> d, names |-> n] /\ disk' = live'
    /\ raw' \in IF "raw" \in synced THEN {raw} ELSE {raw, "torn"}
    /\ manifest' \in IF "manifest" \in synced THEN {manifest}
                     ELSE {manifest, "torn"}
    /\ synced' = {"raw", "manifest"}
    /\ lease' \in IF live'.dir = "none" \/ lease = "absent" THEN {"absent"}
                  ELSE {"absent", "free"}
    /\ index' \in {FALSE, index}
    /\ pc' = [a \in Actors |-> IF a \in Recoverers THEN "idle"
                               ELSE IF pc[a] = "ok" THEN "ok" ELSE "stopped"]
    /\ report' = [r \in Recoverers |-> "none"]
    /\ losses' = losses + 1
    /\ UNCHANGED <<fixed, outcome, saw, promised, stops>>

CaptureStep ==
    \/ Mkdir \/ CreateLease \/ LockLease \/ CreateFiles
    \/ CommandDrained \/ CommandGivenUp \/ WriteSidecar \/ SyncPartial

\* What a capture and a recovery have in common.
SharedStep(a) ==
    \/ CheckManifest(a) \/ CreateManifest(a) \/ FillManifest(a)
    \/ SyncManifest(a) \/ WriteMarker(a) \/ SyncMarked(a)
    \/ Rename(a) \/ SyncParent(a) \/ WritePublication(a) \/ SyncPublication(a)
    \/ WriteIndex(a)

RecoverStep(r) ==
    \/ Scan(r) \/ TryLease(r) \/ DropLease(r) \/ InspectPartial(r)
    \/ Rebuild(r) \/ AppendUncommitted(r)

Next ==
    \/ CaptureStep
    \/ \E a \in Actors : SharedStep(a) \/ Stop(a)
    \/ \E r \in Recoverers : RecoverStep(r) \/ RecordError(r)
    \/ PowerLoss

Spec == Init /\ [][Next]_vars

(***************************************************************************)
(* A running recovery pass goes on, and recovery is run again and again.   *)
(* Nothing is assumed of the capture.                                      *)
(***************************************************************************)
FairSpec ==
    Spec /\ \A r \in Recoverers : WF_vars(RecoverStep(r) \/ SharedStep(r))

-----------------------------------------------------------------------------
(* Properties.                                                             *)

\* verify_capture would say Available.
Verifies == Readable /\ ArtifactsMatch

(* Once a capture returned Ok, or a recovery reported a v2 capture as      *)
(* RECOVERED_FINALIZED, its evidence stays in captures/ and reads as       *)
(* published, across crashes, later recoveries and power losses; and it    *)
(* verifies, unless its own status is CAPTURE_FAILED.                      *)
PromisedSurvives ==
    promised => Readable /\ (manifest # "CAPTURE_FAILED" => Verifies)

(* What a reader accepts as host-durable v2 evidence is durable where it   *)
(* lies: the directory is in captures/ on stable storage, and the manifest *)
(* the delta binds is the one that was synced.                             *)
PublishedIsBacked ==
    Readable /\ Has("sidecar") =>
        disk.dir = "captures" /\ "manifest" \in synced /\ manifest = outcome

(* Recovery invents nothing: a finalized status is the outcome of the      *)
(* drain, whoever moved the capture, and no directory with an incomplete   *)
(* manifest is ever moved to captures/.                                    *)
NothingInvented ==
    /\ Has("manifest") /\ manifest \in Finalized => manifest = outcome
    /\ Has("manifest") /\ live.dir = "captures" => manifest \notin Incomplete

\* In captures/ with a sidecar, not published, and nobody about to finish it.
Uncommitted ==
    /\ live.dir = "captures" /\ Has("sidecar") /\ ~Has("publication")
    /\ \A a \in Actors : pc[a] \notin {"parentsync", "publish", "index"}

(* Evidence left in captures/ without its publication record is never      *)
(* promoted: when nobody is in the middle of finalizing it, no step        *)
(* publishes it, and the index rebuild does not list it.                   *)
UncommittedStaysSo ==
    [][Uncommitted => /\ "publication" \notin live'.names
                      /\ index' => index]_vars

(* What is in captures/ stays there and is only added to, and a manifest   *)
(* once written is not written again: only a power loss takes away.        *)
OnlyLossTakesAway ==
    [][losses' = losses =>
        /\ live.dir = "captures" => live'.dir = "captures"
        /\ live.names \subseteq live'.names
        /\ Has("manifest") /\ manifest # "torn" => manifest' = manifest]_vars

(* captures/<id> is never replaced: while the name belongs to another      *)
(* directory the capture is not there.                                     *)
NoReplace == foreign => live.dir # "captures"

\* What a reader of captures/ is given: the status of the manifest, or nothing.
Kept == IF Readable THEN manifest ELSE "nothing"

Contract == INSTANCE Publication WITH
    Outcomes <- Finalized, taken <- foreign, decided <- outcome, kept <- Kept,
    told <- promised

(* Capture, recoveries, crashes and power losses together publish as       *)
(* Publication says: under a name that was free, with the outcome the      *)
(* drain decided, and for good once a capture returned Ok or a recovery    *)
(* reported RECOVERED_FINALIZED of a capture it wrote the publication of.  *)
ImplementsPublication == Contract!Spec

(* A capture that died before its manifest is marked by recovery, unless   *)
(* power losses take its directory away.                                   *)
AbandonedIsMarked ==
    (pc["capture"] = "stopped" /\ live.dir = "partial" /\ ~Has("manifest"))
        ~> (Has("manifest") \/ live.dir = "none")

(* The test recovery_skips_active_lease_without_writing_markers: while a   *)
(* capture holds its lease, recovery writes nothing into its directory.    *)
ActiveLeaseUntouched ==
    [][lease = "capture" /\ pc'["capture"] = pc["capture"]
        => UNCHANGED live]_vars

(* W7_HANDOFF: a host-durable claim, which the publication record makes,   *)
(* requires that stream and event-index files are synced.                  *)
HostClaimBacked == Has("publication") => "raw" \in synced

=============================================================================
