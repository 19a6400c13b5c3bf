------------------------------- MODULE Bundle -------------------------------
(***************************************************************************)
(* The hybrid release bundle: build_hybrid_bundle.py copies artifacts that *)
(* a build tree may still be rewriting into a private stage, checks the    *)
(* stage with check_hybrid_bundle.py and publishes it with one rename that *)
(* replaces nothing; rehearse_hybrid_bundle.py checks a published bundle   *)
(* and runs it.  Two builders may share a destination, and files of a      *)
(* published bundle may be swapped under the rehearsal.                    *)
(*                                                                         *)
(* The content of a file is a number that grows when it is rewritten; it is*)
(* also its size and, for a native artifact, the engine it reports.        *)
(***************************************************************************)
EXTENDS Naturals, Functions

CONSTANTS
    BdBuilders,    \* concurrent builds of one destination
    BdHosts,       \* number of native host classes
    BdMaxArtifact, \* MAX_ARTIFACT_BYTES
    BdMaxTotal,    \* MAX_BUNDLE_INPUT_BYTES
    BdMaxEdits,    \* bound on the rewrites of the build tree
    BdMaxDrifts    \* bound on the swaps in the published bundle

ASSUME BdConstants ==
    /\ BdHosts \in Nat \ {0} /\ "none" \notin BdBuilders
    /\ {BdMaxArtifact, BdMaxTotal, BdMaxEdits, BdMaxDrifts} \subseteq Nat

\* The inputs in the order they are copied: the wheel, then per host class
\* its native artifact and its dependency wheels (taken together).
BdInputs == 1..2 * BdHosts + 1
BdNatives == {i \in BdInputs : i % 2 = 0}

\* The other members of a bundle: the manifest, the capability document of
\* each native artifact, and a file that nothing lists.
BdManifestFile == 0
BdDocument(i) == 2 * BdHosts + 1 + i \div 2
BdStray == 3 * BdHosts + 2
BdPinned == BdInputs \cup {BdDocument(i) : i \in BdNatives}
BdMembers == BdPinned \cup {BdManifestFile}

\* A manifest in canonical form; one that was rewritten is another number.
BdCanonical == 1

BdTotal(files) == SumFunction(Restrict(files, DOMAIN files \cap BdInputs))

BdNothing == [i \in {} |-> 0]
BdTorn == 0

VARIABLES
    bdSource,  \* [BdInputs -> content in the build tree]
    bdEdits,   \* rewrites so far
    bdPc,      \* [BdBuilders -> where build_bundle is]
    bdAt,      \* [BdBuilders -> the input being copied]
    bdOpened,  \* [BdBuilders -> its content when it was opened]
    bdStage,   \* [BdBuilders -> files of the stage]
    bdDest,    \* builder whose stage became the destination, or "none"
    bdFiles,   \* files of the destination
    bdPins,    \* digests in its manifest
    bdDrifts,  \* swaps so far
    bdPlay,    \* where rehearse is
    bdHeld,    \* content behind the native descriptor that was hashed
    bdRuns,    \* native executions left
    bdRan      \* contents executed

bdBuild == <<bdPc, bdAt, bdOpened, bdStage>>
bdBundle == <<bdDest, bdFiles, bdPins>>
bdRehearsal == <<bdPlay, bdHeld, bdRuns, bdRan>>
bdVars == <<bdSource, bdEdits, bdDrifts, bdBuild, bdBundle, bdRehearsal>>

BdContents == 0..BdMaxEdits + BdMaxDrifts + 1

BdTypeOK ==
    /\ bdSource \in [BdInputs -> BdContents] /\ bdEdits \in 0..BdMaxEdits
    /\ bdPc \in [BdBuilders -> {"called", "open", "copy", "probe", "manifest",
                                "publish", "returned", "raised", "killed"}]
    /\ bdAt \in [BdBuilders -> BdInputs]
    /\ bdOpened \in [BdBuilders -> BdContents]
    /\ \A b \in BdBuilders : DOMAIN bdStage[b] \subseteq BdMembers
    /\ bdDest \in BdBuilders \cup {"none"} /\ bdDrifts \in 0..BdMaxDrifts
    /\ DOMAIN bdFiles \subseteq BdMembers \cup {BdStray}
    /\ DOMAIN bdPins \subseteq BdPinned
    /\ bdPlay \in {"called", "read", "venv", "install", "import", "hash", "execute",
                  "rollback", "passed", "raised"}
    /\ bdHeld \in BdContents /\ bdRuns \in 0..3 /\ bdRan \subseteq BdContents

BdInit ==
    /\ bdSource = [i \in BdInputs |-> 1] /\ bdEdits = 0 /\ bdDrifts = 0
    /\ bdPc = [b \in BdBuilders |-> "called"]
    /\ bdAt = [b \in BdBuilders |-> 1]
    /\ bdOpened = [b \in BdBuilders |-> 0]
    /\ bdStage = [b \in BdBuilders |-> BdNothing]
    /\ bdDest = "none" /\ bdFiles = BdNothing /\ bdPins = BdNothing
    /\ bdPlay = "called" /\ bdHeld = 0 /\ bdRuns = 3 /\ bdRan = {}

BdGoto(b, label) == bdPc' = [bdPc EXCEPT ![b] = label]

\* The except clause of build_bundle: the stage is removed.
BdRaise(b) ==
    BdGoto(b, "raised") /\ bdStage' = [bdStage EXCEPT ![b] = BdNothing]

\* The build tree rewrites an artifact in place.
BdRewrite(i) ==
    /\ bdEdits < BdMaxEdits /\ bdEdits' = bdEdits + 1
    /\ bdSource' = [bdSource EXCEPT ![i] = @ + 1]
    /\ UNCHANGED <<bdDrifts, bdBuild, bdBundle, bdRehearsal>>

\* What build_bundle is told: labels and commit, a host class per native
\* artifact (every class of the release, one perhaps twice) and per dependency
\* wheel (perhaps none for a class, or one of a class nobody named).
BdOrders ==
    [labels : BOOLEAN, natives : [1..BdHosts + 1 -> 0..BdHosts],
     dependencies : SUBSET (1..BdHosts + 1)]

BdNamed(order) == {k \in DOMAIN order.natives : order.natives[k] # 0}

BdAccepts(order) ==
    /\ order.labels /\ BdNamed(order) # {}
    /\ \A j, k \in BdNamed(order) : order.natives[j] = order.natives[k] => j = k
    /\ order.dependencies = {order.natives[k] : k \in BdNamed(order)}

\* Every order that names all host classes, by whether it is accepted.
BdAnswers == {BdAccepts(order) : order \in
                {o \in BdOrders : 1..BdHosts \subseteq {o.natives[k] : k \in BdNamed(o)}}}

\* _validate_source: a regular file within the bound of one artifact.
BdValidSource(i) == bdSource[i] <= BdMaxArtifact

\* The parent directory as it is visible, against the one that was opened.
BdParents == [present : BOOLEAN, inode : {"pinned", "another"}]
BdPinnedParent(parent) == parent.present /\ parent.inode = "pinned"

\* _make_stage: a directory under a fresh name.
BdMakeStage(b) == BdGoto(b, "open") \/ BdGoto(b, "raised")

\* The order, each source and their declared total, the parent, a free
\* destination name; then the stage.
BdPrepare(b) ==
    /\ bdPc[b] = "called"
    /\ \E accepted \in BdAnswers, parent \in BdParents :
           IF /\ accepted
              /\ \A i \in BdInputs : BdValidSource(i)
              /\ BdTotal(bdSource) <= BdMaxTotal
              /\ BdPinnedParent(parent)
              /\ bdDest = "none"
           THEN BdMakeStage(b) ELSE BdGoto(b, "raised")
    /\ UNCHANGED <<bdSource, bdEdits, bdDrifts, bdAt, bdOpened, bdStage, bdBundle,
                   bdRehearsal>>

BdRemaining(b) == BdMaxTotal - BdTotal(bdStage[b])

\* A file of the stage, created exclusively and synced (_write_metadata).
BdWith(files, i, content) ==
    [j \in DOMAIN files \cup {i} |-> IF j = i THEN content ELSE files[j]]

BdWrite(b, i, content) == bdStage' = [bdStage EXCEPT ![b] = BdWith(@, i, content)]

\* _copy_input up to its loop.
BdOpen(b) ==
    LET size == bdSource[bdAt[b]] IN
    /\ bdPc[b] = "open"
    /\ IF ~BdValidSource(bdAt[b]) \/ size > BdRemaining(b)
       THEN BdRaise(b) /\ UNCHANGED bdOpened
       ELSE /\ BdGoto(b, "copy") /\ UNCHANGED bdStage
            /\ bdOpened' = [bdOpened EXCEPT ![b] = size]
    /\ UNCHANGED <<bdSource, bdEdits, bdDrifts, bdAt, bdBundle, bdRehearsal>>

\* A slip: the source is not compared with its state at the start of the copy.
BdCopyUnwatched(b) ==
    LET i == bdAt[b]
        copied == IF bdSource[i] = bdOpened[b] THEN bdOpened[b] ELSE BdTorn IN
    /\ bdPc[b] = "copy"
    /\ BdWrite(b, i, copied)
    /\ BdGoto(b, "probe")
    /\ UNCHANGED <<bdSource, bdEdits, bdDrifts, bdAt, bdOpened, bdBundle, bdRehearsal>>

\* The loop of _copy_input and the comparison of the two fstats: a source
\* that was rewritten meanwhile was copied torn, and is refused.
BdCopy(b) ==
    LET i == bdAt[b] IN
    /\ bdPc[b] = "copy"
    /\ IF bdSource[i] # bdOpened[b]
       THEN BdRaise(b)
       ELSE BdWrite(b, i, bdOpened[b]) /\ BdGoto(b, "probe")
    /\ UNCHANGED <<bdSource, bdEdits, bdDrifts, bdAt, bdOpened, bdBundle, bdRehearsal>>

\* The metadata of a wheel: one METADATA member of bounded size, with one name
\* and version that agree with the file name, and its requirements.
BdMainRequires == {[project |-> "library", extra |-> FALSE]}
BdWheels(i) ==
    {w \in [metadata : BOOLEAN, agrees : BOOLEAN, project : {"outctl", "library", "other"},
            requires : SUBSET [project : {"library", "other"}, extra : BOOLEAN]] :
        i = 1 => w.requires = BdMainRequires}

BdWheelMetadata(i, wheel) ==
    wheel.metadata /\ wheel.agrees /\ (i = 1 => wheel.project = "outctl")

\* _requirement_project: a requirement of an extra is none.
BdRequired(requires) == {r.project : r \in {q \in requires : ~q.extra}}

\* The dependency wheels of a host class (one here) are other projects, and
\* what the main wheel and they require is among them.
BdComplete(wheel) ==
    /\ wheel.project # "outctl"
    /\ BdRequired(BdMainRequires) \cup BdRequired(wheel.requires) \subseteq {wheel.project}

\* The wheel at i, by whether it is accepted.
BdWheelsRead ==
    [i \in BdInputs \ BdNatives |->
        {BdWheelMetadata(i, wheel) /\ (i # 1 => BdComplete(wheel)) : wheel \in BdWheels(i)}]

\* After an input of the stage was read: the next one, or the manifest.
BdAdvance(b) ==
    IF bdAt[b] = 2 * BdHosts + 1
    THEN BdGoto(b, "manifest") /\ UNCHANGED bdAt
    ELSE BdGoto(b, "open") /\ bdAt' = [bdAt EXCEPT ![b] = @ + 1]

BdReadWheel(b) ==
    LET i == bdAt[b] IN
    /\ bdPc[b] = "probe" /\ i \notin BdNatives
    /\ \E usable \in BdWheelsRead[i] :
           IF usable
           THEN BdAdvance(b) /\ UNCHANGED bdStage
           ELSE BdRaise(b) /\ UNCHANGED bdAt
    /\ UNCHANGED <<bdSource, bdEdits, bdDrifts, bdOpened, bdBundle, bdRehearsal>>

\* A capability document: its contracts, features and smallest limit.
BdContracts == {"run_request", "policy_snapshot", "run_result", "capture_manifest"}
BdInvariants == {"direct_argv", "one_version_back_read"}
BdCapabilities ==
    [contracts : SUBSET BdContracts, features : SUBSET (BdInvariants \cup {"pty"}),
     limit : 0..1]

BdCapable(document) ==
    /\ document.contracts = BdContracts
    /\ BdInvariants \subseteq document.features /\ document.limit >= 1

\* _probe_capabilities: killed at its deadline or past its output bound, it
\* must exit 0, with nothing on stderr and a document.
BdProbes == [ending : {"exited", "timed out", "overflowed"}, exit : 0..1,
             stderr : BOOLEAN, document : BdCapabilities]

BdProbeUsable(probe) ==
    /\ probe.ending = "exited" /\ probe.exit = 0 /\ ~probe.stderr
    /\ BdCapable(probe.document)

BdProbed == {BdProbeUsable(probe) : probe \in BdProbes}

\* A native artifact: its probe, one engine and profile over the host classes,
\* its capability document.
BdProbe(b) ==
    LET i == bdAt[b] IN
    /\ bdPc[b] = "probe" /\ i \in BdNatives
    /\ \E usable \in BdProbed :
           IF usable /\ bdStage[b][i] = bdStage[b][2]
           THEN BdWrite(b, BdDocument(i), bdStage[b][i]) /\ BdAdvance(b)
           ELSE BdRaise(b) /\ UNCHANGED bdAt
    /\ UNCHANGED <<bdSource, bdEdits, bdDrifts, bdOpened, bdBundle, bdRehearsal>>

\* _read_pinned_file: a member has the size and the digest of its pin.
BdPinHolds(files, pins, i) ==
    /\ i \in DOMAIN pins /\ pins[i] <= BdMaxArtifact
    /\ i \in DOMAIN files /\ files[i] = pins[i]

\* _read_manifest: present, bounded and in canonical form.
BdManifestReads(files) ==
    BdManifestFile \in DOMAIN files /\ files[BdManifestFile] = BdCanonical

\* _verify_exact_members: nothing is missing and nothing is unlisted.
BdExactMembers(files, pins) == DOMAIN files = {BdManifestFile} \cup DOMAIN pins

\* One entry of manifest.native: artifact, dependencies and document as they
\* are pinned, the engine of the document and of the first entry.
BdHostChecks(files, pins, i) ==
    /\ \A j \in {i, i + 1, BdDocument(i)} : BdPinHolds(files, pins, j)
    /\ pins[BdDocument(i)] = pins[i] /\ pins[i] = pins[2]

BdChecked(files, pins) ==
    /\ BdManifestReads(files)
    /\ BdPinHolds(files, pins, 1)
    /\ \A i \in BdNatives : BdHostChecks(files, pins, i)
    /\ BdTotal(pins) <= BdMaxTotal
    /\ BdExactMembers(files, pins)

\* The manifest, check_bundle on the stage, the syncs, the pinned parent.
BdManifest(b) ==
    LET files == BdWith(bdStage[b], BdManifestFile, BdCanonical) IN
    /\ bdPc[b] = "manifest"
    /\ \E parent \in BdParents :
           IF BdChecked(files, bdStage[b]) /\ BdPinnedParent(parent)
           THEN BdGoto(b, "publish") /\ BdWrite(b, BdManifestFile, BdCanonical)
           ELSE BdRaise(b)
    /\ UNCHANGED <<bdSource, bdEdits, bdDrifts, bdAt, bdOpened, bdBundle, bdRehearsal>>

\* RENAME_NOREPLACE of _publish_noreplace.
BdFree == bdDest = "none"

BdPublish(b) ==
    /\ bdPc[b] = "publish"
    /\ IF BdFree
       THEN /\ bdDest' = b /\ bdFiles' = bdStage[b]
            /\ bdPins' = Restrict(bdStage[b], BdPinned)
            /\ BdGoto(b, "returned") /\ UNCHANGED bdStage
       ELSE BdRaise(b) /\ UNCHANGED bdBundle
    /\ UNCHANGED <<bdSource, bdEdits, bdDrifts, bdAt, bdOpened, bdRehearsal>>

\* The process dies: its stage stays, under a name nobody else uses.
BdKilled(b) ==
    /\ bdPc[b] \in {"open", "copy", "probe", "manifest", "publish"}
    /\ BdGoto(b, "killed")
    /\ UNCHANGED <<bdSource, bdEdits, bdDrifts, bdAt, bdOpened, bdStage, bdBundle,
                   bdRehearsal>>

-----------------------------------------------------------------------------
\* A member of the destination is rewritten or removed, or another appears.
BdDrift ==
    /\ bdDest # "none" /\ bdDrifts < BdMaxDrifts /\ bdDrifts' = bdDrifts + 1
    /\ \/ \E i \in DOMAIN bdFiles : bdFiles' = [bdFiles EXCEPT ![i] = @ + 1]
       \/ \E i \in DOMAIN bdFiles : bdFiles' = Restrict(bdFiles, DOMAIN bdFiles \ {i})
       \/ bdFiles' = BdWith(bdFiles, BdStray, 1)
    /\ UNCHANGED <<bdSource, bdEdits, bdBuild, bdDest, bdPins, bdRehearsal>>

BdAct(label) ==
    /\ bdPlay' = label
    /\ UNCHANGED <<bdSource, bdEdits, bdDrifts, bdBuild, bdBundle>>

\* rehearse: check_bundle and the choice of the host class.
BdRehearse ==
    /\ bdPlay = "called" /\ bdDest # "none"
    /\ BdAct(IF BdChecked(bdFiles, bdPins) THEN "read" ELSE "raised")
    /\ UNCHANGED <<bdHeld, bdRuns, bdRan>>

\* The manifest is read once more, for its digest.
BdReread ==
    /\ bdPlay = "read"
    /\ BdAct(IF BdManifestFile \in DOMAIN bdFiles THEN "venv" ELSE "raised")
    /\ UNCHANGED <<bdHeld, bdRuns, bdRan>>

\* _run_bounded and _require_success: the command ends in time and within its
\* output bound with status 0, or its group is killed and the rehearsal ends.
BdRunBounded(next) == BdAct(next) \/ BdAct("raised")

\* The virtual environment, the offline installation, the import probe.
BdInstall ==
    /\ \/ bdPlay = "venv" /\ BdRunBounded("install")
       \/ bdPlay = "install" /\ BdRunBounded("import")
       \/ bdPlay = "import" /\ BdRunBounded("hash")
    /\ UNCHANGED <<bdHeld, bdRuns, bdRan>>

\* _run_pinned_native and run_pinned_native: open and hash.
BdHash ==
    /\ bdPlay = "hash"
    /\ IF BdPinHolds(bdFiles, bdPins, 2)
       THEN bdHeld' = bdFiles[2] /\ BdAct("execute")
       ELSE bdHeld' = bdHeld /\ BdAct("raised")
    /\ UNCHANGED <<bdRuns, bdRan>>

\* A slip: the file is executed by its path.
BdExecutedByPath == IF 2 \in DOMAIN bdFiles THEN bdFiles[2] ELSE bdHeld

\* /proc/self/fd of the descriptor that was hashed.
BdExecuted == bdHeld

\* Capabilities, the differential fixture, the one-execution run: each must
\* answer as the bundle says.
BdExecute ==
    /\ bdPlay = "execute"
    /\ bdRan' = bdRan \cup {BdExecuted} /\ bdRuns' = bdRuns - 1
    /\ BdRunBounded(IF bdRuns = 1 THEN "rollback" ELSE "hash")
    /\ UNCHANGED bdHeld

\* The installed command with outctl disabled must capture nothing.
BdRollback ==
    /\ bdPlay = "rollback"
    /\ \E answer \in [passed : BOOLEAN, captures : 0..1] :
           IF answer.passed /\ answer.captures = 0
           THEN BdRunBounded("passed") ELSE BdAct("raised")
    /\ UNCHANGED <<bdHeld, bdRuns, bdRan>>

BdReturned ==
    /\ \A b \in BdBuilders : bdPc[b] \in {"returned", "raised", "killed"}
    /\ UNCHANGED bdVars

BdNext ==
    \/ \E i \in BdInputs : BdRewrite(i)
    \/ \E b \in BdBuilders : \/ BdPrepare(b) \/ BdOpen(b) \/ BdCopy(b) \/ BdReadWheel(b)
                             \/ BdProbe(b) \/ BdManifest(b) \/ BdPublish(b) \/ BdKilled(b)
    \/ BdDrift \/ BdRehearse \/ BdReread \/ BdInstall \/ BdHash \/ BdExecute
    \/ BdRollback \/ BdReturned

BdSpec == BdInit /\ [][BdNext]_bdVars

-----------------------------------------------------------------------------
(* What build_bundle published (build_bundle, _publish_noreplace): a        *)
(* builder that returned owns the destination, whose manifest lists every   *)
(* artifact, each copied whole while the build tree was being rewritten,    *)
(* with one engine over all host classes and within the byte bound.         *)
PublishedBundleIsWhole ==
    /\ \A b \in BdBuilders : bdPc[b] = "returned" => bdDest = b
    /\ bdDest # "none" => /\ DOMAIN bdPins = BdPinned
                          /\ BdTorn \notin Range(bdPins)
                          /\ \A i \in BdNatives : /\ bdPins[i] = bdPins[2]
                                                  /\ bdPins[BdDocument(i)] = bdPins[i]
                          /\ BdTotal(bdPins) <= BdMaxTotal

(* However the bundle is swapped under it, the rehearsal executes no native *)
(* artifact but the one the manifest pins (_run_pinned_native).             *)
RehearsalRunsThePinned == bdRan \subseteq {bdPins[i] : i \in DOMAIN bdPins \cap {2}}

=============================================================================
