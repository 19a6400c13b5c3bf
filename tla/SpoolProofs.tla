---------------------------- MODULE SpoolProofs ----------------------------
(***************************************************************************)
(* One capture's directory for any number of recoveries, failed steps and  *)
(* power losses.  The invariant never mentions the lease: what keeps       *)
(* evidence honest is exclusive creation, the order of the syncs, and the  *)
(* rename that replaces nothing.                                           *)
(***************************************************************************)
EXTENDS Spool, TLAPS

Starting == {"lease", "lock", "unlock", "inspect", "files", "run", "check", "create"}
Renamed == {"parentsync", "publish", "pubsync", "index"}
Finalizing == {"sidecar", "scsync", "partsync", "rename"} \cup Renamed

Labels == Incompleting \cup Publishing \cup Resting \cup
          {"lease", "lock", "files", "run", "sidecar", "scsync", "partsync",
           "rename", "parentsync", "index", "unlock", "inspect", "rebuild", "append"}

\* The directory as it is on the disk, and what the drain left.
FileInv ==
    /\ disk.names \subseteq live.names
    /\ pc["capture"] = "mkdir" =>
        /\ live.dir = "none" /\ live.names = {}
        /\ \A r \in Recoverers : pc[r] \in {"idle", "rebuild", "append"}
    /\ foreign => live.dir # "captures" /\ disk.dir # "captures"
    /\ pc["capture"] \in {"mkdir", "lease", "lock", "files", "run", "check"} =>
           outcome = "none"
    /\ outcome \in {"COMPLETE", "TRUNCATED"} => "raw" \in synced /\ raw = "final"

\* One writer at a time, and a directory leaves partial/ only under a
\* finalized manifest.
ManifestInv ==
    /\ \A a \in Actors :
        /\ pc[a] = "fill" => live.dir = "partial" /\ Has("manifest") /\ manifest = "torn"
        /\ \A b \in Actors : pc[a] = "fill" /\ pc[b] = "fill" => a = b
        /\ pc[a] = "msync" => Has("manifest") /\ manifest = Status(a)
        /\ pc[a] \in Starting /\ live.dir # "partial" =>
               live.dir = "captures" /\ Has("manifest") /\ manifest \in Finalized
        /\ pc[a] \in Finalizing => Has("manifest") /\ manifest \in Finalized
    /\ pc["capture"] \in Finalizing => "manifest" \in synced
    /\ NothingInvented

\* A sidecar is written once, over a synced manifest.
SidecarInv ==
    /\ Has("sidecar") => v2
    /\ pc["capture"] \in {"mkdir", "lease", "lock", "files", "run", "check",
                          "create", "fill", "msync", "sidecar"} => ~Has("sidecar")
    /\ pc["capture"] \in {"sidecar", "scsync", "publish", "pubsync", "index"} => v2
    /\ pc["capture"] \in {"scsync", "partsync", "rename"} \cup Renamed /\ v2 =>
           Has("sidecar")
    /\ Has("sidecar") /\ Has("manifest") /\ manifest \in Finalized =>
           "manifest" \in synced
    /\ \A r \in Recoverers :
           pc[r] \in {"rename"} \cup Renamed /\ saw[r] => Has("sidecar")

\* A publication is written in captures/, after the parent was synced.
PlaceInv ==
    /\ \A a \in Actors :
        /\ pc[a] \in Renamed => live.dir = "captures"
        /\ pc[a] \in Renamed \ {"parentsync"} => disk.dir = "captures"
        /\ pc[a] \in Publishing => Publishes(a)
        /\ pc[a] = "pubsync" => Has("publication")
    /\ disk.dir = "captures" => live.dir = "captures"
    /\ Has("publication") => disk.dir = "captures"

\* What is promised is on the disk.
KeptInv ==
    /\ pc["capture"] \in {"run", "check", "create", "fill", "msync"} \cup Finalizing =>
           Has("raw")
    /\ pc["capture"] \in {"rename"} \cup Renamed => {"raw", "manifest"} \subseteq disk.names
    /\ \A a \in Actors :
        /\ pc[a] \in Finalizing => Has("raw")
        /\ pc[a] = "index" /\ Publishes(a) =>
               {"raw", "manifest", "publication"} \subseteq disk.names
    /\ promised =>
        /\ live.dir = "captures" /\ disk.dir = "captures"
        /\ {"raw", "manifest"} \subseteq disk.names
        /\ manifest \in Finalized /\ "manifest" \in synced
        /\ v2 => "publication" \in disk.names

IInv == TypeOK /\ FileInv /\ ManifestInv /\ SidecarInv /\ PlaceInv /\ KeptInv

\* What a step other than a power loss does to the files ...
OnlyAdds ==
    losses' = losses =>
        /\ live.dir = "captures" => live'.dir = "captures"
        /\ live.names \subseteq live'.names
        /\ Has("manifest") /\ manifest # "torn" => manifest' = manifest

\* ... and what any step does to evidence nobody is about to publish.
Unlisted == "publication" \notin live'.names /\ (index' => index)

-----------------------------------------------------------------------------
(* Whether a file is there is a Boolean, in a form the provers compare.    *)
LEMMA HasType == Has("sidecar") \in BOOLEAN
BY Z3 DEF Has

(* Every step keeps the types.                                             *)
LEMMA TypeStep ==
    ASSUME TypeOK, [Next]_vars
    PROVE  TypeOK'
<1> USE SpoolBounds
    DEF Actors, fs, fixed, bounds, Names, Finalized, Incomplete, Reports,
        Incompleting, Publishing, Resting, Status, TypeOK
<1>1. CASE Mkdir
  BY <1>1 DEF Mkdir, Goto
<1>2. CASE CreateLease
  BY <1>2 DEF CreateLease, Goto
<1>3. CASE LockLease
  <2>1. pc' \in [Actors -> Labels]
    <3>1. PICK l \in {"files", "stopped"} : pc' = [pc EXCEPT !["capture"] = l]
      BY <1>3 DEF LockLease, Goto, EndCapture
    <3> QED
      BY <3>1 DEF Labels
  <2>2. lease' \in {"absent", "free"} \cup Actors
    BY <1>3 DEF LockLease, Goto, EndCapture
  <2> QED
    BY <1>3, <2>1, <2>2 DEF LockLease, Labels
<1>4. CASE CreateFiles
  BY <1>4 DEF CreateFiles, Goto, Create
<1>5. CASE CommandDrained
  BY <1>5 DEF CommandDrained, Goto
<1>6. CASE CommandGivenUp
  BY <1>6 DEF CommandGivenUp, Goto
<1>7. CASE WriteSidecar
  BY <1>7 DEF WriteSidecar, Goto, Create
<1>8. CASE SyncPartial
  BY <1>8 DEF SyncPartial, Goto, SyncNames
<1>9. ASSUME NEW a \in Actors, CheckManifest(a) PROVE TypeOK'
  BY <1>9 DEF CheckManifest, Goto
<1>10. ASSUME NEW a \in Actors, CreateManifest(a) PROVE TypeOK'
  BY <1>10 DEF CreateManifest, Goto, Conclude, EndCapture, EndRecord, Create
<1>11. ASSUME NEW a \in Actors, FillManifest(a) PROVE TypeOK'
  BY <1>11 DEF FillManifest, Goto
<1>12. ASSUME NEW a \in Actors, SyncManifest(a) PROVE TypeOK'
  BY <1>12 DEF SyncManifest, Goto
<1>13. ASSUME NEW a \in Actors, WriteMarker(a) PROVE TypeOK'
  BY <1>13 DEF WriteMarker, Goto, Create
<1>14. ASSUME NEW a \in Actors, SyncMarked(a) PROVE TypeOK'
  BY <1>14 DEF SyncMarked, Goto, Conclude, EndCapture, EndRecord, SyncNames
<1>15. ASSUME NEW a \in Actors, Rename(a) PROVE TypeOK'
  BY <1>15 DEF Rename, Goto, Conclude, EndCapture, EndRecord
<1>16. ASSUME NEW a \in Actors, SyncParent(a) PROVE TypeOK'
  <2>1. pc' \in [Actors -> Labels]
    BY <1>16 DEF SyncParent, Goto, EndCapture, Labels
  <2>2. lease' \in {"absent", "free"} \cup Actors
    BY <1>16 DEF SyncParent, Goto, EndCapture
  <2>3. promised' \in BOOLEAN
    BY <1>16 DEF SyncParent, Goto, EndCapture
  <2> QED
    BY <1>16, <2>1, <2>2, <2>3 DEF SyncParent, Labels
<1>17. ASSUME NEW a \in Actors, WritePublication(a) PROVE TypeOK'
  BY <1>17 DEF WritePublication, Goto, Create
<1>18. ASSUME NEW a \in Actors, SyncPublication(a) PROVE TypeOK'
  BY <1>18 DEF SyncPublication, Goto, SyncNames
<1>19. ASSUME NEW a \in Actors, WriteIndex(a) PROVE TypeOK'
  <2>1. pc' \in [Actors -> Labels]
    <3>1. PICK l \in {"ok", "rebuild"} : pc' = [pc EXCEPT ![a] = l]
      BY <1>19 DEF WriteIndex, Goto, EndCapture, EndRecord
    <3> QED
      BY <3>1 DEF Labels
  <2>2. lease' \in {"absent", "free"} \cup Actors
    BY <1>19 DEF WriteIndex, Goto, EndCapture, EndRecord
  <2>3. report' \in [Recoverers -> Reports]
    BY <1>19 DEF WriteIndex, Goto, EndCapture, EndRecord
  <2>4. index' \in BOOLEAN /\ promised' \in BOOLEAN
    BY <1>19 DEF WriteIndex, Goto, EndCapture, EndRecord
  <2> QED
    BY <1>19, <2>1, <2>2, <2>3, <2>4 DEF WriteIndex, Labels
<1>20. ASSUME NEW a \in Actors, Stop(a) PROVE TypeOK'
  <2>1. pc' \in [Actors -> Labels]
    <3>1. PICK l \in {"stopped", "idle"} : pc' = [pc EXCEPT ![a] = l]
      BY <1>20 DEF Stop, Goto, Leave
    <3> QED
      BY <3>1 DEF Labels
  <2>2. lease' \in {"absent", "free"} \cup Actors
    BY <1>20 DEF Stop
  <2>3. report' \in [Recoverers -> Reports]
    BY <1>20 DEF Stop, Goto, Leave
  <2>4. stops' \in 0..MaxStops
    BY <1>20 DEF Stop
  <2> QED
    BY <1>20, <2>1, <2>2, <2>3, <2>4 DEF Stop, Labels
<1>21. ASSUME NEW r \in Recoverers, Scan(r) PROVE TypeOK'
  BY <1>21 DEF Scan, Goto
<1>22. ASSUME NEW r \in Recoverers, TryLease(r) PROVE TypeOK'
  <2>1. pc' \in [Actors -> Labels]
    <3>1. PICK l \in {"inspect", "unlock", "rebuild"} : pc' = [pc EXCEPT ![r] = l]
      BY <1>22 DEF TryLease, Goto, EndRecord
    <3> QED
      BY <3>1 DEF Labels
  <2>2. lease' \in {"absent", "free"} \cup Actors
    BY <1>22 DEF TryLease
  <2>3. report' \in [Recoverers -> Reports]
    BY <1>22 DEF TryLease, EndRecord
  <2> QED
    BY <1>22, <2>1, <2>2, <2>3 DEF TryLease, Labels
<1>23. ASSUME NEW r \in Recoverers, DropLease(r) PROVE TypeOK'
  BY <1>23 DEF DropLease, Goto
<1>24. ASSUME NEW r \in Recoverers, InspectPartial(r) PROVE TypeOK'
  <2>1. pc' \in [Actors -> Labels]
    <3>1. PICK l \in {"check", "rebuild", "rename"} : pc' = [pc EXCEPT ![r] = l]
      BY <1>24 DEF InspectPartial, Goto, EndRecord
    <3> QED
      BY <3>1 DEF Labels
  <2>2. report' \in [Recoverers -> Reports]
    BY <1>24 DEF InspectPartial, Goto, EndRecord
  <2>3. saw' \in [Recoverers -> BOOLEAN]
    <3>1. saw' = saw \/ saw' = [saw EXCEPT ![r] = Has("sidecar")]
      BY <1>24 DEF InspectPartial
    <3> HIDE DEF Has
    <3> QED
      BY <3>1, HasType
  <2> QED
    BY <1>24, <2>1, <2>2, <2>3 DEF InspectPartial, Labels
<1>25. ASSUME NEW r \in Recoverers, Rebuild(r) PROVE TypeOK'
  BY <1>25 DEF Rebuild, Goto, Readable
<1>26. ASSUME NEW r \in Recoverers, AppendUncommitted(r) PROVE TypeOK'
  <2>1. pc' \in [Actors -> Labels]
    <3>1. pc' = pc \/ pc' = [pc EXCEPT ![r] = "idle"]
      BY <1>26 DEF AppendUncommitted, Goto, Leave
    <3> QED
      BY <3>1 DEF Labels
  <2>2. report' \in [Recoverers -> Reports]
    BY <1>26 DEF AppendUncommitted, Goto, Leave
  <2> QED
    BY <1>26, <2>1, <2>2 DEF AppendUncommitted, Labels
<1>27. ASSUME NEW r \in Recoverers, RecordError(r) PROVE TypeOK'
  <2>1. pc' \in [Actors -> Labels]
    <3>1. PICK l \in {"rebuild"} : pc' = [pc EXCEPT ![r] = l]
      BY <1>27 DEF RecordError, Goto, EndRecord
    <3> QED
      BY <3>1 DEF Labels
  <2>2. report' \in [Recoverers -> Reports]
    BY <1>27 DEF RecordError, Goto, EndRecord
  <2>3. stops' \in 0..MaxStops
    BY <1>27 DEF RecordError
  <2> QED
    BY <1>27, <2>1, <2>2, <2>3 DEF RecordError, Labels
<1>28. CASE PowerLoss
  <2>1. pc' \in [Actors -> Labels]
    BY <1>28 DEF PowerLoss, Labels
  <2>2. lease' \in {"absent", "free"} \cup Actors
    BY <1>28 DEF PowerLoss
  <2>3. report' \in [Recoverers -> Reports]
    BY <1>28 DEF PowerLoss
  <2>4. /\ live' \in [dir : {"none", "partial", "captures"}, names : SUBSET Names]
        /\ disk' = live'
    BY <1>28 DEF PowerLoss
  <2>5. raw' \in {raw, "torn"} /\ manifest' \in {manifest, "torn"}
    BY <1>28 DEF PowerLoss
  <2>6. index' \in BOOLEAN
    BY <1>28 DEF PowerLoss
  <2>7. losses' \in 0..MaxLosses
    BY <1>28 DEF PowerLoss
  <2>8. /\ synced' = {"raw", "manifest"}
        /\ UNCHANGED <<v2, foreign, outcome, saw, promised, stops>>
    BY <1>28 DEF PowerLoss
  <2> QED
    BY <2>1, <2>2, <2>3, <2>4, <2>5, <2>6, <2>7, <2>8 DEF Labels
<1>29. CASE UNCHANGED vars
  BY <1>29 DEF vars
<1> QED
  BY <1>1, <1>2, <1>3, <1>4, <1>5, <1>6, <1>7, <1>8, <1>9, <1>10,
     <1>11, <1>12, <1>13, <1>14, <1>15, <1>16, <1>17, <1>18, <1>19, <1>20,
     <1>21, <1>22, <1>23, <1>24, <1>25, <1>26, <1>27, <1>28, <1>29
  DEF Next, CaptureStep, SharedStep, RecoverStep

(* Files are only added, and the drain decides once.                       *)
LEMMA FileStep ==
    ASSUME TypeOK, FileInv, [Next]_vars
    PROVE  FileInv'
<1> USE SpoolBounds
    DEF Actors, fs, fixed, bounds, Has, TypeOK, FileInv
<1>1. CASE Mkdir
  BY <1>1 DEF Mkdir, Goto
<1>2. CASE CreateLease
  BY <1>2 DEF CreateLease, Goto
<1>3. CASE LockLease
  BY <1>3 DEF LockLease, Goto, EndCapture
<1>4. CASE CreateFiles
  BY <1>4 DEF CreateFiles, Goto, Create
<1>5. CASE CommandDrained
  BY <1>5 DEF CommandDrained, Goto
<1>6. CASE CommandGivenUp
  BY <1>6 DEF CommandGivenUp, Goto
<1>7. CASE WriteSidecar
  BY <1>7 DEF WriteSidecar, Goto, Create
<1>8. CASE SyncPartial
  BY <1>8 DEF SyncPartial, Goto, SyncNames
<1>9. ASSUME NEW a \in Actors, CheckManifest(a) PROVE FileInv'
  BY <1>9 DEF CheckManifest, Goto
<1>10. ASSUME NEW a \in Actors, CreateManifest(a) PROVE FileInv'
  BY <1>10 DEF CreateManifest, Goto, Conclude, EndCapture, EndRecord, Create
<1>11. ASSUME NEW a \in Actors, FillManifest(a) PROVE FileInv'
  BY <1>11 DEF FillManifest, Goto
<1>12. ASSUME NEW a \in Actors, SyncManifest(a) PROVE FileInv'
  BY <1>12 DEF SyncManifest, Goto
<1>13. ASSUME NEW a \in Actors, WriteMarker(a) PROVE FileInv'
  BY <1>13 DEF WriteMarker, Goto, Create
<1>14. ASSUME NEW a \in Actors, SyncMarked(a) PROVE FileInv'
  BY <1>14 DEF SyncMarked, Goto, Conclude, EndCapture, EndRecord, SyncNames
<1>15. ASSUME NEW a \in Actors, Rename(a) PROVE FileInv'
  BY <1>15 DEF Rename, Goto, Conclude, EndCapture, EndRecord
<1>16. ASSUME NEW a \in Actors, SyncParent(a) PROVE FileInv'
  BY <1>16 DEF SyncParent, Goto, EndCapture
<1>17. ASSUME NEW a \in Actors, WritePublication(a) PROVE FileInv'
  BY <1>17 DEF WritePublication, Goto, Create
<1>18. ASSUME NEW a \in Actors, SyncPublication(a) PROVE FileInv'
  BY <1>18 DEF SyncPublication, Goto, SyncNames
<1>19. ASSUME NEW a \in Actors, WriteIndex(a) PROVE FileInv'
  BY <1>19 DEF WriteIndex, Goto, EndCapture, EndRecord
<1>20. ASSUME NEW a \in Actors, Stop(a) PROVE FileInv'
  <2>1. UNCHANGED <<live, disk, foreign, outcome, synced, raw>>
    BY <1>20 DEF Stop
  <2>2. CASE a = "capture" /\ pc' = [pc EXCEPT ![a] = "stopped"]
    BY <2>1, <2>2
  <2>3. CASE a \in Recoverers /\ pc' = [pc EXCEPT ![a] = "idle"]
    BY <2>1, <2>3
  <2> QED
    BY <1>20, <2>2, <2>3 DEF Stop, Goto, Leave
<1>21. ASSUME NEW r \in Recoverers, Scan(r) PROVE FileInv'
  BY <1>21 DEF Scan, Goto
<1>22. ASSUME NEW r \in Recoverers, TryLease(r) PROVE FileInv'
  BY <1>22 DEF TryLease, Goto, EndRecord
<1>23. ASSUME NEW r \in Recoverers, DropLease(r) PROVE FileInv'
  BY <1>23 DEF DropLease, Goto
<1>24. ASSUME NEW r \in Recoverers, InspectPartial(r) PROVE FileInv'
  BY <1>24 DEF InspectPartial, Goto, EndRecord, BundleReads, ArtifactsMatch
<1>25. ASSUME NEW r \in Recoverers, Rebuild(r) PROVE FileInv'
  BY <1>25 DEF Rebuild, Goto, Readable
<1>26. ASSUME NEW r \in Recoverers, AppendUncommitted(r) PROVE FileInv'
  <2>1. \A b \in Actors : pc'[b] = pc[b] \/ (b = r /\ pc'[b] = "idle")
    BY <1>26 DEF AppendUncommitted, Goto, Leave
  <2> QED
    BY <1>26, <2>1 DEF AppendUncommitted
<1>27. ASSUME NEW r \in Recoverers, RecordError(r) PROVE FileInv'
  BY <1>27 DEF RecordError, Goto, EndRecord
<1>28. CASE PowerLoss
  BY <1>28 DEF PowerLoss
<1>29. CASE UNCHANGED vars
  BY <1>29 DEF vars
<1> QED
  BY <1>1, <1>2, <1>3, <1>4, <1>5, <1>6, <1>7, <1>8, <1>9, <1>10,
     <1>11, <1>12, <1>13, <1>14, <1>15, <1>16, <1>17, <1>18, <1>19, <1>20,
     <1>21, <1>22, <1>23, <1>24, <1>25, <1>26, <1>27, <1>28, <1>29
  DEF Next, CaptureStep, SharedStep, RecoverStep

(* The manifest has one writer, and a finalized one comes from the drain.  *)
LEMMA ManifestStep ==
    ASSUME TypeOK, FileInv, ManifestInv, PlaceInv, [Next]_vars
    PROVE  ManifestInv'
<1> USE SpoolBounds
    DEF Actors, fs, fixed, bounds, Has, TypeOK, Finalized, Incomplete, Starting,
        Finalizing, Renamed, Status, FileInv, ManifestInv,
        PlaceInv, NothingInvented
<1>1. CASE Mkdir
  BY <1>1 DEF Mkdir, Goto
<1>2. CASE CreateLease
  BY <1>2 DEF CreateLease, Goto
<1>3. CASE LockLease
  BY <1>3 DEF LockLease, Goto, EndCapture
<1>4. CASE CreateFiles
  BY <1>4 DEF CreateFiles, Goto, Create
<1>5. CASE CommandDrained
  BY <1>5 DEF CommandDrained, Goto
<1>6. CASE CommandGivenUp
  BY <1>6 DEF CommandGivenUp, Goto
<1>7. CASE WriteSidecar
  BY <1>7 DEF WriteSidecar, Goto, Create
<1>8. CASE SyncPartial
  BY <1>8 DEF SyncPartial, Goto, SyncNames
<1>9. ASSUME NEW a \in Actors, CheckManifest(a) PROVE ManifestInv'
  BY <1>9 DEF CheckManifest, Goto
<1>10. ASSUME NEW a \in Actors, CreateManifest(a) PROVE ManifestInv'
  BY <1>10 DEF CreateManifest, Goto, Conclude, EndCapture, EndRecord, Create
<1>11. ASSUME NEW a \in Actors, FillManifest(a) PROVE ManifestInv'
  BY <1>11 DEF FillManifest, Goto
<1>12. ASSUME NEW a \in Actors, SyncManifest(a) PROVE ManifestInv'
  BY <1>12 DEF SyncManifest, Goto
<1>13. ASSUME NEW a \in Actors, WriteMarker(a) PROVE ManifestInv'
  BY <1>13 DEF WriteMarker, Goto, Create
<1>14. ASSUME NEW a \in Actors, SyncMarked(a) PROVE ManifestInv'
  BY <1>14 DEF SyncMarked, Goto, Conclude, EndCapture, EndRecord, SyncNames
<1>15. ASSUME NEW a \in Actors, Rename(a) PROVE ManifestInv'
  BY <1>15 DEF Rename, Goto, Conclude, EndCapture, EndRecord
<1>16. ASSUME NEW a \in Actors, SyncParent(a) PROVE ManifestInv'
  BY <1>16 DEF SyncParent, Goto, EndCapture
<1>17. ASSUME NEW a \in Actors, WritePublication(a) PROVE ManifestInv'
  BY <1>17 DEF WritePublication, Goto, Create
<1>18. ASSUME NEW a \in Actors, SyncPublication(a) PROVE ManifestInv'
  BY <1>18 DEF SyncPublication, Goto, SyncNames
<1>19. ASSUME NEW a \in Actors, WriteIndex(a) PROVE ManifestInv'
  BY <1>19 DEF WriteIndex, Goto, EndCapture, EndRecord
<1>20. ASSUME NEW a \in Actors, Stop(a) PROVE ManifestInv'
  BY <1>20 DEF Stop, Goto, Leave
<1>21. ASSUME NEW r \in Recoverers, Scan(r) PROVE ManifestInv'
  BY <1>21 DEF Scan, Goto
<1>22. ASSUME NEW r \in Recoverers, TryLease(r) PROVE ManifestInv'
  BY <1>22 DEF TryLease, Goto, EndRecord
<1>23. ASSUME NEW r \in Recoverers, DropLease(r) PROVE ManifestInv'
  BY <1>23 DEF DropLease, Goto
<1>24. ASSUME NEW r \in Recoverers, InspectPartial(r) PROVE ManifestInv'
  BY <1>24 DEF InspectPartial, Goto, EndRecord, BundleReads, ArtifactsMatch
<1>25. ASSUME NEW r \in Recoverers, Rebuild(r) PROVE ManifestInv'
  BY <1>25 DEF Rebuild, Goto, Readable
<1>26. ASSUME NEW r \in Recoverers, AppendUncommitted(r) PROVE ManifestInv'
  BY <1>26 DEF AppendUncommitted, Goto, Leave
<1>27. ASSUME NEW r \in Recoverers, RecordError(r) PROVE ManifestInv'
  BY <1>27 DEF RecordError, Goto, EndRecord
<1>28. CASE PowerLoss
  <2>1. /\ live'.names \subseteq live.names /\ outcome' = outcome
        /\ manifest' \in {manifest, "torn"}
        /\ live'.dir = "captures" => live.dir = "captures" \/ disk.dir = "captures"
    BY <1>28 DEF PowerLoss
  <2>2. \A a \in Actors : pc'[a] \in {"idle", "ok", "stopped"}
    BY <1>28 DEF PowerLoss
  <2> QED
    BY <2>1, <2>2
<1>29. CASE UNCHANGED vars
  BY <1>29 DEF vars
<1> QED
  BY <1>1, <1>2, <1>3, <1>4, <1>5, <1>6, <1>7, <1>8, <1>9, <1>10,
     <1>11, <1>12, <1>13, <1>14, <1>15, <1>16, <1>17, <1>18, <1>19, <1>20,
     <1>21, <1>22, <1>23, <1>24, <1>25, <1>26, <1>27, <1>28, <1>29
  DEF Next, CaptureStep, SharedStep, RecoverStep

(* The sidecar follows the synced manifest.                                *)
LEMMA SidecarStep ==
    ASSUME TypeOK, FileInv, ManifestInv, SidecarInv, [Next]_vars
    PROVE  SidecarInv'
<1> USE SpoolBounds
    DEF Actors, fs, fixed, bounds, Has, TypeOK, Finalized, Incomplete, Starting,
        Finalizing, Renamed, Status, FileInv, ManifestInv,
        SidecarInv
<1>1. CASE Mkdir
  BY <1>1 DEF Mkdir, Goto
<1>2. CASE CreateLease
  BY <1>2 DEF CreateLease, Goto
<1>3. CASE LockLease
  BY <1>3 DEF LockLease, Goto, EndCapture
<1>4. CASE CreateFiles
  BY <1>4 DEF CreateFiles, Goto, Create
<1>5. CASE CommandDrained
  BY <1>5 DEF CommandDrained, Goto
<1>6. CASE CommandGivenUp
  BY <1>6 DEF CommandGivenUp, Goto
<1>7. CASE WriteSidecar
  BY <1>7 DEF WriteSidecar, Goto, Create
<1>8. CASE SyncPartial
  BY <1>8 DEF SyncPartial, Goto, SyncNames
<1>9. ASSUME NEW a \in Actors, CheckManifest(a) PROVE SidecarInv'
  BY <1>9 DEF CheckManifest, Goto
<1>10. ASSUME NEW a \in Actors, CreateManifest(a) PROVE SidecarInv'
  BY <1>10 DEF CreateManifest, Goto, Conclude, EndCapture, EndRecord, Create
<1>11. ASSUME NEW a \in Actors, FillManifest(a) PROVE SidecarInv'
  BY <1>11 DEF FillManifest, Goto
<1>12. ASSUME NEW a \in Actors, SyncManifest(a) PROVE SidecarInv'
  BY <1>12 DEF SyncManifest, Goto
<1>13. ASSUME NEW a \in Actors, WriteMarker(a) PROVE SidecarInv'
  BY <1>13 DEF WriteMarker, Goto, Create
<1>14. ASSUME NEW a \in Actors, SyncMarked(a) PROVE SidecarInv'
  BY <1>14 DEF SyncMarked, Goto, Conclude, EndCapture, EndRecord, SyncNames
<1>15. ASSUME NEW a \in Actors, Rename(a) PROVE SidecarInv'
  BY <1>15 DEF Rename, Goto, Conclude, EndCapture, EndRecord
<1>16. ASSUME NEW a \in Actors, SyncParent(a) PROVE SidecarInv'
  BY <1>16 DEF SyncParent, Goto, EndCapture
<1>17. ASSUME NEW a \in Actors, WritePublication(a) PROVE SidecarInv'
  BY <1>17 DEF WritePublication, Goto, Create
<1>18. ASSUME NEW a \in Actors, SyncPublication(a) PROVE SidecarInv'
  BY <1>18 DEF SyncPublication, Goto, SyncNames
<1>19. ASSUME NEW a \in Actors, WriteIndex(a) PROVE SidecarInv'
  BY <1>19 DEF WriteIndex, Goto, EndCapture, EndRecord
<1>20. ASSUME NEW a \in Actors, Stop(a) PROVE SidecarInv'
  BY <1>20 DEF Stop, Goto, Leave
<1>21. ASSUME NEW r \in Recoverers, Scan(r) PROVE SidecarInv'
  BY <1>21 DEF Scan, Goto
<1>22. ASSUME NEW r \in Recoverers, TryLease(r) PROVE SidecarInv'
  BY <1>22 DEF TryLease, Goto, EndRecord
<1>23. ASSUME NEW r \in Recoverers, DropLease(r) PROVE SidecarInv'
  BY <1>23 DEF DropLease, Goto
<1>24. ASSUME NEW r \in Recoverers, InspectPartial(r) PROVE SidecarInv'
  <2>1. UNCHANGED <<v2, live, manifest, synced>> /\ pc'["capture"] = pc["capture"]
    BY <1>24 DEF InspectPartial, Goto, EndRecord
  <2>2. \A q \in Recoverers : q # r => pc'[q] = pc[q] /\ saw'[q] = saw[q]
    BY <1>24 DEF InspectPartial, Goto, EndRecord
  <2>3. pc'[r] \in {"check", "rebuild"} \/ saw'[r] = Has("sidecar")
    BY <1>24 DEF InspectPartial, Goto, EndRecord
  <2> QED
    BY <2>1, <2>2, <2>3
<1>25. ASSUME NEW r \in Recoverers, Rebuild(r) PROVE SidecarInv'
  BY <1>25 DEF Rebuild, Goto, Readable
<1>26. ASSUME NEW r \in Recoverers, AppendUncommitted(r) PROVE SidecarInv'
  BY <1>26 DEF AppendUncommitted, Goto, Leave
<1>27. ASSUME NEW r \in Recoverers, RecordError(r) PROVE SidecarInv'
  BY <1>27 DEF RecordError, Goto, EndRecord
<1>28. CASE PowerLoss
  BY <1>28 DEF PowerLoss
<1>29. CASE UNCHANGED vars
  BY <1>29 DEF vars
<1> QED
  BY <1>1, <1>2, <1>3, <1>4, <1>5, <1>6, <1>7, <1>8, <1>9, <1>10,
     <1>11, <1>12, <1>13, <1>14, <1>15, <1>16, <1>17, <1>18, <1>19, <1>20,
     <1>21, <1>22, <1>23, <1>24, <1>25, <1>26, <1>27, <1>28, <1>29
  DEF Next, CaptureStep, SharedStep, RecoverStep

(* The publication follows the synced parent directory.                    *)
LEMMA PlaceStep ==
    ASSUME TypeOK, FileInv, PlaceInv, [Next]_vars
    PROVE  PlaceInv'
<1> USE SpoolBounds
    DEF Actors, fs, fixed, bounds, Has, TypeOK, Finalized, Incomplete, Starting,
        Finalizing, Renamed, Publishing, Publishes,
        FileInv, PlaceInv
<1>1. CASE Mkdir
  BY <1>1 DEF Mkdir, Goto
<1>2. CASE CreateLease
  BY <1>2 DEF CreateLease, Goto
<1>3. CASE LockLease
  BY <1>3 DEF LockLease, Goto, EndCapture
<1>4. CASE CreateFiles
  BY <1>4 DEF CreateFiles, Goto, Create
<1>5. CASE CommandDrained
  BY <1>5 DEF CommandDrained, Goto
<1>6. CASE CommandGivenUp
  BY <1>6 DEF CommandGivenUp, Goto
<1>7. CASE WriteSidecar
  BY <1>7 DEF WriteSidecar, Goto, Create
<1>8. CASE SyncPartial
  BY <1>8 DEF SyncPartial, Goto, SyncNames
<1>9. ASSUME NEW a \in Actors, CheckManifest(a) PROVE PlaceInv'
  BY <1>9 DEF CheckManifest, Goto
<1>10. ASSUME NEW a \in Actors, CreateManifest(a) PROVE PlaceInv'
  BY <1>10 DEF CreateManifest, Goto, Conclude, EndCapture, EndRecord, Create
<1>11. ASSUME NEW a \in Actors, FillManifest(a) PROVE PlaceInv'
  BY <1>11 DEF FillManifest, Goto
<1>12. ASSUME NEW a \in Actors, SyncManifest(a) PROVE PlaceInv'
  BY <1>12 DEF SyncManifest, Goto
<1>13. ASSUME NEW a \in Actors, WriteMarker(a) PROVE PlaceInv'
  BY <1>13 DEF WriteMarker, Goto, Create
<1>14. ASSUME NEW a \in Actors, SyncMarked(a) PROVE PlaceInv'
  BY <1>14 DEF SyncMarked, Goto, Conclude, EndCapture, EndRecord, SyncNames
<1>15. ASSUME NEW a \in Actors, Rename(a) PROVE PlaceInv'
  BY <1>15 DEF Rename, Goto, Conclude, EndCapture, EndRecord
<1>16. ASSUME NEW a \in Actors, SyncParent(a) PROVE PlaceInv'
  BY <1>16 DEF SyncParent, Goto, EndCapture
<1>17. ASSUME NEW a \in Actors, WritePublication(a) PROVE PlaceInv'
  BY <1>17 DEF WritePublication, Goto, Create
<1>18. ASSUME NEW a \in Actors, SyncPublication(a) PROVE PlaceInv'
  BY <1>18 DEF SyncPublication, Goto, SyncNames
<1>19. ASSUME NEW a \in Actors, WriteIndex(a) PROVE PlaceInv'
  BY <1>19 DEF WriteIndex, Goto, EndCapture, EndRecord
<1>20. ASSUME NEW a \in Actors, Stop(a) PROVE PlaceInv'
  BY <1>20 DEF Stop, Goto, Leave
<1>21. ASSUME NEW r \in Recoverers, Scan(r) PROVE PlaceInv'
  BY <1>21 DEF Scan, Goto
<1>22. ASSUME NEW r \in Recoverers, TryLease(r) PROVE PlaceInv'
  BY <1>22 DEF TryLease, Goto, EndRecord
<1>23. ASSUME NEW r \in Recoverers, DropLease(r) PROVE PlaceInv'
  BY <1>23 DEF DropLease, Goto
<1>24. ASSUME NEW r \in Recoverers, InspectPartial(r) PROVE PlaceInv'
  BY <1>24 DEF InspectPartial, Goto, EndRecord, BundleReads, ArtifactsMatch
<1>25. ASSUME NEW r \in Recoverers, Rebuild(r) PROVE PlaceInv'
  BY <1>25 DEF Rebuild, Goto, Readable
<1>26. ASSUME NEW r \in Recoverers, AppendUncommitted(r) PROVE PlaceInv'
  BY <1>26 DEF AppendUncommitted, Goto, Leave
<1>27. ASSUME NEW r \in Recoverers, RecordError(r) PROVE PlaceInv'
  BY <1>27 DEF RecordError, Goto, EndRecord
<1>28. CASE PowerLoss
  BY <1>28 DEF PowerLoss
<1>29. CASE UNCHANGED vars
  BY <1>29 DEF vars
<1> QED
  BY <1>1, <1>2, <1>3, <1>4, <1>5, <1>6, <1>7, <1>8, <1>9, <1>10,
     <1>11, <1>12, <1>13, <1>14, <1>15, <1>16, <1>17, <1>18, <1>19, <1>20,
     <1>21, <1>22, <1>23, <1>24, <1>25, <1>26, <1>27, <1>28, <1>29
  DEF Next, CaptureStep, SharedStep, RecoverStep

(* What is promised is on the disk.                                        *)
LEMMA KeptStep ==
    ASSUME TypeOK, FileInv, ManifestInv, SidecarInv, PlaceInv, KeptInv, [Next]_vars
    PROVE  KeptInv'
<1> USE SpoolBounds
    DEF Actors, fs, fixed, bounds, Has, TypeOK, Finalized, Incomplete, Starting,
        Finalizing, Renamed, Status, Publishes, FileInv,
        ManifestInv, SidecarInv, PlaceInv, KeptInv
<1>1. CASE Mkdir
  BY <1>1 DEF Mkdir, Goto
<1>2. CASE CreateLease
  BY <1>2 DEF CreateLease, Goto
<1>3. CASE LockLease
  BY <1>3 DEF LockLease, Goto, EndCapture
<1>4. CASE CreateFiles
  BY <1>4 DEF CreateFiles, Goto, Create
<1>5. CASE CommandDrained
  BY <1>5 DEF CommandDrained, Goto
<1>6. CASE CommandGivenUp
  BY <1>6 DEF CommandGivenUp, Goto
<1>7. CASE WriteSidecar
  BY <1>7 DEF WriteSidecar, Goto, Create
<1>8. CASE SyncPartial
  BY <1>8 DEF SyncPartial, Goto, SyncNames
<1>9. ASSUME NEW a \in Actors, CheckManifest(a) PROVE KeptInv'
  BY <1>9 DEF CheckManifest, Goto
<1>10. ASSUME NEW a \in Actors, CreateManifest(a) PROVE KeptInv'
  BY <1>10 DEF CreateManifest, Goto, Conclude, EndCapture, EndRecord, Create
<1>11. ASSUME NEW a \in Actors, FillManifest(a) PROVE KeptInv'
  BY <1>11 DEF FillManifest, Goto
<1>12. ASSUME NEW a \in Actors, SyncManifest(a) PROVE KeptInv'
  BY <1>12 DEF SyncManifest, Goto
<1>13. ASSUME NEW a \in Actors, WriteMarker(a) PROVE KeptInv'
  BY <1>13 DEF WriteMarker, Goto, Create
<1>14. ASSUME NEW a \in Actors, SyncMarked(a) PROVE KeptInv'
  BY <1>14 DEF SyncMarked, Goto, Conclude, EndCapture, EndRecord, SyncNames
<1>15. ASSUME NEW a \in Actors, Rename(a) PROVE KeptInv'
  BY <1>15 DEF Rename, Goto, Conclude, EndCapture, EndRecord
<1>16. ASSUME NEW a \in Actors, SyncParent(a) PROVE KeptInv'
  BY <1>16 DEF SyncParent, Goto, EndCapture
<1>17. ASSUME NEW a \in Actors, WritePublication(a) PROVE KeptInv'
  BY <1>17 DEF WritePublication, Goto, Create
<1>18. ASSUME NEW a \in Actors, SyncPublication(a) PROVE KeptInv'
  BY <1>18 DEF SyncPublication, Goto, SyncNames
<1>19. ASSUME NEW a \in Actors, WriteIndex(a) PROVE KeptInv'
  BY <1>19 DEF WriteIndex, Goto, EndCapture, EndRecord
<1>20. ASSUME NEW a \in Actors, Stop(a) PROVE KeptInv'
  BY <1>20 DEF Stop, Goto, Leave
<1>21. ASSUME NEW r \in Recoverers, Scan(r) PROVE KeptInv'
  BY <1>21 DEF Scan, Goto
<1>22. ASSUME NEW r \in Recoverers, TryLease(r) PROVE KeptInv'
  BY <1>22 DEF TryLease, Goto, EndRecord
<1>23. ASSUME NEW r \in Recoverers, DropLease(r) PROVE KeptInv'
  BY <1>23 DEF DropLease, Goto
<1>24. ASSUME NEW r \in Recoverers, InspectPartial(r) PROVE KeptInv'
  BY <1>24 DEF InspectPartial, Goto, EndRecord, BundleReads, ArtifactsMatch
<1>25. ASSUME NEW r \in Recoverers, Rebuild(r) PROVE KeptInv'
  BY <1>25 DEF Rebuild, Goto, Readable
<1>26. ASSUME NEW r \in Recoverers, AppendUncommitted(r) PROVE KeptInv'
  BY <1>26 DEF AppendUncommitted, Goto, Leave
<1>27. ASSUME NEW r \in Recoverers, RecordError(r) PROVE KeptInv'
  BY <1>27 DEF RecordError, Goto, EndRecord
<1>28. CASE PowerLoss
  BY <1>28 DEF PowerLoss
<1>29. CASE UNCHANGED vars
  BY <1>29 DEF vars
<1> QED
  BY <1>1, <1>2, <1>3, <1>4, <1>5, <1>6, <1>7, <1>8, <1>9, <1>10,
     <1>11, <1>12, <1>13, <1>14, <1>15, <1>16, <1>17, <1>18, <1>19, <1>20,
     <1>21, <1>22, <1>23, <1>24, <1>25, <1>26, <1>27, <1>28, <1>29
  DEF Next, CaptureStep, SharedStep, RecoverStep

(* A capture starts with nothing on the disk.                              *)
LEMMA InitInv == Init => IInv
<1> SUFFICES ASSUME Init PROVE IInv
  OBVIOUS
<1> USE SpoolBounds DEF Init, Actors, Has, Resting
<1>1. TypeOK
  <2>1. pc \in [Actors -> {"mkdir", "idle"}]
    OBVIOUS
  <2>2. /\ saw \in [Recoverers -> BOOLEAN] /\ report \in [Recoverers -> Reports]
        /\ stops \in 0..MaxStops /\ losses \in 0..MaxLosses
    BY DEF Reports
  <2> QED
    BY <2>1, <2>2 DEF TypeOK, Names
<1>2. FileInv
  BY DEF FileInv
<1>3. ManifestInv
  BY DEF ManifestInv, NothingInvented, Starting, Finalizing, Renamed
<1>4. SidecarInv
  BY DEF SidecarInv, Renamed
<1>5. PlaceInv
  BY DEF PlaceInv, Renamed, Publishing
<1>6. KeptInv
  BY DEF KeptInv, Finalizing, Renamed
<1> QED
  BY <1>1, <1>2, <1>3, <1>4, <1>5, <1>6 DEF IInv

(* Every step keeps the invariant.                                         *)
LEMMA StepInv == IInv /\ [Next]_vars => IInv'
BY TypeStep, FileStep, ManifestStep, SidecarStep, PlaceStep, KeptStep DEF IInv

(* The invariant holds, for any number of recoveries, failures and losses. *)
THEOREM Invariance == Spec => []IInv
BY InitInv, StepInv, PTL DEF Spec

(* The state of the capture and its directory is well typed.               *)
THEOREM SpoolTypes == Spec => []TypeOK
BY Invariance, PTL DEF IInv

(* What is promised reads as published and verifies.                       *)
LEMMA PromisedIsKept == IInv => PromisedSurvives
<1> SUFFICES ASSUME IInv, promised
             PROVE  Readable /\ (manifest # "CAPTURE_FAILED" => Verifies)
  BY DEF PromisedSurvives
<1>1. /\ live.dir = "captures" /\ Has("raw") /\ Has("manifest")
      /\ manifest \in Finalized /\ manifest = outcome
      /\ Has("sidecar") => Has("publication")
  BY DEF IInv, KeptInv, FileInv, SidecarInv, ManifestInv, NothingInvented, Has
<1>2. manifest # "CAPTURE_FAILED" => raw = "final"
  BY <1>1 DEF IInv, FileInv, Finalized
<1>3. Readable
  BY <1>1 DEF Readable, BundleReads, Finalized
<1> QED
  BY <1>1, <1>2, <1>3 DEF Verifies, ArtifactsMatch

(* Evidence a capture returned Ok for, or a recovery reported as finalized *)
(* v2 evidence, stays readable as published and verifies.                  *)
THEOREM PromisesAreKept == Spec => []PromisedSurvives
BY PromisedIsKept, Invariance, PTL

(* v2 evidence read_published_manifest_bundle accepts is durable where it  *)
(* lies: the directory's move and the manifest were synced.                *)
THEOREM PublishedEvidenceIsBacked == Spec => []PublishedIsBacked
<1>1. IInv => PublishedIsBacked
  BY DEF IInv, PublishedIsBacked, Readable, BundleReads, PlaceInv, SidecarInv,
     ManifestInv, NothingInvented
<1> QED
  BY <1>1, Invariance, PTL

(* A finalized manifest carries the outcome of the drain, whoever moved    *)
(* the capture, and nothing incomplete gets into captures/.                *)
THEOREM RecoveryInventsNothing == Spec => []NothingInvented
BY Invariance, PTL DEF IInv, ManifestInv

(* rename_entry_noreplace never replaces what is at captures/<id>.         *)
THEOREM RenameReplacesNothing == Spec => []NoReplace
<1>1. IInv => NoReplace
  BY DEF IInv, FileInv, NoReplace
<1> QED
  BY <1>1, Invariance, PTL

(* Short of a power loss, files and manifests are only added.              *)
LEMMA TakesAwayStep ==
    ASSUME TypeOK, FileInv, ManifestInv, [Next]_vars
    PROVE  OnlyAdds
<1> USE SpoolBounds
    DEF Actors, fs, fixed, bounds, Has, TypeOK, Finalized, Incomplete, Starting,
        Finalizing, Renamed, FileInv, ManifestInv, OnlyAdds
<1>1. CASE Mkdir
  BY <1>1 DEF Mkdir, Goto
<1>2. CASE CreateLease
  BY <1>2 DEF CreateLease, Goto
<1>3. CASE LockLease
  BY <1>3 DEF LockLease, Goto, EndCapture
<1>4. CASE CreateFiles
  BY <1>4 DEF CreateFiles, Goto, Create
<1>5. CASE CommandDrained
  BY <1>5 DEF CommandDrained, Goto
<1>6. CASE CommandGivenUp
  BY <1>6 DEF CommandGivenUp, Goto
<1>7. CASE WriteSidecar
  BY <1>7 DEF WriteSidecar, Goto, Create
<1>8. CASE SyncPartial
  BY <1>8 DEF SyncPartial, Goto, SyncNames
<1>9. ASSUME NEW a \in Actors, CheckManifest(a) PROVE OnlyAdds
  BY <1>9 DEF CheckManifest, Goto
<1>10. ASSUME NEW a \in Actors, CreateManifest(a) PROVE OnlyAdds
  BY <1>10 DEF CreateManifest, Goto, Conclude, EndCapture, EndRecord, Create
<1>11. ASSUME NEW a \in Actors, FillManifest(a) PROVE OnlyAdds
  BY <1>11 DEF FillManifest, Goto
<1>12. ASSUME NEW a \in Actors, SyncManifest(a) PROVE OnlyAdds
  BY <1>12 DEF SyncManifest, Goto
<1>13. ASSUME NEW a \in Actors, WriteMarker(a) PROVE OnlyAdds
  BY <1>13 DEF WriteMarker, Goto, Create
<1>14. ASSUME NEW a \in Actors, SyncMarked(a) PROVE OnlyAdds
  BY <1>14 DEF SyncMarked, Goto, Conclude, EndCapture, EndRecord, SyncNames
<1>15. ASSUME NEW a \in Actors, Rename(a) PROVE OnlyAdds
  BY <1>15 DEF Rename, Goto, Conclude, EndCapture, EndRecord
<1>16. ASSUME NEW a \in Actors, SyncParent(a) PROVE OnlyAdds
  BY <1>16 DEF SyncParent, Goto, EndCapture
<1>17. ASSUME NEW a \in Actors, WritePublication(a) PROVE OnlyAdds
  BY <1>17 DEF WritePublication, Goto, Create
<1>18. ASSUME NEW a \in Actors, SyncPublication(a) PROVE OnlyAdds
  BY <1>18 DEF SyncPublication, Goto, SyncNames
<1>19. ASSUME NEW a \in Actors, WriteIndex(a) PROVE OnlyAdds
  BY <1>19 DEF WriteIndex, Goto, EndCapture, EndRecord
<1>20. ASSUME NEW a \in Actors, Stop(a) PROVE OnlyAdds
  BY <1>20 DEF Stop, Goto, Leave
<1>21. ASSUME NEW r \in Recoverers, Scan(r) PROVE OnlyAdds
  BY <1>21 DEF Scan, Goto
<1>22. ASSUME NEW r \in Recoverers, TryLease(r) PROVE OnlyAdds
  BY <1>22 DEF TryLease, Goto, EndRecord
<1>23. ASSUME NEW r \in Recoverers, DropLease(r) PROVE OnlyAdds
  BY <1>23 DEF DropLease, Goto
<1>24. ASSUME NEW r \in Recoverers, InspectPartial(r) PROVE OnlyAdds
  BY <1>24 DEF InspectPartial, Goto, EndRecord, BundleReads, ArtifactsMatch
<1>25. ASSUME NEW r \in Recoverers, Rebuild(r) PROVE OnlyAdds
  BY <1>25 DEF Rebuild, Goto, Readable
<1>26. ASSUME NEW r \in Recoverers, AppendUncommitted(r) PROVE OnlyAdds
  BY <1>26 DEF AppendUncommitted, Goto, Leave
<1>27. ASSUME NEW r \in Recoverers, RecordError(r) PROVE OnlyAdds
  BY <1>27 DEF RecordError, Goto, EndRecord
<1>28. CASE PowerLoss
  BY <1>28 DEF PowerLoss
<1>29. CASE UNCHANGED vars
  BY <1>29 DEF vars
<1> QED
  BY <1>1, <1>2, <1>3, <1>4, <1>5, <1>6, <1>7, <1>8, <1>9, <1>10,
     <1>11, <1>12, <1>13, <1>14, <1>15, <1>16, <1>17, <1>18, <1>19, <1>20,
     <1>21, <1>22, <1>23, <1>24, <1>25, <1>26, <1>27, <1>28, <1>29
  DEF Next, CaptureStep, SharedStep, RecoverStep

(* Nobody publishes what was left unpublished.                             *)
LEMMA UncommittedStep ==
    ASSUME TypeOK, Uncommitted, [Next]_vars
    PROVE  Unlisted
<1> USE SpoolBounds
    DEF Actors, fs, fixed, bounds, Has, TypeOK, Uncommitted, Unlisted
<1>1. CASE Mkdir
  BY <1>1 DEF Mkdir, Goto
<1>2. CASE CreateLease
  BY <1>2 DEF CreateLease, Goto
<1>3. CASE LockLease
  BY <1>3 DEF LockLease, Goto, EndCapture
<1>4. CASE CreateFiles
  BY <1>4 DEF CreateFiles, Goto, Create
<1>5. CASE CommandDrained
  BY <1>5 DEF CommandDrained, Goto
<1>6. CASE CommandGivenUp
  BY <1>6 DEF CommandGivenUp, Goto
<1>7. CASE WriteSidecar
  BY <1>7 DEF WriteSidecar, Goto, Create
<1>8. CASE SyncPartial
  BY <1>8 DEF SyncPartial, Goto, SyncNames
<1>9. ASSUME NEW a \in Actors, CheckManifest(a) PROVE Unlisted
  BY <1>9 DEF CheckManifest, Goto
<1>10. ASSUME NEW a \in Actors, CreateManifest(a) PROVE Unlisted
  BY <1>10 DEF CreateManifest, Goto, Conclude, EndCapture, EndRecord, Create
<1>11. ASSUME NEW a \in Actors, FillManifest(a) PROVE Unlisted
  BY <1>11 DEF FillManifest, Goto
<1>12. ASSUME NEW a \in Actors, SyncManifest(a) PROVE Unlisted
  BY <1>12 DEF SyncManifest, Goto
<1>13. ASSUME NEW a \in Actors, WriteMarker(a) PROVE Unlisted
  BY <1>13 DEF WriteMarker, Goto, Create
<1>14. ASSUME NEW a \in Actors, SyncMarked(a) PROVE Unlisted
  BY <1>14 DEF SyncMarked, Goto, Conclude, EndCapture, EndRecord, SyncNames
<1>15. ASSUME NEW a \in Actors, Rename(a) PROVE Unlisted
  BY <1>15 DEF Rename, Goto, Conclude, EndCapture, EndRecord
<1>16. ASSUME NEW a \in Actors, SyncParent(a) PROVE Unlisted
  BY <1>16 DEF SyncParent, Goto, EndCapture
<1>17. ASSUME NEW a \in Actors, WritePublication(a) PROVE Unlisted
  BY <1>17 DEF WritePublication, Goto, Create
<1>18. ASSUME NEW a \in Actors, SyncPublication(a) PROVE Unlisted
  BY <1>18 DEF SyncPublication, Goto, SyncNames
<1>19. ASSUME NEW a \in Actors, WriteIndex(a) PROVE Unlisted
  BY <1>19 DEF WriteIndex, Goto, EndCapture, EndRecord
<1>20. ASSUME NEW a \in Actors, Stop(a) PROVE Unlisted
  BY <1>20 DEF Stop, Goto, Leave
<1>21. ASSUME NEW r \in Recoverers, Scan(r) PROVE Unlisted
  BY <1>21 DEF Scan, Goto
<1>22. ASSUME NEW r \in Recoverers, TryLease(r) PROVE Unlisted
  BY <1>22 DEF TryLease, Goto, EndRecord
<1>23. ASSUME NEW r \in Recoverers, DropLease(r) PROVE Unlisted
  BY <1>23 DEF DropLease, Goto
<1>24. ASSUME NEW r \in Recoverers, InspectPartial(r) PROVE Unlisted
  BY <1>24 DEF InspectPartial, Goto, EndRecord, BundleReads, ArtifactsMatch
<1>25. ASSUME NEW r \in Recoverers, Rebuild(r) PROVE Unlisted
  BY <1>25 DEF Rebuild, Goto, Readable
<1>26. ASSUME NEW r \in Recoverers, AppendUncommitted(r) PROVE Unlisted
  BY <1>26 DEF AppendUncommitted, Goto, Leave
<1>27. ASSUME NEW r \in Recoverers, RecordError(r) PROVE Unlisted
  BY <1>27 DEF RecordError, Goto, EndRecord
<1>28. CASE PowerLoss
  <2>1. live'.names \subseteq live.names
    BY <1>28 DEF PowerLoss
  <2>2. index' = FALSE \/ index' = index
    BY <1>28 DEF PowerLoss
  <2> QED
    BY <2>1, <2>2
<1>29. CASE UNCHANGED vars
  BY <1>29 DEF vars
<1> QED
  BY <1>1, <1>2, <1>3, <1>4, <1>5, <1>6, <1>7, <1>8, <1>9, <1>10,
     <1>11, <1>12, <1>13, <1>14, <1>15, <1>16, <1>17, <1>18, <1>19, <1>20,
     <1>21, <1>22, <1>23, <1>24, <1>25, <1>26, <1>27, <1>28, <1>29
  DEF Next, CaptureStep, SharedStep, RecoverStep

(* Short of a power loss nothing leaves captures/, no file disappears, and *)
(* a written manifest is not written again.                                *)
THEOREM LossAloneTakesAway == Spec => OnlyLossTakesAway
<1>1. IInv /\ [Next]_vars => OnlyAdds
  BY TakesAwayStep DEF IInv
<1>2. IInv /\ [Next]_vars =>
        [losses' = losses =>
            /\ live.dir = "captures" => live'.dir = "captures"
            /\ live.names \subseteq live'.names
            /\ Has("manifest") /\ manifest # "torn" => manifest' = manifest]_vars
  BY <1>1 DEF OnlyAdds
<1> QED
  BY <1>2, Invariance, PTL DEF Spec, OnlyLossTakesAway

(* Evidence left in captures/ without its publication record is published  *)
(* by no later step and listed by no rebuild of the index.                 *)
THEOREM UncommittedStaysUncommitted == Spec => UncommittedStaysSo
<1>1. IInv /\ [Next]_vars =>
        [Uncommitted => /\ "publication" \notin live'.names
                        /\ index' => index]_vars
  BY UncommittedStep DEF IInv, Unlisted
<1> QED
  BY <1>1, Invariance, PTL DEF Spec, UncommittedStaysSo

-----------------------------------------------------------------------------
(* Publication.                                                            *)

\* What a reader finds is nothing or the outcome, under a free name, and what
\* was promised is found.
KeptInFull ==
    /\ Readable => outcome \in Finalized /\ Kept = outcome /\ ~foreign
    /\ ~Readable => Kept = "nothing"
    /\ promised => Readable

(* The invariant says what a reader finds.                                 *)
LEMMA KeptIsOutcome == IInv => KeptInFull
<1> SUFFICES ASSUME IInv PROVE KeptInFull
  OBVIOUS
<1>1. ASSUME Readable PROVE outcome \in Finalized /\ Kept = outcome /\ ~foreign
  BY <1>1 DEF IInv, TypeOK, FileInv, ManifestInv, NothingInvented, Readable,
              BundleReads, Kept, Incomplete
<1>2. ~Readable => Kept = "nothing"
  BY DEF Kept
<1>3. promised => Readable
  BY PromisedIsKept DEF PromisedSurvives
<1> QED
  BY <1>1, <1>2, <1>3 DEF KeptInFull

(* The drain decides once, a promise is not taken back, and the name is    *)
(* taken or free from the start.                                           *)
LEMMA DecidesOnce ==
    ASSUME IInv, [Next]_vars
    PROVE  /\ foreign' = foreign /\ (promised => promised')
           /\ \/ outcome' = outcome
              \/ /\ outcome = "none" /\ outcome' \in Finalized
                 /\ UNCHANGED <<live, manifest, promised>>
<1>1. CASE CommandDrained
  BY <1>1 DEF CommandDrained, IInv, FileInv, fixed
<1>2. CASE ~CommandDrained
  <2>1. outcome' = outcome /\ foreign' = foreign
    BY <1>2 DEF Next, CaptureStep, SharedStep, RecoverStep, vars, fixed, Mkdir,
       CreateLease, LockLease, CreateFiles, CommandGivenUp, WriteSidecar, SyncPartial,
       CheckManifest, CreateManifest, FillManifest, SyncManifest, WriteMarker,
       SyncMarked, Rename, SyncParent, WritePublication, SyncPublication, WriteIndex,
       Scan, TryLease, DropLease, InspectPartial, Rebuild, AppendUncommitted,
       RecordError, Stop, PowerLoss
  <2>2. promised => promised'
    BY <1>2 DEF Next, CaptureStep, SharedStep, RecoverStep, vars, fixed, Mkdir,
       CreateLease, LockLease, CreateFiles, CommandGivenUp, WriteSidecar, SyncPartial,
       CheckManifest, CreateManifest, FillManifest, SyncManifest, WriteMarker,
       SyncMarked, Rename, SyncParent, WritePublication, SyncPublication, WriteIndex,
       Scan, TryLease, DropLease, InspectPartial, Rebuild, AppendUncommitted,
       RecordError, Stop, PowerLoss
  <2> QED
    BY <2>1, <2>2
<1> QED
  BY <1>1, <1>2

(* Every step of capture, recovery or power is one of Publication, or      *)
(* leaves it alone: evidence appears under a free name with the decided    *)
(* outcome, and once somebody was told of it nothing takes it away.        *)
THEOREM SpoolImplementsPublication == Spec => ImplementsPublication
<1>1. ASSUME Init PROVE Contract!Init
  <2>1. Kept = "nothing"
    BY <1>1 DEF Init, Kept, Readable
  <2> QED
    BY <1>1, <2>1 DEF Init, Contract!Init
<1>2. ASSUME IInv, KeptInFull, IInv', KeptInFull', [Next]_vars
      PROVE  [Contract!Next]_<<foreign, outcome, Kept, promised>>
  <2> USE DEF Contract!Next, Contract!Decide, Contract!Publish, Contract!Tell,
              Contract!Retract
  <2>1. promised \in BOOLEAN /\ promised' \in BOOLEAN
    BY <1>2 DEF IInv, TypeOK
  <2>2. CASE outcome' # outcome
    <3>1. ~Readable /\ Kept' = Kept
      BY <1>2, <2>2, DecidesOnce
         DEF KeptInFull, Finalized, Readable, BundleReads, Has, Kept
    <3> QED
      BY <1>2, <2>2, <3>1, DecidesOnce
  <2>3. CASE outcome' = outcome
    <3>1. CASE Readable /\ Readable'
      BY <1>2, <2>1, <2>3, <3>1, DecidesOnce DEF KeptInFull, Finalized
    <3>2. CASE Readable /\ ~Readable'
      BY <1>2, <2>1, <2>3, <3>2, DecidesOnce DEF KeptInFull, Finalized
    <3>3. CASE ~Readable /\ Readable'
      BY <1>2, <2>1, <2>3, <3>3, DecidesOnce DEF KeptInFull, Finalized
    <3>4. CASE ~Readable /\ ~Readable'
      BY <1>2, <2>1, <2>3, <3>4, DecidesOnce DEF KeptInFull
    <3> QED
      BY <3>1, <3>2, <3>3, <3>4
  <2> QED
    BY <2>2, <2>3
<1> QED
  BY <1>1, <1>2, Invariance, KeptIsOutcome, PTL DEF Spec, ImplementsPublication, Contract!Spec

\* Short of a power loss, evidence ceases to be readable in one way only: a
\* recovery moved the directory before the capture at work wrote its sidecar.
OvertakenAlone ==
    [][Readable /\ losses' = losses => Readable' \/ (v2 /\ WriteSidecar)]_vars

(* Nobody but the capture writes a sidecar.                                *)
LEMMA NoOtherSidecar ==
    ASSUME TypeOK, [Next]_vars, losses' = losses, ~WriteSidecar
    PROVE  "sidecar" \in live'.names => "sidecar" \in live.names
<1> USE SpoolBounds DEF TypeOK
<1> DEFINE Others == \E n \in {{}, {"raw"}, {"manifest"}, {"marker"}, {"publication"}} :
                        live'.names \subseteq live.names \cup n
<1>1. Others
  <2>1. CASE Mkdir
    BY <2>1 DEF Mkdir
  <2>2. CASE CreateFiles
    BY <2>2 DEF CreateFiles, Create
  <2>3. ASSUME NEW a \in Actors,
               CreateManifest(a) \/ WriteMarker(a) \/ WritePublication(a) \/ Rename(a)
        PROVE  Others
    BY <2>3 DEF CreateManifest, WriteMarker, WritePublication, Rename, Create
  <2>4. CASE PowerLoss
    BY <2>4 DEF PowerLoss
  <2>5. CASE ~Mkdir /\ ~CreateFiles /\ ~PowerLoss /\ \A a \in Actors :
                ~CreateManifest(a) /\ ~WriteMarker(a) /\ ~WritePublication(a) /\ ~Rename(a)
    BY <2>5 DEF Next, CaptureStep, SharedStep, RecoverStep, vars, fs,
       CreateLease, LockLease, CommandDrained, CommandGivenUp, SyncPartial,
       CheckManifest, FillManifest, SyncManifest,
       SyncMarked, SyncParent, SyncPublication, WriteIndex,
       Scan, TryLease, DropLease, InspectPartial, Rebuild, AppendUncommitted,
       RecordError, Stop
  <2> QED
    BY <2>1, <2>2, <2>3, <2>4, <2>5
<1> QED
  BY <1>1

(* Readable evidence stays readable short of a power loss, unless the      *)
(* capture was overtaken by a recovery and adds its sidecar afterwards.    *)
THEOREM OnlyOvertakenIsRetracted == Spec => OvertakenAlone
<1>1. ASSUME IInv, [Next]_vars, Readable, losses' = losses, ~Readable'
      PROVE  v2 /\ WriteSidecar
  <2>1. /\ live'.dir = "captures" /\ live.names \subseteq live'.names
        /\ manifest' = manifest
    BY <1>1, TakesAwayStep DEF IInv, OnlyAdds, Readable, BundleReads
  <2>2. "sidecar" \in live'.names /\ "sidecar" \notin live.names
    <3>1. manifest \in Finalized
      BY <1>1, KeptIsOutcome DEF KeptInFull, Kept
    <3> QED
      BY <1>1, <2>1, <3>1 DEF Readable, BundleReads, Has
  <2>3. WriteSidecar
    BY <1>1, <2>2, NoOtherSidecar DEF IInv
  <2> QED
    BY <1>1, <2>3 DEF WriteSidecar, IInv, SidecarInv
<1>2. IInv /\ [Next]_vars =>
        [Readable /\ losses' = losses => Readable' \/ (v2 /\ WriteSidecar)]_vars
  BY <1>1
<1> QED
  BY <1>2, Invariance, PTL DEF Spec, OvertakenAlone

\* Nothing is in captures/ before the drain has decided its outcome.
MovedIsDecided == live.dir = "captures" => outcome \in Finalized

(* Only a finalized manifest takes a directory out of partial/.            *)
LEMMA MovedIsDecidedStep ==
    ASSUME IInv, MovedIsDecided, [Next]_vars PROVE MovedIsDecided'
<1> USE DEF MovedIsDecided
<1>1. CASE \E a \in Actors : Rename(a)
  <2> PICK a \in Actors : Rename(a)
    BY <1>1
  <2>1. Has("manifest") /\ manifest \in Finalized /\ outcome' = outcome
    BY DEF IInv, ManifestInv, Finalizing, Rename
  <2> QED
    BY <2>1 DEF IInv, ManifestInv, NothingInvented
<1>2. CASE PowerLoss
  <2>1. live'.dir \in {live.dir, disk.dir, "partial"} /\ outcome' = outcome
    BY <1>2 DEF PowerLoss
  <2> QED
    BY <2>1 DEF IInv, PlaceInv
<1>3. CASE ~(\E a \in Actors : Rename(a)) /\ ~PowerLoss
  <2>1. live'.dir = live.dir \/ live'.dir = "partial"
    <3> DEFINE Creates(a) == CreateManifest(a) \/ WriteMarker(a) \/ WritePublication(a)
    <3>1. CASE Mkdir
      BY <3>1 DEF Mkdir
    <3>2. CASE CreateFiles \/ WriteSidecar
      BY <3>2 DEF CreateFiles, WriteSidecar, Create, IInv, TypeOK
    <3>3. ASSUME NEW a \in Actors, Creates(a)
          PROVE  live'.dir = live.dir
      BY <3>3 DEF CreateManifest, WriteMarker, WritePublication, Create, IInv, TypeOK
    <3>4. CASE /\ ~Mkdir /\ ~CreateFiles /\ ~WriteSidecar
               /\ \A a \in Actors : ~Creates(a)
      BY <1>3, <3>4 DEF Next, CaptureStep, SharedStep, RecoverStep, vars, fs,
         CreateLease, LockLease, CommandDrained, CommandGivenUp, SyncPartial,
         CheckManifest, FillManifest, SyncManifest,
         SyncMarked, SyncParent, SyncPublication, WriteIndex,
         Scan, TryLease, DropLease, InspectPartial, Rebuild, AppendUncommitted,
         RecordError, Stop
    <3> QED
      BY <3>1, <3>2, <3>3, <3>4
  <2> QED
    BY <2>1, DecidesOnce
<1> QED
  BY <1>1, <1>2, <1>3

(* A host-durable claim is backed for every capture that succeeded: once   *)
(* the publication record of a COMPLETE or TRUNCATED capture is there, the *)
(* streams and the event index are final and on the disk.  Only a capture  *)
(* that failed gets its record over streams that never were synced.        *)
UsableClaimBacked ==
    Has("publication") /\ outcome # "CAPTURE_FAILED" => "raw" \in synced /\ raw = "final"

(* The publication record of a usable capture stands on synced streams.    *)
THEOREM UsableClaimIsBacked == Spec => []UsableClaimBacked
<1>1. Init => MovedIsDecided
  BY DEF Init, MovedIsDecided
<1>2. IInv /\ MovedIsDecided /\ [Next]_vars => MovedIsDecided'
  BY MovedIsDecidedStep
<1>3. IInv /\ MovedIsDecided => UsableClaimBacked
  BY DEF IInv, PlaceInv, FileInv, MovedIsDecided, Finalized, UsableClaimBacked
<1> QED
  BY <1>1, <1>2, <1>3, Invariance, PTL DEF Spec

=============================================================================
