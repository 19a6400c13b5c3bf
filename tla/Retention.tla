----------------------------- MODULE Retention -----------------------------
(***************************************************************************)
(* Raw expiry of one finalized capture: collect_captures_with_faults       *)
(* (crates/outctl-engine/src/retention.rs), run by collectors that each    *)
(* have their policy, against readers and index rebuilds that take no lock *)
(* (retrieval.rs, index.rs).                                               *)
(*                                                                         *)
(* As in Spool, "live" is what processes see and "disk" what a power loss  *)
(* is sure to leave.  A tombstone or receipt is the policy it was written  *)
(* for: two are equal when, and only when, their policies are.             *)
(***************************************************************************)
EXTENDS Naturals, FiniteSets

CONSTANTS
    Collectors,  \* processes that run gc; each stands for its policy
    Denied,      \* those whose policy names another workspace
    Observers,   \* readers and index rebuilds
    MaxStops,    \* bound on collectors killed, or stopped by an I/O error
    MaxLosses    \* bound on power losses

ASSUME RetentionBounds ==
    /\ MaxStops \in Nat /\ MaxLosses \in Nat
    /\ Denied \subseteq Collectors /\ "none" \notin Collectors

RawFiles == {"stdout.raw", "stderr.raw", "events.ndjson"}

VARIABLES
    kind,      \* the directory at captures/<id>: published, unsafe, empty, gone
    live,      \* [raw, tomb, dir : the receipt directory exists, receipt]
    disk,      \* the same on stable storage
    lock,      \* who holds retention.lock
    pc,        \* [Collectors -> where it is]
    action,    \* [Collectors -> CollectionAction of its last pass]
    index,     \* the index record: live, expired
    opc,       \* [Observers -> where it is]
    seen,      \* [Observers -> what it found so far]
    answer,    \* [Observers -> what verify last answered]
    stops, losses

vars == <<kind, live, disk, lock, pc, action, index, opc, seen, answer, stops,
          losses>>
obs  == <<opc, seen, answer>>

Records == Collectors \cup {"none"}

TypeOK ==
    LET Files == [raw : SUBSET RawFiles, tomb : Records, dir : BOOLEAN,
                  receipt : Records]
    IN  /\ kind \in {"published", "unsafe", "empty", "gone"}
        /\ live \in Files /\ disk \in Files
        /\ lock \in Records
        /\ pc \in [Collectors -> {"idle", "read", "tomb", "tombsync", "mkdir",
                "root1", "receipt", "receiptsync", "root2", "unlink",
                "capsync", "index"}]
        /\ action \in [Collectors -> {"none", "Locked", "Unavailable",
                "RemoveLegacyEmpty", "UnsafeRetained", "AlreadyExpired",
                "ExpireRaw"}]
        /\ index \in {"live", "expired"}
        /\ opc \in [Observers -> {"idle", "receipt", "verify", "write"}]
        /\ seen \in [Observers -> {"nothing", "tomb", "live", "expired"}]
        /\ answer \in [Observers -> {"none", "Available", "Expired", "Tampered"}]
        /\ stops \in 0..MaxStops /\ losses \in 0..MaxLosses

Init ==
    /\ kind \in {"published", "unsafe", "empty"}
    /\ live = [raw |-> RawFiles, tomb |-> "none", dir |-> FALSE,
               receipt |-> "none"]
    /\ disk = live
    /\ lock = "none"
    /\ pc = [c \in Collectors |-> "idle"]
    /\ action = [c \in Collectors |-> "none"]
    /\ index = "live"
    /\ opc = [o \in Observers |-> "idle"]
    /\ seen = [o \in Observers |-> "nothing"]
    /\ answer = [o \in Observers |-> "none"]
    /\ stops = 0 /\ losses = 0

Goto(c, label) == pc' = [pc EXCEPT ![c] = label]

\* The pass is over: its record, and the lock is dropped.
Finish(c, result) ==
    /\ Goto(c, "idle")
    /\ action' = [action EXCEPT ![c] = result]
    /\ lock' = "none"

-----------------------------------------------------------------------------
(* collect_captures.                                                       *)

Lock(c) ==
    /\ pc[c] = "idle"
    /\ IF lock = "none"
       THEN /\ lock' = c /\ Goto(c, "read")
            /\ action' = [action EXCEPT ![c] = "none"]
       ELSE /\ action' = [action EXCEPT ![c] = "Locked"]
            /\ UNCHANGED <<lock, pc>>
    /\ UNCHANGED <<kind, live, disk, index, obs, stops, losses>>

\* A slip: a record of another policy is taken for one's own.
ConflictIgnored(c) == c \in Denied

\* Another policy's tombstone or receipt, or another workspace's capture.
Conflict(c) ==
    \/ c \in Denied
    \/ live.tomb \notin {"none", c}
    \/ live.receipt \notin {"none", c}

\* Nothing to expire: no directory, one that is not published evidence, one
\* whose records are another policy's, or a legacy empty one.
Refuse(c) ==
    /\ pc[c] = "read"
    /\ \/ kind = "gone" /\ Finish(c, "Unavailable") /\ UNCHANGED kind
       \/ /\ kind = "unsafe" \/ (kind = "published" /\ Conflict(c))
          /\ Finish(c, "UnsafeRetained") /\ UNCHANGED kind
       \/ kind = "empty" /\ Finish(c, "RemoveLegacyEmpty") /\ kind' = "gone"
    /\ UNCHANGED <<live, disk, index, obs, stops, losses>>

\* A slip: a tombstone alone is taken for a committed expiry.
NextWriteAfterTombstone == IF live.tomb = "none" THEN "tomb" ELSE "unlink"

\* A slip: a capture with a tombstone has nothing left to do.
NextWriteUnlessMarked == IF live.tomb = "none" THEN "tomb" ELSE "index"

\* The first write that is missing.
NextWrite ==
    CASE live.tomb = "none" -> "tomb"
      [] live.tomb # "none" /\ live.receipt = "none" -> "mkdir"
      [] OTHER -> "unlink"

\* Tombstone and receipt are looked up once, before anything is written.
ReadRecords(c) ==
    /\ pc[c] = "read" /\ kind = "published" /\ ~Conflict(c)
    /\ action' = [action EXCEPT ![c] =
            IF live.tomb = c /\ live.receipt = c THEN "AlreadyExpired"
            ELSE "ExpireRaw"]
    /\ Goto(c, NextWrite)
    /\ UNCHANGED <<kind, live, disk, lock, index, obs, stops, losses>>

\* write_atomic_new in the capture: the synced tombstone is renamed in ...
WriteTombstone(c) ==
    /\ pc[c] = "tomb"
    /\ live' = [live EXCEPT !.tomb = c]
    /\ Goto(c, "tombsync")
    /\ UNCHANGED <<kind, disk, lock, action, index, obs, stops, losses>>

\* ... and the capture directory synced, which also happens after the unlinks.
SyncCapture(c) ==
    /\ pc[c] \in {"tombsync", "capsync"}
    /\ disk' = [disk EXCEPT !.tomb = live.tomb, !.raw = live.raw]
    /\ Goto(c, IF pc[c] = "capsync" THEN "index" ELSE NextWrite)
    /\ UNCHANGED <<kind, live, lock, action, index, obs, stops, losses>>

EnsureReceipts(c) ==
    /\ pc[c] = "mkdir"
    /\ live' = [live EXCEPT !.dir = TRUE]
    /\ Goto(c, "root1")
    /\ UNCHANGED <<kind, disk, lock, action, index, obs, stops, losses>>

\* root.sync(), before and after the receipt.
SyncRoot(c) ==
    /\ pc[c] \in {"root1", "root2"}
    /\ disk' = [disk EXCEPT !.dir = live.dir]
    /\ Goto(c, IF pc[c] = "root1" THEN "receipt" ELSE "unlink")
    /\ UNCHANGED <<kind, live, lock, action, index, obs, stops, losses>>

\* write_atomic_new in the receipt directory.
WriteReceipt(c) ==
    /\ pc[c] = "receipt"
    /\ live' = [live EXCEPT !.receipt = c]
    /\ Goto(c, "receiptsync")
    /\ UNCHANGED <<kind, disk, lock, action, index, obs, stops, losses>>

SyncReceipts(c) ==
    /\ pc[c] = "receiptsync"
    /\ disk' = [disk EXCEPT !.receipt = live.receipt]
    /\ Goto(c, "root2")
    /\ UNCHANGED <<kind, live, lock, action, index, obs, stops, losses>>

\* The loop's order over what is still there.
FirstRaw(raw) ==
    CASE "stdout.raw" \in raw -> "stdout.raw"
      [] "stdout.raw" \notin raw /\ "stderr.raw" \in raw -> "stderr.raw"
      [] OTHER -> "events.ndjson"

\* The raw files go one by one; one that is gone already is no error.
Unlink(c) ==
    /\ pc[c] = "unlink"
    /\ live' = [live EXCEPT !.raw = @ \ {FirstRaw(@)}]
    /\ Goto(c, IF live'.raw = {} THEN "capsync" ELSE "unlink")
    /\ UNCHANGED <<kind, disk, lock, action, index, obs, stops, losses>>

WriteExpired(c) ==
    /\ pc[c] = "index"
    /\ index' = "expired"
    /\ Finish(c, action[c])
    /\ UNCHANGED <<kind, live, disk, obs, stops, losses>>

-----------------------------------------------------------------------------
(* read_committed_retention, called without a lock by verify and by the    *)
(* index rebuild: the tombstone is looked up, then the receipt.            *)

ReadTombstone(o) ==
    /\ opc[o] = "idle" /\ kind = "published"
    /\ seen' = [seen EXCEPT ![o] = IF live.tomb = "none" THEN "nothing" ELSE "tomb"]
    /\ opc' = [opc EXCEPT ![o] = "receipt"]
    /\ UNCHANGED <<kind, live, disk, lock, pc, action, index, answer, stops,
                   losses>>

\* A slip: either record alone is taken for a committed expiry.
CommittedByEither(o) ==
    CASE seen[o] = "nothing" /\ live.receipt = "none" -> "live"
      [] OTHER -> "expired"

\* A slip: a lone tombstone is passed on as it was found.
CommittedAsFound(o) ==
    CASE live.receipt = "none" -> IF seen[o] = "nothing" THEN "live" ELSE "tomb"
      [] OTHER -> "expired"

\* Both or neither: anything else is refused.  With both, they are read again
\* and must bind the same evidence.
Committed(o) ==
    CASE seen[o] = "nothing" /\ live.receipt = "none" -> "live"
      [] seen[o] = "tomb" /\ live.receipt # "none"
            /\ live.receipt = live.tomb -> "expired"
      [] OTHER -> "nothing"

\* verify answers Expired or Tampered at once, or goes on to the raw files;
\* a rebuild goes on to write the record, or notes an issue.
ReadReceipt(o) ==
    /\ opc[o] = "receipt"
    /\ seen' = [seen EXCEPT ![o] = Committed(o)]
    /\ \/ /\ opc' = [opc EXCEPT ![o] = IF seen'[o] = "live" THEN "verify" ELSE "idle"]
          /\ answer' = [answer EXCEPT ![o] =
                CASE seen'[o] = "live" -> @
                  [] seen'[o] = "expired" -> "Expired"
                  [] OTHER -> "Tampered"]
       \/ /\ opc' = [opc EXCEPT ![o] = IF seen'[o] = "nothing" THEN "idle" ELSE "write"]
          /\ UNCHANGED answer
    /\ UNCHANGED <<kind, live, disk, lock, pc, action, index, stops, losses>>

\* verify digests the raw files.
VerifyRaw(o) ==
    /\ opc[o] = "verify"
    /\ answer' = [answer EXCEPT ![o] =
            IF live.raw = RawFiles THEN "Available" ELSE "Tampered"]
    /\ opc' = [opc EXCEPT ![o] = "idle"]
    /\ UNCHANGED <<kind, live, disk, lock, pc, action, index, seen, stops, losses>>

\* The rebuild replaces the index record with what it found.
RebuildRecord(o) ==
    /\ opc[o] = "write"
    /\ index' = seen[o]
    /\ opc' = [opc EXCEPT ![o] = "idle"]
    /\ UNCHANGED <<kind, live, disk, lock, pc, action, seen, answer, stops, losses>>

-----------------------------------------------------------------------------
(* Failures.                                                               *)

\* An I/O error or a kill ends the pass where it is; the lock goes with it.
Stop(c) ==
    /\ stops < MaxStops /\ pc[c] # "idle"
    /\ Goto(c, "idle")
    /\ lock' = "none"
    /\ stops' = stops + 1
    /\ UNCHANGED <<kind, live, disk, action, index, obs, losses>>

\* Power is lost: each change that was not synced is on the disk or not, and
\* a receipt is only there if its directory is.
PowerLoss ==
    /\ losses < MaxLosses
    /\ \E raw \in SUBSET disk.raw, tomb \in {live.tomb, disk.tomb},
          dir \in {live.dir, disk.dir}, receipt \in {live.receipt, disk.receipt} :
        /\ live.raw \subseteq raw
        /\ live' = [raw |-> raw, tomb |-> tomb, dir |-> dir,
                    receipt |-> IF dir THEN receipt ELSE "none"]
        /\ disk' = live'
    /\ lock' = "none"
    /\ pc' = [c \in Collectors |-> "idle"]
    /\ opc' = [o \in Observers |-> "idle"]
    /\ losses' = losses + 1
    /\ UNCHANGED <<kind, action, index, seen, answer, stops>>

CollectStep(c) ==
    \/ Lock(c) \/ Refuse(c) \/ ReadRecords(c) \/ WriteTombstone(c)
    \/ SyncCapture(c) \/ EnsureReceipts(c) \/ SyncRoot(c) \/ WriteReceipt(c)
    \/ SyncReceipts(c) \/ Unlink(c) \/ WriteExpired(c)

ObserveStep(o) ==
    ReadTombstone(o) \/ ReadReceipt(o) \/ VerifyRaw(o) \/ RebuildRecord(o)

Next ==
    \/ \E c \in Collectors : CollectStep(c) \/ Stop(c)
    \/ \E o \in Observers : ObserveStep(o)
    \/ PowerLoss

Spec == Init /\ [][Next]_vars

(***************************************************************************)
(* A collector that started goes on, and collection is tried again.        *)
(***************************************************************************)
FairSpec == Spec /\ \A c \in Collectors : WF_vars(CollectStep(c))

-----------------------------------------------------------------------------
(* Properties.                                                             *)

\* Tombstone and receipt are there and bind the same evidence.
Reconciled == live.tomb # "none" /\ live.receipt = live.tomb

(* Raw bytes are gone only under a tombstone and a receipt that reconcile: *)
(* whatever steps are cut short and retried, by one policy or several, and *)
(* whatever a power loss leaves.  It takes both, a pass cut short and a    *)
(* later power loss, to lose raw bytes without the record of it.           *)
RawGoneIsCommitted ==
    (stops = 0 \/ losses = 0) /\ live.raw # RawFiles =>
        kind = "published" /\ Reconciled

(* Two policies never both leave their mark: a tombstone and a receipt     *)
(* that are both there bind the same evidence, also after a power loss has *)
(* orphaned one of them.                                                   *)
RecordsReconcile ==
    live.tomb # "none" /\ live.receipt # "none" => Reconciled

(* Readers and the index say expired only of committed expiry, and a       *)
(* capture that no collector touched is never called tampered, though      *)
(* neither takes the collector's lock.                                     *)
ObserversAreHonest ==
    losses = 0 =>
        /\ index = "expired" => Reconciled
        /\ \A o \in Observers :
            /\ answer[o] = "Expired" => Reconciled
            /\ answer[o] = "Tampered" => live.tomb # "none"

(* Expiry as readers see it is the abstract one: begun, committed, and     *)
(* only then discarded; only a power loss takes a phase back.              *)
Phase ==
    CASE live.tomb = "none" /\ live.receipt = "none" -> "kept"
      [] Reconciled -> "expired"
      [] OTHER -> "pending"

Abstract == INSTANCE Expiry WITH phase <- Phase, whole <- live.raw = RawFiles

ImplementsExpiry == Abstract!Spec

(* An expiry once begun is finished by retries with the same policy.       *)
BegunIsFinished == live.tomb # "none" ~> live.raw = {} /\ Reconciled

(* W7_HANDOFF: the transaction "durably writes the capture-local           *)
(* tombstone, then durably writes a RENAME_NOREPLACE receipt", and only    *)
(* then unlinks raw streams.                                               *)
DurableBeforeUnlink ==
    [][losses' = losses /\ live'.raw # live.raw =>
        disk.dir /\ disk.tomb = live.tomb /\ disk.receipt = live.receipt]_vars

=============================================================================
