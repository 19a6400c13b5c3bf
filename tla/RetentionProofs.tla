-------------------------- MODULE RetentionProofs --------------------------
(***************************************************************************)
(* Retention keeps its promise for any number of collectors, policies and  *)
(* observers, and any number of interruptions and power losses: the safety *)
(* properties of Retention, and that it implements Expiry.                 *)
(***************************************************************************)
EXTENDS Retention, TLAPS

Written == {"receiptsync", "root2", "unlink", "capsync", "index"}
Begun == {"tombsync", "mkdir", "root1", "receipt"} \cup Written

\* A collector that is at work holds the lock; where it is says which records
\* are there, and that they are its own.
PassInv ==
    \A c \in Collectors :
        /\ pc[c] # "idle" => lock = c
        /\ pc[c] \notin {"idle", "read"} =>
               kind = "published" /\ live.receipt \in {"none", c}
        /\ pc[c] = "tomb" => live.tomb = "none"
        /\ pc[c] \in Begun => live.tomb = c
        /\ pc[c] \in {"mkdir", "root1", "receipt"} => live.receipt = "none"
        /\ pc[c] \in Written => live.receipt = c

\* What is on the disk was written once and is not taken back.
DiskInv ==
    /\ disk.tomb \in {"none", live.tomb}
    /\ disk.receipt \in {"none", live.receipt}
    /\ live.raw \subseteq disk.raw

\* As long as no pass was cut short, only the next sync is outstanding.
SyncedInv ==
    stops = 0 =>
        /\ live.receipt # "none" \/ (\E c \in Collectors : pc[c] \in {"root1", "receipt"})
               => live.dir
        /\ disk.tomb # live.tomb => \E c \in Collectors : pc[c] = "tombsync"
        /\ disk.receipt # live.receipt => \E c \in Collectors : pc[c] = "receiptsync"
        /\ live.dir # disk.dir => \E c \in Collectors : pc[c] = "root1"
        /\ live.raw # RawFiles =>
               disk.dir /\ disk.tomb = live.tomb /\ disk.receipt = live.receipt

\* Without a power loss a receipt never stands alone, and what an observer
\* has found of an expiry is still so.
FoundInv ==
    /\ \A o \in Observers :
           /\ opc[o] = "receipt" => seen[o] \in {"nothing", "tomb"}
           /\ opc[o] = "write" => seen[o] \in {"live", "expired"}
    /\ losses = 0 =>
        /\ live.receipt # "none" => Reconciled
        /\ \A o \in Observers :
               /\ opc[o] = "receipt" /\ seen[o] = "tomb" => live.tomb # "none"
               /\ opc[o] = "write" /\ seen[o] = "expired" => Reconciled

IInv ==
    /\ TypeOK /\ PassInv /\ DiskInv /\ SyncedInv /\ FoundInv
    /\ RawGoneIsCommitted /\ RecordsReconcile /\ ObserversAreHonest

-----------------------------------------------------------------------------
(* Every step keeps the types.                                             *)
LEMMA TypeStep ==
    ASSUME TypeOK, FoundInv, [Next]_vars PROVE TypeOK'
<1> USE RetentionBounds
    DEF obs, Records, RawFiles, TypeOK, FoundInv
<1>1. ASSUME NEW c \in Collectors, Lock(c) PROVE TypeOK'
  BY <1>1 DEF Lock, Goto
<1>2. ASSUME NEW c \in Collectors, Refuse(c) PROVE TypeOK'
  BY <1>2 DEF Refuse, Finish, Goto, Conflict
<1>3. ASSUME NEW c \in Collectors, ReadRecords(c) PROVE TypeOK'
  BY <1>3 DEF ReadRecords, Goto, Conflict, NextWrite
<1>4. ASSUME NEW c \in Collectors, WriteTombstone(c) PROVE TypeOK'
  BY <1>4 DEF WriteTombstone, Goto
<1>5. ASSUME NEW c \in Collectors, SyncCapture(c) PROVE TypeOK'
  BY <1>5 DEF SyncCapture, Goto, NextWrite
<1>6. ASSUME NEW c \in Collectors, EnsureReceipts(c) PROVE TypeOK'
  BY <1>6 DEF EnsureReceipts, Goto
<1>7. ASSUME NEW c \in Collectors, SyncRoot(c) PROVE TypeOK'
  BY <1>7 DEF SyncRoot, Goto
<1>8. ASSUME NEW c \in Collectors, WriteReceipt(c) PROVE TypeOK'
  BY <1>8 DEF WriteReceipt, Goto
<1>9. ASSUME NEW c \in Collectors, SyncReceipts(c) PROVE TypeOK'
  BY <1>9 DEF SyncReceipts, Goto
<1>10. ASSUME NEW c \in Collectors, Unlink(c) PROVE TypeOK'
  BY <1>10 DEF Unlink, Goto, FirstRaw
<1>11. ASSUME NEW c \in Collectors, WriteExpired(c) PROVE TypeOK'
  BY <1>11 DEF WriteExpired, Finish, Goto
<1>12. ASSUME NEW c \in Collectors, Stop(c) PROVE TypeOK'
  BY <1>12 DEF Stop, Goto
<1>13. ASSUME NEW o \in Observers, ReadTombstone(o) PROVE TypeOK'
  BY <1>13 DEF ReadTombstone
<1>14. ASSUME NEW o \in Observers, ReadReceipt(o) PROVE TypeOK'
  BY <1>14 DEF ReadReceipt, Committed
<1>15. ASSUME NEW o \in Observers, VerifyRaw(o) PROVE TypeOK'
  BY <1>15 DEF VerifyRaw
<1>16. ASSUME NEW o \in Observers, RebuildRecord(o) PROVE TypeOK'
  BY <1>16 DEF RebuildRecord
<1>17. CASE PowerLoss
  BY <1>17 DEF PowerLoss
<1>18. CASE UNCHANGED vars
  BY <1>18 DEF vars
<1> QED
  BY <1>1, <1>2, <1>3, <1>4, <1>5, <1>6, <1>7, <1>8, <1>9,
     <1>10, <1>11, <1>12, <1>13, <1>14, <1>15, <1>16, <1>17, <1>18
  DEF Next, CollectStep, ObserveStep

(* A pass keeps to its lock and its records.                               *)
LEMMA PassStep ==
    ASSUME TypeOK, PassInv, DiskInv, [Next]_vars PROVE PassInv'
<1> USE RetentionBounds
    DEF obs, Records, TypeOK, PassInv, DiskInv, Begun, Written
<1>1. ASSUME NEW c \in Collectors, Lock(c) PROVE PassInv'
  BY <1>1 DEF Lock, Goto
<1>2. ASSUME NEW c \in Collectors, Refuse(c) PROVE PassInv'
  BY <1>2 DEF Refuse, Finish, Goto, Conflict
<1>3. ASSUME NEW c \in Collectors, ReadRecords(c) PROVE PassInv'
  BY <1>3 DEF ReadRecords, Goto, Conflict, NextWrite
<1>4. ASSUME NEW c \in Collectors, WriteTombstone(c) PROVE PassInv'
  BY <1>4 DEF WriteTombstone, Goto
<1>5. ASSUME NEW c \in Collectors, SyncCapture(c) PROVE PassInv'
  BY <1>5 DEF SyncCapture, Goto, NextWrite
<1>6. ASSUME NEW c \in Collectors, EnsureReceipts(c) PROVE PassInv'
  BY <1>6 DEF EnsureReceipts, Goto
<1>7. ASSUME NEW c \in Collectors, SyncRoot(c) PROVE PassInv'
  BY <1>7 DEF SyncRoot, Goto
<1>8. ASSUME NEW c \in Collectors, WriteReceipt(c) PROVE PassInv'
  BY <1>8 DEF WriteReceipt, Goto
<1>9. ASSUME NEW c \in Collectors, SyncReceipts(c) PROVE PassInv'
  BY <1>9 DEF SyncReceipts, Goto
<1>10. ASSUME NEW c \in Collectors, Unlink(c) PROVE PassInv'
  BY <1>10 DEF Unlink, Goto, FirstRaw
<1>11. ASSUME NEW c \in Collectors, WriteExpired(c) PROVE PassInv'
  BY <1>11 DEF WriteExpired, Finish, Goto
<1>12. ASSUME NEW c \in Collectors, Stop(c) PROVE PassInv'
  BY <1>12 DEF Stop, Goto
<1>13. ASSUME NEW o \in Observers, ReadTombstone(o) PROVE PassInv'
  BY <1>13 DEF ReadTombstone
<1>14. ASSUME NEW o \in Observers, ReadReceipt(o) PROVE PassInv'
  BY <1>14 DEF ReadReceipt, Committed
<1>15. ASSUME NEW o \in Observers, VerifyRaw(o) PROVE PassInv'
  BY <1>15 DEF VerifyRaw
<1>16. ASSUME NEW o \in Observers, RebuildRecord(o) PROVE PassInv'
  BY <1>16 DEF RebuildRecord
<1>17. CASE PowerLoss
  BY <1>17 DEF PowerLoss
<1>18. CASE UNCHANGED vars
  BY <1>18 DEF vars
<1> QED
  BY <1>1, <1>2, <1>3, <1>4, <1>5, <1>6, <1>7, <1>8, <1>9,
     <1>10, <1>11, <1>12, <1>13, <1>14, <1>15, <1>16, <1>17, <1>18
  DEF Next, CollectStep, ObserveStep

(* A record is replaced by nobody.                                         *)
LEMMA DiskStep ==
    ASSUME TypeOK, PassInv, DiskInv, [Next]_vars PROVE DiskInv'
<1> USE RetentionBounds
    DEF obs, Records, TypeOK, PassInv, DiskInv, Begun, Written
<1>1. ASSUME NEW c \in Collectors, Lock(c) PROVE DiskInv'
  BY <1>1 DEF Lock, Goto
<1>2. ASSUME NEW c \in Collectors, Refuse(c) PROVE DiskInv'
  BY <1>2 DEF Refuse, Finish, Goto, Conflict
<1>3. ASSUME NEW c \in Collectors, ReadRecords(c) PROVE DiskInv'
  BY <1>3 DEF ReadRecords, Goto, Conflict, NextWrite
<1>4. ASSUME NEW c \in Collectors, WriteTombstone(c) PROVE DiskInv'
  BY <1>4 DEF WriteTombstone, Goto
<1>5. ASSUME NEW c \in Collectors, SyncCapture(c) PROVE DiskInv'
  BY <1>5 DEF SyncCapture, Goto, NextWrite
<1>6. ASSUME NEW c \in Collectors, EnsureReceipts(c) PROVE DiskInv'
  BY <1>6 DEF EnsureReceipts, Goto
<1>7. ASSUME NEW c \in Collectors, SyncRoot(c) PROVE DiskInv'
  BY <1>7 DEF SyncRoot, Goto
<1>8. ASSUME NEW c \in Collectors, WriteReceipt(c) PROVE DiskInv'
  BY <1>8 DEF WriteReceipt, Goto
<1>9. ASSUME NEW c \in Collectors, SyncReceipts(c) PROVE DiskInv'
  BY <1>9 DEF SyncReceipts, Goto
<1>10. ASSUME NEW c \in Collectors, Unlink(c) PROVE DiskInv'
  BY <1>10 DEF Unlink, Goto, FirstRaw
<1>11. ASSUME NEW c \in Collectors, WriteExpired(c) PROVE DiskInv'
  BY <1>11 DEF WriteExpired, Finish, Goto
<1>12. ASSUME NEW c \in Collectors, Stop(c) PROVE DiskInv'
  BY <1>12 DEF Stop, Goto
<1>13. ASSUME NEW o \in Observers, ReadTombstone(o) PROVE DiskInv'
  BY <1>13 DEF ReadTombstone
<1>14. ASSUME NEW o \in Observers, ReadReceipt(o) PROVE DiskInv'
  BY <1>14 DEF ReadReceipt, Committed
<1>15. ASSUME NEW o \in Observers, VerifyRaw(o) PROVE DiskInv'
  BY <1>15 DEF VerifyRaw
<1>16. ASSUME NEW o \in Observers, RebuildRecord(o) PROVE DiskInv'
  BY <1>16 DEF RebuildRecord
<1>17. CASE PowerLoss
  BY <1>17 DEF PowerLoss
<1>18. CASE UNCHANGED vars
  BY <1>18 DEF vars
<1> QED
  BY <1>1, <1>2, <1>3, <1>4, <1>5, <1>6, <1>7, <1>8, <1>9,
     <1>10, <1>11, <1>12, <1>13, <1>14, <1>15, <1>16, <1>17, <1>18
  DEF Next, CollectStep, ObserveStep

(* A power loss that leaves raw files missing leaves both records.         *)
LEMMA LossKeepsRecords ==
    ASSUME TypeOK, DiskInv, SyncedInv, RawGoneIsCommitted, PowerLoss, stops = 0,
           live'.raw # RawFiles
    PROVE  kind = "published" /\ Reconciled' /\ live'.dir
<1>1. PICK raw \in SUBSET disk.raw, tomb \in {live.tomb, disk.tomb},
          dir \in {live.dir, disk.dir}, receipt \in {live.receipt, disk.receipt} :
        /\ live.raw \subseteq raw
        /\ live' = [raw |-> raw, tomb |-> tomb, dir |-> dir,
                    receipt |-> IF dir THEN receipt ELSE "none"]
  BY DEF PowerLoss
<1>2. raw # RawFiles /\ disk.raw \subseteq RawFiles
  BY <1>1 DEF TypeOK
<1>3. live.raw # RawFiles
  BY <1>1, <1>2
<1>4. /\ kind = "published" /\ live.tomb # "none" /\ live.receipt = live.tomb
      /\ disk.dir /\ disk.tomb = live.tomb /\ disk.receipt = live.receipt
  BY <1>3 DEF SyncedInv, RawGoneIsCommitted, Reconciled
<1>5. live.dir
  BY <1>4 DEF SyncedInv
<1>6. live'.tomb = live.tomb /\ live'.receipt = live.receipt /\ live'.dir
  BY <1>1, <1>4, <1>5
<1> QED
  BY <1>4, <1>6 DEF Reconciled

(* A pass that is not cut short syncs what it writes before it goes on.    *)
LEMMA SyncedStep ==
    ASSUME TypeOK, PassInv, DiskInv, SyncedInv, RawGoneIsCommitted, [Next]_vars PROVE SyncedInv'
<1> USE RetentionBounds
    DEF obs, Records, TypeOK, PassInv, DiskInv, SyncedInv, Begun, Written,
        RawGoneIsCommitted, Reconciled
<1>1. ASSUME NEW c \in Collectors, Lock(c) PROVE SyncedInv'
  BY <1>1 DEF Lock, Goto
<1>2. ASSUME NEW c \in Collectors, Refuse(c) PROVE SyncedInv'
  BY <1>2 DEF Refuse, Finish, Goto, Conflict
<1>3. ASSUME NEW c \in Collectors, ReadRecords(c) PROVE SyncedInv'
  BY <1>3 DEF ReadRecords, Goto, Conflict, NextWrite
<1>4. ASSUME NEW c \in Collectors, WriteTombstone(c) PROVE SyncedInv'
  BY <1>4 DEF WriteTombstone, Goto
<1>5. ASSUME NEW c \in Collectors, SyncCapture(c) PROVE SyncedInv'
  BY <1>5 DEF SyncCapture, Goto, NextWrite
<1>6. ASSUME NEW c \in Collectors, EnsureReceipts(c) PROVE SyncedInv'
  <2>1. /\ live'.dir = TRUE /\ live'.tomb = live.tomb /\ live'.receipt = live.receipt
        /\ live'.raw = live.raw /\ disk' = disk /\ stops' = stops
        /\ pc'[c] = "root1" /\ pc[c] = "mkdir"
    BY <1>6 DEF EnsureReceipts, Goto
  <2>2. \A b \in Collectors : b # c => pc'[b] = pc[b] /\ pc[b] = "idle"
    BY <1>6 DEF EnsureReceipts, Goto
  <2> QED
    BY <2>1, <2>2
<1>7. ASSUME NEW c \in Collectors, SyncRoot(c) PROVE SyncedInv'
  BY <1>7 DEF SyncRoot, Goto
<1>8. ASSUME NEW c \in Collectors, WriteReceipt(c) PROVE SyncedInv'
  BY <1>8 DEF WriteReceipt, Goto
<1>9. ASSUME NEW c \in Collectors, SyncReceipts(c) PROVE SyncedInv'
  BY <1>9 DEF SyncReceipts, Goto
<1>10. ASSUME NEW c \in Collectors, Unlink(c) PROVE SyncedInv'
  BY <1>10 DEF Unlink, Goto, FirstRaw
<1>11. ASSUME NEW c \in Collectors, WriteExpired(c) PROVE SyncedInv'
  BY <1>11 DEF WriteExpired, Finish, Goto
<1>12. ASSUME NEW c \in Collectors, Stop(c) PROVE SyncedInv'
  BY <1>12 DEF Stop, Goto
<1>13. ASSUME NEW o \in Observers, ReadTombstone(o) PROVE SyncedInv'
  BY <1>13 DEF ReadTombstone
<1>14. ASSUME NEW o \in Observers, ReadReceipt(o) PROVE SyncedInv'
  BY <1>14 DEF ReadReceipt, Committed
<1>15. ASSUME NEW o \in Observers, VerifyRaw(o) PROVE SyncedInv'
  BY <1>15 DEF VerifyRaw
<1>16. ASSUME NEW o \in Observers, RebuildRecord(o) PROVE SyncedInv'
  BY <1>16 DEF RebuildRecord
<1>17. CASE PowerLoss
  <2>1. /\ disk' = live' /\ stops' = stops
        /\ live'.receipt # "none" => live'.dir
        /\ \A c \in Collectors : pc'[c] = "idle"
    BY <1>17 DEF PowerLoss
  <2>2. stops = 0 /\ live'.raw # RawFiles => live'.dir
    BY <1>17, LossKeepsRecords
  <2> QED
    BY <2>1, <2>2
<1>18. CASE UNCHANGED vars
  BY <1>18 DEF vars
<1> QED
  BY <1>1, <1>2, <1>3, <1>4, <1>5, <1>6, <1>7, <1>8, <1>9,
     <1>10, <1>11, <1>12, <1>13, <1>14, <1>15, <1>16, <1>17, <1>18
  DEF Next, CollectStep, ObserveStep

(* Tombstone and receipt are of one policy.                                *)
LEMMA RecordsStep ==
    ASSUME TypeOK, PassInv, DiskInv, RecordsReconcile, [Next]_vars PROVE RecordsReconcile'
<1> USE RetentionBounds
    DEF obs, Records, TypeOK, PassInv, DiskInv, Begun, Written,
        RecordsReconcile, Reconciled
<1>1. ASSUME NEW c \in Collectors, Lock(c) PROVE RecordsReconcile'
  BY <1>1 DEF Lock, Goto
<1>2. ASSUME NEW c \in Collectors, Refuse(c) PROVE RecordsReconcile'
  BY <1>2 DEF Refuse, Finish, Goto, Conflict
<1>3. ASSUME NEW c \in Collectors, ReadRecords(c) PROVE RecordsReconcile'
  BY <1>3 DEF ReadRecords, Goto, Conflict, NextWrite
<1>4. ASSUME NEW c \in Collectors, WriteTombstone(c) PROVE RecordsReconcile'
  BY <1>4 DEF WriteTombstone, Goto
<1>5. ASSUME NEW c \in Collectors, SyncCapture(c) PROVE RecordsReconcile'
  BY <1>5 DEF SyncCapture, Goto, NextWrite
<1>6. ASSUME NEW c \in Collectors, EnsureReceipts(c) PROVE RecordsReconcile'
  BY <1>6 DEF EnsureReceipts, Goto
<1>7. ASSUME NEW c \in Collectors, SyncRoot(c) PROVE RecordsReconcile'
  BY <1>7 DEF SyncRoot, Goto
<1>8. ASSUME NEW c \in Collectors, WriteReceipt(c) PROVE RecordsReconcile'
  BY <1>8 DEF WriteReceipt, Goto
<1>9. ASSUME NEW c \in Collectors, SyncReceipts(c) PROVE RecordsReconcile'
  BY <1>9 DEF SyncReceipts, Goto
<1>10. ASSUME NEW c \in Collectors, Unlink(c) PROVE RecordsReconcile'
  BY <1>10 DEF Unlink, Goto, FirstRaw
<1>11. ASSUME NEW c \in Collectors, WriteExpired(c) PROVE RecordsReconcile'
  BY <1>11 DEF WriteExpired, Finish, Goto
<1>12. ASSUME NEW c \in Collectors, Stop(c) PROVE RecordsReconcile'
  BY <1>12 DEF Stop, Goto
<1>13. ASSUME NEW o \in Observers, ReadTombstone(o) PROVE RecordsReconcile'
  BY <1>13 DEF ReadTombstone
<1>14. ASSUME NEW o \in Observers, ReadReceipt(o) PROVE RecordsReconcile'
  BY <1>14 DEF ReadReceipt, Committed
<1>15. ASSUME NEW o \in Observers, VerifyRaw(o) PROVE RecordsReconcile'
  BY <1>15 DEF VerifyRaw
<1>16. ASSUME NEW o \in Observers, RebuildRecord(o) PROVE RecordsReconcile'
  BY <1>16 DEF RebuildRecord
<1>17. CASE PowerLoss
  BY <1>17 DEF PowerLoss
<1>18. CASE UNCHANGED vars
  BY <1>18 DEF vars
<1> QED
  BY <1>1, <1>2, <1>3, <1>4, <1>5, <1>6, <1>7, <1>8, <1>9,
     <1>10, <1>11, <1>12, <1>13, <1>14, <1>15, <1>16, <1>17, <1>18
  DEF Next, CollectStep, ObserveStep

(* What was found stays, short of a power loss.                            *)
LEMMA FoundStep ==
    ASSUME TypeOK, PassInv, FoundInv, RecordsReconcile, [Next]_vars PROVE FoundInv'
<1> USE RetentionBounds
    DEF obs, Records, TypeOK, PassInv, FoundInv, Begun, Written,
        RecordsReconcile, Reconciled
<1>1. ASSUME NEW c \in Collectors, Lock(c) PROVE FoundInv'
  BY <1>1 DEF Lock, Goto
<1>2. ASSUME NEW c \in Collectors, Refuse(c) PROVE FoundInv'
  BY <1>2 DEF Refuse, Finish, Goto, Conflict
<1>3. ASSUME NEW c \in Collectors, ReadRecords(c) PROVE FoundInv'
  BY <1>3 DEF ReadRecords, Goto, Conflict, NextWrite
<1>4. ASSUME NEW c \in Collectors, WriteTombstone(c) PROVE FoundInv'
  BY <1>4 DEF WriteTombstone, Goto
<1>5. ASSUME NEW c \in Collectors, SyncCapture(c) PROVE FoundInv'
  BY <1>5 DEF SyncCapture, Goto, NextWrite
<1>6. ASSUME NEW c \in Collectors, EnsureReceipts(c) PROVE FoundInv'
  BY <1>6 DEF EnsureReceipts, Goto
<1>7. ASSUME NEW c \in Collectors, SyncRoot(c) PROVE FoundInv'
  BY <1>7 DEF SyncRoot, Goto
<1>8. ASSUME NEW c \in Collectors, WriteReceipt(c) PROVE FoundInv'
  BY <1>8 DEF WriteReceipt, Goto
<1>9. ASSUME NEW c \in Collectors, SyncReceipts(c) PROVE FoundInv'
  BY <1>9 DEF SyncReceipts, Goto
<1>10. ASSUME NEW c \in Collectors, Unlink(c) PROVE FoundInv'
  BY <1>10 DEF Unlink, Goto, FirstRaw
<1>11. ASSUME NEW c \in Collectors, WriteExpired(c) PROVE FoundInv'
  BY <1>11 DEF WriteExpired, Finish, Goto
<1>12. ASSUME NEW c \in Collectors, Stop(c) PROVE FoundInv'
  BY <1>12 DEF Stop, Goto
<1>13. ASSUME NEW o \in Observers, ReadTombstone(o) PROVE FoundInv'
  BY <1>13 DEF ReadTombstone
<1>14. ASSUME NEW o \in Observers, ReadReceipt(o) PROVE FoundInv'
  BY <1>14 DEF ReadReceipt, Committed
<1>15. ASSUME NEW o \in Observers, VerifyRaw(o) PROVE FoundInv'
  BY <1>15 DEF VerifyRaw
<1>16. ASSUME NEW o \in Observers, RebuildRecord(o) PROVE FoundInv'
  BY <1>16 DEF RebuildRecord
<1>17. CASE PowerLoss
  BY <1>17 DEF PowerLoss
<1>18. CASE UNCHANGED vars
  BY <1>18 DEF vars
<1> QED
  BY <1>1, <1>2, <1>3, <1>4, <1>5, <1>6, <1>7, <1>8, <1>9,
     <1>10, <1>11, <1>12, <1>13, <1>14, <1>15, <1>16, <1>17, <1>18
  DEF Next, CollectStep, ObserveStep

(* Raw files go under both records.                                        *)
LEMMA RawStep ==
    ASSUME TypeOK, PassInv, DiskInv, SyncedInv, RawGoneIsCommitted, [Next]_vars PROVE RawGoneIsCommitted'
<1> USE RetentionBounds
    DEF obs, Records, TypeOK, PassInv, DiskInv, SyncedInv, Begun, Written,
        RawGoneIsCommitted, Reconciled
<1>1. ASSUME NEW c \in Collectors, Lock(c) PROVE RawGoneIsCommitted'
  BY <1>1 DEF Lock, Goto
<1>2. ASSUME NEW c \in Collectors, Refuse(c) PROVE RawGoneIsCommitted'
  BY <1>2 DEF Refuse, Finish, Goto, Conflict
<1>3. ASSUME NEW c \in Collectors, ReadRecords(c) PROVE RawGoneIsCommitted'
  BY <1>3 DEF ReadRecords, Goto, Conflict, NextWrite
<1>4. ASSUME NEW c \in Collectors, WriteTombstone(c) PROVE RawGoneIsCommitted'
  BY <1>4 DEF WriteTombstone, Goto
<1>5. ASSUME NEW c \in Collectors, SyncCapture(c) PROVE RawGoneIsCommitted'
  BY <1>5 DEF SyncCapture, Goto, NextWrite
<1>6. ASSUME NEW c \in Collectors, EnsureReceipts(c) PROVE RawGoneIsCommitted'
  BY <1>6 DEF EnsureReceipts, Goto
<1>7. ASSUME NEW c \in Collectors, SyncRoot(c) PROVE RawGoneIsCommitted'
  BY <1>7 DEF SyncRoot, Goto
<1>8. ASSUME NEW c \in Collectors, WriteReceipt(c) PROVE RawGoneIsCommitted'
  BY <1>8 DEF WriteReceipt, Goto
<1>9. ASSUME NEW c \in Collectors, SyncReceipts(c) PROVE RawGoneIsCommitted'
  BY <1>9 DEF SyncReceipts, Goto
<1>10. ASSUME NEW c \in Collectors, Unlink(c) PROVE RawGoneIsCommitted'
  BY <1>10 DEF Unlink, Goto, FirstRaw
<1>11. ASSUME NEW c \in Collectors, WriteExpired(c) PROVE RawGoneIsCommitted'
  BY <1>11 DEF WriteExpired, Finish, Goto
<1>12. ASSUME NEW c \in Collectors, Stop(c) PROVE RawGoneIsCommitted'
  BY <1>12 DEF Stop, Goto
<1>13. ASSUME NEW o \in Observers, ReadTombstone(o) PROVE RawGoneIsCommitted'
  BY <1>13 DEF ReadTombstone
<1>14. ASSUME NEW o \in Observers, ReadReceipt(o) PROVE RawGoneIsCommitted'
  BY <1>14 DEF ReadReceipt, Committed
<1>15. ASSUME NEW o \in Observers, VerifyRaw(o) PROVE RawGoneIsCommitted'
  BY <1>15 DEF VerifyRaw
<1>16. ASSUME NEW o \in Observers, RebuildRecord(o) PROVE RawGoneIsCommitted'
  BY <1>16 DEF RebuildRecord
<1>17. CASE PowerLoss
  <2>1. losses' # 0 /\ kind' = kind /\ stops' = stops
    BY <1>17 DEF PowerLoss
  <2> QED
    BY <1>17, <2>1, LossKeepsRecords
<1>18. CASE UNCHANGED vars
  BY <1>18 DEF vars
<1> QED
  BY <1>1, <1>2, <1>3, <1>4, <1>5, <1>6, <1>7, <1>8, <1>9,
     <1>10, <1>11, <1>12, <1>13, <1>14, <1>15, <1>16, <1>17, <1>18
  DEF Next, CollectStep, ObserveStep

(* What observers say is found, and what is found is so.                   *)
LEMMA ObserversStep ==
    ASSUME TypeOK, PassInv, FoundInv, RawGoneIsCommitted, ObserversAreHonest, [Next]_vars PROVE ObserversAreHonest'
<1> USE RetentionBounds
    DEF obs, Records, TypeOK, PassInv, FoundInv, Begun, Written,
        RawGoneIsCommitted, ObserversAreHonest, Reconciled
<1>1. ASSUME NEW c \in Collectors, Lock(c) PROVE ObserversAreHonest'
  BY <1>1 DEF Lock, Goto
<1>2. ASSUME NEW c \in Collectors, Refuse(c) PROVE ObserversAreHonest'
  BY <1>2 DEF Refuse, Finish, Goto, Conflict
<1>3. ASSUME NEW c \in Collectors, ReadRecords(c) PROVE ObserversAreHonest'
  BY <1>3 DEF ReadRecords, Goto, Conflict, NextWrite
<1>4. ASSUME NEW c \in Collectors, WriteTombstone(c) PROVE ObserversAreHonest'
  BY <1>4 DEF WriteTombstone, Goto
<1>5. ASSUME NEW c \in Collectors, SyncCapture(c) PROVE ObserversAreHonest'
  BY <1>5 DEF SyncCapture, Goto, NextWrite
<1>6. ASSUME NEW c \in Collectors, EnsureReceipts(c) PROVE ObserversAreHonest'
  BY <1>6 DEF EnsureReceipts, Goto
<1>7. ASSUME NEW c \in Collectors, SyncRoot(c) PROVE ObserversAreHonest'
  BY <1>7 DEF SyncRoot, Goto
<1>8. ASSUME NEW c \in Collectors, WriteReceipt(c) PROVE ObserversAreHonest'
  BY <1>8 DEF WriteReceipt, Goto
<1>9. ASSUME NEW c \in Collectors, SyncReceipts(c) PROVE ObserversAreHonest'
  BY <1>9 DEF SyncReceipts, Goto
<1>10. ASSUME NEW c \in Collectors, Unlink(c) PROVE ObserversAreHonest'
  BY <1>10 DEF Unlink, Goto, FirstRaw
<1>11. ASSUME NEW c \in Collectors, WriteExpired(c) PROVE ObserversAreHonest'
  BY <1>11 DEF WriteExpired, Finish, Goto
<1>12. ASSUME NEW c \in Collectors, Stop(c) PROVE ObserversAreHonest'
  BY <1>12 DEF Stop, Goto
<1>13. ASSUME NEW o \in Observers, ReadTombstone(o) PROVE ObserversAreHonest'
  BY <1>13 DEF ReadTombstone
<1>14. ASSUME NEW o \in Observers, ReadReceipt(o) PROVE ObserversAreHonest'
  <2> SUFFICES ASSUME losses = 0 PROVE ObserversAreHonest'
    BY <1>14 DEF ReadReceipt
  <2>1. UNCHANGED <<live, index, losses>>
    BY <1>14 DEF ReadReceipt
  <2>2. seen'[o] = "expired" => Reconciled
    BY <1>14 DEF ReadReceipt, Committed
  <2>3. seen'[o] \notin {"live", "expired"} => live.tomb # "none"
    BY <1>14 DEF ReadReceipt, Committed
  <2>4. \A p \in Observers : p # o => answer'[p] = answer[p]
    BY <1>14 DEF ReadReceipt
  <2>5. \/ answer'[o] = answer[o]
        \/ answer'[o] = "Expired" /\ seen'[o] = "expired"
        \/ answer'[o] = "Tampered" /\ seen'[o] \notin {"live", "expired"}
    BY <1>14 DEF ReadReceipt
  <2> QED
    BY <2>1, <2>2, <2>3, <2>4, <2>5
<1>15. ASSUME NEW o \in Observers, VerifyRaw(o) PROVE ObserversAreHonest'
  BY <1>15 DEF VerifyRaw
<1>16. ASSUME NEW o \in Observers, RebuildRecord(o) PROVE ObserversAreHonest'
  BY <1>16 DEF RebuildRecord
<1>17. CASE PowerLoss
  BY <1>17 DEF PowerLoss
<1>18. CASE UNCHANGED vars
  BY <1>18 DEF vars
<1> QED
  BY <1>1, <1>2, <1>3, <1>4, <1>5, <1>6, <1>7, <1>8, <1>9,
     <1>10, <1>11, <1>12, <1>13, <1>14, <1>15, <1>16, <1>17, <1>18
  DEF Next, CollectStep, ObserveStep

LEMMA InitInv == Init => IInv
<1> SUFFICES ASSUME Init PROVE IInv
  OBVIOUS
<1>1. live.raw = RawFiles /\ live.tomb = "none" /\ live.receipt = "none" /\ disk = live
  BY DEF Init
<1>2. TypeOK
  BY RetentionBounds DEF Init, TypeOK, Records
<1>3. PassInv /\ DiskInv /\ SyncedInv
  BY <1>1 DEF Init, PassInv, DiskInv, SyncedInv, Begun, Written
<1>4. FoundInv /\ RawGoneIsCommitted /\ RecordsReconcile /\ ObserversAreHonest
  BY <1>1 DEF Init, FoundInv, RawGoneIsCommitted, RecordsReconcile, ObserversAreHonest
<1> QED
  BY <1>2, <1>3, <1>4 DEF IInv

LEMMA StepInv == IInv /\ [Next]_vars => IInv'
  BY TypeStep, PassStep, DiskStep, SyncedStep, RecordsStep, FoundStep, RawStep,
     ObserversStep
  DEF IInv

(* The inductive invariant of collect_captures and of those who read while *)
(* it runs.                                                                *)
THEOREM Invariance == Spec => []IInv
  BY InitInv, StepInv, PTL DEF Spec

(* Every variable keeps its type.                                          *)
THEOREM RetentionTypes == Spec => []TypeOK
<1>1. IInv => TypeOK
  BY DEF IInv
<1> QED
  BY <1>1, Invariance, PTL

(* The unlinks of collect_captures come after both records, whatever cuts  *)
(* passes short or, alone, whatever power is lost.                         *)
THEOREM RawGoneUnderRecords == Spec => []RawGoneIsCommitted
<1>1. IInv => RawGoneIsCommitted
  BY DEF IInv
<1> QED
  BY <1>1, Invariance, PTL

(* A collector refuses the record of another policy.                       *)
THEOREM RecordsAgree == Spec => []RecordsReconcile
<1>1. IInv => RecordsReconcile
  BY DEF IInv
<1> QED
  BY <1>1, Invariance, PTL

(* verify and the index rebuild need no lock to be right about expiry.     *)
THEOREM HonestObservers == Spec => []ObserversAreHonest
<1>1. IInv => ObserversAreHonest
  BY DEF IInv
<1> QED
  BY <1>1, Invariance, PTL

-----------------------------------------------------------------------------
(* The refinement.                                                         *)

(* A collector's step begins, commits or discards, or is not seen.         *)
LEMMA CollectImplements ==
    ASSUME IInv, NEW c \in Collectors, CollectStep(c) \/ Stop(c)
    PROVE  [Abstract!Next]_<<Phase, live.raw = RawFiles, losses>>
<1>1. losses' = losses
  BY DEF CollectStep, Lock, Refuse, ReadRecords, WriteTombstone, SyncCapture,
      EnsureReceipts, SyncRoot, WriteReceipt, SyncReceipts, Unlink, WriteExpired, Stop
<1>2. CASE WriteTombstone(c)
  <2>1. /\ live.tomb = "none" /\ live.receipt \in {"none", c}
        /\ live'.tomb = c /\ live'.receipt = live.receipt /\ live'.raw = live.raw
        /\ c # "none"
    BY <1>2, RetentionBounds DEF WriteTombstone, IInv, PassInv, TypeOK
  <2>2. CASE live.receipt = "none"
    BY <1>1, <2>1, <2>2 DEF Abstract!Next, Abstract!Begin, Phase, Reconciled
  <2>3. CASE live.receipt = c
    BY <1>1, <2>1, <2>3 DEF Abstract!Next, Abstract!Commit, Phase, Reconciled
  <2> QED
    BY <2>1, <2>2, <2>3
<1>3. CASE WriteReceipt(c)
  <2>1. /\ live.tomb = c /\ live.receipt = "none" /\ c # "none"
        /\ live'.tomb = c /\ live'.receipt = c /\ live'.raw = live.raw
    BY <1>3, RetentionBounds DEF WriteReceipt, IInv, PassInv, TypeOK, Begun
  <2> QED
    BY <1>1, <2>1 DEF Abstract!Next, Abstract!Commit, Phase, Reconciled
<1>4. CASE Unlink(c)
  <2>1. /\ live.tomb = c /\ live.receipt = c /\ c # "none"
        /\ live'.tomb = c /\ live'.receipt = c
        /\ live'.raw = live.raw \ {FirstRaw(live.raw)}
    BY <1>4, RetentionBounds DEF Unlink, IInv, PassInv, TypeOK, Begun, Written
  <2>2. live'.raw # RawFiles
    BY <2>1 DEF FirstRaw, RawFiles
  <2> QED
    BY <1>1, <2>1, <2>2 DEF Abstract!Next, Abstract!Discard, Phase, Reconciled
<1>5. CASE EnsureReceipts(c)
  <2>1. live'.tomb = live.tomb /\ live'.receipt = live.receipt /\ live'.raw = live.raw
    BY <1>5 DEF EnsureReceipts, IInv, TypeOK
  <2> QED
    BY <1>1, <2>1 DEF Phase, Reconciled
<1>6. CASE UNCHANGED live
  BY <1>1, <1>6 DEF Phase, Reconciled
<1> QED
  BY <1>2, <1>3, <1>4, <1>5, <1>6
  DEF CollectStep, Lock, Refuse, ReadRecords, SyncCapture, SyncRoot, SyncReceipts,
      WriteExpired, Stop

(* A power loss completes no expiry.                                       *)
LEMMA LossImplements ==
    ASSUME IInv, PowerLoss PROVE Abstract!Lose
<1>1. /\ live'.tomb \in {"none", live.tomb} /\ live'.receipt \in {"none", live.receipt}
      /\ losses' = losses + 1
  BY DEF PowerLoss, IInv, DiskInv
<1>2. Phase' = "expired" => Phase = "expired"
  BY <1>1 DEF Phase, Reconciled
<1>3. Phase' \in {"kept", "pending", "expired"}
  BY DEF Phase
<1> QED
  BY <1>1, <1>2, <1>3 DEF Abstract!Lose, Abstract!Phases

(* collect_captures, with observers, interruptions and power losses, does  *)
(* no more than Expiry allows: expiry is begun, committed, and only then   *)
(* are raw bytes discarded.                                                *)
THEOREM RetentionImplementsExpiry == Spec => ImplementsExpiry
<1>1. ASSUME Init PROVE Abstract!Init
  <2>1. live.raw = RawFiles /\ live.tomb = "none" /\ live.receipt = "none" /\ losses = 0
    BY <1>1 DEF Init
  <2>2. Phase = "kept"
    BY <2>1 DEF Phase, Reconciled
  <2>3. (live.raw = RawFiles) = TRUE
    BY <2>1
  <2> QED
    BY <2>1, <2>2, <2>3 DEF Abstract!Init
<1>2. IInv /\ [Next]_vars => [Abstract!Next]_<<Phase, live.raw = RawFiles, losses>>
  <2> SUFFICES ASSUME IInv, [Next]_vars
               PROVE [Abstract!Next]_<<Phase, live.raw = RawFiles, losses>>
    OBVIOUS
  <2>1. ASSUME NEW o \in Observers, ObserveStep(o)
        PROVE  UNCHANGED <<Phase, live.raw = RawFiles, losses>>
    BY <2>1
    DEF ObserveStep, ReadTombstone, ReadReceipt, VerifyRaw, RebuildRecord, Phase, Reconciled
  <2>2. CASE UNCHANGED vars
    BY <2>2 DEF vars, Phase, Reconciled
  <2>3. CASE PowerLoss
    BY <2>3, LossImplements DEF Abstract!Next
  <2> QED
    BY <2>1, <2>2, <2>3, CollectImplements DEF Next
<1> QED
  BY <1>1, <1>2, Invariance, PTL DEF Spec, ImplementsExpiry, Abstract!Spec

-----------------------------------------------------------------------------
(* Durability, and where it ends.                                          *)

\* Where the receipt and its directory are on the disk as well: a receipt that
\* a power loss left alone, and one that the pass itself has written.
ReceiptInv ==
    /\ live.tomb = "none" /\ live.receipt # "none" =>
           live.dir /\ disk.dir /\ disk.receipt = live.receipt
    /\ \A c \in Collectors :
        /\ pc[c] \in {"tomb", "tombsync", "mkdir", "root1", "receipt"} =>
               action[c] = "ExpireRaw"
        /\ pc[c] \in {"tomb", "tombsync"} /\ live.receipt # "none" =>
               live.dir /\ disk.dir /\ disk.receipt = live.receipt
        /\ pc[c] \in {"root1", "receipt", "receiptsync", "root2"} => live.dir
        /\ pc[c] \in {"receipt", "receiptsync", "root2"} => disk.dir
        /\ pc[c] = "root2" => disk.receipt = live.receipt
        /\ pc[c] = "unlink" /\ action[c] = "ExpireRaw" =>
               disk.dir /\ disk.receipt = live.receipt

(* A pass that reports ExpireRaw has synced a receipt it wrote, or found   *)
(* one that a power loss had left behind.                                  *)
LEMMA ReceiptStep ==
    ASSUME TypeOK, PassInv, DiskInv, ReceiptInv, [Next]_vars PROVE ReceiptInv'
<1> USE RetentionBounds
    DEF obs, Records, TypeOK, PassInv, DiskInv, ReceiptInv, Begun, Written
<1>1. ASSUME NEW c \in Collectors, Lock(c) PROVE ReceiptInv'
  BY <1>1 DEF Lock, Goto
<1>2. ASSUME NEW c \in Collectors, Refuse(c) PROVE ReceiptInv'
  BY <1>2 DEF Refuse, Finish, Goto
<1>3. ASSUME NEW c \in Collectors, ReadRecords(c) PROVE ReceiptInv'
  BY <1>3 DEF ReadRecords, Goto, Conflict, NextWrite
<1>4. ASSUME NEW c \in Collectors, WriteTombstone(c) PROVE ReceiptInv'
  BY <1>4 DEF WriteTombstone, Goto
<1>5. ASSUME NEW c \in Collectors, SyncCapture(c) PROVE ReceiptInv'
  BY <1>5 DEF SyncCapture, Goto, NextWrite
<1>6. ASSUME NEW c \in Collectors, EnsureReceipts(c) PROVE ReceiptInv'
  BY <1>6 DEF EnsureReceipts, Goto
<1>7. ASSUME NEW c \in Collectors, SyncRoot(c) PROVE ReceiptInv'
  BY <1>7 DEF SyncRoot, Goto
<1>8. ASSUME NEW c \in Collectors, WriteReceipt(c) PROVE ReceiptInv'
  BY <1>8 DEF WriteReceipt, Goto
<1>9. ASSUME NEW c \in Collectors, SyncReceipts(c) PROVE ReceiptInv'
  BY <1>9 DEF SyncReceipts, Goto
<1>10. ASSUME NEW c \in Collectors, Unlink(c) PROVE ReceiptInv'
  BY <1>10 DEF Unlink, Goto, FirstRaw
<1>11. ASSUME NEW c \in Collectors, WriteExpired(c) PROVE ReceiptInv'
  BY <1>11 DEF WriteExpired, Finish, Goto
<1>12. ASSUME NEW c \in Collectors, Stop(c) PROVE ReceiptInv'
  BY <1>12 DEF Stop, Goto
<1>13. ASSUME NEW o \in Observers, ObserveStep(o) PROVE ReceiptInv'
  BY <1>13 DEF ObserveStep, ReadTombstone, ReadReceipt, VerifyRaw, RebuildRecord
<1>14. CASE PowerLoss
  <2>1. /\ disk' = live'
        /\ live'.receipt # "none" => live'.dir
        /\ \A c \in Collectors : pc'[c] = "idle"
    BY <1>14 DEF PowerLoss
  <2> QED
    BY <2>1
<1>15. CASE UNCHANGED vars
  BY <1>15 DEF vars
<1> QED
  BY <1>1, <1>2, <1>3, <1>4, <1>5, <1>6, <1>7, <1>8, <1>9,
     <1>10, <1>11, <1>12, <1>13, <1>14, <1>15
  DEF Next, CollectStep

(* The documented order, tombstone and receipt durable before the first    *)
(* unlink, is kept as long as no pass was cut short, through any number of *)
(* power losses.  After an interruption a pass that reports ExpireRaw      *)
(* still has its receipt on the disk; what may be missing there is a       *)
(* tombstone that the interrupted pass had renamed in and not synced, and  *)
(* with AlreadyExpired, which trusts both records as it finds them, the    *)
(* receipt.                                                                *)
DurableUnlessResumed ==
    [][losses' = losses /\ live'.raw # live.raw =>
        /\ stops = 0 =>
               disk.dir /\ disk.tomb = live.tomb /\ disk.receipt = live.receipt
        /\ \A c \in Collectors : pc[c] = "unlink" /\ action[c] = "ExpireRaw" =>
               disk.dir /\ disk.receipt = live.receipt]_vars

(* collect_captures unlinks under durable records, but for those a pass    *)
(* that was cut short had left unsynced.                                   *)
THEOREM UnlinksUnderDurableRecords == Spec => DurableUnlessResumed
<1>1. Init => ReceiptInv
  BY DEF Init, ReceiptInv
<1>2. IInv /\ ReceiptInv /\ [Next]_vars => ReceiptInv'
  BY ReceiptStep DEF IInv
<1>3. ASSUME IInv, [Next]_vars, losses' = losses, live'.raw # live.raw, stops = 0
      PROVE  disk.dir /\ disk.tomb = live.tomb /\ disk.receipt = live.receipt
  <2>1. \E c \in Collectors : pc[c] = "unlink"
    BY <1>3 DEF IInv, TypeOK, Next, CollectStep, Lock, Refuse, ReadRecords, WriteTombstone,
       SyncCapture, EnsureReceipts, SyncRoot, WriteReceipt, SyncReceipts, Unlink,
       WriteExpired, Stop, ObserveStep, ReadTombstone, ReadReceipt, VerifyRaw,
       RebuildRecord, PowerLoss, vars
  <2>2. PICK c \in Collectors : pc[c] = "unlink"
    BY <2>1
  <2>3. live.receipt = c /\ c # "none"
    BY <1>3, <2>2, RetentionBounds DEF IInv, PassInv, Written
  <2>4. \A b \in Collectors : b # c => pc[b] = "idle"
    BY <1>3, <2>2 DEF IInv, PassInv
  <2>5. \A b \in Collectors : pc[b] \notin {"tombsync", "receiptsync", "root1"}
    BY <2>2, <2>4
  <2> QED
    BY <1>3, <2>3, <2>5 DEF IInv, TypeOK, SyncedInv
<1>4. IInv /\ ReceiptInv /\ [Next]_vars =>
        [losses' = losses /\ live'.raw # live.raw =>
            /\ stops = 0 =>
                   disk.dir /\ disk.tomb = live.tomb /\ disk.receipt = live.receipt
            /\ \A c \in Collectors : pc[c] = "unlink" /\ action[c] = "ExpireRaw" =>
                   disk.dir /\ disk.receipt = live.receipt]_vars
  BY <1>3 DEF ReceiptInv
<1> QED
  BY <1>1, <1>2, <1>4, Invariance, PTL DEF Spec, DurableUnlessResumed

=============================================================================
