-------------------------------- MODULE Adopt --------------------------------
(***************************************************************************)
(* internal/adopt/adopt.go: Store.Adopt and Store.Load for one target, the *)
(* backup made beside it with exclusive creation and the record that is    *)
(* published with a link. The store itself takes no lock.                  *)
(***************************************************************************)
EXTENDS HostFiles

Goto(p, label) == pc' = [pc EXCEPT ![p] = label]

Return(p, r, rec) ==
    /\ Goto(p, "returned")
    /\ result' = [result EXCEPT ![p] = r]
    /\ got' = [got EXCEPT ![p] = rec]

Failed(p) == Return(p, "error", NoRecord)
Go(p, label) == Goto(p, label) /\ UNCHANGED <<result, got>>
AdoptFrame == UNCHANGED <<fileVars, helperVars, torn, faults, user>>

\* validateRecord: the backup is read and its hash compared.
Valid(rec) == rec.hash = backup

\* loadRecord, when there is a record to load.
Found(p) == IF Valid(record) THEN Return(p, "ok", record) ELSE Failed(p)

\* The target is inspected first; its inode is remembered.
Call(p) ==
    /\ pc[p] = "idle"
    /\ task' \in {[task EXCEPT ![p] = t] : t \in {"adopt", "load"}}
    /\ ino' = [ino EXCEPT ![p] = file[Target]]
    /\ Go(p, "load")
    /\ UNCHANGED <<adoptVars, copied>>
    /\ AdoptFrame

LoadRecord(p) ==
    /\ pc[p] = "load"
    /\ IF record # NoRecord THEN Found(p)
       ELSE IF task[p] = "adopt" THEN Go(p, "backup") ELSE Failed(p)
    /\ UNCHANGED <<adoptVars, task, ino, copied>>
    /\ AdoptFrame

CheckBackup(p) ==
    /\ pc[p] = "backup"
    /\ IF backup = NoBody THEN Go(p, "open") ELSE Failed(p)
    /\ UNCHANGED <<adoptVars, task, ino, copied>>
    /\ AdoptFrame

\* The target must still be the file that was inspected.
OpenSource(p) ==
    /\ pc[p] = "open"
    /\ IF ino[p] = file[Target] THEN Go(p, "create") ELSE Failed(p)
    /\ UNCHANGED <<adoptVars, task, ino, copied>>
    /\ AdoptFrame

\* O_EXCL: a backup that exists by now is another adopter's.
CreateBackup(p) ==
    /\ pc[p] = "create"
    /\ IF backup = NoBody
       THEN /\ backup' = Whole("junk") /\ backupData' = FALSE /\ backupName' = FALSE
            /\ Go(p, "copy")
       ELSE Go(p, "reload") /\ UNCHANGED <<backup, backupData, backupName>>
    /\ UNCHANGED <<record, recordName, dirVars, task, ino, copied>>
    /\ AdoptFrame

\* After createBackup or link found that another was first.
Reload(p) ==
    /\ pc[p] = "reload"
    /\ IF record # NoRecord THEN Found(p) ELSE Failed(p)
    /\ UNCHANGED <<adoptVars, task, ino, copied>>
    /\ AdoptFrame

\* The copy reads the open file; its hash is of the bytes it wrote.
CopyHalf(p, here, next, k, b) ==
    /\ pc[p] = here
    /\ copied' = [copied EXCEPT ![p][k] = b[k]]
    /\ backup' = [backup EXCEPT ![k] = b[k]]
    /\ Go(p, next)
    /\ UNCHANGED <<backupData, backupName, record, recordName, dirVars, task, ino>>
    /\ AdoptFrame

Copy(p) == CopyHalf(p, "copy", "finish", 1, body[ino[p]])

\* Mutant: the rest is read from the path instead of the open file.
FinishByPath(p) == CopyHalf(p, "finish", "sync", 2, body[file[Target]])

Finish(p) == CopyHalf(p, "finish", "sync", 2, body[ino[p]])

\* Mutant: the hash is taken of the target once it is copied.
SyncHashingTarget(p) ==
    /\ pc[p] = "sync"
    /\ backupData' = TRUE
    /\ copied' = [copied EXCEPT ![p] = body[file[Target]]]
    /\ Go(p, "sync-dir")
    /\ UNCHANGED <<backup, backupName, record, recordName, dirVars, task, ino>>
    /\ AdoptFrame

SyncBackup(p) ==
    /\ pc[p] = "sync"
    /\ backupData' = TRUE
    /\ Go(p, "sync-dir")
    /\ UNCHANGED <<backup, backupName, record, recordName, dirVars, task, ino, copied>>
    /\ AdoptFrame

SyncBackupDir(p) ==
    /\ pc[p] = "sync-dir"
    /\ backupName' = TRUE
    /\ Go(p, "link")
    /\ UNCHANGED <<backup, backupData, record, recordName, dirVars, task, ino, copied>>
    /\ AdoptFrame

\* publishRecord: the record is staged, synced and linked if there is none.
LinkRecord(p) ==
    /\ pc[p] = "link"
    /\ IF record = NoRecord
       THEN /\ record' = [by |-> p, hash |-> copied[p]] /\ recordName' = FALSE
            /\ Go(p, "sync-record")
       ELSE Go(p, "reload") /\ UNCHANGED <<record, recordName>>
    /\ UNCHANGED <<backup, backupData, backupName, dirVars, task, ino, copied>>
    /\ AdoptFrame

\* Mutant: adoptions/ is not synced.
ReturnUnsynced(p) ==
    /\ pc[p] = "sync-record"
    /\ Return(p, "ok", record)
    /\ UNCHANGED <<adoptVars, task, ino, copied>>
    /\ AdoptFrame

\* adoptions/ is synced; ensureStateDirs, which made it, syncs nothing, and the
\* directories above it are not synced here either.
SyncRecord(p) ==
    /\ pc[p] = "sync-record"
    /\ recordName' = TRUE
    /\ Return(p, "ok", record)
    /\ UNCHANGED <<backup, backupData, backupName, record, dirVars, task, ino, copied>>
    /\ AdoptFrame

\* A call fails or the process is killed: what it made so far stays, a backup
\* without a record included.
AdoptAborts(p) ==
    /\ pc[p] \notin {"idle", "returned"}
    /\ Fault
    /\ Failed(p)
    /\ UNCHANGED <<fileVars, adoptVars, task, ino, copied, helperVars, torn, user>>

AdoptStep(p) ==
    \/ Call(p) \/ LoadRecord(p) \/ CheckBackup(p) \/ OpenSource(p) \/ CreateBackup(p)
    \/ Reload(p) \/ Copy(p) \/ Finish(p) \/ SyncBackup(p) \/ SyncBackupDir(p)
    \/ LinkRecord(p) \/ SyncRecord(p) \/ AdoptAborts(p)

-------------------------------------------------------------------------------
(* Properties *)

\* Whoever edits, replaces or publishes the target, and at whatever point
\* processes die or the power fails, a record has a durable backup with
\* exactly the bytes that its hash is of.
RecordHasBackup ==
    record # NoRecord => backup = record.hash /\ backupData /\ backupName

\* The backup is one version of the target, not parts of two, unless it was
\* edited in place under the copy: a target replaced meanwhile, by its user or
\* by the helper, does not show.
BackupIsOneVersion ==
    record # NoRecord /\ record.by \notin torn => record.hash[1] = record.hash[2]

\* All calls agree on the one record, across failures and power losses, and
\* the adopter that made it returns it only once it will stay; but for a power
\* loss that takes adoptions/ itself, whose name no call makes durable.
ReturnedRecordStays ==
    \A p \in Adopter : result[p] = "ok" =>
        /\ record \in {got[p], NoRecord}
        /\ got[p].by = p /\ ~dirLost => record = got[p] /\ recordName
===============================================================================
