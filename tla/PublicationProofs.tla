-------------------------- MODULE PublicationProofs --------------------------
(***************************************************************************)
(* Proofs about Publication: whatever the number of adopters, helpers and  *)
(* files, of failures and of power losses, a record has its durable backup *)
(* and a batch is published whole, in order.                               *)
(***************************************************************************)
EXTENDS Publication, TLAPS

Even(b) == b[1] = b[2]

\* From the creation of the backup to the record.
Own == {"copy", "finish", "sync", "sync-dir", "link"}
Copied == {"sync", "sync-dir", "link"}

\* Names lead to inodes in use, and what has no reader halfway is one version.
LastInv == last >= N /\ \A p \in Adopter : ino[p] \in 1..last
WholeInv ==
    /\ \A i \in Ino : Even(body[i])
    /\ \A h \in Helper, i \in Dest : Even(source[h][i]) /\ Even(cand[h][i])

\* One adopter at a time has made the backup and writes to it, and there is no
\* record until it is done.
ExclusiveInv ==
    \A p \in Adopter : pc[p] \in Own =>
        /\ record = NoRecord /\ backup # NoBody
        /\ \A q \in Adopter : pc[q] \in Own => q = p

\* What it has copied so far is what the backup holds and the hash is of.
CopyInv ==
    \A p \in Adopter :
        /\ pc[p] = "finish" => backup[1] = copied[p][1]
        /\ pc[p] \in Copied => backup = copied[p]
        /\ pc[p] \in {"sync-dir", "link"} => backupData
        /\ pc[p] = "link" => backupName

\* ... and what its open file holds, unless the user wrote to it meanwhile.
VersionInv ==
    \A p \in Adopter \ torn :
        /\ pc[p] = "finish" => copied[p][1] = body[ino[p]][1]
        /\ pc[p] \in Copied => Even(copied[p])

\* An adopter has made the record once it syncs it, and makes no call after.
MakerInv ==
    /\ record # NoRecord => pc[record.by] \in {"sync-record", "returned"}
    /\ \A p \in Adopter : pc[p] = "sync-record" => record # NoRecord /\ record.by = p

\* Once a record was returned its backup stays, and with it whatever record
\* there is: nobody can make another.
SettledInv ==
    \A p \in Adopter : result[p] = "ok" =>
        /\ pc[p] = "returned"
        /\ backup # NoBody /\ backupName
        /\ \A q \in Adopter : pc[q] \notin Own

\* What is renamed was verified, and a name that was replaced stays replaced.
BatchInv ==
    /\ \A i \in Dest : durable[i] > N => file[i] > N
    /\ \A h \in Helper :
        /\ step[h] = "sync" => file[at[h]] > N
        /\ step[h] = "idle" => at[h] = 1
        /\ step[h] = "prepare" => \A i \in 1..(at[h] - 1) : cand[h][i] = Requested
        /\ step[h] \in {"rename", "sync"} => \A i \in Dest : cand[h][i] = Requested

IInv ==
    /\ TypeOK /\ LastInv /\ WholeInv
    /\ ExclusiveInv /\ CopyInv /\ VersionInv /\ MakerInv /\ SettledInv
    /\ RecordHasBackup /\ BackupIsOneVersion /\ ReturnedRecordStays
    /\ BatchInv /\ BatchPublishesVerifiedPrefix

-------------------------------------------------------------------------------
(* Contents, and the types in parts *)

LEMMA Contents ==
    /\ \A x \in Half : Whole(x) \in Body /\ Even(Whole(x))
    /\ \A a, b \in Body : [a EXCEPT ![1] = b[1]] \in Body /\ [a EXCEPT ![2] = b[2]] \in Body
    /\ \A a, b \in Body : [a EXCEPT ![1] = b[1]][1] = b[1] /\ [a EXCEPT ![2] = b[2]][2] = b[2]
    /\ \A a, b \in Body : [a EXCEPT ![2] = b[2]][1] = a[1]
    /\ \A a, b \in Body : a[1] = b[1] /\ a[2] = b[2] => a = b
BY DEF Body, Whole, Even

\* The copy of either half.
LEMMA FirstHalf ==
    ASSUME NEW a \in Body, NEW b \in Body, NEW c, c = [a EXCEPT ![1] = b[1]]
    PROVE  c \in Body /\ c[1] = b[1]
BY Contents

LEMMA SecondHalf ==
    ASSUME NEW a \in Body, NEW b \in Body, NEW c, c = [a EXCEPT ![2] = b[2]]
    PROVE  c \in Body /\ c[2] = b[2] /\ c[1] = a[1]
BY Contents

LEMMA Constants ==
    /\ N \in Nat /\ N >= 1 /\ MaxIno \in Nat /\ MaxIno >= N
    /\ MaxFaults \in Nat /\ MaxUser \in Nat
    /\ Dest = 1..N /\ Ino = 1..MaxIno /\ Target \in Dest
    /\ NoOne \notin Adopter /\ NoBody \notin Body
    /\ \A x \in {"old", "new", "managed", "junk"} : Whole(x) \in Body /\ Even(Whole(x))
    /\ Requested \in Body
BY FilesAssumption, Contents DEF Dest, Ino, Target, Half, Requested

FilesOK ==
    /\ last \in Ino /\ body \in [Ino -> Body]
    /\ file \in [Dest -> 1..last] /\ durable \in [Dest -> 1..last]

BackupOK ==
    /\ backup \in Body \cup {NoBody}
    /\ backupData \in BOOLEAN /\ backupName \in BOOLEAN
    /\ record \in Record \cup {NoRecord} /\ recordName \in BOOLEAN
    /\ recordDir \in BOOLEAN /\ dirLost \in BOOLEAN

CallOK ==
    /\ task \in [Adopter -> {"none", "adopt", "load"}]
    /\ pc \in [Adopter -> {"idle", "load", "backup", "open", "create", "copy", "finish",
                           "sync", "sync-dir", "link", "reload", "sync-record", "returned"}]
    /\ ino \in [Adopter -> Ino]
    /\ copied \in [Adopter -> Body]
    /\ result \in [Adopter -> {"none", "ok", "error"}]
    /\ got \in [Adopter -> Record \cup {NoRecord}]

HelperOK ==
    /\ source \in [Helper -> [Dest -> Body]] /\ cand \in [Helper -> [Dest -> Body]]
    /\ step \in [Helper -> {"idle", "open", "prepare", "rename", "sync", "ok", "error"}]
    /\ at \in [Helper -> 1..(N + 1)]
    /\ \A h \in Helper : step[h] \in {"prepare", "rename", "sync"} => at[h] \in Dest

CountOK == torn \subseteq Adopter /\ faults \in 0..MaxFaults /\ user \in 0..MaxUser

LEMMA TypeParts ==
    /\ TypeOK <=> FilesOK /\ BackupOK /\ CallOK /\ HelperOK /\ CountOK
    /\ TypeOK' <=> FilesOK' /\ BackupOK' /\ CallOK' /\ HelperOK' /\ CountOK'
BY DEF TypeOK, FilesOK, BackupOK, CallOK, HelperOK, CountOK

\* A new inode in place of a destination.
LEMMA ReplaceTypes ==
    ASSUME FilesOK, NEW i \in Dest, NEW b \in Body, Replace(i, b), durable' = durable
    PROVE  FilesOK' /\ last' = last + 1 /\ file'[i] = last + 1
BY Constants DEF FilesOK, Replace

-------------------------------------------------------------------------------
(* Types *)

LEMMA FaultCounts == ASSUME CountOK, Fault PROVE faults' \in 0..MaxFaults
BY Constants DEF CountOK, Fault

LEMMA AdoptTypes ==
    ASSUME TypeOK, ExclusiveInv, NEW p \in Adopter, AdoptStep(p)
    PROVE  TypeOK'
<1> FilesOK /\ BackupOK /\ CallOK /\ HelperOK /\ CountOK
  BY TypeParts
<1> USE DEF Go, Goto, Return, Failed
<1>1. CASE Call(p)
  <2>1. BackupOK'
    BY <1>1 DEF Call, adoptVars, dirVars, BackupOK
  <2>2. file[Target] \in Ino
    BY Constants DEF FilesOK
  <2>3. /\ task' \in [Adopter -> {"none", "adopt", "load"}]
        /\ ino' \in [Adopter -> Ino]
    BY <1>1, <2>2 DEF Call, CallOK
  <2>4. CallOK'
    BY <1>1, <2>3 DEF Call, CallOK
  <2>5. FilesOK' /\ HelperOK' /\ CountOK'
    BY <1>1 DEF Call, AdoptFrame, fileVars, helperVars, FilesOK, HelperOK, CountOK
  <2> QED
    BY <2>1, <2>4, <2>5, TypeParts
<1>2. CASE LoadRecord(p)
  <2>1. BackupOK'
    BY <1>2, Constants DEF LoadRecord, Found, Valid, adoptVars, dirVars, BackupOK, Record, CallOK
  <2>2. CallOK'
    BY <1>2 DEF LoadRecord, Found, CallOK, BackupOK
  <2>3. FilesOK' /\ HelperOK' /\ CountOK'
    BY <1>2 DEF LoadRecord, AdoptFrame, fileVars, helperVars, FilesOK, HelperOK, CountOK
  <2> QED
    BY <2>1, <2>2, <2>3, TypeParts
<1>3. CASE CheckBackup(p)
  <2>1. BackupOK'
    BY <1>3, Constants DEF CheckBackup, adoptVars, dirVars, BackupOK, Record, CallOK
  <2>2. CallOK'
    BY <1>3, Constants DEF CheckBackup, CallOK, BackupOK, FilesOK
  <2>3. FilesOK' /\ HelperOK' /\ CountOK'
    BY <1>3 DEF CheckBackup, AdoptFrame, fileVars, helperVars, FilesOK, HelperOK, CountOK
  <2> QED
    BY <2>1, <2>2, <2>3, TypeParts
<1>4. CASE OpenSource(p)
  <2>1. BackupOK'
    BY <1>4, Constants DEF OpenSource, adoptVars, dirVars, BackupOK, Record, CallOK
  <2>2. CallOK'
    BY <1>4, Constants DEF OpenSource, CallOK, BackupOK, FilesOK
  <2>3. FilesOK' /\ HelperOK' /\ CountOK'
    BY <1>4 DEF OpenSource, AdoptFrame, fileVars, helperVars, FilesOK, HelperOK, CountOK
  <2> QED
    BY <2>1, <2>2, <2>3, TypeParts
<1>5. CASE CreateBackup(p)
  <2>1. BackupOK'
    BY <1>5, Constants DEF CreateBackup, adoptVars, dirVars, BackupOK, Record, CallOK
  <2>2. CallOK'
    BY <1>5, Constants DEF CreateBackup, CallOK, BackupOK, FilesOK
  <2>3. FilesOK' /\ HelperOK' /\ CountOK'
    BY <1>5 DEF CreateBackup, AdoptFrame, fileVars, helperVars, FilesOK, HelperOK, CountOK
  <2> QED
    BY <2>1, <2>2, <2>3, TypeParts
<1>6. CASE Reload(p)
  <2>1. BackupOK'
    BY <1>6, Constants DEF Reload, Found, Valid, adoptVars, dirVars, BackupOK, Record, CallOK
  <2>2. CallOK'
    BY <1>6, Constants DEF Reload, Found, Valid, CallOK, BackupOK, FilesOK
  <2>3. FilesOK' /\ HelperOK' /\ CountOK'
    BY <1>6 DEF Reload, AdoptFrame, fileVars, helperVars, FilesOK, HelperOK, CountOK
  <2> QED
    BY <2>1, <2>2, <2>3, TypeParts
<1>7. CASE Copy(p)
  <2>1. body[ino[p]] \in Body /\ backup \in Body
    BY <1>7 DEF FilesOK, CallOK, BackupOK, ExclusiveInv, Own, Copy, CopyHalf
  <2>2. copied'[p] \in Body /\ backup' \in Body
    BY <1>7, <2>1, Contents DEF CallOK, Copy, CopyHalf
  <2>3. BackupOK'
    BY <1>7, <2>2 DEF Copy, CopyHalf, dirVars, BackupOK
  <2>4. CallOK'
    BY <1>7, <2>2 DEF Copy, CopyHalf, CallOK
  <2>5. FilesOK' /\ HelperOK' /\ CountOK'
    BY <1>7 DEF Copy, CopyHalf, AdoptFrame, fileVars, helperVars, FilesOK, HelperOK, CountOK
  <2> QED
    BY <2>3, <2>4, <2>5, TypeParts
<1>8. CASE Finish(p)
  <2>1. body[ino[p]] \in Body /\ backup \in Body
    BY <1>8 DEF FilesOK, CallOK, BackupOK, ExclusiveInv, Own, Finish, CopyHalf
  <2>2. copied'[p] \in Body /\ backup' \in Body
    BY <1>8, <2>1, Contents DEF CallOK, Finish, CopyHalf
  <2>3. BackupOK'
    BY <1>8, <2>2 DEF Finish, CopyHalf, dirVars, BackupOK
  <2>4. CallOK'
    BY <1>8, <2>2 DEF Finish, CopyHalf, CallOK
  <2>5. FilesOK' /\ HelperOK' /\ CountOK'
    BY <1>8 DEF Finish, CopyHalf, AdoptFrame, fileVars, helperVars, FilesOK,
       HelperOK, CountOK
  <2> QED
    BY <2>3, <2>4, <2>5, TypeParts
<1>9. CASE SyncBackup(p)
  <2>1. BackupOK'
    BY <1>9, Constants DEF SyncBackup, adoptVars, dirVars, BackupOK, Record, CallOK
  <2>2. CallOK'
    BY <1>9, Constants DEF SyncBackup, CallOK, BackupOK, FilesOK
  <2>3. FilesOK' /\ HelperOK' /\ CountOK'
    BY <1>9 DEF SyncBackup, AdoptFrame, fileVars, helperVars, FilesOK, HelperOK, CountOK
  <2> QED
    BY <2>1, <2>2, <2>3, TypeParts
<1>10. CASE SyncBackupDir(p)
  <2>1. BackupOK'
    BY <1>10, Constants DEF SyncBackupDir, adoptVars, dirVars, BackupOK, Record, CallOK
  <2>2. CallOK'
    BY <1>10, Constants DEF SyncBackupDir, CallOK, BackupOK, FilesOK
  <2>3. FilesOK' /\ HelperOK' /\ CountOK'
    BY <1>10 DEF SyncBackupDir, AdoptFrame, fileVars, helperVars, FilesOK, HelperOK, CountOK
  <2> QED
    BY <2>1, <2>2, <2>3, TypeParts
<1>11. CASE LinkRecord(p)
  <2>1. [by |-> p, hash |-> copied[p]] \in Record
    BY DEF Record, CallOK
  <2>2. BackupOK'
    BY <1>11, <2>1 DEF LinkRecord, dirVars, BackupOK
  <2>3. CallOK'
    BY <1>11 DEF LinkRecord, CallOK
  <2>4. FilesOK' /\ HelperOK' /\ CountOK'
    BY <1>11 DEF LinkRecord, AdoptFrame, fileVars, helperVars, FilesOK, HelperOK, CountOK
  <2> QED
    BY <2>2, <2>3, <2>4, TypeParts
<1>12. CASE SyncRecord(p)
  <2>1. BackupOK'
    BY <1>12, Constants DEF SyncRecord, adoptVars, dirVars, BackupOK, Record, CallOK
  <2>2. CallOK'
    BY <1>12, Constants DEF SyncRecord, CallOK, BackupOK, FilesOK
  <2>3. FilesOK' /\ HelperOK' /\ CountOK'
    BY <1>12 DEF SyncRecord, AdoptFrame, fileVars, helperVars, FilesOK, HelperOK, CountOK
  <2> QED
    BY <2>1, <2>2, <2>3, TypeParts
<1>13. CASE AdoptAborts(p)
  <2>1. BackupOK'
    BY <1>13 DEF AdoptAborts, adoptVars, dirVars, BackupOK
  <2>2. CallOK'
    BY <1>13 DEF AdoptAborts, CallOK
  <2>3. FilesOK' /\ HelperOK'
    BY <1>13 DEF AdoptAborts, fileVars, helperVars, FilesOK, HelperOK
  <2>4. CountOK'
    BY <1>13, FaultCounts DEF AdoptAborts, CountOK
  <2> QED
    BY <2>1, <2>2, <2>3, <2>4, TypeParts
<1> QED
  BY <1>1, <1>2, <1>3, <1>4, <1>5, <1>6, <1>7, <1>8, <1>9, <1>10, <1>11, <1>12, <1>13
     DEF AdoptStep

LEMMA HelperTypes ==
    ASSUME TypeOK, BatchInv, NEW h \in Helper, HelperStep(h)
    PROVE  TypeOK'
<1> FilesOK /\ BackupOK /\ CallOK /\ HelperOK /\ CountOK
  BY TypeParts
<1>1. BackupOK' /\ CallOK' /\ torn' = torn /\ user' = user /\ source' = source
  BY DEF HelperStep, Request, Prepare, Publish, SyncParent, HelperAborts, HelperFrame,
         adoptVars, dirVars, callVars, BackupOK, CallOK
<1>2. CountOK'
  BY <1>1, FaultCounts
     DEF HelperStep, Request, Prepare, Publish, SyncParent, HelperAborts, CountOK
<1>3. CASE Request(h)
  <2>1. at[h] \in Dest
    BY <1>3, Constants DEF Request, HelperOK, BatchInv
  <2> QED
    BY <1>1, <1>2, <1>3, <2>1, TypeParts DEF Request, fileVars, FilesOK, HelperOK
<1>4. CASE Prepare(h)
  <2>1. at[h] \in Dest /\ at[h] \in 1..N
    BY <1>4, Constants DEF Prepare, HelperOK
  <2>2. cand' \in [Helper -> [Dest -> Body]]
    BY <1>4, <2>1 DEF Prepare, Candidate, HelperOK
  <2>3. at' \in [Helper -> 1..(N + 1)] /\ (at'[h] \in Dest) /\ \A g \in Helper \ {h} : at'[g] = at[g]
    BY <1>4, <2>1, Constants DEF Prepare, NextFile, BadBatch, HelperOK
  <2>4. /\ step' \in [Helper -> {"idle", "open", "prepare", "rename", "sync", "ok", "error"}]
        /\ \A g \in Helper \ {h} : step'[g] = step[g]
    BY <1>4 DEF Prepare, NextFile, BadBatch, HelperOK
  <2>5. FilesOK'
    BY <1>4 DEF Prepare, fileVars, FilesOK
  <2>6. HelperOK'
    BY <1>1, <2>2, <2>3, <2>4 DEF HelperOK
  <2> QED
    BY <1>1, <1>2, <2>5, <2>6, TypeParts
<1>5. CASE Publish(h)
  <2>1. at[h] \in Dest /\ cand[h][at[h]] \in Body
    BY <1>5 DEF Publish, HelperOK
  <2>2. FilesOK'
    BY <1>5, <2>1, ReplaceTypes DEF Publish
  <2>3. HelperOK'
    BY <1>1, <1>5, <2>1 DEF Publish, HelperOK
  <2> QED
    BY <1>1, <1>2, <2>2, <2>3, TypeParts
<1>6. CASE SyncParent(h)
  <2>1. at[h] \in Dest /\ at[h] \in 1..N
    BY <1>6, Constants DEF SyncParent, HelperOK
  <2>2. FilesOK'
    BY <1>6, <2>1 DEF SyncParent, FilesOK
  <2>3. at' \in [Helper -> 1..(N + 1)] /\ \A g \in Helper \ {h} : at'[g] = at[g]
    BY <1>6, <2>1, Constants DEF SyncParent, HelperOK
  <2>4. /\ step' \in [Helper -> {"idle", "open", "prepare", "rename", "sync", "ok", "error"}]
        /\ \A g \in Helper \ {h} : step'[g] = step[g]
    BY <1>6 DEF SyncParent, HelperOK
  <2>5. step'[h] = "rename" => at'[h] \in Dest
    BY <1>6, <2>1, Constants DEF SyncParent, HelperOK
  <2>6. step'[h] \in {"rename", "ok"}
    BY <1>6 DEF SyncParent, HelperOK
  <2>7. HelperOK'
    BY <1>1, <1>6, <2>3, <2>4, <2>5, <2>6 DEF SyncParent, HelperOK
  <2> QED
    BY <1>1, <1>2, <2>2, <2>7, TypeParts
<1>7. CASE HelperAborts(h)
  <2>1. FilesOK'
    BY <1>7 DEF HelperAborts, fileVars, FilesOK
  <2>2. step' = [step EXCEPT ![h] = "error"] /\ at' \in {at, [at EXCEPT ![h] = 1]}
    BY <1>7 DEF HelperAborts, BadBatch
  <2>3. 1 \in 1..(N + 1)
    BY Constants
  <2>4. at' \in [Helper -> 1..(N + 1)] /\ \A g \in Helper \ {h} : at'[g] = at[g]
    BY <2>2, <2>3 DEF HelperOK
  <2>5. HelperOK'
    BY <1>1, <1>7, <2>2, <2>4 DEF HelperAborts, HelperOK
  <2> QED
    BY <1>1, <1>2, <2>1, <2>5, TypeParts
<1> QED
  BY <1>3, <1>4, <1>5, <1>6, <1>7 DEF HelperStep

LEMMA UserTypes ==
    ASSUME TypeOK, User
    PROVE  TypeOK'
<1> FilesOK /\ BackupOK /\ CallOK /\ HelperOK /\ CountOK
  BY TypeParts
<1>1. /\ UNCHANGED <<durable, adoptVars, callVars, cand, step, at, faults>>
      /\ user' \in 0..MaxUser
  BY Constants DEF User, CountOK
<1>2. BackupOK' /\ CallOK'
  BY <1>1 DEF adoptVars, dirVars, callVars, BackupOK, CallOK
<1>3. CASE EditInPlace
  <2>1. file[Target] \in Ino /\ torn' \subseteq Adopter
    BY <1>3, Constants DEF EditInPlace, FilesOK, CountOK
  <2> QED
    BY <1>1, <1>2, <1>3, <2>1, Constants, TypeParts
       DEF EditInPlace, FilesOK, HelperOK, CountOK
<1>4. CASE EditByRename
  BY <1>1, <1>2, <1>4, Constants, ReplaceTypes, TypeParts
     DEF EditByRename, HelperOK, CountOK
<1>5. ASSUME NEW h \in Helper, NEW i \in Dest, EditStaged(h, i) PROVE TypeOK'
  BY <1>1, <1>2, <1>5, Constants, TypeParts DEF EditStaged, FilesOK, HelperOK, CountOK
<1> QED
  BY <1>3, <1>4, <1>5 DEF User

LEMMA PowerTypes ==
    ASSUME TypeOK, PowerLoss
    PROVE  TypeOK'
<1> FilesOK /\ BackupOK /\ CallOK /\ HelperOK /\ CountOK
  BY TypeParts
<1>1. UNCHANGED <<last, body, task, ino, copied, got, source, cand, torn, user>>
  BY DEF PowerLoss
<1>2. FilesOK'
  BY <1>1, Constants DEF PowerLoss, FilesOK
<1>3. backup' \in Body \cup {NoBody} /\ backupData' \in BOOLEAN /\ backupName' \in BOOLEAN
  BY Constants DEF PowerLoss, BackupOK
<1>4. /\ record' \in Record \cup {NoRecord} /\ recordName' \in BOOLEAN
      /\ recordDir' \in BOOLEAN /\ dirLost' \in BOOLEAN
  BY DEF PowerLoss, BackupOK
<1>5. CallOK'
  BY <1>1 DEF PowerLoss, CallOK
<1>6. HelperOK'
  BY <1>1, Constants DEF PowerLoss, HelperOK
<1>7. CountOK'
  BY <1>1, FaultCounts DEF PowerLoss, CountOK
<1> QED
  BY <1>2, <1>3, <1>4, <1>5, <1>6, <1>7, TypeParts DEF BackupOK

LEMMA TypeStep ==
    ASSUME TypeOK, ExclusiveInv, BatchInv, [Next]_vars
    PROVE  TypeOK'
<1>1. CASE UNCHANGED vars
  BY <1>1 DEF vars, fileVars, adoptVars, dirVars, callVars, helperVars, TypeOK
<1> QED
  BY <1>1, AdoptTypes, HelperTypes, UserTypes, PowerTypes DEF Next

-------------------------------------------------------------------------------
(* What a call of an adopter does to the record and its backup *)

Others(p) ==
    \A q \in Adopter \ {p} :
        /\ pc'[q] = pc[q] /\ copied'[q] = copied[q] /\ ino'[q] = ino[q]
        /\ result'[q] = result[q] /\ got'[q] = got[q]

\* It reads, gives up or fails.
Quiet(p) ==
    /\ UNCHANGED adoptVars
    /\ pc[p] # "returned" /\ pc'[p] \notin Own \cup {"sync-record"}
    /\ pc[p] = "sync-record" => pc'[p] = "returned"
    /\ result'[p] \in {result[p], "error"}

Finds(p) ==
    /\ UNCHANGED adoptVars
    /\ pc[p] \in {"load", "reload"} /\ pc'[p] = "returned"
    /\ record # NoRecord /\ got'[p] = record

Creates(p) ==
    /\ backup = NoBody /\ backup' = Whole("junk")
    /\ UNCHANGED <<record, recordName>>
    /\ pc[p] = "create" /\ pc'[p] = "copy" /\ result'[p] = result[p]

\* It copies the first half, or the second.
Writes(p) ==
    /\ UNCHANGED <<backupData, backupName, record, recordName>>
    /\ copied'[p] \in Body /\ backup' \in Body
    /\ ino'[p] = ino[p]
    /\ \/ /\ pc[p] = "copy" /\ pc'[p] = "finish"
          /\ backup'[1] = copied'[p][1] /\ copied'[p][1] = body[ino[p]][1]
       \/ /\ pc[p] = "finish" /\ pc'[p] = "sync"
          /\ backup[1] = copied[p][1] => backup' = copied'[p]
          /\ copied'[p][1] = copied[p][1] /\ copied'[p][2] = body[ino[p]][2]
    /\ result'[p] = result[p]

Syncs(p) ==
    /\ UNCHANGED <<backup, record, recordName>> /\ copied'[p] = copied[p]
    /\ \/ pc[p] = "sync" /\ pc'[p] = "sync-dir" /\ backupData' = TRUE /\ backupName' = backupName
       \/ pc[p] = "sync-dir" /\ pc'[p] = "link" /\ backupName' = TRUE /\ backupData' = backupData
    /\ result'[p] = result[p]

Links(p) ==
    /\ UNCHANGED <<backup, backupData, backupName>>
    /\ record = NoRecord /\ record' = [by |-> p, hash |-> copied[p]]
    /\ pc[p] = "link" /\ pc'[p] = "sync-record" /\ result'[p] = result[p]

Ends(p) ==
    /\ UNCHANGED <<backup, backupData, backupName, record>> /\ recordName' = TRUE
    /\ pc[p] = "sync-record" /\ pc'[p] = "returned"
    /\ got'[p] = record

Effect(p) ==
    /\ Others(p)
    /\ \/ Quiet(p) \/ Finds(p) \/ Creates(p) \/ Writes(p)
       \/ Syncs(p) \/ Links(p) \/ Ends(p)

LEMMA AdoptEffect ==
    ASSUME TypeOK, ExclusiveInv, NEW p \in Adopter, AdoptStep(p)
    PROVE  Effect(p)
<1> CallOK /\ BackupOK /\ FilesOK
  BY TypeParts
<1>1. Others(p)
  <2> USE DEF Go, Goto, Return, Failed, Others, CallOK
  <2>1. CASE Call(p)
    BY <2>1 DEF Call
  <2>2. CASE LoadRecord(p) \/ CheckBackup(p) \/ OpenSource(p) \/ CreateBackup(p) \/ Reload(p)
    BY <2>2 DEF LoadRecord, CheckBackup, OpenSource, CreateBackup, Reload, Found
  <2>3. CASE Copy(p) \/ Finish(p)
    BY <2>3 DEF Copy, Finish, CopyHalf
  <2>4. CASE SyncBackup(p) \/ SyncBackupDir(p) \/ LinkRecord(p) \/ SyncRecord(p) \/ AdoptAborts(p)
    BY <2>4 DEF SyncBackup, SyncBackupDir, LinkRecord, SyncRecord, AdoptAborts
  <2> QED
    BY <2>1, <2>2, <2>3, <2>4 DEF AdoptStep
<1>2. Quiet(p) \/ Finds(p) \/ Creates(p) \/ Writes(p) \/ Syncs(p) \/ Links(p) \/ Ends(p)
  <2> USE DEF Go, Goto, Return, Failed, CallOK
  <2>1. CASE Call(p)
    BY <2>1 DEF Call, Quiet, Own
  <2>2. CASE LoadRecord(p) \/ Reload(p)
    BY <2>2 DEF LoadRecord, Reload, Found, Quiet, Finds, Own
  <2>3. CASE CheckBackup(p) \/ OpenSource(p)
    BY <2>3 DEF CheckBackup, OpenSource, Quiet, Own
  <2>4. CASE CreateBackup(p)
    BY <2>4 DEF CreateBackup, Creates, Quiet, Own, adoptVars
  <2>5. CASE Copy(p) \/ Finish(p)
    <3>1. body[ino[p]] \in Body /\ backup \in Body
      BY <2>5 DEF FilesOK, BackupOK, ExclusiveInv, Own, Copy, Finish, CopyHalf
    <3>2. CASE Copy(p)
      <4>1. copied'[p] = [copied[p] EXCEPT ![1] = body[ino[p]][1]]
        BY <3>2 DEF Copy, CopyHalf
      <4>2. backup' = [backup EXCEPT ![1] = body[ino[p]][1]]
        BY <3>2 DEF Copy, CopyHalf
      <4>a. copied[p] \in Body
        OBVIOUS
      <4>3. copied'[p] \in Body /\ copied'[p][1] = body[ino[p]][1]
        BY <3>1, <4>1, <4>a, FirstHalf
      <4>4. backup' \in Body /\ backup'[1] = body[ino[p]][1]
        BY ONLY <3>1, <4>2, Contents
      <4> QED
        BY <3>2, <4>3, <4>4 DEF Copy, CopyHalf, Writes
    <3>3. CASE Finish(p)
      <4>1. copied'[p] = [copied[p] EXCEPT ![2] = body[ino[p]][2]]
        BY <3>3 DEF Finish, CopyHalf
      <4>2. backup' = [backup EXCEPT ![2] = body[ino[p]][2]]
        BY <3>3 DEF Finish, CopyHalf
      <4>a. copied[p] \in Body
        OBVIOUS
      <4>b. copied'[p] \in Body /\ copied'[p][2] = body[ino[p]][2] /\ copied'[p][1] = copied[p][1]
        BY <3>1, <4>1, <4>a, SecondHalf
      <4>c. backup' \in Body /\ backup'[2] = body[ino[p]][2] /\ backup'[1] = backup[1]
        BY ONLY <3>1, <4>2, Contents
      <4>3. /\ copied'[p] \in Body /\ backup' \in Body
            /\ backup'[2] = copied'[p][2]
            /\ backup'[1] = backup[1] /\ copied'[p][1] = copied[p][1]
        BY <4>b, <4>c
      <4>4. backup[1] = copied[p][1] => backup' = copied'[p]
        BY <4>3, Contents
      <4> QED
        BY <3>3, <4>3, <4>4, <4>b DEF Finish, CopyHalf, Writes
    <3> QED
      BY <2>5, <3>2, <3>3
  <2>6. CASE SyncBackup(p) \/ SyncBackupDir(p)
    BY <2>6 DEF SyncBackup, SyncBackupDir, Syncs
  <2>7. CASE LinkRecord(p)
    BY <2>7 DEF LinkRecord, Links, Quiet, Own, adoptVars
  <2>8. CASE SyncRecord(p)
    BY <2>8 DEF SyncRecord, Ends
  <2>9. CASE AdoptAborts(p)
    BY <2>9 DEF AdoptAborts, Quiet, Own
  <2> QED
    BY <2>1, <2>2, <2>3, <2>4, <2>5, <2>6, <2>7, <2>8, <2>9 DEF AdoptStep
<1> QED
  BY <1>1, <1>2 DEF Effect

\* The others leave all of that as it is.
LEMMA OthersLeaveCalls ==
    /\ \A h \in Helper : HelperStep(h) => UNCHANGED <<adoptVars, callVars>>
    /\ User => UNCHANGED <<adoptVars, callVars>>
BY DEF HelperStep, Request, Prepare, Publish, SyncParent, HelperAborts, HelperFrame, User

CallInv ==
    ExclusiveInv /\ CopyInv /\ MakerInv /\ SettledInv /\ RecordHasBackup /\ ReturnedRecordStays

LEMMA CallsStay == CallInv /\ UNCHANGED <<adoptVars, callVars>> => CallInv'
BY DEF CallInv, ExclusiveInv, CopyInv, MakerInv, SettledInv, RecordHasBackup,
       ReturnedRecordStays, adoptVars, dirVars, callVars

LEMMA NoRecordHasNoMaker ==
    /\ NoRecord.by = NoOne
    /\ \A r \in Record : r # NoRecord /\ r.by \in Adopter /\ r.hash # NoBody
BY Constants DEF NoRecord, Record

LEMMA ExclusiveAdopts ==
    ASSUME TypeOK, TypeOK', CallInv, NEW p \in Adopter, Effect(p)
    PROVE  ExclusiveInv'
<1> USE DEF CallInv, Effect, Others, ExclusiveInv, RecordHasBackup, Own, Copied
<1> CallOK /\ CallOK' /\ BackupOK /\ BackupOK'
  BY TypeParts
<1>1. CASE Quiet(p)
  BY <1>1, Constants, NoRecordHasNoMaker DEF Quiet, adoptVars, dirVars, BackupOK, CallOK
<1>2. CASE Finds(p)
  BY <1>2, Constants, NoRecordHasNoMaker DEF Finds, adoptVars, dirVars, BackupOK, CallOK
<1>3. CASE Creates(p)
  BY <1>3, Constants, NoRecordHasNoMaker DEF Creates, adoptVars, dirVars, BackupOK, CallOK
<1>4. CASE Writes(p)
  <2>1. pc[p] \in Own /\ record = NoRecord
    BY <1>4 DEF Writes
  <2>2. record' = NoRecord /\ backup' # NoBody
    BY <1>4, <2>1, Constants DEF Writes
  <2>3. \A q \in Adopter : pc'[q] \in Own => pc[q] \in Own
    BY <2>1
  <2>4. \A q, r \in Adopter : pc[q] \in Own /\ pc[r] \in Own => q = r
    OBVIOUS
  <2> QED
    BY <2>2, <2>3, <2>4
<1>5. CASE Syncs(p)
  BY <1>5, Constants, NoRecordHasNoMaker DEF Syncs, adoptVars, dirVars, BackupOK, CallOK
<1>6. CASE Links(p)
  <2>1. pc[p] \in Own /\ pc'[p] \notin Own /\ \A q \in Adopter \ {p} : pc'[q] = pc[q]
    BY <1>6 DEF Links
  <2>2. \A q \in Adopter \ {p} : pc[q] \notin Own
    BY <2>1
  <2> QED
    BY <2>1, <2>2
<1>7. CASE Ends(p)
  BY <1>7, Constants, NoRecordHasNoMaker DEF Ends, adoptVars, dirVars, BackupOK, CallOK
<1> QED
  BY <1>1, <1>2, <1>3, <1>4, <1>5, <1>6, <1>7 DEF Effect

LEMMA CopyAdopts ==
    ASSUME TypeOK, TypeOK', CallInv, NEW p \in Adopter, Effect(p)
    PROVE  CopyInv'
<1> USE DEF CallInv, Effect, Others, CopyInv, ExclusiveInv, Own, Copied
<1> CallOK /\ CallOK' /\ BackupOK /\ BackupOK'
  BY TypeParts
<1>1. CASE Quiet(p)
  BY <1>1, Constants, NoRecordHasNoMaker DEF Quiet, adoptVars, dirVars, BackupOK, CallOK
<1>2. CASE Finds(p)
  BY <1>2, Constants, NoRecordHasNoMaker DEF Finds, adoptVars, dirVars, BackupOK, CallOK
<1>3. CASE Creates(p)
  BY <1>3, Constants, NoRecordHasNoMaker DEF Creates, adoptVars, dirVars, BackupOK, CallOK
<1>4. CASE Writes(p)
  BY <1>4, Constants, NoRecordHasNoMaker DEF Writes, adoptVars, dirVars, BackupOK, CallOK
<1>5. CASE Syncs(p)
  BY <1>5, Constants, NoRecordHasNoMaker DEF Syncs, adoptVars, dirVars, BackupOK, CallOK
<1>6. CASE Links(p)
  BY <1>6, Constants, NoRecordHasNoMaker DEF Links, adoptVars, dirVars, BackupOK, CallOK
<1>7. CASE Ends(p)
  BY <1>7, Constants, NoRecordHasNoMaker DEF Ends, adoptVars, dirVars, BackupOK, CallOK
<1> QED
  BY <1>1, <1>2, <1>3, <1>4, <1>5, <1>6, <1>7 DEF Effect

LEMMA MakerAdopts ==
    ASSUME TypeOK, TypeOK', CallInv, NEW p \in Adopter, Effect(p)
    PROVE  MakerInv'
<1> USE DEF CallInv, Effect, Others, MakerInv, ExclusiveInv, Own, Copied
<1> CallOK /\ CallOK' /\ BackupOK /\ BackupOK'
  BY TypeParts
<1>1. CASE Quiet(p)
  BY <1>1, Constants, NoRecordHasNoMaker DEF Quiet, adoptVars, dirVars, BackupOK, CallOK
<1>2. CASE Finds(p)
  BY <1>2, Constants, NoRecordHasNoMaker DEF Finds, adoptVars, dirVars, BackupOK, CallOK
<1>3. CASE Creates(p)
  BY <1>3, Constants, NoRecordHasNoMaker DEF Creates, adoptVars, dirVars, BackupOK, CallOK
<1>4. CASE Writes(p)
  BY <1>4, Constants, NoRecordHasNoMaker DEF Writes, adoptVars, dirVars, BackupOK, CallOK
<1>5. CASE Syncs(p)
  BY <1>5, Constants, NoRecordHasNoMaker DEF Syncs, adoptVars, dirVars, BackupOK, CallOK
<1>6. CASE Links(p)
  BY <1>6, Constants, NoRecordHasNoMaker DEF Links, adoptVars, dirVars, BackupOK, CallOK
<1>7. CASE Ends(p)
  BY <1>7, Constants, NoRecordHasNoMaker DEF Ends, adoptVars, dirVars, BackupOK, CallOK
<1> QED
  BY <1>1, <1>2, <1>3, <1>4, <1>5, <1>6, <1>7 DEF Effect

LEMMA SettledAdopts ==
    ASSUME TypeOK, TypeOK', CallInv, NEW p \in Adopter, Effect(p)
    PROVE  SettledInv'
<1> USE DEF CallInv, Effect, Others, SettledInv, ExclusiveInv, MakerInv,
   RecordHasBackup, Own, Copied
<1> CallOK /\ CallOK' /\ BackupOK /\ BackupOK'
  BY TypeParts
<1>1. CASE Quiet(p)
  BY <1>1, Constants, NoRecordHasNoMaker DEF Quiet, adoptVars, dirVars, BackupOK, CallOK
<1>2. CASE Finds(p)
  BY <1>2, Constants, NoRecordHasNoMaker DEF Finds, adoptVars, dirVars, BackupOK, CallOK
<1>3. CASE Creates(p)
  BY <1>3, Constants, NoRecordHasNoMaker DEF Creates, adoptVars, dirVars, BackupOK, CallOK
<1>4. CASE Writes(p)
  BY <1>4, Constants, NoRecordHasNoMaker DEF Writes, adoptVars, dirVars, BackupOK, CallOK
<1>5. CASE Syncs(p)
  BY <1>5, Constants, NoRecordHasNoMaker DEF Syncs, adoptVars, dirVars, BackupOK, CallOK
<1>6. CASE Links(p)
  BY <1>6, Constants, NoRecordHasNoMaker DEF Links, adoptVars, dirVars, BackupOK, CallOK
<1>7. CASE Ends(p)
  BY <1>7, Constants, NoRecordHasNoMaker DEF Ends, adoptVars, dirVars, BackupOK, CallOK
<1> QED
  BY <1>1, <1>2, <1>3, <1>4, <1>5, <1>6, <1>7 DEF Effect

LEMMA RecordAdopts ==
    ASSUME TypeOK, TypeOK', CallInv, NEW p \in Adopter, Effect(p)
    PROVE  RecordHasBackup'
<1> USE DEF CallInv, Effect, Others, RecordHasBackup, ExclusiveInv, CopyInv, Own, Copied
<1> CallOK /\ CallOK' /\ BackupOK /\ BackupOK'
  BY TypeParts
<1>1. CASE Quiet(p)
  BY <1>1, Constants, NoRecordHasNoMaker DEF Quiet, adoptVars, dirVars, BackupOK, CallOK
<1>2. CASE Finds(p)
  BY <1>2, Constants, NoRecordHasNoMaker DEF Finds, adoptVars, dirVars, BackupOK, CallOK
<1>3. CASE Creates(p)
  BY <1>3, Constants, NoRecordHasNoMaker DEF Creates, adoptVars, dirVars, BackupOK, CallOK
<1>4. CASE Writes(p)
  BY <1>4, Constants, NoRecordHasNoMaker DEF Writes, adoptVars, dirVars, BackupOK, CallOK
<1>5. CASE Syncs(p)
  BY <1>5, Constants, NoRecordHasNoMaker DEF Syncs, adoptVars, dirVars, BackupOK, CallOK
<1>6. CASE Links(p)
  BY <1>6, Constants, NoRecordHasNoMaker DEF Links, adoptVars, dirVars, BackupOK, CallOK
<1>7. CASE Ends(p)
  BY <1>7, Constants, NoRecordHasNoMaker DEF Ends, adoptVars, dirVars, BackupOK, CallOK
<1> QED
  BY <1>1, <1>2, <1>3, <1>4, <1>5, <1>6, <1>7 DEF Effect

LEMMA ReturnedAdopts ==
    ASSUME TypeOK, TypeOK', CallInv, NEW p \in Adopter, Effect(p)
    PROVE  ReturnedRecordStays'
<1> USE DEF CallInv, Effect, Others, ReturnedRecordStays, SettledInv, ExclusiveInv,
   MakerInv, Own, Copied
<1> CallOK /\ CallOK' /\ BackupOK /\ BackupOK'
  BY TypeParts
<1>1. CASE Quiet(p)
  BY <1>1, Constants, NoRecordHasNoMaker DEF Quiet, adoptVars, dirVars, BackupOK, CallOK
<1>2. CASE Finds(p)
  BY <1>2, Constants, NoRecordHasNoMaker DEF Finds, adoptVars, dirVars, BackupOK, CallOK
<1>3. CASE Creates(p)
  BY <1>3, Constants, NoRecordHasNoMaker DEF Creates, adoptVars, dirVars, BackupOK, CallOK
<1>4. CASE Writes(p)
  <2>1. pc[p] \in Own /\ UNCHANGED <<record, recordName>>
    BY <1>4 DEF Writes
  <2>2. record' = NoRecord
    BY <2>1
  <2>3. pc'[p] \in Own
    BY <1>4 DEF Writes
  <2>4. \A q \in Adopter : pc'[q] = "returned" => pc[q] = "returned"
    BY <2>3
  <2> QED
    BY <1>4, <2>1, <2>2, <2>3, <2>4 DEF Writes
<1>5. CASE Syncs(p)
  BY <1>5, Constants, NoRecordHasNoMaker DEF Syncs, adoptVars, dirVars, BackupOK, CallOK
<1>6. CASE Links(p)
  BY <1>6, Constants, NoRecordHasNoMaker DEF Links, adoptVars, dirVars, BackupOK, CallOK
<1>7. CASE Ends(p)
  BY <1>7, Constants, NoRecordHasNoMaker DEF Ends, adoptVars, dirVars, BackupOK, CallOK
<1> QED
  BY <1>1, <1>2, <1>3, <1>4, <1>5, <1>6, <1>7 DEF Effect


-------------------------------------------------------------------------------
(* Files that are replaced *)

\* A destination that is replaced leads to an inode of its own, and the bodies
\* of the inodes in use stay.
LEMMA FilesGrow ==
    ASSUME FilesOK, LastInv, NEW i \in Dest, NEW b \in Body, Even(b), Replace(i, b)
    PROVE  /\ last' = last + 1 /\ last' > N /\ last' \in Ino
           /\ \A j \in 1..last : body'[j] = body[j]
           /\ (\A j \in Ino : Even(body[j])) => \A j \in Ino : Even(body'[j])
           /\ \A d \in Dest : file'[d] = file[d] \/ file'[d] > N
           /\ file'[i] > N
<1>1. last' = last + 1 /\ last' > N /\ last' \in Ino /\ last \in Nat
  BY Constants DEF FilesOK, Replace, LastInv
<1>2. body' = [body EXCEPT ![last + 1] = b] /\ file' = [file EXCEPT ![i] = last + 1]
  BY DEF Replace
<1>3. \A j \in 1..last : body'[j] = body[j]
  BY <1>1, <1>2, Constants DEF FilesOK
<1>4. \A j \in Ino : body'[j] = body[j] \/ body'[j] = b
  BY <1>2 DEF FilesOK
<1>5. \A d \in Dest : file'[d] = file[d] \/ file'[d] = last + 1
  BY <1>2 DEF FilesOK
<1>6. file'[i] = last + 1
  BY <1>2 DEF FilesOK
<1> QED
  BY <1>1, <1>3, <1>4, <1>5, <1>6 DEF Even

\* What a user's or a helper's step does to the files.
Grows ==
    /\ last' \in {last, last + 1}
    /\ \A i \in Dest : file'[i] = file[i] \/ file'[i] > N

LEMMA UserGrows == ASSUME TypeOK, LastInv, User PROVE Grows
<1> FilesOK
  BY TypeParts
<1>1. CASE EditByRename
  BY <1>1, FilesGrow, Constants DEF EditByRename, Grows
<1>2. CASE EditInPlace \/ \E h \in Helper, i \in Dest : EditStaged(h, i)
  BY <1>2 DEF EditInPlace, EditStaged, Grows
<1> QED
  BY <1>1, <1>2 DEF User

LEMMA HelperGrows ==
    ASSUME TypeOK, LastInv, WholeInv, NEW h \in Helper, HelperStep(h)
    PROVE  Grows
<1> FilesOK /\ HelperOK
  BY TypeParts
<1>1. CASE Publish(h)
  <2>1. at[h] \in Dest /\ cand[h][at[h]] \in Body /\ Even(cand[h][at[h]])
    BY <1>1 DEF Publish, HelperOK, WholeInv
  <2> QED
    BY <1>1, <2>1, FilesGrow DEF Publish, Grows
<1>2. CASE ~Publish(h)
  BY <1>2 DEF HelperStep, Request, Prepare, SyncParent, HelperAborts, fileVars, Grows
<1> QED
  BY <1>1, <1>2

LEMMA LastStep ==
    ASSUME TypeOK, TypeOK', LastInv, WholeInv, [Next]_vars
    PROVE  LastInv'
<1> FilesOK /\ FilesOK' /\ CallOK /\ CallOK' /\ last \in Nat /\ N \in Nat
  BY TypeParts, Constants DEF FilesOK
<1>1. ASSUME last' \in {last, last + 1}, ino' = ino PROVE LastInv'
  BY <1>1 DEF LastInv
<1>2. ASSUME NEW p \in Adopter, AdoptStep(p) PROVE LastInv'
  <2>1. last' = last /\ file[Target] \in 1..last
    BY <1>2, Constants
       DEF AdoptStep, Call, LoadRecord, CheckBackup, OpenSource, CreateBackup, Reload, Copy,
           Finish, CopyHalf, SyncBackup, SyncBackupDir, LinkRecord, SyncRecord, AdoptAborts,
           AdoptFrame, fileVars, FilesOK
  <2>2. ino' = ino \/ ino' = [ino EXCEPT ![p] = file[Target]]
    BY <1>2
       DEF AdoptStep, Call, LoadRecord, CheckBackup, OpenSource, CreateBackup, Reload, Copy,
           Finish, CopyHalf, SyncBackup, SyncBackupDir, LinkRecord, SyncRecord, AdoptAborts
  <2> QED
    BY <2>1, <2>2 DEF LastInv, CallOK
<1>3. ASSUME NEW h \in Helper, HelperStep(h) PROVE LastInv'
  BY <1>1, <1>3, HelperGrows, OthersLeaveCalls DEF Grows, callVars
<1>4. CASE User
  BY <1>1, <1>4, UserGrows, OthersLeaveCalls DEF Grows, callVars
<1>5. CASE PowerLoss
  BY <1>1, <1>5 DEF PowerLoss
<1>6. CASE UNCHANGED vars
  BY <1>1, <1>6 DEF vars, fileVars, callVars
<1> QED
  BY <1>2, <1>3, <1>4, <1>5, <1>6 DEF Next

LEMMA AdoptLeavesFiles ==
    ASSUME NEW p \in Adopter, AdoptStep(p)
    PROVE  UNCHANGED <<fileVars, helperVars, torn>>
BY DEF AdoptStep, Call, LoadRecord, CheckBackup, OpenSource, CreateBackup, Reload, Copy,
       Finish, CopyHalf, SyncBackup, SyncBackupDir, LinkRecord, SyncRecord, AdoptAborts, AdoptFrame

LEMMA WholeStep ==
    ASSUME TypeOK, TypeOK', LastInv, WholeInv, [Next]_vars
    PROVE  WholeInv'
<1> FilesOK /\ FilesOK' /\ HelperOK /\ HelperOK'
  BY TypeParts
<1>1. ASSUME UNCHANGED <<body, source, cand>> PROVE WholeInv'
  BY <1>1 DEF WholeInv
<1>2. ASSUME NEW p \in Adopter, AdoptStep(p) PROVE WholeInv'
  BY <1>1, <1>2, AdoptLeavesFiles DEF fileVars, helperVars
<1>3. ASSUME NEW h \in Helper, HelperStep(h) PROVE WholeInv'
  <2>1. CASE Publish(h)
    <3>1. at[h] \in Dest /\ cand[h][at[h]] \in Body /\ Even(cand[h][at[h]])
      BY <2>1 DEF Publish, HelperOK, WholeInv
    <3>2. source' = source /\ cand' = cand
      BY <2>1 DEF Publish, HelperFrame
    <3>3. \A j \in Ino : Even(body'[j])
      BY <2>1, <3>1, FilesGrow DEF Publish, WholeInv
    <3> QED
      BY <3>2, <3>3 DEF WholeInv
  <2>2. CASE Prepare(h)
    <3>1. body' = body /\ source' = source
      BY <2>2 DEF Prepare, HelperFrame, fileVars
    <3>2. cand' = [cand EXCEPT ![h][at[h]] = source[h][at[h]]] /\ at[h] \in Dest
      BY <2>2 DEF Prepare, Candidate, HelperOK
    <3>3. \A g \in Helper, i \in Dest : cand'[g][i] = cand[g][i] \/ cand'[g][i] = source[g][i]
      BY <3>2 DEF HelperOK
    <3> QED
      BY <3>1, <3>3 DEF WholeInv, Even
  <2>3. CASE Request(h) \/ SyncParent(h) \/ HelperAborts(h)
    BY <1>1, <2>3 DEF Request, SyncParent, HelperAborts, HelperFrame, fileVars
  <2> QED
    BY <1>3, <2>1, <2>2, <2>3 DEF HelperStep
<1>4. CASE User
  <2>1. cand' = cand
    BY <1>4 DEF User
  <2>2. CASE EditInPlace
    <3>1. body' = [body EXCEPT ![file[Target]] = Whole("new")] /\ source' = source
      BY <2>2 DEF EditInPlace
    <3>2. \A j \in Ino : body'[j] = body[j] \/ body'[j] = Whole("new")
      BY <3>1 DEF FilesOK
    <3> QED
      BY <2>1, <3>1, <3>2, Constants DEF WholeInv, Even
  <2>3. CASE EditByRename
    <3>1. \A j \in Ino : Even(body'[j])
      BY <2>3, FilesGrow, Constants DEF EditByRename, WholeInv
    <3> QED
      BY <2>1, <2>3, <3>1 DEF EditByRename, WholeInv
  <2>4. ASSUME NEW h \in Helper, NEW i \in Dest, EditStaged(h, i) PROVE WholeInv'
    <3>1. body' = body /\ source' = [source EXCEPT ![h][i] = Whole("new")]
      BY <2>4 DEF EditStaged
    <3>2. \A g \in Helper, j \in Dest : source'[g][j] = source[g][j] \/ source'[g][j] = Whole("new")
      BY <3>1 DEF HelperOK
    <3> QED
      BY <2>1, <3>1, <3>2, Constants DEF WholeInv, Even
  <2> QED
    BY <1>4, <2>2, <2>3, <2>4 DEF User
<1>5. CASE PowerLoss
  BY <1>1, <1>5 DEF PowerLoss
<1>6. CASE UNCHANGED vars
  BY <1>1, <1>6 DEF vars, fileVars, helperVars
<1> QED
  BY <1>2, <1>3, <1>4, <1>5, <1>6 DEF Next

-------------------------------------------------------------------------------
(* Power losses, and the steps that preserve what is said of calls *)

\* Nobody is in the middle of a call after it, and a durable backup is left.
LEMMA PowerLeaves ==
    ASSUME TypeOK, PowerLoss
    PROVE  /\ \A p \in Adopter : pc'[p] \in {"idle", "returned"}
           /\ \A p \in Adopter : pc[p] \in {"idle", "returned"} =>
                pc'[p] = pc[p] /\ result'[p] = result[p]
           /\ \A p \in Adopter : pc[p] \notin {"idle", "returned"} =>
                pc'[p] = "returned" /\ result'[p] = "error"
           /\ got' = got
           /\ record' \in {record, NoRecord}
           /\ recordName /\ record' # record => dirLost'
           /\ recordName /\ record # NoRecord /\ ~recordName' => dirLost'
           /\ dirLost => dirLost'
           /\ backupName /\ backup # NoBody =>
                backup' # NoBody /\ backupName' /\ (backupData => backup' = backup /\ backupData')
<1> CallOK /\ BackupOK
  BY TypeParts
<1>1. /\ \A p \in Adopter : pc'[p] \in {"idle", "returned"}
      /\ \A p \in Adopter : pc[p] \in {"idle", "returned"} =>
           pc'[p] = pc[p] /\ result'[p] = result[p]
      /\ \A p \in Adopter : pc[p] \notin {"idle", "returned"} =>
           pc'[p] = "returned" /\ result'[p] = "error"
  BY DEF PowerLoss, Surviving, CallOK
<1>2. /\ record' \in {record, NoRecord}
      /\ recordName /\ record' # record => dirLost'
      /\ recordName /\ record # NoRecord /\ ~recordName' => dirLost'
      /\ dirLost => dirLost'
  BY DEF PowerLoss, BackupOK
<1>3. backupName /\ backup # NoBody =>
        backup' # NoBody /\ backupName' /\ (backupData => backup' = backup /\ backupData')
  BY Constants DEF PowerLoss, BackupOK
<1>4. got' = got
  BY DEF PowerLoss
<1> QED
  BY <1>1, <1>2, <1>3, <1>4

LEMMA CallsThroughPower ==
    ASSUME TypeOK, TypeOK', CallInv, PowerLoss
    PROVE  CallInv'
<1> CallOK /\ BackupOK /\ CallOK' /\ BackupOK'
  BY TypeParts
<1>1. ExclusiveInv' /\ CopyInv'
  BY PowerLeaves DEF ExclusiveInv, CopyInv, Own, Copied
<1>2. MakerInv'
  BY PowerLeaves, NoRecordHasNoMaker DEF CallInv, MakerInv, BackupOK
<1>3. SettledInv'
  BY PowerLeaves DEF CallInv, SettledInv, Own, CallOK
<1>4. RecordHasBackup'
  <2>1. record # NoRecord => backup # NoBody
    BY NoRecordHasNoMaker DEF CallInv, RecordHasBackup, BackupOK
  <2> QED
    BY <2>1, PowerLeaves DEF CallInv, RecordHasBackup
<1>5. ReturnedRecordStays'
  <2> SUFFICES ASSUME NEW p \in Adopter, result'[p] = "ok"
               PROVE  /\ record' \in {got'[p], NoRecord}
                      /\ got'[p].by = p /\ ~dirLost' => record' = got'[p] /\ recordName'
    BY DEF ReturnedRecordStays
  <2>1. result[p] = "ok" /\ got'[p] = got[p]
    BY PowerLeaves DEF CallOK
  <2>2. /\ record \in {got[p], NoRecord}
        /\ got[p].by = p /\ ~dirLost => record = got[p] /\ recordName
    BY <2>1 DEF CallInv, ReturnedRecordStays
  <2>3. got[p].by = p => got[p] # NoRecord
    BY NoRecordHasNoMaker, Constants
  <2> QED
    BY <2>1, <2>2, <2>3, PowerLeaves
<1> QED
  BY <1>1, <1>2, <1>3, <1>4, <1>5 DEF CallInv

LEMMA CallStep ==
    ASSUME TypeOK, TypeOK', CallInv, [Next]_vars
    PROVE  CallInv'
<1>1. ASSUME NEW p \in Adopter, AdoptStep(p) PROVE CallInv'
  <2>1. Effect(p)
    BY <1>1, AdoptEffect DEF CallInv
  <2> QED
    BY <2>1, ExclusiveAdopts, CopyAdopts, MakerAdopts, SettledAdopts, RecordAdopts,
       ReturnedAdopts DEF CallInv
<1>2. ASSUME NEW h \in Helper, HelperStep(h) PROVE CallInv'
  BY <1>2, OthersLeaveCalls, CallsStay
<1>3. CASE User
  BY <1>3, OthersLeaveCalls, CallsStay
<1>4. CASE PowerLoss
  BY <1>4, CallsThroughPower
<1>5. CASE UNCHANGED vars
  BY <1>5, CallsStay DEF vars
<1> QED
  BY <1>1, <1>2, <1>3, <1>4, <1>5 DEF Next

-------------------------------------------------------------------------------
(* One version, and the batch *)

LEMMA VersionStep ==
    ASSUME TypeOK, TypeOK', LastInv, WholeInv, CallInv, VersionInv, BackupIsOneVersion,
           [Next]_vars
    PROVE  VersionInv' /\ BackupIsOneVersion'
<1> FilesOK /\ CallOK /\ CallOK' /\ CountOK /\ CountOK' /\ BackupOK /\ HelperOK
  BY TypeParts
<1>1. ASSUME NEW p \in Adopter, AdoptStep(p) PROVE VersionInv' /\ BackupIsOneVersion'
  <2> USE DEF Effect, Others, Own, Copied
  <2>1. Effect(p)
    BY <1>1, AdoptEffect DEF CallInv
  <2>2. body' = body /\ torn' = torn
    BY <1>1, AdoptLeavesFiles DEF fileVars
  <2>3. Even(body[ino[p]])
    BY DEF CallOK, WholeInv
  <2>4. ASSUME NEW q \in Adopter \ torn
        PROVE  /\ pc'[q] = "finish" => copied'[q][1] = body'[ino'[q]][1]
               /\ pc'[q] \in Copied => Even(copied'[q])
    <3>1. CASE q # p
      BY <2>1, <2>2, <3>1 DEF VersionInv
    <3>2. CASE q = p /\ (Quiet(p) \/ Finds(p) \/ Creates(p) \/ Links(p) \/ Ends(p))
      BY <3>2 DEF Quiet, Finds, Creates, Links, Ends
    <3>3. CASE q = p /\ Writes(p)
      BY <2>2, <2>3, <3>3 DEF Writes, VersionInv, Even
    <3>4. CASE q = p /\ Syncs(p)
      BY <3>4 DEF Syncs, VersionInv
    <3> QED
      BY <2>1, <3>1, <3>2, <3>3, <3>4
  <2>5. BackupIsOneVersion'
    <3>1. CASE record' = record
      BY <2>2, <3>1 DEF BackupIsOneVersion
    <3>2. CASE Links(p)
      BY <2>2, <3>2 DEF Links, VersionInv, BackupIsOneVersion, Even
    <3> QED
      BY <2>1, <3>1, <3>2 DEF Quiet, Finds, Creates, Writes, Syncs, Ends, adoptVars
  <2> QED
    BY <2>2, <2>4, <2>5 DEF VersionInv
<1>2. ASSUME UNCHANGED <<adoptVars, callVars>>, torn \subseteq torn',
             \A q \in Adopter \ torn' : pc[q] = "finish" => body'[ino[q]] = body[ino[q]]
      PROVE  VersionInv' /\ BackupIsOneVersion'
  BY <1>2 DEF VersionInv, BackupIsOneVersion, adoptVars, callVars
<1>3. ASSUME NEW h \in Helper, HelperStep(h) PROVE VersionInv' /\ BackupIsOneVersion'
  <2>1. torn' = torn
    BY <1>3 DEF HelperStep, Request, Prepare, Publish, SyncParent, HelperAborts, HelperFrame
  <2>2. \A j \in 1..last : body'[j] = body[j]
    <3>1. CASE Publish(h)
      <4>1. at[h] \in Dest /\ cand[h][at[h]] \in Body /\ Even(cand[h][at[h]])
        BY <3>1 DEF Publish, HelperOK, WholeInv
      <4> QED
        BY <3>1, <4>1, FilesGrow DEF Publish
    <3>2. CASE ~Publish(h)
      BY <1>3, <3>2 DEF HelperStep, Request, Prepare, SyncParent, HelperAborts, fileVars
    <3> QED
      BY <3>1, <3>2
  <2> QED
    BY <1>2, <1>3, <2>1, <2>2, OthersLeaveCalls DEF LastInv
<1>4. CASE User
  <2>1. CASE EditInPlace
    <3>1. body' = [body EXCEPT ![file[Target]] = Whole("new")]
      BY <2>1 DEF EditInPlace
    <3>2. torn' = torn \cup {p \in Adopter : pc[p] = "finish" /\ ino[p] = file[Target]}
      BY <2>1 DEF EditInPlace
    <3>3. ASSUME NEW q \in Adopter \ torn', pc[q] = "finish"
          PROVE  body'[ino[q]] = body[ino[q]]
      BY <3>1, <3>2, <3>3 DEF FilesOK, CallOK
    <3> QED
      BY <1>2, <1>4, <3>2, <3>3, OthersLeaveCalls
  <2>2. CASE EditByRename
    <3>1. \A j \in 1..last : body'[j] = body[j]
      BY <2>2, FilesGrow, Constants DEF EditByRename
    <3> QED
      BY <1>2, <1>4, <2>2, <3>1, OthersLeaveCalls DEF LastInv, EditByRename
  <2>3. CASE \E h \in Helper, i \in Dest : EditStaged(h, i)
    BY <1>2, <1>4, <2>3, OthersLeaveCalls DEF EditStaged
  <2> QED
    BY <1>4, <2>1, <2>2, <2>3 DEF User
<1>5. CASE PowerLoss
  <2>1. VersionInv'
    BY <1>5, PowerLeaves DEF VersionInv, Copied
  <2>2. torn' = torn
    BY <1>5 DEF PowerLoss
  <2>3. BackupIsOneVersion'
    BY <1>5, <2>2, PowerLeaves DEF BackupIsOneVersion
  <2> QED
    BY <2>1, <2>3
<1>6. CASE UNCHANGED vars
  BY <1>2, <1>6 DEF vars, fileVars
<1> QED
  BY <1>1, <1>3, <1>4, <1>5, <1>6 DEF Next

Verified(h) == \A i \in Dest : cand[h][i] = Requested
Settled(h) == \A i \in 1..(at[h] - 1) : durable[i] > N

\* The same for one helper: what a step must not disturb.
BatchOf(h) ==
    /\ step[h] = "sync" => file[at[h]] > N
    /\ step[h] = "idle" => at[h] = 1
    /\ step[h] = "prepare" => \A i \in 1..(at[h] - 1) : cand[h][i] = Requested
    /\ step[h] \in {"rename", "sync"} => Verified(h)
    /\ at[h] > 1 /\ step[h] # "prepare" => Verified(h) /\ Settled(h)

LEMMA BatchParts ==
    /\ BatchInv /\ BatchPublishesVerifiedPrefix <=>
         /\ \A i \in Dest : durable[i] > N => file[i] > N
         /\ \A h \in Helper : BatchOf(h)
    /\ (BatchInv /\ BatchPublishesVerifiedPrefix)' <=>
         /\ \A i \in Dest : durable'[i] > N => file'[i] > N
         /\ \A h \in Helper : BatchOf(h)'
BY DEF BatchInv, BatchPublishesVerifiedPrefix, BatchOf, Verified, Settled

\* A step of another: names go to new inodes, or what is on disk gets durable.
LEMMA BatchStays ==
    ASSUME TypeOK, TypeOK', NEW h \in Helper, BatchOf(h),
           step'[h] = step[h], at'[h] = at[h], cand'[h] = cand[h],
           \A i \in Dest : file'[i] = file[i] \/ file'[i] > N,
           \A i \in Dest : durable'[i] = durable[i] \/ durable'[i] > N
    PROVE  BatchOf(h)'
<1> HelperOK /\ FilesOK /\ N \in Nat /\ Dest = 1..N
  BY TypeParts, Constants
<1>1. step[h] = "sync" => file'[at[h]] > N
  BY DEF BatchOf, HelperOK
<1>2. Verified(h)' <=> Verified(h)
  BY DEF Verified
<1>3. Settled(h) => Settled(h)'
  <2> SUFFICES ASSUME Settled(h), NEW i \in 1..(at[h] - 1) PROVE durable'[i] > N
    BY DEF Settled
  <2>1. at[h] \in 1..(N + 1)
    BY DEF HelperOK
  <2>2. i \in Dest
    BY <2>1
  <2> QED
    BY <2>2 DEF Settled
<1> QED
  BY <1>1, <1>2, <1>3 DEF BatchOf

LEMMA BatchHelps ==
    ASSUME TypeOK, TypeOK', LastInv, WholeInv, BatchInv, BatchPublishesVerifiedPrefix,
           NEW h \in Helper, HelperStep(h)
    PROVE  (BatchInv /\ BatchPublishesVerifiedPrefix)'
<1> FilesOK /\ FilesOK' /\ HelperOK /\ HelperOK' /\ N \in Nat /\ N >= 1 /\ Dest = 1..N
  BY TypeParts, Constants
<1>1. BatchOf(h) /\ at[h] \in 1..(N + 1)
  BY BatchParts DEF HelperOK
<1>2. \A i \in Dest : file'[i] = file[i] \/ file'[i] > N
  BY HelperGrows DEF Grows
<1>3. \A g \in Helper \ {h} : step'[g] = step[g] /\ at'[g] = at[g] /\ cand'[g] = cand[g]
  BY DEF HelperStep, Request, Prepare, Publish, SyncParent, HelperAborts, NextFile,
     BadBatch,
         Candidate, HelperOK
<1>4. /\ \A i \in Dest : durable'[i] = durable[i] \/ durable'[i] > N
      /\ \A i \in Dest : durable'[i] > N => file'[i] > N
      /\ BatchOf(h)'
  <2>1. CASE Request(h)
    BY <1>1, <2>1 DEF Request, fileVars, BatchOf, BatchInv, Verified, Settled, HelperOK
  <2>2. CASE Prepare(h)
    <3>1. UNCHANGED fileVars /\ step[h] = "prepare" /\ at[h] \in 1..N
      BY <2>2 DEF Prepare, HelperOK
    <3>2. /\ cand'[h][at[h]] = source[h][at[h]]
          /\ \A i \in Dest \ {at[h]} : cand'[h][i] = cand[h][i]
      BY <2>2, <3>1 DEF Prepare, Candidate, HelperOK
    <3>3. CASE source[h][at[h]] = Requested /\ at[h] < N
      <4>1. step'[h] = "prepare" /\ at'[h] = at[h] + 1
        BY <2>2, <3>3 DEF Prepare, NextFile, HelperOK
      <4>2. \A i \in 1..at[h] : cand'[h][i] = Requested
        BY <1>1, <3>1, <3>2, <3>3 DEF BatchOf
      <4>3. BatchOf(h)'
        BY <3>1, <4>1, <4>2 DEF BatchOf
      <4> QED
        BY <3>1, <4>3 DEF fileVars, BatchInv
    <3>4. CASE source[h][at[h]] = Requested /\ at[h] = N
      <4>1. step'[h] = "rename" /\ at'[h] = 1
        BY <2>2, <3>4 DEF Prepare, NextFile, HelperOK
      <4>2. Verified(h)'
        BY <1>1, <3>1, <3>2, <3>4 DEF BatchOf, Verified
      <4>3. BatchOf(h)'
        BY <4>1, <4>2 DEF BatchOf
      <4> QED
        BY <3>1, <4>3 DEF fileVars, BatchInv
    <3>5. CASE source[h][at[h]] # Requested
      <4>1. step'[h] = "error" /\ at'[h] = 1
        BY <2>2, <3>5 DEF Prepare, BadBatch, HelperOK
      <4>2. BatchOf(h)'
        BY <4>1 DEF BatchOf
      <4> QED
        BY <3>1, <4>2 DEF fileVars, BatchInv
    <3> QED
      BY <3>1, <3>3, <3>4, <3>5
  <2>3. CASE Publish(h)
    <3>1. at[h] \in Dest /\ cand[h][at[h]] \in Body /\ Even(cand[h][at[h]])
      BY <2>3 DEF Publish, HelperOK, WholeInv
    <3>2. file'[at[h]] > N
      BY <2>3, <3>1, FilesGrow DEF Publish
    <3>3. durable' = durable /\ at' = at /\ cand' = cand /\ step[h] = "rename" /\ step'[h] = "sync"
      BY <2>3 DEF Publish, HelperOK
    <3>4. BatchOf(h)'
      BY <1>1, <3>2, <3>3 DEF BatchOf, Verified, Settled
    <3> QED
      BY <1>2, <3>3, <3>4 DEF BatchInv
  <2>4. CASE SyncParent(h)
    <3>1. at[h] \in 1..N /\ file[at[h]] > N /\ file' = file /\ cand' = cand
      BY <1>1, <2>4 DEF SyncParent, HelperOK, BatchOf
    <3>2. durable'[at[h]] > N /\ \A i \in Dest \ {at[h]} : durable'[i] = durable[i]
      BY <2>4, <3>1 DEF SyncParent, FilesOK
    <3>3. at'[h] = at[h] + 1 /\ step'[h] \in {"ok", "rename"} /\ step[h] = "sync"
      BY <2>4 DEF SyncParent, HelperOK
    <3>4. Verified(h)'
      BY <1>1, <3>1, <3>3 DEF BatchOf, Verified
    <3>5. Settled(h)'
      <4> SUFFICES ASSUME NEW i \in 1..(at'[h] - 1) PROVE durable'[i] > N
        BY DEF Settled
      <4>1. i \in 1..at[h]
        BY <3>1, <3>3
      <4>2. CASE i = at[h]
        BY <3>2, <4>2
      <4>3. CASE i < at[h]
        <5>1. i \in 1..(at[h] - 1) /\ i \in Dest \ {at[h]} /\ at[h] > 1
          BY <3>1, <4>1, <4>3
        <5> QED
          BY <1>1, <3>2, <3>3, <5>1 DEF BatchOf, Settled
      <4> QED
        BY <3>1, <4>1, <4>2, <4>3
    <3>6. BatchOf(h)'
      BY <3>3, <3>4, <3>5 DEF BatchOf
    <3> QED
      BY <3>1, <3>2, <3>6 DEF BatchInv
  <2>5. CASE HelperAborts(h)
    <3>1. UNCHANGED <<file, durable, cand>> /\ step'[h] = "error"
      BY <2>5 DEF HelperAborts, BadBatch, fileVars, HelperOK
    <3>2. at'[h] = 1 \/ (at'[h] = at[h] /\ step[h] \in {"rename", "sync"})
      BY <2>5 DEF HelperAborts, BadBatch, HelperOK
    <3>3. BatchOf(h)'
      BY <1>1, <3>1, <3>2 DEF BatchOf, Verified, Settled
    <3> QED
      BY <3>1, <3>3 DEF BatchInv
  <2> QED
    BY <2>1, <2>2, <2>3, <2>4, <2>5 DEF HelperStep
<1>5. \A g \in Helper \ {h} : BatchOf(g)'
  BY <1>2, <1>3, <1>4, BatchParts, BatchStays
<1> QED
  BY <1>4, <1>5, BatchParts

LEMMA BatchStep ==
    ASSUME TypeOK, TypeOK', LastInv, WholeInv, BatchInv, BatchPublishesVerifiedPrefix,
           [Next]_vars
    PROVE  (BatchInv /\ BatchPublishesVerifiedPrefix)'
<1> FilesOK /\ FilesOK' /\ HelperOK /\ HelperOK' /\ N \in Nat /\ N >= 1 /\ Dest = 1..N
  BY TypeParts, Constants
<1> (\A h \in Helper : BatchOf(h)) /\ \A i \in Dest : durable[i] > N => file[i] > N
  BY BatchParts
<1>1. ASSUME UNCHANGED <<durable, step, at, cand>>,
             \A i \in Dest : file'[i] = file[i] \/ file'[i] > N
      PROVE  (BatchInv /\ BatchPublishesVerifiedPrefix)'
  BY <1>1, BatchStays, BatchParts
<1>2. ASSUME NEW p \in Adopter, AdoptStep(p)
      PROVE  (BatchInv /\ BatchPublishesVerifiedPrefix)'
  BY <1>1, <1>2, AdoptLeavesFiles DEF fileVars, helperVars
<1>3. CASE User
  BY <1>1, <1>3, UserGrows DEF User, Grows
<1>4. CASE PowerLoss
  <2>1. \A i \in Dest : file'[i] \in {file[i], durable[i]} /\ durable'[i] = file'[i]
    BY <1>4 DEF PowerLoss
  <2>2. cand' = cand
    BY <1>4 DEF PowerLoss
  <2>3. ASSUME NEW h \in Helper PROVE BatchOf(h)'
    <3>1. /\ step'[h] = IF step[h] \in {"idle", "ok"} THEN step[h] ELSE "error"
          /\ at'[h] = IF step[h] = "prepare" THEN 1 ELSE at[h]
      BY <1>4 DEF PowerLoss, HelperOK
    <3>2. at[h] \in 1..(N + 1)
      BY DEF HelperOK
    <3>3. BatchOf(h) /\ (Settled(h) => \A i \in 1..(at[h] - 1) : durable'[i] > N)
      <4> SUFFICES ASSUME Settled(h), NEW i \in 1..(at[h] - 1)
                   PROVE  durable'[i] > N
        OBVIOUS
      <4>1. i \in Dest /\ durable[i] > N /\ file[i] > N
        BY <3>2 DEF Settled
      <4> QED
        BY <2>1, <4>1
    <3> QED
      BY <2>2, <3>1, <3>2, <3>3 DEF BatchOf, Verified, Settled
  <2> QED
    BY <2>1, <2>3, BatchParts
<1>5. CASE UNCHANGED vars
  BY <1>1, <1>5 DEF vars, fileVars, helperVars
<1> QED
  BY <1>2, <1>3, <1>4, <1>5, BatchHelps DEF Next

-------------------------------------------------------------------------------
(* The theorems *)

LEMMA InitInv == Init => IInv
<1> SUFFICES ASSUME Init PROVE IInv
  OBVIOUS
<1> USE Constants DEF Init
<1>1. FilesOK /\ BackupOK
  <2>1. last \in Ino /\ body \in [Ino -> Body]
    OBVIOUS
  <2>2. file \in [Dest -> 1..last] /\ durable = file
    OBVIOUS
  <2> QED
    BY <2>1, <2>2 DEF FilesOK, BackupOK
<1>2. CallOK
  BY DEF CallOK
<1>3. HelperOK /\ CountOK
  BY DEF HelperOK, CountOK
<1>4. LastInv /\ WholeInv
  BY DEF LastInv, WholeInv
<1>5. ExclusiveInv /\ CopyInv /\ VersionInv /\ MakerInv /\ SettledInv
  BY DEF ExclusiveInv, CopyInv, VersionInv, MakerInv, SettledInv, Own, Copied
<1>6. RecordHasBackup /\ BackupIsOneVersion /\ ReturnedRecordStays
  BY DEF RecordHasBackup, BackupIsOneVersion, ReturnedRecordStays
<1>7. BatchInv /\ BatchPublishesVerifiedPrefix
  BY DEF BatchInv, BatchPublishesVerifiedPrefix
<1> QED
  BY <1>1, <1>2, <1>3, <1>4, <1>5, <1>6, <1>7, TypeParts DEF IInv

\* The invariant is inductive.
LEMMA IInvStep == IInv /\ [Next]_vars => IInv'
<1> SUFFICES ASSUME IInv, [Next]_vars PROVE IInv'
  OBVIOUS
<1>1. TypeOK'
  BY TypeStep DEF IInv
<1>2. CallInv'
  BY <1>1, CallStep DEF IInv, CallInv
<1>3. LastInv' /\ WholeInv'
  BY <1>1, LastStep, WholeStep DEF IInv
<1>4. VersionInv' /\ BackupIsOneVersion'
  BY <1>1, VersionStep DEF IInv, CallInv
<1>5. (BatchInv /\ BatchPublishesVerifiedPrefix)'
  BY <1>1, BatchStep DEF IInv
<1> QED
  BY <1>1, <1>2, <1>3, <1>4, <1>5 DEF IInv, CallInv

LEMMA Invariance == Spec => []IInv
BY InitInv, IInvStep, PTL DEF Spec

\* Every reachable state of the files, the adopters and the helpers is well
\* typed.
THEOREM TypeCorrect == Spec => []TypeOK
<1>1. IInv => TypeOK
  BY DEF IInv
<1> QED
  BY <1>1, Invariance, PTL

\* A record has the durable backup that its hash is of, through every failure,
\* edit, publication and power loss: one adopter at a time writes to it, and it
\* is synced before the record is linked.
THEOREM RecordsHaveTheirBackup == Spec => []RecordHasBackup
<1>1. IInv => RecordHasBackup
  BY DEF IInv
<1> QED
  BY <1>1, Invariance, PTL

\* The backup is one version of the target, unless that file itself was written
\* to under the copy: a replaced name does not lead the copy astray.
THEOREM BackupsAreOneVersion == Spec => []BackupIsOneVersion
<1>1. IInv => BackupIsOneVersion
  BY DEF IInv
<1> QED
  BY <1>1, Invariance, PTL

\* Once a record was returned no other is ever made, and its maker's stays, but
\* for a power loss that takes the whole of adoptions/.
THEOREM ReturnedRecordsStay == Spec => []ReturnedRecordStays
<1>1. IInv => ReturnedRecordStays
  BY DEF IInv
<1> QED
  BY <1>1, Invariance, PTL

\* Whatever the length of a batch, the helper publishes a prefix of it, all of
\* it verified, and what it has synced stays published.
THEOREM BatchesPublishVerifiedPrefixes == Spec => []BatchPublishesVerifiedPrefix
<1>1. IInv => BatchPublishesVerifiedPrefix
  BY DEF IInv
<1> QED
  BY <1>1, Invariance, PTL
===============================================================================
