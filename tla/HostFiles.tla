------------------------------ MODULE HostFiles ------------------------------
(***************************************************************************)
(* Files of the host that the configurator adopts and publishes, in a file *)
(* system that may lose power: an inode has a body of two halves, a name   *)
(* leads to an inode, and a name is durable once its directory is synced.  *)
(* Adopt and SelfHelper work on them; Publication composes the two.        *)
(***************************************************************************)
EXTENDS Integers, FiniteSets

CONSTANTS
    Adopter,      \* calls of Adopt or Load for the first destination
    Helper,       \* runs of the privileged helper, each with a batch
    N,            \* destinations of a batch, in its order
    NoOne, NoBody,
    MaxIno,       \* bound: inodes
    MaxFaults,    \* bound: failed calls, killed processes and power losses
    MaxUser       \* bound: steps of the user

Dest == 1..N
Target == 1       \* the destination that is adopted
Ino == 1..MaxIno

\* Halves: what the user had, what he wrote since, what the configurator
\* publishes, and what a power loss leaves of unsynced data.
Half == {"old", "new", "managed", "junk"}
Body == Half \X Half
Whole(x) == <<x, x>>

ASSUME FilesAssumption ==
    /\ N \in Nat \ {0} /\ MaxIno \in Nat /\ MaxIno >= N
    /\ MaxFaults \in Nat /\ MaxUser \in Nat
    /\ NoOne \notin Adopter /\ NoBody \notin Body

VARIABLES
    file,         \* inode of each destination
    last,         \* last inode in use
    body,         \* contents of each inode
    durable,      \* inode of each destination after a power loss
    backup,       \* contents of the backup, NoBody when there is none
    backupData, backupName,     \* ... its data and its name are durable
    record,       \* the adoption record: who made it and the hash of the backup
    recordName,   \* ... its name is durable in adoptions/
    recordDir,    \* ... and the names that lead to adoptions/ are durable
    dirLost,      \* history: a power loss took adoptions/ with a synced record
    task, pc,     \* adopters: what they do and where they are
    ino,          \* the inode the adopter has looked up, then holds open
    copied,       \* the halves it has copied, which its hash is of
    result, got,  \* what it returned
    source,       \* staged contents of each helper's batch
    cand,         \* what its temporaries hold
    step, at,     \* helpers: where they are, and the file in hand
    torn,         \* history: adopters whose open target was edited in place
    faults, user

fileVars   == <<file, last, body, durable>>
dirVars    == <<recordDir, dirLost>>
adoptVars  == <<backup, backupData, backupName, record, recordName, dirVars>>
callVars   == <<task, pc, ino, copied, result, got>>
helperVars == <<source, cand, step, at>>
vars == <<fileVars, adoptVars, callVars, helperVars, torn, faults, user>>

NoRecord == [by |-> NoOne, hash |-> NoBody]
Record == [by : Adopter, hash : Body]

TypeOK ==
    /\ last \in Ino /\ body \in [Ino -> Body]
    /\ file \in [Dest -> 1..last] /\ durable \in [Dest -> 1..last]
    /\ backup \in Body \cup {NoBody}
    /\ backupData \in BOOLEAN /\ backupName \in BOOLEAN
    /\ record \in Record \cup {NoRecord} /\ recordName \in BOOLEAN
    /\ recordDir \in BOOLEAN /\ dirLost \in BOOLEAN
    /\ task \in [Adopter -> {"none", "adopt", "load"}]
    /\ pc \in [Adopter -> {"idle", "load", "backup", "open", "create", "copy", "finish",
                           "sync", "sync-dir", "link", "reload", "sync-record", "returned"}]
    /\ ino \in [Adopter -> Ino]
    /\ copied \in [Adopter -> Body]
    /\ result \in [Adopter -> {"none", "ok", "error"}]
    /\ got \in [Adopter -> Record \cup {NoRecord}]
    /\ source \in [Helper -> [Dest -> Body]] /\ cand \in [Helper -> [Dest -> Body]]
    /\ step \in [Helper -> {"idle", "open", "prepare", "rename", "sync", "ok", "error"}]
    /\ at \in [Helper -> 1..(N + 1)]
    /\ \A h \in Helper : step[h] \in {"prepare", "rename", "sync"} => at[h] \in Dest
    /\ torn \subseteq Adopter
    /\ faults \in 0..MaxFaults /\ user \in 0..MaxUser

\* adoptions/ may have been there for long, or be made by the first call, which
\* syncs neither of the directories above it.
Init ==
    /\ last = N
    /\ body = [i \in Ino |-> Whole("old")]
    /\ file = [i \in Dest |-> i] /\ durable = file
    /\ backup = NoBody /\ backupData = FALSE /\ backupName = FALSE
    /\ record = NoRecord /\ recordName = FALSE
    /\ recordDir \in BOOLEAN /\ dirLost = FALSE
    /\ task = [p \in Adopter |-> "none"] /\ pc = [p \in Adopter |-> "idle"]
    /\ ino = [p \in Adopter |-> Target]
    /\ copied = [p \in Adopter |-> Whole("junk")]
    /\ result = [p \in Adopter |-> "none"] /\ got = [p \in Adopter |-> NoRecord]
    /\ source = [h \in Helper |-> [i \in Dest |-> Whole("managed")]]
    /\ cand = [h \in Helper |-> [i \in Dest |-> Whole("junk")]]
    /\ step = [h \in Helper |-> "idle"] /\ at = [h \in Helper |-> 1]
    /\ torn = {}
    /\ faults = 0 /\ user = 0

Fault == faults < MaxFaults /\ faults' = faults + 1

\* A new inode takes the place of destination i.
Replace(i, b) ==
    /\ last < MaxIno
    /\ last' = last + 1
    /\ body' = [body EXCEPT ![last + 1] = b]
    /\ file' = [file EXCEPT ![i] = last + 1]

-------------------------------------------------------------------------------
(* The user *)

\* An edit in place, which a reader halfway sees half of.
EditInPlace ==
    /\ body' = [body EXCEPT ![file[Target]] = Whole("new")]
    /\ torn' = torn \cup {p \in Adopter : pc[p] = "finish" /\ ino[p] = file[Target]}
    /\ UNCHANGED <<file, last, source>>

\* An editor that writes a new file and renames it.
EditByRename == Replace(Target, Whole("new")) /\ UNCHANGED <<torn, source>>

\* A staged file of the user is written to after it was staged.
EditStaged(h, i) ==
    /\ source' = [source EXCEPT ![h][i] = Whole("new")]
    /\ UNCHANGED <<file, last, body, torn>>

User ==
    /\ user < MaxUser /\ user' = user + 1
    /\ EditInPlace \/ EditByRename \/ \E h \in Helper, i \in Dest : EditStaged(h, i)
    /\ UNCHANGED <<durable, adoptVars, callVars, cand, step, at, faults>>

-------------------------------------------------------------------------------
(* Power loss: unsynced data is lost, an unsynced name may be, and with the *)
(* name of a directory all that is in it                                    *)

Surviving(p) == pc[p] \in {"idle", "returned"}

PowerLoss ==
    /\ Fault
    /\ file' \in {f \in [Dest -> Ino] : \A i \in Dest : f[i] \in {file[i], durable[i]}}
    /\ durable' = file'
    /\ \E keep \in {backupName, TRUE} :
        /\ backup' = IF backup = NoBody \/ ~keep THEN NoBody
                     ELSE IF backupData THEN backup ELSE Whole("junk")
        /\ backupName' = (backup # NoBody /\ keep)
        /\ backupData' = (backup # NoBody /\ keep)
    /\ \E lose \in {~recordDir, FALSE}, named \in {recordName, TRUE} :
        /\ record' = IF named /\ ~lose THEN record ELSE NoRecord
        /\ recordName' = (record # NoRecord /\ named /\ ~lose)
        /\ recordDir' = ~lose
        /\ dirLost' = (dirLost \/ (lose /\ record # NoRecord /\ recordName))
    /\ pc' = [p \in Adopter |-> IF Surviving(p) THEN pc[p] ELSE "returned"]
    /\ result' = [p \in Adopter |-> IF Surviving(p) THEN result[p] ELSE "error"]
    /\ step' = [h \in Helper |-> IF step[h] \in {"idle", "ok"} THEN step[h] ELSE "error"]
    /\ at' = [h \in Helper |-> IF step[h] = "prepare" THEN 1 ELSE at[h]]
    /\ UNCHANGED <<last, body, task, ino, copied, got, source, cand, torn, user>>
===============================================================================
