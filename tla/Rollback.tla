------------------------------- MODULE Rollback -------------------------------
(***************************************************************************)
(* internal/app/command_operations.go (rollbackReceipt) and                *)
(* rollback_preconditions.go: runs of `rollback --receipt` for one         *)
(* receipt, first attempts and retries, over files that their user edits   *)
(* and through a file port that may fail.                                  *)
(*                                                                         *)
(* The managed files of the receipt are numbered in the order of their     *)
(* paths. The content of a file is told apart by its hash only. Of the     *)
(* receipt log this module needs which runs have a receipt; ReceiptStore   *)
(* has the rest.                                                           *)
(***************************************************************************)
EXTENDS Integers

CONSTANTS
    Run,          \* rollback runs
    N,            \* number of managed files in the receipt
    Receipts,     \* the classes those files may be recorded with
    NoRun,
    MaxFaults,    \* bound: failed calls and killed runs
    MaxEdits      \* bound: changes of the files by anyone else

Files == 1..N

\* "created" is a created or configurator record without a backup, whatever its
\* beforeHash; "adopted" is one with a backup, or an adopted one.
\* "unfit" is any record that is refused whatever the file holds: a class, path
\* or hash that is not valid, an adopted file without a backup, a package-owned
\* one with a hash from before.
Class == {"created", "adopted", "package", "unfit"}

ASSUME RollbackAssumption ==
    /\ N \in Nat \ {0}
    /\ Receipts \subseteq [Files -> Class]
    /\ NoRun \notin Run
    /\ MaxFaults \in Nat
    /\ MaxEdits \in Nat

VARIABLES
    class,      \* source.ManagedFiles
    live,       \* content of each file
    lock,       \* the run that holds the flock
    pc,         \* where each run is
    at,         \* the file the run has reached, in either loop
    inverse,    \* inverses, as far as planned
    err,        \* why the run failed, "none" if it did not
    log,        \* the runs that have a receipt
    executed,   \* history: the files each run has had the port change
    editsAt,    \* history: edits when the run took the lock
    faults, edits

runVars == <<at, inverse, err, executed, editsAt>>
vars == <<class, live, lock, pc, at, inverse, err, log, executed, editsAt,
          faults, edits>>

\* As the receipt left it; as its backup or its package has it; as somebody
\* else made it; half restored; not there.
Content == {"after", "restored", "edited", "partial", "absent"}
Action  == {"remove-file", "restore-backup", "package-restore", "no-op"}
Refused == {"lock", "observe", "conflict", "receipt"}
Error   == Refused \cup {"execute", "publish"}
Inside  == {"observe", "prepare", "execute", "publish", "release"}
PC      == {"idle", "lock", "done", "killed"} \cup Inside

TypeOK ==
    /\ class \in Receipts
    /\ live \in [Files -> Content]
    /\ lock \in Run \cup {NoRun}
    /\ pc \in [Run -> PC]
    /\ at \in [Run -> 1..(N + 1)]
    /\ \A p \in Run : pc[p] \in {"observe", "execute"} => at[p] \in Files
    /\ inverse \in [Run -> [Files -> Action]]
    /\ err \in [Run -> Error \cup {"none"}]
    /\ log \subseteq Run
    /\ executed \in [Run -> SUBSET Files]
    /\ editsAt \in [Run -> 0..MaxEdits]
    /\ faults \in 0..MaxFaults
    /\ edits \in 0..MaxEdits

Init ==
    /\ class \in Receipts
    /\ live \in [Files -> {"after", "edited", "absent"}]
    /\ lock = NoRun
    /\ pc = [p \in Run |-> "idle"]
    /\ at = [p \in Run |-> 1]
    /\ inverse = [p \in Run |-> [f \in Files |-> "no-op"]]
    /\ err = [p \in Run |-> "none"]
    /\ log = {}
    /\ executed = [p \in Run |-> {}]
    /\ editsAt = [p \in Run |-> 0]
    /\ faults = 0
    /\ edits = 0

-------------------------------------------------------------------------------
Goto(p, label) == pc' = [pc EXCEPT ![p] = label]

Fault == faults < MaxFaults /\ faults' = faults + 1

\* The run returns an error; the deferred Release follows if it has the lock.
Fail(p, why, next) ==
    /\ err' = [err EXCEPT ![p] = why]
    /\ Goto(p, next)

InverseOf(c) ==
    CASE c = "created" -> "remove-file"
      [] c = "adopted" -> "restore-backup"
      [] c = "package" -> "package-restore"

\* The precondition of an inverse: the file is as the receipt left it.
MayInvert(c, content) == c # "unfit" /\ content = "after"

\* A created file that is gone needs no inverse.
NeedsNone(c, content) == c = "created" /\ content = "absent"

\* What the inverse of a file of class c leaves behind: a backup is the one of
\* the first adoption, and a "created" file goes whatever its beforeHash says.
Restored(c) == IF c = "created" THEN "absent" ELSE "restored"

\* Mutant: one file too many.
NextFilePastEnd(p, loop, after) ==
    IF at[p] <= N
    THEN at' = [at EXCEPT ![p] = at[p] + 1] /\ Goto(p, loop)
    ELSE at' = [at EXCEPT ![p] = 1] /\ Goto(p, after)

\* The next file of a loop, or what follows the loop.
NextFile(p, loop, after) ==
    IF at[p] < N
    THEN at' = [at EXCEPT ![p] = at[p] + 1] /\ Goto(p, loop)
    ELSE at' = [at EXCEPT ![p] = 1] /\ Goto(p, after)

-------------------------------------------------------------------------------
\* Receipts.Read, before the lock: without the receipt nothing is done.
ReadSource(p) ==
    /\ pc[p] = "idle"
    /\ \/ Goto(p, "lock") /\ UNCHANGED <<err, faults>>
       \/ Fault /\ Fail(p, "receipt", "done")
    /\ UNCHANGED <<class, live, lock, at, inverse, log, executed, editsAt, edits>>

\* Mutant: a shared lock.
AcquireLockShared(p) ==
    /\ pc[p] = "lock"
    /\ lock' = p
    /\ editsAt' = [editsAt EXCEPT ![p] = edits]
    /\ Goto(p, "observe")
    /\ UNCHANGED <<class, live, at, inverse, err, log, executed, edits, faults>>

\* The lock is there, taken, or cannot be opened.
AcquireLock(p) ==
    /\ pc[p] = "lock"
    /\ \/ /\ lock = NoRun
          /\ lock' = p
          /\ editsAt' = [editsAt EXCEPT ![p] = edits]
          /\ Goto(p, "observe")
          /\ UNCHANGED <<err, faults>>
       \/ /\ \/ lock # NoRun /\ UNCHANGED faults
             \/ Fault
          /\ Fail(p, "lock", "done")
          /\ UNCHANGED <<lock, editsAt>>
    /\ UNCHANGED <<class, live, at, inverse, log, executed, edits>>

\* Mutant: one loop, that plans an inverse and executes it.
ObserveFileAndExecute(p) ==
    LET f == at[p] IN
    /\ pc[p] = "observe"
    /\ IF MayInvert(class[f], live[f])
       THEN /\ live' = [live EXCEPT ![f] = Restored(class[f])]
            /\ executed' = [executed EXCEPT ![p] = executed[p] \cup {f}]
            /\ NextFile(p, "observe", "publish")
            /\ UNCHANGED err
       ELSE Fail(p, "conflict", "release") /\ UNCHANGED <<at, live, executed>>
    /\ UNCHANGED <<class, lock, inverse, log, editsAt, edits, faults>>

\* The first loop: observe a file and plan its inverse. One refusal ends the
\* run, before anything has been changed.
ObserveFile(p) ==
    LET f == at[p] IN
    /\ pc[p] = "observe"
    /\ \/ /\ MayInvert(class[f], live[f])
          /\ inverse' = [inverse EXCEPT ![p][f] = InverseOf(class[f])]
          /\ NextFile(p, "observe", "prepare")
          /\ UNCHANGED <<err, faults>>
       \/ /\ NeedsNone(class[f], live[f])
          /\ NextFile(p, "observe", "prepare")
          /\ UNCHANGED <<inverse, err, faults>>
       \/ /\ ~MayInvert(class[f], live[f]) /\ ~NeedsNone(class[f], live[f])
          /\ Fail(p, "conflict", "release")
          /\ UNCHANGED <<at, inverse, faults>>
       \/ /\ Fault
          /\ Fail(p, "observe", "release")
          /\ UNCHANGED <<at, inverse>>
    /\ UNCHANGED <<class, live, lock, log, executed, editsAt, edits>>

\* rollbackReceiptValue: the new receipt is built and validated first.
Prepare(p) ==
    /\ pc[p] = "prepare"
    /\ \/ Goto(p, "execute") /\ UNCHANGED <<err, faults>>
       \/ Fault /\ Fail(p, "receipt", "release")
    /\ UNCHANGED <<class, live, lock, at, inverse, log, executed, editsAt, edits>>

\* Mutant: the error of the port is dropped.
ExecuteInverseUnchecked(p) ==
    LET f == at[p] IN
    /\ pc[p] = "execute"
    /\ IF inverse[p][f] = "no-op"
       THEN UNCHANGED <<live, executed, faults>>
       ELSE /\ executed' = [executed EXCEPT ![p] = executed[p] \cup {f}]
            /\ \/ live' = [live EXCEPT ![f] = Restored(class[f])] /\ UNCHANGED faults
               \/ UNCHANGED live /\ Fault
    /\ NextFile(p, "execute", "publish")
    /\ UNCHANGED <<class, lock, inverse, err, log, editsAt, edits>>

\* The second loop. The inverse carries no hash, so the port has nothing to
\* compare the file with. When it fails, the run ends and publishes nothing.
ExecuteInverse(p) ==
    LET f == at[p] IN
    /\ pc[p] = "execute"
    /\ \/ /\ inverse[p][f] = "no-op"
          /\ NextFile(p, "execute", "publish")
          /\ UNCHANGED <<live, executed, err, faults>>
       \/ /\ inverse[p][f] # "no-op"
          /\ live' = [live EXCEPT ![f] = Restored(class[f])]
          /\ executed' = [executed EXCEPT ![p] = executed[p] \cup {f}]
          /\ NextFile(p, "execute", "publish")
          /\ UNCHANGED <<err, faults>>
       \/ /\ inverse[p][f] # "no-op"
          /\ \E c \in {live[f], "partial", Restored(class[f])} :
                live' = [live EXCEPT ![f] = c]
          /\ executed' = [executed EXCEPT ![p] = executed[p] \cup {f}]
          /\ Fault
          /\ Fail(p, "execute", "release")
          /\ UNCHANGED at
    /\ UNCHANGED <<class, lock, inverse, log, editsAt, edits>>

\* Publisher.Publish: an error may come after the receipt was written.
Publish(p) ==
    /\ pc[p] = "publish"
    /\ \/ log' = log \cup {p} /\ Goto(p, "release") /\ UNCHANGED <<err, faults>>
       \/ log' \in {log, log \cup {p}} /\ Fault /\ Fail(p, "publish", "release")
    /\ UNCHANGED <<class, live, lock, at, inverse, executed, editsAt, edits>>

\* The deferred Release.
Release(p) ==
    /\ pc[p] = "release"
    /\ lock' = NoRun
    /\ Goto(p, "done")
    /\ UNCHANGED <<class, live, runVars, log, faults, edits>>

RollbackReceipt(p) ==
    \/ ReadSource(p) \/ AcquireLock(p) \/ ObserveFile(p) \/ Prepare(p)
    \/ ExecuteInverse(p) \/ Publish(p) \/ Release(p)

-------------------------------------------------------------------------------
\* The run is killed, maybe while the port changes a file; the kernel drops
\* its lock.
Kill(p) ==
    LET f == at[p] IN
    /\ pc[p] \in Inside
    /\ Fault
    /\ Goto(p, "killed")
    /\ lock' = NoRun
    /\ \/ UNCHANGED <<live, executed>>
       \/ /\ pc[p] = "execute" /\ inverse[p][f] # "no-op"
          /\ \E c \in {"partial", Restored(class[f])} : live' = [live EXCEPT ![f] = c]
          /\ executed' = [executed EXCEPT ![p] = executed[p] \cup {f}]
    /\ UNCHANGED <<class, at, inverse, err, editsAt, log, edits>>

\* The user changes or removes a file, or puts the applied content back.
Edit(f) ==
    /\ edits < MaxEdits
    /\ edits' = edits + 1
    /\ \E c \in {"edited", "absent", "after"} : live' = [live EXCEPT ![f] = c]
    /\ UNCHANGED <<class, lock, pc, runVars, log, faults>>

Next ==
    \/ \E p \in Run : RollbackReceipt(p) \/ Kill(p)
    \/ \E f \in Files : Edit(f)

Spec == Init /\ [][Next]_vars

-------------------------------------------------------------------------------
(* Properties *)

\* A run that is refused for any reason, at any file, has changed nothing
\* ("plans every precondition before mutation").
RefusalChangesNothing == \A p \in Run : err[p] \in Refused => executed[p] = {}

\* "If a user edited a managed file after apply, rollback refuses rather than
\* overwriting it": a run changes a file that is not as the receipt left it
\* only if somebody changed it after the run took the lock.
EarlierEditsSurvive ==
    [][\A p \in Run : \A f \in executed'[p] \ executed[p] :
          live[f] # "after" => edits > editsAt[p]]_vars

\* "Checks live state immediately before mutation": whatever is replaced is as
\* the receipt left it.
NoEditIsOverwritten ==
    [][\A p \in Run : \A f \in executed'[p] \ executed[p] : live[f] = "after"]_vars

\* A receipt says that the rollback is complete: unless somebody changed them,
\* every file is what its record restores, gone or as its backup or package has
\* it, whatever other rollbacks of it have done, or failed to do, since.
ReceiptMeansRestored ==
    \A p \in log : edits = editsAt[p] => \A f \in Files : live[f] = Restored(class[f])

\* "A new receipt records the rollback": a run that changed files and was not
\* killed leaves one, or failed to publish it.
ChangesAreRecorded ==
    \A p \in Run :
        pc[p] = "done" /\ executed[p] # {} => p \in log \/ err[p] = "publish"
===============================================================================
