---------------------------- MODULE RollbackProofs ----------------------------
(***************************************************************************)
(* Proofs about Rollback, for every set of runs, every receipt and every   *)
(* number of faults and edits.                                             *)
(***************************************************************************)
EXTENDS Rollback, TLAPS

Before == {"idle", "lock"}
Planning == {"observe", "prepare"}
Working == {"observe", "prepare", "execute"}

\* The flock is held by the run that is inside.
LockInv == \A p \in Run : pc[p] \in Inside => lock = p

\* Where a run is tells what it has done so far.
PlaceInv ==
    \A p \in Run :
        /\ at[p] \in Files
        /\ pc[p] \in Before \cup {"prepare"} => at[p] = 1
        /\ pc[p] \in Before \cup Planning => executed[p] = {}
        /\ pc[p] \in Before \cup Working \cup {"publish"} => err[p] = "none"
        /\ err[p] \in Refused => executed[p] = {}
        /\ editsAt[p] <= edits

\* The files of p that its current loop has not reached yet, or has left behind.
Ahead(p, f) == f >= at[p]
Behind(p, f) == f < at[p]

\* Nothing is planned for a file that has not been observed.
UnplannedInv ==
    \A p \in Run : \A f \in Files :
        \/ pc[p] \in Before
        \/ pc[p] = "observe" /\ Ahead(p, f)
        => inverse[p][f] = "no-op"

\* An inverse that is still to be executed is of a file that is as the receipt
\* left it, unless somebody has changed a file since the run took the lock.
PlannedInv ==
    \A p \in Run : \A f \in Files :
        /\ pc[p] \in Working
        /\ pc[p] = "execute" => Ahead(p, f)
        /\ inverse[p][f] # "no-op"
        => \/ class[f] # "unfit" /\ live[f] = "after"
           \/ edits > editsAt[p]

\* The other files of a run that has planned them, or is past them, are restored.
RestoredInv ==
    \A p \in Run : \A f \in Files :
        /\ edits = editsAt[p]
        /\ \/ pc[p] = "observe" /\ Behind(p, f) /\ inverse[p][f] = "no-op"
           \/ pc[p] = "prepare" /\ inverse[p][f] = "no-op"
           \/ pc[p] = "execute" /\ Ahead(p, f) /\ inverse[p][f] = "no-op"
           \/ pc[p] = "execute" /\ Behind(p, f)
           \/ pc[p] = "publish"
        => live[f] = Restored(class[f])

\* A run with a receipt has ended its work, and whoever works now has taken the
\* lock after it.
LogInv ==
    \A p \in log :
        /\ pc[p] \in {"release", "done", "killed"}
        /\ \A q \in Run : pc[q] \in Inside => editsAt[p] <= editsAt[q]

\* What the safety of a refused run needs, and what that of a receipt needs.
RunInv == TypeOK /\ LockInv /\ PlaceInv
PlanInv == UnplannedInv /\ PlannedInv
IInv == RunInv /\ PlanInv /\ RestoredInv /\ LogInv /\ ReceiptMeansRestored

-------------------------------------------------------------------------------
(* Type correctness, and where a run is *)

\* The next file of a loop is a file of the receipt, and the end of a loop is
\* the start of the next.
LEMMA NextFileIsFile ==
    ASSUME TypeOK, PlaceInv, NEW p \in Run, NEW loop \in PC, NEW after \in PC,
           NextFile(p, loop, after)
    PROVE  /\ at' \in [Run -> Files]
           /\ pc' \in [Run -> PC]
           /\ \A q \in Run \ {p} : at'[q] = at[q] /\ pc'[q] = pc[q]
           /\ \/ at[p] < N /\ at'[p] = at[p] + 1 /\ pc'[p] = loop
              \/ at[p] = N /\ at'[p] = 1 /\ pc'[p] = after
<1>1. at \in [Run -> Files] /\ pc \in [Run -> PC]
  BY DEF TypeOK, PlaceInv
<1>2. at[p] \in 1..N /\ N \in Nat
  BY RollbackAssumption DEF PlaceInv, Files
<1>3. CASE at[p] < N
  BY <1>1, <1>2, <1>3 DEF NextFile, Goto, Files
<1>4. CASE at[p] = N
  BY <1>1, <1>2, <1>4 DEF NextFile, Goto, Files
<1> QED
  BY <1>2, <1>3, <1>4

\* What is put in the place of a file is content, and what undoes it an inverse.
LEMMA ContentOfRestored == \A c \in Class : Restored(c) \in Content
BY DEF Class, Restored, Content

LEMMA ActionOfInverse == \A c \in Class : c # "unfit" => InverseOf(c) \in Action \ {"no-op"}
BY DEF Class, InverseOf, Action

\* The first states satisfy the invariant.
LEMMA InitInv == Init => IInv
BY RollbackAssumption
   DEF Init, IInv, RunInv, PlanInv, TypeOK, LockInv, PlaceInv, UnplannedInv,
       PlannedInv, RestoredInv, LogInv, ReceiptMeansRestored, Files, Content,
       Action, Error, PC, Inside, Before, Planning, Working, Refused, Ahead, Behind

\* Every step keeps the types.
LEMMA TypeStep == TypeOK /\ PlaceInv /\ [Next]_vars => TypeOK'
<1> SUFFICES ASSUME TypeOK, PlaceInv, [Next]_vars PROVE TypeOK'
  OBVIOUS
<1> USE RollbackAssumption
    DEF TypeOK, PC, Inside, Refused, Error, Goto, Fail, Fault, runVars
<1> DEFINE HostOK == /\ class \in Receipts
                     /\ live \in [Files -> Content]
                     /\ faults \in 0..MaxFaults
                     /\ edits \in 0..MaxEdits
           PlaceOK == /\ lock \in Run \cup {NoRun}
                      /\ pc \in [Run -> PC]
                      /\ err \in [Run -> Error \cup {"none"}]
                      /\ log \subseteq Run
           LoopOK == /\ at \in [Run -> 1..(N + 1)]
                     /\ \A p \in Run : pc[p] \in {"observe", "execute"} => at[p] \in Files
           WorkOK == /\ inverse \in [Run -> [Files -> Action]]
                     /\ executed \in [Run -> SUBSET Files]
                     /\ editsAt \in [Run -> 0..MaxEdits]
<1>1. ASSUME NEW p \in Run, ReadSource(p) PROVE TypeOK'
  <2>1. HostOK'
    BY <1>1 DEF ReadSource
  <2>2. PlaceOK'
    BY <1>1 DEF ReadSource
  <2>3. LoopOK'
    BY <1>1 DEF ReadSource
  <2>4. WorkOK'
    BY <1>1 DEF ReadSource
  <2> QED
    BY <2>1, <2>2, <2>3, <2>4
<1>2. ASSUME NEW p \in Run, AcquireLock(p) PROVE TypeOK'
  <2>1. HostOK'
    BY <1>2 DEF AcquireLock
  <2>2. PlaceOK'
    BY <1>2 DEF AcquireLock
  <2>3. LoopOK'
    BY <1>2 DEF AcquireLock, PlaceInv, Before
  <2>4. WorkOK'
    BY <1>2, SMTT(30) DEF AcquireLock
  <2> QED
    BY <2>1, <2>2, <2>3, <2>4
<1>3. ASSUME NEW p \in Run, ObserveFile(p) PROVE TypeOK'
  <2>5. NextFile(p, "observe", "prepare") =>
          /\ at' \in [Run -> 1..(N + 1)]
          /\ pc' \in [Run -> PC]
          /\ \A q \in Run : pc'[q] \in {"observe", "execute"} => at'[q] \in Files
    BY NextFileIsFile, 1..N \subseteq 1..(N + 1) DEF Files
  <2>1. HostOK'
    BY <1>3 DEF ObserveFile
  <2>2. PlaceOK'
    BY <1>3, <2>5 DEF ObserveFile
  <2>3. LoopOK'
    BY <1>3, <2>5 DEF ObserveFile
  <2>4. WorkOK'
    BY <1>3, ActionOfInverse DEF ObserveFile, MayInvert
  <2> QED
    BY <2>1, <2>2, <2>3, <2>4
<1>4. ASSUME NEW p \in Run, Prepare(p) PROVE TypeOK'
  <2>1. HostOK'
    BY <1>4 DEF Prepare
  <2>2. PlaceOK'
    BY <1>4 DEF Prepare
  <2>3. LoopOK'
    BY <1>4 DEF Prepare, PlaceInv
  <2>4. WorkOK'
    BY <1>4 DEF Prepare
  <2> QED
    BY <2>1, <2>2, <2>3, <2>4
<1>5. ASSUME NEW p \in Run, ExecuteInverse(p) PROVE TypeOK'
  <2>5. NextFile(p, "execute", "publish") =>
          /\ at' \in [Run -> 1..(N + 1)]
          /\ pc' \in [Run -> PC]
          /\ \A q \in Run : pc'[q] \in {"observe", "execute"} => at'[q] \in Files
    BY NextFileIsFile, 1..N \subseteq 1..(N + 1) DEF Files
  <2>1. HostOK'
    BY <1>5, ContentOfRestored DEF ExecuteInverse, Content
  <2>2. PlaceOK'
    BY <1>5, <2>5 DEF ExecuteInverse
  <2>3. LoopOK'
    BY <1>5, <2>5 DEF ExecuteInverse
  <2>4. WorkOK'
    BY <1>5 DEF ExecuteInverse
  <2> QED
    BY <2>1, <2>2, <2>3, <2>4
<1>6. ASSUME NEW p \in Run, Publish(p) PROVE TypeOK'
  <2>1. HostOK'
    BY <1>6 DEF Publish
  <2>2. PlaceOK'
    BY <1>6 DEF Publish
  <2>3. LoopOK'
    BY <1>6 DEF Publish
  <2>4. WorkOK'
    BY <1>6 DEF Publish
  <2> QED
    BY <2>1, <2>2, <2>3, <2>4
<1>7. ASSUME NEW p \in Run, Release(p) PROVE TypeOK'
  <2>1. HostOK'
    BY <1>7 DEF Release
  <2>2. PlaceOK'
    BY <1>7 DEF Release
  <2>3. LoopOK'
    BY <1>7 DEF Release
  <2>4. WorkOK'
    BY <1>7 DEF Release
  <2> QED
    BY <2>1, <2>2, <2>3, <2>4
<1>8. ASSUME NEW p \in Run, Kill(p) PROVE TypeOK'
  <2>5. at[p] \in Files /\ class[at[p]] \in Class
    BY DEF PlaceInv
  <2>6. Restored(class[at[p]]) \in Content
    BY <2>5, ContentOfRestored
  <2>1. HostOK'
    BY <1>8, <2>6, SMTT(30) DEF Kill, Content
  <2>2. PlaceOK'
    BY <1>8 DEF Kill
  <2>3. LoopOK'
    BY <1>8 DEF Kill
  <2>4. WorkOK'
    BY <1>8 DEF Kill
  <2> QED
    BY <2>1, <2>2, <2>3, <2>4
<1>9. ASSUME NEW f \in Files, Edit(f) PROVE TypeOK'
  BY <1>9 DEF Edit, Content
<1>10. CASE UNCHANGED vars
  BY <1>10 DEF vars
<1> QED
  BY <1>1, <1>2, <1>3, <1>4, <1>5, <1>6, <1>7, <1>8, <1>9, <1>10
     DEF Next, RollbackReceipt

\* No two runs are inside at the same time.
LEMMA LockStep == TypeOK /\ LockInv /\ [Next]_vars => LockInv'
<1> SUFFICES ASSUME TypeOK, LockInv, [Next]_vars PROVE LockInv'
  OBVIOUS
<1> USE RollbackAssumption
    DEF TypeOK, LockInv, PC, Inside, Goto, Fail, Fault, NextFile, runVars
<1>1. ASSUME NEW p \in Run, ReadSource(p) PROVE LockInv'
  BY <1>1 DEF ReadSource
<1>2. ASSUME NEW p \in Run, AcquireLock(p) PROVE LockInv'
  BY <1>2 DEF AcquireLock
<1>3. ASSUME NEW p \in Run, ObserveFile(p) PROVE LockInv'
  BY <1>3 DEF ObserveFile
<1>4. ASSUME NEW p \in Run, Prepare(p) PROVE LockInv'
  BY <1>4 DEF Prepare
<1>5. ASSUME NEW p \in Run, ExecuteInverse(p) PROVE LockInv'
  BY <1>5 DEF ExecuteInverse
<1>6. ASSUME NEW p \in Run, Publish(p) PROVE LockInv'
  BY <1>6 DEF Publish
<1>7. ASSUME NEW p \in Run, Release(p) PROVE LockInv'
  BY <1>7 DEF Release
<1>8. ASSUME NEW p \in Run, Kill(p) PROVE LockInv'
  BY <1>8 DEF Kill
<1>9. ASSUME NEW f \in Files, Edit(f) PROVE LockInv'
  BY <1>9 DEF Edit
<1>10. CASE UNCHANGED vars
  BY <1>10 DEF vars
<1> QED
  BY <1>1, <1>2, <1>3, <1>4, <1>5, <1>6, <1>7, <1>8, <1>9, <1>10
     DEF Next, RollbackReceipt

\* Where a run is goes on telling what it has done.
LEMMA PlaceStep == TypeOK /\ PlaceInv /\ [Next]_vars => PlaceInv'
<1> SUFFICES ASSUME TypeOK, PlaceInv, [Next]_vars PROVE PlaceInv'
  OBVIOUS
<1> USE RollbackAssumption
    DEF TypeOK, PlaceInv, PC, Inside, Before, Planning, Working, Refused,
        Error, Goto, Fail, Fault, runVars
<1>1. ASSUME NEW p \in Run, ReadSource(p) PROVE PlaceInv'
  BY <1>1 DEF ReadSource
<1>2. ASSUME NEW p \in Run, AcquireLock(p) PROVE PlaceInv'
  BY <1>2 DEF AcquireLock
<1>3. ASSUME NEW p \in Run, ObserveFile(p) PROVE PlaceInv'
  <2>1. pc[p] = "observe" /\ UNCHANGED <<executed, editsAt, edits>>
    BY <1>3 DEF ObserveFile
  <2>2. CASE NextFile(p, "observe", "prepare") /\ UNCHANGED err
    <3>1. /\ at' \in [Run -> Files] /\ \A q \in Run \ {p} : at'[q] = at[q] /\ pc'[q] = pc[q]
          /\ pc'[p] = "observe" \/ (pc'[p] = "prepare" /\ at'[p] = 1)
      <4>1. "observe" \in PC /\ "prepare" \in PC
        OBVIOUS
      <4> HIDE DEF PC, TypeOK, PlaceInv, Goto, Fail, Fault
      <4> QED
        BY <2>2, <4>1, NextFileIsFile
    <3> QED
      BY <2>1, <2>2, <3>1
  <2>3. CASE (Fail(p, "conflict", "release") \/ Fail(p, "observe", "release")) /\ UNCHANGED at
    BY <2>1, <2>3
  <2> QED
    BY <1>3, <2>2, <2>3 DEF ObserveFile
<1>4. ASSUME NEW p \in Run, Prepare(p) PROVE PlaceInv'
  BY <1>4 DEF Prepare
<1>5. ASSUME NEW p \in Run, ExecuteInverse(p) PROVE PlaceInv'
  <2>1. pc[p] = "execute" /\ UNCHANGED <<editsAt, edits>>
    BY <1>5 DEF ExecuteInverse
  <2>2. \A q \in Run \ {p} : executed'[q] = executed[q]
    BY <1>5 DEF ExecuteInverse
  <2>3. CASE NextFile(p, "execute", "publish") /\ UNCHANGED err
    <3>1. /\ at' \in [Run -> Files] /\ \A q \in Run \ {p} : at'[q] = at[q] /\ pc'[q] = pc[q]
          /\ pc'[p] = "execute" \/ pc'[p] = "publish"
      BY <2>3, NextFileIsFile
    <3> QED
      BY <2>1, <2>2, <2>3, <3>1
  <2>4. CASE Fail(p, "execute", "release") /\ UNCHANGED at
    BY <2>1, <2>2, <2>4
  <2> QED
    BY <1>5, <2>3, <2>4 DEF ExecuteInverse
<1>6. ASSUME NEW p \in Run, Publish(p) PROVE PlaceInv'
  BY <1>6 DEF Publish
<1>7. ASSUME NEW p \in Run, Release(p) PROVE PlaceInv'
  BY <1>7 DEF Release
<1>8. ASSUME NEW p \in Run, Kill(p) PROVE PlaceInv'
  BY <1>8 DEF Kill
<1>9. ASSUME NEW f \in Files, Edit(f) PROVE PlaceInv'
  BY <1>9 DEF Edit
<1>10. CASE UNCHANGED vars
  BY <1>10 DEF vars
<1> QED
  BY <1>1, <1>2, <1>3, <1>4, <1>5, <1>6, <1>7, <1>8, <1>9, <1>10
     DEF Next, RollbackReceipt

-------------------------------------------------------------------------------
(* What is planned, what is restored and what a receipt says *)

\* What the first loop does to one file, in terms of values: it plans it, or
\* finds that nothing is to be done for it, and goes on; or the run is refused.
LEMMA ObserveEffect ==
    ASSUME TypeOK, PlaceInv, NEW p \in Run, ObserveFile(p)
    PROVE  /\ pc[p] = "observe" /\ at[p] \in Files
           /\ UNCHANGED <<class, live, lock, log, executed, editsAt, edits>>
           /\ inverse' \in [Run -> [Files -> Action]]
           /\ \A q \in Run \ {p} :
                 at'[q] = at[q] /\ pc'[q] = pc[q] /\ inverse'[q] = inverse[q]
           /\ \A f \in Files \ {at[p]} : inverse'[p][f] = inverse[p][f]
           /\ \/ pc'[p] = "release"
              \/ /\ \/ at[p] < N /\ at'[p] = at[p] + 1 /\ pc'[p] = "observe"
                    \/ at[p] = N /\ at'[p] = 1 /\ pc'[p] = "prepare"
                 /\ \/ /\ inverse'[p][at[p]] # "no-op"
                       /\ class[at[p]] # "unfit" /\ live[at[p]] = "after"
                    \/ /\ inverse' = inverse
                       /\ live[at[p]] = Restored(class[at[p]])
<1>1. at[p] \in Files /\ class[at[p]] \in Class
  BY RollbackAssumption DEF TypeOK, PlaceInv
<1>2. at \in [Run -> 1..(N + 1)] /\ pc \in [Run -> PC] /\ inverse \in [Run -> [Files -> Action]]
  BY DEF TypeOK
<1>3. /\ pc[p] = "observe"
      /\ UNCHANGED <<class, live, lock, log, executed, editsAt, edits>>
  BY DEF ObserveFile
<1>4. CASE /\ MayInvert(class[at[p]], live[at[p]])
           /\ inverse' = [inverse EXCEPT ![p][at[p]] = InverseOf(class[at[p]])]
           /\ NextFile(p, "observe", "prepare")
  <2>1. InverseOf(class[at[p]]) \in Action \ {"no-op"}
    BY <1>1, <1>4, ActionOfInverse DEF MayInvert
  <2>2. /\ inverse' \in [Run -> [Files -> Action]]
        /\ inverse'[p][at[p]] # "no-op"
        /\ \A q \in Run \ {p} : inverse'[q] = inverse[q]
        /\ \A f \in Files \ {at[p]} : inverse'[p][f] = inverse[p][f]
    BY <1>1, <1>2, <1>4, <2>1
  <2>3. /\ \A q \in Run \ {p} : at'[q] = at[q] /\ pc'[q] = pc[q]
        /\ \/ at[p] < N /\ at'[p] = at[p] + 1 /\ pc'[p] = "observe"
           \/ at[p] = N /\ at'[p] = 1 /\ pc'[p] = "prepare"
    BY <1>4, NextFileIsFile DEF PC, Inside
  <2> QED
    BY <1>1, <1>3, <1>4, <2>2, <2>3 DEF MayInvert
<1>5. CASE /\ NeedsNone(class[at[p]], live[at[p]])
           /\ NextFile(p, "observe", "prepare")
           /\ inverse' = inverse
  <2>1. /\ \A q \in Run \ {p} : at'[q] = at[q] /\ pc'[q] = pc[q]
        /\ \/ at[p] < N /\ at'[p] = at[p] + 1 /\ pc'[p] = "observe"
           \/ at[p] = N /\ at'[p] = 1 /\ pc'[p] = "prepare"
    BY <1>5, NextFileIsFile DEF PC, Inside
  <2> QED
    BY <1>1, <1>2, <1>3, <1>5, <2>1 DEF NeedsNone, Restored
<1>6. CASE pc' = [pc EXCEPT ![p] = "release"] /\ UNCHANGED <<at, inverse>>
  BY <1>1, <1>2, <1>3, <1>6
<1> QED
  BY <1>4, <1>5, <1>6 DEF ObserveFile, Fail, Goto

\* What the second loop does to one file.
LEMMA ExecuteEffect ==
    ASSUME TypeOK, PlaceInv, NEW p \in Run, ExecuteInverse(p)
    PROVE  /\ pc[p] = "execute" /\ at[p] \in Files
           /\ UNCHANGED <<class, lock, inverse, log, editsAt, edits>>
           /\ \A q \in Run \ {p} :
                 at'[q] = at[q] /\ pc'[q] = pc[q] /\ executed'[q] = executed[q]
           /\ \A f \in Files \ {at[p]} : live'[f] = live[f]
           /\ executed'[p] \subseteq executed[p] \cup {at[p]}
           /\ inverse[p][at[p]] = "no-op" => UNCHANGED <<live, executed>>
           /\ \/ pc'[p] = "release"
              \/ /\ \/ at[p] < N /\ at'[p] = at[p] + 1 /\ pc'[p] = "execute"
                    \/ at[p] = N /\ at'[p] = 1 /\ pc'[p] = "publish"
                 /\ inverse[p][at[p]] # "no-op" =>
                       live'[at[p]] = Restored(class[at[p]])
<1>1. at[p] \in Files /\ class[at[p]] \in Class
  BY RollbackAssumption DEF TypeOK, PlaceInv
<1>2. /\ pc[p] = "execute"
      /\ UNCHANGED <<class, lock, inverse, log, editsAt, edits>>
  BY DEF ExecuteInverse
<1>3. /\ live \in [Files -> Content] /\ executed \in [Run -> SUBSET Files]
      /\ at \in [Run -> 1..(N + 1)] /\ pc \in [Run -> PC]
  BY DEF TypeOK
<1>4. NextFile(p, "execute", "publish") =>
        /\ \A q \in Run \ {p} : at'[q] = at[q] /\ pc'[q] = pc[q]
        /\ \/ at[p] < N /\ at'[p] = at[p] + 1 /\ pc'[p] = "execute"
           \/ at[p] = N /\ at'[p] = 1 /\ pc'[p] = "publish"
  BY NextFileIsFile DEF PC, Inside
<1>5. CASE /\ inverse[p][at[p]] = "no-op"
           /\ NextFile(p, "execute", "publish")
           /\ UNCHANGED <<live, executed>>
  BY <1>1, <1>2, <1>4, <1>5
<1>6. CASE /\ inverse[p][at[p]] # "no-op"
           /\ live' = [live EXCEPT ![at[p]] = Restored(class[at[p]])]
           /\ executed' = [executed EXCEPT ![p] = executed[p] \cup {at[p]}]
           /\ NextFile(p, "execute", "publish")
  BY <1>1, <1>2, <1>3, <1>4, <1>6
<1>7. CASE /\ inverse[p][at[p]] # "no-op"
           /\ \E c \in {live[at[p]], "partial", Restored(class[at[p]])} :
                 live' = [live EXCEPT ![at[p]] = c]
           /\ executed' = [executed EXCEPT ![p] = executed[p] \cup {at[p]}]
           /\ pc' = [pc EXCEPT ![p] = "release"]
           /\ UNCHANGED at
  BY <1>1, <1>2, <1>3, <1>7
<1> QED
  BY <1>5, <1>6, <1>7 DEF ExecuteInverse, Fail, Goto

\* Observing a file plans that file and no other.
LEMMA UnplannedStep ==
    TypeOK /\ PlaceInv /\ UnplannedInv /\ [Next]_vars => UnplannedInv'
<1> SUFFICES ASSUME TypeOK, PlaceInv, UnplannedInv, [Next]_vars
             PROVE  UnplannedInv'
  OBVIOUS
<1> USE RollbackAssumption
    DEF TypeOK, UnplannedInv, PlaceInv, Ahead, Before, PC, Inside, Goto, Fail,
        Fault, runVars
<1>1. ASSUME NEW p \in Run, ReadSource(p) PROVE UnplannedInv'
  BY <1>1 DEF ReadSource
<1>2. ASSUME NEW p \in Run, AcquireLock(p) PROVE UnplannedInv'
  BY <1>2 DEF AcquireLock
<1>3. ASSUME NEW p \in Run, ObserveFile(p) PROVE UnplannedInv'
  <2> SUFFICES ASSUME NEW q \in Run, NEW f \in Files,
                      pc'[q] \in Before \/ (pc'[q] = "observe" /\ f >= at'[q])
               PROVE  inverse'[q][f] = "no-op"
    OBVIOUS
  <2>1. CASE q # p
    BY <1>3, <2>1, ObserveEffect
  <2>2. CASE q = p
    <3>1. at'[p] = at[p] + 1 /\ pc'[p] = "observe" /\ pc[p] = "observe"
      BY <1>3, <2>2, ObserveEffect
    <3>2. f \in Int /\ at[p] \in Int
      BY DEF Files
    <3>3. f # at[p] /\ f >= at[p]
      BY <2>2, <3>1, <3>2
    <3> QED
      BY <1>3, <2>2, <3>1, <3>3, ObserveEffect
  <2> QED
    BY <2>1, <2>2
<1>4. ASSUME NEW p \in Run, Prepare(p) PROVE UnplannedInv'
  BY <1>4 DEF Prepare
<1>5. ASSUME NEW p \in Run, ExecuteInverse(p) PROVE UnplannedInv'
  <2>1. /\ pc'[p] \notin Before /\ pc'[p] # "observe" /\ inverse' = inverse
        /\ \A q \in Run \ {p} : at'[q] = at[q] /\ pc'[q] = pc[q]
    BY <1>5, ExecuteEffect
  <2> QED
    BY <2>1
<1>6. ASSUME NEW p \in Run, Publish(p) PROVE UnplannedInv'
  BY <1>6 DEF Publish
<1>7. ASSUME NEW p \in Run, Release(p) PROVE UnplannedInv'
  BY <1>7 DEF Release
<1>8. ASSUME NEW p \in Run, Kill(p) PROVE UnplannedInv'
  BY <1>8 DEF Kill
<1>9. ASSUME NEW f \in Files, Edit(f) PROVE UnplannedInv'
  BY <1>9 DEF Edit
<1>10. CASE UNCHANGED vars
  BY <1>10 DEF vars
<1> QED
  BY <1>1, <1>2, <1>3, <1>4, <1>5, <1>6, <1>7, <1>8, <1>9, <1>10
     DEF Next, RollbackReceipt

\* A plan stays true until its file is executed or somebody edits.
LEMMA PlannedStep ==
    TypeOK /\ PlaceInv /\ LockInv /\ UnplannedInv /\ PlannedInv /\ [Next]_vars
    => PlannedInv'
<1> SUFFICES ASSUME TypeOK, PlaceInv, LockInv, UnplannedInv, PlannedInv, [Next]_vars
             PROVE  PlannedInv'
  OBVIOUS
<1> USE RollbackAssumption
    DEF TypeOK, UnplannedInv, PlannedInv, PlaceInv, LockInv, Ahead, Before,
        Working, PC, Inside, Goto, Fail, Fault, runVars
<1>1. ASSUME NEW p \in Run, ReadSource(p) PROVE PlannedInv'
  BY <1>1 DEF ReadSource
<1>2. ASSUME NEW p \in Run, AcquireLock(p) PROVE PlannedInv'
  BY <1>2 DEF AcquireLock
<1>3. ASSUME NEW p \in Run, ObserveFile(p) PROVE PlannedInv'
  <2> SUFFICES ASSUME NEW q \in Run, NEW f \in Files,
                      pc'[q] \in Working, pc'[q] = "execute" => f >= at'[q],
                      inverse'[q][f] # "no-op"
               PROVE  (class[f] # "unfit" /\ live[f] = "after") \/ edits > editsAt[q]
    BY <1>3, ObserveEffect
  <2>1. CASE q # p
    BY <1>3, <2>1, ObserveEffect
  <2>2. CASE q = p /\ inverse'[p][f] = inverse[p][f]
    BY <1>3, <2>2, ObserveEffect
  <2>3. CASE q = p /\ inverse'[p][f] # inverse[p][f]
    <3>1. f = at[p] /\ pc'[p] # "release"
      BY <1>3, <2>3, ObserveEffect
    <3> QED
      BY <1>3, <2>3, <3>1, ObserveEffect
  <2> QED
    BY <2>1, <2>2, <2>3
<1>4. ASSUME NEW p \in Run, Prepare(p) PROVE PlannedInv'
  BY <1>4, SMTT(30) DEF Prepare
<1>5. ASSUME NEW p \in Run, ExecuteInverse(p) PROVE PlannedInv'
  <2> SUFFICES ASSUME NEW q \in Run, NEW f \in Files,
                      pc'[q] \in Working, pc'[q] = "execute" => f >= at'[q],
                      inverse[q][f] # "no-op"
               PROVE  (class[f] # "unfit" /\ live'[f] = "after") \/ edits > editsAt[q]
    BY <1>5, ExecuteEffect
  <2>1. q = p
    BY <1>5, ExecuteEffect
  <2>2. pc'[p] = "execute" /\ at'[p] = at[p] + 1
    BY <1>5, <2>1, ExecuteEffect
  <2>3. f # at[p] /\ f >= at[p]
    BY <2>1, <2>2 DEF Files
  <2>4. live'[f] = live[f]
    BY <1>5, <2>3, ExecuteEffect
  <2> QED
    BY <1>5, <2>1, <2>3, <2>4, ExecuteEffect
<1>6. ASSUME NEW p \in Run, Publish(p) PROVE PlannedInv'
  BY <1>6 DEF Publish
<1>7. ASSUME NEW p \in Run, Release(p) PROVE PlannedInv'
  BY <1>7 DEF Release
<1>8. ASSUME NEW p \in Run, Kill(p) PROVE PlannedInv'
  BY <1>8 DEF Kill
<1>9. ASSUME NEW f \in Files, Edit(f) PROVE PlannedInv'
  BY <1>9 DEF Edit
<1>10. CASE UNCHANGED vars
  BY <1>10 DEF vars
<1> QED
  BY <1>1, <1>2, <1>3, <1>4, <1>5, <1>6, <1>7, <1>8, <1>9, <1>10
     DEF Next, RollbackReceipt

\* A file that a run has left behind without an inverse, or after it, is as it
\* was before, as long as nobody edits.
LEMMA RestoredStep ==
    TypeOK /\ PlaceInv /\ LockInv /\ RestoredInv /\ [Next]_vars => RestoredInv'
<1> SUFFICES ASSUME TypeOK, PlaceInv, LockInv, RestoredInv, [Next]_vars
             PROVE  RestoredInv'
  OBVIOUS
<1> USE RollbackAssumption
    DEF TypeOK, RestoredInv, PlaceInv, LockInv, Ahead, Behind, Before,
        Working, PC, Inside, Goto, Fail, Fault, runVars
<1>1. ASSUME NEW p \in Run, ReadSource(p) PROVE RestoredInv'
  BY <1>1 DEF ReadSource
<1>2. ASSUME NEW p \in Run, AcquireLock(p) PROVE RestoredInv'
  <2> SUFFICES ASSUME NEW q \in Run, NEW f \in Files, q # p,
                      edits = editsAt[q]
               PROVE  RestoredInv!(q)!(f)'
    BY <1>2 DEF AcquireLock, Files
  <2> QED
    BY <1>2 DEF AcquireLock
<1>3. ASSUME NEW p \in Run, ObserveFile(p) PROVE RestoredInv'
  <2> SUFFICES ASSUME NEW q \in Run, NEW f \in Files, edits = editsAt[q],
                      \/ pc'[q] = "observe" /\ f < at'[q] /\ inverse'[q][f] = "no-op"
                      \/ pc'[q] = "prepare" /\ inverse'[q][f] = "no-op"
                      \/ pc'[q] = "execute"
                      \/ pc'[q] = "publish"
               PROVE  live[f] = Restored(class[f])
    BY <1>3, ObserveEffect
  <2>1. q = p /\ pc'[q] \in {"observe", "prepare"}
    BY <1>3, ObserveEffect
  <2>2. \/ at[p] < N /\ at'[p] = at[p] + 1 /\ pc'[p] = "observe"
        \/ at[p] = N /\ at'[p] = 1 /\ pc'[p] = "prepare"
    BY <1>3, <2>1, ObserveEffect
  <2>3. inverse'[p][f] = "no-op" /\ f <= at[p]
    BY <2>1, <2>2 DEF Files
  <2>4. CASE f = at[p]
    BY <1>3, <2>1, <2>3, <2>4, ObserveEffect
  <2>5. CASE f # at[p]
    <3>1. f < at[p] /\ inverse[p][f] = "no-op"
      BY <1>3, <2>3, <2>5, ObserveEffect, SMTT(30) DEF Files
    <3> QED
      BY <1>3, <2>1, <3>1, ObserveEffect
  <2> QED
    BY <2>4, <2>5
<1>4. ASSUME NEW p \in Run, Prepare(p) PROVE RestoredInv'
  BY <1>4 DEF Prepare, Files
<1>5. ASSUME NEW p \in Run, ExecuteInverse(p) PROVE RestoredInv'
  <2> SUFFICES ASSUME NEW q \in Run, NEW f \in Files, edits = editsAt[q],
                      \/ pc'[q] \in {"observe", "prepare"}
                      \/ pc'[q] = "execute" /\ f >= at'[q] /\ inverse[q][f] = "no-op"
                      \/ pc'[q] = "execute" /\ f < at'[q]
                      \/ pc'[q] = "publish"
               PROVE  live'[f] = Restored(class[f])
    BY <1>5, ExecuteEffect
  <2>1. q = p /\ pc[p] = "execute"
    BY <1>5, ExecuteEffect
  <2>2. \/ at[p] < N /\ at'[p] = at[p] + 1 /\ pc'[p] = "execute"
        \/ at[p] = N /\ at'[p] = 1 /\ pc'[p] = "publish"
    BY <1>5, <2>1, ExecuteEffect
  <2>3. inverse[p][at[p]] # "no-op" => live'[at[p]] = Restored(class[at[p]])
    BY <1>5, <2>1, <2>2, ExecuteEffect
  <2>4. CASE f = at[p]
    <3>1. CASE inverse[p][f] = "no-op"
      <4>1. live[f] = Restored(class[f])
        BY <2>1, <2>4, <3>1 DEF Files
      <4> QED
        BY <1>5, <2>4, <3>1, <4>1, ExecuteEffect
    <3> QED
      BY <2>3, <2>4, <3>1
  <2>5. CASE f # at[p]
    <3>1. live'[f] = live[f]
      BY <1>5, <2>5, ExecuteEffect
    <3>2. f < at[p] \/ (f > at[p] /\ inverse[p][f] = "no-op")
      BY <2>1, <2>2, <2>5 DEF Files
    <3> QED
      BY <2>1, <3>1, <3>2 DEF Files
  <2> QED
    BY <2>4, <2>5
<1>6. ASSUME NEW p \in Run, Publish(p) PROVE RestoredInv'
  BY <1>6 DEF Publish
<1>7. ASSUME NEW p \in Run, Release(p) PROVE RestoredInv'
  BY <1>7 DEF Release
<1>8. ASSUME NEW p \in Run, Kill(p) PROVE RestoredInv'
  BY <1>8 DEF Kill
<1>9. ASSUME NEW f \in Files, Edit(f) PROVE RestoredInv'
  BY <1>9 DEF Edit
<1>10. CASE UNCHANGED vars
  BY <1>10 DEF vars
<1> QED
  BY <1>1, <1>2, <1>3, <1>4, <1>5, <1>6, <1>7, <1>8, <1>9, <1>10
     DEF Next, RollbackReceipt

\* Who works now has taken the lock after every run that has a receipt.
LEMMA LogStep ==
    TypeOK /\ PlaceInv /\ LockInv /\ LogInv /\ [Next]_vars => LogInv'
<1> SUFFICES ASSUME TypeOK, PlaceInv, LockInv, LogInv, [Next]_vars PROVE LogInv'
  OBVIOUS
<1> USE RollbackAssumption
    DEF TypeOK, LogInv, PlaceInv, LockInv, PC, Inside, Goto, Fail, Fault,
        runVars
<1>1. ASSUME NEW p \in Run, ReadSource(p) PROVE LogInv'
  BY <1>1, SMTT(30) DEF ReadSource
<1>2. ASSUME NEW p \in Run, AcquireLock(p) PROVE LogInv'
  <2>1. CASE lock = NoRun /\ lock' = p /\ pc' = [pc EXCEPT ![p] = "observe"]
             /\ editsAt' = [editsAt EXCEPT ![p] = edits] /\ UNCHANGED log
    <3>1. \A q \in log : q # p /\ pc'[q] = pc[q] /\ editsAt'[q] = editsAt[q]
      BY <1>2, <2>1 DEF AcquireLock
    <3>2. \A q \in Run : pc'[q] \in Inside => q = p
      BY <2>1
    <3>3. editsAt'[p] = edits
      BY <2>1
    <3> QED
      BY <2>1, <3>1, <3>2, <3>3
  <2>2. CASE pc' = [pc EXCEPT ![p] = "done"] /\ UNCHANGED <<log, editsAt>>
    <3>1. pc[p] = "lock"
      BY <1>2 DEF AcquireLock
    <3> QED
      BY <2>2, <3>1
  <2> QED
    BY <1>2, <2>1, <2>2 DEF AcquireLock
<1>3. ASSUME NEW p \in Run, ObserveFile(p) PROVE LogInv'
  BY <1>3, ObserveEffect, SMTT(30) DEF ObserveFile
<1>4. ASSUME NEW p \in Run, Prepare(p) PROVE LogInv'
  BY <1>4 DEF Prepare
<1>5. ASSUME NEW p \in Run, ExecuteInverse(p) PROVE LogInv'
  <2>1. log' = log /\ editsAt' = editsAt /\ pc[p] = "execute"
    BY <1>5, ExecuteEffect
  <2>2. p \notin log /\ pc'[p] \in {"release", "execute", "publish"}
    BY <1>5, <2>1, ExecuteEffect
  <2>3. \A q \in Run \ {p} : pc'[q] = pc[q]
    BY <1>5, ExecuteEffect
  <2>4. \A q \in Run : pc'[q] \in Inside => pc[q] \in Inside
    BY <2>1, <2>3
  <2> QED
    BY <2>1, <2>2, <2>3, <2>4
<1>6. ASSUME NEW p \in Run, Publish(p) PROVE LogInv'
  BY <1>6 DEF Publish
<1>7. ASSUME NEW p \in Run, Release(p) PROVE LogInv'
  BY <1>7 DEF Release
<1>8. ASSUME NEW p \in Run, Kill(p) PROVE LogInv'
  BY <1>8 DEF Kill
<1>9. ASSUME NEW f \in Files, Edit(f) PROVE LogInv'
  BY <1>9 DEF Edit
<1>10. CASE UNCHANGED vars
  BY <1>10 DEF vars
<1> QED
  BY <1>1, <1>2, <1>3, <1>4, <1>5, <1>6, <1>7, <1>8, <1>9, <1>10
     DEF Next, RollbackReceipt

\* A run that changes a file has planned it, and then a receipt says nothing
\* any more, since somebody has edited; or there is no receipt.
LEMMA NoReceiptToBreak ==
    ASSUME IInv, NEW p \in log, edits = editsAt[p], NEW q \in Run,
           pc[q] = "execute", inverse[q][at[q]] # "no-op"
    PROVE  FALSE
<1>1. at[q] \in Files /\ editsAt[p] \in Int /\ editsAt[q] \in Int /\ edits \in Int
  BY RollbackAssumption DEF IInv, RunInv, TypeOK, PlaceInv
<1>2. editsAt[p] <= editsAt[q] /\ editsAt[q] <= edits
  BY DEF IInv, RunInv, PlaceInv, LogInv, Inside, TypeOK
<1>3. live[at[q]] = "after"
  BY <1>1, <1>2 DEF IInv, PlanInv, PlannedInv, Working, Ahead, Files
<1>4. live[at[q]] = Restored(class[at[q]])
  BY <1>1 DEF IInv, ReceiptMeansRestored
<1> QED
  BY <1>3, <1>4 DEF Restored
\* What a receipt says stays true until somebody edits.
LEMMA ReceiptStep == IInv /\ [Next]_vars => ReceiptMeansRestored'
<1> SUFFICES ASSUME IInv, [Next]_vars,
                    NEW p \in log', edits' = editsAt'[p], NEW g \in Files
             PROVE  live'[g] = Restored(class'[g])
  BY DEF ReceiptMeansRestored
<1> USE RollbackAssumption DEF Goto, Fail, Fault, runVars
<1>a. TypeOK /\ PlaceInv /\ LockInv /\ LogInv /\ RestoredInv /\ ReceiptMeansRestored
  BY DEF IInv, RunInv
<1>b. p \in log /\ edits = editsAt[p] => live[g] = Restored(class[g])
  BY <1>a DEF ReceiptMeansRestored
<1>1. ASSUME NEW q \in Run, ReadSource(q) PROVE live'[g] = Restored(class'[g])
  BY <1>1, <1>b DEF ReadSource
<1>2. ASSUME NEW q \in Run, AcquireLock(q) PROVE live'[g] = Restored(class'[g])
  <2>1. p \in log /\ p # q /\ editsAt'[p] = editsAt[p]
    BY <1>2, <1>a DEF AcquireLock, LogInv, TypeOK
  <2> QED
    BY <1>2, <1>b, <2>1 DEF AcquireLock
<1>3. ASSUME NEW q \in Run, ObserveFile(q) PROVE live'[g] = Restored(class'[g])
  BY <1>3, <1>a, <1>b, ObserveEffect
<1>4. ASSUME NEW q \in Run, Prepare(q) PROVE live'[g] = Restored(class'[g])
  BY <1>4, <1>b DEF Prepare
<1>5. ASSUME NEW q \in Run, ExecuteInverse(q) PROVE live'[g] = Restored(class'[g])
  <2>1. UNCHANGED <<class, inverse, log, editsAt, edits>> /\ pc[q] = "execute"
    BY <1>5, <1>a, ExecuteEffect
  <2>2. inverse[q][at[q]] = "no-op"
    BY <2>1, NoReceiptToBreak
  <2>3. live' = live
    BY <1>5, <1>a, <2>2, ExecuteEffect
  <2> QED
    BY <1>b, <2>1, <2>3
<1>6. ASSUME NEW q \in Run, Publish(q) PROVE live'[g] = Restored(class'[g])
  <2>1. pc[q] = "publish" /\ UNCHANGED <<class, live, editsAt, edits>> /\ p \in log \cup {q}
    BY <1>6 DEF Publish
  <2>2. CASE p = q
    BY <1>a, <2>1, <2>2 DEF RestoredInv
  <2> QED
    BY <1>b, <2>1, <2>2
<1>7. ASSUME NEW q \in Run, Release(q) PROVE live'[g] = Restored(class'[g])
  BY <1>7, <1>b DEF Release
<1>8. ASSUME NEW q \in Run, Kill(q) PROVE live'[g] = Restored(class'[g])
  <2>1. UNCHANGED <<class, inverse, log, editsAt, edits>>
    BY <1>8 DEF Kill
  <2>2. live' # live => pc[q] = "execute" /\ inverse[q][at[q]] # "no-op"
    BY <1>8 DEF Kill
  <2> QED
    BY <1>b, <2>1, <2>2, NoReceiptToBreak
<1>9. ASSUME NEW f \in Files, Edit(f) PROVE live'[g] = Restored(class'[g])
  <2>1. edits' = edits + 1 /\ editsAt' = editsAt /\ log' = log
    BY <1>9 DEF Edit
  <2>2. editsAt[p] <= edits /\ editsAt[p] \in Int /\ edits \in Int
    BY <1>a, <2>1 DEF PlaceInv, TypeOK
  <2>3. edits + 1 = editsAt[p]
    BY <2>1
  <2> QED
    BY <2>2, <2>3
<1>10. CASE UNCHANGED vars
  BY <1>10, <1>b DEF vars
<1> QED
  BY <1>1, <1>2, <1>3, <1>4, <1>5, <1>6, <1>7, <1>8, <1>9, <1>10
     DEF Next, RollbackReceipt

-------------------------------------------------------------------------------
(* The theorems *)

\* The invariant is inductive.
LEMMA IInvStep == IInv /\ [Next]_vars => IInv'
BY TypeStep, LockStep, PlaceStep, UnplannedStep, PlannedStep, RestoredStep,
   LogStep, ReceiptStep DEF IInv, RunInv, PlanInv

LEMMA Invariance == Spec => []IInv
BY InitInv, IInvStep, PTL DEF Spec

\* Every reachable state is well typed: a loop never runs past the last file of
\* the receipt, whatever the loop before it has found.
THEOREM TypeCorrect == Spec => []TypeOK
<1>1. IInv => TypeOK
  BY DEF IInv, RunInv
<1> QED
  BY <1>1, Invariance, PTL

\* A run that is refused, because of the lock, of what it observes or of what
\* it finds, at any file, has changed nothing.
THEOREM RefusedRunsChangeNothing == Spec => []RefusalChangesNothing
<1>1. IInv => RefusalChangesNothing
  BY DEF IInv, RunInv, PlaceInv, RefusalChangesNothing
<1> QED
  BY <1>1, Invariance, PTL

\* Whatever runs have failed, were killed or are retried, a receipt means that
\* all files of the rolled back run are what their records restore.
THEOREM ReceiptsAreTrue == Spec => []ReceiptMeansRestored
<1>1. IInv => ReceiptMeansRestored
  BY DEF IInv
<1> QED
  BY <1>1, Invariance, PTL

\* What a run overwrites has been changed by others only while the run worked.
THEOREM EditsBeforeTheLockSurvive == Spec => EarlierEditsSurvive
<1>1. IInv /\ [Next]_vars =>
        [\A p \in Run : \A f \in executed'[p] \ executed[p] :
            live[f] # "after" => edits > editsAt[p]]_vars
  <2> SUFFICES ASSUME IInv, [Next]_vars, NEW p \in Run,
                      NEW f \in executed'[p] \ executed[p], live[f] # "after"
               PROVE  edits > editsAt[p]
    OBVIOUS
  <2> USE DEF runVars
  <2>1. TypeOK /\ PlaceInv /\ PlannedInv
    BY DEF IInv, RunInv, PlanInv
  <2>2. ASSUME pc[p] = "execute", inverse[p][at[p]] # "no-op", f = at[p]
        PROVE  edits > editsAt[p]
    <3>1. at[p] \in Files
      BY <2>1 DEF PlaceInv
    <3> QED
      BY <2>1, <2>2, <3>1 DEF PlannedInv, Working, Ahead, Files
  <2>3. CASE executed' = executed
    BY <2>3
  <2>4. ASSUME NEW q \in Run, ExecuteInverse(q) PROVE edits > editsAt[p]
    <3>1. q = p
      BY <2>1, <2>4, ExecuteEffect
    <3>2. f = at[p] /\ pc[p] = "execute" /\ inverse[p][at[p]] # "no-op"
      BY <2>1, <2>4, <3>1, ExecuteEffect
    <3> QED
      BY <2>2, <3>2
  <2>5. ASSUME NEW q \in Run, Kill(q) PROVE edits > editsAt[p]
    <3>1. /\ pc[q] = "execute" /\ inverse[q][at[q]] # "no-op"
          /\ executed' = [executed EXCEPT ![q] = executed[q] \cup {at[q]}]
      BY <2>5, <2>3 DEF Kill
    <3>2. q = p /\ f = at[p]
      BY <2>1, <3>1 DEF TypeOK
    <3> QED
      BY <2>2, <3>1, <3>2
  <2> QED
    BY <2>3, <2>4, <2>5
       DEF Next, RollbackReceipt, ReadSource, AcquireLock, ObserveFile, Prepare,
           Publish, Release, Edit, vars
<1> QED
  BY <1>1, Invariance, PTL DEF Spec, EarlierEditsSurvive
===============================================================================
