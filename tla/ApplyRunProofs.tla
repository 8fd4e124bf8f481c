---------------------------- MODULE ApplyRunProofs ----------------------------
(***************************************************************************)
(* Proofs about ApplyRun, for any number of runs, steps and plans: the     *)
(* type invariant, mutual exclusion under the lock, and what a receipt may *)
(* be relied on for.                                                       *)
(***************************************************************************)
EXTENDS ApplyRun, TLAPS

Refused == {"lock-contention", "lock-failed"}

-------------------------------------------------------------------------------
(* Types *)

\* The type invariant holds at first.
LEMMA TypeInit == Init => TypeOK
<1> SUFFICES ASSUME Init PROVE TypeOK
  OBVIOUS
<1>1. N \in Nat \ {0} /\ MaxFaults \in Nat /\ MaxEdits \in Nat
  BY ApplyAssumption DEF ApplyAssumption
<1>a. 1 \in Steps /\ 1 \in 1..(N + 1) /\ 0 \in 0..MaxFaults /\ 0 \in 0..MaxEdits
  BY <1>1 DEF Steps
<1>2. world \in [Steps -> Value] /\ orphans \subseteq Steps
  BY DEF Init, Value
<1>3. pc \in [Run -> PC] /\ code \in [Run -> Code] /\ lock \in Run \cup {NoRun}
  BY DEF Init, PC, Waiting, Code
<1>4. \A p \in Run : pc[p] \in Waiting \cup Executing => at[p] \in Steps
  BY <1>a DEF Init
<1>5. /\ dry \in [Run -> BOOLEAN]
      /\ plan \in [Run -> [Steps -> Disposition]]
      /\ planned \in [Run -> [Steps -> Value]]
  BY DEF Init, Disposition, Value
<1>6. noChange \in [Run -> BOOLEAN]
  BY DEF Init
<1>9. /\ at \in [Run -> 1..(N + 1)]
      /\ editsAt \in [Run -> 0..MaxEdits]
      /\ faults \in 0..MaxFaults /\ edits \in 0..MaxEdits
  BY <1>a DEF Init
<1>7. outcome \in [Run -> [Steps -> Outcome]]
  BY DEF Init, Outcome
<1>8. /\ log \subseteq Run /\ index \in Run \cup {NoRun} /\ indexed \subseteq Run
      /\ started \in [Run -> SUBSET Steps]
      /\ settled \in [Run -> SUBSET Run]
  BY DEF Init
<1> QED BY <1>2, <1>3, <1>4, <1>5, <1>6, <1>7, <1>8, <1>9 DEF TypeOK

\* Recording an outcome keeps the types of what it changes.
LEMMA RecordTypes ==
    ASSUME TypeOK, NEW p \in Run, pc[p] \in Executing,
           NEW result \in Outcome, NEW same \in BOOLEAN,
           Record(p, result, same)
    PROVE  /\ pc' \in [Run -> PC]
           /\ at' \in [Run -> 1..(N + 1)]
           /\ \A q \in Run : pc'[q] \in Waiting \cup Executing => at'[q] \in Steps
           /\ noChange' \in [Run -> BOOLEAN]
           /\ outcome' \in [Run -> [Steps -> Outcome]]
           /\ code' \in [Run -> Code]
<1> DEFINE outcomes == [outcome[p] EXCEPT ![at[p]] = result]
           status == IF at[p] < N THEN "" ELSE StatusCode(outcomes)
<1>1. N \in Nat \ {0} /\ at[p] \in 1..N
  BY ApplyAssumption DEF ApplyAssumption, TypeOK, Steps
<1>2. outcomes \in [Steps -> Outcome]
  BY DEF TypeOK
<1>3. status \in Code
  BY DEF StatusCode, Code
<1>4. /\ outcome' = [outcome EXCEPT ![p] = outcomes]
      /\ at' = [at EXCEPT ![p] = at[p] + 1]
      /\ code' = [code EXCEPT ![p] = status]
      /\ noChange' = [noChange EXCEPT ![p] = noChange[p] /\ same /\ status = ""]
      /\ pc' = [pc EXCEPT ![p] = IF at[p] < N THEN "step" ELSE "publish"]
  BY DEF Record, Goto
<1>5. noChange' \in [Run -> BOOLEAN]
  <2>1. noChange \in [Run -> BOOLEAN] /\ (noChange[p] /\ same /\ status = "") \in BOOLEAN
    BY Zenon DEF TypeOK
  <2> HIDE DEF status
  <2> QED BY <1>4, <2>1
<1>6. outcome' \in [Run -> [Steps -> Outcome]] /\ code' \in [Run -> Code]
  <2> HIDE DEF outcomes, status
  <2> QED BY <1>2, <1>3, <1>4 DEF TypeOK
<1>7. at' \in [Run -> 1..(N + 1)]
  BY <1>1, at[p] + 1 \in 1..(N + 1), <1>4 DEF TypeOK
<1>8. pc' \in [Run -> PC]
  BY <1>4, {"step", "publish"} \subseteq PC DEF TypeOK, PC, Waiting, Executing, Publishing
<1> HIDE DEF outcomes, status
<1>9. ASSUME NEW q \in Run, pc'[q] \in Waiting \cup Executing PROVE at'[q] \in Steps
  <2>1. CASE q = p
    <3>1. at[p] < N
      BY <1>1, <1>4, <1>9, <2>1 DEF TypeOK, Waiting, Executing
    <3>2. at[p] + 1 \in 1..N
      BY <1>1, <3>1
    <3>3. at'[p] = at[p] + 1
      BY <1>4 DEF TypeOK
    <3> QED BY <2>1, <3>2, <3>3 DEF Steps
  <2>2. CASE q # p
    BY <1>4, <1>9, <2>2 DEF TypeOK
  <2> QED BY <2>1, <2>2
<1> QED BY <1>5, <1>6, <1>7, <1>8, <1>9

\* So does failing a step.
LEMMA FailTypes ==
    ASSUME TypeOK, NEW p \in Run, pc[p] \in Executing, FailStep(p)
    PROVE  /\ pc' \in [Run -> PC]
           /\ at' \in [Run -> 1..(N + 1)]
           /\ \A q \in Run : pc'[q] \in Waiting \cup Executing => at'[q] \in Steps
           /\ noChange' \in [Run -> BOOLEAN]
           /\ outcome' \in [Run -> [Steps -> Outcome]]
           /\ code' \in [Run -> Code]
<1>1. at[p] \in Steps
  BY DEF TypeOK
<1>2. outcome' \in [Run -> [Steps -> Outcome]]
  BY <1>1 DEF TypeOK, FailStep, Outcome
<1>3. noChange' \in [Run -> BOOLEAN]
  BY DEF TypeOK, FailStep
<1> QED BY <1>2, <1>3
  DEF TypeOK, FailStep, Goto, PC, Waiting, Executing, Publishing, Code

\* Every step keeps the types.
LEMMA TypeStep == TypeOK /\ [Next]_vars => TypeOK'
<1> SUFFICES ASSUME TypeOK, [Next]_vars PROVE TypeOK'
  OBVIOUS
<1> USE DEF SameHost, hostVars, planVars, execVars, histVars, logVars
<1>0. N \in Nat \ {0} /\ MaxFaults \in Nat /\ MaxEdits \in Nat /\ 1 \in Steps
      /\ Plans \subseteq [Steps -> Disposition]
  BY ApplyAssumption DEF ApplyAssumption, Steps
<1>f. Fault => faults' \in 0..MaxFaults
  BY <1>0 DEF Fault, TypeOK
<1>1. ASSUME NEW p \in Run, Start(p) PROVE TypeOK'
  <2>1. PICK d \in BOOLEAN, pl \in Plans :
          /\ dry' = [dry EXCEPT ![p] = d]
          /\ plan' = [plan EXCEPT ![p] = pl]
          /\ Goto(p, IF d THEN "step" ELSE "lock")
    BY <1>1 DEF Start
  <2>2. planned' = [planned EXCEPT ![p] = world] /\ pc[p] = "idle"
        /\ UNCHANGED <<hostVars, execVars, histVars, logVars, lock, code, faults>>
    BY <1>1 DEF Start
  <2>3. dry' \in [Run -> BOOLEAN] /\ plan' \in [Run -> [Steps -> Disposition]]
        /\ planned' \in [Run -> [Steps -> Value]]
    BY <1>0, <2>1, <2>2 DEF TypeOK
  <2> QED BY <2>1, <2>2, <2>3 DEF TypeOK, Goto, PC, Waiting, Executing, Publishing
<1>2. ASSUME NEW p \in Run, AcquireLock(p) PROVE TypeOK'
  <2>1. pc[p] = "lock" /\ at' = at /\ started' = started
        /\ UNCHANGED <<hostVars, planVars, logVars>>
    BY <1>2 DEF AcquireLock
  <2>2. lock' \in Run \cup {NoRun} /\ faults' \in 0..MaxFaults
    BY <1>2, <1>f DEF AcquireLock, TypeOK
  <2>7. settled' \in [Run -> SUBSET Run]
    BY <1>2 DEF AcquireLock, TypeOK
  <2>8. editsAt' \in [Run -> 0..MaxEdits]
    <3>1. edits \in 0..MaxEdits /\ editsAt \in [Run -> 0..MaxEdits]
      BY DEF TypeOK
    <3>2. editsAt' = editsAt \/ editsAt' = [editsAt EXCEPT ![p] = edits]
      BY <1>2 DEF AcquireLock
    <3> QED BY <3>1, <3>2
  <2>3. pc' \in [Run -> PC]
    BY <1>2 DEF AcquireLock, LockRefused, Goto, TypeOK, PC, Executing, Publishing
  <2>4. code' \in [Run -> Code]
    BY <1>2 DEF AcquireLock, LockRefused, TypeOK, Code
  <2>9. outcome' \in [Run -> [Steps -> Outcome]]
    <3>1. [i \in Steps |-> "blocked"] \in [Steps -> Outcome]
      BY DEF Outcome
    <3>2. outcome' = outcome \/ outcome' = [outcome EXCEPT ![p] = [i \in Steps |-> "blocked"]]
      BY <1>2 DEF AcquireLock, LockRefused
    <3> HIDE DEF Outcome
    <3> QED BY <3>1, <3>2 DEF TypeOK
  <2>5. noChange' \in [Run -> BOOLEAN]
    BY <1>2 DEF AcquireLock, LockRefused, TypeOK
  <2>6. ASSUME NEW q \in Run, pc'[q] \in Waiting \cup Executing PROVE at'[q] \in Steps
    <3>1. pc[q] \in Waiting \cup Executing
      BY <1>2, <2>6 DEF AcquireLock, LockRefused, Goto, TypeOK, Waiting, Executing
    <3> QED BY <2>1, <3>1 DEF TypeOK
  <2> QED BY <2>1, <2>2, <2>3, <2>4, <2>5, <2>6, <2>7, <2>8, <2>9 DEF TypeOK
<1>3. ASSUME NEW p \in Run, SkipBlocked(p) PROVE TypeOK'
  <2>1. pc[p] \in Executing /\ Record(p, "blocked", TRUE)
        /\ SameHost /\ UNCHANGED <<started, faults>>
    BY <1>3 DEF SkipBlocked, Executing
  <2> QED BY <2>1, RecordTypes, "blocked" \in Outcome DEF TypeOK, Outcome
<1>4. ASSUME NEW p \in Run, RejectDisposition(p) PROVE TypeOK'
  <2>1. pc[p] \in Executing /\ FailStep(p)
        /\ SameHost /\ UNCHANGED <<started, faults>>
    BY <1>4 DEF RejectDisposition, Executing
  <2> QED BY <2>1, FailTypes DEF TypeOK
<1>5. ASSUME NEW p \in Run, Observe(p) PROVE TypeOK'
  <2>1. pc[p] \in Executing /\ SameHost /\ started' = started
    BY <1>5 DEF Observe, Executing
  <2>2. CASE Record(p, "satisfied", TRUE) /\ UNCHANGED faults
    BY <2>1, <2>2, RecordTypes, "satisfied" \in Outcome DEF TypeOK, Outcome
  <2>3. CASE Goto(p, "reobserve") /\ UNCHANGED <<outcome, at, code, noChange, faults>>
    BY <2>1, <2>3 DEF Goto, TypeOK, PC, Waiting, Executing
  <2>4. CASE Fault /\ FailStep(p)
    BY <2>1, <2>4, <1>f, FailTypes DEF TypeOK
  <2> QED BY <1>5, <2>2, <2>3, <2>4 DEF Observe
<1>6. ASSUME NEW p \in Run, Reobserve(p) PROVE TypeOK'
  <2>1. pc[p] \in Executing /\ SameHost /\ started' = started
    BY <1>6 DEF Reobserve, Executing
  <2>2. CASE UNCHANGED faults /\ Record(p, "satisfied", TRUE)
    BY <2>1, <2>2, RecordTypes, "satisfied" \in Outcome DEF TypeOK, Outcome
  <2>3. CASE UNCHANGED faults /\ Record(p, "projected", FALSE)
    BY <2>1, <2>3, RecordTypes, "projected" \in Outcome DEF TypeOK, Outcome
  <2>4. CASE UNCHANGED faults /\ Goto(p, "mutate")
             /\ noChange' = [noChange EXCEPT ![p] = FALSE]
             /\ UNCHANGED <<outcome, at, code>>
    BY <2>1, <2>4 DEF Goto, TypeOK, PC, Waiting, Executing
  <2>5. CASE Fault /\ FailStep(p)
    BY <2>1, <2>5, <1>f, FailTypes DEF TypeOK
  <2> QED BY <1>6, <2>2, <2>3, <2>4, <2>5 DEF Reobserve
<1>7. ASSUME NEW p \in Run, StartCommand(p) PROVE TypeOK'
  <2>1. pc[p] \in Executing /\ SameHost
    BY <1>7 DEF StartCommand, Executing
  <2>2. CASE started' = [started EXCEPT ![p] = started[p] \cup {at[p]}]
             /\ Goto(p, "command") /\ UNCHANGED <<outcome, at, code, noChange, faults>>
    BY <2>1, <2>2 DEF Goto, TypeOK, PC, Waiting, Executing
  <2>3. CASE Fault /\ FailStep(p) /\ UNCHANGED started
    BY <2>1, <2>3, <1>f, FailTypes DEF TypeOK
  <2> QED BY <1>7, <2>2, <2>3 DEF StartCommand
<1>8. ASSUME NEW p \in Run, FinishCommand(p) PROVE TypeOK'
  <2>1. pc[p] \in Executing /\ at[p] \in Steps
        /\ UNCHANGED <<edits, planVars, histVars, logVars, lock, started>>
    BY <1>8 DEF FinishCommand, Executing, TypeOK
  <2>2. world' \in [Steps -> Value] /\ orphans' \subseteq Steps
    <3>1. world' \in [Steps -> Value]
      BY <1>8, <2>1 DEF FinishCommand, Current, TypeOK, Value
    <3>2. orphans' \subseteq Steps
      BY <1>8, <2>1 DEF FinishCommand, TypeOK
    <3> QED BY <3>1, <3>2
  <2>3. CASE Goto(p, "verify") /\ UNCHANGED <<outcome, at, code, noChange>>
             /\ (Fault \/ UNCHANGED faults)
    BY <2>1, <2>2, <2>3, <1>f DEF Goto, TypeOK, PC, Waiting, Executing
  <2>4. CASE Fault /\ FailStep(p)
    BY <2>1, <2>2, <2>4, <1>f, FailTypes DEF TypeOK
  <2> QED BY <1>8, <2>3, <2>4 DEF FinishCommand
<1>9. ASSUME NEW p \in Run, Verify(p) PROVE TypeOK'
  <2>1. pc[p] \in Executing /\ SameHost /\ started' = started
    BY <1>9 DEF Verify, Executing
  <2>2. CASE Record(p, "applied", FALSE) /\ UNCHANGED faults
    BY <2>1, <2>2, RecordTypes, "applied" \in Outcome DEF TypeOK, Outcome
  <2>3. CASE FailStep(p) /\ (Fault \/ UNCHANGED faults)
    BY <2>1, <2>3, <1>f, FailTypes DEF TypeOK
  <2> QED BY <1>9, <2>2, <2>3 DEF Verify
<1>10. ASSUME NEW p \in Run, PublishReceipt(p) PROVE TypeOK'
  <2>1. log' \subseteq Run /\ faults' \in 0..MaxFaults
    BY <1>10, <1>f DEF PublishReceipt, TypeOK
  <2>a. Goto(p, "point") \/ Goto(p, "release")
    BY <1>10 DEF PublishReceipt
  <2>2. pc' \in [Run -> PC] /\ \A q \in Run \ {p} : pc'[q] = pc[q]
    BY <2>a DEF Goto, TypeOK, PC, Publishing
  <2>3. pc'[p] \notin Waiting \cup Executing
    BY <2>a DEF Goto, TypeOK, Waiting, Executing
  <2> QED BY <1>10, <2>1, <2>2, <2>3 DEF PublishReceipt, PublishRest, TypeOK
<1>11. ASSUME NEW p \in Run, UpdateCurrent(p) PROVE TypeOK'
  <2>1. faults' \in 0..MaxFaults
    BY <1>11, <1>f DEF UpdateCurrent, PublishFault, TypeOK
  <2>2. log' \subseteq Run /\ index' \in Run \cup {NoRun} /\ indexed' \subseteq Run
    BY <1>11 DEF UpdateCurrent, Log!Advance, TypeOK
  <2> QED BY <1>11, <2>1, <2>2
    DEF UpdateCurrent, PublishRest, Goto, TypeOK, PC, Waiting, Executing, Publishing
<1>12. ASSUME NEW p \in Run, Release(p) PROVE TypeOK'
  BY <1>12 DEF Release, Goto, TypeOK, PC, Waiting, Executing, Publishing
<1>13. ASSUME NEW p \in Run, Kill(p) PROVE TypeOK'
  <2>1. orphans' \subseteq Steps /\ lock' \in Run \cup {NoRun}
    BY <1>13 DEF Kill, TypeOK, Waiting, Executing
  <2> QED BY <1>13, <1>f, <2>1 DEF Kill, Goto, TypeOK, PC, Waiting, Executing, Publishing
<1>14. ASSUME NEW i \in Steps, Edit(i) PROVE TypeOK'
  <2>1. edits' \in 0..MaxEdits
    BY <1>0, <1>14 DEF Edit, TypeOK
  <2>2. world' \in [Steps -> Value] /\ orphans' \subseteq Steps
    BY <1>14 DEF Edit, TypeOK, Value
  <2> QED BY <1>14, <2>1, <2>2 DEF Edit, TypeOK
<1>15. CASE UNCHANGED vars
  BY <1>15 DEF vars, TypeOK
<1> QED
  BY <1>1, <1>2, <1>3, <1>4, <1>5, <1>6, <1>7, <1>8, <1>9, <1>10, <1>11, <1>12,
     <1>13, <1>14, <1>15
  DEF Next, Apply, Execute

\* Every variable keeps its type, for any number of runs, steps and plans.
THEOREM TypeCorrect == Spec => []TypeOK
BY TypeInit, TypeStep, PTL DEF Spec

-------------------------------------------------------------------------------
(* The inductive invariant, one run at a time *)

\* A run that has not begun to execute has done nothing.
Fresh(p) ==
    /\ code[p] = "" /\ p \notin log /\ started[p] = {} /\ noChange[p]
    /\ at[p] = 1
    /\ \A i \in Steps : outcome[p][i] = "none"
    /\ pc[p] = "lock" => ~dry[p]

\* A run that executes has recorded the steps before at[p] and no other, none
\* of them as failed; those whose command it started were verified, but for
\* the one it is at.
Underway(p) ==
    /\ code[p] = "" /\ p \notin log
    /\ dry[p] => pc[p] \in {"step", "reobserve"} /\ started[p] = {}
    /\ noChange[p] => pc[p] \in {"step", "reobserve"} /\ started[p] = {}
    /\ \A i \in Steps : i >= at[p] => outcome[p][i] = "none"
    /\ \A i \in Steps : i < at[p] =>
          \/ outcome[p][i] \in {"satisfied", "applied", "blocked"}
          \/ dry[p] /\ outcome[p][i] = "projected"
    /\ \A i \in started[p] :
          \/ i < at[p] /\ outcome[p][i] = "applied"
          \/ i = at[p] /\ pc[p] \in {"command", "verify"}

HoldsLock(p) ==
    ~dry[p] /\ pc[p] \in Executing \cup Publishing \cup {"release"} =>
        lock = p \/ code[p] \in Refused

Outsider(p) == dry[p] \/ code[p] \in Refused => started[p] = {}

FailedIsLast(p) ==
    \A i, j \in Steps :
        i < j /\ outcome[p][i] = "failed" => outcome[p][j] = "none" /\ j \notin started[p]

RunInv(p) ==
    /\ pc[p] \in Waiting => Fresh(p)
    /\ pc[p] \in Executing => Underway(p)
    /\ pc[p] \in Publishing \cup {"release", "done"} \/ p \in log => Truthful(p)
    /\ HoldsLock(p)
    /\ Outsider(p)
    /\ FailedIsLast(p)

IInv == TypeOK /\ \A p \in Run : RunInv(p)

\* What another run does leaves RunInv(p) alone, because it takes the lock
\* from nobody.
LEMMA Frame ==
    ASSUME NEW p \in Run, RunInv(p),
           pc'[p] = pc[p], dry'[p] = dry[p], at'[p] = at[p],
           noChange'[p] = noChange[p], outcome'[p] = outcome[p],
           code'[p] = code[p], started'[p] = started[p],
           p \in log' <=> p \in log,
           lock = p => lock' = p
    PROVE  RunInv(p)'
<1>1. Fresh(p)' <=> Fresh(p)
  BY DEF Fresh
<1>2. Underway(p)' <=> Underway(p)
  BY DEF Underway
<1>3. Truthful(p)' <=> Truthful(p)
  BY DEF Truthful, Succeeded
<1>4. HoldsLock(p)'
  BY DEF HoldsLock, RunInv
<1>5. Outsider(p)' /\ FailedIsLast(p)'
  BY DEF Outsider, FailedIsLast, RunInv
<1> QED BY <1>1, <1>2, <1>3, <1>4, <1>5 DEF RunInv

\* Recording a step keeps the invariant of the run.
LEMMA RecordKeeps ==
    ASSUME TypeOK, NEW p \in Run, RunInv(p), pc[p] \in Executing,
           NEW result, NEW same, Record(p, result, same),
           UNCHANGED <<dry, lock, log, started>>,
           result \in {"satisfied", "applied", "blocked"} \/ (dry[p] /\ result = "projected"),
           at[p] \in started[p] => result = "applied"
    PROVE  RunInv(p)'
<1> DEFINE outcomes == [outcome[p] EXCEPT ![at[p]] = result]
           status == IF at[p] < N THEN "" ELSE StatusCode(outcomes)
<1>1. N \in Nat \ {0} /\ at[p] \in 1..N /\ at[p] \in Steps /\ started[p] \subseteq Steps
      /\ outcome[p] \in [Steps -> Outcome]
  BY ApplyAssumption DEF ApplyAssumption, TypeOK, Steps
<1>2. /\ outcome'[p] = outcomes
      /\ at'[p] = at[p] + 1
      /\ code'[p] = status
      /\ noChange'[p] = (noChange[p] /\ same /\ status = "")
      /\ pc'[p] = IF at[p] < N THEN "step" ELSE "publish"
  BY DEF Record, Goto, TypeOK
<1>3. /\ Underway(p) /\ HoldsLock(p)
      /\ UNCHANGED <<dry, lock, log, started>>
  BY DEF RunInv
<1>4. \A i \in Steps : outcomes[i] = IF i = at[p] THEN result ELSE outcome[p][i]
  BY <1>1
<1>o. \A i \in Steps :
        /\ i <= at[p] => i < at[p] \/ i = at[p]
        /\ i > at[p] => i >= at[p] /\ i # at[p] /\ ~(i < at[p])
        /\ i < at[p] \/ i = at[p] => i <= at[p]
        /\ i <= at[p] \/ i > at[p]
  BY <1>1 DEF Steps
<1>5. \A i \in Steps : i <= at[p] =>
         \/ outcomes[i] \in {"satisfied", "applied", "blocked"}
         \/ dry[p] /\ outcomes[i] = "projected"
  BY <1>1, <1>3, <1>4, <1>o, Zenon DEF Underway
<1>6. \A i \in Steps : i > at[p] => outcomes[i] = "none" /\ i \notin started[p]
  <2> HIDE DEF outcomes
  <2> QED BY <1>1, <1>3, <1>4, <1>o DEF Underway
<1>7. \A i \in started[p] : i <= at[p] /\ outcomes[i] = "applied"
  <2> HIDE DEF outcomes
  <2> QED BY <1>1, <1>3, <1>4, <1>o DEF Underway
<1>8. noChange'[p] => started[p] = {}
  BY <1>2, <1>3 DEF Underway
<1>9. dry[p] => started[p] = {}
  BY <1>3 DEF Underway
<1>10. status \in {"", "executor-blocked"}
  BY DEF StatusCode
<1> HIDE DEF outcomes, status
<1>11. FailedIsLast(p)'
  <2>1. \A i \in Steps : i <= at[p] => outcomes[i] # "failed"
    BY <1>5
  <2>2. \A i \in Steps : outcomes[i] # "failed"
    BY <2>1, <1>6, <1>o
  <2> QED BY <1>2, <2>2 DEF FailedIsLast
<1>12. Outsider(p)' /\ HoldsLock(p)'
  BY <1>2, <1>3, <1>9, <1>10 DEF Outsider, HoldsLock, Refused, Underway
<1>13. CASE at[p] < N
  <2>1. code'[p] = "" /\ pc'[p] = "step" /\ p \notin log'
    BY <1>2, <1>3, <1>13 DEF status, Underway
  <2>2. \A i \in Steps : (i >= at[p] + 1 <=> i > at[p]) /\ (i < at[p] + 1 <=> i <= at[p])
    BY <1>1 DEF Steps
  <2>3. \A i \in Steps : i >= at'[p] => outcome'[p][i] = "none"
    BY <1>2, <1>6, <2>2
  <2>4. \A i \in Steps : i < at'[p] =>
          \/ outcome'[p][i] \in {"satisfied", "applied", "blocked"}
          \/ dry'[p] /\ outcome'[p][i] = "projected"
    BY <1>2, <1>3, <1>5, <2>2
  <2>5. \A i \in started'[p] : i < at'[p] /\ outcome'[p][i] = "applied"
    BY <1>1, <1>2, <1>3, <1>7, <2>2
  <2>6. Underway(p)'
    BY <1>3, <1>8, <1>9, <2>1, <2>3, <2>4, <2>5 DEF Underway
  <2> QED BY <1>11, <1>12, <2>1, <2>6
        DEF RunInv, Waiting, Executing, Publishing
<1>14. CASE ~(at[p] < N)
  <2>0. at[p] = N
    BY <1>1, <1>14
  <2>1. pc'[p] = "publish" /\ status = StatusCode(outcomes)
    BY <1>2, <1>14 DEF status
  <2>2. ASSUME status = "", ~dry[p], NEW i \in Steps
        PROVE  outcomes[i] \in {"satisfied", "applied"}
    <3>1. i <= at[p]
      BY <1>1, <2>0 DEF Steps
    <3>2. outcomes[i] # "blocked"
      BY <2>1, <2>2 DEF StatusCode
    <3> QED BY <1>5, <2>2, <3>1, <3>2
  <2>3. Truthful(p)'
    BY <1>2, <1>3, <1>7, <1>8, <2>2 DEF Truthful, Succeeded
  <2> QED BY <1>11, <1>12, <2>1, <2>3
        DEF RunInv, Waiting, Executing, Publishing
<1> QED BY <1>13, <1>14

\* So does failing one.
LEMMA FailKeeps ==
    ASSUME TypeOK, NEW p \in Run, RunInv(p), pc[p] \in Executing, FailStep(p),
           UNCHANGED <<dry, lock, log, started>>
    PROVE  RunInv(p)'
<1>1. at[p] \in Steps /\ started[p] \subseteq Steps /\ outcome[p] \in [Steps -> Outcome]
      /\ N \in Nat /\ at[p] \in 1..N
  BY ApplyAssumption DEF ApplyAssumption, TypeOK, Steps
<1>2. /\ outcome'[p] = [outcome[p] EXCEPT ![at[p]] = "failed"]
      /\ code'[p] = "executor-failed" /\ pc'[p] = "publish" /\ at'[p] = at[p]
  BY <1>1 DEF FailStep, Goto, TypeOK
<1>3. Underway(p) /\ HoldsLock(p)
  BY DEF RunInv
<1>4. \A i \in Steps : outcome'[p][i] = IF i = at[p] THEN "failed" ELSE outcome[p][i]
  BY <1>1, <1>2
<1>o. \A i \in Steps :
        /\ i < at[p] => i # at[p]
        /\ i > at[p] => i >= at[p] /\ i # at[p] /\ ~(i < at[p])
  BY <1>1 DEF Steps
<1>5. \A i \in Steps : i < at[p] => outcome'[p][i] # "failed"
  BY <1>3, <1>4, <1>o DEF Underway
<1>6. \A i \in Steps : i > at[p] => outcome'[p][i] = "none" /\ i \notin started[p]
  BY <1>3, <1>4, <1>o DEF Underway
<1>7. \A i \in started[p] : outcome'[p][i] \in {"applied", "failed"}
  BY <1>1, <1>3, <1>4 DEF Underway
<1>8. FailedIsLast(p)'
  <2>1. \A i \in Steps : outcome'[p][i] = "failed" => ~(i < at[p])
    BY <1>5
  <2>2. \A i, j \in Steps : i < j /\ ~(i < at[p]) => j > at[p]
    BY <1>1 DEF Steps
  <2>3. \A i, j \in Steps : i < j /\ outcome'[p][i] = "failed" =>
          outcome'[p][j] = "none" /\ j \notin started[p]
    BY <1>6, <2>1, <2>2
  <2> QED BY <2>3 DEF FailedIsLast
<1>9. Truthful(p)'
  BY <1>2, <1>7 DEF Truthful, Succeeded
<1>10. Outsider(p)' /\ HoldsLock(p)'
  BY <1>2, <1>3 DEF Outsider, HoldsLock, Underway, Refused
<1> QED BY <1>2, <1>8, <1>9, <1>10 DEF RunInv, Waiting, Executing, Publishing

\* The invariant holds at first.
LEMMA IInvInit == Init => IInv
<1> SUFFICES ASSUME Init PROVE IInv
  OBVIOUS
<1>1. ASSUME NEW p \in Run PROVE RunInv(p)
  <2>1. Fresh(p) /\ HoldsLock(p) /\ Outsider(p) /\ FailedIsLast(p)
    BY DEF Init, Fresh, HoldsLock, Outsider, FailedIsLast, Executing, Publishing, Refused
  <2> QED BY <2>1 DEF Init, RunInv, Executing, Publishing
<1> QED BY <1>1, TypeInit DEF IInv

\* Executing keeps the invariant of the run.
LEMMA ExecuteKeeps ==
    ASSUME TypeOK, NEW p \in Run, RunInv(p), Execute(p)
    PROVE  RunInv(p)' /\ UNCHANGED <<dry, lock, log>>
<1> USE DEF SameHost, hostVars, planVars, histVars, logVars
<1>0. /\ pc[p] \in {"step", "reobserve", "mutate", "command", "verify"}
      /\ pc[p] \in Executing /\ UNCHANGED <<dry, lock, log>>
  BY DEF Execute, SkipBlocked, RejectDisposition, Observe, Reobserve, StartCommand,
         FinishCommand, Verify, Executing
<1>1. Underway(p) /\ HoldsLock(p) /\ Outsider(p) /\ FailedIsLast(p) /\ RunInv(p)
  BY <1>0 DEF RunInv
<1>2. at[p] \in started[p] => pc[p] \in {"command", "verify"}
  <2>1. ~(at[p] < at[p])
    BY ApplyAssumption DEF ApplyAssumption, TypeOK
  <2> QED BY <1>1, <2>1 DEF Underway
<1>3. ASSUME FailStep(p), started' = started PROVE RunInv(p)'
  BY <1>0, <1>3, FailKeeps
<1>4. ASSUME NEW l \in {"reobserve", "mutate", "verify"},
             Goto(p, l), UNCHANGED <<outcome, at, code, started>>,
             noChange' = noChange \/ noChange' = [noChange EXCEPT ![p] = FALSE],
             l = "reobserve" => pc[p] = "step" /\ noChange' = noChange,
             l = "mutate" => pc[p] = "reobserve" /\ ~dry[p] /\ ~noChange'[p],
             l = "verify" => pc[p] = "command" /\ noChange' = noChange
      PROVE  RunInv(p)'
  <2>1. pc'[p] = l /\ (noChange'[p] => noChange[p])
    BY <1>4 DEF Goto, TypeOK
  <2>2. Underway(p)'
    BY <1>0, <1>1, <1>2, <1>4, <2>1 DEF Underway
  <2>3. HoldsLock(p)'
    BY <1>0, <1>1, <1>4, <2>1 DEF HoldsLock
  <2>4. Outsider(p)' /\ FailedIsLast(p)'
    BY <1>0, <1>1, <1>4 DEF Outsider, FailedIsLast
  <2> QED BY <1>0, <1>1, <2>1, <2>2, <2>3, <2>4
        DEF RunInv, Underway, Waiting, Executing, Publishing
<1>5. CASE SkipBlocked(p)
  BY <1>0, <1>2, <1>5, RecordKeeps DEF SkipBlocked
<1>6. CASE RejectDisposition(p)
  BY <1>3, <1>6 DEF RejectDisposition
<1>7. CASE Observe(p)
  <2>1. CASE Record(p, "satisfied", TRUE)
    BY <1>0, <1>2, <1>7, <2>1, RecordKeeps DEF Observe
  <2>2. CASE Goto(p, "reobserve") /\ UNCHANGED <<outcome, at, code, noChange>>
    BY <1>4, <1>7, <2>2 DEF Observe
  <2> QED BY <1>3, <1>7, <2>1, <2>2 DEF Observe
<1>8. CASE Reobserve(p)
  <2>1. CASE Record(p, "satisfied", TRUE)
    BY <1>0, <1>2, <1>8, <2>1, RecordKeeps DEF Reobserve
  <2>2. CASE Record(p, "projected", FALSE) /\ dry[p]
    BY <1>0, <1>2, <1>8, <2>2, RecordKeeps DEF Reobserve
  <2>3. CASE /\ Goto(p, "mutate") /\ ~dry[p]
             /\ noChange' = [noChange EXCEPT ![p] = FALSE]
             /\ UNCHANGED <<outcome, at, code>>
    <3>1. ~noChange'[p]
      BY <2>3 DEF TypeOK
    <3> QED BY <1>4, <1>8, <2>3, <3>1 DEF Reobserve
  <2> QED BY <1>3, <1>8, <2>1, <2>2, <2>3 DEF Reobserve
<1>9. CASE StartCommand(p)
  <2>1. CASE /\ started' = [started EXCEPT ![p] = started[p] \cup {at[p]}]
             /\ Goto(p, "command") /\ UNCHANGED <<outcome, at, code, noChange>>
    <3>1. pc'[p] = "command" /\ pc[p] = "mutate" /\ started'[p] = started[p] \cup {at[p]}
      BY <1>9, <2>1 DEF StartCommand, Goto, TypeOK
    <3>2. ~dry[p] /\ ~noChange[p]
      BY <1>1, <3>1 DEF Underway
    <3>3. Underway(p)' /\ HoldsLock(p)' /\ Outsider(p)'
      BY <1>0, <1>1, <1>2, <2>1, <3>1, <3>2
      DEF Underway, HoldsLock, Outsider, Executing, Refused
    <3>4. FailedIsLast(p)'
      <4>1. \A i \in Steps : outcome[p][i] # "failed"
        <5>1. \A i \in Steps : i < at[p] \/ i >= at[p]
          BY ApplyAssumption DEF ApplyAssumption, TypeOK, Steps
        <5> QED BY <1>1, <5>1 DEF Underway
      <4> QED BY <2>1, <4>1 DEF FailedIsLast
    <3> QED BY <1>0, <1>1, <3>1, <3>3, <3>4
          DEF RunInv, Underway, Waiting, Executing, Publishing
  <2> QED BY <1>3, <1>9, <2>1 DEF StartCommand
<1>10. CASE FinishCommand(p)
  <2>1. CASE Goto(p, "verify") /\ UNCHANGED <<outcome, at, code, noChange>>
    BY <1>4, <1>10, <2>1 DEF FinishCommand
  <2> QED BY <1>3, <1>10, <2>1 DEF FinishCommand
<1>11. CASE Verify(p)
  <2>1. CASE Record(p, "applied", FALSE)
    BY <1>0, <1>11, <2>1, RecordKeeps DEF Verify
  <2> QED BY <1>3, <1>11, <2>1 DEF Verify
<1> QED BY <1>0, <1>5, <1>6, <1>7, <1>8, <1>9, <1>10, <1>11 DEF Execute

\* A run leaves the state of the others alone, and their lock.
LEMMA OthersSame ==
    ASSUME TypeOK, NEW p \in Run, NEW q \in Run, p # q, Apply(q) \/ Kill(q)
    PROVE  /\ pc'[p] = pc[p] /\ dry'[p] = dry[p] /\ at'[p] = at[p]
           /\ noChange'[p] = noChange[p] /\ outcome'[p] = outcome[p]
           /\ code'[p] = code[p] /\ started'[p] = started[p]
           /\ settled'[p] = settled[p] /\ editsAt'[p] = editsAt[p]
           /\ (p \in log' <=> p \in log)
           /\ (lock = p => lock' = p)
<1> USE DEF SameHost, hostVars, planVars, execVars, histVars, logVars, Goto, TypeOK
<1> DEFINE Same == /\ pc'[p] = pc[p] /\ dry'[p] = dry[p] /\ at'[p] = at[p]
                   /\ noChange'[p] = noChange[p] /\ outcome'[p] = outcome[p]
                   /\ code'[p] = code[p] /\ started'[p] = started[p]
                   /\ settled'[p] = settled[p] /\ editsAt'[p] = editsAt[p]
                   /\ (p \in log' <=> p \in log)
                   /\ (lock = p => lock' = p)
<1>0. p # NoRun
  BY ApplyAssumption DEF ApplyAssumption
<1>1. Start(q) => Same
  BY DEF Start
<1>2. AcquireLock(q) => Same
  BY <1>0 DEF AcquireLock, LockRefused
<1>3. \A result, same : Record(q, result, same) =>
        /\ pc'[p] = pc[p] /\ at'[p] = at[p] /\ noChange'[p] = noChange[p]
        /\ outcome'[p] = outcome[p] /\ code'[p] = code[p]
  BY DEF Record
<1>4. FailStep(q) =>
        /\ pc'[p] = pc[p] /\ at'[p] = at[p] /\ noChange'[p] = noChange[p]
        /\ outcome'[p] = outcome[p] /\ code'[p] = code[p]
  BY DEF FailStep
<1>5. Execute(q) => Same
  <2>1. SkipBlocked(q) \/ RejectDisposition(q) \/ Observe(q) \/ Reobserve(q) \/ Verify(q)
          => Same
    BY <1>3, <1>4 DEF SkipBlocked, RejectDisposition, Observe, Reobserve, Verify
  <2>2. StartCommand(q) \/ FinishCommand(q) => Same
    BY <1>4 DEF StartCommand, FinishCommand
  <2> QED BY <2>1, <2>2 DEF Execute
<1>6. PublishReceipt(q) => Same
  BY DEF PublishReceipt, PublishRest
<1>7. UpdateCurrent(q) => Same
  BY DEF UpdateCurrent, PublishRest, PublishFault, Log!Advance
<1>8. Release(q) => Same
  BY DEF Release
<1>9. Kill(q) => Same
  BY DEF Kill
<1> QED BY <1>1, <1>2, <1>5, <1>6, <1>7, <1>8, <1>9 DEF Apply

\* Hence their invariants.
LEMMA OthersKeep ==
    ASSUME TypeOK, NEW p \in Run, NEW q \in Run, p # q, RunInv(p), Apply(q) \/ Kill(q)
    PROVE  RunInv(p)'
BY OthersSame, Frame

\* Every step keeps the invariant.
LEMMA IInvStep == IInv /\ [Next]_vars => IInv'
<1> SUFFICES ASSUME IInv, [Next]_vars PROVE IInv'
  OBVIOUS
<1> USE DEF hostVars, planVars, execVars, histVars, logVars
<1>0. TypeOK /\ TypeOK' /\ \A p \in Run : RunInv(p)
  BY TypeStep DEF IInv
<1>1. ASSUME NEW p \in Run, Start(p) PROVE RunInv(p)'
  <2>1. /\ pc[p] = "idle" /\ Fresh(p)
        /\ pc'[p] = IF dry'[p] THEN "step" ELSE "lock"
        /\ UNCHANGED <<execVars, logVars, lock, code>>
    BY <1>0, <1>1 DEF Start, Goto, TypeOK, RunInv, Waiting
  <2>2. \A i \in Steps : ~(i < 1)
    BY DEF Steps
  <2>3. /\ pc'[p] = "lock" => Fresh(p)'
        /\ pc'[p] = "step" => Underway(p)'
        /\ Outsider(p)' /\ FailedIsLast(p)' /\ HoldsLock(p)'
    BY <2>1, <2>2
    DEF Fresh, Underway, Outsider, FailedIsLast, HoldsLock, Executing, Publishing
  <2> QED BY <2>1, <2>3 DEF RunInv, Fresh, Waiting, Executing, Publishing
<1>2. ASSUME NEW p \in Run, AcquireLock(p) PROVE RunInv(p)'
  <2>1. pc[p] = "lock" /\ Fresh(p) /\ UNCHANGED <<dry, log, at, started>>
    BY <1>0, <1>2 DEF AcquireLock, RunInv, Waiting
  <2>2. CASE lock' = p /\ Goto(p, "step") /\ UNCHANGED <<outcome, noChange, code>>
    <3>1. pc'[p] = "step"
      BY <1>0, <2>2 DEF Goto, TypeOK
    <3>2. \A i \in Steps : ~(i < 1)
      BY DEF Steps
    <3>3. Underway(p)' /\ Outsider(p)' /\ FailedIsLast(p)' /\ HoldsLock(p)'
      BY <2>1, <2>2, <3>1, <3>2 DEF Fresh, Underway, Outsider, FailedIsLast, HoldsLock
    <3> QED BY <2>1, <3>1, <3>3 DEF RunInv, Fresh, Waiting, Executing, Publishing
  <2>3. CASE \E why \in Refused : LockRefused(p, why)
    <3>1. /\ pc'[p] = "publish" /\ code'[p] \in Refused
          /\ \A i \in Steps : outcome'[p][i] = "blocked"
      BY <1>0, <2>3 DEF LockRefused, Goto, TypeOK
    <3>2. Outsider(p)' /\ FailedIsLast(p)' /\ HoldsLock(p)' /\ Truthful(p)'
      BY <2>1, <3>1
      DEF Fresh, Outsider, FailedIsLast, HoldsLock, Truthful, Succeeded, Refused
    <3> QED BY <3>1, <3>2 DEF RunInv, Waiting, Executing, Publishing
  <2> QED BY <1>2, <2>2, <2>3 DEF AcquireLock, Refused
<1>3. ASSUME NEW p \in Run, Execute(p) PROVE RunInv(p)'
  BY <1>0, <1>3, ExecuteKeeps
<1>4. ASSUME NEW p \in Run,
             pc[p] \in Publishing \cup {"release"},
             pc'[p] \in {"point", "release", "done"},
             UNCHANGED <<dry, execVars, code>>,
             pc'[p] = "done" \/ lock' = lock
      PROVE  RunInv(p)'
  <2>1. Truthful(p)' /\ Outsider(p)' /\ FailedIsLast(p)'
    BY <1>0, <1>4 DEF RunInv, Truthful, Succeeded, Outsider, FailedIsLast
  <2>2. HoldsLock(p)'
    BY <1>0, <1>4 DEF RunInv, HoldsLock, Executing, Publishing
  <2> QED BY <1>4, <2>1, <2>2 DEF RunInv, Waiting, Executing, Publishing
<1>5. ASSUME NEW p \in Run, PublishReceipt(p) PROVE RunInv(p)'
  <2>1. pc'[p] \in {"point", "release"}
    BY <1>0, <1>5 DEF PublishReceipt, Goto, TypeOK
  <2> QED BY <1>4, <1>5, <2>1 DEF PublishReceipt, PublishRest, Publishing
<1>6. ASSUME NEW p \in Run, UpdateCurrent(p) PROVE RunInv(p)'
  <2>1. pc'[p] = "release"
    BY <1>0, <1>6 DEF UpdateCurrent, Goto, TypeOK
  <2> QED BY <1>4, <1>6, <2>1 DEF UpdateCurrent, PublishRest, Publishing
<1>7. ASSUME NEW p \in Run, Release(p) PROVE RunInv(p)'
  <2>1. pc'[p] = "done"
    BY <1>0, <1>7 DEF Release, Goto, TypeOK
  <2> QED BY <1>4, <1>7, <2>1 DEF Release
<1>8. ASSUME NEW p \in Run, Kill(p) PROVE RunInv(p)'
  <2>1. pc'[p] = "killed" /\ UNCHANGED <<dry, execVars, logVars, code>>
    BY <1>0, <1>8 DEF Kill, Goto, TypeOK
  <2>2. Outsider(p)' /\ FailedIsLast(p)' /\ HoldsLock(p)'
        /\ (p \in log' => Truthful(p)')
    BY <1>0, <2>1
    DEF RunInv, Outsider, FailedIsLast, HoldsLock, Truthful, Succeeded, Executing, Publishing
  <2> QED BY <2>1, <2>2 DEF RunInv, Waiting, Executing, Publishing
<1>9. ASSUME NEW q \in Run, Apply(q) \/ Kill(q) PROVE \A p \in Run : RunInv(p)'
  <2>1. RunInv(q)'
    BY <1>1, <1>2, <1>3, <1>5, <1>6, <1>7, <1>8, <1>9 DEF Apply
  <2> QED BY <1>0, <1>9, <2>1, OthersKeep
<1>10. ASSUME NEW i \in Steps, Edit(i) PROVE \A p \in Run : RunInv(p)'
  BY <1>0, <1>10, Frame DEF Edit
<1>11. ASSUME UNCHANGED vars, NEW p \in Run PROVE RunInv(p)'
  <2>1. UNCHANGED <<pc, dry, at, noChange, outcome, code, started, log, lock>>
    BY <1>11 DEF vars
  <2> QED BY <1>0, <2>1, Frame
<1> QED BY <1>0, <1>9, <1>10, <1>11 DEF IInv, Next

\* The invariant holds in every reachable state.
THEOREM Inductive == Spec => []IInv
BY IInvInit, IInvStep, PTL DEF Spec

-------------------------------------------------------------------------------
(* What it gives *)

\* A run that may change the host has the lock, from its first observation to
\* its release.
THEOREM LockExcludes == Spec => []OneRunAtATime
<1>1. IInv => OneRunAtATime
  BY DEF IInv, RunInv, HoldsLock, OneRunAtATime, Refused
<1> QED BY <1>1, Inductive, PTL

\* A dry run, and a run that did not get the lock, start no command.
THEOREM OutsidersAreHarmless == Spec => []OutsidersMutateNothing
<1>1. IInv => OutsidersMutateNothing
  BY DEF IInv, RunInv, Outsider, OutsidersMutateNothing, Refused
<1> QED BY <1>1, Inductive, PTL

\* A published receipt accounts for the commands of its run.
THEOREM ReceiptsAreTruthful == Spec => []ReceiptIsTruthful
<1>1. IInv => ReceiptIsTruthful
  BY DEF IInv, TypeOK, RunInv, ReceiptIsTruthful
<1> QED BY <1>1, Inductive, PTL

\* A run does nothing after a step that failed.
THEOREM FailFast == Spec => []NothingAfterFailure
<1>1. IInv => NothingAfterFailure
  BY DEF IInv, RunInv, FailedIsLast, NothingAfterFailure
<1> QED BY <1>1, Inductive, PTL

-------------------------------------------------------------------------------
(* A second run changes nothing *)

\* Edits are counted up, and the run that has the lock took it last.
OrderInv ==
    /\ \A p \in Run : editsAt[p] <= edits
    /\ \A p, q \in Run : lock = p => editsAt[q] <= editsAt[p]

\* A run is about to run a command for a step that needs it, unless the host
\* was edited since the run began.
Needed(p) ==
    pc[p] \in {"mutate", "command"} /\ edits = editsAt[p] => Current(p) # "done"

\* What a run has seen done stays done until the host is edited.
Lasts(p) ==
    ~dry[p] /\ edits = editsAt[p] =>
        \A i \in Steps : outcome[p][i] \in {"satisfied", "applied"} => world[i] = "done"

\* An earlier run that succeeded has ended; only a run that got the lock, and
\* got it later, knows of one.
SettledBefore(p) ==
    \A q \in settled[p] :
        /\ pc[p] \notin Waiting /\ ~dry[p]
        /\ pc[q] = "done" /\ Succeeded(q) /\ ~dry[q]
        /\ editsAt[q] <= editsAt[p]

\* A run after it, on a host nobody edited, never gets to a command.
NoOp(p) ==
    \A q \in settled[p] :
        edits = editsAt[q] =>
            /\ started[p] = {}
            /\ pc[p] \notin {"mutate", "command", "verify"}
            /\ Succeeded(p) => noChange[p]

AgainInv ==
    /\ OrderInv
    /\ \A p \in Run : Needed(p) /\ Lasts(p) /\ SettledBefore(p) /\ NoOp(p)

\* What a step that records or fails does to the run that takes it.
LEMMA RecordEffect ==
    ASSUME TypeOK, NEW p \in Run, pc[p] \in Executing,
           NEW result \in Outcome, NEW same \in BOOLEAN, Record(p, result, same)
    PROVE  /\ at[p] \in Steps
           /\ pc'[p] \in {"step", "publish"}
           /\ \A i \in Steps : outcome'[p][i] = IF i = at[p] THEN result ELSE outcome[p][i]
           /\ Succeeded(p)' => (noChange'[p] <=> noChange[p] /\ same)
<1>1. at[p] \in Steps /\ outcome[p] \in [Steps -> Outcome]
  BY DEF TypeOK
<1>2. pc'[p] \in {"step", "publish"}
  BY DEF Record, Goto, TypeOK
<1>3. outcome'[p] = [outcome[p] EXCEPT ![at[p]] = result]
  BY DEF Record, TypeOK
<1>4. \A i \in Steps : outcome'[p][i] = IF i = at[p] THEN result ELSE outcome[p][i]
  BY <1>1, <1>3
<1>5. \E status : code'[p] = status /\ noChange'[p] = (noChange[p] /\ same /\ status = "")
  <2> DEFINE outcomes == [outcome[p] EXCEPT ![at[p]] = result]
             status == IF at[p] < N THEN "" ELSE StatusCode(outcomes)
  <2>1. /\ code' = [code EXCEPT ![p] = status]
        /\ noChange' = [noChange EXCEPT ![p] = noChange[p] /\ same /\ status = ""]
    BY DEF Record
  <2> HIDE DEF outcomes, status
  <2>2. code'[p] = status /\ noChange'[p] = (noChange[p] /\ same /\ status = "")
    BY <2>1, Zenon DEF TypeOK
  <2> QED BY <2>2
<1>6. noChange[p] \in BOOLEAN
  BY DEF TypeOK
<1>7. Succeeded(p)' => (noChange'[p] <=> noChange[p] /\ same)
  BY <1>5, <1>6 DEF Succeeded
<1> QED BY <1>1, <1>2, <1>4, <1>7

\* A step that fails leaves a run that did not succeed.
LEMMA FailEffect ==
    ASSUME TypeOK, NEW p \in Run, pc[p] \in Executing, FailStep(p)
    PROVE  /\ at[p] \in Steps
           /\ pc'[p] = "publish" /\ ~Succeeded(p)'
           /\ \A i \in Steps : outcome'[p][i] = IF i = at[p] THEN "failed" ELSE outcome[p][i]
<1>1. at[p] \in Steps /\ outcome[p] \in [Steps -> Outcome]
  BY DEF TypeOK
<1>2. /\ outcome'[p] = [outcome[p] EXCEPT ![at[p]] = "failed"]
      /\ code'[p] = "executor-failed" /\ pc'[p] = "publish"
  BY <1>1 DEF FailStep, Goto, TypeOK
<1> QED BY <1>1, <1>2 DEF Succeeded

\* Only the end of a command changes the world, and only the step it is for.
LEMMA WorldEffect ==
    ASSUME TypeOK, NEW p \in Run, Apply(p) \/ Kill(p)
    PROVE  /\ edits' = edits
           /\ world' # world =>
                /\ FinishCommand(p) /\ pc[p] = "command"
                /\ \A i \in Steps : i # at[p] => world'[i] = world[i]
<1> USE DEF SameHost, hostVars, PublishRest
<1>1. edits' = edits /\ (world' # world => FinishCommand(p))
  BY DEF Apply, Kill, Start, AcquireLock, Execute, SkipBlocked, RejectDisposition,
         Observe, Reobserve, StartCommand, FinishCommand, Verify, PublishReceipt,
         UpdateCurrent, Release
<1>2. FinishCommand(p) =>
        pc[p] = "command" /\ (\A i \in Steps : i # at[p] => world'[i] = world[i])
  BY DEF FinishCommand, TypeOK
<1> QED BY <1>1, <1>2

\* When nobody edited the host since a run that succeeded, every step is done.
LEMMA AllDone ==
    ASSUME IInv, AgainInv, NEW p \in Run, NEW q \in settled[p], edits = editsAt[q]
    PROVE  \A i \in Steps : world[i] = "done"
<1>1. q \in Run /\ pc[q] = "done" /\ Succeeded(q) /\ ~dry[q] /\ Lasts(q)
  BY DEF IInv, TypeOK, AgainInv, SettledBefore
<1>2. \A i \in Steps : outcome[q][i] \in {"satisfied", "applied"}
  BY <1>1 DEF IInv, RunInv, Truthful
<1> QED BY <1>1, <1>2 DEF Lasts

\* A run that mutates has the lock.
LEMMA MutatorHasLock ==
    ASSUME IInv, NEW p \in Run, pc[p] \in {"mutate", "command", "verify"}
    PROVE  lock = p /\ ~dry[p] /\ at[p] \in Steps /\ outcome[p][at[p]] = "none"
<1>1. Underway(p) /\ HoldsLock(p) /\ pc[p] \in Executing /\ at[p] \in Steps
  BY DEF IInv, TypeOK, RunInv, Executing
<1>2. at[p] >= at[p]
  BY <1>1, ApplyAssumption DEF ApplyAssumption, Steps
<1> QED BY <1>1, <1>2 DEF Underway, HoldsLock, Refused

\* The lock is taken last by the run that has it.
LEMMA OrderKeeps == IInv /\ OrderInv /\ [Next]_vars => OrderInv'
<1> SUFFICES ASSUME IInv, OrderInv, [Next]_vars PROVE OrderInv'
  OBVIOUS
<1> USE DEF SameHost, hostVars, planVars, execVars, histVars, logVars, PublishRest
<1>0. /\ TypeOK /\ NoRun \notin Run /\ edits \in Int
      /\ \A r \in Run : editsAt[r] \in Int
  BY ApplyAssumption DEF ApplyAssumption, IInv, TypeOK
<1>1. ASSUME editsAt' = editsAt, edits' \in {edits, edits + 1},
             lock' = lock \/ lock' = NoRun
      PROVE  OrderInv'
  BY <1>0, <1>1 DEF OrderInv
<1>2. ASSUME NEW p \in Run, AcquireLock(p) PROVE OrderInv'
  <2>1. CASE lock = NoRun /\ lock' = p /\ editsAt' = [editsAt EXCEPT ![p] = edits]
    <3>1. edits' = edits /\ \A r \in Run : editsAt'[r] = IF r = p THEN edits ELSE editsAt[r]
      BY <1>0, <1>2, <2>1 DEF AcquireLock, TypeOK
    <3> QED BY <1>0, <2>1, <3>1 DEF OrderInv
  <2>2. CASE editsAt' = editsAt /\ lock' = lock
    BY <1>1, <1>2, <2>2 DEF AcquireLock
  <2> QED BY <1>2, <2>1, <2>2 DEF AcquireLock
<1>3. ASSUME NEW p \in Run, Execute(p) PROVE OrderInv'
  BY <1>1, <1>3
  DEF Execute, SkipBlocked, RejectDisposition, Observe, Reobserve, StartCommand,
      FinishCommand, Verify
<1>4. ASSUME NEW p \in Run,
             Start(p) \/ PublishReceipt(p) \/ UpdateCurrent(p) \/ Release(p) \/ Kill(p)
      PROVE  OrderInv'
  BY <1>1, <1>4 DEF Start, PublishReceipt, UpdateCurrent, Release, Kill
<1>5. ASSUME NEW i \in Steps, Edit(i) PROVE OrderInv'
  BY <1>1, <1>5 DEF Edit
<1>6. CASE UNCHANGED vars
  BY <1>1, <1>6 DEF vars
<1> QED BY <1>2, <1>3, <1>4, <1>5, <1>6 DEF Next, Apply

\* What one run does keeps what was said of another.
LEMMA OthersAgain ==
    ASSUME IInv, AgainInv, NEW p \in Run, NEW r \in Run, r # p, Apply(p) \/ Kill(p)
    PROVE  Needed(r)' /\ Lasts(r)' /\ SettledBefore(r)' /\ NoOp(r)'
<1>0. TypeOK /\ NoRun \notin Run /\ Needed(p) /\ OrderInv /\ edits \in Int
      /\ Needed(r) /\ Lasts(r) /\ SettledBefore(r) /\ NoOp(r)
  BY ApplyAssumption DEF ApplyAssumption, IInv, AgainInv, TypeOK
<1>1. /\ edits' = edits
      /\ world' # world =>
           /\ pc[p] = "command"
           /\ \A i \in Steps : i # at[p] => world'[i] = world[i]
  BY <1>0, WorldEffect
<1>2. /\ pc'[r] = pc[r] /\ dry'[r] = dry[r] /\ at'[r] = at[r]
      /\ noChange'[r] = noChange[r] /\ outcome'[r] = outcome[r]
      /\ code'[r] = code[r] /\ started'[r] = started[r]
      /\ settled'[r] = settled[r] /\ editsAt'[r] = editsAt[r]
  BY <1>0, OthersSame
<1>3. Needed(r)'
  <2>1. ASSUME pc[r] \in {"mutate", "command"}, world' # world PROVE FALSE
    BY <1>1, <2>1, MutatorHasLock
  <2> QED BY <1>0, <1>1, <1>2, <2>1 DEF Needed, Current
<1>4. Lasts(r)'
  <2>1. CASE world' = world
    BY <1>0, <1>1, <1>2, <2>1 DEF Lasts
  <2>2. CASE world' # world
    <3>1. lock = p /\ at[p] \in Steps
      BY <1>1, <2>2, MutatorHasLock
    <3>2. editsAt[r] \in Int /\ editsAt[p] \in Int
          /\ editsAt[r] <= editsAt[p] /\ editsAt[p] <= edits
      BY <1>0, <3>1 DEF OrderInv, TypeOK
    <3>3. edits = editsAt[r] => world[at[p]] # "done"
      BY <1>0, <1>1, <2>2, <3>2 DEF Needed, Current
    <3> QED BY <1>0, <1>1, <1>2, <2>2, <3>3 DEF Lasts
  <2> QED BY <2>1, <2>2
<1>5. ASSUME NEW q \in settled[r]
      PROVE  q \in Run /\ pc'[q] = pc[q] /\ dry'[q] = dry[q]
             /\ code'[q] = code[q] /\ editsAt'[q] = editsAt[q]
  <2>1. q \in Run /\ pc[q] = "done"
    BY <1>0, <1>5 DEF SettledBefore, TypeOK
  <2>2. q # p
    BY <2>1
    DEF Apply, Kill, Start, AcquireLock, Execute, SkipBlocked, RejectDisposition,
        Observe, Reobserve, StartCommand, FinishCommand, Verify, PublishReceipt,
        UpdateCurrent, Release
  <2> QED BY <1>0, <2>1, <2>2, OthersSame
<1>6. SettledBefore(r)'
  BY <1>0, <1>2, <1>5 DEF SettledBefore, Succeeded
<1>7. NoOp(r)'
  BY <1>0, <1>1, <1>2, <1>5 DEF NoOp, Succeeded
<1> QED BY <1>3, <1>4, <1>6, <1>7

\* The runs a run knows of are over: nothing it does changes them.
LEMMA SettledSame ==
    ASSUME IInv, AgainInv, NEW p \in Run, Apply(p) \/ Kill(p), NEW q \in Run,
           pc[q] = "done"
    PROVE  /\ pc'[q] = pc[q] /\ dry'[q] = dry[q] /\ code'[q] = code[q]
           /\ editsAt'[q] = editsAt[q]
<1>1. q # p
  BY DEF Apply, Kill, Start, AcquireLock, Execute, SkipBlocked, RejectDisposition,
         Observe, Reobserve, StartCommand, FinishCommand, Verify, PublishReceipt,
         UpdateCurrent, Release
<1> QED BY <1>1, OthersSame DEF IInv

\* Beginning keeps the invariant of the run.
LEMMA BeginAgain ==
    ASSUME IInv, AgainInv, NEW p \in Run, Start(p) \/ AcquireLock(p)
    PROVE  Needed(p)' /\ Lasts(p)' /\ SettledBefore(p)' /\ NoOp(p)'
<1> USE DEF hostVars, planVars, execVars, histVars, logVars
<1>0. TypeOK /\ SettledBefore(p) /\ OrderInv
  BY DEF IInv, AgainInv
<1>1. pc[p] \in Waiting /\ Fresh(p)
  BY DEF Start, AcquireLock, Waiting, IInv, RunInv
<1>2. settled[p] = {}
  BY <1>0, <1>1 DEF SettledBefore, TypeOK
<1>3. CASE Start(p)
  <2>1. /\ pc'[p] \in {"step", "lock"}
        /\ UNCHANGED <<outcome, started, settled, editsAt, edits, code, noChange>>
    BY <1>0, <1>3 DEF Start, Goto, TypeOK
  <2>2. \A i \in Steps : outcome[p][i] = "none"
    BY <1>1 DEF Fresh
  <2>3. Needed(p)'
    BY <2>1 DEF Needed
  <2> QED BY <1>2, <2>1, <2>2, <2>3 DEF Lasts, SettledBefore, NoOp
<1>4. CASE AcquireLock(p)
  <2>0. /\ pc'[p] \in {"step", "publish"} /\ pc[p] = "lock" /\ ~dry[p]
        /\ UNCHANGED <<dry, started, edits>>
    BY <1>0, <1>1, <1>4 DEF AcquireLock, LockRefused, Goto, TypeOK, Fresh
  <2>1. Needed(p)'
    BY <2>0 DEF Needed
  <2>2. \A i \in Steps : outcome'[p][i] \in {"none", "blocked"}
    <3>1. \A i \in Steps : outcome[p][i] = "none"
      BY <1>1 DEF Fresh
    <3>2. outcome' = outcome \/ outcome' = [outcome EXCEPT ![p] = [i \in Steps |-> "blocked"]]
      BY <1>4 DEF AcquireLock, LockRefused
    <3>3. outcome'[p] = outcome[p] \/ outcome'[p] = [i \in Steps |-> "blocked"]
      BY <1>0, <3>2 DEF TypeOK
    <3> QED BY <3>1, <3>3
  <2>3. Lasts(p)'
    BY <2>2 DEF Lasts
  <2>4. CASE UNCHANGED settled
    BY <1>2, <2>1, <2>3, <2>4 DEF SettledBefore, NoOp
  <2>5. CASE /\ Goto(p, "step") /\ UNCHANGED <<outcome, noChange, code>>
             /\ settled' = [settled EXCEPT ![p] =
                    {q \in Run : pc[q] = "done" /\ Succeeded(q) /\ ~dry[q]}]
             /\ editsAt' = [editsAt EXCEPT ![p] = edits]
    <3>1. pc'[p] = "step" /\ editsAt'[p] = edits /\ started[p] = {} /\ noChange[p]
      BY <1>0, <1>1, <2>5 DEF Goto, Fresh, TypeOK
    <3>2. settled'[p] = {q \in Run : pc[q] = "done" /\ Succeeded(q) /\ ~dry[q]}
      BY <1>0, <2>5 DEF TypeOK
    <3>3. \A q \in settled'[p] : /\ q \in Run /\ pc'[q] = "done" /\ Succeeded(q)' /\ ~dry'[q]
                                 /\ editsAt'[q] <= edits
      <4>1. Apply(p)
        BY <1>4 DEF Apply
      <4>2. ASSUME NEW q \in Run, pc[q] = "done", Succeeded(q), ~dry[q]
            PROVE  pc'[q] = "done" /\ Succeeded(q)' /\ ~dry'[q] /\ editsAt'[q] <= edits
        <5>1. /\ pc'[q] = pc[q] /\ dry'[q] = dry[q] /\ code'[q] = code[q]
              /\ editsAt'[q] = editsAt[q]
          BY <4>1, <4>2, SettledSame
        <5> QED BY <1>0, <4>2, <5>1 DEF Succeeded, OrderInv
      <4> QED BY <3>2, <4>2
    <3>4. SettledBefore(p)'
      BY <2>0, <3>1, <3>3 DEF SettledBefore, Waiting
    <3>5. NoOp(p)'
      BY <2>0, <2>5, <3>1 DEF NoOp
    <3> QED BY <2>1, <2>3, <3>4, <3>5
  <2> QED BY <1>4, <2>4, <2>5 DEF AcquireLock
<1> QED BY <1>3, <1>4

\* So does executing, publishing, unlocking and being killed.
LEMMA RestAgain ==
    ASSUME IInv, AgainInv, NEW p \in Run,
           Execute(p) \/ PublishReceipt(p) \/ UpdateCurrent(p) \/ Release(p) \/ Kill(p)
    PROVE  Needed(p)' /\ Lasts(p)' /\ SettledBefore(p)' /\ NoOp(p)'
<1> USE DEF SameHost, hostVars, planVars, execVars, histVars, logVars, PublishRest
<1>0. /\ TypeOK /\ Needed(p) /\ Lasts(p) /\ SettledBefore(p) /\ NoOp(p)
      /\ Apply(p) \/ Kill(p)
  BY DEF IInv, AgainInv, Apply
<1>1. /\ edits' = edits /\ dry' = dry /\ settled' = settled /\ editsAt' = editsAt
  BY DEF Execute, SkipBlocked, RejectDisposition, Observe, Reobserve, StartCommand,
         FinishCommand, Verify, PublishReceipt, UpdateCurrent, Release, Kill
<1>2. \A q \in settled[p] : q \in Run /\ pc[q] = "done" /\ pc'[q] = "done" /\ code'[q] = code[q]
  BY <1>0, SettledSame DEF SettledBefore, TypeOK
<1>3. ASSUME pc'[p] \notin Waiting PROVE SettledBefore(p)'
  BY <1>0, <1>1, <1>2, <1>3 DEF SettledBefore, Succeeded
<1>4. ASSUME NEW q \in settled[p], edits = editsAt[q]
      PROVE  /\ \A i \in Steps : world[i] = "done"
             /\ started[p] = {} /\ pc[p] \notin {"mutate", "command", "verify"}
             /\ Succeeded(p) => noChange[p]
  BY <1>0, <1>4, AllDone DEF NoOp
<1>5. ASSUME pc'[p] \notin {"mutate", "command", "verify"}, started' = started,
             pc[p] \notin {"mutate", "command", "verify"} /\ Succeeded(p)' =>
                 Succeeded(p) /\ (noChange[p] => noChange'[p])
      PROVE  NoOp(p)'
  BY <1>1, <1>4, <1>5 DEF NoOp
<1>6. ASSUME NEW result \in Outcome, NEW same \in BOOLEAN, Record(p, result, same),
             pc[p] \in Executing, world' = world, started' = started,
             result \in {"satisfied", "applied"} => Current(p) = "done",
             dry[p] \/ same \/ pc[p] = "verify"
      PROVE  Needed(p)' /\ Lasts(p)' /\ SettledBefore(p)' /\ NoOp(p)'
  <2>1. /\ at[p] \in Steps
        /\ pc'[p] \in {"step", "publish"}
        /\ \A i \in Steps : outcome'[p][i] = IF i = at[p] THEN result ELSE outcome[p][i]
        /\ Succeeded(p)' => (noChange'[p] <=> noChange[p] /\ same)
    BY <1>0, <1>6, RecordEffect
  <2>2. Needed(p)' /\ SettledBefore(p)'
    BY <1>3, <2>1 DEF Needed, Waiting
  <2>3. Lasts(p)'
    BY <1>0, <1>1, <1>6, <2>1 DEF Lasts, Current
  <2>4. Succeeded(p)
    BY <1>6 DEF IInv, RunInv, Underway, Succeeded
  <2>5. NoOp(p)'
    <3>1. CASE settled[p] = {}
      BY <1>1, <3>1 DEF NoOp
    <3>2. CASE settled[p] # {}
      <4>1. ~dry[p]
        BY <1>0, <3>2 DEF SettledBefore
      <4> QED BY <1>5, <1>6, <2>1, <2>4, <4>1
    <3> QED BY <3>1, <3>2
  <2> QED BY <2>2, <2>3, <2>5
<1>7. ASSUME FailStep(p), pc[p] \in Executing, started' = started,
             \A i \in Steps : i # at[p] => world'[i] = world[i]
      PROVE  Needed(p)' /\ Lasts(p)' /\ SettledBefore(p)' /\ NoOp(p)'
  <2>1. /\ at[p] \in Steps /\ pc'[p] = "publish" /\ ~Succeeded(p)'
        /\ \A i \in Steps : outcome'[p][i] = IF i = at[p] THEN "failed" ELSE outcome[p][i]
    BY <1>0, <1>7, FailEffect
  <2>2. Needed(p)' /\ SettledBefore(p)'
    BY <1>3, <2>1 DEF Needed, Waiting
  <2>3. Lasts(p)'
    BY <1>0, <1>1, <1>7, <2>1 DEF Lasts
  <2> QED BY <1>5, <1>7, <2>1, <2>2, <2>3
<1>8. CASE Execute(p)
  <2>1. CASE SkipBlocked(p)
    BY <1>6, <2>1, "blocked" \in Outcome DEF SkipBlocked, Executing, Outcome
  <2>2. CASE RejectDisposition(p)
    BY <1>7, <2>2 DEF RejectDisposition, Executing
  <2>3. CASE Observe(p)
    <3>1. pc[p] = "step" /\ pc[p] \in Executing /\ world' = world /\ started' = started
      BY <2>3 DEF Observe, Executing
    <3>2. CASE Current(p) = "done" /\ Record(p, "satisfied", TRUE)
      BY <1>6, <3>1, <3>2, "satisfied" \in Outcome DEF Outcome
    <3>3. CASE Goto(p, "reobserve") /\ UNCHANGED <<outcome, at, code, noChange>>
      <4>1. pc'[p] = "reobserve" /\ (Succeeded(p)' <=> Succeeded(p))
        BY <1>0, <3>3 DEF Goto, TypeOK, Succeeded
      <4>2. Needed(p)' /\ Lasts(p)'
        BY <1>0, <1>1, <3>1, <3>3, <4>1 DEF Needed, Lasts
      <4> QED BY <1>3, <1>5, <3>1, <3>3, <4>1, <4>2 DEF Waiting
    <3>4. CASE FailStep(p)
      BY <1>7, <3>1, <3>4
    <3> QED BY <2>3, <3>2, <3>3, <3>4 DEF Observe
  <2>4. CASE Reobserve(p)
    <3>1. pc[p] = "reobserve" /\ pc[p] \in Executing /\ world' = world /\ started' = started
      BY <2>4 DEF Reobserve, Executing
    <3>2. CASE Current(p) = "done" /\ Record(p, "satisfied", TRUE)
      BY <1>6, <3>1, <3>2, "satisfied" \in Outcome DEF Outcome
    <3>3. CASE dry[p] /\ Record(p, "projected", FALSE)
      BY <1>6, <3>1, <3>3, "projected" \in Outcome DEF Outcome
    <3>4. CASE Current(p) # "done" /\ Goto(p, "mutate") /\ UNCHANGED <<outcome, at, code>>
      <4>1. pc'[p] = "mutate" /\ at[p] \in Steps
        BY <1>0, <3>1, <3>4 DEF Goto, TypeOK
      <4>2. Needed(p)' /\ Lasts(p)'
        BY <1>0, <1>1, <3>1, <3>4 DEF Needed, Lasts, Current
      <4>3. \A q \in settled[p] : edits # editsAt[q]
        BY <1>4, <3>4, <4>1 DEF Current
      <4> QED BY <1>1, <1>3, <4>1, <4>2, <4>3 DEF NoOp, Waiting
    <3>5. CASE FailStep(p)
      BY <1>7, <3>1, <3>5
    <3> QED BY <2>4, <3>2, <3>3, <3>4, <3>5 DEF Reobserve
  <2>5. CASE StartCommand(p)
    <3>1. pc[p] = "mutate" /\ pc[p] \in Executing /\ world' = world
      BY <2>5 DEF StartCommand, Executing
    <3>2. \A q \in settled[p] : edits # editsAt[q]
      BY <1>4, <3>1
    <3>3. CASE Goto(p, "command") /\ UNCHANGED <<outcome, at>>
      <4>1. pc'[p] = "command"
        BY <1>0, <3>3 DEF Goto, TypeOK
      <4>2. Needed(p)' /\ Lasts(p)'
        BY <1>0, <1>1, <3>1, <3>3, <4>1 DEF Needed, Lasts, Current
      <4> QED BY <1>1, <1>3, <3>2, <4>1, <4>2 DEF NoOp, Waiting
    <3>4. CASE FailStep(p) /\ started' = started
      BY <1>7, <3>1, <3>4
    <3> QED BY <2>5, <3>3, <3>4 DEF StartCommand
  <2>6. CASE FinishCommand(p)
    <3>1. /\ pc[p] = "command" /\ pc[p] \in Executing /\ started' = started
          /\ \A i \in Steps : i # at[p] => world'[i] = world[i]
      BY <1>0, <2>6 DEF FinishCommand, Executing, TypeOK
    <3>2. CASE Goto(p, "verify") /\ UNCHANGED <<outcome, at>>
      <4>1. pc'[p] = "verify"
        BY <1>0, <3>2 DEF Goto, TypeOK
      <4>2. outcome[p][at[p]] = "none"
        BY <3>1, MutatorHasLock
      <4>3. Needed(p)' /\ Lasts(p)'
        BY <1>0, <1>1, <3>1, <3>2, <4>1, <4>2 DEF Needed, Lasts
      <4>4. \A q \in settled[p] : edits # editsAt[q]
        BY <1>4, <3>1
      <4> QED BY <1>1, <1>3, <4>1, <4>3, <4>4 DEF NoOp, Waiting
    <3>3. CASE FailStep(p)
      BY <1>7, <3>1, <3>3
    <3> QED BY <2>6, <3>2, <3>3 DEF FinishCommand
  <2>7. CASE Verify(p)
    <3>1. pc[p] = "verify" /\ pc[p] \in Executing /\ world' = world /\ started' = started
      BY <2>7 DEF Verify, Executing
    <3>2. CASE Current(p) = "done" /\ Record(p, "applied", FALSE)
      BY <1>6, <3>1, <3>2, "applied" \in Outcome DEF Outcome
    <3>3. CASE FailStep(p)
      BY <1>7, <3>1, <3>3
    <3> QED BY <2>7, <3>2, <3>3 DEF Verify
  <2> QED BY <1>8, <2>1, <2>2, <2>3, <2>4, <2>5, <2>6, <2>7 DEF Execute
<1>9. ASSUME PublishReceipt(p) \/ UpdateCurrent(p) \/ Release(p) \/ Kill(p)
      PROVE  Needed(p)' /\ Lasts(p)' /\ SettledBefore(p)' /\ NoOp(p)'
  <2>1. /\ pc'[p] \in {"point", "release", "done", "killed"}
        /\ UNCHANGED <<world, outcome, started, noChange, code>>
    BY <1>0, <1>9 DEF PublishReceipt, UpdateCurrent, Release, Kill, Goto, TypeOK
  <2>2. Needed(p)' /\ Lasts(p)'
    BY <1>0, <1>1, <2>1 DEF Needed, Lasts
  <2>3. Succeeded(p)' <=> Succeeded(p)
    BY <2>1 DEF Succeeded
  <2> QED BY <1>3, <1>5, <2>1, <2>2, <2>3 DEF Waiting
<1> QED BY <1>8, <1>9

\* Every step keeps the invariant.
LEMMA AgainStep == IInv /\ AgainInv /\ [Next]_vars => AgainInv'
<1> SUFFICES ASSUME IInv, AgainInv, [Next]_vars PROVE AgainInv'
  OBVIOUS
<1>1. OrderInv'
  BY OrderKeeps DEF AgainInv
<1>2. ASSUME NEW p \in Run, Apply(p) \/ Kill(p), NEW r \in Run
      PROVE  Needed(r)' /\ Lasts(r)' /\ SettledBefore(r)' /\ NoOp(r)'
  <2>1. CASE r # p
    BY <1>2, <2>1, OthersAgain
  <2>2. CASE r = p
    BY <1>2, <2>2, BeginAgain, RestAgain DEF Apply
  <2> QED BY <2>1, <2>2
<1>3. ASSUME NEW i \in Steps, Edit(i), NEW r \in Run
      PROVE  Needed(r)' /\ Lasts(r)' /\ SettledBefore(r)' /\ NoOp(r)'
  <2>0. TypeOK /\ SettledBefore(r)
    BY DEF IInv, AgainInv
  <2>1. /\ edits' = edits + 1
        /\ UNCHANGED <<pc, dry, code, settled, editsAt>>
    BY <1>3 DEF Edit, planVars, execVars, histVars
  <2>2. \A q \in Run : edits' # editsAt'[q]
    <3>1. edits \in Int /\ \A q \in Run : editsAt[q] \in Int /\ editsAt[q] <= edits
      BY <2>0, ApplyAssumption DEF ApplyAssumption, TypeOK, AgainInv, OrderInv
    <3> QED BY <2>1, <3>1
  <2>3. SettledBefore(r)' /\ settled'[r] \subseteq Run
    BY <2>0, <2>1 DEF SettledBefore, Succeeded, TypeOK
  <2> QED BY <2>2, <2>3 DEF Needed, Lasts, NoOp
<1>4. ASSUME UNCHANGED vars, NEW r \in Run
      PROVE  Needed(r)' /\ Lasts(r)' /\ SettledBefore(r)' /\ NoOp(r)'
  BY <1>4 DEF vars, AgainInv, Needed, Lasts, SettledBefore, NoOp, Current, Succeeded
<1> QED BY <1>1, <1>2, <1>3, <1>4 DEF AgainInv, Next

\* "Re-running apply with no catalog change is a no-op": a run that takes the
\* lock after another has succeeded, on a host nobody edited since that one
\* took it, starts no command, and reports that it changed nothing.
THEOREM SecondApplyChangesNothing == Spec => []SecondApplyIsNoOp
<1>1. Init => AgainInv
  <2> SUFFICES ASSUME Init PROVE AgainInv
    OBVIOUS
  <2>1. OrderInv
    <3>1. edits = 0 /\ \A p \in Run : editsAt[p] = 0
      BY DEF Init
    <3> QED BY <3>1 DEF OrderInv
  <2>2. ASSUME NEW p \in Run PROVE Needed(p) /\ Lasts(p) /\ SettledBefore(p) /\ NoOp(p)
    <3>1. settled[p] = {} /\ pc[p] = "idle" /\ \A i \in Steps : outcome[p][i] = "none"
      BY DEF Init
    <3> QED BY <3>1 DEF Needed, Lasts, SettledBefore, NoOp
  <2> QED BY <2>1, <2>2 DEF AgainInv
<1>2. IInv /\ AgainInv => SecondApplyIsNoOp
  BY DEF AgainInv, NoOp, SecondApplyIsNoOp
<1> QED BY <1>1, <1>2, AgainStep, Inductive, PTL DEF Spec

===============================================================================
