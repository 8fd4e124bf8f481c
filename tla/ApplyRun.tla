------------------------------- MODULE ApplyRun -------------------------------
(***************************************************************************)
(* internal/app/apply.go (Applier.Apply), internal/app/lock.go and         *)
(* internal/executor (Executor.Execute, CommandMutator.Mutate): several    *)
(* runs of one plan, at once, on a host that its user changes meanwhile.   *)
(*                                                                         *)
(* A step of the plan stands for one thing on the host, whose state is     *)
(* abstracted to Value. Runs publish through ReceiptLog, which             *)
(* ReceiptStore implements; a receipt is named by its run.                 *)
(***************************************************************************)
EXTENDS Integers

CONSTANTS
    Run,          \* runs of the configurator, each with its own run ID
    N,            \* number of steps of the plan
    Plans,        \* dispositions the planner may give to the steps
    NoRun,
    MaxFaults,    \* bound: failed calls and killed runs
    MaxEdits      \* bound: changes of the host by anyone else

Steps == 1..N

\* "run" stands for satisfied, apply and remove, which Execute treats alike:
\* it observes first. "other" is any value Execute does not know.
Disposition == {"run", "blocked", "other"}

ASSUME ApplyAssumption ==
    /\ N \in Nat \ {0}
    /\ Plans \subseteq [Steps -> Disposition]
    /\ NoRun \notin Run
    /\ MaxFaults \in Nat
    /\ MaxEdits \in Nat

VARIABLES
    world,      \* state of what each step manages
    lock,       \* the run that holds the flock
    pc,         \* where each run is
    dry,        \* input.DryRun
    plan,       \* Disposition of each step
    planned,    \* Observed of each step, as the plan recorded it
    at,         \* the step Execute has reached
    noChange,   \* result.NoChange, then receipt.NoChange
    outcome,    \* result.Outcomes
    code,       \* receipt.Errors: why the run failed, "" if it did not
    log, index, indexed,    \* the published receipts (ReceiptLog)
    orphans,    \* steps whose command outlives the run, or the step, that started it
    started,    \* history: the steps each run has started a command for
    settled,    \* history: at lock time, earlier runs that had succeeded
    editsAt,    \* history: edits at lock time
    faults, edits

logVars  == <<log, index, indexed>>
hostVars == <<world, orphans, edits>>
planVars == <<dry, plan, planned>>
execVars == <<at, noChange, outcome, started>>
histVars == <<settled, editsAt>>
vars == <<world, lock, pc, dry, plan, planned, at, noChange, outcome, code,
          log, index, indexed, orphans, started, settled, editsAt, faults, edits>>

Value   == {"done", "old", "edited", "partial"}
Outcome == {"none", "satisfied", "applied", "blocked", "projected", "failed"}
Code    == {"", "lock-contention", "lock-failed", "executor-failed",
            "executor-blocked"}

Waiting    == {"idle", "lock"}
Executing  == {"step", "reobserve", "mutate", "command", "verify"}
Publishing == {"publish", "point"}
PC == Waiting \cup Executing \cup Publishing \cup {"release", "done", "killed"}

Log == INSTANCE ReceiptLog WITH
    Receipt <- Run, NoReceipt <- NoRun, settled <- TRUE, whole <- TRUE

TypeOK ==
    /\ world \in [Steps -> Value]
    /\ lock \in Run \cup {NoRun}
    /\ pc \in [Run -> PC]
    /\ dry \in [Run -> BOOLEAN]
    /\ plan \in [Run -> [Steps -> Disposition]]
    /\ planned \in [Run -> [Steps -> Value]]
    /\ at \in [Run -> 1..(N + 1)]
    /\ \A p \in Run : pc[p] \in Waiting \cup Executing => at[p] \in Steps
    /\ noChange \in [Run -> BOOLEAN]
    /\ outcome \in [Run -> [Steps -> Outcome]]
    /\ code \in [Run -> Code]
    /\ log \subseteq Run /\ index \in Run \cup {NoRun} /\ indexed \subseteq Run
    /\ orphans \subseteq Steps
    /\ started \in [Run -> SUBSET Steps]
    /\ settled \in [Run -> SUBSET Run]
    /\ editsAt \in [Run -> 0..MaxEdits]
    /\ faults \in 0..MaxFaults
    /\ edits \in 0..MaxEdits

Init ==
    /\ world \in [Steps -> {"done", "old"}]
    /\ lock = NoRun
    /\ pc = [p \in Run |-> "idle"]
    /\ dry = [p \in Run |-> FALSE]
    /\ plan = [p \in Run |-> [i \in Steps |-> "run"]]
    /\ planned = [p \in Run |-> [i \in Steps |-> "old"]]
    /\ at = [p \in Run |-> 1]
    /\ noChange = [p \in Run |-> TRUE]
    /\ outcome = [p \in Run |-> [i \in Steps |-> "none"]]
    /\ code = [p \in Run |-> ""]
    /\ log = {} /\ index = NoRun /\ indexed = {}
    /\ orphans = {}
    /\ started = [p \in Run |-> {}]
    /\ settled = [p \in Run |-> {}]
    /\ editsAt = [p \in Run |-> 0]
    /\ faults = 0
    /\ edits = 0

-------------------------------------------------------------------------------
Goto(p, label) == pc' = [pc EXCEPT ![p] = label]

Fault == faults < MaxFaults /\ faults' = faults + 1

Current(p) == world[at[p]]

\* Mutant: a blocked step is not counted.
StatusCodeIgnoresBlocked(outcomes) ==
    IF \E i \in Steps : outcomes[i] = "failed" THEN "executor-blocked" ELSE ""

\* The code the receipt gets once Execute has returned without an error.
StatusCode(outcomes) ==
    IF \E i \in Steps : outcomes[i] \in {"blocked", "failed"}
    THEN "executor-blocked" ELSE ""

Succeeded(p) == code[p] = ""

-------------------------------------------------------------------------------
(* Planning and locking *)

\* A plan is built from what is observed now, and Apply is called with it.
Start(p) ==
    /\ pc[p] = "idle"
    /\ \E d \in BOOLEAN, pl \in Plans :
        /\ dry' = [dry EXCEPT ![p] = d]
        /\ plan' = [plan EXCEPT ![p] = pl]
        /\ Goto(p, IF d THEN "step" ELSE "lock")
    /\ planned' = [planned EXCEPT ![p] = world]
    /\ UNCHANGED <<hostVars, execVars, histVars, logVars, lock, code, faults>>

\* Mutant: a shared lock, which everybody gets.
AcquireLockShared(p) ==
    /\ pc[p] = "lock"
    /\ lock' = p
    /\ Goto(p, "step")
    /\ editsAt' = [editsAt EXCEPT ![p] = edits]
    /\ UNCHANGED <<hostVars, planVars, execVars, logVars, settled, code, faults>>

\* A run that does not get the lock reports every step as blocked and still
\* publishes.
LockRefused(p, why) ==
    /\ code' = [code EXCEPT ![p] = why]
    /\ outcome' = [outcome EXCEPT ![p] = [i \in Steps |-> "blocked"]]
    /\ noChange' = [noChange EXCEPT ![p] = FALSE]
    /\ Goto(p, "publish")

\* AcquireLock does not wait: the lock is there, taken, or cannot be opened.
AcquireLock(p) ==
    /\ pc[p] = "lock"
    /\ \/ /\ lock = NoRun
          /\ lock' = p
          /\ Goto(p, "step")
          /\ settled' = [settled EXCEPT ![p] =
                {q \in Run : pc[q] = "done" /\ Succeeded(q) /\ ~dry[q]}]
          /\ editsAt' = [editsAt EXCEPT ![p] = edits]
          /\ UNCHANGED <<outcome, noChange, code, faults>>
       \/ /\ lock # NoRun
          /\ LockRefused(p, "lock-contention")
          /\ UNCHANGED <<lock, histVars, faults>>
       \/ /\ Fault
          /\ LockRefused(p, "lock-failed")
          /\ UNCHANGED <<lock, histVars>>
    /\ UNCHANGED <<hostVars, planVars, logVars, at, started>>

-------------------------------------------------------------------------------
(* Execute *)

\* Mutant: one step too many.
RecordPastEnd(p, result, same) ==
    LET outcomes == [outcome[p] EXCEPT ![at[p]] = result]
        status   == IF at[p] <= N THEN "" ELSE StatusCode(outcomes)
    IN  /\ outcome' = [outcome EXCEPT ![p] = outcomes]
        /\ at' = [at EXCEPT ![p] = at[p] + 1]
        /\ code' = [code EXCEPT ![p] = status]
        /\ noChange' = [noChange EXCEPT ![p] = noChange[p] /\ same /\ status = ""]
        /\ Goto(p, IF at[p] <= N THEN "step" ELSE "publish")

\* Append the outcome of the step and go on with the next one, or return, and
\* set the status of the receipt. same is FALSE when the step is not satisfied.
Record(p, result, same) ==
    LET outcomes == [outcome[p] EXCEPT ![at[p]] = result]
        status   == IF at[p] < N THEN "" ELSE StatusCode(outcomes)
    IN  /\ outcome' = [outcome EXCEPT ![p] = outcomes]
        /\ at' = [at EXCEPT ![p] = at[p] + 1]
        /\ code' = [code EXCEPT ![p] = status]
        /\ noChange' = [noChange EXCEPT ![p] = noChange[p] /\ same /\ status = ""]
        /\ Goto(p, IF at[p] < N THEN "step" ELSE "publish")

\* Mutant: a failed step is recorded like any other.
FailStepContinues(p) == Record(p, "failed", FALSE)

\* Mutant: a failed step is tried again.
FailStepRetries(p) ==
    /\ outcome' = [outcome EXCEPT ![p][at[p]] = "failed"]
    /\ noChange' = [noChange EXCEPT ![p] = FALSE]
    /\ Goto(p, "step")
    /\ UNCHANGED <<at, code>>

\* fail(): the step is the last one of the result, and Execute returns an error.
FailStep(p) ==
    /\ outcome' = [outcome EXCEPT ![p][at[p]] = "failed"]
    /\ noChange' = [noChange EXCEPT ![p] = FALSE]
    /\ code' = [code EXCEPT ![p] = "executor-failed"]
    /\ Goto(p, "publish")
    /\ UNCHANGED at

SameHost == UNCHANGED <<hostVars, planVars, histVars, logVars, lock>>

\* A blocked step is recorded; the steps after it are still executed, whatever
\* their DependsOn says.
SkipBlocked(p) ==
    /\ pc[p] = "step"
    /\ plan[p][at[p]] = "blocked"
    /\ Record(p, "blocked", TRUE)
    /\ SameHost /\ UNCHANGED <<started, faults>>

RejectDisposition(p) ==
    /\ pc[p] = "step"
    /\ plan[p][at[p]] = "other"
    /\ FailStep(p)
    /\ SameHost /\ UNCHANGED <<started, faults>>

\* Observe and compare with Desired. A missing port, a failed observation and
\* an observation that is not JSON end the run.
Observe(p) ==
    /\ pc[p] = "step"
    /\ plan[p][at[p]] = "run"
    /\ \/ /\ IF Current(p) = "done"
             THEN Record(p, "satisfied", TRUE)
             ELSE Goto(p, "reobserve") /\ UNCHANGED <<outcome, at, code, noChange>>
          /\ UNCHANGED faults
       \/ Fault /\ FailStep(p)
    /\ SameHost /\ UNCHANGED started

\* Mutant: dry runs are not told apart.
ReobserveIgnoresDry(p) ==
    /\ pc[p] = "reobserve"
    /\ UNCHANGED faults
    /\ IF Current(p) = "done"
       THEN Record(p, "satisfied", TRUE)
       ELSE /\ Goto(p, "mutate")
            /\ noChange' = [noChange EXCEPT ![p] = FALSE]
            /\ UNCHANGED <<outcome, at, code>>
    /\ SameHost /\ UNCHANGED started

\* Observe again and compare with Desired again, not with the plan's Observed.
Reobserve(p) ==
    /\ pc[p] = "reobserve"
    /\ \/ /\ UNCHANGED faults
          /\ \/ /\ Current(p) = "done"
                /\ Record(p, "satisfied", TRUE)
             \/ /\ Current(p) # "done"
                /\ dry[p]
                /\ Record(p, "projected", FALSE)
             \/ /\ Current(p) # "done"
                /\ ~dry[p]
                /\ Goto(p, "mutate")
                /\ noChange' = [noChange EXCEPT ![p] = FALSE]
                /\ UNCHANGED <<outcome, at, code>>
       \/ Fault /\ FailStep(p)
    /\ SameHost /\ UNCHANGED started

\* Mutate, up to the start of the command. The port, the registry entry, its
\* metadata or the network authorization may be missing.
StartCommand(p) ==
    /\ pc[p] = "mutate"
    /\ \/ /\ started' = [started EXCEPT ![p] = started[p] \cup {at[p]}]
          /\ Goto(p, "command")
          /\ UNCHANGED <<outcome, at, code, noChange, faults>>
       \/ Fault /\ FailStep(p) /\ UNCHANGED started
    /\ SameHost

\* The command ends. It may fail, or run into its timeout, with all, some or
\* none of its effect; or report success and not have done it. The timeout
\* kills only the process that was started, if it may: Run waits for one that
\* it cannot kill and for whoever still holds its pipes, and processes that do
\* not hold them go on after the step has failed.
FinishCommand(p) ==
    /\ pc[p] = "command"
    /\ \/ /\ world' = [world EXCEPT ![at[p]] = "done"]
          /\ Goto(p, "verify")
          /\ UNCHANGED <<outcome, at, code, noChange, orphans, faults>>
       \/ /\ \E v \in {Current(p), "partial"} : world' = [world EXCEPT ![at[p]] = v]
          /\ Goto(p, "verify")
          /\ Fault
          /\ UNCHANGED <<outcome, at, code, noChange, orphans>>
       \/ /\ \E v \in {Current(p), "partial", "done"} :
                world' = [world EXCEPT ![at[p]] = v]
          /\ orphans' \in {orphans, orphans \cup {at[p]}}
          /\ Fault
          /\ FailStep(p)
    /\ UNCHANGED <<edits, planVars, histVars, logVars, lock, started>>

\* Mutant: the postcondition is not compared.
VerifyUnchecked(p) ==
    /\ pc[p] = "verify"
    /\ Record(p, "applied", FALSE)
    /\ SameHost /\ UNCHANGED <<started, faults>>

\* Observe once more: only the desired state counts as applied.
Verify(p) ==
    /\ pc[p] = "verify"
    /\ \/ /\ Current(p) = "done"
          /\ Record(p, "applied", FALSE)
          /\ UNCHANGED faults
       \/ /\ Current(p) # "done"
          /\ FailStep(p)
          /\ UNCHANGED faults
       \/ Fault /\ FailStep(p)
    /\ SameHost /\ UNCHANGED started

Execute(p) ==
    \/ SkipBlocked(p) \/ RejectDisposition(p) \/ Observe(p)
    \/ Reobserve(p) \/ StartCommand(p) \/ FinishCommand(p) \/ Verify(p)

-------------------------------------------------------------------------------
(* Publishing and unlocking *)

\* Publish fails after a fault, or because another run replaced current.json
\* while it was read.
PublishFault(p) ==
    \/ Fault
    \/ /\ \E q \in Run \ {p} : pc[q] \in Publishing
       /\ UNCHANGED faults

PublishRest(p) ==
    UNCHANGED <<hostVars, planVars, execVars, histVars, lock, code>>

\* Mutant: a publication that fails returns before the lock is released.
PublishReceiptReturnsEarly(p) ==
    /\ pc[p] = "publish"
    /\ \/ log' = log \cup {p} /\ Goto(p, "point") /\ UNCHANGED faults
       \/ UNCHANGED log /\ Goto(p, "done") /\ Fault
    /\ UNCHANGED <<index, indexed>>
    /\ PublishRest(p)

PublishReceipt(p) ==
    /\ pc[p] = "publish"
    /\ \/ /\ log' = log \cup {p}
          /\ Goto(p, "point")
          /\ UNCHANGED faults
       \/ /\ log' \in {log, log \cup {p}}
          /\ Goto(p, "release")
          /\ Fault
    /\ UNCHANGED <<index, indexed>>
    /\ PublishRest(p)

UpdateCurrent(p) ==
    /\ pc[p] = "point"
    /\ \/ Log!Advance(p) /\ UNCHANGED faults
       \/ PublishFault(p) /\ UNCHANGED logVars
       \/ /\ Fault
          /\ index' \in indexed \cup {NoRun}
          /\ UNCHANGED <<log, indexed>>
    /\ Goto(p, "release")
    /\ PublishRest(p)

\* Release: a run without the lock has nothing to release.
Release(p) ==
    /\ pc[p] = "release"
    /\ lock' = IF lock = p THEN NoRun ELSE lock
    /\ Goto(p, "done")
    /\ UNCHANGED <<hostVars, planVars, execVars, histVars, logVars, code, faults>>

Apply(p) ==
    \/ Start(p) \/ AcquireLock(p) \/ Execute(p)
    \/ PublishReceipt(p) \/ UpdateCurrent(p) \/ Release(p)

-------------------------------------------------------------------------------
(* The environment *)

\* The run is killed. The kernel drops its lock; a command it waits for is not
\* killed with it and may go on.
Kill(p) ==
    /\ pc[p] \notin {"idle", "done", "killed"}
    /\ Fault
    /\ Goto(p, "killed")
    /\ lock' = IF lock = p THEN NoRun ELSE lock
    /\ orphans' \in IF pc[p] = "command" THEN {orphans, orphans \cup {at[p]}}
                                        ELSE {orphans}
    /\ UNCHANGED <<world, edits, planVars, execVars, histVars, logVars, code>>

\* The user, or a command without its run, changes the host.
Edit(i) ==
    /\ edits < MaxEdits
    /\ edits' = edits + 1
    /\ \/ /\ world' = [world EXCEPT ![i] = "edited"]
          /\ UNCHANGED orphans
       \/ /\ i \in orphans
          /\ \E v \in {"done", "partial"} : world' = [world EXCEPT ![i] = v]
          /\ orphans' = orphans \ {i}
    /\ UNCHANGED <<planVars, execVars, histVars, logVars, lock, pc, code, faults>>

Next ==
    \/ \E p \in Run : Apply(p) \/ Kill(p)
    \/ \E i \in Steps : Edit(i)

\* The run waits for processes that are not its own: a command, which may never
\* release Run, or an observer, which has no deadline.
WaitsOutside(p) ==
    \/ pc[p] \in {"reobserve", "command", "verify"}
    \/ pc[p] = "step" /\ plan[p][at[p]] = "run"

\* A run takes its own steps: the lock is tried once, and files are local.
\* Nothing forces a command or an observer to return, a run to start, or
\* anybody to edit.
Fairness == \A p \in Run : WF_vars(pc[p] # "idle" /\ ~WaitsOutside(p) /\ Apply(p))

Spec == Init /\ [][Next]_vars /\ Fairness

-------------------------------------------------------------------------------
(* Properties *)

\* "A mutating run holds the lock for the duration of the run": whoever is
\* between its first observation and its release has it, hence only one run.
OneRunAtATime ==
    \A p \in Run :
        ~dry[p] /\ pc[p] \in Executing \cup Publishing \cup {"release"} =>
            lock = p \/ code[p] \in {"lock-contention", "lock-failed"}

\* "A concurrent invocation performs no mutation", nor does a dry run.
OutsidersMutateNothing ==
    \A p \in Run :
        dry[p] \/ code[p] \in {"lock-contention", "lock-failed"} => started[p] = {}

\* A receipt accounts for every command its run started; noChange means there
\* was none; and success means that every step was seen in its desired state.
Truthful(p) ==
    /\ \A i \in started[p] : outcome[p][i] \in {"applied", "failed"}
    /\ Succeeded(p) /\ noChange[p] => started[p] = {}
    /\ Succeeded(p) /\ ~dry[p] =>
         \A i \in Steps : outcome[p][i] \in {"satisfied", "applied"}
ReceiptIsTruthful == \A p \in log : Truthful(p)

\* Execute is fail-fast: nothing is started after a step that failed, and
\* nothing follows it in the result.
NothingAfterFailure ==
    \A p \in Run : \A i, j \in Steps :
        i < j /\ outcome[p][i] = "failed" =>
            outcome[p][j] = "none" /\ j \notin started[p]

\* "Re-running apply with no catalog change is a no-op": when nobody changed
\* the host since an earlier run that succeeded took the lock, neither the user
\* nor a command that outlived its run, a run starts no command, and if it
\* succeeds it reports noChange.
SecondApplyIsNoOp ==
    \A p \in Run : \A q \in settled[p] :
        edits = editsAt[q] =>
            /\ started[p] = {}
            /\ pc[p] = "done" /\ Succeeded(p) => noChange[p]

\* A run that was started stops, whatever other runs do and whatever fails,
\* unless a command or an observer that it waits for never returns.
RunsEnd ==
    \A p \in Run : pc[p] # "idle" ~> pc[p] \in {"done", "killed"} \/ []WaitsOutside(p)

\* Nor does the lock stay taken, but for a run that waits so: it lets go of the
\* lock on every way out, whether or not it publishes.
LockIsReleased == \A p \in Run : lock = p ~> lock # p \/ []WaitsOutside(p)

\* "The executor re-observes immediately before mutation so a stale plan cannot
\* overwrite a concurrent change": it mutates a step only if what it re-observed
\* is what the plan was made from.
StalePlanDoesNotOverwrite ==
    [][\A p \in Run :
          pc[p] = "reobserve" /\ pc'[p] = "mutate" => Current(p) = planned[p][at[p]]]_vars
===============================================================================
