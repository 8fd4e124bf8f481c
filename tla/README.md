# alex-cachyos in TLA+

`alex-cachyos` brings a CachyOS desktop to the state a catalog describes. A
run observes the host, plans the steps that are missing, executes them under a
lock, verifies each of them, and writes a receipt that later serves audits and
rollback. This directory holds TLA+ models of the Go program under `src/internal`,
the TLC configurations that check them, and TLAPS proofs about them.
`PROJECT.json` maps every definition to the lines it models and lists the runs,
the mutants, the hazards, the findings and the theorems.

## 1. The system

| component | state it keeps | operations | what makes it correct |
|---|---|---|---|
| Receipt store (`receipt/store.go`) | `receipts/<run>-<digest>.json`, `current.json` | `Publish`, `Current`, `Read` | a receipt is written once and never changes; the index names durable receipts only; a reported success survives a power loss, as far as the directories do; readers, who take no lock, see no intermediate state |
| Safe reads (`safefile`) | none | open, stat, read, stat again | content returned is that of one file, or `ErrChanged` |
| Apply and run lock (`app/apply.go`, `app/lock.go`) | the `flock`, one run's result and receipt | `Apply`, `AcquireLock`, `Release` | one mutating run at a time; losers and dry runs mutate nothing; every path publishes and unlocks |
| Executor (`executor`) | the outcomes so far | `Execute`, `CommandMutator.Mutate` | observe, observe again, mutate, verify; fail-fast; the outcome is what was observed |
| Command runner (`runner`) | a child process | `Run`, elevation | an error is never lost |
| Self helper (`runner/self_helper.go`) | privileged files | publish a batch of staged files | all or a reported part |
| Planner (`planner`) | none (pure) | `Build`, removal, network consent, digest | dependencies are closed and come first; the plan is the same for the same input |
| Receipt schema (`receipt/schema.go`) | none (pure) | validate, encode | rollback never meets a receipt it cannot read |
| Rollback (`app/command_operations.go`, `rollback_preconditions.go`) | files and packages, through ports | rollback to a receipt or a tag | nothing is changed if any file is refused; a file is restored only where the host is as the receipt left it |
| Commands and checks (`app/commands.go`, `host.go`, `check.go`) | none | plan, apply, status, check | exit codes and drift classes agree with the state |
| Adoption (`adopt`) | backups and adoption records | `Adopt` | the backup is what was there; a record exists only with its backup |
| Worktrees (`gitx/worktree.go`) | worktree directories, markers | `Create`, `Cleanup` | only marked worktrees are reused or removed |
| Checkout, update, tags (`gitx`) | refs, the user's checkout | observe, tag, advance | nothing the user changed is lost; a tag names what was verified |
| Catalog (`catalog`) | none (pure) | decode, merge, validate, pins | merge order decides, pins hold |
| CachyOS platform (`platform/cachyos`) | none | steps and command requests | policy decides what may run |
| CLI, state paths, assets, acceptance, legacy shell | | | wiring, tests and the program being replaced |

How they interact: a command reads the catalog, asks the platform for
observations, has the planner build a plan, and hands it to `Apply`. `Apply`
takes the lock, calls the executor, which calls observers and mutators, which
call the runner; then it publishes through the receipt store. Rollback and
status read receipts back. Processes share nothing but the file system: the
`flock`, the state directory, and the host itself, which its user changes too.

What is hard about it: publishers that do not hold the lock (dry runs and runs
that did not get it publish too); a state directory in which every call may
fail and power may be lost; the undo of an index update that other processes
have seen; readers that list a directory while it changes; commands that fail
half-way, are killed at a timeout, report success wrongly, or outlive the run
that started them; a host that changes between observation and mutation; git
commands and file system calls of one operation between which the user edits,
commits, tags or replaces a file; and plans whose steps need what other steps
provide, from a run that may have ended anywhere.

The shipped binary wires only `receipt` and `status`; the other components are
complete in `src/internal` and run by its tests, and are modelled as they are.

## 2. Modules

```
ReceiptLog                 the promise: a growing log and an index into it
  ^ implemented by
ReceiptStore               Store.Publish, call by call     -- ReceiptStoreProofs
  ^ extended by
ReceiptReaders             Store.Current and Store.Read next to publishers
                                                       -- ReceiptReadersProofs

ApplyRun                   runs, lock, executor, commands  -- ApplyRunProofs
  uses ReceiptLog for what a run publishes

Rollback                   rollback --receipt over files their user edits
                                                           -- RollbackProofs

GitRepo                    a checkout, its upstream, its user, one worktree
  ^ extended by
Checkout, Checkpoint, Worktree          the operations of gitx
  ^ composed by
GitOperations              all of them at once             -- GitProofs

HostFiles                  inodes, names, what a power loss leaves
  ^ extended by
Adopt, SelfHelper          adoption of a file, publication of a batch
  ^ composed by
Publication                both at once                    -- PublicationProofs

Planner, Catalog           selections and plans; layers and their merge
                                                           -- PlannerProofs
  ^ extended by
Platform                   facts, authority, managed files, pinned packages
  ^ extended by
Bootstrap, Fingerprint, Devtools, Apps, Vicinae, Desktop
  ^ composed, with HostCheck, by
Converge                   plan, run, drift and check one host, again and again
                                                           -- ConvergeProofs
```

**ReceiptLog** is the abstract specification: `Commit` makes receipts durable,
`Advance(r)` makes a durable receipt current, once, and `Retract` takes the index
back to something it has named, or to nothing. `Vanish` is the loss of a directory: the log
goes all at once or not at all, and not once it is settled.

**ReceiptStore** has one action per system call that others can see:
`LinkReceipt` (ensureDir, stage, `link`), `UnlinkTemp`, `SyncReceipts`,
`OpenIndex` and `ReadIndex` (the safefile read of `current.json` that is kept for
the undo), `RenameIndex`, `SyncRoot`, and after a failed sync `UndoIndex`,
`UndoSync` or `DiscardIndex` (`rollbackCurrent`). `receipts` and `current` are the
live file system, `durable`, `onDisk` and `settled` what a power loss may leave. Every call
may fail (`Fault`), every process may die (`Kill`), and `PowerLoss` keeps any set of
names between the durable and the live ones. Names, those of directories among them, are
made durable by `fsync` of the directory they are in, and by nothing else: that is the one
assumption about the file system. `ensureDir` makes the state directory and `receipts/` in it
and syncs neither, nor the parent (`store.go:333`). So `settled`, the directories whose own
entry is durable, starts as any set; `RootSynced`, the sync of the state directory after the
rename of the index, adds `receipts/`; nothing ever adds the state directory.
`MayGo` says which of them a power loss may take, `lost` records what it took with
receipts in it, and `Whole` is that it took none.
A receipt is a model value; its name carries its digest, so two publications of
the same content collide at `link`, which is how the code finds duplicates. Staging
goes to a private temporary name and is folded into the call that publishes it.

**ReceiptReaders** adds readers. A safefile read is an open and a rest; a file
whose ctime moved in between gives `ErrChanged`, or its content if it moved before
the first `fstat`. `Read` lists the directory, then opens entry after entry. The
`dangling` outcome of `Current` is the error the code returns when the receipt an
index names is missing or changed.

**ApplyRun** has the run lock, and for every run the disposition of its steps
(`plan`), what the plan saw (`planned`), the step it is at and what it has
recorded (`at`, `outcome`, `noChange`, `code`). `Start` is planning and the call of
`Apply`; `AcquireLock` has the three outcomes of the code, and `LockRefused` the
receipt of a run that did not get it. `SkipBlocked`, `RejectDisposition`, `Observe`,
`Reobserve`, `StartCommand`, `FinishCommand` and `Verify` are the pieces of
`Execute` between which other processes act; `Record` and `FailStep` are its two
ways to finish a step. `FinishCommand` covers all, some or none of a command's effect,
with or without an error. `exec.CommandContext` has neither `WaitDelay` nor a process group here
(`runner/exec.go:31`): at the timeout it kills the process it started and nothing else, so
a command may go on after its step has failed (`orphans`), or never return. `world` is the state of what each step manages, abstracted to
"done", "old", "edited" and "partial": `Execute` only asks whether it equals `Desired`.
`Kill` drops the lock and may leave the command running (`orphans`); `Edit` is the
user, or such a command finishing late.

**Rollback** is `rollbackReceipt`: `ReadSource`, `AcquireLock`, a first loop
(`ObserveFile`) that plans an inverse for each file or refuses, `Prepare`, which builds
and validates the new receipt, a second loop (`ExecuteInverse`), `Publish` and the
deferred `Release`. `MayInvert`, `NeedsNone` and `InverseOf` are what
`PlanRollbackInverse` decides from; every record it refuses whatever the file holds is
of class "unfit". The file port is an interface without an implementation here: it is
taken to restore the file, or to fail with all, some or none of that done. Runs may be
concurrent, follow each other as retries, and be killed.

**GitRepo** is what `internal/gitx` sees of a repository through git: branches and
their tips, index and working tree, the remote's main and the tracking ref, tags,
and one worktree destination with its marker. Commits never change, so the graph
(`Older`) and the trees (`Tree`) are constants. `User` edits, stages, commits,
switches, tags, pushes upstream, and puts files or a directory at the destination.
git is external: `CanFastForward` is when `merge --ff-only` succeeds.

**Checkout** is `EnsureCheckout`, `AdvanceCheckout` and `ObserveUpdate`, an action for
each git command: `Inspect`, `Clone`, `Fetch`, `ReadHead`, `Status`, `Divergence`,
`ChangedPaths`, `CheckoutMain`, `Merge`, `After`; `Candidate` and `Ancestry` read an
update. **Checkpoint** is the checkpoint command, which checks both groups of declared
paths against HEAD (`HeadPath`, `Diff`, `DiffCached`), tags (`TagHead`, `CreateTag`) and
verifies the tag (`TagTarget`), and the rollback to a tag (`Show` for each path, before
`Relock`; `Reapply`). **Worktree** is `Create` and `Cleanup`. In **GitOperations** only the
checkpoint command and, after its reads, the rollback take the mutation lock; gitx takes none, and
has no caller that would, so worktree and checkout operations run beside everything else.
`Abort` is a failed command, or a kill, at any of them. To git, and so to `Status` and to
its refusal to overwrite, a local change is what `LocalChanges` has: an untracked file that is
ignored is not listed by `status --porcelain` and is written over by `checkout` and `merge`.

**HostFiles** gives a file two halves, so that a reader can see a mixture, and each
name a durable inode besides the live one; `recordDir` says whether the names that lead to `adoptions/`
are durable, which `ensureStateDirs` does not see to (`adopt.go:448`). **Adopt** is `Store.Adopt` and `Load`:
`LoadRecord` and `CheckBackup`, `OpenSource` with the inode inspected before,
`CreateBackup` with O_EXCL, `Copy` and `Finish`, `SyncBackup`, which hashes what
was copied, `SyncBackupDir`, `LinkRecord`, `SyncRecord`. An adopter that finds a record
or loses the link loads what is there (`Reload`). **SelfHelper** prepares and verifies
each candidate of a batch before it renames the first (`Prepare`, `Publish`,
`SyncParent`); staged files belong to a user who may still write to them.

**Planner** has `SelectModules`, the order of modules and steps, and
`BuildRemovalPlan` as operators on sets of modules and steps. **Catalog** has `Resolve`:
the layers, their merge and everything that is refused on the way. A document is a
function whose domain is the set of the fields present, so that "absent" and "empty"
stay apart as in the code. In **Platform** a host is a set of facts. Each of the
factories, from **Bootstrap** to **Desktop**, reads the facts, the policy and the
evidence, and returns the steps it plans, or refuses. A step has its disposition and
dependencies, and the facts it wants and drops: `Done` compares those with the host, as
the executor does. `need`, `gives` and `loses`, what its command requires, leaves there and may
take along, are read off argv and are external: an installation with `--needed` marks only what
was not there (`Leaves`), and `pacman -Rns` takes any unneeded dependencies that are not marked
explicit yet (`Unneeded`, over the constant `DependsOn`), and their services with them
(`Losses`). `~/.zshrc` is one file of two steps: `ZshStep` of bootstrap rewrites its lines
(`ZshLines`), and `DevtoolsFileStep` publishes the block of devtools with the lines as they were at
planning. **HostCheck** evaluates the check's inventory against
a snapshot, kind by kind.

**Converge** composes them: `PlanHost` resolves the policy and builds the plan of what is
observed at that moment, `Start` runs it, `Skip`, `Mutate` and `CommandFails` take it
step by step, `Fault` ends it before or after the effect of a command, `Complete` ends
it in success, `Drift` is the user, upstream or the catalog between two runs, and
`Check` a check with a truthful observer or one that fails, skips, repeats or does not
know an item. `PlanGraph` gives the planner arbitrary small graphs instead.

The history variables (`indexed`, `acked`, `before`, `lost`; `started`, `settled`,
`executed`, `editsAt`; `moved`, `fresh`, `cut`, `crowded`; `torn`, `dirLost`; `calm`, `report`) are read by properties only.

## 3. What the runs check

| run | instance | shows |
|---|---|---|
| `receipt_store` | three publishers, one without the lock; three receipts; three faults; directories that may be new | the index never dangles and acknowledged receipts are durable, as long as the directories are there; names are claimed once, one fault never leaves a failed publication in the index, serial publications keep the index most recent, and the store implements ReceiptLog |
| `receipt_unlocked` | the same, one fault | finding 1 (a violation) |
| `receipt_readers` | three publishers, one reader, two receipts with one run ID, one fault | `Current` never dangles, and is fresh under serial publication, unless a directory was lost; `Read` is exact |
| `apply` | two runs, two steps, three plans, two faults, one edit | mutual exclusion, harmless outsiders, truthful receipts, fail-fast, and that a second apply is a no-op |
| `apply_ends` | the same, one fault, no edit | every started run ends and the lock is freed, unless a command or observer never returns |
| `apply_stale_plan` | the same, no fault, one edit | finding 2 (a violation) |
| `rollback` | two runs, three files, two receipts, two faults, two edits | a refused rollback changes nothing, edits made before a run are not lost, a rollback's receipt means that every file is what its record restores |
| `rollback_stale_plan` | the same, no fault, one edit | finding 3 (a violation) |
| `rollback_unrecorded` | the same, one fault, one edit | finding 4 (a violation) |
| `git` | two processes, three commits, two paths, one of them ignored while untracked, two tags, one fault, two steps of the user or upstream | no edit or commit of the user that git knows of is lost, whenever he makes it; an update is a descendant of what is reported; a checkpoint's tag is its own, at the commit it reports, which holds the declared paths unless HEAD moved; a rollback reads one tag; cleanup keeps what was there when it looked, and a worktree its marker while worktree operations take turns |
| `files` | two adopters, one helper with two files, five inodes, two faults, two steps of the user | a record has its backup, whole and durable, of one version of the file; a returned record stays as long as `adoptions/` does; a batch publishes a verified prefix |
| `converge` | 20 worlds, one fault, one drift | nothing happens without a grant, runs are not stopped by their own plan but where `-Rns` took a wanted package, applies converge but for services and a shared `~/.zshrc`, the check fails closed, plans are sound |

Bounds and why they are enough. Three publishers give a locked pair and an
outsider, the smallest set in which one publication is undone over another that
has succeeded after it. Three faults allow a failing sync, a failing undo and a
power loss in one behaviour. Two runs are enough for contention, for a run that follows another
and for an orphan next to a new owner of the lock; two steps for something
before and after a failure; three files, one of each class that can be restored, or
one that cannot after two that can. `MaxFaults` and `MaxEdits` bound failures and outside
changes and are guards of the actions that count them. A longer plan or more
processes are covered by the proofs, which have no bounds.

In `git` two processes run any two of the seven operations; two steps of the user
allow an edit and a commit inside one operation. `c2` changes the catalog and brings the asset, and
the user's own commit `d` changes the catalog only, so both groups of a checkpoint's paths can
be right and wrong independently, and a file of the user may be ignored where `c2` has one. In `files` five inodes are the two files of the
batch, two replacements and a candidate.

A world of `converge` is a repository, evidence, a fresh host and the ways it may drift.
Each factory is in at least one, with authority granted, denied, and granted
but not ready; one drift pins Vicinae with the hash of another patch. Its packages,
files and services are one or two of each list the catalog has, enough for every branch of the factory. In one a wanted package is a dependency of an
unwanted one; in another bootstrap and devtools share `~/.zshrc`. Seven worlds are refused or have nothing to plan; one
holds the module and step graphs of the planner. After the last disturbance the model runs to a
fixed point, so that one fault and one drift, at any point and in either order, reach
every half-applied host. Later faults would start from one of those.

Deadlock is checked by `converge` only, where a host can always be planned again.
In the other runs every process makes one call and stops, so all being done is the
normal end of a behaviour.

Fairness. Only `apply_ends` uses it: `WF_vars(pc[p] # "idle" /\ ~WaitsOutside(p) /\ Apply(p))`,
a run that has started takes its own next step. `AcquireLock` uses `LOCK_NB`, and the calls of a
publication are on local files. Where a run waits for something outside it (`WaitsOutside`), a
command or an observer, nothing is assumed: `Run` waits until nobody holds the pipes of the
command, whatever its timeout, a `pkexec` child that runs as root cannot be killed, and the
observer has no deadline. `RunsEnd` and `LockIsReleased` therefore say that a run ends, or stays in
such a wait for ever; that no error path, failed publication or contended lock keeps it
from ending is what they show. Starting, killing and editing are never forced.

Every property of a passing run has a mutant: a definition whose name says what
is wrong with it (`SyncReceiptsSkipped`, `AcquireLockShared`, `VerifyUnchecked`...),
and under which TLC finds that property violated in the same configuration.

## 4. What is proved

Proofs hold for every set of processes, runs, receipts, files and commits, plans of any
length, and every number of faults and edits. They assume what the modules' ASSUMEs
say: the "nobody" values are not members, bounds are naturals, plans give a
disposition to every step, the order of commits is reflexive and transitive. TLC
evaluates each of them, and checked each inductive invariant below before it was proved (of
`CInv`, which speaks of plans that are no longer in the state, what it says of one plan).

*ReceiptStoreProofs.* `IndexNeverDangles`, `AckedIsDurable` and `OneClaimPerReceipt`
are not inductive: that `UndoIndex` puts back something durable depends on what
the process saved several calls earlier. `IInv` adds what each process holds at each
call (`ProcInv`: what it saved has been in the index, its receipt is durable from
`SyncReceipts` on), what may come back from disk (`DiskInv`), which directories may still
go (`receipts/` only before the first acknowledgement, the state directory always), and that two
pending publications have different receipts (`ClaimInv`). `StoreImplementsLog`
follows with the refinement mapping of ReceiptStore, step by step.
`SingleFaultRetracts` needs `FaultInv`: an index put in place and not taken back means
that its publication still goes on, succeeded, died, or met a second fault.
`CurrentIsMostRecentIfSerial` needs `LockInv` (a locked publisher that is active
holds the lock) and `SerialInv` (nothing that might come back, from disk or
from a saved index, has been superseded).

*ReceiptReadersProofs.* A behaviour with readers is one of the store
(`ReadersImplyStore`), so what is proved of the store may be used. `FinalInv` says that the
file of a receipt that was ever in the index is not touched again, which is why a reader
that opened the index can rely on the name it found (`CurrentInv`); `FreshInv` that
under serial publication neither that name nor what may come back was superseded when the
call began, both as long as no directory was lost; `ScanInv` that a reader has met each receipt it knew of, or still has it to go
through: only a power loss takes a receipt away, and it ends the reads too.

*ApplyRunProofs.* `RunInv(p)` says what a run may have done at each place: a run
that has not begun has done nothing (`Fresh`); one that executes has recorded
exactly the steps before the current one, none as failed, and has verified every
command it started but the current one (`Underway`); one that has finished is
`Truthful`. `Frame` shows that nobody else disturbs it, because a lock is only taken
when it is free. Mutual exclusion, harmless outsiders, truthful
receipts and fail-fast are its consequences. That a second apply is a no-op
relates runs with each other, and needs `AgainInv`: the run that has the lock took it
last (`OrderInv`), so if nobody, an orphaned command included, edited the host since an earlier run took the lock, nobody did
since this one; then a command it is about to run is for a step that is not done (`Needed`);
hence it undoes nothing of what any earlier run has seen done (`Lasts`), and after
one that succeeded every step is done and nothing is left to run (`NoOp`).

*RollbackProofs.* `UnplannedInv` and `PlannedInv` say what a run that has observed a file
may rely on until it executes the inverse: the file is as the receipt left it, or
somebody edited the host since the run took the lock. `RestoredInv` says it of the files it
has restored (to what the record restores, which for a `created` file is its absence and for
an adopted one the backup of the first adoption). `LogInv` carries that past the end of a run: whoever works now took the lock
after it, so if nobody has edited the host since the earlier run took the lock, nobody has
since the later one did, and its inverses put nothing else in place.
`EarlierEditsSurvive` is an action property and follows from `PlannedInv` at the one
step that changes a file.

*GitProofs.* One invariant for all operations, whichever run at once. `PlaceInv` says what
an operation knows at each of its commands, and `LockInv` who has the lock, checkpoints and
rollbacks only; `EditsSurvive` is then a matter of each single git command, since nothing an operation
checked before it can be relied on; `CloneInv` and `GraphInv` (the remote only advances, and the tracking ref follows it) give
`OnlyFastForwards` and `NewerIsDescendant`. `TagInv` says that a tag is a checkpoint's own
from its creation on, and `PathsInv` which paths it has found in HEAD as long as HEAD has not moved;
`ReadInv` what a rollback has read. `TreeInv` ties a removal of the worktree to what was
seen in it, and gives the worktree its marker while worktree operations take turns. Tags never move and commits never change, which is what makes those facts
last between commands.

*PublicationProofs.* The state of a file system call by call: `ExclusiveInv` (one
adopter has made the backup, and until it is done there is no record), `CopyInv` and
`VersionInv` (what it has copied is what the backup holds and the hash is of, and is what its
open file holds unless the user wrote to it), `MakerInv` and `SettledInv` (a record that
was returned is durable as long as `adoptions/` is there, and nobody can make another), `BatchInv` (what is
renamed was verified, and a name that was replaced stays replaced).

*PlannerProofs.* About the operators of Planner, for every finite set of modules
(`WellFormed`) and every selection. Where the source loops, the model has recursive functions on
naturals, and what they compute follows from the existence of a least counterexample
(`LeastNatural`, `Iteration`), with one lemma for a round of the loop. `StableOrderIsSound`:
the order of readiness emits no node twice and none before what it must follow, and emits all
nodes exactly when no set of them feeds itself. `SelectionIsLeastClosed`: as many rounds as
there are modules reach the least closed set, because a round that adds nothing ends it. Both
give `PlansWhatIsPlannable`, what the planner refuses, and `PlansAreSound`, what a
plan and its removal hold. The order of readiness is also greedy (`StableOrderIsGreedy`: each node is
the least of those that could come next), so a module whose steps depend on one
another only, and that ranks first, comes first (`PlansFollowTheRanks`).

*ConvergeProofs.* For every catalog, evidence, list of packages and files, and state of the
host. One lemma per factory (`BootstrapFits` to `DesktopFits`) shows that each of its steps has
an ID the planner knows (`FactoryIDs`) and `Fits` what is granted: what it adds or drops
that needs authority has it. `PolicyIsTheHosts` shows that the merged policy grants no more
than the host's own document and the evidence. `IInv` keeps that from the plan to the end of
the run (`PlannedInv`, `RunningInv`), and says that a report is of the host as it is
(`ReportInv`). Hence `PlanIsSound` and `OnlyAuthorized`. `CheckFailsClosed` needs in addition
what an observer tells of each item (`ObservationsTell`) and a lemma per kind of the inventory,
that only an item that holds and was seen once is in order.

`CleanRunsSucceed` and `Converges` relate the effects of all steps of a plan with each other
and with the plan of a later run. Nothing about that can be read off a single state, so the
argument is made of four facts about each factory, for a plan made of any inputs `o` (policy,
evidence, facts of the host):

- `...IsTidy`: a step drops only what is against the plans made from `o` (`Against`: another
  commit, patch, icon or override than theirs, the legacy desktop, what a removal of Vicinae
  would leave) or what it is there to take away, wants and leaves nothing that another
  step drops, and its command leaves what it is verified for;
- `...Supplies`: in any order that respects the dependencies, what a step asks for is on the
  host, or is wanted by an earlier step, or was taken along by a removal, paru excepted;
- `...Settles`: after a complete run that took nothing along the module's goal holds (`Settled`),
  whichever of its steps had anything to do, but for the lines of a shared `~/.zshrc`;
- `...Rests`: where the goal holds no step is left, but services of bootstrap and the two
  steps of a shared `~/.zshrc`.

`PlanIsAnOrder` puts the factories' steps together: bootstrap ranks first and depends on
no other module, so all of its steps come before the others, and paru with them. `Progress`
is what a run has made of the facts its plan saw: the steps before its position hold, and what was
there and is clear still is (`Kept`); what they drop is gone (`Dropped`); nothing came but what they
may leave (`Gained`). `Kept` leaves out what `pacman -Rns` took along (`run.lost`), and what
a complete run has achieved (`Achieved`) what another step undoes (`Undone`). `StepProgresses` carries it over one step, `EffectHolds` takes from it that a
command finds what it needs and holds when verified, and `RunEnds` what is there at the end. The
invariant is `CInv`: a plan that was made is an order of the factories' steps (`ReadyInv`), a run
goes on from the facts some plan saw (`OngoingInv`), and after one complete run that nothing
disturbed the host is settled, after two served (`CalmInv`). A settled host leaves the second run
services only, which its end finds running; then a third has nothing to do. Only where bootstrap and
devtools write one `~/.zshrc` may all of them write it again.

`ConvergeAssumption` says what all this rests on: lists are finite; what bootstrap installs,
paru and the fingerprint driver are asked for by no other module, nothing asks for what
bootstrap removes (so it is in `src/templates`), and what is built from a pinned source is no dependency of
it (they are not in pacman's repositories); the packages of services are in the lists;
no two modules' managed files have one ID, and Vicinae's service is not one that bootstrap manages; the IDs of
steps have the places in the byte order that `StepIDs` gives them; the items of an inventory
have different names and ask about the facts they stand for (`Asks`).

Only model-checked: liveness (`RunsEnd`, `LockIsReleased`), because the prover has no ENABLED and
hence no fairness. Every invariant and every other action or refinement property of the
passing runs is a theorem.

## 5. Findings

1. *Undoing an index update may revert another run's* (`receipt_unlocked`). Dry and
   lock-contended runs publish without the lock. If syncing the state directory
   fails, `rollbackCurrent` (`receipt/store.go:430`) renames the index it saved
   over whatever is there by then, so `current.json` may go back
   to an older receipt after another run has reported success. The receipts
   specification says that it resolves to the most recent one. With serial publishers it
   does: `CurrentIsMostRecentIfSerial`.
2. *A stale plan does overwrite* (`apply_stale_plan`). `Execute` compares its second
   observation with `Desired`, never with what the plan observed
   (`executor/executor.go:144`), so a change made after planning is overwritten. The design
   document says it cannot be.
3. *Rollback overwrites an edit made after its observation* (`rollback_stale_plan`).
   All files are observed before the first inverse is executed, and an inverse has no
   hash to check again (`app/command_operations.go:206`, `:231`);
   `docs/rollback.md` says that each inverse checks immediately before mutation.
   `EarlierEditsSurvive` is what does hold.
4. *A rollback that fails half-way leaves no receipt* (`rollback_unrecorded`,
   `app/command_operations.go:232`), where the receipts specification wants one for every run. A
   retry is then refused if what was restored is an adopted or package-owned file, because
   it no longer has the recorded hash.

What modelling the file system and git showed besides, without a run of its own:

- `ensureDir` syncs no parent of the directories it makes (`receipt/store.go:333`,
  `adopt/adopt.go:448`). A power loss during the first publication, after the rename of
  `current.json`, may keep the index and take `receipts/`: it then names a receipt that is not
  there, where `specs/receipts/spec.md:36-37` wants that a reader never observes a dangling state, and
  `design.md:299` that a receipt becomes current after it is durably published. A
  later one may take the whole state directory, or `adoptions/`, with what has been acknowledged.
  `IndexNeverDangles`, `AckedIsDurable`, `CurrentNeverDangles` and `ReturnedRecordStays` say what
  remains: nothing but the loss of a directory does it, and `receipts/` is
  safe from the first acknowledged publication on.
- An untracked file that is ignored is in no overlap check (`gitx/checkout.go:129` does not list it),
  and `checkout` and `merge --ff-only` (`:150-160`) write over it. `EditsSurvive` is about all
  other local changes.
- gitx takes no lock. A create that looked before another create made the worktree
  (`gitx/worktree.go:88`) may add its own (`:107`) between the removal of that one and the removal of
  its marker (`:158`) by a cleanup: it finds the old marker in place of its own and fails, the cleanup
  takes that marker, and a live worktree is neither reused nor cleaned up from then on. Hence the "IfSerial" of `WorktreeKeepsItsMarkerIfSerial`.

What modelling the plans showed, also without a run of its own: the first apply on a
fresh host is not yet followed by a no-op, because services are planned only when
their package has been observed (`bootstrap_requests.go:286`); and where the modules
bootstrap and devtools are both enabled, no apply need ever be: if `~/.zshrc` has the lines of
CachyOS, bootstrap rewrites them (`bootstrap.go:418`, `docs/bootstrap.md:18`) and devtools, whose step
was planned before, publishes the file with the lines it had then (`devtools.go:167`), in
every run anew. `specs/convergence-commands/spec.md:33-45` and `specs/planner/spec.md:74-78` want the
second apply to be a no-op: `Converges` states what holds instead, and excepts just these two.
`pacman -Rns` may take a declared package that came as a dependency of an unwanted one, because
declared packages are marked explicit only after it (`bootstrap.go:488`); `pacman -D` then
fails and the run ends there, and `CleanRunsSucceed` excepts what was taken so.
`specs/cachyos-platform/spec.md:62-72` says that marking keeps `-Rns` from it. When a shell file is
written again, `upsertDevtoolsMarker` joins the lines before and after its block into one
(`devtools.go:194`). A patch whose pin has the hash of another than its commit carries is
written and then fails verification in every run, because only the content of the catalog could tell
(`Mispinned`, which `CleanRunsSucceed` excepts); a run that ends between the edit of a boot
configuration and its generation leaves it generated from the old one, and no later plan notices
(`bootstrap_requests.go:119`); the steps of the desktop's grants have no observation
and are planned again each time; removing the fingerprint module is always refused for want of
an inverse.

## 6. Plan

Done: all modules above, with proofs about every component that has state, about the planner, the
authority of its plans, what repeated applies lead to, and the check. Left: file contents as sequences of lines, for
`upsertDevtoolsMarker`; and a composition of ApplyRun
with ReceiptStore in place of ReceiptLog, on the smallest instance; today ReceiptStore is proved to
implement ReceiptLog and ApplyRun uses what ReceiptLog promises.

## 7. Not modelled

Formatting, flag parsing, canonical JSON and digests (a digest is the identity of
its content), redaction of output, path resolution by `openat2`, ownership and mode checks
(a failure of theirs is a failed call), embedded assets, the grouping of network consent, the
reading of displays and input devices into values (`desktop_runtime.go`), suggestions of
what to adopt, the opt-in test target, the acceptance harness, and
the legacy shell program. File contents are abstract values throughout.

Of power losses: staging a file fsyncs it before its name is made, which is one step here;
directories above the state directory count as one with it.

Of git: paths overlap when they are equal, and directories are not compared with the
files below them; a remote with another URL is one of the refusals of `Abort`; tags
of the remote and users who delete or move tags are left out; the reapplication of a
tagged catalog has no implementation in the repository and does nothing.

Of applies: the host does not change while `Converge` runs a plan (it does in
ApplyRun, with steps that have no structure); a removal plan is checked for its order
and not run; a check sees the host between two runs, although it takes no lock and
may also read it during one; of the lines of a shell file outside the marker only those that
bootstrap rewrites in `~/.zshrc` are represented; files that `.bashrc` and `config.fish` have otherwise
are written as planned.

## 8. Running

```
tlasany ReceiptStore.tla
tlc -workers 2 -config MCReceiptStore.cfg MCReceiptStore
tlc -workers 2 -config MCConverge.cfg MCConverge
tlapm ReceiptStoreProofs.tla
```
