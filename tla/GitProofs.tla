------------------------------ MODULE GitProofs ------------------------------
(***************************************************************************)
(* Proofs about GitOperations, for every set of processes, commits, paths  *)
(* and tags, every commit graph and every number of faults and user steps. *)
(***************************************************************************)
EXTENDS GitOperations, TLAPS

CheckoutLabel == {"inspect", "clone", "branch", "fetch", "head", "status", "reach",
                  "divergence", "changed", "checkout", "merge", "after",
                  "candidate", "ancestry"}
Validating == {"head-path", "diff", "diff-cached", "next-group"}
Tagging == {"existing", "tag", "target", "describe"}
RollbackLabel == {"show", "relock", "reapply"}
CreateLabel == {"create", "add", "marker"}
CleanupLabel == {"cleanup", "wt-status", "remove", "gone", "rm-marker"}
Advancing == {"branch", "divergence", "changed", "checkout", "merge", "after"}
Label == CheckoutLabel \cup Validating \cup Tagging \cup RollbackLabel
           \cup CreateLabel \cup CleanupLabel \cup {"idle", "returned"}

\* The steps of each operation, and when a process is idle or has returned.
PlaceOf(p) ==
    /\ pc[p] = "idle" <=> op[p] = "none"
    /\ pc[p] = "returned" <=> result[p] # "none"
    /\ pc[p] \in CheckoutLabel \ {"head"} => op[p] \in {"ensure", "advance", "observe"}
    /\ pc[p] = "head" => op[p] \in {"ensure", "advance", "observe", "checkpoint"}
    /\ pc[p] = "clone" => op[p] = "ensure"
    /\ pc[p] \in Advancing => op[p] = "advance"
    /\ pc[p] \in {"status", "reach"} => op[p] # "observe"
    /\ pc[p] \in {"candidate", "ancestry"} => op[p] = "observe"
    /\ pc[p] \in Validating \cup Tagging => op[p] = "checkpoint"
    /\ pc[p] \in Validating => group[p] < 3
    /\ pc[p] = "idle" => group[p] = 1
    /\ pc[p] \in RollbackLabel => op[p] = "rollback"
    /\ pc[p] \in CreateLabel => op[p] = "create"
    /\ pc[p] \in CleanupLabel => op[p] = "cleanup"

PlaceInv == pc \in [Proc -> Label] /\ \A p \in Proc : PlaceOf(p)

\* Whoever needs the mutation lock has it: a rollback from its reapply on.
LockOf(p) ==
    /\ lock = p => Busy(p) /\ op[p] \in Locking
    /\ Busy(p) /\ op[p] = "checkpoint" => lock = p
    /\ pc[p] = "reapply" => lock = p

LockInv == \A p \in Proc : LockOf(p)

\* The remote only advances, and an advance is to something it has.
GraphInv ==
    /\ IsAncestor(tracked, origin)
    /\ \A p \in Proc : pc[p] \in Advancing \ {"branch"} => IsAncestor(want[p], tracked)

\* An update that is compared is not the commit the checkout is at.
NewerInv == \A p \in Proc : pc[p] = "ancestry" => seen[p] # other[p]

\* A tag that is there is at a commit, and a checkpoint or rollback has a name.
TagsInv == \A t \in Tag : tags[t] # NoTag => tags[t].at \in Commit
NameInv ==
    \A p \in Proc : op[p] \in {"checkpoint", "rollback"} /\ result[p] \in {"none", "ok"} =>
        name[p] \in Tag

\* The tag of a checkpoint is its own from its creation on.
TagInv ==
    \A p \in Proc :
        /\ pc[p] \in {"target", "describe"} =>
              tags[name[p]] # NoTag /\ tags[name[p]].by = p
        /\ pc[p] = "describe" \/ Checkpointed(p) => tags[name[p]] = [at |-> seen[p], by |-> p]

Present(c, S) == \A x \in S : Tree[c][x] # "absent"

\* What a checkpoint whose HEAD has not moved has validated so far.
PathsInv ==
    \A p \in Proc : op[p] = "checkpoint" /\ p \notin moved =>
        /\ pc[p] \in Validating /\ group[p] = 2 => Present(Head, Groups[1])
        /\ pc[p] = "head-path" => Present(Head, Groups[group[p]] \ todo[p])
        /\ pc[p] \in Validating \ {"head-path"} => Present(Head, Groups[group[p]])
        /\ pc[p] = "head" => Present(Head, Groups[1] \cup Groups[2])
        /\ pc[p] \in Tagging \/ result[p] = "ok" => Present(seen[p], Groups[1] \cup Groups[2])

ReadIs(p, S) ==
    /\ tags[name[p]] # NoTag
    /\ \A x \in S : files[p][x] = Tree[tags[name[p]].at][x]

\* What a rollback has read so far is of its tag.
ReadInv ==
    \A p \in Proc :
        /\ pc[p] = "show" /\ Groups[1] # todo[p] => ReadIs(p, Groups[1] \ todo[p])
        /\ pc[p] = "show" => todo[p] \subseteq Groups[1]
        /\ \/ pc[p] \in {"relock", "reapply"}
           \/ op[p] = "rollback" /\ result[p] = "ok"
           => ReadIs(p, Groups[1])

\* Until two of them run at once, a worktree operation is alone.
SerialInv ==
    ~crowded => \A p, q \in Proc :
        Busy(p) /\ Busy(q) /\ op[p] \in WorktreeOp /\ op[q] \in WorktreeOp => p = q

\* A cleanup that removes a worktree has seen all files in it but those that
\* came since it looked, and one that is alone takes the marker when there is
\* no worktree of the tool.
TreeInv ==
    /\ \A p \in Proc : pc[p] = "remove" => wtFiles \subseteq fresh[p]
    /\ ~crowded => \A p \in Proc : pc[p] = "rm-marker" => wtOwner # "tool"
    /\ WorktreeKeepsItsMarkerIfSerial

IInv ==
    /\ TypeOK /\ PlaceInv /\ LockInv /\ GraphInv /\ NewerInv
    /\ NewerIsDescendant /\ TagsInv /\ NameInv /\ TagInv /\ PathsInv /\ ReadInv
    /\ SerialInv /\ TreeInv

-------------------------------------------------------------------------------
(* Control flow *)

\* Which step follows which.
Goes(p, from, to) == pc[p] = from /\ pc'[p] \in to

\* Each step of a process is at one label and goes to one of a few.
LEMMA Table ==
    ASSUME PlaceInv, NEW p \in Proc, Step(p)
    PROVE
        \/ Begin(p) /\ Goes(p, "idle", {"inspect", "head-path", "show", "create", "cleanup"})
        \/ Inspect(p) /\ Goes(p, "inspect", {"fetch", "branch", "clone", "returned"})
        \/ Clone(p) /\ Goes(p, "clone", {"fetch", "returned"})
        \/ OnMain(p) /\ Goes(p, "branch", {"fetch", "returned"})
        \/ Fetch(p) /\ Goes(p, "fetch", {"head"})
        \/ ReadHead(p) /\ Goes(p, "head", {"status", "candidate"})
        \/ Status(p) /\ Goes(p, "status", {"reach"})
        \/ Reach(p) /\ Goes(p, "reach", {"divergence", "returned"})
        \/ Divergence(p) /\ Goes(p, "divergence", {"changed", "returned"})
        \/ ChangedPaths(p) /\ Goes(p, "changed", {"checkout", "returned"})
        \/ CheckoutMain(p) /\ Goes(p, "checkout", {"merge", "returned"})
        \/ Merge(p) /\ Goes(p, "merge", {"after", "returned"})
        \/ After(p) /\ Goes(p, "after", {"returned"})
        \/ Candidate(p) /\ Goes(p, "candidate", {"ancestry", "returned"})
        \/ Ancestry(p) /\ Goes(p, "ancestry", {"returned"})
        \/ HeadPath(p) /\ Goes(p, "head-path", {"head-path", "diff", "returned"})
        \/ Diff(p) /\ Goes(p, "diff", {"diff-cached", "returned"})
        \/ DiffCached(p) /\ Goes(p, "diff-cached", {"next-group", "returned"})
        \/ NextGroup(p) /\ Goes(p, "next-group", {"head-path", "head"})
        \/ TagHead(p) /\ Goes(p, "head", {"existing"})
        \/ ExistingTag(p) /\ Goes(p, "existing", {"tag", "returned"})
        \/ CreateTag(p) /\ Goes(p, "tag", {"target", "returned"})
        \/ TagTarget(p) /\ Goes(p, "target", {"describe", "returned"})
        \/ Describe(p) /\ Goes(p, "describe", {"returned"})
        \/ Show(p) /\ Goes(p, "show", {"show", "relock", "returned"})
        \/ Relock(p) /\ Goes(p, "relock", {"reapply", "returned"})
        \/ Reapply(p) /\ Goes(p, "reapply", {"returned"})
        \/ CreateInspect(p) /\ Goes(p, "create", {"add", "returned"})
        \/ WorktreeAdd(p) /\ Goes(p, "add", {"marker", "returned"})
        \/ EnsureMarker(p) /\ Goes(p, "marker", {"returned"})
        \/ CleanupInspect(p) /\ Goes(p, "cleanup", {"wt-status", "returned"})
        \/ CleanupStatus(p) /\ Goes(p, "wt-status", {"remove", "returned"})
        \/ WorktreeRemove(p) /\ Goes(p, "remove", {"gone", "returned"})
        \/ ReallyGone(p) /\ Goes(p, "gone", {"rm-marker", "returned"})
        \/ RemoveMarker(p) /\ Goes(p, "rm-marker", {"returned"})
<1> USE DEF At, Busy, Goto, Stop, Finish, Return, End, Move, Go, GoAt, Goes,
           PlaceInv, PlaceOf
<1>1. Begin(p) => Goes(p, "idle", {"inspect", "head-path", "show", "create", "cleanup"})
  BY DEF Begin, Entry, CheckoutLabel, Op
<1>2. Inspect(p) => Goes(p, "inspect", {"fetch", "branch", "clone", "returned"})
  BY DEF Inspect, Then, CheckoutLabel, Op
<1>3. Clone(p) => Goes(p, "clone", {"fetch", "returned"})
  BY DEF Clone
<1>4. OnMain(p) => Goes(p, "branch", {"fetch", "returned"})
  BY DEF OnMain
<1>5. Fetch(p) => Goes(p, "fetch", {"head"})
  BY DEF Fetch
<1>6. ReadHead(p) => Goes(p, "head", {"status", "candidate"})
  BY DEF ReadHead, Then, CheckoutLabel, Op
<1>7. Status(p) => Goes(p, "status", {"reach"})
  BY DEF Status
<1>8. Reach(p) => Goes(p, "reach", {"divergence", "returned"})
  BY DEF Reach, ResolvedTo
<1>9. Divergence(p) => Goes(p, "divergence", {"changed", "returned"})
  BY DEF Divergence
<1>10. ChangedPaths(p) => Goes(p, "changed", {"checkout", "returned"})
  BY DEF ChangedPaths
<1>11. CheckoutMain(p) => Goes(p, "checkout", {"merge", "returned"})
  BY DEF CheckoutMain
<1>12. Merge(p) => Goes(p, "merge", {"after", "returned"})
  BY DEF Merge
<1>13. After(p) => Goes(p, "after", {"returned"})
  BY DEF After, ResolvedTo
<1>14. Candidate(p) => Goes(p, "candidate", {"ancestry", "returned"})
  BY DEF Candidate
<1>15. Ancestry(p) => Goes(p, "ancestry", {"returned"})
  BY DEF Ancestry
<1>16. HeadPath(p) => Goes(p, "head-path", {"head-path", "diff", "returned"})
  BY DEF HeadPath
<1>17. Diff(p) => Goes(p, "diff", {"diff-cached", "returned"})
  BY DEF Diff
<1>18. DiffCached(p) => Goes(p, "diff-cached", {"next-group", "returned"})
  BY DEF DiffCached
<1>19. NextGroup(p) => Goes(p, "next-group", {"head-path", "head"})
  BY DEF NextGroup
<1>20. TagHead(p) => Goes(p, "head", {"existing"})
  BY DEF TagHead
<1>21. ExistingTag(p) => Goes(p, "existing", {"tag", "returned"})
  BY DEF ExistingTag
<1>22. CreateTag(p) => Goes(p, "tag", {"target", "returned"})
  BY DEF CreateTag
<1>23. TagTarget(p) => Goes(p, "target", {"describe", "returned"})
  BY DEF TagTarget
<1>24. Describe(p) => Goes(p, "describe", {"returned"})
  BY DEF Describe
<1>25. Show(p) => Goes(p, "show", {"show", "relock", "returned"})
  BY DEF Show, ShownIs
<1>26. Relock(p) => Goes(p, "relock", {"reapply", "returned"})
  BY DEF Relock
<1>27. Reapply(p) => Goes(p, "reapply", {"returned"})
  BY DEF Reapply
<1>28. CreateInspect(p) => Goes(p, "create", {"add", "returned"})
  BY DEF CreateInspect
<1>29. WorktreeAdd(p) => Goes(p, "add", {"marker", "returned"})
  BY DEF WorktreeAdd
<1>30. EnsureMarker(p) => Goes(p, "marker", {"returned"})
  BY DEF EnsureMarker
<1>31. CleanupInspect(p) => Goes(p, "cleanup", {"wt-status", "returned"})
  BY DEF CleanupInspect
<1>32. CleanupStatus(p) => Goes(p, "wt-status", {"remove", "returned"})
  BY DEF CleanupStatus
<1>33. WorktreeRemove(p) => Goes(p, "remove", {"gone", "returned"})
  BY DEF WorktreeRemove
<1>34. ReallyGone(p) => Goes(p, "gone", {"rm-marker", "returned"})
  BY DEF ReallyGone
<1>35. RemoveMarker(p) => Goes(p, "rm-marker", {"returned"})
  BY DEF RemoveMarker
<1> QED
  BY <1>1, <1>2, <1>3, <1>4, <1>5, <1>6, <1>7, <1>8, <1>9, <1>10, <1>11,
     <1>12, <1>13, <1>14, <1>15, <1>16, <1>17, <1>18, <1>19, <1>20, <1>21,
     <1>22, <1>23, <1>24, <1>25, <1>26, <1>27, <1>28, <1>29, <1>30, <1>31,
     <1>32, <1>33, <1>34, <1>35
     DEF Step, CheckoutStep, CheckpointStep, WorktreeStep

\* What p has in its variables.
Own(p) == <<op[p], pc[p], want[p], name[p], seen[p], other[p], local[p],
            result[p], group[p], todo[p], files[p]>>

\* A step of a process changes its own variables only, moves its tracking
\* branch to that of the remote only, and takes a free lock or drops its own.
OwnEffect(p) ==
    /\ \A q \in Proc \ {p} : UNCHANGED Own(q)
    /\ \/ lock' = lock
       \/ lock' = NoProc /\ lock = p
       \/ lock' = p /\ lock = NoProc
    /\ UNCHANGED <<origin, user>>
    /\ moved \subseteq moved' /\ moved' \subseteq Proc
    /\ tracked' \in {tracked, origin}

\* What going on, returning and ending do to the variables of the processes.
LEMMA GoOwn ==
    ASSUME TypeOK, PlaceInv, NEW p \in Proc
    PROVE  \A l : Go(p, l) =>
              (\A q \in Proc \ {p} : UNCHANGED Own(q)) /\ UNCHANGED <<lock, moved, user>>
BY DEF Go, Move, Goto, Own, memVars, readVars, checkVars, TypeOK, PlaceInv

LEMMA GoAtOwn ==
    ASSUME TypeOK, PlaceInv, NEW p \in Proc
    PROVE  \A l, c : GoAt(p, l, c) =>
              /\ \A q \in Proc \ {p} : UNCHANGED Own(q)
              /\ UNCHANGED <<lock, user>>
              /\ moved \subseteq moved' /\ moved' \subseteq Proc
BY DEF GoAt, Disturb, Goto, Own, memVars, readVars, checkVars, TypeOK, PlaceInv

LEMMA MoveOwn ==
    ASSUME TypeOK, PlaceInv, NEW p \in Proc
    PROVE  \A l : Move(p, l) =>
              /\ \A q \in Proc \ {p} : UNCHANGED <<op[q], pc[q], result[q]>>
              /\ UNCHANGED <<lock, moved, user>>
BY DEF Move, Goto, TypeOK, PlaceInv

LEMMA FinishOwn ==
    ASSUME TypeOK, PlaceInv, NEW p \in Proc
    PROVE  \A r : Finish(p, r) =>
              /\ \A q \in Proc \ {p} : UNCHANGED <<op[q], pc[q], result[q]>>
              /\ lock' = IF lock = p THEN NoProc ELSE lock
              /\ UNCHANGED <<moved, user>>
BY DEF Finish, Stop, Goto, TypeOK, PlaceInv

LEMMA ForgetOwn ==
    ASSUME TypeOK, NEW p \in Proc, Forget(p), NEW q \in Proc \ {p}
    PROVE  UNCHANGED <<want[q], name[q], seen[q], other[q], local[q], group[q],
                       todo[q], files[q]>>
BY DEF Forget, TypeOK

LEMMA ReturnOwn ==
    ASSUME TypeOK, PlaceInv, NEW p \in Proc
    PROVE  \A r : Return(p, r) \/ End(p, r) =>
              /\ \A q \in Proc \ {p} : UNCHANGED Own(q)
              /\ lock' = IF lock = p THEN NoProc ELSE lock
              /\ UNCHANGED <<moved, user>>
<1> SUFFICES ASSUME NEW r, Return(p, r) \/ End(p, r)
             PROVE  /\ \A q \in Proc \ {p} : UNCHANGED Own(q)
                    /\ lock' = IF lock = p THEN NoProc ELSE lock
                    /\ UNCHANGED <<moved, user>>
  OBVIOUS
<1>1. Finish(p, r)
  BY DEF Return, End
<1>2. CASE Return(p, r)
  BY <1>1, <1>2, FinishOwn DEF Return, Own, memVars, readVars, checkVars
<1>3. CASE End(p, r)
  BY <1>1, <1>3, FinishOwn, ForgetOwn DEF End, Own
<1> QED
  BY <1>2, <1>3

LEMMA StepOwnEffect ==
    ASSUME TypeOK, PlaceInv, NEW p \in Proc, Step(p)
    PROVE  OwnEffect(p)
<1> USE GoOwn, ReturnOwn DEF OwnEffect, repoVars
<1>a. moved \subseteq Proc
  BY DEF TypeOK
<1> USE <1>a
<1>1. Begin(p) => OwnEffect(p)
  BY DEF Begin, Own, memVars, readVars, checkVars, Goto, TypeOK, PlaceInv
<1>2. Inspect(p) => OwnEffect(p)
  BY DEF Inspect
<1>3. Clone(p) => OwnEffect(p)
  BY GoAtOwn DEF Clone
<1>4. OnMain(p) => OwnEffect(p)
  BY DEF OnMain
<1>5. Fetch(p) => OwnEffect(p)
  BY DEF Fetch
<1>6. ReadHead(p) => OwnEffect(p)
  BY MoveOwn DEF ReadHead, Own, readVars, checkVars, TypeOK
<1>7. Status(p) => OwnEffect(p)
  BY MoveOwn DEF Status, Own, readVars, checkVars, TypeOK
<1>8. Reach(p) => OwnEffect(p)
  BY FinishOwn DEF Reach, ResolvedTo, Own, readVars, checkVars, TypeOK
<1>9. Divergence(p) => OwnEffect(p)
  BY DEF Divergence
<1>10. ChangedPaths(p) => OwnEffect(p)
  BY DEF ChangedPaths
<1>11. CheckoutMain(p) => OwnEffect(p)
  BY GoAtOwn DEF CheckoutMain
<1>12. Merge(p) => OwnEffect(p)
  BY GoAtOwn DEF Merge
<1>13. After(p) => OwnEffect(p)
  BY FinishOwn DEF After, ResolvedTo, Own, readVars, checkVars, TypeOK
<1>14. Candidate(p) => OwnEffect(p)
  BY MoveOwn, FinishOwn DEF Candidate, Own, readVars, checkVars, TypeOK
<1>15. Ancestry(p) => OwnEffect(p)
  BY DEF Ancestry
<1>16. HeadPath(p) => OwnEffect(p)
  BY MoveOwn DEF HeadPath, Own, readVars, checkVars, TypeOK
<1>17. Diff(p) => OwnEffect(p)
  BY DEF Diff
<1>18. DiffCached(p) => OwnEffect(p)
  BY DEF DiffCached
<1>19. NextGroup(p) => OwnEffect(p)
  BY MoveOwn DEF NextGroup, Own, readVars, checkVars, TypeOK
<1>20. TagHead(p) => OwnEffect(p)
  BY MoveOwn DEF TagHead, Own, readVars, checkVars, TypeOK
<1>21. ExistingTag(p) => OwnEffect(p)
  BY DEF ExistingTag
<1>22. CreateTag(p) => OwnEffect(p)
  BY DEF CreateTag
<1>23. TagTarget(p) => OwnEffect(p)
  BY DEF TagTarget
<1>24. Describe(p) => OwnEffect(p)
  BY DEF Describe
<1>25. Show(p) => OwnEffect(p)
  BY MoveOwn DEF Show, ShownIs, Own, readVars, checkVars, TypeOK
<1>26. Relock(p) => OwnEffect(p)
  BY DEF Relock, Own, memVars, readVars, checkVars, Goto, TypeOK, PlaceInv
<1>27. Reapply(p) => OwnEffect(p)
  BY DEF Reapply
<1>28. CreateInspect(p) => OwnEffect(p)
  BY DEF CreateInspect
<1>29. WorktreeAdd(p) => OwnEffect(p)
  BY DEF WorktreeAdd
<1>30. EnsureMarker(p) => OwnEffect(p)
  BY DEF EnsureMarker
<1>31. CleanupInspect(p) => OwnEffect(p)
  BY DEF CleanupInspect
<1>32. CleanupStatus(p) => OwnEffect(p)
  BY DEF CleanupStatus
<1>33. WorktreeRemove(p) => OwnEffect(p)
  BY DEF WorktreeRemove
<1>34. ReallyGone(p) => OwnEffect(p)
  BY DEF ReallyGone
<1>35. RemoveMarker(p) => OwnEffect(p)
  BY DEF RemoveMarker
<1> QED
  BY <1>1, <1>2, <1>3, <1>4, <1>5, <1>6, <1>7, <1>8, <1>9, <1>10, <1>11,
     <1>12, <1>13, <1>14, <1>15, <1>16, <1>17, <1>18, <1>19, <1>20, <1>21,
     <1>22, <1>23, <1>24, <1>25, <1>26, <1>27, <1>28, <1>29, <1>30, <1>31,
     <1>32, <1>33, <1>34, <1>35
     DEF Step, CheckoutStep, CheckpointStep, WorktreeStep

\* What is shared changes at a few labels only.
RepoEffect(p) ==
    /\ UNCHANGED cloned \/ (pc[p] = "clone" /\ ~cloned)
    /\ \/ UNCHANGED headVars
       \/ pc[p] = "clone" /\ ~cloned
       \/ pc[p] \in {"checkout", "merge"}
    /\ UNCHANGED tags \/ pc[p] = "tag"
    /\ UNCHANGED <<wtOwner, wtAt, wtFiles>> \/ pc[p] \in {"add", "remove"}
    /\ UNCHANGED marker \/ pc[p] \in {"marker", "rm-marker"}
    /\ UNCHANGED fresh \/ pc[p] = "wt-status"
    /\ UNCHANGED cut
    /\ UNCHANGED crowded \/ (pc[p] = "idle" /\ Begin(p))

LEMMA StepRepoEffect == ASSUME PlaceInv, NEW p \in Proc, Step(p) PROVE RepoEffect(p)
<1> USE DEF RepoEffect, repoVars, headVars, treeVars, histVars, At
<1>1. Begin(p) => RepoEffect(p)
  BY DEF Begin, PlaceInv, PlaceOf
<1>2. Inspect(p) => RepoEffect(p)
  BY DEF Inspect
<1>3. Clone(p) => RepoEffect(p)
  BY DEF Clone
<1>4. OnMain(p) => RepoEffect(p)
  BY DEF OnMain
<1>5. Fetch(p) => RepoEffect(p)
  BY DEF Fetch
<1>6. ReadHead(p) => RepoEffect(p)
  BY DEF ReadHead
<1>7. Status(p) => RepoEffect(p)
  BY DEF Status
<1>8. Reach(p) => RepoEffect(p)
  BY DEF Reach
<1>9. Divergence(p) => RepoEffect(p)
  BY DEF Divergence
<1>10. ChangedPaths(p) => RepoEffect(p)
  BY DEF ChangedPaths
<1>11. CheckoutMain(p) => RepoEffect(p)
  BY DEF CheckoutMain
<1>12. Merge(p) => RepoEffect(p)
  BY DEF Merge
<1>13. After(p) => RepoEffect(p)
  BY DEF After
<1>14. Candidate(p) => RepoEffect(p)
  BY DEF Candidate
<1>15. Ancestry(p) => RepoEffect(p)
  BY DEF Ancestry
<1>16. HeadPath(p) => RepoEffect(p)
  BY DEF HeadPath
<1>17. Diff(p) => RepoEffect(p)
  BY DEF Diff
<1>18. DiffCached(p) => RepoEffect(p)
  BY DEF DiffCached
<1>19. NextGroup(p) => RepoEffect(p)
  BY DEF NextGroup
<1>20. TagHead(p) => RepoEffect(p)
  BY DEF TagHead
<1>21. ExistingTag(p) => RepoEffect(p)
  BY DEF ExistingTag
<1>22. CreateTag(p) => RepoEffect(p)
  BY DEF CreateTag
<1>23. TagTarget(p) => RepoEffect(p)
  BY DEF TagTarget
<1>24. Describe(p) => RepoEffect(p)
  BY DEF Describe
<1>25. Show(p) => RepoEffect(p)
  BY DEF Show
<1>26. Relock(p) => RepoEffect(p)
  BY DEF Relock
<1>27. Reapply(p) => RepoEffect(p)
  BY DEF Reapply
<1>28. CreateInspect(p) => RepoEffect(p)
  BY DEF CreateInspect
<1>29. WorktreeAdd(p) => RepoEffect(p)
  BY DEF WorktreeAdd
<1>30. EnsureMarker(p) => RepoEffect(p)
  BY DEF EnsureMarker
<1>31. CleanupInspect(p) => RepoEffect(p)
  BY DEF CleanupInspect
<1>32. CleanupStatus(p) => RepoEffect(p)
  BY DEF CleanupStatus
<1>33. WorktreeRemove(p) => RepoEffect(p)
  BY DEF WorktreeRemove
<1>34. ReallyGone(p) => RepoEffect(p)
  BY DEF ReallyGone
<1>35. RemoveMarker(p) => RepoEffect(p)
  BY DEF RemoveMarker
<1> QED
  BY <1>1, <1>2, <1>3, <1>4, <1>5, <1>6, <1>7, <1>8, <1>9, <1>10, <1>11,
     <1>12, <1>13, <1>14, <1>15, <1>16, <1>17, <1>18, <1>19, <1>20, <1>21,
     <1>22, <1>23, <1>24, <1>25, <1>26, <1>27, <1>28, <1>29, <1>30, <1>31,
     <1>32, <1>33, <1>34, <1>35
     DEF Step, CheckoutStep, CheckpointStep, WorktreeStep

\* A step that neither begins an operation nor takes the lock goes on or ends.
Onward(p, label) == Goto(p, label) /\ UNCHANGED <<result, lock, op, faults, user>>

Kind(p) ==
    \/ \E l \in Label \ {"idle", "returned", "reapply"} : Onward(p, l)
    \/ \E r \in Result \ {"none"} : Finish(p, r)

LEMMA StepKind ==
    ASSUME PlaceInv, NEW p \in Proc, Step(p)
    PROVE  \/ Begin(p)
           \/ /\ pc[p] = "relock" /\ lock = NoProc /\ lock' = p
              /\ pc' = [pc EXCEPT ![p] = "reapply"] /\ UNCHANGED <<op, result>>
           \/ Kind(p) /\ pc[p] \notin {"idle", "returned"}
<1>a. ASSUME NEW l, \/ Go(p, l) \/ Move(p, l) \/ \E c : GoAt(p, l, c) PROVE Onward(p, l)
  BY <1>a DEF Go, Move, GoAt, Onward
<1>b. ASSUME NEW r, Return(p, r) \/ End(p, r) PROVE Finish(p, r)
  BY <1>b DEF Return, End
<1>c. ASSUME NEW l \in Label \ {"idle", "returned", "reapply"}, Onward(p, l) PROVE Kind(p)
  BY <1>c DEF Kind
<1>d. ASSUME NEW r \in Result \ {"none"}, Finish(p, r) PROVE Kind(p)
  BY <1>d DEF Kind
<1> USE <1>a, <1>b, <1>c, <1>d
    DEF At, Label, CheckoutLabel, Validating, Tagging, RollbackLabel,
        CreateLabel, CleanupLabel, Result
<1>1. Inspect(p) => Kind(p) /\ pc[p] = "inspect"
  BY DEF Inspect, Then, PlaceInv, PlaceOf
<1>2. Clone(p) => Kind(p) /\ pc[p] = "clone"
  BY DEF Clone
<1>3. OnMain(p) => Kind(p) /\ pc[p] = "branch"
  BY DEF OnMain
<1>4. Fetch(p) => Kind(p) /\ pc[p] = "fetch"
  BY DEF Fetch
<1>5. ReadHead(p) => Kind(p) /\ pc[p] = "head"
  BY DEF ReadHead, Then, PlaceInv, PlaceOf
<1>6. Status(p) => Kind(p) /\ pc[p] = "status"
  BY DEF Status
<1>7. Reach(p) => Kind(p) /\ pc[p] = "reach"
  BY DEF Reach, ResolvedTo
<1>8. Divergence(p) => Kind(p) /\ pc[p] = "divergence"
  BY DEF Divergence
<1>9. ChangedPaths(p) => Kind(p) /\ pc[p] = "changed"
  BY DEF ChangedPaths
<1>10. CheckoutMain(p) => Kind(p) /\ pc[p] = "checkout"
  BY DEF CheckoutMain
<1>11. Merge(p) => Kind(p) /\ pc[p] = "merge"
  BY DEF Merge
<1>12. After(p) => Kind(p) /\ pc[p] = "after"
  BY DEF After, ResolvedTo
<1>13. Candidate(p) => Kind(p) /\ pc[p] = "candidate"
  BY DEF Candidate
<1>14. Ancestry(p) => Kind(p) /\ pc[p] = "ancestry"
  BY DEF Ancestry
<1>15. HeadPath(p) => Kind(p) /\ pc[p] = "head-path"
  BY DEF HeadPath
<1>16. Diff(p) => Kind(p) /\ pc[p] = "diff"
  BY DEF Diff
<1>17. DiffCached(p) => Kind(p) /\ pc[p] = "diff-cached"
  BY DEF DiffCached
<1>18. NextGroup(p) => Kind(p) /\ pc[p] = "next-group"
  BY DEF NextGroup
<1>19. TagHead(p) => Kind(p) /\ pc[p] = "head"
  BY DEF TagHead
<1>20. ExistingTag(p) => Kind(p) /\ pc[p] = "existing"
  BY DEF ExistingTag
<1>21. CreateTag(p) => Kind(p) /\ pc[p] = "tag"
  BY DEF CreateTag
<1>22. TagTarget(p) => Kind(p) /\ pc[p] = "target"
  BY DEF TagTarget
<1>23. Describe(p) => Kind(p) /\ pc[p] = "describe"
  BY DEF Describe
<1>24. Show(p) => Kind(p) /\ pc[p] = "show"
  BY DEF Show, ShownIs
<1>25. Reapply(p) => Kind(p) /\ pc[p] = "reapply"
  BY DEF Reapply
<1>26. CreateInspect(p) => Kind(p) /\ pc[p] = "create"
  BY DEF CreateInspect
<1>27. WorktreeAdd(p) => Kind(p) /\ pc[p] = "add"
  BY DEF WorktreeAdd
<1>28. EnsureMarker(p) => Kind(p) /\ pc[p] = "marker"
  BY DEF EnsureMarker
<1>29. CleanupInspect(p) => Kind(p) /\ pc[p] = "cleanup"
  BY DEF CleanupInspect
<1>30. CleanupStatus(p) => Kind(p) /\ pc[p] = "wt-status"
  BY DEF CleanupStatus
<1>31. WorktreeRemove(p) => Kind(p) /\ pc[p] = "remove"
  BY DEF WorktreeRemove
<1>32. ReallyGone(p) => Kind(p) /\ pc[p] = "gone"
  BY DEF ReallyGone
<1>33. RemoveMarker(p) => Kind(p) /\ pc[p] = "rm-marker"
  BY DEF RemoveMarker
<1>34. ASSUME Relock(p), lock # NoProc PROVE Kind(p) /\ pc[p] = "relock"
  BY <1>34 DEF Relock
<1>35. ASSUME Relock(p), lock = NoProc
       PROVE  /\ pc[p] = "relock" /\ lock' = p
              /\ pc' = [pc EXCEPT ![p] = "reapply"] /\ UNCHANGED <<op, result>>
  BY <1>35 DEF Relock, Goto
<1> QED
  BY <1>1, <1>2, <1>3, <1>4, <1>5, <1>6, <1>7, <1>8, <1>9, <1>10, <1>11,
     <1>12, <1>13, <1>14, <1>15, <1>16, <1>17, <1>18, <1>19, <1>20, <1>21,
     <1>22, <1>23, <1>24, <1>25, <1>26, <1>27, <1>28, <1>29, <1>30, <1>31,
     <1>32, <1>33, <1>34, <1>35
     DEF Step, CheckoutStep, CheckpointStep, WorktreeStep

-------------------------------------------------------------------------------
(* Where the processes are, and who has the lock *)

\* A validation goes on with the group it is at, or ends.
LEMMA ValidatingPlace ==
    ASSUME PlaceInv, NEW p \in Proc, TypeOK, HeadPath(p) \/ Diff(p) \/ DiffCached(p)
    PROVE  PlaceOf(p)'
<1>1. /\ pc[p] \in Validating /\ op[p] = "checkpoint" /\ result[p] = "none"
      /\ group[p] < 3
  BY DEF HeadPath, Diff, DiffCached, At, Busy, PlaceInv, PlaceOf, Validating
<1>2. \/ /\ \E l \in Validating : Move(p, l)
         /\ UNCHANGED group
      \/ Finish(p, "error")
  BY DEF HeadPath, Diff, DiffCached, Go, End, memVars, checkVars, Validating
<1>3. CASE UNCHANGED group /\ \E l \in Validating : Move(p, l)
  <2>1. pc'[p] \in Validating /\ op'[p] = "checkpoint" /\ result'[p] = "none"
    BY <1>1, <1>3 DEF Move, Goto, PlaceInv
  <2> QED
    BY <1>1, <1>3, <2>1
       DEF PlaceOf, Validating, CheckoutLabel, Advancing, Tagging, RollbackLabel,
           CreateLabel, CleanupLabel
<1>4. CASE Finish(p, "error")
  <2>1. pc'[p] = "returned" /\ op'[p] = "checkpoint" /\ result'[p] = "error"
    BY <1>1, <1>4 DEF Finish, Stop, Goto, PlaceInv, TypeOK
  <2> QED
    BY <2>1
       DEF PlaceOf, Validating, CheckoutLabel, Advancing, Tagging, RollbackLabel,
           CreateLabel, CleanupLabel
<1> QED
  BY <1>2, <1>3, <1>4

LEMMA BeginPlace == ASSUME PlaceInv, NEW p \in Proc, TypeOK, Begin(p) PROVE PlaceOf(p)'
<1>1. PICK o \in Op : op' = [op EXCEPT ![p] = o] /\ Goto(p, Entry(o))
  BY DEF Begin
<1>2. op'[p] = o /\ pc'[p] = Entry(o)
  BY <1>1 DEF TypeOK, PlaceInv, Goto
<1>3. result'[p] = "none" /\ group' = group
  BY DEF Begin, PlaceInv, PlaceOf
<1>4. group[p] < 3
  BY DEF Begin, PlaceInv, PlaceOf
<1> QED
  BY <1>2, <1>3, <1>4
     DEF Op, Entry, PlaceOf, Validating, CheckoutLabel, Advancing, Tagging,
         RollbackLabel, CreateLabel, CleanupLabel

LEMMA StepPlace ==
    ASSUME TypeOK, PlaceInv, NEW p \in Proc, Step(p)
    PROVE  PlaceInv'
<1> USE DEF At, Busy, Goto, Stop, Forget, Finish, Return, End, Move, Go, GoAt, PlaceOf,
            PlaceInv, Label, CheckoutLabel, Validating, Tagging, RollbackLabel,
            CreateLabel, CleanupLabel, Advancing
<1>1. Inspect(p) => PlaceOf(p)'
  BY DEF Inspect, Then, TypeOK
<1>2. Clone(p) => PlaceOf(p)'
  BY DEF Clone, TypeOK
<1>3. OnMain(p) => PlaceOf(p)'
  BY DEF OnMain, TypeOK
<1>4. Fetch(p) => PlaceOf(p)'
  BY DEF Fetch, TypeOK
<1>5. ReadHead(p) => PlaceOf(p)'
  BY DEF ReadHead, Then, TypeOK
<1>6. Status(p) => PlaceOf(p)'
  BY DEF Status, TypeOK
<1>7. Reach(p) => PlaceOf(p)'
  BY DEF Reach, ResolvedTo, TypeOK
<1>8. Divergence(p) => PlaceOf(p)'
  BY DEF Divergence, TypeOK
<1>9. ChangedPaths(p) => PlaceOf(p)'
  BY DEF ChangedPaths, TypeOK
<1>10. CheckoutMain(p) => PlaceOf(p)'
  BY DEF CheckoutMain, TypeOK
<1>11. Merge(p) => PlaceOf(p)'
  BY DEF Merge, TypeOK
<1>12. After(p) => PlaceOf(p)'
  BY DEF After, ResolvedTo, TypeOK
<1>13. Candidate(p) => PlaceOf(p)'
  BY DEF Candidate, TypeOK
<1>14. Ancestry(p) => PlaceOf(p)'
  BY DEF Ancestry, TypeOK
<1>15. NextGroup(p) => PlaceOf(p)'
  BY DEF NextGroup, TypeOK
<1>16. TagHead(p) => PlaceOf(p)'
  BY DEF TagHead, TypeOK
<1>17. ExistingTag(p) => PlaceOf(p)'
  BY DEF ExistingTag, TypeOK
<1>18. CreateTag(p) => PlaceOf(p)'
  BY DEF CreateTag, TypeOK
<1>19. TagTarget(p) => PlaceOf(p)'
  BY DEF TagTarget, TypeOK
<1>20. Describe(p) => PlaceOf(p)'
  BY DEF Describe, TypeOK
<1>21. Show(p) => PlaceOf(p)'
  BY DEF Show, ShownIs, TypeOK
<1>22. Relock(p) => PlaceOf(p)'
  BY DEF Relock, TypeOK
<1>23. Reapply(p) => PlaceOf(p)'
  BY DEF Reapply, TypeOK
<1>24. CreateInspect(p) => PlaceOf(p)'
  BY DEF CreateInspect, TypeOK
<1>25. WorktreeAdd(p) => PlaceOf(p)'
  BY DEF WorktreeAdd, TypeOK
<1>26. EnsureMarker(p) => PlaceOf(p)'
  BY DEF EnsureMarker, TypeOK
<1>27. CleanupInspect(p) => PlaceOf(p)'
  BY DEF CleanupInspect, TypeOK
<1>28. CleanupStatus(p) => PlaceOf(p)'
  BY DEF CleanupStatus, TypeOK
<1>29. WorktreeRemove(p) => PlaceOf(p)'
  BY DEF WorktreeRemove, TypeOK
<1>30. ReallyGone(p) => PlaceOf(p)'
  BY DEF ReallyGone, TypeOK
<1>31. RemoveMarker(p) => PlaceOf(p)'
  BY DEF RemoveMarker, TypeOK
<1>32. PlaceOf(p)'
  BY ValidatingPlace, BeginPlace,
     <1>1, <1>2, <1>3, <1>4, <1>5, <1>6, <1>7, <1>8, <1>9, <1>10, <1>11,
     <1>12, <1>13, <1>14, <1>15, <1>16, <1>17, <1>18, <1>19, <1>20, <1>21,
     <1>22, <1>23, <1>24, <1>25, <1>26, <1>27, <1>28, <1>29, <1>30, <1>31
     DEF Step, CheckoutStep, CheckpointStep, WorktreeStep
<1>33. \A q \in Proc \ {p} : PlaceOf(q)'
  <2> SUFFICES ASSUME NEW q \in Proc \ {p} PROVE PlaceOf(q)'
    OBVIOUS
  <2>1. UNCHANGED <<op[q], pc[q], result[q], group[q]>>
    BY StepOwnEffect DEF OwnEffect, Own
  <2> QED
    BY <2>1
<1>34. pc' \in [Proc -> Label]
  <2>1. CASE Begin(p)
    BY <2>1 DEF Begin, Entry, Op
  <2>2. CASE Kind(p)
    BY <2>2 DEF Kind, Onward
  <2> QED
    BY <2>1, <2>2, StepKind
<1> QED
  BY <1>32, <1>33, <1>34

\* Aborting ends a process and takes its lock and its memory.
LEMMA AbortEffect ==
    ASSUME TypeOK, PlaceInv, NEW p \in Proc, Abort(p)
    PROVE  /\ \A q \in Proc \ {p} : UNCHANGED Own(q)
           /\ lock' = IF lock = p THEN NoProc ELSE lock
           /\ op' = op /\ pc' = [pc EXCEPT ![p] = "returned"]
           /\ result' = [result EXCEPT ![p] = "error"]
           /\ Forget(p) /\ Busy(p) /\ cut' = (cut \/ pc[p] = "marker")
           /\ UNCHANGED <<repoVars, wtOwner, wtAt, wtFiles, marker, fresh, crowded,
                          moved, user>>
<1>1. Forget(p)
  BY DEF Abort
<1>2. /\ op' = op /\ pc' = [pc EXCEPT ![p] = "returned"]
      /\ result' = [result EXCEPT ![p] = "error"]
      /\ lock' = IF lock = p THEN NoProc ELSE lock
  BY DEF Abort, Stop, Goto
<1>3. \A q \in Proc \ {p} : UNCHANGED Own(q)
  BY <1>1, <1>2, ForgetOwn DEF Own, TypeOK, PlaceInv
<1> QED
  BY <1>1, <1>2, <1>3 DEF Abort

\* The user leaves the processes alone.
LEMMA UserEffect ==
    ASSUME User
    PROVE  /\ UNCHANGED <<cloned, tracked, lock, procVars, wtAt, marker, histVars, faults>>
           /\ user < MaxUser /\ user' = user + 1
<1> USE DEF UserStep, treeVars, headVars, repoVars
<1>1. ASSUME NEW x \in Path, Edit(x)
      PROVE  /\ UNCHANGED <<cloned, tracked, lock, procVars, wtAt, marker, histVars, faults>>
             /\ user < MaxUser /\ user' = user + 1
  BY <1>1 DEF Edit
<1>2. ASSUME NEW c \in Commit, UserCommit(c)
      PROVE  /\ UNCHANGED <<cloned, tracked, lock, procVars, wtAt, marker, histVars, faults>>
             /\ user < MaxUser /\ user' = user + 1
  BY <1>2 DEF UserCommit
<1>3. ASSUME NEW c \in Commit, Upstream(c)
      PROVE  /\ UNCHANGED <<cloned, tracked, lock, procVars, wtAt, marker, histVars, faults>>
             /\ user < MaxUser /\ user' = user + 1
  BY <1>3 DEF Upstream
<1>4. ASSUME NEW b \in Branch, UserSwitch(b)
      PROVE  /\ UNCHANGED <<cloned, tracked, lock, procVars, wtAt, marker, histVars, faults>>
             /\ user < MaxUser /\ user' = user + 1
  BY <1>4 DEF UserSwitch
<1>5. ASSUME NEW t \in Tag, UserTag(t)
      PROVE  /\ UNCHANGED <<cloned, tracked, lock, procVars, wtAt, marker, histVars, faults>>
             /\ user < MaxUser /\ user' = user + 1
  BY <1>5 DEF UserTag
<1>6. ASSUME NEW f \in UserFile, UserFiles(f)
      PROVE  /\ UNCHANGED <<cloned, tracked, lock, procVars, wtAt, marker, histVars, faults>>
             /\ user < MaxUser /\ user' = user + 1
  BY <1>6 DEF UserFiles
<1>7. ASSUME UserMkdir
      PROVE  /\ UNCHANGED <<cloned, tracked, lock, procVars, wtAt, marker, histVars, faults>>
             /\ user < MaxUser /\ user' = user + 1
  BY <1>7 DEF UserMkdir
<1> QED
  BY <1>1, <1>2, <1>3, <1>4, <1>5, <1>6, <1>7 DEF User

LEMMA PlaceStep == TypeOK /\ PlaceInv /\ [Next]_vars => PlaceInv'
<1> SUFFICES ASSUME TypeOK, PlaceInv, [Next]_vars PROVE PlaceInv'
  OBVIOUS
<1>1. ASSUME NEW p \in Proc, Step(p) PROVE PlaceInv'
  BY <1>1, StepPlace
<1>2. ASSUME NEW p \in Proc, Abort(p) PROVE PlaceInv'
  <2>1. PlaceOf(p)'
    <3>1. op'[p] = op[p] /\ pc'[p] = "returned" /\ result'[p] = "error" /\ op[p] # "none"
      BY <1>2, AbortEffect DEF PlaceInv, TypeOK, Busy
    <3> QED
      BY <3>1 DEF PlaceOf, CheckoutLabel, Advancing, Validating, Tagging,
                  RollbackLabel, CreateLabel, CleanupLabel
  <2>2. ASSUME NEW q \in Proc \ {p} PROVE PlaceOf(q)'
    <3>1. UNCHANGED <<op[q], pc[q], result[q], group[q]>> /\ PlaceOf(q)
      BY <1>2, AbortEffect DEF Own, PlaceInv
    <3> QED
      BY <3>1 DEF PlaceOf
  <2>3. pc' \in [Proc -> Label]
    BY <1>2, AbortEffect DEF PlaceInv, Label
  <2> QED
    BY <2>1, <2>2, <2>3 DEF PlaceInv
<1>3. CASE User
  BY <1>3, UserEffect DEF PlaceInv, PlaceOf, procVars, memVars, checkVars
<1>4. CASE UNCHANGED vars
  BY <1>4 DEF vars, PlaceInv, PlaceOf, procVars, memVars, checkVars
<1> QED
  BY <1>1, <1>2, <1>3, <1>4 DEF Next

LEMMA LockStep == TypeOK /\ PlaceInv /\ LockInv /\ [Next]_vars => LockInv'
<1> SUFFICES ASSUME TypeOK, PlaceInv, LockInv, [Next]_vars, NEW q \in Proc
             PROVE  LockOf(q)'
  BY DEF LockInv
<1>a. PlaceInv'
  BY PlaceStep
<1>b. LockOf(q)
  BY DEF LockInv
<1> USE GitAssumption DEF Locking, Op
<1>1. ASSUME NEW p \in Proc, p # q, UNCHANGED Own(q),
             \/ lock' = lock
             \/ lock' = NoProc /\ lock = p
             \/ lock' = p /\ lock = NoProc
      PROVE LockOf(q)'
  BY <1>1, <1>b DEF LockOf, Busy, Own
<1>2. ASSUME Step(q) PROVE LockOf(q)'
  <2>1. CASE Begin(q)
    <3>1. op[q] = "none" /\ result'[q] = "none" /\ lock # q
      BY <2>1, <1>b DEF Begin, LockOf, Busy, PlaceInv, PlaceOf
    <3>2. PICK o \in Op : /\ op' = [op EXCEPT ![q] = o]
                          /\ pc' = [pc EXCEPT ![q] = Entry(o)]
                          /\ o = "checkpoint" => lock = NoProc
                          /\ lock' = IF o = "checkpoint" THEN q ELSE lock
      BY <2>1 DEF Begin, Goto
    <3>3. op'[q] = o /\ pc'[q] # "reapply"
      BY <3>2 DEF TypeOK, PlaceInv, Entry
    <3> QED
      BY <3>1, <3>2, <3>3 DEF LockOf, Busy
  <2>2. CASE /\ pc[q] = "relock" /\ lock = NoProc /\ lock' = q
             /\ pc' = [pc EXCEPT ![q] = "reapply"] /\ UNCHANGED <<op, result>>
    <3>1. op'[q] = "rollback" /\ result'[q] = "none"
      BY <2>2 DEF PlaceInv, PlaceOf, RollbackLabel
    <3> QED
      BY <2>2, <3>1 DEF LockOf, Busy
  <2>3. ASSUME NEW l \in Label \ {"idle", "returned", "reapply"}, Onward(q, l)
        PROVE LockOf(q)'
    BY <2>3, <1>b DEF Onward, Goto, LockOf, Busy, PlaceInv
  <2>4. ASSUME NEW r \in Result \ {"none"}, Finish(q, r) PROVE LockOf(q)'
    <3>1. result'[q] # "none" /\ pc'[q] = "returned" /\ lock' # q
      BY <2>4 DEF Finish, Stop, Goto, TypeOK, PlaceInv
    <3> QED
      BY <3>1 DEF LockOf, Busy
  <2> QED
    BY <1>2, <2>1, <2>2, <2>3, <2>4, StepKind DEF Kind
<1>3. ASSUME Abort(q) PROVE LockOf(q)'
  <2>a. /\ lock' = IF lock = q THEN NoProc ELSE lock
        /\ pc' = [pc EXCEPT ![q] = "returned"]
        /\ result' = [result EXCEPT ![q] = "error"]
    BY <1>3, AbortEffect
  <2>1. result'[q] # "none" /\ pc'[q] = "returned" /\ lock' # q
    BY <2>a DEF TypeOK, PlaceInv
  <2> QED
    BY <2>1 DEF LockOf, Busy
<1>4. CASE User
  BY <1>4, <1>b, UserEffect DEF LockOf, Busy, procVars
<1>5. CASE UNCHANGED vars
  BY <1>5, <1>b DEF LockOf, Busy, vars, procVars
<1> QED
  BY <1>1, <1>2, <1>3, <1>4, <1>5, StepOwnEffect, AbortEffect DEF Next, OwnEffect

-------------------------------------------------------------------------------
(* Type correctness *)

\* The lists that a step may write are written at a few labels.
MemEffect(p) ==
    \/ UNCHANGED memVars
    \/ Forget(p)
    \/ pc[p] \in {"idle", "head", "status", "reach", "after", "candidate",
                  "head-path", "next-group", "show"}

LEMMA StepMemEffect == ASSUME PlaceInv, NEW p \in Proc, Step(p) PROVE MemEffect(p)
<1>a. \A l : Go(p, l) => MemEffect(p)
  BY DEF Go, MemEffect
<1>b. \A r : Return(p, r) \/ End(p, r) => MemEffect(p)
  BY DEF Return, End, MemEffect
<1>c. \A l, c : GoAt(p, l, c) => MemEffect(p)
  BY DEF GoAt, MemEffect
<1>1. Begin(p) => MemEffect(p)
  BY DEF Begin, MemEffect, PlaceInv, PlaceOf
<1>2. Inspect(p) => MemEffect(p)
  BY <1>a, <1>b DEF Inspect
<1>3. Clone(p) => MemEffect(p)
  BY <1>a, <1>b, <1>c DEF Clone
<1>4. OnMain(p) => MemEffect(p)
  BY <1>a, <1>b DEF OnMain
<1>5. Fetch(p) => MemEffect(p)
  BY <1>a, <1>b DEF Fetch
<1>6. ReadHead(p) => MemEffect(p)
  BY DEF ReadHead, At, MemEffect
<1>7. Status(p) => MemEffect(p)
  BY DEF Status, At, MemEffect
<1>8. Reach(p) => MemEffect(p)
  BY DEF Reach, At, MemEffect
<1>9. Divergence(p) => MemEffect(p)
  BY <1>a, <1>b DEF Divergence
<1>10. ChangedPaths(p) => MemEffect(p)
  BY <1>a, <1>b DEF ChangedPaths
<1>11. CheckoutMain(p) => MemEffect(p)
  BY <1>a, <1>b, <1>c DEF CheckoutMain
<1>12. Merge(p) => MemEffect(p)
  BY <1>a, <1>b, <1>c DEF Merge
<1>13. After(p) => MemEffect(p)
  BY DEF After, At, MemEffect
<1>14. Candidate(p) => MemEffect(p)
  BY DEF Candidate, At, MemEffect
<1>15. Ancestry(p) => MemEffect(p)
  BY <1>a, <1>b DEF Ancestry
<1>16. HeadPath(p) => MemEffect(p)
  BY DEF HeadPath, At, MemEffect
<1>17. Diff(p) => MemEffect(p)
  BY <1>a, <1>b DEF Diff
<1>18. DiffCached(p) => MemEffect(p)
  BY <1>a, <1>b DEF DiffCached
<1>19. NextGroup(p) => MemEffect(p)
  BY DEF NextGroup, At, MemEffect
<1>20. TagHead(p) => MemEffect(p)
  BY DEF TagHead, At, MemEffect
<1>21. ExistingTag(p) => MemEffect(p)
  BY <1>a, <1>b DEF ExistingTag
<1>22. CreateTag(p) => MemEffect(p)
  BY <1>a, <1>b DEF CreateTag
<1>23. TagTarget(p) => MemEffect(p)
  BY <1>a, <1>b DEF TagTarget
<1>24. Describe(p) => MemEffect(p)
  BY <1>a, <1>b DEF Describe
<1>25. Show(p) => MemEffect(p)
  BY DEF Show, At, MemEffect
<1>26. Relock(p) => MemEffect(p)
  BY <1>a, <1>b DEF Relock, MemEffect
<1>27. Reapply(p) => MemEffect(p)
  BY <1>a, <1>b DEF Reapply
<1>28. CreateInspect(p) => MemEffect(p)
  BY <1>a, <1>b DEF CreateInspect
<1>29. WorktreeAdd(p) => MemEffect(p)
  BY <1>a, <1>b DEF WorktreeAdd
<1>30. EnsureMarker(p) => MemEffect(p)
  BY <1>a, <1>b DEF EnsureMarker
<1>31. CleanupInspect(p) => MemEffect(p)
  BY <1>a, <1>b DEF CleanupInspect
<1>32. CleanupStatus(p) => MemEffect(p)
  BY <1>a, <1>b DEF CleanupStatus
<1>33. WorktreeRemove(p) => MemEffect(p)
  BY <1>a, <1>b DEF WorktreeRemove
<1>34. ReallyGone(p) => MemEffect(p)
  BY <1>a, <1>b DEF ReallyGone
<1>35. RemoveMarker(p) => MemEffect(p)
  BY <1>a, <1>b DEF RemoveMarker
<1> QED
  BY <1>1, <1>2, <1>3, <1>4, <1>5, <1>6, <1>7, <1>8, <1>9, <1>10, <1>11,
     <1>12, <1>13, <1>14, <1>15, <1>16, <1>17, <1>18, <1>19, <1>20, <1>21,
     <1>22, <1>23, <1>24, <1>25, <1>26, <1>27, <1>28, <1>29, <1>30, <1>31,
     <1>32, <1>33, <1>34, <1>35
     DEF Step, CheckoutStep, CheckpointStep, WorktreeStep

RepoOK ==
    /\ cloned \in BOOLEAN
    /\ branch \in Branch /\ tip \in [Branch -> Commit]
    /\ staged \in [Path -> Content] /\ work \in [Path -> Content]
    /\ origin \in Commit /\ tracked \in Commit
    /\ tags \in [Tag -> [at : MaybeCommit, by : Proc \cup {NoProc}]]

ProcOK ==
    /\ lock \in Proc \cup {NoProc}
    /\ op \in [Proc -> Op \cup {"none"}]
    /\ \A p \in Proc : lock = p => op[p] \in Locking
    /\ result \in [Proc -> Result]

MemOK ==
    /\ want \in [Proc -> MaybeCommit] /\ name \in [Proc -> Tag \cup {NoName}]
    /\ seen \in [Proc -> MaybeCommit] /\ other \in [Proc -> MaybeCommit]
    /\ local \in [Proc -> SUBSET Path]
    /\ group \in [Proc -> 1..3] /\ \A p \in Proc : pc[p] = "diff" => group[p] < 3
    /\ todo \in [Proc -> SUBSET Path]
    /\ files \in [Proc -> [Path -> Content]]

TreeOK ==
    /\ wtOwner \in {"none", "tool", "user"} /\ wtAt \in MaybeCommit
    /\ wtFiles \subseteq UserFile /\ marker \in BOOLEAN
    /\ fresh \in [Proc -> SUBSET UserFile]
    /\ cut \in BOOLEAN /\ crowded \in BOOLEAN

CountOK ==
    /\ moved \subseteq Proc
    /\ faults \in 0..MaxFaults /\ user \in 0..MaxUser

LEMMA TypeParts == TypeOK <=> RepoOK /\ ProcOK /\ MemOK /\ TreeOK /\ CountOK
BY DEF TypeOK, RepoOK, ProcOK, MemOK, TreeOK, CountOK

\* Ancestors are commits, and the ancestors of an ancestor are ancestors.
LEMMA Ancestors ==
    /\ \A d \in Commit : \A c : IsAncestor(c, d) => c \in Commit
    /\ \A e \in Commit : \A c, d : IsAncestor(c, d) /\ IsAncestor(d, e) => IsAncestor(c, e)
    /\ \A c \in Commit : IsAncestor(c, c)
BY GitAssumption DEF IsAncestor

LEMMA MovedType ==
    ASSUME NEW f \in [Path -> Content], NEW c, NEW d \in Commit
    PROVE  Moved(f, c, d) \in [Path -> Content]
BY GitAssumption DEF Moved

LEMMA HeadType == RepoOK => Head \in Commit
BY DEF RepoOK, Head

LEMMA AdvanceWants ==
    ASSUME RepoOK, PlaceInv, GraphInv, NEW p \in Proc, pc[p] \in Advancing \ {"branch"}
    PROVE  want[p] \in Commit
BY Ancestors DEF GraphInv, RepoOK

LEMMA StepRepoOK ==
    ASSUME TypeOK, RepoOK, PlaceInv, GraphInv, NEW p \in Proc, Step(p)
    PROVE  RepoOK'
<1>1. CASE Clone(p)
  <2>1. CASE UNCHANGED <<cloned, headVars, tracked>>
    BY <1>1, <2>1 DEF Clone, RepoOK, headVars
  <2>2. Tree[origin] \in [Path -> Content]
    BY GitAssumption DEF RepoOK
  <2>3. CASE ~UNCHANGED <<cloned, headVars, tracked>>
    BY <1>1, <2>2, <2>3 DEF Clone, RepoOK, Branch
  <2> QED
    BY <2>1, <2>3
<1>2. CASE CheckoutMain(p)
  <2>1. tip["main"] \in Commit /\ "main" \in Branch
    BY DEF RepoOK, Branch
  <2>2. branch' \in Branch /\ work' \in [Path -> Content] /\ staged' \in [Path -> Content]
    BY <1>2, <2>1, MovedType DEF CheckoutMain, SwitchTo, RepoOK
  <2> QED
    BY <1>2, <2>2 DEF CheckoutMain, RepoOK
<1>3. CASE Merge(p)
  <2>1. want[p] \in Commit
    BY <1>3, AdvanceWants DEF Merge, At, Advancing
  <2>2. /\ tip' \in [Branch -> Commit]
        /\ work' \in [Path -> Content] /\ staged' \in [Path -> Content]
    BY <1>3, <2>1, MovedType DEF Merge, FastForward, RepoOK
  <2> QED
    BY <1>3, <2>2 DEF Merge, RepoOK
<1>4. CASE CreateTag(p)
  <2>1. tags' = tags \/ tags' = [tags EXCEPT ![name[p]] = [at |-> Head, by |-> p]]
    BY <1>4 DEF CreateTag
  <2>2. tags' \in [Tag -> [at : MaybeCommit, by : Proc \cup {NoProc}]]
    BY <2>1, HeadType DEF RepoOK, MaybeCommit
  <2> QED
    BY <1>4, <2>2 DEF CreateTag, headVars, RepoOK
<1>5. CASE pc[p] \notin {"clone", "checkout", "merge", "tag"}
  BY <1>5, StepOwnEffect, StepRepoEffect
     DEF OwnEffect, RepoEffect, headVars, RepoOK
<1> QED
  BY <1>1, <1>2, <1>3, <1>4, <1>5, Table DEF Goes

LEMMA StepProcOK ==
    ASSUME TypeOK, PlaceInv, LockInv, NEW p \in Proc, Step(p), ProcOK, LockInv'
    PROVE  ProcOK'
<1>1. lock' \in Proc \cup {NoProc}
  BY StepOwnEffect DEF OwnEffect, ProcOK
<1>2. \A q \in Proc : lock' = q => op'[q] \in Locking
  BY DEF LockInv, LockOf
<1>3. op' \in [Proc -> Op \cup {"none"}] /\ result' \in [Proc -> Result]
  <2>1. CASE Begin(p)
    BY <2>1 DEF Begin, ProcOK
  <2>2. CASE Kind(p)
    BY <2>2 DEF Kind, Onward, Finish, Stop, ProcOK
  <2> QED
    BY <2>1, <2>2, StepKind DEF ProcOK
<1> QED
  BY <1>1, <1>2, <1>3 DEF ProcOK

LEMMA ForgetMemOK ==
    ASSUME NEW p \in Proc, MemOK, Forget(p), PlaceInv'
    PROVE  MemOK'
<1>1. "absent" \in Content
  BY GitAssumption
<1>2. \A q \in Proc : pc'[q] = "diff" => group'[q] < 3
  BY DEF PlaceInv, PlaceOf, Validating
<1>3. /\ want' \in [Proc -> MaybeCommit] /\ name' \in [Proc -> Tag \cup {NoName}]
      /\ seen' \in [Proc -> MaybeCommit] /\ other' \in [Proc -> MaybeCommit]
  BY DEF Forget, MemOK, MaybeCommit
<1>4. /\ local' \in [Proc -> SUBSET Path] /\ todo' \in [Proc -> SUBSET Path]
      /\ group' \in [Proc -> 1..3]
  BY DEF Forget, MemOK
<1>5. files' \in [Proc -> [Path -> Content]]
  BY <1>1 DEF Forget, MemOK
<1> QED
  BY <1>2, <1>3, <1>4, <1>5 DEF MemOK

LEMMA StepMemOK ==
    ASSUME RepoOK, MemOK, PlaceInv, TagsInv, NameInv, NEW p \in Proc, Step(p), PlaceInv'
    PROVE  MemOK'
<1>a. \A q \in Proc : pc'[q] = "diff" => group'[q] < 3
  BY DEF PlaceInv, PlaceOf, Validating
<1>b. Head \in Commit
  BY HeadType
<1>c. Forget(p) => MemOK'
  BY ForgetMemOK
<1> USE GitAssumption DEF memVars, readVars, checkVars, MaybeCommit
<1>1. CASE Begin(p)
  <2>1. want' \in [Proc -> MaybeCommit] /\ name' \in [Proc -> Tag \cup {NoName}]
    <3>1. PICK o \in Op :
            /\ IF o \in {"ensure", "advance", "create"}
               THEN \E c \in Published : want' = [want EXCEPT ![p] = c]
               ELSE UNCHANGED want
            /\ IF o \in {"checkpoint", "rollback"}
               THEN \E t \in Tag : name' = [name EXCEPT ![p] = t]
               ELSE UNCHANGED name
      BY <1>1 DEF Begin
    <3>2. want' \in [Proc -> MaybeCommit]
      BY <3>1 DEF MemOK
    <3>3. name' \in [Proc -> Tag \cup {NoName}]
      BY <3>1 DEF MemOK
    <3> QED
      BY <3>2, <3>3
  <2>2. Groups[1] \subseteq Path
    OBVIOUS
  <2>3. todo' \in [Proc -> SUBSET Path]
    BY <1>1, <2>2 DEF Begin, MemOK
  <2> QED
    BY <1>1, <1>a, <2>1, <2>3 DEF Begin, MemOK
<1>2. CASE ReadHead(p)
  BY <1>2, <1>a, <1>b DEF ReadHead, MemOK
<1>3. CASE TagHead(p)
  BY <1>3, <1>a, <1>b DEF TagHead, MemOK
<1>4. CASE Status(p)
  <2>1. LocalChanges \in SUBSET Path
    BY DEF LocalChanges, Dirty
  <2> QED
    BY <1>4, <1>a, <2>1 DEF Status, MemOK
<1>5. CASE Reach(p)
  BY <1>5, <1>a, <1>c DEF Reach, ResolvedTo, End, Go, MemOK
<1>6. CASE After(p)
  BY <1>6, <1>a, <1>b DEF After, ResolvedTo, MemOK
<1>7. CASE Candidate(p)
  BY <1>7, <1>a DEF Candidate, MemOK, RepoOK
<1>8. CASE HeadPath(p)
  <2>1. Go(p, "diff") \/ End(p, "error") => MemOK'
    BY <1>a, <1>c DEF End, Go, MemOK
  <2>2. ASSUME NEW x \in todo[p], todo' = [todo EXCEPT ![p] = @ \ {x}],
               UNCHANGED <<readVars, group, files>>
        PROVE  MemOK'
    <3>1. todo' \in [Proc -> SUBSET Path]
      BY <2>2 DEF MemOK
    <3> QED
      BY <1>a, <2>2, <3>1 DEF MemOK
  <2> QED
    BY <1>8, <2>1, <2>2 DEF HeadPath
<1>9. CASE NextGroup(p)
  <2>1. group[p] \in 1..2
    BY <1>9 DEF NextGroup, At, PlaceInv, PlaceOf, Validating, MemOK
  <2>2. Groups[2] \subseteq Path
    OBVIOUS
  <2>3. todo' \in [Proc -> SUBSET Path]
    BY <1>9, <2>2 DEF NextGroup, MemOK
  <2>4. group' = [group EXCEPT ![p] = group[p] + 1] /\ group[p] + 1 \in 1..3
    BY <1>9, <2>1 DEF NextGroup
  <2>5. group' \in [Proc -> 1..3]
    BY <2>4 DEF MemOK
  <2> QED
    BY <1>9, <1>a, <2>3, <2>5 DEF NextGroup, MemOK
<1>10. CASE Show(p)
  <2>1. CASE Go(p, "relock")
    BY <2>1, <1>a DEF Go, MemOK
  <2>2. CASE End(p, "error")
    BY <2>2, <1>c DEF End
  <2>3. CASE \E x \in todo[p] : /\ ShownIs(p, x, Tree[tags[name[p]].at][x])
                               /\ tags[name[p]] # NoTag
    <3>1. PICK x \in todo[p] : /\ ShownIs(p, x, Tree[tags[name[p]].at][x])
                              /\ tags[name[p]] # NoTag
      BY <2>3
    <3>2. x \in Path
      BY DEF MemOK
    <3>3. name[p] \in Tag
      BY <1>10 DEF Show, At, Busy, PlaceInv, PlaceOf, RollbackLabel, NameInv
    <3>4. Tree[tags[name[p]].at][x] \in Content
      BY <3>1, <3>2, <3>3 DEF TagsInv
    <3>5. files' \in [Proc -> [Path -> Content]] /\ todo' \in [Proc -> SUBSET Path]
      BY <3>1, <3>2, <3>4 DEF ShownIs, MemOK
    <3> QED
      BY <3>1, <3>5, <1>a DEF ShownIs, MemOK
  <2> QED
    BY <1>10, <2>1, <2>2, <2>3 DEF Show
<1>11. CASE UNCHANGED memVars
  BY <1>11, <1>a DEF MemOK
<1> QED
  BY <1>1, <1>2, <1>3, <1>4, <1>5, <1>6, <1>7, <1>8, <1>9, <1>10, <1>11, <1>c,
     StepMemEffect, Table DEF MemEffect, Goes

LEMMA StepTreeOK ==
    ASSUME TypeOK, TreeOK, PlaceInv, NEW p \in Proc, Step(p)
    PROVE  TreeOK'
<1> USE DEF treeVars, histVars
<1>1. CASE WorktreeAdd(p)
  <2>1. want[p] \in MaybeCommit
    BY DEF TypeOK
  <2> QED
    BY <1>1, <2>1 DEF WorktreeAdd, TreeOK
<1>2. CASE WorktreeRemove(p)
  BY <1>2 DEF WorktreeRemove, TreeOK, MaybeCommit
<1>3. CASE EnsureMarker(p)
  BY <1>3 DEF EnsureMarker, TreeOK
<1>4. CASE RemoveMarker(p)
  BY <1>4 DEF RemoveMarker, TreeOK
<1>5. CASE CleanupStatus(p)
  BY <1>5 DEF CleanupStatus, TreeOK
<1>6. CASE pc[p] \notin {"add", "remove", "marker", "rm-marker", "wt-status"}
  <2>1. crowded' \in BOOLEAN
    BY StepRepoEffect DEF RepoEffect, Begin, TreeOK
  <2> QED
    BY <1>6, <2>1, StepRepoEffect DEF RepoEffect, TreeOK
<1> QED
  BY <1>1, <1>2, <1>3, <1>4, <1>5, <1>6, Table DEF Goes

LEMMA StepCountOK ==
    ASSUME TypeOK, CountOK, PlaceInv, NEW p \in Proc, Step(p)
    PROVE  CountOK'
<1>1. moved' \subseteq Proc /\ user' = user
  BY StepOwnEffect DEF OwnEffect
<1>2. faults' = faults
  <2>1. CASE Begin(p)
    BY <2>1 DEF Begin
  <2>2. CASE Kind(p)
    BY <2>2 DEF Kind, Onward, Finish
  <2>3. CASE Relock(p) /\ lock = NoProc
    BY <2>3 DEF Relock
  <2> QED
    BY <2>1, <2>2, <2>3, StepKind, Table DEF Goes
<1> QED
  BY <1>1, <1>2 DEF CountOK

LEMMA UserRepoOK == RepoOK /\ CountOK /\ User => RepoOK' /\ CountOK'
<1> SUFFICES ASSUME RepoOK, CountOK, User PROVE RepoOK' /\ CountOK'
  OBVIOUS
<1> USE GitAssumption, HeadType
    DEF RepoOK, CountOK, UserStep, headVars, repoVars
<1>1. ASSUME NEW x \in Path, Edit(x) PROVE RepoOK' /\ CountOK'
  <2>1. "mine" \in Content /\ "absent" \in Content
    OBVIOUS
  <2>2. work' \in [Path -> Content] /\ staged' \in [Path -> Content]
    <3>1. CASE work' = [work EXCEPT ![x] = "mine"] /\ UNCHANGED staged
      BY <2>1, <3>1
    <3>2. ASSUME NEW v \in Content, work' = [work EXCEPT ![x] = v],
                 staged' = [staged EXCEPT ![x] = v]
          PROVE  work' \in [Path -> Content] /\ staged' \in [Path -> Content]
      BY <3>2
    <3> QED
      BY <1>1, <2>1, <3>1, <3>2 DEF Edit
  <2> QED
    BY <1>1, <2>2 DEF Edit
<1>2. ASSUME NEW c \in Commit, UserCommit(c) PROVE RepoOK' /\ CountOK'
  BY <1>2 DEF UserCommit, Disturb
<1>3. ASSUME NEW c \in Commit, Upstream(c) PROVE RepoOK' /\ CountOK'
  BY <1>3 DEF Upstream
<1>4. ASSUME NEW b \in Branch, UserSwitch(b) PROVE RepoOK' /\ CountOK'
  <2>1. tip[b] \in Commit
    OBVIOUS
  <2>2. work' \in [Path -> Content] /\ staged' \in [Path -> Content]
    BY <1>4, <2>1, MovedType DEF UserSwitch, SwitchTo
  <2> QED
    BY <1>4, <2>2 DEF UserSwitch, SwitchTo, Disturb
<1>5. ASSUME NEW t \in Tag, UserTag(t) PROVE RepoOK' /\ CountOK'
  BY <1>5 DEF UserTag, MaybeCommit
<1>6. ASSUME NEW f \in UserFile, UserFiles(f) PROVE RepoOK' /\ CountOK'
  BY <1>6 DEF UserFiles
<1>7. CASE UserMkdir
  BY <1>7 DEF UserMkdir
<1> QED
  BY <1>1, <1>2, <1>3, <1>4, <1>5, <1>6, <1>7 DEF User

LEMMA UserTreeOK == TreeOK /\ User => TreeOK'
<1> SUFFICES ASSUME TreeOK, User PROVE TreeOK'
  OBVIOUS
<1> USE DEF TreeOK, treeVars, histVars
<1>1. ASSUME NEW f \in UserFile, UserFiles(f) PROVE TreeOK'
  BY <1>1 DEF UserFiles
<1>2. CASE UserMkdir
  BY <1>2 DEF UserMkdir
<1>3. CASE UNCHANGED treeVars
  BY <1>3
<1> QED
  BY <1>1, <1>2, <1>3 DEF User, Edit, UserCommit, Upstream, UserSwitch, UserTag

LEMMA TypeStep ==
    /\ TypeOK /\ PlaceInv /\ LockInv /\ GraphInv /\ TagsInv /\ NameInv
    /\ [Next]_vars
    => TypeOK'
<1> SUFFICES ASSUME TypeOK, PlaceInv, LockInv, GraphInv, TagsInv, NameInv,
                    [Next]_vars
             PROVE  TypeOK'
  OBVIOUS
<1>a. RepoOK /\ ProcOK /\ MemOK /\ TreeOK /\ CountOK
  BY TypeParts
<1>b. PlaceInv' /\ LockInv'
  BY PlaceStep, LockStep
<1>c. RepoOK' /\ ProcOK' /\ MemOK' /\ TreeOK' /\ CountOK' => TypeOK'
  BY DEF TypeOK, RepoOK, ProcOK, MemOK, TreeOK, CountOK
<1>1. ASSUME NEW p \in Proc, Step(p) PROVE TypeOK'
  BY <1>1, <1>a, <1>b, <1>c, StepRepoOK, StepProcOK, StepMemOK, StepTreeOK,
     StepCountOK
<1>2. ASSUME NEW p \in Proc, Abort(p) PROVE TypeOK'
  <2>1. Forget(p) /\ UNCHANGED <<repoVars, wtOwner, wtAt, wtFiles, marker, fresh, crowded, moved, user>>
    BY <1>2, AbortEffect
  <2>2. RepoOK'
    BY <1>a, <2>1 DEF RepoOK, repoVars, headVars
  <2>3. MemOK'
    BY <1>a, <1>b, <2>1, ForgetMemOK
  <2>4. op' = op /\ result' \in [Proc -> Result]
    BY <1>2, <1>a, AbortEffect DEF ProcOK, Result
  <2>5. lock' \in Proc \cup {NoProc} /\ \A q \in Proc : lock' = q => op'[q] \in Locking
    BY <1>2, <1>a, <1>b, AbortEffect DEF ProcOK, LockInv, LockOf
  <2>6. ProcOK'
    BY <1>a, <2>4, <2>5 DEF ProcOK
  <2>7. TreeOK'
    BY <1>2, <1>a DEF Abort, TreeOK
  <2>8. CountOK'
    BY <1>2, <1>a, GitAssumption DEF Abort, CountOK
  <2> QED
    BY <1>c, <2>2, <2>3, <2>6, <2>7, <2>8
<1>3. CASE User
  <2>1. RepoOK' /\ CountOK' /\ TreeOK'
    BY <1>3, <1>a, UserRepoOK, UserTreeOK
  <2>2. UNCHANGED <<lock, procVars>>
    BY <1>3, UserEffect
  <2>3. ProcOK' /\ MemOK'
    BY <1>a, <2>2 DEF ProcOK, MemOK, procVars, memVars, readVars, checkVars
  <2> QED
    BY <1>c, <2>1, <2>3
<1>4. CASE UNCHANGED vars
  BY <1>4 DEF vars, TypeOK, procVars, memVars, readVars, checkVars, repoVars,
              headVars, treeVars, histVars
<1> QED
  BY <1>1, <1>2, <1>3, <1>4 DEF Next

-------------------------------------------------------------------------------
(* The graph and the comparison *)

LEMMA GraphStep == TypeOK /\ PlaceInv /\ GraphInv /\ [Next]_vars => GraphInv'
<1> SUFFICES ASSUME TypeOK, PlaceInv, GraphInv, [Next]_vars PROVE GraphInv'
  OBVIOUS
<1>a. origin \in Commit /\ tracked \in Commit /\ IsAncestor(tracked, origin)
  BY DEF TypeOK, GraphInv
<1>1. ASSUME NEW p \in Proc, Step(p) PROVE GraphInv'
  <2>1. origin' = origin /\ tracked' \in {tracked, origin}
    BY <1>1, StepOwnEffect DEF OwnEffect
  <2>2. IsAncestor(tracked', origin')
    BY <1>a, <2>1, Ancestors
  <2>3. ASSUME NEW q \in Proc \ {p}, pc'[q] \in Advancing \ {"branch"}
        PROVE  IsAncestor(want'[q], tracked')
    <3>1. pc[q] = pc'[q] /\ want'[q] = want[q]
      BY <1>1, StepOwnEffect DEF OwnEffect, Own
    <3>2. IsAncestor(want[q], tracked)
      BY <2>3, <3>1 DEF GraphInv
    <3> QED
      BY <1>a, <2>1, <3>1, <3>2, Ancestors
  <2>4. ASSUME pc'[p] \in Advancing \ {"branch"} PROVE IsAncestor(want'[p], tracked')
    <3> USE DEF Go, Move, GoAt, End, Finish, Stop, Goto, memVars, readVars, repoVars, PlaceInv, At
    <3>1. \/ Reach(p) \/ Divergence(p) \/ ChangedPaths(p) \/ CheckoutMain(p) \/ Merge(p)
      BY <1>1, <2>4, Table DEF Goes, Advancing
    <3>2. ASSUME Reach(p) PROVE IsAncestor(want'[p], tracked')
      BY <2>4, <3>2 DEF Reach, ResolvedTo, Advancing
    <3>3. ASSUME Divergence(p) \/ ChangedPaths(p) \/ CheckoutMain(p) \/ Merge(p)
          PROVE  want' = want /\ tracked' = tracked /\ pc[p] \in Advancing \ {"branch"}
      BY <2>4, <3>3 DEF Divergence, ChangedPaths, CheckoutMain, Merge, Advancing
    <3> QED
      BY <3>1, <3>2, <3>3 DEF GraphInv
  <2> QED
    BY <2>2, <2>3, <2>4 DEF GraphInv
<1>2. ASSUME NEW p \in Proc, Abort(p) PROVE GraphInv'
  <2>1. pc'[p] = "returned" /\ origin' = origin /\ tracked' = tracked
    BY <1>2, AbortEffect DEF PlaceInv, repoVars
  <2>2. \A q \in Proc \ {p} : pc[q] = pc'[q] /\ want'[q] = want[q]
    BY <1>2, AbortEffect DEF Own
  <2> QED
    BY <2>1, <2>2 DEF GraphInv, Advancing
<1>3. CASE User
  <2>1. UNCHANGED <<tracked, pc, want>>
    BY <1>3, UserEffect DEF procVars, memVars, readVars
  <2>2. IsAncestor(tracked, origin')
    <3>1. origin' = origin \/ (origin' \in Commit /\ IsAncestor(origin, origin'))
      BY <1>3 DEF User, Edit, UserCommit, Upstream, UserSwitch, UserTag, UserFiles,
                  UserMkdir, repoVars
    <3> QED
      BY <1>a, <3>1, Ancestors
  <2> QED
    BY <2>1, <2>2 DEF GraphInv
<1>4. CASE UNCHANGED vars
  BY <1>4 DEF vars, procVars, memVars, readVars, repoVars, GraphInv
<1> QED
  BY <1>1, <1>2, <1>3, <1>4 DEF Next

\* Which results are reported where, and that a result that is no failure
\* leaves the process its name.
ResultEffect(p) ==
    /\ result'[p] = "newer" => pc[p] = "ancestry"
    /\ result'[p] = "ok" =>
          pc[p] \in {"reach", "after", "candidate", "ancestry", "describe", "reapply"}
    /\ result'[p] \in {"none", "ok"} => name'[p] = name[p] \/ pc[p] = "idle"

LEMMA StepResult ==
    ASSUME TypeOK, PlaceInv, NEW p \in Proc, Step(p)
    PROVE  ResultEffect(p)
<1>a. ASSUME NEW l, Go(p, l), Busy(p) PROVE ResultEffect(p)
  BY <1>a DEF Go, Move, Busy, memVars, readVars, ResultEffect
<1>b. ASSUME NEW r, Finish(p, r), r \notin {"none", "ok", "newer"} PROVE ResultEffect(p)
  BY <1>b DEF Finish, Stop, TypeOK, ResultEffect
<1>c. ASSUME NEW l, NEW c, GoAt(p, l, c), Busy(p) PROVE ResultEffect(p)
  BY <1>c DEF GoAt, Busy, memVars, readVars, ResultEffect
<1>1. Begin(p) => ResultEffect(p)
  BY DEF Begin, ResultEffect, PlaceInv, PlaceOf
<1>2. Inspect(p) => ResultEffect(p)
  BY <1>a, <1>b DEF Inspect, At, End
<1>3. Clone(p) => ResultEffect(p)
  BY <1>a, <1>b, <1>c DEF Clone, At, End
<1>4. OnMain(p) => ResultEffect(p)
  BY <1>a, <1>b DEF OnMain, At, End
<1>5. Fetch(p) => ResultEffect(p)
  BY <1>a, <1>b DEF Fetch, At, End
<1>6. ReadHead(p) => ResultEffect(p)
  BY <1>a, <1>b DEF ReadHead, At, Busy, End, Move, memVars, readVars, ResultEffect
<1>7. Status(p) => ResultEffect(p)
  BY <1>a, <1>b DEF Status, At, Busy, End, Move, memVars, readVars, ResultEffect
<1>8. Reach(p) => ResultEffect(p)
  BY <1>a, <1>b DEF Reach, ResolvedTo, At, Busy, End, Return, Finish, Stop, Move,
         memVars, readVars, ResultEffect, TypeOK
<1>9. Divergence(p) => ResultEffect(p)
  BY <1>a, <1>b DEF Divergence, At, End
<1>10. ChangedPaths(p) => ResultEffect(p)
  BY <1>a, <1>b DEF ChangedPaths, At, End
<1>11. CheckoutMain(p) => ResultEffect(p)
  BY <1>a, <1>b, <1>c DEF CheckoutMain, At, End
<1>12. Merge(p) => ResultEffect(p)
  BY <1>a, <1>b, <1>c DEF Merge, At, End
<1>13. After(p) => ResultEffect(p)
  BY <1>a, <1>b DEF After, ResolvedTo, At, Busy, End, Return, Finish, Stop, Move,
         memVars, readVars, ResultEffect, TypeOK
<1>14. Candidate(p) => ResultEffect(p)
  BY <1>a, <1>b DEF Candidate, ResolvedTo, At, Busy, End, Return, Finish, Stop, Move,
         memVars, readVars, ResultEffect, TypeOK
<1>15. Ancestry(p) => ResultEffect(p)
  BY <1>a, <1>b DEF Ancestry, ResolvedTo, At, Busy, End, Return, Finish, Stop, Move,
         memVars, readVars, ResultEffect, TypeOK
<1>16. HeadPath(p) => ResultEffect(p)
  BY <1>a, <1>b DEF HeadPath, At, Busy, End, Move, memVars, readVars, ResultEffect
<1>17. Diff(p) => ResultEffect(p)
  BY <1>a, <1>b DEF Diff, At, End
<1>18. DiffCached(p) => ResultEffect(p)
  BY <1>a, <1>b DEF DiffCached, At, End
<1>19. NextGroup(p) => ResultEffect(p)
  BY <1>a, <1>b DEF NextGroup, At, Busy, End, Move, memVars, readVars, ResultEffect
<1>20. TagHead(p) => ResultEffect(p)
  BY <1>a, <1>b DEF TagHead, At, Busy, End, Move, memVars, readVars, ResultEffect
<1>21. ExistingTag(p) => ResultEffect(p)
  BY <1>a, <1>b DEF ExistingTag, At, End
<1>22. CreateTag(p) => ResultEffect(p)
  BY <1>a, <1>b DEF CreateTag, At, End
<1>23. TagTarget(p) => ResultEffect(p)
  BY <1>a, <1>b DEF TagTarget, At, End
<1>24. Describe(p) => ResultEffect(p)
  BY <1>a, <1>b DEF Describe, ResolvedTo, At, Busy, End, Return, Finish, Stop, Move,
         memVars, readVars, ResultEffect, TypeOK
<1>25. Show(p) => ResultEffect(p)
  BY <1>a, <1>b DEF Show, ShownIs, At, Busy, End, Move, readVars, ResultEffect
<1>26. Relock(p) => ResultEffect(p)
  BY <1>a, <1>b DEF Relock, At, Busy, End, Move, memVars, readVars, ResultEffect
<1>27. Reapply(p) => ResultEffect(p)
  BY <1>a, <1>b DEF Reapply, ResolvedTo, At, Busy, End, Return, Finish, Stop, Move,
         memVars, readVars, ResultEffect, TypeOK
<1>28. CreateInspect(p) => ResultEffect(p)
  BY <1>a, <1>b DEF CreateInspect, At, End
<1>29. WorktreeAdd(p) => ResultEffect(p)
  BY <1>a, <1>b DEF WorktreeAdd, At, End
<1>30. EnsureMarker(p) => ResultEffect(p)
  BY <1>a, <1>b DEF EnsureMarker, At, End
<1>31. CleanupInspect(p) => ResultEffect(p)
  BY <1>a, <1>b DEF CleanupInspect, At, End
<1>32. CleanupStatus(p) => ResultEffect(p)
  BY <1>a, <1>b DEF CleanupStatus, At, End
<1>33. WorktreeRemove(p) => ResultEffect(p)
  BY <1>a, <1>b DEF WorktreeRemove, At, End
<1>34. ReallyGone(p) => ResultEffect(p)
  BY <1>a, <1>b DEF ReallyGone, At, End
<1>35. RemoveMarker(p) => ResultEffect(p)
  BY <1>a, <1>b DEF RemoveMarker, At, End
<1> QED
  BY <1>1, <1>2, <1>3, <1>4, <1>5, <1>6, <1>7, <1>8, <1>9, <1>10, <1>11,
     <1>12, <1>13, <1>14, <1>15, <1>16, <1>17, <1>18, <1>19, <1>20, <1>21,
     <1>22, <1>23, <1>24, <1>25, <1>26, <1>27, <1>28, <1>29, <1>30, <1>31,
     <1>32, <1>33, <1>34, <1>35
     DEF Step, CheckoutStep, CheckpointStep, WorktreeStep

\* The update that is reported as newer was compared with the commit reported.
LEMMA NewerStep ==
    TypeOK /\ PlaceInv /\ NewerInv /\ NewerIsDescendant /\ [Next]_vars
    => NewerInv' /\ NewerIsDescendant'
<1> SUFFICES ASSUME TypeOK, PlaceInv, NewerInv, NewerIsDescendant, [Next]_vars,
                    NEW q \in Proc
             PROVE  /\ pc'[q] = "ancestry" => seen'[q] # other'[q]
                    /\ result'[q] = "newer" =>
                          seen'[q] # other'[q] /\ IsAncestor(seen'[q], other'[q])
  BY DEF NewerInv, NewerIsDescendant
<1>a. /\ pc[q] = "ancestry" => seen[q] # other[q]
      /\ result[q] = "newer" => seen[q] # other[q] /\ IsAncestor(seen[q], other[q])
  BY DEF NewerInv, NewerIsDescendant
<1>1. CASE UNCHANGED <<pc[q], result[q], seen[q], other[q]>>
  BY <1>1, <1>a
<1>2. CASE Step(q)
  <2>1. ASSUME pc'[q] = "ancestry" PROVE seen'[q] # other'[q]
    <3>1. Candidate(q)
      BY <1>2, <2>1, Table DEF Goes
    <3> QED
      BY <2>1, <3>1 DEF Candidate, Finish, Stop, Goto, PlaceInv, TypeOK
  <2>2. ASSUME result'[q] = "newer"
        PROVE  seen'[q] # other'[q] /\ IsAncestor(seen'[q], other'[q])
    <3>1. Ancestry(q) /\ pc[q] = "ancestry"
      BY <1>2, <2>2, StepResult, Table DEF ResultEffect, Goes
    <3> QED
      BY <1>a, <2>2, <3>1
         DEF Ancestry, Return, Finish, Stop, memVars, readVars, TypeOK
  <2> QED
    BY <2>1, <2>2
<1>3. CASE Abort(q)
  BY <1>3, AbortEffect DEF PlaceInv, TypeOK
<1> QED
  BY <1>1, <1>2, <1>3, StepOwnEffect, AbortEffect, UserEffect
     DEF Next, OwnEffect, Own, vars, procVars, memVars, readVars

-------------------------------------------------------------------------------
(* Tags, checkpoints and what a rollback reads *)

LEMMA NameStep == TypeOK /\ PlaceInv /\ NameInv /\ [Next]_vars => NameInv'
<1> SUFFICES ASSUME TypeOK, PlaceInv, NameInv, [Next]_vars, NEW q \in Proc,
                    op'[q] \in {"checkpoint", "rollback"}, result'[q] \in {"none", "ok"}
             PROVE  name'[q] \in Tag
  BY DEF NameInv
<1>1. CASE UNCHANGED <<op[q], result[q], name[q]>>
  BY <1>1 DEF NameInv
<1>2. CASE Begin(q)
  <2>1. PICK o \in Op : /\ op' = [op EXCEPT ![q] = o]
                       /\ IF o \in {"checkpoint", "rollback"}
                          THEN \E t \in Tag : name' = [name EXCEPT ![q] = t]
                          ELSE UNCHANGED name
    BY <1>2 DEF Begin
  <2>2. o \in {"checkpoint", "rollback"}
    BY <2>1 DEF TypeOK
  <2> QED
    BY <2>1, <2>2 DEF TypeOK
<1>3. CASE Step(q) /\ ~Begin(q)
  <2>1. pc[q] \notin {"idle", "returned"} /\ op'[q] = op[q]
    BY <1>3, StepKind DEF Kind, Onward, Finish
  <2>2. name'[q] = name[q] /\ result[q] = "none"
    BY <1>3, <2>1, StepResult DEF ResultEffect, PlaceInv, PlaceOf
  <2> QED
    BY <2>1, <2>2 DEF NameInv
<1>4. CASE Abort(q)
  BY <1>4, AbortEffect DEF TypeOK
<1> QED
  BY <1>1, <1>2, <1>3, <1>4, StepOwnEffect, AbortEffect, UserEffect
     DEF Next, OwnEffect, Own, vars, procVars, memVars, readVars

\* A tag that is there stays as it is; a new one is at the HEAD of then.
LEMMA TagsStay ==
    ASSUME TypeOK, PlaceInv, [Next]_vars, NEW t \in Tag
    PROVE  \/ tags'[t] = tags[t]
           \/ tags[t] = NoTag /\ \E w \in Proc \cup {NoProc} : tags'[t] = [at |-> Head, by |-> w]
<1>1. ASSUME NEW p \in Proc, CreateTag(p)
      PROVE  \/ tags'[t] = tags[t]
             \/ tags[t] = NoTag /\ tags'[t] = [at |-> Head, by |-> p]
  BY <1>1 DEF CreateTag, TypeOK
<1>2. ASSUME NEW u \in Tag, UserTag(u)
      PROVE  \/ tags'[t] = tags[t]
             \/ tags[t] = NoTag /\ tags'[t] = [at |-> Head, by |-> NoProc]
  BY <1>2 DEF UserTag, TypeOK
<1>3. ASSUME NEW p \in Proc, Step(p), ~CreateTag(p) PROVE tags' = tags
  <2>1. pc[p] # "tag"
    BY <1>3, Table DEF Goes
  <2> QED
    BY <1>3, <2>1, StepRepoEffect DEF RepoEffect
<1>4. ASSUME NEW p \in Proc, Abort(p) PROVE tags' = tags
  BY <1>4 DEF Abort, repoVars
<1>5. CASE UNCHANGED tags
  BY <1>5
<1> QED
  BY <1>1, <1>2, <1>3, <1>4, <1>5
     DEF Next, User, Edit, UserCommit, Upstream, UserSwitch, UserFiles, UserMkdir,
         vars, repoVars

LEMMA TagsStep == TypeOK /\ PlaceInv /\ TagsInv /\ [Next]_vars => TagsInv'
<1> SUFFICES ASSUME TypeOK, PlaceInv, TagsInv, [Next]_vars, NEW t \in Tag, tags'[t] # NoTag
             PROVE  tags'[t].at \in Commit
  BY DEF TagsInv, NoTag
<1>1. Head \in Commit
  BY TypeParts, HeadType
<1>2. CASE tags'[t] = tags[t]
  BY <1>2 DEF TagsInv
<1>3. ASSUME NEW w, tags'[t] = [at |-> Head, by |-> w] PROVE tags'[t].at \in Commit
  BY <1>1, <1>3
<1> QED
  BY <1>2, <1>3, TagsStay

LEMMA TagStep ==
    TypeOK /\ PlaceInv /\ NameInv /\ TagInv /\ [Next]_vars => TagInv'
<1> DEFINE Made(p) == tags[name[p]] # NoTag /\ tags[name[p]].by = p
           Reports(p) == tags[name[p]] = [at |-> seen[p], by |-> p]
<1> SUFFICES ASSUME TypeOK, PlaceInv, NameInv, TagInv, [Next]_vars, NEW q \in Proc
             PROVE  /\ pc'[q] \in {"target", "describe"} => Made(q)'
                    /\ pc'[q] = "describe" \/ Checkpointed(q)' => Reports(q)'
  BY DEF TagInv, NoTag
<1>a. /\ pc[q] \in {"target", "describe"} => Made(q)
      /\ pc[q] = "describe" \/ Checkpointed(q) => Reports(q)
  BY DEF TagInv
<1>b. Reports(q) => tags[name[q]] # NoTag
  BY GitAssumption DEF NoTag
<1>c. /\ pc[q] \in {"target", "describe"} => name[q] \in Tag
      /\ Checkpointed(q) => name[q] \in Tag
  BY DEF NameInv, PlaceInv, PlaceOf, Tagging, Validating, CheckoutLabel, Checkpointed
<1>1. CASE UNCHANGED <<op[q], pc[q], result[q], name[q], seen[q]>>
  <2>1. ASSUME name[q] \in Tag, tags[name[q]] # NoTag PROVE tags'[name[q]] = tags[name[q]]
    BY <2>1, TagsStay
  <2>2. pc[q] \in {"target", "describe"} => Made(q)'
    BY <1>1, <1>a, <1>c, <2>1
  <2>3. pc[q] = "describe" \/ Checkpointed(q) => Reports(q)'
    BY <1>1, <1>a, <1>b, <1>c, <2>1
  <2> QED
    BY <1>1, <2>2, <2>3 DEF Checkpointed
<1>2. CASE Step(q)
  <2> USE DEF Go, Move, Goto, End, Return, Finish, Stop, memVars, readVars, PlaceInv, TypeOK
  <2>1. ASSUME pc'[q] = "target" PROVE Made(q)'
    <3>1. CreateTag(q) /\ name[q] \in Tag
      BY <1>2, <2>1, Table DEF Goes, NameInv, PlaceOf, Tagging
    <3>2. /\ name' = name
          /\ tags' = [tags EXCEPT ![name[q]] = [at |-> Head, by |-> q]]
      BY <2>1, <3>1 DEF CreateTag
    <3>3. tags'[name'[q]] = [at |-> Head, by |-> q]
      BY <3>1, <3>2
    <3> QED
      BY <3>3, GitAssumption DEF NoTag
  <2>2. ASSUME pc'[q] = "describe" PROVE Made(q)' /\ Reports(q)'
    <3>1. TagTarget(q) /\ pc[q] = "target"
      BY <1>2, <2>2, Table DEF Goes
    <3>2. /\ name' = name /\ seen' = seen /\ tags' = tags
          /\ tags[name[q]].at = seen[q]
      BY <2>2, <3>1 DEF TagTarget, repoVars
    <3>3. tags[name[q]] \in [at : MaybeCommit, by : Proc \cup {NoProc}] /\ Made(q)
      BY <1>a, <1>c, <3>1
    <3> QED
      BY <3>2, <3>3
  <2>3. ASSUME Checkpointed(q)' PROVE Reports(q)'
    <3>1. ~Begin(q)
      BY <2>3 DEF Begin, PlaceOf, Checkpointed
    <3>2. op[q] = "checkpoint" /\ pc[q] \notin {"idle", "returned"}
      BY <1>2, <2>3, <3>1, StepKind DEF Kind, Onward, Checkpointed, PlaceOf
    <3>3. pc[q] = "describe" /\ Describe(q)
      BY <1>2, <2>3, <3>2, StepResult, Table
         DEF ResultEffect, Goes, Checkpointed, PlaceOf, CheckoutLabel, RollbackLabel
    <3>4. UNCHANGED <<name, seen, tags>>
      BY <2>3, <3>3 DEF Describe, Checkpointed, repoVars
    <3> QED
      BY <1>a, <3>3, <3>4
  <2> QED
    BY <2>1, <2>2, <2>3
<1>3. CASE Abort(q)
  BY <1>3, AbortEffect DEF PlaceInv, TypeOK, Checkpointed
<1> QED
  BY <1>1, <1>2, <1>3, StepOwnEffect, AbortEffect, UserEffect
     DEF Next, OwnEffect, Own, vars, procVars, memVars, readVars

\* A checkpoint under which HEAD moves is remembered.
LEMMA HeadStays ==
    ASSUME TypeOK, PlaceInv, [Next]_vars, NEW q \in Proc,
           op[q] = "checkpoint", Busy(q), q \notin moved'
    PROVE  Head' = Head
<1>a. ASSUME NEW c, Disturb(c) PROVE c = Head
  BY <1>a DEF Disturb
<1>1. ASSUME NEW p \in Proc, Step(p) PROVE Head' = Head
  <2>1. CASE UNCHANGED headVars
    BY <2>1 DEF headVars, Head
  <2>2. CASE Clone(p)
    BY <1>a, <2>2 DEF Clone, GoAt, Head, Branch, headVars
  <2>3. CASE CheckoutMain(p)
    BY <1>a, <2>3 DEF CheckoutMain, SwitchTo, GoAt, Head
  <2>4. CASE Merge(p)
    <3>1. CASE FastForward(want[p]) /\ GoAt(p, "after", want[p])
      <4>1. tip' = [tip EXCEPT ![branch] = want[p]] /\ branch' = branch /\ want[p] = Head
        BY <1>a, <2>4, <3>1 DEF Merge, FastForward, GoAt
      <4> QED
        BY <4>1 DEF Head, TypeOK
    <3>2. CASE UNCHANGED tip /\ branch' = branch
      BY <3>2 DEF Head
    <3> QED
      BY <2>4, <3>1, <3>2 DEF Merge
  <2> QED
    BY <1>1, <2>1, <2>2, <2>3, <2>4, StepRepoEffect, Table DEF RepoEffect, Goes
<1>2. ASSUME NEW p \in Proc, Abort(p) PROVE Head' = Head
  BY <1>2 DEF Abort, repoVars, headVars, Head
<1>3. ASSUME NEW c \in Commit, UserCommit(c) PROVE Head' = Head
  <2>1. tip' = [tip EXCEPT ![branch] = c] /\ branch' = branch /\ c = Head
    BY <1>a, <1>3 DEF UserCommit
  <2> QED
    BY <2>1 DEF Head, TypeOK
<1>4. ASSUME NEW b \in Branch, UserSwitch(b) PROVE Head' = Head
  BY <1>a, <1>4 DEF UserSwitch, SwitchTo, Head
<1>5. CASE UNCHANGED headVars
  BY <1>5 DEF headVars, Head
<1> QED
  BY <1>1, <1>2, <1>3, <1>4, <1>5
     DEF Next, User, Edit, Upstream, UserTag, UserFiles, UserMkdir, vars, repoVars, headVars, Head

\* That HEAD moved under a process is not forgotten.
LEMMA MovedGrows ==
    ASSUME TypeOK, PlaceInv, [Next]_vars
    PROVE  moved \subseteq moved'
<1>1. ASSUME NEW c, Disturb(c) PROVE moved \subseteq moved'
  BY <1>1 DEF Disturb
<1> QED
  BY <1>1, StepOwnEffect, AbortEffect
     DEF Next, OwnEffect, User, Edit, UserCommit, Upstream, UserSwitch, UserTag,
         UserFiles, UserMkdir, vars

PathsOf(p) ==
    op[p] = "checkpoint" /\ p \notin moved =>
        /\ pc[p] \in Validating /\ group[p] = 2 => Present(Head, Groups[1])
        /\ pc[p] = "head-path" => Present(Head, Groups[group[p]] \ todo[p])
        /\ pc[p] \in Validating \ {"head-path"} => Present(Head, Groups[group[p]])
        /\ pc[p] = "head" => Present(Head, Groups[1] \cup Groups[2])
        /\ pc[p] \in Tagging \/ result[p] = "ok" => Present(seen[p], Groups[1] \cup Groups[2])

\* Validating looks at every declared path, of one group after the other.
LEMMA PathsStep ==
    TypeOK /\ PlaceInv /\ PathsInv /\ [Next]_vars => PathsInv'
<1> SUFFICES ASSUME TypeOK, PlaceInv, PathsInv, [Next]_vars, NEW q \in Proc,
                    op'[q] = "checkpoint", q \notin moved'
             PROVE  PathsOf(q)'
  BY DEF PathsInv, PathsOf, Present
<1>a. q \notin moved
  BY MovedGrows
<1>b. PathsOf(q)
  BY DEF PathsInv, PathsOf
<1>c. op[q] = "checkpoint" /\ Busy(q) => Head' = Head
  BY HeadStays
<1>1. CASE UNCHANGED <<op[q], pc[q], result[q], group[q], todo[q], seen[q]>>
  <2>1. CASE Busy(q)
    BY <1>1, <1>a, <1>b, <1>c, <2>1 DEF PathsOf, Present
  <2>2. CASE ~Busy(q)
    <3>1. pc[q] \notin Validating \cup Tagging \cup {"head"}
      BY <2>2 DEF PlaceInv, PlaceOf, Busy, Validating, Tagging
    <3> QED
      BY <1>1, <1>a, <1>b, <3>1 DEF PathsOf, Present, Validating
  <2> QED
    BY <2>1, <2>2
<1>2. CASE Begin(q)
  <2>1. pc'[q] = "head-path" /\ group'[q] = 1 /\ todo'[q] = Groups[1] /\ result'[q] = "none"
    <3>1. PICK o \in Op :
            /\ op' = [op EXCEPT ![q] = o] /\ Goto(q, Entry(o))
            /\ todo' = [todo EXCEPT ![q] = IF o \in {"checkpoint", "rollback"} THEN Groups[1] ELSE {}]
      BY <1>2 DEF Begin
    <3>2. o = "checkpoint"
      BY <3>1 DEF TypeOK
    <3>3. group[q] = 1 /\ group' = group /\ result[q] = "none" /\ result' = result
      BY <1>2 DEF Begin, PlaceInv, PlaceOf
    <3> QED
      BY <3>1, <3>2, <3>3 DEF Goto, Entry, TypeOK, PlaceInv
  <2> QED
    BY <2>1 DEF PathsOf, Present, Validating, Tagging
<1>3. CASE Step(q) /\ ~Begin(q)
  <2>1. op[q] = "checkpoint" /\ pc[q] \notin {"idle", "returned"} /\ result[q] = "none"
    BY <1>3, StepKind DEF Kind, Onward, Finish, PlaceInv, PlaceOf
  <2>2. Head' = Head /\ Busy(q)
    BY <1>c, <2>1 DEF Busy
  <2>3. /\ pc[q] \in Validating /\ group[q] = 2 => Present(Head, Groups[1])
        /\ pc[q] = "head-path" => Present(Head, Groups[group[q]] \ todo[q])
        /\ pc[q] \in Validating \ {"head-path"} => Present(Head, Groups[group[q]])
        /\ pc[q] = "head" => Present(Head, Groups[1] \cup Groups[2])
        /\ pc[q] \in Tagging => Present(seen[q], Groups[1] \cup Groups[2])
    BY <1>a, <1>b, <2>1 DEF PathsOf
  <2>4. \A S : Present(Head, S)' <=> Present(Head, S)
    BY <2>2 DEF Present
  <2>5. pc[q] \in Validating \cup Tagging \cup {"head"}
    BY <2>1 DEF PlaceInv, PlaceOf, Label, CheckoutLabel, Advancing, RollbackLabel,
               CreateLabel, CleanupLabel
  <2>6. group[q] \in 1..3 /\ (pc[q] \in Validating => group[q] \in {1, 2})
    BY DEF TypeOK, PlaceInv, PlaceOf
  <2> USE DEF Go, Move, Goto, End, Return, Finish, Stop, memVars, readVars, checkVars
  <2>7. CASE result'[q] # "none" /\ result'[q] # "ok"
    <3>1. pc'[q] = "returned"
      BY <1>3, <2>7, PlaceStep DEF PlaceInv, PlaceOf
    <3> QED
      BY <2>7, <3>1 DEF PathsOf, Validating, Tagging
  <2>8. ASSUME HeadPath(q), result'[q] \in {"none", "ok"} PROVE PathsOf(q)'
    <3>1. result'[q] # "error" /\ result'[q] = "none" /\ group' = group
      BY <2>1, <2>8 DEF HeadPath, TypeOK
    <3>2. CASE pc'[q] = "diff"
      <4>1. todo[q] = {}
        BY <2>8, <3>1, <3>2 DEF HeadPath, TypeOK, PlaceInv
      <4> QED
        BY <2>3, <2>4, <2>8, <3>1, <3>2, <4>1
           DEF HeadPath, At, PathsOf, Validating, Tagging
    <3>3. CASE pc'[q] = "head-path"
      <4>1. PICK x \in todo[q] : Tree[Head][x] # "absent" /\ todo'[q] = todo[q] \ {x}
        BY <2>8, <3>1, <3>3 DEF HeadPath, TypeOK, PlaceInv
      <4>2. Present(Head, Groups[group[q]] \ todo'[q])
        BY <2>3, <2>8, <4>1 DEF Present, HeadPath, At
      <4>3. group[q] = 2 => Present(Head, Groups[1])
        BY <2>3, <2>8 DEF HeadPath, At, Validating
      <4> QED
        BY <2>2, <3>1, <3>3, <4>2, <4>3 DEF PathsOf, Present, Tagging
    <3> QED
      BY <2>8, <3>1, <3>2, <3>3, Table, <1>3
         DEF HeadPath, At, Goes, PlaceInv, TypeOK
  <2>9. ASSUME Diff(q) \/ DiffCached(q), result'[q] \in {"none", "ok"} PROVE PathsOf(q)'
    <3>1. result'[q] # "error" /\ result'[q] = "none"
      BY <2>1, <2>9 DEF Diff, DiffCached, TypeOK
    <3>2. group' = group /\ pc'[q] \in {"diff-cached", "next-group"} /\ pc[q] \in Validating \ {"head-path"}
      BY <2>9, <3>1 DEF Diff, DiffCached, TypeOK, PlaceInv, At, Validating
    <3> QED
      BY <2>2, <2>3, <3>1, <3>2 DEF PathsOf, Present, Tagging
  <2>10. CASE NextGroup(q)
    <3>1. pc[q] = "next-group" /\ result'[q] = "none" /\ group'[q] = group[q] + 1
      BY <2>1, <2>10 DEF NextGroup, At, TypeOK
    <3>2. CASE group[q] = 1
      <4>1. pc'[q] = "head-path" /\ todo'[q] = Groups[2] /\ group'[q] = 2
        BY <2>10, <3>1, <3>2 DEF NextGroup, TypeOK, PlaceInv
      <4>2. Present(Head, Groups[1])
        BY <2>3, <3>1, <3>2 DEF Validating
      <4> QED
        BY <2>2, <3>1, <4>1, <4>2 DEF PathsOf, Present, Tagging
    <3>3. CASE group[q] = 2
      <4>1. pc'[q] = "head"
        BY <2>10, <3>3 DEF NextGroup, PlaceInv
      <4>2. Present(Head, Groups[1]) /\ Present(Head, Groups[2])
        BY <2>3, <3>1, <3>3 DEF Validating
      <4> QED
        BY <2>2, <3>1, <4>1, <4>2 DEF PathsOf, Present, Validating, Tagging
    <3> QED
      BY <2>6, <3>1, <3>2, <3>3 DEF Validating
  <2>11. CASE TagHead(q)
    <3>1. pc[q] = "head" /\ pc'[q] = "existing" /\ seen'[q] = Head
      BY <2>11 DEF TagHead, At, TypeOK, PlaceInv
    <3> QED
      BY <2>3, <3>1 DEF PathsOf, Present, Validating
  <2>12. ASSUME pc[q] \in Tagging, result'[q] \in {"none", "ok"} PROVE PathsOf(q)'
    <3>1. ExistingTag(q) \/ CreateTag(q) \/ TagTarget(q) \/ Describe(q)
      BY <1>3, <2>12, Table DEF Goes, Tagging
    <3>2. seen' = seen
      BY <2>12, <3>1 DEF ExistingTag, CreateTag, TagTarget, Describe, TypeOK
    <3>3. pc'[q] \in Tagging \cup {"returned"}
      BY <1>3, <2>12, Table DEF Goes, Tagging
    <3> QED
      BY <2>3, <2>12, <3>2, <3>3 DEF PathsOf, Present, Validating, Tagging
  <2> QED
    BY <1>3, <2>5, <2>7, <2>8, <2>9, <2>10, <2>11, <2>12, Table
       DEF Goes, Validating, ReadHead
<1>4. CASE Abort(q)
  BY <1>4, AbortEffect DEF PlaceInv, TypeOK, PathsOf, Validating, Tagging
<1> QED
  BY <1>1, <1>2, <1>3, <1>4, StepOwnEffect, AbortEffect, UserEffect
     DEF Next, OwnEffect, Own, vars, procVars, memVars, readVars, checkVars

\* What a rollback has read stays what its tag says, path by path.
ReadOf(p) ==
    /\ pc[p] = "show" /\ Groups[1] # todo[p] => ReadIs(p, Groups[1] \ todo[p])
    /\ pc[p] = "show" => todo[p] \subseteq Groups[1]
    /\ \/ pc[p] \in {"relock", "reapply"}
       \/ op[p] = "rollback" /\ result[p] = "ok"
       => ReadIs(p, Groups[1])

LEMMA ReadStep ==
    TypeOK /\ PlaceInv /\ NameInv /\ ReadInv /\ [Next]_vars => ReadInv'
<1> SUFFICES ASSUME TypeOK, PlaceInv, NameInv, ReadInv, [Next]_vars, NEW q \in Proc
             PROVE  ReadOf(q)'
  BY DEF ReadInv, ReadOf
<1>b. ReadOf(q)
  BY DEF ReadInv, ReadOf
<1>c. \/ pc[q] \in {"show", "relock", "reapply"}
      \/ op[q] = "rollback" /\ result[q] = "ok"
      => name[q] \in Tag
  BY DEF NameInv, PlaceInv, PlaceOf, RollbackLabel
<1>d. ASSUME name[q] \in Tag, NEW S, ReadIs(q, S), name'[q] = name[q], files'[q] = files[q]
      PROVE  ReadIs(q, S)'
  BY <1>d, TagsStay DEF ReadIs, NoTag
<1>1. CASE UNCHANGED <<op[q], pc[q], result[q], todo[q], name[q], files[q]>>
  BY <1>1, <1>b, <1>c, <1>d DEF ReadOf
<1>2. CASE Begin(q)
  <2>1. PICK o \in Op :
          /\ op' = [op EXCEPT ![q] = o] /\ Goto(q, Entry(o))
          /\ todo' = [todo EXCEPT ![q] = IF o \in {"checkpoint", "rollback"} THEN Groups[1] ELSE {}]
    BY <1>2 DEF Begin
  <2>2. op'[q] = o /\ pc'[q] = Entry(o) /\ result'[q] = "none"
    BY <1>2, <2>1 DEF Begin, Goto, TypeOK, PlaceInv, PlaceOf
  <2>3. pc'[q] \notin {"relock", "reapply"}
    BY <2>2 DEF Entry, Op
  <2>4. pc'[q] = "show" => todo'[q] = Groups[1]
    BY <2>1, <2>2 DEF Entry, Op, TypeOK
  <2> QED
    BY <2>2, <2>3, <2>4 DEF ReadOf
<1>3. CASE Step(q) /\ ~Begin(q)
  <2>1. op'[q] = op[q] /\ pc[q] \notin {"idle", "returned"} /\ result[q] = "none"
    BY <1>3, StepKind DEF Kind, Onward, Finish, PlaceInv, PlaceOf
  <2>a. tags' = tags \/ pc[q] = "tag"
    BY <1>3, StepRepoEffect DEF RepoEffect
  <2> USE DEF Go, Move, Goto, End, Return, Finish, Stop, memVars, readVars, checkVars
  <2>2. CASE pc[q] = "show"
    <3>1. Show(q) /\ tags' = tags /\ name[q] \in Tag
      BY <1>3, <1>c, <2>a, <2>2, Table DEF Goes
    <3>2. CASE Go(q, "relock") /\ todo[q] = {}
      <4>1. ReadIs(q, Groups[1])
        BY <1>b, <2>2, <3>2, GitAssumption DEF ReadOf
      <4>2. ReadIs(q, Groups[1])'
        BY <3>1, <3>2, <4>1 DEF ReadIs, NoTag
      <4>3. pc'[q] = "relock" /\ result'[q] = "none"
        BY <2>1, <3>2 DEF PlaceInv
      <4> QED
        BY <4>2, <4>3 DEF ReadOf
    <3>3. ASSUME NEW x \in todo[q], tags[name[q]] # NoTag,
                 ShownIs(q, x, Tree[tags[name[q]].at][x])
          PROVE  ReadOf(q)'
      <4>1. /\ name' = name /\ todo'[q] = todo[q] \ {x} /\ pc'[q] = "show"
            /\ result'[q] = "none"
        BY <2>1, <3>3 DEF ShownIs, TypeOK, PlaceInv
      <4>2. /\ files'[q][x] = Tree[tags[name[q]].at][x]
            /\ \A y \in Path \ {x} : files'[q][y] = files[q][y]
        BY <3>3 DEF ShownIs, TypeOK
      <4>3. todo[q] \subseteq Groups[1] /\ Groups[1] \subseteq Path
        BY <1>b, <2>2, GitAssumption DEF ReadOf
      <4>4. \A y \in Groups[1] \ todo[q] : files[q][y] = Tree[tags[name[q]].at][y]
        BY <1>b, <2>2 DEF ReadOf, ReadIs
      <4>5. \A y \in Groups[1] \ todo'[q] : files'[q][y] = Tree[tags[name[q]].at][y]
        BY <4>1, <4>2, <4>3, <4>4
      <4>6. ReadIs(q, Groups[1] \ todo[q])'
        BY <3>1, <3>3, <4>1, <4>5 DEF ReadIs, NoTag
      <4> QED
        BY <4>1, <4>3, <4>6 DEF ReadOf
    <3>4. CASE End(q, "error")
      BY <2>1, <3>4 DEF ReadOf, TypeOK, PlaceInv
    <3> QED
      BY <3>1, <3>2, <3>3, <3>4 DEF Show
  <2>3. CASE pc[q] \in {"relock", "reapply"}
    <3>1. Relock(q) \/ Reapply(q)
      BY <1>3, <2>3, Table DEF Goes
    <3>2. pc'[q] \in {"reapply", "returned"}
      BY <1>3, <2>3, Table DEF Goes
    <3>3. result'[q] = "error" \/ (name' = name /\ files' = files)
      BY <3>1 DEF Relock, Reapply, TypeOK
    <3>4. name'[q] = name[q] /\ files'[q] = files[q] => ReadIs(q, Groups[1])'
      BY <1>b, <1>c, <1>d, <2>3 DEF ReadOf
    <3>5. result'[q] = "error" => pc'[q] = "returned"
      BY <2>1, <3>1 DEF Relock, Reapply, TypeOK, PlaceInv
    <3> QED
      BY <3>2, <3>3, <3>4, <3>5 DEF ReadOf
  <2>4. CASE pc[q] \notin {"show", "relock", "reapply"}
    <3>1. op[q] # "rollback"
      <4>1. pc[q] \in CheckoutLabel \cup Validating \cup Tagging \cup CreateLabel
                       \cup CleanupLabel
        BY <2>1, <2>4 DEF PlaceInv, Label, RollbackLabel
      <4> QED
        BY <4>1 DEF PlaceInv, PlaceOf
    <3>2. pc'[q] \notin {"show", "relock", "reapply"}
      BY <1>3, <2>1, <2>4, Table DEF Goes
    <3> QED
      BY <2>1, <3>1, <3>2 DEF ReadOf
  <2> QED
    BY <2>2, <2>3, <2>4
<1>4. CASE Abort(q)
  BY <1>4, AbortEffect DEF PlaceInv, TypeOK, ReadOf
<1> QED
  BY <1>1, <1>2, <1>3, <1>4, StepOwnEffect, AbortEffect, UserEffect
     DEF Next, OwnEffect, Own, vars, procVars, memVars, readVars, checkVars

-------------------------------------------------------------------------------
(* The worktree and its marker *)

\* An operation that begins beside another is noticed.
LEMMA SerialStep == TypeOK /\ PlaceInv /\ SerialInv /\ [Next]_vars => SerialInv'
<1> DEFINE InHand(p) == Busy(p) /\ op[p] \in WorktreeOp
<1> SUFFICES ASSUME TypeOK, PlaceInv, SerialInv, [Next]_vars, ~crowded',
                    NEW p \in Proc, NEW q \in Proc, InHand(p)', InHand(q)', p # q
             PROVE  FALSE
  BY DEF SerialInv
<1>a. ~crowded => ~InHand(p) \/ ~InHand(q)
  BY DEF SerialInv
<1>1. ASSUME NEW r \in Proc, Step(r) PROVE FALSE
  <2>1. \A s \in Proc \ {r} : InHand(s)' => InHand(s)
    BY <1>1, StepOwnEffect DEF OwnEffect, Own, Busy
  <2>2. CASE Begin(r)
    <3>1. PICK o \in Op : /\ op' = [op EXCEPT ![r] = o]
                          /\ crowded' = (crowded \/ (o \in WorktreeOp /\ \E s \in Proc : InHand(s)))
      BY <2>2 DEF Begin
    <3>2. op'[r] = o
      BY <3>1 DEF TypeOK
    <3> QED
      BY <1>a, <2>1, <3>1, <3>2
  <2>3. CASE ~Begin(r)
    <3>1. ~crowded
      BY <1>1, <2>3, StepRepoEffect DEF RepoEffect
    <3>2. pc[r] \notin {"idle", "returned"} /\ op'[r] = op[r]
      BY <1>1, <2>3, StepKind DEF Kind, Onward, Finish
    <3>3. InHand(r)' => InHand(r)
      BY <3>2 DEF PlaceInv, PlaceOf, Busy
    <3> QED
      BY <1>a, <2>1, <3>1, <3>3
  <2> QED
    BY <2>2, <2>3
<1>2. ASSUME NEW r \in Proc, Abort(r) PROVE FALSE
  <2>1. ~crowded /\ ~InHand(r)' /\ \A s \in Proc \ {r} : InHand(s)' => InHand(s)
    BY <1>2, AbortEffect DEF Own, Busy, TypeOK
  <2> QED
    BY <1>a, <2>1
<1>3. CASE UNCHANGED <<crowded, op, result>>
  BY <1>a, <1>3 DEF Busy
<1> QED
  BY <1>1, <1>2, <1>3, UserEffect DEF Next, vars, procVars, treeVars, histVars

LEMMA TreeStep ==
    TypeOK /\ PlaceInv /\ SerialInv /\ TreeInv /\ [Next]_vars => TreeInv'
<1> SUFFICES ASSUME TypeOK, PlaceInv, SerialInv, TreeInv, [Next]_vars
             PROVE  TreeInv'
  OBVIOUS
<1> DEFINE GoneOf(q) == pc[q] = "rm-marker" => wtOwner # "tool"
           SawOf(q) == pc[q] = "remove" => wtFiles \subseteq fresh[q]
           Marked == wtOwner = "tool" /\ ~marker => cut \/ \E p \in Proc : pc[p] = "marker"
<1>a. /\ \A q \in Proc : SawOf(q)
      /\ ~crowded => Marked /\ \A q \in Proc : GoneOf(q)
  BY DEF TreeInv, WorktreeKeepsItsMarkerIfSerial, At
<1>c. \A p \in Proc : pc'[p] = "marker" => At(p, "marker")'
  BY PlaceStep DEF PlaceInv, PlaceOf, At, Busy, CreateLabel
<1>d. ASSUME \A q \in Proc : SawOf(q)', ~crowded' => Marked' /\ \A q \in Proc : GoneOf(q)'
      PROVE  TreeInv'
  BY <1>c, <1>d DEF TreeInv, WorktreeKeepsItsMarkerIfSerial
<1>e. ASSUME ~crowded, NEW p \in Proc, NEW q \in Proc, p # q,
             pc[p] \in CreateLabel \cup CleanupLabel
      PROVE  pc[q] \notin CreateLabel \cup CleanupLabel
  <2>1. \A s \in {p, q} : pc[s] \in CreateLabel \cup CleanupLabel =>
          Busy(s) /\ op[s] \in WorktreeOp
    BY DEF PlaceInv, PlaceOf, CreateLabel, CleanupLabel, Busy, WorktreeOp
  <2> QED
    BY <1>e, <2>1 DEF SerialInv
<1> USE DEF Go, Move, Goto, End, Finish, Stop, treeVars, histVars
<1>1. ASSUME NEW p \in Proc, Step(p) PROVE TreeInv'
  <2>1. \A q \in Proc \ {p} : pc'[q] = pc[q]
    BY <1>1, StepOwnEffect DEF OwnEffect, Own
  <2>3. CASE WorktreeAdd(p)
    <3>1. /\ UNCHANGED <<marker, cut, crowded, fresh>> /\ pc[p] = "add"
          /\ pc'[p] \in {"marker", "returned"}
          /\ wtFiles' = wtFiles \/ wtFiles' = {}
      BY <2>3 DEF WorktreeAdd, At, PlaceInv
    <3>2. \/ pc'[p] = "marker"
          \/ wtOwner' = wtOwner /\ pc'[p] = "returned"
      BY <2>3 DEF WorktreeAdd, PlaceInv
    <3>3. ~crowded => \A q \in Proc \ {p} : pc[q] \notin {"rm-marker", "marker"}
      BY <1>e, <3>1 DEF CreateLabel, CleanupLabel
    <3>4. ~crowded => Marked'
      BY <1>a, <2>1, <3>1, <3>2
    <3>5. ~crowded => \A q \in Proc : GoneOf(q)'
      BY <2>1, <3>1, <3>3
    <3>6. \A q \in Proc : SawOf(q)'
      BY <1>a, <2>1, <3>1
    <3> QED
      BY <1>d, <3>1, <3>4, <3>5, <3>6
  <2>4. CASE WorktreeRemove(p)
    <3>1. /\ UNCHANGED <<marker, cut, crowded, fresh>> /\ pc[p] = "remove"
          /\ pc'[p] \in {"gone", "returned"}
          /\ wtFiles' = wtFiles \/ wtFiles' = {}
          /\ wtOwner' = wtOwner \/ wtOwner' = "none"
      BY <2>4 DEF WorktreeRemove, At, PlaceInv
    <3>2. \A q \in Proc : SawOf(q)'
      BY <1>a, <2>1, <3>1
    <3>3. ~crowded => Marked'
      BY <1>a, <2>1, <3>1
    <3>4. ~crowded => \A q \in Proc : GoneOf(q)'
      BY <1>a, <2>1, <3>1
    <3> QED
      BY <1>d, <3>1, <3>2, <3>3, <3>4
  <2>5. CASE EnsureMarker(p)
    <3>1. /\ marker' /\ UNCHANGED <<wtOwner, wtFiles, fresh, crowded>>
          /\ pc'[p] = "returned"
      BY <2>5 DEF EnsureMarker, PlaceInv
    <3>2. /\ \A q \in Proc : SawOf(q)'
          /\ ~crowded => \A q \in Proc : GoneOf(q)'
      BY <1>a, <2>1, <3>1
    <3> QED
      BY <1>d, <3>1, <3>2
  <2>6. CASE RemoveMarker(p)
    <3>1. /\ UNCHANGED <<wtOwner, wtFiles, fresh, crowded>> /\ pc'[p] = "returned"
          /\ ~crowded => wtOwner # "tool"
      BY <1>a, <2>6 DEF RemoveMarker, PlaceInv, At
    <3>2. /\ \A q \in Proc : SawOf(q)'
          /\ ~crowded => \A q \in Proc : GoneOf(q)'
      BY <1>a, <2>1, <3>1
    <3> QED
      BY <1>d, <3>1, <3>2
  <2>7. CASE CleanupStatus(p)
    <3>1. /\ UNCHANGED <<wtOwner, wtFiles, marker, cut, crowded>>
          /\ fresh' = [fresh EXCEPT ![p] = {}]
          /\ pc[p] = "wt-status" /\ pc'[p] \in {"remove", "returned"}
          /\ pc'[p] = "remove" => wtFiles = {}
      BY <2>7 DEF CleanupStatus, PlaceInv, At
    <3>2. \A q \in Proc : SawOf(q)'
      BY <1>a, <2>1, <3>1 DEF TypeOK
    <3>3. ~crowded => \A q \in Proc : GoneOf(q)'
      BY <1>a, <2>1, <3>1
    <3>4. ~crowded => Marked'
      BY <1>a, <2>1, <3>1
    <3> QED
      BY <1>d, <3>1, <3>2, <3>3, <3>4
  <2>8. CASE pc[p] \notin {"add", "remove", "marker", "rm-marker", "wt-status"}
    <3>1. UNCHANGED <<wtOwner, wtFiles, marker, fresh, cut>> /\ (crowded => crowded')
      BY <1>1, <2>8, StepRepoEffect DEF RepoEffect, Begin
    <3>2. pc'[p] = "rm-marker" => wtOwner = "none"
      <4>1. ASSUME pc'[p] = "rm-marker" PROVE ReallyGone(p)
        BY <1>1, <4>1, Table DEF Goes
      <4> QED
        BY <4>1 DEF ReallyGone, PlaceInv
    <3>3. pc'[p] # "remove"
      BY <1>1, <2>8, Table DEF Goes
    <3>4. /\ \A q \in Proc : SawOf(q)'
          /\ ~crowded => \A q \in Proc : GoneOf(q)'
      BY <1>a, <2>1, <3>1, <3>2, <3>3
    <3>5. ~crowded => Marked'
      BY <1>a, <2>1, <2>8, <3>1
    <3> QED
      BY <1>d, <3>1, <3>4, <3>5
  <2> QED
    BY <1>1, <2>3, <2>4, <2>5, <2>6, <2>7, <2>8, Table DEF Goes
<1>2. ASSUME NEW p \in Proc, Abort(p) PROVE TreeInv'
  <2>1. /\ UNCHANGED <<wtOwner, wtFiles, marker, fresh, crowded>>
        /\ cut' = (cut \/ pc[p] = "marker")
        /\ pc'[p] = "returned" /\ \A q \in Proc \ {p} : pc'[q] = pc[q]
    BY <1>2, AbortEffect DEF Own, PlaceInv
  <2>2. /\ \A q \in Proc : SawOf(q)'
        /\ ~crowded => \A q \in Proc : GoneOf(q)'
    BY <1>a, <2>1
  <2>3. ~crowded => Marked'
    BY <1>a, <2>1
  <2> QED
    BY <1>d, <2>1, <2>2, <2>3
<1>3. ASSUME NEW f \in UserFile, UserFiles(f) PROVE TreeInv'
  <2>1. UNCHANGED <<wtOwner, marker, cut, crowded, pc>> /\ wtFiles' = wtFiles \cup {f}
    BY <1>3 DEF UserFiles, procVars
  <2>2. \A q \in Proc : pc[q] = "remove" => fresh'[q] = fresh[q] \cup {f}
    BY <1>3 DEF UserFiles, At, Busy, PlaceInv, PlaceOf, CleanupLabel
  <2>3. \A q \in Proc : SawOf(q)'
    BY <1>a, <2>1, <2>2
  <2> QED
    BY <1>a, <1>d, <2>1, <2>3
<1>4. CASE UserMkdir
  <2>1. wtOwner' = "user" /\ UNCHANGED <<pc, wtFiles, fresh, crowded>>
    BY <1>4 DEF UserMkdir, procVars
  <2> QED
    BY <1>a, <1>d, <2>1
<1>5. CASE UNCHANGED <<treeVars, pc>>
  BY <1>a, <1>d, <1>5
<1> QED
  BY <1>1, <1>2, <1>3, <1>4, <1>5
     DEF Next, User, Edit, UserCommit, Upstream, UserSwitch, UserTag, procVars, vars

-------------------------------------------------------------------------------
(* The theorems *)

LEMMA InitInv == Init => IInv
<1> SUFFICES ASSUME Init PROVE IInv
  OBVIOUS
<1> USE GitAssumption DEF Init
<1>1. RepoOK
  <2>1. tip["main"] \in Commit
    BY DEF Branch
  <2>2. Tree[tip["main"]] \in [Path -> Content]
    BY <2>1
  <2> QED
    BY <2>2 DEF RepoOK, Branch, NoTag, MaybeCommit
<1>2. ProcOK /\ TreeOK /\ CountOK
  <2>1. ProcOK
    <3>1. result \in [Proc -> Result]
      BY DEF Result
    <3> QED
      BY <3>1 DEF ProcOK
  <2>2. TreeOK
    BY DEF TreeOK, MaybeCommit
  <2>3. CountOK
    BY DEF CountOK
  <2> QED
    BY <2>1, <2>2, <2>3
<1>3. MemOK
  BY DEF MemOK, MaybeCommit
<1>4. PlaceInv
  BY DEF PlaceInv, PlaceOf, Label, CheckoutLabel, Advancing, Validating, Tagging,
         RollbackLabel, CreateLabel, CleanupLabel
<1>5. LockInv /\ NewerInv /\ NewerIsDescendant
  BY DEF LockInv, LockOf, Busy, NewerInv, NewerIsDescendant
<1>6. GraphInv
  BY DEF GraphInv, Advancing
<1>7. TagsInv /\ NameInv /\ TagInv
  BY DEF TagsInv, NameInv, TagInv, Checkpointed
<1>8. PathsInv /\ ReadInv /\ SerialInv /\ TreeInv
  BY DEF PathsInv, ReadInv, SerialInv, Busy, TreeInv, WorktreeKeepsItsMarkerIfSerial
<1> QED
  BY <1>1, <1>2, <1>3, <1>4, <1>5, <1>6, <1>7, <1>8, TypeParts DEF IInv

\* The invariant is inductive.
LEMMA IInvStep == IInv /\ [Next]_vars => IInv'
BY TypeStep, PlaceStep, LockStep, GraphStep, NewerStep, TagsStep, NameStep,
   TagStep, PathsStep, ReadStep, SerialStep, TreeStep DEF IInv

LEMMA Invariance == Spec => []IInv
BY InitInv, IInvStep, PTL DEF Spec

\* Every reachable state of the repository and its operations is well typed.
THEOREM TypeCorrect == Spec => []TypeOK
<1>1. IInv => TypeOK
  BY DEF IInv
<1> QED
  BY <1>1, Invariance, PTL

\* What is reported as newer descends from what is reported as current.
THEOREM NewerUpdatesDescend == Spec => []NewerIsDescendant
<1>1. IInv => NewerIsDescendant
  BY DEF IInv
<1> QED
  BY <1>1, Invariance, PTL

\* A checkpoint reports the tag that it made, at the commit that the tag is at.
THEOREM CheckpointsOwnTheirTag == Spec => []CheckpointTagsItsHead
<1>1. IInv => CheckpointTagsItsHead
  BY DEF IInv, TagInv, CheckpointTagsItsHead
<1> QED
  BY <1>1, Invariance, PTL

\* A tagged commit has every declared path, unless HEAD was moved meanwhile.
THEOREM CheckpointsAreComplete == Spec => []CheckpointHoldsPaths
<1>1. IInv => CheckpointHoldsPaths
  BY DEF IInv, PathsInv, Present, Checkpointed, CheckpointHoldsPaths
<1> QED
  BY <1>1, Invariance, PTL

\* A rollback reapplies the catalog of its tag, whole.
THEOREM RollbacksReadTheirTag == Spec => []RollbackReadsTheTag
<1>1. IInv => RollbackReadsTheTag
  BY DEF IInv, ReadInv, ReadIs, RollbackReadsTheTag
<1> QED
  BY <1>1, Invariance, PTL

\* As long as no two worktree operations ran at once, a worktree without a
\* marker is one whose creation was cut.
THEOREM SerialWorktreesKeepTheirMarker == Spec => []WorktreeKeepsItsMarkerIfSerial
<1>1. IInv => WorktreeKeepsItsMarkerIfSerial
  BY DEF IInv, TreeInv
<1> QED
  BY <1>1, Invariance, PTL

\* No step of the configurator changes a path that git knows to differ from HEAD.
THEOREM LocalChangesSurvive == Spec => EditsSurvive
<1>1. IInv /\ [Next]_vars =>
        [user' = user /\ cloned =>
           \A x \in LocalChanges : work'[x] = work[x] /\ staged'[x] = staged[x]]_vars
  <2> SUFFICES ASSUME IInv, [Next]_vars, user' = user, cloned, NEW x \in LocalChanges
               PROVE  work'[x] = work[x] /\ staged'[x] = staged[x]
    OBVIOUS
  <2>1. TypeOK /\ PlaceInv /\ x \in Path
    BY DEF IInv, LocalChanges, Dirty
  <2>2. ~User
    <3>1. user \in Nat
      BY <2>1, GitAssumption DEF TypeOK
    <3>2. ASSUME User PROVE user' = user + 1
      BY <3>2, UserEffect
    <3>3. user # user + 1
      BY <3>1
    <3> QED
      BY <3>2, <3>3
  <2>3. ASSUME NEW f, NEW c, NEW d, x \notin Changed(c, d) PROVE Moved(f, c, d)[x] = f[x]
    BY <2>1, <2>3 DEF Moved
  <2>4. ASSUME NEW p \in Proc, Step(p) PROVE work'[x] = work[x] /\ staged'[x] = staged[x]
    <3>1. CASE CheckoutMain(p)
      BY <2>3, <3>1 DEF CheckoutMain, CanSwitch, SwitchTo
    <3>2. CASE Merge(p)
      BY <2>3, <3>2 DEF Merge, CanFastForward, FastForward
    <3>3. CASE pc[p] \notin {"checkout", "merge"}
      BY <2>1, <2>4, <3>3, StepRepoEffect DEF RepoEffect, headVars
    <3> QED
      BY <2>1, <2>4, <3>1, <3>2, <3>3, Table DEF Goes
  <2>5. ASSUME NEW p \in Proc, Abort(p) PROVE work'[x] = work[x] /\ staged'[x] = staged[x]
    BY <2>5 DEF Abort, repoVars, headVars
  <2> QED
    BY <2>2, <2>4, <2>5 DEF Next, vars, repoVars, headVars
<1> QED
  BY <1>1, Invariance, PTL DEF Spec, EditsSurvive

\* No step of the configurator moves a branch but forward, to a commit that the
\* remote has.
THEOREM BranchesOnlyAdvance == Spec => OnlyFastForwards
<1>1. IInv /\ [Next]_vars =>
        [user' = user /\ cloned =>
           \A b \in Branch : tip'[b] # tip[b] =>
             IsAncestor(tip[b], tip'[b]) /\ IsAncestor(tip'[b], origin)]_vars
  <2> SUFFICES ASSUME IInv, [Next]_vars, user' = user, cloned,
                      NEW b \in Branch, tip'[b] # tip[b]
               PROVE  IsAncestor(tip[b], tip'[b]) /\ IsAncestor(tip'[b], origin)
    OBVIOUS
  <2>1. TypeOK /\ PlaceInv /\ GraphInv
    BY DEF IInv
  <2>2. ~User
    <3>1. user \in Nat
      BY <2>1, GitAssumption DEF TypeOK
    <3>2. ASSUME User PROVE user' = user + 1
      BY <3>2, UserEffect
    <3>3. user # user + 1
      BY <3>1
    <3> QED
      BY <3>2, <3>3
  <2>3. ASSUME NEW p \in Proc, Step(p)
        PROVE  IsAncestor(tip[b], tip'[b]) /\ IsAncestor(tip'[b], origin)
    <3>1. pc[p] \in {"checkout", "merge"}
      BY <2>1, <2>3, StepRepoEffect DEF RepoEffect, headVars
    <3>2. ~CheckoutMain(p)
      BY DEF CheckoutMain
    <3>3. Merge(p)
      BY <2>1, <2>3, <3>1, <3>2, Table DEF Goes
    <3>4. CanFastForward(want[p]) /\ tip' = [tip EXCEPT ![branch] = want[p]]
      BY <3>3 DEF Merge, FastForward
    <3>5. b = branch /\ tip'[b] = want[p] /\ IsAncestor(tip[b], want[p])
      BY <2>1, <3>4 DEF TypeOK, CanFastForward, Head
    <3>6. IsAncestor(want[p], tracked) /\ IsAncestor(tracked, origin) /\ origin \in Commit
      BY <2>1, <3>3 DEF Merge, At, GraphInv, Advancing, TypeOK
    <3> QED
      BY <3>5, <3>6, Ancestors
  <2>4. ASSUME NEW p \in Proc, Abort(p) PROVE FALSE
    BY <2>4 DEF Abort, repoVars, headVars
  <2> QED
    BY <2>2, <2>3, <2>4 DEF Next, vars, repoVars, headVars
<1> QED
  BY <1>1, Invariance, PTL DEF Spec, OnlyFastForwards

\* The only step that takes a worktree away is the removal of a cleanup that has
\* seen all the files in it, but those that came since.
THEOREM CleanupsKeepFiles == Spec => CleanupKeepsWhatItSaw
<1>1. IInv /\ [Next]_vars =>
        [wtOwner # "none" /\ wtOwner' = "none" =>
           \E p \in Proc : At(p, "remove") /\ wtFiles \subseteq fresh[p]]_vars
  <2> SUFFICES ASSUME IInv, [Next]_vars, wtOwner # "none", wtOwner' = "none"
               PROVE  \E p \in Proc : At(p, "remove") /\ wtFiles \subseteq fresh[p]
    OBVIOUS
  <2>1. PlaceInv /\ TreeInv
    BY DEF IInv
  <2>2. ASSUME NEW p \in Proc, Step(p) PROVE At(p, "remove") /\ wtFiles \subseteq fresh[p]
    <3>1. pc[p] \in {"add", "remove"}
      BY <2>1, <2>2, StepRepoEffect DEF RepoEffect
    <3>2. ~WorktreeAdd(p)
      BY DEF WorktreeAdd
    <3>3. WorktreeRemove(p)
      BY <2>1, <2>2, <3>1, <3>2, Table DEF Goes
    <3> QED
      BY <2>1, <3>3 DEF WorktreeRemove, At, TreeInv
  <2>3. ASSUME NEW p \in Proc, Abort(p) PROVE FALSE
    BY <2>3 DEF Abort
  <2>4. ~User
    BY DEF User, Edit, UserCommit, Upstream, UserSwitch, UserTag, UserFiles,
       UserMkdir, treeVars
  <2> QED
    BY <2>2, <2>3, <2>4 DEF Next, vars, treeVars
<1> QED
  BY <1>1, Invariance, PTL DEF Spec, CleanupKeepsWhatItSaw
===============================================================================
