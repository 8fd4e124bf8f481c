------------------------------ MODULE Worktree -------------------------------
(***************************************************************************)
(* internal/gitx/worktree.go: WorktreeManager.Create and Cleanup of one    *)
(* destination, with the marker beside it that says it is the tool's.      *)
(***************************************************************************)
EXTENDS GitRepo

CreateInspect(p) ==
    /\ At(p, "create")
    /\ IF wtOwner # "none" THEN End(p, IF marker THEN "reused" ELSE "error")
       ELSE IF marker \/ ~cloned THEN End(p, "error")
       ELSE Go(p, "add")
    /\ UNCHANGED <<repoVars, treeVars>>

\* git worktree add refuses a destination that exists by now.
WorktreeAdd(p) ==
    /\ At(p, "add")
    /\ IF wtOwner = "none"
       THEN wtOwner' = "tool" /\ wtAt' = want[p] /\ wtFiles' = {} /\ Go(p, "marker")
       ELSE End(p, "error") /\ UNCHANGED <<wtOwner, wtAt, wtFiles>>
    /\ UNCHANGED <<repoVars, marker, fresh, histVars>>

EnsureMarker(p) ==
    /\ At(p, "marker")
    /\ marker' = TRUE
    /\ End(p, IF marker THEN "error" ELSE "created")
    /\ UNCHANGED <<repoVars, wtOwner, wtAt, wtFiles, fresh, histVars>>

-------------------------------------------------------------------------------
CleanupInspect(p) ==
    /\ At(p, "cleanup")
    /\ IF wtOwner # "none" /\ marker THEN Go(p, "wt-status") ELSE End(p, "skipped")
    /\ UNCHANGED <<repoVars, treeVars>>

\* Mutant: git status without --ignored.
StatusWithoutIgnored(p) ==
    /\ At(p, "wt-status")
    /\ IF wtOwner # "tool" \/ wtFiles \ {"ignored"} # {} THEN End(p, "skipped") ELSE Go(p, "remove")
    /\ fresh' = [fresh EXCEPT ![p] = {}]
    /\ UNCHANGED <<repoVars, wtOwner, wtAt, wtFiles, marker, histVars>>

\* git status fails in a directory that is no worktree.
CleanupStatus(p) ==
    /\ At(p, "wt-status")
    /\ IF wtOwner # "tool" \/ wtFiles # {} THEN End(p, "skipped") ELSE Go(p, "remove")
    /\ fresh' = [fresh EXCEPT ![p] = {}]
    /\ UNCHANGED <<repoVars, wtOwner, wtAt, wtFiles, marker, histVars>>

\* Mutant: a removal that git refuses is taken for done.
RemoveUnchecked(p) ==
    /\ At(p, "remove")
    /\ Go(p, "rm-marker")
    /\ IF "untracked" \in wtFiles THEN UNCHANGED <<wtOwner, wtAt, wtFiles>>
       ELSE wtOwner' = "none" /\ wtAt' = NoCommit /\ wtFiles' = {}
    /\ UNCHANGED <<repoVars, marker, fresh, histVars>>

\* git worktree remove refuses untracked files, but drops ignored ones.
WorktreeRemove(p) ==
    /\ At(p, "remove")
    /\ IF "untracked" \in wtFiles \/ wtOwner # "tool"
       THEN End(p, "skipped") /\ UNCHANGED <<wtOwner, wtAt, wtFiles>>
       ELSE wtOwner' = "none" /\ wtAt' = NoCommit /\ wtFiles' = {} /\ Go(p, "gone")
    /\ UNCHANGED <<repoVars, marker, fresh, histVars>>

ReallyGone(p) ==
    /\ At(p, "gone")
    /\ IF wtOwner = "none" THEN Go(p, "rm-marker") ELSE End(p, "skipped")
    /\ UNCHANGED <<repoVars, treeVars>>

RemoveMarker(p) ==
    /\ At(p, "rm-marker")
    /\ marker' = FALSE
    /\ End(p, "removed")
    /\ UNCHANGED <<repoVars, wtOwner, wtAt, wtFiles, fresh, histVars>>

WorktreeStep(p) ==
    \/ CreateInspect(p) \/ WorktreeAdd(p) \/ EnsureMarker(p) \/ CleanupInspect(p)
    \/ CleanupStatus(p) \/ WorktreeRemove(p) \/ ReallyGone(p) \/ RemoveMarker(p)

-------------------------------------------------------------------------------
(* Properties *)

\* A cleanup takes no file of the user's with it that was in the worktree when
\* it looked, ignored files included (design.md: "and no unexpected
\* modifications; otherwise it is left for inspection").
CleanupKeepsWhatItSaw ==
    [][wtOwner # "none" /\ wtOwner' = "none" =>
        \E p \in Proc : At(p, "remove") /\ wtFiles \subseteq fresh[p]]_vars

\* As long as worktree operations do not overlap, a worktree of the tool carries
\* its marker, so that it can be reused and cleaned up again, through failed and
\* killed cleanups too: only a create that is cut between its two steps leaves
\* one without. Nothing makes callers take turns: a create that looked before
\* the worktree of another was made, and adds its own while a cleanup is between
\* the removal of that one and of its marker, is left without a marker.
WorktreeKeepsItsMarkerIfSerial ==
    wtOwner = "tool" /\ ~marker =>
        cut \/ crowded \/ \E p \in Proc : At(p, "marker")
===============================================================================
