------------------------------ MODULE Checkout -------------------------------
(***************************************************************************)
(* internal/gitx/checkout.go (EnsureCheckout, AdvanceCheckout) and         *)
(* internal/gitx/update.go (ObserveUpdate). The three share most of their  *)
(* commands; Then gives the step that follows one of them.                 *)
(***************************************************************************)
EXTENDS GitRepo

\* The step after a shared one, by operation.
Then(p, ensure, advance, observe) ==
    CASE op[p] = "ensure" -> ensure
      [] op[p] = "advance" -> advance
      [] op[p] = "observe" -> observe

\* The checkout is inspected: a missing one is cloned by EnsureCheckout only.
Inspect(p) ==
    /\ At(p, "inspect")
    /\ IF cloned THEN Go(p, Then(p, "fetch", "branch", "fetch"))
       ELSE IF op[p] = "ensure" THEN Go(p, "clone")
       ELSE End(p, "error")
    /\ UNCHANGED <<repoVars, treeVars>>

\* git clone refuses a checkout that is there by now.
Clone(p) ==
    /\ At(p, "clone")
    /\ \/ /\ cloned
          /\ End(p, "error")
          /\ UNCHANGED <<cloned, headVars, tracked>>
       \/ /\ ~cloned
          /\ cloned' = TRUE
          /\ branch' = "main" /\ tip' = [b \in Branch |-> origin]
          /\ work' = Tree[origin] /\ staged' = Tree[origin]
          /\ tracked' = origin
          /\ GoAt(p, "fetch", origin)
    /\ UNCHANGED <<origin, tags, treeVars>>

OnMain(p) ==
    /\ At(p, "branch")
    /\ IF branch = "main" THEN Go(p, "fetch") ELSE End(p, "error")
    /\ UNCHANGED <<repoVars, treeVars>>

Fetch(p) ==
    /\ At(p, "fetch")
    /\ tracked' = origin
    /\ Go(p, "head")
    /\ UNCHANGED <<cloned, headVars, origin, tags, treeVars>>

ReadHead(p) ==
    /\ At(p, "head")
    /\ op[p] # "checkpoint"
    /\ seen' = [seen EXCEPT ![p] = Head]
    /\ Move(p, Then(p, "status", "status", "candidate"))
    /\ UNCHANGED <<want, name, other, local, checkVars, repoVars, treeVars>>

Status(p) ==
    /\ At(p, "status")
    /\ op[p] # "cleanup"
    /\ local' = [local EXCEPT ![p] = LocalChanges]
    /\ Move(p, "reach")
    /\ UNCHANGED <<want, name, seen, other, checkVars, repoVars, treeVars>>

ResolvedTo(p, c) ==
    /\ other' = [other EXCEPT ![p] = c]
    /\ Finish(p, "ok")
    /\ UNCHANGED <<want, name, seen, local, checkVars>>

\* The desired commit must be on origin/main; an advance that is already
\* there has nothing to do.
Reach(p) ==
    /\ At(p, "reach")
    /\ IF ~IsAncestor(want[p], tracked) THEN End(p, "error")
       ELSE IF op[p] = "ensure" \/ seen[p] = want[p] THEN ResolvedTo(p, seen[p])
       ELSE Go(p, "divergence")
    /\ UNCHANGED <<repoVars, treeVars>>

-------------------------------------------------------------------------------
(* AdvanceCheckout, which asks about HEAD anew in each command *)

Divergence(p) ==
    /\ At(p, "divergence")
    /\ IF IsAncestor(Head, want[p]) THEN Go(p, "changed") ELSE End(p, "error")
    /\ UNCHANGED <<repoVars, treeVars>>

ChangedPaths(p) ==
    /\ At(p, "changed")
    /\ IF local[p] \cap Changed(Head, want[p]) # {} THEN End(p, "skipped")
       ELSE Go(p, "checkout")
    /\ UNCHANGED <<repoVars, treeVars>>

CheckoutMain(p) ==
    /\ At(p, "checkout")
    /\ IF CanSwitch("main") THEN SwitchTo("main") /\ GoAt(p, "merge", tip["main"])
       ELSE End(p, "error") /\ UNCHANGED <<branch, staged, work>>
    /\ UNCHANGED <<cloned, tip, origin, tracked, tags, treeVars>>

\* git merge --ff-only moves the current branch, whatever it is by now.
CanFastForward(c) == IsAncestor(Head, c) /\ LocalChanges \cap Changed(Head, c) = {}

FastForward(c) ==
    /\ tip' = [tip EXCEPT ![branch] = c]
    /\ work' = Moved(work, Head, c)
    /\ staged' = Moved(staged, Head, c)

\* Mutant: a merge that takes the desired contents over local changes.
MergeForced(p) ==
    /\ At(p, "merge")
    /\ IF IsAncestor(Head, want[p]) THEN FastForward(want[p]) /\ GoAt(p, "after", want[p])
       ELSE End(p, "error") /\ UNCHANGED <<tip, staged, work>>
    /\ UNCHANGED <<cloned, branch, origin, tracked, tags, treeVars>>

\* Mutant: a merge that is not restricted to a fast-forward moves any branch.
MergeReset(p) ==
    /\ At(p, "merge")
    /\ IF LocalChanges \cap Changed(Head, want[p]) = {}
       THEN FastForward(want[p]) /\ GoAt(p, "after", want[p])
       ELSE End(p, "error") /\ UNCHANGED <<tip, staged, work>>
    /\ UNCHANGED <<cloned, branch, origin, tracked, tags, treeVars>>

Merge(p) ==
    /\ At(p, "merge")
    /\ IF CanFastForward(want[p]) THEN FastForward(want[p]) /\ GoAt(p, "after", want[p])
       ELSE /\ IF IsAncestor(want[p], Head) THEN Go(p, "after") ELSE End(p, "error")
            /\ UNCHANGED <<tip, staged, work>>
    /\ UNCHANGED <<cloned, branch, origin, tracked, tags, treeVars>>

After(p) ==
    /\ At(p, "after")
    /\ ResolvedTo(p, Head)
    /\ UNCHANGED <<repoVars, treeVars>>

-------------------------------------------------------------------------------
(* ObserveUpdate, which resolves both commits before it compares them *)

Candidate(p) ==
    /\ At(p, "candidate")
    /\ other' = [other EXCEPT ![p] = tracked]
    /\ IF seen[p] = tracked THEN Finish(p, "ok") ELSE Move(p, "ancestry")
    /\ UNCHANGED <<want, name, seen, local, checkVars, repoVars, treeVars>>

\* Mutant: HEAD is asked for again, as AdvanceCheckout does.
AncestryOfHead(p) ==
    /\ At(p, "ancestry")
    /\ Return(p, IF IsAncestor(Head, other[p]) THEN "newer"
                 ELSE IF IsAncestor(other[p], Head) THEN "ok"
                 ELSE "error")
    /\ UNCHANGED <<repoVars, treeVars>>

Ancestry(p) ==
    /\ At(p, "ancestry")
    /\ Return(p, IF IsAncestor(seen[p], other[p]) THEN "newer"
                 ELSE IF IsAncestor(other[p], seen[p]) THEN "ok"
                 ELSE "error")
    /\ UNCHANGED <<repoVars, treeVars>>

CheckoutStep(p) ==
    \/ Inspect(p) \/ Clone(p) \/ OnMain(p) \/ Fetch(p) \/ ReadHead(p) \/ Status(p)
    \/ Reach(p) \/ Divergence(p) \/ ChangedPaths(p) \/ CheckoutMain(p) \/ Merge(p)
    \/ After(p) \/ Candidate(p) \/ Ancestry(p)

-------------------------------------------------------------------------------
(* Properties *)

\* A local change that git knows of outlives every step of the configurator,
\* however the checks and the commands of two operations and the edits of the
\* user fall between each other (design.md: "No clean/reset/stash/commit/force;
\* overlap refusal"). An untracked file that is ignored does not: no check sees
\* it, and a fast-forward to a commit that has the path writes over it.
EditsSurvive ==
    [][user' = user /\ cloned =>
        \A x \in LocalChanges : work'[x] = work[x] /\ staged'[x] = staged[x]]_vars

\* The configurator moves a branch forward only, and only to a commit that the
\* remote's main has: no commit of the user drops out of his branch.
OnlyFastForwards ==
    [][user' = user /\ cloned =>
        \A b \in Branch : tip'[b] # tip[b] =>
            IsAncestor(tip[b], tip'[b]) /\ IsAncestor(tip'[b], origin)]_vars

\* A candidate is reported as newer only when the reported commit leads to it,
\* although HEAD may move while ObserveUpdate runs.
NewerIsDescendant ==
    \A p \in Proc : result[p] = "newer" =>
        seen[p] # other[p] /\ IsAncestor(seen[p], other[p])
===============================================================================
