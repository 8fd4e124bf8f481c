----------------------------- MODULE Checkpoint ------------------------------
(***************************************************************************)
(* The checkpoint command (internal/app/command_operations.go), with       *)
(* ValidateCommittedPaths (internal/gitx/checkpoint.go) and CreateTag      *)
(* (internal/gitx/tags.go), and the rollback to such a tag, which reads    *)
(* the catalog of the tag path by path and reapplies it.                   *)
(***************************************************************************)
EXTENDS GitRepo

(* ValidateCommittedPaths, for the catalog and then for the assets *)

HeadPath(p) ==
    /\ At(p, "head-path")
    /\ IF todo[p] = {} THEN Go(p, "diff")
       ELSE \E x \in todo[p] :
            IF Tree[Head][x] = "absent" THEN End(p, "error")
            ELSE /\ todo' = [todo EXCEPT ![p] = @ \ {x}]
                 /\ Move(p, "head-path")
                 /\ UNCHANGED <<readVars, group, files>>
    /\ UNCHANGED <<repoVars, treeVars>>

Diff(p) ==
    /\ At(p, "diff")
    /\ IF \A x \in Groups[group[p]] : work[x] = Tree[Head][x] THEN Go(p, "diff-cached")
       ELSE End(p, "error")
    /\ UNCHANGED <<repoVars, treeVars>>

DiffCached(p) ==
    /\ At(p, "diff-cached")
    /\ IF \A x \in Groups[group[p]] : staged[x] = Tree[Head][x] THEN Go(p, "next-group")
       ELSE End(p, "error")
    /\ UNCHANGED <<repoVars, treeVars>>

\* Mutant: only the catalog paths are validated.
OneGroup(p) ==
    /\ At(p, "next-group")
    /\ group' = [group EXCEPT ![p] = @ + 1]
    /\ Move(p, "head")
    /\ UNCHANGED <<readVars, todo, files, repoVars, treeVars>>

NextGroup(p) ==
    /\ At(p, "next-group")
    /\ group' = [group EXCEPT ![p] = @ + 1]
    /\ IF group[p] = 1 THEN todo' = [todo EXCEPT ![p] = Groups[2]] /\ Move(p, "head-path")
       ELSE UNCHANGED todo /\ Move(p, "head")
    /\ UNCHANGED <<readVars, files, repoVars, treeVars>>

-------------------------------------------------------------------------------
(* CreateTag *)

TagHead(p) ==
    /\ At(p, "head")
    /\ op[p] = "checkpoint"
    /\ seen' = [seen EXCEPT ![p] = Head]
    /\ Move(p, "existing")
    /\ UNCHANGED <<want, name, other, local, checkVars, repoVars, treeVars>>

ExistingTag(p) ==
    /\ At(p, "existing")
    /\ IF tags[name[p]] = NoTag THEN Go(p, "tag") ELSE End(p, "error")
    /\ UNCHANGED <<repoVars, treeVars>>

\* git tag refuses a name that exists by now, and tags the HEAD of now.
CreateTag(p) ==
    /\ At(p, "tag")
    /\ IF tags[name[p]] = NoTag
       THEN tags' = [tags EXCEPT ![name[p]] = [at |-> Head, by |-> p]] /\ Go(p, "target")
       ELSE UNCHANGED tags /\ End(p, "error")
    /\ UNCHANGED <<cloned, headVars, origin, tracked, treeVars>>

\* Mutant: the target of the tag is not compared with the HEAD read before.
AnyTarget(p) ==
    /\ At(p, "target")
    /\ Go(p, "describe")
    /\ UNCHANGED <<repoVars, treeVars>>

TagTarget(p) ==
    /\ At(p, "target")
    /\ IF tags[name[p]].at = seen[p] THEN Go(p, "describe") ELSE End(p, "error")
    /\ UNCHANGED <<repoVars, treeVars>>

\* git describe answers with one of the tags of HEAD, if it has any.
Describe(p) ==
    /\ At(p, "describe")
    /\ \/ name[p] \in Tagged(Head) /\ Return(p, "ok")
       \/ Tagged(Head) # {name[p]} /\ End(p, "error")
    /\ UNCHANGED <<repoVars, treeVars>>

-------------------------------------------------------------------------------
(* Rollback to a tag: Read without the lock, then Reapply under it *)

ShownIs(p, x, content) ==
    /\ files' = [files EXCEPT ![p][x] = content]
    /\ todo' = [todo EXCEPT ![p] = @ \ {x}]
    /\ Move(p, "show")
    /\ UNCHANGED <<readVars, group>>

\* Mutant: the catalog is read from the checkout.
ShowWorktree(p) ==
    /\ At(p, "show")
    /\ IF todo[p] = {} THEN Go(p, "relock")
       ELSE \E x \in todo[p] : ShownIs(p, x, Tree[Head][x])
    /\ UNCHANGED <<repoVars, treeVars>>

\* git show tag:path, one declared path after the other.
Show(p) ==
    /\ At(p, "show")
    /\ IF todo[p] = {} THEN Go(p, "relock")
       ELSE \E x \in todo[p] :
            IF tags[name[p]] = NoTag \/ Tree[tags[name[p]].at][x] = "absent"
            THEN End(p, "error")
            ELSE ShownIs(p, x, Tree[tags[name[p]].at][x])
    /\ UNCHANGED <<repoVars, treeVars>>

\* The lock, taken after the read, refuses at once; then what was read is
\* reapplied (external) and the receipt published.
Relock(p) ==
    /\ At(p, "relock")
    /\ IF lock = NoProc
       THEN lock' = p /\ Goto(p, "reapply") /\ UNCHANGED <<memVars, result, op, moved, faults, user>>
       ELSE End(p, "error")
    /\ UNCHANGED <<repoVars, treeVars>>

Reapply(p) ==
    /\ At(p, "reapply")
    /\ Return(p, "ok")
    /\ UNCHANGED <<repoVars, treeVars>>

CheckpointStep(p) ==
    \/ HeadPath(p) \/ Diff(p) \/ DiffCached(p) \/ NextGroup(p) \/ TagHead(p)
    \/ ExistingTag(p) \/ CreateTag(p) \/ TagTarget(p) \/ Describe(p)
    \/ Show(p) \/ Relock(p) \/ Reapply(p)

-------------------------------------------------------------------------------
(* Properties *)

Checkpointed(p) == op[p] = "checkpoint" /\ result[p] = "ok"

\* A checkpoint that succeeds made its tag itself and reports the commit the
\* tag is at, although HEAD and the tags may change between its commands.
CheckpointTagsItsHead ==
    \A p \in Proc : Checkpointed(p) => tags[name[p]] = [at |-> seen[p], by |-> p]

\* Unless HEAD was moved under it, by the user or by an advance, which takes no
\* lock, the commit a checkpoint tags holds every declared path ("proves that
\* every caller-declared path exists in HEAD", checkpoint.go): edits and new
\* tags do not matter.
CheckpointHoldsPaths ==
    \A p \in Proc : Checkpointed(p) /\ p \notin moved =>
        \A x \in Groups[1] \cup Groups[2] : Tree[seen[p]][x] # "absent"

\* What a rollback to a tag reapplies is the catalog of the tag's commit,
\* whole, whatever happens to HEAD, the branches and the checkout meanwhile.
RollbackReadsTheTag ==
    \A p \in Proc : op[p] = "rollback" /\ (pc[p] = "reapply" \/ result[p] = "ok") =>
        /\ tags[name[p]] # NoTag
        /\ \A x \in Groups[1] : files[p][x] = Tree[tags[name[p]].at][x]
===============================================================================
