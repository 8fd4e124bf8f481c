------------------------------- MODULE GitRepo -------------------------------
(***************************************************************************)
(* A configurator checkout as internal/gitx sees it through git commands,  *)
(* next to a user who edits, commits, switches branches, tags and touches  *)
(* the tool's worktree, and an upstream that advances. Processes run the   *)
(* operations of Checkout, Checkpoint and Worktree, one git command or one *)
(* file system call a step; GitOperations composes them.                   *)
(*                                                                         *)
(* git is external: its commands are what the code relies on them to do.   *)
(* Commit objects never change, so the graph and the trees are constants.  *)
(***************************************************************************)
EXTENDS Integers, FiniteSets

CONSTANTS
    Proc,
    Commit,
    Published,    \* commits that upstream's main has or will have
    Older,        \* the ancestors of each commit, itself included
    Path,         \* files of the repository
    Tree,         \* contents of each path at each commit
    Content,
    Ignored,      \* paths that ignore rules match: of no effect once they are tracked
    Groups,       \* the declared paths, catalog then managed assets, in order
    Tag,          \* names of the form catalog-vX.Y.Z
    NoProc, NoCommit, NoName,
    MaxFaults,    \* bound: failed commands and killed processes
    MaxUser       \* bound: steps of the user and of the upstream

Branch == {"main", "side"}
Op == {"ensure", "advance", "observe", "checkpoint", "rollback", "create", "cleanup"}

\* The commands that hold the mutation lock. What gitx offers beside them takes
\* none, nor has it a caller that would.
Locking == {"checkpoint", "rollback"}
WorktreeOp == {"create", "cleanup"}

ASSUME GitAssumption ==
    /\ Older \in [Commit -> SUBSET Commit]
    /\ Published \subseteq Commit
    /\ \A c \in Commit : c \in Older[c]
    /\ \A c \in Commit : \A d \in Older[c] : Older[d] \subseteq Older[c]
    /\ Tree \in [Commit -> [Path -> Content]]
    /\ {"absent", "mine"} \subseteq Content /\ Ignored \subseteq Path
    /\ Groups \in [1..2 -> (SUBSET Path) \ {{}}]
    /\ NoProc \notin Proc /\ NoCommit \notin Commit /\ NoName \notin Tag
    /\ MaxFaults \in Nat /\ MaxUser \in Nat

VARIABLES
    cloned,             \* the checkout exists
    branch, tip,        \* current branch, commit of each branch
    staged, work,       \* index and working tree
    origin, tracked,    \* main of the remote, and refs/remotes/origin/main
    tags,               \* what each tag name stands for
    lock,               \* holder of the mutation lock
    op, pc,             \* operation and step of each process
    want,               \* its desired commit
    name,               \* its tag
    seen,               \* BeforeCommit, CurrentCommit, or the HEAD to be tagged
    other,              \* ResolvedCommit or CandidateCommit
    local,              \* paths that git status reported
    result,
    group, todo,        \* checkpoint: group in hand, its paths left to look at
    files,              \* rollback: what was read at the tag
    wtOwner, wtAt,      \* the worktree destination: who made it, at what commit
    wtFiles, marker,    \* what the user put in it, and the ownership marker
    fresh,              \* history: user files put there since a cleanup looked
    moved,              \* history: checkpoints under which HEAD moved
    cut,                \* history: a create was cut before its marker
    crowded,            \* history: two worktree operations ran at once
    faults, user

headVars  == <<branch, tip, staged, work>>
histVars  == <<cut, crowded>>
treeVars  == <<wtOwner, wtAt, wtFiles, marker, fresh, histVars>>
repoVars  == <<cloned, headVars, origin, tracked, tags>>
checkVars == <<group, todo, files>>
readVars  == <<want, name, seen, other, local>>
memVars   == <<readVars, checkVars>>
procVars  == <<op, pc, memVars, result>>
vars == <<repoVars, lock, procVars, treeVars, moved, faults, user>>

NoTag == [at |-> NoCommit, by |-> NoProc]
MaybeCommit == Commit \cup {NoCommit}
Result == {"none", "ok", "newer", "created", "reused", "removed", "skipped", "error"}
UserFile == {"untracked", "ignored"}

\* The types of the variables, and that only operations that take the lock hold it.
TypeOK ==
    /\ cloned \in BOOLEAN
    /\ branch \in Branch /\ tip \in [Branch -> Commit]
    /\ staged \in [Path -> Content] /\ work \in [Path -> Content]
    /\ origin \in Commit /\ tracked \in Commit
    /\ tags \in [Tag -> [at : MaybeCommit, by : Proc \cup {NoProc}]]
    /\ lock \in Proc \cup {NoProc}
    /\ op \in [Proc -> Op \cup {"none"}]
    /\ \A p \in Proc : lock = p => op[p] \in Locking
    /\ want \in [Proc -> MaybeCommit] /\ name \in [Proc -> Tag \cup {NoName}]
    /\ seen \in [Proc -> MaybeCommit] /\ other \in [Proc -> MaybeCommit]
    /\ local \in [Proc -> SUBSET Path]
    /\ result \in [Proc -> Result]
    /\ group \in [Proc -> 1..3] /\ \A p \in Proc : pc[p] = "diff" => group[p] < 3
    /\ todo \in [Proc -> SUBSET Path]
    /\ files \in [Proc -> [Path -> Content]]
    /\ wtOwner \in {"none", "tool", "user"} /\ wtAt \in MaybeCommit
    /\ wtFiles \subseteq UserFile /\ marker \in BOOLEAN
    /\ fresh \in [Proc -> SUBSET UserFile]
    /\ moved \subseteq Proc
    /\ cut \in BOOLEAN /\ crowded \in BOOLEAN
    /\ faults \in 0..MaxFaults /\ user \in 0..MaxUser

-------------------------------------------------------------------------------
(* What git commands report *)

IsAncestor(c, d) == c \in Older[d]
Head == tip[branch]
Changed(c, d) == {x \in Path : Tree[c][x] # Tree[d][x]}
Dirty == {x \in Path : work[x] # Tree[Head][x] \/ staged[x] # Tree[Head][x]}

\* An untracked file that is ignored is no local change to git: status does not
\* list it, and checkout and merge write over it.
LocalChanges == {x \in Dirty : x \in Ignored => staged[x] # "absent" \/ Tree[Head][x] # "absent"}
Tagged(c) == {t \in Tag : tags[t].at = c}

\* Paths that a change of HEAD from c to d rewrites, in a file system f.
Moved(f, c, d) == [x \in Path |-> IF x \in Changed(c, d) THEN Tree[d][x] ELSE f[x]]

-------------------------------------------------------------------------------
(* Steps of a process *)

Busy(p) == op[p] # "none" /\ result[p] = "none"
At(p, label) == Busy(p) /\ pc[p] = label
Goto(p, label) == pc' = [pc EXCEPT ![p] = label]

Stop(p, r) ==
    /\ Goto(p, "returned")
    /\ result' = [result EXCEPT ![p] = r]
    /\ lock' = IF lock = p THEN NoProc ELSE lock

Forget(p) ==
    /\ want' = [want EXCEPT ![p] = NoCommit] /\ name' = [name EXCEPT ![p] = NoName]
    /\ seen' = [seen EXCEPT ![p] = NoCommit] /\ other' = [other EXCEPT ![p] = NoCommit]
    /\ local' = [local EXCEPT ![p] = {}]
    /\ group' = [group EXCEPT ![p] = 1] /\ todo' = [todo EXCEPT ![p] = {}]
    /\ files' = [files EXCEPT ![p] = [x \in Path |-> "absent"]]

\* The operation returns, with what it has written to its variables or, where
\* no property needs it, without; its caller's deferred Release drops the lock.
Finish(p, r) == Stop(p, r) /\ UNCHANGED <<op, moved, faults, user>>
Return(p, r) == Finish(p, r) /\ UNCHANGED memVars
End(p, r) == Finish(p, r) /\ Forget(p)

\* HEAD moves to c under whatever is running.
Disturb(c) ==
    moved' = IF c = Head THEN moved
             ELSE moved \cup {p \in Proc : Busy(p) /\ op[p] = "checkpoint"}

\* It goes on, having moved HEAD to c, having written to its variables, or
\* having written nothing.
GoAt(p, label, c) ==
    Goto(p, label) /\ Disturb(c) /\ UNCHANGED <<memVars, result, lock, op, faults, user>>
Move(p, label) == Goto(p, label) /\ UNCHANGED <<result, lock, op, moved, faults, user>>
Go(p, label) == Move(p, label) /\ UNCHANGED memVars

Init ==
    /\ cloned \in BOOLEAN
    /\ branch = "main"
    /\ tracked \in Published
    /\ origin \in {c \in Published : IsAncestor(tracked, c)}
    /\ tip \in [Branch -> Commit]
    /\ IsAncestor(tip["side"], tip["main"])
    /\ ~cloned => tip["side"] = origin /\ tracked = origin
    /\ tip["main"] \in Published => IsAncestor(tip["main"], tracked)
    /\ work = Tree[tip["main"]] /\ staged = work
    /\ tags \in [Tag -> {NoTag}]
    /\ lock = NoProc
    /\ op = [p \in Proc |-> "none"] /\ pc = [p \in Proc |-> "idle"]
    /\ want = [p \in Proc |-> NoCommit] /\ name = [p \in Proc |-> NoName]
    /\ seen = [p \in Proc |-> NoCommit] /\ other = [p \in Proc |-> NoCommit]
    /\ local = [p \in Proc |-> {}]
    /\ result = [p \in Proc |-> "none"]
    /\ group = [p \in Proc |-> 1] /\ todo = [p \in Proc |-> {}]
    /\ files = [p \in Proc |-> [x \in Path |-> "absent"]]
    /\ wtOwner = "none" /\ wtAt = NoCommit /\ wtFiles = {} /\ marker = FALSE
    /\ fresh = [p \in Proc |-> {}]
    /\ moved = {}
    /\ cut = FALSE /\ crowded = FALSE
    /\ faults = 0 /\ user = 0

\* A command fails without effect, or the process is killed: it takes no
\* further step, and its lock and its memory are gone.
Abort(p) ==
    /\ Busy(p)
    /\ faults < MaxFaults /\ faults' = faults + 1
    /\ Stop(p, "error") /\ Forget(p)
    /\ cut' = (cut \/ pc[p] = "marker")
    /\ UNCHANGED <<repoVars, op, wtOwner, wtAt, wtFiles, marker, fresh, crowded,
                   moved, user>>

-------------------------------------------------------------------------------
(* The user and the upstream *)

UserStep == user < MaxUser /\ user' = user + 1

\* An edit, with or without git add, or git rm.
Edit(x) ==
    /\ UserStep
    /\ cloned
    /\ \/ work' = [work EXCEPT ![x] = "mine"] /\ UNCHANGED staged
       \/ \E v \in {"mine", "absent"} :
            work' = [work EXCEPT ![x] = v] /\ staged' = [staged EXCEPT ![x] = v]
    /\ UNCHANGED <<cloned, branch, tip, origin, tracked, tags, lock, procVars,
                   treeVars, moved, faults>>

\* git commit: the index becomes a child of HEAD.
UserCommit(c) ==
    /\ UserStep
    /\ cloned
    /\ Older[c] = Older[Head] \cup {c} /\ c # Head
    /\ staged = Tree[c]
    /\ tip' = [tip EXCEPT ![branch] = c]
    /\ Disturb(c)
    /\ UNCHANGED <<cloned, branch, staged, work, origin, tracked, tags, lock,
                   procVars, treeVars, faults>>

\* git checkout of a branch keeps local changes, and refuses to overwrite them.
CanSwitch(b) == LocalChanges \cap Changed(Head, tip[b]) = {}

SwitchTo(b) ==
    /\ branch' = b
    /\ work' = Moved(work, Head, tip[b])
    /\ staged' = Moved(staged, Head, tip[b])

UserSwitch(b) ==
    /\ UserStep
    /\ cloned
    /\ b # branch /\ CanSwitch(b)
    /\ SwitchTo(b)
    /\ Disturb(tip[b])
    /\ UNCHANGED <<cloned, tip, origin, tracked, tags, lock, procVars, treeVars, faults>>

UserTag(t) ==
    /\ UserStep
    /\ cloned
    /\ tags[t] = NoTag
    /\ tags' = [tags EXCEPT ![t] = [at |-> Head, by |-> NoProc]]
    /\ UNCHANGED <<cloned, headVars, origin, tracked, lock, procVars, treeVars,
                   moved, faults>>

Upstream(c) ==
    /\ UserStep
    /\ c \in Published
    /\ IsAncestor(origin, c) /\ c # origin
    /\ origin' = c
    /\ UNCHANGED <<cloned, headVars, tracked, tags, lock, procVars, treeVars,
                   moved, faults>>

\* The user leaves a file in the worktree, or makes a directory in its place.
UserFiles(f) ==
    /\ UserStep
    /\ wtOwner # "none"
    /\ wtFiles' = wtFiles \cup {f}
    /\ fresh' = [p \in Proc |-> IF At(p, "remove") THEN fresh[p] \cup {f} ELSE fresh[p]]
    /\ UNCHANGED <<repoVars, lock, procVars, wtOwner, wtAt, marker, moved, histVars, faults>>

UserMkdir ==
    /\ UserStep
    /\ wtOwner = "none"
    /\ wtOwner' = "user"
    /\ UNCHANGED <<repoVars, lock, procVars, wtAt, wtFiles, marker, fresh, moved,
                   histVars, faults>>

User ==
    \/ \E x \in Path : Edit(x)
    \/ \E c \in Commit : UserCommit(c) \/ Upstream(c)
    \/ \E b \in Branch : UserSwitch(b)
    \/ \E t \in Tag : UserTag(t)
    \/ \E f \in UserFile : UserFiles(f)
    \/ UserMkdir
===============================================================================
