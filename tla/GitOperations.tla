---------------------------- MODULE GitOperations ----------------------------
(***************************************************************************)
(* The operations of internal/gitx and of the checkpoint and rollback      *)
(* commands on one repository, next to its user.                           *)
(***************************************************************************)
EXTENDS Checkout, Checkpoint, Worktree

\* The first step of each operation.
Entry(o) ==
    CASE o \in {"ensure", "advance", "observe"} -> "inspect"
      [] o = "checkpoint" -> "head-path"
      [] o = "rollback" -> "show"
      [] o \in {"create", "cleanup"} -> o

\* A process starts an operation. A checkpoint holds the mutation lock from the
\* start, a rollback once it has read its tag; the others run without.
Begin(p) ==
    /\ op[p] = "none"
    /\ \E o \in Op :
        /\ o \in {"checkpoint", "rollback"} => cloned
        /\ o = "checkpoint" => lock = NoProc
        /\ lock' = IF o = "checkpoint" THEN p ELSE lock
        /\ op' = [op EXCEPT ![p] = o]
        /\ Goto(p, Entry(o))
        /\ IF o \in {"ensure", "advance", "create"}
           THEN \E c \in Published : want' = [want EXCEPT ![p] = c]
           ELSE UNCHANGED want
        /\ IF o \in {"checkpoint", "rollback"}
           THEN \E t \in Tag : name' = [name EXCEPT ![p] = t]
           ELSE UNCHANGED name
        /\ crowded' = (crowded \/ (o \in WorktreeOp /\ \E q \in Proc : Busy(q) /\ op[q] \in WorktreeOp))
        /\ todo' = [todo EXCEPT ![p] = IF o \in {"checkpoint", "rollback"} THEN Groups[1] ELSE {}]
    /\ UNCHANGED <<repoVars, seen, other, local, result, group, files, wtOwner, wtAt, wtFiles, marker,
                   fresh, cut, moved, faults, user>>

Step(p) == Begin(p) \/ CheckoutStep(p) \/ CheckpointStep(p) \/ WorktreeStep(p)

Next == User \/ \E p \in Proc : Step(p) \/ Abort(p)

Spec == Init /\ [][Next]_vars
===============================================================================
