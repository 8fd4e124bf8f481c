--------------------------- MODULE MCGitOperations ---------------------------
(* One repository: upstream's main has c1 and then c2, which changes the      *)
(* catalog and adds the asset; the user may commit d on top of c1, with a     *)
(* catalog of his own. A file in place of the asset is ignored.               *)
EXTENDS GitOperations, TLC

CONSTANTS p, q, c1, c2, d, cat, asset, t1, t2

MCProc == {p, q}
MCOlder == c1 :> {c1} @@ c2 :> {c1, c2} @@ d :> {c1, d}
MCTree ==
    LET tree(x, y) == cat :> x @@ asset :> y
    IN  c1 :> tree("one", "absent") @@ c2 :> tree("two", "one") @@ d :> tree("mine", "absent")
MCGroups == <<{cat}, {asset}>>
MCSymm == Permutations({p, q}) \cup Permutations({t1, t2})
===============================================================================
