--------------------------- MODULE MCReceiptReaders ---------------------------
(* A small instance of ReceiptReaders: a publisher with the run lock, one    *)
(* without, one with, and a reader; r1 and r2 record the same run ID.        *)
EXTENDS ReceiptReaders, TLC

CONSTANTS p1, p2, p3, c1, r1, r2, r3, id1, id2

MCLocked == {p1, p2}
MCProc == {p1, p2, p3}
MCReceipt == {r1, r2, r3}
MCReader == {c1}
MCRunID == (r1 :> id1) @@ (r2 :> id1) @@ (r3 :> id2)
Symm == Permutations(MCLocked) \cup Permutations({r1, r2})
===============================================================================
