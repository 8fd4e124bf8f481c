---------------------------- MODULE MCReceiptStore ----------------------------
(* A small instance of ReceiptStore for TLC: two publishers that take the   *)
(* run lock and one, a dry or lock-contended run, that does not.            *)
EXTENDS ReceiptStore, TLC

CONSTANTS p1, p2, p3, r1, r2, r3

MCLocked == {p1, p2}
MCProc == {p1, p2, p3}
MCReceipt == {r1, r2, r3}
Symm == Permutations(MCLocked) \cup Permutations(MCReceipt)
===============================================================================
