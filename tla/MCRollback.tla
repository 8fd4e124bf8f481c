------------------------------ MODULE MCRollback ------------------------------
(* A small instance of Rollback: two runs for a receipt with three files, of  *)
(* every class that can be rolled back, or with one that cannot.              *)
EXTENDS Rollback, TLC

CONSTANTS a, b

MCRun == {a, b}
MCReceipts == {<<"created", "adopted", "package">>, <<"adopted", "created", "unfit">>}
Symm == Permutations(MCRun)
===============================================================================
