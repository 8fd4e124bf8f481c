------------------------------ MODULE MCApplyRun ------------------------------
(* A small instance of ApplyRun: two or three runs of a plan with two steps. *)
EXTENDS ApplyRun, TLC

CONSTANTS a, b

MCRun == {a, b}
MCPlans == {<<"run", "run">>, <<"blocked", "run">>, <<"run", "other">>}
Symm == Permutations(MCRun)
===============================================================================
