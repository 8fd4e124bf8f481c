---------------------------- MODULE MCPublication ----------------------------
(* Two adopters of a file and one helper that publishes over it. *)
EXTENDS Publication, TLC

CONSTANTS p, q

MCAdopter == {p, q}
MCSymm == Permutations({p, q})
===============================================================================
