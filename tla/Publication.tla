----------------------------- MODULE Publication -----------------------------
(***************************************************************************)
(* Adoption of a file and publication over it, next to its user.           *)
(***************************************************************************)
EXTENDS Adopt, SelfHelper

Next ==
    \/ User
    \/ PowerLoss
    \/ \E p \in Adopter : AdoptStep(p)
    \/ \E h \in Helper : HelperStep(h)

Spec == Init /\ [][Next]_vars
===============================================================================
