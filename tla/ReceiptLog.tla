------------------------------ MODULE ReceiptLog ------------------------------
(***************************************************************************)
(* What the receipt store promises to every other component, whatever the  *)
(* number of processes that publish at once and whatever fails: a log of   *)
(* immutable receipts that only grows, and an index (current.json) that    *)
(* only ever names a receipt of the log. Until the directories they live   *)
(* in are sure to stay, a power loss may take it all.                      *)
(*                                                                         *)
(* ReceiptStore is shown to implement this specification.                  *)
(***************************************************************************)
CONSTANTS
    Receipt,    \* receipts, told apart by their content digest
    NoReceipt   \* the index is absent; not a receipt

VARIABLES
    log,        \* the receipts that survive a power loss
    index,      \* the receipt current.json names, or NoReceipt
    indexed,    \* every receipt the index has named so far
    settled,    \* whether the directories themselves survive a power loss
    whole       \* whether they have survived each one so far

logVars == <<log, index, indexed, settled, whole>>

LogInit ==
    /\ log = {}
    /\ index = NoReceipt
    /\ indexed = {}
    /\ settled \in BOOLEAN
    /\ whole = TRUE

\* Receipts become durable: a synced directory makes one or more of them so.
Commit ==
    /\ log' \in SUBSET Receipt
    /\ log \subseteq log'
    /\ UNCHANGED <<index, indexed>>

\* A publication makes its receipt current. No receipt is published twice.
Advance(r) ==
    /\ r \in log \ indexed
    /\ index' = r
    /\ indexed' = indexed \cup {r}
    /\ UNCHANGED log

\* A failed publication, or a power loss, takes the index back to a receipt it
\* has named before, or removes it.
Retract ==
    /\ index' \in indexed \cup {NoReceipt}
    /\ log' \in SUBSET Receipt
    /\ log \subseteq log'
    /\ UNCHANGED indexed

Promised ==
    \/ Commit
    \/ \E r \in Receipt : Advance(r)
    \/ Retract

\* A power loss takes a directory with receipts in it: after that, nothing is
\* promised. It cannot happen once the directories are settled.
Vanish == ~settled /\ ~whole'

LogNext ==
    \/ whole /\ whole' /\ (settled => settled') /\ Promised
    \/ whole /\ Vanish
    \/ ~whole /\ ~whole'

LogSpec == LogInit /\ [][LogNext]_logVars
===============================================================================
