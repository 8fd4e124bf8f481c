----------------------------- MODULE ReceiptStore -----------------------------
(***************************************************************************)
(* internal/receipt/store.go: Store.Publish, run by several processes at   *)
(* once over one state directory, with failing system calls, processes     *)
(* that die and power losses.                                              *)
(*                                                                         *)
(* The file system has two faces. The live one is what processes see: the  *)
(* names in receipts/ and the file behind current.json. The durable one is *)
(* what a power loss leaves: a name is sure to be there only once its      *)
(* directory has been synced, and until the next sync of the state         *)
(* directory current.json may come back as any value it has had since the  *)
(* last one. The directories themselves, the state directory and receipts/ *)
(* in it, are made by ensureDir, which syncs neither of them and neither's *)
(* parent: until something does, a power loss may take receipts/ with all  *)
(* that is in it, or the whole state directory.                            *)
(*                                                                         *)
(* A receipt is a model value: its file name carries its content digest,   *)
(* so equal receipts collide and different ones do not. Staging a          *)
(* temporary file touches a private name only, and is one step with the    *)
(* link or rename that makes it visible.                                   *)
(***************************************************************************)
EXTENDS Naturals

CONSTANTS
    Proc,        \* processes, each running one Publish
    Locked,      \* those that hold the run lock meanwhile (app/apply.go)
    Receipt,     \* receipts
    NoReceipt,   \* "no current.json"
    NoProc,      \* nobody
    MaxFaults    \* bound: failed calls, killed processes and power losses

ASSUME StoreAssumption ==
    /\ Locked \subseteq Proc
    /\ NoReceipt \notin Receipt
    /\ NoProc \notin Proc
    /\ MaxFaults \in Nat

VARIABLES
    receipts,    \* live names in receipts/: absent; linked, its temporary name
                 \*   still there; final
    durable,     \* the receipts whose names survive a power loss
    settled,     \* the directories whose own entry survives a power loss
    current,     \* the live file behind current.json (an Index)
    onDisk,      \* what current.json may name after a power loss
    lock,        \* the process that holds the run lock
    pc,          \* next system call of each process
    rcpt,        \* the receipt a process publishes
    opened,      \* the index file a process opened to save its content
    prev,        \* the content it saved
    faults,      \* faults so far
    indexed,     \* history: receipts the index has named
    acked,       \* history: receipts whose Publish succeeded
    before,      \* history: what had been acknowledged when a Publish began
    lost         \* history: directories a power loss took with receipts in them

dirVars  == <<receipts, durable, lost>>
idxVars  == <<current, onDisk, indexed, settled>>
procVars == <<rcpt, opened, prev, before>>
vars == <<receipts, durable, settled, current, onDisk, lock, pc, rcpt, opened,
          prev, faults, indexed, acked, before, lost>>

Dirs == {"root", "receipts"}

Content == Receipt \cup {NoReceipt}

\* A file that is or was behind current.json: which receipt it names, which
\* process put it there, and whether by undoing its own update.
Index == [receipt : Content, by : Proc \cup {NoProc}, via : {"publish", "undo"}]
NoIndex == [receipt |-> NoReceipt, by |-> NoProc, via |-> "publish"]

BeforeLink == {"idle", "link"}
\* Steps of a publication whose receipt is linked and not yet current.
Linked   == {"unlink", "syncReceipts"}
Synced   == {"openIndex", "readIndex", "rename"}
Renamed  == {"syncRoot", "undo", "undoSync", "discard"}
Ended    == {"ok", "failed", "crashed"}
Active   == {"link"} \cup Linked \cup Synced \cup Renamed
PC       == BeforeLink \cup Linked \cup Synced \cup Renamed \cup Ended

TypeOK ==
    /\ receipts \in [Receipt -> {"absent", "linked", "final"}]
    /\ durable \subseteq Receipt
    /\ settled \subseteq Dirs
    /\ lost \subseteq Dirs
    /\ current \in Index
    /\ onDisk \subseteq Content
    /\ lock \in Proc \cup {NoProc}
    /\ pc \in [Proc -> PC]
    /\ rcpt \in [Proc -> Content]
    /\ \A p \in Proc : pc[p] # "idle" => rcpt[p] \in Receipt
    /\ opened \in [Proc -> Index]
    /\ prev \in [Proc -> Content]
    /\ faults \in 0..MaxFaults
    /\ indexed \subseteq Receipt
    /\ acked \subseteq Receipt
    /\ before \in [Proc -> SUBSET Receipt]

\* Nothing has been published. The directories are not there yet, or are left
\* over from an earlier command, and then may or may not be sure to stay.
Init ==
    /\ settled \in SUBSET Dirs
    /\ lost = {}
    /\ receipts = [r \in Receipt |-> "absent"]
    /\ durable = {}
    /\ current = NoIndex
    /\ onDisk = {NoReceipt}
    /\ lock = NoProc
    /\ pc = [p \in Proc |-> "idle"]
    /\ rcpt = [p \in Proc |-> NoReceipt]
    /\ opened = [p \in Proc |-> NoIndex]
    /\ prev = [p \in Proc |-> NoReceipt]
    /\ faults = 0
    /\ indexed = {}
    /\ acked = {}
    /\ before = [p \in Proc |-> {}]

-------------------------------------------------------------------------------
Live == {r \in Receipt : receipts[r] # "absent"}

Goto(p, label) == pc' = [pc EXCEPT ![p] = label]

\* A run lock is held until the Publish under it returns, and the kernel drops
\* it when its holder dies.
Unlock(p) == lock' = IF lock = p THEN NoProc ELSE lock

Return(p, result) == Goto(p, result) /\ Unlock(p)

\* A system call fails: at most MaxFaults of them do.
Fault == faults < MaxFaults /\ faults' = faults + 1

\* Publish returns an error and has changed nothing more.
FailWith(p) ==
    /\ Return(p, "failed")
    /\ UNCHANGED <<dirVars, idxVars, procVars, acked>>

-------------------------------------------------------------------------------
\* Apply, rollback and the lock-contended and dry runs reach Publish. Only the
\* first two hold the run lock.
Begin(p, r) ==
    /\ pc[p] = "idle"
    /\ IF p \in Locked THEN lock = NoProc /\ lock' = p ELSE UNCHANGED lock
    /\ Goto(p, "link")
    /\ rcpt' = [rcpt EXCEPT ![p] = r]
    /\ before' = [before EXCEPT ![p] = acked]
    /\ UNCHANGED <<dirVars, idxVars, opened, prev, faults, acked>>

\* Mutant: rename in place of link, which replaces an existing receipt.
LinkReceiptReplaces(p) ==
    /\ pc[p] = "link"
    /\ receipts' = [receipts EXCEPT ![rcpt[p]] = "linked"]
    /\ Goto(p, "unlink")
    /\ UNCHANGED <<durable, lost, idxVars, procVars, lock, faults, acked>>

\* Mutant: after EEXIST the final name is removed, not the temporary one.
LinkReceiptRemovesExisting(p) ==
    /\ pc[p] = "link"
    /\ IF receipts[rcpt[p]] = "absent"
       THEN /\ receipts' = [receipts EXCEPT ![rcpt[p]] = "linked"]
            /\ Goto(p, "unlink")
            /\ UNCHANGED <<durable, lock>>
       ELSE /\ receipts' = [receipts EXCEPT ![rcpt[p]] = "absent"]
            /\ durable' = durable \ {rcpt[p]}
            /\ Return(p, "failed")
    /\ UNCHANGED <<lost, idxVars, procVars, faults, acked>>

\* ensureDir twice, stage the receipt, link it to its final name. A directory
\* that ensureDir makes is empty and not synced: "settled" is left as it is.
LinkReceipt(p) ==
    /\ pc[p] = "link"
    /\ \/ /\ receipts[rcpt[p]] = "absent"
          /\ receipts' = [receipts EXCEPT ![rcpt[p]] = "linked"]
          /\ Goto(p, "unlink")
          /\ UNCHANGED <<durable, lost, idxVars, procVars, lock, faults, acked>>
       \/ /\ receipts[rcpt[p]] # "absent"      \* EEXIST: ErrReceiptExists
          /\ UNCHANGED faults
          /\ FailWith(p)
       \/ Fault /\ FailWith(p)

\* Remove the temporary name: the receipt's ctime changes here.
UnlinkTemp(p) ==
    /\ pc[p] = "unlink"
    /\ \/ /\ receipts' = [receipts EXCEPT ![rcpt[p]] = "final"]
          /\ Goto(p, "syncReceipts")
          /\ UNCHANGED <<durable, lost, idxVars, procVars, lock, faults, acked>>
       \/ Fault /\ FailWith(p)

\* Mutant: receipts/ is not synced.
SyncReceiptsSkipped(p) ==
    /\ pc[p] = "syncReceipts"
    /\ Goto(p, "openIndex")
    /\ UNCHANGED <<dirVars, idxVars, procVars, lock, faults, acked>>

\* Mutant: the error of the sync is dropped.
SyncReceiptsUnchecked(p) ==
    /\ pc[p] = "syncReceipts"
    /\ \/ durable' = Live /\ UNCHANGED faults
       \/ Fault /\ UNCHANGED durable
    /\ Goto(p, "openIndex")
    /\ UNCHANGED <<receipts, lost, idxVars, procVars, lock, acked>>

\* syncDir(receipts/) makes every name in it durable. Its open or fsync may
\* fail, or its close after a good fsync.
SyncReceipts(p) ==
    /\ pc[p] = "syncReceipts"
    /\ \/ /\ durable' = Live
          /\ Goto(p, "openIndex")
          /\ UNCHANGED <<lock, faults>>
       \/ /\ durable' \in {durable, Live}
          /\ Return(p, "failed")
          /\ Fault
    /\ UNCHANGED <<receipts, lost, idxVars, procVars, acked>>

\* Mutant: what is saved is the open file, not its content.
OpenIndexSavesFile(p) ==
    /\ pc[p] = "openIndex"
    /\ opened' = [opened EXCEPT ![p] = current]
    /\ prev' = [prev EXCEPT ![p] = current]
    /\ Goto(p, IF current = NoIndex THEN "rename" ELSE "readIndex")
    /\ UNCHANGED <<dirVars, idxVars, rcpt, before, lock, faults, acked>>

\* readCurrentBytes, first half: open current.json, which pins the file.
OpenIndex(p) ==
    /\ pc[p] = "openIndex"
    /\ \/ /\ opened' = [opened EXCEPT ![p] = current]
          /\ prev' = [prev EXCEPT ![p] = NoReceipt]
          /\ Goto(p, IF current = NoIndex THEN "rename" ELSE "readIndex")
          /\ UNCHANGED <<dirVars, idxVars, rcpt, before, lock, faults, acked>>
       \/ Fault /\ FailWith(p)

\* Second half: safefile compares the metadata before and after the read. A
\* rename over the file, or its removal, changes its ctime: ErrChanged, unless
\* that happened before the first look at the metadata.
ReadIndex(p) ==
    /\ pc[p] = "readIndex"
    /\ \/ /\ prev' = [prev EXCEPT ![p] = opened[p].receipt]
          /\ Goto(p, "rename")
          /\ UNCHANGED <<dirVars, idxVars, rcpt, opened, before, lock, faults, acked>>
       \/ /\ opened[p] # current
          /\ UNCHANGED faults
          /\ FailWith(p)
       \/ Fault /\ FailWith(p)

\* Mutant: link in place of rename, its EEXIST taken for success.
RenameIndexKeepsExisting(p) ==
    /\ pc[p] = "rename"
    /\ IF current = NoIndex
       THEN /\ current' = [receipt |-> rcpt[p], by |-> p, via |-> "publish"]
            /\ onDisk' = onDisk \cup {rcpt[p]}
            /\ indexed' = indexed \cup {rcpt[p]}
            /\ UNCHANGED settled
       ELSE UNCHANGED idxVars
    /\ Goto(p, "syncRoot")
    /\ UNCHANGED <<dirVars, procVars, lock, faults, acked>>

\* Stage the new index, rename it over current.json.
RenameIndex(p) ==
    /\ pc[p] = "rename"
    /\ \/ /\ current' = [receipt |-> rcpt[p], by |-> p, via |-> "publish"]
          /\ onDisk' = onDisk \cup {rcpt[p]}
          /\ indexed' = indexed \cup {rcpt[p]}
          /\ Goto(p, "syncRoot")
          /\ UNCHANGED <<dirVars, settled, procVars, lock, faults, acked>>
       \/ Fault /\ FailWith(p)

\* An fsync of the state directory makes its entries durable: current.json as
\* it is, and receipts/ as a directory in it.
RootSynced ==
    /\ onDisk' = {current.receipt}
    /\ settled' = settled \cup {"receipts"}

\* Mutant: a failed sync is reported and the update is left in place.
SyncRootNoRollback(p) ==
    /\ pc[p] = "syncRoot"
    /\ \/ /\ RootSynced
          /\ Return(p, "ok")
          /\ acked' = acked \cup {rcpt[p]}
          /\ UNCHANGED faults
       \/ /\ Fault
          /\ Return(p, "failed")
          /\ UNCHANGED <<onDisk, settled, acked>>
    /\ UNCHANGED <<dirVars, current, indexed, procVars>>

\* syncDir(root). After an error rollbackCurrent takes the update back; the
\* error may be that of the close after a good fsync.
SyncRoot(p) ==
    /\ pc[p] = "syncRoot"
    /\ \/ /\ RootSynced
          /\ Return(p, "ok")
          /\ acked' = acked \cup {rcpt[p]}
          /\ UNCHANGED faults
       \/ /\ RootSynced \/ UNCHANGED <<onDisk, settled>>
          /\ Fault
          /\ Goto(p, IF prev[p] = NoReceipt THEN "discard" ELSE "undo")
          /\ UNCHANGED <<lock, acked>>
    /\ UNCHANGED <<dirVars, current, indexed, procVars>>

\* rollbackCurrent: stage the saved content and rename it back, or fall
\* through to the removal.
UndoIndex(p) ==
    /\ pc[p] = "undo"
    /\ \/ /\ current' = [receipt |-> prev[p], by |-> p, via |-> "undo"]
          /\ onDisk' = onDisk \cup {prev[p]}
          /\ Goto(p, "undoSync")
          /\ UNCHANGED faults
       \/ /\ Goto(p, "discard")
          /\ Fault
          /\ UNCHANGED <<current, onDisk>>
    /\ UNCHANGED <<dirVars, indexed, settled, procVars, lock, acked>>

\* ... whose syncDir is not checked. Publish reports the first error.
UndoSync(p) ==
    /\ pc[p] = "undoSync"
    /\ \/ RootSynced /\ UNCHANGED faults
       \/ Fault /\ UNCHANGED <<onDisk, settled>>
    /\ Return(p, "failed")
    /\ UNCHANGED <<dirVars, current, indexed, procVars, acked>>

\* rollbackCurrent without a saved index: remove current.json, unchecked and
\* unsynced.
DiscardIndex(p) ==
    /\ pc[p] = "discard"
    /\ \/ /\ current' = NoIndex
          /\ onDisk' = onDisk \cup {NoReceipt}
          /\ UNCHANGED faults
       \/ Fault /\ UNCHANGED <<current, onDisk>>
    /\ Return(p, "failed")
    /\ UNCHANGED <<dirVars, indexed, settled, procVars, acked>>

Publish(p) ==
    \/ \E r \in Receipt : Begin(p, r)
    \/ LinkReceipt(p) \/ UnlinkTemp(p) \/ SyncReceipts(p)
    \/ OpenIndex(p) \/ ReadIndex(p) \/ RenameIndex(p) \/ SyncRoot(p)
    \/ UndoIndex(p) \/ UndoSync(p) \/ DiscardIndex(p)

-------------------------------------------------------------------------------
\* The process is killed between two system calls.
Kill(p) ==
    /\ pc[p] \in Active
    /\ Fault
    /\ Return(p, "crashed")
    /\ UNCHANGED <<dirVars, idxVars, procVars, acked>>

\* What a power loss may take of the directories: nothing, receipts/ or all.
MayGo(taken) ==
    /\ taken \in {{}, {"receipts"}, Dirs}
    /\ taken = {"receipts"} => "receipts" \notin settled
    /\ taken = Dirs => "root" \notin settled

\* Power is lost: everything that runs dies, names and directories that were
\* not synced may be gone, and current.json is one of the files that may be on
\* disk. What comes back after it is on disk.
PowerLoss ==
    /\ Fault
    /\ pc' = [p \in Proc |-> IF pc[p] \in Active THEN "crashed" ELSE pc[p]]
    /\ lock' = NoProc
    /\ \E taken \in SUBSET Dirs :
        /\ MayGo(taken)
        /\ settled' = Dirs \ taken
        /\ lost' = IF Live = {} THEN lost ELSE lost \cup taken
        /\ \E kept \in SUBSET Live :
            /\ IF taken = {} THEN durable \subseteq kept ELSE kept = {}
            /\ durable' = kept
            /\ receipts' = [r \in Receipt |->
                              IF r \in kept THEN receipts[r] ELSE "absent"]
        /\ \E c \in IF taken = Dirs THEN {NoReceipt} ELSE onDisk :
            /\ current' = [receipt |-> c, by |-> NoProc, via |-> "publish"]
            /\ onDisk' = {c}
    /\ UNCHANGED <<procVars, indexed, acked>>

Next == PowerLoss \/ \E p \in Proc : Publish(p) \/ Kill(p)

Spec == Init /\ [][Next]_vars

-------------------------------------------------------------------------------
(* Properties *)

\* No power loss has taken a directory with receipts in it.
Whole == lost = {}

\* Whatever the interleaving and whatever fails, current.json never names a
\* receipt that a power loss could take away on its own: Publish syncs
\* receipts/ before it touches the index, and rollbackCurrent puts back only
\* what was there. Only the loss of receipts/ as a whole, which no Publish has
\* acknowledged anything in yet, leaves the index dangling.
IndexNeverDangles ==
    /\ acked # {} => "receipts" \in settled \cup lost
    /\ Whole => /\ onDisk \ {NoReceipt} \subseteq durable
               /\ current.receipt \in onDisk
               /\ durable \subseteq Live

\* A Publish that returned a path left a receipt that no later crash removes,
\* unless a power loss takes the state directory itself, whose entry in its
\* parent nothing syncs: the sync of the state directory that acknowledges the
\* first receipt is also what makes receipts/ durable.
AckedIsDurable ==
    "root" \notin lost =>
        \A p \in Proc : pc[p] = "ok" =>
            /\ rcpt[p] \in durable /\ rcpt[p] \in indexed
            /\ "receipts" \in settled

\* A receipt name is claimed by one publication only: two processes never both
\* stand between the link of the same receipt and its index update, and none
\* does after the receipt has been current.
OneClaimPerReceipt ==
    \A p \in Proc : pc[p] \in Linked \cup Synced =>
        /\ rcpt[p] \in Live
        /\ Whole => rcpt[p] \notin indexed
        /\ \A q \in Proc \ {p} :
             pc[q] \in Linked \cup Synced => rcpt[q] # rcpt[p]

\* One failing call never leaves current.json naming a receipt whose
\* publication was reported as failed ("never claims an audit record exists").
SingleFaultRetracts ==
    faults <= 1 =>
        \A p \in Proc :
            pc[p] = "failed" => ~(current.by = p /\ current.via = "publish")

\* The receipts that were acknowledged before the Publish of another receipt
\* began, and that one has been acknowledged since.
Superseded == UNION {before[p] : p \in {q \in Proc : pc[q] = "ok"}}

\* "The current index resolves to the most recent receipt": it never names a
\* receipt after a later run has published its own.
CurrentIsMostRecent == current.receipt \notin Superseded

\* That holds as long as every publisher holds the run lock and no power loss
\* has taken what was acknowledged.
Serial == \A p \in Proc \ Locked : pc[p] = "idle"
CurrentIsMostRecentIfSerial == Serial /\ Whole => CurrentIsMostRecent

\* The store implements the abstract log: durable receipts only grow, every
\* receipt enters the index at most once and only when it is durable, any
\* other move of the index goes back to a value it had, or removes it, and all
\* of it goes at once or not at all, which is over when both directories are
\* durable.
Log == INSTANCE ReceiptLog WITH
    log <- durable, index <- current.receipt, indexed <- indexed,
    settled <- settled = Dirs, whole <- Whole
ImplementsLog == Log!LogSpec
===============================================================================
