-------------------------- MODULE ReceiptStoreProofs --------------------------
(***************************************************************************)
(* Proofs about ReceiptStore, for every set of processes and receipts and  *)
(* every number of faults.                                                 *)
(***************************************************************************)
EXTENDS ReceiptStore, TLAPS

Pending == Linked \cup Synced

\* What is on disk: whatever current.json is or may come back as is something
\* the index has named, and what was acknowledged goes with the state directory
\* only.
DiskInv ==
    /\ durable \subseteq Live
    /\ onDisk \ {NoReceipt} \subseteq indexed
    /\ current.receipt \in onDisk
    /\ acked \subseteq indexed
    /\ "root" \notin lost => acked \subseteq durable
    /\ acked # {} => "receipts" \in settled \/ lost = Dirs
    /\ "root" \in lost => lost = Dirs

\* What a process holds, at each step of its publication. All that runs dies
\* with the power, so that what it is about to name was linked, and synced,
\* after the last power loss.
ProcInv ==
    \A p \in Proc :
        /\ opened[p].receipt \in indexed \cup {NoReceipt}
        /\ prev[p] \in indexed \cup {NoReceipt}
        /\ pc[p] \in Pending => rcpt[p] \in Live
        /\ pc[p] \in Synced \cup {"syncRoot"} => rcpt[p] \in durable
        /\ pc[p] \in Renamed \cup {"ok"} => rcpt[p] \in indexed
        /\ pc[p] = "ok" => rcpt[p] \in acked
        /\ before[p] \subseteq acked

\* Two pending publications are of different receipts.
ClaimInv ==
    \A p, q \in Proc :
        p # q /\ pc[p] \in Pending /\ pc[q] \in Pending => rcpt[p] # rcpt[q]

\* Until a power loss takes a directory with receipts in it, everything the
\* index has named is durable, and what is pending has not been named.
WholeInv ==
    Whole =>
        /\ indexed \subseteq durable
        /\ \A p \in Proc : pc[p] \in Pending => rcpt[p] \notin indexed

\* The run lock is held by its publisher.
LockInv == \A p \in Locked : pc[p] \in Active => lock = p

IInv == TypeOK /\ DiskInv /\ ProcInv /\ ClaimInv /\ WholeInv

\* As long as publications are serial, nothing that may become current has
\* been superseded.
SerialInv ==
    Serial /\ Whole =>
        /\ onDisk \cap Superseded = {}
        /\ \A p \in Proc :
             /\ pc[p] = "readIndex" => opened[p].receipt \notin Superseded
             /\ pc[p] \in {"rename"} \cup Renamed => prev[p] \notin Superseded
             /\ pc[p] \in Renamed => rcpt[p] \notin before[p]
             /\ pc[p] = "syncRoot" => current.receipt = rcpt[p]

\* An index that a publication has put in place and not taken back means that
\* the publication goes on, succeeded, died, or met a second fault.
FaultInv ==
    \A p \in Proc :
        /\ current.by = p /\ current.via = "publish" =>
             \/ pc[p] \in {"syncRoot", "undo", "discard", "ok", "crashed"}
             \/ faults >= 2
        /\ pc[p] \in {"undo", "undoSync", "discard"} => faults >= 1

-------------------------------------------------------------------------------
(* Type correctness *)

\* Every reachable state is well typed: in particular a process never leaves
\* the steps of Publish, and no more faults happen than are counted.
THEOREM TypeCorrect == Spec => []TypeOK
<1>1. Init => TypeOK
  BY StoreAssumption DEF Init, TypeOK, Content, Index, NoIndex, PC, BeforeLink
<1>2. TypeOK /\ [Next]_vars => TypeOK'
  <2> SUFFICES ASSUME TypeOK, [Next]_vars
               PROVE  TypeOK'
    OBVIOUS
  <2> USE StoreAssumption DEF TypeOK, Content, Index, PC, BeforeLink, Linked,
          Synced, Renamed, Ended, Goto, Return, Unlock, Fault, FailWith,
          dirVars, idxVars, procVars
  <2>1. CASE PowerLoss
    <3>1. PICK kept \in SUBSET Live : /\ durable' = kept
                                      /\ receipts' = [r \in Receipt |->
                                           IF r \in kept THEN receipts[r] ELSE "absent"]
      BY <2>1, SMTT(60) DEF PowerLoss
    <3>2. PICK c \in onDisk \cup {NoReceipt} :
            /\ current' = [receipt |-> c, by |-> NoProc, via |-> "publish"]
            /\ onDisk' = {c}
      BY <2>1, SMTT(60) DEF PowerLoss
    <3>9. settled' \subseteq Dirs /\ lost' \subseteq Dirs
      BY <2>1 DEF PowerLoss
    <3>3. receipts' \in [Receipt -> {"absent", "linked", "final"}] /\ durable' \subseteq Receipt
      BY <3>1 DEF Live
    <3>4. pc' = [p \in Proc |-> IF pc[p] \in Active THEN "crashed" ELSE pc[p]]
      BY <2>1 DEF PowerLoss
    <3>5. pc' \in [Proc -> PC]
      BY <3>4
    <3>6. current' \in Index /\ onDisk' \subseteq Content
      BY <3>2
    <3>7. faults' \in 0..MaxFaults /\ lock' \in Proc \cup {NoProc}
      BY <2>1 DEF PowerLoss
    <3>8. /\ UNCHANGED <<rcpt, opened, prev, before, indexed, acked>>
          /\ \A p \in Proc : pc'[p] # "idle" => pc[p] # "idle"
      BY <2>1, <3>4 DEF PowerLoss, Active
    <3> QED
      BY <3>3, <3>5, <3>6, <3>7, <3>8, <3>9
  <2>2. ASSUME NEW p \in Proc, Kill(p) PROVE TypeOK'
    BY <2>2 DEF Kill, Active
  <2>3. ASSUME NEW p \in Proc, NEW r \in Receipt, Begin(p, r) PROVE TypeOK'
    BY <2>3 DEF Begin
  <2>4. ASSUME NEW p \in Proc, LinkReceipt(p) PROVE TypeOK'
    BY <2>4 DEF LinkReceipt
  <2>5. ASSUME NEW p \in Proc, UnlinkTemp(p) PROVE TypeOK'
    BY <2>5 DEF UnlinkTemp
  <2>6. ASSUME NEW p \in Proc, SyncReceipts(p) PROVE TypeOK'
    BY <2>6 DEF SyncReceipts, Live
  <2>7. ASSUME NEW p \in Proc, OpenIndex(p) PROVE TypeOK'
    <3>a. pc[p] # "idle"
      BY <2>7 DEF OpenIndex
    <3>1. CASE Fault /\ FailWith(p)
      BY <3>1, <3>a
    <3>2. CASE /\ opened' = [opened EXCEPT ![p] = current]
               /\ prev' = [prev EXCEPT ![p] = NoReceipt]
               /\ Goto(p, IF current = NoIndex THEN "rename" ELSE "readIndex")
               /\ UNCHANGED <<dirVars, idxVars, rcpt, before, lock, faults, acked>>
      <4>1. opened' \in [Proc -> Index] /\ prev' \in [Proc -> Content]
        BY <3>2
      <4>2. pc' \in [Proc -> PC] /\ \A q \in Proc : pc'[q] # "idle" => q = p \/ pc[q] # "idle"
        BY <3>2
      <4> QED
        BY <3>2, <3>a, <4>1, <4>2
    <3> QED
      BY <2>7, <3>1, <3>2 DEF OpenIndex
  <2>8. ASSUME NEW p \in Proc, ReadIndex(p) PROVE TypeOK'
    BY <2>8 DEF ReadIndex
  <2>9. ASSUME NEW p \in Proc, RenameIndex(p) PROVE TypeOK'
    BY <2>9 DEF RenameIndex
  <2>10. ASSUME NEW p \in Proc, SyncRoot(p) PROVE TypeOK'
    <3>1. onDisk' \subseteq Content /\ settled' \subseteq Dirs
      BY <2>10 DEF SyncRoot, RootSynced, Dirs
    <3> QED
      BY <2>10, <3>1 DEF SyncRoot
  <2>11. ASSUME NEW p \in Proc, UndoIndex(p) PROVE TypeOK'
    BY <2>11 DEF UndoIndex
  <2>12. ASSUME NEW p \in Proc, UndoSync(p) PROVE TypeOK'
    <3>1. onDisk' \subseteq Content /\ settled' \subseteq Dirs
      BY <2>12 DEF UndoSync, RootSynced, Dirs
    <3> QED
      BY <2>12, <3>1 DEF UndoSync
  <2>13. ASSUME NEW p \in Proc, DiscardIndex(p) PROVE TypeOK'
    BY <2>13 DEF DiscardIndex, NoIndex
  <2>14. CASE UNCHANGED vars
    BY <2>14 DEF vars
  <2> QED
    BY <2>1, <2>2, <2>3, <2>4, <2>5, <2>6, <2>7, <2>8, <2>9, <2>10, <2>11,
       <2>12, <2>13, <2>14 DEF Next, Publish
<1> QED
  BY <1>1, <1>2, PTL DEF Spec

-------------------------------------------------------------------------------
(* The index never dangles *)

\* The initial state satisfies the inductive invariant.
LEMMA IInvInit == Init => IInv
<1> SUFFICES ASSUME Init PROVE IInv
  OBVIOUS
<1>1. TypeOK
  BY StoreAssumption DEF Init, TypeOK, Content, Index, NoIndex, PC, BeforeLink
<1>2. \A p \in Proc : pc[p] = "idle"
  BY DEF Init
<1>3. DiskInv
  BY DEF Init, DiskInv, NoIndex, Live
<1>4. ProcInv /\ ClaimInv /\ WholeInv
  BY <1>2 DEF Init, ProcInv, ClaimInv, WholeInv, Pending, Linked, Synced, Renamed, NoIndex
<1> QED
  BY <1>1, <1>3, <1>4 DEF IInv

\* The part of IInv that is proved step by step.
StepInv == DiskInv /\ ProcInv /\ ClaimInv /\ WholeInv

\* A process that stops, at whatever step and for whatever reason, keeps the
\* invariant as long as it has changed no more than the durable names.
LEMMA StopKeepsInv ==
    ASSUME IInv, NEW p \in Proc, NEW end \in {"failed", "crashed"},
           Goto(p, end), pc[p] # "idle",
           durable \subseteq durable', durable' \subseteq Live,
           UNCHANGED <<receipts, lost, idxVars, procVars, acked>>
    PROVE  StepInv'
<1> USE DEF IInv, TypeOK, Goto, idxVars, procVars
<1>1. /\ Live' = Live /\ Whole' = Whole
      /\ \A q \in Proc : pc'[q] \in Pending \cup Renamed \cup {"ok"} =>
                            q # p /\ pc'[q] = pc[q]
  BY DEF Pending, Linked, Synced, Renamed, Live, Whole
<1>2. DiskInv'
  BY <1>1 DEF DiskInv
<1>3. ProcInv'
  BY <1>1 DEF ProcInv, Pending, Renamed
<1>4. ClaimInv'
  BY <1>1 DEF ClaimInv
<1>5. WholeInv'
  BY <1>1 DEF WholeInv
<1> QED
  BY <1>2, <1>3, <1>4, <1>5 DEF StepInv

\* Every step keeps the inductive invariant.
LEMMA IInvStep == IInv /\ TypeOK' /\ [Next]_vars => IInv'
<1> SUFFICES ASSUME IInv, TypeOK', [Next]_vars
             PROVE  StepInv'
  BY DEF IInv, StepInv
<1> USE StoreAssumption DEF IInv, TypeOK, Goto, Return, dirVars, idxVars, procVars
<1>1. ASSUME NEW p \in Proc, Kill(p) PROVE StepInv'
  BY <1>1, StopKeepsInv DEF Kill, Active, Linked, Synced, Renamed, DiskInv
<1>2. ASSUME NEW p \in Proc, NEW r \in Receipt, Begin(p, r) PROVE StepInv'
  <2>1. /\ UNCHANGED <<receipts, durable, lost, settled, current, onDisk, indexed, acked>>
        /\ Live' = Live /\ Whole' = Whole
    BY <1>2 DEF Begin, Live, Whole
  <2>2. \A q \in Proc : pc'[q] \in Pending \cup Renamed \cup {"ok"} =>
                          q # p /\ pc'[q] = pc[q] /\ rcpt'[q] = rcpt[q]
    BY <1>2 DEF Begin, Pending, Linked, Synced, Renamed
  <2>3. DiskInv'
    BY <2>1 DEF DiskInv
  <2>4. \A q \in Proc : before'[q] \subseteq acked /\ prev'[q] = prev[q] /\ opened'[q] = opened[q]
    BY <1>2, <2>1 DEF Begin, ProcInv
  <2>5. ProcInv'
    BY <2>1, <2>2, <2>4 DEF ProcInv, Pending, Renamed
  <2>6. ClaimInv' /\ WholeInv'
    BY <2>1, <2>2 DEF ClaimInv, WholeInv
  <2> QED
    BY <2>3, <2>5, <2>6 DEF StepInv
<1>3. ASSUME NEW p \in Proc, LinkReceipt(p) PROVE StepInv'
  <2>1. CASE FailWith(p)
    BY <1>3, <2>1, StopKeepsInv DEF LinkReceipt, FailWith, DiskInv
  <2>2. CASE ~FailWith(p)
    <3> USE DEF Pending, Linked, Synced, Renamed, Live
    <3>1. DiskInv'
      BY <1>3, <2>2 DEF LinkReceipt, DiskInv
    <3>2. ProcInv'
      BY <1>3, <2>2 DEF LinkReceipt, DiskInv, ProcInv
    <3>3. ClaimInv'
      BY <1>3, <2>2 DEF LinkReceipt, ClaimInv, ProcInv
    <3>4. WholeInv'
      BY <1>3, <2>2 DEF LinkReceipt, WholeInv, Whole, DiskInv, ProcInv, ClaimInv
    <3> QED
      BY <3>1, <3>2, <3>3, <3>4 DEF StepInv
  <2> QED
    BY <2>1, <2>2
<1>4. ASSUME NEW p \in Proc, UnlinkTemp(p) PROVE StepInv'
  <2>1. CASE FailWith(p)
    BY <1>4, <2>1, StopKeepsInv DEF UnlinkTemp, FailWith, DiskInv
  <2>2. CASE ~FailWith(p)
    <3> USE DEF Pending, Linked, Synced, Renamed, Live
    <3>1. DiskInv'
      BY <1>4, <2>2 DEF UnlinkTemp, DiskInv
    <3>2. ProcInv'
      BY <1>4, <2>2 DEF UnlinkTemp, DiskInv, ProcInv
    <3>3. ClaimInv'
      BY <1>4, <2>2 DEF UnlinkTemp, ClaimInv, ProcInv
    <3>4. WholeInv'
      BY <1>4, <2>2 DEF UnlinkTemp, WholeInv, Whole, DiskInv, ProcInv, ClaimInv
    <3> QED
      BY <3>1, <3>2, <3>3, <3>4 DEF StepInv
  <2> QED
    BY <2>1, <2>2
<1>5. ASSUME NEW p \in Proc, OpenIndex(p) PROVE StepInv'
  <2>1. CASE FailWith(p)
    BY <1>5, <2>1, StopKeepsInv DEF OpenIndex, FailWith, DiskInv
  <2>2. CASE ~FailWith(p)
    <3> USE DEF Pending, Linked, Synced, Renamed, Live
    <3>1. DiskInv'
      BY <1>5, <2>2 DEF OpenIndex, DiskInv
    <3>2. ProcInv'
      BY <1>5, <2>2 DEF OpenIndex, DiskInv, ProcInv
    <3>3. ClaimInv'
      BY <1>5, <2>2 DEF OpenIndex, ClaimInv, ProcInv
    <3>4. WholeInv'
      BY <1>5, <2>2 DEF OpenIndex, WholeInv, Whole, DiskInv, ProcInv, ClaimInv
    <3> QED
      BY <3>1, <3>2, <3>3, <3>4 DEF StepInv
  <2> QED
    BY <2>1, <2>2
<1>6. ASSUME NEW p \in Proc, ReadIndex(p) PROVE StepInv'
  <2>1. CASE FailWith(p)
    BY <1>6, <2>1, StopKeepsInv DEF ReadIndex, FailWith, DiskInv
  <2>2. CASE ~FailWith(p)
    <3> USE DEF Pending, Linked, Synced, Renamed, Live
    <3>1. DiskInv'
      BY <1>6, <2>2 DEF ReadIndex, DiskInv
    <3>2. ProcInv'
      BY <1>6, <2>2 DEF ReadIndex, DiskInv, ProcInv
    <3>3. ClaimInv'
      BY <1>6, <2>2 DEF ReadIndex, ClaimInv, ProcInv
    <3>4. WholeInv'
      BY <1>6, <2>2 DEF ReadIndex, WholeInv, Whole, DiskInv, ProcInv, ClaimInv
    <3> QED
      BY <3>1, <3>2, <3>3, <3>4 DEF StepInv
  <2> QED
    BY <2>1, <2>2
<1>7. ASSUME NEW p \in Proc, RenameIndex(p) PROVE StepInv'
  <2>1. CASE FailWith(p)
    BY <1>7, <2>1, StopKeepsInv DEF RenameIndex, FailWith, DiskInv
  <2>2. CASE ~FailWith(p)
    <3> USE DEF Pending, Linked, Synced, Renamed, Live
    <3>1. DiskInv'
      BY <1>7, <2>2 DEF RenameIndex, DiskInv
    <3>2. ProcInv'
      BY <1>7, <2>2 DEF RenameIndex, DiskInv, ProcInv
    <3>3. ClaimInv'
      BY <1>7, <2>2 DEF RenameIndex, ClaimInv, ProcInv
    <3>4. WholeInv'
      BY <1>7, <2>2 DEF RenameIndex, WholeInv, Whole, DiskInv, ProcInv, ClaimInv
    <3> QED
      BY <3>1, <3>2, <3>3, <3>4 DEF StepInv
  <2> QED
    BY <2>1, <2>2
<1>8. ASSUME NEW p \in Proc, SyncReceipts(p) PROVE StepInv'
  <2>1. durable \subseteq durable' /\ durable' \subseteq Live
    BY <1>8 DEF SyncReceipts, Live, DiskInv
  <2>2. CASE Goto(p, "failed")
    BY <1>8, <2>1, <2>2, StopKeepsInv DEF SyncReceipts
  <2>3. CASE Goto(p, "openIndex") /\ durable' = Live
    <3> USE DEF Pending, Linked, Synced, Renamed, Live
    <3>1. DiskInv'
      BY <1>8, <2>3 DEF SyncReceipts, DiskInv
    <3>2. ProcInv'
      BY <1>8, <2>3 DEF SyncReceipts, DiskInv, ProcInv
    <3>3. ClaimInv'
      BY <1>8, <2>3 DEF SyncReceipts, ClaimInv
    <3>4. WholeInv'
      BY <1>8, <2>3 DEF SyncReceipts, DiskInv, WholeInv, Whole
    <3> QED
      BY <3>1, <3>2, <3>3, <3>4 DEF StepInv
  <2> QED
    BY <1>8, <2>2, <2>3 DEF SyncReceipts
<1>9. ASSUME NEW p \in Proc, SyncRoot(p) PROVE StepInv'
  <2>1. /\ Live' = Live /\ lost' = lost /\ Whole' = Whole
        /\ \A q \in Proc : pc'[q] \in Pending => q # p /\ pc'[q] = pc[q]
    BY <1>9 DEF SyncRoot, Pending, Linked, Synced, Live, Whole
  <2>2. DiskInv'
    BY <1>9, <2>1 DEF SyncRoot, RootSynced, DiskInv, ProcInv, Renamed
  <2>3. ProcInv'
    BY <1>9, <2>1 DEF SyncRoot, ProcInv, DiskInv, Renamed, Pending, Linked, Synced
  <2>4. ClaimInv'
    BY <1>9, <2>1 DEF SyncRoot, ClaimInv
  <2>5. WholeInv'
    BY <1>9, <2>1 DEF SyncRoot, WholeInv
  <2> QED
    BY <2>2, <2>3, <2>4, <2>5 DEF StepInv
<1>10. ASSUME NEW p \in Proc, UndoIndex(p) PROVE StepInv'
  <2>1. /\ Live' = Live /\ lost' = lost /\ Whole' = Whole
        /\ \A q \in Proc : pc'[q] \in Pending => q # p /\ pc'[q] = pc[q]
    BY <1>10 DEF UndoIndex, Pending, Linked, Synced, Live, Whole
  <2>2. DiskInv'
    BY <1>10, <2>1 DEF UndoIndex, DiskInv, ProcInv, Renamed
  <2>3. ProcInv'
    BY <1>10, <2>1 DEF UndoIndex, ProcInv, DiskInv, Renamed, Pending, Linked, Synced
  <2>4. ClaimInv'
    BY <1>10, <2>1 DEF UndoIndex, ClaimInv
  <2>5. WholeInv'
    BY <1>10, <2>1 DEF UndoIndex, WholeInv
  <2> QED
    BY <2>2, <2>3, <2>4, <2>5 DEF StepInv
<1>11. ASSUME NEW p \in Proc, UndoSync(p) PROVE StepInv'
  <2>1. /\ Live' = Live /\ lost' = lost /\ Whole' = Whole
        /\ \A q \in Proc : pc'[q] \in Pending => q # p /\ pc'[q] = pc[q]
    BY <1>11 DEF UndoSync, Pending, Linked, Synced, Live, Whole
  <2>2. DiskInv'
    BY <1>11, <2>1 DEF UndoSync, RootSynced, DiskInv, ProcInv, Renamed
  <2>3. ProcInv'
    BY <1>11, <2>1 DEF UndoSync, ProcInv, DiskInv, Renamed, Pending, Linked, Synced
  <2>4. ClaimInv'
    BY <1>11, <2>1 DEF UndoSync, ClaimInv
  <2>5. WholeInv'
    BY <1>11, <2>1 DEF UndoSync, WholeInv
  <2> QED
    BY <2>2, <2>3, <2>4, <2>5 DEF StepInv
<1>12. ASSUME NEW p \in Proc, DiscardIndex(p) PROVE StepInv'
  <2>1. /\ Live' = Live /\ lost' = lost /\ Whole' = Whole
        /\ \A q \in Proc : pc'[q] \in Pending => q # p /\ pc'[q] = pc[q]
    BY <1>12 DEF DiscardIndex, Pending, Linked, Synced, Live, Whole
  <2>2. DiskInv'
    BY <1>12, <2>1 DEF DiscardIndex, NoIndex, DiskInv, ProcInv, Renamed
  <2>3. ProcInv'
    BY <1>12, <2>1 DEF DiscardIndex, NoIndex, ProcInv, DiskInv, Renamed, Pending, Linked, Synced
  <2>4. ClaimInv'
    BY <1>12, <2>1 DEF DiscardIndex, ClaimInv
  <2>5. WholeInv'
    BY <1>12, <2>1 DEF DiscardIndex, WholeInv
  <2> QED
    BY <2>2, <2>3, <2>4, <2>5 DEF StepInv
<1>13. CASE PowerLoss
  <2>1. PICK taken \in SUBSET Dirs :
          /\ MayGo(taken)
          /\ settled' = Dirs \ taken
          /\ lost' = IF Live = {} THEN lost ELSE lost \cup taken
          /\ \E kept \in SUBSET Live :
              /\ IF taken = {} THEN durable \subseteq kept ELSE kept = {}
              /\ durable' = kept
              /\ receipts' = [r \in Receipt |->
                                IF r \in kept THEN receipts[r] ELSE "absent"]
          /\ \E c \in IF taken = Dirs THEN {NoReceipt} ELSE onDisk :
              /\ current' = [receipt |-> c, by |-> NoProc, via |-> "publish"]
              /\ onDisk' = {c}
    BY <1>13 DEF PowerLoss
  <2>2. UNCHANGED <<rcpt, opened, prev, before, indexed, acked>>
    BY <1>13 DEF PowerLoss
  <2>3. ASSUME NEW p \in Proc
        PROVE  /\ pc'[p] \notin Pending /\ pc'[p] \notin Synced /\ pc'[p] \notin Renamed
               /\ pc'[p] # "syncRoot"
               /\ pc'[p] = "ok" => pc[p] = "ok"
    BY <1>13 DEF PowerLoss, Active, Pending, Linked, Synced, Renamed
  <2>4. durable' = Live' /\ durable' \subseteq Live /\ (taken = {} => durable \subseteq durable')
    BY <2>1 DEF Live
  <2>5. DiskInv'
    <3>1. onDisk' = {current'.receipt} /\ onDisk' \subseteq onDisk \cup {NoReceipt}
      BY <2>1
    <3>2. "root" \notin lost' => acked \subseteq durable'
      <4> SUFFICES ASSUME acked # {}, "root" \notin lost' PROVE acked \subseteq durable'
        OBVIOUS
      <4>1. "root" \notin lost /\ "receipts" \in settled /\ acked \subseteq durable /\ Live # {}
        BY <2>1 DEF DiskInv, Dirs
      <4>2. taken = {}
        BY <2>1, <4>1 DEF MayGo, Dirs
      <4> QED
        BY <2>4, <4>1, <4>2
    <3>3. acked # {} => "receipts" \in settled' \/ lost' = Dirs
      <4> SUFFICES ASSUME acked # {}, lost # Dirs PROVE "receipts" \in settled' \/ lost' = Dirs
        BY <2>1
      <4>1. "receipts" \in settled /\ Live # {}
        BY DEF DiskInv
      <4> QED
        BY <2>1, <4>1 DEF MayGo, Dirs
    <3>4. "root" \in lost' => lost' = Dirs
      BY <2>1 DEF DiskInv, MayGo, Dirs
    <3> QED
      BY <2>2, <2>4, <3>1, <3>2, <3>3, <3>4 DEF DiskInv
  <2>6. ProcInv'
    BY <2>2, <2>3 DEF ProcInv
  <2>7. ClaimInv'
    BY <2>3 DEF ClaimInv
  <2>8. WholeInv'
    <3> SUFFICES ASSUME Whole' PROVE indexed \subseteq durable'
      BY <2>2, <2>3 DEF WholeInv
    <3>1. Whole /\ (Live = {} \/ taken = {})
      BY <2>1 DEF Whole
    <3> QED
      BY <2>4, <3>1 DEF WholeInv, DiskInv
  <2> QED
    BY <2>5, <2>6, <2>7, <2>8 DEF StepInv
<1>14. CASE UNCHANGED vars
  <2>1. Live' = Live /\ Whole' = Whole
    BY <1>14 DEF vars, Live, Whole
  <2> QED
    BY <1>14, <2>1 DEF vars, StepInv, DiskInv, ProcInv, ClaimInv, WholeInv
<1> QED
  BY <1>1, <1>2, <1>3, <1>4, <1>5, <1>6, <1>7,
     <1>8, <1>9, <1>10, <1>11, <1>12, <1>13, <1>14 DEF Next, Publish

\* The inductive invariant holds of every reachable state.
LEMMA IInvHolds == Spec => []IInv
<1>1. IInv /\ TypeOK' /\ [Next]_vars => IInv'
  BY IInvStep
<1> QED
  BY IInvInit, TypeCorrect, <1>1, PTL DEF Spec

\* Whatever the number of publishers, interleaved in whatever way, and however
\* many calls fail, processes die or power losses happen, current.json names a
\* durable receipt or nothing, until a power loss takes a directory, made and
\* not synced; and receipts/ is synced in the state directory before anything
\* is acknowledged.
THEOREM NeverDangles == Spec => []IndexNeverDangles
<1>1. IInv => IndexNeverDangles
  BY DEF IInv, DiskInv, WholeInv, IndexNeverDangles, Dirs
<1> QED
  BY <1>1, IInvHolds, PTL

\* A publication that succeeded left a durable receipt in a durable receipts/,
\* for good, or as long as the state directory stays, which nothing syncs.
THEOREM AckedStaysDurable == Spec => []AckedIsDurable
<1>1. IInv => AckedIsDurable
  BY DEF IInv, DiskInv, ProcInv, AckedIsDurable, Dirs
<1> QED
  BY <1>1, IInvHolds, PTL

\* link(2) without replacement gives a receipt to one publication at most.
THEOREM OneClaim == Spec => []OneClaimPerReceipt
<1>1. IInv => OneClaimPerReceipt
  BY DEF IInv, ProcInv, ClaimInv, WholeInv, OneClaimPerReceipt, Pending
<1> QED
  BY <1>1, IInvHolds, PTL

-------------------------------------------------------------------------------
(* Refinement: the store implements the abstract log *)

\* What the directories add to a step: they stay as they are, or are settled.
LEMMA DirsStep ==
    ASSUME TypeOK, [Next]_vars, ~PowerLoss
    PROVE  /\ Whole' = Whole
           /\ settled = Dirs => settled' = Dirs
<1> USE DEF dirVars, idxVars, procVars, FailWith, RootSynced, Whole
<1>1. lost' = lost /\ (settled' = settled \/ settled' = settled \cup {"receipts"})
  BY DEF Next, Publish, Kill, Begin, LinkReceipt, UnlinkTemp, SyncReceipts, OpenIndex,
     ReadIndex, RenameIndex, SyncRoot, UndoIndex, UndoSync, DiscardIndex, vars
<1> QED
  BY <1>1 DEF Dirs, TypeOK

\* A step that keeps a promise of the log and takes no directory.
LEMMA PromisedStep ==
    ASSUME Log!Promised \/ UNCHANGED <<durable, current.receipt, indexed>>,
           durable \subseteq Receipt, indexed \subseteq Receipt,
           Whole' = Whole, settled = Dirs => settled' = Dirs
    PROVE  [Log!LogNext]_(Log!logVars)
<1>1. CASE ~Whole
  BY <1>1 DEF Log!LogNext
<1>2. CASE Whole /\ UNCHANGED <<durable, current.receipt, indexed>>
  <2>1. Log!Promised
    BY <1>2 DEF Log!Promised, Log!Commit
  <2> QED
    BY <1>2, <2>1 DEF Log!LogNext
<1>3. CASE Whole /\ Log!Promised
  BY <1>3 DEF Log!LogNext
<1> QED
  BY <1>1, <1>2, <1>3

\* Every step of the store is a step of the log, or changes nothing of it.
LEMMA LogStep == IInv /\ TypeOK' /\ IInv' /\ [Next]_vars => [Log!LogNext]_(Log!logVars)
<1> SUFFICES ASSUME IInv, TypeOK', IInv', [Next]_vars
             PROVE  [Log!LogNext]_(Log!logVars)
  OBVIOUS
<1> USE DEF dirVars, idxVars, procVars
<1>1. CASE PowerLoss
  <2>1. CASE ~Whole
    BY <1>1, <2>1 DEF PowerLoss, Log!LogNext, Whole
  <2>2. CASE Whole /\ ~Whole'
    <3>1. settled # Dirs
      BY <1>1, <2>2 DEF PowerLoss, MayGo, Whole, Dirs
    <3> QED
      BY <2>2, <3>1 DEF Log!LogNext, Log!Vanish
  <2>3. CASE Whole /\ Whole'
    <3>1. DiskInv /\ DiskInv' /\ WholeInv /\ indexed' = indexed /\ durable' \in SUBSET Receipt
      BY <1>1, <2>3 DEF PowerLoss, IInv, TypeOK
    <3>2. settled = Dirs => settled' = Dirs
      BY <1>1 DEF PowerLoss, MayGo, Dirs
    <3>3. current'.receipt \in indexed \cup {NoReceipt}
      BY <3>1 DEF DiskInv
    <3>4. durable \subseteq durable'
      <4>1. CASE Live = {}
        BY <3>1, <4>1 DEF DiskInv
      <4>2. CASE Live # {}
        BY <1>1, <2>3, <4>2 DEF PowerLoss, Whole
      <4> QED
        BY <4>1, <4>2
    <3>5. Log!Retract
      BY <3>1, <3>3, <3>4 DEF Log!Retract
    <3> QED
      BY <2>3, <3>2, <3>5 DEF Log!LogNext, Log!Promised
  <2> QED
    BY <2>1, <2>2, <2>3
<1>2. ASSUME ~PowerLoss
      PROVE  /\ Whole' = Whole
             /\ settled = Dirs => settled' = Dirs
             /\ durable \subseteq Receipt /\ indexed \subseteq Receipt
  BY <1>2, DirsStep DEF IInv, TypeOK
<1>3. CASE ~Whole /\ ~PowerLoss
  BY <1>2, <1>3 DEF Log!LogNext
<1>4. ASSUME Whole, ~PowerLoss
      PROVE  Log!Promised \/ UNCHANGED <<durable, current.receipt, indexed>>
  <2> USE <1>4
  <2>1. CASE UNCHANGED <<durable, current, indexed>>
    BY <2>1
  <2>2. ASSUME NEW p \in Proc, SyncReceipts(p) PROVE Log!Promised
    <3>1. durable' \in SUBSET Receipt /\ durable \subseteq durable'
      BY <2>2 DEF SyncReceipts, Live, IInv, DiskInv
    <3>2. UNCHANGED <<current, indexed>>
      BY <2>2 DEF SyncReceipts
    <3> QED
      BY <3>1, <3>2 DEF Log!Promised, Log!Commit
  <2>3. ASSUME NEW p \in Proc, RenameIndex(p), ~FailWith(p) PROVE Log!Promised
    <3>1. rcpt[p] \in Receipt /\ rcpt[p] \in durable \ indexed
      BY <2>3 DEF RenameIndex, IInv, TypeOK, ProcInv, WholeInv, Pending, Synced
    <3>2. /\ current'.receipt = rcpt[p]
          /\ indexed' = indexed \cup {rcpt[p]}
          /\ durable' = durable
      BY <2>3 DEF RenameIndex
    <3> QED
      BY <3>1, <3>2 DEF Log!Promised, Log!Advance
  <2>4. ASSUME NEW p \in Proc, UndoIndex(p) \/ DiscardIndex(p)
        PROVE  Log!Promised \/ UNCHANGED <<durable, current.receipt, indexed>>
    <3>1. current'.receipt \in indexed \cup {NoReceipt} \/ current' = current
      BY <2>4 DEF UndoIndex, DiscardIndex, NoIndex, IInv, ProcInv
    <3>2. durable' = durable /\ indexed' = indexed /\ durable \in SUBSET Receipt
      BY <2>4 DEF UndoIndex, DiscardIndex, IInv, TypeOK
    <3> QED
      BY <3>1, <3>2 DEF Log!Promised, Log!Retract
  <2>5. ASSUME NEW p \in Proc, RenameIndex(p), FailWith(p)
        PROVE  UNCHANGED <<durable, current, indexed>>
    BY <2>5 DEF FailWith
  <2>6. ASSUME NEW p \in Proc,
               \/ Kill(p) \/ (\E r \in Receipt : Begin(p, r)) \/ LinkReceipt(p)
               \/ UnlinkTemp(p) \/ OpenIndex(p) \/ ReadIndex(p)
               \/ SyncRoot(p) \/ UndoSync(p)
        PROVE  UNCHANGED <<durable, current, indexed>>
    BY <2>6 DEF Kill, Begin, LinkReceipt, UnlinkTemp, OpenIndex, ReadIndex,
       SyncRoot, UndoSync, FailWith
  <2> QED
    BY <2>1, <2>2, <2>3, <2>4, <2>5, <2>6 DEF Next, Publish, vars
<1> QED
  BY <1>1, <1>2, <1>3, <1>4, PromisedStep

\* Store.Publish, run by any number of processes with any number of faults,
\* implements the append-only log with an atomic index.
THEOREM StoreImplementsLog == Spec => ImplementsLog
<1>1. Init => Log!LogInit
  BY DEF Init, NoIndex, Log!LogInit, Whole
<1>2. IInv /\ TypeOK' /\ IInv' /\ [Next]_vars => [Log!LogNext]_(Log!logVars)
  BY LogStep
<1> QED
  BY <1>1, <1>2, TypeCorrect, IInvHolds, PTL DEF Spec, ImplementsLog, Log!LogSpec

-------------------------------------------------------------------------------
(* One failing call takes the index back *)

\* Faults are counted before what they lead to.
LEMMA FaultInvStep == IInv /\ FaultInv /\ [Next]_vars => FaultInv'
<1> SUFFICES ASSUME IInv, FaultInv, [Next]_vars
             PROVE  FaultInv'
  OBVIOUS
<1> USE StoreAssumption DEF IInv, TypeOK, FaultInv, Goto, Return, Fault,
        FailWith, idxVars, Index
<1>1. CASE PowerLoss
  BY <1>1 DEF PowerLoss, Active, Linked, Synced, Renamed
<1>2. ASSUME NEW p \in Proc, Kill(p) PROVE FaultInv'
  BY <1>2 DEF Kill
<1>3. ASSUME NEW p \in Proc, NEW r \in Receipt, Begin(p, r) PROVE FaultInv'
  BY <1>3 DEF Begin
<1>4. ASSUME NEW p \in Proc, LinkReceipt(p) PROVE FaultInv'
  BY <1>4 DEF LinkReceipt
<1>5. ASSUME NEW p \in Proc, UnlinkTemp(p) PROVE FaultInv'
  BY <1>5 DEF UnlinkTemp
<1>6. ASSUME NEW p \in Proc, SyncReceipts(p) PROVE FaultInv'
  BY <1>6 DEF SyncReceipts
<1>7. ASSUME NEW p \in Proc, OpenIndex(p) PROVE FaultInv'
  BY <1>7 DEF OpenIndex
<1>8. ASSUME NEW p \in Proc, ReadIndex(p) PROVE FaultInv'
  BY <1>8 DEF ReadIndex
<1>9. ASSUME NEW p \in Proc, RenameIndex(p) PROVE FaultInv'
  BY <1>9 DEF RenameIndex
<1>10. ASSUME NEW p \in Proc, SyncRoot(p) PROVE FaultInv'
  BY <1>10 DEF SyncRoot
<1>11. ASSUME NEW p \in Proc, UndoIndex(p) PROVE FaultInv'
  BY <1>11 DEF UndoIndex
<1>12. ASSUME NEW p \in Proc, UndoSync(p) PROVE FaultInv'
  BY <1>12 DEF UndoSync
<1>13. ASSUME NEW p \in Proc, DiscardIndex(p) PROVE FaultInv'
  BY <1>13 DEF DiscardIndex, NoIndex
<1>14. CASE UNCHANGED vars
  BY <1>14 DEF vars
<1> QED
  BY <1>1, <1>2, <1>3, <1>4, <1>5, <1>6, <1>7, <1>8, <1>9, <1>10, <1>11, <1>12,
     <1>13, <1>14 DEF Next, Publish

\* A publication reported as failed does not stay current after one fault.
THEOREM OneFaultRetracts == Spec => []SingleFaultRetracts
<1>1. Init => FaultInv
  <2> SUFFICES ASSUME Init, NEW p \in Proc
               PROVE  pc[p] = "idle" /\ current.by # p
    BY DEF FaultInv
  <2> QED
    BY StoreAssumption DEF Init, NoIndex
<1>2. IInv /\ FaultInv /\ [Next]_vars => FaultInv'
  BY FaultInvStep
<1>3. IInv /\ FaultInv => SingleFaultRetracts
  <2> SUFFICES ASSUME IInv, FaultInv, faults <= 1, NEW p \in Proc, pc[p] = "failed"
               PROVE  ~(current.by = p /\ current.via = "publish")
    BY DEF SingleFaultRetracts
  <2>1. ~(faults >= 2)
    BY DEF IInv, TypeOK
  <2> QED
    BY <2>1 DEF FaultInv
<1> QED
  BY <1>1, <1>2, <1>3, IInvHolds, PTL DEF Spec

-------------------------------------------------------------------------------
(* Under the run lock the index resolves to the most recent receipt *)

\* A publisher that takes the run lock holds it until it stops.
LEMMA LockInvStep == IInv /\ LockInv /\ [Next]_vars => LockInv'
<1> SUFFICES ASSUME IInv, LockInv, [Next]_vars
             PROVE  LockInv'
  OBVIOUS
<1> USE StoreAssumption DEF IInv, TypeOK, LockInv, Goto, Return, Unlock,
        FailWith, Active, Linked, Synced, Renamed
<1>1. CASE PowerLoss
  BY <1>1 DEF PowerLoss
<1>2. ASSUME NEW p \in Proc, Kill(p) PROVE LockInv'
  BY <1>2 DEF Kill
<1>3. ASSUME NEW p \in Proc, NEW r \in Receipt, Begin(p, r) PROVE LockInv'
  BY <1>3 DEF Begin
<1>4. ASSUME NEW p \in Proc, LinkReceipt(p) PROVE LockInv'
  BY <1>4 DEF LinkReceipt
<1>5. ASSUME NEW p \in Proc, UnlinkTemp(p) PROVE LockInv'
  BY <1>5 DEF UnlinkTemp
<1>6. ASSUME NEW p \in Proc, SyncReceipts(p) PROVE LockInv'
  BY <1>6 DEF SyncReceipts
<1>7. ASSUME NEW p \in Proc, OpenIndex(p) PROVE LockInv'
  BY <1>7 DEF OpenIndex
<1>8. ASSUME NEW p \in Proc, ReadIndex(p) PROVE LockInv'
  BY <1>8 DEF ReadIndex
<1>9. ASSUME NEW p \in Proc, RenameIndex(p) PROVE LockInv'
  BY <1>9 DEF RenameIndex
<1>10. ASSUME NEW p \in Proc, SyncRoot(p) PROVE LockInv'
  BY <1>10 DEF SyncRoot
<1>11. ASSUME NEW p \in Proc, UndoIndex(p) PROVE LockInv'
  BY <1>11 DEF UndoIndex
<1>12. ASSUME NEW p \in Proc, UndoSync(p) PROVE LockInv'
  BY <1>12 DEF UndoSync
<1>13. ASSUME NEW p \in Proc, DiscardIndex(p) PROVE LockInv'
  BY <1>13 DEF DiscardIndex
<1>14. CASE UNCHANGED vars
  BY <1>14 DEF vars
<1> QED
  BY <1>1, <1>2, <1>3, <1>4, <1>5, <1>6, <1>7, <1>8, <1>9, <1>10, <1>11, <1>12,
     <1>13, <1>14 DEF Next, Publish

\* While publications are serial, a step of a publisher finds no other under way.
LEMMA Alone ==
    ASSUME IInv, LockInv, Serial', [Next]_vars,
           NEW p \in Proc, pc'[p] # "idle", pc[p] \in Active \/ lock = NoProc
    PROVE  \A q \in Proc : q # p => pc[q] \notin Active
<1> SUFFICES ASSUME NEW q \in Proc, q # p, pc[q] \in Active
             PROVE  FALSE
  OBVIOUS
<1> USE DEF IInv, TypeOK, Active, Linked, Synced, Renamed
<1>1. pc'[q] # "idle"
  <2> USE DEF Goto, Return, FailWith
  <2>1. CASE PowerLoss
    BY <2>1 DEF PowerLoss
  <2>2. CASE \E o \in Proc : Kill(o)
    BY <2>2 DEF Kill
  <2>3. CASE \E o \in Proc : Publish(o)
    BY <2>3 DEF Publish, Begin, LinkReceipt, UnlinkTemp, SyncReceipts, OpenIndex,
       ReadIndex, RenameIndex, SyncRoot, UndoIndex, UndoSync, DiscardIndex
  <2> QED
    BY <2>1, <2>2, <2>3 DEF Next, vars
<1>2. q \in Locked /\ p \in Locked
  BY <1>1 DEF Serial
<1> QED
  BY <1>2, StoreAssumption DEF LockInv

\* What is superseded changes with an acknowledgement only ...
LEMMA SupersededSame ==
    ASSUME \A q \in Proc : /\ pc'[q] = "ok" <=> pc[q] = "ok"
                           /\ pc[q] = "ok" => before'[q] = before[q]
    PROVE  Superseded' = Superseded
BY DEF Superseded

\* ... and was acknowledged, hence current, before.
LEMMA SupersededWasIndexed == IInv => Superseded \subseteq acked /\ acked \subseteq indexed
BY DEF IInv, DiskInv, ProcInv, Superseded

\* The part of SerialInv that does not concern the step of one process.
SerialInvOf(p) ==
    /\ pc[p] = "readIndex" => opened[p].receipt \notin Superseded
    /\ pc[p] \in {"rename"} \cup Renamed => prev[p] \notin Superseded
    /\ pc[p] \in Renamed => rcpt[p] \notin before[p]
    /\ pc[p] = "syncRoot" => current.receipt = rcpt[p]

\* Every step keeps SerialInv.
LEMMA SerialInvStep ==
    IInv /\ IInv' /\ LockInv /\ SerialInv /\ [Next]_vars => SerialInv'
<1> SUFFICES ASSUME IInv, IInv', LockInv, SerialInv, [Next]_vars, Serial', Whole'
             PROVE  /\ onDisk' \cap Superseded' = {}
                    /\ \A q \in Proc : SerialInvOf(q)'
  BY DEF SerialInv, SerialInvOf
<1> DEFINE Goal == /\ onDisk' \cap Superseded' = {}
                   /\ \A q \in Proc : SerialInvOf(q)'
<1> USE DEF IInv, TypeOK
<1>0. Whole
  BY DirsStep DEF PowerLoss, Whole
<1> USE <1>0
<1>1. CASE UNCHANGED vars
  <2>1. Superseded' = Superseded /\ Serial
    BY <1>1, SupersededSame DEF vars, Serial
  <2> QED
    BY <1>1, <2>1 DEF vars, SerialInv, SerialInvOf
<1>2. CASE PowerLoss
  <2>1. Superseded' = Superseded
    BY <1>2, SupersededSame DEF PowerLoss, Active, Linked, Synced, Renamed, procVars
  <2>2. Serial /\ \A q \in Proc : pc'[q] \notin Active
    BY <1>2 DEF PowerLoss, Serial, Active, Linked, Synced, Renamed
  <2>3. onDisk' \subseteq onDisk \cup {NoReceipt} /\ NoReceipt \notin Superseded
    BY <1>2, SupersededWasIndexed, StoreAssumption DEF PowerLoss
  <2> QED
    BY <2>1, <2>2, <2>3 DEF SerialInv, SerialInvOf, Active, Linked, Synced, Renamed
<1>3. ASSUME NEW p \in Proc, Publish(p) \/ Kill(p)
      PROVE  Goal
  <2>1. /\ pc'[p] # "idle"
        /\ pc[p] \in Active \/ (pc[p] = "idle" /\ \E r \in Receipt : Begin(p, r))
        /\ \A q \in Proc : q # p => pc'[q] = pc[q]
    BY <1>3 DEF Publish, Kill, Begin, LinkReceipt, UnlinkTemp, SyncReceipts,
       OpenIndex, ReadIndex, RenameIndex, SyncRoot, UndoIndex, UndoSync,
       DiscardIndex, FailWith, Return, Goto, Active, Linked, Synced, Renamed
  <2>2. Serial /\ p \in Locked
    BY <2>1 DEF Serial
  <2>3. \A q \in Proc : q # p => pc[q] \notin Active
    BY <2>1, <2>2, Alone DEF Begin
  <2>4. \A q \in Proc : q # p => SerialInvOf(q)'
    BY <2>1, <2>3 DEF SerialInvOf, Active, Linked, Synced, Renamed
  <2>5. /\ onDisk \cap Superseded = {}
        /\ SerialInvOf(p)
    BY <2>2 DEF SerialInv, SerialInvOf
  <2>6. NoReceipt \notin Superseded
    BY SupersededWasIndexed, StoreAssumption
  <2>7. CASE pc'[p] # "ok"
    <3>1. Superseded' = Superseded
      <4>1. \A q \in Proc : pc[q] = "ok" => before'[q] = before[q]
        BY <1>3, <2>1 DEF Publish, Kill, Begin, LinkReceipt, UnlinkTemp,
           SyncReceipts, OpenIndex, ReadIndex, RenameIndex, SyncRoot, UndoIndex,
           UndoSync, DiscardIndex, FailWith, procVars
      <4> QED
        BY <2>1, <2>7, <4>1, SupersededSame DEF Active, Linked, Synced, Renamed
    <3>2. onDisk' \cap Superseded = {} /\ SerialInvOf(p)'
      <4> USE DEF SerialInvOf, Goto, Return, FailWith, Renamed, idxVars, procVars
      <4>1. CASE \/ Kill(p) \/ (\E r \in Receipt : Begin(p, r)) \/ LinkReceipt(p)
                 \/ UnlinkTemp(p) \/ SyncReceipts(p)
        BY <4>1, <2>5, <3>1 DEF Kill, Begin, LinkReceipt, UnlinkTemp, SyncReceipts
      <4>2. CASE OpenIndex(p)
        BY <4>2, <2>5, <2>6, <3>1 DEF OpenIndex, DiskInv
      <4>3. CASE ReadIndex(p)
        BY <4>3, <2>5, <3>1 DEF ReadIndex
      <4>4. CASE RenameIndex(p)
        <5>1. CASE FailWith(p)
          BY <4>4, <5>1, <2>5, <3>1 DEF RenameIndex
        <5>2. CASE ~FailWith(p)
          <6>1. rcpt[p] \notin Superseded /\ rcpt[p] \notin before[p]
            BY <4>4, SupersededWasIndexed DEF RenameIndex, ProcInv, WholeInv, Pending, Synced
          <6> QED
            BY <4>4, <5>2, <6>1, <2>5, <3>1 DEF RenameIndex
        <5> QED
          BY <5>1, <5>2
      <4>5. CASE SyncRoot(p)
        BY <4>5, <2>5, <2>7, <3>1 DEF SyncRoot, RootSynced, DiskInv
      <4>6. CASE UndoIndex(p)
        BY <4>6, <2>5, <3>1 DEF UndoIndex
      <4>7. CASE UndoSync(p)
        BY <4>7, <2>5, <3>1 DEF UndoSync, RootSynced, DiskInv
      <4>8. CASE DiscardIndex(p)
        BY <4>8, <2>5, <2>6, <3>1 DEF DiscardIndex
      <4> QED
        BY <1>3, <4>1, <4>2, <4>3, <4>4, <4>5, <4>6, <4>7, <4>8 DEF Publish
    <3> QED
      BY <2>4, <3>1, <3>2
  <2>8. CASE pc'[p] = "ok"
    <3>1. /\ pc[p] = "syncRoot"
          /\ onDisk' = {current.receipt}
          /\ before' = before
      BY <1>3, <2>8 DEF Publish, Kill, Begin, LinkReceipt, UnlinkTemp,
         SyncReceipts, OpenIndex, ReadIndex, RenameIndex, SyncRoot, UndoIndex,
         UndoSync, DiscardIndex, RootSynced, FailWith, Return, Goto, procVars
    <3>2. current.receipt = rcpt[p] /\ rcpt[p] \notin before[p]
      BY <3>1, <2>5 DEF SerialInvOf, Renamed
    <3>3. Superseded' \subseteq Superseded \cup before[p]
      BY <3>1, <2>1 DEF Superseded
    <3>4. current.receipt \notin Superseded
      BY <2>5 DEF DiskInv
    <3>5. SerialInvOf(p)'
      BY <2>8 DEF SerialInvOf, Renamed
    <3> QED
      BY <2>4, <3>1, <3>2, <3>3, <3>4, <3>5
  <2> QED
    BY <2>7, <2>8
<1> QED
  BY <1>1, <1>2, <1>3 DEF Next

\* ... so that it always holds.
LEMMA SerialHolds == Spec => []SerialInv
<1>1. Init => LockInv /\ SerialInv
  BY StoreAssumption DEF Init, LockInv, SerialInv, Superseded, Active, Linked,
     Synced, Renamed
<1>2. IInv /\ LockInv /\ [Next]_vars => LockInv'
  BY LockInvStep
<1>3. IInv /\ IInv' /\ LockInv /\ SerialInv /\ [Next]_vars => SerialInv'
  BY SerialInvStep
<1> QED
  BY <1>1, <1>2, <1>3, IInvHolds, PTL DEF Spec

\* As long as every publisher holds the run lock, current.json never names a
\* receipt that a later run has superseded: any number of runs, any faults but
\* a power loss that takes receipts/.
THEOREM MostRecentIfSerial == Spec => []CurrentIsMostRecentIfSerial
<1>1. IInv /\ SerialInv => CurrentIsMostRecentIfSerial
  BY DEF IInv, DiskInv, SerialInv, CurrentIsMostRecentIfSerial, CurrentIsMostRecent
<1> QED
  BY <1>1, IInvHolds, SerialHolds, PTL
===============================================================================
