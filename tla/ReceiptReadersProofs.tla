------------------------- MODULE ReceiptReadersProofs -------------------------
(***************************************************************************)
(* Proofs about ReceiptReaders: what Current and Read return next to any   *)
(* number of publishers and faults. Publishers do not see readers, so that *)
(* all that ReceiptStoreProofs proves of the store holds here too.         *)
(***************************************************************************)
EXTENDS ReceiptReaders, ReceiptStoreProofs

\* What a name that the index may have named stands for does not change any
\* more: the temporary name is gone before the index names a receipt. Only a
\* power loss that takes receipts/ takes it away.
FinalInv ==
    /\ Whole => \A r \in indexed : receipts[r] = "final"
    /\ \A p \in Proc : pc[p] \in {"syncReceipts"} \cup Synced => receipts[rcpt[p]] = "final"

\* An index file names a receipt.
NamedInv ==
    /\ current.receipt = NoReceipt => current = NoIndex
    /\ \A p \in Proc : pc[p] = "undo" => prev[p] # NoReceipt

\* A call of Current holds what an index has named.
CurrentOf(call, named) ==
    /\ call.pc = "index" => call.file.receipt \in named
    /\ call.pc \in {"openReceipt", "receipt"} => call.entry \in named
    /\ Whole => (call.pc = "receipt" => call.seen = "final") /\ call.pc # "dangling"

\* As long as publications are serial, none of it was superseded at the call.
FreshOf(call) ==
    call.op = "Current" =>
        /\ call.pc = "index" => call.file.receipt \notin call.stale
        /\ call.pc \in {"openReceipt", "receipt"} => call.entry \notin call.stale
        /\ call.found \notin call.stale

\* A call of Read has each match that was there among what it has found, what
\* it is reading and what it still has to read.
ScanOf(call) ==
    call.op = "Read" =>
        /\ call.known \subseteq Matches(call.id)
        /\ call.pc \in {"scan", "entry", "ok", "none"} =>
             /\ call.known \subseteq call.todo \cup {call.entry, call.found}
             /\ call.found # NoReceipt => RunID[call.found] = call.id
        /\ call.pc = "entry" => call.entry \in Receipt
        /\ call.pc \in {"scan", "ok", "none"} => call.entry = NoReceipt
        /\ call.pc \in {"ok", "none"} => call.todo = {}
        /\ call.pc = "ok" => call.found # NoReceipt
        /\ call.pc = "none" => call.found = NoReceipt
        /\ call.pc \notin {"index", "openReceipt", "receipt"}

\* Calls of readers: NoCall's ID is any value when there are no receipts.
Calls == [pc : ReaderPC, op : {"Current", "Read"}, id : RunIDs \cup {NoCall.id},
          file : Index, entry : Content, seen : {"absent", "linked", "final"},
          todo : SUBSET Receipt, found : Content,
          stale : SUBSET Receipt, known : SUBSET Receipt]

\* The types of a call, and that one that was not made has found nothing.
CallOK(call) ==
    /\ call \in Calls
    /\ call.pc \in {"idle", "killed"} =>
         call.op = "Current" /\ call.found = NoReceipt /\ call.entry = NoReceipt
    /\ call.pc \in {"scan", "entry"} => call.op = "Read"

ReaderTypeOK == rd \in [Reader -> Calls] /\ \A c \in Reader : CallOK(rd[c])
CurrentInv == \A c \in Reader : CurrentOf(rd[c], indexed)
FreshInv == Serial /\ Whole => \A c \in Reader : FreshOf(rd[c])
ScanInv == \A c \in Reader : ScanOf(rd[c])

ReadersInv ==
    ReaderTypeOK /\ FinalInv /\ NamedInv /\ CurrentInv /\ FreshInv /\ ScanInv

-------------------------------------------------------------------------------
(* The store under its readers *)

\* Names that were indexed are final, and remain so.
LEMMA FinalStep ==
    ASSUME IInv, FinalInv, [Next]_vars
    PROVE  FinalInv'
<1> USE DEF IInv, TypeOK, DiskInv, ProcInv, WholeInv, Whole, FinalInv, Live, Goto, Return, Unlock, FailWith,
        dirVars, idxVars, procVars, Pending, Linked, Synced, Renamed, Active
<1>1. CASE PowerLoss
  <2>1. ASSUME Whole' PROVE \A r \in indexed : receipts'[r] = "final"
    <3>1. Whole /\ indexed \subseteq durable
      BY <1>1, <2>1 DEF PowerLoss, Whole, WholeInv
    <3>2. indexed = {} \/ durable \subseteq durable'
      BY <1>1, <2>1, <3>1 DEF PowerLoss, Whole
    <3> QED
      BY <1>1, <2>1, <3>1, <3>2 DEF PowerLoss
  <2>2. indexed' = indexed /\ \A p \in Proc : pc'[p] \notin {"syncReceipts"} \cup Synced
    BY <1>1 DEF PowerLoss
  <2> QED
    BY <2>1, <2>2
<1>2. ASSUME NEW p \in Proc, Kill(p) PROVE FinalInv'
  BY <1>2 DEF Kill
<1>3. ASSUME NEW p \in Proc, NEW r \in Receipt, Begin(p, r) PROVE FinalInv'
  BY <1>3 DEF Begin
<1>4. ASSUME NEW p \in Proc, LinkReceipt(p) PROVE FinalInv'
  BY <1>4 DEF LinkReceipt
<1>5. ASSUME NEW p \in Proc, UnlinkTemp(p) PROVE FinalInv'
  BY <1>5 DEF UnlinkTemp
<1>6. ASSUME NEW p \in Proc, SyncReceipts(p) PROVE FinalInv'
  BY <1>6 DEF SyncReceipts
<1>7. ASSUME NEW p \in Proc, OpenIndex(p) PROVE FinalInv'
  BY <1>7 DEF OpenIndex
<1>8. ASSUME NEW p \in Proc, ReadIndex(p) PROVE FinalInv'
  BY <1>8 DEF ReadIndex
<1>9. ASSUME NEW p \in Proc, RenameIndex(p) PROVE FinalInv'
  BY <1>9 DEF RenameIndex
<1>10. ASSUME NEW p \in Proc, SyncRoot(p) PROVE FinalInv'
  BY <1>10 DEF SyncRoot
<1>11. ASSUME NEW p \in Proc, UndoIndex(p) PROVE FinalInv'
  BY <1>11 DEF UndoIndex
<1>12. ASSUME NEW p \in Proc, UndoSync(p) PROVE FinalInv'
  BY <1>12 DEF UndoSync
<1>13. ASSUME NEW p \in Proc, DiscardIndex(p) PROVE FinalInv'
  BY <1>13 DEF DiscardIndex
<1>14. CASE UNCHANGED vars
  BY <1>14 DEF vars
<1> QED
  BY <1>1, <1>2, <1>3, <1>4, <1>5, <1>6, <1>7, <1>8, <1>9, <1>10, <1>11, <1>12, <1>13, <1>14
     DEF Next, Publish

\* What is put back names a receipt: an empty index is taken away instead.
LEMMA NamedStep ==
    ASSUME IInv, NamedInv, [Next]_vars
    PROVE  NamedInv'
<1> USE StoreAssumption
    DEF IInv, TypeOK, NamedInv, NoIndex, Index, Goto, Return, Unlock,
        FailWith, dirVars, idxVars, procVars, Active, Linked, Synced, Renamed
<1>1. CASE PowerLoss
  BY <1>1 DEF PowerLoss
<1>2. ASSUME NEW p \in Proc, Kill(p) PROVE NamedInv'
  BY <1>2 DEF Kill
<1>3. ASSUME NEW p \in Proc, NEW r \in Receipt, Begin(p, r) PROVE NamedInv'
  BY <1>3 DEF Begin
<1>4. ASSUME NEW p \in Proc, LinkReceipt(p) PROVE NamedInv'
  BY <1>4 DEF LinkReceipt
<1>5. ASSUME NEW p \in Proc, UnlinkTemp(p) PROVE NamedInv'
  BY <1>5 DEF UnlinkTemp
<1>6. ASSUME NEW p \in Proc, SyncReceipts(p) PROVE NamedInv'
  BY <1>6 DEF SyncReceipts
<1>7. ASSUME NEW p \in Proc, OpenIndex(p) PROVE NamedInv'
  BY <1>7 DEF OpenIndex
<1>8. ASSUME NEW p \in Proc, ReadIndex(p) PROVE NamedInv'
  BY <1>8 DEF ReadIndex
<1>9. ASSUME NEW p \in Proc, RenameIndex(p) PROVE NamedInv'
  BY <1>9 DEF RenameIndex
<1>10. ASSUME NEW p \in Proc, SyncRoot(p) PROVE NamedInv'
  BY <1>10 DEF SyncRoot
<1>11. ASSUME NEW p \in Proc, UndoIndex(p) PROVE NamedInv'
  BY <1>11 DEF UndoIndex
<1>12. ASSUME NEW p \in Proc, UndoSync(p) PROVE NamedInv'
  BY <1>12 DEF UndoSync
<1>13. ASSUME NEW p \in Proc, DiscardIndex(p) PROVE NamedInv'
  BY <1>13 DEF DiscardIndex
<1>14. CASE UNCHANGED vars
  BY <1>14 DEF vars
<1> QED
  BY <1>1, <1>2, <1>3, <1>4, <1>5, <1>6, <1>7, <1>8, <1>9, <1>10, <1>11, <1>12, <1>13, <1>14
     DEF Next, Publish

\* The index only gains names, and publications that are not serial remain so.
LEMMA StoreGrows ==
    ASSUME TypeOK, [Next]_vars
    PROVE  indexed \subseteq indexed' /\ (Serial' => Serial) /\ (Whole' => Whole)
<1> DEFINE Grows == indexed \subseteq indexed' /\ (Serial' => Serial) /\ (Whole' => Whole)
<1> USE DEF TypeOK, Serial, Whole, Goto, Return, Unlock, FailWith, dirVars, idxVars, procVars,
        Active, Linked, Synced, Renamed
<1>1. CASE PowerLoss
  BY <1>1 DEF PowerLoss
<1>2. ASSUME NEW p \in Proc, Kill(p) PROVE Grows
  BY <1>2 DEF Kill
<1>3. ASSUME NEW p \in Proc, NEW r \in Receipt, Begin(p, r)
      PROVE  Grows
  BY <1>3 DEF Begin
<1>4. ASSUME NEW p \in Proc, LinkReceipt(p)
      PROVE  Grows
  BY <1>4 DEF LinkReceipt
<1>5. ASSUME NEW p \in Proc, UnlinkTemp(p)
      PROVE  Grows
  BY <1>5 DEF UnlinkTemp
<1>6. ASSUME NEW p \in Proc, SyncReceipts(p)
      PROVE  Grows
  BY <1>6 DEF SyncReceipts
<1>7. ASSUME NEW p \in Proc, OpenIndex(p)
      PROVE  Grows
  BY <1>7 DEF OpenIndex
<1>8. ASSUME NEW p \in Proc, ReadIndex(p)
      PROVE  Grows
  BY <1>8 DEF ReadIndex
<1>9. ASSUME NEW p \in Proc, RenameIndex(p)
      PROVE  Grows
  BY <1>9 DEF RenameIndex
<1>10. ASSUME NEW p \in Proc, SyncRoot(p)
       PROVE  Grows
  BY <1>10 DEF SyncRoot
<1>11. ASSUME NEW p \in Proc, UndoIndex(p)
       PROVE  Grows
  BY <1>11 DEF UndoIndex
<1>12. ASSUME NEW p \in Proc, UndoSync(p)
       PROVE  Grows
  BY <1>12 DEF UndoSync
<1>13. ASSUME NEW p \in Proc, DiscardIndex(p)
       PROVE  Grows
  BY <1>13 DEF DiscardIndex
<1>14. CASE UNCHANGED vars
  BY <1>14 DEF vars
<1> QED
  BY <1>1, <1>2, <1>3, <1>4, <1>5, <1>6, <1>7, <1>8, <1>9, <1>10, <1>11, <1>12, <1>13, <1>14
     DEF Next, Publish

\* A step of readers and publishers is a step, or none, of the publishers, and
\* either way at most one reader reads.
LEMMA StoreStep ==
    ASSUME [ReadersNext]_readerVars
    PROVE  /\ [Next]_vars
           /\ \/ rd' = rd
              \/ PowerLossForAll
              \/ UNCHANGED vars /\ \E c \in Reader : Read(c)
<1> USE DEF readerVars
<1>1. ASSUME NEW c \in Reader, Read(c) PROVE UNCHANGED vars
  BY <1>1 DEF Read, StartCurrent, ReadIndexFile, OpenReceipt, ReadReceipt, StartRead,
     OpenEntry, ReadEntry, EndRead
<1> QED
  BY <1>1 DEF ReadersNext, Next, PowerLossForAll

-------------------------------------------------------------------------------
(* The readers *)

\* A reader's step makes one call what it becomes; the others' stay.
LEMMA StepBecomes ==
    ASSUME ReaderTypeOK, NEW c \in Reader, NEW call \in Calls, Step(c, call),
           CallOK(call), CurrentOf(call, indexed'), ScanOf(call),
           Serial /\ Whole => FreshOf(call),
           UNCHANGED vars, CurrentInv, FreshInv, ScanInv
    PROVE  ReaderTypeOK' /\ CurrentInv' /\ FreshInv' /\ ScanInv'
<1>1. rd'[c] = call /\ \A b \in Reader \ {c} : rd'[b] = rd[b]
  BY DEF ReaderTypeOK, Step
<1>2. rd' \in [Reader -> Calls]
  BY DEF ReaderTypeOK, Step
<1>3. indexed' = indexed /\ Serial' = Serial /\ Whole' = Whole
  BY DEF vars, Serial, Whole
<1>4. ReaderTypeOK'
  <2> SUFFICES ASSUME NEW b \in Reader PROVE CallOK(rd'[b])
    BY <1>2 DEF ReaderTypeOK, CallOK
  <2> QED
    BY <1>1 DEF ReaderTypeOK
<1>5. CurrentInv'
  BY <1>1, <1>3 DEF CurrentInv, CurrentOf
<1>6. FreshInv'
  BY <1>1, <1>3 DEF FreshInv, FreshOf
<1>7. ScanInv'
  BY <1>1 DEF ScanInv, ScanOf
<1> QED
  BY <1>4, <1>5, <1>6, <1>7

LEMMA ReaderTypes ==
    ASSUME TypeOK, ReaderTypeOK, NEW c \in Reader
    PROVE  /\ rd[c] \in Calls /\ CallOK(rd[c])
           /\ current \in Index /\ NoIndex \in Index /\ NoReceipt \in Content
           /\ \A i \in Index : i.receipt \in Content
           /\ Live \subseteq Receipt /\ NoReceipt \notin Receipt
           /\ \A r \in Receipt : RunID[r] \in RunIDs
BY StoreAssumption DEF TypeOK, ReaderTypeOK, Index, NoIndex, Content, Live, RunIDs

\* The call ends, with nothing open and nothing left to read.
Ending(call, receipt, outcome) ==
    /\ outcome \in {"ok", "none", "changed", "ambiguous"} /\ receipt \in Content
    /\ call.op = "Current" => (Serial /\ Whole => receipt \notin call.stale)
    /\ call.op = "Read" =>
         /\ outcome \in {"ok", "none"} => receipt = call.found /\ call.todo = {} /\ call.pc = "scan"
         /\ outcome = "ok" => receipt # NoReceipt
         /\ outcome = "none" => receipt = NoReceipt

LEMMA EndsCall ==
    ASSUME TypeOK, ReaderTypeOK, CurrentInv, FreshInv, ScanInv, UNCHANGED vars,
           NEW c \in Reader, NEW receipt, NEW outcome,
           Ending(rd[c], receipt, outcome), End(c, receipt, outcome)
    PROVE  ReaderTypeOK' /\ CurrentInv' /\ FreshInv' /\ ScanInv'
<1> DEFINE now == rd[c]
           call == [Closed(now) EXCEPT !.todo = {}, !.found = receipt, !.pc = outcome]
<1>1. now \in Calls /\ CallOK(now) /\ ScanOf(now)
  BY ReaderTypes DEF ScanInv
<1>2. call \in Calls
  BY <1>1, ReaderTypes DEF Calls, ReaderPC, Closed, Ending
<1>3. /\ call.pc = outcome /\ call.found = receipt /\ call.entry = NoReceipt /\ call.todo = {}
      /\ call.op = now.op /\ call.id = now.id /\ call.known = now.known /\ call.stale = now.stale
  BY <1>1 DEF Calls, Closed
<1>4. Step(c, call)
  BY DEF End
<1>a. Ending(now, receipt, outcome)
  OBVIOUS
<1> HIDE DEF call, now
<1>5. CallOK(call) /\ CurrentOf(call, indexed')
  BY <1>2, <1>3, <1>a DEF CallOK, CurrentOf, Ending
<1>6. Serial /\ Whole => FreshOf(call)
  BY <1>3, <1>a DEF FreshOf, Ending
<1>7. ScanOf(call)
  BY <1>1, <1>3, <1>a DEF ScanOf, Ending
<1> QED
  BY <1>2, <1>4, <1>5, <1>6, <1>7, StepBecomes DEF call

\* The steps of a reader next to a store that stays.
LEMMA ReadStep ==
    ASSUME IInv, SerialInv, FinalInv, NamedInv, ReaderTypeOK, CurrentInv, FreshInv, ScanInv,
           NEW c \in Reader, Read(c)
    PROVE  ReaderTypeOK' /\ CurrentInv' /\ FreshInv' /\ ScanInv'
<1> DEFINE now == rd[c]
<1> TypeOK /\ UNCHANGED vars
  BY DEF IInv, Read, StartCurrent, ReadIndexFile, OpenReceipt, ReadReceipt, StartRead,
     OpenEntry, ReadEntry, EndRead
<1> /\ now \in Calls /\ CallOK(now) /\ CurrentOf(now, indexed) /\ ScanOf(now)
    /\ Serial /\ Whole => FreshOf(now)
  BY ReaderTypes DEF CurrentInv, FreshInv, ScanInv
<1>a. indexed' = indexed /\ Whole' = Whole
  BY DEF vars, Whole
<1>b. /\ Superseded \subseteq Receipt /\ (Serial /\ Whole => current.receipt \notin Superseded)
      /\ (current # NoIndex => current.receipt \in indexed) /\ indexed \subseteq Receipt
  BY SupersededWasIndexed
     DEF IInv, TypeOK, DiskInv, SerialInv, CurrentIsMostRecentIfSerial, NamedInv
<1> USE DEF CallOK, CurrentOf, FreshOf, ScanOf
<1>1. CASE StartCurrent(c)
  <2> DEFINE call == [now EXCEPT !.op = "Current", !.file = current, !.stale = Superseded,
                                 !.pc = IF current = NoIndex THEN "none" ELSE "index"]
  <2>1. Step(c, call) /\ now.pc = "idle"
    BY <1>1 DEF StartCurrent
  <2>2. call \in Calls
    <3>1. (IF current = NoIndex THEN "none" ELSE "index") \in ReaderPC /\ current \in Index
      BY ReaderTypes DEF ReaderPC
    <3> QED
      BY <1>b, <3>1 DEF Calls
  <2>3. /\ call.pc = (IF current = NoIndex THEN "none" ELSE "index") /\ call.op = "Current"
        /\ call.file = current /\ call.stale = Superseded /\ call.found = NoReceipt
    BY <2>1 DEF Calls
  <2> HIDE DEF call, now
  <2> QED
    BY <1>a, <1>b, <2>1, <2>2, <2>3, StepBecomes, ReaderTypes
<1>2. CASE ReadIndexFile(c)
  <2>1. now.pc = "index" /\ now.file \in Index
    BY <1>2 DEF ReadIndexFile, Calls
  <2>2. CASE Step(c, [now EXCEPT !.entry = now.file.receipt, !.file = NoIndex,
                                 !.pc = "openReceipt"])
    <3> DEFINE call == [now EXCEPT !.entry = now.file.receipt, !.file = NoIndex,
                                   !.pc = "openReceipt"]
    <3>1. call \in Calls
      BY <2>1, ReaderTypes DEF Calls, ReaderPC
    <3>2. /\ call.pc = "openReceipt" /\ call.entry = now.file.receipt /\ call.found = now.found
          /\ call.op = now.op /\ call.stale = now.stale
      BY DEF Calls
    <3>3. now.op # "Read" /\ call.op = "Current"
      BY <2>1, <3>2 DEF Calls
    <3> HIDE DEF call, now
    <3>4. /\ CallOK(call) /\ CurrentOf(call, indexed') /\ ScanOf(call)
          /\ Serial /\ Whole => FreshOf(call)
      BY <1>a, <2>1, <3>1, <3>2, <3>3
    <3> QED
      BY <2>2, <3>1, <3>4, StepBecomes DEF call
  <2>3. CASE End(c, NoReceipt, "changed")
    BY <1>b, <2>1, <2>3, EndsCall, ReaderTypes DEF Ending, ReaderPC, Calls
  <2> QED
    BY <1>2, <2>2, <2>3 DEF ReadIndexFile
<1>3. CASE OpenReceipt(c)
  <2>1. /\ now.pc = "openReceipt" /\ now.entry \in indexed /\ now.entry \in Receipt
        /\ Whole => receipts[now.entry] = "final"
    BY <1>b, <1>3 DEF OpenReceipt, FinalInv
  <2> DEFINE sight == receipts[now.entry]
             call == [now EXCEPT !.seen = sight,
                                 !.pc = IF sight = "absent" THEN "dangling" ELSE "receipt"]
  <2>2. Step(c, call)
    BY <1>3 DEF OpenReceipt
  <2>3. sight \in {"absent", "linked", "final"}
    BY <2>1 DEF TypeOK
  <2> HIDE DEF sight
  <2>4. call \in Calls
    BY <2>3 DEF Calls, ReaderPC
  <2>5. /\ call.pc = (IF sight = "absent" THEN "dangling" ELSE "receipt") /\ call.seen = sight
        /\ call.entry = now.entry /\ call.found = now.found
        /\ call.op = now.op /\ call.stale = now.stale
    BY DEF Calls
  <2>6. now.op = "Current" /\ (Whole => sight = "final")
    BY <2>1 DEF sight, Calls
  <2> HIDE DEF call
  <2>7. /\ CallOK(call) /\ CurrentOf(call, indexed') /\ ScanOf(call)
        /\ Serial /\ Whole => FreshOf(call)
    BY <1>a, <2>1, <2>4, <2>5, <2>6
  <2> QED
    BY <2>2, <2>4, <2>7, StepBecomes
<1>4. CASE ReadReceipt(c)
  <2>1. /\ now.pc = "receipt" /\ now.op = "Current" /\ now.entry \in indexed
        /\ "ok" \in ReaderPC /\ now.entry \in Content /\ NoReceipt \in Content
    BY <1>4 DEF ReadReceipt, Calls, ReaderPC, Content
  <2>2. CASE End(c, now.entry, "ok")
    BY <2>1, <2>2, EndsCall DEF Ending
  <2>3. CASE now.seen # receipts[now.entry] /\ End(c, NoReceipt, "dangling")
    <3>1. ~Whole
      BY <2>1, <2>3 DEF FinalInv
    <3> DEFINE call == [Closed(now) EXCEPT !.todo = {}, !.found = NoReceipt, !.pc = "dangling"]
    <3>2. call \in Calls
      BY <2>1, ReaderTypes DEF Calls, ReaderPC, Closed
    <3>3. /\ call.pc = "dangling" /\ call.op = "Current" /\ call.entry = NoReceipt
          /\ call.found = NoReceipt
      BY <2>1 DEF Calls, Closed
    <3>4. Step(c, call)
      BY <2>3 DEF End
    <3> HIDE DEF call
    <3>5. /\ CallOK(call) /\ CurrentOf(call, indexed') /\ ScanOf(call)
          /\ Serial /\ Whole => FreshOf(call)
      BY <1>a, <3>1, <3>2, <3>3
    <3> QED
      BY <3>2, <3>4, <3>5, StepBecomes
  <2> QED
    BY <1>4, <2>2, <2>3 DEF ReadReceipt
<1>5. ASSUME NEW id \in RunIDs, StartRead(c, id)
      PROVE  ReaderTypeOK' /\ CurrentInv' /\ FreshInv' /\ ScanInv'
  <2> DEFINE call == [now EXCEPT !.op = "Read", !.id = id, !.todo = Live,
                                 !.known = Live \cap Matches(id), !.pc = "scan"]
  <2>1. Step(c, call) /\ now.pc = "idle"
    BY <1>5 DEF StartRead
  <2>2. call \in Calls
    BY ReaderTypes DEF Calls, ReaderPC
  <2>3. /\ call.pc = "scan" /\ call.op = "Read" /\ call.id = id /\ call.todo = Live
        /\ call.known = Live \cap Matches(id)
        /\ call.found = NoReceipt /\ call.entry = NoReceipt
    BY <2>1 DEF Calls
  <2> HIDE DEF call, now
  <2> QED
    BY <1>a, <2>1, <2>2, <2>3, StepBecomes
<1>6. CASE OpenEntry(c)
  <2>1. PICK r \in now.todo :
          Step(c, [now EXCEPT !.entry = r, !.seen = receipts[r], !.todo = now.todo \ {r},
                              !.pc = "entry"])
    BY <1>6 DEF OpenEntry
  <2> DEFINE call == [now EXCEPT !.entry = r, !.seen = receipts[r], !.todo = now.todo \ {r},
                                 !.pc = "entry"]
  <2>2. now.pc = "scan" /\ now.op = "Read" /\ r \in Receipt
    BY <1>6 DEF OpenEntry, Calls
  <2>3. call \in Calls
    BY <2>2 DEF Calls, ReaderPC, TypeOK, Content
  <2>4. /\ call.pc = "entry" /\ call.op = "Read" /\ call.entry = r /\ call.id = now.id
        /\ call.todo = now.todo \ {r} /\ call.found = now.found /\ call.known = now.known
    BY <2>2 DEF Calls
  <2>5. ScanOf(call)
    <3> HIDE DEF call, now
    <3>1. now.known \subseteq now.todo \cup {NoReceipt, now.found} /\ NoReceipt \notin now.known
      BY <2>2, ReaderTypes DEF Matches
    <3> QED
      BY <2>2, <2>4, <3>1
  <2>6. CallOK(call) /\ CurrentOf(call, indexed') /\ (Serial /\ Whole => FreshOf(call))
    BY <1>a, <2>3, <2>4
  <2> HIDE DEF call
  <2> QED
    BY <2>1, <2>3, <2>5, <2>6, StepBecomes DEF call
<1>7. CASE ReadEntry(c)
  <2>1. now.pc = "entry" /\ now.op = "Read" /\ now.entry \in Receipt
    BY <1>7 DEF ReadEntry
  <2>2. CASE End(c, NoReceipt, "changed")
    BY <2>1, <2>2, EndsCall, ReaderTypes DEF Ending, ReaderPC, Content
  <2>3. CASE End(c, NoReceipt, "ambiguous")
    BY <2>1, <2>3, EndsCall, ReaderTypes DEF Ending, ReaderPC, Content
  <2>4. CASE RunID[now.entry] # now.id /\ Step(c, [Closed(now) EXCEPT !.pc = "scan"])
    <3> DEFINE call == [Closed(now) EXCEPT !.pc = "scan"]
    <3>1. call \in Calls
      BY ReaderTypes DEF Calls, ReaderPC, Closed
    <3>2. /\ call.pc = "scan" /\ call.op = "Read" /\ call.entry = NoReceipt /\ call.id = now.id
          /\ call.todo = now.todo /\ call.found = now.found /\ call.known = now.known
      BY <2>1 DEF Calls, Closed
    <3>3. now.entry \notin now.known
      BY <2>1, <2>4 DEF Matches
    <3> HIDE DEF call, now
    <3> QED
      BY <1>a, <2>1, <2>4, <3>1, <3>2, <3>3, StepBecomes DEF call
  <2>5. CASE /\ RunID[now.entry] = now.id /\ now.found = NoReceipt
             /\ Step(c, [Closed(now) EXCEPT !.found = now.entry, !.pc = "scan"])
    <3> DEFINE call == [Closed(now) EXCEPT !.found = now.entry, !.pc = "scan"]
    <3>1. call \in Calls
      BY ReaderTypes DEF Calls, ReaderPC, Closed
    <3>2. /\ call.pc = "scan" /\ call.op = "Read" /\ call.entry = NoReceipt /\ call.id = now.id
          /\ call.todo = now.todo /\ call.found = now.entry /\ call.known = now.known
      BY <2>1 DEF Calls, Closed
    <3>3. NoReceipt \notin now.known
      BY <2>1, ReaderTypes DEF Matches
    <3> HIDE DEF call, now
    <3> QED
      BY <1>a, <2>1, <2>5, <3>1, <3>2, <3>3, StepBecomes DEF call
  <2> QED
    BY <1>7, <2>2, <2>3, <2>4, <2>5 DEF ReadEntry
<1>8. CASE EndRead(c)
  <2>1. now.pc = "scan" /\ now.op = "Read" /\ now.todo = {} /\ now.found \in Content
    BY <1>8 DEF EndRead, Calls
  <2>2. End(c, now.found, IF now.found = NoReceipt THEN "none" ELSE "ok")
    BY <1>8 DEF EndRead
  <2> QED
    BY <2>1, <2>2, EndsCall DEF Ending, ReaderPC
<1> QED
  BY <1>1, <1>2, <1>3, <1>4, <1>5, <1>6, <1>7, <1>8 DEF Read

\* Readers die with the publishers, or are done.
LEMMA ReadersThroughPower ==
    ASSUME IInv, ReaderTypeOK, CurrentInv, FreshInv, ScanInv, [Next]_vars, PowerLossForAll
    PROVE  ReaderTypeOK' /\ CurrentInv' /\ FreshInv' /\ ScanInv'
<1> DEFINE killed == [NoCall EXCEPT !.pc = "killed"]
<1>1. /\ killed \in Calls /\ killed.pc = "killed" /\ killed.op = "Current"
      /\ killed.found = NoReceipt /\ killed.entry = NoReceipt /\ killed.stale = {}
  BY DEF NoCall, Calls, ReaderPC, Index, NoIndex, Content
<1> HIDE DEF killed
<1>2. \A c \in Reader : rd'[c] = IF rd[c].pc \in Reading THEN killed ELSE rd[c]
  BY DEF PowerLossForAll, killed
<1>3. rd' \in [Reader -> Calls]
  BY <1>1 DEF PowerLossForAll, killed, ReaderTypeOK
<1>4. TypeOK /\ indexed \subseteq indexed' /\ (Serial' => Serial) /\ (Whole' => Whole)
  BY StoreGrows DEF IInv
<1>5. ReaderTypeOK'
  BY <1>1, <1>2, <1>3 DEF ReaderTypeOK, CallOK
<1>6. CurrentInv'
  BY <1>1, <1>2, <1>4 DEF CurrentInv, CurrentOf, Reading
<1>7. FreshInv'
  BY <1>1, <1>2, <1>4 DEF FreshInv, FreshOf
<1>8. ScanInv'
  BY <1>1, <1>2 DEF ScanInv, ScanOf
<1> QED
  BY <1>5, <1>6, <1>7, <1>8

-------------------------------------------------------------------------------
(* The theorems *)

LEMMA ReadersInitInv == ReadersInit => ReadersInv
<1> SUFFICES ASSUME ReadersInit PROVE ReadersInv
  OBVIOUS
<1>1. /\ NoCall \in Calls /\ NoCall.pc = "idle" /\ NoCall.op = "Current"
      /\ NoCall.found = NoReceipt /\ NoCall.entry = NoReceipt /\ NoCall.stale = {}
  BY DEF NoCall, Calls, ReaderPC, Index, NoIndex, Content
<1>2. rd = [c \in Reader |-> NoCall]
  BY DEF ReadersInit
<1>3. FinalInv /\ NamedInv
  BY DEF ReadersInit, Init, FinalInv, NamedInv, Synced
<1> HIDE DEF NoCall
<1>4. ReaderTypeOK /\ CurrentInv /\ FreshInv /\ ScanInv
  BY <1>1, <1>2 DEF ReaderTypeOK, CallOK, CurrentInv, CurrentOf, FreshInv, FreshOf,
     ScanInv, ScanOf
<1> QED
  BY <1>3, <1>4 DEF ReadersInv

LEMMA ReadersInvStep ==
    IInv /\ SerialInv /\ ReadersInv /\ [ReadersNext]_readerVars => ReadersInv'
<1> SUFFICES ASSUME IInv, SerialInv, ReadersInv, [ReadersNext]_readerVars
             PROVE  ReadersInv'
  OBVIOUS
<1>1. [Next]_vars
  BY StoreStep
<1>2. FinalInv' /\ NamedInv'
  BY <1>1, FinalStep, NamedStep DEF ReadersInv
<1>3. CASE rd' = rd
  <2>1. indexed \subseteq indexed' /\ (Serial' => Serial) /\ (Whole' => Whole)
    BY <1>1, StoreGrows DEF IInv
  <2> QED
    BY <1>2, <1>3, <2>1 DEF ReadersInv, ReaderTypeOK, CallOK, CurrentInv, CurrentOf,
       FreshInv, FreshOf, ScanInv, ScanOf
<1>4. CASE PowerLossForAll
  BY <1>1, <1>2, <1>4, ReadersThroughPower DEF ReadersInv
<1>5. ASSUME NEW c \in Reader, Read(c) PROVE ReadersInv'
  BY <1>2, <1>5, ReadStep DEF ReadersInv
<1> QED
  BY <1>3, <1>4, <1>5, StoreStep

\* The store under its readers is the store of ReceiptStore.
LEMMA ReadersImplyStore == ReadersSpec => Spec
<1>1. ReadersInit => Init
  BY DEF ReadersInit
<1>2. [ReadersNext]_readerVars => [Next]_vars
  BY StoreStep
<1> QED
  BY <1>1, <1>2, PTL DEF ReadersSpec, Spec

LEMMA ReadersInvariance == ReadersSpec => []ReadersInv
BY ReadersImplyStore, IInvHolds, SerialHolds, ReadersInitInv, ReadersInvStep, PTL DEF
   ReadersSpec

\* "A reader never observes a dangling intermediate state": the receipt that
\* the index names is linked, synced and left alone before the index names it,
\* and only a power loss that takes receipts/ as a whole removes it.
THEOREM CurrentFindsItsReceipt == ReadersSpec => []CurrentNeverDangles
<1>1. ReadersInv => CurrentNeverDangles
  BY DEF ReadersInv, CurrentInv, CurrentOf, CurrentNeverDangles
<1> QED
  BY <1>1, ReadersInvariance, PTL

\* Current never returns a receipt that was superseded when it was called, as
\* long as every publisher holds the run lock and no power loss takes receipts/.
THEOREM CurrentIsFresh == ReadersSpec => []CurrentIsFreshIfSerial
<1>1. ReadersInv => CurrentIsFreshIfSerial
  BY DEF ReadersInv, FreshInv, FreshOf, CurrentIsFreshIfSerial
<1> QED
  BY <1>1, ReadersInvariance, PTL

\* Read finds the one receipt with its run ID, for any number of receipts that
\* are linked while it scans.
THEOREM ReadsAreExact == ReadersSpec => []ReadIsExact
<1>1. ReadersInv => ReadIsExact
  <2> SUFFICES ASSUME ReadersInv, NEW c \in Reader, rd[c].op = "Read"
               PROVE  /\ rd[c].pc = "ok" => /\ RunID[rd[c].found] = rd[c].id
                                            /\ rd[c].known \subseteq {rd[c].found}
                      /\ rd[c].pc = "none" => rd[c].known = {}
    BY DEF ReadIsExact
  <2>1. ScanOf(rd[c]) /\ NoReceipt \notin Matches(rd[c].id)
    BY StoreAssumption DEF ReadersInv, ScanInv, Matches
  <2> QED
    BY <2>1 DEF ScanOf
<1> QED
  BY <1>1, ReadersInvariance, PTL
===============================================================================
