---------------------------- MODULE ReceiptReaders ----------------------------
(***************************************************************************)
(* internal/receipt/store.go: Store.Current and Store.Read, which take no  *)
(* lock, running next to the publishers of ReceiptStore.                   *)
(*                                                                         *)
(* Every file is read through safefile: open it, look at its metadata,     *)
(* read, look again. Each read is two steps here, the open and the rest; a *)
(* file whose ctime changed in between (a rename over it, its removal, the *)
(* removal of a second link) is either seen to have changed (ErrChanged)   *)
(* or changed before the first look, and then its content is returned.     *)
(***************************************************************************)
EXTENDS ReceiptStore

CONSTANTS
    Reader,     \* processes that read
    RunID       \* the run ID recorded in each receipt

ASSUME ReaderAssumption == DOMAIN RunID = Receipt

VARIABLE rd     \* the call each reader makes: [Reader -> Call]

readerVars == <<vars, rd>>

RunIDs == {RunID[r] : r \in Receipt}
Matches(id) == {r \in Receipt : RunID[r] = id}

\* Steps of Current (index, receipt) and of Read (scan), and their outcomes.
ReaderPC == {"idle", "index", "openReceipt", "receipt", "scan", "entry",
             "ok", "none", "changed", "dangling", "ambiguous", "killed"}

Call == [pc    : ReaderPC,
         op    : {"Current", "Read"},
         id    : RunIDs,                \* the ID Read looks for
         file  : Index,                 \* the index file that is open
         entry : Content,               \* the receipt being read
         seen  : {"absent", "linked", "final"},
         todo  : SUBSET Receipt,        \* names listed and not yet read
         found : Content,
         stale : SUBSET Receipt,        \* history: superseded at the call
         known : SUBSET Receipt]        \* history: live matches at the call

NoCall == [pc |-> "idle", op |-> "Current", id |-> CHOOSE i \in RunIDs : TRUE,
           file |-> NoIndex, entry |-> NoReceipt, seen |-> "absent",
           todo |-> {}, found |-> NoReceipt, stale |-> {}, known |-> {}]

ReadersInit == Init /\ rd = [c \in Reader |-> NoCall]

Step(c, call) == rd' = [rd EXCEPT ![c] = call]

\* No file is open, no name is left to read.
Closed(call) == [call EXCEPT !.file = NoIndex, !.entry = NoReceipt, !.seen = "absent"]

\* The call returns.
End(c, receipt, outcome) ==
    Step(c, [Closed(rd[c]) EXCEPT !.todo = {}, !.found = receipt, !.pc = outcome])

-------------------------------------------------------------------------------
\* Current opens current.json.
StartCurrent(c) ==
    /\ rd[c].pc = "idle"
    /\ Step(c, [rd[c] EXCEPT !.op = "Current", !.file = current, !.stale = Superseded,
                             !.pc = IF current = NoIndex THEN "none" ELSE "index"])
    /\ UNCHANGED vars

\* It reads the index it opened.
ReadIndexFile(c) ==
    /\ rd[c].pc = "index"
    /\ \/ Step(c, [rd[c] EXCEPT !.entry = rd[c].file.receipt, !.file = NoIndex,
                                !.pc = "openReceipt"])
       \/ rd[c].file # current /\ End(c, NoReceipt, "changed")
    /\ UNCHANGED vars

\* It opens the receipt the index names.
OpenReceipt(c) ==
    /\ rd[c].pc = "openReceipt"
    /\ LET now == receipts[rd[c].entry]
       IN  Step(c, [rd[c] EXCEPT !.seen = now,
                                 !.pc = IF now = "absent" THEN "dangling" ELSE "receipt"])
    /\ UNCHANGED vars

\* It reads the receipt. Digest and run ID are those of the index: both are
\* functions of the content the name stands for.
ReadReceipt(c) ==
    /\ rd[c].pc = "receipt"
    /\ \/ End(c, rd[c].entry, "ok")
       \/ rd[c].seen # receipts[rd[c].entry] /\ End(c, NoReceipt, "dangling")
    /\ UNCHANGED vars

\* Read lists receipts/. Temporary names have no .json suffix and are skipped.
StartRead(c, id) ==
    /\ rd[c].pc = "idle"
    /\ Step(c, [rd[c] EXCEPT !.op = "Read", !.id = id, !.todo = Live,
                             !.known = Live \cap Matches(id), !.pc = "scan"])
    /\ UNCHANGED vars

\* It opens the next name ...
OpenEntry(c) ==
    /\ rd[c].pc = "scan"
    /\ \E r \in rd[c].todo :
         Step(c, [rd[c] EXCEPT !.entry = r, !.seen = receipts[r],
                               !.todo = rd[c].todo \ {r}, !.pc = "entry"])
    /\ UNCHANGED vars

\* Mutant: the first match is kept, a second one is not noticed.
ReadEntryFirstWins(c) ==
    /\ rd[c].pc = "entry"
    /\ Step(c, [Closed(rd[c]) EXCEPT !.pc = "scan",
                   !.found = IF RunID[rd[c].entry] = rd[c].id THEN rd[c].entry ELSE @])
    /\ UNCHANGED vars

\* ... and reads it. Any entry that cannot be read ends the scan; a second
\* receipt with the ID does too.
ReadEntry(c) ==
    LET r == rd[c].entry IN
    /\ rd[c].pc = "entry"
    /\ \/ /\ RunID[r] # rd[c].id
          /\ Step(c, [Closed(rd[c]) EXCEPT !.pc = "scan"])
       \/ /\ RunID[r] = rd[c].id
          /\ IF rd[c].found = NoReceipt
             THEN Step(c, [Closed(rd[c]) EXCEPT !.found = r, !.pc = "scan"])
             ELSE End(c, NoReceipt, "ambiguous")
       \/ /\ rd[c].seen # receipts[r]
          /\ End(c, NoReceipt, "changed")
    /\ UNCHANGED vars

EndRead(c) ==
    /\ rd[c].pc = "scan"
    /\ rd[c].todo = {}
    /\ End(c, rd[c].found, IF rd[c].found = NoReceipt THEN "none" ELSE "ok")
    /\ UNCHANGED vars

Read(c) ==
    \/ StartCurrent(c) \/ ReadIndexFile(c) \/ OpenReceipt(c) \/ ReadReceipt(c)
    \/ \E id \in RunIDs : StartRead(c, id)
    \/ OpenEntry(c) \/ ReadEntry(c) \/ EndRead(c)

Reading == {"index", "openReceipt", "receipt", "scan", "entry"}

\* Readers die with everything else.
PowerLossForAll ==
    /\ PowerLoss
    /\ rd' = [c \in Reader |-> IF rd[c].pc \in Reading
                               THEN [NoCall EXCEPT !.pc = "killed"]
                               ELSE rd[c]]

ReadersNext ==
    \/ PowerLossForAll
    \/ \E p \in Proc : (Publish(p) \/ Kill(p)) /\ UNCHANGED rd
    \/ \E c \in Reader : Read(c)

ReadersSpec == ReadersInit /\ [][ReadersNext]_readerVars

-------------------------------------------------------------------------------
(* Properties *)

\* "A reader never observes a partial or dangling intermediate state": the
\* receipt an index names is there, and nobody touches its file any more,
\* unless a power loss took receipts/ and left the index (ReceiptStore).
CurrentNeverDangles == Whole => \A c \in Reader : rd[c].pc # "dangling"

\* As long as every publisher holds the run lock, and no power loss has taken
\* what was acknowledged, Current does not return a
\* receipt that a later run had already superseded when Current was called.
CurrentIsFreshIfSerial ==
    \A c \in Reader :
        Serial /\ Whole /\ rd[c].op = "Current" => rd[c].found \notin rd[c].stale

\* Read resolves an ID exactly: it returns a receipt that carries the ID, not
\* when two did at the call, and misses none that was there.
ReadIsExact ==
    \A c \in Reader : rd[c].op = "Read" =>
        /\ rd[c].pc = "ok" => /\ RunID[rd[c].found] = rd[c].id
                              /\ rd[c].known \subseteq {rd[c].found}
        /\ rd[c].pc = "none" => rd[c].known = {}
===============================================================================
