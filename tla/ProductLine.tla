---------------------------- MODULE ProductLine ----------------------------
(***************************************************************************)
(* Product rows (lines.products) and the handlers that move a refrigerator *)
(* from line to line.  A row belongs to one line and one serial and is     *)
(* active, transferred or written_off.  A handler is one HTTP request: it  *)
(* commits a transaction, prints a label that may take seconds, and undoes *)
(* the transaction when the print (or a later write) fails.  Between the   *)
(* commit and the undo every other request sees the committed rows.        *)
(*                                                                         *)
(* Store transactions are single steps: ProductLineTransfer and its        *)
(* rollback lock the rows they read with FOR UPDATE.  The look-up that     *)
(* packing does before its transfer is outside that transaction, and so is *)
(* a step of its own.                                                      *)
(***************************************************************************)
EXTENDS Naturals, FiniteSets, TLC

CONSTANTS
    Serials,      \* product serial numbers
    AccSerials,   \* accessory serial numbers
    NoAcc,        \* SQL NULL in products.acc_serial
    Handlers,     \* requests that may be in flight together
    MaxId,        \* bound on products.id, a sequence that never reuses a value
    EntryLines,   \* lines on which an entry handler inserts its row
    Stations      \* <<from, to>> pairs served by a transferring print handler

YigishLineID    == 1
T1LineID        == 4
T2LineID        == 5
T3LineID        == 6
QadoqlashLineID == 12

Lines == {YigishLineID, T1LineID, T2LineID, T3LineID, QadoqlashLineID}

WriteoffProductLineIDs == {YigishLineID}

ASSUME ProductLineAssumption ==
    /\ MaxId \in Nat
    /\ IsFiniteSet(Handlers)
    /\ NoAcc \notin AccSerials
    /\ EntryLines \subseteq Lines
    /\ \A p \in Stations : p \in Lines \X Lines /\ p[1] # p[2]

VARIABLES
    rows,         \* lines.products by id
    nextId,       \* next value of the id sequence
    op,           \* what each handler has in flight
    registered,   \* serials whose entry handler has answered OK (history)
    scrapped,     \* serials a write-off has been recorded for (history)
    astray        \* serials entered while they stood on some line, or moved by
                  \* a station (history)

(* Serials, accessory serials and handlers are alike: for SYMMETRY.        *)
Symmetric == Permutations(Serials) \cup Permutations(AccSerials) \cup Permutations(Handlers)

vars == <<rows, nextId, op, registered, scrapped, astray>>

Ids      == 1 .. MaxId
Statuses == {"active", "transferred", "written_off"}
Row      == [line: Lines, serial: Serials, status: Statuses,
             acc: AccSerials \cup {NoAcc}]
NoRow    == [status |-> "none"]

Idle       == [pc |-> "idle"]
EnterOp    == [pc: {"entering"}, serial: Serials, to: Ids]
FoundOp    == [pc: {"found"}, serial: Serials, line: Lines \ {QadoqlashLineID}]
TransferOp == [pc: {"transferred"}, serial: Serials, from: Ids, to: Ids,
               fromWasActive: BOOLEAN, toCreatedNewRow: BOOLEAN, photo: BOOLEAN]
Op         == {Idle} \cup EnterOp \cup FoundOp \cup TransferOp

TypeOK ==
    /\ rows \in [Ids -> Row \cup {NoRow}]
    /\ nextId \in 1 .. MaxId + 1
    /\ op \in [Handlers -> Op]
    /\ registered \subseteq Serials
    /\ scrapped \subseteq Serials
    /\ astray \subseteq Serials

Init ==
    /\ rows = [i \in Ids |-> NoRow]
    /\ nextId = 1
    /\ op = [h \in Handlers |-> Idle]
    /\ registered = {}
    /\ scrapped = {}
    /\ astray = {}

-----------------------------------------------------------------------------
(* Queries.                                                                *)

Stored(s)      == {i \in Ids : rows[i] # NoRow /\ rows[i].serial = s}
OnLine(l, s)   == {i \in Stored(s) : rows[i].line = l}
ActiveRows(s)  == {i \in Stored(s) : rows[i].status = "active"}
AccFree(a, except) ==
    a = NoAcc \/ \A i \in Ids \ except : rows[i] # NoRow => rows[i].acc # a
NewRow(l, s, a) == [line |-> l, serial |-> s, status |-> "active", acc |-> a]

(* ProductFindActiveBySerial: ORDER BY id DESC LIMIT 1.                    *)
ProductFindActiveBySerial(s) ==
    {i \in ActiveRows(s) : \A j \in ActiveRows(s) : j <= i}

-----------------------------------------------------------------------------
(* Entry: the handler inserts the row, prints, and deletes the row by id   *)
(* when the print or the write after it fails.  Yigish enters on its own   *)
(* line; POST /lines/product/add on whatever line the body names, with a   *)
(* number that is given back when its print fails, and so may be drawn     *)
(* again for a serial that stands on a line.                               *)

LinesAddProduct(h, l, s) ==
    /\ op[h] = Idle
    /\ OnLine(l, s) = {}
    /\ nextId \in Ids
    /\ rows' = [rows EXCEPT ![nextId] = NewRow(l, s, NoAcc)]
    /\ nextId' = nextId + 1
    /\ op' = [op EXCEPT ![h] = [pc |-> "entering", serial |-> s, to |-> nextId]]
    /\ astray' = IF Stored(s) = {} THEN astray ELSE astray \cup {s}
    /\ UNCHANGED <<registered, scrapped>>

EntryDone(h) ==
    /\ op[h].pc = "entering"
    /\ op' = [op EXCEPT ![h] = Idle]
    /\ registered' = registered \cup {op[h].serial}
    /\ UNCHANGED <<rows, nextId, scrapped, astray>>

LinesDeleteProduct(h) ==
    /\ op[h].pc = "entering"
    /\ rows' = [rows EXCEPT ![op[h].to] = NoRow]
    /\ op' = [op EXCEPT ![h] = Idle]
    /\ UNCHANGED <<nextId, registered, scrapped, astray>>

-----------------------------------------------------------------------------
(* Transfer: the from row becomes transferred whatever its status was, the *)
(* to row is inserted or, when it exists and is not active, reactivated.   *)
(* An empty acc leaves the acc of a reactivated row alone.                 *)

LeaveLineStaysActive(f) == rows[f]                                \* mutant

LeaveLine(f) == [rows[f] EXCEPT !.status = "transferred"]

Reactivate(t, acc) ==
    [rows[t] EXCEPT !.status = "active", !.acc = IF acc = NoAcc THEN @ ELSE acc]

TransferResult(s, f, t, created) ==
    [pc |-> "transferred", serial |-> s, from |-> f, to |-> t,
     fromWasActive |-> rows[f].status = "active",
     toCreatedNewRow |-> created, photo |-> FALSE]

ProductLineTransfer(h, s, from, to, acc) ==
    \E f \in OnLine(from, s) :
        /\ \/ /\ OnLine(to, s) = {}
              /\ AccFree(acc, {})
              /\ nextId \in Ids
              /\ rows' = [rows EXCEPT ![f] = LeaveLine(f),
                                      ![nextId] = NewRow(to, s, acc)]
              /\ nextId' = nextId + 1
              /\ op' = [op EXCEPT ![h] = TransferResult(s, f, nextId, TRUE)]
           \/ \E t \in OnLine(to, s) :
              /\ rows[t].status # "active"
              /\ AccFree(acc, {t})
              /\ rows' = [rows EXCEPT ![f] = LeaveLine(f), ![t] = Reactivate(t, acc)]
              /\ op' = [op EXCEPT ![h] = TransferResult(s, f, t, FALSE)]
              /\ UNCHANGED nextId
        /\ UNCHANGED <<registered, scrapped>>

(* LinesT2V2SerialPrint, LinesT3V2SerialPrint: the lines are fixed, and    *)
(* whether the product is active is not asked.                             *)
StationTransfer(h, s, p, acc) ==
    /\ op[h] = Idle
    /\ acc = NoAcc <=> p[2] # T3LineID
    /\ ProductLineTransfer(h, s, p[1], p[2], acc)
    /\ astray' = astray \cup {s}

(* LinesQadoqlashComplete reads the active row first ...                   *)
PackableEvenIfPacked(s) == ProductFindActiveBySerial(s)           \* mutant

Packable(s) == {i \in ProductFindActiveBySerial(s) : rows[i].line # QadoqlashLineID}

PackFind(h, s) ==
    /\ op[h] = Idle
    /\ \E i \in Packable(s) :
          op' = [op EXCEPT ![h] = [pc |-> "found", serial |-> s, line |-> rows[i].line]]
    /\ UNCHANGED <<rows, nextId, registered, scrapped, astray>>

(* ... and transfers from the line it read.                                *)
PackTransfer(h, acc) ==
    /\ op[h].pc = "found"
    /\ ProductLineTransfer(h, op[h].serial, op[h].line, QadoqlashLineID, acc)
    /\ UNCHANGED astray

(* The camera's photo of the product is stored with a foreign key to the   *)
(* new row, while T3 prints and before packing writes its parameters.      *)
T3ScanPhotoInsert(h) ==
    /\ op[h].pc = "transferred"
    /\ rows[op[h].to] # NoRow
    /\ rows[op[h].to].line \in {T3LineID, QadoqlashLineID}
    /\ op' = [op EXCEPT ![h].photo = TRUE]
    /\ UNCHANGED <<rows, nextId, registered, scrapped, astray>>

(* The label is out and, for packing, the parameters are stored.  A failed *)
(* packing print comes after the last rollback point: nothing is undone.   *)
TransferDone(h) ==
    /\ op[h].pc = "transferred"
    /\ op' = [op EXCEPT ![h] = Idle]
    /\ UNCHANGED <<rows, nextId, registered, scrapped, astray>>

(* Undo of the transfer: the new row is deleted or sent back, and the from *)
(* row is put back if it was active and is still transferred.              *)
UndoToAlwaysDeletes(h) == [rows EXCEPT ![op[h].to] = NoRow]      \* mutant

UndoTo(h) ==
    IF op[h].toCreatedNewRow THEN [rows EXCEPT ![op[h].to] = NoRow]
    ELSE IF rows[op[h].to] = NoRow THEN rows
    ELSE [rows EXCEPT ![op[h].to].status = "transferred"]

(* The transaction fails, and changes nothing, when a photo still refers   *)
(* to the row to delete or the from row is not there to be put back.       *)
UndoFails(h) ==
    \/ op[h].toCreatedNewRow /\ op[h].photo
    \/ op[h].fromWasActive /\ rows[op[h].from].status # "transferred"

UndoTransferForgetsFrom(h) == UndoTo(h)                          \* mutant

UndoTransfer(h) ==
    IF UndoFails(h) THEN rows
    ELSE IF op[h].fromWasActive THEN [UndoTo(h) EXCEPT ![op[h].from].status = "active"]
    ELSE UndoTo(h)

ProductLineTransferRollback(h) ==
    /\ op[h].pc = "transferred"
    /\ rows' = UndoTransfer(h)
    /\ op' = [op EXCEPT ![h] = Idle]
    /\ UNCHANGED <<nextId, registered, scrapped, astray>>

(* A request ends with nothing undone: the process is restarted, the       *)
(* rollback's own error is discarded, or the transfer is refused.          *)
Abandon(h) ==
    /\ op[h] # Idle
    /\ op' = [op EXCEPT ![h] = Idle]
    /\ UNCHANGED <<rows, nextId, registered, scrapped, astray>>

(* writeoffApproveProductTx, for the lines that can be written off.        *)
WriteoffApproveProduct(s) ==
    /\ \E l \in WriteoffProductLineIDs : \E i \in OnLine(l, s) :
        /\ rows[i].status = "active"
        /\ rows' = [rows EXCEPT ![i].status = "written_off"]
    /\ scrapped' = scrapped \cup {s}
    /\ UNCHANGED <<nextId, op, registered, astray>>

-----------------------------------------------------------------------------
HandlerStep(h) ==
    \/ \E l \in EntryLines, s \in Serials : LinesAddProduct(h, l, s)
    \/ EntryDone(h)
    \/ LinesDeleteProduct(h)
    \/ \E p \in Stations, s \in Serials, a \in AccSerials \cup {NoAcc} :
          StationTransfer(h, s, p, a)
    \/ \E s \in Serials : PackFind(h, s)
    \/ \E a \in AccSerials : PackTransfer(h, a)
    \/ T3ScanPhotoInsert(h)
    \/ TransferDone(h)
    \/ ProductLineTransferRollback(h)
    \/ Abandon(h)

Next ==
    \/ \E h \in Handlers : HandlerStep(h)
    \/ \E s \in Serials : WriteoffApproveProduct(s)

Spec == Init /\ [][Next]_vars

-----------------------------------------------------------------------------
(* Properties.                                                             *)

(* A refrigerator whose entry label was accepted and that was never        *)
(* written off is active on some line: no interleaving of transfers, late  *)
(* rollbacks and crashes makes it disappear from every line's balance      *)
(* (ProductBalanceByLine counts active rows only).                         *)
NeverLost ==
    \A s \in registered \ scrapped : ActiveRows(s) # {}

(* The handlers the router mounts (entry on any line, packing) keep a      *)
(* serial active on at most one line, however entries, packing requests    *)
(* and rollbacks for it overlap, unless an entry gives it out again while  *)
(* it stands on another line: the unique constraint is per line.  What a   *)
(* station moves is another matter: it transfers a product that has left   *)
(* its line already, and then both rows are active.                        *)
SingleActive ==
    \A s \in Serials \ astray :
        \A i, j \in ActiveRows(s) : i = j

(* Packing takes only an active product: ProductFindActiveBySerial answers *)
(* "faol mahsulot yo'q" for any other serial.                              *)
OnlyActivePacked ==
    \A h \in Handlers :
        /\ op[h].pc = "transferred"
        /\ rows[op[h].to] # NoRow
        /\ rows[op[h].to].line = QadoqlashLineID
        => op[h].fromWasActive

(* products_un_2: one row per line and serial.                             *)
OneRowPerLine ==
    \A l \in Lines, s \in Serials : \A i, j \in OnLine(l, s) : i = j
=============================================================================
