------------------------- MODULE ProductLineProofs -------------------------
(* Proofs about ProductLine: type correctness, that no registered product  *)
(* is lost, that a serial has one row on a line, that with the mounted     *)
(* handlers it is active on one line at most, and that the undo of a       *)
(* failed print is exact.                                                  *)
EXTENDS ProductLineHistory, FiniteSetTheorems, TLAPS

-----------------------------------------------------------------------------
(* The inductive invariant.                                                *)

(* Ids not handed out yet hold no row. *)
FreshIds == \A i \in Ids : i >= nextId => rows[i] = NoRow

(* A handler's ids were handed out, and what they hold is its serial's.    *)
Holds(i, s) == i < nextId /\ (rows[i] # NoRow => rows[i].serial = s)

OpsMatchRows ==
    \A h \in Handlers :
        /\ op[h].pc = "entering" => Holds(op[h].to, op[h].serial)
        /\ op[h].pc = "transferred" =>
              /\ op[h].from # op[h].to
              /\ Holds(op[h].from, op[h].serial)
              /\ Holds(op[h].to, op[h].serial)

(* Handlers whose undo takes an active row of s without giving one back.   *)
MayTake(h, s) ==
    \/ op[h].pc = "entering" /\ op[h].serial = s
    \/ op[h].pc = "transferred" /\ op[h].serial = s /\ ~op[h].fromWasActive

Takers(s) == {h \in Handlers : MayTake(h, s)}

Due(s) == IF s \in registered THEN 1 ELSE 0

(* Every pending undo could run, and a registered product is still active. *)
Enough(s)    == Cardinality(ActiveRows(s)) >= Cardinality(Takers(s)) + Due(s)
EnoughActive == \A s \in Serials \ scrapped : Enough(s)

Typed == TypeOK /\ FreshIds /\ OpsMatchRows
IInv  == Typed /\ EnoughActive

-----------------------------------------------------------------------------
(* Typing.                                                                 *)

LEMMA InitTyped == Init => Typed
  BY ProductLineAssumption DEF Init, Typed, TypeOK, FreshIds, OpsMatchRows, Op, Idle, Ids

(* The kind of request tells the fields of its record. *)
LEMMA OpsTyped ==
  ASSUME TypeOK, NEW h \in Handlers
  PROVE  /\ op[h].pc = "idle" => op[h] = Idle
         /\ op[h].pc = "entering" => op[h] \in EnterOp
         /\ op[h].pc = "found" => op[h] \in FoundOp
         /\ op[h].pc = "transferred" => op[h] \in TransferOp
         /\ op[h].pc \in {"idle", "entering", "found", "transferred"}
  BY DEF TypeOK, Op, Idle, EnterOp, FoundOp, TransferOp

LEMMA TransferResultTyped ==
  ASSUME NEW s \in Serials, NEW f \in Ids, NEW t \in Ids, NEW c \in BOOLEAN
  PROVE  /\ TransferResult(s, f, t, c) \in TransferOp
         /\ TransferResult(s, f, t, c).pc = "transferred"
         /\ TransferResult(s, f, t, c).serial = s
         /\ TransferResult(s, f, t, c).from = f
         /\ TransferResult(s, f, t, c).to = t
         /\ TransferResult(s, f, t, c).fromWasActive = (rows[f].status = "active")
         /\ TransferResult(s, f, t, c).toCreatedNewRow = c
<1>1. (rows[f].status = "active") \in BOOLEAN
  OBVIOUS
<1>2. TransferResult(s, f, t, c) \in TransferOp
  BY <1>1, Zenon DEF TransferResult, TransferOp
<1>. QED BY <1>2 DEF TransferResult

(* Rows as a transfer leaves them. *)
LEMMA RowTyped ==
  ASSUME TypeOK, NEW i \in Ids, rows[i] # NoRow
  PROVE  /\ rows[i] \in Row
         /\ LeaveLine(i) \in Row /\ LeaveLine(i).serial = rows[i].serial
         /\ LeaveLine(i).status = "transferred" /\ LeaveLine(i).line = rows[i].line
         /\ \A acc \in AccSerials \cup {NoAcc} :
               /\ Reactivate(i, acc) \in Row
               /\ Reactivate(i, acc).serial = rows[i].serial
               /\ Reactivate(i, acc).status = "active"
               /\ Reactivate(i, acc).line = rows[i].line
  BY DEF TypeOK, LeaveLine, Reactivate, Row, Statuses

(* A transfer: the from row is left, the to row is a new or an old one.    *)
LEMMA TransferShape ==
  ASSUME Typed, NEW h \in Handlers, NEW s \in Serials, NEW from \in Lines, NEW to \in Lines,
         from # to, NEW acc \in AccSerials \cup {NoAcc},
         ProductLineTransfer(h, s, from, to, acc)
  PROVE  \E f, t \in Ids, r \in Row, c \in BOOLEAN :
           /\ rows[f] # NoRow /\ rows[f].serial = s /\ f # t /\ f < nextId /\ t < nextId'
           /\ rows[f].line = from /\ r.line = to
           /\ rows[t] # NoRow => rows[t].serial = s /\ rows[t].line = to
           /\ rows[t] = NoRow => t >= nextId /\ OnLine(to, s) = {}
           /\ c = (rows[t] = NoRow)
           /\ rows[t].status # "active"
           /\ r.serial = s /\ r.status = "active"
           /\ rows' = [rows EXCEPT ![f] = LeaveLine(f), ![t] = r]
           /\ op' = [op EXCEPT ![h] = TransferResult(s, f, t, c)]
           /\ nextId' \in {nextId, nextId + 1} /\ nextId' \in 1 .. MaxId + 1
<1>1. PICK f \in OnLine(from, s) :
        \/ /\ OnLine(to, s) = {}
           /\ nextId \in Ids
           /\ rows' = [rows EXCEPT ![f] = LeaveLine(f), ![nextId] = NewRow(to, s, acc)]
           /\ nextId' = nextId + 1
           /\ op' = [op EXCEPT ![h] = TransferResult(s, f, nextId, TRUE)]
        \/ \E t \in OnLine(to, s) :
           /\ rows[t].status # "active"
           /\ rows' = [rows EXCEPT ![f] = LeaveLine(f), ![t] = Reactivate(t, acc)]
           /\ op' = [op EXCEPT ![h] = TransferResult(s, f, t, FALSE)]
           /\ UNCHANGED nextId
  BY DEF ProductLineTransfer
<1>2. /\ f \in Ids /\ rows[f] # NoRow /\ rows[f] \in Row
      /\ rows[f].line = from /\ rows[f].serial = s /\ f < nextId
  BY RowTyped DEF OnLine, Stored, Typed, TypeOK, FreshIds, Ids
<1>3. CASE /\ OnLine(to, s) = {}
           /\ nextId \in Ids
           /\ rows' = [rows EXCEPT ![f] = LeaveLine(f), ![nextId] = NewRow(to, s, acc)]
           /\ nextId' = nextId + 1
           /\ op' = [op EXCEPT ![h] = TransferResult(s, f, nextId, TRUE)]
  <2>1. /\ NewRow(to, s, acc) \in Row /\ NewRow(to, s, acc).serial = s
        /\ NewRow(to, s, acc).status = "active" /\ NewRow(to, s, acc).line = to
    BY DEF NewRow, Row, Statuses
  <2>2. f # nextId /\ rows[nextId] = NoRow /\ nextId < nextId'
        /\ f < nextId /\ nextId' \in 1 .. MaxId + 1
    BY <1>2, <1>3, ProductLineAssumption DEF Typed, FreshIds, Ids, TypeOK
  <2>3. rows[nextId].status # "active"
    BY <2>2 DEF NoRow
  <2>. QED BY <1>2, <1>3, <2>1, <2>2, <2>3 DEF Typed, TypeOK
<1>4. CASE \E t \in OnLine(to, s) :
           /\ rows[t].status # "active"
           /\ rows' = [rows EXCEPT ![f] = LeaveLine(f), ![t] = Reactivate(t, acc)]
           /\ op' = [op EXCEPT ![h] = TransferResult(s, f, t, FALSE)]
           /\ UNCHANGED nextId
  <2>1. PICK t \in OnLine(to, s) :
           /\ rows[t].status # "active"
           /\ rows' = [rows EXCEPT ![f] = LeaveLine(f), ![t] = Reactivate(t, acc)]
           /\ op' = [op EXCEPT ![h] = TransferResult(s, f, t, FALSE)]
           /\ UNCHANGED nextId
    BY <1>4
  <2>2. t \in Ids /\ rows[t] # NoRow /\ rows[t].line = to /\ rows[t].serial = s /\ t < nextId
    BY DEF OnLine, Stored, Typed, TypeOK, FreshIds, Ids
  <2>3. f # t
    BY <1>2, <2>2
  <2>4. /\ Reactivate(t, acc) \in Row /\ Reactivate(t, acc).serial = s
        /\ Reactivate(t, acc).status = "active" /\ Reactivate(t, acc).line = to
    BY <2>2, RowTyped DEF Typed
  <2>. QED BY <1>2, <2>1, <2>2, <2>3, <2>4 DEF Typed, TypeOK
<1>. QED BY <1>1, <1>3, <1>4

LEMMA TransferTyped ==
  ASSUME Typed, NEW h \in Handlers, NEW s \in Serials, NEW from \in Lines, NEW to \in Lines,
         from # to, NEW acc \in AccSerials \cup {NoAcc},
         ProductLineTransfer(h, s, from, to, acc), astray' \subseteq Serials
  PROVE  Typed'
<1>1. PICK f, t \in Ids, r \in Row, c \in BOOLEAN :
           /\ rows[f] # NoRow /\ rows[f].serial = s /\ f # t /\ f < nextId /\ t < nextId'
           /\ rows[t] # NoRow => rows[t].serial = s
           /\ rows[t] = NoRow => t >= nextId
           /\ r.serial = s
           /\ rows' = [rows EXCEPT ![f] = LeaveLine(f), ![t] = r]
           /\ op' = [op EXCEPT ![h] = TransferResult(s, f, t, c)]
           /\ nextId' \in {nextId, nextId + 1} /\ nextId' \in 1 .. MaxId + 1
  BY TransferShape
<1>2. UNCHANGED <<registered, scrapped>>
  BY DEF ProductLineTransfer
<1>3. LeaveLine(f) \in Row /\ LeaveLine(f).serial = s
  BY <1>1, RowTyped DEF Typed
<1> DEFINE o == TransferResult(s, f, t, c)
<1>4. /\ o \in TransferOp /\ o.pc = "transferred" /\ o.serial = s /\ o.from = f /\ o.to = t
      /\ op' = [op EXCEPT ![h] = o]
  BY <1>1, TransferResultTyped
<1> HIDE DEF o
<1>5. rows' \in [Ids -> Row \cup {NoRow}]
  BY <1>1, <1>3 DEF Typed, TypeOK
<1>6. op' \in [Handlers -> Op]
  BY <1>4 DEF Typed, TypeOK, Op
<1>7. TypeOK'
  BY <1>1, <1>2, <1>5, <1>6 DEF Typed, TypeOK
<1>8. FreshIds'
  BY <1>1, <1>3 DEF Typed, TypeOK, FreshIds, Ids
<1>9. OpsMatchRows'
  <2>1. \A i \in Ids, q \in Serials : Holds(i, q) => Holds(i, q)'
    <3>1. SUFFICES ASSUME NEW i \in Ids, NEW q \in Serials, Holds(i, q)
                   PROVE  Holds(i, q)'
      OBVIOUS
    <3>2. i < nextId'
      BY <1>1, <3>1 DEF Holds, Ids, Typed, TypeOK
    <3>3. CASE i = f
      BY <1>1, <1>3, <3>1, <3>2, <3>3 DEF Typed, TypeOK, Holds
    <3>4. CASE i = t
      BY <1>1, <3>1, <3>2, <3>4 DEF Typed, TypeOK, Holds, Ids
    <3>5. CASE i # f /\ i # t
      BY <1>1, <3>1, <3>2, <3>5 DEF Typed, TypeOK, Holds
    <3>. QED BY <3>3, <3>4, <3>5
  <2>2. Holds(f, s)' /\ Holds(t, s)'
    BY <1>1, <1>3 DEF Typed, TypeOK, Holds, Ids
  <2>3. SUFFICES ASSUME NEW k \in Handlers
                 PROVE  /\ op'[k].pc = "entering" => Holds(op[k].to, op[k].serial)'
                        /\ op'[k].pc = "transferred" =>
                              /\ op'[k].from # op'[k].to
                              /\ Holds(op[k].from, op[k].serial)'
                              /\ Holds(op[k].to, op[k].serial)'
    BY DEF OpsMatchRows
  <2>4. CASE k = h
    BY <1>1, <1>4, <2>2, <2>4 DEF Typed, TypeOK
  <2>5. CASE k # h
    <3>1. op'[k] = op[k]
      BY <1>4, <2>5 DEF Typed, TypeOK
    <3>. QED BY <2>1, <3>1, OpsTyped DEF Typed, OpsMatchRows, EnterOp, TransferOp, Holds
  <2>. QED BY <2>4, <2>5
<1>. QED BY <1>7, <1>8, <1>9 DEF Typed

(* The undo changes at most the to row, which it takes off its line, and   *)
(* the from row, which it gives back when it had been active.              *)
LEMMA UndoShape ==
  ASSUME Typed, NEW h \in Handlers, op[h].pc = "transferred", ~UndoFails(h)
  PROVE  \E q \in Row \cup {NoRow} :
           /\ q # NoRow => /\ q.serial = op[h].serial /\ rows[op[h].to] # NoRow
                           /\ q.line = rows[op[h].to].line
           /\ q.status # "active" /\ (q # NoRow => q.status = "transferred")
           /\ (op[h].toCreatedNewRow \/ rows[op[h].to] = NoRow) <=> q = NoRow
           /\ \/ /\ ~op[h].fromWasActive
                 /\ UndoTransfer(h) = [rows EXCEPT ![op[h].to] = q]
              \/ /\ op[h].fromWasActive
                 /\ rows[op[h].from] \in Row /\ rows[op[h].from].status = "transferred"
                 /\ UndoTransfer(h) =
                      [rows EXCEPT ![op[h].to] = q,
                                   ![op[h].from] = [rows[op[h].from] EXCEPT !.status = "active"]]
<1> DEFINE t == op[h].to
           f == op[h].from
<1>1. /\ t \in Ids /\ f \in Ids /\ f # t
      /\ Holds(t, op[h].serial) /\ Holds(f, op[h].serial)
  BY OpsTyped DEF Typed, OpsMatchRows, TransferOp
<1>2. rows[t] # NoRow => rows[t] \in Row
  BY <1>1, RowTyped DEF Typed
<1>3. \E q \in Row \cup {NoRow} :
           /\ q # NoRow => q.serial = op[h].serial /\ rows[t] # NoRow /\ q.line = rows[t].line
           /\ q.status # "active" /\ (q # NoRow => q.status = "transferred")
           /\ (op[h].toCreatedNewRow \/ rows[t] = NoRow) <=> q = NoRow
           /\ UndoTo(h) = [rows EXCEPT ![t] = q]
  <2>1. CASE op[h].toCreatedNewRow
    BY <2>1 DEF UndoTo, NoRow
  <2>2. CASE ~op[h].toCreatedNewRow /\ rows[t] = NoRow
    <3>1. rows = [rows EXCEPT ![t] = NoRow]
      BY <1>1, <2>2 DEF Typed, TypeOK
    <3>. QED BY <2>2, <3>1 DEF UndoTo, NoRow
  <2>3. CASE ~op[h].toCreatedNewRow /\ rows[t] # NoRow
    <3>1. LeaveLine(t) \in Row /\ LeaveLine(t).serial = rows[t].serial
          /\ LeaveLine(t).status = "transferred" /\ LeaveLine(t).line = rows[t].line
      BY <1>1, <2>3, RowTyped DEF Typed
    <3>2. UndoTo(h) = [rows EXCEPT ![t] = LeaveLine(t)]
      BY <1>1, <2>3 DEF UndoTo, LeaveLine, Typed, TypeOK
    <3>3. LeaveLine(t) # NoRow
      BY <3>1 DEF NoRow
    <3> DEFINE q == LeaveLine(t)
    <3>4. /\ q.serial = op[h].serial /\ q.line = rows[t].line /\ q.status = "transferred"
          /\ q \in Row /\ q # NoRow /\ UndoTo(h) = [rows EXCEPT ![t] = q]
      BY <1>1, <2>3, <3>1, <3>2, <3>3 DEF Holds
    <3> HIDE DEF q
    <3>. QED BY <2>3, <3>4
  <2>. QED BY <2>1, <2>2, <2>3
<1>4. PICK q \in Row \cup {NoRow} :
           /\ q # NoRow => q.serial = op[h].serial /\ rows[t] # NoRow /\ q.line = rows[t].line
           /\ q.status # "active" /\ (q # NoRow => q.status = "transferred")
           /\ (op[h].toCreatedNewRow \/ rows[t] = NoRow) <=> q = NoRow
           /\ UndoTo(h) = [rows EXCEPT ![t] = q]
  BY <1>3
<1>5. CASE ~op[h].fromWasActive
  BY <1>4, <1>5 DEF UndoTransfer
<1>6. CASE op[h].fromWasActive
  <2>1. rows[f].status = "transferred"
    BY <1>6 DEF UndoTransfer, UndoFails
  <2>2. rows[f] # NoRow
    BY <2>1 DEF NoRow
  <2>3. UndoTransfer(h) = [UndoTo(h) EXCEPT ![f].status = "active"]
    BY <1>6 DEF UndoTransfer
  <2>4. UndoTransfer(h) = [rows EXCEPT ![t] = q, ![f] = [rows[f] EXCEPT !.status = "active"]]
    BY <1>1, <1>4, <2>3 DEF Typed, TypeOK
  <2>. QED BY <1>1, <1>4, <1>6, <2>1, <2>2, <2>4, RowTyped DEF Typed
<1>. QED BY <1>5, <1>6

(* Requests that only end, or only note something, keep the types. *)
LEMMA OpEndTyped ==
  ASSUME Typed, NEW h \in Handlers, op' = [op EXCEPT ![h] = Idle],
         rows' \in [Ids -> Row \cup {NoRow}], UNCHANGED nextId,
         \A i \in Ids : rows'[i] # NoRow => rows[i] # NoRow /\ rows'[i].serial = rows[i].serial,
         registered' \subseteq Serials, scrapped' \subseteq Serials, astray' \subseteq Serials
  PROVE  Typed'
<1>1. TypeOK'
  BY DEF Typed, TypeOK, Op
<1>2. FreshIds'
  BY DEF Typed, FreshIds
<1>3. OpsMatchRows'
  <2>1. \A i \in Ids, q \in Serials : Holds(i, q) => Holds(i, q)'
    BY DEF Holds
  <2>2. SUFFICES ASSUME NEW k \in Handlers
                 PROVE  /\ op'[k].pc = "entering" => Holds(op[k].to, op[k].serial)'
                        /\ op'[k].pc = "transferred" =>
                              /\ op'[k].from # op'[k].to
                              /\ Holds(op[k].from, op[k].serial)'
                              /\ Holds(op[k].to, op[k].serial)'
    BY DEF OpsMatchRows
  <2>3. CASE k = h
    BY <2>3 DEF Typed, TypeOK, Idle
  <2>4. CASE k # h
    <3>1. op'[k] = op[k]
      BY <2>4 DEF Typed, TypeOK
    <3>. QED BY <2>1, <3>1, OpsTyped DEF Typed, OpsMatchRows, EnterOp, TransferOp, Holds
  <2>. QED BY <2>3, <2>4
<1>. QED BY <1>1, <1>2, <1>3 DEF Typed

(* Steps that keep the rows and the other requests' records. *)
LEMMA OpTyped ==
  ASSUME Typed, NEW h \in Handlers, NEW o \in Op, op' = [op EXCEPT ![h] = o],
         UNCHANGED <<rows, nextId, registered, scrapped, astray>>,
         o.pc \notin {"idle", "found"} =>
            /\ o.pc = op[h].pc /\ o.serial = op[h].serial
            /\ o.to = op[h].to /\ o.from = op[h].from
  PROVE  Typed'
<1>1. TypeOK' /\ FreshIds'
  BY DEF Typed, TypeOK, FreshIds
<1>2. OpsMatchRows'
  BY DEF Typed, TypeOK, OpsMatchRows, Holds
<1>. QED BY <1>1, <1>2 DEF Typed

LEMMA LinesAddProductTyped ==
  ASSUME Typed, NEW h \in Handlers, NEW l \in EntryLines, NEW s \in Serials,
         LinesAddProduct(h, l, s)
  PROVE  Typed'
<1> DEFINE r == NewRow(l, s, NoAcc)
           o == [pc |-> "entering", serial |-> s, to |-> nextId]
<1>1. /\ nextId \in Ids /\ rows' = [rows EXCEPT ![nextId] = r] /\ nextId' = nextId + 1
      /\ op' = [op EXCEPT ![h] = o] /\ UNCHANGED <<registered, scrapped>>
      /\ astray' \in {astray, astray \cup {s}}
  BY DEF LinesAddProduct
<1>2. r \in Row /\ r.serial = s
  BY ProductLineAssumption DEF NewRow, Row, Statuses
<1>3. o \in EnterOp /\ o.pc = "entering" /\ o.serial = s /\ o.to = nextId
  BY <1>1 DEF EnterOp
<1> HIDE DEF r, o
<1>4. TypeOK' /\ FreshIds'
  BY <1>1, <1>2, <1>3, ProductLineAssumption DEF Typed, TypeOK, FreshIds, Op, Ids
<1>5. \A i \in Ids, q \in Serials : Holds(i, q) => Holds(i, q)'
  BY <1>1 DEF Typed, TypeOK, Holds, Ids
<1>6. OpsMatchRows'
  <2>1. SUFFICES ASSUME NEW k \in Handlers
                 PROVE  /\ op'[k].pc = "entering" => Holds(op[k].to, op[k].serial)'
                        /\ op'[k].pc = "transferred" =>
                              /\ op'[k].from # op'[k].to
                              /\ Holds(op[k].from, op[k].serial)'
                              /\ Holds(op[k].to, op[k].serial)'
    BY DEF OpsMatchRows
  <2>2. CASE k = h
    BY <1>1, <1>2, <1>3, <2>2 DEF Typed, TypeOK, Holds, Ids
  <2>3. CASE k # h
    <3>1. op'[k] = op[k]
      BY <1>1, <2>3 DEF Typed, TypeOK
    <3>. QED BY <1>5, <3>1, OpsTyped DEF Typed, OpsMatchRows, EnterOp, TransferOp, Holds
  <2>. QED BY <2>2, <2>3
<1>. QED BY <1>4, <1>6 DEF Typed

LEMMA PackLine ==
  ASSUME Typed, NEW h \in Handlers, NEW acc \in AccSerials, PackTransfer(h, acc)
  PROVE  /\ op[h].serial \in Serials /\ op[h].line \in Lines
         /\ op[h].line # QadoqlashLineID /\ QadoqlashLineID \in Lines
         /\ ProductLineTransfer(h, op[h].serial, op[h].line, QadoqlashLineID, acc)
         /\ astray' = astray
  BY OpsTyped DEF PackTransfer, Typed, FoundOp, Lines

LEMMA StationLines ==
  ASSUME NEW h \in Handlers, NEW s \in Serials, NEW p \in Stations,
         NEW acc \in AccSerials \cup {NoAcc}, StationTransfer(h, s, p, acc)
  PROVE  /\ p[1] \in Lines /\ p[2] \in Lines /\ p[1] # p[2]
         /\ ProductLineTransfer(h, s, p[1], p[2], acc)
         /\ astray' = astray \cup {s}
  BY ProductLineAssumption DEF StationTransfer

(* A write-off: an active row of a line that can be written off.           *)
LEMMA WriteoffShape ==
  ASSUME Typed, NEW s \in Serials, WriteoffApproveProduct(s)
  PROVE  \E i \in Ids, r \in Row :
           /\ rows[i] # NoRow /\ rows[i].serial = s /\ r.serial = s
           /\ rows[i].line = YigishLineID /\ r.line = YigishLineID
           /\ rows[i].status = "active" /\ r.status = "written_off"
           /\ rows' = [rows EXCEPT ![i] = r]
<1>0. PICK l \in WriteoffProductLineIDs :
        \E i \in OnLine(l, s) : /\ rows[i].status = "active"
                               /\ rows' = [rows EXCEPT ![i].status = "written_off"]
  BY DEF WriteoffApproveProduct
<1>1. PICK i \in OnLine(l, s) : /\ rows[i].status = "active"
                               /\ rows' = [rows EXCEPT ![i].status = "written_off"]
  BY <1>0
<1>2. i \in Ids /\ rows[i] # NoRow /\ rows[i].serial = s /\ rows[i].line = YigishLineID
  BY DEF OnLine, Stored, WriteoffProductLineIDs
<1>3. rows[i] \in Row
  BY <1>2, RowTyped DEF Typed
<1> DEFINE r == [rows[i] EXCEPT !.status = "written_off"]
<1>4. r \in Row /\ r.serial = s /\ r.line = YigishLineID /\ r.status = "written_off"
  BY <1>2, <1>3 DEF Row, Statuses
<1>5. rows' = [rows EXCEPT ![i] = r]
  BY <1>1, <1>2 DEF Typed, TypeOK
<1> HIDE DEF r
<1>. QED BY <1>1, <1>2, <1>4, <1>5

LEMMA WriteoffTyped ==
  ASSUME Typed, NEW s \in Serials, WriteoffApproveProduct(s)
  PROVE  Typed'
<1>1. UNCHANGED <<nextId, op, registered, astray>> /\ scrapped' = scrapped \cup {s}
  BY DEF WriteoffApproveProduct
<1>2. PICK i \in Ids, r \in Row : /\ rows[i] # NoRow /\ rows[i].serial = s /\ r.serial = s
                                  /\ rows' = [rows EXCEPT ![i] = r]
  BY WriteoffShape
<1>3. TypeOK' /\ FreshIds'
  BY <1>1, <1>2 DEF Typed, TypeOK, FreshIds
<1>4. OpsMatchRows'
  BY <1>1, <1>2 DEF Typed, TypeOK, OpsMatchRows, Holds
<1>. QED BY <1>3, <1>4 DEF Typed

LEMMA RollbackTyped ==
  ASSUME Typed, NEW h \in Handlers, ProductLineTransferRollback(h)
  PROVE  Typed'
<1>1. /\ op[h].pc = "transferred" /\ rows' = UndoTransfer(h) /\ op' = [op EXCEPT ![h] = Idle]
      /\ UNCHANGED <<nextId, registered, scrapped, astray>>
  BY DEF ProductLineTransferRollback
<1>2. op[h].to \in Ids /\ op[h].from \in Ids
  BY <1>1, OpsTyped DEF Typed, TransferOp
<1>3. /\ rows' \in [Ids -> Row \cup {NoRow}]
      /\ \A i \in Ids : rows'[i] # NoRow => rows[i] # NoRow /\ rows'[i].serial = rows[i].serial
  <2>1. CASE UndoTransfer(h) = rows
    BY <1>1, <2>1 DEF Typed, TypeOK
  <2>2. CASE UndoTransfer(h) # rows
    <3>1. PICK q \in Row \cup {NoRow} :
           /\ q # NoRow => q.serial = op[h].serial /\ rows[op[h].to] # NoRow
           /\ \/ rows' = [rows EXCEPT ![op[h].to] = q]
              \/ /\ rows[op[h].from] \in Row /\ rows[op[h].from].status = "transferred"
                 /\ rows' = [rows EXCEPT ![op[h].to] = q,
                              ![op[h].from] = [rows[op[h].from] EXCEPT !.status = "active"]]
      BY <1>1, <2>2, UndoShape DEF UndoTransfer
    <3>2. rows[op[h].to] # NoRow => rows[op[h].to].serial = op[h].serial
      BY <1>1 DEF Typed, OpsMatchRows, Holds
    <3>3. CASE rows' = [rows EXCEPT ![op[h].to] = q]
      BY <1>2, <3>1, <3>2, <3>3 DEF Typed, TypeOK
    <3>4. CASE /\ rows[op[h].from] \in Row /\ rows[op[h].from].status = "transferred"
               /\ rows' = [rows EXCEPT ![op[h].to] = q,
                              ![op[h].from] = [rows[op[h].from] EXCEPT !.status = "active"]]
      <4> DEFINE a == [rows[op[h].from] EXCEPT !.status = "active"]
      <4>1. a \in Row /\ a.serial = rows[op[h].from].serial /\ rows[op[h].from] # NoRow
        BY <3>4 DEF Row, Statuses, NoRow
      <4> HIDE DEF a
      <4>. QED BY <1>2, <3>1, <3>2, <3>4, <4>1 DEF Typed, TypeOK, a
    <3>. QED BY <3>1, <3>3, <3>4
  <2>. QED BY <2>1, <2>2
<1>. QED BY <1>1, <1>3, OpEndTyped DEF Typed, TypeOK

LEMMA StepTyped == Typed /\ [Next]_vars => Typed'
<1> SUFFICES ASSUME Typed, [Next]_vars PROVE Typed'
  OBVIOUS
<1>1. ASSUME NEW h \in Handlers, NEW l \in EntryLines, NEW s \in Serials,
             LinesAddProduct(h, l, s)
      PROVE  Typed'
  BY <1>1, LinesAddProductTyped
<1>2. ASSUME NEW h \in Handlers, EntryDone(h)
      PROVE  Typed'
  <2>1. op[h].serial \in Serials
    BY <1>2, OpsTyped DEF EntryDone, Typed, EnterOp
  <2>. QED BY <1>2, <2>1, OpEndTyped DEF EntryDone, Typed, TypeOK
<1>3. ASSUME NEW h \in Handlers, LinesDeleteProduct(h)
      PROVE  Typed'
  <2>1. op[h].serial \in Serials /\ op[h].to \in Ids
    BY <1>3, OpsTyped DEF LinesDeleteProduct, Typed, EnterOp
  <2>. QED BY <1>3, <2>1, OpEndTyped DEF LinesDeleteProduct, Typed, TypeOK
<1>4. ASSUME NEW h \in Handlers, NEW p \in Stations, NEW s \in Serials,
             NEW a \in AccSerials \cup {NoAcc}, StationTransfer(h, s, p, a)
      PROVE  Typed'
  BY <1>4, StationLines, TransferTyped DEF Typed, TypeOK
<1>5. ASSUME NEW h \in Handlers, NEW s \in Serials, PackFind(h, s)
      PROVE  Typed'
  <2>1. PICK i \in Packable(s) :
          op' = [op EXCEPT ![h] = [pc |-> "found", serial |-> s, line |-> rows[i].line]]
    BY <1>5 DEF PackFind
  <2>2. rows[i] \in Row /\ rows[i].line # QadoqlashLineID
    BY RowTyped DEF Packable, ProductFindActiveBySerial, ActiveRows, Stored, Typed
  <2>3. [pc |-> "found", serial |-> s, line |-> rows[i].line] \in Op
    BY <2>2 DEF Op, FoundOp, Row
  <2>. QED BY <1>5, <2>1, <2>3, OpTyped DEF PackFind
<1>6. ASSUME NEW h \in Handlers, NEW a \in AccSerials, PackTransfer(h, a)
      PROVE  Typed'
  BY <1>6, PackLine, TransferTyped DEF Typed, TypeOK
<1>7. ASSUME NEW h \in Handlers, T3ScanPhotoInsert(h)
      PROVE  Typed'
  <2>1. op[h] \in TransferOp
    BY <1>7, OpsTyped DEF T3ScanPhotoInsert, Typed
  <2> DEFINE o == [op[h] EXCEPT !.photo = TRUE]
  <2>2. /\ o \in Op /\ o.pc = op[h].pc /\ o.serial = op[h].serial
        /\ o.to = op[h].to /\ o.from = op[h].from
    BY <2>1 DEF Op, TransferOp
  <2>3. op' = [op EXCEPT ![h] = o]
    BY <1>7 DEF T3ScanPhotoInsert, Typed, TypeOK
  <2>. QED BY <1>7, <2>2, <2>3, OpTyped DEF T3ScanPhotoInsert
<1>8. ASSUME NEW h \in Handlers, TransferDone(h) \/ Abandon(h)
      PROVE  Typed'
  BY <1>8, OpEndTyped DEF TransferDone, Abandon, Typed, TypeOK
<1>9. ASSUME NEW h \in Handlers, ProductLineTransferRollback(h)
      PROVE  Typed'
  BY <1>9, RollbackTyped
<1>10. ASSUME NEW s \in Serials, WriteoffApproveProduct(s)
       PROVE  Typed'
  BY <1>10, WriteoffTyped
<1>11. CASE UNCHANGED vars
  BY <1>11 DEF vars, Typed, TypeOK, FreshIds, OpsMatchRows, Holds
<1>. QED BY <1>1, <1>2, <1>3, <1>4, <1>5, <1>6, <1>7, <1>8, <1>9, <1>10, <1>11
         DEF Next, HandlerStep

(* Every reachable state is well typed. *)
THEOREM TypeCorrect == Spec => []TypeOK
<1>1. Typed => TypeOK
  BY DEF Typed
<1>. QED BY <1>1, InitTyped, StepTyped, PTL DEF Spec

-----------------------------------------------------------------------------
(* Counting.                                                               *)

LEMMA Finite ==
  ASSUME NEW s
  PROVE  IsFiniteSet(ActiveRows(s)) /\ IsFiniteSet(Takers(s))
<1>1. IsFiniteSet(Ids)
  BY FS_Interval, ProductLineAssumption DEF Ids
<1>2. ActiveRows(s) \subseteq Ids /\ Takers(s) \subseteq Handlers
  BY DEF ActiveRows, Stored, Takers
<1>. QED BY <1>1, <1>2, FS_Subset, ProductLineAssumption

LEMMA FiniteNext ==
  ASSUME NEW s
  PROVE  IsFiniteSet(ActiveRows(s)')
<1>1. IsFiniteSet(Ids)
  BY FS_Interval, ProductLineAssumption DEF Ids
<1>2. ActiveRows(s)' \subseteq Ids
  BY DEF ActiveRows, Stored
<1>. QED BY <1>1, <1>2, FS_Subset

(* Moves for one serial and one step of one handler. *)
LEMMA EnoughStep ==
  ASSUME NEW s, NEW h, NEW x, NEW y, Enough(s),
         \/ /\ ActiveRows(s) \subseteq ActiveRows(s)'
            /\ Takers(s)' \subseteq Takers(s) /\ Due(s)' <= Due(s)
         \/ /\ ActiveRows(s) \subseteq ActiveRows(s)'
            /\ h \in Takers(s) /\ Takers(s)' = Takers(s) \ {h} /\ Due(s)' <= Due(s) + 1
         \/ /\ ActiveRows(s) \cup {x} \subseteq ActiveRows(s)' /\ x \notin ActiveRows(s)
            /\ Takers(s)' = Takers(s) \cup {h} /\ Due(s)' <= Due(s)
         \/ /\ ActiveRows(s) \ {y} \subseteq ActiveRows(s)'
            /\ h \in Takers(s) /\ Takers(s)' = Takers(s) \ {h} /\ Due(s)' <= Due(s)
         \/ /\ (ActiveRows(s) \ {y}) \cup {x} \subseteq ActiveRows(s)' /\ x \notin ActiveRows(s)
            /\ Takers(s)' \subseteq Takers(s) /\ Due(s)' <= Due(s)
  PROVE  Enough(s)'
<1> DEFINE A == ActiveRows(s)  B == ActiveRows(s)'  T == Takers(s)  U == Takers(s)'
           d == Due(s)         e == Due(s)'
<1>1. IsFiniteSet(A) /\ IsFiniteSet(B) /\ IsFiniteSet(T)
  BY Finite, FiniteNext
<1>2. d \in Nat /\ e \in Nat
  BY DEF Due
<1>3. Cardinality(A) >= Cardinality(T) + d
  BY DEF Enough
<1>4. SUFFICES Cardinality(B) >= Cardinality(U) + e
  BY DEF Enough
<1>5. \/ A \subseteq B /\ U \subseteq T /\ e <= d
      \/ A \subseteq B /\ h \in T /\ U = T \ {h} /\ e <= d + 1
      \/ A \cup {x} \subseteq B /\ x \notin A /\ U = T \cup {h} /\ e <= d
      \/ A \ {y} \subseteq B /\ h \in T /\ U = T \ {h} /\ e <= d
      \/ (A \ {y}) \cup {x} \subseteq B /\ x \notin A /\ U \subseteq T /\ e <= d
  OBVIOUS
<1> HIDE DEF A, B, T, U, d, e
<1>6. \A S : S \subseteq B => IsFiniteSet(S) /\ Cardinality(S) <= Cardinality(B)
  BY <1>1, FS_Subset
<1>7. \A S : S \subseteq T => IsFiniteSet(S) /\ Cardinality(S) <= Cardinality(T)
  BY <1>1, FS_Subset
<1>8. /\ Cardinality(A) \in Nat /\ Cardinality(B) \in Nat /\ Cardinality(T) \in Nat
  BY <1>1, FS_CardinalityType
<1>9. /\ IsFiniteSet(A \ {y}) /\ Cardinality(A \ {y}) \in Nat
      /\ Cardinality(A \ {y}) >= Cardinality(A) - 1
  BY <1>1, <1>8, FS_RemoveElement, FS_Subset, FS_CardinalityType
<1>10. h \in T => Cardinality(T \ {h}) = Cardinality(T) - 1
  BY <1>1, FS_RemoveElement
<1>11. Cardinality(T \cup {h}) <= Cardinality(T) + 1 /\ Cardinality(T \cup {h}) \in Nat
  <2>1. IsFiniteSet(T \cup {h}) /\
        (Cardinality(T \cup {h}) = Cardinality(T) \/ Cardinality(T \cup {h}) = Cardinality(T) + 1)
    BY <1>1, FS_AddElement
  <2>. QED BY <1>8, <2>1
<1>12. x \notin A => Cardinality(A \cup {x}) = Cardinality(A) + 1
  BY <1>1, FS_AddElement
<1>13. x \notin A => Cardinality((A \ {y}) \cup {x}) = Cardinality(A \ {y}) + 1
  BY <1>9, FS_AddElement
<1>14. U \subseteq T => Cardinality(U) \in Nat
  BY <1>7, FS_CardinalityType
<1>15. T \ {h} \subseteq T
  OBVIOUS
<1>16. ASSUME A \subseteq B, U \subseteq T, e <= d PROVE Cardinality(B) >= Cardinality(U) + e
  BY <1>2, <1>3, <1>6, <1>7, <1>8, <1>14, <1>16
<1>17. ASSUME A \subseteq B, h \in T, U = T \ {h}, e <= d + 1
       PROVE  Cardinality(B) >= Cardinality(U) + e
  BY <1>2, <1>3, <1>6, <1>8, <1>10, <1>14, <1>15, <1>17
<1>18. ASSUME A \cup {x} \subseteq B, x \notin A, U = T \cup {h}, e <= d
       PROVE  Cardinality(B) >= Cardinality(U) + e
  BY <1>2, <1>3, <1>6, <1>8, <1>11, <1>12, <1>18
<1>19. ASSUME A \ {y} \subseteq B, h \in T, U = T \ {h}, e <= d
       PROVE  Cardinality(B) >= Cardinality(U) + e
  BY <1>2, <1>3, <1>6, <1>8, <1>9, <1>10, <1>14, <1>15, <1>19
<1>20. ASSUME (A \ {y}) \cup {x} \subseteq B, x \notin A, U \subseteq T, e <= d
       PROVE  Cardinality(B) >= Cardinality(U) + e
  BY <1>2, <1>3, <1>6, <1>7, <1>8, <1>9, <1>13, <1>14, <1>20
<1>. QED BY <1>5, <1>16, <1>17, <1>18, <1>19, <1>20

LEMMA TakersStep ==
  ASSUME Typed, NEW h \in Handlers, NEW o, op' = [op EXCEPT ![h] = o], NEW s
  PROVE  /\ MayTake(h, s)' => Takers(s)' = Takers(s) \cup {h}
         /\ ~MayTake(h, s)' => Takers(s)' = Takers(s) \ {h}
<1>1. \A k \in Handlers \ {h} : op'[k] = op[k]
  BY DEF Typed, TypeOK
<1>. QED BY <1>1 DEF Takers, MayTake

-----------------------------------------------------------------------------
(* Each step keeps Enough for each serial not written off.                 *)

LEMMA LinesAddProductEnough ==
  ASSUME Typed, NEW h \in Handlers, NEW l \in EntryLines, NEW s \in Serials,
         LinesAddProduct(h, l, s), NEW q \in Serials, Enough(q)
  PROVE  Enough(q)'
<1> DEFINE r == NewRow(l, s, NoAcc)
           o == [pc |-> "entering", serial |-> s, to |-> nextId]
<1>1. /\ op[h] = Idle /\ nextId \in Ids /\ rows' = [rows EXCEPT ![nextId] = r]
      /\ op' = [op EXCEPT ![h] = o] /\ UNCHANGED <<registered, scrapped>>
      /\ astray' \in {astray, astray \cup {s}}
  BY DEF LinesAddProduct
<1>2. /\ r.serial = s /\ r.status = "active" /\ r # NoRow
      /\ rows[nextId] = NoRow
  BY <1>1 DEF NewRow, NoRow, Typed, FreshIds, Ids
<1>3. op'[h] = o /\ o.pc = "entering" /\ o.serial = s
  BY <1>1 DEF Typed, TypeOK
<1>4. Due(q)' <= Due(q) /\ op[h].pc = "idle"
  BY <1>1 DEF Due, Idle
<1> HIDE DEF r, o
<1>5. CASE q = s
  <2>1. MayTake(h, q)'
    BY <1>3, <1>5 DEF MayTake
  <2>2. Takers(q)' = Takers(q) \cup {h}
    BY <1>1, <2>1, TakersStep
  <2>3. ActiveRows(q) \cup {nextId} \subseteq ActiveRows(q)' /\ nextId \notin ActiveRows(q)
    BY <1>1, <1>2, <1>5 DEF ActiveRows, Stored, Typed, TypeOK
  <2>. QED BY <1>4, <2>2, <2>3, EnoughStep
<1>6. CASE q # s
  <2>1. ~MayTake(h, q)'
    BY <1>3, <1>6 DEF MayTake
  <2>2. Takers(q)' \subseteq Takers(q)
    BY <1>1, <2>1, TakersStep
  <2>3. ActiveRows(q) \subseteq ActiveRows(q)'
    BY <1>1, <1>2 DEF ActiveRows, Stored, Typed, TypeOK
  <2>. QED BY <1>4, <2>2, <2>3, EnoughStep
<1>. QED BY <1>5, <1>6

LEMMA TransferEnough ==
  ASSUME Typed, NEW h \in Handlers, NEW s \in Serials, NEW from \in Lines, NEW to \in Lines,
         from # to, NEW acc \in AccSerials \cup {NoAcc},
         ProductLineTransfer(h, s, from, to, acc), op[h].pc \in {"idle", "found"},
         NEW q \in Serials, Enough(q)
  PROVE  Enough(q)'
<1>1. PICK f, t \in Ids, r \in Row, c \in BOOLEAN :
           /\ rows[f] # NoRow /\ rows[f].serial = s /\ f # t
           /\ rows[t] # NoRow => rows[t].serial = s
           /\ rows[t].status # "active"
           /\ r.serial = s /\ r.status = "active"
           /\ rows' = [rows EXCEPT ![f] = LeaveLine(f), ![t] = r]
           /\ op' = [op EXCEPT ![h] = TransferResult(s, f, t, c)]
  BY TransferShape
<1>2. Due(q)' <= Due(q)
  BY DEF ProductLineTransfer, Due
<1>3. h \notin Takers(q)
  BY DEF Takers, MayTake
<1> DEFINE o == TransferResult(s, f, t, c)
<1>4. /\ o.pc = "transferred" /\ o.serial = s
      /\ o.fromWasActive = (rows[f].status = "active")
  BY TransferResultTyped
<1>5. op'[h] = o /\ op' = [op EXCEPT ![h] = o]
  BY <1>1 DEF Typed, TypeOK
<1>6. LeaveLine(f).status = "transferred"
  BY <1>1, RowTyped DEF Typed
<1>7. r # NoRow
  BY <1>1 DEF NoRow
<1> HIDE DEF o
<1>8. CASE q # s
  <2>1. ~MayTake(h, q)'
    BY <1>4, <1>5, <1>8 DEF MayTake
  <2>2. Takers(q)' \subseteq Takers(q)
    BY <1>5, <2>1, TakersStep
  <2>3. ActiveRows(q) \subseteq ActiveRows(q)'
    BY <1>1, <1>8 DEF ActiveRows, Stored, Typed, TypeOK
  <2>. QED BY <1>2, <2>2, <2>3, EnoughStep
<1>9. CASE q = s /\ rows[f].status = "active"
  <2>1. ~MayTake(h, q)'
    BY <1>4, <1>5, <1>9 DEF MayTake
  <2>2. Takers(q)' \subseteq Takers(q)
    BY <1>5, <2>1, TakersStep
  <2>3. (ActiveRows(q) \ {f}) \cup {t} \subseteq ActiveRows(q)' /\ t \notin ActiveRows(q)
    BY <1>1, <1>7, <1>9 DEF ActiveRows, Stored, Typed, TypeOK
  <2>. QED BY <1>2, <2>2, <2>3, EnoughStep
<1>10. CASE q = s /\ rows[f].status # "active"
  <2>1. MayTake(h, q)'
    BY <1>4, <1>5, <1>10 DEF MayTake
  <2>2. Takers(q)' = Takers(q) \cup {h}
    BY <1>5, <2>1, TakersStep
  <2>3. ActiveRows(q) \cup {t} \subseteq ActiveRows(q)' /\ t \notin ActiveRows(q)
    BY <1>1, <1>7, <1>10 DEF ActiveRows, Stored, Typed, TypeOK
  <2>. QED BY <1>2, <2>2, <2>3, EnoughStep
<1>. QED BY <1>8, <1>9, <1>10

LEMMA EntryDoneEnough ==
  ASSUME Typed, NEW h \in Handlers, EntryDone(h), NEW q \in Serials, Enough(q)
  PROVE  Enough(q)'
<1>1. /\ op[h].pc = "entering" /\ op' = [op EXCEPT ![h] = Idle] /\ UNCHANGED rows
      /\ registered' = registered \cup {op[h].serial}
  BY DEF EntryDone
<1>2. ~MayTake(h, q)'
  BY <1>1 DEF MayTake, Idle, Typed, TypeOK
<1>3. Takers(q)' = Takers(q) \ {h}
  BY <1>1, <1>2, TakersStep
<1>4. ActiveRows(q) \subseteq ActiveRows(q)'
  BY <1>1 DEF ActiveRows, Stored
<1>5. CASE op[h].serial = q
  <2>1. h \in Takers(q)
    BY <1>1, <1>5 DEF Takers, MayTake
  <2>2. Due(q)' <= Due(q) + 1
    BY DEF Due
  <2>. QED BY <1>3, <1>4, <2>1, <2>2, EnoughStep
<1>6. CASE op[h].serial # q
  <2>1. Due(q)' <= Due(q)
    BY <1>1, <1>6 DEF Due
  <2>. QED BY <1>3, <1>4, <2>1, EnoughStep
<1>. QED BY <1>5, <1>6

LEMMA LinesDeleteProductEnough ==
  ASSUME Typed, NEW h \in Handlers, LinesDeleteProduct(h), NEW q \in Serials, Enough(q)
  PROVE  Enough(q)'
<1> DEFINE t == op[h].to
<1>1. /\ op[h].pc = "entering" /\ op' = [op EXCEPT ![h] = Idle]
      /\ rows' = [rows EXCEPT ![t] = NoRow] /\ UNCHANGED registered
  BY DEF LinesDeleteProduct
<1>2. ~MayTake(h, q)'
  BY <1>1 DEF MayTake, Idle, Typed, TypeOK
<1>3. Takers(q)' = Takers(q) \ {h} /\ Due(q)' <= Due(q)
  <2>1. Takers(q)' = Takers(q) \ {h}
    BY <1>1, <1>2, TakersStep
  <2>2. Due(q)' <= Due(q)
    BY <1>1 DEF Due
  <2>. QED BY <2>1, <2>2
<1>4. rows[t] # NoRow => rows[t].serial = op[h].serial
  BY <1>1 DEF Typed, OpsMatchRows, Holds
<1>5. ActiveRows(q) \ {t} \subseteq ActiveRows(q)'
  BY <1>1 DEF ActiveRows, Stored, Typed, TypeOK
<1>6. CASE op[h].serial = q
  <2>1. h \in Takers(q)
    BY <1>1, <1>6 DEF Takers, MayTake
  <2>. QED BY <1>3, <1>5, <2>1, EnoughStep
<1>7. CASE op[h].serial # q
  <2>1. t \notin ActiveRows(q)
    BY <1>4, <1>7 DEF ActiveRows, Stored
  <2>. QED BY <1>3, <1>5, <2>1, EnoughStep
<1>. QED BY <1>6, <1>7

LEMMA RollbackEnough ==
  ASSUME Typed, NEW h \in Handlers, ProductLineTransferRollback(h), NEW q \in Serials, Enough(q)
  PROVE  Enough(q)'
<1> DEFINE f == op[h].from
           t == op[h].to
<1>1. /\ op[h].pc = "transferred" /\ op' = [op EXCEPT ![h] = Idle]
      /\ rows' = UndoTransfer(h) /\ UNCHANGED registered
  BY DEF ProductLineTransferRollback
<1>2. /\ t \in Ids /\ f \in Ids /\ f # t
      /\ rows[t] # NoRow => rows[t].serial = op[h].serial
      /\ rows[f] # NoRow => rows[f].serial = op[h].serial
  BY <1>1, OpsTyped DEF Typed, TransferOp, OpsMatchRows, Holds
<1>3. ~MayTake(h, q)'
  BY <1>1 DEF MayTake, Idle, Typed, TypeOK
<1>4. Takers(q)' = Takers(q) \ {h} /\ Due(q)' <= Due(q)
  <2>1. Takers(q)' = Takers(q) \ {h}
    BY <1>1, <1>3, TakersStep
  <2>2. Due(q)' <= Due(q)
    BY <1>1 DEF Due
  <2>. QED BY <2>1, <2>2
<1>5. CASE UndoTransfer(h) = rows
  <2>1. ActiveRows(q) \subseteq ActiveRows(q)'
    BY <1>1, <1>5 DEF ActiveRows, Stored
  <2>. QED BY <1>4, <2>1, EnoughStep
<1>6. CASE UndoTransfer(h) # rows
  <2>1. PICK g \in Row \cup {NoRow} :
           /\ g # NoRow => g.serial = op[h].serial /\ rows[t] # NoRow
           /\ g.status # "active"
           /\ \/ /\ ~op[h].fromWasActive
                 /\ rows' = [rows EXCEPT ![t] = g]
              \/ /\ op[h].fromWasActive
                 /\ rows[f] \in Row /\ rows[f].status = "transferred"
                 /\ rows' = [rows EXCEPT ![t] = g, ![f] = [rows[f] EXCEPT !.status = "active"]]
    BY <1>1, <1>6, UndoShape DEF UndoTransfer
  <2>2. CASE op[h].serial # q
    <3>1. ActiveRows(q) \subseteq ActiveRows(q)'
      BY <1>2, <2>1, <2>2 DEF ActiveRows, Stored, Typed, TypeOK, NoRow
    <3>. QED BY <1>4, <3>1, EnoughStep
  <2>3. CASE op[h].serial = q /\ ~op[h].fromWasActive
    <3>1. h \in Takers(q)
      BY <1>1, <2>3 DEF Takers, MayTake
    <3>2. ActiveRows(q) \ {t} \subseteq ActiveRows(q)'
      BY <2>1, <2>3 DEF ActiveRows, Stored, Typed, TypeOK
    <3>. QED BY <1>4, <3>1, <3>2, EnoughStep
  <2>4. CASE op[h].serial = q /\ op[h].fromWasActive
    <3> DEFINE a == [rows[f] EXCEPT !.status = "active"]
    <3>1. /\ rows[f] # NoRow /\ rows[f].status = "transferred"
          /\ a # NoRow /\ a.serial = rows[f].serial /\ a.status = "active"
          /\ rows' = [rows EXCEPT ![t] = g, ![f] = a]
      BY <2>1, <2>4 DEF NoRow, Row
    <3> HIDE DEF a
    <3>2. (ActiveRows(q) \ {t}) \cup {f} \subseteq ActiveRows(q)' /\ f \notin ActiveRows(q)
      BY <1>2, <2>4, <3>1 DEF ActiveRows, Stored, Typed, TypeOK
    <3>. QED BY <1>4, <3>2, EnoughStep
  <2>. QED BY <2>2, <2>3, <2>4
<1>. QED BY <1>5, <1>6

(* Steps that leave the rows alone and end, or carry on, a request. *)
LEMMA QuietEnough ==
  ASSUME Typed, NEW h \in Handlers, NEW o, op' = [op EXCEPT ![h] = o],
         UNCHANGED <<rows, registered>>, NEW q \in Serials, Enough(q),
         ~MayTake(h, q)' \/ MayTake(h, q)
  PROVE  Enough(q)'
<1>1. ActiveRows(q) \subseteq ActiveRows(q)' /\ Due(q)' <= Due(q)
  BY DEF ActiveRows, Stored, Due
<1>2. Takers(q)' \subseteq Takers(q)
  <2>1. CASE ~MayTake(h, q)'
    BY <2>1, TakersStep
  <2>2. CASE MayTake(h, q)'
    <3>1. h \in Takers(q)
      BY <2>2 DEF Takers
    <3>2. Takers(q)' = Takers(q) \cup {h}
      BY <2>2, TakersStep
    <3>. QED BY <3>1, <3>2
  <2>. QED BY <2>1, <2>2
<1>. QED BY <1>1, <1>2, EnoughStep

LEMMA WriteoffEnough ==
  ASSUME Typed, NEW s \in Serials, WriteoffApproveProduct(s),
         NEW q \in Serials \ scrapped', Enough(q)
  PROVE  Enough(q)'
<1>1. UNCHANGED <<op, registered>> /\ q # s
  BY DEF WriteoffApproveProduct
<1>2. PICK i \in Ids, r \in Row : /\ rows[i] # NoRow /\ rows[i].serial = s /\ r.serial = s
                                  /\ rows' = [rows EXCEPT ![i] = r]
  BY WriteoffShape
<1>3. ActiveRows(q) \subseteq ActiveRows(q)'
  BY <1>1, <1>2 DEF ActiveRows, Stored, Typed, TypeOK
<1>4. Takers(q)' = Takers(q) /\ Due(q)' <= Due(q)
  BY <1>1 DEF Takers, MayTake, Due
<1>. QED BY <1>3, <1>4, EnoughStep

LEMMA InitEnough == Init => EnoughActive
<1> SUFFICES ASSUME Init, NEW s \in Serials PROVE Enough(s)
  BY DEF EnoughActive
<1>1. ActiveRows(s) = {} /\ Takers(s) = {} /\ Due(s) = 0
  BY DEF Init, ActiveRows, Stored, Takers, MayTake, Idle, Due
<1>. QED BY <1>1, FS_EmptySet DEF Enough

(* The histories only grow. *)
LEMMA HistoriesGrow ==
  ASSUME [Next]_vars
  PROVE  scrapped \subseteq scrapped' /\ astray \subseteq astray'
<1> DEFINE Grow == scrapped \subseteq scrapped' /\ astray \subseteq astray'
<1> SUFFICES Grow
  OBVIOUS
<1>1. ASSUME UNCHANGED <<scrapped, astray>> PROVE Grow
  BY <1>1
<1>2. ASSUME NEW h \in Handlers, LinesDeleteProduct(h) PROVE Grow
  BY <1>2 DEF LinesDeleteProduct
<1>3. ASSUME NEW s \in Serials, WriteoffApproveProduct(s) PROVE Grow
  BY <1>3 DEF WriteoffApproveProduct
<1> HIDE DEF Grow
<1>4. ASSUME NEW h, NEW s, NEW from, NEW to, NEW acc, ProductLineTransfer(h, s, from, to, acc)
      PROVE  scrapped' = scrapped
  BY <1>4 DEF ProductLineTransfer
<1>5. ASSUME NEW h \in Handlers, NEW p \in Stations, NEW s \in Serials,
             NEW a \in AccSerials \cup {NoAcc}, StationTransfer(h, s, p, a)
      PROVE  Grow
  <2>1. scrapped' = scrapped /\ astray' = astray \cup {s}
    BY <1>4, <1>5 DEF StationTransfer
  <2>. QED BY <2>1 DEF Grow
<1>6. ASSUME NEW h \in Handlers, NEW a \in AccSerials, PackTransfer(h, a)
      PROVE  Grow
  BY <1>1, <1>4, <1>6 DEF PackTransfer
<1>7. ASSUME NEW h \in Handlers,
             \/ EntryDone(h) \/ T3ScanPhotoInsert(h) \/ TransferDone(h) \/ Abandon(h)
             \/ \E s \in Serials : PackFind(h, s)
             \/ ProductLineTransferRollback(h)
      PROVE  Grow
  BY <1>1, <1>7 DEF EntryDone, PackFind, T3ScanPhotoInsert, TransferDone,
                    ProductLineTransferRollback, Abandon
<1>9. ASSUME NEW h \in Handlers, NEW l \in EntryLines, NEW s \in Serials, LinesAddProduct(h, l, s)
      PROVE  Grow
  <2>1. scrapped' = scrapped /\ (astray' = astray \/ astray' = astray \cup {s})
    BY <1>9 DEF LinesAddProduct
  <2>. QED BY <2>1 DEF Grow
<1>8. CASE UNCHANGED vars
  BY <1>1, <1>8 DEF vars
<1>. QED BY <1>2, <1>3, <1>5, <1>6, <1>7, <1>8, <1>9 DEF Next, HandlerStep

LEMMA StepEnough == IInv /\ [Next]_vars => EnoughActive'
<1> SUFFICES ASSUME IInv, [Next]_vars, NEW q \in Serials \ scrapped' PROVE Enough(q)'
  BY DEF EnoughActive
<1>1. Typed /\ scrapped \subseteq scrapped'
  BY HistoriesGrow DEF IInv
<1>2. q \in Serials /\ Enough(q)
  BY <1>1 DEF IInv, EnoughActive
<1>3. ASSUME NEW h \in Handlers, NEW l \in EntryLines, NEW s \in Serials, LinesAddProduct(h, l, s)
      PROVE  Enough(q)'
  BY <1>1, <1>2, <1>3, LinesAddProductEnough
<1>4. ASSUME NEW h \in Handlers, EntryDone(h)
      PROVE  Enough(q)'
  BY <1>1, <1>2, <1>4, EntryDoneEnough
<1>5. ASSUME NEW h \in Handlers, LinesDeleteProduct(h)
      PROVE  Enough(q)'
  BY <1>1, <1>2, <1>5, LinesDeleteProductEnough
<1>6. ASSUME NEW h \in Handlers, NEW p \in Stations, NEW s \in Serials,
             NEW a \in AccSerials \cup {NoAcc}, StationTransfer(h, s, p, a)
      PROVE  Enough(q)'
  <2>1. op[h].pc = "idle"
    BY <1>6 DEF StationTransfer, Idle
  <2>. QED BY <1>1, <1>2, <1>6, <2>1, StationLines, TransferEnough
<1>7. ASSUME NEW h \in Handlers, NEW a \in AccSerials, PackTransfer(h, a)
      PROVE  Enough(q)'
  <2>1. op[h].pc = "found"
    BY <1>7 DEF PackTransfer
  <2>. QED BY <1>1, <1>2, <1>7, <2>1, PackLine, TransferEnough
<1>8. ASSUME NEW h \in Handlers, NEW s \in Serials, PackFind(h, s)
      PROVE  Enough(q)'
  <2>1. PICK i \in Packable(s) :
          op' = [op EXCEPT ![h] = [pc |-> "found", serial |-> s, line |-> rows[i].line]]
    BY <1>8 DEF PackFind
  <2>2. ~MayTake(h, q)'
    BY <1>1, <2>1 DEF MayTake, Typed, TypeOK
  <2>. QED BY <1>1, <1>2, <1>8, <2>1, <2>2, QuietEnough DEF PackFind
<1>9. ASSUME NEW h \in Handlers, T3ScanPhotoInsert(h)
      PROVE  Enough(q)'
  <2> DEFINE o == [op[h] EXCEPT !.photo = TRUE]
  <2>1. op[h] \in TransferOp
    BY <1>1, <1>9, OpsTyped DEF T3ScanPhotoInsert, Typed
  <2>2. /\ o.pc = op[h].pc /\ o.serial = op[h].serial /\ o.fromWasActive = op[h].fromWasActive
    BY <2>1 DEF TransferOp
  <2>3. op' = [op EXCEPT ![h] = o] /\ op'[h] = o
    BY <1>1, <1>9 DEF T3ScanPhotoInsert, Typed, TypeOK
  <2> HIDE DEF o
  <2>4. MayTake(h, q)' => MayTake(h, q)
    BY <2>2, <2>3 DEF MayTake
  <2>5. UNCHANGED <<rows, registered>>
    BY <1>9 DEF T3ScanPhotoInsert
  <2>. QED BY <1>1, <1>2, <2>3, <2>4, <2>5, QuietEnough
<1>10. ASSUME NEW h \in Handlers, TransferDone(h) \/ Abandon(h)
       PROVE  Enough(q)'
  <2>1. op' = [op EXCEPT ![h] = Idle] /\ UNCHANGED <<rows, registered>>
    BY <1>10 DEF TransferDone, Abandon
  <2>2. ~MayTake(h, q)'
    BY <1>1, <2>1 DEF MayTake, Idle, Typed, TypeOK
  <2>. QED BY <1>1, <1>2, <2>1, <2>2, QuietEnough
<1>11. ASSUME NEW h \in Handlers, ProductLineTransferRollback(h)
       PROVE  Enough(q)'
  BY <1>1, <1>2, <1>11, RollbackEnough
<1>12. ASSUME NEW s \in Serials, WriteoffApproveProduct(s)
       PROVE  Enough(q)'
  BY <1>1, <1>2, <1>12, WriteoffEnough
<1>13. CASE UNCHANGED vars
  BY <1>2, <1>13 DEF vars, Enough, ActiveRows, Stored, Takers, MayTake, Due
<1>. QED BY <1>3, <1>4, <1>5, <1>6, <1>7, <1>8, <1>9, <1>10, <1>11, <1>12, <1>13
         DEF Next, HandlerStep

(* A registered product that was never written off is always active on     *)
(* some line: packings, failed prints and crashes do not make it vanish.   *)
THEOREM RegisteredNeverLost == Spec => []NeverLost
<1>1. Init => IInv
  BY InitTyped, InitEnough DEF IInv
<1>2. IInv /\ [Next]_vars => IInv'
  BY StepTyped, StepEnough DEF IInv
<1>3. IInv => NeverLost
  <2> SUFFICES ASSUME IInv, NEW s \in registered \ scrapped PROVE ActiveRows(s) # {}
    BY DEF NeverLost
  <2>1. Enough(s) /\ Due(s) = 1
    BY DEF IInv, Typed, TypeOK, EnoughActive, Due
  <2>2. Cardinality(Takers(s)) \in Nat
    BY Finite, FS_CardinalityType
  <2>3. Cardinality(ActiveRows(s)) # 0
    BY <2>1, <2>2, Finite, FS_CardinalityType DEF Enough
  <2>. QED BY <2>3, FS_EmptySet
<1>. QED BY <1>1, <1>2, <1>3, PTL DEF Spec
-----------------------------------------------------------------------------
(* One row per line and serial.                                            *)

(* A step stores at most one row where none was, at a line its serial has  *)
(* no row on, and leaves the others on their lines.                        *)
LEMMA OneRowKept ==
  ASSUME OneRowPerLine, NEW t,
         \A i \in Ids : rows'[i] # NoRow =>
            \/ rows[i] # NoRow /\ rows'[i].line = rows[i].line /\ rows'[i].serial = rows[i].serial
            \/ i = t /\ OnLine(rows'[i].line, rows'[i].serial) = {}
  PROVE  OneRowPerLine'
<1>1. SUFFICES ASSUME NEW l \in Lines, NEW s \in Serials,
                      NEW i \in OnLine(l, s)', NEW j \in OnLine(l, s)'
               PROVE  i = j
  BY DEF OneRowPerLine
<1>2. /\ i \in Ids /\ rows'[i] # NoRow /\ rows'[i].line = l /\ rows'[i].serial = s
      /\ j \in Ids /\ rows'[j] # NoRow /\ rows'[j].line = l /\ rows'[j].serial = s
  BY DEF OnLine, Stored
<1>3. /\ i \in OnLine(l, s) \/ (i = t /\ OnLine(l, s) = {})
      /\ j \in OnLine(l, s) \/ (j = t /\ OnLine(l, s) = {})
  BY <1>2 DEF OnLine, Stored
<1>. QED BY <1>3 DEF OneRowPerLine

LEMMA TransferOneRow ==
  ASSUME Typed, OneRowPerLine, NEW h \in Handlers, NEW s \in Serials,
         NEW from \in Lines, NEW to \in Lines, from # to, NEW acc \in AccSerials \cup {NoAcc},
         ProductLineTransfer(h, s, from, to, acc)
  PROVE  OneRowPerLine'
<1>1. PICK f, t \in Ids, r \in Row, c \in BOOLEAN :
           /\ rows[f] # NoRow /\ f # t /\ r.line = to /\ r.serial = s
           /\ rows[t] # NoRow => rows[t].serial = s /\ rows[t].line = to
           /\ rows[t] = NoRow => OnLine(to, s) = {}
           /\ rows' = [rows EXCEPT ![f] = LeaveLine(f), ![t] = r]
  BY TransferShape
<1>2. LeaveLine(f).line = rows[f].line /\ LeaveLine(f).serial = rows[f].serial
  BY <1>1, RowTyped DEF Typed
<1>3. \A i \in Ids : rows'[i] = IF i = t THEN r ELSE IF i = f THEN LeaveLine(f) ELSE rows[i]
  BY <1>1 DEF Typed, TypeOK
<1>4. \A i \in Ids : rows'[i] # NoRow =>
            \/ rows[i] # NoRow /\ rows'[i].line = rows[i].line /\ rows'[i].serial = rows[i].serial
            \/ i = t /\ OnLine(rows'[i].line, rows'[i].serial) = {}
  BY <1>1, <1>2, <1>3
<1>. QED BY <1>4, OneRowKept

LEMMA RollbackRows ==
  ASSUME Typed, NEW h \in Handlers, ProductLineTransferRollback(h)
  PROVE  /\ op[h].to \in Ids /\ op[h].from \in Ids /\ op[h].from # op[h].to
         /\ \A i \in Ids : i # op[h].to /\ i # op[h].from => rows'[i] = rows[i]
         /\ \A i \in Ids : rows'[i] # NoRow =>
               rows[i] # NoRow /\ rows'[i].line = rows[i].line /\ rows'[i].serial = rows[i].serial
         /\ \/ rows' = rows
            \/ /\ rows'[op[h].to] # NoRow => rows'[op[h].to].status # "active"
               /\ rows[op[h].from] # NoRow => rows'[op[h].from] # NoRow
<1>1. /\ op[h].pc = "transferred" /\ rows' = UndoTransfer(h)
  BY DEF ProductLineTransferRollback
<1>2. op[h].to \in Ids /\ op[h].from \in Ids /\ op[h].from # op[h].to
  BY <1>1, OpsTyped DEF Typed, TransferOp, OpsMatchRows
<1>3. CASE UndoTransfer(h) = rows
  BY <1>1, <1>2, <1>3
<1>4. CASE UndoTransfer(h) # rows
  <2>1. PICK q \in Row \cup {NoRow} :
           /\ q # NoRow => /\ q.serial = op[h].serial /\ rows[op[h].to] # NoRow
                           /\ q.line = rows[op[h].to].line
           /\ q.status # "active"
           /\ \/ rows' = [rows EXCEPT ![op[h].to] = q]
              \/ /\ rows[op[h].from] \in Row
                 /\ rows' = [rows EXCEPT ![op[h].to] = q,
                              ![op[h].from] = [rows[op[h].from] EXCEPT !.status = "active"]]
    BY <1>1, <1>4, UndoShape DEF UndoTransfer
  <2>2. rows[op[h].to] # NoRow => rows[op[h].to].serial = op[h].serial
    BY <1>1 DEF Typed, OpsMatchRows, Holds
  <2> DEFINE t == op[h].to  f == op[h].from
             a == [rows[f] EXCEPT !.status = "active"]
  <2>3. CASE rows' = [rows EXCEPT ![t] = q]
    <3>1. rows'[t] = q /\ \A i \in Ids : i # t => rows'[i] = rows[i]
      BY <1>2, <2>3 DEF Typed, TypeOK
    <3>. QED BY <1>2, <2>1, <2>2, <3>1
  <2>4. CASE rows[f] \in Row /\ rows' = [rows EXCEPT ![t] = q, ![f] = a]
    <3>1. a \in Row /\ a.serial = rows[f].serial /\ a.line = rows[f].line /\ rows[f] # NoRow
          /\ a # NoRow
      BY <2>4 DEF Row, Statuses, NoRow
    <3> HIDE DEF a
    <3>2. rows'[t] = q /\ rows'[f] = a /\ \A i \in Ids : i # t /\ i # f => rows'[i] = rows[i]
      BY <1>2, <2>4 DEF Typed, TypeOK
    <3>. QED BY <1>2, <2>1, <2>2, <3>1, <3>2
  <2>. QED BY <2>1, <2>3, <2>4
<1>. QED BY <1>3, <1>4

LEMMA StepOneRow == Typed /\ OneRowPerLine /\ [Next]_vars => OneRowPerLine'
<1> SUFFICES ASSUME Typed, OneRowPerLine, [Next]_vars PROVE OneRowPerLine'
  OBVIOUS
<1>0. ASSUME UNCHANGED rows PROVE OneRowPerLine'
  BY <1>0 DEF OneRowPerLine, OnLine, Stored
<1>1. ASSUME NEW h \in Handlers, NEW l \in EntryLines, NEW s \in Serials,
             LinesAddProduct(h, l, s)
      PROVE  OneRowPerLine'
  <2>1. /\ OnLine(l, s) = {} /\ rows' = [rows EXCEPT ![nextId] = NewRow(l, s, NoAcc)]
        /\ NewRow(l, s, NoAcc).line = l /\ NewRow(l, s, NoAcc).serial = s
    BY <1>1 DEF LinesAddProduct, NewRow
  <2>2. \A i \in Ids : rows'[i] = IF i = nextId THEN NewRow(l, s, NoAcc) ELSE rows[i]
    BY <2>1 DEF Typed, TypeOK
  <2>. QED BY <2>1, <2>2, OneRowKept
<1>2. ASSUME NEW h \in Handlers, LinesDeleteProduct(h)
      PROVE  OneRowPerLine'
  <2>1. \A i \in Ids : rows'[i] # NoRow => rows'[i] = rows[i]
    BY <1>2 DEF LinesDeleteProduct, Typed, TypeOK
  <2>. QED BY <2>1, OneRowKept
<1>3. ASSUME NEW h \in Handlers, NEW p \in Stations, NEW s \in Serials,
             NEW a \in AccSerials \cup {NoAcc}, StationTransfer(h, s, p, a)
      PROVE  OneRowPerLine'
  BY <1>3, StationLines, TransferOneRow
<1>4. ASSUME NEW h \in Handlers, NEW a \in AccSerials, PackTransfer(h, a)
      PROVE  OneRowPerLine'
  BY <1>4, PackLine, TransferOneRow
<1>5. ASSUME NEW h \in Handlers, ProductLineTransferRollback(h)
      PROVE  OneRowPerLine'
  BY <1>5, RollbackRows, OneRowKept
<1>6. ASSUME NEW s \in Serials, WriteoffApproveProduct(s)
      PROVE  OneRowPerLine'
  <2>1. PICK i \in Ids, r \in Row :
           /\ rows[i] # NoRow /\ rows[i].serial = s /\ r.serial = s
           /\ rows[i].line = YigishLineID /\ r.line = YigishLineID
           /\ rows' = [rows EXCEPT ![i] = r]
    BY <1>6, WriteoffShape
  <2>2. \A j \in Ids : rows'[j] = IF j = i THEN r ELSE rows[j]
    BY <2>1 DEF Typed, TypeOK
  <2>. QED BY <2>1, <2>2, OneRowKept
<1>. QED BY <1>0, <1>1, <1>2, <1>3, <1>4, <1>5, <1>6
         DEF Next, HandlerStep, EntryDone, PackFind, T3ScanPhotoInsert, TransferDone, Abandon, vars

(* products_un_2: whatever requests overlap, a serial never has two rows   *)
(* on one line; a transfer comes back to the row it left.                  *)
THEOREM RowsPerLine == Spec => []OneRowPerLine
<1>1. Init => OneRowPerLine
  BY DEF Init, OneRowPerLine, OnLine, Stored
<1>. QED BY <1>1, InitTyped, StepTyped, StepOneRow, PTL DEF Spec

-----------------------------------------------------------------------------
(* At most one active row for what only the handlers move that the router  *)
(* mounts: entry on any line, packing, write-off.                          *)

(* Packing requests for s that have committed their transfer, and entries  *)
(* that may still delete their row.                                        *)
Moving(s)   == {h \in Handlers : op[h].pc = "transferred" /\ op[h].serial = s}
Entering(s) == {h \in Handlers : op[h].pc = "entering" /\ op[h].serial = s}

Packed(s)   == OnLine(QadoqlashLineID, s)
Unpacked(s) == Stored(s) \ Packed(s)

(* One row beside the packed one, and the two are not active together; the *)
(* one request that may still undo has the packed row active and the other *)
(* one, if its entry did not delete it, transferred; and a row that was    *)
(* entered as packed is all there is.                                      *)
MovedOnce(s) ==
    /\ \A i, j \in Unpacked(s) : i = j
    /\ \A i \in Unpacked(s), j \in Packed(s) : rows[i].status # "active" \/ rows[j].status # "active"
    /\ \A h \in Moving(s) :
          /\ op[h].to \in Packed(s) /\ rows[op[h].to].status = "active"
          /\ \A i \in Unpacked(s) : i = op[h].from /\ rows[i].status = "transferred"
    /\ \A h, k \in Moving(s) : h = k
    /\ \A k \in Entering(s) :
          op[k].to \in Packed(s) => Moving(s) = {} /\ \A i \in Stored(s) : i = op[k].to

MountedInv == Typed /\ OneRowPerLine /\ \A s \in Serials \ astray : MovedOnce(s)

LEMMA PackedLine == QadoqlashLineID \in Lines
  BY DEF QadoqlashLineID, Lines

LEMMA MovedOnceSingle ==
  ASSUME MountedInv, NEW s \in Serials \ astray, NEW i \in ActiveRows(s), NEW j \in ActiveRows(s)
  PROVE  i = j
<1>1. MovedOnce(s)
  BY DEF MountedInv
<1>2. /\ i \in Unpacked(s) \/ i \in Packed(s)
      /\ j \in Unpacked(s) \/ j \in Packed(s)
      /\ rows[i].status = "active" /\ rows[j].status = "active"
  BY DEF ActiveRows, Packed, Unpacked
<1>. QED BY <1>1, <1>2, PackedLine DEF MovedOnce, MountedInv, OneRowPerLine, Packed

(* Steps that leave the rows and the requests of s alone.                  *)
LEMMA MovedOnceFrame ==
  ASSUME NEW s, MovedOnce(s),
         \A i \in Ids : \/ rows'[i] = rows[i]
                        \/ /\ rows[i] # NoRow => rows[i].serial # s
                           /\ rows'[i] # NoRow => rows'[i].serial # s,
         \A h \in Moving(s)' : h \in Moving(s) /\ op'[h].to = op[h].to /\ op'[h].from = op[h].from,
         \A h \in Entering(s)' : h \in Entering(s) /\ op'[h].to = op[h].to
  PROVE  MovedOnce(s)'
<1>1. Stored(s)' = Stored(s) /\ Packed(s)' = Packed(s) /\ Unpacked(s)' = Unpacked(s)
  BY DEF OnLine, Stored, Packed, Unpacked
<1>2. \A i \in Stored(s) : rows'[i] = rows[i]
  BY DEF Stored
<1>3. Packed(s) \subseteq Stored(s) /\ Unpacked(s) \subseteq Stored(s)
  BY DEF Packed, Unpacked, OnLine
<1>. QED BY <1>1, <1>2, <1>3 DEF MovedOnce

(* An entry that does not reissue: the serial has no row at all.           *)
LEMMA LinesAddProductMoved ==
  ASSUME MountedInv, NEW h \in Handlers, NEW l \in EntryLines,
         NEW s \in Serials, LinesAddProduct(h, l, s),
         NEW q \in Serials \ astray', MovedOnce(q)
  PROVE  MovedOnce(q)'
<1> DEFINE r == NewRow(l, s, NoAcc)
           o == [pc |-> "entering", serial |-> s, to |-> nextId]
<1>1. /\ nextId \in Ids /\ rows' = [rows EXCEPT ![nextId] = r] /\ op' = [op EXCEPT ![h] = o]
      /\ q = s => Stored(s) = {}
  BY DEF LinesAddProduct
<1>2. /\ r.serial = s /\ r # NoRow /\ o.pc = "entering" /\ o.serial = s /\ o.to = nextId
      /\ rows[nextId] = NoRow
  BY <1>1 DEF NewRow, NoRow, MountedInv, Typed, FreshIds, Ids
<1> HIDE DEF r, o
<1>3. /\ rows'[nextId] = r /\ \A i \in Ids : i # nextId => rows'[i] = rows[i]
      /\ op'[h] = o /\ \A k \in Handlers : k # h => op'[k] = op[k]
  BY <1>1 DEF MountedInv, Typed, TypeOK
<1>4. \A k \in Moving(q)' : k \in Moving(q) /\ op'[k] = op[k]
  BY <1>2, <1>3 DEF Moving
<1>5. CASE q # s
  <2>1. \A k \in Entering(q)' : k \in Entering(q) /\ op'[k] = op[k]
    BY <1>2, <1>3, <1>5 DEF Entering
  <2>. QED BY <1>2, <1>3, <1>4, <1>5, <2>1, MovedOnceFrame
<1>6. CASE q = s
  <2>1. Moving(s) = {}
    BY <1>1, <1>6 DEF MovedOnce, Packed, OnLine
  <2>2. Moving(s)' = {}
    BY <1>4, <1>6, <2>1
  <2>3. \A i \in Stored(s)' : i = nextId
    BY <1>1, <1>3, <1>6 DEF Stored
  <2>4. \A k \in Entering(s)' : op'[k].to \in Packed(s)' => op'[k].to = nextId
    BY <2>3 DEF Packed, OnLine
  <2>5. Packed(s)' \subseteq Stored(s)' /\ Unpacked(s)' = Stored(s)' \ Packed(s)'
    BY DEF Packed, Unpacked, OnLine
  <2>. QED BY <1>6, <2>2, <2>3, <2>4, <2>5 DEF MovedOnce
<1>. QED BY <1>5, <1>6

(* A packing transfer: nothing else can undo for s, the packed row is not  *)
(* active before it.                                                       *)
LEMMA PackTransferMoved ==
  ASSUME MountedInv, NEW h \in Handlers, NEW acc \in AccSerials, PackTransfer(h, acc),
         NEW q \in Serials, MovedOnce(q)
  PROVE  MovedOnce(q)'
<1>0. PICK s \in Serials : s = op[h].serial
  BY PackLine DEF MountedInv
<1>1. /\ op[h].line \in Lines /\ op[h].line # QadoqlashLineID /\ QadoqlashLineID \in Lines
      /\ op[h].pc = "found"
      /\ ProductLineTransfer(h, s, op[h].line, QadoqlashLineID, acc)
  BY <1>0, PackLine DEF MountedInv, PackTransfer
<1>2. PICK f, t \in Ids, r \in Row, c \in BOOLEAN :
           /\ rows[f] # NoRow /\ rows[f].serial = s /\ f # t
           /\ rows[f].line = op[h].line /\ r.line = QadoqlashLineID
           /\ rows[t] # NoRow => rows[t].serial = s /\ rows[t].line = QadoqlashLineID
           /\ rows[t] = NoRow => t >= nextId /\ OnLine(QadoqlashLineID, s) = {}
           /\ rows[t].status # "active"
           /\ r.serial = s /\ r.status = "active"
           /\ rows' = [rows EXCEPT ![f] = LeaveLine(f), ![t] = r]
           /\ op' = [op EXCEPT ![h] = TransferResult(s, f, t, c)]
  BY <1>1, TransferShape DEF MountedInv
<1> DEFINE o == TransferResult(s, f, t, c)
           e == LeaveLine(f)
<1>3. /\ o.pc = "transferred" /\ o.serial = s /\ o.from = f /\ o.to = t
  BY <1>1, TransferResultTyped
<1>4. e \in Row /\ e.serial = s /\ e.status = "transferred" /\ e.line = rows[f].line
  BY <1>2, RowTyped DEF MountedInv, Typed
<1>6. r # NoRow /\ e # NoRow
  BY <1>2, <1>4 DEF NoRow
<1>7. /\ rows'[f] = e /\ rows'[t] = r /\ \A i \in Ids : i # f /\ i # t => rows'[i] = rows[i]
      /\ op'[h] = o /\ \A k \in Handlers : k # h => op'[k] = op[k]
  BY <1>2 DEF MountedInv, Typed, TypeOK
<1> HIDE DEF o, e
<1>10. \A k \in Entering(q)' : k \in Entering(q) /\ op'[k] = op[k]
  BY <1>3, <1>7 DEF Entering
<1>8. CASE q # s
  <2>1. \A k \in Moving(q)' : k \in Moving(q) /\ op'[k] = op[k]
    BY <1>3, <1>7, <1>8 DEF Moving
  <2>. QED BY <1>2, <1>4, <1>7, <1>8, <1>10, <2>1, MovedOnceFrame
<1>9. CASE q = s
  <2>1. Moving(s) = {}
    <3>1. SUFFICES ASSUME NEW k \in Moving(s) PROVE FALSE
      OBVIOUS
    <3>2. op[k].to \in Packed(s) /\ rows[op[k].to].status = "active"
      BY <1>9 DEF MovedOnce
    <3>3. t \in Packed(s)
      BY <1>2, <3>2 DEF OnLine, Stored, Packed
    <3>4. op[k].to = t
      BY <1>1, <3>2, <3>3 DEF MountedInv, OneRowPerLine, Packed
    <3>. QED BY <1>2, <3>2, <3>4
  <2>2. Moving(s)' = {h}
    BY <1>3, <1>7, <2>1 DEF Moving
  <2>3. f \in Unpacked(s) /\ f \in Stored(s)
    BY <1>1, <1>2 DEF OnLine, Stored, Packed, Unpacked
  <2>4. f \in Unpacked(s)' /\ t \in Packed(s)'
    BY <1>1, <1>2, <1>4, <1>6, <1>7 DEF OnLine, Stored, Packed, Unpacked
  <2>5. \A i \in Unpacked(s)' : i = f
    <3>1. SUFFICES ASSUME NEW i \in Unpacked(s)' PROVE i = f
      OBVIOUS
    <3>2. i # t
      BY <2>4, <3>1 DEF Unpacked
    <3>3. i = f \/ i \in Unpacked(s)
      BY <1>7, <3>1, <3>2 DEF OnLine, Stored, Packed, Unpacked
    <3>. QED BY <1>9, <2>3, <3>3 DEF MovedOnce
  <2>6. ASSUME NEW k \in Entering(s)', op'[k].to \in Packed(s)' PROVE FALSE
    <3>1. k \in Entering(s) /\ op'[k] = op[k] /\ op[k] \in EnterOp /\ op[k].pc = "entering"
      BY <1>9, <1>10, <2>6, OpsTyped DEF MountedInv, Typed, Entering
    <3>2. op[k].to < nextId /\ op[k].to \in Ids /\ nextId \in Int
      BY <2>6, <3>1 DEF MountedInv, Typed, TypeOK, OpsMatchRows, Holds, EnterOp, Entering
    <3>3. op[k].to \in Packed(s)
      <4>1. op[k].to # f
        BY <2>4, <2>6, <3>1 DEF Unpacked
      <4>2. op[k].to = t => rows[t] # NoRow
        BY <1>2, <3>2 DEF Ids
      <4>. QED BY <1>2, <1>7, <2>6, <3>1, <3>2, <4>1, <4>2 DEF OnLine, Stored, Packed
    <3>4. f = op[k].to
      BY <1>9, <2>3, <3>1, <3>3 DEF MovedOnce
    <3>. QED BY <2>3, <3>3, <3>4 DEF Unpacked
  <2>7. /\ \A i, j \in Unpacked(s)' : i = j
        /\ \A i \in Unpacked(s)' : rows'[i].status = "transferred"
    BY <1>4, <1>7, <2>5
  <2>8. \A k \in Moving(s)' :
           /\ op'[k].to \in Packed(s)' /\ rows'[op'[k].to].status = "active"
           /\ \A i \in Unpacked(s)' : i = op'[k].from
    BY <1>2, <1>3, <1>7, <2>2, <2>4, <2>5
  <2>9. \A k, l \in Moving(s)' : k = l
    BY <2>2
  <2>. QED BY <1>9, <2>6, <2>7, <2>8, <2>9 DEF MovedOnce
<1>. QED BY <1>8, <1>9

(* A rollback: it is the only request that may undo for its serial.        *)
LEMMA RollbackMoved ==
  ASSUME MountedInv, NEW h \in Handlers, ProductLineTransferRollback(h),
         NEW q \in Serials, MovedOnce(q)
  PROVE  MovedOnce(q)'
<1> DEFINE s == op[h].serial  t == op[h].to  f == op[h].from
<1>1. op[h].pc = "transferred" /\ op' = [op EXCEPT ![h] = Idle] /\ Holds(t, s) /\ Holds(f, s)
  BY DEF ProductLineTransferRollback, MountedInv, Typed, OpsMatchRows
<1>2. /\ t \in Ids /\ f \in Ids /\ f # t
      /\ \A i \in Ids : i # t /\ i # f => rows'[i] = rows[i]
      /\ \A i \in Ids : rows'[i] # NoRow =>
            rows[i] # NoRow /\ rows'[i].line = rows[i].line /\ rows'[i].serial = rows[i].serial
      /\ rows' = rows \/ (rows'[t] # NoRow => rows'[t].status # "active")
  BY RollbackRows DEF MountedInv
<1>3. op'[h].pc = "idle" /\ \A k \in Handlers : k # h => op'[k] = op[k]
  BY <1>1 DEF MountedInv, Typed, TypeOK, Idle
<1>4. /\ \A k \in Moving(q)' : k # h /\ k \in Moving(q) /\ op'[k] = op[k]
      /\ \A k \in Entering(q)' : k \in Entering(q) /\ op'[k] = op[k]
  BY <1>3 DEF Moving, Entering
<1>5. CASE q # s
  BY <1>1, <1>2, <1>4, <1>5, MovedOnceFrame DEF Holds
<1>6. CASE q = s /\ rows' = rows
  BY <1>4, <1>6, MovedOnceFrame
<1>7. CASE q = s /\ (rows'[t] # NoRow => rows'[t].status # "active")
  <2>1. h \in Moving(q)
    BY <1>1, <1>7 DEF Moving
  <2>2. t \in Packed(q) /\ \A k \in Moving(q) : k = h
    BY <2>1 DEF MovedOnce
  <2>3. Moving(q)' = {}
    BY <1>4, <2>2
  <2> HIDE DEF t, f
  <2>4. /\ Stored(q)' \subseteq Stored(q) /\ Packed(q)' \subseteq Packed(q)
        /\ Unpacked(q)' \subseteq Unpacked(q)
    BY <1>2 DEF OnLine, Stored, Packed, Unpacked
  <2>5. \A j \in Packed(q)' : j = t /\ rows'[j] # NoRow
    BY <2>2, <2>4, PackedLine DEF OnLine, Stored, MountedInv, OneRowPerLine, Packed
  <2>6. \A j \in Packed(q)' : rows'[j].status # "active"
    BY <1>7, <2>5
  <2>. QED BY <1>4, <2>3, <2>4, <2>6 DEF MovedOnce
<1>. QED BY <1>2, <1>5, <1>6, <1>7

(* A write-off: the entry row is active, so no request may undo for s.     *)
LEMMA WriteoffMoved ==
  ASSUME MountedInv, NEW s \in Serials, WriteoffApproveProduct(s),
         NEW q \in Serials, MovedOnce(q)
  PROVE  MovedOnce(q)'
<1>1. PICK i \in Ids, r \in Row :
           /\ rows[i] # NoRow /\ rows[i].serial = s /\ r.serial = s
           /\ rows[i].line = YigishLineID /\ r.line = YigishLineID
           /\ rows[i].status = "active" /\ r.status = "written_off"
           /\ rows' = [rows EXCEPT ![i] = r]
  BY WriteoffShape DEF MountedInv
<1>2. /\ rows'[i] = r /\ r # NoRow /\ \A j \in Ids : j # i => rows'[j] = rows[j]
      /\ op' = op
  BY <1>1 DEF MountedInv, Typed, TypeOK, WriteoffApproveProduct, NoRow
<1>3. Moving(q)' = Moving(q) /\ Entering(q)' = Entering(q)
  BY <1>2 DEF Moving, Entering
<1>4. CASE q # s
  BY <1>1, <1>2, <1>3, <1>4, MovedOnceFrame
<1>5. CASE q = s
  <2>1. i \in Unpacked(s)
    BY <1>1 DEF OnLine, Stored, Packed, Unpacked, YigishLineID, QadoqlashLineID
  <2>2. Moving(s) = {}
    BY <1>1, <1>5, <2>1 DEF MovedOnce
  <2>3. Stored(s)' = Stored(s) /\ Packed(s)' = Packed(s) /\ Unpacked(s)' = Unpacked(s)
    BY <1>1, <1>2 DEF OnLine, Stored, Packed, Unpacked
  <2>4. \A j \in Ids : rows'[j].status = "active" => rows[j].status = "active"
    BY <1>1, <1>2
  <2>5. Packed(s) \subseteq Ids /\ Unpacked(s) \subseteq Ids
    BY DEF OnLine, Stored, Packed, Unpacked
  <2>. QED BY <1>2, <1>3, <1>5, <2>2, <2>3, <2>4, <2>5 DEF MovedOnce
<1>. QED BY <1>4, <1>5

(* An entry that is undone: the packed row of a transfer is not its row.   *)
LEMMA LinesDeleteProductMoved ==
  ASSUME MountedInv, NEW h \in Handlers, LinesDeleteProduct(h),
         NEW q \in Serials, MovedOnce(q)
  PROVE  MovedOnce(q)'
<1> DEFINE s == op[h].serial  t == op[h].to
<1>1. /\ op[h].pc = "entering" /\ rows' = [rows EXCEPT ![t] = NoRow]
      /\ op' = [op EXCEPT ![h] = Idle]
  BY DEF LinesDeleteProduct
<1>2. t \in Ids /\ Holds(t, s)
  BY <1>1, OpsTyped DEF MountedInv, Typed, OpsMatchRows, EnterOp
<1>3. \A i \in Ids : rows'[i] = IF i = t THEN NoRow ELSE rows[i]
  BY <1>1, <1>2 DEF MountedInv, Typed, TypeOK
<1>4. op'[h].pc = "idle" /\ \A k \in Handlers : k # h => op'[k] = op[k]
  BY <1>1 DEF MountedInv, Typed, TypeOK, Idle
<1>5. /\ \A k \in Moving(q)' : k \in Moving(q) /\ op'[k] = op[k]
      /\ \A k \in Entering(q)' : k \in Entering(q) /\ op'[k] = op[k]
  BY <1>4 DEF Moving, Entering
<1>6. CASE q # s
  BY <1>2, <1>3, <1>5, <1>6, MovedOnceFrame DEF Holds
<1>7. CASE q = s
  <2>1. h \in Entering(q)
    BY <1>1, <1>7 DEF Entering
  <2> HIDE DEF t
  <2>2. \A k \in Moving(q) : op[k].to # t
    BY <2>1 DEF MovedOnce, t
  <2>3. /\ Stored(q)' = Stored(q) \ {t} /\ Packed(q)' = Packed(q) \ {t}
        /\ Unpacked(q)' = Unpacked(q) \ {t}
    BY <1>3 DEF OnLine, Stored, Packed, Unpacked
  <2>4. \A i \in Stored(q)' : rows'[i] = rows[i]
    BY <1>3, <2>3 DEF Stored
  <2>5. Packed(q)' \subseteq Stored(q)' /\ Unpacked(q)' \subseteq Stored(q)'
    BY DEF Packed, Unpacked, OnLine
  <2>. QED BY <1>5, <2>2, <2>3, <2>4, <2>5 DEF MovedOnce
<1>. QED BY <1>6, <1>7

(* A station's transfer leaves the other serials alone.                    *)
LEMMA StationTransferMoved ==
  ASSUME MountedInv, NEW h \in Handlers, NEW p \in Stations, NEW s \in Serials,
         NEW acc \in AccSerials \cup {NoAcc}, StationTransfer(h, s, p, acc),
         NEW q \in Serials \ astray', MovedOnce(q)
  PROVE  MovedOnce(q)'
<1>1. /\ p[1] \in Lines /\ p[2] \in Lines /\ p[1] # p[2] /\ q # s
      /\ ProductLineTransfer(h, s, p[1], p[2], acc)
  BY StationLines
<1>2. PICK f, t \in Ids, r \in Row, c \in BOOLEAN :
           /\ rows[f] # NoRow /\ rows[f].serial = s
           /\ rows[t] # NoRow => rows[t].serial = s
           /\ r.serial = s
           /\ rows' = [rows EXCEPT ![f] = LeaveLine(f), ![t] = r]
           /\ op' = [op EXCEPT ![h] = TransferResult(s, f, t, c)]
  BY <1>1, TransferShape DEF MountedInv
<1> DEFINE o == TransferResult(s, f, t, c)
           e == LeaveLine(f)
<1>3. o.pc = "transferred" /\ o.serial = s
  BY <1>1, TransferResultTyped
<1>4. e.serial = s
  BY <1>2, RowTyped DEF MountedInv, Typed
<1>5. /\ rows' = [rows EXCEPT ![f] = e, ![t] = r]
      /\ op' = [op EXCEPT ![h] = o]
  BY <1>2
<1> HIDE DEF o, e
<1>6. \A i \in Ids : rows'[i] = rows[i] \/ (i = f /\ rows'[i] = e) \/ (i = t /\ rows'[i] = r)
  BY <1>5 DEF MountedInv, Typed, TypeOK
<1>7. \A k \in Handlers : op'[k] = IF k = h THEN o ELSE op[k]
  BY <1>5 DEF MountedInv, Typed, TypeOK
<1>8. \A i \in Ids : \/ rows'[i] = rows[i]
                     \/ /\ rows[i] # NoRow => rows[i].serial # q
                        /\ rows'[i] # NoRow => rows'[i].serial # q
  BY <1>1, <1>2, <1>4, <1>6
<1>9. /\ \A k \in Moving(q)' : k \in Moving(q) /\ op'[k] = op[k]
      /\ \A k \in Entering(q)' : k \in Entering(q) /\ op'[k] = op[k]
  BY <1>1, <1>3, <1>7 DEF Moving, Entering
<1>. QED BY <1>8, <1>9, MovedOnceFrame

LEMMA StepMoved ==
  ASSUME MountedInv, [Next]_vars,
         NEW q \in Serials \ astray', MovedOnce(q)
  PROVE  MovedOnce(q)'
<1>1. ASSUME NEW h \in Handlers, NEW l \in EntryLines, NEW s \in Serials,
             LinesAddProduct(h, l, s)
      PROVE  MovedOnce(q)'
  BY <1>1, LinesAddProductMoved
<1>2. ASSUME NEW h \in Handlers, LinesDeleteProduct(h)
      PROVE  MovedOnce(q)'
  BY <1>2, LinesDeleteProductMoved
<1>3. ASSUME NEW h \in Handlers, NEW a \in AccSerials, PackTransfer(h, a)
      PROVE  MovedOnce(q)'
  BY <1>3, PackTransferMoved
<1>4. ASSUME NEW h \in Handlers, ProductLineTransferRollback(h)
      PROVE  MovedOnce(q)'
  BY <1>4, RollbackMoved
<1>5. ASSUME NEW s \in Serials, WriteoffApproveProduct(s)
      PROVE  MovedOnce(q)'
  BY <1>5, WriteoffMoved
<1>6. ASSUME UNCHANGED rows, NEW h \in Handlers,
             \A k \in Handlers : k # h => op'[k] = op[k],
             op'[h].pc # "entering",
             op'[h].pc = "transferred" =>
                /\ op[h].pc = "transferred" /\ op'[h].serial = op[h].serial
                /\ op'[h].to = op[h].to /\ op'[h].from = op[h].from
      PROVE  MovedOnce(q)'
  <2>1. /\ \A k \in Moving(q)' : k \in Moving(q) /\ op'[k].to = op[k].to /\ op'[k].from = op[k].from
        /\ \A k \in Entering(q)' : k \in Entering(q) /\ op'[k].to = op[k].to
    BY <1>6 DEF Moving, Entering
  <2>. QED BY <1>6, <2>1, MovedOnceFrame
<1>7. ASSUME NEW h \in Handlers, EntryDone(h) \/ TransferDone(h) \/ Abandon(h)
      PROVE  MovedOnce(q)'
  BY <1>6, <1>7 DEF EntryDone, TransferDone, Abandon, MountedInv, Typed, TypeOK, Idle
<1>8. ASSUME NEW h \in Handlers, NEW s \in Serials, PackFind(h, s)
      PROVE  MovedOnce(q)'
  BY <1>6, <1>8 DEF PackFind, MountedInv, Typed, TypeOK
<1>9. ASSUME NEW h \in Handlers, T3ScanPhotoInsert(h)
      PROVE  MovedOnce(q)'
  <2>1. op[h] \in TransferOp
    BY <1>9, OpsTyped DEF T3ScanPhotoInsert, MountedInv, Typed
  <2> DEFINE o == [op[h] EXCEPT !.photo = TRUE]
  <2>2. o.pc = op[h].pc /\ o.serial = op[h].serial /\ o.to = op[h].to /\ o.from = op[h].from
    BY <2>1 DEF TransferOp
  <2>3. op'[h] = o /\ UNCHANGED rows /\ \A k \in Handlers : k # h => op'[k] = op[k]
    BY <1>9 DEF T3ScanPhotoInsert, MountedInv, Typed, TypeOK
  <2> HIDE DEF o
  <2>4. op[h].pc = "transferred"
    BY <1>9 DEF T3ScanPhotoInsert
  <2>. QED BY <1>6, <2>2, <2>3, <2>4
<1>10. CASE UNCHANGED vars
  BY <1>10, MovedOnceFrame DEF vars, Moving, Entering
<1>11. ASSUME NEW h \in Handlers, NEW p \in Stations, NEW s \in Serials,
              NEW a \in AccSerials \cup {NoAcc}, StationTransfer(h, s, p, a)
       PROVE  MovedOnce(q)'
  BY <1>11, StationTransferMoved
<1>. QED BY <1>1, <1>2, <1>3, <1>4, <1>5, <1>7, <1>8, <1>9, <1>10, <1>11 DEF Next, HandlerStep

(* The handlers the router mounts (entry on any line, packing) keep a      *)
(* serial active on at most one line unless an entry gave it out again     *)
(* while it stood on one, for any number of requests in flight, and        *)
(* whatever serials stations move beside it.                               *)
THEOREM OneActiveRow == Spec => []SingleActive
<1>1. Init => MountedInv
  <2>1. ASSUME Init PROVE OneRowPerLine /\ \A s \in Serials : MovedOnce(s)
    <3>1. \A l, s : Stored(s) = {} /\ OnLine(l, s) = {} /\ Moving(s) = {} /\ Entering(s) = {}
      BY <2>1 DEF Init, OnLine, Stored, Moving, Entering, Idle
    <3>. QED BY <3>1 DEF OneRowPerLine, MovedOnce, Packed, Unpacked
  <2>. QED BY <2>1, InitTyped DEF MountedInv
<1>2. MountedInv /\ [Next]_vars => MountedInv'
  <2> SUFFICES ASSUME MountedInv, [Next]_vars PROVE MountedInv'
    OBVIOUS
  <2>1. Typed' /\ OneRowPerLine'
    BY StepTyped, StepOneRow DEF MountedInv
  <2>2. astray \subseteq astray'
    BY HistoriesGrow
  <2>3. \A s \in Serials \ astray' : MovedOnce(s)'
    BY <2>2, StepMoved DEF MountedInv
  <2>. QED BY <2>1, <2>3 DEF MountedInv
<1>3. MountedInv => SingleActive
  BY MovedOnceSingle DEF SingleActive
<1>. QED BY <1>1, <1>2, <1>3, PTL DEF Spec

-----------------------------------------------------------------------------
(* The undo of a transfer that nobody disturbed.                           *)

(* Rows are marked written off by a recorded write-off only.               *)
WrittenOffIsScrapped ==
    \A i \in Ids : rows[i] # NoRow /\ rows[i].status = "written_off" => rows[i].serial \in scrapped

(* What the from row and the to row of a transfer were before it.          *)
FromWas(h) == IF op[h].fromWasActive THEN {"active"} ELSE {"transferred"}
ToWas(h)   == IF op[h].toCreatedNewRow THEN {} ELSE {"transferred"}

(* The rows stand as the transfer left them, and before is what they were. *)
Undoable(h) ==
    LET s == op[h].serial  f == op[h].from  t == op[h].to IN
    /\ f \in Stored(s) /\ rows[f].status = "transferred"
    /\ t \in Stored(s) /\ rows[t].status = "active"
    /\ rows[f].line # rows[t].line
    /\ before[h][rows[f].line] = FromWas(h)
    /\ before[h][rows[t].line] = ToWas(h)
    /\ \A l \in Lines \ {rows[f].line, rows[t].line} : before[h][l] = Standing(s)[l]

Undisturbed(h) == Transferred(h) /\ h \notin disturbed /\ op[h].serial \notin scrapped

HistoryInv ==
    /\ Typed /\ OneRowPerLine /\ WrittenOffIsScrapped
    /\ before \in [Handlers -> [Lines -> SUBSET Statuses]]
    /\ \A h \in Handlers : Undisturbed(h) => Undoable(h)

LEMMA StandingTyped ==
  ASSUME Typed, NEW s
  PROVE  Standing(s) \in [Lines -> SUBSET Statuses]
<1>1. \A l : \A i \in OnLine(l, s) : rows[i].status \in Statuses
  BY RowTyped DEF OnLine, Stored, Typed, Row
<1>. QED BY <1>1 DEF Standing

(* What stands on a line is the status of the one row there.               *)
LEMMA StandingOf ==
  ASSUME OneRowPerLine, NEW s \in Serials, NEW l \in Lines, NEW i \in OnLine(l, s)
  PROVE  Standing(s)[l] = {rows[i].status}
<1>1. OnLine(l, s) = {i}
  BY DEF OneRowPerLine
<1>. QED BY <1>1 DEF Standing

LEMMA StandingOfNext ==
  ASSUME OneRowPerLine', NEW s \in Serials, NEW l \in Lines, NEW i \in OnLine(l, s)'
  PROVE  Standing(s)'[l] = {rows'[i].status}
<1>1. OnLine(l, s)' = {i}
  BY DEF OneRowPerLine
<1>. QED BY <1>1 DEF Standing

(* No step both stores and deletes rows, and none moves a row elsewhere.   *)
LEMMA StepRows ==
  ASSUME Typed, [Next]_vars
  PROVE  \/ \A i \in Ids : rows[i] # NoRow =>
              rows'[i] # NoRow /\ rows'[i].line = rows[i].line /\ rows'[i].serial = rows[i].serial
         \/ \A i \in Ids : rows'[i] # NoRow =>
              rows[i] # NoRow /\ rows'[i].line = rows[i].line /\ rows'[i].serial = rows[i].serial
<1> DEFINE Grow   == \A i \in Ids : rows[i] # NoRow =>
              rows'[i] # NoRow /\ rows'[i].line = rows[i].line /\ rows'[i].serial = rows[i].serial
           Shrink == \A i \in Ids : rows'[i] # NoRow =>
              rows[i] # NoRow /\ rows'[i].line = rows[i].line /\ rows'[i].serial = rows[i].serial
<1>0. SUFFICES Grow \/ Shrink
  OBVIOUS
<1>1. ASSUME NEW h \in Handlers, NEW l \in EntryLines, NEW s \in Serials,
             LinesAddProduct(h, l, s)
      PROVE  Grow
  <2>1. nextId \in Ids /\ rows[nextId] = NoRow
        /\ rows' = [rows EXCEPT ![nextId] = NewRow(l, s, NoAcc)]
    BY <1>1 DEF LinesAddProduct, Typed, FreshIds, Ids
  <2>. QED BY <2>1 DEF Typed, TypeOK
<1>2. ASSUME NEW h \in Handlers, LinesDeleteProduct(h)
      PROVE  Shrink
  BY <1>2 DEF LinesDeleteProduct, Typed, TypeOK
<1>3. ASSUME NEW h \in Handlers, NEW s \in Serials, NEW from \in Lines, NEW to \in Lines,
             from # to, NEW acc \in AccSerials \cup {NoAcc},
             ProductLineTransfer(h, s, from, to, acc)
      PROVE  Grow
  <2>1. PICK f, t \in Ids, r \in Row, c \in BOOLEAN :
           /\ rows[f] # NoRow /\ f # t /\ r.line = to /\ r.serial = s /\ r.status = "active"
           /\ rows[t] # NoRow => rows[t].serial = s /\ rows[t].line = to
           /\ rows' = [rows EXCEPT ![f] = LeaveLine(f), ![t] = r]
    BY <1>3, TransferShape
  <2>2. /\ LeaveLine(f).line = rows[f].line /\ LeaveLine(f).serial = rows[f].serial
        /\ LeaveLine(f).status = "transferred"
    BY <2>1, RowTyped DEF Typed
  <2>3. \A i \in Ids : rows'[i] = IF i = t THEN r ELSE IF i = f THEN LeaveLine(f) ELSE rows[i]
    BY <2>1 DEF Typed, TypeOK
  <2>4. r # NoRow /\ LeaveLine(f) # NoRow
    BY <2>1, <2>2 DEF NoRow
  <2>. QED BY <2>1, <2>2, <2>3, <2>4
<1>4. ASSUME NEW h \in Handlers, NEW p \in Stations, NEW s \in Serials,
             NEW a \in AccSerials \cup {NoAcc}, StationTransfer(h, s, p, a)
      PROVE  Grow
  BY <1>3, <1>4, StationLines
<1>5. ASSUME NEW h \in Handlers, NEW a \in AccSerials, PackTransfer(h, a)
      PROVE  Grow
  BY <1>3, <1>5, PackLine
<1>6. ASSUME NEW h \in Handlers, ProductLineTransferRollback(h)
      PROVE  Shrink
  BY <1>6, RollbackRows
<1>7. ASSUME NEW s \in Serials, WriteoffApproveProduct(s)
      PROVE  Grow
  <2>1. PICK i \in Ids, r \in Row :
           /\ rows[i] # NoRow /\ rows[i].serial = s /\ r.serial = s
           /\ rows[i].line = YigishLineID /\ r.line = YigishLineID
           /\ r.status = "written_off"
           /\ rows' = [rows EXCEPT ![i] = r]
    BY <1>7, WriteoffShape
  <2>2. r # NoRow
    BY <2>1 DEF NoRow
  <2>3. \A j \in Ids : rows'[j] = IF j = i THEN r ELSE rows[j]
    BY <2>1 DEF Typed, TypeOK
  <2>. QED BY <2>1, <2>2, <2>3
<1>8. ASSUME UNCHANGED rows PROVE Grow
  BY <1>8
<1> HIDE DEF Grow, Shrink
<1>. QED BY <1>1, <1>2, <1>4, <1>5, <1>6, <1>7, <1>8
         DEF Next, HandlerStep, EntryDone, PackFind, T3ScanPhotoInsert, TransferDone, Abandon, vars

(* As long as a product stands as it stood, its rows are the same rows.    *)
LEMMA RowsStay ==
  ASSUME Typed, OneRowPerLine, Typed', OneRowPerLine', [Next]_vars,
         NEW s \in Serials, Standing(s)' = Standing(s), NEW i \in Stored(s)
  PROVE  i \in Stored(s)' /\ rows'[i].line = rows[i].line /\ rows'[i].status = rows[i].status
<1>0. /\ i \in Ids /\ rows[i] # NoRow /\ rows[i].serial = s
      /\ rows[i] \in Row
  BY RowTyped DEF Stored, Typed
<1>1. PICK l \in Lines : l = rows[i].line
  BY <1>0 DEF Row
<1>2. i \in OnLine(l, s) /\ Standing(s)[l] = {rows[i].status}
  BY <1>0, <1>1, StandingOf DEF OnLine, Stored
<1>3. i \in OnLine(l, s)'
  <2>1. CASE \A j \in Ids : rows[j] # NoRow =>
              rows'[j] # NoRow /\ rows'[j].line = rows[j].line /\ rows'[j].serial = rows[j].serial
    BY <1>0, <1>1, <2>1 DEF OnLine, Stored
  <2>2. CASE \A j \in Ids : rows'[j] # NoRow =>
              rows[j] # NoRow /\ rows'[j].line = rows[j].line /\ rows'[j].serial = rows[j].serial
    <3>1. PICK j \in OnLine(l, s)' : TRUE
      BY <1>2 DEF Standing
    <3>2. j \in OnLine(l, s)
      BY <2>2, <3>1 DEF OnLine, Stored
    <3>3. i = j
      BY <1>2, <3>2 DEF OneRowPerLine
    <3>. QED BY <3>1, <3>3
  <2>. QED BY <2>1, <2>2, StepRows
<1>4. Standing(s)'[l] = {rows'[i].status}
  BY <1>3, StandingOfNext
<1>5. i \in Stored(s)' /\ rows'[i].line = l
  BY <1>3 DEF OnLine
<1>. QED BY <1>1, <1>2, <1>4, <1>5

(* A handler's transfer, once made, is what it was. *)
LEMMA TransferStays ==
  ASSUME Typed, [Next]_vars, NEW h \in Handlers, Transferred(h), Transferred(h)'
  PROVE  /\ op'[h].serial = op[h].serial /\ op'[h].from = op[h].from /\ op'[h].to = op[h].to
         /\ op'[h].fromWasActive = op[h].fromWasActive
         /\ op'[h].toCreatedNewRow = op[h].toCreatedNewRow
<1> DEFINE Same == /\ op'[h].serial = op[h].serial /\ op'[h].from = op[h].from /\ op'[h].to = op[h].to
                   /\ op'[h].fromWasActive = op[h].fromWasActive
                   /\ op'[h].toCreatedNewRow = op[h].toCreatedNewRow
<1>1. /\ op[h].pc = "transferred" /\ op'[h].pc = "transferred" /\ op[h] # Idle
      /\ op[h] \in TransferOp
  BY OpsTyped DEF Transferred, Typed, Idle
<1>2. SUFFICES Same
  OBVIOUS
<1>3. ASSUME op'[h] = op[h] PROVE Same
  BY <1>3
<1>4. ASSUME NEW k \in Handlers, NEW o, op' = [op EXCEPT ![k] = o], k # h PROVE Same
  BY <1>3, <1>4 DEF Typed, TypeOK
<1>5. ASSUME NEW k \in Handlers, op' = [op EXCEPT ![k] = Idle] PROVE Same
  BY <1>1, <1>4, <1>5 DEF Typed, TypeOK, Idle
<1> HIDE DEF Same
<1>6. ASSUME NEW k \in Handlers, NEW l \in EntryLines, NEW s \in Serials,
             LinesAddProduct(k, l, s)
      PROVE  Same
  BY <1>1, <1>4, <1>6 DEF LinesAddProduct
<1>7. ASSUME NEW k \in Handlers, NEW p \in Stations, NEW s \in Serials,
             NEW a \in AccSerials \cup {NoAcc}, StationTransfer(k, s, p, a)
      PROVE  Same
  <2>1. k # h
    BY <1>1, <1>7 DEF StationTransfer
  <2>. QED BY <1>4, <1>7, <2>1, StationLines DEF ProductLineTransfer
<1>8. ASSUME NEW k \in Handlers, NEW a \in AccSerials, PackTransfer(k, a)
      PROVE  Same
  <2>1. k # h
    BY <1>1, <1>8 DEF PackTransfer
  <2>. QED BY <1>4, <1>8, <2>1, PackLine DEF ProductLineTransfer
<1>9. ASSUME NEW k \in Handlers, NEW s \in Serials, PackFind(k, s)
      PROVE  Same
  BY <1>1, <1>4, <1>9 DEF PackFind
<1>10. ASSUME NEW k \in Handlers, T3ScanPhotoInsert(k)
       PROVE  Same
  <2>1. CASE k = h
    <3> DEFINE o == [op[h] EXCEPT !.photo = TRUE]
    <3>1. /\ o.serial = op[h].serial /\ o.from = op[h].from /\ o.to = op[h].to
          /\ o.fromWasActive = op[h].fromWasActive /\ o.toCreatedNewRow = op[h].toCreatedNewRow
      BY <1>1 DEF TransferOp
    <3>2. op'[h] = o
      BY <1>10, <2>1 DEF T3ScanPhotoInsert, Typed, TypeOK
    <3> HIDE DEF o
    <3>. QED BY <3>1, <3>2 DEF Same
  <2>2. CASE k # h
    BY <1>3, <1>10, <2>2 DEF T3ScanPhotoInsert, Typed, TypeOK
  <2>. QED BY <2>1, <2>2
<1>11. ASSUME NEW k \in Handlers,
              \/ EntryDone(k) \/ LinesDeleteProduct(k) \/ TransferDone(k)
              \/ ProductLineTransferRollback(k) \/ Abandon(k)
       PROVE  Same
  BY <1>5, <1>11 DEF EntryDone, LinesDeleteProduct, TransferDone, ProductLineTransferRollback, Abandon
<1>12. ASSUME NEW s \in Serials, WriteoffApproveProduct(s)
       PROVE  Same
  BY <1>3, <1>12 DEF WriteoffApproveProduct
<1>13. CASE UNCHANGED vars
  BY <1>3, <1>13 DEF vars
<1>. QED BY <1>6, <1>7, <1>8, <1>9, <1>10, <1>11, <1>12, <1>13 DEF Next, HandlerStep

(* A handler whose transfer is new has just made it.                       *)
LEMMA TransferNew ==
  ASSUME Typed, [Next]_vars, NEW h \in Handlers, ~Transferred(h), Transferred(h)'
  PROVE  \E s \in Serials, from \in Lines, to \in Lines, acc \in AccSerials \cup {NoAcc} :
            from # to /\ ProductLineTransfer(h, s, from, to, acc)
<1> DEFINE New == \E s \in Serials, from \in Lines, to \in Lines, acc \in AccSerials \cup {NoAcc} :
            from # to /\ ProductLineTransfer(h, s, from, to, acc)
<1>1. op[h].pc # "transferred" /\ op'[h].pc = "transferred"
  BY DEF Transferred
<1>2. SUFFICES New
  OBVIOUS
<1>3. ASSUME op'[h] = op[h] PROVE FALSE
  BY <1>1, <1>3
<1>4. ASSUME NEW k \in Handlers, NEW o, op' = [op EXCEPT ![k] = o], o.pc # "transferred" PROVE FALSE
  BY <1>1, <1>4 DEF Typed, TypeOK
<1>5. ASSUME NEW k \in Handlers, NEW o, op' = [op EXCEPT ![k] = o] PROVE k = h
  BY <1>3, <1>5 DEF Typed, TypeOK
<1>6. ASSUME NEW k \in Handlers, NEW l \in EntryLines, NEW s \in Serials,
             LinesAddProduct(k, l, s)
      PROVE  FALSE
  <2> DEFINE o == [pc |-> "entering", serial |-> s, to |-> nextId]
  <2>1. op' = [op EXCEPT ![k] = o] /\ o.pc # "transferred"
    BY <1>6 DEF LinesAddProduct
  <2> HIDE DEF o
  <2>. QED BY <1>4, <2>1
<1>7. ASSUME NEW k \in Handlers, NEW p \in Stations, NEW s \in Serials,
             NEW a \in AccSerials \cup {NoAcc}, StationTransfer(k, s, p, a)
      PROVE  New
  <2>1. k = h
    BY <1>5, <1>7, StationLines DEF ProductLineTransfer
  <2>. QED BY <1>7, <2>1, StationLines
<1>8. ASSUME NEW k \in Handlers, NEW a \in AccSerials, PackTransfer(k, a)
      PROVE  New
  <2>1. k = h
    BY <1>5, <1>8, PackLine DEF ProductLineTransfer
  <2>. QED BY <1>8, <2>1, PackLine
<1>9. ASSUME NEW k \in Handlers, NEW s \in Serials, PackFind(k, s)
      PROVE  FALSE
  <2>1. PICK i \in Packable(s) :
          op' = [op EXCEPT ![k] = [pc |-> "found", serial |-> s, line |-> rows[i].line]]
    BY <1>9 DEF PackFind
  <2> DEFINE o == [pc |-> "found", serial |-> s, line |-> rows[i].line]
  <2>2. op' = [op EXCEPT ![k] = o] /\ o.pc # "transferred"
    BY <2>1
  <2> HIDE DEF o
  <2>. QED BY <1>4, <2>2
<1>10. ASSUME NEW k \in Handlers, T3ScanPhotoInsert(k)
       PROVE  FALSE
  <2>1. op[k].pc = "transferred" /\ k # h
    BY <1>1, <1>10 DEF T3ScanPhotoInsert
  <2>. QED BY <1>5, <1>10, <2>1 DEF T3ScanPhotoInsert, Typed, TypeOK
<1>11. ASSUME NEW k \in Handlers,
              \/ EntryDone(k) \/ LinesDeleteProduct(k) \/ TransferDone(k)
              \/ ProductLineTransferRollback(k) \/ Abandon(k)
       PROVE  FALSE
  BY <1>4, <1>11
     DEF EntryDone, LinesDeleteProduct, TransferDone, ProductLineTransferRollback, Abandon, Idle
<1>12. ASSUME NEW s \in Serials, WriteoffApproveProduct(s)
       PROVE  FALSE
  BY <1>3, <1>12 DEF WriteoffApproveProduct
<1>13. CASE UNCHANGED vars
  BY <1>3, <1>13 DEF vars
<1> HIDE DEF New
<1>. QED BY <1>6, <1>7, <1>8, <1>9, <1>10, <1>11, <1>12, <1>13 DEF Next, HandlerStep

(* A transfer that is just made can be undone.                             *)
LEMMA TransferUndoable ==
  ASSUME HistoryInv, Typed', OneRowPerLine', NEW h \in Handlers,
         NEW s \in Serials \ scrapped, NEW from \in Lines, NEW to \in Lines, from # to,
         NEW acc \in AccSerials \cup {NoAcc}, ProductLineTransfer(h, s, from, to, acc),
         before'[h] = Standing(s)
  PROVE  op'[h].serial = s /\ Undoable(h)'
<1>1. PICK f, t \in Ids, r \in Row, c \in BOOLEAN :
           /\ rows[f] # NoRow /\ rows[f].serial = s /\ f # t
           /\ rows[f].line = from /\ r.line = to
           /\ rows[t] # NoRow => rows[t].serial = s /\ rows[t].line = to
           /\ rows[t] = NoRow => OnLine(to, s) = {}
           /\ c = (rows[t] = NoRow)
           /\ rows[t].status # "active"
           /\ r.serial = s /\ r.status = "active"
           /\ rows' = [rows EXCEPT ![f] = LeaveLine(f), ![t] = r]
           /\ op' = [op EXCEPT ![h] = TransferResult(s, f, t, c)]
  BY TransferShape DEF HistoryInv
<1> DEFINE o == TransferResult(s, f, t, c)
           e == LeaveLine(f)
<1>2. /\ o.serial = s /\ o.from = f /\ o.to = t /\ o.toCreatedNewRow = c
      /\ o.fromWasActive = (rows[f].status = "active")
  BY TransferResultTyped
<1>3. /\ e \in Row /\ e.serial = s /\ e.status = "transferred" /\ e.line = from
      /\ r # NoRow /\ e # NoRow
  BY <1>1, RowTyped DEF HistoryInv, Typed, NoRow
<1>4. /\ rows'[f] = e /\ rows'[t] = r /\ \A i \in Ids : i # f /\ i # t => rows'[i] = rows[i]
      /\ op'[h] = o
  BY <1>1 DEF HistoryInv, Typed, TypeOK
<1> HIDE DEF o, e
<1>5. f \in Stored(s)' /\ t \in Stored(s)'
  BY <1>1, <1>3, <1>4 DEF Stored
<1>6. /\ rows[f] \in Row
      /\ rows[t] # NoRow => rows[t] \in Row
  BY <1>1, RowTyped DEF HistoryInv, Typed
<1>7. Standing(s)[from] = IF o.fromWasActive THEN {"active"} ELSE {"transferred"}
  <2>1. Standing(s)[from] = {rows[f].status}
    BY <1>1, StandingOf DEF HistoryInv, OnLine, Stored
  <2>2. rows[f].status # "written_off"
    BY <1>1 DEF HistoryInv, WrittenOffIsScrapped
  <2>. QED BY <1>2, <1>6, <2>1, <2>2 DEF Row, Statuses
<1>8. Standing(s)[to] = IF o.toCreatedNewRow THEN {} ELSE {"transferred"}
  <2>1. CASE rows[t] = NoRow
    BY <1>1, <1>2, <2>1 DEF Standing
  <2>2. CASE rows[t] # NoRow
    <3>1. Standing(s)[to] = {rows[t].status}
      BY <1>1, <2>2, StandingOf DEF HistoryInv, OnLine, Stored
    <3>2. rows[t].status # "written_off"
      BY <1>1, <2>2 DEF HistoryInv, WrittenOffIsScrapped
    <3>3. rows[t].status \in Statuses
      BY <1>6, <2>2 DEF Row
    <3>. QED BY <1>1, <1>2, <2>2, <3>1, <3>2, <3>3 DEF Statuses
  <2>. QED BY <2>1, <2>2
<1>9. \A l \in Lines \ {from, to} : Standing(s)[l] = Standing(s)'[l]
  <2>1. SUFFICES ASSUME NEW l \in Lines \ {from, to} PROVE Standing(s)[l] = Standing(s)'[l]
    OBVIOUS
  <2>2. OnLine(l, s)' = OnLine(l, s) /\ \A i \in OnLine(l, s) : rows'[i] = rows[i]
    <3>1. f \notin OnLine(l, s) /\ f \notin OnLine(l, s)' /\ t \notin OnLine(l, s)'
      BY <1>1, <1>3, <1>4 DEF OnLine
    <3>2. t \notin OnLine(l, s)
      BY <1>1 DEF OnLine, Stored
    <3>3. \A i \in Ids : i # f /\ i # t => (i \in OnLine(l, s)' <=> i \in OnLine(l, s))
      BY <1>4 DEF OnLine, Stored
    <3>4. OnLine(l, s) \subseteq Ids /\ OnLine(l, s)' \subseteq Ids
      BY DEF OnLine, Stored
    <3>. QED BY <1>4, <3>1, <3>2, <3>3, <3>4
  <2>. QED BY <2>2 DEF Standing
<1>10. FromWas(h)' = Standing(s)[from] /\ ToWas(h)' = Standing(s)[to]
  BY <1>4, <1>7, <1>8 DEF FromWas, ToWas
<1>11. /\ rows'[f].status = "transferred" /\ rows'[f].line = from
       /\ rows'[t].status = "active" /\ rows'[t].line = to
       /\ op'[h].serial = s /\ op'[h].from = f /\ op'[h].to = t
  BY <1>1, <1>2, <1>3, <1>4
<1>. QED BY <1>5, <1>9, <1>10, <1>11 DEF Undoable

(* What keeps standing can still be undone.                                *)
LEMMA StandingUndoable ==
  ASSUME HistoryInv, Typed', OneRowPerLine', [Next]_vars, NEW h \in Handlers,
         Transferred(h), Transferred(h)', NEW s \in Serials, s = op[h].serial,
         Undoable(h), before'[h] = before[h], Standing(s)' = Standing(s)
  PROVE  Undoable(h)'
<1>1. PICK f \in Ids : f = op[h].from
  BY OpsTyped DEF HistoryInv, Typed, Transferred, TransferOp
<1>2. PICK t \in Ids : t = op[h].to
  BY OpsTyped DEF HistoryInv, Typed, Transferred, TransferOp
<1>3. /\ op'[h].serial = s /\ op'[h].from = f /\ op'[h].to = t
      /\ op'[h].fromWasActive = op[h].fromWasActive
      /\ op'[h].toCreatedNewRow = op[h].toCreatedNewRow
  BY <1>1, <1>2, TransferStays DEF HistoryInv
<1>4. /\ f \in Stored(s) /\ rows[f].status = "transferred"
      /\ t \in Stored(s) /\ rows[t].status = "active"
      /\ rows[f].line # rows[t].line
      /\ before[h][rows[f].line] = FromWas(h)
      /\ before[h][rows[t].line] = ToWas(h)
      /\ \A l \in Lines \ {rows[f].line, rows[t].line} : before[h][l] = Standing(s)[l]
  BY <1>1, <1>2 DEF Undoable
<1>5. /\ f \in Stored(s)' /\ rows'[f].status = "transferred" /\ rows'[f].line = rows[f].line
      /\ t \in Stored(s)' /\ rows'[t].status = "active" /\ rows'[t].line = rows[t].line
  BY <1>4, RowsStay DEF HistoryInv
<1>6. FromWas(h)' = FromWas(h) /\ ToWas(h)' = ToWas(h)
  BY <1>3 DEF FromWas, ToWas
<1>7. \A l \in Lines : Standing(s)'[l] = Standing(s)[l]
  OBVIOUS
<1>. QED BY <1>3, <1>4, <1>5, <1>6, <1>7 DEF Undoable

LEMMA StepScrapped ==
  ASSUME Typed, WrittenOffIsScrapped, [Next]_vars
  PROVE  WrittenOffIsScrapped' /\ scrapped \subseteq scrapped'
<1>1. scrapped \subseteq scrapped'
  BY HistoriesGrow
<1>2. ASSUME \A i \in Ids : rows'[i] # NoRow =>
                \/ rows'[i] = rows[i]
                \/ rows'[i].status # "written_off" \/ rows'[i].serial \in scrapped'
      PROVE  WrittenOffIsScrapped'
  BY <1>1, <1>2 DEF WrittenOffIsScrapped
<1>3. ASSUME NEW h \in Handlers, NEW l \in EntryLines, NEW s \in Serials,
             LinesAddProduct(h, l, s)
      PROVE  WrittenOffIsScrapped'
  BY <1>2, <1>3 DEF LinesAddProduct, NewRow, Typed, TypeOK
<1>4. ASSUME NEW h \in Handlers, LinesDeleteProduct(h)
      PROVE  WrittenOffIsScrapped'
  BY <1>2, <1>4 DEF LinesDeleteProduct, Typed, TypeOK
<1>5. ASSUME NEW h \in Handlers, NEW s \in Serials, NEW from \in Lines, NEW to \in Lines,
             from # to, NEW acc \in AccSerials \cup {NoAcc},
             ProductLineTransfer(h, s, from, to, acc)
      PROVE  WrittenOffIsScrapped'
  <2>1. PICK f, t \in Ids, r \in Row, c \in BOOLEAN :
           /\ rows[f] # NoRow /\ f # t /\ r.status = "active"
           /\ rows' = [rows EXCEPT ![f] = LeaveLine(f), ![t] = r]
    BY <1>5, TransferShape
  <2>2. LeaveLine(f).status = "transferred"
    BY <2>1, RowTyped DEF Typed
  <2>3. \A i \in Ids : rows'[i] = IF i = t THEN r ELSE IF i = f THEN LeaveLine(f) ELSE rows[i]
    BY <2>1 DEF Typed, TypeOK
  <2>. QED BY <1>2, <2>1, <2>2, <2>3
<1>6. ASSUME NEW h \in Handlers, NEW p \in Stations, NEW s \in Serials,
             NEW a \in AccSerials \cup {NoAcc}, StationTransfer(h, s, p, a)
      PROVE  WrittenOffIsScrapped'
  BY <1>5, <1>6, StationLines
<1>7. ASSUME NEW h \in Handlers, NEW a \in AccSerials, PackTransfer(h, a)
      PROVE  WrittenOffIsScrapped'
  BY <1>5, <1>7, PackLine
<1>8. ASSUME NEW h \in Handlers, ProductLineTransferRollback(h)
      PROVE  WrittenOffIsScrapped'
  <2>1. op[h].pc = "transferred" /\ rows' = UndoTransfer(h)
    BY <1>8 DEF ProductLineTransferRollback
  <2>2. CASE UndoFails(h)
    BY <1>2, <2>1, <2>2 DEF UndoTransfer
  <2>3. CASE ~UndoFails(h)
    <3>1. PICK q \in Row \cup {NoRow} :
           /\ q # NoRow => q.status = "transferred"
           /\ \/ rows' = [rows EXCEPT ![op[h].to] = q]
              \/ /\ rows[op[h].from] \in Row
                 /\ rows' = [rows EXCEPT ![op[h].to] = q,
                              ![op[h].from] = [rows[op[h].from] EXCEPT !.status = "active"]]
      BY <2>1, <2>3, UndoShape
    <3> DEFINE a == [rows[op[h].from] EXCEPT !.status = "active"]
    <3>2. rows[op[h].from] \in Row => a.status = "active"
      BY DEF Row
    <3> HIDE DEF a
    <3>3. \A i \in Ids : rows'[i] = rows[i] \/ rows'[i] = q
                         \/ (rows'[i] = a /\ rows[op[h].from] \in Row)
      BY <3>1 DEF Typed, TypeOK, a
    <3>. QED BY <1>2, <3>1, <3>2, <3>3
  <2>. QED BY <2>2, <2>3
<1>9. ASSUME NEW s \in Serials, WriteoffApproveProduct(s)
      PROVE  WrittenOffIsScrapped'
  <2>1. PICK i \in Ids, r \in Row : r.serial = s /\ rows' = [rows EXCEPT ![i] = r]
    BY <1>9, WriteoffShape
  <2>2. s \in scrapped'
    BY <1>9 DEF WriteoffApproveProduct
  <2>. QED BY <1>2, <2>1, <2>2 DEF Typed, TypeOK
<1>10. ASSUME UNCHANGED rows PROVE WrittenOffIsScrapped'
  BY <1>2, <1>10
<1>11. WrittenOffIsScrapped'
  BY <1>3, <1>4, <1>6, <1>7, <1>8, <1>9, <1>10
     DEF Next, HandlerStep, EntryDone, PackFind, T3ScanPhotoInsert, TransferDone, Abandon, vars
<1>. QED BY <1>1, <1>11

LEMMA StepHistory == HistoryInv /\ [HNext]_hvars => HistoryInv'
<1> SUFFICES ASSUME HistoryInv, [HNext]_hvars PROVE HistoryInv'
  OBVIOUS
<1>1. [Next]_vars
  BY DEF HNext, hvars
<1>2. Typed' /\ OneRowPerLine' /\ WrittenOffIsScrapped' /\ scrapped \subseteq scrapped'
  BY <1>1, StepTyped, StepOneRow, StepScrapped DEF HistoryInv
<1>3. CASE UNCHANGED hvars
  <2>1. \A h \in Handlers : Undoable(h)' <=> Undoable(h)
    BY <1>3 DEF hvars, vars, Undoable, FromWas, ToWas, Stored, Standing, OnLine
  <2>. QED BY <1>2, <1>3, <2>1 DEF hvars, vars, HistoryInv, Undisturbed, Transferred
<1>4. CASE HNext
  <2>1. before' \in [Handlers -> [Lines -> SUBSET Statuses]]
    <3>1. \A s : Standing(s) \in [Lines -> SUBSET Statuses]
      BY StandingTyped DEF HistoryInv
    <3>. QED BY <1>4, <3>1 DEF HNext, HistoryInv
  <2>2. SUFFICES ASSUME NEW h \in Handlers, Undisturbed(h)'
                 PROVE  Undoable(h)'
    BY <1>2, <2>1 DEF HistoryInv
  <2>3. Transferred(h)' /\ h \notin disturbed' /\ op'[h].serial \notin scrapped'
    BY <2>2 DEF Undisturbed
  <2>4. before'[h] = IF ~Transferred(h) /\ Transferred(h)' THEN Standing(op'[h].serial)
                                                          ELSE before[h]
    BY <1>4 DEF HNext
  <2>5. CASE ~Transferred(h)
    <3>1. PICK s \in Serials, from \in Lines, to \in Lines, acc \in AccSerials \cup {NoAcc} :
            from # to /\ ProductLineTransfer(h, s, from, to, acc)
      BY <1>1, <2>3, <2>5, TransferNew DEF HistoryInv
    <3>2. op'[h].serial = s
      <4>1. PICK f, t \in Ids, c \in BOOLEAN : op' = [op EXCEPT ![h] = TransferResult(s, f, t, c)]
        BY <3>1, TransferShape DEF HistoryInv
      <4>2. TransferResult(s, f, t, c).serial = s
        BY DEF TransferResult
      <4>. QED BY <4>1, <4>2 DEF HistoryInv, Typed, TypeOK
    <3>3. before'[h] = Standing(s) /\ s \notin scrapped
      BY <1>2, <2>3, <2>4, <2>5, <3>2
    <3>. QED BY <1>2, <3>1, <3>3, TransferUndoable
  <2>6. CASE Transferred(h)
    <3>1. PICK s \in Serials : s = op[h].serial
      BY <2>6, OpsTyped DEF HistoryInv, Typed, Transferred, TransferOp
    <3>2. op'[h].serial = s /\ before'[h] = before[h]
      BY <1>1, <2>3, <2>4, <2>6, <3>1, TransferStays DEF HistoryInv
    <3>3. h \notin disturbed
      BY <1>4, <2>3, <2>6 DEF HNext
    <3>4. Standing(s)' = Standing(s)
      BY <1>4, <2>3, <2>6, <3>1, <3>2 DEF HNext, Standing, OnLine, Stored
    <3>5. Undoable(h)
      BY <1>2, <2>3, <2>6, <3>1, <3>2, <3>3 DEF HistoryInv, Undisturbed
    <3>. QED BY <1>1, <1>2, <2>3, <2>6, <3>1, <3>2, <3>4, <3>5, StandingUndoable
  <2>. QED BY <2>5, <2>6
<1>. QED BY <1>3, <1>4

(* The undo puts back what was before. *)
LEMMA UndoRestores ==
  ASSUME HistoryInv, Typed', OneRowPerLine', NEW h \in Handlers, NEW s \in Serials \ scrapped,
         ProductLineTransferRollback(h), s = op[h].serial, h \notin disturbed, ~op[h].photo
  PROVE  Standing(s)' = before[h]
<1>1. PICK f \in Ids : f = op[h].from
  BY OpsTyped DEF HistoryInv, Typed, ProductLineTransferRollback, TransferOp
<1>2. PICK t \in Ids : t = op[h].to
  BY OpsTyped DEF HistoryInv, Typed, ProductLineTransferRollback, TransferOp
<1>3. /\ op[h].pc = "transferred" /\ rows' = UndoTransfer(h) /\ f # t
  BY <1>1, <1>2 DEF ProductLineTransferRollback, HistoryInv, Typed, OpsMatchRows
<1>4. /\ rows[f] # NoRow /\ rows[f].serial = s /\ rows[f].status = "transferred"
      /\ rows[t] # NoRow /\ rows[t].serial = s /\ rows[t].status = "active"
      /\ rows[f].line # rows[t].line
      /\ before[h][rows[f].line] = FromWas(h) /\ before[h][rows[t].line] = ToWas(h)
      /\ \A l \in Lines \ {rows[f].line, rows[t].line} : before[h][l] = Standing(s)[l]
  BY <1>1, <1>2, <1>3 DEF HistoryInv, Undisturbed, Transferred, Undoable, Stored
<1>5. rows[f] \in Row /\ rows[t] \in Row
  BY <1>4, RowTyped DEF HistoryInv, Typed
<1>6. PICK lf \in Lines : lf = rows[f].line
  BY <1>5 DEF Row
<1>7. PICK lt \in Lines : lt = rows[t].line
  BY <1>5 DEF Row
<1>8. ~UndoFails(h)
  BY <1>1, <1>4 DEF UndoFails
<1>9. PICK q \in Row \cup {NoRow} :
           /\ q # NoRow => q.serial = s /\ q.line = lt /\ q.status = "transferred"
           /\ op[h].toCreatedNewRow <=> q = NoRow
           /\ \/ /\ ~op[h].fromWasActive
                 /\ rows' = [rows EXCEPT ![t] = q]
              \/ /\ op[h].fromWasActive
                 /\ rows' = [rows EXCEPT ![t] = q, ![f] = [rows[f] EXCEPT !.status = "active"]]
  BY <1>1, <1>2, <1>3, <1>4, <1>7, <1>8, UndoShape DEF HistoryInv
<1>10. PICK a \in Row :
         /\ rows' = [rows EXCEPT ![t] = q, ![f] = a]
         /\ a.serial = s /\ a.line = lf
         /\ FromWas(h) = {a.status}
  <2>1. CASE op[h].fromWasActive
    <3> DEFINE b == [rows[f] EXCEPT !.status = "active"]
    <3>1. b \in Row /\ b.serial = s /\ b.line = lf /\ b.status = "active"
      BY <1>4, <1>5, <1>6 DEF Row, Statuses
    <3>2. rows' = [rows EXCEPT ![t] = q, ![f] = b]
      BY <1>9, <2>1
    <3> HIDE DEF b
    <3>. QED BY <2>1, <3>1, <3>2 DEF FromWas
  <2>2. CASE ~op[h].fromWasActive
    <3>1. rows' = [rows EXCEPT ![t] = q, ![f] = rows[f]]
      BY <1>3, <1>9, <2>2 DEF HistoryInv, Typed, TypeOK
    <3>. QED BY <1>4, <1>5, <1>6, <2>2, <3>1 DEF FromWas
  <2>. QED BY <2>1, <2>2
<1>11. /\ rows'[t] = q /\ rows'[f] = a /\ a # NoRow
       /\ \A i \in Ids : i # t /\ i # f => rows'[i] = rows[i]
  <2>1. a # NoRow
    BY DEF Row, Statuses, NoRow
  <2>. QED BY <1>3, <1>10, <2>1 DEF HistoryInv, Typed, TypeOK
<1>12. Standing(s)'[lf] = before[h][lf]
  <2>1. f \in OnLine(lf, s)'
    BY <1>10, <1>11 DEF OnLine, Stored
  <2>2. Standing(s)'[lf] = {a.status}
    BY <1>11, <2>1, StandingOfNext
  <2>. QED BY <1>4, <1>6, <1>10, <2>2
<1>13. Standing(s)'[lt] = before[h][lt]
  <2>1. CASE q # NoRow
    <3>1. t \in OnLine(lt, s)'
      BY <1>9, <1>11, <2>1 DEF OnLine, Stored
    <3>2. Standing(s)'[lt] = {"transferred"}
      BY <1>9, <1>11, <2>1, <3>1, StandingOfNext
    <3>. QED BY <1>4, <1>7, <1>9, <2>1, <3>2 DEF ToWas
  <2>2. CASE q = NoRow
    <3>1. SUFFICES ASSUME NEW i \in OnLine(lt, s)' PROVE FALSE
      <4>1. OnLine(lt, s)' = {} => Standing(s)'[lt] = {}
        BY DEF Standing
      <4>. QED BY <1>4, <1>7, <1>9, <2>2, <4>1 DEF ToWas
    <3>2. i \in Ids /\ rows'[i] # NoRow /\ rows'[i].line = lt /\ rows'[i].serial = s
      BY DEF OnLine, Stored
    <3>3. i # t /\ i # f
      BY <1>4, <1>6, <1>7, <1>10, <1>11, <2>2, <3>2
    <3>4. i \in OnLine(lt, s) /\ t \in OnLine(lt, s)
      BY <1>4, <1>7, <1>11, <3>2, <3>3 DEF OnLine, Stored
    <3>. QED BY <3>3, <3>4 DEF HistoryInv, OneRowPerLine
  <2>. QED BY <2>1, <2>2
<1>14. \A l \in Lines \ {lf, lt} : Standing(s)'[l] = before[h][l]
  <2>1. SUFFICES ASSUME NEW l \in Lines \ {lf, lt} PROVE Standing(s)'[l] = Standing(s)[l]
    BY <1>4, <1>6, <1>7
  <2>2. f \notin OnLine(l, s) /\ f \notin OnLine(l, s)'
    BY <1>6, <1>10, <1>11 DEF OnLine
  <2>3. t \notin OnLine(l, s) /\ t \notin OnLine(l, s)'
    BY <1>7, <1>9, <1>11 DEF OnLine, Stored
  <2>4. \A i \in Ids : i # f /\ i # t => (i \in OnLine(l, s)' <=> i \in OnLine(l, s))
    BY <1>11 DEF OnLine, Stored
  <2>5. OnLine(l, s) \subseteq Ids /\ OnLine(l, s)' \subseteq Ids
    BY DEF OnLine, Stored
  <2>6. OnLine(l, s)' = OnLine(l, s) /\ \A i \in OnLine(l, s) : rows'[i] = rows[i]
    BY <1>11, <2>2, <2>3, <2>4, <2>5
  <2>. QED BY <2>6 DEF Standing
<1>15. \A l \in Lines : Standing(s)'[l] = before[h][l]
  BY <1>12, <1>13, <1>14
<1>16. before[h] \in [Lines -> SUBSET Statuses]
  BY DEF HistoryInv
<1>17. before[h] = [l \in Lines |-> before[h][l]]
  BY <1>16
<1>18. Standing(s)' = [l \in Lines |-> Standing(s)'[l]]
  BY DEF Standing
<1>. QED BY <1>15, <1>17, <1>18

(* A failed print of any station undoes exactly what its transfer did: if  *)
(* nobody moved the product meanwhile, it stands on every line as it stood.*)
THEOREM UndoIsExact == HSpec => RollbackRestores
<1>1. HInit => HistoryInv
  <2>1. ASSUME HInit PROVE /\ OneRowPerLine /\ WrittenOffIsScrapped
                           /\ before \in [Handlers -> [Lines -> SUBSET Statuses]]
                           /\ \A h \in Handlers : ~Transferred(h)
    BY <2>1 DEF HInit, Init, OneRowPerLine, OnLine, Stored, WrittenOffIsScrapped, Transferred, Idle
  <2>. QED BY <2>1, InitTyped DEF HInit, HistoryInv, Undisturbed
<1>2. HistoryInv /\ HistoryInv' /\ [HNext]_hvars
        => [\A h \in Handlers, s \in Serials :
              /\ ProductLineTransferRollback(h)
              /\ s = op[h].serial
              /\ s \notin scrapped
              /\ h \notin disturbed
              /\ ~op[h].photo
              => Standing(s)' = before[h]]_hvars
  BY UndoRestores DEF HistoryInv
<1>. QED BY <1>1, <1>2, StepHistory, PTL DEF HSpec, RollbackRestores
=============================================================================
