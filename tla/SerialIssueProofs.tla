------------------------- MODULE SerialIssueProofs -------------------------
(* What every number of codes, products and overlapping requests satisfies. *)
EXTENDS SerialIssue, TLAPS

(* What a request has at each of its steps.                                *)
Shaped(r, o) ==
    /\ o.pc \in {"idle", "counted", "added", "found", "assign", "undo product", "undo count"}
           => o.gs = NoCode
    /\ o.pc \in {"claimed", "undo code"} => o.gs # NoCode
    /\ o.pc \in {"idle", "counted"} => o.product = 0
    /\ o.pc \notin {"idle", "counted", "undo count"} => o.product # 0
    /\ o.pc \in {"informed", "printed"} => o.data # NoCode
    /\ r \in Reprinters => o.pc \in {"idle", "found", "assign", "claimed", "informed", "undo code"}
    /\ r \in Printers => o.pc \notin {"found", "assign"}
    /\ r \in Printers /\ o.pc \in {"informed", "printed"} => o.gs # NoCode

Shape == \A r \in Requests : Shaped(r, op[r])

Past ==
    /\ \A r \in Requests : op[r].product <= lastId
    /\ \A c \in Codes : code[c] <= lastId
    /\ \A s \in shipped : s[1] <= lastId
    /\ \A p \in Ids : product[p] # NoSerial => p <= lastId

(* The row of a print request is its own until it is answered.             *)
Own ==
    \A r \in Printers : op[r].product # 0 =>
        /\ \A s \in Printers \ {r} : op[s].product # op[r].product
        /\ \A s \in shipped : s[1] # op[r].product
        /\ op[r].pc # "undo count" => product[op[r].product] # NoSerial

(* So is the code: nothing but its own claim gives the row one.            *)
OwnCode ==
    \A r \in Printers : op[r].product # 0 /\ op[r].product \notin assigned =>
        \A c \in Codes : code[c] = op[r].product => op[r].gs = c

OwnData ==
    \A r \in Printers :
        op[r].pc \in {"informed", "printed"} /\ op[r].product \notin assigned =>
            code[op[r].data] = op[r].product

ReprintAssigned ==
    \A r \in Reprinters :
        op[r].pc = "assign" \/ op[r].gs # NoCode => op[r].product \in assigned

Inv == /\ TypeOK /\ Shape /\ Past
       /\ ClaimsDistinct /\ Own /\ OwnCode /\ OwnData /\ ReprintAssigned
       /\ ShippedHasCode /\ TakenByProduct
-----------------------------------------------------------------------------
LEMMA IdleOp == Idle \in Op
  BY SerialAssumption DEF Idle, Op, Counts, SerialAssumption

LEMMA InitInv == Init => Inv
  <1> SUFFICES ASSUME Init PROVE Inv
    OBVIOUS
  <1>1. TypeOK
    BY IdleOp, SerialAssumption DEF Init, TypeOK, Days, Counts, Ids, SerialAssumption
  <1>2. Shape
    BY DEF Init, Shape, Shaped, Idle
  <1>0. /\ \A r \in Requests : op[r].pc = "idle" /\ op[r].product = 0 /\ op[r].gs = NoCode
        /\ \A r \in Printers : r \in Requests
        /\ \A r \in Reprinters : r \in Requests
        /\ lastId = 0 /\ shipped = {} /\ \A c \in Codes : code[c] = 0
    BY DEF Init, Idle, Requests
  <1>3. Past
    BY <1>0 DEF Init, Past
  <1>4. Own /\ OwnCode /\ OwnData
    BY <1>0 DEF Own, OwnCode, OwnData
  <1>5. ReprintAssigned /\ ClaimsDistinct
    BY <1>0 DEF ReprintAssigned, ClaimsDistinct
  <1>6. ShippedHasCode /\ TakenByProduct
    BY <1>0 DEF ShippedHasCode, TakenByProduct
  <1> QED
    BY <1>1, <1>2, <1>3, <1>4, <1>5, <1>6 DEF Inv

(* A step of a request that touches neither rows nor codes, and keeps what *)
(* it has or drops it for good.                                            *)
Quiet(r, o) ==
    /\ o \in Op /\ Shaped(r, o) /\ o.product <= lastId
    /\ op' = [op EXCEPT ![r] = o]
    /\ UNCHANGED <<product, lastId, code, shipped>>
    /\ assigned \subseteq assigned'
    /\ o.gs = NoCode \/ (o.gs = op[r].gs /\ o.product = op[r].product)
    /\ r \in Printers =>
          \/ o.product = 0
          \/ /\ o.product = op[r].product /\ o.gs = op[r].gs
             /\ op[r].pc = "undo count" => o.pc = "undo count"
    /\ o.pc \in {"informed", "printed"} /\ r \in Printers =>
          \/ code[o.data] = o.product
          \/ o.data = op[r].data /\ o.product = op[r].product /\ op[r].pc = "informed"
    /\ o.pc = "assign" => o.product \in assigned'

LEMMA QuietInv ==
    ASSUME SerialAssumption, Inv, TypeOK', NEW r \in Requests, NEW o, Quiet(r, o)
    PROVE  Inv'
  <1>1. op'[r] = o /\ \A s \in Requests \ {r} : op'[s] = op[s]
    BY DEF Quiet, Inv, TypeOK
  <1>p. /\ \A s \in Printers : s \in Requests
        /\ product' = product /\ code' = code /\ shipped' = shipped
        /\ assigned \subseteq assigned'
    BY DEF Requests, Quiet
  <1>2. Shape'
    <2>1. \A s \in Requests : Shaped(s, op'[s])
      BY <1>1 DEF Quiet, Inv, Shape
    <2> QED
      BY <2>1 DEF Shape, Shaped
  <1>3. Past'
    BY <1>1 DEF Quiet, Inv, Past
  <1>4. ClaimsDistinct'
    <2>1. o.gs = NoCode \/ (o.gs = op[r].gs /\ o.product = op[r].product)
      BY DEF Quiet
    <2>2. \A s \in Requests : op'[s].gs # NoCode =>
             op'[s].gs = op[s].gs /\ op'[s].product = op[s].product
      BY <1>1, <2>1
    <2>3. ClaimsDistinct
      BY DEF Inv
    <2> QED
      BY <1>p, <2>2, <2>3 DEF ClaimsDistinct
  <1>5. Own'
    <2>1. r \in Printers =>
             \/ o.product = 0
             \/ /\ o.product = op[r].product
                /\ op[r].pc = "undo count" => o.pc = "undo count"
      BY DEF Quiet
    <2>2. \A s \in Printers : op'[s].product # 0 =>
             /\ op'[s].product = op[s].product
             /\ op[s].pc = "undo count" => op'[s].pc = "undo count"
      BY <1>1, <1>p, <2>1
    <2>3. Own
      BY DEF Inv
    <2> QED
      BY <1>p, <2>2, <2>3 DEF Own
  <1>6. OwnCode'
    BY <1>1 DEF Quiet, Inv, OwnCode, Requests
  <1>7. OwnData'
    <2>1. r \in Printers /\ o.pc \in {"informed", "printed"} =>
             \/ code[o.data] = o.product
             \/ o.data = op[r].data /\ o.product = op[r].product /\ op[r].pc = "informed"
      BY DEF Quiet
    <2>2. OwnData
      BY DEF Inv
    <2>3. ASSUME NEW s \in Printers, op'[s].pc \in {"informed", "printed"},
                 op'[s].product \notin assigned'
          PROVE  code[op'[s].data] = op'[s].product
      <3>1. CASE s = r
        BY <1>1, <1>p, <2>1, <2>2, <2>3, <3>1 DEF OwnData
      <3>2. CASE s # r
        BY <1>1, <1>p, <2>2, <2>3, <3>2 DEF OwnData
      <3> QED
        BY <3>1, <3>2
    <2> QED
      BY <1>p, <2>3 DEF OwnData
  <1>8. ReprintAssigned'
    BY <1>1 DEF Quiet, Inv, ReprintAssigned, Requests
  <1>9. ShippedHasCode' /\ TakenByProduct'
    BY DEF Quiet, Inv, ShippedHasCode, TakenByProduct
  <1> QED
    BY <1>2, <1>3, <1>4, <1>5, <1>6, <1>7, <1>8, <1>9 DEF Inv

-----------------------------------------------------------------------------
(* The steps that are quiet.                                               *)

LEMMA OpFields ==
    ASSUME TypeOK, NEW r \in Requests
    PROVE  /\ op[r] \in Op /\ op[r].count \in Counts /\ op[r].product \in 0 .. MaxProducts
           /\ op[r].gs \in Codes \cup {NoCode} /\ op[r].data \in Codes \cup {NoCode}
  BY DEF TypeOK, Op

LEMMA QuietType ==
    ASSUME TypeOK, NEW r \in Requests, NEW o \in Op, op' = [op EXCEPT ![r] = o],
           UNCHANGED <<counter, rows, code, shipped>>, assigned' \subseteq Ids
    PROVE  TypeOK'
  BY DEF TypeOK, counter, rows

LEMMA IdleQuiet ==
    ASSUME SerialAssumption, Inv, NEW r \in Requests, End(r),
           UNCHANGED <<product, lastId, code, shipped, assigned>>
    PROVE  Quiet(r, Idle)
  <1>1. Shaped(r, Idle)
    BY DEF Shaped, Idle
  <1>2. 0 <= lastId
    BY SerialAssumption DEF Inv, TypeOK, SerialAssumption
  <1>3. Idle.product = 0 /\ Idle.gs = NoCode /\ Idle.pc = "idle"
    BY DEF Idle
  <1>4. assigned \subseteq assigned' /\ op' = [op EXCEPT ![r] = Idle]
    BY DEF End
  <1> QED
    BY <1>1, <1>2, <1>3, <1>4, IdleOp, Zenon DEF Quiet

LEMMA EndInv ==
    ASSUME SerialAssumption, Inv, NEW r \in Requests, End(r), UNCHANGED <<counter, rows, code, answers>>
    PROVE  Inv'
  <1>1. Quiet(r, Idle)
    BY IdleQuiet DEF rows, answers
  <1>2. assigned' \subseteq Ids
    BY DEF answers, Inv, TypeOK
  <1>3. TypeOK'
    BY <1>2, IdleOp, QuietType DEF Inv, End, answers
  <1> QED
    BY <1>1, <1>3, QuietInv

LEMMA GoQuiet ==
    ASSUME SerialAssumption, Inv, NEW r \in Requests, NEW o \in Op, Shaped(r, o),
           op' = [op EXCEPT ![r] = o], UNCHANGED <<counter, rows, code, shipped>>,
           assigned' \in SUBSET Ids, assigned \subseteq assigned',
           o.gs = op[r].gs, o.product = op[r].product,
           r \in Printers => op[r].pc # "undo count",
           o.pc \in {"informed", "printed"} /\ r \in Printers =>
               code[o.data] = o.product \/ (o.data = op[r].data /\ op[r].pc = "informed"),
           o.pc = "assign" => o.product \in assigned'
    PROVE  Inv'
  <1>1. o.product <= lastId
    BY DEF Inv, Past
  <1>2. Quiet(r, o)
    BY <1>1 DEF Quiet, rows
  <1>3. TypeOK'
    BY QuietType DEF Inv
  <1> QED
    BY <1>2, <1>3, QuietInv

LEMMA InfoInv ==
    ASSUME SerialAssumption, Inv, NEW r \in Requests, LinesGetInfoByProductId(r)
    PROVE  Inv'
  <1>1. PICK c \in Codes : /\ code[c] = op[r].product
                           /\ op' = [op EXCEPT ![r].pc = "informed", ![r].data = c]
    BY DEF LinesGetInfoByProductId
  <1> DEFINE o == [op[r] EXCEPT !.pc = "informed", !.data = c]
  <1>2. /\ o.pc = "informed" /\ o.data = c /\ o.gs = op[r].gs /\ o.product = op[r].product
        /\ o \in Op
    BY OpFields DEF Inv, Op
  <1>3. op' = [op EXCEPT ![r] = o]
    BY <1>1 DEF Inv, TypeOK
  <1>4. Shaped(r, o)
    <2>1. op[r].pc = "claimed" /\ Shaped(r, op[r]) /\ c # NoCode
      BY SerialAssumption DEF LinesGetInfoByProductId, Inv, Shape, SerialAssumption
    <2> HIDE DEF o
    <2> QED
      BY <1>2, <2>1 DEF Shaped
  <1>5. op[r].pc = "claimed" /\ UNCHANGED <<counter, rows, code, answers>>
    BY DEF LinesGetInfoByProductId
  <1>6. assigned' \in SUBSET Ids /\ assigned \subseteq assigned'
        /\ UNCHANGED <<counter, rows, code, shipped>>
    BY <1>5 DEF answers, Inv, TypeOK
  <1> HIDE DEF o
  <1> QED
    BY <1>1, <1>2, <1>3, <1>4, <1>5, <1>6, GoQuiet

LEMMA PrintInv ==
    ASSUME SerialAssumption, Inv, NEW r \in Requests, ExecutePrint(r)
    PROVE  Inv'
  <1>0. op[r].pc = "informed" /\ UNCHANGED <<counter, rows, code, answers>>
    BY DEF ExecutePrint
  <1>1. CASE r \in Printers
    <2> DEFINE o == [op[r] EXCEPT !.pc = "printed"]
    <2>1. /\ o.pc = "printed" /\ o.data = op[r].data /\ o.gs = op[r].gs
          /\ o.product = op[r].product /\ o \in Op
      BY OpFields DEF Inv, Op
    <2>2. op' = [op EXCEPT ![r] = o]
      BY <1>1 DEF ExecutePrint, Go, Inv, TypeOK
    <2>3. Shaped(r, o)
      <3>1. Shaped(r, op[r]) /\ r \notin Reprinters
        BY <1>1, SerialAssumption DEF Inv, Shape, SerialAssumption
      <3> HIDE DEF o
      <3> QED
        BY <1>0, <2>1, <3>1 DEF Shaped
    <2> HIDE DEF o
    <2>4. assigned' \in SUBSET Ids /\ assigned \subseteq assigned'
          /\ UNCHANGED <<counter, rows, code, shipped>>
      BY <1>0 DEF answers, Inv, TypeOK
    <2> QED
      BY <1>0, <2>1, <2>2, <2>3, <2>4, GoQuiet
  <1>2. CASE r \notin Printers
    BY <1>0, <1>2, EndInv DEF ExecutePrint
  <1> QED
    BY <1>1, <1>2

LEMMA RefuseInv ==
    ASSUME SerialAssumption, Inv, NEW r \in Requests, Refuse(r)
    PROVE  Inv'
  <1>0. /\ op[r].pc \in {"counted", "added", "found", "assign", "claimed", "informed", "printed"}
        /\ UNCHANGED <<counter, rows, code, answers>>
    BY DEF Refuse
  <1>1. CASE FirstToUndo(r) = "idle"
    BY <1>0, <1>1, EndInv DEF Refuse
  <1>2. CASE FirstToUndo(r) # "idle"
    <2> DEFINE o == [op[r] EXCEPT !.pc = FirstToUndo(r)]
    <2>1. FirstToUndo(r) \in {"undo code", "undo product", "undo count"}
      BY <1>2 DEF FirstToUndo
    <2>2. /\ o.pc = FirstToUndo(r) /\ o.data = op[r].data /\ o.gs = op[r].gs
          /\ o.product = op[r].product /\ o \in Op
      BY <2>1, OpFields DEF Inv, Op
    <2>3. op' = [op EXCEPT ![r] = o]
      BY <1>2 DEF Refuse, Go, Inv, TypeOK
    <2>4. Shaped(r, o)
      <3>1. Shaped(r, op[r]) /\ (r \in Printers => r \notin Reprinters)
        BY SerialAssumption DEF Inv, Shape, SerialAssumption
      <3> HIDE DEF o
      <3> QED
        BY <1>0, <1>2, <2>2, <3>1 DEF Shaped, FirstToUndo
    <2> HIDE DEF o
    <2> QED
      BY <1>0, <2>1, <2>2, <2>3, <2>4, GoQuiet DEF answers, Inv, TypeOK
  <1> QED
    BY <1>1, <1>2

LEMMA FoundInv ==
    ASSUME SerialAssumption, Inv, NEW r \in Reprinters, NEW p \in Ids, LinesGetProductIdBySerial(r, p)
    PROVE  Inv'
  <1>r. r \in Requests /\ r \notin Printers
    BY SerialAssumption DEF Requests, SerialAssumption
  <1> DEFINE o == [op[r] EXCEPT !.pc = "found", !.product = p]
  <1>0. /\ op[r].pc = "idle" /\ product[p] # NoSerial
        /\ UNCHANGED <<counter, rows, code, answers>>
    BY DEF LinesGetProductIdBySerial
  <1>p. p \in 0 .. MaxProducts
    BY SerialAssumption DEF Ids, SerialAssumption
  <1>1. o.pc = "found" /\ o.gs = op[r].gs /\ o.product = p /\ o \in Op
    BY <1>p, <1>r, OpFields DEF Inv, Op
  <1>2. op' = [op EXCEPT ![r] = o]
    BY <1>r DEF LinesGetProductIdBySerial, Inv, TypeOK
  <1>3. Shaped(r, op[r]) /\ p # 0 /\ p <= lastId
    BY <1>0, <1>r DEF Inv, Shape, Past, Ids
  <1> HIDE DEF o
  <1>4. Shaped(r, o) /\ o.gs = NoCode
    BY <1>0, <1>1, <1>3, <1>r DEF Shaped
  <1>5. Quiet(r, o)
    <2>1. UNCHANGED <<product, lastId, code, shipped>> /\ assigned \subseteq assigned'
      BY <1>0 DEF rows, answers
    <2> QED
      BY <1>1, <1>2, <1>3, <1>4, <1>r, <2>1 DEF Quiet
  <1>6. TypeOK'
    BY <1>0, <1>1, <1>2, <1>r, QuietType DEF Inv, TypeOK, answers
  <1> QED
    BY <1>5, <1>6, <1>r, QuietInv

LEMMA LookInv ==
    ASSUME SerialAssumption, Inv, NEW r \in Reprinters, GsCodeBySerial(r)
    PROVE  Inv'
  <1>r. r \in Requests /\ r \notin Printers
    BY SerialAssumption DEF Requests, SerialAssumption
  <1>0. op[r].pc = "found" /\ Shaped(r, op[r]) /\ UNCHANGED <<counter, rows, code, shipped>>
    BY <1>r DEF GsCodeBySerial, Inv, Shape
  <1>1. ASSUME NEW c \in Codes, op' = [op EXCEPT ![r].pc = "informed", ![r].data = c],
               UNCHANGED assigned
        PROVE  Inv'
    <2> DEFINE o == [op[r] EXCEPT !.pc = "informed", !.data = c]
    <2>1. /\ o.pc = "informed" /\ o.data = c /\ o.gs = op[r].gs /\ o.product = op[r].product
          /\ o \in Op
      BY <1>r, OpFields DEF Inv, Op
    <2>2. op' = [op EXCEPT ![r] = o]
      BY <1>1, <1>r DEF Inv, TypeOK
    <2>3. c # NoCode
      BY SerialAssumption DEF SerialAssumption
    <2> HIDE DEF o
    <2>4. Shaped(r, o)
      BY <1>0, <1>r, <2>1, <2>3 DEF Shaped
    <2> QED
      BY <1>0, <1>1, <1>r, <2>1, <2>2, <2>4, GoQuiet DEF Inv, TypeOK
  <1>2. ASSUME Go(r, "assign"), assigned' = assigned \cup {op[r].product}
        PROVE  Inv'
    <2> DEFINE o == [op[r] EXCEPT !.pc = "assign"]
    <2>1. o.pc = "assign" /\ o.gs = op[r].gs /\ o.product = op[r].product /\ o \in Op
      BY <1>r, OpFields DEF Inv, Op
    <2>2. op' = [op EXCEPT ![r] = o]
      BY <1>2, <1>r DEF Go, Inv, TypeOK
    <2>3. op[r].product \in Ids
      BY <1>0, <1>r, OpFields, SerialAssumption DEF Shaped, Inv, Ids, SerialAssumption
    <2>4. assigned' \in SUBSET Ids
      BY <1>2, <2>3 DEF Inv, TypeOK
    <2> HIDE DEF o
    <2>5. Shaped(r, o)
      BY <1>0, <1>r, <2>1 DEF Shaped
    <2> QED
      BY <1>0, <1>2, <1>r, <2>1, <2>2, <2>4, <2>5, GoQuiet
  <1> QED
    BY <1>1, <1>2 DEF GsCodeBySerial, CodesOf

LEMMA CountInv ==
    ASSUME SerialAssumption, Inv, NEW r \in Printers, ModelsUpdateCount(r)
    PROVE  Inv'
  <1>r. r \in Requests /\ r \notin Reprinters
    BY SerialAssumption DEF Requests, SerialAssumption
  <1>0. UNCHANGED <<today, rows, code, answers>>
    BY DEF ModelsUpdateCount
  <1>1. count' \in Counts /\ countDay' \in 0 .. MaxDay
    BY SerialAssumption DEF ModelsUpdateCount, Inv, TypeOK, Counts, Days, SerialAssumption
  <1> DEFINE o == Drawn(count')
  <1>2. o.pc = "counted" /\ o.product = 0 /\ o.gs = NoCode /\ o \in Op
    <2>1. Idle \in Op /\ Idle.product = 0 /\ Idle.gs = NoCode
      BY IdleOp DEF Idle
    <2> QED
      BY <1>1, <2>1 DEF Drawn, Op
  <1>3. op' = [op EXCEPT ![r] = o]
    BY DEF ModelsUpdateCount
  <1> HIDE DEF o
  <1>4. Shaped(r, o)
    BY <1>2, <1>r DEF Shaped
  <1>5. Quiet(r, o)
    <2>1. 0 <= lastId
      BY SerialAssumption DEF Inv, TypeOK, SerialAssumption
    <2>2. UNCHANGED <<product, lastId, code, shipped>> /\ assigned \subseteq assigned'
      BY <1>0 DEF rows, answers
    <2> QED
      BY <1>2, <1>3, <1>4, <2>1, <2>2 DEF Quiet
  <1>6. TypeOK'
    BY <1>0, <1>1, <1>2, <1>3, <1>r DEF Inv, TypeOK, rows, answers
  <1> QED
    BY <1>5, <1>6, <1>r, QuietInv

LEMMA MinusInv ==
    ASSUME SerialAssumption, Inv, NEW r \in Printers, ModelsUpdateCountMinus(r)
    PROVE  Inv'
  <1>r. r \in Requests
    BY DEF Requests
  <1>0. UNCHANGED <<today, rows, code, answers>> /\ End(r)
    BY DEF ModelsUpdateCountMinus
  <1>1. count' \in Counts /\ countDay' \in 0 .. MaxDay
    <2>1. /\ count \in Int /\ count <= MaxCount /\ today \in 1 .. MaxDay
          /\ MaxCount \in Int /\ MaxCount >= 1 /\ MaxDay \in Nat
      BY SerialAssumption DEF Inv, TypeOK, Counts, Days, SerialAssumption
    <2>2. count' \in Int /\ count' <= MaxCount /\ count' >= -MaxCount /\ countDay' = today
      <3>1. /\ count' = IF countDay = today THEN count - 1 ELSE 1
            /\ count' >= -MaxCount /\ countDay' = today
        BY DEF ModelsUpdateCountMinus
      <3> QED
        BY <2>1, <3>1
    <2> QED
      BY <2>1, <2>2 DEF Counts
  <1>2. TypeOK'
    BY <1>0, <1>1, <1>r, IdleOp DEF Inv, TypeOK, rows, answers, End
  <1>3. Quiet(r, Idle)
    BY <1>0, <1>r, IdleQuiet DEF rows, answers
  <1> QED
    BY <1>2, <1>3, <1>r, QuietInv

LEMMA DayInv ==
    ASSUME SerialAssumption, Inv, NextDay
    PROVE  Inv'
  <1>1. TypeOK'
    BY SerialAssumption DEF NextDay, Inv, TypeOK, Days, rows, answers, SerialAssumption
  <1>2. UNCHANGED <<product, lastId, code, shipped, assigned, op>>
    BY DEF NextDay, rows, answers
  <1>3. Shape' /\ Past'
    BY <1>2 DEF Inv, Shape, Shaped, Past
  <1>4. ClaimsDistinct' /\ ReprintAssigned' /\ ShippedHasCode' /\ TakenByProduct'
    BY <1>2 DEF Inv, ClaimsDistinct, ReprintAssigned, ShippedHasCode, TakenByProduct
  <1>5. Own' /\ OwnCode' /\ OwnData'
    BY <1>2 DEF Inv, Own, OwnCode, OwnData
  <1> QED
    BY <1>1, <1>3, <1>4, <1>5 DEF Inv

-----------------------------------------------------------------------------
(* The steps that touch rows and codes.                                    *)

LEMMA AddInv ==
    ASSUME SerialAssumption, Inv, NEW r \in Printers, NEW letter \in Letters,
           LinesAddProduct(r, letter)
    PROVE  Inv'
  <1>r. r \in Requests /\ r \notin Reprinters /\ \A s \in Printers : s \in Requests
    BY SerialAssumption DEF Requests, SerialAssumption
  <1> DEFINE n == lastId + 1
             serial == <<today, op[r].count, letter>>
  <1>0. /\ op[r].pc = "counted" /\ lastId < MaxProducts /\ lastId' = n
        /\ product' = [product EXCEPT ![n] = serial]
        /\ op' = [op EXCEPT ![r].pc = "added", ![r].product = n]
        /\ UNCHANGED <<today, count, countDay, code, params, shipped, assigned>>
    BY DEF LinesAddProduct, counter, answers
  <1>1. n \in Ids /\ n \in 0 .. MaxProducts /\ lastId \in Nat /\ serial \in Serials
    BY <1>0, <1>r, OpFields, SerialAssumption
       DEF Inv, TypeOK, Ids, Serials, SerialAssumption
  <1>2. serial # NoSerial
    BY DEF NoSerial
  <1> HIDE DEF serial
  <1>3. /\ op'[r].pc = "added" /\ op'[r].product = n
        /\ op'[r].gs = op[r].gs /\ op'[r].data = op[r].data /\ op'[r] \in Op
    BY <1>0, <1>1, <1>r, OpFields DEF Inv, TypeOK, Op
  <1>4. \A s \in Requests \ {r} : op'[s] = op[s]
    BY <1>0, <1>r DEF Inv, TypeOK
  <1>5. product'[n] # NoSerial /\ \A p \in Ids \ {n} : product'[p] = product[p]
    BY <1>0, <1>1, <1>2 DEF Inv, TypeOK
  <1>6. Shaped(r, op[r]) /\ op[r].gs = NoCode
    BY <1>0, <1>r DEF Inv, Shape, Shaped
  <1>7. /\ \A s \in Requests : op[s].product \in Int /\ op[s].product < n
        /\ \A c \in Codes : code[c] \in Int /\ code[c] < n
        /\ \A s \in shipped : s[1] \in Int /\ s[1] < n
    <2>1. lastId \in Int /\ \A i \in Int : i <= lastId => i < n
      BY <1>1
    <2>2. /\ \A s \in Requests : op[s].product \in Int
          /\ \A c \in Codes : code[c] \in Int
          /\ \A s \in shipped : s[1] \in Int
      BY OpFields DEF Inv, TypeOK, Ids
    <2> QED
      BY <2>1, <2>2 DEF Inv, Past
  <1>8. TypeOK'
    <2>1. op' = [op EXCEPT ![r] = op'[r]]
      BY <1>0 DEF Inv, TypeOK
    <2>2. op' \in [Requests -> Op]
      BY <1>3, <2>1 DEF Inv, TypeOK
    <2>3. product' \in [Ids -> Serials \cup {NoSerial}] /\ lastId' \in 0 .. MaxProducts
      BY <1>0, <1>1 DEF Inv, TypeOK
    <2> QED
      BY <1>0, <2>2, <2>3 DEF Inv, TypeOK
  <1>p. n # 0 /\ lastId' = n /\ \A i \in Int : i < n => i <= n /\ i # n
    BY <1>0, <1>1
  <1> HIDE DEF n
  <1>i. /\ Past /\ ClaimsDistinct /\ Own /\ OwnCode /\ OwnData /\ ReprintAssigned
        /\ ShippedHasCode /\ TakenByProduct
    BY DEF Inv
  <1>u. code' = code /\ shipped' = shipped /\ assigned' = assigned
    BY <1>0
  <1>9. Shape'
    <2>1. Shaped(r, op'[r])
      BY <1>3, <1>6, <1>p, <1>r DEF Shaped
    <2>2. \A s \in Requests : Shaped(s, op'[s])
      BY <1>4, <2>1 DEF Inv, Shape
    <2> QED
      BY <2>2 DEF Shape, Shaped
  <1>10. Past'
    <2>1. \A s \in Requests : op'[s].product <= n
      BY <1>1, <1>3, <1>4, <1>7, <1>p
    <2>2. \A p \in Ids : product'[p] # NoSerial => p <= n
      <3>1. \A p \in Ids : p <= lastId => p <= n
        BY <1>1 DEF n, Ids
      <3>2. n <= n
        BY <1>1
      <3> QED
        BY <1>5, <1>i, <3>1, <3>2 DEF Past
    <2> QED
      BY <1>7, <1>p, <1>u, <2>1, <2>2 DEF Past
  <1>11. ClaimsDistinct'
    <2>1. \A s \in Requests : op'[s].gs = op[s].gs
      BY <1>3, <1>4
    <2>2. \A s \in Requests : op'[s].gs # NoCode => op'[s].product = op[s].product
      BY <1>3, <1>4, <1>6
    <2> QED
      BY <1>i, <1>u, <2>1, <2>2 DEF ClaimsDistinct
  <1>12. Own'
    <2>1. \A s \in Printers \ {r} : op'[s].product # n /\ op'[s] = op[s]
      BY <1>4, <1>7, <1>p, <1>r
    <2>2. \A s \in Printers \ {r} : op[s].product # 0 => op[s].product \in Ids \ {n}
      <3>1. \A s \in Printers : op[s].product \in 0 .. MaxProducts
        BY <1>r, OpFields DEF Inv
      <3>2. \A s \in Printers \ {r} : op[s].product # n
        BY <1>7, <1>p, <1>r
      <3> QED
        BY <3>1, <3>2, SerialAssumption DEF Ids, SerialAssumption
    <2>3. \A s \in shipped : s[1] # n
      BY <1>7, <1>p
    <2>4. ASSUME NEW s \in Printers, op'[s].product # 0
          PROVE  /\ \A t \in Printers \ {s} : op'[t].product # op'[s].product
                 /\ \A t \in shipped : t[1] # op'[s].product
                 /\ op'[s].pc # "undo count" => product'[op'[s].product] # NoSerial
      <3>1. CASE s = r
        BY <1>3, <1>5, <2>1, <2>3, <3>1
      <3>2. CASE s # r
        <4>1. op'[s] = op[s] /\ op[s].product # n /\ op[s].product \in Ids \ {n}
          BY <2>1, <2>2, <2>4, <3>2
        <4>2. \A t \in Printers \ {s} : op[t].product # op[s].product
          BY <1>i, <2>4, <4>1 DEF Own
        <4>3. \A t \in Printers \ {s} : op'[t].product # op[s].product
          BY <1>3, <2>1, <4>1, <4>2
        <4>4. \A t \in shipped : t[1] # op[s].product
          BY <1>i, <2>4, <4>1 DEF Own
        <4>5. op[s].pc # "undo count" => product'[op[s].product] # NoSerial
          BY <1>5, <1>i, <2>4, <4>1 DEF Own
        <4> QED
          BY <4>1, <4>3, <4>4, <4>5
      <3> QED
        BY <3>1, <3>2
    <2> QED
      BY <1>u, <2>4 DEF Own
  <1>13. OwnCode'
    <2>1. \A c \in Codes : code[c] # n
      BY <1>7, <1>p
    <2>2. \A s \in Printers : op'[s].product = n \/ op'[s] = op[s]
      BY <1>3, <1>4, <1>r
    <2> QED
      BY <1>i, <1>u, <2>1, <2>2 DEF OwnCode
  <1>14. OwnData'
    <2>1. \A s \in Printers : op'[s].pc = "added" \/ op'[s] = op[s]
      BY <1>3, <1>4, <1>r
    <2> QED
      BY <1>i, <1>u, <2>1 DEF OwnData
  <1>15. ReprintAssigned'
    <2>1. \A s \in Reprinters : op'[s] = op[s]
      BY <1>4, <1>r DEF Requests
    <2> QED
      BY <1>i, <1>u, <2>1 DEF ReprintAssigned
  <1>16. ShippedHasCode'
    BY <1>i, <1>u DEF ShippedHasCode
  <1>17. TakenByProduct'
    <2>1. \A c \in Codes : code[c] # 0 => code[c] \in Ids \ {n}
      <3>1. \A c \in Codes : code[c] \in 0 .. MaxProducts /\ code[c] # n
        BY <1>7, <1>p DEF Inv, TypeOK
      <3> QED
        BY <3>1, SerialAssumption DEF Ids, SerialAssumption
    <2> QED
      BY <1>5, <1>i, <1>u, <2>1 DEF TakenByProduct
  <1> QED
    BY <1>8, <1>9, <1>10, <1>11, <1>12, <1>13, <1>14, <1>15, <1>16, <1>17 DEF Inv

LEMMA Known ==
    ASSUME SerialAssumption, Inv, NEW r \in Requests
    PROVE  /\ Shaped(r, op[r])
           /\ op[r].product # 0 => op[r].product \in Ids
           /\ op[r].gs # NoCode => op[r].gs \in Codes /\ op[r].product # 0
           /\ NoCode \notin Codes
           /\ r \in Printers <=> r \notin Reprinters
  <1>1. Shaped(r, op[r]) /\ NoCode \notin Codes /\ (r \in Printers <=> r \notin Reprinters)
    BY SerialAssumption DEF Inv, Shape, Requests, SerialAssumption
  <1>2. op[r].product \in 0 .. MaxProducts /\ op[r].gs \in Codes \cup {NoCode}
    BY OpFields DEF Inv
  <1>3. op[r].product # 0 => op[r].product \in Ids
    BY <1>2, SerialAssumption DEF Ids, SerialAssumption
  <1>4. op[r].gs # NoCode => op[r].product # 0
    BY <1>1 DEF Shaped
  <1> QED
    BY <1>1, <1>2, <1>3, <1>4

LEMMA ClaimInv ==
    ASSUME SerialAssumption, Inv, NEW r \in Requests, GsCodeUpdate(r)
    PROVE  Inv'
  <1> DEFINE p == op[r].product
  <1>1. PICK c \in Codes :
           /\ code[c] = 0 /\ code' = [code EXCEPT ![c] = p]
           /\ op' = [op EXCEPT ![r].pc = "claimed", ![r].gs = c]
    BY DEF GsCodeUpdate, Free
  <1>2. /\ op[r].pc \in {"added", "assign"}
        /\ UNCHANGED <<today, count, countDay, product, lastId, params, shipped, assigned>>
    BY DEF GsCodeUpdate, counter, rows, answers
  <1>3. /\ op'[r].pc = "claimed" /\ op'[r].gs = c /\ op'[r].product = p
        /\ op'[r].data = op[r].data /\ op'[r] \in Op
    BY <1>1, OpFields DEF Inv, TypeOK, Op
  <1>4. \A s \in Requests \ {r} : op'[s] = op[s]
    BY <1>1 DEF Inv, TypeOK
  <1>5. Shaped(r, op[r]) /\ op[r].gs = NoCode /\ p \in Ids /\ c # NoCode /\ p # 0
    BY <1>2, Known DEF Shaped
  <1>6. code'[c] = p /\ \A d \in Codes \ {c} : code'[d] = code[d]
    BY <1>1 DEF Inv, TypeOK
  <1>i. /\ Past /\ ClaimsDistinct /\ Own /\ OwnCode /\ OwnData /\ ReprintAssigned
        /\ ShippedHasCode /\ TakenByProduct
    BY DEF Inv
  <1>u. /\ product' = product /\ lastId' = lastId /\ shipped' = shipped /\ assigned' = assigned
        /\ \A s \in Printers : s \in Requests
        /\ \A s \in Reprinters : s \in Requests
    BY <1>2 DEF Requests
  <1>q. r \in Reprinters => p \in assigned
    BY <1>2, <1>i, Known DEF ReprintAssigned, Shaped
  <1>7. TypeOK'
    <2>1. op' \in [Requests -> Op]
      <3>1. op' = [op EXCEPT ![r] = op'[r]]
        BY <1>1 DEF Inv, TypeOK
      <3> QED
        BY <1>3, <3>1 DEF Inv, TypeOK
    <2>2. p \in 0 .. MaxProducts
      BY OpFields DEF Inv
    <2>3. code' \in [Codes -> 0 .. MaxProducts]
      BY <1>1, <2>2 DEF Inv, TypeOK
    <2> QED
      BY <1>2, <2>1, <2>3 DEF Inv, TypeOK
  <1> HIDE DEF p
  <1>8. Shape'
    <2>1. Shaped(r, op'[r])
      BY <1>3, <1>5, Known DEF Shaped
    <2>2. \A s \in Requests : Shaped(s, op'[s])
      BY <1>4, <2>1 DEF Inv, Shape
    <2> QED
      BY <2>2 DEF Shape, Shaped
  <1>9. Past'
    <2>1. p <= lastId /\ \A s \in Requests : op'[s].product = op[s].product
      BY <1>3, <1>4, <1>i DEF Past, p
    <2>2. \A d \in Codes : code'[d] <= lastId
      BY <1>6, <1>i, <2>1 DEF Past
    <2> QED
      BY <1>i, <1>u, <2>1, <2>2 DEF Past
  <1>10. ClaimsDistinct'
    <2>1. \A s \in Requests : op[s].gs # NoCode => op[s].gs \in Codes /\ op[s].gs # c
      BY <1>1, <1>i, Known DEF ClaimsDistinct
    <2>2. ASSUME NEW s \in Requests, op'[s].gs # NoCode
          PROVE  /\ code'[op'[s].gs] = op'[s].product
                 /\ \A t \in Requests \ {s} : op'[t].gs # op'[s].gs
      <3>1. CASE s = r
        BY <1>3, <1>4, <1>5, <1>6, <2>1, <3>1
      <3>2. CASE s # r
        <4>1. op'[s] = op[s] /\ op[s].gs # c /\ op[s].gs \in Codes
          BY <1>4, <2>1, <2>2, <3>2
        <4>2. code[op[s].gs] = op[s].product /\ \A t \in Requests \ {s} : op[t].gs # op[s].gs
          BY <1>i, <2>2, <4>1 DEF ClaimsDistinct
        <4> QED
          BY <1>3, <1>4, <1>6, <4>1, <4>2
      <3> QED
        BY <3>1, <3>2
    <2> QED
      BY <2>2 DEF ClaimsDistinct
  <1>11. Own'
    <2>1. \A s \in Requests : op'[s].product = op[s].product
      BY <1>3, <1>4 DEF p
    <2>2. \A s \in Requests : op'[s].pc # "undo count" => op[s].pc # "undo count"
      BY <1>2, <1>4
    <2> QED
      BY <1>i, <1>u, <2>1, <2>2 DEF Own
  <1>12. OwnCode'
    <2>1. ASSUME NEW s \in Printers, op'[s].product # 0, op'[s].product \notin assigned,
                 NEW d \in Codes, code'[d] = op'[s].product
          PROVE  op'[s].gs = d
      <3>1. CASE s = r /\ d = c
        BY <1>3, <3>1
      <3>2. CASE s = r /\ d # c
        BY <1>3, <1>5, <1>6, <1>i, <2>1, <3>2, Known DEF OwnCode, p
      <3>3. CASE s # r /\ d = c
        <4>1. op'[s] = op[s] /\ op[s].product = p /\ r \in Printers
          BY <1>4, <1>6, <1>q, <1>u, <2>1, <3>3, Known
        <4> QED
          BY <1>i, <2>1, <3>3, <4>1 DEF Own, p
      <3>4. CASE s # r /\ d # c
        BY <1>4, <1>6, <1>i, <1>u, <2>1, <3>4 DEF OwnCode
      <3> QED
        BY <3>1, <3>2, <3>3, <3>4
    <2> QED
      BY <1>u, <2>1 DEF OwnCode
  <1>13. OwnData'
    <2>1. ASSUME NEW s \in Printers, op'[s].pc \in {"informed", "printed"},
                 op'[s].product \notin assigned
          PROVE  code'[op'[s].data] = op'[s].product
      <3>1. s # r /\ op'[s] = op[s]
        BY <1>3, <1>4, <1>u, <2>1
      <3>2. code[op[s].data] = op[s].product /\ op[s].product # 0 /\ op[s].data # NoCode
        BY <1>i, <1>u, <2>1, <3>1, Known DEF OwnData, Shaped
      <3>3. op[s].data \in Codes
        BY <1>u, <3>2, OpFields DEF Inv
      <3> QED
        BY <1>1, <1>6, <3>1, <3>2, <3>3
    <2> QED
      BY <1>u, <2>1 DEF OwnData
  <1>14. ReprintAssigned'
    <2>1. \A s \in Reprinters : s # r => op'[s] = op[s]
      BY <1>4, <1>u
    <2> QED
      BY <1>3, <1>i, <1>q, <1>u, <2>1 DEF ReprintAssigned
  <1>15. ShippedHasCode'
    <2>1. \A s \in shipped : s[1] # 0 /\ s[2] \in Codes
      BY DEF Inv, TypeOK, Ids
    <2> QED
      BY <1>1, <1>6, <1>i, <1>u, <2>1 DEF ShippedHasCode
  <1>16. TakenByProduct'
    <2>1. p \notin assigned => product[p] # NoSerial
      BY <1>2, <1>5, <1>i, <1>q, Known DEF Own, p
    <2> QED
      BY <1>6, <1>i, <1>u, <2>1 DEF TakenByProduct
  <1> QED
    BY <1>7, <1>8, <1>9, <1>10, <1>11, <1>12, <1>13, <1>14, <1>15, <1>16 DEF Inv

LEMMA UndoInv ==
    ASSUME SerialAssumption, Inv, NEW r \in Requests, GsCodeUpdateUndo(r)
    PROVE  Inv'
  <1> DEFINE g == op[r].gs
  <1>1. /\ op[r].pc = "undo code" /\ code' = [code EXCEPT ![g] = 0]
        /\ UNCHANGED <<today, count, countDay, product, lastId, params, shipped, assigned>>
    BY DEF GsCodeUpdateUndo, FreeAgain, counter, rows, answers
  <1>2. g \in Codes /\ g # NoCode /\ Shaped(r, op[r])
    BY <1>1, Known DEF Shaped
  <1>3. /\ op'[r] \in Op /\ Shaped(r, op'[r]) /\ op'[r].gs = NoCode
        /\ op'[r].pc \in {"idle", "undo product"}
        /\ op'[r].product \in {0, op[r].product}
        /\ \A s \in Requests \ {r} : op'[s] = op[s]
        /\ op' \in [Requests -> Op]
    <2>1. CASE r \in Printers
      <3> DEFINE o == [op[r] EXCEPT !.pc = "undo product", !.gs = NoCode]
      <3>1. /\ o.pc = "undo product" /\ o.gs = NoCode /\ o.product = op[r].product
            /\ o.data = op[r].data /\ o \in Op
        BY OpFields DEF Inv, Op
      <3>2. op' = [op EXCEPT ![r] = o]
        BY <2>1 DEF GsCodeUpdateUndo, Inv, TypeOK
      <3> HIDE DEF o
      <3>3. Shaped(r, o)
        BY <1>1, <1>2, <2>1, <3>1, Known DEF Shaped
      <3>4. op'[r] = o /\ \A s \in Requests \ {r} : op'[s] = op[s]
        BY <3>2 DEF Inv, TypeOK
      <3> QED
        BY <3>1, <3>2, <3>3, <3>4 DEF Inv, TypeOK
    <2>2. CASE r \notin Printers
      <3>1. op' = [op EXCEPT ![r] = Idle]
        BY <2>2 DEF GsCodeUpdateUndo, End
      <3>2. Idle.pc = "idle" /\ Idle.gs = NoCode /\ Idle.product = 0 /\ Shaped(r, Idle)
        BY DEF Idle, Shaped
      <3>3. op'[r] = Idle /\ \A s \in Requests \ {r} : op'[s] = op[s]
        BY <3>1 DEF Inv, TypeOK
      <3> QED
        BY <3>1, <3>2, <3>3, IdleOp DEF Inv, TypeOK
    <2> QED
      BY <2>1, <2>2
  <1>6. code'[g] = 0 /\ \A d \in Codes \ {g} : code'[d] = code[d]
    BY <1>1, <1>2 DEF Inv, TypeOK
  <1>i. /\ Past /\ ClaimsDistinct /\ Own /\ OwnCode /\ OwnData /\ ReprintAssigned
        /\ ShippedHasCode /\ TakenByProduct
    BY DEF Inv
  <1>u. /\ product' = product /\ lastId' = lastId /\ shipped' = shipped /\ assigned' = assigned
        /\ \A s \in Printers : s \in Requests
        /\ \A s \in Reprinters : s \in Requests
    BY <1>1 DEF Requests
  <1>q. /\ code[g] = op[r].product
        /\ \A s \in Requests \ {r} : op[s].gs # g
        /\ r \in Reprinters => op[r].product \in assigned
    BY <1>2, <1>i DEF ClaimsDistinct, ReprintAssigned
  <1>z. 0 <= lastId
    BY SerialAssumption DEF Inv, TypeOK, SerialAssumption
  <1>7. TypeOK'
    <2>0. 0 \in 0 .. MaxProducts /\ code \in [Codes -> 0 .. MaxProducts]
      BY SerialAssumption DEF Inv, TypeOK, SerialAssumption
    <2>1. code' \in [Codes -> 0 .. MaxProducts]
      BY <1>1, <1>2, <2>0
    <2> QED
      BY <1>1, <1>3, <2>1 DEF Inv, TypeOK
  <1> HIDE DEF g
  <1>8. Shape'
    <2>1. \A s \in Requests : Shaped(s, op'[s])
      BY <1>3 DEF Inv, Shape
    <2> QED
      BY <2>1 DEF Shape, Shaped
  <1>9. Past'
    <2>1. \A s \in Requests : op'[s].product \in {0, op[s].product}
      BY <1>3
    <2>2. \A d \in Codes : code'[d] \in {0, code[d]}
      BY <1>6
    <2> QED
      BY <1>i, <1>u, <1>z, <2>1, <2>2 DEF Past
  <1>10. ClaimsDistinct'
    <2>1. \A s \in Requests : op'[s].gs # NoCode =>
             s # r /\ op'[s] = op[s] /\ op[s].gs \in Codes \ {g}
      BY <1>3, <1>q, Known
    <2> QED
      BY <1>6, <1>i, <2>1 DEF ClaimsDistinct
  <1>11. Own'
    <2>1. \A s \in Requests : op'[s].product # 0 => op'[s].product = op[s].product
      BY <1>3
    <2>2. \A s \in Requests : op'[s].pc # "undo count" => op[s].pc # "undo count"
      BY <1>1, <1>3
    <2> QED
      BY <1>i, <1>u, <2>1, <2>2 DEF Own
  <1>12. OwnCode'
    <2>1. ASSUME NEW s \in Printers, op'[s].product # 0, op'[s].product \notin assigned,
                 NEW d \in Codes, code'[d] = op'[s].product
          PROVE  op'[s].gs = d
      <3>1. d # g /\ code[d] = op'[s].product /\ op'[s].product = op[s].product
        BY <1>3, <1>6, <1>u, <2>1
      <3>2. op[s].gs = d
        BY <1>i, <2>1, <3>1 DEF OwnCode
      <3>3. s # r
        BY <3>1, <3>2 DEF g
      <3> QED
        BY <1>3, <1>u, <3>2, <3>3
    <2> QED
      BY <1>u, <2>1 DEF OwnCode
  <1>13. OwnData'
    <2>1. ASSUME NEW s \in Printers, op'[s].pc \in {"informed", "printed"},
                 op'[s].product \notin assigned
          PROVE  code'[op'[s].data] = op'[s].product
      <3>1. s # r /\ op'[s] = op[s]
        BY <1>3, <1>u, <2>1
      <3>2. code[op[s].data] = op[s].product /\ op[s].product # 0 /\ op[s].data # NoCode
        BY <1>i, <1>u, <2>1, <3>1, Known DEF OwnData, Shaped
      <3>3. op[s].data \in Codes
        BY <1>u, <3>2, OpFields DEF Inv
      <3>4. op[s].product # op[r].product
        BY <1>i, <1>q, <2>1, <3>1, <3>2, Known DEF Own
      <3> QED
        BY <1>6, <1>q, <3>1, <3>2, <3>3, <3>4
    <2> QED
      BY <1>u, <2>1 DEF OwnData
  <1>14. ReprintAssigned'
    <2>1. \A s \in Reprinters : s # r => op'[s] = op[s]
      BY <1>3, <1>u
    <2> QED
      BY <1>3, <1>i, <1>u, <2>1 DEF ReprintAssigned
  <1>15. ShippedHasCode'
    <2>1. \A s \in shipped : s[2] \in Codes
      BY DEF Inv, TypeOK
    <2>2. \A s \in shipped : s[1] \notin assigned => s[1] # op[r].product
      BY <1>2, <1>i, <1>q, Known DEF Own, g
    <2> QED
      BY <1>6, <1>i, <1>q, <1>u, <2>1, <2>2 DEF ShippedHasCode
  <1>16. TakenByProduct'
    BY <1>6, <1>i, <1>u DEF TakenByProduct
  <1> QED
    BY <1>7, <1>8, <1>9, <1>10, <1>11, <1>12, <1>13, <1>14, <1>15, <1>16 DEF Inv

LEMMA DeleteInv ==
    ASSUME SerialAssumption, Inv, NEW r \in Printers, LinesDeleteProduct(r)
    PROVE  Inv'
  <1>r. r \in Requests
    BY DEF Requests
  <1> DEFINE p == op[r].product
             o == [op[r] EXCEPT !.pc = "undo count"]
  <1>1. /\ op[r].pc = "undo product" /\ product' = [product EXCEPT ![p] = NoSerial]
        /\ UNCHANGED <<today, count, countDay, lastId, code, params, shipped, assigned>>
    BY DEF LinesDeleteProduct, counter, answers
  <1>2. /\ o.pc = "undo count" /\ o.gs = op[r].gs /\ o.product = p /\ o.data = op[r].data
        /\ o \in Op
    BY <1>r, OpFields DEF Inv, Op
  <1>3. op' = [op EXCEPT ![r] = o]
    BY <1>r DEF LinesDeleteProduct, Go, Inv, TypeOK
  <1>4. op'[r] = o /\ \A s \in Requests \ {r} : op'[s] = op[s]
    BY <1>r, <1>3 DEF Inv, TypeOK
  <1>5. Shaped(r, op[r]) /\ op[r].gs = NoCode /\ p \in Ids /\ r \notin Reprinters
    BY <1>1, <1>r, Known DEF Shaped
  <1>i. /\ Past /\ ClaimsDistinct /\ Own /\ OwnCode /\ OwnData /\ ReprintAssigned
        /\ ShippedHasCode /\ TakenByProduct
    BY DEF Inv
  <1>u. /\ code' = code /\ lastId' = lastId /\ shipped' = shipped /\ assigned' = assigned
        /\ \A s \in Printers : s \in Requests
        /\ \A s \in Reprinters : s \in Requests
    BY <1>1 DEF Requests
  <1>6. product'[p] = NoSerial /\ \A q \in Ids \ {p} : product'[q] = product[q]
    BY <1>1, <1>5 DEF Inv, TypeOK
  <1>7. TypeOK'
    <2>1. product' \in [Ids -> Serials \cup {NoSerial}]
      BY <1>1, <1>5 DEF Inv, TypeOK
    <2>2. op' \in [Requests -> Op]
      BY <1>2, <1>3 DEF Inv, TypeOK
    <2> QED
      BY <1>1, <2>1, <2>2 DEF Inv, TypeOK
  <1> HIDE DEF o
  <1>s. \A s \in Requests : op'[s].product = op[s].product /\ op'[s].gs = op[s].gs
    BY <1>2, <1>4
  <1> HIDE DEF p
  <1>8. Shape'
    <2>1. Shaped(r, op'[r])
      BY <1>2, <1>4, <1>5 DEF Shaped
    <2>2. \A s \in Requests : Shaped(s, op'[s])
      BY <1>4, <2>1 DEF Inv, Shape
    <2> QED
      BY <2>2 DEF Shape, Shaped
  <1>9. Past'
    BY <1>6, <1>i, <1>s, <1>u DEF Past
  <1>10. ClaimsDistinct' /\ OwnCode'
    BY <1>i, <1>s, <1>u DEF ClaimsDistinct, OwnCode
  <1>11. Own'
    <2>1. ASSUME NEW s \in Printers, op'[s].product # 0, op'[s].pc # "undo count"
          PROVE  product'[op'[s].product] # NoSerial
      <3>1. s # r /\ op'[s] = op[s]
        BY <1>2, <1>4, <1>u, <2>1
      <3>2. op[s].product # p /\ product[op[s].product] # NoSerial /\ op[s].product \in Ids
        BY <1>i, <1>u, <2>1, <3>1, Known DEF Own, p
      <3> QED
        BY <1>6, <3>1, <3>2
    <2> QED
      BY <1>i, <1>s, <1>u, <2>1 DEF Own
  <1>12. OwnData' /\ ReprintAssigned'
    <2>1. \A s \in Printers : op'[s].pc = "undo count" \/ op'[s] = op[s]
      BY <1>2, <1>4, <1>u
    <2>2. \A s \in Reprinters : op'[s] = op[s]
      BY <1>4, <1>5, <1>u
    <2> QED
      BY <1>i, <1>u, <2>1, <2>2 DEF OwnData, ReprintAssigned
  <1>13. ShippedHasCode'
    BY <1>i, <1>u DEF ShippedHasCode
  <1>14. TakenByProduct'
    <2>1. \A c \in Codes : code[c] # p \/ p \in assigned
      <3>1. p # 0 /\ NoCode \notin Codes
        BY <1>5, SerialAssumption DEF Ids, SerialAssumption
      <3> QED
        BY <1>5, <1>i, <3>1 DEF OwnCode, p
    <2>2. \A c \in Codes : code[c] # 0 => code[c] \in Ids
      BY SerialAssumption DEF Inv, TypeOK, Ids, SerialAssumption
    <2> QED
      BY <1>6, <1>i, <1>u, <2>1, <2>2 DEF TakenByProduct
  <1> QED
    BY <1>7, <1>8, <1>9, <1>10, <1>11, <1>12, <1>13, <1>14 DEF Inv

LEMMA ParamsInv ==
    ASSUME SerialAssumption, Inv, NEW r \in Printers, ProductParamsInsertYigish(r)
    PROVE  Inv'
  <1>r. r \in Requests
    BY DEF Requests
  <1> DEFINE p == op[r].product
             c == op[r].data
  <1>1. /\ op[r].pc = "printed" /\ params' = params \cup {product[p]}
        /\ shipped' = shipped \cup {<<p, c>>} /\ End(r)
        /\ UNCHANGED <<today, count, countDay, product, lastId, code, assigned>>
    BY DEF ProductParamsInsertYigish, counter
  <1>2. p \in Ids /\ p # 0 /\ c \in Codes /\ r \notin Reprinters
    BY <1>1, <1>r, Known, OpFields DEF Shaped, Inv
  <1>3. op'[r] = Idle /\ \A s \in Requests \ {r} : op'[s] = op[s]
    BY <1>1, <1>r DEF End, Inv, TypeOK
  <1>4. Idle.pc = "idle" /\ Idle.gs = NoCode /\ Idle.product = 0 /\ Shaped(r, Idle)
    BY DEF Idle, Shaped
  <1>i. /\ Past /\ ClaimsDistinct /\ Own /\ OwnCode /\ OwnData /\ ReprintAssigned
        /\ ShippedHasCode /\ TakenByProduct
    BY DEF Inv
  <1>u. /\ code' = code /\ lastId' = lastId /\ product' = product /\ assigned' = assigned
        /\ \A s \in Printers : s \in Requests
        /\ \A s \in Reprinters : s \in Requests
    BY <1>1 DEF Requests
  <1>5. product[p] # NoSerial /\ p <= lastId /\ (p \notin assigned => code[c] = p)
    BY <1>1, <1>2, <1>i, <1>r DEF Own, OwnData, Past
  <1>6. TypeOK'
    <2>1. op' \in [Requests -> Op]
      BY <1>1, <1>r, IdleOp DEF End, Inv, TypeOK
    <2>2. product[p] \in Serials
      BY <1>2, <1>5 DEF Inv, TypeOK
    <2> QED
      BY <1>1, <1>2, <2>1, <2>2 DEF Inv, TypeOK
  <1> HIDE DEF p, c
  <1>7. Shape'
    <2>1. \A s \in Requests : Shaped(s, op'[s])
      BY <1>3, <1>4 DEF Inv, Shape
    <2> QED
      BY <2>1 DEF Shape, Shaped
  <1>8. Past'
    <2>1. 0 <= lastId
      BY SerialAssumption DEF Inv, TypeOK, SerialAssumption
    <2>2. \A s \in Requests : op'[s].product \in {0, op[s].product}
      BY <1>3, <1>4
    <2>3. \A s \in shipped' : s \in shipped \/ s[1] = p
      BY <1>1
    <2> QED
      BY <1>5, <1>i, <1>u, <2>1, <2>2, <2>3 DEF Past
  <1>9. ClaimsDistinct'
    <2>1. \A s \in Requests : op'[s].gs # NoCode => s # r /\ op'[s] = op[s]
      BY <1>3, <1>4
    <2> QED
      BY <1>i, <1>u, <2>1 DEF ClaimsDistinct
  <1>10. Own' /\ OwnCode' /\ OwnData'
    <2>1. \A s \in Printers : op'[s].product # 0 => s # r /\ op'[s] = op[s]
      BY <1>3, <1>4, <1>u
    <2>2. \A s \in Printers \ {r} : op[s].product # p \/ op[s].product = 0
      BY <1>2, <1>i DEF Own, p
    <2>3. \A s \in shipped' : s \in shipped \/ s[1] = p
      BY <1>1
    <2>4. \A s, t \in Printers : s # t /\ op'[s].product # 0 => op'[t].product # op'[s].product
      BY <1>i, <1>3, <1>4, <1>u, <2>1 DEF Own
    <2>5. Own'
      BY <1>i, <1>u, <2>1, <2>2, <2>3, <2>4 DEF Own
    <2>6. OwnCode'
      BY <1>i, <1>u, <2>1 DEF OwnCode
    <2>7. \A s \in Printers : op'[s].pc # "idle" => op'[s] = op[s]
      BY <1>3, <1>4, <1>u
    <2>8. OwnData'
      BY <1>i, <1>u, <2>7 DEF OwnData
    <2> QED
      BY <2>5, <2>6, <2>8
  <1>11. ReprintAssigned'
    <2>1. \A s \in Reprinters : op'[s] = op[s]
      BY <1>2, <1>3, <1>u
    <2> QED
      BY <1>i, <1>u, <2>1 DEF ReprintAssigned
  <1>12. ShippedHasCode'
    <2>1. \A s \in shipped' : s \in shipped \/ (s[1] = p /\ s[2] = c)
      BY <1>1
    <2> QED
      BY <1>5, <1>i, <1>u, <2>1 DEF ShippedHasCode
  <1>13. TakenByProduct'
    BY <1>i, <1>u DEF TakenByProduct
  <1> QED
    BY <1>6, <1>7, <1>8, <1>9, <1>10, <1>11, <1>12, <1>13 DEF Inv

-----------------------------------------------------------------------------
LEMMA StepInv ==
    ASSUME SerialAssumption, Inv, [Next]_vars
    PROVE  Inv'
  <1>1. CASE UNCHANGED vars
    <2>1. /\ today' = today /\ count' = count /\ countDay' = countDay /\ product' = product
          /\ lastId' = lastId /\ code' = code /\ params' = params /\ shipped' = shipped
          /\ assigned' = assigned /\ op' = op
      BY <1>1 DEF vars
    <2>2. TypeOK' /\ Past'
      BY <2>1 DEF Inv, TypeOK, Past
    <2>3. Shape' /\ Own' /\ OwnCode' /\ OwnData'
      BY <2>1 DEF Inv, Shape, Shaped, Own, OwnCode, OwnData
    <2>4. ClaimsDistinct' /\ ReprintAssigned' /\ ShippedHasCode' /\ TakenByProduct'
      BY <2>1 DEF Inv, ClaimsDistinct, ReprintAssigned, ShippedHasCode, TakenByProduct
    <2> QED
      BY <2>2, <2>3, <2>4 DEF Inv
  <1>2. ASSUME NEW r \in Requests, Common(r)
        PROVE  Inv'
    <2>1. CASE Stop(r)
      BY <2>1, EndInv DEF Stop
    <2> QED
      BY <1>2, <2>1, ClaimInv, InfoInv, PrintInv, RefuseInv, UndoInv DEF Common
  <1>3. ASSUME NEW r \in Printers, PrintStep(r)
        PROVE  Inv'
    BY <1>2, <1>3, CountInv, AddInv, ParamsInv, DeleteInv, MinusInv DEF PrintStep, Requests
  <1>4. ASSUME NEW r \in Reprinters, ReprintStep(r)
        PROVE  Inv'
    BY <1>2, <1>4, FoundInv, LookInv DEF ReprintStep, Requests
  <1> QED
    BY <1>1, <1>3, <1>4, DayInv DEF Next

LEMMA Invariance == Spec => []Inv
  BY InitInv, StepInv, SerialAssumption, PTL DEF Spec

(* Every step of every request finds what it needs to go on or go back.    *)
THEOREM TypeCorrect == Spec => []TypeOK
  <1>1. Inv => TypeOK
    BY DEF Inv
  <1> QED
    BY <1>1, Invariance, PTL

(* Requests that overlap never hold the same code.                         *)
THEOREM CodesClaimedOnce == Spec => []ClaimsDistinct
  <1>1. Inv => ClaimsDistinct
    BY DEF Inv
  <1> QED
    BY <1>1, Invariance, PTL

(* A label that was answered with OK keeps its code.                       *)
THEOREM LabelMatchesDatabase == Spec => []ShippedHasCode
  <1>1. Inv => ShippedHasCode
    BY DEF Inv
  <1> QED
    BY <1>1, Invariance, PTL

(* Undoing the code first loses none.                                      *)
THEOREM NoCodeLost == Spec => []TakenByProduct
  <1>1. Inv => TakenByProduct
    BY DEF Inv
  <1> QED
    BY <1>1, Invariance, PTL
=============================================================================
