---------------------------- MODULE SerialIssue ----------------------------
(***************************************************************************)
(* A product is born on Yig'ish when its label is printed: the counter of  *)
(* its model goes up, a serial is made from it, a row is inserted in       *)
(* lines.products, a GS code is claimed for the row, the label is printed  *)
(* and lines.product_params is written.  Each of these is a statement of   *)
(* its own, without a transaction around them; what was done is undone by  *)
(* hand when a later one fails.  A reprint prints the label again and may  *)
(* claim a code for a product that has none.                               *)
(***************************************************************************)
EXTENDS Integers, TLC

CONSTANTS
    Printers,     \* print requests that may overlap
    Reprinters,   \* reprint requests that may overlap
    Codes,        \* the model's rows of production.gscodes
    NoCode,
    Letters,      \* the random last letter of a serial
    MaxDay,       \* bound on the days
    MaxCount,     \* bound on the counter
    MaxProducts   \* bound on the rows ever inserted in lines.products

ASSUME SerialAssumption ==
    /\ MaxDay \in Nat \ {0} /\ MaxCount \in Nat \ {0} /\ MaxProducts \in Nat
    /\ NoCode \notin Codes
    /\ Printers \cap Reprinters = {}

Requests == Printers \cup Reprinters
Days     == 1 .. MaxDay
Counts   == -MaxCount .. MaxCount
Ids      == 1 .. MaxProducts
Serials  == Days \X Counts \X Letters
NoSerial == <<>>

(* For TLC.                                                                *)
Symmetric == Permutations(Printers) \cup Permutations(Codes)

VARIABLES
    today,
    count,      \* models.serial_count
    countDay,   \* models.last_serial_time
    product,    \* serial of each row of lines.products, by id
    lastId,     \* sequence of lines.products
    code,       \* gscodes.product_id, 0 where status = true
    params,     \* serials in lines.product_params
    shipped,    \* row and code of each label that was answered with OK
    assigned,   \* rows a reprint found without a code
    op          \* what each request carries

vars == <<today, count, countDay, product, lastId, code, params, shipped, assigned, op>>

counter == <<today, count, countDay>>
rows    == <<product, lastId, params>>
answers == <<shipped, assigned>>

Op == [pc: {"idle", "counted", "added", "found", "assign", "claimed", "informed", "printed",
            "undo code", "undo product", "undo count"},
       count: Counts, product: 0 .. MaxProducts,
       gs: Codes \cup {NoCode},      \* the code the request claimed
       data: Codes \cup {NoCode}]    \* the code it read

Idle == [pc |-> "idle", count |-> 0, product |-> 0, gs |-> NoCode, data |-> NoCode]

TypeOK ==
    /\ today \in Days /\ countDay \in 0 .. MaxDay /\ count \in Counts
    /\ product \in [Ids -> Serials \cup {NoSerial}]
    /\ lastId \in 0 .. MaxProducts
    /\ code \in [Codes -> 0 .. MaxProducts]
    /\ params \subseteq Serials
    /\ shipped \subseteq Ids \X Codes
    /\ assigned \subseteq Ids
    /\ op \in [Requests -> Op]

Init ==
    /\ today = 1 /\ count = 0 /\ countDay = 0
    /\ product = [p \in Ids |-> NoSerial] /\ lastId = 0
    /\ code = [c \in Codes |-> 0]
    /\ params = {} /\ shipped = {} /\ assigned = {}
    /\ op = [r \in Requests |-> Idle]

Go(r, pc) == op' = [op EXCEPT ![r].pc = pc]
End(r)    == op' = [op EXCEPT ![r] = Idle]

-----------------------------------------------------------------------------
(* The steps of linesYigishV2PrintOne.                                     *)

NextDrawn(n) == [Idle EXCEPT !.pc = "counted", !.count = n + 1]           \* mutant

Drawn(n) == [Idle EXCEPT !.pc = "counted", !.count = n]

ModelsUpdateCount(r) ==
    /\ op[r].pc = "idle"
    /\ count' = IF countDay = today THEN count + 1 ELSE 1
    /\ count' <= MaxCount
    /\ countDay' = today
    /\ op' = [op EXCEPT ![r] = Drawn(count')]
    /\ UNCHANGED <<today, rows, code, answers>>

(* The date of a serial is today, whenever its number was drawn.           *)
LinesAddProduct(r, letter) ==
    /\ op[r].pc = "counted" /\ lastId < MaxProducts
    /\ LET serial == <<today, op[r].count, letter>>
       IN  /\ \A p \in Ids : product[p] # serial
           /\ product' = [product EXCEPT ![lastId + 1] = serial]
    /\ lastId' = lastId + 1
    /\ op' = [op EXCEPT ![r].pc = "added", ![r].product = lastId + 1]
    /\ UNCHANGED <<counter, code, params, answers>>

AnyCode(c) == TRUE                                                       \* mutant

Free(c) == code[c] = 0

(* SKIP LOCKED: not always the free code with the smallest id.             *)
GsCodeUpdate(r) ==
    /\ op[r].pc \in {"added", "assign"}
    /\ \E c \in Codes :
          /\ Free(c)
          /\ code' = [code EXCEPT ![c] = op[r].product]
          /\ op' = [op EXCEPT ![r].pc = "claimed", ![r].gs = c]
    /\ UNCHANGED <<counter, rows, answers>>

LinesGetInfoByProductId(r) ==
    /\ op[r].pc = "claimed"
    /\ product[op[r].product] # NoSerial
    /\ \E c \in Codes :
          /\ code[c] = op[r].product
          /\ op' = [op EXCEPT ![r].pc = "informed", ![r].data = c]
    /\ UNCHANGED <<counter, rows, code, answers>>

(* A print that fails is a step refused, whether its label came out or     *)
(* not; a reprint is done when its label is.                               *)
ExecutePrint(r) ==
    /\ op[r].pc = "informed"
    /\ IF r \in Printers THEN Go(r, "printed") ELSE End(r)
    /\ UNCHANGED <<counter, rows, code, answers>>

ProductParamsInsertYigish(r) ==
    /\ op[r].pc = "printed"
    /\ product[op[r].product] \notin params
    /\ params' = params \cup {product[op[r].product]}
    /\ shipped' = shipped \cup {<<op[r].product, op[r].data>>}
    /\ End(r)
    /\ UNCHANGED <<counter, product, lastId, code, assigned>>

-----------------------------------------------------------------------------
(* Reprint: find the row, look for its code, claim one if there is none.   *)

LinesGetProductIdBySerial(r, p) ==
    /\ op[r].pc = "idle" /\ product[p] # NoSerial
    /\ op' = [op EXCEPT ![r].pc = "found", ![r].product = p]
    /\ UNCHANGED <<counter, rows, code, answers>>

CodesOf(p) == {c \in Codes : code[c] = p}

GsCodeBySerial(r) ==
    /\ op[r].pc = "found"
    /\ \/ \E c \in CodesOf(op[r].product) :
             /\ op' = [op EXCEPT ![r].pc = "informed", ![r].data = c]
             /\ UNCHANGED assigned
       \/ /\ CodesOf(op[r].product) = {}
          /\ Go(r, "assign")
          /\ assigned' = assigned \cup {op[r].product}
    /\ UNCHANGED <<counter, rows, code, shipped>>

-----------------------------------------------------------------------------
(* A step is refused: a duplicate, no free code, a lost connection, a      *)
(* print that never left.  What the attempt has is given back, the code    *)
(* first.                                                                  *)

ProductFirst(r) ==                                                       \* mutant
    IF r \in Printers /\ op[r].product # 0 THEN "undo product"
    ELSE IF r \in Printers THEN "undo count"
    ELSE IF op[r].gs # NoCode THEN "undo code" ELSE "idle"

FirstToUndo(r) ==
    IF op[r].gs # NoCode THEN "undo code"
    ELSE IF r \in Printers /\ op[r].product # 0 THEN "undo product"
    ELSE IF r \in Printers THEN "undo count" ELSE "idle"

Refuse(r) ==
    /\ op[r].pc \in {"counted", "added", "found", "assign", "claimed", "informed", "printed"}
    /\ IF FirstToUndo(r) = "idle" THEN End(r) ELSE Go(r, FirstToUndo(r))
    /\ UNCHANGED <<counter, rows, code, answers>>

AllFreeAgain(c) == [d \in Codes |-> 0]                                   \* mutant

FreeAgain(c) == [code EXCEPT ![c] = 0]

GsCodeUpdateUndo(r) ==
    /\ op[r].pc = "undo code"
    /\ code' = FreeAgain(op[r].gs)
    /\ IF r \in Printers
       THEN op' = [op EXCEPT ![r].pc = "undo product", ![r].gs = NoCode]
       ELSE End(r)
    /\ UNCHANGED <<counter, rows, answers>>

LinesDeleteProduct(r) ==
    /\ op[r].pc = "undo product"
    /\ product' = [product EXCEPT ![op[r].product] = NoSerial]
    /\ Go(r, "undo count")
    /\ UNCHANGED <<counter, lastId, code, params, answers>>

ModelsUpdateCountMinus(r) ==
    /\ op[r].pc = "undo count"
    /\ count' = IF countDay = today THEN count - 1 ELSE 1
    /\ count' >= -MaxCount
    /\ countDay' = today
    /\ End(r)
    /\ UNCHANGED <<today, rows, code, answers>>

(* An undo that fails leaves the rest undone; so does a server that stops. *)
Stop(r) ==
    /\ op[r].pc # "idle"
    /\ End(r)
    /\ UNCHANGED <<counter, rows, code, answers>>

NextDay ==
    /\ today < MaxDay
    /\ today' = today + 1
    /\ UNCHANGED <<count, countDay, rows, code, answers, op>>

-----------------------------------------------------------------------------
Common(r) ==
    \/ GsCodeUpdate(r)
    \/ LinesGetInfoByProductId(r)
    \/ ExecutePrint(r)
    \/ Refuse(r)
    \/ GsCodeUpdateUndo(r)
    \/ Stop(r)

PrintStep(r) ==
    \/ ModelsUpdateCount(r)
    \/ \E letter \in Letters : LinesAddProduct(r, letter)
    \/ ProductParamsInsertYigish(r)
    \/ LinesDeleteProduct(r)
    \/ ModelsUpdateCountMinus(r)
    \/ Common(r)

ReprintStep(r) ==
    \/ \E p \in Ids : LinesGetProductIdBySerial(r, p)
    \/ GsCodeBySerial(r)
    \/ Common(r)

Next ==
    \/ \E r \in Printers : PrintStep(r)
    \/ \E r \in Reprinters : ReprintStep(r)
    \/ NextDay

Spec == Init /\ [][Next]_vars

-----------------------------------------------------------------------------
(* Properties.                                                             *)

(* A code a request claimed stays with its product until that request      *)
(* gives it back: overlapping claims are of different codes, and nobody    *)
(* frees or takes the code of another.                                     *)
ClaimsDistinct ==
    \A r \in Requests : op[r].gs # NoCode =>
        /\ code[op[r].gs] = op[r].product
        /\ \A s \in Requests \ {r} : op[s].gs # op[r].gs

(* The database has the code that is on the label of every product that    *)
(* was answered with OK, so no two of them have the same code; but for     *)
(* products that a reprint looked up while they had none.                  *)
ShippedHasCode ==
    \A s \in shipped : s[1] \notin assigned => code[s[2]] = s[1]

(* No code is lost: one that is taken belongs to a row that exists, and    *)
(* whatever fails half-way leaves at worst a product without a code.       *)
TakenByProduct ==
    \A c \in Codes : code[c] # 0 /\ code[c] \notin assigned => product[code[c]] # NoSerial
=============================================================================
