----------------------------- MODULE StockFlow -----------------------------
(***************************************************************************)
(* Components on their way from the warehouse to the lines.  Income adds   *)
(* to ware.stock; a delivery note lists what a line is to get, the         *)
(* warehouse marks its items ready, and a brigadir responsible for the     *)
(* line receives them: ware.stock goes down, lines.balance goes up.  The   *)
(* lines' own operations change lines.balance.                             *)
(*                                                                         *)
(* The database runs at READ COMMITTED.  A delivery locks its items and    *)
(* their stock FOR UPDATE; income and every change of a line balance read  *)
(* without a lock, compute the new quantity and write it, which locks the  *)
(* row from then on.                                                       *)
(***************************************************************************)
EXTENDS Integers, FiniteSets, TLC

CONSTANTS
    Notes, Components, Lines,
    Incomes,       \* income requests that may overlap
    Receivers,     \* brigadir requests that may overlap
    LineOps,       \* requests of the lines that may overlap
    InitialStock,
    MaxQuantity,   \* bound on one movement
    MaxStock       \* bound on what is in stock or on a line

ASSUME StockFlowAssumption ==
    /\ InitialStock \in Nat /\ MaxQuantity \in Nat /\ MaxStock \in Nat
    /\ InitialStock <= MaxStock
    /\ Incomes \cap Receivers = {} /\ Incomes \cap LineOps = {} /\ Receivers \cap LineOps = {}

(* A note has one item for a component and a line: WareRequestBuild.       *)
Items      == Notes \X Components \X Lines
Keys       == Lines \X Components
Requests   == Incomes \cup Receivers \cup LineOps
Quantities == 1 .. MaxQuantity
NoteOf(i)  == i[1]
Comp(i)    == i[2]
Key(i)     == <<i[3], i[2]>>

VARIABLES
    stock,       \* ware.stock
    balance,     \* lines.balance
    item,        \* ware.delivery_note_items
    outcome,     \* the items ware.outcome has rows for, with their number
    wareNet,     \* sum of ware.income less sum of ware.outcome
    lineNet,     \* sum of lines.balance_transactions
    op,          \* what each request has in flight
    overtaken    \* history: the stock and balances a request is to write, of
                 \* which another was committed since it read them

(* Notes and receivers are alike: for SYMMETRY.                            *)
Symmetric == Permutations(Notes) \cup Permutations(Receivers)

vars == <<stock, balance, item, outcome, wareNet, lineNet, op, overtaken>>

Idle     == [pc |-> "idle"]
NoItem   == [state |-> "none", quantity |-> 0, received |-> FALSE]
ItemRows == [state: {"none", "open", "ready", "deleted"}, quantity: 0 .. MaxQuantity,
             received: BOOLEAN]

IncomeOp  == [pc: {"income"}, comp: Components, quantity: Quantities, after: 0 .. MaxStock]
LineOp    == [pc: {"line"}, key: Keys, change: -MaxQuantity .. MaxQuantity, after: 0 .. MaxStock]
(* A delivery: the items still to do and done, the item it is at with the  *)
(* balance it read, and what it has written and not yet committed: the     *)
(* stock and balances, and how much of it moved.                           *)
ReceiveOp == [pc: {"receiving", "issued"}, left: SUBSET Items, done: SUBSET Items, at: Items,
              read: 0 .. MaxStock,
              stock: [Components -> 0 .. MaxStock], issued: [Components -> Nat],
              balance: [Keys -> 0 .. MaxStock], entered: [Keys -> Nat]]
Op        == {Idle} \cup IncomeOp \cup LineOp \cup ReceiveOp

TypeOK ==
    /\ stock \in [Components -> 0 .. MaxStock]
    /\ balance \in [Keys -> 0 .. MaxStock]
    /\ item \in [Items -> ItemRows]
    /\ outcome \in [Items -> Nat]
    /\ wareNet \in [Components -> Int]
    /\ lineNet \in [Keys -> Int]
    /\ op \in [Requests -> Op]
    /\ overtaken \subseteq Requests \X (Components \cup Keys)

Init ==
    /\ stock = [c \in Components |-> InitialStock]
    /\ balance = [k \in Keys |-> 0]
    /\ item = [i \in Items |-> NoItem]
    /\ outcome = [i \in Items |-> 0]
    /\ wareNet = [c \in Components |-> InitialStock]
    /\ lineNet = [k \in Keys |-> 0]
    /\ op = [r \in Requests |-> Idle]
    /\ overtaken = {}

ware      == <<stock, outcome, wareNet>>
lines     == <<balance, lineNet>>

(* The stock or balance x is read, without a lock, and not written yet.    *)
HasRead(r, x) ==
    \/ op[r].pc = "income" /\ op[r].comp = x
    \/ op[r].pc = "line" /\ op[r].key = x
    \/ op[r].pc = "issued" /\ Key(op[r].at) = x /\ op[r].entered[x] = 0

Begin(r, o) == op[r] = Idle /\ op' = [op EXCEPT ![r] = o] /\ UNCHANGED overtaken

(* The request r ends; with it the stock and balances X are committed.     *)
End(r, X) ==
    /\ op' = [op EXCEPT ![r] = Idle]
    /\ overtaken' = {y \in overtaken \cup {x \in Requests \X X : HasRead(x[1], x[2])} : y[1] # r}

-----------------------------------------------------------------------------
(* Row locks, held from the statement that takes them to the commit.       *)

Receiving(r)       == op[r].pc \in {"receiving", "issued"}
HeldItems(r)       == op[r].left \cup op[r].done
StockUnlocked(c)   == \A r \in Receivers :
                         Receiving(r) => \A i \in HeldItems(r) : Comp(i) # c
ItemUnlocked(i)    == \A r \in Receivers : Receiving(r) => i \notin HeldItems(r)
BalanceUnlocked(k) == \A r \in Receivers : Receiving(r) => op[r].entered[k] = 0

-----------------------------------------------------------------------------
(* Income.                                                                 *)

WareIncomeRead(r, c, q) ==
    /\ stock[c] + q <= MaxStock /\ wareNet[c] + q <= MaxStock
    /\ Begin(r, [pc |-> "income", comp |-> c, quantity |-> q, after |-> stock[c] + q])
    /\ UNCHANGED <<ware, lines, item>>

WareIncomeApply(r) ==
    /\ op[r].pc = "income"
    /\ LET c == op[r].comp
       IN  /\ StockUnlocked(c)
           /\ stock' = [stock EXCEPT ![c] = op[r].after]
           /\ wareNet' = [wareNet EXCEPT ![c] = @ + op[r].quantity]
           /\ End(r, {c})
    /\ UNCHANGED <<outcome, lines, item>>

-----------------------------------------------------------------------------
(* Delivery notes.                                                         *)

(* Each item is compared with the stock by itself.                         *)
WareDeliveryNoteCreate(n, S, q) ==
    /\ S # {} /\ \A i \in S : NoteOf(i) = n
    /\ \A i \in Items : NoteOf(i) = n => item[i].state = "none"
    /\ \A i \in S : StockUnlocked(Comp(i)) /\ q[i] <= stock[Comp(i)]
    /\ item' = [i \in Items |->
                   IF i \in S THEN [state |-> "open", quantity |-> q[i], received |-> FALSE]
                              ELSE item[i]]
    /\ UNCHANGED <<ware, lines, op, overtaken>>

WareDeliveryNoteItemUpdateQuantity(i, q) ==
    /\ item[i].state = "open"
    /\ ItemUnlocked(i)
    /\ item' = [item EXCEPT ![i].quantity = q]
    /\ UNCHANGED <<ware, lines, op, overtaken>>

Ready(i, q) == [state |-> "ready", quantity |-> q, received |-> item[i].received]

WareDeliveryNoteItemConfirm(i, q) ==
    /\ item[i].state = "open"
    /\ ItemUnlocked(i) /\ StockUnlocked(Comp(i))
    /\ q <= stock[Comp(i)]
    /\ item' = [item EXCEPT ![i] = Ready(i, q)]
    /\ UNCHANGED <<ware, lines, op, overtaken>>

WareDeliveryNoteItemUnconfirm(i) ==
    /\ item[i].state = "ready"
    /\ ItemUnlocked(i)
    /\ item' = [item EXCEPT ![i].state = "open"]
    /\ UNCHANGED <<ware, lines, op, overtaken>>

OpenItems(n) == {i \in Items : NoteOf(i) = n /\ item[i].state = "open"}

(* With the quantities the request carries, or those the items have.       *)
WareDeliveryNoteItemsConfirmAll(n, q) ==
    /\ OpenItems(n) # {}
    /\ \A i \in OpenItems(n) :
          ItemUnlocked(i) /\ StockUnlocked(Comp(i)) /\ q[i] <= stock[Comp(i)]
    /\ item' = [i \in Items |->
                   IF i \in OpenItems(n) THEN Ready(i, q[i]) ELSE item[i]]
    /\ UNCHANGED <<ware, lines, op, overtaken>>

WareDeliveryNoteItemsUnconfirmAll(n) ==
    /\ \A i \in Items : NoteOf(i) = n /\ item[i].state = "ready" => ItemUnlocked(i)
    /\ item' = [i \in Items |->
                   IF NoteOf(i) = n /\ item[i].state = "ready"
                   THEN [item[i] EXCEPT !.state = "open"] ELSE item[i]]
    /\ UNCHANGED <<ware, lines, op, overtaken>>

WareDeliveryNoteItemDelete(i) ==
    /\ item[i].state = "open"
    /\ item' = [item EXCEPT ![i].state = "deleted"]
    /\ UNCHANGED <<ware, lines, op, overtaken>>

-----------------------------------------------------------------------------
(* A brigadir receives.                                                    *)

PendingEvenReceived(L) == {i \in Items : i[3] \in L /\ item[i].state = "ready"}   \* mutant

Pending(L) == {i \in Items : i[3] \in L /\ item[i].state = "ready" /\ ~item[i].received}

NothingLocked(S) == TRUE                                                       \* mutant

Lockable(S) == \A i \in S : ItemUnlocked(i) /\ StockUnlocked(Comp(i))

(* A delivery of the items S, of which i is any: nothing is issued yet.    *)
Receive(r, S, i) ==
    /\ i \in S
    /\ Lockable(S)
    /\ Begin(r, [pc |-> "receiving", left |-> S, done |-> {}, at |-> i, read |-> 0,
                 stock |-> stock, issued |-> [c \in Components |-> 0],
                 balance |-> balance, entered |-> [k \in Keys |-> 0]])
    /\ UNCHANGED <<ware, lines, item>>

(* One item, or all that are pending on the lines L of the user.  What     *)
(* brigadirCheckStockForItems refuses here, wareOutcomeApplyTx would       *)
(* refuse below, where it undoes as much.                                  *)
BrigadirDeliveryItemConfirm(r, L, i)     == i \in Pending(L) /\ Receive(r, {i}, i)
BrigadirDeliveryItemsConfirmAll(r, L, i) == Receive(r, Pending(L), i)

BalanceBefore(r, k) == balance[k]                                        \* mutant

BalanceSeen(r, k) == IF op[r].entered[k] > 0 THEN op[r].balance[k] ELSE balance[k]

NotCompared(r, i) == TRUE                                                \* mutant

Sufficient(r, i) == item[i].quantity <= op[r].stock[Comp(i)]

(* wareOutcomeApplyTx, then the read of linesBalanceApplyChangeTx.         *)
wareOutcomeApplyTx(r) ==
    /\ op[r].pc = "receiving"
    /\ \E i \in op[r].left :
          /\ Sufficient(r, i)
          /\ op' = [op EXCEPT ![r].pc = "issued", ![r].at = i,
                              ![r].left = @ \ {i}, ![r].done = @ \cup {i},
                              ![r].stock[Comp(i)] = @ - item[i].quantity,
                              ![r].issued[Comp(i)] = @ + item[i].quantity,
                              ![r].read = BalanceSeen(r, Key(i))]
    /\ UNCHANGED <<ware, lines, item, overtaken>>

(* The write of linesBalanceApplyChangeTx.                                 *)
brigadirDeliveryItemConfirmTx(r) ==
    /\ op[r].pc = "issued"
    /\ LET i == op[r].at
           k == Key(i)
       IN  /\ \A s \in Receivers \ {r} : Receiving(s) => op[s].entered[k] = 0
           /\ op[r].read + item[i].quantity <= MaxStock
           /\ op' = [op EXCEPT ![r].pc = "receiving",
                               ![r].balance[k] = op[r].read + item[i].quantity,
                               ![r].entered[k] = @ + item[i].quantity]
    /\ UNCHANGED <<ware, lines, item, overtaken>>

BrigadirCommit(r) ==
    /\ op[r].pc = "receiving" /\ op[r].left = {}
    /\ stock' = [c \in Components |-> IF op[r].issued[c] > 0 THEN op[r].stock[c] ELSE stock[c]]
    /\ wareNet' = [c \in Components |-> wareNet[c] - op[r].issued[c]]
    /\ balance' = [k \in Keys |-> BalanceSeen(r, k)]
    /\ lineNet' = [k \in Keys |-> lineNet[k] + op[r].entered[k]]
    /\ outcome' = [i \in Items |-> IF i \in op[r].done THEN outcome[i] + 1 ELSE outcome[i]]
    /\ item' = [i \in Items |->
                   IF i \in op[r].done THEN [item[i] EXCEPT !.received = TRUE] ELSE item[i]]
    /\ End(r, {c \in Components : op[r].issued[c] > 0} \cup {k \in Keys : op[r].entered[k] > 0})

-----------------------------------------------------------------------------
(* The lines: finished parts, consumption, corrections, write-offs.        *)

LinesBalanceRead(r, k, change) ==
    /\ change # 0
    /\ balance[k] + change \in 0 .. MaxStock
    /\ lineNet[k] + change \in -MaxStock .. MaxStock
    /\ Begin(r, [pc |-> "line", key |-> k, change |-> change, after |-> balance[k] + change])
    /\ UNCHANGED <<ware, lines, item>>

LinesBalanceApplyChange(r) ==
    /\ op[r].pc = "line"
    /\ LET k == op[r].key
       IN  /\ BalanceUnlocked(k)
           /\ balance' = [balance EXCEPT ![k] = op[r].after]
           /\ lineNet' = [lineNet EXCEPT ![k] = @ + op[r].change]
           /\ End(r, {k})
    /\ UNCHANGED <<ware, item>>

(* A transaction is refused, rolled back as a deadlock victim, or dies.    *)
Fail(r) ==
    /\ op[r] # Idle
    /\ End(r, {})
    /\ UNCHANGED <<ware, lines, item>>

-----------------------------------------------------------------------------
IncomeStep(r) ==
    \/ \E c \in Components, q \in Quantities : WareIncomeRead(r, c, q)
    \/ WareIncomeApply(r)
    \/ Fail(r)

ReceiverStep(r) ==
    \/ \E L \in SUBSET Lines, i \in Items :
          BrigadirDeliveryItemConfirm(r, L, i) \/ BrigadirDeliveryItemsConfirmAll(r, L, i)
    \/ wareOutcomeApplyTx(r)
    \/ brigadirDeliveryItemConfirmTx(r)
    \/ BrigadirCommit(r)
    \/ Fail(r)

LineStep(r) ==
    \/ \E k \in Keys, change \in -MaxQuantity .. MaxQuantity : LinesBalanceRead(r, k, change)
    \/ LinesBalanceApplyChange(r)
    \/ Fail(r)

NoteStep(n) ==
    \/ \E S \in SUBSET Items, q \in [Items -> Quantities] : WareDeliveryNoteCreate(n, S, q)
    \/ \E q \in [Items -> Quantities] : WareDeliveryNoteItemsConfirmAll(n, q)
    \/ WareDeliveryNoteItemsUnconfirmAll(n)

ItemStep(i) ==
    \/ \E q \in Quantities :
          WareDeliveryNoteItemUpdateQuantity(i, q) \/ WareDeliveryNoteItemConfirm(i, q)
    \/ WareDeliveryNoteItemUnconfirm(i)
    \/ WareDeliveryNoteItemDelete(i)

Next ==
    \/ \E r \in Incomes : IncomeStep(r)
    \/ \E r \in Receivers : ReceiverStep(r)
    \/ \E r \in LineOps : LineStep(r)
    \/ \E n \in Notes : NoteStep(n)
    \/ \E i \in Items : ItemStep(i)

Spec == Init /\ [][Next]_vars

-----------------------------------------------------------------------------
(* Properties.                                                             *)

(* An item leaves the warehouse once, whoever receives it and however      *)
(* often it was made ready: ware.outcome and is_received agree.            *)
ReceivedOnce ==
    \A i \in Items : outcome[i] = IF item[i].received THEN 1 ELSE 0

(* What each step does to the stock is what it records in ware.income and  *)
(* ware.outcome, whatever overlaps it: all but an income that reads a      *)
(* stock, lets another change of it be committed, and writes over it.      *)
WareLedger ==
    [][\A c \in Components :
          \/ stock'[c] - stock[c] = wareNet'[c] - wareNet[c]
          \/ \E r \in Incomes : <<r, c>> \in overtaken \ overtaken']_vars

(* What each step does to the balance of a line is what it records in      *)
(* lines.balance_transactions: all but a change, or a delivery, that reads *)
(* a balance and writes over a change committed since.  Several items of   *)
(* one delivery add up.                                                    *)
LineLedger ==
    [][\A k \in Keys :
          \/ balance'[k] - balance[k] = lineNet'[k] - lineNet[k]
          \/ \E r \in LineOps \cup Receivers : <<r, k>> \in overtaken \ overtaken']_vars

Delivered == INSTANCE Handover WITH
    ware <- stock, line <- lineNet, received <- {i \in Items : item[i].received}

(* The locks make each delivery one step of Handover, however many items   *)
(* it has and whatever runs beside it.                                     *)
DeliveryIsHandover == Delivered!Spec
=============================================================================
