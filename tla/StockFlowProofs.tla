--------------------------- MODULE StockFlowProofs ---------------------------
(* What every number of notes, components, lines and requests satisfies.   *)
EXTENDS DoorPrint, FiniteSetTheorems, TLAPS

LEMMA ItemParts ==
    ASSUME NEW i \in Items
    PROVE  Comp(i) \in Components /\ Key(i) \in Keys
  BY DEF Items, Comp, Key, Keys

LEMMA OpTypes ==
    ASSUME NEW o \in Op
    PROVE  /\ o.pc = "income" => o \in IncomeOp
           /\ o.pc = "line" => o \in LineOp
           /\ o.pc \in {"receiving", "issued"} => o \in ReceiveOp
  BY DEF Op, Idle, IncomeOp, LineOp, ReceiveOp

LEMMA EndType ==
    ASSUME TypeOK, NEW r \in Requests, NEW X \in SUBSET (Components \cup Keys), End(r, X)
    PROVE  op' \in [Requests -> Op] /\ overtaken' \subseteq Requests \X (Components \cup Keys)
  <1>1. op' \in [Requests -> Op]
    BY DEF TypeOK, End, Op
  <1>2. overtaken' \subseteq overtaken \cup (Requests \X X)
    BY DEF End
  <1> QED
    BY <1>1, <1>2 DEF TypeOK

LEMMA BeginType ==
    ASSUME TypeOK, NEW r \in Requests, NEW o \in Op, Begin(r, o)
    PROVE  op' \in [Requests -> Op] /\ overtaken' \subseteq Requests \X (Components \cup Keys)
  BY DEF TypeOK, Begin

-----------------------------------------------------------------------------
(* Types.                                                                  *)

LEMMA IncomeType ==
    ASSUME StockFlowAssumption, TypeOK, NEW r \in Incomes, IncomeStep(r)
    PROVE  TypeOK'
  <1>r. r \in Requests
    BY DEF Requests
  <1>1. ASSUME NEW c \in Components, NEW q \in Quantities, WareIncomeRead(r, c, q)
        PROVE  TypeOK'
    <2> DEFINE o == [pc |-> "income", comp |-> c, quantity |-> q, after |-> stock[c] + q]
    <2>1. o \in Op
      BY <1>1 DEF WareIncomeRead, Op, IncomeOp, TypeOK, Quantities, StockFlowAssumption
    <2>2. Begin(r, o)
      BY <1>1 DEF WareIncomeRead
    <2>3. op' \in [Requests -> Op] /\ overtaken' \subseteq Requests \X (Components \cup Keys)
      BY <1>r, <2>1, <2>2, BeginType
    <2> QED
      BY <1>1, <2>3 DEF WareIncomeRead, TypeOK, ware, lines
  <1>2. CASE WareIncomeApply(r)
    <2>1. op[r] \in IncomeOp
      BY <1>2, <1>r, OpTypes DEF WareIncomeApply, TypeOK
    <2>2. /\ op[r].comp \in Components /\ op[r].after \in 0 .. MaxStock
          /\ op[r].quantity \in Int
      BY <2>1 DEF IncomeOp, Quantities
    <2>3. End(r, {op[r].comp}) /\ {op[r].comp} \in SUBSET (Components \cup Keys)
      BY <1>2, <2>2 DEF WareIncomeApply
    <2>5. op' \in [Requests -> Op] /\ overtaken' \subseteq Requests \X (Components \cup Keys)
      BY <1>r, <2>3, EndType
    <2>4. stock' \in [Components -> 0 .. MaxStock] /\ wareNet' \in [Components -> Int]
      BY <1>2, <2>2 DEF WareIncomeApply, TypeOK
    <2> QED
      BY <1>2, <2>4, <2>5 DEF WareIncomeApply, TypeOK, lines
  <1>3. CASE Fail(r)
    <2>1. op' \in [Requests -> Op] /\ overtaken' \subseteq Requests \X (Components \cup Keys)
      BY <1>3, <1>r, EndType DEF Fail
    <2> QED
      BY <1>3, <2>1 DEF Fail, TypeOK, ware, lines
  <1> QED
    BY <1>1, <1>2, <1>3 DEF IncomeStep

LEMMA LineType ==
    ASSUME StockFlowAssumption, TypeOK, NEW r \in LineOps, LineStep(r)
    PROVE  TypeOK'
  <1>r. r \in Requests
    BY DEF Requests
  <1>1. ASSUME NEW k \in Keys, NEW change \in -MaxQuantity .. MaxQuantity,
               LinesBalanceRead(r, k, change)
        PROVE  TypeOK'
    <2> DEFINE o == [pc |-> "line", key |-> k, change |-> change, after |-> balance[k] + change]
    <2>1. o \in Op
      BY <1>1 DEF LinesBalanceRead, Op, LineOp
    <2>2. Begin(r, o)
      BY <1>1 DEF LinesBalanceRead
    <2>3. op' \in [Requests -> Op] /\ overtaken' \subseteq Requests \X (Components \cup Keys)
      BY <1>r, <2>1, <2>2, BeginType
    <2> QED
      BY <1>1, <2>3 DEF LinesBalanceRead, TypeOK, ware, lines
  <1>2. CASE LinesBalanceApplyChange(r)
    <2>1. op[r] \in LineOp
      BY <1>2, <1>r, OpTypes DEF LinesBalanceApplyChange, TypeOK
    <2>2. op[r].key \in Keys /\ op[r].after \in 0 .. MaxStock /\ op[r].change \in Int
      BY <2>1 DEF LineOp, StockFlowAssumption
    <2>3. End(r, {op[r].key}) /\ {op[r].key} \in SUBSET (Components \cup Keys)
      BY <1>2, <2>2 DEF LinesBalanceApplyChange
    <2>5. op' \in [Requests -> Op] /\ overtaken' \subseteq Requests \X (Components \cup Keys)
      BY <1>r, <2>3, EndType
    <2>4. balance' \in [Keys -> 0 .. MaxStock] /\ lineNet' \in [Keys -> Int]
      BY <1>2, <2>2 DEF LinesBalanceApplyChange, TypeOK
    <2> QED
      BY <1>2, <2>4, <2>5 DEF LinesBalanceApplyChange, TypeOK, ware
  <1>3. CASE Fail(r)
    <2>1. op' \in [Requests -> Op] /\ overtaken' \subseteq Requests \X (Components \cup Keys)
      BY <1>3, <1>r, EndType DEF Fail
    <2> QED
      BY <1>3, <2>1 DEF Fail, TypeOK, ware, lines
  <1> QED
    BY <1>1, <1>2, <1>3 DEF LineStep

LEMMA ReceiveType ==
    ASSUME TypeOK, NEW r \in Requests, Receiving(r)
    PROVE  /\ op[r].left \in SUBSET Items /\ op[r].done \in SUBSET Items /\ op[r].at \in Items
           /\ op[r].read \in 0 .. MaxStock
           /\ op[r].stock \in [Components -> 0 .. MaxStock]
           /\ op[r].issued \in [Components -> Nat]
           /\ op[r].balance \in [Keys -> 0 .. MaxStock]
           /\ op[r].entered \in [Keys -> Nat]
           /\ op[r] \in ReceiveOp
  <1>1. op[r] \in ReceiveOp
    BY OpTypes DEF TypeOK, Receiving
  <1> QED
    BY <1>1 DEF ReceiveOp

LEMMA SeenType ==
    ASSUME TypeOK, NEW r \in Requests, Receiving(r), NEW k \in Keys
    PROVE  BalanceSeen(r, k) \in 0 .. MaxStock
  BY ReceiveType DEF BalanceSeen, TypeOK

LEMMA IssueType ==
    ASSUME StockFlowAssumption, TypeOK, NEW r \in Requests, wareOutcomeApplyTx(r)
    PROVE  op' \in [Requests -> Op]
  <1>1. Receiving(r)
    BY DEF wareOutcomeApplyTx, Receiving
  <1>2. PICK i \in op[r].left :
           /\ Sufficient(r, i)
           /\ op' = [op EXCEPT ![r].pc = "issued", ![r].at = i,
                               ![r].left = @ \ {i}, ![r].done = @ \cup {i},
                               ![r].stock[Comp(i)] = @ - item[i].quantity,
                               ![r].issued[Comp(i)] = @ + item[i].quantity,
                               ![r].read = BalanceSeen(r, Key(i))]
    BY DEF wareOutcomeApplyTx
  <1>3. i \in Items /\ Comp(i) \in Components /\ Key(i) \in Keys
    BY <1>1, ReceiveType, ItemParts
  <1>4. item[i].quantity \in Nat
    BY <1>3 DEF TypeOK, ItemRows, StockFlowAssumption
  <1>5. [op[r].stock EXCEPT ![Comp(i)] = @ - item[i].quantity] \in [Components -> 0 .. MaxStock]
    BY <1>1, <1>2, <1>3, <1>4, ReceiveType DEF Sufficient, StockFlowAssumption
  <1>6. [op[r].issued EXCEPT ![Comp(i)] = @ + item[i].quantity] \in [Components -> Nat]
    BY <1>1, <1>3, <1>4, ReceiveType
  <1>7. BalanceSeen(r, Key(i)) \in 0 .. MaxStock
    BY <1>1, <1>3, SeenType
  <1>8. op'[r] \in ReceiveOp
    <2> DEFINE s == [op[r].stock EXCEPT ![Comp(i)] = @ - item[i].quantity]
               m == [op[r].issued EXCEPT ![Comp(i)] = @ + item[i].quantity]
               b == BalanceSeen(r, Key(i))
    <2>1. op'[r] = [op[r] EXCEPT !.pc = "issued", !.at = i,
                                 !.left = @ \ {i}, !.done = @ \cup {i},
                                 !.stock = s, !.issued = m, !.read = b]
      BY <1>2 DEF TypeOK
    <2>2. s \in [Components -> 0 .. MaxStock] /\ m \in [Components -> Nat] /\ b \in 0 .. MaxStock
      BY <1>5, <1>6, <1>7
    <2>3. op[r].left \ {i} \in SUBSET Items /\ op[r].done \cup {i} \in SUBSET Items
      BY <1>1, <1>3, ReceiveType
    <2>4. op[r] \in ReceiveOp
      BY <1>1, ReceiveType
    <2> HIDE DEF s, m, b
    <2> QED
      BY <1>3, <2>1, <2>2, <2>3, <2>4 DEF ReceiveOp
  <1>9. op \in [Requests -> Op]
    BY DEF TypeOK
  <1> QED
    BY <1>2, <1>8, <1>9 DEF Op

LEMMA WriteType ==
    ASSUME StockFlowAssumption, TypeOK, NEW r \in Requests, brigadirDeliveryItemConfirmTx(r)
    PROVE  op' \in [Requests -> Op]
  <1> DEFINE i == op[r].at
             k == Key(i)
  <1>1. Receiving(r)
    BY DEF brigadirDeliveryItemConfirmTx, Receiving
  <1>2. /\ op[r].read + item[i].quantity <= MaxStock
        /\ op' = [op EXCEPT ![r].pc = "receiving",
                            ![r].balance[k] = op[r].read + item[i].quantity,
                            ![r].entered[k] = @ + item[i].quantity]
    BY DEF brigadirDeliveryItemConfirmTx
  <1>3. i \in Items /\ k \in Keys
    BY <1>1, ReceiveType, ItemParts
  <1>4. item[i].quantity \in Nat
    BY <1>3 DEF TypeOK, ItemRows, StockFlowAssumption
  <1>5. [op[r].balance EXCEPT ![k] = op[r].read + item[i].quantity] \in [Keys -> 0 .. MaxStock]
    BY <1>1, <1>2, <1>3, <1>4, ReceiveType DEF StockFlowAssumption
  <1>6. [op[r].entered EXCEPT ![k] = @ + item[i].quantity] \in [Keys -> Nat]
    BY <1>1, <1>3, <1>4, ReceiveType
  <1>7. op'[r] \in ReceiveOp
    <2> DEFINE b == [op[r].balance EXCEPT ![k] = op[r].read + item[i].quantity]
               e == [op[r].entered EXCEPT ![k] = @ + item[i].quantity]
    <2>1. op'[r] = [op[r] EXCEPT !.pc = "receiving", !.balance = b, !.entered = e]
      BY <1>2 DEF TypeOK
    <2>2. b \in [Keys -> 0 .. MaxStock] /\ e \in [Keys -> Nat]
      BY <1>5, <1>6
    <2> HIDE DEF b, e
    <2> QED
      BY <1>1, <2>1, <2>2, ReceiveType DEF ReceiveOp
  <1>8. op' = [op EXCEPT ![r] = op'[r]]
    BY <1>2 DEF TypeOK
  <1> QED
    BY <1>7, <1>8 DEF TypeOK, Op

LEMMA DeliveryBegins ==
    ASSUME NEW r \in Receivers, NEW L \in SUBSET Lines, NEW i \in Items,
           BrigadirDeliveryItemConfirm(r, L, i) \/ BrigadirDeliveryItemsConfirmAll(r, L, i)
    PROVE  \E S \in SUBSET Pending(L) : Receive(r, S, i)
  BY DEF BrigadirDeliveryItemConfirm, BrigadirDeliveryItemsConfirmAll

LEMMA ReceiverType ==
    ASSUME StockFlowAssumption, TypeOK, NEW r \in Receivers, ReceiverStep(r)
    PROVE  TypeOK'
  <1>r. r \in Requests
    BY DEF Requests
  <1>1. ASSUME NEW L \in SUBSET Lines, NEW i \in Items,
               BrigadirDeliveryItemConfirm(r, L, i) \/ BrigadirDeliveryItemsConfirmAll(r, L, i)
        PROVE  TypeOK'
    <2>1. PICK S \in SUBSET Pending(L) : Receive(r, S, i)
      BY <1>1, DeliveryBegins
    <2>2. S \in SUBSET Items
      BY DEF Pending
    <2> DEFINE o == [pc |-> "receiving", left |-> S, done |-> {}, at |-> i, read |-> 0,
                     stock |-> stock, issued |-> [c \in Components |-> 0],
                     balance |-> balance, entered |-> [k \in Keys |-> 0]]
    <2>3. Begin(r, o)
      BY <2>1 DEF Receive
    <2>4. o \in Op
      BY <2>2 DEF Op, ReceiveOp, TypeOK, StockFlowAssumption
    <2>5. op' \in [Requests -> Op] /\ overtaken' \subseteq Requests \X (Components \cup Keys)
      BY <1>r, <2>3, <2>4, BeginType
    <2> QED
      BY <2>1, <2>5 DEF Receive, TypeOK, ware, lines
  <1>2. CASE wareOutcomeApplyTx(r)
    <2>1. op' \in [Requests -> Op]
      BY <1>2, <1>r, IssueType
    <2> QED
      BY <1>2, <2>1 DEF wareOutcomeApplyTx, TypeOK, ware, lines
  <1>3. CASE brigadirDeliveryItemConfirmTx(r)
    <2>1. op' \in [Requests -> Op]
      BY <1>3, <1>r, WriteType
    <2> QED
      BY <1>3, <2>1 DEF brigadirDeliveryItemConfirmTx, TypeOK, ware, lines
  <1>4. CASE BrigadirCommit(r)
    <2>0. Receiving(r)
      BY <1>4 DEF BrigadirCommit, Receiving
    <2>1. op' \in [Requests -> Op] /\ overtaken' \subseteq Requests \X (Components \cup Keys)
      BY <1>4, <1>r, EndType DEF BrigadirCommit
    <2>2. stock' \in [Components -> 0 .. MaxStock]
      BY <1>4, <1>r, <2>0, ReceiveType DEF BrigadirCommit, TypeOK
    <2>3. wareNet' \in [Components -> Int]
      BY <1>4, <1>r, <2>0, ReceiveType DEF BrigadirCommit, TypeOK
    <2>4. balance' \in [Keys -> 0 .. MaxStock]
      BY <1>4, <1>r, <2>0, SeenType DEF BrigadirCommit
    <2>5. lineNet' \in [Keys -> Int]
      BY <1>4, <1>r, <2>0, ReceiveType DEF BrigadirCommit, TypeOK
    <2>6. outcome' \in [Items -> Nat]
      BY <1>4 DEF BrigadirCommit, TypeOK
    <2>7. item' \in [Items -> ItemRows]
      BY <1>4 DEF BrigadirCommit, TypeOK, ItemRows
    <2> QED
      BY <2>1, <2>2, <2>3, <2>4, <2>5, <2>6, <2>7 DEF TypeOK
  <1>5. CASE Fail(r)
    <2>1. op' \in [Requests -> Op] /\ overtaken' \subseteq Requests \X (Components \cup Keys)
      BY <1>5, <1>r, EndType DEF Fail
    <2> QED
      BY <1>5, <2>1 DEF Fail, TypeOK, ware, lines
  <1> QED
    BY <1>1, <1>2, <1>3, <1>4, <1>5 DEF ReceiverStep

LEMMA ReadyRow ==
    ASSUME StockFlowAssumption, TypeOK, NEW i \in Items, NEW q \in Quantities
    PROVE  Ready(i, q) \in ItemRows
  BY DEF Ready, TypeOK, ItemRows, Quantities, StockFlowAssumption

LEMMA NoteType ==
    ASSUME StockFlowAssumption, TypeOK, NEW n \in Notes, NoteStep(n)
    PROVE  TypeOK'
  <1>1. ASSUME NEW S \in SUBSET Items, NEW q \in [Items -> Quantities],
               WareDeliveryNoteCreate(n, S, q)
        PROVE  TypeOK'
    <2>1. item' \in [Items -> ItemRows]
      BY <1>1 DEF WareDeliveryNoteCreate, TypeOK, ItemRows, Quantities, StockFlowAssumption
    <2> QED
      BY <1>1, <2>1 DEF WareDeliveryNoteCreate, TypeOK, ware, lines
  <1>2. ASSUME NEW q \in [Items -> Quantities], WareDeliveryNoteItemsConfirmAll(n, q)
        PROVE  TypeOK'
    <2>1. item' \in [Items -> ItemRows]
      <3>1. \A i \in Items : Ready(i, q[i]) \in ItemRows
        BY ReadyRow
      <3>2. item' = [i \in Items |-> IF i \in OpenItems(n) THEN Ready(i, q[i]) ELSE item[i]]
        BY <1>2 DEF WareDeliveryNoteItemsConfirmAll
      <3> QED
        BY <3>1, <3>2 DEF TypeOK
    <2> QED
      BY <1>2, <2>1 DEF WareDeliveryNoteItemsConfirmAll, TypeOK, ware, lines
  <1>3. CASE WareDeliveryNoteItemsUnconfirmAll(n)
    <2>1. \A i \in Items : [item[i] EXCEPT !.state = "open"] \in ItemRows
      BY DEF TypeOK, ItemRows
    <2>2. item' \in [Items -> ItemRows]
      BY <1>3, <2>1 DEF WareDeliveryNoteItemsUnconfirmAll, TypeOK
    <2> QED
      BY <1>3, <2>2 DEF WareDeliveryNoteItemsUnconfirmAll, TypeOK, ware, lines
  <1> QED
    BY <1>1, <1>2, <1>3 DEF NoteStep

LEMMA ItemType ==
    ASSUME StockFlowAssumption, TypeOK, NEW i \in Items, ItemStep(i)
    PROVE  TypeOK'
  <1>1. ASSUME NEW row \in ItemRows, item' = [item EXCEPT ![i] = row], UNCHANGED <<ware, lines, op, overtaken>>
        PROVE  TypeOK'
    BY <1>1 DEF TypeOK, ware, lines
  <1>2. item[i] \in ItemRows
    BY DEF TypeOK
  <1>3. ASSUME NEW q \in Quantities, WareDeliveryNoteItemUpdateQuantity(i, q)
        PROVE  TypeOK'
    <2>1. [item[i] EXCEPT !.quantity = q] \in ItemRows
      BY <1>2 DEF ItemRows, Quantities, StockFlowAssumption
    <2> QED
      BY <1>1, <1>3, <2>1 DEF WareDeliveryNoteItemUpdateQuantity
  <1>4. ASSUME NEW q \in Quantities, WareDeliveryNoteItemConfirm(i, q)
        PROVE  TypeOK'
    <2>1. Ready(i, q) \in ItemRows
      BY ReadyRow
    <2> QED
      BY <1>1, <1>4, <2>1 DEF WareDeliveryNoteItemConfirm
  <1>5. CASE WareDeliveryNoteItemUnconfirm(i)
    <2>1. [item[i] EXCEPT !.state = "open"] \in ItemRows
      BY <1>2 DEF ItemRows
    <2> QED
      BY <1>1, <1>5, <2>1 DEF WareDeliveryNoteItemUnconfirm
  <1>6. CASE WareDeliveryNoteItemDelete(i)
    <2>1. [item[i] EXCEPT !.state = "deleted"] \in ItemRows
      BY <1>2 DEF ItemRows
    <2> QED
      BY <1>1, <1>6, <2>1 DEF WareDeliveryNoteItemDelete
  <1> QED
    BY <1>3, <1>4, <1>5, <1>6 DEF ItemStep

(* No sequence of movements, lost updates included, takes a stock or a     *)
(* balance below zero, and every table row is one the schema allows.       *)
THEOREM TypeCorrect == Spec => []TypeOK
  <1>1. Init => TypeOK
    BY StockFlowAssumption DEF Init, TypeOK, NoItem, ItemRows, Op, StockFlowAssumption
  <1>2. TypeOK /\ [Next]_vars => TypeOK'
    <2> SUFFICES ASSUME TypeOK, [Next]_vars
                 PROVE  TypeOK'
      OBVIOUS
    <2>1. CASE UNCHANGED vars
      BY <2>1 DEF vars, TypeOK
    <2> QED
      BY <2>1, StockFlowAssumption, IncomeType, LineType, ReceiverType, NoteType, ItemType
         DEF Next
  <1> QED
    BY <1>1, <1>2, PTL DEF Spec

-----------------------------------------------------------------------------
(* Deliveries exclude each other.                                          *)

FreshItems == \A i \in Items : item[i].state = "none" => item[i].received = FALSE

(* What a delivery holds is ready and not received, and no other delivery  *)
(* holds it: the rows are locked from the look-up to the commit.           *)
HeldReady ==
    \A r \in Receivers : Receiving(r) =>
        \A i \in HeldItems(r) : item[i].state = "ready" /\ item[i].received = FALSE

Exclusive ==
    \A r, s \in Receivers : r # s /\ Receiving(r) /\ Receiving(s) =>
        \A i \in HeldItems(r) : i \notin HeldItems(s)

Inv == TypeOK /\ ReceivedOnce /\ FreshItems /\ HeldReady /\ Exclusive

OnceInv == ReceivedOnce /\ FreshItems /\ HeldReady /\ Exclusive

(* A step of a request that touches no item and holds what it held.        *)
LEMMA SameHeld ==
    ASSUME Inv, item' = item, outcome' = outcome,
           \A r \in Receivers : Receiving(r)' => Receiving(r) /\ HeldItems(r)' = HeldItems(r)
    PROVE  OnceInv'
  <1>1. (ReceivedOnce /\ FreshItems)'
    BY DEF Inv, ReceivedOnce, FreshItems
  <1>2. HeldReady'
    BY DEF Inv, HeldReady
  <1>3. Exclusive'
    BY DEF Inv, Exclusive
  <1> QED
    BY <1>1, <1>2, <1>3 DEF OnceInv

LEMMA EndHeld ==
    ASSUME Inv, NEW r \in Requests, NEW X, End(r, X)
    PROVE  \A s \in Receivers : Receiving(s)' => Receiving(s) /\ HeldItems(s)' = HeldItems(s) /\ s # r
  BY DEF Inv, TypeOK, End, Idle, Receiving, HeldItems, Requests

(* A step that changes items nobody holds, and receives none.              *)
Rewritten(i) ==
    \/ item'[i] = item[i]
    \/ /\ ItemUnlocked(i) \/ item[i].state # "ready"
       /\ item'[i].received = item[i].received
       /\ item'[i].state # "none"
       /\ \/ item'[i].quantity \in Quantities
          \/ item[i].state # "none" /\ item'[i].quantity = item[i].quantity

LEMMA OtherItems ==
    ASSUME Inv, op' = op, outcome' = outcome, \A i \in Items : Rewritten(i)
    PROVE  OnceInv'
  <1>1. \A r \in Receivers : Receiving(r)' = Receiving(r) /\ HeldItems(r)' = HeldItems(r)
    BY DEF Receiving, HeldItems
  <1>2. \A r \in Receivers : Receiving(r) => HeldItems(r) \subseteq Items
    BY ReceiveType DEF Inv, HeldItems, Requests
  <1>3. (ReceivedOnce /\ FreshItems)'
    BY DEF Inv, ReceivedOnce, FreshItems, Rewritten
  <1>4. \A r \in Receivers : Receiving(r) => \A i \in HeldItems(r) : item'[i] = item[i]
    BY <1>2 DEF Inv, HeldReady, ItemUnlocked, Rewritten
  <1>5. HeldReady'
    BY <1>1, <1>4 DEF Inv, HeldReady
  <1>6. Exclusive'
    BY <1>1 DEF Inv, Exclusive
  <1> QED
    BY <1>3, <1>5, <1>6 DEF OnceInv

LEMMA NoteRewrites ==
    ASSUME Inv, NEW n \in Notes, NoteStep(n)
    PROVE  op' = op /\ UNCHANGED <<ware, lines>> /\ \A i \in Items : Rewritten(i)
  <1>1. ASSUME NEW S \in SUBSET Items, NEW q \in [Items -> Quantities],
               WareDeliveryNoteCreate(n, S, q)
        PROVE  \A i \in Items : Rewritten(i)
    <2>1. \A i \in Items : \/ item'[i] = item[i]
                            \/ /\ item[i].state = "none"
                               /\ item'[i].received = FALSE
                               /\ item'[i].state = "open"
                               /\ item'[i].quantity = q[i]
      BY <1>1 DEF WareDeliveryNoteCreate
    <2> QED
      BY <2>1 DEF Inv, FreshItems, Rewritten
  <1>2. ASSUME NEW q \in [Items -> Quantities], WareDeliveryNoteItemsConfirmAll(n, q)
        PROVE  \A i \in Items : Rewritten(i)
    <2>1. \A i \in Items : \/ item'[i] = item[i]
                            \/ /\ ItemUnlocked(i)
                               /\ item'[i].received = item[i].received
                               /\ item'[i].state = "ready"
                               /\ item'[i].quantity = q[i]
      BY <1>2 DEF WareDeliveryNoteItemsConfirmAll, Ready
    <2> QED
      BY <2>1 DEF Rewritten
  <1>3. ASSUME WareDeliveryNoteItemsUnconfirmAll(n)
        PROVE  \A i \in Items : Rewritten(i)
    <2>1. \A i \in Items : \/ item'[i] = item[i]
                            \/ /\ ItemUnlocked(i) /\ item[i].state = "ready"
                               /\ item'[i] = [item[i] EXCEPT !.state = "open"]
      BY <1>3 DEF WareDeliveryNoteItemsUnconfirmAll
    <2>2. \A i \in Items : /\ [item[i] EXCEPT !.state = "open"].received = item[i].received
                            /\ [item[i] EXCEPT !.state = "open"].quantity = item[i].quantity
                            /\ [item[i] EXCEPT !.state = "open"].state = "open"
      BY DEF Inv, TypeOK, ItemRows
    <2>3. \A i \in Items : \/ item'[i] = item[i]
                            \/ /\ ItemUnlocked(i) /\ item[i].state = "ready"
                               /\ item'[i].received = item[i].received
                               /\ item'[i].quantity = item[i].quantity
                               /\ item'[i].state = "open"
      BY <2>1, <2>2
    <2> QED
      BY <2>3 DEF Rewritten
  <1>4. op' = op /\ UNCHANGED <<ware, lines>>
    BY DEF NoteStep, WareDeliveryNoteCreate, WareDeliveryNoteItemsConfirmAll,
       WareDeliveryNoteItemsUnconfirmAll
  <1> QED
    BY <1>1, <1>2, <1>3, <1>4 DEF NoteStep

LEMMA ItemRewrites ==
    ASSUME Inv, NEW i \in Items, ItemStep(i)
    PROVE  op' = op /\ UNCHANGED <<ware, lines>> /\ \A j \in Items : Rewritten(j)
  <1>1. ASSUME NEW row, item' = [item EXCEPT ![i] = row],
               ItemUnlocked(i) \/ item[i].state # "ready",
               row.received = item[i].received, row.state # "none",
               \/ row.quantity \in Quantities
               \/ item[i].state # "none" /\ row.quantity = item[i].quantity
        PROVE  \A j \in Items : Rewritten(j)
    <2>1. \A j \in Items : item'[j] = item[j] \/ (j = i /\ item'[j] = row)
      BY <1>1 DEF Inv, TypeOK
    <2> QED
      BY <1>1, <2>1 DEF Rewritten
  <1>2. item[i] \in ItemRows
    BY DEF Inv, TypeOK
  <1>3. ASSUME NEW q \in Quantities, WareDeliveryNoteItemUpdateQuantity(i, q)
        PROVE  \A j \in Items : Rewritten(j)
    <2> DEFINE row == [item[i] EXCEPT !.quantity = q]
    <2>1. row.received = item[i].received /\ row.state = item[i].state /\ row.quantity = q
      BY <1>2 DEF ItemRows
    <2>2. item' = [item EXCEPT ![i] = row] /\ item[i].state = "open"
      BY <1>3 DEF WareDeliveryNoteItemUpdateQuantity
    <2> HIDE DEF row
    <2> QED
      BY <1>1, <2>1, <2>2
  <1>4. ASSUME NEW q \in Quantities, WareDeliveryNoteItemConfirm(i, q)
        PROVE  \A j \in Items : Rewritten(j)
    <2> DEFINE row == Ready(i, q)
    <2>1. row.received = item[i].received /\ row.state = "ready" /\ row.quantity = q
      BY DEF Ready
    <2>2. item' = [item EXCEPT ![i] = row] /\ item[i].state = "open"
      BY <1>4 DEF WareDeliveryNoteItemConfirm
    <2> HIDE DEF row
    <2> QED
      BY <1>1, <2>1, <2>2
  <1>5. ASSUME WareDeliveryNoteItemUnconfirm(i)
        PROVE  \A j \in Items : Rewritten(j)
    <2> DEFINE row == [item[i] EXCEPT !.state = "open"]
    <2>1. row.received = item[i].received /\ row.state = "open" /\ row.quantity = item[i].quantity
      BY <1>2 DEF ItemRows
    <2>2. /\ item' = [item EXCEPT ![i] = row]
          /\ item[i].state = "ready" /\ ItemUnlocked(i)
      BY <1>5 DEF WareDeliveryNoteItemUnconfirm
    <2> HIDE DEF row
    <2> QED
      BY <1>1, <2>1, <2>2
  <1>6. ASSUME WareDeliveryNoteItemDelete(i)
        PROVE  \A j \in Items : Rewritten(j)
    <2> DEFINE row == [item[i] EXCEPT !.state = "deleted"]
    <2>1. row.received = item[i].received /\ row.state = "deleted" /\ row.quantity = item[i].quantity
      BY <1>2 DEF ItemRows
    <2>2. /\ item' = [item EXCEPT ![i] = row]
          /\ item[i].state = "open"
      BY <1>6 DEF WareDeliveryNoteItemDelete
    <2> HIDE DEF row
    <2> QED
      BY <1>1, <2>1, <2>2
  <1>7. op' = op /\ UNCHANGED <<ware, lines>>
    BY DEF ItemStep, WareDeliveryNoteItemUpdateQuantity, WareDeliveryNoteItemConfirm,
       WareDeliveryNoteItemUnconfirm, WareDeliveryNoteItemDelete
  <1> QED
    BY <1>3, <1>4, <1>5, <1>6, <1>7 DEF ItemStep

LEMMA NotesOnce ==
    ASSUME Inv, (\E n \in Notes : NoteStep(n)) \/ \E i \in Items : ItemStep(i)
    PROVE  OnceInv'
  BY NoteRewrites, ItemRewrites, OtherItems DEF ware

(* The requests that do not receive.                                       *)
LEMMA OthersOnce ==
    ASSUME StockFlowAssumption, Inv, NEW r \in Incomes \cup LineOps, IncomeStep(r) \/ LineStep(r)
    PROVE  OnceInv'
  <1>1. item' = item /\ outcome' = outcome
    BY DEF IncomeStep, LineStep, WareIncomeRead, WareIncomeApply, LinesBalanceRead,
           LinesBalanceApplyChange, Fail, ware, lines
  <1>2. \A s \in Receivers : op'[s] = op[s]
    <2>1. r \notin Receivers /\ r \in Requests
      BY DEF StockFlowAssumption, Requests
    <2>2. \E o : op' = [op EXCEPT ![r] = o]
      BY DEF IncomeStep, LineStep, WareIncomeRead, WareIncomeApply, LinesBalanceRead,
             LinesBalanceApplyChange, Fail, Begin, End
    <2> QED
      BY <2>1, <2>2 DEF Inv, TypeOK, Requests
  <1> QED
    BY <1>1, <1>2, SameHeld DEF Receiving, HeldItems

LEMMA ReceiverOnce ==
    ASSUME StockFlowAssumption, Inv, NEW r \in Receivers, ReceiverStep(r)
    PROVE  OnceInv'
  <1>r. r \in Requests
    BY DEF Requests
  <1>1. ASSUME NEW L \in SUBSET Lines, NEW i \in Items,
               BrigadirDeliveryItemConfirm(r, L, i) \/ BrigadirDeliveryItemsConfirmAll(r, L, i)
        PROVE  OnceInv'
    <2>0. PICK S \in SUBSET Pending(L) : Receive(r, S, i)
      BY <1>1, DeliveryBegins
    <2>1. /\ Lockable(S)
          /\ Begin(r, [pc |-> "receiving", left |-> S, done |-> {}, at |-> i, read |-> 0,
                       stock |-> stock, issued |-> [c \in Components |-> 0],
                       balance |-> balance, entered |-> [k \in Keys |-> 0]])
      BY <2>0 DEF Receive
    <2>2. \A j \in S : j \in Pending(L)
      OBVIOUS
    <2>3. ~Receiving(r) /\ op'[r].left = S /\ op'[r].done = {}
      BY <1>r, <2>1 DEF Begin, Inv, TypeOK, Idle, Receiving
    <2>4. \A s \in Receivers : s # r => op'[s] = op[s]
      BY <2>1 DEF Begin, Inv, TypeOK
    <2>5. HeldItems(r)' = S
      BY <2>3 DEF HeldItems
    <2>6. \A s \in Receivers : s # r =>
             Receiving(s)' = Receiving(s) /\ HeldItems(s)' = HeldItems(s)
      BY <2>4 DEF Receiving, HeldItems
    <2>7. item' = item /\ outcome' = outcome
      BY <2>0 DEF Receive, ware
    <2>8. \A j \in S : j \in Items /\ item[j].state = "ready" /\ item[j].received = FALSE
      BY <2>2 DEF Pending, Inv, TypeOK, ItemRows
    <2>9. \A j \in S : \A s \in Receivers : Receiving(s) => j \notin HeldItems(s)
      BY <2>1 DEF Lockable, ItemUnlocked
    <2>10. (ReceivedOnce /\ FreshItems)'
      BY <2>7 DEF Inv, ReceivedOnce, FreshItems
    <2>11. HeldReady'
      BY <2>5, <2>6, <2>7, <2>8 DEF Inv, HeldReady
    <2>12. Exclusive'
      BY <2>5, <2>6, <2>9 DEF Inv, Exclusive
    <2> QED
      BY <2>10, <2>11, <2>12 DEF OnceInv
  <1>2. CASE wareOutcomeApplyTx(r)
    <2>0. Receiving(r)
      BY <1>2 DEF wareOutcomeApplyTx, Receiving
    <2>1. PICK i \in op[r].left :
             op' = [op EXCEPT ![r].pc = "issued", ![r].at = i,
                              ![r].left = @ \ {i}, ![r].done = @ \cup {i},
                              ![r].stock[Comp(i)] = @ - item[i].quantity,
                              ![r].issued[Comp(i)] = @ + item[i].quantity,
                              ![r].read = BalanceSeen(r, Key(i))]
      BY <1>2 DEF wareOutcomeApplyTx
    <2>2. op[r] \in ReceiveOp
      BY <1>r, <2>0, ReceiveType DEF Inv
    <2>3. op'[r].left = op[r].left \ {i} /\ op'[r].done = op[r].done \cup {i}
      BY <1>r, <2>1, <2>2 DEF Inv, TypeOK, ReceiveOp
    <2>4. \A s \in Receivers : s # r => op'[s] = op[s]
      <3>1. op \in [Requests -> Op] /\ \A s \in Receivers : s \in Requests
        BY DEF Inv, TypeOK, Requests
      <3> QED
        BY <2>1, <3>1
    <2>5. HeldItems(r)' = HeldItems(r)
      BY <2>1, <2>3 DEF HeldItems
    <2>6. item' = item /\ outcome' = outcome
      BY <1>2 DEF wareOutcomeApplyTx, ware
    <2>7. \A s \in Receivers : Receiving(s)' => Receiving(s) /\ HeldItems(s)' = HeldItems(s)
      BY <2>0, <2>4, <2>5 DEF Receiving, HeldItems
    <2> QED
      BY <2>6, <2>7, SameHeld
  <1>3. CASE brigadirDeliveryItemConfirmTx(r)
    <2>0. Receiving(r)
      BY <1>3 DEF brigadirDeliveryItemConfirmTx, Receiving
    <2>2. op[r] \in ReceiveOp
      BY <1>r, <2>0, ReceiveType DEF Inv
    <2>3. op'[r].left = op[r].left /\ op'[r].done = op[r].done
      BY <1>r, <1>3, <2>2 DEF brigadirDeliveryItemConfirmTx, Inv, TypeOK, ReceiveOp
    <2>4. \A s \in Receivers : s # r => op'[s] = op[s]
      <3>1. op \in [Requests -> Op] /\ \A s \in Receivers : s \in Requests
        BY DEF Inv, TypeOK, Requests
      <3> QED
        BY <1>3, <3>1 DEF brigadirDeliveryItemConfirmTx
    <2>6. item' = item /\ outcome' = outcome
      BY <1>3 DEF brigadirDeliveryItemConfirmTx, ware
    <2>7. \A s \in Receivers : Receiving(s)' => Receiving(s) /\ HeldItems(s)' = HeldItems(s)
      BY <2>0, <2>3, <2>4 DEF Receiving, HeldItems
    <2> QED
      BY <2>6, <2>7, SameHeld
  <1>4. CASE BrigadirCommit(r)
    <2>0. Receiving(r)
      BY <1>4 DEF BrigadirCommit, Receiving
    <2>1. HeldItems(r) = op[r].done /\ op[r].done \subseteq Items
      BY <1>4, <1>r, <2>0, ReceiveType DEF BrigadirCommit, HeldItems, Inv
    <2>2. \A i \in Items : i \in op[r].done =>
             /\ outcome'[i] = outcome[i] + 1
             /\ item'[i] = [item[i] EXCEPT !.received = TRUE]
      BY <1>4 DEF BrigadirCommit
    <2>3. \A i \in Items : i \notin op[r].done => item'[i] = item[i] /\ outcome'[i] = outcome[i]
      BY <1>4 DEF BrigadirCommit
    <2>4. \A i \in Items : /\ [item[i] EXCEPT !.received = TRUE].received
                            /\ [item[i] EXCEPT !.received = TRUE].state = item[i].state
      BY DEF Inv, TypeOK, ItemRows
    <2>5. \A i \in op[r].done : item[i].state = "ready" /\ item[i].received = FALSE
      BY <2>0, <2>1 DEF Inv, HeldReady
    <2>6. ReceivedOnce'
      <3>1. \A i \in op[r].done : outcome'[i] = 1 /\ item'[i].received
        <4>1. \A i \in op[r].done : outcome[i] = 0
          BY <2>1, <2>5 DEF Inv, ReceivedOnce
        <4>2. \A i \in op[r].done : outcome'[i] = 1
          <5>1. outcome' = [i \in Items |-> IF i \in op[r].done THEN outcome[i] + 1 ELSE outcome[i]]
            BY <1>4 DEF BrigadirCommit
          <5> QED
            BY <2>1, <4>1, <5>1
        <4>3. \A i \in op[r].done : item'[i].received
          BY <2>1, <2>2, <2>4, Zenon
        <4> QED
          BY <4>2, <4>3
      <3> QED
        BY <2>3, <3>1 DEF Inv, ReceivedOnce
    <2>7. FreshItems'
      BY <2>2, <2>3, <2>4, <2>5 DEF Inv, FreshItems
    <2>8. \A s \in Receivers : Receiving(s)' => Receiving(s) /\ HeldItems(s)' = HeldItems(s) /\ s # r
      BY <1>4, <1>r, EndHeld DEF BrigadirCommit
    <2>9. \A s \in Receivers : Receiving(s)' => \A i \in HeldItems(s) : i \in Items /\ i \notin op[r].done
      BY <2>0, <2>1, <2>8, ReceiveType DEF Inv, Exclusive, HeldItems, Requests
    <2>10. HeldReady'
      BY <2>3, <2>8, <2>9 DEF Inv, HeldReady
    <2>11. Exclusive'
      BY <2>8 DEF Inv, Exclusive
    <2> QED
      BY <2>6, <2>7, <2>10, <2>11 DEF OnceInv
  <1>5. CASE Fail(r)
    <2>1. item' = item /\ outcome' = outcome /\ End(r, {})
      BY <1>5 DEF Fail, ware
    <2> QED
      BY <1>r, <2>1, EndHeld, SameHeld
  <1> QED
    BY <1>1, <1>2, <1>3, <1>4, <1>5 DEF ReceiverStep

LEMMA OnceInvariant == Spec => []OnceInv
  <1>1. Init => OnceInv
    BY DEF Init, OnceInv, ReceivedOnce, FreshItems, HeldReady, Exclusive, NoItem, Idle,
           Receiving, Requests
  <1>2. TypeOK /\ OnceInv /\ [Next]_vars => OnceInv'
    <2> SUFFICES ASSUME TypeOK, OnceInv, [Next]_vars
                 PROVE  OnceInv'
      OBVIOUS
    <2>1. Inv
      BY DEF Inv, OnceInv
    <2>2. CASE UNCHANGED vars
      BY <2>1, <2>2, SameHeld DEF vars, Receiving, HeldItems
    <2> QED
      BY <2>1, <2>2, StockFlowAssumption, NotesOnce, OthersOnce, ReceiverOnce DEF Next
  <1> QED
    BY <1>1, <1>2, TypeCorrect, PTL DEF Spec

(* However the deliveries, confirmations and withdrawals of a note         *)
(* overlap, an item is issued from the warehouse at most once.             *)
THEOREM IssuedOnce == Spec => []ReceivedOnce
  <1>1. OnceInv => ReceivedOnce
    BY DEF OnceInv
  <1> QED
    BY <1>1, OnceInvariant, PTL

-----------------------------------------------------------------------------
(* What a delivery has written and not yet committed.                      *)

Holds(r, c) == \E i \in HeldItems(r) : Comp(i) = c

(* No two deliveries hold the stock of one component.                      *)
Apart ==
    \A r, s \in Receivers : r # s /\ Receiving(r) /\ Receiving(s) =>
        \A c \in Components : ~(Holds(r, c) /\ Holds(s, c))

(* A delivery writes the stock, and the balances, of what it holds.        *)
WritesHeld ==
    \A r \in Receivers : Receiving(r) =>
        /\ \A c \in Components : op[r].issued[c] > 0 => Holds(r, c)
        /\ \A k \in Keys : op[r].entered[k] > 0 => Holds(r, k[2])
        /\ op[r].pc = "issued" => op[r].at \in op[r].done

(* The stock it has written is the committed one less what it issued.      *)
StockExact ==
    \A r \in Receivers : Receiving(r) =>
        \A c \in Components : Holds(r, c) => op[r].stock[c] = stock[c] - op[r].issued[c]

(* A balance it has written is the committed one and what it entered, and  *)
(* so is the one it has read last, unless it was overtaken.                *)
BalanceExact ==
    \A r \in Receivers : Receiving(r) =>
        \A k \in Keys : <<r, k>> \notin overtaken =>
            /\ op[r].entered[k] > 0 => op[r].balance[k] = balance[k] + op[r].entered[k]
            /\ op[r].pc = "issued" /\ Key(op[r].at) = k =>
                  op[r].read = balance[k] + op[r].entered[k]

(* So is what an income, and a change of a balance, is to write.           *)
IncomeExact ==
    \A r \in Incomes :
        op[r].pc = "income" /\ <<r, op[r].comp>> \notin overtaken =>
            op[r].after = stock[op[r].comp] + op[r].quantity

ChangeExact ==
    \A r \in LineOps :
        op[r].pc = "line" /\ <<r, op[r].key>> \notin overtaken =>
            op[r].after = balance[op[r].key] + op[r].change

(* What an end leaves of the other requests, and of those it overtakes.    *)
LEMMA EndMarks ==
    ASSUME TypeOK, NEW r \in Requests, NEW X, End(r, X)
    PROVE  \A s \in Requests : s # r =>
              /\ op'[s] = op[s]
              /\ \A x : <<s, x>> \notin overtaken' =>
                    <<s, x>> \notin overtaken /\ ~(x \in X /\ HasRead(s, x))
  <1>1. \A s \in Requests : s # r => op'[s] = op[s]
    BY DEF End, TypeOK
  <1>2. ASSUME NEW s \in Requests, s # r, NEW x, <<s, x>> \notin overtaken'
        PROVE  <<s, x>> \notin overtaken /\ ~(x \in X /\ HasRead(s, x))
    BY <1>2 DEF End
  <1> QED
    BY <1>1, <1>2

LEMMA EndUnmarks ==
    ASSUME NEW r, NEW X, End(r, X)
    PROVE  \A x : <<r, x>> \notin overtaken'
  BY DEF End

LEMMA BeginFacts ==
    ASSUME TypeOK, NEW r \in Receivers, NEW S \in SUBSET Items, NEW i, Receive(r, S, i)
    PROVE  /\ ~Receiving(r) /\ Receiving(r)' /\ HeldItems(r)' = S
           /\ op'[r].pc = "receiving" /\ op'[r].left = S /\ op'[r].done = {}
           /\ op'[r].stock = stock /\ op'[r].issued = [c \in Components |-> 0]
           /\ op'[r].balance = balance /\ op'[r].entered = [k \in Keys |-> 0]
           /\ \A s \in Receivers : s # r => op'[s] = op[s]
           /\ Lockable(S)
           /\ UNCHANGED <<ware, lines, item, overtaken>>
  <1> DEFINE o == [pc |-> "receiving", left |-> S, done |-> {}, at |-> i, read |-> 0,
                   stock |-> stock, issued |-> [c \in Components |-> 0],
                   balance |-> balance, entered |-> [k \in Keys |-> 0]]
  <1>1. op[r] = Idle /\ op' = [op EXCEPT ![r] = o] /\ Lockable(S)
        /\ UNCHANGED <<ware, lines, item, overtaken>>
    BY DEF Receive, Begin
  <1>2. op'[r] = o /\ \A s \in Receivers : s # r => op'[s] = op[s]
    BY <1>1 DEF TypeOK, Requests
  <1>3. op[r].pc = "idle"
    BY <1>1 DEF Idle
  <1> QED
    BY <1>1, <1>2, <1>3 DEF Receiving, HeldItems

LEMMA IssueFacts ==
    ASSUME TypeOK, NEW r \in Receivers, wareOutcomeApplyTx(r)
    PROVE  /\ Receiving(r) /\ Receiving(r)' /\ HeldItems(r)' = HeldItems(r)
           /\ op[r].pc = "receiving"
           /\ \A s \in Receivers : s # r => op'[s] = op[s]
           /\ UNCHANGED <<ware, lines, item, overtaken>>
           /\ \E i \in op[r].left :
                 /\ item[i].quantity <= op[r].stock[Comp(i)]
                 /\ op'[r].pc = "issued" /\ op'[r].at = i
                 /\ op'[r].left = op[r].left \ {i} /\ op'[r].done = op[r].done \cup {i}
                 /\ op'[r].read = BalanceSeen(r, Key(i))
                 /\ op'[r].stock = [op[r].stock EXCEPT ![Comp(i)] = @ - item[i].quantity]
                 /\ op'[r].issued = [op[r].issued EXCEPT ![Comp(i)] = @ + item[i].quantity]
                 /\ op'[r].balance = op[r].balance /\ op'[r].entered = op[r].entered
  <1>1. op[r].pc = "receiving" /\ UNCHANGED <<ware, lines, item, overtaken>>
    BY DEF wareOutcomeApplyTx
  <1>2. PICK i \in op[r].left :
           /\ Sufficient(r, i)
           /\ op' = [op EXCEPT ![r].pc = "issued", ![r].at = i,
                               ![r].left = @ \ {i}, ![r].done = @ \cup {i},
                               ![r].stock[Comp(i)] = @ - item[i].quantity,
                               ![r].issued[Comp(i)] = @ + item[i].quantity,
                               ![r].read = BalanceSeen(r, Key(i))]
    BY DEF wareOutcomeApplyTx
  <1>3. op \in [Requests -> Op] /\ r \in Requests /\ \A s \in Receivers : s \in Requests
    BY DEF TypeOK, Requests
  <1>4. op[r] \in ReceiveOp
    BY <1>1, <1>3, ReceiveType DEF Receiving
  <1> DEFINE st == [op[r].stock EXCEPT ![Comp(i)] = @ - item[i].quantity]
             is == [op[r].issued EXCEPT ![Comp(i)] = @ + item[i].quantity]
             rd == BalanceSeen(r, Key(i))
  <1>6. /\ op'[r] = [op[r] EXCEPT !.pc = "issued", !.at = i, !.left = @ \ {i},
                                  !.done = @ \cup {i}, !.stock = st, !.issued = is, !.read = rd]
        /\ \A s \in Receivers : s # r => op'[s] = op[s]
    <2>1. op'[r] = [op[r] EXCEPT !.pc = "issued", !.at = i, !.left = @ \ {i},
                                 !.done = @ \cup {i}, !.stock = st, !.issued = is, !.read = rd]
      BY <1>2, <1>3
    <2>2. \A s \in Receivers : s # r => op'[s] = op[s]
      BY <1>2, <1>3
    <2> QED
      BY <2>1, <2>2
  <1> HIDE DEF st, is, rd
  <1>7. /\ op'[r].pc = "issued" /\ op'[r].at = i
        /\ op'[r].left = op[r].left \ {i} /\ op'[r].done = op[r].done \cup {i}
        /\ op'[r].read = rd /\ op'[r].stock = st /\ op'[r].issued = is
        /\ op'[r].balance = op[r].balance /\ op'[r].entered = op[r].entered
    BY <1>4, <1>6 DEF ReceiveOp
  <1>8. Receiving(r) /\ Receiving(r)' /\ HeldItems(r)' = HeldItems(r)
    BY <1>1, <1>7 DEF Receiving, HeldItems
  <1> QED
    BY <1>1, <1>2, <1>6, <1>7, <1>8 DEF st, is, rd, Sufficient

LEMMA WriteFacts ==
    ASSUME TypeOK, NEW r \in Receivers, brigadirDeliveryItemConfirmTx(r)
    PROVE  /\ Receiving(r) /\ Receiving(r)' /\ HeldItems(r)' = HeldItems(r)
           /\ op[r].pc = "issued" /\ op'[r].pc = "receiving"
           /\ op'[r].left = op[r].left /\ op'[r].done = op[r].done
           /\ op'[r].stock = op[r].stock /\ op'[r].issued = op[r].issued
           /\ op'[r].balance = [op[r].balance EXCEPT ![Key(op[r].at)] =
                                   op[r].read + item[op[r].at].quantity]
           /\ op'[r].entered = [op[r].entered EXCEPT ![Key(op[r].at)] =
                                   @ + item[op[r].at].quantity]
           /\ \A s \in Receivers : s # r => op'[s] = op[s]
           /\ UNCHANGED <<ware, lines, item, overtaken>>
  <1> DEFINE k == Key(op[r].at)
             b == [op[r].balance EXCEPT ![k] = op[r].read + item[op[r].at].quantity]
             e == [op[r].entered EXCEPT ![k] = @ + item[op[r].at].quantity]
  <1>1. op[r].pc = "issued" /\ UNCHANGED <<ware, lines, item, overtaken>>
    BY DEF brigadirDeliveryItemConfirmTx
  <1>2. op \in [Requests -> Op] /\ r \in Requests /\ \A s \in Receivers : s \in Requests
    BY DEF TypeOK, Requests
  <1>3. op[r] \in ReceiveOp
    BY <1>1, <1>2, ReceiveType DEF Receiving
  <1>4. op' = [op EXCEPT ![r] = [op[r] EXCEPT !.pc = "receiving", !.balance = b, !.entered = e]]
    BY DEF brigadirDeliveryItemConfirmTx
  <1> HIDE DEF b, e
  <1>5. /\ op'[r] = [op[r] EXCEPT !.pc = "receiving", !.balance = b, !.entered = e]
        /\ \A s \in Receivers : s # r => op'[s] = op[s]
    BY <1>2, <1>4
  <1>6. /\ op'[r].pc = "receiving" /\ op'[r].left = op[r].left /\ op'[r].done = op[r].done
        /\ op'[r].stock = op[r].stock /\ op'[r].issued = op[r].issued
        /\ op'[r].balance = b /\ op'[r].entered = e
    BY <1>3, <1>5 DEF ReceiveOp
  <1>7. Receiving(r) /\ Receiving(r)' /\ HeldItems(r)' = HeldItems(r)
    BY <1>1, <1>6 DEF Receiving, HeldItems
  <1> QED
    BY <1>1, <1>5, <1>6, <1>7 DEF b, e

(* The steps that leave every delivery in flight as it is.                 *)
LEMMA OthersStand ==
    ASSUME StockFlowAssumption, TypeOK,
           \/ \E r \in Incomes : IncomeStep(r)
           \/ \E r \in LineOps : LineStep(r)
           \/ \E n \in Notes : NoteStep(n)
           \/ \E i \in Items : ItemStep(i)
    PROVE  \A s \in Receivers : op'[s] = op[s]
  <1>1. CASE \E r \in Incomes \cup LineOps : IncomeStep(r) \/ LineStep(r)
    <2>1. PICK r \in Incomes \cup LineOps : IncomeStep(r) \/ LineStep(r)
      BY <1>1
    <2>2. r \notin Receivers
      BY DEF StockFlowAssumption
    <2>3. \E o : op' = [op EXCEPT ![r] = o]
      BY <2>1 DEF IncomeStep, LineStep, WareIncomeRead, WareIncomeApply, LinesBalanceRead,
             LinesBalanceApplyChange, Fail, Begin, End
    <2> QED
      BY <2>2, <2>3 DEF TypeOK, Requests
  <1>2. CASE (\E n \in Notes : NoteStep(n)) \/ \E i \in Items : ItemStep(i)
    BY <1>2 DEF NoteStep, ItemStep, WareDeliveryNoteCreate, WareDeliveryNoteItemsConfirmAll,
       WareDeliveryNoteItemsUnconfirmAll, WareDeliveryNoteItemUpdateQuantity,
       WareDeliveryNoteItemConfirm, WareDeliveryNoteItemUnconfirm, WareDeliveryNoteItemDelete
  <1> QED
    BY <1>1, <1>2

LEMMA EndFacts ==
    ASSUME TypeOK, NEW r \in Receivers, NEW X, End(r, X)
    PROVE  ~Receiving(r)' /\ \A s \in Receivers : s # r => op'[s] = op[s]
  BY DEF TypeOK, Requests, End, Idle, Receiving
(* Steps after which a delivery in flight is as it was.                    *)
LEMMA StillHeld ==
    ASSUME Apart, WritesHeld, \A s \in Receivers : Receiving(s)' => op'[s] = op[s]
    PROVE  (Apart /\ WritesHeld)'
  <1>1. \A s \in Receivers : Receiving(s)' => Receiving(s) /\ HeldItems(s)' = HeldItems(s)
    BY DEF Receiving, HeldItems
  <1>2. \A s \in Receivers, c \in Components : Receiving(s)' => (Holds(s, c)' <=> Holds(s, c))
    BY <1>1 DEF Holds
  <1>3. Apart'
    BY <1>1, <1>2 DEF Apart
  <1>4. ASSUME NEW s \in Receivers, Receiving(s)'
        PROVE  /\ \A c \in Components : op'[s].issued[c] > 0 => Holds(s, c)'
               /\ \A k \in Keys : op'[s].entered[k] > 0 => Holds(s, k[2])'
               /\ op'[s].pc = "issued" => op'[s].at \in op'[s].done
    <2>1. op'[s] = op[s] /\ Receiving(s)
      BY <1>1, <1>4
    <2>2. \A k \in Keys : k[2] \in Components
      BY DEF Keys
    <2> QED
      BY <1>2, <1>4, <2>1, <2>2 DEF WritesHeld
  <1> QED
    BY <1>3, <1>4 DEF WritesHeld

(* The steps of a delivery in which it holds what it held.                 *)
LEMMA StillApart ==
    ASSUME Apart, NEW r \in Receivers, Receiving(r), HeldItems(r)' = HeldItems(r),
           \A s \in Receivers : s # r => op'[s] = op[s]
    PROVE  Apart' /\ \A c \in Components : Holds(r, c)' <=> Holds(r, c)
  <1>1. \A s \in Receivers : HeldItems(s)' = HeldItems(s) /\ (Receiving(s)' => Receiving(s))
    BY DEF HeldItems, Receiving
  <1>2. \A s \in Receivers, c \in Components : Holds(s, c)' <=> Holds(s, c)
    BY <1>1 DEF Holds
  <1> QED
    BY <1>1, <1>2 DEF Apart

LEMMA OthersWrite ==
    ASSUME WritesHeld, NEW r \in Receivers, \A s \in Receivers : s # r => op'[s] = op[s],
           Receiving(r)' =>
              /\ \A c \in Components : op'[r].issued[c] > 0 => Holds(r, c)'
              /\ \A k \in Keys : op'[r].entered[k] > 0 => Holds(r, k[2])'
              /\ op'[r].pc = "issued" => op'[r].at \in op'[r].done
    PROVE  WritesHeld'
  <1>1. ASSUME NEW s \in Receivers, s # r, Receiving(s)'
        PROVE  /\ \A c \in Components : op'[s].issued[c] > 0 => Holds(s, c)'
               /\ \A k \in Keys : op'[s].entered[k] > 0 => Holds(s, k[2])'
               /\ op'[s].pc = "issued" => op'[s].at \in op'[s].done
    <2>1. op'[s] = op[s] /\ Receiving(s) /\ HeldItems(s)' = HeldItems(s)
      BY <1>1 DEF Receiving, HeldItems
    <2>2. \A c : Holds(s, c)' <=> Holds(s, c)
      BY <2>1 DEF Holds
    <2> QED
      BY <2>1, <2>2 DEF WritesHeld
  <1> QED
    BY <1>1 DEF WritesHeld

LEMMA BeginHeld ==
    ASSUME TypeOK, Apart, WritesHeld, NEW r \in Receivers, NEW S \in SUBSET Items, NEW i,
           Receive(r, S, i)
    PROVE  (Apart /\ WritesHeld)'
  <1>1. /\ ~Receiving(r) /\ HeldItems(r)' = S /\ op'[r].pc = "receiving"
        /\ op'[r].issued = [c \in Components |-> 0] /\ op'[r].entered = [k \in Keys |-> 0]
        /\ \A s \in Receivers : s # r => op'[s] = op[s]
        /\ Lockable(S)
    BY BeginFacts
  <1>2. \A s \in Receivers \ {r} : /\ Receiving(s)' = Receiving(s)
                                   /\ \A c : Holds(s, c)' <=> Holds(s, c)
    BY <1>1 DEF Receiving, Holds, HeldItems
  <1>3. \A s \in Receivers \ {r} : Receiving(s) =>
           \A c \in Components : Holds(r, c)' => ~Holds(s, c)
    BY <1>1 DEF Lockable, StockUnlocked, Holds
  <1>4. Apart'
    BY <1>2, <1>3 DEF Apart
  <1>5. WritesHeld'
    BY <1>1, OthersWrite
  <1> QED
    BY <1>4, <1>5

LEMMA IssueHeld ==
    ASSUME TypeOK, Apart, WritesHeld, NEW r \in Receivers, wareOutcomeApplyTx(r)
    PROVE  (Apart /\ WritesHeld)'
  <1>1. /\ Receiving(r) /\ HeldItems(r)' = HeldItems(r)
        /\ \A s \in Receivers : s # r => op'[s] = op[s]
    BY IssueFacts
  <1>2. PICK i \in op[r].left :
           /\ op'[r].at = i /\ op'[r].done = op[r].done \cup {i}
           /\ op'[r].issued = [op[r].issued EXCEPT ![Comp(i)] = @ + item[i].quantity]
           /\ op'[r].entered = op[r].entered
    BY IssueFacts
  <1>3. Apart' /\ \A c \in Components : Holds(r, c)' <=> Holds(r, c)
    BY <1>1, StillApart
  <1>4. Holds(r, Comp(i))
    BY <1>2 DEF Holds, HeldItems
  <1>5. \A c \in Components : op'[r].issued[c] > 0 => c = Comp(i) \/ op[r].issued[c] > 0
    <2>1. op[r].issued \in [Components -> Nat]
      BY <1>1, ReceiveType DEF Requests
    <2> QED
      BY <1>2, <2>1
  <1>6. \A c \in Components : op'[r].issued[c] > 0 => Holds(r, c)'
    BY <1>1, <1>3, <1>4, <1>5 DEF WritesHeld
  <1>7. \A k \in Keys : op'[r].entered[k] > 0 => Holds(r, k[2])'
    BY <1>1, <1>2, <1>3 DEF WritesHeld, Keys
  <1>8. WritesHeld'
    BY <1>1, <1>2, <1>6, <1>7, OthersWrite
  <1> QED
    BY <1>3, <1>8

LEMMA WriteHeld ==
    ASSUME TypeOK, Apart, WritesHeld, NEW r \in Receivers, brigadirDeliveryItemConfirmTx(r)
    PROVE  (Apart /\ WritesHeld)'
  <1> DEFINE j == op[r].at
  <1>1. /\ Receiving(r) /\ HeldItems(r)' = HeldItems(r)
        /\ op[r].pc = "issued" /\ op'[r].pc = "receiving"
        /\ op'[r].issued = op[r].issued
        /\ op'[r].entered = [op[r].entered EXCEPT ![Key(j)] = @ + item[j].quantity]
        /\ \A s \in Receivers : s # r => op'[s] = op[s]
    BY WriteFacts
  <1>2. Apart' /\ \A c \in Components : Holds(r, c)' <=> Holds(r, c)
    BY <1>1, StillApart
  <1>3. Holds(r, Comp(j)) /\ Key(j)[2] = Comp(j)
    BY <1>1 DEF WritesHeld, Holds, HeldItems, Key, Comp
  <1>4. \A k \in Keys : op'[r].entered[k] > 0 => k = Key(j) \/ op[r].entered[k] > 0
    <2>1. op[r].entered \in [Keys -> Nat]
      BY <1>1, ReceiveType DEF Requests
    <2> QED
      BY <1>1, <2>1
  <1>5. \A k \in Keys : op'[r].entered[k] > 0 => Holds(r, k[2])'
    BY <1>1, <1>2, <1>3, <1>4 DEF WritesHeld, Keys
  <1>6. \A c \in Components : op'[r].issued[c] > 0 => Holds(r, c)'
    BY <1>1, <1>2 DEF WritesHeld
  <1>7. WritesHeld'
    BY <1>1, <1>5, <1>6, OthersWrite
  <1> QED
    BY <1>2, <1>7

LEMMA ReceiverSteps ==
    ASSUME NEW r \in Receivers, ReceiverStep(r)
    PROVE  \/ \E S \in SUBSET Items, i \in Items : Receive(r, S, i)
           \/ wareOutcomeApplyTx(r)
           \/ brigadirDeliveryItemConfirmTx(r)
           \/ BrigadirCommit(r)
           \/ Fail(r)
  BY DeliveryBegins DEF ReceiverStep, Pending

LEMMA HeldNext ==
    ASSUME StockFlowAssumption, TypeOK, Apart, WritesHeld, [Next]_vars
    PROVE  (Apart /\ WritesHeld)'
  <1>1. CASE \E r \in Receivers : ReceiverStep(r)
    <2>1. PICK r \in Receivers : ReceiverStep(r)
      BY <1>1
    <2>2. CASE BrigadirCommit(r) \/ Fail(r)
      <3>1. \A s \in Receivers : Receiving(s)' => op'[s] = op[s]
        BY <2>2, EndFacts DEF BrigadirCommit, Fail
      <3> QED
        BY <3>1, StillHeld
    <2> QED
      BY <2>1, <2>2, ReceiverSteps, BeginHeld, IssueHeld, WriteHeld
  <1>2. CASE UNCHANGED vars
    BY <1>2, StillHeld DEF vars
  <1>3. CASE \/ \E r \in Incomes : IncomeStep(r)
             \/ \E r \in LineOps : LineStep(r)
             \/ \E n \in Notes : NoteStep(n)
             \/ \E i \in Items : ItemStep(i)
    BY <1>3, OthersStand, StillHeld
  <1> QED
    BY <1>1, <1>2, <1>3 DEF Next
LEMMA SameStock ==
    ASSUME StockExact, stock' = stock, NEW r \in Receivers,
           \A s \in Receivers : s # r => op'[s] = op[s],
           Receiving(r)' => \A c \in Components :
              Holds(r, c)' => op'[r].stock[c] = stock[c] - op'[r].issued[c]
    PROVE  StockExact'
  <1>1. ASSUME NEW s \in Receivers, s # r, Receiving(s)', NEW c \in Components, Holds(s, c)'
        PROVE  op'[s].stock[c] = stock'[c] - op'[s].issued[c]
    <2>1. op'[s] = op[s] /\ Receiving(s) /\ Holds(s, c)
      BY <1>1 DEF Receiving, Holds, HeldItems
    <2> QED
      BY <1>1, <2>1 DEF StockExact
  <1> QED
    BY <1>1 DEF StockExact

LEMMA StockReceives ==
    ASSUME TypeOK, Apart, WritesHeld, StockExact, NEW r \in Receivers, ReceiverStep(r)
    PROVE  StockExact'
  <1>r. r \in Requests
    BY DEF Requests
  <1>1. ASSUME NEW S \in SUBSET Items, NEW i \in Items, Receive(r, S, i)
        PROVE  StockExact'
    <2>1. /\ op'[r].stock = stock /\ op'[r].issued = [c \in Components |-> 0]
          /\ \A s \in Receivers : s # r => op'[s] = op[s]
          /\ stock' = stock
      BY <1>1, BeginFacts DEF ware
    <2>2. \A c \in Components : stock[c] \in Int
      BY DEF TypeOK
    <2> QED
      BY <2>1, <2>2, SameStock
  <1>2. CASE wareOutcomeApplyTx(r)
    <2>1. /\ Receiving(r) /\ HeldItems(r)' = HeldItems(r) /\ stock' = stock
          /\ \A s \in Receivers : s # r => op'[s] = op[s]
      BY <1>2, IssueFacts DEF ware
    <2>2. PICK i \in op[r].left :
             /\ op'[r].stock = [op[r].stock EXCEPT ![Comp(i)] = @ - item[i].quantity]
             /\ op'[r].issued = [op[r].issued EXCEPT ![Comp(i)] = @ + item[i].quantity]
      BY <1>2, IssueFacts
    <2>3. /\ op[r].left \in SUBSET Items
          /\ op[r].stock \in [Components -> 0 .. MaxStock]
          /\ op[r].issued \in [Components -> Nat]
      BY <1>r, <2>1, ReceiveType
    <2>4. Comp(i) \in Components /\ item[i].quantity \in Int
      BY <2>3, ItemParts DEF TypeOK, ItemRows
    <2>5. \A c \in Components : Holds(r, c) => op[r].stock[c] = stock[c] - op[r].issued[c]
      BY <2>1 DEF StockExact
    <2>6. \A c \in Components : stock[c] \in Int
      BY DEF TypeOK
    <2>7. ASSUME NEW c \in Components, Holds(r, c)
          PROVE  op'[r].stock[c] = stock[c] - op'[r].issued[c]
      <3>1. op[r].stock[c] = stock[c] - op[r].issued[c] /\ stock[c] \in Int
            /\ op[r].stock[c] \in Int /\ op[r].issued[c] \in Int
        BY <2>3, <2>5, <2>6, <2>7
      <3>2. CASE c = Comp(i)
        BY <2>2, <2>3, <2>4, <3>1, <3>2
      <3>3. CASE c # Comp(i)
        BY <2>2, <2>3, <3>1, <3>3
      <3> QED
        BY <3>2, <3>3
    <2>8. \A c \in Components : Holds(r, c)' => Holds(r, c)
      BY <2>1 DEF Holds
    <2> QED
      BY <2>1, <2>7, <2>8, SameStock
  <1>3. CASE brigadirDeliveryItemConfirmTx(r)
    <2>1. /\ Receiving(r) /\ HeldItems(r)' = HeldItems(r) /\ stock' = stock
          /\ op'[r].stock = op[r].stock /\ op'[r].issued = op[r].issued
          /\ \A s \in Receivers : s # r => op'[s] = op[s]
      BY <1>3, WriteFacts DEF ware
    <2>2. \A c \in Components : Holds(r, c)' => Holds(r, c)
      BY <2>1 DEF Holds
    <2> QED
      BY <2>1, <2>2, SameStock DEF StockExact
  <1>4. CASE BrigadirCommit(r)
    <2>1. Receiving(r) /\ ~Receiving(r)' /\ \A s \in Receivers : s # r => op'[s] = op[s]
      BY <1>4, EndFacts DEF BrigadirCommit, Receiving
    <2>2. \A c \in Components : stock'[c] # stock[c] => op[r].issued[c] > 0
      BY <1>4 DEF BrigadirCommit
    <2>3. \A c \in Components : stock'[c] # stock[c] => Holds(r, c)
      BY <2>1, <2>2 DEF WritesHeld
    <2>4. ASSUME NEW s \in Receivers, Receiving(s)', NEW c \in Components, Holds(s, c)'
          PROVE  op'[s].stock[c] = stock'[c] - op'[s].issued[c]
      <3>1. s # r /\ op'[s] = op[s] /\ Receiving(s) /\ Holds(s, c)
        BY <2>1, <2>4 DEF Receiving, Holds, HeldItems
      <3>2. stock'[c] = stock[c]
        BY <2>1, <2>3, <3>1 DEF Apart
      <3> QED
        BY <3>1, <3>2 DEF StockExact
    <2> QED
      BY <2>4 DEF StockExact
  <1>5. CASE Fail(r)
    <2>1. ~Receiving(r)' /\ stock' = stock /\ \A s \in Receivers : s # r => op'[s] = op[s]
      BY <1>5, EndFacts DEF Fail, ware
    <2> QED
      BY <2>1, SameStock
  <1> QED
    BY <1>1, <1>2, <1>3, <1>4, <1>5, ReceiverSteps

(* The lines and the notes leave the warehouse alone.                      *)
LEMMA WareStands ==
    ASSUME UNCHANGED vars \/ (\E r \in LineOps : LineStep(r)) \/ (\E n \in Notes : NoteStep(n))
           \/ \E i \in Items : ItemStep(i)
    PROVE  stock' = stock /\ wareNet' = wareNet
  BY DEF LineStep, NoteStep, ItemStep, LinesBalanceRead, LinesBalanceApplyChange, Fail,
     WareDeliveryNoteCreate, WareDeliveryNoteItemsConfirmAll,
     WareDeliveryNoteItemsUnconfirmAll, WareDeliveryNoteItemUpdateQuantity,
     WareDeliveryNoteItemConfirm, WareDeliveryNoteItemUnconfirm, WareDeliveryNoteItemDelete,
     ware, vars

LEMMA NotesMark ==
    ASSUME (\E n \in Notes : NoteStep(n)) \/ \E i \in Items : ItemStep(i)
    PROVE  op' = op /\ overtaken' = overtaken
  BY DEF NoteStep, ItemStep, WareDeliveryNoteCreate, WareDeliveryNoteItemsConfirmAll,
     WareDeliveryNoteItemsUnconfirmAll, WareDeliveryNoteItemUpdateQuantity,
     WareDeliveryNoteItemConfirm, WareDeliveryNoteItemUnconfirm, WareDeliveryNoteItemDelete

(* An income writes no stock that a delivery holds.                        *)
LEMMA StockStays ==
    ASSUME StockFlowAssumption, TypeOK, StockExact, ~\E r \in Receivers : ReceiverStep(r), [Next]_vars
    PROVE  StockExact'
  <1>1. \A s \in Receivers : op'[s] = op[s]
    BY OthersStand DEF Next, vars
  <1>2. ASSUME NEW r \in Receivers, Receiving(r), NEW c \in Components, Holds(r, c)
        PROVE  stock'[c] = stock[c]
    <2>1. CASE \E w \in Incomes : WareIncomeApply(w)
      <3>1. PICK w \in Incomes : WareIncomeApply(w)
        BY <2>1
      <3>2. StockUnlocked(op[w].comp) /\ stock' = [stock EXCEPT ![op[w].comp] = op[w].after]
        BY <3>1 DEF WareIncomeApply
      <3>3. op[w].comp # c
        BY <1>2, <3>2 DEF StockUnlocked, Holds
      <3> QED
        BY <3>2, <3>3 DEF TypeOK
    <2>2. CASE ~\E w \in Incomes : WareIncomeApply(w)
      <3>1. stock' = stock
        BY <2>2, WareStands DEF Next, IncomeStep, WareIncomeRead, Fail, ware
      <3> QED
        BY <3>1
    <2> QED
      BY <2>1, <2>2
  <1> QED
    BY <1>1, <1>2 DEF StockExact, Receiving, HeldItems, Holds

LEMMA WareReceives ==
    ASSUME TypeOK, WritesHeld, StockExact, NEW r \in Receivers, ReceiverStep(r)
    PROVE  \A c \in Components : stock'[c] - stock[c] = wareNet'[c] - wareNet[c]
  <1>t. \A c \in Components : stock[c] \in Int /\ wareNet[c] \in Int
    BY DEF TypeOK
  <1>1. CASE BrigadirCommit(r)
    <2>1. Receiving(r) /\ r \in Requests
      BY <1>1 DEF BrigadirCommit, Receiving, Requests
    <2>2. /\ stock' = [c \in Components |-> IF op[r].issued[c] > 0 THEN op[r].stock[c] ELSE stock[c]]
          /\ wareNet' = [c \in Components |-> wareNet[c] - op[r].issued[c]]
      BY <1>1 DEF BrigadirCommit
    <2>3. op[r].issued \in [Components -> Nat]
      BY <2>1, ReceiveType
    <2>4. \A c \in Components : op[r].issued[c] > 0 => op[r].stock[c] = stock[c] - op[r].issued[c]
      BY <2>1 DEF WritesHeld, StockExact
    <2> QED
      BY <1>t, <2>2, <2>3, <2>4
  <1>2. CASE ~BrigadirCommit(r)
    <2>1. stock' = stock /\ wareNet' = wareNet
      BY <1>2, ReceiverSteps
         DEF Receive, wareOutcomeApplyTx, brigadirDeliveryItemConfirmTx, Fail, ware
    <2> QED
      BY <1>t, <2>1
  <1> QED
    BY <1>1, <1>2

(* What an income adds to a stock that nobody changed since it read it.    *)
LEMMA IncomeAdds ==
    ASSUME StockFlowAssumption, TypeOK, IncomeExact, NEW r \in Incomes, WareIncomeApply(r), NEW c \in Components
    PROVE  \/ stock'[c] - stock[c] = wareNet'[c] - wareNet[c]
           \/ <<r, c>> \in overtaken \ overtaken'
  <1> DEFINE b == op[r].comp
             q == op[r].quantity
  <1>r. r \in Requests
    BY DEF Requests
  <1>1. /\ op[r].pc = "income" /\ End(r, {b})
        /\ stock' = [stock EXCEPT ![b] = op[r].after]
        /\ wareNet' = [wareNet EXCEPT ![b] = @ + q]
    BY DEF WareIncomeApply
  <1>2. op[r] \in IncomeOp
    BY <1>r, <1>1, OpTypes DEF TypeOK
  <1>3. b \in Components /\ q \in Int
    BY <1>2 DEF IncomeOp, Quantities
  <1>4. \A d \in Components : stock[d] \in Int /\ wareNet[d] \in Int
    BY DEF TypeOK
  <1>5. /\ stock'[b] = op[r].after /\ wareNet'[b] = wareNet[b] + q
        /\ c # b => stock'[c] = stock[c] /\ wareNet'[c] = wareNet[c]
    BY <1>1, <1>3 DEF TypeOK
  <1>6. <<r, c>> \notin overtaken'
    BY <1>1, EndUnmarks
  <1>7. CASE c # b
    BY <1>4, <1>5, <1>7
  <1>8. CASE c = b /\ <<r, c>> \notin overtaken
    <2>1. op[r].after = stock[b] + q
      BY <1>1, <1>8 DEF IncomeExact
    <2> HIDE DEF b, q
    <2> QED
      BY <1>3, <1>4, <1>5, <1>8, <2>1
  <1> QED
    BY <1>6, <1>7, <1>8

WareInv == Apart /\ WritesHeld /\ StockExact /\ IncomeExact

(* An income that reads no stock of the ones a step commits, or is marked. *)
LEMMA IncomeStays ==
    ASSUME StockFlowAssumption, TypeOK, IncomeExact, NEW r \in Requests, NEW X, End(r, X),
           \A c \in Components \ X : stock'[c] = stock[c]
    PROVE  IncomeExact'
  <1>1. ASSUME NEW s \in Incomes, op'[s].pc = "income", <<s, op'[s].comp>> \notin overtaken'
        PROVE  op'[s].after = stock'[op'[s].comp] + op'[s].quantity
    <2>0. s \in Requests
      BY DEF Requests
    <2>1. s # r
      BY <1>1 DEF End, TypeOK, Idle
    <2>2. op'[s] = op[s] /\ op[s].pc = "income" /\ op[s] \in IncomeOp
      BY <1>1, <2>0, <2>1, EndMarks, OpTypes DEF TypeOK
    <2>3. <<s, op[s].comp>> \notin overtaken /\ ~(op[s].comp \in X /\ HasRead(s, op[s].comp))
      BY <1>1, <2>0, <2>1, <2>2, EndMarks
    <2>4. op[s].comp \in Components \ X
      BY <2>2, <2>3 DEF HasRead, IncomeOp
    <2> QED
      BY <2>2, <2>3, <2>4 DEF IncomeExact
  <1> QED
    BY <1>1 DEF IncomeExact

(* The steps of a delivery before its end.                                 *)
LEMMA Unfinished ==
    ASSUME TypeOK, NEW r \in Receivers,
           \/ \E S \in SUBSET Items, i \in Items : Receive(r, S, i)
           \/ wareOutcomeApplyTx(r) \/ brigadirDeliveryItemConfirmTx(r)
    PROVE  /\ UNCHANGED <<ware, lines, item, overtaken>>
           /\ \A s \in Requests : s # r => op'[s] = op[s]
  <1>0. op \in [Requests -> Op] /\ r \in Requests
    BY DEF TypeOK, Requests
  <1>1. ASSUME NEW S \in SUBSET Items, NEW i \in Items, Receive(r, S, i)
        PROVE  /\ UNCHANGED <<ware, lines, item, overtaken>>
               /\ \A s \in Requests : s # r => op'[s] = op[s]
    BY <1>0, <1>1 DEF Receive, Begin
  <1>2. CASE wareOutcomeApplyTx(r)
    <2>1. PICK i \in op[r].left :
             op' = [op EXCEPT ![r].pc = "issued", ![r].at = i,
                              ![r].left = @ \ {i}, ![r].done = @ \cup {i},
                              ![r].stock[Comp(i)] = @ - item[i].quantity,
                              ![r].issued[Comp(i)] = @ + item[i].quantity,
                              ![r].read = BalanceSeen(r, Key(i))]
      BY <1>2 DEF wareOutcomeApplyTx
    <2>2. \A s \in Requests : s # r => op'[s] = op[s]
      BY <1>0, <2>1
    <2> QED
      BY <1>2, <2>2 DEF wareOutcomeApplyTx
  <1>3. CASE brigadirDeliveryItemConfirmTx(r)
    <2>1. \A s \in Requests : s # r => op'[s] = op[s]
      BY <1>0, <1>3 DEF brigadirDeliveryItemConfirmTx
    <2> QED
      BY <1>3, <2>1 DEF brigadirDeliveryItemConfirmTx
  <1> QED
    BY <1>1, <1>2, <1>3

LEMMA IncomeNext ==
    ASSUME StockFlowAssumption, TypeOK, IncomeExact, [Next]_vars
    PROVE  IncomeExact'
  <1>1. ASSUME stock' = stock, \A s \in Incomes : op'[s] = op[s], overtaken' = overtaken
        PROVE  IncomeExact'
    BY <1>1 DEF IncomeExact
  <1>2. ASSUME NEW r \in Incomes, IncomeStep(r)
        PROVE  IncomeExact'
    <2>1. ASSUME NEW c \in Components, NEW q \in Quantities, WareIncomeRead(r, c, q)
          PROVE  IncomeExact'
      <3> DEFINE o == [pc |-> "income", comp |-> c, quantity |-> q, after |-> stock[c] + q]
      <3>1. op' = [op EXCEPT ![r] = o] /\ overtaken' = overtaken /\ stock' = stock
        BY <2>1 DEF WareIncomeRead, Begin, ware
      <3>2. op'[r] = o /\ \A s \in Incomes : s # r => op'[s] = op[s]
        BY <3>1 DEF TypeOK, Requests
      <3> QED
        BY <3>1, <3>2 DEF IncomeExact
    <2>2. CASE WareIncomeApply(r)
      <3>1. End(r, {op[r].comp}) /\ stock' = [stock EXCEPT ![op[r].comp] = op[r].after]
        BY <2>2 DEF WareIncomeApply
      <3>2. \A c \in Components \ {op[r].comp} : stock'[c] = stock[c]
        BY <3>1 DEF TypeOK
      <3> QED
        BY <3>1, <3>2, IncomeStays DEF Requests
    <2>3. CASE Fail(r)
      <3>1. End(r, {}) /\ stock' = stock
        BY <2>3 DEF Fail, ware
      <3> QED
        BY <3>1, IncomeStays DEF Requests
    <2> QED
      BY <1>2, <2>1, <2>2, <2>3 DEF IncomeStep
  <1>3. ASSUME NEW r \in LineOps, LineStep(r)
        PROVE  IncomeExact'
    <2>0. \A s \in Incomes : s # r
      BY DEF StockFlowAssumption
    <2>1. stock' = stock
      BY <1>3, WareStands
    <2>2. ASSUME NEW X, End(r, X)
          PROVE  IncomeExact'
      BY <2>1, <2>2, IncomeStays DEF Requests
    <2>3. CASE LinesBalanceApplyChange(r) \/ Fail(r)
      BY <2>2, <2>3 DEF LinesBalanceApplyChange, Fail
    <2>4. CASE \E k \in Keys, change \in -MaxQuantity .. MaxQuantity : LinesBalanceRead(r, k, change)
      <3>1. overtaken' = overtaken /\ \A s \in Incomes : op'[s] = op[s]
        BY <2>0, <2>4 DEF LinesBalanceRead, Begin, TypeOK, Requests
      <3> QED
        BY <1>1, <2>1, <3>1
    <2> QED
      BY <1>3, <2>3, <2>4 DEF LineStep
  <1>4. ASSUME NEW r \in Receivers, ReceiverStep(r)
        PROVE  IncomeExact'
    <2>0. \A s \in Incomes : s # r
      BY DEF StockFlowAssumption
    <2>1. CASE BrigadirCommit(r)
      <3> DEFINE X == {c \in Components : op[r].issued[c] > 0} \cup {k \in Keys : op[r].entered[k] > 0}
      <3>1. End(r, X) /\ \A c \in Components \ X : stock'[c] = stock[c]
        BY <2>1 DEF BrigadirCommit
      <3> HIDE DEF X
      <3> QED
        BY <3>1, IncomeStays DEF Requests
    <2>2. CASE Fail(r)
      <3>1. End(r, {}) /\ stock' = stock
        BY <2>2 DEF Fail, ware
      <3> QED
        BY <3>1, IncomeStays DEF Requests
    <2>3. CASE (\E S \in SUBSET Items, i \in Items : Receive(r, S, i))
               \/ wareOutcomeApplyTx(r) \/ brigadirDeliveryItemConfirmTx(r)
      BY <1>1, <2>0, <2>3, Unfinished DEF ware, Requests
    <2> QED
      BY <1>4, <2>1, <2>2, <2>3, ReceiverSteps
  <1>5. ASSUME UNCHANGED vars \/ (\E n \in Notes : NoteStep(n)) \/ \E i \in Items : ItemStep(i)
        PROVE  IncomeExact'
    <2>1. stock' = stock /\ op' = op /\ overtaken' = overtaken
      BY <1>5, WareStands, NotesMark DEF vars
    <2> QED
      BY <1>1, <2>1
  <1> QED
    BY <1>2, <1>3, <1>4, <1>5 DEF Next

LEMMA WareNext ==
    ASSUME StockFlowAssumption, TypeOK, WareInv, [Next]_vars
    PROVE  WareInv'
  <1>1. (Apart /\ WritesHeld)'
    BY HeldNext DEF WareInv
  <1>2. StockExact'
    BY StockReceives, StockStays DEF WareInv
  <1>3. IncomeExact'
    BY IncomeNext DEF WareInv
  <1> QED
    BY <1>1, <1>2, <1>3 DEF WareInv

LEMMA WareInvariant == Spec => []WareInv
  <1>1. Init => WareInv
    BY DEF Init, WareInv, Apart, WritesHeld, StockExact, IncomeExact, Idle, Receiving, Requests
  <1>2. TypeOK /\ WareInv /\ [Next]_vars => WareInv'
    BY StockFlowAssumption, WareNext
  <1> QED
    BY <1>1, <1>2, TypeCorrect, PTL DEF Spec

(* Income, deliveries and whatever else overlaps, fails and is undone: the *)
(* stock moves as ware.income and ware.outcome say, but where an income    *)
(* writes over a change committed since it read the stock.                 *)
THEOREM StockKeepsLedger == Spec => WareLedger
  <1> DEFINE Exact == \A c \in Components :
                         \/ stock'[c] - stock[c] = wareNet'[c] - wareNet[c]
                         \/ \E r \in Incomes : <<r, c>> \in overtaken \ overtaken'
  <1>1. TypeOK /\ WareInv /\ [Next]_vars => Exact
    <2> SUFFICES ASSUME TypeOK, WareInv, [Next]_vars, NEW c \in Components
                 PROVE  \/ stock'[c] - stock[c] = wareNet'[c] - wareNet[c]
                        \/ \E r \in Incomes : <<r, c>> \in overtaken \ overtaken'
      OBVIOUS
    <2>t. stock[c] \in Int /\ wareNet[c] \in Int
      BY DEF TypeOK
    <2>1. CASE \E r \in Receivers : ReceiverStep(r)
      BY <2>1, WareReceives DEF WareInv
    <2>2. CASE \E r \in Incomes : WareIncomeApply(r)
      BY <2>2, StockFlowAssumption, IncomeAdds DEF WareInv
    <2>3. CASE ~(\E r \in Receivers : ReceiverStep(r)) /\ ~\E r \in Incomes : WareIncomeApply(r)
      <3>1. stock' = stock /\ wareNet' = wareNet
        BY <2>3, WareStands DEF Next, IncomeStep, WareIncomeRead, Fail, ware
      <3> QED
        BY <2>t, <3>1
    <2> QED
      BY <2>1, <2>2, <2>3
  <1> QED
    BY <1>1, TypeCorrect, WareInvariant, PTL DEF Spec, WareLedger

-----------------------------------------------------------------------------
(* What a delivery has written to the balances of a line.                  *)

BalanceExactFor(r) ==
    \A k \in Keys : <<r, k>> \notin overtaken =>
        /\ op[r].entered[k] > 0 => op[r].balance[k] = balance[k] + op[r].entered[k]
        /\ op[r].pc = "issued" /\ Key(op[r].at) = k =>
              op[r].read = balance[k] + op[r].entered[k]

LEMMA SameBalance ==
    ASSUME BalanceExact, balance' = balance, NEW r \in Receivers,
           \A s \in Receivers : s # r => op'[s] = op[s],
           \A s \in Receivers : \A k : s # r /\ <<s, k>> \notin overtaken' => <<s, k>> \notin overtaken,
           Receiving(r)' => BalanceExactFor(r)'
    PROVE  BalanceExact'
  <1>1. ASSUME NEW s \in Receivers, s # r, Receiving(s)'
        PROVE  op'[s] = op[s] /\ Receiving(s) /\ BalanceExactFor(s)'
    <2>1. op'[s] = op[s] /\ Receiving(s)
      BY <1>1 DEF Receiving
    <2> QED
      BY <1>1, <2>1 DEF BalanceExact, BalanceExactFor
  <1> QED
    BY <1>1 DEF BalanceExact, BalanceExactFor

LEMMA BalanceReceives ==
    ASSUME TypeOK, Apart, WritesHeld, BalanceExact, NEW r \in Receivers, ReceiverStep(r)
    PROVE  BalanceExact'
  <1>r. r \in Requests
    BY DEF Requests
  <1>b. \A k \in Keys : balance[k] \in Int
    BY DEF TypeOK
  <1>1. ASSUME NEW S \in SUBSET Items, NEW i \in Items, Receive(r, S, i)
        PROVE  BalanceExact'
    <2>1. /\ op'[r].pc = "receiving" /\ op'[r].entered = [k \in Keys |-> 0]
          /\ \A s \in Receivers : s # r => op'[s] = op[s]
          /\ balance' = balance /\ overtaken' = overtaken
      BY <1>1, BeginFacts DEF lines
    <2>2. BalanceExactFor(r)'
      BY <2>1 DEF BalanceExactFor
    <2> QED
      BY <2>1, <2>2, SameBalance
  <1>2. CASE wareOutcomeApplyTx(r)
    <2>1. /\ Receiving(r) /\ balance' = balance /\ overtaken' = overtaken
          /\ \A s \in Receivers : s # r => op'[s] = op[s]
      BY <1>2, IssueFacts DEF lines
    <2>2. PICK i \in op[r].left :
             /\ op'[r].at = i /\ op'[r].read = BalanceSeen(r, Key(i))
             /\ op'[r].balance = op[r].balance /\ op'[r].entered = op[r].entered
      BY <1>2, IssueFacts
    <2>3. op[r].left \in SUBSET Items /\ op[r].entered \in [Keys -> Nat]
      BY <1>r, <2>1, ReceiveType
    <2>4. Key(i) \in Keys
      BY <2>3, ItemParts
    <2>5. <<r, Key(i)>> \notin overtaken =>
             BalanceSeen(r, Key(i)) = balance[Key(i)] + op[r].entered[Key(i)]
      BY <1>b, <2>1, <2>3, <2>4 DEF BalanceSeen, BalanceExact
    <2>6. BalanceExactFor(r)'
      BY <2>1, <2>2, <2>5 DEF BalanceExact, BalanceExactFor
    <2> QED
      BY <2>1, <2>6, SameBalance
  <1>3. CASE brigadirDeliveryItemConfirmTx(r)
    <2> DEFINE j == op[r].at
               q == item[j].quantity
    <2>1. /\ Receiving(r) /\ balance' = balance /\ overtaken' = overtaken
          /\ op[r].pc = "issued" /\ op'[r].pc = "receiving"
          /\ op'[r].balance = [op[r].balance EXCEPT ![Key(j)] = op[r].read + q]
          /\ op'[r].entered = [op[r].entered EXCEPT ![Key(j)] = @ + q]
          /\ \A s \in Receivers : s # r => op'[s] = op[s]
      BY <1>3, WriteFacts DEF lines
    <2>2. /\ j \in Items /\ op[r].entered \in [Keys -> Nat]
          /\ op[r].balance \in [Keys -> 0 .. MaxStock]
      BY <1>r, <2>1, ReceiveType
    <2>3. Key(j) \in Keys /\ q \in Int
      BY <2>2, ItemParts DEF TypeOK, ItemRows
    <2>4. <<r, Key(j)>> \notin overtaken => op[r].read = balance[Key(j)] + op[r].entered[Key(j)]
      BY <2>1, <2>3 DEF BalanceExact
    <2>5. ASSUME NEW k \in Keys, <<r, k>> \notin overtaken, op'[r].entered[k] > 0
          PROVE  op'[r].balance[k] = balance[k] + op'[r].entered[k]
      <3>1. balance[k] \in Int /\ op[r].entered[k] \in Int
        BY <1>b, <2>2
      <3> HIDE DEF j, q
      <3>2. CASE k = Key(j)
        BY <2>1, <2>2, <2>3, <2>4, <2>5, <3>1, <3>2
      <3>3. CASE k # Key(j)
        BY <2>1, <2>2, <2>5, <3>3 DEF BalanceExact
      <3> QED
        BY <3>2, <3>3
    <2>6. BalanceExactFor(r)'
      BY <2>1, <2>5 DEF BalanceExactFor
    <2> QED
      BY <2>1, <2>6, SameBalance
  <1>4. CASE BrigadirCommit(r)
    <2>1. Receiving(r) /\ ~Receiving(r)' /\ \A s \in Receivers : s # r => op'[s] = op[s]
      BY <1>4, EndFacts DEF BrigadirCommit, Receiving
    <2>2. \A k \in Keys : balance'[k] # balance[k] => op[r].entered[k] > 0
      BY <1>4 DEF BrigadirCommit, BalanceSeen
    <2>3. \A k \in Keys : balance'[k] # balance[k] => Holds(r, k[2])
      BY <2>1, <2>2 DEF WritesHeld
    <2>4. ASSUME NEW s \in Receivers, Receiving(s)', NEW k \in Keys, Holds(s, k[2])
          PROVE  s # r /\ op'[s] = op[s] /\ Receiving(s) /\ balance'[k] = balance[k]
      <3>1. s # r /\ op'[s] = op[s] /\ Receiving(s)
        BY <2>1, <2>4 DEF Receiving
      <3>2. k[2] \in Components
        BY DEF Keys
      <3> QED
        BY <2>1, <2>3, <2>4, <3>1, <3>2 DEF Apart
    <2>5. ASSUME NEW s \in Receivers, Receiving(s)'
          PROVE  /\ s # r /\ op'[s] = op[s] /\ Receiving(s)
                 /\ \A k : <<s, k>> \notin overtaken' => <<s, k>> \notin overtaken
      <3>1. s # r /\ op'[s] = op[s] /\ Receiving(s) /\ s \in Requests
        BY <2>1, <2>5 DEF Receiving, Requests
      <3>2. \A k : <<s, k>> \notin overtaken' => <<s, k>> \notin overtaken
        BY <1>r, <1>4, <3>1, EndMarks DEF BrigadirCommit
      <3> QED
        BY <3>1, <3>2
    <2>6. ASSUME NEW s \in Receivers, Receiving(s)', NEW k \in Keys, <<s, k>> \notin overtaken',
                 op'[s].entered[k] > 0
          PROVE  op'[s].balance[k] = balance'[k] + op'[s].entered[k]
      BY <2>4, <2>5, <2>6 DEF BalanceExact, WritesHeld
    <2>7. ASSUME NEW s \in Receivers, Receiving(s)', NEW k \in Keys, <<s, k>> \notin overtaken',
                 op'[s].pc = "issued", Key(op'[s].at) = k
          PROVE  op'[s].read = balance'[k] + op'[s].entered[k]
      <3>1. op'[s] = op[s] /\ Receiving(s) /\ op[s].pc = "issued" /\ s \in Requests
            /\ <<s, k>> \notin overtaken
        BY <2>5, <2>7 DEF Requests
      <3>2. op[s].at \in Items /\ op[s].at \in op[s].done
        BY <3>1, ReceiveType DEF WritesHeld
      <3>3. Holds(s, k[2])
        BY <2>7, <3>1, <3>2, ItemParts DEF Holds, HeldItems, Key, Comp
      <3>4. balance'[k] = balance[k]
        BY <2>4, <2>7, <3>3
      <3> QED
        BY <2>7, <3>1, <3>4 DEF BalanceExact
    <2> QED
      BY <2>6, <2>7 DEF BalanceExact
  <1>5. CASE Fail(r)
    <2>1. ~Receiving(r)' /\ balance' = balance /\ \A s \in Receivers : s # r => op'[s] = op[s]
      BY <1>5, EndFacts DEF Fail, lines
    <2>2. \A s \in Receivers : \A k : s # r /\ <<s, k>> \notin overtaken' => <<s, k>> \notin overtaken
      BY <1>5, <1>r, EndMarks DEF Fail, Requests
    <2> QED
      BY <2>1, <2>2, SameBalance
  <1> QED
    BY <1>1, <1>2, <1>3, <1>4, <1>5, ReceiverSteps

LEMMA LineReceives ==
    ASSUME TypeOK, BalanceExact, NEW r \in Receivers, ReceiverStep(r), NEW k \in Keys
    PROVE  \/ balance'[k] - balance[k] = lineNet'[k] - lineNet[k]
           \/ <<r, k>> \in overtaken \ overtaken'
  <1>t. balance[k] \in Int /\ lineNet[k] \in Int
    BY DEF TypeOK
  <1>1. CASE BrigadirCommit(r)
    <2>1. Receiving(r) /\ r \in Requests
      BY <1>1 DEF BrigadirCommit, Receiving, Requests
    <2>2. /\ balance'[k] = BalanceSeen(r, k)
          /\ lineNet'[k] = lineNet[k] + op[r].entered[k]
      BY <1>1 DEF BrigadirCommit
    <2>3. op[r].entered[k] \in Nat
      BY <2>1, ReceiveType
    <2>4. <<r, k>> \notin overtaken'
      BY <1>1, EndUnmarks DEF BrigadirCommit
    <2>5. <<r, k>> \notin overtaken => BalanceSeen(r, k) = balance[k] + op[r].entered[k]
      BY <1>t, <2>1, <2>3 DEF BalanceSeen, BalanceExact
    <2> QED
      BY <1>t, <2>2, <2>3, <2>4, <2>5
  <1>2. CASE ~BrigadirCommit(r)
    <2>1. balance' = balance /\ lineNet' = lineNet
      BY <1>2, ReceiverSteps
         DEF Receive, wareOutcomeApplyTx, brigadirDeliveryItemConfirmTx, Fail, lines
    <2> QED
      BY <1>t, <2>1
  <1> QED
    BY <1>1, <1>2

(* What a change adds to a balance that nobody changed since it read it.   *)
LEMMA ChangeAdds ==
    ASSUME StockFlowAssumption, TypeOK, ChangeExact, NEW r \in LineOps, LinesBalanceApplyChange(r),
           NEW k \in Keys
    PROVE  \/ balance'[k] - balance[k] = lineNet'[k] - lineNet[k]
           \/ <<r, k>> \in overtaken \ overtaken'
  <1> DEFINE b == op[r].key
             q == op[r].change
  <1>r. r \in Requests
    BY DEF Requests
  <1>1. /\ op[r].pc = "line" /\ End(r, {b})
        /\ balance' = [balance EXCEPT ![b] = op[r].after]
        /\ lineNet' = [lineNet EXCEPT ![b] = @ + q]
    BY DEF LinesBalanceApplyChange
  <1>2. op[r] \in LineOp
    BY <1>r, <1>1, OpTypes DEF TypeOK
  <1>3. b \in Keys /\ q \in Int
    BY <1>2 DEF LineOp, StockFlowAssumption
  <1>4. \A d \in Keys : balance[d] \in Int /\ lineNet[d] \in Int
    BY DEF TypeOK
  <1>5. /\ balance'[b] = op[r].after /\ lineNet'[b] = lineNet[b] + q
        /\ k # b => balance'[k] = balance[k] /\ lineNet'[k] = lineNet[k]
    BY <1>1, <1>3 DEF TypeOK
  <1>6. <<r, k>> \notin overtaken'
    BY <1>1, EndUnmarks
  <1>7. CASE k # b
    BY <1>4, <1>5, <1>7
  <1>8. CASE k = b /\ <<r, k>> \notin overtaken
    <2>1. op[r].after = balance[b] + q
      BY <1>1, <1>8 DEF ChangeExact
    <2> HIDE DEF b, q
    <2> QED
      BY <1>3, <1>4, <1>5, <1>8, <2>1
  <1> QED
    BY <1>6, <1>7, <1>8

(* The warehouse and the notes leave the lines alone.                      *)
LEMMA LinesStand ==
    ASSUME UNCHANGED vars \/ (\E r \in Incomes : IncomeStep(r)) \/ (\E n \in Notes : NoteStep(n))
           \/ \E i \in Items : ItemStep(i)
    PROVE  balance' = balance /\ lineNet' = lineNet
  BY DEF IncomeStep, NoteStep, ItemStep, WareIncomeRead, WareIncomeApply, Fail,
     WareDeliveryNoteCreate, WareDeliveryNoteItemsConfirmAll,
     WareDeliveryNoteItemsUnconfirmAll, WareDeliveryNoteItemUpdateQuantity,
     WareDeliveryNoteItemConfirm, WareDeliveryNoteItemUnconfirm, WareDeliveryNoteItemDelete,
     lines, vars

(* A line writes no balance that a delivery has written, and marks those   *)
(* that a delivery has read.                                               *)
LEMMA BalanceStays ==
    ASSUME StockFlowAssumption, TypeOK, BalanceExact, ~\E r \in Receivers : ReceiverStep(r), [Next]_vars
    PROVE  BalanceExact'
  <1>1. \A s \in Receivers : op'[s] = op[s]
    BY OthersStand DEF Next, vars
  <1>2. ASSUME NEW s \in Receivers, Receiving(s), NEW k \in Keys, <<s, k>> \notin overtaken'
        PROVE  /\ <<s, k>> \notin overtaken
               /\ \/ balance'[k] = balance[k]
                  \/ op[s].entered[k] = 0 /\ ~(op[s].pc = "issued" /\ Key(op[s].at) = k)
    <2>s. s \in Requests
      BY DEF Requests
    <2>1. ASSUME NEW r \in Incomes \cup LineOps, NEW X, End(r, X)
          PROVE  <<s, k>> \notin overtaken /\ ~(k \in X /\ HasRead(s, k))
      <3>1. r \in Requests /\ s # r
        BY DEF Requests, StockFlowAssumption
      <3> QED
        BY <1>2, <2>1, <2>s, <3>1, EndMarks
    <2>2. CASE \E r \in LineOps : LinesBalanceApplyChange(r)
      <3>1. PICK r \in LineOps : LinesBalanceApplyChange(r)
        BY <2>2
      <3> DEFINE b == op[r].key
      <3>2. /\ End(r, {b}) /\ BalanceUnlocked(b)
            /\ balance' = [balance EXCEPT ![b] = op[r].after]
        BY <3>1 DEF LinesBalanceApplyChange
      <3>3. <<s, k>> \notin overtaken /\ ~(k = b /\ HasRead(s, k))
        BY <2>1, <3>2
      <3>4. CASE k = b
        <4>1. op[s].entered[k] = 0
          BY <1>2, <3>2, <3>4 DEF BalanceUnlocked
        <4>2. ~(op[s].pc = "issued" /\ Key(op[s].at) = k)
          BY <3>3, <3>4, <4>1 DEF HasRead
        <4> QED
          BY <3>3, <4>1, <4>2
      <3>5. CASE k # b
        BY <3>2, <3>3, <3>5 DEF TypeOK
      <3> QED
        BY <3>4, <3>5
    <2>3. CASE ~\E r \in LineOps : LinesBalanceApplyChange(r)
      <3>1. balance' = balance
        BY <2>3, LinesStand DEF Next, LineStep, LinesBalanceRead, Fail, lines
      <3>2. CASE \E r \in Incomes : IncomeStep(r)
        BY <2>1, <1>2, <3>1, <3>2 DEF IncomeStep, WareIncomeRead, WareIncomeApply, Fail, Begin
      <3>3. CASE \E r \in LineOps : LineStep(r)
        BY <2>1, <2>3, <1>2, <3>1, <3>3 DEF LineStep, LinesBalanceRead, Fail, Begin
      <3>4. CASE UNCHANGED vars \/ (\E n \in Notes : NoteStep(n)) \/ \E i \in Items : ItemStep(i)
        BY <1>2, <3>1, <3>4, NotesMark DEF vars
      <3> QED
        BY <3>2, <3>3, <3>4 DEF Next
    <2> QED
      BY <2>2, <2>3
  <1>3. ASSUME NEW s \in Receivers, Receiving(s)', NEW k \in Keys, <<s, k>> \notin overtaken'
        PROVE  /\ op'[s].entered[k] > 0 => op'[s].balance[k] = balance'[k] + op'[s].entered[k]
               /\ op'[s].pc = "issued" /\ Key(op'[s].at) = k =>
                     op'[s].read = balance'[k] + op'[s].entered[k]
    <2>1. op'[s] = op[s] /\ Receiving(s)
      BY <1>1, <1>3 DEF Receiving
    <2>2. /\ <<s, k>> \notin overtaken
          /\ \/ balance'[k] = balance[k]
             \/ op[s].entered[k] = 0 /\ ~(op[s].pc = "issued" /\ Key(op[s].at) = k)
      BY <1>2, <1>3, <2>1
    <2>3. /\ op[s].entered[k] > 0 => op[s].balance[k] = balance[k] + op[s].entered[k]
          /\ op[s].pc = "issued" /\ Key(op[s].at) = k => op[s].read = balance[k] + op[s].entered[k]
      BY <2>1, <2>2 DEF BalanceExact
    <2> QED
      BY <2>1, <2>2, <2>3
  <1> QED
    BY <1>3 DEF BalanceExact

LEMMA ChangeStays ==
    ASSUME StockFlowAssumption, TypeOK, ChangeExact, NEW r \in Requests, NEW X, End(r, X),
           \A k \in Keys \ X : balance'[k] = balance[k]
    PROVE  ChangeExact'
  <1>1. ASSUME NEW s \in LineOps, op'[s].pc = "line", <<s, op'[s].key>> \notin overtaken'
        PROVE  op'[s].after = balance'[op'[s].key] + op'[s].change
    <2>0. s \in Requests
      BY DEF Requests
    <2>1. s # r
      BY <1>1 DEF End, TypeOK, Idle
    <2>2. op'[s] = op[s] /\ op[s].pc = "line" /\ op[s] \in LineOp
      BY <1>1, <2>0, <2>1, EndMarks, OpTypes DEF TypeOK
    <2>3. <<s, op[s].key>> \notin overtaken /\ ~(op[s].key \in X /\ HasRead(s, op[s].key))
      BY <1>1, <2>0, <2>1, <2>2, EndMarks
    <2>4. op[s].key \in Keys \ X
      BY <2>2, <2>3 DEF HasRead, LineOp
    <2> QED
      BY <2>2, <2>3, <2>4 DEF ChangeExact
  <1> QED
    BY <1>1 DEF ChangeExact

LEMMA ChangeNext ==
    ASSUME StockFlowAssumption, TypeOK, ChangeExact, [Next]_vars
    PROVE  ChangeExact'
  <1>1. ASSUME balance' = balance, \A s \in LineOps : op'[s] = op[s], overtaken' = overtaken
        PROVE  ChangeExact'
    BY <1>1 DEF ChangeExact
  <1>2. ASSUME NEW r \in LineOps, LineStep(r)
        PROVE  ChangeExact'
    <2>1. ASSUME NEW k \in Keys, NEW change \in -MaxQuantity .. MaxQuantity,
                 LinesBalanceRead(r, k, change)
          PROVE  ChangeExact'
      <3> DEFINE o == [pc |-> "line", key |-> k, change |-> change, after |-> balance[k] + change]
      <3>1. op' = [op EXCEPT ![r] = o] /\ overtaken' = overtaken /\ balance' = balance
        BY <2>1 DEF LinesBalanceRead, Begin, lines
      <3>2. op'[r] = o /\ \A s \in LineOps : s # r => op'[s] = op[s]
        BY <3>1 DEF TypeOK, Requests
      <3> QED
        BY <3>1, <3>2 DEF ChangeExact
    <2>2. CASE LinesBalanceApplyChange(r)
      <3>1. End(r, {op[r].key}) /\ balance' = [balance EXCEPT ![op[r].key] = op[r].after]
        BY <2>2 DEF LinesBalanceApplyChange
      <3>2. \A k \in Keys \ {op[r].key} : balance'[k] = balance[k]
        BY <3>1 DEF TypeOK
      <3> QED
        BY <3>1, <3>2, ChangeStays DEF Requests
    <2>3. CASE Fail(r)
      <3>1. End(r, {}) /\ balance' = balance
        BY <2>3 DEF Fail, lines
      <3> QED
        BY <3>1, ChangeStays DEF Requests
    <2> QED
      BY <1>2, <2>1, <2>2, <2>3 DEF LineStep
  <1>3. ASSUME NEW r \in Incomes, IncomeStep(r)
        PROVE  ChangeExact'
    <2>0. \A s \in LineOps : s # r
      BY DEF StockFlowAssumption
    <2>1. balance' = balance
      BY <1>3, LinesStand
    <2>2. ASSUME NEW X, End(r, X)
          PROVE  ChangeExact'
      BY <2>1, <2>2, ChangeStays DEF Requests
    <2>3. CASE WareIncomeApply(r) \/ Fail(r)
      BY <2>2, <2>3 DEF WareIncomeApply, Fail
    <2>4. CASE \E c \in Components, q \in Quantities : WareIncomeRead(r, c, q)
      <3>1. overtaken' = overtaken /\ \A s \in LineOps : op'[s] = op[s]
        BY <2>0, <2>4 DEF WareIncomeRead, Begin, TypeOK, Requests
      <3> QED
        BY <1>1, <2>1, <3>1
    <2> QED
      BY <1>3, <2>3, <2>4 DEF IncomeStep
  <1>4. ASSUME NEW r \in Receivers, ReceiverStep(r)
        PROVE  ChangeExact'
    <2>0. \A s \in LineOps : s # r
      BY DEF StockFlowAssumption
    <2>1. CASE BrigadirCommit(r)
      <3> DEFINE X == {c \in Components : op[r].issued[c] > 0} \cup {k \in Keys : op[r].entered[k] > 0}
      <3>0. Receiving(r) /\ op[r].entered \in [Keys -> Nat]
        BY <2>1, ReceiveType DEF BrigadirCommit, Receiving, Requests
      <3>1. End(r, X) /\ \A k \in Keys \ X : balance'[k] = balance[k]
        BY <2>1, <3>0 DEF BrigadirCommit, BalanceSeen
      <3> HIDE DEF X
      <3> QED
        BY <3>1, ChangeStays DEF Requests
    <2>2. CASE Fail(r)
      <3>1. End(r, {}) /\ balance' = balance
        BY <2>2 DEF Fail, lines
      <3> QED
        BY <3>1, ChangeStays DEF Requests
    <2>3. CASE (\E S \in SUBSET Items, i \in Items : Receive(r, S, i))
               \/ wareOutcomeApplyTx(r) \/ brigadirDeliveryItemConfirmTx(r)
      BY <1>1, <2>0, <2>3, Unfinished DEF lines, Requests
    <2> QED
      BY <1>4, <2>1, <2>2, <2>3, ReceiverSteps
  <1>5. ASSUME UNCHANGED vars \/ (\E n \in Notes : NoteStep(n)) \/ \E i \in Items : ItemStep(i)
        PROVE  ChangeExact'
    <2>1. balance' = balance /\ op' = op /\ overtaken' = overtaken
      BY <1>5, LinesStand, NotesMark DEF vars
    <2> QED
      BY <1>1, <2>1
  <1> QED
    BY <1>2, <1>3, <1>4, <1>5 DEF Next

LineInv == Apart /\ WritesHeld /\ BalanceExact /\ ChangeExact

LEMMA LineNext ==
    ASSUME StockFlowAssumption, TypeOK, LineInv, [Next]_vars
    PROVE  LineInv'
  <1>1. (Apart /\ WritesHeld)'
    BY HeldNext DEF LineInv
  <1>2. BalanceExact'
    BY BalanceReceives, BalanceStays DEF LineInv
  <1>3. ChangeExact'
    BY ChangeNext DEF LineInv
  <1> QED
    BY <1>1, <1>2, <1>3 DEF LineInv

LEMMA LineInvariant == Spec => []LineInv
  <1>1. Init => LineInv
    BY DEF Init, LineInv, Apart, WritesHeld, BalanceExact, ChangeExact, Idle, Receiving, Requests
  <1>2. TypeOK /\ LineInv /\ [Next]_vars => LineInv'
    BY StockFlowAssumption, LineNext
  <1> QED
    BY <1>1, <1>2, TypeCorrect, PTL DEF Spec

(* Deliveries, production, consumption and corrections overlap, fail and   *)
(* are undone: a balance moves as lines.balance_transactions say, but      *)
(* where one of them writes over what was committed since it read it.      *)
THEOREM BalanceKeepsLedger == Spec => LineLedger
  <1> DEFINE Exact == \A k \in Keys :
                         \/ balance'[k] - balance[k] = lineNet'[k] - lineNet[k]
                         \/ \E r \in LineOps \cup Receivers : <<r, k>> \in overtaken \ overtaken'
  <1>1. TypeOK /\ LineInv /\ [Next]_vars => Exact
    <2> SUFFICES ASSUME TypeOK, LineInv, [Next]_vars, NEW k \in Keys
                 PROVE  \/ balance'[k] - balance[k] = lineNet'[k] - lineNet[k]
                        \/ \E r \in LineOps \cup Receivers : <<r, k>> \in overtaken \ overtaken'
      OBVIOUS
    <2>t. balance[k] \in Int /\ lineNet[k] \in Int
      BY DEF TypeOK
    <2>1. CASE \E r \in Receivers : ReceiverStep(r)
      BY <2>1, LineReceives DEF LineInv
    <2>2. CASE \E r \in LineOps : LinesBalanceApplyChange(r)
      BY <2>2, StockFlowAssumption, ChangeAdds DEF LineInv
    <2>3. CASE ~(\E r \in Receivers : ReceiverStep(r)) /\ ~\E r \in LineOps : LinesBalanceApplyChange(r)
      <3>1. balance' = balance /\ lineNet' = lineNet
        BY <2>3, LinesStand DEF Next, LineStep, LinesBalanceRead, Fail, lines
      <3> QED
        BY <2>t, <3>1
    <2> QED
      BY <2>1, <2>2, <2>3
  <1> QED
    BY <1>1, TypeCorrect, LineInvariant, PTL DEF Spec, LineLedger

-----------------------------------------------------------------------------
(* Sums over finite sets: what MapThenSumSet computes does not depend on   *)
(* the order of its choices, and grows by the amount of a new element.     *)

Total(S, q) == Delivered!Total(S, q)

Pick(s) == CHOOSE x \in s : TRUE

Adds(g, S, q) ==
    g = [s \in SUBSET S |-> IF s = {} THEN 0 ELSE q[Pick(s)] + g[s \ {Pick(s)}]]

LEMMA SmallestSet ==
    ASSUME NEW S, IsFiniteSet(S), NEW F \in SUBSET SUBSET S, F # {}
    PROVE  \E T \in F : \A U \in F : U \subseteq T => U = T
  <1>1. IsWellFoundedOn(StrictSubsetOrdering(S), FiniteSubsetsOf(S))
    BY FS_StrictSubsetOrderingWellFounded
  <1>2. F \subseteq FiniteSubsetsOf(S)
    BY FS_Subset DEF FiniteSubsetsOf
  <1>3. PICK T \in F : \A U \in F : ~ (<<U, T>> \in StrictSubsetOrdering(S))
    BY <1>1, <1>2, WFMin
  <1> QED
    BY <1>3 DEF StrictSubsetOrdering

LEMMA TotalAdds ==
    ASSUME NEW S, NEW q
    PROVE  Total(S, q) = (CHOOSE g : Adds(g, S, q))[S]
  BY DEF Total, Delivered!Total, Delivered!MapThenSumSet, Delivered!MapThenFoldSet, Adds, Pick
LEMMA PickIn ==
    ASSUME NEW s, s # {}
    PROVE  Pick(s) \in s
  BY DEF Pick

LEMMA AddsValue ==
    ASSUME NEW S, NEW q, NEW g, Adds(g, S, q), NEW s \in SUBSET S
    PROVE  g[s] = IF s = {} THEN 0 ELSE q[Pick(s)] + g[s \ {Pick(s)}]
  <1> DEFINE G == [t \in SUBSET S |-> IF t = {} THEN 0 ELSE q[Pick(t)] + g[t \ {Pick(t)}]]
  <1>1. g = G
    BY DEF Adds
  <1>2. G[s] = IF s = {} THEN 0 ELSE q[Pick(s)] + g[s \ {Pick(s)}]
    OBVIOUS
  <1> HIDE DEF G
  <1>3. g[s] = G[s]
    BY <1>1
  <1> QED
    BY <1>2, <1>3

(* A set has one sum, whichever larger set it is summed in.                *)
LEMMA AddsAgree ==
    ASSUME NEW S, NEW T, NEW q, NEW g, NEW h, Adds(g, S, q), Adds(h, T, q)
    PROVE  \A U \in SUBSET (S \cap T) : IsFiniteSet(U) => g[U] = h[U]
  <1>g. \A t \in SUBSET S : g[t] = IF t = {} THEN 0 ELSE q[Pick(t)] + g[t \ {Pick(t)}]
    BY AddsValue
  <1>h. \A t \in SUBSET T : h[t] = IF t = {} THEN 0 ELSE q[Pick(t)] + h[t \ {Pick(t)}]
    BY AddsValue
  <1> SUFFICES ASSUME NEW U \in SUBSET (S \cap T), IsFiniteSet(U)
               PROVE  g[U] = h[U]
    OBVIOUS
  <1> DEFINE F == {s \in SUBSET U : g[s] # h[s]}
  <1> SUFFICES ASSUME F # {} PROVE FALSE
    OBVIOUS
  <1>1. PICK s \in F : \A t \in F : t \subseteq s => t = s
    <2>1. F \in SUBSET SUBSET U
      OBVIOUS
    <2> HIDE DEF F
    <2> QED
      BY <2>1, SmallestSet
  <1>2. s \in SUBSET S /\ s \in SUBSET T /\ s \in SUBSET U /\ g[s] # h[s]
    OBVIOUS
  <1>v. /\ g[s] = IF s = {} THEN 0 ELSE q[Pick(s)] + g[s \ {Pick(s)}]
        /\ h[s] = IF s = {} THEN 0 ELSE q[Pick(s)] + h[s \ {Pick(s)}]
    BY <1>2, <1>g, <1>h
  <1>3. s # {}
    BY <1>2, <1>v
  <1> DEFINE t == s \ {Pick(s)}
  <1>4. t \in SUBSET U /\ t \subseteq s /\ t # s
    BY <1>2, <1>3, PickIn
  <1>5. g[t] = h[t]
    BY <1>1, <1>4
  <1>6. g[s] = q[Pick(s)] + g[t] /\ h[s] = q[Pick(s)] + h[t]
    BY <1>3, <1>v
  <1> QED
    BY <1>2, <1>5, <1>6

LEMMA AddsExists ==
    ASSUME NEW S, NEW q, IsFiniteSet(S)
    PROVE  \E g : Adds(g, S, q)
  <1> DEFINE F == {s \in SUBSET S : ~ \E g : Adds(g, s, q)}
  <1> SUFFICES ASSUME F # {} PROVE FALSE
    OBVIOUS
  <1>1. PICK T \in F : \A t \in F : t \subseteq T => t = T
    <2>1. F \in SUBSET SUBSET S
      OBVIOUS
    <2> HIDE DEF F
    <2> QED
      BY <2>1, SmallestSet
  <1>2. T \in SUBSET S /\ IsFiniteSet(T) /\ ~ \E g : Adds(g, T, q)
    BY FS_Subset
  <1> DEFINE H(U) == CHOOSE g : Adds(g, U, q)
             rest(s) == s \ {Pick(s)}
             G == [s \in SUBSET T |-> IF s = {} THEN 0 ELSE q[Pick(s)] + H(rest(s))[rest(s)]]
  <1>3. ASSUME NEW U \in SUBSET T, U # T
        PROVE  Adds(H(U), U, q)
    <2>1. \E g : Adds(g, U, q)
      BY <1>1, <1>2, <1>3
    <2> QED
      BY <2>1
  <1> HIDE DEF F, H
  <1>4. ASSUME NEW s \in SUBSET T, s # {}
        PROVE  /\ rest(s) \in SUBSET T /\ rest(s) # T /\ rest(s) \subseteq s /\ IsFiniteSet(rest(s))
    BY <1>2, <1>4, PickIn, FS_Subset
  <1>5. ASSUME NEW U \in SUBSET T, U # T
        PROVE  G[U] = H(U)[U]
    <2>1. CASE U = {}
      <3>1. H(U)[U] = 0
        BY <1>3, <1>5, <2>1, AddsValue
      <3> QED
        BY <2>1, <3>1
    <2>2. CASE U # {}
      <3>1. H(U)[U] = q[Pick(U)] + H(U)[rest(U)]
        BY <1>3, <1>5, <2>2, AddsValue
      <3>2. H(U)[rest(U)] = H(rest(U))[rest(U)]
        BY <1>3, <1>4, <1>5, <2>2, AddsAgree
      <3> QED
        BY <2>2, <3>1, <3>2
    <2> QED
      BY <2>1, <2>2
  <1>6. \A s \in SUBSET T : s # {} => H(rest(s))[rest(s)] = G[rest(s)]
    <2> HIDE DEF G, rest
    <2> QED
      BY <1>4, <1>5
  <1>7. Adds(G, T, q)
    <2> DEFINE K == [s \in SUBSET T |-> IF s = {} THEN 0 ELSE q[Pick(s)] + G[rest(s)]]
    <2>1. \A s \in SUBSET T : G[s] = K[s]
      <3> SUFFICES ASSUME NEW s \in SUBSET T PROVE G[s] = K[s]
        OBVIOUS
      <3>1. G[s] = IF s = {} THEN 0 ELSE q[Pick(s)] + H(rest(s))[rest(s)]
        OBVIOUS
      <3>2. K[s] = IF s = {} THEN 0 ELSE q[Pick(s)] + G[rest(s)]
        <4> HIDE DEF G
        <4> QED
          OBVIOUS
      <3> HIDE DEF G, K, rest
      <3> QED
        BY <1>6, <3>1, <3>2
    <2>2. G = [s \in SUBSET T |-> G[s]] /\ K = [s \in SUBSET T |-> K[s]]
      OBVIOUS
    <2>3. G = K
      <3> HIDE DEF G, K
      <3> QED
        BY <2>1, <2>2
    <2> HIDE DEF G
    <2> QED
      BY <2>3 DEF Adds
  <1> QED
    BY <1>2, <1>7

LEMMA TotalFacts ==
    ASSUME NEW S, NEW q, IsFiniteSet(S)
    PROVE  \E g : Adds(g, S, q) /\ \A U \in SUBSET S : Total(U, q) = g[U]
  <1>1. PICK g : Adds(g, S, q)
    BY AddsExists
  <1>2. ASSUME NEW U \in SUBSET S
        PROVE  Total(U, q) = g[U]
    <2> DEFINE h == CHOOSE f : Adds(f, U, q)
    <2>1. IsFiniteSet(U)
      BY FS_Subset
    <2>2. Adds(h, U, q)
      BY <2>1, AddsExists
    <2> HIDE DEF h
    <2>3. h[U] = g[U]
      BY <1>1, <2>1, <2>2, AddsAgree
    <2> QED
      BY <2>3, TotalAdds DEF h
  <1> QED
    BY <1>1, <1>2

LEMMA TotalEmpty ==
    ASSUME NEW q
    PROVE  Total({}, q) = 0
  BY TotalFacts, AddsValue, FS_EmptySet

LEMMA TotalPick ==
    ASSUME NEW S, NEW q, IsFiniteSet(S), S # {}
    PROVE  Total(S, q) = q[Pick(S)] + Total(S \ {Pick(S)}, q)
  <1>1. PICK g : Adds(g, S, q) /\ \A U \in SUBSET S : Total(U, q) = g[U]
    BY TotalFacts
  <1> QED
    BY <1>1, AddsValue

LEMMA TotalType ==
    ASSUME NEW S, NEW q, IsFiniteSet(S), \A x \in S : q[x] \in Int
    PROVE  Total(S, q) \in Int
  <1> DEFINE F == {s \in SUBSET S : Total(s, q) \notin Int}
  <1> SUFFICES ASSUME F # {} PROVE FALSE
    OBVIOUS
  <1>1. PICK s \in F : \A t \in F : t \subseteq s => t = s
    <2>1. F \in SUBSET SUBSET S
      OBVIOUS
    <2> HIDE DEF F
    <2> QED
      BY <2>1, SmallestSet
  <1>2. s \in SUBSET S /\ IsFiniteSet(s) /\ Total(s, q) \notin Int
    BY FS_Subset
  <1>3. s # {}
    BY <1>2, TotalEmpty
  <1> DEFINE t == s \ {Pick(s)}
  <1>4. Pick(s) \in S /\ t \in SUBSET S /\ t \subseteq s /\ t # s
    BY <1>2, <1>3, PickIn
  <1>5. Total(t, q) \in Int
    BY <1>1, <1>4
  <1>6. Total(s, q) = q[Pick(s)] + Total(t, q)
    BY <1>2, <1>3, TotalPick
  <1> QED
    BY <1>2, <1>4, <1>5, <1>6

(* The order of a sum does not matter.                                     *)
LEMMA TotalRemoves ==
    ASSUME NEW S, NEW q, IsFiniteSet(S), \A y \in S : q[y] \in Int, NEW x \in S
    PROVE  Total(S, q) = q[x] + Total(S \ {x}, q)
  <1> DEFINE F == {s \in SUBSET S : \E y \in s : Total(s, q) # q[y] + Total(s \ {y}, q)}
  <1> SUFFICES ASSUME F # {} PROVE FALSE
    OBVIOUS
  <1>1. PICK s \in F : \A t \in F : t \subseteq s => t = s
    <2>1. F \in SUBSET SUBSET S
      OBVIOUS
    <2> HIDE DEF F
    <2> QED
      BY <2>1, SmallestSet
  <1>2. s \in SUBSET S /\ IsFiniteSet(s)
    BY FS_Subset
  <1>3. PICK y \in s : Total(s, q) # q[y] + Total(s \ {y}, q)
    OBVIOUS
  <1> DEFINE p == Pick(s)
             t == s \ {p}
             u == s \ {y}
             v == s \ {p, y}
  <1>4. Total(s, q) = q[p] + Total(t, q) /\ p \in s
    BY <1>2, TotalPick, PickIn
  <1>5. p # y
    BY <1>3, <1>4
  <1>6. /\ t \in SUBSET S /\ t \subseteq s /\ t # s /\ y \in t /\ t \ {y} = v
        /\ u \in SUBSET S /\ u \subseteq s /\ u # s /\ p \in u /\ u \ {p} = v
    BY <1>2, <1>4, <1>5
  <1>7. Total(t, q) = q[y] + Total(v, q) /\ Total(u, q) = q[p] + Total(v, q)
    BY <1>1, <1>6
  <1>8. q[p] \in Int /\ q[y] \in Int /\ Total(v, q) \in Int
    <2>1. IsFiniteSet(v) /\ \A z \in v : q[z] \in Int
      BY <1>2, FS_Subset
    <2> QED
      BY <1>2, <1>4, <2>1, TotalType
  <1> HIDE DEF p, t, u, v
  <1>9. Total(s, q) # q[y] + Total(u, q)
    BY <1>3 DEF u
  <1> QED
    BY <1>4, <1>7, <1>8, <1>9

LEMMA TotalSame ==
    ASSUME NEW S, NEW q, NEW p, IsFiniteSet(S), \A x \in S : p[x] = q[x]
    PROVE  Total(S, p) = Total(S, q)
  <1> DEFINE F == {s \in SUBSET S : Total(s, p) # Total(s, q)}
  <1> SUFFICES ASSUME F # {} PROVE FALSE
    OBVIOUS
  <1>1. PICK s \in F : \A t \in F : t \subseteq s => t = s
    <2>1. F \in SUBSET SUBSET S
      OBVIOUS
    <2> HIDE DEF F
    <2> QED
      BY <2>1, SmallestSet
  <1>2. s \in SUBSET S /\ IsFiniteSet(s) /\ Total(s, p) # Total(s, q)
    BY FS_Subset
  <1>3. s # {}
    BY <1>2, TotalEmpty
  <1> DEFINE t == s \ {Pick(s)}
  <1>4. Pick(s) \in S /\ t \in SUBSET S /\ t \subseteq s /\ t # s
    BY <1>2, <1>3, PickIn
  <1>5. Total(t, p) = Total(t, q)
    BY <1>1, <1>4
  <1>6. Total(s, p) = p[Pick(s)] + Total(t, p) /\ Total(s, q) = q[Pick(s)] + Total(t, q)
    BY <1>2, <1>3, TotalPick
  <1> QED
    BY <1>2, <1>4, <1>5, <1>6

-----------------------------------------------------------------------------
(* A delivery, whole, is one step of Handover.                             *)

Amounts == [i \in Items |-> item[i].quantity]

(* Of what a delivery has issued, what is on its line.                     *)
Arrived(o) == IF o.pc = "issued" THEN o.done \ {o.at} ELSE o.done

Summed(o, q) ==
    /\ IsFiniteSet(o.done) /\ o.left \cap o.done = {}
    /\ \A c \in Components : o.issued[c] = Total({i \in o.done : Comp(i) = c}, q)
    /\ \A k \in Keys : o.entered[k] = Total({i \in Arrived(o) : Key(i) = k}, q)

LEMMA SummedSame ==
    ASSUME NEW o, NEW q, NEW p, Summed(o, q), \A i \in o.done : p[i] = q[i]
    PROVE  Summed(o, p)
  <1>1. IsFiniteSet(o.done) /\ Arrived(o) \subseteq o.done
    BY DEF Summed, Arrived
  <1>2. ASSUME NEW S \in SUBSET o.done
        PROVE  Total(S, p) = Total(S, q)
    BY <1>1, FS_Subset, TotalSame
  <1>3. ASSUME NEW c \in Components
        PROVE  o.issued[c] = Total({i \in o.done : Comp(i) = c}, p)
    BY <1>2 DEF Summed
  <1>4. ASSUME NEW k \in Keys
        PROVE  o.entered[k] = Total({i \in Arrived(o) : Key(i) = k}, p)
    BY <1>1, <1>2 DEF Summed
  <1> QED
    BY <1>3, <1>4 DEF Summed

LEMMA SummedBegins ==
    ASSUME NEW o, NEW q, o.pc = "receiving", o.done = {},
           o.issued = [c \in Components |-> 0], o.entered = [k \in Keys |-> 0]
    PROVE  Summed(o, q)
  <1>1. Arrived(o) = {} /\ IsFiniteSet({}) /\ Total({}, q) = 0
    BY FS_EmptySet, TotalEmpty DEF Arrived
  <1>2. \A c : {i \in o.done : Comp(i) = c} = {}
    OBVIOUS
  <1>3. \A k : {i \in Arrived(o) : Key(i) = k} = {}
    BY <1>1
  <1> QED
    BY <1>1, <1>2, <1>3 DEF Summed

(* One more element of a set that is summed by P.                          *)
LEMMA TotalGrows ==
    ASSUME NEW S, NEW q, IsFiniteSet(S), \A y \in S : q[y] \in Int, NEW x, x \notin S, q[x] \in Int
    PROVE  Total(S \cup {x}, q) = Total(S, q) + q[x] /\ Total(S, q) \in Int
  <1> DEFINE T == S \cup {x}
  <1>1. IsFiniteSet(T) /\ x \in T /\ T \ {x} = S /\ \A y \in T : q[y] \in Int
    BY FS_AddElement
  <1>2. Total(S, q) \in Int
    BY TotalType
  <1> HIDE DEF T
  <1>3. Total(T, q) = q[x] + Total(T \ {x}, q)
    BY <1>1, TotalRemoves
  <1>4. Total(T \ {x}, q) = Total(S, q)
    BY <1>1, Zenon
  <1>5. Total(T, q) = Total(S, q) + q[x]
    BY <1>2, <1>3, <1>4
  <1> QED
    BY <1>2, <1>5 DEF T

LEMMA SummedIssues ==
    ASSUME NEW o, NEW n, NEW q \in [Items -> Int], Summed(o, q), NEW i \in o.left,
           o.left \subseteq Items, o.done \subseteq Items, o.pc = "receiving",
           DOMAIN o.issued = Components,
           n.pc = "issued", n.at = i, n.left = o.left \ {i}, n.done = o.done \cup {i},
           n.issued = [o.issued EXCEPT ![Comp(i)] = @ + q[i]], n.entered = o.entered
    PROVE  Summed(n, q)
  <1>1. IsFiniteSet(o.done) /\ i \notin o.done /\ i \in Items /\ Comp(i) \in Components
    BY ItemParts DEF Summed
  <1>2. IsFiniteSet(n.done) /\ n.left \cap n.done = {}
    BY <1>1, FS_AddElement DEF Summed
  <1>3. Arrived(n) = Arrived(o)
    BY <1>1 DEF Arrived
  <1>4. ASSUME NEW c \in Components
        PROVE  n.issued[c] = Total({j \in n.done : Comp(j) = c}, q)
    <2> DEFINE S == {j \in o.done : Comp(j) = c}
    <2>1. o.issued[c] = Total(S, q)
      BY DEF Summed
    <2>2. CASE c = Comp(i)
      <3>1. {j \in n.done : Comp(j) = c} = S \cup {i} /\ i \notin S
        BY <1>1, <2>2
      <3>2. IsFiniteSet(S) /\ \A y \in S : q[y] \in Int
        BY <1>1, FS_Subset
      <3> HIDE DEF S
      <3>3. Total(S \cup {i}, q) = Total(S, q) + q[i]
        BY <1>1, <3>1, <3>2, TotalGrows
      <3>4. n.issued[c] = o.issued[c] + q[i]
        BY <2>2
      <3> QED
        BY <2>1, <3>1, <3>3, <3>4
    <2>3. CASE c # Comp(i)
      <3>1. {j \in n.done : Comp(j) = c} = S
        BY <2>3
      <3>2. n.issued[c] = o.issued[c]
        BY <2>3
      <3> QED
        BY <2>1, <3>1, <3>2
    <2> QED
      BY <2>2, <2>3
  <1>5. \A k \in Keys : n.entered[k] = Total({j \in Arrived(n) : Key(j) = k}, q)
    BY <1>3 DEF Summed
  <1> QED
    BY <1>2, <1>4, <1>5 DEF Summed

LEMMA SummedEnters ==
    ASSUME NEW o, NEW n, NEW q \in [Items -> Int], Summed(o, q),
           o.done \subseteq Items, o.pc = "issued", o.at \in o.done,
           DOMAIN o.entered = Keys,
           n.pc = "receiving", n.left = o.left, n.done = o.done, n.issued = o.issued,
           n.entered = [o.entered EXCEPT ![Key(o.at)] = @ + q[o.at]]
    PROVE  Summed(n, q)
  <1> DEFINE i == o.at
  <1>1. IsFiniteSet(o.done) /\ i \in o.done /\ i \in Items /\ Key(i) \in Keys
    BY ItemParts DEF Summed
  <1>2. Arrived(n) = o.done /\ Arrived(o) = o.done \ {i}
    BY DEF Arrived
  <1>3. ASSUME NEW k \in Keys
        PROVE  n.entered[k] = Total({j \in Arrived(n) : Key(j) = k}, q)
    <2> DEFINE S == {j \in Arrived(o) : Key(j) = k}
    <2>1. o.entered[k] = Total(S, q)
      BY DEF Summed
    <2>2. CASE k = Key(i)
      <3>1. {j \in Arrived(n) : Key(j) = k} = S \cup {i} /\ i \notin S
        BY <1>1, <1>2, <2>2
      <3>2. IsFiniteSet(S) /\ \A y \in S : q[y] \in Int
        BY <1>1, <1>2, FS_Subset
      <3> HIDE DEF S
      <3>3. Total(S \cup {i}, q) = Total(S, q) + q[i]
        BY <1>1, <3>1, <3>2, TotalGrows
      <3>4. n.entered[k] = o.entered[k] + q[i]
        BY <2>2
      <3> QED
        BY <2>1, <3>1, <3>3, <3>4
    <2>3. CASE k # Key(i)
      <3>1. {j \in Arrived(n) : Key(j) = k} = S
        BY <1>2, <2>3
      <3>2. n.entered[k] = o.entered[k]
        BY <2>3
      <3> QED
        BY <2>1, <3>1, <3>2
    <2> QED
      BY <2>2, <2>3
  <1> QED
    BY <1>3 DEF Summed

SumsExact == \A r \in Receivers : Receiving(r) => Summed(op[r], Amounts)

Charged == \A i \in Items : item[i].state # "none" => item[i].quantity \in Quantities

(* Nobody changes the quantity of what a delivery holds.                   *)
LEMMA AmountsStay ==
    ASSUME StockFlowAssumption, Inv, Charged, [Next]_vars
    PROVE  /\ Charged'
           /\ \A s \in Receivers : Receiving(s) =>
                 \A i \in HeldItems(s) : i \in Items /\ item'[i].quantity = item[i].quantity
  <1>h. \A s \in Receivers : Receiving(s) => HeldItems(s) \subseteq Items
    BY ReceiveType DEF Inv, HeldItems, Requests
  <1>1. CASE item' = item
    BY <1>h, <1>1 DEF Charged
  <1>2. CASE \A i \in Items : Rewritten(i)
    <2>1. Charged'
      BY <1>2 DEF Charged, Rewritten
    <2>2. ASSUME NEW s \in Receivers, Receiving(s), NEW i \in HeldItems(s)
          PROVE  i \in Items /\ item'[i].quantity = item[i].quantity
      <3>1. i \in Items /\ item[i].state = "ready" /\ ~ItemUnlocked(i)
        BY <1>h, <2>2 DEF Inv, HeldReady, ItemUnlocked
      <3> QED
        BY <1>2, <3>1 DEF Rewritten
    <2> QED
      BY <2>1, <2>2
  <1>3. CASE \E r \in Receivers : BrigadirCommit(r)
    <2>1. PICK r \in Receivers : BrigadirCommit(r)
      BY <1>3
    <2>2. \A i \in Items : item'[i] = item[i] \/ item'[i] = [item[i] EXCEPT !.received = TRUE]
      BY <2>1 DEF BrigadirCommit
    <2>3. \A i \in Items : /\ [item[i] EXCEPT !.received = TRUE].quantity = item[i].quantity
                            /\ [item[i] EXCEPT !.received = TRUE].state = item[i].state
      BY DEF Inv, TypeOK, ItemRows
    <2>4. \A i \in Items : item'[i].quantity = item[i].quantity /\ item'[i].state = item[i].state
      BY <2>2, <2>3
    <2> QED
      BY <1>h, <2>4 DEF Charged
  <1>4. ASSUME NEW r \in Receivers, ReceiverStep(r), ~BrigadirCommit(r)
        PROVE  item' = item
    BY <1>4, ReceiverSteps
       DEF Receive, wareOutcomeApplyTx, brigadirDeliveryItemConfirmTx, Fail
  <1>5. ASSUME (\E r \in Incomes : IncomeStep(r)) \/ (\E r \in LineOps : LineStep(r)) \/ UNCHANGED vars
        PROVE  item' = item
    BY <1>5 DEF IncomeStep, LineStep, WareIncomeRead, WareIncomeApply, LinesBalanceRead,
       LinesBalanceApplyChange, Fail, vars
  <1>6. ASSUME (\E n \in Notes : NoteStep(n)) \/ \E i \in Items : ItemStep(i)
        PROVE  \A i \in Items : Rewritten(i)
    BY <1>6, NoteRewrites, ItemRewrites
  <1> QED
    BY <1>1, <1>2, <1>3, <1>4, <1>5, <1>6 DEF Next

LEMMA OthersSummed ==
    ASSUME SumsExact, NEW r \in Receivers, \A s \in Receivers : s # r => op'[s] = op[s],
           \A s \in Receivers : Receiving(s) =>
              \A i \in HeldItems(s) : i \in Items /\ item'[i].quantity = item[i].quantity,
           Receiving(r)' => Summed(op'[r], Amounts')
    PROVE  SumsExact'
  <1>1. ASSUME NEW s \in Receivers, s # r, Receiving(s)'
        PROVE  Summed(op'[s], Amounts')
    <2>1. op'[s] = op[s] /\ Receiving(s)
      BY <1>1 DEF Receiving
    <2>2. \A i \in op[s].done : Amounts'[i] = Amounts[i]
      BY <2>1 DEF Amounts, HeldItems
    <2>3. Summed(op[s], Amounts)
      BY <2>1 DEF SumsExact
    <2>4. Summed(op[s], Amounts')
      BY <2>2, <2>3, SummedSame
    <2> QED
      BY <2>1, <2>4
  <1> QED
    BY <1>1 DEF SumsExact

LEMMA SumsReceive ==
    ASSUME StockFlowAssumption, Inv, WritesHeld, Charged, SumsExact, [Next]_vars,
           NEW r \in Receivers, ReceiverStep(r)
    PROVE  SumsExact'
  <1>a. \A s \in Receivers : Receiving(s) =>
           \A i \in HeldItems(s) : i \in Items /\ item'[i].quantity = item[i].quantity
    BY AmountsStay
  <1>r. r \in Requests
    BY DEF Requests
  <1>t. TypeOK /\ Amounts \in [Items -> Int]
    BY DEF Inv, TypeOK, ItemRows, Amounts
  <1>1. ASSUME NEW S \in SUBSET Items, NEW i \in Items, Receive(r, S, i)
        PROVE  SumsExact'
    <2>1. /\ op'[r].pc = "receiving" /\ op'[r].done = {}
          /\ op'[r].issued = [c \in Components |-> 0] /\ op'[r].entered = [k \in Keys |-> 0]
          /\ \A s \in Receivers : s # r => op'[s] = op[s]
      BY <1>1, <1>t, BeginFacts
    <2>2. Summed(op'[r], Amounts')
      BY <2>1, SummedBegins
    <2> QED
      BY <1>a, <2>1, <2>2, OthersSummed
  <1>2. CASE wareOutcomeApplyTx(r)
    <2>1. /\ Receiving(r) /\ op[r].pc = "receiving" /\ Amounts' = Amounts
          /\ \A s \in Receivers : s # r => op'[s] = op[s]
      BY <1>2, <1>t, IssueFacts DEF Amounts
    <2>2. PICK i \in op[r].left :
             /\ op'[r].pc = "issued" /\ op'[r].at = i
             /\ op'[r].left = op[r].left \ {i} /\ op'[r].done = op[r].done \cup {i}
             /\ op'[r].issued = [op[r].issued EXCEPT ![Comp(i)] = @ + item[i].quantity]
             /\ op'[r].entered = op[r].entered
      BY <1>2, <1>t, IssueFacts
    <2>3. /\ op[r].left \subseteq Items /\ op[r].done \subseteq Items
          /\ DOMAIN op[r].issued = Components
      BY <1>r, <1>t, <2>1, ReceiveType
    <2>4. item[i].quantity = Amounts[i] /\ Summed(op[r], Amounts)
      BY <2>1, <2>3 DEF Amounts, SumsExact
    <2>5. Summed(op'[r], Amounts)
      BY <1>t, <2>1, <2>2, <2>3, <2>4, SummedIssues
    <2> QED
      BY <1>a, <2>1, <2>5, OthersSummed
  <1>3. CASE brigadirDeliveryItemConfirmTx(r)
    <2>1. /\ Receiving(r) /\ op[r].pc = "issued" /\ Amounts' = Amounts
          /\ op'[r].pc = "receiving"
          /\ op'[r].left = op[r].left /\ op'[r].done = op[r].done
          /\ op'[r].issued = op[r].issued
          /\ op'[r].entered = [op[r].entered EXCEPT ![Key(op[r].at)] = @ + item[op[r].at].quantity]
          /\ \A s \in Receivers : s # r => op'[s] = op[s]
      BY <1>3, <1>t, WriteFacts DEF Amounts
    <2>2. /\ op[r].done \subseteq Items /\ op[r].at \in op[r].done
          /\ DOMAIN op[r].entered = Keys
      BY <1>r, <1>t, <2>1, ReceiveType DEF WritesHeld
    <2>3. item[op[r].at].quantity = Amounts[op[r].at] /\ Summed(op[r], Amounts)
      BY <2>1, <2>2 DEF Amounts, SumsExact
    <2>4. Summed(op'[r], Amounts)
      BY <1>t, <2>1, <2>2, <2>3, SummedEnters
    <2> QED
      BY <1>a, <2>1, <2>4, OthersSummed
  <1>4. CASE BrigadirCommit(r) \/ Fail(r)
    <2>1. ~Receiving(r)' /\ \A s \in Receivers : s # r => op'[s] = op[s]
      BY <1>4, <1>t, EndFacts DEF BrigadirCommit, Fail
    <2> QED
      BY <1>a, <2>1, OthersSummed
  <1> QED
    BY <1>1, <1>2, <1>3, <1>4, ReceiverSteps

LEMMA SumsNext ==
    ASSUME StockFlowAssumption, Inv, WritesHeld, Charged, SumsExact, [Next]_vars
    PROVE  SumsExact'
  <1>1. CASE \E r \in Receivers : ReceiverStep(r)
    BY <1>1, SumsReceive
  <1>2. CASE ~\E r \in Receivers : ReceiverStep(r)
    <2>1. \A s \in Receivers : op'[s] = op[s]
      BY <1>2, OthersStand DEF Next, vars, Inv
    <2>2. \A s \in Receivers : Receiving(s) =>
             \A i \in HeldItems(s) : i \in Items /\ item'[i].quantity = item[i].quantity
      BY AmountsStay
    <2>3. ASSUME NEW r \in Receivers, Receiving(r)'
          PROVE  Summed(op'[r], Amounts')
      <3>1. op'[r] = op[r] /\ Receiving(r)
        BY <2>1, <2>3 DEF Receiving
      <3>2. Summed(op[r], Amounts) /\ \A i \in op[r].done : Amounts'[i] = Amounts[i]
        BY <2>2, <3>1 DEF SumsExact, Amounts, HeldItems
      <3>3. Summed(op[r], Amounts')
        BY <3>2, SummedSame
      <3> QED
        BY <3>1, <3>3
    <2> QED
      BY <2>3 DEF SumsExact
  <1> QED
    BY <1>1, <1>2

Received == {i \in Items : item[i].received}

LEMMA CommitHandsOver ==
    ASSUME Inv, WritesHeld, StockExact, Charged, SumsExact,
           NEW r \in Receivers, BrigadirCommit(r)
    PROVE  Delivered!Next
  <1> DEFINE S == op[r].done
             q == [i \in S |-> item[i].quantity]
  <1>r. r \in Requests /\ TypeOK
    BY DEF Requests, Inv
  <1>1. Receiving(r) /\ op[r].pc = "receiving"
    BY DEF BrigadirCommit, Receiving
  <1>2. /\ S \subseteq Items /\ HeldItems(r) = S
        /\ op[r].issued \in [Components -> Nat] /\ op[r].entered \in [Keys -> Nat]
    BY <1>r, <1>1, ReceiveType DEF BrigadirCommit, HeldItems
  <1>3. \A i \in S : item[i].state = "ready" /\ item[i].received = FALSE
    BY <1>1, <1>2 DEF Inv, HeldReady
  <1>4. S \in SUBSET (Items \ Received) /\ q \in [S -> 1 .. MaxQuantity]
    BY <1>2, <1>3 DEF Received, Charged, Quantities
  <1>5. Summed(op[r], Amounts) /\ Arrived(op[r]) = S
    BY <1>1 DEF SumsExact, Arrived
  <1>6. Summed(op[r], q)
    <2>1. \A i \in S : q[i] = Amounts[i]
      BY <1>2 DEF Amounts
    <2> HIDE DEF q
    <2> QED
      BY <1>5, <2>1, SummedSame
  <1> HIDE DEF q
  <1>7. \A c \in Components : op[r].issued[c] = Total({i \in S : i[2] = c}, q)
    BY <1>6 DEF Summed, Comp
  <1>8. \A k \in Keys : op[r].entered[k] = Total({i \in S : <<i[3], i[2]>> = k}, q)
    BY <1>5, <1>6 DEF Summed, Key
  <1>9. stock' = [c \in Components |-> stock[c] - op[r].issued[c]]
    <2>1. stock' = [c \in Components |-> IF op[r].issued[c] > 0 THEN op[r].stock[c] ELSE stock[c]]
      BY DEF BrigadirCommit
    <2>2. \A c \in Components : op[r].issued[c] > 0 => op[r].stock[c] = stock[c] - op[r].issued[c]
      BY <1>1 DEF WritesHeld, StockExact
    <2>3. \A c \in Components : stock[c] \in Int /\ op[r].issued[c] \in Nat
      BY <1>r, <1>2 DEF TypeOK
    <2>4. \A c \in Components :
             (IF op[r].issued[c] > 0 THEN op[r].stock[c] ELSE stock[c]) = stock[c] - op[r].issued[c]
      BY <2>2, <2>3
    <2> QED
      BY <2>1, <2>4
  <1>10. lineNet' = [k \in Keys |-> lineNet[k] + op[r].entered[k]]
    BY DEF BrigadirCommit
  <1>11. Received' = Received \cup S
    <2>1. item' = [i \in Items |->
                      IF i \in S THEN [item[i] EXCEPT !.received = TRUE] ELSE item[i]]
      BY DEF BrigadirCommit
    <2>2. \A i \in Items : [item[i] EXCEPT !.received = TRUE].received = TRUE
      BY <1>r DEF TypeOK, ItemRows
    <2>3. \A i \in Items : i \in S => item'[i].received
      BY <2>1, <2>2
    <2>4. \A i \in Items : i \notin S => item'[i] = item[i]
      BY <2>1
    <2> QED
      BY <1>2, <2>3, <2>4 DEF Received
  <1> HIDE DEF S
  <1>12. stock' = [c \in Components |-> stock[c] - Total({i \in S : i[2] = c}, q)]
    BY <1>7, <1>9
  <1>13. lineNet' = [k \in Lines \X Components |->
                        lineNet[k] + Total({i \in S : <<i[3], i[2]>> = k}, q)]
    BY <1>8, <1>10 DEF Keys
  <1>14. S \in SUBSET (Delivered!Items \ {i \in Items : item[i].received})
    BY <1>4 DEF Received, Delivered!Items, Items
  <1>15. q \in [S -> 1 .. MaxQuantity]
    BY <1>4
  <1> QED
    BY <1>11, <1>12, <1>13, <1>14, <1>15
       DEF Delivered!Next, Delivered!HandOver, Total, Received

LEMMA OthersReceiveNothing ==
    ASSUME StockFlowAssumption, Inv, [Next]_vars, ~ \E r \in Receivers : BrigadirCommit(r)
    PROVE  Delivered!Stocked \/ Delivered!Changed \/ UNCHANGED <<stock, lineNet, Received>>
  <1>1. ASSUME UNCHANGED <<ware, lines>>, \A i \in Items : Rewritten(i)
        PROVE  UNCHANGED <<stock, lineNet, Received>>
    BY <1>1 DEF ware, lines, Rewritten, Received
  <1>2. ASSUME UNCHANGED <<ware, lines, item>>
        PROVE  UNCHANGED <<stock, lineNet, Received>>
    BY <1>2 DEF ware, lines, Received
  <1>3. ASSUME NEW r \in Receivers, ReceiverStep(r)
        PROVE  UNCHANGED <<ware, lines, item>>
    BY <1>3, ReceiverSteps
       DEF Receive, wareOutcomeApplyTx, brigadirDeliveryItemConfirmTx, Fail
  <1>4. ASSUME UNCHANGED vars
        PROVE  UNCHANGED <<ware, lines, item>>
    BY <1>4 DEF vars, ware, lines
  <1>5. ASSUME (\E n \in Notes : NoteStep(n)) \/ \E i \in Items : ItemStep(i)
        PROVE  UNCHANGED <<ware, lines>> /\ \A i \in Items : Rewritten(i)
    BY <1>5, NoteRewrites, ItemRewrites
  <1>6. ASSUME NEW r \in Incomes, WareIncomeApply(r)
        PROVE  Delivered!Stocked
    <2> DEFINE c == op[r].comp
    <2>1. op[r].pc = "income" /\ r \in Requests
      BY <1>6 DEF WareIncomeApply, Requests
    <2>2. c \in Components
      BY <2>1, OpTypes DEF Inv, TypeOK, IncomeOp
    <2>3. stock' = [stock EXCEPT ![c] = op[r].after] /\ lineNet' = lineNet /\ item' = item
      BY <1>6 DEF WareIncomeApply, lines
    <2>4. stock' = [stock EXCEPT ![c] = stock'[c]]
      BY <2>2, <2>3 DEF Inv, TypeOK
    <2> HIDE DEF c
    <2> QED
      BY <2>2, <2>3, <2>4 DEF Delivered!Stocked
  <1>7. ASSUME NEW r \in LineOps, LinesBalanceApplyChange(r)
        PROVE  Delivered!Changed
    <2> DEFINE k == op[r].key
    <2>1. op[r].pc = "line" /\ r \in Requests
      BY <1>7 DEF LinesBalanceApplyChange, Requests
    <2>2. k \in Lines \X Components
      BY <2>1, OpTypes DEF Inv, TypeOK, LineOp, Keys
    <2>3. lineNet' = [lineNet EXCEPT ![k] = @ + op[r].change] /\ stock' = stock /\ item' = item
      BY <1>7 DEF LinesBalanceApplyChange, ware
    <2>4. lineNet' = [lineNet EXCEPT ![k] = lineNet'[k]]
      BY <2>2, <2>3 DEF Inv, TypeOK, Keys
    <2> HIDE DEF k
    <2> QED
      BY <2>2, <2>3, <2>4 DEF Delivered!Changed
  <1>8. ASSUME NEW r \in Incomes, IncomeStep(r), ~WareIncomeApply(r)
        PROVE  UNCHANGED <<ware, lines, item>>
    BY <1>8 DEF IncomeStep, WareIncomeRead, Fail
  <1>9. ASSUME NEW r \in LineOps, LineStep(r), ~LinesBalanceApplyChange(r)
        PROVE  UNCHANGED <<ware, lines, item>>
    BY <1>9 DEF LineStep, LinesBalanceRead, Fail
  <1> QED
    BY <1>1, <1>2, <1>3, <1>4, <1>5, <1>6, <1>7, <1>8, <1>9 DEF Next

SumsInv == Charged /\ SumsExact

(* A delivery of many items, its rows taken and written one by one beside  *)
(* any number of others, of incomes and of changes of the lines, is one    *)
(* step from the stock to the transactions of the lines.                   *)
THEOREM DeliveriesHandOver == Spec => DeliveryIsHandover
  <1>1. Init => SumsInv
    BY DEF Init, SumsInv, Charged, SumsExact, NoItem, Idle, Receiving, Requests
  <1>2. TypeOK /\ OnceInv /\ WareInv /\ SumsInv /\ [Next]_vars => SumsInv'
    <2> SUFFICES ASSUME TypeOK, OnceInv, WareInv, SumsInv, [Next]_vars
                 PROVE  SumsInv'
      OBVIOUS
    <2>1. Inv /\ WritesHeld
      BY DEF Inv, OnceInv, WareInv
    <2> QED
      BY <2>1, StockFlowAssumption, AmountsStay, SumsNext DEF SumsInv
  <1>3. Init => Delivered!Init
    BY DEF Init, Delivered!Init, NoItem, Keys
  <1>4. TypeOK /\ OnceInv /\ WareInv /\ SumsInv /\ [Next]_vars
        => [Delivered!Next]_<<stock, lineNet, {i \in Items : item[i].received}>>
    <2> SUFFICES ASSUME TypeOK, OnceInv, WareInv, SumsInv, [Next]_vars
                 PROVE  Delivered!Next \/ UNCHANGED <<stock, lineNet, Received>>
      BY DEF Received
    <2>1. Inv
      BY DEF Inv, OnceInv
    <2>2. CASE \E r \in Receivers : BrigadirCommit(r)
      BY <2>1, <2>2, CommitHandsOver DEF WareInv, SumsInv
    <2>3. CASE ~ \E r \in Receivers : BrigadirCommit(r)
      BY <2>1, <2>3, StockFlowAssumption, OthersReceiveNothing DEF Delivered!Next
    <2> QED
      BY <2>2, <2>3
  <1> QED
    BY <1>1, <1>2, <1>3, <1>4, TypeCorrect, OnceInvariant, WareInvariant, PTL
       DEF Spec, DeliveryIsHandover, Delivered!Spec

-----------------------------------------------------------------------------
(* The door line.                                                          *)

(* To the warehouse and the balances a print request is an operation of a  *)
(* line.                                                                   *)
LEMMA DoorStepMoves ==
    ASSUME DoorRowsOK, NEW r \in DoorRequests, DoorStep(r)
    PROVE  UNCHANGED vars \/ LineStep(r)
  <1> DEFINE p == door[r].at
  <1>1. /\ 1 \in -MaxQuantity .. MaxQuantity
        /\ -1 \in -MaxQuantity .. MaxQuantity
    BY DoorPrintAssumption, StockFlowAssumption DEF DoorPrintAssumption, StockFlowAssumption
  <1>2. DoorKey(p) \in Keys
    BY DoorPrintAssumption DEF DoorRowsOK, Positions, DoorKey, Keys, Parts, DoorPrintAssumption
  <1>3. LinesBalanceRead(r, DoorKey(p), 1) \/ LinesBalanceRead(r, DoorKey(p), -1) => LineStep(r)
    BY <1>1, <1>2 DEF LineStep
  <1>4. LinesBalanceApplyChange(r) \/ Fail(r) => LineStep(r)
    BY DEF LineStep
  <1>5. CASE EshikChiqishBalanceApply(r) \/ EshikPrintRollback(r)
    BY <1>3, <1>5 DEF EshikChiqishBalanceApply, EshikPrintRollback
  <1>6. CASE EshikChiqishBalanceCommit(r) \/ EshikPrintRollbackCommit(r)
    BY <1>4, <1>6 DEF EshikChiqishBalanceCommit, EshikPrintRollbackCommit
  <1>7. CASE WriteFails(r) \/ RollbackFails(r) \/ Stop(r)
    BY <1>4, <1>7 DEF WriteFails, RollbackFails, Stop
  <1>8. CASE \/ LinesEshikV2Print(r) \/ EshikNextDailyCounter(r)
             \/ \E l \in Letters : EshikPrintSessionCreate(r, l)
             \/ NumberFails(r) \/ SessionFails(r) \/ BalanceFails(r)
             \/ EshikDailyCounterUndo(r) \/ eshikSendPrintV2(r)
    BY <1>8 DEF LinesEshikV2Print, EshikNextDailyCounter, EshikPrintSessionCreate, NumberFails,
                SessionFails, BalanceFails, EshikDailyCounterUndo, eshikSendPrintV2
  <1> QED
    BY <1>5, <1>6, <1>7, <1>8 DEF DoorStep

LEMMA DoorNextMoves ==
    ASSUME DoorRowsOK, [DoorNext]_<<vars, doorVars>>
    PROVE  [Next]_vars
  <1>1. CASE \E r \in DoorRequests : DoorStep(r)
    BY <1>1, DoorStepMoves, DoorPrintAssumption DEF Next, DoorPrintAssumption
  <1>2. CASE UNCHANGED vars
    BY <1>2
  <1>3. CASE DoorNext /\ ~(\E r \in DoorRequests : DoorStep(r))
    BY <1>3 DEF DoorNext, Step, Next
  <1> QED
    BY <1>1, <1>2, <1>3

-----------------------------------------------------------------------------
LEMMA RestRows ==
    ASSUME DoorRowsOK, NEW r \in DoorRequests, Rest(r)
    PROVE  /\ sessions' \subseteq SessionRows
           /\ door' \in [DoorRequests -> Positions]
  <1>1. Resting \in Positions
    BY DoorPrintAssumption DEF Resting, Positions, Parts, Numbers, DoorPrintAssumption
  <1>2. ASSUME NEW s \in SessionRows
        PROVE  [s EXCEPT !.owner = IF @ = r THEN Nobody ELSE @] \in SessionRows
    BY <1>2 DEF SessionRows
  <1> QED
    BY <1>1, <1>2 DEF Rest, DoorRowsOK

LEMMA GotoType ==
    ASSUME DoorRowsOK, NEW r \in DoorRequests, NEW pc,
           pc \in {"number", "session", "balance", "write", "rollback", "rolling", "undo"},
           Goto(r, pc)
    PROVE  door' \in [DoorRequests -> Positions]
  BY DEF Goto, DoorRowsOK, Positions

LEMMA BackType ==
    ASSUME DoorRowsOK, NEW r \in DoorRequests, Back(r)
    PROVE  /\ sessions' \subseteq SessionRows
           /\ door' \in [DoorRequests -> Positions]
  <1>1. CASE door[r].at = Ref
    BY <1>1, DoorPrintAssumption DEF Back, DoorRowsOK, Positions, Parts
  <1>2. CASE door[r].at # Ref
    BY <1>2, RestRows DEF Back
  <1> QED
    BY <1>1, <1>2

LEMMA DoorRowsKept ==
    ASSUME DoorRowsOK, NEW r \in DoorRequests, DoorStep(r)
    PROVE  DoorRowsOK'
  <1>t. /\ door[r] \in Positions /\ door[r].at \in Parts /\ door[r].number \in Numbers
        /\ MaxNumber \in Nat
    BY DoorPrintAssumption DEF DoorRowsOK, Positions, DoorPrintAssumption
  <1>1. CASE LinesEshikV2Print(r)
    BY <1>1, GotoType DEF LinesEshikV2Print, DoorRowsOK
  <1>2. CASE EshikNextDailyCounter(r)
    <2>1. counter[door[r].at] + 1 \in Numbers
      BY <1>2, <1>t DEF EshikNextDailyCounter, DoorRowsOK, Numbers
    <2>2. counter' \in [Parts -> Numbers]
      BY <1>2, <1>t, <2>1 DEF EshikNextDailyCounter, DoorRowsOK
    <2>3. door' \in [DoorRequests -> Positions]
      BY <1>2, <1>t, <2>1 DEF EshikNextDailyCounter, DoorRowsOK, Positions
    <2> QED
      BY <1>2, <2>2, <2>3 DEF EshikNextDailyCounter, DoorRowsOK
  <1>3. ASSUME NEW l \in Letters, EshikPrintSessionCreate(r, l)
        PROVE  DoorRowsOK'
    <2>1. Serial(door[r].at, door[r].number, l) \in Serials
      BY <1>t DEF Serial, Serials, Parts
    <2>2. [owner |-> r, part |-> door[r].at, number |-> door[r].number,
           serial |-> Serial(door[r].at, door[r].number, l), door |-> FALSE] \in SessionRows
      BY <1>t, <2>1 DEF SessionRows
    <2>3. door' \in [DoorRequests -> Positions]
      BY <1>3, GotoType DEF EshikPrintSessionCreate
    <2> QED
      BY <1>3, <2>2, <2>3 DEF EshikPrintSessionCreate, DoorRowsOK
  <1>4. CASE EshikChiqishBalanceApply(r)
    BY <1>4, GotoType DEF EshikChiqishBalanceApply, DoorRowsOK
  <1>5. CASE EshikChiqishBalanceCommit(r)
    <2>1. \A s \in SessionRows : [s EXCEPT !.door = TRUE] \in SessionRows
      BY DEF SessionRows
    <2>2. sessions' \subseteq SessionRows
      BY <1>5, <2>1 DEF EshikChiqishBalanceCommit, DoorRowsOK, Own
    <2>3. door' \in [DoorRequests -> Positions]
      BY <1>5, <1>t DEF EshikChiqishBalanceCommit, DoorRowsOK, Positions, Parts
    <2> QED
      BY <1>5, <2>2, <2>3 DEF EshikChiqishBalanceCommit, DoorRowsOK
  <1>6. CASE NumberFails(r)
    BY <1>6, BackType DEF NumberFails, DoorRowsOK
  <1>7. CASE SessionFails(r)
    BY <1>7, GotoType DEF SessionFails, DoorRowsOK
  <1>8. CASE BalanceFails(r)
    BY <1>8, GotoType DEF BalanceFails, DoorRowsOK
  <1>9. CASE WriteFails(r)
    BY <1>9, GotoType DEF WriteFails, DoorRowsOK
  <1>10. CASE EshikPrintRollback(r)
    BY <1>10, GotoType DEF EshikPrintRollback, DoorRowsOK
  <1>11. CASE EshikPrintRollbackCommit(r)
    BY <1>11, GotoType DEF EshikPrintRollbackCommit, DoorRowsOK
  <1>12. CASE RollbackFails(r)
    BY <1>12, BackType DEF RollbackFails, DoorRowsOK
  <1>13. CASE EshikDailyCounterUndo(r)
    <2>1. Undone(counter[door[r].at]) \in Numbers
      BY <1>t DEF Undone, DoorRowsOK, Numbers
    <2>2. counter' \in [Parts -> Numbers]
      BY <1>13, <2>1 DEF EshikDailyCounterUndo, DoorRowsOK
    <2> QED
      BY <1>13, <2>2, BackType DEF EshikDailyCounterUndo, DoorRowsOK
  <1>14. CASE eshikSendPrintV2(r)
    <2>1. labels' \in [Serials -> Nat]
      <3>1. CASE labels' = [s \in Serials |-> IF \E o \in Own(r) : o.serial = s
                                              THEN labels[s] + 1 ELSE labels[s]]
        BY <3>1 DEF DoorRowsOK
      <3>2. CASE UNCHANGED labels
        BY <3>2 DEF DoorRowsOK
      <3> QED
        BY <1>14, <3>1, <3>2 DEF eshikSendPrintV2
    <2>2. door' \in [DoorRequests -> Positions] /\ sessions' \subseteq SessionRows
      <3>1. CASE door[r].at = Freeze
        BY <1>14, <3>1 DEF eshikSendPrintV2, DoorRowsOK, Positions, Parts
      <3>2. CASE door[r].at # Freeze
        BY <1>14, <3>2, RestRows DEF eshikSendPrintV2
      <3> QED
        BY <3>1, <3>2
    <2> QED
      BY <1>14, <2>1, <2>2 DEF eshikSendPrintV2, DoorRowsOK
  <1>15. CASE Stop(r)
    BY <1>15, RestRows DEF Stop, DoorRowsOK
  <1> QED
    BY <1>1, <1>2, <1>3, <1>4, <1>5, <1>6, <1>7, <1>8, <1>9, <1>10, <1>11, <1>12, <1>13, <1>14,
       <1>15 DEF DoorStep

LEMMA DoorRowsInitial == DoorInit => DoorRowsOK
  BY DoorPrintAssumption DEF DoorInit, DoorRowsOK, Resting, Positions, Parts, Numbers,
     DoorPrintAssumption

LEMMA DoorRowsNext == DoorRowsOK /\ [DoorNext]_<<vars, doorVars>> => DoorRowsOK'
  <1> SUFFICES ASSUME DoorRowsOK, [DoorNext]_<<vars, doorVars>>
               PROVE  DoorRowsOK'
    OBVIOUS
  <1>1. CASE \E r \in DoorRequests : DoorStep(r)
    BY <1>1, DoorRowsKept
  <1>2. CASE UNCHANGED doorVars
    BY <1>2 DEF doorVars, DoorRowsOK
  <1> QED
    BY <1>1, <1>2 DEF DoorNext, Step, doorVars

(* Whatever the print requests do is among what StockFlow lets its lines   *)
(* do.                                                                     *)
THEOREM DoorsAreLineOps == DoorSpec => Spec
  <1>1. DoorInit => Init
    BY DEF DoorInit
  <1>2. DoorRowsOK /\ [DoorNext]_<<vars, doorVars>> => [Next]_vars
    BY DoorNextMoves
  <1> QED
    BY <1>1, <1>2, DoorRowsInitial, DoorRowsNext, PTL DEF DoorSpec, Spec

(* No roll-back takes the balance of the door line below zero.             *)
THEOREM DoorTypeCorrect == DoorSpec => []DoorTypeOK
  BY DoorsAreLineOps, TypeCorrect, DoorRowsInitial, DoorRowsNext, PTL DEF DoorSpec, DoorTypeOK

THEOREM DoorsLeaveIssues == DoorSpec => []ReceivedOnce
  BY DoorsAreLineOps, IssuedOnce, PTL

-----------------------------------------------------------------------------
(* First labels.                                                           *)

(* What a request at position o may hold: no session yet of the door it is *)
(* at before it stores one, the freeze door recorded while it is at the    *)
(* ref door, and both recorded when it prints.                             *)
HeldAt(s, o) ==
    /\ o.pc # "resting"
    /\ o.pc \in {"number", "session"} => s.part # o.at
    /\ o.pc \in {"number", "session", "balance", "write"} => (s.part # o.at => o.at = Ref /\ s.door)
    /\ o.pc = "print" => s.door

Held == \A s \in sessions : s.owner # Nobody => HeldAt(s, door[s.owner])

(* One session of a part for a request.                                    *)
OnePerPart ==
    \A s, t \in sessions :
        s.owner # Nobody /\ s.owner = t.owner /\ s.part = t.part => s = t

SerialsDistinct == \A d, e \in Doors : d.serial = e.serial => d = e

(* Nothing is printed for a door its request has not come to.              *)
Unprinted ==
    \A d \in Doors : d.owner # Nobody =>
        \/ labels[d.serial] = 0
        \/ door[d.owner].pc = "print" /\ door[d.owner].at = Ref /\ d.part = Freeze

LabelInv == Held /\ OnePerPart /\ SerialsDistinct /\ Unprinted /\ FirstLabelKept

LEMMA RowTypes ==
    ASSUME DoorRowsOK, NEW s \in sessions
    PROVE  /\ s \in SessionRows /\ s.serial \in Serials /\ s.part \in Parts
           /\ s.door \in BOOLEAN /\ s.number \in Numbers
           /\ s.owner # Nobody => s.owner \in DoorRequests
  BY DEF DoorRowsOK, SessionRows

(* A request goes on and touches neither sessions nor labels.              *)
LEMMA MoveKeeps ==
    ASSUME DoorRowsOK, LabelInv, NEW r \in DoorRequests, NEW o,
           door' = [door EXCEPT ![r] = o], UNCHANGED <<sessions, labels>>,
           door[r].pc # "print",
           \A s \in sessions : s.owner = r => HeldAt(s, o)
    PROVE  LabelInv'
  <1>1. Doors' = Doors
    BY DEF Doors
  <1>2. \A q \in DoorRequests : door'[q] = IF q = r THEN o ELSE door[q]
    BY DEF DoorRowsOK
  <1>3. Held'
    BY <1>2, RowTypes DEF LabelInv, Held, HeldAt
  <1>4. Unprinted'
    BY <1>1, <1>2, RowTypes DEF LabelInv, Unprinted, Doors
  <1> QED
    BY <1>1, <1>3, <1>4 DEF LabelInv, OnePerPart, SerialsDistinct, FirstLabelKept

(* A request goes to rest: its rows stay, without an owner.                *)
Freed(s, r) == [s EXCEPT !.owner = IF @ = r THEN Nobody ELSE @]

LEMMA RestKeepsRows ==
    ASSUME DoorRowsOK, NEW r \in DoorRequests, Rest(r)
    PROVE  /\ \A t \in sessions' : \E s \in sessions :
                 /\ t.serial = s.serial /\ t.part = s.part /\ t.door = s.door
                 /\ t = Freed(s, r)
                 /\ t.owner # r
                 /\ t.owner # Nobody => t = s
           /\ \A s \in sessions : \E t \in sessions' : t.serial = s.serial /\ t.door = s.door
  <1>1. sessions' = {Freed(s, r) : s \in sessions}
    BY DEF Rest, Freed
  <1>2. ASSUME NEW s \in sessions
        PROVE  /\ Freed(s, r).serial = s.serial /\ Freed(s, r).part = s.part
               /\ Freed(s, r).door = s.door
               /\ Freed(s, r).owner # r
               /\ Freed(s, r).owner # Nobody => Freed(s, r) = s
    BY RowTypes, DoorPrintAssumption DEF Freed, SessionRows, DoorPrintAssumption
  <1> QED
    BY <1>1, <1>2

LEMMA RestKeepsHeld ==
    ASSUME DoorRowsOK, LabelInv, NEW r \in DoorRequests, Rest(r)
    PROVE  /\ Held' /\ OnePerPart' /\ SerialsDistinct'
           /\ \A d \in Doors' : d.owner # Nobody =>
                 d \in Doors /\ d.owner # r /\ door'[d.owner] = door[d.owner]
  <1>1. \A q \in DoorRequests : q # r => door'[q] = door[q]
    BY DEF Rest, DoorRowsOK
  <1>2. \A t \in sessions' : t.owner # Nobody =>
           t \in sessions /\ t.owner \in DoorRequests \ {r} /\ door'[t.owner] = door[t.owner]
    BY <1>1, RestKeepsRows, RowTypes
  <1>3. Held' /\ OnePerPart'
    BY <1>2 DEF LabelInv, Held, OnePerPart
  <1>4. SerialsDistinct'
    BY RestKeepsRows DEF LabelInv, SerialsDistinct, Doors
  <1> QED
    BY <1>2, <1>3, <1>4 DEF Doors

LEMMA RestKeeps ==
    ASSUME DoorRowsOK, LabelInv, NEW r \in DoorRequests, Rest(r), UNCHANGED labels
    PROVE  LabelInv'
  <1>1. Unprinted'
    BY RestKeepsHeld DEF LabelInv, Unprinted
  <1>2. FirstLabelKept'
    BY RestKeepsRows DEF LabelInv, FirstLabelKept, Doors
  <1> QED
    BY <1>1, <1>2, RestKeepsHeld DEF LabelInv

LEMMA BackKeeps ==
    ASSUME DoorRowsOK, LabelInv, NEW r \in DoorRequests, Back(r), UNCHANGED labels,
           door[r].pc \in {"number", "rollback", "rolling", "undo"}
    PROVE  LabelInv'
  <1>1. CASE door[r].at = Ref
    <2> DEFINE o == [door[r] EXCEPT !.at = Freeze, !.pc = "rollback"]
    <2>1. door' = [door EXCEPT ![r] = o] /\ UNCHANGED sessions
      BY <1>1 DEF Back, DoorRowsOK
    <2>2. o.pc = "rollback"
      BY DEF DoorRowsOK, Positions
    <2>3. \A s \in sessions : s.owner = r => HeldAt(s, o)
      BY <2>2 DEF HeldAt
    <2> QED
      BY <2>1, <2>3, MoveKeeps
  <1>2. CASE door[r].at # Ref
    BY <1>2, RestKeeps DEF Back
  <1> QED
    BY <1>1, <1>2

(* A request goes on to pc at the door it is at.                           *)
LEMMA GotoKeeps ==
    ASSUME DoorRowsOK, LabelInv, NEW r \in DoorRequests,
           NEW pc \in {"number", "session", "balance", "write", "rollback", "rolling", "undo"},
           Goto(r, pc), UNCHANGED <<sessions, labels>>,
           door[r].pc # "print",
           \A s \in sessions : s.owner = r => HeldAt(s, [door[r] EXCEPT !.pc = pc])
    PROVE  LabelInv'
  <1>1. door' = [door EXCEPT ![r] = [door[r] EXCEPT !.pc = pc]]
    BY DEF Goto, DoorRowsOK
  <1> QED
    BY <1>1, MoveKeeps

LEMMA CreateKeeps ==
    ASSUME DoorRowsOK, LabelInv, NEW r \in DoorRequests, NEW l \in Letters,
           EshikPrintSessionCreate(r, l)
    PROVE  LabelInv'
  <1> DEFINE new == [owner |-> r, part |-> door[r].at, number |-> door[r].number,
                     serial |-> Serial(door[r].at, door[r].number, l), door |-> FALSE]
  <1>1. /\ new.owner = r /\ new.part = door[r].at /\ new.door = FALSE
        /\ sessions' = sessions \cup {new} /\ labels' = labels /\ door[r].pc = "session"
    BY DEF EshikPrintSessionCreate
  <1> HIDE DEF new
  <1>2. /\ door'[r].pc = "balance" /\ door'[r].at = door[r].at
        /\ \A q \in DoorRequests : q # r => door'[q] = door[q]
    BY DEF EshikPrintSessionCreate, Goto, DoorRowsOK, Positions
  <1>3. \A s \in sessions : s.owner = r => s.part # door[r].at /\ door[r].at = Ref /\ s.door
    BY <1>1, DoorPrintAssumption DEF LabelInv, Held, HeldAt, DoorPrintAssumption
  <1>4. Doors' = Doors
    BY <1>1 DEF Doors
  <1>5. Held'
    BY <1>1, <1>2, <1>3, RowTypes DEF LabelInv, Held, HeldAt
  <1>6. OnePerPart'
    BY <1>1, <1>3 DEF LabelInv, OnePerPart
  <1>7. Unprinted'
    BY <1>1, <1>2, <1>4, RowTypes DEF LabelInv, Unprinted, Doors
  <1> QED
    BY <1>1, <1>4, <1>5, <1>6, <1>7 DEF LabelInv, SerialsDistinct, FirstLabelKept

Recorded(s) == [s EXCEPT !.door = TRUE]

LEMMA CommitKeeps ==
    ASSUME DoorRowsOK, LabelInv, NEW r \in DoorRequests, EshikChiqishBalanceCommit(r)
    PROVE  LabelInv'
  <1>1. /\ sessions' = (sessions \ Own(r)) \cup {Recorded(s) : s \in Own(r)}
        /\ labels' = labels /\ door[r].pc = "write" /\ SerialFree(r)
    BY DEF EshikChiqishBalanceCommit, Recorded
  <1>2. /\ door'[r].pc = IF door[r].at = Freeze THEN "number" ELSE "print"
        /\ door'[r].at = IF door[r].at = Freeze THEN Ref ELSE Freeze
        /\ \A q \in DoorRequests : q # r => door'[q] = door[q]
        /\ door[r].at \in {Freeze, Ref} /\ Freeze # Ref
    BY DoorPrintAssumption
    DEF EshikChiqishBalanceCommit, DoorRowsOK, Positions, Parts, DoorPrintAssumption
  <1>3. \A s \in Own(r) : /\ s \in sessions /\ s.owner = r /\ s.part = door[r].at
                          /\ s.serial \in Serials
                          /\ Recorded(s).owner = r /\ Recorded(s).part = s.part
                          /\ Recorded(s).serial = s.serial /\ Recorded(s).door = TRUE
    BY RowTypes DEF Own, Recorded, SessionRows
  <1>4. \A s, t \in Own(r) : s = t
    BY <1>3, DoorPrintAssumption DEF LabelInv, OnePerPart, DoorPrintAssumption
  <1>5. \A t \in sessions' : \/ t \in sessions \ Own(r)
                             \/ \E s \in Own(r) : t = Recorded(s)
    BY <1>1
  <1>6. \A s \in Own(r), d \in Doors : d.serial # s.serial
    BY <1>1 DEF SerialFree
  <1>7. Held'
    <2> SUFFICES ASSUME NEW t \in sessions', t.owner # Nobody
                 PROVE  HeldAt(t, door'[t.owner])
      BY DEF Held
    <2>1. CASE t \in sessions \ Own(r) /\ t.owner # r
      BY <1>2, <2>1, RowTypes DEF LabelInv, Held
    <2>2. CASE t \in sessions \ Own(r) /\ t.owner = r
      BY <1>1, <1>2, <2>2, DoorPrintAssumption DEF LabelInv, Held, HeldAt, Own, DoorPrintAssumption
    <2>3. CASE \E s \in Own(r) : t = Recorded(s)
      BY <1>2, <1>3, <2>3 DEF HeldAt
    <2> QED
      BY <1>5, <2>1, <2>2, <2>3
  <1>8. OnePerPart'
    <2>1. \A s, t \in sessions \ Own(r) :
             s.owner # Nobody /\ s.owner = t.owner /\ s.part = t.part => s = t
      BY DEF LabelInv, OnePerPart
    <2>2. \A s \in sessions \ Own(r) : ~(s.owner = r /\ s.part = door[r].at)
      BY DEF Own
    <2> QED
      BY <1>3, <1>4, <1>5, <2>1, <2>2 DEF OnePerPart
  <1>9. SerialsDistinct'
    <2>1. \A d \in Doors' : \/ d \in Doors \ Own(r)
                            \/ \E s \in Own(r) : d = Recorded(s)
      BY <1>5 DEF Doors
    <2> QED
      BY <1>3, <1>4, <1>6, <2>1 DEF LabelInv, SerialsDistinct
  <1>10. \A s \in Own(r) : labels[s.serial] = 0
    BY <1>3, <1>6 DEF LabelInv, FirstLabelKept, DoorRowsOK
  <1>11. Unprinted'
    <2> SUFFICES ASSUME NEW d \in Doors', d.owner # Nobody
                 PROVE  \/ labels[d.serial] = 0
                        \/ door'[d.owner].pc = "print" /\ door'[d.owner].at = Ref /\ d.part = Freeze
      BY <1>1 DEF Unprinted
    <2>1. CASE d \in sessions \ Own(r) /\ d.owner # r
      BY <1>2, <2>1, RowTypes DEF LabelInv, Unprinted, Doors
    <2>2. CASE d \in sessions \ Own(r) /\ d.owner = r
      BY <1>1, <2>2 DEF LabelInv, Unprinted, Doors
    <2>3. CASE \E s \in Own(r) : d = Recorded(s)
      BY <1>3, <1>10, <2>3
    <2> QED
      BY <1>5, <2>1, <2>2, <2>3 DEF Doors
  <1>12. FirstLabelKept'
    <2>1. \A d \in Doors : d \in Doors'
      <3>1. \A d \in Doors : d \notin Own(r)
        BY <1>6
      <3> QED
        BY <1>1, <3>1 DEF Doors
    <2> QED
      BY <1>1, <2>1 DEF LabelInv, FirstLabelKept
  <1> QED
    BY <1>7, <1>8, <1>9, <1>11, <1>12 DEF LabelInv

LEMMA RollbackKeeps ==
    ASSUME DoorRowsOK, LabelInv, NEW r \in DoorRequests, EshikPrintRollbackCommit(r)
    PROVE  LabelInv'
  <1>1. sessions' = sessions \ Own(r) /\ labels' = labels /\ door[r].pc = "rolling"
    BY DEF EshikPrintRollbackCommit, RolledBack
  <1>2. /\ door'[r].pc = "undo" /\ door'[r].at = door[r].at
        /\ \A q \in DoorRequests : q # r => door'[q] = door[q]
    BY DEF EshikPrintRollbackCommit, Goto, DoorRowsOK, Positions
  <1>3. Held'
    BY <1>1, <1>2, RowTypes DEF LabelInv, Held, HeldAt
  <1>4. OnePerPart' /\ SerialsDistinct'
    BY <1>1 DEF LabelInv, OnePerPart, SerialsDistinct, Doors
  <1>5. Unprinted'
    BY <1>1, <1>2, RowTypes DEF LabelInv, Unprinted, Doors
  <1>6. \A d \in Doors : d \in Own(r) => labels[d.serial] = 0
    BY <1>1, DoorPrintAssumption DEF Own, LabelInv, Unprinted, DoorPrintAssumption
  <1>7. FirstLabelKept'
    BY <1>1, <1>6 DEF LabelInv, FirstLabelKept, Doors
  <1> QED
    BY <1>3, <1>4, <1>5, <1>7 DEF LabelInv

LEMMA PrintKeeps ==
    ASSUME DoorRowsOK, LabelInv, NEW r \in DoorRequests, eshikSendPrintV2(r)
    PROVE  LabelInv'
  <1>t. door[r].at \in {Freeze, Ref} /\ Freeze # Ref
    BY DoorPrintAssumption DEF DoorRowsOK, Positions, Parts, DoorPrintAssumption
  <1>1. door[r].pc = "print"
    BY DEF eshikSendPrintV2
  <1>2. \A o \in Own(r) : o \in Doors /\ o.owner = r /\ o.part = door[r].at
                          /\ labels[o.serial] = 0
    <2>1. \A o \in Own(r) : o \in sessions /\ o.owner = r /\ o.part = door[r].at /\ r # Nobody
      BY DoorPrintAssumption DEF Own, DoorPrintAssumption
    <2>2. \A o \in Own(r) : o \in Doors
      BY <1>1, <2>1 DEF LabelInv, Held, HeldAt, Doors
    <2> QED
      BY <1>t, <2>1, <2>2 DEF LabelInv, Unprinted
  <1>3. \A s \in Serials : \/ labels'[s] = labels[s]
                           \/ /\ labels'[s] = labels[s] + 1
                              /\ \E o \in Own(r) : o.serial = s
    BY DEF eshikSendPrintV2
  <1>4. \A s \in Serials : labels'[s] > 0 => labels'[s] = 1 /\ \E d \in Doors : d.serial = s
    BY <1>2, <1>3 DEF LabelInv, FirstLabelKept, DoorRowsOK
  <1>5. \A d \in Doors : d \notin Own(r) => labels'[d.serial] = labels[d.serial]
    <2>1. \A d \in Doors : d.serial \in Serials
      BY RowTypes DEF Doors
    <2>2. \A d \in Doors, o \in Own(r) : d.serial = o.serial => d = o
      BY <1>2 DEF LabelInv, SerialsDistinct
    <2> QED
      BY <1>3, <2>1, <2>2
  <1>6. \A d \in Doors : d \in Own(r) <=> d.owner = r /\ d.part = door[r].at
    BY DEF Own, Doors
  <1>7. CASE door[r].at = Freeze
    <2>1. sessions' = sessions
      BY <1>7, <1>t DEF eshikSendPrintV2
    <2>2. /\ door'[r].pc = "print" /\ door'[r].at = Ref
          /\ \A q \in DoorRequests : q # r => door'[q] = door[q]
      BY <1>1, <1>7, <1>t DEF eshikSendPrintV2, DoorRowsOK, Positions
    <2>3. Held'
      BY <1>1, <2>1, <2>2, RowTypes DEF LabelInv, Held, HeldAt
    <2>4. Unprinted'
      <3> SUFFICES ASSUME NEW d \in Doors, d.owner # Nobody
                   PROVE  \/ labels'[d.serial] = 0
                          \/ door'[d.owner].pc = "print" /\ door'[d.owner].at = Ref /\ d.part = Freeze
        BY <2>1 DEF Unprinted, Doors
      <3>1. d.owner \in DoorRequests /\ d.part \in {Freeze, Ref}
        BY RowTypes DEF Doors, Parts
      <3>2. CASE d.owner = r /\ d.part = Freeze
        BY <2>2, <3>2
      <3>3. CASE d.owner = r /\ d.part = Ref
        BY <1>5, <1>6, <1>7, <1>t, <3>3 DEF LabelInv, Unprinted
      <3>4. CASE d.owner # r
        BY <1>5, <1>6, <2>2, <3>1, <3>4 DEF LabelInv, Unprinted
      <3> QED
        BY <3>1, <3>2, <3>3, <3>4
    <2>5. FirstLabelKept'
      BY <1>4, <2>1 DEF FirstLabelKept, Doors
    <2> QED
      BY <2>1, <2>3, <2>4, <2>5 DEF LabelInv, OnePerPart, SerialsDistinct, Doors
  <1>8. CASE door[r].at = Ref
    <2>1. Rest(r)
      BY <1>8, <1>t DEF eshikSendPrintV2
    <2>2. Unprinted'
      BY <1>5, <1>6, <2>1, RestKeepsHeld DEF LabelInv, Unprinted
    <2>3. FirstLabelKept'
      BY <1>4, <2>1, RestKeepsRows DEF FirstLabelKept, Doors
    <2> QED
      BY <2>1, <2>2, <2>3, RestKeepsHeld DEF LabelInv
  <1> QED
    BY <1>7, <1>8, <1>t

LEMMA LabelInvKept ==
    ASSUME DoorRowsOK, LabelInv, NEW r \in DoorRequests, DoorStep(r)
    PROVE  LabelInv'
  <1>h. \A s \in sessions : s.owner = r => HeldAt(s, door[r])
    BY DoorPrintAssumption DEF LabelInv, Held, DoorPrintAssumption
  <1>t. door[r] \in Positions
    BY DEF DoorRowsOK
  <1>1. CASE LinesEshikV2Print(r)
    BY <1>1, <1>h, GotoKeeps DEF LinesEshikV2Print, HeldAt
  <1>2. CASE EshikNextDailyCounter(r)
    <2> DEFINE o == [door[r] EXCEPT !.number = counter[door[r].at] + 1, !.pc = "session"]
    <2>1. door' = [door EXCEPT ![r] = o] /\ UNCHANGED <<sessions, labels>> /\ door[r].pc = "number"
      BY <1>2, <1>t DEF EshikNextDailyCounter, DoorRowsOK
    <2>2. o.pc = "session" /\ o.at = door[r].at
      BY <1>t DEF Positions
    <2>3. \A s \in sessions : s.owner = r => HeldAt(s, o)
      BY <1>h, <2>1, <2>2 DEF HeldAt
    <2> HIDE DEF o
    <2> QED
      BY <2>1, <2>3, MoveKeeps
  <1>3. CASE \E l \in Letters : EshikPrintSessionCreate(r, l)
    BY <1>3, CreateKeeps
  <1>4. CASE EshikChiqishBalanceApply(r)
    BY <1>4, <1>h, <1>t, GotoKeeps DEF EshikChiqishBalanceApply, HeldAt, Positions
  <1>5. CASE EshikChiqishBalanceCommit(r)
    BY <1>5, CommitKeeps
  <1>6. CASE NumberFails(r)
    BY <1>6, BackKeeps DEF NumberFails
  <1>7. CASE SessionFails(r)
    BY <1>7, <1>t, GotoKeeps DEF SessionFails, HeldAt, Positions
  <1>8. CASE BalanceFails(r)
    BY <1>8, <1>t, GotoKeeps DEF BalanceFails, HeldAt, Positions
  <1>9. CASE WriteFails(r)
    BY <1>9, <1>t, GotoKeeps DEF WriteFails, HeldAt, Positions
  <1>10. CASE EshikPrintRollback(r)
    BY <1>10, <1>t, GotoKeeps DEF EshikPrintRollback, HeldAt, Positions
  <1>11. CASE EshikPrintRollbackCommit(r)
    BY <1>11, RollbackKeeps
  <1>12. CASE RollbackFails(r)
    BY <1>12, BackKeeps DEF RollbackFails
  <1>13. CASE EshikDailyCounterUndo(r)
    BY <1>13, BackKeeps DEF EshikDailyCounterUndo
  <1>14. CASE eshikSendPrintV2(r)
    BY <1>14, PrintKeeps
  <1>15. CASE Stop(r)
    BY <1>15, RestKeeps DEF Stop
  <1> QED
    BY <1>1, <1>2, <1>3, <1>4, <1>5, <1>6, <1>7, <1>8, <1>9, <1>10, <1>11, <1>12, <1>13, <1>14,
       <1>15 DEF DoorStep

LEMMA LabelInitial == DoorInit => LabelInv
  BY DEF DoorInit, LabelInv, Held, OnePerPart, SerialsDistinct, Unprinted, FirstLabelKept, Doors

LEMMA LabelNext == DoorRowsOK /\ LabelInv /\ [DoorNext]_<<vars, doorVars>> => LabelInv'
  <1> SUFFICES ASSUME DoorRowsOK, LabelInv, [DoorNext]_<<vars, doorVars>>
               PROVE  LabelInv'
    OBVIOUS
  <1>1. CASE \E r \in DoorRequests : DoorStep(r)
    BY <1>1, LabelInvKept
  <1>2. CASE UNCHANGED doorVars
    BY <1>2 DEF doorVars, LabelInv, Held, OnePerPart, SerialsDistinct, Unprinted,
                FirstLabelKept, Doors
  <1> QED
    BY <1>1, <1>2 DEF DoorNext, Step, doorVars

(* However many print requests fail, roll back and draw the numbers that   *)
(* were given back, no door goes out with the serial of another, and none  *)
(* whose record a roll-back has taken away.                                *)
THEOREM LabelsKeepDoors == DoorSpec => []FirstLabelKept
  <1>1. LabelInv => FirstLabelKept
    BY DEF LabelInv
  <1> QED
    BY <1>1, LabelInitial, LabelNext, DoorRowsInitial, DoorRowsNext, PTL DEF DoorSpec

-----------------------------------------------------------------------------
(* Counting.                                                               *)

(* A set is as large as its source, or smaller, when each of its elements  *)
(* comes from one there.                                                   *)
LEMMA Covered ==
    ASSUME NEW S, IsFiniteSet(S), NEW T, NEW f \in [S -> T],
           \A t \in T : \E s \in S : f[s] = t
    PROVE  IsFiniteSet(T) /\ Cardinality(T) <= Cardinality(S)
  <1>1. f \in Surjection(S, T)
    BY DEF Surjection
  <1> QED
    BY <1>1, FS_Surjection

LEMMA AddedElement ==
    ASSUME NEW S, IsFiniteSet(S), NEW T, NEW x, T \subseteq S \cup {x}
    PROVE  IsFiniteSet(T) /\ Cardinality(T) <= Cardinality(S) + 1
  <1>1. IsFiniteSet(S \cup {x}) /\ Cardinality(S \cup {x}) <= Cardinality(S) + 1
    <2>1. Cardinality(S) \in Nat
      BY FS_CardinalityType
    <2> QED
      BY <2>1, FS_AddElement
  <1>2. IsFiniteSet(T) /\ Cardinality(T) <= Cardinality(S \cup {x})
    BY <1>1, FS_Subset
  <1>3. Cardinality(T) \in Nat /\ Cardinality(S) \in Nat /\ Cardinality(S \cup {x}) \in Nat
    BY <1>1, <1>2, FS_CardinalityType
  <1> QED
    BY <1>1, <1>2, <1>3

LEMMA LostElement ==
    ASSUME NEW S, IsFiniteSet(S), NEW x \in S, NEW T, T \subseteq S \ {x}
    PROVE  IsFiniteSet(T) /\ Cardinality(T) <= Cardinality(S) - 1
  <1>1. IsFiniteSet(S \ {x}) /\ Cardinality(S \ {x}) = Cardinality(S) - 1
    BY FS_RemoveElement
  <1> QED
    BY <1>1, FS_Subset, FS_CardinalityType

LEMMA DoorRequestsCounted ==
    IsFiniteSet(DoorRequests) /\ Cardinality(DoorRequests) \in Nat \ {0}
  BY DoorPrintAssumption, FS_EmptySet, FS_CardinalityType DEF DoorPrintAssumption

-----------------------------------------------------------------------------
(* The plan.                                                               *)

FreezeDoors == {s \in Doors : s.part = Freeze}

(* Past the gate, the freeze door of the pair to come.                     *)
Underway ==
    {r \in DoorRequests :
        door[r].at = Freeze /\ door[r].pc \in {"number", "session", "balance", "write"}}

PlanKept ==
    /\ IsFiniteSet(sessions)
    /\ Cardinality(FreezeDoors) + Cardinality(Underway)
           <= Planned + Cardinality(DoorRequests) - 1

LEMMA PlanCounts ==
    ASSUME IsFiniteSet(sessions)
    PROVE  /\ IsFiniteSet(FreezeDoors) /\ Cardinality(FreezeDoors) \in Nat
           /\ IsFiniteSet(Underway) /\ Cardinality(Underway) \in Nat
           /\ Cardinality(Underway) <= Cardinality(DoorRequests)
  <1>1. FreezeDoors \subseteq sessions /\ Underway \subseteq DoorRequests
    BY DEF FreezeDoors, Doors, Underway
  <1> QED
    BY <1>1, FS_Subset, FS_CardinalityType, DoorRequestsCounted

(* A step that makes no freeze door and lets no request past the gate.     *)
LEMMA PlanCalm ==
    ASSUME PlanKept, IsFiniteSet(sessions'),
           IsFiniteSet(FreezeDoors'), Cardinality(FreezeDoors') <= Cardinality(FreezeDoors),
           Underway' \subseteq Underway
    PROVE  PlanKept'
  <1>1. Cardinality(Underway') <= Cardinality(Underway) /\ Cardinality(Underway') \in Nat
    BY PlanCounts, FS_Subset, FS_CardinalityType DEF PlanKept
  <1>2. Planned \in Nat
    BY DoorPrintAssumption DEF DoorPrintAssumption
  <1>3. Cardinality(FreezeDoors') \in Nat /\ Cardinality(FreezeDoors) \in Nat
    BY PlanCounts, FS_CardinalityType DEF PlanKept
  <1>4. Cardinality(DoorRequests) \in Nat /\ Cardinality(Underway) \in Nat
    BY DoorRequestsCounted, PlanCounts DEF PlanKept
  <1>5. Cardinality(FreezeDoors') + Cardinality(Underway')
            <= Planned + Cardinality(DoorRequests) - 1
    BY <1>1, <1>2, <1>3, <1>4 DEF PlanKept
  <1> QED
    BY <1>5 DEF PlanKept

LEMMA SameSessions ==
    ASSUME PlanKept, UNCHANGED sessions, Underway' \subseteq Underway
    PROVE  PlanKept'
  <1>1. FreezeDoors' = FreezeDoors /\ IsFiniteSet(sessions')
    BY DEF FreezeDoors, Doors, PlanKept
  <1> QED
    BY <1>1, PlanCounts, PlanCalm DEF PlanKept

LEMMA RestPlan ==
    ASSUME DoorRowsOK, PlanKept, NEW r \in DoorRequests, Rest(r)
    PROVE  PlanKept'
  <1> DEFINE f == [s \in sessions |-> Freed(s, r)]
             g == [s \in FreezeDoors |-> Freed(s, r)]
  <1>1. sessions' = {Freed(s, r) : s \in sessions}
    BY DEF Rest, Freed
  <1>2. \A s \in sessions : Freed(s, r).part = s.part /\ Freed(s, r).door = s.door
    BY RowTypes DEF Freed, SessionRows
  <1>3. IsFiniteSet(sessions')
    <2>1. f \in [sessions -> sessions'] /\ \A t \in sessions' : \E s \in sessions : f[s] = t
      BY <1>1
    <2> QED
      BY <2>1, Covered DEF PlanKept
  <1>4. IsFiniteSet(FreezeDoors') /\ Cardinality(FreezeDoors') <= Cardinality(FreezeDoors)
    <2>1. FreezeDoors' = {Freed(s, r) : s \in FreezeDoors}
      BY <1>1, <1>2 DEF FreezeDoors, Doors
    <2>2. g \in [FreezeDoors -> FreezeDoors']
          /\ \A t \in FreezeDoors' : \E s \in FreezeDoors : g[s] = t
      BY <2>1
    <2> QED
      BY <2>2, Covered, PlanCounts DEF PlanKept
  <1>5. Underway' \subseteq Underway
    <2>1. door'[r].pc = "resting" /\ \A q \in DoorRequests : q # r => door'[q] = door[q]
      BY DEF Rest, DoorRowsOK, Resting
    <2> QED
      BY <2>1 DEF Underway
  <1> QED
    BY <1>3, <1>4, <1>5, PlanCalm

(* A request that moves on at its door, or away from it, is not underway   *)
(* when it was not before.                                                 *)
LEMMA MovePlan ==
    ASSUME DoorRowsOK, PlanKept, NEW r \in DoorRequests, NEW o,
           door' = [door EXCEPT ![r] = o], UNCHANGED sessions,
           o.at = Freeze /\ o.pc \in {"number", "session", "balance", "write"} => r \in Underway
    PROVE  PlanKept'
  <1>1. \A q \in DoorRequests : door'[q] = IF q = r THEN o ELSE door[q]
    BY DEF DoorRowsOK
  <1>2. Underway' \subseteq Underway
    BY <1>1 DEF Underway
  <1> QED
    BY <1>2, SameSessions

LEMMA BackPlan ==
    ASSUME DoorRowsOK, PlanKept, NEW r \in DoorRequests, Back(r)
    PROVE  PlanKept'
  <1>1. CASE door[r].at = Ref
    <2> DEFINE o == [door[r] EXCEPT !.at = Freeze, !.pc = "rollback"]
    <2>1. door' = [door EXCEPT ![r] = o] /\ UNCHANGED sessions /\ o.pc = "rollback"
      BY <1>1 DEF Back, DoorRowsOK, Positions
    <2> HIDE DEF o
    <2> QED
      BY <2>1, MovePlan
  <1>2. CASE door[r].at # Ref
    BY <1>2, RestPlan DEF Back
  <1> QED
    BY <1>1, <1>2

LEMMA GatePlan ==
    ASSUME DoorRowsOK, PlanKept, NEW r \in DoorRequests, LinesEshikV2Print(r)
    PROVE  PlanKept'
  <1>1. FreezeDoors' = FreezeDoors /\ IsFiniteSet(sessions')
    BY DEF LinesEshikV2Print, FreezeDoors, Doors, PlanKept
  <1>2. Cardinality(FreezeDoors) + 1 <= Planned
    BY DEF LinesEshikV2Print, PlanAllows, FreezeDoors
  <1>3. Underway' \subseteq DoorRequests
    BY DEF Underway
  <1>4. Cardinality(Underway') \in Nat /\ Cardinality(Underway') <= Cardinality(DoorRequests)
    BY <1>3, DoorRequestsCounted, FS_Subset, FS_CardinalityType
  <1>5. Planned \in Nat /\ Cardinality(FreezeDoors) \in Nat /\ Cardinality(DoorRequests) \in Nat
    BY DoorPrintAssumption, PlanCounts, DoorRequestsCounted DEF PlanKept, DoorPrintAssumption
  <1>6. Cardinality(FreezeDoors) + Cardinality(Underway')
            <= Planned + Cardinality(DoorRequests) - 1
    BY <1>2, <1>4, <1>5
  <1> QED
    BY <1>1, <1>6 DEF PlanKept

LEMMA CommitPlan ==
    ASSUME DoorRowsOK, LabelInv, PlanKept, NEW r \in DoorRequests, EshikChiqishBalanceCommit(r)
    PROVE  PlanKept'
  <1>1. /\ sessions' = (sessions \ Own(r)) \cup {Recorded(s) : s \in Own(r)}
        /\ door[r].pc = "write"
    BY DEF EshikChiqishBalanceCommit, Recorded
  <1>2. /\ door'[r].pc = IF door[r].at = Freeze THEN "number" ELSE "print"
        /\ door'[r].at = IF door[r].at = Freeze THEN Ref ELSE Freeze
        /\ \A q \in DoorRequests : q # r => door'[q] = door[q]
        /\ door[r].at \in {Freeze, Ref} /\ Freeze # Ref
    BY DoorPrintAssumption
    DEF EshikChiqishBalanceCommit, DoorRowsOK, Positions, Parts, DoorPrintAssumption
  <1>3. \A s \in Own(r) : s \in sessions /\ s.part = door[r].at /\ Recorded(s).part = s.part
    BY RowTypes DEF Own, Recorded, SessionRows
  <1>4. PICK d : sessions' \subseteq sessions \cup {d}
                 /\ (d.part # Freeze \/ door[r].at = Freeze \/ d \in sessions)
    <2>1. CASE Own(r) = {}
      <3>1. PICK d : d \in {[part |-> Ref]}
        OBVIOUS
      <3> QED
        BY <1>1, <1>2, <2>1, <3>1
    <2>2. CASE Own(r) # {}
      <3>1. PICK s : s \in Own(r)
        BY <2>2
      <3>2. \A t \in Own(r) : t = s
        BY <3>1, DoorPrintAssumption DEF Own, LabelInv, OnePerPart, DoorPrintAssumption
      <3>3. sessions' \subseteq sessions \cup {Recorded(s)}
        BY <1>1, <3>2
      <3> QED
        BY <1>2, <1>3, <3>1, <3>3
    <2> QED
      BY <2>1, <2>2
  <1>5. IsFiniteSet(sessions')
    BY <1>4, AddedElement DEF PlanKept
  <1>6. CASE door[r].at = Freeze
    <2>1. FreezeDoors' \subseteq FreezeDoors \cup {d}
      BY <1>4 DEF FreezeDoors, Doors
    <2>2. IsFiniteSet(FreezeDoors') /\ Cardinality(FreezeDoors') <= Cardinality(FreezeDoors) + 1
      BY <2>1, AddedElement, PlanCounts DEF PlanKept
    <2>3. r \in Underway /\ Underway' \subseteq Underway \ {r}
      BY <1>1, <1>2, <1>6 DEF Underway
    <2>4. IsFiniteSet(Underway') /\ Cardinality(Underway') <= Cardinality(Underway) - 1
      BY <2>3, LostElement, PlanCounts DEF PlanKept
    <2>5. /\ Planned \in Nat /\ Cardinality(DoorRequests) \in Nat
          /\ Cardinality(FreezeDoors) \in Nat /\ Cardinality(FreezeDoors') \in Nat
          /\ Cardinality(Underway) \in Nat /\ Cardinality(Underway') \in Nat
      BY <2>2, <2>4, PlanCounts, FS_CardinalityType, DoorRequestsCounted, DoorPrintAssumption
      DEF PlanKept, DoorPrintAssumption
    <2>6. Cardinality(FreezeDoors') + Cardinality(Underway')
              <= Planned + Cardinality(DoorRequests) - 1
      BY <2>2, <2>4, <2>5 DEF PlanKept
    <2> QED
      BY <1>5, <2>6 DEF PlanKept
  <1>7. CASE door[r].at = Ref
    <2>1. FreezeDoors' \subseteq FreezeDoors
      BY <1>1, <1>2, <1>3, <1>7 DEF FreezeDoors, Doors
    <2>2. IsFiniteSet(FreezeDoors') /\ Cardinality(FreezeDoors') <= Cardinality(FreezeDoors)
      BY <2>1, FS_Subset, PlanCounts DEF PlanKept
    <2>3. Underway' \subseteq Underway
      BY <1>1, <1>2, <1>7 DEF Underway
    <2> QED
      BY <1>5, <2>2, <2>3, PlanCalm
  <1> QED
    BY <1>2, <1>6, <1>7

LEMMA PlanStep ==
    ASSUME DoorRowsOK, LabelInv, PlanKept, NEW r \in DoorRequests, DoorStep(r)
    PROVE  PlanKept'
  <1>t. door[r] \in Positions
    BY DEF DoorRowsOK
  <1>g. ASSUME NEW pc, Goto(r, pc), UNCHANGED sessions,
               \/ pc \in {"rollback", "rolling", "undo"}
               \/ door[r].pc \in {"number", "session", "balance", "write"}
        PROVE  PlanKept'
    <2> DEFINE o == [door[r] EXCEPT !.pc = pc]
    <2>1. door' = [door EXCEPT ![r] = o] /\ o.at = door[r].at /\ o.pc = pc
      BY <1>g, <1>t DEF Goto, DoorRowsOK, Positions
    <2>2. o.at = Freeze /\ o.pc \in {"number", "session", "balance", "write"} => r \in Underway
      BY <1>g, <2>1 DEF Underway
    <2> HIDE DEF o
    <2> QED
      BY <1>g, <2>1, <2>2, MovePlan
  <1>1. CASE LinesEshikV2Print(r)
    BY <1>1, GatePlan
  <1>2. CASE EshikNextDailyCounter(r)
    <2> DEFINE o == [door[r] EXCEPT !.number = counter[door[r].at] + 1, !.pc = "session"]
    <2>1. /\ door' = [door EXCEPT ![r] = o] /\ UNCHANGED sessions
          /\ o.at = door[r].at /\ door[r].pc = "number"
      BY <1>2, <1>t DEF EshikNextDailyCounter, DoorRowsOK, Positions
    <2>2. o.at = Freeze => r \in Underway
      BY <2>1 DEF Underway
    <2> HIDE DEF o
    <2> QED
      BY <2>1, <2>2, MovePlan
  <1>3. CASE \E l \in Letters : EshikPrintSessionCreate(r, l)
    <2>1. PICK d : sessions' = sessions \cup {d} /\ d.door = FALSE
      <3>1. PICK l \in Letters : EshikPrintSessionCreate(r, l)
        BY <1>3
      <3> DEFINE new == [owner |-> r, part |-> door[r].at, number |-> door[r].number,
                         serial |-> Serial(door[r].at, door[r].number, l), door |-> FALSE]
      <3>2. sessions' = sessions \cup {new} /\ new.door = FALSE
        BY <3>1 DEF EshikPrintSessionCreate
      <3> HIDE DEF new
      <3> QED
        BY <3>2
    <2>2. IsFiniteSet(sessions')
      BY <2>1, AddedElement DEF PlanKept
    <2>3. FreezeDoors' = FreezeDoors
      BY <2>1 DEF FreezeDoors, Doors
    <2>4. /\ door'[r].pc = "balance" /\ door'[r].at = door[r].at /\ door[r].pc = "session"
          /\ \A q \in DoorRequests : q # r => door'[q] = door[q]
      BY <1>3, <1>t DEF EshikPrintSessionCreate, Goto, DoorRowsOK, Positions
    <2>5. Underway' \subseteq Underway
      BY <2>4 DEF Underway
    <2> QED
      BY <2>2, <2>3, <2>5, PlanCounts, PlanCalm DEF PlanKept
  <1>4. CASE EshikChiqishBalanceApply(r)
    BY <1>4, <1>g DEF EshikChiqishBalanceApply
  <1>5. CASE EshikChiqishBalanceCommit(r)
    BY <1>5, CommitPlan
  <1>6. CASE NumberFails(r) \/ RollbackFails(r) \/ EshikDailyCounterUndo(r)
    BY <1>6, BackPlan DEF NumberFails, RollbackFails, EshikDailyCounterUndo
  <1>7. CASE SessionFails(r) \/ BalanceFails(r) \/ WriteFails(r) \/ EshikPrintRollback(r)
    BY <1>7, <1>g DEF SessionFails, BalanceFails, WriteFails, EshikPrintRollback
  <1>8. CASE EshikPrintRollbackCommit(r)
    <2>1. sessions' \subseteq sessions /\ Goto(r, "undo")
      BY <1>8 DEF EshikPrintRollbackCommit, RolledBack
    <2>2. FreezeDoors' \subseteq FreezeDoors
      BY <2>1 DEF FreezeDoors, Doors
    <2>3. /\ IsFiniteSet(sessions') /\ IsFiniteSet(FreezeDoors')
          /\ Cardinality(FreezeDoors') <= Cardinality(FreezeDoors)
      BY <2>1, <2>2, FS_Subset, PlanCounts DEF PlanKept
    <2>4. door'[r].pc = "undo" /\ \A q \in DoorRequests : q # r => door'[q] = door[q]
      BY <2>1, <1>t DEF Goto, DoorRowsOK, Positions
    <2>5. Underway' \subseteq Underway
      BY <2>4 DEF Underway
    <2> QED
      BY <2>3, <2>5, PlanCalm
  <1>9. CASE eshikSendPrintV2(r)
    <2>1. CASE door[r].at = Freeze
      <3> DEFINE o == [door[r] EXCEPT !.at = Ref]
      <3>1. /\ door' = [door EXCEPT ![r] = o] /\ UNCHANGED sessions
            /\ o.at = Ref /\ Ref # Freeze
        BY <1>9, <1>t, <2>1, DoorPrintAssumption
        DEF eshikSendPrintV2, DoorRowsOK, Positions, DoorPrintAssumption
      <3> HIDE DEF o
      <3> QED
        BY <3>1, MovePlan
    <2>2. CASE door[r].at # Freeze
      BY <1>9, <2>2, RestPlan DEF eshikSendPrintV2
    <2> QED
      BY <2>1, <2>2
  <1>10. CASE Stop(r)
    BY <1>10, RestPlan DEF Stop
  <1> QED
    BY <1>1, <1>2, <1>3, <1>4, <1>5, <1>6, <1>7, <1>8, <1>9, <1>10 DEF DoorStep

LEMMA PlanInitial == DoorInit => PlanKept
  <1> SUFFICES ASSUME DoorInit
               PROVE  PlanKept
    OBVIOUS
  <1>1. sessions = {} /\ FreezeDoors = {} /\ Underway = {}
    BY DEF DoorInit, FreezeDoors, Doors, Underway, Resting
  <1>2. IsFiniteSet(sessions) /\ Cardinality(FreezeDoors) = 0 /\ Cardinality(Underway) = 0
    BY <1>1, FS_EmptySet
  <1> QED
    BY <1>2, DoorRequestsCounted, DoorPrintAssumption DEF PlanKept, DoorPrintAssumption

LEMMA PlanNext ==
    DoorRowsOK /\ LabelInv /\ PlanKept /\ [DoorNext]_<<vars, doorVars>> => PlanKept'
  <1> SUFFICES ASSUME DoorRowsOK, LabelInv, PlanKept, [DoorNext]_<<vars, doorVars>>
               PROVE  PlanKept'
    OBVIOUS
  <1>1. CASE \E r \in DoorRequests : DoorStep(r)
    BY <1>1, PlanStep
  <1>2. CASE UNCHANGED doorVars
    BY <1>2 DEF doorVars, PlanKept, FreezeDoors, Doors, Underway
  <1> QED
    BY <1>1, <1>2 DEF DoorNext, Step, doorVars

(* The plan, locked while the pairs are made, is exceeded by as many pairs *)
(* as other requests were past its check, and no more.                     *)
THEOREM PlanBounds == DoorSpec => []OverplanBounded
  <1>1. PlanKept => OverplanBounded
    <2> SUFFICES ASSUME PlanKept
                 PROVE  OverplanBounded
      OBVIOUS
    <2>1. /\ Planned \in Nat /\ Cardinality(DoorRequests) \in Nat
          /\ Cardinality(FreezeDoors) \in Nat /\ Cardinality(Underway) \in Nat
      BY PlanCounts, DoorRequestsCounted, DoorPrintAssumption DEF PlanKept, DoorPrintAssumption
    <2>2. Cardinality(FreezeDoors) <= Planned + Cardinality(DoorRequests) - 1
      BY <2>1 DEF PlanKept
    <2> QED
      BY <2>2 DEF OverplanBounded, FreezeDoors
  <1> QED
    BY <1>1, PlanInitial, PlanNext, LabelInitial, LabelNext, DoorRowsInitial, DoorRowsNext, PTL
    DEF DoorSpec

-----------------------------------------------------------------------------
(* The numbers of the day.                                                 *)

(* The request has drawn a number of the part and may still give it back.  *)
Open(q, p) ==
    \/ /\ door[q].at = p
       /\ door[q].pc \in {"session", "balance", "write", "rollback", "rolling", "undo"}
    \/ /\ p = Freeze /\ door[q].at = Ref
       /\ door[q].pc \in {"number", "session", "balance", "write", "rollback", "rolling", "undo"}

Others(p, o) == {q \in DoorRequests \ {o} : Open(q, p)}

(* The counter may still fall behind a number by the requests that have    *)
(* drawn nothing since.                                                    *)
Within(n, p, o) ==
    n <= counter[p] + Cardinality(DoorRequests) - 1 - Cardinality(Others(p, o))

LagKept ==
    /\ \A s \in sessions : Within(s.number, s.part, s.owner)
    /\ \A r \in DoorRequests :
          door[r].pc = "session" => Within(door[r].number, door[r].at, r)
    /\ \A s \in sessions, r \in DoorRequests :
          s.owner = r /\ door[r].pc = "undo" => s.part # door[r].at

LEMMA SomeCounted ==
    ASSUME NEW o, NEW S, S \subseteq DoorRequests \ {o}
    PROVE  /\ IsFiniteSet(S) /\ Cardinality(S) \in Nat
           /\ o \in DoorRequests => Cardinality(S) <= Cardinality(DoorRequests) - 1
  <1>1. IsFiniteSet(S) /\ Cardinality(S) \in Nat
    BY FS_Subset, FS_CardinalityType, DoorRequestsCounted
  <1>2. o \in DoorRequests => Cardinality(S) <= Cardinality(DoorRequests) - 1
    BY LostElement, DoorRequestsCounted
  <1> QED
    BY <1>1, <1>2

LEMMA OthersCounted ==
    ASSUME NEW p, NEW o
    PROVE  /\ IsFiniteSet(Others(p, o)) /\ Cardinality(Others(p, o)) \in Nat
           /\ o \in DoorRequests => Cardinality(Others(p, o)) <= Cardinality(DoorRequests) - 1
  <1>1. Others(p, o) \subseteq DoorRequests \ {o}
    BY DEF Others
  <1> QED
    BY <1>1, SomeCounted

LEMMA OthersCountedNext ==
    ASSUME NEW p, NEW o
    PROVE  /\ IsFiniteSet(Others(p, o)') /\ Cardinality(Others(p, o)') \in Nat
           /\ o \in DoorRequests => Cardinality(Others(p, o)') <= Cardinality(DoorRequests) - 1
  <1>1. Others(p, o)' \subseteq DoorRequests \ {o}
    BY DEF Others
  <1> QED
    BY <1>1, SomeCounted

(* A step of r leaves the counter of p and opens nothing, draws a number   *)
(* of p, or gives one back.                                                *)
Leaves(r, p) == counter'[p] = counter[p] /\ (Open(r, p)' => Open(r, p))
Draws(r, p)  == counter'[p] = counter[p] + 1
Gives(r, p)  == counter'[p] >= counter[p] - 1 /\ Open(r, p) /\ ~Open(r, p)'

LEMMA WithinKept ==
    ASSUME DoorRowsOK, DoorRowsOK', NEW r \in DoorRequests,
           \A q \in DoorRequests : q # r => door'[q] = door[q],
           NEW p \in Parts, NEW n \in Numbers, NEW o, Within(n, p, o),
           Leaves(r, p) \/ Draws(r, p) \/ (Gives(r, p) /\ o # r)
    PROVE  Within(n, p, o)'
  <1> DEFINE K == Cardinality(Others(p, o))
             L == Cardinality(Others(p, o)')
  <1>t. /\ K \in Nat /\ L \in Nat /\ Cardinality(DoorRequests) \in Nat
        /\ counter[p] \in Int /\ counter'[p] \in Int /\ n \in Int
    BY OthersCounted, OthersCountedNext, DoorRequestsCounted, DoorPrintAssumption
    DEF DoorRowsOK, Numbers, DoorPrintAssumption
  <1>o. \A q \in DoorRequests : q # r => (Open(q, p)' <=> Open(q, p))
    BY DEF Open
  <1>1. CASE Leaves(r, p)
    <2>1. Others(p, o)' \subseteq Others(p, o)
      BY <1>o, <1>1 DEF Others, Leaves
    <2>2. L <= K
      BY <2>1, OthersCounted, FS_Subset
    <2> QED
      BY <1>1, <1>t, <2>2 DEF Leaves, Within
  <1>2. CASE Draws(r, p)
    <2>1. Others(p, o)' \subseteq Others(p, o) \cup {r}
      BY <1>o DEF Others
    <2>2. L <= K + 1
      BY <2>1, OthersCounted, AddedElement
    <2> QED
      BY <1>2, <1>t, <2>2 DEF Draws, Within
  <1>3. CASE Gives(r, p) /\ o # r
    <2>1. r \in Others(p, o) /\ Others(p, o)' \subseteq Others(p, o) \ {r}
      BY <1>o, <1>3 DEF Others, Gives
    <2>2. L <= K - 1
      BY <2>1, OthersCounted, LostElement
    <2> QED
      BY <1>3, <1>t, <2>2 DEF Gives, Within
  <1> QED
    BY <1>1, <1>2, <1>3

(* The session of a request that goes to rest, which gives nothing back    *)
(* any more, is nobody's.                                                  *)
LEMMA WithinFreed ==
    ASSUME DoorRowsOK, NEW r \in DoorRequests, NEW p, NEW n, Within(n, p, r)', ~Open(r, p)'
    PROVE  Within(n, p, Nobody)'
  <1>1. Others(p, Nobody)' = Others(p, r)'
    BY DoorPrintAssumption DEF Others, DoorPrintAssumption
  <1> QED
    BY <1>1 DEF Within

(* Where the rows of a step come from.                                     *)
RowsFrom(r) ==
    \A t \in sessions' :
        \/ \E s \in sessions : t.number = s.number /\ t.part = s.part /\ t.owner = s.owner
        \/ \E s \in sessions : /\ t.number = s.number /\ t.part = s.part
                               /\ s.owner = r /\ t.owner = Nobody /\ door'[r] = Resting
        \/ /\ door[r].pc = "session" /\ door'[r].pc # "undo"
           /\ t.number = door[r].number /\ t.part = door[r].at /\ t.owner = r

LEMMA LagStep ==
    ASSUME DoorRowsOK, DoorRowsOK', LagKept, NEW r \in DoorRequests,
           \A q \in DoorRequests : q # r => door'[q] = door[q],
           \A p \in Parts :
              \/ Leaves(r, p) \/ Draws(r, p)
              \/ Gives(r, p) /\ \A s \in sessions : s.owner = r => s.part # p,
           door[r].pc = "session" => \A p \in Parts : Leaves(r, p),
           RowsFrom(r),
           door'[r].pc = "session" =>
              /\ counter'[door'[r].at] = door'[r].number
              /\ door'[r].at \in Parts,
           door'[r].pc = "undo" =>
              \A t \in sessions' : t.owner = r => t.part # door'[r].at
    PROVE  LagKept'
  <1>r. door'[r] = Resting => \A p \in Parts : ~Open(r, p)'
    BY DEF Open, Resting
  <1>1. \A s \in sessions : Within(s.number, s.part, s.owner)'
    <2> SUFFICES ASSUME NEW s \in sessions
                 PROVE  Within(s.number, s.part, s.owner)'
      OBVIOUS
    <2>1. s.number \in Numbers /\ s.part \in Parts /\ Within(s.number, s.part, s.owner)
      BY RowTypes DEF LagKept
    <2>2. Leaves(r, s.part) \/ Draws(r, s.part) \/ (Gives(r, s.part) /\ s.owner # r)
      BY <2>1
    <2> QED
      BY <2>1, <2>2, WithinKept
  <1>2. \A t \in sessions' : Within(t.number, t.part, t.owner)'
    <2> SUFFICES ASSUME NEW t \in sessions'
                 PROVE  Within(t.number, t.part, t.owner)'
      OBVIOUS
    <2>1. CASE \E s \in sessions : t.number = s.number /\ t.part = s.part /\ t.owner = s.owner
      BY <1>1, <2>1
    <2>2. CASE \E s \in sessions : /\ t.number = s.number /\ t.part = s.part
                                   /\ s.owner = r /\ t.owner = Nobody /\ door'[r] = Resting
      <3>1. PICK s \in sessions : /\ t.number = s.number /\ t.part = s.part
                                  /\ s.owner = r /\ t.owner = Nobody /\ door'[r] = Resting
        BY <2>2
      <3>2. Within(s.number, s.part, r)' /\ ~Open(r, s.part)'
        BY <1>1, <1>r, <3>1, RowTypes
      <3> QED
        BY <3>1, <3>2, WithinFreed
    <2>3. CASE /\ door[r].pc = "session"
               /\ t.number = door[r].number /\ t.part = door[r].at /\ t.owner = r
      <3>1. Within(t.number, t.part, r) /\ t.number \in Numbers /\ t.part \in Parts
        BY <2>3 DEF LagKept, DoorRowsOK, Positions
      <3> QED
        BY <2>3, <3>1, WithinKept
    <2> QED
      BY <2>1, <2>2, <2>3 DEF RowsFrom
  <1>3. ASSUME NEW q \in DoorRequests, door'[q].pc = "session"
        PROVE  Within(door[q].number, door[q].at, q)'
    <2>1. CASE q # r
      <3>1. /\ door'[q] = door[q] /\ Within(door[q].number, door[q].at, q)
            /\ door[q].number \in Numbers /\ door[q].at \in Parts
        BY <1>3, <2>1 DEF LagKept, DoorRowsOK, Positions
      <3>2. Within(door[q].number, door[q].at, q)'
        BY <2>1, <3>1, WithinKept
      <3> QED
        BY <3>1, <3>2
    <2>2. CASE q = r
      <3>1. PICK p \in Parts : p = door'[r].at /\ counter'[p] = door'[r].number
        BY <1>3, <2>2
      <3>2. counter'[p] \in Int
        BY <3>1, DoorPrintAssumption DEF DoorRowsOK, Numbers, DoorPrintAssumption
      <3>3. Cardinality(Others(p, r)') <= Cardinality(DoorRequests) - 1
            /\ Cardinality(Others(p, r)') \in Nat /\ Cardinality(DoorRequests) \in Nat
        BY OthersCountedNext, DoorRequestsCounted
      <3>4. counter'[p] <=
               counter'[p] + Cardinality(DoorRequests) - 1 - Cardinality(Others(p, r)')
        BY <3>2, <3>3
      <3> QED
        BY <2>2, <3>1, <3>4 DEF Within, Others, Open
    <2> QED
      BY <2>1, <2>2
  <1>4. ASSUME NEW t \in sessions', NEW q \in DoorRequests, t.owner = q, door'[q].pc = "undo"
        PROVE  t.part # door'[q].at
    <2>1. CASE q = r
      BY <1>4, <2>1
    <2>2. CASE q # r
      BY <1>4, <2>2, DoorPrintAssumption DEF RowsFrom, LagKept, DoorPrintAssumption
    <2> QED
      BY <2>1, <2>2
  <1> QED
    BY <1>2, <1>3, <1>4 DEF LagKept

LEMMA RestRowsFrom ==
    ASSUME DoorRowsOK, NEW r \in DoorRequests, Rest(r)
    PROVE  RowsFrom(r) /\ door'[r] = Resting
  <1>1. sessions' = {Freed(s, r) : s \in sessions} /\ door'[r] = Resting
    BY DEF Rest, Freed, DoorRowsOK
  <1>2. ASSUME NEW s \in sessions
        PROVE  /\ Freed(s, r).number = s.number /\ Freed(s, r).part = s.part
               /\ Freed(s, r).owner = IF s.owner = r THEN Nobody ELSE s.owner
    BY RowTypes DEF Freed, SessionRows
  <1> QED
    BY <1>1, <1>2 DEF RowsFrom

(* A request that goes to rest draws nothing and has nothing to give back. *)
LEMMA RestLag ==
    ASSUME DoorRowsOK, DoorRowsOK', LagKept, NEW r \in DoorRequests, Rest(r), UNCHANGED counter
    PROVE  LagKept'
  <1>1. \A q \in DoorRequests : q # r => door'[q] = door[q]
    BY DEF Rest, DoorRowsOK
  <1>2. door'[r].pc = "resting" /\ RowsFrom(r)
    BY RestRowsFrom DEF Resting
  <1>3. \A p \in Parts : Leaves(r, p)
    BY <1>2 DEF Leaves, Open
  <1> QED
    BY <1>1, <1>2, <1>3, LagStep

(* It goes on, and the rows stay.                                          *)
LEMMA MoveLag ==
    ASSUME DoorRowsOK, DoorRowsOK', LagKept, NEW r \in DoorRequests, NEW o \in Positions,
           door' = [door EXCEPT ![r] = o], UNCHANGED sessions,
           \A p \in Parts :
              \/ Leaves(r, p) \/ Draws(r, p)
              \/ Gives(r, p) /\ \A s \in sessions : s.owner = r => s.part # p,
           door[r].pc = "session" => \A p \in Parts : Leaves(r, p),
           o.pc = "session" => counter'[o.at] = o.number,
           o.pc = "undo" => \A s \in sessions : s.owner = r => s.part # o.at
    PROVE  LagKept'
  <1>1. \A q \in DoorRequests : door'[q] = IF q = r THEN o ELSE door[q]
    BY DEF DoorRowsOK
  <1>2. RowsFrom(r) /\ o.at \in Parts
    BY DEF RowsFrom, Positions
  <1> QED
    BY <1>1, <1>2, LagStep

LEMMA BackLag ==
    ASSUME DoorRowsOK, DoorRowsOK', LagKept, NEW r \in DoorRequests, Back(r), UNCHANGED counter,
           door[r].pc \in {"number", "rollback", "rolling"}
    PROVE  LagKept'
  <1>1. CASE door[r].at = Ref
    <2> DEFINE o == [door[r] EXCEPT !.at = Freeze, !.pc = "rollback"]
    <2>1. /\ door' = [door EXCEPT ![r] = o] /\ UNCHANGED sessions
          /\ o.pc = "rollback" /\ o.at = Freeze /\ o \in Positions /\ door'[r] = o
      BY <1>1 DEF Back, DoorRowsOK, Positions, Parts
    <2> HIDE DEF o
    <2>2. \A p \in Parts : Leaves(r, p)
      BY <1>1, <2>1 DEF Leaves, Open
    <2> QED
      BY <2>1, <2>2, MoveLag
  <1>2. CASE door[r].at # Ref
    BY <1>2, RestLag DEF Back
  <1> QED
    BY <1>1, <1>2

(* It goes on at the door it is at, with the number it has drawn.          *)
LEMMA GotoLag ==
    ASSUME DoorRowsOK, DoorRowsOK', LagKept, NEW r \in DoorRequests, NEW pc,
           Goto(r, pc), UNCHANGED <<sessions, counter>>,
           pc \in {"number", "balance", "write", "rollback", "rolling", "undo"},
           pc = "number" \/ door[r].pc \in {"session", "balance", "write", "rollback", "rolling"},
           pc = "undo" => \A s \in sessions : s.owner = r => s.part # door[r].at,
           pc = "number" => door[r].at = Freeze
    PROVE  LagKept'
  <1> DEFINE o == [door[r] EXCEPT !.pc = pc]
  <1>1. /\ door' = [door EXCEPT ![r] = o] /\ o.at = door[r].at /\ o.pc = pc /\ o \in Positions
        /\ door'[r] = o
    BY DEF Goto, DoorRowsOK, Positions
  <1> HIDE DEF o
  <1>2. \A p \in Parts : Leaves(r, p)
    BY <1>1, DoorPrintAssumption DEF Leaves, Open, DoorPrintAssumption
  <1>3. o.pc # "session" /\ UNCHANGED sessions
    BY <1>1
  <1>4. o.pc = "undo" => \A s \in sessions : s.owner = r => s.part # o.at
    BY <1>1
  <1> QED
    BY <1>1, <1>2, <1>3, <1>4, MoveLag

LEMMA UndoLag ==
    ASSUME DoorRowsOK, DoorRowsOK', LagKept, NEW r \in DoorRequests, EshikDailyCounterUndo(r)
    PROVE  LagKept'
  <1>t. door[r].at \in Parts /\ door[r].pc = "undo" /\ Freeze # Ref /\ Parts = {Freeze, Ref}
    BY DoorPrintAssumption
    DEF EshikDailyCounterUndo, DoorRowsOK, Positions, Parts, DoorPrintAssumption
  <1>c. \A p \in Parts : \/ counter'[p] = counter[p]
                         \/ p = door[r].at /\ counter'[p] >= counter[p] - 1
    <2>1. \A p \in Parts : counter[p] \in Int
      BY DoorPrintAssumption DEF DoorRowsOK, Numbers, DoorPrintAssumption
    <2>2. counter \in [Parts -> Numbers]
      BY DEF DoorRowsOK
    <2>3. Undone(counter[door[r].at]) >= counter[door[r].at] - 1
      BY <1>t, <2>1 DEF Undone
    <2> QED
      BY <1>t, <2>1, <2>2, <2>3 DEF EshikDailyCounterUndo
  <1>o. Open(r, door[r].at)
    BY <1>t DEF Open
  <1>s. \A s \in sessions : s.owner = r => s.part # door[r].at
    BY <1>t DEF LagKept
  <1>1. CASE door[r].at = Ref
    <2> DEFINE o == [door[r] EXCEPT !.at = Freeze, !.pc = "rollback"]
    <2>1. /\ door' = [door EXCEPT ![r] = o] /\ UNCHANGED sessions
          /\ o.pc = "rollback" /\ o.at = Freeze /\ o \in Positions /\ door'[r] = o
      BY <1>1 DEF EshikDailyCounterUndo, Back, DoorRowsOK, Positions, Parts
    <2> HIDE DEF o
    <2>2. \A p \in Parts : \/ Leaves(r, p)
                           \/ Gives(r, p) /\ \A s \in sessions : s.owner = r => s.part # p
      BY <1>1, <1>c, <1>o, <1>s, <1>t, <2>1 DEF Leaves, Gives, Open
    <2> QED
      BY <1>t, <2>1, <2>2, MoveLag
  <1>2. CASE door[r].at = Freeze
    <2>1. Rest(r)
      BY <1>2, <1>t DEF EshikDailyCounterUndo, Back
    <2>2. \A q \in DoorRequests : q # r => door'[q] = door[q]
      BY <2>1 DEF Rest, DoorRowsOK
    <2>3. door'[r].pc = "resting" /\ RowsFrom(r)
      BY <2>1, RestRowsFrom DEF Resting
    <2>4. \A p \in Parts : ~Open(r, p)'
      BY <2>3 DEF Open
    <2>5. \A p \in Parts : \/ Leaves(r, p)
                           \/ Gives(r, p) /\ \A s \in sessions : s.owner = r => s.part # p
      BY <1>c, <1>o, <1>s, <2>4 DEF Leaves, Gives
    <2> QED
      BY <1>t, <2>2, <2>3, <2>5, LagStep
  <1> QED
    BY <1>1, <1>2, <1>t

LEMMA LagNextStep ==
    ASSUME DoorRowsOK, LabelInv, LagKept, NEW r \in DoorRequests, DoorStep(r),
           door[r].pc = "resting" => door[r].at = Freeze
    PROVE  LagKept'
  <1>t. /\ door[r] \in Positions /\ door[r].at \in Parts
        /\ Parts = {Freeze, Ref} /\ Freeze # Ref
    BY DoorPrintAssumption DEF DoorRowsOK, Positions, Parts, DoorPrintAssumption
  <1>n. DoorRowsOK'
    BY DoorRowsKept
  <1>h. \A s \in sessions : s.owner = r => HeldAt(s, door[r])
    BY DoorPrintAssumption DEF LabelInv, Held, DoorPrintAssumption
  <1>1. CASE LinesEshikV2Print(r)
    BY <1>1, <1>n, GotoLag DEF LinesEshikV2Print
  <1>2. CASE EshikNextDailyCounter(r)
    <2> DEFINE o == [door[r] EXCEPT !.number = counter[door[r].at] + 1, !.pc = "session"]
    <2>1. /\ door' = [door EXCEPT ![r] = o] /\ UNCHANGED sessions /\ door[r].pc = "number"
          /\ o.at = door[r].at /\ o.pc = "session" /\ o.number = counter[door[r].at] + 1
      BY <1>2, <1>t DEF EshikNextDailyCounter, DoorRowsOK, Positions
    <2> HIDE DEF o
    <2>2. door'[r] = o /\ o \in Positions
      BY <1>n, <2>1 DEF DoorRowsOK
    <2>3. \A p \in Parts :
             counter'[p] = IF p = door[r].at THEN counter[p] + 1 ELSE counter[p]
      BY <1>2, <1>t DEF EshikNextDailyCounter, DoorRowsOK
    <2>4. \A p \in Parts : Leaves(r, p) \/ Draws(r, p)
      BY <1>t, <2>1, <2>2, <2>3 DEF Leaves, Draws, Open
    <2> QED
      BY <1>n, <1>t, <2>1, <2>2, <2>3, <2>4, MoveLag
  <1>3. ASSUME NEW l \in Letters, EshikPrintSessionCreate(r, l)
        PROVE  LagKept'
    <2> DEFINE new == [owner |-> r, part |-> door[r].at, number |-> door[r].number,
                       serial |-> Serial(door[r].at, door[r].number, l), door |-> FALSE]
    <2>1. /\ new.owner = r /\ new.part = door[r].at /\ new.number = door[r].number
          /\ sessions' = sessions \cup {new} /\ door[r].pc = "session" /\ counter' = counter
      BY <1>3 DEF EshikPrintSessionCreate
    <2> HIDE DEF new
    <2>2. /\ door'[r].pc = "balance" /\ door'[r].at = door[r].at
          /\ \A q \in DoorRequests : q # r => door'[q] = door[q]
      BY <1>3, <1>t DEF EshikPrintSessionCreate, Goto, DoorRowsOK, Positions
    <2>3. RowsFrom(r)
      BY <2>1, <2>2 DEF RowsFrom
    <2>4. \A p \in Parts : Leaves(r, p)
      BY <2>1, <2>2 DEF Leaves, Open
    <2> QED
      BY <1>n, <2>2, <2>3, <2>4, LagStep
  <1>4. CASE EshikChiqishBalanceApply(r)
    BY <1>4, <1>n, GotoLag DEF EshikChiqishBalanceApply
  <1>5. CASE EshikChiqishBalanceCommit(r)
    <2>1. /\ sessions' = (sessions \ Own(r)) \cup {Recorded(s) : s \in Own(r)}
          /\ door[r].pc = "write" /\ counter' = counter
      BY <1>5 DEF EshikChiqishBalanceCommit, Recorded
    <2>2. \A s \in Own(r) : /\ s \in sessions
                            /\ Recorded(s).owner = s.owner /\ Recorded(s).part = s.part
                            /\ Recorded(s).number = s.number
      BY RowTypes DEF Own, Recorded, SessionRows
    <2>3. RowsFrom(r)
      BY <2>1, <2>2 DEF RowsFrom
    <2>4. /\ door'[r].pc = IF door[r].at = Freeze THEN "number" ELSE "print"
          /\ door'[r].at = IF door[r].at = Freeze THEN Ref ELSE Freeze
          /\ \A q \in DoorRequests : q # r => door'[q] = door[q]
      BY <1>5, <1>t DEF EshikChiqishBalanceCommit, DoorRowsOK, Positions
    <2>5. \A p \in Parts : Leaves(r, p)
      BY <1>t, <2>1, <2>4 DEF Leaves, Open
    <2> QED
      BY <1>n, <2>1, <2>3, <2>4, <2>5, LagStep
  <1>6. CASE NumberFails(r) \/ RollbackFails(r)
    BY <1>6, <1>n, BackLag DEF NumberFails, RollbackFails
  <1>7. CASE SessionFails(r)
    <2>1. \A s \in sessions : s.owner = r => s.part # door[r].at
      BY <1>7, <1>h DEF SessionFails, HeldAt
    <2> QED
      BY <1>7, <1>n, <2>1, GotoLag DEF SessionFails
  <1>8. CASE BalanceFails(r) \/ WriteFails(r) \/ EshikPrintRollback(r)
    BY <1>8, <1>n, GotoLag DEF BalanceFails, WriteFails, EshikPrintRollback
  <1>9. CASE EshikPrintRollbackCommit(r)
    <2>1. sessions' = sessions \ Own(r) /\ door[r].pc = "rolling" /\ counter' = counter
      BY <1>9 DEF EshikPrintRollbackCommit, RolledBack
    <2>2. /\ door'[r].pc = "undo" /\ door'[r].at = door[r].at
          /\ \A q \in DoorRequests : q # r => door'[q] = door[q]
      BY <1>9, <1>t DEF EshikPrintRollbackCommit, Goto, DoorRowsOK, Positions
    <2>3. \A t \in sessions' : t.owner = r => t.part # door'[r].at
      BY <2>1, <2>2 DEF Own
    <2>4. RowsFrom(r)
      BY <2>1 DEF RowsFrom
    <2>5. \A p \in Parts : Leaves(r, p)
      BY <2>1, <2>2 DEF Leaves, Open
    <2> QED
      BY <1>n, <2>1, <2>2, <2>3, <2>4, <2>5, LagStep
  <1>10. CASE EshikDailyCounterUndo(r)
    BY <1>10, <1>n, UndoLag
  <1>11. CASE eshikSendPrintV2(r)
    <2>1. CASE door[r].at = Freeze
      <3> DEFINE o == [door[r] EXCEPT !.at = Ref]
      <3>1. /\ door' = [door EXCEPT ![r] = o] /\ UNCHANGED <<sessions, counter>>
            /\ o.at = Ref /\ o.pc = "print" /\ door[r].pc = "print" /\ o \in Positions
            /\ door'[r] = o
        BY <1>11, <1>t, <2>1 DEF eshikSendPrintV2, DoorRowsOK, Positions
      <3> HIDE DEF o
      <3>2. \A p \in Parts : Leaves(r, p)
        BY <3>1 DEF Leaves, Open
      <3> QED
        BY <1>n, <3>1, <3>2, MoveLag
    <2>2. CASE door[r].at # Freeze
      BY <1>11, <1>n, <2>2, RestLag DEF eshikSendPrintV2
    <2> QED
      BY <2>1, <2>2
  <1>12. CASE Stop(r)
    BY <1>12, <1>n, RestLag DEF Stop
  <1> QED
    BY <1>1, <1>2, <1>3, <1>4, <1>5, <1>6, <1>7, <1>8, <1>9, <1>10, <1>11, <1>12 DEF DoorStep

(* A request comes to the gate at the freeze door.                         *)
AtGate == \A r \in DoorRequests : door[r].pc = "resting" => door[r].at = Freeze

LEMMA AtGateStep ==
    ASSUME DoorRowsOK, AtGate, NEW r \in DoorRequests, DoorStep(r)
    PROVE  AtGate'
  <1>1. ASSUME Rest(r)
        PROVE  AtGate'
    BY <1>1 DEF Rest, AtGate, DoorRowsOK, Resting
  <1>2. ASSUME NEW o, door' = [door EXCEPT ![r] = o], o.pc # "resting"
        PROVE  AtGate'
    BY <1>2 DEF AtGate, DoorRowsOK
  <1>3. ASSUME NEW pc, pc # "resting", Goto(r, pc)
        PROVE  AtGate'
    BY <1>3 DEF Goto, AtGate, DoorRowsOK, Positions
  <1>4. ASSUME Back(r)
        PROVE  AtGate'
    <2>1. CASE door[r].at = Ref
      BY <1>4, <2>1 DEF Back, AtGate, DoorRowsOK, Positions
    <2> QED
      BY <1>1, <1>4, <2>1 DEF Back
  <1>5. CASE \/ LinesEshikV2Print(r) \/ \E l \in Letters : EshikPrintSessionCreate(r, l)
             \/ EshikChiqishBalanceApply(r) \/ SessionFails(r) \/ BalanceFails(r)
             \/ WriteFails(r) \/ EshikPrintRollback(r) \/ EshikPrintRollbackCommit(r)
    BY <1>3, <1>5 DEF LinesEshikV2Print, EshikPrintSessionCreate, EshikChiqishBalanceApply,
       SessionFails, BalanceFails, WriteFails, EshikPrintRollback, EshikPrintRollbackCommit
  <1>6. CASE EshikNextDailyCounter(r)
    BY <1>6 DEF EshikNextDailyCounter, AtGate, DoorRowsOK, Positions
  <1>7. CASE EshikChiqishBalanceCommit(r)
    BY <1>7 DEF EshikChiqishBalanceCommit, AtGate, DoorRowsOK, Positions
  <1>8. CASE NumberFails(r) \/ RollbackFails(r) \/ EshikDailyCounterUndo(r)
    BY <1>4, <1>8 DEF NumberFails, RollbackFails, EshikDailyCounterUndo
  <1>9. CASE eshikSendPrintV2(r)
    <2>1. CASE door[r].at = Freeze
      BY <1>9, <2>1 DEF eshikSendPrintV2, AtGate, DoorRowsOK, Positions
    <2> QED
      BY <1>1, <1>9, <2>1 DEF eshikSendPrintV2
  <1>10. CASE Stop(r)
    BY <1>1, <1>10 DEF Stop
  <1> QED
    BY <1>5, <1>6, <1>7, <1>8, <1>9, <1>10 DEF DoorStep

LEMMA LagNext ==
    /\ DoorRowsOK /\ LabelInv /\ AtGate /\ LagKept
    /\ [DoorNext]_<<vars, doorVars>>
    => AtGate' /\ LagKept'
  <1> SUFFICES ASSUME DoorRowsOK, LabelInv, AtGate, LagKept, [DoorNext]_<<vars, doorVars>>
               PROVE  AtGate' /\ LagKept'
    OBVIOUS
  <1>1. CASE \E r \in DoorRequests : DoorStep(r)
    BY <1>1, AtGateStep, LagNextStep DEF AtGate
  <1>2. CASE UNCHANGED doorVars
    BY <1>2 DEF doorVars, AtGate, LagKept, Within, Others, Open
  <1> QED
    BY <1>1, <1>2 DEF DoorNext, Step, doorVars

LEMMA LagInitial == DoorInit => AtGate /\ LagKept
  BY DEF DoorInit, AtGate, LagKept, Resting

(* The counter of a day never falls behind the number of a door by as many *)
(* as there are requests: with one request at a time the next number is    *)
(* above every door's.                                                     *)
THEOREM CounterLags == DoorSpec => []CounterLag
  <1>1. DoorRowsOK /\ LagKept => CounterLag
    <2> SUFFICES ASSUME DoorRowsOK, LagKept, NEW d \in Doors
                 PROVE  d.number <= counter[d.part] + Cardinality(DoorRequests) - 1
      BY DEF CounterLag
    <2>1. d \in sessions /\ Within(d.number, d.part, d.owner)
      BY DEF Doors, LagKept
    <2>2. /\ d.number \in Int /\ counter[d.part] \in Int
          /\ Cardinality(DoorRequests) \in Nat /\ Cardinality(Others(d.part, d.owner)) \in Nat
      BY <2>1, RowTypes, OthersCounted, DoorRequestsCounted, DoorPrintAssumption
      DEF DoorRowsOK, Numbers, DoorPrintAssumption
    <2> QED
      BY <2>1, <2>2 DEF Within
  <1> QED
    BY <1>1, LagInitial, LagNext, LabelInitial, LabelNext, DoorRowsInitial, DoorRowsNext, PTL
    DEF DoorSpec
=============================================================================
