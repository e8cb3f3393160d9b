--------------------------- MODULE WriteoffProofs ---------------------------
(* What every number of documents, users and requests satisfies.           *)
EXTENDS WriteoffDocument, FiniteSetTheorems, TLAPS

USE DEF Requests, Items

LEMMA OpTypes ==
    ASSUME NEW o \in Op
    PROVE  /\ o.pc = "saving" => o \in SaveOp
           /\ o.pc = "deleted" => o \in DeleteOp
           /\ o.pc = "submitting" => o \in SubmitOp
           /\ o.pc = "rejecting" => o \in RejectOp
           /\ o.pc = "checked" => o \in CheckedOp
           /\ o.pc \in {"read", "marked", "last", "counted"} => o \in ApproveOp
  BY DEF Op, Idle, SaveOp, DeleteOp, SubmitOp, RejectOp, CheckedOp, ApproveOp

LEMMA EndType ==
    ASSUME TypeOK, NEW r \in Requests, End(r)
    PROVE  op' \in [Requests -> Op]
  BY DEF TypeOK, End, Op

LEMMA BeginType ==
    ASSUME TypeOK, NEW r \in Requests, NEW o \in Op, Begin(r, o)
    PROVE  op' \in [Requests -> Op]
  BY DEF TypeOK, Begin

(* What an approving request leaves alone except its own pc.               *)
LEMMA PcType ==
    ASSUME TypeOK, NEW r \in Requests,
           op[r].pc \in {"read", "marked", "last", "counted"},
           NEW p \in {"marked", "last", "counted"}
    PROVE  [op EXCEPT ![r].pc = p] \in [Requests -> Op]
  <1>1. op[r] \in ApproveOp
    BY OpTypes DEF TypeOK
  <1>2. [op[r] EXCEPT !.pc = p] \in ApproveOp
    BY <1>1 DEF ApproveOp
  <1> QED
    BY <1>2 DEF TypeOK, Op

LEMMA MarkedType ==
    ASSUME TypeOK, NEW r \in Requests, op[r].pc \in {"last", "counted"}
    PROVE  Marked(r) \in [Docs -> [Users -> {"absent", "pending", "approved"}]]
  <1>1. op[r].doc \in Docs /\ op[r].user \in Users
    BY OpTypes DEF TypeOK, ApproveOp
  <1> QED
    BY <1>1 DEF TypeOK, Marked

LEMMA TimesType ==
    ASSUME WriteoffAssumption, NEW taken, NEW i
    PROVE  Times(taken, i) \in Nat
  BY FS_Subset, FS_CardinalityType DEF WriteoffAssumption, Times

(* A save that commits: every other request goes on as it was, but for     *)
(* what a save that has looked already sees.                               *)
LEMMA SaveOps ==
    ASSUME TypeOK, NEW r \in CreatorRequests, WriteoffDocumentItemsSave(r)
    PROVE  /\ op' \in [Requests -> Op] /\ op'[r] = Idle
           /\ \A k \in Requests : op'[k] = op[k] \/ op'[k].pc \in {"idle", "deleted"}
  <1>1. op' = [k \in Requests |-> IF k = r THEN Idle ELSE LooksBefore(k, r)]
    BY DEF WriteoffDocumentItemsSave
  <1>2. ASSUME NEW k \in Requests
        PROVE  LooksBefore(k, r) = op[k] \/ LooksBefore(k, r) \in DeleteOp
    <2>1. CASE op[k].pc = "deleted"
      <3>1. op[k] \in DeleteOp
        BY <2>1, OpTypes DEF TypeOK
      <3>2. [op[k] EXCEPT !.seen = @ \ Inserted(r)] \in DeleteOp
        BY <3>1 DEF DeleteOp
      <3> QED
        BY <3>2 DEF LooksBefore
    <2> QED
      BY <2>1 DEF LooksBefore
  <1>3. \A k \in Requests : op'[k] = Idle \/ op'[k] = op[k] \/ op'[k] \in DeleteOp
    BY <1>1, <1>2
  <1>4. Idle.pc = "idle" /\ \A o \in DeleteOp : o.pc = "deleted"
    BY DEF Idle, DeleteOp
  <1>5. op' \in [Requests -> Op]
    BY <1>1, <1>3 DEF TypeOK, Op
  <1>6. op'[r] = Idle
    BY <1>1
  <1> QED
    BY <1>3, <1>4, <1>5, <1>6

-----------------------------------------------------------------------------
(* Types.                                                                  *)

LEMMA InitType == ASSUME WriteoffAssumption, Init PROVE TypeOK
  BY DEF WriteoffAssumption, Init, TypeOK, NoApprovals, Op

LEMMA CreatorType ==
    ASSUME WriteoffAssumption, TypeOK, NEW r \in CreatorRequests, CreatorStep(r)
    PROVE  TypeOK'
  <1>r. r \in Requests
    OBVIOUS
  <1>1. ASSUME NEW d \in Docs, NEW new \in SUBSET Items, WriteoffItemsValidate(r, d, new)
        PROVE  TypeOK'
    <2> DEFINE o == [pc |-> "saving", doc |-> d, items |-> new,
                     read |-> IF status[d] = "rejected" THEN "rejected" ELSE "draft"]
    <2>1. o \in Op
      BY DEF Op, SaveOp
    <2>2. Begin(r, o)
      BY <1>1 DEF WriteoffItemsValidate
    <2>3. op' \in [Requests -> Op]
      BY <1>r, <2>1, <2>2, BeginType
    <2> QED
      BY <1>1, <2>3 DEF WriteoffItemsValidate, TypeOK, approvals, stock
  <1>2. CASE WriteoffDocumentItemsSave(r)
    <2>1. op[r] \in DeleteOp
      BY <1>2, <1>r, OpTypes DEF WriteoffDocumentItemsSave, TypeOK
    <2>2. op[r].doc \in Docs /\ Inserted(r) \in SUBSET Rows
      BY <2>1 DEF DeleteOp, Inserted, Rows
    <2>3. op' \in [Requests -> Op]
      BY <1>2, SaveOps
    <2>4. late' \subseteq Docs
      BY <1>2, <2>2 DEF WriteoffDocumentItemsSave, LateWrite, TypeOK
    <2> QED
      BY <1>2, <2>2, <2>3, <2>4 DEF WriteoffDocumentItemsSave, TypeOK, stock
  <1>6. CASE WriteoffItemsDelete(r)
    <2> DEFINE o == [pc |-> "deleted", doc |-> op[r].doc, read |-> op[r].read,
                     items |-> op[r].items, seen |-> items[op[r].doc]]
    <2>1. op[r] \in SaveOp
      BY <1>6, <1>r, OpTypes DEF WriteoffItemsDelete, TypeOK
    <2>2. o \in Op
      BY <2>1 DEF Op, SaveOp, DeleteOp, TypeOK
    <2>3. op' = [op EXCEPT ![r] = o]
      BY <1>6 DEF WriteoffItemsDelete
    <2>4. op' \in [Requests -> Op]
      BY <2>2, <2>3 DEF TypeOK
    <2> QED
      BY <1>6, <2>4 DEF WriteoffItemsDelete, TypeOK, approvals, stock
  <1>3. ASSUME NEW d \in Docs, WriteoffSubmitCheck(r, d)
        PROVE  TypeOK'
    <2>1. [pc |-> "submitting", doc |-> d] \in Op
      BY DEF Op, SubmitOp
    <2>2. op' \in [Requests -> Op]
      BY <1>3, <1>r, <2>1, BeginType DEF WriteoffSubmitCheck
    <2> QED
      BY <1>3, <2>2 DEF WriteoffSubmitCheck, TypeOK, approvals, stock
  <1>4. CASE WriteoffDocumentSubmit(r)
    <2>1. op[r].doc \in Docs
      BY <1>4, <1>r, OpTypes DEF WriteoffDocumentSubmit, TypeOK, SubmitOp
    <2>2. op' \in [Requests -> Op]
      BY <1>4, <1>r, EndType DEF WriteoffDocumentSubmit
    <2>3. round' \in [Docs -> 0 .. MaxRound]
      BY <1>4, <2>1 DEF WriteoffDocumentSubmit, TypeOK, WriteoffAssumption
    <2>4. approval' \in [Docs -> [Users -> {"absent", "pending", "approved"}]]
      BY <1>4, <2>1 DEF WriteoffDocumentSubmit, TypeOK
    <2> QED
      BY <1>4, <2>1, <2>2, <2>3, <2>4 DEF WriteoffDocumentSubmit, TypeOK, stock
  <1>5. CASE Fail(r)
    <2>1. op' \in [Requests -> Op]
      BY <1>5, <1>r, EndType DEF Fail
    <2> QED
      BY <1>5, <2>1 DEF Fail, TypeOK, approvals, stock
  <1> QED
    BY <1>1, <1>2, <1>3, <1>4, <1>5, <1>6 DEF CreatorStep

LEMMA ResponsibleType ==
    ASSUME WriteoffAssumption, TypeOK, NEW r \in ResponsibleRequests, ResponsibleStep(r)
    PROVE  TypeOK'
  <1>r. r \in Requests
    OBVIOUS
  <1>1. ASSUME NEW u \in Users, NEW d \in Docs, WriteoffDocumentReject(r, u, d)
        PROVE  TypeOK'
    <2>1. [pc |-> "rejecting", doc |-> d] \in Op
      BY DEF Op, RejectOp
    <2>2. op' \in [Requests -> Op]
      BY <1>1, <1>r, <2>1, BeginType DEF WriteoffDocumentReject
    <2> QED
      BY <1>1, <2>2 DEF WriteoffDocumentReject, TypeOK, approvals, stock
  <1>2. CASE WriteoffRejectClear(r)
    <2>1. op' \in [Requests -> Op]
      BY <1>2, <1>r, EndType DEF WriteoffRejectClear
    <2>2. NoApprovals \in [Users -> {"absent", "pending", "approved"}]
      BY DEF NoApprovals
    <2> QED
      BY <1>2, <2>1, <2>2 DEF WriteoffRejectClear, TypeOK, stock
  <1>3. ASSUME NEW u \in Users, NEW d \in Docs, WriteoffApproveCheck(r, u, d)
        PROVE  TypeOK'
    <2>1. [pc |-> "checked", doc |-> d, user |-> u, round |-> round[d]] \in Op
      BY DEF Op, CheckedOp, TypeOK
    <2>2. op' \in [Requests -> Op]
      BY <1>3, <1>r, <2>1, BeginType DEF WriteoffApproveCheck
    <2> QED
      BY <1>3, <2>2 DEF WriteoffApproveCheck, TypeOK, approvals, stock
  <1>4. CASE WriteoffApproveItemsGet(r)
    <2> DEFINE o == [pc |-> "read", doc |-> op[r].doc, user |-> op[r].user,
                     round |-> op[r].round, items |-> items[op[r].doc]]
    <2>1. op[r] \in CheckedOp
      BY <1>4, <1>r, OpTypes DEF WriteoffApproveItemsGet, TypeOK
    <2>2. o \in Op
      BY <2>1 DEF Op, CheckedOp, ApproveOp, TypeOK
    <2>3. op' = [op EXCEPT ![r] = o]
      BY <1>4 DEF WriteoffApproveItemsGet
    <2>4. op' \in [Requests -> Op]
      BY <2>2, <2>3 DEF TypeOK
    <2> QED
      BY <1>4, <2>4 DEF WriteoffApproveItemsGet, TypeOK, approvals, stock
  <1>5. CASE WriteoffApproveMark(r)
    <2>1. op' \in [Requests -> Op]
      BY <1>5, <1>r, PcType DEF WriteoffApproveMark
    <2> QED
      BY <1>5, <2>1 DEF WriteoffApproveMark, TypeOK, approvals, stock
  <1>6. CASE WriteoffApproveCount(r)
    <2>1. op' \in [Requests -> Op]
      BY <1>6, <1>r, PcType DEF WriteoffApproveCount
    <2> QED
      BY <1>6, <2>1 DEF WriteoffApproveCount, TypeOK, approvals, stock
  <1>7. CASE WriteoffApproveCommit(r)
    <2>1. op' \in [Requests -> Op]
      BY <1>7, <1>r, EndType DEF WriteoffApproveCommit
    <2>2. approval' \in [Docs -> [Users -> {"absent", "pending", "approved"}]]
      BY <1>7, <1>r, MarkedType DEF WriteoffApproveCommit
    <2> QED
      BY <1>7, <2>1, <2>2 DEF WriteoffApproveCommit, TypeOK, stock
  <1>8. CASE WriteoffDocumentApprove(r)
    <2>0. op[r].doc \in Docs
      BY <1>8, <1>r, OpTypes DEF WriteoffDocumentApprove, TypeOK, ApproveOp
    <2>1. op' \in [Requests -> Op]
      BY <1>8, <1>r, EndType DEF WriteoffDocumentApprove
    <2>2. approval' \in [Docs -> [Users -> {"absent", "pending", "approved"}]]
      BY <1>8, <1>r, MarkedType DEF WriteoffDocumentApprove
    <2>3. product' \in [ProductItems -> {"active", "moved", "written_off"}]
      BY <1>8 DEF WriteoffDocumentApprove, TypeOK
    <2>4. balance' \in [ComponentItems -> 0 .. MaxBalance]
      <3> DEFINE n(i) == Times(op[r].items, i)
      <3>1. balance' = [i \in ComponentItems |-> balance[i] - n(i)]
        BY <1>8 DEF WriteoffDocumentApprove
      <3>2. \A i : n(i) \in Nat
        BY TimesType
      <3>3. \A i \in ComponentItems : n(i) <= balance[i]
        <4>1. SUFFICES ASSUME NEW i \in ComponentItems PROVE n(i) <= balance[i]
          OBVIOUS
        <4>2. CASE i \in Named(op[r].items, ComponentItems)
          BY <1>8, <4>2 DEF WriteoffDocumentApprove, writeoffApproveComponentTx
        <4>3. CASE i \notin Named(op[r].items, ComponentItems)
          <5>1. {c \in CreatorRequests : <<i, c>> \in op[r].items} = {}
            BY <4>3 DEF Named
          <5>2. n(i) = 0
            BY <5>1, FS_EmptySet DEF Times
          <5> QED
            BY <5>2, WriteoffAssumption DEF TypeOK, WriteoffAssumption
        <4> QED
          BY <4>2, <4>3
      <3>4. \A i \in ComponentItems : balance[i] \in 0 .. MaxBalance
        BY DEF TypeOK
      <3> HIDE DEF n
      <3>5. \A i \in ComponentItems : balance[i] - n(i) \in 0 .. MaxBalance
        BY <3>2, <3>3, <3>4 DEF WriteoffAssumption
      <3> QED
        BY <3>1, <3>5
    <2>5. records' \in [Docs -> [Items -> Nat]]
      <3> DEFINE w == [i \in Items |-> records[op[r].doc][i] + Times(op[r].items, i)]
      <3>1. records' = [records EXCEPT ![op[r].doc] = w]
        BY <1>8 DEF WriteoffDocumentApprove
      <3>2. records[op[r].doc] \in [Items -> Nat]
        BY <2>0 DEF TypeOK
      <3>3. w \in [Items -> Nat]
        BY <3>2, TimesType
      <3>4. records \in [Docs -> [Items -> Nat]]
        BY DEF TypeOK
      <3> HIDE DEF w
      <3> QED
        BY <2>0, <3>1, <3>3, <3>4
    <2>6. status' \in [Docs -> {"new", "draft", "pending", "approved", "rejected", "deleted"}]
      BY <1>8, <2>0 DEF WriteoffDocumentApprove, TypeOK
    <2> QED
      BY <1>8, <2>1, <2>2, <2>3, <2>4, <2>5, <2>6 DEF WriteoffDocumentApprove, TypeOK
  <1>9. CASE Fail(r)
    <2>1. op' \in [Requests -> Op]
      BY <1>9, <1>r, EndType DEF Fail
    <2> QED
      BY <1>9, <2>1 DEF Fail, TypeOK, approvals, stock
  <1> QED
    BY <1>1, <1>2, <1>3, <1>4, <1>5, <1>6, <1>7, <1>8, <1>9 DEF ResponsibleStep

LEMMA NextType == ASSUME WriteoffAssumption, TypeOK, [Next]_vars PROVE TypeOK'
  <1>1. ASSUME NEW d \in Docs, WriteoffDocumentCreate(d) PROVE TypeOK'
    BY <1>1 DEF WriteoffDocumentCreate, TypeOK, approvals, stock
  <1>2. ASSUME NEW d \in Docs, WriteoffDocumentDelete(d) PROVE TypeOK'
    BY <1>2 DEF WriteoffDocumentDelete, TypeOK, NoApprovals, stock
  <1>3. ASSUME NEW u \in Users, WriteoffResponsibleAdd(u) \/ WriteoffResponsibleDelete(u)
        PROVE  TypeOK'
    BY <1>3 DEF WriteoffResponsibleAdd, WriteoffResponsibleDelete, TypeOK, stock
  <1>4. ASSUME NEW i \in ProductItems, ProductMoves(i) PROVE TypeOK'
    BY <1>4 DEF ProductMoves, TypeOK, approvals
  <1>5. ASSUME NEW i \in ComponentItems, LineConsumes(i) PROVE TypeOK'
    <2>1. balance' \in [ComponentItems -> 0 .. MaxBalance]
      BY <1>5 DEF LineConsumes, TypeOK, WriteoffAssumption
    <2> QED
      BY <1>5, <2>1 DEF LineConsumes, TypeOK, approvals
  <1>6. CASE UNCHANGED vars
    BY <1>6 DEF vars, TypeOK
  <1> QED
    BY <1>1, <1>2, <1>3, <1>4, <1>5, <1>6, CreatorType, ResponsibleType DEF Next

(* Every value the documents, approvals, balances and requests take is one *)
(* the tables allow; a component's balance never falls below zero.         *)
THEOREM TypeCorrect == Spec => []TypeOK
  <1>1. Init => TypeOK
    BY InitType, WriteoffAssumption
  <1>2. TypeOK /\ [Next]_vars => TypeOK'
    BY NextType, WriteoffAssumption
  <1> QED
    BY <1>1, <1>2, PTL DEF Spec

-----------------------------------------------------------------------------
(* A product is written off once.                                          *)

LEMMA ApproveOnce ==
    ASSUME TypeOK, ProductOnce, NEW r \in ResponsibleRequests, WriteoffDocumentApprove(r)
    PROVE  ProductOnce'
  <1> DEFINE d == op[r].doc
             taken == op[r].items
             n(i) == Times(taken, i)
             hit == Named(taken, ProductItems)
  <1>1. d \in Docs
    BY OpTypes DEF WriteoffDocumentApprove, TypeOK, ApproveOp
  <1>2. ASSUME NEW i \in ProductItems, NEW e \in Docs
        PROVE  records'[e][i] = IF e = d THEN records[e][i] + n(i) ELSE records[e][i]
    BY <1>1, i \in Items DEF WriteoffDocumentApprove, TypeOK
  <1>3. \A i \in ProductItems : product'[i] = IF i \in hit THEN "written_off" ELSE product[i]
    BY DEF WriteoffDocumentApprove
  <1>4. \A i \in hit : product[i] = "active" /\ n(i) = 1
    BY DEF WriteoffDocumentApprove, writeoffApproveProductTx
  <1>5. \A i \in ProductItems, e \in Docs : records[e][i] \in Nat
    BY DEF TypeOK
  <1>8. \A i \in ProductItems \ hit : n(i) = 0
    <2>1. SUFFICES ASSUME NEW i \in ProductItems \ hit PROVE n(i) = 0
      OBVIOUS
    <2>2. {c \in CreatorRequests : <<i, c>> \in taken} = {}
      BY DEF Named
    <2> QED
      BY <2>2, FS_EmptySet DEF Times
  <1> HIDE DEF d, taken, n, hit
  <1> SUFFICES ASSUME NEW i \in ProductItems, NEW e \in Docs, records'[e][i] > 0
               PROVE  /\ product'[i] = "written_off"
                      /\ records'[e][i] = 1
                      /\ \A f \in Docs \ {e} : records'[f][i] = 0
    BY DEF ProductOnce
  <1>6. CASE i \in hit
    <2>1. \A f \in Docs : records[f][i] = 0
      BY <1>4, <1>5, <1>6 DEF ProductOnce
    <2>2. \A f \in Docs : records'[f][i] = IF f = d THEN 1 ELSE 0
      BY <1>2, <1>4, <1>6, <2>1
    <2> QED
      BY <1>1, <1>3, <1>6, <2>2
  <1>7. CASE i \notin hit
    <2>1. \A f \in Docs : records'[f][i] = records[f][i]
      BY <1>2, <1>5, <1>7, <1>8
    <2> QED
      BY <1>3, <1>7, <2>1 DEF ProductOnce
  <1> QED
    BY <1>6, <1>7

(* However many documents list a product and however their approvals       *)
(* overlap, one of them writes it off, once, and the product says so.      *)
THEOREM WrittenOffOnce == Spec => []ProductOnce
  <1>1. Init => ProductOnce
    BY DEF Init, ProductOnce, Items
  <1>2. TypeOK /\ ProductOnce /\ [Next]_vars => ProductOnce'
    <2> SUFFICES ASSUME TypeOK, ProductOnce, [Next]_vars
                 PROVE  ProductOnce'
      OBVIOUS
    <2>1. ASSUME NEW r \in CreatorRequests, CreatorStep(r)
          PROVE  UNCHANGED <<product, records>>
      BY <2>1 DEF CreatorStep, WriteoffItemsValidate, WriteoffItemsDelete, WriteoffDocumentItemsSave,
                  WriteoffSubmitCheck, WriteoffDocumentSubmit, Fail, stock
    <2>2. ASSUME NEW r \in ResponsibleRequests, ResponsibleStep(r),
                 ~WriteoffDocumentApprove(r)
          PROVE  UNCHANGED <<product, records>>
      BY <2>2 DEF ResponsibleStep, WriteoffDocumentReject, WriteoffRejectClear,
                  WriteoffApproveCheck, WriteoffApproveItemsGet, WriteoffApproveMark,
                  WriteoffApproveCount, WriteoffApproveCommit, Fail, stock
    <2>3. ASSUME NEW d \in Docs, WriteoffDocumentCreate(d) \/ WriteoffDocumentDelete(d)
          PROVE  UNCHANGED <<product, records>>
      BY <2>3 DEF WriteoffDocumentCreate, WriteoffDocumentDelete, stock
    <2>4. ASSUME NEW u \in Users, WriteoffResponsibleAdd(u) \/ WriteoffResponsibleDelete(u)
          PROVE  UNCHANGED <<product, records>>
      BY <2>4 DEF WriteoffResponsibleAdd, WriteoffResponsibleDelete, stock
    <2>5. ASSUME NEW i \in ProductItems, ProductMoves(i)
          PROVE  ProductOnce'
      BY <2>5 DEF ProductMoves, ProductOnce, TypeOK
    <2>6. ASSUME NEW i \in ComponentItems, LineConsumes(i)
          PROVE  UNCHANGED <<product, records>>
      BY <2>6 DEF LineConsumes
    <2>7. ASSUME UNCHANGED <<product, records>>
          PROVE  ProductOnce'
      BY <2>7 DEF ProductOnce
    <2>8. CASE UNCHANGED vars
      BY <2>7, <2>8 DEF vars
    <2> QED
      BY <2>1, <2>2, <2>3, <2>4, <2>5, <2>6, <2>7, <2>8, ApproveOnce DEF Next
  <1> QED
    BY <1>1, <1>2, TypeCorrect, PTL DEF Spec

-----------------------------------------------------------------------------
(* Nobody is passed over.                                                  *)

(* A request that counted itself the last stays the last: approvals it did *)
(* not see only turn from pending to approved, and a new submission, which *)
(* would ask everybody again, waits for the row lock it holds.             *)
LastAlone ==
    \A r \in ResponsibleRequests : op[r].pc = "last" => NonePending(op[r].doc, op[r].user)

NoneAsked ==
    \A d \in Docs, v \in Users : approval'[d][v] = "pending" => approval[d][v] = "pending"

LEMMA KeepsLast ==
    ASSUME TypeOK, LastAlone, NoneAsked,
           \A k \in ResponsibleRequests : op'[k] = op[k] \/ op'[k].pc # "last"
    PROVE  LastAlone'
  <1> SUFFICES ASSUME NEW k \in ResponsibleRequests, op'[k].pc = "last",
                      NEW v \in Users, v # op'[k].user
               PROVE  approval'[op'[k].doc][v] # "pending"
    BY DEF LastAlone, NonePending
  <1>1. op'[k] = op[k]
    OBVIOUS
  <1>2. op[k].doc \in Docs
    BY <1>1, OpTypes DEF TypeOK, ApproveOp
  <1> QED
    BY <1>1, <1>2 DEF LastAlone, NonePending, NoneAsked

LEMMA MarkedAsksNone ==
    ASSUME TypeOK, NEW r \in Requests, op[r].pc \in {"last", "counted"}, approval' = Marked(r)
    PROVE  NoneAsked
  <1>1. op[r].doc \in Docs /\ op[r].user \in Users
    BY OpTypes DEF TypeOK, ApproveOp
  <1> QED
    BY <1>1 DEF TypeOK, Marked, NoneAsked

LEMMA EndLeavesLast ==
    ASSUME TypeOK, NEW r \in Requests, End(r)
    PROVE  \A k \in ResponsibleRequests : op'[k] = op[k] \/ op'[k].pc # "last"
  BY DEF TypeOK, End, Idle

LEMMA CreatorLast ==
    ASSUME TypeOK, LastAlone, NEW r \in CreatorRequests, CreatorStep(r)
    PROVE  LastAlone'
  <1>1. ASSUME NEW d \in Docs, NEW new \in SUBSET Items, WriteoffItemsValidate(r, d, new)
        PROVE  LastAlone'
    <2>1. NoneAsked
      BY <1>1 DEF WriteoffItemsValidate, approvals, NoneAsked
    <2>2. \A k \in ResponsibleRequests : op'[k] = op[k] \/ op'[k].pc # "last"
      BY <1>1 DEF WriteoffItemsValidate, Begin, TypeOK
    <2> QED
      BY <2>1, <2>2, KeepsLast
  <1>2. CASE WriteoffDocumentItemsSave(r)
    <2>1. NoneAsked
      BY <1>2 DEF WriteoffDocumentItemsSave, NoneAsked
    <2>2. \A k \in ResponsibleRequests : op'[k] = op[k] \/ op'[k].pc # "last"
      BY <1>2, SaveOps
    <2> QED
      BY <2>1, <2>2, KeepsLast
  <1>6. CASE WriteoffItemsDelete(r)
    <2>1. NoneAsked
      BY <1>6 DEF WriteoffItemsDelete, approvals, NoneAsked
    <2>2. \A k \in ResponsibleRequests : op'[k] = op[k] \/ op'[k].pc # "last"
      BY <1>6 DEF WriteoffItemsDelete, TypeOK
    <2> QED
      BY <2>1, <2>2, KeepsLast
  <1>3. ASSUME NEW d \in Docs, WriteoffSubmitCheck(r, d)
        PROVE  LastAlone'
    <2>1. NoneAsked
      BY <1>3 DEF WriteoffSubmitCheck, approvals, NoneAsked
    <2>2. \A k \in ResponsibleRequests : op'[k] = op[k] \/ op'[k].pc # "last"
      BY <1>3 DEF WriteoffSubmitCheck, Begin, TypeOK
    <2> QED
      BY <2>1, <2>2, KeepsLast
  <1>4. CASE WriteoffDocumentSubmit(r)
    <2> DEFINE d == op[r].doc
    <2>1. End(r) /\ Unlocked(d)
      BY <1>4 DEF WriteoffDocumentSubmit
    <2> SUFFICES ASSUME NEW k \in ResponsibleRequests, op'[k].pc = "last",
                        NEW v \in Users, v # op'[k].user
                 PROVE  approval'[op'[k].doc][v] # "pending"
      BY DEF LastAlone, NonePending
    <2>2. op'[k] = op[k]
      BY <2>1, EndLeavesLast
    <2>3. op[k].doc # d
      BY <2>1, <2>2 DEF Unlocked, Holding
    <2>4. op[k].doc \in Docs
      BY <2>2, OpTypes DEF TypeOK, ApproveOp
    <2>5. approval'[op[k].doc] = approval[op[k].doc]
      BY <1>4, <2>3, <2>4 DEF WriteoffDocumentSubmit, TypeOK
    <2> QED
      BY <2>2, <2>5 DEF LastAlone, NonePending
  <1>5. CASE Fail(r)
    <2>1. NoneAsked
      BY <1>5 DEF Fail, approvals, NoneAsked
    <2>2. End(r)
      BY <1>5 DEF Fail
    <2> QED
      BY <2>1, <2>2, KeepsLast, EndLeavesLast
  <1> QED
    BY <1>1, <1>2, <1>3, <1>4, <1>5, <1>6 DEF CreatorStep

LEMMA ResponsibleLast ==
    ASSUME TypeOK, LastAlone, NEW r \in ResponsibleRequests, ResponsibleStep(r)
    PROVE  LastAlone'
  <1>1. ASSUME NEW u \in Users, NEW d \in Docs, WriteoffDocumentReject(r, u, d)
        PROVE  LastAlone'
    <2>1. NoneAsked
      BY <1>1 DEF WriteoffDocumentReject, approvals, NoneAsked
    <2>2. \A k \in ResponsibleRequests : op'[k] = op[k] \/ op'[k].pc # "last"
      BY <1>1 DEF WriteoffDocumentReject, Begin, TypeOK
    <2> QED
      BY <2>1, <2>2, KeepsLast
  <1>2. CASE WriteoffRejectClear(r)
    <2>1. NoneAsked
      BY <1>2 DEF WriteoffRejectClear, NoneAsked, NoApprovals, TypeOK
    <2>2. End(r)
      BY <1>2 DEF WriteoffRejectClear
    <2> QED
      BY <2>1, <2>2, KeepsLast, EndLeavesLast
  <1>3. ASSUME NEW u \in Users, NEW d \in Docs, WriteoffApproveCheck(r, u, d)
        PROVE  LastAlone'
    <2>1. NoneAsked
      BY <1>3 DEF WriteoffApproveCheck, approvals, NoneAsked
    <2>2. \A k \in ResponsibleRequests : op'[k] = op[k] \/ op'[k].pc # "last"
      BY <1>3 DEF WriteoffApproveCheck, Begin, TypeOK
    <2> QED
      BY <2>1, <2>2, KeepsLast
  <1>4. CASE WriteoffApproveItemsGet(r)
    <2>1. NoneAsked
      BY <1>4 DEF WriteoffApproveItemsGet, approvals, NoneAsked
    <2>2. \A k \in ResponsibleRequests : op'[k] = op[k] \/ op'[k].pc # "last"
      BY <1>4 DEF WriteoffApproveItemsGet, TypeOK
    <2> QED
      BY <2>1, <2>2, KeepsLast
  <1>5. CASE WriteoffApproveMark(r)
    <2>1. NoneAsked
      BY <1>5 DEF WriteoffApproveMark, approvals, NoneAsked
    <2>2. op[r] \in ApproveOp
      BY <1>5, OpTypes DEF WriteoffApproveMark, TypeOK
    <2>3. \A k \in ResponsibleRequests : op'[k] = op[k] \/ op'[k].pc # "last"
      BY <1>5, <2>2 DEF WriteoffApproveMark, TypeOK, ApproveOp
    <2> QED
      BY <2>1, <2>3, KeepsLast
  <1>6. CASE WriteoffApproveCount(r)
    <2>1. op[r] \in ApproveOp
      BY <1>6, OpTypes DEF WriteoffApproveCount, TypeOK
    <2>2. approval' = approval
      BY <1>6 DEF WriteoffApproveCount, approvals
    <2> SUFFICES ASSUME NEW k \in ResponsibleRequests, op'[k].pc = "last",
                        NEW v \in Users, v # op'[k].user
                 PROVE  approval'[op'[k].doc][v] # "pending"
      BY DEF LastAlone, NonePending
    <2>3. CASE k = r
      <3>1. NonePending(op[r].doc, op[r].user)
        BY <1>6, <2>1, <2>3 DEF WriteoffApproveCount, TypeOK, ApproveOp
      <3>2. op'[r].doc = op[r].doc /\ op'[r].user = op[r].user
        BY <1>6, <2>1 DEF WriteoffApproveCount, TypeOK, ApproveOp
      <3> QED
        BY <2>2, <2>3, <3>1, <3>2 DEF NonePending
    <2>4. CASE k # r
      <3>1. op'[k] = op[k]
        BY <1>6, <2>4 DEF WriteoffApproveCount, TypeOK
      <3> QED
        BY <2>2, <3>1 DEF LastAlone, NonePending
    <2> QED
      BY <2>3, <2>4
  <1>7. CASE WriteoffApproveCommit(r)
    <2>1. NoneAsked
      BY <1>7, MarkedAsksNone DEF WriteoffApproveCommit
    <2>2. End(r)
      BY <1>7 DEF WriteoffApproveCommit
    <2> QED
      BY <2>1, <2>2, KeepsLast, EndLeavesLast
  <1>8. CASE WriteoffDocumentApprove(r)
    <2>1. NoneAsked
      BY <1>8, MarkedAsksNone DEF WriteoffDocumentApprove
    <2>2. End(r)
      BY <1>8 DEF WriteoffDocumentApprove
    <2> QED
      BY <2>1, <2>2, KeepsLast, EndLeavesLast
  <1>9. CASE Fail(r)
    <2>1. NoneAsked
      BY <1>9 DEF Fail, approvals, NoneAsked
    <2>2. End(r)
      BY <1>9 DEF Fail
    <2> QED
      BY <2>1, <2>2, KeepsLast, EndLeavesLast
  <1> QED
    BY <1>1, <1>2, <1>3, <1>4, <1>5, <1>6, <1>7, <1>8, <1>9 DEF ResponsibleStep

LEMMA NextLast == ASSUME TypeOK, LastAlone, [Next]_vars PROVE LastAlone'
  <1>1. ASSUME NEW d \in Docs, WriteoffDocumentCreate(d) \/ WriteoffDocumentDelete(d)
        PROVE  LastAlone'
    <2>1. NoneAsked
      <3>1. CASE WriteoffDocumentCreate(d)
        BY <3>1 DEF WriteoffDocumentCreate, approvals, NoneAsked
      <3>2. CASE WriteoffDocumentDelete(d)
        BY <3>2 DEF WriteoffDocumentDelete, NoApprovals, NoneAsked, TypeOK
      <3> QED
        BY <1>1, <3>1, <3>2
    <2>2. op' = op
      BY <1>1 DEF WriteoffDocumentCreate, WriteoffDocumentDelete
    <2> QED
      BY <2>1, <2>2, KeepsLast
  <1>2. ASSUME UNCHANGED <<approval, op>>
        PROVE  LastAlone'
    BY <1>2 DEF LastAlone, NonePending
  <1>3. ASSUME NEW u \in Users, WriteoffResponsibleAdd(u) \/ WriteoffResponsibleDelete(u)
        PROVE  LastAlone'
    BY <1>2, <1>3 DEF WriteoffResponsibleAdd, WriteoffResponsibleDelete
  <1>4. ASSUME NEW i \in ProductItems, ProductMoves(i)
        PROVE  LastAlone'
    BY <1>2, <1>4 DEF ProductMoves, approvals
  <1>5. ASSUME NEW i \in ComponentItems, LineConsumes(i)
        PROVE  LastAlone'
    BY <1>2, <1>5 DEF LineConsumes, approvals
  <1>6. CASE UNCHANGED vars
    BY <1>2, <1>6 DEF vars
  <1> QED
    BY <1>1, <1>3, <1>4, <1>5, <1>6, CreatorLast, ResponsibleLast DEF Next

NeedsAllStep ==
    \A d \in Docs : records'[d] # records[d] =>
        /\ \A u \in Users : approval'[d][u] # "pending"
        /\ \E u \in Users : approval'[d][u] = "approved"

LEMMA ApproveNeedsAll ==
    ASSUME TypeOK, LastAlone, NEW r \in ResponsibleRequests, WriteoffDocumentApprove(r)
    PROVE  NeedsAllStep
  <1>1. op[r].pc = "last" /\ op[r].doc \in Docs /\ op[r].user \in Users
    BY OpTypes DEF WriteoffDocumentApprove, TypeOK, ApproveOp
  <1>2. NonePending(op[r].doc, op[r].user)
    BY <1>1 DEF LastAlone
  <1>3. approval' = Marked(r)
    BY DEF WriteoffDocumentApprove
  <1>4. \A d \in Docs : records'[d] # records[d] => d = op[r].doc
    BY <1>1 DEF WriteoffDocumentApprove, TypeOK
  <1>5. approval'[op[r].doc][op[r].user] = "approved"
    BY <1>1, <1>3 DEF Marked, TypeOK
  <1>6. \A v \in Users : v # op[r].user => approval'[op[r].doc][v] = approval[op[r].doc][v]
    BY <1>1, <1>3 DEF Marked, TypeOK
  <1> QED
    BY <1>1, <1>2, <1>4, <1>5, <1>6 DEF NeedsAllStep, NonePending

LEMMA NextNeedsAll == ASSUME TypeOK, LastAlone, [Next]_vars PROVE NeedsAllStep
  <1>1. ASSUME NEW r \in CreatorRequests, CreatorStep(r)
        PROVE  UNCHANGED records
    BY <1>1 DEF CreatorStep, WriteoffItemsValidate, WriteoffItemsDelete, WriteoffDocumentItemsSave,
                WriteoffSubmitCheck, WriteoffDocumentSubmit, Fail, stock
  <1>2. ASSUME NEW r \in ResponsibleRequests, ResponsibleStep(r), ~WriteoffDocumentApprove(r)
        PROVE  UNCHANGED records
    BY <1>2 DEF ResponsibleStep, WriteoffDocumentReject, WriteoffRejectClear,
                WriteoffApproveCheck, WriteoffApproveItemsGet, WriteoffApproveMark,
                WriteoffApproveCount, WriteoffApproveCommit, Fail, stock
  <1>3. ASSUME NEW d \in Docs, WriteoffDocumentCreate(d) \/ WriteoffDocumentDelete(d)
        PROVE  UNCHANGED records
    BY <1>3 DEF WriteoffDocumentCreate, WriteoffDocumentDelete, stock
  <1>4. ASSUME NEW u \in Users, WriteoffResponsibleAdd(u) \/ WriteoffResponsibleDelete(u)
        PROVE  UNCHANGED records
    BY <1>4 DEF WriteoffResponsibleAdd, WriteoffResponsibleDelete, stock
  <1>5. ASSUME NEW i \in ProductItems, ProductMoves(i)
        PROVE  UNCHANGED records
    BY <1>5 DEF ProductMoves
  <1>6. ASSUME NEW i \in ComponentItems, LineConsumes(i)
        PROVE  UNCHANGED records
    BY <1>6 DEF LineConsumes
  <1>7. ASSUME UNCHANGED records
        PROVE  NeedsAllStep
    BY <1>7 DEF NeedsAllStep
  <1>8. CASE UNCHANGED vars
    BY <1>7, <1>8 DEF vars
  <1> QED
    BY <1>1, <1>2, <1>3, <1>4, <1>5, <1>6, <1>7, <1>8, ApproveNeedsAll DEF Next

(* Whoever the submission asked has approved by the time the items are     *)
(* written off, for every number of responsibles and overlapping requests. *)
THEOREM NobodyPassedOver == Spec => WriteoffNeedsAll
  <1>1. Init => LastAlone
    BY DEF Init, LastAlone, Idle
  <1>2. TypeOK /\ LastAlone /\ [Next]_vars => LastAlone'
    BY NextLast
  <1>3. TypeOK /\ LastAlone /\ [Next]_vars => NeedsAllStep
    BY NextNeedsAll
  <1>4. Spec => [][NeedsAllStep]_vars
    BY <1>1, <1>2, <1>3, TypeCorrect, PTL DEF Spec
  <1> QED
    BY <1>4 DEF WriteoffNeedsAll, NeedsAllStep

-----------------------------------------------------------------------------
(* What was approved has been written off.                                 *)

Approving(r) == op[r].pc \in {"checked", "read", "marked", "last", "counted"}

(* An approval belongs to a submission, the last one while it holds its    *)
(* row; of a submission that is pending, and that no late save has         *)
(* changed, it has the rows it will write off.                             *)
ApprovesItems ==
    \A r \in ResponsibleRequests : Approving(r) =>
        LET d == op[r].doc
        IN  /\ op[r].round <= round[d]
            /\ Holding(r) => op[r].round = round[d]
            /\ op[r].pc # "checked" /\ op[r].round = round[d]
                  /\ status[d] = "pending" /\ d \notin late => op[r].items = items[d]

ApprovedInv == ApprovesItems /\ ApprovedRecorded

(* The rows an approval has read are still the document's.                 *)
Fresh(k, e) ==
    op[k].pc # "checked" /\ op[k].round = round[e]
        /\ status[e] = "pending" /\ e \notin late => op[k].items = items[e]

LEMMA DocTypes ==
    ASSUME TypeOK, NEW r \in Requests
    PROVE  /\ op[r] # Idle => op[r].doc \in Docs
           /\ op[r].pc = "deleted" => op[r] \in DeleteOp
           /\ op[r].pc = "checked" => op[r] \in CheckedOp
           /\ op[r].pc \in {"read", "marked", "last", "counted"} => op[r] \in ApproveOp
           /\ op[r] = Idle => op[r].pc = "idle"
  BY DEF TypeOK, Op, Idle, SaveOp, DeleteOp, SubmitOp, RejectOp, CheckedOp, ApproveOp

LEMMA ApprovalDoc ==
    ASSUME TypeOK, NEW k \in ResponsibleRequests, Approving(k)
    PROVE  op[k].doc \in Docs /\ op[k].round \in Nat
  <1>1. op[k] \in CheckedOp \/ op[k] \in ApproveOp
    BY DocTypes DEF Approving
  <1> QED
    BY <1>1, WriteoffAssumption DEF CheckedOp, ApproveOp, WriteoffAssumption

(* A step that starts no approval and keeps the submissions: a document    *)
(* whose rows it changes is not pending after it, or is late.              *)
LEMMA DocsKeep ==
    ASSUME TypeOK, ApprovedInv, UNCHANGED <<round, records>>, late \subseteq late',
           \A k \in ResponsibleRequests : op'[k] = op[k] \/ ~Approving(k)',
           \A e \in Docs : /\ status'[e] \in {"pending", "approved"} => status'[e] = status[e]
                          /\ \/ items'[e] = items[e] \/ e \in late'
                             \/ status'[e] \notin {"pending", "approved"}
    PROVE  ApprovedInv'
  <1>1. ApprovesItems'
    <2> SUFFICES ASSUME NEW k \in ResponsibleRequests, Approving(k)'
                 PROVE  /\ op'[k].round <= round'[op'[k].doc]
                        /\ Holding(k)' => op'[k].round = round'[op'[k].doc]
                        /\ Fresh(k, op[k].doc)' /\ op'[k].doc = op[k].doc
      BY DEF ApprovesItems, Fresh
    <2>1. op'[k] = op[k]
      OBVIOUS
    <2>2. Approving(k) /\ op[k].doc \in Docs
      BY <2>1, ApprovalDoc DEF Approving
    <2>3. Fresh(k, op[k].doc)
      BY <2>2 DEF ApprovedInv, ApprovesItems, Fresh
    <2>4. Fresh(k, op[k].doc)'
      BY <2>1, <2>2, <2>3 DEF Fresh
    <2> QED
      BY <2>1, <2>2, <2>4 DEF ApprovedInv, ApprovesItems, Holding
  <1>2. ApprovedRecorded'
    <2>1. SUFFICES ASSUME NEW e \in Docs \ late', status'[e] = "approved", NEW i \in Items
                   PROVE  records'[e][i] >= Times(items'[e], i)
      BY DEF ApprovedRecorded, Times
    <2>2. items'[e] = items[e] /\ status[e] = "approved" /\ e \notin late
      BY <2>1
    <2> QED
      BY <2>1, <2>2 DEF ApprovedInv, ApprovedRecorded
  <1> QED
    BY <1>1, <1>2 DEF ApprovedInv

LEMMA EndQuiet ==
    ASSUME TypeOK, NEW r \in Requests, End(r)
    PROVE  \A k \in Requests : op'[k] = op[k] \/ op'[k].pc = "idle"
  BY DEF TypeOK, End, Idle

LEMMA BeginQuiet ==
    ASSUME TypeOK, NEW r \in Requests, NEW o, Begin(r, o)
    PROVE  op'[r] = o /\ \A k \in Requests \ {r} : op'[k] = op[k]
  BY DEF TypeOK, Begin

LEMMA QuietKeeps ==
    ASSUME TypeOK, ApprovedInv, UNCHANGED <<status, items, round, records, late>>,
           \A k \in ResponsibleRequests : op'[k] = op[k] \/ ~Approving(k)'
    PROVE  ApprovedInv'
  BY DocsKeep

LEMMA SaveKeeps ==
    ASSUME TypeOK, ApprovedInv, NEW r \in CreatorRequests, WriteoffDocumentItemsSave(r)
    PROVE  ApprovedInv'
  <1> DEFINE d == op[r].doc
  <1>1. /\ d \in Docs
        /\ items' = [items EXCEPT ![d] = (@ \ op[r].seen) \cup Inserted(r)]
        /\ status' = [status EXCEPT ![d] = IF op[r].read = "rejected" THEN "draft" ELSE @]
        /\ late' = LateWrite(d) /\ UNCHANGED <<round, records>>
    BY DocTypes DEF WriteoffDocumentItemsSave, stock, DeleteOp
  <1>2. \A k \in ResponsibleRequests : op'[k] = op[k] \/ ~Approving(k)'
    BY SaveOps DEF Approving
  <1>3. /\ status'[d] = status[d] \/ status'[d] = "draft"
        /\ \A e \in Docs : e # d => status'[e] = status[e] /\ items'[e] = items[e]
    BY <1>1 DEF TypeOK
  <1>4. late \subseteq late' /\ (status[d] \in {"pending", "approved"} => d \in late')
    BY <1>1 DEF LateWrite
  <1> HIDE DEF d
  <1> QED
    BY <1>1, <1>2, <1>3, <1>4, DocsKeep

LEMMA SubmitKeeps ==
    ASSUME TypeOK, ApprovedInv, NEW r \in CreatorRequests, WriteoffDocumentSubmit(r)
    PROVE  ApprovedInv'
  <1> DEFINE d == op[r].doc
  <1>1. /\ op[r] # Idle /\ d \in Docs
        /\ status' = [status EXCEPT ![d] = "pending"]
        /\ round' = [round EXCEPT ![d] = @ + 1]
        /\ late' = late \ {d}
        /\ Unlocked(d) /\ End(r) /\ UNCHANGED <<items, records>>
    BY DocTypes DEF WriteoffDocumentSubmit, stock, Idle
  <1>2. status'[d] = "pending" /\ round'[d] = round[d] + 1 /\ round[d] \in Nat
    BY <1>1, WriteoffAssumption DEF TypeOK, WriteoffAssumption
  <1>3. \A e \in Docs : e # d => /\ status'[e] = status[e] /\ round'[e] = round[e]
                                /\ e \in late' <=> e \in late
    BY <1>1 DEF TypeOK
  <1>4. \A k \in Requests : op'[k] = op[k] \/ op'[k].pc = "idle"
    BY <1>1, EndQuiet
  <1> HIDE DEF d
  <1>8. ApprovesItems'
    <2> SUFFICES ASSUME NEW k \in ResponsibleRequests, Approving(k)'
                 PROVE  /\ op'[k].round <= round'[op'[k].doc]
                        /\ Holding(k)' => op'[k].round = round'[op'[k].doc]
                        /\ Fresh(k, op[k].doc)' /\ op'[k].doc = op[k].doc
      BY DEF ApprovesItems, Fresh
    <2>1. op'[k] = op[k]
      BY <1>4 DEF Approving
    <2>2. Approving(k) /\ op[k].doc \in Docs /\ op[k].round \in Nat
      BY <2>1, ApprovalDoc DEF Approving
    <2>3. CASE op[k].doc = d
      <3>1. ~Holding(k)
        BY <1>1, <2>3 DEF Unlocked
      <3>2. op[k].round < round'[d]
        BY <1>2, <2>2, <2>3 DEF ApprovedInv, ApprovesItems
      <3> QED
        BY <1>2, <2>1, <2>2, <2>3, <3>1, <3>2 DEF Holding, Fresh
    <2>4. CASE op[k].doc # d
      BY <1>1, <1>3, <2>1, <2>2, <2>4 DEF ApprovedInv, ApprovesItems, Holding, Fresh
    <2> QED
      BY <2>3, <2>4
  <1>9. ApprovedRecorded'
    BY <1>1, <1>2, <1>3 DEF ApprovedInv, ApprovedRecorded, Times
  <1> QED
    BY <1>8, <1>9 DEF ApprovedInv

(* An approval goes on.                                                    *)
LEMMA ApprovalKeeps ==
    ASSUME TypeOK, ApprovedInv, UNCHANGED <<status, items, round, records, late>>,
           NEW r \in ResponsibleRequests, Approving(r)',
           \A k \in Requests \ {r} : op'[k] = op[k],
           op'[r].round <= round[op'[r].doc],
           Holding(r)' => op'[r].round = round[op'[r].doc],
           op'[r].pc # "checked" /\ op'[r].round = round[op'[r].doc]
               /\ status[op'[r].doc] = "pending" /\ op'[r].doc \notin late =>
                     op'[r].items = items[op'[r].doc]
    PROVE  ApprovedInv'
  <1>2. ApprovedRecorded'
    BY DEF ApprovedInv, ApprovedRecorded, Times
  <1>3. ApprovesItems'
    <2> SUFFICES ASSUME NEW k \in ResponsibleRequests, Approving(k)'
                 PROVE  LET e == op'[k].doc
                        IN  /\ op'[k].round <= round'[e]
                            /\ Holding(k)' => op'[k].round = round'[e]
                            /\ op'[k].pc # "checked" /\ op'[k].round = round'[e]
                                  /\ status'[e] = "pending" /\ e \notin late' =>
                                        op'[k].items = items'[e]
      BY DEF ApprovesItems
    <2>1. CASE k = r
      BY <2>1
    <2>2. CASE k # r
      BY <2>2 DEF ApprovedInv, ApprovesItems, Approving, Holding
    <2> QED
      BY <2>1, <2>2
  <1> QED
    BY <1>2, <1>3 DEF ApprovedInv

LEMMA ApproveKeeps ==
    ASSUME TypeOK, ApprovedInv, NEW r \in ResponsibleRequests, WriteoffDocumentApprove(r)
    PROVE  ApprovedInv'
  <1> DEFINE d == op[r].doc
             taken == op[r].items
  <1>1. op[r] \in ApproveOp /\ d \in Docs /\ op[r].pc = "last"
    BY DocTypes DEF WriteoffDocumentApprove, ApproveOp
  <1>2. /\ records' = [records EXCEPT ![d] = [i \in Items |-> @[i] + Times(taken, i)]]
        /\ status' = [status EXCEPT ![d] = IF @ = "pending" THEN "approved" ELSE @]
        /\ End(r) /\ UNCHANGED <<items, round, late>>
    BY DEF WriteoffDocumentApprove
  <1>3. \A i \in Items : /\ records'[d][i] = records[d][i] + Times(taken, i)
                        /\ records[d][i] \in Nat /\ Times(taken, i) \in Nat
    BY <1>1, <1>2, TimesType, WriteoffAssumption DEF TypeOK
  <1>4. \A e \in Docs : e # d => records'[e] = records[e]
    BY <1>1, <1>2 DEF TypeOK
  <1>5. \A e \in Docs : /\ e # d => status'[e] = status[e]
                        /\ status'[d] = IF status[d] = "pending" THEN "approved" ELSE status[d]
    BY <1>1, <1>2 DEF TypeOK
  <1>6. status[d] = "pending" /\ d \notin late => taken = items[d]
    BY <1>1 DEF ApprovedInv, ApprovesItems, Approving, Holding
  <1>7. \A k \in Requests : op'[k] = op[k] \/ op'[k].pc = "idle"
    BY <1>2, EndQuiet
  <1> HIDE DEF d, taken
  <1>10. ApprovesItems'
    <2> SUFFICES ASSUME NEW k \in ResponsibleRequests, Approving(k)'
                 PROVE  /\ op'[k].round <= round'[op'[k].doc]
                        /\ Holding(k)' => op'[k].round = round'[op'[k].doc]
                        /\ Fresh(k, op[k].doc)' /\ op'[k].doc = op[k].doc
      BY DEF ApprovesItems, Fresh
    <2>1. op'[k] = op[k]
      BY <1>7 DEF Approving
    <2>2. Approving(k) /\ op[k].doc \in Docs
      BY <2>1, ApprovalDoc DEF Approving
    <2>3. status'[op[k].doc] = "pending" => status[op[k].doc] = "pending"
      BY <1>5, <2>2
    <2> QED
      BY <1>2, <2>1, <2>2, <2>3 DEF ApprovedInv, ApprovesItems, Holding, Fresh
  <1>11. ApprovedRecorded'
    <2> SUFFICES ASSUME NEW e \in Docs \ late, status'[e] = "approved", NEW i \in Items
                 PROVE  records'[e][i] >= Times(items[e], i)
      BY <1>2 DEF ApprovedRecorded, Times
    <2>0. Times(items[e], i) \in Nat
      BY TimesType, WriteoffAssumption
    <2>1. CASE status[e] = "approved"
      <3>1. records[e][i] >= Times(items[e], i)
        BY <2>1 DEF ApprovedInv, ApprovedRecorded
      <3> QED
        BY <1>3, <1>4, <2>0, <3>1
    <2>2. CASE status[e] # "approved"
      <3>1. e = d /\ taken = items[d]
        BY <1>5, <1>6, <2>2
      <3> QED
        BY <1>3, <3>1
    <2> QED
      BY <2>1, <2>2
  <1> QED
    BY <1>10, <1>11 DEF ApprovedInv

LEMMA CreatorApproved ==
    ASSUME TypeOK, ApprovedInv, NEW r \in CreatorRequests, CreatorStep(r)
    PROVE  ApprovedInv'
  <1>r. r \in Requests /\ r \notin ResponsibleRequests
    BY WriteoffAssumption DEF WriteoffAssumption
  <1>1. ASSUME NEW o, Begin(r, o), UNCHANGED <<status, items, round, records, late>>
        PROVE  ApprovedInv'
    BY <1>r, <1>1, BeginQuiet, QuietKeeps
  <1>2. ASSUME NEW d \in Docs, NEW new \in SUBSET Items, WriteoffItemsValidate(r, d, new)
        PROVE  ApprovedInv'
    BY <1>1, <1>2 DEF WriteoffItemsValidate, approvals, stock
  <1>3. ASSUME NEW d \in Docs, WriteoffSubmitCheck(r, d)
        PROVE  ApprovedInv'
    BY <1>1, <1>3 DEF WriteoffSubmitCheck, approvals, stock
  <1>4. CASE WriteoffItemsDelete(r)
    <2>1. /\ UNCHANGED <<status, items, round, records, late>>
          /\ \A k \in ResponsibleRequests : op'[k] = op[k]
      BY <1>r, <1>4 DEF WriteoffItemsDelete, approvals, stock, TypeOK
    <2> QED
      BY <2>1, QuietKeeps
  <1>5. CASE Fail(r)
    <2>1. UNCHANGED <<status, items, round, records, late>> /\ End(r)
      BY <1>5 DEF Fail, approvals, stock
    <2> QED
      BY <1>r, <2>1, EndQuiet, QuietKeeps DEF Approving
  <1> QED
    BY <1>2, <1>3, <1>4, <1>5, SaveKeeps, SubmitKeeps DEF CreatorStep

LEMMA ResponsibleApproved ==
    ASSUME TypeOK, ApprovedInv, NEW r \in ResponsibleRequests, ResponsibleStep(r)
    PROVE  ApprovedInv'
  <1>1. ASSUME NEW u \in Users, NEW d \in Docs, WriteoffDocumentReject(r, u, d)
        PROVE  ApprovedInv'
    <2>1. /\ Begin(r, [pc |-> "rejecting", doc |-> d]) /\ status' = [status EXCEPT ![d] = "rejected"]
          /\ UNCHANGED <<items, round, records, late>>
      BY <1>1 DEF WriteoffDocumentReject, approvals, stock
    <2>2. op'[r].pc = "rejecting" /\ \A k \in Requests \ {r} : op'[k] = op[k]
      BY <2>1, BeginQuiet
    <2>3. \A k \in ResponsibleRequests : op'[k] = op[k] \/ ~Approving(k)'
      BY <2>2 DEF Approving
    <2>4. status'[d] = "rejected" /\ \A e \in Docs : e # d => status'[e] = status[e]
      BY <2>1 DEF TypeOK
    <2> QED
      BY <2>1, <2>3, <2>4, DocsKeep
  <1>2. CASE WriteoffRejectClear(r) \/ WriteoffApproveCommit(r) \/ Fail(r)
    <2>1. UNCHANGED <<status, items, round, records, late>> /\ End(r)
      BY <1>2 DEF WriteoffRejectClear, WriteoffApproveCommit, Fail, approvals, stock
    <2> QED
      BY <2>1, EndQuiet, QuietKeeps DEF Approving
  <1>3. ASSUME NEW u \in Users, NEW d \in Docs, WriteoffApproveCheck(r, u, d)
        PROVE  ApprovedInv'
    <2> DEFINE o == [pc |-> "checked", doc |-> d, user |-> u, round |-> round[d]]
    <2>1. Begin(r, o) /\ UNCHANGED <<status, items, round, records, late>>
      BY <1>3 DEF WriteoffApproveCheck, approvals, stock
    <2>2. op'[r] = o /\ \A k \in Requests \ {r} : op'[k] = op[k]
      BY <2>1, BeginQuiet
    <2>3. round[d] \in Nat
      BY WriteoffAssumption DEF TypeOK, WriteoffAssumption
    <2> QED
      BY <2>1, <2>2, <2>3, ApprovalKeeps DEF Approving, Holding
  <1>4. CASE WriteoffApproveItemsGet(r)
    <2>1. /\ op[r].pc = "checked" /\ UNCHANGED <<status, items, round, records, late>>
          /\ op' = [op EXCEPT ![r] = [pc |-> "read", doc |-> op[r].doc, user |-> op[r].user,
                                      round |-> op[r].round, items |-> items[op[r].doc]]]
      BY <1>4 DEF WriteoffApproveItemsGet, approvals, stock
    <2>2. /\ op'[r].pc = "read" /\ op'[r].doc = op[r].doc /\ op'[r].round = op[r].round
          /\ op'[r].items = items[op[r].doc]
          /\ \A k \in Requests \ {r} : op'[k] = op[k]
      BY <2>1 DEF TypeOK
    <2>3. op[r].round <= round[op[r].doc]
      BY <2>1 DEF ApprovedInv, ApprovesItems, Approving
    <2> QED
      BY <2>1, <2>2, <2>3, ApprovalKeeps DEF Approving, Holding
  <1>5. CASE WriteoffApproveMark(r) \/ WriteoffApproveCount(r)
    <2>1. PICK p \in {"marked", "last", "counted"} :
             /\ op' = [op EXCEPT ![r].pc = p] /\ UNCHANGED <<status, items, round, records, late>>
             /\ op[r].pc \in {"read", "marked"}
             /\ op[r].pc = "read" => op[r].round = round[op[r].doc]
      BY <1>5 DEF WriteoffApproveMark, WriteoffApproveCount, SameRow, approvals, stock
    <2>2. op[r] \in ApproveOp
      BY <2>1, DocTypes
    <2>3. /\ op'[r].pc = p /\ op'[r].doc = op[r].doc /\ op'[r].round = op[r].round
          /\ op'[r].items = op[r].items
          /\ \A k \in Requests \ {r} : op'[k] = op[k]
      BY <2>1, <2>2 DEF TypeOK, ApproveOp
    <2>4. op[r].round <= round[op[r].doc] /\ op[r].round = round[op[r].doc]
      BY <2>1 DEF ApprovedInv, ApprovesItems, Approving, Holding
    <2>5. status[op[r].doc] = "pending" /\ op[r].doc \notin late => op[r].items = items[op[r].doc]
      BY <2>1, <2>4 DEF ApprovedInv, ApprovesItems, Approving
    <2>6. /\ Approving(r)' /\ op'[r].round <= round[op'[r].doc]
          /\ op'[r].round = round[op'[r].doc]
          /\ status[op'[r].doc] = "pending" /\ op'[r].doc \notin late => op'[r].items = items[op'[r].doc]
      BY <2>3, <2>4, <2>5 DEF Approving
    <2> QED
      BY <2>1, <2>3, <2>6, ApprovalKeeps
  <1> QED
    BY <1>1, <1>2, <1>3, <1>4, <1>5, ApproveKeeps DEF ResponsibleStep

LEMMA NextApproved ==
    ASSUME TypeOK, ApprovedInv, [Next]_vars
    PROVE  ApprovedInv'
  <1>1. ASSUME NEW d \in Docs, WriteoffDocumentCreate(d) \/ WriteoffDocumentDelete(d)
        PROVE  ApprovedInv'
    <2>1. PICK new \in {"draft", "deleted"} :
             /\ status' = [status EXCEPT ![d] = new] /\ UNCHANGED <<round, records, late, op>>
             /\ items' = items \/ items' = [items EXCEPT ![d] = {}]
      BY <1>1 DEF WriteoffDocumentCreate, WriteoffDocumentDelete, approvals, stock
    <2>2. \A e \in Docs : e # d => items'[e] = items[e] /\ status'[e] = status[e]
      BY <2>1 DEF TypeOK
    <2>3. status'[d] = new
      BY <2>1 DEF TypeOK
    <2> QED
      BY <2>1, <2>2, <2>3, DocsKeep
  <1>2. ASSUME UNCHANGED <<status, items, round, records, late, op>>
        PROVE  ApprovedInv'
    BY <1>2, QuietKeeps
  <1>3. ASSUME NEW u \in Users, WriteoffResponsibleAdd(u) \/ WriteoffResponsibleDelete(u)
        PROVE  ApprovedInv'
    BY <1>2, <1>3 DEF WriteoffResponsibleAdd, WriteoffResponsibleDelete, stock
  <1>4. ASSUME NEW i \in ProductItems, ProductMoves(i)
        PROVE  ApprovedInv'
    BY <1>2, <1>4 DEF ProductMoves, approvals
  <1>5. ASSUME NEW i \in ComponentItems, LineConsumes(i)
        PROVE  ApprovedInv'
    BY <1>2, <1>5 DEF LineConsumes, approvals
  <1>6. CASE UNCHANGED vars
    BY <1>2, <1>6 DEF vars
  <1> QED
    BY <1>1, <1>3, <1>4, <1>5, <1>6, CreatorApproved, ResponsibleApproved DEF Next

(* An approved document has a record for each of its rows unless a save    *)
(* was written late, for every number of documents, users, saves,          *)
(* submissions and approvals that overlap.                                 *)
THEOREM ApprovedIsRecorded == Spec => []ApprovedRecorded
  <1>1. Init => ApprovedInv
    BY DEF Init, ApprovedInv, ApprovesItems, Approving, ApprovedRecorded, Idle
  <1>2. TypeOK /\ ApprovedInv /\ [Next]_vars => ApprovedInv'
    BY NextApproved
  <1>3. ApprovedInv => ApprovedRecorded
    BY DEF ApprovedInv
  <1> QED
    BY <1>1, <1>2, <1>3, TypeCorrect, PTL DEF Spec
=============================================================================
