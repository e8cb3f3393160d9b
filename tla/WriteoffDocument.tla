-------------------------- MODULE WriteoffDocument --------------------------
(***************************************************************************)
(* Write-off documents.  A creator fills a document with products and      *)
(* components and submits it; every responsible of that moment gets an     *)
(* approval row; the approval that finds no other pending row writes the   *)
(* items off.  Each request checks the document outside its transaction,   *)
(* so what it checked may have changed when the transaction runs.  The     *)
(* approving transaction is split where READ COMMITTED lets others in: it  *)
(* marks its own row (and holds the row lock), counts the others, commits. *)
(***************************************************************************)
EXTENDS Naturals, FiniteSets, TLC

CONSTANTS
    Docs,                 \* write-off documents
    Users,                \* users that may be responsibles
    CreatorRequests,      \* requests to save or submit that may overlap
    ResponsibleRequests,  \* the responsibles' requests that may overlap
    ProductItems,         \* products of the line that can be written off
    ComponentItems,       \* components, one unit each
    MaxRound,             \* bound on the submissions of a document
    MaxBalance            \* initial line balance of a component

Requests == CreatorRequests \cup ResponsibleRequests
Items    == ProductItems \cup ComponentItems

(* Rows of document_items: which item, and whose save inserted it.         *)
Rows == Items \X CreatorRequests

(* For TLC.                                                                *)
Symmetric == Permutations(Users) \cup Permutations(ResponsibleRequests)
             \cup Permutations(CreatorRequests) \cup Permutations(Docs)

ASSUME WriteoffAssumption ==
    /\ MaxRound \in Nat /\ MaxBalance \in Nat
    /\ IsFiniteSet(CreatorRequests)
    /\ CreatorRequests \cap ResponsibleRequests = {}
    /\ ProductItems \cap ComponentItems = {}

VARIABLES
    status,        \* documents.status
    items,         \* document_items by document
    responsibles,  \* writeoff.responsibles
    round,         \* how often the document was submitted: names approval ids
    approval,      \* document_approvals: absent, pending or approved
    product,       \* status of the products on their line
    balance,       \* lines.balance of the components
    records,       \* how often a document wrote an item off
    late,          \* documents whose items were written since they were submitted (history)
    op             \* what each request has in flight

vars == <<status, items, responsibles, round, approval, product, balance, records, late, op>>

Idle      == [pc |-> "idle"]
SaveOp    == [pc: {"saving"}, doc: Docs, read: {"draft", "rejected"}, items: SUBSET Items]
DeleteOp  == [pc: {"deleted"}, doc: Docs, read: {"draft", "rejected"}, items: SUBSET Items,
              seen: SUBSET Rows]
SubmitOp  == [pc: {"submitting"}, doc: Docs]
RejectOp  == [pc: {"rejecting"}, doc: Docs]
CheckedOp == [pc: {"checked"}, doc: Docs, user: Users, round: 0 .. MaxRound]
ApproveOp == [pc: {"read", "marked", "last", "counted"}, doc: Docs, user: Users,
              round: 0 .. MaxRound, items: SUBSET Rows]
Op        == {Idle} \cup SaveOp \cup DeleteOp \cup SubmitOp \cup RejectOp \cup CheckedOp \cup ApproveOp

TypeOK ==
    /\ status \in [Docs -> {"new", "draft", "pending", "approved", "rejected", "deleted"}]
    /\ items \in [Docs -> SUBSET Rows]
    /\ responsibles \subseteq Users
    /\ round \in [Docs -> 0 .. MaxRound]
    /\ approval \in [Docs -> [Users -> {"absent", "pending", "approved"}]]
    /\ product \in [ProductItems -> {"active", "moved", "written_off"}]
    /\ balance \in [ComponentItems -> 0 .. MaxBalance]
    /\ records \in [Docs -> [Items -> Nat]]
    /\ late \subseteq Docs
    /\ op \in [Requests -> Op]

NoApprovals == [u \in Users |-> "absent"]

Init ==
    /\ status = [d \in Docs |-> "new"]
    /\ items = [d \in Docs |-> {}]
    /\ responsibles = Users
    /\ round = [d \in Docs |-> 0]
    /\ approval = [d \in Docs |-> NoApprovals]
    /\ product = [i \in ProductItems |-> "active"]
    /\ balance = [i \in ComponentItems |-> MaxBalance]
    /\ records = [d \in Docs |-> [i \in Items |-> 0]]
    /\ late = {}
    /\ op = [r \in Requests |-> Idle]

stock     == <<product, balance, records>>
approvals == <<responsibles, round, approval, late>>

Begin(r, o) == op[r] = Idle /\ op' = [op EXCEPT ![r] = o]
End(r)      == op' = [op EXCEPT ![r] = Idle]

-----------------------------------------------------------------------------
(* Row locks: an approving transaction holds its approval row from the     *)
(* mark to the commit, so whoever deletes the document's rows waits.       *)

Holding(r)  == op[r].pc \in {"marked", "last", "counted"}
Unlocked(d) == \A r \in ResponsibleRequests : Holding(r) => op[r].doc # d

-----------------------------------------------------------------------------
(* Saving and submitting.  A document is saved by anybody and submitted by *)
(* its creator; nothing keeps two of these requests apart.                 *)

WriteoffDocumentCreate(d) ==
    /\ status[d] = "new"
    /\ status' = [status EXCEPT ![d] = "draft"]
    /\ UNCHANGED <<items, approvals, stock, op>>

(* document_items and document_approvals go with their document.           *)
WriteoffDocumentDelete(d) ==
    /\ status[d] \in {"draft", "rejected"}
    /\ Unlocked(d)
    /\ status' = [status EXCEPT ![d] = "deleted"]
    /\ items' = [items EXCEPT ![d] = {}]
    /\ approval' = [approval EXCEPT ![d] = NoApprovals]
    /\ UNCHANGED <<responsibles, round, stock, late, op>>

(* writeoffValidateItemInput: products active, components in balance.      *)
InStock(i) == IF i \in ProductItems THEN product[i] = "active" ELSE balance[i] > 0

Editable(d) == status[d] \in {"draft", "rejected"}

WriteoffItemsValidate(r, d, new) ==
    /\ Editable(d)
    /\ \A i \in new : InStock(i)
    /\ Begin(r, [pc |-> "saving", doc |-> d, items |-> new,
                 read |-> IF status[d] = "rejected" THEN "rejected" ELSE "draft"])
    /\ UNCHANGED <<status, items, approvals, stock>>

(* The transaction deletes the rows that are committed when its DELETE     *)
(* starts; a row that another save commits after that stays.               *)
WriteoffItemsDelete(r) ==
    /\ op[r].pc = "saving"
    /\ op' = [op EXCEPT ![r] = [pc |-> "deleted", doc |-> op[r].doc, read |-> op[r].read,
                                items |-> op[r].items, seen |-> items[op[r].doc]]]
    /\ UNCHANGED <<status, items, approvals, stock>>

(* The INSERT counts nine parameters for every row but has eight, so the   *)
(* numbers of a second row are not those of its values: it is refused.     *)
Insertable(new) == \A i, j \in new : i = j

Inserted(r) == op[r].items \X {r}

(* The rows of r are new to whoever has looked already.                    *)
LooksBefore(k, r) ==
    IF op[k].pc = "deleted" /\ op[k].doc = op[r].doc
    THEN [op[k] EXCEPT !.seen = @ \ Inserted(r)]
    ELSE op[k]

LateWrite(d) == IF status[d] \in {"pending", "approved"} THEN late \cup {d} ELSE late

(* A rejected document becomes a draft again, whatever it is by now.       *)
WriteoffDocumentItemsSave(r) ==
    /\ op[r].pc = "deleted"
    /\ LET d == op[r].doc
       IN  /\ status[d] # "deleted"
           /\ Insertable(op[r].items)
           /\ items' = [items EXCEPT ![d] = (@ \ op[r].seen) \cup Inserted(r)]
           /\ status' = [status EXCEPT ![d] = IF op[r].read = "rejected" THEN "draft" ELSE @]
           /\ late' = LateWrite(d)
    /\ op' = [k \in Requests |-> IF k = r THEN Idle ELSE LooksBefore(k, r)]
    /\ UNCHANGED <<responsibles, round, approval, stock>>

WriteoffSubmitCheck(r, d) ==
    /\ status[d] \in {"draft", "rejected"}
    /\ items[d] # {}
    /\ responsibles # {}
    /\ Begin(r, [pc |-> "submitting", doc |-> d])
    /\ UNCHANGED <<status, items, approvals, stock>>

WriteoffDocumentSubmit(r) ==
    /\ op[r].pc = "submitting"
    /\ LET d == op[r].doc
       IN  /\ status[d] # "deleted"
           /\ Unlocked(d)
           /\ round[d] < MaxRound
           /\ status' = [status EXCEPT ![d] = "pending"]
           /\ round' = [round EXCEPT ![d] = @ + 1]
           /\ approval' = [approval EXCEPT ![d] =
                 [u \in Users |-> IF u \in responsibles THEN "pending" ELSE "absent"]]
           /\ late' = late \ {d}
    /\ End(r)
    /\ UNCHANGED <<items, responsibles, stock>>

-----------------------------------------------------------------------------
(* The responsibles.                                                       *)

WriteoffResponsibleAdd(u) ==
    /\ u \notin responsibles
    /\ responsibles' = responsibles \cup {u}
    /\ UNCHANGED <<status, items, round, approval, stock, late, op>>

WriteoffResponsibleDelete(u) ==
    /\ u \in responsibles
    /\ responsibles' = responsibles \ {u}
    /\ UNCHANGED <<status, items, round, approval, stock, late, op>>

Rejectable(d) == status[d] = "pending"

(* Two statements without a transaction: the status first ...              *)
WriteoffDocumentReject(r, u, d) ==
    /\ u \in responsibles
    /\ Rejectable(d)
    /\ status' = [status EXCEPT ![d] = "rejected"]
    /\ Begin(r, [pc |-> "rejecting", doc |-> d])
    /\ UNCHANGED <<items, approvals, stock>>

(* ... then every approval row the document has by then.                   *)
WriteoffRejectClear(r) ==
    /\ op[r].pc = "rejecting"
    /\ Unlocked(op[r].doc)
    /\ approval' = [approval EXCEPT ![op[r].doc] = NoApprovals]
    /\ End(r)
    /\ UNCHANGED <<status, items, responsibles, round, stock, late>>

WriteoffApproveCheck(r, u, d) ==
    /\ u \in responsibles
    /\ status[d] = "pending"
    /\ approval[d][u] = "pending"
    /\ Begin(r, [pc |-> "checked", doc |-> d, user |-> u, round |-> round[d]])
    /\ UNCHANGED <<status, items, approvals, stock>>

WriteoffApproveItemsGet(r) ==
    /\ op[r].pc = "checked"
    /\ items[op[r].doc] # {}
    /\ op' = [op EXCEPT ![r] = [pc |-> "read", doc |-> op[r].doc, user |-> op[r].user,
                                round |-> op[r].round, items |-> items[op[r].doc]]]
    /\ UNCHANGED <<status, items, approvals, stock>>

SameRowAnyRound(r) == approval[op[r].doc][op[r].user] = "pending"          \* mutant

(* The row with the approval id that was read is still there, unapproved.  *)
SameRow(r) ==
    /\ round[op[r].doc] = op[r].round
    /\ approval[op[r].doc][op[r].user] = "pending"

(* UPDATE ... WHERE id = .. AND approved_at IS NULL: waits for the lock.   *)
WriteoffApproveMark(r) ==
    /\ op[r].pc = "read"
    /\ SameRow(r)
    /\ \A k \in ResponsibleRequests \ {r} :
          Holding(k) => op[k].doc # op[r].doc \/ op[k].user # op[r].user
    /\ op' = [op EXCEPT ![r].pc = "marked"]
    /\ UNCHANGED <<status, items, approvals, stock>>

NoneNeeded(d, u) == TRUE                                                   \* mutant

(* The rows this statement sees: the others' marks are not committed yet.  *)
NonePending(d, u) == \A v \in Users \ {u} : approval[d][v] # "pending"

WriteoffApproveCount(r) ==
    /\ op[r].pc = "marked"
    /\ op' = [op EXCEPT ![r].pc =
                 IF NonePending(op[r].doc, op[r].user) THEN "last" ELSE "counted"]
    /\ UNCHANGED <<status, items, approvals, stock>>

Marked(r) == [approval EXCEPT ![op[r].doc][op[r].user] = "approved"]

WriteoffApproveCommit(r) ==
    /\ op[r].pc = "counted"
    /\ approval' = Marked(r)
    /\ End(r)
    /\ UNCHANGED <<status, items, responsibles, round, stock, late>>

TakeProductUnchecked(i, n) == TRUE                                         \* mutant
TakeComponentUnchecked(i, n) == TRUE                                       \* mutant

(* Both are read again in the transaction, the product FOR UPDATE, for     *)
(* each of the n rows that name it: the second row of a product finds it   *)
(* written off.                                                            *)
writeoffApproveProductTx(i, n)   == product[i] = "active" /\ n = 1
writeoffApproveComponentTx(i, n) == n <= balance[i]

Named(taken, S)  == {i \in S : \E c \in CreatorRequests : <<i, c>> \in taken}
Times(taken, i) == Cardinality({c \in CreatorRequests : <<i, c>> \in taken})

(* The last approval writes the rows it read off.  The document is closed  *)
(* only if it is still pending; that it may not be is not noticed.         *)
WriteoffDocumentApprove(r) ==
    /\ op[r].pc = "last"
    /\ LET d == op[r].doc
           taken == op[r].items
       IN  /\ \A i \in Named(taken, ProductItems) : writeoffApproveProductTx(i, Times(taken, i))
           /\ \A i \in Named(taken, ComponentItems) :
                 writeoffApproveComponentTx(i, Times(taken, i))
           /\ product' = [i \in ProductItems |->
                 IF i \in Named(taken, ProductItems) THEN "written_off" ELSE product[i]]
           /\ balance' = [i \in ComponentItems |-> balance[i] - Times(taken, i)]
           /\ records' = [records EXCEPT ![d] = [i \in Items |-> @[i] + Times(taken, i)]]
           /\ status' = [status EXCEPT ![d] = IF @ = "pending" THEN "approved" ELSE @]
    /\ approval' = Marked(r)
    /\ End(r)
    /\ UNCHANGED <<items, responsibles, round, late>>

(* A request is refused, aborted as a deadlock victim, or dies.            *)
Fail(r) ==
    /\ op[r] # Idle
    /\ End(r)
    /\ UNCHANGED <<status, items, approvals, stock>>

-----------------------------------------------------------------------------
(* The line goes on working.                                               *)

ProductMoves(i) ==
    /\ product[i] = "active"
    /\ product' = [product EXCEPT ![i] = "moved"]
    /\ UNCHANGED <<status, items, approvals, balance, records, op>>

LineConsumes(i) ==
    /\ balance[i] > 0
    /\ balance' = [balance EXCEPT ![i] = @ - 1]
    /\ UNCHANGED <<status, items, approvals, product, records, op>>

-----------------------------------------------------------------------------
CreatorStep(r) ==
    \/ \E d \in Docs : \E new \in SUBSET Items : WriteoffItemsValidate(r, d, new)
    \/ WriteoffItemsDelete(r)
    \/ WriteoffDocumentItemsSave(r)
    \/ \E d \in Docs : WriteoffSubmitCheck(r, d)
    \/ WriteoffDocumentSubmit(r)
    \/ Fail(r)

ResponsibleStep(r) ==
    \/ \E u \in Users, d \in Docs : WriteoffDocumentReject(r, u, d)
    \/ WriteoffRejectClear(r)
    \/ \E u \in Users, d \in Docs : WriteoffApproveCheck(r, u, d)
    \/ WriteoffApproveItemsGet(r)
    \/ WriteoffApproveMark(r)
    \/ WriteoffApproveCount(r)
    \/ WriteoffApproveCommit(r)
    \/ WriteoffDocumentApprove(r)
    \/ Fail(r)

Next ==
    \/ \E r \in CreatorRequests : CreatorStep(r)
    \/ \E r \in ResponsibleRequests : ResponsibleStep(r)
    \/ \E d \in Docs : WriteoffDocumentCreate(d) \/ WriteoffDocumentDelete(d)
    \/ \E u \in Users : WriteoffResponsibleAdd(u) \/ WriteoffResponsibleDelete(u)
    \/ \E i \in ProductItems : ProductMoves(i)
    \/ \E i \in ComponentItems : LineConsumes(i)

Spec == Init /\ [][Next]_vars

-----------------------------------------------------------------------------
(* Properties.                                                             *)

(* Only the product's row lock and status stand between two documents that *)
(* list the same product: at most one of them, once, writes it off.        *)
ProductOnce ==
    \A i \in ProductItems : \A d \in Docs :
        records[d][i] > 0 =>
            /\ product[i] = "written_off"
            /\ records[d][i] = 1
            /\ \A e \in Docs \ {d} : records[e][i] = 0

(* Nothing is written off before every responsible who was asked has       *)
(* approved: the count in WriteoffDocumentApprove may miss approvals that  *)
(* are not committed yet, never invent one.                                *)
WriteoffNeedsAll ==
    [][\A d \in Docs : records'[d] # records[d] =>
          /\ \A u \in Users : approval'[d][u] # "pending"
          /\ \E u \in Users : approval'[d][u] = "approved"]_vars

(* A document that was sent is not sent again: WriteoffDocumentSubmit      *)
(* refuses it ("hujjat allaqachon yuborilgan"), so an approved one stays   *)
(* approved.                                                               *)
ApprovedFinal ==
    [][\A d \in Docs : status[d] = "approved" => status'[d] = "approved"]_vars

(* An approved document has a record for each of its rows, whatever saves, *)
(* submissions, rejections and approvals overlapped, unless a save that    *)
(* was checked before the submission was written after it.                 *)
ApprovedRecorded ==
    \A d \in Docs \ late : status[d] = "approved" =>
        \A i \in Items : records[d][i] >= Times(items[d], i)

Involved(d) == {r \in Requests : op[r] # Idle /\ op[r].doc = d}

(* When every responsible has approved, and no request on the document is  *)
(* running, the document is settled.                                       *)
AllApprovedCompletes ==
    \A d \in Docs :
        /\ Involved(d) = {}
        /\ \E u \in Users : approval[d][u] = "approved"
        /\ \A u \in Users : approval[d][u] # "pending"
        => status[d] # "pending"
=============================================================================
