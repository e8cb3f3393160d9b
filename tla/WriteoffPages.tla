--------------------------- MODULE WriteoffPages ----------------------------
(***************************************************************************)
(* The lists of the write-off section: documents (ui/src/pages/writeoff    *)
(* .tsx), the archive (writeoff_records.tsx) and the responsible users     *)
(* (writeoff_responsibles.tsx); and the approving of documents             *)
(* (writeoff_approve.tsx), which keeps a state of its own.  "which" is the *)
(* page.                                                                   *)
(***************************************************************************)
EXTENDS Backend

CONSTANTS User, None,
          Note          \* the documents

VARIABLE ui

Fresh(p) == [which |-> p, items |-> {}, creating |-> FALSE, assigned |-> {}, users |-> {},
             dialog |-> FALSE, selected |-> None, saving |-> FALSE]

ListTypeOK ==
    ui \in [which: {"documents", "records", "responsibles"}, items: SUBSET Note,
            creating: BOOLEAN, assigned: SUBSET User, users: SUBSET User,
            dialog: BOOLEAN, selected: User \cup {None}, saving: BOOLEAN]

MountDocuments    == ui' = Fresh("documents") /\ net' = <<Call("documents", None)>>
MountRecords      == ui' = Fresh("records") /\ net' = <<Call("documents", None)>>
MountResponsibles ==
    ui' = Fresh("responsibles") /\ net' = <<Call("assigned", None), Call("users", None)>>

(* A failed load empties both lists of documents.                          *)
loadItems(i) ==
    /\ Ends(i, "documents")
    /\ \E ds \in SUBSET Note : ui' = [ui EXCEPT !.items = ds]

ChooseStatus ==
    /\ ui.which = "documents"
    /\ Post("documents", None)
    /\ UNCHANGED ui

(* A new document is opened: the page is left.                             *)
createDocument ==
    /\ ui.which = "documents" /\ ~ui.creating
    /\ Post("create", None)
    /\ ui' = [ui EXCEPT !.creating = TRUE]

Created(i) == Ends(i, "create") /\ ui' = [ui EXCEPT !.creating = FALSE]

loadAssigned(i) ==
    /\ Ends(i, "assigned")
    /\ \E us \in {ui.assigned} \cup SUBSET User : ui' = [ui EXCEPT !.assigned = us]

loadUsers(i) ==
    /\ Ends(i, "users")
    /\ \E us \in {ui.users} \cup SUBSET User : ui' = [ui EXCEPT !.users = us]

Dialog(open) ==
    /\ ui.which = "responsibles" /\ ui.dialog # open
    /\ ui' = [ui EXCEPT !.dialog = open]
    /\ UNCHANGED net

(* The user chosen last stays chosen when the dialog is closed.            *)
SelectUser(u) ==
    /\ ui.dialog /\ u \in ui.users \ ui.assigned
    /\ ui' = [ui EXCEPT !.selected = u]
    /\ UNCHANGED net

saveAssignment ==
    /\ ui.dialog /\ ~ui.saving /\ ui.selected # None
    /\ Post("assign", ui.selected)
    /\ ui' = [ui EXCEPT !.saving = TRUE]

Assigned(i) ==
    \/ Ends(i, "assign") /\ ui' = [ui EXCEPT !.saving = FALSE]
    \/ /\ Answered(i, "assign", <<Call("assigned", None)>>)
       /\ ui' = [ui EXCEPT !.saving = FALSE, !.dialog = FALSE]

deleteItem(u) ==
    /\ ui.which = "responsibles" /\ u \in ui.assigned /\ ~ui.dialog
    /\ Post("unassign", u)
    /\ UNCHANGED ui

Unassigned(i) ==
    /\ Ends(i, "unassign") \/ Answered(i, "unassign", <<Call("assigned", None)>>)
    /\ UNCHANGED ui

ListNext ==
    \/ ChooseStatus \/ createDocument \/ saveAssignment
    \/ \E open \in BOOLEAN : Dialog(open)
    \/ \E u \in User : SelectUser(u) \/ deleteItem(u)
    \/ \E i \in DOMAIN net : \/ loadItems(i) \/ Created(i) \/ loadAssigned(i) \/ loadUsers(i)
                             \/ Assigned(i) \/ Unassigned(i)

(***************************************************************************)
(* Approving: a pending document is selected, its rows and approvals are   *)
(* read, and it is approved or rejected.  The details that are read are    *)
(* shown for whatever document is selected when they come.                 *)
(***************************************************************************)
(* details: the document whose rows are shown; mine: whether the approvals *)
(* shown have one of this user that is still open.                         *)
ApproveFresh == [which |-> "approve", documents |-> {}, selected |-> None, details |-> None,
                 mine |-> FALSE, reject |-> FALSE, busy |-> FALSE]

ApproveTypeOK ==
    ui \in [which: {"approve"}, documents: SUBSET Note, selected: Note \cup {None}, details: Note \cup {None},
            mine: BOOLEAN, reject: BOOLEAN, busy: BOOLEAN]

MountApprove == ui' = ApproveFresh /\ net' = <<Call("pending", None)>>

loadPending(i) ==
    /\ Ends(i, "pending")
    /\ \E ds \in {ui.documents} \cup SUBSET Note : ui' = [ui EXCEPT !.documents = ds]

Select(d) ==
    /\ d \in ui.documents /\ d # ui.selected /\ ~ui.reject
    /\ Post("details", d)
    /\ ui' = [ui EXCEPT !.selected = d]

loadDocumentDetails(i) ==
    /\ Ends(i, "details")
    /\ \/ UNCHANGED ui
       \/ \E mine \in BOOLEAN : ui' = [ui EXCEPT !.details = net[i].arg, !.mine = mine]

Unselected(s) == [s EXCEPT !.selected = None, !.details = None, !.mine = FALSE]

canApprove == ui.mine

approve ==
    /\ ui.selected # None /\ ~ui.busy /\ canApprove /\ ~ui.reject
    /\ Post("approve", ui.selected)
    /\ ui' = [ui EXCEPT !.busy = TRUE]

Approved(i) ==
    LET done == [ui EXCEPT !.busy = FALSE]
    IN \/ Ends(i, "approve") /\ ui' = done
       \/ Answered(i, "approve", <<Call("pending", None)>>) /\ ui' = Unselected(done)
       \/ Answered(i, "approve", <<Call("detailsofapproved", net[i].arg)>>) /\ ui' = done

(* The details of the approved document first, then the list.              *)
ApprovedDetails(i) ==
    /\ Answered(i, "detailsofapproved", <<Call("pending", None)>>)
    /\ \/ UNCHANGED ui
       \/ \E mine \in BOOLEAN : ui' = [ui EXCEPT !.details = net[i].arg, !.mine = mine]

AskReject ==
    /\ ui.selected # None /\ ~ui.busy /\ ~ui.reject
    /\ ui' = [ui EXCEPT !.reject = TRUE]
    /\ UNCHANGED net

reject ==
    /\ ui.reject /\ ui.selected # None /\ ~ui.busy
    /\ Post("reject", ui.selected)
    /\ ui' = [ui EXCEPT !.busy = TRUE]

Rejected(i) ==
    LET done == [ui EXCEPT !.busy = FALSE]
    IN \/ Ends(i, "reject") /\ ui' = done
       \/ /\ Answered(i, "reject", <<Call("pending", None)>>)
          /\ ui' = Unselected([done EXCEPT !.reject = FALSE])

CloseReject ==
    /\ ui.reject
    /\ ui' = [ui EXCEPT !.reject = FALSE]
    /\ UNCHANGED net

ApproveNext ==
    \/ \E d \in Note : Select(d)
    \/ approve \/ AskReject \/ reject \/ CloseReject
    \/ \E i \in DOMAIN net : \/ loadPending(i) \/ loadDocumentDetails(i) \/ Approved(i)
                             \/ ApprovedDetails(i) \/ Rejected(i)

onApprove == ui.which = "approve"

Next ==
    \/ ~onApprove /\ ListNext
    \/ onApprove /\ ApproveNext

TypeOK == IF onApprove THEN ApproveTypeOK ELSE ListTypeOK

Decisions == {"approve", "reject"}

SpinnersEnd ==
    IF onApprove THEN ui.busy => \E op \in Decisions : OnTheWay(op)
    ELSE /\ ui.creating => OnTheWay("create")
         /\ ui.saving => OnTheWay("assign")

OneCallPerButton == AtMostOne(Decisions) /\ AtMostOne({"create"}) /\ AtMostOne({"assign"})
=============================================================================
