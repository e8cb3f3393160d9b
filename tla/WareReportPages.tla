-------------------------- MODULE WareReportPages ---------------------------
(***************************************************************************)
(* The warehouse's lists: incomes of a period by component                 *)
(* (ui/src/pages/ware_income_report.tsx), the incomes of one component     *)
(* (ware_income_report_detail.tsx), the stock of a day                     *)
(* (ware_stock_snapshot.tsx), the delivery notes to hand out               *)
(* (ware_outcome.tsx) and their history (ware_request_history.tsx), which  *)
(* keeps a state of its own.  "which" is the page.                         *)
(***************************************************************************)
EXTENDS Widgets, SequencesExt

CONSTANTS Component, Model, Note

VARIABLE ui

(* history: incomes as the server sent them, in order.                     *)
Entry   == [component: Component \cup {None}, quantity: 1 .. 2]
History == UNION {[1 .. n -> Entry] : n \in 0 .. MaxRows}

Fresh(p) == [which |-> p, history |-> <<>>, total |-> 0, view |-> FirstView, loading |-> TRUE,
             exporting |-> FALSE]

ListTypeOK ==
    /\ ui.which \in {"income", "detail", "snapshot", "outcome"}
    /\ ui.history \in History /\ ui.total \in 0 .. MaxRows /\ ui.view \in View
    /\ {ui.loading, ui.exporting} \subseteq BOOLEAN

Mount(p) == ui' = Fresh(p) /\ net' = <<Call("load", None)>>
MountIncome   == Mount("income")
MountDetail   == Mount("detail")
MountSnapshot == Mount("snapshot")
MountOutcome  == Mount("outcome")

Group(c) == [component |-> c, total |-> 0, count |-> 0]

(* An income without a component is in no group.                           *)
AddEntry(groups, e) ==
    IF e.component = None THEN groups
    ELSE LET opened == IF \E g \in groups : g.component = e.component THEN groups
                       ELSE groups \cup {Group(e.component)}
         IN {IF g.component = e.component
             THEN [g EXCEPT !.total = @ + e.quantity, !.count = @ + 1] ELSE g : g \in opened}

buildComponentSummary(history) == FoldLeft(AddEntry, {}, history)

(* k rows, of which those pass the filter that its text lets through.      *)
Loaded(k) ==
    \E n \in 0 .. k : ui' = [ui EXCEPT !.loading = FALSE, !.total = k, !.view = NewRows(@, n)]

Request ==
    /\ Post("load", None)
    /\ ui' = [ui EXCEPT !.loading = TRUE]

(* A new date of the period asks again by itself; the stock of a day and   *)
(* the list of notes wait for the button.                                  *)
ChooseDates == ui.which = "income" /\ Request
Refresh     == ui.which # "detail" /\ ~ui.loading /\ Request

(* A failed load empties the page of one component; the others keep what   *)
(* they show.                                                              *)
loadHistory(i) ==
    /\ Ends(i, "load") /\ ui.which = "income"
    /\ \/ ui' = [ui EXCEPT !.loading = FALSE]
       \/ \E h \in History : \E n \in 0 .. Cardinality(buildComponentSummary(h)) :
             ui' = [ui EXCEPT !.loading = FALSE, !.history = h, !.view = NewRows(@, n),
                              !.total = Cardinality(buildComponentSummary(h))]

DetailLoaded(i) ==
    /\ Ends(i, "load") /\ ui.which = "detail"
    /\ \E k \in 0 .. MaxRows : Loaded(k)

loadSnapshot(i) ==
    /\ Ends(i, "load") /\ ui.which = "snapshot"
    /\ \/ ui' = [ui EXCEPT !.loading = FALSE]
       \/ \E k \in 0 .. MaxRows : Loaded(k)

(* The notes are not paged, and those without lines are left out.          *)
loadNotes(i) ==
    /\ Ends(i, "load") /\ ui.which = "outcome"
    /\ \E k \in 0 .. MaxRows : Loaded(k)

globalFilter ==
    /\ ui.which \in {"income", "snapshot"}
    /\ \E n \in 0 .. ui.total : ui' = [ui EXCEPT !.view = NewRows(@, n)]
    /\ UNCHANGED net

(* The stock of a day has a page size and no buttons to turn the page.     *)
TurnPage ==
    /\ ui.which = "income" \/ (ui.which = "detail" /\ ~ui.loading)
    /\ \E v \in TurnedPage(ui.view) : ui' = [ui EXCEPT !.view = v]
    /\ UNCHANGED net

ResizePage(s) ==
    /\ ui.which # "outcome" /\ ui.view.rows > 0
    /\ ui' = [ui EXCEPT !.view = handlePageSizeChange(@, s)]
    /\ UNCHANGED net

(* What is written is the list of the moment the button was pressed.       *)
exportXlsx ==
    /\ \/ ui.which = "income" /\ ui.history # <<>>
       \/ ui.which = "detail" /\ ui.view.rows > 0
    /\ ~ui.exporting
    /\ Post("excel", None)
    /\ ui' = [ui EXCEPT !.exporting = TRUE]

Exported(i) == Ends(i, "excel") /\ ui' = [ui EXCEPT !.exporting = FALSE]

ListNext ==
    \/ ChooseDates \/ Refresh \/ globalFilter \/ TurnPage \/ exportXlsx
    \/ \E s \in PageSizes : ResizePage(s)
    \/ \E i \in DOMAIN net : \/ loadHistory(i) \/ DetailLoaded(i) \/ loadSnapshot(i)
                             \/ loadNotes(i) \/ Exported(i)

(***************************************************************************)
(* The history of delivery notes: a list that is asked again whenever its  *)
(* filter changes, and a dialog with the lines of one note.                *)
(***************************************************************************)
HistoryFresh == [which |-> "history", models |-> {}, model |-> None, notes |-> {},
                 loading |-> TRUE, note |-> None, open |-> FALSE, items |-> None,
                 dialogLoading |-> FALSE]

(* items: the note whose lines the dialog lists.                           *)
HistoryTypeOK ==
    ui \in [which: {"history"}, models: SUBSET Model, model: Model \cup {None},
            notes: SUBSET Note, loading: BOOLEAN, note: Note \cup {None},
            open: BOOLEAN, items: Note \cup {None}, dialogLoading: BOOLEAN]

MountHistory ==
    ui' = HistoryFresh /\ net' = <<Call("models", None), Call("notes", None)>>

loadModels(i) ==
    /\ Ends(i, "models")
    /\ \E ms \in {ui.models} \cup SUBSET Model : ui' = [ui EXCEPT !.models = ms]

(* A change of the filter, or of its dates, runs the effect again.         *)
ChooseModel(m) ==
    /\ m \in ui.models \cup {None}
    /\ Post("notes", m)
    /\ ui' = [ui EXCEPT !.model = m, !.loading = TRUE]

RefreshHistory ==
    /\ ~ui.loading
    /\ Post("notes", ui.model)
    /\ ui' = [ui EXCEPT !.loading = TRUE]

loadHistoryNotes(i) ==
    /\ Ends(i, "notes")
    /\ \E ns \in {ui.notes} \cup SUBSET Note :
          ui' = [ui EXCEPT !.loading = FALSE, !.notes = ns]

openNoteDialog(n) ==
    /\ n \in ui.notes
    /\ Post("items", n)
    /\ ui' = [ui EXCEPT !.note = n, !.open = TRUE, !.items = None, !.dialogLoading = TRUE]

(* The answer is shown for whatever note is open now.                      *)
ItemsLoaded(i) ==
    /\ Ends(i, "items")
    /\ \E shown \in {ui.items, net[i].arg} :
          ui' = [ui EXCEPT !.dialogLoading = FALSE, !.items = shown]

CloseDialog ==
    /\ ui.open
    /\ ui' = [ui EXCEPT !.open = FALSE]
    /\ UNCHANGED net

HistoryNext ==
    \/ ~ui.open /\ \/ \E m \in Model \cup {None} : ChooseModel(m)
                   \/ \E n \in Note : openNoteDialog(n)
                   \/ RefreshHistory
    \/ CloseDialog
    \/ \E i \in DOMAIN net : loadModels(i) \/ loadHistoryNotes(i) \/ ItemsLoaded(i)

onHistory == ui.which = "history"

Next ==
    \/ ~onHistory /\ ListNext
    \/ onHistory /\ HistoryNext

TypeOK == IF onHistory THEN HistoryTypeOK ELSE ListTypeOK

SpinnersEnd ==
    /\ ~onHistory /\ ui.loading => OnTheWay("load")
    /\ ~onHistory /\ ui.exporting => OnTheWay("excel")
    /\ onHistory /\ ui.loading => OnTheWay("notes")
    /\ onHistory /\ ui.dialogLoading => OnTheWay("items")

PageShown == ~onHistory => PageExists(ui.view)

(* The summary by component says neither more nor less than the incomes:   *)
(* every component once, with the sum and the number of its incomes.       *)
SummaryAddsUp ==
    LET groups == buildComponentSummary(ui.history)
        Of(c)  == SelectSeq(ui.history, LAMBDA e : e.component = c)
    IN ~onHistory =>
       groups = {[component |-> c, count |-> Len(Of(c)),
                  total |-> FoldLeft(LAMBDA sum, e : sum + e.quantity, 0, Of(c))] :
                 c \in {ui.history[i].component : i \in DOMAIN ui.history} \ {None}}
=============================================================================
