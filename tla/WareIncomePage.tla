--------------------------- MODULE WareIncomePage ---------------------------
(***************************************************************************)
(* Receiving components (ui/src/pages/ware_income.tsx): a component is     *)
(* found by its code and its amount typed into a dialog.  After an income  *)
(* is saved the stock is read again, and only then is the dialog's state   *)
(* reset: the next component may be open by that time.  An Excel job of    *)
(* the browser is a call that the browser itself answers.                  *)
(***************************************************************************)
EXTENDS Backend

CONSTANTS Component, None

VARIABLE ui

(* quantity: whether one is typed, and the component it was typed for;     *)
(* history: the component whose incomes are listed; unreadable: a history, *)
(* whether a dropped file could ever not be read.                          *)
Fresh == [listed |-> {}, selected |-> None, open |-> FALSE, quantity |-> None,
          history |-> None, historyLoading |-> FALSE, saving |-> FALSE,
          uploading |-> FALSE, downloading |-> FALSE, exporting |-> FALSE,
          unreadable |-> FALSE]

TypeOK ==
    ui \in [listed: SUBSET Component, selected: Component \cup {None}, open: BOOLEAN,
            quantity: Component \cup {None}, history: Component \cup {None},
            historyLoading: BOOLEAN, saving: BOOLEAN, uploading: BOOLEAN,
            downloading: BOOLEAN, exporting: BOOLEAN, unreadable: BOOLEAN]

(* What the page does after the stock was read: nothing, reset the dialog, *)
(* or read the incomes of a component.                                     *)
loadStock(then) == Call("stock", then)

Mount == ui' = Fresh /\ net' = <<Call("components", None), loadStock("nothing")>>

loadComponents(i) ==
    /\ Ends(i, "components")
    /\ \E cs \in {ui.listed} \cup SUBSET Component : ui' = [ui EXCEPT !.listed = cs]

openIncomeDialog(c) ==
    /\ c \in ui.listed /\ ~ui.open
    /\ Post("history", c)
    /\ ui' = [ui EXCEPT !.selected = c, !.quantity = None, !.open = TRUE,
                        !.historyLoading = TRUE]

loadComponentHistory(i) ==
    /\ Ends(i, "history")
    /\ \E c \in {net[i].arg, None} :
          ui' = [ui EXCEPT !.historyLoading = FALSE, !.history = c]

TypeQuantity ==
    /\ ui.open /\ ui.selected # None
    /\ \E q \in {ui.selected, None} : ui' = [ui EXCEPT !.quantity = q]
    /\ UNCHANGED net

resetAfterDialogClose(s) ==
    [s EXCEPT !.selected = None, !.history = None, !.quantity = None]

CloseDialog ==
    /\ ui.open
    /\ ui' = resetAfterDialogClose([ui EXCEPT !.open = FALSE])
    /\ UNCHANGED net

(* Mutant: the Enter key does not look at the request on the way.          *)
submitIncomeAgain ==
    /\ ui.open /\ ui.selected # None /\ ui.quantity # None
    /\ Post("income", [component |-> ui.selected, typed |-> ui.quantity])
    /\ ui' = [ui EXCEPT !.saving = TRUE]

submitIncome ==
    /\ ui.open /\ ui.selected # None /\ ~ui.saving /\ ui.quantity # None
    /\ Post("income", [component |-> ui.selected, typed |-> ui.quantity])
    /\ ui' = [ui EXCEPT !.saving = TRUE]

(* The dialog closes, whichever component it is open for by now.           *)
Received(i) ==
    \/ Ends(i, "income") /\ ui' = [ui EXCEPT !.saving = FALSE]
    \/ /\ Answered(i, "income", <<loadStock("reset")>>)
       /\ ui' = [ui EXCEPT !.saving = FALSE, !.open = FALSE]

StockLoaded(i) ==
    /\ net[i].op = "stock"
    /\ LET then == net[i].arg IN
       \/ then = "nothing" /\ Ends(i, "stock") /\ UNCHANGED ui
       \/ then = "reset" /\ Ends(i, "stock") /\ ui' = resetAfterDialogClose(ui)
       \/ /\ then \in Component
          /\ Answered(i, "stock", <<Call("history", then)>>)
          /\ ui' = [ui EXCEPT !.historyLoading = TRUE]

(* "upload" stands for reading the file and posting it.  A click on the    *)
(* button goes to the file dialog; a file can be dropped on the buttons    *)
(* behind an open dialog no more than they can be clicked.                 *)
onDrop ==
    /\ ~ui.uploading /\ ~ui.open
    /\ Post("upload", ui.selected)
    /\ ui' = [ui EXCEPT !.uploading = TRUE]

(* Nobody listens for the error of the reader: "uploading" stays.          *)
Unreadable(i) ==
    Ends(i, "upload") /\ ui' = [ui EXCEPT !.unreadable = TRUE]

(* selectedComponent is the one of the moment the file was dropped.        *)
Uploaded(i) ==
    /\ ui' = [ui EXCEPT !.uploading = FALSE]
    /\ \/ Ends(i, "upload")
       \/ Answered(i, "upload",
             <<loadStock(IF net[i].arg = None THEN "nothing" ELSE net[i].arg)>>)

exportVisibleXlsx ==
    /\ ~ui.exporting /\ ui.listed # {} /\ ~ui.open
    /\ Post("excel", None)
    /\ ui' = [ui EXCEPT !.exporting = TRUE]

Exported(i) == Ends(i, "excel") /\ ui' = [ui EXCEPT !.exporting = FALSE]

downloadTemplate ==
    /\ ~ui.downloading /\ ~ui.uploading /\ ~ui.open
    /\ Post("template", None)
    /\ ui' = [ui EXCEPT !.downloading = TRUE]

Downloaded(i) == Ends(i, "template") /\ ui' = [ui EXCEPT !.downloading = FALSE]

Next ==
    \/ \E c \in Component : openIncomeDialog(c)
    \/ TypeQuantity \/ CloseDialog \/ submitIncome
    \/ onDrop \/ exportVisibleXlsx \/ downloadTemplate
    \/ \E i \in DOMAIN net : \/ loadComponents(i) \/ loadComponentHistory(i) \/ Received(i)
                             \/ StockLoaded(i) \/ Unreadable(i) \/ Uploaded(i) \/ Exported(i)
                             \/ Downloaded(i)

SpinnersEnd ==
    /\ ui.historyLoading => OnTheWay("history")
    /\ ui.saving => OnTheWay("income")
    /\ ui.uploading => OnTheWay("upload") \/ ui.unreadable
    /\ ui.downloading => OnTheWay("template")
    /\ ui.exporting => OnTheWay("excel")

OneCallPerButton == AtMostOne({"income"}) /\ AtMostOne({"upload"})

(* Whatever was saved, closed or opened in between, an amount is received  *)
(* for the component it was typed for.                                     *)
QuantityOfSelected ==
    /\ ui.quantity \in {None, ui.selected}
    /\ \A i \in DOMAIN net : net[i].op = "income" => net[i].arg.typed = net[i].arg.component
=============================================================================
