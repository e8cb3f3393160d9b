---------------------------- MODULE BalancePages ----------------------------
(***************************************************************************)
(* What is on a line: its components (ui/src/pages/line_balance.tsx), its  *)
(* products (product_balance.tsx) and the products handed on in a period   *)
(* (product_balance_report.tsx).  Another line, or other dates, ask again; *)
(* the requests are numbered and only the answer to the newest counts.     *)
(* The page of the movements in a period (line_balance_transactions.tsx)   *)
(* keeps a state of its own, and its requests are not numbered.            *)
(***************************************************************************)
EXTENDS Widgets, Integers, SequencesExt

CONSTANT MaxRequests     \* bound on the requests of a visit

VARIABLE ui

(* rows: what they are of, and whether there are any.                      *)
Fresh(p, l) == [which |-> p, choice |-> Choice(l), period |-> 1, requests |-> 0,
                loading |-> FALSE, exporting |-> FALSE,
                rows |-> [of |-> None, period |-> 1, some |-> FALSE]]

TypeOK ==
    /\ ui.which \in {"line", "product", "report"} /\ ChoiceOK(ui.choice)
    /\ ui.period \in 1 .. 2 /\ ui.requests \in 0 .. MaxRequests
    /\ {ui.loading, ui.exporting} \subseteq BOOLEAN
    /\ ui.rows \in [of: Line \cup {None}, period: 1 .. 2, some: BOOLEAN]

Mount(p, l) == ui' = Fresh(p, l) /\ net' = <<Call("lines", None)>>
MountLine    == Mount("line", None)
MountProduct == Mount("product", None)
MountReport  == \E l \in Line \cup {None} : Mount("report", l)

(* The effect of a line or of dates that are new.                          *)
Balance(s) ==
    IF s.choice.selected = None THEN <<>>
    ELSE <<Call("balance", [id |-> s.requests + 1, line |-> s.choice.selected, period |-> s.period])>>

Asking(s) ==
    IF s.choice.selected = None THEN s
    ELSE [s EXCEPT !.requests = @ + 1, !.loading = TRUE]

LinesLoaded(i) ==
    \E c \in LinesOf(ui.choice) :
       LET s == [ui EXCEPT !.choice = c]
       IN Answered(i, "lines", Balance(s)) /\ ui' = Asking(s)

setSelectedLine(l) ==
    /\ l \in ui.choice.lines \ {ui.choice.selected} /\ ui.requests < MaxRequests
    /\ LET s == [ui EXCEPT !.choice.selected = l]
       IN Posts(Balance(s)) /\ ui' = Asking(s)

ChooseDates ==
    /\ ui.which = "report" /\ ui.requests < MaxRequests
    /\ LET s == [ui EXCEPT !.period = 3 - @]
       IN Posts(Balance(s)) /\ ui' = Asking(s)

Rows(i, some) == [of |-> net[i].arg.line, period |-> net[i].arg.period, some |-> some]

(* Mutant: the number of the request is not compared.                      *)
LoadedAny(i) ==
    /\ Ends(i, "balance")
    /\ \E b \in BOOLEAN : ui' = [ui EXCEPT !.loading = FALSE, !.rows = Rows(i, b)]

(* A failed load shows no rows.                                            *)
Loaded(i) ==
    /\ Ends(i, "balance")
    /\ IF net[i].arg.id # ui.requests THEN UNCHANGED ui
       ELSE \E b \in BOOLEAN : ui' = [ui EXCEPT !.loading = FALSE, !.rows = Rows(i, b)]

(* The sheet is named after the selected line and holds the shown rows.    *)
exportToExcel ==
    /\ ui.which = "product"
    /\ ~ui.exporting /\ ~ui.loading /\ ~ui.choice.linesLoading /\ ui.rows.some
    /\ Post("excel", [line |-> ui.choice.selected, of |-> ui.rows.of])
    /\ ui' = [ui EXCEPT !.exporting = TRUE]

Exported(i) == Ends(i, "excel") /\ ui' = [ui EXCEPT !.exporting = FALSE]

Next ==
    \/ \E l \in Line : setSelectedLine(l)
    \/ ChooseDates \/ exportToExcel
    \/ \E i \in DOMAIN net : LinesLoaded(i) \/ Loaded(i) \/ Exported(i)

SpinnersEnd ==
    /\ ui.choice.linesLoading => OnTheWay("lines")
    /\ ui.loading => \E i \in DOMAIN net : net[i].op = "balance" /\ net[i].arg.id = ui.requests
    /\ ui.exporting => OnTheWay("excel")

(* In whatever order the answers come, rows that are not marked as loading *)
(* are those of the line and the dates that are selected, and a sheet with *)
(* the name of a line holds the rows of that line.                         *)
LatestShown ==
    /\ ~ui.loading /\ ui.rows.some =>
          ui.rows.of = ui.choice.selected /\ ui.rows.period = ui.period
    /\ \A i \in DOMAIN net : net[i].op = "excel" => net[i].arg.line = net[i].arg.of

(***************************************************************************)
(* The movements on a line in a period, with the Excel sheet of            *)
(* line_balance_shared.tsx.  The line is kept in the address too; the      *)
(* answer that comes last stays.                                           *)
(***************************************************************************)
(* A movement is its quantity_change, added or removed.                    *)
Change  == -1 .. 2
History == UNION {[1 .. n -> Change] : n \in 0 .. MaxRows}

FreshTransactions(l) ==
    [choice |-> Choice(l), transactions |-> <<>>, balances |-> FALSE,
     view |-> FirstView, loading |-> FALSE, exporting |-> FALSE]

TransactionsTypeOK ==
    /\ ChoiceOK(ui.choice) /\ ui.transactions \in History /\ ui.view \in View
    /\ {ui.balances, ui.loading, ui.exporting} \subseteq BOOLEAN

MountTransactions ==
    \E l \in Line \cup {None} : ui' = FreshTransactions(l) /\ net' = <<Call("lines", None)>>

(* The effect of a line or of dates that are new; the line goes into the   *)
(* address.                                                                *)
TransactionsCalls(s) ==
    IF s.choice.selected = None THEN <<>>
    ELSE <<Call("balances", None), Call("transactions", None)>>

AskingTransactions(s) ==
    IF s.choice.selected = None
    THEN [s EXCEPT !.balances = FALSE, !.transactions = <<>>, !.view = NewRows(@, 0)]
    ELSE [s EXCEPT !.choice.wanted = s.choice.selected, !.loading = TRUE]

TransactionLinesLoaded(i) ==
    \E c \in LinesOf(ui.choice) :
       LET s == [ui EXCEPT !.choice = c]
       IN Answered(i, "lines", TransactionsCalls(s)) /\ ui' = AskingTransactions(s)

chooseTransactionsLine(l) ==
    /\ l \in ui.choice.lines \ {ui.choice.selected}
    /\ LET s == [ui EXCEPT !.choice.selected = l]
       IN Posts(TransactionsCalls(s)) /\ ui' = AskingTransactions(s)

ChooseTransactionDates == Posts(TransactionsCalls(ui)) /\ ui' = AskingTransactions(ui)

Refresh ==
    /\ ui.choice.selected # None
    /\ Post("transactions", None)
    /\ ui' = [ui EXCEPT !.loading = TRUE]

(* A failed load of the balances keeps those of before.                    *)
loadBalances(i) ==
    /\ Ends(i, "balances")
    /\ \E b \in BOOLEAN : ui' = [ui EXCEPT !.balances = b]

loadTransactions(i) ==
    /\ Ends(i, "transactions")
    /\ \E h \in History :
       \E n \in 0 .. Len(h) :
          ui' = [ui EXCEPT !.loading = FALSE, !.transactions = h, !.view = NewRows(@, n)]

globalFilter ==
    /\ \E n \in 0 .. Len(ui.transactions) : ui' = [ui EXCEPT !.view = NewRows(@, n)]
    /\ UNCHANGED net

TurnPage ==
    /\ \E v \in TurnedPage(ui.view) : ui' = [ui EXCEPT !.view = v]
    /\ UNCHANGED net

ResizePage(s) ==
    /\ ui.view.rows > 0
    /\ ui' = [ui EXCEPT !.view = handlePageSizeChange(@, s)]
    /\ UNCHANGED net

exportTransactions ==
    /\ ui.choice.selected # None /\ ~ui.exporting
    /\ ui.transactions # <<>> \/ ui.balances
    /\ Post("excel", None)
    /\ ui' = [ui EXCEPT !.exporting = TRUE]

TransactionsExported(i) == Ends(i, "excel") /\ ui' = [ui EXCEPT !.exporting = FALSE]

Counted(t, change) ==
    IF change > 0 THEN [t EXCEPT !.added = @ + change]
    ELSE [t EXCEPT !.removed = @ + (IF change < 0 THEN -change ELSE change)]

(* The last row of the sheet: what was added, and what was removed.        *)
buildBalanceWorkbook(h) ==
    LET t == FoldLeft(Counted, [added |-> 0, removed |-> 0], h)
    IN <<t.added, -t.removed>>

TransactionsNext ==
    \/ \E l \in Line : chooseTransactionsLine(l)
    \/ ChooseTransactionDates \/ Refresh \/ globalFilter \/ TurnPage \/ exportTransactions
    \/ \E s \in PageSizes : ResizePage(s)
    \/ \E i \in DOMAIN net : \/ TransactionLinesLoaded(i) \/ loadBalances(i) \/ loadTransactions(i)
                             \/ TransactionsExported(i)

TransactionsSpinnersEnd ==
    /\ ui.choice.linesLoading => OnTheWay("lines")
    /\ ui.loading => OnTheWay("transactions")
    /\ ui.exporting => OnTheWay("excel")

PageShown == PageExists(ui.view)

(* The totals of the sheet are the change the movements made together.     *)
SummaryAddsUp ==
    LET t == buildBalanceWorkbook(ui.transactions)
    IN /\ t[1] >= 0 /\ t[2] <= 0
       /\ t[1] + t[2] = FoldLeft(LAMBDA a, b : a + b, 0, ui.transactions)
=============================================================================
