------------------------------ MODULE Widgets -------------------------------
(***************************************************************************)
(* What several pages of the client show: the choice of a line, and a      *)
(* table page by page.                                                     *)
(***************************************************************************)
EXTENDS Backend

CONSTANTS Line, None, MaxRows, PageSizes

(* The line a balance page is about (useLineBalanceLines in                *)
(* ui/src/pages/line_balance_shared.tsx, useProductBalanceLines in         *)
(* product_balance_shared.tsx): the lines are loaded once, then the line   *)
(* the address names, or a default one, is selected.                       *)
Choice(l) == [lines |-> {}, linesLoading |-> TRUE, selected |-> None, wanted |-> l]

ChoiceOK(c) ==
    /\ c.lines \subseteq Line /\ c.linesLoading \in BOOLEAN
    /\ {c.selected, c.wanted} \subseteq Line \cup {None}

(* The default is the fin press line, or the first of the product lines.   *)
pickDefaultLine(ls, wanted) ==
    IF ls = {} THEN {None} ELSE IF wanted \in ls THEN {wanted} ELSE ls

(* A failed load leaves the page without a line.                           *)
LinesOf(c) ==
    UNION {{[c EXCEPT !.lines = ls, !.linesLoading = FALSE, !.selected = l] :
                l \in pickDefaultLine(ls, c.wanted)} : ls \in SUBSET Line}

(* A table shown page by page: the table library's pagination as the       *)
(* report pages use it.  A view is the number of rows that pass the        *)
(* filter, the page shown (from 0) and the rows on a page.  The library    *)
(* goes back to the first page when the rows or the filter change.         *)
View == [rows: 0 .. MaxRows, page: 0 .. MaxRows, size: PageSizes]

FirstView == [rows |-> 0, page |-> 0, size |-> CHOOSE s \in PageSizes : TRUE]

getPageCount(v) == (v.rows + v.size - 1) \div v.size

NewRows(v, n) == [v EXCEPT !.rows = n, !.page = 0]

TurnedPage(v) ==
    {[v EXCEPT !.page = p] : p \in {q \in 0 .. MaxRows : q < getPageCount(v)
                                                        /\ (q = v.page + 1 \/ v.page = q + 1)}}

handlePageSizeChange(v, s) == [v EXCEPT !.size = s, !.page = 0]

(* The page that is shown has rows on it, when the table has any.          *)
PageExists(v) == v.page = 0 \/ v.page * v.size < v.rows
=============================================================================
