------------------------------ MODULE PlanPage ------------------------------
(***************************************************************************)
(* The month's plan (ui/src/pages/production_plan.tsx with                 *)
(* components/production_plan_month_grid.tsx): a grid of quantities by     *)
(* item and day is loaded for the line of a tab, edited, saved as the      *)
(* cells that differ from the loaded ones, and approved by locking days.   *)
(* A handler goes on with the line and the rows of the moment it started;  *)
(* the tab may have changed since.                                         *)
(***************************************************************************)
EXTENDS Backend, FiniteSets, Functions, TLC

CONSTANTS Line, PlanItem, Day, None

VARIABLE ui

(* A row of the grid; a day stands for one of its two shifts.              *)
Row  == [qty: [Day -> 0 .. 1], allow: BOOLEAN]
Rows == UNION {[S -> Row] : S \in SUBSET PlanItem}
NoData == [line |-> None, locked |-> {}]

(* line: the tab; data: whose rows are shown, and their locked days;       *)
(* dirty: the memo isDirty, see EditRows.                                  *)
Grid(l) == [line |-> l, data |-> NoData, rows |-> <<>>,
            snapshot |-> [line |-> None, rows |-> <<>>],
            dirty |-> FALSE, loading |-> TRUE, saving |-> FALSE, locking |-> FALSE]

Fresh(l) == [grid |-> Grid(l), today |-> 1]

TypeOK ==
    /\ ui.grid \in [line: Line, data: [line: Line \cup {None}, locked: SUBSET Day], rows: Rows,
                    snapshot: [line: Line \cup {None}, rows: Rows],
                    dirty: BOOLEAN, loading: BOOLEAN, saving: BOOLEAN, locking: BOOLEAN]
    /\ ui.today \in Day \/ ui.today - 1 \in Day

g == ui.grid

(* What a handler does once the month is loaded again.                     *)
loadMonth(l, then) == Call("month", [line |-> l, then |-> then])

Mount == \E l \in Line : ui' = Fresh(l) /\ net' = <<loadMonth(l, "nothing")>>

isPlanDayEditable(d) == d >= ui.today /\ d \notin g.data.locked

Qty(rows, i, d) == IF i \in DOMAIN rows THEN rows[i].qty[d] ELSE 0

Differs(rows, i, d) ==
    LET now == Qty(rows, i, d)  was == Qty(g.snapshot.rows, i, d)
    IN \/ now # was
       \/ /\ i \in DOMAIN g.snapshot.rows /\ g.snapshot.rows[i].allow # rows[i].allow
          /\ now > 0 \/ was > 0

Cell(i, d, qty, allow) == [item |-> i, day |-> d, qty |-> qty, allow |-> allow]

Kept(rows) == {Cell(i, d, rows[i].qty[d], rows[i].allow) : i \in DOMAIN rows, d \in Day}

(* Mutant: the rows that were removed are forgotten.                       *)
buildSaveKeptOnly(rows) ==
    {c \in Kept(rows) : isPlanDayEditable(c.day) /\ Differs(rows, c.item, c.day)}

(* A cell for each change, and a zero for each quantity of a removed row.  *)
buildPlanSaveCells(rows) ==
    LET was     == g.snapshot.rows
        removed == {Cell(i, d, 0, was[i].allow) : i \in DOMAIN was \ DOMAIN rows, d \in Day}
    IN {c \in Kept(rows) : isPlanDayEditable(c.day) /\ Differs(rows, c.item, c.day)}
       \cup {c \in removed : isPlanDayEditable(c.day) /\ was[c.item].qty[c.day] > 0}

(* isDirty is worked out when the rows or the data change, by the snapshot *)
(* and the day of that moment: a save that succeeds and a midnight leave   *)
(* it as it was.                                                           *)
EditRows(rows) ==
    /\ ui' = [ui EXCEPT !.grid.rows = rows,
                        !.grid.dirty = g.data # NoData /\ buildPlanSaveCells(rows) # {}]
    /\ UNCHANGED net

updatePlannedQty(i, d) ==
    /\ i \in DOMAIN g.rows /\ isPlanDayEditable(d)
    /\ \E q \in 0 .. 1 : EditRows([g.rows EXCEPT ![i].qty[d] = q])

updateAllowOverplan(i) ==
    i \in DOMAIN g.rows /\ EditRows([g.rows EXCEPT ![i].allow = ~@])

addRow(i) ==
    /\ g.data # NoData /\ i \notin DOMAIN g.rows
    /\ EditRows((i :> [qty |-> [d \in Day |-> 0], allow |-> TRUE]) @@ g.rows)

removeRow(i) ==
    i \in DOMAIN g.rows /\ EditRows(Restrict(g.rows, DOMAIN g.rows \ {i}))

setLineId(l) ==
    /\ l # g.line
    /\ Posts(<<loadMonth(l, "nothing")>>)
    /\ ui' = [ui EXCEPT !.grid.line = l, !.grid.loading = TRUE]

RefreshMonth ==
    /\ ~g.loading
    /\ Posts(<<loadMonth(g.line, "nothing")>>)
    /\ ui' = [ui EXCEPT !.grid.loading = TRUE]

savePlanCells(then) ==
    /\ Post("save", [line |-> g.line, of |-> g.data.line, rows |-> g.rows, then |-> then])
    /\ ui' = [ui EXCEPT !.grid.saving = TRUE]

(* What differs is worked out again when it is sent.                       *)
handleSave ==
    ~g.saving /\ g.dirty /\ buildPlanSaveCells(g.rows) # {} /\ savePlanCells("nothing")

LockCall(l) == Call("lock", l)

(* One day, or all of the month: what is not saved yet is saved first; it  *)
(* is the line of the tab that is locked, whatever line is shown.          *)
lockDay ==
    /\ ~g.locking /\ g.data # NoData
    /\ \/ g.dirty /\ buildPlanSaveCells(g.rows) # {} /\ savePlanCells("lock")
       \/ ~g.dirty /\ Posts(<<LockCall(g.line)>>) /\ ui' = [ui EXCEPT !.grid.locking = TRUE]

unlockDay ==
    /\ ~g.locking
    /\ Post("unlock", g.line)
    /\ ui' = [ui EXCEPT !.grid.locking = TRUE]

Sent(i) == [line |-> net[i].arg.of, rows |-> net[i].arg.rows]

(* Mutant: the month is not read again.                                    *)
SavedKeeps(i) ==
    /\ Ends(i, "save")
    /\ \/ ui' = [ui EXCEPT !.grid.saving = FALSE]
       \/ ui' = [ui EXCEPT !.grid.saving = FALSE, !.grid.snapshot = Sent(i)]

(* The snapshot becomes what was sent, whatever is shown by now, and the   *)
(* line that was saved is loaded.                                          *)
Saved(i) ==
    /\ net[i].op = "save"
    /\ \/ Ends(i, "save") /\ ui' = [ui EXCEPT !.grid.saving = FALSE]
       \/ /\ Answered(i, "save", <<loadMonth(net[i].arg.line, net[i].arg.then)>>)
          /\ ui' = [ui EXCEPT !.grid.saving = FALSE, !.grid.loading = TRUE,
                              !.grid.snapshot = Sent(i)]

Locked(i) ==
    \E op \in {"lock", "unlock"} :
       \/ Ends(i, op) /\ ui' = [ui EXCEPT !.grid.locking = FALSE]
       \/ /\ Answered(i, op, <<loadMonth(net[i].arg, "nothing")>>)
          /\ ui' = [ui EXCEPT !.grid.locking = FALSE, !.grid.loading = TRUE]

(* What the server sent is both edited and compared with; a failed load    *)
(* empties the grid.                                                       *)
Shown(l) ==
    {[g EXCEPT !.loading = FALSE, !.dirty = FALSE, !.data = NoData, !.rows = <<>>,
               !.snapshot = [line |-> None, rows |-> <<>>]]}
    \cup {[g EXCEPT !.loading = FALSE, !.dirty = FALSE, !.rows = m.rows,
                    !.data = [line |-> l, locked |-> m.locked],
                    !.snapshot = [line |-> l, rows |-> m.rows]]
             : m \in [locked: SUBSET Day, rows: Rows]}

MonthLoaded(i) ==
    /\ net[i].op = "month"
    /\ LET lock == net[i].arg.then = "lock"
       IN /\ Answered(i, "month", IF lock THEN <<LockCall(net[i].arg.line)>> ELSE <<>>)
          /\ \E s \in Shown(net[i].arg.line) :
                ui' = [ui EXCEPT !.grid = IF lock THEN [s EXCEPT !.locking = TRUE] ELSE s]

(* Midnight: a day that was today is over.                                 *)
todayDateInput ==
    /\ ui.today \in Day
    /\ ui' = [ui EXCEPT !.today = @ + 1]
    /\ UNCHANGED net

(* Another month, or an import, mounts the grid again: the calls of the    *)
(* one before it change nothing any more.                                  *)
setYearMonth ==
    \E l \in Line : ui' = [ui EXCEPT !.grid = Grid(l)] /\ net' = <<loadMonth(l, "nothing")>>

Next ==
    \/ \E i \in PlanItem : \/ updateAllowOverplan(i) \/ addRow(i) \/ removeRow(i)
                           \/ \E d \in Day : updatePlannedQty(i, d)
    \/ \E l \in Line : setLineId(l)
    \/ RefreshMonth \/ handleSave \/ lockDay \/ unlockDay
    \/ todayDateInput \/ setYearMonth
    \/ \E i \in DOMAIN net : Saved(i) \/ Locked(i) \/ MonthLoaded(i)

SpinnersEnd ==
    /\ g.loading => OnTheWay("month")
    /\ g.saving => OnTheWay("save")
    /\ g.locking => OnTheWay("lock") \/ OnTheWay("unlock")

(* While the rows are compared with those of their own line, the cells of  *)
(* a save turn what the server had into what is on screen, on the days     *)
(* that may still be edited, and touch no other day.  A save answered      *)
(* under another tab leaves the rows of the line it was for to be compared *)
(* with, and until that line is loaded again the cells of a save are not   *)
(* what anybody typed: GridSettles says how long that lasts.               *)
CellsExact ==
    LET cells == buildPlanSaveCells(g.rows)
        sent(i, d)  == {c \in cells : c.item = i /\ c.day = d}
        after(i, d) == IF sent(i, d) = {} THEN Qty(g.snapshot.rows, i, d)
                       ELSE (CHOOSE c \in sent(i, d) : TRUE).qty
    IN g.snapshot.line = g.data.line =>
          \A i \in PlanItem, d \in Day :
             /\ Cardinality(sent(i, d)) <= 1
             /\ after(i, d) = IF isPlanDayEditable(d) THEN Qty(g.rows, i, d)
                              ELSE Qty(g.snapshot.rows, i, d)

(* Tabs changed while a save was on the way leave the rows compared with   *)
(* those of another line no longer than until the answers are in.          *)
GridSettles ==
    ~OnTheWay("save") /\ ~OnTheWay("month") => g.snapshot.line = g.data.line
=============================================================================
