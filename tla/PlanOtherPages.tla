--------------------------- MODULE PlanOtherPages ---------------------------
(***************************************************************************)
(* Around the month's plan: the head of its page, with export and import   *)
(* (ui/src/pages/production_plan.tsx), plan and fact of a period           *)
(* (production_plan_report.tsx), the day's dashboard, which asks every two *)
(* seconds (production_plan_dashboard.tsx), the hours of the shifts        *)
(* (production_shifts.tsx) and the target of a line (reja.tsx).            *)
(***************************************************************************)
EXTENDS Backend, FiniteSetsExt

CONSTANTS Item, None

VARIABLE ui

(* rows: the names in the report; chosen: the names of its filter;         *)
(* typed: the form holds what the server does not have; thrown: a history, *)
(* whether the request of an import ever threw.                            *)
Fresh(p) == [which |-> p, loading |-> FALSE, rows |-> {}, chosen |-> {}, lines |-> 1, day |-> 1,
             shown |-> 0, typed |-> FALSE, saving |-> FALSE, exporting |-> FALSE,
             tableExporting |-> FALSE, importing |-> FALSE, thrown |-> FALSE]

TypeOK ==
    /\ ui.which \in {"head", "report", "dashboard", "shifts", "reja"}
    /\ ui.rows \subseteq Item /\ ui.chosen \subseteq Item
    /\ ui.lines \in 1 .. 2 /\ ui.day \in 1 .. 2 /\ ui.shown \in 0 .. 2
    /\ {ui.loading, ui.typed, ui.saving, ui.exporting, ui.tableExporting, ui.importing,
        ui.thrown} \subseteq BOOLEAN

Loading(p) == ui' = [Fresh(p) EXCEPT !.loading = TRUE]

MountHead      == ui' = Fresh("head") /\ net' = <<>>
MountReport    == Loading("report") /\ net' = <<Call("load", None)>>
MountDashboard == Loading("dashboard") /\ net' = <<Call("dashboard", [day |-> 1, wait |-> TRUE])>>
MountShifts    == Loading("shifts") /\ net' = <<Call("load", None)>>
MountReja      == ui' = Fresh("reja") /\ net' = <<Call("load", None)>>

On(p) == ui.which = p

downloadPlanExport ==
    /\ On("head") \/ On("report")
    /\ ~ui.exporting
    /\ Post("export", None)
    /\ ui' = [ui EXCEPT !.exporting = TRUE]

handleExport(i) == Ends(i, "export") /\ ui' = [ui EXCEPT !.exporting = FALSE]

uploadPlanImport ==
    /\ On("head") /\ ~ui.importing
    /\ Post("import", None)
    /\ ui' = [ui EXCEPT !.importing = TRUE]

(* A connection that fails throws past the line that ends the import.      *)
handleImport(i) ==
    /\ Ends(i, "import")
    /\ \/ ui' = [ui EXCEPT !.importing = FALSE]
       \/ ui' = [ui EXCEPT !.thrown = TRUE]

(* Other dates or lines ask by themselves; the button does when idle.      *)
Request == Post("load", None) /\ ui' = [ui EXCEPT !.loading = TRUE]

ChooseDates == On("report") /\ Request

ChooseLines ==
    /\ On("report")
    /\ Post("load", None)
    /\ ui' = [ui EXCEPT !.loading = TRUE, !.lines = 3 - @]

Refresh == On("report") /\ ~ui.loading /\ Request

loadReport(i) ==
    /\ On("report") /\ Ends(i, "load")
    /\ \E rs \in SUBSET Item : ui' = [ui EXCEPT !.loading = FALSE, !.rows = rs]

(* The filter offers the names of the rows, and keeps those it has when    *)
(* the rows change.                                                        *)
toggleName(x) ==
    /\ On("report") /\ x \in ui.rows
    /\ ui' = [ui EXCEPT !.chosen = SymDiff(@, {x})]
    /\ UNCHANGED net

ClearNames ==
    /\ On("report")
    /\ ui' = [ui EXCEPT !.chosen = {}]
    /\ UNCHANGED net

filteredRows == IF ui.chosen = {} THEN ui.rows ELSE ui.rows \cap ui.chosen

exportTableToExcel ==
    /\ On("report") /\ ~ui.tableExporting /\ filteredRows # {}
    /\ Post("excel", None)
    /\ ui' = [ui EXCEPT !.tableExporting = TRUE]

Exported(i) == Ends(i, "excel") /\ ui' = [ui EXCEPT !.tableExporting = FALSE]

(* Another day waits for its answer; the timer asks behind the screen.     *)
setPlanDate ==
    /\ On("dashboard")
    /\ Post("dashboard", [day |-> 3 - ui.day, wait |-> TRUE])
    /\ ui' = [ui EXCEPT !.day = 3 - @, !.loading = TRUE]

Tick ==
    /\ On("dashboard")
    /\ Post("dashboard", [day |-> ui.day, wait |-> FALSE])
    /\ UNCHANGED ui

loadDashboard(i) ==
    /\ Ends(i, "dashboard")
    /\ LET a == net[i].arg
           s == IF a.wait THEN [ui EXCEPT !.loading = FALSE] ELSE ui
       IN \/ ui' = [s EXCEPT !.shown = a.day]
          \/ ui' = IF a.wait THEN [s EXCEPT !.shown = 0] ELSE s

editShifts ==
    /\ On("shifts") /\ ~ui.loading /\ ~ui.saving
    /\ ui' = [ui EXCEPT !.typed = TRUE]
    /\ UNCHANGED net

loadShifts(i) ==
    /\ On("shifts") /\ Ends(i, "load")
    /\ \/ ui' = [ui EXCEPT !.loading = FALSE, !.typed = FALSE]
       \/ ui' = [ui EXCEPT !.loading = FALSE]

handleSave ==
    /\ On("shifts") /\ ~ui.loading /\ ~ui.saving
    /\ Post("save", None)
    /\ ui' = [ui EXCEPT !.saving = TRUE]

Saved(i) ==
    /\ On("shifts") /\ Ends(i, "save")
    /\ \E b \in {ui.typed, FALSE} : ui' = [ui EXCEPT !.saving = FALSE, !.typed = b]

(* The target can be typed and sent at any time, any number of times.      *)
editReja ==
    /\ On("reja")
    /\ ui' = [ui EXCEPT !.typed = TRUE]
    /\ UNCHANGED net

updateReja == On("reja") /\ Post("save", None) /\ UNCHANGED ui

getReja(i) ==
    /\ On("reja")
    /\ Ends(i, "load") \/ Ends(i, "save")
    /\ \E b \in {ui.typed, FALSE} : ui' = [ui EXCEPT !.typed = b]

Next ==
    \/ downloadPlanExport \/ uploadPlanImport
    \/ ChooseDates \/ ChooseLines \/ Refresh \/ ClearNames \/ exportTableToExcel
    \/ \E x \in Item : toggleName(x)
    \/ setPlanDate \/ Tick \/ editShifts \/ handleSave \/ editReja \/ updateReja
    \/ \E i \in DOMAIN net :
          \/ handleExport(i) \/ handleImport(i) \/ loadReport(i) \/ Exported(i)
          \/ loadDashboard(i) \/ loadShifts(i) \/ Saved(i) \/ getReja(i)

SpinnersEnd ==
    /\ ui.loading => \/ OnTheWay("load")
                     \/ \E i \in DOMAIN net : net[i].op = "dashboard" /\ net[i].arg.wait
    /\ ui.saving => OnTheWay("save")
    /\ ui.exporting => OnTheWay("export")
    /\ ui.importing => OnTheWay("import") \/ ui.thrown
    /\ ui.tableExporting => OnTheWay("excel")

(* The target of a line may be on the way any number of times.             *)
OneCallPerButton ==
    /\ On("shifts") => AtMostOne({"save"})
    /\ AtMostOne({"import"}) /\ AtMostOne({"export"})

(* The hours an operator types are not replaced by those still on their    *)
(* way from the server.                                                    *)
InputKept == On("shifts") /\ ui.typed => ~OnTheWay("load")
=============================================================================
