---------------------------- MODULE StationPages ----------------------------
(***************************************************************************)
(* The terminals of the first assembly (ui/src/pages/yigish.tsx) and of    *)
(* the doors (eshik.tsx): the plan of the shift or of the day as buttons,  *)
(* one print per press (two labels at the doors), and the last prints to   *)
(* repeat; and the page that prints a label of any line again              *)
(* (re_print.tsx), which keeps a state of its own.  "which" is the page.   *)
(***************************************************************************)
EXTENDS Backend

CONSTANTS Model, Printer, Serial, Line, None

VARIABLE ui

Fresh(p) == [which |-> p, status |-> "", open |-> {}, printers |-> {}, printerId |-> None,
             last |-> {}, loading |-> TRUE, printing |-> None, reprinting |-> None]

TerminalTypeOK ==
    ui \in [which: {"yigish", "eshik"}, status: {"", "draft", "locked"}, open: SUBSET Model,
            printers: SUBSET Printer, printerId: Printer \cup {None}, last: SUBSET Serial,
            loading: BOOLEAN, printing: Model \cup {None}, reprinting: Serial \cup {None}]

Reload      == <<Part("plan", None), Part("printers", None), Part("last", None)>>
Mount(p)    == ui' = Fresh(p) /\ net' = Reload
MountYigish == Mount("yigish")
MountEshik  == Mount("eshik")

(* What an answered part of a reload does to the spinner.                  *)
Settled(i, u) == IF net[i].all /\ AllDone(i) THEN [u EXCEPT !.loading = FALSE] ELSE u

(* open stands for the models planned for the shift whose plan and GS      *)
(* codes are not used up.                                                  *)
loadPlan(i) ==
    /\ ui.which = "yigish" /\ Ends(i, "plan")
    /\ \/ ui' = Settled(i, [ui EXCEPT !.open = {}, !.status = ""])
       \/ \E open \in SUBSET Model, status \in {"draft", "locked"} :
             ui' = Settled(i, [ui EXCEPT !.open = open, !.status = status])

(* The models and the day's plan are asked for together: only a failure of *)
(* the former empties the list and leaves the status alone.                *)
loadPlanItems(i) ==
    /\ ui.which = "eshik" /\ Ends(i, "plan")
    /\ \/ ui' = Settled(i, [ui EXCEPT !.open = {}])
       \/ \E open \in SUBSET Model, status \in {"", "draft", "locked"} :
             /\ status # "locked" => open = {}
             /\ ui' = Settled(i, [ui EXCEPT !.open = open, !.status = status])

loadPrinters(i) ==
    /\ Ends(i, "printers")
    /\ \/ ui' = Settled(i, ui)
       \/ \E list \in SUBSET Printer : \E first \in IF list = {} THEN {None} ELSE list :
             ui' = Settled(i, [ui EXCEPT !.printers = list,
                                         !.printerId = IF @ \in list THEN @ ELSE first])

loadLast(i) ==
    /\ Ends(i, "last")
    /\ \E rows \in {ui.last} \cup SUBSET Serial : ui' = Settled(i, [ui EXCEPT !.last = rows])

reloadAll == ~ui.loading /\ Posts(Reload) /\ ui' = [ui EXCEPT !.loading = TRUE]

SelectPrinter ==
    /\ \E p \in ui.printers \cup {None} : ui' = [ui EXCEPT !.printerId = p]
    /\ UNCHANGED net

ButtonOffered(m) ==
    /\ ~ui.loading /\ m \in ui.open /\ ui.printing # m
    /\ ui.printerId # None /\ ui.status = "locked"

printModel(m) ==
    /\ ButtonOffered(m)
    /\ Post("print", m)
    /\ ui' = [ui EXCEPT !.printing = m]

(* Mutant: the error branch returns before the button is released.         *)
PrintedStaysBusy(i) ==
    \/ Ends(i, "print") /\ UNCHANGED ui
    \/ /\ Answered(i, "print", <<Call("plan", None), Call("last", None)>>)
       /\ ui' = [ui EXCEPT !.printing = None]

(* A print of doors that failed after its commit still made sessions, so   *)
(* there the lists are read again whatever the answer.                     *)
Printed(i) ==
    /\ ui' = [ui EXCEPT !.printing = None]
    /\ \/ ui.which = "yigish" /\ Ends(i, "print")
       \/ Answered(i, "print", <<Call("plan", None), Call("last", None)>>)

ReprintOffered(s) == s \in ui.last /\ ui.printerId # None /\ ui.reprinting # s

(* reprintSerial, and reprintSession of the doors.                         *)
reprintSerial(s) ==
    /\ ReprintOffered(s)
    /\ Post("reprint", s)
    /\ ui' = [ui EXCEPT !.reprinting = s]

Reprinted(i) == Ends(i, "reprint") /\ ui' = [ui EXCEPT !.reprinting = None]

TerminalNext ==
    \/ reloadAll \/ SelectPrinter
    \/ \E m \in Model : printModel(m)
    \/ \E s \in Serial : reprintSerial(s)
    \/ \E i \in DOMAIN net : \/ loadPlan(i) \/ loadPlanItems(i) \/ loadPrinters(i)
                             \/ loadLast(i) \/ Printed(i) \/ Reprinted(i)

(***************************************************************************)
(* Printing a label again: a line, a printer of that line, a serial        *)
(* scanned or taken from the line's last records.  Choosing a line asks    *)
(* for its printers and records; nothing tells the answer for the line     *)
(* chosen before from the answer for this one.                             *)
(***************************************************************************)
RePrintFresh(l) == [which |-> "reprint", line |-> l, printers |-> {}, template |-> {},
                    printersLoading |-> TRUE, printerId |-> None, serial |-> None,
                    printing |-> FALSE, reprinting |-> None, last |-> {}, error |-> FALSE]

RePrintTypeOK ==
    ui \in [which: {"reprint"}, line: Line, printers: SUBSET Printer, template: SUBSET Printer,
            printersLoading: BOOLEAN, printerId: Printer \cup {None},
            serial: Serial \cup {None}, printing: BOOLEAN,
            reprinting: Serial \cup {None}, last: SUBSET Serial, error: BOOLEAN]

LoadLine(l) == <<Call("printers", l), Call("last", l)>>
MountRePrint == \E l \in Line : ui' = RePrintFresh(l) /\ net' = LoadLine(l)

isBusy   == ui.printing \/ ui.reprinting # None
canPrint == ui.printerId \in ui.template /\ ~isBusy

ChooseLine(l) ==
    /\ l # ui.line
    /\ Posts(LoadLine(l))
    /\ ui' = [ui EXCEPT !.line = l, !.error = FALSE, !.serial = None, !.last = {},
                        !.printersLoading = TRUE]

(* template: the listed printers that have a label template.               *)
loadLinePrinters(i) ==
    /\ Answered(i, "printers", <<>>)
    /\ \/ ui' = [ui EXCEPT !.printersLoading = FALSE, !.printers = {}, !.template = {},
                           !.printerId = None]
       \/ \E list \in SUBSET Printer : \E t \in SUBSET list :
          \E first \in IF list = {} THEN {None} ELSE list :
             ui' = [ui EXCEPT !.printersLoading = FALSE, !.printers = list, !.template = t,
                              !.printerId = IF @ \in list THEN @ ELSE first]

loadLineLast(i) ==
    /\ Answered(i, "last", <<>>)
    /\ \E rows \in {ui.last} \cup SUBSET Serial : ui' = [ui EXCEPT !.last = rows]

SelectLinePrinter(p) ==
    /\ ~ui.printersLoading /\ p \in ui.printers
    /\ ui' = [ui EXCEPT !.printerId = p]
    /\ UNCHANGED net

TypeSerial(s) ==
    /\ ~isBusy
    /\ ui' = [ui EXCEPT !.serial = s, !.error = FALSE]
    /\ UNCHANGED net

(* reprintSerial from the form, whose Enter key passes by the button.      *)
Submit ==
    /\ ui.serial # None /\ canPrint
    /\ Posts(<<Call("reprint", ui.line)>>)
    /\ ui' = [ui EXCEPT !.printing = TRUE]

RowOffered(s) == s \in ui.last /\ canPrint /\ ui.reprinting # s

ReprintRow(s) ==
    /\ RowOffered(s)
    /\ Posts(<<Call("reprint", ui.line)>>)
    /\ ui' = [ui EXCEPT !.reprinting = s]

RePrinted(i) ==
    \/ /\ Answered(i, "reprint", <<>>)
       /\ ui' = [ui EXCEPT !.printing = FALSE, !.reprinting = None, !.error = TRUE]
    \/ /\ Answered(i, "reprint", <<Call("last", net[i].arg)>>)
       /\ ui' = [ui EXCEPT !.printing = FALSE, !.reprinting = None, !.error = FALSE,
                           !.serial = None]

RePrintNext ==
    \/ \E l \in Line : ChooseLine(l)
    \/ \E p \in Printer : SelectLinePrinter(p)
    \/ \E s \in Serial : TypeSerial(s) \/ ReprintRow(s)
    \/ Submit
    \/ \E i \in DOMAIN net : loadLinePrinters(i) \/ loadLineLast(i) \/ RePrinted(i)

onRePrint == ui.which = "reprint"

Next ==
    \/ ~onRePrint /\ TerminalNext
    \/ onRePrint /\ RePrintNext

TypeOK == IF onRePrint THEN RePrintTypeOK ELSE TerminalTypeOK

(* A spinner that is shown has the call that ends it still on the way.     *)
SpinnersEnd ==
    IF onRePrint
    THEN /\ ui.printersLoading => OnTheWay("printers")
         /\ isBusy => OnTheWay("reprint")
    ELSE /\ (ui.loading <=> BatchOnTheWay)
         /\ ui.printing # None => Waiting("print", ui.printing)
         /\ ui.reprinting # None => Waiting("reprint", ui.reprinting)

(* The selected printer is one the list shows, also after a reload that    *)
(* no longer lists it.                                                     *)
PrinterListed == ui.printerId = None \/ ui.printerId \in ui.printers

(* However the line, the printer and the list change meanwhile, the page   *)
(* never has two reprints on the way, and shows itself busy while it has   *)
(* one: a label is not printed twice by an impatient scan.                 *)
OneReprint == onRePrint => AtMostOne({"reprint"}) /\ (OnTheWay("reprint") <=> isBusy)
=============================================================================
