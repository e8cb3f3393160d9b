--------------------------- MODULE QadoqlashPage ----------------------------
(***************************************************************************)
(* The packing terminal (ui/src/pages/qadoqlash.tsx).  The operator scans  *)
(* the accessory, the two doors and the product of one refrigerator; the   *)
(* last Enter sends the four.  Product stands for the refrigerator a       *)
(* scanned code belongs to: the operator scans what is in front of him and *)
(* takes the next one when the terminal answers.                           *)
(***************************************************************************)
EXTENDS Backend

CONSTANTS Product, Printer, None

VARIABLES ui, hand     \* hand: the refrigerator in front of the operator

Field == {"acc", "freeze", "ref", "serial"}
Empty == [f \in Field |-> None]

Fresh == [scan |-> Empty, loading |-> FALSE, error |-> FALSE, reprintOnce |-> FALSE,
          lastScan |-> None, sessions |-> {}, printers |-> {}, printerId |-> None,
          reprinting |-> None]

TypeOK ==
    /\ hand \in Product
    /\ ui \in [scan: [Field -> Product \cup {None}], loading: BOOLEAN, error: BOOLEAN,
               reprintOnce: BOOLEAN, lastScan: Product \cup {None}, sessions: SUBSET Product,
               printers: SUBSET Printer, printerId: Printer \cup {None},
               reprinting: Product \cup {None}]

Mount ==
    /\ ui' = Fresh
    /\ net' = <<Call("printers", None), Call("sessions", None)>>
    /\ hand' \in Product

loadPrinters(i) ==
    /\ Answered(i, "printers", <<>>)
    /\ \/ UNCHANGED ui
       \/ \E list \in SUBSET Printer : \E first \in IF list = {} THEN {None} ELSE list :
             ui' = [ui EXCEPT !.printers = list, !.printerId = IF @ \in list THEN @ ELSE first]
    /\ UNCHANGED hand

loadSessions(i) ==
    /\ Answered(i, "sessions", <<>>)
    /\ \/ UNCHANGED ui
       \/ \E rows \in SUBSET Product, scan \in {ui.lastScan} \cup Product :
             ui' = [ui EXCEPT !.sessions = rows, !.lastScan = scan]
    /\ UNCHANGED hand

(* The inputs on screen: only the product's with the reprint box ticked,   *)
(* and none while a request runs.                                          *)
Inputs == IF ui.loading THEN {} ELSE IF ui.reprintOnce THEN {"serial"} ELSE Field

Scan(f) ==
    /\ f \in Inputs
    /\ ui' = [ui EXCEPT !.scan[f] = hand, !.error = FALSE]
    /\ UNCHANGED <<net, hand>>

ToggleReprint ==
    /\ ~ui.loading
    /\ ui' = [ui EXCEPT !.reprintOnce = ~@,
                        !.scan = IF ui.reprintOnce THEN @
                                 ELSE [Empty EXCEPT !["serial"] = ui.scan["serial"]]]
    /\ UNCHANGED <<net, hand>>

(* Enter in the product's input.                                           *)
Ready ==
    /\ ~ui.loading /\ ui.scan["serial"] # None
    /\ ui.reprintOnce \/ \A f \in Field : ui.scan[f] # None

complete ==
    /\ Ready
    /\ Posts(<<Call("complete", [scan |-> ui.scan, reprint |-> ui.reprintOnce])>>)
    /\ ui' = [ui EXCEPT !.loading = TRUE]
    /\ UNCHANGED hand

(* Done or refused, the inputs are cleared and the box unticked; the       *)
(* operator tries again or takes the next refrigerator.                    *)
Completed(i) ==
    LET sent == net[i].arg.scan["serial"]
        done == [ui EXCEPT !.loading = FALSE, !.reprintOnce = FALSE, !.scan = Empty]
    IN  /\ Answered(i, "complete", <<>>)
        /\ \/ ui' = [done EXCEPT !.error = TRUE]
           \/ ui' = [done EXCEPT !.lastScan = sent, !.sessions = @ \cup {sent}]
        /\ hand' \in Product

SelectPrinter ==
    /\ \E p \in ui.printers \cup {None} : ui' = [ui EXCEPT !.printerId = p]
    /\ UNCHANGED <<net, hand>>

RowOffered(p) ==
    p \in ui.sessions /\ ui.printerId # None /\ ui.reprinting # p /\ ~ui.loading

reprintSession(p) ==
    /\ RowOffered(p)
    /\ Posts(<<Call("reprint", p)>>)
    /\ ui' = [ui EXCEPT !.reprinting = p]
    /\ UNCHANGED hand

Reprinted(i) ==
    /\ Answered(i, "reprint", <<>>)
    /\ ui' = [ui EXCEPT !.reprinting = None]
    /\ UNCHANGED hand

Next ==
    \/ \E f \in Field : Scan(f)
    \/ ToggleReprint \/ complete \/ SelectPrinter
    \/ \E p \in Product : reprintSession(p)
    \/ \E i \in DOMAIN net :
          loadPrinters(i) \/ loadSessions(i) \/ Completed(i) \/ Reprinted(i)

SpinnersEnd ==
    /\ ui.loading <=> OnTheWay("complete")
    /\ ui.reprinting # None => Waiting("reprint", ui.reprinting)

PrinterListed == ui.printerId = None \/ ui.printerId \in ui.printers

(* The four codes a completion sends belong to one refrigerator: nothing   *)
(* scanned for one is left over for the next, whether it was packed,       *)
(* refused or only reprinted, and never two completions at a time.         *)
PartsOfOneProduct ==
    /\ AtMostOne({"complete"})
    /\ \A i \in DOMAIN net : net[i].op = "complete" =>
          \A f, g \in Field : LET s == net[i].arg.scan IN
             s[f] # None /\ s[g] # None => s[f] = s[g]
=============================================================================
