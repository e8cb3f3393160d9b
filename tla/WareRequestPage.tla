-------------------------- MODULE WareRequestPage ---------------------------
(***************************************************************************)
(* Ordering components from the warehouse (ui/src/pages/ware_request.tsx): *)
(* rows are built from the norm of a model or added by hand, each for a    *)
(* line, and confirmed as a delivery note.  A row shows how much its line  *)
(* has, which is asked from the server; rows can be edited, rebuilt or     *)
(* removed while a question about them is on the way.  Fields that are     *)
(* read only when a button is pressed are inputs of that action.           *)
(***************************************************************************)
EXTENDS Backend, Functions, TLC

CONSTANTS Line, Component, None, MaxRows   \* MaxRows: local ids made in a session

VARIABLE ui

(* A row; "of" is the line whose balance it shows.                         *)
Row == [component: Component, line: Line \cup {None}, of: Line \cup {None}, needed: 0 .. 1]

Dialogs == {"none", "unselected", "invalid", "shortage"}

Fresh == [lines |-> {}, rows |-> <<>>, ids |-> 0, building |-> FALSE, adding |-> FALSE,
          confirming |-> FALSE, dialog |-> "none"]

TypeOK ==
    /\ ui.lines \subseteq Line /\ ui.ids \in 0 .. MaxRows
    /\ DOMAIN ui.rows \subseteq 1 .. ui.ids /\ \A r \in DOMAIN ui.rows : ui.rows[r] \in Row
    /\ {ui.building, ui.adding, ui.confirming} \subseteq BOOLEAN
    /\ ui.dialog \in Dialogs

Mount == ui' = Fresh /\ net' = <<Call("meta", None)>>

loadMeta(i) ==
    /\ Ends(i, "meta")
    /\ \E ls \in {ui.lines} \cup SUBSET Line : ui' = [ui EXCEPT !.lines = ls]

buildRequest ==
    /\ ~ui.building
    /\ Post("build", None)
    /\ ui' = [ui EXCEPT !.building = TRUE]

(* The list replaces the rows, the added ones included; localId is new.    *)
Built(i) ==
    /\ Ends(i, "build")
    /\ \/ ui' = [ui EXCEPT !.building = FALSE]
       \/ \E k \in 0 .. MaxRows - ui.ids :
          \E rows \in [ui.ids + 1 .. ui.ids + k -> {r \in Row : r.of = r.line}] :
             ui' = [ui EXCEPT !.building = FALSE, !.rows = rows, !.ids = @ + k]

EditRow(r) ==
    /\ r \in DOMAIN ui.rows
    /\ \E q \in 0 .. 1 : ui' = [ui EXCEPT !.rows[r].needed = q]
    /\ UNCHANGED net

removeRow(r) ==
    /\ r \in DOMAIN ui.rows
    /\ ui' = [ui EXCEPT !.rows = Restrict(@, DOMAIN @ \ {r})]
    /\ UNCHANGED net

ClearLine(r) ==
    /\ r \in DOMAIN ui.rows
    /\ ui' = [ui EXCEPT !.rows[r].line = None, !.rows[r].of = None]
    /\ UNCHANGED net

updateRowLine(r, l) ==
    /\ r \in DOMAIN ui.rows /\ l \in ui.lines
    /\ Post("linequantity", [row |-> r, line |-> l])
    /\ UNCHANGED ui

(* A failed question counts as a quantity of zero.                         *)
fetchLineQuantity(i) ==
    /\ Ends(i, "linequantity")
    /\ LET q == net[i].arg
       IN ui' = IF q.row \in DOMAIN ui.rows
                THEN [ui EXCEPT !.rows[q.row].line = q.line, !.rows[q.row].of = q.line]
                ELSE ui

Exists(c, l) == \E r \in DOMAIN ui.rows : ui.rows[r].component = c /\ ui.rows[r].line = l

addManualRow(c, l) ==
    /\ ~ui.adding /\ l \in ui.lines /\ ~Exists(c, l) /\ ui.ids < MaxRows
    /\ Post("addquantity", [component |-> c, line |-> l])
    /\ ui' = [ui EXCEPT !.adding = TRUE]

Added(i) ==
    /\ Ends(i, "addquantity") /\ ui.ids < MaxRows
    /\ LET row == [component |-> net[i].arg.component, line |-> net[i].arg.line,
                   of |-> net[i].arg.line, needed |-> 1]
       IN ui' = [ui EXCEPT !.adding = FALSE, !.ids = @ + 1, !.rows = (ui.ids + 1 :> row) @@ @]

Some(P(_)) == \E r \in DOMAIN ui.rows : P(ui.rows[r])
Unselected(row) == row.needed > 0 /\ row.line = None
Invalid(row)    == row.needed = 0

confirmDeliveryNote ==
    /\ ~ui.confirming /\ DOMAIN ui.rows # {}
    /\ \/ Some(Unselected) /\ ui' = [ui EXCEPT !.dialog = "unselected"] /\ UNCHANGED net
       \/ /\ ~Some(Unselected) /\ Some(Invalid)
          /\ ui' = [ui EXCEPT !.dialog = "invalid"] /\ UNCHANGED net
       \/ /\ ~Some(Unselected) /\ ~Some(Invalid)
          /\ Post("confirm", None)
          /\ ui' = [ui EXCEPT !.confirming = TRUE]

resetForm == [ui EXCEPT !.rows = <<>>, !.dialog = "none", !.confirming = FALSE]

Confirmed(i) ==
    \/ /\ Ends(i, "confirm")
       /\ \E d \in {ui.dialog, "invalid", "shortage"} :
             ui' = [ui EXCEPT !.confirming = FALSE, !.dialog = d]
    \/ /\ Answered(i, "confirm", <<Call("meta", None)>>)
       /\ ui' = resetForm

CloseDialog ==
    /\ ui.dialog # "none"
    /\ ui' = [ui EXCEPT !.dialog = "none"]
    /\ UNCHANGED net

Works ==
    \/ buildRequest \/ confirmDeliveryNote
    \/ \E r \in 1 .. MaxRows : \/ EditRow(r) \/ removeRow(r) \/ ClearLine(r)
                               \/ \E l \in Line : updateRowLine(r, l)
    \/ \E c \in Component, l \in Line : addManualRow(c, l)

Next ==
    \/ ui.dialog = "none" /\ Works
    \/ CloseDialog
    \/ \E i \in DOMAIN net : \/ loadMeta(i) \/ Built(i) \/ fetchLineQuantity(i)
                             \/ Added(i) \/ Confirmed(i)

SpinnersEnd ==
    /\ ui.building => OnTheWay("build")
    /\ ui.adding => OnTheWay("addquantity")
    /\ ui.confirming => OnTheWay("confirm")

(* No document is sent twice by a second click.                            *)
OneCallPerButton == AtMostOne({"confirm"})

(* In whatever order the answers come, and whatever was rebuilt meanwhile, *)
(* a row shows the balance of the line it is for.                          *)
LineQuantityOfLine == \A r \in DOMAIN ui.rows : ui.rows[r].of = ui.rows[r].line
=============================================================================
