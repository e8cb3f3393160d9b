--------------------------- MODULE WriteoffIdPage ---------------------------
(***************************************************************************)
(* Editing a write-off document (ui/src/pages/writeoff_id.tsx, with        *)
(* writeoff_shared.tsx): rows name a serial on a product line and a        *)
(* component of the line's catalogue on an auxiliary line.  Catalogues are *)
(* loaded once per line, as rows come to need them.                        *)
(***************************************************************************)
EXTENDS Backend, SequencesExt

CONSTANTS Line, AuxLine, None     \* the lines of Line \ AuxLine are product lines

VARIABLE ui

Key == {1, 2}

(* component: the line from whose catalogue it was chosen.                 *)
Row == [line: Line \cup {None}, component: Line \cup {None}, serial: BOOLEAN]

emptyWriteoffRow == [line |-> None, component |-> None, serial |-> FALSE]
EmptyRows(ks)    == [k \in ks |-> emptyWriteoffRow]

(* What a saved document may hold.                                         *)
documentItemToRow(r) ==
    /\ r \in Row /\ r.line # None
    /\ IF r.line \in AuxLine THEN r.component = r.line /\ ~r.serial
                             ELSE r.component = None /\ r.serial

(* thrown: a history, whether the request of the import ever threw.        *)
Fresh == [status |-> "none", rows |-> EmptyRows({1}), lines |-> {}, catalog |-> {},
          loadedLines |-> {}, saving |-> FALSE, submitting |-> FALSE, importing |-> FALSE,
          errors |-> FALSE, thrown |-> FALSE]

Statuses == {"none", "draft", "pending", "approved", "rejected"}

TypeOK ==
    /\ ui.status \in Statuses
    /\ DOMAIN ui.rows \subseteq Key /\ DOMAIN ui.rows # {}
    /\ \A k \in DOMAIN ui.rows : ui.rows[k] \in Row
    /\ ui.lines \subseteq Line /\ ui.catalog \subseteq AuxLine /\ ui.loadedLines \subseteq AuxLine
    /\ {ui.saving, ui.submitting, ui.importing, ui.errors, ui.thrown} \subseteq BOOLEAN

editable == ui.status \in {"draft", "rejected"}

Mount == ui' = Fresh /\ net' = <<Call("lines", None), Call("document", None)>>

LinesLoaded(i) ==
    /\ Ends(i, "lines")
    /\ \E ls \in {ui.lines, Line} : ui' = [ui EXCEPT !.lines = ls]

CatalogCalls(ls) == SetToSeq({Call("catalog", l) : l \in ls})

(* Each line is asked for once; the mark is set before the answer.         *)
loadCatalog(ls) == ls \ ui.loadedLines

CatalogLoaded(i) ==
    /\ Ends(i, "catalog")
    /\ \/ ui' = [ui EXCEPT !.loadedLines = @ \ {net[i].arg}]
       \/ ui' = [ui EXCEPT !.catalog = @ \cup {net[i].arg}]

AuxLines(rows) == {rows[k].line : k \in DOMAIN rows} \cap AuxLine

(* The document replaces the rows, what was typed meanwhile included, and  *)
(* the catalogues of its lines are asked for.                              *)
DocumentRead(i, status, saved) ==
    LET aux == loadCatalog(AuxLines(saved))
    IN /\ Answered(i, "document", CatalogCalls(aux))
       /\ ui' = [ui EXCEPT !.status = status, !.loadedLines = @ \cup aux,
                           !.rows = IF DOMAIN saved = {} THEN EmptyRows({1}) ELSE saved]

(* An error goes back to the list of documents.                            *)
loadDocument(i) ==
    \/ Ends(i, "document") /\ UNCHANGED ui
    \/ \E status \in Statuses \ {"none"}, keys \in SUBSET Key :
       \E saved \in [keys -> {r \in Row : documentItemToRow(r)}] : DocumentRead(i, status, saved)

(* updateRow with a new line empties what belonged to the old one.         *)
ChooseLine(k, l) ==
    /\ editable /\ k \in DOMAIN ui.rows /\ l \in ui.lines \cup {None}
    /\ l # ui.rows[k].line
    /\ LET aux == loadCatalog({l} \cap AuxLine)
       IN /\ Posts(CatalogCalls(aux))
          /\ ui' = [ui EXCEPT !.loadedLines = @ \cup aux,
                              !.rows[k] = [emptyWriteoffRow EXCEPT !.line = l]]

ChooseComponent(k) ==
    /\ editable /\ k \in DOMAIN ui.rows
    /\ ui.rows[k].line \in ui.catalog
    /\ ui' = [ui EXCEPT !.rows[k].component = ui.rows[k].line]
    /\ UNCHANGED net

TypeSerial(k) ==
    /\ editable /\ k \in DOMAIN ui.rows
    /\ ui.rows[k].line \in Line \ AuxLine
    /\ \E s \in BOOLEAN : ui' = [ui EXCEPT !.rows[k].serial = s]
    /\ UNCHANGED net

addRow(k) ==
    /\ editable /\ k \in Key \ DOMAIN ui.rows
    /\ ui' = [ui EXCEPT !.rows = [r \in {k} \cup DOMAIN @ |-> IF r = k THEN emptyWriteoffRow ELSE @[r]]]
    /\ UNCHANGED net

removeRow(k) ==
    /\ editable /\ k \in DOMAIN ui.rows
    /\ ui' = [ui EXCEPT !.rows = IF DOMAIN @ = {k} THEN EmptyRows({k})
                                 ELSE Restrict(@, DOMAIN @ \ {k})]
    /\ UNCHANGED net

buildSavePayload == {k \in DOMAIN ui.rows : ui.rows[k].line # None}

(* Two buttons post the same request, each with a flag of its own: the     *)
(* call says which of them posted it.                                      *)
saveRows ==
    /\ editable /\ ~ui.saving /\ buildSavePayload # {}
    /\ Post("save", "saveRows")
    /\ ui' = [ui EXCEPT !.saving = TRUE]

Saved(i) ==
    /\ Ends(i, "save") \/ Answered(i, "save", <<Call("document", None)>>)
    /\ net[i].arg = "saveRows"
    /\ ui' = [ui EXCEPT !.saving = FALSE]

(* Submitting saves first and asks for the approvals when that succeeded.  *)
submitDocument ==
    /\ editable /\ ~ui.submitting /\ buildSavePayload # {}
    /\ Post("save", "submitDocument")
    /\ ui' = [ui EXCEPT !.submitting = TRUE]

SubmitSaved(i) ==
    /\ net[i].arg = "submitDocument"
    /\ \/ Ends(i, "save") /\ ui' = [ui EXCEPT !.submitting = FALSE]
       \/ Answered(i, "save", <<Call("submit", None)>>) /\ UNCHANGED ui

Submitted(i) ==
    /\ Ends(i, "submit") \/ Answered(i, "submit", <<Call("document", None)>>)
    /\ ui' = [ui EXCEPT !.submitting = FALSE]

(* Nothing keeps this button from a second click; once the document is     *)
(* deleted the page goes to the list.                                      *)
deleteDocument == editable /\ Post("delete", None) /\ UNCHANGED ui
DocumentDeleted(i) == Ends(i, "delete") /\ UNCHANGED ui

onDrop ==
    /\ editable /\ ~ui.importing
    /\ Post("import", None)
    /\ ui' = [ui EXCEPT !.importing = TRUE]

(* uploadWriteoffImport is no Backend_Request: when the connection fails   *)
(* it throws, and nothing catches that: "importing" stays.                 *)
uploadWriteoffImport(i) ==
    \/ Ends(i, "import") /\ ui' = [ui EXCEPT !.thrown = TRUE]
    \/ /\ Ends(i, "import")
       /\ \E e \in {ui.errors, TRUE} : ui' = [ui EXCEPT !.importing = FALSE, !.errors = e]
    \/ /\ Answered(i, "import", <<Call("document", None)>>)
       /\ ui' = [ui EXCEPT !.importing = FALSE]

CloseErrors ==
    /\ ui.errors
    /\ ui' = [ui EXCEPT !.errors = FALSE]
    /\ UNCHANGED net

Edits ==
    \/ \E k \in Key : \/ ChooseComponent(k) \/ TypeSerial(k) \/ addRow(k) \/ removeRow(k)
                      \/ \E l \in Line \cup {None} : ChooseLine(k, l)
    \/ saveRows \/ submitDocument \/ deleteDocument \/ onDrop

Next ==
    \/ ~ui.errors /\ Edits
    \/ CloseErrors
    \/ \E i \in DOMAIN net : \/ LinesLoaded(i) \/ CatalogLoaded(i) \/ loadDocument(i)
                             \/ Saved(i) \/ SubmitSaved(i) \/ Submitted(i)
                             \/ DocumentDeleted(i) \/ uploadWriteoffImport(i)

SpinnersEnd ==
    /\ ui.saving => Waiting("save", "saveRows")
    /\ ui.submitting => Waiting("save", "submitDocument") \/ OnTheWay("submit")
    /\ ui.importing => OnTheWay("import") \/ ui.thrown

(* Each of the three buttons with a flag; together they may well have two  *)
(* saves of the rows on the way, and a deletion any number.                *)
OneCallPerButton ==
    /\ \A i, j \in DOMAIN net : net[i].op = "save" /\ net[i] = net[j] => i = j
    /\ \A i \in DOMAIN net : net[i].op = "save" /\ net[i].arg = "submitDocument" => ~OnTheWay("submit")
    /\ AtMostOne({"submit"}) /\ AtMostOne({"import"})

(* A line whose catalogue could not be loaded is asked for again when a    *)
(* row next needs it: the mark stands for a catalogue that is there or on  *)
(* its way.                                                                *)
CatalogRetried ==
    \A l \in ui.loadedLines : l \in ui.catalog \/ Waiting("catalog", l)

(* A row never carries a component or a serial of the line it had before.  *)
RowOfItsLine ==
    \A k \in DOMAIN ui.rows :
       LET r == ui.rows[k]
       IN (r.component # None => r.component = r.line) /\ (r.serial => r.line \in Line \ AuxLine)
=============================================================================
