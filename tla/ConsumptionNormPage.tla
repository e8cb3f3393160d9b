------------------------- MODULE ConsumptionNormPage -------------------------
(***************************************************************************)
(* The consumption norm of a model: the components a product takes, as a   *)
(* tree written down as rows with levels                                   *)
(* (ui/src/pages/consumption_norm_id.tsx).  Four parts of the page keep    *)
(* state of their own: the tree that is shown, the tree in which the       *)
(* parent of a new row is picked, the rows that are added, changed or      *)
(* deleted, and the Excel files.  All ask for the whole page again when    *)
(* they have changed something.                                            *)
(***************************************************************************)
EXTENDS Backend, SequencesExt

CONSTANTS None, Item, Line,
          MaxItems, MaxLevel    \* bounds on the rows of a tree and on their levels

VARIABLE ui

(***************************************************************************)
(* A tree as the levels of its rows, parents first                         *)
(***************************************************************************)
Trees == UNION {[1 .. n -> 0 .. MaxLevel] : n \in 0 .. MaxItems}

rowHasChildren(rows, index) == index < Len(rows) /\ rows[index + 1] > rows[index]

collectParentIndexes(rows) == {k \in DOMAIN rows : rowHasChildren(rows, k)}

(* Mutant: every earlier row of a lower level counts as a parent.          *)
rowIsVisibleAnyEarlier(rows, index, collapsed) ==
    \A p \in 1 .. index - 1 : rows[p] < rows[index] => p \notin collapsed

(* From the row upwards: each next row of a lower level is its parent.     *)
rowIsVisible(rows, index, collapsed) ==
    LET Up(s, p) == IF rows[p] >= s.level THEN s
                    ELSE [level |-> rows[p], visible |-> s.visible /\ p \notin collapsed]
    IN FoldLeft(Up, [level |-> rows[index], visible |-> TRUE],
                [k \in 1 .. index - 1 |-> index - k]).visible

countDescendants(rows, index) ==
    Cardinality({c \in index + 1 .. Len(rows) : \A d \in index + 1 .. c : rows[d] > rows[index]})

(***************************************************************************)
(* The parts of the page                                                   *)
(***************************************************************************)
FreshTree   == [which |-> "tree", loading |-> TRUE, items |-> <<>>, matching |-> 1 .. MaxItems,
                groupingEnabled |-> TRUE, collapsedRows |-> {}]
FreshPicker == [which |-> "picker", items |-> <<>>, open |-> FALSE, collapsed |-> {},
                addParentId |-> 0]
FreshRows   == [which |-> "rows", lines |-> FALSE, items |-> <<>>, component |-> FALSE,
                quantity |-> FALSE, adding |-> FALSE, savingLineItemId |-> None,
                deletingItem |-> None, deleting |-> FALSE]
FreshFiles  == [which |-> "files", some |-> FALSE, exporting |-> FALSE, uploading |-> FALSE,
                selectedFile |-> FALSE, conflictDialogOpen |-> FALSE]

On(p) == ui.which = p

NormItem == [consume: Line \cup {None}, receive: Line \cup {None}]
Norms    == UNION {[ids -> NormItem] : ids \in SUBSET Item}

TypeOK ==
    \/ /\ On("tree") /\ ui.items \in Trees /\ ui.matching \subseteq 1 .. MaxItems
       /\ ui.collapsedRows \subseteq 1 .. MaxItems
       /\ {ui.loading, ui.groupingEnabled} \subseteq BOOLEAN
    \/ /\ On("picker") /\ ui.items \in Trees /\ ui.open \in BOOLEAN
       /\ ui.collapsed \subseteq 1 .. MaxItems /\ ui.addParentId \in 0 .. MaxItems
    \/ /\ On("rows") /\ ui.items \in Norms
       /\ ui.savingLineItemId \in Item \cup {None} /\ ui.deletingItem \in Item \cup {None}
       /\ {ui.lines, ui.component, ui.quantity, ui.adding, ui.deleting} \subseteq BOOLEAN
    \/ /\ On("files")
       /\ {ui.some, ui.exporting, ui.uploading, ui.selectedFile, ui.conflictDialogOpen}
             \subseteq BOOLEAN

loadData == <<Call("load", None)>>

MountTree   == ui' = FreshTree /\ net' = loadData
MountPicker == ui' = FreshPicker /\ net' = loadData
MountRows   == ui' = FreshRows /\ net' = loadData
MountFiles  == ui' = FreshFiles /\ net' = loadData

(***************************************************************************)
(* The tree that is shown.  What is collapsed are places in it, of the     *)
(* rows that pass the search.                                              *)
(***************************************************************************)
displayRows ==
    LET places == SelectSeq([k \in DOMAIN ui.items |-> k], LAMBDA k : k \in ui.matching)
    IN [k \in DOMAIN places |-> ui.items[places[k]]]

visibleRows ==
    {k \in DOMAIN displayRows :
        ui.groupingEnabled => rowIsVisible(displayRows, k, ui.collapsedRows)}

TreeLoaded(i) ==
    /\ On("tree") /\ Ends(i, "load")
    /\ \/ ui' = [ui EXCEPT !.loading = FALSE]
       \/ \E items \in Trees :
             ui' = [ui EXCEPT !.loading = FALSE, !.items = items,
                              !.collapsedRows = collectParentIndexes(items)]

Search == \E m \in SUBSET (1 .. MaxItems) : ui' = [ui EXCEPT !.matching = m]

toggleGrouping ==
    /\ displayRows # <<>>
    /\ ui' = [ui EXCEPT !.groupingEnabled = ~@,
                        !.collapsedRows = IF ui.groupingEnabled THEN {}
                                          ELSE collectParentIndexes(displayRows)]

collapseAll == ui' = [ui EXCEPT !.collapsedRows = collectParentIndexes(displayRows)]
expandAll   == ui' = [ui EXCEPT !.collapsedRows = {}]

(* The rows with an arrow.                                                 *)
Arrows == IF ui.groupingEnabled THEN visibleRows \cap collectParentIndexes(displayRows) ELSE {}

toggleRow == \E k \in Arrows : ui' = [ui EXCEPT !.collapsedRows = SymDiff(@, {k})]

(* A row was added below the k-th one of all rows, which is opened -- and  *)
(* closed again when the new rows come.                                    *)
AddedBelow ==
    /\ \E k \in 0 .. Len(ui.items) :
          ui' = [ui EXCEPT !.loading = TRUE, !.collapsedRows = @ \ {k}]
    /\ Posts(loadData)

TreePanel == Search \/ toggleGrouping \/ (ui.groupingEnabled /\ (collapseAll \/ expandAll)) \/ toggleRow

(***************************************************************************)
(* The parent of a new row; a row's place stands for its number            *)
(***************************************************************************)
handleParentPickerOpenChange ==
    ui' = IF ui.open THEN [ui EXCEPT !.open = FALSE]
          ELSE [ui EXCEPT !.open = TRUE, !.collapsed = collectParentIndexes(ui.items)]

visibleParentPickerRows == {k \in DOMAIN ui.items : rowIsVisible(ui.items, k, ui.collapsed)}

toggleParentPickerRow ==
    /\ ui.open
    /\ \E k \in visibleParentPickerRows \cap collectParentIndexes(ui.items) :
          ui' = [ui EXCEPT !.collapsed = SymDiff(@, {k})]

PickParent ==
    /\ ui.open
    /\ \E k \in {0} \cup visibleParentPickerRows :
          ui' = [ui EXCEPT !.addParentId = k, !.open = FALSE]

(* A parent that was picked stays picked, even if its row is gone.         *)
PickerLoaded(i) ==
    /\ On("picker") /\ Ends(i, "load")
    /\ \E items \in Trees \cup {ui.items} : ui' = [ui EXCEPT !.items = items]

RowAdded == ui' = [ui EXCEPT !.addParentId = 0] /\ Posts(loadData)

ParentPicker ==
    (handleParentPickerOpenChange \/ toggleParentPickerRow \/ PickParent) /\ UNCHANGED net

(***************************************************************************)
(* Adding, changing and deleting rows                                      *)
(***************************************************************************)
RowsLoaded(i) ==
    /\ On("rows") /\ Ends(i, "load")
    /\ \E items \in Norms \cup {ui.items}, lines \in {ui.lines, TRUE} :
          ui' = [ui EXCEPT !.items = items, !.lines = lines]

ComponentPicker == ui' = [ui EXCEPT !.component = TRUE] /\ UNCHANGED net
TypeQuantity    == ui' = [ui EXCEPT !.quantity = ~@] /\ UNCHANGED net

addItem ==
    /\ ~ui.adding /\ ui.component /\ ui.quantity
    /\ Post("add", None) /\ ui' = [ui EXCEPT !.adding = TRUE]

(* The form is emptied, with what was chosen for the next row meanwhile.   *)
Added(i) ==
    \/ Ends(i, "add") /\ ui' = [ui EXCEPT !.adding = FALSE]
    \/ /\ Answered(i, "add", loadData)
       /\ ui' = [ui EXCEPT !.adding = FALSE, !.component = FALSE, !.quantity = FALSE]

(* Both lines are sent, the other one as the page shows it.                *)
updateItemLines(item, sent) ==
    /\ ui.savingLineItemId # item /\ sent # ui.items[item]
    /\ Post("lines", [item |-> item, sent |-> sent])
    /\ ui' = [ui EXCEPT !.savingLineItemId = item]

LineSelects ==
    /\ ui.lines
    /\ \E item \in DOMAIN ui.items, l \in Line \cup {None} :
          \E sent \in {[ui.items[item] EXCEPT !.consume = l], [ui.items[item] EXCEPT !.receive = l]} :
             updateItemLines(item, sent)

LinesUpdated(i) ==
    /\ Ends(i, "lines")
    /\ LET s    == [ui EXCEPT !.savingLineItemId = None]
           item == net[i].arg.item
       IN ui' \in {s, IF item \in DOMAIN ui.items THEN [s EXCEPT !.items[item] = net[i].arg.sent]
                      ELSE s}

setDeletingItem ==
    \E item \in DOMAIN ui.items : ui' = [ui EXCEPT !.deletingItem = item] /\ UNCHANGED net

confirmDeleteItem ==
    /\ ui.deletingItem # None /\ ~ui.deleting
    /\ Post("delete", ui.deletingItem) /\ ui' = [ui EXCEPT !.deleting = TRUE]

(* The dialog that is open by now is closed, be it about another row.      *)
Deleted(i) ==
    \/ Ends(i, "delete") /\ ui' = [ui EXCEPT !.deleting = FALSE]
    \/ /\ Answered(i, "delete", loadData)
       /\ ui' = [ui EXCEPT !.deleting = FALSE, !.deletingItem = None]

DeleteDialog ==
    \/ confirmDeleteItem
    \/ ui.deletingItem # None /\ ui' = [ui EXCEPT !.deletingItem = None] /\ UNCHANGED net

AddRow == ComponentPicker \/ TypeQuantity \/ addItem

(***************************************************************************)
(* The Excel files                                                         *)
(***************************************************************************)
FilesLoaded(i) ==
    /\ On("files") /\ Ends(i, "load")
    /\ \E some \in BOOLEAN : ui' = [ui EXCEPT !.some = some]

onDrop == ui' = [ui EXCEPT !.selectedFile = TRUE] /\ UNCHANGED net

uploadXlsx ==
    /\ ui.selectedFile /\ ~ui.uploading
    /\ Post("import", None) /\ ui' = [ui EXCEPT !.uploading = TRUE]

Imported(i) ==
    \/ /\ Ends(i, "import")
       /\ \E conflicts \in {ui.conflictDialogOpen, TRUE} :
             ui' = [ui EXCEPT !.uploading = FALSE, !.conflictDialogOpen = conflicts]
    \/ /\ Answered(i, "import", loadData)
       /\ \E conflicts \in {ui.conflictDialogOpen, TRUE} :
             ui' = [ui EXCEPT !.uploading = FALSE, !.conflictDialogOpen = conflicts,
                              !.selectedFile = FALSE]

ConflictDialog ==
    /\ ui.conflictDialogOpen
    /\ ui' = [ui EXCEPT !.conflictDialogOpen = FALSE] /\ UNCHANGED net

exportNorm ==
    /\ ~ui.exporting /\ ui.some
    /\ Post("excel", "rows") /\ ui' = [ui EXCEPT !.exporting = TRUE]

downloadTemplate == Post("excel", "none") /\ UNCHANGED ui

buildConsumptionNormWorkbook(i) ==
    /\ i \in DOMAIN net /\ Ends(i, "excel")
    /\ ui' = [ui EXCEPT !.exporting = @ /\ net[i].arg # "rows"]

Toolbar == onDrop \/ uploadXlsx \/ exportNorm \/ downloadTemplate

Next ==
    \/ On("tree") /\ ((TreePanel /\ UNCHANGED net) \/ AddedBelow)
    \/ On("picker") /\ (ParentPicker \/ (~ui.open /\ RowAdded))
    \/ On("rows") /\ ui.deletingItem = None /\ (AddRow \/ LineSelects \/ setDeletingItem)
    \/ On("rows") /\ DeleteDialog
    \/ On("files") /\ (IF ui.conflictDialogOpen THEN ConflictDialog ELSE Toolbar)
    \/ \E i \in DOMAIN net :
          \/ TreeLoaded(i) \/ PickerLoaded(i) \/ RowsLoaded(i) \/ FilesLoaded(i) \/ Added(i)
          \/ LinesUpdated(i) \/ Deleted(i) \/ Imported(i) \/ buildConsumptionNormWorkbook(i)

SpinnersEnd ==
    /\ On("tree") /\ ui.loading => OnTheWay("load")
    /\ On("rows") =>
          /\ ui.adding => OnTheWay("add")
          /\ ui.deleting => OnTheWay("delete")
          /\ ui.savingLineItemId # None =>
                \E i \in DOMAIN net : net[i].op = "lines" /\ net[i].arg.item = ui.savingLineItemId
    /\ On("files") =>
          /\ ui.uploading => OnTheWay("import")
          /\ ui.exporting => Waiting("excel", "rows")

(* Adding, deleting and importing; the saves of the lines share one        *)
(* marker, and a line may be on the way twice.                             *)
OneCallPerButton ==
    AtMostOne({"add"}) /\ AtMostOne({"delete"}) /\ AtMostOne({"import"})

(* A row is above another when all the rows after it, up to the other, are *)
(* of a higher level.                                                      *)
Above(rows, p, k) == p < k /\ \A d \in p + 1 .. k : rows[d] > rows[p]

TreeShown(rows, shown, collapsed, arrows) ==
    \A k \in DOMAIN rows :
       LET closed == {p \in collapsed \cap DOMAIN rows : Above(rows, p, k)}
       IN /\ k \in shown <=> closed = {}
          /\ k \notin shown => \E p \in closed : p \in shown \cap arrows
          /\ countDescendants(rows, k) = Cardinality({d \in DOMAIN rows : Above(rows, k, d)})

(* A row of the tree is hidden only below a closed row, never without one  *)
(* that is shown and has the arrow that opens it, whatever was collapsed   *)
(* before the search or the rows changed; and the warning before a         *)
(* deletion counts the rows below.                                         *)
RowsReachable ==
    /\ On("tree") => TreeShown(displayRows, visibleRows,
                               IF ui.groupingEnabled THEN ui.collapsedRows ELSE {}, Arrows)
    /\ On("picker") => TreeShown(ui.items, visibleParentPickerRows, ui.collapsed,
                                 collectParentIndexes(ui.items))
=============================================================================
