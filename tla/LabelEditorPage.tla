-------------------------- MODULE LabelEditorPage ---------------------------
(***************************************************************************)
(* The elements of a label template and which of them are selected         *)
(* (ui/src/pages/label-template-editor.tsx).  Elements are grouped to be   *)
(* moved together; an image is uploaded while the editing goes on.  Where  *)
(* an element lies is LabelCanvasPage, what a table holds LabelTablePage.  *)
(***************************************************************************)
EXTENDS Backend, FiniteSets, Functions

CONSTANT MaxElements      \* bound on the elements made in a visit

VARIABLE ui

Id    == 1 .. MaxElements
Group == 1 .. MaxElements + 1
NoGroup == 0
Kind  == {"image", "table", "text"}

Element(k, g) == [kind |-> k, groupId |-> g]

(* elements: by id; made: the ids handed out; table: the size of a table   *)
(* is asked for.                                                           *)
Fresh == [loading |-> TRUE, elements |-> <<>>, made |-> 0, selectedIds |-> {},
          table |-> FALSE, saving |-> FALSE, uploadingImage |-> FALSE]

Ids == DOMAIN ui.elements

TypeOK ==
    /\ {ui.loading, ui.table, ui.saving, ui.uploadingImage} \subseteq BOOLEAN
    /\ ui.made \in 0 .. MaxElements /\ Ids \subseteq 1 .. ui.made
    /\ \A e \in Ids : ui.elements[e] \in [kind: Kind, groupId: Group \cup {NoGroup}]
    /\ ui.selectedIds \subseteq Id

Mount == ui' = Fresh /\ net' = <<Call("get", 0)>>

(* The template is there, or the page goes back to the list.               *)
loadTemplate(i) ==
    /\ Ends(i, "get")
    /\ \/ UNCHANGED ui
       \/ \E n \in 0 .. 2, g \in {NoGroup, 1}, k \in {"image", "text"} :
             /\ n <= MaxElements
             /\ ui' = [ui EXCEPT !.loading = FALSE, !.made = n,
                                 !.elements = [e \in 1 .. n |-> Element(k, g)]]

Ready == ~ui.loading /\ ~ui.table

(***************************************************************************)
(* Groups (ui/src/lib/label-types.ts)                                      *)
(***************************************************************************)
groupOf(elements, ids) == {elements[e].groupId : e \in ids \cap DOMAIN elements} \ {NoGroup}

expandSelectionWithGroups(elements, ids) ==
    ids \cup {e \in DOMAIN elements : elements[e].groupId \in groupOf(elements, ids)}

NewGroup(elements) == CHOOSE g \in Group : \A e \in DOMAIN elements : elements[e].groupId # g

SetGroup(elements, ids, g) ==
    [e \in DOMAIN elements |->
        IF e \in ids THEN Element(elements[e].kind, g) ELSE elements[e]]

groupLabelElements(elements, ids)   == SetGroup(elements, ids, NewGroup(elements))
ungroupLabelElements(elements, ids) == SetGroup(elements, ids, NoGroup)

selectionHasGroup(elements, ids) == groupOf(elements, ids) # {}

(***************************************************************************)
(* The canvas (ui/src/components/label-editor/label-canvas.tsx)            *)
(***************************************************************************)
(* Mutant: with Ctrl only the element itself is taken.                     *)
resolveClickAlone(e, additive) ==
    IF ~additive THEN expandSelectionWithGroups(ui.elements, {e})
    ELSE IF e \in ui.selectedIds THEN ui.selectedIds \ {e}
    ELSE ui.selectedIds \cup {e}

(* A click takes the element with its group; with Ctrl it adds them, or    *)
(* takes them out when they were all in.                                   *)
resolveClickSelection(e, additive) ==
    LET clicked == expandSelectionWithGroups(ui.elements, {e})
    IN IF ~additive THEN clicked
       ELSE IF clicked \subseteq ui.selectedIds THEN ui.selectedIds \ clicked
       ELSE ui.selectedIds \cup clicked

(* A press on one of several selected elements keeps them all, to be       *)
(* dragged.                                                                *)
handlePointerDown(e, additive) ==
    /\ Ready /\ e \in Ids
    /\ ui' = [ui EXCEPT !.selectedIds =
                 IF ~additive /\ e \in @ /\ Cardinality(@) > 1 THEN @
                 ELSE resolveClickSelection(e, additive)]
    /\ UNCHANGED net

(* The handles are those of the only selected element.                     *)
handleResizePointerDown(e) ==
    /\ Ready /\ e \in Ids /\ ui.selectedIds = {e}
    /\ UNCHANGED <<ui, net>>

handleGroupPointerDown == Ready /\ ui' = [ui EXCEPT !.selectedIds = {}] /\ UNCHANGED net

(***************************************************************************)
(* Elements come and go                                                    *)
(***************************************************************************)
appendElement(s, k) ==
    [s EXCEPT !.made = @ + 1,
              !.elements = [e \in DOMAIN @ \cup {s.made + 1} |->
                               IF e \in DOMAIN @ THEN @[e] ELSE Element(k, NoGroup)],
              !.selectedIds = {s.made + 1}]

addElementAt(k) ==
    /\ Ready /\ ui.made < MaxElements
    /\ ui' = IF k = "table" THEN [ui EXCEPT !.table = TRUE] ELSE appendElement(ui, k)
    /\ UNCHANGED net

confirmTableCreate ==
    /\ ui.table /\ ui.made < MaxElements
    /\ ui' = [appendElement(ui, "table") EXCEPT !.table = FALSE]
    /\ UNCHANGED net

cancelTable == ui.table /\ ui' = [ui EXCEPT !.table = FALSE] /\ UNCHANGED net

deleteSelected ==
    /\ ~ui.loading /\ ui.selectedIds # {}
    /\ ui' = [ui EXCEPT !.elements = Restrict(@, Ids \ ui.selectedIds), !.selectedIds = {}]
    /\ UNCHANGED net

groupSelected ==
    /\ ~ui.loading /\ Cardinality(ui.selectedIds) >= 2
    /\ LET next == groupLabelElements(ui.elements, ui.selectedIds)
       IN ui' = [ui EXCEPT !.elements = next,
                           !.selectedIds = expandSelectionWithGroups(next, @)]
    /\ UNCHANGED net

ungroupSelected ==
    /\ ~ui.loading /\ ui.selectedIds # {}
    /\ ui' = [ui EXCEPT !.elements = ungroupLabelElements(@, ui.selectedIds)]
    /\ UNCHANGED net

(* The buttons of the properties panel for several elements.               *)
ElementProperties ==
    /\ Ready /\ Cardinality(ui.selectedIds) > 1
    /\ \/ groupSelected
       \/ selectionHasGroup(ui.elements, ui.selectedIds) /\ ungroupSelected
       \/ deleteSelected

(* The keys do the same for one element too, and under the table dialog.   *)
onKeyDown == deleteSelected \/ groupSelected \/ ungroupSelected

(***************************************************************************)
(* Images                                                                  *)
(***************************************************************************)
uploadImageFile(id) == Post("image", id) /\ ui' = [ui EXCEPT !.uploadingImage = TRUE]

handleCanvasImageDrop == Ready /\ uploadImageFile(0)

handleSelectedImageFile ==
    /\ Ready
    /\ \E e \in Ids : /\ ui.selectedIds = {e} /\ ui.elements[e].kind = "image"
                      /\ uploadImageFile(e)

(* A new image is put on the label; the source of one that was there is    *)
(* set if it still is, and it is selected whatever became of it.           *)
insertImageAt(i) ==
    /\ Ends(i, "image")
    /\ LET s == [ui EXCEPT !.uploadingImage = FALSE]
       IN ui' \in {s, IF net[i].arg # 0 THEN [s EXCEPT !.selectedIds = {net[i].arg}]
                      ELSE IF s.made < MaxElements THEN appendElement(s, "image")
                      ELSE s}

(***************************************************************************)
(* Save                                                                    *)
(***************************************************************************)
saveTemplate ==
    /\ Ready /\ ~ui.saving /\ ~ui.uploadingImage
    /\ Post("save", 0)
    /\ ui' = [ui EXCEPT !.saving = TRUE]

Saved(i) == Ends(i, "save") /\ ui' = [ui EXCEPT !.saving = FALSE]

Next ==
    \/ \E e \in Id, b \in BOOLEAN : handlePointerDown(e, b)
    \/ \E e \in Id : handleResizePointerDown(e)
    \/ handleGroupPointerDown
    \/ \E k \in Kind : addElementAt(k)
    \/ confirmTableCreate \/ cancelTable
    \/ ElementProperties \/ onKeyDown
    \/ handleCanvasImageDrop \/ handleSelectedImageFile \/ saveTemplate
    \/ \E i \in DOMAIN net : loadTemplate(i) \/ insertImageAt(i) \/ Saved(i)

SpinnersEnd ==
    /\ ui.saving => OnTheWay("save")
    /\ ui.uploadingImage => OnTheWay("image")

OneCallPerButton == AtMostOne({"save"})

Whole(s) == s.selectedIds = expandSelectionWithGroups(s.elements, s.selectedIds)
                         \cap DOMAIN s.elements

(* What is selected, and so what is deleted or grouped next, is whole      *)
(* groups of elements that are there; only the answer to the upload of an  *)
(* image may leave one element of a group selected, or none.  What is      *)
(* dragged may be less: see handlePointerDown in LabelCanvasPage.          *)
SelectionWhole == Whole(ui) => Whole(ui') \/ \E i \in DOMAIN net : insertImageAt(i)
=============================================================================
