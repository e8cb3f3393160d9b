----------------------- MODULE ProductionComponentsPage -----------------------
(***************************************************************************)
(* The catalogue of production components                                  *)
(* (ui/src/pages/production_components.tsx): a table with a search, one    *)
(* dialog to add or to edit a component with its photo, an import from     *)
(* Excel and an export with the photos of the rows.                        *)
(***************************************************************************)
EXTENDS Backend, SequencesExt

CONSTANTS None, Component

VARIABLE ui

(* The form: the component its values are from, whether it has a code, a   *)
(* type and a unit, and whose photo it names.                              *)
ProductionComponent == [of: Component \cup {None}, complete: BOOLEAN,
                        photo_path: Component \cup {None}]

emptyComponent == [of |-> None, complete |-> FALSE, photo_path |-> None]

Fresh == [components |-> {}, types |-> FALSE,
          dialogOpen |-> FALSE, editing |-> None, form |-> emptyComponent,
          photoFile64 |-> FALSE, deleteConfirmOpen |-> FALSE, conflictDialogOpen |-> FALSE,
          selectedFile |-> FALSE, saving |-> FALSE, deletingComponent |-> FALSE,
          photoUploading |-> FALSE, uploading |-> FALSE, exporting |-> FALSE]

TypeOK ==
    /\ ui.components \subseteq Component
    /\ ui.editing \in Component \cup {None} /\ ui.form \in ProductionComponent
    /\ {ui.types, ui.dialogOpen, ui.photoFile64, ui.deleteConfirmOpen, ui.conflictDialogOpen,
        ui.selectedFile, ui.saving, ui.deletingComponent, ui.photoUploading, ui.uploading,
        ui.exporting} \subseteq BOOLEAN

loadComponents == <<Call("components", None)>>

Mount == ui' = Fresh /\ net' = loadComponents \o <<Call("types", None)>>

ComponentsLoaded(i) ==
    /\ Ends(i, "components")
    /\ \E cs \in SUBSET Component \cup {ui.components} : ui' = [ui EXCEPT !.components = cs]

loadDictionaries(i) ==
    /\ Ends(i, "types")
    /\ \E loaded \in BOOLEAN : ui' = [ui EXCEPT !.types = loaded]

(* What the table may show: the components with every word of a search.    *)
rows == SUBSET ui.components

(***************************************************************************)
(* The dialog                                                              *)
(***************************************************************************)
openAdd ==
    ui' = [ui EXCEPT !.editing = None, !.form = emptyComponent, !.photoFile64 = FALSE,
                     !.dialogOpen = TRUE]

openEdit(c) ==
    ui' = [ui EXCEPT !.editing = c, !.photoFile64 = FALSE, !.dialogOpen = TRUE,
                     !.form = [of |-> c, complete |-> TRUE, photo_path |-> c]]

closeDialog == ui' = [ui EXCEPT !.dialogOpen = FALSE, !.deleteConfirmOpen = FALSE]

(* A new component is complete only with a type and a unit to choose.      *)
updateForm ==
    \E filled \in {FALSE, ui.types \/ ui.editing # None} :
       ui' = [ui EXCEPT !.form.complete = filled]

readPhotoFile == ui' = [ui EXCEPT !.photoFile64 = TRUE]

saveComponent ==
    /\ ~ui.saving /\ ~ui.deletingComponent /\ ui.form.complete
    /\ Post("save", [to |-> ui.editing, of |-> ui.form.of])
    /\ ui' = [ui EXCEPT !.saving = TRUE]

(* Whatever dialog is open by now is closed.                               *)
Saved(i) ==
    \/ Ends(i, "save") /\ ui' = [ui EXCEPT !.saving = FALSE]
    \/ /\ Answered(i, "save", loadComponents)
       /\ ui' = [ui EXCEPT !.saving = FALSE, !.dialogOpen = FALSE]

uploadPhoto ==
    /\ ui.editing # None /\ ui.photoFile64 /\ ~ui.photoUploading
    /\ Post("photo", [to |-> ui.editing])
    /\ ui' = [ui EXCEPT !.photoUploading = TRUE]

(* The form that is open by now takes the photo, be it of another component. *)
PhotoUploaded(i) ==
    /\ i \in DOMAIN net /\ net[i].op = "photo" /\ ~net[i].all
    /\ \/ Ends(i, "photo") /\ ui' = [ui EXCEPT !.photoUploading = FALSE]
       \/ /\ Answered(i, "photo", loadComponents)
          /\ ui' = [ui EXCEPT !.photoUploading = FALSE, !.photoFile64 = FALSE,
                              !.form.photo_path = net[i].arg.to]

askDelete ==
    /\ ui.editing # None /\ ~ui.deletingComponent /\ ~ui.saving
    /\ ui' = [ui EXCEPT !.deleteConfirmOpen = TRUE]

deleteComponent ==
    /\ ~ui.deletingComponent /\ ui.editing # None
    /\ Post("delete", ui.editing)
    /\ ui' = [ui EXCEPT !.deletingComponent = TRUE]

ComponentDeleted(i) ==
    \/ Ends(i, "delete") /\ ui' = [ui EXCEPT !.deletingComponent = FALSE]
    \/ /\ Answered(i, "delete", loadComponents)
       /\ ui' = [ui EXCEPT !.deletingComponent = FALSE, !.deleteConfirmOpen = FALSE,
                           !.dialogOpen = FALSE, !.editing = None, !.form = emptyComponent]

PhotoBox  == (readPhotoFile /\ UNCHANGED net) \/ uploadPhoto
Footer    == saveComponent \/ ((askDelete \/ closeDialog) /\ UNCHANGED net)
ComponentDialog ==
    /\ ui.dialogOpen /\ ~ui.deleteConfirmOpen /\ ~ui.conflictDialogOpen
    /\ PhotoBox \/ (updateForm /\ UNCHANGED net) \/ Footer

DeleteDialog ==
    /\ ui.deleteConfirmOpen /\ ~ui.conflictDialogOpen
    /\ \/ deleteComponent
       \/ ui' = [ui EXCEPT !.deleteConfirmOpen = FALSE] /\ UNCHANGED net

(***************************************************************************)
(* The import and the export                                               *)
(***************************************************************************)
onDrop ==
    /\ ~ui.uploading /\ ui' = [ui EXCEPT !.selectedFile = TRUE] /\ UNCHANGED net

uploadXlsx ==
    /\ ui.selectedFile /\ ~ui.uploading
    /\ Post("import", None) /\ ui' = [ui EXCEPT !.uploading = TRUE]

(* Rows with conflicts are shown, whether or not others were taken.        *)
Imported(i) ==
    \E conflicts \in {ui.conflictDialogOpen, TRUE} :
       \/ /\ Ends(i, "import")
          /\ ui' = [ui EXCEPT !.uploading = FALSE, !.conflictDialogOpen = conflicts]
       \/ /\ Answered(i, "import", loadComponents)
          /\ ui' = [ui EXCEPT !.uploading = FALSE, !.conflictDialogOpen = conflicts,
                              !.selectedFile = FALSE]

ConflictDialog ==
    /\ ui.conflictDialogOpen
    /\ ui' = [ui EXCEPT !.conflictDialogOpen = FALSE] /\ UNCHANGED net

downloadTemplate == Post("template", None) /\ UNCHANGED ui
TemplateLoaded(i) == Ends(i, "template") /\ UNCHANGED ui

(* The workbook waits for the photos of all its rows.                      *)
buildComponentsWorkbook(cs) == Posts(SetToSeq({Part("photo", c) : c \in cs}))

exportComponents ==
    /\ ~ui.exporting
    /\ \E shown \in rows \ {{}} : buildComponentsWorkbook(shown)
    /\ ui' = [ui EXCEPT !.exporting = TRUE]

(* A photo that cannot be had is left out.                                 *)
loadPhotoForExcel(i) ==
    /\ i \in DOMAIN net /\ net[i].all
    /\ Ends(i, "photo")
    /\ ui' = [ui EXCEPT !.exporting = ~AllDone(i)]

Toolbar == exportComponents \/ downloadTemplate \/ onDrop \/ uploadXlsx
Table   == openAdd \/ \E c \in UNION rows : openEdit(c)

Next ==
    \/ /\ ~ui.dialogOpen /\ ~ui.deleteConfirmOpen /\ ~ui.conflictDialogOpen
       /\ Toolbar \/ (Table /\ UNCHANGED net)
    \/ ComponentDialog \/ DeleteDialog \/ ConflictDialog
    \/ \E i \in DOMAIN net : \/ ComponentsLoaded(i) \/ loadDictionaries(i) \/ Saved(i)
                             \/ PhotoUploaded(i) \/ ComponentDeleted(i) \/ Imported(i)
                             \/ TemplateLoaded(i) \/ loadPhotoForExcel(i)

SpinnersEnd ==
    /\ ui.saving => OnTheWay("save")
    /\ ui.deletingComponent => OnTheWay("delete")
    /\ ui.photoUploading => \E i \in DOMAIN net : net[i].op = "photo" /\ ~net[i].all
    /\ ui.uploading => OnTheWay("import")
    /\ ui.exporting => BatchOnTheWay

(* A component is never saved and deleted at once, and what is saved are   *)
(* the values of the component it is saved to.                             *)
OneCallPerButton ==
    /\ AtMostOne({"save", "delete"}) /\ AtMostOne({"import"})
    /\ \A i \in DOMAIN net : net[i].op = "save" => net[i].arg.of = net[i].arg.to
=============================================================================
