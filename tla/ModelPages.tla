----------------------------- MODULE ModelPages -----------------------------
(***************************************************************************)
(* The models of products: their table with its import and export         *)
(* (ui/src/pages/models.tsx) and the form of one (model_id.tsx).  Of the   *)
(* form the accessory serials are kept: a typed list of codes that is      *)
(* cleaned whenever the model is read or saved (ui/src/lib/acc-serial.ts). *)
(***************************************************************************)
EXTENDS Backend, SequencesExt

CONSTANTS None, Model, Code,
          MaxParts       \* bound on the parts of the typed list

VARIABLE ui

(***************************************************************************)
(* The list of serials: parts between commas or line ends, None for blank  *)
(***************************************************************************)
Typed == UNION {[1 .. n -> Code \cup {None}] : n \in 0 .. MaxParts}

parseAccSerialValues(value) ==
    FoldLeft(LAMBDA seen, part : IF part = None \/ Contains(seen, part) THEN seen
                                 ELSE Append(seen, part), <<>>, value)

hasAccSerialValues(value) == parseAccSerialValues(value) # <<>>

(* An empty field comes as null and becomes a blank.                       *)
normalizeModel(acc_serial) == parseAccSerialValues(acc_serial)

(***************************************************************************)
(* The two pages                                                           *)
(***************************************************************************)
FreshModels == [which |-> "models", models |-> {}, selectedFile |-> FALSE, uploading |-> FALSE,
                conflictDialogOpen |-> FALSE]
FreshModel  == [which |-> "model", loaded |-> FALSE, acc_serial |-> <<>>, saving |-> FALSE,
                selectedFile |-> FALSE]

OnModels == ui.which = "models"
OnModel  == ui.which = "model"

TypeOK ==
    \/ OnModels /\ ui.models \subseteq Model
       /\ {ui.selectedFile, ui.uploading, ui.conflictDialogOpen} \subseteq BOOLEAN
    \/ OnModel /\ ui.acc_serial \in Typed
       /\ {ui.loaded, ui.saving, ui.selectedFile} \subseteq BOOLEAN

modelsGetAll == <<Call("models", None)>>

MountModels == ui' = FreshModels /\ net' = modelsGetAll
MountModel  == ui' = FreshModel /\ net' = modelsGetAll

ModelsLoaded(i) ==
    /\ OnModels /\ Ends(i, "models")
    /\ \E ms \in SUBSET Model : ui' \in {ui, [ui EXCEPT !.models = ms]}

(* Another file takes the place of the one that was chosen.                *)
onDrop ==
    /\ OnModels => ~ui.conflictDialogOpen
    /\ ui' = [ui EXCEPT !.selectedFile = TRUE] /\ UNCHANGED net

(***************************************************************************)
(* The table                                                               *)
(***************************************************************************)
(* The file is no longer the selected one as soon as it is read.           *)
handleSend ==
    /\ ui.selectedFile /\ ~ui.uploading
    /\ Post("import", None)
    /\ ui' = [ui EXCEPT !.uploading = TRUE, !.selectedFile = FALSE]

Imported(i) ==
    \/ /\ Ends(i, "import")
       /\ \E conflicts \in {ui.conflictDialogOpen, TRUE} :
             ui' = [ui EXCEPT !.uploading = FALSE, !.conflictDialogOpen = conflicts]
    \/ Answered(i, "import", modelsGetAll) /\ ui' = [ui EXCEPT !.uploading = FALSE]

(* What the table may show: the models with every word of a search.        *)
rows == SUBSET ui.models

buildModelsWorkbook(ms) == Post("excel", ms) /\ UNCHANGED ui

exportVisibleModels   == \E shown \in rows \ {{}} : buildModelsWorkbook(shown)
downloadEmptyTemplate == buildModelsWorkbook({})

Downloaded(i) == Ends(i, "excel") /\ UNCHANGED ui

Toolbar == handleSend \/ exportVisibleModels \/ downloadEmptyTemplate

ConflictDialog ==
    /\ OnModels /\ ui.conflictDialogOpen
    /\ ui' = [ui EXCEPT !.conflictDialogOpen = FALSE] /\ UNCHANGED net

(***************************************************************************)
(* The form of a model                                                     *)
(***************************************************************************)
(* The model replaces the form, what was typed meanwhile included.         *)
loadModel(i) ==
    /\ OnModel /\ Ends(i, "models")
    /\ \E value \in Typed :
          ui' \in {ui, [ui EXCEPT !.loaded = TRUE, !.acc_serial = normalizeModel(value)]}

updateField(value) == ui' = [ui EXCEPT !.acc_serial = value]

(* The text is kept as it is typed.                                        *)
MultiValueField ==
    /\ ui.loaded
    /\ \E value \in Typed : updateField(value)
    /\ UNCHANGED net

saveModel ==
    /\ ui.loaded /\ ~ui.saving /\ hasAccSerialValues(ui.acc_serial)
    /\ Post("save", [typed |-> ui.acc_serial, sent |-> normalizeModel(ui.acc_serial)])
    /\ ui' = [ui EXCEPT !.saving = TRUE]

Saved(i) ==
    /\ Ends(i, "save") \/ Answered(i, "save", modelsGetAll)
    /\ ui' = [ui EXCEPT !.saving = FALSE]

uploadExcel == ui.selectedFile /\ Post("upload", None) /\ UNCHANGED ui

Uploaded(i) ==
    \/ Ends(i, "upload") /\ UNCHANGED ui
    \/ Answered(i, "upload", modelsGetAll) /\ ui' = [ui EXCEPT !.selectedFile = FALSE]

downloadExcel == ui.loaded /\ Post("excel", {}) /\ UNCHANGED ui

ExcelPanel == onDrop \/ (OnModel /\ (uploadExcel \/ downloadExcel))

Next ==
    \/ OnModels /\ ~ui.conflictDialogOpen /\ Toolbar
    \/ ConflictDialog \/ ExcelPanel
    \/ OnModel /\ (MultiValueField \/ saveModel)
    \/ \E i \in DOMAIN net : \/ ModelsLoaded(i) \/ Imported(i) \/ Downloaded(i)
                             \/ loadModel(i) \/ Saved(i) \/ Uploaded(i)

SpinnersEnd ==
    /\ OnModels /\ ui.uploading => OnTheWay("import")
    /\ OnModel /\ ui.saving => OnTheWay("save")

OneCallPerButton == AtMostOne({"save"}) /\ AtMostOne({"import"})

(* A model is saved with at least one accessory serial, with each of those *)
(* that were typed once, in the order in which they were first typed.      *)
SerialsClean ==
    \A i \in DOMAIN net : net[i].op = "save" =>
       LET typed == net[i].arg.typed
           sent  == net[i].arg.sent
           First(c) == CHOOSE k \in DOMAIN typed : typed[k] = c /\ \A j \in 1 .. k - 1 : typed[j] # c
       IN /\ sent # <<>>
          /\ ToSet(sent) = ToSet(typed) \ {None}
          /\ \A j, k \in DOMAIN sent : j < k => First(sent[j]) < First(sent[k])
=============================================================================
