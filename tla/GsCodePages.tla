----------------------------- MODULE GsCodePages -----------------------------
(***************************************************************************)
(* GS codes: how many are left of each model and their upload              *)
(* (ui/src/pages/gscode.tsx), and the report of a period                   *)
(* (gscode_report.tsx).                                                    *)
(***************************************************************************)
EXTENDS Backend, SequencesExt

CONSTANTS None, Model

VARIABLE ui

FreshCodes  == [which |-> "codes", models |-> {}, counts |-> <<>>, selectedModel |-> None,
                selectedFile |-> FALSE, uploading |-> FALSE, errorCodes |-> FALSE]
FreshReport == [which |-> "report", period |-> 1, rows |-> 0, loaded |-> FALSE,
                loading |-> FALSE, exporting |-> FALSE]

OnCodes  == ui.which = "codes"
OnReport == ui.which = "report"

Counts == UNION {[ms -> 0 .. 1] : ms \in SUBSET Model}

TypeOK ==
    \/ /\ OnCodes /\ ui.models \subseteq Model /\ ui.counts \in Counts
       /\ ui.selectedModel \in Model \cup {None}
       /\ {ui.selectedFile, ui.uploading, ui.errorCodes} \subseteq BOOLEAN
    \/ /\ OnReport /\ ui.period \in 1 .. 2 /\ ui.rows \in 0 .. 2
       /\ {ui.loaded, ui.loading, ui.exporting} \subseteq BOOLEAN

(***************************************************************************)
(* The codes that are left                                                 *)
(***************************************************************************)
gsCodeCount == <<Call("counts", None)>>

MountCodes == ui' = FreshCodes /\ net' = <<Call("models", None)>> \o gsCodeCount

(* The models that are in use; a failed load empties the list.             *)
modelsGetAll(i) ==
    /\ Ends(i, "models")
    /\ \E ms \in SUBSET Model : ui' = [ui EXCEPT !.models = ms]

CountsLoaded(i) ==
    /\ Ends(i, "counts")
    /\ \E c \in Counts : ui' \in {ui, [ui EXCEPT !.counts = c]}

Row(m, n) == [model_id |-> m, count |-> n]

(* The counted models and, with none, those that were not counted; a model *)
(* without codes comes after those that have some.                         *)
tableData ==
    LET counted == {Row(m, ui.counts[m]) : m \in DOMAIN ui.counts}
        missing == {Row(m, 0) : m \in ui.models \ DOMAIN ui.counts}
        Some(r) == r.count # 0
    IN SetToSeq({r \in counted : Some(r)}) \o SetToSeq({r \in counted \cup missing : ~Some(r)})

selectModel(m) == ui' = [ui EXCEPT !.selectedModel = m]

DropDownModels == \E m \in ui.models : selectModel(m)

(* A counted model that is not in the list stands for itself, or for one   *)
(* of the list with its series number.                                     *)
selectModelFromTableRow ==
    \E k \in DOMAIN tableData :
       LET m == tableData[k].model_id
       IN \E s \in IF m \in ui.models THEN {m} ELSE {m} \cup ui.models : selectModel(s)

onDrop == ui' = [ui EXCEPT !.selectedFile = TRUE]

handleSend ==
    /\ ui.selectedFile /\ ui.selectedModel # None /\ ~ui.uploading
    /\ Post("upload", ui.selectedModel)
    /\ ui' = [ui EXCEPT !.uploading = TRUE]

(* Codes that were refused are shown; when none was new the file stays.    *)
CodesUploaded(i) ==
    \/ /\ Ends(i, "upload")
       /\ \E e \in {ui.errorCodes, TRUE} :
             ui' = [ui EXCEPT !.uploading = FALSE, !.errorCodes = e]
    \/ /\ Answered(i, "upload", gsCodeCount)
       /\ ui' = [ui EXCEPT !.uploading = FALSE, !.selectedFile = FALSE]

Toolbar == ((DropDownModels \/ onDrop) /\ UNCHANGED net) \/ handleSend

gscodeCountTable == selectModelFromTableRow /\ UNCHANGED net

(***************************************************************************)
(* The report: rows are the period they are of, 0 for none                 *)
(***************************************************************************)
MountReport == ui' = FreshReport /\ net' = <<>>

getReport ==
    /\ ~ui.loading
    /\ Post("report", ui.period) /\ ui' = [ui EXCEPT !.loading = TRUE]

(* The rows are shown although the dates may be others by now.             *)
ReportLoaded(i) ==
    /\ i \in DOMAIN net /\ Ends(i, "report")
    /\ \E rows \in {0, net[i].arg} :
          ui' \in {[ui EXCEPT !.loading = FALSE],
                   [ui EXCEPT !.loading = FALSE, !.loaded = TRUE, !.rows = rows]}

setPreset == ui' = [ui EXCEPT !.period = 3 - @]

resetFilters == ui' = [ui EXCEPT !.period = 1, !.rows = 0, !.loaded = FALSE]

(* The file is named after the dates of the filter, and nothing catches    *)
(* what the making of it throws.                                           *)
exportToExcel ==
    /\ ~ui.exporting /\ ui.rows # 0
    /\ Post("excel", ui.period) /\ ui' = [ui EXCEPT !.exporting = TRUE]

ReportExported(i) ==
    /\ Ends(i, "excel")
    /\ ui' \in {ui, [ui EXCEPT !.exporting = FALSE]}

Filters == ((setPreset \/ resetFilters) /\ UNCHANGED net) \/ getReport \/ exportToExcel

Next ==
    \/ OnCodes /\ (Toolbar \/ gscodeCountTable)
    \/ OnReport /\ Filters
    \/ \E i \in DOMAIN net : \/ modelsGetAll(i) \/ CountsLoaded(i) \/ CodesUploaded(i)
                             \/ ReportLoaded(i) \/ ReportExported(i)

(* All but "exporting", see exportToExcel.                                 *)
SpinnersEnd ==
    /\ OnCodes /\ ui.uploading => OnTheWay("upload")
    /\ OnReport /\ ui.loading => OnTheWay("report")

OneCallPerButton == AtMostOne({"upload"})

(* Each model that is counted or in the list has one row, with its count.  *)
SummaryAddsUp ==
    OnCodes =>
       /\ {tableData[k].model_id : k \in DOMAIN tableData} = ui.models \cup DOMAIN ui.counts
       /\ \A k \in DOMAIN tableData :
             LET m == tableData[k].model_id
             IN /\ tableData[k].count = IF m \in DOMAIN ui.counts THEN ui.counts[m] ELSE 0
                /\ \A j \in 1 .. k - 1 :
                      tableData[j].model_id # m /\ (tableData[j].count # 0 \/ tableData[k].count = 0)
=============================================================================
