------------------------- MODULE LabelTemplatePages -------------------------
(***************************************************************************)
(* Around the label editor: the list of templates                          *)
(* (ui/src/pages/label-templates.tsx), the preview of a printer            *)
(* (ui/src/components/label-editor/label-printer-preview.tsx) and the      *)
(* logos of the brands (label-template-editor.tsx), and the zoom of the    *)
(* canvas and what is dragged over it (label-canvas.tsx).                  *)
(***************************************************************************)
EXTENDS Backend

CONSTANTS None, Template, Printer, Brand,
          MaxVersion,     \* bound on the versions of a label in a visit
          ZoomLevels      \* the zoom, in steps; the page opens at 100%, step 2

VARIABLE ui

FreshList    == [which |-> "list", loading |-> TRUE, templates |-> {},
                 creating |-> FALSE, duplicatingId |-> None]
FreshPreview == [which |-> "preview", version |-> 1, linked |-> {}, printer |-> None,
                 timer |-> FALSE, loading |-> FALSE, shown |-> None]
FreshLogos   == [which |-> "logos", brands |-> {}, logos |-> {}, uploadingBrand |-> None]

FreshCanvas  == [which |-> "canvas", zoom |-> 2, dragOver |-> "nothing"]

Preview(p, v) == [printer |-> p, version |-> v]
Version == 1 .. MaxVersion

TypeOK ==
    \/ /\ ui.which = "list" /\ {ui.loading, ui.creating} \subseteq BOOLEAN
       /\ ui.templates \subseteq Template /\ ui.duplicatingId \in Template \cup {None}
    \/ /\ ui.which = "preview" /\ {ui.timer, ui.loading} \subseteq BOOLEAN
       /\ ui.version \in Version /\ ui.linked \subseteq Printer
       /\ ui.printer \in ui.linked \cup {None}
       /\ ui.shown = None \/ ui.shown \in [printer: Printer, version: Version]
    \/ /\ ui.which = "logos" /\ ui.brands \subseteq Brand /\ ui.logos \subseteq Brand
       /\ ui.uploadingBrand \in Brand \cup {None}
    \/ /\ ui.which = "canvas" /\ ui.zoom \in 1 .. ZoomLevels
       /\ ui.dragOver \in {"nothing", "element", "image"}

(***************************************************************************)
(* The list                                                                *)
(***************************************************************************)
MountList == ui' = FreshList /\ net' = <<Call("templates", None)>>

OnList == ui.which = "list"

TemplatesLoaded(i) ==
    /\ Ends(i, "templates")
    /\ \E ts \in SUBSET Template :
          ui' \in {[ui EXCEPT !.loading = FALSE],
                   [ui EXCEPT !.loading = FALSE, !.templates = ts]}

Refresh ==
    /\ OnList /\ ~ui.loading
    /\ Post("templates", None) /\ ui' = [ui EXCEPT !.loading = TRUE]

(* The answers to these two that are "ok" open the editor.                 *)
createTemplate ==
    /\ OnList /\ ~ui.creating
    /\ Post("create", None) /\ ui' = [ui EXCEPT !.creating = TRUE]
Created(i) == Ends(i, "create") /\ ui' = [ui EXCEPT !.creating = FALSE]

duplicateTemplate ==
    /\ OnList /\ ~ui.loading /\ ui.duplicatingId = None
    /\ \E t \in ui.templates :
          Post("duplicate", t) /\ ui' = [ui EXCEPT !.duplicatingId = t]
Duplicated(i) == Ends(i, "duplicate") /\ ui' = [ui EXCEPT !.duplicatingId = None]

deleteTemplate ==
    /\ OnList /\ ~ui.loading
    /\ \E t \in ui.templates : Post("delete", t) /\ UNCHANGED ui
Deleted(i) ==
    \/ Ends(i, "delete") /\ UNCHANGED ui
    \/ Answered(i, "delete", <<Call("templates", None)>>) /\ ui' = [ui EXCEPT !.loading = TRUE]

(***************************************************************************)
(* The preview: an edit, or another printer, asks for one 400 ms later.    *)
(* The requests have no number: the answer that comes last is shown.       *)
(***************************************************************************)
MountPreview == ui' = FreshPreview /\ net' = <<Call("printers", None)>>

OnPreview == ui.which = "preview"

loadPrinters(i) ==
    /\ Ends(i, "printers")
    /\ \E linked \in SUBSET Printer :
          ui' = IF linked = {} THEN ui
                ELSE [ui EXCEPT !.linked = linked, !.timer = TRUE,
                                !.printer = CHOOSE p \in linked : TRUE]

setSelectedPrinterId ==
    /\ OnPreview
    /\ \E p \in ui.linked \ {ui.printer} :
          ui' = [ui EXCEPT !.printer = p, !.timer = TRUE]
    /\ UNCHANGED net

EditLabel ==
    /\ OnPreview /\ ui.version < MaxVersion
    /\ ui' = [ui EXCEPT !.version = @ + 1, !.timer = ui.printer # None]
    /\ UNCHANGED net

fetchPreview ==
    /\ OnPreview /\ ui.timer
    /\ Post("preview", Preview(ui.printer, ui.version))
    /\ ui' = [ui EXCEPT !.timer = FALSE, !.loading = TRUE]

Previewed(i) ==
    /\ Ends(i, "preview")
    /\ \E v \in {None, net[i].arg} : ui' = [ui EXCEPT !.loading = FALSE, !.shown = v]

(***************************************************************************)
(* The logos: an image is stored, then named the logo of the brand.        *)
(***************************************************************************)
MountLogos == ui' = FreshLogos /\ net' = <<Call("brands", None)>>

loadBrandsAndLogos(i) ==
    /\ Ends(i, "brands")
    /\ \E bs, ls \in SUBSET Brand : ui' = [ui EXCEPT !.brands = bs, !.logos = ls]

uploadBrandLogo ==
    /\ ui.which = "logos"
    /\ \E b \in ui.brands \ {ui.uploadingBrand} :
          Post("logoimage", b) /\ ui' = [ui EXCEPT !.uploadingBrand = b]

Finally(s) == [s EXCEPT !.uploadingBrand = None]

LogoImage(i) ==
    \/ Ends(i, "logoimage") /\ ui' = Finally(ui)
    \/ Answered(i, "logoimage", <<Call("logo", net[i].arg)>>) /\ UNCHANGED ui

LogoSaved(i) ==
    /\ Ends(i, "logo")
    /\ ui' \in {Finally(ui), Finally([ui EXCEPT !.logos = @ \cup {net[i].arg}])}

deleteBrandLogo ==
    /\ ui.which = "logos"
    /\ \E b \in (ui.brands \cap ui.logos) \ {ui.uploadingBrand} :
          Post("nologo", b) /\ UNCHANGED ui

LogoDeleted(i) ==
    /\ Ends(i, "nologo")
    /\ ui' \in {ui, [ui EXCEPT !.logos = @ \ {net[i].arg}]}

(***************************************************************************)
(* The canvas: zoom by button, key or wheel; an element of the palette or  *)
(* a file is dragged over it and dropped, a file only after it was seen.   *)
(***************************************************************************)
MountCanvas == ui' = FreshCanvas /\ net' = <<>>

OnCanvas == ui.which = "canvas"

clampZoom(z) == IF z < 1 THEN 1 ELSE IF z > ZoomLevels THEN ZoomLevels ELSE z

zoomTo(z) == OnCanvas /\ ui' = [ui EXCEPT !.zoom = clampZoom(z)] /\ UNCHANGED net

ZoomButton ==
    \/ ui.zoom < ZoomLevels /\ zoomTo(ui.zoom + 1)
    \/ ui.zoom > 1 /\ zoomTo(ui.zoom - 1)
    \/ zoomTo(2)

ZoomKey == \E z \in {ui.zoom + 1, ui.zoom - 1, 2} : zoomTo(z)

handleDragOver ==
    /\ OnCanvas /\ \E d \in {"nothing", "element", "image"} : ui' = [ui EXCEPT !.dragOver = d]
    /\ UNCHANGED net

handleDrop ==
    /\ OnCanvas /\ ui' = [ui EXCEPT !.dragOver = "nothing"]
    /\ \/ UNCHANGED net
       \/ ui.dragOver = "image" /\ Post("dropped", None)

ImageDropped(i) == Ends(i, "dropped") /\ UNCHANGED ui

Next ==
    \/ OnCanvas /\ (ZoomButton \/ ZoomKey)
    \/ handleDragOver \/ handleDrop
    \/ Refresh \/ createTemplate \/ duplicateTemplate \/ deleteTemplate
    \/ setSelectedPrinterId \/ EditLabel \/ fetchPreview
    \/ uploadBrandLogo \/ deleteBrandLogo
    \/ \E i \in DOMAIN net :
          \/ TemplatesLoaded(i) \/ Created(i) \/ Duplicated(i) \/ Deleted(i)
          \/ ImageDropped(i) \/ loadPrinters(i) \/ Previewed(i)
          \/ loadBrandsAndLogos(i) \/ LogoImage(i) \/ LogoSaved(i) \/ LogoDeleted(i)

SpinnersEnd ==
    /\ OnList => /\ ui.loading => OnTheWay("templates")
                 /\ ui.creating => OnTheWay("create")
                 /\ ui.duplicatingId # None => Waiting("duplicate", ui.duplicatingId)
    /\ OnPreview /\ ui.loading => OnTheWay("preview")
    /\ ui.which = "logos" /\ ui.uploadingBrand # None =>
          Waiting("logoimage", ui.uploadingBrand) \/ Waiting("logo", ui.uploadingBrand)

OneCallPerButton == AtMostOne({"create"}) /\ AtMostOne({"duplicate"})
=============================================================================
