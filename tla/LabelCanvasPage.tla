-------------------------- MODULE LabelCanvasPage ---------------------------
(***************************************************************************)
(* The pointer on the canvas of the label editor                           *)
(* (ui/src/components/label-editor/label-canvas.tsx): it drags what is     *)
(* selected, resizes the one selected element, drags everything, or drops  *)
(* a new element.  Every move starts again from where the press was.       *)
(***************************************************************************)
EXTENDS Integers, Sequences, FiniteSetsExt

CONSTANTS LabelWidth, LabelHeight,
          MinSize,      \* the least side of an element that is resized
          ScaleUp, ScaleDown,   \* one step makes everything ScaleUp/ScaleDown as large
          MaxMove       \* how far a move goes from the press

VARIABLES ui, net

(* Where the elements lie (ui/src/lib/label-types.ts).  Lengths are whole  *)
(* numbers of the grid they are rounded to, a tenth of a millimetre in the *)
(* code; what lies between is reckoned in parts of it.                     *)
Larger(a, b)     == IF a < b THEN b ELSE a
Smaller(a, b)    == IF a < b THEN a ELSE b
Between(a, v, b) == Larger(a, Smaller(v, b))
Magnitude(a)     == Larger(a, -a)

(* Math.round of v / k.                                                    *)
Rounded(v, k) == (2 * v + k) \div (2 * k)

Box(x, y, w, h) == [x |-> x, y |-> y, width |-> w, height |-> h]

Boxes == {b \in [x: 0 .. LabelWidth, y: 0 .. LabelHeight,
                 width: MinSize .. LabelWidth, height: MinSize .. LabelHeight] :
             b.x + b.width <= LabelWidth /\ b.y + b.height <= LabelHeight}

(* Place and size are rounded each by itself, which may add up to one.     *)
OnLabel(b, rounding) ==
    /\ b.x >= 0 /\ b.y >= 0
    /\ b.x + b.width <= LabelWidth + rounding /\ b.y + b.height <= LabelHeight + rounding

(***************************************************************************)
(* Resizing from a handle                                                  *)
(***************************************************************************)
Corner == {"nw", "ne", "se", "sw"}
Handle == Corner \cup {"n", "e", "s", "w"}
West   == {"w", "nw", "sw"}
North  == {"n", "nw", "ne"}

(* An edge moves by itself.  All lengths times k.                          *)
applyFree(o, k, handle, dx, dy) ==
    Box(IF handle = "w" THEN k * (o.x + dx) ELSE k * o.x,
        IF handle = "n" THEN k * (o.y + dy) ELSE k * o.y,
        k * (o.width  + (IF handle = "e" THEN dx ELSE IF handle = "w" THEN -dx ELSE 0)),
        k * (o.height + (IF handle = "s" THEN dy ELSE IF handle = "n" THEN -dy ELSE 0)))

(* From a corner the side that moved most, for its length, gives the size  *)
(* and the opposite corner stays.  k is the product of the sides, so every *)
(* length is a whole number.                                               *)
applyProportional(o, k, handle, dx, dy) ==
    LET candW == o.width  + (IF handle \in West  THEN -dx ELSE dx)
        candH == o.height + (IF handle \in North THEN -dy ELSE dy)
        byWidth == Magnitude(dx) * o.height >= Magnitude(dy) * o.width
        w == IF byWidth THEN k * candW ELSE candH * o.width * o.width
        h == IF byWidth THEN candW * o.height * o.height ELSE k * candH
    IN Box(IF handle \in West  THEN k * (o.x + o.width)  - w ELSE k * o.x,
           IF handle \in North THEN k * (o.y + o.height) - h ELSE k * o.y,
           w, h)

(* The least size, with the anchored edge kept; at a corner the other side *)
(* follows.                                                                *)
MinimumWidth(o, k, handle, b) ==
    IF b.width >= k * MinSize THEN b
    ELSE LET c == [b EXCEPT !.width = k * MinSize,
                            !.x = IF handle \in West THEN k * (o.x + o.width - MinSize) ELSE @]
             h == Larger(k * MinSize, MinSize * o.height * o.height)
         IN IF handle \notin Corner THEN c
            ELSE [c EXCEPT !.height = h,
                           !.y = IF handle \in North THEN k * (o.y + o.height) - h ELSE @]

MinimumHeight(o, k, handle, b) ==
    IF b.height >= k * MinSize THEN b
    ELSE LET c == [b EXCEPT !.height = k * MinSize,
                            !.y = IF handle \in North THEN k * (o.y + o.height - MinSize) ELSE @]
             w == Larger(k * MinSize, MinSize * o.width * o.width)
         IN IF handle \notin Corner THEN c
            ELSE [c EXCEPT !.width = w,
                           !.x = IF handle \in West THEN k * (o.x + o.width) - w ELSE @]

(* What sticks out of the label is cut off.                                *)
ClampAxis(at, size, room, least) ==
    LET cut == IF at < 0 THEN Larger(least, size + at) ELSE size
        pos == Larger(0, at)
    IN <<pos, IF pos + cut > room THEN Larger(least, room - pos) ELSE cut>>

Clamped(k, b) ==
    LET h == ClampAxis(b.x, b.width, k * LabelWidth, k * MinSize)
        v == ClampAxis(b.y, b.height, k * LabelHeight, k * MinSize)
    IN Box(h[1], v[1], h[2], v[2])

(* After a cut a corner handle fits the proportions into the room that the *)
(* anchored corner leaves.                                                 *)
Refitted(o, k, handle, b) ==
    IF b.width * o.height = b.height * o.width THEN b
    ELSE LET maxW == IF handle \in West  THEN k * (o.x + o.width)  - b.x ELSE k * LabelWidth - b.x
             maxH == IF handle \in North THEN k * (o.y + o.height) - b.y ELSE k * LabelHeight - b.y
             w0 == Smaller(b.width, maxW)
             h0 == Smaller(b.height, maxH)
             w == IF w0 * o.height <= h0 * o.width THEN w0 ELSE (h0 * o.width) \div o.height
             h == IF w0 * o.height <= h0 * o.width THEN (w0 * o.height) \div o.width ELSE h0
         IN Box(Larger(0, IF handle \in West  THEN k * (o.x + o.width)  - w ELSE b.x),
                Larger(0, IF handle \in North THEN k * (o.y + o.height) - h ELSE b.y),
                w, h)

RoundedBox(k, b) ==
    Box(Rounded(Larger(0, b.x), k), Rounded(Larger(0, b.y), k),
        Rounded(Larger(k * MinSize, b.width), k), Rounded(Larger(k * MinSize, b.height), k))

AtLeast(b) == [b EXCEPT !.width = Larger(MinSize, @), !.height = Larger(MinSize, @)]

(* Mutant: the refit forgets which corner is anchored.                     *)
resizeNoAnchor(origin, handle, dx, dy) ==
    LET o == AtLeast(origin)
        k == o.width * o.height
        b == IF handle \in Corner THEN applyProportional(o, k, handle, dx, dy)
             ELSE applyFree(o, k, handle, dx, dy)
        c == Clamped(k, MinimumHeight(o, k, handle, MinimumWidth(o, k, handle, b)))
    IN RoundedBox(k, IF handle \in Corner THEN Refitted(o, k, "se", c) ELSE c)

(* Mutant: what sticks out of the label is not cut off.                    *)
resizeUnclamped(origin, handle, dx, dy) ==
    LET o == AtLeast(origin)
        k == o.width * o.height
        b == IF handle \in Corner THEN applyProportional(o, k, handle, dx, dy)
             ELSE applyFree(o, k, handle, dx, dy)
    IN RoundedBox(k, MinimumHeight(o, k, handle, MinimumWidth(o, k, handle, b)))

resizeLabelElementBox(origin, handle, dx, dy) ==
    LET o == AtLeast(origin)
        k == o.width * o.height
        b == IF handle \in Corner THEN applyProportional(o, k, handle, dx, dy)
             ELSE applyFree(o, k, handle, dx, dy)
        c == Clamped(k, MinimumHeight(o, k, handle, MinimumWidth(o, k, handle, b)))
    IN RoundedBox(k, IF handle \in Corner THEN Refitted(o, k, handle, c) ELSE c)

(* A turned element: the way of the pointer in its own directions.  The    *)
(* code turns it further, where its comment says it turns it back.         *)
screenDeltaToLocalElementDelta(dx, dy, rotationDeg) ==
    LET c == IF rotationDeg = 0 THEN 1 ELSE IF rotationDeg = 180 THEN -1 ELSE 0
        s == IF rotationDeg = 90 THEN 1 ELSE IF rotationDeg = 270 THEN -1 ELSE 0
    IN <<dx * c - dy * s, dx * s + dy * c>>

placeBoxKeepingCenter(o, width, height) ==
    LET w == Smaller(Larger(MinSize, width), Larger(MinSize, LabelWidth))
        h == Smaller(Larger(MinSize, height), Larger(MinSize, LabelHeight))
    IN Box(Rounded(Between(0, 2 * o.x + o.width - w, 2 * (LabelWidth - w)), 2),
           Rounded(Between(0, 2 * o.y + o.height - h, 2 * (LabelHeight - h)), 2),
           w, h)

(***************************************************************************)
(* Moving and scaling                                                      *)
(***************************************************************************)
(* The dragged elements keep their places to each other: the whole of them *)
(* stops at the edge.                                                      *)
ClampedDrag(elements, origins, d, at, size, room) ==
    LET low  == Min({origins[e][at] : e \in DOMAIN origins})
        high == Max({origins[e][at] + elements[e][size] : e \in DOMAIN origins})
    IN Larger(-low, Smaller(d, Larger(0, room - high)))

applyLabelElementDragFromOrigins(elements, origins, dx, dy) ==
    LET cx == ClampedDrag(elements, origins, dx, "x", "width", LabelWidth)
        cy == ClampedDrag(elements, origins, dy, "y", "height", LabelHeight)
    IN [e \in DOMAIN elements |->
          IF e \notin DOMAIN origins THEN elements[e]
          ELSE [elements[e] EXCEPT !.x = origins[e].x + cx, !.y = origins[e].y + cy]]

(* All elements are moved, and each stops at the edge by itself.           *)
offsetAllLabelElements(elements, dx, dy) ==
    [e \in DOMAIN elements |->
        LET b == elements[e]
        IN [b EXCEPT !.x = Between(0, @ + dx, Larger(0, LabelWidth - b.width)),
                     !.y = Between(0, @ + dy, Larger(0, LabelHeight - b.height))]]

(* One axis of an element scaled by p/q about the middle of low .. high,   *)
(* times 2q: its place and its size.                                       *)
ScaleAxis(at, size, low, high, room, p, q) ==
    LET k == 2 * q
        s == Smaller(Larger(k * MinSize, 2 * size * p), k * Larger(MinSize, room))
        x == (low + high) * q + (2 * at - low - high) * p
    IN <<Rounded(Between(0, x, Larger(0, k * room - s)), k), Rounded(s, k)>>

scaleAllLabelElements(elements, p, q) ==
    LET E == DOMAIN elements
        low(at) == Min({elements[e][at] : e \in E})
        high(at, size) == Max({elements[e][at] + elements[e][size] : e \in E})
        scaled(b) ==
            LET h == ScaleAxis(b.x, b.width, low("x"), high("x", "width"), LabelWidth, p, q)
                v == ScaleAxis(b.y, b.height, low("y"), high("y", "height"), LabelHeight, p, q)
            IN Box(h[1], v[1], h[2], v[2])
    IN IF E = {} THEN elements ELSE [e \in E |-> scaled(elements[e])]

(* A new element is dropped with its middle at (x, y).                     *)
placeElement(width, height, x, y) ==
    Box(Smaller(Larger(0, Rounded(2 * x - width, 2)), Larger(0, LabelWidth - width)),
        Smaller(Larger(0, Rounded(2 * y - height, 2)), Larger(0, LabelHeight - height)),
        width, height)

Move == -MaxMove .. MaxMove

Nothing == [what |-> "nothing"]
Drag(origins)         == [what |-> "drag", origins |-> origins]
Resize(handle, o)     == [what |-> "resize", handle |-> handle, origin |-> o]
DragAll               == [what |-> "all"]

(* elements: the boxes, by id; rotationDeg: that of element 1.             *)
Fresh(bs, r) == [elements |-> bs, selectedIds |-> {}, rotationDeg |-> r, held |-> Nothing]

Ids == DOMAIN ui.elements

TypeOK ==
    /\ Ids \subseteq 1 .. 2 /\ ui.selectedIds \subseteq Ids
    /\ \A e \in Ids : {ui.elements[e].width, ui.elements[e].height} \subseteq Nat
    /\ ui.held.what \in {"nothing", "drag", "resize", "all"}

(* One element, upright or turned, or two: what is in the template.        *)
Opened ==
    {Fresh(<<>>, 0)}
    \cup {Fresh(<<b>>, r) : b \in Boxes, r \in {0, 90}}
    \cup {Fresh(<<b, c>>, 0) : b \in Boxes, c \in {d \in Boxes : d.width = MinSize /\ d.height = MinSize}}

Init  == ui \in Opened /\ net = <<>>
Mount == ui' \in Opened /\ net' = <<>>

Held(what) == ui.held.what = what
Hold(h)    == ui' = [ui EXCEPT !.held = h] /\ UNCHANGED net
Put(bs)    == ui' = [ui EXCEPT !.elements = bs] /\ UNCHANGED net

(* What a press on element e of the group g selects (resolveClickSelection *)
(* in LabelEditorPage): the group, or with Ctrl the group more or less; an *)
(* element of a selection keeps it.                                        *)
Chosen(e, g) ==
    LET ids == ui.selectedIds
    IN {g, IF e \in ids THEN ids ELSE g, IF g \subseteq ids THEN ids \ g ELSE ids \cup g}

(* What is selected is dragged, and what was pressed with it, even when    *)
(* Ctrl took it out of the selection: then without the rest of its group.  *)
handlePointerDown(e) ==
    /\ Held("nothing")
    /\ \E g \in SUBSET Ids : e \in g /\ \E ids \in Chosen(e, g) :
          ui' = [ui EXCEPT !.selectedIds = ids,
                           !.held = Drag([d \in ids \cup {e} |-> ui.elements[d]])]
    /\ UNCHANGED net

(* Bounds: a resize looks at no other element and is explored where there  *)
(* is none; elements that stick out by more than the rounding are not      *)
(* resized, a resize from a corner would push them on and on.              *)
handleResizePointerDown(handle) ==
    /\ Held("nothing") /\ Ids = {1}
    /\ \E e \in Ids : ui.selectedIds = {e} /\ OnLabel(ui.elements[e], 1) /\ Hold(Resize(handle, ui.elements[e]))

handleGroupPointerDown ==
    /\ Held("nothing") /\ Ids # {}
    /\ ui' = [ui EXCEPT !.held = DragAll, !.selectedIds = {}]
    /\ UNCHANGED net

handlePointerUp == ~Held("nothing") /\ Hold(Nothing)

(* A turned element is resized about its middle.                           *)
Resized(dx, dy) ==
    LET d == screenDeltaToLocalElementDelta(dx, dy, ui.rotationDeg)
        b == resizeLabelElementBox(ui.held.origin, ui.held.handle, d[1], d[2])
    IN IF ui.rotationDeg = 0 THEN b
       ELSE placeBoxKeepingCenter(ui.held.origin, b.width, b.height)

handlePointerMove(dx, dy) ==
    \/ /\ Held("resize")
       /\ \E e \in ui.selectedIds : Put([ui.elements EXCEPT ![e] = Resized(dx, dy)])
    \/ /\ Held("drag")
       /\ Put(applyLabelElementDragFromOrigins(ui.elements, ui.held.origins, dx, dy))

handleGroupPointerMove(dx, dy) ==
    /\ Held("all") /\ <<dx, dy>> # <<0, 0>>
    /\ Put(offsetAllLabelElements(ui.elements, dx, dy))

nudgeAll ==
    /\ Held("nothing")
    /\ \E d \in {<<1, 0>>, <<-1, 0>>, <<0, 1>>, <<0, -1>>} :
          Put(offsetAllLabelElements(ui.elements, d[1], d[2]))

scaleAll ==
    /\ Held("nothing") /\ Ids # {}
    /\ \E up \in BOOLEAN :
          Put(scaleAllLabelElements(ui.elements, IF up THEN ScaleUp ELSE ScaleDown,
                                                 IF up THEN ScaleDown ELSE ScaleUp))

handleDrop ==
    /\ Held("nothing") /\ Ids = {}
    /\ \E b \in Boxes, x \in 0 .. LabelWidth, y \in 0 .. LabelHeight :
          ui' = [ui EXCEPT !.elements = <<placeElement(b.width, b.height, x, y)>>,
                           !.selectedIds = {1}]
    /\ UNCHANGED net

Next ==
    \/ \E e \in Ids : handlePointerDown(e)
    \/ handleGroupPointerDown \/ handlePointerUp
    \/ \E h \in Handle : handleResizePointerDown(h)
    \/ \E dx, dy \in Move : handlePointerMove(dx, dy) \/ handleGroupPointerMove(dx, dy)
    \/ nudgeAll \/ scaleAll \/ handleDrop

Spec == Init /\ [][Next]_<<ui, net>>

PressedOnLabel ==
    /\ Held("resize") => OnLabel(ui.held.origin, 0)
    /\ Held("drag") => \A e \in DOMAIN ui.held.origins : OnLabel(ui.held.origins[e], 0)

AllOnLabel(s, rounding) == \A e \in DOMAIN s.elements : OnLabel(s.elements[e], rounding)

(* However far the pointer goes, and whatever is dropped, nudged or        *)
(* scaled, no element goes off the label by more than the rounding -- but  *)
(* one that is pulled by a corner down to the least size.  The numbers     *)
(* typed for an element or for the label, and an image that takes the      *)
(* place of another, are no steps of the canvas, and nothing bounds them.  *)
BoxesOnLabel ==
    AllOnLabel(ui, 0) /\ PressedOnLabel =>
       \/ AllOnLabel(ui', 1)
       \/ /\ Held("resize") /\ ui.held.handle \in Corner
          /\ \E e \in ui.selectedIds :
                MinSize \in {ui'.elements[e].width, ui'.elements[e].height}

(* The edge or the corner across from the handle is where it was when the  *)
(* handle was taken, to the rounding.                                      *)
Anchored(b, o, handle) ==
    LET near == IF handle \in Corner THEN 1 ELSE 0
        stays(u, v) == Magnitude(u - v) <= near
    IN /\ IF handle \in West THEN stays(b.x + b.width, o.x + o.width) ELSE stays(b.x, o.x)
       /\ IF handle \in North THEN stays(b.y + b.height, o.y + o.height) ELSE stays(b.y, o.y)

(* On each axis the middle is where it was, or the label's edge stops it.  *)
Centred(b, o) ==
    LET stays(at, size, room) ==
            \/ Magnitude(2 * b[at] + b[size] - 2 * o[at] - o[size]) <= 1
            \/ b[at] = 0 \/ b[at] + b[size] >= room
    IN stays("x", "width", LabelWidth) /\ stays("y", "height", LabelHeight)

ResizedFrom(e) == Held("resize") /\ e \in ui.selectedIds /\ OnLabel(ui.held.origin, 0)

AtLeastSize(b) == ui.held.handle \in Corner /\ (b.width = MinSize \/ b.height = MinSize)

(* However far a handle is pulled: of an upright element the other side    *)
(* stays, unless a corner brings it down to the least size, where it does  *)
(* not (OppositeAnchored); of a turned one the middle.                     *)
ResizeAnchored ==
    \A e \in Ids : ResizedFrom(e) =>
       LET b == ui.elements[e]
       IN IF ui.rotationDeg = 0 THEN AtLeastSize(b) \/ Anchored(b, ui.held.origin, ui.held.handle)
          ELSE ui.elements[e] = ui.held.origin \/ Centred(b, ui.held.origin)

(* The comments of resizeLabelElementBox make no exception for the least   *)
(* size (label-types.ts:157, :294).                                        *)
OppositeAnchored ==
    \A e \in Ids : ResizedFrom(e) /\ ui.rotationDeg = 0 =>
       Anchored(ui.elements[e], ui.held.origin, ui.held.handle)

(* What is dragged together keeps its shape, also at the edge of the       *)
(* label, and the rest stays.                                              *)
DragKeepsShape ==
    Held("drag") =>
       LET o == ui.held.origins
           e0 == CHOOSE e \in DOMAIN o : TRUE
       IN \A e \in DOMAIN o :
             /\ ui.elements[e].x - o[e].x = ui.elements[e0].x - o[e0].x
             /\ ui.elements[e].y - o[e].y = ui.elements[e0].y - o[e0].y
=============================================================================
