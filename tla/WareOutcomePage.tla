-------------------------- MODULE WareOutcomePage ---------------------------
(***************************************************************************)
(* Handing out a delivery note (ui/src/pages/ware_outcome_detail.tsx): the *)
(* amount of each line is corrected, then the line is made ready, one by   *)
(* one or all together, and can be taken back or deleted.  A quantity is 0 *)
(* when the text of its field is no positive number.                       *)
(***************************************************************************)
EXTENDS Backend, Functions, TLC

CONSTANTS Item, Quantity, None   \* Quantity: the positive amounts

VARIABLE ui

Rows   == UNION {[s -> [actual: Quantity, ready: BOOLEAN]] : s \in SUBSET Item}
Drafts == UNION {[s -> Quantity \cup {0}] : s \in SUBSET Item}

Fresh == [items |-> <<>>, draft |-> <<>>, loading |-> TRUE, saving |-> None,
          confirming |-> None, unconfirming |-> None, deleting |-> None,
          confirmingAll |-> FALSE, unconfirmingAll |-> FALSE, shortage |-> FALSE]

TypeOK ==
    /\ ui.items \in Rows /\ ui.draft \in Drafts
    /\ {ui.saving, ui.confirming, ui.unconfirming, ui.deleting} \subseteq Item \cup {None}
    /\ {ui.loading, ui.confirmingAll, ui.unconfirmingAll, ui.shortage} \subseteq BOOLEAN

Mount == ui' = Fresh /\ net' = <<Call("items", None)>>

loadItems(i) ==
    /\ Ends(i, "items")
    /\ \E rows \in Rows :
          ui' = [ui EXCEPT !.loading = FALSE, !.items = rows,
                           !.draft = [k \in DOMAIN rows |-> rows[k].actual]]

Ready(k) == ui.items[k].ready
Pending  == {k \in DOMAIN ui.items : ~Ready(k)}
isBusy(k) ==
    \/ ui.confirmingAll \/ ui.unconfirmingAll
    \/ k \in {ui.saving, ui.confirming, ui.unconfirming, ui.deleting}
(* The shortage dialog is modal.                                           *)
Shown(k)    == k \in DOMAIN ui.items /\ ~ui.loading /\ ~ui.shortage
Editable(k) == Shown(k) /\ ~Ready(k) /\ ~isBusy(k)

updateDraftQty(k, q) ==
    /\ Editable(k)
    /\ ui' = [ui EXCEPT !.draft[k] = q]
    /\ UNCHANGED net

(* Leaving the field saves its amount, when it is one and a new one.       *)
saveQuantity(k) ==
    /\ Editable(k) /\ ui.draft[k] # ui.items[k].actual
    /\ \/ /\ ui.draft[k] = 0
          /\ ui' = [ui EXCEPT !.draft[k] = ui.items[k].actual] /\ UNCHANGED net
       \/ /\ ui.draft[k] # 0 /\ Post("save", [id |-> k, new |-> ui.draft[k], old |-> ui.items[k].actual])
          /\ ui' = [ui EXCEPT !.saving = k]

Saved(i) ==
    /\ Ends(i, "save")
    /\ LET c == net[i].arg done == [ui EXCEPT !.saving = None]
       IN \/ ui' = [done EXCEPT !.draft = (c.id :> c.old) @@ @]
          \/ ui' = IF c.id \in DOMAIN ui.items THEN [done EXCEPT !.items[c.id].actual = c.new]
                                               ELSE done

confirmItem(k) ==
    /\ Editable(k) /\ ui.draft[k] # 0
    /\ Post("confirm", [id |-> k, new |-> ui.draft[k]])
    /\ ui' = [ui EXCEPT !.confirming = k]

(* Mutant: the line is put back when it was deleted meanwhile.             *)
ConfirmedInserts(i) ==
    /\ Ends(i, "confirm")
    /\ LET c == net[i].arg done == [ui EXCEPT !.confirming = None]
       IN \/ ui' = done
          \/ ui' = [done EXCEPT !.draft = (c.id :> c.new) @@ @,
                                !.items = (c.id :> [actual |-> c.new, ready |-> TRUE]) @@ @]

Confirmed(i) ==
    /\ Ends(i, "confirm")
    /\ LET c == net[i].arg
           done == [ui EXCEPT !.confirming = None]
           drawn == [done EXCEPT !.draft = (c.id :> c.new) @@ @]
       IN \/ ui' = done
          \/ ui' = IF c.id \in DOMAIN ui.items
                   THEN [drawn EXCEPT !.items[c.id] = [actual |-> c.new, ready |-> TRUE]]
                   ELSE drawn

unconfirmItem(k) ==
    /\ Shown(k) /\ Ready(k) /\ ~isBusy(k)
    /\ Post("unconfirm", k)
    /\ ui' = [ui EXCEPT !.unconfirming = k]

Unconfirmed(i) ==
    /\ Ends(i, "unconfirm")
    /\ LET k == net[i].arg done == [ui EXCEPT !.unconfirming = None]
       IN \/ ui' = done
          \/ ui' = IF k \in DOMAIN ui.items THEN [done EXCEPT !.items[k].ready = FALSE] ELSE done

deleteItem(k) ==
    /\ Editable(k)
    /\ Post("delete", k)
    /\ ui' = [ui EXCEPT !.deleting = k]

Deleted(i) ==
    /\ Ends(i, "delete")
    /\ LET k == net[i].arg done == [ui EXCEPT !.deleting = None]
       IN \/ ui' = done
          \/ ui' = [done EXCEPT !.items = Restrict(@, DOMAIN @ \ {k}),
                                !.draft = Restrict(@, DOMAIN @ \ {k})]

(* The buttons for all lines look only at their own requests.              *)
confirmAll ==
    /\ ~ui.loading /\ ~ui.confirmingAll /\ Pending # {} /\ ~ui.shortage
    /\ \A k \in Pending : ui.draft[k] # 0
    /\ Post("confirmall", [k \in Pending |-> ui.draft[k]])
    /\ ui' = [ui EXCEPT !.confirmingAll = TRUE]

(* Every line on the screen turns ready, the posted ones with their amount.*)
ConfirmedAll(i) ==
    /\ Ends(i, "confirmall")
    /\ LET sent == net[i].arg
           done == [ui EXCEPT !.confirmingAll = FALSE]
           new(k) == IF k \in DOMAIN sent /\ ~Ready(k) THEN sent[k] ELSE ui.items[k].actual
       IN \/ \E s \in BOOLEAN : ui' = [done EXCEPT !.shortage = s]
          \/ ui' = [done EXCEPT !.items = [k \in DOMAIN @ |-> [actual |-> new(k), ready |-> TRUE]],
                                !.draft = sent @@ @]

unconfirmAll ==
    /\ ~ui.loading /\ ~ui.unconfirmingAll /\ Pending # DOMAIN ui.items /\ ~ui.shortage
    /\ Post("unconfirmall", None)
    /\ ui' = [ui EXCEPT !.unconfirmingAll = TRUE]

UnconfirmedAll(i) ==
    /\ Ends(i, "unconfirmall")
    /\ LET done == [ui EXCEPT !.unconfirmingAll = FALSE]
       IN \/ ui' = done
          \/ ui' = [done EXCEPT !.items = [k \in DOMAIN @ |-> [@[k] EXCEPT !.ready = FALSE]]]

CloseDialog ==
    /\ ui.shortage
    /\ ui' = [ui EXCEPT !.shortage = FALSE]
    /\ UNCHANGED net

Next ==
    \/ \E k \in Item : \/ saveQuantity(k) \/ confirmItem(k) \/ unconfirmItem(k) \/ deleteItem(k)
                       \/ \E q \in Quantity \cup {0} : updateDraftQty(k, q)
    \/ confirmAll \/ unconfirmAll \/ CloseDialog
    \/ \E i \in DOMAIN net : \/ loadItems(i) \/ Saved(i) \/ Confirmed(i) \/ Unconfirmed(i)
                             \/ Deleted(i) \/ ConfirmedAll(i) \/ UnconfirmedAll(i)

Sent(op, k) == \E i \in DOMAIN net : net[i].op = op /\ net[i].arg.id = k

(* A line's marker is about its own request, not about another line's.     *)
SpinnersEnd ==
    /\ ui.loading => OnTheWay("items")
    /\ ui.saving # None => Sent("save", ui.saving)
    /\ ui.confirming # None => Sent("confirm", ui.confirming)
    /\ ui.unconfirming # None => Waiting("unconfirm", ui.unconfirming)
    /\ ui.deleting # None => Waiting("delete", ui.deleting)
    /\ ui.confirmingAll => OnTheWay("confirmall")
    /\ ui.unconfirmingAll => OnTheWay("unconfirmall")

(* An answer that comes late never brings a deleted line back.             *)
DeletedStaysGone == ~OnTheWay("items") => DOMAIN ui'.items \subseteq DOMAIN ui.items

(* The buttons for all lines.  Those of the lines share one marker each: a *)
(* line pressed between two presses of another takes the marker away, and  *)
(* the other may be on the way twice.                                      *)
OneCallPerButton == AtMostOne({"confirmall"}) /\ AtMostOne({"unconfirmall"})
=============================================================================
