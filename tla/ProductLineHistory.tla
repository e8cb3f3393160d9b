------------------------ MODULE ProductLineHistory -------------------------
(* ProductLine with two history variables: where the product stood when a  *)
(* handler transferred it, and the handlers whose product another request  *)
(* has moved since.                                                        *)
EXTENDS ProductLine

(* Every print handler of the code in service: besides entry and packing,  *)
(* T1 to T2 and T2 to T3.                                                  *)
AllStations == {<<T1LineID, T2LineID>>, <<T2LineID, T3LineID>>}

VARIABLES before, disturbed

hvars == <<vars, before, disturbed>>

Standing(s)    == [l \in Lines |-> {rows[i].status : i \in OnLine(l, s)}]
Transferred(h) == op[h].pc = "transferred"

HInit ==
    /\ Init
    /\ before = [h \in Handlers |-> [l \in Lines |-> {}]]
    /\ disturbed = {}

HNext ==
    /\ Next
    /\ before' = [h \in Handlers |->
                    IF ~Transferred(h) /\ Transferred(h)' THEN Standing(op'[h].serial)
                                                          ELSE before[h]]
    /\ disturbed' = {h \in Handlers :
                        /\ Transferred(h) /\ Transferred(h)'
                        /\ \/ h \in disturbed
                           \/ Standing(op[h].serial)' # Standing(op[h].serial)}

HSpec == HInit /\ [][HNext]_hvars

(* A failed print undoes exactly what its transfer did: unless another     *)
(* request moved the product meanwhile, it was written off, or a photo     *)
(* pins the new row, the product stands on every line as it stood before   *)
(* the transfer (ProductLineTransferRollback after T2, T3 and packing).    *)
RollbackRestores ==
    [][\A h \in Handlers, s \in Serials :
          /\ ProductLineTransferRollback(h)
          /\ s = op[h].serial
          /\ s \notin scrapped
          /\ h \notin disturbed
          /\ ~op[h].photo
          => Standing(s)' = before[h]]_hvars
=============================================================================
