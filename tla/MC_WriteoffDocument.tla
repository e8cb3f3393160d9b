------------------------ MODULE MC_WriteoffDocument -------------------------
(***************************************************************************)
(* Instances of WriteoffDocument for TLC.  One run looks at two scenes,    *)
(* chosen in the initial state: a document of components, with two saves   *)
(* or submissions at once and two rounds of approvals; and two documents   *)
(* that list the same product, saved one after the other and each sent     *)
(* once to one responsible.                                                *)
(***************************************************************************)
EXTENDS WriteoffDocument

VARIABLE scene

MCInit == Init /\ scene \in {"component", "product"}

(* The document of the first scene, and the symmetry that leaves it be.    *)
First       == CHOOSE d \in Docs : TRUE
MCSymmetric == Permutations(Users) \cup Permutations(ResponsibleRequests)
               \cup Permutations(CreatorRequests)

Saving(r)   == op[r].pc \in {"saving", "deleted"}
SavedItems  == UNION {op[r].items : r \in {k \in CreatorRequests : Saving(k)}}
Savers      == {r \in CreatorRequests :
                   op[r] # Idle \/ \E d \in Docs, i \in Items : <<i, r>> \in items[d]}

(* What the line took of a component.                                      *)
Consumed(i) == MaxBalance - balance[i] - records[First][i]

(* What the scene leaves out of the state.                                 *)
InScene ==
    \/ /\ scene = "component"
       /\ \A d \in Docs \ {First} : status[d] = "new"
       /\ SavedItems \subseteq ComponentItems
       /\ \A i \in ProductItems : product[i] = "active"
       /\ \A i \in ComponentItems : Consumed(i) <= 1
    \/ /\ scene = "product"
       /\ SavedItems \subseteq ProductItems
       /\ \A d \in Docs : round[d] <= 1
       /\ \A r, k \in Savers : r = k
       /\ (\A d \in Docs : status[d] = "new") \/ Cardinality(responsibles) <= 1
       /\ \A i \in ComponentItems : balance[i] = MaxBalance

MCNext == Next /\ UNCHANGED scene /\ InScene'

MCSpec == MCInit /\ [][MCNext]_<<vars, scene>>
=============================================================================
