------------------------------ MODULE Handover ------------------------------
(***************************************************************************)
(* What a delivery promises: whole items go from the warehouse to their    *)
(* line in one step, each item once, and as much as leaves the one is      *)
(* entered for the other.  Whatever else changes a stock, or the           *)
(* transactions of a line, changes one of them and receives nothing.       *)
(***************************************************************************)
EXTENDS Naturals, FiniteSetsExt

CONSTANTS Notes, Components, Lines, MaxQuantity, InitialStock

Items == Notes \X Components \X Lines

VARIABLES ware, line, received

Init ==
    /\ ware = [c \in Components |-> InitialStock]
    /\ line = [k \in Lines \X Components |-> 0]
    /\ received = {}

Total(S, q) == MapThenSumSet(LAMBDA i : q[i], S)

HandOver(S, q) ==
    /\ received' = received \cup S
    /\ ware' = [c \in Components |-> ware[c] - Total({i \in S : i[2] = c}, q)]
    /\ line' = [k \in Lines \X Components |->
                   line[k] + Total({i \in S : <<i[3], i[2]>> = k}, q)]

Stocked ==
    /\ \E c \in Components : ware' = [ware EXCEPT ![c] = ware'[c]]
    /\ UNCHANGED <<line, received>>

Changed ==
    /\ \E k \in Lines \X Components : line' = [line EXCEPT ![k] = line'[k]]
    /\ UNCHANGED <<ware, received>>

Next ==
    \/ \E S \in SUBSET (Items \ received) : \E q \in [S -> 1 .. MaxQuantity] : HandOver(S, q)
    \/ Stocked
    \/ Changed

Spec == Init /\ [][Next]_<<ware, line, received>>
=============================================================================
