------------------------------ MODULE Backend ------------------------------
(***************************************************************************)
(* The client's side of a request (ui/src/services/backend.tsx).  A page   *)
(* posts calls and goes on; each call is answered once, in any order, with *)
(* a result "ok" or "error" -- an error may also be a timeout after the    *)
(* server did the work.  The server is not modelled here: the page that    *)
(* takes an answer takes whatever rows any server could send.              *)
(***************************************************************************)
EXTENDS Naturals, Sequences

CONSTANT MaxCalls      \* bound on the calls a page has on the way

VARIABLE net           \* the calls on the way, in the order they were posted

(* A call by itself, and one of several that a Promise.all waits for.      *)
Call(op, arg) == [op |-> op, arg |-> arg, all |-> FALSE]
Part(op, arg) == [op |-> op, arg |-> arg, all |-> TRUE]

OnTheWay(op)       == \E i \in DOMAIN net : net[i].op = op
Waiting(op, arg)   == \E i \in DOMAIN net : net[i].op = op /\ net[i].arg = arg
AtMostOne(ops)     == \A i, j \in DOMAIN net : net[i].op \in ops /\ net[j].op \in ops => i = j
(* No call of the Promise.all is left once the i-th is answered.           *)
AllDone(i)         == \A j \in DOMAIN net \ {i} : ~net[j].all
BatchOnTheWay      == \E i \in DOMAIN net : net[i].all

Posts(calls) == Len(net) + Len(calls) <= MaxCalls /\ net' = net \o calls

Post(op, arg) == Posts(<<Call(op, arg)>>)

(* The calls but the i-th, in their order.                                 *)
Others(i) == [j \in 1 .. Len(net) - 1 |-> net[IF j < i THEN j ELSE j + 1]]

(* Backend_Request never throws: its caller always continues, here by      *)
(* posting more calls.                                                     *)
Answered(i, op, calls) ==
    /\ i \in DOMAIN net /\ net[i].op = op
    /\ net' = Others(i) \o calls

Ends(i, op) == Answered(i, op, <<>>)
=============================================================================
