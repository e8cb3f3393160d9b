----------------------------- MODULE AgentPage ------------------------------
(***************************************************************************)
(* The agent's page (ui/src/pages/agent.tsx) and the server behind it: the *)
(* handler a call asks for runs while the page goes on, beside the worker  *)
(* and the deploys of AgentTasks.  The flag for the menu that the access   *)
(* call also stores is in Client.                                          *)
(***************************************************************************)
EXTENDS Backend

CONSTANTS MaxTasks, MaxJobs

VARIABLES ui, tasks

Server == INSTANCE AgentTasks
Task   == Server!Task

NoList == [t \in Task |-> "none"]
Fresh == [allowed |-> "unknown", list |-> NoList, loading |-> TRUE, submitting |-> FALSE]

(* A call is sent, handled, and done or failed; and what it asks for.      *)
Sent(t, origin) == [stage |-> "sent", task |-> t, origin |-> origin]
Ask             == Sent(0, "none")

TypeOK ==
    /\ Server!TypeOK
    /\ ui \in [allowed: {"unknown", "yes", "no"}, list: [Task -> Server!Status],
               loading: BOOLEAN, submitting: BOOLEAN]

Mount == ui' = Fresh /\ net' = <<Call("access", Ask)>> /\ tasks' = [t \in Task |-> Server!NoTask]

(* Who is not the owner is sent home.                                      *)
loadAccess(i) ==
    /\ UNCHANGED tasks
    /\ \/ Ends(i, "access") /\ ui' = [ui EXCEPT !.allowed = "no"]
       \/ Answered(i, "access", <<Call("tasks", Ask)>>) /\ ui' = [ui EXCEPT !.allowed = "yes"]

(* The button, and the timer while a task of the list is active.           *)
loadTasks ==
    /\ ui.allowed = "yes"
    /\ Post("tasks", Ask) /\ ui' = [ui EXCEPT !.loading = TRUE] /\ UNCHANGED tasks

(* The list is as the server had it when it answered, and gets old on the  *)
(* screen.                                                                 *)
TasksLoaded(i) ==
    /\ Ends(i, "tasks") /\ UNCHANGED tasks
    /\ \E list \in {NoList, [t \in Task |-> tasks[t].status]} :
          ui' = [ui EXCEPT !.loading = FALSE, !.list = list]

handleCreate(origin) ==
    /\ ui.allowed = "yes" /\ ~ui.submitting
    /\ Post("create", Sent(0, origin))
    /\ ui' = [ui EXCEPT !.submitting = TRUE] /\ UNCHANGED tasks

(* The buttons of a row go by the status the list had; none waits for the  *)
(* answer to the one before.                                               *)
Offered(op, t) ==
    /\ ui.allowed = "yes" /\ ~ui.loading
    /\ ui.list[t] \in CASE op = "approveTest" -> {"ready_for_test", "failed"}
                        [] op = "approveProd" -> {"ready_for_prod"}
                        [] op = "reject"      -> Server!Status \ {"none", "promoted", "rejected"}

Press(op, t) == Offered(op, t) /\ Post(op, Sent(t, "none")) /\ UNCHANGED <<ui, tasks>>

Stage(i, op, stage) == net[i].op = op /\ net[i].arg.stage = stage
Becomes(i, stage, t) == net' = [net EXCEPT ![i].arg.stage = stage, ![i].arg.task = t] /\ UNCHANGED ui

(* The server takes a call.                                                *)
Handle(i) ==
    LET t == net[i].arg.task
    IN  \/ /\ Stage(i, "create", "sent")
           /\ \/ Server!AgentTaskHasActive /\ UNCHANGED tasks /\ Becomes(i, "failed", t)
              \/ \E u \in Task :
                    Server!AgentTaskCreate(u, net[i].arg.origin) /\ Becomes(i, "handled", u)
        \/ /\ Stage(i, "approveTest", "sent")
           /\ IF Server!ForTest(t)
              THEN Server!AgentTasksApproveTest(t) /\ Becomes(i, "handled", t)
              ELSE UNCHANGED tasks /\ Becomes(i, "failed", t)
        \/ /\ Stage(i, "approveProd", "sent")
           /\ IF Server!ForProd(t)
              THEN Server!AgentTasksApproveProd(t) /\ Becomes(i, "handled", t)
              ELSE UNCHANGED tasks /\ Becomes(i, "failed", t)
        \/ Stage(i, "reject", "sent") /\ Server!AgentTasksReject(t) /\ Becomes(i, "done", t)

Finish(i) ==
    LET t == net[i].arg.task
    IN  /\ \/ Stage(i, "create", "handled") /\ Server!AgentTasksCreate(t)
           \/ Stage(i, "approveTest", "handled") /\ Server!ApproveTestSet(t)
           \/ Stage(i, "approveProd", "handled") /\ Server!ApproveProdSet(t)
        /\ Becomes(i, "done", t)

(* A call that was done shows the list again; its answer may be lost.      *)
Settle(i, op) ==
    LET s == IF op = "create" THEN [ui EXCEPT !.submitting = FALSE] ELSE ui
    IN  /\ UNCHANGED tasks
        /\ \/ Stage(i, op, "failed") /\ Ends(i, op) /\ ui' = s
           \/ Stage(i, op, "done") /\ Ends(i, op) /\ ui' = s
           \/ /\ Stage(i, op, "done") /\ Answered(i, op, <<Call("tasks", Ask)>>)
              /\ ui' = [s EXCEPT !.loading = TRUE]

ServerStops ==
    /\ Server!ServerStops /\ UNCHANGED ui
    /\ net' = [i \in DOMAIN net |-> [net[i] EXCEPT !.arg.stage = "failed"]]

Press3 == {"approveTest", "approveProd", "reject"}

Next ==
    \/ loadTasks \/ ServerStops
    \/ \E o \in {"server", "pc"} : handleCreate(o)
    \/ \E op \in Press3, t \in Task : Press(op, t)
    \/ \E i \in DOMAIN net : loadAccess(i) \/ TasksLoaded(i) \/ Handle(i) \/ Finish(i)
    \/ \E i \in DOMAIN net, op \in Press3 \cup {"create"} : Settle(i, op)
    \/ (\E t \in Task : Server!Work(t)) /\ UNCHANGED <<ui, net>>

SpinnersEnd ==
    /\ ui.allowed = "yes" /\ ui.loading => OnTheWay("tasks")
    /\ ui.submitting => OnTheWay("create")

(* The task that is written down; no button of a task waits, see Offered.  *)
OneCallPerButton == AtMostOne({"create"})

PromotedWasBuilt == Server!PromotedWasBuilt
=============================================================================
