----------------------------- MODULE AgentTasks -----------------------------
(***************************************************************************)
(* The tasks for the coding agent (internal/api/c_agent.go, internal/store/*)
(* r_agent_tasks.go) and the worker that runs them (agent/src/worker.js).  *)
(* The owner approves a finished task for the test server and then for     *)
(* production.  Every status is written by an update that does not look at *)
(* the status before; the handlers, their deploys and the worker overlap.  *)
(***************************************************************************)
EXTENDS Naturals, FiniteSets, TLAPS

CONSTANTS
    MaxTasks,      \* bound on the tasks created
    MaxJobs        \* bound on the handlers and deploys that overlap

VARIABLE tasks     \* the rows of agent.tasks, and what is being done for each

Task         == 1 .. MaxTasks
ActiveStatus == {"queued", "running", "testing", "promoting"}
Status       == ActiveStatus \cup
                {"none", "ready_for_test", "failed", "ready_for_prod", "promoted", "rejected"}

(* How far a handler or a deploy has come: it has read the status, set it  *)
(* and started the deploy; the script runs; its success has been written.  *)
TestJob == {"testRead", "testSet", "testDeploy", "testSwap"}
ProdJob == {"prodRead", "prodSet", "prodDeploy", "prodRestart"}

NoTask == [status |-> "none", origin |-> "none", creating |-> FALSE, run |-> FALSE,
           jobs |-> {}, built |-> FALSE]

(* built: the script of a deploy for test succeeded; its program may not   *)
(* have been put in place.                                                 *)
Row == [status: Status, origin: {"none", "server", "pc"}, creating: BOOLEAN, run: BOOLEAN,
        jobs: SUBSET (TestJob \cup ProdJob), built: BOOLEAN]

Init == tasks = [t \in Task |-> NoTask]

AgentTaskHasActive == \E t \in Task : tasks[t].status \in ActiveStatus

(* AgentTasksCreate: the look for an active task, the insert, and a second *)
(* update that the worker may come before.                                 *)
AgentTaskCreate(t, origin) ==
    /\ t \in Task /\ tasks[t] = NoTask /\ \A u \in 1 .. t - 1 : tasks[u] # NoTask
    /\ ~AgentTaskHasActive
    /\ tasks' = [tasks EXCEPT ![t].creating = TRUE, ![t].origin = origin]

AgentTaskInsert(t) ==
    /\ tasks[t].creating /\ tasks[t].status = "none"
    /\ tasks' = [tasks EXCEPT ![t].status = "queued"]

AgentTasksCreate(t) ==
    /\ tasks[t].creating /\ tasks[t].status # "none"
    /\ tasks' = [tasks EXCEPT
                   ![t].creating = FALSE,
                   ![t].status = IF tasks[t].origin = "pc" THEN "ready_for_test" ELSE "queued"]

(* The one worker takes the oldest task that is queued for it.             *)
Queued == {t \in Task : tasks[t].status = "queued" /\ tasks[t].origin = "server"}

claimNext(t) ==
    /\ t \in Queued /\ \A u \in Queued : t <= u
    /\ \A u \in Task : ~tasks[u].run
    /\ tasks' = [tasks EXCEPT ![t].status = "running", ![t].run = TRUE]

processOne(t) ==
    /\ tasks[t].run
    /\ \E s \in {"ready_for_test", "failed"} :
          tasks' = [tasks EXCEPT ![t].status = s, ![t].run = FALSE]

(* The worker stops, or cannot write the result of its run: the task stays *)
(* as it is.                                                               *)
WorkerStops(t) ==
    /\ tasks[t].run
    /\ tasks' = [tasks EXCEPT ![t].run = FALSE]

Jobs == {p \in Task \X (TestJob \cup ProdJob) : p[2] \in tasks[p[1]].jobs}

(* A handler that lets the task through.                                   *)
ForTest(t) == tasks[t].status \in {"ready_for_test", "failed"}
ForProd(t) == tasks[t].status = "ready_for_prod"

Approve(t, job) ==
    /\ job \notin tasks[t].jobs /\ Cardinality(Jobs) < MaxJobs
    /\ tasks' = [tasks EXCEPT ![t].jobs = @ \cup {job}]

AgentTasksApproveTest(t) == ForTest(t) /\ Approve(t, "testRead")
AgentTasksApproveProd(t) == ForProd(t) /\ Approve(t, "prodRead")

(* A job goes on and writes a status.                                      *)
Goes(t, from, to, status) ==
    /\ from \in tasks[t].jobs /\ to \cap tasks[t].jobs = {}
    /\ tasks' = [tasks EXCEPT ![t].jobs = (@ \ {from}) \cup to, ![t].status = status]

ApproveTestSet(t) == Goes(t, "testRead", {"testSet"}, "testing")

(* Mutant: the success is written before the script is run, so that no     *)
(* restart loses it.                                                       *)
agentRunDeployEarly(t) ==
    \/ Goes(t, "testSet", {"testDeploy"}, "ready_for_prod")
    \/ Goes(t, "testDeploy", {}, "failed")
    \/ Goes(t, "testSwap", {}, "failed")
    \/ Goes(t, "testSwap", {}, tasks[t].status)

agentRunDeployTest(t) ==
    \/ Goes(t, "testSet", {"testDeploy"}, "testing")
    \/ Goes(t, "testDeploy", {}, "failed")
    \/ Goes(t, "testSwap", {}, "failed")
    \/ Goes(t, "testSwap", {}, tasks[t].status)

(* The script succeeded: the status is written before the server is        *)
(* stopped, the new program put in place and the server started again.     *)
TestBuilt(t) ==
    /\ "testDeploy" \in tasks[t].jobs /\ "testSwap" \notin tasks[t].jobs
    /\ tasks' = [tasks EXCEPT ![t].jobs = (@ \ {"testDeploy"}) \cup {"testSwap"},
                              ![t].status = "ready_for_prod", ![t].built = TRUE]

ApproveProdSet(t) == Goes(t, "prodRead", {"prodSet"}, "promoting")

agentRunDeployProd(t) ==
    \/ Goes(t, "prodSet", {"prodDeploy"}, "promoting")
    \/ Goes(t, "prodDeploy", {}, "ready_for_prod")
    \/ Goes(t, "prodDeploy", {"prodRestart"}, "promoted")
    \/ Goes(t, "prodRestart", {}, "ready_for_prod")
    \/ Goes(t, "prodRestart", {}, "promoted")
    \/ Goes(t, "prodRestart", {}, tasks[t].status)

AgentTasksReject(t) ==
    /\ tasks[t].status # "none"
    /\ tasks' = [tasks EXCEPT ![t].status = "rejected"]

(* The server is restarted, by its own deploy to test too: the handlers    *)
(* and the deploys end where they are.                                     *)
ServerStops ==
    /\ \E t \in Task : tasks[t].creating \/ tasks[t].jobs # {}
    /\ tasks' = [t \in Task |-> IF tasks[t].status = "none" THEN NoTask
                               ELSE [tasks[t] EXCEPT !.creating = FALSE, !.jobs = {}]]

(* What goes on without the owner.                                         *)
Work(t) ==
    \/ AgentTaskInsert(t) \/ claimNext(t) \/ processOne(t) \/ WorkerStops(t)
    \/ agentRunDeployTest(t) \/ TestBuilt(t) \/ agentRunDeployProd(t)

Owner(t) ==
    \/ \E o \in {"server", "pc"} : AgentTaskCreate(t, o)
    \/ AgentTasksCreate(t)
    \/ AgentTasksApproveTest(t) \/ ApproveTestSet(t)
    \/ AgentTasksApproveProd(t) \/ ApproveProdSet(t)
    \/ AgentTasksReject(t)

Next == (\E t \in Task : Work(t) \/ Owner(t)) \/ ServerStops

Spec == Init /\ [][Next]_tasks

TypeOK == tasks \in [Task -> Row]

(* Whatever is approved, rejected, retried or restarted meanwhile, no task *)
(* is in production, or on its way there, for which the script that builds *)
(* and copies for test never succeeded.  That the test server ran the      *)
(* result is not promised: the status is written before.                   *)
PromotedWasBuilt ==
    \A t \in Task :
       tasks[t].status \in {"promoting", "promoted"} \/ tasks[t].jobs \cap ProdJob # {}
           => tasks[t].built

(***************************************************************************)
(* Proofs, for any number of tasks and of overlapping approvals and        *)
(* deploys.                                                                *)
(***************************************************************************)
(* The statuses and the jobs that only a successful script of a deploy for *)
(* test leads to: PromotedWasBuilt by itself does not say that a task that *)
(* may still be approved for production was built.                         *)
Cleared == {"ready_for_prod", "promoting", "promoted"}

Good(r) == r.status \in Cleared \/ r.jobs \cap ProdJob # {} => r.built

Inv == TypeOK /\ \A t \in Task : Good(tasks[t])

(* A row that is good by itself keeps the invariant.                       *)
LEMMA RowChanged ==
    ASSUME Inv, NEW t \in Task, NEW r \in Row, Good(r), tasks' = [tasks EXCEPT ![t] = r]
    PROVE  Inv'
<1>1. TypeOK' BY DEF Inv, TypeOK
<1>2. ASSUME NEW u \in Task PROVE Good(tasks'[u])
  <2>1. CASE u = t
    <3>1. tasks'[u] = r BY <2>1 DEF Inv, TypeOK
    <3> QED BY <3>1
  <2>2. CASE u # t
    <3>1. tasks'[u] = tasks[u] BY <2>2 DEF Inv, TypeOK
    <3> QED BY <3>1 DEF Inv
  <2> QED BY <2>1, <2>2
<1> QED BY <1>1, <1>2 DEF Inv

(* A job may write any status of a built task, and go on to production     *)
(* only with one.                                                          *)
LEMMA JobGoes ==
    ASSUME Inv, NEW t \in Task, NEW from, NEW to \in SUBSET (TestJob \cup ProdJob),
           NEW status \in Status, Goes(t, from, to, status),
           status \in Cleared \/ to \cap ProdJob # {} => tasks[t].built
    PROVE  Inv'
<1> DEFINE r == [tasks[t] EXCEPT !.jobs = (@ \ {from}) \cup to, !.status = status]
<1>1. tasks' = [tasks EXCEPT ![t] = r] BY DEF Goes
<1>2. tasks[t] \in Row BY DEF Inv, TypeOK
<1>3. r \in Row BY <1>2 DEF Row
<1>4. /\ r.status = status
      /\ r.jobs = (tasks[t].jobs \ {from}) \cup to
      /\ r.built = tasks[t].built
  BY <1>2 DEF Row
<1>5. Good(tasks[t]) BY DEF Inv
<1>6. Good(r) BY <1>4, <1>5, Zenon DEF Good
<1> HIDE DEF r
<1> QED BY <1>1, <1>3, <1>6, RowChanged

LEMMA InitInv == Init => Inv
<1> SUFFICES ASSUME Init PROVE Inv OBVIOUS
<1>1. NoTask \in Row /\ Good(NoTask) BY DEF NoTask, Row, Good, Cleared, Status, ActiveStatus
<1> QED BY <1>1 DEF Init, Inv, TypeOK

LEMMA OwnerKeepsInv ==
    ASSUME Inv, NEW t \in Task, Owner(t)
    PROVE  Inv'
<1>0. tasks[t] \in Row /\ Good(tasks[t]) BY DEF Inv, TypeOK
<1>1. CASE \E o \in {"server", "pc"} : AgentTaskCreate(t, o)
  <2> PICK o \in {"server", "pc"} : AgentTaskCreate(t, o) BY <1>1
  <2> DEFINE r == [tasks[t] EXCEPT !.creating = TRUE, !.origin = o]
  <2>1. r \in Row BY <1>0 DEF Row
  <2>2. Good(r) BY <1>0 DEF Row, Good
  <2>3. tasks' = [tasks EXCEPT ![t] = r] BY DEF AgentTaskCreate
  <2> HIDE DEF r
  <2> QED BY <2>1, <2>2, <2>3, RowChanged
<1>2. CASE AgentTasksCreate(t)
  <2> DEFINE s == IF tasks[t].origin = "pc" THEN "ready_for_test" ELSE "queued"
             r == [tasks[t] EXCEPT !.creating = FALSE, !.status = s]
  <2>1. s \in Status \ Cleared BY DEF Status, ActiveStatus, Cleared
  <2>2. tasks' = [tasks EXCEPT ![t] = r] BY <1>2 DEF AgentTasksCreate
  <2> HIDE DEF s
  <2>3. r \in Row BY <1>0, <2>1 DEF Row
  <2>4. Good(r) BY <1>0, <2>1 DEF Row, Good
  <2> HIDE DEF r
  <2> QED BY <2>2, <2>3, <2>4, RowChanged
<1>3. CASE AgentTasksApproveTest(t)
  <2> DEFINE r == [tasks[t] EXCEPT !.jobs = @ \cup {"testRead"}]
  <2>1. tasks' = [tasks EXCEPT ![t] = r] BY <1>3 DEF AgentTasksApproveTest, Approve
  <2>2. r \in Row BY <1>0 DEF Row, TestJob
  <2>3. r.status = tasks[t].status /\ r.jobs = tasks[t].jobs \cup {"testRead"}
        /\ r.built = tasks[t].built
    BY <1>0 DEF Row
  <2>4. Good(r) BY <1>0, <2>3 DEF Good, ProdJob
  <2> HIDE DEF r
  <2> QED BY <2>1, <2>2, <2>4, RowChanged
<1>4. CASE ApproveTestSet(t)
  BY <1>4, JobGoes DEF ApproveTestSet, TestJob, ProdJob, Status, ActiveStatus, Cleared
<1>5. CASE AgentTasksApproveProd(t)
  <2> DEFINE r == [tasks[t] EXCEPT !.jobs = @ \cup {"prodRead"}]
  <2>1. tasks' = [tasks EXCEPT ![t] = r] BY <1>5 DEF AgentTasksApproveProd, Approve
  <2>2. r \in Row BY <1>0 DEF Row, ProdJob
  <2>3. tasks[t].built
    BY <1>0, <1>5 DEF AgentTasksApproveProd, ForProd, Good, Cleared
  <2>4. Good(r) BY <1>0, <2>3 DEF Good, Row
  <2> HIDE DEF r
  <2> QED BY <2>1, <2>2, <2>4, RowChanged
<1>6. CASE ApproveProdSet(t)
  <2>1. "prodRead" \in tasks[t].jobs BY <1>6 DEF ApproveProdSet, Goes
  <2>2. tasks[t].built BY <1>0, <2>1 DEF Good, ProdJob
  <2> QED BY <1>6, <2>2, JobGoes DEF ApproveProdSet, ProdJob, Status, ActiveStatus
<1>7. CASE AgentTasksReject(t)
  <2> DEFINE r == [tasks[t] EXCEPT !.status = "rejected"]
  <2>1. r \in Row /\ Good(r) BY <1>0 DEF Row, Good, Status, Cleared
  <2>2. tasks' = [tasks EXCEPT ![t] = r] BY <1>7 DEF AgentTasksReject
  <2> HIDE DEF r
  <2> QED BY <2>1, <2>2, RowChanged
<1> QED BY <1>1, <1>2, <1>3, <1>4, <1>5, <1>6, <1>7 DEF Owner

LEMMA WorkKeepsInv ==
    ASSUME Inv, NEW t \in Task, Work(t)
    PROVE  Inv'
<1>0. tasks[t] \in Row /\ Good(tasks[t]) BY DEF Inv, TypeOK
<1> USE DEF Status, ActiveStatus, Cleared
<1>1. CASE AgentTaskInsert(t)
  <2> DEFINE r == [tasks[t] EXCEPT !.status = "queued"]
  <2>1. r \in Row /\ Good(r) BY <1>0 DEF Row, Good
  <2>2. tasks' = [tasks EXCEPT ![t] = r] BY <1>1 DEF AgentTaskInsert
  <2> HIDE DEF r
  <2> QED BY <2>1, <2>2, RowChanged
<1>2. CASE claimNext(t)
  <2> DEFINE r == [tasks[t] EXCEPT !.status = "running", !.run = TRUE]
  <2>1. r \in Row /\ Good(r) BY <1>0 DEF Row, Good
  <2>2. tasks' = [tasks EXCEPT ![t] = r] BY <1>2 DEF claimNext
  <2> HIDE DEF r
  <2> QED BY <2>1, <2>2, RowChanged
<1>3. CASE processOne(t)
  <2> PICK s \in {"ready_for_test", "failed"} :
          tasks' = [tasks EXCEPT ![t].status = s, ![t].run = FALSE]
    BY <1>3 DEF processOne
  <2> DEFINE r == [tasks[t] EXCEPT !.status = s, !.run = FALSE]
  <2>1. r \in Row /\ Good(r) BY <1>0 DEF Row, Good
  <2>2. tasks' = [tasks EXCEPT ![t] = r] OBVIOUS
  <2> HIDE DEF r
  <2> QED BY <2>1, <2>2, RowChanged
<1>4. CASE WorkerStops(t)
  <2> DEFINE r == [tasks[t] EXCEPT !.run = FALSE]
  <2>1. r \in Row /\ Good(r) BY <1>0 DEF Row, Good
  <2>2. tasks' = [tasks EXCEPT ![t] = r] BY <1>4 DEF WorkerStops
  <2> HIDE DEF r
  <2> QED BY <2>1, <2>2, RowChanged
<1>5. CASE agentRunDeployTest(t)
  <2>1. CASE Goes(t, "testSet", {"testDeploy"}, "testing")
    BY <2>1, JobGoes DEF TestJob, ProdJob
  <2>2. CASE Goes(t, "testDeploy", {}, "failed") BY <2>2, JobGoes
  <2>3. CASE Goes(t, "testSwap", {}, "failed") BY <2>3, JobGoes
  <2>4. CASE Goes(t, "testSwap", {}, tasks[t].status)
    <3>1. tasks[t].status \in Status BY <1>0 DEF Row
    <3>2. tasks[t].status \in Cleared => tasks[t].built BY <1>0 DEF Good
    <3> QED BY <2>4, <3>1, <3>2, JobGoes
  <2> QED BY <1>5, <2>1, <2>2, <2>3, <2>4 DEF agentRunDeployTest
<1>6. CASE TestBuilt(t)
  <2> DEFINE r == [tasks[t] EXCEPT !.jobs = (@ \ {"testDeploy"}) \cup {"testSwap"},
                                   !.status = "ready_for_prod", !.built = TRUE]
  <2>1. r \in Row /\ Good(r) BY <1>0 DEF Row, Good, TestJob
  <2>2. tasks' = [tasks EXCEPT ![t] = r] BY <1>6 DEF TestBuilt
  <2> HIDE DEF r
  <2> QED BY <2>1, <2>2, RowChanged
<1>7. CASE agentRunDeployProd(t)
  <2>1. PICK from \in ProdJob, to \in SUBSET ProdJob, s \in Status : Goes(t, from, to, s)
    <3>1. tasks[t].status \in Status BY <1>0 DEF Row
    <3> QED BY <1>7, <3>1 DEF agentRunDeployProd, ProdJob
  <2>2. tasks[t].jobs \cap ProdJob # {} BY <2>1 DEF Goes
  <2>3. tasks[t].built BY <1>0, <2>2 DEF Good
  <2> QED BY <2>1, <2>3, JobGoes
<1> QED BY <1>1, <1>2, <1>3, <1>4, <1>5, <1>6, <1>7 DEF Work

LEMMA StopKeepsInv ==
    ASSUME Inv, ServerStops
    PROVE  Inv'
<1>1. ASSUME NEW t \in Task PROVE tasks'[t] \in Row /\ Good(tasks'[t])
  <2>0. tasks[t] \in Row /\ Good(tasks[t]) BY DEF Inv, TypeOK
  <2>1. CASE tasks[t].status = "none"
    <3>1. tasks'[t] = NoTask BY <2>1 DEF ServerStops
    <3> QED BY <3>1 DEF NoTask, Row, Good, Cleared, Status, ActiveStatus
  <2>2. CASE tasks[t].status # "none"
    <3> DEFINE r == [tasks[t] EXCEPT !.creating = FALSE, !.jobs = {}]
    <3>1. tasks'[t] = r BY <2>2 DEF ServerStops
    <3>2. r \in Row /\ Good(r) BY <2>0 DEF Row, Good
    <3> QED BY <3>1, <3>2
  <2> QED BY <2>1, <2>2
<1>2. tasks' \in [Task -> Row] BY <1>1 DEF ServerStops
<1> QED BY <1>1, <1>2 DEF Inv, TypeOK

(* No task is in production, or on its way there, for which the script of  *)
(* the deploy for test did not succeed before, however many tasks there    *)
(* are, whatever overlaps and whatever stops.                              *)
THEOREM BuiltFirst == Spec => []PromotedWasBuilt
<1>1. Inv /\ [Next]_tasks => Inv'
  <2> SUFFICES ASSUME Inv, [Next]_tasks PROVE Inv' OBVIOUS
  <2>1. ASSUME NEW t \in Task, Work(t) PROVE Inv' BY <2>1, WorkKeepsInv
  <2>2. ASSUME NEW t \in Task, Owner(t) PROVE Inv' BY <2>2, OwnerKeepsInv
  <2>3. CASE ServerStops BY <2>3, StopKeepsInv
  <2>4. CASE UNCHANGED tasks BY <2>4 DEF Inv, TypeOK
  <2> QED BY <2>1, <2>2, <2>3, <2>4 DEF Next
<1>2. Inv => PromotedWasBuilt BY DEF Inv, Good, Cleared, PromotedWasBuilt
<1> QED BY <1>1, <1>2, InitInv, PTL DEF Spec
=============================================================================
