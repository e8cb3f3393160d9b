--------------------------- MODULE PrintPipeline ---------------------------
(***************************************************************************)
(* A label is rendered once and then handed to the Windows spooler: an     *)
(* attempt clears the printer's queue of what is stuck, takes a worker     *)
(* process from the pool, sends it the label, waits for the id of its job, *)
(* looks at the job for a moment and leaves it to the watcher.  Only an    *)
(* attempt that surely left nothing to print is made again.  The printer,  *)
(* and the people who load paper and press its buttons, go on meanwhile.   *)
(***************************************************************************)
EXTENDS Integers

CONSTANTS
    Requests,            \* calls of PrintLabelV2 for one printer
    Workers,             \* worker processes of the printer's language
    NoWorker,
    PrintRetryAttempts

ASSUME PrintAssumption ==
    /\ PrintRetryAttempts \in Nat \ {0}
    /\ NoWorker \notin Workers

Attempts == 1 .. PrintRetryAttempts
Jobs     == Requests \X Attempts   \* an attempt spools one job at most

VARIABLES
    request,   \* what each call carries
    free,      \* workers in the pool
    job,       \* the printer's queue, and what became of its jobs
    old,       \* jobs in the queue for more than stuckJobClearAge
    watched,   \* jobs of the spool watcher
    ticked,    \* the watcher's copy of them, and what it saw of each
    late,      \* jobs with a spool_late event
    expired,   \* jobs the watcher gave up on while they moved
    resumed,   \* jobs somebody set going again after verifySpoolJob found them stuck
    hung       \* calls that wait, without a deadline, for what never comes

vars == <<request, free, job, old, watched, ticked, late, expired, resumed, hung>>

watcher == <<watched, ticked, late, expired>>
printer == <<job, old, resumed>>

Request == [pc: {"clear", "clearing", "send", "reply", "verify", "blocked",
                 "accepted", "ok", "failed"},
            attempt: Attempts,
            stuck: SUBSET Jobs,                 \* what its listing showed
            worker: Workers \cup {NoWorker},
            resend: BOOLEAN,                    \* its worker was started anew
            answer: {"none", "OK", "ERR"},      \* what its worker has answered
            error: {"none", "busy", "unavailable", "blocked", "unclear"}]

Asked == [pc |-> "clear", attempt |-> 1, stuck |-> {}, worker |-> NoWorker, resend |-> FALSE,
          answer |-> "none", error |-> "none"]

TypeOK ==
    /\ request \in [Requests -> Request]
    /\ free \subseteq Workers
    /\ job \in [Jobs -> {"none", "moving", "stuck", "printed", "deleted"}]
    /\ old \subseteq Jobs /\ watched \subseteq Jobs
    /\ late \subseteq Jobs /\ expired \subseteq Jobs /\ resumed \subseteq Jobs
    /\ ticked \in [Jobs -> {"no", "copied", "gone", "stuck", "moving"}]
    /\ hung \subseteq Requests

Init ==
    /\ request = [r \in Requests |-> Asked]
    /\ free = Workers
    /\ job = [j \in Jobs |-> "none"]
    /\ old = {} /\ watched = {} /\ late = {} /\ expired = {} /\ resumed = {}
    /\ hung = {}
    /\ ticked = [j \in Jobs |-> "no"]

JobOf(r)     == <<r, request[r].attempt>>
Queued(j)    == job[j] \in {"moving", "stuck"}
At(r, pc)    == request[r].pc = pc
Go(r, pc)    == request' = [request EXCEPT ![r].pc = pc]

(* SetJob or Remove-PrintJob: the job goes, or it was gone, or both fail.  *)
(* The error reaches nobody.                                               *)
Leaves(j, how) == job' = [job EXCEPT ![j] = how] /\ old' = old \ {j}

CancelPrintJob(j) ==
    \/ UNCHANGED <<job, old>>
    \/ Queued(j) /\ Leaves(j, "deleted")

-----------------------------------------------------------------------------
(* How an attempt ends.                                                    *)

RetryUnclear(error) == error # "busy"                                    \* mutant

Retryable(error) == error \in {"blocked", "unavailable"}

OneMore(attempt) == attempt <= PrintRetryAttempts                        \* mutant

MoreAttempts(attempt) == attempt < PrintRetryAttempts

Ended(q, error) ==
    IF Retryable(error) /\ MoreAttempts(q.attempt)
    THEN [Asked EXCEPT !.attempt = q.attempt + 1]
    ELSE [Asked EXCEPT !.pc = "failed", !.attempt = q.attempt, !.error = error]

GiveUp(r, error) == request' = [request EXCEPT ![r] = Ended(@, error)]

KeepWorker(r) == free' = free                                            \* mutant

Release(r) == free' = free \cup {request[r].worker}

-----------------------------------------------------------------------------
(* The label is rendered; an attempt clears the queue.                     *)

StuckJobs(j) == job[j] = "stuck"                                         \* mutant

Stale(j) == job[j] = "stuck" /\ j \in old

(* A listing that fails clears nothing.                                    *)
ListStuckJobs(r) ==
    /\ At(r, "clear")
    /\ \E listed \in {{}, {j \in Jobs : Stale(j)}} :
          request' = [request EXCEPT ![r].pc = "clearing", ![r].stuck = listed]
    /\ UNCHANGED <<free, printer, watcher>>

CancelStuckJob(r, j) ==
    /\ At(r, "clearing") /\ j \in request[r].stuck
    /\ request' = [request EXCEPT ![r].stuck = @ \ {j}]
    /\ IF j \in watched THEN UNCHANGED <<job, old>> ELSE CancelPrintJob(j)
    /\ UNCHANGED <<free, resumed, watcher>>

Cleared(r) == At(r, "clearing") /\ request[r].stuck = {}

-----------------------------------------------------------------------------
(* rawPrintViaWorker.                                                      *)

Acquire(r, w) ==
    /\ Cleared(r) /\ w \in free
    /\ free' = free \ {w}
    /\ request' = [request EXCEPT ![r].pc = "send", ![r].worker = w]
    /\ UNCHANGED <<printer, watcher>>

AcquireTimeout(r) ==
    /\ Cleared(r) /\ free = {}
    /\ GiveUp(r, "busy")
    /\ UNCHANGED <<free, printer, watcher>>

(* The worker cannot be started, or not all of the frame be written.       *)
WorkerUnavailable(r) ==
    /\ At(r, "send")
    /\ IF request[r].resend
       THEN /\ Release(r)
            /\ GiveUp(r, "unavailable")
       ELSE /\ request' = [request EXCEPT ![r].resend = TRUE]
            /\ UNCHANGED free
    /\ UNCHANGED <<printer, watcher>>

WriteFrame(r) ==
    /\ At(r, "send")
    /\ request' = [request EXCEPT ![r].pc = "reply", ![r].resend = FALSE]
    /\ UNCHANGED <<free, printer, watcher>>

(* The worker process: a document that was begun is ended, and is a job,   *)
(* even when a page of it could not be written.                            *)
RawPrintWindows(r) ==
    /\ At(r, "reply") /\ request[r].answer = "none"
    /\ \E answer \in {"OK", "ERR"} :
          /\ request' = [request EXCEPT ![r].answer = answer]
          /\ \/ job' = [job EXCEPT ![JobOf(r)] = "moving"]
             \/ answer = "ERR" /\ UNCHANGED job
    /\ UNCHANGED <<free, old, resumed, watcher>>

ReadReply(r) ==
    /\ At(r, "reply")
    /\ \/ /\ request[r].answer = "OK"
          /\ request' = [request EXCEPT ![r].pc = "verify", ![r].worker = NoWorker,
                                        ![r].answer = "none"]
       \/ /\ request[r].answer = "ERR"
          /\ GiveUp(r, "unclear")
    /\ Release(r)
    /\ UNCHANGED <<printer, watcher>>

OverdueOnceAnswered(r) == At(r, "reply") /\ request[r].answer # "none"   \* mutant

Overdue(r) == At(r, "reply")

(* No reply in time, a broken pipe or an unknown line: the worker is       *)
(* killed, maybe after its job was spooled.                                *)
ReplyLost(r) ==
    /\ Overdue(r)
    /\ GiveUp(r, "unclear")
    /\ Release(r)
    /\ UNCHANGED <<printer, watcher>>

-----------------------------------------------------------------------------
(* verifySpoolJob and the hand-over to the watcher.                        *)

(* The job is gone, or moves until the deadline, or the listing fails.     *)
VerifyPasses(r) ==
    /\ At(r, "verify")
    /\ Go(r, "accepted")
    /\ UNCHANGED <<free, printer, watcher>>

VerifyFindsStuck(r) ==
    /\ At(r, "verify") /\ job[JobOf(r)] = "stuck"
    /\ Go(r, "blocked")
    /\ UNCHANGED <<free, printer, watcher>>

CancelBlocked(r) ==
    /\ At(r, "blocked")
    /\ CancelPrintJob(JobOf(r))
    /\ GiveUp(r, "blocked")
    /\ UNCHANGED <<free, resumed, watcher>>

WatchSpoolJob(r) ==
    /\ At(r, "accepted")
    /\ watched' = watched \cup {JobOf(r)}
    /\ Go(r, "ok")
    /\ UNCHANGED <<free, printer, ticked, late, expired>>

-----------------------------------------------------------------------------
(* The watcher.                                                            *)

Snapshot ==
    /\ \A j \in Jobs : ticked[j] = "no"
    /\ watched # {}
    /\ ticked' = [j \in Jobs |-> IF j \in watched THEN "copied" ELSE "no"]
    /\ UNCHANGED <<request, free, printer, watched, late, expired>>

SeenInQueue(j) ==
    IF ticked[j] = "no" THEN "no"
    ELSE IF Queued(j) THEN job[j] ELSE "gone"

ListQueue ==
    /\ \E j \in Jobs : ticked[j] = "copied"
    /\ \/ ticked' = [j \in Jobs |-> SeenInQueue(j)]
       \/ ticked' = [j \in Jobs |-> "no"]
    /\ UNCHANGED <<request, free, printer, watched, late, expired>>

(* A stuck job is no longer watched when it is cancelled, and reported     *)
(* last; whoever cancels it in between, it is reported.                    *)
Evaluate(j) ==
    /\ ticked[j] \in {"gone", "stuck", "moving"}
    /\ ticked' = [ticked EXCEPT ![j] = "no"]
    /\ \/ /\ ticked[j] = "gone"
          /\ watched' = watched \ {j}
          /\ UNCHANGED <<job, old, late, expired>>
       \/ /\ ticked[j] = "stuck"
          /\ watched' = watched \ {j}
          /\ CancelPrintJob(j)
          /\ late' = late \cup {j}
          /\ UNCHANGED expired
       \/ /\ ticked[j] = "moving"
          /\ \/ UNCHANGED <<watched, expired>>
             \/ watched' = watched \ {j} /\ expired' = expired \cup {j}
          /\ UNCHANGED <<job, old, late>>
    /\ UNCHANGED <<request, free, resumed>>

-----------------------------------------------------------------------------
(* The printer and the people at it.                                       *)

Prints(j) ==
    /\ job[j] = "moving"
    /\ Leaves(j, "printed")
    /\ UNCHANGED <<request, free, resumed, watcher>>

GetsStuck(j) ==
    /\ job[j] = "moving"
    /\ job' = [job EXCEPT ![j] = "stuck"]
    /\ UNCHANGED <<request, free, old, resumed, watcher>>

FoundStuck(q, a) ==
    \/ a < q.attempt
    \/ a = q.attempt /\ (q.pc = "blocked" \/ (q.pc = "failed" /\ q.error = "blocked"))

Resume(j) ==
    /\ job[j] = "stuck"
    /\ job' = [job EXCEPT ![j] = "moving"]
    /\ resumed' = IF FoundStuck(request[j[1]], j[2]) THEN resumed \cup {j} ELSE resumed
    /\ UNCHANGED <<request, free, old, watcher>>

(* stuckJobClearAge is longer than the way from the spooler to the watcher, *)
(* unless the call hangs on it.                                             *)
Submitting(j) ==
    /\ j = JobOf(j[1]) /\ j[1] \notin hung
    /\ request[j[1]].pc \in {"reply", "verify", "blocked", "accepted"}

GrowsOld(j) ==
    /\ Queued(j) /\ j \notin old /\ ~Submitting(j)
    /\ old' = old \cup {j}
    /\ UNCHANGED <<request, free, job, resumed, watcher>>

-----------------------------------------------------------------------------
(* The write of a frame to a worker that reads no more, the frame that     *)
(* tells it to exit, a PowerShell that lists or cancels: none of them has  *)
(* a deadline, and the call that waits for one may wait for ever.          *)
Waits(r) ==
    \/ request[r].pc \in {"clear", "send", "reply", "verify", "blocked"}
    \/ At(r, "clearing") /\ request[r].stuck # {}

CallHangs(r) ==
    /\ r \notin hung /\ Waits(r)
    /\ hung' = hung \cup {r}
    /\ UNCHANGED <<request, free, printer, watcher>>

Proceeds(r) ==
    \/ ListStuckJobs(r)
    \/ \E j \in Jobs : CancelStuckJob(r, j)
    \/ \E w \in Workers : Acquire(r, w)
    \/ AcquireTimeout(r)
    \/ WorkerUnavailable(r)
    \/ WriteFrame(r)
    \/ ReadReply(r)
    \/ ReplyLost(r)
    \/ VerifyPasses(r)
    \/ VerifyFindsStuck(r)
    \/ CancelBlocked(r)
    \/ WatchSpoolJob(r)

Step(r) == r \notin hung /\ Proceeds(r) /\ UNCHANGED hung

Tick ==
    \/ Snapshot
    \/ ListQueue
    \/ \E j \in Jobs : Evaluate(j)

Environment ==
    \/ \E r \in Requests : RawPrintWindows(r)
    \/ \E j \in Jobs : Prints(j) \/ GetsStuck(j) \/ Resume(j) \/ GrowsOld(j)

Next ==
    \/ \E r \in Requests : Step(r) \/ CallHangs(r)
    \/ Tick /\ UNCHANGED hung
    \/ Environment /\ UNCHANGED hung

Spec == Init /\ [][Next]_vars

(* Goroutines that can run are run, and timers go off.  A call without a   *)
(* deadline may hang.  Nothing is assumed of the workers' replies, of the  *)
(* printer or of the people at it.                                         *)
Fairness == \A r \in Requests : WF_vars(Step(r))

FairSpec == Spec /\ Fairness

-----------------------------------------------------------------------------
(* Properties.                                                             *)

(* What is safe to send again: a job that an attempt left behind, the next *)
(* one being made or the request refused for a reason that lets the caller *)
(* try again, is out of the queue and never printed, unless somebody set   *)
(* it going again after it was found stuck.                                *)
LeftBehind(q, a) ==
    \/ a < q.attempt
    \/ a = q.attempt /\ q.pc = "failed" /\ q.error # "unclear"

SafeToResend ==
    \A r \in Requests, a \in Attempts :
        LeftBehind(request[r], a) /\ job[<<r, a>>] \in {"moving", "printed"} => <<r, a>> \in resumed

(* No label is lost in silence: when the operator was told OK and the job  *)
(* was deleted from the queue, by the watcher or by another print, there   *)
(* is a spool_late event, or the watcher had given up on it.               *)
NoSilentLoss ==
    \A r \in Requests : At(r, "ok") /\ job[JobOf(r)] = "deleted" =>
        JobOf(r) \in late \cup expired

(* However an attempt ends, its worker goes back to the pool, once.        *)
Holding(r) == request[r].pc \in {"send", "reply"}

WorkersKept ==
    /\ \A w \in Workers : w \in free <=> \A r \in Requests : ~(Holding(r) /\ request[r].worker = w)
    /\ \A r, s \in Requests : Holding(r) /\ Holding(s) /\ r # s =>
          request[r].worker # request[s].worker

(* Every print is answered, whatever worker processes and printer do and   *)
(* whatever other prints hang and keep their workers, unless it hangs      *)
(* itself in one of the calls that have no deadline.                       *)
EveryPrintAnswered ==
    \A r \in Requests : At(r, "clear") ~> (At(r, "ok") \/ At(r, "failed") \/ r \in hung)

(* What the comment on errSpoolJobBlocked says: after a job was found      *)
(* blocked nothing was printed, so a request prints one label at most.     *)
OneLabel ==
    \A r \in Requests : \A a, b \in Attempts :
        job[<<r, a>>] = "printed" /\ job[<<r, b>>] = "printed" => a = b
=============================================================================
