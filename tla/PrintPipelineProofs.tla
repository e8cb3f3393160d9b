------------------------ MODULE PrintPipelineProofs ------------------------
(* Safety of PrintPipeline for any number of prints, workers and attempts. *)
EXTENDS PrintPipeline, TLAPS

-----------------------------------------------------------------------------
(* The inductive invariant.                                                *)

(* Attempts that cannot have spooled anything yet, or ever.                *)
Unspooled(q, a) ==
    \/ a > q.attempt
    \/ /\ a = q.attempt
       /\ \/ q.pc \in {"clear", "clearing", "send"}
          \/ q.pc = "reply" /\ q.answer = "none"
          \/ q.pc = "failed" /\ q.error \notin {"unclear", "blocked"}

Spooled(q) == q.pc \in {"verify", "accepted", "ok"} \/ (q.pc = "reply" /\ q.answer = "OK")

Loose(q) == q.pc \in {"reply", "verify", "blocked", "accepted"}

NothingYet(r, q) == \A a \in Attempts : Unspooled(q, a) => job[<<r, a>>] = "none"

DeadOrResumed(r, q) == \A a \in Attempts :
    FoundStuck(q, a) /\ job[<<r, a>>] \in {"moving", "printed"} => <<r, a>> \in resumed

Present(r, q) ==
    /\ Spooled(q) => job[<<r, q.attempt>>] # "none"
    /\ r \notin hung /\ q.pc \in {"reply", "verify", "accepted"} =>
           job[<<r, q.attempt>>] # "deleted"

Followed(r, q) == q.pc = "ok" =>
    /\ job[<<r, q.attempt>>] \in {"moving", "stuck"} =>
           <<r, q.attempt>> \in watched \cup late \cup expired
    /\ job[<<r, q.attempt>>] = "deleted" => <<r, q.attempt>> \in late \cup expired

Armed(q) ==
    /\ q.pc \in {"send", "reply"} => q.worker \in Workers
    /\ q.pc # "reply" => q.answer = "none"

Sound(r, q) ==
    /\ NothingYet(r, q) /\ DeadOrResumed(r, q) /\ Present(r, q) /\ Followed(r, q)
    /\ Armed(q)

AllSound == \A r \in Requests : Sound(r, request[r])

Listed == \A r \in Requests : \A j \in request[r].stuck : job[j] # "none" /\ ~Submitting(j)

OldJobs == \A j \in old : Queued(j) /\ ~Submitting(j)

WatchedOk == \A j \in watched : request[j[1]].pc = "ok" /\ j = JobOf(j[1])

Ticked == \A j \in Jobs :
    /\ ticked[j] # "no" => j \in watched
    /\ ticked[j] = "gone" => ~Queued(j)

Inv == TypeOK /\ AllSound /\ Listed /\ OldJobs /\ WatchedOk /\ Ticked

-----------------------------------------------------------------------------
LEMMA JobParts ==
    ASSUME NEW j \in Jobs
    PROVE  j[1] \in Requests /\ j[2] \in Attempts /\ j = <<j[1], j[2]>>
BY DEF Jobs

LEMMA AskedType == Asked \in Request
BY PrintAssumption DEF Asked, Request, Attempts, Jobs

(* What GiveUp leaves in the hands of a request.                           *)
LEMMA EndedFacts ==
    ASSUME NEW q \in Request, NEW error \in {"busy", "unavailable", "blocked", "unclear"}
    PROVE  LET e == Ended(q, error)
           IN  /\ e \in Request
               /\ e.stuck = {} /\ e.answer = "none"
               /\ e.pc \in {"clear", "failed"}
               /\ \/ /\ e.pc = "clear" /\ e.error = "none" /\ e.attempt = q.attempt + 1
                     /\ error \in {"blocked", "unavailable"}
                  \/ e.pc = "failed" /\ e.error = error /\ e.attempt = q.attempt
<1> DEFINE again == [Asked EXCEPT !.attempt = q.attempt + 1]
           failed == [Asked EXCEPT !.pc = "failed", !.attempt = q.attempt, !.error = error]
<1>1. q.attempt \in Nat /\ q.attempt \in Attempts
  BY PrintAssumption DEF Request, Attempts
<1>2. MoreAttempts(q.attempt) => q.attempt + 1 \in Attempts
  BY <1>1, PrintAssumption DEF MoreAttempts, Attempts
<1>3. /\ MoreAttempts(q.attempt) => again \in Request
      /\ again.stuck = {} /\ again.answer = "none" /\ again.pc = "clear" /\ again.error = "none"
      /\ again.attempt = q.attempt + 1
  BY <1>2, AskedType DEF Asked, Request
<1>4. /\ failed \in Request
      /\ failed.stuck = {} /\ failed.answer = "none" /\ failed.pc = "failed" /\ failed.error = error
      /\ failed.attempt = q.attempt
  BY <1>1, AskedType DEF Asked, Request
<1> HIDE DEF again, failed
<1>5. Ended(q, error) = IF Retryable(error) /\ MoreAttempts(q.attempt) THEN again ELSE failed
  BY DEF Ended, again, failed
<1>6. CASE Retryable(error) /\ MoreAttempts(q.attempt)
  BY <1>3, <1>5, <1>6 DEF Retryable
<1>7. CASE ~(Retryable(error) /\ MoreAttempts(q.attempt))
  BY <1>4, <1>5, <1>7
<1> QED BY <1>6, <1>7

LEMMA EndedSound ==
    ASSUME NEW r \in Requests, NEW q \in Request, Sound(r, q),
           NEW error \in {"busy", "unavailable", "blocked", "unclear"},
           error \in {"busy", "unavailable"} => q.pc \in {"clearing", "send"},
           error = "blocked" => q.pc = "blocked",
           error = "unclear" => q.pc = "reply"
    PROVE  Sound(r, Ended(q, error))
<1> DEFINE e == Ended(q, error)
<1>1. /\ e.pc \in {"clear", "failed"} /\ e.answer = "none"
      /\ \/ /\ e.pc = "clear" /\ e.error = "none" /\ e.attempt = q.attempt + 1
            /\ error \in {"blocked", "unavailable"}
         \/ e.pc = "failed" /\ e.error = error /\ e.attempt = q.attempt
  BY EndedFacts
<1>2. q.attempt \in Nat /\ Attempts \subseteq Nat
  BY PrintAssumption DEF Request, Attempts
<1> HIDE DEF e
<1>3. NothingYet(r, e)
  BY <1>1, <1>2 DEF Sound, Armed, NothingYet, Unspooled
<1>4. DeadOrResumed(r, e)
  <2> SUFFICES ASSUME NEW a \in Attempts, FoundStuck(e, a), job[<<r, a>>] \in {"moving", "printed"}
               PROVE  <<r, a>> \in resumed
    BY DEF DeadOrResumed
  <2>1. FoundStuck(q, a) \/ Unspooled(q, a)
    BY <1>1, <1>2 DEF FoundStuck, Unspooled
  <2> QED BY <2>1 DEF Sound, Armed, DeadOrResumed, NothingYet
<1>5. Present(r, e) /\ Followed(r, e) /\ Armed(e)
  BY <1>1 DEF Present, Followed, Spooled, Armed
<1> QED BY <1>3, <1>4, <1>5 DEF Sound, Armed, e

-----------------------------------------------------------------------------
(* A step of one request that touches neither the queue nor the watcher.   *)
LEMMA OwnStep ==
    ASSUME Inv, NEW r \in Requests, NEW q \in Request, UNCHANGED hung,
           request' = [request EXCEPT ![r] = q],
           UNCHANGED <<printer, watcher>>,
           free' \subseteq Workers,
           Sound(r, q),
           request[r].pc # "ok",
           \A j \in q.stuck : j \in request[r].stuck \/ j \in old,
           Loose(q) => \/ Loose(request[r]) /\ q.attempt = request[r].attempt
                       \/ job[<<r, q.attempt>>] = "none"
    PROVE  Inv'
<1> USE DEF Inv
<1>u. /\ job' = job /\ old' = old /\ resumed' = resumed
      /\ watched' = watched /\ ticked' = ticked /\ late' = late /\ expired' = expired
  BY DEF printer, watcher
<1>q. /\ request \in [Requests -> Request]
      /\ request'[r] = q
      /\ \A s \in Requests \ {r} : request'[s] = request[s]
  BY DEF TypeOK
<1>1. TypeOK'
  BY <1>u, <1>q DEF TypeOK
<1>2. AllSound'
  <2> SUFFICES ASSUME NEW s \in Requests PROVE Sound(s, request[s])'
    BY DEF AllSound
  <2>1. CASE s = r
    BY <2>1, <1>u, <1>q DEF Sound, Armed, NothingYet, DeadOrResumed, Present, Followed
  <2>2. CASE s # r
    BY <2>2, <1>u, <1>q DEF AllSound, Sound, Armed, NothingYet, DeadOrResumed, Present, Followed
  <2> QED BY <2>1, <2>2
<1>s. ASSUME NEW j \in Jobs, job[j] # "none", ~Submitting(j)
      PROVE  ~Submitting(j)'
  <2>1. j[1] \in Requests /\ j = <<j[1], j[2]>>
    BY JobParts
  <2>2. CASE j[1] = r
    BY <1>s, <2>1, <2>2, <1>q DEF Submitting, JobOf, Loose
  <2>3. CASE j[1] # r
    BY <1>s, <2>1, <2>3, <1>q DEF Submitting, JobOf
  <2> QED BY <2>2, <2>3
<1>o. \A j \in old : j \in Jobs /\ job[j] # "none"
  BY DEF TypeOK, OldJobs, Queued
<1>3. Listed'
  <2> SUFFICES ASSUME NEW s \in Requests, NEW j \in request'[s].stuck
               PROVE  job[j] # "none" /\ ~Submitting(j)'
    BY <1>u DEF Listed
  <2>1. j \in old \/ \E t \in Requests : j \in request[t].stuck
    BY <1>q
  <2>2. j \in Jobs /\ job[j] # "none" /\ ~Submitting(j)
    BY <2>1, <1>q, <1>o DEF Listed, OldJobs, Request
  <2> QED BY <2>2, <1>s
<1>4. OldJobs'
  BY <1>u, <1>s, <1>o DEF OldJobs, Queued
<1>5. WatchedOk'
  <2> SUFFICES ASSUME NEW j \in watched
               PROVE  request'[j[1]].pc = "ok" /\ j = JobOf(j[1])'
    BY <1>u DEF WatchedOk
  <2>1. j[1] \in Requests /\ request[j[1]].pc = "ok" /\ j = JobOf(j[1])
    BY JobParts DEF TypeOK, WatchedOk
  <2> QED BY <2>1, <1>q DEF JobOf
<1>6. Ticked'
  BY <1>u DEF Ticked, Queued
<1> QED BY <1>1, <1>2, <1>3, <1>4, <1>5, <1>6

-----------------------------------------------------------------------------
(* A job that is in the queue moves, stops or leaves it.                   *)

(* What must not be deleted, and what may start, as request s sees it.     *)
Allowed(s, q, j, v) ==
    /\ j[1] = s /\ FoundStuck(q, j[2]) /\ v \in {"moving", "printed"} => j \in resumed'
    /\ j = <<s, q.attempt>> /\ v = "deleted" =>
           /\ s \in hung \/ q.pc \notin {"reply", "verify", "accepted"}
           /\ q.pc = "ok" => j \in late' \cup expired'

LEMMA QueueSound ==
    ASSUME NEW s \in Requests, NEW q \in Request, Sound(s, q),
           NEW j \in Jobs, NEW v \in {"moving", "stuck", "printed", "deleted"},
           TypeOK, Queued(j), job' = [job EXCEPT ![j] = v], UNCHANGED hung,
           resumed \subseteq resumed', late \subseteq late', expired \subseteq expired',
           watched \subseteq watched' \cup late' \cup expired',
           Allowed(s, q, j, v)
    PROVE  Sound(s, q)'
<1>1. \A a \in Attempts : <<s, a>> \in Jobs
  BY DEF Jobs
<1>2. \A i \in Jobs : job'[i] = IF i = j THEN v ELSE job[i]
  BY DEF TypeOK
<1>3. q.attempt \in Attempts
  BY DEF Request
<1>4. NothingYet(s, q)'
  BY <1>1, <1>2 DEF Sound, Armed, NothingYet, Queued
<1>5. DeadOrResumed(s, q)'
  <2> SUFFICES ASSUME NEW a \in Attempts, FoundStuck(q, a),
                      job'[<<s, a>>] \in {"moving", "printed"}
               PROVE  <<s, a>> \in resumed'
    BY DEF DeadOrResumed, FoundStuck
  <2>1. CASE <<s, a>> = j
    <3>1. j[1] = s /\ j[2] = a
      BY <2>1
    <3> QED BY <3>1, <2>1, <1>1, <1>2 DEF Allowed
  <2>2. CASE <<s, a>> # j
    BY <2>2, <1>1, <1>2 DEF Sound, Armed, DeadOrResumed
  <2> QED BY <2>1, <2>2
<1>6. Present(s, q)'
  BY <1>1, <1>2, <1>3 DEF Sound, Armed, Present, Spooled, Allowed, Queued
<1>7. Followed(s, q)'
  <2> SUFFICES ASSUME q.pc = "ok"
               PROVE  /\ job'[<<s, q.attempt>>] \in {"moving", "stuck"} =>
                             <<s, q.attempt>> \in watched' \cup late' \cup expired'
                      /\ job'[<<s, q.attempt>>] = "deleted" =>
                             <<s, q.attempt>> \in late' \cup expired'
    BY DEF Followed
  <2>1. CASE <<s, q.attempt>> = j
    BY <2>1, <1>2 DEF Sound, Armed, Followed, Queued, Allowed
  <2>2. CASE <<s, q.attempt>> # j
    BY <2>2, <1>1, <1>2, <1>3 DEF Sound, Armed, Followed
  <2> QED BY <2>1, <2>2
<1> QED BY <1>4, <1>5, <1>6, <1>7 DEF Sound, Armed

LEMMA QueueStep ==
    ASSUME Inv, NEW r \in Requests, NEW q \in Request, UNCHANGED hung,
           request' = [request EXCEPT ![r] = q],
           Sound(r, q), q.stuck \subseteq request[r].stuck,
           Loose(q) => Loose(request[r]) /\ q.attempt = request[r].attempt,
           request[r].pc = "ok" => q.pc = "ok" /\ q.attempt = request[r].attempt,
           NEW j \in Jobs, NEW v \in {"moving", "stuck", "printed", "deleted"},
           Queued(j), job' = [job EXCEPT ![j] = v],
           old' \subseteq old, j \in old' => v \in {"moving", "stuck"},
           free' = free,
           resumed \subseteq resumed', resumed' \subseteq Jobs,
           late \subseteq late', late' \subseteq Jobs, expired' = expired,
           watched' \subseteq watched, watched \subseteq watched' \cup late',
           ticked' \in [Jobs -> {"no", "copied", "gone", "stuck", "moving"}],
           \A i \in Jobs : ticked'[i] = "no" \/ (ticked'[i] = ticked[i] /\ (i \in watched => i \in watched')),
           \A s \in Requests : Allowed(s, request'[s], j, v)
    PROVE  Inv'
<1>i. TypeOK /\ AllSound /\ Listed /\ OldJobs /\ WatchedOk /\ Ticked
  BY DEF Inv
<1>q. /\ request \in [Requests -> Request]
      /\ request'[r] = q
      /\ \A s \in Requests \ {r} : request'[s] = request[s]
  BY <1>i DEF TypeOK
<1>j. \A i \in Jobs : job'[i] = IF i = j THEN v ELSE job[i]
  BY <1>i DEF TypeOK
<1>1. TypeOK'
  BY <1>i, <1>q DEF TypeOK
<1>2. AllSound'
  <2> SUFFICES ASSUME NEW s \in Requests PROVE Sound(s, request[s])'
    BY DEF AllSound
  <2>1. \E p \in Request : p = request'[s] /\ Sound(s, p)
    BY <1>i, <1>q DEF AllSound
  <2>2. PICK p \in Request : p = request'[s] /\ Sound(s, p)
    BY <2>1
  <2>3. Sound(s, p)'
    BY <2>2, <1>i, QueueSound
  <2> QED BY <2>2, <2>3 DEF Sound, Armed, NothingYet, DeadOrResumed, Present, Followed
<1>s. ASSUME NEW i \in Jobs, ~Submitting(i)
      PROVE  ~Submitting(i)'
  <2>1. i[1] \in Requests
    BY JobParts
  <2>2. CASE i[1] = r
    BY <1>s, <2>2, <1>q DEF Submitting, JobOf, Loose
  <2>3. CASE i[1] # r
    BY <1>s, <2>1, <2>3, <1>q DEF Submitting, JobOf
  <2> QED BY <2>2, <2>3
<1>3. Listed'
  <2> SUFFICES ASSUME NEW s \in Requests, NEW i \in request'[s].stuck
               PROVE  job'[i] # "none" /\ ~Submitting(i)'
    BY DEF Listed
  <2>1. i \in request[s].stuck
    BY <1>q
  <2>2. i \in Jobs /\ job[i] # "none" /\ ~Submitting(i)
    BY <2>1, <1>i, <1>q DEF Listed, Request
  <2> QED BY <2>2, <1>s, <1>j
<1>4. OldJobs'
  <2> SUFFICES ASSUME NEW i \in old' PROVE Queued(i)' /\ ~Submitting(i)'
    BY DEF OldJobs
  <2>1. i \in Jobs /\ Queued(i) /\ ~Submitting(i)
    BY <1>i DEF TypeOK, OldJobs
  <2> QED BY <2>1, <1>s, <1>j DEF Queued
<1>5. WatchedOk'
  <2> SUFFICES ASSUME NEW i \in watched
               PROVE  request'[i[1]].pc = "ok" /\ i = JobOf(i[1])'
    BY DEF WatchedOk
  <2>1. i[1] \in Requests /\ request[i[1]].pc = "ok" /\ i = JobOf(i[1])
    BY <1>i, JobParts DEF TypeOK, WatchedOk
  <2> QED BY <2>1, <1>q DEF JobOf
<1>6. Ticked'
  <2> SUFFICES ASSUME NEW i \in Jobs, ticked'[i] # "no"
               PROVE  i \in watched' /\ (ticked'[i] = "gone" => ~Queued(i)')
    BY DEF Ticked
  <2> QED BY <1>i, <1>j DEF Ticked, Queued
<1> QED BY <1>1, <1>2, <1>3, <1>4, <1>5, <1>6 DEF Inv

-----------------------------------------------------------------------------
(* A step of the watcher that leaves the queue alone.                      *)
LEMMA WatcherStep ==
    ASSUME Inv, UNCHANGED <<request, free, printer, hung>>,
           late \subseteq late', late' \subseteq Jobs,
           expired \subseteq expired', expired' \subseteq Jobs,
           watched' \subseteq watched,
           \A j \in watched : j \in watched' \cup late' \cup expired' \/ ~Queued(j),
           ticked' \in [Jobs -> {"no", "copied", "gone", "stuck", "moving"}],
           \A j \in Jobs : ticked'[j] # "no" =>
               j \in watched' /\ (ticked'[j] = "gone" => ~Queued(j))
    PROVE  Inv'
<1>i. TypeOK /\ AllSound /\ Listed /\ OldJobs /\ WatchedOk /\ Ticked
  BY DEF Inv
<1>u. request' = request /\ free' = free /\ job' = job /\ old' = old /\ resumed' = resumed
  BY DEF printer
<1>1. TypeOK'
  BY <1>i, <1>u DEF TypeOK
<1>2. AllSound'
  <2> SUFFICES ASSUME NEW s \in Requests PROVE Sound(s, request[s])'
    BY DEF AllSound
  <2>1. Sound(s, request[s])
    BY <1>i DEF AllSound
  <2>2. Followed(s, request[s])'
    BY <2>1, <1>u DEF Sound, Armed, Followed, Queued
  <2> QED BY <2>1, <2>2, <1>u DEF Sound, Armed, NothingYet, DeadOrResumed, Present
<1>3. Listed' /\ OldJobs'
  BY <1>i, <1>u DEF Listed, OldJobs, Submitting, JobOf, Queued
<1>4. WatchedOk'
  BY <1>i, <1>u DEF WatchedOk, JobOf
<1>5. Ticked'
  BY <1>u DEF Ticked, Queued
<1> QED BY <1>1, <1>2, <1>3, <1>4, <1>5 DEF Inv

-----------------------------------------------------------------------------
(* The steps.                                                              *)

LEMMA GiveUpStep ==
    ASSUME Inv, NEW r \in Requests, UNCHANGED hung,
           NEW error \in {"busy", "unavailable", "blocked", "unclear"},
           error \in {"busy", "unavailable"} => request[r].pc \in {"clearing", "send"},
           error = "blocked" => request[r].pc = "blocked",
           error = "unclear" => request[r].pc = "reply",
           GiveUp(r, error), UNCHANGED <<printer, watcher>>, free' \subseteq Workers
    PROVE  Inv'
<1> DEFINE e == Ended(request[r], error)
<1>1. request \in [Requests -> Request] /\ Sound(r, request[r])
  BY DEF Inv, TypeOK, AllSound
<1>2. request' = [request EXCEPT ![r] = e]
  BY <1>1 DEF GiveUp
<1>3. e \in Request /\ e.stuck = {} /\ e.pc \in {"clear", "failed"}
  BY <1>1, EndedFacts
<1>4. Sound(r, e)
  BY <1>1, EndedSound
<1>5. request[r].pc # "ok"
  BY DEF GiveUp
<1> HIDE DEF e
<1>6. ~Loose(e)
  BY <1>3 DEF Loose
<1> QED BY <1>2, <1>3, <1>4, <1>5, <1>6, OwnStep

LEMMA StepInv ==
    ASSUME Inv, NEW r \in Requests, Step(r)
    PROVE  Inv'
<1> DEFINE q == request[r]
<1>q. /\ TypeOK /\ q \in Request /\ Sound(r, q)
      /\ q.attempt \in Attempts /\ <<r, q.attempt>> \in Jobs
  BY DEF Inv, TypeOK, AllSound, Request, Jobs
<1>r. request \in [Requests -> Request] /\ free \subseteq Workers /\ old \subseteq Jobs
  BY <1>q DEF TypeOK
<1>h. r \notin hung /\ hung' = hung
  BY DEF Step
<1>1. CASE ListStuckJobs(r)
  <2>1. PICK listed \in {{}, {j \in Jobs : Stale(j)}} :
            request' = [request EXCEPT ![r].pc = "clearing", ![r].stuck = listed]
    BY <1>1 DEF ListStuckJobs
  <2> DEFINE o == [q EXCEPT !.pc = "clearing", !.stuck = listed]
  <2>2. request' = [request EXCEPT ![r] = o]
    BY <2>1, <1>r
  <2>3. o \in Request /\ o.pc = "clearing" /\ o.stuck = listed /\ o.answer = q.answer /\ o.attempt = q.attempt
    BY <1>q, <2>1 DEF Request
  <2>4. q.pc = "clear" /\ UNCHANGED <<printer, watcher>> /\ free' = free
    BY <1>1 DEF ListStuckJobs, At
  <2> HIDE DEF o
  <2>5. Sound(r, o)
    BY <1>q, <2>3, <2>4 DEF Sound, Armed, NothingYet, DeadOrResumed, Present, Followed,
                            Unspooled, FoundStuck, Spooled
  <2>6. \A j \in o.stuck : j \in old
    BY <2>1, <2>3 DEF Stale
  <2> QED BY <2>2, <2>3, <2>4, <2>5, <2>6, <1>r, <1>h, OwnStep DEF Loose
<1>2. CASE \E j \in Jobs : CancelStuckJob(r, j)
  <2>1. PICK j \in Jobs : CancelStuckJob(r, j)
    BY <1>2
  <2> DEFINE o == [q EXCEPT !.stuck = q.stuck \ {j}]
  <2>2. /\ request' = [request EXCEPT ![r] = o]
        /\ q.pc = "clearing" /\ j \in q.stuck
        /\ UNCHANGED <<free, resumed, watched, ticked, late, expired>>
    BY <2>1, <1>r DEF CancelStuckJob, At, watcher
  <2>3. o \in Request /\ o.pc = "clearing" /\ o.stuck = q.stuck \ {j} /\ o.answer = q.answer /\ o.attempt = q.attempt
    BY <1>q, <2>2 DEF Request
  <2> HIDE DEF o
  <2>4. Sound(r, o)
    BY <1>q, <2>2, <2>3 DEF Sound, Armed, NothingYet, DeadOrResumed, Present, Followed,
                            Unspooled, FoundStuck, Spooled
  <2>5. CASE UNCHANGED <<job, old>>
    BY <2>2, <2>3, <2>4, <2>5, <1>r, <1>h, OwnStep DEF Loose, printer, watcher
  <2>6. CASE j \notin watched /\ Queued(j) /\ Leaves(j, "deleted")
    <3>1. \A s \in Requests : Allowed(s, request'[s], j, "deleted")
      <4> SUFFICES ASSUME NEW s \in Requests, j = <<s, request'[s].attempt>>
                   PROVE  /\ s \in hung \/ request'[s].pc \notin {"reply", "verify", "accepted"}
                          /\ request'[s].pc = "ok" => j \in late' \cup expired'
        BY DEF Allowed
      <4>1. request'[s].pc = request[s].pc /\ request'[s].attempt = request[s].attempt
        BY <2>2, <2>3, <1>r
      <4>2. ~Submitting(j)
        BY <2>2 DEF Inv, Listed
      <4>3. s \in hung \/ request[s].pc \notin {"reply", "verify", "accepted"}
        BY <4>1, <4>2 DEF Submitting, JobOf
      <4>4. Sound(s, request[s])
        BY DEF Inv, AllSound
      <4>5. request[s].pc = "ok" => j \in late \cup expired
        BY <4>1, <4>4, <2>6 DEF Sound, Armed, Followed, Queued
      <4> QED BY <4>1, <4>3, <4>5, <2>2
    <3>2. job' = [job EXCEPT ![j] = "deleted"] /\ old' = old \ {j}
      BY <2>6 DEF Leaves
    <3>3. /\ resumed \subseteq Jobs /\ late \subseteq Jobs
          /\ ticked \in [Jobs -> {"no", "copied", "gone", "stuck", "moving"}]
      BY <1>q DEF TypeOK
    <3>4. ~Loose(o) /\ q.pc # "ok" /\ o.stuck \subseteq q.stuck
      BY <2>2, <2>3 DEF Loose
    <3> QED BY <3>1, <3>2, <3>3, <3>4, <2>2, <2>3, <2>4, <2>6, <1>h, QueueStep
  <2> QED BY <2>1, <2>5, <2>6 DEF CancelStuckJob, CancelPrintJob
<1>3. CASE \E w \in Workers : Acquire(r, w)
  <2>1. PICK w \in Workers : Acquire(r, w)
    BY <1>3
  <2> DEFINE o == [q EXCEPT !.pc = "send", !.worker = w]
  <2>2. /\ request' = [request EXCEPT ![r] = o]
        /\ q.pc = "clearing" /\ UNCHANGED <<printer, watcher>> /\ free' \subseteq Workers
    BY <2>1, <1>r DEF Acquire, Cleared, At
  <2>3. /\ o \in Request /\ o.pc = "send" /\ o.stuck = q.stuck /\ o.attempt = q.attempt
        /\ o.worker = w /\ o.answer = q.answer
    BY <1>q DEF Request
  <2> HIDE DEF o
  <2>4. Sound(r, o)
    BY <1>q, <2>2, <2>3 DEF Sound, Armed, NothingYet, DeadOrResumed, Present, Followed,
                            Unspooled, FoundStuck, Spooled
  <2> QED BY <2>2, <2>3, <2>4, <1>h, OwnStep DEF Loose
<1>4. CASE AcquireTimeout(r)
  BY <1>4, <1>r, <1>h, GiveUpStep DEF AcquireTimeout, Cleared, At
<1>5. CASE WorkerUnavailable(r)
  <2>1. q.pc = "send" /\ UNCHANGED <<printer, watcher>>
    BY <1>5 DEF WorkerUnavailable, At
  <2>2. CASE q.resend
    <3>1. GiveUp(r, "unavailable") /\ Release(r)
      BY <1>5, <2>2 DEF WorkerUnavailable
    <3>2. free' \subseteq Workers
      BY <3>1, <2>1, <1>q, <1>r DEF Release, Sound, Armed
    <3> QED BY <3>1, <3>2, <2>1, <1>h, GiveUpStep
  <2>3. CASE ~q.resend
    <3> DEFINE o == [q EXCEPT !.resend = TRUE]
    <3>1. request' = [request EXCEPT ![r] = o] /\ free' = free
      BY <1>5, <2>3, <1>r DEF WorkerUnavailable
    <3>2. /\ o \in Request /\ o.pc = "send" /\ o.stuck = q.stuck
          /\ o.attempt = q.attempt /\ o.worker = q.worker /\ o.answer = q.answer
      BY <1>q, <2>1 DEF Request
    <3> HIDE DEF o
    <3>3. Sound(r, o)
      BY <1>q, <2>1, <3>2 DEF Sound, Armed, NothingYet, DeadOrResumed, Present, Followed,
                              Unspooled, FoundStuck, Spooled
    <3> QED BY <2>1, <3>1, <3>2, <3>3, <1>r, <1>h, OwnStep DEF Loose
  <2> QED BY <2>2, <2>3
<1>6. CASE WriteFrame(r)
  <2> DEFINE o == [q EXCEPT !.pc = "reply", !.resend = FALSE]
  <2>1. /\ request' = [request EXCEPT ![r] = o]
        /\ q.pc = "send" /\ UNCHANGED <<printer, watcher>> /\ free' = free
    BY <1>6, <1>r DEF WriteFrame, At
  <2>2. /\ o \in Request /\ o.pc = "reply" /\ o.stuck = q.stuck
        /\ o.attempt = q.attempt /\ o.worker = q.worker /\ o.answer = q.answer
    BY <1>q DEF Request
  <2>3. job[<<r, q.attempt>>] = "none"
    BY <1>q, <2>1 DEF Sound, NothingYet, Unspooled
  <2>4. q.answer = "none"
    BY <1>q, <2>1 DEF Sound, Armed
  <2> HIDE DEF o
  <2>5. Sound(r, o)
    BY <1>q, <2>1, <2>2, <2>3, <2>4 DEF Sound, Armed, NothingYet, DeadOrResumed, Present, Followed,
                            Unspooled, FoundStuck, Spooled
  <2> QED BY <2>1, <2>2, <2>3, <2>5, <1>r, <1>h, OwnStep DEF Loose
<1>7. CASE ReadReply(r)
  <2>1. q.pc = "reply" /\ UNCHANGED <<printer, watcher>> /\ Release(r)
    BY <1>7 DEF ReadReply, At
  <2>2. free' \subseteq Workers
    BY <2>1, <1>q, <1>r DEF Release, Sound, Armed
  <2>3. CASE GiveUp(r, "unclear")
    BY <2>1, <2>2, <2>3, <1>h, GiveUpStep
  <2>4. CASE /\ q.answer = "OK"
             /\ request' = [request EXCEPT ![r].pc = "verify", ![r].worker = NoWorker,
                                           ![r].answer = "none"]
    <3> DEFINE o == [q EXCEPT !.pc = "verify", !.worker = NoWorker, !.answer = "none"]
    <3>1. request' = [request EXCEPT ![r] = o]
      BY <2>4, <1>r
    <3>2. o \in Request /\ o.pc = "verify" /\ o.answer = "none" /\ o.stuck = q.stuck /\ o.attempt = q.attempt
      BY <1>q DEF Request
    <3> HIDE DEF o
    <3>3. Sound(r, o)
      BY <1>q, <2>1, <2>4, <3>2 DEF Sound, Armed, NothingYet, DeadOrResumed, Present, Followed,
                              Unspooled, FoundStuck, Spooled
    <3> QED BY <2>1, <2>2, <3>1, <3>2, <3>3, <1>h, OwnStep DEF Loose
  <2> QED BY <1>7, <2>3, <2>4 DEF ReadReply
<1>8. CASE ReplyLost(r)
  <2>1. q.pc = "reply" /\ UNCHANGED <<printer, watcher>> /\ Release(r) /\ GiveUp(r, "unclear")
    BY <1>8 DEF ReplyLost, Overdue, At
  <2>2. free' \subseteq Workers
    BY <2>1, <1>q, <1>r DEF Release, Sound, Armed
  <2> QED BY <2>1, <2>2, <1>h, GiveUpStep
<1>9. CASE VerifyPasses(r) \/ VerifyFindsStuck(r)
  <2>1. PICK pc \in {"accepted", "blocked"} :
            /\ Go(r, pc) /\ q.pc = "verify"
            /\ pc = "blocked" => job[<<r, q.attempt>>] = "stuck"
            /\ UNCHANGED <<printer, watcher>> /\ free' = free
    BY <1>9 DEF VerifyPasses, VerifyFindsStuck, At, JobOf
  <2> DEFINE o == [q EXCEPT !.pc = pc]
  <2>2. request' = [request EXCEPT ![r] = o]
    BY <2>1, <1>r DEF Go
  <2>3. o \in Request /\ o.pc = pc /\ o.answer = q.answer /\ o.stuck = q.stuck /\ o.attempt = q.attempt
    BY <1>q, <2>1 DEF Request
  <2> HIDE DEF o
  <2>4. Sound(r, o)
    BY <1>q, <2>1, <2>3 DEF Sound, Armed, NothingYet, DeadOrResumed, Present, Followed,
                            Unspooled, FoundStuck, Spooled
  <2> QED BY <2>1, <2>2, <2>3, <2>4, <1>r, <1>h, OwnStep DEF Loose
<1>10. CASE CancelBlocked(r)
  <2> DEFINE e == Ended(q, "blocked")
             j == <<r, q.attempt>>
  <2>1. /\ q.pc = "blocked" /\ GiveUp(r, "blocked") /\ free' = free
        /\ UNCHANGED <<resumed, watched, ticked, late, expired>>
        /\ CancelPrintJob(j)
    BY <1>10 DEF CancelBlocked, At, JobOf, watcher
  <2>2. CASE UNCHANGED <<job, old>>
    BY <2>1, <2>2, <1>r, <1>h, GiveUpStep DEF printer, watcher
  <2>3. CASE Queued(j) /\ Leaves(j, "deleted")
    <3>1. request' = [request EXCEPT ![r] = e]
      BY <2>1, <1>r DEF GiveUp
    <3>2. e \in Request /\ e.stuck = {} /\ e.pc \in {"clear", "failed"}
      BY <1>q, EndedFacts
    <3>3. Sound(r, e)
      BY <1>q, <2>1, EndedSound
    <3> HIDE DEF e
    <3>4. \A s \in Requests : Allowed(s, request'[s], j, "deleted")
      <4> SUFFICES ASSUME NEW s \in Requests, j = <<s, request'[s].attempt>>
                   PROVE  request'[s].pc \notin {"reply", "verify", "accepted", "ok"}
        BY DEF Allowed
      <4>1. s = r
        OBVIOUS
      <4> QED BY <4>1, <3>1, <3>2, <1>r
    <3>5. job' = [job EXCEPT ![j] = "deleted"] /\ old' = old \ {j}
      BY <2>3 DEF Leaves
    <3>6. /\ resumed \subseteq Jobs /\ late \subseteq Jobs
          /\ ticked \in [Jobs -> {"no", "copied", "gone", "stuck", "moving"}]
      BY <1>q DEF TypeOK
    <3>7. ~Loose(e) /\ q.pc # "ok" /\ e.stuck \subseteq q.stuck
      BY <2>1, <3>2 DEF Loose
    <3> QED BY <3>1, <3>2, <3>3, <3>4, <3>5, <3>6, <3>7, <2>1, <2>3, <1>q, <1>h, QueueStep
  <2> QED BY <2>1, <2>2, <2>3 DEF CancelPrintJob
<1>11. CASE WatchSpoolJob(r)
  <2> DEFINE o == [q EXCEPT !.pc = "ok"]
             j == <<r, q.attempt>>
  <2>1. /\ request' = [request EXCEPT ![r] = o]
        /\ q.pc = "accepted" /\ watched' = watched \cup {j}
        /\ free' = free /\ job' = job /\ old' = old /\ resumed' = resumed
        /\ ticked' = ticked /\ late' = late /\ expired' = expired
    BY <1>11, <1>r DEF WatchSpoolJob, At, Go, JobOf, printer
  <2>2. o \in Request /\ o.pc = "ok" /\ o.answer = q.answer /\ o.stuck = q.stuck /\ o.attempt = q.attempt
    BY <1>q DEF Request
  <2> HIDE DEF o
  <2>o. /\ request'[r] = o
        /\ \A s \in Requests \ {r} : request'[s] = request[s]
    BY <2>1, <1>r
  <2>p. PICK p \in Request : p = o
    BY <2>2
  <2>3. Sound(r, p)'
    BY <1>h, <1>q, <2>1, <2>2, <2>p DEF Sound, Armed, NothingYet, DeadOrResumed, Present, Followed,
                            Unspooled, FoundStuck, Spooled
  <2>4. AllSound'
    <3> SUFFICES ASSUME NEW s \in Requests PROVE Sound(s, request[s])'
      BY DEF AllSound
    <3>1. CASE s = r
      BY <3>1, <2>3, <2>o, <2>p DEF Sound, Armed, NothingYet, DeadOrResumed, Present, Followed
    <3>2. CASE s # r
      <4>1. Sound(s, request[s]) /\ request'[s] = request[s]
        BY <3>2, <2>o DEF Inv, AllSound
      <4> QED BY <1>h, <4>1, <2>1 DEF Sound, Armed, NothingYet, DeadOrResumed, Present, Followed
    <3> QED BY <3>1, <3>2
  <2>s. ASSUME NEW i \in Jobs, ~Submitting(i)
        PROVE  ~Submitting(i)'
    <3>1. i[1] \in Requests
      BY JobParts
    <3>2. CASE i[1] = r
      BY <3>2, <2>o, <2>2 DEF Submitting, JobOf
    <3>3. CASE i[1] # r
      BY <1>h, <2>s, <3>1, <3>3, <2>o DEF Submitting, JobOf
    <3> QED BY <3>2, <3>3
  <2>5. TypeOK'
    BY <1>h, <1>q, <2>1, <2>2 DEF TypeOK
  <2>6. Listed'
    <3> SUFFICES ASSUME NEW s \in Requests, NEW i \in request'[s].stuck
                 PROVE  job'[i] # "none" /\ ~Submitting(i)'
      BY DEF Listed
    <3>1. i \in request[s].stuck
      BY <2>o, <2>2
    <3>2. i \in Jobs /\ job[i] # "none" /\ ~Submitting(i)
      BY <3>1, <1>r DEF Inv, Listed, Request
    <3> QED BY <3>2, <2>s, <2>1
  <2>7. OldJobs'
    <3> SUFFICES ASSUME NEW i \in old PROVE Queued(i)' /\ ~Submitting(i)'
      BY <2>1 DEF OldJobs
    <3>1. i \in Jobs /\ Queued(i) /\ ~Submitting(i)
      BY <1>r DEF Inv, OldJobs
    <3> QED BY <3>1, <2>s, <2>1 DEF Queued
  <2>8. WatchedOk'
    <3> SUFFICES ASSUME NEW i \in watched \cup {j}
                 PROVE  request'[i[1]].pc = "ok" /\ i = JobOf(i[1])'
      BY <2>1 DEF WatchedOk
    <3>1. CASE i = j
      BY <3>1, <2>o, <2>2 DEF JobOf
    <3>2. CASE i \in watched
      <4>1. i[1] \in Requests /\ request[i[1]].pc = "ok" /\ i = JobOf(i[1])
        BY <3>2, <1>q, JobParts DEF TypeOK, Inv, WatchedOk
      <4> QED BY <4>1, <2>o, <2>1 DEF JobOf
    <3> QED BY <3>1, <3>2
  <2>9. Ticked'
    BY <2>1 DEF Inv, Ticked, Queued
  <2> QED BY <2>4, <2>5, <2>6, <2>7, <2>8, <2>9 DEF Inv
<1> QED BY <1>1, <1>2, <1>3, <1>4, <1>5, <1>6, <1>7, <1>8, <1>9, <1>10, <1>11 DEF Step, Proceeds

-----------------------------------------------------------------------------
LEMMA TickInv ==
    ASSUME Inv, Tick, UNCHANGED hung
    PROVE  Inv'
<1>i. TypeOK /\ AllSound /\ Listed /\ OldJobs /\ WatchedOk /\ Ticked
  BY DEF Inv
<1>t. /\ ticked \in [Jobs -> {"no", "copied", "gone", "stuck", "moving"}]
      /\ watched \subseteq Jobs /\ late \subseteq Jobs /\ expired \subseteq Jobs
      /\ resumed \subseteq Jobs
  BY <1>i DEF TypeOK
<1>1. CASE Snapshot
  <2>1. /\ UNCHANGED <<request, free, printer>>
        /\ watched' = watched /\ late' = late /\ expired' = expired
        /\ ticked' = [j \in Jobs |-> IF j \in watched THEN "copied" ELSE "no"]
    BY <1>1 DEF Snapshot
  <2> QED BY <2>1, <1>t, WatcherStep
<1>2. CASE ListQueue
  <2>1. /\ UNCHANGED <<request, free, printer>>
        /\ watched' = watched /\ late' = late /\ expired' = expired
        /\ \/ ticked' = [j \in Jobs |-> SeenInQueue(j)]
           \/ ticked' = [j \in Jobs |-> "no"]
    BY <1>2 DEF ListQueue
  <2>2. \A j \in Jobs : /\ SeenInQueue(j) \in {"no", "gone", "stuck", "moving"}
                        /\ SeenInQueue(j) # "no" => ticked[j] # "no"
                        /\ SeenInQueue(j) = "gone" => ~Queued(j)
    BY DEF SeenInQueue, Queued
  <2>3. \A j \in Jobs : ticked'[j] # "no" =>
            j \in watched' /\ (ticked'[j] = "gone" => ~Queued(j))
    BY <2>1, <2>2, <1>i DEF Ticked
  <2>4. ticked' \in [Jobs -> {"no", "copied", "gone", "stuck", "moving"}]
    BY <2>1, <2>2
  <2> QED BY <2>1, <2>3, <2>4, <1>t, WatcherStep
<1>3. CASE \E j \in Jobs : Evaluate(j)
  <2>1. PICK j \in Jobs : Evaluate(j)
    BY <1>3
  <2>2. /\ ticked' = [ticked EXCEPT ![j] = "no"]
        /\ request' = request /\ free' = free /\ resumed' = resumed
        /\ j \in watched
    BY <2>1, <1>i DEF Evaluate, Ticked
  <2>3. ticked' \in [Jobs -> {"no", "copied", "gone", "stuck", "moving"}]
    BY <2>2, <1>t
  <2>4. \A i \in Jobs : ticked'[i] = "no" \/ (ticked'[i] = ticked[i] /\ i # j)
    BY <2>2, <1>t
  <2>5. CASE ticked[j] = "gone" /\ watched' = watched \ {j} /\ UNCHANGED <<job, old, late, expired>>
    <3>1. ~Queued(j)
      BY <2>5, <1>i DEF Ticked
    <3>2. \A i \in Jobs : ticked'[i] # "no" => i \in watched' /\ (ticked'[i] = "gone" => ~Queued(i))
      BY <2>4, <2>5, <1>i DEF Ticked
    <3> QED BY <3>1, <3>2, <2>2, <2>3, <2>5, <1>t, WatcherStep DEF printer
  <2>6. CASE /\ ticked[j] = "moving" /\ UNCHANGED <<job, old, late>>
             /\ \/ UNCHANGED <<watched, expired>>
                \/ watched' = watched \ {j} /\ expired' = expired \cup {j}
    <3>1. \A i \in Jobs : ticked'[i] # "no" => i \in watched' /\ (ticked'[i] = "gone" => ~Queued(i))
      BY <2>4, <2>6, <1>i DEF Ticked
    <3>2. expired' \subseteq Jobs
      BY <2>6, <1>t
    <3> QED BY <3>1, <3>2, <2>2, <2>3, <2>6, <1>t, WatcherStep DEF printer
  <2>7. CASE /\ ticked[j] = "stuck" /\ watched' = watched \ {j} /\ CancelPrintJob(j)
             /\ late' = late \cup {j} /\ UNCHANGED expired
    <3>1. CASE UNCHANGED <<job, old>>
      <4>1. \A i \in Jobs : ticked'[i] # "no" => i \in watched' /\ (ticked'[i] = "gone" => ~Queued(i))
        BY <2>4, <2>7, <1>i DEF Ticked
      <4> QED BY <3>1, <4>1, <2>2, <2>3, <2>7, <1>t, WatcherStep DEF printer
    <3>2. CASE Queued(j) /\ Leaves(j, "deleted")
      <4> DEFINE r == j[1]
                 q == request[r]
      <4>1. /\ r \in Requests /\ q \in Request /\ q.pc = "ok" /\ Sound(r, q)
            /\ request' = [request EXCEPT ![r] = q]
        BY <2>2, <1>i, JobParts DEF TypeOK, WatchedOk, AllSound
      <4>2. \A s \in Requests : Allowed(s, request'[s], j, "deleted")
        BY <2>2, <2>7, <4>1 DEF Allowed
      <4>3. job' = [job EXCEPT ![j] = "deleted"] /\ old' = old \ {j}
        BY <3>2 DEF Leaves
      <4>4. ~Loose(q)
        BY <4>1 DEF Loose
      <4> HIDE DEF q, r
      <4>5. \A i \in Jobs : ticked'[i] = "no" \/ (ticked'[i] = ticked[i] /\ (i \in watched => i \in watched'))
        BY <2>4, <2>7
      <4>6. request[r] = q
        BY DEF q
      <4> QED BY <4>1, <4>2, <4>3, <4>4, <4>5, <4>6, <3>2, <2>2, <2>3, <2>7, <1>t, QueueStep
    <3> QED BY <2>7, <3>1, <3>2 DEF CancelPrintJob
  <2> QED BY <2>1, <2>5, <2>6, <2>7 DEF Evaluate
<1> QED BY <1>1, <1>2, <1>3 DEF Tick

-----------------------------------------------------------------------------
LEMMA SpoolInv ==
    ASSUME Inv, NEW r \in Requests, RawPrintWindows(r), UNCHANGED hung
    PROVE  Inv'
<1> DEFINE q == request[r]
           j == <<r, q.attempt>>
<1>i. TypeOK /\ AllSound /\ Listed /\ OldJobs /\ WatchedOk /\ Ticked
  BY DEF Inv
<1>q. /\ q \in Request /\ Sound(r, q) /\ j \in Jobs /\ q.pc = "reply" /\ q.answer = "none"
      /\ request \in [Requests -> Request]
  BY <1>i DEF TypeOK, AllSound, Request, Jobs, RawPrintWindows, At
<1>n. job[j] = "none"
  BY <1>q DEF Sound, NothingYet, Unspooled, Request
<1>u. /\ free' = free /\ old' = old /\ resumed' = resumed
      /\ watched' = watched /\ ticked' = ticked /\ late' = late /\ expired' = expired
  BY DEF RawPrintWindows, watcher
<1>a. PICK answer \in {"OK", "ERR"} :
          /\ request' = [request EXCEPT ![r].answer = answer]
          /\ \/ job' = [job EXCEPT ![j] = "moving"]
             \/ answer = "ERR" /\ job' = job
  BY DEF RawPrintWindows, JobOf
<1> DEFINE o == [q EXCEPT !.answer = answer]
<1>o. /\ o \in Request /\ o.pc = "reply" /\ o.answer = answer /\ o.stuck = q.stuck
      /\ o.attempt = q.attempt /\ o.worker = q.worker
  BY <1>q, <1>a DEF Request
<1>r. /\ request' = [request EXCEPT ![r] = o]
      /\ request'[r] = o
      /\ \A s \in Requests \ {r} : request'[s] = request[s]
  BY <1>q, <1>a
<1> HIDE DEF o
<1>j. \A i \in Jobs : job'[i] = job[i] \/ (i = j /\ job'[i] = "moving" /\ job[i] = "none")
  BY <1>a, <1>n, <1>i DEF TypeOK
<1>1. TypeOK'
  BY <1>i, <1>u, <1>a, <1>o, <1>r DEF TypeOK
<1>2. AllSound'
  <2> SUFFICES ASSUME NEW s \in Requests PROVE Sound(s, request[s])'
    BY DEF AllSound
  <2>1. CASE s = r
    <3>p. PICK p \in Request : p = o
      BY <1>o
    <3>0. p.attempt \in Attempts /\ \A a \in Attempts : <<r, a>> \in Jobs
      BY DEF Request, Jobs
    <3>1. NothingYet(r, p)'
      <4> SUFFICES ASSUME NEW a \in Attempts, Unspooled(p, a) PROVE job'[<<r, a>>] = "none"
        BY DEF NothingYet, Unspooled
      <4>1. a > q.attempt
        BY <1>o, <1>a, <3>p DEF Unspooled
      <4>2. job[<<r, a>>] = "none" /\ <<r, a>> # j
        BY <4>1, <1>q, PrintAssumption DEF Sound, NothingYet, Unspooled, Request, Attempts
      <4> QED BY <4>2, <3>0, <1>j
    <3>2. DeadOrResumed(r, p)'
      <4> SUFFICES ASSUME NEW a \in Attempts, FoundStuck(p, a),
                          job'[<<r, a>>] \in {"moving", "printed"}
                   PROVE  <<r, a>> \in resumed
        BY <1>u DEF DeadOrResumed, FoundStuck
      <4>1. a < q.attempt
        BY <1>o, <3>p DEF FoundStuck
      <4>2. <<r, a>> # j /\ FoundStuck(q, a)
        BY <4>1, <1>q, PrintAssumption DEF FoundStuck, Request, Attempts
      <4> QED BY <4>2, <3>0, <1>j, <1>q DEF Sound, DeadOrResumed
    <3>3. Present(r, p)'
      BY <1>o, <1>a, <3>p, <3>0, <1>j, <1>n, <1>i DEF Present, Spooled, TypeOK
    <3>4. Followed(r, p)' /\ Armed(p)
      BY <1>o, <3>p, <1>q DEF Followed, Armed, Sound
    <3> QED BY <2>1, <3>p, <3>1, <3>2, <3>3, <3>4, <1>r
            DEF Sound, Armed, NothingYet, DeadOrResumed, Present, Followed
  <2>2. CASE s # r
    <3>1. Sound(s, request[s]) /\ request'[s] = request[s] /\ request[s].attempt \in Attempts
      BY <2>2, <1>i, <1>q, <1>r DEF AllSound, Request
    <3>2. \A a \in Attempts : job'[<<s, a>>] = job[<<s, a>>]
      BY <2>2, <1>j DEF Jobs
    <3> QED BY <3>1, <3>2, <1>u DEF Sound, Armed, NothingYet, DeadOrResumed, Present, Followed
  <2> QED BY <2>1, <2>2
<1>s. ASSUME NEW i \in Jobs, ~Submitting(i)
      PROVE  ~Submitting(i)'
  BY <1>s, <1>r, <1>o, <1>q, JobParts DEF Submitting, JobOf
<1>3. Listed'
  <2> SUFFICES ASSUME NEW s \in Requests, NEW i \in request'[s].stuck
               PROVE  job'[i] # "none" /\ ~Submitting(i)'
    BY DEF Listed
  <2>1. i \in request[s].stuck
    BY <1>r, <1>o
  <2>2. i \in Jobs /\ job[i] # "none" /\ ~Submitting(i)
    BY <2>1, <1>i, <1>q DEF Listed, Request
  <2> QED BY <2>2, <1>s, <1>j
<1>4. OldJobs'
  <2> SUFFICES ASSUME NEW i \in old PROVE Queued(i)' /\ ~Submitting(i)'
    BY <1>u DEF OldJobs
  <2>1. i \in Jobs /\ Queued(i) /\ ~Submitting(i)
    BY <1>i DEF TypeOK, OldJobs
  <2> QED BY <2>1, <1>s, <1>j DEF Queued
<1>5. WatchedOk'
  <2> SUFFICES ASSUME NEW i \in watched
               PROVE  request'[i[1]].pc = "ok" /\ i = JobOf(i[1])'
    BY <1>u DEF WatchedOk
  <2>1. i[1] \in Requests /\ request[i[1]].pc = "ok" /\ i = JobOf(i[1])
    BY <1>i, JobParts DEF TypeOK, WatchedOk
  <2> QED BY <2>1, <1>r, <1>q DEF JobOf
<1>6. Ticked'
  <2> SUFFICES ASSUME NEW i \in Jobs, ticked[i] # "no"
               PROVE  i \in watched /\ (ticked[i] = "gone" => ~Queued(i)')
    BY <1>u DEF Ticked
  <2>1. i \in watched /\ (ticked[i] = "gone" => ~Queued(i))
    BY <1>i DEF Ticked
  <2>2. i # j
    BY <2>1, <1>i, <1>q DEF WatchedOk
  <2> QED BY <2>1, <2>2, <1>j DEF Queued
<1> QED BY <1>1, <1>2, <1>3, <1>4, <1>5, <1>6 DEF Inv

LEMMA PrinterInv ==
    ASSUME Inv, NEW j \in Jobs, Prints(j) \/ GetsStuck(j) \/ Resume(j), UNCHANGED hung
    PROVE  Inv'
<1> DEFINE r == j[1]
           q == request[r]
<1>1. /\ r \in Requests /\ q \in Request /\ Sound(r, q)
      /\ request \in [Requests -> Request] /\ resumed \subseteq Jobs /\ late \subseteq Jobs
      /\ old \subseteq Jobs /\ ticked \in [Jobs -> {"no", "copied", "gone", "stuck", "moving"}]
  BY JobParts DEF Inv, TypeOK, AllSound
<1>2. /\ request' = request /\ free' = free
      /\ watched' = watched /\ ticked' = ticked /\ late' = late /\ expired' = expired
  BY DEF Prints, GetsStuck, Resume, watcher
<1>3. PICK v \in {"moving", "stuck", "printed", "deleted"} :
          /\ job' = [job EXCEPT ![j] = v] /\ Queued(j) /\ v # "deleted"
          /\ old' \subseteq old /\ (j \in old' => v \in {"moving", "stuck"})
          /\ resumed \subseteq resumed' /\ resumed' \subseteq Jobs
          /\ v = "printed" => job[j] = "moving"
          /\ v = "moving" /\ FoundStuck(q, j[2]) => j \in resumed'
  BY <1>1 DEF Prints, GetsStuck, Resume, Queued, Leaves
<1>4. \A s \in Requests : Allowed(s, request'[s], j, v)
  <2> SUFFICES ASSUME NEW s \in Requests, j[1] = s, FoundStuck(request[s], j[2]),
                      v \in {"moving", "printed"}
               PROVE  j \in resumed'
    BY <1>2, <1>3 DEF Allowed
  <2>1. CASE v = "moving"
    BY <2>1, <1>3
  <2>2. CASE v = "printed"
    BY <2>2, <1>1, <1>3, JobParts DEF Sound, DeadOrResumed
  <2> QED BY <2>1, <2>2
<1>5. request' = [request EXCEPT ![r] = q]
  BY <1>1, <1>2
<1> QED
  <2> HIDE DEF r, q
  <2>1. request[r] = q
    BY DEF q
  <2> QED BY <2>1, <1>1, <1>2, <1>3, <1>4, <1>5, QueueStep

LEMMA GrowsOldInv ==
    ASSUME Inv, NEW j \in Jobs, GrowsOld(j), UNCHANGED hung
    PROVE  Inv'
<1>i. TypeOK /\ AllSound /\ Listed /\ OldJobs /\ WatchedOk /\ Ticked
  BY DEF Inv
<1>u. /\ request' = request /\ free' = free /\ job' = job /\ resumed' = resumed
      /\ watched' = watched /\ ticked' = ticked /\ late' = late /\ expired' = expired
      /\ old' = old \cup {j} /\ Queued(j) /\ ~Submitting(j)
  BY DEF GrowsOld, watcher
<1>1. TypeOK'
  BY <1>i, <1>u DEF TypeOK
<1>2. AllSound'
  <2> SUFFICES ASSUME NEW s \in Requests PROVE Sound(s, request[s])'
    BY DEF AllSound
  <2>1. Sound(s, request[s])
    BY <1>i DEF AllSound
  <2> QED BY <2>1, <1>u DEF Sound, Armed, NothingYet, DeadOrResumed, Present, Followed
<1>3. Listed' /\ OldJobs' /\ WatchedOk' /\ Ticked'
  BY <1>i, <1>u DEF Listed, OldJobs, WatchedOk, Ticked, Submitting, JobOf, Queued
<1> QED BY <1>1, <1>2, <1>3 DEF Inv

-----------------------------------------------------------------------------
(* A call that hangs submits nothing any more, so nothing is asked of the  *)
(* job it may have left.                                                   *)
LEMMA HangInv ==
    ASSUME Inv, NEW r \in Requests, CallHangs(r)
    PROVE  Inv'
<1>u. /\ request' = request /\ free' = free /\ job' = job /\ old' = old /\ resumed' = resumed
      /\ watched' = watched /\ ticked' = ticked /\ late' = late /\ expired' = expired
      /\ hung \subseteq hung' /\ hung' \subseteq hung \cup {r}
  BY DEF CallHangs, printer, watcher
<1>1. TypeOK'
  BY <1>u DEF Inv, TypeOK
<1>2. AllSound'
  <2> SUFFICES ASSUME NEW s \in Requests PROVE Sound(s, request[s])'
    BY DEF AllSound
  <2>1. Sound(s, request[s])
    BY DEF Inv, AllSound
  <2> QED BY <2>1, <1>u DEF Sound, Armed, NothingYet, DeadOrResumed, Present, Followed
<1>3. Listed' /\ OldJobs' /\ WatchedOk' /\ Ticked'
  BY <1>u DEF Inv, Listed, OldJobs, WatchedOk, Ticked, Submitting, JobOf, Queued
<1> QED BY <1>1, <1>2, <1>3 DEF Inv

LEMMA InitInv == Init => Inv
<1> SUFFICES ASSUME Init PROVE Inv
  OBVIOUS
<1>1. TypeOK
  BY AskedType DEF Init, TypeOK
<1>2. AllSound
  <2> SUFFICES ASSUME NEW r \in Requests PROVE Sound(r, Asked)
    BY DEF Init, AllSound
  <2>1. \A a \in Attempts : job[<<r, a>>] = "none" /\ ~(a < 1)
    BY PrintAssumption DEF Init, Jobs, Attempts
  <2> QED BY <2>1 DEF Asked, Sound, Armed, NothingYet, DeadOrResumed, Present, Followed,
                      FoundStuck, Spooled
<1>3. Listed /\ OldJobs /\ WatchedOk /\ Ticked
  BY DEF Init, Asked, Listed, OldJobs, WatchedOk, Ticked
<1> QED BY <1>1, <1>2, <1>3 DEF Inv

LEMMA NextInv == Inv /\ [Next]_vars => Inv'
<1> SUFFICES ASSUME Inv, [Next]_vars PROVE Inv'
  OBVIOUS
<1>1. CASE Next
  BY <1>1, StepInv, HangInv, TickInv, SpoolInv, PrinterInv, GrowsOldInv DEF Next, Environment
<1>2. CASE UNCHANGED vars
  BY <1>2 DEF vars, Inv, TypeOK, AllSound, Sound, Armed, NothingYet, DeadOrResumed, Present,
              Followed, Listed, OldJobs, WatchedOk, Ticked, Submitting, JobOf, Queued
<1> QED BY <1>1, <1>2

LEMMA Invariance == Spec => []Inv
BY InitInv, NextInv, PTL DEF Spec

(* The state of prints, queue and watcher is what the code's types allow,  *)
(* so no print makes more than PrintRetryAttempts attempts.                *)
THEOREM TypeCorrect == Spec => []TypeOK
<1>1. Inv => TypeOK
  BY DEF Inv
<1> QED BY <1>1, Invariance, PTL

(* An attempt that is made again, or given up for a reason that invites    *)
(* the operator to try again, left nothing that prints by itself.          *)
THEOREM ResendIsSafe == Spec => []SafeToResend
<1>1. Inv => SafeToResend
  <2> SUFFICES ASSUME Inv, NEW r \in Requests, NEW a \in Attempts, LeftBehind(request[r], a),
                      job[<<r, a>>] \in {"moving", "printed"}
               PROVE  <<r, a>> \in resumed
    BY DEF SafeToResend
  <2>1. Sound(r, request[r])
    BY DEF Inv, AllSound
  <2>2. FoundStuck(request[r], a) \/ Unspooled(request[r], a)
    BY DEF LeftBehind, FoundStuck, Unspooled
  <2> QED BY <2>1, <2>2 DEF Sound, DeadOrResumed, NothingYet
<1> QED BY <1>1, Invariance, PTL

(* A label that the operator was told is printed, and that was deleted     *)
(* from the queue, was reported unless the watcher's time was over.        *)
THEOREM LossIsReported == Spec => []NoSilentLoss
<1>1. Inv => NoSilentLoss
  BY DEF Inv, AllSound, NoSilentLoss, Sound, Followed, JobOf, At
<1> QED BY <1>1, Invariance, PTL

-----------------------------------------------------------------------------
(* Workers.  The invariant says the same of a request that is not done     *)
(* with its worker; only four steps take, use or give back one.            *)

LEMMA WorkerStep ==
    ASSUME Inv, WorkersKept, Next
    PROVE  WorkersKept'
<1>r. request \in [Requests -> Request] /\ free \subseteq Workers
  BY DEF Inv, TypeOK
<1>w. \A r \in Requests : Holding(r) => request[r].worker \in Workers \ free
  BY DEF Inv, AllSound, Sound, Armed, Holding, WorkersKept
<1> DEFINE Same(r) == (Holding(r)' <=> Holding(r)) /\ (Holding(r) => request'[r].worker = request[r].worker)
           Gives(r) == Holding(r) /\ ~Holding(r)' /\ free' = free \cup {request[r].worker}
           Takes(r) == ~Holding(r) /\ Holding(r)' /\ request'[r].worker \in free
                       /\ free' = free \ {request'[r].worker}
<1>1. ASSUME NEW r \in Requests,
             \A s \in Requests \ {r} : request'[s] = request[s],
             (Same(r) /\ free' = free) \/ Gives(r) \/ Takes(r)
      PROVE  WorkersKept'
  <2>1. \A s \in Requests \ {r} : (Holding(s)' <=> Holding(s)) /\ request'[s] = request[s]
    BY <1>1 DEF Holding
  <2>2. CASE Same(r) /\ free' = free
    BY <2>1, <2>2 DEF WorkersKept
  <2>3. CASE Gives(r)
    BY <2>1, <2>3 DEF WorkersKept
  <2>4. CASE Takes(r)
    BY <2>1, <2>4, <1>w DEF WorkersKept
  <2> QED BY <1>1, <2>2, <2>3, <2>4
<1>2. ASSUME request' = request, free' = free
      PROVE  WorkersKept'
  BY <1>2 DEF WorkersKept, Holding
<1>3. ASSUME NEW r \in Requests, Step(r) \/ RawPrintWindows(r)
      PROVE  WorkersKept'
  <2>o. \A s \in Requests \ {r} : request'[s] = request[s]
    BY <1>3, <1>r DEF Step, Proceeds, RawPrintWindows, ListStuckJobs, CancelStuckJob, Acquire, AcquireTimeout,
          WorkerUnavailable, WriteFrame, ReadReply, ReplyLost, VerifyPasses, VerifyFindsStuck,
          CancelBlocked, WatchSpoolJob, GiveUp, Go
  <2>g. ASSUME NEW error \in {"busy", "unavailable", "blocked", "unclear"}, GiveUp(r, error)
        PROVE  ~Holding(r)'
    <3>1. request'[r] = Ended(request[r], error) /\ request[r] \in Request
      BY <2>g, <1>r DEF GiveUp
    <3>2. request'[r].pc \in {"clear", "failed"}
      BY <3>1, EndedFacts
    <3> QED BY <3>2 DEF Holding
  <2>1. CASE \E w \in Workers : Acquire(r, w)
    <3>1. Takes(r)
      BY <2>1, <1>r DEF Acquire, Cleared, At, Holding
    <3> QED BY <3>1, <2>o, <1>1
  <2>2. CASE AcquireTimeout(r) \/ CancelBlocked(r)
    <3>1. /\ ~Holding(r) /\ free' = free
          /\ GiveUp(r, "busy") \/ GiveUp(r, "blocked")
      BY <2>2 DEF AcquireTimeout, CancelBlocked, Cleared, At, Holding
    <3>2. ~Holding(r)'
      BY <3>1, <2>g
    <3> QED BY <3>1, <3>2, <2>o, <1>1
  <2>3. CASE WorkerUnavailable(r)
    <3>1. CASE request[r].resend
      <4>1. Holding(r) /\ Release(r) /\ GiveUp(r, "unavailable")
        BY <2>3, <3>1 DEF WorkerUnavailable, At, Holding
      <4>2. Gives(r)
        BY <4>1, <2>g DEF Release
      <4> QED BY <4>2, <2>o, <1>1
    <3>2. CASE ~request[r].resend
      <4>1. Same(r) /\ free' = free
        BY <2>3, <3>2, <1>r DEF WorkerUnavailable, Holding, Request
      <4> QED BY <4>1, <2>o, <1>1
    <3> QED BY <3>1, <3>2
  <2>4. CASE ReadReply(r)
    <3>1. Holding(r) /\ Release(r)
      BY <2>4 DEF ReadReply, At, Holding
    <3>2. ~Holding(r)'
      <4>1. CASE GiveUp(r, "unclear")
        BY <4>1, <2>g
      <4>2. CASE request' = [request EXCEPT ![r].pc = "verify", ![r].worker = NoWorker,
                                            ![r].answer = "none"]
        BY <4>2, <1>r DEF Holding, Request
      <4> QED BY <2>4, <4>1, <4>2 DEF ReadReply
    <3>3. Gives(r)
      BY <3>1, <3>2 DEF Release
    <3> QED BY <3>3, <2>o, <1>1
  <2>5. CASE ReplyLost(r)
    <3>1. Holding(r) /\ Release(r) /\ GiveUp(r, "unclear")
      BY <2>5 DEF ReplyLost, Overdue, At, Holding
    <3>2. Gives(r)
      BY <3>1, <2>g DEF Release
    <3> QED BY <3>2, <2>o, <1>1
  <2>6. CASE \/ ListStuckJobs(r) \/ (\E j \in Jobs : CancelStuckJob(r, j)) \/ WriteFrame(r)
             \/ VerifyPasses(r) \/ VerifyFindsStuck(r) \/ WatchSpoolJob(r) \/ RawPrintWindows(r)
    <3>1. CASE ListStuckJobs(r) \/ VerifyPasses(r) \/ VerifyFindsStuck(r) \/ WatchSpoolJob(r)
      <4>1. Same(r) /\ free' = free
        BY <3>1, <1>r DEF ListStuckJobs, VerifyPasses, VerifyFindsStuck, WatchSpoolJob, At, Go,
                          Holding, Request
      <4> QED BY <4>1, <2>o, <1>1
    <3>2. CASE \E j \in Jobs : CancelStuckJob(r, j)
      <4>1. Same(r) /\ free' = free
        BY <3>2, <1>r DEF CancelStuckJob, At, Holding, Request
      <4> QED BY <4>1, <2>o, <1>1
    <3>3. CASE WriteFrame(r)
      <4>1. Same(r) /\ free' = free
        BY <3>3, <1>r DEF WriteFrame, At, Holding, Request
      <4> QED BY <4>1, <2>o, <1>1
    <3>4. CASE RawPrintWindows(r)
      <4>1. PICK answer \in {"OK", "ERR"} : request' = [request EXCEPT ![r].answer = answer]
        BY <3>4 DEF RawPrintWindows
      <4>2. Same(r) /\ free' = free
        BY <3>4, <4>1, <1>r DEF RawPrintWindows, At, Holding, Request
      <4> QED BY <4>2, <2>o, <1>1
    <3> QED BY <2>6, <3>1, <3>2, <3>3, <3>4
  <2> QED BY <1>3, <2>1, <2>2, <2>3, <2>4, <2>5, <2>6 DEF Step, Proceeds
<1>4. ASSUME \/ Tick \/ \E r \in Requests : CallHangs(r)
             \/ \E j \in Jobs : Prints(j) \/ GetsStuck(j) \/ Resume(j) \/ GrowsOld(j)
      PROVE  WorkersKept'
  <2>1. request' = request /\ free' = free
    BY <1>4 DEF CallHangs, Tick, Snapshot, ListQueue, Evaluate, Prints, GetsStuck, Resume, GrowsOld
  <2> QED BY <2>1, <1>2
<1> QED BY <1>3, <1>4 DEF Next, Environment

(* However an attempt ends, its worker is back in the pool, and no two     *)
(* prints are at one worker.                                               *)
THEOREM WorkersReturn == Spec => []WorkersKept
<1>1. Init => WorkersKept
  BY DEF Init, Asked, WorkersKept, Holding
<1>2. Inv /\ WorkersKept /\ [Next]_vars => WorkersKept'
  <2>1. ASSUME UNCHANGED vars, WorkersKept PROVE WorkersKept'
    BY <2>1 DEF vars, WorkersKept, Holding
  <2> QED BY <2>1, WorkerStep
<1> QED BY <1>1, <1>2, Invariance, PTL DEF Spec
=============================================================================
