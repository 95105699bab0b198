---------------------------- MODULE WebhooksProofs ----------------------------
(***************************************************************************)
(* What Webhooks promises, for any number of endpoints, events, requests   *)
(* and tries: the type invariant, the limit of endpoints, what a delivery  *)
(* may do twice and after its endpoint was switched off, and that its      *)
(* tries run out.                                                          *)
(***************************************************************************)
EXTENDS Webhooks, FiniteSetTheorems, TLAPS

\* A job that is in the queue or in a worker's hands has a try left.
TryIsLeft == \A j \in Job : job[j].at \in {"waiting"} \cup Running => job[j].left # 0

\* The acceptance of a job is known from its answer on.
Accepted == {"answered", "delivered"}
KnownOnce == \A j \in Job : known[j] = IF job[j].at \in Accepted THEN 1 ELSE 0

\* An event's jobs are made once: not before it has happened, not while its endpoints are
\* still to be read, and not again once they are in the queue.
Made(j) == j.event.kind \in happened /\ j.event \notin raised
JobsOnce ==
  /\ \A v \in raised : v.kind \in happened
  /\ \A j \in fanOut : j.retry = 0 /\ Made(j) /\ job[j].at = "absent"
  /\ \A j \in Job : row[j] # "none" => job[j].at # "absent"
  /\ \A j \in Job : job[j].at # "absent" => Made(j)

Typed == TypeOK /\ TryIsLeft /\ KnownOnce /\ JobsOnce

-----------------------------------------------------------------------------
(* Steps of a job's own *)

LEMMA States ==
  /\ NoJob \in JobState /\ NoJob.at = "absent"
  /\ \A left \in 1..Attempts :
       /\ [NoJob EXCEPT !.at = "waiting", !.left = left] \in JobState
       /\ [NoJob EXCEPT !.at = "waiting", !.left = left].at = "waiting"
       /\ [NoJob EXCEPT !.at = "waiting", !.left = left].left = left
  /\ NoRequest \in RequestState /\ NoRequest.op = "none"
<1>1. NoJob \in JobState /\ NoJob.at = "absent"
  BY WebhookAssumption DEF NoJob, JobState
<1>2. NoRequest \in RequestState /\ NoRequest.op = "none"
  BY DEF NoRequest, RequestState
<1>3. ASSUME NEW left \in 1..Attempts
      PROVE  /\ [NoJob EXCEPT !.at = "waiting", !.left = left] \in JobState
             /\ [NoJob EXCEPT !.at = "waiting", !.left = left].at = "waiting"
             /\ [NoJob EXCEPT !.at = "waiting", !.left = left].left = left
  <2> DEFINE new == [NoJob EXCEPT !.at = "waiting", !.left = left]
  <2>1. left \in 0..Attempts
    BY WebhookAssumption
  <2>2. "waiting" \in {"absent", "waiting", "loaded", "inserted", "answered", "refused", "delivered",
                      "dropped", "failed"}
    OBVIOUS
  <2>3. new \in JobState /\ new.at = "waiting" /\ new.left = left
    BY <1>1, <2>1, <2>2 DEF JobState
  <2> QED BY <2>3
<1> QED BY <1>1, <1>2, <1>3

\* What one job becomes, when it becomes a job.
LEMMA OneJob ==
  ASSUME Typed, NEW j \in Job, NEW new \in JobState, job' = [job EXCEPT ![j] = new]
  PROVE  job' \in [Job -> JobState] /\ job'[j] = new /\ \A i \in Job \ {j} : job'[i] = job[i]
  BY DEF Typed, TypeOK

\* A step of one job that neither makes one, nor makes its acceptance known or unknown.
LEMMA QuietStep ==
  ASSUME Typed, NEW j \in Job, NEW new \in JobState, job' = [job EXCEPT ![j] = new],
         job[j].at # "absent", new.at # "absent",
         new.at \in {"waiting"} \cup Running => new.left # 0,
         new.at \in Accepted <=> job[j].at \in Accepted,
         row' \in [Job -> {"none", "PENDING", "SUCCESS", "FAILED"}],
         \A i \in Job \ {j} : row'[i] = row[i],
         late' \in [Job -> Nat], UNCHANGED <<queueVars, manageVars, stalls, known>>
  PROVE  Typed'
<1>1. job' \in [Job -> JobState] /\ job'[j] = new /\ \A i \in Job \ {j} : job'[i] = job[i]
  BY OneJob
<1>2. TypeOK'
  BY <1>1 DEF Typed, TypeOK, queueVars, manageVars
<1>3. TryIsLeft'
  BY <1>1 DEF Typed, TryIsLeft
<1>4. KnownOnce'
  BY <1>1 DEF Typed, KnownOnce
<1>5. JobsOnce'
  BY <1>1 DEF Typed, TypeOK, JobsOnce, Made, queueVars
<1> QED BY <1>2, <1>3, <1>4, <1>5 DEF Typed

\* A try that ends with an error leaves a job in one of two states.
LEMMA Failing ==
  ASSUME Typed, NEW j \in Job, job[j].at \in {"waiting"} \cup Running, AttemptFails(j)
  PROVE  \E new \in JobState : /\ job' = [job EXCEPT ![j] = new]
                               /\ new.at \in {"waiting", "failed"}
                               /\ new.at = "waiting" => new.left # 0
<1> DEFINE left == job[j].left - 1
           at == IF left = 0 THEN "failed" ELSE "waiting"
           new == [job[j] EXCEPT !.at = at, !.left = left]
<1>1. job[j] \in JobState /\ job[j].left \in 0..Attempts /\ job[j].left # 0
  BY DEF Typed, TypeOK, TryIsLeft, JobState
<1>2. left \in 0..Attempts
  BY <1>1, WebhookAssumption
<1>3. job' = [job EXCEPT ![j] = new]
  BY DEF AttemptFails, Typed, TypeOK
<1>4. new.at = at /\ new.left = left
  BY <1>1 DEF JobState
<1>5. at \in {"waiting", "failed"} /\ (at = "waiting" => left # 0)
  OBVIOUS
<1> HIDE DEF left, at
<1>6. new \in JobState
  BY <1>1, <1>2, <1>5 DEF JobState
<1> QED BY <1>3, <1>4, <1>5, <1>6

\* Steps of a try that change nothing but the job and its row.
LEMMA TryTyped ==
  ASSUME Typed, NEW j \in Job,
         \/ load(j) \/ loadFails(j) \/ insert(j) \/ insertFails(j) \/ givesUp(j)
         \/ saveSuccess(j) \/ saveFailed(j)
  PROVE  Typed'
<1>0. job[j] \in JobState
  BY DEF Typed, TypeOK
<1>1. /\ UNCHANGED <<queueVars, manageVars, stalls, known, late>>
      /\ row' \in [Job -> {"none", "PENDING", "SUCCESS", "FAILED"}]
      /\ \A i \in Job \ {j} : row'[i] = row[i]
  <2>1. row \in [Job -> {"none", "PENDING", "SUCCESS", "FAILED"}]
    BY DEF Typed, TypeOK
  <2> QED
    BY <2>1 DEF load, loadFails, insert, insertFails, givesUp, saveSuccess, saveFailed, historyVars,
                RowIs, RowMayBe
<1>2. late' \in [Job -> Nat]
  BY <1>1 DEF Typed, TypeOK
<1>3. CASE loadFails(j) \/ insertFails(j) \/ saveFailed(j)
  <2>1. AttemptFails(j) /\ job[j].at \in {"waiting", "loaded", "refused"}
    BY <1>3 DEF loadFails, insertFails, saveFailed
  <2>2. PICK new \in JobState : /\ job' = [job EXCEPT ![j] = new]
                                /\ new.at \in {"waiting", "failed"}
                                /\ new.at = "waiting" => new.left # 0
    BY <2>1, Failing DEF Running
  <2> QED BY <1>1, <1>2, <2>1, <2>2, QuietStep DEF Accepted, Running
<1>4. ASSUME NEW at \in {"loaded", "dropped", "inserted", "delivered"}, job' = [job EXCEPT ![j].at = at],
             job[j].at \in {"waiting"} \cup Running,
             at = "delivered" <=> job[j].at = "answered"
      PROVE  Typed'
  <2> DEFINE new == [job[j] EXCEPT !.at = at]
  <2>1. job' = [job EXCEPT ![j] = new]
    BY <1>4
  <2>2. new \in JobState /\ new.at = at /\ new.left = job[j].left
    <3>1. job[j] \in JobState
      BY <1>0
    <3>2. at \in {"absent", "waiting", "loaded", "inserted", "answered", "refused", "delivered",
                 "dropped", "failed"}
      OBVIOUS
    <3> QED BY <3>1, <3>2 DEF JobState
  <2>3. job[j].left # 0
    BY <1>4 DEF Typed, TryIsLeft
  <2> HIDE DEF new
  <2> QED BY <1>1, <1>2, <1>4, <2>1, <2>2, <2>3, QuietStep DEF Accepted, Running
<1>5. CASE load(j)
  BY <1>4, <1>5 DEF load
<1>6. CASE insert(j)
  BY <1>4, <1>6 DEF insert, Running
<1>7. CASE givesUp(j)
  BY <1>4, <1>7 DEF givesUp, Running
<1>8. CASE saveSuccess(j)
  BY <1>4, <1>8 DEF saveSuccess, Running
<1> QED BY <1>3, <1>5, <1>6, <1>7, <1>8

\* The request is sent: its answer makes the acceptance known.
LEMMA PostTyped == ASSUME Typed, NEW j \in Job, post(j) PROVE Typed'
<1>1. PICK at \in {"answered", "refused"} :
        /\ job' = [job EXCEPT ![j].at = at]
        /\ known' = [known EXCEPT ![j] = IF at = "answered" THEN known[j] + 1 ELSE known[j]]
  BY DEF post, Typed, TypeOK
<1> DEFINE new == [job[j] EXCEPT !.at = at]
<1>2. job[j] \in JobState /\ job[j].at = "inserted"
  BY DEF Typed, TypeOK, post
<1>3. new \in JobState /\ new.at = at /\ new.left = job[j].left
  <2>1. at \in {"absent", "waiting", "loaded", "inserted", "answered", "refused", "delivered",
                "dropped", "failed"}
    BY <1>1
  <2> QED BY <1>2, <2>1 DEF JobState
<1>4. job' = [job EXCEPT ![j] = new]
  BY <1>1
<1> HIDE DEF new
<1>5. job' \in [Job -> JobState] /\ job'[j] = new /\ \A i \in Job \ {j} : job'[i] = job[i]
  BY <1>3, <1>4, OneJob
<1>6. known[j] = 0
  BY <1>2 DEF Typed, KnownOnce, Accepted
<1>7. /\ known' \in [Job -> Nat]
      /\ known'[j] = IF at = "answered" THEN 1 ELSE 0
      /\ \A i \in Job \ {j} : known'[i] = known[i]
  BY <1>1, <1>6 DEF Typed, TypeOK
<1>8. late' \in [Job -> Nat]
  BY DEF Typed, TypeOK, post
<1>9. TypeOK'
  BY <1>5, <1>7, <1>8 DEF Typed, TypeOK, post, queueVars, manageVars
<1>10. TryIsLeft'
  BY <1>2, <1>3, <1>5 DEF Typed, TryIsLeft, Running
<1>11. KnownOnce'
  BY <1>1, <1>3, <1>5, <1>7 DEF Typed, KnownOnce, Accepted
<1>12. JobsOnce'
  BY <1>1, <1>2, <1>3, <1>5 DEF Typed, TypeOK, JobsOnce, Made, post, queueVars
<1> QED BY <1>9, <1>10, <1>11, <1>12 DEF Typed

\* An acceptance that cannot be saved is no longer known.
LEMMA SaveFailsTyped == ASSUME Typed, NEW j \in Job, saveFails(j) PROVE Typed'
<1>1. job[j].at = "answered" /\ AttemptFails(j)
  BY DEF saveFails
<1>2. PICK new \in JobState : /\ job' = [job EXCEPT ![j] = new]
                              /\ new.at \in {"waiting", "failed"}
                              /\ new.at = "waiting" => new.left # 0
  BY <1>1, Failing DEF Running
<1>3. job' \in [Job -> JobState] /\ job'[j] = new /\ \A i \in Job \ {j} : job'[i] = job[i]
  BY <1>2, OneJob
<1>4. known[j] = 1
  BY <1>1 DEF Typed, KnownOnce, Accepted
<1>5. known' \in [Job -> Nat] /\ known'[j] = 0 /\ \A i \in Job \ {j} : known'[i] = known[i]
  BY <1>4 DEF Typed, TypeOK, saveFails
<1>6. /\ row' \in [Job -> {"none", "PENDING", "SUCCESS", "FAILED"}]
      /\ \A i \in Job \ {j} : row'[i] = row[i]
  BY DEF Typed, TypeOK, saveFails, RowMayBe, RowIs
<1>7. TypeOK'
  BY <1>3, <1>5, <1>6 DEF Typed, TypeOK, saveFails, queueVars, manageVars
<1>8. TryIsLeft'
  BY <1>2, <1>3 DEF Typed, TryIsLeft, Running
<1>9. KnownOnce'
  BY <1>2, <1>3, <1>5 DEF Typed, KnownOnce, Accepted
<1>10. JobsOnce'
  BY <1>1, <1>2, <1>3, <1>6 DEF Typed, TypeOK, JobsOnce, Made, saveFails, queueVars
<1> QED BY <1>7, <1>8, <1>9, <1>10 DEF Typed

LEMMA WorkTyped == ASSUME Typed, NEW j \in Job, Work(j) PROVE Typed'
  BY TryTyped, PostTyped, SaveFailsTyped DEF Work

-----------------------------------------------------------------------------
(* From an event to its jobs *)

\* What becomes a job of the queue has been none before.
LEMMA QueuedTyped ==
  ASSUME Typed, NEW j \in Job, NEW left \in 1..Attempts, Queued(j, left),
         job[j].at = "absent", Made(j), j \notin fanOut', fanOut' \subseteq fanOut,
         UNCHANGED <<happened, raised, manageVars, row, stalls, historyVars>>
  PROVE  Typed'
<1> DEFINE new == [NoJob EXCEPT !.at = "waiting", !.left = left]
<1>1. new \in JobState /\ new.at = "waiting" /\ new.left = left
  BY States
<1>2. job' = [job EXCEPT ![j] = new]
  BY DEF Queued
<1> HIDE DEF new
<1>3. job' \in [Job -> JobState] /\ job'[j] = new /\ \A i \in Job \ {j} : job'[i] = job[i]
  BY <1>1, <1>2, OneJob
<1>4. TypeOK'
  BY <1>3 DEF Typed, TypeOK, manageVars, historyVars
<1>5. TryIsLeft'
  BY <1>1, <1>3 DEF Typed, TryIsLeft
<1>6. KnownOnce'
  BY <1>1, <1>3 DEF Typed, KnownOnce, Accepted, historyVars
<1>7. JobsOnce'
  BY <1>1, <1>3 DEF Typed, TypeOK, JobsOnce, Made
<1> QED BY <1>4, <1>5, <1>6, <1>7 DEF Typed

\* A job has the event of its delivery, and the next retry has it too.
LEMMA NextRetry ==
  ASSUME NEW j \in Job, j.retry < MaxRetries
  PROVE  LET again == [j EXCEPT !.retry = j.retry + 1]
         IN  again \in Job /\ again.event = j.event /\ again.retry # 0
<1>1. j.retry \in 0..MaxRetries
  BY DEF Job
<1>2. j.retry + 1 \in 0..MaxRetries /\ j.retry + 1 # 0
  BY <1>1, WebhookAssumption
<1> QED BY <1>2 DEF Job

LEMMA EnqueueTyped == ASSUME Typed, Enqueue PROVE Typed'
<1>1. ASSUME NEW v \in Event, enqueueDeliveriesForEvent(v) PROVE Typed'
  <2> DEFINE new == {[to |-> e, event |-> v, retry |-> 0] : e \in matching(v)}
  <2>1. v \in raised /\ raised' = raised \ {v} /\ fanOut' = fanOut \cup new
    BY <1>1 DEF enqueueDeliveriesForEvent
  <2>2. UNCHANGED <<happened, manageVars, job, row, stalls, historyVars>>
    BY <1>1 DEF enqueueDeliveriesForEvent
  <2>3. \A j \in new : j \in Job /\ j.event = v /\ j.retry = 0
    <3>1. 0 \in 0..MaxRetries
      BY WebhookAssumption
    <3> QED BY <3>1 DEF matching, Job
  <2> HIDE DEF new
  <2>4. TypeOK'
    BY <2>1, <2>2, <2>3 DEF Typed, TypeOK, manageVars, historyVars
  <2>5. TryIsLeft' /\ KnownOnce'
    BY <2>2 DEF Typed, TryIsLeft, KnownOnce, historyVars
  <2>6. JobsOnce'
    BY <2>1, <2>2, <2>3 DEF Typed, TypeOK, JobsOnce, Made
  <2> QED BY <2>4, <2>5, <2>6 DEF Typed
<1>2. ASSUME NEW v \in Event, enqueueFails(v) PROVE Typed'
  <2>1. TypeOK' /\ TryIsLeft' /\ KnownOnce'
    BY <1>2 DEF Typed, TypeOK, TryIsLeft, KnownOnce, enqueueFails, manageVars, historyVars
  <2>2. JobsOnce'
    BY <1>2 DEF Typed, TypeOK, JobsOnce, Made, enqueueFails
  <2> QED BY <2>1, <2>2 DEF Typed
<1>3. ASSUME NEW j \in Job, add(j) PROVE Typed'
  <2>1. job[j].at = "absent" /\ Made(j)
    BY <1>3 DEF Typed, JobsOnce, add
  <2>2. Attempts \in 1..Attempts
    BY WebhookAssumption
  <2> QED BY <1>3, <2>1, <2>2, QueuedTyped DEF add
<1>4. ASSUME NEW j \in Job, addFails(j) PROVE Typed'
  <2>1. TypeOK' /\ TryIsLeft' /\ KnownOnce'
    BY <1>4 DEF Typed, TypeOK, TryIsLeft, KnownOnce, addFails, manageVars, historyVars
  <2>2. JobsOnce'
    BY <1>4 DEF Typed, TypeOK, JobsOnce, Made, addFails
  <2> QED BY <2>1, <2>2 DEF Typed
<1> QED BY <1>1, <1>2, <1>3, <1>4 DEF Enqueue

LEMMA HappensTyped == ASSUME Typed, NEW k \in Kind, happens(k) PROVE Typed'
<1>1. raised' \subseteq Event
  BY DEF Typed, TypeOK, happens, Event
<1>2. TypeOK' /\ TryIsLeft' /\ KnownOnce'
  BY <1>1 DEF Typed, TypeOK, TryIsLeft, KnownOnce, happens, manageVars, historyVars
<1>3. \A v \in raised' : v \in raised \/ v.kind = k
  BY DEF happens
<1>4. JobsOnce'
  BY <1>3 DEF Typed, TypeOK, JobsOnce, Made, happens
<1> QED BY <1>2, <1>4 DEF Typed

LEMMA RetryTyped == ASSUME Typed, NEW j \in Job, retryDelivery(j) PROVE Typed'
<1> DEFINE again == [j EXCEPT !.retry = j.retry + 1]
<1>1. again \in Job /\ again.event = j.event /\ again.retry # 0
  BY NextRetry DEF retryDelivery
<1>2. job[again].at = "absent" /\ Queued(again, 1)
  BY DEF retryDelivery
<1> HIDE DEF again
<1>3. Made(j) /\ \A i \in fanOut : i.retry = 0
  BY DEF Typed, JobsOnce, retryDelivery
<1>4. Made(again) /\ again \notin fanOut
  BY <1>1, <1>3 DEF Made
<1>5. 1 \in 1..Attempts
  BY WebhookAssumption
<1> QED BY <1>1, <1>2, <1>4, <1>5, QueuedTyped DEF retryDelivery, queueVars

-----------------------------------------------------------------------------
(* The process dies; rows are pruned; endpoints are managed *)

LEMMA PruneTyped == ASSUME Typed, NEW j \in Job, pruneOldDeliveries(j) PROVE Typed'
<1>1. TypeOK' /\ TryIsLeft' /\ KnownOnce'
  BY DEF Typed, TypeOK, TryIsLeft, KnownOnce, pruneOldDeliveries, RowIs, queueVars, manageVars, historyVars
<1>2. JobsOnce'
  BY DEF Typed, TypeOK, JobsOnce, Made, pruneOldDeliveries, RowIs, queueVars
<1> QED BY <1>1, <1>2 DEF Typed

LEMMA StallTyped == ASSUME Typed, stall PROVE Typed'
<1>1. \A j \in Job :
        /\ job'[j] \in JobState
        /\ job[j].at \notin Running => job'[j] = job[j]
        /\ job[j].at \in Running => job'[j].at \in {"waiting", "failed"} /\ job'[j].left = job[j].left
  <2> TAKE j \in Job
  <2>1. job[j] \in JobState
    BY DEF Typed, TypeOK
  <2>2. CASE job[j].at \in Running
    <3> DEFINE at == IF job[j].stalled THEN "failed" ELSE "waiting"
    <3>1. job'[j] = [job[j] EXCEPT !.at = at, !.stalled = TRUE]
      BY <2>2 DEF stall
    <3>2. at \in {"waiting", "failed"}
      OBVIOUS
    <3> HIDE DEF at
    <3> QED BY <2>1, <2>2, <3>1, <3>2 DEF JobState
  <2>3. CASE job[j].at \notin Running
    BY <2>1, <2>3 DEF stall
  <2> QED BY <2>2, <2>3
<1>2. job' \in [Job -> JobState]
  BY <1>1 DEF stall
<1>3. \A j \in Job : known'[j] = IF job'[j].at \in Accepted THEN 1 ELSE 0
  <2> TAKE j \in Job
  <2>1. known'[j] = IF job[j].at = "answered" THEN known[j] - 1 ELSE known[j]
    BY DEF stall
  <2>2. known[j] = IF job[j].at \in Accepted THEN 1 ELSE 0
    BY DEF Typed, KnownOnce
  <2>3. CASE job[j].at = "answered"
    <3>1. known'[j] = 0
      BY <2>1, <2>2, <2>3 DEF Accepted
    <3>2. job'[j].at \in {"waiting", "failed"}
      BY <1>1, <2>3 DEF Running
    <3> QED BY <3>1, <3>2 DEF Accepted
  <2>4. CASE job[j].at # "answered"
    <3>1. job'[j].at \in Accepted <=> job[j].at \in Accepted
      BY <1>1, <2>4 DEF Accepted, Running
    <3> QED BY <2>1, <2>2, <2>4, <3>1
  <2> QED BY <2>3, <2>4
<1>4. known' \in [Job -> Nat]
  <2>1. \A j \in Job : (IF job[j].at = "answered" THEN known[j] - 1 ELSE known[j]) \in Nat
    <3> TAKE j \in Job
    <3>1. known'[j] = IF job[j].at = "answered" THEN known[j] - 1 ELSE known[j]
      BY DEF stall
    <3>2. known'[j] \in Nat
      BY <1>3
    <3> QED BY <3>1, <3>2
  <2> QED BY <2>1 DEF stall
<1>5. stalls' \in 0..MaxStalls /\ request' \in [Request -> RequestState]
  <2>1. stalls' \in 0..MaxStalls
    <3>1. stalls' = stalls + 1 /\ stalls < MaxStalls
      BY DEF stall
    <3>2. stalls \in 0..MaxStalls
      BY DEF Typed, TypeOK
    <3> QED BY <3>1, <3>2, WebhookAssumption
  <2>2. request' \in [Request -> RequestState]
    BY States DEF stall
  <2> QED BY <2>1, <2>2
<1>6. TypeOK'
  BY <1>2, <1>4, <1>5 DEF Typed, TypeOK, stall
<1>7. TryIsLeft'
  BY <1>1 DEF Typed, TryIsLeft, Running
<1>8. JobsOnce'
  BY <1>1 DEF Typed, TypeOK, JobsOnce, Made, stall, Running
<1> QED BY <1>3, <1>6, <1>7, <1>8 DEF Typed, KnownOnce

\* A request about an endpoint changes the endpoints and the rows of one of them.
LEMMA ManageKeepsJobs == ASSUME Typed, NEW r \in Request, Manage(r) PROVE UNCHANGED <<queueVars, job, stalls, known>>
  BY DEF Manage, createWebhook, updateWebhook, deleteWebhook, toggleWebhookEndpoint, saveNew,
         saveEntity, remove, updateIsActive, Begin, historyVars

LEMMA BeginTyped ==
  ASSUME Typed, NEW r \in Request, NEW op \in {"create", "update", "delete", "toggle"},
         NEW on \in {{}} \cup {{e} : e \in Endpoint}, NEW sets \in {"none", "active", "inactive"},
         Begin(r, op, on, sets)
  PROVE  TypeOK'
<1>1. [op |-> op, on |-> on, sets |-> sets] \in RequestState
  BY DEF RequestState
<1>2. request' \in [Request -> RequestState] /\ crossed' \in BOOLEAN
  BY <1>1 DEF Begin, Typed, TypeOK, Crosses
<1>3. begun' \in 0..MaxBegun
  BY WebhookAssumption DEF Begin, Typed, TypeOK
<1> QED BY <1>2, <1>3 DEF Begin, Typed, TypeOK, queueVars, historyVars

LEMMA WritesTyped ==
  ASSUME Typed, NEW r \in Request, NEW e \in Endpoint,
         NEW isActive \in {"none", "active", "inactive"}, Writes(r, e, isActive)
  PROVE  /\ endpoint' \in [Endpoint -> {"none", "active", "inactive"}]
         /\ request' \in [Request -> RequestState]
         /\ late' \in [Job -> Nat]
  BY States DEF Writes, Typed, TypeOK, SwitchedOn

LEMMA ManageTyped == ASSUME Typed, NEW r \in Request, Manage(r) PROVE Typed'
<1>1. CASE createWebhook(r)
  <2>1. TypeOK'
    BY <1>1, BeginTyped DEF createWebhook
  <2>2. row' = row
    BY <1>1 DEF createWebhook, Begin
  <2> QED BY <2>1, <2>2, ManageKeepsJobs DEF Typed, TryIsLeft, KnownOnce, JobsOnce, Made, queueVars
<1>2. CASE updateWebhook(r) \/ toggleWebhookEndpoint(r) \/ deleteWebhook(r)
  <2>1. \A e \in Existing : {e} \in {{}} \cup {{x} : x \in Endpoint}
    BY DEF Existing
  <2>2. TypeOK'
    BY <1>2, <2>1, BeginTyped DEF updateWebhook, toggleWebhookEndpoint, deleteWebhook
  <2>3. row' = row
    BY <1>2 DEF updateWebhook, toggleWebhookEndpoint, deleteWebhook, Begin
  <2> QED BY <2>2, <2>3, ManageKeepsJobs DEF Typed, TryIsLeft, KnownOnce, JobsOnce, Made, queueVars
<1>3. CASE saveNew(r) \/ saveEntity(r) \/ remove(r) \/ updateIsActive(r)
  <2>1. request[r].on \subseteq Endpoint /\ request[r].sets \in {"none", "active", "inactive"}
    BY DEF Typed, TypeOK, RequestState
  <2>2. PICK e \in Endpoint, isActive \in {"none", "active", "inactive"} : Writes(r, e, isActive)
    BY <1>3, <2>1 DEF saveNew, saveEntity, remove, updateIsActive
  <2>3. /\ endpoint' \in [Endpoint -> {"none", "active", "inactive"}]
        /\ request' \in [Request -> RequestState]
        /\ late' \in [Job -> Nat]
    BY <2>2, WritesTyped
  <2>4. used' \subseteq Endpoint /\ begun' = begun /\ crossed' = crossed
    BY <1>3 DEF Typed, TypeOK, saveNew, saveEntity, remove, updateIsActive
  <2>5. \A j \in Job : row'[j] \in {row[j], "none"}
    BY <1>3 DEF Typed, TypeOK, saveNew, saveEntity, remove, updateIsActive, Cascade
  <2>6. row' \in [Job -> {"none", "PENDING", "SUCCESS", "FAILED"}]
    BY <1>3 DEF Typed, TypeOK, saveNew, saveEntity, remove, updateIsActive, Cascade
  <2>7. TypeOK'
    BY <2>3, <2>4, <2>6, ManageKeepsJobs DEF Typed, TypeOK, queueVars
  <2> QED BY <2>5, <2>7, ManageKeepsJobs DEF Typed, TryIsLeft, KnownOnce, JobsOnce, Made, queueVars
<1> QED BY <1>1, <1>2, <1>3 DEF Manage

-----------------------------------------------------------------------------
LEMMA InitTyped == Init => Typed
<1> SUFFICES ASSUME Init PROVE Typed
  OBVIOUS
<1>1. used \subseteq Endpoint /\ 0 \in 0..MaxBegun /\ 0 \in 0..MaxStalls /\ 0 \in Nat
  BY WebhookAssumption DEF Init
<1>2. TypeOK
  BY <1>1, States DEF Init, TypeOK
<1>3. TryIsLeft /\ KnownOnce /\ JobsOnce
  BY States DEF Init, TryIsLeft, Running, KnownOnce, Accepted, JobsOnce
<1> QED BY <1>2, <1>3 DEF Typed

LEMMA StepTyped == Typed /\ [Next]_vars => Typed'
<1>1. ASSUME Typed, UNCHANGED vars PROVE Typed'
  BY <1>1 DEF Typed, TypeOK, TryIsLeft, KnownOnce, JobsOnce, Made, vars, manageVars, queueVars, historyVars
<1> QED
  BY <1>1, ManageTyped, HappensTyped, EnqueueTyped, WorkTyped, RetryTyped, PruneTyped, StallTyped DEF Next

\* Every variable keeps its type, and a job that is not done has a try left.
THEOREM Typing == Spec => []TypeOK
<1>1. Spec => []Typed
  BY InitTyped, StepTyped, PTL DEF Spec
<1>2. Typed => TypeOK
  BY DEF Typed
<1> QED BY <1>1, <1>2, PTL

\* An endpoint accepts one delivery of an event twice only when the process lost the
\* first acceptance.
THEOREM AcceptedOnce == Spec => []AcceptedAgainOnlyAfterLoss
<1>1. Spec => []Typed
  BY InitTyped, StepTyped, PTL DEF Spec
<1>2. Typed => AcceptedAgainOnlyAfterLoss
  BY DEF Typed, KnownOnce, AcceptedAgainOnlyAfterLoss
<1> QED BY <1>1, <1>2, PTL

-----------------------------------------------------------------------------
(* An endpoint that was switched off *)

\* A late request is the last one of its job: the endpoint is not active, and no try of the
\* job is past the read of the endpoint.
LateIsLast ==
  \A j \in Job : \/ late[j] = 0
                 \/ late[j] = 1 /\ endpoint[j.to] # "active" /\ job[j].at \notin {"loaded", "inserted"}

\* Steps that send nothing, and after which a try is not past the read of the endpoint
\* unless it was, or the endpoint is active.
LEMMA NothingSent ==
  ASSUME LateIsLast, UNCHANGED <<late, endpoint>>,
         \A j \in Job : job'[j].at \in {"loaded", "inserted"} =>
           job[j].at \in {"loaded", "inserted"} \/ endpoint[j.to] = "active"
  PROVE  LateIsLast'
  BY DEF LateIsLast

LEMMA LateManage == ASSUME Typed, LateIsLast, NEW r \in Request, Manage(r) PROVE LateIsLast'
<1>1. CASE createWebhook(r) \/ updateWebhook(r) \/ toggleWebhookEndpoint(r) \/ deleteWebhook(r)
  <2>1. UNCHANGED <<late, endpoint, job>>
    BY <1>1 DEF createWebhook, updateWebhook, toggleWebhookEndpoint, deleteWebhook, Begin, historyVars
  <2> QED BY <2>1 DEF LateIsLast
<1>2. CASE saveNew(r) \/ saveEntity(r) \/ remove(r) \/ updateIsActive(r)
  <2>1. request[r].on \subseteq Endpoint
    BY DEF Typed, TypeOK, RequestState
  <2>2. PICK e, isActive : e \in Endpoint /\ Writes(r, e, isActive)
    BY <1>2, <2>1 DEF saveNew, saveEntity, remove, updateIsActive
  <2>3. job' = job
    BY ManageKeepsJobs
  <2>4. \A i \in Endpoint \ {e} : endpoint'[i] = endpoint[i]
    BY <2>2 DEF Writes, Typed, TypeOK
  <2>5. \A j \in Job : j.to \in Endpoint
    BY DEF Job
  <2>6. CASE isActive = "active"
    <3>1. \A j \in Job : late'[j] = IF j.to = e THEN 0 ELSE late[j]
      BY <2>2, <2>6 DEF Writes, SwitchedOn
    <3> QED BY <2>2, <2>3, <2>4, <2>5, <3>1 DEF LateIsLast
  <2>7. CASE isActive # "active"
    <3>1. late' = late /\ endpoint'[e] # "active"
      BY <2>2, <2>7 DEF Writes, Typed, TypeOK
    <3> QED BY <2>2, <2>3, <2>4, <2>5, <3>1 DEF LateIsLast
  <2> QED BY <2>6, <2>7
<1> QED BY <1>1, <1>2 DEF Manage

\* One job gets another state.
LEMMA AtOf ==
  ASSUME Typed, NEW j \in Job, NEW at, job' = [job EXCEPT ![j].at = at]
  PROVE  job'[j].at = at /\ \A i \in Job \ {j} : job'[i] = job[i]
<1>1. job[j] \in JobState
  BY DEF Typed, TypeOK
<1>2. job'[j] = [job[j] EXCEPT !.at = at] /\ \A i \in Job \ {j} : job'[i] = job[i]
  BY DEF Typed, TypeOK
<1> QED BY <1>1, <1>2 DEF JobState

LEMMA LatePost == ASSUME Typed, LateIsLast, NEW j \in Job, post(j) PROVE LateIsLast'
<1>1. PICK at \in {"answered", "refused"} : job' = [job EXCEPT ![j].at = at]
  BY DEF post
<1>2. job'[j].at = at /\ \A i \in Job \ {j} : job'[i] = job[i]
  BY <1>1, AtOf
<1>3. late[j] = 0 /\ endpoint' = endpoint
  BY DEF post, LateIsLast, manageVars
<1>4. late' = [late EXCEPT ![j] = IF endpoint[j.to] = "active" THEN late[j] ELSE late[j] + 1]
  BY DEF post, Typed, TypeOK
<1>5. /\ late'[j] = IF endpoint[j.to] = "active" THEN 0 ELSE 1
      /\ \A i \in Job \ {j} : late'[i] = late[i]
  BY <1>3, <1>4 DEF Typed, TypeOK
<1> QED BY <1>1, <1>2, <1>3, <1>5 DEF LateIsLast

LEMMA LateWork == ASSUME Typed, LateIsLast, NEW j \in Job, Work(j) PROVE LateIsLast'
<1>1. CASE post(j)
  BY <1>1, LatePost
<1>2. CASE ~post(j)
  <2>1. UNCHANGED <<late, endpoint>>
    BY <1>2 DEF Work, load, loadFails, insert, insertFails, givesUp, saveSuccess, saveFails, saveFailed,
                manageVars, historyVars
  <2>2. CASE load(j)
    <3>1. job' = [job EXCEPT ![j].at = IF endpoint[j.to] = "active" THEN "loaded" ELSE "dropped"]
      BY <2>2 DEF load
    <3>2. /\ job'[j].at = IF endpoint[j.to] = "active" THEN "loaded" ELSE "dropped"
          /\ \A i \in Job \ {j} : job'[i] = job[i]
      BY ZenonT(60), <3>1, AtOf
    <3> QED BY <2>1, <3>2, NothingSent
  <2>3. ASSUME NEW at \in {"inserted", "dropped", "delivered"}, job' = [job EXCEPT ![j].at = at],
               at = "inserted" => job[j].at = "loaded"
        PROVE  LateIsLast'
    <3>1. job'[j].at = at /\ \A i \in Job \ {j} : job'[i] = job[i]
      BY <2>3, AtOf
    <3> QED BY <2>1, <2>3, <3>1, NothingSent
  <2>4. CASE insert(j) \/ givesUp(j) \/ saveSuccess(j)
    BY <2>3, <2>4 DEF insert, givesUp, saveSuccess
  <2>5. CASE loadFails(j) \/ insertFails(j) \/ saveFails(j) \/ saveFailed(j)
    <3>1. AttemptFails(j) /\ job[j].at \in {"waiting"} \cup Running
      BY <2>5 DEF loadFails, insertFails, saveFails, saveFailed, Running
    <3>2. PICK new \in JobState : /\ job' = [job EXCEPT ![j] = new]
                                  /\ new.at \in {"waiting", "failed"}
      BY <3>1, Failing
    <3>3. job'[j] = new /\ \A i \in Job \ {j} : job'[i] = job[i]
      BY <3>2, OneJob
    <3> QED BY <2>1, <3>2, <3>3, NothingSent
  <2> QED BY <1>2, <2>2, <2>4, <2>5 DEF Work
<1> QED BY <1>1, <1>2

LEMMA LateQueued ==
  ASSUME Typed, LateIsLast, NEW j \in Job, NEW left \in 1..Attempts, Queued(j, left),
         UNCHANGED <<late, endpoint>>
  PROVE  LateIsLast'
<1> DEFINE new == [NoJob EXCEPT !.at = "waiting", !.left = left]
<1>1. new \in JobState /\ new.at = "waiting" /\ job' = [job EXCEPT ![j] = new]
  BY States DEF Queued
<1> HIDE DEF new
<1>2. job'[j] = new /\ \A i \in Job \ {j} : job'[i] = job[i]
  BY <1>1, OneJob
<1> QED BY <1>1, <1>2, NothingSent

LEMMA LateStall == ASSUME Typed, LateIsLast, stall PROVE LateIsLast'
<1>1. \A j \in Job : job'[j].at \in {"loaded", "inserted"} => job[j].at \in {"loaded", "inserted"}
  <2> TAKE j \in Job
  <2>1. CASE job[j].at \in {"loaded", "inserted"}
    BY <2>1
  <2>2. CASE job[j].at \in {"answered", "refused"}
    <3> DEFINE at == IF job[j].stalled THEN "failed" ELSE "waiting"
    <3>1. job'[j] = [job[j] EXCEPT !.at = at, !.stalled = TRUE]
      BY <2>2 DEF stall, Running
    <3>2. at \notin {"loaded", "inserted"}
      OBVIOUS
    <3> HIDE DEF at
    <3>3. job[j] \in JobState
      BY DEF Typed, TypeOK
    <3> QED BY <3>1, <3>2, <3>3 DEF JobState
  <2>3. CASE job[j].at \notin Running
    BY <2>3 DEF stall
  <2> QED BY <2>1, <2>2, <2>3 DEF Running
<1> QED BY <1>1, NothingSent DEF stall

LEMMA LateStep == ASSUME Typed, LateIsLast, [Next]_vars PROVE LateIsLast'
<1>1. CASE \E r \in Request : Manage(r)
  BY <1>1, LateManage
<1>2. CASE \E k \in Kind : happens(k)
  BY <1>2, NothingSent DEF happens, manageVars, historyVars
<1>3. CASE Enqueue
  <2>1. UNCHANGED <<late, endpoint>>
    BY <1>3 DEF Enqueue, enqueueDeliveriesForEvent, enqueueFails, add, addFails, manageVars, historyVars
  <2>2. CASE job' = job
    BY <2>1, <2>2, NothingSent
  <2>3. ASSUME NEW j \in Job, add(j) PROVE LateIsLast'
    <3>1. Attempts \in 1..Attempts
      BY WebhookAssumption
    <3> QED BY <2>1, <2>3, <3>1, LateQueued DEF add
  <2> QED BY <1>3, <2>2, <2>3 DEF Enqueue, enqueueDeliveriesForEvent, enqueueFails, addFails
<1>4. CASE \E j \in Job : Work(j)
  BY <1>4, LateWork
<1>5. ASSUME NEW j \in Job, retryDelivery(j) PROVE LateIsLast'
  <2>1. [j EXCEPT !.retry = j.retry + 1] \in Job
    BY <1>5, NextRetry DEF retryDelivery
  <2>2. Queued([j EXCEPT !.retry = j.retry + 1], 1) /\ UNCHANGED <<late, endpoint>>
    BY <1>5 DEF retryDelivery, manageVars, historyVars
  <2>3. 1 \in 1..Attempts
    BY WebhookAssumption
  <2> QED BY <2>1, <2>2, <2>3, LateQueued
<1>6. CASE \E j \in Job : pruneOldDeliveries(j)
  BY <1>6, NothingSent DEF pruneOldDeliveries, manageVars, historyVars
<1>7. CASE stall
  BY <1>7, LateStall
<1>8. CASE UNCHANGED vars
  BY <1>8, NothingSent DEF vars, manageVars, historyVars
<1> QED BY <1>1, <1>2, <1>3, <1>4, <1>5, <1>6, <1>7, <1>8 DEF Next

\* An endpoint that is switched off or removed gets at most one more request of a job,
\* that of the try which had loaded it before.
THEOREM OneLateRequest == Spec => []SwitchedOffGoesQuiet
<1>1. Init => LateIsLast
  BY DEF Init, LateIsLast
<1>2. Spec => [](Typed /\ LateIsLast)
  BY <1>1, InitTyped, StepTyped, LateStep, PTL DEF Spec
<1>3. Typed /\ LateIsLast => SwitchedOffGoesQuiet
  BY DEF LateIsLast, SwitchedOffGoesQuiet
<1> QED BY <1>2, <1>3, PTL

-----------------------------------------------------------------------------
(* The limit of endpoints *)

\* Why the limit holds: a creation in hand has room for its endpoint, it is alone, and an
\* update in hand has an endpoint that is there and that nobody is removing.
Room == Cardinality(Existing) <= MAX_ENDPOINTS
CreationHasRoom == InHand("create") # {} => Cardinality(Existing) < MAX_ENDPOINTS
CreationIsAlone == \A r, s \in InHand("create") : r = s
UpdatesFind == \A r \in InHand("update") : \A e \in request[r].on : Exists(e)
UpdateAndRemovalApart ==
  \A r \in InHand("update"), s \in InHand("delete") : request[r].on # request[s].on

\* An update or a switch sets an endpoint active or inactive.
SetsActivity == \A r \in Request : request[r].op \in {"update", "toggle"} =>
                  request[r].sets \in {"active", "inactive"}

LimitKept == ~crossed => /\ Room /\ CreationHasRoom /\ CreationIsAlone
                         /\ UpdatesFind /\ UpdateAndRemovalApart

\* Sizes of the set of endpoints.
LEMMA Sizes ==
  ASSUME TypeOK
  PROVE  /\ Cardinality(Existing) \in Nat
         /\ Existing' \subseteq Existing => Cardinality(Existing') <= Cardinality(Existing)
         /\ \A e : Existing' \subseteq Existing \cup {e} =>
              Cardinality(Existing') <= Cardinality(Existing) + 1
<1>1. IsFiniteSet(Existing)
  BY WebhookAssumption, FS_Subset DEF Existing
<1>2. Cardinality(Existing) \in Nat
  BY <1>1, FS_CardinalityType
<1>3. Existing' \subseteq Existing => Cardinality(Existing') <= Cardinality(Existing)
  BY <1>1, FS_Subset
<1>4. ASSUME NEW e, Existing' \subseteq Existing \cup {e}
      PROVE  Cardinality(Existing') <= Cardinality(Existing) + 1
  <2>1. /\ IsFiniteSet(Existing \cup {e})
        /\ \/ Cardinality(Existing \cup {e}) = Cardinality(Existing)
           \/ Cardinality(Existing \cup {e}) = Cardinality(Existing) + 1
    BY <1>1, FS_AddElement
  <2>2. IsFiniteSet(Existing') /\ Cardinality(Existing') <= Cardinality(Existing \cup {e})
    BY <1>4, <2>1, FS_Subset
  <2>3. Cardinality(Existing') \in Nat
    BY <2>2, FS_CardinalityType
  <2> QED BY <1>2, <2>1, <2>2, <2>3
<1> QED BY <1>2, <1>3, <1>4

\* A request that has begun is in hand, beside the others.
LEMMA Begun ==
  ASSUME TypeOK, NEW r \in Request, NEW op, NEW on, NEW sets, Begin(r, op, on, sets)
  PROVE  /\ request'[r] = [op |-> op, on |-> on, sets |-> sets]
         /\ \A s \in Request \ {r} : request'[s] = request[s]
         /\ request[r].op = "none"
         /\ UNCHANGED endpoint
  BY DEF TypeOK, Begin

LEMMA LimitBegins ==
  ASSUME TypeOK, LimitKept, NEW r \in Request,
         createWebhook(r) \/ updateWebhook(r) \/ toggleWebhookEndpoint(r) \/ deleteWebhook(r)
  PROVE  LimitKept'
<1> SUFFICES ASSUME ~crossed'
             PROVE  /\ Room' /\ CreationHasRoom' /\ CreationIsAlone'
                    /\ UpdatesFind' /\ UpdateAndRemovalApart'
  BY DEF LimitKept
<1>1. CASE createWebhook(r)
  <2>1. Begin(r, "create", {}, "active") /\ Cardinality(Existing) < MAX_ENDPOINTS
    BY <1>1 DEF createWebhook, belowLimit
  <2>2. ~crossed /\ InHand("create") = {}
    BY <2>1 DEF Begin, Crosses, TypeOK
  <2>3. Existing' = Existing
    BY <2>1, Begun DEF Existing, Exists
  <2>4. Room /\ UpdatesFind /\ UpdateAndRemovalApart
    BY <2>2 DEF LimitKept
  <2>5. Room' /\ CreationHasRoom'
    BY <2>1, <2>3, <2>4 DEF Room, CreationHasRoom
  <2>6. \A s \in Request : request'[s].op # request[s].op => s = r
    BY <2>1, Begun
  <2>7. CreationIsAlone'
    BY <2>2, <2>6 DEF CreationIsAlone, InHand
  <2>8. UpdatesFind' /\ UpdateAndRemovalApart'
    <3>1. request'[r].op = "create" /\ \A s \in Request \ {r} : request'[s] = request[s]
      <4>1. /\ request'[r] = [op |-> "create", on |-> {}, sets |-> "active"]
            /\ \A s \in Request \ {r} : request'[s] = request[s]
        BY <2>1 DEF Begin, TypeOK
      <4> QED BY <4>1
    <3>2. endpoint' = endpoint
      BY <2>1 DEF Begin
    <3>3. InHand("update")' \subseteq InHand("update") \ {r} /\ InHand("delete")' \subseteq InHand("delete") \ {r}
      BY <3>1 DEF InHand
    <3> QED BY <2>4, <3>1, <3>2, <3>3 DEF UpdatesFind, UpdateAndRemovalApart, InHand, Exists
  <2> QED BY <2>5, <2>7, <2>8
<1>2. ASSUME NEW op \in {"update", "delete", "toggle"}, NEW e \in Existing, NEW sets,
             Begin(r, op, {e}, sets)
      PROVE  /\ Room' /\ CreationHasRoom' /\ CreationIsAlone'
             /\ UpdatesFind' /\ UpdateAndRemovalApart'
  <2>1. ~crossed /\ ~Crosses(op, {e})
    BY <1>2 DEF Begin
  <2>2. Room /\ CreationHasRoom /\ CreationIsAlone /\ UpdatesFind /\ UpdateAndRemovalApart
    BY <2>1 DEF LimitKept
  <2>3. /\ request'[r].op = op /\ request'[r].on = {e}
        /\ \A s \in Request \ {r} : request'[s] = request[s]
        /\ request[r].op = "none"
        /\ endpoint' = endpoint
    <3>1. /\ request'[r] = [op |-> op, on |-> {e}, sets |-> sets]
          /\ \A s \in Request \ {r} : request'[s] = request[s]
          /\ request[r].op = "none" /\ endpoint' = endpoint
      BY <1>2 DEF Begin, TypeOK
    <3> QED BY <3>1
  <2>4. Existing' = Existing
    BY <2>3 DEF Existing, Exists
  <2>5. InHand("create")' = InHand("create")
    BY <2>3 DEF InHand
  <2>6. Room' /\ CreationHasRoom' /\ CreationIsAlone'
    BY <2>2, <2>4, <2>5 DEF Room, CreationHasRoom, CreationIsAlone
  <2>7. UpdatesFind'
    BY <2>2, <2>3 DEF UpdatesFind, InHand, Existing, Exists
  <2>8. UpdateAndRemovalApart'
    <3>1. op = "update" => \A s \in InHand("delete") : request[s].on # {e}
      BY <2>1 DEF Crosses
    <3>2. op = "delete" => \A s \in InHand("update") : request[s].on # {e}
      BY <2>1 DEF Crosses
    <3> QED BY <2>2, <2>3, <3>1, <3>2 DEF UpdateAndRemovalApart, InHand
  <2> QED BY <2>6, <2>7, <2>8
<1> QED BY <1>1, <1>2 DEF updateWebhook, toggleWebhookEndpoint, deleteWebhook

\* What a request has written: its endpoint, and that it is over.
LEMMA Written ==
  ASSUME TypeOK, NEW r \in Request, NEW e \in Endpoint, NEW isActive, Writes(r, e, isActive)
  PROVE  /\ endpoint'[e] = isActive /\ \A i \in Endpoint \ {e} : endpoint'[i] = endpoint[i]
         /\ request'[r].op = "none" /\ \A s \in Request \ {r} : request'[s] = request[s]
<1>1. request'[r] = NoRequest /\ \A s \in Request \ {r} : request'[s] = request[s]
  BY DEF TypeOK, Writes
<1> QED BY <1>1, States DEF TypeOK, Writes

LEMMA LimitEnds ==
  ASSUME TypeOK, SetsActivity, LimitKept, NEW r \in Request,
         saveNew(r) \/ saveEntity(r) \/ remove(r) \/ updateIsActive(r)
  PROVE  LimitKept'
<1> SUFFICES ASSUME ~crossed'
             PROVE  /\ Room' /\ CreationHasRoom' /\ CreationIsAlone'
                    /\ UpdatesFind' /\ UpdateAndRemovalApart'
  BY DEF LimitKept
<1>1. ~crossed
  BY DEF saveNew, saveEntity, remove, updateIsActive
<1>2. Room /\ CreationHasRoom /\ CreationIsAlone /\ UpdatesFind /\ UpdateAndRemovalApart
  BY <1>1 DEF LimitKept
<1>3. \A s \in Request : request[s].on \in {{}} \cup {{e} : e \in Endpoint}
  BY DEF TypeOK, RequestState
<1>4. CASE saveNew(r)
  <2>1. PICK e \in Endpoint : Writes(r, e, "active")
    BY <1>4 DEF saveNew
  <2>2. /\ request'[r].op = "none" /\ \A s \in Request \ {r} : request'[s] = request[s]
        /\ endpoint'[e] = "active" /\ \A i \in Endpoint \ {e} : endpoint'[i] = endpoint[i]
    BY <2>1, Written
  <2>3. r \in InHand("create")
    BY <1>4 DEF saveNew, InHand
  <2>4. Cardinality(Existing) < MAX_ENDPOINTS
    BY <1>2, <2>3 DEF CreationHasRoom
  <2>5. Existing' \subseteq Existing \cup {e}
    BY <2>2 DEF Existing, Exists
  <2>6. Room'
    <3>1. Cardinality(Existing)' <= Cardinality(Existing) + 1 /\ Cardinality(Existing) \in Nat
      BY <2>5, Sizes
    <3>2. IsFiniteSet(Existing') 
      BY WebhookAssumption, FS_Subset DEF Existing
    <3>3. Cardinality(Existing') \in Nat
      BY <3>2, FS_CardinalityType
    <3> QED BY <2>4, <3>1, <3>3, WebhookAssumption DEF Room
  <2>7. InHand("create")' = {}
    BY <1>2, <2>2, <2>3 DEF CreationIsAlone, InHand
  <2>8. CreationHasRoom' /\ CreationIsAlone'
    BY <2>7 DEF CreationHasRoom, CreationIsAlone
  <2>9. UpdatesFind' /\ UpdateAndRemovalApart'
    BY <1>2, <1>3, <2>2 DEF UpdatesFind, UpdateAndRemovalApart, InHand, Exists
  <2> QED BY <2>6, <2>8, <2>9
<1>5. CASE saveEntity(r) \/ remove(r) \/ updateIsActive(r)
  <2>1. PICK e \in request[r].on : \E isActive : Writes(r, e, isActive)
    BY <1>5 DEF saveEntity, remove, updateIsActive
  <2>2. e \in Endpoint /\ request[r].on = {e}
    BY <1>3, <2>1
  <2>3. /\ request'[r].op = "none" /\ \A s \in Request \ {r} : request'[s] = request[s]
        /\ \A i \in Endpoint \ {e} : endpoint'[i] = endpoint[i]
    BY <2>1, <2>2, Written
  <2>4. Exists(e)' => Exists(e)
    <3>1. CASE saveEntity(r)
      BY <1>2, <2>1, <3>1 DEF UpdatesFind, InHand, saveEntity
    <3>2. CASE remove(r)
      <4>1. Writes(r, e, "none")
        BY <2>2, <3>2 DEF remove
      <4> QED BY <2>2, <4>1, Written DEF Exists
    <3>3. CASE updateIsActive(r)
      <4>1. Writes(r, e, IF Exists(e) THEN request[r].sets ELSE "none")
        BY <2>2, <3>3 DEF updateIsActive
      <4> QED BY <2>2, <4>1, Written DEF Exists
    <3> QED BY <1>5, <3>1, <3>2, <3>3
  <2>5. Existing' \subseteq Existing
    BY <2>3, <2>4 DEF Existing, Exists
  <2>6. Cardinality(Existing') <= Cardinality(Existing) /\ Cardinality(Existing) \in Nat
    BY <2>5, Sizes
  <2>7. Cardinality(Existing') \in Nat
    <3>1. IsFiniteSet(Existing')
      BY WebhookAssumption, FS_Subset DEF Existing
    <3> QED BY <3>1, FS_CardinalityType
  <2>8. InHand("create")' \subseteq InHand("create")
    BY <2>3 DEF InHand
  <2>9. Room' /\ CreationHasRoom' /\ CreationIsAlone'
    BY <1>2, <2>6, <2>7, <2>8, WebhookAssumption DEF Room, CreationHasRoom, CreationIsAlone
  <2>10. UpdatesFind'
    <3> SUFFICES ASSUME NEW u \in InHand("update")', NEW i \in request'[u].on PROVE Exists(i)'
      BY DEF UpdatesFind
    <3>1. u \in InHand("update") /\ u # r /\ request'[u] = request[u]
      BY <2>3 DEF InHand
    <3>2. Exists(i) /\ request[u].on = {i} /\ i \in Endpoint
      BY <1>2, <1>3, <3>1 DEF UpdatesFind, InHand
    <3>3. CASE i # e
      BY <2>3, <3>2, <3>3 DEF Exists
    <3>4. CASE i = e
      <4>1. ~remove(r)
        BY <1>2, <2>2, <3>1, <3>2, <3>4 DEF UpdateAndRemovalApart, InHand, remove
      <4>2. CASE saveEntity(r)
        <5>1. Writes(r, e, request[r].sets) /\ request[r].op = "update"
          BY <2>2, <4>2 DEF saveEntity
        <5>2. request[r].sets \in {"active", "inactive"}
          BY <4>2 DEF SetsActivity, saveEntity
        <5> QED BY <2>2, <3>4, <5>1, <5>2, Written DEF Exists
      <4>3. CASE updateIsActive(r)
        <5>1. Writes(r, e, request[r].sets)
          BY <2>2, <3>2, <3>4, <4>3 DEF updateIsActive
        <5>2. request[r].sets \in {"active", "inactive"}
          BY <4>3 DEF SetsActivity, updateIsActive
        <5> QED BY <2>2, <3>4, <5>1, <5>2, Written DEF Exists
      <4> QED BY <1>5, <4>1, <4>2, <4>3
    <3> QED BY <3>3, <3>4
  <2>11. UpdateAndRemovalApart'
    BY <1>2, <2>3 DEF UpdateAndRemovalApart, InHand
  <2> QED BY <2>9, <2>10, <2>11
<1> QED BY <1>4, <1>5

LEMMA SetsStep == ASSUME TypeOK, SetsActivity, [Next]_vars PROVE SetsActivity'
<1>1. ASSUME NEW r \in Request, Manage(r) PROVE SetsActivity'
  <2>1. CASE saveNew(r) \/ saveEntity(r) \/ remove(r) \/ updateIsActive(r)
    <3>1. \A s \in Request : request'[s] \in {request[s], NoRequest}
      BY <2>1 DEF saveNew, saveEntity, remove, updateIsActive, Writes, TypeOK
    <3> QED BY <3>1, States DEF SetsActivity
  <2>2. ASSUME NEW op, NEW on, NEW sets, Begin(r, op, on, sets),
               op \in {"update", "toggle"} => sets \in {"active", "inactive"}
        PROVE  SetsActivity'
    <3>1. /\ request'[r] = [op |-> op, on |-> on, sets |-> sets]
          /\ \A s \in Request \ {r} : request'[s] = request[s]
      BY <2>2, Begun
    <3> QED BY <2>2, <3>1 DEF SetsActivity
  <2>3. CASE createWebhook(r) \/ updateWebhook(r) \/ toggleWebhookEndpoint(r) \/ deleteWebhook(r)
    BY <2>2, <2>3 DEF createWebhook, updateWebhook, toggleWebhookEndpoint, deleteWebhook
  <2> QED BY <1>1, <2>1, <2>3 DEF Manage
<1>2. CASE request' = request
  BY <1>2 DEF SetsActivity
<1>3. CASE stall
  BY <1>3, States DEF stall, SetsActivity
<1> QED
  BY <1>1, <1>2, <1>3 DEF Next, happens, Enqueue, enqueueDeliveriesForEvent, enqueueFails, add, addFails, Work,
     load, loadFails, insert, insertFails, givesUp, post, saveSuccess, saveFails, saveFailed, retryDelivery,
     pruneOldDeliveries, manageVars, vars

LEMMA LimitStep == ASSUME TypeOK, SetsActivity, LimitKept, [Next]_vars PROVE LimitKept'
<1>1. CASE \E r \in Request : Manage(r)
  BY <1>1, LimitBegins, LimitEnds DEF Manage
<1>2. CASE UNCHANGED <<endpoint, request, crossed>>
  BY <1>2 DEF LimitKept, Room, CreationHasRoom, CreationIsAlone, UpdatesFind, UpdateAndRemovalApart,
              InHand, Existing, Exists
<1>3. CASE stall
  <2>1. \A op \in {"create", "update", "delete"} : InHand(op)' = {}
    BY <1>3, States DEF stall, InHand
  <2>2. UNCHANGED <<endpoint, crossed, Existing>>
    BY <1>3 DEF stall, Existing, Exists
  <2> QED
    BY <2>1, <2>2 DEF LimitKept, Room, CreationHasRoom, CreationIsAlone, UpdatesFind, UpdateAndRemovalApart
<1> QED
  BY <1>1, <1>2, <1>3 DEF Next, happens, Enqueue, enqueueDeliveriesForEvent, enqueueFails, add, addFails, Work,
     load, loadFails, insert, insertFails, givesUp, post, saveSuccess, saveFails, saveFailed, retryDelivery,
     pruneOldDeliveries, manageVars, vars

\* A company never has more endpoints than createWebhook allows, as long as no two
\* creations overlap and no endpoint is removed under an update that saves it back.
THEOREM LimitHolds == Spec => []EndpointLimit
<1>1. Init => LimitKept /\ SetsActivity
  <2> SUFFICES ASSUME Init PROVE LimitKept /\ SetsActivity
    OBVIOUS
  <2>1. Existing = used /\ Cardinality(used) <= MAX_ENDPOINTS
    BY DEF Init, Existing, Exists
  <2>2. \A op \in {"create", "update", "delete", "toggle"} : InHand(op) = {}
    BY States DEF Init, InHand
  <2>3. LimitKept
    BY <2>1, <2>2 DEF LimitKept, Room, CreationHasRoom, CreationIsAlone, UpdatesFind, UpdateAndRemovalApart
  <2>4. SetsActivity
    BY States DEF Init, SetsActivity
  <2> QED BY <2>3, <2>4
<1>2. Spec => [](LimitKept /\ SetsActivity)
  BY <1>1, Typing, SetsStep, LimitStep, PTL DEF Spec
<1>3. LimitKept => EndpointLimit
  BY DEF LimitKept, Room, EndpointLimit
<1> QED BY <1>2, <1>3, PTL

-----------------------------------------------------------------------------
(* What is left of a job *)

\* The steps a try may still take, the tries left of at most five steps each, and the death
\* of a worker that is forgiven once.
Phase(at) ==
  CASE at = "waiting" -> 4 [] at = "loaded" -> 3 [] at = "inserted" -> 2
    [] at \in {"answered", "refused"} -> 1 [] OTHER -> 0

Rank(t) ==
  IF t.at \in Ended THEN 0 ELSE 5 * t.left + Phase(t.at) + IF t.stalled THEN 0 ELSE 5

\* A try of a job ends the job, goes one step further, or ends and leaves one try less.
LEMMA TryCosts ==
  ASSUME Typed, NEW j \in Job, Work(j)
  PROVE  /\ job[j].at \in {"waiting"} \cup Running
         /\ \A i \in Job \ {j} : job'[i] = job[i]
         /\ job'[j] \in JobState /\ job'[j].stalled = job[j].stalled
         /\ \/ job'[j].at \in Ended
            \/ /\ job'[j].at \in Running /\ job'[j].left = job[j].left
               /\ Phase(job'[j].at) < Phase(job[j].at)
            \/ job'[j].at = "waiting" /\ job'[j].left = job[j].left - 1
<1>0. job \in [Job -> JobState] /\ job[j] \in JobState
  BY DEF Typed, TypeOK
<1>1. job[j].at \in {"waiting"} \cup Running
  BY DEF Work, load, loadFails, insert, insertFails, givesUp, post, saveSuccess, saveFails, saveFailed,
         Running
<1>2. ASSUME AttemptFails(j)
      PROVE  /\ \A i \in Job \ {j} : job'[i] = job[i]
             /\ job'[j] \in JobState /\ job'[j].stalled = job[j].stalled
             /\ \/ job'[j].at \in Ended
                \/ job'[j].at = "waiting" /\ job'[j].left = job[j].left - 1
  <2> DEFINE left == job[j].left - 1
             at == IF left = 0 THEN "failed" ELSE "waiting"
             new == [job[j] EXCEPT !.at = at, !.left = left]
  <2>1. job' = [job EXCEPT ![j] = new]
    BY <1>0, <1>2 DEF AttemptFails
  <2>2. new.at = at /\ new.left = left /\ new.stalled = job[j].stalled
    BY <1>0 DEF JobState
  <2>3. PICK some \in JobState : job' = [job EXCEPT ![j] = some]
    BY <1>1, <1>2, Failing
  <2>4. job'[j] \in JobState /\ \A i \in Job \ {j} : job'[i] = job[i]
    BY <1>0, <2>3
  <2>5. job'[j] = new
    BY <1>0, <2>1
  <2>6. new.at \in Ended \/ new.at = "waiting"
    BY <2>2 DEF Ended
  <2> HIDE DEF new
  <2> QED BY <2>2, <2>4, <2>5, <2>6
<1>3. ASSUME NEW at \in Running \cup Ended, job' = [job EXCEPT ![j].at = at],
             at \in Ended \/ Phase(at) < Phase(job[j].at)
      PROVE  /\ \A i \in Job \ {j} : job'[i] = job[i]
             /\ job'[j] \in JobState /\ job'[j].stalled = job[j].stalled
             /\ \/ job'[j].at \in Ended
                \/ /\ job'[j].at \in Running /\ job'[j].left = job[j].left
                   /\ Phase(job'[j].at) < Phase(job[j].at)
  <2>1. job'[j] = [job[j] EXCEPT !.at = at] /\ \A i \in Job \ {j} : job'[i] = job[i]
    BY <1>0, <1>3
  <2>2. job'[j].at = at /\ job'[j].left = job[j].left /\ job'[j].stalled = job[j].stalled
    BY <1>0, <2>1 DEF JobState
  <2>3. job'[j] \in JobState
    BY <1>0, <2>1 DEF JobState, Running, Ended
  <2> QED BY <1>3, <2>1, <2>2, <2>3
<1>4. CASE loadFails(j) \/ insertFails(j) \/ saveFails(j) \/ saveFailed(j)
  BY <1>1, <1>2, <1>4 DEF loadFails, insertFails, saveFails, saveFailed
<1>5. CASE load(j)
  <2>1. PICK at \in {"loaded", "dropped"} : job' = [job EXCEPT ![j].at = at]
    BY <1>5 DEF load
  <2>2. at \in Running \cup Ended /\ (at \in Ended \/ Phase(at) < Phase(job[j].at))
    BY <1>5, <2>1 DEF load, Running, Ended, Phase
  <2> QED BY <1>1, <1>3, <2>1, <2>2
<1>6. CASE insert(j)
  <2>1. "inserted" \in Running \cup Ended /\ Phase("inserted") < Phase(job[j].at)
    BY <1>6 DEF insert, Running, Phase
  <2> QED BY <1>1, <1>3, <1>6, <2>1 DEF insert
<1>7. CASE givesUp(j)
  BY <1>1, <1>3, <1>7 DEF givesUp, Ended
<1>8. CASE post(j)
  <2>1. PICK at \in {"answered", "refused"} : job' = [job EXCEPT ![j].at = at]
    BY <1>8 DEF post
  <2>2. at \in Running \cup Ended /\ Phase(at) < Phase(job[j].at)
    BY <1>8, <2>1 DEF post, Running, Phase
  <2> QED BY <1>1, <1>3, <2>1, <2>2
<1>9. CASE saveSuccess(j)
  BY <1>1, <1>3, <1>9 DEF saveSuccess, Ended
<1> QED BY <1>4, <1>5, <1>6, <1>7, <1>8, <1>9 DEF Work

\* The rank is a natural number, and that of a job that has not ended is not zero.
LEMMA Ranks ==
  ASSUME NEW t \in JobState
  PROVE  /\ Phase(t.at) \in 0..4 /\ t.left \in Nat /\ Rank(t) \in Nat
         /\ t.at \in {"waiting"} \cup Running => Phase(t.at) # 0
         /\ t.at \in Ended => Rank(t) = 0
         /\ t.at \notin Ended => Rank(t) = 5 * t.left + Phase(t.at) + IF t.stalled THEN 0 ELSE 5
<1>1. Phase(t.at) \in 0..4 /\ (t.at \in {"waiting"} \cup Running => Phase(t.at) # 0)
  BY DEF Phase, Running
<1>2. t.left \in Nat
  BY WebhookAssumption DEF JobState
<1> HIDE DEF Phase
<1> QED BY <1>1, <1>2 DEF Rank

\* A job of the queue stays in it until it has ended, ends once, and is tried no longer than
\* its attempts allow: whatever happens to it, a failure that is retried, a worker that dies,
\* a retry by hand of another delivery, uses up some of what is left of it (AttemptFails,
\* stall). What EveryJobEnds adds is that the workers go on.
THEOREM TriesRunOut ==
  Spec => [][\A j \in Job : job[j].at # "absent" =>
               \/ job'[j] = job[j]
               \/ job'[j].at # "absent" /\ Rank(job'[j]) < Rank(job[j])]_vars
<1> DEFINE Runs == \A j \in Job : job[j].at # "absent" =>
                     \/ job'[j] = job[j]
                     \/ job'[j].at # "absent" /\ Rank(job'[j]) < Rank(job[j])
<1>1. ASSUME Typed, NEW j \in Job, Work(j) PROVE Runs
  <2>1. job[j] \in JobState /\ job[j].left # 0
    BY <1>1, TryCosts DEF Typed, TypeOK, TryIsLeft
  <2>2. Rank(job'[j]) < Rank(job[j])
    <3> DEFINE t == job[j]
               new == job'[j]
    <3>1. /\ t \in JobState /\ new \in JobState /\ new.stalled = t.stalled
          /\ t.at \in {"waiting"} \cup Running /\ t.at \notin Ended
      BY <1>1, <2>1, TryCosts DEF Running, Ended
    <3>2. /\ Rank(t) = 5 * t.left + Phase(t.at) + IF t.stalled THEN 0 ELSE 5
          /\ Phase(t.at) \in 1..4 /\ t.left \in Nat /\ t.left # 0
      BY <2>1, <3>1, Ranks
    <3>3. CASE new.at \in Ended
      BY <3>1, <3>2, <3>3, Ranks
    <3>4. CASE new.at \in Running /\ new.left = t.left /\ Phase(new.at) < Phase(t.at)
      <4>1. Rank(new) = 5 * t.left + Phase(new.at) + IF t.stalled THEN 0 ELSE 5
        BY <3>1, <3>4, Ranks DEF Running, Ended
      <4>2. Phase(new.at) \in Nat
        BY <3>1, Ranks
      <4> QED BY <3>2, <3>4, <4>1, <4>2
    <3>5. CASE new.at = "waiting" /\ new.left = t.left - 1
      <4>1. Phase(new.at) = 4
        BY <3>5 DEF Phase
      <4>2. Rank(new) = 5 * (t.left - 1) + 4 + IF t.stalled THEN 0 ELSE 5
        BY <3>1, <3>5, <4>1, Ranks DEF Ended
      <4> QED BY <3>2, <4>2
    <3> QED BY <1>1, <3>3, <3>4, <3>5, TryCosts
  <2>3. job'[j].at # "absent" /\ \A i \in Job \ {j} : job'[i] = job[i]
    BY <1>1, TryCosts DEF Running, Ended
  <2> QED BY <2>2, <2>3
<1>2. ASSUME Typed, NEW j \in Job, NEW left, Queued(j, left), job[j].at = "absent" PROVE Runs
  BY <1>2 DEF Queued, Typed, TypeOK
<1>3. ASSUME Typed, stall PROVE Runs
  <2> SUFFICES ASSUME NEW j \in Job, job[j].at \in Running
               PROVE  job'[j].at # "absent" /\ Rank(job'[j]) < Rank(job[j])
    BY <1>3 DEF stall
  <2> DEFINE t == job[j]
             at == IF t.stalled THEN "failed" ELSE "waiting"
             new == [t EXCEPT !.at = at, !.stalled = TRUE]
  <2>1. t \in JobState /\ t.left # 0 /\ t.at \notin Ended
    BY <1>3 DEF Typed, TypeOK, TryIsLeft, Running, Ended
  <2>2. job'[j] = new
    BY <1>3 DEF stall
  <2>3. new.at = at /\ new.left = t.left /\ new.stalled = TRUE
    BY <2>1 DEF JobState
  <2>4. new \in JobState
    BY <2>1, <2>3 DEF JobState
  <2> HIDE DEF new
  <2>5. /\ Rank(t) = 5 * t.left + Phase(t.at) + IF t.stalled THEN 0 ELSE 5
        /\ Phase(t.at) \in 1..4 /\ t.left \in Nat
    BY <2>1, Ranks
  <2>6. CASE t.stalled
    <3>1. Rank(new) = 0
      BY <2>3, <2>4, <2>6, Ranks DEF Ended
    <3> QED BY <2>1, <2>2, <2>3, <2>5, <2>6, <3>1
  <2>7. CASE ~t.stalled
    <3>1. new.at = "waiting" /\ Phase(new.at) = 4
      BY <2>3, <2>7 DEF Phase
    <3>2. Rank(new) = 5 * t.left + 4
      BY <2>3, <2>4, <3>1, Ranks DEF Ended
    <3> QED BY <2>2, <2>5, <2>7, <3>1, <3>2
  <2> QED BY <2>6, <2>7
<1>4. ASSUME Typed, [Next]_vars PROVE Runs
  <2>1. CASE \E r \in Request : Manage(r)
    BY <1>4, <2>1, ManageKeepsJobs
  <2>2. CASE \E k \in Kind : happens(k)
    BY <2>2 DEF happens
  <2>3. CASE Enqueue
    <3>1. ASSUME NEW j \in Job, add(j) PROVE Runs
      BY <1>2, <1>4, <3>1 DEF add, Typed, JobsOnce
    <3> QED BY <2>3, <3>1 DEF Enqueue, enqueueDeliveriesForEvent, enqueueFails, addFails
  <2>4. ASSUME NEW j \in Job, Work(j) PROVE Runs
    BY <1>1, <1>4, <2>4
  <2>5. ASSUME NEW j \in Job, retryDelivery(j) PROVE Runs
    <3>1. [j EXCEPT !.retry = j.retry + 1] \in Job
      BY <2>5, NextRetry DEF retryDelivery
    <3> QED BY <1>2, <1>4, <2>5, <3>1 DEF retryDelivery
  <2>6. ASSUME NEW j \in Job, pruneOldDeliveries(j) PROVE Runs
    BY <2>6 DEF pruneOldDeliveries
  <2>7. CASE stall
    BY <1>3, <1>4, <2>7
  <2>8. CASE UNCHANGED vars
    BY <2>8 DEF vars
  <2> QED BY <1>4, <2>1, <2>2, <2>3, <2>4, <2>5, <2>6, <2>7, <2>8 DEF Next
<1> HIDE DEF Runs
<1>5. Spec => []Typed
  BY InitTyped, StepTyped, PTL DEF Spec
<1>6. Spec => [][Runs]_vars
  BY <1>4, <1>5, PTL DEF Spec
<1> QED BY <1>6 DEF Runs
=============================================================================
