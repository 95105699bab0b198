------------------------------ MODULE Webhooks ------------------------------
(***************************************************************************)
(* Outgoing webhooks of one company: the endpoints its managers and the    *)
(* administrators of the platform keep, the jobs that an event of the      *)
(* application puts into the delivery queue, and the tries of a job, each  *)
(* of which reads the endpoint, inserts a row, sends the request and saves *)
(* the answer. Endpoints change, the database fails and the process dies   *)
(* between any two of these steps.                                         *)
(*                                                                         *)
(* A kind of happening is announced at most once in a behaviour, and an    *)
(* endpoint keeps the events it subscribed to. Of the rows, one for each   *)
(* try, the last one of each job is kept; the number of the attempt, the   *)
(* payload and the signature are left out.                                 *)
(***************************************************************************)
EXTENDS Naturals, FiniteSets

CONSTANTS
  Endpoint,       \* ids that webhook_endpoints may draw
  Kind,           \* what happens to the company's orders, stops and team
  Subscribed,     \* the event types each endpoint asks for
  MAX_ENDPOINTS,  \* endpoints a company may have (5)
  Attempts,       \* tries of a job (5)
  Request,        \* requests about endpoints in hand at a time
  MaxBegun,       \* bounds of the model: requests ever begun,
  MaxRetries,     \* retries of one event asked for by hand,
  MaxStalls       \* and times a process dies

ASSUME WebhookAssumption ==
  /\ IsFiniteSet(Endpoint)
  /\ MAX_ENDPOINTS \in Nat \ {0}
  /\ Attempts \in Nat \ {0}
  /\ MaxBegun \in Nat
  /\ MaxRetries \in Nat
  /\ MaxStalls \in Nat

VARIABLES
  endpoint,   \* the row of each endpoint: "none", or whether it is active
  used,       \* ids of endpoints ever drawn
  request,    \* the request each one in hand is, and what it has read
  begun,      \* requests ever begun
  happened,   \* kinds that have happened
  raised,     \* events whose endpoints are still to be read
  fanOut,     \* jobs still to be added to the queue
  job,        \* the queue
  row,        \* the row of webhook_deliveries of each job's last try
  stalls,     \* times the process has died
  crossed,    \* history: two creations, or a change and a removal of one endpoint, overlapped
  known,      \* history: tries of a job whose acceptance the process knows of, that it
              \* has neither failed to save nor died with,
  late        \* and requests sent since the endpoint was last switched off or removed

manageVars == <<endpoint, used, request, begun, crossed>>
queueVars == <<happened, raised, fanOut>>
historyVars == <<known, late>>
vars == <<manageVars, queueVars, job, row, stalls, historyVars>>

\* The events that WebhooksDispatcherService makes of what happens.
EventsOf(k) ==
  CASE k = "orderCreated"  -> {"order.created"}
    [] k = "statusChanged" -> {"order.status_changed"}
    [] k = "delivered"     -> {"order.status_changed", "order.delivered"}
    [] k = "failed"        -> {"order.status_changed", "order.failed"}
    [] k = "arrived"       -> {"stop.arrived"}
    [] k = "completed"     -> {"stop.completed"}
    [] k = "skipped"       -> {"stop.skipped"}
    [] k = "accepted"      -> {"team.member_accepted"}

Event == UNION {{[kind |-> k, type |-> t] : t \in EventsOf(k)} : k \in Kind}

\* One delivery of an event to an endpoint; a retry by hand is a job of its own.
Job == [to : Endpoint, event : Event, retry : 0..MaxRetries]

NoRequest == [op |-> "none", on |-> {}, sets |-> "none"]
RequestState == [op : {"none", "create", "update", "delete", "toggle"},
                 on : {{}} \cup {{e} : e \in Endpoint},
                 sets : {"none", "active", "inactive"}]

NoJob == [at |-> "absent", left |-> 0, stalled |-> FALSE]
JobState == [at : {"absent", "waiting", "loaded", "inserted", "answered", "refused", "delivered",
                   "dropped", "failed"},
             left : 0..Attempts, stalled : BOOLEAN]

\* A try is in a worker's hands.
Running == {"loaded", "inserted", "answered", "refused"}
Ended == {"delivered", "dropped", "failed"}

TypeOK ==
  /\ endpoint \in [Endpoint -> {"none", "active", "inactive"}]
  /\ used \subseteq Endpoint
  /\ request \in [Request -> RequestState]
  /\ begun \in 0..MaxBegun
  /\ happened \subseteq Kind
  /\ raised \subseteq Event
  /\ fanOut \subseteq Job
  /\ job \in [Job -> JobState]
  /\ row \in [Job -> {"none", "PENDING", "SUCCESS", "FAILED"}]
  /\ stalls \in 0..MaxStalls
  /\ crossed \in BOOLEAN
  /\ known \in [Job -> Nat]
  /\ late \in [Job -> Nat]

\* The company has some endpoints already.
Init ==
  /\ used \in {some \in SUBSET Endpoint : Cardinality(some) <= MAX_ENDPOINTS}
  /\ endpoint = [e \in Endpoint |-> IF e \in used THEN "active" ELSE "none"]
  /\ request = [r \in Request |-> NoRequest]
  /\ begun = 0
  /\ happened = {}
  /\ raised = {}
  /\ fanOut = {}
  /\ job = [j \in Job |-> NoJob]
  /\ row = [j \in Job |-> "none"]
  /\ stalls = 0
  /\ crossed = FALSE
  /\ known = [j \in Job |-> 0]
  /\ late = [j \in Job |-> 0]

Exists(e) == endpoint[e] # "none"
Existing == {e \in Endpoint : Exists(e)}
InHand(op) == {r \in Request : request[r].op = op}

-----------------------------------------------------------------------------
(* Endpoints. A request whose statement fails writes nothing, as one that never goes on. *)

\* Two requests that must not overlap if the limit is to hold.
Crosses(op, on) ==
  \/ op = "create" /\ InHand("create") # {}
  \/ \E other \in {<<"update", "delete">>, <<"delete", "update">>} :
       op = other[1] /\ \E r \in InHand(other[2]) : request[r].on = on

Begin(r, op, on, sets) ==
  /\ request[r].op = "none"
  /\ begun < MaxBegun
  /\ begun' = begun + 1
  /\ request' = [request EXCEPT ![r] = [op |-> op, on |-> on, sets |-> sets]]
  /\ crossed' = (crossed \/ Crosses(op, on))
  /\ UNCHANGED <<endpoint, used, queueVars, job, row, stalls, historyVars>>

\* A limit that is off by one.
atMostLimit == Cardinality(Existing) <= MAX_ENDPOINTS

belowLimit == Cardinality(Existing) < MAX_ENDPOINTS

\* createWebhook: the URL is good, its host resolves, and the endpoints are counted.
createWebhook(r) == belowLimit /\ Begin(r, "create", {}, "active")

\* updateWebhook: the endpoint is found; what is saved later is the row as it was
\* read with the request's fields over it.
updateWebhook(r) ==
  \E e \in Existing, isActive \in {"active", "inactive"} : Begin(r, "update", {e}, isActive)

deleteWebhook(r) == \E e \in Existing : Begin(r, "delete", {e}, "none")

\* toggleWebhookEndpoint of the administrators: the value asked for, or the other
\* one than was read.
toggleWebhookEndpoint(r) ==
  \E e \in Existing, isActive \in {"active", "inactive"} : Begin(r, "toggle", {e}, isActive)

\* An endpoint that is switched on or back starts a new account of late requests.
SwitchedOn(e) == [j \in Job |-> IF j.to = e THEN 0 ELSE late[j]]

Writes(r, e, isActive) ==
  /\ endpoint' = [endpoint EXCEPT ![e] = isActive]
  /\ request' = [request EXCEPT ![r] = NoRequest]
  /\ late' = IF isActive = "active" THEN SwitchedOn(e) ELSE late

\* Deletion of the row takes the endpoint's deliveries with it.
Cascade(e) == [j \in Job |-> IF j.to = e THEN "none" ELSE row[j]]

saveNew(r) ==
  /\ request[r].op = "create"
  /\ \E e \in Endpoint \ used : /\ Writes(r, e, "active")
                                /\ used' = used \cup {e}
  /\ UNCHANGED <<begun, queueVars, job, row, stalls, crossed, known>>

\* The entity is saved: the row is written whether it is still there or not.
saveEntity(r) ==
  /\ request[r].op = "update"
  /\ \E e \in request[r].on : Writes(r, e, request[r].sets)
  /\ UNCHANGED <<used, begun, queueVars, job, row, stalls, crossed, known>>

remove(r) ==
  /\ request[r].op = "delete"
  /\ \E e \in request[r].on : Writes(r, e, "none") /\ row' = Cascade(e)
  /\ UNCHANGED <<used, begun, queueVars, job, stalls, crossed, known>>

\* The administrators' update by id: nothing when the row is gone.
updateIsActive(r) ==
  /\ request[r].op = "toggle"
  /\ \E e \in request[r].on : Writes(r, e, IF Exists(e) THEN request[r].sets ELSE "none")
  /\ UNCHANGED <<used, begun, queueVars, job, row, stalls, crossed, known>>

-----------------------------------------------------------------------------
(* From an event to its jobs *)

happens(k) ==
  /\ k \notin happened
  /\ happened' = happened \cup {k}
  /\ raised' = raised \cup {[kind |-> k, type |-> t] : t \in EventsOf(k)}
  /\ UNCHANGED <<fanOut, manageVars, job, row, stalls, historyVars>>

matching(v) == {e \in Endpoint : endpoint[e] = "active" /\ v.type \in Subscribed[e]}

enqueueDeliveriesForEvent(v) ==
  /\ v \in raised
  /\ raised' = raised \ {v}
  /\ fanOut' = fanOut \cup {[to |-> e, event |-> v, retry |-> 0] : e \in matching(v)}
  /\ UNCHANGED <<happened, manageVars, job, row, stalls, historyVars>>

\* The read of the endpoints fails: the error is thrown where nobody waits for it.
enqueueFails(v) ==
  /\ v \in raised
  /\ raised' = raised \ {v}
  /\ UNCHANGED <<happened, fanOut, manageVars, job, row, stalls, historyVars>>

Queued(j, attempts) == job' = [job EXCEPT ![j] = [NoJob EXCEPT !.at = "waiting", !.left = attempts]]

add(j) ==
  /\ j \in fanOut
  /\ fanOut' = fanOut \ {j}
  /\ Queued(j, Attempts)
  /\ UNCHANGED <<happened, raised, manageVars, row, stalls, historyVars>>

\* Redis refuses one of the jobs; the others are added all the same.
addFails(j) ==
  /\ j \in fanOut
  /\ fanOut' = fanOut \ {j}
  /\ UNCHANGED <<happened, raised, manageVars, job, row, stalls, historyVars>>

\* A manager asks for one of the rows of a job to be sent again, with one attempt.
retryDelivery(j) ==
  /\ Exists(j.to)
  /\ row[j] # "none"
  /\ j.retry < MaxRetries
  /\ LET again == [j EXCEPT !.retry = j.retry + 1]
     IN job[again].at = "absent" /\ Queued(again, 1)
  /\ UNCHANGED <<queueVars, manageVars, row, stalls, historyVars>>

-----------------------------------------------------------------------------
(* The tries of a job *)

\* A queue that retries for ever.
AttemptIsFree(j) == job' = [job EXCEPT ![j].at = "waiting"]

\* A try that ends with an error is followed by another one while attempts are left.
AttemptFails(j) ==
  LET left == job[j].left - 1
  IN job' = [job EXCEPT ![j].at = IF left = 0 THEN "failed" ELSE "waiting", ![j].left = left]

RowIs(j, status) == row' = [row EXCEPT ![j] = status]

\* A row can be written again, or inserted again, while its endpoint is there.
canSave(j) == Exists(j.to)

\* A save whose error is caught and dropped.
RowMayBe(j, status) == (canSave(j) /\ RowIs(j, status)) \/ UNCHANGED row

\* A worker that only asks whether the endpoint is still there.
loadAnyway(j) ==
  /\ job[j].at = "waiting"
  /\ job' = [job EXCEPT ![j].at = IF Exists(j.to) THEN "loaded" ELSE "dropped"]
  /\ UNCHANGED <<row, queueVars, manageVars, stalls, historyVars>>

\* 1. Load the endpoint: a job whose endpoint is gone or inactive ends without a trace.
load(j) ==
  /\ job[j].at = "waiting"
  /\ job' = [job EXCEPT ![j].at = IF endpoint[j.to] = "active" THEN "loaded" ELSE "dropped"]
  /\ UNCHANGED <<row, queueVars, manageVars, stalls, historyVars>>

loadFails(j) ==
  /\ job[j].at = "waiting"
  /\ AttemptFails(j)
  /\ UNCHANGED <<row, queueVars, manageVars, stalls, historyVars>>

\* 2. Insert the row of this try.
insert(j) ==
  /\ job[j].at = "loaded"
  /\ canSave(j)
  /\ job' = [job EXCEPT ![j].at = "inserted"]
  /\ RowIs(j, "PENDING")
  /\ UNCHANGED <<queueVars, manageVars, stalls, historyVars>>

insertFails(j) ==
  /\ job[j].at = "loaded"
  /\ AttemptFails(j)
  /\ UNCHANGED <<row, queueVars, manageVars, stalls, historyVars>>

\* 3, 4. The secret cannot be decrypted, or the host has a private address or none
\* that can be found: no other try.
givesUp(j) ==
  /\ job[j].at = "inserted"
  /\ job' = [job EXCEPT ![j].at = "dropped"]
  /\ RowMayBe(j, "FAILED")
  /\ UNCHANGED <<queueVars, manageVars, stalls, historyVars>>

\* 5. Send the request. An endpoint may have accepted what ends with an error here.
post(j) ==
  /\ job[j].at = "inserted"
  /\ late' = [late EXCEPT ![j] = IF endpoint[j.to] = "active" THEN @ ELSE @ + 1]
  /\ \E taken \in BOOLEAN, answered \in BOOLEAN :
       /\ job' = [job EXCEPT ![j].at = IF taken /\ answered THEN "answered" ELSE "refused"]
       /\ known' = [known EXCEPT ![j] = IF taken /\ answered THEN @ + 1 ELSE @]
  /\ UNCHANGED <<row, queueVars, manageVars, stalls>>

\* A worker that lets BullMQ retry a delivery whose success it has saved.
saveSuccessThenRetry(j) ==
  /\ job[j].at = "answered"
  /\ canSave(j)
  /\ RowIs(j, "SUCCESS")
  /\ AttemptFails(j)
  /\ UNCHANGED <<queueVars, manageVars, stalls, historyVars>>

\* The answer is saved and the job is done.
saveSuccess(j) ==
  /\ job[j].at = "answered"
  /\ canSave(j)
  /\ RowIs(j, "SUCCESS")
  /\ job' = [job EXCEPT ![j].at = "delivered"]
  /\ UNCHANGED <<queueVars, manageVars, stalls, historyVars>>

\* The success cannot be saved: the same catch as for an endpoint that refuses.
saveFails(j) ==
  /\ job[j].at = "answered"
  /\ RowMayBe(j, "FAILED")
  /\ AttemptFails(j)
  /\ known' = [known EXCEPT ![j] = @ - 1]
  /\ UNCHANGED <<queueVars, manageVars, stalls, late>>

saveFailed(j) ==
  /\ job[j].at = "refused"
  /\ RowMayBe(j, "FAILED")
  /\ AttemptFails(j)
  /\ UNCHANGED <<queueVars, manageVars, stalls, historyVars>>

\* The process dies: requests and events in memory are lost, and the queue gives the
\* jobs of its workers to others; a job that this happens to twice has failed.
stall ==
  /\ stalls < MaxStalls
  /\ stalls' = stalls + 1
  /\ request' = [r \in Request |-> NoRequest]
  /\ raised' = {}
  /\ fanOut' = {}
  /\ job' = [j \in Job |-> IF job[j].at \in Running
                           THEN [job[j] EXCEPT !.at = IF job[j].stalled THEN "failed" ELSE "waiting",
                                               !.stalled = TRUE]
                           ELSE job[j]]
  /\ known' = [j \in Job |-> IF job[j].at = "answered" THEN known[j] - 1 ELSE known[j]]
  /\ UNCHANGED <<endpoint, used, begun, crossed, happened, row, late>>

\* pruneOldDeliveries: rows older than 30 days, whose jobs have long ended.
pruneOldDeliveries(j) ==
  /\ job[j].at \in Ended
  /\ RowIs(j, "none")
  /\ UNCHANGED <<job, queueVars, manageVars, stalls, historyVars>>

-----------------------------------------------------------------------------
Manage(r) ==
  \/ createWebhook(r) \/ updateWebhook(r) \/ deleteWebhook(r) \/ toggleWebhookEndpoint(r)
  \/ saveNew(r) \/ saveEntity(r) \/ remove(r) \/ updateIsActive(r)

Enqueue ==
  \/ \E v \in Event : enqueueDeliveriesForEvent(v) \/ enqueueFails(v)
  \/ \E j \in Job : add(j) \/ addFails(j)

Work(j) ==
  \/ load(j) \/ loadFails(j) \/ insert(j) \/ insertFails(j) \/ givesUp(j)
  \/ post(j) \/ saveSuccess(j) \/ saveFails(j) \/ saveFailed(j)

Next ==
  \/ \E r \in Request : Manage(r)
  \/ \E k \in Kind : happens(k)
  \/ Enqueue
  \/ \E j \in Job : Work(j) \/ retryDelivery(j) \/ pruneOldDeliveries(j)
  \/ stall

\* The workers keep taking steps for a job in the queue, and the process for an event
\* it has raised.
Fairness == WF_vars(Enqueue) /\ \A j \in Job : WF_vars(Work(j))

Spec == Init /\ [][Next]_vars /\ Fairness
-----------------------------------------------------------------------------
(* Properties *)

\* A company never has more endpoints than createWebhook allows, as long as no two
\* creations overlap and no endpoint is removed under an update that saves it back.
EndpointLimit == ~crossed => Cardinality(Existing) <= MAX_ENDPOINTS

\* An endpoint accepts one delivery of an event twice only when the process lost the
\* first acceptance: the answer never came, it could not be saved, or the worker died.
AcceptedAgainOnlyAfterLoss == \A j \in Job : known[j] <= 1

\* An endpoint that is switched off or removed gets at most one more request of a job,
\* that of the try which had loaded it before.
SwitchedOffGoesQuiet == \A j \in Job : late[j] <= 1

\* Every job in the queue ends: delivered, dropped, or failed with its attempts used up.
EveryJobEnds == \A j \in Job : job[j].at = "waiting" ~> job[j].at \in Ended
=============================================================================
