-------------------------- MODULE OrderTransactions --------------------------
(***************************************************************************)
(* The requests of Dispatch as the transactions they are, interleaved. A   *)
(* transaction is READ COMMITTED: it reads committed rows and its own, and *)
(* a row it has written is locked until it ends. The services read an      *)
(* entity, check it, change it and save it whole: save selects the row     *)
(* again and writes every column in which the entity differs from it, the  *)
(* stale ones included, and inserts a row it does not find.                *)
(*                                                                         *)
(* Order events are followed in Dispatch only.                             *)
(***************************************************************************)
EXTENDS OrderStatus, FiniteSets, Sequences

CONSTANTS
  Order, Trip, Driver, NoDriver, OrderLimit,   \* as in Dispatch
  Request,   \* the requests that can be in progress at a time
  Kind,      \* the operations that are requested
  Waiting,   \* the orders that are there, and pending, when a behaviour begins
  MaxRepeated  \* bound of the model: orders arrived at again, after which no request begins

ASSUME KindAssumption ==
  Kind \subseteq {"create", "patch", "edit", "delete", "dispatch", "arrive", "complete", "skip"}
ASSUME RepeatedAssumption == MaxRepeated \in Nat
ASSUME OrderLimitAssumption == OrderLimit \in Nat
ASSUME DriverAssumption == NoDriver \notin Driver
ASSUME WaitingAssumption ==
  Waiting \subseteq Order /\ IsFiniteSet(Waiting) /\ Cardinality(Waiting) <= OrderLimit

VARIABLES
  order,             \* committed rows of orders: status, scheduled, driver
  tripDriver, startedAt, stop, ordersThisPeriod,   \* committed, as in Dispatch
  request,           \* what each request in progress has read and written
  repeated           \* history: orders whose arriveAtStop began while another was in progress

vars == <<order, tripDriver, startedAt, stop, ordersThisPeriod, request, repeated>>

NoRow == [status |-> Absent, scheduled |-> FALSE, driver |-> NoDriver]
Row == [status : OrderStatus \cup {Absent}, scheduled : BOOLEAN, driver : Driver \cup {NoDriver}]

Idle == [pc |-> "idle"]

\* A request that has begun: the orders it has yet to deal with, the first of
\* which it is at; the statuses it has yet to save there; the entity in hand,
\* the row or the stop status as last selected; the rows it has written.
Begin(kind, pc, t, orders, hops, arg) ==
  [kind |-> kind, pc |-> pc, trip |-> t, orders |-> orders, hops |-> hops, arg |-> arg,
   entity |-> NoRow, selected |-> NoRow, stopSelected |-> Absent,
   own |-> <<>>, placed |-> {}]

Active(w) == request[w].pc # "idle"
At(w, pc) == request[w].pc = pc
here(w) == Head(request[w].orders)

\* The row of order o as request w sees it, and whether w must wait for it.
Seen(w, o) == IF o \in DOMAIN request[w].own THEN request[w].own[o] ELSE order[o]
Locks(w) == IF Active(w) THEN DOMAIN request[w].own ELSE {}
LockedByOther(w, o) == \E v \in Request \ {w} : o \in Locks(v)

\* Another request has inserted a stop of order o and not committed it: a second insert
\* waits for it at the unique index, a delete of the order at the foreign key.
Places(v, o) == Active(v) /\ o \in request[v].placed
PlacedByOther(w, o) == \E v \in Request \ {w} : Places(v, o)

HasStop(o) == \E t \in Trip : stop[t][o] # Absent

TypeOK ==
  /\ order \in [Order -> Row]
  /\ tripDriver \in [Trip -> Driver \cup {NoDriver}]
  /\ startedAt \in [Trip -> BOOLEAN]
  /\ stop \in [Trip -> [Order -> StopStatus \cup {Absent}]]
  /\ ordersThisPeriod \in 0..OrderLimit
  /\ \A w \in Request : Active(w) =>
       /\ here(w) \in Order
       /\ request[w].entity \in Row /\ request[w].selected \in Row
       /\ \A o \in DOMAIN request[w].own : request[w].own[o] \in Row
  /\ repeated \subseteq Order

Init ==
  /\ order = [o \in Order |-> IF o \in Waiting THEN [NoRow EXCEPT !.status = "pending"] ELSE NoRow]
  /\ tripDriver = [t \in Trip |-> NoDriver]
  /\ startedAt = [t \in Trip |-> FALSE]
  /\ stop = [t \in Trip |-> [o \in Order |-> Absent]]
  /\ ordersThisPeriod = Cardinality(Waiting)
  /\ request = [w \in Request |-> Idle]
  /\ repeated = {}

database == <<order, tripDriver, startedAt, stop, ordersThisPeriod>>

\* Request w goes on with its record changed; the database is as it was.
Starts(w, record) == request' = [request EXCEPT ![w] = record] /\ UNCHANGED database
Goes(w, record) == Starts(w, record) /\ UNCHANGED repeated

rollbackForgotten(w) == Goes(w, [request[w] EXCEPT !.pc = "failed"])

\* The catch and finally of withTransaction: the transaction is rolled back.
rollback(w) == Goes(w, Idle)

\* The commit of withTransaction, for the order rows.
commitOrders(w) ==
  /\ order' = [o \in Order |-> Seen(w, o)]
  /\ request' = [request EXCEPT ![w] = Idle]
  /\ UNCHANGED repeated

-----------------------------------------------------------------------------
(* A request arrives. Ids are never reused: a new order or trip has an id no *)
(* open request knows.                                                       *)

Unknown(o) == \A w \in Request : Active(w) =>
                \A i \in DOMAIN request[w].orders : request[w].orders[i] # o

Stored == {o \in Order : order[o] # NoRow}

Arriving(t, o) == {v \in Request : Active(v) /\ request[v].kind = "arrive"
                                     /\ request[v].trip = t /\ request[v].orders = <<o>>}

\* A request for an order that is not there is refused at once.
arrives(w) ==
  /\ ~Active(w) /\ Cardinality(repeated) <= MaxRepeated
  /\ \/ \E o \in Order, s \in OrderStatus :
          "patch" \in Kind /\ Goes(w, Begin("patch", "find", "", <<o>>, <<s>>, FALSE))
     \/ \E o \in Stored, hasSchedule \in BOOLEAN :
          "edit" \in Kind /\ Goes(w, Begin("edit", "find", "", <<o>>, <<>>, hasSchedule))
     \/ \E o \in Stored :
          "delete" \in Kind /\ Goes(w, Begin("delete", "find", "", <<o>>, <<>>, FALSE))
     \/ \E t \in Trip, d \in Driver, o \in Stored, p \in Stored :
          /\ "dispatch" \in Kind
          /\ tripDriver[t] = NoDriver
          /\ \A v \in Request : Active(v) => request[v].trip # t
          /\ \E list \in {<<o>>, <<o, p>>} :
               Goes(w, Begin("dispatch", "check", t, list, <<"assigned">>, d))
     \/ \E t \in Trip, o \in Order, kind \in Kind \cap {"arrive", "complete", "skip"} :
          /\ stop[t][o] # Absent
          /\ Starts(w, Begin(kind, "stop", t, <<o>>, <<>>, FALSE))
          /\ repeated' = repeated \cup IF kind = "arrive" /\ Arriving(t, o) # {} THEN {o} ELSE {}

\* Creation in one step: until it commits, others only see its lock on usages.
createOrder(o, hasSchedule) ==
  /\ "create" \in Kind
  /\ order[o] = NoRow
  /\ Unknown(o)
  /\ ordersThisPeriod + 1 <= OrderLimit
  /\ ordersThisPeriod' = ordersThisPeriod + 1
  /\ order' = [order EXCEPT ![o] = [NoRow EXCEPT !.status = "pending", !.scheduled = hasSchedule]]
  /\ UNCHANGED <<tripDriver, startedAt, stop, request, repeated>>

-----------------------------------------------------------------------------
(* What the stop operations differ in. *)

\* What each requires of the stop it reads, saves in the order and in the stop.
stopAccepts ==
  [arrive   |-> {"pending"},
   complete |-> {"arrived"},
   skip     |-> {"pending", "arrived", "failed"}]

lastHop == [arrive |-> <<>>, complete |-> <<"delivered">>, skip |-> <<"failed">>]

stopBecomes == [arrive |-> "arrived", complete |-> "completed", skip |-> "skipped"]

-----------------------------------------------------------------------------
(* An order is found, checked, changed and saved. *)

acceptsAnyMove(q, row) ==
  /\ row.status # Absent
  /\ CASE q.kind = "edit"   -> row.status \notin LOCKED_ORDER_STATUSES
       [] q.kind = "delete" -> row.status \in DELETABLE_ORDER_STATUSES
       [] OTHER             -> TRUE

\* The checks made of the row found, and the entity the change makes of it.
accepts(q, row) ==
  /\ row.status # Absent
  /\ CASE q.kind = "edit"   -> row.status \notin LOCKED_ORDER_STATUSES
       [] q.kind = "delete" -> row.status \in DELETABLE_ORDER_STATUSES
       [] OTHER             -> Head(q.hops) \in ALLOWED_ORDER_STATUS_TRANSITIONS[row.status]

changed(q, row) ==
  CASE q.kind = "edit"     -> [row EXCEPT !.scheduled = q.arg]
    [] q.kind = "delete"   -> row
    [] q.kind = "dispatch" -> [row EXCEPT !.status = "assigned", !.driver = q.arg]
    [] OTHER               -> [row EXCEPT !.status = Head(q.hops)]

findOrder(w) ==
  LET q == request[w]  row == Seen(w, here(w)) IN
  /\ At(w, "find")
  /\ IF accepts(q, row)
     THEN Goes(w, [q EXCEPT !.entity = changed(q, row),
                            !.pc = IF q.kind = "delete" THEN "remove" ELSE "select"])
     ELSE rollback(w)

\* save selects the row to see what has changed ...
selectOrder(w) ==
  /\ At(w, "select")
  /\ Goes(w, [request[w] EXCEPT !.selected = Seen(w, here(w)), !.pc = "update"])

\* ... and writes the columns that have. An entity like the row is not written
\* at all, an UPDATE that finds no row any more is not noticed.
differs(q) == q.entity # q.selected

merged(q, row) ==
  [c \in DOMAIN row |-> IF q.entity[c] # q.selected[c] THEN q.entity[c] ELSE row[c]]

afterSave(saved) ==
  LET q == [saved EXCEPT !.entity = NoRow, !.selected = NoRow] IN
  CASE q.kind = "dispatch"         -> [q EXCEPT !.pc = "place"]
    [] q.kind \in {"patch", "edit"} -> [q EXCEPT !.pc = "commit"]
    [] q.kind \in DOMAIN lastHop    -> IF Len(q.hops) > 1
                                      THEN [q EXCEPT !.pc = "find", !.hops = Tail(@)]
                                      ELSE [q EXCEPT !.pc = "selectStop"]

\* A row the transaction writes is its own until it ends.
writes(q, o, row) ==
  [q EXCEPT !.own = [p \in DOMAIN q.own \cup {o} |-> IF p = o THEN row ELSE q.own[p]]]

updateOrder(w) ==
  LET q == request[w]  o == here(w)  row == Seen(w, o) IN
  /\ At(w, "update")
  /\ ~LockedByOther(w, o)
  /\ CASE q.selected = NoRow /\ row # NoRow -> rollback(w)                     \* duplicate key
       [] q.selected = NoRow /\ row = NoRow -> Goes(w, afterSave(writes(q, o, q.entity)))
       [] q.selected # NoRow /\ row = NoRow -> Goes(w, afterSave(q))
       [] q.selected # NoRow /\ row # NoRow ->
            Goes(w, afterSave(IF differs(q) THEN writes(q, o, merged(q, row)) ELSE q))

\* The end of a status change and of an edit.
commitChange(w) ==
  /\ At(w, "commit")
  /\ commitOrders(w)
  /\ UNCHANGED <<tripDriver, startedAt, stop, ordersThisPeriod>>

\* Math.max(0, n - 1)
oneLess(n) == IF n = 0 THEN 0 ELSE n - 1

\* The end of a delete: nothing tells whether there still was a row. What it
\* locks after the order, the usage row, no transaction holds while waiting.
removeOrder(w) ==
  LET o == here(w) IN
  /\ At(w, "remove")
  /\ ~LockedByOther(w, o) /\ ~PlacedByOther(w, o)
  /\ order' = [order EXCEPT ![o] = NoRow]
  /\ stop' = [t \in Trip |-> [stop[t] EXCEPT ![o] = Absent]]
  /\ ordersThisPeriod' = oneLess(ordersThisPeriod)
  /\ request' = [request EXCEPT ![w] = Idle]
  /\ UNCHANGED <<tripDriver, startedAt, repeated>>

-----------------------------------------------------------------------------
(* The loop of dispatchOrdersToDriver. *)

checkOrder(w) ==
  LET row == Seen(w, here(w)) IN
  /\ At(w, "check")
  /\ IF row.status = "pending" /\ ~row.scheduled
     THEN Goes(w, [request[w] EXCEPT !.pc = "find"])
     ELSE rollback(w)

placeableTwice(w, o) == Seen(w, o) # NoRow

\* trip_stops.order_id is unique and references orders.
placeable(w, o) == Seen(w, o) # NoRow /\ ~HasStop(o) /\ ~Places(w, o)

placeStop(w) ==
  LET q == request[w]  o == here(w) IN
  /\ At(w, "place")
  /\ ~PlacedByOther(w, o)
  /\ IF ~placeable(w, o)
     THEN rollback(w)
     ELSE Goes(w, IF Len(q.orders) > 1
                  THEN [q EXCEPT !.placed = @ \cup {o}, !.pc = "check", !.orders = Tail(@)]
                  ELSE [q EXCEPT !.placed = @ \cup {o}, !.pc = "commitDispatch"])

commitDispatch(w) ==
  LET q == request[w] IN
  /\ At(w, "commitDispatch")
  /\ commitOrders(w)
  /\ tripDriver' = [tripDriver EXCEPT ![q.trip] = q.arg]
  /\ stop' = [stop EXCEPT ![q.trip] =
                 [o \in Order |-> IF o \in q.placed THEN "pending" ELSE @[o]]]
  /\ UNCHANGED <<startedAt, ordersThisPeriod>>

-----------------------------------------------------------------------------
(* arriveAtStop, completeStop and skipStop. *)

findStop(w) ==
  LET q == request[w] IN
  /\ At(w, "stop")
  /\ IF stop[q.trip][here(w)] \in stopAccepts[q.kind]
     THEN Goes(w, [q EXCEPT !.pc = "advance"])
     ELSE rollback(w)

\* The hops of advanceOrderTo, from the status read here; each is checked again
\* by the update that makes it.
hopsFrom(s) ==
  CASE s = "assigned"  -> <<"picked_up", "in_transit">>
    [] s = "picked_up" -> <<"in_transit">>
    [] OTHER           -> <<>>

hopsUnlessThere(kind, s) ==
  IF s \in DOMAIN ORDER_PROGRESSION /\ hopsFrom(s) = <<>> THEN <<>> ELSE hopsFrom(s) \o lastHop[kind]

hopsOf(kind, s) == hopsFrom(s) \o lastHop[kind]

advanceOrder(w) ==
  LET q == request[w]  row == Seen(w, here(w))  hops == hopsOf(q.kind, row.status) IN
  /\ At(w, "advance")
  /\ IF row = NoRow
     THEN rollback(w)
     ELSE Goes(w, [q EXCEPT !.hops = hops,
                            !.pc = IF hops = <<>> THEN "selectStop" ELSE "find"])

selectStop(w) ==
  LET q == request[w] IN
  /\ At(w, "selectStop")
  /\ Goes(w, [q EXCEPT !.stopSelected = stop[q.trip][here(w)], !.pc = "updateStop"])

\* The stop is saved as an order is, and the transaction commits; arriveAtStop
\* saves the trip's start before. A stop deleted meanwhile is inserted again,
\* unless its order is gone too.
updateStop(w) ==
  LET q == request[w]  o == here(w)  s == stop[q.trip][o]  becomes == stopBecomes[q.kind] IN
  /\ At(w, "updateStop")
  /\ q.stopSelected = Absent => ~PlacedByOther(w, o)
  /\ IF q.stopSelected = Absent /\ ~placeable(w, o)
     THEN rollback(w)
     ELSE /\ commitOrders(w)
          /\ stop' = IF \/ q.stopSelected = Absent
                        \/ q.stopSelected # becomes /\ s # Absent
                     THEN [stop EXCEPT ![q.trip][o] = becomes]
                     ELSE stop
          /\ startedAt' = IF q.kind = "arrive"
                          THEN [startedAt EXCEPT ![q.trip] = TRUE] ELSE startedAt
          /\ UNCHANGED <<tripDriver, ordersThisPeriod>>

-----------------------------------------------------------------------------
(* What ends a transaction otherwise. *)

Inserts(w) == At(w, "place") \/ (At(w, "updateStop") /\ request[w].stopSelected = Absent)

Waits(w, v) ==
  /\ w # v
  /\ \/ request[w].pc \in {"update", "remove"} /\ here(w) \in Locks(v)
     \/ (Inserts(w) \/ At(w, "remove")) /\ Places(v, here(w))

\* Postgres cancels one of the transactions that wait for each other.
deadlockDetected(w) ==
  /\ \E S \in SUBSET Request :
       w \in S /\ \A v \in S : Active(v) /\ \E u \in S : Waits(v, u)
  /\ rollback(w)

\* The process or its connection is lost, at any moment.
connectionLost(w) == Active(w) /\ rollback(w)

Step(w) ==
  \/ findOrder(w) \/ selectOrder(w) \/ updateOrder(w) \/ commitChange(w) \/ removeOrder(w)
  \/ checkOrder(w) \/ placeStop(w) \/ commitDispatch(w)
  \/ findStop(w) \/ advanceOrder(w) \/ selectStop(w) \/ updateStop(w)

Next ==
  \/ \E w \in Request : arrives(w) \/ Step(w) \/ deadlockDetected(w) \/ connectionLost(w)
  \/ \E o \in Order, hasSchedule \in BOOLEAN : createOrder(o, hasSchedule)

Spec == Init /\ [][Next]_vars

\* The server goes on with every request, Postgres grants a row lock to each
\* waiting transaction in its turn and breaks every deadlock.
Fairness ==
  \A w \in Request : SF_vars(Step(w)) /\ WF_vars(deadlockDetected(w))

FairSpec == Spec /\ Fairness

-----------------------------------------------------------------------------
(* The requests one at a time are Dispatch; its events are taken to come with *)
(* each commit. *)

Serial == INSTANCE DispatchProperties WITH
            status <- [o \in Order |-> order[o].status],
            scheduled <- [o \in Order |-> order[o].scheduled],
            driver <- [o \in Order |-> order[o].driver],
            announced <- [o \in Order |-> order[o].status]

\* One at a time, the requests do to the database what Dispatch says.
SerialIsDispatch == Serial!Spec

\* Whatever runs at the same time, an order is a stop of at most one trip: the
\* unique constraint stands where the PENDING check of a dispatch was too early.
OneStopEach ==
  \A o \in Order : \A t, u \in Trip : stop[t][o] # Absent /\ stop[u][o] # Absent => t = u

\* Every request ends: a refusal, an error and a lost connection release what
\* was locked, and a deadlock of two dispatches is broken.
RequestsEnd == \A w \in Request : Active(w) ~> ~Active(w)

\* Among dispatches and stop operations, with orders created meanwhile, an order has the
\* driver of its trip: of two dispatches of an order, one is undone whole.
DriverOfItsTrip == Serial!DriverMatchesTrip

\* Among dispatches, arrivals and completions, a completed stop's order is delivered, however
\* completions overlap each other and an arrival: each saves the stop's outcome and the
\* order's in one transaction. Two arrivals that overlap can undo it: the later one saves the
\* status it read long ago. So can a skip between two completions, the second of which finds
\* the order delivered and writes only the stop.
StopAndOrderAgree ==
  \A t \in Trip, o \in Order \ repeated : stop[t][o] = "completed" => order[o].status = "delivered"

\* "This is the single source of truth for valid order status transitions,
\* enforced here server-side".
TransitionsAreEnforced == Serial!StatusWalksTable
=============================================================================
