------------------------- MODULE DispatchProperties -------------------------
(***************************************************************************)
(* What the order, stop and quota operations promise together.             *)
(***************************************************************************)
EXTENDS Dispatch

\* An order is a stop of at most one trip, and never while it is pending: the
\* PENDING -> ASSIGNED guard alone keeps a dispatch away from the unique
\* constraint on trip_stops.order_id ("defense-in-depth").
DispatchedOnce ==
  \A o \in Order :
    /\ status[o] \in {Absent, "pending"} => ~HasStop(o)
    /\ \A t, u \in Trip : stop[t][o] # Absent /\ stop[u][o] # Absent => t = u

\* A completed stop's order is delivered, whatever else was done to the order
\* by hand before or after completeStop.
CompletedIsDelivered ==
  \A t \in Trip, o \in Order : stop[t][o] = "completed" => status[o] = "delivered"

\* The driver of an order is the driver of the trip it is a stop of, and an
\* order without a stop has none: assignDriverForCompany, the trip and the
\* cascade of a delete stay together.
DriverMatchesTrip ==
  \A o \in Order :
    /\ ~HasStop(o) => driver[o] = NoDriver
    /\ \A t \in Trip : stop[t][o] # Absent =>
         /\ driver[o] = tripDriver[t]
         /\ tripDriver[t] # NoDriver

\* A trip that was arrived at anywhere has its start time, also once the stop
\* is completed.
StartedOnArrival ==
  \A t \in Trip, o \in Order : stop[t][o] \in {"arrived", "completed"} => startedAt[t]

\* The quota counts the rows there are, through creation by every route,
\* refusals and deletion.
QuotaCountsOrders == ordersThisPeriod = Cardinality({o \in Order : Exists(o)})

\* The last event of an order gives its status, but for an order no single
\* event was sent for (imported) and one a rolled-back dispatch announced.
EventsTellStatus ==
  \A o \in Order :
    \/ announced[o] = status[o]
    \/ status[o] = "pending" /\ announced[o] \in {Absent, "assigned"}

\* A delivered order stays delivered: no update, stop operation or delete
\* touches the record.
DeliveredForGood == [][\A o \in Order : status[o] = "delivered" => status'[o] = "delivered"]_vars

\* A completed trip is not reopened.
TripStaysCompleted ==
  [][\A t \in Trip : tripDriver[t] # NoDriver /\ deriveTripStatus(StopsOf(t)) = "completed"
       => deriveTripStatus(StopsOf(t))' = "completed"]_vars

\* The statuses reached by one to three moves of the table: a stop operation
\* makes up to three in one transaction.
Moves(S) == UNION {ALLOWED_ORDER_STATUS_TRANSITIONS[s] : s \in S}
Walk(s) == LET one == Moves({s})  two == Moves(one) IN one \cup two \cup Moves(two)

\* An order's status only ever changes along the table.
StatusWalksTable ==
  [][\A o \in Order :
       Exists(o) /\ status'[o] \notin {status[o], Absent} => status'[o] \in Walk(status[o])]_vars

-----------------------------------------------------------------------------
\* "@throws BadRequest: if the stop has already been completed or skipped" is
\* all skipStop says of its refusals. A stop still open can then be skipped.
OpenStopCanBeSkipped ==
  \A t \in Trip, o \in Order :
    stop[t][o] \in {"pending", "arrived"} => orderCanBecome(o, "failed")
=============================================================================
