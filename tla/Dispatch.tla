------------------------------ MODULE Dispatch ------------------------------
(***************************************************************************)
(* Orders, the trips they are dispatched on, the stops of those trips and  *)
(* the company's order quota, with every operation of OrdersService and    *)
(* DispatchService that writes them, each request running alone.           *)
(* OrderTransactions runs the same requests interleaved.                   *)
(*                                                                         *)
(* One company is modelled: a request for another company's order is       *)
(* refused before it writes anything.                                      *)
(***************************************************************************)
EXTENDS OrderStatus, FiniteSets

CONSTANTS
  Order,       \* order ids; an id is free again once its row is deleted
  Trip,        \* trip ids
  Driver,      \* users with the driver role
  NoDriver,    \* SQL null
  OrderLimit   \* orderLimit of the company's plan

ASSUME OrderAssumption == IsFiniteSet(Order)
ASSUME NoDriverAssumption == NoDriver \notin Driver
ASSUME OrderLimitAssumption == OrderLimit \in Nat

VARIABLES
  status,            \* orders.status, Absent where there is no row
  scheduled,         \* orders.scheduled_for is set
  driver,            \* orders.assigned_driver_user_id
  tripDriver,        \* trips.driver_user_id, NoDriver where there is no row
  startedAt,         \* trips.started_at is set
  stop,              \* stop[t][o] is the status of order o's stop on trip t
  ordersThisPeriod,  \* usages.orders_this_period
  announced          \* the status the last order event gave for the order

vars == <<status, scheduled, driver, tripDriver, startedAt, stop, ordersThisPeriod, announced>>

Exists(o) == status[o] # Absent
HasStop(o) == \E t \in Trip : stop[t][o] # Absent
StopsOf(t) == {stop[t][o] : o \in Order} \ {Absent}

TypeOK ==
  /\ status \in [Order -> OrderStatus \cup {Absent}]
  /\ scheduled \in [Order -> BOOLEAN]
  /\ driver \in [Order -> Driver \cup {NoDriver}]
  /\ tripDriver \in [Trip -> Driver \cup {NoDriver}]
  /\ startedAt \in [Trip -> BOOLEAN]
  /\ stop \in [Trip -> [Order -> StopStatus \cup {Absent}]]
  /\ ordersThisPeriod \in 0..OrderLimit
  /\ announced \in [Order -> OrderStatus \cup {Absent}]

Init ==
  /\ status = [o \in Order |-> Absent]
  /\ scheduled = [o \in Order |-> FALSE]
  /\ driver = [o \in Order |-> NoDriver]
  /\ tripDriver = [t \in Trip |-> NoDriver]
  /\ startedAt = [t \in Trip |-> FALSE]
  /\ stop = [t \in Trip |-> [o \in Order |-> Absent]]
  /\ ordersThisPeriod = 0
  /\ announced = [o \in Order |-> Absent]

-----------------------------------------------------------------------------
(* OrdersService *)

\* The plan's limit is checked and the count raised under one row lock.
incrementOrderCount ==
  /\ ordersThisPeriod + 1 <= OrderLimit
  /\ ordersThisPeriod' = ordersThisPeriod + 1

decrementNothing == UNCHANGED ordersThisPeriod

decrementOrderCount ==
  ordersThisPeriod' = IF ordersThisPeriod = 0 THEN 0 ELSE ordersThisPeriod - 1

\* The row every way of creating an order saves.
saveNewOrder(o, hasSchedule) ==
  /\ ~Exists(o)
  /\ incrementOrderCount
  /\ status' = [status EXCEPT ![o] = "pending"]
  /\ scheduled' = [scheduled EXCEPT ![o] = hasSchedule]
  /\ UNCHANGED <<driver, tripDriver, startedAt, stop>>

\* POST /orders and the API-key endpoint: the created event names the order.
createOrder(o, hasSchedule) ==
  /\ saveNewOrder(o, hasSchedule)
  /\ announced' = [announced EXCEPT ![o] = "pending"]

\* One row of a CSV import, a transaction of its own; the import announces
\* only totals, when it ends.
importOrdersFromCsv(o, hasSchedule) ==
  /\ saveNewOrder(o, hasSchedule)
  /\ UNCHANGED announced

setStatusSilently(o, s) ==
  /\ status' = [status EXCEPT ![o] = s]
  /\ UNCHANGED announced

\* An order row given a status, and the event for each change of it.
setOrderStatus(o, s) ==
  /\ status' = [status EXCEPT ![o] = s]
  /\ announced' = IF s = status[o] THEN announced ELSE [announced EXCEPT ![o] = s]

\* PATCH /orders/:id/status, open to dispatchers and drivers alike: any move
\* of the table, whatever stop the order has.
updateOrderStatusForCompany(o, s) ==
  /\ Exists(o)
  /\ s \in ALLOWED_ORDER_STATUS_TRANSITIONS[status[o]]
  /\ setOrderStatus(o, s)
  /\ UNCHANGED <<scheduled, driver, tripDriver, startedAt, stop, ordersThisPeriod>>

\* PATCH /orders/:id. Of the editable fields only the schedule is read by
\* another operation; it is editable in every status that is not locked.
updateOrderForCompany(o, hasSchedule) ==
  /\ Exists(o)
  /\ status[o] \notin LOCKED_ORDER_STATUSES
  /\ scheduled' = [scheduled EXCEPT ![o] = hasSchedule]
  /\ UNCHANGED <<status, driver, tripDriver, startedAt, stop, ordersThisPeriod, announced>>

deleteOrderRow(o) ==
  /\ status' = [status EXCEPT ![o] = Absent]
  /\ scheduled' = [scheduled EXCEPT ![o] = FALSE]
  /\ driver' = [driver EXCEPT ![o] = NoDriver]
  /\ announced' = [announced EXCEPT ![o] = Absent]

deleteWithoutCascade(o) ==
  /\ status[o] \in DELETABLE_ORDER_STATUSES
  /\ deleteOrderRow(o)
  /\ decrementOrderCount
  /\ UNCHANGED <<tripDriver, startedAt, stop>>

\* DELETE /orders/:id; the foreign key takes the order's stop with it.
deleteOrderForCompany(o) ==
  /\ status[o] \in DELETABLE_ORDER_STATUSES
  /\ deleteOrderRow(o)
  /\ stop' = [t \in Trip |-> [stop[t] EXCEPT ![o] = Absent]]
  /\ decrementOrderCount
  /\ UNCHANGED <<tripDriver, startedAt>>

-----------------------------------------------------------------------------
(* DispatchService *)

\* What the loop of dispatchOrdersToDriver checks of an order before it
\* assigns it; trip_stops.order_id is unique.
dispatchable(o) ==
  /\ status[o] = "pending"
  /\ ~scheduled[o]
  /\ ~HasStop(o)

\* A trip for d with a stop for every order listed: all or nothing.
dispatchOrdersToDriver(t, d, orders) ==
  /\ tripDriver[t] = NoDriver
  /\ \A o \in orders : dispatchable(o)
  /\ tripDriver' = [tripDriver EXCEPT ![t] = d]
  /\ status' = [o \in Order |-> IF o \in orders THEN "assigned" ELSE status[o]]
  /\ driver' = [o \in Order |-> IF o \in orders THEN d ELSE driver[o]]
  /\ announced' = [o \in Order |-> IF o \in orders THEN "assigned" ELSE announced[o]]
  /\ stop' = [stop EXCEPT ![t] = [o \in Order |-> IF o \in orders THEN "pending" ELSE @[o]]]
  /\ UNCHANGED <<scheduled, startedAt, ordersThisPeriod>>

\* The list goes on to an order that cannot be dispatched: unknown, taken,
\* scheduled or listed twice. The transaction rolls back, but the orders
\* before it have been announced as assigned.
dispatchRollsBack(orders) ==
  /\ \A o \in orders : dispatchable(o)
  /\ announced' = [o \in Order |-> IF o \in orders THEN "assigned" ELSE announced[o]]
  /\ UNCHANGED <<status, scheduled, driver, tripDriver, startedAt, stop, ordersThisPeriod>>

\* The stop statuses each operation on a stop accepts.
arrivableOnceSkipped(s) == s \in {"pending", "skipped"}

arrivable(s) == s = "pending"
completable(s) == s = "arrived"
skippable(s) == s \notin {Absent, "completed", "skipped"}

\* The order is not looked at beyond advanceOrderTo: one that was cancelled,
\* delivered or failed by hand stays so and its stop is arrived at.
arriveAtStop(t, o) ==
  /\ arrivable(stop[t][o])
  /\ setOrderStatus(o, advanceOrderTo(status[o], "in_transit"))
  /\ startedAt' = [startedAt EXCEPT ![t] = TRUE]
  /\ stop' = [stop EXCEPT ![t][o] = "arrived"]
  /\ UNCHANGED <<scheduled, driver, tripDriver, ordersThisPeriod>>

orderCanBecomeAnything(o, s) == Exists(o)

\* Whether the order of a stop can take the status the stop's end gives it.
orderCanBecome(o, s) ==
  s \in ALLOWED_ORDER_STATUS_TRANSITIONS[advanceOrderTo(status[o], "in_transit")]

completeStop(t, o) ==
  /\ completable(stop[t][o])
  /\ orderCanBecome(o, "delivered")
  /\ setOrderStatus(o, "delivered")
  /\ stop' = [stop EXCEPT ![t][o] = "completed"]
  /\ UNCHANGED <<scheduled, driver, tripDriver, startedAt, ordersThisPeriod>>

\* A stop may be skipped before it is arrived at; startedAt is left alone.
skipStop(t, o) ==
  /\ skippable(stop[t][o])
  /\ orderCanBecome(o, "failed")
  /\ setOrderStatus(o, "failed")
  /\ stop' = [stop EXCEPT ![t][o] = "skipped"]
  /\ UNCHANGED <<scheduled, driver, tripDriver, startedAt, ordersThisPeriod>>

-----------------------------------------------------------------------------
Next ==
  \/ \E o \in Order :
       \/ \E hasSchedule \in BOOLEAN :
            \/ createOrder(o, hasSchedule)
            \/ importOrdersFromCsv(o, hasSchedule)
            \/ updateOrderForCompany(o, hasSchedule)
       \/ \E s \in OrderStatus : updateOrderStatusForCompany(o, s)
       \/ deleteOrderForCompany(o)
  \/ \E orders \in (SUBSET Order) \ {{}} :
       \/ \E t \in Trip, d \in Driver : dispatchOrdersToDriver(t, d, orders)
       \/ dispatchRollsBack(orders)
  \/ \E t \in Trip, o \in Order :
       \/ arriveAtStop(t, o)
       \/ completeStop(t, o)
       \/ skipStop(t, o)

Spec == Init /\ [][Next]_vars
=============================================================================
