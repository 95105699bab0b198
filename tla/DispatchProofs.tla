--------------------------- MODULE DispatchProofs ---------------------------
(***************************************************************************)
(* The invariants of Dispatch for any set of orders, trips and drivers.    *)
(***************************************************************************)
EXTENDS DispatchProperties, FiniteSetTheorems, TLAPS

\* The hops advanceOrderTo makes one by one are moves of the table, so the
\* nested updateOrderStatusForCompany never refuses one of them.
LEMMA ProgressionIsAllowed ==
  ASSUME NEW s \in DOMAIN ORDER_PROGRESSION, NEW r \in DOMAIN ORDER_PROGRESSION,
         ORDER_PROGRESSION[r] = ORDER_PROGRESSION[s] + 1
  PROVE  r \in ALLOWED_ORDER_STATUS_TRANSITIONS[s]
BY DEF ORDER_PROGRESSION, ALLOWED_ORDER_STATUS_TRANSITIONS

\* What an advance to IN_TRANSIT leaves: a status, never PENDING unless it was,
\* and a final status untouched.
LEMMA AdvanceKeepsStatus ==
  ASSUME NEW s \in OrderStatus
  PROVE  /\ advanceOrderTo(s, "in_transit") \in OrderStatus
         /\ advanceOrderTo(s, "in_transit") = "pending" <=> s = "pending"
         /\ s \in {"delivered", "failed", "cancelled"} => advanceOrderTo(s, "in_transit") = s
         /\ advanceOrderTo(s, "in_transit") \in {s, "in_transit"}
         /\ advanceOrderTo(s, "in_transit") # s => s \in {"assigned", "picked_up"}
BY DEF advanceOrderTo, ORDER_PROGRESSION, OrderStatus

\* A move of the table starts from an existing order that is not final and
\* never leads to PENDING.
LEMMA MovesOfTable ==
  ASSUME NEW s \in OrderStatus, NEW r \in ALLOWED_ORDER_STATUS_TRANSITIONS[s]
  PROVE  /\ r \in OrderStatus \ {"pending"}
         /\ s \notin {"delivered", "cancelled"}
         /\ r # s
BY DEF ALLOWED_ORDER_STATUS_TRANSITIONS, OrderStatus

\* Absent stands for a missing row, not for a status of one.
LEMMA AbsentIsNoStatus == Absent \notin OrderStatus /\ Absent \notin StopStatus
BY DEF Absent, OrderStatus, StopStatus

-----------------------------------------------------------------------------
\* Every variable keeps its type, and the quota its limit.
THEOREM Typing == Spec => []TypeOK
<1>1. Init => TypeOK
  BY OrderLimitAssumption DEF Init, TypeOK
<1>2. TypeOK /\ [Next]_vars => TypeOK'
  <2> SUFFICES ASSUME TypeOK, [Next]_vars PROVE TypeOK'
    OBVIOUS
  <2> USE OrderLimitAssumption DEF TypeOK
  <2>1. ASSUME NEW o \in Order, NEW b \in BOOLEAN, createOrder(o, b) \/ importOrdersFromCsv(o, b)
        PROVE  TypeOK'
    <3>1. ordersThisPeriod' \in 0..OrderLimit
      BY <2>1 DEF createOrder, importOrdersFromCsv, saveNewOrder, incrementOrderCount
    <3>2. QED
      BY <2>1, <3>1 DEF createOrder, importOrdersFromCsv, saveNewOrder, OrderStatus
  <2>2. ASSUME NEW o \in Order, NEW b \in BOOLEAN, updateOrderForCompany(o, b)
        PROVE  TypeOK'
    BY <2>2 DEF updateOrderForCompany
  <2>3. ASSUME NEW o \in Order, NEW s \in OrderStatus, updateOrderStatusForCompany(o, s)
        PROVE  TypeOK'
    BY <2>3 DEF updateOrderStatusForCompany, setOrderStatus
  <2>4. ASSUME NEW o \in Order, deleteOrderForCompany(o)
        PROVE  TypeOK'
    <3>1. ordersThisPeriod' \in 0..OrderLimit
      BY <2>4 DEF deleteOrderForCompany, decrementOrderCount
    <3>2. QED
      BY <2>4, <3>1 DEF deleteOrderForCompany, deleteOrderRow
  <2>5. ASSUME NEW S \in SUBSET Order, NEW t \in Trip, NEW d \in Driver,
               dispatchOrdersToDriver(t, d, S)
        PROVE  TypeOK'
    BY <2>5 DEF dispatchOrdersToDriver, OrderStatus, StopStatus
  <2>6. ASSUME NEW S \in SUBSET Order, dispatchRollsBack(S)
        PROVE  TypeOK'
    BY <2>6 DEF dispatchRollsBack, OrderStatus
  <2>7. ASSUME NEW t \in Trip, NEW o \in Order, arriveAtStop(t, o)
        PROVE  TypeOK'
    BY <2>7 DEF arriveAtStop, setOrderStatus, advanceOrderTo, OrderStatus, StopStatus
  <2>8. ASSUME NEW t \in Trip, NEW o \in Order, completeStop(t, o)
        PROVE  TypeOK'
    BY <2>8 DEF completeStop, setOrderStatus, OrderStatus, StopStatus
  <2>9. ASSUME NEW t \in Trip, NEW o \in Order, skipStop(t, o)
        PROVE  TypeOK'
    BY <2>9 DEF skipStop, setOrderStatus, OrderStatus, StopStatus
  <2>10. CASE UNCHANGED vars
    BY <2>10 DEF vars
  <2>11. QED
    BY <2>1, <2>2, <2>3, <2>4, <2>5, <2>6, <2>7, <2>8, <2>9, <2>10 DEF Next
<1>3. QED
  BY <1>1, <1>2, PTL DEF Spec

-----------------------------------------------------------------------------
(* The agreement of orders, stops and trips. None of the parts is inductive *)
(* alone: that a dispatched order has no other stop follows from its being  *)
(* PENDING, that a completed stop's order is not skipped or cancelled later *)
(* from its being DELIVERED, and so on round.                               *)

Agreement ==
  /\ DispatchedOnce
  /\ CompletedIsDelivered
  /\ DriverMatchesTrip
  /\ StartedOnArrival
  /\ EventsTellStatus

\* Creating an order: its row is new, so no trip can have a stop for it.
LEMMA CreationKeepsAgreement ==
  ASSUME TypeOK, Agreement, NEW o \in Order, NEW b \in BOOLEAN,
         createOrder(o, b) \/ importOrdersFromCsv(o, b)
  PROVE  Agreement'
<1> USE DEF Agreement, TypeOK, HasStop
<1>1. /\ status[o] = Absent
      /\ status' = [status EXCEPT ![o] = "pending"]
      /\ UNCHANGED <<driver, tripDriver, startedAt, stop>>
      /\ announced' = announced \/ announced' = [announced EXCEPT ![o] = "pending"]
  BY DEF createOrder, importOrdersFromCsv, saveNewOrder, Exists
<1>2. DispatchedOnce'
  BY <1>1 DEF DispatchedOnce
<1>3. CompletedIsDelivered'
  BY <1>1 DEF DispatchedOnce, CompletedIsDelivered, Absent
<1>4. DriverMatchesTrip' /\ StartedOnArrival'
  BY <1>1 DEF DriverMatchesTrip, StartedOnArrival
<1>5. EventsTellStatus'
  <2>1. announced[o] \in {Absent, "assigned"} 
    BY <1>1, AbsentIsNoStatus DEF EventsTellStatus, Absent
  <2>2. QED
    BY <1>1, <2>1 DEF EventsTellStatus
<1>6. QED
  BY <1>2, <1>3, <1>4, <1>5

\* A status change by hand: a move of the table starts from a status that is
\* neither DELIVERED nor absent and does not lead to PENDING.
LEMMA StatusChangeKeepsAgreement ==
  ASSUME TypeOK, Agreement, NEW o \in Order, NEW s \in OrderStatus,
         updateOrderStatusForCompany(o, s)
  PROVE  Agreement'
<1> USE DEF Agreement, TypeOK, HasStop
<1>0. status[o] \in OrderStatus /\ s \in ALLOWED_ORDER_STATUS_TRANSITIONS[status[o]]
  BY DEF updateOrderStatusForCompany, Exists
<1>1. /\ status' = [status EXCEPT ![o] = s]
      /\ announced' = [announced EXCEPT ![o] = s]
      /\ UNCHANGED <<driver, tripDriver, startedAt, stop>>
      /\ s # "pending" /\ s # Absent /\ status[o] # "delivered" /\ status[o] # Absent
  BY <1>0, MovesOfTable, AbsentIsNoStatus DEF updateOrderStatusForCompany, setOrderStatus
<1>2. DispatchedOnce'
  BY <1>1 DEF DispatchedOnce
<1>3. CompletedIsDelivered'
  BY <1>1 DEF CompletedIsDelivered
<1>4. DriverMatchesTrip' /\ StartedOnArrival'
  BY <1>1 DEF DriverMatchesTrip, StartedOnArrival
<1>5. EventsTellStatus'
  BY <1>1 DEF EventsTellStatus
<1>6. QED
  BY <1>2, <1>3, <1>4, <1>5

\* Deleting an order: the cascade leaves it no stop on any trip.
LEMMA DeletionKeepsAgreement ==
  ASSUME TypeOK, Agreement, NEW o \in Order, deleteOrderForCompany(o)
  PROVE  Agreement'
<1> USE DEF Agreement, TypeOK, HasStop
<1>1. /\ status' = [status EXCEPT ![o] = Absent]
      /\ announced' = [announced EXCEPT ![o] = Absent]
      /\ driver' = [driver EXCEPT ![o] = NoDriver]
      /\ UNCHANGED <<tripDriver, startedAt>>
  BY DEF deleteOrderForCompany, deleteOrderRow
<1>2. \A t \in Trip, p \in Order : stop'[t][p] = IF p = o THEN Absent ELSE stop[t][p]
  BY DEF deleteOrderForCompany
<1>3. DispatchedOnce'
  BY <1>1, <1>2 DEF DispatchedOnce
<1>4. CompletedIsDelivered'
  BY <1>1, <1>2 DEF CompletedIsDelivered, Absent
<1>5. DriverMatchesTrip'
  BY <1>1, <1>2 DEF DriverMatchesTrip
<1>6. StartedOnArrival'
  BY <1>1, <1>2 DEF StartedOnArrival, Absent
<1>7. EventsTellStatus'
  BY <1>1 DEF EventsTellStatus
<1>8. QED
  BY <1>3, <1>4, <1>5, <1>6, <1>7

\* A dispatch: the orders are PENDING, so none of them has a stop yet.
LEMMA DispatchKeepsAgreement ==
  ASSUME TypeOK, Agreement, NEW t \in Trip, NEW d \in Driver, NEW S \in SUBSET Order,
         dispatchOrdersToDriver(t, d, S)
  PROVE  Agreement'
<1> USE DEF Agreement, TypeOK, HasStop
<1>1. /\ \A o \in S : status[o] = "pending"
      /\ tripDriver[t] = NoDriver
      /\ d # NoDriver
  BY NoDriverAssumption DEF dispatchOrdersToDriver, dispatchable
<1>2. \A u \in Trip, o \in Order :
        stop'[u][o] = IF u = t /\ o \in S THEN "pending" ELSE stop[u][o]
  BY DEF dispatchOrdersToDriver
<1>3. \A o \in Order :
        /\ status'[o] = IF o \in S THEN "assigned" ELSE status[o]
        /\ driver'[o] = IF o \in S THEN d ELSE driver[o]
        /\ announced'[o] = IF o \in S THEN "assigned" ELSE announced[o]
  BY DEF dispatchOrdersToDriver
<1>4. tripDriver' = [tripDriver EXCEPT ![t] = d] /\ UNCHANGED startedAt
  BY DEF dispatchOrdersToDriver
<1>5. \A o \in S, u \in Trip : stop[u][o] = Absent
  BY <1>1 DEF DispatchedOnce
<1>6. \A o \in Order : stop[t][o] = Absent
  BY <1>1 DEF DriverMatchesTrip
<1>7. DispatchedOnce'
  BY <1>2, <1>3, <1>5 DEF DispatchedOnce, Absent
<1>8. CompletedIsDelivered'
  BY <1>2, <1>3, <1>5 DEF CompletedIsDelivered, Absent
<1>9. DriverMatchesTrip'
  <2> SUFFICES ASSUME NEW o \in Order
               PROVE  /\ (\A u \in Trip : stop'[u][o] = Absent) => driver'[o] = NoDriver
                      /\ \A u \in Trip : stop'[u][o] # Absent =>
                           driver'[o] = tripDriver'[u] /\ tripDriver'[u] # NoDriver
    BY DEF DriverMatchesTrip
  <2>1. CASE o \in S
    <3>1. \A u \in Trip : stop'[u][o] = IF u = t THEN "pending" ELSE Absent
      BY <1>2, <1>5, <2>1
    <3>2. driver'[o] = d /\ tripDriver'[t] = d
      BY <1>3, <1>4, <2>1
    <3>3. QED
      BY <1>1, <3>1, <3>2 DEF Absent
  <2>2. CASE o \notin S
    <3>1. \A u \in Trip : stop'[u][o] = stop[u][o]
      BY <1>2, <2>2
    <3>2. driver'[o] = driver[o] /\ \A u \in Trip : u # t => tripDriver'[u] = tripDriver[u]
      BY <1>3, <1>4, <2>2
    <3>3. QED
      BY <1>6, <3>1, <3>2 DEF DriverMatchesTrip
  <2>3. QED
    BY <2>1, <2>2
<1>10. StartedOnArrival'
  BY <1>2, <1>4 DEF StartedOnArrival
<1>11. EventsTellStatus'
  BY <1>3 DEF EventsTellStatus
<1>12. QED
  BY <1>7, <1>8, <1>9, <1>10, <1>11

\* A dispatch that rolls back leaves only its events.
LEMMA RollbackKeepsAgreement ==
  ASSUME TypeOK, Agreement, NEW S \in SUBSET Order, dispatchRollsBack(S)
  PROVE  Agreement'
<1> USE DEF Agreement, TypeOK, HasStop
<1>1. /\ UNCHANGED <<status, driver, tripDriver, startedAt, stop>>
      /\ \A o \in S : status[o] = "pending"
      /\ \A o \in Order : announced'[o] = IF o \in S THEN "assigned" ELSE announced[o]
  BY DEF dispatchRollsBack, dispatchable
<1>2. EventsTellStatus'
  BY <1>1 DEF EventsTellStatus
<1>3. QED
  BY <1>1, <1>2 DEF DispatchedOnce, CompletedIsDelivered, DriverMatchesTrip, StartedOnArrival

\* What the three stop operations have in common: the order has this stop, so
\* it is neither absent nor PENDING, and neither is the status it is given.
LEMMA StopStepKeepsAgreement ==
  ASSUME TypeOK, Agreement, NEW t \in Trip, NEW o \in Order,
         NEW s \in OrderStatus \ {"pending"}, NEW x \in StopStatus,
         stop[t][o] # Absent,
         setOrderStatus(o, s),
         stop' = [stop EXCEPT ![t][o] = x],
         x = "completed" \/ stop[t][o] = "completed" => s = "delivered",
         startedAt' \in [Trip -> BOOLEAN],
         \A u \in Trip : startedAt[u] => startedAt'[u],
         x \in {"arrived", "completed"} => startedAt'[t],
         UNCHANGED <<driver, tripDriver>>
  PROVE  Agreement'
<1> USE DEF Agreement, TypeOK, HasStop
<1>1. \A u \in Trip, p \in Order : stop'[u][p] = IF u = t /\ p = o THEN x ELSE stop[u][p]
  OBVIOUS
<1>2. \A p \in Order : status'[p] = IF p = o THEN s ELSE status[p]
  BY DEF setOrderStatus
<1>3. s # Absent /\ x # Absent /\ status[o] # "pending" /\ status[o] # Absent
  BY AbsentIsNoStatus DEF DispatchedOnce
<1>4. \A p \in Order : announced'[p] = IF p = o /\ s # status[o] THEN s ELSE announced[p]
  BY DEF setOrderStatus
<1>5. DispatchedOnce'
  BY <1>1, <1>2, <1>3 DEF DispatchedOnce
<1>6. CompletedIsDelivered'
  BY <1>1, <1>2, <1>3 DEF CompletedIsDelivered, DispatchedOnce, Absent
<1>7. DriverMatchesTrip'
  BY <1>1, <1>3 DEF DriverMatchesTrip
<1>8. StartedOnArrival'
  BY <1>1 DEF StartedOnArrival
<1>9. EventsTellStatus'
  BY <1>2, <1>3, <1>4 DEF EventsTellStatus
<1>10. QED
  BY <1>5, <1>6, <1>7, <1>8, <1>9

\* arriveAtStop, completeStop and skipStop are such steps.
LEMMA StopOperationKeepsAgreement ==
  ASSUME TypeOK, Agreement, NEW t \in Trip, NEW o \in Order,
         arriveAtStop(t, o) \/ completeStop(t, o) \/ skipStop(t, o)
  PROVE  Agreement'
<1>1. /\ stop[t][o] # Absent
      /\ status[o] \in OrderStatus \ {"pending"}
      /\ startedAt \in [Trip -> BOOLEAN]
      /\ stop[t][o] = "completed" => status[o] = "delivered"
  BY DEF arriveAtStop, completeStop, skipStop, arrivable, completable, skippable, Absent,
         Agreement, DispatchedOnce, CompletedIsDelivered, HasStop, TypeOK
<1>2. CASE arriveAtStop(t, o)
  <2> DEFINE s == advanceOrderTo(status[o], "in_transit")
  <2>1. s \in OrderStatus \ {"pending"}
    BY <1>1, AdvanceKeepsStatus
  <2>2. /\ setOrderStatus(o, s)
        /\ stop' = [stop EXCEPT ![t][o] = "arrived"]
        /\ startedAt' = [startedAt EXCEPT ![t] = TRUE]
        /\ stop[t][o] # "completed"
        /\ UNCHANGED <<driver, tripDriver>>
    BY <1>2 DEF arriveAtStop, arrivable
  <2> HIDE DEF s
  <2>3. "arrived" \in StopStatus
    BY DEF StopStatus
  <2>4. /\ startedAt' \in [Trip -> BOOLEAN]
        /\ \A u \in Trip : startedAt[u] => startedAt'[u]
        /\ startedAt'[t]
    BY <1>1, <2>2
  <2>5. QED
    BY <1>1, <2>1, <2>2, <2>3, <2>4, StopStepKeepsAgreement
<1>3. CASE completeStop(t, o)
  <2>1. "delivered" \in OrderStatus \ {"pending"} /\ "completed" \in StopStatus
    BY DEF OrderStatus, StopStatus
  <2>2. /\ setOrderStatus(o, "delivered")
        /\ stop' = [stop EXCEPT ![t][o] = "completed"]
        /\ stop[t][o] = "arrived"
        /\ UNCHANGED <<driver, tripDriver, startedAt>>
    BY <1>3 DEF completeStop, completable
  <2>3. startedAt'[t]
    BY <2>2 DEF Agreement, StartedOnArrival
  <2>4. QED
    BY <1>1, <2>1, <2>2, <2>3, StopStepKeepsAgreement
<1>4. CASE skipStop(t, o)
  <2>1. "failed" \in OrderStatus \ {"pending"} /\ "skipped" \in StopStatus
    BY DEF OrderStatus, StopStatus
  <2>2. /\ setOrderStatus(o, "failed")
        /\ stop' = [stop EXCEPT ![t][o] = "skipped"]
        /\ stop[t][o] # "completed"
        /\ UNCHANGED <<driver, tripDriver, startedAt>>
    BY <1>4 DEF skipStop, skippable
  <2>3. QED
    BY <1>1, <2>1, <2>2, StopStepKeepsAgreement
<1>5. QED
  BY <1>2, <1>3, <1>4

\* Orders, stops and trips agree in every reachable state.
THEOREM AgreementHolds == Spec => []Agreement
<1>1. Init => Agreement
  BY DEF Init, Agreement, DispatchedOnce, CompletedIsDelivered, DriverMatchesTrip,
         StartedOnArrival, EventsTellStatus, HasStop, Absent
<1>2. TypeOK /\ Agreement /\ [Next]_vars => Agreement'
  <2> SUFFICES ASSUME TypeOK, Agreement, [Next]_vars PROVE Agreement'
    OBVIOUS
  <2>1. ASSUME NEW o \in Order, NEW b \in BOOLEAN, updateOrderForCompany(o, b)
        PROVE  Agreement'
    BY <2>1 DEF updateOrderForCompany, Agreement, DispatchedOnce, CompletedIsDelivered,
                DriverMatchesTrip, StartedOnArrival, EventsTellStatus, HasStop
  <2>2. CASE UNCHANGED vars
    BY <2>2 DEF vars, Agreement, DispatchedOnce, CompletedIsDelivered,
                DriverMatchesTrip, StartedOnArrival, EventsTellStatus, HasStop
  <2>3. QED
    BY <2>1, <2>2, CreationKeepsAgreement, StatusChangeKeepsAgreement, DeletionKeepsAgreement,
       DispatchKeepsAgreement, RollbackKeepsAgreement, StopOperationKeepsAgreement DEF Next
<1>3. QED
  BY <1>1, <1>2, Typing, PTL DEF Spec

\* No order is ever a stop of two trips, nor PENDING while it is one.
COROLLARY OneStopPerOrder == Spec => []DispatchedOnce
BY AgreementHolds, PTL DEF Agreement

\* The order of a completed stop is delivered.
COROLLARY CompletedStopsAreDelivered == Spec => []CompletedIsDelivered
BY AgreementHolds, PTL DEF Agreement

\* An order's driver is its trip's, and an order on no trip has none.
COROLLARY DriversMatch == Spec => []DriverMatchesTrip
BY AgreementHolds, PTL DEF Agreement

\* A trip arrived at has its start time.
COROLLARY ArrivalStartsTrip == Spec => []StartedOnArrival
BY AgreementHolds, PTL DEF Agreement

\* The last event of an order gives its status, import and rollback aside.
COROLLARY EventsAreTruthful == Spec => []EventsTellStatus
BY AgreementHolds, PTL DEF Agreement

-----------------------------------------------------------------------------
(* The quota. *)

OrderRows == {o \in Order : Exists(o)}

\* The quota counts the rows: no decrement is ever lost at zero, because a row
\* that is deleted was counted.
THEOREM QuotaHolds == Spec => []QuotaCountsOrders
<1> USE OrderAssumption
<1>1. Init => QuotaCountsOrders
  <2>1. Init => OrderRows = {}
    BY DEF Init, OrderRows, Exists
  <2>2. QED
    BY <2>1, FS_EmptySet DEF Init, QuotaCountsOrders, OrderRows
<1>2. TypeOK /\ Agreement /\ QuotaCountsOrders /\ [Next]_vars => QuotaCountsOrders'
  <2> SUFFICES ASSUME TypeOK, Agreement, QuotaCountsOrders, [Next]_vars PROVE QuotaCountsOrders'
    OBVIOUS
  <2>0. IsFiniteSet(OrderRows) /\ ordersThisPeriod = Cardinality(OrderRows)
    BY FS_Subset DEF OrderRows, QuotaCountsOrders
  <2>1. ASSUME OrderRows' = OrderRows, UNCHANGED ordersThisPeriod PROVE QuotaCountsOrders'
    BY <2>0, <2>1 DEF QuotaCountsOrders, OrderRows
  <2>2. ASSUME NEW o \in Order, NEW b \in BOOLEAN, saveNewOrder(o, b) PROVE QuotaCountsOrders'
    <3>1. o \notin OrderRows /\ OrderRows' = OrderRows \cup {o}
      BY <2>2 DEF saveNewOrder, OrderRows, Exists, TypeOK, Absent
    <3>2. Cardinality(OrderRows \cup {o}) = Cardinality(OrderRows) + 1
      BY <2>0, <3>1, FS_AddElement
    <3>3. QED
      BY <2>0, <2>2, <3>1, <3>2 DEF saveNewOrder, incrementOrderCount, QuotaCountsOrders, OrderRows
  <2>3. ASSUME NEW o \in Order, deleteOrderForCompany(o) PROVE QuotaCountsOrders'
    <3>1. o \in OrderRows /\ OrderRows' = OrderRows \ {o}
      BY <2>3 DEF deleteOrderForCompany, deleteOrderRow, OrderRows, Exists, TypeOK,
                  DELETABLE_ORDER_STATUSES, Absent
    <3>2. Cardinality(OrderRows \ {o}) = Cardinality(OrderRows) - 1
      BY <2>0, <3>1, FS_RemoveElement
    <3>3. ordersThisPeriod # 0
      BY <2>0, <3>1, FS_EmptySet
    <3>4. QED
      BY <2>0, <2>3, <3>1, <3>2, <3>3
         DEF deleteOrderForCompany, decrementOrderCount, QuotaCountsOrders, OrderRows
  <2>4. ASSUME NEW o \in Order, NEW s \in OrderStatus, Exists(o), setOrderStatus(o, s)
        PROVE  OrderRows' = OrderRows
    BY <2>4, AbsentIsNoStatus DEF setOrderStatus, OrderRows, Exists, TypeOK
  <2>5. ASSUME NEW o \in Order, NEW s \in OrderStatus, updateOrderStatusForCompany(o, s)
        PROVE  QuotaCountsOrders'
    BY <2>5, <2>4, <2>1 DEF updateOrderStatusForCompany
  <2>6. ASSUME NEW t \in Trip, NEW d \in Driver, NEW S \in SUBSET Order,
               dispatchOrdersToDriver(t, d, S)
        PROVE  QuotaCountsOrders'
    <3>1. OrderRows' = OrderRows
      BY <2>6 DEF dispatchOrdersToDriver, dispatchable, OrderRows, Exists, Absent
    <3>2. QED
      BY <2>6, <3>1, <2>1 DEF dispatchOrdersToDriver
  <2>7. ASSUME NEW t \in Trip, NEW o \in Order,
               arriveAtStop(t, o) \/ completeStop(t, o) \/ skipStop(t, o)
        PROVE  QuotaCountsOrders'
    <3>1. status[o] \in OrderStatus /\ Exists(o)
      BY <2>7 DEF arriveAtStop, completeStop, skipStop, arrivable, completable, skippable,
                  Absent, Agreement, DispatchedOnce, HasStop, Exists, TypeOK
    <3>2. advanceOrderTo(status[o], "in_transit") \in OrderStatus
      BY <3>1, AdvanceKeepsStatus
    <3>3. \E s \in OrderStatus : setOrderStatus(o, s)
      BY <2>7, <3>2 DEF arriveAtStop, completeStop, skipStop, OrderStatus
    <3>4. QED
      BY <2>7, <3>1, <3>3, <2>4, <2>1 DEF arriveAtStop, completeStop, skipStop
  <2>8. ASSUME NEW o \in Order, NEW b \in BOOLEAN, updateOrderForCompany(o, b)
        PROVE  QuotaCountsOrders'
    BY <2>8, <2>1 DEF updateOrderForCompany, OrderRows, Exists
  <2>9. ASSUME NEW S \in SUBSET Order, dispatchRollsBack(S)
        PROVE  QuotaCountsOrders'
    BY <2>9, <2>1 DEF dispatchRollsBack, OrderRows, Exists
  <2>10. CASE UNCHANGED vars
    BY <2>10, <2>1 DEF vars, OrderRows, Exists
  <2>11. QED
    BY <2>2, <2>3, <2>5, <2>6, <2>7, <2>8, <2>9, <2>10
       DEF Next, createOrder, importOrdersFromCsv
<1>3. QED
  BY <1>1, <1>2, Typing, AgreementHolds, PTL DEF Spec

-----------------------------------------------------------------------------
(* What a step may never do. *)

\* A delivered order is out of reach of every operation: the table has no move
\* from DELIVERED, the row is not deletable, and a stop can only be arrived at.
THEOREM DeliveryIsFinal == Spec => DeliveredForGood
<1>1. TypeOK /\ [Next]_vars => \A o \in Order : status[o] = "delivered" => status'[o] = "delivered"
  <2> SUFFICES ASSUME TypeOK, [Next]_vars, NEW o \in Order, status[o] = "delivered"
               PROVE  status'[o] = "delivered"
    OBVIOUS
  <2> USE DEF TypeOK
  <2>0. /\ ALLOWED_ORDER_STATUS_TRANSITIONS[status[o]] = {}
        /\ advanceOrderTo(status[o], "in_transit") = status[o]
        /\ status[o] \notin DELETABLE_ORDER_STATUSES
        /\ status[o] # Absent /\ status[o] # "pending"
    BY DEF ALLOWED_ORDER_STATUS_TRANSITIONS, advanceOrderTo, ORDER_PROGRESSION,
           DELETABLE_ORDER_STATUSES, Absent
  <2>1. ASSUME NEW p \in Order, NEW b \in BOOLEAN,
               createOrder(p, b) \/ importOrdersFromCsv(p, b) \/ updateOrderForCompany(p, b)
        PROVE  status'[o] = "delivered"
    BY <2>0, <2>1 DEF createOrder, importOrdersFromCsv, updateOrderForCompany, saveNewOrder, Exists
  <2>2. ASSUME NEW p \in Order, NEW s \in OrderStatus, updateOrderStatusForCompany(p, s)
        PROVE  status'[o] = "delivered"
    BY <2>0, <2>2 DEF updateOrderStatusForCompany, setOrderStatus
  <2>3. ASSUME NEW p \in Order, deleteOrderForCompany(p)
        PROVE  status'[o] = "delivered"
    BY <2>0, <2>3 DEF deleteOrderForCompany, deleteOrderRow
  <2>4. ASSUME NEW S \in SUBSET Order, NEW t \in Trip, NEW d \in Driver,
               dispatchOrdersToDriver(t, d, S)
        PROVE  status'[o] = "delivered"
    BY <2>0, <2>4 DEF dispatchOrdersToDriver, dispatchable
  <2>5. ASSUME NEW t \in Trip, NEW p \in Order,
               arriveAtStop(t, p) \/ completeStop(t, p) \/ skipStop(t, p)
        PROVE  status'[o] = "delivered"
    BY <2>0, <2>5 DEF arriveAtStop, completeStop, skipStop, setOrderStatus, orderCanBecome
  <2>6. ASSUME NEW S \in SUBSET Order, dispatchRollsBack(S)
        PROVE  status'[o] = "delivered"
    BY <2>6 DEF dispatchRollsBack
  <2>7. CASE UNCHANGED vars
    BY <2>7 DEF vars
  <2>8. QED
    BY <2>1, <2>2, <2>3, <2>4, <2>5, <2>6, <2>7 DEF Next
<1>2. QED
  BY <1>1, Typing, PTL DEF Spec, DeliveredForGood

\* A trip all of whose stops are resolved stays so: a stop only leaves a
\* resolved status with its order's row, and a dispatch makes a trip of its own.
THEOREM CompletionIsFinal == Spec => TripStaysCompleted
<1>1. TypeOK /\ [Next]_vars =>
        \A t \in Trip : tripDriver[t] # NoDriver /\ deriveTripStatus(StopsOf(t)) = "completed"
                        => deriveTripStatus(StopsOf(t))' = "completed"
  <2> SUFFICES ASSUME TypeOK, [Next]_vars, NEW t \in Trip, tripDriver[t] # NoDriver,
                      deriveTripStatus(StopsOf(t)) = "completed"
               PROVE  deriveTripStatus(StopsOf(t))' = "completed"
    OBVIOUS
  <2>a. \A S : deriveTripStatus(S) = "completed" <=> S \subseteq RESOLVED_STATUSES
    BY DEF deriveTripStatus
  <2>b. \A o \in Order : stop[t][o] \in RESOLVED_STATUSES \cup {Absent}
    BY <2>a DEF StopsOf
  <2> SUFFICES ASSUME NEW o \in Order PROVE stop'[t][o] \in RESOLVED_STATUSES \cup {Absent}
    <3>1. (\A o \in Order : stop'[t][o] \in RESOLVED_STATUSES \cup {Absent})
            => StopsOf(t)' \subseteq RESOLVED_STATUSES
      BY DEF StopsOf
    <3>2. StopsOf(t)' \subseteq RESOLVED_STATUSES => deriveTripStatus(StopsOf(t))' = "completed"
      BY DEF deriveTripStatus
    <3>3. QED
      BY <3>1, <3>2
  <2> USE DEF TypeOK
  <2>1. ASSUME NEW p \in Order, NEW b \in BOOLEAN,
               createOrder(p, b) \/ importOrdersFromCsv(p, b) \/ updateOrderForCompany(p, b)
        PROVE  stop' = stop
    BY <2>1 DEF createOrder, importOrdersFromCsv, updateOrderForCompany, saveNewOrder
  <2>2. ASSUME NEW p \in Order, NEW s \in OrderStatus, updateOrderStatusForCompany(p, s)
        PROVE  stop' = stop
    BY <2>2 DEF updateOrderStatusForCompany
  <2>3. ASSUME NEW p \in Order, deleteOrderForCompany(p)
        PROVE  stop'[t][o] \in {stop[t][o], Absent}
    BY <2>3 DEF deleteOrderForCompany
  <2>4. ASSUME NEW S \in SUBSET Order, NEW u \in Trip, NEW d \in Driver,
               dispatchOrdersToDriver(u, d, S) \/ dispatchRollsBack(S)
        PROVE  stop'[t][o] = stop[t][o]
    BY <2>4 DEF dispatchOrdersToDriver, dispatchRollsBack
  <2>5. ASSUME NEW u \in Trip, NEW p \in Order, arriveAtStop(u, p)
        PROVE  stop'[t][o] = stop[t][o]
    <3>1. stop[u][p] \notin RESOLVED_STATUSES \cup {Absent}
      BY <2>5 DEF arriveAtStop, arrivable, RESOLVED_STATUSES, Absent
    <3>2. QED
      BY <2>b, <2>5, <3>1 DEF arriveAtStop
  <2>6. ASSUME NEW u \in Trip, NEW p \in Order, completeStop(u, p) \/ skipStop(u, p)
        PROVE  stop'[t][o] \in RESOLVED_STATUSES \cup {stop[t][o]}
    BY <2>6 DEF completeStop, skipStop, RESOLVED_STATUSES
  <2>7. CASE UNCHANGED vars
    BY <2>b, <2>7 DEF vars
  <2>8. QED
    BY <2>b, <2>1, <2>2, <2>3, <2>4, <2>5, <2>6, <2>7 DEF Next
<1>2. QED
  BY <1>1, Typing, PTL DEF Spec, TripStaysCompleted

\* The one to three moves of the stop operations are a walk in the table.
LEMMA StopMovesWalkTable ==
  ASSUME NEW s \in OrderStatus
  PROVE  /\ ALLOWED_ORDER_STATUS_TRANSITIONS[s] \subseteq Walk(s)
         /\ s # "pending" => advanceOrderTo(s, "in_transit") \in Walk(s) \cup {s}
         /\ ALLOWED_ORDER_STATUS_TRANSITIONS[advanceOrderTo(s, "in_transit")] \subseteq Walk(s)
<1> DEFINE table == ALLOWED_ORDER_STATUS_TRANSITIONS
<1>1. ASSUME NEW S, NEW x \in S, NEW r \in table[x] PROVE r \in Moves(S)
  BY <1>1 DEF Moves
<1>2. table[s] \subseteq Moves({s}) /\ Moves({s}) \subseteq Walk(s)
  BY <1>1 DEF Walk
<1>3. CASE s \notin {"assigned", "picked_up"}
  <2>1. s # "pending" => advanceOrderTo(s, "in_transit") = s
    BY <1>3, AdvanceKeepsStatus
  <2>2. s = "pending" => advanceOrderTo(s, "in_transit") = s
    BY DEF advanceOrderTo, ORDER_PROGRESSION
  <2>3. QED
    BY <1>2, <2>1, <2>2
<1>4. CASE s = "picked_up"
  <2>1. advanceOrderTo(s, "in_transit") = "in_transit"
    BY <1>4 DEF advanceOrderTo, ORDER_PROGRESSION
  <2>2. "in_transit" \in table[s]
    BY <1>4 DEF ALLOWED_ORDER_STATUS_TRANSITIONS
  <2>3. table["in_transit"] \subseteq Moves(Moves({s}))
    BY <1>1, <1>2, <2>2
  <2>4. QED
    BY <1>2, <2>1, <2>2, <2>3 DEF Walk
<1>5. CASE s = "assigned"
  <2>1. advanceOrderTo(s, "in_transit") = "in_transit"
    BY <1>5 DEF advanceOrderTo, ORDER_PROGRESSION
  <2>2. "picked_up" \in table[s] /\ "in_transit" \in table["picked_up"]
    BY <1>5 DEF ALLOWED_ORDER_STATUS_TRANSITIONS
  <2>3. "in_transit" \in Moves(Moves({s}))
    BY <1>1, <1>2, <2>2
  <2>4. table["in_transit"] \subseteq Moves(Moves(Moves({s})))
    BY <1>1, <2>3
  <2>5. QED
    BY <1>2, <2>1, <2>3, <2>4 DEF Walk
<1>6. QED
  BY <1>3, <1>4, <1>5

\* No operation takes an order off the table.
THEOREM TableIsWalked == Spec => StatusWalksTable
<1> DEFINE Walked(o) == Exists(o) /\ status'[o] \notin {status[o], Absent}
                          => status'[o] \in Walk(status[o])
<1>1. TypeOK /\ Agreement /\ [Next]_vars => \A o \in Order : Walked(o)
  <2> SUFFICES ASSUME TypeOK, Agreement, [Next]_vars, NEW o \in Order PROVE Walked(o)
    OBVIOUS
  <2> USE DEF TypeOK
  <2>0. Exists(o) => status[o] \in OrderStatus
    BY DEF Exists
  <2>1. ASSUME NEW p \in Order, NEW b \in BOOLEAN,
               createOrder(p, b) \/ importOrdersFromCsv(p, b) \/ updateOrderForCompany(p, b)
        PROVE  Walked(o)
    BY <2>1 DEF createOrder, importOrdersFromCsv, updateOrderForCompany, saveNewOrder, Exists
  <2>2. ASSUME NEW p \in Order, NEW s \in OrderStatus, updateOrderStatusForCompany(p, s)
        PROVE  Walked(o)
    BY <2>0, <2>2, StopMovesWalkTable DEF updateOrderStatusForCompany, setOrderStatus
  <2>3. ASSUME NEW p \in Order, deleteOrderForCompany(p) PROVE Walked(o)
    BY <2>3 DEF deleteOrderForCompany, deleteOrderRow
  <2>4. ASSUME NEW S \in SUBSET Order, NEW t \in Trip, NEW d \in Driver,
               dispatchOrdersToDriver(t, d, S)
        PROVE  Walked(o)
    <3>1. o \in S => status[o] = "pending" /\ status'[o] = "assigned"
      BY <2>4 DEF dispatchOrdersToDriver, dispatchable
    <3>2. o \notin S => status'[o] = status[o]
      BY <2>4 DEF dispatchOrdersToDriver
    <3>3. "assigned" \in ALLOWED_ORDER_STATUS_TRANSITIONS["pending"] /\ "pending" \in OrderStatus
      BY DEF ALLOWED_ORDER_STATUS_TRANSITIONS, OrderStatus
    <3>4. QED
      BY <3>1, <3>2, <3>3, StopMovesWalkTable
  <2>5. ASSUME NEW S \in SUBSET Order, dispatchRollsBack(S) PROVE Walked(o)
    BY <2>5 DEF dispatchRollsBack
  <2>6. ASSUME NEW t \in Trip, NEW p \in Order,
               arriveAtStop(t, p) \/ completeStop(t, p) \/ skipStop(t, p)
        PROVE  Walked(o)
    <3>1. status[p] \in OrderStatus \ {"pending"}
      BY <2>6 DEF arriveAtStop, completeStop, skipStop, arrivable, completable, skippable, Absent,
                  Agreement, DispatchedOnce, HasStop
    <3>2. /\ advanceOrderTo(status[p], "in_transit") \in Walk(status[p]) \cup {status[p]}
          /\ ALLOWED_ORDER_STATUS_TRANSITIONS[advanceOrderTo(status[p], "in_transit")]
               \subseteq Walk(status[p])
      BY <3>1, StopMovesWalkTable
    <3>3. \E s \in Walk(status[p]) \cup {status[p]} : setOrderStatus(p, s)
      BY <2>6, <3>2 DEF arriveAtStop, completeStop, skipStop, orderCanBecome
    <3>4. QED
      BY <3>3 DEF setOrderStatus
  <2>7. CASE UNCHANGED vars
    BY <2>7 DEF vars
  <2>8. QED
    BY <2>1, <2>2, <2>3, <2>4, <2>5, <2>6, <2>7 DEF Next
<1>2. QED
  BY <1>1, Typing, AgreementHolds, PTL DEF Spec, StatusWalksTable
=============================================================================
