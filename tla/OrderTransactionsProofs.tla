------------------------ MODULE OrderTransactionsProofs ------------------------
(***************************************************************************)
(* What holds of the transactions of orders, trips and stops for any       *)
(* number of them at a time: a row has one writer, a deadlock needs a      *)
(* dispatch, a request's steps run out, an order has the outcome of its    *)
(* stop; and that one at a time the requests are Dispatch.                 *)
(***************************************************************************)
EXTENDS OrderTransactions, FiniteSetTheorems, SequenceTheorems, TLAPS

\* The orders a request has yet to deal with, and the rows it has written.
Lists == {<<o>> : o \in Order} \cup {<<o, p>> : o, p \in Order}
Rows == UNION {[S -> Row] : S \in SUBSET Order}

Work ==
  [kind : Kind \ {"create"},
   pc : {"find", "select", "update", "commit", "remove", "check", "place", "commitDispatch",
         "stop", "advance", "selectStop", "updateStop"},
   trip : Trip \cup {""}, orders : Lists, hops : Seq(OrderStatus),
   arg : BOOLEAN \cup Driver, entity : Row, selected : Row,
   stopSelected : StopStatus \cup {Absent}, own : Rows, placed : SUBSET Order]

\* Where a request of each kind can be.
Course(q) ==
  /\ q.kind = "edit" => q.arg \in BOOLEAN
  /\ q.kind \in {"patch", "edit"} => q.pc \in {"find", "select", "update", "commit"}
  /\ q.kind = "delete" => q.pc \in {"find", "remove"}
  /\ q.kind = "dispatch" =>
       /\ q.pc \in {"check", "find", "select", "update", "place", "commitDispatch"}
       /\ q.trip \in Trip /\ q.arg \in Driver
  /\ q.kind \in {"arrive", "complete", "skip"} =>
       /\ q.pc \in {"stop", "advance", "find", "select", "update", "selectStop", "updateStop"}
       /\ q.trip \in Trip

Shape ==
  /\ order \in [Order -> Row]
  /\ tripDriver \in [Trip -> Driver \cup {NoDriver}]
  /\ startedAt \in [Trip -> BOOLEAN]
  /\ stop \in [Trip -> [Order -> StopStatus \cup {Absent}]]
  /\ ordersThisPeriod \in 0..OrderLimit
  /\ repeated \subseteq Order
  /\ request \in [Request -> Work \cup {Idle}]
  /\ \A w \in Request : Active(w) => Course(request[w])

\* A dispatch has placed only orders that are no stop yet, and no other has placed them.
Alone ==
  \A w \in Request : Active(w) =>
    /\ request[w].kind # "dispatch" => request[w].placed = {}
    /\ \A o \in request[w].placed :
         ~HasStop(o) /\ \A v \in Request \ {w} : ~Places(v, o)


-----------------------------------------------------------------------------
(* The operators *)

LEMMA Words ==
  /\ Absent \notin OrderStatus /\ Absent \notin StopStatus
  /\ \A s \in OrderStatus : ALLOWED_ORDER_STATUS_TRANSITIONS[s] \subseteq OrderStatus
BY DEF Absent, OrderStatus, StopStatus, ALLOWED_ORDER_STATUS_TRANSITIONS

LEMMA ListFacts ==
  ASSUME NEW l \in Lists
  PROVE  /\ Head(l) \in Order /\ Head(l) = l[1] /\ 1 \in DOMAIN l
         /\ \A i \in DOMAIN l : l[i] \in Order
         /\ Len(l) > 1 => /\ Tail(l) \in Lists
                          /\ \A i \in DOMAIN Tail(l) : \E j \in DOMAIN l : Tail(l)[i] = l[j]
<1>1. \A a : /\ Head(<<a>>) = a /\ DOMAIN <<a>> = {1} /\ <<a>>[1] = a /\ Len(<<a>>) = 1
  OBVIOUS
<1>2. \A a, b : /\ Head(<<a, b>>) = a /\ DOMAIN <<a, b>> = {1, 2} /\ <<a, b>>[1] = a
                /\ <<a, b>>[2] = b /\ Len(<<a, b>>) = 2 /\ Tail(<<a, b>>) = <<b>>
  OBVIOUS
<1>3. CASE \E a \in Order : l = <<a>>
  BY <1>1, <1>3
<1>4. CASE \E a, b \in Order : l = <<a, b>>
  <2>1. PICK a \in Order, b \in Order : l = <<a, b>>
    BY <1>4
  <2>2. Tail(l) = <<b>> /\ <<b>> \in Lists
    BY <1>2, <2>1 DEF Lists
  <2>3. \A i \in DOMAIN Tail(l) : Tail(l)[i] = l[2] /\ 2 \in DOMAIN l
    BY <1>1, <1>2, <2>1, <2>2
  <2>4. QED
    BY <1>2, <2>1, <2>2, <2>3
<1>5. QED
  BY <1>3, <1>4 DEF Lists

LEMMA HopFacts ==
  ASSUME NEW S, NEW l \in Seq(S)
  PROVE  /\ l # <<>> => Head(l) \in S
         /\ Len(l) > 1 => Tail(l) \in Seq(S) /\ Tail(l) # <<>>
<1>1. l # <<>> => /\ Head(l) \in S /\ Tail(l) \in Seq(S)
                  /\ Len(Tail(l)) = Len(l) - 1
  BY HeadTailProperties
<1>2. Len(l) > 1 => l # <<>> /\ Len(l) \in Nat
  OBVIOUS
<1>3. Tail(l) = <<>> => Len(Tail(l)) = 0
  <2>1. Len(<<>>) = 0
    OBVIOUS
  <2>2. QED
    BY <2>1
<1>4. QED
  BY <1>1, <1>2, <1>3

LEMMA Starting ==
  /\ \A o \in Order : <<o>> \in Lists /\ Head(<<o>>) = o
  /\ \A o, p \in Order : <<o, p>> \in Lists /\ Head(<<o, p>>) = o
BY DEF Lists

LEMMA RowFacts ==
  /\ NoRow \in Row
  /\ \A row \in Row : row.status = Absent \/ row.status \in OrderStatus
  /\ \A row \in Row : row.driver \in Driver \cup {NoDriver} /\ row.scheduled \in BOOLEAN
  /\ \A row \in Row : row.status # Absent => row # NoRow
BY DEF NoRow, Row

\* A save writes what the entity differs in.
LEMMA Merging ==
  ASSUME NEW q, q.entity \in Row, q.selected \in Row, NEW row \in Row
  PROVE  /\ merged(q, row) \in Row
         /\ merged(q, row).status =
              IF q.entity.status # q.selected.status THEN q.entity.status ELSE row.status
         /\ merged(q, row).driver =
              IF q.entity.driver # q.selected.driver THEN q.entity.driver ELSE row.driver
<1>1. DOMAIN row = {"status", "scheduled", "driver"}
  BY DEF Row
<1>2. merged(q, row) =
        [status |-> IF q.entity.status # q.selected.status THEN q.entity.status ELSE row.status,
         scheduled |-> IF q.entity.scheduled # q.selected.scheduled
                       THEN q.entity.scheduled ELSE row.scheduled,
         driver |-> IF q.entity.driver # q.selected.driver THEN q.entity.driver ELSE row.driver]
  BY <1>1 DEF merged
<1>3. /\ q.entity.status \in OrderStatus \cup {Absent} /\ row.status \in OrderStatus \cup {Absent}
      /\ q.entity.scheduled \in BOOLEAN /\ row.scheduled \in BOOLEAN
      /\ q.entity.driver \in Driver \cup {NoDriver} /\ row.driver \in Driver \cup {NoDriver}
  BY DEF Row
<1>4. QED
  BY <1>2, <1>3 DEF Row

LEMMA Changing ==
  ASSUME NEW q \in Work, Course(q), NEW row \in Row, accepts(q, row), q.pc = "find"
  PROVE  /\ changed(q, row) \in Row
         /\ row.status # Absent
         /\ q.kind = "dispatch" => /\ changed(q, row).status = "assigned"
                                   /\ changed(q, row).driver = q.arg
                                   /\ Head(q.hops) \in ALLOWED_ORDER_STATUS_TRANSITIONS[row.status]
         /\ q.kind \in {"arrive", "complete", "skip"} =>
              /\ changed(q, row).status = Head(q.hops)
              /\ changed(q, row).driver = row.driver
              /\ Head(q.hops) \in ALLOWED_ORDER_STATUS_TRANSITIONS[row.status]
<1>1. row.status # Absent /\ row.status \in OrderStatus
  BY RowFacts DEF accepts
<1>2. CASE q.kind = "edit"
  <2>1. changed(q, row) = [row EXCEPT !.scheduled = q.arg] /\ q.arg \in BOOLEAN
    BY <1>2 DEF changed, Course
  <2>2. QED
    BY <1>1, <1>2, <2>1 DEF Row
<1>3. CASE q.kind = "delete"
  BY <1>1, <1>3 DEF changed
<1>4. CASE q.kind = "dispatch"
  BY <1>1, <1>4 DEF changed, accepts, Row, Course, OrderStatus
<1>5. CASE q.kind \notin {"edit", "delete", "dispatch"}
  <2>1. /\ Head(q.hops) \in ALLOWED_ORDER_STATUS_TRANSITIONS[row.status]
        /\ changed(q, row) = [row EXCEPT !.status = Head(q.hops)]
    BY <1>5 DEF accepts, changed
  <2>2. Head(q.hops) \in OrderStatus
    BY <1>1, <2>1, Words
  <2>3. QED
    BY <1>1, <1>5, <2>1, <2>2 DEF Row
<1>6. QED
  BY <1>2, <1>3, <1>4, <1>5

-----------------------------------------------------------------------------
(* The steps, by what becomes of the request that takes them. *)

Others(w) == \A v \in Request \ {w} : request'[v] = request[v]

Ends(w) == request'[w] = Idle /\ Others(w)

\* The request is still at work, for the same thing.
Continues(w) ==
  /\ Others(w)
  /\ request'[w] \in Work /\ Course(request'[w])
  /\ request'[w].kind = request[w].kind /\ request'[w].trip = request[w].trip
  /\ request'[w].arg = request[w].arg

SameList(w) == request'[w].orders = request[w].orders
SameRows(w) == request'[w].own = request[w].own /\ request'[w].placed = request[w].placed
SameHops(w) == request'[w].hops = request[w].hops

LEMMA NotIdle == \A x \in Work : x # Idle
<1>1. ASSUME NEW x \in Work PROVE x.pc # "idle"
  BY DEF Work
<1>2. Idle.pc = "idle"
  BY DEF Idle
<1>3. QED
  BY <1>1, <1>2

LEMMA Working ==
  ASSUME Shape, NEW w \in Request, Active(w)
  PROVE  /\ request[w] \in Work /\ Course(request[w])
         /\ here(w) \in Order /\ request[w].own \in Rows
         /\ \A o \in Order : Seen(w, o) \in Row
         /\ DOMAIN request[w].own \subseteq Order
         /\ \A o \in DOMAIN request[w].own : request[w].own[o] \in Row
<1>1. request[w] \in Work /\ Course(request[w])
  BY DEF Shape, Active, Idle
<1>2. here(w) \in Order
  BY <1>1, ListFacts DEF Work, here
<1>3. request[w].own \in Rows
  BY <1>1 DEF Work
<1>4. PICK S \in SUBSET Order : request[w].own \in [S -> Row]
  BY <1>3 DEF Rows
<1>5. \A o \in Order : Seen(w, o) \in Row
  BY <1>4 DEF Seen, Shape
<1>6. QED
  BY <1>1, <1>2, <1>3, <1>4, <1>5

LEMMA Becoming ==
  ASSUME Shape, NEW w \in Request, NEW x, request' = [request EXCEPT ![w] = x]
  PROVE  request'[w] = x /\ Others(w)
BY DEF Shape, Others

LEMMA RollingBack ==
  ASSUME Shape, NEW w \in Request, rollback(w)
  PROVE  Ends(w) /\ UNCHANGED <<order, tripDriver, startedAt, stop, ordersThisPeriod, repeated>>
BY Becoming DEF rollback, Goes, Starts, database, Ends

LEMMA Finding ==
  ASSUME Shape, NEW w \in Request, findOrder(w)
  PROVE  /\ UNCHANGED <<order, tripDriver, startedAt, stop, ordersThisPeriod, repeated>>
         /\ Active(w) /\ At(w, "find")
         /\ \/ Ends(w)
            \/ /\ Continues(w) /\ SameList(w) /\ SameRows(w) /\ SameHops(w)
               /\ accepts(request[w], Seen(w, here(w)))
               /\ request'[w].entity = changed(request[w], Seen(w, here(w)))
               /\ request'[w].pc = IF request[w].kind = "delete" THEN "remove" ELSE "select"
<1> DEFINE row == Seen(w, here(w))
           x == [request[w] EXCEPT !.entity = changed(request[w], row),
                                   !.pc = IF request[w].kind = "delete" THEN "remove" ELSE "select"]
<1>1. Active(w) /\ At(w, "find") /\ request[w].pc = "find"
  BY DEF findOrder, At, Active
<1>2. CASE ~accepts(request[w], row)
  <2>1. rollback(w)
    BY <1>2 DEF findOrder
  <2>2. QED
    BY <1>1, <2>1, RollingBack
<1>3. CASE accepts(request[w], row)
  <2>1. /\ request' = [request EXCEPT ![w] = x]
        /\ UNCHANGED <<order, tripDriver, startedAt, stop, ordersThisPeriod, repeated>>
    BY <1>3 DEF findOrder, Goes, Starts, database
  <2>2. request'[w] = x /\ Others(w)
    <3> HIDE DEF x
    <3> QED BY <2>1, Becoming
  <2>3. request[w] \in Work /\ Course(request[w]) /\ row \in Row
    BY <1>1, Working
  <2>4. changed(request[w], row) \in Row
    BY <1>1, <1>3, <2>3, Changing
  <2>5. /\ x \in Work /\ x.kind = request[w].kind /\ x.trip = request[w].trip
        /\ x.arg = request[w].arg /\ x.orders = request[w].orders /\ x.own = request[w].own
        /\ x.placed = request[w].placed /\ x.hops = request[w].hops
        /\ x.entity = changed(request[w], row)
        /\ x.pc = IF request[w].kind = "delete" THEN "remove" ELSE "select"
    BY ZenonT(60), <2>3, <2>4 DEF Work
  <2>6. Course(x)
    BY ZenonT(60), <1>1, <2>3, <2>5 DEF Course, Work
  <2>7. QED
    BY <1>1, <1>3, <2>1, <2>2, <2>5, <2>6 DEF Continues, SameList, SameRows, SameHops
<1>4. QED
  BY <1>2, <1>3

LEMMA Selecting ==
  ASSUME Shape, NEW w \in Request, selectOrder(w)
  PROVE  /\ UNCHANGED <<order, tripDriver, startedAt, stop, ordersThisPeriod, repeated>>
         /\ Active(w) /\ At(w, "select")
         /\ Continues(w) /\ SameList(w) /\ SameRows(w) /\ SameHops(w)
         /\ request'[w].entity = request[w].entity
         /\ request'[w].selected = Seen(w, here(w))
         /\ request'[w].pc = "update"
<1> DEFINE x == [request[w] EXCEPT !.selected = Seen(w, here(w)), !.pc = "update"]
<1>1. Active(w) /\ At(w, "select") /\ request[w].pc = "select"
  BY DEF selectOrder, At, Active
<1>2. /\ request' = [request EXCEPT ![w] = x]
      /\ UNCHANGED <<order, tripDriver, startedAt, stop, ordersThisPeriod, repeated>>
  BY DEF selectOrder, Goes, Starts, database
<1>3. request'[w] = x /\ Others(w)
  <2> HIDE DEF x
  <2> QED BY <1>2, Becoming
<1>4. request[w] \in Work /\ Course(request[w]) /\ Seen(w, here(w)) \in Row
  BY <1>1, Working
<1>5. /\ x \in Work /\ x.kind = request[w].kind /\ x.trip = request[w].trip
      /\ x.arg = request[w].arg /\ x.orders = request[w].orders /\ x.own = request[w].own
      /\ x.placed = request[w].placed /\ x.hops = request[w].hops
      /\ x.entity = request[w].entity /\ x.selected = Seen(w, here(w)) /\ x.pc = "update"
  BY <1>4 DEF Work
<1>6. Course(x)
  BY <1>1, <1>4, <1>5 DEF Course, Work
<1>7. QED
  BY <1>1, <1>2, <1>3, <1>5, <1>6 DEF Continues, SameList, SameRows, SameHops

LEMMA AfterSave ==
  ASSUME NEW q \in Work, Course(q), q.pc = "update"
  PROVE  LET x == afterSave(q) IN
         /\ x \in Work /\ Course(x)
         /\ x.kind = q.kind /\ x.trip = q.trip /\ x.arg = q.arg /\ x.orders = q.orders
         /\ x.own = q.own /\ x.placed = q.placed
         /\ q.kind = "dispatch" => x.pc = "place" /\ x.hops = q.hops
         /\ q.kind \in {"patch", "edit"} => x.pc = "commit" /\ x.hops = q.hops
         /\ q.kind \in {"arrive", "complete", "skip"} =>
              IF Len(q.hops) > 1 THEN x.pc = "find" /\ x.hops = Tail(q.hops)
                                 ELSE x.pc = "selectStop" /\ x.hops = q.hops
<1> DEFINE y == [q EXCEPT !.entity = NoRow, !.selected = NoRow]
<1>1. /\ y \in Work /\ y.kind = q.kind /\ y.trip = q.trip /\ y.arg = q.arg
      /\ y.orders = q.orders /\ y.own = q.own /\ y.placed = q.placed /\ y.hops = q.hops
  BY RowFacts DEF Work
<1>2. DOMAIN lastHop = {"arrive", "complete", "skip"}
  BY DEF lastHop
<1>3. q.kind \in {"dispatch", "patch", "edit", "arrive", "complete", "skip"}
  BY KindAssumption DEF Course, Work
<1>4. CASE q.kind = "dispatch"
  <2> DEFINE z == [y EXCEPT !.pc = "place"]
  <2>1. afterSave(q) = z
    BY <1>1, <1>2, <1>4 DEF afterSave
  <2>2. /\ z \in Work /\ z.kind = q.kind /\ z.trip = q.trip /\ z.arg = q.arg /\ z.pc = "place"
        /\ z.orders = q.orders /\ z.own = q.own /\ z.placed = q.placed /\ z.hops = q.hops
    <3> HIDE DEF y
    <3> QED BY <1>1 DEF Work
  <2>3. Course(z)
    BY <1>4, <2>2 DEF Course
  <2>4. QED
    BY <1>4, <2>1, <2>2, <2>3
<1>5. CASE q.kind \in {"patch", "edit"}
  <2> DEFINE z == [y EXCEPT !.pc = "commit"]
  <2>1. afterSave(q) = z
    BY <1>1, <1>2, <1>5 DEF afterSave
  <2>2. /\ z \in Work /\ z.kind = q.kind /\ z.trip = q.trip /\ z.arg = q.arg /\ z.pc = "commit"
        /\ z.orders = q.orders /\ z.own = q.own /\ z.placed = q.placed /\ z.hops = q.hops
    <3> HIDE DEF y
    <3> QED BY <1>1 DEF Work
  <2>3. Course(z)
    BY <1>5, <2>2 DEF Course
  <2>4. QED
    BY <1>5, <2>1, <2>2, <2>3
<1>6. CASE q.kind \in {"arrive", "complete", "skip"} /\ Len(q.hops) > 1
  <2> DEFINE z == [y EXCEPT !.pc = "find", !.hops = Tail(@)]
  <2>1. afterSave(q) = z
    BY <1>1, <1>2, <1>6 DEF afterSave
  <2>2. q.hops \in Seq(OrderStatus) /\ Tail(q.hops) \in Seq(OrderStatus)
    BY <1>6, HopFacts DEF Work
  <2>3. /\ z \in Work /\ z.kind = q.kind /\ z.trip = q.trip /\ z.arg = q.arg /\ z.pc = "find"
        /\ z.orders = q.orders /\ z.own = q.own /\ z.placed = q.placed /\ z.hops = Tail(q.hops)
    <3> HIDE DEF y
    <3> QED BY <1>1, <2>2 DEF Work
  <2>4. Course(z)
    BY <1>6, <2>3 DEF Course
  <2>5. QED
    BY <1>6, <2>1, <2>3, <2>4
<1>7. CASE q.kind \in {"arrive", "complete", "skip"} /\ ~(Len(q.hops) > 1)
  <2> DEFINE z == [y EXCEPT !.pc = "selectStop"]
  <2>1. afterSave(q) = z
    BY <1>1, <1>2, <1>7 DEF afterSave
  <2>2. /\ z \in Work /\ z.kind = q.kind /\ z.trip = q.trip /\ z.arg = q.arg
        /\ z.pc = "selectStop"
        /\ z.orders = q.orders /\ z.own = q.own /\ z.placed = q.placed /\ z.hops = q.hops
    <3> HIDE DEF y
    <3> QED BY <1>1 DEF Work
  <2>3. Course(z)
    BY <1>7, <2>2 DEF Course
  <2>4. QED
    BY <1>7, <2>1, <2>2, <2>3
<1>8. QED
  BY <1>3, <1>4, <1>5, <1>6, <1>7

\* A write adds one row to those of the transaction.
LEMMA Writing ==
  ASSUME NEW q \in Work, Course(q), NEW o \in Order, NEW row \in Row
  PROVE  LET x == writes(q, o, row) IN
         /\ x \in Work /\ Course(x)
         /\ x.kind = q.kind /\ x.trip = q.trip /\ x.arg = q.arg /\ x.orders = q.orders
         /\ x.placed = q.placed /\ x.hops = q.hops /\ x.pc = q.pc
         /\ DOMAIN x.own = DOMAIN q.own \cup {o}
         /\ x.own[o] = row
         /\ \A p \in DOMAIN q.own \ {o} : x.own[p] = q.own[p]
<1> DEFINE own == [p \in DOMAIN q.own \cup {o} |-> IF p = o THEN row ELSE q.own[p]]
           x == [q EXCEPT !.own = own]
<1>1. PICK S \in SUBSET Order : q.own \in [S -> Row]
  BY DEF Work, Rows
<1>2. own \in [S \cup {o} -> Row] /\ DOMAIN q.own = S
  BY <1>1
<1>3. own \in Rows
  <2> HIDE DEF own
  <2> QED BY <1>2 DEF Rows
<1>4. /\ DOMAIN own = DOMAIN q.own \cup {o} /\ own[o] = row
      /\ \A p \in DOMAIN q.own \ {o} : own[p] = q.own[p]
  OBVIOUS
<1>5. /\ x \in Work /\ x.kind = q.kind /\ x.trip = q.trip /\ x.arg = q.arg
      /\ x.orders = q.orders /\ x.placed = q.placed /\ x.hops = q.hops /\ x.pc = q.pc
      /\ x.own = own
  <2> HIDE DEF own
  <2> QED BY <1>3 DEF Work
<1>6. Course(x)
  BY <1>5 DEF Course
<1>7. x = writes(q, o, row)
  BY DEF writes
<1>8. QED
  <2> HIDE DEF own, x
  <2> QED BY <1>4, <1>5, <1>6, <1>7

\* What a save has written.
SavedRow(w, row) ==
  /\ DOMAIN request'[w].own = DOMAIN request[w].own \cup {here(w)}
  /\ request'[w].own[here(w)] = row
  /\ \A p \in DOMAIN request[w].own \ {here(w)} : request'[w].own[p] = request[w].own[p]

Resumes(w) ==
  /\ Continues(w) /\ SameList(w) /\ request'[w].placed = request[w].placed
  /\ request[w].kind = "dispatch" => request'[w].pc = "place" /\ SameHops(w)
  /\ request[w].kind \in {"patch", "edit"} => request'[w].pc = "commit" /\ SameHops(w)
  /\ request[w].kind \in {"arrive", "complete", "skip"} =>
       IF Len(request[w].hops) > 1
       THEN request'[w].pc = "find" /\ request'[w].hops = Tail(request[w].hops)
       ELSE request'[w].pc = "selectStop" /\ SameHops(w)

LEMMA Updating ==
  ASSUME Shape, NEW w \in Request, updateOrder(w)
  PROVE  /\ UNCHANGED <<order, tripDriver, startedAt, stop, ordersThisPeriod, repeated>>
         /\ Active(w) /\ At(w, "update") /\ ~LockedByOther(w, here(w))
         /\ LET q == request[w]  row == Seen(w, here(w)) IN
            \/ Ends(w)
            \/ q.selected = NoRow /\ row = NoRow /\ Resumes(w) /\ SavedRow(w, q.entity)
            \/ q.selected # NoRow /\ (row = NoRow \/ ~differs(q)) /\ Resumes(w) /\ SameRows(w)
            \/ q.selected # NoRow /\ row # NoRow /\ differs(q) /\ Resumes(w)
                 /\ SavedRow(w, merged(q, row))
<1> DEFINE q == request[w]  row == Seen(w, here(w))
<1>1. Active(w) /\ At(w, "update") /\ q.pc = "update"
  BY DEF updateOrder, At, Active
<1>2. ~LockedByOther(w, here(w))
  BY DEF updateOrder
<1>3. /\ q \in Work /\ Course(q) /\ here(w) \in Order /\ row \in Row
      /\ q.entity \in Row /\ q.selected \in Row
  BY <1>1, Working DEF Work
<1>4. ASSUME NEW y \in Work, Course(y), y.pc = "update",
             y.kind = q.kind, y.trip = q.trip, y.arg = q.arg, y.orders = q.orders,
             y.placed = q.placed, y.hops = q.hops, Goes(w, afterSave(y))
      PROVE  /\ Resumes(w) /\ request'[w].own = y.own
             /\ UNCHANGED <<order, tripDriver, startedAt, stop, ordersThisPeriod, repeated>>
  <2>1. request'[w] = afterSave(y) /\ Others(w)
    BY <1>4, Becoming DEF Goes, Starts
  <2>2. QED
    BY <1>4, <2>1, AfterSave DEF Resumes, Continues, SameList, SameHops, Goes, Starts, database
<1>5. CASE q.selected = NoRow /\ row # NoRow
  <2>1. rollback(w)
    BY <1>5 DEF updateOrder
  <2>2. QED
    BY <1>1, <1>2, <2>1, RollingBack
<1>6. CASE q.selected = NoRow /\ row = NoRow
  <2> DEFINE y == writes(q, here(w), q.entity)
  <2>1. Goes(w, afterSave(y))
    BY <1>6 DEF updateOrder
  <2>2. /\ y \in Work /\ Course(y) /\ y.pc = "update"
        /\ y.kind = q.kind /\ y.trip = q.trip /\ y.arg = q.arg /\ y.orders = q.orders
        /\ y.placed = q.placed /\ y.hops = q.hops
        /\ DOMAIN y.own = DOMAIN q.own \cup {here(w)}
        /\ y.own[here(w)] = q.entity
        /\ \A p \in DOMAIN q.own \ {here(w)} : y.own[p] = q.own[p]
    <3> HIDE DEF q
    <3> QED BY <1>1, <1>3, Writing
  <2>3. /\ Resumes(w) /\ request'[w].own = y.own
        /\ UNCHANGED <<order, tripDriver, startedAt, stop, ordersThisPeriod, repeated>>
    <3> HIDE DEF y, q
    <3> QED BY <1>4, <2>1, <2>2
  <2>4. QED
    <3> HIDE DEF y
    <3> QED BY <1>1, <1>2, <1>6, <2>2, <2>3 DEF SavedRow
<1>7. CASE q.selected # NoRow /\ (row = NoRow \/ ~differs(q))
  <2>1. Goes(w, afterSave(q))
    BY <1>7 DEF updateOrder
  <2>2. /\ Resumes(w) /\ request'[w].own = q.own
        /\ UNCHANGED <<order, tripDriver, startedAt, stop, ordersThisPeriod, repeated>>
    BY <1>1, <1>3, <1>4, <2>1
  <2>3. QED
    BY <1>1, <1>2, <1>7, <2>2 DEF SameRows, Resumes
<1>8. CASE q.selected # NoRow /\ row # NoRow /\ differs(q)
  <2> DEFINE y == writes(q, here(w), merged(q, row))
  <2>1. Goes(w, afterSave(y))
    BY <1>8 DEF updateOrder
  <2>2. merged(q, row) \in Row
    BY <1>3, Merging
  <2>3. /\ y \in Work /\ Course(y) /\ y.pc = "update"
        /\ y.kind = q.kind /\ y.trip = q.trip /\ y.arg = q.arg /\ y.orders = q.orders
        /\ y.placed = q.placed /\ y.hops = q.hops
        /\ DOMAIN y.own = DOMAIN q.own \cup {here(w)}
        /\ y.own[here(w)] = merged(q, row)
        /\ \A p \in DOMAIN q.own \ {here(w)} : y.own[p] = q.own[p]
    <3> HIDE DEF q
    <3> QED BY <1>1, <1>3, <2>2, Writing
  <2>4. /\ Resumes(w) /\ request'[w].own = y.own
        /\ UNCHANGED <<order, tripDriver, startedAt, stop, ordersThisPeriod, repeated>>
    <3> HIDE DEF y, q
    <3> QED BY <1>4, <2>1, <2>3
  <2>5. QED
    <3> HIDE DEF y
    <3> QED BY <1>1, <1>2, <1>8, <2>3, <2>4 DEF SavedRow
<1>9. QED
  BY <1>5, <1>6, <1>7, <1>8

Later == {"picked_up", "in_transit", "delivered", "failed"}

LEMMA HopsOf ==
  ASSUME NEW kind \in {"arrive", "complete", "skip"}, NEW s
  PROVE  /\ hopsOf(kind, s) \in Seq(Later) /\ hopsOf(kind, s) \in Seq(OrderStatus)
         /\ kind = "arrive" => hopsOf(kind, s) = hopsFrom(s)
         /\ s \notin {"assigned", "picked_up"} => hopsOf(kind, s) = lastHop[kind]
<1>1. /\ hopsFrom(s) \in Seq(Later)
      /\ s \notin {"assigned", "picked_up"} => hopsFrom(s) = <<>>
  <2>1. \A a, b \in Later : <<>> \in Seq(Later) /\ <<a>> \in Seq(Later) /\ <<a, b>> \in Seq(Later)
    OBVIOUS
  <2>2. "picked_up" \in Later /\ "in_transit" \in Later
    BY DEF Later
  <2>3. hopsFrom(s) \in {<<>>, <<"in_transit">>, <<"picked_up", "in_transit">>}
    BY DEF hopsFrom
  <2>4. s \notin {"assigned", "picked_up"} => hopsFrom(s) = <<>>
    BY DEF hopsFrom
  <2>5. QED
    BY <2>1, <2>2, <2>3, <2>4
<1>2. lastHop[kind] \in Seq(Later) /\ (kind = "arrive" => lastHop[kind] = <<>>)
  <2>1. \A a \in Later : <<>> \in Seq(Later) /\ <<a>> \in Seq(Later)
    OBVIOUS
  <2>2. "delivered" \in Later /\ "failed" \in Later
    BY DEF Later
  <2>3. lastHop[kind] = IF kind = "arrive" THEN <<>> ELSE IF kind = "complete" THEN <<"delivered">>
                        ELSE <<"failed">>
    BY DEF lastHop
  <2>4. QED
    BY <2>1, <2>2, <2>3
<1>3. \A l \in Seq(Later) : <<>> \o l = l /\ l \o <<>> = l
  OBVIOUS
<1>4. hopsOf(kind, s) = hopsFrom(s) \o lastHop[kind] /\ hopsOf(kind, s) \in Seq(Later)
  BY <1>1, <1>2 DEF hopsOf
<1>5. Later \subseteq OrderStatus
  BY DEF Later, OrderStatus
<1>6. hopsOf(kind, s) \in Seq(OrderStatus)
  BY <1>4, <1>5
<1>7. QED
  BY <1>1, <1>2, <1>3, <1>4, <1>6

CommitsOrders(w) ==
  /\ Ends(w) /\ UNCHANGED repeated
  /\ order' \in [Order -> Row]
  /\ \A o \in Order : order'[o] = Seen(w, o)

LEMMA Committing ==
  ASSUME Shape, NEW w \in Request, Active(w), commitOrders(w)
  PROVE  CommitsOrders(w)
<1>1. Ends(w) /\ UNCHANGED repeated
  BY Becoming DEF commitOrders, Ends
<1>2. \A o \in Order : Seen(w, o) \in Row
  BY Working
<1>3. QED
  BY <1>1, <1>2 DEF commitOrders, CommitsOrders

LEMMA ChangeCommits ==
  ASSUME Shape, NEW w \in Request, commitChange(w)
  PROVE  /\ Active(w) /\ At(w, "commit") /\ CommitsOrders(w)
         /\ UNCHANGED <<tripDriver, startedAt, stop, ordersThisPeriod>>
BY Committing DEF commitChange, At, Active

LEMMA Removing ==
  ASSUME Shape, NEW w \in Request, removeOrder(w)
  PROVE  /\ Active(w) /\ At(w, "remove") /\ Ends(w)
         /\ ~LockedByOther(w, here(w)) /\ ~PlacedByOther(w, here(w))
         /\ order' \in [Order -> Row]
         /\ stop' \in [Trip -> [Order -> StopStatus \cup {Absent}]]
         /\ \A t \in Trip, o \in Order : stop'[t][o] = IF o = here(w) THEN Absent ELSE stop[t][o]
         /\ ordersThisPeriod' \in 0..OrderLimit
         /\ UNCHANGED <<tripDriver, startedAt, repeated>>
<1>1. Active(w) /\ At(w, "remove")
  BY DEF removeOrder, At, Active
<1>2. Ends(w) /\ UNCHANGED <<tripDriver, startedAt, repeated>>
  BY Becoming DEF removeOrder, Ends
<1>3. order' \in [Order -> Row]
  BY RowFacts DEF removeOrder, Shape
<1>4. stop' = [t \in Trip |-> [stop[t] EXCEPT ![here(w)] = Absent]]
  BY DEF removeOrder
<1>5. /\ stop' \in [Trip -> [Order -> StopStatus \cup {Absent}]]
      /\ \A t \in Trip, o \in Order : stop'[t][o] = IF o = here(w) THEN Absent ELSE stop[t][o]
  BY <1>4 DEF Shape
<1>6. ordersThisPeriod' \in 0..OrderLimit
  BY OrderLimitAssumption DEF removeOrder, oneLess, Shape
<1>7. QED
  BY <1>1, <1>2, <1>3, <1>5, <1>6 DEF removeOrder

LEMMA Checking ==
  ASSUME Shape, NEW w \in Request, checkOrder(w), request[w].kind = "dispatch"
  PROVE  /\ UNCHANGED <<order, tripDriver, startedAt, stop, ordersThisPeriod, repeated>>
         /\ Active(w) /\ At(w, "check")
         /\ \/ Ends(w)
            \/ /\ Continues(w) /\ SameList(w) /\ SameRows(w) /\ SameHops(w)
               /\ request'[w].pc = "find"
<1> DEFINE x == [request[w] EXCEPT !.pc = "find"]
<1>1. Active(w) /\ At(w, "check")
  BY DEF checkOrder, At, Active
<1>2. CASE rollback(w)
  BY <1>1, <1>2, RollingBack
<1>3. CASE Goes(w, x)
  <2>1. request'[w] = x /\ Others(w)
    <3> HIDE DEF x
    <3> QED BY <1>3, Becoming DEF Goes, Starts
  <2>2. request[w] \in Work /\ Course(request[w])
    BY <1>1, Working
  <2>3. /\ x \in Work /\ x.kind = request[w].kind /\ x.trip = request[w].trip
        /\ x.arg = request[w].arg /\ x.orders = request[w].orders /\ x.own = request[w].own
        /\ x.placed = request[w].placed /\ x.hops = request[w].hops /\ x.pc = "find"
    BY <2>2 DEF Work
  <2>4. Course(x)
    BY <2>2, <2>3 DEF Course
  <2>5. QED
    <3> HIDE DEF x
    <3> QED BY <1>1, <1>3, <2>1, <2>3, <2>4
            DEF Continues, SameList, SameRows, SameHops, Goes, Starts, database
<1>4. QED
  BY <1>2, <1>3 DEF checkOrder

LEMMA Placing ==
  ASSUME Shape, NEW w \in Request, placeStop(w), request[w].kind = "dispatch"
  PROVE  /\ UNCHANGED <<order, tripDriver, startedAt, stop, ordersThisPeriod, repeated>>
         /\ Active(w) /\ At(w, "place") /\ ~PlacedByOther(w, here(w))
         /\ \/ Ends(w)
            \/ /\ placeable(w, here(w))
               /\ Continues(w) /\ SameHops(w)
               /\ request'[w].own = request[w].own
               /\ request'[w].placed = request[w].placed \cup {here(w)}
               /\ IF Len(request[w].orders) > 1
                  THEN request'[w].pc = "check" /\ request'[w].orders = Tail(request[w].orders)
                  ELSE request'[w].pc = "commitDispatch" /\ SameList(w)
<1> DEFINE q == request[w]
           more == [q EXCEPT !.placed = @ \cup {here(w)}, !.pc = "check", !.orders = Tail(@)]
           done == [q EXCEPT !.placed = @ \cup {here(w)}, !.pc = "commitDispatch"]
<1>1. Active(w) /\ At(w, "place") /\ ~PlacedByOther(w, here(w))
  BY DEF placeStop, At, Active
<1>2. q \in Work /\ Course(q) /\ here(w) \in Order
  BY <1>1, Working
<1>3. CASE rollback(w)
  BY <1>1, <1>3, RollingBack
<1>4. CASE placeable(w, here(w)) /\ Len(q.orders) > 1
  <2>1. Goes(w, more)
    BY <1>4 DEF placeStop
  <2>2. request'[w] = more /\ Others(w)
    <3> HIDE DEF more
    <3> QED BY <2>1, Becoming DEF Goes, Starts
  <2>3. Tail(q.orders) \in Lists
    BY <1>2, <1>4, ListFacts DEF Work
  <2>4. /\ more \in Work /\ more.kind = q.kind /\ more.trip = q.trip /\ more.arg = q.arg
        /\ more.orders = Tail(q.orders) /\ more.own = q.own /\ more.hops = q.hops
        /\ more.placed = q.placed \cup {here(w)} /\ more.pc = "check"
    BY <1>2, <2>3 DEF Work
  <2>5. Course(more)
    BY <1>2, <2>4 DEF Course
  <2>6. QED
    <3> HIDE DEF more
    <3> QED BY <1>1, <1>4, <2>1, <2>2, <2>4, <2>5 DEF Continues, SameHops, Goes, Starts, database
<1>5. CASE placeable(w, here(w)) /\ ~(Len(q.orders) > 1)
  <2>1. Goes(w, done)
    BY <1>5 DEF placeStop
  <2>2. request'[w] = done /\ Others(w)
    <3> HIDE DEF done
    <3> QED BY <2>1, Becoming DEF Goes, Starts
  <2>3. /\ done \in Work /\ done.kind = q.kind /\ done.trip = q.trip /\ done.arg = q.arg
        /\ done.orders = q.orders /\ done.own = q.own /\ done.hops = q.hops
        /\ done.placed = q.placed \cup {here(w)} /\ done.pc = "commitDispatch"
    BY <1>2 DEF Work
  <2>4. Course(done)
    BY <1>2, <2>3 DEF Course
  <2>5. QED
    <3> HIDE DEF done
    <3> QED BY <1>1, <1>5, <2>1, <2>2, <2>3, <2>4
            DEF Continues, SameList, SameHops, Goes, Starts, database
<1>6. QED
  BY <1>3, <1>4, <1>5 DEF placeStop

LEMMA DispatchCommits ==
  ASSUME Shape, NEW w \in Request, commitDispatch(w), request[w].kind = "dispatch"
  PROVE  /\ Active(w) /\ At(w, "commitDispatch") /\ CommitsOrders(w)
         /\ tripDriver' \in [Trip -> Driver \cup {NoDriver}]
         /\ \A t \in Trip :
              tripDriver'[t] = IF t = request[w].trip THEN request[w].arg ELSE tripDriver[t]
         /\ stop' \in [Trip -> [Order -> StopStatus \cup {Absent}]]
         /\ \A t \in Trip, o \in Order :
              stop'[t][o] = IF t = request[w].trip /\ o \in request[w].placed
                            THEN "pending" ELSE stop[t][o]
         /\ UNCHANGED <<startedAt, ordersThisPeriod>>
<1>1. Active(w) /\ At(w, "commitDispatch")
  BY DEF commitDispatch, At, Active
<1>2. CommitsOrders(w)
  BY <1>1, Committing DEF commitDispatch
<1>3. PICK t \in Trip, d \in Driver : t = request[w].trip /\ d = request[w].arg
  BY <1>1, Working DEF Course
<1>4. PICK new \in [Order -> StopStatus \cup {Absent}] :
        new = [o \in Order |-> IF o \in request[w].placed THEN "pending" ELSE stop[t][o]]
  BY DEF Shape, StopStatus
<1>5. /\ tripDriver' = [tripDriver EXCEPT ![t] = d]
      /\ stop' = [stop EXCEPT ![t] = new]
  BY <1>3, <1>4 DEF commitDispatch, Shape
<1>6. /\ tripDriver' \in [Trip -> Driver \cup {NoDriver}]
      /\ \A u \in Trip : tripDriver'[u] = IF u = t THEN d ELSE tripDriver[u]
  BY <1>5 DEF Shape
<1>7. /\ stop' \in [Trip -> [Order -> StopStatus \cup {Absent}]]
      /\ \A u \in Trip : stop'[u] = IF u = t THEN new ELSE stop[u]
  BY <1>5 DEF Shape
<1>8. \A u \in Trip, o \in Order :
        stop'[u][o] = IF u = t /\ o \in request[w].placed THEN "pending" ELSE stop[u][o]
  BY <1>4, <1>7
<1>9. QED
  BY <1>1, <1>2, <1>3, <1>6, <1>7, <1>8 DEF commitDispatch

StopKind == {"arrive", "complete", "skip"}

LEMMA FindingStop ==
  ASSUME Shape, NEW w \in Request, findStop(w), request[w].kind \in StopKind
  PROVE  /\ UNCHANGED <<order, tripDriver, startedAt, stop, ordersThisPeriod, repeated>>
         /\ Active(w) /\ At(w, "stop")
         /\ \/ Ends(w)
            \/ /\ stop[request[w].trip][here(w)] \in stopAccepts[request[w].kind]
               /\ Continues(w) /\ SameList(w) /\ SameRows(w) /\ SameHops(w)
               /\ request'[w].pc = "advance"
<1> DEFINE q == request[w]
           x == [q EXCEPT !.pc = "advance"]
<1>1. Active(w) /\ At(w, "stop")
  BY DEF findStop, At, Active
<1>2. CASE rollback(w)
  BY <1>1, <1>2, RollingBack
<1>3. CASE stop[q.trip][here(w)] \in stopAccepts[q.kind] /\ Goes(w, x)
  <2>1. request'[w] = x /\ Others(w)
    <3> HIDE DEF x
    <3> QED BY <1>3, Becoming DEF Goes, Starts
  <2>2. q \in Work /\ Course(q)
    BY <1>1, Working
  <2>3. /\ x \in Work /\ x.kind = q.kind /\ x.trip = q.trip /\ x.arg = q.arg
        /\ x.orders = q.orders /\ x.own = q.own /\ x.placed = q.placed /\ x.hops = q.hops
        /\ x.pc = "advance"
    BY <2>2 DEF Work
  <2>4. Course(x)
    BY <2>2, <2>3 DEF Course, StopKind
  <2>5. QED
    <3> HIDE DEF x
    <3> QED BY <1>1, <1>3, <2>1, <2>3, <2>4
            DEF Continues, SameList, SameRows, SameHops, Goes, Starts, database
<1>4. QED
  BY <1>2, <1>3 DEF findStop

LEMMA Advancing ==
  ASSUME Shape, NEW w \in Request, advanceOrder(w), request[w].kind \in StopKind
  PROVE  /\ UNCHANGED <<order, tripDriver, startedAt, stop, ordersThisPeriod, repeated>>
         /\ Active(w) /\ At(w, "advance")
         /\ \/ Ends(w)
            \/ /\ Seen(w, here(w)) # NoRow
               /\ Continues(w) /\ SameList(w) /\ SameRows(w)
               /\ request'[w].hops = hopsOf(request[w].kind, Seen(w, here(w)).status)
               /\ request'[w].pc = IF request'[w].hops = <<>> THEN "selectStop" ELSE "find"
<1> DEFINE q == request[w]
           hops == hopsOf(q.kind, Seen(w, here(w)).status)
           x == [q EXCEPT !.hops = hops, !.pc = IF hops = <<>> THEN "selectStop" ELSE "find"]
<1>1. Active(w) /\ At(w, "advance")
  BY DEF advanceOrder, At, Active
<1>2. CASE rollback(w)
  BY <1>1, <1>2, RollingBack
<1>3. CASE Seen(w, here(w)) # NoRow /\ Goes(w, x)
  <2>1. request'[w] = x /\ Others(w)
    <3> HIDE DEF x
    <3> QED BY <1>3, Becoming DEF Goes, Starts
  <2>2. q \in Work /\ Course(q)
    BY <1>1, Working
  <2>3. hops \in Seq(OrderStatus)
    BY HopsOf DEF StopKind
  <2>4. /\ x \in Work /\ x.kind = q.kind /\ x.trip = q.trip /\ x.arg = q.arg
        /\ x.orders = q.orders /\ x.own = q.own /\ x.placed = q.placed /\ x.hops = hops
        /\ x.pc = IF hops = <<>> THEN "selectStop" ELSE "find"
    <3> HIDE DEF hops
    <3> QED BY <2>2, <2>3 DEF Work
  <2>5. Course(x)
    <3> HIDE DEF x, hops
    <3> QED BY <2>2, <2>4 DEF Course, StopKind
  <2>6. QED
    <3> HIDE DEF x
    <3> QED BY <1>1, <1>3, <2>1, <2>4, <2>5
            DEF Continues, SameList, SameRows, Goes, Starts, database
<1>4. QED
  BY <1>2, <1>3 DEF advanceOrder

LEMMA SelectingStop ==
  ASSUME Shape, NEW w \in Request, selectStop(w), request[w].kind \in StopKind
  PROVE  /\ UNCHANGED <<order, tripDriver, startedAt, stop, ordersThisPeriod, repeated>>
         /\ Active(w) /\ At(w, "selectStop")
         /\ Continues(w) /\ SameList(w) /\ SameRows(w) /\ SameHops(w)
         /\ request'[w].stopSelected = stop[request[w].trip][here(w)]
         /\ request'[w].pc = "updateStop"
<1> DEFINE q == request[w]
           x == [q EXCEPT !.stopSelected = stop[q.trip][here(w)], !.pc = "updateStop"]
<1>1. Active(w) /\ At(w, "selectStop")
  BY DEF selectStop, At, Active
<1>2. Goes(w, x)
  BY DEF selectStop
<1>3. request'[w] = x /\ Others(w)
  <2> HIDE DEF x
  <2> QED BY <1>2, Becoming DEF Goes, Starts
<1>4. q \in Work /\ Course(q) /\ here(w) \in Order
  BY <1>1, Working
<1>5. stop[q.trip][here(w)] \in StopStatus \cup {Absent}
  BY <1>4 DEF Course, StopKind, Shape
<1>6. /\ x \in Work /\ x.kind = q.kind /\ x.trip = q.trip /\ x.arg = q.arg
      /\ x.orders = q.orders /\ x.own = q.own /\ x.placed = q.placed /\ x.hops = q.hops
      /\ x.stopSelected = stop[q.trip][here(w)] /\ x.pc = "updateStop"
  BY <1>4, <1>5 DEF Work
<1>7. Course(x)
  BY <1>4, <1>6 DEF Course, StopKind
<1>8. QED
  <2> HIDE DEF x
  <2> QED BY <1>1, <1>2, <1>3, <1>6, <1>7
          DEF Continues, SameList, SameRows, SameHops, Goes, Starts, database

LEMMA UpdatingStop ==
  ASSUME Shape, NEW w \in Request, updateStop(w), request[w].kind \in StopKind
  PROVE  LET q == request[w]  o == here(w)  becomes == stopBecomes[q.kind] IN
         /\ Active(w) /\ At(w, "updateStop")
         /\ q.stopSelected = Absent => ~PlacedByOther(w, o)
         /\ \/ Ends(w) /\ UNCHANGED <<order, tripDriver, startedAt, stop, ordersThisPeriod, repeated>>
            \/ /\ CommitsOrders(w)
               /\ q.stopSelected = Absent => placeable(w, o)
               /\ stop' \in [Trip -> [Order -> StopStatus \cup {Absent}]]
               /\ \A t \in Trip, p \in Order :
                    t # q.trip \/ p # o => stop'[t][p] = stop[t][p]
               /\ stop'[q.trip][o] =
                    IF q.stopSelected = Absent
                         \/ (q.stopSelected # becomes /\ stop[q.trip][o] # Absent)
                    THEN becomes ELSE stop[q.trip][o]
               /\ startedAt' \in [Trip -> BOOLEAN]
               /\ UNCHANGED <<tripDriver, ordersThisPeriod>>
<1> DEFINE q == request[w]  o == here(w)  becomes == stopBecomes[q.kind]
<1>1. Active(w) /\ At(w, "updateStop") /\ (q.stopSelected = Absent => ~PlacedByOther(w, o))
  BY DEF updateStop, At, Active
<1>2. CASE q.stopSelected = Absent /\ ~placeable(w, o)
  <2>1. rollback(w)
    BY <1>2 DEF updateStop
  <2>2. QED
    BY <1>1, <2>1, RollingBack
<1>3. CASE q.stopSelected = Absent => placeable(w, o)
  <2>1. /\ commitOrders(w)
        /\ stop' = IF \/ q.stopSelected = Absent
                      \/ q.stopSelected # becomes /\ stop[q.trip][o] # Absent
                   THEN [stop EXCEPT ![q.trip][o] = becomes]
                   ELSE stop
        /\ startedAt' = IF q.kind = "arrive"
                        THEN [startedAt EXCEPT ![q.trip] = TRUE] ELSE startedAt
        /\ UNCHANGED <<tripDriver, ordersThisPeriod>>
    BY <1>3 DEF updateStop
  <2>2. CommitsOrders(w)
    BY <1>1, <2>1, Committing
  <2>3. PICK t \in Trip : t = q.trip
    BY <1>1, Working DEF Course, StopKind
  <2>4. o \in Order
    BY <1>1, Working
  <2>5. becomes \in StopStatus
    BY DEF stopBecomes, StopStatus, StopKind
  <2>6. /\ stop' \in [Trip -> [Order -> StopStatus \cup {Absent}]]
        /\ \A u \in Trip, p \in Order : u # t \/ p # o => stop'[u][p] = stop[u][p]
        /\ stop'[t][o] = IF q.stopSelected = Absent
                              \/ (q.stopSelected # becomes /\ stop[t][o] # Absent)
                         THEN becomes ELSE stop[t][o]
    <3>1. CASE q.stopSelected = Absent \/ (q.stopSelected # becomes /\ stop[t][o] # Absent)
      <4>1. stop' = [stop EXCEPT ![t][o] = becomes]
        BY <2>1, <2>3, <3>1
      <4>2. PICK new : new = [stop[t] EXCEPT ![o] = becomes]
        OBVIOUS
      <4>3. /\ new \in [Order -> StopStatus \cup {Absent}] /\ new[o] = becomes
            /\ \A p \in Order : p # o => new[p] = stop[t][p]
        BY <2>4, <2>5, <4>2 DEF Shape
      <4>4. stop' = [stop EXCEPT ![t] = new]
        BY <4>1, <4>2
      <4>5. QED
        BY <2>4, <3>1, <4>3, <4>4 DEF Shape
    <3>2. CASE ~(q.stopSelected = Absent \/ (q.stopSelected # becomes /\ stop[t][o] # Absent))
      <4>1. stop' = stop
        BY <2>1, <2>3, <3>2
      <4>2. QED
        BY <3>2, <4>1 DEF Shape
    <3>3. QED
      BY <3>1, <3>2
  <2>7. startedAt' \in [Trip -> BOOLEAN]
    BY <2>1 DEF Shape
  <2>8. QED
    BY <1>1, <1>3, <2>1, <2>2, <2>3, <2>6, <2>7
<1>4. QED
  BY <1>2, <1>3

LEMMA NoRows == DOMAIN <<>> = {} /\ <<>> \in Rows
<1>1. DOMAIN <<>> = {}
  <2>1. Len(<<>>) = 0 /\ <<>> \in Seq(Row)
    BY EmptySeq
  <2>2. DOMAIN <<>> = 1..0
    BY <2>1, LenProperties
  <2>3. QED
    BY <2>2
<1>2. <<>> \in [DOMAIN <<>> -> Row]
  <2>1. <<>> \in UNION {[1..n -> Row] : n \in Nat}
    BY EmptySeq, SeqDef
  <2>2. QED
    BY <2>1
<1>3. QED
  BY <1>1, <1>2 DEF Rows

\* What a request starts with.
Fresh(w) ==
  /\ Others(w) /\ ~Active(w)
  /\ request'[w] \in Work /\ Course(request'[w])
  /\ DOMAIN request'[w].own = {} /\ request'[w].placed = {}
  /\ \A i \in DOMAIN request'[w].orders :
       request'[w].kind \in {"edit", "delete", "dispatch"} =>
         order[request'[w].orders[i]] # NoRow

LEMMA Opening ==
  ASSUME Shape, NEW w \in Request, arrives(w)
  PROVE  /\ UNCHANGED <<order, tripDriver, startedAt, stop, ordersThisPeriod>>
         /\ Fresh(w)
         /\ \/ /\ request'[w].kind \in {"patch", "edit", "delete"} /\ UNCHANGED repeated
               /\ request'[w].pc = "find"
            \/ /\ request'[w].kind = "dispatch" /\ UNCHANGED repeated
               /\ request'[w].pc = "check"
               /\ request'[w].trip \in Trip /\ tripDriver[request'[w].trip] = NoDriver
               /\ \A v \in Request : Active(v) => request[v].trip # request'[w].trip
            \/ \E t \in Trip, o \in Order, kind \in StopKind :
                 /\ request'[w].kind = kind /\ request'[w].pc = "stop" /\ request'[w].trip = t
                 /\ request'[w].orders = <<o>> /\ request'[w].hops = <<>>
                 /\ stop[t][o] # Absent
                 /\ repeated' = repeated \cup
                      IF kind = "arrive" /\ Arriving(t, o) # {} THEN {o} ELSE {}
<1>1. ~Active(w)
  BY DEF arrives
<1>2. \A s \in OrderStatus : <<>> \in Seq(OrderStatus) /\ <<s>> \in Seq(OrderStatus)
  OBVIOUS
<1>3. ASSUME NEW x, Starts(w, x)
      PROVE  /\ request'[w] = x /\ Others(w)
             /\ UNCHANGED <<order, tripDriver, startedAt, stop, ordersThisPeriod>>
  BY <1>3, Becoming DEF Starts, database
<1>4. \A o \in Order : <<o>> \in Lists /\ \A i \in DOMAIN <<o>> : <<o>>[i] = o
  BY DEF Lists
<1>5. \A o, p \in Order : /\ <<o, p>> \in Lists
                         /\ \A i \in DOMAIN <<o, p>> : <<o, p>>[i] \in {o, p}
  BY DEF Lists
<1>6. ASSUME NEW o \in Order, NEW s \in OrderStatus, "patch" \in Kind,
             Goes(w, Begin("patch", "find", "", <<o>>, <<s>>, FALSE))
      PROVE  /\ UNCHANGED <<order, tripDriver, startedAt, stop, ordersThisPeriod, repeated>>
             /\ Fresh(w) /\ request'[w].kind = "patch" /\ request'[w].pc = "find"
  <2>1. /\ request'[w] = Begin("patch", "find", "", <<o>>, <<s>>, FALSE) /\ Others(w)
        /\ UNCHANGED <<order, tripDriver, startedAt, stop, ordersThisPeriod, repeated>>
    BY <1>3, <1>6 DEF Goes
  <2>2. LET x == Begin("patch", "find", "", <<o>>, <<s>>, FALSE) IN
        /\ x \in Work /\ x.kind = "patch" /\ x.pc = "find" /\ x.trip = "" /\ x.orders = <<o>>
        /\ x.hops = <<s>> /\ x.arg = FALSE /\ DOMAIN x.own = {} /\ x.placed = {}
    <3>1. /\ "patch" \in Kind \ {"create"} /\ "find" \in {"find", "check", "stop"}
          /\ "" \in Trip \cup {""} /\ FALSE \in BOOLEAN \cup Driver
      BY <1>6
    <3>2. QED
      BY <1>2, <1>4, <3>1, NoRows, RowFacts DEF Begin, Work
  <2>3. QED
    BY <1>1, <2>1, <2>2 DEF Fresh, Course
<1>7. ASSUME NEW o \in Stored, NEW b \in BOOLEAN, "edit" \in Kind,
             Goes(w, Begin("edit", "find", "", <<o>>, <<>>, b))
      PROVE  /\ UNCHANGED <<order, tripDriver, startedAt, stop, ordersThisPeriod, repeated>>
             /\ Fresh(w) /\ request'[w].kind = "edit" /\ request'[w].pc = "find"
  <2>1. /\ request'[w] = Begin("edit", "find", "", <<o>>, <<>>, b) /\ Others(w)
        /\ UNCHANGED <<order, tripDriver, startedAt, stop, ordersThisPeriod, repeated>>
    BY <1>3, <1>7 DEF Goes
  <2>2. o \in Order /\ order[o] # NoRow
    BY DEF Stored
  <2>3. LET x == Begin("edit", "find", "", <<o>>, <<>>, b) IN
        /\ x \in Work /\ x.kind = "edit" /\ x.pc = "find" /\ x.trip = "" /\ x.orders = <<o>>
        /\ x.hops = <<>> /\ x.arg = b /\ DOMAIN x.own = {} /\ x.placed = {}
    <3>1. /\ "edit" \in Kind \ {"create"} /\ "find" \in {"find", "check", "stop"}
          /\ "" \in Trip \cup {""} /\ b \in BOOLEAN \cup Driver
      BY <1>7
    <3>2. QED
      BY <1>2, <1>4, <2>2, <3>1, NoRows, RowFacts DEF Begin, Work
  <2>4. Fresh(w) /\ request'[w].kind = "edit" /\ request'[w].pc = "find"
    BY <1>1, <1>4, <2>1, <2>2, <2>3 DEF Fresh, Course
  <2>5. QED
    BY <2>1, <2>4
<1>8. ASSUME NEW o \in Stored, "delete" \in Kind,
             Goes(w, Begin("delete", "find", "", <<o>>, <<>>, FALSE))
      PROVE  /\ UNCHANGED <<order, tripDriver, startedAt, stop, ordersThisPeriod, repeated>>
             /\ Fresh(w) /\ request'[w].kind = "delete" /\ request'[w].pc = "find"
  <2>1. /\ request'[w] = Begin("delete", "find", "", <<o>>, <<>>, FALSE) /\ Others(w)
        /\ UNCHANGED <<order, tripDriver, startedAt, stop, ordersThisPeriod, repeated>>
    BY <1>3, <1>8 DEF Goes
  <2>2. o \in Order /\ order[o] # NoRow
    BY DEF Stored
  <2>3. LET x == Begin("delete", "find", "", <<o>>, <<>>, FALSE) IN
        /\ x \in Work /\ x.kind = "delete" /\ x.pc = "find" /\ x.trip = ""
        /\ x.orders = <<o>>
        /\ x.hops = <<>> /\ x.arg = FALSE /\ DOMAIN x.own = {} /\ x.placed = {}
    <3>1. /\ "delete" \in Kind \ {"create"} /\ "find" \in {"find", "check", "stop"}
          /\ "" \in Trip \cup {""} /\ FALSE \in BOOLEAN \cup Driver
      BY <1>8
    <3>2. QED
      BY <1>2, <1>4, <2>2, <3>1, NoRows, RowFacts DEF Begin, Work
  <2>4. Fresh(w) /\ request'[w].kind = "delete" /\ request'[w].pc = "find"
    BY <1>1, <1>4, <2>1, <2>2, <2>3 DEF Fresh, Course
  <2>5. QED
    BY <2>1, <2>4
<1>9. ASSUME NEW t \in Trip, NEW d \in Driver, NEW o \in Stored, NEW p \in Stored,
             "dispatch" \in Kind, tripDriver[t] = NoDriver,
             \A v \in Request : Active(v) => request[v].trip # t,
             NEW l \in {<<o>>, <<o, p>>},
             Goes(w, Begin("dispatch", "check", t, l, <<"assigned">>, d))
      PROVE  /\ UNCHANGED <<order, tripDriver, startedAt, stop, ordersThisPeriod, repeated>>
             /\ Fresh(w) /\ request'[w].kind = "dispatch"
             /\ request'[w].pc = "check"
             /\ request'[w].trip \in Trip /\ tripDriver[request'[w].trip] = NoDriver
             /\ \A v \in Request : Active(v) => request[v].trip # request'[w].trip
  <2>1. /\ request'[w] = Begin("dispatch", "check", t, l, <<"assigned">>, d) /\ Others(w)
        /\ UNCHANGED <<order, tripDriver, startedAt, stop, ordersThisPeriod, repeated>>
    BY <1>3, <1>9 DEF Goes
  <2>2. o \in Order /\ order[o] # NoRow /\ p \in Order /\ order[p] # NoRow
    BY DEF Stored
  <2>3. l \in Lists /\ \A i \in DOMAIN l : l[i] \in {o, p}
    BY <1>4, <1>5, <1>9, <2>2
  <2>4. <<"assigned">> \in Seq(OrderStatus)
    BY <1>2 DEF OrderStatus
  <2>5. LET x == Begin("dispatch", "check", t, l, <<"assigned">>, d) IN
        /\ x \in Work /\ x.kind = "dispatch" /\ x.pc = "check" /\ x.trip = t
        /\ x.orders = l
        /\ x.hops = <<"assigned">> /\ x.arg = d /\ DOMAIN x.own = {} /\ x.placed = {}
    <3>1. /\ "dispatch" \in Kind \ {"create"} /\ "check" \in {"find", "check", "stop"}
          /\ t \in Trip \cup {""} /\ d \in BOOLEAN \cup Driver
      BY <1>9
    <3>2. QED
      BY <2>3, <2>4, <3>1, NoRows, RowFacts DEF Begin, Work
  <2>6. Fresh(w)
    BY <1>1, <2>1, <2>2, <2>3, <2>5 DEF Fresh, Course
  <2>7. QED
    BY <1>9, <2>1, <2>5, <2>6
<1>10. ASSUME NEW t \in Trip, NEW o \in Order, NEW kind \in Kind \cap StopKind,
              stop[t][o] # Absent,
              Starts(w, Begin(kind, "stop", t, <<o>>, <<>>, FALSE)),
              repeated' = repeated \cup IF kind = "arrive" /\ Arriving(t, o) # {} THEN {o} ELSE {}
       PROVE  /\ UNCHANGED <<order, tripDriver, startedAt, stop, ordersThisPeriod>>
              /\ Fresh(w)
              /\ request'[w].kind = kind /\ request'[w].pc = "stop" /\ request'[w].trip = t
              /\ request'[w].orders = <<o>> /\ request'[w].hops = <<>>
  <2>1. /\ request'[w] = Begin(kind, "stop", t, <<o>>, <<>>, FALSE) /\ Others(w)
        /\ UNCHANGED <<order, tripDriver, startedAt, stop, ordersThisPeriod>>
    BY <1>3, <1>10
  <2>2. LET x == Begin(kind, "stop", t, <<o>>, <<>>, FALSE) IN
        /\ x \in Work /\ x.kind = kind /\ x.pc = "stop" /\ x.trip = t
        /\ x.orders = <<o>>
        /\ x.hops = <<>> /\ x.arg = FALSE /\ DOMAIN x.own = {} /\ x.placed = {}
    <3>1. /\ kind \in Kind \ {"create"} /\ "stop" \in {"find", "check", "stop"}
          /\ t \in Trip \cup {""} /\ FALSE \in BOOLEAN \cup Driver
      BY <1>10 DEF StopKind
    <3>2. <<>> \in Seq(OrderStatus)
      OBVIOUS
    <3>3. QED
      BY <1>4, <3>1, <3>2, NoRows, RowFacts DEF Begin, Work
  <2>3. Fresh(w) /\ request'[w].trip = t /\ request'[w].kind = kind
    BY <1>1, <2>1, <2>2 DEF Fresh, Course, StopKind
  <2>4. request'[w].pc = "stop" /\ request'[w].orders = <<o>> /\ request'[w].hops = <<>>
    BY <2>1, <2>2
  <2>5. QED
    BY <1>10, <2>1, <2>3, <2>4
<1>11. CASE \E t \in Trip, o \in Order, kind \in Kind \cap StopKind :
              /\ stop[t][o] # Absent
              /\ Starts(w, Begin(kind, "stop", t, <<o>>, <<>>, FALSE))
              /\ repeated' = repeated \cup IF kind = "arrive" /\ Arriving(t, o) # {} THEN {o} ELSE {}
  <2>1. PICK t \in Trip, o \in Order, kind \in Kind \cap StopKind :
              /\ stop[t][o] # Absent
              /\ Starts(w, Begin(kind, "stop", t, <<o>>, <<>>, FALSE))
              /\ repeated' = repeated \cup IF kind = "arrive" /\ Arriving(t, o) # {} THEN {o} ELSE {}
    BY <1>11
  <2>2. /\ UNCHANGED <<order, tripDriver, startedAt, stop, ordersThisPeriod>>
        /\ Fresh(w)
        /\ request'[w].kind = kind /\ request'[w].pc = "stop" /\ request'[w].trip = t
        /\ request'[w].orders = <<o>> /\ request'[w].hops = <<>>
    BY <1>10, <2>1
  <2>3. QED
    BY <2>1, <2>2
<1>12. CASE \E o \in Order, s \in OrderStatus :
              "patch" \in Kind /\ Goes(w, Begin("patch", "find", "", <<o>>, <<s>>, FALSE))
  BY <1>6, <1>12
<1>13. CASE \E o \in Stored, b \in BOOLEAN :
              "edit" \in Kind /\ Goes(w, Begin("edit", "find", "", <<o>>, <<>>, b))
  BY <1>7, <1>13
<1>14. CASE \E o \in Stored :
              "delete" \in Kind /\ Goes(w, Begin("delete", "find", "", <<o>>, <<>>, FALSE))
  BY <1>8, <1>14
<1>15. CASE \E t \in Trip, d \in Driver, o \in Stored, p \in Stored :
              /\ "dispatch" \in Kind
              /\ tripDriver[t] = NoDriver
              /\ \A v \in Request : Active(v) => request[v].trip # t
              /\ \E l \in {<<o>>, <<o, p>>} :
                   Goes(w, Begin("dispatch", "check", t, l, <<"assigned">>, d))
  BY ZenonT(60), <1>9, <1>15
<1>16. QED
  BY <1>11, <1>12, <1>13, <1>14, <1>15 DEF arrives, StopKind

LEMMA Creating ==
  ASSUME Shape, NEW o \in Order, NEW b \in BOOLEAN, createOrder(o, b)
  PROVE  /\ order[o] = NoRow /\ Unknown(o) /\ "create" \in Kind
         /\ order' \in [Order -> Row]
         /\ order'[o].status = "pending" /\ order'[o].driver = NoDriver
         /\ \A p \in Order \ {o} : order'[p] = order[p]
         /\ ordersThisPeriod' \in 0..OrderLimit
         /\ UNCHANGED <<tripDriver, startedAt, stop, request, repeated>>
<1>1. PICK row : row = [NoRow EXCEPT !.status = "pending", !.scheduled = b]
  OBVIOUS
<1>2. row \in Row /\ row.status = "pending" /\ row.driver = NoDriver
  BY <1>1 DEF NoRow, Row, OrderStatus
<1>3. order' = [order EXCEPT ![o] = row]
  BY <1>1 DEF createOrder
<1>4. /\ order' \in [Order -> Row] /\ order'[o] = row
      /\ \A p \in Order \ {o} : order'[p] = order[p]
  BY <1>2, <1>3 DEF Shape
<1>5. ordersThisPeriod' \in 0..OrderLimit
  BY OrderLimitAssumption DEF createOrder, Shape
<1>6. QED
  BY <1>2, <1>4, <1>5 DEF createOrder

\* Where a request is tells its kind.
LEMMA Kinds ==
  ASSUME Shape, NEW w \in Request
  PROVE  /\ request[w].pc \in {"check", "place", "commitDispatch"} => request[w].kind = "dispatch"
         /\ request[w].pc \in {"stop", "advance", "selectStop", "updateStop"} =>
              request[w].kind \in StopKind
         /\ request[w].pc = "remove" => request[w].kind = "delete"
         /\ request[w].pc = "commit" => request[w].kind \in {"patch", "edit"}
         /\ Active(w) => request[w].kind \in {"patch", "edit", "delete", "dispatch"} \cup StopKind
<1>1. CASE ~Active(w)
  BY <1>1 DEF Active
<1>2. CASE Active(w)
  <2>1. request[w] \in Work /\ Course(request[w])
    BY <1>2, Working
  <2>2. request[w].kind \in {"patch", "edit", "delete", "dispatch"} \cup StopKind
    BY <2>1, KindAssumption DEF Work, StopKind
  <2>3. QED
    BY <2>1, <2>2 DEF Course, StopKind
<1>3. QED
  BY <1>1, <1>2

\* The cases of a step.
LEMMA Cases ==
  ASSUME Shape, NEW w \in Request, Step(w)
  PROVE  \/ findOrder(w) \/ selectOrder(w) \/ updateOrder(w) \/ commitChange(w) \/ removeOrder(w)
         \/ checkOrder(w) /\ request[w].kind = "dispatch"
         \/ placeStop(w) /\ request[w].kind = "dispatch"
         \/ commitDispatch(w) /\ request[w].kind = "dispatch"
         \/ findStop(w) /\ request[w].kind \in StopKind
         \/ advanceOrder(w) /\ request[w].kind \in StopKind
         \/ selectStop(w) /\ request[w].kind \in StopKind
         \/ updateStop(w) /\ request[w].kind \in StopKind
BY Kinds DEF Step, checkOrder, placeStop, commitDispatch, findStop, advanceOrder, selectStop,
             updateStop, At

Database ==
  /\ order \in [Order -> Row]
  /\ tripDriver \in [Trip -> Driver \cup {NoDriver}]
  /\ startedAt \in [Trip -> BOOLEAN]
  /\ stop \in [Trip -> [Order -> StopStatus \cup {Absent}]]
  /\ ordersThisPeriod \in 0..OrderLimit

LEMMA StepShape ==
  ASSUME Shape, NEW w \in Request, Step(w)
  PROVE  /\ Ends(w) \/ Continues(w)
         /\ Database' /\ UNCHANGED repeated
<1>1. Database
  BY DEF Database, Shape
<1>2. UNCHANGED <<order, tripDriver, startedAt, stop, ordersThisPeriod>> => Database'
  BY <1>1 DEF Database
<1>3. CASE findOrder(w)
  BY <1>2, <1>3, Finding
<1>4. CASE selectOrder(w)
  BY <1>2, <1>4, Selecting
<1>5. CASE updateOrder(w)
  BY <1>2, <1>5, Updating DEF Resumes
<1>6. CASE commitChange(w)
  BY <1>1, <1>6, ChangeCommits DEF CommitsOrders, Database
<1>7. CASE removeOrder(w)
  BY <1>1, <1>7, Removing DEF Database
<1>8. CASE checkOrder(w) /\ request[w].kind = "dispatch"
  BY <1>2, <1>8, Checking
<1>9. CASE placeStop(w) /\ request[w].kind = "dispatch"
  BY <1>2, <1>9, Placing
<1>10. CASE commitDispatch(w) /\ request[w].kind = "dispatch"
  BY <1>1, <1>10, DispatchCommits DEF CommitsOrders, Database
<1>11. CASE findStop(w) /\ request[w].kind \in StopKind
  BY <1>2, <1>11, FindingStop
<1>12. CASE advanceOrder(w) /\ request[w].kind \in StopKind
  BY <1>2, <1>12, Advancing
<1>13. CASE selectStop(w) /\ request[w].kind \in StopKind
  BY <1>2, <1>13, SelectingStop
<1>14. CASE updateStop(w) /\ request[w].kind \in StopKind
  <2>1. CASE Ends(w) /\ UNCHANGED <<order, tripDriver, startedAt, stop, ordersThisPeriod, repeated>>
    BY <1>2, <2>1
  <2>2. CASE /\ CommitsOrders(w)
             /\ stop' \in [Trip -> [Order -> StopStatus \cup {Absent}]]
             /\ startedAt' \in [Trip -> BOOLEAN]
             /\ UNCHANGED <<tripDriver, ordersThisPeriod>>
    BY <1>1, <2>2 DEF CommitsOrders, Database
  <2>3. QED
    BY <1>14, <2>1, <2>2, UpdatingStop
<1>15. QED
  BY <1>3, <1>4, <1>5, <1>6, <1>7, <1>8, <1>9, <1>10, <1>11, <1>12, <1>13, <1>14, Cases

\* A step of a request changes the record of that request and no other.
LEMMA OneRecord ==
  ASSUME NEW w \in Request, rollback(w) \/ Step(w) \/ arrives(w)
  PROVE  \E x : request' = [request EXCEPT ![w] = x]
<1>1. ASSUME NEW x, Starts(w, x) PROVE \E y : request' = [request EXCEPT ![w] = y]
  BY <1>1 DEF Starts
<1>2. ASSUME NEW x, Goes(w, x) PROVE \E y : request' = [request EXCEPT ![w] = y]
  BY <1>1, <1>2 DEF Goes
<1>3. rollback(w) => \E y : request' = [request EXCEPT ![w] = y]
  BY <1>2 DEF rollback
<1>4. commitOrders(w) => \E y : request' = [request EXCEPT ![w] = y]
  BY DEF commitOrders
<1>5. findOrder(w) \/ selectOrder(w) \/ updateOrder(w) =>
        \E y : request' = [request EXCEPT ![w] = y]
  <2>1. findOrder(w) => \E y : request' = [request EXCEPT ![w] = y]
    BY <1>2, <1>3 DEF findOrder
  <2>2. selectOrder(w) => \E y : request' = [request EXCEPT ![w] = y]
    BY <1>2 DEF selectOrder
  <2>3. updateOrder(w) => \E y : request' = [request EXCEPT ![w] = y]
    BY <1>2, <1>3 DEF updateOrder
  <2>4. QED
    BY <2>1, <2>2, <2>3
<1>6. commitChange(w) \/ removeOrder(w) \/ commitDispatch(w) =>
        \E y : request' = [request EXCEPT ![w] = y]
  BY <1>4 DEF commitChange, removeOrder, commitDispatch
<1>7. checkOrder(w) \/ placeStop(w) \/ findStop(w) \/ advanceOrder(w) \/ selectStop(w) =>
        \E y : request' = [request EXCEPT ![w] = y]
  <2>1. checkOrder(w) \/ findStop(w) => \E y : request' = [request EXCEPT ![w] = y]
    BY <1>2, <1>3 DEF checkOrder, findStop
  <2>2. placeStop(w) => \E y : request' = [request EXCEPT ![w] = y]
    BY <1>2, <1>3 DEF placeStop
  <2>3. advanceOrder(w) \/ selectStop(w) => \E y : request' = [request EXCEPT ![w] = y]
    BY <1>2, <1>3 DEF advanceOrder, selectStop
  <2>4. QED
    BY <2>1, <2>2, <2>3
<1>8. updateStop(w) => \E y : request' = [request EXCEPT ![w] = y]
  BY <1>3, <1>4 DEF updateStop
<1>9. arrives(w) => \E y : request' = [request EXCEPT ![w] = y]
  BY <1>1, <1>2 DEF arrives
<1>10. QED
  BY <1>3, <1>5, <1>6, <1>7, <1>8, <1>9 DEF Step

LEMMA ShapeStays ==
  ASSUME Shape, [Next]_vars
  PROVE  Shape'
<1>1. ASSUME NEW w \in Request, rollback(w) \/ Step(w) \/ arrives(w) PROVE Shape'
  <2>1. /\ Ends(w) \/ Continues(w) \/ Fresh(w)
        /\ Database' /\ repeated' \subseteq Order
    <3>1. CASE rollback(w)
      BY <3>1, RollingBack DEF Database, Shape
    <3>2. CASE Step(w)
      BY <3>2, StepShape DEF Shape
    <3>3. CASE arrives(w)
      BY <3>3, Opening DEF Database, Shape
    <3>4. QED
      BY <1>1, <3>1, <3>2, <3>3
  <2>2. \E x \in Work \cup {Idle} : request' = [request EXCEPT ![w] = x]
    <3>1. PICK x : request' = [request EXCEPT ![w] = x]
      BY <1>1, OneRecord
    <3>2. request'[w] = x
      BY <3>1 DEF Shape
    <3>3. QED
      BY <2>1, <3>1, <3>2 DEF Ends, Continues, Fresh
  <2>3. QED
    BY <2>1, <2>2 DEF Shape, Database, Active, Idle, Others, Ends, Continues, Fresh
<1>2. ASSUME NEW o \in Order, NEW b \in BOOLEAN, createOrder(o, b) PROVE Shape'
  BY <1>2, Creating DEF Shape, Active
<1>3. CASE UNCHANGED vars
  BY <1>3 DEF vars, Shape, Active
<1>4. QED
  BY <1>1, <1>2, <1>3 DEF Next, deadlockDetected, connectionLost

LEMMA ShapeAtFirst == Init => Shape
<1> SUFFICES ASSUME Init PROVE Shape
  OBVIOUS
<1>1. Cardinality(Waiting) \in 0..OrderLimit
  BY WaitingAssumption, OrderLimitAssumption, FS_CardinalityType
<1>2. order \in [Order -> Row]
  BY DEF Init, NoRow, Row, OrderStatus
<1>3. \A w \in Request : ~Active(w)
  BY DEF Init, Active, Idle
<1>4. QED
  BY <1>1, <1>2, <1>3 DEF Init, Shape

\* Every variable keeps its type.
THEOREM Typing == Spec => []TypeOK
<1>1. Init => Shape
  BY ShapeAtFirst
<1>2. Shape /\ [Next]_vars => Shape'
  BY ShapeStays
<1>3. Shape => TypeOK
  <2> SUFFICES ASSUME Shape PROVE TypeOK
    OBVIOUS
  <2>1. \A w \in Request : Active(w) => /\ here(w) \in Order
          /\ request[w].entity \in Row /\ request[w].selected \in Row
          /\ \A o \in DOMAIN request[w].own : request[w].own[o] \in Row
    BY Working DEF Work
  <2>2. QED
    BY <2>1 DEF Shape, TypeOK
<1>4. QED
  BY <1>1, <1>2, <1>3, PTL DEF Spec

-----------------------------------------------------------------------------
(* A stop for each order *)

\* Without a new stop, and without a new order placed, both invariants stay.
LEMMA NoneAdded ==
  ASSUME Shape, OneStopEach, Alone,
         \A t \in Trip, o \in Order : stop'[t][o] # Absent => HasStop(o) /\ stop[t][o] # Absent,
         \A v \in Request : Active(v)' =>
           \/ request'[v].placed = {}
           \/ Active(v) /\ request'[v].placed = request[v].placed
                        /\ request'[v].kind = request[v].kind
  PROVE  OneStopEach' /\ Alone'
<1>1. OneStopEach'
  BY DEF OneStopEach
<1>2. \A v \in Request, o \in Order : Places(v, o)' => Places(v, o)
  BY DEF Places
<1>3. \A o \in Order : HasStop(o)' => HasStop(o)
  BY DEF HasStop
<1>4. ASSUME NEW w \in Request, Active(w)'
      PROVE  /\ request'[w].kind # "dispatch" => request'[w].placed = {}
             /\ \A o \in request'[w].placed :
                  ~HasStop(o)' /\ \A v \in Request \ {w} : ~Places(v, o)'
  <2>1. CASE request'[w].placed = {}
    BY <2>1
  <2>2. CASE Active(w) /\ request'[w].placed = request[w].placed
               /\ request'[w].kind = request[w].kind
    <3>1. request[w].placed \subseteq Order
      BY <2>2, Working DEF Work
    <3>2. QED
      BY <1>2, <1>3, <2>2, <3>1 DEF Alone
  <2>3. QED
    BY <1>4, <2>1, <2>2
<1>5. QED
  BY <1>1, <1>4 DEF Alone

LEMMA PlacingKeeps ==
  ASSUME Shape, OneStopEach, Alone, NEW w \in Request, placeStop(w),
         request[w].kind = "dispatch", Continues(w)
  PROVE  OneStopEach' /\ Alone'
<1>1. /\ UNCHANGED stop /\ Active(w) /\ ~PlacedByOther(w, here(w)) /\ placeable(w, here(w))
      /\ request'[w].placed = request[w].placed \cup {here(w)} /\ request'[w].kind = "dispatch"
  <2>1. ~Ends(w)
    BY NotIdle DEF Continues, Ends
  <2>2. QED
    BY <2>1, Placing DEF Continues
<1>2. here(w) \in Order /\ request[w].placed \subseteq Order
  BY <1>1, Working DEF Work
<1>3. OneStopEach' /\ \A o : HasStop(o)' <=> HasStop(o)
  BY <1>1 DEF OneStopEach, HasStop
<1>4. \A v \in Request \ {w} : request'[v] = request[v]
  BY DEF Continues, Others
<1>5. \A v \in Request \ {w} : \A o : Places(v, o)' <=> Places(v, o)
  BY <1>4 DEF Places, Active
<1>6. \A o : Places(w, o)' => Places(w, o) \/ o = here(w)
  BY <1>1 DEF Places
<1>7. \A o \in request'[w].placed : ~HasStop(o) /\ \A v \in Request \ {w} : ~Places(v, o)
  BY <1>1 DEF Alone, placeable, PlacedByOther
<1>8. ASSUME NEW v \in Request \ {w}, Active(v)'
      PROVE  /\ request'[v].kind # "dispatch" => request'[v].placed = {}
             /\ \A o \in request'[v].placed :
                  ~HasStop(o) /\ \A u \in Request \ {v} : ~Places(u, o)'
  <2>1. Active(v) /\ request'[v] = request[v]
    BY <1>4, <1>8 DEF Active
  <2>2. \A o \in request[v].placed : Places(v, o)
    BY <2>1 DEF Places
  <2>3. here(w) \notin request[v].placed
    BY <1>1, <2>2 DEF PlacedByOther
  <2>4. QED
    BY <1>5, <1>6, <2>1, <2>3 DEF Alone
<1>9. QED
  BY <1>1, <1>3, <1>5, <1>7, <1>8 DEF Alone

LEMMA DispatchKeeps ==
  ASSUME Shape, OneStopEach, Alone, NEW w \in Request, commitDispatch(w),
         request[w].kind = "dispatch"
  PROVE  OneStopEach' /\ Alone'
<1>1. /\ Active(w) /\ Ends(w)
      /\ \A t \in Trip, o \in Order :
           stop'[t][o] = IF t = request[w].trip /\ o \in request[w].placed
                         THEN "pending" ELSE stop[t][o]
  BY DispatchCommits DEF CommitsOrders
<1>2. \A o \in Order : o \in request[w].placed => ~HasStop(o)
  BY <1>1 DEF Alone
<1>3. OneStopEach'
  BY <1>1, <1>2 DEF OneStopEach, HasStop, Absent
<1>4. ASSUME NEW v \in Request, Active(v)'
      PROVE  /\ request'[v].kind # "dispatch" => request'[v].placed = {}
             /\ \A o \in request'[v].placed :
                  ~HasStop(o)' /\ \A u \in Request \ {v} : ~Places(u, o)'
  <2>1. v # w /\ Active(v) /\ request'[v] = request[v]
    BY <1>1, <1>4 DEF Ends, Others, Active, Idle
  <2>2. \A u \in Request : \A o : Places(u, o)' => Places(u, o)
    BY <1>1 DEF Places, Ends, Others, Active, Idle
  <2>3. \A o \in request[v].placed : ~Places(w, o) /\ ~HasStop(o)
    BY <2>1 DEF Alone
  <2>4. \A o \in request[v].placed : o \in Order /\ o \notin request[w].placed
    BY <1>1, <2>1, <2>3, Working DEF Places, Work
  <2>5. \A o \in request[v].placed : ~HasStop(o)'
    BY <1>1, <2>3, <2>4 DEF HasStop
  <2>6. QED
    BY <2>1, <2>2, <2>5 DEF Alone
<1>5. QED
  BY <1>3, <1>4 DEF Alone

LEMMA UpdateStopKeeps ==
  ASSUME Shape, OneStopEach, Alone, NEW w \in Request, updateStop(w),
         request[w].kind \in StopKind
  PROVE  OneStopEach' /\ Alone'
<1> DEFINE q == request[w]  o == here(w)
<1>1. Active(w) /\ Ends(w) /\ (q.stopSelected = Absent => ~PlacedByOther(w, o))
  BY UpdatingStop DEF CommitsOrders
<1>2. CASE UNCHANGED stop
  BY <1>1, <1>2, NoneAdded DEF HasStop, Ends, Others, Active, Idle
<1>3. CASE /\ q.stopSelected = Absent => placeable(w, o)
           /\ \A t \in Trip, p \in Order : t # q.trip \/ p # o => stop'[t][p] = stop[t][p]
           /\ stop'[q.trip][o] = IF q.stopSelected = Absent
                                     \/ (q.stopSelected # stopBecomes[q.kind]
                                           /\ stop[q.trip][o] # Absent)
                                THEN stopBecomes[q.kind] ELSE stop[q.trip][o]
  <2>1. CASE q.stopSelected # Absent
    <3>1. \A t \in Trip, p \in Order : stop'[t][p] # Absent => stop[t][p] # Absent
      BY <1>3, <2>1
    <3>2. \A t \in Trip, p \in Order : stop'[t][p] # Absent => HasStop(p)
      BY <3>1 DEF HasStop
    <3>3. QED
      BY <1>1, <3>1, <3>2, NoneAdded DEF Ends, Others, Active, Idle
  <2>2. CASE q.stopSelected = Absent
    <3>1. ~HasStop(o) /\ ~PlacedByOther(w, o) /\ o \in Order
      BY <1>1, <1>3, <2>2, Working DEF placeable
    <3>2. OneStopEach'
      BY <1>3, <3>1 DEF OneStopEach, HasStop
    <3>3. ASSUME NEW v \in Request, Active(v)'
          PROVE  /\ request'[v].kind # "dispatch" => request'[v].placed = {}
                 /\ \A p \in request'[v].placed :
                      ~HasStop(p)' /\ \A u \in Request \ {v} : ~Places(u, p)'
      <4>1. v # w /\ Active(v) /\ request'[v] = request[v]
        BY <1>1, <3>3 DEF Ends, Others, Active, Idle
      <4>2. \A u \in Request : \A p : Places(u, p)' => Places(u, p)
        BY <1>1 DEF Places, Ends, Others, Active, Idle
      <4>3. \A p \in request[v].placed : p \in Order /\ p # o /\ ~HasStop(p)
        <5>1. request[v].placed \subseteq Order
          BY <4>1, Working DEF Work
        <5>2. \A p \in request[v].placed : ~HasStop(p) /\ Places(v, p)
          BY <4>1 DEF Alone, Places
        <5>3. ~Places(v, o)
          BY <3>1, <4>1 DEF PlacedByOther
        <5>4. QED
          BY <5>1, <5>2, <5>3
      <4>4. \A p \in request[v].placed : ~HasStop(p)'
        BY <1>3, <4>3 DEF HasStop
      <4>5. QED
        BY <4>1, <4>2, <4>4 DEF Alone
    <3>4. QED
      BY <3>2, <3>3 DEF Alone
  <2>3. QED
    BY <2>1, <2>2
<1>4. QED
  BY <1>2, <1>3, UpdatingStop

LEMMA LoneStays ==
  ASSUME Shape, OneStopEach, Alone, [Next]_vars
  PROVE  OneStopEach' /\ Alone'
<1>1. ASSUME NEW w \in Request, UNCHANGED stop, Ends(w) \/ Fresh(w) PROVE OneStopEach' /\ Alone'
  BY <1>1, NoneAdded DEF HasStop, Ends, Fresh, Others, Active, Idle
<1>2. ASSUME NEW w \in Request, UNCHANGED stop, Continues(w), Active(w),
             request'[w].placed = request[w].placed
      PROVE  OneStopEach' /\ Alone'
  BY <1>2, NoneAdded DEF HasStop, Continues, Others, Active
<1>3. ASSUME NEW w \in Request, Step(w) PROVE OneStopEach' /\ Alone'
  <2>1. CASE findOrder(w)
    BY <1>1, <1>2, <2>1, Finding DEF SameRows
  <2>2. CASE selectOrder(w)
    BY <1>2, <2>2, Selecting DEF SameRows
  <2>3. CASE updateOrder(w)
    BY <1>1, <1>2, <2>3, Updating DEF Resumes
  <2>4. CASE commitChange(w)
    BY <1>1, <2>4, ChangeCommits DEF CommitsOrders
  <2>5. CASE removeOrder(w)
    <3>1. /\ Ends(w)
          /\ \A t \in Trip, o \in Order : stop'[t][o] # Absent => stop[t][o] # Absent
      BY <2>5, Removing
    <3>2. \A t \in Trip, o \in Order : stop'[t][o] # Absent => HasStop(o)
      BY <3>1 DEF HasStop
    <3>3. QED
      BY <3>1, <3>2, NoneAdded DEF Ends, Others, Active, Idle
  <2>6. CASE checkOrder(w) /\ request[w].kind = "dispatch"
    BY <1>1, <1>2, <2>6, Checking DEF SameRows
  <2>7. CASE placeStop(w) /\ request[w].kind = "dispatch"
    BY <1>1, <2>7, Placing, PlacingKeeps
  <2>8. CASE commitDispatch(w) /\ request[w].kind = "dispatch"
    BY <2>8, DispatchKeeps
  <2>9. CASE findStop(w) /\ request[w].kind \in StopKind
    BY <1>1, <1>2, <2>9, FindingStop DEF SameRows
  <2>10. CASE advanceOrder(w) /\ request[w].kind \in StopKind
    BY <1>1, <1>2, <2>10, Advancing DEF SameRows
  <2>11. CASE selectStop(w) /\ request[w].kind \in StopKind
    BY <1>2, <2>11, SelectingStop DEF SameRows
  <2>12. CASE updateStop(w) /\ request[w].kind \in StopKind
    BY <2>12, UpdateStopKeeps
  <2>13. QED
    BY <1>3, <2>1, <2>2, <2>3, <2>4, <2>5, <2>6, <2>7, <2>8, <2>9, <2>10, <2>11, <2>12, Cases
<1>4. ASSUME NEW w \in Request, rollback(w) PROVE OneStopEach' /\ Alone'
  BY <1>1, <1>4, RollingBack
<1>5. ASSUME NEW w \in Request, arrives(w) PROVE OneStopEach' /\ Alone'
  BY <1>1, <1>5, Opening
<1>6. ASSUME NEW o \in Order, NEW b \in BOOLEAN, createOrder(o, b) PROVE OneStopEach' /\ Alone'
  BY <1>6, Creating, NoneAdded DEF HasStop, Active
<1>7. CASE UNCHANGED vars
  BY <1>7, NoneAdded DEF vars, HasStop, Active
<1>8. QED
  BY <1>3, <1>4, <1>5, <1>6, <1>7 DEF Next, deadlockDetected, connectionLost

LEMMA AloneAtFirst == Init => Shape /\ OneStopEach /\ Alone
  BY ShapeAtFirst DEF Init, OneStopEach, Alone, Active, Idle

\* OneStopEach, for any requests of any kind, deletions and statuses set by hand included:
\* the rows that two transactions insert are serialised by the unique index.
THEOREM StopsAreUnique == Spec => []OneStopEach
<1>1. Init => Shape /\ OneStopEach /\ Alone
  BY AloneAtFirst
<1>2. (Shape /\ OneStopEach /\ Alone) /\ [Next]_vars => (Shape /\ OneStopEach /\ Alone)'
  BY ShapeStays, LoneStays
<1>3. QED
  BY <1>1, <1>2, PTL DEF Spec

-----------------------------------------------------------------------------
(* Rows, locks and the counter *)

\* An order that is not there has nothing left of it.
Gone == \A o \in Order : order[o].status = Absent => order[o] = NoRow

\* What a request is about to write, or has written, is the row of an order, and but for a
\* dispatch of the one order it is about.
Real(w) ==
  LET q == request[w] IN
  /\ q.pc \in {"select", "update"} => q.entity.status # Absent
  /\ \A o \in DOMAIN q.own : q.own[o].status # Absent
  /\ q.kind # "dispatch" => DOMAIN q.own \subseteq {here(w)}

\* A row has one writer at a time.
NoneShared == \A v, w \in Request : v # w => Locks(v) \cap Locks(w) = {}

Written == Gone /\ NoneShared /\ \A w \in Request : Active(w) => Real(w)

\* While the orders are as they were: what is left to show of a step of w.
LEMMA QuietWritten ==
  ASSUME Written, NEW w \in Request, Others(w), Gone',
         Active(w)' => Real(w)',
         \A o \in Locks(w)' : o \in Locks(w) \/ ~LockedByOther(w, o)
  PROVE  Written'
<1>1. \A v \in Request \ {w} : Locks(v)' = Locks(v) /\ (Active(v)' => Active(v) /\ Real(v)')
  <2> SUFFICES ASSUME NEW v \in Request \ {w}
               PROVE  Locks(v)' = Locks(v) /\ (Active(v)' => Active(v) /\ Real(v)')
    OBVIOUS
  <2>1. request'[v] = request[v]
    BY DEF Others
  <2>2. (Active(v)' <=> Active(v)) /\ here(v)' = here(v) /\ Locks(v)' = Locks(v)
    BY <2>1 DEF Active, here, Locks
  <2> QED BY <2>1, <2>2 DEF Written, Real
<1>2. \A v \in Request \ {w} : Locks(v) \cap Locks(w)' = {}
  BY DEF Written, NoneShared, LockedByOther
<1>3. NoneShared'
  <2> SUFFICES ASSUME NEW u \in Request, NEW v \in Request, u # v PROVE Locks(u)' \cap Locks(v)' = {}
    BY DEF NoneShared
  <2>1. CASE u # w /\ v # w
    BY <1>1, <2>1 DEF Written, NoneShared
  <2>2. CASE u = w \/ v = w
    BY <1>1, <1>2, <2>2
  <2> QED BY <2>1, <2>2
<1> QED BY <1>1, <1>3 DEF Written

\* A request that ends lets go of its rows.
LEMMA EndWritten ==
  ASSUME Written, NEW w \in Request, Ends(w), Gone' PROVE Written'
BY QuietWritten DEF Ends, Active, Idle, Locks

\* A step that writes no row and has nothing new in hand to write.
LEMMA ReadWritten ==
  ASSUME Written, NEW w \in Request, Active(w), UNCHANGED order, Continues(w),
         request'[w].own = request[w].own,
         request[w].kind = "dispatch" \/ SameList(w),
         request'[w].pc \in {"select", "update"} => request'[w].entity.status # Absent
  PROVE  Written'
<1>1. Gone'
  BY DEF Written, Gone
<1>2. Real(w)'
  BY DEF Written, Real, Continues, SameList, here
<1>3. Locks(w)' \subseteq Locks(w)
  BY DEF Locks
<1> QED BY <1>1, <1>2, <1>3, QuietWritten DEF Continues

\* What is found, and changed, is the row of an order.
LEMMA FindWritten ==
  ASSUME Shape, Written, NEW w \in Request, findOrder(w) PROVE Written'
<1>1. CASE Ends(w)
  BY <1>1, Finding, EndWritten DEF Written, Gone
<1>2. CASE ~Ends(w)
  <2> DEFINE q == request[w]
  <2>1. /\ UNCHANGED order /\ Active(w) /\ q.pc = "find"
        /\ Continues(w) /\ SameList(w) /\ SameRows(w)
        /\ accepts(q, Seen(w, here(w))) /\ request'[w].entity = changed(q, Seen(w, here(w)))
        /\ request'[w].pc = IF q.kind = "delete" THEN "remove" ELSE "select"
    BY <1>2, Finding DEF At
  <2>2. q \in Work /\ Course(q) /\ Seen(w, here(w)) \in Row
    BY <2>1, Working
  <2>3. Seen(w, here(w)).status \in OrderStatus
    BY <2>1, <2>2, RowFacts DEF accepts
  <2>4. changed(q, Seen(w, here(w))).status # Absent
    <3>1. CASE q.kind \in {"edit", "delete"}
      <4>1. changed(q, Seen(w, here(w))).status = Seen(w, here(w)).status
        BY <2>2, <3>1 DEF changed, Row
      <4> QED BY <2>3, <4>1, Words
    <3>2. CASE q.kind \notin {"edit", "delete"}
      <4>1. /\ Head(q.hops) \in ALLOWED_ORDER_STATUS_TRANSITIONS[Seen(w, here(w)).status]
            /\ changed(q, Seen(w, here(w))).status \in {"assigned", Head(q.hops)}
        BY <2>1, <2>2, <3>2 DEF changed, accepts, Row
      <4> QED BY <2>3, <4>1, Words DEF Absent
    <3> QED BY <3>1, <3>2
  <2> QED BY <2>1, <2>4, ReadWritten DEF SameRows
<1> QED BY <1>1, <1>2

\* A save writes a row nobody else has locked, and never empties its status.
LEMMA SaveWritten ==
  ASSUME Shape, Written, NEW w \in Request, updateOrder(w) PROVE Written'
<1> DEFINE q == request[w]  row == Seen(w, here(w))
<1>1. /\ UNCHANGED order /\ Active(w) /\ q.pc = "update" /\ ~LockedByOther(w, here(w))
      /\ Gone'
  BY Updating DEF At, Written, Gone
<1>2. /\ q \in Work /\ q.entity \in Row /\ q.selected \in Row /\ row \in Row
      /\ here(w) \in Order /\ Real(w) /\ Course(q)
  BY <1>1, Working DEF Work, Written
<1>3. row # NoRow => row.status # Absent
  BY <1>1, <1>2 DEF Seen, Real, Written, Gone
<1>4. CASE Ends(w)
  BY <1>1, <1>4, EndWritten
<1>5. CASE Resumes(w) /\ SameRows(w)
  <2>1. request'[w].pc \notin {"select", "update"}
    BY <1>1, <1>2, <1>5, Kinds DEF Resumes, StopKind, Course
  <2> QED BY <1>1, <1>5, <2>1, ReadWritten DEF Resumes, SameRows
<1>6. ASSUME NEW new, new.status # Absent, Resumes(w), SavedRow(w, new) PROVE Written'
  <2>1. request'[w].pc \notin {"select", "update"} /\ here(w)' = here(w)
    BY <1>1, <1>2, <1>6, Kinds DEF Resumes, StopKind, SameList, here, Course
  <2>2. Real(w)'
    BY <1>2, <1>6, <2>1 DEF Real, SavedRow, Resumes, Continues
  <2>3. \A o \in Locks(w)' : o \in Locks(w) \/ o = here(w)
    BY <1>1, <1>6 DEF Locks, SavedRow
  <2> QED BY <1>1, <1>6, <2>2, <2>3, QuietWritten DEF Resumes, Continues
<1>7. q.entity.status # Absent
  BY <1>1, <1>2 DEF Real
<1>8. row # NoRow => merged(q, row).status # Absent
  BY <1>2, <1>3, <1>7, Merging
<1> QED BY <1>4, <1>5, <1>6, <1>7, <1>8, Updating

\* A commit writes rows of orders.
LEMMA CommitWritten ==
  ASSUME Shape, Written, NEW w \in Request, Active(w), CommitsOrders(w) PROVE Written'
<1>1. Real(w)
  BY DEF Written
<1>2. Gone'
  BY <1>1 DEF Gone, CommitsOrders, Seen, Real, Written
<1> QED BY <1>2, EndWritten DEF CommitsOrders

\* Every step keeps what is said of the rows.
LEMMA WrittenStays == ASSUME Shape, Written, [Next]_vars PROVE Written'
<1>1. ASSUME NEW w \in Request, Step(w) PROVE Written'
  <2>1. CASE findOrder(w)
    BY <2>1, FindWritten
  <2>2. CASE selectOrder(w)
    <3>1. /\ UNCHANGED order /\ Active(w) /\ Continues(w) /\ SameList(w) /\ SameRows(w)
          /\ request'[w].entity = request[w].entity /\ request[w].pc = "select"
      BY <2>2, Selecting DEF At
    <3> QED BY <3>1, ReadWritten DEF SameRows, Written, Real
  <2>3. CASE updateOrder(w)
    BY <2>3, SaveWritten
  <2>4. CASE commitChange(w)
    BY <2>4, ChangeCommits, CommitWritten
  <2>5. CASE removeOrder(w)
    <3>1. Ends(w) /\ Gone'
      <4>1. Ends(w) /\ \A o \in Order : order'[o] \in {NoRow, order[o]}
        BY <2>5, Removing DEF removeOrder, Shape
      <4> QED BY <4>1 DEF Written, Gone
    <3> QED BY <3>1, EndWritten
  <2>6. CASE checkOrder(w) /\ request[w].kind = "dispatch"
    <3>1. /\ UNCHANGED order /\ Active(w)
          /\ Ends(w) \/ (Continues(w) /\ SameList(w) /\ SameRows(w) /\ request'[w].pc = "find")
      BY <2>6, Checking
    <3>2. Gone'
      BY <3>1 DEF Written, Gone
    <3> QED BY <3>1, <3>2, EndWritten, ReadWritten DEF SameRows
  <2>7. CASE placeStop(w) /\ request[w].kind = "dispatch"
    <3>1. /\ UNCHANGED order /\ Active(w)
          /\ \/ Ends(w)
             \/ /\ Continues(w) /\ request'[w].own = request[w].own
                /\ request'[w].pc \in {"check", "commitDispatch"}
      BY <2>7, Placing
    <3>2. Gone'
      BY <3>1 DEF Written, Gone
    <3> QED BY <2>7, <3>1, <3>2, EndWritten, ReadWritten
  <2>8. CASE commitDispatch(w) /\ request[w].kind = "dispatch"
    BY <2>8, DispatchCommits, CommitWritten
  <2>9. CASE findStop(w) /\ request[w].kind \in StopKind
    <3>1. /\ UNCHANGED order /\ Active(w)
          /\ Ends(w) \/ (Continues(w) /\ SameList(w) /\ SameRows(w) /\ request'[w].pc = "advance")
      BY <2>9, FindingStop
    <3>2. Gone'
      BY <3>1 DEF Written, Gone
    <3> QED BY <3>1, <3>2, EndWritten, ReadWritten DEF SameRows
  <2>10. CASE advanceOrder(w) /\ request[w].kind \in StopKind
    <3>1. /\ UNCHANGED order /\ Active(w)
          /\ \/ Ends(w)
             \/ /\ Continues(w) /\ SameList(w) /\ SameRows(w)
                /\ request'[w].pc \in {"selectStop", "find"}
      BY <2>10, Advancing
    <3>2. Gone'
      BY <3>1 DEF Written, Gone
    <3> QED BY <3>1, <3>2, EndWritten, ReadWritten DEF SameRows
  <2>11. CASE selectStop(w) /\ request[w].kind \in StopKind
    BY <2>11, SelectingStop, ReadWritten DEF SameRows
  <2>12. CASE updateStop(w) /\ request[w].kind \in StopKind
    <3>1. Active(w) /\ ((Ends(w) /\ UNCHANGED order) \/ CommitsOrders(w))
      BY <2>12, UpdatingStop
    <3>2. UNCHANGED order => Gone'
      BY DEF Written, Gone
    <3> QED BY <3>1, <3>2, EndWritten, CommitWritten
  <2> QED
    BY <1>1, <2>1, <2>2, <2>3, <2>4, <2>5, <2>6, <2>7, <2>8, <2>9, <2>10, <2>11, <2>12, Cases
<1>2. ASSUME NEW w \in Request, rollback(w) PROVE Written'
  BY <1>2, RollingBack, EndWritten DEF Written, Gone
<1>3. ASSUME NEW w \in Request, arrives(w) PROVE Written'
  <2>1. /\ Others(w) /\ UNCHANGED order /\ DOMAIN request'[w].own = {}
        /\ request'[w].pc \in {"find", "check", "stop"}
    BY <1>3, Opening DEF Fresh, StopKind
  <2>2. Real(w)' /\ Locks(w)' = {} /\ Gone'
    BY <2>1 DEF Real, Locks, Written, Gone
  <2> QED BY <2>1, <2>2, QuietWritten
<1>4. ASSUME NEW o \in Order, NEW b \in BOOLEAN, createOrder(o, b) PROVE Written'
  <2>1. /\ UNCHANGED request /\ order'[o].status = "pending"
        /\ \A p \in Order \ {o} : order'[p] = order[p]
    BY <1>4, Creating
  <2>2. Gone'
    BY <2>1 DEF Written, Gone, Absent
  <2> QED BY <2>1, <2>2 DEF Written, NoneShared, Real, Locks, Active, here
<1>5. CASE UNCHANGED vars
  BY <1>5 DEF vars, Written, Gone, NoneShared, Real, Locks, Active, here
<1> QED
  BY <1>1, <1>2, <1>3, <1>4, <1>5 DEF Next, deadlockDetected, connectionLost

\* At first no request has written anything.
LEMMA WrittenAtFirst == Init => Written
<1> SUFFICES ASSUME Init PROVE Written
  OBVIOUS
<1>1. \A w \in Request : ~Active(w) /\ Locks(w) = {}
  BY DEF Init, Active, Idle, Locks
<1>2. Gone
  BY DEF Init, Gone, NoRow, Absent
<1> QED BY <1>1, <1>2 DEF Written, NoneShared

\* Whoever waits for a request that is not a dispatch waits for the row it has written.
LEMMA WaitsForRow ==
  ASSUME Shape, Alone, Written, NEW v \in Request, NEW w \in Request, Waits(v, w), Active(w),
         request[w].kind # "dispatch"
  PROVE  here(v) = here(w) /\ here(w) \in Locks(w)
<1>1. request[w].placed = {} /\ Real(w)
  BY DEF Alone, Written
<1>2. here(v) \in Locks(w)
  BY <1>1 DEF Waits, Places
<1> QED BY <1>1, <1>2 DEF Real, Locks

\* Deadlocks come from dispatches only, which are the only requests to write more than one
\* order: a status change, an edit, a delete and a stop operation wait for the row of their
\* one order only, so two of them never wait for each other in turn (updateOrder, updateStop).
THEOREM DeadlocksNeedDispatch ==
  Spec => [](\A S \in (SUBSET Request) \ {{}} :
               (\A v \in S : Active(v) /\ \E u \in S : Waits(v, u))
                 => \E v \in S : request[v].kind = "dispatch")
<1> DEFINE IInv == Shape /\ OneStopEach /\ Alone /\ Written
           Broken == \A S \in (SUBSET Request) \ {{}} :
                       (\A v \in S : Active(v) /\ \E u \in S : Waits(v, u))
                         => \E v \in S : request[v].kind = "dispatch"
<1>1. Init => IInv
  BY AloneAtFirst, WrittenAtFirst
<1>2. IInv /\ [Next]_vars => IInv'
  BY ShapeStays, LoneStays, WrittenStays
<1>3. IInv => Broken
  <2> SUFFICES ASSUME IInv, NEW S \in (SUBSET Request) \ {{}},
                      \A v \in S : Active(v) /\ \E u \in S : Waits(v, u),
                      \A v \in S : request[v].kind # "dispatch"
               PROVE  FALSE
    OBVIOUS
  <2>1. PICK v \in S, w \in S, x \in S : Waits(v, w) /\ Waits(w, x)
    OBVIOUS
  <2>2. v \in Request /\ w \in Request /\ x \in Request /\ w # x
    BY <2>1 DEF Waits
  <2>3. here(w) \in Locks(w) /\ here(w) \in Locks(x)
    BY <2>1, <2>2, WaitsForRow
  <2> QED BY <2>2, <2>3 DEF Written, NoneShared
<1> HIDE DEF IInv, Broken
<1>4. Spec => []Broken
  BY <1>1, <1>2, <1>3, PTL DEF Spec
<1> QED BY <1>4 DEF Broken

\* The orders there are after a step.
LEMMA StoredAfter ==
  ASSUME Shape, Written, IsFiniteSet(Order), ordersThisPeriod <= Cardinality(Stored), [Next]_vars
  PROVE  (ordersThisPeriod <= Cardinality(Stored))'
<1>1. /\ IsFiniteSet(Stored) /\ IsFiniteSet(Stored')
      /\ Cardinality(Stored) \in Nat /\ Cardinality(Stored') \in Nat /\ ordersThisPeriod \in Nat
  BY FS_Subset, FS_CardinalityType, OrderLimitAssumption DEF Stored, Shape
<1>2. ASSUME UNCHANGED ordersThisPeriod, Stored \subseteq Stored'
      PROVE  (ordersThisPeriod <= Cardinality(Stored))'
  <2>1. Cardinality(Stored) <= Cardinality(Stored')
    BY <1>1, <1>2, FS_Subset
  <2> QED BY <1>1, <1>2, <2>1
<1>3. ASSUME NEW w \in Request, Active(w), CommitsOrders(w) PROVE Stored \subseteq Stored'
  <2>1. \A o \in DOMAIN request[w].own : request[w].own[o] # NoRow
    BY <1>3 DEF Written, Real, NoRow
  <2>2. \A o \in Stored : order'[o] # NoRow
    BY <1>3, <2>1 DEF Stored, CommitsOrders, Seen
  <2> QED BY <2>2 DEF Stored
<1>4. UNCHANGED order => Stored \subseteq Stored'
  BY DEF Stored
<1>5. ASSUME NEW w \in Request, Step(w) PROVE (ordersThisPeriod <= Cardinality(Stored))'
  <2>1. CASE removeOrder(w)
    <3>1. here(w) \in Order /\ ordersThisPeriod' = oneLess(ordersThisPeriod)
          /\ order' = [order EXCEPT ![here(w)] = NoRow]
      BY <2>1, Removing, Working DEF removeOrder
    <3>2. Stored \ {here(w)} \subseteq Stored'
      BY <3>1 DEF Stored, Shape
    <3>3. /\ IsFiniteSet(Stored \ {here(w)})
          /\ Cardinality(Stored) - 1 <= Cardinality(Stored \ {here(w)})
      <4> DEFINE left(x) == Stored \ {x}
      <4>1. \A x : /\ IsFiniteSet(left(x))
                   /\ Cardinality(left(x)) =
                        IF x \in Stored THEN Cardinality(Stored) - 1 ELSE Cardinality(Stored)
        BY <1>1, FS_RemoveElement
      <4> HIDE DEF left
      <4>2. /\ IsFiniteSet(left(here(w)))
            /\ Cardinality(Stored) - 1 <= Cardinality(left(here(w)))
        BY <1>1, <4>1
      <4> QED BY <4>2 DEF left
    <3>4. Cardinality(Stored \ {here(w)}) <= Cardinality(Stored')
      BY <1>1, <3>2, FS_Subset
    <3>5. Cardinality(Stored \ {here(w)}) \in Nat
      BY <3>3, FS_CardinalityType
    <3> QED BY <1>1, <3>1, <3>3, <3>4, <3>5 DEF oneLess
  <2>2. CASE ~removeOrder(w)
    <3>1. UNCHANGED ordersThisPeriod /\ (UNCHANGED order \/ (Active(w) /\ CommitsOrders(w)))
      BY <1>5, <2>2, Cases, Finding, Selecting, Updating, ChangeCommits, Checking, Placing,
         DispatchCommits, FindingStop, Advancing, SelectingStop, UpdatingStop
    <3> QED BY <1>2, <1>3, <1>4, <3>1
  <2> QED BY <2>1, <2>2
<1>6. ASSUME NEW w \in Request, rollback(w) \/ arrives(w)
      PROVE  (ordersThisPeriod <= Cardinality(Stored))'
  BY <1>2, <1>4, <1>6, RollingBack, Opening
<1>7. ASSUME NEW o \in Order, NEW b \in BOOLEAN, createOrder(o, b)
      PROVE  (ordersThisPeriod <= Cardinality(Stored))'
  <2>1. /\ order[o] = NoRow /\ order'[o] # NoRow
        /\ \A p \in Order \ {o} : order'[p] = order[p]
        /\ ordersThisPeriod' = ordersThisPeriod + 1
    BY <1>7, Creating DEF createOrder, NoRow, Absent
  <2>2. Stored' = Stored \cup {o} /\ o \notin Stored
    BY <2>1 DEF Stored
  <2>3. Cardinality(Stored') = Cardinality(Stored) + 1
    BY <1>1, <2>2, FS_AddElement
  <2> QED BY <1>1, <2>1, <2>3
<1>8. CASE UNCHANGED vars
  BY <1>2, <1>4, <1>8 DEF vars
<1> QED
  BY <1>5, <1>6, <1>7, <1>8 DEF Next, deadlockDetected, connectionLost

\* The counter never counts an order that is not there, whatever requests overlap, so nobody
\* is refused an order while there are fewer than the limit: deletes that overlap, and saves
\* that insert a deleted order again, only make it lower (usages.orders_this_period).
THEOREM CounterNeverHigh ==
  ASSUME IsFiniteSet(Order)
  PROVE  Spec => [](ordersThisPeriod <= Cardinality(Stored))
<1> DEFINE Covered == ordersThisPeriod <= Cardinality(Stored)
           IInv == Shape /\ Written /\ Covered
<1>1. Init => IInv
  <2> SUFFICES ASSUME Init PROVE Covered
    BY ShapeAtFirst, WrittenAtFirst
  <2>1. Stored = Waiting /\ ordersThisPeriod = Cardinality(Waiting)
    BY WaitingAssumption DEF Init, Stored, NoRow, Absent
  <2>2. Cardinality(Waiting) \in Nat
    BY WaitingAssumption, FS_CardinalityType
  <2> QED BY <2>1, <2>2
<1>2. IInv /\ [Next]_vars => IInv'
  BY ShapeStays, WrittenStays, StoredAfter
<1>3. IInv => Covered
  OBVIOUS
<1> HIDE DEF IInv, Covered
<1>4. Spec => []Covered
  BY <1>1, <1>2, <1>3, PTL DEF Spec
<1> QED BY <1>4 DEF Covered

-----------------------------------------------------------------------------
(* What a request has still to do *)

\* What a request has still to do of its own accord, in steps: at the orders of a dispatch
\* after this one, and in the statuses it has yet to save here.
StepsHere(q) ==
  CASE q.pc = "stop"    -> 20
    [] q.pc = "advance" -> 19
    [] q.pc = "check"   -> 4 * Len(q.hops) + 6
    [] q.pc = "find"    -> 4 * Len(q.hops) + 5
    [] q.pc = "select"  -> 4 * Len(q.hops) + 4
    [] q.pc = "update"  -> 4 * Len(q.hops) + 3
    [] q.pc \in {"remove", "place", "commit", "selectStop"} -> 2
    [] OTHER            -> 1

ToDo(q) == 20 * (Len(q.orders) - 1) + StepsHere(q)

\* At most three statuses are to be saved.
FewHops == \A w \in Request : Active(w) => Len(request[w].hops) <= 3

\* A request has one order or two, and a tail is one shorter.
LEMMA Lengths ==
  ASSUME NEW q \in Work
  PROVE  /\ Len(q.hops) \in Nat /\ Len(q.orders) \in 1..2
         /\ Len(q.orders) > 1 => Len(Tail(q.orders)) = 1
         /\ Len(q.hops) > 1 => Len(Tail(q.hops)) = Len(q.hops) - 1
<1>1. Len(q.hops) \in Nat
  <2>1. q.hops \in Seq(OrderStatus)
    BY DEF Work
  <2> QED BY <2>1, LenProperties
<1>2. Len(q.hops) > 1 => Len(Tail(q.hops)) = Len(q.hops) - 1
  <2>1. q.hops \in Seq(OrderStatus)
    BY DEF Work
  <2>2. q.hops # <<>> => Len(Tail(q.hops)) = Len(q.hops) - 1
    BY <2>1, HeadTailProperties
  <2>3. Len(q.hops) > 1 => q.hops # <<>>
    BY <2>1
  <2> QED BY <2>2, <2>3
<1>3. q.orders \in Lists
  BY DEF Work
<1>4. CASE \E o \in Order : q.orders = <<o>>
  BY <1>1, <1>2, <1>4
<1>5. CASE \E o, p \in Order : q.orders = <<o, p>>
  <2>1. Len(q.orders) = 2 /\ Len(Tail(q.orders)) = 1
    BY <1>5
  <2> QED BY <1>1, <1>2, <2>1
<1> QED BY <1>3, <1>4, <1>5 DEF Lists

\* At most three statuses are saved for one stop.
LEMMA FewHopsOf ==
  ASSUME NEW kind \in {"arrive", "complete", "skip"}, NEW s PROVE Len(hopsOf(kind, s)) \in 0..3
<1> DEFINE first == hopsFrom(s)
           then == lastHop[kind]
<1>1. first \in Seq(Later) /\ Len(first) \in {0, 1, 2}
  <2>1. first = <<>> \/ first = <<"in_transit">> \/ first = <<"picked_up", "in_transit">>
    BY DEF hopsFrom
  <2>2. "picked_up" \in Later /\ "in_transit" \in Later
    BY DEF Later
  <2> HIDE DEF first
  <2>3. first \in Seq(Later)
    <3>1. \A u, v \in Later : <<>> \in Seq(Later) /\ <<u>> \in Seq(Later) /\ <<u, v>> \in Seq(Later)
      OBVIOUS
    <3> QED BY <2>1, <2>2, <3>1
  <2>4. Len(first) = 0 \/ Len(first) = 1 \/ Len(first) = 2
    BY <2>1
  <2> QED BY <2>3, <2>4
<1>2. then \in Seq(Later) /\ Len(then) \in {0, 1}
  <2>1. then = <<>> \/ then = <<"delivered">> \/ then = <<"failed">>
    BY DEF lastHop
  <2>2. "delivered" \in Later /\ "failed" \in Later
    BY DEF Later
  <2> HIDE DEF then
  <2>3. then \in Seq(Later)
    <3>1. \A u \in Later : <<>> \in Seq(Later) /\ <<u>> \in Seq(Later)
      OBVIOUS
    <3> QED BY <2>1, <2>2, <3>1
  <2>4. Len(then) = 0 \/ Len(then) = 1
    BY <2>1
  <2> QED BY <2>3, <2>4
<1>3. hopsOf(kind, s) = first \o then
  BY DEF hopsOf
<1> HIDE DEF first, then
<1>4. Len(first \o then) = Len(first) + Len(then)
  BY <1>1, <1>2, ConcatProperties
<1>5. Len(first \o then) \in 0..3
  <2> DEFINE a == Len(first)
             b == Len(then)
  <2>1. a \in {0, 1, 2} /\ b \in {0, 1}
    BY <1>1, <1>2
  <2>2. Len(first \o then) = a + b
    BY <1>4
  <2> HIDE DEF a, b
  <2>3. a + b \in 0..3
    BY <2>1
  <2> QED BY <2>2, <2>3
<1> QED BY <1>3, <1>5

\* Where a request is after a step: fewer orders, or fewer statuses, or further on.
LEMMA Shortens ==
  ASSUME NEW q \in Work, NEW x \in Work, Len(q.hops) <= 3,
         \/ /\ x.orders = q.orders /\ x.hops = q.hops
            /\ \/ q.pc = "stop" /\ x.pc = "advance"
               \/ q.pc = "check" /\ x.pc = "find"
               \/ q.pc = "find" /\ x.pc \in {"select", "remove"}
               \/ q.pc = "select" /\ x.pc = "update"
               \/ q.pc = "update" /\ x.pc \in {"place", "commit", "selectStop"}
               \/ q.pc = "place" /\ x.pc = "commitDispatch"
               \/ q.pc = "selectStop" /\ x.pc = "updateStop"
         \/ /\ x.orders = q.orders /\ q.pc = "advance"
            /\ Len(x.hops) <= 3 /\ x.pc \in {"find", "selectStop"}
         \/ /\ x.orders = q.orders /\ q.pc = "update" /\ x.pc = "find"
            /\ Len(q.hops) > 1 /\ x.hops = Tail(q.hops)
         \/ /\ Len(q.orders) > 1 /\ x.orders = Tail(q.orders) /\ x.hops = q.hops
            /\ q.pc = "place" /\ x.pc = "check"
  PROVE  Len(x.hops) <= 3 /\ ToDo(x) < ToDo(q)
<1> DEFINE a == Len(q.hops)  b == Len(x.hops)  m == Len(q.orders)  n == Len(x.orders)
<1>0. /\ a \in Nat /\ m \in 1..2 /\ (m > 1 => Len(Tail(q.orders)) = 1)
      /\ a > 1 => Len(Tail(q.hops)) = a - 1
  BY Lengths
<1>1. a \in 0..3 /\ b \in Nat /\ m \in 1..2 /\ n \in 1..2
  <2>1. b \in Nat /\ n \in 1..2
    BY Lengths
  <2>2. a <= 3
    OBVIOUS
  <2> HIDE DEF a, b, m, n
  <2> QED BY <1>0, <2>1, <2>2
<1>2. /\ x.hops = q.hops => b = a
      /\ Len(q.hops) > 1 /\ x.hops = Tail(q.hops) => b = a - 1
      /\ x.orders = q.orders => n = m
      /\ Len(q.orders) > 1 /\ x.orders = Tail(q.orders) => n = 1 /\ m = 2
  <2>1. (x.hops = q.hops => b = a) /\ (x.orders = q.orders => n = m)
    OBVIOUS
  <2>2. Len(q.hops) > 1 /\ x.hops = Tail(q.hops) => b = a - 1
    BY <1>0
  <2>3. Len(q.orders) > 1 /\ x.orders = Tail(q.orders) => n = 1 /\ m > 1
    BY <1>0
  <2> HIDE DEF a, b, m, n
  <2>4. m > 1 => m = 2
    BY <1>0
  <2> QED BY <2>1, <2>2, <2>3, <2>4
<1>3. /\ q.pc = "stop" => StepsHere(q) = 20
      /\ q.pc = "advance" => StepsHere(q) = 19
      /\ q.pc = "check" => StepsHere(q) = 4 * a + 6
      /\ q.pc = "find" => StepsHere(q) = 4 * a + 5
      /\ q.pc = "select" => StepsHere(q) = 4 * a + 4
      /\ q.pc = "update" => StepsHere(q) = 4 * a + 3
      /\ q.pc \in {"place", "selectStop"} => StepsHere(q) = 2
  BY DEF StepsHere
<1>4. /\ x.pc = "advance" => StepsHere(x) = 19
      /\ x.pc = "check" => StepsHere(x) = 4 * b + 6
      /\ x.pc = "find" => StepsHere(x) = 4 * b + 5
      /\ x.pc = "select" => StepsHere(x) = 4 * b + 4
      /\ x.pc = "update" => StepsHere(x) = 4 * b + 3
      /\ x.pc \in {"remove", "place", "commit", "selectStop"} => StepsHere(x) = 2
      /\ x.pc \in {"commitDispatch", "updateStop"} => StepsHere(x) = 1
  BY DEF StepsHere
<1>5. ToDo(q) = 20 * (m - 1) + StepsHere(q) /\ ToDo(x) = 20 * (n - 1) + StepsHere(x)
  BY DEF ToDo
<1> HIDE DEF a, b, m, n
<1>6. b <= 3 /\ ToDo(x) < ToDo(q)
  <2>1. CASE /\ x.orders = q.orders /\ x.hops = q.hops
             /\ \/ q.pc = "stop" /\ x.pc = "advance"
                \/ q.pc = "check" /\ x.pc = "find"
                \/ q.pc = "find" /\ x.pc \in {"select", "remove"}
                \/ q.pc = "select" /\ x.pc = "update"
                \/ q.pc = "update" /\ x.pc \in {"place", "commit", "selectStop"}
                \/ q.pc = "place" /\ x.pc = "commitDispatch"
                \/ q.pc = "selectStop" /\ x.pc = "updateStop"
    <3>1. n = m /\ b = a
      BY <1>2, <2>1
    <3>2. StepsHere(x) < StepsHere(q) /\ StepsHere(x) \in Int /\ StepsHere(q) \in Int
      BY <1>1, <1>3, <1>4, <2>1, <3>1
    <3> QED BY <1>1, <1>5, <3>1, <3>2
  <2>2. CASE /\ x.orders = q.orders /\ q.pc = "advance"
             /\ b <= 3 /\ x.pc \in {"find", "selectStop"}
    <3>1. n = m /\ StepsHere(q) = 19 /\ StepsHere(x) \in {4 * b + 5, 2}
      BY <1>2, <1>3, <1>4, <2>2
    <3> QED BY <1>1, <1>5, <2>2, <3>1
  <2>3. CASE /\ x.orders = q.orders /\ q.pc = "update" /\ x.pc = "find"
             /\ Len(q.hops) > 1 /\ x.hops = Tail(q.hops)
    <3>1. n = m /\ b = a - 1 /\ StepsHere(q) = 4 * a + 3 /\ StepsHere(x) = 4 * b + 5
      BY <1>2, <1>3, <1>4, <2>3
    <3> QED BY <1>1, <1>5, <3>1
  <2>4. CASE /\ Len(q.orders) > 1 /\ x.orders = Tail(q.orders) /\ x.hops = q.hops
             /\ q.pc = "place" /\ x.pc = "check"
    <3>1. n = 1 /\ m = 2 /\ b = a /\ StepsHere(q) = 2 /\ StepsHere(x) = 4 * b + 6
      BY <1>2, <1>3, <1>4, <2>4
    <3> QED BY <1>1, <1>5, <3>1
  <2> QED BY <2>1, <2>2, <2>3, <2>4 DEF b
<1> QED BY <1>6 DEF b

\* A step of a request brings it nearer to its end.
LEMMA StepShortens ==
  ASSUME Shape, FewHops, NEW w \in Request, Step(w)
  PROVE  /\ Active(w) /\ Others(w)
         /\ ~Active(w)' \/ (Len(request'[w].hops) <= 3 /\ ToDo(request'[w]) < ToDo(request[w]))
<1> DEFINE q == request[w]
           x == request'[w]
<1>0. Ends(w) => ~Active(w)' /\ Others(w)
  BY DEF Ends, Active, Idle
<1>1. Active(w) => q \in Work /\ Course(q) /\ Len(q.hops) <= 3
  BY Working DEF FewHops
<1>2. Continues(w) => x \in Work /\ Others(w)
  BY DEF Continues
<1> HIDE DEF x
<1>3. CASE findOrder(w)
  BY <1>0, <1>1, <1>2, <1>3, Finding, Shortens DEF SameList, SameHops, At, x
<1>4. CASE selectOrder(w)
  BY <1>1, <1>2, <1>4, Selecting, Shortens DEF SameList, SameHops, At, x
<1>5. CASE updateOrder(w)
  <2>1. Active(w) /\ q.pc = "update" /\ (Ends(w) \/ Resumes(w))
    BY <1>5, Updating DEF At
  <2>2. q.kind \in {"patch", "edit", "dispatch"} \cup {"arrive", "complete", "skip"}
    BY <1>1, <2>1, KindAssumption DEF Course, Work
  <2>3. ASSUME Resumes(w) PROVE Others(w) /\ Len(x.hops) <= 3 /\ ToDo(x) < ToDo(q)
    <3>1. Continues(w) /\ x.orders = q.orders
      BY <2>3 DEF Resumes, SameList, x
    <3>2. \/ x.hops = q.hops /\ x.pc \in {"place", "commit", "selectStop"}
          \/ Len(q.hops) > 1 /\ x.hops = Tail(q.hops) /\ x.pc = "find"
      BY <2>2, <2>3 DEF Resumes, SameHops, x
    <3> QED BY <1>1, <1>2, <2>1, <3>1, <3>2, Shortens
  <2> QED BY <1>0, <2>1, <2>3 DEF x
<1>6. CASE commitChange(w)
  BY <1>0, <1>6, ChangeCommits DEF CommitsOrders
<1>7. CASE removeOrder(w)
  BY <1>0, <1>7, Removing
<1>8. CASE checkOrder(w) /\ q.kind = "dispatch"
  BY <1>0, <1>1, <1>2, <1>8, Checking, Shortens DEF SameList, SameHops, At, x
<1>9. CASE placeStop(w) /\ q.kind = "dispatch"
  <2>1. Active(w) /\ q.pc = "place"
    BY <1>9, Placing DEF At
  <2>2. CASE Ends(w)
    BY <1>0, <2>1, <2>2
  <2>3. CASE /\ Continues(w) /\ x.hops = q.hops
             /\ IF Len(q.orders) > 1
                THEN x.pc = "check" /\ x.orders = Tail(q.orders)
                ELSE x.pc = "commitDispatch" /\ x.orders = q.orders
    BY <1>1, <1>2, <2>1, <2>3, Shortens DEF x
  <2> QED BY <1>9, <2>2, <2>3, Placing DEF SameList, SameHops, x
<1>10. CASE commitDispatch(w) /\ q.kind = "dispatch"
  BY <1>0, <1>10, DispatchCommits DEF CommitsOrders
<1>11. CASE findStop(w) /\ q.kind \in StopKind
  BY <1>0, <1>1, <1>2, <1>11, FindingStop, Shortens DEF SameList, SameHops, At, x
<1>12. CASE advanceOrder(w) /\ q.kind \in StopKind
  <2>1. Active(w) /\ q.pc = "advance"
    BY <1>12, Advancing DEF At
  <2>2. CASE Ends(w)
    BY <1>0, <2>1, <2>2
  <2>3. CASE /\ Continues(w) /\ x.orders = q.orders
             /\ x.hops = hopsOf(q.kind, Seen(w, here(w)).status)
             /\ x.pc \in {"selectStop", "find"}
    <3>1. Len(x.hops) <= 3
      <4>1. q.kind \in {"arrive", "complete", "skip"}
        BY <1>12 DEF StopKind
      <4>2. Len(hopsOf(q.kind, Seen(w, here(w)).status)) \in 0..3
        BY <4>1, FewHopsOf
      <4> DEFINE n == Len(x.hops)
      <4>3. n \in 0..3
        BY <2>3, <4>2
      <4> HIDE DEF n
      <4>4. n <= 3
        BY <4>3
      <4> QED BY <4>4 DEF n
    <3> QED BY <1>1, <1>2, <2>1, <2>3, <3>1, Shortens DEF x
  <2> QED BY <1>12, <2>2, <2>3, Advancing DEF SameList, x
<1>13. CASE selectStop(w) /\ q.kind \in StopKind
  BY <1>1, <1>2, <1>13, SelectingStop, Shortens DEF SameList, SameHops, At, x
<1>14. CASE updateStop(w) /\ q.kind \in StopKind
  BY <1>0, <1>14, UpdatingStop DEF CommitsOrders
<1> QED
  BY <1>3, <1>4, <1>5, <1>6, <1>7, <1>8, <1>9, <1>10, <1>11, <1>12, <1>13, <1>14, Cases

\* A request begins with at most one status to save.
LEMMA FewAtFirst ==
  ASSUME Shape, NEW w \in Request, arrives(w)
  PROVE  Others(w) /\ ~Active(w) /\ Len(request'[w].hops) <= 3
<1>1. ~Active(w)
  BY DEF arrives
<1>2. \A s : Len(<<>>) = 0 /\ Len(<<s>>) = 1
  OBVIOUS
<1>3. ASSUME NEW kind, NEW pc, NEW t, NEW orders, NEW hops, NEW arg,
             Starts(w, Begin(kind, pc, t, orders, hops, arg)), Len(hops) \in {0, 1}
      PROVE  Others(w) /\ Len(request'[w].hops) <= 3
  <2> DEFINE x == Begin(kind, pc, t, orders, hops, arg)
  <2>1. x.hops = hops
    BY DEF Begin
  <2>2. request' = [request EXCEPT ![w] = x]
    BY <1>3 DEF Starts
  <2> HIDE DEF x
  <2>3. request'[w] = x /\ Others(w)
    BY <2>2, Becoming
  <2>4. Len(hops) <= 3
    BY <1>3
  <2> QED BY <2>1, <2>3, <2>4
<1>4. ASSUME NEW o \in Order, NEW s \in OrderStatus,
             Goes(w, Begin("patch", "find", "", <<o>>, <<s>>, FALSE))
      PROVE  Others(w) /\ Len(request'[w].hops) <= 3
  BY <1>2, <1>3, <1>4 DEF Goes
<1>5. ASSUME NEW kind, NEW o \in Stored, NEW arg, Goes(w, Begin(kind, "find", "", <<o>>, <<>>, arg))
      PROVE  Others(w) /\ Len(request'[w].hops) <= 3
  BY <1>2, <1>3, <1>5 DEF Goes
<1>6. ASSUME NEW t \in Trip, NEW d \in Driver, NEW list,
             Goes(w, Begin("dispatch", "check", t, list, <<"assigned">>, d))
      PROVE  Others(w) /\ Len(request'[w].hops) <= 3
  BY <1>2, <1>3, <1>6 DEF Goes
<1>7. ASSUME NEW kind, NEW t \in Trip, NEW o \in Order,
             Starts(w, Begin(kind, "stop", t, <<o>>, <<>>, FALSE))
      PROVE  Others(w) /\ Len(request'[w].hops) <= 3
  BY <1>2, <1>3, <1>7
<1> QED BY <1>1, <1>4, <1>5, <1>6, <1>7 DEF arrives

\* No step leaves more than three.
LEMMA HopsStayFew == ASSUME Shape, FewHops, [Next]_vars PROVE FewHops'
<1>1. ASSUME NEW w \in Request, Others(w), Active(w)' => Len(request'[w].hops) <= 3 PROVE FewHops'
  BY <1>1 DEF FewHops, Others, Active
<1>2. ASSUME NEW w \in Request, arrives(w) PROVE FewHops'
  BY <1>1, <1>2, FewAtFirst
<1>3. ASSUME NEW w \in Request, Step(w) PROVE FewHops'
  BY <1>1, <1>3, StepShortens
<1>4. ASSUME NEW w \in Request, rollback(w) PROVE FewHops'
  BY <1>1, <1>4, RollingBack DEF Ends, Active, Idle
<1>5. CASE request' = request
  BY <1>5 DEF FewHops, Active
<1> QED
  BY <1>2, <1>3, <1>4, <1>5 DEF Next, createOrder, deadlockDetected, connectionLost, vars

\* A request is never sent back: each of its steps leaves it fewer, of at most forty, and
\* only its own steps, a deadlock and a lost connection move it. Nothing is retried
\* (withTransaction), what other requests commit adds no order and no status to what it has
\* to do (advanceOrderTo). What RequestsEnd adds is that the steps are taken.
THEOREM RequestsShorten ==
  Spec => /\ [](\A w \in Request : Active(w) => ToDo(request[w]) \in 1..40)
          /\ [][\A w \in Request : Active(w) =>
                  \/ ~Active(w)'
                  \/ IF Step(w) THEN ToDo(request'[w]) < ToDo(request[w])
                                ELSE request'[w] = request[w]]_vars
<1> DEFINE Bounded == \A w \in Request : Active(w) => ToDo(request[w]) \in 1..40
           Shorter == \A w \in Request : Active(w) =>
                        \/ ~Active(w)'
                        \/ IF Step(w) THEN ToDo(request'[w]) < ToDo(request[w])
                                      ELSE request'[w] = request[w]
           IInv == Shape /\ FewHops
<1>1. Init => IInv
  BY ShapeAtFirst DEF Init, FewHops, Active, Idle
<1>2. IInv /\ [Next]_vars => IInv'
  BY ShapeStays, HopsStayFew
<1>3. IInv => Bounded
  <2> SUFFICES ASSUME IInv, NEW w \in Request, Active(w) PROVE ToDo(request[w]) \in 1..40
    OBVIOUS
  <2> DEFINE q == request[w]  a == Len(q.hops)  m == Len(q.orders)
  <2>1. a \in 0..3 /\ m \in 1..2
    <3>1. q \in Work /\ a <= 3
      BY Working DEF FewHops
    <3>2. a \in Nat /\ m \in 1..2
      BY <3>1, Lengths
    <3> HIDE DEF a, m
    <3> QED BY <3>1, <3>2
  <2>2. StepsHere(q) \in {20, 19, 4 * a + 6, 4 * a + 5, 4 * a + 4, 4 * a + 3, 2, 1}
    BY DEF StepsHere
  <2>3. ToDo(q) = 20 * (m - 1) + StepsHere(q)
    BY DEF ToDo
  <2> HIDE DEF a, m
  <2>4. ToDo(q) \in 1..40
    BY <2>1, <2>2, <2>3
  <2> QED BY <2>4
<1>4. IInv /\ [Next]_vars => [Shorter]_vars
  <2> SUFFICES ASSUME IInv, Next, NEW w \in Request, Active(w), Active(w)'
               PROVE  IF Step(w) THEN ToDo(request'[w]) < ToDo(request[w])
                                 ELSE request'[w] = request[w]
    OBVIOUS
  <2>1. CASE Step(w)
    BY <2>1, StepShortens
  <2>2. CASE ~Step(w)
    <3>1. \A v \in Request \ {w} : arrives(v) \/ Step(v) \/ rollback(v) => Others(v)
      BY FewAtFirst, StepShortens, RollingBack DEF Ends
    <3>2. ~arrives(w)
      BY DEF arrives
    <3>3. ~rollback(w)
      <4>1. rollback(w) => request'[w] = Idle
        BY RollingBack DEF Ends
      <4> QED BY <4>1 DEF Active, Idle
    <3> QED BY <2>2, <3>1, <3>2, <3>3 DEF Next, createOrder, deadlockDetected, connectionLost, Others
  <2> QED BY <2>1, <2>2
<1> HIDE DEF IInv, Bounded, Shorter
<1>5. Spec => []Bounded /\ [][Shorter]_vars
  BY <1>1, <1>2, <1>3, <1>4, PTL DEF Spec
<1> QED BY <1>5 DEF Bounded, Shorter

-----------------------------------------------------------------------------
(* Drivers *)

\* Nobody changes an order by hand, edits or deletes one.
Untouched == Kind \subseteq {"create", "dispatch", "arrive", "complete", "skip"}

Stops(w) == request[w].kind \in {"arrive", "complete", "skip"}
Dispatches(w) == request[w].kind = "dispatch"

\* A committed order is pending and has no driver until it is a stop, and then has the
\* driver of its trip.
Rest ==
  /\ \A o \in Order : order[o].status = Absent => order[o] = NoRow
  /\ \A o \in Order : ~HasStop(o) =>
       order[o].status \in {"pending", Absent} /\ order[o].driver = NoDriver
  /\ \A o \in Order, t \in Trip : stop[t][o] # Absent =>
       /\ order[o].status \notin {"pending", Absent}
       /\ order[o].driver = tripDriver[t] /\ tripDriver[t] # NoDriver

\* What is said of request w about any other: no row has two writers, no trip two
\* dispatches.
Apart ==
  \A v, w \in Request : v # w /\ Active(v) /\ Active(w) =>
    /\ DOMAIN request[v].own \cap DOMAIN request[w].own = {}
    /\ Dispatches(v) /\ Dispatches(w) => request[v].trip # request[w].trip

\* A row of a dispatch is assigned to its driver, or its order was dispatched meanwhile,
\* and then cannot be placed.
Loading(w) ==
  LET q == request[w] IN
  /\ tripDriver[q.trip] = NoDriver
  /\ \A i \in DOMAIN q.orders : order[q.orders[i]].status # Absent
  /\ \A o \in DOMAIN q.own :
       /\ order[o].status # Absent /\ q.own[o].status # Absent
       /\ HasStop(o) \/ (q.own[o].status = "assigned" /\ q.own[o].driver = q.arg)
       /\ o \in q.placed \/ (At(w, "place") /\ o = here(w))
  /\ q.placed \subseteq DOMAIN q.own
  /\ q.pc \in {"select", "update"} => q.entity.status = "assigned" /\ q.entity.driver = q.arg
  /\ At(w, "update") =>
       /\ q.selected.status # Absent
       /\ \/ q.selected.status = "pending" /\ q.selected.driver = NoDriver
          \/ HasStop(here(w)) \/ here(w) \in q.placed
  /\ At(w, "place") => HasStop(here(w)) \/ here(w) \in DOMAIN q.own

\* A stop operation leaves the driver of the order as it is, and never makes it pending.
Serving(w) ==
  LET q == request[w]  o == here(w) IN
  /\ stop[q.trip][o] # Absent
  /\ DOMAIN q.own \subseteq {o}
  /\ \A p \in DOMAIN q.own : q.own[p].driver = order[o].driver
                              /\ q.own[p].status \notin {"pending", Absent}
  /\ q.hops \in Seq(Later)
  /\ q.pc \in {"find", "select", "update"} => q.hops # <<>>
  /\ q.pc \in {"select", "update"} => q.entity.driver = order[o].driver
                                      /\ q.entity.status \notin {"pending", Absent}
  /\ At(w, "update") => q.selected.driver = order[o].driver /\ q.selected.status # Absent
  /\ At(w, "updateStop") => q.stopSelected # Absent

Assigned ==
  /\ Rest /\ Apart
  /\ \A w \in Request : Active(w) =>
       /\ Dispatches(w) => Loading(w)
       /\ Stops(w) => Serving(w)

LEMMA KindsUntouched ==
  ASSUME Shape, Untouched, NEW w \in Request, Active(w)
  PROVE  Dispatches(w) \/ Stops(w)
BY Working DEF Untouched, Work, Dispatches, Stops

\* What another request's step does not disturb.
LEMMA OthersKeep ==
  ASSUME Shape, NEW v \in Request, Active(v), request'[v] = request[v],
         \A t \in Trip, o \in Order : stop[t][o] # Absent => stop'[t][o] # Absent,
         \A o \in Order : order[o].status # Absent => order'[o].status # Absent,
         \A o \in Order : HasStop(o) => order'[o].driver = order[o].driver,
         \A t \in Trip : Dispatches(v) /\ t = request[v].trip => tripDriver'[t] = tripDriver[t]
  PROVE  /\ Dispatches(v) /\ Loading(v) => Loading(v)'
         /\ Stops(v) /\ Serving(v) => Serving(v)'
<1>1. /\ request[v] \in Work /\ Course(request[v]) /\ here(v) \in Order
      /\ DOMAIN request[v].own \subseteq Order
      /\ \A i \in DOMAIN request[v].orders : request[v].orders[i] \in Order
  BY Working, ListFacts DEF Work
<1>2. \A o \in Order : HasStop(o) => HasStop(o)'
  BY DEF HasStop
<1>3. here(v)' = here(v) /\ \A pc : At(v, pc)' <=> At(v, pc)
  BY DEF here, At
<1>4. ASSUME Dispatches(v), Loading(v) PROVE Loading(v)'
  <2>1. request[v].trip \in Trip
    BY <1>1, <1>4 DEF Course, Dispatches
  <2>2. QED
    BY <1>1, <1>2, <1>3, <1>4, <2>1 DEF Loading
<1>5. ASSUME Stops(v), Serving(v) PROVE Serving(v)'
  <2>1. request[v].trip \in Trip
    BY <1>1, <1>5 DEF Course, Stops
  <2>2. HasStop(here(v))
    BY <1>5, <2>1 DEF Serving, HasStop
  <2>3. QED
    BY <1>1, <1>2, <1>3, <1>5, <2>1, <2>2 DEF Serving
<1>6. QED
  BY <1>4, <1>5

\* While the database is as it was: what is left to show of a step of w.
LEMMA QuietStep ==
  ASSUME Shape, Assigned, NEW w \in Request, Others(w),
         UNCHANGED <<order, tripDriver, stop>>,
         Active(w)' => /\ Dispatches(w)' => Loading(w)'
                       /\ Stops(w)' => Serving(w)'
                       /\ \A v \in Request \ {w} : Active(v) =>
                            /\ DOMAIN request[v].own \cap DOMAIN request'[w].own = {}
                            /\ Dispatches(v) /\ Dispatches(w)' => request[v].trip # request'[w].trip
  PROVE  Assigned'
<1>1. Rest'
  BY DEF Assigned, Rest, HasStop
<1>2. ASSUME NEW v \in Request, v # w, Active(v)'
      PROVE  /\ Active(v) /\ request'[v] = request[v] /\ (Dispatches(v)' <=> Dispatches(v))
             /\ Dispatches(v)' => Loading(v)'
             /\ Stops(v)' => Serving(v)'
  <2>1. Active(v) /\ request'[v] = request[v]
    BY <1>2 DEF Others, Active
  <2>2. /\ Dispatches(v)' <=> Dispatches(v)
        /\ Stops(v)' <=> Stops(v)
    BY <2>1 DEF Dispatches, Stops
  <2>3. /\ Dispatches(v) => Loading(v)
        /\ Stops(v) => Serving(v)
    BY <2>1 DEF Assigned
  <2>4. QED
    BY <2>1, <2>2, <2>3, OthersKeep
<1>3. Apart'
  <2> SUFFICES ASSUME NEW u \in Request, NEW v \in Request, u # v, Active(u)', Active(v)'
               PROVE  /\ DOMAIN request'[u].own \cap DOMAIN request'[v].own = {}
                      /\ Dispatches(u)' /\ Dispatches(v)' => request'[u].trip # request'[v].trip
    BY DEF Apart
  <2>1. CASE u # w /\ v # w
    BY <1>2, <2>1 DEF Assigned, Apart
  <2>2. CASE u = w \/ v = w
    BY <1>2, <2>2
  <2>3. QED
    BY <2>1, <2>2
<1>4. QED
  BY <1>1, <1>2, <1>3 DEF Assigned

LEMMA EndKeeps ==
  ASSUME Shape, Assigned, NEW w \in Request, Ends(w), UNCHANGED <<order, tripDriver, stop>>
  PROVE  Assigned'
BY QuietStep DEF Ends, Active, Idle

\* A step of w that writes no row: what is left to show is about w.
LEMMA ReadKeeps ==
  ASSUME Shape, Assigned, NEW w \in Request, Active(w), Continues(w),
         UNCHANGED <<order, tripDriver, stop>>, request'[w].own = request[w].own,
         Dispatches(w) => Loading(w)',
         Stops(w) => Serving(w)'
  PROVE  Assigned'
<1>1. request'[w].kind = request[w].kind /\ request'[w].trip = request[w].trip /\ Others(w)
  BY DEF Continues
<1>2. \A v \in Request \ {w} : Active(v) =>
        /\ DOMAIN request[v].own \cap DOMAIN request[w].own = {}
        /\ Dispatches(v) /\ Dispatches(w) => request[v].trip # request[w].trip
  BY DEF Assigned, Apart
<1>3. (Dispatches(w)' <=> Dispatches(w)) /\ (Stops(w)' <=> Stops(w))
  BY <1>1 DEF Dispatches, Stops
<1>4. QED
  BY <1>1, <1>2, <1>3, QuietStep

\* What is known of the row a request sees.
LEMMA RowSeen ==
  ASSUME Shape, Assigned, NEW w \in Request, Active(w)
  PROVE  /\ Dispatches(w) /\ Loading(w) =>
              LET row == Seen(w, here(w)) IN
              /\ row.status # Absent
              /\ here(w) \notin DOMAIN request[w].own /\ ~HasStop(here(w)) =>
                   row.status = "pending" /\ row.driver = NoDriver
         /\ Stops(w) /\ Serving(w) =>
              LET row == Seen(w, here(w)) IN
              /\ row.status \notin {"pending", Absent}
              /\ row.driver = order[here(w)].driver
<1>1. here(w) \in Order /\ here(w) = request[w].orders[1] /\ 1 \in DOMAIN request[w].orders
  BY Working, ListFacts DEF Work, here
<1>2. ASSUME Dispatches(w), Loading(w)
      PROVE  LET row == Seen(w, here(w)) IN
              /\ row.status # Absent
              /\ here(w) \notin DOMAIN request[w].own /\ ~HasStop(here(w)) =>
                   row.status = "pending" /\ row.driver = NoDriver
  <2>1. order[here(w)].status # Absent
    BY <1>1, <1>2 DEF Loading
  <2>2. ~HasStop(here(w)) =>
          order[here(w)].status \in {"pending", Absent} /\ order[here(w)].driver = NoDriver
    BY <1>1 DEF Assigned, Rest
  <2>3. \A o \in DOMAIN request[w].own : request[w].own[o].status # Absent
    BY <1>2 DEF Loading
  <2>4. QED
    BY <2>1, <2>2, <2>3 DEF Seen
<1>3. ASSUME Stops(w), Serving(w)
      PROVE  LET row == Seen(w, here(w)) IN
              /\ row.status \notin {"pending", Absent}
              /\ row.driver = order[here(w)].driver
  <2>1. request[w].trip \in Trip /\ stop[request[w].trip][here(w)] # Absent
    BY <1>3, Working DEF Serving, Course, Stops
  <2>2. order[here(w)].status \notin {"pending", Absent}
    BY <1>1, <2>1 DEF Assigned, Rest
  <2>3. QED
    BY <1>3, <2>2 DEF Serving, Seen
<1>4. QED
  BY <1>2, <1>3

LEMMA FindKeeps ==
  ASSUME Shape, Assigned, Untouched, NEW w \in Request, findOrder(w)
  PROVE  Assigned'
<1>1. Active(w) /\ request[w].pc = "find" /\ UNCHANGED <<order, tripDriver, stop>>
  BY Finding DEF At
<1>2. CASE Ends(w)
  BY <1>1, <1>2, EndKeeps
<1>3. CASE /\ Continues(w) /\ SameList(w) /\ SameRows(w) /\ SameHops(w)
           /\ accepts(request[w], Seen(w, here(w)))
           /\ request'[w].entity = changed(request[w], Seen(w, here(w)))
           /\ request'[w].pc = IF request[w].kind = "delete" THEN "remove" ELSE "select"
  <2>1. /\ request[w] \in Work /\ Course(request[w]) /\ Seen(w, here(w)) \in Row
        /\ here(w) \in Order
    BY <1>1, Working
  <2>2. Dispatches(w) \/ Stops(w)
    BY <1>1, KindsUntouched
  <2>3. request'[w].pc = "select" /\ here(w)' = here(w)
    BY <1>3, <2>2 DEF Dispatches, Stops, here, SameList
  <2>4. (\A o : HasStop(o)' <=> HasStop(o)) /\ request'[w].own = request[w].own
    BY <1>1, <1>3 DEF HasStop, SameRows
  <2>5. ASSUME Dispatches(w) PROVE Loading(w)'
    <3>1. Loading(w)
      BY <1>1, <2>5 DEF Assigned
    <3>2. request'[w].entity.status = "assigned" /\ request'[w].entity.driver = request[w].arg
      BY <1>1, <1>3, <2>1, <2>5, Changing DEF Dispatches
    <3>3. QED
      BY <1>1, <1>3, <2>3, <2>4, <3>1, <3>2
      DEF Loading, At, Continues, SameList, SameRows
  <2>6. ASSUME Stops(w) PROVE Serving(w)'
    <3>1. Serving(w) /\ request[w].hops \in Seq(Later) /\ request[w].hops # <<>>
      BY <1>1, <2>6 DEF Assigned, Serving
    <3>2. /\ request'[w].entity.status = Head(request[w].hops)
          /\ request'[w].entity.driver = Seen(w, here(w)).driver
      BY <1>1, <1>3, <2>1, <2>6, Changing DEF Stops
    <3>3. Head(request[w].hops) \notin {"pending", Absent}
      BY <3>1, HopFacts DEF Later, Absent
    <3>4. request'[w].entity.driver = order[here(w)].driver
      BY <1>1, <2>6, <3>1, <3>2, RowSeen
    <3>5. QED
      BY <1>1, <1>3, <2>3, <2>4, <3>1, <3>2, <3>3, <3>4
      DEF Serving, At, Continues, SameList, SameRows, SameHops
  <2>7. QED
    BY <1>1, <1>3, <2>4, <2>5, <2>6, ReadKeeps
<1>4. QED
  BY <1>2, <1>3, Finding

LEMMA SelectKeeps ==
  ASSUME Shape, Assigned, Untouched, NEW w \in Request, selectOrder(w)
  PROVE  Assigned'
<1>1. /\ Active(w) /\ request[w].pc = "select" /\ UNCHANGED <<order, tripDriver, stop>>
      /\ Continues(w) /\ SameList(w) /\ SameRows(w) /\ SameHops(w)
      /\ request'[w].entity = request[w].entity
      /\ request'[w].selected = Seen(w, here(w))
      /\ request'[w].pc = "update"
  BY Selecting DEF At
<1>2. here(w)' = here(w) /\ request'[w].own = request[w].own
  BY <1>1 DEF here, SameList, SameRows
<1>3. \A o : HasStop(o)' <=> HasStop(o)
  BY <1>1 DEF HasStop
<1>4. ASSUME Dispatches(w) PROVE Loading(w)'
  <2>1. Loading(w)
    BY <1>1, <1>4 DEF Assigned
  <2>2. /\ request'[w].selected.status # Absent
        /\ here(w) \notin DOMAIN request[w].own /\ ~HasStop(here(w)) =>
             request'[w].selected.status = "pending" /\ request'[w].selected.driver = NoDriver
    BY <1>1, <1>4, <2>1, RowSeen
  <2>3. here(w) \in DOMAIN request[w].own => here(w) \in request[w].placed
    BY <1>1, <2>1 DEF Loading, At
  <2>4. QED
    BY <1>1, <1>2, <1>3, <2>1, <2>2, <2>3 DEF Loading, At, Continues, SameList, SameRows
<1>5. ASSUME Stops(w) PROVE Serving(w)'
  <2>1. Serving(w)
    BY <1>1, <1>5 DEF Assigned
  <2>2. /\ request'[w].selected.driver = order[here(w)].driver
        /\ request'[w].selected.status # Absent
    BY <1>1, <1>5, <2>1, RowSeen
  <2>3. QED
    BY <1>1, <1>2, <1>3, <2>1, <2>2 DEF Serving, At, Continues, SameList, SameRows, SameHops
<1>6. QED
  BY <1>1, <1>2, <1>4, <1>5, ReadKeeps

LEMMA CheckKeeps ==
  ASSUME Shape, Assigned, Untouched, NEW w \in Request,
         \/ checkOrder(w) /\ request[w].kind = "dispatch"
         \/ findStop(w) /\ request[w].kind \in StopKind
         \/ selectStop(w) /\ request[w].kind \in StopKind
         \/ advanceOrder(w) /\ request[w].kind \in StopKind
  PROVE  Assigned'
<1>1. CASE checkOrder(w) /\ request[w].kind = "dispatch"
  <2>1. Active(w) /\ request[w].pc = "check" /\ UNCHANGED <<order, tripDriver, stop>>
    BY <1>1, Checking DEF At
  <2>2. CASE Ends(w)
    BY <2>1, <2>2, EndKeeps
  <2>3. CASE /\ Continues(w) /\ SameList(w) /\ SameRows(w) /\ SameHops(w)
             /\ request'[w].pc = "find"
    <3>1. Dispatches(w) /\ ~Stops(w) /\ Loading(w)
      BY <1>1, <2>1 DEF Dispatches, Stops, Assigned
    <3>2. (\A o : HasStop(o)' <=> HasStop(o)) /\ here(w)' = here(w)
          /\ request'[w].own = request[w].own
      BY <2>1, <2>3 DEF HasStop, here, SameList, SameRows
    <3>3. Loading(w)'
      BY <2>1, <2>3, <3>1, <3>2 DEF Loading, At, Continues, SameList, SameRows
    <3>4. QED
      BY <2>1, <2>3, <3>1, <3>2, <3>3, ReadKeeps
  <2>4. QED
    BY <1>1, <2>2, <2>3, Checking
<1>2. CASE findStop(w) /\ request[w].kind \in StopKind
  <2>1. Active(w) /\ request[w].pc = "stop" /\ UNCHANGED <<order, tripDriver, stop>>
    BY <1>2, FindingStop DEF At
  <2>2. CASE Ends(w)
    BY <2>1, <2>2, EndKeeps
  <2>3. CASE /\ Continues(w) /\ SameList(w) /\ SameRows(w) /\ SameHops(w)
             /\ request'[w].pc = "advance"
    <3>1. ~Dispatches(w) /\ Stops(w) /\ Serving(w)
      BY <1>2, <2>1 DEF Dispatches, Stops, Assigned, StopKind
    <3>2. here(w)' = here(w) /\ request'[w].own = request[w].own
      BY <2>3 DEF here, SameList, SameRows
    <3>3. Serving(w)'
      BY <2>1, <2>3, <3>1, <3>2 DEF Serving, At, Continues, SameHops
    <3>4. QED
      BY <2>1, <2>3, <3>1, <3>2, <3>3, ReadKeeps
  <2>4. QED
    BY <1>2, <2>2, <2>3, FindingStop
<1>3. CASE selectStop(w) /\ request[w].kind \in StopKind
  <2>1. /\ Active(w) /\ request[w].pc = "selectStop" /\ UNCHANGED <<order, tripDriver, stop>>
        /\ Continues(w) /\ SameList(w) /\ SameRows(w) /\ SameHops(w)
        /\ request'[w].stopSelected = stop[request[w].trip][here(w)]
        /\ request'[w].pc = "updateStop"
    BY <1>3, SelectingStop DEF At
  <2>2. ~Dispatches(w) /\ Stops(w) /\ Serving(w)
    BY <1>3, <2>1 DEF Dispatches, Stops, Assigned, StopKind
  <2>3. here(w)' = here(w) /\ request'[w].own = request[w].own
    BY <2>1 DEF here, SameList, SameRows
  <2>4. Serving(w)'
    BY <2>1, <2>2, <2>3 DEF Serving, At, Continues, SameHops
  <2>5. QED
    BY <2>1, <2>2, <2>3, <2>4, ReadKeeps
<1>4. CASE advanceOrder(w) /\ request[w].kind \in StopKind
  <2>1. Active(w) /\ request[w].pc = "advance" /\ UNCHANGED <<order, tripDriver, stop>>
    BY <1>4, Advancing DEF At
  <2>2. CASE Ends(w)
    BY <2>1, <2>2, EndKeeps
  <2>3. CASE /\ Continues(w) /\ SameList(w) /\ SameRows(w)
             /\ request'[w].hops = hopsOf(request[w].kind, Seen(w, here(w)).status)
             /\ request'[w].pc = IF request'[w].hops = <<>> THEN "selectStop" ELSE "find"
    <3>1. ~Dispatches(w) /\ Stops(w) /\ Serving(w)
      BY <1>4, <2>1 DEF Dispatches, Stops, Assigned, StopKind
    <3>2. here(w)' = here(w) /\ request'[w].own = request[w].own
      BY <2>3 DEF here, SameList, SameRows
    <3>3. request'[w].hops \in Seq(Later)
      BY <1>4, <2>3, HopsOf DEF StopKind
    <3>4. Serving(w)'
      BY <2>1, <2>3, <3>1, <3>2, <3>3 DEF Serving, At, Continues
    <3>5. QED
      BY <2>1, <2>3, <3>1, <3>2, <3>4, ReadKeeps
  <2>4. QED
    BY <1>4, <2>2, <2>3, Advancing
<1>5. QED
  BY <1>1, <1>2, <1>3, <1>4

LEMMA PlaceKeeps ==
  ASSUME Shape, Assigned, Untouched, NEW w \in Request, placeStop(w),
         request[w].kind = "dispatch"
  PROVE  Assigned'
<1>1. Active(w) /\ request[w].pc = "place" /\ UNCHANGED <<order, tripDriver, stop>>
  BY Placing DEF At
<1>2. CASE Ends(w)
  BY <1>1, <1>2, EndKeeps
<1>3. CASE /\ placeable(w, here(w))
           /\ Continues(w) /\ SameHops(w)
           /\ request'[w].own = request[w].own
           /\ request'[w].placed = request[w].placed \cup {here(w)}
           /\ IF Len(request[w].orders) > 1
              THEN request'[w].pc = "check" /\ request'[w].orders = Tail(request[w].orders)
              ELSE request'[w].pc = "commitDispatch" /\ SameList(w)
  <2>1. Dispatches(w) /\ ~Stops(w) /\ Loading(w)
    BY <1>1 DEF Dispatches, Stops, Assigned
  <2>2. request'[w].pc \in {"check", "commitDispatch"}
    BY <1>3
  <2>3. here(w) \in DOMAIN request[w].own
    BY <1>1, <1>3, <2>1 DEF Loading, At, placeable
  <2>4. \A i \in DOMAIN request'[w].orders :
          \E j \in DOMAIN request[w].orders : request'[w].orders[i] = request[w].orders[j]
    <3>1. request[w].orders \in Lists
      BY <1>1, Working DEF Work
    <3>2. CASE Len(request[w].orders) > 1
      <4>1. request'[w].orders = Tail(request[w].orders)
        BY <1>3, <3>2
      <4>2. \A i \in DOMAIN Tail(request[w].orders) :
              \E j \in DOMAIN request[w].orders : Tail(request[w].orders)[i] = request[w].orders[j]
        BY <3>1, <3>2, ListFacts
      <4>3. QED
        BY <4>1, <4>2
    <3>3. CASE ~(Len(request[w].orders) > 1)
      BY <1>3, <3>3 DEF SameList
    <3>4. QED
      BY <3>2, <3>3
  <2>5. \A i \in DOMAIN request'[w].orders : order[request'[w].orders[i]].status # Absent
    BY <2>1, <2>4 DEF Loading
  <2>6. \A o : HasStop(o)' <=> HasStop(o)
    BY <1>1 DEF HasStop
  <2>7. Loading(w)'
    BY <1>1, <1>3, <2>1, <2>2, <2>3, <2>5, <2>6 DEF Loading, At, Continues
  <2>8. QED
    BY <1>1, <1>3, <2>1, <2>7, ReadKeeps
<1>4. QED
  BY <1>2, <1>3, Placing

LEMMA SaveKeeps ==
  ASSUME Shape, OneStopEach, Alone, Assigned, Untouched, NEW w \in Request, updateOrder(w)
  PROVE  Assigned'
<1> DEFINE q == request[w]  row == Seen(w, here(w))
<1>1. /\ Active(w) /\ q.pc = "update" /\ ~LockedByOther(w, here(w))
      /\ UNCHANGED <<order, tripDriver, stop>>
  BY Updating DEF At
<1>2. /\ q \in Work /\ Course(q) /\ here(w) \in Order /\ row \in Row
      /\ q.entity \in Row /\ q.selected \in Row
  BY <1>1, Working DEF Work
<1>3. Dispatches(w) \/ Stops(w)
  BY <1>1, KindsUntouched
<1>4. /\ Dispatches(w) => Loading(w) /\ ~Stops(w)
      /\ Stops(w) => Serving(w) /\ ~Dispatches(w)
  BY <1>1 DEF Assigned, Dispatches, Stops
<1>5. q.selected # NoRow /\ row # NoRow
  <2>1. q.selected.status # Absent /\ row.status # Absent
    BY <1>1, <1>3, <1>4, RowSeen DEF Loading, Serving, At
  <2>2. QED
    BY <2>1 DEF NoRow
<1>6. \A o : HasStop(o)' <=> HasStop(o)
  BY <1>1 DEF HasStop
<1>7. CASE Ends(w)
  BY <1>1, <1>7, EndKeeps
<1>8. CASE ~differs(q) /\ Resumes(w) /\ SameRows(w)
  <2>1. Continues(w) /\ here(w)' = here(w) /\ request'[w].own = q.own
    BY <1>8 DEF Resumes, SameList, SameRows, here
  <2>2. ASSUME Dispatches(w) PROVE Loading(w)'
    <3>1. Loading(w) /\ request'[w].pc = "place"
      BY <1>4, <1>8, <2>2 DEF Resumes, Dispatches
    <3>2. q.entity = q.selected
      BY <1>8 DEF differs
    <3>3. HasStop(here(w)) \/ here(w) \in q.placed
      BY <1>1, <3>1, <3>2 DEF Loading, At
    <3>4. QED
      BY <1>1, <1>6, <1>8, <2>1, <3>1, <3>3
      DEF Loading, At, Resumes, Continues, SameList, SameRows
  <2>3. ASSUME Stops(w) PROVE Serving(w)'
    <3>1. Serving(w) /\ request'[w].pc \in {"find", "selectStop"}
      BY <1>4, <1>8, <2>3 DEF Resumes, Stops
    <3>2. request'[w].hops \in Seq(Later) /\ (request'[w].pc = "find" => request'[w].hops # <<>>)
      BY <1>8, <2>3, <3>1, HopFacts DEF Resumes, Stops, Serving, SameHops
    <3>3. QED
      BY <1>1, <1>8, <2>1, <3>1, <3>2 DEF Serving, At, Resumes, Continues
  <2>4. QED
    BY <1>1, <2>1, <2>2, <2>3, ReadKeeps
<1>9. CASE Resumes(w) /\ SavedRow(w, merged(q, row))
  <2> DEFINE new == merged(q, row)
  <2>1. /\ new.status = IF q.entity.status # q.selected.status
                         THEN q.entity.status ELSE row.status
        /\ new.driver = IF q.entity.driver # q.selected.driver
                        THEN q.entity.driver ELSE row.driver
    BY <1>2, Merging
  <2>2. /\ Continues(w) /\ here(w)' = here(w)
        /\ DOMAIN request'[w].own = DOMAIN q.own \cup {here(w)}
        /\ request'[w].own[here(w)] = new
        /\ \A o \in DOMAIN q.own \ {here(w)} : request'[w].own[o] = q.own[o]
    BY <1>9 DEF Resumes, SameList, SavedRow, here
  <2> HIDE DEF new
  <2>3. ASSUME Dispatches(w) PROVE Loading(w)'
    <3>1. Loading(w) /\ request'[w].pc = "place" /\ q.entity.status = "assigned"
          /\ q.entity.driver = q.arg
      BY <1>1, <1>4, <1>9, <2>3 DEF Resumes, Dispatches, Loading
    <3>2. q.arg \in Driver /\ q.arg # NoDriver
      BY <1>2, <2>3, DriverAssumption DEF Course, Dispatches
    <3>3. row.status # Absent
      BY <1>1, <2>3, <3>1, RowSeen
    <3>4. new.status # Absent
      BY <2>1, <3>1, <3>3 DEF Absent
    <3>5. HasStop(here(w)) \/ (new.status = "assigned" /\ new.driver = q.arg)
      <4>1. CASE q.selected.status = "pending" /\ q.selected.driver = NoDriver
        BY <2>1, <3>1, <3>2, <4>1
      <4>2. CASE here(w) \in q.placed
        <5>1. ~HasStop(here(w)) /\ here(w) \in DOMAIN q.own
          BY <1>1, <3>1, <4>2 DEF Alone, Loading
        <5>2. row.status = "assigned" /\ row.driver = q.arg
          BY <3>1, <5>1 DEF Loading, Seen
        <5>3. QED
          BY <2>1, <3>1, <5>2
      <4>3. QED
        BY <1>1, <3>1, <4>1, <4>2 DEF Loading, At
    <3>6. order[here(w)].status # Absent
      <4>1. request[w].orders \in Lists
        BY <1>1, Working DEF Work
      <4>2. here(w) = request[w].orders[1] /\ 1 \in DOMAIN request[w].orders
        BY <4>1, ListFacts DEF here
      <4>3. QED
        BY <3>1, <4>2 DEF Loading
    <3>7. QED
      BY <1>1, <1>6, <1>9, <2>2, <3>1, <3>4, <3>5, <3>6
      DEF Loading, At, Resumes, Continues, SameList
  <2>4. ASSUME Stops(w) PROVE Serving(w)'
    <3>1. Serving(w) /\ request'[w].pc \in {"find", "selectStop"}
      BY <1>4, <1>9, <2>4 DEF Resumes, Stops
    <3>2. request'[w].hops \in Seq(Later) /\ (request'[w].pc = "find" => request'[w].hops # <<>>)
      BY <1>9, <2>4, <3>1, HopFacts DEF Resumes, Stops, Serving, SameHops
    <3>3. row.status \notin {"pending", Absent} /\ row.driver = order[here(w)].driver
      BY <1>1, <2>4, <3>1, RowSeen
    <3>4. new.status \notin {"pending", Absent} /\ new.driver = order[here(w)].driver
      BY <1>1, <2>1, <3>1, <3>3 DEF Serving, At
    <3>5. QED
      BY <1>1, <1>9, <2>2, <3>1, <3>2, <3>4 DEF Serving, At, Resumes, Continues
  <2>5. \A v \in Request \ {w} : Active(v) =>
          /\ DOMAIN request[v].own \cap DOMAIN request'[w].own = {}
          /\ Dispatches(v) /\ Dispatches(w) => request[v].trip # request'[w].trip
    <3> SUFFICES ASSUME NEW v \in Request \ {w}, Active(v)
                 PROVE  /\ DOMAIN request[v].own \cap DOMAIN request'[w].own = {}
                        /\ Dispatches(v) /\ Dispatches(w) => request[v].trip # request'[w].trip
      OBVIOUS
    <3>1. /\ DOMAIN request[v].own \cap DOMAIN q.own = {}
          /\ Dispatches(v) /\ Dispatches(w) => request[v].trip # q.trip
      BY <1>1 DEF Assigned, Apart
    <3>2. here(w) \notin DOMAIN request[v].own
      BY <1>1 DEF LockedByOther, Locks
    <3>3. QED
      BY <2>2, <3>1, <3>2 DEF Continues
  <2>6. (Dispatches(w)' <=> Dispatches(w)) /\ (Stops(w)' <=> Stops(w)) /\ Others(w)
    BY <2>2 DEF Continues, Dispatches, Stops
  <2>7. QED
    BY <1>1, <2>3, <2>4, <2>5, <2>6, QuietStep
<1>10. QED
  BY <1>5, <1>7, <1>8, <1>9, Updating

\* A commit that ends request w: what is left to show is that the committed state rests.
LEMMA CommitKeeps ==
  ASSUME Shape, Assigned, NEW w \in Request, Ends(w), Rest',
         \A t \in Trip, o \in Order : stop[t][o] # Absent => stop'[t][o] # Absent,
         \A o \in Order : order[o].status # Absent => order'[o].status # Absent,
         \A o \in Order : HasStop(o) => order'[o].driver = order[o].driver,
         \A v \in Request \ {w}, t \in Trip :
           Active(v) /\ Dispatches(v) /\ t = request[v].trip => tripDriver'[t] = tripDriver[t]
  PROVE  Assigned'
<1>1. ASSUME NEW v \in Request, Active(v)'
      PROVE  /\ v # w /\ Active(v) /\ request'[v] = request[v]
             /\ Dispatches(v)' => Loading(v)'
             /\ Stops(v)' => Serving(v)'
  <2>1. v # w /\ Active(v) /\ request'[v] = request[v]
    BY <1>1 DEF Ends, Others, Active, Idle
  <2>2. /\ Dispatches(v)' <=> Dispatches(v)
        /\ Stops(v)' <=> Stops(v)
    BY <2>1 DEF Dispatches, Stops
  <2>3. /\ Dispatches(v) => Loading(v)
        /\ Stops(v) => Serving(v)
    BY <2>1 DEF Assigned
  <2>4. QED
    BY <2>1, <2>2, <2>3, OthersKeep
<1>2. Apart'
  BY <1>1 DEF Assigned, Apart, Dispatches
<1>3. QED
  BY <1>1, <1>2 DEF Assigned

LEMMA DispatchCommitKeeps ==
  ASSUME Shape, OneStopEach, Alone, Assigned, Untouched, NEW w \in Request, commitDispatch(w),
         request[w].kind = "dispatch"
  PROVE  Assigned'
<1> DEFINE q == request[w]
<1>1. /\ Active(w) /\ q.pc = "commitDispatch" /\ Ends(w)
      /\ \A o \in Order : order'[o] = Seen(w, o)
      /\ \A t \in Trip : tripDriver'[t] = IF t = q.trip THEN q.arg ELSE tripDriver[t]
      /\ \A t \in Trip, o \in Order :
           stop'[t][o] = IF t = q.trip /\ o \in q.placed THEN "pending" ELSE stop[t][o]
  BY DispatchCommits DEF CommitsOrders, At
<1>2. Dispatches(w) /\ Loading(w)
  BY <1>1 DEF Dispatches, Assigned
<1>3. q.trip \in Trip /\ q.arg \in Driver /\ q.arg # NoDriver /\ q.placed \subseteq Order
  BY <1>1, <1>2, Working, DriverAssumption DEF Course, Dispatches, Work
<1>4. DOMAIN q.own = q.placed
  BY <1>1, <1>2 DEF Loading, At
<1>5. \A o \in q.placed : /\ ~HasStop(o) /\ order'[o] = q.own[o]
                          /\ q.own[o].status = "assigned" /\ q.own[o].driver = q.arg
  BY <1>1, <1>2, <1>3, <1>4 DEF Alone, Loading, Seen
<1>6. \A o \in Order \ q.placed : order'[o] = order[o]
  BY <1>1, <1>4 DEF Seen
<1>7. \A o \in Order : stop[q.trip][o] = Absent
  <2>1. tripDriver[q.trip] = NoDriver
    BY <1>2 DEF Loading
  <2>2. QED
    BY <1>3, <2>1 DEF Assigned, Rest
<1>8. Rest'
  <2>1. ASSUME NEW o \in Order, ~HasStop(o)'
        PROVE  order'[o].status \in {"pending", Absent} /\ order'[o].driver = NoDriver
    <3>1. o \notin q.placed
      BY <1>1, <1>3, <2>1 DEF HasStop, Absent
    <3>2. ~HasStop(o)
      BY <1>1, <2>1, <3>1 DEF HasStop
    <3>3. QED
      BY <1>6, <3>1, <3>2 DEF Assigned, Rest
  <2>2. ASSUME NEW o \in Order, NEW t \in Trip, stop'[t][o] # Absent
        PROVE  /\ order'[o].status \notin {"pending", Absent}
               /\ order'[o].driver = tripDriver'[t] /\ tripDriver'[t] # NoDriver
    <3>1. CASE t = q.trip
      <4>1. o \in q.placed
        BY <1>1, <1>7, <2>2, <3>1
      <4>2. QED
        BY <1>1, <1>3, <1>5, <3>1, <4>1 DEF Absent
    <3>2. CASE t # q.trip
      <4>1. stop[t][o] # Absent /\ HasStop(o)
        BY <1>1, <2>2, <3>2 DEF HasStop
      <4>2. o \notin q.placed
        BY <1>5, <4>1
      <4>3. QED
        BY <1>1, <1>6, <3>2, <4>1, <4>2 DEF Assigned, Rest
    <3>3. QED
      BY <3>1, <3>2
  <2>3. \A o \in Order : order'[o].status = Absent => order'[o] = NoRow
    BY <1>5, <1>6 DEF Absent, Assigned, Rest
  <2>4. QED
    BY <2>1, <2>2, <2>3 DEF Rest
<1>9. \A t \in Trip, o \in Order : stop[t][o] # Absent => stop'[t][o] # Absent
  BY <1>1 DEF Absent
<1>10. \A o \in Order : order[o].status # Absent => order'[o].status # Absent
  BY <1>5, <1>6 DEF Absent
<1>11. \A o \in Order : HasStop(o) => order'[o].driver = order[o].driver
  BY <1>5, <1>6
<1>12. \A v \in Request \ {w}, t \in Trip :
           Active(v) /\ Dispatches(v) /\ t = request[v].trip => tripDriver'[t] = tripDriver[t]
  BY <1>1, <1>2 DEF Assigned, Apart
<1>13. QED
  BY <1>1, <1>8, <1>9, <1>10, <1>11, <1>12, CommitKeeps

LEMMA StopCommitKeeps ==
  ASSUME Shape, Assigned, Untouched, NEW w \in Request, updateStop(w),
         request[w].kind \in StopKind
  PROVE  Assigned'
<1> DEFINE q == request[w]  o == here(w)
<1>1. Active(w) /\ q.pc = "updateStop"
  BY UpdatingStop DEF At
<1>2. Stops(w) /\ Serving(w)
  BY <1>1 DEF Stops, StopKind, Assigned
<1>3. q.trip \in Trip /\ o \in Order /\ q.stopSelected # Absent /\ stop[q.trip][o] # Absent
  BY <1>1, <1>2, Working DEF Course, Stops, Serving, At
<1>4. CASE Ends(w) /\ UNCHANGED <<order, tripDriver, startedAt, stop, ordersThisPeriod, repeated>>
  BY <1>4, EndKeeps
<1>5. CASE /\ CommitsOrders(w)
           /\ \A t \in Trip, p \in Order : t # q.trip \/ p # o => stop'[t][p] = stop[t][p]
           /\ stop'[q.trip][o] = IF q.stopSelected = Absent
                                     \/ (q.stopSelected # stopBecomes[q.kind]
                                           /\ stop[q.trip][o] # Absent)
                                THEN stopBecomes[q.kind] ELSE stop[q.trip][o]
           /\ UNCHANGED <<tripDriver, ordersThisPeriod>>
  <2>1. Ends(w) /\ \A p \in Order : order'[p] = Seen(w, p)
    BY <1>5 DEF CommitsOrders
  <2>2. stopBecomes[q.kind] # Absent
    BY DEF stopBecomes, Absent, StopKind
  <2>3. \A t \in Trip, p \in Order : stop[t][p] # Absent <=> stop'[t][p] # Absent
    BY <1>3, <1>5, <2>2
  <2>4. \A p \in Order : HasStop(p)' <=> HasStop(p)
    BY <2>3 DEF HasStop
  <2>5. HasStop(o)
    BY <1>3 DEF HasStop
  <2>6. \A p \in Order : HasStop(p) => order'[p].driver = order[p].driver
    BY <1>2, <2>1 DEF Serving, Seen
  <2>7. \A p \in Order : p # o => order'[p] = order[p]
    BY <1>2, <2>1 DEF Serving, Seen
  <2>8. order'[o].status \notin {"pending", Absent} /\ order'[o].driver = order[o].driver
    BY <1>1, <1>2, <1>3, <2>1, RowSeen
  <2>9. Rest'
    BY <1>5, <2>3, <2>4, <2>5, <2>7, <2>8 DEF Assigned, Rest
  <2>10. \A p \in Order : order[p].status # Absent => order'[p].status # Absent
    BY <2>7, <2>8
  <2>11. QED
    BY <1>5, <2>1, <2>3, <2>6, <2>9, <2>10, CommitKeeps
<1>6. QED
  BY <1>4, <1>5, UpdatingStop

LEMMA ArrivalKeeps ==
  ASSUME Shape, Assigned, Untouched, NEW w \in Request, arrives(w)
  PROVE  Assigned'
<1>1. UNCHANGED <<order, tripDriver, stop>> /\ Fresh(w) /\ Others(w)
  BY Opening DEF Fresh
<1>2. \A v \in Request \ {w} : DOMAIN request[v].own \cap DOMAIN request'[w].own = {}
  BY <1>1 DEF Fresh
<1>3. request'[w].kind \in {"dispatch", "arrive", "complete", "skip"}
  BY <1>1 DEF Fresh, Work, Untouched
<1>4. CASE /\ request'[w].kind = "dispatch"
           /\ request'[w].pc = "check"
           /\ request'[w].trip \in Trip /\ tripDriver[request'[w].trip] = NoDriver
           /\ \A v \in Request : Active(v) => request[v].trip # request'[w].trip
  <2>1. \A i \in DOMAIN request'[w].orders : order[request'[w].orders[i]].status # Absent
    <3>1. \A i \in DOMAIN request'[w].orders :
            request'[w].orders[i] \in Order /\ order[request'[w].orders[i]] # NoRow
      BY <1>1, <1>4, ListFacts DEF Fresh, Work
    <3>2. \A o \in Order : order[o] # NoRow => order[o].status # Absent
      BY DEF Assigned, Rest
    <3>3. QED
      BY <3>1, <3>2
  <2>2. Loading(w)'
    BY <1>1, <1>4, <2>1 DEF Loading, Fresh, At
  <2>3. ~Stops(w)' /\ Dispatches(w)'
    BY <1>4 DEF Stops, Dispatches
  <2>4. QED
    BY <1>1, <1>2, <1>4, <2>2, <2>3, QuietStep
<1>5. CASE \E t \in Trip, o \in Order, kind \in StopKind :
             /\ request'[w].kind = kind /\ request'[w].pc = "stop" /\ request'[w].trip = t
             /\ request'[w].orders = <<o>> /\ request'[w].hops = <<>>
             /\ stop[t][o] # Absent
  <2>1. PICK t \in Trip, o \in Order, kind \in StopKind :
             /\ request'[w].kind = kind /\ request'[w].pc = "stop" /\ request'[w].trip = t
             /\ request'[w].orders = <<o>> /\ request'[w].hops = <<>>
             /\ stop[t][o] # Absent
    BY <1>5
  <2>2. here(w)' = o
    BY <2>1, Starting DEF here
  <2>3. <<>> \in Seq(Later)
    BY EmptySeq
  <2>4. Serving(w)'
    BY <1>1, <2>1, <2>2, <2>3 DEF Serving, Fresh, At
  <2>5. Stops(w)' /\ ~Dispatches(w)'
    BY <2>1 DEF Stops, Dispatches, StopKind
  <2>6. QED
    BY <1>1, <1>2, <2>4, <2>5, QuietStep
<1>6. QED
  BY <1>3, <1>4, <1>5, Opening

LEMMA CreationKeeps ==
  ASSUME Shape, Assigned, Untouched, NEW o \in Order, NEW b \in BOOLEAN, createOrder(o, b)
  PROVE  Assigned'
<1>1. /\ order[o] = NoRow
      /\ order'[o].status = "pending" /\ order'[o].driver = NoDriver
      /\ \A p \in Order \ {o} : order'[p] = order[p]
      /\ UNCHANGED <<tripDriver, stop, request>>
  BY Creating
<1>2. ~HasStop(o)
  <2>1. order[o].status = Absent
    BY <1>1 DEF NoRow
  <2>2. QED
    BY <2>1 DEF Assigned, Rest, HasStop
<1>3. \A p : HasStop(p)' <=> HasStop(p)
  BY <1>1 DEF HasStop
<1>4. Rest'
  BY <1>1, <1>2, <1>3 DEF Assigned, Rest, HasStop, Absent
<1>5. \A p \in Order : order[p].status # Absent => order'[p].status # Absent
  BY <1>1 DEF Absent
<1>6. \A p \in Order : HasStop(p) => order'[p].driver = order[p].driver
  BY <1>1, <1>2
<1>7. ASSUME NEW v \in Request, Active(v)'
      PROVE  /\ Dispatches(v)' => Loading(v)'
             /\ Stops(v)' => Serving(v)'
  <2>1. Active(v) /\ request'[v] = request[v]
    BY <1>1, <1>7 DEF Active
  <2>2. /\ Dispatches(v)' <=> Dispatches(v)
        /\ Stops(v)' <=> Stops(v)
    BY <2>1 DEF Dispatches, Stops
  <2>3. /\ Dispatches(v) => Loading(v)
        /\ Stops(v) => Serving(v)
    BY <2>1 DEF Assigned
  <2>4. QED
    BY <1>1, <1>5, <1>6, <2>1, <2>2, <2>3, OthersKeep
<1>8. Apart'
  BY <1>1 DEF Assigned, Apart, Active, Dispatches
<1>9. QED
  BY <1>4, <1>7, <1>8 DEF Assigned

LEMMA AssignedStays ==
  ASSUME Shape, OneStopEach, Alone, Assigned, Untouched, [Next]_vars
  PROVE  Assigned'
<1>1. ASSUME NEW w \in Request, Step(w) PROVE Assigned'
  <2>1. request[w].pc # "commit" /\ request[w].pc # "remove"
    <3>1. CASE ~Active(w)
      BY <3>1 DEF Active
    <3>2. CASE Active(w)
      <4>1. request[w].kind \in {"dispatch", "arrive", "complete", "skip"}
        BY <3>2, KindsUntouched DEF Dispatches, Stops
      <4>2. QED
        BY <4>1, Kinds DEF StopKind
    <3>3. QED
      BY <3>1, <3>2
  <2>2. ~commitChange(w) /\ ~removeOrder(w)
    BY <2>1 DEF commitChange, removeOrder, At
  <2>3. QED
    BY <1>1, <2>2, Cases, FindKeeps, SelectKeeps, SaveKeeps, CheckKeeps, PlaceKeeps,
       DispatchCommitKeeps, StopCommitKeeps
<1>2. ASSUME NEW w \in Request, rollback(w) PROVE Assigned'
  BY <1>2, RollingBack, EndKeeps
<1>3. ASSUME NEW w \in Request, arrives(w) PROVE Assigned'
  BY <1>3, ArrivalKeeps
<1>4. ASSUME NEW o \in Order, NEW b \in BOOLEAN, createOrder(o, b) PROVE Assigned'
  BY <1>4, CreationKeeps
<1>5. CASE UNCHANGED vars
  BY <1>5 DEF vars, Assigned, Rest, Apart, Loading, Serving, HasStop, Active, Dispatches, Stops,
              At, here
<1>6. QED
  BY <1>1, <1>2, <1>3, <1>4, <1>5 DEF Next, deadlockDetected, connectionLost

LEMMA AssignedAtFirst == Init => Assigned
<1> SUFFICES ASSUME Init PROVE Assigned
  OBVIOUS
<1>1. \A w \in Request : ~Active(w)
  BY DEF Init, Active, Idle
<1>2. \A o \in Order : ~HasStop(o)
  BY DEF Init, HasStop
<1>3. /\ \A o \in Order : order[o].status \in {"pending", Absent}
      /\ \A o \in Order : order[o].driver = NoDriver
      /\ \A o \in Order : order[o].status = Absent => order[o] = NoRow
  BY DEF Init, NoRow, Absent
<1>4. \A o \in Order, t \in Trip : stop[t][o] = Absent
  BY <1>2 DEF HasStop
<1>5. Rest
  BY <1>3, <1>4 DEF Rest
<1>6. QED
  BY <1>1, <1>5 DEF Assigned, Apart

\* DriverOfItsTrip, for any number of creations, dispatches, arrivals, completions and
\* skips at a time: of two dispatches of an order one is undone whole, and no stop
\* operation writes the driver it read back over another.
THEOREM DriversAgree ==
  ASSUME Kind \subseteq {"create", "dispatch", "arrive", "complete", "skip"}
  PROVE  Spec => []DriverOfItsTrip
<1> DEFINE IInv == Shape /\ OneStopEach /\ Alone /\ Assigned
<1>1. Untouched
  BY DEF Untouched
<1>2. Init => IInv
  BY AloneAtFirst, AssignedAtFirst
<1>3. IInv /\ [Next]_vars => IInv'
  BY <1>1, ShapeStays, LoneStays, AssignedStays
<1>4. IInv => DriverOfItsTrip
  BY DEF DriverOfItsTrip, Serial!DriverMatchesTrip, Serial!HasStop, Serial!Absent, Absent,
         Assigned, Rest, HasStop
<1>5. QED
  BY <1>2, <1>3, <1>4, PTL DEF Spec

-----------------------------------------------------------------------------
(* Outcomes *)

\* Nobody skips a stop either.
Plain == Kind \subseteq {"create", "dispatch", "arrive", "complete"}

\* The status an order has while its stop has the status s.
Goal == [pending |-> "assigned", arrived |-> "in_transit", completed |-> "delivered"]

Level ==
  \A o \in Order \ repeated, t \in Trip :
    stop[t][o] # Absent => stop[t][o] \in DOMAIN Goal /\ order[o].status = Goal[stop[t][o]]

\* A stop operation is about one order, and has written nothing when it begins.
Single(w) ==
  /\ request[w].orders = <<here(w)>>
  /\ At(w, "stop") => DOMAIN request[w].own = {}

OneArrival ==
  \A v, w \in Request : v # w /\ Active(v) /\ Active(w)
      /\ request[v].kind = "arrive" /\ request[w].kind = "arrive" /\ here(v) = here(w)
    => here(v) \in repeated

\* While an order is being arrived at its stop is pending, and the row in hand is on the
\* way to in_transit.
Arrives(w) ==
  LET q == request[w]  o == here(w)  row == Seen(w, o) IN
  q.pc # "stop" =>
    /\ stop[q.trip][o] = "pending"
    /\ At(w, "advance") => row.status = "assigned"
    /\ q.pc \in {"find", "select", "update"} =>
         \/ row.status = "assigned" /\ q.hops = <<"picked_up", "in_transit">>
         \/ row.status = "picked_up" /\ q.hops = <<"in_transit">>
    /\ q.pc \in {"select", "update"} => q.entity.status = Head(q.hops)
    /\ At(w, "update") => q.selected.status = row.status
    /\ q.pc \in {"selectStop", "updateStop"} => row.status = "in_transit"
    /\ At(w, "updateStop") => q.stopSelected = "pending"

Completes(w) ==
  LET q == request[w]  o == here(w)  row == Seen(w, o) IN
  q.pc # "stop" =>
    /\ stop[q.trip][o] \in {"arrived", "completed"}
    /\ At(w, "advance") => DOMAIN q.own = {}
    /\ q.pc \in {"find", "select", "update"} =>
         q.hops = <<"delivered">> /\ DOMAIN q.own = {}
    /\ q.pc \in {"select", "update"} => q.entity.status = "delivered"
    /\ At(w, "update") /\ q.selected.status = "delivered" => order[o].status = "delivered"
    /\ q.pc \in {"selectStop", "updateStop"} => row.status = "delivered"
    /\ At(w, "updateStop") =>
         /\ q.stopSelected \in {"arrived", "completed"}
         /\ q.stopSelected = "completed" => stop[q.trip][o] = "completed"

Outcome ==
  /\ Level /\ OneArrival
  /\ \A w \in Request : Active(w) /\ Stops(w) => Single(w)
  /\ \A w \in Request : Active(w) /\ here(w) \notin repeated =>
       /\ request[w].kind = "arrive" => Arrives(w)
       /\ request[w].kind = "complete" => Completes(w)

LEMMA KindsPlain ==
  ASSUME Shape, Plain, NEW w \in Request, Active(w)
  PROVE  /\ request[w].kind \in {"dispatch", "arrive", "complete"}
         /\ Stops(w) <=> request[w].kind \in {"arrive", "complete"}
BY Working DEF Plain, Work, Stops

\* What is said of a request is about its own order and stop only.
LEMMA OthersAgree ==
  ASSUME Shape, NEW v \in Request, Active(v), request'[v] = request[v],
         order'[here(v)] = order[here(v)],
         stop'[request[v].trip][here(v)] = stop[request[v].trip][here(v)]
  PROVE  /\ Arrives(v) => Arrives(v)'
         /\ Completes(v) => Completes(v)'
<1>1. here(v)' = here(v) /\ Seen(v, here(v))' = Seen(v, here(v))
  BY DEF here, Seen
<1>2. \A pc : At(v, pc)' <=> At(v, pc)
  BY DEF At
<1>3. Arrives(v) => Arrives(v)'
  BY <1>1, <1>2 DEF Arrives
<1>4. Completes(v) => Completes(v)'
  BY <1>1, <1>2 DEF Completes
<1>5. QED
  BY <1>3, <1>4

\* A step of w that leaves the orders and the stops as they are.
LEMMA QuietOutcome ==
  ASSUME Shape, Plain, Outcome, NEW w \in Request, Others(w), UNCHANGED <<order, stop>>,
         repeated \subseteq repeated',
         Active(w)' =>
           /\ Stops(w)' => Single(w)'
           /\ here(w)' \notin repeated' /\ request'[w].kind = "arrive" => Arrives(w)'
           /\ here(w)' \notin repeated' /\ request'[w].kind = "complete" => Completes(w)'
           /\ \A v \in Request \ {w} : Active(v) /\ request[v].kind = "arrive"
                    /\ request'[w].kind = "arrive" /\ here(v) = here(w)' => here(v) \in repeated'
  PROVE  Outcome'
<1>1. Level'
  BY DEF Outcome, Level
<1>2. ASSUME NEW v \in Request \ {w}, Active(v)'
      PROVE  /\ Active(v) /\ request'[v] = request[v] /\ here(v)' = here(v)
             /\ Stops(v)' => Single(v)'
             /\ here(v) \notin repeated' /\ request[v].kind = "arrive" => Arrives(v)'
             /\ here(v) \notin repeated' /\ request[v].kind = "complete" => Completes(v)'
  <2>1. Active(v) /\ request'[v] = request[v] /\ here(v)' = here(v)
    BY <1>2 DEF Others, Active, here
  <2>2. (Arrives(v) => Arrives(v)') /\ (Completes(v) => Completes(v)')
    BY <2>1, OthersAgree
  <2>3. Stops(v)' => Single(v)'
    BY <2>1 DEF Outcome, Stops, Single, At
  <2>4. QED
    BY <2>1, <2>2, <2>3 DEF Outcome
<1>3. OneArrival'
  <2> SUFFICES ASSUME NEW u \in Request, NEW v \in Request, u # v, Active(u)', Active(v)',
                      request'[u].kind = "arrive", request'[v].kind = "arrive",
                      here(u)' = here(v)'
               PROVE  here(u)' \in repeated'
    BY DEF OneArrival
  <2>1. CASE u # w /\ v # w
    BY <1>2, <2>1 DEF Outcome, OneArrival
  <2>2. CASE u = w
    BY <1>2, <2>2
  <2>3. CASE v = w
    BY <1>2, <2>3
  <2>4. QED
    BY <2>1, <2>2, <2>3
<1>4. QED
  BY <1>1, <1>2, <1>3 DEF Outcome

LEMMA EndOutcome ==
  ASSUME Shape, Plain, Outcome, NEW w \in Request, Ends(w), UNCHANGED <<order, stop, repeated>>
  PROVE  Outcome'
BY QuietOutcome DEF Ends, Active, Idle

\* A step of w with the same order in hand.
LEMMA GoOnOutcome ==
  ASSUME Shape, Plain, Outcome, NEW w \in Request, Active(w), Continues(w), SameList(w),
         UNCHANGED <<order, stop, repeated>>, request'[w].pc # "stop",
         here(w) \notin repeated /\ request[w].kind = "arrive" => Arrives(w)',
         here(w) \notin repeated /\ request[w].kind = "complete" => Completes(w)'
  PROVE  Outcome'
<1>1. /\ request'[w].kind = request[w].kind /\ here(w)' = here(w) /\ Others(w)
      /\ Stops(w)' <=> Stops(w)
  BY DEF Continues, SameList, here, Stops
<1>2. Stops(w)' => Single(w)'
  BY <1>1 DEF Outcome, Single, At, SameList
<1>3. \A v \in Request \ {w} : Active(v) /\ request[v].kind = "arrive"
           /\ request[w].kind = "arrive" /\ here(v) = here(w) => here(v) \in repeated
  BY DEF Outcome, OneArrival
<1>4. QED
  BY <1>1, <1>2, <1>3, QuietOutcome

LEMMA Hops ==
  /\ Head(<<"picked_up", "in_transit">>) = "picked_up" /\ Head(<<"in_transit">>) = "in_transit"
  /\ Head(<<"delivered">>) = "delivered"
  /\ Tail(<<"picked_up", "in_transit">>) = <<"in_transit">>
  /\ Len(<<"picked_up", "in_transit">>) = 2 /\ Len(<<"in_transit">>) = 1
  /\ Len(<<"delivered">>) = 1 /\ <<"delivered">> # <<>> /\ <<"picked_up", "in_transit">> # <<>>
OBVIOUS

LEMMA FindOutcome ==
  ASSUME Shape, Plain, Assigned, Outcome, NEW w \in Request, findOrder(w)
  PROVE  Outcome'
<1>1. Active(w) /\ request[w].pc = "find" /\ UNCHANGED <<order, stop, repeated>>
  BY Finding DEF At
<1>2. CASE Ends(w)
  BY <1>1, <1>2, EndOutcome
<1>3. CASE /\ Continues(w) /\ SameList(w) /\ SameRows(w) /\ SameHops(w)
           /\ accepts(request[w], Seen(w, here(w)))
           /\ request'[w].entity = changed(request[w], Seen(w, here(w)))
           /\ request'[w].pc = IF request[w].kind = "delete" THEN "remove" ELSE "select"
  <2>1. request'[w].pc = "select" /\ here(w)' = here(w) /\ request'[w].own = request[w].own
    BY <1>1, <1>3, KindsPlain DEF here, SameList, SameRows
  <2>2. Seen(w, here(w))' = Seen(w, here(w))
    BY <1>1, <2>1 DEF Seen
  <2>3. request[w].kind \in {"arrive", "complete"} =>
          request'[w].entity.status = Head(request[w].hops)
    BY <1>1, <1>3, Working, Changing
  <2>4. ASSUME here(w) \notin repeated, request[w].kind = "arrive" PROVE Arrives(w)'
    <3>1. Arrives(w)
      BY <1>1, <2>4 DEF Outcome
    <3>2. QED
      BY <1>1, <1>3, <2>1, <2>2, <2>3, <2>4, <3>1
      DEF Arrives, At, Continues, SameHops
  <2>5. ASSUME here(w) \notin repeated, request[w].kind = "complete" PROVE Completes(w)'
    <3>1. Completes(w)
      BY <1>1, <2>5 DEF Outcome
    <3>2. QED
      BY <1>1, <1>3, <2>1, <2>2, <2>3, <2>5, <3>1, Hops
      DEF Completes, At, Continues, SameHops
  <2>6. QED
    BY <1>1, <1>3, <2>1, <2>4, <2>5, GoOnOutcome
<1>4. QED
  BY <1>2, <1>3, Finding

LEMMA SelectOutcome ==
  ASSUME Shape, Plain, Assigned, Outcome, NEW w \in Request, selectOrder(w)
  PROVE  Outcome'
<1>1. /\ Active(w) /\ request[w].pc = "select" /\ UNCHANGED <<order, stop, repeated>>
      /\ Continues(w) /\ SameList(w) /\ SameRows(w) /\ SameHops(w)
      /\ request'[w].entity = request[w].entity
      /\ request'[w].selected = Seen(w, here(w))
      /\ request'[w].pc = "update"
  BY Selecting DEF At
<1>2. here(w)' = here(w) /\ request'[w].own = request[w].own
  BY <1>1 DEF here, SameList, SameRows
<1>3. Seen(w, here(w))' = Seen(w, here(w))
  BY <1>1, <1>2 DEF Seen
<1>4. ASSUME here(w) \notin repeated, request[w].kind = "arrive" PROVE Arrives(w)'
  <2>1. Arrives(w)
    BY <1>1, <1>4 DEF Outcome
  <2>2. QED
    BY <1>1, <1>2, <1>3, <1>4, <2>1 DEF Arrives, At, Continues, SameHops
<1>5. ASSUME here(w) \notin repeated, request[w].kind = "complete" PROVE Completes(w)'
  <2>1. Completes(w)
    BY <1>1, <1>5 DEF Outcome
  <2>2. Seen(w, here(w)) = order[here(w)]
    BY <1>1, <2>1 DEF Completes, Seen
  <2>3. QED
    BY <1>1, <1>2, <1>3, <1>5, <2>1, <2>2 DEF Completes, At, Continues, SameHops
<1>6. QED
  BY <1>1, <1>4, <1>5, GoOnOutcome

LEMMA SaveOutcome ==
  ASSUME Shape, Plain, Assigned, Outcome, NEW w \in Request, updateOrder(w)
  PROVE  Outcome'
<1> DEFINE q == request[w]  row == Seen(w, here(w))
<1>1. Active(w) /\ q.pc = "update" /\ UNCHANGED <<order, stop, repeated>>
  BY Updating DEF At
<1>2. /\ q \in Work /\ Course(q) /\ here(w) \in Order /\ row \in Row
      /\ q.entity \in Row /\ q.selected \in Row
  BY <1>1, Working DEF Work
<1>3. CASE Ends(w)
  BY <1>1, <1>3, EndOutcome
<1>4. ASSUME Resumes(w),
             \/ q.selected = NoRow /\ row = NoRow
             \/ q.selected # NoRow /\ (row = NoRow \/ ~differs(q)) /\ SameRows(w)
             \/ SavedRow(w, merged(q, row))
      PROVE  Outcome'
  <2>1. Continues(w) /\ SameList(w) /\ here(w)' = here(w)
    BY <1>4 DEF Resumes, SameList, here
  <2>2. request'[w].pc # "stop"
    BY <1>1, <1>4, KindsPlain DEF Resumes
  <2>3. SavedRow(w, merged(q, row)) =>
          Seen(w, here(w))'.status = IF q.entity.status # q.selected.status
                                     THEN q.entity.status ELSE row.status
    BY <1>2, <2>1, Merging DEF SavedRow, Seen
  <2>4. SameRows(w) => Seen(w, here(w))' = row
    BY <1>1, <2>1 DEF SameRows, Seen
  <2>5. ~differs(q) => q.entity.status = q.selected.status
    BY DEF differs
  <2>6. ASSUME request[w].kind \in {"arrive", "complete"}
        PROVE  q.selected # NoRow /\ row # NoRow
    <3>1. Stops(w) /\ Serving(w)
      BY <1>1, <2>6 DEF Stops, Assigned
    <3>2. q.selected.status # Absent /\ row.status # Absent
      BY <1>1, <3>1, RowSeen DEF Serving, At
    <3>3. QED
      BY <3>2 DEF NoRow
  <2>7. ASSUME here(w) \notin repeated, q.kind = "arrive" PROVE Arrives(w)'
    <3>1. /\ stop[q.trip][here(w)] = "pending"
          /\ \/ row.status = "assigned" /\ q.hops = <<"picked_up", "in_transit">>
             \/ row.status = "picked_up" /\ q.hops = <<"in_transit">>
          /\ q.entity.status = Head(q.hops) /\ q.selected.status = row.status
      BY <1>1, <2>7 DEF Outcome, Arrives, At
    <3>2. q.entity.status # q.selected.status
      BY <3>1, Hops
    <3>3. Seen(w, here(w))'.status = Head(q.hops)
      BY <1>4, <2>3, <2>5, <2>6, <2>7, <3>1, <3>2
    <3>4. CASE q.hops = <<"picked_up", "in_transit">>
      <4>1. request'[w].pc = "find" /\ request'[w].hops = <<"in_transit">>
        BY <1>4, <2>7, <3>4, Hops DEF Resumes
      <4>2. Seen(w, here(w))'.status = "picked_up"
        BY <3>3, <3>4, Hops
      <4>3. QED
        BY <1>1, <2>1, <3>1, <4>1, <4>2 DEF Arrives, At, Continues
    <3>5. CASE q.hops = <<"in_transit">>
      <4>1. request'[w].pc = "selectStop"
        BY <1>4, <2>7, <3>5, Hops DEF Resumes
      <4>2. Seen(w, here(w))'.status = "in_transit"
        BY <3>3, <3>5, Hops
      <4>3. QED
        BY <1>1, <2>1, <3>1, <4>1, <4>2 DEF Arrives, At, Continues
    <3>6. QED
      BY <3>1, <3>4, <3>5
  <2>8. ASSUME here(w) \notin repeated, q.kind = "complete" PROVE Completes(w)'
    <3>1. /\ stop[q.trip][here(w)] \in {"arrived", "completed"}
          /\ q.hops = <<"delivered">> /\ DOMAIN q.own = {}
          /\ q.entity.status = "delivered"
          /\ q.selected.status = "delivered" => order[here(w)].status = "delivered"
      BY <1>1, <2>8 DEF Outcome, Completes, At
    <3>2. row = order[here(w)]
      BY <3>1 DEF Seen
    <3>3. Seen(w, here(w))'.status = "delivered"
      BY <1>4, <2>3, <2>4, <2>5, <2>6, <2>8, <3>1, <3>2
    <3>4. request'[w].pc = "selectStop"
      BY <1>4, <2>8, <3>1, Hops DEF Resumes
    <3>5. QED
      BY <1>1, <2>1, <3>1, <3>3, <3>4 DEF Completes, At, Continues
  <2>9. QED
    BY <1>1, <2>1, <2>2, <2>7, <2>8, GoOnOutcome
<1>5. QED
  BY <1>3, <1>4, Updating

\* The steps of a dispatch but the last say nothing of a stop.
LEMMA LoadOutcome ==
  ASSUME Shape, Plain, Outcome, NEW w \in Request,
         (checkOrder(w) \/ placeStop(w)) /\ request[w].kind = "dispatch"
  PROVE  Outcome'
<1>1. UNCHANGED <<order, stop, repeated>> /\ (Ends(w) \/ Continues(w))
  BY Checking, Placing
<1>2. CASE Ends(w)
  BY <1>1, <1>2, EndOutcome
<1>3. CASE Continues(w)
  <2>1. Others(w) /\ request'[w].kind = "dispatch" /\ ~Stops(w)'
    BY <1>3 DEF Continues, Stops
  <2>2. QED
    BY <1>1, <2>1, QuietOutcome
<1>4. QED
  BY <1>1, <1>2, <1>3

LEMMA StopOutcome ==
  ASSUME Shape, Plain, Assigned, Outcome, NEW w \in Request, request[w].kind \in StopKind,
         findStop(w) \/ advanceOrder(w) \/ selectStop(w)
  PROVE  Outcome'
<1> DEFINE q == request[w]
<1>1. Active(w) /\ UNCHANGED <<order, stop, repeated>>
  BY FindingStop, Advancing, SelectingStop
<1>2. /\ q.kind \in {"arrive", "complete"} /\ Stops(w) /\ Serving(w) /\ Single(w)
  BY <1>1, KindsPlain DEF StopKind, Stops, Assigned, Outcome
<1>3. q.trip \in Trip /\ here(w) \in Order /\ stop[q.trip][here(w)] # Absent
  BY <1>1, <1>2, Working DEF Course, Stops, Serving
<1>4. here(w) \notin repeated =>
        /\ stop[q.trip][here(w)] \in DOMAIN Goal
        /\ order[here(w)].status = Goal[stop[q.trip][here(w)]]
  BY <1>3 DEF Outcome, Level
<1>5. DOMAIN Goal = {"pending", "arrived", "completed"} /\ Goal["pending"] = "assigned"
      /\ Goal["arrived"] = "in_transit" /\ Goal["completed"] = "delivered"
  BY DEF Goal
<1>6. CASE Ends(w)
  BY <1>1, <1>6, EndOutcome
<1>7. CASE findStop(w) /\ ~Ends(w)
  <2>1. /\ q.pc = "stop" /\ stop[q.trip][here(w)] \in stopAccepts[q.kind]
        /\ Continues(w) /\ SameList(w) /\ SameRows(w) /\ SameHops(w)
        /\ request'[w].pc = "advance"
    BY <1>7, FindingStop DEF At
  <2>2. DOMAIN q.own = {} /\ here(w)' = here(w) /\ request'[w].own = q.own
    BY <1>2, <2>1 DEF Single, At, here, SameList, SameRows
  <2>3. Seen(w, here(w))' = order[here(w)]
    BY <1>1, <2>2 DEF Seen
  <2>4. q.kind = "arrive" => stop[q.trip][here(w)] = "pending"
    BY <2>1 DEF stopAccepts
  <2>5. q.kind = "complete" => stop[q.trip][here(w)] = "arrived"
    BY <2>1 DEF stopAccepts
  <2>6. here(w) \notin repeated /\ q.kind = "arrive" => Arrives(w)'
    BY <1>1, <1>4, <1>5, <2>1, <2>2, <2>3, <2>4 DEF Arrives, At, Continues
  <2>7. here(w) \notin repeated /\ q.kind = "complete" => Completes(w)'
    BY <1>1, <1>4, <1>5, <2>1, <2>2, <2>3, <2>5 DEF Completes, At, Continues
  <2>8. QED
    BY <1>1, <2>1, <2>6, <2>7, GoOnOutcome
<1>8. CASE advanceOrder(w) /\ ~Ends(w)
  <2>1. /\ q.pc = "advance"
        /\ Continues(w) /\ SameList(w) /\ SameRows(w)
        /\ request'[w].hops = hopsOf(q.kind, Seen(w, here(w)).status)
        /\ request'[w].pc = IF request'[w].hops = <<>> THEN "selectStop" ELSE "find"
    BY <1>8, Advancing DEF At
  <2>2. here(w)' = here(w) /\ request'[w].own = q.own
    BY <2>1 DEF here, SameList, SameRows
  <2>3. Seen(w, here(w))' = Seen(w, here(w))
    BY <1>1, <2>2 DEF Seen
  <2>4. ASSUME here(w) \notin repeated, q.kind = "arrive" PROVE Arrives(w)'
    <3>1. Seen(w, here(w)).status = "assigned" /\ stop[q.trip][here(w)] = "pending"
      BY <1>1, <2>1, <2>4 DEF Outcome, Arrives, At
    <3>2. request'[w].hops = <<"picked_up", "in_transit">>
      BY <1>2, <2>1, <2>4, <3>1, HopsOf DEF hopsFrom, StopKind
    <3>3. request'[w].pc = "find"
      BY <2>1, <3>2, Hops
    <3>4. QED
      BY <1>1, <2>1, <2>2, <2>3, <3>1, <3>2, <3>3 DEF Arrives, At, Continues
  <2>5. ASSUME here(w) \notin repeated, q.kind = "complete" PROVE Completes(w)'
    <3>1. DOMAIN q.own = {} /\ stop[q.trip][here(w)] \in {"arrived", "completed"}
      BY <1>1, <2>1, <2>5 DEF Outcome, Completes, At
    <3>2. Seen(w, here(w)).status \in {"in_transit", "delivered"}
      BY <1>4, <1>5, <2>5, <3>1 DEF Seen
    <3>3. request'[w].hops = <<"delivered">>
      BY <2>1, <2>5, <3>2, HopsOf DEF lastHop, StopKind
    <3>4. request'[w].pc = "find"
      BY <2>1, <3>3, Hops
    <3>5. QED
      BY <1>1, <2>1, <2>2, <3>1, <3>3, <3>4 DEF Completes, At, Continues
  <2>6. QED
    BY <1>1, <2>1, <2>4, <2>5, GoOnOutcome
<1>9. CASE selectStop(w)
  <2>1. /\ q.pc = "selectStop"
        /\ Continues(w) /\ SameList(w) /\ SameRows(w) /\ SameHops(w)
        /\ request'[w].stopSelected = stop[q.trip][here(w)]
        /\ request'[w].pc = "updateStop"
    BY <1>9, SelectingStop DEF At
  <2>2. here(w)' = here(w) /\ request'[w].own = q.own
    BY <2>1 DEF here, SameList, SameRows
  <2>3. Seen(w, here(w))' = Seen(w, here(w))
    BY <1>1, <2>2 DEF Seen
  <2>4. here(w) \notin repeated /\ q.kind = "arrive" => Arrives(w)'
    BY <1>1, <2>1, <2>2, <2>3 DEF Outcome, Arrives, At, Continues
  <2>5. here(w) \notin repeated /\ q.kind = "complete" => Completes(w)'
    BY <1>1, <2>1, <2>2, <2>3 DEF Outcome, Completes, At, Continues
  <2>6. QED
    BY <1>1, <2>1, <2>4, <2>5, GoOnOutcome
<1>10. QED
  BY <1>6, <1>7, <1>8, <1>9

\* A commit that ends request w, for whoever is still at work.
LEMMA CommitOutcome ==
  ASSUME Shape, Plain, Outcome, NEW w \in Request, Ends(w), UNCHANGED repeated, Level',
         \A v \in Request \ {w} : Active(v) /\ Stops(v) /\ here(v) \notin repeated =>
           /\ request'[v] = request[v] /\ request[v].kind = "arrive" => Arrives(v)'
           /\ request'[v] = request[v] /\ request[v].kind = "complete" => Completes(v)'
  PROVE  Outcome'
<1>1. ASSUME NEW v \in Request, Active(v)'
      PROVE  /\ v # w /\ Active(v) /\ request'[v] = request[v] /\ here(v)' = here(v)
             /\ Stops(v)' <=> Stops(v)
  BY <1>1 DEF Ends, Others, Active, Idle, here, Stops
<1>2. OneArrival'
  BY <1>1 DEF Outcome, OneArrival
<1>3. ASSUME NEW v \in Request, Active(v)'
      PROVE  /\ Stops(v)' => Single(v)'
             /\ here(v)' \notin repeated' => /\ request'[v].kind = "arrive" => Arrives(v)'
                                             /\ request'[v].kind = "complete" => Completes(v)'
  <2>1. /\ v # w /\ Active(v) /\ request'[v] = request[v] /\ here(v)' = here(v)
        /\ Stops(v)' <=> Stops(v)
    BY <1>1, <1>3
  <2>2. Stops(v)' => Single(v)'
    BY <2>1 DEF Outcome, Single, At
  <2>3. request[v].kind \in {"arrive", "complete"} => Stops(v)
    BY DEF Stops
  <2>4. QED
    BY <2>1, <2>2, <2>3
<1>4. QED
  BY <1>2, <1>3 DEF Outcome

LEMMA DispatchOutcome ==
  ASSUME Shape, OneStopEach, Alone, Plain, Assigned, Outcome, NEW w \in Request,
         commitDispatch(w), request[w].kind = "dispatch"
  PROVE  Outcome'
<1> DEFINE q == request[w]
<1>1. /\ Active(w) /\ q.pc = "commitDispatch" /\ Ends(w) /\ UNCHANGED repeated
      /\ \A o \in Order : order'[o] = Seen(w, o)
      /\ \A t \in Trip, o \in Order :
           stop'[t][o] = IF t = q.trip /\ o \in q.placed THEN "pending" ELSE stop[t][o]
  BY DispatchCommits DEF CommitsOrders, At
<1>2. Dispatches(w) /\ Loading(w)
  BY <1>1 DEF Dispatches, Assigned
<1>3. q.trip \in Trip /\ q.placed \subseteq Order /\ DOMAIN q.own = q.placed
  BY <1>1, <1>2, Working DEF Course, Dispatches, Work, Loading, At
<1>4. \A o \in q.placed : ~HasStop(o) /\ order'[o].status = "assigned"
  BY <1>1, <1>2, <1>3 DEF Alone, Loading, Seen
<1>5. \A o \in Order \ q.placed : order'[o] = order[o]
  BY <1>1, <1>3 DEF Seen
<1>6. Level'
  <2> SUFFICES ASSUME NEW o \in Order \ repeated, NEW t \in Trip, stop'[t][o] # Absent
               PROVE  stop'[t][o] \in DOMAIN Goal /\ order'[o].status = Goal[stop'[t][o]]
    BY <1>1 DEF Level
  <2>1. CASE o \in q.placed
    <3>1. stop[t][o] = Absent
      BY <1>4, <2>1 DEF HasStop
    <3>2. stop'[t][o] = "pending"
      BY <1>1, <2>1, <3>1
    <3>3. QED
      BY <1>4, <2>1, <3>2 DEF Goal
  <2>2. CASE o \notin q.placed
    <3>1. stop'[t][o] = stop[t][o] /\ order'[o] = order[o]
      BY <1>1, <1>5, <2>2
    <3>2. QED
      BY <3>1 DEF Outcome, Level
  <2>3. QED
    BY <2>1, <2>2
<1>7. ASSUME NEW v \in Request \ {w}, Active(v), Stops(v), request'[v] = request[v]
      PROVE  (Arrives(v) => Arrives(v)') /\ (Completes(v) => Completes(v)')
  <2>1. request[v].trip \in Trip /\ here(v) \in Order /\ stop[request[v].trip][here(v)] # Absent
    BY <1>7, Working DEF Assigned, Course, Stops, Serving
  <2>2. here(v) \notin q.placed
    BY <1>4, <2>1 DEF HasStop
  <2>3. /\ order'[here(v)] = order[here(v)]
        /\ stop'[request[v].trip][here(v)] = stop[request[v].trip][here(v)]
    BY <1>1, <1>5, <2>1, <2>2
  <2>4. QED
    BY <1>7, <2>3, OthersAgree
<1>8. QED
  BY <1>1, <1>6, <1>7, CommitOutcome DEF Outcome

LEMMA StopCommitOutcome ==
  ASSUME Shape, OneStopEach, Alone, Plain, Assigned, Outcome, NEW w \in Request,
         updateStop(w), request[w].kind \in StopKind
  PROVE  Outcome'
<1> DEFINE q == request[w]  o == here(w)
<1>1. Active(w) /\ q.pc = "updateStop"
  BY UpdatingStop DEF At
<1>2. q.kind \in {"arrive", "complete"} /\ Stops(w) /\ Serving(w)
  BY <1>1, KindsPlain DEF StopKind, Stops, Assigned
<1>3. q.trip \in Trip /\ o \in Order /\ q.stopSelected # Absent /\ stop[q.trip][o] # Absent
  BY <1>1, <1>2, Working DEF Course, Stops, Serving, At
<1>4. CASE Ends(w) /\ UNCHANGED <<order, tripDriver, startedAt, stop, ordersThisPeriod, repeated>>
  BY <1>4, EndOutcome
<1>5. CASE /\ CommitsOrders(w)
           /\ \A t \in Trip, p \in Order : t # q.trip \/ p # o => stop'[t][p] = stop[t][p]
           /\ stop'[q.trip][o] = IF q.stopSelected = Absent
                                     \/ (q.stopSelected # stopBecomes[q.kind]
                                           /\ stop[q.trip][o] # Absent)
                                THEN stopBecomes[q.kind] ELSE stop[q.trip][o]
  <2>1. Ends(w) /\ UNCHANGED repeated /\ \A p \in Order : order'[p] = Seen(w, p)
    BY <1>5 DEF CommitsOrders
  <2>2. \A p \in Order : p # o => order'[p] = order[p]
    BY <1>2, <2>1 DEF Serving, Seen
  <2>3. stopBecomes["arrive"] = "arrived" /\ stopBecomes["complete"] = "completed"
    BY DEF stopBecomes
  <2>4. ASSUME o \notin repeated, q.kind = "arrive"
        PROVE  /\ stop[q.trip][o] = "pending"
               /\ stop'[q.trip][o] = "arrived" /\ order'[o].status = "in_transit"
    <3>1. /\ stop[q.trip][o] = "pending" /\ Seen(w, o).status = "in_transit"
          /\ q.stopSelected = "pending"
      BY <1>1, <2>4 DEF Outcome, Arrives, At
    <3>2. QED
      BY <1>3, <1>5, <2>1, <2>3, <2>4, <3>1
  <2>5. ASSUME o \notin repeated, q.kind = "complete"
        PROVE  /\ stop[q.trip][o] \in {"arrived", "completed"}
               /\ stop'[q.trip][o] = "completed" /\ order'[o].status = "delivered"
    <3>1. /\ stop[q.trip][o] \in {"arrived", "completed"} /\ Seen(w, o).status = "delivered"
          /\ q.stopSelected \in {"arrived", "completed"}
          /\ q.stopSelected = "completed" => stop[q.trip][o] = "completed"
      BY <1>1, <2>5 DEF Outcome, Completes, At
    <3>2. QED
      BY <1>3, <1>5, <2>1, <2>3, <2>5, <3>1
  <2>6. \A t \in Trip : t # q.trip => stop[t][o] = Absent
    BY <1>3 DEF OneStopEach
  <2>7. Level'
    <3> SUFFICES ASSUME NEW p \in Order \ repeated, NEW t \in Trip, stop'[t][p] # Absent
                 PROVE  stop'[t][p] \in DOMAIN Goal /\ order'[p].status = Goal[stop'[t][p]]
      BY <2>1 DEF Level
    <3>1. CASE p # o
      BY <1>5, <2>2, <3>1 DEF Outcome, Level
    <3>2. CASE p = o
      <4>1. t = q.trip
        BY <1>5, <2>6, <3>2
      <4>2. QED
        BY <1>2, <2>4, <2>5, <3>2, <4>1 DEF Goal
    <3>3. QED
      BY <3>1, <3>2
  <2>8. ASSUME NEW v \in Request \ {w}, Active(v), Stops(v), here(v) \notin repeated,
               request'[v] = request[v]
        PROVE  /\ request[v].kind = "arrive" => Arrives(v)'
               /\ request[v].kind = "complete" => Completes(v)'
    <3>1. /\ request[v].trip \in Trip /\ here(v) \in Order
          /\ stop[request[v].trip][here(v)] # Absent
      BY <2>8, Working DEF Assigned, Course, Stops, Serving
    <3>2. /\ request[v].kind = "arrive" => Arrives(v)
          /\ request[v].kind = "complete" => Completes(v)
      BY <2>8 DEF Outcome
    <3>3. CASE here(v) # o
      <4>1. /\ order'[here(v)] = order[here(v)]
            /\ stop'[request[v].trip][here(v)] = stop[request[v].trip][here(v)]
        BY <1>5, <2>2, <3>1, <3>3
      <4>2. QED
        BY <2>8, <3>2, <4>1, OthersAgree
    <3>4. CASE here(v) = o
      <4>1. request[v].trip = q.trip
        BY <1>3, <3>1, <3>4 DEF OneStopEach
      <4>2. here(v)' = o /\ \A pc : At(v, pc)' <=> request[v].pc = pc
        BY <2>8, <3>4 DEF here, At
      <4>3. ASSUME request[v].kind = "arrive" PROVE Arrives(v)'
        <5>1. q.kind = "complete"
          BY <1>1, <1>2, <2>8, <3>4, <4>3 DEF Outcome, OneArrival
        <5>2. stop[q.trip][o] # "pending"
          BY <2>5, <2>8, <3>4, <5>1
        <5>3. request[v].pc = "stop"
          BY <3>2, <3>4, <4>1, <4>3, <5>2 DEF Arrives
        <5>4. QED
          BY <2>8, <5>3 DEF Arrives
      <4>4. ASSUME request[v].kind = "complete" PROVE Completes(v)'
        <5>1. CASE request[v].pc = "stop"
          BY <2>8, <5>1 DEF Completes
        <5>2. CASE request[v].pc # "stop"
          <6>1. stop[q.trip][o] \in {"arrived", "completed"}
            BY <3>2, <3>4, <4>1, <4>4, <5>2 DEF Completes
          <6>2. q.kind = "complete"
            BY <1>2, <2>4, <2>8, <3>4, <6>1
          <6>3. stop'[q.trip][o] = "completed" /\ order'[o].status = "delivered"
            BY <2>5, <2>8, <3>4, <6>2
          <6>4. Completes(v)
            BY <3>2, <4>4
          <6>5. /\ request[v].pc = "advance" => DOMAIN request[v].own = {}
                /\ request[v].pc \in {"find", "select", "update"} =>
                     request[v].hops = <<"delivered">> /\ DOMAIN request[v].own = {}
                /\ request[v].pc \in {"select", "update"} => request[v].entity.status = "delivered"
                /\ request[v].pc \in {"selectStop", "updateStop"} => Seen(v, o).status = "delivered"
                /\ request[v].pc = "updateStop" =>
                     request[v].stopSelected \in {"arrived", "completed"}
            BY <3>4, <5>2, <6>4 DEF Completes, At
          <6>6. Seen(v, o).status = "delivered" => Seen(v, here(v))'.status = "delivered"
            BY <2>8, <4>2, <6>3 DEF Seen
          <6>7. QED
            BY <2>8, <4>1, <4>2, <6>3, <6>5, <6>6 DEF Completes
        <5>3. QED
          BY <5>1, <5>2
      <4>5. QED
        BY <4>3, <4>4
    <3>5. QED
      BY <3>3, <3>4
  <2>9. QED
    BY <2>1, <2>7, <2>8, CommitOutcome
<1>6. QED
  BY <1>4, <1>5, UpdatingStop

LEMMA ArrivalOutcome ==
  ASSUME Shape, OneStopEach, Plain, Assigned, Outcome, NEW w \in Request, arrives(w)
  PROVE  Outcome'
<1>1. UNCHANGED <<order, stop>> /\ Fresh(w) /\ Others(w) /\ repeated \subseteq repeated'
  BY Opening DEF Fresh
<1>2. request'[w].kind \in {"dispatch", "arrive", "complete"}
  BY <1>1 DEF Fresh, Work, Plain
<1>3. CASE request'[w].kind = "dispatch"
  <2>1. ~Stops(w)'
    BY <1>3 DEF Stops
  <2>2. QED
    BY <1>1, <1>3, <2>1, QuietOutcome
<1>4. CASE \E t \in Trip, o \in Order, kind \in StopKind :
             /\ request'[w].kind = kind /\ request'[w].pc = "stop" /\ request'[w].trip = t
             /\ request'[w].orders = <<o>> /\ request'[w].hops = <<>>
             /\ stop[t][o] # Absent
             /\ repeated' = repeated \cup
                  IF kind = "arrive" /\ Arriving(t, o) # {} THEN {o} ELSE {}
  <2>1. PICK t \in Trip, o \in Order, kind \in StopKind :
             /\ request'[w].kind = kind /\ request'[w].pc = "stop" /\ request'[w].trip = t
             /\ request'[w].orders = <<o>> /\ request'[w].hops = <<>>
             /\ stop[t][o] # Absent
             /\ repeated' = repeated \cup
                  IF kind = "arrive" /\ Arriving(t, o) # {} THEN {o} ELSE {}
    BY <1>4
  <2>2. here(w)' = o
    BY <2>1, Starting DEF here
  <2>3. Single(w)'
    BY <1>1, <2>1, <2>2 DEF Single, Fresh
  <2>4. Arrives(w)' /\ Completes(w)'
    BY <2>1 DEF Arrives, Completes
  <2>5. ASSUME NEW v \in Request \ {w}, Active(v), request[v].kind = "arrive",
               request'[w].kind = "arrive", here(v) = here(w)'
        PROVE  here(v) \in repeated'
    <3>1. Stops(v) /\ Single(v) /\ Serving(v)
      BY <2>5 DEF Stops, Outcome, Assigned
    <3>2. request[v].orders = <<o>> /\ request[v].trip = t
      BY <2>1, <2>2, <2>5, <3>1, Working DEF Single, Serving, Course, Stops, OneStopEach
    <3>3. v \in Arriving(t, o)
      BY <2>5, <3>2 DEF Arriving
    <3>4. QED
      BY <2>1, <2>2, <2>5, <3>3
  <2>6. QED
    BY <1>1, <2>3, <2>4, <2>5, QuietOutcome
<1>5. QED
  BY <1>2, <1>3, <1>4, Opening

LEMMA CreationOutcome ==
  ASSUME Shape, Plain, Assigned, Outcome, NEW o \in Order, NEW b \in BOOLEAN, createOrder(o, b)
  PROVE  Outcome'
<1>1. /\ order[o] = NoRow
      /\ \A p \in Order \ {o} : order'[p] = order[p]
      /\ UNCHANGED <<stop, request, repeated>>
  BY Creating
<1>2. ~HasStop(o)
  <2>1. order[o].status = Absent
    BY <1>1 DEF NoRow
  <2>2. QED
    BY <2>1 DEF Assigned, Rest, HasStop
<1>3. Level'
  BY <1>1, <1>2 DEF Outcome, Level, HasStop
<1>4. ASSUME NEW v \in Request, Active(v)'
      PROVE  /\ Active(v) /\ request'[v] = request[v] /\ here(v)' = here(v)
             /\ Stops(v)' => Single(v)'
             /\ Stops(v) => (Arrives(v) => Arrives(v)') /\ (Completes(v) => Completes(v)')
  <2>1. Active(v) /\ request'[v] = request[v] /\ here(v)' = here(v)
    BY <1>1, <1>4 DEF Active, here
  <2>2. ASSUME Stops(v)
        PROVE  /\ Single(v)' /\ (Arrives(v) => Arrives(v)') /\ (Completes(v) => Completes(v)')
    <3>1. Single(v)'
      BY <1>1, <2>1, <2>2 DEF Outcome, Single, At, here
    <3>2. /\ request[v].trip \in Trip /\ here(v) \in Order
          /\ stop[request[v].trip][here(v)] # Absent
      BY <2>1, <2>2, Working DEF Assigned, Course, Stops, Serving
    <3>3. here(v) # o
      BY <1>2, <3>2 DEF HasStop
    <3>4. QED
      BY <1>1, <2>1, <3>1, <3>2, <3>3, OthersAgree
  <2>3. Stops(v)' <=> Stops(v)
    BY <2>1 DEF Stops
  <2>4. QED
    BY <2>1, <2>2, <2>3
<1>5. OneArrival'
  BY <1>1, <1>4 DEF Outcome, OneArrival
<1>6. \A v \in Request : request[v].kind \in {"arrive", "complete"} => Stops(v)
  BY DEF Stops
<1>7. QED
  BY <1>1, <1>3, <1>4, <1>5, <1>6 DEF Outcome

LEMMA OutcomeStays ==
  ASSUME Shape, OneStopEach, Alone, Assigned, Plain, Outcome, [Next]_vars
  PROVE  Outcome'
<1>1. ASSUME NEW w \in Request, Step(w) PROVE Outcome'
  <2>1. request[w].pc # "commit" /\ request[w].pc # "remove"
    <3>1. CASE ~Active(w)
      BY <3>1 DEF Active
    <3>2. CASE Active(w)
      BY <3>2, KindsPlain, Kinds DEF StopKind
    <3>3. QED
      BY <3>1, <3>2
  <2>2. ~commitChange(w) /\ ~removeOrder(w)
    BY <2>1 DEF commitChange, removeOrder, At
  <2>3. QED
    BY <1>1, <2>2, Cases, FindOutcome, SelectOutcome, SaveOutcome, LoadOutcome, StopOutcome,
       DispatchOutcome, StopCommitOutcome
<1>2. ASSUME NEW w \in Request, rollback(w) PROVE Outcome'
  BY <1>2, RollingBack, EndOutcome
<1>3. ASSUME NEW w \in Request, arrives(w) PROVE Outcome'
  BY <1>3, ArrivalOutcome
<1>4. ASSUME NEW o \in Order, NEW b \in BOOLEAN, createOrder(o, b) PROVE Outcome'
  BY <1>4, CreationOutcome
<1>5. CASE UNCHANGED vars
  <2> USE <1>5 DEF vars
  <2>1. Level'
    BY DEF Outcome, Level
  <2>2. OneArrival'
    BY DEF Outcome, OneArrival, Active, here
  <2>3. ASSUME NEW w \in Request, Active(w)', Stops(w)' PROVE Single(w)'
    BY <2>3 DEF Outcome, Single, Active, Stops, At, here
  <2>4. ASSUME NEW w \in Request, Active(w)', here(w)' \notin repeated'
        PROVE  /\ request'[w].kind = "arrive" => Arrives(w)'
               /\ request'[w].kind = "complete" => Completes(w)'
    <3>1. /\ request[w].kind = "arrive" => Arrives(w)
          /\ request[w].kind = "complete" => Completes(w)
      BY <2>4 DEF Outcome, Active, here
    <3>2. Arrives(w) => Arrives(w)'
      BY DEF Arrives, At, here, Seen
    <3>3. Completes(w) => Completes(w)'
      BY DEF Completes, At, here, Seen
    <3> QED BY <3>1, <3>2, <3>3
  <2> QED BY <2>1, <2>2, <2>3, <2>4 DEF Outcome
<1>6. QED
  BY <1>1, <1>2, <1>3, <1>4, <1>5 DEF Next, deadlockDetected, connectionLost

\* At first no stop is there, so there is nothing for a status to agree with.
LEMMA OutcomeAtFirst == Init => Shape /\ OneStopEach /\ Alone /\ Assigned /\ Outcome
<1> SUFFICES ASSUME Init PROVE Outcome
  BY AloneAtFirst, AssignedAtFirst
<1>1. \A w \in Request : ~Active(w)
  BY DEF Init, Active, Idle
<1>2. \A t \in Trip, o \in Order : stop[t][o] = Absent
  BY DEF Init
<1> QED BY <1>1, <1>2 DEF Outcome, Level, OneArrival

\* StopAndOrderAgree, for any number of creations, dispatches, arrivals and completions at
\* a time: but for orders arrived at by two requests that overlap, the status of an order
\* is the one its stop says.
THEOREM OutcomesAgree ==
  ASSUME Kind \subseteq {"create", "dispatch", "arrive", "complete"}
  PROVE  Spec => []StopAndOrderAgree
<1> DEFINE IInv == Shape /\ OneStopEach /\ Alone /\ Assigned /\ Outcome
<1>1. Untouched /\ Plain
  BY DEF Untouched, Plain
<1>2. Init => IInv
  BY OutcomeAtFirst
<1>3. IInv /\ [Next]_vars => IInv'
  BY <1>1, ShapeStays, LoneStays, AssignedStays, OutcomeStays
<1>4. IInv => StopAndOrderAgree
  BY DEF StopAndOrderAgree, Outcome, Level, Goal, Absent
<1>5. QED
  BY <1>2, <1>3, <1>4, PTL DEF Spec

\* A stop goes on, one way, and the status of its order along the table with it.
Onward(o) ==
  /\ order[o].status # Absent =>
       order'[o].status \in {order[o].status} \cup Serial!Walk(order[o].status)
  /\ \A t \in Trip : stop[t][o] # Absent =>
       <<stop[t][o], stop'[t][o]>> \in {<<stop[t][o], stop[t][o]>>, <<"pending", "arrived">>,
                                        <<"arrived", "completed">>}

\* The moves that these requests make are in the table.
LEMMA OnTheTable ==
  /\ "assigned" \in Serial!Walk("pending")
  /\ "in_transit" \in Serial!Walk("assigned")
  /\ "delivered" \in Serial!Walk("in_transit")
<1>1. \A s, r, t \in OrderStatus :
        /\ r \in Serial!ALLOWED_ORDER_STATUS_TRANSITIONS[s] => r \in Serial!Walk(s)
        /\ r \in Serial!ALLOWED_ORDER_STATUS_TRANSITIONS[s]
             /\ t \in Serial!ALLOWED_ORDER_STATUS_TRANSITIONS[r] => t \in Serial!Walk(s)
  BY DEF Serial!Walk, Serial!Moves
<1>2. /\ "assigned" \in Serial!ALLOWED_ORDER_STATUS_TRANSITIONS["pending"]
      /\ "picked_up" \in Serial!ALLOWED_ORDER_STATUS_TRANSITIONS["assigned"]
      /\ "in_transit" \in Serial!ALLOWED_ORDER_STATUS_TRANSITIONS["picked_up"]
      /\ "delivered" \in Serial!ALLOWED_ORDER_STATUS_TRANSITIONS["in_transit"]
  BY DEF Serial!ALLOWED_ORDER_STATUS_TRANSITIONS
<1> QED BY <1>1, <1>2 DEF OrderStatus

\* What a dispatch commits was pending, and is a stop from then on.
LEMMA DispatchOnward ==
  ASSUME Shape, Alone, Assigned, NEW w \in Request, commitDispatch(w),
         request[w].kind = "dispatch", NEW o \in Order
  PROVE  Onward(o)
<1> DEFINE q == request[w]
<1>1. /\ Active(w) /\ q.pc = "commitDispatch" /\ \A p \in Order : order'[p] = Seen(w, p)
      /\ \A t \in Trip, p \in Order :
           stop'[t][p] = IF t = q.trip /\ p \in q.placed THEN "pending" ELSE stop[t][p]
  BY DispatchCommits DEF CommitsOrders, At
<1>2. Dispatches(w) /\ Loading(w)
  BY <1>1 DEF Dispatches, Assigned
<1>3. DOMAIN q.own = q.placed
  BY <1>1, <1>2 DEF Loading, At
<1>4. CASE o \in q.placed
  <2>1. ~HasStop(o) /\ order'[o].status = "assigned" /\ order[o].status = "pending"
    BY <1>1, <1>2, <1>3, <1>4 DEF Alone, Loading, Seen, Assigned, Rest
  <2> QED BY <2>1, OnTheTable DEF Onward, HasStop
<1>5. CASE o \notin q.placed
  BY <1>1, <1>3, <1>5 DEF Onward, Seen
<1> QED BY <1>4, <1>5

\* What a stop operation commits is the step its stop and its order take together.
LEMMA StopOnward ==
  ASSUME Shape, Plain, Assigned, Outcome, NEW w \in Request, updateStop(w),
         request[w].kind \in StopKind, NEW o \in Order \ repeated
  PROVE  Onward(o)
<1> DEFINE q == request[w]
<1>1. Active(w) /\ q.pc = "updateStop"
  BY UpdatingStop DEF At
<1>2. q.kind \in {"arrive", "complete"} /\ Stops(w) /\ Serving(w)
  BY <1>1, KindsPlain DEF StopKind, Stops, Assigned
<1>3. q.trip \in Trip /\ q.stopSelected # Absent /\ stop[q.trip][here(w)] # Absent
  BY <1>1, <1>2, Working DEF Course, Stops, Serving, At
<1>4. CASE UNCHANGED <<order, stop>>
  BY <1>4 DEF Onward
<1>5. CASE /\ \A p \in Order : order'[p] = Seen(w, p)
           /\ \A t \in Trip, p \in Order : t # q.trip \/ p # here(w) => stop'[t][p] = stop[t][p]
           /\ stop'[q.trip][here(w)] = IF q.stopSelected = Absent
                                          \/ (q.stopSelected # stopBecomes[q.kind]
                                                /\ stop[q.trip][here(w)] # Absent)
                                       THEN stopBecomes[q.kind] ELSE stop[q.trip][here(w)]
  <2>1. CASE o # here(w)
    <3>1. order'[o] = order[o] /\ \A t \in Trip : stop'[t][o] = stop[t][o]
      BY <1>2, <1>5, <2>1 DEF Serving, Seen
    <3> QED BY <3>1 DEF Onward
  <2>2. CASE o = here(w) /\ q.kind = "arrive"
    <3>1. /\ stop[q.trip][o] = "pending" /\ Seen(w, o).status = "in_transit"
          /\ q.stopSelected = "pending"
      BY <1>1, <2>2 DEF Outcome, Arrives, At
    <3>2. order[o].status = "assigned" /\ order'[o].status = "in_transit"
      BY <1>3, <1>5, <3>1 DEF Outcome, Level, Goal, Absent
    <3>3. stop'[q.trip][o] = "arrived" /\ \A t \in Trip \ {q.trip} : stop'[t][o] = stop[t][o]
      BY <1>5, <2>2, <3>1 DEF stopBecomes, Absent
    <3> QED BY <3>1, <3>2, <3>3, OnTheTable DEF Onward
  <2>3. CASE o = here(w) /\ q.kind = "complete"
    <3>1. /\ stop[q.trip][o] \in {"arrived", "completed"} /\ Seen(w, o).status = "delivered"
          /\ q.stopSelected \in {"arrived", "completed"}
          /\ q.stopSelected = "completed" => stop[q.trip][o] = "completed"
      BY <1>1, <2>3 DEF Outcome, Completes, At
    <3>2. order[o].status \in {"in_transit", "delivered"} /\ order'[o].status = "delivered"
      BY <1>3, <1>5, <3>1 DEF Outcome, Level, Goal, Absent
    <3>3. stop'[q.trip][o] = "completed" /\ \A t \in Trip \ {q.trip} : stop'[t][o] = stop[t][o]
      BY <1>5, <2>3, <3>1 DEF stopBecomes, Absent
    <3> QED BY <3>1, <3>2, <3>3, OnTheTable DEF Onward
  <2> QED BY <1>2, <2>1, <2>2, <2>3
<1> QED BY <1>4, <1>5, UpdatingStop DEF CommitsOrders

\* Among creations, dispatches, arrivals and completions, however many are in progress at a
\* time, the table is enforced and an outcome stands: but for an order arrived at by two
\* requests that overlap, its status only changes along ALLOWED_ORDER_STATUS_TRANSITIONS, and
\* a stop that is arrived at or completed is never taken back.
THEOREM OutcomesStand ==
  ASSUME Kind \subseteq {"create", "dispatch", "arrive", "complete"}
  PROVE  Spec => [][\A o \in Order \ repeated' :
            /\ order[o].status # Absent =>
                 order'[o].status \in {order[o].status} \cup Serial!Walk(order[o].status)
            /\ \A t \in Trip : stop[t][o] # Absent =>
                 <<stop[t][o], stop'[t][o]>> \in
                   {<<stop[t][o], stop[t][o]>>, <<"pending", "arrived">>,
                    <<"arrived", "completed">>}]_vars
<1> DEFINE IInv == Shape /\ OneStopEach /\ Alone /\ Assigned /\ Outcome
           Step1 == \A o \in Order \ repeated' : Onward(o)
<1>1. Untouched /\ Plain
  BY DEF Untouched, Plain
<1>2. Init => IInv
  BY OutcomeAtFirst
<1>3. IInv /\ [Next]_vars => IInv'
  BY <1>1, ShapeStays, LoneStays, AssignedStays, OutcomeStays
<1>4. IInv /\ [Next]_vars => [Step1]_vars
  <2> SUFFICES ASSUME IInv, Next, NEW o \in Order \ repeated' PROVE Onward(o)
    OBVIOUS
  <2>1. UNCHANGED <<order, stop>> => Onward(o)
    BY DEF Onward
  <2>2. ASSUME NEW w \in Request, Step(w) PROVE Onward(o)
    <3>1. UNCHANGED repeated
      BY <2>2, StepShape
    <3>2. request[w].pc # "commit" /\ request[w].pc # "remove"
      <4>1. CASE ~Active(w)
        BY <4>1 DEF Active
      <4>2. CASE Active(w)
        BY <1>1, <4>2, KindsPlain, Kinds DEF StopKind
      <4> QED BY <4>1, <4>2
    <3>3. ~commitChange(w) /\ ~removeOrder(w)
      BY <3>2 DEF commitChange, removeOrder, At
    <3> QED
      BY <1>1, <2>1, <2>2, <3>1, <3>3, Cases, Finding, Selecting, Updating, Checking, Placing,
         FindingStop, Advancing, SelectingStop, DispatchOnward, StopOnward
  <2>3. ASSUME NEW w \in Request, rollback(w) \/ arrives(w) PROVE Onward(o)
    BY <2>1, <2>3, RollingBack, Opening
  <2>4. ASSUME NEW p \in Order, NEW b \in BOOLEAN, createOrder(p, b) PROVE Onward(o)
    <3>1. /\ order[p] = NoRow /\ UNCHANGED stop
          /\ \A r \in Order \ {p} : order'[r] = order[r]
      BY <2>4, Creating
    <3> QED BY <3>1 DEF Onward, NoRow
  <2> QED BY <2>2, <2>3, <2>4 DEF Next, deadlockDetected, connectionLost
<1> HIDE DEF IInv, Step1
<1>5. Spec => [][Step1]_vars
  BY <1>2, <1>3, <1>4, PTL DEF Spec
<1> QED BY <1>5 DEF Step1, Onward

-----------------------------------------------------------------------------
(* One request at a time *)

Bare(w) == DOMAIN request[w].own = {}

\* A status change or an edit: what it is about to write is what it makes of the row.
Changes(w) ==
  LET q == request[w]  row == order[here(w)] IN
  /\ q.pc # "commit" => Bare(w)
  /\ q.pc # "find" => accepts(q, row)
  /\ q.pc \in {"select", "update"} => q.entity = changed(q, row)
  /\ q.pc = "update" => q.selected = row
  /\ q.pc = "commit" => DOMAIN q.own \subseteq {here(w)} /\ Seen(w, here(w)) = changed(q, row)

Deletes(w) ==
  /\ Bare(w)
  /\ At(w, "remove") => order[here(w)].status \in DELETABLE_ORDER_STATUSES

\* A dispatch: what it has written is assigned, and was free to be.
Free(o) == order[o].status = "pending" /\ ~order[o].scheduled

Loads(w) ==
  LET q == request[w]  o == here(w) IN
  /\ tripDriver[q.trip] = NoDriver
  /\ DOMAIN q.own = q.placed \cup (IF q.pc = "place" THEN {o} ELSE {})
  /\ \A p \in DOMAIN q.own : Free(p) /\ q.own[p] = changed(q, order[p])
  /\ \A p \in q.placed : ~HasStop(p)
  /\ q.pc \in {"find", "select", "update"} => o \notin q.placed /\ Free(o)
  /\ q.pc \in {"select", "update"} => q.entity = changed(q, order[o])
  /\ q.pc = "update" => q.selected = order[o]
  /\ q.pc = "commitDispatch" => q.placed # {}

\* A stop operation: the hops left lead from where the order is to what Dispatch makes of
\* it in one step, and the stop is still as it was found.
Reached(s) == advanceOrderTo(s, "in_transit")

Final(kind, s) == [arrive |-> Reached(s), complete |-> "delivered", skip |-> "failed"][kind]

Advances(w) ==
  LET q == request[w]  o == here(w)  row == order[o]  own == Seen(w, o) IN
  /\ DOMAIN q.own \subseteq {o}
  /\ q.pc \in {"stop", "advance"} => Bare(w)
  /\ q.pc # "stop" => stop[q.trip][o] \in stopAccepts[q.kind]
  /\ q.pc \notin {"stop", "advance"} =>
       row.status # Absent /\ own.scheduled = row.scheduled /\ own.driver = row.driver
  /\ q.pc \in {"find", "select", "update"} =>
       /\ Reached(own.status) = Reached(row.status)
       /\ q.hops = hopsOf(q.kind, own.status) /\ q.hops # <<>>
  /\ q.pc \in {"select", "update"} => accepts(q, own) /\ q.entity = changed(q, own)
  /\ q.pc = "update" => q.selected = own
  /\ q.pc \in {"selectStop", "updateStop"} =>
       /\ own.status = Final(q.kind, row.status)
       /\ q.kind # "arrive" => own.status \in ALLOWED_ORDER_STATUS_TRANSITIONS[Reached(row.status)]
  /\ q.pc = "updateStop" => q.stopSelected = stop[q.trip][o]

InTurn(w) ==
  /\ request[w].kind \in {"patch", "edit"} => Changes(w)
  /\ request[w].kind = "delete" => Deletes(w)
  /\ request[w].kind = "dispatch" => Loads(w)
  /\ request[w].kind \in StopKind => Advances(w)

Turns == Gone /\ \A w \in Request : Active(w) => InTurn(w)

\* What is made of a row depends on what was asked alone.
LEMMA SameChange ==
  ASSUME NEW p, NEW q, NEW row, p.kind = q.kind, p.arg = q.arg, p.hops = q.hops
  PROVE  changed(p, row) = changed(q, row) /\ (accepts(p, row) <=> accepts(q, row))
BY DEF changed, accepts

LEMMA MergedIsEntity ==
  ASSUME NEW q, q.entity \in Row, q.selected \in Row
  PROVE  merged(q, q.selected) = q.entity
<1>1. /\ DOMAIN q.selected = {"status", "scheduled", "driver"}
      /\ DOMAIN q.entity = {"status", "scheduled", "driver"}
      /\ q.entity = [c \in {"status", "scheduled", "driver"} |-> q.entity[c]]
  BY DEF Row
<1>2. merged(q, q.selected) = [c \in {"status", "scheduled", "driver"} |-> q.entity[c]]
  BY <1>1 DEF merged
<1>3. QED
  BY <1>1, <1>2

LEMMA Entities ==
  ASSUME NEW x \in Work
  PROVE  x.entity \in Row /\ x.selected \in Row
BY DEF Work

\* A save of a row that is there and as it was selected leaves the entity.
LEMMA Saving ==
  ASSUME Shape, NEW w \in Request, updateOrder(w),
         request[w].selected = Seen(w, here(w)), Seen(w, here(w)) # NoRow
  PROVE  \/ Ends(w)
         \/ /\ Resumes(w) /\ here(w)' = here(w)
            /\ Seen(w, here(w))' = request[w].entity
            /\ DOMAIN request'[w].own \in {DOMAIN request[w].own, DOMAIN request[w].own \cup {here(w)}}
            /\ request[w].entity # request[w].selected =>
                 DOMAIN request'[w].own = DOMAIN request[w].own \cup {here(w)}
            /\ \A p \in DOMAIN request[w].own \ {here(w)} :
                 request'[w].own[p] = request[w].own[p]
<1>0. Active(w) /\ UNCHANGED order
  <2>1. UNCHANGED <<order, tripDriver, startedAt, stop, ordersThisPeriod, repeated>> /\ Active(w)
    BY Updating
  <2>2. QED
    BY <2>1
<1>1. request[w].entity \in Row /\ request[w].selected \in Row
  <2>1. request[w] \in Work
    BY <1>0, Working
  <2>2. QED
    BY <2>1, Entities
<1>2. merged(request[w], Seen(w, here(w))) = request[w].entity
  BY <1>1, MergedIsEntity
<1>3. Resumes(w) => here(w)' = here(w)
  BY DEF Resumes, SameList, here
<1>4. CASE Ends(w)
  BY <1>4
<1>5. CASE ~differs(request[w]) /\ Resumes(w) /\ SameRows(w)
  <2>1. Seen(w, here(w))' = Seen(w, here(w))
    BY <1>0, <1>3, <1>5 DEF Seen, SameRows
  <2>2. QED
    BY <1>3, <1>5, <2>1 DEF differs, SameRows
<1>6. CASE differs(request[w]) /\ Resumes(w) /\ SavedRow(w, request[w].entity)
  <2>1. Seen(w, here(w))' = request[w].entity
    BY <1>0, <1>3, <1>6 DEF Seen, SavedRow
  <2>2. QED
    BY <1>3, <1>6, <2>1 DEF SavedRow
<1>7. QED
  BY <1>2, <1>4, <1>5, <1>6, Updating

LEMMA JoinOne ==
  ASSUME NEW S, NEW a \in S, NEW b \in S
  PROVE  <<a>> \o <<b>> = <<a, b>>
<1> DEFINE l == <<a>> \o <<b>>  m == <<a, b>>
<1>1. <<a>> \in Seq(S) /\ <<b>> \in Seq(S) /\ m \in Seq(S) /\ Len(m) = 2
  OBVIOUS
<1>2. l \in Seq(S) /\ Len(l) = 2
  BY <1>1, ConcatProperties
<1>3. l[1] = a /\ l[2] = b
  BY <1>1, ConcatProperties
<1>4. m[1] = a /\ m[2] = b
  OBVIOUS
<1>5. \A i \in 1..2 : l[i] = m[i]
  BY <1>3, <1>4
<1>6. QED
  <2> HIDE DEF l, m
  <2>1. l = m
    BY <1>1, <1>2, <1>5, SeqEqual
  <2> USE DEF l, m
  <2>2. QED
    BY <2>1

LEMMA JoinTwo ==
  ASSUME NEW S, NEW a \in S, NEW b \in S, NEW c \in S
  PROVE  <<a, b>> \o <<c>> = <<a, b, c>>
<1> DEFINE l == <<a, b>> \o <<c>>  m == <<a, b, c>>
<1>1. <<a, b>> \in Seq(S) /\ <<c>> \in Seq(S) /\ m \in Seq(S) /\ Len(m) = 3
  OBVIOUS
<1>2. l \in Seq(S) /\ Len(l) = 3
  BY <1>1, ConcatProperties
<1>3. l[1] = a /\ l[2] = b /\ l[3] = c
  BY <1>1, ConcatProperties
<1>4. m[1] = a /\ m[2] = b /\ m[3] = c
  OBVIOUS
<1>5. \A i \in 1..3 : l[i] = m[i]
  BY <1>3, <1>4
<1>6. QED
  <2> HIDE DEF l, m
  <2>1. l = m
    BY <1>1, <1>2, <1>5, SeqEqual
  <2> USE DEF l, m
  <2>2. QED
    BY <2>1

\* The hops, one by one, come to what the whole operation makes of the order.
LEMMA HopLists ==
  /\ hopsOf("arrive", "assigned") = <<"picked_up", "in_transit">>
  /\ hopsOf("arrive", "picked_up") = <<"in_transit">>
  /\ hopsOf("complete", "assigned") = <<"picked_up", "in_transit", "delivered">>
  /\ hopsOf("complete", "picked_up") = <<"in_transit", "delivered">>
  /\ hopsOf("skip", "assigned") = <<"picked_up", "in_transit", "failed">>
  /\ hopsOf("skip", "picked_up") = <<"in_transit", "failed">>
  /\ \A s : s \notin {"assigned", "picked_up"} =>
       /\ hopsOf("arrive", s) = <<>>
       /\ hopsOf("complete", s) = <<"delivered">>
       /\ hopsOf("skip", s) = <<"failed">>
<1>11. \A l \in Seq(OrderStatus) : <<>> \o l = l /\ l \o <<>> = l
  OBVIOUS
<1>12. /\ <<>> \in Seq(OrderStatus)
       /\ \A a \in OrderStatus : <<a>> \in Seq(OrderStatus)
       /\ \A a, b \in OrderStatus : <<a, b>> \in Seq(OrderStatus)
  OBVIOUS
<1>13. {"picked_up", "in_transit", "delivered", "failed"} \subseteq OrderStatus
  BY DEF OrderStatus
<1>14. \A l \in {<<>>, <<"picked_up", "in_transit">>, <<"in_transit">>, <<"delivered">>, <<"failed">>} :
        <<>> \o l = l /\ l \o <<>> = l
  <2>1. {<<>>, <<"picked_up", "in_transit">>, <<"in_transit">>, <<"delivered">>, <<"failed">>}
          \subseteq Seq(OrderStatus)
    BY <1>12, <1>13
  <2>2. QED
    BY <1>11, <2>1
<1>3. /\ hopsFrom("assigned") = <<"picked_up", "in_transit">>
      /\ hopsFrom("picked_up") = <<"in_transit">>
      /\ \A s : s \notin {"assigned", "picked_up"} => hopsFrom(s) = <<>>
  BY DEF hopsFrom
<1>4. /\ lastHop["arrive"] = <<>> /\ lastHop["complete"] = <<"delivered">>
      /\ lastHop["skip"] = <<"failed">>
  BY DEF lastHop
<1>5. \A kind, s : hopsOf(kind, s) = hopsFrom(s) \o lastHop[kind]
  BY DEF hopsOf
<1>6. /\ hopsOf("arrive", "assigned") = <<"picked_up", "in_transit">>
      /\ hopsOf("arrive", "picked_up") = <<"in_transit">>
  BY <1>3, <1>4, <1>5, <1>14
<1>7. /\ hopsOf("complete", "assigned") = <<"picked_up", "in_transit", "delivered">>
      /\ hopsOf("complete", "picked_up") = <<"in_transit", "delivered">>
  <2>1. <<"picked_up", "in_transit">> \o <<"delivered">> = <<"picked_up", "in_transit", "delivered">>
    BY <1>13, JoinTwo
  <2>2. <<"in_transit">> \o <<"delivered">> = <<"in_transit", "delivered">>
    BY <1>13, JoinOne
  <2>3. QED
    BY <1>3, <1>4, <1>5, <2>1, <2>2
<1>8. /\ hopsOf("skip", "assigned") = <<"picked_up", "in_transit", "failed">>
      /\ hopsOf("skip", "picked_up") = <<"in_transit", "failed">>
  <2>1. <<"picked_up", "in_transit">> \o <<"failed">> = <<"picked_up", "in_transit", "failed">>
    BY <1>13, JoinTwo
  <2>2. <<"in_transit">> \o <<"failed">> = <<"in_transit", "failed">>
    BY <1>13, JoinOne
  <2>3. QED
    BY <1>3, <1>4, <1>5, <2>1, <2>2
<1>9. \A s : s \notin {"assigned", "picked_up"} =>
       /\ hopsOf("arrive", s) = <<>>
       /\ hopsOf("complete", s) = <<"delivered">>
       /\ hopsOf("skip", s) = <<"failed">>
  BY <1>3, <1>4, <1>5, <1>14
<1>10. QED
  BY <1>6, <1>7, <1>8, <1>9

LEMMA Progression ==
  /\ Reached("assigned") = "in_transit" /\ Reached("picked_up") = "in_transit"
  /\ \A s : s \notin {"assigned", "picked_up"} => Reached(s) = s
BY DEF Reached, advanceOrderTo, ORDER_PROGRESSION

LEMMA HopsLead ==
  ASSUME NEW kind \in StopKind, NEW s, NEW h, h = hopsOf(kind, s), h # <<>>,
         Head(h) \in ALLOWED_ORDER_STATUS_TRANSITIONS[s]
  PROVE  IF Len(h) > 1
         THEN /\ Tail(h) = hopsOf(kind, Head(h)) /\ Tail(h) # <<>>
              /\ Reached(Head(h)) = Reached(s)
         ELSE /\ Head(h) = Final(kind, s)
              /\ kind # "arrive" => Head(h) \in ALLOWED_ORDER_STATUS_TRANSITIONS[Reached(s)]
<1>1. \A a : Head(<<a>>) = a /\ Len(<<a>>) = 1 /\ ~(Len(<<a>>) > 1)
  OBVIOUS
<1>2. \A a, b : /\ Head(<<a, b>>) = a /\ Tail(<<a, b>>) = <<b>> /\ Len(<<a, b>>) = 2
  OBVIOUS
<1>3. \A a, b, c : /\ Head(<<a, b, c>>) = a /\ Len(<<a, b, c>>) = 3
  OBVIOUS
<1>4. \A a, b, c : Tail(<<a, b, c>>) = <<b, c>>
  OBVIOUS
<1>5. \A a, b : <<a>> # <<>> /\ <<a, b>> # <<>>
  OBVIOUS
<1>6. /\ \A r : Final("arrive", r) = Reached(r)
      /\ \A r : Final("complete", r) = "delivered"
      /\ \A r : Final("skip", r) = "failed"
  BY DEF Final
<1>7. CASE s = "assigned"
  <2>1. CASE kind = "arrive"
    <3>1. h = <<"picked_up", "in_transit">>
      BY <1>7, <2>1, HopLists
    <3>2. Head(h) = "picked_up" /\ Tail(h) = <<"in_transit">> /\ Len(h) = 2
      BY <1>2, <3>1
    <3>3. Tail(h) = hopsOf(kind, Head(h)) /\ Tail(h) # <<>>
      BY <1>5, <2>1, <3>2, HopLists
    <3>4. Reached(Head(h)) = Reached(s) /\ Len(h) > 1
      BY <1>7, <3>2, Progression
    <3>5. QED
      BY <3>3, <3>4
  <2>2. CASE kind = "complete"
    <3>1. h = <<"picked_up", "in_transit", "delivered">>
      BY <1>7, <2>2, HopLists
    <3>2. Head(h) = "picked_up" /\ Tail(h) = <<"in_transit", "delivered">> /\ Len(h) = 3
      BY <1>3, <1>4, <3>1
    <3>3. Tail(h) = hopsOf(kind, Head(h)) /\ Tail(h) # <<>>
      BY <1>5, <2>2, <3>2, HopLists
    <3>4. Reached(Head(h)) = Reached(s) /\ Len(h) > 1
      BY <1>7, <3>2, Progression
    <3>5. QED
      BY <3>3, <3>4
  <2>3. CASE kind = "skip"
    <3>1. h = <<"picked_up", "in_transit", "failed">>
      BY <1>7, <2>3, HopLists
    <3>2. Head(h) = "picked_up" /\ Tail(h) = <<"in_transit", "failed">> /\ Len(h) = 3
      BY <1>3, <1>4, <3>1
    <3>3. Tail(h) = hopsOf(kind, Head(h)) /\ Tail(h) # <<>>
      BY <1>5, <2>3, <3>2, HopLists
    <3>4. Reached(Head(h)) = Reached(s) /\ Len(h) > 1
      BY <1>7, <3>2, Progression
    <3>5. QED
      BY <3>3, <3>4
  <2>4. QED
    BY <2>1, <2>2, <2>3 DEF StopKind
<1>8. CASE s = "picked_up"
  <2>1. CASE kind = "arrive"
    <3>1. h = <<"in_transit">>
      BY <1>8, <2>1, HopLists
    <3>2. Head(h) = "in_transit" /\ ~(Len(h) > 1)
      BY <1>1, <3>1
    <3>3. Final(kind, s) = "in_transit"
      BY <1>6, <1>8, <2>1, Progression
    <3>4. Head(h) = Final(kind, s) /\ ~(Len(h) > 1) /\ ~(kind # "arrive")
      BY <2>1, <3>2, <3>3
    <3>5. QED
      BY <3>4
  <2>2. CASE kind = "complete"
    <3>1. h = <<"in_transit", "delivered">>
      BY <1>8, <2>2, HopLists
    <3>2. Head(h) = "in_transit" /\ Tail(h) = <<"delivered">> /\ Len(h) = 2
      BY <1>2, <3>1
    <3>3. Tail(h) = hopsOf(kind, Head(h)) /\ Tail(h) # <<>>
      BY <1>5, <2>2, <3>2, HopLists
    <3>4. Reached(Head(h)) = Reached(s) /\ Len(h) > 1
      BY <1>8, <3>2, Progression
    <3>5. QED
      BY <3>3, <3>4
  <2>3. CASE kind = "skip"
    <3>1. h = <<"in_transit", "failed">>
      BY <1>8, <2>3, HopLists
    <3>2. Head(h) = "in_transit" /\ Tail(h) = <<"failed">> /\ Len(h) = 2
      BY <1>2, <3>1
    <3>3. Tail(h) = hopsOf(kind, Head(h)) /\ Tail(h) # <<>>
      BY <1>5, <2>3, <3>2, HopLists
    <3>4. Reached(Head(h)) = Reached(s) /\ Len(h) > 1
      BY <1>8, <3>2, Progression
    <3>5. QED
      BY <3>3, <3>4
  <2>4. QED
    BY <2>1, <2>2, <2>3 DEF StopKind
<1>9. CASE s \notin {"assigned", "picked_up"}
  <2>1. Reached(s) = s
    BY <1>9, Progression
  <2>2. CASE kind = "arrive"
    BY <1>9, <2>2, HopLists
  <2>3. CASE kind = "complete"
    BY <1>1, <1>6, <1>9, <2>1, <2>3, HopLists
  <2>4. CASE kind = "skip"
    BY <1>1, <1>6, <1>9, <2>1, <2>4, HopLists
  <2>5. QED
    BY <2>2, <2>3, <2>4 DEF StopKind
<1>10. QED
  BY <1>7, <1>8, <1>9

OneByOne == \A v, w \in Request : v = w

\* While the order rows are as they were: what is left to show of a step of w.
LEMMA TurnKept ==
  ASSUME OneByOne, Turns, NEW w \in Request, UNCHANGED order, Active(w)' => InTurn(w)'
  PROVE  Turns'
<1>1. Gone'
  BY DEF Turns, Gone
<1>2. \A v \in Request : v = w
  BY DEF OneByOne
<1>3. QED
  BY <1>1, <1>2 DEF Turns

LEMMA TurnEnds ==
  ASSUME OneByOne, NEW w \in Request, Ends(w), Gone'
  PROVE  Turns'
<1>1. ~Active(w)'
  BY DEF Ends, Active, Idle
<1>2. QED
  BY <1>1 DEF Turns, OneByOne

\* What a step that only reads leaves as it was.
LEMMA Reading ==
  ASSUME NEW w \in Request, Continues(w), SameList(w), SameRows(w), UNCHANGED <<order, stop>>
  PROVE  /\ here(w)' = here(w) /\ (Bare(w)' <=> Bare(w))
         /\ \A o : Seen(w, o)' = Seen(w, o)
         /\ \A o : HasStop(o)' <=> HasStop(o)
         /\ \A o : Free(o)' <=> Free(o)
         /\ SameHops(w) => \A row : /\ changed(request'[w], row) = changed(request[w], row)
                                    /\ accepts(request'[w], row) <=> accepts(request[w], row)
<1>1. here(w)' = here(w) /\ (Bare(w)' <=> Bare(w))
  BY DEF SameList, SameRows, here, Bare
<1>2. \A o : Seen(w, o)' = Seen(w, o)
  BY DEF SameRows, Seen
<1>3. \A o : (HasStop(o)' <=> HasStop(o)) /\ (Free(o)' <=> Free(o))
  BY DEF HasStop, Free
<1>4. ASSUME SameHops(w)
      PROVE  \A row : /\ changed(request'[w], row) = changed(request[w], row)
                      /\ accepts(request'[w], row) <=> accepts(request[w], row)
  <2>1. /\ request'[w].kind = request[w].kind /\ request'[w].arg = request[w].arg
        /\ request'[w].hops = request[w].hops
    BY <1>4 DEF Continues, SameHops
  <2>2. QED
    BY <2>1, SameChange
<1>5. QED
  BY <1>1, <1>2, <1>3, <1>4

\* The row of an order the transaction has not written is the committed one.
LEMMA Unwritten ==
  ASSUME NEW w, NEW o, o \notin DOMAIN request[w].own
  PROVE  Seen(w, o) = order[o]
BY DEF Seen

LEMMA FindTurn ==
  ASSUME Shape, OneByOne, Turns, NEW w \in Request, findOrder(w)
  PROVE  Turns'
<1> DEFINE q == request[w]  o == here(w)  row == Seen(w, here(w))
<1>1. /\ Active(w) /\ q.pc = "find"
      /\ UNCHANGED <<order, tripDriver, startedAt, stop, ordersThisPeriod, repeated>>
  BY Finding DEF At
<1>2. InTurn(w)
  BY <1>1 DEF Turns
<1>3. CASE Ends(w)
  <2>1. Gone'
    BY <1>1 DEF Turns, Gone
  <2>2. QED
    BY <1>3, <2>1, TurnEnds
<1>4. CASE /\ Continues(w) /\ SameList(w) /\ SameRows(w) /\ SameHops(w)
           /\ accepts(request[w], Seen(w, here(w)))
           /\ request'[w].entity = changed(request[w], Seen(w, here(w)))
           /\ request'[w].pc = IF request[w].kind = "delete" THEN "remove" ELSE "select"
  <2>1. /\ here(w)' = here(w) /\ (Bare(w)' <=> Bare(w))
        /\ \A p : Seen(w, p)' = Seen(w, p)
        /\ \A p : (HasStop(p)' <=> HasStop(p)) /\ (Free(p)' <=> Free(p))
        /\ \A r : /\ changed(request'[w], r) = changed(request[w], r)
                  /\ accepts(request'[w], r) <=> accepts(request[w], r)
    BY <1>1, <1>4, Reading
  <2>2. /\ request'[w].kind = q.kind /\ request'[w].trip = q.trip /\ request'[w].arg = q.arg
        /\ request'[w].own = q.own /\ request'[w].placed = q.placed /\ request'[w].hops = q.hops
    BY <1>4 DEF Continues, SameRows, SameHops
  <2>3. ASSUME q.kind \in {"patch", "edit"} PROVE Changes(w)'
    <3>1. Bare(w) /\ row = order[o]
      BY <1>1, <1>2, <2>3, Unwritten DEF InTurn, Changes, Bare
    <3>2. request'[w].pc = "select"
      BY <1>4, <2>3
    <3>3. QED
      BY <1>1, <1>4, <2>1, <3>1, <3>2 DEF Changes
  <2>4. ASSUME q.kind = "delete" PROVE Deletes(w)'
    <3>1. Bare(w) /\ row = order[o]
      BY <1>1, <1>2, <2>4, Unwritten DEF InTurn, Deletes, Bare
    <3>2. row.status \in DELETABLE_ORDER_STATUSES
      BY <1>4, <2>4 DEF accepts
    <3>3. QED
      BY <1>1, <2>1, <3>1, <3>2 DEF Deletes
  <2>5. ASSUME q.kind = "dispatch" PROVE Loads(w)'
    <3>1. Loads(w) /\ request'[w].pc = "select"
      BY <1>2, <1>4, <2>5 DEF InTurn
    <3>2. o \notin DOMAIN q.own /\ row = order[o]
      BY <1>1, <3>1, Unwritten DEF Loads
    <3>3. QED
      BY <1>1, <1>4, <2>1, <2>2, <3>1, <3>2 DEF Loads
  <2>6. ASSUME q.kind \in StopKind PROVE Advances(w)'
    <3>1. Advances(w) /\ request'[w].pc = "select"
      BY <1>2, <1>4, <2>6 DEF InTurn, StopKind
    <3>2. QED
      BY <1>1, <1>4, <2>1, <2>2, <3>1 DEF Advances
  <2>7. InTurn(w)'
    BY <2>2, <2>3, <2>4, <2>5, <2>6 DEF InTurn
  <2>8. QED
    BY <1>1, <2>7, TurnKept
<1>5. QED
  BY <1>3, <1>4, Finding

LEMMA SelectTurn ==
  ASSUME Shape, OneByOne, Turns, NEW w \in Request, selectOrder(w)
  PROVE  Turns'
<1> DEFINE q == request[w]  o == here(w)
<1>1. /\ Active(w) /\ q.pc = "select"
      /\ UNCHANGED <<order, tripDriver, startedAt, stop, ordersThisPeriod, repeated>>
  BY Selecting DEF At
<1>2. /\ Continues(w) /\ SameList(w) /\ SameRows(w) /\ SameHops(w)
      /\ request'[w].entity = request[w].entity
      /\ request'[w].selected = Seen(w, here(w))
      /\ request'[w].pc = "update"
  BY Selecting
<1>3. InTurn(w)
  BY <1>1 DEF Turns
<1>4. /\ here(w)' = here(w) /\ (Bare(w)' <=> Bare(w))
      /\ \A p : Seen(w, p)' = Seen(w, p)
      /\ \A p : (HasStop(p)' <=> HasStop(p)) /\ (Free(p)' <=> Free(p))
      /\ \A r : /\ changed(request'[w], r) = changed(request[w], r)
                /\ accepts(request'[w], r) <=> accepts(request[w], r)
  BY <1>1, <1>2, Reading
<1>5. /\ request'[w].kind = q.kind /\ request'[w].trip = q.trip /\ request'[w].arg = q.arg
      /\ request'[w].own = q.own /\ request'[w].placed = q.placed /\ request'[w].hops = q.hops
  BY <1>2 DEF Continues, SameRows, SameHops
<1>6. ASSUME q.kind \in {"patch", "edit"} PROVE Changes(w)'
  <2>1. Changes(w) /\ Bare(w) /\ Seen(w, o) = order[o]
    BY <1>1, <1>3, <1>6, Unwritten DEF InTurn, Changes, Bare
  <2>2. QED
    BY <1>1, <1>2, <1>4, <2>1 DEF Changes
<1>7. q.kind # "delete"
  BY <1>1, Working DEF Course
<1>8. ASSUME q.kind = "dispatch" PROVE Loads(w)'
  <2>1. Loads(w)
    BY <1>3, <1>8 DEF InTurn
  <2>2. Seen(w, o) = order[o]
    BY <1>1, <2>1, Unwritten DEF Loads
  <2>3. QED
    BY <1>1, <1>2, <1>4, <1>5, <2>1, <2>2 DEF Loads
<1>9. ASSUME q.kind \in StopKind PROVE Advances(w)'
  <2>1. Advances(w)
    BY <1>3, <1>9 DEF InTurn
  <2>2. QED
    BY <1>1, <1>2, <1>4, <1>5, <2>1 DEF Advances
<1>10. InTurn(w)'
  BY <1>5, <1>6, <1>7, <1>8, <1>9 DEF InTurn
<1>11. QED
  BY <1>1, <1>10, TurnKept

LEMMA ChangeMakes ==
  ASSUME NEW q, NEW row \in Row
  PROVE  /\ q.kind = "dispatch" => /\ changed(q, row).status = "assigned"
                                   /\ changed(q, row).scheduled = row.scheduled
                                   /\ changed(q, row).driver = q.arg
         /\ q.kind \in StopKind \cup {"patch"} =>
              /\ changed(q, row).status = Head(q.hops)
              /\ changed(q, row).scheduled = row.scheduled
              /\ changed(q, row).driver = row.driver
         /\ q.kind = "edit" => /\ changed(q, row).status = row.status
                               /\ changed(q, row).scheduled = q.arg
                               /\ changed(q, row).driver = row.driver
BY DEF changed, StopKind, Row

LEMMA SaveTurn ==
  ASSUME Shape, OneByOne, Turns, NEW w \in Request, updateOrder(w)
  PROVE  Turns'
<1> DEFINE q == request[w]  o == here(w)  row == Seen(w, here(w))
<1>1. /\ Active(w) /\ q.pc = "update"
      /\ UNCHANGED <<order, tripDriver, startedAt, stop, ordersThisPeriod, repeated>>
  BY Updating DEF At
<1>2. /\ InTurn(w) /\ row \in Row /\ o \in Order /\ order[o] \in Row /\ Course(q)
      /\ q.kind \in {"patch", "edit", "delete", "dispatch"} \cup StopKind
  BY <1>1, Working, Kinds DEF Turns, Shape
<1>3. q.kind # "delete"
  BY <1>1, <1>2 DEF Course
<1>4. Gone'
  BY <1>1 DEF Turns, Gone
<1>5. q.selected = row /\ row.status # Absent
  <2>1. CASE q.kind \in {"patch", "edit"}
    <3>1. Changes(w) /\ row = order[o]
      BY <1>1, <1>2, <2>1, Unwritten DEF InTurn, Changes, Bare
    <3>2. QED
      BY <1>1, <3>1 DEF Changes, accepts
  <2>2. CASE q.kind = "dispatch"
    <3>1. Loads(w) /\ row = order[o]
      BY <1>1, <1>2, <2>2, Unwritten DEF InTurn, Loads
    <3>2. QED
      BY <1>1, <3>1 DEF Loads, Free, Absent
  <2>3. CASE q.kind \in StopKind
    <3>1. Advances(w)
      BY <1>2, <2>3 DEF InTurn
    <3>2. QED
      BY <1>1, <3>1 DEF Advances, accepts
  <2>4. QED
    BY <1>2, <1>3, <2>1, <2>2, <2>3
<1>6. row # NoRow
  BY <1>2, <1>5, RowFacts
<1>7. CASE Ends(w)
  BY <1>4, <1>7, TurnEnds
<1>8. CASE /\ Resumes(w) /\ here(w)' = here(w)
           /\ Seen(w, here(w))' = request[w].entity
           /\ DOMAIN request'[w].own \in {DOMAIN request[w].own, DOMAIN request[w].own \cup {here(w)}}
           /\ request[w].entity # request[w].selected =>
                DOMAIN request'[w].own = DOMAIN request[w].own \cup {here(w)}
           /\ \A p \in DOMAIN request[w].own \ {here(w)} :
                request'[w].own[p] = request[w].own[p]
  <2>1. /\ request'[w].kind = q.kind /\ request'[w].trip = q.trip /\ request'[w].arg = q.arg
        /\ request'[w].placed = q.placed
    BY <1>8 DEF Resumes, Continues
  <2>2. q.kind \notin StopKind => request'[w].hops = q.hops
    BY <1>2, <1>3, <1>8 DEF Resumes, SameHops
  <2>3. q.kind \notin StopKind => \A r : /\ changed(request'[w], r) = changed(q, r)
                                         /\ accepts(request'[w], r) <=> accepts(q, r)
    BY <2>1, <2>2, SameChange
  <2>4. ASSUME q.kind \in {"patch", "edit"} PROVE Changes(w)'
    <3>1. Changes(w) /\ request'[w].pc = "commit" /\ q.kind \notin StopKind
      BY <1>2, <1>8, <2>4 DEF InTurn, Resumes, StopKind
    <3>2. DOMAIN request'[w].own \subseteq {o}
      BY <1>1, <1>8, <3>1 DEF Changes, Bare
    <3>3. QED
      BY <1>1, <1>8, <2>3, <3>1, <3>2 DEF Changes
  <2>5. ASSUME q.kind = "dispatch" PROVE Loads(w)'
    <3>1. Loads(w) /\ request'[w].pc = "place" /\ q.kind \notin StopKind
      BY <1>2, <1>8, <2>5 DEF InTurn, Resumes, StopKind
    <3>2. q.entity = changed(q, order[o]) /\ q.selected = order[o] /\ Free(o) /\ o \notin q.placed
      BY <1>1, <3>1 DEF Loads
    <3>3. q.entity # q.selected
      BY <1>2, <2>5, <3>2, ChangeMakes DEF Free
    <3>4. DOMAIN request'[w].own = q.placed \cup {o} /\ DOMAIN q.own = q.placed
      BY <1>1, <1>8, <3>1, <3>3 DEF Loads
    <3>5. request'[w].own[o] = changed(request'[w], order[o])
      BY <1>8, <2>3, <3>1, <3>2, <3>4 DEF Seen
    <3>6. \A p \in q.placed : /\ Free(p) /\ ~HasStop(p)
                              /\ request'[w].own[p] = changed(request'[w], order[p])
      BY <1>8, <2>3, <3>1, <3>2, <3>4 DEF Loads
    <3>7. \A p : (HasStop(p)' <=> HasStop(p)) /\ (Free(p)' <=> Free(p))
      BY <1>1 DEF HasStop, Free
    <3>8. \A p \in q.placed \cup {o} : Free(p) /\ request'[w].own[p] = changed(request'[w], order[p])
      BY <3>2, <3>5, <3>6
    <3>9. QED
      BY <1>1, <1>8, <2>1, <3>1, <3>4, <3>6, <3>7, <3>8 DEF Loads
  <2>6. ASSUME q.kind \in StopKind PROVE Advances(w)'
    <3>1. Advances(w) /\ q.kind \notin {"patch", "edit", "dispatch"}
      BY <1>2, <2>6 DEF InTurn, StopKind
    <3>2. /\ q.entity = changed(q, row) /\ accepts(q, row)
          /\ q.hops = hopsOf(q.kind, row.status) /\ q.hops # <<>>
          /\ Reached(row.status) = Reached(order[o].status)
          /\ order[o].status # Absent /\ row.scheduled = order[o].scheduled
          /\ row.driver = order[o].driver
          /\ DOMAIN q.own \subseteq {o} /\ stop[q.trip][o] \in stopAccepts[q.kind]
      BY <1>1, <3>1 DEF Advances
    <3>3. Head(q.hops) \in ALLOWED_ORDER_STATUS_TRANSITIONS[row.status]
      BY <2>6, <3>2 DEF accepts, StopKind
    <3>4. /\ q.entity.status = Head(q.hops) /\ q.entity.scheduled = order[o].scheduled
          /\ q.entity.driver = order[o].driver
      BY <1>2, <2>6, <3>2, ChangeMakes
    <3>5. DOMAIN request'[w].own \subseteq {o}
      BY <1>8, <3>2
    <3>6. CASE Len(q.hops) > 1
      <4>1. request'[w].pc = "find" /\ request'[w].hops = Tail(q.hops)
        BY <1>8, <2>6, <3>6 DEF Resumes, StopKind
      <4>2. /\ Tail(q.hops) = hopsOf(q.kind, Head(q.hops)) /\ Tail(q.hops) # <<>>
            /\ Reached(Head(q.hops)) = Reached(row.status)
        BY <2>6, <3>2, <3>3, <3>6, HopsLead
      <4>3. QED
        BY <1>1, <1>8, <2>1, <3>2, <3>4, <3>5, <4>1, <4>2 DEF Advances
    <3>7. CASE ~(Len(q.hops) > 1)
      <4>1. request'[w].pc = "selectStop"
        BY <1>8, <2>6, <3>7 DEF Resumes, StopKind
      <4>2. /\ Head(q.hops) = Final(q.kind, row.status)
            /\ q.kind # "arrive" =>
                 Head(q.hops) \in ALLOWED_ORDER_STATUS_TRANSITIONS[Reached(row.status)]
        BY <2>6, <3>2, <3>3, <3>7, HopsLead
      <4>3. Final(q.kind, row.status) = Final(q.kind, order[o].status)
        BY <3>2 DEF Final
      <4>4. QED
        BY <1>1, <1>8, <2>1, <3>2, <3>4, <3>5, <4>1, <4>2, <4>3 DEF Advances
    <3>8. QED
      BY <3>6, <3>7
  <2>7. InTurn(w)'
    BY <1>3, <2>1, <2>4, <2>5, <2>6 DEF InTurn
  <2>8. QED
    BY <1>1, <2>7, TurnKept
<1>9. QED
  BY <1>5, <1>6, <1>7, <1>8, Saving

LEMMA LoadTurn ==
  ASSUME Shape, OneByOne, Turns, NEW w \in Request, request[w].kind = "dispatch",
         checkOrder(w) \/ placeStop(w)
  PROVE  Turns'
<1> DEFINE q == request[w]  o == here(w)
<1>1. /\ Active(w)
      /\ UNCHANGED <<order, tripDriver, startedAt, stop, ordersThisPeriod, repeated>>
  <2>1. CASE checkOrder(w)
    BY <2>1, Checking
  <2>2. CASE placeStop(w)
    BY <2>2, Placing
  <2>3. QED
    BY <2>1, <2>2
<1>2. Loads(w) /\ Gone /\ o \in Order
  BY <1>1, Working DEF Turns, InTurn
<1>3. Gone'
  BY <1>1, <1>2 DEF Gone
<1>4. Loads(w)' => InTurn(w)' \/ ~(request'[w].kind = "dispatch")
  BY DEF InTurn, StopKind
<1>5. \A p : (HasStop(p)' <=> HasStop(p)) /\ (Free(p)' <=> Free(p))
  BY <1>1 DEF HasStop, Free
<1>6. CASE Ends(w)
  BY <1>3, <1>6, TurnEnds
<1>7. ASSUME Continues(w), SameHops(w)
      PROVE  /\ request'[w].kind = "dispatch" /\ request'[w].trip = q.trip
             /\ request'[w].arg = q.arg
             /\ \A r : changed(request'[w], r) = changed(q, r)
  <2>1. /\ request'[w].kind = q.kind /\ request'[w].arg = q.arg /\ request'[w].hops = q.hops
        /\ request'[w].trip = q.trip
    BY <1>7 DEF Continues, SameHops
  <2>2. QED
    BY <2>1, SameChange
<1>8. CASE checkOrder(w) /\ ~Ends(w)
  <2>1. /\ Continues(w) /\ SameList(w) /\ SameRows(w) /\ SameHops(w)
        /\ request'[w].pc = "find" /\ q.pc = "check"
    BY <1>8, Checking DEF At
  <2>2. Seen(w, o).status = "pending" /\ ~Seen(w, o).scheduled
    <3>1. ~rollback(w)
      BY <1>8, RollingBack
    <3>2. QED
      BY <1>8, <3>1 DEF checkOrder
  <2>3. o \notin q.placed /\ Free(o)
    <3>1. DOMAIN q.own = q.placed
      BY <1>2, <2>1 DEF Loads
    <3>2. ASSUME o \in q.placed PROVE FALSE
      <4>1. Seen(w, o) = changed(q, order[o]) /\ order[o] \in Row
        BY <1>2, <3>1, <3>2 DEF Loads, Seen, Shape
      <4>2. Seen(w, o).status = "assigned"
        BY <4>1, ChangeMakes
      <4>3. QED
        BY <2>2, <4>2
    <3>3. Seen(w, o) = order[o]
      BY <3>1, <3>2, Unwritten
    <3>4. QED
      BY <2>2, <3>2, <3>3 DEF Free
  <2>4. here(w)' = o
    BY <2>1 DEF SameList, here
  <2>5. Loads(w)'
    BY <1>1, <1>2, <1>5, <1>7, <2>1, <2>3, <2>4 DEF Loads, SameRows
  <2>6. QED
    BY <1>1, <1>4, <1>7, <2>1, <2>5, TurnKept
<1>9. CASE placeStop(w) /\ ~Ends(w)
  <2>1. /\ placeable(w, o) /\ Continues(w) /\ SameHops(w) /\ q.pc = "place"
        /\ request'[w].own = q.own
        /\ request'[w].placed = q.placed \cup {o}
        /\ request'[w].pc \in {"check", "commitDispatch"}
    BY <1>9, Placing DEF At
  <2>2. ~HasStop(o)
    BY <2>1 DEF placeable
  <2>3. Loads(w)'
    <3>1. DOMAIN request'[w].own = request'[w].placed
      BY <1>2, <2>1 DEF Loads
    <3>2. \A p \in DOMAIN q.own : Free(p) /\ q.own[p] = changed(q, order[p])
      BY <1>2 DEF Loads
    <3>3. \A p \in request'[w].placed : ~HasStop(p)
      BY <1>2, <2>1, <2>2 DEF Loads
    <3>4. tripDriver[q.trip] = NoDriver
      BY <1>2 DEF Loads
    <3>5. request'[w].placed # {}
      BY <2>1
    <3>6. QED
      BY <1>1, <1>5, <1>7, <2>1, <3>1, <3>2, <3>3, <3>4, <3>5 DEF Loads
  <2>4. QED
    BY <1>1, <1>4, <1>7, <2>1, <2>3, TurnKept
<1>10. QED
  BY <1>6, <1>8, <1>9

LEMMA StopTurn ==
  ASSUME Shape, OneByOne, Turns, NEW w \in Request, request[w].kind \in StopKind,
         findStop(w) \/ advanceOrder(w) \/ selectStop(w)
  PROVE  Turns'
<1> DEFINE q == request[w]  o == here(w)
<1>1. /\ Active(w)
      /\ UNCHANGED <<order, tripDriver, startedAt, stop, ordersThisPeriod, repeated>>
  <2>1. CASE findStop(w)
    BY <2>1, FindingStop
  <2>2. CASE advanceOrder(w)
    BY <2>2, Advancing
  <2>3. CASE selectStop(w)
    BY <2>3, SelectingStop
  <2>4. QED
    BY <2>1, <2>2, <2>3
<1>2. Advances(w) /\ Gone /\ o \in Order /\ order[o] \in Row
  BY <1>1, Working DEF Turns, InTurn, Shape
<1>3. Gone'
  BY <1>1, <1>2 DEF Gone
<1>4. Advances(w)' /\ request'[w].kind \in StopKind => InTurn(w)'
  BY DEF InTurn, StopKind
<1>5. CASE Ends(w)
  BY <1>3, <1>5, TurnEnds
<1>6. ASSUME Continues(w), SameList(w), SameRows(w)
      PROVE  /\ request'[w].kind = q.kind /\ request'[w].trip = q.trip /\ request'[w].own = q.own
             /\ here(w)' = here(w) /\ (Bare(w)' <=> Bare(w))
             /\ \A p : Seen(w, p)' = Seen(w, p)
  BY <1>1, <1>6, Reading DEF Continues, SameRows
<1>7. CASE findStop(w) /\ ~Ends(w)
  <2>1. /\ stop[q.trip][o] \in stopAccepts[q.kind]
        /\ Continues(w) /\ SameList(w) /\ SameRows(w) /\ request'[w].pc = "advance"
        /\ q.pc = "stop"
    BY <1>7, FindingStop DEF At
  <2>2. Advances(w)'
    BY <1>1, <1>2, <1>6, <2>1 DEF Advances
  <2>3. QED
    BY <1>1, <1>4, <1>6, <2>1, <2>2, TurnKept
<1>8. CASE advanceOrder(w) /\ ~Ends(w)
  <2>1. /\ Seen(w, o) # NoRow
        /\ Continues(w) /\ SameList(w) /\ SameRows(w)
        /\ request'[w].hops = hopsOf(q.kind, Seen(w, o).status)
        /\ request'[w].pc = IF request'[w].hops = <<>> THEN "selectStop" ELSE "find"
        /\ q.pc = "advance"
    BY <1>8, Advancing DEF At
  <2>2. Seen(w, o) = order[o]
    BY <1>2, <2>1, Unwritten DEF Advances, Bare
  <2>3. order[o].status # Absent
    BY <1>2, <2>1, <2>2 DEF Gone
  <2>4. /\ DOMAIN q.own \subseteq {o}
        /\ stop[q.trip][o] \in stopAccepts[q.kind]
    BY <1>2, <2>1 DEF Advances
  <2>5. ASSUME request'[w].hops = <<>> PROVE Advances(w)'
    <3>1. q.kind = "arrive" /\ order[o].status \notin {"assigned", "picked_up"}
      <4>1. \A a, b, c : <<a>> # <<>> /\ <<a, b>> # <<>> /\ <<a, b, c>> # <<>>
        OBVIOUS
      <4>2. hopsOf(q.kind, order[o].status) = <<>>
        BY <2>1, <2>2, <2>5
      <4>3. QED
        BY <4>1, <4>2, HopLists DEF StopKind
    <3>2. order[o].status = Final(q.kind, order[o].status)
      BY <3>1, Progression DEF Final
    <3>3. request'[w].pc = "selectStop"
      BY <2>1, <2>5
    <3>4. QED
      BY <1>1, <1>6, <2>1, <2>2, <2>3, <2>4, <3>1, <3>2, <3>3 DEF Advances
  <2>6. ASSUME request'[w].hops # <<>> PROVE Advances(w)'
    <3>1. request'[w].pc = "find"
      BY <2>1, <2>6
    <3>2. QED
      BY <1>1, <1>6, <2>1, <2>2, <2>3, <2>4, <2>6, <3>1 DEF Advances
  <2>7. Advances(w)'
    BY <2>5, <2>6
  <2>8. QED
    BY <1>1, <1>4, <1>6, <2>1, <2>7, TurnKept
<1>9. CASE selectStop(w)
  <2>1. /\ Continues(w) /\ SameList(w) /\ SameRows(w) /\ q.pc = "selectStop"
        /\ request'[w].stopSelected = stop[q.trip][o] /\ request'[w].pc = "updateStop"
    BY <1>9, SelectingStop DEF At
  <2>2. Advances(w)'
    BY <1>1, <1>2, <1>6, <2>1 DEF Advances
  <2>3. QED
    BY <1>1, <1>4, <1>6, <2>1, <2>2, TurnKept
<1>10. QED
  BY <1>5, <1>7, <1>8, <1>9

\* What is committed is there.
LEMMA WrittenIsThere ==
  ASSUME Shape, Turns, NEW w \in Request, Active(w),
         request[w].pc \in {"commit", "commitDispatch", "updateStop"},
         NEW p \in DOMAIN request[w].own
  PROVE  Seen(w, p).status # Absent
<1> DEFINE q == request[w]  o == here(w)
<1>1. /\ InTurn(w) /\ q.kind \in {"patch", "edit", "delete", "dispatch"} \cup StopKind
      /\ Course(q) /\ o \in Order /\ order[o] \in Row /\ p \in Order /\ order[p] \in Row
  BY Working, Kinds DEF Turns, Shape
<1>2. CASE q.kind \in {"patch", "edit"}
  <2>1. q.pc = "commit"
    BY <1>1, <1>2 DEF Course
  <2>2. p = o /\ Seen(w, o) = changed(q, order[o]) /\ accepts(q, order[o])
    BY <1>1, <1>2, <2>1 DEF InTurn, Changes
  <2>3. q.kind = "edit" => changed(q, order[o]).status = order[o].status
    BY <1>1, ChangeMakes
  <2>4. q.kind = "patch" => changed(q, order[o]).status = Head(q.hops)
    BY <1>1, ChangeMakes
  <2>5. order[o].status # Absent /\ order[o].status \in OrderStatus
    BY <1>1, <2>2, RowFacts DEF accepts
  <2>6. q.kind = "patch" => Head(q.hops) \in OrderStatus
    BY <2>2, <2>5, Words DEF accepts
  <2>7. QED
    BY <1>2, <2>2, <2>3, <2>4, <2>5, <2>6, Words
<1>3. CASE q.kind = "delete"
  BY <1>1, <1>3 DEF Course
<1>4. CASE q.kind = "dispatch"
  <2>1. q.own[p] = changed(q, order[p])
    BY <1>1, <1>4 DEF InTurn, Loads
  <2>2. QED
    BY <1>1, <1>4, <2>1, ChangeMakes DEF Seen, Absent
<1>5. CASE q.kind \in StopKind
  <2>1. Advances(w) /\ q.pc = "updateStop"
    BY <1>1, <1>5 DEF InTurn, Course, StopKind
  <2>2. /\ p = o /\ order[o].status # Absent
        /\ Seen(w, o).status = Final(q.kind, order[o].status)
    BY <2>1 DEF Advances
  <2>3. Reached(order[o].status) \in {order[o].status, "in_transit"}
    BY DEF Reached, advanceOrderTo
  <2>4. Final(q.kind, order[o].status) \in {order[o].status, "in_transit", "delivered", "failed"}
    BY <1>5, <2>3 DEF Final, StopKind
  <2>5. QED
    BY <2>2, <2>4 DEF Absent
<1>6. QED
  BY <1>1, <1>2, <1>3, <1>4, <1>5

LEMMA CommitTurn ==
  ASSUME Shape, OneByOne, Turns, NEW w \in Request, Active(w), CommitsOrders(w),
         request[w].pc \in {"commit", "commitDispatch", "updateStop"}
  PROVE  Turns'
<1>1. ASSUME NEW p \in Order, order'[p].status = Absent PROVE order'[p] = NoRow
  <2>1. order'[p] = Seen(w, p)
    BY DEF CommitsOrders
  <2>2. p \notin DOMAIN request[w].own
    BY <1>1, <2>1, WrittenIsThere
  <2>3. QED
    BY <1>1, <2>1, <2>2, Unwritten DEF Turns, Gone
<1>2. QED
  BY <1>1, TurnEnds DEF Gone, CommitsOrders

LEMMA RemovalTurn ==
  ASSUME Shape, OneByOne, Turns, NEW w \in Request, removeOrder(w)
  PROVE  Turns'
<1>1. Ends(w)
  BY Removing
<1>2. \A p \in Order : order'[p] \in {NoRow, order[p]}
  BY DEF removeOrder, Shape
<1>3. Gone'
  BY <1>2 DEF Turns, Gone
<1>4. QED
  BY <1>1, <1>3, TurnEnds

LEMMA ArrivalTurn ==
  ASSUME Shape, OneByOne, Turns, NEW w \in Request, arrives(w)
  PROVE  Turns'
<1> DEFINE q == request'[w]
<1>1. /\ UNCHANGED <<order, tripDriver, startedAt, stop, ordersThisPeriod>>
      /\ Fresh(w)
      /\ \/ q.kind \in {"patch", "edit", "delete"} /\ q.pc = "find"
         \/ q.kind = "dispatch" /\ q.pc = "check" /\ tripDriver[q.trip] = NoDriver
         \/ q.kind \in StopKind /\ q.pc = "stop"
  BY Opening
<1>2. Bare(w)' /\ DOMAIN q.own = {} /\ q.placed = {}
  BY <1>1 DEF Fresh, Bare
<1>3. ASSUME q.kind \in {"patch", "edit"} /\ q.pc = "find" PROVE InTurn(w)'
  BY <1>2, <1>3 DEF InTurn, Changes, StopKind
<1>4. ASSUME q.kind = "delete" /\ q.pc = "find" PROVE InTurn(w)'
  BY <1>2, <1>4 DEF InTurn, Deletes, StopKind, At
<1>5. ASSUME q.kind = "dispatch" /\ q.pc = "check" /\ tripDriver[q.trip] = NoDriver PROVE InTurn(w)'
  BY <1>1, <1>2, <1>5 DEF InTurn, Loads, StopKind
<1>6. ASSUME q.kind \in StopKind /\ q.pc = "stop" PROVE InTurn(w)'
  BY <1>2, <1>6 DEF InTurn, Advances, StopKind
<1>7. InTurn(w)'
  BY <1>1, <1>3, <1>4, <1>5, <1>6
<1>8. QED
  BY <1>1, <1>7, TurnKept

LEMMA CreationTurn ==
  ASSUME Shape, OneByOne, Turns, NEW o \in Order, NEW b \in BOOLEAN, createOrder(o, b)
  PROVE  Turns'
<1>1. /\ order[o] = NoRow /\ Unknown(o) /\ order'[o].status = "pending"
      /\ \A p \in Order \ {o} : order'[p] = order[p]
      /\ UNCHANGED <<tripDriver, startedAt, stop, request, repeated>>
  BY Creating
<1>2. Gone'
  BY <1>1 DEF Turns, Gone, Absent
<1>3. ASSUME NEW w \in Request, Active(w)' PROVE InTurn(w)'
  <2>1. Active(w) /\ InTurn(w)
    BY <1>1, <1>3 DEF Active, Turns
  <2>2. here(w) \in Order /\ here(w) # o /\ request[w] \in Work
    <3>1. request[w] \in Work /\ here(w) \in Order
      BY <2>1, Working
    <3>2. request[w].orders \in Lists
      BY <3>1 DEF Work
    <3>3. here(w) = request[w].orders[1] /\ 1 \in DOMAIN request[w].orders
      BY <3>2, ListFacts DEF here
    <3>4. QED
      BY <1>1, <2>1, <3>1, <3>3 DEF Unknown
  <2>3. /\ order'[here(w)] = order[here(w)] /\ here(w)' = here(w) /\ (Bare(w)' <=> Bare(w))
        /\ Seen(w, here(w))' = Seen(w, here(w))
    BY <1>1, <2>2 DEF here, Bare, Seen
  <2>4. ASSUME Changes(w) PROVE Changes(w)'
    BY <1>1, <2>3, <2>4 DEF Changes
  <2>5. ASSUME Deletes(w) PROVE Deletes(w)'
    BY <1>1, <2>3, <2>5 DEF Deletes, At
  <2>6. ASSUME Advances(w) PROVE Advances(w)'
    BY <1>1, <2>3, <2>6 DEF Advances
  <2>7. ASSUME Loads(w) PROVE Loads(w)'
    <3>1. \A p \in DOMAIN request[w].own : p \in Order /\ p # o
      <4>1. DOMAIN request[w].own \subseteq Order
        BY <2>1, Working
      <4>2. \A p \in DOMAIN request[w].own : order[p].status = "pending"
        BY <2>7 DEF Loads, Free
      <4>3. order[o].status # "pending"
        BY <1>1 DEF NoRow, Absent
      <4>4. QED
        BY <4>1, <4>2, <4>3
    <3>2. \A p \in DOMAIN request[w].own : order'[p] = order[p] /\ (Free(p)' <=> Free(p))
      BY <1>1, <3>1 DEF Free
    <3>3. Free(here(w))' <=> Free(here(w))
      BY <1>1, <2>3 DEF Free
    <3>4. \A p : HasStop(p)' <=> HasStop(p)
      BY <1>1 DEF HasStop
    <3>5. QED
      BY <1>1, <2>3, <2>7, <3>2, <3>3, <3>4 DEF Loads
  <2>8. QED
    BY <1>1, <2>1, <2>4, <2>5, <2>6, <2>7 DEF InTurn
<1>4. QED
  BY <1>2, <1>3 DEF Turns

LEMMA TurnsStay ==
  ASSUME Shape, OneByOne, Turns, [Next]_vars
  PROVE  Turns'
<1>1. ASSUME NEW w \in Request, Step(w) PROVE Turns'
  <2>1. CASE commitChange(w)
    BY <2>1, ChangeCommits, CommitTurn DEF At
  <2>2. CASE commitDispatch(w) /\ request[w].kind = "dispatch"
    BY <2>2, DispatchCommits, CommitTurn DEF At
  <2>3. CASE updateStop(w) /\ request[w].kind \in StopKind
    <3>1. /\ Active(w) /\ request[w].pc = "updateStop"
          /\ (Ends(w) /\ UNCHANGED order) \/ CommitsOrders(w)
      BY <2>3, UpdatingStop DEF At
    <3>2. CASE Ends(w) /\ UNCHANGED order
      BY <3>2, TurnEnds DEF Turns, Gone
    <3>3. QED
      BY <3>1, <3>2, CommitTurn
  <2>4. QED
    BY <1>1, <2>1, <2>2, <2>3, Cases, FindTurn, SelectTurn, SaveTurn, LoadTurn, StopTurn, RemovalTurn
<1>2. ASSUME NEW w \in Request, rollback(w) PROVE Turns'
  <2>1. Ends(w) /\ UNCHANGED order
    BY <1>2, RollingBack
  <2>2. QED
    BY <2>1, TurnEnds DEF Turns, Gone
<1>3. ASSUME NEW w \in Request, arrives(w) PROVE Turns'
  BY <1>3, ArrivalTurn
<1>4. ASSUME NEW o \in Order, NEW b \in BOOLEAN, createOrder(o, b) PROVE Turns'
  BY <1>4, CreationTurn
<1>5. CASE UNCHANGED vars
  <2> USE <1>5 DEF vars
  <2>1. Gone'
    BY DEF Turns, Gone
  <2>2. ASSUME NEW w \in Request, Active(w)' PROVE InTurn(w)'
    <3>1. InTurn(w)
      BY <2>2 DEF Turns, Active
    <3>2. Changes(w) => Changes(w)'
      BY DEF Changes, Bare, Seen, here
    <3>3. Deletes(w) => Deletes(w)'
      BY DEF Deletes, Bare, At, here
    <3>4. Loads(w) => Loads(w)'
      BY DEF Loads, Free, HasStop, here
    <3>5. Advances(w) => Advances(w)'
      BY DEF Advances, Bare, Seen, here
    <3> QED BY <3>1, <3>2, <3>3, <3>4, <3>5 DEF InTurn
  <2> QED BY <2>1, <2>2 DEF Turns
<1>6. QED
  BY <1>1, <1>2, <1>3, <1>4, <1>5 DEF Next, deadlockDetected, connectionLost

\* The columns of the orders, as Dispatch has them.
StatusColumn == [o \in Order |-> order[o].status]
ScheduledColumn == [o \in Order |-> order[o].scheduled]
DriverColumn == [o \in Order |-> order[o].driver]

LEMMA Columns ==
  ASSUME Shape, order' \in [Order -> Row], NEW o \in Order,
         \A p \in Order \ {o} : order'[p] = order[p]
  PROVE  /\ StatusColumn' = [StatusColumn EXCEPT ![o] = order'[o].status]
         /\ ScheduledColumn' = [ScheduledColumn EXCEPT ![o] = order'[o].scheduled]
         /\ DriverColumn' = [DriverColumn EXCEPT ![o] = order'[o].driver]
         /\ order'[o].status = order[o].status => StatusColumn' = StatusColumn
         /\ order'[o].scheduled = order[o].scheduled => ScheduledColumn' = ScheduledColumn
         /\ order'[o].driver = order[o].driver => DriverColumn' = DriverColumn
<1>1. \A p \in Order : order'[p] = IF p = o THEN order'[o] ELSE order[p]
  OBVIOUS
<1>2. QED
  BY <1>1 DEF StatusColumn, ScheduledColumn, DriverColumn

LEMMA CreationMaps ==
  ASSUME Shape, NEW o \in Order, NEW b \in BOOLEAN, createOrder(o, b)
  PROVE  Serial!createOrder(o, b)
<1>1. /\ order[o] = NoRow /\ order' \in [Order -> Row]
      /\ order'[o].status = "pending" /\ order'[o].driver = NoDriver
      /\ \A p \in Order \ {o} : order'[p] = order[p]
      /\ UNCHANGED <<tripDriver, startedAt, stop>>
  BY Creating
<1>2. order'[o].scheduled = b
  BY DEF createOrder, Shape, Row, NoRow
<1>3. order[o].status = Absent /\ order[o].driver = NoDriver
  BY <1>1 DEF NoRow
<1>4. /\ StatusColumn' = [StatusColumn EXCEPT ![o] = "pending"]
      /\ ScheduledColumn' = [ScheduledColumn EXCEPT ![o] = b]
      /\ DriverColumn' = DriverColumn
  BY <1>1, <1>2, <1>3, Columns
<1>5. ordersThisPeriod + 1 <= OrderLimit /\ ordersThisPeriod' = ordersThisPeriod + 1
  BY DEF createOrder
<1>6. StatusColumn[o] = Absent
  BY <1>3 DEF StatusColumn
<1>7. QED
  BY <1>1, <1>4, <1>5, <1>6
  DEF StatusColumn, ScheduledColumn, DriverColumn, Serial!createOrder, Serial!saveNewOrder,
      Serial!Exists, Serial!incrementOrderCount, Serial!Absent, Absent

\* A status given to one order, and the event that goes with it.
LEMMA StatusMaps ==
  ASSUME Shape, order' \in [Order -> Row], NEW o \in Order,
         \A p \in Order \ {o} : order'[p] = order[p],
         order'[o].scheduled = order[o].scheduled, order'[o].driver = order[o].driver,
         NEW s, order'[o].status = s
  PROVE  /\ Serial!setOrderStatus(o, s)
         /\ ScheduledColumn' = ScheduledColumn /\ DriverColumn' = DriverColumn
<1>1. /\ StatusColumn' = [StatusColumn EXCEPT ![o] = order'[o].status]
      /\ order'[o].status = order[o].status => StatusColumn' = StatusColumn
      /\ ScheduledColumn' = ScheduledColumn /\ DriverColumn' = DriverColumn
  BY Columns
<1>2. StatusColumn[o] = order[o].status
  BY DEF StatusColumn
<1>3. /\ StatusColumn' = [StatusColumn EXCEPT ![o] = s]
      /\ StatusColumn' = IF s = StatusColumn[o] THEN StatusColumn
                         ELSE [StatusColumn EXCEPT ![o] = s]
  BY <1>1, <1>2
<1>4. QED
  BY <1>1, <1>3 DEF StatusColumn, Serial!setOrderStatus

\* What a commit does to the rows.
LEMMA CommittedRows ==
  ASSUME Shape, NEW w \in Request, Active(w), CommitsOrders(w), NEW S,
         DOMAIN request[w].own \subseteq S
  PROVE  /\ order' \in [Order -> Row]
         /\ \A p \in Order \ S : order'[p] = order[p]
         /\ \A p \in Order : order'[p] = Seen(w, p)
BY Unwritten DEF CommitsOrders

LEMMA ChangeMaps ==
  ASSUME Shape, Turns, NEW w \in Request, commitChange(w)
  PROVE  Serial!Next
<1> DEFINE q == request[w]
<1> PICK o : o = here(w)
  OBVIOUS
<1>1. /\ Active(w) /\ q.pc = "commit" /\ CommitsOrders(w) /\ q.kind \in {"patch", "edit"}
      /\ UNCHANGED <<tripDriver, startedAt, stop, ordersThisPeriod>>
  BY ChangeCommits, Kinds DEF At
<1>2. /\ o \in Order /\ order[o] \in Row /\ Course(q)
      /\ DOMAIN q.own \subseteq {o} /\ Seen(w, o) = changed(q, order[o]) /\ accepts(q, order[o])
  <2>1. Changes(w)
    BY <1>1 DEF Turns, InTurn
  <2>2. QED
    BY <1>1, <2>1, Working DEF Changes, Shape
<1>3. /\ order' \in [Order -> Row] /\ order'[o] = changed(q, order[o])
      /\ \A p \in Order \ {o} : order'[p] = order[p]
  BY <1>1, <1>2, CommittedRows
<1>4. StatusColumn[o] = order[o].status /\ order[o].status # Absent
  BY <1>2 DEF StatusColumn, accepts
<1>5. CASE q.kind = "patch"
  <2>1. Head(q.hops) \in ALLOWED_ORDER_STATUS_TRANSITIONS[order[o].status]
    BY <1>2, <1>5 DEF accepts
  <2>2. Head(q.hops) \in OrderStatus
    BY <1>2, <1>4, <2>1, RowFacts, Words
  <2>3. PICK s \in OrderStatus : s = Head(q.hops)
    BY <2>2
  <2>4. /\ order'[o].status = s /\ order'[o].scheduled = order[o].scheduled
        /\ order'[o].driver = order[o].driver
    BY <1>2, <1>3, <1>5, <2>3, ChangeMakes
  <2>5. /\ Serial!setOrderStatus(o, s)
        /\ ScheduledColumn' = ScheduledColumn /\ DriverColumn' = DriverColumn
    BY <1>2, <1>3, <2>4, StatusMaps
  <2>6. s \in ALLOWED_ORDER_STATUS_TRANSITIONS[StatusColumn[o]]
    BY <1>4, <2>1, <2>3
  <2>7. Serial!updateOrderStatusForCompany(o, s)
    BY <1>1, <1>4, <2>5, <2>6
    DEF StatusColumn, ScheduledColumn, DriverColumn, Serial!updateOrderStatusForCompany,
        Serial!Exists, Serial!Absent, Absent, Serial!ALLOWED_ORDER_STATUS_TRANSITIONS,
        ALLOWED_ORDER_STATUS_TRANSITIONS
  <2>8. QED
    BY <1>2, <2>7 DEF Serial!Next, Serial!OrderStatus, OrderStatus
<1>6. CASE q.kind = "edit"
  <2>1. order[o].status \notin LOCKED_ORDER_STATUSES /\ q.arg \in BOOLEAN
    BY <1>2, <1>6 DEF accepts, Course
  <2>2. PICK b \in BOOLEAN : b = q.arg
    BY <2>1
  <2>3. /\ order'[o].status = order[o].status /\ order'[o].scheduled = b
        /\ order'[o].driver = order[o].driver
    BY <1>2, <1>3, <1>6, <2>2, ChangeMakes
  <2>4. /\ StatusColumn' = StatusColumn /\ DriverColumn' = DriverColumn
        /\ ScheduledColumn' = [ScheduledColumn EXCEPT ![o] = b]
    BY <1>2, <1>3, <2>3, Columns
  <2>5. Serial!updateOrderForCompany(o, b)
    BY <1>1, <1>4, <2>1, <2>4
    DEF StatusColumn, ScheduledColumn, DriverColumn, Serial!updateOrderForCompany,
        Serial!Exists, Serial!Absent, Absent, Serial!LOCKED_ORDER_STATUSES, LOCKED_ORDER_STATUSES
  <2>6. QED
    BY <1>2, <2>5 DEF Serial!Next
<1>7. QED
  BY <1>1, <1>5, <1>6

LEMMA RemovalMaps ==
  ASSUME Shape, Turns, NEW w \in Request, removeOrder(w)
  PROVE  Serial!Next
<1> PICK o : o = here(w)
  OBVIOUS
<1>1. /\ Active(w) /\ At(w, "remove") /\ request[w].kind = "delete"
      /\ order' \in [Order -> Row]
      /\ UNCHANGED <<tripDriver, startedAt>>
  BY Removing, Kinds DEF At
<1>2. o \in Order /\ order[o].status \in DELETABLE_ORDER_STATUSES
  BY <1>1, Working DEF Turns, InTurn, Deletes
<1>3. order'[o] = NoRow /\ \A p \in Order \ {o} : order'[p] = order[p]
  BY <1>2 DEF removeOrder, Shape
<1>4. order'[o].status = Absent /\ order'[o].scheduled = FALSE /\ order'[o].driver = NoDriver
  BY <1>3 DEF NoRow
<1>5. /\ StatusColumn' = [StatusColumn EXCEPT ![o] = Absent]
      /\ ScheduledColumn' = [ScheduledColumn EXCEPT ![o] = FALSE]
      /\ DriverColumn' = [DriverColumn EXCEPT ![o] = NoDriver]
  BY <1>1, <1>2, <1>3, <1>4, Columns
<1>6. /\ stop' = [t \in Trip |-> [stop[t] EXCEPT ![o] = Absent]]
      /\ ordersThisPeriod' = IF ordersThisPeriod = 0 THEN 0 ELSE ordersThisPeriod - 1
  BY DEF removeOrder, oneLess
<1>7. StatusColumn[o] \in DELETABLE_ORDER_STATUSES
  BY <1>2 DEF StatusColumn
<1>8. Serial!deleteOrderForCompany(o)
  BY <1>1, <1>5, <1>6, <1>7
  DEF StatusColumn, ScheduledColumn, DriverColumn, Serial!deleteOrderForCompany,
      Serial!deleteOrderRow, Serial!decrementOrderCount, Serial!Absent, Absent,
      Serial!DELETABLE_ORDER_STATUSES, DELETABLE_ORDER_STATUSES
<1>9. QED
  BY <1>2, <1>8 DEF Serial!Next

LEMMA DispatchMaps ==
  ASSUME Shape, Turns, NEW w \in Request, commitDispatch(w), request[w].kind = "dispatch"
  PROVE  Serial!Next
<1> DEFINE q == request[w]
<1>1. /\ Active(w) /\ q.pc = "commitDispatch" /\ CommitsOrders(w)
      /\ UNCHANGED <<startedAt, ordersThisPeriod>>
  BY DispatchCommits DEF At
<1>2. Loads(w) /\ q \in Work /\ Course(q)
  BY <1>1, Working DEF Turns, InTurn
<1>3. PICK t \in Trip, d \in Driver, placed \in SUBSET Order :
        t = q.trip /\ d = q.arg /\ placed = q.placed
  <2>1. q.trip \in Trip /\ q.arg \in Driver
    BY <1>2 DEF Course
  <2>2. q.placed \in SUBSET Order
    BY <1>2 DEF Work
  <2>3. QED
    BY <2>1, <2>2
<1>4. /\ tripDriver[t] = NoDriver /\ placed # {} /\ DOMAIN q.own = placed
      /\ \A o \in placed : /\ Free(o) /\ ~HasStop(o) /\ q.own[o] = changed(q, order[o])
  BY <1>1, <1>2, <1>3 DEF Loads
<1>5. \A o \in Order : /\ order'[o].status = IF o \in placed THEN "assigned" ELSE order[o].status
                       /\ order'[o].scheduled = order[o].scheduled
                       /\ order'[o].driver = IF o \in placed THEN d ELSE order[o].driver
  <2>1. \A o \in Order \ placed : order'[o] = order[o]
    BY <1>1, <1>4, CommittedRows
  <2>2. ASSUME NEW o \in placed
        PROVE  order'[o].status = "assigned" /\ order'[o].scheduled = order[o].scheduled
               /\ order'[o].driver = d
    <3>1. order'[o] = changed(q, order[o]) /\ order[o] \in Row
      BY <1>1, <1>3, <1>4, CommittedRows DEF Seen, Shape
    <3>2. QED
      BY <1>3, <3>1, ChangeMakes
  <2>3. QED
    BY <2>1, <2>2
<1>6. /\ StatusColumn' = [o \in Order |-> IF o \in placed THEN "assigned" ELSE StatusColumn[o]]
      /\ ScheduledColumn' = ScheduledColumn
      /\ DriverColumn' = [o \in Order |-> IF o \in placed THEN d ELSE DriverColumn[o]]
  BY <1>5 DEF StatusColumn, ScheduledColumn, DriverColumn
<1>7. /\ tripDriver' = [tripDriver EXCEPT ![t] = d]
      /\ stop' = [stop EXCEPT ![t] = [o \in Order |-> IF o \in placed THEN "pending" ELSE @[o]]]
  BY <1>3 DEF commitDispatch
<1>8. \A o \in placed : StatusColumn[o] = "pending" /\ ~ScheduledColumn[o] /\ ~HasStop(o)
  BY <1>3, <1>4 DEF StatusColumn, ScheduledColumn, Free
<1>9. \A o \in placed : Serial!dispatchable(o)
  BY <1>8 DEF StatusColumn, ScheduledColumn, HasStop, Serial!dispatchable, Serial!HasStop,
              Serial!Absent, Absent
<1>10. Serial!dispatchOrdersToDriver(t, d, placed)
  BY <1>1, <1>4, <1>6, <1>7, <1>9
  DEF StatusColumn, ScheduledColumn, DriverColumn, Serial!dispatchOrdersToDriver
<1>11. placed \in (SUBSET Order) \ {{}}
  BY <1>4
<1>12. QED
  BY <1>10, <1>11 DEF Serial!Next

LEMMA StopMaps ==
  ASSUME Shape, Turns, NEW w \in Request, updateStop(w), request[w].kind \in StopKind,
         CommitsOrders(w), request[w].stopSelected = Absent => placeable(w, here(w))
  PROVE  Serial!Next
<1> DEFINE q == request[w]
<1>1. Active(w) /\ q.pc = "updateStop"
  BY DEF updateStop, At, Active
<1>2. Advances(w) /\ q \in Work /\ Course(q) /\ here(w) \in Order
  BY <1>1, Working DEF Turns, InTurn
<1>3. PICK t \in Trip, o \in Order : t = q.trip /\ o = here(w)
  BY <1>2 DEF Course, StopKind
<1>4. /\ stop[t][o] \in stopAccepts[q.kind] /\ q.stopSelected = stop[t][o]
      /\ order[o].status # Absent /\ DOMAIN q.own \subseteq {o}
      /\ Seen(w, o).status = Final(q.kind, order[o].status)
      /\ q.kind # "arrive" =>
           Seen(w, o).status \in ALLOWED_ORDER_STATUS_TRANSITIONS[Reached(order[o].status)]
      /\ Seen(w, o).scheduled = order[o].scheduled /\ Seen(w, o).driver = order[o].driver
  BY <1>1, <1>2, <1>3 DEF Advances
<1>5. /\ order' \in [Order -> Row] /\ \A p \in Order \ {o} : order'[p] = order[p]
      /\ order'[o] = Seen(w, o)
  BY <1>1, <1>4, CommittedRows
<1>6. stop[t][o] # Absent /\ stop[t][o] # stopBecomes[q.kind]
  BY <1>4 DEF stopAccepts, stopBecomes, StopKind, Absent
<1>7. /\ stop' = [stop EXCEPT ![t][o] = stopBecomes[q.kind]]
      /\ startedAt' = IF q.kind = "arrive" THEN [startedAt EXCEPT ![t] = TRUE] ELSE startedAt
      /\ UNCHANGED <<tripDriver, ordersThisPeriod>>
  BY <1>3, <1>4, <1>6 DEF updateStop
<1>8. StatusColumn[o] = order[o].status
  BY DEF StatusColumn
<1>9. PICK s : s = Final(q.kind, order[o].status)
  OBVIOUS
<1>10. /\ Serial!setOrderStatus(o, s)
       /\ ScheduledColumn' = ScheduledColumn /\ DriverColumn' = DriverColumn
  BY <1>4, <1>5, <1>9, StatusMaps
<1>11. ASSUME q.kind = "arrive" PROVE Serial!arriveAtStop(t, o)
  <2>1. s = advanceOrderTo(StatusColumn[o], "in_transit")
    BY <1>8, <1>9, <1>11 DEF Final, Reached
  <2>2. stop[t][o] = "pending" /\ stopBecomes[q.kind] = "arrived"
    BY <1>4, <1>11 DEF stopAccepts, stopBecomes
  <2>3. QED
    BY <1>7, <1>10, <1>11, <2>1, <2>2
    DEF StatusColumn, ScheduledColumn, DriverColumn, Serial!arriveAtStop, Serial!arrivable,
        Serial!setOrderStatus, Serial!advanceOrderTo, Serial!ORDER_PROGRESSION, advanceOrderTo,
        ORDER_PROGRESSION
<1>12. ASSUME q.kind = "complete" PROVE Serial!completeStop(t, o)
  <2>1. /\ s = "delivered"
        /\ s \in ALLOWED_ORDER_STATUS_TRANSITIONS[advanceOrderTo(StatusColumn[o], "in_transit")]
    BY <1>4, <1>8, <1>9, <1>12 DEF Final, Reached
  <2>2. stop[t][o] = "arrived" /\ stopBecomes[q.kind] = "completed"
    BY <1>4, <1>12 DEF stopAccepts, stopBecomes
  <2>3. Serial!orderCanBecome(o, "delivered")
    BY <2>1
    DEF StatusColumn, Serial!orderCanBecome, Serial!advanceOrderTo, Serial!ORDER_PROGRESSION,
        Serial!ALLOWED_ORDER_STATUS_TRANSITIONS, advanceOrderTo, ORDER_PROGRESSION,
        ALLOWED_ORDER_STATUS_TRANSITIONS
  <2>4. QED
    BY <1>7, <1>10, <1>12, <2>1, <2>2, <2>3
    DEF ScheduledColumn, DriverColumn, Serial!completeStop, Serial!completable
<1>13. ASSUME q.kind = "skip" PROVE Serial!skipStop(t, o)
  <2>1. /\ s = "failed"
        /\ s \in ALLOWED_ORDER_STATUS_TRANSITIONS[advanceOrderTo(StatusColumn[o], "in_transit")]
    BY <1>4, <1>8, <1>9, <1>13 DEF Final, Reached
  <2>2. /\ stop[t][o] \in {"pending", "arrived", "failed"}
        /\ stopBecomes[q.kind] = "skipped"
    BY <1>4, <1>13 DEF stopAccepts, stopBecomes
  <2>3. Serial!orderCanBecome(o, "failed")
    BY <2>1
    DEF StatusColumn, Serial!orderCanBecome, Serial!advanceOrderTo, Serial!ORDER_PROGRESSION,
        Serial!ALLOWED_ORDER_STATUS_TRANSITIONS, advanceOrderTo, ORDER_PROGRESSION,
        ALLOWED_ORDER_STATUS_TRANSITIONS
  <2>4. Serial!skippable(stop[t][o])
    BY <2>2 DEF Serial!skippable, Serial!Absent
  <2>5. QED
    BY <1>7, <1>10, <1>13, <2>1, <2>2, <2>3, <2>4
    DEF ScheduledColumn, DriverColumn, Serial!skipStop
<1>14. QED
  BY <1>11, <1>12, <1>13 DEF Serial!Next, StopKind

LEMMA NothingMaps ==
  ASSUME UNCHANGED <<order, tripDriver, startedAt, stop, ordersThisPeriod>>
  PROVE  UNCHANGED Serial!vars
BY DEF Serial!vars

\* Every step is one of Dispatch or leaves the database as it was.
LEMMA StepMaps ==
  ASSUME Shape, Turns, [Next]_vars
  PROVE  [Serial!Next]_Serial!vars
<1>1. ASSUME NEW w \in Request, Step(w) PROVE [Serial!Next]_Serial!vars
  <2>1. CASE findOrder(w)
    BY <2>1, Finding, NothingMaps
  <2>2. CASE selectOrder(w)
    BY <2>2, Selecting, NothingMaps
  <2>3. CASE updateOrder(w)
    <3>1. UNCHANGED <<order, tripDriver, startedAt, stop, ordersThisPeriod, repeated>>
      BY <2>3, Updating
    <3>2. QED
      BY <3>1, NothingMaps
  <2>4. CASE commitChange(w)
    BY <2>4, ChangeMaps
  <2>5. CASE removeOrder(w)
    BY <2>5, RemovalMaps
  <2>6. CASE checkOrder(w) /\ request[w].kind = "dispatch"
    BY <2>6, Checking, NothingMaps
  <2>7. CASE placeStop(w) /\ request[w].kind = "dispatch"
    BY <2>7, Placing, NothingMaps
  <2>8. CASE commitDispatch(w) /\ request[w].kind = "dispatch"
    BY <2>8, DispatchMaps
  <2>9. CASE findStop(w) /\ request[w].kind \in StopKind
    BY <2>9, FindingStop, NothingMaps
  <2>10. CASE advanceOrder(w) /\ request[w].kind \in StopKind
    BY <2>10, Advancing, NothingMaps
  <2>11. CASE selectStop(w) /\ request[w].kind \in StopKind
    BY <2>11, SelectingStop, NothingMaps
  <2>12. CASE updateStop(w) /\ request[w].kind \in StopKind
    <3>1. \/ UNCHANGED <<order, tripDriver, startedAt, stop, ordersThisPeriod>>
          \/ CommitsOrders(w) /\ (request[w].stopSelected = Absent => placeable(w, here(w)))
      BY <2>12, UpdatingStop
    <3>2. QED
      BY <2>12, <3>1, NothingMaps, StopMaps
  <2>13. QED
    BY <1>1, <2>1, <2>2, <2>3, <2>4, <2>5, <2>6, <2>7, <2>8, <2>9, <2>10, <2>11, <2>12, Cases
<1>2. ASSUME NEW w \in Request, rollback(w) \/ arrives(w) PROVE [Serial!Next]_Serial!vars
  BY <1>2, RollingBack, Opening, NothingMaps
<1>3. ASSUME NEW o \in Order, NEW b \in BOOLEAN, createOrder(o, b)
      PROVE  [Serial!Next]_Serial!vars
  BY <1>3, CreationMaps DEF Serial!Next
<1>4. CASE UNCHANGED vars
  BY <1>4, NothingMaps DEF vars
<1>5. QED
  BY <1>1, <1>2, <1>3, <1>4 DEF Next, deadlockDetected, connectionLost

\* SerialIsDispatch: one request at a time, whatever it does on the way, does to the database
\* one step of Dispatch or nothing. What it reads before it writes is still so when it commits.
THEOREM SerialRefines ==
  ASSUME Waiting = {}, \A v, w \in Request : v = w
  PROVE  Spec => SerialIsDispatch
<1> DEFINE IInv == Shape /\ Turns
<1>1. OneByOne
  BY DEF OneByOne
<1>2. Init => IInv
  <2> SUFFICES ASSUME Init PROVE IInv
    OBVIOUS
  <2>1. \A w \in Request : ~Active(w)
    BY DEF Init, Active, Idle
  <2>2. \A o \in Order : order[o] = NoRow
    BY DEF Init
  <2>3. Turns
    BY <2>1, <2>2 DEF Turns, Gone
  <2>4. QED
    BY <2>3, ShapeAtFirst
<1>3. IInv /\ [Next]_vars => IInv'
  BY <1>1, ShapeStays, TurnsStay
<1>4. IInv /\ [Next]_vars => [Serial!Next]_Serial!vars
  BY StepMaps
<1>5. Init => Serial!Init
  <2> SUFFICES ASSUME Init PROVE Serial!Init
    OBVIOUS
  <2>1. \A o \in Order : /\ order[o].status = Absent /\ order[o].scheduled = FALSE
                         /\ order[o].driver = NoDriver
    BY DEF Init, NoRow
  <2>2. ordersThisPeriod = 0
    BY FS_EmptySet DEF Init
  <2>3. QED
    BY <2>1, <2>2 DEF Init, Serial!Init, Serial!Absent, Absent
<1>6. QED
  BY <1>2, <1>3, <1>4, <1>5, PTL DEF Spec, SerialIsDispatch, Serial!Spec
=============================================================================
