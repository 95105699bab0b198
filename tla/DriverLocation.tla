--------------------------- MODULE DriverLocation ---------------------------
(***************************************************************************)
(* The live location of one trip. The driver's phone reports positions; a  *)
(* request reads the trip, decides and updates the row, then asks for a    *)
(* broadcast. Broadcast jobs read the trip, get an ETA, store it and send  *)
(* what they read to the dashboards in the trip's room.                    *)
(*                                                                         *)
(* Places lie on a line, one apart if the driver has moved. The phone's    *)
(* timestamps are its own; what the server measures is kept as an age.     *)
(***************************************************************************)
EXTENDS Integers

CONSTANTS
  Place,       \* a set of integers
  MaxTime,     \* bound of the model: the phone's last timestamp
  Request,     \* requests there can be in flight
  Job,         \* jobs there can be in the queue
  Dashboard,   \* clients of the trip's room
  None,
  MAX_PLAUSIBLE_SPEED,
  CONFIRM_RADIUS,
  LARGE_GAP_THRESHOLD,
  HEARTBEAT_INTERVAL,
  ETA_MAX_AGE,   \* five minutes
  ATTEMPTS

ASSUME PlaceAssumption == Place \subseteq Int /\ None \notin Int
ASSUME RunnerAssumption == Job \cap Dashboard = {}
ASSUME BoundAssumption ==
  /\ MaxTime \in Nat /\ HEARTBEAT_INTERVAL \in Nat /\ ETA_MAX_AGE \in Nat
  /\ ATTEMPTS \in Nat \ {0}

Time == 0..MaxTime
Runner == Job \cup Dashboard   \* what runs broadcastTripUpdate

VARIABLES
  trip,      \* the columns of the row
  request,   \* what each request is about to write
  running,   \* how far each broadcast is
  room,      \* the dashboards that have joined
  newest,    \* history: the time of the newest position a dashboard has been sent
  lost,      \* history: a broadcast could not be queued, or was given up
  overlap,   \* history: two reports were handled at once
  doubted    \* history: places quarantined since a position was last accepted

reportVars == <<request, overlap, doubted>>
broadcastVars == <<running, room, newest, lost>>
vars == <<trip, reportVars, broadcastVars>>

Distance(p, q) == IF p < q THEN q - p ELSE p - q

Unwritten == [at |-> None, takenAt |-> 0, age |-> 0, candidate |-> None,
              eta |-> "none", etaAge |-> 0, measured |-> 0]

\* A trip: position, client timestamp and age of the update; candidate; source
\* and age of the ETA, and the age of Radar's answer it comes from (history).
\* Ages are not told apart beyond the interval they are compared with.
Trip == [at : Place \cup {None}, takenAt : Time, age : 0..HEARTBEAT_INTERVAL,
         candidate : Place \cup {None},
         eta : {"none", "radar", "cached", "unavailable"}, etaAge : 0..ETA_MAX_AGE,
         measured : 0..ETA_MAX_AGE]

\* What a request is about to do, and how far a broadcast is with what it read.
Handling == [does : {"nothing", "accept", "confirm", "quarantine", "enqueue"},
             at : Place \cup {None}, taken : Time]
Broadcast == [step : {"none", "find", "eta", "emit"}, left : 0..ATTEMPTS, read : Trip]

Idle == [does |-> "nothing", at |-> None, taken |-> 0]
Still == [step |-> "none", left |-> 0, read |-> Unwritten]
Begun(attempts) == [step |-> "find", left |-> attempts, read |-> Unwritten]

TypeOK ==
  /\ trip \in Trip
  /\ request \in [Request -> Handling]
  /\ running \in [Runner -> Broadcast]
  /\ \A x \in Runner : running[x].step # "none" => running[x].left > 0
  /\ room \subseteq Dashboard
  /\ newest \in [Dashboard -> Time]
  /\ lost \in BOOLEAN /\ overlap \in BOOLEAN
  /\ doubted \subseteq Place \cup {None}

Init ==
  /\ trip = Unwritten
  /\ request = [r \in Request |-> Idle]
  /\ running = [x \in Runner |-> Still]
  /\ room = {}
  /\ newest = [d \in Dashboard |-> 0]
  /\ lost = FALSE /\ overlap = FALSE
  /\ doubted = {}

-----------------------------------------------------------------------------
(* TrackingService.updateDriverLocation *)

inOrderOrSame(taken) == trip.at # None => taken >= trip.takenAt

\* Only a report taken after the accepted one is looked at.
inOrder(taken) == trip.at # None => taken > trip.takenAt

isImplausibleJump(at, taken) ==
  /\ trip.at # None
  /\ Distance(trip.at, at) > MAX_PLAUSIBLE_SPEED * (taken - trip.takenAt)
  /\ taken - trip.takenAt < LARGE_GAP_THRESHOLD

confirmed(at) ==
  trip.candidate # None /\ Distance(trip.candidate, at) <= CONFIRM_RADIUS

\* A report that has not moved is worth storing once in a while.
worthStoring(at) ==
  trip.at = None \/ at # trip.at \/ trip.age = HEARTBEAT_INTERVAL

verdict(at, taken) ==
  IF ~isImplausibleJump(at, taken) THEN "accept"
  ELSE IF confirmed(at) THEN "confirm" ELSE "quarantine"

\* The trip is read and the report judged by it. Reports of low accuracy, out
\* of order or without change write nothing.
updateDriverLocation(r, at, taken) ==
  /\ request[r] = Idle
  /\ inOrder(taken)
  /\ verdict(at, taken) = "accept" => worthStoring(at)
  /\ request' = [request EXCEPT ![r] = [does |-> verdict(at, taken), at |-> at,
                                        taken |-> taken]]
  /\ overlap' = (overlap \/ \E q \in Request : request[q].does # "nothing")
  /\ UNCHANGED <<trip, doubted, broadcastVars>>

keepCandidate(r) ==
  /\ trip' = [trip EXCEPT !.at = request[r].at, !.takenAt = request[r].taken,
                          !.age = 0]

\* The update is unconditional: whatever has been written meanwhile is overwritten.
storeLocation(r) ==
  trip' = [trip EXCEPT !.at = request[r].at, !.takenAt = request[r].taken,
                       !.age = 0, !.candidate = None]

persistAcceptedLocation(r) ==
  /\ request[r].does \in {"accept", "confirm"}
  /\ storeLocation(r)
  /\ request' = [request EXCEPT ![r].does = "enqueue"]
  /\ doubted' = {}
  /\ UNCHANGED <<overlap, broadcastVars>>

quarantine(r) ==
  /\ request[r].does = "quarantine"
  /\ trip' = [trip EXCEPT !.candidate = request[r].at]
  /\ request' = [request EXCEPT ![r] = Idle]
  /\ doubted' = doubted \cup {request[r].at}
  /\ UNCHANGED <<overlap, broadcastVars>>

updateFails(r) ==
  /\ request[r].does \in {"accept", "confirm", "quarantine"}
  /\ request' = [request EXCEPT ![r] = Idle]
  /\ UNCHANGED <<trip, overlap, doubted, broadcastVars>>

\* The job is queued, or the driver is told of a failure although the position
\* has been stored.
enqueueTripBroadcast(r) ==
  /\ request[r].does = "enqueue"
  /\ request' = [request EXCEPT ![r] = Idle]
  /\ \/ \E j \in Job :
          /\ running[j].step = "none"
          /\ running' = [running EXCEPT ![j] = Begun(ATTEMPTS)]
          /\ UNCHANGED lost
     \/ lost' = TRUE /\ UNCHANGED running
  /\ UNCHANGED <<trip, overlap, doubted, room, newest>>

-----------------------------------------------------------------------------
(* TrackingService.broadcastTripUpdate, by the queue's processor or at once   *)
(* for a dashboard that subscribes                                            *)

\* The room is joined first, then a broadcast made for the new dashboard.
handleSubscribeTrip(d) ==
  /\ d \notin room /\ running[d].step = "none"
  /\ room' = room \cup {d}
  /\ running' = [running EXCEPT ![d] = Begun(1)]
  /\ newest' = [newest EXCEPT ![d] = 0]
  /\ UNCHANGED <<trip, lost, reportVars>>

handleUnsubscribeTrip(d) ==
  /\ d \in room
  /\ room' = room \ {d}
  /\ UNCHANGED <<trip, running, newest, lost, reportVars>>

findTrip(x) ==
  /\ running[x].step = "find"
  /\ running' = [running EXCEPT ![x].step = IF trip.at = None THEN "emit" ELSE "eta",
                                ![x].read = [trip EXCEPT !.age = 0, !.candidate = None]]
  /\ UNCHANGED <<trip, room, newest, lost, reportVars>>

\* What the ETA becomes: Radar's, the one read if it is not older than five
\* minutes, or none.
Radar(row) == [row EXCEPT !.eta = "radar", !.etaAge = 0, !.measured = 0]
Cached(row) == [row EXCEPT !.eta = "cached", !.etaAge = 0]
Unavailable(row) == [row EXCEPT !.eta = "unavailable", !.etaAge = 0]

resolveEta(row) ==
  {Radar(row),
   IF row.eta \in {"radar", "cached"} /\ row.etaAge < ETA_MAX_AGE
   THEN Cached(row) ELSE Unavailable(row)}

\* The ETA's columns alone are updated. Of what was read, the position is sent.
storeEta(x) ==
  /\ running[x].step = "eta"
  /\ \E row \in resolveEta(running[x].read) :
       /\ running' = [running EXCEPT ![x].step = "emit",
                                     ![x].read = [Unwritten EXCEPT !.takenAt = row.takenAt]]
       /\ trip' = [trip EXCEPT !.eta = row.eta, !.etaAge = row.etaAge,
                               !.measured = row.measured]
  /\ UNCHANGED <<room, newest, lost, reportVars>>

\* The whole room is sent what was read when the broadcast began.
emitToInternalRoom(x) ==
  LET sent == running[x].read.takenAt IN
  /\ running[x].step = "emit"
  /\ running' = [running EXCEPT ![x] = Still]
  /\ newest' = [d \in Dashboard |->
                 IF d \in room /\ newest[d] < sent THEN sent ELSE newest[d]]
  /\ UNCHANGED <<trip, room, lost, reportVars>>

giveUpAtOnce(x) == Still

\* A job that throws is tried again, from the start, up to its attempts.
retried(x) ==
  IF running[x].left > 1 THEN Begun(running[x].left - 1) ELSE Still

broadcastFails(x) ==
  /\ running[x].step # "none"
  /\ running' = [running EXCEPT ![x] = retried(x)]
  /\ lost' = (lost \/ running[x].left = 1)
  /\ UNCHANGED <<trip, room, newest, reportVars>>

-----------------------------------------------------------------------------
\* The server's clock goes on.
older(row) ==
  [row EXCEPT !.age = IF @ < HEARTBEAT_INTERVAL THEN @ + 1 ELSE @,
              !.etaAge = IF @ < ETA_MAX_AGE THEN @ + 1 ELSE @,
              !.measured = IF @ < ETA_MAX_AGE THEN @ + 1 ELSE @]

Tick ==
  /\ trip' = older(trip)
  /\ running' = [x \in Runner |->
                  IF running[x].step = "eta" THEN [running[x] EXCEPT !.read = older(@)]
                  ELSE running[x]]
  /\ UNCHANGED <<room, newest, lost, reportVars>>

Handles(r) == persistAcceptedLocation(r) \/ quarantine(r) \/ enqueueTripBroadcast(r)
Broadcasts(x) == findTrip(x) \/ storeEta(x) \/ emitToInternalRoom(x)

Next ==
  \/ \E r \in Request :
       \/ \E at \in Place, taken \in Time : updateDriverLocation(r, at, taken)
       \/ Handles(r) \/ updateFails(r)
  \/ \E x \in Runner : Broadcasts(x) \/ broadcastFails(x)
  \/ \E d \in Dashboard : handleSubscribeTrip(d) \/ handleUnsubscribeTrip(d)
  \/ Tick

Spec == Init /\ [][Next]_vars

\* A request that was begun and a job that was queued are carried on with.
Fairness == (\A r \in Request : WF_vars(Handles(r))) /\ (\A x \in Runner : WF_vars(Broadcasts(x)))

FairSpec == Spec /\ Fairness

-----------------------------------------------------------------------------
\* As long as reports are handled one at a time, the accepted position's client
\* timestamp only grows, whatever order they come in.
TimeGoesOn ==
  [][<<trip'.at, trip'.takenAt>> # <<trip.at, trip.takenAt>> /\ trip.at # None /\ ~overlap
     => trip'.takenAt > trip.takenAt]_vars

\* As long as reports are handled one at a time, a position the driver cannot
\* have reached from the last one is accepted only if an earlier report since
\* then was of a place near it.
JumpsAreConfirmed ==
  [][/\ trip'.at # trip.at /\ trip.at # None /\ ~overlap
     /\ isImplausibleJump(trip'.at, trip'.takenAt)
     => \E p \in doubted : Distance(p, trip'.at) <= CONFIRM_RADIUS]_vars

\* A dashboard in the room is sent every accepted position or a later one at
\* some time, unless a broadcast could not be queued or was given up: the
\* room is joined before the trip is read. (An older one may follow.)
EveryPositionIsSent ==
  \A d \in Dashboard, t \in Time :
    trip.takenAt = t /\ d \in room ~> d \notin room \/ newest[d] >= t \/ lost

\* "Fall back to a recently calculated ETA": one that is stored as cached was
\* calculated less than five minutes before.
CachedEtaIsRecent ==
  trip.eta = "cached" => trip.measured - trip.etaAge < ETA_MAX_AGE
=============================================================================
