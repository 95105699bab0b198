---------------------------- MODULE DriverProofs ----------------------------
(***************************************************************************)
(* What holds of a driver on the road: of the location of a trip, that the *)
(* positions get newer, jump only when confirmed and are on their way to   *)
(* the dashboards, for any number of requests, jobs and dashboards, any    *)
(* places and any timestamps up to any bound; and of the driver's presence,*)
(* that the driver is online while connected and was announced when gone,  *)
(* for any number of sockets and server processes and any grace period     *)
(* shorter than the time to live of the key.                               *)
(***************************************************************************)
EXTENDS DriverLocation, DriverPresence, TLAPS

\* The values the actions write are of their types.
LEMMA Values ==
  /\ Unwritten \in Trip
  /\ Idle \in Handling
  /\ Still \in Broadcast /\ Still.step = "none"
  /\ \A n \in 1..ATTEMPTS : Begun(n) \in Broadcast /\ Begun(n).left = n
<1> USE BoundAssumption
<1>1. Unwritten \in Trip
  BY DEF Unwritten, Trip, Time
<1>2. Idle \in Handling
  BY DEF Idle, Handling, Time
<1>3. Still \in Broadcast /\ Still.step = "none"
  BY <1>1 DEF Broadcast, Still
<1>4. ASSUME NEW n \in 1..ATTEMPTS
      PROVE  Begun(n) \in Broadcast /\ Begun(n).left = n
  BY <1>1 DEF Broadcast, Begun
<1>5. QED
  BY <1>1, <1>2, <1>3, <1>4

LEMMA Zero == 0 \in 0..HEARTBEAT_INTERVAL /\ 0 \in 0..ETA_MAX_AGE
BY BoundAssumption

\* So are the rows the updates of a report make of a row,
LEMMA Updates ==
  ASSUME NEW row \in Trip, NEW at \in Place \cup {None}, NEW taken \in Time
  PROVE  /\ [row EXCEPT !.at = at, !.takenAt = taken, !.age = 0, !.candidate = None] \in Trip
         /\ [row EXCEPT !.candidate = at] \in Trip
BY Zero DEF Trip

\* what a broadcast reads and what it makes of that, and the passing of time,
LEMMA Reads ==
  ASSUME NEW row \in Trip
  PROVE  /\ [row EXCEPT !.age = 0, !.candidate = None] \in Trip
         /\ older(row) \in Trip
         /\ resolveEta(row) \subseteq Trip
<1>1. [row EXCEPT !.age = 0, !.candidate = None] \in Trip
  BY Zero DEF Trip
<1>2. older(row) \in Trip
  <2>1. \A k \in Nat : \A n \in 0..k : (IF n < k THEN n + 1 ELSE n) \in 0..k
    OBVIOUS
  <2>2. (IF row.age < HEARTBEAT_INTERVAL THEN row.age + 1 ELSE row.age) \in 0..HEARTBEAT_INTERVAL
    BY <2>1, BoundAssumption DEF Trip
  <2>3. /\ (IF row.etaAge < ETA_MAX_AGE THEN row.etaAge + 1 ELSE row.etaAge) \in 0..ETA_MAX_AGE
        /\ (IF row.measured < ETA_MAX_AGE THEN row.measured + 1 ELSE row.measured)
              \in 0..ETA_MAX_AGE
    BY <2>1, BoundAssumption DEF Trip
  <2>4. QED
    BY <2>2, <2>3 DEF Trip, older
<1>3. Radar(row) \in Trip /\ Cached(row) \in Trip /\ Unavailable(row) \in Trip
  BY Zero DEF Trip, Radar, Cached, Unavailable
<1>4. QED
  BY <1>1, <1>2, <1>3 DEF resolveEta

\* and a broadcast that goes a step further with a row.
LEMMA BroadcastGoesOn ==
  ASSUME NEW b \in Broadcast, NEW s \in {"emit", "eta"}, NEW row \in Trip
  PROVE  /\ [b EXCEPT !.step = s, !.read = row] \in Broadcast
         /\ [b EXCEPT !.step = s, !.read = row].left = b.left
<1>1. [b EXCEPT !.step = s, !.read = row] \in Broadcast
  BY DEF Broadcast
<1>2. [b EXCEPT !.step = s, !.read = row].left = b.left
  BY DEF Broadcast
<1>3. QED
  BY <1>1, <1>2

\* Every variable keeps its type; a broadcast that runs has an attempt left.
THEOREM Typing == Spec => []TypeOK
<1>1. Init => TypeOK
  <2>1. 0 \in Time
    BY BoundAssumption DEF Time
  <2>2. QED
    BY <2>1, Values DEF Init, TypeOK
<1>2. TypeOK /\ [Next]_vars => TypeOK'
  <2> SUFFICES ASSUME TypeOK, [Next]_vars PROVE TypeOK'
    OBVIOUS
  <2> USE Values DEF TypeOK, reportVars, broadcastVars
  <2>1. ASSUME NEW r \in Request, NEW at \in Place, NEW taken \in Time,
               updateDriverLocation(r, at, taken)
        PROVE  TypeOK'
    <3>1. [does |-> verdict(at, taken), at |-> at, taken |-> taken] \in Handling
      BY DEF verdict, Handling
    <3>2. QED
      BY <2>1, <3>1 DEF updateDriverLocation
  <2>2. ASSUME NEW r \in Request, persistAcceptedLocation(r)
        PROVE  TypeOK'
    <3>1. trip' \in Trip
      BY <2>2, Updates DEF persistAcceptedLocation, storeLocation, Handling
    <3>2. [request[r] EXCEPT !.does = "enqueue"] \in Handling
      BY DEF Handling
    <3>3. QED
      BY <2>2, <3>1, <3>2 DEF persistAcceptedLocation
  <2>3. ASSUME NEW r \in Request, quarantine(r)
        PROVE  TypeOK'
    <3>1. trip' \in Trip
      BY <2>3, Updates DEF quarantine, Handling
    <3>2. request[r].at \in Place \cup {None}
      BY DEF Handling
    <3>3. QED
      BY <2>3, <3>1, <3>2 DEF quarantine
  <2>4. ASSUME NEW r \in Request, updateFails(r)
        PROVE  TypeOK'
    BY <2>4 DEF updateFails
  <2>5. ASSUME NEW r \in Request, enqueueTripBroadcast(r)
        PROVE  TypeOK'
    <3>1. ATTEMPTS \in 1..ATTEMPTS
      BY BoundAssumption
    <3>2. CASE UNCHANGED running
      BY <2>5, <3>2 DEF enqueueTripBroadcast
    <3>3. ASSUME NEW j \in Job,
                 running' = [running EXCEPT ![j] = Begun(ATTEMPTS)]
          PROVE  TypeOK'
      <4>1. running' \in [Runner -> Broadcast]
        BY <3>1, <3>3 DEF Runner
      <4>2. \A x \in Runner : running'[x].step # "none" => running'[x].left > 0
        BY <3>1, <3>3 DEF Runner
      <4>3. QED
        BY <2>5, <4>1, <4>2 DEF enqueueTripBroadcast
    <3>4. QED
      BY <2>5, <3>2, <3>3 DEF enqueueTripBroadcast
  <2>6. ASSUME NEW d \in Dashboard, handleSubscribeTrip(d)
        PROVE  TypeOK'
    <3>1. 1 \in 1..ATTEMPTS /\ 0 \in Time
      BY BoundAssumption DEF Time
    <3>2. /\ running' \in [Runner -> Broadcast]
          /\ \A x \in Runner : running'[x].step # "none" => running'[x].left > 0
      BY <2>6, <3>1 DEF handleSubscribeTrip, Runner
    <3>3. QED
      BY <2>6, <3>1, <3>2 DEF handleSubscribeTrip
  <2>7. ASSUME NEW d \in Dashboard, handleUnsubscribeTrip(d)
        PROVE  TypeOK'
    BY <2>7 DEF handleUnsubscribeTrip
  <2>8. ASSUME NEW x \in Runner, findTrip(x)
        PROVE  TypeOK'
    <3> DEFINE read == [trip EXCEPT !.age = 0, !.candidate = None]
    <3>1. read \in Trip
      BY Reads
    <3>2. PICK s \in {"emit", "eta"} :
            running' = [running EXCEPT ![x].step = s, ![x].read = read]
      BY <2>8 DEF findTrip
    <3>3. running'[x] = [running[x] EXCEPT !.step = s, !.read = read]
      BY <3>2
    <3> HIDE DEF read
    <3>4. running'[x] \in Broadcast /\ running'[x].left = running[x].left
      <4>1. running[x] \in Broadcast
        OBVIOUS
      <4>2. /\ [running[x] EXCEPT !.step = s, !.read = read] \in Broadcast
            /\ [running[x] EXCEPT !.step = s, !.read = read].left = running[x].left
        BY <3>1, <3>2, <4>1, BroadcastGoesOn
      <4>3. QED
        BY <3>3, <4>2, Zenon
    <3>5. QED
      BY <2>8, <3>2, <3>4 DEF findTrip, read
  <2>9. ASSUME NEW x \in Runner, storeEta(x)
        PROVE  TypeOK'
    <3>1. PICK row \in resolveEta(running[x].read) :
            /\ running' = [running EXCEPT ![x].step = "emit",
                             ![x].read = [Unwritten EXCEPT !.takenAt = row.takenAt]]
            /\ trip' = [trip EXCEPT !.eta = row.eta, !.etaAge = row.etaAge,
                                    !.measured = row.measured]
      BY <2>9 DEF storeEta
    <3> DEFINE read == [Unwritten EXCEPT !.takenAt = row.takenAt]
    <3>2. running[x].read \in Trip
      BY DEF Broadcast
    <3>3. row \in Trip
      BY <3>1, <3>2, Reads
    <3>4. trip' \in Trip /\ read \in Trip
      BY <3>1, <3>3 DEF Trip
    <3>5. running'[x] = [running[x] EXCEPT !.step = "emit", !.read = read]
      BY <3>1
    <3> HIDE DEF read
    <3>6. running'[x] \in Broadcast /\ running'[x].left = running[x].left
      <4>1. running[x] \in Broadcast
        OBVIOUS
      <4>2. /\ [running[x] EXCEPT !.step = "emit", !.read = read] \in Broadcast
            /\ [running[x] EXCEPT !.step = "emit", !.read = read].left = running[x].left
        BY <3>4, <4>1, BroadcastGoesOn
      <4>3. QED
        BY <3>5, <4>2, Zenon
    <3>7. QED
      BY <2>9, <3>1, <3>4, <3>6 DEF storeEta, read
  <2>10. ASSUME NEW x \in Runner, emitToInternalRoom(x)
         PROVE  TypeOK'
    <3>1. running[x].read.takenAt \in Time
      BY DEF Trip, Broadcast
    <3>2. newest' \in [Dashboard -> Time]
      BY <2>10, <3>1 DEF emitToInternalRoom
    <3>3. QED
      BY <2>10, <3>2 DEF emitToInternalRoom
  <2>11. ASSUME NEW x \in Runner, broadcastFails(x)
         PROVE  TypeOK'
    <3>1. running[x].left > 1 => running[x].left - 1 \in 1..ATTEMPTS
      BY BoundAssumption DEF Broadcast
    <3>2. retried(x) \in Broadcast /\ (retried(x).step # "none" => retried(x).left > 0)
      BY <3>1 DEF retried
    <3>3. QED
      BY <2>11, <3>2 DEF broadcastFails
  <2>12. CASE Tick
    <3>1. \A row \in Trip : older(row) \in Trip
      BY Reads
    <3>2. \A b \in Broadcast :
             /\ [b EXCEPT !.read = older(@)] \in Broadcast
             /\ [b EXCEPT !.read = older(@)].left = b.left
      BY <3>1 DEF Broadcast
    <3>3. QED
      BY <2>12, <3>1, <3>2 DEF Tick
  <2>13. CASE UNCHANGED vars
    BY <2>13 DEF vars
  <2>14. QED
    BY <2>1, <2>2, <2>3, <2>4, <2>5, <2>6, <2>7, <2>8, <2>9, <2>10, <2>11, <2>12, <2>13
    DEF Next, Handles, Broadcasts
<1>3. QED
  BY <1>1, <1>2, PTL DEF Spec

-----------------------------------------------------------------------------
(* A verdict stays good until it is written as long as no other request is  *)
(* under way. The candidate is always a place that was doubted since.       *)

Pending(r) == request[r].does \in {"accept", "confirm", "quarantine"}

VerdictStands ==
  ~overlap =>
    /\ \A q, r \in Request :
         request[q].does # "nothing" /\ request[r].does # "nothing" => q = r
    /\ \A r \in Request :
         Pending(r) => /\ inOrder(request[r].taken)
                       /\ request[r].does = verdict(request[r].at, request[r].taken)

CandidateIsDoubted == trip.candidate # None => trip.candidate \in doubted

Judged == VerdictStands /\ CandidateIsDoubted

\* A step that leaves the position and the candidate alone, and only ends
\* requests, keeps the verdicts.
LEMMA OtherStepsKeepJudged ==
  ASSUME TypeOK, Judged,
         trip'.at = trip.at, trip'.takenAt = trip.takenAt, trip'.candidate = trip.candidate,
         UNCHANGED <<overlap, doubted>>,
         \/ UNCHANGED request
         \/ \E r \in Request : request' = [request EXCEPT ![r] = Idle]
  PROVE  Judged'
<1>1. \A r \in Request : request'[r] = request[r] \/ request'[r] = Idle
  BY DEF TypeOK
<1>2. Idle.does = "nothing"
  BY DEF Idle
<1>3. VerdictStands'
  BY <1>1, <1>2
  DEF Judged, VerdictStands, Pending, inOrder, verdict, isImplausibleJump, confirmed, TypeOK
<1>4. CandidateIsDoubted'
  BY DEF Judged, CandidateIsDoubted
<1>5. QED
  BY <1>3, <1>4 DEF Judged

THEOREM Judging == Spec => []Judged
<1>1. Init => Judged
  BY DEF Init, Judged, VerdictStands, CandidateIsDoubted, Pending, Idle, Unwritten
<1>2. TypeOK /\ Judged /\ [Next]_vars => Judged'
  <2> SUFFICES ASSUME TypeOK, Judged, [Next]_vars PROVE Judged'
    OBVIOUS
  <2> USE DEF reportVars, broadcastVars
  <2>1. ASSUME NEW r \in Request, NEW at \in Place, NEW taken \in Time,
               updateDriverLocation(r, at, taken)
        PROVE  Judged'
    <3>1. /\ request' = [request EXCEPT ![r] = [does |-> verdict(at, taken), at |-> at,
                                                taken |-> taken]]
          /\ inOrder(taken)
          /\ overlap' = (overlap \/ \E q \in Request : request[q].does # "nothing")
          /\ UNCHANGED <<trip, doubted>>
      BY <2>1 DEF updateDriverLocation
    <3>2. VerdictStands'
      BY <3>1 DEF VerdictStands, Pending, inOrder, verdict, isImplausibleJump, confirmed, TypeOK
    <3>3. QED
      BY <3>1, <3>2 DEF Judged, CandidateIsDoubted
  <2>2. ASSUME NEW r \in Request, persistAcceptedLocation(r)
        PROVE  Judged'
    <3>1. /\ request[r].does # "nothing"
          /\ request' = [request EXCEPT ![r].does = "enqueue"]
          /\ trip'.candidate = None
          /\ UNCHANGED overlap
      BY <2>2 DEF persistAcceptedLocation, storeLocation, TypeOK, Trip
    <3>2. VerdictStands'
      BY <3>1 DEF Judged, VerdictStands, Pending, TypeOK
    <3>3. QED
      BY <3>1, <3>2 DEF Judged, CandidateIsDoubted
  <2>3. ASSUME NEW r \in Request, quarantine(r)
        PROVE  Judged'
    <3>1. /\ request[r].does # "nothing"
          /\ request' = [request EXCEPT ![r] = Idle]
          /\ trip'.candidate = request[r].at
          /\ doubted' = doubted \cup {request[r].at}
          /\ UNCHANGED overlap
      BY <2>3 DEF quarantine, TypeOK, Trip
    <3>2. VerdictStands'
      BY <3>1 DEF Judged, VerdictStands, Pending, TypeOK, Idle
    <3>3. QED
      BY <3>1, <3>2 DEF Judged, CandidateIsDoubted
  <2>4. ASSUME NEW r \in Request, updateFails(r) \/ enqueueTripBroadcast(r)
        PROVE  Judged'
    BY <2>4, OtherStepsKeepJudged DEF updateFails, enqueueTripBroadcast
  <2>5. ASSUME NEW d \in Dashboard, handleSubscribeTrip(d) \/ handleUnsubscribeTrip(d)
        PROVE  Judged'
    BY <2>5, OtherStepsKeepJudged DEF handleSubscribeTrip, handleUnsubscribeTrip
  <2>6. ASSUME NEW x \in Runner, findTrip(x) \/ emitToInternalRoom(x) \/ broadcastFails(x)
        PROVE  Judged'
    BY <2>6, OtherStepsKeepJudged DEF findTrip, emitToInternalRoom, broadcastFails
  <2>7. ASSUME NEW x \in Runner, storeEta(x)
        PROVE  Judged'
    <3>1. trip'.at = trip.at /\ trip'.takenAt = trip.takenAt /\ trip'.candidate = trip.candidate
      BY <2>7 DEF storeEta, TypeOK, Trip
    <3>2. QED
      BY <2>7, <3>1, OtherStepsKeepJudged DEF storeEta
  <2>8. CASE Tick
    <3>1. trip'.at = trip.at /\ trip'.takenAt = trip.takenAt /\ trip'.candidate = trip.candidate
      BY <2>8 DEF Tick, older, TypeOK, Trip
    <3>2. QED
      BY <2>8, <3>1, OtherStepsKeepJudged DEF Tick
  <2>9. CASE UNCHANGED vars
    BY <2>9, OtherStepsKeepJudged DEF vars
  <2>10. QED
    BY <2>1, <2>2, <2>3, <2>4, <2>5, <2>6, <2>7, <2>8, <2>9 DEF Next, Handles, Broadcasts
<1>3. QED
  BY <1>1, <1>2, Typing, PTL DEF Spec

-----------------------------------------------------------------------------
\* Only persistAcceptedLocation changes the position or its timestamp.
LEMMA OnlyPersistMoves ==
  ASSUME TypeOK, [Next]_vars,
         trip'.at # trip.at \/ trip'.takenAt # trip.takenAt
  PROVE  \E r \in Request : persistAcceptedLocation(r)
<1> USE DEF reportVars, broadcastVars
<1>1. ASSUME NEW r \in Request, quarantine(r)
      PROVE  trip'.at = trip.at /\ trip'.takenAt = trip.takenAt
  BY <1>1 DEF quarantine, TypeOK, Trip
<1>2. ASSUME NEW x \in Runner, storeEta(x)
      PROVE  trip'.at = trip.at /\ trip'.takenAt = trip.takenAt
  BY <1>2 DEF storeEta, TypeOK, Trip
<1>3. ASSUME Tick
      PROVE  trip'.at = trip.at /\ trip'.takenAt = trip.takenAt
  BY <1>3 DEF Tick, older, TypeOK, Trip
<1>4. QED
  BY <1>1, <1>2, <1>3
  DEF Next, vars, Handles, Broadcasts, updateDriverLocation, updateFails, enqueueTripBroadcast,
      handleSubscribeTrip, handleUnsubscribeTrip, findTrip, emitToInternalRoom, broadcastFails

\* While reports are handled one at a time, client timestamps only grow.
THEOREM TimestampsGrow == Spec => TimeGoesOn
<1>1. TypeOK /\ Judged /\ [Next]_vars =>
        [<<trip'.at, trip'.takenAt>> # <<trip.at, trip.takenAt>> /\ trip.at # None /\ ~overlap
           => trip'.takenAt > trip.takenAt]_vars
  <2> SUFFICES ASSUME TypeOK, Judged, [Next]_vars,
                      <<trip'.at, trip'.takenAt>> # <<trip.at, trip.takenAt>>,
                      trip.at # None, ~overlap
               PROVE  trip'.takenAt > trip.takenAt
    OBVIOUS
  <2>1. PICK r \in Request : persistAcceptedLocation(r)
    BY OnlyPersistMoves
  <2>2. inOrder(request[r].taken)
    BY <2>1 DEF persistAcceptedLocation, Judged, VerdictStands, Pending
  <2>3. trip'.takenAt = request[r].taken
    BY <2>1 DEF persistAcceptedLocation, storeLocation, TypeOK, Trip
  <2>4. QED
    BY <2>2, <2>3 DEF inOrder
<1>2. QED
  BY <1>1, Typing, Judging, PTL DEF Spec, TimeGoesOn

\* While reports are handled one at a time, a jump is accepted only near a place
\* that was reported and doubted before.
THEOREM JumpsNeedTwoReports == Spec => JumpsAreConfirmed
<1>1. TypeOK /\ Judged /\ [Next]_vars =>
        [/\ trip'.at # trip.at /\ trip.at # None /\ ~overlap
         /\ isImplausibleJump(trip'.at, trip'.takenAt)
         => \E p \in doubted : Distance(p, trip'.at) <= CONFIRM_RADIUS]_vars
  <2> SUFFICES ASSUME TypeOK, Judged, [Next]_vars, trip'.at # trip.at, ~overlap,
                      isImplausibleJump(trip'.at, trip'.takenAt)
               PROVE  \E p \in doubted : Distance(p, trip'.at) <= CONFIRM_RADIUS
    OBVIOUS
  <2>1. PICK r \in Request : persistAcceptedLocation(r)
    BY OnlyPersistMoves
  <2>2. trip'.at = request[r].at /\ trip'.takenAt = request[r].taken
    BY <2>1 DEF persistAcceptedLocation, storeLocation, TypeOK, Trip
  <2>3. /\ request[r].does = verdict(request[r].at, request[r].taken)
        /\ request[r].does \in {"accept", "confirm"}
    BY <2>1 DEF persistAcceptedLocation, Judged, VerdictStands, Pending
  <2>4. confirmed(request[r].at)
    BY <2>2, <2>3 DEF verdict
  <2>5. QED
    BY <2>2, <2>4 DEF confirmed, Judged, CandidateIsDoubted
<1>2. QED
  BY <1>1, Typing, Judging, PTL DEF Spec, JumpsAreConfirmed

-----------------------------------------------------------------------------
(* A position that was accepted is on its way. *)

\* A broadcast that will send the position of the row, or a later one.
Carries(x) ==
  \/ running[x].step = "find"
  \/ running[x].step \in {"eta", "emit"} /\ running[x].read.takenAt >= trip.takenAt

ToBeSent(d) ==
  \/ newest[d] >= trip.takenAt
  \/ lost
  \/ \E r \in Request : request[r].does = "enqueue"
  \/ \E x \in Runner : Carries(x)

\* A step that is no broadcast's, and leaves the position or is about to ask for a broadcast.
LEMMA StillToBeSent ==
  ASSUME TypeOK, NEW d \in room', d \in room => ToBeSent(d) /\ newest'[d] = newest[d],
         d \notin room => \E x \in Runner : running'[x].step = "find",
         trip'.takenAt = trip.takenAt, lost => lost',
         \A r \in Request : request[r].does = "enqueue" =>
           \/ request'[r].does = "enqueue" \/ lost' \/ \E x \in Runner : running'[x].step = "find",
         \A x \in Runner : running[x].step # "none" =>
           \/ running'[x].step = "find"
           \/ running'[x].step = running[x].step /\ running'[x].read.takenAt = running[x].read.takenAt
  PROVE  ToBeSent(d)'
BY DEF ToBeSent, Carries

LEMMA BroadcastSends ==
  ASSUME TypeOK, \A d \in room : ToBeSent(d), NEW x \in Runner, Broadcasts(x) \/ broadcastFails(x),
         NEW d \in room
  PROVE  ToBeSent(d)'
<1>0. /\ running[x] \in Broadcast /\ trip \in Trip /\ newest[d] \in Int /\ trip.takenAt \in Int
      /\ \A y \in Runner : running[y].read.takenAt \in Int
  BY DEF TypeOK, Broadcast, Trip, Time
<1>1. UNCHANGED request /\ room' = room /\ \A y \in Runner \ {x} : running'[y] = running[y]
  BY DEF Broadcasts, findTrip, storeEta, emitToInternalRoom, broadcastFails, reportVars, TypeOK
<1>2. trip'.takenAt = trip.takenAt
  BY <1>0 DEF Broadcasts, findTrip, storeEta, emitToInternalRoom, broadcastFails, Trip
<1>3. (lost => lost') /\ newest'[d] \in Int /\ newest'[d] >= newest[d]
  <2>1. CASE emitToInternalRoom(x)
    <3>1. running[x].read.takenAt \in Int /\ d \in Dashboard
      BY <1>0 DEF TypeOK
    <3>2. newest'[d] = IF newest[d] < running[x].read.takenAt
                       THEN running[x].read.takenAt ELSE newest[d]
      BY <2>1, <3>1 DEF emitToInternalRoom
    <3>3. newest'[d] \in Int /\ newest'[d] >= newest[d]
      BY <1>0, <3>1, <3>2
    <3>4. lost' = lost
      BY <2>1 DEF emitToInternalRoom
    <3> QED BY <3>3, <3>4
  <2>2. CASE findTrip(x) \/ storeEta(x) \/ broadcastFails(x)
    <3>1. newest' = newest
      BY <2>2 DEF findTrip, storeEta, broadcastFails
    <3>2. lost => lost'
      BY <2>2 DEF findTrip, storeEta, broadcastFails
    <3> QED BY <1>0, <3>1, <3>2
  <2> QED BY <2>1, <2>2 DEF Broadcasts
<1>4. Carries(x) => Carries(x)' \/ newest'[d] >= trip.takenAt \/ lost'
  <2>1. CASE findTrip(x)
    <3>1. /\ running'[x].step \in {"emit", "eta"}
          /\ running'[x].read = [trip EXCEPT !.age = 0, !.candidate = None]
      BY <1>0, <2>1 DEF findTrip, TypeOK, Broadcast
    <3>2. running'[x].read.takenAt = trip.takenAt
      BY <1>0, <3>1 DEF Trip
    <3> QED BY <1>0, <1>2, <3>1, <3>2 DEF Carries
  <2>2. CASE storeEta(x)
    <3>1. PICK row \in resolveEta(running[x].read) :
            running' = [running EXCEPT ![x].step = "emit",
                                       ![x].read = [Unwritten EXCEPT !.takenAt = row.takenAt]]
      BY <2>2 DEF storeEta
    <3>2. row.takenAt = running[x].read.takenAt
      <4>1. running[x].read \in Trip
        BY <1>0 DEF Broadcast
      <4> QED BY <4>1 DEF resolveEta, Radar, Cached, Unavailable, Trip
    <3>3. /\ running'[x].step = "emit"
          /\ running'[x].read = [Unwritten EXCEPT !.takenAt = row.takenAt]
      BY <1>0, <3>1 DEF TypeOK, Broadcast
    <3>4. running'[x].read.takenAt = running[x].read.takenAt
      BY <3>2, <3>3 DEF Unwritten
    <3> QED BY <1>2, <2>2, <3>3, <3>4 DEF Carries, storeEta
  <2>3. CASE emitToInternalRoom(x)
    <3>1. newest'[d] >= running[x].read.takenAt
      BY <1>0, <2>3 DEF emitToInternalRoom, TypeOK
    <3> QED BY <1>0, <1>3, <2>3, <3>1 DEF Carries, emitToInternalRoom
  <2>4. CASE broadcastFails(x)
    <3>1. running'[x] = retried(x)
      BY <2>4 DEF broadcastFails, TypeOK
    <3>2. CASE running[x].left > 1
      BY <3>1, <3>2 DEF retried, Begun, Carries
    <3>3. CASE ~(running[x].left > 1)
      <4>1. running[x].left = 1
        BY <1>0, <2>4, <3>3, BoundAssumption DEF broadcastFails, TypeOK, Broadcast
      <4> QED BY <2>4, <4>1 DEF broadcastFails
    <3> QED BY <3>2, <3>3
  <2> QED BY <2>1, <2>2, <2>3, <2>4 DEF Broadcasts
<1>5. \A y \in Runner \ {x} : Carries(y) => Carries(y)'
  BY <1>1, <1>2 DEF Carries
<1> QED BY <1>0, <1>1, <1>2, <1>3, <1>4, <1>5 DEF ToBeSent

\* The accepted position is never forgotten: a dashboard in the room has been sent it or a
\* later one, or a broadcast of it is to be queued, is under way or was given up
\* (enqueueTripBroadcast, handleSubscribeTrip, broadcastTripUpdate). What EveryPositionIsSent
\* adds is that the broadcast goes on.
THEOREM PositionsAreUnderWay == Spec => [](\A d \in room : ToBeSent(d))
<1> DEFINE Carried == \A d \in room : ToBeSent(d)
<1>1. Init => Carried
  BY DEF Init
<1>2. TypeOK /\ Carried /\ [Next]_vars => Carried'
  <2> SUFFICES ASSUME TypeOK, Carried, [Next]_vars, NEW d \in room' PROVE ToBeSent(d)'
    OBVIOUS
  <2> USE DEF reportVars, broadcastVars
  <2>1. ASSUME NEW r \in Request, NEW at \in Place, NEW taken \in Time,
               updateDriverLocation(r, at, taken)
        PROVE  ToBeSent(d)'
    <3>1. \A q \in Request : request[q].does = "enqueue" => request'[q].does = "enqueue"
      BY <2>1 DEF updateDriverLocation, Idle, TypeOK
    <3> QED BY <2>1, <3>1, StillToBeSent DEF updateDriverLocation
  <2>2. ASSUME NEW r \in Request, persistAcceptedLocation(r)
        PROVE  ToBeSent(d)'
    <3>1. request'[r].does = "enqueue"
      BY <2>2 DEF persistAcceptedLocation, TypeOK, Handling
    <3> QED BY <3>1 DEF ToBeSent
  <2>3. ASSUME NEW r \in Request, quarantine(r) \/ updateFails(r)
        PROVE  ToBeSent(d)'
    <3>1. trip'.takenAt = trip.takenAt
      BY <2>3 DEF quarantine, updateFails, TypeOK, Trip
    <3>2. \A q \in Request : request[q].does = "enqueue" => request'[q].does = "enqueue"
      BY <2>3 DEF quarantine, updateFails, TypeOK
    <3> QED BY <2>3, <3>1, <3>2, StillToBeSent DEF quarantine, updateFails
  <2>4. ASSUME NEW r \in Request, enqueueTripBroadcast(r)
        PROVE  ToBeSent(d)'
    <3>1. \A q \in Request \ {r} : request'[q] = request[q]
      BY <2>4 DEF enqueueTripBroadcast, TypeOK
    <3>2. CASE lost' /\ UNCHANGED running
      BY <3>2 DEF ToBeSent
    <3>3. ASSUME NEW j \in Job, running[j].step = "none",
                 running' = [running EXCEPT ![j] = Begun(ATTEMPTS)]
          PROVE  ToBeSent(d)'
      <4>1. j \in Runner /\ running'[j].step = "find"
        BY <3>3 DEF Runner, Begun, TypeOK
      <4> QED BY <4>1 DEF ToBeSent, Carries
    <3> QED BY <2>4, <3>2, <3>3 DEF enqueueTripBroadcast
  <2>5. ASSUME NEW e \in Dashboard, handleSubscribeTrip(e) PROVE ToBeSent(d)'
    <3>1. e \in Runner /\ running'[e].step = "find"
      BY <2>5 DEF handleSubscribeTrip, Runner, Begun, TypeOK
    <3> QED BY <3>1 DEF ToBeSent, Carries
  <2>6. ASSUME NEW e \in Dashboard, handleUnsubscribeTrip(e) PROVE ToBeSent(d)'
    BY <2>6, StillToBeSent DEF handleUnsubscribeTrip
  <2>7. ASSUME NEW x \in Runner, Broadcasts(x) \/ broadcastFails(x) PROVE ToBeSent(d)'
    <3>1. room' = room
      BY <2>7 DEF Broadcasts, findTrip, storeEta, emitToInternalRoom, broadcastFails
    <3> QED BY <2>7, <3>1, BroadcastSends
  <2>8. CASE Tick
    <3>1. trip'.takenAt = trip.takenAt
      BY <2>8 DEF Tick, older, TypeOK, Trip
    <3>2. \A x \in Runner : running'[x].step = running[x].step
                            /\ running'[x].read.takenAt = running[x].read.takenAt
      <4> TAKE x \in Runner
      <4>1. running[x] \in Broadcast /\ running[x].read \in Trip
        BY DEF TypeOK, Broadcast
      <4>2. running'[x] = IF running[x].step = "eta"
                          THEN [running[x] EXCEPT !.read = older(running[x].read)] ELSE running[x]
        BY <2>8 DEF Tick
      <4>3. older(running[x].read).takenAt = running[x].read.takenAt
        BY <4>1 DEF older, Trip
      <4> QED BY <4>1, <4>2, <4>3 DEF Broadcast
    <3> QED BY <2>8, <3>1, <3>2, StillToBeSent DEF Tick
  <2>9. CASE UNCHANGED vars
    BY <2>9, StillToBeSent DEF vars
  <2> QED
    BY <2>1, <2>2, <2>3, <2>4, <2>5, <2>6, <2>7, <2>8, <2>9 DEF Next, Handles
<1> HIDE DEF Carried
<1>3. Spec => []Carried
  BY <1>1, <1>2, Typing, PTL DEF Spec
<1> QED BY <1>3 DEF Carried

-----------------------------------------------------------------------------
(* Presence: the timers *)

\* A socket in use is at a server, a timer belongs to a socket that has closed, and a
\* server's map holds timers of its own that run.
Homed ==
  /\ \A s \in Socket : step[s] # "none" => home[s] \in Server
  /\ \A s \in open : timer[s] = "off" /\ step[s] # "none"
  /\ \A s \in Socket : timer[s] # "off" => step[s] # "none"
  /\ \A v \in Server : pending[v] # Nobody => timer[pending[v]] = "runs" /\ home[pending[v]] = v

Handshakes == {"authenticate", "check", "write", "announce"}

\* One socket at a time: what a socket begins it is there for, every timer is at the
\* server of the socket that is open, and the one that runs is in that server's map.
OneAtATime ==
  /\ \A s, r \in open : s = r
  /\ \A s \in Socket : step[s] \in Handshakes => s \in open
  /\ \A s, r \in Socket : timer[s] # "off" /\ (timer[r] # "off" \/ r \in open) => home[r] = home[s]
  /\ \A s \in Socket : timer[s] = "runs" => pending[home[s]] = s

\* The key outlives the timer that runs, no timer runs once the socket after it is let in,
\* and the key is there when that socket is on.
KeyOutlives ==
  /\ \A s \in Socket : timer[s] = "runs" => left[s] < ttl
  /\ \A s, r \in Socket : timer[s] = "runs" /\ r \in open => step[r] = "authenticate"
  /\ \A s \in open : step[s] = "on" => ttl > 0

Present == PresenceTypeOK /\ Homed /\ (undisturbed => OneAtATime /\ KeyOutlives)

-----------------------------------------------------------------------------
\* Initially nobody is there.
LEMMA PresenceStarts == PresenceInit => Present
  BY NobodyAssumption, TimeAssumption
  DEF PresenceInit, Present, PresenceTypeOK, Homed, OneAtATime, KeyOutlives, Steps, Handshakes

\* Every variable keeps its type.
LEMMA PresenceTyped == ASSUME PresenceTypeOK, Homed, [PresenceNext]_presenceVars PROVE PresenceTypeOK'
<1> USE NobodyAssumption, TimeAssumption DEF PresenceTypeOK, Steps
<1>1. ASSUME NEW s \in Socket, NEW v \in Server, handleConnection(s, v) PROVE PresenceTypeOK'
  BY <1>1 DEF handleConnection
<1>2. ASSUME NEW s \in Socket, setOnline(s) PROVE PresenceTypeOK'
  <2>1. CASE pending[home[s]] # Nobody
    BY <1>2, <2>1 DEF setOnline
  <2>2. CASE pending[home[s]] = Nobody
    BY <1>2, <2>2 DEF setOnline
  <2> QED BY <2>1, <2>2
<1>3. ASSUME NEW s \in Socket, isOnline(s) \/ refuse(s) \/ forgotten(s) PROVE PresenceTypeOK'
  BY <1>3 DEF isOnline, refuse, forgotten
<1>4. ASSUME NEW s \in Socket, recordWritten(s) \/ heartbeat(s) PROVE PresenceTypeOK'
  <2>1. CASE recordWritten(s)
    BY <2>1 DEF recordWritten, writeRecord
  <2>2. CASE heartbeat(s)
    BY <2>2 DEF heartbeat
  <2> QED BY <1>4, <2>1, <2>2
<1>5. ASSUME NEW s \in Socket, handleDisconnect(s) \/ setOnlineFails(s) PROVE PresenceTypeOK'
  <2>1. scheduleOffline(s) \/ UNCHANGED <<timer, left, pending>>
    BY <1>5 DEF handleDisconnect, setOnlineFails
  <2>2. /\ timer' \in [Socket -> {"off", "runs", "deleted"}]
        /\ left' \in [Socket -> 0..GRACE]
        /\ pending' \in [Server -> Socket \cup {Nobody}]
    BY <2>1 DEF scheduleOffline
  <2>3. /\ open' \subseteq Socket
        /\ step' \in [Socket -> Steps]
        /\ undisturbed' \in BOOLEAN
        /\ UNCHANGED <<home, ttl, announced>>
    BY <1>5 DEF handleDisconnect, setOnlineFails
  <2> QED BY <2>2, <2>3
<1>6. ASSUME NEW s \in Socket, deleteRecord(s) \/ announceOffline(s) PROVE PresenceTypeOK'
  <2>1. CASE deleteRecord(s)
    <3>1. pending' \in [Server -> Socket \cup {Nobody}]
      BY <2>1 DEF deleteRecord
    <3>2. timer' \in [Socket -> {"off", "runs", "deleted"}] /\ ttl' \in 0..TTL
      BY <2>1 DEF deleteRecord
    <3>3. undisturbed' \in BOOLEAN /\ UNCHANGED <<open, home, step, left, announced>>
      BY <2>1 DEF deleteRecord
    <3> QED BY <3>1, <3>2, <3>3
  <2>2. CASE announceOffline(s)
    BY <2>2 DEF announceOffline
  <2> QED BY <1>6, <2>1, <2>2
<1>7. CASE TimePasses
  BY <1>7 DEF TimePasses, expires, less
<1>8. ASSUME NEW v \in Server, serverStops(v) PROVE PresenceTypeOK'
  BY <1>8 DEF serverStops
<1>9. CASE UNCHANGED presenceVars
  BY <1>9 DEF presenceVars
<1> QED
  BY <1>1, <1>2, <1>3, <1>4, <1>5, <1>6, <1>7, <1>8, <1>9 DEF PresenceNext, Runs

\* Sockets and timers keep their servers, and a server's map its timers.
LEMMA HomedKept == ASSUME PresenceTypeOK, Homed, [PresenceNext]_presenceVars PROVE Homed'
<1> USE NobodyAssumption DEF PresenceTypeOK, Homed
<1>1. ASSUME NEW s \in Socket, NEW v \in Server, handleConnection(s, v) PROVE Homed'
  BY <1>1 DEF handleConnection
<1>2. ASSUME NEW s \in Socket, setOnline(s) PROVE Homed'
  <2>1. CASE pending[home[s]] # Nobody
    <3> DEFINE v == home[s]
               r == pending[v]
    <3>1. /\ timer' = [timer EXCEPT ![r] = "off"]
          /\ pending' = [pending EXCEPT ![v] = Nobody]
          /\ step' = [step EXCEPT ![s] = "on"]
          /\ UNCHANGED <<open, home>>
      BY <1>2, <2>1 DEF setOnline
    <3>2. \A u \in Server : pending'[u] # Nobody => u # v /\ pending'[u] = pending[u]
      BY <3>1
    <3>3. \A u \in Server \ {v} : pending[u] # Nobody => pending[u] # r
      <4>1. step[s] = "authenticate"
        BY <1>2 DEF setOnline
      <4>2. v \in Server
        BY <4>1
      <4>3. home[r] = v
        BY <2>1, <4>2
      <4> QED BY <4>3
    <3>4. \A p \in Socket : p # r => timer'[p] = timer[p]
      BY <3>1
    <3>5. \A u \in Server : pending'[u] # Nobody => timer'[pending'[u]] = "runs" /\ home'[pending'[u]] = u
      BY <3>1, <3>2, <3>3, <3>4
    <3>6. \A p \in Socket : timer[p] = "off" => timer'[p] = "off"
      BY <3>1
    <3>7. \A p \in Socket : step'[p] = "none" <=> step[p] = "none"
      BY <3>1, <1>2 DEF setOnline
    <3>8. \A p \in Socket : step'[p] # "none" => home'[p] \in Server
      BY <3>1, <3>7
    <3>9. \A p \in open' : timer'[p] = "off" /\ step'[p] # "none"
      BY <3>1, <3>6, <3>7
    <3>10. \A p \in Socket : timer'[p] # "off" => step'[p] # "none"
      BY <3>6, <3>7
    <3> QED BY <3>5, <3>8, <3>9, <3>10
  <2>2. CASE pending[home[s]] = Nobody
    BY <1>2, <2>2 DEF setOnline
  <2> QED BY <2>1, <2>2
<1>3. ASSUME NEW s \in Socket, isOnline(s) \/ refuse(s) \/ forgotten(s) PROVE Homed'
  BY <1>3 DEF isOnline, refuse, forgotten
<1>4. ASSUME NEW s \in Socket, recordWritten(s) \/ heartbeat(s) PROVE Homed'
  BY <1>4 DEF recordWritten, writeRecord, heartbeat
<1>5. ASSUME NEW s \in Socket, handleDisconnect(s) PROVE Homed'
  BY <1>5 DEF handleDisconnect, scheduleOffline
<1>6. ASSUME NEW s \in Socket, setOnlineFails(s) PROVE Homed'
  BY <1>6 DEF setOnlineFails, scheduleOffline
<1>7. ASSUME NEW s \in Socket, deleteRecord(s) \/ announceOffline(s) PROVE Homed'
  BY <1>7 DEF deleteRecord, announceOffline
<1>8. CASE TimePasses
  BY <1>8 DEF TimePasses
<1>9. ASSUME NEW v \in Server, serverStops(v) PROVE Homed'
  BY <1>9 DEF serverStops
<1>10. CASE UNCHANGED presenceVars
  BY <1>10 DEF presenceVars
<1> QED
  BY <1>1, <1>2, <1>3, <1>4, <1>5, <1>6, <1>7, <1>8, <1>9, <1>10 DEF PresenceNext, Runs

\* While nothing disturbs, there is one socket, one running timer, and the key.
LEMMA PresenceKept ==
  ASSUME Present, [PresenceNext]_presenceVars, undisturbed'
  PROVE  OneAtATime' /\ KeyOutlives'
<1> USE NobodyAssumption, TimeAssumption
<1>1. undisturbed
  <2>1. ASSUME NEW s \in Socket, NEW v \in Server, handleConnection(s, v) PROVE undisturbed
    BY <2>1 DEF handleConnection
  <2>2. ASSUME NEW s \in Socket, Runs(s) PROVE undisturbed
    BY <2>2 DEF Runs, setOnline, isOnline, recordWritten, deleteRecord, announceOffline
  <2>3. ASSUME NEW s \in Socket,
               \/ refuse(s) \/ heartbeat(s) \/ handleDisconnect(s) \/ setOnlineFails(s) \/ forgotten(s)
        PROVE  undisturbed
    BY <2>3 DEF refuse, heartbeat, handleDisconnect, setOnlineFails, forgotten
  <2> QED
    BY <2>1, <2>2, <2>3 DEF PresenceNext, TimePasses, serverStops, presenceVars
<1>2. OneAtATime /\ KeyOutlives /\ PresenceTypeOK /\ Homed
  BY <1>1 DEF Present
<1> USE <1>2 DEF PresenceTypeOK, Homed, OneAtATime, KeyOutlives, Handshakes
<1>3. ASSUME NEW s \in Socket, NEW v \in Server, handleConnection(s, v)
      PROVE  OneAtATime' /\ KeyOutlives'
  <2>1. open = {} /\ open' = {s}
    <3>1. /\ open' = open \cup {s}
          /\ undisturbed' = (undisturbed /\ open = {}
                               /\ \A r \in Socket : timer[r] # "off" => home[r] = v)
      BY <1>3 DEF handleConnection
    <3>2. open = {}
      BY <3>1, Zenon
    <3> QED BY <3>1, <3>2
  <2>2. /\ step'[s] = "authenticate" /\ home'[s] = v
        /\ \A r \in Socket \ {s} : step'[r] = step[r] /\ home'[r] = home[r]
        /\ UNCHANGED <<timer, left, pending, ttl>>
    BY <1>3 DEF handleConnection
  <2>3. timer[s] = "off" /\ \A r \in Socket : timer[r] # "off" => home[r] = v
    BY <1>3 DEF handleConnection
  <2>4. \A r \in Socket : step[r] \notin Handshakes
    BY <2>1
  <2>5. OneAtATime'
    BY <2>2, <2>3, <2>4, <2>1
  <2> QED BY <2>2, <2>3, <2>5, <2>1
<1>4. ASSUME NEW s \in Socket, setOnline(s) PROVE OneAtATime' /\ KeyOutlives'
  <2>1. CASE pending[home[s]] # Nobody
    BY <1>4, <2>1 DEF setOnline
  <2>2. CASE pending[home[s]] = Nobody
    BY <1>4, <2>2 DEF setOnline
  <2> QED BY <2>1, <2>2
<1>5. ASSUME NEW s \in Socket, isOnline(s) PROVE OneAtATime' /\ KeyOutlives'
  BY <1>5 DEF isOnline
<1>6. ASSUME NEW s \in Socket, refuse(s) PROVE OneAtATime' /\ KeyOutlives'
  <2>1. /\ open' = {} /\ step'[s] = "on"
        /\ \A r \in Socket \ {s} : step'[r] = step[r]
        /\ UNCHANGED <<home, timer, left, pending, ttl>>
    BY <1>6 DEF refuse
  <2>2. \A r \in Socket : step'[r] \notin Handshakes
    BY <2>1, <1>6 DEF refuse
  <2> QED BY <2>1, <2>2
<1>7. ASSUME NEW s \in Socket, recordWritten(s) PROVE OneAtATime' /\ KeyOutlives'
  <2>1. /\ ttl' = TTL /\ step'[s] = "on" /\ s \in open
        /\ \A r \in Socket \ {s} : step'[r] = step[r]
        /\ UNCHANGED <<open, home, timer, left, pending>>
    BY <1>7 DEF recordWritten, writeRecord
  <2>2. \A r \in Socket : timer[r] # "runs"
    BY <2>1, <1>7 DEF recordWritten, writeRecord
  <2> QED BY <2>1, <2>2
<1>8. ASSUME NEW s \in Socket, heartbeat(s) PROVE OneAtATime' /\ KeyOutlives'
  <2>1. ttl' = TTL /\ UNCHANGED <<open, home, step, timer, left, pending>>
    BY <1>8 DEF heartbeat
  <2>2. \A r \in Socket : left[r] < TTL
    OBVIOUS
  <2>3. TTL > 0
    OBVIOUS
  <2> QED BY <2>1, <2>2, <2>3
<1>9. ASSUME NEW s \in Socket, handleDisconnect(s) PROVE OneAtATime' /\ KeyOutlives'
  <2>1. s \in open /\ step[s] = "on" /\ ttl > GRACE
    BY <1>9 DEF handleDisconnect
  <2>2. open' = {} /\ scheduleOffline(s) /\ UNCHANGED <<home, step, ttl>>
    BY <1>9, <2>1 DEF handleDisconnect
  <2>3. \A r \in Socket : step[r] \notin Handshakes /\ timer[r] # "runs"
    BY <2>1
  <2>4. home[s] \in Server
    BY <2>1
  <2>5. /\ timer'[s] = "runs" /\ left'[s] = GRACE /\ pending'[home[s]] = s
        /\ \A r \in Socket \ {s} : timer'[r] = timer[r] /\ left'[r] = left[r]
    BY <2>2, <2>4 DEF scheduleOffline
  <2>6. \A r \in Socket : timer'[r] # "off" => home[r] = home[s]
    BY <2>1, <2>5
  <2> QED BY <2>1, <2>2, <2>3, <2>5, <2>6
<1>10. ASSUME NEW s \in Socket, setOnlineFails(s) PROVE FALSE
  BY <1>10 DEF setOnlineFails
<1>11. ASSUME NEW s \in Socket, deleteRecord(s) PROVE OneAtATime' /\ KeyOutlives'
  <2>1. /\ timer[s] = "runs" /\ timer'[s] = "deleted" /\ ttl' = 0
        /\ \A r \in Socket \ {s} : timer'[r] = timer[r]
        /\ UNCHANGED <<open, home, step, left>>
    BY <1>11 DEF deleteRecord
  <2>2. \A r \in Socket \ {s} : timer[r] # "runs"
    BY <2>1
  <2> QED BY <2>1, <2>2
<1>12. ASSUME NEW s \in Socket, announceOffline(s) PROVE OneAtATime' /\ KeyOutlives'
  BY <1>12 DEF announceOffline
<1>13. ASSUME NEW s \in Socket, forgotten(s) PROVE OneAtATime' /\ KeyOutlives'
  <2>1. /\ s \notin open /\ timer[s] = "off" /\ step'[s] = "none"
        /\ \A r \in Socket \ {s} : step'[r] = step[r] /\ home'[r] = home[r]
        /\ UNCHANGED <<open, timer, left, pending, ttl>>
    BY <1>13 DEF forgotten
  <2> QED BY <2>1
<1>14. CASE TimePasses
  <2>1. /\ \A r \in Socket : left'[r] = less(left[r])
        /\ ttl' = expires(ttl)
        /\ UNCHANGED <<open, home, step, timer, pending>>
    BY <1>14 DEF TimePasses
  <2>2. OneAtATime'
    BY <2>1
  <2>3. \A r \in Socket : timer[r] = "runs" => left'[r] < ttl'
    BY <1>14, <2>1 DEF TimePasses, expires, less
  <2>4. \A r \in open : step[r] = "on" => ttl' > 0
    BY <1>14 DEF TimePasses, Connected
  <2> QED BY <2>1, <2>2, <2>3, <2>4
<1>15. ASSUME NEW v \in Server, serverStops(v) PROVE OneAtATime' /\ KeyOutlives'
  <2>1. \A s \in Socket : home[s] # v
    BY <1>15 DEF serverStops
  <2>2. \A s \in Socket : home'[s] = home[s] /\ step'[s] = step[s] /\ timer'[s] = timer[s]
    BY <1>15, <2>1 DEF serverStops
  <2>3. open' = open /\ pending' = [pending EXCEPT ![v] = Nobody] /\ UNCHANGED <<left, ttl>>
    BY <1>15, <2>1 DEF serverStops
  <2> QED BY <2>1, <2>2, <2>3
<1>16. CASE UNCHANGED presenceVars
  BY <1>16 DEF presenceVars
<1> QED
  BY <1>3, <1>4, <1>5, <1>6, <1>7, <1>8, <1>9, <1>10, <1>11, <1>12, <1>13, <1>14, <1>15, <1>16
     DEF PresenceNext, Runs

\* A driver connected by one socket at a time whose heartbeats come in time is online.
THEOREM PresenceHolds == PresenceSpec => []OnlineWhileConnected
<1>1. Present /\ [PresenceNext]_presenceVars => Present'
  BY PresenceTyped, HomedKept, PresenceKept DEF Present
<1>2. Present => OnlineWhileConnected
  BY DEF Present, KeyOutlives, OnlineWhileConnected, Connected, online
<1> QED BY PresenceStarts, <1>1, <1>2, PTL DEF PresenceSpec

-----------------------------------------------------------------------------
(* Presence: the driver who is gone *)

\* Of a driver whom the last event calls online there is a socket that is let in, or a timer
\* that runs or has deleted the key.
Followed ==
  announced = "online" =>
    \E s \in Socket : timer[s] # "off" \/ (s \in open /\ step[s] # "authenticate")

\* Every step that ends a connection leaves a timer, and every step that cancels a timer leaves
\* a connection.
LEMMA FollowedKept ==
  ASSUME Present, undisturbed => Followed, [PresenceNext]_presenceVars, undisturbed'
  PROVE  Followed'
<1> USE DEF PresenceTypeOK, Homed, OneAtATime, Handshakes
<1>0. Present /\ undisturbed /\ OneAtATime /\ Followed
  BY DEF Present, PresenceNext, Runs, handleConnection, setOnline, refuse, isOnline, recordWritten,
         heartbeat, handleDisconnect, setOnlineFails, deleteRecord, announceOffline, TimePasses,
         forgotten, serverStops, presenceVars
<1> SUFFICES ASSUME announced' = "online"
             PROVE  \E s \in Socket : timer'[s] # "off" \/ (s \in open' /\ step'[s] # "authenticate")
  BY DEF Followed
<1>1. ASSUME NEW s \in Socket, NEW v \in Server, handleConnection(s, v)
      PROVE  \E r \in Socket : timer'[r] # "off" \/ (r \in open' /\ step'[r] # "authenticate")
  <2>1. \A r \in open : step'[r] = step[r]
    BY <1>0, <1>1 DEF handleConnection, Present
  <2> QED BY <1>0, <1>1, <2>1 DEF handleConnection, Followed
<1>2. ASSUME NEW s \in Socket, setOnline(s)
      PROVE  \E r \in Socket : timer'[r] # "off" \/ (r \in open' /\ step'[r] # "authenticate")
  <2>1. s \in open' /\ step'[s] # "authenticate"
    BY <1>0, <1>2 DEF setOnline, Present
  <2> QED BY <2>1
<1>3. ASSUME NEW s \in Socket, refuse(s)
      PROVE  \E r \in Socket : timer'[r] # "off" \/ (r \in open' /\ step'[r] # "authenticate")
  BY <1>0, <1>3 DEF refuse, Followed, Present
<1>4. ASSUME NEW s \in Socket, isOnline(s) \/ recordWritten(s)
      PROVE  \E r \in Socket : timer'[r] # "off" \/ (r \in open' /\ step'[r] # "authenticate")
  <2>1. s \in open /\ open' = open
    BY <1>0, <1>4 DEF isOnline, recordWritten, writeRecord
  <2>2. CASE isOnline(s)
    <3>1. PICK next \in {"write", "announce"} : step' = [step EXCEPT ![s] = next]
      BY <2>2 DEF isOnline
    <3>2. step'[s] = next
      BY <1>0, <3>1 DEF Present
    <3> QED BY <2>1, <3>2
  <2>3. CASE recordWritten(s)
    <3>1. step'[s] = "on"
      BY <1>0, <2>3 DEF recordWritten, Present
    <3> QED BY <2>1, <3>1
  <2> QED BY <1>4, <2>2, <2>3
<1>5. ASSUME NEW s \in Socket, handleDisconnect(s)
      PROVE  \E r \in Socket : timer'[r] # "off" \/ (r \in open' /\ step'[r] # "authenticate")
  <2>1. step[s] = "on"
    BY <1>5 DEF handleDisconnect
  <2>2. scheduleOffline(s)
    BY <1>5, <2>1 DEF handleDisconnect
  <2>3. timer'[s] = "runs"
    BY <1>0, <2>2 DEF scheduleOffline, Present
  <2> QED BY <2>3
<1>6. ASSUME NEW s \in Socket, deleteRecord(s)
      PROVE  \E r \in Socket : timer'[r] # "off" \/ (r \in open' /\ step'[r] # "authenticate")
  <2>1. timer'[s] = "deleted"
    BY <1>0, <1>6 DEF deleteRecord, Present
  <2> QED BY <2>1
<1>7. ASSUME NEW s \in Socket, forgotten(s)
      PROVE  \E r \in Socket : timer'[r] # "off" \/ (r \in open' /\ step'[r] # "authenticate")
  BY <1>0, <1>7 DEF forgotten, Followed, Present
<1>8. CASE UNCHANGED <<open, step, timer, announced>>
  BY <1>0, <1>8 DEF Followed
<1>9. ASSUME NEW v \in Server, serverStops(v)
      PROVE  \E r \in Socket : timer'[r] # "off" \/ (r \in open' /\ step'[r] # "authenticate")
  <2>1. \A s \in Socket : home[s] # v
    BY <1>9 DEF serverStops
  <2>2. \A s \in Socket : step'[s] = step[s] /\ timer'[s] = timer[s]
    BY <1>9, <2>1 DEF serverStops
  <2>3. open' = open /\ UNCHANGED announced
    BY <1>9, <2>1 DEF serverStops
  <2> QED BY <1>0, <2>2, <2>3 DEF Followed
<1>10. ASSUME NEW s \in Socket, heartbeat(s) \/ setOnlineFails(s) \/ announceOffline(s)
       PROVE  \E r \in Socket : timer'[r] # "off" \/ (r \in open' /\ step'[r] # "authenticate")
  BY <1>8, <1>10 DEF heartbeat, setOnlineFails, announceOffline
<1> QED
  BY <1>1, <1>2, <1>3, <1>4, <1>5, <1>6, <1>7, <1>8, <1>9, <1>10
     DEF PresenceNext, Runs, TimePasses, presenceVars

\* If nothing goes wrong, a driver of whom neither a socket nor a timer is left has been
\* announced offline: no cancelled timer, refused token or quick reconnection leaves the last
\* event saying online (scheduleOffline, setOnline). What GoneIsAnnounced adds is that the
\* timers go off.
THEOREM GoneHasBeenTold ==
  PresenceSpec =>
    [](/\ undisturbed
       /\ \A s \in Socket : timer[s] = "off" /\ (s \in open => step[s] = "authenticate")
       => announced = "offline")
<1> DEFINE IInv == Present /\ (undisturbed => Followed)
           Told == /\ undisturbed
                   /\ \A s \in Socket : timer[s] = "off" /\ (s \in open => step[s] = "authenticate")
                   => announced = "offline"
<1>1. PresenceInit => IInv
  BY PresenceStarts DEF PresenceInit, Followed
<1>2. IInv /\ [PresenceNext]_presenceVars => IInv'
  BY PresenceTyped, HomedKept, PresenceKept, FollowedKept DEF Present
<1>3. IInv => Told
  BY DEF Followed, Present, PresenceTypeOK
<1> HIDE DEF IInv, Told
<1>4. PresenceSpec => []Told
  BY <1>1, <1>2, <1>3, PTL DEF PresenceSpec
<1> QED BY <1>4 DEF Told
=============================================================================
