--------------------------- MODULE DriverPresence ---------------------------
(***************************************************************************)
(* The presence of one driver: the sockets the driver's phone opens, the   *)
(* Redis key that says the driver is online, and the timers that delete it *)
(* some time after a socket has closed. The key and its expiry are shared  *)
(* by the server processes, the timers and the map of them are not.        *)
(*                                                                         *)
(* Time is counted in grace periods.                                       *)
(***************************************************************************)
EXTENDS Naturals

CONSTANTS
  Socket,   \* the sockets there can be at a time
  Server,   \* server processes
  Nobody,
  GRACE,    \* OFFLINE_GRACE_MS
  TTL       \* PRESENCE_TTL_SECONDS

ASSUME NobodyAssumption == Nobody \notin Socket \cup Server
ASSUME TimeAssumption == GRACE \in Nat /\ TTL \in Nat /\ 0 < GRACE /\ GRACE < TTL

VARIABLES
  open,        \* the sockets that are connected
  home,        \* the server a socket was accepted by
  step,        \* how far handleConnection has come with it
  timer,       \* its offline timer: it runs until it is due, then deletes, then announces
  left,        \* what is left of the time until the timer is due
  pending,     \* pendingOffline of each server: the socket whose timer it holds
  ttl,         \* what is left of the key's time; 0: there is no key
  announced,   \* the last presence event
  undisturbed  \* history: one socket at a time, heartbeats in time, no failure

presenceVars == <<open, home, step, timer, left, pending, ttl, announced, undisturbed>>

Steps == {"none", "authenticate", "check", "write", "announce", "on"}

online == ttl > 0
Connected(s) == s \in open /\ step[s] = "on"

PresenceTypeOK ==
  /\ open \subseteq Socket
  /\ home \in [Socket -> Server \cup {Nobody}]
  /\ step \in [Socket -> Steps]
  /\ timer \in [Socket -> {"off", "runs", "deleted"}]
  /\ left \in [Socket -> 0..GRACE]
  /\ pending \in [Server -> Socket \cup {Nobody}]
  /\ ttl \in 0..TTL
  /\ announced \in {"online", "offline"}
  /\ undisturbed \in BOOLEAN

PresenceInit ==
  /\ open = {}
  /\ home = [s \in Socket |-> Nobody]
  /\ step = [s \in Socket |-> "none"]
  /\ timer = [s \in Socket |-> "off"]
  /\ left = [s \in Socket |-> 0]
  /\ pending = [v \in Server |-> Nobody]
  /\ ttl = 0
  /\ announced = "offline"
  /\ undisturbed = TRUE

-----------------------------------------------------------------------------
(* DriverPresenceGateway.handleConnection and DriverPresenceService.setOnline *)

\* A socket is accepted. The phone opens a new one although the server may not
\* have noticed yet that the last one is dead.
handleConnection(s, v) ==
  /\ s \notin open /\ step[s] = "none" /\ timer[s] = "off"
  /\ open' = open \cup {s}
  /\ home' = [home EXCEPT ![s] = v]
  /\ step' = [step EXCEPT ![s] = "authenticate"]
  /\ undisturbed' = (undisturbed /\ open = {}
                       /\ \A r \in Socket : timer[r] # "off" => home[r] = v)
  /\ UNCHANGED <<timer, left, pending, ttl, announced>>

setOnlineBesideTimer(s) ==
  /\ step[s] = "authenticate"
  /\ step' = [step EXCEPT ![s] = "check"]
  /\ UNCHANGED <<open, home, timer, left, pending, ttl, announced, undisturbed>>

\* The token is verified, whether or not the socket is still there. A pending
\* offline timer is cancelled, and that is all then: the key is left as it is.
setOnline(s) ==
  LET v == home[s]  r == pending[v] IN
  /\ step[s] = "authenticate"
  /\ IF r # Nobody
     THEN /\ timer' = [timer EXCEPT ![r] = "off"]
          /\ pending' = [pending EXCEPT ![v] = Nobody]
          /\ step' = [step EXCEPT ![s] = "on"]
     ELSE /\ step' = [step EXCEPT ![s] = "check"]
          /\ UNCHANGED <<timer, pending>>
  /\ UNCHANGED <<open, home, left, ttl, announced, undisturbed>>

\* The token is bad or the user no driver: nothing is scheduled.
refuse(s) ==
  /\ step[s] = "authenticate"
  /\ step' = [step EXCEPT ![s] = "on"]
  /\ open' = open \ {s}
  /\ UNCHANGED <<home, timer, left, pending, ttl, announced, undisturbed>>

\* isOnline is read, and taken for no if Redis cannot be asked, ...
isOnline(s) ==
  /\ step[s] = "check"
  /\ \E wasAlreadyOnline \in {online, FALSE} :
       step' = [step EXCEPT ![s] = IF wasAlreadyOnline THEN "write" ELSE "announce"]
  /\ UNCHANGED <<open, home, timer, left, pending, ttl, announced, undisturbed>>

\* ... and the key is written with its time to live,
writeRecord(s) ==
  /\ step[s] \in {"write", "announce"}
  /\ ttl' = TTL

\* and the driver announced unless there was a key before.
recordWritten(s) ==
  /\ writeRecord(s)
  /\ announced' = IF step[s] = "announce" THEN "online" ELSE announced
  /\ step' = [step EXCEPT ![s] = "on"]
  /\ UNCHANGED <<open, home, timer, left, pending, undisturbed>>

\* A key that has expired is not brought back.
heartbeat(s) ==
  /\ s \in open /\ step[s] # "authenticate"
  /\ online
  /\ ttl' = TTL
  /\ UNCHANGED <<open, home, step, timer, left, pending, announced, undisturbed>>

-----------------------------------------------------------------------------
(* handleDisconnect and scheduleOffline *)

\* The timer of an earlier socket is forgotten by the map, but runs on.
scheduleOffline(s) ==
  /\ timer' = [timer EXCEPT ![s] = "runs"]
  /\ left' = [left EXCEPT ![s] = GRACE]
  /\ pending' = [pending EXCEPT ![home[s]] = s]

\* Before the token is verified a disconnection is ignored, and the connection
\* is completed all the same.
handleDisconnect(s) ==
  /\ s \in open
  /\ open' = open \ {s}
  /\ IF step[s] = "authenticate"
     THEN UNCHANGED <<timer, left, pending>>
     ELSE scheduleOffline(s)
  /\ undisturbed' = (undisturbed /\ step[s] = "on" /\ ttl > GRACE)
  /\ UNCHANGED <<home, step, ttl, announced>>

\* What setOnline throws, the gateway answers by disconnecting the socket.
setOnlineFails(s) ==
  /\ step[s] \in {"check", "write", "announce"}
  /\ step' = [step EXCEPT ![s] = "on"]
  /\ open' = open \ {s}
  /\ IF s \in open THEN scheduleOffline(s) ELSE UNCHANGED <<timer, left, pending>>
  /\ undisturbed' = FALSE
  /\ UNCHANGED <<home, ttl, announced>>

\* The timer forgets whatever timer the map holds by now and deletes the key ...
deleteRecord(s) ==
  /\ timer[s] = "runs" /\ left[s] = 0
  /\ pending' = [pending EXCEPT ![home[s]] = Nobody]
  /\ \/ /\ ttl' = 0
        /\ timer' = [timer EXCEPT ![s] = "deleted"]
        /\ UNCHANGED undisturbed
     \/ /\ timer' = [timer EXCEPT ![s] = "off"]   \* Redis fails: the event is lost
        /\ undisturbed' = FALSE
        /\ UNCHANGED ttl
  /\ UNCHANGED <<open, home, step, left, announced>>

announceOnlyWithStops(s) ==
  /\ timer[s] = "deleted"
  /\ announced' \in {"offline", announced}
  /\ timer' = [timer EXCEPT ![s] = "off"]
  /\ UNCHANGED <<open, home, step, left, pending, ttl, undisturbed>>

\* ... and announces it after it has looked for active stops in the database.
announceOffline(s) ==
  /\ timer[s] = "deleted"
  /\ announced' = "offline"
  /\ timer' = [timer EXCEPT ![s] = "off"]
  /\ UNCHANGED <<open, home, step, left, pending, ttl, undisturbed>>

-----------------------------------------------------------------------------
(* The sockets' ids are free again; time passes; a server process dies. *)

forgotten(s) ==
  /\ s \notin open /\ step[s] = "on" /\ timer[s] = "off"
  /\ step' = [step EXCEPT ![s] = "none"]
  /\ home' = [home EXCEPT ![s] = Nobody]
  /\ UNCHANGED <<open, timer, left, pending, ttl, announced, undisturbed>>

neverExpires(n) == n

\* The key is set with an expiry.
expires(n) == IF n = 0 THEN 0 ELSE n - 1

less(n) == IF n = 0 THEN 0 ELSE n - 1

\* A timer that is due fires before more time passes. Heartbeats come in
\* time if the key does not run out under a connected driver and has more than
\* the grace period left when a connection closes.
TimePasses ==
  /\ \A s \in Socket : timer[s] = "runs" => left[s] > 0
  /\ online \/ \E s \in Socket : left[s] > 0
  /\ ttl' = expires(ttl)
  /\ left' = [s \in Socket |-> less(left[s])]
  /\ undisturbed' = (undisturbed /\ ((\E s \in Socket : Connected(s)) => ttl' > 0))
  /\ UNCHANGED <<open, home, step, timer, pending, announced>>

serverStops(v) ==
  LET lost == {s \in Socket : home[s] = v} IN
  /\ open' = open \ lost
  /\ home' = [s \in Socket |-> IF s \in lost THEN Nobody ELSE home[s]]
  /\ step' = [s \in Socket |-> IF s \in lost THEN "none" ELSE step[s]]
  /\ timer' = [s \in Socket |-> IF s \in lost THEN "off" ELSE timer[s]]
  /\ pending' = [pending EXCEPT ![v] = Nobody]
  /\ undisturbed' = (undisturbed /\ lost = {})
  /\ UNCHANGED <<left, ttl, announced>>

Runs(s) == setOnline(s) \/ isOnline(s) \/ recordWritten(s)
           \/ deleteRecord(s) \/ announceOffline(s)

PresenceNext ==
  \/ \E s \in Socket :
       \/ \E v \in Server : handleConnection(s, v)
       \/ Runs(s) \/ refuse(s)
       \/ heartbeat(s) \/ handleDisconnect(s) \/ setOnlineFails(s) \/ forgotten(s)
  \/ TimePasses
  \/ \E v \in Server : serverStops(v)

PresenceSpec == PresenceInit /\ [][PresenceNext]_presenceVars

\* Time passes, and a server goes on with what it has begun.
PresenceFairness == WF_presenceVars(TimePasses) /\ \A s \in Socket : WF_presenceVars(Runs(s))

FairPresence == PresenceSpec /\ PresenceFairness

-----------------------------------------------------------------------------
\* A driver connected by one socket at a time whose heartbeats come in time is
\* online, through every reconnection within or after the grace period: neither
\* a cancelled timer nor one that has just fired takes the key away.
OnlineWhileConnected ==
  undisturbed => \A s \in Socket : Connected(s) => online

\* A driver who is gone for good goes offline, also when a server died with the
\* timer, two sockets overlapped or Redis refused the delete: "the TTL will
\* eventually clean up".
GoneIsOffline == <>[](open = {}) => <>[](~online)

\* If nothing went wrong the last event then says so.
GoneIsAnnounced == [](undisturbed) /\ <>[](open = {}) => <>[](announced = "offline")
=============================================================================
