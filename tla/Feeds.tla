------------------------------- MODULE Feeds -------------------------------
(***************************************************************************)
(* The live lists of one company: a socket subscribes with a query, gets   *)
(* the list, and gets it again soon after an order or a trip has changed.  *)
(* OrdersGateway and TripsGateway differ in where the change is announced  *)
(* and in who drops the cached lists: order events are raised before their *)
(* transaction commits and the gateway drops the entry of each query it    *)
(* reads again; trip events follow the commit, and DispatchService drops   *)
(* the first pages only.                                                   *)
(*                                                                         *)
(* A list is the version of the table it was read from. A read goes        *)
(* through getOrSet, one step for each call to Redis or to the database,   *)
(* with the reads of other people in between. One change is made at a      *)
(* time. Tokens and roles at the connection are left out.                  *)
(***************************************************************************)
EXTENDS Naturals, FiniteSets

CONSTANTS
  Socket,
  Key,         \* keys of the cache: queries of the company's dispatchers
  FirstPage,   \* the ones handleTripUpdated knows
  Refresh,     \* reads of the gateway in hand at a time
  Visit,       \* reads of subscribers and of others in hand at a time
  MaxUpdates   \* bound of the model: changes of the table

ASSUME FeedAssumption ==
  /\ FirstPage \subseteq Key
  /\ Refresh \cap Visit = {}
  /\ MaxUpdates \in Nat

VARIABLES
  feed,        \* "orders" or "trips"
  version,     \* of the committed table
  open,        \* the event is out and the commit is to come, or the other way round
  cached,      \* the version each entry of the cache has, 0 for none
  load,        \* the reads in hand
  due,         \* queries to be read again, with the sockets that asked for them
  pending,     \* a timer is running
  connected,
  sub,         \* the hash of the registry: the query of each socket
  reverse,     \* sockets with a key of their own in the registry
  owed,        \* history: the version a socket is still to get, 0 for none
  leaving,     \* sockets whose company remove has read, and whose entry it has not deleted yet
  orphaned     \* history: sockets whose own key was gone when they left

tableVars == <<feed, version, open>>
registryVars == <<connected, sub, reverse, leaving, orphaned>>
feedVars == <<tableVars, cached, load, due, pending, registryVars, owed>>

Hand == Refresh \cup Visit
Version == 0..MaxUpdates + 1
NoKey == "none"
NoLoad == [at |-> "free", key |-> NoKey, read |-> 0, to |-> {}]

FeedTypeOK ==
  /\ feed \in {"orders", "trips"}
  /\ version \in Version
  /\ open \in BOOLEAN
  /\ cached \in [Key -> Version]
  /\ load \in [Hand -> [at : {"free", "drop", "asked", "read"}, key : Key \cup {NoKey},
                        read : Version, to : SUBSET Socket]]
  /\ due \subseteq [key : Key, to : SUBSET Socket]
  /\ pending \in BOOLEAN
  /\ connected \subseteq Socket
  /\ sub \in [Socket -> Key \cup {NoKey}]
  /\ reverse \subseteq Socket
  /\ owed \in [Socket -> Version]
  /\ leaving \subseteq Socket
  /\ orphaned \subseteq Socket

FeedInit ==
  /\ feed \in {"orders", "trips"}
  /\ version = 1
  /\ open = FALSE
  /\ cached = [k \in Key |-> 0]
  /\ load = [l \in Hand |-> NoLoad]
  /\ due = {}
  /\ pending = FALSE
  /\ connected = {}
  /\ sub = [s \in Socket |-> NoKey]
  /\ reverse = {}
  /\ owed = [s \in Socket |-> 0]
  /\ leaving = {}
  /\ orphaned = {}

Subscribed == {s \in Socket : sub[s] # NoKey}

\* What the gateway owes to a socket, and what it no longer owes.
Owes(sockets) == owed' = [s \in Socket |-> IF s \in sockets THEN version ELSE owed[s]]
Acquits(sockets) == owed' = [s \in Socket |-> IF s \in sockets THEN 0 ELSE owed[s]]

-----------------------------------------------------------------------------
(* Changes and their events *)

\* A gateway that forgets a timer only when its refresh is done.
waitsForRefresh == pending' = (pending \/ (due = {} /\ \A l \in Refresh : load[l].at = "free"))

\* One timer for all the events that come while it runs.
scheduleRefresh == pending' = TRUE

\* handleOrderCreated, handleOrderStatusChanged, handleOrderDeleted: inside the transaction.
orderEvent ==
  /\ feed = "orders" /\ ~open
  /\ version <= MaxUpdates
  /\ open' = TRUE
  /\ scheduleRefresh
  /\ UNCHANGED <<feed, version, cached, load, due, registryVars, owed>>

orderCommit ==
  /\ feed = "orders" /\ open
  /\ open' = FALSE
  /\ version' \in {version, version + 1}
  /\ UNCHANGED <<feed, cached, load, due, pending, registryVars, owed>>

tripCommit ==
  /\ feed = "trips" /\ ~open
  /\ version <= MaxUpdates
  /\ open' = TRUE
  /\ version' = version + 1
  /\ UNCHANGED <<feed, cached, load, due, pending, registryVars, owed>>

handleTripUpdated == cached' = [k \in Key |-> IF k \in FirstPage THEN 0 ELSE cached[k]]

tripEvent ==
  /\ feed = "trips" /\ open
  /\ open' = FALSE
  /\ handleTripUpdated
  /\ scheduleRefresh
  /\ Owes({s \in Subscribed \cap connected : sub[s] \in FirstPage})
  /\ UNCHANGED <<feed, version, load, due, registryVars>>

\* refreshSubscribersForCompany: the sockets are read from the registry and grouped by
\* their query. What is committed by now is owed to them.
refreshSubscribersForCompany ==
  /\ pending
  /\ pending' = FALSE
  /\ due' = due \cup {[key |-> k, to |-> {s \in Socket : sub[s] = k}] : k \in {sub[s] : s \in Subscribed}}
  /\ IF feed = "orders" /\ ~open THEN Owes(Subscribed \cap connected) ELSE UNCHANGED owed
  /\ UNCHANGED <<tableVars, cached, load, registryVars>>

-----------------------------------------------------------------------------
(* Reads *)

Starts(l, at, key, to) ==
  /\ load[l].at = "free"
  /\ load' = [load EXCEPT ![l] = [NoLoad EXCEPT !.at = at, !.key = key, !.to = to]]

\* Each group is read again on its own; the orders' gateway drops the entry first.
readAgain(l) ==
  /\ \E g \in due : /\ due' = due \ {g}
                    /\ Starts(l, IF feed = "orders" THEN "drop" ELSE "asked", g.key, g.to)
  /\ UNCHANGED <<tableVars, cached, pending, registryVars, owed>>

keepsEntry(l) == UNCHANGED cached

invalidateOrdersListCache(l) == cached' = [cached EXCEPT ![load[l].key] = 0]

drop(l) ==
  /\ load[l].at = "drop"
  /\ invalidateOrdersListCache(l)
  /\ load' = [load EXCEPT ![l].at = "asked"]
  /\ UNCHANGED <<tableVars, due, pending, registryVars, owed>>

\* The answer goes to the sockets that are still there.
Gets(l, v) == {s \in load[l].to : owed[s] <= v}

answerFromCache(l) ==
  /\ load[l].at = "asked"
  /\ cached[load[l].key] # 0
  /\ load' = [load EXCEPT ![l] = NoLoad]
  /\ Acquits(Gets(l, cached[load[l].key]))
  /\ UNCHANGED <<tableVars, cached, due, pending, registryVars>>

\* The entry is missing, or Redis does not answer.
compute(l) ==
  /\ load[l].at = "asked"
  /\ load' = [load EXCEPT ![l].at = "read", ![l].read = version]
  /\ UNCHANGED <<tableVars, cached, due, pending, registryVars, owed>>

\* An old list comes to stand where the gateway is about to look: between its drop of the
\* entry and its look, or after the drop that a trip's event has made.
Spoils(l) ==
  IF feed = "orders"
  THEN /\ load[l].read < version
       /\ \E o \in Refresh \ {l} : load[o].at = "asked" /\ load[o].key = load[l].key
  ELSE load[l].read < IF open THEN version - 1 ELSE version

store(l) ==
  /\ load[l].at = "read"
  /\ cached' = [cached EXCEPT ![load[l].key] = load[l].read]
  /\ load' = [load EXCEPT ![l] = NoLoad]
  /\ Acquits(Gets(l, load[l].read) \cup IF Spoils(l) THEN {s \in Socket : sub[s] = load[l].key} ELSE {})
  /\ UNCHANGED <<tableVars, due, pending, registryVars>>

storeFails(l) ==
  /\ load[l].at = "read"
  /\ load' = [load EXCEPT ![l] = NoLoad]
  /\ Acquits(Gets(l, load[l].read))
  /\ UNCHANGED <<tableVars, cached, due, pending, registryVars>>

\* The drop or the database fails: the other groups of the refresh go on.
loadFails(l) ==
  /\ load[l].at \in {"drop", "asked"}
  /\ load' = [load EXCEPT ![l] = NoLoad]
  /\ Acquits(IF l \in Refresh THEN load[l].to ELSE {})
  /\ UNCHANGED <<tableVars, cached, due, pending, registryVars>>

entryExpires(k) ==
  /\ cached[k] # 0
  /\ cached' = [cached EXCEPT ![k] = 0]
  /\ UNCHANGED <<tableVars, load, due, pending, registryVars, owed>>

\* Somebody else reads a list.
browse(l) ==
  /\ \E k \in Key : Starts(l, "asked", k, {})
  /\ UNCHANGED <<tableVars, cached, due, pending, registryVars, owed>>

-----------------------------------------------------------------------------
(* Sockets and the registry *)

handleConnection(s) ==
  /\ s \notin connected \cup Subscribed \cup leaving
  /\ connected' = connected \cup {s}
  /\ UNCHANGED <<tableVars, cached, load, due, pending, sub, reverse, leaving,
                 orphaned, owed>>

\* set of the registry, and the list as it is or as the cache has it.
handleSubscribe(s, l) ==
  /\ s \in connected
  /\ \E k \in Key : sub' = [sub EXCEPT ![s] = k] /\ Starts(l, "asked", k, {s})
  /\ reverse' = reverse \cup {s}
  /\ orphaned' = orphaned \ {s}
  /\ Acquits({s})
  /\ UNCHANGED <<tableVars, cached, due, pending, connected, leaving>>

\* remove of the registry finds the company under the socket's own key, and then deletes both.
remove(s) ==
  IF s \in reverse
  THEN leaving' = leaving \cup {s} /\ UNCHANGED orphaned
  ELSE orphaned' = (IF s \in Subscribed THEN orphaned \cup {s} ELSE orphaned) /\ UNCHANGED leaving

\* A registry that only forgets whose socket it was.
deletesReverse(s) == reverse' = reverse \ {s} /\ UNCHANGED sub

deletesBoth(s) == reverse' = reverse \ {s} /\ sub' = [sub EXCEPT ![s] = NoKey]

removed(s) ==
  /\ s \in leaving
  /\ leaving' = leaving \ {s}
  /\ deletesBoth(s)
  /\ Acquits({s})
  /\ UNCHANGED <<tableVars, cached, load, due, pending, connected, orphaned>>

\* Redis fails, or the process dies with its sockets.
removeFails(s) ==
  /\ s \in leaving
  /\ leaving' = leaving \ {s}
  /\ orphaned' = IF s \in Subscribed THEN orphaned \cup {s} ELSE orphaned
  /\ UNCHANGED <<tableVars, cached, load, due, pending, connected, sub, reverse, owed>>

handleUnsubscribe(s) ==
  /\ s \in connected \ leaving
  /\ remove(s)
  /\ UNCHANGED <<tableVars, cached, load, due, pending, connected, sub, reverse, owed>>

handleDisconnect(s) ==
  /\ s \in connected
  /\ connected' = connected \ {s}
  /\ Acquits({s})
  /\ remove(s)
  /\ UNCHANGED <<tableVars, cached, load, due, pending, sub, reverse>>

\* SUBSCRIPTION_TTL_SECONDS: of the company's hash, and of a socket's own key.
hashExpires ==
  /\ Subscribed # {}
  /\ sub' = [s \in Socket |-> NoKey]
  /\ orphaned' = {}
  /\ Acquits(Socket)
  /\ UNCHANGED <<tableVars, cached, load, due, pending, connected, reverse, leaving>>

reverseExpires(s) ==
  /\ s \in reverse
  /\ reverse' = reverse \ {s}
  /\ UNCHANGED <<tableVars, cached, load, due, pending, connected, sub, leaving,
                 orphaned, owed>>

-----------------------------------------------------------------------------
Changes == orderEvent \/ orderCommit \/ tripCommit \/ tripEvent

Read(l) == drop(l) \/ answerFromCache(l) \/ compute(l) \/ store(l) \/ storeFails(l) \/ loadFails(l)

FeedNext ==
  \/ Changes \/ refreshSubscribersForCompany \/ hashExpires
  \/ \E l \in Refresh : readAgain(l)
  \/ \E l \in Hand : Read(l)
  \/ \E l \in Visit : browse(l) \/ \E s \in Socket : handleSubscribe(s, l)
  \/ \E s \in Socket :
       handleConnection(s) \/ handleUnsubscribe(s) \/ handleDisconnect(s)
       \/ removed(s) \/ removeFails(s) \/ reverseExpires(s)
  \/ \E k \in Key : entryExpires(k)

\* A timer goes off, each group of a refresh is read, and a read goes on or fails.
Fairness ==
  /\ WF_feedVars(refreshSubscribersForCompany)
  /\ WF_feedVars(\E l \in Refresh : readAgain(l))
  /\ \A l \in Hand : WF_feedVars(Read(l))

FeedSpec == FeedInit /\ [][FeedNext]_feedVars /\ Fairness
-----------------------------------------------------------------------------
(* Properties *)

\* Whoever is subscribed when a refresh begins after a commit, or when a trip's event is
\* raised, gets a list of that version or of a later one, unless it leaves, its subscription
\* expires, the refresh fails, or an older read is stored between the drop of the entry and
\* the refresh (Acquits).
EventReachesSubscriber == \A s \in Socket : owed[s] # 0 ~> owed[s] = 0

\* The registry forgets a socket that has left, as soon as its remove is done, unless the
\* socket's own key was gone before it, or Redis failed.
GoneIsForgotten == \A s \in Subscribed : s \in connected \cup leaving \cup orphaned
=============================================================================
