----------------------------- MODULE Membership -----------------------------
(***************************************************************************)
(* The members of one company: their rows in user_roles, the number of     *)
(* them that the plan is charged with, and their accounts at Supabase. The *)
(* company's managers, the administrators of the platform and the invited  *)
(* people change them by requests of several steps: a request reads the    *)
(* rows it is about without a lock, then writes them in a transaction, and *)
(* tells Supabase before or after that. An account is known by the person  *)
(* it is of. An invite that expires can no longer be accepted, as one that *)
(* nobody accepts.                                                         *)
(***************************************************************************)
EXTENDS Naturals, Sequences, FiniteSets, Functions

CONSTANTS
  Person,      \* e-mail addresses
  Founder,     \* the one who made the company
  Request,     \* requests there can be in hand at a time
  Limit,       \* team members the plan allows
  MaxRows,     \* bounds of the model: rows ever inserted,
  MaxClashed,  \* persons clashed over,
  MaxShared,   \* shared by two requests
  MaxFailed    \* and left half-way, after which no request begins

ASSUME FounderAssumption == Founder \in Person
ASSUME LimitAssumption == Limit \in Nat \ {0}
ASSUME BoundAssumption == MaxRows \in Nat \ {0} /\ MaxClashed \in Nat /\ MaxShared \in Nat /\ MaxFailed \in Nat

VARIABLES
  rows,        \* the row of each person, if there is one
  count,       \* usages.teamMembersCount
  account,     \* the account of each person at Supabase
  busy,        \* drivers with an open stop on a trip
  request,     \* what each request has left to do, and the entities it has read
  drawn,       \* ids drawn for rows
  shared,      \* history: persons whom two requests had in hand at once,
  clashed,     \* one of them to delete the row or to hand over the company; or who were
               \* assigned a trip while one had the row in hand to write it
  failed,      \* history: persons about whom a request stopped half-way
  promoted     \* history: persons whose role a hand-over has set while they were on a trip

vars == <<rows, count, account, busy, request, drawn, shared, clashed, failed, promoted>>

\* Who has joined is no longer an invited member, however often rows are overwritten.
Row == LET Of(status, joined) == [id : 1..MaxRows, role : {"OWNER", "ADMIN", "DRIVER"},
                                  status : status, joined : joined]
       IN Of({"active", "suspended"}, BOOLEAN) \cup Of({"invited"}, {FALSE})
NoRow == [id |-> 0, role |-> "DRIVER", status |-> "invited", joined |-> FALSE]

MANAGER_ROLES == {"OWNER", "ADMIN"}
ASSIGNABLE_TEAM_ROLES == {"ADMIN", "DRIVER"}

CompanyStep == {"suspendAll", "activateAll"}
AccountStep == {"createUser", "ban", "unban", "deleteUser", "deleteUsers"}

\* What a request may have left to do.
Todo ==
  {<<>>, <<"save">>, <<"save", "ban">>, <<"save", "unban">>, <<"createUser", "save">>,
   <<"update">>, <<"ban", "update">>, <<"unban", "update">>, <<"ban">>, <<"unban">>,
   <<"remove">>, <<"remove", "deleteUser">>, <<"deleteUser">>, <<"handOver">>,
   <<"suspendAll", "ban">>, <<"activateAll", "unban">>, <<"deleteUsers">>}

\* Rows of some persons, as they were read and are to be written.
Entities == UNION {[some -> Row] : some \in SUBSET Person}

Idle == [todo |-> <<>>, read |-> <<>>, begun |-> FALSE]

Exists(p) == rows[p].id # 0
Members == {p \in Person : Exists(p)}
Joined == {p \in Person : rows[p].joined}

\* The persons a request may still change something about.
Holds(r) ==
  IF request[r].todo # <<>> /\ Head(request[r].todo) \in CompanyStep
  THEN Person ELSE DOMAIN request[r].read
InHand(p) == \E r \in Request : p \in Holds(r)

TypeOK ==
  /\ rows \in [Person -> Row \cup {NoRow}]
  /\ count \in 0..Limit
  /\ account \in [Person -> {"none", "open", "banned"}]
  /\ busy \subseteq Person
  /\ request \in [Request -> [todo : Todo, read : Entities, begun : BOOLEAN]]
  /\ drawn \in 1..MaxRows
  /\ shared \subseteq Person /\ clashed \subseteq shared /\ failed \subseteq Person /\ promoted \subseteq Person

\* createCompany: the founder has signed up and becomes the owner.
Init ==
  /\ rows = [p \in Person |-> IF p = Founder
               THEN [id |-> 1, role |-> "OWNER", status |-> "active", joined |-> TRUE] ELSE NoRow]
  /\ count = 1
  /\ account = [p \in Person |-> IF p = Founder THEN "open" ELSE "none"]
  /\ busy = {}
  /\ request = [r \in Request |-> Idle]
  /\ drawn = 1
  /\ shared = {} /\ clashed = {} /\ failed = {} /\ promoted = {}

-----------------------------------------------------------------------------
(* What a request reads and checks first *)

isDriverAssignedToTrip(p) == rows[p].joined /\ p \in busy
neverOnTrip(p) == TRUE
OffTrip(p) == rows[p].role = "DRIVER" => ~isDriverAssignedToTrip(p)

requireManagerRole == \E p \in Joined : rows[p].role \in MANAGER_ROLES

Orderly == /\ Cardinality(clashed) <= MaxClashed
           /\ Cardinality(shared) <= MaxShared /\ Cardinality(failed) <= MaxFailed

Free(r) == Orderly /\ request[r].todo = <<>>

\* Two lists of steps of which one takes away or reassigns what the other writes.
Writes(todo) == Range(todo) \cap {"save", "remove", "handOver"} # {}
Takes(todo) == Range(todo) \cap {"remove", "handOver"} # {}
Clash(todo, other) == (Takes(todo) /\ Writes(other)) \/ (Writes(todo) /\ Takes(other))

\* Request r holds the entities read, changed as they will be written.
Begins(r, todo, read) ==
  LET about == IF Head(todo) \in CompanyStep THEN Person ELSE DOMAIN read
      others(p) == {s \in Request : p \in Holds(s)}
  IN /\ request' = [request EXCEPT ![r] = [todo |-> todo, read |-> read, begun |-> FALSE]]
     /\ shared' = shared \cup {p \in about : others(p) # {}}
     /\ clashed' = clashed \cup {p \in about : \E s \in others(p) : Clash(todo, request[s].todo)}
     /\ UNCHANGED <<rows, count, account, busy, drawn, failed, promoted>>

Entity(p, row) == [q \in {p} |-> row]

cancelInvite(r, p) ==
  /\ requireManagerRole
  /\ Exists(p) /\ rows[p].status = "invited"
  /\ Begins(r, <<"remove">>, Entity(p, rows[p]))

\* A new token; the entity is saved with all it has read.
resendInvite(r, p) ==
  /\ requireManagerRole
  /\ Exists(p) /\ rows[p].status = "invited"
  /\ Begins(r, <<"save">>, Entity(p, rows[p]))

changeMemberRole(r, p, role) ==
  /\ requireManagerRole
  /\ Exists(p) /\ rows[p].role # "OWNER"
  /\ role # "DRIVER" => OffTrip(p)
  /\ Begins(r, <<"save">>, Entity(p, [rows[p] EXCEPT !.role = role]))

onlyActive(p) == rows[p].joined /\ rows[p].status = "active"
hasAccount(p) == rows[p].joined /\ rows[p].status \in {"active", "suspended"}

removeMember(r, p) ==
  /\ requireManagerRole
  /\ Exists(p) /\ rows[p].role # "OWNER" /\ OffTrip(p)
  /\ Begins(r, IF hasAccount(p) THEN <<"remove", "deleteUser">> ELSE <<"remove">>,
            Entity(p, rows[p]))

suspendMember(r, p) ==
  /\ requireManagerRole
  /\ Exists(p) /\ rows[p].role # "OWNER" /\ rows[p].status # "suspended" /\ OffTrip(p)
  /\ Begins(r, IF rows[p].joined THEN <<"save", "ban">> ELSE <<"save">>,
            Entity(p, [rows[p] EXCEPT !.status = "suspended"]))

\* Also of a member who has only been invited.
activateMember(r, p) ==
  /\ requireManagerRole
  /\ Exists(p) /\ rows[p].status # "active"
  /\ Begins(r, IF rows[p].joined THEN <<"save", "unban">> ELSE <<"save">>,
            Entity(p, [rows[p] EXCEPT !.status = "active"]))

accepted(p) == [rows[p] EXCEPT !.status = "active", !.joined = TRUE]

\* The invited person follows the link in the mail.
acceptInvite(r, p) ==
  /\ Exists(p) /\ rows[p].status = "invited"
  /\ Begins(r, <<"createUser", "save">>, Entity(p, accepted(p)))

-----------------------------------------------------------------------------
(* Administrators of the platform, who find a member by the account *)

suspendUser(r, p) ==
  /\ p \in Joined /\ rows[p].role # "OWNER" /\ OffTrip(p)
  /\ Begins(r, <<"ban", "update">>, Entity(p, [rows[p] EXCEPT !.status = "suspended"]))

reactivateUser(r, p) ==
  /\ p \in Joined
  /\ Begins(r, <<"unban", "update">>, Entity(p, [rows[p] EXCEPT !.status = "active"]))

removeUser(r, p) ==
  /\ p \in Joined /\ rows[p].role # "OWNER" /\ OffTrip(p)
  /\ Begins(r, <<"remove", "deleteUser">>, Entity(p, rows[p]))

promotesOnly(owner, p) == [q \in {p} |-> [rows[q] EXCEPT !.role = "OWNER"]]
handsOver(owner, p) ==
  [q \in {owner, p} |-> [rows[q] EXCEPT !.role = IF q = p THEN "OWNER" ELSE "ADMIN"]]

changeOwner(r, owner, p) ==
  /\ Exists(owner) /\ rows[owner].role = "OWNER"
  /\ p \in Joined \ {owner} /\ rows[p].status = "active"
  /\ Begins(r, <<"handOver">>, handsOver(owner, p))

suspendCompany(r) == Begins(r, <<"suspendAll", "ban">>, Restrict(rows, Joined))

reactivateCompany(r) == Begins(r, <<"activateAll", "unban">>, Restrict(rows, Joined))

\* The transaction that should delete the rows is empty: it leaves them without accounts.
deleteCompany(r) ==
  /\ busy = {} /\ Joined # {}
  /\ Begins(r, <<"deleteUsers">>, Restrict(rows, Joined))

-----------------------------------------------------------------------------
(* The database *)

\* The transaction checks the address, locks the usage row and inserts.
incrementTeamMemberCount == count + 1 <= Limit /\ count' = count + 1

inviteMember(p, role) ==
  /\ Orderly /\ requireManagerRole
  /\ ~Exists(p) /\ drawn < MaxRows
  /\ incrementTeamMemberCount
  /\ drawn' = drawn + 1
  /\ rows' = [rows EXCEPT ![p] = [id |-> drawn + 1, role |-> role,
                                  status |-> "invited", joined |-> FALSE]]
  /\ UNCHANGED <<account, busy, request, shared, clashed, failed, promoted>>

Does(r, step) == request[r].todo # <<>> /\ Head(request[r].todo) = step
Rest(work) ==
  IF Len(work.todo) = 1 THEN Idle ELSE [work EXCEPT !.todo = Tail(work.todo), !.begun = TRUE]
NextStep(r) == request' = [request EXCEPT ![r] = Rest(request[r])]

\* TypeORM's save: the row becomes the entity, or is inserted when it has gone; its
\* address must then be nobody else's.
saveInto(p, entity) == IF rows[p].id \in {0, entity.id} THEN entity ELSE rows[p]

save(r) ==
  /\ Does(r, "save")
  /\ rows' = [p \in Person |-> IF p \in DOMAIN request[r].read
                               THEN saveInto(p, request[r].read[p]) ELSE rows[p]]
  /\ LET refused == {p \in DOMAIN request[r].read : rows[p].id \notin {0, request[r].read[p].id}}
     IN IF refused = {} THEN NextStep(r) /\ UNCHANGED failed
        ELSE /\ request' = [request EXCEPT ![r] = Idle]
             /\ failed' = IF request[r].begun THEN failed \cup refused ELSE failed
  /\ UNCHANGED <<count, account, busy, drawn, shared, clashed, promoted>>

\* The members' statuses, or the two members' roles, by a condition on the row.
update(r) ==
  /\ Does(r, "update")
  /\ rows' = [p \in Person |-> IF p \in DOMAIN request[r].read /\ rows[p].joined
                THEN [rows[p] EXCEPT !.status = request[r].read[p].status] ELSE rows[p]]
  /\ NextStep(r)
  /\ UNCHANGED <<count, account, busy, drawn, shared, clashed, failed, promoted>>

handOver(r) ==
  /\ Does(r, "handOver")
  /\ rows' = [p \in Person |->
       IF p \in DOMAIN request[r].read /\ rows[p].id = request[r].read[p].id
       THEN [rows[p] EXCEPT !.role = request[r].read[p].role] ELSE rows[p]]
  /\ promoted' = promoted \cup (busy \cap DOMAIN request[r].read)
  /\ NextStep(r)
  /\ UNCHANGED <<count, account, busy, drawn, shared, clashed, failed>>

updateAll(r, step, status) ==
  /\ Does(r, step)
  /\ rows' = [p \in Person |-> IF Exists(p) THEN [rows[p] EXCEPT !.status = status] ELSE rows[p]]
  /\ NextStep(r)
  /\ UNCHANGED <<count, account, busy, drawn, shared, clashed, failed, promoted>>

suspendAll(r) == updateAll(r, "suspendAll", "suspended")
activateAll(r) == updateAll(r, "activateAll", "active")

decrementForgotten == UNCHANGED count
decrementTeamMemberCount == count' = IF count = 0 THEN 0 ELSE count - 1

\* Deletes by id: nothing when the row has gone, but counted all the same.
remove(r) ==
  /\ Does(r, "remove")
  /\ rows' = [p \in Person |->
       IF p \in DOMAIN request[r].read /\ rows[p].id = request[r].read[p].id THEN NoRow ELSE rows[p]]
  /\ decrementTeamMemberCount
  /\ NextStep(r)
  /\ UNCHANGED <<account, busy, drawn, shared, clashed, failed, promoted>>

-----------------------------------------------------------------------------
(* Supabase *)

Can(step, p) == IF step = "createUser" THEN account[p] = "none" ELSE account[p] # "none"
After(step) ==
  CASE step = "ban" -> "banned" [] step \in {"deleteUser", "deleteUsers"} -> "none" [] OTHER -> "open"

\* Some of the calls succeed. A call that fails before the row is written ends the
\* request and leaves nothing behind.
callSupabase(r, done) ==
  LET step == Head(request[r].todo)
      about == DOMAIN request[r].read
  IN /\ request[r].todo # <<>> /\ step \in AccountStep
     /\ done \subseteq {p \in about : Can(step, p)}
     /\ account' = [p \in Person |-> IF p \in done THEN After(step) ELSE account[p]]
     /\ IF done = about THEN NextStep(r) ELSE request' = [request EXCEPT ![r] = Idle]
     /\ failed' = failed \cup IF step = "deleteUsers" THEN about
                              ELSE IF request[r].begun THEN about \ done ELSE {}
     /\ UNCHANGED <<rows, count, busy, drawn, shared, clashed, promoted>>

\* The process stops, or the transaction is rolled back.
stops(r) ==
  /\ request[r].todo # <<>>
  /\ failed' = IF request[r].begun THEN failed \cup DOMAIN request[r].read ELSE failed
  /\ request' = [request EXCEPT ![r] = Idle]
  /\ UNCHANGED <<rows, count, account, busy, drawn, shared, clashed, promoted>>

-----------------------------------------------------------------------------
(* Trips *)

\* dispatchOrdersToDriver asks for the role and not for the status.
dispatchOrdersToDriver(p) ==
  /\ Orderly
  /\ p \in Joined \ busy /\ rows[p].role = "DRIVER"
  /\ busy' = busy \cup {p}
  /\ LET writers == {r \in Request : p \in Holds(r) /\ Writes(request[r].todo)}
     IN /\ clashed' = IF writers = {} THEN clashed ELSE clashed \cup {p}
        /\ shared' = shared \cup clashed'
  /\ UNCHANGED <<rows, count, account, request, drawn, failed, promoted>>

tripEnds(p) ==
  /\ p \in busy
  /\ busy' = busy \ {p} /\ promoted' = promoted \ {p}
  /\ UNCHANGED <<rows, count, account, request, drawn, shared, clashed, failed>>

-----------------------------------------------------------------------------
TeamRequest(r, p) ==
  \/ cancelInvite(r, p) \/ resendInvite(r, p) \/ acceptInvite(r, p)
  \/ \E role \in ASSIGNABLE_TEAM_ROLES : changeMemberRole(r, p, role)
  \/ removeMember(r, p) \/ suspendMember(r, p) \/ activateMember(r, p)

AdminRequest(r, p) ==
  \/ suspendUser(r, p) \/ reactivateUser(r, p) \/ removeUser(r, p)
  \/ \E owner \in Person : changeOwner(r, owner, p)

CompanyRequest(r) == suspendCompany(r) \/ reactivateCompany(r) \/ deleteCompany(r)

Continues(r) ==
  \/ save(r) \/ update(r) \/ handOver(r) \/ suspendAll(r) \/ activateAll(r) \/ remove(r)
  \/ \E done \in SUBSET Person : callSupabase(r, done)
  \/ stops(r)

Next ==
  \/ \E r \in Request : Continues(r)
  \/ \E r \in Request :
       /\ Free(r)
       /\ CompanyRequest(r) \/ \E p \in Person : TeamRequest(r, p) \/ AdminRequest(r, p)
  \/ \E p \in Person, role \in ASSIGNABLE_TEAM_ROLES : inviteMember(p, role)
  \/ \E p \in Person : dispatchOrdersToDriver(p) \/ tripEnds(p)

Spec == Init /\ [][Next]_vars

-----------------------------------------------------------------------------
\* The number of members the plan is charged with is that of the rows, until somebody has
\* been clashed over: a row removed, say, that another request is about to remove or save.
CountIsRows == clashed = {} => count = Cardinality(Members)

\* A company has one owner, until somebody has been clashed over: until it is handed over,
\* say, while another request is about to write or remove one of the two members.
OneOwner ==
  clashed = {} => \E p \in Members : \A q \in Members : rows[q].role = "OWNER" <=> q = p

\* A member who is in no request's hand, has never been in two requests' and was not left
\* half-way can log in exactly when the row says so: who has joined has an account, closed
\* while suspended, and nobody else has one.
LoginFollowsStatus ==
  \A p \in Person \ (shared \cup failed) :
    ~InHand(p) => account[p] = IF p \notin Joined THEN "none"
                               ELSE IF rows[p].status = "suspended" THEN "banned" ELSE "open"

\* A driver with an open stop stays a driver of the company, unless the trip was assigned
\* while a request was about to write the row, or the company handed over to or by the
\* driver: changeOwner alone does not ask for trips.
BusyDriverStays ==
  \A p \in busy \ (clashed \cup promoted) : p \in Joined /\ rows[p].role = "DRIVER"
=============================================================================
