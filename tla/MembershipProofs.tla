-------------------------- MODULE MembershipProofs --------------------------
(***************************************************************************)
(* What holds of a company's members for any number of people and of       *)
(* requests at a time.                                                     *)
(***************************************************************************)
EXTENDS Membership, FiniteSetTheorems, TLAPS

LEMMA Lists ==
  /\ <<>> \in Todo /\ DOMAIN <<>> = {} /\ Range(<<>>) = {}
  /\ \A t \in Todo : t # <<>> =>
       /\ Tail(t) \in Todo /\ Head(t) \in Range(t)
       /\ Range(Tail(t)) \subseteq Range(t)
       /\ Len(t) = 1 <=> Tail(t) = <<>>
<1>1. \A a : /\ Tail(<<a>>) = <<>> /\ Head(<<a>>) = a /\ Range(<<a>>) = {a} /\ Len(<<a>>) = 1
  BY DEF Range
<1>2. \A a, b : /\ Tail(<<a, b>>) = <<b>> /\ Head(<<a, b>>) = a
                /\ Range(<<a, b>>) = {a, b} /\ Len(<<a, b>>) = 2
  BY DEF Range
<1>3. <<>> \in Todo /\ DOMAIN <<>> = {} /\ Range(<<>>) = {}
  BY DEF Todo, Range
<1>4. ASSUME NEW t \in Todo, t # <<>>
      PROVE  /\ Tail(t) \in Todo /\ Head(t) \in Range(t)
             /\ Range(Tail(t)) \subseteq Range(t)
             /\ Len(t) = 1 <=> Tail(t) = <<>>
  <2>1. \/ \E a : t = <<a>>
        \/ \E a, b : t = <<a, b>> /\ <<b>> \in Todo
    BY <1>4 DEF Todo
  <2>2. CASE \E a : t = <<a>>
    BY <1>1, <1>3, <2>2
  <2>3. CASE \E a, b : t = <<a, b>> /\ <<b>> \in Todo
    BY <1>1, <1>2, <2>3
  <2>4. QED
    BY <2>1, <2>2, <2>3
<1>5. QED
  BY <1>3, <1>4

\* Who has joined is no longer an invited member.
LEMMA Rows ==
  Row = {row \in [id : 1..MaxRows, role : {"OWNER", "ADMIN", "DRIVER"},
                  status : {"active", "invited", "suspended"}, joined : BOOLEAN] :
           row.joined => row.status # "invited"}
<1> DEFINE All == {row \in [id : 1..MaxRows, role : {"OWNER", "ADMIN", "DRIVER"},
                           status : {"active", "invited", "suspended"}, joined : BOOLEAN] :
                     row.joined => row.status # "invited"}
<1>1. ASSUME NEW row \in Row PROVE row \in All
  BY DEF Row
<1>2. ASSUME NEW row \in All PROVE row \in Row
  BY DEF Row
<1>3. QED
  BY <1>1, <1>2

-----------------------------------------------------------------------------
(* Types. The status that an update will write is one it may write. *)

Held ==
  \A r \in Request :
    /\ request[r].todo = <<>> => DOMAIN request[r].read = {}
    /\ "update" \in Range(request[r].todo) =>
         \A p \in DOMAIN request[r].read : request[r].read[p].status # "invited"

Stands == TypeOK /\ Held

Work == [todo : Todo, read : Entities, begun : BOOLEAN]

LEMMA Values ==
  /\ Idle \in Work /\ Idle.todo = <<>> /\ DOMAIN Idle.read = {}
  /\ \A p \in Person, row \in Row : Entity(p, row) \in Entities
  /\ \A read \in Entities : DOMAIN read \subseteq Person /\ \A p \in DOMAIN read : read[p] \in Row
<1>1. <<>> \in Entities
  <2>1. <<>> \in [{} -> Row]
    OBVIOUS
  <2>2. QED
    BY <2>1 DEF Entities
<1>2. \A some \in SUBSET Person : [some -> Row] \subseteq Entities
  BY DEF Entities
<1>3. ASSUME NEW p \in Person, NEW row \in Row PROVE Entity(p, row) \in Entities
  <2>1. Entity(p, row) \in [{p} -> Row]
    BY DEF Entity
  <2>2. QED
    BY <1>2, <2>1
<1>4. Idle \in Work /\ Idle.todo = <<>> /\ DOMAIN Idle.read = {}
  BY <1>1, Lists DEF Idle, Work
<1>5. QED
  BY <1>3, <1>4 DEF Entities

\* A row that is there is a Row, and who has joined has one.
LEMMA RowThere ==
  ASSUME TypeOK, NEW p \in Person
  PROVE  /\ Exists(p) => rows[p] \in Row
         /\ rows[p].joined => rows[p] \in Row
         /\ rows[p].status # "invited" => rows[p] \in Row
         /\ rows[p] \in Row => Exists(p)
         /\ rows[p].role # "DRIVER" => rows[p] \in Row
<1>1. rows[p] \in Row \cup {NoRow}
  BY DEF TypeOK
<1>2. QED
  BY <1>1, BoundAssumption, Rows DEF Exists, NoRow

LEMMA Starting ==
  ASSUME NEW r \in Request, NEW todo \in Todo \ {<<>>}, NEW read \in Entities,
         Stands, Begins(r, todo, read),
         "update" \in Range(todo) => \A p \in DOMAIN read : read[p].status # "invited"
  PROVE  Stands'
<1>1. request' \in [Request -> Work] /\ request'[r] = [todo |-> todo, read |-> read, begun |-> FALSE]
  BY DEF Stands, TypeOK, Begins, Work
<1>2. \A s \in Request : s # r => request'[s] = request[s]
  BY DEF Stands, TypeOK, Begins
<1>3. shared' \subseteq Person /\ clashed' \subseteq shared'
  <2>1. DOMAIN read \subseteq Person
    BY Values
  <2>2. QED
    BY <2>1 DEF Stands, TypeOK, Begins
<1>4. TypeOK'
  BY <1>1, <1>3 DEF Stands, TypeOK, Begins, Work
<1>5. QED
  BY <1>1, <1>2, <1>4 DEF Stands, Held

Goes(r) == NextStep(r) \/ request' = [request EXCEPT ![r] = Idle]

\* What becomes of the requests when r takes a step or ends.
LEMMA Going ==
  ASSUME NEW r \in Request, Stands, request[r].todo # <<>>, Goes(r)
  PROVE  /\ request' \in [Request -> Work]
         /\ \A s \in Request : s # r => request'[s] = request[s]
         /\ request'[r].todo \in {<<>>, Tail(request[r].todo)}
         /\ Range(request'[r].todo) \subseteq Range(request[r].todo)
         /\ request'[r].read = request[r].read \/ DOMAIN request'[r].read = {}
         /\ request'[r].read = request[r].read \/ request'[r] = Idle
         /\ Held'
<1> DEFINE work == request[r]
           next == [work EXCEPT !.todo = Tail(work.todo), !.begun = TRUE]
<1>1. work \in Work /\ request \in [Request -> Work]
  BY DEF Stands, TypeOK, Work
<1>2. /\ Tail(work.todo) \in Todo
      /\ Range(Tail(work.todo)) \subseteq Range(work.todo)
      /\ Range(<<>>) = {}
  BY <1>1, Lists DEF Work
<1>3. next \in Work /\ next.todo = Tail(work.todo) /\ next.read = work.read
  BY <1>1, <1>2 DEF Work
<1>4. /\ request' \in [Request -> Work]
      /\ \A s \in Request : s # r => request'[s] = request[s]
      /\ request'[r] = Idle \/ (request'[r] = next /\ Len(work.todo) # 1)
  <2>1. CASE NextStep(r)
    BY <1>1, <1>3, <2>1, Values DEF NextStep, Rest
  <2>2. CASE request' = [request EXCEPT ![r] = Idle]
    BY <1>1, <2>2, Values
  <2>3. QED
    BY <2>1, <2>2 DEF Goes
<1>5. Len(work.todo) # 1 => Tail(work.todo) # <<>>
  BY <1>1, Lists DEF Work
<1>6. /\ request'[r].todo \in {<<>>, Tail(work.todo)}
      /\ Range(request'[r].todo) \subseteq Range(work.todo)
      /\ request'[r].read = work.read \/ DOMAIN request'[r].read = {}
      /\ request'[r].read = work.read \/ request'[r] = Idle
  BY <1>2, <1>3, <1>4, Values
<1>7. Held'
  <2> SUFFICES ASSUME NEW s \in Request
               PROVE  /\ request'[s].todo = <<>> => DOMAIN request'[s].read = {}
                      /\ "update" \in Range(request'[s].todo) =>
                           \A p \in DOMAIN request'[s].read : request'[s].read[p].status # "invited"
    BY DEF Held
  <2>1. CASE s # r
    BY <1>4, <2>1 DEF Stands, Held
  <2>2. CASE s = r /\ request'[r] = Idle
    BY <1>2, <2>2, Values
  <2>3. CASE s = r /\ request'[r] = next /\ Len(work.todo) # 1
    BY <1>2, <1>3, <1>5, <2>3 DEF Stands, Held
  <2>4. QED
    BY <1>4, <2>1, <2>2, <2>3
<1>8. QED
  BY <1>4, <1>6, <1>7

\* The lists with which requests begin.
Saving == {<<"save">>, <<"save", "ban">>, <<"save", "unban">>, <<"createUser", "save">>}
Removing == {<<"remove">>, <<"remove", "deleteUser">>}
Updating == {<<"ban", "update">>, <<"unban", "update">>}
Sweeping == {<<"suspendAll", "ban">>, <<"activateAll", "unban">>, <<"deleteUsers">>}
Opening == Saving \cup Removing \cup Updating \cup Sweeping \cup {<<"handOver">>}

LEMMA Openings ==
  /\ Opening \subseteq Todo \ {<<>>}
  /\ \A t \in Opening \ Updating : "update" \notin Range(t)
<1>1. \A a : Range(<<a>>) = {a}
  BY DEF Range
<1>2. \A a, b : Range(<<a, b>>) = {a, b}
  BY DEF Range
<1>3. \A t \in Opening \ Updating : "update" \notin Range(t)
  BY <1>1, <1>2 DEF Opening, Saving, Removing, Updating, Sweeping
<1>4. Opening \subseteq Todo \ {<<>>}
  BY DEF Opening, Saving, Removing, Updating, Sweeping, Todo
<1>5. QED
  BY <1>3, <1>4

\* What a request about one member takes in hand: the row, with another role or status but
\* still or still not the owner, and a driver on a trip stays one.
InHandAs(p, todo, row) ==
  /\ rows[p].id = row.id /\ rows[p] \in Row
  /\ row.role = "OWNER" <=> rows[p].role = "OWNER"
  /\ rows[p].joined => row.joined
  /\ todo \in Removing => rows[p].role # "OWNER" \/ ~rows[p].joined
  /\ p \in busy /\ rows[p].joined /\ rows[p].role = "DRIVER" =>
       todo \notin Removing /\ row.role = "DRIVER"

LEMMA TeamKeeps ==
  ASSUME Stands, NEW r \in Request, NEW p \in Person, TeamRequest(r, p)
  PROVE  \E todo \in Saving \cup Removing, row \in Row :
           Begins(r, todo, Entity(p, row)) /\ InHandAs(p, todo, row)
<1> USE RowThere, Rows DEF Stands, InHandAs, OffTrip, isDriverAssignedToTrip, Saving, Removing
<1>1. CASE cancelInvite(r, p) \/ resendInvite(r, p)
  BY <1>1 DEF cancelInvite, resendInvite, Saving, Removing
<1>2. CASE \E role \in ASSIGNABLE_TEAM_ROLES : changeMemberRole(r, p, role)
  <2>1. PICK role \in ASSIGNABLE_TEAM_ROLES : changeMemberRole(r, p, role)
    BY <1>2
  <2>2. [rows[p] EXCEPT !.role = role] \in Row
    BY <2>1, Rows DEF changeMemberRole, ASSIGNABLE_TEAM_ROLES
  <2>3. InHandAs(p, <<"save">>, [rows[p] EXCEPT !.role = role])
    BY <2>1 DEF changeMemberRole, ASSIGNABLE_TEAM_ROLES
  <2>4. <<"save">> \in Saving
    OBVIOUS
  <2>5. QED
    BY <2>1, <2>2, <2>3, <2>4 DEF changeMemberRole
<1>3. CASE removeMember(r, p)
  BY <1>3 DEF removeMember, Removing
<1>4. CASE suspendMember(r, p)
  <2>1. [rows[p] EXCEPT !.status = "suspended"] \in Row
    BY <1>4, Rows DEF suspendMember
  <2>2. QED
    BY <1>4, <2>1 DEF suspendMember, Saving
<1>5. CASE activateMember(r, p)
  <2>1. [rows[p] EXCEPT !.status = "active"] \in Row
    BY <1>5, Rows DEF activateMember
  <2>2. PICK todo \in {<<"save">>, <<"save", "unban">>} :
               Begins(r, todo, Entity(p, [rows[p] EXCEPT !.status = "active"]))
    BY <1>5 DEF activateMember
  <2>3. InHandAs(p, todo, [rows[p] EXCEPT !.status = "active"])
    BY <1>5, <2>1 DEF activateMember
  <2>4. QED
    BY <2>1, <2>2, <2>3
<1>6. CASE acceptInvite(r, p)
  <2>1. accepted(p) \in Row
    BY <1>6, Rows DEF acceptInvite, accepted
  <2>2. accepted(p).id = rows[p].id /\ accepted(p).role = rows[p].role /\ accepted(p).joined
    BY <1>6 DEF acceptInvite, accepted
  <2>3. ~rows[p].joined /\ rows[p] \in Row
    BY <1>6 DEF acceptInvite
  <2>4. InHandAs(p, <<"createUser", "save">>, accepted(p))
    BY <2>2, <2>3 DEF InHandAs
  <2>5. <<"createUser", "save">> \in Saving
    BY DEF Saving
  <2>6. QED
    BY <1>6, <2>1, <2>4, <2>5 DEF acceptInvite
<1>7. QED
  BY <1>1, <1>2, <1>3, <1>4, <1>5, <1>6 DEF TeamRequest

LEMMA AdminKeeps ==
  ASSUME Stands, NEW r \in Request, NEW p \in Person, AdminRequest(r, p)
  PROVE  \/ \E todo \in Updating \cup Removing, row \in Row :
              /\ row.status # "invited" /\ Begins(r, todo, Entity(p, row))
              /\ InHandAs(p, todo, row)
         \/ \E owner \in Person : /\ changeOwner(r, owner, p)
                                  /\ handsOver(owner, p) \in Entities
                                  /\ Begins(r, <<"handOver">>, handsOver(owner, p))
<1> USE RowThere, Rows DEF Stands, InHandAs, OffTrip, isDriverAssignedToTrip, Updating, Removing
<1>1. CASE suspendUser(r, p)
  <2>1. [rows[p] EXCEPT !.status = "suspended"] \in Row
    BY <1>1, Rows DEF suspendUser, Joined
  <2>2. QED
    BY <1>1, <2>1, Rows DEF suspendUser, Updating, Joined
<1>2. CASE reactivateUser(r, p)
  <2>1. [rows[p] EXCEPT !.status = "active"] \in Row
    BY <1>2, Rows DEF reactivateUser, Joined
  <2>2. QED
    BY <1>2, <2>1, Rows DEF reactivateUser, Updating, Joined
<1>3. CASE removeUser(r, p)
  BY <1>3, Rows DEF removeUser, Removing, Joined
<1>4. CASE \E owner \in Person : changeOwner(r, owner, p)
  <2>1. PICK owner \in Person : changeOwner(r, owner, p)
    BY <1>4
  <2>2. rows[owner] \in Row /\ rows[p] \in Row
    BY <2>1 DEF changeOwner, Joined
  <2>3. handsOver(owner, p) \in [{owner, p} -> Row]
    BY <2>2, Rows DEF handsOver
  <2>4. handsOver(owner, p) \in Entities
    BY <2>3 DEF Entities
  <2>5. QED
    BY <2>1, <2>4 DEF changeOwner
<1>5. QED
  BY <1>1, <1>2, <1>3, <1>4 DEF AdminRequest

LEMMA CompanyKeeps ==
  ASSUME Stands, NEW r \in Request, CompanyRequest(r)
  PROVE  \E todo \in Sweeping, read \in Entities : Begins(r, todo, read)
<1>1. Restrict(rows, Joined) \in [Joined -> Row]
  BY RowThere DEF Restrict, Joined, Stands
<1>2. Restrict(rows, Joined) \in Entities
  BY <1>1 DEF Entities, Joined
<1>3. QED
  BY <1>2 DEF CompanyRequest, suspendCompany, reactivateCompany, deleteCompany, Sweeping

LEMMA BeginningStands ==
  ASSUME Stands, NEW r \in Request,
         (\E p \in Person : TeamRequest(r, p) \/ AdminRequest(r, p)) \/ CompanyRequest(r)
  PROVE  Stands'
<1>1. ASSUME NEW p \in Person, TeamRequest(r, p) PROVE Stands'
  <2>1. PICK todo \in Saving \cup Removing, row \in Row : Begins(r, todo, Entity(p, row))
    BY <1>1, TeamKeeps
  <2>2. todo \in Todo \ {<<>>} /\ "update" \notin Range(todo) /\ Entity(p, row) \in Entities
    <3>1. todo \in Opening /\ todo \notin Updating
      BY DEF Opening, Saving, Removing, Updating
    <3>2. QED
      BY <3>1, Openings, Values
  <2>3. QED
    BY <2>1, <2>2, Starting
<1>2. ASSUME NEW p \in Person, AdminRequest(r, p) PROVE Stands'
  <2>1. CASE \E todo \in Updating \cup Removing, row \in Row :
               row.status # "invited" /\ Begins(r, todo, Entity(p, row))
    <3>1. PICK todo \in Updating \cup Removing, row \in Row :
                 row.status # "invited" /\ Begins(r, todo, Entity(p, row))
      BY <2>1
    <3>2. todo \in Todo \ {<<>>} /\ Entity(p, row) \in Entities
      BY Openings, Values DEF Opening
    <3>3. \A q \in DOMAIN Entity(p, row) : Entity(p, row)[q].status # "invited"
      BY <3>1 DEF Entity
    <3>4. QED
      BY <3>1, <3>2, <3>3, Starting
  <2>2. CASE \E owner \in Person : /\ handsOver(owner, p) \in Entities
                                  /\ Begins(r, <<"handOver">>, handsOver(owner, p))
    <3>1. <<"handOver">> \in Todo \ {<<>>} /\ "update" \notin Range(<<"handOver">>)
      BY Openings DEF Opening, Updating
    <3>2. QED
      BY <2>2, <3>1, Starting
  <2>3. QED
    BY <1>2, <2>1, <2>2, AdminKeeps
<1>3. CASE CompanyRequest(r)
  <2>1. PICK todo \in Sweeping, read \in Entities : Begins(r, todo, read)
    BY <1>3, CompanyKeeps
  <2>2. todo \in Todo \ {<<>>} /\ "update" \notin Range(todo)
    <3>1. todo \in Opening /\ todo \notin Updating
      BY DEF Opening, Sweeping, Updating
    <3>2. QED
      BY <3>1, Openings
  <2>3. QED
    BY <2>1, <2>2, Starting
<1>4. QED
  BY <1>1, <1>2, <1>3

\* The rows as the steps leave them.
LEMMA RowsStay ==
  ASSUME Stands, NEW r \in Request, NEW p \in Person,
         \/ save(r) \/ update(r) \/ handOver(r) \/ suspendAll(r) \/ activateAll(r) \/ remove(r)
  PROVE  rows'[p] \in Row \cup {NoRow}
<1> DEFINE read == request[r].read
<1>1. rows[p] \in Row \cup {NoRow} /\ NoRow.joined = FALSE
  BY DEF Stands, TypeOK, NoRow
<1>2. p \in DOMAIN read => read[p] \in Row
  BY Values DEF Stands, TypeOK
<1>3. CASE save(r)
  BY <1>1, <1>2, <1>3 DEF save, saveInto
<1>4. CASE update(r)
  <2>1. "update" \in Range(request[r].todo)
    BY <1>4, Lists DEF update, Does, Stands, TypeOK
  <2>2. p \in DOMAIN read => read[p].status \in {"active", "suspended"}
    BY <1>2, <2>1, Rows DEF Stands, Held
  <2>3. QED
    BY <1>1, <1>4, <2>2, Rows DEF update
<1>5. CASE handOver(r)
  <2>1. p \in DOMAIN read /\ rows[p].id = read[p].id => rows[p] \in Row
    BY <1>1, <1>2, BoundAssumption, Rows DEF NoRow
  <2>2. QED
    BY <1>1, <1>2, <1>5, <2>1, Rows DEF handOver
<1>6. CASE suspendAll(r) \/ activateAll(r)
  BY <1>1, <1>6, RowThere, Rows DEF suspendAll, activateAll, updateAll, Stands
<1>7. CASE remove(r)
  BY <1>1, <1>7 DEF remove
<1>8. QED
  BY <1>3, <1>4, <1>5, <1>6, <1>7

LEMMA ContinuingStands ==
  ASSUME Stands, NEW r \in Request, Continues(r)
  PROVE  /\ Stands'
         /\ request[r].todo # <<>> /\ Goes(r)
<1>1. request[r].todo # <<>> /\ Goes(r)
  BY DEF Continues, save, update, handOver, suspendAll, activateAll, updateAll, remove,
         callSupabase, stops, Does, Goes
<1>2. request' \in [Request -> Work] /\ Held'
  BY <1>1, Going
<1>3. rows' \in [Person -> Row \cup {NoRow}]
  <2>1. CASE \/ save(r) \/ update(r) \/ handOver(r) \/ suspendAll(r) \/ activateAll(r) \/ remove(r)
    <3>1. DOMAIN rows' = Person
      BY <2>1 DEF save, update, handOver, suspendAll, activateAll, updateAll, remove
    <3>2. \E f : rows' = [q \in Person |-> f[q]]
      <4>1. rows' = [q \in Person |-> rows'[q]]
        BY <2>1, Zenon DEF save, update, handOver, suspendAll, activateAll, updateAll, remove
      <4>2. QED
        BY <4>1
    <3>3. QED
      BY <2>1, <3>1, <3>2, RowsStay
  <2>2. CASE (\E done \in SUBSET Person : callSupabase(r, done)) \/ stops(r)
    BY <2>2 DEF callSupabase, stops, Stands, TypeOK
  <2>3. QED
    BY <2>1, <2>2 DEF Continues
<1>4. count' \in 0..Limit
  BY LimitAssumption DEF Continues, save, update, handOver, suspendAll, activateAll, updateAll,
         remove, decrementTeamMemberCount, callSupabase, stops, Stands, TypeOK
<1>5. account' \in [Person -> {"none", "open", "banned"}]
  BY DEF Continues, save, update, handOver, suspendAll, activateAll, updateAll,
         remove, callSupabase, After, stops, Stands, TypeOK
<1>6. DOMAIN request[r].read \subseteq Person
  BY Values DEF Stands, TypeOK
<1>7. /\ busy' = busy /\ drawn' = drawn /\ shared' = shared /\ clashed' = clashed
      /\ failed' \subseteq Person /\ promoted' \subseteq Person
  BY <1>6 DEF Continues, save, update, handOver, suspendAll, activateAll, updateAll,
         remove, callSupabase, stops, Stands, TypeOK
<1>8. QED
  BY <1>1, <1>2, <1>3, <1>4, <1>5, <1>7 DEF Stands, TypeOK, Work

LEMMA Standing == Stands /\ [Next]_vars => Stands'
<1> SUFFICES ASSUME Stands, [Next]_vars PROVE Stands'
  OBVIOUS
<1>1. ASSUME NEW r \in Request, Continues(r) PROVE Stands'
  BY <1>1, ContinuingStands
<1>2. ASSUME NEW r \in Request,
             (\E p \in Person : TeamRequest(r, p) \/ AdminRequest(r, p)) \/ CompanyRequest(r)
      PROVE  Stands'
  BY <1>2, BeginningStands
<1>3. ASSUME NEW p \in Person, NEW role \in ASSIGNABLE_TEAM_ROLES, inviteMember(p, role)
      PROVE  Stands'
  <2>1. [id |-> drawn + 1, role |-> role, status |-> "invited", joined |-> FALSE] \in Row
    BY <1>3, BoundAssumption, Rows DEF inviteMember, ASSIGNABLE_TEAM_ROLES, Stands, TypeOK
  <2>2. TypeOK'
    BY <1>3, <2>1, BoundAssumption, LimitAssumption
    DEF inviteMember, incrementTeamMemberCount, Stands, TypeOK
  <2>3. QED
    BY <1>3, <2>2 DEF inviteMember, Stands, Held
<1>4. ASSUME NEW p \in Person, dispatchOrdersToDriver(p) \/ tripEnds(p) PROVE Stands'
  BY <1>4 DEF dispatchOrdersToDriver, tripEnds, Stands, TypeOK, Held
<1>5. CASE UNCHANGED vars
  BY <1>5 DEF vars, Stands, TypeOK, Held
<1>6. QED
  BY <1>1, <1>2, <1>3, <1>4, <1>5 DEF Next

LEMMA StandsFirst == Init => Stands
<1> SUFFICES ASSUME Init PROVE Stands
  OBVIOUS
<1>1. [id |-> 1, role |-> "OWNER", status |-> "active", joined |-> TRUE] \in Row
  BY BoundAssumption, Rows
<1>2. TypeOK
  BY <1>1, Values, FounderAssumption, LimitAssumption, BoundAssumption DEF Init, TypeOK, Work
<1>3. Held
  BY Values, Lists DEF Init, Held
<1>4. QED
  BY <1>2, <1>3 DEF Stands

\* Every variable keeps its type: the plan's limit of team members is never passed, however
\* many invitations are sent at once (incrementTeamMemberCount), and who has joined is never
\* an invited member again, whatever stale entity is saved over the row.
THEOREM Typing == Spec => []TypeOK
<1>1. Spec => []Stands
  BY StandsFirst, Standing, PTL DEF Spec
<1>2. Stands => TypeOK
  BY DEF Stands
<1>3. QED
  BY <1>1, <1>2, PTL

-----------------------------------------------------------------------------
(* What requests may do to rows: a request that will write rows holds them with their ids; *)
(* one that saves keeps who is the owner and who drives on a trip; one that removes is     *)
(* about neither.                                                                          *)

LEMMA Lasts ==
  /\ \A t \in Opening : /\ "save" \in Range(t) => t \in Saving
                        /\ "remove" \in Range(t) => t \in Removing
                        /\ "handOver" \in Range(t) => t = <<"handOver">>
  /\ \A t \in Todo \ {<<>>} :
       Head(t) \in {"save", "remove", "handOver"} => ~Writes(Tail(t)) /\ Head(t) \in Range(t)
  /\ ~Writes(<<>>)
<1>1. \A a : Range(<<a>>) = {a} /\ Tail(<<a>>) = <<>> /\ Head(<<a>>) = a
  BY DEF Range
<1>2. \A a, b : Range(<<a, b>>) = {a, b} /\ Tail(<<a, b>>) = <<b>> /\ Head(<<a, b>>) = a
  BY DEF Range
<1>3. ASSUME NEW t \in Opening
      PROVE  /\ "save" \in Range(t) => t \in Saving
             /\ "remove" \in Range(t) => t \in Removing
             /\ "handOver" \in Range(t) => t = <<"handOver">>
  BY <1>1, <1>2 DEF Opening, Saving, Removing, Updating, Sweeping
<1>4. ~Writes(<<>>)
  BY DEF Writes, Range
<1>5. ASSUME NEW t \in Todo, t # <<>>, Head(t) \in {"save", "remove", "handOver"}
      PROVE  ~Writes(Tail(t))
  <2>1. \A a \in {"ban", "unban", "deleteUser"} : ~Writes(<<a>>)
    BY <1>1 DEF Writes
  <2>2. \/ \E b : t = <<b>>
        \/ \E b : \E a \in {"ban", "unban", "deleteUser"} : t = <<b, a>>
        \/ t = <<"createUser", "save">> \/ t = <<"ban", "update">> \/ t = <<"unban", "update">>
    BY <1>5 DEF Todo
  <2>3. CASE \E b : t = <<b>>
    BY <1>1, <1>4, <2>3
  <2>4. CASE \E b : \E a \in {"ban", "unban", "deleteUser"} : t = <<b, a>>
    BY <1>2, <2>1, <2>4
  <2>5. Head(t) \notin {"createUser", "ban", "unban"}
    BY <1>5
  <2>6. QED
    BY <1>2, <2>2, <2>3, <2>4, <2>5
<1>6. QED
  BY <1>3, <1>4, <1>5, Lists

Proper(todo, read) ==
  /\ Writes(todo) => \A p \in DOMAIN read : rows[p].id = read[p].id
  /\ "save" \in Range(todo) =>
       \A p \in DOMAIN read :
         /\ read[p].role = "OWNER" <=> rows[p].role = "OWNER"
         /\ rows[p].joined => read[p].joined
         /\ p \in busy /\ rows[p].joined /\ rows[p].role = "DRIVER" => read[p].role = "DRIVER"
  /\ "remove" \in Range(todo) =>
       \E p \in Person : /\ DOMAIN read = {p}
                         /\ rows[p].role # "OWNER" \/ ~rows[p].joined
                         /\ ~(p \in busy /\ rows[p].joined /\ rows[p].role = "DRIVER")
  /\ "handOver" \in Range(todo) =>
       \E o, n \in Person : /\ o # n /\ DOMAIN read = {o, n}
                            /\ rows[o].role = "OWNER" /\ rows[n].joined
                            /\ read[n].role = "OWNER" /\ read[o].role # "OWNER"

LEMMA OneIsProper ==
  ASSUME NEW p \in Person, NEW todo \in Opening, NEW row \in Row, InHandAs(p, todo, row),
         todo # <<"handOver">>
  PROVE  Proper(todo, Entity(p, row))
<1>1. DOMAIN Entity(p, row) = {p} /\ Entity(p, row)[p] = row
  BY DEF Entity
<1>2. QED
  BY <1>1, Lasts DEF Proper, InHandAs

LEMMA Beginnings ==
  ASSUME Stands, NEW r \in Request,
         (\E p \in Person : TeamRequest(r, p) \/ AdminRequest(r, p)) \/ CompanyRequest(r)
  PROVE  \E todo \in Opening, read \in Entities : Begins(r, todo, read) /\ Proper(todo, read)
<1>0. <<"handOver">> \notin Saving \cup Removing \cup Updating
  BY DEF Saving, Removing, Updating
<1>1. ASSUME NEW p \in Person, TeamRequest(r, p)
      PROVE  \E todo \in Opening, read \in Entities : Begins(r, todo, read) /\ Proper(todo, read)
  <2>1. PICK todo \in Saving \cup Removing, row \in Row :
               Begins(r, todo, Entity(p, row)) /\ InHandAs(p, todo, row)
    BY <1>1, TeamKeeps
  <2>2. todo \in Opening
    BY DEF Opening
  <2>3. QED
    BY <1>0, <2>1, <2>2, OneIsProper, Values
<1>2. ASSUME NEW p \in Person, AdminRequest(r, p)
      PROVE  \E todo \in Opening, read \in Entities : Begins(r, todo, read) /\ Proper(todo, read)
  <2>1. ASSUME NEW todo \in Updating \cup Removing, NEW row \in Row,
               Begins(r, todo, Entity(p, row)), InHandAs(p, todo, row)
        PROVE  Proper(todo, Entity(p, row)) /\ todo \in Opening /\ Entity(p, row) \in Entities
    <3>1. todo \in Opening
      BY DEF Opening
    <3>2. QED
      BY <1>0, <2>1, <3>1, OneIsProper, Values
  <2>2. ASSUME NEW owner \in Person, changeOwner(r, owner, p)
        PROVE  Proper(<<"handOver">>, handsOver(owner, p))
    <3> DEFINE read == handsOver(owner, p)
    <3>1. rows[owner] \in Row /\ rows[p] \in Row /\ p # owner /\ rows[p].joined
      BY <2>2, RowThere DEF changeOwner, Stands, Joined
    <3>2. /\ DOMAIN read = {owner, p}
          /\ read[p].id = rows[p].id /\ read[p].role = "OWNER"
          /\ read[owner].id = rows[owner].id /\ read[owner].role # "OWNER"
      BY <3>1, Rows DEF handsOver
    <3>3. Range(<<"handOver">>) = {"handOver"}
      BY DEF Range
    <3>4. rows[owner].role = "OWNER"
      BY <2>2 DEF changeOwner
    <3>5. QED
      BY <3>1, <3>2, <3>3, <3>4 DEF Proper
  <2>3. <<"handOver">> \in Opening
    BY DEF Opening
  <2>4. QED
    BY <1>2, <2>1, <2>2, <2>3, AdminKeeps
<1>3. CASE CompanyRequest(r)
  <2>1. PICK todo \in Sweeping, read \in Entities : Begins(r, todo, read)
    BY <1>3, CompanyKeeps
  <2>2. todo \in Opening /\ todo \notin Saving /\ todo \notin Removing /\ todo # <<"handOver">>
    BY DEF Opening, Sweeping, Saving, Removing
  <2>3. ~Writes(todo)
    BY <2>2, Lasts DEF Writes
  <2>4. Proper(todo, read)
    BY <2>3 DEF Proper, Writes
  <2>5. QED
    BY <2>1, <2>2, <2>4
<1>4. QED
  BY <1>1, <1>2, <1>3

-----------------------------------------------------------------------------
(* A driver on a trip. What is in hand about one will neither remove the row nor change    *)
(* its role.                                                                               *)

Aboard ==
  \A p \in busy \ (clashed \cup promoted) :
    /\ rows[p].joined /\ rows[p].role = "DRIVER"
    /\ \A r \in Request : p \in DOMAIN request[r].read =>
         /\ "save" \in Range(request[r].todo) =>
              request[r].read[p].joined /\ request[r].read[p].role = "DRIVER"
         /\ "remove" \notin Range(request[r].todo)

LEMMA BeginningAboard ==
  ASSUME Stands, Aboard, NEW r \in Request, NEW todo \in Opening, NEW read \in Entities,
         Begins(r, todo, read), Proper(todo, read)
  PROVE  Aboard'
<1>1. /\ UNCHANGED <<rows, busy, promoted>> /\ clashed \subseteq clashed'
      /\ request'[r].todo = todo /\ request'[r].read = read
      /\ \A s \in Request : s # r => request'[s] = request[s]
  BY DEF Begins, Stands, TypeOK
<1>2. ASSUME NEW p \in busy \ (clashed \cup promoted), p \in DOMAIN read
      PROVE  /\ "save" \in Range(todo) => read[p].joined /\ read[p].role = "DRIVER"
             /\ "remove" \notin Range(todo)
  <2>1. rows[p].joined /\ rows[p].role = "DRIVER"
    BY DEF Aboard
  <2>2. QED
    BY <1>2, <2>1 DEF Proper
<1>3. ASSUME NEW p \in busy' \ (clashed' \cup promoted')
      PROVE  /\ p \in busy \ (clashed \cup promoted)
             /\ rows'[p].joined /\ rows'[p].role = "DRIVER"
  BY <1>1 DEF Aboard
<1>4. ASSUME NEW p \in busy' \ (clashed' \cup promoted'), NEW s \in Request,
             p \in DOMAIN request'[s].read
      PROVE  /\ "save" \in Range(request'[s].todo) =>
                   request'[s].read[p].joined /\ request'[s].read[p].role = "DRIVER"
             /\ "remove" \notin Range(request'[s].todo)
  <2>1. CASE s = r
    BY <1>1, <1>2, <1>3, <1>4, <2>1
  <2>2. CASE s # r
    BY <1>1, <1>3, <1>4, <2>2 DEF Aboard
  <2>3. QED
    BY <2>1, <2>2
<1>5. QED
  BY <1>3, <1>4 DEF Aboard

LEMMA ContinuingAboard ==
  ASSUME Stands, Aboard, NEW r \in Request, Continues(r)
  PROVE  Aboard'
<1> DEFINE read == request[r].read
<1>1. /\ request[r].todo # <<>> /\ request[r].todo \in Todo
      /\ \A s \in Request : s # r => request'[s] = request[s]
      /\ Range(request'[r].todo) \subseteq Range(request[r].todo)
      /\ request'[r].read = read \/ DOMAIN request'[r].read = {}
  BY ContinuingStands, Going DEF Stands, TypeOK
<1>2. busy' = busy /\ clashed' = clashed /\ promoted \subseteq promoted'
  BY DEF Continues, save, update, handOver, suspendAll, activateAll, updateAll, remove,
         callSupabase, stops
<1>3. ASSUME NEW p \in busy \ (clashed \cup promoted')
      PROVE  rows'[p].joined /\ rows'[p].role = "DRIVER"
  <2>1. p \in Person /\ p \in busy \ (clashed \cup promoted)
    BY <1>2 DEF Stands, TypeOK
  <2>2. rows[p].joined /\ rows[p].role = "DRIVER" /\ rows[p] \in Row
    BY <2>1, RowThere DEF Aboard, Stands
  <2>3. CASE save(r)
    <3>1. "save" \in Range(request[r].todo)
      BY <1>1, <2>3, Lists DEF save, Does
    <3>2. p \in DOMAIN read => read[p].joined /\ read[p].role = "DRIVER"
      BY <2>1, <3>1 DEF Aboard
    <3>3. QED
      BY <2>1, <2>2, <2>3, <3>2 DEF save, saveInto
  <2>4. CASE remove(r)
    <3>1. "remove" \in Range(request[r].todo)
      BY <1>1, <2>4, Lists DEF remove, Does
    <3>2. p \notin DOMAIN read
      BY <2>1, <3>1 DEF Aboard
    <3>3. QED
      BY <2>1, <2>2, <2>4, <3>2 DEF remove
  <2>5. CASE handOver(r)
    <3>1. p \notin DOMAIN read
      BY <1>3, <2>5 DEF handOver
    <3>2. QED
      BY <2>1, <2>2, <2>5, <3>1 DEF handOver
  <2>6. CASE update(r) \/ suspendAll(r) \/ activateAll(r)
    BY <2>1, <2>2, <2>6, Rows DEF update, suspendAll, activateAll, updateAll
  <2>7. CASE (\E done \in SUBSET Person : callSupabase(r, done)) \/ stops(r)
    BY <2>2, <2>7 DEF callSupabase, stops
  <2>8. QED
    BY <2>3, <2>4, <2>5, <2>6, <2>7 DEF Continues
<1>4. QED
  BY <1>1, <1>2, <1>3 DEF Aboard

LEMMA Boarding ==
  ASSUME Stands, Aboard, NEW p \in Person, dispatchOrdersToDriver(p)
  PROVE  Aboard'
<1>1. /\ rows[p].joined /\ rows[p].role = "DRIVER" /\ busy' = busy \cup {p}
      /\ UNCHANGED <<rows, request, promoted>> /\ clashed \subseteq clashed'
      /\ p \notin clashed' =>
           \A r \in Request : p \in Holds(r) => ~Writes(request[r].todo)
  BY DEF dispatchOrdersToDriver, Joined
<1>2. \A r \in Request : p \in DOMAIN request[r].read => p \in Holds(r)
  BY DEF Holds
<1>3. p \notin clashed' =>
        \A r \in Request : p \in DOMAIN request[r].read =>
          "save" \notin Range(request[r].todo) /\ "remove" \notin Range(request[r].todo)
  BY <1>1, <1>2 DEF Writes
<1>4. QED
  BY <1>1, <1>3 DEF Aboard

LEMMA AboardStays == Stands /\ Aboard /\ [Next]_vars => Aboard'
<1> SUFFICES ASSUME Stands, Aboard, [Next]_vars PROVE Aboard'
  OBVIOUS
<1>1. ASSUME NEW r \in Request, Continues(r) PROVE Aboard'
  BY <1>1, ContinuingAboard
<1>2. ASSUME NEW r \in Request,
             (\E p \in Person : TeamRequest(r, p) \/ AdminRequest(r, p)) \/ CompanyRequest(r)
      PROVE  Aboard'
  BY <1>2, Beginnings, BeginningAboard
<1>3. ASSUME NEW p \in Person, NEW role \in ASSIGNABLE_TEAM_ROLES, inviteMember(p, role)
      PROVE  Aboard'
  <2>1. ~rows[p].joined
    BY <1>3, RowThere DEF inviteMember, Stands
  <2>2. \A q \in Person : q # p => rows'[q] = rows[q]
    BY <1>3 DEF inviteMember, Stands, TypeOK
  <2>3. UNCHANGED <<busy, clashed, promoted, request>>
    BY <1>3 DEF inviteMember
  <2>4. QED
    BY <2>1, <2>2, <2>3 DEF Aboard, Stands, TypeOK
<1>4. ASSUME NEW p \in Person, dispatchOrdersToDriver(p) PROVE Aboard'
  BY <1>4, Boarding
<1>5. ASSUME NEW p \in Person, tripEnds(p) PROVE Aboard'
  BY <1>5 DEF tripEnds, Aboard
<1>6. CASE UNCHANGED vars
  BY <1>6 DEF vars, Aboard
<1>7. QED
  BY <1>1, <1>2, <1>3, <1>4, <1>5, <1>6 DEF Next

\* A driver with an open stop stays a joined driver of the company, for any number of people
\* and requests: the trip checks of removeMember, suspendMember and changeMemberRole suffice
\* as long as no trip is assigned between such a check and its write.
THEOREM DriversStay == Spec => []BusyDriverStays
<1>1. Init => Aboard
  BY DEF Init, Aboard
<1>2. Spec => [](Stands /\ Aboard)
  BY <1>1, StandsFirst, Standing, AboardStays, PTL DEF Spec
<1>3. Stands /\ Aboard => BusyDriverStays
  BY DEF Stands, TypeOK, Aboard, BusyDriverStays, Joined
<1>4. QED
  BY <1>2, <1>3, PTL

-----------------------------------------------------------------------------
(* The owner and the count, while no two requests have clashed: then every request that    *)
(* will write rows still knows them by their ids, and the rows in the hand of one that     *)
(* takes away are in no other writer's.                                                    *)

Agree ==
  \A r \in Request : Writes(request[r].todo) =>
    \A p \in DOMAIN request[r].read : rows[p].id = request[r].read[p].id

Apart ==
  \A r, s \in Request :
    r # s /\ DOMAIN request[r].read \cap DOMAIN request[s].read # {} =>
      ~Clash(request[r].todo, request[s].todo)

\* o is the owner, and what is in hand keeps it so or hands over to one who has joined.
Owned(o) ==
  /\ rows[o].joined
  /\ \A p \in Person : rows[p].role = "OWNER" <=> p = o
  /\ \A r \in Request :
       /\ "save" \in Range(request[r].todo) =>
            \A p \in DOMAIN request[r].read :
              /\ request[r].read[p].role = "OWNER" <=> p = o
              /\ p = o => request[r].read[p].joined
       /\ "remove" \in Range(request[r].todo) => o \notin DOMAIN request[r].read
       /\ "handOver" \in Range(request[r].todo) =>
            \E n \in Person : /\ n # o /\ DOMAIN request[r].read = {o, n} /\ rows[n].joined
                              /\ request[r].read[n].role = "OWNER"
                              /\ request[r].read[o].role # "OWNER"

Counted ==
  /\ IsFiniteSet(Members) /\ count = Cardinality(Members)
  /\ \A r \in Request : "remove" \in Range(request[r].todo) =>
       \E p \in Person : DOMAIN request[r].read = {p}

Sound == Agree /\ Apart /\ (\E o \in Person : Owned(o)) /\ Counted

LEMMA BeginningSound ==
  ASSUME Stands, Sound, NEW r \in Request, NEW todo \in Opening, NEW read \in Entities,
         Begins(r, todo, read), Proper(todo, read), clashed' = {}
  PROVE  Sound'
<1>1. /\ UNCHANGED <<rows, count>>
      /\ request'[r].todo = todo /\ request'[r].read = read
      /\ \A s \in Request : s # r => request'[s] = request[s]
  BY DEF Begins, Stands, TypeOK
<1>2. DOMAIN read \subseteq Person
  BY Values
<1>3. ASSUME NEW s \in Request, s # r, DOMAIN read \cap DOMAIN request[s].read # {}
      PROVE  ~Clash(todo, request[s].todo) /\ ~Clash(request[s].todo, todo)
  <2>1. PICK p \in Person : p \in DOMAIN read /\ p \in DOMAIN request[s].read
    BY <1>2, <1>3
  <2>2. p \in Holds(s)
    BY <2>1 DEF Holds
  <2>3. ~Clash(todo, request[s].todo)
    BY <2>1, <2>2, <1>2 DEF Begins
  <2>4. QED
    BY <2>3 DEF Clash
<1>4. Agree'
  BY <1>1 DEF Agree, Sound, Proper, Writes
<1>5. Apart'
  <2>1. ASSUME NEW s \in Request, NEW t \in Request, s # t,
               DOMAIN request'[s].read \cap DOMAIN request'[t].read # {}
        PROVE  ~Clash(request'[s].todo, request'[t].todo)
    <3>1. CASE s # r /\ t # r
      BY <1>1, <2>1, <3>1 DEF Sound, Apart
    <3>2. CASE s = r
      BY <1>1, <1>3, <2>1, <3>2
    <3>3. CASE t = r
      BY <1>1, <1>3, <2>1, <3>3
    <3>4. QED
      BY <3>1, <3>2, <3>3
  <2>2. QED
    BY <2>1 DEF Apart, Clash, Takes, Writes
<1>6. \E o \in Person : Owned(o)'
  <2>1. PICK o \in Person : Owned(o)
    BY DEF Sound
  <2>2. ASSUME "save" \in Range(todo), NEW p \in DOMAIN read
        PROVE  (read[p].role = "OWNER" <=> p = o) /\ (p = o => read[p].joined)
    <3>1. /\ read[p].role = "OWNER" <=> rows[p].role = "OWNER"
          /\ rows[p].joined => read[p].joined
      BY <2>2 DEF Proper
    <3>2. p \in Person
      BY <1>2
    <3>3. (rows[p].role = "OWNER" <=> p = o) /\ rows[o].joined
      BY <2>1, <3>2 DEF Owned
    <3>4. QED
      BY <3>1, <3>3
  <2>3. ASSUME "remove" \in Range(todo) PROVE o \notin DOMAIN read
    <3>1. PICK p \in Person : DOMAIN read = {p} /\ (rows[p].role # "OWNER" \/ ~rows[p].joined)
      BY <2>3 DEF Proper
    <3>2. rows[o].role = "OWNER" /\ rows[o].joined
      BY <2>1 DEF Owned
    <3>3. p # o
      BY <3>1, <3>2
    <3>4. QED
      BY <3>1, <3>3
  <2>4. ASSUME "handOver" \in Range(todo)
        PROVE  \E n \in Person : /\ n # o /\ DOMAIN read = {o, n} /\ rows[n].joined
                                 /\ read[n].role = "OWNER" /\ read[o].role # "OWNER"
    BY <2>1, <2>4 DEF Owned, Proper
  <2>5. ASSUME NEW s \in Request
        PROVE  /\ "save" \in Range(request'[s].todo) =>
                    \A p \in DOMAIN request'[s].read :
                      /\ request'[s].read[p].role = "OWNER" <=> p = o
                      /\ p = o => request'[s].read[p].joined
               /\ "remove" \in Range(request'[s].todo) => o \notin DOMAIN request'[s].read
               /\ "handOver" \in Range(request'[s].todo) =>
                    \E n \in Person : /\ n # o /\ DOMAIN request'[s].read = {o, n} /\ rows[n].joined
                                      /\ request'[s].read[n].role = "OWNER"
                                      /\ request'[s].read[o].role # "OWNER"
    <3>1. CASE s = r
      BY <1>1, <2>2, <2>3, <2>4, <3>1
    <3>2. CASE s # r
      BY <1>1, <2>1, <3>2 DEF Owned
    <3>3. QED
      BY <3>1, <3>2
  <2>6. Owned(o)'
    BY <1>1, <2>1, <2>5 DEF Owned
  <2>7. QED
    BY <2>6
<1>7. Counted'
  <2>1. Members' = Members
    BY <1>1 DEF Members, Exists
  <2>2. ASSUME NEW s \in Request, "remove" \in Range(request'[s].todo)
        PROVE  \E p \in Person : DOMAIN request'[s].read = {p}
    <3>1. CASE s = r
      BY <1>1, <2>2, <3>1 DEF Proper
    <3>2. CASE s # r
      BY <1>1, <2>2, <3>2 DEF Sound, Counted
    <3>3. QED
      BY <3>1, <3>2
  <2>3. QED
    BY <1>1, <2>1, <2>2 DEF Sound, Counted
<1>8. QED
  BY <1>4, <1>5, <1>6, <1>7 DEF Sound

\* A request ends, or has less to do with what it has read.
Less(s) ==
  \/ request'[s].todo = <<>> /\ DOMAIN request'[s].read = {}
  \/ request'[s].read = request[s].read /\ Range(request'[s].todo) \subseteq Range(request[s].todo)

LEMMA LessToDo ==
  ASSUME Stands, NEW r \in Request, request[r].todo # <<>>, Goes(r)
  PROVE  \A s \in Request : Less(s)
BY Going, Values DEF Less

LEMMA ApartStays ==
  ASSUME Apart, \A s \in Request : Less(s)
  PROVE  /\ Apart'
         /\ \A s \in Request : "remove" \in Range(request'[s].todo) =>
              request'[s].read = request[s].read /\ "remove" \in Range(request[s].todo)
<1>1. ASSUME NEW s \in Request
      PROVE  /\ \A step : step \in Range(request'[s].todo) =>
                  step \in Range(request[s].todo) /\ request'[s].read = request[s].read
             /\ DOMAIN request'[s].read \subseteq DOMAIN request[s].read
  BY Lists DEF Less
<1>2. ASSUME NEW s \in Request
      PROVE  /\ Writes(request'[s].todo) => Writes(request[s].todo)
             /\ Takes(request'[s].todo) => Takes(request[s].todo)
  BY <1>1 DEF Writes, Takes
<1>3. \A s, t \in Request :
        Clash(request'[s].todo, request'[t].todo) => Clash(request[s].todo, request[t].todo)
  BY <1>2 DEF Clash
<1>4. Apart' = \A s, t \in Request :
        s # t /\ DOMAIN request'[s].read \cap DOMAIN request'[t].read # {} =>
          ~Clash(request'[s].todo, request'[t].todo)
  BY DEF Apart, Clash, Takes, Writes
<1>5. Apart'
  BY <1>1, <1>3, <1>4 DEF Apart
<1>6. QED
  BY <1>1, <1>5

\* A step that keeps the rows' ids and their owner, and lets only a member whom r alone
\* writes appear not to have joined.
LEMMA QuietlySound ==
  ASSUME Stands, Sound, NEW r \in Request, request[r].todo # <<>>, Goes(r), count' = count,
         \A p \in Person :
           /\ rows'[p].id = rows[p].id
           /\ rows'[p].role = "OWNER" <=> rows[p].role = "OWNER"
           /\ \/ rows[p].joined => rows'[p].joined
              \/ /\ rows[p].role # "OWNER" /\ p \in DOMAIN request[r].read
                 /\ Writes(request[r].todo) /\ ~Writes(request'[r].todo)
  PROVE  Sound'
<1>1. \A s \in Request : Less(s)
  BY LessToDo
<1>2. ASSUME NEW s \in Request, NEW step, step \in Range(request'[s].todo)
      PROVE  step \in Range(request[s].todo) /\ request'[s].read = request[s].read
  BY <1>1, <1>2, Lists DEF Less
<1>3. \A s \in Request : DOMAIN request[s].read \subseteq Person
  BY Values DEF Stands, TypeOK
<1>4. Agree'
  <2>1. ASSUME NEW s \in Request, Writes(request'[s].todo), NEW p \in DOMAIN request'[s].read
        PROVE  rows'[p].id = request'[s].read[p].id
    <3>1. Writes(request[s].todo) /\ request'[s].read = request[s].read
      BY <1>2, <2>1 DEF Writes
    <3>2. QED
      BY <1>3, <2>1, <3>1 DEF Sound, Agree
  <2>2. QED
    BY <2>1 DEF Agree, Writes
<1>5. Apart' /\ \A s \in Request : "remove" \in Range(request'[s].todo) =>
                  request'[s].read = request[s].read /\ "remove" \in Range(request[s].todo)
  BY <1>1, ApartStays DEF Sound
<1>6. PICK o \in Person : Owned(o)
  BY DEF Sound
<1>7. Owned(o)'
  <2>1. rows'[o].joined /\ \A p \in Person : rows'[p].role = "OWNER" <=> p = o
    BY <1>6 DEF Owned
  <2>2. ASSUME NEW s \in Request
        PROVE  /\ "save" \in Range(request'[s].todo) =>
                    \A p \in DOMAIN request'[s].read :
                      /\ request'[s].read[p].role = "OWNER" <=> p = o
                      /\ p = o => request'[s].read[p].joined
               /\ "remove" \in Range(request'[s].todo) => o \notin DOMAIN request'[s].read
    BY <1>2, <1>6 DEF Owned
  <2>3. ASSUME NEW s \in Request, "handOver" \in Range(request'[s].todo)
        PROVE  \E n \in Person : /\ n # o /\ DOMAIN request'[s].read = {o, n} /\ rows'[n].joined
                                 /\ request'[s].read[n].role = "OWNER"
                                 /\ request'[s].read[o].role # "OWNER"
    <3>1. "handOver" \in Range(request[s].todo) /\ request'[s].read = request[s].read
      BY <1>2, <2>3
    <3>2. PICK n \in Person : /\ n # o /\ DOMAIN request[s].read = {o, n} /\ rows[n].joined
                              /\ request[s].read[n].role = "OWNER"
                              /\ request[s].read[o].role # "OWNER"
      BY <1>6, <3>1 DEF Owned
    <3>3. ASSUME ~rows'[n].joined PROVE FALSE
      <4>1. /\ n \in DOMAIN request[r].read
            /\ Writes(request[r].todo) /\ ~Writes(request'[r].todo)
        BY <3>2, <3>3
      <4>2. s # r
        BY <2>3, <4>1 DEF Writes
      <4>3. Takes(request[s].todo)
        BY <3>1 DEF Takes
      <4>4. QED
        BY <3>2, <4>1, <4>2, <4>3 DEF Sound, Apart, Clash
    <3>4. QED
      BY <3>1, <3>2, <3>3
  <2>4. QED
    BY <2>1, <2>2, <2>3 DEF Owned
<1>8. Counted'
  <2>1. Members' = Members
    BY DEF Members, Exists
  <2>2. QED
    BY <1>5, <2>1 DEF Sound, Counted
<1>9. QED
  BY <1>4, <1>5, <1>7, <1>8 DEF Sound

\* After the step that writes the rows nothing is left of it.
LEMMA Written ==
  ASSUME Stands, NEW r \in Request, request[r].todo # <<>>, Goes(r),
         Head(request[r].todo) \in {"save", "remove", "handOver"}
  PROVE  /\ ~Writes(request'[r].todo)
         /\ Head(request[r].todo) \in Range(request[r].todo)
<1>1. request[r].todo \in Todo \ {<<>>}
  BY DEF Stands, TypeOK
<1>2. request'[r].todo = <<>> \/ request'[r].todo = Tail(request[r].todo)
  BY Going
<1>3. QED
  BY <1>1, <1>2, Lasts

LEMMA SaveSound ==
  ASSUME Stands, Sound, NEW r \in Request, save(r)
  PROVE  Sound'
<1> DEFINE read == request[r].read
<1>1. request[r].todo # <<>> /\ Goes(r) /\ Head(request[r].todo) = "save" /\ count' = count
  BY DEF save, Does, Goes
<1>2. ~Writes(request'[r].todo) /\ "save" \in Range(request[r].todo)
  BY <1>1, Written
<1>3. Writes(request[r].todo)
  BY <1>2 DEF Writes
<1>4. PICK o \in Person : Owned(o)
  BY DEF Sound
<1>5. ASSUME NEW p \in Person
      PROVE  /\ rows'[p].id = rows[p].id
             /\ rows'[p].role = "OWNER" <=> rows[p].role = "OWNER"
             /\ \/ rows[p].joined => rows'[p].joined
                \/ rows[p].role # "OWNER" /\ p \in DOMAIN read
  <2>1. CASE p \notin DOMAIN read
    BY <2>1 DEF save
  <2>2. CASE p \in DOMAIN read
    <3>1. rows'[p] = read[p] /\ rows[p].id = read[p].id
      BY <1>3, <2>2 DEF save, saveInto, Sound, Agree
    <3>2. (read[p].role = "OWNER" <=> p = o) /\ (p = o => read[p].joined)
      BY <1>2, <1>4, <2>2 DEF Owned
    <3>3. rows[p].role = "OWNER" <=> p = o
      BY <1>4 DEF Owned
    <3>4. QED
      BY <2>2, <3>1, <3>2, <3>3
  <2>3. QED
    BY <2>1, <2>2
<1>6. QED
  BY <1>1, <1>2, <1>3, <1>5, QuietlySound

LEMMA RemoveSound ==
  ASSUME Stands, Sound, NEW r \in Request, remove(r)
  PROVE  Sound'
<1> DEFINE read == request[r].read
<1>1. request[r].todo # <<>> /\ Goes(r) /\ Head(request[r].todo) = "remove"
  BY DEF remove, Does, Goes
<1>2. ~Writes(request'[r].todo) /\ "remove" \in Range(request[r].todo)
  BY <1>1, Written
<1>3. Writes(request[r].todo) /\ Takes(request[r].todo)
  BY <1>2 DEF Writes, Takes
<1>4. \A s \in Request : Less(s)
  BY <1>1, LessToDo
<1>5. PICK p \in Person : DOMAIN read = {p}
  BY <1>2 DEF Sound, Counted
<1>6. /\ rows[p].id = read[p].id /\ read[p] \in Row /\ rows[p].id # 0
  BY <1>3, <1>5, Values, BoundAssumption, Rows DEF Sound, Agree, Stands, TypeOK
<1>7. /\ rows'[p] = NoRow
      /\ \A q \in Person : q # p => rows'[q] = rows[q]
  BY <1>5, <1>6 DEF remove
<1>8. PICK o \in Person : Owned(o)
  BY DEF Sound
<1>9. p # o
  BY <1>2, <1>5, <1>8 DEF Owned
<1>10. ASSUME NEW s \in Request, NEW step \in {"save", "remove", "handOver"},
              step \in Range(request'[s].todo)
       PROVE  /\ step \in Range(request[s].todo) /\ request'[s].read = request[s].read
              /\ p \notin DOMAIN request[s].read
  <2>1. s # r
    BY <1>2, <1>10 DEF Writes
  <2>2. step \in Range(request[s].todo) /\ request'[s].read = request[s].read
    BY <1>4, <1>10, Lists DEF Less
  <2>3. Writes(request[s].todo)
    BY <2>2 DEF Writes
  <2>4. QED
    BY <1>3, <1>5, <2>1, <2>2, <2>3 DEF Sound, Apart, Clash
<1>11. \A s \in Request : DOMAIN request[s].read \subseteq Person
  BY Values DEF Stands, TypeOK
<1>12. Agree'
  <2>1. ASSUME NEW s \in Request, Writes(request'[s].todo), NEW q \in DOMAIN request'[s].read
        PROVE  rows'[q].id = request'[s].read[q].id
    <3>1. Writes(request[s].todo) /\ request'[s].read = request[s].read /\ q # p
      BY <1>10, <2>1 DEF Writes
    <3>2. QED
      BY <1>7, <1>11, <2>1, <3>1 DEF Sound, Agree
  <2>2. QED
    BY <2>1 DEF Agree, Writes
<1>13. Apart' /\ \A s \in Request : "remove" \in Range(request'[s].todo) =>
                   request'[s].read = request[s].read /\ "remove" \in Range(request[s].todo)
  BY <1>4, ApartStays DEF Sound
<1>14. Owned(o)'
  <2>1. rows'[o].joined /\ \A q \in Person : rows'[q].role = "OWNER" <=> q = o
    BY <1>7, <1>8, <1>9 DEF Owned, NoRow
  <2>2. ASSUME NEW s \in Request
        PROVE  /\ "save" \in Range(request'[s].todo) =>
                    \A q \in DOMAIN request'[s].read :
                      /\ request'[s].read[q].role = "OWNER" <=> q = o
                      /\ q = o => request'[s].read[q].joined
               /\ "remove" \in Range(request'[s].todo) => o \notin DOMAIN request'[s].read
    BY <1>8, <1>10 DEF Owned
  <2>3. ASSUME NEW s \in Request, "handOver" \in Range(request'[s].todo)
        PROVE  \E n \in Person : /\ n # o /\ DOMAIN request'[s].read = {o, n} /\ rows'[n].joined
                                 /\ request'[s].read[n].role = "OWNER"
                                 /\ request'[s].read[o].role # "OWNER"
    <3>1. /\ "handOver" \in Range(request[s].todo) /\ request'[s].read = request[s].read
          /\ p \notin DOMAIN request[s].read
      BY <1>10, <2>3
    <3>2. PICK n \in Person : /\ n # o /\ DOMAIN request[s].read = {o, n} /\ rows[n].joined
                              /\ request[s].read[n].role = "OWNER"
                              /\ request[s].read[o].role # "OWNER"
      BY <1>8, <3>1 DEF Owned
    <3>3. QED
      BY <1>7, <3>1, <3>2
  <2>4. QED
    BY <2>1, <2>2, <2>3 DEF Owned
<1>15. Counted'
  <2>1. Members' = Members \ {p} /\ p \in Members
    BY <1>6, <1>7 DEF Members, Exists, NoRow
  <2>2. /\ IsFiniteSet(Members) /\ count = Cardinality(Members)
        /\ IsFiniteSet(Members \ {p}) /\ Cardinality(Members \ {p}) = count - 1
    BY <2>1, FS_RemoveElement DEF Sound, Counted
  <2>3. count # 0
    BY <2>1, <2>2, FS_EmptySet
  <2>4. count' = count - 1
    BY <2>3 DEF remove, decrementTeamMemberCount
  <2>5. QED
    BY <1>13, <2>1, <2>2, <2>4 DEF Sound, Counted
<1>16. QED
  BY <1>12, <1>13, <1>14, <1>15 DEF Sound

LEMMA HandOverSound ==
  ASSUME Stands, Sound, NEW r \in Request, handOver(r)
  PROVE  Sound'
<1> DEFINE read == request[r].read
<1>1. request[r].todo # <<>> /\ Goes(r) /\ Head(request[r].todo) = "handOver" /\ count' = count
  BY DEF handOver, Does, Goes
<1>2. ~Writes(request'[r].todo) /\ "handOver" \in Range(request[r].todo)
  BY <1>1, Written
<1>3. Writes(request[r].todo) /\ Takes(request[r].todo)
  BY <1>2 DEF Writes, Takes
<1>4. \A s \in Request : Less(s)
  BY <1>1, LessToDo
<1>5. PICK o \in Person : Owned(o)
  BY DEF Sound
<1>6. PICK n \in Person : /\ n # o /\ DOMAIN read = {o, n} /\ rows[n].joined
                          /\ read[n].role = "OWNER" /\ read[o].role # "OWNER"
  BY <1>2, <1>5 DEF Owned
<1>7. rows[o].joined /\ rows[o] \in Row /\ rows[n] \in Row
  BY <1>5, <1>6, RowThere DEF Owned, Stands
<1>8. /\ rows[o].id = read[o].id /\ rows[n].id = read[n].id
      /\ rows' = [q \in Person |->
           IF q \in {o, n} /\ rows[q].id = read[q].id
           THEN [rows[q] EXCEPT !.role = read[q].role] ELSE rows[q]]
  BY <1>3, <1>6 DEF Sound, Agree, handOver
<1>9. /\ rows'[o].id = rows[o].id /\ rows'[o].role # "OWNER" /\ rows'[o].joined
      /\ rows'[n].id = rows[n].id /\ rows'[n].role = "OWNER" /\ rows'[n].joined
      /\ \A q \in Person : q \notin {o, n} => rows'[q] = rows[q]
  BY <1>6, <1>7, <1>8, Rows
<1>10. ASSUME NEW s \in Request, NEW step \in {"save", "remove", "handOver"},
              step \in Range(request'[s].todo)
       PROVE  /\ step \in Range(request[s].todo) /\ request'[s].read = request[s].read
              /\ o \notin DOMAIN request[s].read /\ n \notin DOMAIN request[s].read
  <2>1. s # r
    BY <1>2, <1>10 DEF Writes
  <2>2. step \in Range(request[s].todo) /\ request'[s].read = request[s].read
    BY <1>4, <1>10, Lists DEF Less
  <2>3. Writes(request[s].todo)
    BY <2>2 DEF Writes
  <2>4. QED
    BY <1>3, <1>6, <2>1, <2>2, <2>3 DEF Sound, Apart, Clash
<1>11. \A s \in Request : DOMAIN request[s].read \subseteq Person
  BY Values DEF Stands, TypeOK
<1>12. Agree'
  <2>1. ASSUME NEW s \in Request, Writes(request'[s].todo), NEW q \in DOMAIN request'[s].read
        PROVE  rows'[q].id = request'[s].read[q].id
    <3>1. Writes(request[s].todo) /\ request'[s].read = request[s].read
      BY <1>10, <2>1 DEF Writes
    <3>2. QED
      BY <1>9, <1>11, <2>1, <3>1 DEF Sound, Agree
  <2>2. QED
    BY <2>1 DEF Agree, Writes
<1>13. Apart' /\ \A s \in Request : "remove" \in Range(request'[s].todo) =>
                   request'[s].read = request[s].read /\ "remove" \in Range(request[s].todo)
  BY <1>4, ApartStays DEF Sound
<1>14. Owned(n)'
  <2>1. rows'[n].joined /\ \A q \in Person : rows'[q].role = "OWNER" <=> q = n
    BY <1>5, <1>9 DEF Owned
  <2>2. ASSUME NEW s \in Request
        PROVE  /\ "save" \in Range(request'[s].todo) =>
                    \A q \in DOMAIN request'[s].read :
                      /\ request'[s].read[q].role = "OWNER" <=> q = n
                      /\ q = n => request'[s].read[q].joined
               /\ "remove" \in Range(request'[s].todo) => n \notin DOMAIN request'[s].read
    BY <1>5, <1>10 DEF Owned
  <2>3. ASSUME NEW s \in Request PROVE "handOver" \notin Range(request'[s].todo)
    BY <1>5, <1>10 DEF Owned
  <2>4. QED
    BY <2>1, <2>2, <2>3 DEF Owned
<1>15. Counted'
  <2>1. Members' = Members
    BY <1>9 DEF Members, Exists
  <2>2. QED
    BY <1>1, <1>13, <2>1 DEF Sound, Counted
<1>16. QED
  BY <1>12, <1>13, <1>14, <1>15 DEF Sound

LEMMA ContinuingSound ==
  ASSUME Stands, Sound, NEW r \in Request, Continues(r)
  PROVE  Sound'
<1>1. request[r].todo # <<>> /\ Goes(r)
  BY ContinuingStands
<1>2. CASE update(r) \/ suspendAll(r) \/ activateAll(r)
  <2>1. count' = count
    BY <1>2 DEF update, suspendAll, activateAll, updateAll
  <2>2. ASSUME NEW p \in Person
        PROVE  /\ rows'[p].id = rows[p].id
               /\ rows'[p].role = "OWNER" <=> rows[p].role = "OWNER"
               /\ rows[p].joined => rows'[p].joined
    BY <1>2, RowThere, Rows DEF update, suspendAll, activateAll, updateAll, Stands
  <2>3. QED
    BY <1>1, <2>1, <2>2, QuietlySound
<1>3. CASE (\E done \in SUBSET Person : callSupabase(r, done)) \/ stops(r)
  <2>1. count' = count /\ rows' = rows
    BY <1>3 DEF callSupabase, stops
  <2>2. QED
    BY <1>1, <2>1, QuietlySound
<1>4. QED
  BY <1>2, <1>3, SaveSound, RemoveSound, HandOverSound DEF Continues

LEMMA InvitingSound ==
  ASSUME Stands, Sound, NEW p \in Person, NEW role \in ASSIGNABLE_TEAM_ROLES, inviteMember(p, role)
  PROVE  Sound'
<1>1. /\ rows[p].id = 0 /\ rows'[p].id # 0 /\ rows'[p].role # "OWNER"
      /\ \A q \in Person : q # p => rows'[q] = rows[q]
      /\ request' = request /\ count' = count + 1
  BY DEF inviteMember, incrementTeamMemberCount, Exists, Stands, TypeOK, ASSIGNABLE_TEAM_ROLES
<1>2. ~rows[p].joined /\ rows[p] \notin Row
  BY <1>1, RowThere DEF Exists, Stands
<1>3. \A s \in Request : Writes(request[s].todo) => p \notin DOMAIN request[s].read
  <2>1. ASSUME NEW s \in Request, Writes(request[s].todo), p \in DOMAIN request[s].read PROVE FALSE
    <3>1. request[s].read[p].id = 0
      BY <1>1, <2>1 DEF Sound, Agree
    <3>2. request[s].read[p] \in Row
      BY <2>1, Values DEF Stands, TypeOK
    <3>3. QED
      BY <3>1, <3>2, BoundAssumption, Rows
  <2>2. QED
    BY <2>1
<1>4. \A s \in Request : DOMAIN request[s].read \subseteq Person
  BY Values DEF Stands, TypeOK
<1>5. Agree'
  <2>1. ASSUME NEW s \in Request, Writes(request[s].todo), NEW q \in DOMAIN request[s].read
        PROVE  rows'[q].id = request[s].read[q].id
    BY <1>1, <1>3, <1>4, <2>1 DEF Sound, Agree
  <2>2. QED
    BY <1>1, <2>1 DEF Agree, Writes
<1>6. Apart'
  BY <1>1 DEF Sound, Apart, Clash, Takes, Writes
<1>7. PICK o \in Person : Owned(o)
  BY DEF Sound
<1>8. Owned(o)'
  <2>1. o # p
    BY <1>2, <1>7 DEF Owned
  <2>2. rows'[o].joined /\ \A q \in Person : rows'[q].role = "OWNER" <=> q = o
    BY <1>1, <1>7, <2>1 DEF Owned
  <2>3. \A n \in Person : rows[n].joined => rows'[n].joined
    BY <1>1, <1>2
  <2>4. ASSUME NEW s \in Request, "handOver" \in Range(request[s].todo)
        PROVE  \E n \in Person : /\ n # o /\ DOMAIN request[s].read = {o, n} /\ rows'[n].joined
                                 /\ request[s].read[n].role = "OWNER"
                                 /\ request[s].read[o].role # "OWNER"
    BY <1>7, <2>3, <2>4 DEF Owned
  <2>5. QED
    BY <1>1, <1>7, <2>2, <2>4 DEF Owned
<1>9. Counted'
  <2>1. Members' = Members \cup {p} /\ p \notin Members
    BY <1>1 DEF Members, Exists
  <2>2. QED
    BY <1>1, <2>1, FS_AddElement DEF Sound, Counted
<1>10. QED
  BY <1>5, <1>6, <1>8, <1>9 DEF Sound

LEMMA SoundStays == Stands /\ (clashed = {} => Sound) /\ [Next]_vars => (clashed' = {} => Sound')
<1> SUFFICES ASSUME Stands, clashed = {} => Sound, [Next]_vars, clashed' = {} PROVE Sound'
  OBVIOUS
<1>1. ASSUME NEW r \in Request, Continues(r) PROVE Sound'
  <2>1. clashed' = clashed
    BY <1>1 DEF Continues, save, update, handOver, suspendAll, activateAll, updateAll, remove,
                callSupabase, stops
  <2>2. QED
    BY <1>1, <2>1, ContinuingSound
<1>2. ASSUME NEW r \in Request,
             (\E p \in Person : TeamRequest(r, p) \/ AdminRequest(r, p)) \/ CompanyRequest(r)
      PROVE  Sound'
  <2>1. PICK todo \in Opening, read \in Entities : Begins(r, todo, read) /\ Proper(todo, read)
    BY <1>2, Beginnings
  <2>2. clashed = {}
    BY <2>1 DEF Begins
  <2>3. QED
    BY <2>1, <2>2, BeginningSound
<1>3. ASSUME NEW p \in Person, NEW role \in ASSIGNABLE_TEAM_ROLES, inviteMember(p, role)
      PROVE  Sound'
  <2>1. clashed' = clashed
    BY <1>3 DEF inviteMember
  <2>2. QED
    BY <1>3, <2>1, InvitingSound
<1>4. ASSUME UNCHANGED <<rows, count, request>>, clashed = {} PROVE Sound'
  BY ZenonT(60), <1>4 DEF Sound, Agree, Apart, Clash, Takes, Writes, Owned, Counted, Members, Exists
<1>5. ASSUME NEW p \in Person, dispatchOrdersToDriver(p) \/ tripEnds(p) PROVE Sound'
  BY <1>4, <1>5 DEF dispatchOrdersToDriver, tripEnds
<1>6. CASE UNCHANGED vars
  BY <1>4, <1>6 DEF vars
<1>7. QED
  BY <1>1, <1>2, <1>3, <1>5, <1>6 DEF Next

LEMMA SoundFirst == Init => Sound
<1> SUFFICES ASSUME Init PROVE Sound
  OBVIOUS
<1>1. \A r \in Request : /\ request[r].todo = <<>> /\ DOMAIN request[r].read = {}
  BY Values DEF Init
<1>2. Range(<<>>) = {} /\ ~Writes(<<>>)
  BY Lists, Lasts
<1>3. Agree /\ Apart
  BY <1>1, <1>2 DEF Agree, Apart
<1>4. Owned(Founder)
  BY <1>1, <1>2, FounderAssumption DEF Owned, Init, NoRow
<1>5. Members = {Founder}
  BY FounderAssumption DEF Members, Exists, Init, NoRow
<1>6. Counted
  BY <1>1, <1>2, <1>5, FS_Singleton DEF Counted, Init
<1>7. QED
  BY <1>3, <1>4, <1>6, FounderAssumption DEF Sound

LEMMA SoundAlways == Spec => [](Stands /\ (clashed = {} => Sound))
<1>1. Init => Stands /\ (clashed = {} => Sound)
  BY StandsFirst, SoundFirst
<1>2. Stands /\ (clashed = {} => Sound) /\ [Next]_vars => (Stands /\ (clashed = {} => Sound))'
  BY Standing, SoundStays
<1>3. QED
  BY <1>1, <1>2, PTL DEF Spec

\* A company has exactly one owner, for any number of people and requests, until somebody has
\* been clashed over (a hand-over or a removal meets another write of the same row): no other
\* interleaving of the requests' reads and writes (changeOwner, removeMember, the saves of
\* whole entities) can lose one.
THEOREM OwnerIsOne == Spec => []OneOwner
<1>1. Stands /\ (clashed = {} => Sound) => OneOwner
  <2> SUFFICES ASSUME Stands, Sound PROVE \E p \in Members : \A q \in Members : rows[q].role = "OWNER" <=> q = p
    BY DEF OneOwner
  <2>1. PICK o \in Person : Owned(o)
    BY DEF Sound
  <2>2. o \in Members
    BY <2>1, RowThere DEF Owned, Members, Stands
  <2>3. QED
    BY <2>1, <2>2 DEF Owned, Members
<1>2. QED
  BY <1>1, SoundAlways, PTL

\* The usage row counts the rows under the same condition: increment and decrement are in
\* the transactions of the insert and the delete, and only a delete that finds the row gone,
\* or a save that brings it back, sets them apart.
THEOREM CountStays == Spec => []CountIsRows
<1>1. Stands /\ (clashed = {} => Sound) => CountIsRows
  BY DEF Sound, Counted, CountIsRows
<1>2. QED
  BY <1>1, SoundAlways, PTL

-----------------------------------------------------------------------------
(* Accounts. Who is in one request's hand only is in one of the few situations between a   *)
(* call to Supabase and the write of the row, either of which may come first.              *)

\* What the row says of the account.
Login(row) ==
  IF ~row.joined THEN "none" ELSE IF row.status = "suspended" THEN "banned" ELSE "open"
Says(p) == account[p] = Login(rows[p])

\* What is left to do of a request that holds p alone, the entities it has read and whether
\* it has begun: either nothing has been written yet, or one of the two is as it will be.
Due(p, todo, read, begun) ==
  \/ /\ DOMAIN read = {p} /\ rows[p].id = read[p].id /\ read[p] \in Row
     /\ \/ todo = <<"save">> /\ account[p] = Login(read[p]) /\ (begun \/ Says(p))
        \/ /\ Says(p) /\ ~begun
           /\ \/ todo = <<"save", "ban">> /\ rows[p].joined /\ Login(read[p]) = "banned"
              \/ todo = <<"save", "unban">> /\ rows[p].joined /\ Login(read[p]) = "open"
              \/ todo = <<"createUser", "save">> /\ ~rows[p].joined /\ Login(read[p]) = "open"
              \/ todo = <<"remove">> /\ ~rows[p].joined
              \/ todo = <<"remove", "deleteUser">> /\ rows[p].joined
  \/ /\ DOMAIN read = {p} /\ rows[p].joined /\ Says(p) /\ ~begun
     /\ \/ todo = <<"ban", "update">> /\ read[p].status = "suspended"
        \/ todo = <<"unban", "update">> /\ read[p].status = "active"
  \/ /\ DOMAIN read = {p} /\ rows[p].joined /\ begun
     /\ todo = <<"update">>
     /\ account[p] = IF read[p].status = "suspended" THEN "banned" ELSE "open"
  \/ /\ DOMAIN read = {p} /\ ~rows[p].joined /\ begun /\ account[p] # "none"
     /\ todo = <<"deleteUser">>
  \/ /\ begun /\ account[p] # "none"
     /\ \/ todo = <<"ban">> /\ Login(rows[p]) = "banned"
        \/ todo = <<"unban">> /\ Login(rows[p]) = "open"
  \/ /\ ~begun /\ Says(p)
     /\ \/ todo \in {<<"suspendAll", "ban">>, <<"activateAll", "unban">>} /\ rows[p].joined
        \/ todo \in {<<"handOver">>, <<"deleteUsers">>}

Alone(p) == \A r, s \in Request : p \in Holds(r) /\ p \in Holds(s) => r = s

Settled(p) ==
  /\ Alone(p)
  /\ ~InHand(p) => Says(p)
  /\ \A r \in Request : p \in Holds(r) =>
       IF p \in DOMAIN request[r].read
       THEN Due(p, request[r].todo, request[r].read, request[r].begun)
       ELSE ~rows[p].joined /\ account[p] = "none"

Told == \A p \in Person \ (shared \cup failed) : Settled(p)

LEMMA Shapes ==
  /\ \A a : Head(<<a>>) = a /\ Tail(<<a>>) = <<>> /\ Len(<<a>>) = 1 /\ <<a>> # <<>>
  /\ \A a, b : Head(<<a, b>>) = a /\ Tail(<<a, b>>) = <<b>> /\ Len(<<a, b>>) = 2 /\ <<a, b>> # <<>>
OBVIOUS

LEMMA Stepping ==
  ASSUME Stands, NEW r \in Request, NextStep(r), NEW a
  PROVE  /\ request[r].todo = <<a>> => request'[r] = Idle
         /\ \A b : request[r].todo = <<a, b>> =>
              /\ request'[r].todo = <<b>> /\ request'[r].read = request[r].read
              /\ request'[r].begun
<1>1. request \in [Request -> Work]
  BY DEF Stands, TypeOK, Work
<1>2. request'[r] = Rest(request[r])
  BY <1>1 DEF NextStep
<1>3. request[r].todo = <<a>> => request'[r] = Idle
  BY <1>2, Shapes DEF Rest
<1>4. ASSUME NEW b, request[r].todo = <<a, b>>
      PROVE  /\ request'[r].todo = <<b>> /\ request'[r].read = request[r].read
             /\ request'[r].begun
  <2>1. request'[r] = [request[r] EXCEPT !.todo = <<b>>, !.begun = TRUE]
    BY <1>2, <1>4, Shapes DEF Rest
  <2>2. request[r] \in Work
    BY <1>1
  <2>3. QED
    BY <2>1, <2>2 DEF Work
<1>5. QED
  BY <1>3, <1>4

\* Only who is in r's hand may leave it or be in a new situation.
LEMMA OutOfHand ==
  ASSUME Stands, NEW r \in Request, request[r].todo # <<>>, Goes(r)
  PROVE  /\ \A s \in Request : s # r => Holds(s)' = Holds(s) /\ request'[s] = request[s]
         /\ Holds(r)' \subseteq Holds(r)
         /\ request'[r] = Idle => Holds(r)' = {}
         /\ Holds(r)' \subseteq DOMAIN request'[r].read
<1>1. /\ \A s \in Request : s # r => request'[s] = request[s]
      /\ request'[r].todo \in {<<>>, Tail(request[r].todo)}
      /\ request'[r].read = request[r].read \/ request'[r] = Idle
  BY Going
<1>2. request[r].todo \in Todo \ {<<>>} /\ DOMAIN request[r].read \subseteq Person
  BY Values DEF Stands, TypeOK
<1>3. ASSUME NEW t \in Todo \ {<<>>}, Tail(t) # <<>> PROVE Head(Tail(t)) \notin CompanyStep
  BY <1>3, Shapes DEF Todo, CompanyStep
<1>4. Holds(r)' = DOMAIN request'[r].read
  BY <1>1, <1>2, <1>3, Values DEF Holds
<1>5. DOMAIN request[r].read \subseteq Holds(r)
  BY <1>2 DEF Holds
<1>6. QED
  BY <1>1, <1>4, <1>5, Values DEF Holds

\* Nothing is done about p.
LEMMA Untouched ==
  ASSUME NEW p \in Person, Settled(p),
         rows'[p] = rows[p], account'[p] = account[p],
         \A s \in Request : p \in Holds(s)' => p \in Holds(s) /\ request'[s] = request[s],
         InHand(p) => InHand(p)'
  PROVE  Settled(p)'
<1>1. Alone(p)' /\ (~InHand(p)' => Says(p)')
  BY DEF Settled, Alone, Says, InHand
<1>2. ASSUME NEW s \in Request, p \in Holds(s)'
      PROVE  IF p \in DOMAIN request'[s].read
             THEN Due(p, request[s].todo, request[s].read, request[s].begun)'
             ELSE ~rows'[p].joined /\ account'[p] = "none"
  <2>1. p \in Holds(s) /\ request'[s] = request[s]
    BY <1>2
  <2>2. CASE p \in DOMAIN request[s].read
    <3>1. Due(p, request[s].todo, request[s].read, request[s].begun)
      BY <2>1, <2>2 DEF Settled
    <3>2. Due(p, request[s].todo, request[s].read, request[s].begun)'
      BY <2>1, <3>1 DEF Due, Says
    <3>3. QED
      BY <2>1, <2>2, <3>2
  <2>3. CASE p \notin DOMAIN request[s].read
    BY <2>1, <2>3 DEF Settled
  <2>4. QED
    BY <2>2, <2>3
<1>3. QED
  BY <1>1, <1>2 DEF Settled

\* r alone held p, and lets go of it.
LEMMA LetGo ==
  ASSUME NEW r \in Request, NEW p \in Person, Settled(p), p \in Holds(r),
         \A s \in Request : s # r => Holds(s)' = Holds(s),
         p \notin Holds(r)', Says(p)'
  PROVE  Settled(p)'
<1>1. \A s \in Request : p \notin Holds(s)'
  BY DEF Settled, Alone
<1>2. QED
  BY <1>1 DEF Settled, Alone

\* r alone held p, and goes on about it.
LEMMA GoesOn ==
  ASSUME NEW r \in Request, NEW p \in Person, Settled(p), p \in Holds(r),
         \A s \in Request : s # r => Holds(s)' = Holds(s),
         p \in Holds(r)', p \in DOMAIN request'[r].read,
         Due(p, request[r].todo, request[r].read, request[r].begun)'
  PROVE  Settled(p)'
<1>1. \A s \in Request : p \in Holds(s)' => s = r
  BY DEF Settled, Alone
<1>2. Alone(p)' /\ InHand(p)'
  BY <1>1 DEF Alone, InHand
<1>3. QED
  BY <1>1, <1>2 DEF Settled


LEMMA HeldByOne ==
  ASSUME Stands, NEW r \in Request, NEW p \in Person, Settled(p), p \in Holds(r),
         request[r].todo # <<>>
  PROVE  /\ request[r].todo \in Todo
         /\ p \in DOMAIN request[r].read => Due(p, request[r].todo, request[r].read, request[r].begun)
         /\ p \notin DOMAIN request[r].read => ~rows[p].joined /\ account[p] = "none"
         /\ Head(request[r].todo) \notin CompanyStep => p \in DOMAIN request[r].read
         /\ account[p] \in {"none", "open", "banned"}
BY DEF Settled, Holds, Stands, TypeOK

\* One step is left about p.
LEMMA OneMore ==
  ASSUME Stands, NEW r \in Request, NEW p \in DOMAIN request[r].read, NextStep(r),
         NEW a, NEW b, request[r].todo = <<a, b>>, b \notin CompanyStep
  PROVE  /\ request'[r].todo = <<b>> /\ request'[r].read = request[r].read /\ request'[r].begun
         /\ p \in Holds(r)' /\ p \in DOMAIN request'[r].read
<1>1. request'[r].todo = <<b>> /\ request'[r].read = request[r].read /\ request'[r].begun
  BY Stepping
<1>2. QED
  BY <1>1, Shapes DEF Holds

LEMMA SaveSettles ==
  ASSUME Stands, NEW r \in Request, NEW p \in Person, Settled(p), p \in Holds(r), save(r)
  PROVE  Settled(p)'
<1>1. request[r].todo # <<>> /\ Head(request[r].todo) = "save" /\ Goes(r) /\ account' = account
  BY DEF save, Does, Goes
<1>2. p \in DOMAIN request[r].read /\ Due(p, request[r].todo, request[r].read, request[r].begun)
  BY <1>1, HeldByOne DEF CompanyStep
<1>3. /\ DOMAIN request[r].read = {p} /\ rows[p].id = request[r].read[p].id
      /\ \/ request[r].todo = <<"save">> /\ account[p] = Login(request[r].read[p])
         \/ /\ request[r].todo = <<"save", "ban">> /\ account[p] # "none"
            /\ Login(request[r].read[p]) = "banned"
         \/ /\ request[r].todo = <<"save", "unban">> /\ account[p] # "none"
            /\ Login(request[r].read[p]) = "open"
  BY <1>1, <1>2, Shapes DEF Due, Says, Login
<1>4. rows'[p] = request[r].read[p] /\ NextStep(r)
  BY <1>2, <1>3 DEF save, saveInto
<1>5. CASE request[r].todo = <<"save">>
  BY SMTT(60), <1>1, <1>3, <1>4, <1>5, Shapes, Stepping, OutOfHand, LetGo DEF Says
<1>6. CASE request[r].todo = <<"save", "ban">>
  <2>1. Due(p, request[r].todo, request[r].read, request[r].begun)'
    BY <1>1, <1>2, <1>3, <1>4, <1>6, Shapes, OneMore DEF CompanyStep, Due
  <2>2. QED
    BY <1>1, <1>2, <1>4, <1>6, <2>1, OneMore, OutOfHand, GoesOn DEF CompanyStep
<1>7. CASE request[r].todo = <<"save", "unban">>
  <2>1. Due(p, request[r].todo, request[r].read, request[r].begun)'
    BY <1>1, <1>2, <1>3, <1>4, <1>7, Shapes, OneMore DEF CompanyStep, Due
  <2>2. QED
    BY <1>1, <1>2, <1>4, <1>7, <2>1, OneMore, OutOfHand, GoesOn DEF CompanyStep
<1>8. QED
  BY <1>3, <1>5, <1>6, <1>7

LEMMA RemoveSettles ==
  ASSUME Stands, NEW r \in Request, NEW p \in Person, Settled(p), p \in Holds(r), remove(r)
  PROVE  Settled(p)'
<1>1. request[r].todo # <<>> /\ Head(request[r].todo) = "remove" /\ Goes(r) /\ account' = account
      /\ NextStep(r)
  BY DEF remove, Does, Goes
<1>2. p \in DOMAIN request[r].read /\ Due(p, request[r].todo, request[r].read, request[r].begun)
  BY <1>1, HeldByOne DEF CompanyStep
<1>3. /\ DOMAIN request[r].read = {p} /\ rows[p].id = request[r].read[p].id
      /\ \/ request[r].todo = <<"remove">> /\ account[p] = "none"
         \/ request[r].todo = <<"remove", "deleteUser">> /\ account[p] # "none"
  BY <1>1, <1>2, Shapes DEF Due, Says, Login
<1>4. rows'[p] = NoRow /\ ~NoRow.joined
  BY <1>2, <1>3 DEF remove, NoRow
<1>5. CASE request[r].todo = <<"remove">>
  BY <1>1, <1>3, <1>4, <1>5, Shapes, Stepping, OutOfHand, LetGo DEF Says, Login
<1>6. CASE request[r].todo = <<"remove", "deleteUser">>
  <2>1. Due(p, request[r].todo, request[r].read, request[r].begun)'
    BY <1>1, <1>2, <1>3, <1>4, <1>6, Shapes, OneMore DEF CompanyStep, Due
  <2>2. QED
    BY <1>1, <1>2, <1>4, <1>6, <2>1, OneMore, OutOfHand, GoesOn DEF CompanyStep
<1>7. QED
  BY <1>3, <1>5, <1>6

LEMMA UpdateSettles ==
  ASSUME Stands, NEW r \in Request, NEW p \in Person, Settled(p), p \in Holds(r),
         update(r) \/ handOver(r)
  PROVE  Settled(p)'
<1>1. /\ request[r].todo # <<>> /\ Head(request[r].todo) \in {"update", "handOver"}
      /\ Goes(r) /\ account' = account /\ NextStep(r)
  BY DEF update, handOver, Does, Goes
<1>2. p \in DOMAIN request[r].read /\ Due(p, request[r].todo, request[r].read, request[r].begun)
  BY <1>1, HeldByOne DEF CompanyStep
<1>3. \/ /\ request[r].todo = <<"update">> /\ rows[p].joined
         /\ account[p] = IF request[r].read[p].status = "suspended" THEN "banned" ELSE "open"
      \/ request[r].todo = <<"handOver">> /\ Says(p)
  BY <1>1, <1>2, Shapes DEF Due
<1>4. Holds(r)' = {} /\ \A s \in Request : s # r => Holds(s)' = Holds(s)
  BY <1>1, <1>3, Stepping, OutOfHand
<1>5. rows[p] \in Row \cup {NoRow}
  BY DEF Stands, TypeOK
<1>6. CASE update(r)
  <2>1. request[r].todo = <<"update">>
    BY <1>3, <1>6, Shapes DEF update, Does
  <2>2. rows'[p] = [rows[p] EXCEPT !.status = request[r].read[p].status] /\ rows[p] \in Row
    BY <1>2, <1>3, <1>6, <2>1, RowThere DEF update, Stands
  <2>3. rows'[p].joined /\ rows'[p].status = request[r].read[p].status
    BY <1>3, <2>1, <2>2, Rows
  <2>4. Says(p)'
    BY <1>1, <1>3, <2>1, <2>3 DEF Says, Login
  <2>5. QED
    BY <1>4, <2>4, LetGo
<1>7. CASE handOver(r)
  <2>1. Says(p)
    BY <1>3, <1>7, Shapes DEF handOver, Does
  <2>2. rows'[p] = rows[p] \/ rows'[p] = [rows[p] EXCEPT !.role = request[r].read[p].role]
    BY <1>7 DEF handOver
  <2>3. rows'[p].joined = rows[p].joined /\ rows'[p].status = rows[p].status
    BY <1>5, <2>2, Rows DEF NoRow
  <2>4. Says(p)'
    BY <1>1, <2>1, <2>3 DEF Says, Login
  <2>5. QED
    BY <1>4, <2>4, LetGo
<1>8. QED
  BY <1>6, <1>7

LEMMA AllSettles ==
  ASSUME Stands, NEW r \in Request, NEW p \in Person, Settled(p), p \in Holds(r),
         suspendAll(r) \/ activateAll(r)
  PROVE  Settled(p)'
<1>1. /\ request[r].todo # <<>> /\ Goes(r) /\ account' = account /\ NextStep(r)
      /\ request[r].todo \in Todo
  BY DEF suspendAll, activateAll, updateAll, Does, Goes, Stands, TypeOK
<1>2. \/ /\ request[r].todo = <<"suspendAll", "ban">>
         /\ rows'[p] = IF Exists(p) THEN [rows[p] EXCEPT !.status = "suspended"] ELSE rows[p]
      \/ /\ request[r].todo = <<"activateAll", "unban">>
         /\ rows'[p] = IF Exists(p) THEN [rows[p] EXCEPT !.status = "active"] ELSE rows[p]
  BY <1>1, Shapes DEF suspendAll, activateAll, updateAll, Does, Todo
<1>3. \A s \in Request : s # r => Holds(s)' = Holds(s)
  BY <1>1, OutOfHand
<1>4. request'[r].read = request[r].read
  BY <1>1, <1>2, Stepping
<1>5. CASE p \notin DOMAIN request[r].read
  <2>1. ~rows[p].joined /\ account[p] = "none"
    BY <1>1, <1>5, HeldByOne
  <2>2. rows'[p].joined = rows[p].joined
    BY <1>2, RowThere, Rows DEF Stands
  <2>3. p \notin Holds(r)'
    BY <1>1, <1>4, <1>5, OutOfHand
  <2>4. QED
    BY <1>1, <1>3, <2>1, <2>2, <2>3, LetGo DEF Says, Login
<1>6. CASE p \in DOMAIN request[r].read
  <2>1. Due(p, request[r].todo, request[r].read, request[r].begun)
    BY <1>1, <1>6, HeldByOne
  <2>2. rows[p].joined /\ account[p] # "none"
    BY <1>2, <2>1, Shapes DEF Due, Says, Login
  <2>3. /\ rows'[p].joined
        /\ request[r].todo = <<"suspendAll", "ban">> => rows'[p].status = "suspended"
        /\ request[r].todo = <<"activateAll", "unban">> => rows'[p].status = "active"
    BY <1>2, <2>2, RowThere, Rows, Shapes DEF Stands
  <2>4. Due(p, request[r].todo, request[r].read, request[r].begun)'
    BY <1>1, <1>2, <1>6, <2>2, <2>3, Shapes, OneMore DEF CompanyStep, Due, Login
  <2>5. QED
    BY <1>1, <1>2, <1>3, <1>6, <2>4, OneMore, GoesOn DEF CompanyStep
<1>7. QED
  BY <1>5, <1>6


LEMMA StopSettles ==
  ASSUME Stands, NEW r \in Request, NEW p \in Person, Settled(p), p \in Holds(r), stops(r),
         p \notin failed'
  PROVE  Settled(p)'
<1>1. /\ request[r].todo # <<>> /\ request' = [request EXCEPT ![r] = Idle] /\ Goes(r)
      /\ UNCHANGED <<rows, account>>
  BY DEF stops, Goes
<1>2. request'[r] = Idle
  BY <1>1 DEF Stands, TypeOK
<1>3. p \in DOMAIN request[r].read => ~request[r].begun
  BY DEF stops
<1>4. Says(p)
  BY <1>1, <1>3, HeldByOne DEF Due, Says, Login
<1>5. QED
  BY <1>1, <1>2, <1>4, OutOfHand, LetGo DEF Says

LEMMA CallSettles ==
  ASSUME Stands, NEW r \in Request, NEW p \in Person, Settled(p), p \in Holds(r),
         NEW done \in SUBSET Person, callSupabase(r, done), p \notin failed'
  PROVE  Settled(p)'
<1> DEFINE step == Head(request[r].todo)
<1>1. /\ request[r].todo # <<>> /\ step \in AccountStep /\ rows' = rows /\ Goes(r)
      /\ account'[p] = IF p \in done THEN After(step) ELSE account[p]
      /\ done \subseteq DOMAIN request[r].read
      /\ done = DOMAIN request[r].read => NextStep(r)
      /\ done # DOMAIN request[r].read => request'[r] = Idle
  BY DEF callSupabase, Goes, Stands, TypeOK
<1>2. p \in DOMAIN request[r].read /\ Due(p, request[r].todo, request[r].read, request[r].begun)
  BY <1>1, HeldByOne DEF CompanyStep, AccountStep
<1>3. step # "deleteUsers" /\ (request[r].begun => p \in done)
  BY <1>2 DEF callSupabase
<1>4. After("ban") = "banned" /\ After("unban") = "open" /\ After("createUser") = "open"
      /\ After("deleteUser") = "none"
  BY DEF After
<1>5. \A s \in Request : s # r => Holds(s)' = Holds(s)
  BY <1>1, OutOfHand
<1>6. CASE \/ request[r].todo = <<"ban">> /\ Login(rows[p]) = "banned"
           \/ request[r].todo = <<"unban">> /\ Login(rows[p]) = "open"
           \/ request[r].todo = <<"deleteUser">> /\ ~rows[p].joined
  <2>1. request[r].begun
    BY <1>2, <1>6, Shapes DEF Due
  <2>2. Says(p)'
    BY <1>1, <1>3, <1>4, <1>6, <2>1, Shapes DEF Says, Login
  <2>3. Holds(r)' = {}
    BY <1>1, <1>6, Stepping, OutOfHand
  <2>4. QED
    BY <1>5, <2>2, <2>3, LetGo
<1>7. ASSUME NEW a, NEW b, request[r].todo = <<a, b>>, DOMAIN request[r].read = {p}, Says(p),
             b \notin CompanyStep,
             p \in done /\ NextStep(r) =>
               Due(p, request[r].todo, request[r].read, request[r].begun)'
      PROVE  Settled(p)'
  <2>1. CASE p \in done
    <3>1. NextStep(r)
      BY <1>1, <1>7, <2>1
    <3>2. QED
      BY <1>2, <1>5, <1>7, <2>1, <3>1, OneMore, GoesOn
  <2>2. CASE p \notin done
    <3>1. Holds(r)' = {} /\ Says(p)'
      BY <1>1, <1>2, <1>7, <2>2, OutOfHand DEF Says
    <3>2. QED
      BY <1>5, <3>1, LetGo
  <2>3. QED
    BY <2>1, <2>2
<1>8. CASE /\ request[r].todo = <<"createUser", "save">> /\ DOMAIN request[r].read = {p} /\ Says(p)
           /\ rows[p].id = request[r].read[p].id /\ request[r].read[p] \in Row
           /\ Login(request[r].read[p]) = "open"
  <2>1. ASSUME p \in done, NextStep(r)
        PROVE  Due(p, request[r].todo, request[r].read, request[r].begun)'
    <3>1. account'[p] = "open"
      BY <1>1, <1>4, <1>8, <2>1, Shapes
    <3>2. QED
      BY <1>1, <1>2, <1>8, <2>1, <3>1, OneMore DEF CompanyStep, Due
  <2>2. QED
    BY <1>7, <1>8, <2>1 DEF CompanyStep
<1>9. CASE /\ \/ request[r].todo = <<"ban", "update">> /\ request[r].read[p].status = "suspended"
              \/ request[r].todo = <<"unban", "update">> /\ request[r].read[p].status = "active"
           /\ DOMAIN request[r].read = {p} /\ Says(p) /\ rows[p].joined
  <2>1. PICK a : request[r].todo = <<a, "update">> /\ a \in {"ban", "unban"}
    BY <1>9
  <2>2. ASSUME p \in done, NextStep(r)
        PROVE  Due(p, request[r].todo, request[r].read, request[r].begun)'
    <3>1. account'[p] = IF request[r].read[p].status = "suspended" THEN "banned" ELSE "open"
      BY <1>1, <1>4, <1>9, <2>2, Shapes
    <3>2. QED
      BY <1>1, <1>2, <1>9, <2>1, <2>2, <3>1, OneMore DEF CompanyStep, Due
  <2>3. QED
    BY <1>7, <1>9, <2>1, <2>2 DEF CompanyStep
<1>10. QED
  BY <1>1, <1>2, <1>3, <1>6, <1>8, <1>9, Shapes DEF Due, AccountStep

LEMMA ContinuingTold ==
  ASSUME Stands, Told, NEW r \in Request, Continues(r)
  PROVE  Told'
<1>1. request[r].todo # <<>> /\ Goes(r)
  BY ContinuingStands
<1>2. shared' = shared /\ failed \subseteq failed'
  BY DEF Continues, save, update, handOver, suspendAll, activateAll, updateAll, remove,
         callSupabase, stops
<1>3. ASSUME NEW p \in Person, Settled(p), p \notin Holds(r) PROVE Settled(p)'
  <2>1. /\ \A s \in Request : s # r => Holds(s)' = Holds(s) /\ request'[s] = request[s]
        /\ p \notin Holds(r)'
    BY <1>1, <1>3, OutOfHand
  <2>2. p \notin DOMAIN request[r].read
        /\ ~(request[r].todo # <<>> /\ Head(request[r].todo) \in CompanyStep)
    BY <1>3, Values DEF Holds, Stands, TypeOK
  <2>3. rows'[p] = rows[p] /\ account'[p] = account[p]
    BY <2>2 DEF Continues, save, update, handOver, suspendAll, activateAll, updateAll, remove,
                callSupabase, stops, Does, CompanyStep
  <2>4. InHand(p) => InHand(p)'
    BY <1>3, <2>1 DEF InHand
  <2>5. QED
    BY <1>3, <2>1, <2>3, <2>4, Untouched
<1>4. ASSUME NEW p \in Person, Settled(p), p \in Holds(r), p \notin failed' PROVE Settled(p)'
  BY <1>4, SaveSettles, RemoveSettles, UpdateSettles, AllSettles, CallSettles, StopSettles
  DEF Continues
<1>5. QED
  BY <1>2, <1>3, <1>4 DEF Told


\* Whom a request that begins takes in hand, and how it finds them.
About(todo, read) == IF Head(todo) \in CompanyStep THEN Person ELSE DOMAIN read
Fresh(todo, read) ==
  \A p \in About(todo, read) : Says(p) =>
    IF p \in DOMAIN read THEN Due(p, todo, read, FALSE) ELSE ~rows[p].joined /\ account[p] = "none"

LEMMA OneIsFresh ==
  ASSUME NEW p \in Person, NEW todo, NEW row, Head(todo) \notin CompanyStep,
         Says(p) => Due(p, todo, Entity(p, row), FALSE)
  PROVE  Fresh(todo, Entity(p, row))
BY DEF Fresh, About, Entity

LEMMA TeamIsFresh ==
  ASSUME Stands, NEW r \in Request, NEW p \in Person, TeamRequest(r, p)
  PROVE  \E todo \in Opening, read \in Entities : Begins(r, todo, read) /\ Fresh(todo, read)
<1> DEFINE Found(todo, row) ==
      /\ todo \in Opening /\ Head(todo) \notin CompanyStep /\ row \in Row
      /\ Begins(r, todo, Entity(p, row))
      /\ Says(p) => Due(p, todo, Entity(p, row), FALSE)
<1>0. SUFFICES \E todo, row : Found(todo, row)
  BY OneIsFresh, Values
<1> USE DEF Opening, Saving, Removing, CompanyStep
<1>1. \A row : DOMAIN Entity(p, row) = {p} /\ Entity(p, row)[p] = row
  BY DEF Entity
<1>2. CASE cancelInvite(r, p)
  <2>1. rows[p] \in Row /\ ~rows[p].joined /\ Begins(r, <<"remove">>, Entity(p, rows[p]))
    BY <1>2, RowThere, Rows DEF cancelInvite, Stands
  <2>2. Says(p) => Due(p, <<"remove">>, Entity(p, rows[p]), FALSE)
    BY <1>1, <2>1 DEF Due
  <2>3. <<"remove">> \in Opening /\ Head(<<"remove">>) \notin CompanyStep
    BY Shapes
  <2>4. QED
    BY <2>1, <2>2, <2>3
<1>3. CASE resendInvite(r, p)
  <2>1. Found(<<"save">>, rows[p])
    BY <1>1, <1>3, RowThere, Rows, Shapes DEF resendInvite, Due, Stands, Says
  <2>2. QED
    BY <2>1
<1>4. CASE acceptInvite(r, p)
  <2>1. rows[p] \in Row /\ ~rows[p].joined
    BY <1>4, RowThere, Rows DEF acceptInvite, Stands
  <2>2. accepted(p) \in Row /\ accepted(p).id = rows[p].id /\ Login(accepted(p)) = "open"
    BY <2>1, Rows DEF accepted, Login
  <2>3. Found(<<"createUser", "save">>, accepted(p))
    BY <1>1, <1>4, <2>1, <2>2, Shapes DEF acceptInvite, Due
  <2>4. QED
    BY <2>3
<1>5. CASE \E role \in ASSIGNABLE_TEAM_ROLES : changeMemberRole(r, p, role)
  <2>1. PICK role \in ASSIGNABLE_TEAM_ROLES : changeMemberRole(r, p, role)
    BY <1>5
  <2>2. rows[p] \in Row
    BY <2>1, RowThere DEF changeMemberRole, Stands
  <2>3. PICK row : row = [rows[p] EXCEPT !.role = role]
    OBVIOUS
  <2>4. row \in Row /\ row.id = rows[p].id /\ Login(row) = Login(rows[p])
    BY <2>2, <2>3, Rows DEF Login, ASSIGNABLE_TEAM_ROLES
  <2>5. Says(p) => Due(p, <<"save">>, Entity(p, row), FALSE)
    BY <1>1, <2>4 DEF Due, Says
  <2>6. Found(<<"save">>, row)
    BY <2>1, <2>3, <2>4, <2>5, Shapes DEF changeMemberRole
  <2>7. QED
    BY <2>6
<1>6. CASE removeMember(r, p)
  <2>1. rows[p] \in Row
    BY <1>6, RowThere DEF removeMember, Stands
  <2>2. hasAccount(p) <=> rows[p].joined
    BY <2>1, Rows DEF hasAccount
  <2>3. CASE rows[p].joined
    <3>1. Found(<<"remove", "deleteUser">>, rows[p])
      BY <1>1, <1>6, <2>1, <2>2, <2>3, Shapes DEF removeMember, Due
    <3>2. QED
      BY <3>1
  <2>4. CASE ~rows[p].joined
    <3>1. Found(<<"remove">>, rows[p])
      BY <1>1, <1>6, <2>1, <2>2, <2>4, Shapes DEF removeMember, Due
    <3>2. QED
      BY <3>1
  <2>5. QED
    BY <2>3, <2>4
<1>7. ASSUME NEW status \in {"suspended", "active"}, NEW row, row = [rows[p] EXCEPT !.status = status],
             Exists(p)
      PROVE  /\ row \in Row /\ row.id = rows[p].id /\ row.joined = rows[p].joined
             /\ ~rows[p].joined => Login(row) = "none" /\ Login(rows[p]) = "none"
             /\ rows[p].joined => Login(row) = IF status = "suspended" THEN "banned" ELSE "open"
  <2>1. rows[p] \in Row
    BY <1>7, RowThere DEF Stands
  <2>2. QED
    BY <1>7, <2>1, Rows DEF Login
<1>8. CASE suspendMember(r, p)
  <2>1. PICK row : row = [rows[p] EXCEPT !.status = "suspended"]
    OBVIOUS
  <2>2. CASE rows[p].joined
    <3>1. Exists(p) /\ Begins(r, <<"save", "ban">>, Entity(p, row))
      BY <1>8, <2>1, <2>2 DEF suspendMember
    <3>2. Says(p) => Due(p, <<"save", "ban">>, Entity(p, row), FALSE)
      BY <1>1, <1>7, <2>1, <2>2, <3>1 DEF Due
    <3>3. Found(<<"save", "ban">>, row)
      BY ZenonT(60), <1>7, <2>1, <3>1, <3>2, Shapes
    <3>4. QED
      BY <3>3
  <2>3. CASE ~rows[p].joined
    <3>1. Found(<<"save">>, row)
      BY <1>1, <1>7, <1>8, <2>1, <2>3, Shapes DEF suspendMember, Due, Says
    <3>2. QED
      BY <3>1
  <2>4. QED
    BY <2>2, <2>3
<1>9. CASE activateMember(r, p)
  <2>1. PICK row : row = [rows[p] EXCEPT !.status = "active"]
    OBVIOUS
  <2>2. CASE rows[p].joined
    <3>1. Exists(p) /\ Begins(r, <<"save", "unban">>, Entity(p, row))
      BY <1>9, <2>1, <2>2 DEF activateMember
    <3>2. Says(p) => Due(p, <<"save", "unban">>, Entity(p, row), FALSE)
      BY <1>1, <1>7, <2>1, <2>2, <3>1 DEF Due
    <3>3. Found(<<"save", "unban">>, row)
      BY ZenonT(60), <1>7, <2>1, <3>1, <3>2, Shapes
    <3>4. QED
      BY <3>3
  <2>3. CASE ~rows[p].joined
    <3>1. Found(<<"save">>, row)
      BY <1>1, <1>7, <1>9, <2>1, <2>3, Shapes DEF activateMember, Due, Says
    <3>2. QED
      BY <3>1
  <2>4. QED
    BY <2>2, <2>3
<1>10. QED
  BY <1>2, <1>3, <1>4, <1>5, <1>6, <1>8, <1>9 DEF TeamRequest

LEMMA AdminIsFresh ==
  ASSUME Stands, NEW r \in Request, NEW p \in Person, AdminRequest(r, p)
  PROVE  \E todo \in Opening, read \in Entities : Begins(r, todo, read) /\ Fresh(todo, read)
<1> USE DEF Opening, Removing, Updating, CompanyStep
<1>1. \A row : DOMAIN Entity(p, row) = {p} /\ Entity(p, row)[p] = row
  BY DEF Entity
<1>2. CASE suspendUser(r, p) \/ reactivateUser(r, p)
  <2>1. rows[p] \in Row /\ rows[p].joined
    BY <1>2, RowThere DEF suspendUser, reactivateUser, Joined, Stands
  <2>2. PICK todo, status :
          /\ \/ todo = <<"ban", "update">> /\ status = "suspended"
             \/ todo = <<"unban", "update">> /\ status = "active"
          /\ Begins(r, todo, Entity(p, [rows[p] EXCEPT !.status = status]))
    BY <1>2 DEF suspendUser, reactivateUser
  <2>3. PICK row : row = [rows[p] EXCEPT !.status = status]
    OBVIOUS
  <2>4. row \in Row /\ row.status = status
    BY <2>1, <2>2, <2>3, Rows
  <2>5. Says(p) => Due(p, todo, Entity(p, row), FALSE)
    BY <1>1, <2>1, <2>2, <2>4 DEF Due
  <2>6. todo \in Opening /\ Head(todo) \notin CompanyStep
    BY <2>2, Shapes
  <2>7. QED
    BY <2>2, <2>3, <2>4, <2>5, <2>6, OneIsFresh, Values
<1>3. CASE removeUser(r, p)
  <2>1. rows[p] \in Row /\ rows[p].joined
    BY <1>3, RowThere DEF removeUser, Joined, Stands
  <2>2. Says(p) => Due(p, <<"remove", "deleteUser">>, Entity(p, rows[p]), FALSE)
    BY <1>1, <2>1 DEF Due
  <2>3. <<"remove", "deleteUser">> \in Opening /\ Head(<<"remove", "deleteUser">>) \notin CompanyStep
    BY Shapes
  <2>4. QED
    BY <1>3, <2>1, <2>2, <2>3, OneIsFresh, Values DEF removeUser
<1>4. CASE \E owner \in Person : changeOwner(r, owner, p)
  <2>1. PICK owner \in Person : changeOwner(r, owner, p) /\ handsOver(owner, p) \in Entities
    <3>1. PICK owner \in Person : changeOwner(r, owner, p)
      BY <1>4
    <3>2. rows[owner] \in Row /\ rows[p] \in Row
      BY <3>1, RowThere DEF changeOwner, Joined, Stands
    <3>3. handsOver(owner, p) \in [{owner, p} -> Row]
      BY <3>2, Rows DEF handsOver
    <3>4. QED
      BY <3>1, <3>3 DEF Entities
  <2>2. Fresh(<<"handOver">>, handsOver(owner, p))
    BY Shapes DEF Fresh, About, Due
  <2>3. QED
    BY <2>1, <2>2 DEF changeOwner
<1>5. QED
  BY <1>2, <1>3, <1>4 DEF AdminRequest

LEMMA CompanyIsFresh ==
  ASSUME Stands, NEW r \in Request, CompanyRequest(r)
  PROVE  \E todo \in Opening, read \in Entities : Begins(r, todo, read) /\ Fresh(todo, read)
<1>1. Restrict(rows, Joined) \in [Joined -> Row]
  BY RowThere DEF Restrict, Joined, Stands
<1>2. Restrict(rows, Joined) \in Entities /\ DOMAIN Restrict(rows, Joined) = Joined
  BY <1>1 DEF Entities, Joined
<1>3. \A todo \in Sweeping : Fresh(todo, Restrict(rows, Joined))
  BY <1>2 DEF Fresh, About, Due, Sweeping, Joined, Says, Login
<1>4. QED
  BY <1>2, <1>3 DEF CompanyRequest, suspendCompany, reactivateCompany, deleteCompany, Sweeping,
     Opening

LEMMA BeginningTold ==
  ASSUME Stands, Told, NEW r \in Request, request[r].todo = <<>>,
         NEW todo \in Opening, NEW read \in Entities, Begins(r, todo, read), Fresh(todo, read)
  PROVE  Told'
<1>1. /\ UNCHANGED <<rows, account, failed>> /\ shared \subseteq shared'
      /\ request'[r].todo = todo /\ request'[r].read = read /\ ~request'[r].begun
      /\ \A s \in Request : s # r => request'[s] = request[s]
  BY DEF Begins, Stands, TypeOK
<1>2. todo # <<>> /\ Holds(r)' = About(todo, read) /\ Holds(r) = {}
  BY <1>1, Openings DEF Holds, About, Stands, Held
<1>3. \A s \in Request : s # r => Holds(s)' = Holds(s)
  BY <1>1 DEF Holds
<1>4. ASSUME NEW p \in Person, Settled(p), p \notin About(todo, read) PROVE Settled(p)'
  <2>1. \A s \in Request : p \in Holds(s)' => p \in Holds(s) /\ request'[s] = request[s]
    BY <1>1, <1>2, <1>3, <1>4
  <2>2. InHand(p) => InHand(p)'
    BY <1>2, <1>3 DEF InHand
  <2>3. QED
    BY <1>1, <1>4, <2>1, <2>2, Untouched
<1>5. ASSUME NEW p \in Person, Settled(p), p \in About(todo, read), p \notin shared'
      PROVE  Settled(p)'
  <2>1. \A s \in Request : p \notin Holds(s)
    BY <1>5 DEF Begins, About
  <2>2. Says(p)
    BY <1>5, <2>1 DEF Settled, InHand
  <2>3. Alone(p)' /\ InHand(p)'
    BY <1>2, <1>3, <1>5, <2>1 DEF Alone, InHand
  <2>4. p \in DOMAIN read => Due(p, todo, read, FALSE)
    BY <1>5, <2>2 DEF Fresh
  <2>5. p \in DOMAIN read => Due(p, request[r].todo, request[r].read, request[r].begun)'
    BY <1>1, <2>4 DEF Due, Says
  <2>6. p \notin DOMAIN read => ~rows'[p].joined /\ account'[p] = "none"
    BY <1>1, <1>5, <2>2 DEF Fresh
  <2>7. \A s \in Request : p \in Holds(s)' => s = r
    BY <1>3, <2>1
  <2>8. QED
    BY <1>1, <2>3, <2>5, <2>6, <2>7 DEF Settled
<1>6. QED
  BY <1>1, <1>4, <1>5 DEF Told

LEMMA InvitingTold ==
  ASSUME Stands, Told, NEW p \in Person, NEW role \in ASSIGNABLE_TEAM_ROLES, inviteMember(p, role)
  PROVE  Told'
<1>1. /\ rows[p].id = 0 /\ ~rows'[p].joined /\ UNCHANGED <<request, account, shared, failed>>
      /\ \A q \in Person : q # p => rows'[q] = rows[q]
  BY DEF inviteMember, Exists, Stands, TypeOK
<1>2. ~rows[p].joined /\ \A row \in Row : row.id # 0
  BY <1>1, RowThere, BoundAssumption, Rows DEF Exists, Stands
<1>3. \A s \in Request : Holds(s)' = Holds(s)
  BY <1>1 DEF Holds
<1>4. \A q \in Person : InHand(q)' = InHand(q)
  BY <1>3 DEF InHand
<1>5. ASSUME NEW q \in Person, q # p, Settled(q) PROVE Settled(q)'
  BY <1>1, <1>3, <1>4, <1>5, Untouched
<1>6. ASSUME Settled(p) PROVE Settled(p)'
  <2>1. Alone(p)' /\ (~InHand(p)' => Says(p)')
    BY <1>1, <1>2, <1>3, <1>4, <1>6 DEF Settled, Alone, Says, Login
  <2>2. ASSUME NEW s \in Request, p \in Holds(s)'
        PROVE  IF p \in DOMAIN request'[s].read
               THEN Due(p, request[s].todo, request[s].read, request[s].begun)'
               ELSE ~rows'[p].joined /\ account'[p] = "none"
    <3>1. p \in Holds(s) /\ request'[s] = request[s]
      BY <1>1, <1>3, <2>2
    <3>2. CASE p \in DOMAIN request[s].read
      <4>1. Due(p, request[s].todo, request[s].read, request[s].begun)
        BY <1>6, <3>1, <3>2 DEF Settled
      <4>2. Due(p, request[s].todo, request[s].read, request[s].begun)'
        BY <1>1, <1>2, <3>1, <4>1 DEF Due, Says, Login
      <4>3. QED
        BY <3>1, <3>2, <4>2
    <3>3. CASE p \notin DOMAIN request[s].read
      BY <1>1, <1>6, <3>1, <3>3 DEF Settled
    <3>4. QED
      BY <3>2, <3>3
  <2>3. QED
    BY <2>1, <2>2 DEF Settled
<1>7. QED
  BY <1>1, <1>5, <1>6 DEF Told

LEMMA ToldStays == Stands /\ Told /\ [Next]_vars => Told'
<1> SUFFICES ASSUME Stands, Told, [Next]_vars PROVE Told'
  OBVIOUS
<1>1. ASSUME NEW r \in Request, Continues(r) PROVE Told'
  BY <1>1, ContinuingTold
<1>2. ASSUME NEW r \in Request, Free(r),
             (\E p \in Person : TeamRequest(r, p) \/ AdminRequest(r, p)) \/ CompanyRequest(r)
      PROVE  Told'
  <2>1. PICK todo \in Opening, read \in Entities : Begins(r, todo, read) /\ Fresh(todo, read)
    BY <1>2, TeamIsFresh, AdminIsFresh, CompanyIsFresh
  <2>2. QED
    BY <1>2, <2>1, BeginningTold DEF Free
<1>3. ASSUME NEW p \in Person, NEW role \in ASSIGNABLE_TEAM_ROLES, inviteMember(p, role)
      PROVE  Told'
  BY <1>3, InvitingTold
<1>4. ASSUME UNCHANGED <<rows, account, request, failed>>, shared \subseteq shared' PROVE Told'
  BY <1>4, Untouched DEF Told, Holds, InHand
<1>5. ASSUME NEW p \in Person, dispatchOrdersToDriver(p) \/ tripEnds(p) PROVE Told'
  BY <1>4, <1>5 DEF dispatchOrdersToDriver, tripEnds
<1>6. CASE UNCHANGED vars
  BY <1>4, <1>6 DEF vars
<1>7. QED
  BY <1>1, <1>2, <1>3, <1>5, <1>6 DEF Next

\* Whoever is in no request's hand, has never been in two requests' and was not left half-way
\* can log in exactly when the row says so, for any number of people and requests: every
\* request that reaches its end, and every one that stops before its first write, leaves the
\* account at Supabase and the row in user_roles agreeing, whether it tells Supabase first
\* (acceptInvite, suspendUser) or last (suspendMember, removeMember).
THEOREM LoginsAgree == Spec => []LoginFollowsStatus
<1>1. Init => Told
  <2> SUFFICES ASSUME Init, NEW p \in Person PROVE Settled(p)
    BY DEF Told
  <2>1. \A r \in Request : Holds(r) = {}
    BY Values DEF Init, Holds
  <2>2. Says(p)
    BY FounderAssumption DEF Init, Says, Login, NoRow
  <2>3. QED
    BY <2>1, <2>2 DEF Settled, Alone
<1>2. Spec => [](Stands /\ Told)
  BY <1>1, StandsFirst, Standing, ToldStays, PTL DEF Spec
<1>3. Told => LoginFollowsStatus
  BY DEF Told, Settled, Says, Login, LoginFollowsStatus, Joined
<1>4. QED
  BY <1>2, <1>3, PTL

=============================================================================
