----------------------------- MODULE AdminsProofs -----------------------------
(***************************************************************************)
(* What Admins promises, for any number of seats, emails, roles and        *)
(* requests: the type invariant, what the guard's copy of a row may say,   *)
(* that a removal lasts, and who an account at Supabase belongs to.        *)
(***************************************************************************)
EXTENDS Admins, TLAPS

\* An invitation, an acceptance and an update carry an administrator.
SetsRight == \A r \in Request : request[r].op \in {"invite", "accept", "update"} =>
               request[r].sets \in AdminUser

\* An invitation that was ever sent has a role, and is what a cancellation or an
\* acceptance is about.
RolesRight == \A s \in Seat : invite[s].at # "none" => invite[s].role \in Role
InvitedRight == \A r \in Request : request[r].op \in {"cancel", "accept"} =>
                  \A s \in request[r].on : invite[s].at # "none"

\* A request that is over is about nobody.
OverIsOver == \A r \in Request : request[r].op = "none" => request[r].on = {}

Typed == TypeOK /\ SetsRight /\ RolesRight /\ InvitedRight /\ OverIsOver

Invite == [at : {"none", "open", "expired", "accepted", "gone"}, role : Role \cup {"none"}]

-----------------------------------------------------------------------------
(* How a request begins, goes on and ends *)

LEMMA NoAdminIsNone ==
  /\ NoAdmin \notin AdminUser /\ ~NoAdmin.isActive
  /\ NoRequest \in RequestState /\ NoRequest.op = "none" /\ NoRequest.on = {} /\ NoRequest.at = "none"
<1>1. NoAdmin \notin AdminUser /\ ~NoAdmin.isActive
  BY AdminAssumption DEF NoAdmin, AdminUser
<1>2. NoRequest \in RequestState /\ NoRequest.op = "none" /\ NoRequest.on = {} /\ NoRequest.at = "none"
  BY DEF NoRequest, RequestState
<1> QED BY <1>1, <1>2

LEMMA RequestBegins ==
  ASSUME TypeOK, NEW r \in Request, NEW s \in Seat, NEW op, NEW sets, Begin(r, op, s, sets)
  PROVE  /\ request'[r].op = op /\ request'[r].at = "begun" /\ request'[r].on = {s} /\ request'[r].sets = sets
         /\ \A q \in Request \ {r} : request'[q] = request[q]
         /\ request[r].op = "none"
         /\ UNCHANGED <<tableVars, guardVars, failed, removed>>
<1>1. /\ request'[r] = [op |-> op, at |-> "begun", on |-> {s}, sets |-> sets]
      /\ \A q \in Request \ {r} : request'[q] = request[q]
      /\ request[r].op = "none"
      /\ UNCHANGED <<tableVars, guardVars, failed, removed>>
  BY DEF TypeOK, Begin
<1> QED BY <1>1

LEMMA RequestGoes ==
  ASSUME TypeOK, NEW r \in Request, NEW at \in {"called", "written"}, GoesTo(r, at)
  PROVE  /\ request' \in [Request -> RequestState]
         /\ request'[r].op = request[r].op /\ request'[r].at = at
         /\ request'[r].on = request[r].on /\ request'[r].sets = request[r].sets
         /\ \A q \in Request \ {r} : request'[q] = request[q]
<1>1. request[r] \in RequestState
  BY DEF TypeOK
<1>2. at \in {"none", "begun", "called", "written"}
  OBVIOUS
<1> DEFINE new == [request[r] EXCEPT !.at = at]
<1>3. /\ new \in RequestState /\ new.op = request[r].op /\ new.at = at
      /\ new.on = request[r].on /\ new.sets = request[r].sets
  BY <1>1, <1>2 DEF RequestState
<1>4. request' = [request EXCEPT ![r] = new]
  BY DEF GoesTo
<1> HIDE DEF new
<1> QED BY <1>3, <1>4 DEF TypeOK

LEMMA RequestEnds ==
  ASSUME TypeOK, NEW r \in Request, Ends(r)
  PROVE  /\ request' \in [Request -> RequestState]
         /\ request'[r].op = "none" /\ request'[r].on = {} /\ request'[r].at = "none"
         /\ \A q \in Request \ {r} : request'[q] = request[q]
  BY NoAdminIsNone DEF TypeOK, Ends

\* What stays right when no new request begins and no invitation is forgotten.
LEMMA NobodyBegins ==
  ASSUME Typed, TypeOK', RolesRight',
         \A q \in Request : \/ request'[q].op = "none" /\ request'[q].on = {}
                            \/ /\ request'[q].op = request[q].op
                               /\ request'[q].on = request[q].on
                               /\ request'[q].sets = request[q].sets,
         \A s \in Seat : invite[s].at # "none" => invite'[s].at # "none"
  PROVE  Typed'
<1>1. SetsRight'
  BY DEF Typed, SetsRight
<1>2. InvitedRight'
  <2>1. \A q \in Request : request[q].on \subseteq Seat
    BY DEF Typed, TypeOK, RequestState
  <2> QED BY <2>1 DEF Typed, InvitedRight
<1>3. OverIsOver'
  BY DEF Typed, OverIsOver
<1> QED BY <1>1, <1>2, <1>3 DEF Typed

LEMMA BeginTyped ==
  ASSUME Typed, NEW r \in Request, NEW s \in Seat, NEW sets \in AdminUser \cup {NoAdmin},
         NEW op \in {"invite", "cancel", "accept", "update", "suspend", "reactivate", "remove"},
         op \in {"invite", "accept", "update"} => sets \in AdminUser,
         op \in {"cancel", "accept"} => invite[s].at # "none",
         Begin(r, op, s, sets)
  PROVE  Typed'
<1>1. [op |-> op, at |-> "begun", on |-> {s}, sets |-> sets] \in RequestState
  BY DEF RequestState
<1>2. request' \in [Request -> RequestState]
  BY <1>1 DEF Begin, Typed, TypeOK
<1>3. begun' \in 0..MaxBegun
  BY AdminAssumption DEF Begin, Typed, TypeOK
<1>4. crossed' \subseteq Seat
  BY DEF Begin, Typed, TypeOK
<1>5. TypeOK'
  BY <1>2, <1>3, <1>4 DEF Begin, Typed, TypeOK, tableVars, guardVars
<1>6. SetsRight' /\ InvitedRight' /\ RolesRight' /\ OverIsOver'
  <2>1. /\ request'[r].op = op /\ request'[r].on = {s} /\ request'[r].sets = sets
        /\ \A q \in Request \ {r} : request'[q] = request[q]
        /\ UNCHANGED tableVars
    BY RequestBegins DEF Typed
  <2> QED BY <2>1 DEF Typed, SetsRight, InvitedRight, RolesRight, OverIsOver, tableVars
<1> QED BY <1>5, <1>6 DEF Typed

LEMMA StartTyped == ASSUME Typed, NEW r \in Request, Start(r) PROVE Typed'
<1>1. \A role \in Role, isActive \in BOOLEAN : [role |-> role, isActive |-> isActive] \in AdminUser
  BY DEF AdminUser
<1>2. CASE inviteAdmin(r)
  BY <1>1, <1>2, BeginTyped DEF inviteAdmin
<1>3. CASE cancelAdminInvite(r)
  BY <1>3, BeginTyped DEF cancelAdminInvite, Unaccepted
<1>4. CASE acceptAdminInvite(r)
  <2>1. PICK s \in Seat : /\ invite[s].at = "open"
                          /\ Begin(r, "accept", s, [role |-> invite[s].role, isActive |-> TRUE])
    BY <1>4 DEF acceptAdminInvite
  <2>2. [role |-> invite[s].role, isActive |-> TRUE] \in AdminUser
    BY <1>1, <2>1 DEF Typed, RolesRight
  <2> QED BY <2>1, <2>2, BeginTyped
<1>5. CASE updateAdmin(r)
  BY <1>1, <1>5, BeginTyped DEF updateAdmin
<1>6. CASE suspendAdmin(r) \/ reactivateAdmin(r) \/ removeAdmin(r)
  BY <1>6, BeginTyped DEF suspendAdmin, reactivateAdmin, removeAdmin
<1> QED BY <1>2, <1>3, <1>4, <1>5, <1>6 DEF Start

-----------------------------------------------------------------------------
(* Every step of a request keeps the types. *)

LEMMA Moves ==
  ASSUME Typed, NEW r \in Request,
         Ends(r) \/ \E at \in {"called", "written"} : GoesTo(r, at)
  PROVE  /\ request' \in [Request -> RequestState]
         /\ \A q \in Request : \/ request'[q].op = "none" /\ request'[q].on = {}
                               \/ /\ request'[q].op = request[q].op
                                  /\ request'[q].on = request[q].on
                                  /\ request'[q].sets = request[q].sets
<1>1. CASE Ends(r)
  BY <1>1, RequestEnds DEF Typed
<1>2. ASSUME NEW at \in {"called", "written"}, GoesTo(r, at)
      PROVE  /\ request' \in [Request -> RequestState]
             /\ \A q \in Request : /\ request'[q].op = request[q].op
                                   /\ request'[q].on = request[q].on
                                   /\ request'[q].sets = request[q].sets
  BY <1>2, RequestGoes DEF Typed
<1> QED BY <1>1, <1>2

LEMMA InviteStepTyped ==
  ASSUME Typed, NEW r \in Request, NEW s \in Seat, insertInvite(r, s) \/ deleteInvite(r, s)
  PROVE  Typed'
<1>1. Ends(r)
  BY DEF insertInvite, deleteInvite
<1>2. CASE insertInvite(r, s)
  <2>1. request[r].sets.role \in Role
    BY <1>2 DEF Typed, SetsRight, AdminUser, insertInvite, IsAt
  <2>2. invite' = [invite EXCEPT ![s] = [at |-> "open", role |-> request[r].sets.role]]
    BY <1>2 DEF insertInvite
  <2>3. [at |-> "open", role |-> request[r].sets.role] \in Invite
    BY <2>1 DEF Invite
  <2>4. invite' \in [Seat -> Invite]
    BY <2>2, <2>3 DEF Typed, TypeOK, Invite
  <2>5. /\ invite'[s].at = "open" /\ invite'[s].role \in Role
        /\ \A o \in Seat \ {s} : invite'[o] = invite[o]
    BY <2>1, <2>2 DEF Typed, TypeOK
  <2>6. TypeOK'
    BY <1>1, <1>2, <2>4, Moves DEF Typed, TypeOK, Invite, insertInvite, guardVars, historyVars
  <2>7. RolesRight'
    BY <2>5 DEF Typed, RolesRight
  <2> QED BY <1>1, <2>5, <2>6, <2>7, Moves, NobodyBegins
<1>3. CASE deleteInvite(r, s)
  <2>1. invite' = [invite EXCEPT ![s].at = "gone"]
    BY <1>3 DEF deleteInvite
  <2>2. invite[s].at # "none"
    BY <1>3 DEF Typed, InvitedRight, deleteInvite, IsAt
  <2>3. invite \in [Seat -> Invite]
    BY DEF Typed, TypeOK, Invite
  <2>4. /\ invite' \in [Seat -> Invite]
        /\ invite'[s].at = "gone" /\ invite'[s].role = invite[s].role
        /\ \A o \in Seat \ {s} : invite'[o] = invite[o]
    BY <2>1, <2>3 DEF Invite
  <2>5. TypeOK'
    BY <1>1, <1>3, <2>4, Moves DEF Typed, TypeOK, Invite, deleteInvite, guardVars, historyVars
  <2>6. RolesRight'
    BY <2>2, <2>4 DEF Typed, RolesRight
  <2> QED BY <1>1, <2>4, <2>5, <2>6, Moves, NobodyBegins
<1> QED BY <1>2, <1>3

LEMMA JoinTyped == ASSUME Typed, NEW r \in Request, NEW s \in Seat, join(r, s) PROVE Typed'
<1>1. request[r].op = "accept" /\ request[r].on = {s}
  BY DEF join, IsAt
<1>2. request[r].sets \in AdminUser /\ invite[s].at # "none"
  BY <1>1 DEF Typed, SetsRight, InvitedRight
<1>3. invite \in [Seat -> Invite]
  BY DEF Typed, TypeOK, Invite
<1>4. /\ invite' \in [Seat -> Invite]
      /\ invite'[s].at # "none" /\ invite'[s].role = invite[s].role
      /\ \A o \in Seat \ {s} : invite'[o] = invite[o]
  <2>1. CASE invite' = invite
    BY <1>2, <1>3, <2>1
  <2>2. CASE invite' = [invite EXCEPT ![s].at = IF invite[s].at = "gone" THEN "gone" ELSE "accepted"]
    <3> DEFINE at == IF invite[s].at = "gone" THEN "gone" ELSE "accepted"
    <3>1. at \in {"gone", "accepted"}
      OBVIOUS
    <3>2. invite' = [invite EXCEPT ![s].at = at]
      BY <2>2
    <3> HIDE DEF at
    <3> QED BY <1>3, <3>1, <3>2 DEF Invite
  <2>3. invite' = [invite EXCEPT ![s].at = IF @ = "gone" THEN "gone" ELSE "accepted"] \/ invite' = invite
    BY DEF join
  <2> QED BY <1>3, <2>1, <2>2, <2>3
<1>5. admin' \in [Seat -> AdminUser \cup {NoAdmin}] /\ failed' \subseteq Seat
  BY <1>2 DEF Typed, TypeOK, join
<1>6. Ends(r) \/ \E at \in {"called", "written"} : GoesTo(r, at)
  BY DEF join
<1>7. TypeOK'
  BY <1>4, <1>5, <1>6, Moves DEF Typed, TypeOK, Invite, join, guardVars
<1>8. RolesRight'
  BY <1>2, <1>4 DEF Typed, RolesRight
<1> QED BY <1>4, <1>6, <1>7, <1>8, Moves, NobodyBegins

\* Steps that leave the invitations alone.
LEMMA InviteStays ==
  ASSUME Typed, NEW r \in Request, invite' = invite, TypeOK',
         Ends(r) \/ \E at \in {"called", "written"} : GoesTo(r, at)
  PROVE  Typed'
<1>1. RolesRight'
  BY DEF Typed, RolesRight
<1> QED BY <1>1, Moves, NobodyBegins

LEMMA CreateTyped == ASSUME Typed, NEW r \in Request, NEW s \in Seat, create(r, s) PROVE Typed'
<1>1. Ends(r) \/ \E at \in {"called", "written"} : GoesTo(r, at)
  BY DEF create, createUser
<1>2. account' \in [Seat -> {"none", "open", "banned", "deleted"}]
  BY DEF Typed, TypeOK, create, createUser
<1>3. TypeOK'
  BY <1>1, <1>2, Moves DEF Typed, TypeOK, create, guardVars, historyVars
<1> QED BY <1>1, <1>3, InviteStays DEF create

\* A suspension and a reactivation, taken apart.
LEMMA SetsWhat ==
  ASSUME NEW r \in Request, NEW s \in Seat, setActive(r, s)
  PROVE  /\ \E isActive \in BOOLEAN : updateActive(s, isActive)
         /\ request[r].op \in {"suspend", "reactivate"} /\ request[r].on = {s}
<1>1. PICK set \in {<<"suspend", FALSE>>, <<"reactivate", TRUE>>} :
        IsAt(r, set[1], "called", s) /\ updateActive(s, set[2])
  BY DEF setActive
<1>2. CASE set = <<"suspend", FALSE>>
  BY <1>1, <1>2 DEF IsAt
<1>3. CASE set = <<"reactivate", TRUE>>
  BY <1>1, <1>3 DEF IsAt
<1> QED BY <1>1, <1>2, <1>3

LEMMA AdminStepTyped ==
  ASSUME Typed, NEW r \in Request, NEW s \in Seat,
         saveAdmin(r, s) \/ setActive(r, s) \/ deleteAdmin(r, s)
  PROVE  Typed'
<1>1. \E at \in {"called", "written"} : GoesTo(r, at)
  BY DEF saveAdmin, setActive, deleteAdmin
<1>2. admin' \in [Seat -> AdminUser \cup {NoAdmin}]
  <2>1. CASE saveAdmin(r, s)
    BY <2>1 DEF Typed, TypeOK, SetsRight, saveAdmin, IsAt
  <2>2. ASSUME NEW isActive \in BOOLEAN, updateActive(s, isActive), IsAdmin(s)
        PROVE  admin' \in [Seat -> AdminUser \cup {NoAdmin}]
    <3>1. admin[s] \in AdminUser
      BY <2>2 DEF Typed, TypeOK, IsAdmin
    <3>2. [admin[s] EXCEPT !.isActive = isActive] \in AdminUser
      BY <3>1 DEF AdminUser
    <3> QED BY <2>2, <3>2 DEF updateActive, Typed, TypeOK
  <2>3. CASE setActive(r, s)
    <3> PICK isActive \in BOOLEAN : updateActive(s, isActive)
      BY <2>3, SetsWhat
    <3>1. CASE IsAdmin(s)
      BY <2>2, <3>1
    <3>2. CASE ~IsAdmin(s)
      <4>1. admin' = admin
        BY <3>2 DEF updateActive
      <4> QED BY <4>1 DEF Typed, TypeOK
    <3> QED BY <3>1, <3>2
  <2>4. CASE deleteAdmin(r, s)
    <3>1. admin' = [admin EXCEPT ![s] = NoAdmin]
      BY <2>4 DEF deleteAdmin
    <3> QED BY <3>1 DEF Typed, TypeOK
  <2> QED BY <2>1, <2>3, <2>4
<1>3. removed' \subseteq Seat
  BY DEF Typed, TypeOK, saveAdmin, setActive, deleteAdmin, historyVars
<1>4. TypeOK'
  BY <1>1, <1>2, <1>3, Moves DEF Typed, TypeOK, saveAdmin, setActive, deleteAdmin, guardVars, historyVars
<1> QED BY <1>1, <1>4, InviteStays DEF saveAdmin, setActive, deleteAdmin

LEMMA SupabaseTyped ==
  ASSUME Typed, NEW r \in Request, NEW s \in Seat, callSupabase(r, s) \/ deleteUser(r, s)
  PROVE  Typed'
<1>1. \E at \in {"called", "written"} : GoesTo(r, at)
  BY DEF callSupabase, deleteUser
<1>2. account' \in [Seat -> {"none", "open", "banned", "deleted"}] /\ failed' \subseteq Seat
  BY DEF Typed, TypeOK, callSupabase, deleteUser, deletesUser, historyVars
<1>3. TypeOK'
  BY <1>1, <1>2, Moves DEF Typed, TypeOK, callSupabase, deleteUser, guardVars, historyVars
<1> QED BY <1>1, <1>3, InviteStays DEF callSupabase, deleteUser

LEMMA LastStepTyped ==
  ASSUME Typed, NEW r \in Request, fails(r) \/ \E s \in Seat : invalidate(r, s)
  PROVE  Typed'
<1>1. Ends(r)
  BY DEF fails, invalidate, deletesEntry
<1>2. request[r].on \subseteq Seat
  BY DEF Typed, TypeOK, RequestState
<1>3. failed' \subseteq Seat /\ overtaken' \subseteq Seat /\ cached' \in [Seat -> AdminUser \cup {NoAdmin}]
  BY <1>2 DEF Typed, TypeOK, fails, invalidate, deletesEntry, historyVars
<1>4. TypeOK'
  BY <1>1, <1>3, Moves DEF Typed, TypeOK, fails, invalidate, tableVars, historyVars
<1> QED BY <1>1, <1>4, InviteStays DEF fails, invalidate, tableVars

LEMMA ContinueTyped == ASSUME Typed, NEW r \in Request, Continue(r) PROVE Typed'
  BY InviteStepTyped, CreateTyped, JoinTyped, AdminStepTyped, SupabaseTyped, LastStepTyped DEF Continue

-----------------------------------------------------------------------------
(* So do tokens, the guard and the cache. *)

LEMMA TokenTyped == ASSUME Typed, NEW s \in Seat, resendAdminInvite(s) \/ tokenExpires(s) PROVE Typed'
<1>1. PICK at \in {"open", "expired"} : invite' = [invite EXCEPT ![s].at = at]
  BY DEF resendAdminInvite, tokenExpires
<1>2. invite \in [Seat -> Invite] /\ invite[s].at # "none"
  BY DEF Typed, TypeOK, Invite, resendAdminInvite, tokenExpires, Unaccepted
<1>3. /\ invite' \in [Seat -> Invite]
      /\ invite'[s].at = at /\ invite'[s].role = invite[s].role
      /\ \A o \in Seat \ {s} : invite'[o] = invite[o]
  BY <1>1, <1>2 DEF Invite
<1>4. TypeOK' /\ request' = request
  BY <1>3 DEF Typed, TypeOK, Invite, resendAdminInvite, tokenExpires, guardVars, historyVars
<1>5. RolesRight'
  BY <1>2, <1>3 DEF Typed, RolesRight
<1> QED BY <1>1, <1>3, <1>4, <1>5, NobodyBegins

LEMMA GuardTyped == ASSUME Typed, NEW s \in Seat, Guard(s) PROVE Typed'
<1>1. /\ cached' \in [Seat -> AdminUser \cup {NoAdmin}]
      /\ reading' \in [Seat -> AdminUser \cup {NoAdmin}]
      /\ overtaken' \subseteq Seat
  <2>1. CASE guardReads(s)
    BY <2>1 DEF Typed, TypeOK, guardReads
  <2>2. CASE guardCaches(s)
    BY <2>2 DEF Typed, TypeOK, guardCaches
  <2>3. CASE entryExpires(s)
    BY <2>3 DEF Typed, TypeOK, entryExpires, expires
  <2> QED BY <2>1, <2>2, <2>3 DEF Guard
<1>2. UNCHANGED <<tableVars, request, begun, historyVars>>
  BY DEF Guard, guardReads, guardCaches, entryExpires
<1>3. TypeOK'
  BY <1>1, <1>2 DEF Typed, TypeOK, tableVars, historyVars
<1> QED BY <1>2, <1>3 DEF Typed, SetsRight, RolesRight, InvitedRight, OverIsOver, tableVars

LEMMA InitTyped == Init => Typed
<1> SUFFICES ASSUME Init PROVE Typed
  OBVIOUS
<1>1. PICK seated \in {{}} \cup {{s} : s \in Seat}, role \in Role :
        /\ invite = [s \in Seat |-> IF s \in seated THEN [at |-> "accepted", role |-> role]
                                                   ELSE [at |-> "none", role |-> "none"]]
        /\ account = [s \in Seat |-> IF s \in seated THEN "open" ELSE "none"]
        /\ admin = [s \in Seat |-> IF s \in seated THEN [role |-> role, isActive |-> TRUE] ELSE NoAdmin]
  BY DEF Init
<1>2. invite \in [Seat -> Invite]
  <2>1. [at |-> "accepted", role |-> role] \in Invite /\ [at |-> "none", role |-> "none"] \in Invite
    BY DEF Invite
  <2> QED BY <1>1, <2>1
<1>3. admin \in [Seat -> AdminUser \cup {NoAdmin}]
  BY <1>1 DEF AdminUser
<1>4. account \in [Seat -> {"none", "open", "banned", "deleted"}]
  BY <1>1
<1>5. RolesRight
  BY <1>1 DEF RolesRight
<1>6. begun \in 0..MaxBegun
  BY AdminAssumption DEF Init
<1>7. TypeOK
  BY <1>2, <1>3, <1>4, <1>6, NoAdminIsNone DEF Init, TypeOK, Invite
<1>8. SetsRight /\ InvitedRight /\ OverIsOver
  BY NoAdminIsNone DEF Init, SetsRight, InvitedRight, OverIsOver
<1> QED BY <1>5, <1>7, <1>8 DEF Typed

LEMMA StepTyped == Typed /\ [Next]_vars => Typed'
<1>1. ASSUME Typed, UNCHANGED vars PROVE Typed'
  BY <1>1 DEF Typed, TypeOK, SetsRight, RolesRight, InvitedRight, OverIsOver, vars, tableVars, guardVars, historyVars
<1> QED BY <1>1, StartTyped, ContinueTyped, TokenTyped, GuardTyped DEF Next

\* Every variable keeps its type: whoever is let in, by the row or by the guard's copy, has a role.
THEOREM Typing == Spec => []TypeOK
<1>1. Spec => []Typed
  BY InitTyped, StepTyped, PTL DEF Spec
<1>2. Typed => TypeOK
  BY DEF Typed
<1> QED BY <1>1, <1>2, PTL

-----------------------------------------------------------------------------
(* What the guard's copy may say *)

\* A request that has written the row and not deleted the entry yet, and a removal.
Holds(q) == request[q].at = "written" \/ (request[q].op = "remove" /\ request[q].at = "called")
Removes(q) == request[q].op = "remove" /\ request[q].at \in {"called", "written"}

\* A copy of a row that is gone is about to be deleted: an update that finds no row to
\* read again may leave it to the removal.
GoneIsUncached ==
  \A s \in Seat : IsAdmin(s) \/ cached[s] = NoAdmin \/ s \in overtaken
                  \/ \E q \in InHand(s) : Removes(q)

EntryRight == EntryTellsRow /\ GoneIsUncached

\* The same, seat by seat.
TellsRow(s) == cached[s] \in {NoAdmin, admin[s]} \/ s \in overtaken \/ \E q \in InHand(s) : Holds(q)
Uncached(s) == IsAdmin(s) \/ cached[s] = NoAdmin \/ s \in overtaken \/ \E q \in InHand(s) : Removes(q)

LEMMA BySeat ==
  /\ EntryRight <=> \A s \in Seat : TellsRow(s) /\ Uncached(s)
  /\ EntryRight' <=> \A s \in Seat : TellsRow(s)' /\ Uncached(s)'
  BY DEF EntryRight, EntryTellsRow, GoneIsUncached, TellsRow, Uncached, Holds

\* A seat keeps both while its row and its entry stay and its requests hold on.
LEMMA SeatStays ==
  ASSUME NEW s \in Seat, TellsRow(s), Uncached(s),
         admin'[s] = admin[s], cached'[s] = cached[s], s \in overtaken => s \in overtaken',
         \A q \in InHand(s) : /\ Holds(q) => s \in overtaken' \/ (q \in InHand(s)' /\ Holds(q)')
                              /\ Removes(q) => s \in overtaken' \/ (q \in InHand(s)' /\ Removes(q)')
  PROVE  TellsRow(s)' /\ Uncached(s)'
  BY DEF TellsRow, Uncached, IsAdmin

\* A request that does not hold the entry begins, goes on or ends, and nothing else.
LEMMA EntryStays ==
  ASSUME EntryRight, UNCHANGED <<admin, cached>>, overtaken \subseteq overtaken',
         NEW r \in Request, \A q \in Request \ {r} : request'[q] = request[q],
         \/ ~Holds(r)
         \/ request[r].on = {}
         \/ request[r].on \subseteq overtaken'
         \/ request'[r].on = request[r].on /\ request'[r].op = request[r].op /\ request'[r].at = "written"
  PROVE  EntryRight'
<1> SUFFICES ASSUME NEW s \in Seat PROVE TellsRow(s)' /\ Uncached(s)'
  BY BySeat
<1>1. \A q \in InHand(s) : Removes(q) => Holds(q)
  BY DEF Removes, Holds
<1>2. \A q \in InHand(s) : /\ Holds(q) => s \in overtaken' \/ (q \in InHand(s)' /\ Holds(q)')
                           /\ Removes(q) => s \in overtaken' \/ (q \in InHand(s)' /\ Removes(q)')
  BY <1>1 DEF InHand, Holds, Removes
<1>3. TellsRow(s) /\ Uncached(s)
  BY BySeat
<1> QED BY <1>2, <1>3, SeatStays

\* A request writes the row: it holds the entry from then on.
LEMMA EntryHeld ==
  ASSUME Typed, EntryRight, NEW r \in Request, NEW s \in Seat, NEW at \in {"called", "written"},
         GoesTo(r, at), request[r].on = {s}, UNCHANGED <<cached, overtaken>>,
         \A o \in Seat \ {s} : admin'[o] = admin[o],
         at = "written" => request[r].op # "remove" /\ (admin[s] # NoAdmin => admin'[s] # NoAdmin),
         at = "called" => request[r].op = "remove"
  PROVE  EntryRight'
<1>1. /\ request'[r].op = request[r].op /\ request'[r].at = at /\ request'[r].on = {s}
      /\ \A q \in Request \ {r} : request'[q] = request[q]
  BY RequestGoes DEF Typed
<1>2. ASSUME NEW o \in Seat \ {s} PROVE TellsRow(o)' /\ Uncached(o)'
  <2>1. InHand(o)' = InHand(o) /\ \A q \in InHand(o) : request'[q] = request[q]
    BY <1>1, <1>2 DEF InHand
  <2>2. TellsRow(o) /\ Uncached(o)
    BY BySeat
  <2> QED BY <2>1, <2>2, SeatStays DEF Holds, Removes
<1>3. r \in InHand(s)' /\ Holds(r)'
  BY <1>1 DEF InHand, Holds
<1>4. Uncached(s)'
  <2>1. CASE at = "called" /\ request[r].op = "remove"
    BY <1>1, <1>3, <2>1 DEF Uncached, Removes
  <2>2. CASE request[r].op # "remove" /\ (admin[s] # NoAdmin => admin'[s] # NoAdmin)
    <3>1. \A q \in InHand(s) : Removes(q) => q \in InHand(s)' /\ Removes(q)'
      BY <1>1, <2>2 DEF InHand, Removes
    <3>2. Uncached(s)
      BY BySeat
    <3> QED BY <2>2, <3>1, <3>2 DEF Uncached, IsAdmin
  <2> QED BY <2>1, <2>2
<1>5. TellsRow(s)'
  BY <1>3 DEF TellsRow
<1>6. \A o \in Seat : TellsRow(o)' /\ Uncached(o)'
  BY <1>2, <1>4, <1>5
<1> QED BY <1>6, BySeat

LEMMA EntryInvalidated ==
  ASSUME Typed, EntryRight, NEW r \in Request, NEW s \in Seat, invalidate(r, s)
  PROVE  EntryRight'
<1>1. request'[r].op = "none" /\ request'[r].on = {} /\ \A q \in Request \ {r} : request'[q] = request[q]
  BY RequestEnds DEF invalidate, deletesEntry, Typed
<1>2. admin' = admin /\ request[r].at = "written" /\ request[r].on = {s}
  BY DEF invalidate, tableVars
<1>3. \A o \in Seat \ {s} : cached'[o] = cached[o] /\ (o \in overtaken => o \in overtaken')
  BY DEF invalidate, deletesEntry, Typed, TypeOK
<1>4. ASSUME NEW o \in Seat \ {s} PROVE TellsRow(o)' /\ Uncached(o)'
  <2>1. InHand(o)' = InHand(o) /\ \A q \in InHand(o) : request'[q] = request[q]
    BY <1>1, <1>2, <1>4 DEF InHand
  <2>2. TellsRow(o) /\ Uncached(o)
    BY BySeat
  <2> QED BY <1>2, <1>3, <2>1, <2>2, SeatStays DEF Holds, Removes
<1>5. TellsRow(s)' /\ Uncached(s)'
  <2>1. CASE request[r].op = "update" /\ ~IsAdmin(s)
    <3>1. UNCHANGED <<cached, overtaken>>
      BY <2>1 DEF invalidate, deletesEntry
    <3>2. \A q \in InHand(s) : Removes(q) => q \in InHand(s)' /\ Removes(q)' /\ Holds(q)'
      BY <1>1, <2>1 DEF InHand, Removes, Holds
    <3>3. Uncached(s)
      BY BySeat
    <3> QED BY <1>2, <2>1, <3>1, <3>2, <3>3 DEF TellsRow, Uncached, IsAdmin
  <2>2. CASE ~(request[r].op = "update" /\ ~IsAdmin(s))
    <3>1. cached' = [cached EXCEPT ![s] = NoAdmin] \/ s \in overtaken'
      BY <2>2 DEF invalidate, deletesEntry
    <3>2. cached'[s] = NoAdmin \/ s \in overtaken'
      BY <3>1 DEF Typed, TypeOK
    <3> QED BY <3>2 DEF TellsRow, Uncached
  <2> QED BY <2>1, <2>2
<1>6. \A o \in Seat : TellsRow(o)' /\ Uncached(o)'
  BY <1>4, <1>5
<1> QED BY <1>6, BySeat

LEMMA EntryGuarded == ASSUME Typed, EntryRight, NEW s \in Seat, Guard(s) PROVE EntryRight'
<1>1. UNCHANGED <<admin, request>>
  BY DEF Guard, guardReads, guardCaches, entryExpires, tableVars
<1>2. \A o \in Seat : InHand(o)' = InHand(o) /\ \A q \in InHand(o) : request'[q] = request[q]
  BY <1>1 DEF InHand
<1>3. \A o \in Seat \ {s} : cached'[o] = cached[o] /\ (o \in overtaken => o \in overtaken')
  BY DEF Guard, guardReads, guardCaches, entryExpires, expires, Typed, TypeOK
<1>4. ASSUME NEW o \in Seat,
             cached'[o] = cached[o] /\ (o \in overtaken => o \in overtaken')
      PROVE  TellsRow(o)' /\ Uncached(o)'
  <2>1. TellsRow(o) /\ Uncached(o)
    BY BySeat
  <2> QED BY <1>1, <1>2, <1>4, <2>1, SeatStays DEF Holds, Removes
<1>5. TellsRow(s)' /\ Uncached(s)'
  <2>1. CASE cached'[s] = NoAdmin
    BY <2>1 DEF TellsRow, Uncached
  <2>2. CASE UNCHANGED <<cached, overtaken>>
    BY <1>4, <2>2
  <2>3. CASE guardCaches(s) /\ ~UNCHANGED <<cached, overtaken>>
    <3>1. /\ cached'[s] = reading[s] /\ reading[s] # NoAdmin
          /\ reading[s] # admin[s] => s \in overtaken'
      BY <2>3 DEF guardCaches, Typed, TypeOK
    <3> QED BY <1>1, <3>1 DEF TellsRow, Uncached, IsAdmin
  <2>4. CASE entryExpires(s)
    BY <2>1, <2>4 DEF entryExpires, expires, Typed, TypeOK
  <2> QED BY <2>2, <2>3, <2>4 DEF Guard, guardReads
<1>6. \A o \in Seat : TellsRow(o)' /\ Uncached(o)'
  BY <1>3, <1>4, <1>5
<1> QED BY <1>6, BySeat

LEMMA EntrySame ==
  ASSUME EntryRight, UNCHANGED <<admin, cached, overtaken, request>>
  PROVE  EntryRight'
  BY DEF EntryRight, EntryTellsRow, GoneIsUncached, InHand, Removes, IsAdmin

\* A suspended administrator still has a row.
LEMMA Reactivating ==
  ASSUME TypeOK, NEW s \in Seat, NEW isActive \in BOOLEAN, updateActive(s, isActive)
  PROVE  \A o \in Seat : admin'[o] # NoAdmin <=> admin[o] # NoAdmin
<1>1. CASE IsAdmin(s)
  <2>1. admin[s] \in AdminUser
    BY <1>1 DEF TypeOK, IsAdmin
  <2>2. [admin[s] EXCEPT !.isActive = isActive] \in AdminUser
    BY <2>1 DEF AdminUser
  <2>3. admin'[s] \in AdminUser /\ \A o \in Seat \ {s} : admin'[o] = admin[o]
    BY <1>1, <2>2 DEF updateActive, TypeOK
  <2> QED BY <1>1, <2>3, NoAdminIsNone DEF IsAdmin
<1>2. CASE ~IsAdmin(s)
  BY <1>2 DEF updateActive, IsAdmin
<1> QED BY <1>1, <1>2

LEMMA EntryContinues == ASSUME Typed, EntryRight, NEW r \in Request, Continue(r) PROVE EntryRight'
<1>2. ASSUME NEW s \in Seat, insertInvite(r, s) \/ deleteInvite(r, s) \/ create(r, s) \/ callSupabase(r, s)
      PROVE  EntryRight'
  <2>1. UNCHANGED <<admin, cached, overtaken>>
    BY <1>2 DEF insertInvite, deleteInvite, create, callSupabase, guardVars
  <2>2. ~Holds(r)
    BY <1>2 DEF insertInvite, deleteInvite, create, callSupabase, IsAt, Holds
  <2>3. Ends(r) \/ GoesTo(r, "called")
    BY <1>2 DEF insertInvite, deleteInvite, create, createUser, callSupabase
  <2>4. \A q \in Request \ {r} : request'[q] = request[q]
    BY <2>3, RequestEnds, RequestGoes DEF Typed
  <2> QED BY <2>1, <2>2, <2>4, EntryStays
<1>3. ASSUME NEW s \in Seat, join(r, s) PROVE EntryRight'
  <2>1. request[r].op = "accept" /\ request[r].at = "called" /\ request[r].on = {s}
        /\ UNCHANGED <<cached, overtaken>>
    BY <1>3 DEF join, IsAt, guardVars
  <2>2. CASE Ends(r) /\ admin' = admin
    <3>1. \A q \in Request \ {r} : request'[q] = request[q]
      BY <2>2, RequestEnds DEF Typed
    <3> QED BY <2>1, <2>2, <3>1, EntryStays DEF Holds
  <2>3. CASE GoesTo(r, "written") /\ admin' = [admin EXCEPT ![s] = request[r].sets]
    <3>1. request[r].sets \in AdminUser
      BY <2>1 DEF Typed, SetsRight
    <3>2. admin'[s] # NoAdmin /\ \A o \in Seat \ {s} : admin'[o] = admin[o]
      BY <2>3, <3>1, NoAdminIsNone DEF IsAdmin, Typed, TypeOK
    <3> QED BY <2>1, <2>3, <3>2, EntryHeld
  <2> QED BY <1>3, <2>2, <2>3 DEF join
<1>4. ASSUME NEW s \in Seat, saveAdmin(r, s) PROVE EntryRight'
  <2>1. /\ request[r].op = "update" /\ request[r].on = {s} /\ GoesTo(r, "written")
        /\ UNCHANGED <<cached, overtaken>> /\ admin' = [admin EXCEPT ![s] = request[r].sets]
    BY <1>4 DEF saveAdmin, IsAt, guardVars
  <2>2. request[r].sets \in AdminUser
    BY <2>1 DEF Typed, SetsRight
  <2>3. admin'[s] # NoAdmin /\ \A o \in Seat \ {s} : admin'[o] = admin[o]
    BY <2>1, <2>2, NoAdminIsNone DEF IsAdmin, Typed, TypeOK
  <2> QED BY <2>1, <2>3, EntryHeld
<1>5. ASSUME NEW s \in Seat, setActive(r, s) PROVE EntryRight'
  <2>1. /\ request[r].op # "remove" /\ request[r].on = {s} /\ GoesTo(r, "written")
        /\ UNCHANGED <<cached, overtaken>>
    BY <1>5, SetsWhat DEF setActive, guardVars
  <2>2. PICK isActive \in BOOLEAN : updateActive(s, isActive)
    BY <1>5, SetsWhat
  <2>3. \A o \in Seat \ {s} : admin'[o] = admin[o]
    BY <2>2 DEF updateActive, Typed, TypeOK
  <2>4. admin[s] # NoAdmin => admin'[s] # NoAdmin
    BY <2>2, Reactivating DEF Typed
  <2> QED BY <2>1, <2>3, <2>4, EntryHeld
<1>6. ASSUME NEW s \in Seat, deleteAdmin(r, s) PROVE EntryRight'
  <2>1. /\ request[r].op = "remove" /\ request[r].on = {s} /\ GoesTo(r, "called")
        /\ UNCHANGED <<cached, overtaken>> /\ admin' = [admin EXCEPT ![s] = NoAdmin]
    BY <1>6 DEF deleteAdmin, IsAt, guardVars
  <2>2. \A o \in Seat \ {s} : admin'[o] = admin[o]
    BY <2>1 DEF Typed, TypeOK
  <2> QED BY <2>1, <2>2, EntryHeld
<1>7. ASSUME NEW s \in Seat, deleteUser(r, s) PROVE EntryRight'
  <2>1. GoesTo(r, "written") /\ UNCHANGED <<admin, cached, overtaken>>
    BY <1>7 DEF deleteUser, guardVars
  <2>2. /\ request'[r].on = request[r].on /\ request'[r].op = request[r].op /\ request'[r].at = "written"
        /\ \A q \in Request \ {r} : request'[q] = request[q]
    BY <2>1, RequestGoes DEF Typed
  <2> QED BY <2>1, <2>2, EntryStays
<1>8. CASE fails(r)
  <2>1. /\ Ends(r) /\ request[r].at # "written" /\ UNCHANGED <<admin, cached>>
        /\ overtaken \subseteq overtaken'
        /\ request[r].op = "remove" /\ request[r].at = "called" => request[r].on \subseteq overtaken'
    BY <1>8 DEF fails, tableVars
  <2>2. \A q \in Request \ {r} : request'[q] = request[q]
    BY <2>1, RequestEnds DEF Typed
  <2> QED BY <2>1, <2>2, EntryStays DEF Holds
<1> QED BY <1>2, <1>3, <1>4, <1>5, <1>6, <1>7, <1>8, EntryInvalidated DEF Continue

LEMMA EntryStep == ASSUME Typed, EntryRight, [Next]_vars PROVE EntryRight'
<1>1. ASSUME NEW r \in Request, Start(r) PROVE EntryRight'
  <2>1. PICK s \in Seat : \E op, sets : Begin(r, op, s, sets)
    BY <1>1 DEF Start, inviteAdmin, cancelAdminInvite, acceptAdminInvite, updateAdmin, suspendAdmin,
                reactivateAdmin, removeAdmin
  <2>2. /\ UNCHANGED <<admin, cached, overtaken>> /\ request[r].op = "none"
        /\ \A q \in Request \ {r} : request'[q] = request[q]
    BY <2>1, RequestBegins DEF Typed, tableVars, guardVars
  <2>3. request[r].on = {}
    BY <2>2 DEF Typed, OverIsOver
  <2> QED BY <2>2, <2>3, EntryStays
<1>2. CASE \E s \in Seat : resendAdminInvite(s) \/ tokenExpires(s)
  <2>1. UNCHANGED <<admin, cached, overtaken, request>>
    BY <1>2 DEF resendAdminInvite, tokenExpires, guardVars
  <2> QED BY <2>1, EntrySame
<1>3. CASE UNCHANGED vars
  BY <1>3, EntrySame DEF vars, tableVars, guardVars
<1> QED BY <1>1, <1>2, <1>3, EntryContinues, EntryGuarded DEF Next

\* What AdminAuthGuard lets an administrator in with is what the row says, except while a
\* request that wrote the row has not deleted the entry yet, and after a guard cached what
\* it had read before the write, or Redis failed.
THEOREM GuardTellsRow == Spec => []EntryTellsRow
<1>1. Init => EntryRight
  BY DEF Init, EntryRight, EntryTellsRow, GoneIsUncached
<1>2. Spec => [](Typed /\ EntryRight)
  BY <1>1, InitTyped, StepTyped, EntryStep, PTL DEF Spec
<1>3. EntryRight => EntryTellsRow
  BY DEF EntryRight
<1> QED BY <1>2, <1>3, PTL

-----------------------------------------------------------------------------
(* Steps of a request at one seat *)

\* Everything that tells seats apart here is at seat o as it was.
AsItWas(o) ==
  /\ account'[o] = account[o] /\ admin'[o] = admin[o]
  /\ (o \in removed' <=> o \in removed) /\ (o \in crossed => o \in crossed') /\ (o \in failed => o \in failed')
  /\ \A q \in Request : /\ q \in InHand(o)' <=> q \in InHand(o)
                        /\ q \in InHand(o) => request'[q] = request[q]

Step(r, s) ==
  \/ insertInvite(r, s) \/ deleteInvite(r, s) \/ create(r, s) \/ join(r, s)
  \/ saveAdmin(r, s) \/ callSupabase(r, s) \/ setActive(r, s)
  \/ deleteAdmin(r, s) \/ deleteUser(r, s) \/ invalidate(r, s)

\* Which request a step is of, and how it moves it.
LEMMA StepMoves ==
  ASSUME Typed, NEW r \in Request, NEW s \in Seat, Step(r, s)
  PROVE  /\ request[r].on = {s} /\ \A q \in Request \ {r} : request'[q] = request[q]
         /\ \/ request'[r].op = "none" /\ request'[r].on = {}
            \/ request'[r].op = request[r].op /\ request'[r].on = {s}
<1>1. request[r].on = {s}
  BY SetsWhat DEF Step, insertInvite, deleteInvite, create, join, saveAdmin, callSupabase, deleteAdmin,
                  deleteUser, invalidate, IsAt
<1>2. Ends(r) \/ \E at \in {"called", "written"} : GoesTo(r, at)
  BY DEF Step, insertInvite, deleteInvite, create, createUser, join, saveAdmin, callSupabase, setActive,
         deleteAdmin, deleteUser, invalidate, deletesEntry
<1> QED BY <1>1, <1>2, RequestEnds, RequestGoes DEF Typed

LEMMA StepElsewhere ==
  ASSUME Typed, NEW r \in Request, NEW s \in Seat, Step(r, s), NEW o \in Seat \ {s}
  PROVE  AsItWas(o)
<1>1. \A q \in Request : /\ q \in InHand(o)' <=> q \in InHand(o)
                         /\ q \in InHand(o) => request'[q] = request[q]
  BY StepMoves DEF InHand
<1>2. admin'[o] = admin[o]
  <2>1. CASE setActive(r, s)
    <3>1. PICK isActive \in BOOLEAN : updateActive(s, isActive)
      BY <2>1, SetsWhat
    <3> QED BY <3>1 DEF updateActive, Typed, TypeOK
  <2>2. CASE ~setActive(r, s)
    <3>1. admin' = admin \/ \E to : admin' = [admin EXCEPT ![s] = to]
      BY <2>2 DEF Step, insertInvite, deleteInvite, create, join, saveAdmin, callSupabase, deleteAdmin,
                  deleteUser, invalidate, tableVars
    <3> QED BY <3>1 DEF Typed, TypeOK
  <2> QED BY <2>1, <2>2
<1>3. account'[o] = account[o]
  <2>1. account' = account \/ \E to : account' = [account EXCEPT ![s] = to]
    BY DEF Step, insertInvite, deleteInvite, create, createUser, join, saveAdmin, callSupabase, setActive,
           deleteAdmin, deleteUser, deletesUser, invalidate, tableVars
  <2> QED BY <2>1 DEF Typed, TypeOK
<1>4. removed' \in {removed, removed \cup {s}} /\ crossed' = crossed /\ failed \subseteq failed'
  BY DEF Step, insertInvite, deleteInvite, create, join, saveAdmin, callSupabase, setActive, deleteAdmin,
         deleteUser, deletesUser, invalidate, historyVars
<1> QED BY <1>1, <1>2, <1>3, <1>4 DEF AsItWas

LEMMA BeginElsewhere ==
  ASSUME Typed, NEW r \in Request, NEW s \in Seat, NEW op, NEW sets, Begin(r, op, s, sets),
         NEW o \in Seat \ {s}
  PROVE  AsItWas(o)
<1>1. /\ request'[r].on = {s} /\ request[r].on = {}
      /\ \A q \in Request \ {r} : request'[q] = request[q]
      /\ UNCHANGED <<tableVars, failed, removed>>
  BY RequestBegins DEF Typed, OverIsOver
<1>2. crossed \subseteq crossed'
  BY DEF Begin
<1> QED BY <1>1, <1>2 DEF AsItWas, InHand, tableVars

-----------------------------------------------------------------------------
(* Who an account belongs to *)

Creates(q) == request[q].op \in {"accept", "remove"} /\ request[q].at = "called"
Owned(s) == ~HasAccount(s) \/ IsAdmin(s) \/ s \in failed \/ \E q \in InHand(s) : Creates(q)

LEMMA OwnedBySeat ==
  /\ AccountHasAdmin <=> \A s \in Seat : Owned(s)
  /\ AccountHasAdmin' <=> \A s \in Seat : Owned(s)'
  BY DEF AccountHasAdmin, Owned, Creates

LEMMA OwnedStays ==
  ASSUME NEW s \in Seat, Owned(s),
         account'[s] = account[s] \/ HasAccount(s) \/ account'[s] \notin {"open", "banned"},
         admin[s] # NoAdmin => admin'[s] # NoAdmin, s \in failed => s \in failed',
         \A q \in InHand(s) : Creates(q) => s \in failed' \/ (q \in InHand(s)' /\ Creates(q)')
  PROVE  Owned(s)'
  BY DEF Owned, HasAccount, IsAdmin

LEMMA OwnedAsItWas == ASSUME NEW s \in Seat, Owned(s), AsItWas(s) PROVE Owned(s)'
<1>1. \A q \in InHand(s) : q \in Request /\ q \in InHand(s)' /\ request'[q] = request[q]
  BY DEF AsItWas, InHand
<1>2. account'[s] = account[s] /\ admin'[s] = admin[s] /\ (s \in failed => s \in failed')
  BY DEF AsItWas
<1>3. \A q \in InHand(s) : Creates(q) => q \in InHand(s)' /\ Creates(q)'
  BY <1>1 DEF Creates
<1> QED BY <1>2, <1>3, OwnedStays

LEMMA OwnedStep ==
  ASSUME Typed, NEW r \in Request, NEW s \in Seat, Owned(s), Step(r, s)
  PROVE  Owned(s)'
<1>1. /\ request[r].on = {s} /\ \A q \in Request \ {r} : request'[q] = request[q]
      /\ \/ request'[r].op = "none" /\ request'[r].on = {}
         \/ request'[r].op = request[r].op /\ request'[r].on = {s}
  BY StepMoves
<1>2. \A q \in InHand(s) \ {r} : Creates(q) => q \in InHand(s)' /\ Creates(q)'
  BY <1>1 DEF InHand, Creates
<1>3. CASE insertInvite(r, s) \/ deleteInvite(r, s)
  <2>1. ~Creates(r) /\ UNCHANGED <<account, admin, failed>>
    BY <1>3 DEF insertInvite, deleteInvite, IsAt, Creates, historyVars
  <2> QED BY <1>2, <2>1, OwnedStays
<1>4. CASE create(r, s)
  <2>1. ~Creates(r) /\ UNCHANGED <<admin, failed>> /\ request[r].op = "accept"
    BY <1>4 DEF create, IsAt, Creates, historyVars
  <2>2. CASE account' = account
    BY <1>2, <2>1, <2>2, OwnedStays
  <2>3. CASE GoesTo(r, "called")
    <3>1. request'[r].op = "accept" /\ request'[r].at = "called" /\ request'[r].on = {s}
      BY <1>1, <2>1, <2>3, RequestGoes DEF Typed
    <3>2. r \in InHand(s)' /\ Creates(r)'
      BY <3>1 DEF InHand, Creates
    <3> QED BY <3>2 DEF Owned
  <2> QED BY <1>4, <2>2, <2>3 DEF create, createUser
<1>5. CASE join(r, s)
  <2>1. CASE s \in failed'
    BY <2>1 DEF Owned
  <2>2. CASE admin' = [admin EXCEPT ![s] = request[r].sets]
    <3>1. request[r].sets \in AdminUser
      BY <1>5 DEF Typed, SetsRight, join, IsAt
    <3>2. admin'[s] # NoAdmin
      BY <2>2, <3>1, NoAdminIsNone DEF Typed, TypeOK
    <3> QED BY <3>2 DEF Owned, IsAdmin
  <2> QED BY <1>5, <2>1, <2>2 DEF join
<1>6. CASE saveAdmin(r, s)
  <2>1. request[r].sets \in AdminUser
    BY <1>6 DEF Typed, SetsRight, saveAdmin, IsAt
  <2>2. admin'[s] # NoAdmin
    BY <1>6, <2>1, NoAdminIsNone DEF saveAdmin, Typed, TypeOK
  <2> QED BY <2>2 DEF Owned, IsAdmin
<1>7. CASE callSupabase(r, s)
  <2>1. request[r].op \in {"suspend", "reactivate"}
    <3>1. PICK call \in {<<"suspend", "banned">>, <<"reactivate", "open">>} : IsAt(r, call[1], "begun", s)
      BY <1>7 DEF callSupabase
    <3>2. CASE call = <<"suspend", "banned">>
      BY <3>1, <3>2 DEF IsAt
    <3>3. CASE call = <<"reactivate", "open">>
      BY <3>1, <3>3 DEF IsAt
    <3> QED BY <3>1, <3>2, <3>3
  <2>2. ~Creates(r)
    BY <2>1 DEF Creates
  <2>3. HasAccount(s) /\ UNCHANGED <<admin, failed>>
    BY <1>7 DEF callSupabase, historyVars
  <2> QED BY <1>2, <2>2, <2>3, OwnedStays
<1>8. CASE setActive(r, s)
  <2>1. PICK isActive \in BOOLEAN : updateActive(s, isActive)
    BY <1>8, SetsWhat
  <2>2. admin[s] # NoAdmin => admin'[s] # NoAdmin
    BY <2>1, Reactivating DEF Typed
  <2>3. ~Creates(r) /\ UNCHANGED <<account, failed>>
    BY <1>8, SetsWhat DEF Creates, setActive, historyVars
  <2> QED BY <1>2, <2>2, <2>3, OwnedStays
<1>9. CASE deleteAdmin(r, s)
  <2>1. GoesTo(r, "called") /\ request[r].op = "remove"
    BY <1>9 DEF deleteAdmin, IsAt
  <2>2. request'[r].op = "remove" /\ request'[r].at = "called" /\ request'[r].on = {s}
    BY <1>1, <2>1, RequestGoes DEF Typed
  <2>3. r \in InHand(s)' /\ Creates(r)'
    BY <2>2 DEF InHand, Creates
  <2> QED BY <2>3 DEF Owned
<1>10. CASE deleteUser(r, s)
  <2>1. account'[s] = "deleted" \/ s \in failed'
    BY <1>10 DEF deleteUser, deletesUser, Typed, TypeOK
  <2> QED BY <2>1 DEF Owned, HasAccount
<1>11. CASE invalidate(r, s)
  <2>1. ~Creates(r) /\ UNCHANGED <<account, admin, failed>>
    BY <1>11 DEF invalidate, Creates, tableVars, historyVars
  <2> QED BY <1>2, <2>1, OwnedStays
<1> QED BY <1>3, <1>4, <1>5, <1>6, <1>7, <1>8, <1>9, <1>10, <1>11 DEF Step

LEMMA OwnedNext == ASSUME Typed, AccountHasAdmin, [Next]_vars PROVE AccountHasAdmin'
<1> SUFFICES ASSUME NEW o \in Seat PROVE Owned(o)'
  BY OwnedBySeat
<1>0. Owned(o)
  BY OwnedBySeat
<1>1. ASSUME NEW r \in Request, NEW s \in Seat, Step(r, s) PROVE Owned(o)'
  BY <1>0, <1>1, StepElsewhere, OwnedAsItWas, OwnedStep
<1>2. ASSUME NEW r \in Request, fails(r) PROVE Owned(o)'
  <2>1. /\ UNCHANGED <<account, admin>> /\ failed' = failed \cup request[r].on
        /\ \A q \in Request \ {r} : request'[q] = request[q]
    BY <1>2, RequestEnds DEF fails, tableVars, Typed
  <2>2. \A q \in InHand(o) : Creates(q) => o \in failed' \/ (q \in InHand(o)' /\ Creates(q)')
    BY <2>1 DEF InHand, Creates
  <2> QED BY <1>0, <2>1, <2>2, OwnedStays
<1>3. ASSUME NEW r \in Request, Start(r) PROVE Owned(o)'
  <2>1. PICK s \in Seat : \E op, sets : Begin(r, op, s, sets)
    BY <1>3 DEF Start, inviteAdmin, cancelAdminInvite, acceptAdminInvite, updateAdmin, suspendAdmin,
                reactivateAdmin, removeAdmin
  <2>2. /\ UNCHANGED <<account, admin, failed>> /\ request[r].on = {}
        /\ \A q \in Request \ {r} : request'[q] = request[q]
    BY <2>1, RequestBegins DEF Typed, OverIsOver, tableVars
  <2>3. \A q \in InHand(o) : Creates(q) => q \in InHand(o)' /\ Creates(q)'
    BY <2>2 DEF InHand, Creates
  <2> QED BY <1>0, <2>2, <2>3, OwnedStays
<1>4. CASE UNCHANGED <<account, admin, failed, request>>
  BY <1>0, <1>4 DEF Owned, HasAccount, IsAdmin, InHand, Creates
<1> QED
  BY <1>1, <1>2, <1>3, <1>4
  DEF Next, Continue, Step, resendAdminInvite, tokenExpires, Guard, guardReads, guardCaches, entryExpires,
      vars, tableVars, historyVars

\* An account is an administrator's: no acceptance and no removal leaves one behind that
\* nobody owns, and that bars its email, unless a step has failed.
THEOREM AccountsAreOwned == Spec => []AccountHasAdmin
<1>1. Init => AccountHasAdmin
  <2> SUFFICES ASSUME Init PROVE AccountHasAdmin
    OBVIOUS
  <2>1. PICK seated \in {{}} \cup {{s} : s \in Seat}, role \in Role :
          /\ account = [s \in Seat |-> IF s \in seated THEN "open" ELSE "none"]
          /\ admin = [s \in Seat |-> IF s \in seated THEN [role |-> role, isActive |-> TRUE] ELSE NoAdmin]
    BY DEF Init
  <2>2. [role |-> role, isActive |-> TRUE] # NoAdmin
    BY NoAdminIsNone DEF AdminUser
  <2> QED BY <2>1, <2>2 DEF AccountHasAdmin, HasAccount, IsAdmin
<1>2. Spec => [](Typed /\ AccountHasAdmin)
  BY <1>1, InitTyped, StepTyped, OwnedNext, PTL DEF Spec
<1> QED BY <1>2, PTL

-----------------------------------------------------------------------------
(* Why a removal lasts *)

Known == {"update", "suspend", "reactivate", "remove"}

\* Nobody has been an administrator at this seat.
Untouched(s) == ~IsAdmin(s) /\ s \notin removed /\ \A q \in InHand(s) : request[q].op \notin Known

Joining(q) == request[q].op = "accept" /\ request[q].at = "called"

\* An account is created once for a seat, before its first administrator.
Fresh(s) == account[s] = "none" =>
  Untouched(s) /\ \A q \in InHand(s) : request[q].op = "accept" => request[q].at = "begun"
JoinsOnce(s) == \A r \in InHand(s) : Joining(r) =>
  account[s] # "none" /\ Untouched(s) /\ \A q \in InHand(s) : Joining(q) => q = r

\* An update and a removal that overlap are known to.
Apart(s) == \A r, q \in InHand(s) : request[r].op = "update" /\ request[q].op = "remove" => s \in crossed
Late(s) == \A r \in InHand(s) : request[r].op = "update" /\ s \in removed => s \in crossed
Out(s) == s \in removed /\ IsAdmin(s) => s \in crossed

Lasting(s) == Fresh(s) /\ JoinsOnce(s) /\ Apart(s) /\ Late(s) /\ Out(s)
AllLasting == \A s \in Seat : Lasting(s)

LEMMA LastingAsItWas == ASSUME NEW s \in Seat, Lasting(s), AsItWas(s) PROVE Lasting(s)'
<1>1. \A q \in InHand(s)' : q \in InHand(s) /\ request'[q] = request[q]
  BY DEF AsItWas, InHand
<1>2. /\ account'[s] = account[s] /\ admin'[s] = admin[s]
      /\ (s \in removed' <=> s \in removed) /\ (s \in crossed => s \in crossed')
  BY DEF AsItWas
<1>3. Untouched(s) => Untouched(s)'
  BY <1>1, <1>2 DEF Untouched, IsAdmin
<1>4. Fresh(s)'
  BY <1>1, <1>2, <1>3 DEF Lasting, Fresh
<1>5. JoinsOnce(s)'
  BY <1>1, <1>2, <1>3 DEF Lasting, JoinsOnce, Joining
<1>6. Apart(s)' /\ Late(s)' /\ Out(s)'
  BY <1>1, <1>2 DEF Lasting, Apart, Late, Out, IsAdmin
<1> QED BY <1>4, <1>5, <1>6 DEF Lasting

\* A request goes on or ends, and makes neither an administrator nor a removed one.
LEMMA LastingStays ==
  ASSUME NEW s \in Seat, Lasting(s),
         account'[s] = "none" => account[s] = "none", admin'[s] # NoAdmin => admin[s] # NoAdmin,
         s \in removed' => s \in removed, s \in crossed => s \in crossed',
         \A q \in InHand(s)' : /\ q \in InHand(s) /\ request'[q].op = request[q].op
                               /\ request[q].op = "accept" =>
                                    request'[q].at = request[q].at \/ (request'[q].at = "written" /\ account[s] # "none")
  PROVE  Lasting(s)'
<1>1. Untouched(s) => Untouched(s)'
  BY DEF Untouched, IsAdmin
<1>2. Fresh(s)'
  BY <1>1 DEF Lasting, Fresh
<1>3. \A q \in InHand(s)' : Joining(q)' => Joining(q) /\ q \in InHand(s)
  BY DEF Joining
<1>4. JoinsOnce(s)'
  BY <1>1, <1>3 DEF Lasting, JoinsOnce
<1>5. Apart(s)' /\ Late(s)' /\ Out(s)'
  BY DEF Lasting, Apart, Late, Out, IsAdmin
<1> QED BY <1>2, <1>4, <1>5 DEF Lasting

LEMMA LastingStep ==
  ASSUME Typed, NEW r \in Request, NEW s \in Seat, Lasting(s), Step(r, s)
  PROVE  Lasting(s)'
<1>1. /\ request[r].on = {s} /\ r \in InHand(s) /\ \A q \in Request \ {r} : request'[q] = request[q]
      /\ \/ request'[r].op = "none" /\ request'[r].on = {}
         \/ request'[r].op = request[r].op /\ request'[r].on = {s}
  BY StepMoves DEF InHand
<1>2. \A q \in InHand(s)' : q \in InHand(s) /\ request'[q].op = request[q].op
  BY <1>1 DEF InHand
<1>3. crossed' = crossed
  BY DEF Step, insertInvite, deleteInvite, create, join, saveAdmin, callSupabase, setActive, deleteAdmin,
         deleteUser, invalidate, historyVars
<1>4. CASE insertInvite(r, s) \/ deleteInvite(r, s) \/ invalidate(r, s)
  <2>1. UNCHANGED <<account, admin, removed>> /\ Ends(r)
    BY <1>4 DEF insertInvite, deleteInvite, invalidate, deletesEntry, tableVars, historyVars
  <2>2. r \notin InHand(s)'
    BY <2>1, RequestEnds DEF Typed, InHand
  <2>3. \A q \in InHand(s)' : request'[q] = request[q]
    BY <1>1, <2>2 DEF InHand
  <2> QED BY <1>2, <1>3, <2>1, <2>3, LastingStays
<1>5. CASE callSupabase(r, s) \/ setActive(r, s) \/ deleteUser(r, s)
  <2>1. request[r].op \in Known
    <3>1. CASE callSupabase(r, s)
      <4>1. PICK call \in {<<"suspend", "banned">>, <<"reactivate", "open">>} : IsAt(r, call[1], "begun", s)
        BY <3>1 DEF callSupabase
      <4>2. CASE call = <<"suspend", "banned">>
        BY <4>1, <4>2 DEF IsAt, Known
      <4>3. CASE call = <<"reactivate", "open">>
        BY <4>1, <4>3 DEF IsAt, Known
      <4> QED BY <4>1, <4>2, <4>3
    <3>2. CASE setActive(r, s) \/ deleteUser(r, s)
      BY <3>2, SetsWhat DEF deleteUser, IsAt, Known
    <3> QED BY <1>5, <3>1, <3>2
  <2>2. account[s] # "none"
    BY <1>1, <2>1 DEF Lasting, Fresh, Untouched
  <2>3. account'[s] # "none"
    <3>1. account' = account \/ \E to \in {"banned", "open", "deleted"} : account' = [account EXCEPT ![s] = to]
      <4>1. CASE callSupabase(r, s)
        <5>1. PICK call \in {<<"suspend", "banned">>, <<"reactivate", "open">>} :
                account' = [account EXCEPT ![s] = call[2]]
          BY <4>1 DEF callSupabase
        <5>2. call[2] \in {"banned", "open"}
          OBVIOUS
        <5> QED BY <5>1, <5>2
      <4>2. CASE setActive(r, s) \/ deleteUser(r, s)
        BY <4>2 DEF setActive, deleteUser, deletesUser
      <4> QED BY <1>5, <4>1, <4>2
    <3> QED BY <2>2, <3>1 DEF Typed, TypeOK
  <2>4. admin'[s] # NoAdmin => admin[s] # NoAdmin
    <3>1. CASE setActive(r, s)
      BY <3>1, SetsWhat, Reactivating DEF Typed
    <3>2. CASE ~setActive(r, s)
      BY <1>5, <3>2 DEF callSupabase, deleteUser
    <3> QED BY <3>1, <3>2
  <2>5. removed' = removed
    BY <1>5 DEF callSupabase, setActive, deleteUser, historyVars
  <2>6. \A q \in InHand(s)' : request[q].op = "accept" => request'[q] = request[q]
    BY <1>1, <2>1 DEF InHand, Known
  <2> QED BY <1>2, <1>3, <2>3, <2>4, <2>5, <2>6, LastingStays
<1>6. CASE create(r, s)
  <2>1. request[r].op = "accept" /\ request[r].at = "begun" /\ UNCHANGED <<admin, removed>>
    BY <1>6 DEF create, IsAt, historyVars
  <2>2. CASE Ends(r) /\ account' = account
    <3>1. r \notin InHand(s)'
      BY <2>2, RequestEnds DEF Typed, InHand
    <3>2. \A q \in InHand(s)' : request'[q] = request[q]
      BY <1>1, <3>1 DEF InHand
    <3> QED BY <1>2, <1>3, <2>1, <2>2, <3>2, LastingStays
  <2>3. CASE account[s] = "none" /\ account' = [account EXCEPT ![s] = "open"]
    <3>1. account'[s] = "open"
      BY <2>3 DEF Typed, TypeOK
    <3>2. Untouched(s) /\ \A q \in InHand(s) : request[q].op = "accept" => request[q].at = "begun"
      BY <2>3 DEF Lasting, Fresh
    <3>3. Untouched(s)'
      BY <1>2, <2>1, <3>2 DEF Untouched, IsAdmin
    <3>4. \A q \in InHand(s)' : Joining(q)' => q = r
      BY <1>1, <3>2 DEF Joining, InHand
    <3>5. Fresh(s)' /\ JoinsOnce(s)'
      BY <3>1, <3>3, <3>4 DEF Fresh, JoinsOnce
    <3>6. Apart(s)' /\ Late(s)' /\ Out(s)'
      BY <1>2, <1>3, <2>1 DEF Lasting, Apart, Late, Out, IsAdmin
    <3> QED BY <3>5, <3>6 DEF Lasting
  <2> QED BY <1>6, <2>2, <2>3 DEF create, createUser
<1>7. CASE join(r, s)
  <2>1. Joining(r) /\ UNCHANGED <<account, removed>>
    BY <1>7 DEF join, IsAt, Joining
  <2>2. account[s] # "none" /\ Untouched(s) /\ \A q \in InHand(s) : Joining(q) => q = r
    BY <1>1, <2>1 DEF Lasting, JoinsOnce
  <2>3. Fresh(s)'
    BY <2>1, <2>2 DEF Fresh
  <2>4. \A q \in InHand(s)' : ~Joining(q)'
    <3>1. Ends(r) \/ GoesTo(r, "written")
      BY <1>7 DEF join
    <3>2. ~Joining(r)'
      BY <3>1, RequestEnds, RequestGoes DEF Typed, Joining
    <3>3. \A q \in InHand(s) \ {r} : ~Joining(q) /\ request'[q] = request[q]
      BY <1>1, <2>2 DEF InHand
    <3> QED BY <1>2, <3>2, <3>3 DEF Joining
  <2>5. JoinsOnce(s)'
    BY <2>4 DEF JoinsOnce
  <2>6. s \notin removed'
    BY <2>1, <2>2 DEF Untouched
  <2>7. Apart(s)' /\ Late(s)' /\ Out(s)'
    BY <1>2, <1>3, <2>6 DEF Lasting, Apart, Late, Out
  <2> QED BY <2>3, <2>5, <2>7 DEF Lasting
<1>8. CASE saveAdmin(r, s) \/ deleteAdmin(r, s)
  <2>1. request[r].op \in Known /\ account' = account
    BY <1>8 DEF saveAdmin, deleteAdmin, IsAt, Known
  <2>2. ~Untouched(s)
    BY <1>1, <2>1 DEF Untouched
  <2>3. Fresh(s)'
    BY <2>1, <2>2 DEF Lasting, Fresh
  <2>4. \A q \in InHand(s) : ~Joining(q)
    BY <2>2 DEF Lasting, JoinsOnce
  <2>5. \A q \in InHand(s)' : ~Joining(q)'
    BY <1>1, <1>2, <2>1, <2>4 DEF Joining, InHand, Known
  <2>6. JoinsOnce(s)'
    BY <2>5 DEF JoinsOnce
  <2>7. CASE saveAdmin(r, s)
    <3>1. removed' = removed /\ request[r].op = "update"
      BY <2>7 DEF saveAdmin, IsAt, historyVars
    <3>2. s \in removed => s \in crossed
      BY <1>1, <3>1 DEF Lasting, Late
    <3>3. Apart(s)' /\ Late(s)' /\ Out(s)'
      BY <1>2, <1>3, <3>1, <3>2 DEF Lasting, Apart, Late, Out
    <3> QED BY <2>3, <2>6, <3>3 DEF Lasting
  <2>8. CASE deleteAdmin(r, s)
    <3>1. request[r].op = "remove" /\ admin'[s] = NoAdmin
      BY <2>8 DEF deleteAdmin, IsAt, Typed, TypeOK
    <3>2. \A q \in InHand(s) : request[q].op = "update" => s \in crossed
      BY <1>1, <3>1 DEF Lasting, Apart
    <3>3. Apart(s)' /\ Late(s)' /\ Out(s)'
      BY <1>2, <1>3, <3>1, <3>2 DEF Lasting, Apart, Late, Out, IsAdmin
    <3> QED BY <2>3, <2>6, <3>3 DEF Lasting
  <2> QED BY <1>8, <2>7, <2>8
<1> QED BY <1>4, <1>5, <1>6, <1>7, <1>8 DEF Step

LEMMA LastingBegins ==
  ASSUME Typed, NEW r \in Request, NEW s \in Seat, NEW op, NEW sets, Begin(r, op, s, sets),
         Lasting(s), op \in Known => IsAdmin(s)
  PROVE  Lasting(s)'
<1>1. /\ request'[r].op = op /\ request'[r].at = "begun" /\ request'[r].on = {s}
      /\ \A q \in Request \ {r} : request'[q] = request[q]
      /\ UNCHANGED <<account, admin, removed>>
      /\ request[r].on = {}
  BY RequestBegins DEF Typed, OverIsOver, tableVars
<1>2. \A q \in InHand(s)' : q # r => q \in InHand(s) /\ request'[q] = request[q]
  BY <1>1 DEF InHand
<1>3. (s \in crossed => s \in crossed') /\ (Crosses(op, s) => s \in crossed')
  BY DEF Begin
<1>4. Untouched(s) => Untouched(s)'
  BY <1>1, <1>2 DEF Untouched, IsAdmin
<1>5. Fresh(s)'
  BY <1>1, <1>2, <1>4 DEF Lasting, Fresh
<1>6. JoinsOnce(s)'
  BY <1>1, <1>2, <1>4 DEF Lasting, JoinsOnce, Joining
<1>7. Apart(s)'
  <2> SUFFICES ASSUME NEW u \in InHand(s)', NEW q \in InHand(s)',
                      request'[u].op = "update", request'[q].op = "remove"
               PROVE  s \in crossed'
    BY DEF Apart
  <2>1. CASE u = r
    <3>1. op = "update" /\ q # r
      BY <1>1, <2>1
    <3>2. q \in InHand(s) /\ request[q].op = "remove"
      BY <1>2, <3>1
    <3> QED BY <1>3, <3>1, <3>2 DEF Crosses
  <2>2. CASE q = r
    <3>1. op = "remove" /\ u # r
      BY <1>1, <2>2
    <3>2. u \in InHand(s) /\ request[u].op = "update"
      BY <1>2, <3>1
    <3> QED BY <1>3, <3>1, <3>2 DEF Crosses
  <2>3. CASE u # r /\ q # r
    BY <1>2, <1>3, <2>3 DEF Lasting, Apart
  <2> QED BY <2>1, <2>2, <2>3
<1>8. Late(s)'
  BY <1>1, <1>2, <1>3 DEF Lasting, Late, Out, Known
<1>9. Out(s)'
  BY <1>1, <1>3 DEF Lasting, Out, IsAdmin
<1> QED BY <1>5, <1>6, <1>7, <1>8, <1>9 DEF Lasting

LEMMA LastingNext == ASSUME Typed, AllLasting, [Next]_vars PROVE AllLasting'
<1> SUFFICES ASSUME NEW o \in Seat PROVE Lasting(o)'
  BY DEF AllLasting
<1> USE DEF AllLasting
<1>1. ASSUME NEW r \in Request, NEW s \in Seat, Step(r, s) PROVE Lasting(o)'
  BY <1>1, StepElsewhere, LastingAsItWas, LastingStep
<1>2. ASSUME NEW r \in Request, fails(r) PROVE Lasting(o)'
  <2>1. UNCHANGED <<account, admin, removed, crossed>> /\ Ends(r)
    BY <1>2 DEF fails, tableVars
  <2>2. \A q \in InHand(o)' : q \in InHand(o) /\ request'[q] = request[q]
    BY <2>1, RequestEnds DEF Typed, InHand
  <2> QED BY <2>1, <2>2, LastingStays
<1>3. ASSUME NEW r \in Request, Start(r) PROVE Lasting(o)'
  <2>1. PICK s \in Seat : \E op, sets : Begin(r, op, s, sets) /\ (op \in Known => IsAdmin(s))
    <3>1. CASE inviteAdmin(r) \/ cancelAdminInvite(r) \/ acceptAdminInvite(r)
      <4>1. \A op \in {"invite", "cancel", "accept"} : op \notin Known
        BY DEF Known
      <4> QED BY <3>1, <4>1 DEF inviteAdmin, cancelAdminInvite, acceptAdminInvite
    <3>2. CASE updateAdmin(r) \/ suspendAdmin(r) \/ reactivateAdmin(r) \/ removeAdmin(r)
      BY <3>2 DEF updateAdmin, suspendAdmin, reactivateAdmin, removeAdmin
    <3> QED BY <1>3, <3>1, <3>2 DEF Start
  <2> QED BY <2>1, BeginElsewhere, LastingAsItWas, LastingBegins
<1>4. CASE UNCHANGED <<account, admin, removed, crossed, failed, request>>
  <2>1. AsItWas(o)
    BY <1>4 DEF AsItWas, InHand
  <2> QED BY <2>1, LastingAsItWas
<1> QED
  BY <1>1, <1>2, <1>3, <1>4
  DEF Next, Continue, Step, resendAdminInvite, tokenExpires, Guard, guardReads, guardCaches, entryExpires,
      vars, tableVars, historyVars

\* A removed administrator has no row again, unless an update of the row was in hand.
THEOREM RemovalLasts == Spec => []RemovedStaysOut
<1>1. Init => AllLasting
  <2> SUFFICES ASSUME Init, NEW s \in Seat PROVE Lasting(s)
    BY DEF AllLasting
  <2>1. InHand(s) = {} /\ removed = {}
    BY NoAdminIsNone DEF Init, InHand
  <2>2. account[s] = "none" => ~IsAdmin(s)
    BY DEF Init, IsAdmin
  <2> QED BY <2>1, <2>2 DEF Lasting, Fresh, Untouched, JoinsOnce, Apart, Late, Out
<1>2. Typed /\ AllLasting => RemovedStaysOut
  BY DEF Typed, TypeOK, AllLasting, Lasting, Out, RemovedStaysOut
<1>3. Spec => [](Typed /\ AllLasting)
  BY <1>1, InitTyped, StepTyped, LastingNext, PTL DEF Spec
<1> QED BY <1>2, <1>3, PTL
=============================================================================
