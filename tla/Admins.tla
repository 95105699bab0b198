------------------------------- MODULE Admins -------------------------------
(***************************************************************************)
(* The administrators of the platform: invitations by email, the account   *)
(* at Supabase an accepted one creates, the row of admin_users every right *)
(* comes from, and the copy of that row AdminAuthGuard keeps in the cache. *)
(* An operation is a read, a call to Supabase, a transaction and an        *)
(* invalidation of the cache, each a step of its own that can fail, with   *)
(* the steps of other requests and of the guard in between.                *)
(*                                                                         *)
(* A seat stands for an invitation and for all that comes of it: the row,  *)
(* the account and the entry of the cache. The name and the picture of an  *)
(* administrator are left out, and so is a second acceptance of a seat     *)
(* whose account was created and removed meanwhile.                        *)
(***************************************************************************)
EXTENDS Naturals, FiniteSets

CONSTANTS
  Seat,      \* invitations the platform may send
  Email,     \* where they go to
  To,        \* the email of each seat
  Role,      \* what an administrator may be
  Request,   \* requests in hand at a time
  MaxBegun   \* bound of the model: requests ever begun

ASSUME AdminAssumption ==
  /\ To \in [Seat -> Email]
  /\ "none" \notin Role
  /\ MaxBegun \in Nat

VARIABLES
  invite,     \* the row of admin_invites of each seat, and its role
  account,    \* the account at Supabase
  admin,      \* the row of admin_users
  cached,     \* admin:user:<id> of the cache
  reading,    \* the row a request in AdminAuthGuard has read and not cached yet
  request,    \* the request each one in hand is, and how far it is
  begun,      \* requests ever begun
  overtaken,  \* history: seats whose entry of the cache was written from an outdated read,
              \* or could not be deleted
  failed,     \* history: seats a step of whose requests has failed
  crossed,    \* history: seats updated and removed at a time
  removed     \* and seats whose administrator was removed

tableVars == <<invite, account, admin>>
guardVars == <<cached, reading, overtaken>>
historyVars == <<failed, crossed, removed>>
vars == <<tableVars, guardVars, request, begun, historyVars>>

NoAdmin == [role |-> "none", isActive |-> FALSE]
AdminUser == [role : Role, isActive : BOOLEAN]
NoRequest == [op |-> "none", at |-> "none", on |-> {}, sets |-> NoAdmin]
RequestState ==
  [op : {"none", "invite", "cancel", "accept", "update", "suspend", "reactivate", "remove"},
   at : {"none", "begun", "called", "written"},
   on : {{}} \cup {{s} : s \in Seat},
   sets : AdminUser \cup {NoAdmin}]

TypeOK ==
  /\ invite \in [Seat -> [at : {"none", "open", "expired", "accepted", "gone"}, role : Role \cup {"none"}]]
  /\ account \in [Seat -> {"none", "open", "banned", "deleted"}]
  /\ admin \in [Seat -> AdminUser \cup {NoAdmin}]
  /\ cached \in [Seat -> AdminUser \cup {NoAdmin}]
  /\ reading \in [Seat -> AdminUser \cup {NoAdmin}]
  /\ request \in [Request -> RequestState]
  /\ begun \in 0..MaxBegun
  /\ overtaken \subseteq Seat
  /\ failed \subseteq Seat
  /\ crossed \subseteq Seat
  /\ removed \subseteq Seat

IsAdmin(s) == admin[s] # NoAdmin
HasAccount(s) == account[s] \in {"open", "banned"}
Unaccepted(s) == invite[s].at \in {"open", "expired"}

\* At most one administrator at the start.
Init ==
  /\ \E seated \in {{}} \cup {{s} : s \in Seat}, role \in Role :
       /\ invite = [s \in Seat |-> IF s \in seated THEN [at |-> "accepted", role |-> role]
                                                  ELSE [at |-> "none", role |-> "none"]]
       /\ account = [s \in Seat |-> IF s \in seated THEN "open" ELSE "none"]
       /\ admin = [s \in Seat |-> IF s \in seated THEN [role |-> role, isActive |-> TRUE] ELSE NoAdmin]
  /\ cached = [s \in Seat |-> NoAdmin]
  /\ reading = [s \in Seat |-> NoAdmin]
  /\ request = [r \in Request |-> NoRequest]
  /\ begun = 0
  /\ overtaken = {}
  /\ failed = {}
  /\ crossed = {}
  /\ removed = {}

-----------------------------------------------------------------------------
(* What the requests are made of *)

InHand(s) == {r \in Request : request[r].on = {s}}

\* Two requests that must not overlap if a removal is to last.
Crosses(op, s) ==
  \E other \in {<<"update", "remove">>, <<"remove", "update">>} :
    op = other[1] /\ \E q \in InHand(s) : request[q].op = other[2]

\* A request finds what it is about.
Begin(r, op, s, sets) ==
  /\ request[r].op = "none"
  /\ begun < MaxBegun
  /\ begun' = begun + 1
  /\ request' = [request EXCEPT ![r] = [op |-> op, at |-> "begun", on |-> {s}, sets |-> sets]]
  /\ crossed' = IF Crosses(op, s) THEN crossed \cup {s} ELSE crossed
  /\ UNCHANGED <<tableVars, guardVars, failed, removed>>

IsAt(r, op, at, s) == request[r].op = op /\ request[r].at = at /\ request[r].on = {s}
GoesTo(r, at) == request' = [request EXCEPT ![r].at = at]
Ends(r) == request' = [request EXCEPT ![r] = NoRequest]

\* Supabase or the database fails, or the process dies with the request.
fails(r) ==
  /\ request[r].op # "none"
  /\ request[r].at # "written"
  /\ failed' = failed \cup request[r].on
  /\ overtaken' = IF request[r].op = "remove" /\ request[r].at = "called"
                  THEN overtaken \cup request[r].on ELSE overtaken
  /\ Ends(r)
  /\ UNCHANGED <<tableVars, cached, reading, begun, crossed, removed>>

-----------------------------------------------------------------------------
(* Invitations *)

\* An email is invited again once an invitation to it that was not accepted has expired;
\* of several, the database names any.
invitable(s) ==
  LET others == {o \in Seat : To[o] = To[s]}
      waiting == {o \in others : Unaccepted(o)}
  IN /\ \A o \in others : ~IsAdmin(o)
     /\ waiting # {} => \E o \in waiting : invite[o].at = "expired"

inviteAdmin(r) ==
  \E s \in Seat, role \in Role :
    /\ invite[s].at = "none" /\ InHand(s) = {}
    /\ invitable(s)
    /\ Begin(r, "invite", s, [role |-> role, isActive |-> TRUE])

insertInvite(r, s) ==
  /\ IsAt(r, "invite", "begun", s)
  /\ invite' = [invite EXCEPT ![s] = [at |-> "open", role |-> request[r].sets.role]]
  /\ Ends(r)
  /\ UNCHANGED <<account, admin, guardVars, begun, historyVars>>

\* A new token and a new day: an update by id, which does nothing to a row that is gone
\* and nothing of note to one that was accepted since it was found.
resendAdminInvite(s) ==
  /\ Unaccepted(s)
  /\ invite' = [invite EXCEPT ![s].at = "open"]
  /\ UNCHANGED <<account, admin, guardVars, request, begun, historyVars>>

tokenExpires(s) ==
  /\ invite[s].at = "open"
  /\ invite' = [invite EXCEPT ![s].at = "expired"]
  /\ UNCHANGED <<account, admin, guardVars, request, begun, historyVars>>

cancelAdminInvite(r) == \E s \in Seat : Unaccepted(s) /\ Begin(r, "cancel", s, NoAdmin)

\* The row is deleted by its id, accepted meanwhile or not.
deleteInvite(r, s) ==
  /\ IsAt(r, "cancel", "begun", s)
  /\ invite' = [invite EXCEPT ![s].at = "gone"]
  /\ Ends(r)
  /\ UNCHANGED <<account, admin, guardVars, begun, historyVars>>

acceptAdminInvite(r) ==
  \E s \in Seat : /\ invite[s].at = "open"
                  /\ Begin(r, "accept", s, [role |-> invite[s].role, isActive |-> TRUE])

\* Supabase has one account for an email, and refuses to create another.
createUser(r, s) ==
  \/ /\ account[s] = "none" /\ \A o \in Seat : To[o] = To[s] => ~HasAccount(o)
     /\ account' = [account EXCEPT ![s] = "open"]
     /\ GoesTo(r, "called")
  \/ /\ \E o \in Seat : To[o] = To[s] /\ HasAccount(o)
     /\ Ends(r)
     /\ UNCHANGED account

create(r, s) ==
  /\ IsAt(r, "accept", "begun", s)
  /\ createUser(r, s)
  /\ UNCHANGED <<invite, admin, guardVars, begun, historyVars>>

\* The row of the administrator and the acceptance in one transaction, which leaves the
\* invitation alone when it was cancelled meanwhile and fails when the email has a row.
join(r, s) ==
  /\ IsAt(r, "accept", "called", s)
  /\ \/ /\ \A o \in Seat : To[o] = To[s] => ~IsAdmin(o)
        /\ admin' = [admin EXCEPT ![s] = request[r].sets]
        /\ invite' = [invite EXCEPT ![s].at = IF @ = "gone" THEN "gone" ELSE "accepted"]
        /\ GoesTo(r, "written")
        /\ UNCHANGED failed
     \/ /\ \E o \in Seat : To[o] = To[s] /\ IsAdmin(o)
        /\ Ends(r)
        /\ failed' = failed \cup {s}
        /\ UNCHANGED <<admin, invite>>
  /\ UNCHANGED <<account, guardVars, begun, crossed, removed>>

-----------------------------------------------------------------------------
(* Administrators *)

\* updateAdmin reads the row inside its transaction and lays the new values over it.
updateAdmin(r) ==
  \E s \in Seat, role \in Role, isActive \in BOOLEAN :
    IsAdmin(s) /\ Begin(r, "update", s, [role |-> role, isActive |-> isActive])

\* The entity is saved, whether its row is still there or not.
saveAdmin(r, s) ==
  /\ IsAt(r, "update", "begun", s)
  /\ admin' = [admin EXCEPT ![s] = request[r].sets]
  /\ GoesTo(r, "written")
  /\ UNCHANGED <<invite, account, guardVars, begun, historyVars>>

suspendAdmin(r) == \E s \in Seat : IsAdmin(s) /\ Begin(r, "suspend", s, NoAdmin)

reactivateAdmin(r) == \E s \in Seat : IsAdmin(s) /\ Begin(r, "reactivate", s, NoAdmin)

\* banSupabaseUser, unbanSupabaseUser
callSupabase(r, s) ==
  /\ \E call \in {<<"suspend", "banned">>, <<"reactivate", "open">>} :
       IsAt(r, call[1], "begun", s) /\ account' = [account EXCEPT ![s] = call[2]]
  /\ HasAccount(s)
  /\ GoesTo(r, "called")
  /\ UNCHANGED <<invite, admin, guardVars, begun, historyVars>>

\* A suspension that saves the administrator it has found.
saveActive(s, isActive) ==
  admin' = [admin EXCEPT ![s] = [role |-> invite[s].role, isActive |-> isActive]]

\* An update by id: nothing when the row is gone.
updateActive(s, isActive) ==
  admin' = IF IsAdmin(s) THEN [admin EXCEPT ![s].isActive = isActive] ELSE admin

setActive(r, s) ==
  /\ \E set \in {<<"suspend", FALSE>>, <<"reactivate", TRUE>>} :
       IsAt(r, set[1], "called", s) /\ updateActive(s, set[2])
  /\ GoesTo(r, "written")
  /\ UNCHANGED <<invite, account, guardVars, begun, historyVars>>

removeAdmin(r) == \E s \in Seat : IsAdmin(s) /\ Begin(r, "remove", s, NoAdmin)

deleteAdmin(r, s) ==
  /\ IsAt(r, "remove", "begun", s)
  /\ admin' = [admin EXCEPT ![s] = NoAdmin]
  /\ removed' = removed \cup {s}
  /\ GoesTo(r, "called")
  /\ UNCHANGED <<invite, account, guardVars, begun, failed, crossed>>

\* A removal that only bans the account.
bansUser(s) == account' = [account EXCEPT ![s] = "banned"] /\ UNCHANGED failed

\* The account goes if Supabase can delete it; an error is written to the log.
deletesUser(s) ==
  \/ account' = [account EXCEPT ![s] = "deleted"] /\ UNCHANGED failed
  \/ failed' = failed \cup {s} /\ UNCHANGED account

deleteUser(r, s) ==
  /\ IsAt(r, "remove", "called", s)
  /\ deletesUser(s)
  /\ GoesTo(r, "written")
  /\ UNCHANGED <<invite, admin, guardVars, begun, crossed, removed>>

\* A request that leaves the guard's copy to its time of life.
keepsEntry(r, s) == Ends(r) /\ UNCHANGED <<cached, overtaken>>

\* The end of an operation: the entry of the guard is deleted, unless Redis fails, or
\* unless updateAdmin finds the row gone when it reads it again.
deletesEntry(r, s) ==
  /\ Ends(r)
  /\ IF request[r].op = "update" /\ ~IsAdmin(s)
     THEN UNCHANGED <<cached, overtaken>>
     ELSE \/ cached' = [cached EXCEPT ![s] = NoAdmin] /\ overtaken' = overtaken \ {s}
          \/ overtaken' = overtaken \cup {s} /\ UNCHANGED cached

invalidate(r, s) ==
  /\ request[r].at = "written" /\ request[r].on = {s}
  /\ deletesEntry(r, s)
  /\ UNCHANGED <<tableVars, reading, begun, historyVars>>

-----------------------------------------------------------------------------
(* AdminAuthGuard: an entry lets its owner in; without one, an active row does. *)

guardReads(s) ==
  /\ cached[s] = NoAdmin /\ reading[s] = NoAdmin
  /\ admin[s].isActive
  /\ reading' = [reading EXCEPT ![s] = admin[s]]
  /\ UNCHANGED <<tableVars, cached, overtaken, request, begun, historyVars>>

\* The entry is written over whatever there is; an error of Redis is written to the log.
guardCaches(s) ==
  /\ reading[s] # NoAdmin
  /\ reading' = [reading EXCEPT ![s] = NoAdmin]
  /\ \/ /\ cached' = [cached EXCEPT ![s] = reading[s]]
        /\ overtaken' = IF reading[s] = admin[s] THEN overtaken \ {s} ELSE overtaken \cup {s}
     \/ UNCHANGED <<cached, overtaken>>
  /\ UNCHANGED <<tableVars, request, begun, historyVars>>

\* An entry without a time of life.
neverExpires(s) == FALSE /\ cached' = cached

\* CACHE_TTL
expires(s) == cached[s] # NoAdmin /\ cached' = [cached EXCEPT ![s] = NoAdmin]

entryExpires(s) ==
  /\ expires(s)
  /\ overtaken' = overtaken \ {s}
  /\ UNCHANGED <<tableVars, reading, request, begun, historyVars>>

-----------------------------------------------------------------------------
Start(r) ==
  \/ inviteAdmin(r) \/ cancelAdminInvite(r) \/ acceptAdminInvite(r)
  \/ updateAdmin(r) \/ suspendAdmin(r) \/ reactivateAdmin(r) \/ removeAdmin(r)

Continue(r) ==
  \/ \E s \in Seat :
       \/ insertInvite(r, s) \/ deleteInvite(r, s) \/ create(r, s) \/ join(r, s)
       \/ saveAdmin(r, s) \/ callSupabase(r, s) \/ setActive(r, s)
       \/ deleteAdmin(r, s) \/ deleteUser(r, s) \/ invalidate(r, s)
  \/ fails(r)

Guard(s) == guardReads(s) \/ guardCaches(s) \/ entryExpires(s)

Next ==
  \/ \E r \in Request : Start(r) \/ Continue(r)
  \/ \E s \in Seat : resendAdminInvite(s) \/ tokenExpires(s) \/ Guard(s)

\* A request goes on or fails, a guard caches what it has read, and Redis lets an entry
\* go when its time is over.
Fairness ==
  /\ \A r \in Request : WF_vars(Continue(r))
  /\ \A s \in Seat : WF_vars(guardCaches(s)) /\ WF_vars(entryExpires(s))

Spec == Init /\ [][Next]_vars /\ Fairness
-----------------------------------------------------------------------------
(* Properties *)

\* What AdminAuthGuard lets an administrator in with is what the row says, except while a
\* request that wrote the row has not deleted the entry yet, and after a guard cached what
\* it had read before the write, or Redis failed.
EntryTellsRow ==
  \A s \in Seat : \/ cached[s] \in {NoAdmin, admin[s]}
                  \/ s \in overtaken
                  \/ \E r \in InHand(s) : request[r].at = "written"
                  \/ \E r \in InHand(s) : request[r].op = "remove" /\ request[r].at = "called"

\* A removed administrator has no row again, unless an update of the row was in hand.
RemovedStaysOut == \A s \in removed : IsAdmin(s) => s \in crossed

\* An account is an administrator's: no acceptance and no removal leaves one behind that
\* nobody owns, and that bars its email, unless a step has failed.
AccountHasAdmin ==
  \A s \in Seat : \/ ~HasAccount(s) \/ IsAdmin(s) \/ s \in failed
                  \/ \E r \in InHand(s) : request[r].op \in {"accept", "remove"} /\ request[r].at = "called"

\* However requests and guards cross, the guard's copy is right again in the end.
StaleEntryEnds == \A s \in Seat : <>[](cached[s] \in {NoAdmin, admin[s]})
=============================================================================
