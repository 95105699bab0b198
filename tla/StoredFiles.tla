---------------------------- MODULE StoredFiles -----------------------------
(***************************************************************************)
(* The files of one company and of the administrators: profile pictures,   *)
(* the company's logo and proofs of delivery in the bucket, what refers to *)
(* them in the database and at Supabase Auth, and the clean-up queue that  *)
(* deletes them. A slot is a place that refers to at most one file: the    *)
(* metadata of a user or of an administrator, the row of the company, or   *)
(* the row of a stop. Requests upload a file, set the reference and ask    *)
(* for deletions in separate steps; once a day a scan lists the bucket     *)
(* and asks for the deletion of what no slot refers to.                    *)
(*                                                                         *)
(* A proof of delivery is one file here (a photo and a signature go the    *)
(* same way), and a listing shows every file.                              *)
(***************************************************************************)
EXTENDS Naturals, Sequences, FiniteSets

CONSTANTS
  User, Admin, Logo, Proof,  \* the slots, by what they belong to
  Request,                   \* requests in hand at a time
  Attempts,                  \* tries of a deletion (5)
  MaxBegun,                  \* bounds of the model: requests ever begun,
  MaxFaults                  \* and calls that fail or process deaths

ASSUME FilesAssumption ==
  /\ Attempts \in Nat \ {0} /\ MaxBegun \in Nat /\ MaxFaults \in Nat
  /\ \A s \in User \cup Admin \cup Logo : s \notin Proof
  /\ \A s \in Admin : s \notin User \cup Logo

Slot == User \cup Admin \cup Logo \cup Proof

VARIABLES
  stored,     \* the files in the bucket
  refers,     \* the file that each slot refers to: a set of one, or none
  owner,      \* whether the row that a slot belongs to is there, and switched on
  request,    \* what each request has left to do, for which slot, and its files
  deletion,   \* the tries left of the job that deletes a file: none when it has failed
  folder,     \* the tries left of the deletion of the company's folder
  scan,       \* the job that reconciles each prefix, and the files it has listed
  begun, faults,
  exposed     \* history: slots whose file may be lost, see Exposes

filesVars == <<stored, refers, owner, request, deletion, folder, scan, begun, faults, exposed>>

\* Every upload draws a name, except that a stop has one path for its proof.
Path == (Proof \X {0}) \cup ((Slot \ Proof) \X (1..MaxBegun))
uploadPath(s) == IF s \in Proof THEN <<s, 0>> ELSE <<s, begun + 1>>

Slots(paths) == {p[1] : p \in paths}

Prefix == {"admin/avatars", "companies"}
prefixOf(s) == IF s \in Admin THEN "admin/avatars" ELSE "companies"
Under(prefix) == {s \in Slot : prefixOf(s) = prefix}

NoRequest == [todo |-> <<>>, slot |-> {}, old |-> {}, new |-> {}]

Single(S) == {{}} \cup {{x} : x \in S}

\* What the handlers do, in the order of their steps.
Steps ==
  [user   |-> <<"upload", "refer", "sync">>,
   admin  |-> <<"upload", "refer", "sync", "report">>,
   logo   |-> <<"upload", "tidy", "refer">>,
   proof  |-> <<"upload", "refer", "report">>,
   remove |-> <<"erase", "tidy">>]

\* What is left of a handler after some of its steps.
Rest(steps) == {SubSeq(steps, n, Len(steps)) : n \in 1..(Len(steps) + 1)}
Todo == UNION {Rest(Steps[h]) : h \in DOMAIN Steps}

NoJob == Attempts + 1
Failed(p) == deletion[p] = 0
Waits(p) == deletion[p] \in 1..Attempts

FilesTypeOK ==
  /\ stored \subseteq Path
  /\ refers \in [Slot -> Single(Path)]
  /\ owner \in [Slot -> {"live", "suspended", "gone"}]
  /\ request \in [Request -> [todo : Todo, slot : Single(Slot), old : Single(Path), new : Single(Path)]]
  /\ deletion \in [Path -> 0..NoJob]
  /\ folder \in 0..NoJob
  /\ scan \in [Prefix -> [at : {"none", "listed", "failed"}, files : SUBSET Path]]
  /\ begun \in 0..MaxBegun
  /\ faults \in 0..MaxFaults
  /\ exposed \subseteq Slot

NotScanning == [at |-> "none", files |-> {}]

\* Nobody has a picture yet, the company has no logo, and no stop is completed.
FilesInit ==
  /\ stored = {}
  /\ refers = [s \in Slot |-> {}]
  /\ owner = [s \in Slot |-> "live"]
  /\ request = [r \in Request |-> NoRequest]
  /\ deletion = [p \in Path |-> NoJob]
  /\ folder = NoJob
  /\ scan = [x \in Prefix |-> NotScanning]
  /\ begun = 0
  /\ faults = 0
  /\ exposed = {}

Fault == faults < MaxFaults /\ faults' = faults + 1
NoFault == UNCHANGED faults

-----------------------------------------------------------------------------
(* The clean-up queue *)

\* A job is known by its path: one that is there already, even a failed one, is kept.
Wanted(paths) == [p \in Path |-> IF p \in paths /\ deletion[p] = NoJob THEN Attempts ELSE deletion[p]]

\* enqueueDelete: that Redis refuses is only logged.
enqueueDelete(paths) ==
  \/ deletion' = Wanted(paths) /\ NoFault
  \/ paths # {} /\ UNCHANGED deletion /\ Fault

handleDelete(p) ==
  /\ Waits(p)
  /\ \/ /\ stored' = stored \ {p}
        /\ deletion' = [deletion EXCEPT ![p] = NoJob]
        /\ NoFault
     \/ /\ deletion' = [deletion EXCEPT ![p] = @ - 1]
        /\ Fault
        /\ UNCHANGED stored
  /\ UNCHANGED <<refers, owner, request, folder, scan, begun, exposed>>

\* The company's files, whatever they belong to.
handleDeleteFolder ==
  /\ folder \in 1..Attempts
  /\ \/ /\ stored' = {p \in stored : p[1] \in Admin}
        /\ folder' = NoJob
        /\ NoFault
     \/ /\ folder' = folder - 1
        /\ Fault
        /\ UNCHANGED stored
  /\ UNCHANGED <<refers, owner, request, deletion, scan, begun, exposed>>

-----------------------------------------------------------------------------
(* Requests *)

InHand(r) == request[r].todo # <<>>
Busy == UNION {request[r].slot : r \in {r \in Request : InHand(r)}}

Counted == begun < MaxBegun /\ begun' = begun + 1

\* Two requests about a slot: each may delete what the other one refers to.
begin(r, s, steps, new) ==
  /\ ~InHand(r)
  /\ Counted
  /\ request' = [request EXCEPT ![r] = [todo |-> steps, slot |-> {s}, old |-> refers[s], new |-> new]]
  /\ exposed' = exposed \cup ({s} \cap Busy)
  /\ UNCHANGED <<stored, refers, owner, deletion, folder, scan, faults>>

updateUserProfile(r, s) ==
  s \in User /\ owner[s] = "live" /\ begin(r, s, Steps.user, {uploadPath(s)})

updateOwnProfile(r, s) ==
  s \in Admin /\ owner[s] = "live" /\ begin(r, s, Steps.admin, {uploadPath(s)})

updateCompany(r, s) ==
  s \in Logo /\ owner[s] = "live" /\ begin(r, s, Steps.logo, {uploadPath(s)})

completeStop(r, s) ==
  s \in Proof /\ owner[s] = "live" /\ begin(r, s, Steps.proof, {uploadPath(s)})

\* A member, a user or an administrator is removed; the picture's name has been read.
removeOwner(r, s) ==
  s \in User \cup Admin /\ owner[s] # "gone" /\ begin(r, s, Steps.remove, {})

Next1(r) == [request EXCEPT ![r].todo = Tail(@)]
Ends(r) == [request EXCEPT ![r] = NoRequest]

At(r, step) == InHand(r) /\ Head(request[r].todo) = step

\* A logo is given up before the row refers to the new one.
GivenUp == UNION {request[r].slot \cap Logo : r \in {r \in Request : At(r, "refer")}}

upload(r) ==
  /\ At(r, "upload")
  /\ stored' = stored \cup request[r].new
  /\ request' = Next1(r)
  /\ UNCHANGED <<refers, owner, deletion, folder, scan, begun, faults, exposed>>

\* A stop takes its proof only once: when it is completed already, its transaction fails.
canRefer(s) == owner[s] # "gone" /\ (s \in Proof => refers[s] = {})

refer(r) ==
  /\ At(r, "refer")
  /\ \E s \in request[r].slot :
       /\ canRefer(s)
       /\ refers' = [refers EXCEPT ![s] = request[r].new]
  /\ request' = Next1(r)
  /\ UNCHANGED <<stored, owner, deletion, folder, scan, begun, faults, exposed>>

\* The rows in the database repeat the reference, and the old file is given up.
sync(r) ==
  /\ At(r, "sync")
  /\ enqueueDelete(request[r].old)
  /\ request' = Next1(r)
  /\ UNCHANGED <<stored, refers, owner, folder, scan, begun, exposed>>

erase(r) ==
  /\ At(r, "erase")
  /\ \E s \in request[r].slot : /\ owner' = [owner EXCEPT ![s] = "gone"]
                                /\ refers' = [refers EXCEPT ![s] = {}]
  /\ request' = Next1(r)
  /\ UNCHANGED <<stored, deletion, folder, scan, begun, faults, exposed>>

tidy(r) ==
  /\ At(r, "tidy")
  /\ enqueueDelete(request[r].old)
  /\ request' = Next1(r)
  /\ UNCHANGED <<stored, refers, owner, folder, scan, begun, exposed>>

\* What is left when the reference has been set: the cache, the audit log, the event.
report(r) ==
  /\ At(r, "report")
  /\ request[r].slot \cap Proof = {}
  /\ request' = Next1(r)
  /\ UNCHANGED <<stored, refers, owner, deletion, folder, scan, begun, faults, exposed>>

\* The catch of a handler: the new file is to be deleted.
catch(r) ==
  /\ request' = Ends(r)
  /\ deletion' = Wanted(request[r].new)
  /\ UNCHANGED <<stored, owner, folder, scan, begun>>

\* The upload fails, or the reference cannot be set. A logo's old file is in the queue
\* by then; the next attempt stores a proof under the path that is now to be deleted.
uploadFails(r) ==
  /\ At(r, "upload")
  /\ Fault
  /\ exposed' = exposed \cup (request[r].slot \cap Proof)
  /\ catch(r)
  /\ UNCHANGED refers

referFails(r) ==
  /\ At(r, "refer")
  /\ \E s \in request[r].slot :
       /\ (canRefer(s) /\ Fault) \/ (~canRefer(s) /\ NoFault)
       /\ exposed' = exposed \cup ({s} \cap (Logo \cup Proof))
  /\ catch(r)
  /\ UNCHANGED refers

\* The database fails: the metadata are set back to what was read, if Supabase answers.
syncFails(r) ==
  /\ At(r, "sync")
  /\ Fault
  /\ \E s \in request[r].slot :
       \/ /\ owner[s] # "gone"
          /\ refers' = [refers EXCEPT ![s] = request[r].old]
          /\ UNCHANGED exposed
       \/ UNCHANGED refers /\ exposed' = exposed \cup {s}
  /\ catch(r)

\* Something fails when the reference is set: the file it names is deleted all the
\* same. The event of a completed stop always fails: the stop is without its order.
reportFails(r) ==
  /\ At(r, "report")
  /\ IF request[r].slot \subseteq Proof THEN NoFault ELSE Fault
  /\ exposed' = exposed \cup request[r].slot
  /\ catch(r)
  /\ UNCHANGED refers

\* The process dies: nothing of its requests is undone.
dies ==
  /\ Fault
  /\ \E r \in Request : InHand(r)
  /\ request' = [r \in Request |-> NoRequest]
  /\ exposed' = exposed \cup GivenUp
  /\ UNCHANGED <<stored, refers, owner, deletion, folder, scan, begun>>

\* An administrator is suspended and reactivated.
setActive(s) ==
  /\ s \in Admin
  /\ owner[s] # "gone"
  /\ Counted
  /\ owner' = [owner EXCEPT ![s] = IF @ = "live" THEN "suspended" ELSE "live"]
  /\ UNCHANGED <<stored, refers, request, deletion, folder, scan, faults, exposed>>

\* The company is deleted with its rows; its folder is left to a job, or the owner's
\* request deletes it at once and does not try again.
deleteCompany ==
  /\ \E s \in Logo : owner[s] = "live"
  /\ Counted
  /\ owner' = [s \in Slot |-> IF s \in Admin THEN owner[s] ELSE "gone"]
  /\ refers' = [s \in Slot |-> IF s \in Admin THEN refers[s] ELSE {}]
  /\ \/ folder' \in {1, Attempts} /\ NoFault
     \/ UNCHANGED folder /\ Fault
  /\ UNCHANGED <<stored, request, deletion, scan, exposed>>

-----------------------------------------------------------------------------
(* The daily scan *)

\* A listing that does not go down into the folders of a company.
topLevelOnly(x) == {p \in stored : p[1] \in Under(x) \cap Admin}

StoredUnder(x) == {p \in stored : p[1] \in Under(x)}

\* The job is added once a day and lists the bucket; nothing is left to do when there
\* is no file. A scan that has failed keeps its job id: the next one is never added.
listFiles(x) ==
  /\ scan[x].at = "none"
  /\ StoredUnder(x) # {}
  /\ scan' = [scan EXCEPT ![x] = [at |-> "listed", files |-> StoredUnder(x)]]
  /\ UNCHANGED <<stored, refers, owner, request, deletion, folder, begun, faults, exposed>>

scanFails(x) ==
  /\ scan[x].at = "listed"
  /\ Fault
  /\ scan' = [scan EXCEPT ![x] = [at |-> "failed", files |-> {}]]
  /\ UNCHANGED <<stored, refers, owner, request, deletion, folder, begun, exposed>>

\* A scan that knows nothing of the company's logo.
withoutLogos(x, silent) ==
  UNION {refers[s] : s \in {s \in Under(x) \ (silent \cup Logo) : owner[s] = "live"}}

\* Suspended administrators are not asked for, and of the users and administrators
\* those whose look-up fails are passed over.
referencedPaths(x, silent) ==
  UNION {refers[s] : s \in {s \in Under(x) \ silent : owner[s] = "live"}}

findOrphanedFiles(x) ==
  /\ scan[x].at = "listed"
  /\ \E silent \in SUBSET {s \in User \cup Admin : refers[s] \cap scan[x].files # {}} :
       LET orphans == scan[x].files \ referencedPaths(x, silent)
           suspended == {s \in Admin : owner[s] = "suspended"}
       IN
       /\ deletion' = Wanted(orphans)
       /\ exposed' = exposed \cup (Slots(orphans) \cap (silent \cup Busy \cup suspended \cup Proof))
       /\ IF silent = {} THEN NoFault ELSE Fault
  /\ scan' = [scan EXCEPT ![x] = NotScanning]
  /\ UNCHANGED <<stored, refers, owner, request, folder, begun>>

-----------------------------------------------------------------------------
Begin(r) ==
  \E s \in Slot :
    \/ updateUserProfile(r, s) \/ updateOwnProfile(r, s) \/ updateCompany(r, s)
    \/ completeStop(r, s) \/ removeOwner(r, s)

Continue(r) == upload(r) \/ refer(r) \/ sync(r) \/ erase(r) \/ tidy(r) \/ report(r)

Stops(r) == uploadFails(r) \/ referFails(r) \/ syncFails(r) \/ reportFails(r)

Reconcile(x) == listFiles(x) \/ scanFails(x) \/ findOrphanedFiles(x)

FilesNext ==
  \/ \E r \in Request : Begin(r) \/ Continue(r) \/ Stops(r)
  \/ dies
  \/ \E s \in Slot : setActive(s)
  \/ deleteCompany
  \/ \E p \in Path : handleDelete(p)
  \/ handleDeleteFolder
  \/ \E x \in Prefix : Reconcile(x)

\* Workers take the jobs of the queue, and the scan is asked for every day.
FilesFairness ==
  /\ \A p \in Path : WF_filesVars(handleDelete(p))
  /\ WF_filesVars(handleDeleteFolder)
  /\ \A x \in Prefix : WF_filesVars(Reconcile(x))

FilesSpec == FilesInit /\ [][FilesNext]_filesVars /\ FilesFairness

-----------------------------------------------------------------------------
(* Properties *)

InUse(p) == \E s \in Slot : owner[s] # "gone" /\ p \in refers[s]

\* The file a slot refers to stays in the bucket and no job is to delete it, unless
\* requests about the slot overlapped, one of them failed or died when the reference
\* was set or the old file given up, or a scan ran meanwhile or without an answer
\* about the slot.
FileInUseStays ==
  \A s \in Slot \ (exposed \cup GivenUp) : \A p \in refers[s] : p \in stored /\ deletion[p] = NoJob

\* A file that nothing refers to goes in the end, unless the job that deletes it or the
\* scan that would find it has failed for good.
OrphanGoes ==
  \A p \in Path :
    p \in stored /\ ~InUse(p) ~>
      \/ p \notin stored \/ InUse(p)
      \/ Failed(p) \/ scan[prefixOf(p[1])].at = "failed"

\* The proof of a delivery is kept once the stop is completed: no run checks
\* it, for completeStop throws after its commit and has the files deleted.
ProofIsKept == \A s \in Proof : \A p \in refers[s] : p \in stored
=============================================================================
