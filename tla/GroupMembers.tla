--------------------------- MODULE GroupMembers ---------------------------
(***************************************************************************)
(* Membership at a group server: who has asked to join, who is registered, *)
(* who is a member, and the key packages the admin needs to add a user to  *)
(* the MLS group.                                                          *)
(*                                                                         *)
(* One loop serves one request after the other, but a handler is a series  *)
(* of separate SQL statements: the process may stop between any two, and   *)
(* each may fail, which most handlers only log.  A restart makes every     *)
(* registered user a member, if the group has a row by then.               *)
(***************************************************************************)
EXTENDS Naturals, FiniteSets

CONSTANTS Users,       \* user names
          Keys,        \* public keys
          AdminKey,    \* the key in the configuration of the group
          MaxFaults,   \* bound: statements that fail, and stops
          NoKey, NoUser, NoReq

ASSUME AdminKeyAssumption == AdminKey \in Keys
ASSUME NoKeyAssumption    == NoKey \notin Keys
ASSUME NoUserAssumption   == NoUser \notin Users
ASSUME FaultsAssumption   == MaxFaults \in Nat

VARIABLES users,      \* users table: the registered key of each user
          pending,    \* pending_users table
          packages,   \* key_packages table: by which key, "NoKey" is no row
          group,      \* admin of the groups row
          members,    \* group_members table
          phase,      \* where the running handler is
          req,        \* what it serves
          (* history *)
          told,       \* the last answer
          late,       \* users whose group_members insert did not take place
          faults      \* failed statements and stops so far

tables  == <<users, pending, packages, group, members>>
handler == <<phase, req>>
vars    == <<users, pending, packages, group, members, phase, req, told, late,
             faults>>

-----------------------------------------------------------------------------
(* Data *)

Request == [user : Users, key : Keys, kp : Keys \cup {NoKey}]

ASSUME NoReqAssumption == NoReq \notin Request

Answers == {"approved", "pending", "taken", "success", "failed"}

Answer == [what : Answers, user : Users, key : Keys, kp : Keys \cup {NoKey}]

Registered == {u \in Users : users[u] # NoKey}

Phases == {"idle", "down", "register", "adminKp", "adminGroup", "adminMember",
           "pendingKp", "approve", "approveRemove", "approveMember"}

\* A statement fails (SQLITE_BUSY, no connection within 3 s, ...), or not.
Fault   == faults < MaxFaults /\ faults' = faults + 1
NoFault == faults' = faults

\* INSERT OR IGNORE: a row that is there stays.
\* Faulty: INSERT OR REPLACE.
InsertOrReplace(table, u, k) == [table EXCEPT ![u] = k]
InsertOrIgnore(table, u, k) == [table EXCEPT ![u] = IF @ = NoKey THEN k ELSE @]

Tell(what) == told' = [what |-> what, user |-> req.user, key |-> req.key,
                       kp |-> req.kp]

Told(what) == told # NoReq /\ told.what = what

Return == phase' = "idle" /\ req' = NoReq

\* add_group_member: the foreign keys need the group's row and the user's.
\* OR IGNORE does not ignore their violation, which the handlers only log.
AddMember(u) ==
    IF group # NoUser /\ users[u] # NoKey
    THEN members' = members \cup {u} /\ UNCHANGED late
    ELSE late' = late \cup {u} /\ UNCHANGED members

-----------------------------------------------------------------------------
(* Initial state: the tables are empty. *)

Init == /\ users = [u \in Users |-> NoKey]
        /\ pending = [u \in Users |-> NoKey]
        /\ packages = [u \in Users |-> NoKey]
        /\ group = NoUser
        /\ members = {}
        /\ phase = "idle"
        /\ req = NoReq
        /\ told = NoReq
        /\ late = {}
        /\ faults = 0

-----------------------------------------------------------------------------
(* register: handle_register_core *)

\* A well-formed, fresh and correctly signed request within the rate limits;
\* any other is answered without effect.  The key package is optional.
Register(u, k, kp) ==
    /\ phase = "idle"
    /\ phase' = "register"
    /\ req' = [user |-> u, key |-> k, kp |-> kp]
    /\ UNCHANGED <<tables, told, late, faults>>

\* add_user, for the key of the admin
AdminUser ==
    /\ phase = "register"
    /\ req.key = AdminKey
    /\ \/ /\ users[req.user] = NoKey
          /\ users' = InsertOrIgnore(users, req.user, req.key)
          /\ phase' = "adminKp"
          /\ NoFault
          /\ UNCHANGED <<req, told>>
       \/ /\ users[req.user] # NoKey
          /\ users' = InsertOrIgnore(users, req.user, req.key)
          /\ Tell("taken")
          /\ Return
          /\ NoFault
       \/ /\ Fault
          /\ Tell("failed")
          /\ Return
          /\ UNCHANGED users
    /\ UNCHANGED <<pending, packages, group, members, late>>

\* store_key_package replaces the one that is there.
StorePackage ==
    \/ /\ packages' = IF req.kp = NoKey THEN packages
                      ELSE [packages EXCEPT ![req.user] = req.kp]
       /\ NoFault
    \/ /\ Fault
       /\ UNCHANGED packages

AdminKp ==
    /\ phase = "adminKp"
    /\ StorePackage
    /\ phase' = "adminGroup"
    /\ UNCHANGED <<users, pending, group, members, req, told, late>>

\* create_group
AdminGroup ==
    /\ phase = "adminGroup"
    /\ \/ /\ group' = IF group = NoUser THEN req.user ELSE group
          /\ NoFault
       \/ /\ Fault
          /\ UNCHANGED group
    /\ phase' = "adminMember"
    /\ UNCHANGED <<users, pending, packages, members, req, told, late>>

\* add_group_member and the answer
AdminMember ==
    /\ phase = "adminMember"
    /\ \/ AddMember(req.user) /\ NoFault
       \/ Fault /\ late' = late \cup {req.user} /\ UNCHANGED members
    /\ Tell("approved")
    /\ Return
    /\ UNCHANGED <<users, pending, packages, group>>

\* add_pending_user, for any other key
PendingUser ==
    /\ phase = "register"
    /\ req.key # AdminKey
    /\ \/ /\ pending[req.user] = NoKey
          /\ pending' = InsertOrIgnore(pending, req.user, req.key)
          /\ phase' = "pendingKp"
          /\ NoFault
          /\ UNCHANGED <<req, told>>
       \/ /\ pending[req.user] # NoKey
          /\ pending' = InsertOrIgnore(pending, req.user, req.key)
          /\ Tell("taken")
          /\ Return
          /\ NoFault
       \/ /\ Fault
          /\ Tell("failed")
          /\ Return
          /\ UNCHANGED pending
    /\ UNCHANGED <<users, packages, group, members, late>>

PendingKp ==
    /\ phase = "pendingKp"
    /\ StorePackage
    /\ Tell("pending")
    /\ Return
    /\ UNCHANGED <<users, pending, group, members, late>>

-----------------------------------------------------------------------------
(* approveGroup: handle_approve_group_core *)

\* Signed with the admin's key, for a pending user, whose pending row and key
\* package are read; a failed read of the package counts as none.
Approve(u) ==
    /\ phase = "idle"
    /\ pending[u] # NoKey
    /\ phase' = "approve"
    /\ \/ req' = [user |-> u, key |-> pending[u], kp |-> packages[u]] /\ NoFault
       \/ req' = [user |-> u, key |-> pending[u], kp |-> NoKey] /\ Fault
    /\ UNCHANGED <<tables, told, late>>

\* add_user
ApproveUser ==
    /\ phase = "approve"
    /\ \/ /\ users[req.user] = NoKey
          /\ users' = InsertOrIgnore(users, req.user, req.key)
          /\ phase' = "approveRemove"
          /\ NoFault
          /\ UNCHANGED <<req, told>>
       \/ /\ users[req.user] # NoKey
          /\ users' = InsertOrIgnore(users, req.user, req.key)
          /\ Tell("failed")
          /\ Return
          /\ NoFault
       \/ /\ Fault
          /\ Tell("failed")
          /\ Return
          /\ UNCHANGED users
    /\ UNCHANGED <<pending, packages, group, members, late>>

\* remove_pending_user
ApproveRemove ==
    /\ phase = "approveRemove"
    /\ \/ pending' = [pending EXCEPT ![req.user] = NoKey] /\ NoFault
       \/ Fault /\ UNCHANGED pending
    /\ phase' = "approveMember"
    /\ UNCHANGED <<users, packages, group, members, req, told, late>>

\* add_group_member and the answer
ApproveMember ==
    /\ phase = "approveMember"
    /\ \/ AddMember(req.user) /\ NoFault
       \/ Fault /\ late' = late \cup {req.user} /\ UNCHANGED members
    /\ Tell("success")
    /\ Return
    /\ UNCHANGED <<users, pending, packages, group>>

-----------------------------------------------------------------------------
(* Stopping and starting *)

Crash ==
    /\ phase # "down"
    /\ Fault
    /\ phase' = "down"
    /\ req' = NoReq
    /\ UNCHANGED <<tables, told, late>>

\* The users whom main's backfill tries to make members: get_all_usernames.
\* Faulty: those in the other table.
BackfillPending == {u \in Users : pending[u] # NoKey}
Backfill == Registered

\* Without a group row every insert fails; with it, one may; or the users could
\* not be listed.  No request is served before the backfill is over.
Restart ==
    /\ phase = "down"
    /\ \E failed \in SUBSET Backfill :
          /\ \/ failed = (IF group = NoUser THEN Backfill ELSE {}) /\ NoFault
             \/ group # NoUser /\ Cardinality(failed) = 1 /\ Fault
             \/ failed = Backfill /\ Fault
          /\ members' = members \cup (Backfill \ failed)
          /\ late' = (late \cup failed) \ members'
    /\ phase' = "idle"
    /\ UNCHANGED <<users, pending, packages, group, req, told>>

Next ==
    \/ \E u \in Users, k \in Keys : \E kp \in {k, NoKey} : Register(u, k, kp)
    \/ \E u \in Users : Approve(u)
    \/ AdminUser
    \/ AdminKp
    \/ AdminGroup
    \/ AdminMember
    \/ PendingUser
    \/ PendingKp
    \/ ApproveUser
    \/ ApproveRemove
    \/ ApproveMember
    \/ Crash
    \/ Restart

Spec == Init /\ [][Next]_vars

\* A handler that runs goes on, and a process that stopped is started again.
Fairness == /\ WF_vars(AdminUser \/ AdminKp \/ AdminGroup \/ AdminMember)
            /\ WF_vars(PendingUser \/ PendingKp)
            /\ WF_vars(ApproveUser \/ ApproveRemove \/ ApproveMember)
            /\ WF_vars(Restart)

FairSpec == Spec /\ Fairness

-----------------------------------------------------------------------------
(* Properties *)

\* The type invariant.
TypeOK ==
    /\ users \in [Users -> Keys \cup {NoKey}]
    /\ pending \in [Users -> Keys \cup {NoKey}]
    /\ packages \in [Users -> Keys \cup {NoKey}]
    /\ group \in Users \cup {NoUser}
    /\ members \subseteq Users
    /\ phase \in Phases
    /\ req \in Request \cup {NoReq}
    /\ told \in Answer \cup {NoReq}
    /\ late \subseteq Users
    /\ faults \in 0 .. MaxFaults

\* The key that authenticates a user never changes: neither a second
\* registration with another key nor its approval replaces it.
KeyStable ==
    [][\A u \in Users : users[u] # NoKey => users'[u] = users[u]]_vars

\* The key package the admin gets for a user was made with the very key that
\* was approved, or there is none, whatever registrations came and failed.
ApprovedKeyPackage ==
    Told("success") => /\ told.kp \in {told.key, NoKey}
                       /\ users[told.user] = told.key

\* Between requests every registered user is a member, unless the insert of
\* the membership failed or the group had no row yet.
MemberOrLate ==
    phase = "idle" => \A u \in Registered : u \in members \/ u \in late

\* A registered user becomes a member in the end, through any number of stops,
\* once the group has its row; unless that insert was already tried in vain.
MemberInTheEnd ==
    \A u \in Users :
       (u \in Registered /\ group # NoUser) ~> (u \in members \/ u \in late)

\* Nobody is a member of a group without a row, nor without a registered key.
MembersSound == members \subseteq Registered /\ (members # {} => group # NoUser)

-----------------------------------------------------------------------------
(* The inductive invariant *)

\* What the running handler relies on: the rows it wrote, and a key package
\* made with the key of the request.
HandlerSound ==
    /\ phase \in {"idle", "down"} <=> req = NoReq
    /\ req # NoReq => req \in Request
    /\ phase \notin {"idle", "down"} /\ ~(phase = "approve" /\ users[req.user] # NoKey)
          => req.kp \in {req.key, NoKey}
    /\ phase \in {"adminKp", "adminGroup", "adminMember"} =>
          users[req.user] # NoKey
    /\ phase = "pendingKp" => pending[req.user] = req.key
    /\ phase \in {"approveRemove", "approveMember"} => users[req.user] = req.key

\* Until a user is registered, the package is of the pending key; from then on
\* it may be of a later request, which nobody can get approved any more.
PackagesSound ==
    /\ \A u \in Users : users[u] = NoKey => packages[u] \in {pending[u], NoKey}
    /\ phase = "approve" /\ users[req.user] = NoKey => pending[req.user] = req.key

\* Only a stop or the running handler comes between registration and membership.
MemberOrComing ==
    \A u \in Registered :
       \/ u \in members \cup late
       \/ phase = "down"
       \/ /\ phase \in {"adminKp", "adminGroup", "adminMember",
                        "approveRemove", "approveMember"}
          /\ req.user = u

\* The inductive invariant.
Inv == /\ TypeOK
       /\ MembersSound
       /\ HandlerSound
       /\ PackagesSound
       /\ MemberOrComing
       /\ ApprovedKeyPackage

-----------------------------------------------------------------------------
(* What documents and comments say *)

\* Protocol.md: success is "User approved and moved to active members".
SuccessMeansMember ==
    phase = "idle" /\ Told("success") => told.user \in members
=============================================================================
