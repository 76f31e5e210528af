------------------------ MODULE GroupMembersProofs ------------------------
(***************************************************************************)
(* Proofs about GroupMembers, for any users and keys and any number of     *)
(* failed statements and stops.                                            *)
(***************************************************************************)
EXTENDS GroupMembers, TLAPS

\* The initial state satisfies the inductive invariant.
LEMMA InitInv == Init => Inv
  <1> SUFFICES ASSUME Init PROVE Inv
      OBVIOUS
  <1>1. TypeOK
        BY FaultsAssumption DEF Init, TypeOK, Phases
  <1>2. MembersSound /\ MemberOrComing
        BY DEF Init, MembersSound, MemberOrComing, Registered
  <1>3. HandlerSound /\ PackagesSound
        BY DEF Init, HandlerSound, PackagesSound
  <1>4. ApprovedKeyPackage
        BY DEF Init, ApprovedKeyPackage, Told
  <1> QED BY <1>1, <1>2, <1>3, <1>4 DEF Inv

\* Every step keeps the types.
LEMMA TypeStep == Inv /\ [Next]_vars => TypeOK'
  <1> SUFFICES ASSUME Inv, [Next]_vars PROVE TypeOK'
      OBVIOUS
  <1> USE FaultsAssumption, NoKeyAssumption
  <1>0. TypeOK /\ HandlerSound BY DEF Inv
  <1>1. ASSUME NEW u \in Users, NEW k \in Keys, NEW kp \in {k, NoKey},
               Register(u, k, kp)
        PROVE  TypeOK'
        BY <1>0, <1>1 DEF TypeOK, Register, tables, Request, Phases
  <1>2. ASSUME NEW u \in Users, Approve(u) PROVE TypeOK'
    <2>1. faults' \in 0 .. MaxFaults
          BY <1>0, <1>2 DEF TypeOK, Approve, Fault, NoFault
    <2>2. req' \in Request
          BY <1>0, <1>2 DEF TypeOK, Approve, Request
    <2> QED BY <1>0, <1>2, <2>1, <2>2 DEF TypeOK, Approve, tables, Phases
  <1>3. CASE AdminUser
    <2>1. faults' \in 0 .. MaxFaults
          BY <1>0, <1>3 DEF TypeOK, AdminUser, Fault, NoFault
    <2>2. req \in Request
          BY <1>0, <1>3 DEF HandlerSound, AdminUser
    <2>3. users' \in [Users -> Keys \cup {NoKey}]
          BY <1>0, <1>3, <2>2 DEF TypeOK, AdminUser, InsertOrIgnore, Request
    <2>4. told' \in Answer \cup {NoReq}
          BY <1>0, <1>3, <2>2 DEF TypeOK, AdminUser, Tell, Answer, Answers, Request
    <2>5. req' \in Request \cup {NoReq} /\ phase' \in Phases
          BY <1>0, <1>3, <2>2 DEF AdminUser, Return, Phases
    <2> QED BY <1>0, <1>3, <2>1, <2>3, <2>4, <2>5 DEF TypeOK, AdminUser
  <1>4. CASE AdminKp
    <2>1. faults' \in 0 .. MaxFaults
          BY <1>0, <1>4 DEF TypeOK, AdminKp, StorePackage, Fault, NoFault
    <2>2. req \in Request
          BY <1>0, <1>4 DEF HandlerSound, AdminKp
    <2>3. packages' \in [Users -> Keys \cup {NoKey}]
          BY <1>0, <1>4, <2>2 DEF TypeOK, AdminKp, StorePackage, Request
    <2> QED BY <1>0, <1>4, <2>1, <2>3 DEF TypeOK, AdminKp, Phases
  <1>5. CASE AdminGroup
    <2>1. faults' \in 0 .. MaxFaults
          BY <1>0, <1>5 DEF TypeOK, AdminGroup, Fault, NoFault
    <2>2. req \in Request
          BY <1>0, <1>5 DEF HandlerSound, AdminGroup
    <2>3. group' \in Users \cup {NoUser}
          BY <1>0, <1>5, <2>2 DEF TypeOK, AdminGroup, Request
    <2> QED BY <1>0, <1>5, <2>1, <2>3 DEF TypeOK, AdminGroup, Phases
  <1>6. CASE AdminMember
    <2>1. faults' \in 0 .. MaxFaults
          BY <1>0, <1>6 DEF TypeOK, AdminMember, Fault, NoFault
    <2>2. req \in Request
          BY <1>0, <1>6 DEF HandlerSound, AdminMember
    <2>3. members' \subseteq Users /\ late' \subseteq Users
          BY <1>0, <1>6, <2>2 DEF TypeOK, AdminMember, AddMember, Request
    <2>4. told' \in Answer \cup {NoReq}
          BY <1>0, <1>6, <2>2 DEF TypeOK, AdminMember, Tell, Answer, Answers, Request
    <2> QED BY <1>0, <1>6, <2>1, <2>3, <2>4 DEF TypeOK, AdminMember, Return, Phases
  <1>7. CASE PendingUser
    <2>1. faults' \in 0 .. MaxFaults
          BY <1>0, <1>7 DEF TypeOK, PendingUser, Fault, NoFault
    <2>2. req \in Request
          BY <1>0, <1>7 DEF HandlerSound, PendingUser
    <2>3. pending' \in [Users -> Keys \cup {NoKey}]
          BY <1>0, <1>7, <2>2 DEF TypeOK, PendingUser, InsertOrIgnore, Request
    <2>4. told' \in Answer \cup {NoReq}
          BY <1>0, <1>7, <2>2 DEF TypeOK, PendingUser, Tell, Answer, Answers, Request
    <2>5. req' \in Request \cup {NoReq} /\ phase' \in Phases
          BY <1>0, <1>7, <2>2 DEF PendingUser, Return, Phases
    <2> QED BY <1>0, <1>7, <2>1, <2>3, <2>4, <2>5 DEF TypeOK, PendingUser
  <1>8. CASE PendingKp
    <2>1. faults' \in 0 .. MaxFaults
          BY <1>0, <1>8 DEF TypeOK, PendingKp, StorePackage, Fault, NoFault
    <2>2. req \in Request
          BY <1>0, <1>8 DEF HandlerSound, PendingKp
    <2>3. packages' \in [Users -> Keys \cup {NoKey}]
          BY <1>0, <1>8, <2>2 DEF TypeOK, PendingKp, StorePackage, Request
    <2>4. told' \in Answer \cup {NoReq}
          BY <1>0, <1>8, <2>2 DEF TypeOK, PendingKp, Tell, Answer, Answers, Request
    <2> QED BY <1>0, <1>8, <2>1, <2>3, <2>4 DEF TypeOK, PendingKp, Return, Phases
  <1>9. CASE ApproveUser
    <2>1. faults' \in 0 .. MaxFaults
          BY <1>0, <1>9 DEF TypeOK, ApproveUser, Fault, NoFault
    <2>2. req \in Request
          BY <1>0, <1>9 DEF HandlerSound, ApproveUser
    <2>3. users' \in [Users -> Keys \cup {NoKey}]
          BY <1>0, <1>9, <2>2 DEF TypeOK, ApproveUser, InsertOrIgnore, Request
    <2>4. told' \in Answer \cup {NoReq}
          BY <1>0, <1>9, <2>2 DEF TypeOK, ApproveUser, Tell, Answer, Answers, Request
    <2>5. req' \in Request \cup {NoReq} /\ phase' \in Phases
          BY <1>0, <1>9, <2>2 DEF ApproveUser, Return, Phases
    <2> QED BY <1>0, <1>9, <2>1, <2>3, <2>4, <2>5 DEF TypeOK, ApproveUser
  <1>10. CASE ApproveRemove
    <2>1. faults' \in 0 .. MaxFaults
          BY <1>0, <1>10 DEF TypeOK, ApproveRemove, Fault, NoFault
    <2>2. pending' \in [Users -> Keys \cup {NoKey}]
          BY <1>0, <1>10 DEF TypeOK, ApproveRemove
    <2> QED BY <1>0, <1>10, <2>1, <2>2 DEF TypeOK, ApproveRemove, Phases
  <1>11. CASE ApproveMember
    <2>1. faults' \in 0 .. MaxFaults
          BY <1>0, <1>11 DEF TypeOK, ApproveMember, Fault, NoFault
    <2>2. req \in Request
          BY <1>0, <1>11 DEF HandlerSound, ApproveMember
    <2>3. members' \subseteq Users /\ late' \subseteq Users
          BY <1>0, <1>11, <2>2 DEF TypeOK, ApproveMember, AddMember, Request
    <2>4. told' \in Answer \cup {NoReq}
          BY <1>0, <1>11, <2>2 DEF TypeOK, ApproveMember, Tell, Answer, Answers, Request
    <2> QED BY <1>0, <1>11, <2>1, <2>3, <2>4 DEF TypeOK, ApproveMember, Return, Phases
  <1>12. CASE Crash
    <2>1. faults' \in 0 .. MaxFaults
          BY <1>0, <1>12 DEF TypeOK, Crash, Fault
    <2> QED BY <1>0, <1>12, <2>1 DEF TypeOK, Crash, tables, Phases
  <1>13. CASE Restart
    <2>1. faults' \in 0 .. MaxFaults
          BY <1>0, <1>13 DEF TypeOK, Restart, Fault, NoFault
    <2>2. members' \subseteq Users /\ late' \subseteq Users
          BY <1>0, <1>13 DEF TypeOK, Restart, Backfill, Registered
    <2> QED BY <1>0, <1>13, <2>1, <2>2 DEF TypeOK, Restart, Phases
  <1>14. CASE UNCHANGED vars
         BY <1>0, <1>14 DEF TypeOK, vars
  <1> QED BY <1>1, <1>2, <1>3, <1>4, <1>5, <1>6, <1>7, <1>8, <1>9, <1>10,
             <1>11, <1>12, <1>13, <1>14 DEF Next

\* Membership needs a row of the group and a registered key.
LEMMA MembersStep == Inv /\ [Next]_vars => MembersSound'
  <1> SUFFICES ASSUME Inv, [Next]_vars PROVE MembersSound'
      OBVIOUS
  <1> USE NoKeyAssumption
  <1>0. TypeOK /\ HandlerSound /\ MembersSound BY DEF Inv
  <1>1. CASE AdminUser
    <2>1. req \in Request /\ req.key \in Keys
          BY <1>0, <1>1 DEF HandlerSound, AdminUser, Request
    <2>2. \A u \in Users : users[u] # NoKey => users'[u] # NoKey
          BY <1>0, <1>1, <2>1 DEF TypeOK, AdminUser, InsertOrIgnore
    <2> QED BY <1>0, <1>1, <2>2 DEF MembersSound, Registered, AdminUser, TypeOK
  <1>2. CASE ApproveUser
    <2>1. req \in Request /\ req.key \in Keys
          BY <1>0, <1>2 DEF HandlerSound, ApproveUser, Request
    <2>2. \A u \in Users : users[u] # NoKey => users'[u] # NoKey
          BY <1>0, <1>2, <2>1 DEF TypeOK, ApproveUser, InsertOrIgnore
    <2> QED BY <1>0, <1>2, <2>2 DEF MembersSound, Registered, ApproveUser, TypeOK
  <1>3. CASE AdminGroup
    <2>1. req \in Request /\ req.user \in Users
          BY <1>0, <1>3 DEF HandlerSound, AdminGroup, Request
    <2> QED BY <1>0, <1>3, <2>1, NoUserAssumption
            DEF MembersSound, Registered, AdminGroup
  <1>4. CASE AdminMember
    <2>1. req \in Request /\ req.user \in Users
          BY <1>0, <1>4 DEF HandlerSound, AdminMember, Request
    <2> QED BY <1>0, <1>4, <2>1 DEF MembersSound, Registered, AdminMember, AddMember
  <1>5. CASE ApproveMember
    <2>1. req \in Request /\ req.user \in Users
          BY <1>0, <1>5 DEF HandlerSound, ApproveMember, Request
    <2> QED BY <1>0, <1>5, <2>1 DEF MembersSound, Registered, ApproveMember, AddMember
  <1>6. CASE Restart
        BY <1>0, <1>6 DEF MembersSound, Registered, Restart, Backfill
  <1>7. CASE \/ \E u \in Users, k \in Keys : \E kp \in {k, NoKey} : Register(u, k, kp)
             \/ \E u \in Users : Approve(u)
             \/ AdminKp
             \/ PendingUser
             \/ PendingKp
             \/ ApproveRemove
             \/ Crash
             \/ UNCHANGED vars
        BY <1>0, <1>7 DEF MembersSound, Registered, Register, Approve, AdminKp,
           PendingUser, PendingKp, ApproveRemove, Crash, tables, vars
  <1> QED BY <1>1, <1>2, <1>3, <1>4, <1>5, <1>6, <1>7 DEF Next

\* The handler relies on rows that nobody takes away while it runs.
LEMMA HandlerStep == Inv /\ [Next]_vars => HandlerSound'
  <1> SUFFICES ASSUME Inv, [Next]_vars PROVE HandlerSound'
      OBVIOUS
  <1> USE NoKeyAssumption, NoReqAssumption
  <1>0. TypeOK /\ HandlerSound /\ PackagesSound BY DEF Inv
  <1>1. ASSUME NEW u \in Users, NEW k \in Keys, NEW kp \in {k, NoKey},
               Register(u, k, kp)
        PROVE  HandlerSound'
        BY <1>0, <1>1 DEF HandlerSound, Register, tables, Request
  <1>2. ASSUME NEW u \in Users, Approve(u) PROVE HandlerSound'
    <2>1. req' \in Request /\ req'.user = u /\ req'.key = pending[u]
          /\ req'.kp \in {packages[u], NoKey}
          BY <1>0, <1>2 DEF TypeOK, Approve, Request
    <2>2. users[u] = NoKey => packages[u] \in {pending[u], NoKey}
          BY <1>0 DEF PackagesSound
    <2> QED BY <1>0, <1>2, <2>1, <2>2 DEF HandlerSound, Approve, tables
  <1>3. CASE AdminUser
    <2>1. req \in Request /\ req.user \in Users /\ req.key \in Keys
          /\ req.kp \in {req.key, NoKey}
          BY <1>0, <1>3 DEF HandlerSound, AdminUser, Request
    <2>2. phase' = "adminKp" => users'[req.user] # NoKey
          BY <1>0, <1>3, <2>1 DEF TypeOK, AdminUser, InsertOrIgnore, Return
    <2> QED BY <1>0, <1>3, <2>1, <2>2 DEF HandlerSound, AdminUser, Return
  <1>4. CASE PendingUser
    <2>1. req \in Request /\ req.user \in Users /\ req.key \in Keys
          /\ req.kp \in {req.key, NoKey}
          BY <1>0, <1>4 DEF HandlerSound, PendingUser, Request
    <2>2. phase' = "pendingKp" => pending'[req.user] = req.key
          BY <1>0, <1>4, <2>1 DEF TypeOK, PendingUser, InsertOrIgnore, Return
    <2> QED BY <1>0, <1>4, <2>1, <2>2 DEF HandlerSound, PendingUser, Return
  <1>5. CASE ApproveUser
    <2>1. req \in Request /\ req.user \in Users /\ req.key \in Keys
          BY <1>0, <1>5 DEF HandlerSound, ApproveUser, Request
    <2>2. phase' = "approveRemove" =>
             users'[req.user] = req.key /\ req.kp \in {req.key, NoKey}
          BY <1>0, <1>5, <2>1 DEF TypeOK, HandlerSound, ApproveUser,
             InsertOrIgnore, Return
    <2> QED BY <1>0, <1>5, <2>1, <2>2 DEF HandlerSound, ApproveUser, Return
  <1>6. CASE AdminKp \/ AdminGroup \/ AdminMember \/ PendingKp
             \/ ApproveRemove \/ ApproveMember
        BY <1>0, <1>6 DEF HandlerSound, AdminKp, AdminGroup, AdminMember,
           PendingKp, ApproveRemove, ApproveMember, Return
  <1>7. CASE Crash \/ Restart
        BY <1>0, <1>7 DEF HandlerSound, Crash, Restart, tables
  <1>8. CASE UNCHANGED vars
        BY <1>0, <1>8 DEF HandlerSound, vars
  <1> QED BY <1>1, <1>2, <1>3, <1>4, <1>5, <1>6, <1>7, <1>8 DEF Next

\* A package is replaced only with the pending row, or for a registered user.
LEMMA PackagesStep == Inv /\ [Next]_vars => PackagesSound'
  <1> SUFFICES ASSUME Inv, [Next]_vars PROVE PackagesSound'
      OBVIOUS
  <1> USE NoKeyAssumption
  <1>0. TypeOK /\ HandlerSound /\ PackagesSound BY DEF Inv
  <1>1. ASSUME NEW u \in Users, Approve(u) PROVE PackagesSound'
    <2>1. req'.user = u /\ req'.key = pending[u]
          BY <1>1 DEF Approve
    <2> QED BY <1>0, <1>1, <2>1 DEF PackagesSound, Approve, tables
  <1>2. CASE AdminUser
    <2>1. req \in Request /\ req.user \in Users /\ req.key \in Keys
          BY <1>0, <1>2 DEF HandlerSound, AdminUser, Request
    <2>2. \A u \in Users : users[u] # NoKey => users'[u] # NoKey
          BY <1>0, <1>2, <2>1 DEF TypeOK, AdminUser, InsertOrIgnore
    <2>3. phase' # "approve"
          BY <1>2 DEF AdminUser, Return
    <2> QED BY <1>0, <1>2, <2>2, <2>3 DEF PackagesSound, AdminUser
  <1>3. CASE AdminKp
    <2>1. req \in Request /\ req.user \in Users /\ users[req.user] # NoKey
          BY <1>0, <1>3 DEF HandlerSound, AdminKp, Request
    <2>2. \A u \in Users : u # req.user => packages'[u] = packages[u]
          BY <1>0, <1>3, <2>1 DEF TypeOK, AdminKp, StorePackage
    <2> QED BY <1>0, <1>3, <2>1, <2>2 DEF PackagesSound, AdminKp
  <1>4. CASE PendingUser
    <2>1. req \in Request /\ req.user \in Users /\ req.key \in Keys
          BY <1>0, <1>4 DEF HandlerSound, PendingUser, Request
    <2>2. \A u \in Users : pending[u] # NoKey => pending'[u] = pending[u]
          BY <1>0, <1>4, <2>1 DEF TypeOK, PendingUser, InsertOrIgnore
    <2>3. phase' # "approve"
          BY <1>4 DEF PendingUser, Return
    <2> QED BY <1>0, <1>4, <2>2, <2>3 DEF PackagesSound, PendingUser
  <1>5. CASE PendingKp
    <2>1. req \in Request /\ req.user \in Users /\ req.kp \in {req.key, NoKey}
          /\ pending[req.user] = req.key
          BY <1>0, <1>5 DEF HandlerSound, PendingKp, Request
    <2>2. \A u \in Users : \/ packages'[u] = packages[u]
                           \/ u = req.user /\ packages'[u] = req.kp
          BY <1>0, <1>5, <2>1 DEF TypeOK, PendingKp, StorePackage
    <2> QED BY <1>0, <1>5, <2>1, <2>2 DEF PackagesSound, PendingKp, Return
  <1>6. CASE ApproveUser
    <2>1. req \in Request /\ req.user \in Users /\ req.key \in Keys
          BY <1>0, <1>6 DEF HandlerSound, ApproveUser, Request
    <2>2. \A u \in Users : users[u] # NoKey => users'[u] # NoKey
          BY <1>0, <1>6, <2>1 DEF TypeOK, ApproveUser, InsertOrIgnore
    <2>3. phase' # "approve"
          BY <1>6 DEF ApproveUser, Return
    <2> QED BY <1>0, <1>6, <2>2, <2>3 DEF PackagesSound, ApproveUser
  <1>7. CASE ApproveRemove
    <2>1. req \in Request /\ req.user \in Users /\ users[req.user] # NoKey
          BY <1>0, <1>7 DEF HandlerSound, ApproveRemove, Request
    <2>2. \A u \in Users : u # req.user => pending'[u] = pending[u]
          BY <1>0, <1>7, <2>1 DEF TypeOK, ApproveRemove
    <2> QED BY <1>0, <1>7, <2>1, <2>2 DEF PackagesSound, ApproveRemove
  <1>8. CASE \/ \E u \in Users, k \in Keys : \E kp \in {k, NoKey} : Register(u, k, kp)
             \/ AdminGroup
             \/ AdminMember
             \/ ApproveMember
             \/ Crash
             \/ Restart
             \/ UNCHANGED vars
        BY <1>0, <1>8 DEF PackagesSound, Register, AdminGroup, AdminMember,
           ApproveMember, Crash, Restart, Return, tables, vars
  <1> QED BY <1>1, <1>2, <1>3, <1>4, <1>5, <1>6, <1>7, <1>8 DEF Next

\* A registered user is a member, missed the insert, or is about to be tried.
LEMMA ComingStep == Inv /\ [Next]_vars => MemberOrComing'
  <1> SUFFICES ASSUME Inv, [Next]_vars, NEW u \in Users, users'[u] # NoKey
               PROVE  \/ u \in members' \cup late'
                      \/ phase' = "down"
                      \/ /\ phase' \in {"adminKp", "adminGroup", "adminMember",
                                        "approveRemove", "approveMember"}
                         /\ req'.user = u
      BY DEF MemberOrComing, Registered
  <1>0. TypeOK /\ HandlerSound BY DEF Inv
  <1>a. users[u] # NoKey =>
           \/ u \in members \cup late
           \/ phase = "down"
           \/ /\ phase \in {"adminKp", "adminGroup", "adminMember",
                            "approveRemove", "approveMember"}
              /\ req.user = u
        BY DEF Inv, MemberOrComing, Registered
  <1>1. CASE AdminUser
    <2>1. req \in Request /\ req.user \in Users
          BY <1>0, <1>1 DEF HandlerSound, AdminUser, Request
    <2>2. u # req.user => users'[u] = users[u]
          BY <1>0, <1>1, <2>1 DEF TypeOK, AdminUser, InsertOrIgnore
    <2> QED BY <1>1, <1>a, <2>2 DEF AdminUser, Return
  <1>2. CASE ApproveUser
    <2>1. req \in Request /\ req.user \in Users
          BY <1>0, <1>2 DEF HandlerSound, ApproveUser, Request
    <2>2. u # req.user => users'[u] = users[u]
          BY <1>0, <1>2, <2>1 DEF TypeOK, ApproveUser, InsertOrIgnore
    <2> QED BY <1>2, <1>a, <2>2 DEF ApproveUser, Return
  <1>3. CASE AdminMember \/ ApproveMember
        BY <1>3, <1>a DEF AdminMember, ApproveMember, AddMember, Return
  <1>4. CASE Restart
        BY <1>4 DEF Restart, Backfill, Registered
  <1>5. CASE \/ \E v \in Users, k \in Keys : \E kp \in {k, NoKey} : Register(v, k, kp)
             \/ \E v \in Users : Approve(v)
             \/ AdminKp
             \/ AdminGroup
             \/ PendingUser
             \/ PendingKp
             \/ ApproveRemove
             \/ Crash
             \/ UNCHANGED vars
        BY <1>5, <1>a DEF Register, Approve, AdminKp, AdminGroup, PendingUser,
           PendingKp, ApproveRemove, Crash, Return, tables, vars
  <1> QED BY <1>1, <1>2, <1>3, <1>4, <1>5 DEF Next

\* A registered key stays, and so what an approval told about it.
LEMMA KeyStep == Inv /\ [Next]_vars =>
                    \A u \in Users : users[u] # NoKey => users'[u] = users[u]
  <1> SUFFICES ASSUME Inv, [Next]_vars, NEW u \in Users, users[u] # NoKey
               PROVE  users'[u] = users[u]
      OBVIOUS
  <1>0. TypeOK /\ HandlerSound BY DEF Inv
  <1>1. CASE AdminUser
    <2>1. req \in Request /\ req.user \in Users
          BY <1>0, <1>1 DEF HandlerSound, AdminUser, Request
    <2> QED BY <1>0, <1>1, <2>1 DEF TypeOK, AdminUser, InsertOrIgnore
  <1>2. CASE ApproveUser
    <2>1. req \in Request /\ req.user \in Users
          BY <1>0, <1>2 DEF HandlerSound, ApproveUser, Request
    <2> QED BY <1>0, <1>2, <2>1 DEF TypeOK, ApproveUser, InsertOrIgnore
  <1>3. CASE UNCHANGED users
        BY <1>3
  <1> QED BY <1>1, <1>2, <1>3 DEF Next, vars, tables, Register, Approve, AdminKp,
             AdminGroup, AdminMember, PendingUser, PendingKp, ApproveRemove,
             ApproveMember, Crash, Restart

LEMMA ApprovedStep == Inv /\ [Next]_vars => ApprovedKeyPackage'
  <1> SUFFICES ASSUME Inv, [Next]_vars PROVE ApprovedKeyPackage'
      OBVIOUS
  <1> USE NoKeyAssumption
  <1>0. TypeOK /\ HandlerSound /\ ApprovedKeyPackage BY DEF Inv
  <1>1. CASE ApproveMember
    <2>1. /\ req.kp \in {req.key, NoKey}
          /\ users[req.user] = req.key
          BY <1>0, <1>1 DEF HandlerSound, ApproveMember
    <2> QED BY <1>1, <2>1 DEF ApproveMember, ApprovedKeyPackage, Tell, Told
  <1>2. ASSUME UNCHANGED told
        PROVE  ApprovedKeyPackage'
    <2>1. CASE Told("success")
      <3>1. told \in Answer
            BY <1>0, <2>1 DEF TypeOK, Told
      <3>2. told.user \in Users /\ told.key \in Keys
            BY <3>1 DEF Answer
      <3>3. users[told.user] = told.key
            BY <1>0, <2>1 DEF ApprovedKeyPackage
      <3>4. users'[told.user] = told.key
            BY <3>2, <3>3, KeyStep
      <3> QED BY <1>0, <1>2, <2>1, <3>4 DEF ApprovedKeyPackage, Told
    <2>2. CASE ~ Told("success")
          BY <1>2, <2>2 DEF ApprovedKeyPackage, Told
    <2> QED BY <2>1, <2>2
  <1>3. CASE AdminUser \/ AdminMember \/ PendingUser \/ PendingKp \/ ApproveUser
    <2>1. UNCHANGED told \/ told'.what \in {"taken", "failed", "approved", "pending"}
          BY <1>3 DEF AdminUser, AdminMember, PendingUser, PendingKp,
             ApproveUser, Tell
    <2>2. ASSUME told'.what \in {"taken", "failed", "approved", "pending"}
          PROVE  ApprovedKeyPackage'
          BY <2>2 DEF ApprovedKeyPackage, Told
    <2> QED BY <2>1, <2>2, <1>2
  <1> QED BY <1>1, <1>2, <1>3 DEF Next, vars, Register, Approve, AdminKp,
             AdminGroup, ApproveRemove, Crash, Restart

-----------------------------------------------------------------------------
(* Theorems *)

\* The inductive invariant holds in every reachable state.
THEOREM GmInvariance == Spec => []Inv
  <1>1. Init => Inv
        BY InitInv
  <1>2. Inv /\ [Next]_vars => Inv'
        BY TypeStep, MembersStep, HandlerStep, PackagesStep, ComingStep,
           ApprovedStep DEF Inv
  <1> QED BY <1>1, <1>2, PTL DEF Spec

\* The state has its type: what is in flight, the handler's requests and the
\* group server's tables.
THEOREM GmTypeCorrect == Spec => []TypeOK
  <1>1. Inv => TypeOK
        BY DEF Inv
  <1> QED BY <1>1, GmInvariance, PTL

\* The key package handed to the admin with an approval was made with the
\* approved key, whatever registrations, failures and stops came before.
THEOREM GmApprovedKeyPackage == Spec => []ApprovedKeyPackage
  <1>1. Inv => ApprovedKeyPackage
        BY DEF Inv
  <1> QED BY <1>1, GmInvariance, PTL

\* Members are registered, and the group has its row.
THEOREM GmMembersSound == Spec => []MembersSound
  <1>1. Inv => MembersSound
        BY DEF Inv
  <1> QED BY <1>1, GmInvariance, PTL

\* Between requests, a registered user is a member or missed the insert.
THEOREM GmMemberOrLate == Spec => []MemberOrLate
  <1>1. Inv => MemberOrLate
        BY DEF Inv, MemberOrComing, MemberOrLate
  <1> QED BY <1>1, GmInvariance, PTL

\* The key that authenticates a user never changes.
THEOREM GmKeyStable == Spec => KeyStable
  <1>1. Inv /\ [Next]_vars =>
           [\A u \in Users : users[u] # NoKey => users'[u] = users[u]]_vars
        BY KeyStep
  <1> QED BY <1>1, GmInvariance, PTL DEF Spec, KeyStable
=============================================================================
