---------------------------- MODULE GroupDelivery ----------------------------
(***************************************************************************)
(* How a newcomer gets into a group's MLS group, and how the others follow. *)
(* The admin's client adds the newcomer's key package, applies the commit   *)
(* at once, then sends the welcome and the commit to the group server,      *)
(* which keeps a welcome until it is fetched and the last Keep commits.  A  *)
(* member asks for all commits that are kept and applies those it can.      *)
(*                                                                          *)
(* Two paths of the code add a member:                                      *)
(*   "approve"   the command approve_member, which asks the server to       *)
(*               approve the user and waits for the user's key package;     *)
(*   "response"  WelcomeFlowHandler (and MlsConversationManager), on a       *)
(*               keyPackageForGroupResponse of the user.                     *)
(* The MLS group is the library's.  Only the admin commits, so that its     *)
(* state is its epoch; epoch 0 here is a client outside the group.           *)
(*                                                                          *)
(* The answers to approve_member come through the one receiver of the        *)
(* admin's connection.  The command takes it after it has sent, or finds it  *)
(* gone: the receive loop, which has it from the login on, or another         *)
(* command may hold it at any time, and they drop the answers they read.      *)
(***************************************************************************)
EXTENDS Integers, Sequences, FiniteSets

CONSTANTS Admin,     \* the member who created the group
          Joiners,   \* users who are added to the group
          Responders,\* those whose key package comes by the path "response"
          Openers,   \* members whose clients ask for commits, again and again
          Keep,      \* commits kept by cleanup_old_commits (100)
          Page,      \* LIMIT of get_commits_since_id (100)
          ValidIds,  \* which ids is_valid_group_id accepts: "address", "mls"
          NoOne,
          MaxFaults  \* bound: lost and repeated messages, failures, stops, users
                     \* who leave the group or join it again, and approvals that
                     \* are refused

ASSUME AdminAssumption == Admin \notin Joiners /\ NoOne \notin Joiners
ASSUME UsersAssumption == IsFiniteSet(Joiners)
ASSUME PathAssumption  == Responders \subseteq Joiners /\ Openers \subseteq Joiners
ASSUME LimitAssumption == Keep \in Nat \ {0} /\ Page \in Nat \ {0} /\ MaxFaults \in Nat

VARIABLES status,    \* server: "out", "pending" or "member", of each joiner
          welcomes,  \* server: pending_welcomes, by user
          log,       \* server: buffered_commits in the order of their ids
          lastId,    \* server: the last id given
          at,        \* clients: epoch of the stored MLS group
          local,     \* clients: row of group_memberships, "linked" with its id
          tree,      \* admin: whose key packages are in the group, and by which path
          held,      \* admin: an approve_member has the receiver
          asked,     \* admin: whose approve_member has sent, and has not yet
                     \* taken the receiver
          wait,      \* admin: whose approval approve_member waits for
          adding,    \* admin: adds of which not everything is sent
          net,       \* requests and replies under way, or in the receiver
          leftOver,  \* history: the answer to an approval may have had, or have,
                     \* another reader than the command that asked for it
          faults

server    == <<status, welcomes, log, lastId>>
approvals == <<held, asked, wait>>
admin     == <<tree, approvals, adding>>
vars      == <<status, welcomes, log, lastId, at, local, tree, held, asked, wait, adding,
               net, leftOver, faults>>

-----------------------------------------------------------------------------
(* Data *)

Outside  == 0
Users    == Joiners \cup {Admin}
Epochs   == 1 .. (Cardinality(Joiners) + 1)

\* A welcome opens with the key package it was made for.
Welcome   == [kp : Joiners, epoch : Epochs]
NoWelcome == [kp |-> NoOne, epoch |-> Outside]

\* A commit leads to its epoch.  The path "approve" encodes it once more than
\* the reader of syncEpochResponse decodes it.
Commit == [epoch : Epochs, readable : BOOLEAN]
CommitOf(add) == [epoch |-> add.epoch, readable |-> add.path = "response"]

\* process_commit: it fails unless the commit is of the group's epoch.
Applied(epoch, row) ==
    IF row.readable /\ row.epoch = epoch + 1 THEN row.epoch ELSE epoch

\* The rows of a page in turn; one that fails is skipped.
\* Faulty: the first that fails ends the page.
CaughtUpFirstError(epoch, page) ==
    LET after[i \in 0 .. Len(page)] ==
          IF i = 0 THEN epoch
          ELSE IF i > 1 /\ after[i - 1] = after[i - 2] THEN after[i - 1]
          ELSE Applied(after[i - 1], page[i])
    IN  after[Len(page)]
CaughtUp(epoch, page) ==
    LET after[i \in 0 .. Len(page)] ==
          IF i = 0 THEN epoch ELSE Applied(after[i - 1], page[i])
    IN  after[Len(page)]

\* Faulty: one row more is kept than a page holds.
KeptOneMore(rows) == IF Len(rows) <= Keep + 1 THEN rows
                     ELSE SubSeq(rows, Len(rows) - Keep, Len(rows))
Kept(rows) == IF Len(rows) <= Keep THEN rows
              ELSE SubSeq(rows, Len(rows) - Keep + 1, Len(rows))

\* WHERE id > 0 ORDER BY id ASC LIMIT Page
PageOf(rows) == SubSeq(rows, 1, IF Len(rows) < Page THEN Len(rows) ELSE Page)

Fault   == faults < MaxFaults /\ faults' = faults + 1
NoFault == faults' = faults

Send(m) == net' = net \cup {m}

\* A message is handled and gone; or it will arrive once more.
Answer(m, replies) ==
    \/ net' = (net \ {m}) \cup replies /\ NoFault
    \/ net' = net \cup replies /\ Fault

-----------------------------------------------------------------------------
(* Initial state: init_group has created the MLS group and stored its id,   *)
(* and the admin is registered at the server.                               *)

Init == /\ status = [j \in Joiners |-> "out"]
        /\ welcomes = [j \in Joiners |-> NoWelcome]
        /\ log = <<>>
        /\ lastId = 0
        /\ at = [u \in Users |-> IF u = Admin THEN 1 ELSE Outside]
        /\ local = [j \in Joiners |-> "none"]
        /\ tree = [j \in Joiners |-> "no"]
        /\ held = FALSE
        /\ asked = {}
        /\ wait = NoOne
        /\ adding = {}
        /\ net = {}
        /\ leftOver = FALSE
        /\ faults = 0

-----------------------------------------------------------------------------
(* Commands of a joiner's client *)

\* join_group.  The row is replaced, with the id of the MLS group it had; the
\* server answers a registered or pending user with an error.
JoinGroup(j) ==
    /\ j \notin Responders
    /\ local[j] # "member"
    /\ local' = [local EXCEPT ![j] = "member"]
    /\ status' = [status EXCEPT ![j] = IF @ = "out" THEN "pending" ELSE @]
    /\ IF status[j] = "out" THEN NoFault ELSE Fault
    /\ UNCHANGED <<welcomes, log, lastId, at, admin, net, leftOver>>

\* leave_group: the server and the MLS group are not told.
LeaveGroup(j) ==
    /\ local[j] # "none"
    /\ local' = [local EXCEPT ![j] = "none"]
    /\ Fault
    /\ UNCHANGED <<server, at, admin, net, leftOver>>

\* set_mls_group_id is not called by the application.

Outstanding(j, action) == \E m \in net : m.action = action /\ m.user = j

\* fetch_welcome_from_server, until the user is in the group.
\* A request says nothing that changes, so that it is sent and served at once;
\* a user has one reply under way.
AskWelcome(j) == /\ local[j] # "none"
                 /\ at[j] = Outside
                 /\ ~Outstanding(j, "fetchWelcomeResponse")

\* The part of fetch_group_messages that asks for commits: for all that are
\* kept, from id 0 on.
AskSync(j) == j \in Openers /\ local[j] = "linked" /\ ~Outstanding(j, "syncEpochResponse")

-----------------------------------------------------------------------------
(* approve_member *)

\* The approval is sent, whoever has the receiver, and served (GroupMembers has
\* the statements): a pending user becomes a member, and the answer holds the
\* key package.  Or else it is lost, or it is refused, or the user it approves
\* has no key package at the server.
Approve(j) ==
    /\ j \notin asked /\ status[j] # "out"
    /\ asked' = asked \cup {j}
    /\ \/ /\ status[j] = "pending"
          /\ status' = [status EXCEPT ![j] = "member"]
          /\ Send([action |-> "approveGroupResponse", user |-> j])
          /\ NoFault
       \/ /\ status' \in {status, [status EXCEPT ![j] = IF @ = "pending" THEN "member" ELSE @]}
          /\ \/ Send([action |-> "approveGroupRefused", user |-> j])
             \/ UNCHANGED <<status, net>>
          /\ Fault
    /\ leftOver' = (leftOver \/ asked # {} \/ wait # NoOne)
    /\ UNCHANGED <<welcomes, log, lastId, at, local, tree, held, wait, adding>>

\* take_incoming_rx.  "Message receiver not available": the command ends, and
\* nothing of what the server did is undone.
TakeReceiver(j) ==
    /\ j \in asked
    /\ asked' = asked \ {j}
    /\ \/ ~held /\ held' = TRUE /\ wait' = j /\ UNCHANGED leftOver
       \/ leftOver' = TRUE /\ UNCHANGED <<held, wait>>
    /\ UNCHANGED <<server, at, local, tree, adding, net, faults>>

PutBack == held' = FALSE

IsApproval(m) == m.action \in {"approveGroupResponse", "approveGroupRefused"}

\* The receive loop logs the answer, and other commands that wait drop it.
Unheard(m) ==
    /\ IsApproval(m)
    /\ ~held
    /\ Answer(m, {})
    /\ leftOver' = TRUE
    /\ UNCHANGED <<server, at, local, admin>>

\* The 30 seconds are over.
GiveUp ==
    /\ wait # NoOne
    /\ wait' = NoOne
    /\ PutBack
    /\ leftOver' = TRUE
    /\ UNCHANGED <<server, at, local, tree, asked, adding, net, faults>>

\* add_member_to_group: the commit is applied and stored before anything of
\* it is sent.  A user who is in the group cannot be added.
\* Faulty: the admin applies its commit again.
AddTwice(kp, name, path) ==
    /\ tree' = [tree EXCEPT ![kp] = path]
    /\ at' = [at EXCEPT ![Admin] = @ + 2]
    /\ adding' = adding \cup {[kp |-> kp, name |-> name, path |-> path,
                               epoch |-> at[Admin] + 1, next |-> "welcome"]}
AddMember(kp, name, path) ==
    /\ tree' = [tree EXCEPT ![kp] = path]
    /\ at' = [at EXCEPT ![Admin] = @ + 1]
    /\ adding' = adding \cup {[kp |-> kp, name |-> name, path |-> path,
                               epoch |-> at[Admin] + 1, next |-> "welcome"]}

\* wait_for_approval_response: the first answer that arrives is taken for the
\* answer of the user who waits, whose name it does not hold.  The receiver is
\* put back when everything is sent, or when the user cannot be added.
AddApproved(m) ==
    /\ tree[m.user] = "no"
    /\ AddMember(m.user, wait, "approve")
    /\ Answer(m, {})
    /\ UNCHANGED held

CannotAdd(m) ==
    /\ \/ tree[m.user] # "no" /\ Answer(m, {})
       \/ net' = net \ {m} /\ Fault
    /\ PutBack
    /\ UNCHANGED <<at, tree, adding>>

OnApproved(m) ==
    /\ m.action = "approveGroupResponse"
    /\ wait # NoOne
    /\ AddApproved(m) \/ CannotAdd(m)
    /\ wait' = NoOne
    /\ leftOver' = (leftOver \/ m \in net')
    /\ UNCHANGED <<server, local, asked>>

\* An error, or no key package: the command ends.
OnRefused(m) ==
    /\ m.action = "approveGroupRefused"
    /\ wait # NoOne
    /\ wait' = NoOne
    /\ PutBack
    /\ Answer(m, {})
    /\ leftOver' = (leftOver \/ m \in net')
    /\ UNCHANGED <<server, at, local, tree, asked, adding>>

\* keyPackageForGroupResponse at the admin
AddByResponse(j) ==
    /\ j \in Responders
    /\ tree[j] = "no"
    /\ AddMember(j, j, "response")
    /\ UNCHANGED <<server, local, approvals, net, leftOver, faults>>

WelcomeMessage(a) ==
    [action |-> IF a.path = "approve" THEN "storeWelcome" ELSE "mlsWelcome",
     user |-> a.name, welcome |-> [kp |-> a.kp, epoch |-> a.epoch]]

CommitMessage(a) == [action |-> "bufferCommit", user |-> Admin, commit |-> CommitOf(a)]

Ended(a) == IF a.path = "approve" THEN PutBack ELSE UNCHANGED held

\* Each send may fail, and then the rest is not sent.
SendWelcome(a) ==
    /\ a.next = "welcome"
    /\ \/ /\ Send(WelcomeMessage(a))
          /\ adding' = (adding \ {a}) \cup {[a EXCEPT !.next = "commit"]}
          /\ NoFault
          /\ UNCHANGED held
       \/ /\ Fault
          /\ adding' = adding \ {a}
          /\ Ended(a)
          /\ UNCHANGED net
    /\ UNCHANGED <<server, at, local, tree, asked, wait, leftOver>>

SendCommit(a) ==
    /\ a.next = "commit"
    /\ \/ Send(CommitMessage(a)) /\ NoFault
       \/ Fault /\ UNCHANGED net
    /\ adding' = adding \ {a}
    /\ Ended(a)
    /\ UNCHANGED <<server, at, local, tree, asked, wait, leftOver>>

\* The admin's client stops: what it was at is forgotten, the group is stored.
AdminStops ==
    /\ adding # {} \/ asked # {} \/ wait # NoOne
    /\ Fault
    /\ adding' = {}
    /\ asked' = {}
    /\ wait' = NoOne
    /\ PutBack
    /\ leftOver' = (leftOver \/ asked # {} \/ wait # NoOne)
    /\ UNCHANGED <<server, at, local, tree, net>>

-----------------------------------------------------------------------------
(* Handlers of the group server *)

\* INSERT OR REPLACE
\* Faulty: the welcomes of other users are replaced, too.
StoreWelcomeForAll(u, w) ==
    [j \in Joiners |-> IF j = u \/ welcomes[j] # NoWelcome THEN w ELSE NoWelcome]
StoreWelcome(u, w) == [welcomes EXCEPT ![u] = w]

\* handle_store_welcome, of the admin, for any user name.
OnStoreWelcome(m) ==
    /\ m.action = "storeWelcome"
    /\ welcomes' = IF "address" \in ValidIds THEN StoreWelcome(m.user, m.welcome)
                   ELSE welcomes
    /\ Answer(m, {})
    /\ UNCHANGED <<status, log, lastId, at, local, admin, leftOver>>

\* mlsWelcome is no action of the server.
OnUnknown(m) ==
    /\ m.action = "mlsWelcome"
    /\ Answer(m, {})
    /\ UNCHANGED <<server, at, local, admin, leftOver>>

\* The row that has been read, and then deleted, before the reply is sent.
\* Faulty: the row of every user is deleted.
RemoveAll(u) == [j \in Joiners |-> NoWelcome]
Removed(u)   == [welcomes EXCEPT ![u] = NoWelcome]

\* authorize_member: a signed and recent request of a registered user
Authorized(j) == status[j] = "member"

\* handle_fetch_welcome; the deletion may fail.
FetchWelcome(j) ==
    /\ AskWelcome(j)
    /\ Authorized(j)
    /\ welcomes[j] # NoWelcome
    /\ Send([action |-> "fetchWelcomeResponse", user |-> j, welcome |-> welcomes[j]])
    /\ \/ welcomes' = Removed(j) /\ NoFault
       \/ UNCHANGED welcomes /\ Fault
    /\ UNCHANGED <<status, log, lastId, at, local, admin, leftOver>>

BufferCommit(c) ==
    Append(log, [id |-> lastId + 1, epoch |-> c.epoch, readable |-> c.readable])

\* handle_buffer_commit, of the admin: the row is stored and the old ones are
\* deleted, which may fail and is only logged.
OnBufferCommit(m) ==
    /\ m.action = "bufferCommit"
    /\ IF "mls" \in ValidIds
       THEN /\ lastId' = lastId + 1
            /\ \/ log' = Kept(BufferCommit(m.commit)) /\ Answer(m, {})
               \/ log' = BufferCommit(m.commit) /\ net' = net \ {m} /\ Fault
       ELSE UNCHANGED <<log, lastId>> /\ Answer(m, {})
    /\ UNCHANGED <<status, welcomes, at, local, admin, leftOver>>

\* handle_sync_epoch
SyncEpoch(j) ==
    /\ AskSync(j)
    /\ Authorized(j)
    /\ "mls" \in ValidIds
    /\ Send([action |-> "syncEpochResponse", user |-> j, commits |-> PageOf(log)])
    /\ UNCHANGED <<server, at, local, admin, leftOver, faults>>

-----------------------------------------------------------------------------
(* Replies at a joiner's client *)

\* Joining uses the key package up.
\* Faulty: it can be used again.
CanJoinAgain(j, w) == w.kp = j
CanJoin(j, w)      == w.kp = j /\ at[j] = Outside

\* process_welcome, and the id for the row of group_memberships that is there
OnWelcome(m) ==
    /\ m.action = "fetchWelcomeResponse"
    /\ IF CanJoin(m.user, m.welcome)
       THEN /\ at' = [at EXCEPT ![m.user] = m.welcome.epoch]
            /\ local' = [local EXCEPT ![m.user] = IF @ = "none" THEN @ ELSE "linked"]
       ELSE UNCHANGED <<at, local>>
    /\ Answer(m, {})
    /\ UNCHANGED <<server, admin, leftOver>>

\* syncEpochResponse
OnCommits(m) ==
    /\ m.action = "syncEpochResponse"
    /\ at' = [at EXCEPT ![m.user] = IF @ = Outside THEN @ ELSE CaughtUp(@, m.commits)]
    /\ Answer(m, {})
    /\ UNCHANGED <<server, local, admin, leftOver>>

-----------------------------------------------------------------------------

\* The network loses a message, or the server's rate limit refuses it.
Lose(m) ==
    /\ Fault
    /\ net' = net \ {m}
    /\ UNCHANGED <<server, at, local, admin, leftOver>>

Next == \/ \E j \in Joiners : \/ JoinGroup(j)
                              \/ LeaveGroup(j)
                              \/ FetchWelcome(j)
                              \/ SyncEpoch(j)
                              \/ Approve(j)
                              \/ TakeReceiver(j)
                              \/ AddByResponse(j)
        \/ GiveUp
        \/ AdminStops
        \/ \E a \in adding : SendWelcome(a) \/ SendCommit(a)
        \/ \E m \in net : \/ OnApproved(m)
                          \/ OnRefused(m)
                          \/ Unheard(m)
                          \/ OnStoreWelcome(m)
                          \/ OnUnknown(m)
                          \/ OnBufferCommit(m)
                          \/ OnWelcome(m)
                          \/ OnCommits(m)
                          \/ Lose(m)

Spec == Init /\ [][Next]_vars

(***************************************************************************)
(* Fairness: the admin's client goes on sending, what is under way arrives  *)
(* and is handled, and a member opens the group again and again, which is   *)
(* when its client asks for commits.  Users need not join, approve or leave. *)
(***************************************************************************)
FairSpec ==
    /\ Spec
    /\ WF_vars(\E a \in adding : SendWelcome(a) \/ SendCommit(a))
    /\ WF_vars(\E m \in net : OnBufferCommit(m))
    /\ \A j \in Openers :
         /\ WF_vars(SyncEpoch(j))
         /\ WF_vars(\E m \in net : m.user = j /\ OnCommits(m))

-----------------------------------------------------------------------------
(* Properties *)

Actions == {"approveGroupResponse", "approveGroupRefused", "storeWelcome", "mlsWelcome", "bufferCommit",
            "fetchWelcomeResponse", "syncEpochResponse"}

\* The commit of a row.
CommitIn(row) == [epoch |-> row.epoch, readable |-> row.readable]

\* Type invariant.  A user is handled by the server and the client under one
\* name, rows have rising ids, and a client is never in an unknown epoch.
TypeOK ==
    /\ status \in [Joiners -> {"out", "pending", "member"}]
    /\ welcomes \in [Joiners -> Welcome \cup {NoWelcome}]
    /\ lastId \in Nat
    /\ \A i \in DOMAIN log : /\ CommitIn(log[i]) \in Commit
                             /\ log[i].id \in 1 .. lastId
                             /\ i > 1 => log[i - 1].id < log[i].id
    /\ at \in [Users -> Epochs \cup {Outside}]
    /\ local \in [Joiners -> {"none", "member", "linked"}]
    /\ tree \in [Joiners -> {"no", "approve", "response"}]
    /\ held \in BOOLEAN
    /\ asked \subseteq Joiners
    /\ wait \in Joiners \cup {NoOne}
    /\ \A a \in adding : a.kp \in Joiners /\ a.name \in Joiners /\ a.epoch \in Epochs
    /\ \A m \in net : m.action \in Actions /\ m.user \in Users
    /\ leftOver \in BOOLEAN
    /\ faults \in 0 .. MaxFaults

\* The welcomes on the way to user j: at the server, or in a message.
WelcomesFor(j) ==
    ({welcomes[j]} \ {NoWelcome})
      \cup {m.welcome : m \in {n \in net : n.user = j /\
                               n.action \in {"storeWelcome", "fetchWelcomeResponse"}}}

\* A welcome that is stored for a user opens with that user's key package
\* (approve_member, store_welcome_on_server, handle_store_welcome).
WelcomeForTarget == \A j \in Joiners : \A w \in WelcomesFor(j) : w.kp = j

\* It does as long as each approve_member was the only one from its send to its
\* answer, found the receiver there and did not give up the wait, and as long as
\* no answer came twice.  Answers hold no user name: else one is taken for that
\* of another user.
WelcomeForTargetInTime == leftOver \/ WelcomeForTarget

\* A user who was approved is in the MLS group, or what brings the user there is
\* under way or kept.
Unstored(j) ==
    \E a \in adding : a.kp = j /\ a.path = "approve" /\ a.next = "welcome"
NoneLost ==
    \A j \in Joiners :
      /\ status[j] = "member" /\ tree[j] = "no" =>
           \E m \in net : m.action = "approveGroupResponse" /\ m.user = j
      /\ tree[j] = "approve" =>
           Unstored(j) \/ WelcomesFor(j) # {} \/ at[j] # Outside

\* Without a fault, and on the condition of WelcomeForTargetInTime, no user who
\* was approved is lost: fetching a welcome, which deletes it, loses none
\* (handle_fetch_welcome), and nobody takes the welcome of another.
NothingLost == faults = 0 /\ ~leftOver => NoneLost

\* The condition is needed: without a fault, an approved user is lost when
\* approve_member does not find the receiver (GroupApprove.cfg).
ApprovedIsAdded == faults = 0 => NoneLost

\* Unless a clean-up failed, one page holds the last Keep commits the server
\* took: the limits of clean-up and page agree, for a member who asks from 0 on.
NewestInPage ==
    faults = 0 =>
      \A id \in 1 .. lastId :
        id > lastId - Keep => \E i \in DOMAIN PageOf(log) : PageOf(log)[i].id = id

\* No client goes back: pages that overtake each other, welcomes that arrive
\* again, and commits it has seen leave its epoch where it is or move it on.
NeverBack == [][\A u \in Users : at'[u] >= at[u]]_vars

\* Member j is in the MLS group and its client knows it.
Follows(j) == at[j] # Outside /\ local[j] = "linked"

\* The next commit cannot come any more, or cannot be read when it comes.
CutOff(j) ==
    LET Next1(c) == c.readable /\ c.epoch = at[j] + 1
    IN  /\ \A a \in adding : ~Next1(CommitOf(a))
        /\ \A m \in net : m.action = "bufferCommit" => ~Next1(m.commit)
        /\ \A i \in DOMAIN PageOf(log) : ~Next1(PageOf(log)[i])

\* A member who keeps opening the group comes to the admin's epoch, unless the
\* next commit is lost, no longer kept or cannot be read: commits that arrive
\* in another order than they were made, or again, do not stop it.
CatchesUp == \A j \in Openers :
               Follows(j) ~> (at[j] = at[Admin] \/ CutOff(j) \/ ~Follows(j))

=============================================================================
