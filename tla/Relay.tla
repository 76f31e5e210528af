------------------------------- MODULE Relay -------------------------------
(***************************************************************************)
(* The relay of the discovery server: nymstr-server/src/message_utils.rs   *)
(* and the pending_messages table of nymstr-server/src/db_utils.rs.        *)
(*                                                                         *)
(* A message for a user is either handed to the mixnet at once, when the   *)
(* server holds reply blocks (SURBs) for the session the user last spoke   *)
(* from, or it is stored as a row that the user's next ping drains.  The   *)
(* server handles one message at a time, but a handler that awaits between *)
(* two steps can be cut between them: the process may be stopped there,    *)
(* and a step that fails is logged and the handler goes on.                *)
(*                                                                         *)
(* A session is what the code calls a sender tag.  Owner[t] is the user    *)
(* whose private key the client behind t holds, so a signature for u is    *)
(* verifiable from t exactly when Owner[t] = u.                            *)
(***************************************************************************)
EXTENDS Naturals, FiniteSets

CONSTANTS Users,           \* user names (each name has one key holder)
          Tags,            \* client sessions
          Owner,           \* Owner[t]: whose key the client behind t holds
          Ids,             \* messages: the UUID a stored row gets
          CountsSurbs,     \* TRUE with a mixnet client, FALSE in stdio mode
          MaxSurbs,        \* bound: SURBs kept per session, saturating
          PerRequest,      \* SURBs a request brings (10 in the client)
          PerPing,         \* SURBs a ping brings (200 in the client)
          TTL,             \* life of a pending row, in clock units (7 days)
          MaxTime,         \* bound: the clock stops here
          MaxFaults,       \* bound: crashes, failed sends, failed deletes
          NoTag, NoUser, NoMsg, NoId

ASSUME OwnerAssumption  == Owner \in [Tags -> Users]
ASSUME NoTagAssumption  == NoTag \notin Tags
ASSUME NoUserAssumption == NoUser \notin Users
ASSUME NoMsgAssumption  == NoMsg \notin [to : Users,
                                         kind : {"sealed", "send", "control",
                                                 "notice", "chat"}]
ASSUME NoIdAssumption   == NoId \notin Ids
ASSUME BoundsAssumption == /\ CountsSurbs \in BOOLEAN
                           /\ MaxSurbs \in Nat
                           /\ PerRequest \in Nat
                           /\ PerPing \in Nat
                           /\ TTL \in Nat
                           /\ MaxTime \in Nat
                           /\ MaxFaults \in Nat

VARIABLES userTag,    \* users table: senderTag of each name, NoTag if absent
          pending,    \* pending_messages table
          surbs,      \* reply blocks the mixnet client holds per session
          phase,      \* where the running handler is
          peer,       \* session the running handler answers to
          user,       \* user name the running handler serves
          job,        \* message whose sendResponse is still to be sent
          batch,      \* rows a ping selected and has not yet sent
          delivered,  \* ids a ping has sent and will delete (delivered_ids)
          now,        \* the clock
          (* history: no guard of a handler reads it, except that an id is
             used once and that the type of a row's message is looked up *)
          msg,        \* what each id was: its recipient and kind
          sent,       \* envelopes handed to the mixnet
          emits,      \* how often each id was handed to the mixnet
          failed,     \* ids for which a send returned an error
          accepted,   \* ids whose sender was answered "sent"
          listed,     \* ids some fetchPending answer listed
          acked,      \* ids whose row an acknowledgement deleted
          faults

db      == <<userTag, pending>>
handler == <<phase, peer, user, job, batch, delivered>>
history == <<msg, sent, emits, failed, accepted, listed, acked>>
vars    == <<userTag, pending, surbs, phase, peer, user, job, batch,
             delivered, now, msg, sent, emits, failed, accepted, listed,
             acked, faults>>

-----------------------------------------------------------------------------
(* Data *)

Kinds    == {"sealed", "send", "control", "notice", "chat"}
Message  == [to : Users, kind : Kinds]
Row      == [id : Ids, to : Users, at : 0 .. MaxTime]
Types    == {"sealed", "message", "chat"}
Envelope == [id : Ids, tag : Tags, type : Types, via : {"live", "drain"}]

RowIds == {r.id : r \in pending}

Registered(u) == userTag[u] # NoTag

\* Faulty: the signature is not checked.
AuthenticUnsigned(t, u) == Registered(u)

\* verify_signature against the key stored under the name u
Authentic(t, u) == Registered(u) /\ Owner[t] = u

\* has_surbs_for_tag: without SURB storage delivery is assumed to work
HasSurbs(s, t) == CountsSurbs => s[t] > 0

\* get_user_sender_tag found a tag, and it has SURBs
Reachable(s, u) == Registered(u) /\ HasSurbs(s, userTag[u])

Unexpired(r) == r.at + TTL > now

\* Faulty: one row at most; only rows that have expired.
PendingOfOne(u) ==
    LET mine == {r \in pending : r.to = u /\ Unexpired(r)}
    IN  {r \in mine : r = CHOOSE q \in mine : \A p \in mine : q.at <= p.at}
PendingOfExpired(u) == {r \in pending : r.to = u /\ ~Unexpired(r)}

\* get_pending_messages
PendingOf(u) == {r \in pending : r.to = u /\ Unexpired(r)}

\* Faulty: not scoped to the recipient.
WithoutAny(u, ids) == {r \in pending : r.id \notin ids}

\* delete_pending_messages_for_recipient
Without(u, ids) == {r \in pending : ~(r.to = u /\ r.id \in ids)}

\* queue_pending_message: DEFAULT (unixepoch())
NewRow(i, u) == [id |-> i, to |-> u, at |-> now]

\* A live relay keeps the type of the message it relays; the pending row has
\* no column for it.
LiveType(kind) == CASE kind = "sealed" -> "sealed"
                    [] kind = "chat"   -> "chat"
                    [] OTHER           -> "message"

\* Envelope type of a drained row: handle_ping calls send_unified_message.
DrainType(kind) == "message"

\* One send_reply uses a reply block of its destination, if there is one; a
\* message from a session brings new ones.
Used(s, t)       == [s EXCEPT ![t] = IF @ > 0 THEN @ - 1 ELSE 0]
Brought(s, t, n) == [s EXCEPT ![t] = IF @ + n < MaxSurbs THEN @ + n
                                                         ELSE MaxSurbs]
Request(t)       == Brought(surbs, t, PerRequest)

Fresh(i) == msg[i] = NoMsg

Fault    == faults < MaxFaults /\ faults' = faults + 1
NoFault  == UNCHANGED faults

\* The handler returns; whatever it held in local variables is gone.
Return == /\ phase' = "idle"
          /\ peer' = NoTag
          /\ user' = NoUser
          /\ job' = NoId
          /\ batch' = {}
          /\ delivered' = {}

\* send_unified_message, send_reply: an error is logged and otherwise ignored.
Send(i, t, type, via, s) ==
    \/ /\ sent' = sent \cup {[id |-> i, tag |-> t, type |-> type, via |-> via]}
       /\ emits' = [emits EXCEPT ![i] = @ + 1]
       /\ surbs' = Used(s, t)
       /\ NoFault
       /\ UNCHANGED failed
    \/ /\ Fault
       /\ failed' = failed \cup {i}
       /\ surbs' = s
       /\ UNCHANGED <<sent, emits>>

\* update_user_field(.., "senderTag", ..): an error is logged and ignored.
SetTag(u, t) == \/ /\ userTag' = [userTag EXCEPT ![u] = t]
                   /\ NoFault
                \/ /\ Fault
                   /\ UNCHANGED userTag

\* queue_pending_message
Store(i, u, s) == /\ pending' = pending \cup {NewRow(i, u)}
                  /\ surbs' = s
                  /\ UNCHANGED <<sent, emits, failed>>

-----------------------------------------------------------------------------
(* Initial state: an empty database and a server that holds no SURBs. *)

Init == /\ userTag = [u \in Users |-> NoTag]
        /\ pending = {}
        /\ surbs = [t \in Tags |-> 0]
        /\ phase = "idle"
        /\ peer = NoTag
        /\ user = NoUser
        /\ job = NoId
        /\ batch = {}
        /\ delivered = {}
        /\ now = 0
        /\ msg = [i \in Ids |-> NoMsg]
        /\ sent = {}
        /\ emits = [i \in Ids |-> 0]
        /\ failed = {}
        /\ accepted = {}
        /\ listed = {}
        /\ acked = {}
        /\ faults = 0

-----------------------------------------------------------------------------
(* Sessions *)

\* handle_registration_response_unified once the signed nonce was verified:
\* the name is inserted with the session it was registered from.
Register(u, t) ==
    /\ phase = "idle"
    /\ ~Registered(u)
    /\ Owner[t] = u
    /\ userTag' = [userTag EXCEPT ![u] = t]
    /\ surbs' = Used(Request(t), t)
    /\ UNCHANGED <<pending, handler, now, history, faults>>

\* handle_login_response_unified once the signed nonce was verified: the
\* session of the name is updated (or the update fails and is logged), and
\* nothing is drained.
Login(u, t) ==
    /\ phase = "idle"
    /\ Authentic(t, u)
    /\ SetTag(u, t)
    /\ surbs' = Used(Request(t), t)
    /\ UNCHANGED <<pending, handler, now, history>>

\* handle_ping_unified up to the UPDATE of senderTag
Ping(u, t) ==
    /\ phase = "idle"
    /\ Authentic(t, u)
    /\ SetTag(u, t)
    /\ surbs' = Brought(surbs, t, PerPing)
    /\ phase' = "pong"
    /\ peer' = t
    /\ user' = u
    /\ UNCHANGED <<pending, job, batch, delivered, now, history>>

\* Faulty: the rows are deleted when they are selected.
PongDeletesFirst ==
    /\ phase = "pong"
    /\ surbs' = Used(surbs, peer)
    /\ batch' = PendingOf(user)
    /\ pending' = pending \ PendingOf(user)
    /\ phase' = "drain"
    /\ UNCHANGED <<userTag, peer, user, job, delivered, now, history, faults>>

\* The pong, and the SELECT of the rows to drain
Pong ==
    /\ phase = "pong"
    /\ surbs' = Used(surbs, peer)
    /\ \/ /\ PendingOf(user) # {}
          /\ batch' = PendingOf(user)
          /\ phase' = "drain"
          /\ NoFault
          /\ UNCHANGED <<peer, user, job, delivered>>
       \/ /\ PendingOf(user) = {}
          /\ NoFault
          /\ Return
       \/ /\ Fault              \* get_pending_messages failed
          /\ Return
    /\ UNCHANGED <<db, now, history>>

\* The drain loop, oldest row first (ORDER BY createdAt): the id of the row is
\* recorded whether or not its send succeeded.
DrainSend ==
    /\ phase = "drain"
    /\ \E r \in batch :
          /\ \A q \in batch : r.at <= q.at
          /\ Send(r.id, peer, DrainType(msg[r.id].kind), "drain", surbs)
          /\ batch' = batch \ {r}
          /\ delivered' = delivered \cup {r.id}
    /\ UNCHANGED <<db, phase, peer, user, job, now, msg, accepted, listed,
                   acked>>

\* The DELETE that ends the drain; when it fails the rows stay.
DrainDelete ==
    /\ phase = "drain"
    /\ batch = {}
    /\ \/ /\ pending' = Without(user, delivered)
          /\ NoFault
       \/ /\ Fault
          /\ UNCHANGED pending
    /\ Return
    /\ UNCHANGED <<userTag, surbs, now, history>>

-----------------------------------------------------------------------------
(* Relaying *)

\* Faulty: a message that is relayed live is stored too.
RelayAndStore(i, u, kind, s) ==
    \/ /\ Reachable(s, u)
       /\ Send(i, userTag[u], LiveType(kind), "live", s)
       /\ pending' = pending \cup {NewRow(i, u)}
    \/ /\ ~Reachable(s, u)
       /\ Store(i, u, s)
       /\ NoFault

\* relay_with_persistence and relay_sealed_with_persistence
RelayOrStore(i, u, kind, s) ==
    \/ /\ Reachable(s, u)
       /\ Send(i, userTag[u], LiveType(kind), "live", s)
       /\ UNCHANGED pending
    \/ /\ \/ ~Reachable(s, u) /\ NoFault
          \/ Fault              \* get_user_by_username failed
       /\ Store(i, u, s)

\* A request that will be answered "sent" once the relay step is over
Answerable(i, u, kind, t) ==
    /\ msg' = [msg EXCEPT ![i] = [to |-> u, kind |-> kind]]
    /\ phase' = "answer"
    /\ peer' = t
    /\ job' = i
    /\ UNCHANGED <<user, batch, delivered, now, accepted, listed, acked>>

\* handle_send_unified: the sender must be registered and have signed, the
\* recipient must be registered.
SendUnified(i, t, u) ==
    /\ phase = "idle"
    /\ Fresh(i)
    /\ Authentic(t, Owner[t])
    /\ Registered(u)
    /\ RelayOrStore(i, u, "send", Request(t))
    /\ Answerable(i, u, "send", t)
    /\ UNCHANGED userTag

\* handle_sealed_send: anybody may send, the recipient must be registered.
SealedSend(i, t, u) ==
    /\ phase = "idle"
    /\ Fresh(i)
    /\ Registered(u)
    /\ RelayOrStore(i, u, "sealed", Request(t))
    /\ Answerable(i, u, "sealed", t)
    /\ UNCHANGED userTag

\* handle_key_package_request_unified, handle_key_package_response_unified,
\* handle_group_join_response_unified: neither side need be registered, and
\* nothing is answered unless the relay fails.
RelayControl(i, t, u) ==
    /\ phase = "idle"
    /\ Fresh(i)
    /\ RelayOrStore(i, u, "control", Request(t))
    /\ msg' = [msg EXCEPT ![i] = [to |-> u, kind |-> "control"]]
    /\ UNCHANGED <<userTag, handler, now, accepted, listed, acked>>

\* handle_fetch_kp_challenge for a user without key packages: a
\* keyPackageNeeded row, always stored, and an error for who asked.
QueueNotice(i, t, u) ==
    /\ phase = "idle"
    /\ Fresh(i)
    /\ pending' = pending \cup {NewRow(i, u)}
    /\ msg' = [msg EXCEPT ![i] = [to |-> u, kind |-> "notice"]]
    /\ surbs' = Used(Request(t), t)
    /\ UNCHANGED <<userTag, handler, now, sent, emits, failed, accepted,
                   listed, acked, faults>>

\* handle_send, the legacy format, up to the UPDATE of the sender's session.
LegacySend(t, u) ==
    /\ phase = "idle"
    /\ \E i \in Ids : Fresh(i)
    /\ Authentic(t, Owner[t])
    /\ SetTag(Owner[t], t)
    /\ surbs' = Request(t)
    /\ phase' = "route"
    /\ peer' = t
    /\ user' = u
    /\ UNCHANGED <<pending, job, batch, delivered, now, history>>

\* route_message_to_recipient: to the stored session, whether or not it has
\* SURBs; an unknown recipient, or a failed look-up, ends in an error.
LegacyRoute(i) ==
    /\ phase = "route"
    /\ Fresh(i)
    /\ Registered(user)
    /\ Send(i, userTag[user], LiveType("chat"), "live", surbs)
    /\ Answerable(i, user, "chat", peer)
    /\ UNCHANGED db

LegacyRefused ==
    /\ phase = "route"
    /\ \/ ~Registered(user) /\ NoFault
       \/ Fault
    /\ surbs' = Used(surbs, peer)
    /\ Return
    /\ UNCHANGED <<db, now, history>>

\* The sendResponse with status "sent"
Answer ==
    /\ phase = "answer"
    /\ accepted' = accepted \cup {job}
    /\ surbs' = Used(surbs, peer)
    /\ Return
    /\ UNCHANGED <<db, now, msg, sent, emits, failed, listed, acked, faults>>

\* Any other request, and any request refused at an early return: it brings
\* SURBs and is answered.
OtherRequest(t) ==
    /\ phase = "idle"
    /\ surbs' = Used(Request(t), t)
    /\ UNCHANGED <<db, handler, now, history, faults>>

-----------------------------------------------------------------------------
(* Explicit fetch and acknowledgement *)

\* handle_fetch_pending_unified lists the rows and deletes nothing.
FetchPending(u, t) ==
    /\ phase = "idle"
    /\ Authentic(t, u)
    /\ listed' = listed \cup {r.id : r \in PendingOf(u)}
    /\ surbs' = Used(Request(t), t)
    /\ UNCHANGED <<db, handler, now, msg, sent, emits, failed, accepted,
                   acked, faults>>

\* handle_ack_unified: ids come from an earlier answer, whoever it was for;
\* the DELETE is silent on success, and logged when it fails.
Ack(u, t, ids) ==
    /\ phase = "idle"
    /\ Authentic(t, u)
    /\ ids # {}
    /\ \/ /\ pending' = Without(u, ids)
          /\ acked' = acked \cup {i \in ids : i \in RowIds /\ msg[i].to = u}
          /\ NoFault
       \/ /\ Fault
          /\ UNCHANGED <<pending, acked>>
    /\ surbs' = Request(t)
    /\ UNCHANGED <<userTag, handler, now, msg, sent, emits, failed, accepted,
                   listed>>

-----------------------------------------------------------------------------
(* The environment *)

Tick == /\ now < MaxTime
        /\ now' = now + 1
        /\ UNCHANGED <<db, surbs, handler, history, faults>>

\* The process stops and starts again: the database and nothing of the
\* handler survives, the SURBs only if the mixnet client had saved them.
Crash == /\ Fault
         /\ surbs' \in {surbs, [t \in Tags |-> 0]}
         /\ Return
         /\ UNCHANGED <<db, now, history>>

Next ==
    \/ \E u \in Users, t \in Tags :
          \/ Register(u, t)
          \/ Login(u, t)
          \/ Ping(u, t)
          \/ FetchPending(u, t)
          \/ \E ids \in SUBSET listed : Ack(u, t, ids)
    \/ \E i \in Ids, t \in Tags, u \in Users :
          \/ SendUnified(i, t, u)
          \/ SealedSend(i, t, u)
          \/ RelayControl(i, t, u)
          \/ QueueNotice(i, t, u)
    \/ \E t \in Tags, u \in Users : LegacySend(t, u)
    \/ \E i \in Ids : LegacyRoute(i)
    \/ LegacyRefused
    \/ Pong
    \/ DrainSend
    \/ DrainDelete
    \/ Answer
    \/ \E t \in Tags : OtherRequest(t)
    \/ Tick
    \/ Crash

Spec == Init /\ [][Next]_vars

\* A handler that was started is driven to its end, and a user who keeps
\* pinging from a session is served again and again.
Fairness ==
    /\ WF_vars(Pong)
    /\ WF_vars(DrainSend)
    /\ WF_vars(DrainDelete)
    /\ WF_vars(Answer)
    /\ WF_vars(LegacyRefused \/ \E i \in Ids : LegacyRoute(i))
    /\ \A u \in Users : SF_vars(\E t \in Tags : Ping(u, t))

FairSpec == Spec /\ Fairness

-----------------------------------------------------------------------------
(* Properties *)

\* Every value the server keeps has its shape, and a handler that is not
\* running holds nothing.
TypeOK ==
    /\ userTag \in [Users -> Tags \cup {NoTag}]
    /\ pending \subseteq Row
    /\ surbs \in [Tags -> 0 .. MaxSurbs]
    /\ phase \in {"idle", "pong", "drain", "route", "answer"}
    /\ peer \in Tags \cup {NoTag}
    /\ user \in Users \cup {NoUser}
    /\ job \in Ids \cup {NoId}
    /\ batch \subseteq Row
    /\ delivered \subseteq Ids
    /\ now \in 0 .. MaxTime
    /\ msg \in [Ids -> Message \cup {NoMsg}]
    /\ sent \subseteq Envelope
    /\ emits \in [Ids -> Nat]
    /\ failed \subseteq Ids
    /\ accepted \subseteq Ids
    /\ listed \subseteq Ids
    /\ acked \subseteq Ids
    /\ faults \in 0 .. MaxFaults

\* A message whose sender was answered "sent" is never lost by the server: it
\* is still a row, or was handed to the mixnet, or its recipient acknowledged
\* it; the one way out is a send that returned an error, which the code only
\* logs.  It spans a relay, an answer, a drain cut at any of its steps, and an
\* acknowledgement that names foreign ids.
Accounted ==
    \A i \in accepted : \/ i \in RowIds
                        \/ emits[i] > 0
                        \/ i \in acked
                        \/ i \in failed

\* Nothing meant for one user is handed to a session another user's key
\* answers for, however the senderTag column was written: by a registration,
\* a login, a ping or a legacy send, from any of a user's sessions.
DeliveredToOwner ==
    \A e \in sent : Owner[e.tag] = msg[e.id].to

\* A message is handed to the mixnet at most once plus once for every fault: a
\* live relay leaves no row behind that a later ping would send again, and a
\* row that was drained is gone unless the process stopped, or a delete
\* failed, before the rows were deleted.
DuplicatesNeedFaults ==
    \A i \in Ids : emits[i] <= 1 + faults

\* The relay implements the mailbox: every step of every handler, and every
\* crash between two of them, is a step of Mailbox or leaves it as it is.
Mail == INSTANCE Mailbox WITH held     <- RowIds,
                              handed   <- {i \in Ids : emits[i] > 0} \cup failed,
                              released <- acked,
                              promised <- accepted

ImplementsMailbox == Mail!MSpec

\* What its recipient acknowledged is not sent again.
AckedNotSentAgain ==
    [][\A i \in acked : emits'[i] = emits[i]]_vars

\* A drain that runs to its end without a fault leaves its user only rows that
\* have expired: no message is overtaken by one of its own drain, and none
\* arrives between the SELECT and the DELETE.
DrainLeavesOnlyExpired ==
    [][phase' = "idle" /\ phase \in {"pong", "drain"} /\ faults' = faults
         => \A r \in pending' : r.to = user => r.at + TTL <= now]_vars

\* A stored message of a registered user who keeps pinging leaves the queue or
\* expires.
PendingDrained ==
    \A i \in Ids :
        (i \in RowIds /\ Registered(msg[i].to))
            ~> (\A r \in pending : r.id = i => ~Unexpired(r))

-----------------------------------------------------------------------------
(* The inductive invariant behind the safety properties *)

\* A handler that runs knows whom it serves, and has checked that it may.
Serving ==
    /\ phase # "idle" => peer \in Tags
    /\ phase \in {"pong", "drain"} => user \in Users /\ Owner[peer] = user
    /\ phase = "route" => user \in Users
    /\ phase = "answer" => job \in Ids

\* The senderTag column only ever holds a session of the user of its row.
TagsOwned == \A u \in Users : Registered(u) => Owner[userTag[u]] = u

\* An id that was not used yet has left no trace.
FreshUntouched ==
    \A i \in Ids : Fresh(i) =>
        /\ i \notin RowIds \cup failed \cup acked \cup accepted
        /\ emits[i] = 0
        /\ \A e \in sent : e.id # i

\* A row is the only one of its id and agrees with the message it stores;
\* an acknowledged message has no row.
RowsSound ==
    /\ \A r \in pending : msg[r.id] # NoMsg /\ msg[r.id].to = r.to
    /\ \A r, q \in pending : r.id = q.id => r = q
    /\ acked \cap RowIds = {}

\* What a drain still has to send is in the table, what it sent was sent or
\* failed, both belong to its user, and no other unexpired row of its user
\* exists.
DrainSound ==
    /\ batch \subseteq pending
    /\ \A r \in batch : r.to = user /\ r.id \notin delivered
    /\ \A i \in delivered : emits[i] > 0 \/ i \in failed
    /\ \A r \in pending : r.id \in delivered => r.to = user
    /\ phase # "drain" => batch = {} /\ delivered = {}
    /\ phase = "drain" => \A r \in pending :
          r.to = user => r \in batch \/ r.id \in delivered \/ r.at + TTL <= now

\* What is about to be answered "sent" was relayed or stored.
AnswerSound ==
    phase = "answer" => \/ job \in RowIds
                        \/ emits[job] > 0
                        \/ job \in failed

\* The sends of an id, with the one its row still promises, are paid for by
\* the first one and the faults.
Owed(i) == IF i \in RowIds \ delivered THEN 1 ELSE 0
EmitsBounded == \A i \in Ids : emits[i] + Owed(i) <= 1 + faults

Inv == /\ TypeOK
       /\ Serving
       /\ TagsOwned
       /\ FreshUntouched
       /\ RowsSound
       /\ DrainSound
       /\ AnswerSound
       /\ EmitsBounded
       /\ Accounted
       /\ DeliveredToOwner

-----------------------------------------------------------------------------
(* What documents and comments say, and the code does otherwise *)

\* PROTOCOL.md, ping: "Delete successfully sent pending messages".
DrainDeletesOnlySent ==
    [][phase = "drain"
         => \A r \in pending : r \notin pending' => emits[r.id] > 0]_vars

\* relay_sealed_with_persistence: 'uses type="sealed" in the outgoing message
\* envelope so the client knows it is a sealed sender message'.
SealedStaysSealed ==
    \A e \in sent : msg[e.id].kind = "sealed" => e.type = "sealed"
=============================================================================
