# TLA+ models of nymstr

Nymstr is a messenger over the Nym mixnet: a desktop client, a discovery server
that authenticates users, relays their messages and keeps their MLS key
packages, and one group server per group. This directory models the parts of it
whose correctness depends on the order of steps: what is stored, sent and
deleted when handlers are cut, statements fail, and messages come late, twice or
never.

Abbreviations for source files, all under `src/`:

| short | file |
|---|---|
| server `mu` / `db` | `nymstr-server/src/message_utils.rs`, `nymstr-server/src/db_utils.rs` |
| group `mu` / `db` | `nymstr-group/src/message_utils.rs`, `nymstr-group/src/db_utils.rs` |
| `loop` | `app/desktop/src/tasks/message_loop.rs` |
| `auth`, `messaging`, `groups`, `invites`, `contacts` | `app/desktop/src/commands/*.rs` |
| `direct`, `bp`, `monitor` | `app/desktop/src/core/message_handler/direct.rs`, `app/desktop/src/tasks/buffer_processor.rs`, `app/desktop/src/tasks/connection_monitor.rs` |

## 1. Inventory

### Discovery server

One loop takes one message from the mixnet after the other, calls
`process_message`, and awaits it to the end. No two handlers overlap; but every
SQL statement and every send is awaited, and the process may be stopped at each.

| part | state | operations | correct when |
|---|---|---|---|
| relay and pending queue | `users.senderTag`, `pending_messages`, the SURBs of the mixnet client | `send`, `sealedSend`, key package and group-join relays, legacy `send`, `ping`, `fetchPending`, `ack` | a message answered "sent" is never silently lost, never handed to another user, doubled only after a fault; an acknowledged one is not sent again; a drain leaves nothing behind |
| key package store | `key_packages` | publish, challenge, fetch after a proof of work, clean-up | no package is given out twice; the last one stays; a challenge has a bounded life; a stock that runs low is refilled |
| registration, login, query | `users`, `pending_users`, `nonces`, rate limiters | register / login and the answers to their challenges | a name belongs to one key; a challenge is answered once and in time |
| group registry | `groups`, `pending_groups` | `registerGroup` and its answer | a group name belongs to the key that answered for it |

### Group server

Also one loop over one handler at a time, over SQLite with foreign keys on.

| part | state | operations | correct when |
|---|---|---|---|
| membership | `users`, `pending_users`, `groups`, `group_members`, `key_packages` | `register`, `approveGroup`, the backfill at start-up | a user's key never changes; the admin adds the key that was approved; who is registered becomes a member |
| message log | `messages`, `recent_message_hashes` | `sendGroup`, `fetchGroup` | a message is stored once; the sender is told its id; readers get everything, in order |
| MLS delivery | `pending_welcomes`, `buffered_commits` | `storeWelcome`, `fetchWelcome`, `bufferCommit`, `syncEpoch` | a new member gets the welcome made for it; who keeps asking catches up; no client goes back an epoch |

### Client

Commands called by the user interface, a receive loop that hands each sealed
message to a task of its own, a processor that retries buffered messages every
five seconds, and SQLite tables shared by all of them.

| part | state | operations | correct when |
|---|---|---|---|
| key package exchange | pending queries by user name | fetch in two round trips, publish after login and on a notice | each attempt gets its own answer |
| direct message handshake | `conversations`, `pending_handshakes`, `contact_requests`, `contacts`, `messages`, pending queries | first message, welcome, accept or deny, acknowledgement, drain of the queue | nobody is in a conversation without consent; a conversation that is mapped can encrypt; nothing stays queued |
| epoch-aware buffering | `pending_mls_messages`, in-memory buffer, MLS state | receive, buffer, retry, expire | a message is shown at most once; a key that is spent was spent for a message that is shown |
| groups | `group_cursors`, `group_memberships`, the admin's MLS group | join, approve, send, fetch, synchronise | the cursor follows what was read; a welcome goes to whom it was made for |
| session | the connection, its one receiver, tasks, the current user, keys, the MLS client | connect, register, ping, log out, reconnect | who is logged in is heard; what is stored as registered is registered with that key |

### How they interact

* Client and servers only exchange messages over the mixnet, which delays,
  reorders and loses them. An answer travels over a reply block (SURB) that an
  earlier message of the same session brought.
* A client proves its identity by a signature in the message; the session it
  speaks from (sender tag) is remembered in `users.senderTag` and is where
  relayed messages go.
* A fetch of a key package depends on the stock at two moments; when the stock
  is empty, the relay's queue carries the notice to the owner.
* A group's membership decides who may write to its log, and the admin's client
  turns an approval into an MLS add, whose welcome and commit pass through the
  same group server.
* The client's background tasks share its database with the commands and have
  no common lock.

### What is hard

A handler cut between two statements; a failure that is logged and otherwise
ignored (the usual way both servers treat one); an answer that comes after its
wait was over; an id or a count read in one statement and used in another; a
queue drained while it can still grow; a clock that moves between a check and
its use; tables whose rows depend on rows of other tables. `PROJECT.json` lists
these hazards line by line, with the properties that cover them.

## 2. Modules

| module | models | role |
|---|---|---|
| `Mailbox` | what the discovery server promises about a message | abstract specification |
| `Relay` | relay, pending queue, sessions, SURBs | implements `Mailbox` |
| `KeyPackages` | key package store, publishers, fetching clients | |
| `GroupMembers` | registration, approval, membership, restart of a group server | |
| `Broadcast` | what a group promises about the order of its messages | abstract specification |
| `GroupLog` | log, deduplication, pages and cursors of a group | implements `Broadcast` |
| `GroupDelivery` | welcomes and commits between the admin, the group server and members | |
| `Conversation` | what a one-to-one conversation promises its two users | abstract specification |
| `DmHandshake` | the direct message handshake of two clients | implements `Conversation` |
| `EpochBuffer` | messages that arrive before the commit that makes them readable | |
| `Registry` | registration, login, query and group registry of the discovery server | |
| `Session` | the application's connection, receiver, tasks and authentication commands | composed with `Registry` |
| `RelayProofs`, `KeyPackagesProofs`, `GroupMembersProofs`, `GroupLogProofs`, `GroupDeliveryProofs`, `DmHandshakeProofs`, `EpochBufferProofs` | | theorems about the module of that name |
| `SessionProofs` | | theorems about `Session` with `Registry` |
| `MC...` | small instances | TLC |

In all of them a variable is a table, a map or the local state of something that
runs; `phase` or `pc` is the statement it will execute next; the variables under
"history" are read by no guard, and exist for the properties. `Fault` marks an
outcome that costs one of `MaxFaults` (in `DmHandshake` of `MaxExtras`): a stop,
a statement or send that fails, a message that is lost or arrives twice.

Definitions that a comment calls faulty or a mutant are used by no
specification. Each is a variant of the definition below it, with a mistake that
the code could have and a property refutes.

### Relay

| code (server `mu`, `db`) | model |
|---|---|
| `users.senderTag` | `userTag`, `NoTag` for a name that is not registered |
| rows of `pending_messages` | `pending`: id, recipient, time of storing |
| `available_surbs` of each tag | `surbs`, saturating at `MaxSurbs`; `CountsSurbs = FALSE` is stdio mode |
| locals of the running handler (`sender_tag`, `username`, `pending`, `delivered_ids`) | `peer`, `user`, `job`, `batch`, `delivered` |
| `handle_registration_response_unified`, `handle_login_response_unified` | `Register`, `Login`, each from the point where the nonce's signature has been verified |
| `handle_ping_unified` | `Ping`, `Pong`, `DrainSend` (once per row), `DrainDelete` |
| `handle_send_unified`, `handle_sealed_send` | `SendUnified`, `SealedSend`, and `Answer` for the `sendResponse` |
| key package request/response, group join response | `RelayControl` |
| the notice queued by `handle_fetch_kp_challenge` | `QueueNotice` |
| `handle_send` and `route_message_to_recipient` (legacy format) | `LegacySend`, `LegacyRoute`, `LegacyRefused` |
| `relay_with_persistence`, `relay_sealed_with_persistence` | `RelayOrStore` |
| `handle_fetch_pending_unified`, `handle_ack_unified` | `FetchPending`, `Ack` |
| everything else that a session sends, refusals included | `OtherRequest` |

`Owner[t]` is the user whose private key the client behind session `t` holds, so
that "the signature verifies with the key stored for u" is `Owner[t] = u`. The
three differences between the live path and the queue (session looked up now or
taken from the ping, type of the envelope, row or no row) are kept; the text of
messages is not. A send that fails uses up no reply block. A failed look-up of
the recipient makes a message that could be relayed wait in the queue instead.

`Mailbox` has four sets: messages held, handed over, acknowledged, and promised
to their senders. The refinement mapping (`Mail` in `Relay`) takes rows for
held, sends and failed sends for handed over, and answers for promised.

### KeyPackages

| code | model |
|---|---|
| rows of `key_packages` | `kps` |
| `keyPackageNeeded` rows of the queue | `notices` |
| `handle_publish_key_package` | `Publish`, `PublishFails` |
| `handle_fetch_kp_challenge` at a stock of 0, 1, more | `ChallengeRefused`, `ChallengeHeldBack`, `ChallengeIssued` |
| `handle_fetch_key_package`: window and proof of work, then `consume_key_package`: COUNT, SELECT, DELETE, then the reply | `FetchVerified` / `FetchRefused`, `ConsumeCount`, `ConsumeSelect`, `ConsumeDelete`, `FetchReply` |
| `send_message` of the client, steps 1 to 3, with 15 s for each answer | `Ask`, `Grind`, `Timeout` |
| `handle_mls_message` resolving a pending query | `GetChallenge`, `GetKp` |
| publication after login and after notices | `Login` |

A challenge is an HMAC of user and window; the model keeps the two. A nonce is
the number of zero bits it reaches: at least those asked for, since the
difficulty is computed again when it is presented and may have risen. Messages
on their way are sets, which loses and reorders them.

### GroupMembers

| code (group `mu`, `db`, `main`) | model |
|---|---|
| the five tables | `users`, `pending`, `packages`, `group`, `members` |
| `handle_register_core`, key of the admin | `Register`, `AdminUser`, `AdminKp`, `AdminGroup`, `AdminMember` |
| `handle_register_core`, any other key | `Register`, `PendingUser`, `PendingKp` |
| `handle_approve_group_core` | `Approve`, `ApproveUser`, `ApproveRemove`, `ApproveMember` |
| a stop; the start with its backfill of members | `Crash`, `Restart` |

`AddMember` carries the foreign keys of `group_members`: `INSERT OR IGNORE` does
not ignore their violation, which the handlers only log. `late` remembers whom
that, or a failed insert, happened to.

### GroupLog and Broadcast

| code | model |
|---|---|
| `messages`, `recent_message_hashes` | `log` (ids are positions), `hashes` |
| `cleanup_old_message_hashes(600)` at every message | `Clean`, part of `Receive` and `ServePage` |
| `handle_send_group_core` | `Receive`, `CheckHash`, `StoreMessage` |
| `handle_fetch_group_core`, `get_messages_since` | `ServePage`, `PageOf` |
| `send_group_message`, `fetch_group_messages`, `fetchGroupResponse` in `loop` | `SendGroup`, `Ask`, `Deliver` |
| `group_cursors` of the client | `cursor`, `CursorAfter` |

`CursorAfter` leaves the cursor as it is, because the statement that stores it
(`loop`:872) names no `username`, which the table declares NOT NULL without a
default and as part of its key (`core/db/schema.rs`:136): SQLite aborts it and
the error is logged. There is another function with the right columns,
`update_group_cursor_for_user`; nothing calls it.

`Broadcast` has four parts: the messages that were sent, one order of them, the
places in it that senders were told, and the places each member has got. A
message gets a place, and its sender is told that place, in one step; a member
gets what is missing of a longer beginning. `GroupLog` implements it with the
log for the order, the answers "success" for what was confirmed, and `seen` for
what was got. The hash table, the two statements of a handler, requests and
pages are not in it: every action on them is a step that `Broadcast` does not
see. It says nothing of how often a message may be placed (`DedupWindow` does),
and promises no reader the end of the log (section 6).

### GroupDelivery

| code | model |
|---|---|
| `approve_member` (`groups`): the request, then `take_incoming_rx` | `Approve`, `TakeReceiver` |
| `wait_for_approval_response` | `OnApproved` (`AddApproved`, `CannotAdd`), `OnRefused`, `GiveUp` |
| an answer in `loop`, or at another command that has the receiver | `Unheard` |
| `WelcomeFlowHandler`, `MlsConversationManager` on a `keyPackageForGroupResponse` | `AddByResponse` |
| `add_member_to_group` of the MLS client | `AddMember`: the admin's epoch moves, and nothing has been sent |
| `store_welcome_on_server`, then the commit | `SendWelcome`, `SendCommit` |
| `pending_welcomes`: `handle_store_welcome`, `handle_fetch_welcome` | `welcomes`, `OnStoreWelcome`, `FetchWelcome` |
| `buffered_commits`: `handle_buffer_commit` with `cleanup_old_commits`, `handle_sync_epoch` | `log`, `OnBufferCommit`, `Kept`, `SyncEpoch`, `PageOf` |
| `join_group`, `leave_group`, `process_welcome` | `JoinGroup`, `LeaveGroup`, `OnWelcome` |
| `syncEpochResponse` in `loop` | `OnCommits`, `CaughtUp` |

`approve_member` sends first and takes the receiver then. `Approve` depends on
nobody's wait; `asked` are the commands between the two, `held` is that one of
them has the receiver, and `TakeReceiver` may always fail: the loop has the
receiver from the login on, and other commands take it too. Then the command ends
with "Message receiver not available", and what the server did stays done.
`leftOver` remembers whatever may give the answer of an approval another reader
than the command that asked: a second approval before the first one's answer, a
receiver that is not there, a wait that is given up or ends with the application,
an answer that comes twice. Left out are a second approval of the same user
before the first has taken the receiver, and a reconnection during a wait, which
closes its channel.

A member's MLS state is the number of its epoch, because only the admin commits.
`Commit.readable` is the encoding: `approve_member` encodes the commit twice and
the reader decodes it once. `ValidIds` says which of the application's two kinds
of ids the server's `is_valid_group_id` lets through.

### DmHandshake and Conversation

| code | model |
|---|---|
| `send_message`, `initiate_conversation` (`messaging`) | `SendMessage`, `InitiateConversation`, `CheckConversation`, `CheckHandshake`, `DirectSend`, `DirectMark` |
| the background task: challenge, proof of work, key package, group, welcome | `AskChallenge`, `AskKeyPackage`, `ChallengeArrives`, `KeyPackageArrives`, `Abandon`, `CompleteHandshake`, `SendWelcome` |
| `handle_sealed_message`, by what is known of the sender | `ReceiveKnown`, `ReceiveKeyless`, `ReceiveInvite`, `ReceiveStranger` |
| welcome, acknowledgement, application message (`direct`) | `Dispatch`, then `Join`, `MapGroup`, `Unpend`, `SendWelcomeAck` |
| `drain_pending_messages` | `DrainSelect`, `DrainSend`, `DrainMark` |
| `accept_contact_request`, `deny_contact_request`, contacts, `query_user` | `Accept`, `SaveContact`, `MarkAccepted`, `Deny`, `AddContact`, `RemoveContact`, `QueryUser` |
| `pending_queries` of the state | `waiter`, `name`, `NameArrives`, `NameAbandon`, `QueryAbandon` |

Both users run the same code. A handler or accept command is a record in
`tasks` with the step it is at, so that any two of one user interleave. The
server between them is a set of messages; `Relay` has its own properties.

`Conversation` has four sets: who agreed, who is in the conversation, what was
said, what was heard. The mapping (`Abstract`) takes the `conversations` row for
being in it, an encryption for saying, and a message in the recipient's list for
hearing.

### EpochBuffer

| code | model |
|---|---|
| rows of `pending_mls_messages` | `rows` |
| the branches of `loop` for messages and commits, each a spawned task | `HandOver`, `Load`, `Write`, `Save`, `Buffer` |
| `process_buffered_messages`, `process_conversation_buffer`, `cleanup_expired_messages` (`bp`) | `StartPass`, `TakeRow`, `RetryLoad`, `RetryWrite`, `RetrySave`, `RetryMark`, `Cleanup` |
| `process_incoming_message_buffered`, `process_buffered_messages` of `MlsConversationManager` | `Receive`, `RetryCandidate`, `Return` |
| `EpochAwareBuffer` | `memory`, `Push`, `Candidate`, `CountUp`, `Forget`, `Expire`, `Reloaded` |

`host` chooses at the start which of the two parts runs. The library's group is
an epoch and the keys that are spent; `WriteGroup` writes back a copy that may
be stale, which `clobbered` remembers.

### Registry and Session

| code | model |
|---|---|
| `users`, `groups`; `pending_users`, `nonces`, `pending_groups` | `users`, `groups`; `pending` with `map` |
| `RateLimiter::check_and_record` | `attempts`, `Recent`, `Record` |
| handlers of register, login, their answers, ping, query, registerGroup and its answer, in both message formats | `HandleRegister` ... `HandleRegisterGroupResponse` |
| `set_mixnet_service`, `take_incoming_rx`, `clear_mixnet_service`, and the assignments to `incoming_rx` of a command that fails | `svc` and `rx`; `SetMixnetService`, `TakeIncomingRx`, `PutBack`, `ClearMixnetService` |
| `connect_to_mixnet`, `disconnect_from_mixnet`, the monitor | `Connect`, `Monitor`, `Connected`, `ConnectFails`, `Disconnect` |
| `register_user`, `ping_server`, `logout` (`auth`) | `RegisterUser`, `PingServer`, the actions that read a reply, `Timeout`, `Logout` |
| `start_background_tasks`, `stop_background_tasks` | `StartBackgroundTasks`, `StopBackgroundTasks` |

A challenge is the number of the request that asked for it and a signature the
pair of challenge and key, so that it is one message only if it signs one
challenge. A closed channel, or an answer to a challenge that cannot be sent,
ends a command as `Timeout` does. A session of the server is a connection of the
application, a peer or a group server.

Every statement of the server may fail. A failed look-up refuses, except in two
places that go on as if nothing had been found: the register handler of the
unified format, where the INSERT fails then, and `handle_register_group`, which
skips the comparison of the keys; `checked` in the pending entry is FALSE for a
challenge that was given in this way although the row has another key.
`InitializeMls` may leave the application without an MLS client: its callers log
that and go on.

## 3. Runs

Every run sets `CHECK_DEADLOCK FALSE`: messages, clock, faults and tries are
bounded, and when they are used up the model stops although the system would
not.

| run | result | what it shows |
|---|---|---|
| `RelaySafety` | holds, 784,316 states | two messages, three sessions, one fault |
| `RelayTime` | holds, 412,544 states | drains and rows that expire, with a clock and fairness |
| `KeyPackages` | holds, 2,207,072 states | a client that fetches, times out, retries and gets late answers, and a clock |
| `GroupMembers` | holds, 2,266,801 states | two users, three keys, two faults, fairness |
| `GroupLog` | holds, 148,360 states | two messages that arrive again, one fault, hashes that expire, one reader, fairness |
| `GroupDelivery` | holds, 826,403 states | three joiners by both paths, one fault, fairness |
| `DmSafety` | holds, 2,127,365 states | two of three commands, one fault or change of the contact list |
| `DmLive` | holds, 12,708 states | two commands without faults, of one user or of each, with fairness; a third only starts a handshake |
| `EpochBuffer` | holds, 247,777 states | a commit and messages of both its epochs, repeated, one fault, both hosts, fairness |
| `Session` | holds, 2,172,007 states | an application with two connections, a legacy peer, two group servers |
| `GroupLogCursor`, `DmSplit` | violated | the findings of section 6 |

What is checked:

* **Relay.** `Accounted`: whoever was answered "sent" has a message that is a
  row, was handed to the mixnet, was acknowledged, or whose send returned an
  error. `DeliveredToOwner`: nothing goes to a session of another user's key,
  however `senderTag` came to be what it is. `DuplicatesNeedFaults`: a message
  is sent at most once more than there were faults. `ImplementsMailbox`: every
  step of every handler is a step of `Mailbox`, so that an acknowledged message
  is not sent again. `DrainLeavesOnlyExpired`: a drain without a fault leaves
  its user only rows that have expired. `PendingDrained`: a user who keeps
  coming online gets, or lets expire, every row.
* **KeyPackages.** `GivenOnce`: no package is handed out twice, two clients
  never end up with the same one, and it is of the user they asked for.
  `LastRowKept`: the DELETE of a fetch never takes the last row, although COUNT
  was two statements earlier. `ChallengeAge`: nothing is handed out against a
  challenge of two windows or older.
* **GroupMembers.** `KeyStable`, `ApprovedKeyPackage` (the package an approval
  returns was made with the key it approved, through any earlier or concurrent
  registration under the same name), `MemberOrLate` (what a stop or a failed
  insert may leave behind), `MemberInTheEnd` (and what the next start repairs,
  for a group that has its row).
* **GroupLog.** `DedupWindow`: a message is stored twice only when its hash was
  kept for its whole time, or could not be recorded. `ToldIdsRight`: the id a
  sender was told is the position of that message. `ImplementsBroadcast`: every
  step is one of `Broadcast`, so that places are final, only what was sent has
  one, and no reader has a message without all before it (`SeenWithoutGaps`),
  though pages overtake each other. `FirstPageReaches`: who keeps fetching gets
  the first page.
* **GroupDelivery.** `WelcomeForTargetInTime`: a welcome stored for a user opens
  with that user's key package, as long as no approval overlapped another, each
  found the receiver and waited for its answer, and no answer came twice.
  `NothingLost`: without a fault and on the same condition, an approved user is
  in the MLS group or what brings the user there exists somewhere, although
  fetching a welcome deletes it. The code does not guarantee the condition:
  section 6 says what happens without it. `NewestInPage`: what the clean-up
  keeps is what a page shows. `NeverBack`: no client's epoch goes back. `CatchesUp`: who keeps
  asking reaches the admin's epoch, unless the next commit is gone for good.
* **DmHandshake.** `Consent`, `ConvUsable`, `NothingBeforeAck`, `NoneStranded`,
  `ImplementsConversation` and `HandshakeConcludes`; each is explained where it
  is defined.
* **EpochBuffer.** `ShownOnce`: a message is shown twice only after a lost
  update of the MLS group. `SpentIsShown`: without a fault, a message whose key
  is spent has been shown or is about to be. `PassOpens`: the manager's pass
  leaves nothing that was readable when it began. `Drains`: every row of the
  application's table goes.
* **Registry and Session.** `ToldStands`: whatever key the server has vouched
  for stays the key of the name. `RaceEnds`: where the key was compared when the
  challenge was given, the address of a group is set with another key than its
  own only within the life of a challenge. `StoredKeyInTime`:
  whoever is stored as registered is registered with the stored key, if no
  earlier attempt was given up. `HeardInTime`: the loop reads the connection
  that requests go out on, and decrypts with the user's own MLS client or, where
  it could not be made, with none, if that connection stayed the same.

The inductive invariants `Inv` of the proofs were checked by TLC first.

### Bounds

| bound | value | why it is enough |
|---|---|---|
| `Ids` (Relay) | 2 | a drain with a next row, a row stored before and after another, an acknowledgement of some ids and not others; no property relates three messages |
| `Tags` (Relay) | 3 in `RelaySafety`, 2 in `RelayTime` | two sessions of one user, and one of another |
| `MaxSurbs`, `PerRequest`, `PerPing` | 2 | a session with none, one, and enough for an answer and a relay; SURBs run out in the middle of a drain |
| `TTL`, `MaxTime` (RelayTime) | 1, 1 | fresh and expired; the second user's rows may be older than the first's |
| `MaxFaults` | 1; 2 in GroupMembers | the second fault in GroupMembers lets a failed statement be followed by a stop |
| `Kps` | 3 | a stock of 0, 1, 2 and 3, the difficulties that differ, and a package published after one was taken |
| `Base`, `ExtraBits` | 0, 2 | bits only count relative to the base; two more bits decide whether a risen difficulty is met |
| `Window`, `Life`, `MaxTime` (KeyPackages) | 1, 2, 2 | a challenge in its window, the next, and the one after; packages that expire during a fetch |
| `Fetchers`, `MaxTries` | 1, 3 | two fetches differ from two attempts of one client only in whom the reply goes to; the theorem `KpGivenOnce` is for any number |
| `MaxNotices` | 1 | one notice waits or none |
| `Keys` | 3 | the admin's, and two others under one name |
| `Page`, `MaxLog` (GroupLog) | 2, 3 | a log longer than a page |
| `Keep`, `MaxTime` (GroupLog) | 1, 2 | a hash within its time, at its end, and dropped |
| `Members` (GroupLog) | 1 | readers share the log, and no reader changes what another gets |
| `Joiners`, `Responders` | 3, 1 of them | commits of both encodings; more commits than are kept |
| `Openers` | 1 of them | the member whose client asks for commits; members share the log, and none changes what another gets |
| `Keep`, `Page` (GroupDelivery) | 2, 2 | equal, as 100 and 100 are in the code |
| `Ids`, `MaxCommands` (DmHandshake) | 3, 2 | two commands of one user and one of the other, of which any two are given: two handshakes in one direction, or one in each |
| `Silent` (DmHandshake) | {} in `DmSafety` and `DmSplit`, {3} in `DmLive` | commands that call `initiate_conversation` and send no message |
| `MaxExtras` | 1 | one loss, repetition, failed send, restart or contact-list change, at any point |
| `Items` (EpochBuffer) | 3 | the commit, a message before it and one after it |
| `MaxArrivals` | 3 | all three in any order, or one of them again |
| `MaxRetry`, `MaxAge`, `MaxSize`, `MaxTime` (EpochBuffer) | 2, 1, 1, 2 | a row retried once more than never; one that is too old; one that does not fit into memory |
| `MaxAsks`, `MaxPeerAsks` (Session) | 3, 2 | two registrations that race, and a login or another attempt after them; two group servers in one race |
| `Limit`, `Window`, `TTL`, `MaxTime` (Session) | 1, 1, 1, 1 | a request that is refused and one that is let in again; a challenge that expires |
| `NotExcused` (Session) | a constraint | behaviours are not followed beyond a state where both an answer was late and the connection was replaced: there `StoredKeyInTime` and `HeardInTime` say nothing, and the other two are theorems |
| `AppTags` | 2 | a connection and the one that takes its place |

Symmetric sets are declared in runs without temporal properties: message ids,
key packages, and names. There the reduction is sound.

### Fairness

* `Relay`: a handler that runs is driven to its end (the loop awaits it), hence
  weak fairness of its steps. `Ping` has strong fairness for each user: the
  premise of `PendingDrained` is a user who comes online again and again
  (`ping_server` runs at each unlock), and the loop serves what arrives; it is
  only enabled between handlers, hence strong. It does not say from which
  session, and nothing is assumed about faults, which are bounded.
* `KeyPackages` (used by `KeyPackagesReplenish.cfg` only): handlers are driven to
  their end; a client whose wait is over tries again; of requests and
  publications that are sent again and again, some arrive. Nothing is assumed of
  `Login`, because someone who is online has no reason to log in.
* `GroupMembers`: a running handler goes on; a stopped process is started again.
* `GroupLog`: a running handler goes on; a member asks again and again, and of
  the requests and pages that are sent again and again some arrive.
* `GroupDelivery`: the admin's client goes on sending what it has begun, what is
  under way arrives, and each of `Openers` opens the group again and again, which is
  when the client asks for commits. Nobody need join, approve or leave.
* `DmHandshake`: the runtime goes on with every spawned task and every command;
  requests are answered or given up after their 15 seconds; what is on its way
  arrives. Fairness is for each group and kind of task, because a task is not
  kept waiting by another. Nobody need write, accept or deny.
* `EpochBuffer`: the processor's loop never ends and a spawned handler is run to
  its end. The manager has no fairness, because nothing drives it.
* `Session` (used by `SessionReader.cfg` only): the server, the monitor and the
  time limits go on, opening a connection ends, and what is sent arrives.

## 4. Proofs

The theorems hold for all values of the constants under the `ASSUME`s of the
module: the bounds are natural numbers, the null values are not members of the
sets they stand beside, `Owner` and `Target` are functions into the users, the
admin has a key, a window has at least one clock unit. The sets need not be
finite, except `Joiners` in `GroupDelivery`, whose admin counts who was added;
`KeyPackages` proves its table finite to reason about its count. Two theorems
have a premise of their own:

* `GdNewestInPage` is about limits with `Keep <= Page`, as the code has them (100
  and 100): with a smaller page it is false.
* `GdNothingLost` is about ids that the group server accepts
  (`"address" \in ValidIds`), as its protocol has them ("1-128 chars",
  `nymstr-group/docs/Protocol.md`:328). `GdRefusedIds` is the other side: where
  both kinds are refused, as `is_valid_group_id` refuses the application's own
  (section 6), no welcome and no commit is ever stored.

| module | theorems |
|---|---|
| `RelayProofs` | `Invariance`, `TypeCorrect`, `AcceptedIsAccounted`, `OnlyOwnersServed`, `DuplicatesBounded`, `RelayImplementsMailbox`, `AckedStayAcked`, `DrainsCompletely` |
| `KeyPackagesProofs` | `KpInvariance`, `KpTypeCorrect`, `KpGivenOnce`, `KpChallengeAge`, `KpLastRowKept` |
| `GroupMembersProofs` | `GmInvariance`, `GmTypeCorrect`, `GmApprovedKeyPackage`, `GmMembersSound`, `GmMemberOrLate`, `GmKeyStable` |
| `GroupLogProofs` | `GlInvariance`, `GlDedupWindow`, `GlToldIdsRight`, `GlSeenWithoutGaps`, `GlImplements` |
| `GroupDeliveryProofs` | `GdInvariance`, `GdTypeCorrect`, `GdWelcomeInTime`, `GdNewestInPage`, `GdNothingLost`, `GdRefusedIds`, `GdNeverBack` |
| `SessionProofs` | `SnInvariance`, `SnTypeCorrect`, `SnToldStands`, `SnRaceEnds`, `SnStoredKeyInTime`, `SnHeardInTime` |
| `DmHandshakeProofs` | `DmInvariance`, `DmTypeCorrect`, `DmConsent`, `DmConvUsable`, `DmNothingBeforeAck`, `DmNoneStranded`, `DmImplements` |
| `EpochBufferProofs` | `EbInvariance`, `EbTypeCorrect`, `EbShownOnce`, `EbSpentIsShown`, `EbPassOpens` |

Why the invariants are stronger than the properties:

* **Relay.** `Accounted` is not inductive: a row may go by the DELETE of a drain,
  so it must be known that every id in `delivered` was sent or failed
  (`DrainSound`), and an answer may be due for a message whose relay is past
  (`AnswerSound`). `DuplicatesNeedFaults` needs the send that a row still
  promises to be counted in advance (`Owed`, `EmitsBounded`): a drain spends it,
  and a stop that brings the row back pays for it with its fault.
  `DeliveredToOwner` needs that the column only ever holds sessions of its
  user's key (`TagsOwned`) and that a drain keeps the user it authenticated
  (`Serving`). Ids that are new have left no trace (`FreshUntouched`), rows have
  unique ids and agree with the message (`RowsSound`). Each action then has a
  lemma that preserves the conjuncts it can disturb; actions that only bring
  SURBs or write a session share `QuietStep`.
* **KeyPackages.** `LastRowKept` needs that in each phase the rows the handler
  counted are still there (`HandlerSound`: two different rows of the user until
  the DELETE), which holds because only the handler deletes rows of a user while
  it runs. Counting enters through one lemma that turns `Cardinality > 1` into
  two different rows. `GivenOnce` needs to follow each package that was given: it
  is neither in the table nor selected, it is of the user who was asked for, and
  every reply and every client that holds a package has one that was given to it
  (`GivenSound`).
  `ChallengeAge` follows from windows being `at \div Window` and two divisions
  apart at most.
* **GroupMembers.** `ApprovedKeyPackage` reads three tables at one moment; the
  invariant behind it says that until a user is registered, the stored package
  belongs to the pending key (`PackagesSound`), because a name that is pending
  refuses a second registration before it reaches the package.
  `MemberOrComing` says who may be registered and not a member while a handler
  is on the way.
* **GroupLog.** `DedupWindow` relates two rows; the invariant relates each row
  to the hash table (`HashesCover`): its hash is there, or it is older than
  hashes are kept and a hash that is there now was recorded for a later arrival.
  `StoreSound` carries that over the gap between the two statements.
  `GlImplements` needs that what a page brings and what a member has got are
  beginnings of the log (`Beginnings`): of two beginnings one contains the other
  (`TwoBeginnings`), so that pages may overtake each other. This rests on
  cursors that stay at 0 (`AskedFromStart`); with a cursor that is stored the
  pages would have to be shown to begin where an earlier one ended. `JobSent`
  says that what gets a place was sent.
* **GroupDelivery.** A welcome names its user where the admin's wait names
  somebody, which is three messages earlier: `InTime` says, while no answer may
  have another reader (`leftOver`), that one approval at most has no answer yet
  (`Alone`), that the only answer under way is that of its user (`Answers`), hence
  that each add is of the package of the user it names (`Added`), and that
  messages and rows keep this (`Carried`, `Stored`). `LogInv`
  says that without a fault the log is the last ids in their order, to which
  the clean-up and the page are then applied. The admin's epoch is one more than
  the number of those who are in the tree (`Counted`), which bounds every epoch.
  `NeverBack` is a lemma about `CaughtUp`, by induction over the page: applying a
  commit never lowers an epoch. `NothingLost` is inductive given the rest; it is
  taken apart into one statement for each joiner (`Traced`), which a step keeps
  when it takes away nothing of that joiner's.
* **Session with Registry.** Three invariants. `RegistryInv` is about the server:
  an answer that names a key names the one that is stored (`NetSound`), and an
  entry or a challenge under way that could still set a group's address is no
  older than the row allows (`AgesSound`, `RaceSound`), unless it was given
  without comparing the keys. `Holding` is about the
  application: while the connection has stayed, its one receiver is in one place
  of four (the state, the command at work, the loop, nowhere), and somebody is
  logged in only when it is in the loop. `StoredKeyInTime` follows one
  registration through client, network and server (`OneAttempt`): while no attempt
  was given up, a connection over which the application can still read is quiet
  (`Quiet`: no message of a registration on it, none in its channel, no entry of
  the server for it) or all of that belongs to the command at work (`Mine`): one
  message or result at a time, with its name and key, and a result "registered"
  only once the row has that key. That rows are never overwritten (`KeysStay`)
  does the rest.
* **DmHandshake.** Consent is given by one user and used by the other, after a
  message, several tasks and restarts. The invariant says of each message what
  must have happened before it was sent (`MsgOK`), of each task what is behind
  it at its step (`TaskOK`), and of each group who agreed (`Groups`).
  `NothingBeforeAck` needs that an active group of one's own means that the peer
  has joined one of one's own, not necessarily the same. What is behind a
  message is never taken back (`Grows`), so a step need only look at what it
  adds. The refinement then reads each step: at most one of agreeing, opening,
  saying and hearing changes, and its guard in `Conversation` is in `Inv`.
  `NoneStranded` is true of quiet states only; what holds on the way there is
  `Rested`. A row whose command is over and whose author has the conversation is
  in somebody's hands (`Waited`): a handler that has still to read the queue, or
  is draining it and has the row before it. This needs that in a run without
  faults every handler finds the peer's key (`Keyed`, `Hands`), because a drain
  without it ends early. All steps are shown to be `Gentle`: a row becomes a
  waiting one only before there is a conversation, a conversation appears only
  together with a handler that will drain, and whoever has a row before him sends
  it or hands it on. An accept command is excepted: it drains nothing (section 6),
  and `request` remembers it.
* **EpochBuffer.** Between the key that is spent and the text that is shown a
  message is in somebody's hands: a handler, the processor or the manager's
  call. `Once` says that without a lost update there is at most one of them, and
  the message is spent and unshown; a copy that is about to be written does not
  have its message (`Copies`), so that whoever writes is new. `Spent` says the
  converse, of the group and of every copy of it. `Passing` says what is still to
  be tried while the manager's pass runs. `TypeOK` needs two more: rows and
  handlers are of an arrival so far and not of the future (`Bounded`), and memory
  is a sequence within its limit, and empty in the application (`Remembered`).

The final step of each theorem is temporal (`PTL`) and combines `Init => Inv`,
`Inv /\ [Next]_vars => Inv'` and `Inv => P`.

What a queue or memory keeps (`Only` in `Registry`, `KeepOnly` in `EpochBuffer`)
and what a page does to an epoch (`CaughtUp` in `GroupDelivery`) are written
as recursive functions over an interval or by position. A fold or `SelectSeq`
would say the same, but the library has no facts about them that the prover can
use. Induction over such an interval is from a lemma, `Induction`, about a set of
numbers, which follows from the well-foundedness of `<`.

Every invariant and action property of the passing runs is stated by a theorem.
Only model-checked are

* the liveness properties `PendingDrained`, `MemberInTheEnd`, `FirstPageReaches`,
  `HandshakeConcludes`, `CatchesUp` and `Drains`: they need fairness and ENABLED,
  which the prover does not handle;
* the two violations, which are counterexamples and not theorems.

## 5. What is not modelled

* Cryptography: signatures identify their key, a ciphertext is a value nobody
  else makes, HMAC and hash values are what they bind. The MLS library is its
  epochs, spent keys and pending commits.
* The mixnet: messages may be delayed, reordered and lost; reply blocks are
  counted, and used up by replies.
* Parsing and validation decide only whether a request is one that acts. Rate
  limits are in `Registry`; elsewhere a refused request is one more that is lost.
* `shared crates`: `nymstr-crypto` is a copy of the client's MLS code that the
  programs do not run. The transport and discovery traits hold no state.
* Messages that nothing sends, and the branches for them: `keyPackageRequest`,
  `keyPackageResponse`, `groupInvite`, `groupJoinRequest`, `mlsWelcome` and
  `queryPendingUsers` at the group server.
* `init_group` is the initial state of `GroupDelivery`. Run twice, it makes a
  second MLS group; `join_group` run again loses the row's `mls_group_id`.
* The limit of 20 welcomes of one sender, and the look-up of a group by the first
  characters of its address.
* The user interface, configuration, key files as formats, logging.

The compositions of `DmHandshake` with `Relay` and of `GroupMembers` with
`GroupDelivery` are left out for their size: each side appears in the other as
the weakest thing it is proved or checked to be, a set of messages that overtake
each other, and an approval that is answered or fails.

## 6. Where code and documents disagree

Two disagreements have a run that ends in a violation.

* `GroupLogCursor`: "Fetch new messages since a given cursor (message ID)"
  (`nymstr-group/docs/Protocol.md`:245). The cursor is never stored, and a
  member never gets message 101.
* `DmSplit`: "This ensures Alice->Bob and Bob->Alice use the same conversation"
  (`direct`:23). The conversation's id is the same, and its MLS group is not,
  when both write first.

Others have a configuration, kept beside the runs, for `tlc` by hand. Each ends
in a violation, too:

* `RelaySealed.cfg`: sealed messages use `type="sealed"` (server `mu`:2572). One
  that waited in the queue is sent with type `message`, and the client does not
  take it for a sealed one.
* `RelayFailedSend.cfg`: "Delete successfully sent pending messages"
  (`PROTOCOL.md`:345). Rows whose send failed are deleted too.
* `KeyPackagesReplenish.cfg`: "Clients replenish when count drops below 3"
  (`PROTOCOL.md`:152). At a count of one nobody is told.
* `GroupMembersSuccess.cfg`: success is "User approved and moved to active
  members" (`nymstr-group/docs/Protocol.md`:188). It is answered also when the
  group has no row yet and the membership could not be inserted.
* `GroupApprove.cfg`: `approve_member` "Adds the user to the local MLS group"
  (`groups`:893). It sends the approval and looks for the receiver then; where
  the receive loop has it, which is from the login on, the command ends with an
  error (`groups`:955) and the loop only logs the answer. The user is a member at
  the server, and is never added, without any fault.
* `GroupWelcome.cfg`: `wait_for_approval_response` (`groups`:1007) takes the
  first answer to an approval, which does not say whose it is. With a second
  approval on its way, or after a wait that was given up, the admin adds one user
  and stores the welcome under the name of another.
* `SessionKey.cfg`: a "registered" reply is taken by a later attempt, whose key
  is then stored and is not the one at the server.
* `SessionReader.cfg`: "This is handled by BackgroundTasks which will detect the new
  rx" (`monitor`:119). Nothing reads the receiver that the monitor leaves in the
  state.

Those that were met on the way and have neither:

* `PROTOCOL.md`:10, "the server persists every relayed message": a message that
  is relayed live is not stored (server `mu`:2523-2541).
* server `db`:358, "Call periodically": nothing calls the clean-up of expired
  messages; expired rows stay, and are not selected.
* `PROTOCOL.md`:163, difficulty "+2 per KP below 3": the code adds
  `(4 - count) * 2` up to a count of 3.
* `PROTOCOL.md`:181, the last package is never given out: true of the DELETE
  (`LastRowKept`), but the row that stays may already be about to expire.
* `PROTOCOL.md`:183, a challenge is valid for 5 minutes: the previous window is
  accepted too, so that it is up to just under 10 (`ChallengeAge`).
* `PROTOCOL.md`:361 has `registrationResponse` rate limited; register, login and
  ping are.
* `nymstr-group/docs/Protocol.md`:138, "user already registered":
  `add_pending_user` looks only at the pending users, so that a registered user
  is taken as pending again; the approval then fails (`KeyStable` holds).
* group `mu`:702: a stop between `add_user` and `create_group` leaves a group
  whose admin cannot register again and that never gets its row.
* group `mu`:1023: the hash is recorded before the message is stored. When the
  store fails, the sender's next attempt is refused as a duplicate for 600 s.
* server `mu`:861: a failed look-up of a group counts as "no such group", so that
  a challenge is given without comparing the keys, and whoever answers it sets the
  address of a group of any age (`mu`:949 looks the row up again, and not at its
  key). `RaceEnds` is about the other challenges.
* "Continue - MLS can be initialized later if needed" (`auth`:260): nothing
  initializes it until the next login. A user whose MLS client could not be made
  is logged in and heard, and direct messages cannot be decrypted.
* group `db`:118, "prevents replay": a hash is kept for 600 s.
* `PROTOCOL.md`:243, "retries with backoff": no send is retried.
* `direct`:607 speaks of a refused welcome; nothing sends `accepted = false`, and
  nothing ends a handshake whose acknowledgement is lost: the `pending_outreach`
  of `messaging`:153 is never read.
* `accept_contact_request` drains nothing: what its user had written before stays
  pending (`NoneStranded` excepts it). A denied request comes back with the next
  welcome, by INSERT OR REPLACE; `MarkAccepted` marks whichever request is there.
* A contact added by hand without a known key has the empty key, with which no
  signature verifies: everything that user sends is dropped.
* `app/docs/components/CRYPTO.md`, epoch-aware buffering for 5 minutes: the part the
  application runs gives up after 10 retries of 5 s (`bp`). The manager with the
  five minutes is not constructed, and its pass drops the text of what it opens.
* The commit of `approve_member` is encoded twice, so that no member can read it
  from a `syncEpochResponse` (`CatchesUp` has `CutOff`); the application's own
  group ids do not pass `is_valid_group_id`; nothing fetches a welcome.
* `leave_group` tells neither the server nor the MLS group.
* A registration writes its key files before it knows whether the name is free,
  over those of an earlier one; a ping that fails clears the keys of whoever is
  logged in.

## 7. Plan

Done, in this order: `Relay` with `Mailbox`, `KeyPackages`, `GroupMembers`,
`GroupLog` with `Broadcast`, each with its proofs; then `DmHandshake` with `Conversation`,
`EpochBuffer`, `GroupDelivery`, `Registry`, `Session`, and the proofs for
`Session` with `Registry`, `DmHandshake`, `EpochBuffer` and `GroupDelivery`, up to
every invariant and action property that a run checks.

To come:

* `DmHandshake` over `Relay` instead of a set of messages, and `GroupMembers`
  with `GroupDelivery`, each for one user more than it has now.
* The wait for the pong together with the drain of the ping (the hazard that has
  no property), and two clients that fetch key packages of one user.
