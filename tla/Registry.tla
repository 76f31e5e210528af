------------------------------ MODULE Registry ------------------------------
(***************************************************************************)
(* The discovery server's registration, login, query and group registry    *)
(* (nymstr-server/src/message_utils.rs, db_utils.rs), with the clients that *)
(* talk to it: peers, who know their one key, and group servers, which      *)
(* register a group with theirs.  The desktop application is added by       *)
(* module Session.                                                          *)
(*                                                                          *)
(* The server handles one message at a time, so that a handler is one       *)
(* action.  A session is known by its sender tag.  A challenge is a nonce,  *)
(* here the number of the request that asked for it; a signature is the     *)
(* pair of nonce and key.  The server knows two formats, "unified" and      *)
(* "legacy": they share the pending maps, and a reply has the format of its *)
(* request.  Each statement of the database may fail.                       *)
(***************************************************************************)
EXTENDS Naturals, Sequences

CONSTANTS
  PeerTags,    \* sender tags of the peers; a peer's key is its tag
  GroupTags,   \* sender tags of the group servers; likewise
  AppTags,     \* sender tags of the application's connections
  LegacyTags,  \* the peers that speak the legacy format
  Names,       \* user names
  Gids,        \* group ids
  AppKeys,     \* the keys the application generates
  Limit,       \* requests a session may make within Window ticks
  Window,
  TTL,         \* ticks a challenge lives
  MaxAsks,     \* bound: requests that ask for something
  MaxPeerAsks, \* bound: peers and group servers ask only among the first so many
  MaxTime      \* bound: ticks

Tags  == PeerTags \cup GroupTags \cup AppTags
Keys  == PeerTags \cup GroupTags \cup AppKeys
NoKey == 0
Asks  == 1..MaxAsks

ASSUME RegistryAssumption ==
  /\ PeerTags \subseteq Nat \ {0} /\ GroupTags \subseteq Nat \ {0}
  /\ AppTags \subseteq Nat \ {0} /\ AppKeys \subseteq Nat \ {0}
  /\ (PeerTags \cup GroupTags) \cap (AppTags \cup AppKeys) = {}
  /\ LegacyTags \subseteq PeerTags
  /\ Limit \in Nat \ {0} /\ Window \in Nat \ {0} /\ TTL \in Nat \ {0}
  /\ MaxAsks \in Nat /\ MaxPeerAsks \in Nat /\ MaxTime \in Nat

VARIABLES
  users,     \* users[n]: the key of the user's row, NoKey without one
  groups,    \* rows of the groups table
  pending,   \* entries of pending_users, nonces and pending_groups
  attempts,  \* attempts[t]: the ages of the attempts the rate limiter holds
  net,       \* messages on their way
  asks,      \* how many requests were sent
  now,       \* ticks so far
  told       \* history: names with the keys the server vouched for

registryVars == <<users, groups, pending, attempts, net, asks, now, told>>

Init ==
  /\ users = [n \in Names |-> NoKey]
  /\ groups = {}
  /\ pending = {}
  /\ attempts = [t \in Tags |-> <<>>]
  /\ net = {}
  /\ asks = 0
  /\ now = 0
  /\ told = {}

-----------------------------------------------------------------------------
(* Messages.  "what" is the action of the envelope; "nonce" of a request is  *)
(* its number, of an answer the challenge it signs.                          *)

FormOf(t) == IF t \in LegacyTags \cup GroupTags THEN "legacy" ELSE "unified"

Request(t, what, name, key) ==
  [to |-> 0, from |-> t, what |-> what, name |-> name, key |-> key,
   nonce |-> asks + 1, form |-> FormOf(t)]

Answer(t, what, nonce, key) ==
  [to |-> 0, from |-> t, what |-> what, name |-> 0, key |-> key,
   nonce |-> nonce, form |-> FormOf(t)]

\* A reply.  nonce and name say which request it belongs to; a client cannot
\* read that from a result, only from a challenge.
ReplyTo(m, what, nonce, name) ==
  [to |-> m.from, from |-> 0, what |-> what, name |-> name, key |-> NoKey,
   nonce |-> nonce, form |-> m.form]

\* Replies to peers and group servers matter only as challenges.
Heard(r) == r.to \in AppTags \/ r.what \in {"challenge", "loginChallenge", "groupChallenge"}

Replied(m, what, nonce, name) ==
  LET r == ReplyTo(m, what, nonce, name)
  IN  net' = (net \ {m}) \cup (IF Heard(r) THEN {r} ELSE {})

EncapsulatedReply(m, what, nonce, name) ==
  m.form = "legacy" /\ Replied(m, what, nonce, name)

UnifiedReply(m, what, nonce, name) ==
  m.form = "unified" /\ Replied(m, what, nonce, name)

Reply(m, what, nonce, name) ==
  \/ EncapsulatedReply(m, what, nonce, name)
  \/ UnifiedReply(m, what, nonce, name)

-----------------------------------------------------------------------------
(* Pending entries and the rate limiter.  "checked" is history: FALSE when   *)
(* the look-up before the challenge failed and hid a row with another key.   *)

Entry(map, m, key, checked) ==
  [map |-> map, tag |-> m.from, name |-> m.name, key |-> key,
   nonce |-> m.nonce, age |-> 0, checked |-> checked]

\* Faulty: nothing expires.
FreshNever == pending

\* Every message that arrives first drops the entries that are too old.
Fresh == {e \in pending : e.age < TTL}

EntriesOf(map, t) == {e \in Fresh : e.map = map /\ e.tag = t}

\* A session has one entry in each map: a new one replaces it.
Insert(map, m, key, checked) ==
  pending' = (Fresh \ EntriesOf(map, m.from)) \cup {Entry(map, m, key, checked)}

Remove(map, t) == pending' = Fresh \ EntriesOf(map, t)

\* The elements of s at the places in keep, in their order.
Only(s, keep) ==
  LET upTo[i \in 0 .. Len(s)] ==
        IF i = 0 THEN <<>>
        ELSE IF i \in keep THEN Append(upTo[i - 1], s[i]) ELSE upTo[i - 1]
  IN  upTo[Len(s)]

Recent(t) == Only(attempts[t], {i \in DOMAIN attempts[t] : attempts[t][i] < Window})

Limited(t) == Len(Recent(t)) >= Limit

\* Faulty: an attempt that is refused counts, too.
RecordAlways(t) == attempts' = [attempts EXCEPT ![t] = Append(Recent(t), 0)]

\* check_and_record: an attempt that is refused is not recorded.
Record(t) ==
  attempts' = [attempts EXCEPT ![t] =
                 IF Limited(t) THEN Recent(t) ELSE Append(Recent(t), 0)]

\* A signature is good for the key and the nonce of the entry, both.
Verified(e, m) == e.key = m.key /\ e.nonce = m.nonce

-----------------------------------------------------------------------------
(* Registration, login, query.                                              *)

Registered(n) == users[n] # NoKey

\* Faulty: INSERT OR REPLACE.
AddUserReplacing(e) == users' = [users EXCEPT ![e.name] = e.key]

\* INSERT INTO users: refused when the name has a row.
AddUser(e) ==
  /\ ~Registered(e.name)
  /\ users' = [users EXCEPT ![e.name] = e.key]

Arrives(m, what) == m \in net /\ m.what = what

\* When the look-up fails, the legacy handler refuses, too.
RegisterRefused(m) ==
  /\ Limited(m.from) \/ Registered(m.name) \/ m.form = "legacy"
  /\ pending' = Fresh
  /\ Reply(m, "refused", m.nonce, m.name)

\* When it fails, the unified handler goes on as if there were no such user.
RegisterChallenged(m) ==
  /\ ~Limited(m.from)
  /\ Registered(m.name) => m.form = "unified"
  /\ Insert("users", m, m.key, TRUE)
  /\ Reply(m, "challenge", m.nonce, m.name)

HandleRegister(m) ==
  /\ Arrives(m, "register")
  /\ Record(m.from)
  /\ RegisterRefused(m) \/ RegisterChallenged(m)
  /\ UNCHANGED <<users, groups, asks, now, told>>

\* The entry is used up, whatever the signature is.
RegistrationFails(m) ==
  /\ \A e \in EntriesOf("users", m.from) : ~Verified(e, m)
  /\ Reply(m, "refused", m.nonce, 0)
  /\ UNCHANGED <<users, told>>

RegistrationVerified(m) ==
  \E e \in EntriesOf("users", m.from) :
    /\ Verified(e, m)
    /\ \/ /\ AddUser(e)
          /\ Reply(m, "registered", e.nonce, e.name)
          /\ told' = told \cup {<<e.name, e.key>>}
       \/ /\ Reply(m, "refused", e.nonce, e.name)
          /\ UNCHANGED <<users, told>>

HandleRegistrationResponse(m) ==
  /\ Arrives(m, "registrationResponse")
  /\ Remove("users", m.from)
  /\ RegistrationFails(m) \/ RegistrationVerified(m)
  /\ UNCHANGED <<groups, attempts, asks, now>>

\* Too often, no such user, or the look-up fails.
LoginRefused(m) ==
  /\ pending' = Fresh
  /\ Reply(m, "refused", m.nonce, m.name)

\* Challenged with the key of the row.
LoginChallenged(m) ==
  /\ ~Limited(m.from) /\ Registered(m.name)
  /\ Insert("nonces", m, users[m.name], TRUE)
  /\ Reply(m, "loginChallenge", m.nonce, m.name)

HandleLogin(m) ==
  /\ Arrives(m, "login")
  /\ Record(m.from)
  /\ LoginRefused(m) \/ LoginChallenged(m)
  /\ UNCHANGED <<users, groups, asks, now, told>>

LoginFails(m) ==
  /\ \A e \in EntriesOf("nonces", m.from) : ~Verified(e, m)
  /\ Reply(m, "refused", m.nonce, 0)
  /\ told' = told

\* Success moves the user's session (the senderTag column, see Relay).
LoginVerified(m) ==
  /\ \E e \in EntriesOf("nonces", m.from) :
       /\ Verified(e, m)
       /\ told' = told \cup {<<e.name, m.key>>}
  /\ Reply(m, "loggedIn", m.nonce, 0)

HandleLoginResponse(m) ==
  /\ Arrives(m, "loginResponse")
  /\ Remove("nonces", m.from)
  /\ LoginFails(m) \/ LoginVerified(m)
  /\ UNCHANGED <<users, groups, attempts, asks, now>>

\* A ping is signed by itself; it is refused when it comes too often, when the
\* signature is not the user's, or when the look-up fails.  What it drains is
\* in Relay.
HandlePing(m) ==
  /\ Arrives(m, "ping")
  /\ Record(m.from)
  /\ pending' = Fresh
  /\ \/ /\ ~Limited(m.from) /\ Registered(m.name) /\ users[m.name] = m.key
        /\ Reply(m, "pong", m.nonce, m.name)
     \/ Reply(m, "pongRefused", m.nonce, m.name)
  /\ UNCHANGED <<users, groups, asks, now, told>>

\* The server vouches for the key of the user's row; it says "not found" when
\* the look-up fails.
Vouched(n) == IF Registered(n) THEN {<<n, users[n]>>} ELSE {}

HandleQuery(m) ==
  /\ Arrives(m, "query")
  /\ pending' = Fresh
  /\ net' = net \ {m}
  /\ told' \in {told, told \cup Vouched(m.name)}
  /\ UNCHANGED <<users, groups, attempts, asks, now>>

-----------------------------------------------------------------------------
(* The group registry.  A row keeps the key it was added with; "by" is the   *)
(* key that last set its address, "age" how long ago it was added, and       *)
(* "raced" the age at which another key last set the address, although the   *)
(* key had been compared when that challenge was given.                      *)

RowsOf(gid) == {g \in groups : g.gid = gid}

OtherKey(gid, key) == \E g \in RowsOf(gid) : g.key # key

\* The key of a row that is found must be the group server's.  When the look-up
\* fails nothing is compared, and the challenge is given all the same.
HandleRegisterGroup(m) ==
  /\ Arrives(m, "registerGroup")
  /\ \/ /\ OtherKey(m.name, m.key)
        /\ pending' = Fresh
        /\ Reply(m, "refused", m.nonce, m.name)
     \/ /\ Insert("groups", m, m.key, ~OtherKey(m.name, m.key))
        /\ Reply(m, "groupChallenge", m.nonce, m.name)
  /\ UNCHANGED <<users, groups, attempts, asks, now, told>>

AddGroup(e) == groups' = groups \cup {[gid |-> e.name, key |-> e.key, by |-> e.key,
                                       age |-> 0, raced |-> 0]}

\* UPDATE groups SET nymAddress: the key of the row is not looked at again.
UpdateGroupAddress(e) ==
  groups' = {IF g.gid # e.name THEN g
             ELSE [g EXCEPT !.by = e.key,
                            !.raced = IF e.key # g.key /\ e.checked THEN g.age ELSE @]
               : g \in groups}

\* Not verified, or a statement fails: an INSERT does, when the look-up before
\* it failed and hid the row.
HandleRegisterGroupResponse(m) ==
  /\ Arrives(m, "registerGroupResponse")
  /\ Remove("groups", m.from)
  /\ \/ /\ \E e \in EntriesOf("groups", m.from) :
             /\ Verified(e, m)
             /\ IF RowsOf(e.name) = {} THEN AddGroup(e) ELSE UpdateGroupAddress(e)
        /\ Reply(m, "groupRegistered", m.nonce, 0)
     \/ /\ Reply(m, "refused", m.nonce, 0)
        /\ groups' = groups
  /\ UNCHANGED <<users, attempts, asks, now, told>>

-----------------------------------------------------------------------------
(* The clients of the server, and time.                                     *)

Sends(m) == net' = net \cup {m} /\ asks' = asks + 1 /\ asks < MaxAsks

PeerAsks(t) ==
  /\ asks < MaxPeerAsks
  /\ \E what \in {"register", "login", "query"}, n \in Names :
       Sends(Request(t, what, n, t))
  /\ UNCHANGED <<users, groups, pending, attempts, now, told>>

\* A peer answers any challenge it gets.
PeerAnswers(t) ==
  \E m \in net :
    /\ m.to = t
    /\ \/ /\ m.what = "challenge"
          /\ net' = (net \ {m}) \cup {Answer(t, "registrationResponse", m.nonce, t)}
       \/ /\ m.what = "loginChallenge"
          /\ net' = (net \ {m}) \cup {Answer(t, "loginResponse", m.nonce, t)}
    /\ UNCHANGED <<users, groups, pending, attempts, asks, now, told>>

\* groupd --register: asks, waits for a challenge, answers; after a time-out
\* it may be started again.
GroupServerAsks(t) ==
  /\ asks < MaxPeerAsks
  /\ \E gid \in Gids : Sends(Request(t, "registerGroup", gid, t))
  /\ UNCHANGED <<users, groups, pending, attempts, now, told>>

GroupServerAnswers(t) ==
  \E m \in net :
    /\ m.to = t /\ m.what = "groupChallenge"
    /\ net' = (net \ {m}) \cup {Answer(t, "registerGroupResponse", m.nonce, t)}
    /\ UNCHANGED <<users, groups, pending, attempts, asks, now, told>>

Older(age, bound) == IF age < bound THEN age + 1 ELSE age

\* Time matters only while the server has something that ages.
Tick ==
  /\ now < MaxTime
  /\ pending # {} \/ groups # {} \/ \E t \in Tags : attempts[t] # <<>>
  /\ now' = now + 1
  /\ pending' = {[e EXCEPT !.age = Older(@, TTL)] : e \in pending}
  /\ groups' = {[g EXCEPT !.age = Older(@, TTL)] : g \in groups}
  /\ attempts' = [t \in Tags |-> [i \in DOMAIN attempts[t] |-> Older(attempts[t][i], Window)]]
  /\ UNCHANGED <<users, net, asks, told>>

Server ==
  \E m \in net :
    \/ HandleRegister(m) \/ HandleRegistrationResponse(m)
    \/ HandleLogin(m) \/ HandleLoginResponse(m)
    \/ HandlePing(m) \/ HandleQuery(m)
    \/ HandleRegisterGroup(m) \/ HandleRegisterGroupResponse(m)

Peers ==
  \/ \E t \in PeerTags : PeerAsks(t) \/ PeerAnswers(t)
  \/ \E t \in GroupTags : GroupServerAsks(t) \/ GroupServerAnswers(t)

Next == Server \/ Peers \/ Tick

Spec == Init /\ [][Next]_registryVars

-----------------------------------------------------------------------------
Requests == {"register", "registrationResponse", "login", "loginResponse", "ping", "query",
             "registerGroup", "registerGroupResponse"}
Replies  == {"refused", "challenge", "registered", "loginChallenge", "loggedIn",
             "pong", "pongRefused", "groupChallenge", "groupRegistered"}

Messages ==
  [to : Tags \cup {0}, from : Tags \cup {0}, what : Requests \cup Replies, name : Names \cup Gids \cup {0},
   key : Keys \cup {NoKey}, nonce : Asks, form : {"legacy", "unified"}]

RegistryTypeOK ==
  /\ users \in [Names -> Keys \cup {NoKey}]
  /\ \A g \in groups : /\ g.gid \in Gids /\ g.key \in Keys /\ g.by \in Keys
                       /\ g.age \in 0..TTL /\ g.raced \in 0..TTL
  /\ \A e \in pending : /\ e.map \in {"users", "nonces", "groups"} /\ e.tag \in Tags
                        /\ e.name \in Names \cup Gids /\ e.key \in Keys
                        /\ e.nonce \in Asks /\ e.age \in 0..TTL /\ e.checked \in BOOLEAN
  /\ \A e, f \in pending : e.map = f.map /\ e.tag = f.tag => e = f
  /\ attempts \in [Tags -> Seq(0..Window)]
  /\ \A t \in Tags : Len(attempts[t]) <= Limit
  /\ net \subseteq Messages
  /\ asks \in 0..MaxAsks /\ now \in 0..MaxTime
  /\ told \subseteq Names \X Keys

\* What the server has said of a name stays so: whoever was told that a
\* registration or a login succeeded, or which key a user has, was told the
\* key the name has, however many sessions registered it at once.
ToldStands == \A p \in told : users[p[1]] = p[2]

\* Two group servers with different keys may race for one group id, since the
\* key is checked when the challenge is given and the address is written when
\* it is answered.  The race ends with the life of a challenge: in a group that
\* was there for that long, no challenge lets another key set the address that
\* was given after the key had been compared.  (One given after a failed look-up
\* does, at any age of the group.)
RaceEnds == \A g \in groups : g.raced < TTL
=============================================================================
