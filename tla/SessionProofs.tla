---------------------------- MODULE SessionProofs ----------------------------
(***************************************************************************)
(* Proofs about Registry, and about Session, which adds the application:   *)
(* for any number of peers, group servers, names, group ids, connections   *)
(* and requests, and any limits and lives.                                 *)
(***************************************************************************)
EXTENDS Session, WellFoundedInduction, TLAPS

\* What only a client sends.
Asking == {"register", "login", "query", "ping"}

\* A request is about a user name, and registers a key.
NetSound ==
  \A m \in net : /\ m.what \in Asking => m.name \in Names
                 /\ m.what = "register" => m.key \in Keys

\* A challenge for a registration is for a key, and one for a login for the
\* key of the name's row, which stays.
ChallengesSound ==
  \A e \in pending :
    /\ e.map = "users" => e.name \in Names /\ e.key \in Keys
    /\ e.map = "nonces" => e.name \in Names /\ e.key \in Keys /\ users[e.name] = e.key

\* Entries and rows have their fields.
EntryRecord(e) == [map |-> e.map, tag |-> e.tag, name |-> e.name, key |-> e.key,
                   nonce |-> e.nonce, age |-> e.age, checked |-> e.checked]
RowRecord(g)   == [gid |-> g.gid, key |-> g.key, by |-> g.by, age |-> g.age, raced |-> g.raced]

ToldSound == \A p \in told : p[1] \in Names /\ p[2] # NoKey

AgesSound ==
  /\ \A e \in pending : e.age \in 0..TTL /\ e = EntryRecord(e)
  /\ \A g \in groups : g.age \in 0..TTL /\ g.raced \in 0..TTL /\ g = RowRecord(g)

\* A challenge for another key than the row's is older than the row, if the key
\* was compared.
RaceSound ==
  \A e \in pending, g \in groups :
    e.map = "groups" /\ e.checked /\ e.name = g.gid /\ e.key # g.key => g.age <= e.age

\* The inductive invariant of the server.
RegistryInv ==
  /\ users \in [Names -> Keys \cup {NoKey}]
  /\ asks \in Nat
  /\ NetSound /\ ChallengesSound /\ ToldSound /\ AgesSound /\ RaceSound
  /\ ToldStands /\ RaceEnds

\* The command is a record of these fields.
CommandShape ==
  cmd = [op |-> cmd.op, name |-> cmd.name, key |-> cmd.key, conn |-> cmd.conn, rx |-> cmd.rx]

\* As long as nothing was given up and the connection stayed, the receiver is
\* that of the connection and in one place, and who is logged in has no other.
Holding ==
  ~late /\ ~moved =>
    /\ rx # None => rx = svc
    /\ cmd.rx # None => cmd.rx = svc /\ rx = None
    /\ user # None => rx = None /\ cmd.rx = None
    /\ user = None => mls = None
    /\ cmd.op = "none" => cmd.rx = None
    /\ user # None => loop = svc /\ svc # None /\ mls \in {user, None}

-----------------------------------------------------------------------------
(* The server. *)

LEMMA NoKeyIsNone == NoKey \notin Keys
  BY RegistryAssumption DEF Keys, NoKey

\* A reply asks for nothing.
LEMMA ReplySound ==
    ASSUME NetSound, NEW m \in net, NEW what, NEW nonce, NEW name,
           what \notin Asking, Reply(m, what, nonce, name)
    PROVE  NetSound'
  <1> DEFINE r == ReplyTo(m, what, nonce, name)
  <1>1. r.what = what /\ "register" \in Asking
    BY DEF ReplyTo, Asking
  <1>2. net' \subseteq net \cup {r}
    BY DEF Reply, EncapsulatedReply, UnifiedReply, Replied
  <1> QED
    BY <1>1, <1>2 DEF NetSound

\* Dropping what is too old keeps what is known of the entries.
LEMMA FreshSound ==
    ASSUME RegistryInv
    PROVE  /\ Fresh \subseteq pending
           /\ \A e \in Fresh : e.age < TTL
  BY DEF Fresh

\* A step that changes no row and keeps only entries it had.
LEMMA FewerEntries ==
    ASSUME RegistryInv, NetSound', pending' \subseteq pending,
           UNCHANGED <<users, groups, asks, told>>
    PROVE  RegistryInv'
  BY DEF RegistryInv, ChallengesSound, ToldSound, AgesSound, RaceSound,
         ToldStands, RaceEnds

LEMMA RegisterStep ==
    ASSUME RegistryInv, NEW m \in net, HandleRegister(m)
    PROVE  RegistryInv'
  <1>1. NetSound' /\ m.name \in Names /\ m.key \in Keys
    <2>1. m.what = "register" /\ m.what \in Asking
      BY DEF HandleRegister, Arrives, Asking
    <2>2. "refused" \notin Asking /\ "challenge" \notin Asking
      BY DEF Asking
    <2> QED
      BY <2>1, <2>2, ReplySound
      DEF RegistryInv, NetSound, HandleRegister, RegisterRefused, RegisterChallenged
  <1>2. CASE RegisterRefused(m)
    BY <1>1, <1>2, FreshSound, FewerEntries DEF HandleRegister, RegisterRefused
  <1>3. CASE RegisterChallenged(m)
    <2>1. pending' \subseteq pending \cup {Entry("users", m, m.key, TRUE)}
      BY <1>3, FreshSound DEF RegisterChallenged, Insert
    <2>2. UNCHANGED <<users, groups, asks, told>>
      BY DEF HandleRegister
    <2>3. /\ Entry("users", m, m.key, TRUE).map = "users" /\ Entry("users", m, m.key, TRUE).age = 0
          /\ Entry("users", m, m.key, TRUE).name = m.name /\ Entry("users", m, m.key, TRUE).key = m.key
          /\ Entry("users", m, m.key, TRUE) = EntryRecord(Entry("users", m, m.key, TRUE))
      BY DEF Entry, EntryRecord
    <2>4. 0 \in 0..TTL
      BY RegistryAssumption
    <2>5. ChallengesSound'
      BY <1>1, <2>1, <2>2, <2>3 DEF RegistryInv, ChallengesSound
    <2>6. AgesSound'
      BY <2>1, <2>2, <2>3, <2>4 DEF RegistryInv, AgesSound
    <2>7. RaceSound'
      BY <2>1, <2>2, <2>3 DEF RegistryInv, RaceSound
    <2> QED
      BY <1>1, <2>2, <2>5, <2>6, <2>7 DEF RegistryInv, ToldSound, ToldStands, RaceEnds
  <1> QED
    BY <1>2, <1>3 DEF HandleRegister

\* A verified registration writes a row only where there was none.
LEMMA VerifiedStep ==
    ASSUME RegistryInv, NEW m \in net, RegistrationVerified(m), NetSound',
           pending' \subseteq pending, UNCHANGED <<groups, asks>>
    PROVE  RegistryInv'
  <1>1. PICK e \in EntriesOf("users", m.from) :
          \/ AddUser(e) /\ told' = told \cup {<<e.name, e.key>>}
          \/ UNCHANGED <<users, told>>
    BY DEF RegistrationVerified
  <1>2. e \in pending /\ e.name \in Names /\ e.key \in Keys /\ e.key # NoKey
    BY NoKeyIsNone DEF EntriesOf, Fresh, RegistryInv, ChallengesSound
  <1>3. users' \in [Names -> Keys \cup {NoKey}]
    BY <1>1, <1>2 DEF AddUser, RegistryInv
  <1>4. \A n \in Names : users[n] # NoKey => users'[n] = users[n]
    BY <1>1, <1>2 DEF AddUser, Registered, RegistryInv
  <1>5. ChallengesSound'
    BY <1>4, NoKeyIsNone DEF RegistryInv, ChallengesSound
  <1>6. ToldSound' /\ ToldStands'
    BY <1>1, <1>2, <1>4 DEF AddUser, RegistryInv, ToldSound, ToldStands
  <1> QED
    BY <1>3, <1>5, <1>6 DEF RegistryInv, AgesSound, RaceSound, RaceEnds

LEMMA RegistrationResponseStep ==
    ASSUME RegistryInv, NEW m \in net, HandleRegistrationResponse(m)
    PROVE  RegistryInv'
  <1>1. pending' \subseteq pending
    BY FreshSound DEF HandleRegistrationResponse, Remove
  <1>2. "refused" \notin Asking /\ "registered" \notin Asking
    BY DEF Asking
  <1>3. CASE RegistrationFails(m)
    <2>1. NetSound'
      BY <1>2, <1>3, ReplySound DEF RegistryInv, RegistrationFails
    <2> QED
      BY <1>1, <1>3, <2>1, FewerEntries DEF HandleRegistrationResponse, RegistrationFails
  <1>4. CASE RegistrationVerified(m)
    <2>1. NetSound'
      BY <1>2, <1>4, ReplySound DEF RegistryInv, RegistrationVerified
    <2> QED
      BY <1>1, <1>4, <2>1, VerifiedStep DEF HandleRegistrationResponse
  <1> QED
    BY <1>3, <1>4 DEF HandleRegistrationResponse

LEMMA LoginStep ==
    ASSUME RegistryInv, NEW m \in net, HandleLogin(m)
    PROVE  RegistryInv'
  <1>1. NetSound' /\ m.name \in Names
    <2>1. m.what \in Asking
      BY DEF HandleLogin, Arrives, Asking
    <2>2. "refused" \notin Asking /\ "loginChallenge" \notin Asking
      BY DEF Asking
    <2> QED
      BY <2>1, <2>2, ReplySound
      DEF RegistryInv, NetSound, HandleLogin, LoginRefused, LoginChallenged
  <1>2. CASE LoginRefused(m)
    BY <1>1, <1>2, FreshSound, FewerEntries DEF HandleLogin, LoginRefused
  <1>3. CASE LoginChallenged(m)
    <2> DEFINE e == Entry("nonces", m, users[m.name], TRUE)
    <2>1. pending' \subseteq pending \cup {e}
      BY <1>3, FreshSound DEF LoginChallenged, Insert
    <2>2. UNCHANGED <<users, groups, asks, told>>
      BY DEF HandleLogin
    <2>3. users[m.name] \in Keys
      BY <1>1, <1>3 DEF LoginChallenged, Registered, RegistryInv
    <2>4. /\ e.map = "nonces" /\ e.age = 0 /\ e.name = m.name
          /\ e.key = users[m.name] /\ e = EntryRecord(e)
      BY DEF Entry, EntryRecord
    <2>5. 0 \in 0..TTL
      BY RegistryAssumption
    <2> HIDE DEF e
    <2>6. ChallengesSound'
      BY <1>1, <2>1, <2>2, <2>3, <2>4 DEF RegistryInv, ChallengesSound
    <2>7. AgesSound'
      BY <2>1, <2>2, <2>4, <2>5 DEF RegistryInv, AgesSound
    <2>8. RaceSound'
      BY <2>1, <2>2, <2>4 DEF RegistryInv, RaceSound
    <2> QED
      BY <1>1, <2>2, <2>6, <2>7, <2>8 DEF RegistryInv, ToldSound, ToldStands, RaceEnds
  <1> QED
    BY <1>2, <1>3 DEF HandleLogin

LEMMA LoginResponseStep ==
    ASSUME RegistryInv, NEW m \in net, HandleLoginResponse(m)
    PROVE  RegistryInv'
  <1>1. pending' \subseteq pending /\ UNCHANGED <<users, groups, asks>>
    BY FreshSound DEF HandleLoginResponse, Remove
  <1>2. NetSound'
    <2>1. "refused" \notin Asking /\ "loggedIn" \notin Asking
      BY DEF Asking
    <2> QED
      BY <2>1, ReplySound DEF RegistryInv, HandleLoginResponse, LoginFails, LoginVerified
  <1>3. CASE told' = told
    BY <1>1, <1>2, <1>3, FewerEntries
  <1>4. CASE LoginVerified(m)
    <2>1. PICK e \in EntriesOf("nonces", m.from) :
            e.key = m.key /\ told' = told \cup {<<e.name, m.key>>}
      BY <1>4 DEF LoginVerified, Verified
    <2>2. e.name \in Names /\ m.key # NoKey /\ users[e.name] = m.key
      BY <2>1, NoKeyIsNone DEF EntriesOf, Fresh, RegistryInv, ChallengesSound
    <2>3. ToldSound' /\ ToldStands'
      BY <1>1, <2>1, <2>2 DEF RegistryInv, ToldSound, ToldStands
    <2> QED
      BY <1>1, <1>2, <2>3
      DEF RegistryInv, ChallengesSound, AgesSound, RaceSound, RaceEnds
  <1> QED
    BY <1>3, <1>4 DEF HandleLoginResponse, LoginFails

LEMMA PingStep ==
    ASSUME RegistryInv, NEW m \in net, HandlePing(m)
    PROVE  RegistryInv'
  <1>1. "pong" \notin Asking /\ "pongRefused" \notin Asking
    BY DEF Asking
  <1>2. NetSound'
    BY <1>1, ReplySound DEF RegistryInv, HandlePing
  <1> QED
    BY <1>2, FreshSound, FewerEntries DEF HandlePing

LEMMA QueryStep ==
    ASSUME RegistryInv, NEW m \in net, HandleQuery(m)
    PROVE  RegistryInv'
  <1>1. pending' \subseteq pending /\ UNCHANGED <<users, groups, asks>>
    BY FreshSound DEF HandleQuery
  <1>2. NetSound' /\ m.name \in Names
    BY DEF RegistryInv, NetSound, HandleQuery, Arrives, Asking
  <1>3. ToldSound' /\ ToldStands'
    BY <1>1, <1>2
    DEF RegistryInv, ToldSound, ToldStands, HandleQuery, Vouched, Registered
  <1> QED
    BY <1>1, <1>2, <1>3 DEF RegistryInv, ChallengesSound, AgesSound, RaceSound, RaceEnds

LEMMA RegisterGroupStep ==
    ASSUME RegistryInv, NEW m \in net, HandleRegisterGroup(m)
    PROVE  RegistryInv'
  <1>1. UNCHANGED <<users, groups, asks, told>>
    BY DEF HandleRegisterGroup
  <1>2. NetSound'
    <2>1. "refused" \notin Asking /\ "groupChallenge" \notin Asking
      BY DEF Asking
    <2> QED
      BY <2>1, ReplySound DEF RegistryInv, HandleRegisterGroup
  <1>3. CASE pending' = Fresh
    BY <1>1, <1>2, <1>3, FreshSound, FewerEntries
  <1>4. CASE Insert("groups", m, m.key, ~OtherKey(m.name, m.key))
    <2> DEFINE e == Entry("groups", m, m.key, ~OtherKey(m.name, m.key))
    <2>1. pending' \subseteq pending \cup {e}
      BY <1>4, FreshSound DEF Insert
    <2>2. /\ e.map = "groups" /\ e.age = 0 /\ e.name = m.name /\ e.key = m.key
          /\ e.checked = ~OtherKey(m.name, m.key) /\ e = EntryRecord(e)
      BY DEF Entry, EntryRecord
    <2>3. e.checked => \A g \in groups : g.gid = m.name => g.key = m.key
      BY <2>2 DEF OtherKey, RowsOf
    <2>4. 0 \in 0..TTL
      BY RegistryAssumption
    <2> HIDE DEF e
    <2>5. ChallengesSound'
      BY <1>1, <2>1, <2>2 DEF RegistryInv, ChallengesSound
    <2>6. AgesSound'
      BY <1>1, <2>1, <2>2, <2>4 DEF RegistryInv, AgesSound
    <2>7. RaceSound'
      BY <1>1, <2>1, <2>2, <2>3 DEF RegistryInv, RaceSound
    <2> QED
      BY <1>1, <1>2, <2>5, <2>6, <2>7 DEF RegistryInv, ToldSound, ToldStands, RaceEnds
  <1> QED
    BY <1>3, <1>4 DEF HandleRegisterGroup

LEMMA RegisterGroupResponseStep ==
    ASSUME RegistryInv, NEW m \in net, HandleRegisterGroupResponse(m)
    PROVE  RegistryInv'
  <1>1. pending' \subseteq pending /\ UNCHANGED <<users, asks, told>>
    BY FreshSound DEF HandleRegisterGroupResponse, Remove
  <1>2. NetSound'
    <2>1. "refused" \notin Asking /\ "groupRegistered" \notin Asking
      BY DEF Asking
    <2> QED
      BY <2>1, ReplySound DEF RegistryInv, HandleRegisterGroupResponse
  <1>3. CASE groups' = groups
    BY <1>1, <1>2, <1>3, FewerEntries
  <1>4. ASSUME NEW e \in EntriesOf("groups", m.from),
               RowsOf(e.name) = {}, AddGroup(e)
        PROVE  RegistryInv'
    <2> DEFINE g == [gid |-> e.name, key |-> e.key, by |-> e.key, age |-> 0, raced |-> 0]
    <2>1. groups' = groups \cup {g}
      BY <1>4 DEF AddGroup
    <2>2. 0 \in 0..TTL /\ g = RowRecord(g)
      BY RegistryAssumption DEF RowRecord
    <2>3. AgesSound'
      BY <1>1, <2>1, <2>2 DEF RegistryInv, AgesSound
    <2>4. RaceSound'
      BY <1>1, <2>1 DEF RegistryInv, RaceSound, AgesSound
    <2>5. RaceEnds'
      BY <2>1, RegistryAssumption DEF RegistryInv, RaceEnds
    <2> QED
      BY <1>1, <1>2, <2>3, <2>4, <2>5
      DEF RegistryInv, ChallengesSound, ToldSound, ToldStands
  <1>5. ASSUME NEW e \in EntriesOf("groups", m.from), UpdateGroupAddress(e)
        PROVE  RegistryInv'
    <2>1. e \in pending /\ e.map = "groups" /\ e.age < TTL /\ e.age \in Nat
      BY DEF EntriesOf, Fresh, RegistryInv, AgesSound
    <2>2. \A h \in groups' :
            \E g \in groups :
              /\ h.gid = g.gid /\ h.key = g.key /\ h.age = g.age
              /\ h = RowRecord(h)
              /\ \/ h.by = g.by /\ h.raced = g.raced
                 \/ /\ g.gid = e.name /\ h.by = e.key
                    /\ h.raced = IF e.key # g.key /\ e.checked THEN g.age ELSE g.raced
      <3> DEFINE New(g) == [g EXCEPT !.by = e.key,
                                     !.raced = IF e.key # g.key /\ e.checked THEN g.age
                                               ELSE @]
      <3>1. \A g \in groups : g = RowRecord(g)
        BY DEF RegistryInv, AgesSound
      <3>2. \A g \in groups :
              /\ New(g).gid = g.gid /\ New(g).key = g.key /\ New(g).age = g.age
              /\ New(g).by = e.key
              /\ New(g).raced = IF e.key # g.key /\ e.checked THEN g.age ELSE g.raced
              /\ New(g) = RowRecord(New(g))
        <4> TAKE g \in groups
        <4> DEFINE h == New(g)
        <4>1. DOMAIN g = {"gid", "key", "by", "age", "raced"}
          BY <3>1 DEF RowRecord
        <4>2. DOMAIN h = DOMAIN g /\ h = [x \in DOMAIN h |-> h[x]]
          OBVIOUS
        <4>3. /\ h.gid = g.gid /\ h.key = g.key /\ h.age = g.age
              /\ h.by = e.key /\ h.raced = IF e.key # g.key /\ e.checked THEN g.age ELSE g.raced
          BY <4>1
        <4> HIDE DEF h
        <4>4. h = RowRecord(h)
          BY <4>1, <4>2 DEF RowRecord
        <4> QED
          BY <4>3, <4>4 DEF h
      <3>3. groups' = {IF g.gid # e.name THEN g ELSE New(g) : g \in groups}
        BY <1>5 DEF UpdateGroupAddress
      <3> HIDE DEF New
      <3> QED
        BY <3>1, <3>2, <3>3
    <2>3. AgesSound'
      BY <1>1, <2>2 DEF RegistryInv, AgesSound
    <2>4. RaceSound'
      BY <1>1, <2>2 DEF RegistryInv, RaceSound
    <2>5. RaceEnds'
      BY <2>1, <2>2, RegistryAssumption DEF RegistryInv, RaceEnds, RaceSound, AgesSound
    <2> QED
      BY <1>1, <1>2, <2>3, <2>4, <2>5
      DEF RegistryInv, ChallengesSound, ToldSound, ToldStands
  <1> QED
    BY <1>3, <1>4, <1>5 DEF HandleRegisterGroupResponse

LEMMA ServerStep == RegistryInv /\ Server => RegistryInv'
  BY RegisterStep, RegistrationResponseStep, LoginStep, LoginResponseStep,
     PingStep, QueryStep, RegisterGroupStep, RegisterGroupResponseStep
  DEF Server

-----------------------------------------------------------------------------
(* Its clients, and time. *)

\* A message that keeps what is known of the network.
Sound(m) == /\ m.what \in Asking => m.name \in Names
            /\ m.what = "register" => m.key \in Keys

\* Whatever is sent and received, the server knows nothing new.
LEMMA OutsideStep ==
    ASSUME RegistryInv, NEW m, Sound(m), net' \subseteq net \cup {m}, asks' \in Nat,
           UNCHANGED <<users, groups, pending, told>>
    PROVE  RegistryInv'
  <1>1. NetSound'
    BY DEF RegistryInv, NetSound, Sound
  <1> QED
    BY <1>1 DEF RegistryInv, ChallengesSound, ToldSound, AgesSound, RaceSound,
                ToldStands, RaceEnds

LEMMA RequestSound ==
    ASSUME NEW t, NEW what \in Asking \cup {"registerGroup"}, NEW n, NEW k,
           what \in Asking => n \in Names, what = "register" => k \in Keys
    PROVE  Sound(Request(t, what, n, k))
  BY DEF Request, Sound, Asking

LEMMA AnswerSound ==
    ASSUME NEW t, NEW nonce, NEW k,
           NEW what \in {"registrationResponse", "loginResponse", "registerGroupResponse"}
    PROVE  Sound(Answer(t, what, nonce, k))
  BY DEF Answer, Sound, Asking

LEMMA SendsStep ==
    ASSUME RegistryInv, NEW m, Sound(m), Sends(m), UNCHANGED <<users, groups, pending, told>>
    PROVE  RegistryInv'
  <1>1. net' \subseteq net \cup {m} /\ asks' \in Nat
    BY DEF Sends, RegistryInv
  <1> QED
    BY <1>1, OutsideStep

LEMMA PeersStep == RegistryInv /\ Peers => RegistryInv'
  <1> SUFFICES ASSUME RegistryInv, Peers PROVE RegistryInv'
    OBVIOUS
  <1>1. ASSUME NEW t \in PeerTags, PeerAsks(t) PROVE RegistryInv'
    <2>1. PICK what \in {"register", "login", "query"}, n \in Names :
            Sends(Request(t, what, n, t))
      BY <1>1 DEF PeerAsks
    <2>2. Sound(Request(t, what, n, t))
      BY RequestSound DEF Asking, Keys
    <2> QED
      BY <1>1, <2>1, <2>2, SendsStep DEF PeerAsks
  <1>2. ASSUME NEW t \in PeerTags, PeerAnswers(t) PROVE RegistryInv'
    <2>1. PICK m \in net : \E what \in {"registrationResponse", "loginResponse"} :
            net' = (net \ {m}) \cup {Answer(t, what, m.nonce, t)}
      BY <1>2 DEF PeerAnswers
    <2>2. PICK what \in {"registrationResponse", "loginResponse"} :
            net' = (net \ {m}) \cup {Answer(t, what, m.nonce, t)}
      BY <2>1
    <2>3. Sound(Answer(t, what, m.nonce, t))
      BY AnswerSound
    <2>4. UNCHANGED <<users, groups, pending, told, asks>>
      BY <1>2 DEF PeerAnswers
    <2> QED
      BY <2>2, <2>3, <2>4, OutsideStep DEF RegistryInv
  <1>3. ASSUME NEW t \in GroupTags, GroupServerAsks(t) PROVE RegistryInv'
    <2>1. PICK gid \in Gids : Sends(Request(t, "registerGroup", gid, t))
      BY <1>3 DEF GroupServerAsks
    <2>2. Sound(Request(t, "registerGroup", gid, t))
      BY RequestSound DEF Asking
    <2> QED
      BY <1>3, <2>1, <2>2, SendsStep DEF GroupServerAsks
  <1>4. ASSUME NEW t \in GroupTags, GroupServerAnswers(t) PROVE RegistryInv'
    <2>1. PICK m \in net :
            net' = (net \ {m}) \cup {Answer(t, "registerGroupResponse", m.nonce, t)}
      BY <1>4 DEF GroupServerAnswers
    <2>2. Sound(Answer(t, "registerGroupResponse", m.nonce, t))
      BY AnswerSound
    <2>3. UNCHANGED <<users, groups, pending, told, asks>>
      BY <1>4 DEF GroupServerAnswers
    <2> QED
      BY <2>1, <2>2, <2>3, OutsideStep DEF RegistryInv
  <1> QED
    BY <1>1, <1>2, <1>3, <1>4 DEF Peers

\* Rows and entries grow older together.
LEMMA TickStep == RegistryInv /\ Tick => RegistryInv'
  <1> SUFFICES ASSUME RegistryInv, Tick PROVE RegistryInv'
    OBVIOUS
  <1>1. UNCHANGED <<users, net, asks, told>>
    BY DEF Tick
  <1>2. \A f \in pending' : \E e \in pending :
          /\ f.map = e.map /\ f.name = e.name /\ f.key = e.key /\ f.checked = e.checked
          /\ f.age = Older(e.age, TTL) /\ f = EntryRecord(f)
    <2> DEFINE New(e) == [e EXCEPT !.age = Older(@, TTL)]
    <2>1. pending' = {New(e) : e \in pending}
      BY DEF Tick
    <2>2. \A e \in pending : e = EntryRecord(e)
      BY DEF RegistryInv, AgesSound
    <2>3. \A e \in pending :
            /\ New(e).map = e.map /\ New(e).name = e.name /\ New(e).key = e.key
            /\ New(e).checked = e.checked
            /\ New(e).age = Older(e.age, TTL) /\ New(e) = EntryRecord(New(e))
      BY <2>2 DEF EntryRecord
    <2> HIDE DEF New
    <2> QED
      BY <2>1, <2>3
  <1>3. \A h \in groups' : \E g \in groups :
          /\ h.gid = g.gid /\ h.key = g.key /\ h.by = g.by /\ h.raced = g.raced
          /\ h.age = Older(g.age, TTL) /\ h = RowRecord(h)
    <2> DEFINE New(g) == [g EXCEPT !.age = Older(@, TTL)]
    <2>1. groups' = {New(g) : g \in groups}
      BY DEF Tick
    <2>2. \A g \in groups : g = RowRecord(g)
      BY DEF RegistryInv, AgesSound
    <2>3. \A g \in groups :
            /\ New(g).gid = g.gid /\ New(g).key = g.key /\ New(g).by = g.by
            /\ New(g).raced = g.raced
            /\ New(g).age = Older(g.age, TTL) /\ New(g) = RowRecord(New(g))
      BY <2>2 DEF RowRecord
    <2> HIDE DEF New
    <2> QED
      BY <2>1, <2>3
  <1>4. \A a \in 0..TTL : Older(a, TTL) \in 0..TTL
    BY RegistryAssumption DEF Older
  <1>5. \A a, b \in 0..TTL : a <= b => Older(a, TTL) <= Older(b, TTL)
    BY RegistryAssumption DEF Older
  <1>6. ChallengesSound'
    BY <1>1, <1>2 DEF RegistryInv, ChallengesSound
  <1>7. AgesSound'
    BY <1>2, <1>3, <1>4 DEF RegistryInv, AgesSound
  <1>8. RaceSound'
    BY <1>2, <1>3, <1>5 DEF RegistryInv, RaceSound, AgesSound
  <1>9. RaceEnds'
    BY <1>3 DEF RegistryInv, RaceEnds
  <1> QED
    BY <1>1, <1>6, <1>7, <1>8, <1>9 DEF RegistryInv, NetSound, ToldSound, ToldStands

-----------------------------------------------------------------------------
(* The application. *)

LEMMA UnchangedStep == RegistryInv /\ UNCHANGED registryVars => RegistryInv'
  BY DEF registryVars, RegistryInv, NetSound, ChallengesSound, ToldSound,
         AgesSound, RaceSound, ToldStands, RaceEnds, EntryRecord, RowRecord

\* What arrives, or is answered by a command that registers.
LEMMA FewerMessages ==
    ASSUME RegistryInv, net' \subseteq net, UNCHANGED <<users, groups, pending, told, asks>>
    PROVE  RegistryInv'
  <1>1. NetSound'
    BY DEF RegistryInv, NetSound
  <1> QED
    BY <1>1 DEF RegistryInv, ChallengesSound, ToldSound, AgesSound, RaceSound,
                ToldStands, RaceEnds, EntryRecord, RowRecord

\* A command sends with the key it made, and reads what it is told.
LEMMA AuthStep == RegistryInv /\ Auth => RegistryInv'
  <1> SUFFICES ASSUME RegistryInv, Auth PROVE RegistryInv'
    OBVIOUS
  <1>1. ASSUME NEW n \in Names, RegisterUser(n) PROVE RegistryInv'
    <2>1. asks + 1 \in Keys /\ asks + 1 \in Nat
      BY <1>1, SessionAssumption, RegistryAssumption
      DEF RegistryInv, RegisterUser, Keys, Asks
    <2>2. UNCHANGED <<users, groups, pending, told>>
      BY <1>1 DEF RegisterUser
    <2>3. CASE asks' = asks + 1 /\ net' = net
      <3>1. NetSound'
        BY <2>3 DEF RegistryInv, NetSound
      <3> QED
        BY <2>1, <2>2, <2>3, <3>1
        DEF RegistryInv, ChallengesSound, ToldSound, AgesSound, RaceSound,
            ToldStands, RaceEnds, EntryRecord, RowRecord
    <2>4. CASE Sends(Request(svc, "register", n, asks + 1))
      <3>1. Sound(Request(svc, "register", n, asks + 1))
        BY <2>1, RequestSound DEF Asking
      <3> QED
        BY <2>2, <2>4, <3>1, SendsStep
    <2> QED
      BY <1>1, <2>3, <2>4 DEF RegisterUser
  <1>2. ASSUME NEW n \in Names, PingServer(n) PROVE RegistryInv'
    <2>1. UNCHANGED <<users, groups, pending, told>>
      BY <1>2 DEF PingServer
    <2>2. CASE net' = net /\ asks' = asks
      BY <2>1, <2>2, FewerMessages
    <2>3. CASE Sends(Request(svc, "ping", n, LoadKeys(n)))
      <3>1. Sound(Request(svc, "ping", n, LoadKeys(n)))
        BY RequestSound DEF Asking
      <3> QED
        BY <2>1, <2>3, <3>1, SendsStep
    <2> QED
      BY <1>2, <2>2, <2>3 DEF PingServer
  <1>3. CASE ProcessRegisterChallenge
    <2>1. Sound(Answer(cmd.conn, "registrationResponse", Incoming.nonce, cmd.key))
      BY AnswerSound
    <2>2. /\ net' \subseteq net \cup
               {Answer(cmd.conn, "registrationResponse", Incoming.nonce, cmd.key)}
          /\ UNCHANGED <<users, groups, pending, told, asks>>
      BY <1>3 DEF ProcessRegisterChallenge
    <2> QED
      BY <2>1, <2>2, OutsideStep DEF RegistryInv
  <1>4. CASE UNCHANGED registryVars
    BY <1>4, UnchangedStep
  <1>5. \/ \E n \in Names : RegisterUser(n) \/ PingServer(n)
        \/ ProcessRegisterChallenge
        \/ UNCHANGED registryVars
    BY DEF Auth, TakeIncomingRx, Timeout, RegisterRefusedReply, RegisterSucceeds,
           RegisterNotStored, RegisterIgnores, PongSuccess, PongError, PingIgnores
  <1> QED
    BY <1>1, <1>2, <1>3, <1>4, <1>5

LEMMA LinkStep == Link => UNCHANGED registryVars
  BY DEF Link, Connect, Monitor, BeginConnect, Disconnect, Logout, Quit,
         Connected, ConnectFails

LEMMA RegistryStep == RegistryInv /\ [SessionNext]_vars => RegistryInv'
  <1> SUFFICES ASSUME RegistryInv, [SessionNext]_vars PROVE RegistryInv'
    OBVIOUS
  <1>1. CASE Server \/ Peers \/ Tick
    BY <1>1, ServerStep, PeersStep, TickStep
  <1>2. ASSUME NEW m \in net, Arrive(m) PROVE RegistryInv'
    BY <1>2, FewerMessages DEF Arrive
  <1>3. CASE Auth
    BY <1>3, AuthStep
  <1>4. CASE Link
    BY <1>4, LinkStep, UnchangedStep
  <1>5. CASE UNCHANGED vars
    BY <1>5, UnchangedStep DEF vars
  <1> QED
    BY <1>1, <1>2, <1>3, <1>4, <1>5 DEF SessionNext

LEMMA RegistryInitially == SessionInit => RegistryInv
  BY RegistryAssumption
  DEF SessionInit, Init, RegistryInv, NetSound, ChallengesSound, ToldSound,
      AgesSound, RaceSound, ToldStands, RaceEnds

-----------------------------------------------------------------------------
(* Who has the receiver. *)

\* A command that goes on as it was, with the receiver and the user as they
\* were, changes nothing.
LEMMA SameHolding ==
    ASSUME Holding, UNCHANGED <<svc, rx, loop, cmd, user, mls, late, moved>>
    PROVE  Holding'
  BY DEF Holding

\* Commands are begun whole and end as Idle; in between they get a receiver.
LEMMA ShapeStep == CommandShape /\ [SessionNext]_vars => CommandShape'
  <1> SUFFICES ASSUME CommandShape, [SessionNext]_vars PROVE CommandShape'
    OBVIOUS
  <1>1. ASSUME NEW n \in Names, RegisterUser(n) \/ PingServer(n) PROVE CommandShape'
    BY <1>1 DEF RegisterUser, PingServer, Begin, Idle, CommandShape
  <1>2. CASE TakeIncomingRx
    <2>1. cmd' = Idle \/ cmd' = [cmd EXCEPT !.rx = rx]
      BY <1>2 DEF TakeIncomingRx
    <2>2. cmd' = Idle => CommandShape'
      BY DEF Idle, CommandShape
    <2>3. cmd' = [cmd EXCEPT !.rx = rx] => CommandShape'
      BY DEF CommandShape
    <2> QED
      BY <2>1, <2>2, <2>3
  <1>3. CASE UNCHANGED cmd
    BY <1>3 DEF CommandShape
  <1>4. CASE cmd' = Idle
    BY <1>4 DEF Idle, CommandShape
  <1>5. Auth => \/ \E n \in Names : RegisterUser(n) \/ PingServer(n)
                \/ TakeIncomingRx \/ UNCHANGED cmd \/ cmd' = Idle
    BY DEF Auth, Timeout, ProcessRegisterChallenge, RegisterRefusedReply,
           RegisterSucceeds, RegisterNotStored, RegisterIgnores, PongSuccess, PongError,
           PingIgnores, LogIn, StartBackgroundTasks, PutBack
  <1>6. Link => UNCHANGED cmd \/ cmd' = Idle
    BY DEF Link, Connect, Monitor, BeginConnect, Disconnect, Logout, Quit, Connected,
           ConnectFails
  <1>7. \/ UNCHANGED sessionVars \/ (\E m \in net : Arrive(m)) \/ UNCHANGED vars
        => UNCHANGED cmd
    BY DEF sessionVars, Arrive, vars
  <1> QED
    BY <1>1, <1>2, <1>3, <1>4, <1>5, <1>6, <1>7 DEF SessionNext

LEMMA HoldingStep == Holding /\ CommandShape /\ [SessionNext]_vars => Holding'
  <1> SUFFICES ASSUME Holding, CommandShape, [SessionNext]_vars PROVE Holding'
    OBVIOUS
  <1>1. CASE UNCHANGED sessionVars
    BY <1>1, SameHolding DEF sessionVars
  <1>2. ASSUME NEW m \in net, Arrive(m) PROVE Holding'
    BY <1>2, SameHolding DEF Arrive, link, memory, history
  <1>3. ASSUME NEW n \in Names, RegisterUser(n) \/ PingServer(n) PROVE Holding'
    <2>1. /\ UNCHANGED <<svc, rx, loop, user, mls, late, moved>>
          /\ cmd.op = "none"
          /\ cmd' = cmd \/ cmd'.rx = None
      BY <1>3 DEF RegisterUser, PingServer, Begin, Idle, Busy, link, memory, history
    <2> QED
      BY <2>1 DEF Holding
  <1>4. CASE TakeIncomingRx
    <2>1. /\ UNCHANGED <<svc, loop, user, mls, late, moved>>
          /\ cmd.op # "none" /\ cmd.rx = None /\ rx' = None
      BY <1>4 DEF TakeIncomingRx, Busy, memory, history
    <2>2. \/ rx = None /\ cmd'.rx = None
          \/ rx # None /\ cmd'.rx = rx /\ cmd'.op = cmd.op
      BY <1>4 DEF TakeIncomingRx, Idle, CommandShape
    <2> QED
      BY <2>1, <2>2 DEF Holding
  <1>5. CASE ProcessRegisterChallenge \/ RegisterIgnores \/ PingIgnores
    BY <1>5, SameHolding
    DEF ProcessRegisterChallenge, RegisterIgnores, PingIgnores, link, memory, history
  <1>6. CASE RegisterRefusedReply \/ PongError
    <2>1. /\ UNCHANGED <<svc, loop, user, mls, late, moved>>
          /\ cmd.rx # None /\ rx' = cmd.rx
          /\ cmd'.rx = None /\ cmd'.op = "none"
      BY <1>6 DEF RegisterRefusedReply, PongError, Waits, PutBack, Idle, memory, history
    <2> QED
      BY <2>1 DEF Holding
  <1>7. CASE RegisterSucceeds \/ PongSuccess
    <2>1. /\ UNCHANGED <<svc, rx, late, moved>>
          /\ cmd.rx # None /\ cmd'.rx = None /\ cmd'.op = "none"
          /\ user' = cmd.name /\ loop' = cmd.rx
          /\ IF mls # None THEN mls' = mls ELSE mls' \in {cmd.name, None}
      BY <1>7 DEF RegisterSucceeds, PongSuccess, Waits, LogIn, InitializeMls,
                  StartBackgroundTasks, Idle
    <2> QED
      BY <2>1 DEF Holding
  <1>8. CASE RegisterNotStored
    <2>1. /\ UNCHANGED <<svc, rx, loop, user, mls, late, moved>>
          /\ cmd'.rx = None /\ cmd'.op = "none"
      BY <1>8 DEF RegisterNotStored, Idle, link, memory, history
    <2> QED
      BY <2>1 DEF Holding
  <1>9. CASE Timeout
    BY <1>9 DEF Timeout, Holding
  <1>10. CASE Connect \/ Monitor
    BY <1>10, SameHolding DEF Connect, Monitor, BeginConnect, memory, history
  <1>11. ASSUME NEW who \in {"user", "monitor"}, Connected(who) PROVE Holding'
    <2>1. /\ UNCHANGED <<loop, user, mls, cmd, late>>
          /\ rx' = svc'
          /\ moved' = (moved \/ cmd.op # "none" \/ user # None)
      BY <1>11 DEF Connected, SetMixnetService, Busy, memory
    <2> QED
      BY <2>1 DEF Holding
  <1>12. ASSUME NEW who \in {"user", "monitor"}, ConnectFails(who) PROVE Holding'
    BY <1>12, SameHolding DEF ConnectFails, memory, history
  <1>13. CASE Disconnect
    <2>1. /\ UNCHANGED <<loop, user, mls, cmd, late>>
          /\ rx' = None
          /\ moved' = (moved \/ cmd.op # "none" \/ user # None)
      BY <1>13 DEF Disconnect, ClearMixnetService, Busy, memory
    <2> QED
      BY <2>1 DEF Holding
  <1>14. CASE Logout
    <2>1. /\ rx' = None /\ user' = None /\ mls' = None
          /\ UNCHANGED <<cmd, late>>
          /\ moved' = (moved \/ cmd.op # "none")
      BY <1>14 DEF Logout, ClearMixnetService, Busy
    <2> QED
      BY <2>1 DEF Holding
  <1>15. CASE Quit
    <2>1. /\ rx' = None /\ user' = None /\ mls' = None
          /\ cmd'.rx = None /\ cmd'.op = "none"
      BY <1>15 DEF Quit, Idle
    <2> QED
      BY <2>1 DEF Holding
  <1> QED
    BY <1>1, <1>2, <1>3, <1>4, <1>5, <1>6, <1>7, <1>8, <1>9, <1>10, <1>11, <1>12,
       <1>13, <1>14, <1>15
    DEF SessionNext, Auth, Link, vars

LEMMA HoldingInitially == SessionInit => Holding /\ CommandShape
  BY DEF SessionInit, Holding, Idle, CommandShape

-----------------------------------------------------------------------------
(* Sequences, by induction on how much of them was looked at. *)

LEMMA Elements ==
    ASSUME NEW T, NEW s \in Seq(T)
    PROVE  /\ DOMAIN s = 1 .. Len(s) /\ Len(s) \in Nat
           /\ \A i \in 1 .. Len(s) : s[i] \in T
  OBVIOUS

LEMMA LeastElement ==
    ASSUME NEW T \in SUBSET Nat, T # {}
    PROVE  \E x \in T : \A y \in T : x <= y
  <1>1. PICK x \in T : \A y \in T : <<y, x>> \notin OpToRel(<, Nat)
    BY NatLessThanWellFounded, WFMin
  <1>2. \A y \in T : <<y, x>> \in OpToRel(<, Nat) <=> y < x
    BY DEF OpToRel
  <1>3. \A y \in T : ~(y < x)
    BY <1>1, <1>2
  <1>4. x \in Nat /\ \A y \in T : y \in Nat
    OBVIOUS
  <1>5. \A y \in T : x <= y
    BY <1>3, <1>4
  <1> QED
    BY <1>5

LEMMA Induction ==
    ASSUME NEW S, 0 \in S, \A n \in Nat : n \in S => n + 1 \in S
    PROVE  Nat \subseteq S
  <1> SUFFICES ASSUME Nat \ S # {} PROVE FALSE
    OBVIOUS
  <1>1. PICK x \in Nat \ S : \A y \in Nat \ S : x <= y
    BY LeastElement
  <1>2. x # 0 /\ x - 1 \in Nat /\ x - 1 < x
    BY <1>1
  <1>3. x - 1 \in S
    BY <1>1, <1>2
  <1> QED
    BY <1>1, <1>2, <1>3

\* upTo[i] is what of the first i elements is at a place of keep.
UpTo(s, keep, n, upTo) ==
  upTo = [i \in 0 .. n |->
            IF i = 0 THEN <<>>
            ELSE IF i \in keep THEN Append(upTo[i - 1], s[i]) ELSE upTo[i - 1]]

LEMMA UpToExists ==
    ASSUME NEW s, NEW keep
    PROVE  \A n \in Nat : \E upTo : UpTo(s, keep, n, upTo)
  <1> DEFINE S == {n \in Nat : \E upTo : UpTo(s, keep, n, upTo)}
  <1>1. 0 \in S
    <2>1. UpTo(s, keep, 0, [i \in 0 .. 0 |-> <<>>])
      BY DEF UpTo
    <2> QED
      BY <2>1
  <1>2. ASSUME NEW n \in Nat, n \in S PROVE n + 1 \in S
    <2>1. PICK f : UpTo(s, keep, n, f)
      BY <1>2
    <2>2. PICK new : new = IF n + 1 \in keep THEN Append(f[n], s[n + 1]) ELSE f[n]
      OBVIOUS
    <2> DEFINE g == [i \in 0 .. (n + 1) |-> IF i <= n THEN f[i] ELSE new]
    <2>3. (\A i \in 0 .. n : g[i] = f[i]) /\ g[n + 1] = new
      OBVIOUS
    <2>4. \A i \in 0 .. n : f[i] = IF i = 0 THEN <<>>
                                   ELSE IF i \in keep THEN Append(f[i - 1], s[i]) ELSE f[i - 1]
      BY <2>1 DEF UpTo
    <2>5. g = [i \in 0 .. (n + 1) |-> g[i]]
      OBVIOUS
    <2> HIDE DEF g
    <2>6. ASSUME NEW i \in 0 .. (n + 1)
          PROVE  g[i] = IF i = 0 THEN <<>>
                        ELSE IF i \in keep THEN Append(g[i - 1], s[i]) ELSE g[i - 1]
      <3>1. CASE i = n + 1
        BY <2>2, <2>3, <3>1
      <3>2. CASE i # n + 1
        BY <2>3, <2>4, <3>2
      <3> QED
        BY <3>1, <3>2
    <2>7. UpTo(s, keep, n + 1, g)
      BY <2>5, <2>6 DEF UpTo
    <2> QED
      BY <2>7
  <1> HIDE DEF S
  <1>3. Nat \subseteq S
    BY <1>1, <1>2, Induction
  <1> QED
    BY <1>3 DEF S

\* What is kept is a sequence of the same elements, and no longer.
LEMMA OnlyType ==
    ASSUME NEW T, NEW s \in Seq(T), NEW keep
    PROVE  Only(s, keep) \in Seq(T) /\ Len(Only(s, keep)) <= Len(s)
  <1> DEFINE f == CHOOSE upTo : UpTo(s, keep, Len(s), upTo)
  <1>1. Len(s) \in Nat
    OBVIOUS
  <1>2. UpTo(s, keep, Len(s), f)
    BY <1>1, UpToExists
  <1>3. Only(s, keep) = f[Len(s)]
    BY DEF Only, UpTo
  <1> HIDE DEF f
  <1>4. \A i \in 0 .. Len(s) :
          f[i] = IF i = 0 THEN <<>>
                 ELSE IF i \in keep THEN Append(f[i - 1], s[i]) ELSE f[i - 1]
    BY <1>2 DEF UpTo
  <1> DEFINE S == {n \in Nat : n <= Len(s) => f[n] \in Seq(T) /\ Len(f[n]) <= n}
  <1>5. 0 \in S
    <2>1. f[0] = <<>>
      BY <1>1, <1>4
    <2>2. <<>> \in Seq(T) /\ Len(<<>>) = 0
      OBVIOUS
    <2>3. f[0] \in Seq(T) /\ Len(f[0]) = 0
      BY <2>1, <2>2
    <2> QED
      BY <2>3
  <1>6. ASSUME NEW n \in Nat, n \in S PROVE n + 1 \in S
    <2> SUFFICES ASSUME n + 1 <= Len(s)
                 PROVE  f[n + 1] \in Seq(T) /\ Len(f[n + 1]) <= n + 1
      OBVIOUS
    <2>1. f[n] \in Seq(T) /\ Len(f[n]) <= n
      BY <1>1, <1>6
    <2>2. f[n + 1] = IF n + 1 \in keep THEN Append(f[n], s[n + 1]) ELSE f[n]
      BY <1>1, <1>4
    <2>3. s[n + 1] \in T
      BY <1>1
    <2> HIDE DEF S
    <2>4. CASE n + 1 \in keep
      BY <2>1, <2>2, <2>3, <2>4
    <2>5. CASE n + 1 \notin keep
      BY <2>1, <2>2, <2>5
    <2> QED
      BY <2>4, <2>5
  <1> HIDE DEF S
  <1>7. Len(s) \in S
    BY <1>1, <1>5, <1>6, Induction
  <1> QED
    BY <1>1, <1>3, <1>7 DEF S
-----------------------------------------------------------------------------
(* Types of the server's tables and of the messages. *)

EntryType(e) == /\ e.map \in {"users", "nonces", "groups"} /\ e.tag \in Tags
                /\ e.name \in Names \cup Gids /\ e.key \in Keys
                /\ e.nonce \in Asks /\ e.age \in 0..TTL /\ e.checked \in BOOLEAN
                /\ e.map = "groups" => e.name \in Gids

\* A session has one entry in each map.
EntriesTyped == /\ \A e \in pending : EntryType(e)
                /\ \A e, f \in pending : e.map = f.map /\ e.tag = f.tag => e = f

RowType(g) == /\ g.gid \in Gids /\ g.key \in Keys /\ g.by \in Keys
              /\ g.age \in 0..TTL /\ g.raced \in 0..TTL

\* Requests come from sessions and replies from the server; a group server
\* names a group and a key.
MessageType(m) == /\ m \in Messages
                  /\ m.what \in Replies => m.from = 0
                  /\ m.what \in Requests => m.from \in Tags /\ m.to = 0
                  /\ m.what = "registerGroup" => m.name \in Gids /\ m.key \in Keys

AttemptsTyped == /\ attempts \in [Tags -> Seq(0..Window)]
                 /\ \A t \in Tags : Len(attempts[t]) <= Limit

\* The type invariant of the server, with what a group's challenge is for.
RegistryTyped ==
  /\ \A m \in net : MessageType(m)
  /\ EntriesTyped
  /\ \A g \in groups : RowType(g)
  /\ AttemptsTyped
  /\ asks \in 0..MaxAsks /\ now \in 0..MaxTime
  /\ told \subseteq Names \X Keys

Handles(m) == \/ HandleRegister(m) \/ HandleRegistrationResponse(m)
              \/ HandleLogin(m) \/ HandleLoginResponse(m)
              \/ HandlePing(m) \/ HandleQuery(m)
              \/ HandleRegisterGroup(m) \/ HandleRegisterGroupResponse(m)

LEMMA ReplyType ==
    ASSUME NEW m \in Messages, m.from \in Tags, NEW what \in Replies, NEW nonce \in Asks,
           NEW name \in Names \cup Gids \cup {0}
    PROVE  MessageType(ReplyTo(m, what, nonce, name))
  <1>1. /\ m.from \in Tags \cup {0} /\ m.form \in {"legacy", "unified"}
        /\ 0 \in Tags \cup {0} /\ NoKey \in Keys \cup {NoKey}
    BY DEF Messages
  <1>2. what \in Requests \cup Replies /\ what \notin Requests /\ what # "registerGroup"
    BY DEF Requests, Replies
  <1>3. ReplyTo(m, what, nonce, name) \in Messages
    BY <1>1, <1>2 DEF ReplyTo, Messages
  <1>4. /\ ReplyTo(m, what, nonce, name).what = what
        /\ ReplyTo(m, what, nonce, name).from = 0
    BY DEF ReplyTo
  <1> QED
    BY <1>2, <1>3, <1>4 DEF MessageType

\* Each handler takes the message and sends at most one reply.
LEMMA HandlerReplies ==
    ASSUME RegistryTyped, NEW m \in net, Handles(m)
    PROVE  /\ m.what \in Requests /\ m.from \in Tags
           /\ \/ net' = net \ {m}
              \/ \E what \in Replies, nonce \in Asks, name \in Names \cup Gids \cup {0} :
                   Reply(m, what, nonce, name)
  <1>1. m \in Messages /\ m.nonce \in Asks /\ m.name \in Names \cup Gids \cup {0}
    BY DEF RegistryTyped, MessageType, Messages
  <1>2. \A map, t : \A e \in EntriesOf(map, t) :
          e.nonce \in Asks /\ e.name \in Names \cup Gids \cup {0}
    BY DEF RegistryTyped, EntriesTyped, EntryType, EntriesOf, Fresh
  <1>3. 0 \in Names \cup Gids \cup {0}
    OBVIOUS
  <1>4. m.what \in Requests /\ m.from \in Tags
    BY DEF RegistryTyped, MessageType, Requests, Handles, HandleRegister, HandleRegistrationResponse, HandleLogin,
           HandleLoginResponse, HandlePing, HandleQuery, HandleRegisterGroup,
           HandleRegisterGroupResponse, Arrives
  <1> DEFINE Some == \E what \in Replies, nonce \in Asks, name \in Names \cup Gids \cup {0} :
                       Reply(m, what, nonce, name)
  <1>5. \A what \in Replies, nonce \in Asks, name \in Names \cup Gids \cup {0} :
          Reply(m, what, nonce, name) => Some
    OBVIOUS
  <1> HIDE DEF Some
  <1>6. /\ "refused" \in Replies /\ "challenge" \in Replies /\ "registered" \in Replies
        /\ "loginChallenge" \in Replies /\ "loggedIn" \in Replies /\ "pong" \in Replies
        /\ "pongRefused" \in Replies /\ "groupChallenge" \in Replies
        /\ "groupRegistered" \in Replies
    BY DEF Replies
  <1>7. CASE HandleRegister(m)
    BY <1>1, <1>4, <1>5, <1>6, <1>7 DEF HandleRegister, RegisterRefused, RegisterChallenged, Some
  <1>8. CASE HandleRegistrationResponse(m)
    <2>1. CASE RegistrationFails(m)
      BY <1>1, <1>3, <1>4, <1>5, <1>6, <2>1 DEF RegistrationFails, Some
    <2>2. CASE RegistrationVerified(m)
      BY <1>1, <1>2, <1>4, <1>5, <1>6, <2>2 DEF RegistrationVerified, Some
    <2> QED
      BY <1>8, <2>1, <2>2 DEF HandleRegistrationResponse
  <1>9. CASE HandleLogin(m)
    BY <1>1, <1>4, <1>5, <1>6, <1>9 DEF HandleLogin, LoginRefused, LoginChallenged, Some
  <1>10. CASE HandleLoginResponse(m)
    BY <1>1, <1>3, <1>4, <1>5, <1>6, <1>10
    DEF HandleLoginResponse, LoginFails, LoginVerified, Some
  <1>11. CASE HandlePing(m)
    BY <1>1, <1>4, <1>5, <1>6, <1>11 DEF HandlePing, Some
  <1>12. CASE HandleQuery(m)
    BY <1>4, <1>12 DEF HandleQuery
  <1>13. CASE HandleRegisterGroup(m)
    BY <1>1, <1>4, <1>5, <1>6, <1>13 DEF HandleRegisterGroup, Some
  <1>14. CASE HandleRegisterGroupResponse(m)
    BY <1>1, <1>3, <1>4, <1>5, <1>6, <1>14 DEF HandleRegisterGroupResponse, Some
  <1> QED
    BY <1>7, <1>8, <1>9, <1>10, <1>11, <1>12, <1>13, <1>14 DEF Handles

LEMMA ServerNet ==
    ASSUME RegistryTyped, NEW m \in net, Handles(m)
    PROVE  \A n \in net' : MessageType(n)
  <1>1. CASE net' = net \ {m}
    BY <1>1 DEF RegistryTyped
  <1>2. ASSUME NEW what \in Replies, NEW nonce \in Asks, NEW name \in Names \cup Gids \cup {0},
               Reply(m, what, nonce, name)
        PROVE  \A n \in net' : MessageType(n)
    <2>1. MessageType(ReplyTo(m, what, nonce, name))
      BY HandlerReplies, ReplyType DEF RegistryTyped, MessageType
    <2>2. net' \subseteq net \cup {ReplyTo(m, what, nonce, name)}
      BY <1>2 DEF Reply, EncapsulatedReply, UnifiedReply, Replied
    <2> QED
      BY <2>1, <2>2 DEF RegistryTyped
  <1> QED
    BY <1>1, <1>2, HandlerReplies

\* Old entries are dropped, or with them one makes room for a new one.
LEMMA EntriesFewer ==
    ASSUME EntriesTyped, pending' \subseteq pending
    PROVE  EntriesTyped'
  BY DEF EntriesTyped, EntryType

LEMMA InsertType ==
    ASSUME EntriesTyped, NEW m, NEW map \in {"users", "nonces", "groups"}, NEW key \in Keys,
           NEW checked \in BOOLEAN,
           m.from \in Tags, m.nonce \in Asks, m.name \in Names \cup Gids,
           map = "groups" => m.name \in Gids, Insert(map, m, key, checked)
    PROVE  EntriesTyped'
  <1>1. PICK e : e = Entry(map, m, key, checked)
    OBVIOUS
  <1>2. e.map = map /\ e.tag = m.from /\ EntryType(e)
    BY <1>1, RegistryAssumption DEF Entry, EntryType
  <1>3. pending' = (Fresh \ EntriesOf(map, m.from)) \cup {e}
    BY <1>1 DEF Insert
  <1>4. \A f \in pending' \ {e} : f \in pending /\ ~(f.map = map /\ f.tag = m.from)
    BY <1>3 DEF Fresh, EntriesOf
  <1>5. \A f \in pending' : EntryType(f)
    BY <1>2, <1>4 DEF EntriesTyped
  <1> QED
    BY <1>2, <1>4, <1>5 DEF EntriesTyped, EntryType

LEMMA ServerEntries ==
    ASSUME RegistryInv, RegistryTyped, NEW m \in net, Handles(m)
    PROVE  EntriesTyped'
  <1>1. /\ m \in Messages /\ m.nonce \in Asks /\ m.from \in Tags
    BY HandlerReplies DEF RegistryTyped, MessageType, Messages
  <1>2. Fresh \subseteq pending
    BY DEF Fresh
  <1>3. CASE pending' \subseteq Fresh
    BY <1>2, <1>3, EntriesFewer DEF RegistryTyped
  <1>4. ASSUME NEW map, Remove(map, m.from) PROVE pending' \subseteq Fresh
    BY <1>4 DEF Remove
  <1>5. CASE HandleRegister(m) /\ Insert("users", m, m.key, TRUE)
    <2>1. m.name \in Names \cup Gids /\ m.key \in Keys
      BY <1>5 DEF RegistryInv, NetSound, HandleRegister, Arrives, Asking
    <2> QED
      BY <1>1, <1>5, <2>1, InsertType DEF RegistryTyped
  <1>6. CASE HandleLogin(m) /\ LoginChallenged(m)
    <2>1. m.name \in Names \cup Gids /\ users[m.name] \in Keys
      BY <1>6
      DEF RegistryInv, NetSound, HandleLogin, LoginChallenged, Registered, Arrives, Asking
    <2>2. Insert("nonces", m, users[m.name], TRUE)
      BY <1>6 DEF LoginChallenged
    <2> QED
      BY <1>1, <2>1, <2>2, InsertType DEF RegistryTyped
  <1>7. CASE HandleRegisterGroup(m) /\ Insert("groups", m, m.key, ~OtherKey(m.name, m.key))
    <2>1. m.name \in Gids /\ m.key \in Keys /\ (~OtherKey(m.name, m.key)) \in BOOLEAN
      BY <1>7 DEF RegistryTyped, MessageType, HandleRegisterGroup, Arrives, OtherKey
    <2> QED
      BY <1>1, <1>7, <2>1, InsertType DEF RegistryTyped
  <1> QED
    BY <1>3, <1>4, <1>5, <1>6, <1>7
    DEF Handles, HandleRegister, RegisterRefused, RegisterChallenged,
        HandleRegistrationResponse, HandleLogin, LoginRefused, HandleLoginResponse,
        HandlePing, HandleQuery, HandleRegisterGroup, HandleRegisterGroupResponse

\* An attempt is recorded only where there is room.
LEMMA RecordType ==
    ASSUME AttemptsTyped, NEW t \in Tags, Record(t)
    PROVE  AttemptsTyped'
  <1>1. PICK recent : recent = Recent(t)
    OBVIOUS
  <1>2. recent \in Seq(0..Window) /\ Len(recent) <= Len(attempts[t])
    BY <1>1, OnlyType DEF AttemptsTyped, Recent
  <1>3. PICK new : new = IF Limited(t) THEN recent ELSE Append(recent, 0)
    OBVIOUS
  <1>4. attempts' = [attempts EXCEPT ![t] = new]
    BY <1>1, <1>3 DEF Record
  <1>5. new \in Seq(0..Window) /\ Len(new) <= Limit
    <2>1. 0 \in 0..Window /\ Limit \in Nat /\ Len(attempts[t]) <= Limit
      BY RegistryAssumption DEF AttemptsTyped
    <2>2. CASE Limited(t)
      BY <1>2, <1>3, <2>1, <2>2 DEF AttemptsTyped
    <2>3. CASE ~Limited(t)
      <3>1. Len(recent) < Limit
        BY <1>1, <1>2, <2>1, <2>3 DEF Limited
      <3>2. new = Append(recent, 0)
        BY <1>3, <2>3
      <3> QED
        BY <1>2, <2>1, <3>1, <3>2
    <2> QED
      BY <2>2, <2>3
  <1> QED
    BY <1>4, <1>5 DEF AttemptsTyped

LEMMA ServerAttempts ==
    ASSUME RegistryTyped, NEW m \in net, Handles(m)
    PROVE  AttemptsTyped'
  <1>1. m.from \in Tags
    BY HandlerReplies DEF RegistryTyped, MessageType
  <1>2. CASE Record(m.from)
    BY <1>1, <1>2, RecordType DEF RegistryTyped
  <1>3. CASE UNCHANGED attempts
    BY <1>3 DEF RegistryTyped, AttemptsTyped
  <1> QED
    BY <1>2, <1>3
    DEF Handles, HandleRegister, HandleRegistrationResponse, HandleLogin,
        HandleLoginResponse, HandlePing, HandleQuery, HandleRegisterGroup,
        HandleRegisterGroupResponse

LEMMA ServerRows ==
    ASSUME RegistryInv, RegistryTyped, NEW m \in net, Handles(m)
    PROVE  \A g \in groups' : RowType(g)
  <1>1. CASE UNCHANGED groups
    BY <1>1 DEF RegistryTyped
  <1>2. ASSUME NEW e \in EntriesOf("groups", m.from) PROVE e.name \in Gids /\ e.key \in Keys
    BY <1>2 DEF EntriesOf, Fresh, RegistryTyped, EntriesTyped, EntryType
  <1>3. ASSUME NEW e \in EntriesOf("groups", m.from), AddGroup(e)
        PROVE  \A g \in groups' : RowType(g)
    <2>1. PICK g : g = [gid |-> e.name, key |-> e.key, by |-> e.key, age |-> 0, raced |-> 0]
      OBVIOUS
    <2>2. RowType(g)
      BY <1>2, <2>1, RegistryAssumption DEF RowType
    <2>3. groups' = groups \cup {g}
      BY <1>3, <2>1 DEF AddGroup
    <2> QED
      BY <2>2, <2>3 DEF RegistryTyped
  <1>4. ASSUME NEW e \in EntriesOf("groups", m.from), UpdateGroupAddress(e)
        PROVE  \A g \in groups' : RowType(g)
    <2> DEFINE New(g) == [g EXCEPT !.by = e.key,
                                   !.raced = IF e.key # g.key /\ e.checked THEN g.age
                                             ELSE @]
    <2>1. \A g \in groups : RowType(New(g))
      <3> TAKE g \in groups
      <3>1. g = RowRecord(g) /\ RowType(g)
        BY <1>4 DEF RegistryTyped, RegistryInv, AgesSound
      <3>2. DOMAIN g = {"gid", "key", "by", "age", "raced"}
        BY <3>1 DEF RowRecord
      <3> DEFINE h == New(g)
      <3>3. /\ h.gid = g.gid /\ h.key = g.key /\ h.age = g.age
            /\ h.by = e.key /\ h.raced = IF e.key # g.key /\ e.checked THEN g.age ELSE g.raced
        BY <3>2
      <3> HIDE DEF h
      <3>4. RowType(h)
        BY <1>2, <3>1, <3>3 DEF RowType
      <3> QED
        BY <3>4 DEF h
    <2>2. groups' = {IF g.gid # e.name THEN g ELSE New(g) : g \in groups}
      BY <1>4 DEF UpdateGroupAddress
    <2> HIDE DEF New
    <2> QED
      BY <2>1, <2>2 DEF RegistryTyped
  <1> QED
    BY <1>1, <1>3, <1>4
    DEF Handles, HandleRegister, HandleRegistrationResponse, HandleLogin,
        HandleLoginResponse, HandlePing, HandleQuery, HandleRegisterGroup,
        HandleRegisterGroupResponse

LEMMA ServerTold ==
    ASSUME RegistryInv, RegistryTyped, NEW m \in net, Handles(m)
    PROVE  told' \subseteq Names \X Keys
  <1>1. CASE UNCHANGED told
    BY <1>1 DEF RegistryTyped
  <1>2. ASSUME NEW map \in {"users", "nonces"}, NEW e \in EntriesOf(map, m.from)
        PROVE  e.name \in Names /\ e.key \in Keys
    BY <1>2 DEF EntriesOf, Fresh, RegistryInv, ChallengesSound
  <1>3. CASE RegistrationVerified(m)
    BY <1>2, <1>3 DEF RegistrationVerified, RegistryTyped
  <1>4. CASE LoginVerified(m)
    BY <1>2, <1>4 DEF LoginVerified, Verified, RegistryTyped
  <1>5. CASE HandleQuery(m)
    <2>1. m.name \in Names
      BY <1>5 DEF RegistryInv, NetSound, HandleQuery, Arrives, Asking
    <2> QED
      BY <1>5, <2>1 DEF HandleQuery, Vouched, Registered, RegistryInv, RegistryTyped
  <1> QED
    BY <1>1, <1>3, <1>4, <1>5
    DEF Handles, HandleRegister, HandleRegistrationResponse, RegistrationFails, HandleLogin,
        HandleLoginResponse, LoginFails, HandlePing, HandleRegisterGroup,
        HandleRegisterGroupResponse

LEMMA ServerTyped == RegistryInv /\ RegistryTyped /\ Server => RegistryTyped'
  <1> SUFFICES ASSUME RegistryInv, RegistryTyped, NEW m \in net, Handles(m)
               PROVE  RegistryTyped'
    BY DEF Server, Handles
  <1>1. UNCHANGED <<asks, now>>
    BY DEF Handles, HandleRegister, HandleRegistrationResponse, HandleLogin,
           HandleLoginResponse, HandlePing, HandleQuery, HandleRegisterGroup,
           HandleRegisterGroupResponse
  <1> QED
    BY <1>1, ServerNet, ServerEntries, ServerAttempts, ServerRows, ServerTold
    DEF RegistryTyped

\* A session's request, or its answer to a challenge.
LEMMA RequestType ==
    ASSUME RegistryTyped, asks < MaxAsks, NEW t \in Tags, NEW what \in Requests,
           NEW n \in Names \cup Gids, NEW k \in Keys \cup {NoKey},
           what = "registerGroup" => n \in Gids /\ k \in Keys
    PROVE  MessageType(Request(t, what, n, k))
  <1>1. asks + 1 \in Asks
    BY RegistryAssumption DEF RegistryTyped, Asks
  <1>2. FormOf(t) \in {"legacy", "unified"}
    BY DEF FormOf
  <1>3. what \in Requests \cup Replies /\ what \notin Replies
    BY DEF Requests, Replies
  <1>4. Request(t, what, n, k) \in Messages
    BY <1>1, <1>2, <1>3 DEF Request, Messages
  <1>5. /\ Request(t, what, n, k).what = what /\ Request(t, what, n, k).from = t
        /\ Request(t, what, n, k).to = 0
        /\ Request(t, what, n, k).name = n /\ Request(t, what, n, k).key = k
    BY DEF Request
  <1> QED
    BY <1>3, <1>4, <1>5 DEF MessageType

LEMMA AnswerType ==
    ASSUME NEW t \in Tags, NEW nonce \in Asks, NEW k \in Keys \cup {NoKey},
           NEW what \in {"registrationResponse", "loginResponse", "registerGroupResponse"}
    PROVE  MessageType(Answer(t, what, nonce, k))
  <1>1. FormOf(t) \in {"legacy", "unified"}
    BY DEF FormOf
  <1>2. /\ what \in Requests \cup Replies /\ what \notin Replies
        /\ what # "registerGroup"
    BY DEF Requests, Replies
  <1>3. Answer(t, what, nonce, k) \in Messages
    BY <1>1, <1>2 DEF Answer, Messages
  <1>4. /\ Answer(t, what, nonce, k).what = what /\ Answer(t, what, nonce, k).from = t
        /\ Answer(t, what, nonce, k).to = 0
    BY DEF Answer
  <1> QED
    BY <1>2, <1>3, <1>4 DEF MessageType

\* A step that only sends, and reads.
LEMMA SendsTyped ==
    ASSUME RegistryTyped, NEW m, MessageType(m), net' \subseteq net \cup {m},
           asks' = asks \/ (asks' = asks + 1 /\ asks < MaxAsks),
           UNCHANGED <<groups, pending, attempts, now, told>>
    PROVE  RegistryTyped'
  <1>1. asks' \in 0..MaxAsks
    BY RegistryAssumption DEF RegistryTyped
  <1> QED
    BY <1>1 DEF RegistryTyped, EntriesTyped, AttemptsTyped

LEMMA PeersTyped == RegistryTyped /\ Peers => RegistryTyped'
  <1> SUFFICES ASSUME RegistryTyped, Peers PROVE RegistryTyped'
    OBVIOUS
  <1>1. ASSUME NEW t \in PeerTags, PeerAsks(t) PROVE RegistryTyped'
    <2>1. PICK what \in {"register", "login", "query"}, n \in Names :
            Sends(Request(t, what, n, t))
      BY <1>1 DEF PeerAsks
    <2>2. /\ net' = net \cup {Request(t, what, n, t)} /\ asks' = asks + 1 /\ asks < MaxAsks
          /\ UNCHANGED <<groups, pending, attempts, now, told>>
      BY <1>1, <2>1 DEF PeerAsks, Sends
    <2>3. MessageType(Request(t, what, n, t))
      BY <2>2, RequestType DEF Requests, Tags, Keys
    <2> QED
      BY <2>2, <2>3, SendsTyped
  <1>2. ASSUME NEW t \in PeerTags, PeerAnswers(t) PROVE RegistryTyped'
    <2>1. PICK m \in net : \E what \in {"registrationResponse", "loginResponse"} :
            net' = (net \ {m}) \cup {Answer(t, what, m.nonce, t)}
      BY <1>2 DEF PeerAnswers
    <2>2. PICK what \in {"registrationResponse", "loginResponse"} :
            net' = (net \ {m}) \cup {Answer(t, what, m.nonce, t)}
      BY <2>1
    <2>3. m.nonce \in Asks
      BY DEF RegistryTyped, MessageType, Messages
    <2>4. MessageType(Answer(t, what, m.nonce, t))
      BY <2>3, AnswerType DEF Tags, Keys
    <2>5. UNCHANGED <<groups, pending, attempts, asks, now, told>>
      BY <1>2 DEF PeerAnswers
    <2>6. /\ net' \subseteq net \cup {Answer(t, what, m.nonce, t)}
          /\ asks' = asks /\ UNCHANGED <<groups, pending, attempts, now, told>>
      BY <2>2, <2>5
    <2> QED
      BY <2>4, <2>6, SendsTyped
  <1>3. ASSUME NEW t \in GroupTags, GroupServerAsks(t) PROVE RegistryTyped'
    <2>1. PICK gid \in Gids : Sends(Request(t, "registerGroup", gid, t))
      BY <1>3 DEF GroupServerAsks
    <2>2. /\ net' = net \cup {Request(t, "registerGroup", gid, t)}
          /\ asks' = asks + 1 /\ asks < MaxAsks
          /\ UNCHANGED <<groups, pending, attempts, now, told>>
      BY <1>3, <2>1 DEF GroupServerAsks, Sends
    <2>3. MessageType(Request(t, "registerGroup", gid, t))
      BY <2>2, RequestType DEF Requests, Tags, Keys
    <2> QED
      BY <2>2, <2>3, SendsTyped
  <1>4. ASSUME NEW t \in GroupTags, GroupServerAnswers(t) PROVE RegistryTyped'
    <2>1. PICK m \in net :
            net' = (net \ {m}) \cup {Answer(t, "registerGroupResponse", m.nonce, t)}
      BY <1>4 DEF GroupServerAnswers
    <2>2. m.nonce \in Asks
      BY DEF RegistryTyped, MessageType, Messages
    <2>3. MessageType(Answer(t, "registerGroupResponse", m.nonce, t))
      BY <2>2, AnswerType DEF Tags, Keys
    <2>4. UNCHANGED <<groups, pending, attempts, asks, now, told>>
      BY <1>4 DEF GroupServerAnswers
    <2>5. /\ net' \subseteq net \cup {Answer(t, "registerGroupResponse", m.nonce, t)}
          /\ asks' = asks /\ UNCHANGED <<groups, pending, attempts, now, told>>
      BY <2>1, <2>4
    <2> QED
      BY <2>3, <2>5, SendsTyped
  <1> QED
    BY <1>1, <1>2, <1>3, <1>4 DEF Peers

LEMMA TickTyped == RegistryInv /\ RegistryTyped /\ Tick => RegistryTyped'
  <1> SUFFICES ASSUME RegistryInv, RegistryTyped, Tick PROVE RegistryTyped'
    OBVIOUS
  <1>1. \A b \in Nat \ {0} : \A a \in 0..b : Older(a, b) \in 0..b
    BY DEF Older
  <1>2. EntriesTyped'
    <2> DEFINE New(e) == [e EXCEPT !.age = Older(@, TTL)]
    <2>1. pending' = {New(e) : e \in pending}
      BY DEF Tick
    <2>2. \A e \in pending : /\ New(e).map = e.map /\ New(e).tag = e.tag
                             /\ New(e).name = e.name /\ New(e).key = e.key
                             /\ New(e).nonce = e.nonce /\ New(e).checked = e.checked
                             /\ New(e).age = Older(e.age, TTL)
      BY DEF RegistryInv, AgesSound, EntryRecord
    <2> HIDE DEF New
    <2>3. \A e \in pending : EntryType(New(e))
      BY <1>1, <2>2, RegistryAssumption DEF RegistryTyped, EntriesTyped, EntryType
    <2> QED
      BY <2>1, <2>2, <2>3 DEF RegistryTyped, EntriesTyped
  <1>3. \A g \in groups' : RowType(g)
    <2> DEFINE New(g) == [g EXCEPT !.age = Older(@, TTL)]
    <2>1. groups' = {New(g) : g \in groups}
      BY DEF Tick
    <2>2. \A g \in groups : /\ New(g).gid = g.gid /\ New(g).key = g.key
                            /\ New(g).by = g.by /\ New(g).raced = g.raced
                            /\ New(g).age = Older(g.age, TTL)
      BY DEF RegistryInv, AgesSound, RowRecord
    <2> HIDE DEF New
    <2> QED
      BY <1>1, <2>1, <2>2, RegistryAssumption DEF RegistryTyped, RowType
  <1>4. AttemptsTyped'
    <2> DEFINE New(t) == [i \in DOMAIN attempts[t] |-> Older(attempts[t][i], Window)]
    <2>1. attempts' = [t \in Tags |-> New(t)]
      BY DEF Tick
    <2>2. ASSUME NEW t \in Tags PROVE New(t) \in Seq(0..Window) /\ Len(New(t)) <= Limit
      <3>1. attempts[t] \in Seq(0..Window) /\ Len(attempts[t]) <= Limit
        BY DEF RegistryTyped, AttemptsTyped
      <3>2. /\ DOMAIN attempts[t] = 1 .. Len(attempts[t]) /\ Len(attempts[t]) \in Nat
            /\ \A i \in 1 .. Len(attempts[t]) : attempts[t][i] \in 0..Window
        BY <3>1, Elements
      <3>3. \A i \in 1 .. Len(attempts[t]) : Older(attempts[t][i], Window) \in 0..Window
        BY <1>1, <3>2, RegistryAssumption
      <3>4. New(t) = [i \in 1 .. Len(attempts[t]) |-> Older(attempts[t][i], Window)]
        BY <3>2
      <3> HIDE DEF New
      <3> QED
        BY <3>1, <3>2, <3>3, <3>4
    <2> HIDE DEF New
    <2> QED
      BY <2>1, <2>2 DEF AttemptsTyped
  <1>5. now' \in 0..MaxTime /\ UNCHANGED <<net, asks, told>>
    BY RegistryAssumption DEF Tick, RegistryTyped
  <1> QED
    BY <1>2, <1>3, <1>4, <1>5 DEF RegistryTyped
-----------------------------------------------------------------------------
(* Types of the application's state. *)

LinkTyped == /\ {svc, rx, loop} \subseteq Conns \cup {None}
             /\ opened \in 0..MaxAsks \cup Conns
             /\ connecting \subseteq {"user", "monitor"}

ChanTyped == chan \in [Conns -> Seq(Messages)]

DiskTyped == file \in [Names -> Keys \cup {NoKey}] /\ rows \in [Names -> Keys \cup {NoKey}]

MemoryTyped == {user, keys, mls} \subseteq Names \cup {None}

CommandTyped == /\ {cmd.rx, cmd.conn} \subseteq Conns \cup {None}
                /\ cmd.name \in Names \cup {None} /\ cmd.key \in Keys \cup {NoKey}
                /\ cmd.op \in {"none", "register", "ping"}
                /\ cmd.op # "none" => cmd.name \in Names /\ cmd.conn \in Conns
                /\ cmd.op = "register" => cmd.key \in Keys

HistoryTyped == {late, moved} \subseteq BOOLEAN

SessionTyped == /\ LinkTyped /\ ChanTyped /\ DiskTyped /\ MemoryTyped
                /\ CommandTyped /\ HistoryTyped

LEMMA ConnsAreTags == Conns \subseteq Tags /\ None \notin Conns /\ Asks \subseteq Keys
  BY RegistryAssumption, SessionAssumption DEF Conns, Tags, Keys, None

LEMMA TypedUnchanged == RegistryTyped /\ UNCHANGED registryVars => RegistryTyped'
  BY DEF registryVars, RegistryTyped, EntriesTyped, AttemptsTyped

\* What a command sends.
LEMMA AuthSends == RegistryTyped /\ SessionTyped /\ Auth => RegistryTyped'
  <1> SUFFICES ASSUME RegistryTyped, SessionTyped, Auth PROVE RegistryTyped'
    OBVIOUS
  <1>1. ASSUME NEW n \in Names, RegisterUser(n) PROVE RegistryTyped'
    <2>1. asks + 1 \in Keys /\ asks + 1 \in 0..MaxAsks
      BY <1>1, ConnsAreTags, RegistryAssumption DEF RegistryTyped, RegisterUser, Asks
    <2>2. UNCHANGED <<groups, pending, attempts, now, told>>
      BY <1>1 DEF RegisterUser
    <2>3. CASE asks' = asks + 1 /\ net' = net
      BY <2>1, <2>2, <2>3 DEF RegistryTyped, EntriesTyped, AttemptsTyped
    <2>4. CASE svc # None /\ Sends(Request(svc, "register", n, asks + 1))
      <3>1. svc \in Tags
        BY <2>4, ConnsAreTags DEF SessionTyped, LinkTyped
      <3>2. /\ net' = net \cup {Request(svc, "register", n, asks + 1)}
            /\ asks' = asks + 1 /\ asks < MaxAsks
        BY <2>4 DEF Sends
      <3>3. MessageType(Request(svc, "register", n, asks + 1))
        BY <2>1, <3>1, <3>2, RequestType DEF Requests
      <3> QED
        BY <2>2, <3>2, <3>3, SendsTyped
    <2> QED
      BY <1>1, <2>3, <2>4 DEF RegisterUser
  <1>2. ASSUME NEW n \in Names, PingServer(n) PROVE RegistryTyped'
    <2>1. UNCHANGED <<groups, pending, attempts, now, told>>
      BY <1>2 DEF PingServer
    <2>2. CASE net' = net /\ asks' = asks
      BY <2>1, <2>2 DEF RegistryTyped, EntriesTyped, AttemptsTyped
    <2>3. CASE svc # None /\ Sends(Request(svc, "ping", n, LoadKeys(n)))
      <3>1. svc \in Tags
        BY <2>3, ConnsAreTags DEF SessionTyped, LinkTyped
      <3>2. /\ net' = net \cup {Request(svc, "ping", n, LoadKeys(n))}
            /\ asks' = asks + 1 /\ asks < MaxAsks
        BY <2>3 DEF Sends
      <3>3. LoadKeys(n) \in Keys \cup {NoKey}
        BY DEF LoadKeys, SessionTyped, DiskTyped
      <3>4. MessageType(Request(svc, "ping", n, LoadKeys(n)))
        BY <3>1, <3>2, <3>3, RequestType DEF Requests
      <3> QED
        BY <2>1, <3>2, <3>4, SendsTyped
    <2> QED
      BY <1>2, <2>2, <2>3 DEF PingServer
  <1>3. CASE ProcessRegisterChallenge
    <2>1. PICK a : a = Answer(cmd.conn, "registrationResponse", Incoming.nonce, cmd.key)
      OBVIOUS
    <2>2. net' = net \cup {a} /\ UNCHANGED <<groups, pending, attempts, asks, now, told>>
      BY <1>3, <2>1 DEF ProcessRegisterChallenge
    <2>3. Incoming \in Messages /\ cmd.rx \in Conns
      <3>1. cmd.rx \in Conns /\ chan[cmd.rx] # <<>>
        BY <1>3 DEF ProcessRegisterChallenge, Waits, SessionTyped, CommandTyped
      <3>2. chan[cmd.rx] \in Seq(Messages)
        BY <3>1 DEF SessionTyped, ChanTyped
      <3> QED
        BY <3>1, <3>2, Elements DEF Incoming
    <2>4. Incoming.nonce \in Asks /\ cmd.key \in Keys \cup {NoKey}
      BY <2>3 DEF Messages, SessionTyped, CommandTyped
    <2>5. cmd.conn \in Tags
      BY <1>3, ConnsAreTags DEF ProcessRegisterChallenge, Waits, SessionTyped, CommandTyped
    <2>6. MessageType(a)
      BY <2>1, <2>4, <2>5, AnswerType
    <2> QED
      BY <2>2, <2>6, SendsTyped
  <1>4. CASE UNCHANGED registryVars
    BY <1>4, TypedUnchanged
  <1>5. \/ \E n \in Names : RegisterUser(n) \/ PingServer(n)
        \/ ProcessRegisterChallenge
        \/ UNCHANGED registryVars
    BY DEF Auth, TakeIncomingRx, Timeout, RegisterRefusedReply, RegisterSucceeds,
           RegisterNotStored, RegisterIgnores, PongSuccess, PongError, PingIgnores
  <1> QED
    BY <1>1, <1>2, <1>3, <1>4, <1>5

\* A command is begun, gets a receiver, goes on or ends.
LEMMA CommandStep == CommandTyped /\ CommandShape /\ RegistryTyped /\ SessionTyped
                       /\ [SessionNext]_vars => CommandTyped'
  <1> SUFFICES ASSUME CommandTyped, CommandShape, RegistryTyped, SessionTyped,
                      [SessionNext]_vars
               PROVE  CommandTyped'
    OBVIOUS
  <1>1. CASE UNCHANGED cmd
    BY <1>1 DEF CommandTyped
  <1>2. CASE cmd' = Idle
    BY <1>2 DEF CommandTyped, Idle
  <1>3. CASE rx # None /\ cmd' = [cmd EXCEPT !.rx = rx]
    <2>1. /\ cmd'.op = cmd.op /\ cmd'.name = cmd.name /\ cmd'.key = cmd.key
          /\ cmd'.conn = cmd.conn /\ cmd'.rx = rx
      BY <1>3 DEF CommandShape
    <2> QED
      BY <2>1 DEF CommandTyped, SessionTyped, LinkTyped
  <1>4. ASSUME NEW n \in Names, NEW op \in {"register", "ping"}, NEW k \in Keys \cup {NoKey},
               op = "register" => k \in Keys, svc # None, Begin(op, n, k)
        PROVE  CommandTyped'
    <2>1. /\ cmd'.op = op /\ cmd'.name = n /\ cmd'.key = k
          /\ cmd'.conn = svc /\ cmd'.rx = None
      BY <1>4 DEF Begin, Idle
    <2> QED
      BY <1>4, <2>1 DEF CommandTyped, SessionTyped, LinkTyped
  <1>5. ASSUME NEW n \in Names, RegisterUser(n) PROVE CommandTyped'
    <2>1. asks + 1 \in Keys
      BY <1>5, ConnsAreTags, RegistryAssumption DEF RegistryTyped, RegisterUser, Asks
    <2> QED
      BY <1>1, <1>4, <1>5, <2>1 DEF RegisterUser
  <1>6. ASSUME NEW n \in Names, PingServer(n) PROVE CommandTyped'
    <2>1. LoadKeys(n) \in Keys \cup {NoKey}
      BY DEF LoadKeys, SessionTyped, DiskTyped
    <2> QED
      BY <1>1, <1>4, <1>6, <2>1 DEF PingServer
  <1>7. CASE TakeIncomingRx
    BY <1>2, <1>3, <1>7 DEF TakeIncomingRx
  <1>8. CASE Timeout \/ RegisterRefusedReply \/ RegisterNotStored \/ PongError
    BY <1>2, <1>8 DEF Timeout, RegisterRefusedReply, RegisterNotStored, PongError, PutBack
  <1>9. CASE RegisterSucceeds \/ PongSuccess
    BY <1>2, <1>9 DEF RegisterSucceeds, PongSuccess, LogIn, StartBackgroundTasks
  <1>10. CASE ProcessRegisterChallenge \/ RegisterIgnores \/ PingIgnores
    BY <1>1, <1>10 DEF ProcessRegisterChallenge, RegisterIgnores, PingIgnores
  <1>11. CASE Link
    BY <1>1, <1>2, <1>11
    DEF Link, Connect, Monitor, BeginConnect, Disconnect, Logout, Quit, Connected, ConnectFails
  <1>12. CASE UNCHANGED sessionVars \/ (\E m \in net : Arrive(m)) \/ UNCHANGED vars
    BY <1>1, <1>12 DEF sessionVars, Arrive, vars
  <1> QED
    BY <1>5, <1>6, <1>7, <1>8, <1>9, <1>10, <1>11, <1>12 DEF SessionNext, Auth

\* Receivers are kept, or dropped with what they hold.
LEMMA LinkChan ==
    ASSUME Link
    PROVE  UNCHANGED chan \/ \E kept : DropReceivers(kept)
  <1>1. CASE Connect \/ Monitor \/ ConnectFails("user") \/ ConnectFails("monitor")
    BY <1>1 DEF Connect, Monitor, BeginConnect, ConnectFails
  <1>2. CASE Connected("user") \/ Connected("monitor")
    BY <1>2 DEF Connected, SetMixnetService
  <1>3. CASE Disconnect \/ Logout
    BY <1>3 DEF Disconnect, Logout, ClearMixnetService
  <1>4. CASE Quit
    BY <1>4 DEF Quit
  <1> QED
    BY <1>1, <1>2, <1>3, <1>4 DEF Link

\* What arrives over a connection is a message, and is read from the front.
LEMMA ChanStep == RegistryTyped /\ SessionTyped /\ [SessionNext]_vars => ChanTyped'
  <1> SUFFICES ASSUME RegistryTyped, SessionTyped, [SessionNext]_vars PROVE ChanTyped'
    OBVIOUS
  <1>1. ASSUME NEW c \in Conns, NEW s \in Seq(Messages), chan' = [chan EXCEPT ![c] = s]
        PROVE  ChanTyped'
    BY <1>1 DEF SessionTyped, ChanTyped
  <1>2. CASE UNCHANGED chan
    BY <1>2 DEF SessionTyped, ChanTyped
  <1>3. ASSUME NEW m \in net, Arrive(m) PROVE ChanTyped'
    <2>1. m.to \in Conns /\ m \in Messages
      BY <1>3 DEF Arrive, RegistryTyped, MessageType
    <2>2. PICK s : s = Append(chan[m.to], m)
      OBVIOUS
    <2>3. s \in Seq(Messages)
      BY <2>1, <2>2 DEF SessionTyped, ChanTyped
    <2>4. chan' = chan \/ chan' = [chan EXCEPT ![m.to] = s]
      BY <1>3, <2>2 DEF Arrive
    <2> QED
      BY <1>1, <1>2, <2>1, <2>3, <2>4
  <1>4. CASE cmd.rx # None /\ chan[cmd.rx] # <<>> /\ Read
    <2>1. cmd.rx \in Conns
      BY <1>4 DEF SessionTyped, CommandTyped
    <2>2. PICK s : s = Tail(chan[cmd.rx])
      OBVIOUS
    <2>3. s \in Seq(Messages)
      BY <1>4, <2>1, <2>2 DEF SessionTyped, ChanTyped
    <2>4. chan' = [chan EXCEPT ![cmd.rx] = s]
      BY <1>4, <2>2 DEF Read
    <2> QED
      BY <1>1, <2>1, <2>3, <2>4
  <1>5. CASE cmd.rx # None /\ chan' = [chan EXCEPT ![cmd.rx] = <<>>]
    <2>1. cmd.rx \in Conns /\ <<>> \in Seq(Messages)
      BY <1>5 DEF SessionTyped, CommandTyped
    <2> QED
      BY <1>1, <1>5, <2>1
  <1>6. CASE Auth
    <2>1. CASE ProcessRegisterChallenge \/ RegisterIgnores \/ PingIgnores
      BY <1>4, <2>1 DEF ProcessRegisterChallenge, RegisterIgnores, PingIgnores, Waits
    <2>2. CASE RegisterRefusedReply \/ RegisterNotStored \/ PongError
      BY <1>4, <2>2 DEF RegisterRefusedReply, RegisterNotStored, PongError, Waits
    <2>3. CASE RegisterSucceeds \/ PongSuccess
      BY <1>5, <2>3 DEF RegisterSucceeds, PongSuccess, Waits, LogIn
    <2>4. CASE TakeIncomingRx \/ Timeout \/ \E n \in Names : RegisterUser(n) \/ PingServer(n)
      BY <1>2, <2>4 DEF TakeIncomingRx, Timeout, RegisterUser, PingServer
    <2> QED
      BY <1>6, <2>1, <2>2, <2>3, <2>4 DEF Auth
  <1>7. CASE Link
    <2>1. ASSUME NEW kept, DropReceivers(kept) PROVE ChanTyped'
      <3>1. <<>> \in Seq(Messages)
        OBVIOUS
      <3> QED
        BY <2>1, <3>1 DEF DropReceivers, SessionTyped, ChanTyped
    <2> QED
      BY <1>2, <1>7, <2>1, LinkChan
  <1> QED
    BY <1>2, <1>3, <1>6, <1>7 DEF SessionNext, sessionVars, vars

\* Everything else is a name, a key or a connection the step takes from elsewhere.
LEMMA RestStep ==
    ASSUME RegistryTyped, SessionTyped, [SessionNext]_vars
    PROVE  LinkTyped' /\ DiskTyped' /\ MemoryTyped' /\ HistoryTyped'
  <1> USE DEF SessionTyped, LinkTyped, DiskTyped, MemoryTyped, HistoryTyped
  <1>1. CASE UNCHANGED <<link, disk, memory, history>>
    BY <1>1 DEF link, disk, memory, history
  <1>2. ASSUME NEW n \in Names, RegisterUser(n)
        PROVE  LinkTyped' /\ DiskTyped' /\ MemoryTyped' /\ HistoryTyped'
    <2>1. asks + 1 \in Keys
      BY <1>2, ConnsAreTags, RegistryAssumption DEF RegistryTyped, RegisterUser, Asks
    <2>2. file' \in [Names -> Keys \cup {NoKey}]
      BY <1>2, <2>1 DEF RegisterUser, SaveKeys
    <2> QED
      BY <1>2, <2>2 DEF RegisterUser, link, memory, history
  <1>3. ASSUME NEW n \in Names, PingServer(n)
        PROVE  LinkTyped' /\ DiskTyped' /\ MemoryTyped' /\ HistoryTyped'
    BY <1>3 DEF PingServer, link, disk, history
  <1>4. CASE TakeIncomingRx
    BY <1>4 DEF TakeIncomingRx, disk, memory, history
  <1>5. CASE Timeout
    <2>1. late' = TRUE /\ UNCHANGED moved
      BY <1>5 DEF Timeout
    <2> QED
      BY <1>5, <2>1 DEF Timeout, PutBack, disk, CommandTyped
  <1>6. CASE RegisterRefusedReply \/ PongError
    BY <1>6 DEF RegisterRefusedReply, PongError, PutBack, disk, memory, history, CommandTyped
  <1>7. CASE RegisterSucceeds \/ PongSuccess
    <2>1. cmd.op # "none" /\ cmd.rx # None /\ cmd.name \in Names
      BY <1>7 DEF RegisterSucceeds, PongSuccess, Waits, CommandTyped
    <2>2. UNCHANGED file /\ \/ UNCHANGED rows
                            \/ /\ cmd.op = "register"
                               /\ rows' = [rows EXCEPT ![cmd.name] = cmd.key]
      BY <1>7 DEF RegisterSucceeds, PongSuccess, Waits, disk
    <2>3. DiskTyped'
      BY <2>1, <2>2 DEF CommandTyped
    <2>4. /\ user' = cmd.name /\ keys' = cmd.name
          /\ mls' \in {mls, cmd.name, None}
          /\ loop' = cmd.rx /\ connecting' \subseteq connecting
          /\ UNCHANGED <<svc, rx, opened, late, moved>>
      BY <1>7 DEF RegisterSucceeds, PongSuccess, LogIn, InitializeMls, StartBackgroundTasks
    <2> QED
      BY <2>3, <2>4 DEF CommandTyped
  <1>8. CASE Connected("user") \/ Connected("monitor")
    <2>1. /\ svc' = opened + 1 /\ rx' = opened + 1 /\ opened' = opened + 1
          /\ opened + 1 \in Conns /\ connecting' \subseteq connecting
          /\ UNCHANGED <<loop, file, rows, user, keys, mls, late>>
      BY <1>8 DEF Connected, SetMixnetService, disk, memory
    <2>2. moved' \in BOOLEAN
      BY <1>8 DEF Connected
    <2> QED
      BY <2>1, <2>2
  <1>9. CASE Connect \/ Monitor \/ ConnectFails("user") \/ ConnectFails("monitor")
    BY <1>9 DEF Connect, Monitor, BeginConnect, ConnectFails, disk, memory, history
  <1>10. CASE Disconnect \/ Logout \/ Quit
    <2>1. /\ svc' = None /\ rx' = None /\ loop' \in {loop, None}
          /\ opened' = opened /\ connecting' \subseteq connecting
          /\ user' \in {user, None} /\ keys' \in {keys, None} /\ mls' \in {mls, None}
          /\ UNCHANGED <<file, rows>>
      BY <1>10 DEF Disconnect, Logout, Quit, ClearMixnetService, StopBackgroundTasks,
                   disk, memory
    <2>2. late' \in BOOLEAN /\ moved' \in BOOLEAN
      BY <1>10 DEF Disconnect, Logout, Quit, disk
    <2> QED
      BY <2>1, <2>2
  <1> QED
    BY <1>1, <1>2, <1>3, <1>4, <1>5, <1>6, <1>7, <1>8, <1>9, <1>10
    DEF SessionNext, Auth, Link, Arrive, RegisterNotStored, RegisterIgnores, PingIgnores,
        ProcessRegisterChallenge, sessionVars, vars, link, disk, memory, history
-----------------------------------------------------------------------------
(* One attempt to register at a time. *)

Results == {"challenge", "registered", "refused"}

\* What is under way for a registration over connection c: messages, results
\* that have arrived, and the server's entries.
OfRegistration(m, c) == \/ m.from = c /\ m.what \in {"register", "registrationResponse"}
                        \/ m.to = c /\ m.what \in Results
Under(c) == {m \in net : OfRegistration(m, c)}
Got(c)   == {i \in DOMAIN chan[c] : chan[c][i].what \in Results}
Given(c) == {e \in pending : e.map = "users" /\ e.tag = c}

Quiet(c) == Under(c) = {} /\ Got(c) = {} /\ Given(c) = {}

\* All of it is of the command that runs; one message or result is under way,
\* and an entry is there only until it is answered.
Mine(c) ==
  /\ cmd.op = "register" /\ cmd.conn = c
  /\ \A m, n \in Under(c) : m = n
  /\ \A i, j \in Got(c) : i = j
  /\ Under(c) = {} \/ Got(c) = {}
  /\ \A m \in Under(c) : /\ m.what = "register" => m.name = cmd.name /\ m.key = cmd.key
                         /\ m.what = "registered" => users[cmd.name] = cmd.key
  /\ \A i \in Got(c) : chan[c][i].what = "registered" => users[cmd.name] = cmd.key
  /\ \A e \in Given(c) :
       /\ e.name = cmd.name /\ e.key = cmd.key
       /\ \A m \in Under(c) : m.what \in {"challenge", "registrationResponse"}
       /\ \A i \in Got(c) : chan[c][i].what = "challenge"

\* A command may come to read c: it has the receiver, or c is not open yet.
Readable(c) == c \in {rx, cmd.rx} \/ c > opened

OneAttempt ==
  /\ \A m \in net : m.from \in AppTags =>
                      m.what \in {"register", "ping", "registrationResponse"}
  /\ svc <= opened /\ cmd.conn <= opened
  /\ cmd.op = "none" => cmd.rx = None
  /\ ~late => \A c \in Conns : Readable(c) => Quiet(c) \/ Mine(c)

Typed == RegistryInv /\ RegistryTyped /\ SessionTyped /\ CommandShape

\* A row of the server stays.
LEMMA KeysStay ==
    ASSUME Typed, [SessionNext]_vars
    PROVE  \A n \in Names : users[n] # NoKey => users'[n] = users[n]
  <1>1. CASE UNCHANGED users
    BY <1>1
  <1>2. ASSUME NEW m \in net, HandleRegistrationResponse(m)
        PROVE  \A n \in Names : users[n] # NoKey => users'[n] = users[n]
    <2>1. CASE RegistrationFails(m)
      BY <1>1, <2>1 DEF RegistrationFails
    <2>2. CASE RegistrationVerified(m)
      BY <2>2 DEF RegistrationVerified, AddUser, Registered, Typed, RegistryInv
    <2> QED
      BY <1>2, <2>1, <2>2 DEF HandleRegistrationResponse
  <1>3. CASE Server
    BY <1>1, <1>2, <1>3
    DEF Server, HandleRegister, HandleLogin, HandleLoginResponse, HandlePing, HandleQuery,
        HandleRegisterGroup, HandleRegisterGroupResponse
  <1>4. CASE Peers \/ Tick
    BY <1>1, <1>4 DEF Peers, PeerAsks, PeerAnswers, GroupServerAsks, GroupServerAnswers, Tick
  <1>5. CASE Auth
    BY <1>1, <1>5
    DEF Auth, RegisterUser, PingServer, TakeIncomingRx, Timeout, ProcessRegisterChallenge,
        RegisterRefusedReply, RegisterSucceeds, RegisterNotStored, RegisterIgnores,
        PongSuccess, PongError, PingIgnores, registryVars
  <1>6. CASE Link
    BY <1>1, <1>6, LinkStep DEF registryVars
  <1> QED
    BY <1>1, <1>3, <1>4, <1>5, <1>6 DEF SessionNext, Arrive, registryVars, vars

\* No more is under way than before; read says how many results were read.
Fewer(c, read) ==
  /\ Under(c)' \subseteq Under(c)
  /\ \A i \in Got(c)' : /\ i \in Nat /\ i + read \in Got(c)
                        /\ chan'[c][i].what = chan[c][i + read].what
  /\ \A e \in Given(c)' : \E d \in Given(c) : d.name = e.name /\ d.key = e.key

LEMMA QuietKept ==
    ASSUME NEW c, NEW read \in {0, 1}, Quiet(c), Fewer(c, read)
    PROVE  Quiet(c)'
  BY DEF Quiet, Fewer

LEMMA MineKept ==
    ASSUME Typed, NEW c, NEW read \in {0, 1}, Mine(c), Fewer(c, read),
           \A n \in Names : users[n] # NoKey => users'[n] = users[n],
           cmd'.op = cmd.op, cmd'.conn = cmd.conn, cmd'.name = cmd.name, cmd'.key = cmd.key
    PROVE  Mine(c)'
  <1>1. cmd.name \in Names /\ cmd.key # NoKey
    BY NoKeyIsNone DEF Mine, Typed, SessionTyped, CommandTyped
  <1>2. users[cmd.name] = cmd.key => users'[cmd.name] = cmd.key
    BY <1>1
  <1>3. \A m, n \in Under(c)' : m = n
    BY DEF Mine, Fewer
  <1>4. \A i, j \in Got(c)' : i = j
    <2> TAKE i, j \in Got(c)'
    <2>1. i \in Nat /\ j \in Nat /\ i + read = j + read
      BY DEF Mine, Fewer
    <2> QED
      BY <2>1
  <1>5. (Under(c) = {} \/ Got(c) = {})'
    BY DEF Mine, Fewer
  <1>6. \A m \in Under(c)' : /\ m.what = "register" => m.name = cmd.name /\ m.key = cmd.key
                             /\ m.what = "registered" => users'[cmd.name] = cmd.key
    BY <1>2 DEF Mine, Fewer
  <1>7. \A i \in Got(c)' : chan'[c][i].what = "registered" => users'[cmd.name] = cmd.key
    BY <1>2 DEF Mine, Fewer
  <1>8. ASSUME NEW e \in Given(c)'
        PROVE  /\ e.name = cmd.name /\ e.key = cmd.key
               /\ \A m \in Under(c)' : m.what \in {"challenge", "registrationResponse"}
               /\ \A i \in Got(c)' : chan'[c][i].what = "challenge"
    <2>1. PICK d \in Given(c) : d.name = e.name /\ d.key = e.key
      BY DEF Fewer
    <2> QED
      BY <2>1 DEF Mine, Fewer
  <1> QED
    BY <1>3, <1>4, <1>5, <1>6, <1>7, <1>8 DEF Mine

LEMMA SameGot ==
    ASSUME Typed, NEW c \in Conns, UNCHANGED chan
    PROVE  \A i \in Got(c)' : /\ i \in Nat /\ i + 0 \in Got(c)
                              /\ chan'[c][i].what = chan[c][i + 0].what
  <1>1. DOMAIN chan[c] \subseteq Nat
    BY Elements DEF Typed, SessionTyped, ChanTyped
  <1> QED
    BY <1>1 DEF Got

LEMMA DropGot ==
    ASSUME Typed, NEW c \in Conns, NEW kept, DropReceivers(kept)
    PROVE  \A i \in Got(c)' : /\ i \in Nat /\ i + 0 \in Got(c)
                              /\ chan'[c][i].what = chan[c][i + 0].what
  <1>1. chan'[c] = chan[c] \/ chan'[c] = <<>>
    BY DEF DropReceivers
  <1>2. CASE chan'[c] = chan[c]
    <2>1. DOMAIN chan[c] \subseteq Nat
      BY Elements DEF Typed, SessionTyped, ChanTyped
    <2> QED
      BY <1>2, <2>1 DEF Got
  <1>3. CASE chan'[c] = <<>>
    <2>1. DOMAIN <<>> = {}
      OBVIOUS
    <2>2. Got(c)' = {}
      BY <1>3, <2>1 DEF Got
    <2> QED
      BY <2>2
  <1> QED
    BY <1>1, <1>2, <1>3

LEMMA BothKept ==
    ASSUME Typed, NEW c, NEW read \in {0, 1}, Quiet(c) \/ Mine(c), Fewer(c, read),
           \A n \in Names : users[n] # NoKey => users'[n] = users[n],
           cmd'.op = cmd.op, cmd'.conn = cmd.conn, cmd'.name = cmd.name, cmd'.key = cmd.key
    PROVE  (Quiet(c) \/ Mine(c))'
  BY QuietKept, MineKept

\* What a message for another session, or one that is not about a registration,
\* makes of connection c.
LEMMA AsideStep ==
    ASSUME Typed, NEW c \in Conns, NEW m \in net, Handles(m),
           m.from # c \/ m.what \notin {"register", "registrationResponse"},
           m.from = c => m.what = "ping", UNCHANGED <<chan, cmd>>
    PROVE  Fewer(c, 0)
  <1>1. m.what \in Requests /\ m.from \in Tags /\ c # 0
    BY HandlerReplies, ConnsAreTags DEF Typed, None
  <1>2. Under(c)' \subseteq Under(c)
    <2>1. CASE net' \subseteq net
      BY <2>1 DEF Under
    <2>2. ASSUME NEW r, net' \subseteq net \cup {r}, r.from = 0,
                 r.to = c => r.what \notin Results
          PROVE  Under(c)' \subseteq Under(c)
      BY <1>1, <2>2 DEF Under, OfRegistration
    <2>3. CASE m.from # c
      <3>1. ASSUME NEW what, NEW nonce, NEW name, Reply(m, what, nonce, name)
            PROVE  Under(c)' \subseteq Under(c)
        <4>1. PICK r : r = ReplyTo(m, what, nonce, name)
          OBVIOUS
        <4>2. r.from = 0 /\ r.to = m.from /\ net' \subseteq net \cup {r}
          BY <3>1, <4>1 DEF ReplyTo, Reply, EncapsulatedReply, UnifiedReply, Replied
        <4> QED
          BY <2>2, <2>3, <4>2
      <3> QED
        BY <2>1, <3>1, HandlerReplies DEF Typed
    <2>4. CASE m.from = c
      <3>1. HandlePing(m)
        BY <2>4
        DEF Handles, HandleRegister, HandleRegistrationResponse, HandleLogin,
            HandleLoginResponse, HandlePing, HandleQuery, HandleRegisterGroup,
            HandleRegisterGroupResponse, Arrives
      <3>2. PICK what \in {"pong", "pongRefused"} : Reply(m, what, m.nonce, m.name)
        BY <3>1 DEF HandlePing
      <3>3. PICK r : r = ReplyTo(m, what, m.nonce, m.name)
        OBVIOUS
      <3>4. r.from = 0 /\ r.what = what /\ net' \subseteq net \cup {r}
        BY <3>2, <3>3 DEF ReplyTo, Reply, EncapsulatedReply, UnifiedReply, Replied
      <3> QED
        BY <2>2, <3>4 DEF Results
    <2> QED
      BY <2>3, <2>4
  <1>3. \A e \in Given(c)' : e \in Given(c)
    <2>1. Fresh \subseteq pending
      BY DEF Fresh
    <2>2. CASE pending' \subseteq Fresh
      BY <2>1, <2>2 DEF Given
    <2>3. ASSUME NEW map, NEW key, NEW checked, Insert(map, m, key, checked),
                 map # "users" \/ m.from # c
          PROVE  Given(c)' \subseteq Given(c)
      <3>1. PICK e : e = Entry(map, m, key, checked)
        OBVIOUS
      <3>2. e.map = map /\ e.tag = m.from /\ pending' \subseteq Fresh \cup {e}
        BY <2>3, <3>1 DEF Entry, Insert
      <3> QED
        BY <2>1, <2>3, <3>2 DEF Given
    <2>4. CASE HandleRegister(m)
      <3>1. m.from # c
        BY <2>4 DEF HandleRegister, Arrives
      <3> QED
        BY <2>2, <2>3, <2>4, <3>1 DEF HandleRegister, RegisterRefused, RegisterChallenged
    <2>5. CASE HandleLogin(m)
      BY <2>2, <2>3, <2>5 DEF HandleLogin, LoginRefused, LoginChallenged
    <2>6. CASE HandleRegisterGroup(m)
      BY <2>2, <2>3, <2>6 DEF HandleRegisterGroup
    <2>7. CASE \/ HandleRegistrationResponse(m) \/ HandleLoginResponse(m)
               \/ HandleRegisterGroupResponse(m) \/ HandlePing(m) \/ HandleQuery(m)
      BY <2>2, <2>7
      DEF HandleRegistrationResponse, HandleLoginResponse, HandleRegisterGroupResponse,
          HandlePing, HandleQuery, Remove
    <2> QED
      BY <2>4, <2>5, <2>6, <2>7 DEF Handles
  <1> QED
    BY <1>2, <1>3, SameGot DEF Fewer

\* The request of the command: it is refused, or challenged with an entry.
LEMMA RequestStep ==
    ASSUME Typed, NEW c \in Conns, Mine(c), NEW m \in net, HandleRegister(m), m.from = c,
           UNCHANGED <<chan, cmd>>
    PROVE  Mine(c)'
  <1>1. m.what = "register" /\ UNCHANGED users
    BY DEF HandleRegister, Arrives
  <1>2. m \in Under(c) /\ Got(c) = {} /\ (\A n \in Under(c) : n = m)
        /\ m.name = cmd.name /\ m.key = cmd.key
    BY <1>1 DEF Under, OfRegistration, Mine
  <1>3. Given(c) = {}
    BY <1>1, <1>2 DEF Mine
  <1>4. Got(c)' = {} /\ c # 0
    BY <1>2, ConnsAreTags DEF Got, None
  <1>5. PICK what \in {"refused", "challenge"} :
          /\ Reply(m, what, m.nonce, m.name)
          /\ \/ pending' = Fresh
             \/ what = "challenge" /\ Insert("users", m, m.key, TRUE)
    BY DEF HandleRegister, RegisterRefused, RegisterChallenged
  <1>6. PICK r : r = ReplyTo(m, what, m.nonce, m.name)
    OBVIOUS
  <1>7. r.what = what /\ net' \subseteq (net \ {m}) \cup {r}
    BY <1>5, <1>6 DEF ReplyTo, Reply, EncapsulatedReply, UnifiedReply, Replied
  <1>8. \A n \in Under(c)' : n = r
    BY <1>2, <1>7 DEF Under, OfRegistration
  <1>9. Fresh \subseteq pending
    BY DEF Fresh
  <1>10. CASE pending' = Fresh
    <2>1. Given(c)' = {}
      BY <1>3, <1>9, <1>10 DEF Given
    <2> QED
      BY <1>4, <1>7, <1>8, <2>1 DEF Mine
  <1>11. CASE what = "challenge" /\ Insert("users", m, m.key, TRUE)
    <2>1. PICK e : e = Entry("users", m, m.key, TRUE)
      OBVIOUS
    <2>2. e.name = cmd.name /\ e.key = cmd.key /\ pending' \subseteq Fresh \cup {e}
      BY <1>2, <1>11, <2>1 DEF Entry, Insert
    <2>3. \A d \in Given(c)' : d = e
      BY <1>3, <1>9, <2>2 DEF Given
    <2> QED
      BY <1>4, <1>7, <1>8, <1>11, <2>2, <2>3 DEF Mine
  <1> QED
    BY <1>5, <1>10, <1>11

\* Its answer to the challenge uses the entry up.
LEMMA ResponseStep ==
    ASSUME Typed, NEW c \in Conns, Mine(c), NEW m \in net, HandleRegistrationResponse(m),
           m.from = c, UNCHANGED <<chan, cmd>>
    PROVE  Mine(c)'
  <1>1. m.what = "registrationResponse"
    BY DEF HandleRegistrationResponse, Arrives
  <1>2. m \in Under(c) /\ Got(c) = {} /\ (\A n \in Under(c) : n = m)
    BY <1>1 DEF Under, OfRegistration, Mine
  <1>3. Got(c)' = {} /\ c # 0
    BY <1>2, ConnsAreTags DEF Got, None
  <1>4. Given(c)' = {}
    BY DEF HandleRegistrationResponse, Remove, Given, Fresh, EntriesOf
  <1>5. ASSUME NEW what \in {"refused", "registered"}, NEW nonce, NEW name,
               Reply(m, what, nonce, name), what = "registered" => users'[cmd.name] = cmd.key
        PROVE  Mine(c)'
    <2>1. PICK r : r = ReplyTo(m, what, nonce, name)
      OBVIOUS
    <2>2. r.what = what /\ net' \subseteq (net \ {m}) \cup {r}
      BY <1>5, <2>1 DEF ReplyTo, Reply, EncapsulatedReply, UnifiedReply, Replied
    <2>3. \A n \in Under(c)' : n = r
      BY <1>2, <2>2 DEF Under, OfRegistration
    <2> QED
      BY <1>3, <1>4, <1>5, <2>2, <2>3 DEF Mine
  <1>6. CASE RegistrationFails(m)
    BY <1>5, <1>6 DEF RegistrationFails
  <1>7. CASE RegistrationVerified(m)
    <2>1. PICK e \in EntriesOf("users", m.from) :
            \/ AddUser(e) /\ Reply(m, "registered", e.nonce, e.name)
            \/ Reply(m, "refused", e.nonce, e.name)
      BY <1>7 DEF RegistrationVerified
    <2>2. e \in Given(c)
      BY DEF EntriesOf, Fresh, Given
    <2>3. e.name = cmd.name /\ e.key = cmd.key /\ e.name \in Names
      BY <2>2 DEF Mine, Given, Typed, RegistryInv, ChallengesSound
    <2>4. AddUser(e) => users'[cmd.name] = cmd.key
      BY <2>3 DEF AddUser, Typed, RegistryInv
    <2> QED
      BY <1>5, <2>1, <2>4
  <1> QED
    BY <1>6, <1>7 DEF HandleRegistrationResponse

LEMMA ServerAttempt ==
    ASSUME Typed, OneAttempt, Server, UNCHANGED sessionVars
    PROVE  OneAttempt'
  <1>1. PICK m \in net : Handles(m)
    BY DEF Server, Handles
  <1>2. [SessionNext]_vars /\ UNCHANGED <<rx, cmd, opened, svc, late, chan>>
    BY DEF SessionNext, sessionVars
  <1>3. \A n \in net' : n \in net \/ n.from = 0
    <2>1. ASSUME NEW what, NEW nonce, NEW name, Reply(m, what, nonce, name)
          PROVE  \A n \in net' : n \in net \/ n.from = 0
      BY <2>1 DEF ReplyTo, Reply, EncapsulatedReply, UnifiedReply, Replied
    <2> QED
      BY <1>1, <2>1, HandlerReplies DEF Typed
  <1>4. \A n \in net' : n.from \in AppTags =>
                          n.what \in {"register", "ping", "registrationResponse"}
    BY <1>3, ConnsAreTags DEF OneAttempt, Conns, None
  <1>5. ASSUME ~late, NEW c \in Conns, Quiet(c) \/ Mine(c) PROVE (Quiet(c) \/ Mine(c))'
    <2>1. CASE m.from # c \/ m.what \notin {"register", "registrationResponse"}
      <3>1. m.from = c => m.what = "ping"
        BY <2>1 DEF OneAttempt, Conns
      <3>2. Fewer(c, 0)
        BY <1>1, <1>2, <2>1, <3>1, AsideStep
      <3> QED
        BY <1>2, <1>5, <3>2, KeysStay, BothKept
    <2>2. CASE m.from = c /\ m.what \in {"register", "registrationResponse"}
      <3>1. m \in Under(c)
        BY <2>2 DEF Under, OfRegistration
      <3>2. Mine(c)
        BY <1>5, <3>1 DEF Quiet
      <3>3. HandleRegister(m) \/ HandleRegistrationResponse(m)
        BY <1>1, <2>2
        DEF Handles, HandleLogin, HandleLoginResponse, HandlePing, HandleQuery,
            HandleRegisterGroup, HandleRegisterGroupResponse, Arrives
      <3> QED
        BY <1>2, <2>2, <3>2, <3>3, RequestStep, ResponseStep
    <2> QED
      BY <2>1, <2>2
  <1> QED
    BY <1>2, <1>4, <1>5 DEF OneAttempt, Readable

\* What a peer or a group server sends is not of the application.
LEMMA PeersAttempt ==
    ASSUME Typed, OneAttempt, Peers, UNCHANGED sessionVars
    PROVE  OneAttempt'
  <1>1. [SessionNext]_vars /\ UNCHANGED <<pending, rx, cmd, opened, svc, late, chan>>
    BY DEF SessionNext, sessionVars, Peers, PeerAsks, PeerAnswers, GroupServerAsks,
           GroupServerAnswers
  <1>2. PICK t \in PeerTags \cup GroupTags :
          \E r : r.from = t /\ r.to = 0 /\ net' \subseteq net \cup {r}
    <2>1. ASSUME NEW t \in PeerTags \cup GroupTags, NEW what, NEW n, NEW k,
                 Sends(Request(t, what, n, k))
          PROVE  \E r : r.from = t /\ r.to = 0 /\ net' \subseteq net \cup {r}
      <3>1. PICK r : r = Request(t, what, n, k)
        OBVIOUS
      <3>2. r.from = t /\ r.to = 0
        BY <3>1 DEF Request
      <3> QED
        BY <2>1, <3>1, <3>2 DEF Sends
    <2>2. ASSUME NEW t \in PeerTags \cup GroupTags, NEW what, NEW m \in net, NEW k,
                 net' = (net \ {m}) \cup {Answer(t, what, m.nonce, k)}
          PROVE  \E r : r.from = t /\ r.to = 0 /\ net' \subseteq net \cup {r}
      <3>1. PICK r : r = Answer(t, what, m.nonce, k)
        OBVIOUS
      <3>2. r.from = t /\ r.to = 0
        BY <3>1 DEF Answer
      <3> QED
        BY <2>2, <3>1, <3>2
    <2>3. ASSUME NEW t \in PeerTags, PeerAsks(t)
          PROVE  \E u \in PeerTags \cup GroupTags :
                   \E r : r.from = u /\ r.to = 0 /\ net' \subseteq net \cup {r}
      BY <2>1, <2>3 DEF PeerAsks
    <2>4. ASSUME NEW t \in PeerTags, PeerAnswers(t)
          PROVE  \E u \in PeerTags \cup GroupTags :
                   \E r : r.from = u /\ r.to = 0 /\ net' \subseteq net \cup {r}
      <3>1. PICK m \in net : \E what \in {"registrationResponse", "loginResponse"} :
              net' = (net \ {m}) \cup {Answer(t, what, m.nonce, t)}
        BY <2>4 DEF PeerAnswers
      <3>2. PICK what \in {"registrationResponse", "loginResponse"} :
              net' = (net \ {m}) \cup {Answer(t, what, m.nonce, t)}
        BY <3>1
      <3> QED
        BY <2>2, <3>2
    <2>5. ASSUME NEW t \in GroupTags, GroupServerAsks(t)
          PROVE  \E u \in PeerTags \cup GroupTags :
                   \E r : r.from = u /\ r.to = 0 /\ net' \subseteq net \cup {r}
      BY <2>1, <2>5 DEF GroupServerAsks
    <2>6. ASSUME NEW t \in GroupTags, GroupServerAnswers(t)
          PROVE  \E u \in PeerTags \cup GroupTags :
                   \E r : r.from = u /\ r.to = 0 /\ net' \subseteq net \cup {r}
      BY <2>2, <2>6 DEF GroupServerAnswers
    <2> QED
      BY <2>3, <2>4, <2>5, <2>6 DEF Peers
  <1>3. t \notin AppTags
    BY RegistryAssumption
  <1>4. ASSUME NEW c \in Conns PROVE Fewer(c, 0)
    <2>1. Under(c)' \subseteq Under(c)
      BY <1>2, <1>3, ConnsAreTags DEF Under, OfRegistration, Conns, None
    <2>2. \A e \in Given(c)' : e \in Given(c)
      BY <1>1 DEF Given
    <2> QED
      BY <1>1, <2>1, <2>2, SameGot DEF Fewer
  <1>5. ASSUME ~late, NEW c \in Conns, Quiet(c) \/ Mine(c) PROVE (Quiet(c) \/ Mine(c))'
    BY <1>1, <1>4, <1>5, KeysStay, BothKept
  <1> QED
    BY <1>1, <1>2, <1>3, <1>5 DEF OneAttempt, Readable

LEMMA TickAttempt ==
    ASSUME Typed, OneAttempt, Tick, UNCHANGED sessionVars
    PROVE  OneAttempt'
  <1>1. [SessionNext]_vars /\ UNCHANGED <<net, rx, cmd, opened, svc, late, chan>>
    BY DEF SessionNext, sessionVars, Tick
  <1>2. \A f \in pending' : \E e \in pending :
          f.map = e.map /\ f.tag = e.tag /\ f.name = e.name /\ f.key = e.key
    <2> DEFINE New(e) == [e EXCEPT !.age = Older(@, TTL)]
    <2>1. pending' = {New(e) : e \in pending}
      BY DEF Tick
    <2>2. \A e \in pending : /\ New(e).map = e.map /\ New(e).tag = e.tag
                             /\ New(e).name = e.name /\ New(e).key = e.key
      BY DEF Typed, RegistryInv, AgesSound, EntryRecord
    <2> HIDE DEF New
    <2> QED
      BY <2>1, <2>2
  <1>3. ASSUME NEW c \in Conns PROVE Fewer(c, 0)
    <2>1. Under(c)' \subseteq Under(c)
      BY <1>1 DEF Under
    <2>2. \A e \in Given(c)' : \E d \in Given(c) : d.name = e.name /\ d.key = e.key
      BY <1>2 DEF Given
    <2> QED
      BY <1>1, <2>1, <2>2, SameGot DEF Fewer
  <1>4. ASSUME ~late, NEW c \in Conns, Quiet(c) \/ Mine(c) PROVE (Quiet(c) \/ Mine(c))'
    BY <1>1, <1>3, <1>4, KeysStay, BothKept
  <1> QED
    BY <1>1, <1>4 DEF OneAttempt, Readable

\* A result that arrives is under way no more.
LEMMA ArriveAttempt ==
    ASSUME Typed, OneAttempt, NEW m \in net, Arrive(m)
    PROVE  OneAttempt'
  <1>1. [SessionNext]_vars /\ UNCHANGED <<users, pending, rx, cmd, opened, svc, late>>
        /\ net' = net \ {m} /\ m.to \in Conns
    BY DEF SessionNext, Arrive, link, history
  <1>2. ASSUME NEW c \in Conns
        PROVE  Under(c)' \subseteq Under(c) /\ Given(c)' = Given(c)
    BY <1>1 DEF Under, Given
  <1>3. ASSUME ~late, NEW c \in Conns, Quiet(c) \/ Mine(c) PROVE (Quiet(c) \/ Mine(c))'
    <2>1. CASE chan'[c] = chan[c]
      <3>1. DOMAIN chan[c] \subseteq Nat
        BY Elements DEF Typed, SessionTyped, ChanTyped
      <3>2. Fewer(c, 0)
        BY <1>2, <2>1, <3>1 DEF Fewer, Got
      <3> QED
        BY <1>1, <1>3, <3>2, KeysStay, BothKept
    <2>2. CASE m.to = c /\ chan'[c] = Append(chan[c], m)
      <3>1. chan[c] \in Seq(Messages)
        BY DEF Typed, SessionTyped, ChanTyped
      <3>2. PICK len \in Nat : /\ len = Len(chan[c]) /\ DOMAIN chan[c] = 1 .. len
                               /\ DOMAIN chan'[c] = 1 .. (len + 1)
                               /\ chan'[c][len + 1] = m
                               /\ \A i \in 1 .. len : chan'[c][i] = chan[c][i]
        BY <2>2, <3>1
      <3>3. CASE m.what \notin Results
        <4>1. Fewer(c, 0)
          BY <1>2, <3>2, <3>3 DEF Fewer, Got
        <4> QED
          BY <1>1, <1>3, <4>1, KeysStay, BothKept
      <3>4. CASE m.what \in Results
        <4>1. m \in Under(c)
          BY <2>2, <3>4 DEF Under, OfRegistration
        <4>2. Mine(c)
          BY <1>3, <4>1 DEF Quiet
        <4>3. Got(c) = {} /\ \A n \in Under(c) : n = m
          BY <4>1, <4>2 DEF Mine
        <4>4. Under(c)' = {}
          BY <1>1, <1>2, <4>3 DEF Under
        <4>5. \A i \in Got(c)' : i = len + 1 /\ chan'[c][i] = m
          BY <3>2, <4>3 DEF Got
        <4>6. m.what = "registered" => users'[cmd.name] = cmd.key
          BY <1>1, <4>1, <4>2 DEF Mine
        <4>7. \A e \in Given(c)' : e.name = cmd.name /\ e.key = cmd.key /\ m.what = "challenge"
          BY <1>2, <3>4, <4>1, <4>2 DEF Mine, Results
        <4> QED
          BY <1>1, <4>2, <4>4, <4>5, <4>6, <4>7 DEF Mine
      <3> QED
        BY <3>3, <3>4
    <2>3. chan'[c] = chan[c] \/ (m.to = c /\ chan'[c] = Append(chan[c], m))
      BY DEF Arrive, Typed, SessionTyped, ChanTyped
    <2> QED
      BY <2>1, <2>2, <2>3
  <1> QED
    BY <1>1, <1>3 DEF OneAttempt, Readable

\* Nothing is under way where a command is begun; its request is all there is.
LEMMA BeginAttempt ==
    ASSUME Typed, OneAttempt, NEW n \in Names, RegisterUser(n) \/ PingServer(n)
    PROVE  OneAttempt'
  <1>1. /\ cmd.op = "none" /\ cmd.rx = None
        /\ UNCHANGED <<pending, rx, opened, svc, late, chan, users>>
    BY DEF RegisterUser, PingServer, Busy, link, history, OneAttempt
  <1>2. ASSUME NEW c \in Conns, Under(c)' \subseteq Under(c), ~late, Readable(c)
        PROVE  Quiet(c)'
    <2>1. Quiet(c)
      BY <1>1, <1>2 DEF OneAttempt, Mine
    <2>2. Fewer(c, 0)
      BY <1>1, <1>2, SameGot DEF Fewer, Given
    <2> QED
      BY <2>1, <2>2, QuietKept
  <1>3. CASE net' = net /\ cmd' = cmd
    <2>1. \A c \in Conns : Under(c)' = Under(c)
      BY <1>3 DEF Under
    <2> QED
      BY <1>1, <1>2, <1>3, <2>1 DEF OneAttempt, Readable
  <1>4. ASSUME NEW op \in {"register", "ping"}, NEW k, op = "register" => k \in Keys,
               svc # None, Sends(Request(svc, op, n, k)), Begin(op, n, k)
        PROVE  OneAttempt'
    <2>1. PICK r : r = Request(svc, op, n, k)
      OBVIOUS
    <2>2. /\ r.from = svc /\ r.to = 0 /\ r.what = op /\ r.name = n /\ r.key = k
          /\ net' = net \cup {r}
      BY <1>4, <2>1 DEF Request, Sends
    <2>3. /\ cmd'.op = op /\ cmd'.name = n /\ cmd'.key = k
          /\ cmd'.conn = svc /\ cmd'.rx = None
      BY <1>4 DEF Begin, Idle
    <2>4. \A c \in Conns : Readable(c)' => Readable(c)
      BY <1>1, <2>3 DEF Readable
    <2>5. \A c \in Conns : c # 0
      BY ConnsAreTags DEF None
    <2>6. ASSUME NEW c \in Conns, ~late, Readable(c) PROVE (Quiet(c) \/ Mine(c))'
      <3>1. CASE c # svc \/ op = "ping"
        <4>1. Under(c)' \subseteq Under(c)
          BY <2>2, <2>5, <3>1 DEF Under, OfRegistration
        <4> QED
          BY <1>2, <2>6, <4>1
      <3>2. CASE c = svc /\ op = "register"
        <4>1. Quiet(c)
          BY <1>1, <2>6 DEF OneAttempt, Mine
        <4>2. Under(c)' \subseteq {r} /\ Got(c)' = {} /\ Given(c)' = {}
          BY <1>1, <2>2, <4>1 DEF Quiet, Under, Got, Given
        <4> QED
          BY <2>2, <2>3, <3>2, <4>2 DEF Mine
      <3> QED
        BY <3>1, <3>2
    <2> QED
      BY <1>1, <2>2, <2>3, <2>4, <2>6 DEF OneAttempt
  <1>5. ASSUME RegisterUser(n) PROVE OneAttempt'
    <2>1. asks + 1 \in Keys
      BY <1>5, ConnsAreTags, RegistryAssumption
      DEF Typed, RegistryTyped, RegisterUser, Asks
    <2> QED
      BY <1>3, <1>4, <1>5, <2>1 DEF RegisterUser
  <1>6. ASSUME PingServer(n) PROVE OneAttempt'
    BY <1>3, <1>4, <1>6 DEF PingServer
  <1> QED
    BY <1>5, <1>6

\* What a command has read is under way no more.
LEMMA ReadGot ==
    ASSUME Typed, NEW c \in Conns, cmd.rx # None, chan[cmd.rx] # <<>>, Read
    PROVE  /\ \E read \in {0, 1} :
                \A i \in Got(c)' : /\ i \in Nat /\ i + read \in Got(c)
                                   /\ chan'[c][i].what = chan[c][i + read].what
           /\ c = cmd.rx /\ (\A i, j \in Got(c) : i = j) /\ Incoming.what \in Results
                => 1 \in Got(c) /\ Got(c)' = {}
  <1>1. cmd.rx \in Conns /\ chan[cmd.rx] \in Seq(Messages) /\ chan[c] \in Seq(Messages)
    BY DEF Typed, SessionTyped, CommandTyped, ChanTyped
  <1>2. CASE c # cmd.rx
    <2>1. chan'[c] = chan[c]
      BY <1>2 DEF Read, Typed, SessionTyped, ChanTyped
    <2>2. DOMAIN chan[c] \subseteq Nat
      BY <1>1, Elements
    <2> QED
      BY <1>2, <2>1, <2>2 DEF Got
  <1>3. CASE c = cmd.rx
    <2>1. chan'[c] = Tail(chan[c]) /\ chan[c] # <<>>
      BY <1>3 DEF Read, Typed, SessionTyped, ChanTyped
    <2>2. PICK len \in Nat : /\ DOMAIN chan[c] = 1 .. (len + 1)
                             /\ DOMAIN chan'[c] = 1 .. len
                             /\ \A i \in 1 .. len : chan'[c][i] = chan[c][i + 1]
      BY <1>1, <2>1
    <2>3. \A i \in Got(c)' : /\ i \in Nat /\ i >= 1 /\ i + 1 \in Got(c)
                             /\ chan'[c][i].what = chan[c][i + 1].what
      BY <2>2 DEF Got
    <2>4. Incoming.what \in Results => 1 \in Got(c)
      BY <1>3, <2>1, <2>2 DEF Incoming, Got
    <2>5. \A i \in Got(c)' : i + 1 # 1
      BY <2>3
    <2> QED
      BY <2>3, <2>4, <2>5
  <1> QED
    BY <1>2, <1>3

\* A command that reads a result of a registration reads its own, and all of it.
LEMMA OwnResult ==
    ASSUME Typed, OneAttempt, ~late, cmd.rx # None, chan[cmd.rx] # <<>>,
           Incoming.what \in Results
    PROVE  /\ Mine(cmd.rx) /\ cmd.rx \in Conns /\ Under(cmd.rx) = {}
           /\ Incoming.what = "registered" => users[cmd.name] = cmd.key
           /\ Incoming.what # "challenge" => Given(cmd.rx) = {}
           /\ \A c \in Conns : Readable(c) /\ c # cmd.rx => Quiet(c)
  <1>1. cmd.rx \in Conns /\ chan[cmd.rx] \in Seq(Messages)
    BY DEF Typed, SessionTyped, CommandTyped, ChanTyped
  <1>2. 1 \in Got(cmd.rx) /\ Incoming = chan[cmd.rx][1]
    BY <1>1 DEF Got, Incoming
  <1>3. Mine(cmd.rx)
    BY <1>1, <1>2 DEF OneAttempt, Readable, Quiet
  <1>4. \A c \in Conns : Readable(c) /\ c # cmd.rx => Quiet(c)
    BY <1>3 DEF OneAttempt, Mine
  <1> QED
    BY <1>1, <1>2, <1>3, <1>4 DEF Mine

\* The command ends, having read its result, or with nothing to read.
LEMMA EndAttempt ==
    ASSUME Typed, OneAttempt, UNCHANGED <<users, pending, net, opened, svc, late>>,
           cmd' = Idle, rx' \in {rx, cmd.rx, None},
           \A c \in Conns : ~late /\ Readable(c) /\ Readable(c)' => Quiet(c)',
           opened \in Nat
    PROVE  OneAttempt'
  <1>1. cmd'.op = "none" /\ cmd'.rx = None /\ cmd'.conn = None /\ None <= opened'
    BY DEF Idle, None
  <1>2. \A c \in Conns : Readable(c)' => Readable(c)
    BY <1>1, ConnsAreTags DEF Readable
  <1> QED
    BY <1>1, <1>2 DEF OneAttempt

LEMMA AuthAttempt ==
    ASSUME Typed, OneAttempt, Auth
    PROVE  OneAttempt'
  <1>1. [SessionNext]_vars /\ opened \in Nat
    BY RegistryAssumption DEF SessionNext, Typed, SessionTyped, LinkTyped, Conns
  <1>2. CASE \E n \in Names : RegisterUser(n) \/ PingServer(n)
    BY <1>2, BeginAttempt
  <1>3. CASE TakeIncomingRx
    <2>1. /\ UNCHANGED <<users, pending, net, opened, svc, late, chan>>
          /\ cmd.rx = None /\ cmd.op # "none" /\ rx' = None
      BY <1>3 DEF TakeIncomingRx, registryVars, Busy, history
    <2>2. \A c \in Conns : Fewer(c, 0)
      BY <2>1, SameGot DEF Fewer, Under, Given
    <2>3. CASE rx = None
      <3>1. cmd' = Idle
        BY <1>3, <2>3 DEF TakeIncomingRx
      <3>2. ASSUME NEW c \in Conns, ~late, Readable(c), Readable(c)' PROVE Quiet(c)'
        <4>1. c > opened /\ c \in Nat
          BY <2>1, <2>3, <3>2, ConnsAreTags, RegistryAssumption
          DEF Readable, Conns
        <4>2. cmd.conn # c
          BY <1>1, <4>1 DEF OneAttempt
        <4>3. Quiet(c)
          BY <3>2, <4>2 DEF OneAttempt, Mine
        <4> QED
          BY <2>2, <4>3, QuietKept
      <3> QED
        BY <1>1, <2>1, <3>1, <3>2, EndAttempt
    <2>4. CASE rx # None
      <3>1. /\ cmd'.op = cmd.op /\ cmd'.name = cmd.name /\ cmd'.key = cmd.key
            /\ cmd'.conn = cmd.conn /\ cmd'.rx = rx
        BY <1>3, <2>4 DEF TakeIncomingRx, Typed, CommandShape
      <3>2. \A c \in Conns : Readable(c)' => Readable(c)
        BY <2>1, <3>1, ConnsAreTags DEF Readable
      <3>3. \A c \in Conns : Quiet(c) \/ Mine(c) => (Quiet(c) \/ Mine(c))'
        BY <1>1, <2>2, <3>1, KeysStay, BothKept
      <3> QED
        BY <2>1, <3>1, <3>2, <3>3 DEF OneAttempt
    <2> QED
      BY <2>3, <2>4
  <1>4. CASE Timeout
    <2>1. UNCHANGED <<net, opened, svc>> /\ late' = TRUE /\ cmd' = Idle
      BY <1>4 DEF Timeout, registryVars, PutBack
    <2> QED
      BY <1>1, <2>1 DEF OneAttempt, Idle, None
  <1>5. CASE ProcessRegisterChallenge
    <2>1. /\ UNCHANGED <<users, pending, rx, cmd, opened, svc, late>>
          /\ cmd.rx # None /\ chan[cmd.rx] # <<>> /\ Read
          /\ cmd.op = "register" /\ Incoming.what = "challenge"
      BY <1>5 DEF ProcessRegisterChallenge, Waits, link, history
    <2>2. PICK r : r = Answer(cmd.conn, "registrationResponse", Incoming.nonce, cmd.key)
      OBVIOUS
    <2>3. /\ r.from = cmd.conn /\ r.to = 0 /\ r.what = "registrationResponse"
          /\ net' = net \cup {r}
      BY <1>5, <2>2 DEF ProcessRegisterChallenge, Answer
    <2>4. ASSUME ~late, NEW c \in Conns, Readable(c) PROVE (Quiet(c) \/ Mine(c))'
      <3>1. Incoming.what \in Results /\ c # 0
        BY <2>1, ConnsAreTags DEF Results, None
      <3>2. CASE c = cmd.rx
        <4>1. Mine(c) /\ Under(c) = {}
          BY <2>1, <2>4, <3>1, <3>2, OwnResult
        <4>2. Got(c)' = {}
          BY <2>1, <3>1, <3>2, <4>1, ReadGot DEF Mine
        <4>3. Under(c)' \subseteq {r} /\ Given(c)' = Given(c)
          BY <2>1, <2>3, <4>1 DEF Under, Given
        <4> QED
          BY <2>1, <2>3, <4>1, <4>2, <4>3 DEF Mine
      <3>3. CASE c # cmd.rx
        <4>1. Quiet(c) /\ cmd.conn = cmd.rx
          BY <2>1, <2>4, <3>1, <3>3, OwnResult DEF Mine
        <4>2. Under(c)' \subseteq Under(c) /\ Given(c)' = Given(c)
          BY <2>1, <2>3, <3>1, <3>3, <4>1 DEF Under, Given, OfRegistration
        <4>3. PICK read \in {0, 1} : Fewer(c, read)
          BY <2>1, <4>2, ReadGot DEF Fewer
        <4> QED
          BY <4>1, <4>3, QuietKept
      <3> QED
        BY <3>2, <3>3
    <2> QED
      BY <2>1, <2>3, <2>4 DEF OneAttempt, Readable
  <1>6. CASE RegisterIgnores \/ PingIgnores
    <2>1. /\ UNCHANGED <<users, pending, net, rx, cmd, opened, svc, late>>
          /\ cmd.rx # None /\ chan[cmd.rx] # <<>> /\ Read
      BY <1>6 DEF RegisterIgnores, PingIgnores, Waits, registryVars, link, history
    <2>2. ASSUME NEW c \in Conns, Quiet(c) \/ Mine(c) PROVE (Quiet(c) \/ Mine(c))'
      <3>1. PICK read \in {0, 1} : Fewer(c, read)
        BY <2>1, ReadGot DEF Fewer, Under, Given
      <3> QED
        BY <1>1, <2>1, <2>2, <3>1, KeysStay, BothKept
    <2> QED
      BY <2>1, <2>2 DEF OneAttempt, Readable
  <1>7. CASE RegisterRefusedReply \/ RegisterNotStored
    <2>1. /\ UNCHANGED <<users, pending, net, opened, svc, late>>
          /\ cmd.rx # None /\ chan[cmd.rx] # <<>> /\ Read /\ cmd' = Idle
          /\ rx' \in {rx, cmd.rx} /\ Incoming.what \in {"refused", "registered"}
      BY <1>7 DEF RegisterRefusedReply, RegisterNotStored, Waits, PutBack, registryVars,
                  link, history
    <2>2. ASSUME NEW c \in Conns, ~late, Readable(c) PROVE Quiet(c)'
      <3>1. Incoming.what \in Results /\ Incoming.what # "challenge"
        BY <2>1 DEF Results
      <3>2. CASE c = cmd.rx
        <4>1. Mine(c) /\ Under(c) = {} /\ Given(c) = {}
          BY <2>1, <2>2, <3>1, <3>2, OwnResult
        <4>2. Got(c)' = {}
          BY <2>1, <3>1, <3>2, <4>1, ReadGot DEF Mine
        <4> QED
          BY <2>1, <4>1, <4>2 DEF Quiet, Under, Given
      <3>3. CASE c # cmd.rx
        <4>1. Quiet(c)
          BY <2>1, <2>2, <3>1, <3>3, OwnResult
        <4>2. PICK read \in {0, 1} : Fewer(c, read)
          BY <2>1, ReadGot DEF Fewer, Under, Given
        <4> QED
          BY <4>1, <4>2, QuietKept
      <3> QED
        BY <3>2, <3>3
    <2> QED
      BY <1>1, <2>1, <2>2, EndAttempt
  <1>8. CASE RegisterSucceeds
    <2>1. /\ UNCHANGED <<users, pending, net, rx, opened, svc, late>>
          /\ cmd.rx # None /\ chan[cmd.rx] # <<>> /\ cmd' = Idle
          /\ chan' = [chan EXCEPT ![cmd.rx] = <<>>] /\ Incoming.what = "registered"
      BY <1>8 DEF RegisterSucceeds, Waits, LogIn, StartBackgroundTasks, registryVars
    <2>2. ASSUME NEW c \in Conns, ~late, Readable(c) PROVE Quiet(c)'
      <3>1. Incoming.what \in Results /\ Incoming.what # "challenge"
        BY <2>1 DEF Results
      <3>2. CASE c = cmd.rx
        <4>1. Under(c) = {} /\ Given(c) = {}
          BY <2>1, <2>2, <3>1, <3>2, OwnResult
        <4>2. chan'[c] = <<>>
          BY <2>1, <3>2 DEF Typed, SessionTyped, ChanTyped
        <4> QED
          BY <2>1, <4>1, <4>2 DEF Quiet, Under, Given, Got
      <3>3. CASE c # cmd.rx
        <4>1. Quiet(c)
          BY <2>1, <2>2, <3>1, <3>3, OwnResult
        <4>2. chan'[c] = chan[c]
          BY <2>1, <3>3 DEF Typed, SessionTyped, ChanTyped
        <4> QED
          BY <2>1, <4>1, <4>2 DEF Quiet, Under, Given, Got
      <3> QED
        BY <3>2, <3>3
    <2> QED
      BY <1>1, <2>1, <2>2, EndAttempt
  <1>9. CASE PongSuccess \/ PongError
    <2>1. /\ UNCHANGED <<users, pending, net, opened, svc, late>>
          /\ cmd.rx # None /\ chan[cmd.rx] # <<>> /\ cmd' = Idle /\ cmd.op = "ping"
          /\ rx' \in {rx, cmd.rx}
          /\ chan' = [chan EXCEPT ![cmd.rx] = <<>>] \/ Read
      BY <1>9 DEF PongSuccess, PongError, Waits, LogIn, StartBackgroundTasks, PutBack,
                  registryVars, history
    <2>2. ASSUME NEW c \in Conns, ~late, Readable(c) PROVE Quiet(c)'
      <3>1. Quiet(c)
        BY <2>1, <2>2 DEF OneAttempt, Mine
      <3>2. CASE chan' = [chan EXCEPT ![cmd.rx] = <<>>]
        <4>1. chan'[c] = <<>> \/ chan'[c] = chan[c]
          BY <3>2 DEF Typed, SessionTyped, ChanTyped
        <4> QED
          BY <2>1, <3>1, <4>1 DEF Quiet, Under, Given, Got
      <3>3. CASE Read
        <4>1. PICK read \in {0, 1} : Fewer(c, read)
          BY <2>1, <3>3, ReadGot DEF Fewer, Under, Given
        <4> QED
          BY <3>1, <4>1, QuietKept
      <3> QED
        BY <2>1, <3>2, <3>3
    <2> QED
      BY <1>1, <2>1, <2>2, EndAttempt
  <1> QED
    BY <1>2, <1>3, <1>4, <1>5, <1>6, <1>7, <1>8, <1>9 DEF Auth

\* Connections come and go: what is opened is new, and nothing is read.
LEMMA LinkAttempt ==
    ASSUME Typed, OneAttempt, Link
    PROVE  OneAttempt'
  <1>1. [SessionNext]_vars /\ opened \in Nat /\ \A c \in Conns : c \in Nat \ {0}
    BY RegistryAssumption DEF SessionNext, Typed, SessionTyped, LinkTyped, Conns
  <1>2. UNCHANGED <<users, pending, net>>
    BY LinkStep DEF registryVars
  <1>3. \A c \in Conns : Fewer(c, 0)
    <2>1. ASSUME UNCHANGED chan PROVE \A c \in Conns : Fewer(c, 0)
      BY <1>2, <2>1, SameGot DEF Fewer, Under, Given
    <2>2. ASSUME NEW kept, DropReceivers(kept), NEW c \in Conns PROVE Fewer(c, 0)
      BY <1>2, <2>2, DropGot DEF Fewer, Under, Given
    <2> QED
      BY <2>1, <2>2, LinkChan
  <1>4. ASSUME UNCHANGED cmd, svc' <= opened', cmd.conn <= opened',
               \A c \in Conns : Readable(c)' => Readable(c), UNCHANGED late
        PROVE  OneAttempt'
    <2>1. \A c \in Conns : Quiet(c) \/ Mine(c) => (Quiet(c) \/ Mine(c))'
      BY <1>1, <1>3, <1>4, KeysStay, BothKept
    <2> QED
      BY <1>2, <1>4, <2>1 DEF OneAttempt
  <1>5. CASE Connect \/ Monitor \/ ConnectFails("user") \/ ConnectFails("monitor")
    <2>1. UNCHANGED <<cmd, svc, rx, opened, late>>
      BY <1>5 DEF Connect, Monitor, BeginConnect, ConnectFails, history
    <2> QED
      BY <1>4, <2>1 DEF OneAttempt, Readable
  <1>6. CASE Connected("user") \/ Connected("monitor")
    <2>1. /\ svc' = opened + 1 /\ rx' = opened + 1 /\ opened' = opened + 1
          /\ UNCHANGED <<cmd, late>>
      BY <1>6 DEF Connected, SetMixnetService
    <2>2. cmd.conn \in Nat /\ svc' <= opened' /\ cmd.conn <= opened'
      BY <1>1, <2>1 DEF OneAttempt, Typed, SessionTyped, CommandTyped, None
    <2>3. \A c \in Conns : Readable(c)' => Readable(c)
      BY <1>1, <2>1 DEF Readable
    <2> QED
      BY <1>4, <2>1, <2>2, <2>3
  <1>7. CASE Disconnect \/ Logout
    <2>1. svc' = 0 /\ rx' = 0 /\ UNCHANGED <<cmd, opened, late>>
      BY <1>7 DEF Disconnect, Logout, ClearMixnetService, None
    <2>2. svc' <= opened' /\ \A c \in Conns : Readable(c)' => Readable(c)
      BY <1>1, <2>1 DEF Readable
    <2> QED
      BY <1>4, <2>1, <2>2 DEF OneAttempt
  <1>8. CASE Quit
    <2>1. /\ svc' = 0 /\ rx' = 0 /\ cmd' = Idle /\ opened' = opened
          /\ ~late' => ~late /\ cmd.op = "none"
      BY <1>8 DEF Quit, Busy, None
    <2>2. cmd'.op = "none" /\ cmd'.rx = 0 /\ cmd'.conn = 0
      BY <2>1 DEF Idle, None
    <2>3. \A c \in Conns : Readable(c)' => Readable(c)
      BY <1>1, <2>1, <2>2 DEF Readable
    <2>4. ASSUME ~late', NEW c \in Conns, Readable(c)' PROVE Quiet(c)'
      <3>1. Quiet(c)
        BY <2>1, <2>3, <2>4 DEF OneAttempt, Mine
      <3> QED
        BY <1>3, <3>1, QuietKept
    <2> QED
      BY <1>1, <1>2, <2>1, <2>2, <2>4 DEF OneAttempt, None
  <1> QED
    BY <1>5, <1>6, <1>7, <1>8 DEF Link

LEMMA AttemptStep == Typed /\ OneAttempt /\ [SessionNext]_vars => OneAttempt'
  <1> SUFFICES ASSUME Typed, OneAttempt, [SessionNext]_vars PROVE OneAttempt'
    OBVIOUS
  <1>1. CASE UNCHANGED vars
    BY <1>1 DEF vars, registryVars, sessionVars, OneAttempt, Readable, Quiet, Mine,
                Under, Got, Given
  <1> QED
    BY <1>1, ServerAttempt, PeersAttempt, TickAttempt, ArriveAttempt, AuthAttempt,
       LinkAttempt
    DEF SessionNext

LEMMA TypedStep == Typed /\ [SessionNext]_vars => Typed'
  <1> SUFFICES ASSUME Typed, [SessionNext]_vars PROVE Typed'
    OBVIOUS
  <1>1. RegistryInv' /\ CommandShape'
    BY RegistryStep, ShapeStep DEF Typed
  <1>2. SessionTyped'
    BY CommandStep, ChanStep, RestStep DEF Typed, SessionTyped
  <1>3. RegistryTyped'
    <2>1. CASE Server \/ Peers \/ Tick
      BY <2>1, ServerTyped, PeersTyped, TickTyped DEF Typed
    <2>2. ASSUME NEW m \in net, Arrive(m) PROVE RegistryTyped'
      BY <2>2 DEF Arrive, Typed, RegistryTyped, EntriesTyped, AttemptsTyped
    <2>3. CASE Auth
      BY <2>3, AuthSends DEF Typed
    <2>4. CASE Link \/ UNCHANGED vars
      BY <2>4, LinkStep, TypedUnchanged DEF Typed, vars
    <2> QED
      BY <2>1, <2>2, <2>3, <2>4 DEF SessionNext
  <1> QED
    BY <1>1, <1>2, <1>3 DEF Typed

LEMMA TypedInitially == SessionInit => Typed /\ OneAttempt /\ StoredKey
  <1> SUFFICES ASSUME SessionInit PROVE Typed /\ OneAttempt /\ StoredKey
    OBVIOUS
  <1>1. RegistryInv /\ CommandShape
    BY RegistryInitially, HoldingInitially
  <1>2. RegistryTyped
    BY RegistryAssumption
    DEF SessionInit, Init, RegistryTyped, EntriesTyped, AttemptsTyped
  <1>3. SessionTyped
    <2>1. LinkTyped
      BY RegistryAssumption DEF SessionInit, LinkTyped
    <2>2. ChanTyped
      <3>1. <<>> \in Seq(Messages)
        OBVIOUS
      <3> QED
        BY <3>1 DEF SessionInit, ChanTyped
    <2>3. DiskTyped /\ MemoryTyped /\ HistoryTyped
      BY DEF SessionInit, DiskTyped, MemoryTyped, HistoryTyped
    <2>4. CommandTyped
      BY DEF SessionInit, CommandTyped, Idle
    <2> QED
      BY <2>1, <2>2, <2>3, <2>4 DEF SessionTyped
  <1>4. OneAttempt
    BY DEF SessionInit, Init, OneAttempt, Readable, Quiet, Under, Got, Given, Idle, None
  <1>5. StoredKey
    BY DEF SessionInit, StoredKey
  <1> QED
    BY <1>1, <1>2, <1>3, <1>4, <1>5 DEF Typed

\* The command stores its key when it has read the server's word for it.
LEMMA StoredStep ==
    ASSUME Typed, OneAttempt, StoredKeyInTime, [SessionNext]_vars
    PROVE  StoredKeyInTime'
  <1> SUFFICES ASSUME ~late' PROVE StoredKey'
    BY DEF StoredKeyInTime
  <1>1. ~late
    BY DEF SessionNext, sessionVars, vars, Arrive, history, Auth, RegisterUser, PingServer,
           TakeIncomingRx, Timeout, ProcessRegisterChallenge, RegisterRefusedReply,
           RegisterSucceeds, RegisterNotStored, RegisterIgnores, PongSuccess, PongError,
           PingIgnores, Link, Connect, Monitor, BeginConnect, Disconnect, Logout, Quit,
           Connected, ConnectFails
  <1>2. StoredKey
    BY <1>1 DEF StoredKeyInTime
  <1>3. \A n \in Names : users[n] # NoKey => users'[n] = users[n]
    BY KeysStay
  <1>4. CASE UNCHANGED rows
    BY <1>2, <1>3, <1>4 DEF StoredKey
  <1>5. CASE RegisterSucceeds
    <2>1. users[cmd.name] = cmd.key /\ users' = users
      BY <1>1, <1>5, OwnResult DEF RegisterSucceeds, Waits, registryVars, Results
    <2>2. rows' = [rows EXCEPT ![cmd.name] = cmd.key]
      BY <1>5 DEF RegisterSucceeds
    <2> QED
      BY <1>2, <2>1, <2>2 DEF StoredKey, Typed, SessionTyped, DiskTyped
  <1>6. RegisterSucceeds \/ UNCHANGED rows
    BY DEF SessionNext, sessionVars, vars, Arrive, disk, Auth, RegisterUser, PingServer,
           TakeIncomingRx, Timeout, ProcessRegisterChallenge, RegisterRefusedReply,
           RegisterNotStored, RegisterIgnores, PongSuccess, PongError, PingIgnores, Link,
           Connect, Monitor, BeginConnect, Disconnect, Logout, Quit, Connected, ConnectFails
  <1> QED
    BY <1>4, <1>5, <1>6

-----------------------------------------------------------------------------
(* Theorems *)

\* The inductive invariant of the server holds, whatever the application, the
\* peers and the group servers do, and whichever look-ups and statements fail.
THEOREM SnInvariance == SessionSpec => []RegistryInv
  <1> QED
    BY RegistryInitially, RegistryStep, PTL DEF SessionSpec

\* Whoever was told that a name has a key was told the key it keeps
\* (add_user, verify of both response handlers, handle_query).
THEOREM SnToldStands == SessionSpec => []ToldStands
  <1>1. RegistryInv => ToldStands
    BY DEF RegistryInv
  <1> QED
    BY <1>1, SnInvariance, PTL

\* Where the key was compared before the challenge was given, the address of a
\* group is set with another key than the row's only while a challenge lives that
\* was given before the row was there.  A challenge given after a failed look-up
\* (handle_register_group) is excepted.
THEOREM SnRaceEnds == SessionSpec => []RaceEnds
  <1>1. RegistryInv => RaceEnds
    BY DEF RegistryInv
  <1> QED
    BY <1>1, SnInvariance, PTL

\* Whoever is logged in over a connection that stayed the same is heard: the
\* receiver is handed around without a second one coming into play.  The MLS
\* client is the user's own, or none where initialize_mls_client failed, which
\* register_user and ping_server only log.
THEOREM SnHeardInTime == SessionSpec => []HeardInTime
  <1>1. Holding => HeardInTime
    BY DEF Holding, HeardInTime
  <1> QED
    BY <1>1, HoldingInitially, HoldingStep, ShapeStep, PTL DEF SessionSpec

\* The types of everything the server, the network and the application hold:
\* one entry for a session in each pending map, no more attempts than the rate
\* limiter allows, and keys and names where they belong.
THEOREM SnTypeCorrect == SessionSpec => []TypeOK
  <1>1. Typed => TypeOK
    <2> SUFFICES ASSUME Typed PROVE TypeOK
      OBVIOUS
    <2>1. RegistryTypeOK
      BY DEF Typed, RegistryInv, RegistryTyped, RegistryTypeOK, EntriesTyped, EntryType,
             RowType, AttemptsTyped, MessageType
    <2>2. \A c \in Conns : \A i \in DOMAIN chan[c] : chan[c][i] \in Messages
      BY Elements DEF Typed, SessionTyped, ChanTyped
    <2> QED
      BY <2>1, <2>2
      DEF Typed, SessionTyped, LinkTyped, DiskTyped, MemoryTyped, CommandTyped,
          HistoryTyped, TypeOK
  <1> QED
    BY <1>1, TypedInitially, TypedStep, PTL DEF SessionSpec

\* A user whom the application has stored is registered at the server with the
\* key that was stored, unless an attempt was given up: of a registration one
\* message or result is under way at a time, and it is the running command's.
THEOREM SnStoredKeyInTime == SessionSpec => []StoredKeyInTime
  <1>1. SessionInit => Typed /\ OneAttempt /\ StoredKeyInTime
    BY TypedInitially DEF StoredKeyInTime
  <1>2. Typed /\ OneAttempt /\ StoredKeyInTime /\ [SessionNext]_vars
          => (Typed /\ OneAttempt /\ StoredKeyInTime)'
    BY TypedStep, AttemptStep, StoredStep
  <1> QED
    BY <1>1, <1>2, PTL DEF SessionSpec
=============================================================================
