------------------------------- MODULE Session -------------------------------
(***************************************************************************)
(* The desktop application's session (app/desktop/src): the connection to   *)
(* the mixnet, the one receiver of what it brings, the commands that        *)
(* register a user and log one in, the background tasks they start, and the *)
(* connection monitor; with the discovery server of Registry.               *)
(*                                                                          *)
(* The receiver of a connection is handed around: the state keeps it until  *)
(* a command takes it, which puts it back when it fails and gives it to the  *)
(* receive loop when it succeeds.  Each connection is a session of its own   *)
(* for the server, whose tag is the connection's number.  A command runs at  *)
(* most once at a time, since the user interface waits for it; connecting,   *)
(* disconnecting, logging out and the monitor go on beside it.              *)
(***************************************************************************)
EXTENDS Registry

Conns == AppTags
None  == 0

ASSUME SessionAssumption ==
  /\ \A c \in AppTags : 1..c \subseteq AppTags
  /\ AppKeys = Asks

VARIABLES
  svc,         \* the connection that sends (mixnet_service), None without
  rx,          \* the connection whose receiver the state keeps (incoming_rx)
  loop,        \* the connection the receive loop of the tasks reads, None without tasks
  opened,      \* how many connections were opened
  connecting,  \* who is opening one: "user", "monitor"
  chan,        \* chan[c]: what arrived over connection c and was not read
  file,        \* file[n]: the key in the key files of n
  rows,        \* rows[n]: the key in the users table for n
  user,        \* who is logged in (current_user)
  keys,        \* whose keys are in memory
  mls,         \* whose MLS client is in memory
  cmd,         \* the command that runs
  late,        \* history: a command gave up, or was cut off, after it had asked
  moved        \* history: the connection changed under a command or a user

sessionVars == <<svc, rx, loop, opened, connecting, chan, file, rows, user, keys, mls, cmd,
                 late, moved>>
disk    == <<file, rows>>
memory  == <<user, keys, mls>>
link    == <<svc, rx, loop, opened, connecting>>
history == <<late, moved>>
vars    == <<registryVars, sessionVars>>

Idle == [op |-> "none", name |-> None, key |-> NoKey, conn |-> None, rx |-> None]

SessionInit ==
  /\ Init
  /\ svc = None /\ rx = None /\ loop = None
  /\ opened = 0 /\ connecting = {}
  /\ chan = [c \in Conns |-> <<>>]
  /\ file = [n \in Names |-> NoKey] /\ rows = [n \in Names |-> NoKey]
  /\ user = None /\ keys = None /\ mls = None
  /\ cmd = Idle
  /\ late = FALSE /\ moved = FALSE

Busy == cmd.op # "none"

\* A receiver that nobody has is dropped, and what arrives is lost.
Live(c) == c \in {rx, loop, cmd.rx} \ {None}

-----------------------------------------------------------------------------
(* The connection.                                                          *)

\* A receiver that is dropped takes with it what it has not given out.
DropReceivers(kept) ==
  chan' = [c \in Conns |-> IF c \in kept THEN chan[c] ELSE <<>>]

\* set_mixnet_service replaces the receiver in the state, and drops the old one.
SetMixnetService(c) == svc' = c /\ rx' = c /\ DropReceivers({loop, cmd.rx})

ClearMixnetService == svc' = None /\ rx' = None /\ DropReceivers({loop, cmd.rx})

BeginConnect(who) ==
  /\ who \notin connecting /\ svc = None
  /\ connecting' = connecting \cup {who}
  /\ UNCHANGED <<registryVars, svc, rx, loop, opened, chan, disk, memory, cmd, history>>

Connect == BeginConnect("user")

\* The monitor reconnects a user who is logged in; it is one of the tasks.
Monitor == loop # None /\ user # None /\ BeginConnect("monitor")

\* Opening takes a while: whether there is a connection is not looked at again.
\* The receiver the monitor opens is left in the state.
Connected(who) ==
  /\ who \in connecting /\ opened + 1 \in Conns
  /\ connecting' = connecting \ {who}
  /\ opened' = opened + 1
  /\ SetMixnetService(opened + 1)
  /\ moved' = (moved \/ Busy \/ user # None)
  /\ UNCHANGED <<registryVars, loop, disk, memory, cmd, late>>

ConnectFails(who) ==
  /\ who \in connecting
  /\ connecting' = connecting \ {who}
  /\ UNCHANGED <<registryVars, svc, rx, loop, opened, chan, disk, memory, cmd, history>>

\* The tasks are not stopped: the loop goes on with its receiver.
Disconnect ==
  /\ svc # None
  /\ ClearMixnetService
  /\ moved' = (moved \/ Busy \/ user # None)
  /\ UNCHANGED <<registryVars, loop, opened, connecting, disk, memory, cmd, late>>

\* The receive loop reads at once: replies to commands mean nothing to it.
Arrive(m) ==
  /\ m \in net /\ m.to \in Conns
  /\ net' = net \ {m}
  /\ chan' = IF Live(m.to) /\ m.to # loop THEN [chan EXCEPT ![m.to] = Append(@, m)] ELSE chan
  /\ UNCHANGED <<users, groups, pending, attempts, asks, now, told,
                 link, disk, memory, cmd, history>>

-----------------------------------------------------------------------------
(* Commands.                                                                *)

Begin(op, n, k) == cmd' = [Idle EXCEPT !.op = op, !.name = n, !.key = k, !.conn = svc]

\* save_keys_to_app_dir, load_keys_from_app_dir: one pair of files for a name.
SaveKeys(n, k) == file' = [file EXCEPT ![n] = k]
LoadKeys(n)    == file[n]

\* The request goes out before the command knows that it has the receiver; or
\* there is no connection, or the send fails, and the command ends.
\* A new pair of keys is made each time, and its files replace those of n.
RegisterUser(n) ==
  /\ ~Busy /\ asks < MaxAsks
  /\ SaveKeys(n, asks + 1)
  /\ \/ asks' = asks + 1 /\ UNCHANGED <<net, cmd>>
     \/ /\ svc # None
        /\ Sends(Request(svc, "register", n, asks + 1))
        /\ Begin("register", n, asks + 1)
  /\ UNCHANGED <<users, groups, pending, attempts, now, told,
                 link, chan, rows, memory, history>>

\* The keys are in memory before it is known whether there is a connection.
PingServer(n) ==
  /\ ~Busy /\ asks < MaxAsks /\ rows[n] # NoKey
  /\ keys' = n
  /\ \/ UNCHANGED <<net, asks, cmd>>
     \/ /\ svc # None
        /\ Sends(Request(svc, "ping", n, LoadKeys(n)))
        /\ Begin("ping", n, LoadKeys(n))
  /\ UNCHANGED <<users, groups, pending, attempts, now, told,
                 link, chan, disk, user, mls, history>>

\* "Message receiver not available": nothing of what was done is undone.
TakeIncomingRx ==
  /\ Busy /\ cmd.rx = None
  /\ cmd' = IF rx = None THEN Idle ELSE [cmd EXCEPT !.rx = rx]
  /\ rx' = None
  /\ UNCHANGED <<registryVars, svc, loop, opened, connecting, chan, disk, memory, history>>

Incoming == Head(chan[cmd.rx])

Waits(op) == cmd.op = op /\ cmd.rx # None /\ chan[cmd.rx] # <<>>

Read == chan' = [chan EXCEPT ![cmd.rx] = Tail(@)]

\* The receiver is put back over whatever the state has by now.
PutBack == rx' = cmd.rx /\ cmd' = Idle

ForRegistration(m) ==
  m.form = "unified" /\ m.what \in {"challenge", "registered", "refused"}

\* Any challenge for a registration is answered, with the keys of this one.
ProcessRegisterChallenge ==
  /\ Waits("register") /\ Incoming.what = "challenge" /\ Read
  /\ net' = net \cup {Answer(cmd.conn, "registrationResponse", Incoming.nonce, cmd.key)}
  /\ UNCHANGED <<users, groups, pending, attempts, asks, now, told,
                 link, disk, memory, cmd, history>>

RegisterRefusedReply ==
  /\ Waits("register") /\ Incoming.what = "refused" /\ Read /\ PutBack
  /\ UNCHANGED <<registryVars, svc, loop, opened, connecting, disk, memory, history>>

\* initialize_mls_client keeps the client that is there.  When it cannot make
\* one, the commands only log that and go on without.
InitializeMls(n) == IF mls # None THEN mls' = mls ELSE mls' \in {n, None}

\* Faulty: the loop that runs is kept.
StartWithoutMessageLoop ==
  /\ loop' = loop
  /\ connecting' = connecting \ {"monitor"}
  /\ cmd' = Idle

\* The new tasks take the place of the old ones, whose loop is aborted; the new
\* loop reads what is there.
StartBackgroundTasks ==
  /\ loop' = cmd.rx
  /\ connecting' = connecting \ {"monitor"}
  /\ cmd' = Idle

LogIn == /\ user' = cmd.name
         /\ keys' = cmd.name
         /\ InitializeMls(cmd.name)
         /\ StartBackgroundTasks
         /\ chan' = [chan EXCEPT ![cmd.rx] = <<>>]

\* Any success of a registration is taken for this one's.
RegisterSucceeds ==
  /\ Waits("register") /\ Incoming.what = "registered"
  /\ rows[cmd.name] = NoKey
  /\ rows' = [rows EXCEPT ![cmd.name] = cmd.key]
  /\ LogIn
  /\ UNCHANGED <<registryVars, svc, rx, opened, file, late, moved>>

\* The INSERT fails, as it does when the name has a row in the users table: the
\* command ends with the error, and drops the receiver.
RegisterNotStored ==
  /\ Waits("register") /\ Incoming.what = "registered" /\ Read
  /\ cmd' = Idle
  /\ UNCHANGED <<registryVars, link, disk, memory, history>>

\* Everything else is read and dropped.
RegisterIgnores ==
  /\ Waits("register") /\ ~ForRegistration(Incoming) /\ Read
  /\ UNCHANGED <<registryVars, link, disk, memory, cmd, history>>

PongSuccess ==
  /\ Waits("ping") /\ Incoming.what = "pong"
  /\ LogIn
  /\ UNCHANGED <<registryVars, svc, rx, opened, disk, late, moved>>

PongError ==
  /\ Waits("ping") /\ Incoming.what = "pongRefused" /\ Read /\ PutBack
  /\ keys' = None
  /\ UNCHANGED <<registryVars, svc, loop, opened, connecting, disk, user, mls, history>>

PingIgnores ==
  /\ Waits("ping") /\ Incoming.what \notin {"pong", "pongRefused"} /\ Read
  /\ UNCHANGED <<registryVars, link, disk, memory, cmd, history>>

\* AUTH_TIMEOUT: 30 seconds from the request on.
Timeout ==
  /\ Busy /\ cmd.rx # None
  /\ PutBack
  /\ keys' = IF cmd.op = "ping" THEN None ELSE keys
  /\ late' = TRUE
  /\ UNCHANGED <<registryVars, svc, loop, opened, connecting, chan, disk, user, mls, moved>>

StopBackgroundTasks == loop' = None /\ connecting' = connecting \ {"monitor"}

Logout ==
  /\ user # None
  /\ StopBackgroundTasks
  /\ ClearMixnetService
  /\ user' = None /\ keys' = None /\ mls' = None
  /\ moved' = (moved \/ Busy)
  /\ UNCHANGED <<registryVars, opened, disk, cmd, late>>

\* The application is stopped, at any point, and started again.  (Without a
\* command and a user it only loses its connection, as in Disconnect.)
Quit ==
  /\ Busy \/ user # None
  /\ svc' = None /\ rx' = None /\ loop' = None /\ connecting' = {}
  /\ user' = None /\ keys' = None /\ mls' = None
  /\ cmd' = Idle
  /\ DropReceivers({})
  /\ late' = (late \/ Busy)
  /\ UNCHANGED <<registryVars, opened, disk, moved>>

-----------------------------------------------------------------------------
Auth == \/ \E n \in Names : RegisterUser(n) \/ PingServer(n)
        \/ TakeIncomingRx \/ Timeout
        \/ ProcessRegisterChallenge \/ RegisterRefusedReply \/ RegisterSucceeds
        \/ RegisterNotStored \/ RegisterIgnores
        \/ PongSuccess \/ PongError \/ PingIgnores

Link == \/ Connect \/ Monitor \/ Disconnect \/ Logout \/ Quit
        \/ \E who \in {"user", "monitor"} : Connected(who) \/ ConnectFails(who)

SessionNext ==
  \/ (Server \/ Peers \/ Tick) /\ UNCHANGED sessionVars
  \/ \E m \in net : Arrive(m)
  \/ Auth \/ Link

SessionSpec == SessionInit /\ [][SessionNext]_vars

\* The tasks and commands go on, opening a connection ends, and the network
\* delivers; the user need not do anything.
SessionFair ==
  /\ WF_vars(TakeIncomingRx) /\ WF_vars(Timeout) /\ WF_vars(Monitor)
  /\ WF_vars(\E m \in net : Arrive(m))
  /\ WF_vars(Server /\ UNCHANGED sessionVars)
  /\ \A who \in {"user", "monitor"} : WF_vars(Connected(who) \/ ConnectFails(who))

FairSessionSpec == SessionSpec /\ SessionFair

-----------------------------------------------------------------------------
TypeOK ==
  /\ RegistryTypeOK
  /\ {svc, rx, loop, cmd.rx, cmd.conn} \subseteq Conns \cup {None}
  /\ opened \in 0..MaxAsks \cup Conns
  /\ connecting \subseteq {"user", "monitor"}
  /\ \A c \in Conns : \A i \in DOMAIN chan[c] : chan[c][i] \in Messages
  /\ file \in [Names -> Keys \cup {NoKey}] /\ rows \in [Names -> Keys \cup {NoKey}]
  /\ {user, keys, mls, cmd.name} \subseteq Names \cup {None}
  /\ cmd.op \in {"none", "register", "ping"} /\ cmd.key \in Keys \cup {NoKey}
  /\ {late, moved} \subseteq BOOLEAN

StoredKey == \A n \in Names : rows[n] # NoKey => users[n] = rows[n]

\* A user whom the application has stored as registered is registered at the
\* server with the key that was stored, as long as no earlier attempt was
\* given up: the replies do not say which attempt they belong to.
StoredKeyInTime == ~late => StoredKey

\* Whoever is logged in over a connection that stayed the same is heard: the
\* loop reads the connection that requests go out on.  It decrypts with the
\* user's own MLS client, never with another user's; with none, when it could
\* not be made.
HeardInTime ==
  ~late /\ ~moved /\ user # None =>
    loop = svc /\ svc # None /\ mls \in {user, None}

\* What the monitor's comment says of the receiver it leaves in the state: the
\* background tasks detect it, and the receive loop is restarted with it.  They
\* do not (SessionReader.cfg).
LoggedInIsHeard ==
  user # None /\ svc # None ~> loop = svc \/ user = None \/ svc = None
=============================================================================
