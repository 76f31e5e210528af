---------------------------- MODULE KeyPackages ----------------------------
(***************************************************************************)
(* Pre-published MLS key packages: the key_packages table and its handlers *)
(* in the discovery server, the users who publish and replenish, and the   *)
(* clients who fetch one anonymously after a proof of work.                *)
(*                                                                         *)
(* A fetch takes two round trips.  The first returns a challenge, bound to *)
(* a time window, and a difficulty computed from the stock at that moment; *)
(* the second presents the solved challenge, whose difficulty is computed  *)
(* again.  Serving a fetch is COUNT, SELECT, DELETE and a reply, and the   *)
(* clock may move, and the process stop, between any two of them.          *)
(* Messages on their way are sets: they overtake each other, and one that  *)
(* is lost stays in its set for ever.                                      *)
(***************************************************************************)
EXTENDS Naturals, FiniteSets

CONSTANTS Users,        \* users whose key packages are fetched
          Fetchers,     \* clients that fetch
          Target,       \* Target[f]: whose key package f wants
          Kps,          \* key packages that may ever be generated
          Batch,        \* published after a login and per notice (5)
          Base,         \* base difficulty (20)
          ExtraBits,    \* bound: zero bits a nonce has beyond those asked for
          Window,       \* clock units per challenge window (300 s)
          Life,         \* life of a key package (30 days)
          MaxTime,      \* bound: the clock stops here
          MaxNotices,   \* bound: keyPackageNeeded rows queued for a user
          MaxTries,     \* bound: attempts of a fetcher
          NoKp, NoChallenge

ASSUME TargetAssumption      == Target \in [Fetchers -> Users]
ASSUME NoKpAssumption        == NoKp \notin Kps \cup Users
ASSUME ParametersAssumption  == /\ Batch \in Nat
                                /\ Base \in Nat
                                /\ ExtraBits \in Nat
                                /\ Window \in Nat \ {0}
                                /\ Life \in Nat
                                /\ MaxTime \in Nat
                                /\ MaxNotices \in Nat
                                /\ MaxTries \in Nat

VARIABLES kps,       \* key_packages table
          notices,   \* keyPackageNeeded rows queued for each user
          outbox,    \* publishKeyPackage messages of a user on their way
          phase,     \* where the running fetchKeyPackage handler is
          req,       \* the request it serves
          pick,      \* the key package it selected
          now,       \* the clock
          state,     \* where each fetcher is
          chal,      \* the challenge each fetcher is solving
          got,       \* the key package each fetcher ended up with
          tries,     \* how often each fetcher has tried
          asks,      \* fetchKeyPackageChallenge requests on their way
          fetches,   \* fetchKeyPackage requests on their way
          offers,    \* challenges on their way to fetchers
          replies,   \* key packages on their way to fetchers
          (* history *)
          owner,     \* who generated each key package
          given,     \* key packages that were handed out, and to whom
          started    \* when the running handler was started

server  == <<kps, notices, phase, req, pick>>
clients == <<state, chal, got, tries>>
vars    == <<kps, notices, outbox, phase, req, pick, now, state, chal, got,
             tries, asks, fetches, offers, replies, owner, given, started>>

-----------------------------------------------------------------------------
(* Data *)

Times == 0 .. MaxTime
Row   == [kp : Kps, user : Users, at : Times]

\* A challenge is an HMAC of the user name and the window; the server keeps
\* nothing of it.  "at" is history: when it was issued.  The fetch repeats it,
\* with the zero bits that the nonce has.
Bits      == Base .. Base + 8 + ExtraBits
Challenge == [from : Fetchers, user : Users, window : Times, bits : Bits,
              at : Times]
Reply     == [to : Fetchers, user : Users, kp : Kps]

Unexpired(r) == r.at + Life > now
StockOf(u)   == {r \in kps : r.user = u /\ Unexpired(r)}

\* count_key_packages
Count(u) == Cardinality(StockOf(u))

\* Adaptive difficulty, the same in both handlers
Difficulty(n) == IF n <= 3 THEN Base + (4 - n) * 2 ELSE Base

CurrentWindow == now \div Window

\* The challenge is recomputed for the current and for the previous window.
\* Faulty: one window more.
AcceptedWindowMore(w) == w = CurrentWindow \/ w + 1 = CurrentWindow
                                           \/ w + 2 = CurrentWindow
AcceptedWindow(w) == w = CurrentWindow \/ w + 1 = CurrentWindow

\* consume_key_package refuses to hand out the last one.
\* Faulty: it refuses when there is none.
HeldBackAtZero(n) == n < 1
HeldBack(n) == n <= 1

\* SELECT .. WHERE username = ? .. ORDER BY created_at LIMIT 1
\* Faulty: of any user.
OldestOfAny(u) == {r \in kps : /\ Unexpired(r)
                               /\ \A q \in kps : Unexpired(q) => r.at <= q.at}
OldestOf(u) == {r \in StockOf(u) : \A q \in StockOf(u) : r.at <= q.at}

Return == /\ phase' = "idle"
          /\ req' = NoChallenge
          /\ pick' = NoKp

Unused == {k \in Kps : owner[k] = NoKp}

-----------------------------------------------------------------------------
(* Initial state: nobody has published, nobody fetches. *)

Init == /\ kps = {}
        /\ notices = [u \in Users |-> 0]
        /\ outbox = [u \in Users |-> 0]
        /\ phase = "idle"
        /\ req = NoChallenge
        /\ pick = NoKp
        /\ now = 0
        /\ state = [f \in Fetchers |-> "idle"]
        /\ chal = [f \in Fetchers |-> NoChallenge]
        /\ got = [f \in Fetchers |-> NoKp]
        /\ tries = [f \in Fetchers |-> 0]
        /\ asks = {}
        /\ fetches = {}
        /\ offers = {}
        /\ replies = {}
        /\ owner = [k \in Kps |-> NoKp]
        /\ given = {}
        /\ started = 0

-----------------------------------------------------------------------------
(* The user who publishes *)

\* A batch after the login, and one for every notice that is heard.
ToPublish(heard) == Batch * (1 + heard)

\* The user comes online: the ping drains the queued keyPackageNeeded rows.
\* A notice may be lost, or read while the client still waits for the pong.
Login(u) ==
    /\ outbox[u] = 0
    /\ Unused # {}
    /\ \E heard \in 0 .. notices[u] :
          outbox' = [outbox EXCEPT ![u] = ToPublish(heard)]
    /\ notices' = [notices EXCEPT ![u] = 0]
    /\ UNCHANGED <<kps, phase, req, pick, clients, now, asks, fetches, offers,
                   replies, owner, given, started>>

\* handle_publish_key_package: the signature of a registered user was verified.
Publish(u, k) ==
    /\ phase = "idle"
    /\ outbox[u] > 0
    /\ k \in Unused
    /\ outbox' = [outbox EXCEPT ![u] = @ - 1]
    /\ owner' = [owner EXCEPT ![k] = u]
    /\ kps' = kps \cup {[kp |-> k, user |-> u, at |-> now]}
    /\ UNCHANGED <<notices, phase, req, pick, clients, now, asks, fetches,
                   offers, replies, given, started>>

\* A publishKeyPackage that could not be generated, signed, or delivered
PublishFails(u) ==
    /\ outbox[u] > 0
    /\ outbox' = [outbox EXCEPT ![u] = @ - 1]
    /\ UNCHANGED <<server, clients, now, asks, fetches, offers, replies, owner,
                   given, started>>

-----------------------------------------------------------------------------
(* The client who fetches *)

\* Step 1: the challenge is requested and waited for.
Ask(f) ==
    /\ state[f] = "idle"
    /\ tries[f] < MaxTries
    /\ tries' = [tries EXCEPT ![f] = @ + 1]
    /\ state' = [state EXCEPT ![f] = "asking"]
    /\ asks' = asks \cup {f}
    /\ UNCHANGED <<server, outbox, chal, got, now, fetches, offers, replies,
                   owner, given, started>>

\* fetchKeyPackageChallengeResponse resolves the pending query for its user
\* name; when nobody waits (any more) it resolves nothing.
GetChallenge(c) ==
    /\ c \in offers
    /\ offers' = offers \ {c}
    /\ IF state[c.from] = "asking"
       THEN /\ state' = [state EXCEPT ![c.from] = "grinding"]
            /\ chal' = [chal EXCEPT ![c.from] = c]
       ELSE UNCHANGED <<state, chal>>
    /\ UNCHANGED <<server, outbox, got, tries, now, asks, fetches, replies,
                   owner, given, started>>

\* Steps 2 and 3: a nonce with at least the bits asked for, then the fetch.
Grind(f) ==
    /\ state[f] = "grinding"
    /\ \E extra \in 0 .. ExtraBits :
          fetches' = fetches \cup {[chal[f] EXCEPT !.bits = @ + extra]}
    /\ state' = [state EXCEPT ![f] = "fetching"]
    /\ UNCHANGED <<server, outbox, chal, got, tries, now, asks, offers,
                   replies, owner, given, started>>

\* fetchKeyPackageResponse resolves the pending query for its user name.
GetKp(r) ==
    /\ r \in replies
    /\ replies' = replies \ {r}
    /\ IF state[r.to] = "fetching"
       THEN /\ state' = [state EXCEPT ![r.to] = "done"]
            /\ got' = [got EXCEPT ![r.to] = r.kp]
       ELSE UNCHANGED <<state, got>>
    /\ UNCHANGED <<server, outbox, chal, tries, now, asks, fetches, offers,
                   owner, given, started>>

\* The wait of 15 s is over: errors carry no user name, so that a refusal is a
\* wait that ends like this too.  The user may try again.
Timeout(f) ==
    /\ state[f] \in {"asking", "fetching"}
    /\ state' = [state EXCEPT ![f] = "idle"]
    /\ chal' = [chal EXCEPT ![f] = NoChallenge]
    /\ UNCHANGED <<server, outbox, got, tries, now, asks, fetches, offers,
                   replies, owner, given, started>>

-----------------------------------------------------------------------------
(* The server *)

\* handle_fetch_kp_challenge
ChallengeRefused(f) ==
    /\ phase = "idle"
    /\ f \in asks
    /\ Count(Target[f]) = 0
    /\ asks' = asks \ {f}
    /\ notices' = [notices EXCEPT ![Target[f]] =
                      IF @ < MaxNotices THEN @ + 1 ELSE @]
    /\ UNCHANGED <<kps, outbox, phase, req, pick, clients, now, fetches,
                   offers, replies, owner, given, started>>

ChallengeHeldBack(f) ==
    /\ phase = "idle"
    /\ f \in asks
    /\ Count(Target[f]) = 1
    /\ asks' = asks \ {f}
    /\ UNCHANGED <<server, outbox, clients, now, fetches, offers, replies,
                   owner, given, started>>

ChallengeIssued(f) ==
    /\ phase = "idle"
    /\ f \in asks
    /\ Count(Target[f]) > 1
    /\ asks' = asks \ {f}
    /\ offers' = offers \cup
          {[from |-> f, user |-> Target[f], window |-> CurrentWindow,
            bits |-> Difficulty(Count(Target[f])), at |-> now]}
    /\ UNCHANGED <<server, outbox, clients, now, fetches, replies, owner,
                   given, started>>

\* handle_fetch_key_package up to the verified proof of work
FetchVerified(m) ==
    /\ phase = "idle"
    /\ m \in fetches
    /\ AcceptedWindow(m.window)
    /\ m.bits >= Difficulty(Count(m.user))
    /\ fetches' = fetches \ {m}
    /\ phase' = "verified"
    /\ req' = m
    /\ started' = now
    /\ UNCHANGED <<kps, notices, outbox, pick, clients, now, asks, offers,
                   replies, owner, given>>

\* invalid_challenge, invalid_pow
FetchRefused(m) ==
    /\ phase = "idle"
    /\ m \in fetches
    /\ \/ ~AcceptedWindow(m.window)
       \/ m.bits < Difficulty(Count(m.user))
    /\ fetches' = fetches \ {m}
    /\ UNCHANGED <<server, outbox, clients, now, asks, offers, replies, owner,
                   given, started>>

\* consume_key_package: SELECT COUNT
ConsumeCount ==
    /\ phase = "verified"
    /\ IF HeldBack(Count(req.user))
       THEN Return
       ELSE phase' = "counted" /\ UNCHANGED <<req, pick>>
    /\ UNCHANGED <<kps, notices, outbox, clients, now, asks, fetches, offers,
                   replies, owner, given, started>>

\* consume_key_package: SELECT the oldest
ConsumeSelect ==
    /\ phase = "counted"
    /\ IF OldestOf(req.user) = {}
       THEN Return
       ELSE /\ \E r \in OldestOf(req.user) : pick' = r.kp
            /\ phase' = "selected"
            /\ UNCHANGED req
    /\ UNCHANGED <<kps, notices, outbox, clients, now, asks, fetches, offers,
                   replies, owner, given, started>>

\* consume_key_package: DELETE by id
ConsumeDelete ==
    /\ phase = "selected"
    /\ kps' = {r \in kps : r.kp # pick}
    /\ phase' = "deleted"
    /\ UNCHANGED <<notices, outbox, req, pick, clients, now, asks, fetches,
                   offers, replies, owner, given, started>>

\* The answer, and the end of the handler
FetchReply ==
    /\ phase = "deleted"
    /\ replies' = replies \cup
          {[to |-> req.from, user |-> req.user, kp |-> pick]}
    /\ given' = given \cup {[kp |-> pick, to |-> req.from, at |-> req.at]}
    /\ Return
    /\ UNCHANGED <<kps, notices, outbox, clients, now, asks, fetches, offers,
                   owner, started>>

\* cleanup_expired_key_packages, one fetchPending in ten
CleanupExpired ==
    /\ phase = "idle"
    /\ kps' = {r \in kps : ~(r.at + Life < now)}
    /\ UNCHANGED <<notices, outbox, phase, req, pick, clients, now, asks,
                   fetches, offers, replies, owner, given, started>>

\* The process stops and starts again; or a query of the handler fails.
Crash ==
    /\ phase # "idle"
    /\ Return
    /\ UNCHANGED <<kps, notices, outbox, clients, now, asks, fetches, offers,
                   replies, owner, given, started>>

-----------------------------------------------------------------------------
(* The environment *)

Tick ==
    /\ now < MaxTime
    /\ now' = now + 1
    /\ UNCHANGED <<server, clients, outbox, asks, fetches, offers, replies,
                   owner, given, started>>

Next ==
    \/ \E u \in Users : \/ Login(u)
                        \/ PublishFails(u)
                        \/ \E k \in Kps : Publish(u, k)
    \/ \E f \in Fetchers : \/ Ask(f)
                           \/ Grind(f)
                           \/ Timeout(f)
                           \/ ChallengeRefused(f)
                           \/ ChallengeHeldBack(f)
                           \/ ChallengeIssued(f)
    \/ \E c \in offers : GetChallenge(c)
    \/ \E r \in replies : GetKp(r)
    \/ \E m \in fetches : FetchVerified(m) \/ FetchRefused(m)
    \/ ConsumeCount
    \/ ConsumeSelect
    \/ ConsumeDelete
    \/ FetchReply
    \/ CleanupExpired
    \/ Crash
    \/ Tick

Spec == Init /\ [][Next]_vars

\* The handlers run to their end; a client whose wait is over tries again; of
\* requests and publications sent again and again some arrive.  Nothing is
\* assumed of Login: a user who is online has no reason to log in again.
Fairness ==
    /\ WF_vars(ConsumeCount)
    /\ WF_vars(ConsumeSelect)
    /\ WF_vars(ConsumeDelete)
    /\ WF_vars(FetchReply)
    /\ \A f \in Fetchers :
          /\ WF_vars(Ask(f))
          /\ WF_vars(Grind(f))
          /\ WF_vars(Timeout(f))
          /\ SF_vars(ChallengeRefused(f))
          /\ SF_vars(ChallengeIssued(f))
    /\ \A u \in Users : SF_vars(\E k \in Kps : Publish(u, k))

FairSpec == Spec /\ Fairness

-----------------------------------------------------------------------------
(* Properties *)

\* The type invariant.
TypeOK ==
    /\ kps \subseteq Row
    /\ notices \in [Users -> 0 .. MaxNotices]
    /\ outbox \in [Users -> 0 .. Batch * (1 + MaxNotices)]
    /\ phase \in {"idle", "verified", "counted", "selected", "deleted"}
    /\ req \in Challenge \cup {NoChallenge}
    /\ pick \in Kps \cup {NoKp}
    /\ now \in Times
    /\ state \in [Fetchers ->
                    {"idle", "asking", "grinding", "fetching", "done"}]
    /\ chal \in [Fetchers -> Challenge \cup {NoChallenge}]
    /\ got \in [Fetchers -> Kps \cup {NoKp}]
    /\ tries \in [Fetchers -> 0 .. MaxTries]
    /\ asks \subseteq Fetchers
    /\ fetches \subseteq Challenge
    /\ offers \subseteq Challenge
    /\ replies \subseteq Reply
    /\ owner \in [Kps -> Users \cup {NoKp}]
    /\ given \subseteq [kp : Kps, to : Fetchers, at : Times]
    /\ started \in Times

\* A key package is used for one handshake: none that was handed out is in the
\* table or about to be handed out again, no two clients end up with the same
\* one, however many fetches, retries, late answers and crashes there were, and
\* what a client ends up with was published by the user it asked for.
GivenOnce ==
    /\ \A g, h \in given : g.kp = h.kp => g = h
    /\ \A g \in given : /\ g.kp # pick
                         /\ \A r \in kps : r.kp # g.kp
    /\ \A f, g \in Fetchers : got[f] # NoKp /\ got[f] = got[g] => f = g
    /\ \A f \in Fetchers : got[f] # NoKp => owner[got[f]] = Target[f]

\* A challenge is good for less than two windows: whatever delays the mixnet
\* adds, no key package is handed out against an older one.
ChallengeAge == phase # "idle" => started < req.at + 2 * Window

\* A fetch leaves the user at least one row, although the count it relies on
\* was taken two statements earlier: nothing else deletes in between.
LastRowKept ==
    [][\A u \in Users : phase = "selected" /\ (\E r \in kps : r.user = u)
          => \E r \in kps' : r.user = u]_vars

-----------------------------------------------------------------------------
(* The inductive invariant *)

\* The table: one row per key package, of the user who generated it.
RowsSound ==
    /\ IsFiniteSet(kps)
    /\ \A r \in kps : owner[r.kp] = r.user
    /\ \A r, q \in kps : r.kp = q.kp => r = q

\* What each statement of the running handler may rely on.
HandlerSound ==
    /\ phase # "idle" => /\ req \in Challenge
                         /\ req.user = Target[req.from]
                         /\ started < req.at + 2 * Window
    /\ phase \in {"idle", "verified", "counted"} => pick = NoKp
    /\ phase = "counted" =>
          \E r, q \in kps : r # q /\ r.user = req.user /\ q.user = req.user
    /\ phase = "selected" =>
          \E r, q \in kps : /\ r # q
                            /\ r.user = req.user
                            /\ q.user = req.user
                            /\ r.kp = pick
    /\ phase = "deleted" => /\ pick \in Kps
                            /\ owner[pick] = req.user
                            /\ \A r \in kps : r.kp # pick

\* Challenges under way carry the window they were issued in.
ChallengeSound(c) == /\ c.user = Target[c.from]
                     /\ c.window = c.at \div Window
ChallengesSound ==
    /\ \A c \in offers : ChallengeSound(c) /\ c.bits <= Base + 8
    /\ \A c \in fetches : ChallengeSound(c)
    /\ \A f \in Fetchers : state[f] = "grinding" =>
          /\ chal[f] \in Challenge
          /\ ChallengeSound(chal[f])
          /\ chal[f].bits <= Base + 8

\* What was given, and where it is now.
GivenSound ==
    /\ \A g, h \in given : g.kp = h.kp => g = h
    /\ \A g \in given : /\ g.kp # pick
                         /\ owner[g.kp] = Target[g.to]
                         /\ \A r \in kps : r.kp # g.kp
    /\ \A r \in replies : \E g \in given : g.kp = r.kp /\ g.to = r.to
    /\ \A f \in Fetchers : got[f] # NoKp =>
          \E g \in given : g.kp = got[f] /\ g.to = f

Inv == /\ TypeOK
       /\ RowsSound
       /\ HandlerSound
       /\ ChallengesSound
       /\ GivenSound

-----------------------------------------------------------------------------
(* What documents and comments say *)

\* PROTOCOL.md: "Clients replenish when count drops below 3".
LowStockReplenished ==
    \A u \in Users : (Count(u) = 1) ~> (Count(u) # 1 \/ Unused = {})
=============================================================================
