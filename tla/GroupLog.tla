----------------------------- MODULE GroupLog -----------------------------
(***************************************************************************)
(* The message log of a group server and the members who read it: the      *)
(* messages and recent_message_hashes tables, sendGroup and fetchGroup,    *)
(* and the cursor a client keeps for each group.                           *)
(*                                                                         *)
(* A sendGroup records the hash of its message and then stores the         *)
(* message, two statements the process may stop between, and each may      *)
(* fail.  A message that was sent may arrive any number of times, however  *)
(* late; fetches and pages overtake each other and may be lost.            *)
(***************************************************************************)
EXTENDS Naturals, Sequences

CONSTANTS Members,    \* users the group server takes for members
          Msgs,       \* ciphertexts, each with its sender
          Keep,       \* how long a hash is kept (600 s)
          Page,       \* messages in an answer (100)
          MaxLog,     \* bound: length of the log
          MaxTime,    \* bound: the clock stops here
          MaxFaults,  \* bound: statements that fail, and stops
          NoMsg, Never

ASSUME NoMsgAssumption  == NoMsg \notin Msgs
ASSUME NeverAssumption  == Never \notin Nat
ASSUME BoundsAssumption == /\ Keep \in Nat
                           /\ Page \in Nat
                           /\ MaxLog \in Nat
                           /\ MaxTime \in Nat
                           /\ MaxFaults \in Nat

VARIABLES log,      \* messages table: ids are the positions
          hashes,   \* recent_message_hashes: when the hash was stored
          phase,    \* where the running sendGroup handler is
          job,      \* the message it serves
          stamp,    \* when it recorded the hash, "Never" if that failed
          now,      \* the clock
          out,      \* sendGroup messages that were sent
          fetches,  \* fetchGroup requests on their way
          pages,    \* fetchGroup answers on their way
          cursor,   \* group_cursors table of each member's client
          seen,     \* ids each member has got
          (* history *)
          told,     \* answers to sendGroup
          faults

server  == <<log, hashes, phase, job, stamp>>
clients == <<out, fetches, pages, cursor, seen>>
vars    == <<log, hashes, phase, job, stamp, now, out, fetches, pages, cursor,
             seen, told, faults>>

-----------------------------------------------------------------------------
(* Data *)

Times  == 0 .. MaxTime
Stamps == Times \cup {Never}
Ids    == 1 .. MaxLog

Stored  == [msg : Msgs, hashed : Stamps]
Fetch   == [by : Members, since : Ids \cup {0}]
Answer  == [msg : Msgs, what : {"success", "duplicate", "failed"},
            id : Ids \cup {0}]
PageMsg == [to : Members, ids : SUBSET Ids]

Fault   == faults < MaxFaults /\ faults' = faults + 1
NoFault == faults' = faults

\* cleanup_old_message_hashes(600), which every message to the server starts
\* with: created_at < now - 600.
\* Faulty: hashes are dropped that are younger than that.
CleanedYoung == [m \in Msgs |-> IF hashes[m] # Never /\ hashes[m] < now
                                THEN Never ELSE hashes[m]]
Cleaned == [m \in Msgs |-> IF hashes[m] # Never /\ hashes[m] + Keep < now
                           THEN Never ELSE hashes[m]]

\* get_messages_since: WHERE id > ? ORDER BY id ASC LIMIT 100
\* Faulty: the newest of them.
PageNewest(since) == {i \in Ids : /\ since < i
                                  /\ i <= Len(log)
                                  /\ Len(log) < i + Page}
PageOf(since) == {i \in Ids : since < i /\ i <= Len(log) /\ i <= since + Page}

\* The statement that updates the cursor names no username, which the table
\* declares NOT NULL without a default: OR REPLACE aborts it, the error is
\* logged, and the row stays as it was.
CursorAfter(u, ids) == cursor[u]

Tell(what, id) == told' = told \cup {[msg |-> job, what |-> what, id |-> id]}

Return == phase' = "idle" /\ job' = NoMsg /\ stamp' = Never

-----------------------------------------------------------------------------
(* Initial state: an empty log, and clients that have fetched nothing. *)

Init == /\ log = <<>>
        /\ hashes = [m \in Msgs |-> Never]
        /\ phase = "idle"
        /\ job = NoMsg
        /\ stamp = Never
        /\ now = 0
        /\ out = {}
        /\ fetches = {}
        /\ pages = {}
        /\ cursor = [u \in Members |-> 0]
        /\ seen = [u \in Members |-> {}]
        /\ told = {}
        /\ faults = 0

-----------------------------------------------------------------------------
(* sendGroup *)

\* A member's client encrypts and sends; every ciphertext is new.
SendGroup(m) ==
    /\ m \notin out
    /\ out' = out \cup {m}
    /\ UNCHANGED <<server, now, fetches, pages, cursor, seen, told, faults>>

\* The clean-up of process_message, or its failure
Clean == \/ hashes' = Cleaned /\ NoFault
         \/ hashes' = hashes /\ Fault

\* handle_send_group_core: from an authenticated member, the first time or
\* again, up to the dedup check, which a failure passes.
Receive(m) ==
    /\ phase = "idle"
    /\ m \in out
    /\ Len(log) < MaxLog
    /\ Clean
    /\ phase' = "check"
    /\ job' = m
    /\ UNCHANGED <<log, stamp, now, clients, told>>

\* check_and_store_message_hash: INSERT OR IGNORE
CheckHash ==
    /\ phase = "check"
    /\ \/ /\ hashes[job] = Never
          /\ hashes' = [hashes EXCEPT ![job] = now]
          /\ stamp' = now
          /\ phase' = "store"
          /\ NoFault
          /\ UNCHANGED <<job, told>>
       \/ /\ hashes[job] # Never
          /\ Tell("duplicate", 0)
          /\ Return
          /\ NoFault
          /\ UNCHANGED hashes
       \/ /\ Fault
          /\ stamp' = Never
          /\ phase' = "store"
          /\ UNCHANGED <<hashes, job, told>>
    /\ UNCHANGED <<log, now, clients>>

\* Faulty: the answer names the row before.
StoreMessageStaleId ==
    /\ phase = "store"
    /\ log' = Append(log, [msg |-> job, hashed |-> stamp])
    /\ Tell("success", Len(log))
    /\ Return
    /\ NoFault
    /\ UNCHANGED <<hashes, now, clients>>

\* store_message, and the answer with its id
StoreMessage ==
    /\ phase = "store"
    /\ \/ /\ log' = Append(log, [msg |-> job, hashed |-> stamp])
          /\ Tell("success", Len(log) + 1)
          /\ NoFault
       \/ /\ Tell("failed", 0)
          /\ Fault
          /\ UNCHANGED log
    /\ Return
    /\ UNCHANGED <<hashes, now, clients>>

-----------------------------------------------------------------------------
(* fetchGroup *)

\* fetch_group_messages of the client asks from its cursor on.
Ask(u) ==
    /\ fetches' = fetches \cup {[by |-> u, since |-> cursor[u]]}
    /\ UNCHANGED <<server, now, out, pages, cursor, seen, told, faults>>

\* handle_fetch_group_core; an error is answered without a page.
ServePage(f) ==
    /\ phase = "idle"
    /\ f \in fetches
    /\ fetches' = fetches \ {f}
    /\ \/ /\ Clean
          /\ pages' = pages \cup {[to |-> f.by, ids |-> PageOf(f.since)]}
       \/ /\ Fault
          /\ hashes' = Cleaned
          /\ UNCHANGED pages
    /\ UNCHANGED <<log, phase, job, stamp, now, out, cursor, seen, told>>

\* fetchGroupResponse: the cursor is to move to the greatest id.
Deliver(p) ==
    /\ p \in pages
    /\ pages' = pages \ {p}
    /\ seen' = [seen EXCEPT ![p.to] = @ \cup p.ids]
    /\ cursor' = [cursor EXCEPT ![p.to] = CursorAfter(p.to, p.ids)]
    /\ UNCHANGED <<server, now, out, fetches, told, faults>>

-----------------------------------------------------------------------------
(* The environment *)

\* The process stops and starts again.
Crash ==
    /\ phase # "idle"
    /\ Fault
    /\ Return
    /\ UNCHANGED <<log, hashes, now, clients, told>>

Tick ==
    /\ now < MaxTime
    /\ now' = now + 1
    /\ UNCHANGED <<server, clients, told, faults>>

Next ==
    \/ \E m \in Msgs : SendGroup(m) \/ Receive(m)
    \/ CheckHash
    \/ StoreMessage
    \/ \E u \in Members : Ask(u)
    \/ \E f \in fetches : ServePage(f)
    \/ \E p \in pages : Deliver(p)
    \/ Crash
    \/ Tick

Spec == Init /\ [][Next]_vars

\* A handler that runs goes on; a member fetches again and again, and of those
\* fetches and their pages some arrive.
Fairness ==
    /\ WF_vars(CheckHash)
    /\ WF_vars(StoreMessage)
    /\ \A u \in Members :
          /\ WF_vars(Ask(u))
          /\ SF_vars(\E f \in fetches : f.by = u /\ ServePage(f))
          /\ SF_vars(\E p \in pages : p.to = u /\ Deliver(p))

FairSpec == Spec /\ Fairness

-----------------------------------------------------------------------------
(* Properties *)

\* The type invariant.
TypeOK ==
    /\ log \in Seq(Stored)
    /\ Len(log) <= MaxLog
    /\ hashes \in [Msgs -> Stamps]
    /\ phase \in {"idle", "check", "store"}
    /\ job \in Msgs \cup {NoMsg}
    /\ stamp \in Stamps
    /\ now \in Times
    /\ out \subseteq Msgs
    /\ fetches \subseteq Fetch
    /\ pages \subseteq PageMsg
    /\ cursor \in [Members -> Ids \cup {0}]
    /\ seen \in [Members -> SUBSET Ids]
    /\ told \subseteq Answer
    /\ faults \in 0 .. MaxFaults

\* A message that arrives again is stored again only when its hash was kept
\* its whole time, or was not recorded because the statement failed; neither a
\* stop between the two statements nor a clean-up in between changes that.
DedupWindow ==
    \A i, j \in 1 .. Len(log) :
       (i < j /\ log[i].msg = log[j].msg) =>
          \/ log[i].hashed = Never
          \/ log[j].hashed = Never
          \/ log[i].hashed + Keep < log[j].hashed

\* The id that a sender was told is the position of that very message, and
\* stays so.
ToldIdsRight ==
    \A t \in told : t.what = "success" =>
       t.id \in 1 .. Len(log) /\ log[t.id].msg = t.msg

\* Pages overtake each other, are lost, and come twice, and yet a member never
\* has a message without having all that were stored before it.
SeenWithoutGaps ==
    \A u \in Members : \A i \in seen[u] : 1 .. i \subseteq seen[u]

\* The log, its senders and its readers keep the promises of Broadcast: through
\* stops, failed statements, lost pages and pages that overtake each other there
\* is one order, places in it are final, and every reader has a beginning of it.
Group == INSTANCE Broadcast
           WITH sent      <- out,
                order     <- [i \in 1 .. Len(log) |-> log[i].msg],
                confirmed <- {<<t.msg, t.id>> : t \in {a \in told : a.what = "success"}},
                got       <- seen

ImplementsBroadcast == Group!BSpec

\* Every member gets, in the end, each message of the first page.
FirstPageReaches ==
    \A u \in Members : \A i \in 1 .. Page :
       (i <= Len(log)) ~> (i \in seen[u])

-----------------------------------------------------------------------------
(* The inductive invariant *)

\* A row whose hash was recorded has it still, or is older than it is kept,
\* and then a hash that is there was recorded for a later arrival.
HashOutdated(i) ==
    /\ log[i].hashed + Keep < now
    /\ \/ hashes[log[i].msg] = Never
       \/ log[i].hashed + Keep < hashes[log[i].msg]

HashesCover ==
    \A i \in 1 .. Len(log) :
       log[i].hashed # Never =>
          \/ hashes[log[i].msg] = log[i].hashed
          \/ HashOutdated(i)

\* A handler about to store has its hash recorded, and so late that the row
\* it adds is apart from those of the same message; or could not record it.
StoreSound ==
    /\ phase # "idle" => job \in Msgs /\ Len(log) < MaxLog
    /\ phase # "store" => stamp = Never
    /\ (phase = "store" /\ stamp # Never) =>
          /\ hashes[job] = stamp
          /\ \A i \in 1 .. Len(log) :
                log[i].msg = job => \/ log[i].hashed = Never
                                    \/ log[i].hashed + Keep < stamp

\* Cursors stay at 0: every page is asked for from the first message on.
AskedFromStart ==
    /\ \A u \in Members : cursor[u] = 0
    /\ \A f \in fetches : f.since = 0

\* What is on its way to a member, and what a member has got, is a beginning of
\* the log.
Beginning(ids) == \E k \in 0 .. Len(log) : ids = 1 .. k

Beginnings ==
    /\ \A p \in pages : Beginning(p.ids)
    /\ \A u \in Members : Beginning(seen[u])

\* The handler serves a message that was sent.
JobSent == phase # "idle" => job \in out

Inv == /\ TypeOK
       /\ HashesCover
       /\ StoreSound
       /\ JobSent
       /\ AskedFromStart
       /\ Beginnings
       /\ DedupWindow
       /\ ToldIdsRight

-----------------------------------------------------------------------------
(* What documents and comments say *)

\* fetchGroup: "Fetch new messages since a given cursor (message ID)": a member
\* who keeps fetching gets every message.
EveryMessageReaches ==
    \A u \in Members : \A i \in Ids :
       (i <= Len(log)) ~> (i \in seen[u])
=============================================================================
