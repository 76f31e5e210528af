---------------------------- MODULE DmHandshake ----------------------------
(***************************************************************************)
(* The direct-message handshake of two clients: commands/messaging.rs,     *)
(* commands/invites.rs, commands/contacts.rs, the sealed-message handlers  *)
(* of tasks/message_loop.rs, core/message_handler/direct.rs, and the MLS   *)
(* client and the pending queries they use.                                *)
(*                                                                         *)
(* Writing to somebody for the first time starts a background task that    *)
(* fetches a key package, makes an MLS group with the commit left pending, *)
(* and sends a welcome.  The other side joins, at once if it knows the     *)
(* sender and on Accept otherwise, maps the conversation to the group and  *)
(* acknowledges; the acknowledgement makes the first side apply the commit *)
(* and map the conversation too.  Then each drains the rows left pending.  *)
(*                                                                         *)
(* Every handler is a task of its own and may be overtaken between any two *)
(* awaits; the network (module Relay) is a set whose messages overtake     *)
(* each other, get lost, or are handed over twice.  A row and the group a  *)
(* background task makes have the number of the command they come from.    *)
(***************************************************************************)
EXTENDS Integers, FiniteSets

CONSTANTS A, B,        \* the two users
          Ids,         \* commands: each stores a message, or only starts a handshake
          Silent,      \* those that only start one
          Author,      \* Author[i]: who gives command i
          MaxCommands, \* bound: commands given
          MaxExtras    \* bound: faults and contact-list commands together

Users   == {A, B}
Peer(u) == IF u = A THEN B ELSE A
NoGroup == 0

ASSUME UsersAssumption  == A # B
ASSUME IdsAssumption    == Silent \subseteq Ids /\ Ids \subseteq Nat \ {NoGroup} /\ IsFiniteSet(Ids)
ASSUME AuthorAssumption == Author \in [Ids -> Users]
ASSUME BoundsAssumption == MaxCommands \in Nat /\ MaxExtras \in Nat

VARIABLES contact,   \* contacts row of the peer: "none", "keyless" or "known"
          cached,    \* the peer's public key is in query_cache
          request,   \* contact_requests row of the peer
          willing,   \* history: wrote first, accepted, or added the other
          conv,      \* conversations row: the MLS group, or NoGroup
          mls,       \* MLS storage: "none", "pending" commit, or "active"
          pend,      \* pending_handshakes row: the MLS group, or NoGroup
          row,       \* status of each messages row, "none" before it is stored
          cmd,       \* where each send_message or initiate_conversation is
          copies,    \* how often each message was encrypted
          init,      \* where the background task each command spawned is
          waiter,    \* pending_queries, keys kp_challenge: and kp_fetch:
          name,      \* pending_queries, key username: what waits, and for which message
          querying,  \* a query_user command waits
          tasks,     \* handlers of sealed messages, and accept commands
          net,       \* sealed messages on their way
          seen,      \* <<message, copy>> each user decrypted and stored
          faults, edits

people == <<contact, cached, request, willing>>
groups == <<conv, mls, pend>>
outbox == <<row, cmd, copies>>
starts == <<init, waiter>>
waits  == <<name, querying>>

vars == <<people, groups, outbox, starts, waits, tasks, net, seen, faults, edits>>

(***************************************************************************)
(* Records.  An acknowledgement names the conversation, not the group: its *)
(* grp is history, and no handler reads it.  A message handed over twice   *)
(* is marked, so that its two handlers are told apart.                     *)
(***************************************************************************)
NoMsg == [type |-> "none", to |-> A, grp |-> NoGroup, msg |-> 0, copy |-> 0, again |-> FALSE]

Welcome(g)   == [NoMsg EXCEPT !.type = "welcome", !.to = Peer(Author[g]), !.grp = g]
Ack(u, g)    == [NoMsg EXCEPT !.type = "ack", !.to = Peer(u), !.grp = g]
App(m, g, c) == [NoMsg EXCEPT !.type = "app", !.to = Peer(Author[m]), !.grp = g,
                              !.msg = m, !.copy = c]

Task(who, n, g, where) == [by |-> who, m |-> n, grp |-> g, pc |-> where, left |-> {}]
At(t, where)  == [t EXCEPT !.pc = where]
Move(u, t, T) == tasks' = [tasks EXCEPT ![u] = (@ \ {t}) \cup T]

Nobody   == <<"none", NoMsg>>
Least(S) == CHOOSE i \in S : \A j \in S : i <= j

Known(u)       == contact[u] = "known"
Established(u) == conv[u] # NoGroup

\* Faults are losses, repetitions, sends that fail and restarts.
Fault   == faults + edits < MaxExtras /\ faults' = faults + 1
NoFault == UNCHANGED faults
Edit    == faults + edits < MaxExtras /\ edits' = edits + 1

Init ==
  /\ contact  = [u \in Users |-> "none"]
  /\ cached   = [u \in Users |-> FALSE]
  /\ request  = [u \in Users |-> [status |-> "none", w |-> NoMsg]]
  /\ willing  = [u \in Users |-> FALSE]
  /\ conv     = [u \in Users |-> NoGroup]
  /\ mls      = [u \in Users |-> [g \in Ids |-> "none"]]
  /\ pend     = [u \in Users |-> NoGroup]
  /\ row      = [i \in Ids |-> "none"]
  /\ cmd      = [i \in Ids |-> "idle"]
  /\ copies   = [i \in Ids |-> 0]
  /\ init     = [i \in Ids |-> "no"]
  /\ waiter   = [u \in Users |-> [k \in {"challenge", "kp"} |-> 0]]
  /\ name     = [u \in Users |-> Nobody]
  /\ querying = [u \in Users |-> FALSE]
  /\ tasks    = [u \in Users |-> {}]
  /\ net      = {}
  /\ seen     = [u \in Users |-> {}]
  /\ faults   = 0
  /\ edits    = 0

(***************************************************************************)
(* send_message and initiate_conversation.                                 *)
(***************************************************************************)
NextCommand(i) == /\ cmd[i] = "idle"
                  /\ Cardinality({j \in Ids : cmd[j] # "idle"}) < MaxCommands
                  /\ \A j \in Ids : Author[j] = Author[i] /\ j < i => cmd[j] # "idle"
                  /\ cmd' = [cmd EXCEPT ![i] = "started"]

\* The row is stored before anything is looked up.
SendMessage(i) ==
  /\ i \notin Silent
  /\ NextCommand(i)
  /\ row' = [row EXCEPT ![i] = "pending"]
  /\ UNCHANGED <<people, groups, copies, starts, waits, tasks, net, seen, faults, edits>>

InitiateConversation(i) ==
  /\ i \in Silent
  /\ NextCommand(i)
  /\ UNCHANGED <<people, groups, row, copies, starts, waits, tasks, net, seen, faults, edits>>

CheckConversation(i) ==
  /\ cmd[i] = "started"
  /\ cmd' = [cmd EXCEPT ![i] = IF ~Established(Author[i]) THEN "unknown"
                               ELSE IF i \in Silent THEN "done" ELSE "direct"]
  /\ UNCHANGED <<people, groups, row, copies, starts, waits, tasks, net, seen, faults, edits>>

\* handshake_in_progress looks for the conversation again and then for a
\* pending_handshakes row: a background task that has not got that far does
\* not count, and a handshake may be finalised between the two looks.
CheckHandshake(i) ==
  LET u == Author[i] IN
  /\ cmd[i] = "unknown"
  /\ cmd' = [cmd EXCEPT ![i] = "done"]
  /\ \/ /\ Established(u) \/ pend[u] # NoGroup
        /\ UNCHANGED <<willing, init>>
     \/ /\ pend[u] = NoGroup
        /\ init' = [init EXCEPT ![i] = "ask"]
        /\ willing' = [willing EXCEPT ![u] = TRUE]
  /\ UNCHANGED <<contact, cached, request, groups, row, copies, waiter, waits, tasks,
                 net, seen, faults, edits>>

\* Encrypting needs the group, sealing needs the recipient's public key; the
\* message is encrypted, and its key used up, before the key is looked for.
Encrypt(i) == copies' = [copies EXCEPT ![i] = @ + 1]
Sealed(i)  == App(i, conv[Author[i]], copies[i] + 1)

\* seal_and_send, of message n by user u
SealAndSend(u, n) == Known(u) /\ NoFault /\ net' = net \cup {n}
SealFails(u)      == (IF Known(u) THEN Fault ELSE NoFault) /\ UNCHANGED net

DirectSend(i) ==
  LET u == Author[i] IN
  /\ cmd[i] = "direct"
  /\ Encrypt(i)
  /\ \/ /\ SealAndSend(u, Sealed(i))
        /\ cmd' = [cmd EXCEPT ![i] = "mark"]
        /\ UNCHANGED row
     \/ /\ SealFails(u)
        /\ row' = [row EXCEPT ![i] = "failed"]
        /\ cmd' = [cmd EXCEPT ![i] = "done"]
  /\ UNCHANGED <<people, groups, starts, waits, tasks, seen, edits>>

DirectMark(i) ==
  /\ cmd[i] = "mark"
  /\ row' = [row EXCEPT ![i] = "sent"]
  /\ cmd' = [cmd EXCEPT ![i] = "done"]
  /\ UNCHANGED <<people, groups, copies, starts, waits, tasks, net, seen, faults, edits>>

(***************************************************************************)
(* The background task: challenge, proof of work, key package, group,      *)
(* welcome.  Both requests wait under a key that names only the recipient: *)
(* a second task takes the first one's place.                              *)
(***************************************************************************)
Key(where) == IF where = "challenge" THEN "challenge" ELSE "kp"

AskFor(i, here, there) ==
  /\ init[i] = here
  /\ waiter' = [waiter EXCEPT ![Author[i]][Key(there)] = i]
  /\ init' = [init EXCEPT ![i] = there]
  /\ UNCHANGED <<people, groups, outbox, waits, tasks, net, seen, faults, edits>>

AskChallenge(i)  == AskFor(i, "ask", "challenge")
AskKeyPackage(i) == AskFor(i, "pow", "kp")

\* resolve_pending_query: the answer goes to whoever is registered.  It is
\* about the same recipient whichever request it answers.
Resolve(u, k) == waiter' = [waiter EXCEPT ![u][k] = 0]

ChallengeArrives(u) ==
  LET i == waiter[u]["challenge"] IN
  /\ i # 0
  /\ Resolve(u, "challenge")
  /\ init' = [init EXCEPT ![i] = "pow"]
  /\ UNCHANGED <<people, groups, outbox, waits, tasks, net, seen, faults, edits>>

\* The bundle is verified and its owner becomes a contact.
BundleVerified(u) == contact' = [contact EXCEPT ![u] = "known"]

KeyPackageArrives(u) ==
  LET i == waiter[u]["kp"] IN
  /\ i # 0
  /\ Resolve(u, "kp")
  /\ init' = [init EXCEPT ![i] = "group"]
  /\ BundleVerified(u)
  /\ UNCHANGED <<cached, request, willing, groups, outbox, waits, tasks, net, seen, faults, edits>>

\* 15 seconds are over, or another task was registered under the key and the
\* channel is closed.  Either way cancel_pending_query removes what it finds.
Abandon(i) ==
  /\ init[i] \in {"challenge", "kp"}
  /\ Resolve(Author[i], Key(init[i]))
  /\ init' = [init EXCEPT ![i] = "failed"]
  /\ UNCHANGED <<people, groups, outbox, waits, tasks, net, seen, faults, edits>>

\* Faulty: the conversation is mapped at once.
CompleteMapped(i) ==
  LET u == Author[i] IN
  /\ init[i] = "group"
  /\ mls' = [mls EXCEPT ![u][i] = "pending"]
  /\ conv' = [conv EXCEPT ![u] = i]
  /\ pend' = [pend EXCEPT ![u] = i]
  /\ init' = [init EXCEPT ![i] = "welcome"]
  /\ UNCHANGED <<people, outbox, waiter, waits, tasks, net, seen, faults, edits>>

\* Faulty: the commit is applied at once, too.
CompleteApplied(i) ==
  LET u == Author[i] IN
  /\ init[i] = "group"
  /\ mls' = [mls EXCEPT ![u][i] = "active"]
  /\ conv' = [conv EXCEPT ![u] = i]
  /\ init' = [init EXCEPT ![i] = "welcome"]
  /\ UNCHANGED <<people, pend, outbox, waiter, waits, tasks, net, seen, faults, edits>>

\* A new MLS group whose commit is left pending.
StartConversation(u, g) == mls' = [mls EXCEPT ![u][g] = "pending"]

\* INSERT OR REPLACE
StorePendingHandshake(u, g) == pend' = [pend EXCEPT ![u] = g]

\* Nothing is looked up again: there may be a conversation, or another
\* pending handshake, by now.
CompleteHandshake(i) ==
  /\ init[i] = "group"
  /\ StartConversation(Author[i], i)
  /\ StorePendingHandshake(Author[i], i)
  /\ init' = [init EXCEPT ![i] = "welcome"]
  /\ UNCHANGED <<people, conv, outbox, waiter, waits, tasks, net, seen, faults, edits>>

SendWelcome(i) ==
  /\ init[i] = "welcome"
  /\ \/ SealAndSend(Author[i], Welcome(i)) /\ init' = [init EXCEPT ![i] = "done"]
     \/ SealFails(Author[i])               /\ init' = [init EXCEPT ![i] = "failed"]
  /\ UNCHANGED <<people, groups, outbox, waiter, waits, tasks, seen, edits>>

(***************************************************************************)
(* handle_sealed_message: n arrives at its recipient, once or twice.       *)
(***************************************************************************)
HandOver(n) == \/ NoFault /\ net' = net \ {n}
               \/ ~n.again /\ Fault /\ net' = (net \ {n}) \cup {[n EXCEPT !.again = TRUE]}

ApplyPendingCommit(u) == mls' = [mls EXCEPT ![u][pend[u]] = "active"]

\* The message is of the group that the conversation is mapped to.
Decrypts(u, n) == conv[u] = n.grp /\ mls[u][n.grp] = "active"

\* What the three kinds do once the sender's key is known.  T: the other
\* tasks of u.
Dispatch(u, n, T) ==
  \/ /\ n.type = "welcome"
     /\ tasks' = [tasks EXCEPT ![u] =
                    IF Established(u) THEN T ELSE T \cup {Task("loop", n, n.grp, "join")}]
     /\ UNCHANGED <<mls, seen>>
  \/ /\ n.type = "ack"
     /\ IF pend[u] # NoGroup /\ mls[u][pend[u]] = "pending"
        THEN /\ ApplyPendingCommit(u)
             /\ tasks' = [tasks EXCEPT ![u] = T \cup {Task("loop", n, pend[u], "map")}]
        ELSE tasks' = [tasks EXCEPT ![u] = T] /\ UNCHANGED mls
     /\ UNCHANGED seen
  \/ /\ n.type = "app"
     /\ seen' = IF Decrypts(u, n)
                THEN [seen EXCEPT ![u] = @ \cup {<<n.msg, n.copy>>}] ELSE seen
     /\ tasks' = [tasks EXCEPT ![u] = T]
     /\ UNCHANGED mls

\* With a key that is the empty string no signature verifies.
ReceiveKeyless(n) ==
  /\ contact[n.to] = "keyless"
  /\ UNCHANGED <<request, mls, name, tasks, seen>>

ReceiveKnown(n) ==
  /\ Known(n.to)
  /\ Dispatch(n.to, n, tasks[n.to])
  /\ UNCHANGED <<request, name>>

\* Faulty: a stranger's welcome is handled like a contact's.
ReceiveInviteJoins(n) ==
  /\ contact[n.to] = "none"
  /\ n.type = "welcome"
  /\ Dispatch(n.to, n, tasks[n.to])
  /\ UNCHANGED <<request, name>>

\* store_unverified_welcome: INSERT OR REPLACE
ReceiveInvite(n) ==
  /\ contact[n.to] = "none"
  /\ n.type = "welcome"
  /\ request' = [request EXCEPT ![n.to] = [status |-> "pending", w |-> n]]
  /\ UNCHANGED <<mls, name, tasks, seen>>

\* fetch_pubkey_from_server
ReceiveStranger(n) ==
  /\ contact[n.to] = "none"
  /\ n.type # "welcome"
  /\ name' = [name EXCEPT ![n.to] = <<"pubkey", n>>]
  /\ tasks' = [tasks EXCEPT ![n.to] = @ \cup {Task("loop", n, NoGroup, "pubkey")}]
  /\ UNCHANGED <<request, mls, seen>>

Receive(n) ==
  /\ n \in net
  /\ HandOver(n)
  /\ ReceiveKeyless(n) \/ ReceiveKnown(n) \/ ReceiveInvite(n) \/ ReceiveStranger(n)
  /\ UNCHANGED <<contact, cached, willing, conv, pend, outbox, starts, querying, edits>>

(***************************************************************************)
(* The steps of a handler, or of an accept command, after it was told to   *)
(* join, or applied the pending commit.                                    *)
(***************************************************************************)
\* Joining uses up the private part of the key package: once for a group.
Join(u, t) ==
  /\ t.pc = "join"
  /\ IF mls[u][t.grp] = "none"
     THEN mls' = [mls EXCEPT ![u][t.grp] = "active"] /\ Move(u, t, {At(t, "map")})
     ELSE Move(u, t, {}) /\ UNCHANGED mls
  /\ UNCHANGED <<people, conv, pend, outbox, starts, waits, net, seen, faults, edits>>

\* Faulty: an accepted request is not acknowledged.
AfterMapSilent(t) == IF t.m.type = "ack" THEN "unpend"
                     ELSE IF t.by = "user" THEN "mark" ELSE "reply"

AfterMap(t) == IF t.m.type = "ack" THEN "unpend"
               ELSE IF t.by = "user" THEN "contact" ELSE "reply"

\* Faulty: the group id of the payload, which is the conversation's own.
MapOwnId(u, t) ==
  /\ t.pc = "map"
  /\ conv' = [conv EXCEPT ![u] = -1]
  /\ Move(u, t, {At(t, AfterMap(t))})
  /\ UNCHANGED <<people, mls, pend, outbox, starts, waits, net, seen, faults, edits>>

MapGroup(u, t) ==
  /\ t.pc = "map"
  /\ conv' = [conv EXCEPT ![u] = t.grp]
  /\ Move(u, t, {At(t, AfterMap(t))})
  /\ UNCHANGED <<people, mls, pend, outbox, starts, waits, net, seen, faults, edits>>

Unpend(u, t) ==
  /\ t.pc = "unpend"
  /\ pend' = [pend EXCEPT ![u] = NoGroup]
  /\ Move(u, t, {At(t, "select")})
  /\ UNCHANGED <<people, conv, mls, outbox, starts, waits, net, seen, faults, edits>>

SaveContact(u, t) ==
  /\ t.pc = "contact"
  /\ contact' = [contact EXCEPT ![u] = "known"]
  /\ Move(u, t, {At(t, "reply")})
  /\ UNCHANGED <<cached, request, willing, groups, outbox, starts, waits, net, seen, faults, edits>>

SendWelcomeAck(u, t) ==
  /\ t.pc = "reply"
  /\ \/ /\ SealAndSend(u, Ack(u, t.grp))
        /\ Move(u, t, {At(t, IF t.by = "user" THEN "mark" ELSE "select")})
     \/ SealFails(u) /\ Move(u, t, {})
  /\ UNCHANGED <<people, groups, outbox, starts, waits, seen, edits>>

\* By user name: a request that came meanwhile is marked as well.
MarkAccepted(u, t) ==
  /\ t.pc = "mark"
  /\ request' = [request EXCEPT ![u].status = "accepted"]
  /\ Move(u, t, {})
  /\ UNCHANGED <<contact, cached, willing, groups, outbox, starts, waits, net, seen, faults, edits>>

\* drain_pending_messages: the rows are selected once, then each is sent
\* and marked; the first failure ends the drain.
OwnPending(u) == {i \in Ids : Author[i] = u /\ row[i] = "pending"}
Draining(t, S) == IF S = {} THEN {} ELSE {[At(t, "drain") EXCEPT !.left = S]}

DrainSelect(u, t) ==
  /\ t.pc = "select"
  /\ Move(u, t, Draining(t, OwnPending(u)))
  /\ UNCHANGED <<people, groups, outbox, starts, waits, net, seen, faults, edits>>

DrainSend(u, t) ==
  LET i == Least(t.left) IN
  /\ t.pc = "drain"
  /\ Encrypt(i)
  /\ \/ SealAndSend(u, Sealed(i)) /\ Move(u, t, {At(t, "drained")})
     \/ SealFails(u) /\ Move(u, t, {})
  /\ UNCHANGED <<people, groups, row, cmd, starts, waits, seen, edits>>

\* Faulty: ends after the first row.
DrainMarkOne(u, t) ==
  LET i == Least(t.left) IN
  /\ t.pc = "drained"
  /\ row' = [row EXCEPT ![i] = "sent"]
  /\ Move(u, t, {})
  /\ UNCHANGED <<people, groups, cmd, copies, starts, waits, net, seen, faults, edits>>

DrainMark(u, t) ==
  LET i == Least(t.left) IN
  /\ t.pc = "drained"
  /\ row' = [row EXCEPT ![i] = "sent"]
  /\ Move(u, t, Draining(t, t.left \ {i}))
  /\ UNCHANGED <<people, groups, cmd, copies, starts, waits, net, seen, faults, edits>>

\* A stranger's acknowledgement or message, its key found.
Identified(u, t) ==
  /\ t.pc = "identified"
  /\ Dispatch(u, t.m, tasks[u] \ {t})
  /\ UNCHANGED <<people, conv, pend, outbox, starts, waits, net, faults, edits>>

(***************************************************************************)
(* Queries by user name: one waiter, the last to register; whoever gives   *)
(* up removes it.  A request that cannot be sent is like one without an    *)
(* answer.                                                                 *)
(***************************************************************************)
NameArrives(u) ==
  LET kind == name[u][1]
      Got(from, to) == \E t \in tasks[u] : /\ t.m = name[u][2] /\ t.pc = from
                                           /\ Move(u, t, {At(t, to)})
  IN
  /\ name' = [name EXCEPT ![u] = Nobody]
  /\ cached' = [cached EXCEPT ![u] = TRUE]
  /\ \/ kind = "accept" /\ Got("query", "join") /\ UNCHANGED querying
     \/ kind = "pubkey" /\ Got("pubkey", "identified") /\ UNCHANGED querying
     \/ kind = "query" /\ querying' = [querying EXCEPT ![u] = FALSE] /\ UNCHANGED tasks
  /\ UNCHANGED <<contact, request, willing, groups, outbox, starts, net, seen, faults, edits>>

NameAbandon(u, t) ==
  /\ t.pc \in {"query", "pubkey"}
  /\ name' = [name EXCEPT ![u] = Nobody]
  /\ Move(u, t, {})
  /\ UNCHANGED <<people, groups, outbox, starts, querying, net, seen, faults, edits>>

QueryAbandon(u) ==
  /\ querying[u]
  /\ name' = [name EXCEPT ![u] = Nobody]
  /\ querying' = [querying EXCEPT ![u] = FALSE]
  /\ UNCHANGED <<people, groups, outbox, starts, tasks, net, seen, faults, edits>>

(***************************************************************************)
(* Commands on requests and contacts.                                      *)
(***************************************************************************)
\* One accept command at a time, as the window offers it.
Accept(u) ==
  LET n == request[u].w IN
  /\ request[u].status = "pending"
  /\ \A t \in tasks[u] : t.by # "user"
  /\ willing' = [willing EXCEPT ![u] = TRUE]
  /\ IF cached[u]
     THEN Move(u, n, {Task("user", n, n.grp, "join")}) /\ UNCHANGED name
     ELSE /\ Move(u, n, {Task("user", n, n.grp, "query")})
          /\ name' = [name EXCEPT ![u] = <<"accept", n>>]
  /\ UNCHANGED <<contact, cached, request, groups, outbox, starts, querying, net, seen, faults, edits>>

Deny(u) ==
  /\ request[u].status = "pending"
  /\ request' = [request EXCEPT ![u].status = "denied"]
  /\ UNCHANGED <<contact, cached, willing, groups, outbox, starts, waits, tasks, net, seen, faults, edits>>

\* The key is what query_cache has, or the empty string.
AddContact(u) ==
  /\ Edit
  /\ contact' = [contact EXCEPT ![u] = IF cached[u] THEN "known" ELSE "keyless"]
  /\ willing' = [willing EXCEPT ![u] = TRUE]
  /\ UNCHANGED <<cached, request, groups, outbox, starts, waits, tasks, net, seen, faults>>

RemoveContact(u) ==
  /\ Edit
  /\ contact[u] # "none"
  /\ contact' = [contact EXCEPT ![u] = "none"]
  /\ UNCHANGED <<cached, request, willing, groups, outbox, starts, waits, tasks, net, seen, faults>>

QueryUser(u) ==
  /\ Edit
  /\ ~querying[u]
  /\ querying' = [querying EXCEPT ![u] = TRUE]
  /\ name' = [name EXCEPT ![u] = <<"query", NoMsg>>]
  /\ UNCHANGED <<people, groups, outbox, starts, tasks, net, seen, faults>>

(***************************************************************************)
(* Faults.                                                                 *)
(***************************************************************************)
Working(u) == \/ \E i \in Ids : /\ Author[i] = u
                                /\ \/ cmd[i] \notin {"idle", "done"}
                                   \/ init[i] \notin {"no", "done", "failed"}
              \/ tasks[u] # {} \/ querying[u]

Lose(n) ==
  /\ Fault
  /\ n \in net
  /\ net' = net \ {n}
  /\ UNCHANGED <<people, groups, outbox, starts, waits, tasks, seen, edits>>

\* Tables and MLS storage survive; commands, tasks and waiters do not.  (Of a
\* client with nothing to do, a restart changes nothing.)
Restart(u) ==
  /\ Fault
  /\ Working(u)
  /\ cmd' = [i \in Ids |-> IF Author[i] = u /\ cmd[i] # "idle" THEN "done" ELSE cmd[i]]
  /\ init' = [i \in Ids |-> IF Author[i] = u /\ init[i] \notin {"no", "done"}
                            THEN "failed" ELSE init[i]]
  /\ waiter' = [waiter EXCEPT ![u] = [k \in {"challenge", "kp"} |-> 0]]
  /\ name' = [name EXCEPT ![u] = Nobody]
  /\ querying' = [querying EXCEPT ![u] = FALSE]
  /\ tasks' = [tasks EXCEPT ![u] = {}]
  /\ UNCHANGED <<people, groups, row, copies, net, seen, edits>>

(***************************************************************************)
(* The specification.                                                      *)
(***************************************************************************)
Command(i) == CheckConversation(i) \/ CheckHandshake(i) \/ DirectSend(i) \/ DirectMark(i)

Background(i) == \/ AskChallenge(i) \/ AskKeyPackage(i) \/ Abandon(i)
                 \/ CompleteHandshake(i) \/ SendWelcome(i)

Handler(u, t) == \/ Join(u, t) \/ MapGroup(u, t) \/ Unpend(u, t) \/ SaveContact(u, t)
                 \/ SendWelcomeAck(u, t) \/ MarkAccepted(u, t)
                 \/ DrainSelect(u, t) \/ DrainSend(u, t) \/ DrainMark(u, t)
                 \/ Identified(u, t) \/ NameAbandon(u, t)

Answers(u) == ChallengeArrives(u) \/ KeyPackageArrives(u) \/ NameArrives(u)

Choices(u) == \/ Accept(u) \/ Deny(u)
              \/ AddContact(u) \/ RemoveContact(u) \/ QueryUser(u)

Next ==
  \/ \E i \in Ids : SendMessage(i) \/ InitiateConversation(i) \/ Command(i) \/ Background(i)
  \/ \E u \in Users : \/ Answers(u) \/ Choices(u) \/ QueryAbandon(u) \/ Restart(u)
                      \/ \E t \in tasks[u] : Handler(u, t)
  \/ \E n \in net : Receive(n) \/ Lose(n)

Spec == Init /\ [][Next]_vars

\* The runtime goes on with every task, requests are answered or given up
\* after 15 seconds, and the network delivers.  Users need not do anything.
Fairness ==
  /\ \A i \in Ids : WF_vars(Command(i)) /\ WF_vars(Background(i))
  /\ \A u \in Users :
       /\ WF_vars(Answers(u)) /\ WF_vars(QueryAbandon(u))
       /\ \A g \in Ids \cup {NoGroup}, w \in {"user", "loop"} :
            WF_vars(\E t \in tasks[u] : t.grp = g /\ t.by = w /\ Handler(u, t))
       /\ WF_vars(\E n \in net : n.to = u /\ Receive(n))

FairSpec == Spec /\ Fairness

(***************************************************************************)
(* Properties.                                                             *)
(***************************************************************************)
Messages == [type : {"none", "welcome", "ack", "app"}, to : Users, grp : Ids \cup {NoGroup},
             msg : Ids \cup {0}, copy : Nat, again : BOOLEAN]
Places   == {"query", "pubkey", "identified", "join", "map", "unpend", "contact", "reply",
             "mark", "select", "drain", "drained"}
Tasks    == [by : {"user", "loop"}, m : Messages, grp : Ids \cup {NoGroup}, pc : Places,
             left : SUBSET Ids]

TypeOK ==
  /\ contact \in [Users -> {"none", "keyless", "known"}]
  /\ cached \in [Users -> BOOLEAN]
  /\ request \in [Users -> [status : {"none", "pending", "accepted", "denied"}, w : Messages]]
  /\ willing \in [Users -> BOOLEAN]
  /\ conv \in [Users -> Ids \cup {NoGroup}]
  /\ mls \in [Users -> [Ids -> {"none", "pending", "active"}]]
  /\ pend \in [Users -> Ids \cup {NoGroup}]
  /\ row \in [Ids -> {"none", "pending", "sent", "failed"}]
  /\ cmd \in [Ids -> {"idle", "started", "unknown", "direct", "mark", "done"}]
  /\ copies \in [Ids -> Nat]
  /\ init \in [Ids -> {"no", "ask", "challenge", "pow", "kp", "group", "welcome", "done", "failed"}]
  /\ waiter \in [Users -> [{"challenge", "kp"} -> Ids \cup {0}]]
  /\ name \in [Users -> {"none", "accept", "pubkey", "query"} \X Messages]
  /\ querying \in [Users -> BOOLEAN]
  /\ tasks \in [Users -> SUBSET Tasks]
  /\ net \subseteq Messages
  /\ seen \in [Users -> SUBSET (Ids \X Nat)]
  /\ faults \in Nat
  /\ edits \in Nat

\* Nobody is in a group another user made without having written first,
\* accepted the request, or added that user, whatever requests, denials and
\* contact-list changes overtake each other.
Consent ==
  \A u \in Users, g \in Ids :
    mls[u][g] = "active" /\ Author[g] # u => willing[u]

\* A conversation row leads to a group that can encrypt: its commit has been
\* applied, however restarts and second handshakes fall between the steps.
ConvUsable ==
  \A u \in Users : conv[u] # NoGroup => mls[u][conv[u]] = "active"

\* Nothing is encrypted in a group one made before the peer has joined a
\* group of one's own: the deferred commit waits for an acknowledgement.
NothingBeforeAck ==
  \A n \in net :
    n.type = "app" /\ Author[n.grp] = Author[n.msg] =>
      \E g \in Ids : Author[g] = Author[n.msg] /\ mls[n.to][g] = "active"

Busy(u) == Working(u) \/ \E n \in net : n.to = u
Quiet   == \A u \in Users : ~Busy(u)

\* When all is done without faults, no message waits for a conversation that
\* is there, unless it was made by accepting a request: accept_contact_request
\* drains nothing.
NoneStranded ==
  Quiet /\ faults = 0 /\ edits = 0 =>
    \A i \in Ids : row[i] = "pending" /\ Established(Author[i])
                     => request[Author[i]].status # "none"

\* A welcome that was sent without faults makes a conversation in the end,
\* unless the other user has not accepted it.
HandshakeConcludes ==
  \A i \in Ids :
    init[i] = "done" ~> \/ Established(Author[i])
                        \/ faults + edits > 0
                        \/ request[Peer(Author[i])].status \in {"pending", "denied"}

\* Both directions of a conversation end up in one MLS group.
SameConversation ==
  Quiet /\ Established(A) /\ Established(B) => conv[A] = conv[B]

Abstract == INSTANCE Conversation WITH
  Msgs    <- Ids,
  willing <- {u \in Users : willing[u]},
  open    <- {u \in Users : Established(u)},
  said    <- {m \in Ids : copies[m] > 0},
  heard   <- {p[1] : p \in seen[A] \cup seen[B]}

\* Whatever overtakes what: a conversation opens for a user only when both
\* agreed, one writes only in an open conversation and reads only what was
\* written.
ImplementsConversation == Abstract!CSpec
=============================================================================
