------------------------- MODULE DmHandshakeProofs -------------------------
(***************************************************************************)
(* Proofs about DmHandshake: whoever is in a group agreed to it, whoever   *)
(* has a conversation can encrypt in it, the handshake implements the      *)
(* abstract Conversation, and nothing stays in the buffer of a user with a *)
(* conversation.  The first three rest on one inductive invariant, Inv,    *)
(* which says of every message on its way and of every task what must have *)
(* happened before it came to be; the last rests on Rested, further below. *)
(***************************************************************************)
EXTENDS DmHandshake, TLAPS, WellFoundedInduction

Statuses == {"none", "pending", "accepted", "denied"}

\* A welcome is for the other user, and its sender wrote first; an
\* acknowledgement comes from a user who joined; what is encrypted is
\* encrypted in a group its author is in.
MsgOK(n) ==
  /\ n.type = "welcome" => /\ n.grp \in Ids
                           /\ n.to = Peer(Author[n.grp])
                           /\ willing[Author[n.grp]]
  /\ n.type = "ack" => /\ n.grp \in Ids
                       /\ n.to = Author[n.grp]
                       /\ mls[Peer(n.to)][n.grp] = "active"
  /\ n.type = "app" => /\ n.grp \in Ids /\ n.msg \in Ids
                       /\ n.to = Peer(Author[n.msg])
                       /\ mls[Author[n.msg]][n.grp] = "active"
                       /\ copies[n.msg] > 0

\* What a task of user u has behind it when it is at t.pc.
TaskOK(u, t) ==
  /\ MsgOK(t.m) /\ t.m.to = u
  /\ t.by = "user" => willing[u] /\ t.m.type = "welcome"
  /\ t.pc \in {"query", "join"} => /\ t.m.type = "welcome" /\ t.grp = t.m.grp
                                   /\ willing[u]
  /\ t.pc \in {"pubkey", "identified"} => t.m.type # "welcome"
  /\ t.pc \in {"map", "contact", "reply"} => t.grp \in Ids /\ mls[u][t.grp] = "active"
  /\ t.pc = "map" => t.m.type = "ack" \/ (t.m.type = "welcome" /\ t.grp = t.m.grp)
  /\ t.pc = "contact" => t.by = "user" /\ t.grp = t.m.grp
  /\ t.pc = "reply" => t.m.type = "welcome" /\ t.grp = t.m.grp
  /\ t.pc \in {"unpend", "contact", "reply", "mark", "select", "drain", "drained"}
       => Established(u)
  /\ t.pc \in {"drain", "drained"} => t.left # {} /\ \A i \in t.left : Author[i] = u

NetOK   == \A n \in net : MsgOK(n)
TasksOK == \A u \in Users : \A t \in tasks[u] : TaskOK(u, t)

\* Whose group it is, and who agreed to it.  One's own group is used after
\* the other user has joined one of one's own.
Groups ==
  \A u \in Users, g \in Ids :
    /\ mls[u][g] = "pending" => Author[g] = u /\ willing[u]
    /\ mls[u][g] = "active" => willing[u] /\ willing[Author[g]]
    /\ mls[u][g] = "active" /\ Author[g] = u =>
         \E h \in Ids : Author[h] = u /\ mls[Peer(u)][h] = "active"

\* A background task makes its group once.
Before == {"no", "ask", "challenge", "pow", "kp", "group"}
Starts == \A i \in Ids : /\ init[i] # "no" => willing[Author[i]]
                         /\ init[i] \in Before => mls[Author[i]][i] = "none"

Waiters == \A u \in Users, k \in {"challenge", "kp"} :
             waiter[u][k] # 0 => /\ Author[waiter[u][k]] = u
                                 /\ init[waiter[u][k]] = k

Contacts == \A u \in Users : contact[u] = "known" => willing[u]

Requests == \A u \in Users :
              request[u].status = "pending" =>
                /\ request[u].w.type = "welcome" /\ request[u].w.to = u
                /\ MsgOK(request[u].w)

Cmds == \A i \in Ids : /\ cmd[i] \in {"direct", "mark"} => Established(Author[i])
                       /\ cmd[i] \in {"idle", "started", "unknown"} => init[i] = "no"

Inv == /\ TypeOK
       /\ NetOK /\ TasksOK /\ Groups /\ Starts /\ Waiters /\ Contacts /\ Requests
       /\ Cmds /\ ConvUsable

\* What no step takes back.
Grows ==
  /\ \A u \in Users, g \in Ids : mls[u][g] = "active" => mls'[u][g] = "active"
  /\ \A u \in Users : willing[u] => willing'[u]
  /\ \A i \in Ids : copies[i] > 0 => copies'[i] > 0
  /\ \A u \in Users : conv[u] # NoGroup => conv'[u] # NoGroup

-----------------------------------------------------------------------------
(* Records and functions *)

LEMMA PeerType == \A u \in Users : Peer(u) \in Users /\ Peer(u) # u /\ Peer(Peer(u)) = u
  BY UsersAssumption DEF Peer, Users

LEMMA NoMsgType == NoMsg \in Messages
  BY DEF NoMsg, Messages, Users, NoGroup

LEMMA WelcomeType ==
    ASSUME NEW g \in Ids
    PROVE  /\ Welcome(g) \in Messages
           /\ Welcome(g).type = "welcome" /\ Welcome(g).grp = g
           /\ Welcome(g).to = Peer(Author[g])
  BY PeerType, AuthorAssumption DEF Welcome, NoMsg, Messages

LEMMA AckType ==
    ASSUME NEW u \in Users, NEW g \in Ids \cup {NoGroup}
    PROVE  /\ Ack(u, g) \in Messages
           /\ Ack(u, g).type = "ack" /\ Ack(u, g).grp = g /\ Ack(u, g).to = Peer(u)
  BY PeerType DEF Ack, NoMsg, Messages

LEMMA AppType ==
    ASSUME NEW m \in Ids, NEW g \in Ids \cup {NoGroup}, NEW c \in Nat
    PROVE  /\ App(m, g, c) \in Messages
           /\ App(m, g, c).type = "app" /\ App(m, g, c).grp = g
           /\ App(m, g, c).msg = m /\ App(m, g, c).to = Peer(Author[m])
  BY PeerType, AuthorAssumption DEF App, NoMsg, Messages

LEMMA AgainType ==
    ASSUME NEW n \in Messages, NEW b \in BOOLEAN
    PROVE  LET v == [n EXCEPT !.again = b]
           IN  /\ v \in Messages /\ v.type = n.type /\ v.grp = n.grp
               /\ v.to = n.to /\ v.msg = n.msg
  BY DEF Messages

LEMMA NewTask ==
    ASSUME NEW by \in {"user", "loop"}, NEW n \in Messages, NEW g \in Ids \cup {NoGroup},
           NEW where \in Places
    PROVE  LET t == Task(by, n, g, where)
           IN  /\ t \in Tasks /\ t.by = by /\ t.m = n /\ t.grp = g /\ t.pc = where
               /\ t.left = {}
  BY DEF Task, Tasks

LEMMA AtType ==
    ASSUME NEW t \in Tasks, NEW where \in Places
    PROVE  LET v == At(t, where)
           IN  /\ v \in Tasks /\ v.by = t.by /\ v.m = t.m /\ v.grp = t.grp /\ v.pc = where
               /\ v.left = t.left
  BY DEF At, Tasks

LEMMA DrainType ==
    ASSUME NEW t \in Tasks, NEW S \in SUBSET Ids
    PROVE  \A v \in Draining(t, S) :
             /\ v \in Tasks /\ v.by = t.by /\ v.m = t.m /\ v.grp = t.grp
             /\ v.pc = "drain" /\ v.left = S /\ S # {}
  BY DEF Draining, At, Tasks, Places

LEMMA MoveType ==
    ASSUME TypeOK, NEW u \in Users, NEW t, NEW T, T \subseteq Tasks, Move(u, t, T)
    PROVE  /\ tasks' \in [Users -> SUBSET Tasks]
           /\ tasks'[u] = (tasks[u] \ {t}) \cup T
           /\ \A w \in Users : w # u => tasks'[w] = tasks[w]
  BY DEF Move, TypeOK

LEMMA MlsSet ==
    ASSUME TypeOK, NEW u \in Users, NEW g \in Ids, NEW v \in {"none", "pending", "active"},
           mls' = [mls EXCEPT ![u][g] = v]
    PROVE  /\ mls' \in [Users -> [Ids -> {"none", "pending", "active"}]]
           /\ \A w \in Users, h \in Ids :
                mls'[w][h] = IF w = u /\ h = g THEN v ELSE mls[w][h]
  BY DEF TypeOK

LEMMA WaiterSet ==
    ASSUME TypeOK, NEW u \in Users, NEW k \in {"challenge", "kp"}, NEW v \in Ids \cup {0},
           waiter' = [waiter EXCEPT ![u][k] = v]
    PROVE  /\ waiter' \in [Users -> [{"challenge", "kp"} -> Ids \cup {0}]]
           /\ \A w \in Users, j \in {"challenge", "kp"} :
                waiter'[w][j] = IF w = u /\ j = k THEN v ELSE waiter[w][j]
  BY DEF TypeOK

LEMMA RequestSet ==
    ASSUME TypeOK, NEW u \in Users, NEW s \in Statuses,
           request' = [request EXCEPT ![u].status = s]
    PROVE  /\ request' \in [Users -> [status : Statuses, w : Messages]]
           /\ \A x \in Users : /\ request'[x].status = IF x = u THEN s ELSE request[x].status
                               /\ request'[x].w = request[x].w
  <1>1. request \in [Users -> [status : Statuses, w : Messages]]
    BY DEF TypeOK, Statuses
  <1>. DEFINE R == [status : Statuses, w : Messages]
              e == [request[u] EXCEPT !.status = s]
  <1>2. request[u] \in R
    BY <1>1
  <1>3. e \in R /\ e.status = s /\ e.w = request[u].w
    BY <1>2
  <1>4. request' = [request EXCEPT ![u] = e]
    OBVIOUS
  <1>. HIDE DEF R, e
  <1>5. /\ request' \in [Users -> R]
        /\ \A x \in Users : request'[x] = IF x = u THEN e ELSE request[x]
    BY <1>1, <1>3, <1>4 DEF R
  <1> QED
    BY <1>3, <1>5 DEF R

LEMMA SelectedOne == ASSUME NEW S \in SUBSET Nat, S # {} PROVE Least(S) \in S
  <1>1. PICK m \in S : \A k \in S : <<k, m>> \notin OpToRel(<, Nat)
    BY WFMin, NatLessThanWellFounded, Zenon
  <1>2. \A k \in S : ~(k < m)
    BY <1>1 DEF OpToRel
  <1>3. \E i \in S : \A j \in S : i <= j
    BY <1>2
  <1> QED
    BY <1>3 DEF Least

-----------------------------------------------------------------------------
(* What holds of a message or a task goes on to hold. *)

LEMMA MsgGrows ==
    ASSUME TypeOK, Grows, NEW n \in Messages, MsgOK(n)
    PROVE  MsgOK(n)'
  <1>1. n.type = "welcome" => Author[n.grp] \in Users
    BY AuthorAssumption DEF MsgOK
  <1>2. n.type = "ack" => Peer(n.to) \in Users
    BY PeerType DEF Messages
  <1>3. n.type = "app" => Author[n.msg] \in Users
    BY AuthorAssumption DEF MsgOK
  <1> QED
    BY <1>1, <1>2, <1>3 DEF MsgOK, Grows

LEMMA TaskGrows ==
    ASSUME TypeOK, Grows, NEW u \in Users, NEW t \in Tasks, TaskOK(u, t)
    PROVE  TaskOK(u, t)'
  <1>1. t.m \in Messages
    BY DEF Tasks
  <1>2. MsgOK(t.m)'
    BY <1>1, MsgGrows DEF TaskOK
  <1> QED
    BY <1>2 DEF TaskOK, Grows, Established

\* A step keeps the invariant if what it changes keeps it.
LEMMA Assemble ==
    ASSUME Inv, TypeOK', Grows,
           \A n \in net' : n \in net \/ MsgOK(n)',
           \A u \in Users : \A t \in tasks'[u] : t \in tasks[u] \/ TaskOK(u, t)',
           Groups' \/ UNCHANGED mls,
           Starts' \/ UNCHANGED <<mls, init>>,
           Waiters' \/ UNCHANGED <<waiter, init>>,
           Contacts' \/ UNCHANGED contact,
           Requests' \/ UNCHANGED request,
           Cmds' \/ UNCHANGED <<cmd, init>>,
           ConvUsable' \/ UNCHANGED conv
    PROVE  Inv'
  <1>1. NetOK'
    BY MsgGrows DEF NetOK, Inv, TypeOK
  <1>2. TasksOK'
    BY TaskGrows DEF TasksOK, Inv, TypeOK
  <1>3. Groups'
    <2> SUFFICES ASSUME UNCHANGED mls PROVE Groups'
      OBVIOUS
    <2> QED
      BY AuthorAssumption DEF Groups, Inv, Grows
  <1>4. Starts'
    <2> SUFFICES ASSUME UNCHANGED <<mls, init>> PROVE Starts'
      OBVIOUS
    <2> QED
      BY AuthorAssumption DEF Starts, Inv, Grows
  <1>5. Waiters'
    BY DEF Waiters, Inv
  <1>6. Contacts'
    BY DEF Contacts, Inv, Grows
  <1>7. Requests'
    <2> SUFFICES ASSUME UNCHANGED request PROVE Requests'
      OBVIOUS
    <2>1. \A u \in Users : request[u].w \in Messages
      BY DEF Inv, TypeOK
    <2> QED
      BY <2>1, MsgGrows DEF Requests, Inv
  <1>8. Cmds'
    BY AuthorAssumption DEF Cmds, Inv, Grows, Established
  <1>9. ConvUsable'
    <2> SUFFICES ASSUME UNCHANGED conv PROVE ConvUsable'
      OBVIOUS
    <2> QED
      BY DEF ConvUsable, Inv, Grows, TypeOK
  <1> QED
    BY <1>1, <1>2, <1>3, <1>4, <1>5, <1>6, <1>7, <1>8, <1>9 DEF Inv

-----------------------------------------------------------------------------
(* Commands *)

LEMMA CommandKeeps ==
    ASSUME Inv, NEW i \in Ids,
           SendMessage(i) \/ InitiateConversation(i) \/ CheckConversation(i) \/ DirectMark(i)
    PROVE  Inv'
  <1>1. TypeOK'
    BY IdsAssumption, AuthorAssumption
    DEF Inv, TypeOK, SendMessage, InitiateConversation, CheckConversation, DirectMark,
        NextCommand, people, groups, outbox, starts, waits
  <1>2. Grows
    BY DEF Grows, SendMessage, InitiateConversation, CheckConversation, DirectMark,
           people, groups, outbox
  <1>3. UNCHANGED <<contact, request, groups, starts, tasks, net>>
    BY DEF SendMessage, InitiateConversation, CheckConversation, DirectMark,
           people, groups, starts
  <1>4. Cmds'
    BY DEF Inv, Cmds, TypeOK, Established, SendMessage, InitiateConversation,
           CheckConversation, DirectMark, NextCommand, groups, starts
  <1> QED
    BY <1>1, <1>2, <1>3, <1>4, Assemble DEF groups, starts

LEMMA CheckHandshakeKeeps ==
    ASSUME Inv, NEW i \in Ids, CheckHandshake(i)
    PROVE  Inv'
  <1>. DEFINE u == Author[i]
  <1>1. u \in Users
    BY AuthorAssumption
  <1>2. /\ cmd[i] = "unknown" /\ init[i] = "no"
        /\ cmd' = [cmd EXCEPT ![i] = "done"]
        /\ UNCHANGED <<contact, request, groups, row, copies, waiter, tasks, net, cached,
                       waits, seen, faults, edits>>
        /\ \/ UNCHANGED <<willing, init>>
           \/ /\ init' = [init EXCEPT ![i] = "ask"]
              /\ willing' = [willing EXCEPT ![u] = TRUE]
    BY DEF CheckHandshake, Inv, Cmds
  <1>3. TypeOK'
    BY <1>1, <1>2 DEF Inv, TypeOK, groups, waits
  <1>4. Grows
    BY <1>1, <1>2 DEF Grows, Inv, TypeOK, groups
  <1>5. Starts'
    <2>1. init[i] \in Before => mls[u][i] = "none"
      BY DEF Inv, Starts
    <2>2. CASE UNCHANGED <<willing, init>>
      BY <1>2, <2>2 DEF Inv, Starts, groups
    <2>3. CASE /\ init' = [init EXCEPT ![i] = "ask"]
               /\ willing' = [willing EXCEPT ![u] = TRUE]
      BY <1>1, <1>2, <2>1, <2>3, AuthorAssumption DEF Inv, TypeOK, Starts, Before, groups
    <2> QED
      BY <1>2, <2>2, <2>3
  <1>6. Cmds'
    BY <1>2 DEF Inv, TypeOK, Cmds, Established, groups
  <1>7. Waiters'
    BY <1>2 DEF Inv, TypeOK, Waiters
  <1> QED
    BY <1>2, <1>3, <1>4, <1>5, <1>6, <1>7, Assemble DEF groups

\* Sealing needs the peer's key; what is sealed is of the conversation.
LEMMA SealedType ==
    ASSUME Inv, NEW i \in Ids, Established(Author[i])
    PROVE  /\ Sealed(i) \in Messages
           /\ Sealed(i).type = "app" /\ Sealed(i).grp = conv[Author[i]]
           /\ Sealed(i).grp \in Ids /\ Sealed(i).msg = i
           /\ Sealed(i).to = Peer(Author[i])
  <1>1. Author[i] \in Users /\ conv[Author[i]] \in Ids /\ copies[i] + 1 \in Nat
    BY AuthorAssumption DEF Inv, TypeOK, Established
  <1> QED
    BY <1>1, AppType DEF Sealed

LEMMA SealedOK ==
    ASSUME Inv, NEW i \in Ids, Established(Author[i]), Grows, copies'[i] > 0,
           NEW n, n = Sealed(i)
    PROVE  MsgOK(n)'
  <1>1. /\ n.type = "app" /\ n.grp \in Ids /\ n.grp = conv[Author[i]] /\ n.msg = i
        /\ n.to = Peer(Author[i]) /\ Author[i] \in Users
    BY SealedType, AuthorAssumption
  <1>2. mls'[Author[i]][n.grp] = "active"
    BY <1>1 DEF Inv, ConvUsable, Established, Grows
  <1> QED
    BY <1>1, <1>2 DEF MsgOK

LEMMA EncryptType ==
    ASSUME Inv, NEW i \in Ids, Encrypt(i)
    PROVE  /\ copies' \in [Ids -> Nat]
           /\ copies'[i] > 0
           /\ \A j \in Ids : copies[j] > 0 => copies'[j] > 0
  BY DEF Inv, TypeOK, Encrypt

LEMMA DirectSendKeeps ==
    ASSUME Inv, NEW i \in Ids, DirectSend(i)
    PROVE  Inv'
  <1>1. /\ cmd[i] = "direct" /\ Established(Author[i])
        /\ Encrypt(i)
        /\ UNCHANGED <<contact, cached, request, willing, groups, starts, waits, tasks,
                       seen, edits>>
        /\ faults' \in Nat
        /\ net' = net \cup {Sealed(i)} \/ UNCHANGED net
        /\ row' \in [Ids -> {"none", "pending", "sent", "failed"}]
        /\ cmd' = [cmd EXCEPT ![i] = "mark"] \/ cmd' = [cmd EXCEPT ![i] = "done"]
    <2>1. /\ cmd[i] = "direct" /\ Established(Author[i]) /\ Encrypt(i)
          /\ UNCHANGED <<contact, cached, request, willing, groups, starts, waits, tasks,
                         seen, edits>>
          /\ cmd' = [cmd EXCEPT ![i] = "mark"] \/ cmd' = [cmd EXCEPT ![i] = "done"]
          /\ UNCHANGED row \/ row' = [row EXCEPT ![i] = "failed"]
          /\ net' = net \cup {Sealed(i)} \/ UNCHANGED net
          /\ faults' = faults + 1 \/ faults' = faults
      BY DEF DirectSend, SealAndSend, SealFails, Fault, NoFault, people, Inv, Cmds
    <2>2. faults' \in Nat
      BY <2>1 DEF Inv, TypeOK
    <2>3. row' \in [Ids -> {"none", "pending", "sent", "failed"}]
      BY <2>1 DEF Inv, TypeOK
    <2> QED
      BY <2>1, <2>2, <2>3
  <1>2. Grows
    BY <1>1, EncryptType DEF Grows, groups
  <1>3. Sealed(i) \in Messages
    BY <1>1, SealedType
  <1>4. TypeOK'
    BY <1>1, <1>3, EncryptType DEF Inv, TypeOK, groups, starts, waits
  <1>5. \A n : n = Sealed(i) => MsgOK(n)'
    BY <1>1, <1>2, EncryptType, SealedOK
  <1>6. \A n \in net' : n \in net \/ MsgOK(n)'
    BY <1>1, <1>5
  <1>7. Cmds'
    BY <1>1 DEF Inv, TypeOK, Cmds, Established, groups, starts
  <1> QED
    BY <1>1, <1>2, <1>4, <1>6, <1>7, Assemble DEF groups, starts

-----------------------------------------------------------------------------
(* Background tasks *)

LEMMA AskKeeps ==
    ASSUME Inv, NEW i \in Ids, AskChallenge(i) \/ AskKeyPackage(i)
    PROVE  Inv'
  <1>. DEFINE u == Author[i]
  <1>1. PICK k \in {"challenge", "kp"} :
          /\ init[i] \in {"ask", "pow"}
          /\ waiter' = [waiter EXCEPT ![u][k] = i]
          /\ init' = [init EXCEPT ![i] = k]
          /\ UNCHANGED <<people, groups, outbox, waits, tasks, net, seen, faults, edits>>
    BY DEF AskChallenge, AskKeyPackage, AskFor, Key
  <1>2. u \in Users
    BY AuthorAssumption
  <1>3. /\ waiter' \in [Users -> [{"challenge", "kp"} -> Ids \cup {0}]]
        /\ \A w \in Users, j \in {"challenge", "kp"} :
             waiter'[w][j] = IF w = u /\ j = k THEN i ELSE waiter[w][j]
    BY <1>1, <1>2, WaiterSet DEF Inv
  <1>4. TypeOK'
    BY <1>1, <1>3 DEF Inv, TypeOK, people, groups, outbox, waits
  <1>5. Grows
    BY <1>1 DEF Grows, people, groups, outbox
  <1>6. Starts'
    BY <1>1 DEF Inv, TypeOK, Starts, Before, people, groups
  <1>7. Waiters'
    BY <1>1, <1>3 DEF Inv, TypeOK, Waiters
  <1>8. Cmds'
    BY <1>1 DEF Inv, TypeOK, Cmds, Established, outbox, groups
  <1> QED
    BY <1>1, <1>4, <1>5, <1>6, <1>7, <1>8, Assemble DEF people, groups

\* An answer, or the end of the wait: one waiter is taken out.
LEMMA ResolveType ==
    ASSUME Inv, NEW u \in Users, NEW k \in {"challenge", "kp"}, Resolve(u, k)
    PROVE  /\ waiter' \in [Users -> [{"challenge", "kp"} -> Ids \cup {0}]]
           /\ \A w \in Users, j \in {"challenge", "kp"} :
                waiter'[w][j] = IF w = u /\ j = k THEN 0 ELSE waiter[w][j]
  BY WaiterSet DEF Resolve, Inv

LEMMA AnswerKeeps ==
    ASSUME Inv, NEW u \in Users, ChallengeArrives(u) \/ KeyPackageArrives(u)
    PROVE  Inv'
  <1>1. PICK k \in {"challenge", "kp"} :
          /\ waiter[u][k] # 0
          /\ Resolve(u, k)
          /\ init' = [init EXCEPT ![waiter[u][k]] = IF k = "kp" THEN "group" ELSE "pow"]
          /\ \/ UNCHANGED contact
             \/ k = "kp" /\ contact' = [contact EXCEPT ![u] = "known"]
          /\ UNCHANGED <<cached, request, willing, groups, outbox, waits, tasks, net, seen,
                         faults, edits>>
    BY DEF ChallengeArrives, KeyPackageArrives, BundleVerified, people
  <1>. DEFINE i == waiter[u][k]
  <1>2. i \in Ids /\ Author[i] = u /\ init[i] = k /\ willing[u] /\ mls[u][i] = "none"
    BY <1>1 DEF Inv, TypeOK, Waiters, Starts, Before
  <1>. HIDE DEF i
  <1>3. init' = [init EXCEPT ![i] = IF k = "kp" THEN "group" ELSE "pow"]
    BY <1>1 DEF i
  <1>4. TypeOK'
    <2>1. waiter' \in [Users -> [{"challenge", "kp"} -> Ids \cup {0}]]
      BY <1>1, ResolveType
    <2> QED
      BY <1>1, <1>2, <1>3, <2>1 DEF Inv, TypeOK, groups, outbox, waits
  <1>5. Grows
    BY <1>1 DEF Grows, groups, outbox
  <1>6. Starts'
    BY <1>1, <1>2, <1>3 DEF Inv, TypeOK, Starts, Before, groups
  <1>7. Waiters'
    <2> SUFFICES ASSUME NEW w \in Users, NEW j \in {"challenge", "kp"}, waiter'[w][j] # 0
                 PROVE  /\ Author[waiter'[w][j]] = w
                        /\ init'[waiter'[w][j]] = j
      BY DEF Waiters
    <2>1. waiter'[w][j] = waiter[w][j] /\ ~(w = u /\ j = k)
      BY <1>1, ResolveType
    <2>2. Author[waiter[w][j]] = w /\ init[waiter[w][j]] = j /\ waiter[w][j] \in Ids
      BY <2>1 DEF Inv, TypeOK, Waiters
    <2>3. waiter[w][j] # i
      BY <1>2, <2>1, <2>2
    <2> QED
      BY <1>3, <2>1, <2>2, <2>3 DEF Inv, TypeOK
  <1>8. Contacts'
    BY <1>1, <1>2 DEF Inv, TypeOK, Contacts
  <1>9. Cmds'
    BY <1>1, <1>2, <1>3 DEF Inv, TypeOK, Cmds, Established, outbox, groups
  <1> QED
    BY <1>1, <1>4, <1>5, <1>6, <1>7, <1>8, <1>9, Assemble DEF groups

LEMMA AbandonKeeps ==
    ASSUME Inv, NEW i \in Ids, Abandon(i)
    PROVE  Inv'
  <1>. DEFINE u == Author[i]
              k == init[i]
  <1>1. /\ u \in Users /\ k \in {"challenge", "kp"}
        /\ Resolve(u, k)
        /\ init' = [init EXCEPT ![i] = "failed"]
        /\ UNCHANGED <<people, groups, outbox, waits, tasks, net, seen, faults, edits>>
    BY AuthorAssumption DEF Abandon, Key
  <1>2. /\ waiter' \in [Users -> [{"challenge", "kp"} -> Ids \cup {0}]]
        /\ \A w \in Users, j \in {"challenge", "kp"} :
             waiter'[w][j] = IF w = u /\ j = k THEN 0 ELSE waiter[w][j]
    BY <1>1, ResolveType
  <1>4. TypeOK'
    BY <1>1, <1>2 DEF Inv, TypeOK, people, groups, outbox, waits
  <1>5. Grows
    BY <1>1 DEF Grows, people, groups, outbox
  <1>6. Starts'
    BY <1>1 DEF Inv, TypeOK, Starts, Before, people, groups
  <1>7. Waiters'
    <2> SUFFICES ASSUME NEW w \in Users, NEW j \in {"challenge", "kp"}, waiter'[w][j] # 0
                 PROVE  /\ Author[waiter'[w][j]] = w
                        /\ init'[waiter'[w][j]] = j
      BY DEF Waiters
    <2>1. waiter'[w][j] = waiter[w][j] /\ ~(w = u /\ j = k)
      BY <1>2
    <2>2. Author[waiter[w][j]] = w /\ init[waiter[w][j]] = j /\ waiter[w][j] \in Ids
      BY <2>1 DEF Inv, TypeOK, Waiters
    <2> QED
      BY <1>1, <2>1, <2>2 DEF Inv, TypeOK
  <1>8. Cmds'
    BY <1>1 DEF Inv, TypeOK, Cmds, Established, outbox, groups
  <1> QED
    BY <1>1, <1>4, <1>5, <1>6, <1>7, <1>8, Assemble DEF people, groups

LEMMA CompleteHandshakeKeeps ==
    ASSUME Inv, NEW i \in Ids, CompleteHandshake(i)
    PROVE  Inv'
  <1>. DEFINE u == Author[i]
  <1>1. /\ init[i] = "group"
        /\ mls' = [mls EXCEPT ![u][i] = "pending"]
        /\ pend' = [pend EXCEPT ![u] = i]
        /\ init' = [init EXCEPT ![i] = "welcome"]
        /\ UNCHANGED <<people, conv, outbox, waiter, waits, tasks, net, seen, faults, edits>>
    BY DEF CompleteHandshake, StartConversation, StorePendingHandshake
  <1>2. u \in Users /\ willing[u] /\ mls[u][i] = "none"
    BY <1>1, AuthorAssumption DEF Inv, Starts, Before
  <1>3. /\ mls' \in [Users -> [Ids -> {"none", "pending", "active"}]]
        /\ \A w \in Users, h \in Ids :
             mls'[w][h] = IF w = u /\ h = i THEN "pending" ELSE mls[w][h]
    <2>1. TypeOK /\ mls' = [mls EXCEPT ![u][i] = "pending"]
      BY <1>1 DEF Inv
    <2>. HIDE DEF u
    <2> QED
      BY <1>2, <2>1 DEF TypeOK
  <1>4. TypeOK'
    BY <1>1, <1>2, <1>3 DEF Inv, TypeOK, people, outbox, waits
  <1>5. Grows
    BY <1>1, <1>2, <1>3 DEF Grows, people, outbox
  <1>6. Groups'
    <2> SUFFICES ASSUME NEW w \in Users, NEW g \in Ids
                 PROVE  /\ mls'[w][g] = "pending" => Author[g] = w /\ willing'[w]
                        /\ mls'[w][g] = "active" => willing'[w] /\ willing'[Author[g]]
                        /\ mls'[w][g] = "active" /\ Author[g] = w =>
                             \E h \in Ids : Author[h] = w /\ mls'[Peer(w)][h] = "active"
      BY DEF Groups
    <2>1. UNCHANGED willing
      BY <1>1 DEF people
    <2>2. CASE w = u /\ g = i
      BY <1>2, <1>3, <2>1, <2>2
    <2>3. CASE ~(w = u /\ g = i)
      <3>1. mls'[w][g] = mls[w][g]
        BY <1>3, <2>3
      <3> QED
        BY <1>5, <2>1, <3>1, PeerType DEF Inv, Groups, Grows
    <2> QED
      BY <2>2, <2>3
  <1>7. Starts'
    BY <1>1, <1>2, <1>3, AuthorAssumption DEF Inv, TypeOK, Starts, Before, people
  <1>8. Waiters'
    <2>1. \A w \in Users, k \in {"challenge", "kp"} : waiter[w][k] # i
      BY <1>1, IdsAssumption DEF Inv, Waiters, NoGroup
    <2> QED
      BY <1>1, <2>1 DEF Inv, TypeOK, Waiters
  <1>9. Cmds'
    BY <1>1 DEF Inv, TypeOK, Cmds, Established, outbox
  <1> QED
    BY <1>1, <1>4, <1>5, <1>6, <1>7, <1>8, <1>9, Assemble DEF people

LEMMA SendWelcomeKeeps ==
    ASSUME Inv, NEW i \in Ids, SendWelcome(i)
    PROVE  Inv'
  <1>1. /\ init[i] = "welcome"
        /\ init' = [init EXCEPT ![i] = "done"] \/ init' = [init EXCEPT ![i] = "failed"]
        /\ net' = net \cup {Welcome(i)} \/ UNCHANGED net
        /\ faults' = faults + 1 \/ faults' = faults
        /\ UNCHANGED <<people, groups, outbox, waiter, waits, tasks, seen, edits>>
    BY DEF SendWelcome, SealAndSend, SealFails, Fault, NoFault
  <1>2. /\ Welcome(i) \in Messages
        /\ Welcome(i).type = "welcome" /\ Welcome(i).grp = i
        /\ Welcome(i).to = Peer(Author[i])
    BY WelcomeType
  <1>3. faults' \in Nat
    BY <1>1 DEF Inv, TypeOK
  <1>4. TypeOK'
    BY <1>1, <1>2, <1>3 DEF Inv, TypeOK, people, groups, outbox, waits
  <1>5. Grows
    BY <1>1 DEF Grows, people, groups, outbox
  <1>6. willing'[Author[i]]
    BY <1>1 DEF Inv, Starts, people
  <1>7. \A n : n = Welcome(i) => MsgOK(n)'
    BY <1>2, <1>6 DEF MsgOK
  <1>8. \A n \in net' : n \in net \/ MsgOK(n)'
    BY <1>1, <1>7
  <1>9. Starts'
    BY <1>1 DEF Inv, TypeOK, Starts, Before, people, groups
  <1>10. Waiters'
    <2>1. \A w \in Users, k \in {"challenge", "kp"} : waiter[w][k] # i
      BY <1>1, IdsAssumption DEF Inv, Waiters, NoGroup
    <2> QED
      BY <1>1, <2>1 DEF Inv, TypeOK, Waiters
  <1>11. Cmds'
    BY <1>1 DEF Inv, TypeOK, Cmds, Established, outbox, groups
  <1> QED
    BY <1>1, <1>4, <1>5, <1>8, <1>9, <1>10, <1>11, Assemble DEF people, groups

-----------------------------------------------------------------------------
(* Handlers and accept commands *)

LEMMA TaskFacts ==
    ASSUME Inv, NEW u \in Users, NEW t \in tasks[u]
    PROVE  t \in Tasks /\ t.m \in Messages /\ TaskOK(u, t) /\ MsgOK(t.m)
  <1>1. t \in Tasks /\ TaskOK(u, t)
    BY DEF Inv, TypeOK, TasksOK
  <1> QED
    BY <1>1 DEF Tasks, TaskOK

LEMMA TaskMoved ==
    ASSUME Inv, NEW u \in Users, NEW t, NEW T, T \subseteq Tasks, Move(u, t, T),
           \A v \in T : TaskOK(u, v)'
    PROVE  /\ tasks' \in [Users -> SUBSET Tasks]
           /\ \A w \in Users : \A x \in tasks'[w] : x \in tasks[w] \/ TaskOK(w, x)'
  <1>1. TypeOK
    BY DEF Inv
  <1>2. /\ tasks' \in [Users -> SUBSET Tasks]
        /\ tasks'[u] = (tasks[u] \ {t}) \cup T
        /\ \A w \in Users : w # u => tasks'[w] = tasks[w]
    BY <1>1, MoveType
  <1> QED
    BY <1>2

LEMMA JoinKeeps ==
    ASSUME Inv, NEW u \in Users, NEW t \in tasks[u], Join(u, t)
    PROVE  Inv'
  <1>. DEFINE g == t.grp
  <1>1. /\ t \in Tasks /\ TaskOK(u, t) /\ t.m \in Messages /\ t.pc = "join"
        /\ UNCHANGED <<people, conv, pend, outbox, starts, waits, net, seen, faults, edits>>
    BY TaskFacts DEF Join
  <1>2. /\ g \in Ids /\ t.m.type = "welcome" /\ g = t.m.grp
        /\ willing[u] /\ willing[Author[g]] /\ u = Peer(Author[g]) /\ Author[g] # u
    BY <1>1, PeerType, AuthorAssumption DEF TaskOK, MsgOK
  <1>3. CASE mls[u][g] = "none"
    <2>1. /\ mls' = [mls EXCEPT ![u][g] = "active"]
          /\ Move(u, t, {At(t, "map")})
      BY <1>3 DEF Join
    <2>2. /\ mls' \in [Users -> [Ids -> {"none", "pending", "active"}]]
          /\ \A w \in Users, h \in Ids :
               mls'[w][h] = IF w = u /\ h = g THEN "active" ELSE mls[w][h]
      <3>1. TypeOK /\ g \in Ids
        BY <1>2 DEF Inv
      <3>. HIDE DEF g
      <3> QED
        BY <2>1, <3>1 DEF TypeOK
    <2>3. Grows
      BY <1>1, <2>2 DEF Grows, people, outbox
    <2>4. TaskOK(u, At(t, "map"))'
      <3>1. /\ At(t, "map").m = t.m /\ At(t, "map").grp = g /\ At(t, "map").pc = "map"
            /\ At(t, "map").by = t.by
        BY <1>1, AtType DEF Places
      <3>2. TaskOK(u, t)'
        BY <1>1, <2>3, TaskGrows DEF Inv
      <3> QED
        BY <1>2, <2>2, <3>1, <3>2 DEF TaskOK
    <2>5. At(t, "map") \in Tasks
      BY <1>1, AtType DEF Places
    <2>6. /\ tasks' \in [Users -> SUBSET Tasks]
          /\ \A w \in Users : \A x \in tasks'[w] : x \in tasks[w] \/ TaskOK(w, x)'
      BY <2>1, <2>4, <2>5, TaskMoved
    <2>7. TypeOK'
      BY <1>1, <2>2, <2>6 DEF Inv, TypeOK, people, outbox, starts, waits
    <2>8. Groups'
      <3> SUFFICES ASSUME NEW w \in Users, NEW h \in Ids
                   PROVE  /\ mls'[w][h] = "pending" => Author[h] = w /\ willing'[w]
                          /\ mls'[w][h] = "active" => willing'[w] /\ willing'[Author[h]]
                          /\ mls'[w][h] = "active" /\ Author[h] = w =>
                               \E k \in Ids : Author[k] = w /\ mls'[Peer(w)][k] = "active"
        BY DEF Groups
      <3>1. UNCHANGED willing
        BY <1>1 DEF people
      <3>2. CASE w = u /\ h = g
        BY <1>2, <2>2, <3>1, <3>2
      <3>3. CASE ~(w = u /\ h = g)
        <4>1. mls'[w][h] = mls[w][h]
          BY <2>2, <3>3
        <4> QED
          BY <2>3, <3>1, <4>1, PeerType DEF Inv, Groups, Grows
      <3> QED
        BY <3>2, <3>3
    <2>9. Starts'
      BY <1>1, <1>2, <2>2, AuthorAssumption DEF Inv, Starts, people, starts
    <2> QED
      BY <1>1, <2>3, <2>6, <2>7, <2>8, <2>9, Assemble DEF people, outbox, starts
  <1>4. CASE mls[u][g] # "none"
    <2>1. Move(u, t, {}) /\ UNCHANGED mls
      BY <1>4 DEF Join
    <2>2. /\ tasks' \in [Users -> SUBSET Tasks]
          /\ \A w \in Users : \A x \in tasks'[w] : x \in tasks[w] \/ TaskOK(w, x)'
      BY <2>1, TaskMoved
    <2>3. Grows
      BY <1>1, <2>1 DEF Grows, people, outbox
    <2>4. TypeOK'
      BY <1>1, <2>1, <2>2 DEF Inv, TypeOK, people, outbox, starts, waits
    <2> QED
      BY <1>1, <2>1, <2>2, <2>3, <2>4, Assemble DEF people, outbox, starts
  <1> QED
    BY <1>3, <1>4

LEMMA MapGroupKeeps ==
    ASSUME Inv, NEW u \in Users, NEW t \in tasks[u], MapGroup(u, t)
    PROVE  Inv'
  <1>. DEFINE v == At(t, AfterMap(t))
  <1>1. /\ t \in Tasks /\ TaskOK(u, t) /\ t.m \in Messages /\ t.pc = "map"
        /\ conv' = [conv EXCEPT ![u] = t.grp]
        /\ Move(u, t, {v})
        /\ UNCHANGED <<people, mls, pend, outbox, starts, waits, net, seen, faults, edits>>
    BY TaskFacts DEF MapGroup
  <1>2. t.grp \in Ids /\ mls[u][t.grp] = "active" /\ t.grp # NoGroup
    BY <1>1, IdsAssumption DEF TaskOK
  <1>3. conv' \in [Users -> Ids \cup {NoGroup}] /\ conv'[u] # NoGroup
    BY <1>1, <1>2 DEF Inv, TypeOK
  <1>4. Grows
    BY <1>1, <1>2 DEF Grows, people, outbox, Inv, TypeOK
  <1>5. /\ AfterMap(t) \in {"unpend", "contact", "reply"}
        /\ AfterMap(t) = "contact" => t.by = "user"
        /\ AfterMap(t) # "unpend" => t.m.type # "ack"
    BY DEF AfterMap
  <1>6. v \in Tasks /\ v.by = t.by /\ v.m = t.m /\ v.grp = t.grp /\ v.pc = AfterMap(t)
    BY <1>1, <1>5, AtType DEF Places
  <1>. HIDE DEF v
  <1>7. TaskOK(u, t)'
    BY <1>1, <1>4, TaskGrows DEF Inv
  <1>8. TaskOK(u, v)'
    BY <1>1, <1>2, <1>3, <1>5, <1>6, <1>7 DEF TaskOK, Established
  <1>9. /\ tasks' \in [Users -> SUBSET Tasks]
        /\ \A w \in Users : \A x \in tasks'[w] : x \in tasks[w] \/ TaskOK(w, x)'
    BY <1>1, <1>6, <1>8, TaskMoved
  <1>10. TypeOK'
    BY <1>1, <1>3, <1>9 DEF Inv, TypeOK, people, outbox, starts, waits
  <1>11. ConvUsable'
    BY <1>1, <1>2 DEF Inv, TypeOK, ConvUsable
  <1> QED
    BY <1>1, <1>4, <1>9, <1>10, <1>11, Assemble DEF people, outbox, starts

LEMMA UnpendKeeps ==
    ASSUME Inv, NEW u \in Users, NEW t \in tasks[u], Unpend(u, t)
    PROVE  Inv'
  <1>. DEFINE v == At(t, "select")
  <1>1. /\ t \in Tasks /\ TaskOK(u, t) /\ t.m \in Messages /\ t.pc = "unpend"
        /\ pend' = [pend EXCEPT ![u] = NoGroup]
        /\ Move(u, t, {v})
        /\ UNCHANGED <<people, conv, mls, outbox, starts, waits, net, seen, faults, edits>>
    BY TaskFacts DEF Unpend
  <1>2. Grows
    BY <1>1 DEF Grows, people, outbox
  <1>3. v \in Tasks /\ v.by = t.by /\ v.m = t.m /\ v.grp = t.grp /\ v.pc = "select"
    BY <1>1, AtType DEF Places
  <1>. HIDE DEF v
  <1>4. TaskOK(u, t)'
    BY <1>1, <1>2, TaskGrows DEF Inv
  <1>5. TaskOK(u, v)'
    BY <1>1, <1>3, <1>4 DEF TaskOK
  <1>6. /\ tasks' \in [Users -> SUBSET Tasks]
        /\ \A w \in Users : \A x \in tasks'[w] : x \in tasks[w] \/ TaskOK(w, x)'
    BY <1>1, <1>3, <1>5, TaskMoved
  <1>7. TypeOK'
    BY <1>1, <1>6 DEF Inv, TypeOK, people, outbox, starts, waits
  <1> QED
    BY <1>1, <1>2, <1>6, <1>7, Assemble DEF people, outbox, starts

LEMMA SaveContactKeeps ==
    ASSUME Inv, NEW u \in Users, NEW t \in tasks[u], SaveContact(u, t)
    PROVE  Inv'
  <1>. DEFINE v == At(t, "reply")
  <1>1. /\ t \in Tasks /\ TaskOK(u, t) /\ t.m \in Messages /\ t.pc = "contact"
        /\ contact' = [contact EXCEPT ![u] = "known"]
        /\ Move(u, t, {v})
        /\ UNCHANGED <<cached, request, willing, groups, outbox, starts, waits, net, seen,
                       faults, edits>>
    BY TaskFacts DEF SaveContact
  <1>2. Grows
    BY <1>1 DEF Grows, groups, outbox
  <1>3. v \in Tasks /\ v.by = t.by /\ v.m = t.m /\ v.grp = t.grp /\ v.pc = "reply"
    BY <1>1, AtType DEF Places
  <1>. HIDE DEF v
  <1>4. TaskOK(u, t)'
    BY <1>1, <1>2, TaskGrows DEF Inv
  <1>5. TaskOK(u, v)'
    BY <1>1, <1>3, <1>4 DEF TaskOK
  <1>6. /\ tasks' \in [Users -> SUBSET Tasks]
        /\ \A w \in Users : \A x \in tasks'[w] : x \in tasks[w] \/ TaskOK(w, x)'
    BY <1>1, <1>3, <1>5, TaskMoved
  <1>7. TypeOK'
    BY <1>1, <1>6 DEF Inv, TypeOK, groups, outbox, starts, waits
  <1>8. Contacts'
    BY <1>1 DEF Inv, TypeOK, Contacts, TaskOK
  <1> QED
    BY <1>1, <1>2, <1>6, <1>7, <1>8, Assemble DEF groups, outbox, starts

LEMMA SendWelcomeAckKeeps ==
    ASSUME Inv, NEW u \in Users, NEW t \in tasks[u], SendWelcomeAck(u, t)
    PROVE  Inv'
  <1>. DEFINE where == IF t.by = "user" THEN "mark" ELSE "select"
              v == At(t, where)
  <1>1. /\ t \in Tasks /\ TaskOK(u, t) /\ t.m \in Messages /\ t.pc = "reply"
        /\ Move(u, t, {v}) \/ Move(u, t, {})
        /\ net' = net \cup {Ack(u, t.grp)} \/ UNCHANGED net
        /\ faults' = faults + 1 \/ faults' = faults
        /\ UNCHANGED <<people, groups, outbox, starts, waits, seen, edits>>
    BY TaskFacts DEF SendWelcomeAck, SealAndSend, SealFails, Fault, NoFault
  <1>2. Grows
    BY <1>1 DEF Grows, people, groups, outbox
  <1>3. v \in Tasks /\ v.by = t.by /\ v.m = t.m /\ v.grp = t.grp /\ v.pc = where
    BY <1>1, AtType DEF Places
  <1>. HIDE DEF v
  <1>4. TaskOK(u, t)'
    BY <1>1, <1>2, TaskGrows DEF Inv
  <1>5. TaskOK(u, v)'
    BY <1>1, <1>3, <1>4 DEF TaskOK
  <1>6. /\ tasks' \in [Users -> SUBSET Tasks]
        /\ \A w \in Users : \A x \in tasks'[w] : x \in tasks[w] \/ TaskOK(w, x)'
    BY <1>1, <1>3, <1>5, TaskMoved
  <1>7. /\ t.grp \in Ids /\ u = Peer(Author[t.grp]) /\ Author[t.grp] \in Users
        /\ mls'[u][t.grp] = "active"
    BY <1>1, <1>4, AuthorAssumption DEF TaskOK, MsgOK
  <1>8. /\ Ack(u, t.grp) \in Messages /\ Ack(u, t.grp).type = "ack"
        /\ Ack(u, t.grp).grp = t.grp /\ Ack(u, t.grp).to = Author[t.grp]
        /\ Peer(Ack(u, t.grp).to) = u
    BY <1>7, AckType, PeerType
  <1>9. \A n : n = Ack(u, t.grp) => MsgOK(n)'
    BY <1>7, <1>8 DEF MsgOK
  <1>10. faults' \in Nat
    BY <1>1 DEF Inv, TypeOK
  <1>11. TypeOK'
    BY <1>1, <1>6, <1>8, <1>10 DEF Inv, TypeOK, people, groups, outbox, starts, waits
  <1>12. \A n \in net' : n \in net \/ MsgOK(n)'
    BY <1>1, <1>9
  <1> QED
    BY <1>1, <1>2, <1>6, <1>11, <1>12, Assemble DEF people, groups, outbox, starts

LEMMA MarkAcceptedKeeps ==
    ASSUME Inv, NEW u \in Users, NEW t \in tasks[u], MarkAccepted(u, t)
    PROVE  Inv'
  <1>1. /\ request' = [request EXCEPT ![u].status = "accepted"]
        /\ Move(u, t, {})
        /\ UNCHANGED <<contact, cached, willing, groups, outbox, starts, waits, net, seen,
                       faults, edits>>
    BY DEF MarkAccepted
  <1>2. /\ request' \in [Users -> [status : Statuses, w : Messages]]
        /\ \A x \in Users : /\ request'[x].status = IF x = u THEN "accepted"
                                                    ELSE request[x].status
                            /\ request'[x].w = request[x].w
    <2>1. TypeOK /\ "accepted" \in Statuses
      BY DEF Inv, Statuses
    <2> QED
      BY <1>1, <2>1, RequestSet
  <1>3. Grows
    BY <1>1 DEF Grows, groups, outbox
  <1>4. /\ tasks' \in [Users -> SUBSET Tasks]
        /\ \A w \in Users : \A x \in tasks'[w] : x \in tasks[w] \/ TaskOK(w, x)'
    BY <1>1, TaskMoved
  <1>5. TypeOK'
    BY <1>1, <1>2, <1>4 DEF Inv, TypeOK, Statuses, groups, outbox, starts, waits
  <1>6. Requests'
    <2>1. \A x \in Users : request[x].w \in Messages
      BY DEF Inv, TypeOK
    <2> QED
      BY <1>2, <1>3, <2>1, MsgGrows DEF Inv, Requests
  <1> QED
    BY <1>1, <1>3, <1>4, <1>5, <1>6, Assemble DEF groups, outbox, starts

LEMMA DrainSelectKeeps ==
    ASSUME Inv, NEW u \in Users, NEW t \in tasks[u], DrainSelect(u, t)
    PROVE  Inv'
  <1>. DEFINE T == Draining(t, OwnPending(u))
  <1>1. /\ t \in Tasks /\ TaskOK(u, t) /\ t.m \in Messages /\ t.pc = "select"
        /\ Move(u, t, T)
        /\ UNCHANGED <<people, groups, outbox, starts, waits, net, seen, faults, edits>>
    BY TaskFacts DEF DrainSelect
  <1>2. Grows
    BY <1>1 DEF Grows, people, groups, outbox
  <1>3. \A v \in T : /\ v \in Tasks /\ v.by = t.by /\ v.m = t.m /\ v.grp = t.grp
                     /\ v.pc = "drain" /\ v.left # {} /\ \A i \in v.left : Author[i] = u
    <2>1. OwnPending(u) \in SUBSET Ids /\ \A i \in OwnPending(u) : Author[i] = u
      BY DEF OwnPending
    <2> QED
      BY <1>1, <2>1, DrainType
  <1>. HIDE DEF T
  <1>4. TaskOK(u, t)'
    BY <1>1, <1>2, TaskGrows DEF Inv
  <1>5. \A v \in T : TaskOK(u, v)'
    BY <1>1, <1>3, <1>4 DEF TaskOK
  <1>6. /\ tasks' \in [Users -> SUBSET Tasks]
        /\ \A w \in Users : \A x \in tasks'[w] : x \in tasks[w] \/ TaskOK(w, x)'
    BY <1>1, <1>3, <1>5, TaskMoved
  <1>7. TypeOK'
    BY <1>1, <1>6 DEF Inv, TypeOK, people, groups, outbox, starts, waits
  <1> QED
    BY <1>1, <1>2, <1>6, <1>7, Assemble DEF people, groups, outbox, starts

\* The row that is drained next is one of the user's own.
LEMMA LeftFacts ==
    ASSUME Inv, NEW u \in Users, NEW t \in tasks[u], t.pc \in {"drain", "drained"}
    PROVE  /\ Least(t.left) \in t.left /\ t.left \subseteq Ids
           /\ Author[Least(t.left)] = u /\ Established(u)
  <1>1. t \in Tasks /\ TaskOK(u, t)
    BY TaskFacts
  <1>2. t.left \subseteq Ids /\ t.left # {} /\ t.left \in SUBSET Nat
    BY <1>1, IdsAssumption DEF Tasks, TaskOK
  <1>3. Least(t.left) \in t.left
    BY <1>2, SelectedOne
  <1> QED
    BY <1>1, <1>2, <1>3 DEF TaskOK

LEMMA DrainSendKeeps ==
    ASSUME Inv, NEW u \in Users, NEW t \in tasks[u], DrainSend(u, t)
    PROVE  Inv'
  <1>. DEFINE v == At(t, "drained")
              i == Least(t.left)
  <1>1. /\ t \in Tasks /\ TaskOK(u, t) /\ t.m \in Messages /\ t.pc = "drain"
        /\ Encrypt(i)
        /\ Move(u, t, {v}) \/ Move(u, t, {})
        /\ net' = net \cup {Sealed(i)} \/ UNCHANGED net
        /\ faults' = faults + 1 \/ faults' = faults
        /\ UNCHANGED <<people, groups, row, cmd, starts, waits, seen, edits>>
    BY TaskFacts DEF DrainSend, SealAndSend, SealFails, Fault, NoFault
  <1>2. i \in Ids /\ Author[i] = u /\ Established(u)
    BY <1>1, LeftFacts
  <1>. HIDE DEF i
  <1>3. copies' \in [Ids -> Nat] /\ copies'[i] > 0
        /\ \A j \in Ids : copies[j] > 0 => copies'[j] > 0
    BY <1>1, <1>2, EncryptType
  <1>4. Grows
    BY <1>1, <1>3 DEF Grows, people, groups
  <1>5. v \in Tasks /\ v.by = t.by /\ v.m = t.m /\ v.grp = t.grp /\ v.pc = "drained"
        /\ v.left = t.left
    BY <1>1, AtType DEF Places
  <1>. HIDE DEF v
  <1>6. TaskOK(u, t)'
    BY <1>1, <1>4, TaskGrows DEF Inv
  <1>7. TaskOK(u, v)'
    BY <1>1, <1>5, <1>6 DEF TaskOK
  <1>8. /\ tasks' \in [Users -> SUBSET Tasks]
        /\ \A w \in Users : \A x \in tasks'[w] : x \in tasks[w] \/ TaskOK(w, x)'
    BY <1>1, <1>5, <1>7, TaskMoved
  <1>9. Sealed(i) \in Messages
    BY <1>2, SealedType
  <1>10. \A n : n = Sealed(i) => MsgOK(n)'
    BY <1>2, <1>3, <1>4, SealedOK
  <1>11. faults' \in Nat
    BY <1>1 DEF Inv, TypeOK
  <1>12. TypeOK'
    BY <1>1, <1>3, <1>8, <1>9, <1>11 DEF Inv, TypeOK, people, groups, starts, waits
  <1>13. \A n \in net' : n \in net \/ MsgOK(n)'
    BY <1>1, <1>10
  <1> QED
    BY <1>1, <1>4, <1>8, <1>12, <1>13, Assemble DEF people, groups, starts

LEMMA DrainMarkKeeps ==
    ASSUME Inv, NEW u \in Users, NEW t \in tasks[u], DrainMark(u, t)
    PROVE  Inv'
  <1>. DEFINE i == Least(t.left)
              S == t.left \ {i}
              T == Draining(t, S)
  <1>1. /\ t \in Tasks /\ TaskOK(u, t) /\ t.m \in Messages /\ t.pc = "drained"
        /\ row' = [row EXCEPT ![i] = "sent"]
        /\ Move(u, t, T)
        /\ UNCHANGED <<people, groups, cmd, copies, starts, waits, net, seen, faults, edits>>
    BY TaskFacts DEF DrainMark
  <1>2. Grows
    BY <1>1 DEF Grows, people, groups
  <1>3. S \in SUBSET Ids /\ \A j \in S : Author[j] = u
    BY <1>1 DEF Tasks, TaskOK
  <1>4. \A v \in T : /\ v \in Tasks /\ v.by = t.by /\ v.m = t.m /\ v.grp = t.grp
                     /\ v.pc = "drain" /\ v.left # {} /\ \A j \in v.left : Author[j] = u
    <2>. HIDE DEF S
    <2> QED
      BY <1>1, <1>3, DrainType
  <1>. HIDE DEF T
  <1>5. TaskOK(u, t)'
    BY <1>1, <1>2, TaskGrows DEF Inv
  <1>6. \A v \in T : TaskOK(u, v)'
    BY <1>1, <1>4, <1>5 DEF TaskOK
  <1>7. /\ tasks' \in [Users -> SUBSET Tasks]
        /\ \A w \in Users : \A x \in tasks'[w] : x \in tasks[w] \/ TaskOK(w, x)'
    BY <1>1, <1>4, <1>6, TaskMoved
  <1>8. row' \in [Ids -> {"none", "pending", "sent", "failed"}]
    BY <1>1 DEF Inv, TypeOK
  <1>9. TypeOK'
    BY <1>1, <1>7, <1>8 DEF Inv, TypeOK, people, groups, starts, waits
  <1> QED
    BY <1>1, <1>2, <1>7, <1>9, Assemble DEF people, groups, starts

LEMMA NameAbandonKeeps ==
    ASSUME Inv, NEW u \in Users, NEW t \in tasks[u], NameAbandon(u, t)
    PROVE  Inv'
  <1>1. /\ name' = [name EXCEPT ![u] = Nobody]
        /\ Move(u, t, {})
        /\ UNCHANGED <<people, groups, outbox, starts, querying, net, seen, faults, edits>>
    BY DEF NameAbandon
  <1>2. name' \in [Users -> {"none", "accept", "pubkey", "query"} \X Messages]
    BY <1>1, NoMsgType DEF Inv, TypeOK, Nobody
  <1>3. Grows
    BY <1>1 DEF Grows, people, groups, outbox
  <1>4. /\ tasks' \in [Users -> SUBSET Tasks]
        /\ \A w \in Users : \A x \in tasks'[w] : x \in tasks[w] \/ TaskOK(w, x)'
    BY <1>1, TaskMoved
  <1>5. TypeOK'
    BY <1>1, <1>2, <1>4 DEF Inv, TypeOK, people, groups, outbox, starts
  <1> QED
    BY <1>1, <1>3, <1>4, <1>5, Assemble DEF people, groups, outbox, starts

\* The answer to a query by user name: the task that waits goes on.
LEMMA NameArrivesKeeps ==
    ASSUME Inv, NEW u \in Users, NameArrives(u)
    PROVE  Inv'
  <1>1. /\ name' = [name EXCEPT ![u] = Nobody]
        /\ cached' = [cached EXCEPT ![u] = TRUE]
        /\ \/ \E t \in tasks[u] : /\ t.pc = "query" /\ Move(u, t, {At(t, "join")})
                                  /\ UNCHANGED querying
           \/ \E t \in tasks[u] : /\ t.pc = "pubkey" /\ Move(u, t, {At(t, "identified")})
                                  /\ UNCHANGED querying
           \/ querying' = [querying EXCEPT ![u] = FALSE] /\ UNCHANGED tasks
        /\ UNCHANGED <<contact, request, willing, groups, outbox, starts, net, seen, faults,
                       edits>>
    BY DEF NameArrives
  <1>2. name' \in [Users -> {"none", "accept", "pubkey", "query"} \X Messages]
    BY <1>1, NoMsgType DEF Inv, TypeOK, Nobody
  <1>3. cached' \in [Users -> BOOLEAN] /\ querying' \in [Users -> BOOLEAN]
    BY <1>1 DEF Inv, TypeOK
  <1>4. Grows
    BY <1>1 DEF Grows, groups, outbox
  <1>5. ASSUME NEW t \in tasks[u], NEW where,
               \/ t.pc = "query" /\ where = "join"
               \/ t.pc = "pubkey" /\ where = "identified"
        PROVE  At(t, where) \in Tasks /\ TaskOK(u, At(t, where))'
    <2>. DEFINE v == At(t, where)
    <2>1. t \in Tasks /\ TaskOK(u, t)
      BY TaskFacts
    <2>2. v \in Tasks /\ v.by = t.by /\ v.m = t.m /\ v.grp = t.grp /\ v.pc = where
      BY <1>5, <2>1, AtType DEF Places
    <2>. HIDE DEF v
    <2>3. TaskOK(u, t)'
      BY <1>4, <2>1, TaskGrows DEF Inv
    <2>4. TaskOK(u, v)'
      BY <1>5, <2>2, <2>3 DEF TaskOK
    <2> QED
      BY <2>2, <2>4 DEF v
  <1>. DEFINE TasksKept ==
                /\ tasks' \in [Users -> SUBSET Tasks]
                /\ \A w \in Users : \A x \in tasks'[w] : x \in tasks[w] \/ TaskOK(w, x)'
  <1>6. TasksKept
    <2>1. CASE UNCHANGED tasks
      BY <2>1 DEF Inv, TypeOK
    <2>2. ASSUME NEW t \in tasks[u], t.pc = "query", Move(u, t, {At(t, "join")})
          PROVE  TasksKept
      BY <1>5, <2>2, TaskMoved
    <2>3. ASSUME NEW t \in tasks[u], t.pc = "pubkey", Move(u, t, {At(t, "identified")})
          PROVE  TasksKept
      BY <1>5, <2>3, TaskMoved
    <2> QED
      BY <1>1, <2>1, <2>2, <2>3
  <1>7. TypeOK'
    BY <1>1, <1>2, <1>3, <1>6 DEF Inv, TypeOK, groups, outbox, starts
  <1> QED
    BY <1>1, <1>4, <1>6, <1>7, Assemble DEF groups, outbox, starts

-----------------------------------------------------------------------------
(* Commands on requests and contacts, faults *)

LEMMA AcceptKeeps ==
    ASSUME Inv, NEW u \in Users, Accept(u)
    PROVE  Inv'
  <1>. DEFINE n == request[u].w
  <1>1. PICK where \in {"join", "query"} :
          /\ request[u].status = "pending"
          /\ willing' = [willing EXCEPT ![u] = TRUE]
          /\ Move(u, n, {Task("user", n, n.grp, where)})
          /\ name' = [name EXCEPT ![u] = <<"accept", n>>] \/ UNCHANGED name
          /\ UNCHANGED <<contact, cached, request, groups, outbox, starts, querying, net, seen,
                         faults, edits>>
    BY DEF Accept
  <1>2. n \in Messages /\ n.type = "welcome" /\ n.to = u /\ MsgOK(n) /\ n.grp \in Ids
    BY <1>1 DEF Inv, TypeOK, Requests, MsgOK
  <1>3. willing' \in [Users -> BOOLEAN] /\ willing'[u]
    BY <1>1 DEF Inv, TypeOK
  <1>4. Grows
    BY <1>1 DEF Grows, groups, outbox, Inv, TypeOK
  <1>5. \A m \in Messages : m = n => MsgOK(m)'
    BY <1>2, <1>4, MsgGrows DEF Inv
  <1>6. PICK m \in Messages : m = n
    BY <1>2
  <1>. DEFINE v == Task("user", m, m.grp, where)
  <1>7. v \in Tasks /\ v.by = "user" /\ v.m = m /\ v.grp = m.grp /\ v.pc = where
    BY <1>2, <1>6, NewTask DEF Places
  <1>8. Move(u, m, {v})
    BY <1>1, <1>6
  <1>. HIDE DEF v
  <1>9. TaskOK(u, v)'
    BY <1>2, <1>3, <1>5, <1>6, <1>7 DEF TaskOK
  <1>10. /\ tasks' \in [Users -> SUBSET Tasks]
         /\ \A w \in Users : \A x \in tasks'[w] : x \in tasks[w] \/ TaskOK(w, x)'
    BY <1>7, <1>8, <1>9, TaskMoved
  <1>11. name' \in [Users -> {"none", "accept", "pubkey", "query"} \X Messages]
    <2>1. name \in [Users -> {"none", "accept", "pubkey", "query"} \X Messages]
      BY DEF Inv, TypeOK
    <2>2. name' = [name EXCEPT ![u] = <<"accept", m>>] \/ UNCHANGED name
      BY <1>1, <1>6
    <2> QED
      BY <2>1, <2>2
  <1>12. TypeOK'
    BY <1>1, <1>3, <1>10, <1>11 DEF Inv, TypeOK, groups, outbox, starts
  <1> QED
    BY <1>1, <1>4, <1>10, <1>12, Assemble DEF groups, outbox, starts

LEMMA DenyKeeps ==
    ASSUME Inv, NEW u \in Users, Deny(u)
    PROVE  Inv'
  <1>1. /\ request' = [request EXCEPT ![u].status = "denied"]
        /\ UNCHANGED <<contact, cached, willing, groups, outbox, starts, waits, tasks, net,
                       seen, faults, edits>>
    BY DEF Deny
  <1>2. /\ request' \in [Users -> [status : Statuses, w : Messages]]
        /\ \A x \in Users : /\ request'[x].status = IF x = u THEN "denied"
                                                    ELSE request[x].status
                            /\ request'[x].w = request[x].w
    <2>1. TypeOK /\ "denied" \in Statuses
      BY DEF Inv, Statuses
    <2> QED
      BY <1>1, <2>1, RequestSet
  <1>3. Grows
    BY <1>1 DEF Grows, groups, outbox
  <1>4. TypeOK'
    BY <1>1, <1>2 DEF Inv, TypeOK, Statuses, groups, outbox, starts, waits
  <1>5. Requests'
    <2>1. \A x \in Users : request[x].w \in Messages
      BY DEF Inv, TypeOK
    <2> QED
      BY <1>2, <1>3, <2>1, MsgGrows DEF Inv, Requests
  <1> QED
    BY <1>1, <1>3, <1>4, <1>5, Assemble DEF groups, outbox, starts

LEMMA ChoiceKeeps ==
    ASSUME Inv, NEW u \in Users,
           AddContact(u) \/ RemoveContact(u) \/ QueryUser(u) \/ QueryAbandon(u)
    PROVE  Inv'
  <1>1. /\ UNCHANGED <<request, groups, outbox, starts, tasks, net, seen, cached, faults>>
        /\ \/ contact' = [contact EXCEPT ![u] = IF cached[u] THEN "known" ELSE "keyless"]
              /\ willing' = [willing EXCEPT ![u] = TRUE]
           \/ contact' = [contact EXCEPT ![u] = "none"] /\ UNCHANGED willing
           \/ UNCHANGED <<contact, willing>>
        /\ UNCHANGED name \/ name' = [name EXCEPT ![u] = <<"query", NoMsg>>]
           \/ name' = [name EXCEPT ![u] = Nobody]
        /\ UNCHANGED querying \/ querying' = [querying EXCEPT ![u] = TRUE]
           \/ querying' = [querying EXCEPT ![u] = FALSE]
        /\ edits' = edits \/ edits' = edits + 1
    BY DEF AddContact, RemoveContact, QueryUser, QueryAbandon, Edit, people, waits
  <1>2. name' \in [Users -> {"none", "accept", "pubkey", "query"} \X Messages]
    BY <1>1, NoMsgType DEF Inv, TypeOK, Nobody
  <1>3. /\ contact' \in [Users -> {"none", "keyless", "known"}]
        /\ willing' \in [Users -> BOOLEAN] /\ querying' \in [Users -> BOOLEAN]
        /\ edits' \in Nat
        /\ \A w \in Users : willing[w] => willing'[w]
    <2>1. contact' \in [Users -> {"none", "keyless", "known"}]
      BY <1>1 DEF Inv, TypeOK
    <2>2. /\ willing' \in [Users -> BOOLEAN]
          /\ \A w \in Users : willing[w] => willing'[w]
      <3>1. willing' = [willing EXCEPT ![u] = TRUE] \/ willing' = willing
        BY <1>1
      <3>2. willing \in [Users -> BOOLEAN]
        BY DEF Inv, TypeOK
      <3> QED
        BY <3>1, <3>2
    <2>3. querying' \in [Users -> BOOLEAN] /\ edits' \in Nat
      <3>1. \/ querying' = querying
            \/ querying' = [querying EXCEPT ![u] = TRUE]
            \/ querying' = [querying EXCEPT ![u] = FALSE]
        BY <1>1
      <3>2. edits' = edits \/ edits' = edits + 1
        BY <1>1
      <3>3. querying \in [Users -> BOOLEAN] /\ edits \in Nat
        BY DEF Inv, TypeOK
      <3>4. querying' \in [Users -> BOOLEAN]
        BY <3>1, <3>3
      <3>5. edits' \in Nat
        BY <3>2, <3>3
      <3> QED
        BY <3>4, <3>5
    <2> QED
      BY <2>1, <2>2, <2>3
  <1>4. TypeOK'
    BY <1>1, <1>2, <1>3 DEF Inv, TypeOK, groups, outbox, starts
  <1>5. Grows
    BY <1>1, <1>3 DEF Grows, groups, outbox
  <1>6. Contacts'
    BY <1>1, <1>3 DEF Inv, TypeOK, Contacts
  <1> QED
    BY <1>1, <1>4, <1>5, <1>6, Assemble DEF groups, outbox, starts

LEMMA LoseKeeps ==
    ASSUME Inv, NEW n \in net, Lose(n)
    PROVE  Inv'
  <1>1. /\ net' = net \ {n}
        /\ faults' = faults + 1
        /\ UNCHANGED <<people, groups, outbox, starts, waits, tasks, seen, edits>>
    BY DEF Lose, Fault
  <1>2. TypeOK'
    BY <1>1 DEF Inv, TypeOK, people, groups, outbox, starts, waits
  <1>3. Grows
    BY <1>1 DEF Grows, people, groups, outbox
  <1> QED
    BY <1>1, <1>2, <1>3, Assemble DEF people, groups, outbox, starts

LEMMA RestartKeeps ==
    ASSUME Inv, NEW u \in Users, Restart(u)
    PROVE  Inv'
  <1>1. /\ cmd' = [i \in Ids |-> IF Author[i] = u /\ cmd[i] # "idle" THEN "done" ELSE cmd[i]]
        /\ init' = [i \in Ids |-> IF Author[i] = u /\ init[i] \notin {"no", "done"}
                                  THEN "failed" ELSE init[i]]
        /\ waiter' = [waiter EXCEPT ![u] = [k \in {"challenge", "kp"} |-> 0]]
        /\ name' = [name EXCEPT ![u] = Nobody]
        /\ querying' = [querying EXCEPT ![u] = FALSE]
        /\ tasks' = [tasks EXCEPT ![u] = {}]
        /\ faults' = faults + 1
        /\ UNCHANGED <<people, groups, row, copies, net, seen, edits>>
    BY DEF Restart, Fault
  <1>2. name' \in [Users -> {"none", "accept", "pubkey", "query"} \X Messages]
    BY <1>1, NoMsgType DEF Inv, TypeOK, Nobody
  <1>3. /\ waiter' \in [Users -> [{"challenge", "kp"} -> Ids \cup {0}]]
        /\ \A w \in Users, k \in {"challenge", "kp"} :
             waiter'[w][k] = IF w = u THEN 0 ELSE waiter[w][k]
    BY <1>1 DEF Inv, TypeOK
  <1>4. /\ tasks' \in [Users -> SUBSET Tasks]
        /\ \A w \in Users : tasks'[w] \subseteq tasks[w]
    BY <1>1 DEF Inv, TypeOK
  <1>5. /\ cmd' \in [Ids -> {"idle", "started", "unknown", "direct", "mark", "done"}]
        /\ init' \in [Ids -> {"no", "ask", "challenge", "pow", "kp", "group", "welcome",
                              "done", "failed"}]
        /\ querying' \in [Users -> BOOLEAN] /\ faults' \in Nat
    BY <1>1 DEF Inv, TypeOK
  <1>6. TypeOK'
    BY <1>1, <1>2, <1>3, <1>4, <1>5 DEF Inv, TypeOK, people, groups
  <1>7. Grows
    BY <1>1 DEF Grows, people, groups
  <1>8. Starts'
    BY <1>1 DEF Inv, Starts, Before, people, groups
  <1>9. Waiters'
    BY <1>1, <1>3, IdsAssumption DEF Inv, TypeOK, Waiters
  <1>10. Cmds'
    BY <1>1 DEF Inv, Cmds, Established, groups
  <1> QED
    BY <1>1, <1>4, <1>6, <1>7, <1>8, <1>9, <1>10, Assemble DEF people, groups

-----------------------------------------------------------------------------
(* What arrives *)

\* What the three kinds of message do, to the tasks T that the user has.
LEMMA DispatchKeeps ==
    ASSUME Inv, NEW u \in Users, NEW n \in Messages, MsgOK(n), n.to = u,
           n.type = "welcome" => willing[u],
           NEW T \in SUBSET tasks[u], Dispatch(u, n, T),
           UNCHANGED <<people, conv, pend, outbox, starts>>
    PROVE  /\ tasks' \in [Users -> SUBSET Tasks]
           /\ mls' \in [Users -> [Ids -> {"none", "pending", "active"}]]
           /\ seen' \in [Users -> SUBSET (Ids \X Nat)]
           /\ Grows /\ Groups' /\ Starts'
           /\ \A w \in Users : \A x \in tasks'[w] : x \in tasks[w] \/ TaskOK(w, x)'
  <1>. DEFINE Kept == \A w \in Users : \A x \in tasks'[w] : x \in tasks[w] \/ TaskOK(w, x)'
  <1>1. CASE UNCHANGED mls
    <2>1. Grows
      BY <1>1 DEF Grows, people, outbox
    <2>2. Groups' /\ Starts'
      <3>1. Groups'
        BY <1>1 DEF Inv, Groups, people
      <3>2. Starts'
        BY <1>1 DEF Inv, Starts, people, starts
      <3> QED
        BY <3>1, <3>2
    <2>3. seen' \in [Users -> SUBSET (Ids \X Nat)]
      <3>. DEFINE p == <<n.msg, n.copy>>
      <3>1. \/ seen' = seen
            \/ n.type = "app" /\ seen' = [seen EXCEPT ![u] = @ \cup {p}]
        BY DEF Dispatch
      <3>2. n.type = "app" => p \in Ids \X Nat
        BY DEF MsgOK, Messages
      <3>3. seen \in [Users -> SUBSET (Ids \X Nat)]
        BY DEF Inv, TypeOK
      <3>. HIDE DEF p
      <3> QED
        BY <3>1, <3>2, <3>3
    <2>4. \/ tasks' = [tasks EXCEPT ![u] = T]
          \/ /\ n.type = "welcome"
             /\ tasks' = [tasks EXCEPT ![u] = T \cup {Task("loop", n, n.grp, "join")}]
      <3>1. CASE n.type = "welcome"
        BY <3>1 DEF Dispatch
      <3>2. CASE n.type = "ack"
        <4>1. CASE pend[u] # NoGroup /\ mls[u][pend[u]] = "pending"
          <5>1. mls' = [mls EXCEPT ![u][pend[u]] = "active"]
            BY <3>2, <4>1 DEF Dispatch, ApplyPendingCommit
          <5>2. mls'[u][pend[u]] = "active"
            BY <4>1, <5>1 DEF Inv, TypeOK
          <5> QED
            BY <1>1, <4>1, <5>2
        <4> QED
          BY <3>2, <4>1 DEF Dispatch
      <3>3. CASE n.type = "app"
        BY <3>3 DEF Dispatch
      <3> QED
        BY <3>1, <3>2, <3>3 DEF Dispatch
    <2>5. ASSUME n.type = "welcome"
          PROVE  /\ Task("loop", n, n.grp, "join") \in Tasks
                 /\ TaskOK(u, Task("loop", n, n.grp, "join"))'
      <3>. DEFINE v == Task("loop", n, n.grp, "join")
      <3>1. v \in Tasks /\ v.by = "loop" /\ v.m = n /\ v.grp = n.grp /\ v.pc = "join"
        BY <2>5, NewTask DEF MsgOK, Places
      <3>. HIDE DEF v
      <3>2. MsgOK(n)' /\ willing'[u]
        BY <2>1, <2>5, MsgGrows DEF Inv, Grows
      <3>3. TaskOK(u, v)'
        BY <2>5, <3>1, <3>2 DEF TaskOK
      <3> QED
        BY <3>1, <3>3 DEF v
    <2>6. tasks' \in [Users -> SUBSET Tasks] /\ Kept
      <3>1. T \subseteq Tasks /\ tasks \in [Users -> SUBSET Tasks]
        BY DEF Inv, TypeOK
      <3> QED
        BY <2>4, <2>5, <3>1
    <2> QED
      BY <1>1, <2>1, <2>2, <2>3, <2>6 DEF Inv, TypeOK
  <1>2. CASE mls' # mls
    <2>a. PICK g \in Ids : g = pend[u]
      BY <1>2 DEF Dispatch, Inv, TypeOK
    <2>1. /\ n.type = "ack" /\ mls[u][g] = "pending"
          /\ mls' = [mls EXCEPT ![u][g] = "active"]
          /\ tasks' = [tasks EXCEPT ![u] = T \cup {Task("loop", n, g, "map")}]
          /\ UNCHANGED seen
      BY <1>2, <2>a DEF Dispatch, ApplyPendingCommit
    <2>2. Author[g] = u /\ willing[u]
      BY <2>1 DEF Inv, Groups
    <2>3. n.grp \in Ids /\ Author[n.grp] = u /\ mls[Peer(u)][n.grp] = "active"
      BY <2>1 DEF MsgOK
    <2>4. /\ mls' \in [Users -> [Ids -> {"none", "pending", "active"}]]
          /\ \A w \in Users, h \in Ids :
               mls'[w][h] = IF w = u /\ h = g THEN "active" ELSE mls[w][h]
      BY <2>1, <2>2 DEF Inv, TypeOK
    <2>5. Grows
      BY <2>4 DEF Grows, people, outbox
    <2>6. Groups'
      <3> SUFFICES ASSUME NEW w \in Users, NEW h \in Ids
                   PROVE  /\ mls'[w][h] = "pending" => Author[h] = w /\ willing'[w]
                          /\ mls'[w][h] = "active" => willing'[w] /\ willing'[Author[h]]
                          /\ mls'[w][h] = "active" /\ Author[h] = w =>
                               \E k \in Ids : Author[k] = w /\ mls'[Peer(w)][k] = "active"
        BY DEF Groups
      <3>1. UNCHANGED willing
        BY DEF people
      <3>2. CASE w = u /\ h = g
        <4>1. mls'[Peer(u)][n.grp] = "active"
          BY <2>3, <2>4, PeerType
        <4> QED
          BY <2>2, <2>3, <2>4, <3>1, <3>2, <4>1
      <3>3. CASE ~(w = u /\ h = g)
        <4>1. mls'[w][h] = mls[w][h]
          BY <2>4, <3>3
        <4> QED
          BY <2>5, <3>1, <4>1, PeerType DEF Inv, Groups, Grows
      <3> QED
        BY <3>2, <3>3
    <2>7. Starts'
      BY <2>1, <2>2, <2>4, AuthorAssumption DEF Inv, Starts, people, starts
    <2>8. /\ Task("loop", n, g, "map") \in Tasks
          /\ TaskOK(u, Task("loop", n, g, "map"))'
      <3>. DEFINE v == Task("loop", n, g, "map")
      <3>1. v \in Tasks /\ v.by = "loop" /\ v.m = n /\ v.grp = g /\ v.pc = "map"
        BY <2>2, NewTask DEF Places
      <3>. HIDE DEF v
      <3>2. MsgOK(n)'
        BY <2>5, MsgGrows DEF Inv
      <3>3. mls'[u][g] = "active"
        BY <2>2, <2>4
      <3>4. n.type = "ack" /\ n.to = u
        BY <2>1
      <3>5. /\ v.by # "user"
            /\ v.pc \notin {"query", "join", "pubkey", "identified", "contact", "reply",
                            "unpend", "mark", "select", "drain", "drained"}
        BY <3>1
      <3>6. TaskOK(u, v)'
        BY <3>1, <3>2, <3>3, <3>4, <3>5 DEF TaskOK
      <3> QED
        BY <3>1, <3>6 DEF v
    <2>9. tasks' \in [Users -> SUBSET Tasks] /\ Kept
      <3>. DEFINE v == Task("loop", n, g, "map")
      <3>1. T \subseteq Tasks /\ tasks \in [Users -> SUBSET Tasks]
        BY DEF Inv, TypeOK
      <3>2. tasks' = [tasks EXCEPT ![u] = T \cup {v}] /\ v \in Tasks /\ TaskOK(u, v)'
        BY <2>1, <2>8
      <3>. HIDE DEF v
      <3> QED
        BY <3>1, <3>2
    <2> QED
      BY <2>1, <2>4, <2>5, <2>6, <2>7, <2>9 DEF Inv, TypeOK
  <1> QED
    BY <1>1, <1>2

LEMMA IdentifiedKeeps ==
    ASSUME Inv, NEW u \in Users, NEW t \in tasks[u], Identified(u, t)
    PROVE  Inv'
  <1>1. /\ Dispatch(u, t.m, tasks[u] \ {t})
        /\ t.m \in Messages /\ MsgOK(t.m) /\ t.m.to = u /\ t.m.type # "welcome"
        /\ UNCHANGED <<people, conv, pend, outbox, starts, waits, net, faults, edits>>
    BY TaskFacts DEF Identified, TaskOK
  <1>2. PICK n \in Messages : n = t.m
    BY <1>1
  <1>3. PICK T \in SUBSET tasks[u] : T = tasks[u] \ {t}
    OBVIOUS
  <1>4. /\ tasks' \in [Users -> SUBSET Tasks]
        /\ mls' \in [Users -> [Ids -> {"none", "pending", "active"}]]
        /\ seen' \in [Users -> SUBSET (Ids \X Nat)]
        /\ Grows /\ Groups' /\ Starts'
        /\ \A w \in Users : \A x \in tasks'[w] : x \in tasks[w] \/ TaskOK(w, x)'
    BY <1>1, <1>2, <1>3, DispatchKeeps
  <1>5. TypeOK'
    BY <1>1, <1>4 DEF Inv, TypeOK, people, outbox, starts, waits
  <1> QED
    BY <1>1, <1>4, <1>5, Assemble DEF people, outbox, starts

LEMMA ReceiveKeeps ==
    ASSUME Inv, NEW n \in net, Receive(n)
    PROVE  Inv'
  <1>. DEFINE u == n.to
  <1>1. n \in Messages /\ MsgOK(n) /\ u \in Users
    BY DEF Inv, TypeOK, NetOK, Messages
  <1>2. /\ HandOver(n)
        /\ ReceiveKeyless(n) \/ ReceiveKnown(n) \/ ReceiveInvite(n) \/ ReceiveStranger(n)
        /\ UNCHANGED <<contact, cached, willing, conv, pend, outbox, starts, querying, edits>>
    BY DEF Receive
  <1>3. /\ net' \subseteq Messages /\ faults' \in Nat
        /\ \A x \in net' : x \in net \/ (MsgOK(x) /\ x \in Messages)
    <2>1. CASE NoFault /\ net' = net \ {n}
      BY <2>1 DEF NoFault, Inv, TypeOK
    <2>2. CASE Fault /\ net' = (net \ {n}) \cup {[n EXCEPT !.again = TRUE]}
      <3>1. PICK v : v = [n EXCEPT !.again = TRUE]
        OBVIOUS
      <3>2. v \in Messages /\ v.type = n.type /\ v.grp = n.grp /\ v.to = n.to /\ v.msg = n.msg
        BY <1>1, <3>1, AgainType
      <3>3. MsgOK(v)
        BY <1>1, <3>2 DEF MsgOK
      <3>4. net' = (net \ {n}) \cup {v} /\ net \subseteq Messages
        BY <2>2, <3>1 DEF Inv, TypeOK
      <3>5. faults' \in Nat
        BY <2>2 DEF Fault, Inv, TypeOK
      <3> QED
        BY <3>2, <3>3, <3>4, <3>5
    <2> QED
      BY <1>2, <2>1, <2>2 DEF HandOver
  <1>4. ASSUME Grows PROVE \A x \in net' : x \in net \/ MsgOK(x)'
    BY <1>3, <1>4, MsgGrows DEF Inv
  <1>5. CASE ReceiveKeyless(n)
    <2>1. UNCHANGED <<request, mls, name, tasks, seen>>
      BY <1>5 DEF ReceiveKeyless
    <2>2. Grows
      BY <1>2, <2>1 DEF Grows, outbox
    <2>3. TypeOK'
      BY <1>2, <1>3, <2>1 DEF Inv, TypeOK, outbox, starts
    <2> QED
      BY <1>2, <1>4, <2>1, <2>2, <2>3, Assemble DEF outbox, starts
  <1>6. CASE ReceiveKnown(n)
    <2>1. Known(u) /\ Dispatch(u, n, tasks[u]) /\ UNCHANGED <<request, name>>
      BY <1>6 DEF ReceiveKnown
    <2>2. willing[u]
      BY <1>1, <2>1 DEF Inv, Contacts, Known
    <2>3. UNCHANGED <<people, conv, pend, outbox, starts>>
      BY <1>2, <2>1 DEF people
    <2>4. PICK T \in SUBSET tasks[u] : T = tasks[u]
      OBVIOUS
    <2>5. /\ tasks' \in [Users -> SUBSET Tasks]
          /\ mls' \in [Users -> [Ids -> {"none", "pending", "active"}]]
          /\ seen' \in [Users -> SUBSET (Ids \X Nat)]
          /\ Grows /\ Groups' /\ Starts'
          /\ \A w \in Users : \A x \in tasks'[w] : x \in tasks[w] \/ TaskOK(w, x)'
      BY <1>1, <2>1, <2>2, <2>3, <2>4, DispatchKeeps
    <2>6. TypeOK'
      BY <1>2, <1>3, <2>1, <2>3, <2>5 DEF Inv, TypeOK, people, outbox, starts
    <2> QED
      BY <1>2, <1>4, <2>1, <2>5, <2>6, Assemble DEF outbox, starts
  <1>7. CASE ReceiveInvite(n)
    <2>1. /\ n.type = "welcome"
          /\ request' = [request EXCEPT ![u] = [status |-> "pending", w |-> n]]
          /\ UNCHANGED <<mls, name, tasks, seen>>
      BY <1>7 DEF ReceiveInvite
    <2>2. Grows
      BY <1>2, <2>1 DEF Grows, outbox
    <2>3. request' \in [Users -> [status : {"none", "pending", "accepted", "denied"},
                                  w : Messages]]
      BY <1>1, <2>1 DEF Inv, TypeOK
    <2>4. TypeOK'
      BY <1>2, <1>3, <2>1, <2>3 DEF Inv, TypeOK, outbox, starts
    <2>5. Requests'
      <3> SUFFICES ASSUME NEW x \in Users, request'[x].status = "pending"
                   PROVE  /\ request'[x].w.type = "welcome" /\ request'[x].w.to = x
                          /\ MsgOK(request[x].w)'
        BY DEF Requests
      <3>1. CASE x = u
        <4>1. request'[x].w = n
          BY <1>1, <2>1, <3>1 DEF Inv, TypeOK
        <4>2. MsgOK(n)'
          BY <1>1, <2>2, MsgGrows DEF Inv
        <4> QED
          BY <2>1, <3>1, <4>1, <4>2
      <3>2. CASE x # u
        <4>1. request'[x] = request[x] /\ request[x].w \in Messages
          BY <1>1, <2>1, <3>2 DEF Inv, TypeOK
        <4> QED
          BY <2>2, <4>1, MsgGrows DEF Inv, Requests
      <3> QED
        BY <3>1, <3>2
    <2> QED
      BY <1>2, <1>4, <2>1, <2>2, <2>4, <2>5, Assemble DEF outbox, starts
  <1>8. CASE ReceiveStranger(n)
    <2>. DEFINE v == Task("loop", n, NoGroup, "pubkey")
    <2>1. /\ n.type # "welcome"
          /\ name' = [name EXCEPT ![u] = <<"pubkey", n>>]
          /\ tasks' = [tasks EXCEPT ![u] = @ \cup {v}]
          /\ UNCHANGED <<request, mls, seen>>
      BY <1>8 DEF ReceiveStranger
    <2>2. Grows
      BY <1>2, <2>1 DEF Grows, outbox
    <2>3. v \in Tasks /\ v.by = "loop" /\ v.m = n /\ v.grp = NoGroup /\ v.pc = "pubkey"
      BY <1>1, NewTask DEF Places
    <2>. HIDE DEF v
    <2>4. TaskOK(u, v)'
      <3>1. MsgOK(n)'
        BY <1>1, <2>2, MsgGrows DEF Inv
      <3> QED
        BY <2>1, <2>3, <3>1 DEF TaskOK
    <2>5. /\ tasks' \in [Users -> SUBSET Tasks]
          /\ \A w \in Users : \A x \in tasks'[w] : x \in tasks[w] \/ TaskOK(w, x)'
      BY <1>1, <2>1, <2>3, <2>4 DEF Inv, TypeOK
    <2>6. name' \in [Users -> {"none", "accept", "pubkey", "query"} \X Messages]
      BY <1>1, <2>1 DEF Inv, TypeOK
    <2>7. TypeOK'
      BY <1>2, <1>3, <2>1, <2>5, <2>6 DEF Inv, TypeOK, outbox, starts
    <2> QED
      BY <1>2, <1>4, <2>1, <2>2, <2>5, <2>7, Assemble DEF outbox, starts
  <1> QED
    BY <1>2, <1>5, <1>6, <1>7, <1>8
-----------------------------------------------------------------------------
(* The invariant *)

LEMMA InvInitially == Init => Inv
  <1> SUFFICES ASSUME Init PROVE Inv
    OBVIOUS
  <1>1. TypeOK
    BY NoMsgType DEF Init, TypeOK, Nobody
  <1> QED
    BY <1>1, IdsAssumption, AuthorAssumption
    DEF Init, Inv, NetOK, TasksOK, Groups, Starts, Waiters, Contacts, Requests, Cmds,
        ConvUsable

LEMMA InvStep == Inv /\ [Next]_vars => Inv'
  <1> SUFFICES ASSUME Inv, [Next]_vars PROVE Inv'
    OBVIOUS
  <1>1. ASSUME NEW i \in Ids, SendMessage(i) \/ InitiateConversation(i) \/ Command(i)
        PROVE  Inv'
    BY <1>1, CommandKeeps, CheckHandshakeKeeps, DirectSendKeeps DEF Command
  <1>2. ASSUME NEW i \in Ids, Background(i) PROVE Inv'
    BY <1>2, AskKeeps, AbandonKeeps, CompleteHandshakeKeeps, SendWelcomeKeeps DEF Background
  <1>3. ASSUME NEW u \in Users, Answers(u) PROVE Inv'
    BY <1>3, AnswerKeeps, NameArrivesKeeps DEF Answers
  <1>4. ASSUME NEW u \in Users, Choices(u) \/ QueryAbandon(u) PROVE Inv'
    BY <1>4, AcceptKeeps, DenyKeeps, ChoiceKeeps DEF Choices
  <1>5. ASSUME NEW u \in Users, Restart(u) PROVE Inv'
    BY <1>5, RestartKeeps
  <1>6. ASSUME NEW u \in Users, NEW t \in tasks[u], Handler(u, t) PROVE Inv'
    BY <1>6, JoinKeeps, MapGroupKeeps, UnpendKeeps, SaveContactKeeps, SendWelcomeAckKeeps,
       MarkAcceptedKeeps, DrainSelectKeeps, DrainSendKeeps, DrainMarkKeeps,
       IdentifiedKeeps, NameAbandonKeeps
    DEF Handler
  <1>7. ASSUME NEW n \in net, Receive(n) \/ Lose(n) PROVE Inv'
    BY <1>7, ReceiveKeeps, LoseKeeps
  <1>8. CASE UNCHANGED vars
    <2>1. UNCHANGED <<contact, cached, request, willing, conv, mls, pend, row, cmd, copies,
                      init, waiter, name, querying, tasks, net, seen, faults, edits>>
      BY <1>8 DEF vars, people, groups, outbox, starts, waits
    <2>2. TypeOK'
      BY <2>1 DEF Inv, TypeOK
    <2>3. Grows
      BY <2>1 DEF Grows
    <2> QED
      BY <2>1, <2>2, <2>3, Assemble
  <1> QED
    BY <1>1, <1>2, <1>3, <1>4, <1>5, <1>6, <1>7, <1>8 DEF Next

THEOREM DmInvariance == Spec => []Inv
  <1> QED
    BY InvInitially, InvStep, PTL DEF Spec

-----------------------------------------------------------------------------
(* Theorems *)

\* Every variable keeps its type.
THEOREM DmTypeCorrect == Spec => []TypeOK
  <1>1. Inv => TypeOK
    BY DEF Inv
  <1> QED
    BY <1>1, DmInvariance, PTL

\* Nobody is in a group another user made without having agreed: the requests
\* of strangers wait, whatever the two contact lists go through meanwhile
\* (store_unverified_welcome, accept_contact_request, handle_welcome).
THEOREM DmConsent == Spec => []Consent
  <1>1. Inv => Consent
    BY DEF Inv, Groups, Consent
  <1> QED
    BY <1>1, DmInvariance, PTL

\* A conversation row leads to a group whose commit was applied
\* (save_conversation after process_welcome and after merge_pending_commit).
THEOREM DmConvUsable == Spec => []ConvUsable
  <1>1. Inv => ConvUsable
    BY DEF Inv
  <1> QED
    BY <1>1, DmInvariance, PTL

\* Nothing is encrypted in a group one made before the other user has joined
\* one of one's own (handle_welcome_ack, the deferred commit).
THEOREM DmNothingBeforeAck == Spec => []NothingBeforeAck
  <1>1. Inv => NothingBeforeAck
    <2> SUFFICES ASSUME Inv, NEW n \in net, n.type = "app", Author[n.grp] = Author[n.msg]
                 PROVE  \E g \in Ids : Author[g] = Author[n.msg] /\ mls[n.to][g] = "active"
      BY DEF NothingBeforeAck
    <2>1. /\ n.grp \in Ids /\ n.msg \in Ids /\ n.to = Peer(Author[n.msg])
          /\ mls[Author[n.msg]][n.grp] = "active"
      BY DEF Inv, NetOK, MsgOK
    <2>2. Author[n.msg] \in Users
      BY <2>1, AuthorAssumption
    <2> QED
      BY <2>1, <2>2 DEF Inv, Groups
  <1> QED
    BY <1>1, DmInvariance, PTL

-----------------------------------------------------------------------------
(* The refinement *)

\* An abstract step, or none.
Refines == [Abstract!CNext]_(Abstract!cvars)

LEMMA Stutters == ASSUME UNCHANGED <<willing, conv, copies, seen>> PROVE Refines
  BY DEF Refines, Abstract!cvars, Established

LEMMA Agrees ==
    ASSUME Inv, NEW u \in Users, willing' = [willing EXCEPT ![u] = TRUE],
           UNCHANGED <<conv, copies, seen>>
    PROVE  Refines
  <1>1. {w \in Users : willing'[w]} = {w \in Users : willing[w]} \cup {u}
    BY DEF Inv, TypeOK
  <1>2. CASE u \in {w \in Users : willing[w]}
    BY <1>1, <1>2 DEF Refines, Abstract!cvars, Established
  <1>3. CASE u \notin {w \in Users : willing[w]}
    <2>1. Abstract!Agree(u)
      BY <1>1, <1>3 DEF Abstract!Agree, Established
    <2> QED
      BY <2>1 DEF Refines, Abstract!CNext
  <1> QED
    BY <1>2, <1>3

\* Whoever has a conversation has agreed to it, and so has the other user.
LEMMA BothAgreed ==
    ASSUME Inv, NEW u \in Users, NEW g \in Ids, mls[u][g] = "active"
    PROVE  {w \in Users : willing[w]} = Users
  <1>1. willing[u] /\ willing[Author[g]] /\ Author[g] \in Users
    BY AuthorAssumption DEF Inv, Groups
  <1>2. willing[Peer(u)]
    <2>1. CASE Author[g] = u
      <3>1. PICK h \in Ids : Author[h] = u /\ mls[Peer(u)][h] = "active"
        BY <2>1 DEF Inv, Groups
      <3> QED
        BY <3>1, PeerType DEF Inv, Groups
    <2>2. CASE Author[g] # u
      BY <1>1, <2>2 DEF Users, Peer
    <2> QED
      BY <2>1, <2>2
  <1> QED
    BY <1>1, <1>2 DEF Users, Peer

LEMMA Opens ==
    ASSUME Inv, NEW u \in Users, NEW g \in Ids, mls[u][g] = "active",
           conv' = [conv EXCEPT ![u] = g], UNCHANGED <<willing, copies, seen>>
    PROVE  Refines
  <1>1. {w \in Users : conv'[w] # NoGroup} = {w \in Users : conv[w] # NoGroup} \cup {u}
    BY IdsAssumption DEF Inv, TypeOK
  <1>2. CASE u \in {w \in Users : conv[w] # NoGroup}
    BY <1>1, <1>2 DEF Refines, Abstract!cvars, Established
  <1>3. CASE u \notin {w \in Users : conv[w] # NoGroup}
    <2>1. Abstract!Open(u)
      BY <1>1, <1>3, BothAgreed DEF Abstract!Open, Established
    <2> QED
      BY <2>1 DEF Refines, Abstract!CNext
  <1> QED
    BY <1>2, <1>3

LEMMA Says ==
    ASSUME Inv, NEW i \in Ids, Established(Author[i]), Encrypt(i),
           UNCHANGED <<willing, conv, seen>>
    PROVE  Refines
  <1>1. {m \in Ids : copies'[m] > 0} = {m \in Ids : copies[m] > 0} \cup {i}
    BY DEF Inv, TypeOK, Encrypt
  <1>2. CASE i \in {m \in Ids : copies[m] > 0}
    BY <1>1, <1>2 DEF Refines, Abstract!cvars, Established
  <1>3. CASE i \notin {m \in Ids : copies[m] > 0}
    <2>1. Abstract!Say(i)
      BY <1>1, <1>3, AuthorAssumption DEF Abstract!Say, Established
    <2> QED
      BY <2>1 DEF Refines, Abstract!CNext
  <1> QED
    BY <1>2, <1>3

LEMMA Hears ==
    ASSUME Inv, NEW u \in Users, NEW n \in Messages, MsgOK(n), n.to = u,
           NEW T, Dispatch(u, n, T), UNCHANGED <<willing, conv, copies>>
    PROVE  Refines
  <1>1. CASE UNCHANGED seen
    BY <1>1, Stutters
  <1>2. CASE seen' # seen
    <2>. DEFINE p == <<n.msg, n.copy>>
                H == {q[1] : q \in seen[A] \cup seen[B]}
    <2>1. n.type = "app" /\ Decrypts(u, n) /\ seen' = [seen EXCEPT ![u] = @ \cup {p}]
      BY <1>2 DEF Dispatch
    <2>2. n.msg \in Ids /\ n.grp \in Ids /\ u = Peer(Author[n.msg]) /\ copies[n.msg] > 0
      BY <2>1 DEF MsgOK
    <2>3. Established(u) /\ u # Author[n.msg]
      BY <2>1, <2>2, PeerType, AuthorAssumption, IdsAssumption DEF Decrypts, Established
    <2>4. seen'[A] \cup seen'[B] = seen[A] \cup seen[B] \cup {p}
      <3>1. seen \in [Users -> SUBSET (Ids \X Nat)]
        BY DEF Inv, TypeOK
      <3>. HIDE DEF p
      <3> QED
        BY <2>1, <3>1, UsersAssumption DEF Users
    <2>5. p[1] = n.msg
      OBVIOUS
    <2>6. H' = H \cup {n.msg}
      <3>. HIDE DEF p
      <3> QED
        BY <2>4, <2>5
    <2>. HIDE DEF H
    <2>7. CASE n.msg \in H
      <3>1. H' = H
        BY <2>6, <2>7
      <3> QED
        BY <3>1 DEF H, Refines, Abstract!cvars, Established
    <2>8. CASE n.msg \notin H
      <3>1. Abstract!Hear(u, n.msg)
        BY <2>2, <2>3, <2>6, <2>8 DEF H, Abstract!Hear, Established
      <3> QED
        BY <2>2, <3>1 DEF Refines, Abstract!CNext
    <2> QED
      BY <2>7, <2>8
  <1> QED
    BY <1>1, <1>2

LEMMA RefinesStep == Inv /\ [Next]_vars => Refines
  <1> SUFFICES ASSUME Inv, [Next]_vars PROVE Refines
    OBVIOUS
  <1>1. ASSUME NEW i \in Ids, SendMessage(i) \/ InitiateConversation(i)
                              \/ CheckConversation(i) \/ DirectMark(i)
        PROVE  Refines
    BY <1>1, Stutters
    DEF SendMessage, InitiateConversation, CheckConversation, DirectMark, people, groups, outbox
  <1>2. ASSUME NEW i \in Ids, CheckHandshake(i) PROVE Refines
    <2>1. /\ UNCHANGED <<conv, copies, seen>>
          /\ UNCHANGED willing \/ willing' = [willing EXCEPT ![Author[i]] = TRUE]
      BY <1>2 DEF CheckHandshake, groups
    <2> QED
      BY <2>1, Stutters, Agrees, AuthorAssumption
  <1>3. ASSUME NEW i \in Ids, DirectSend(i) PROVE Refines
    BY <1>3, Says DEF DirectSend, Inv, Cmds, people, groups
  <1>4. ASSUME NEW i \in Ids, Background(i) PROVE Refines
    BY <1>4, Stutters
    DEF Background, AskChallenge, AskKeyPackage, AskFor, Abandon, CompleteHandshake,
        SendWelcome, people, groups, outbox
  <1>5. ASSUME NEW u \in Users, Answers(u) \/ Restart(u) \/ QueryAbandon(u) PROVE Refines
    BY <1>5, Stutters
    DEF Answers, ChallengeArrives, KeyPackageArrives, NameArrives, Restart, QueryAbandon,
        people, groups, outbox
  <1>6. ASSUME NEW u \in Users, Choices(u) PROVE Refines
    <2>1. /\ UNCHANGED <<conv, copies, seen>>
          /\ UNCHANGED willing \/ willing' = [willing EXCEPT ![u] = TRUE]
      BY <1>6 DEF Choices, Accept, Deny, AddContact, RemoveContact, QueryUser, people,
                  groups, outbox
    <2> QED
      BY <2>1, Stutters, Agrees
  <1>7. ASSUME NEW u \in Users, NEW t \in tasks[u], MapGroup(u, t) PROVE Refines
    <2>1. t.grp \in Ids /\ mls[u][t.grp] = "active"
      BY <1>7, TaskFacts DEF MapGroup, TaskOK
    <2> QED
      BY <1>7, <2>1, Opens DEF MapGroup, people, outbox
  <1>8. ASSUME NEW u \in Users, NEW t \in tasks[u], DrainSend(u, t) PROVE Refines
    <2>1. /\ Least(t.left) \in Ids /\ Author[Least(t.left)] = u /\ Established(u)
      BY <1>8, LeftFacts DEF DrainSend
    <2> QED
      BY <1>8, <2>1, Says DEF DrainSend, people, groups
  <1>9. ASSUME NEW u \in Users, NEW t \in tasks[u], Identified(u, t) PROVE Refines
    <2>1. t.m \in Messages /\ MsgOK(t.m) /\ t.m.to = u
      BY TaskFacts DEF TaskOK
    <2>2. /\ Dispatch(u, t.m, tasks[u] \ {t})
          /\ UNCHANGED <<willing, conv, copies>>
      BY <1>9 DEF Identified, people, outbox
    <2>3. PICK n \in Messages : n = t.m
      BY <2>1
    <2>4. PICK T : T = tasks[u] \ {t}
      OBVIOUS
    <2> QED
      BY <2>1, <2>2, <2>3, <2>4, Hears
  <1>10. ASSUME NEW u \in Users, NEW t \in tasks[u],
                Handler(u, t), ~MapGroup(u, t), ~DrainSend(u, t), ~Identified(u, t)
         PROVE  Refines
    BY <1>10, Stutters
    DEF Handler, Join, Unpend, SaveContact, SendWelcomeAck, MarkAccepted, DrainSelect,
        DrainMark, NameAbandon, people, groups, outbox
  <1>11. ASSUME NEW n \in net, Receive(n) PROVE Refines
    <2>1. UNCHANGED <<willing, conv, copies>>
      BY <1>11 DEF Receive, outbox
    <2>2. CASE ReceiveKnown(n)
      <3>1. n \in Messages /\ MsgOK(n) /\ n.to \in Users
        BY DEF Inv, TypeOK, NetOK, Messages
      <3>2. Dispatch(n.to, n, tasks[n.to])
        BY <2>2 DEF ReceiveKnown
      <3>3. PICK T : T = tasks[n.to]
        OBVIOUS
      <3> QED
        BY <2>1, <3>1, <3>2, <3>3, Hears
    <2>3. CASE ReceiveKeyless(n) \/ ReceiveInvite(n) \/ ReceiveStranger(n)
      BY <2>1, <2>3, Stutters DEF ReceiveKeyless, ReceiveInvite, ReceiveStranger
    <2> QED
      BY <1>11, <2>2, <2>3 DEF Receive
  <1>12. ASSUME NEW n \in net, Lose(n) PROVE Refines
    BY <1>12, Stutters DEF Lose, people, groups, outbox
  <1>13. CASE UNCHANGED vars
    BY <1>13, Stutters DEF vars, people, groups, outbox
  <1> QED
    BY <1>1, <1>2, <1>3, <1>4, <1>5, <1>6, <1>7, <1>8, <1>9, <1>10, <1>11, <1>12, <1>13
    DEF Next, Command

LEMMA RefinesInitially == Init => Abstract!CInit
  BY DEF Init, Abstract!CInit, Established, Users

\* The handshake keeps the promises of Conversation: nobody is in one before
\* both have agreed, nothing is written before its author is in it, nothing is
\* read that was not written (commands/messaging.rs, message_handler/direct.rs).
THEOREM DmImplements == Spec => ImplementsConversation
  <1>1. Inv /\ [Next]_vars => [Abstract!CNext]_(Abstract!cvars)
    BY RefinesStep DEF Refines
  <1> QED
    BY <1>1, RefinesInitially, DmInvariance, PTL
    DEF Spec, ImplementsConversation, Abstract!CSpec
-----------------------------------------------------------------------------
(* Nobody is stranded: who takes the rows that wait, when nothing fails. *)

Calm == faults = 0 /\ edits = 0

\* A row that waits is a message, of a command that was given.
Stored == \A i \in Ids : row[i] = "pending" => i \notin Silent /\ cmd[i] # "idle"

\* Who is about to send a welcome, and who waits for an acknowledgement, has
\* the other's key.
Keyed == /\ \A u \in Users : pend[u] # NoGroup => Known(u)
         /\ \A i \in Ids : init[i] = "group" => Known(Author[i])

\* So has every handler that got beyond the lookup; an accept command is
\* about a request.
HandOK(u, t) == /\ t.by = "user" => request[u].status # "none"
                /\ t.by = "loop" /\ t.pc \notin {"pubkey", "identified"} => Known(u)
Hands == \A u \in Users : \A t \in tasks[u] : HandOK(u, t)

\* The handler will drain row i.
TakesAll(t) == t.by = "loop" /\ t.pc \in {"unpend", "reply", "select"}
Takes(t, i) == TakesAll(t) \/ (t.by = "loop" /\ t.pc \in {"drain", "drained"} /\ i \in t.left)

\* A row whose command left it to the drain is in somebody's hands as soon as
\* there is a conversation.
Taken(i) == \/ request[Author[i]].status # "none"
            \/ \E t \in tasks[Author[i]] : Takes(t, i)
Waited == \A i \in Ids :
            row[i] = "pending" /\ cmd[i] \in {"unknown", "done"} /\ Established(Author[i])
              => Taken(i)

Rested == Stored /\ (Calm => Keyed /\ Hands /\ Waited)

\* What a step does to all that, when nothing fails.
GoesOn ==
  \A u \in Users, i \in Ids :
    Author[i] = u /\ row'[i] = "pending" /\ (\E t \in tasks[u] : Takes(t, i))
      => \E t \in tasks'[u] : Takes(t, i)
KeepsPeople == /\ \A u \in Users : Known(u) => Known(u)'
               /\ \A u \in Users : request[u].status # "none" => request'[u].status # "none"
KeepsRows == \A i \in Ids :
               row'[i] = "pending" /\ cmd'[i] \in {"unknown", "done"} =>
                 /\ row[i] = "pending"
                 /\ cmd[i] \in {"unknown", "done"} \/ ~Established(Author[i])
KeepsKeys == /\ \A u \in Users : pend'[u] # NoGroup => pend[u] # NoGroup \/ Known(u)'
             /\ \A i \in Ids : init'[i] = "group" => init[i] = "group" \/ Known(Author[i])'
KeepsHands == \A u \in Users : \A t \in tasks'[u] : t \in tasks[u] \/ HandOK(u, t)'
KeepsConv == \A u \in Users :
               Established(u)' => \/ Established(u)
                                  \/ request'[u].status # "none"
                                  \/ \E t \in tasks'[u] : TakesAll(t)
Gentle == KeepsPeople /\ KeepsRows /\ KeepsKeys /\ KeepsHands /\ KeepsConv /\ GoesOn

LEMMA GentleKeeps ==
    ASSUME Keyed, Hands, Waited, Gentle
    PROVE  Keyed' /\ Hands' /\ Waited'
  <1>1. Keyed'
    BY AuthorAssumption DEF Keyed, Gentle, KeepsPeople, KeepsKeys
  <1>2. Hands'
    BY DEF Hands, HandOK, Gentle, KeepsPeople, KeepsHands
  <1>3. Waited'
    <2> SUFFICES ASSUME NEW i \in Ids, row'[i] = "pending", cmd'[i] \in {"unknown", "done"},
                        Established(Author[i])'
                 PROVE  Taken(i)'
      BY DEF Waited
    <2>1. Author[i] \in Users
      BY AuthorAssumption
    <2>2. row[i] = "pending" /\ (cmd[i] \in {"unknown", "done"} \/ ~Established(Author[i]))
      BY DEF Gentle, KeepsRows
    <2>0. Taken(i)' <=> \/ request'[Author[i]].status # "none"
                        \/ \E t \in tasks'[Author[i]] : Takes(t, i)
      BY DEF Taken, Takes, TakesAll
    <2>3. CASE ~Established(Author[i])
      BY <2>0, <2>1, <2>3 DEF Gentle, KeepsConv, Takes
    <2>4. CASE Established(Author[i])
      <3>1. Taken(i)
        BY <2>2, <2>4 DEF Waited
      <3> QED
        BY <2>0, <2>1, <3>1 DEF Taken, Gentle, KeepsPeople, GoesOn
    <2> QED
      BY <2>3, <2>4
  <1> QED
    BY <1>1, <1>2, <1>3

\* Faults and edits are counted, and never taken back.
LEMMA CalmBefore ==
    ASSUME TypeOK, [Next]_vars, Calm'
    PROVE  Calm /\ UNCHANGED <<faults, edits>>
  <1>1. faults' \in {faults, faults + 1}
    <2>1. ASSUME NEW i \in Ids,
                 SendMessage(i) \/ InitiateConversation(i) \/ Command(i) \/ Background(i)
          PROVE  faults' \in {faults, faults + 1}
      BY <2>1 DEF SendMessage, InitiateConversation, Command, CheckConversation, CheckHandshake,
                  DirectSend, DirectMark, Background, AskChallenge, AskKeyPackage, AskFor, Abandon,
                  CompleteHandshake, SendWelcome, SealAndSend, SealFails, Fault, NoFault
    <2>2. ASSUME NEW u \in Users, Answers(u) \/ Choices(u) \/ QueryAbandon(u) \/ Restart(u)
          PROVE  faults' \in {faults, faults + 1}
      BY <2>2 DEF Answers, ChallengeArrives, KeyPackageArrives, NameArrives, Choices, Accept, Deny,
                  AddContact, RemoveContact, QueryUser, QueryAbandon, Restart, Fault
    <2>3. ASSUME NEW u \in Users, NEW t \in tasks[u], Handler(u, t)
          PROVE  faults' \in {faults, faults + 1}
      BY <2>3 DEF Handler, Join, MapGroup, Unpend, SaveContact, SendWelcomeAck, MarkAccepted,
                  DrainSelect, DrainSend, DrainMark, Identified, NameAbandon,
                  SealAndSend, SealFails,
                  Fault, NoFault
    <2>4. ASSUME NEW n \in net, Receive(n) \/ Lose(n)
          PROVE  faults' \in {faults, faults + 1}
      BY <2>4 DEF Receive, HandOver, Lose, Fault, NoFault
    <2>5. CASE UNCHANGED vars
      BY <2>5 DEF vars
    <2> QED
      BY <2>1, <2>2, <2>3, <2>4, <2>5 DEF Next
  <1>2. edits' \in {edits, edits + 1}
    <2>1. ASSUME NEW i \in Ids,
                 SendMessage(i) \/ InitiateConversation(i) \/ Command(i) \/ Background(i)
          PROVE  edits' \in {edits, edits + 1}
      BY <2>1 DEF SendMessage, InitiateConversation, Command, CheckConversation, CheckHandshake,
                  DirectSend, DirectMark, Background, AskChallenge, AskKeyPackage, AskFor, Abandon,
                  CompleteHandshake, SendWelcome
    <2>2. ASSUME NEW u \in Users, Answers(u) \/ Choices(u) \/ QueryAbandon(u) \/ Restart(u)
          PROVE  edits' \in {edits, edits + 1}
      BY <2>2 DEF Answers, ChallengeArrives, KeyPackageArrives, NameArrives, Choices, Accept, Deny,
                  AddContact, RemoveContact, QueryUser, QueryAbandon, Restart, Edit
    <2>3. ASSUME NEW u \in Users, NEW t \in tasks[u], Handler(u, t)
          PROVE  edits' \in {edits, edits + 1}
      BY <2>3 DEF Handler, Join, MapGroup, Unpend, SaveContact, SendWelcomeAck, MarkAccepted,
                  DrainSelect, DrainSend, DrainMark, Identified, NameAbandon
    <2>4. ASSUME NEW n \in net, Receive(n) \/ Lose(n)
          PROVE  edits' \in {edits, edits + 1}
      BY <2>4 DEF Receive, Lose
    <2>5. CASE UNCHANGED vars
      BY <2>5 DEF vars
    <2> QED
      BY <2>1, <2>2, <2>3, <2>4, <2>5 DEF Next
  <1>3. faults \in Nat /\ edits \in Nat /\ faults' = 0 /\ edits' = 0
    BY DEF TypeOK, Calm
  <1> QED
    BY <1>1, <1>2, <1>3 DEF Calm

LEMMA NoFaults == ASSUME Calm, Calm' PROVE ~Fault /\ ~Edit
  BY DEF Calm, Fault, Edit

\* A step that leaves handlers, requests and contacts alone.
LEMMA GentleCommand ==
    ASSUME UNCHANGED <<request, conv, tasks>>, KeepsRows,
           \A u \in Users : Known(u) => Known(u)',
           KeepsKeys
    PROVE  Gentle
  <1>1. KeepsPeople /\ KeepsHands /\ KeepsConv
    BY DEF KeepsPeople, KeepsHands, KeepsConv, Established
  <1>2. GoesOn
    BY DEF GoesOn
  <1> QED
    BY <1>1, <1>2 DEF Gentle

LEMMA CommandsGentle ==
    ASSUME Inv, Stored, Keyed, Calm, Calm', NEW i \in Ids,
           SendMessage(i) \/ InitiateConversation(i) \/ Command(i) \/ Background(i)
    PROVE  Gentle
  <1>1. CASE SendMessage(i) \/ InitiateConversation(i) \/ Command(i)
    <2>1. UNCHANGED <<contact, request, conv, pend, tasks>>
      BY <1>1 DEF SendMessage, InitiateConversation, Command, CheckConversation, CheckHandshake,
                  DirectSend, DirectMark, people, groups
    <2>2. \A u \in Users : Known(u) => Known(u)'
      BY <2>1 DEF Known
    <2>3. \A j \in Ids : init'[j] = "group" => init[j] = "group"
      <3>1. UNCHANGED init \/ init' = [init EXCEPT ![i] = "ask"]
        BY <1>1 DEF SendMessage, InitiateConversation, Command, CheckConversation, CheckHandshake,
                    DirectSend, DirectMark, starts
      <3>2. init \in [Ids -> {"no", "ask", "challenge", "pow", "kp", "group", "welcome",
                              "done", "failed"}]
        BY DEF Inv, TypeOK
      <3> QED
        BY <3>1, <3>2
    <2>4. KeepsKeys
      BY <2>1, <2>3 DEF KeepsKeys
    <2>5. KeepsRows
      BY <1>1, AuthorAssumption DEF Inv, TypeOK, Stored, KeepsRows, SendMessage,
        InitiateConversation, NextCommand,
             Command, CheckConversation, CheckHandshake, DirectSend, DirectMark, outbox
    <2> QED
      BY <2>1, <2>2, <2>4, <2>5, GentleCommand
  <1>2. CASE Background(i)
    <2>1. UNCHANGED <<contact, request, conv, row, cmd, tasks>>
      BY <1>2 DEF Background, AskChallenge, AskKeyPackage, AskFor, Abandon, CompleteHandshake,
                  SendWelcome, people, groups, outbox
    <2>2. \A u \in Users : Known(u) => Known(u)'
      BY <2>1 DEF Known
    <2>3. \A j \in Ids : init'[j] = "group" => init[j] = "group"
      <3>1. \E w \in {"challenge", "kp", "failed", "welcome", "done"} :
              init' = [init EXCEPT ![i] = w]
        BY <1>2 DEF Background, AskChallenge, AskKeyPackage, AskFor, Abandon, CompleteHandshake,
                    SendWelcome
      <3>2. init \in [Ids -> {"no", "ask", "challenge", "pow", "kp", "group", "welcome",
                              "done", "failed"}]
        BY DEF Inv, TypeOK
      <3> QED
        BY <3>1, <3>2
    <2>4. \A u \in Users : pend'[u] # NoGroup => pend[u] # NoGroup \/ Known(u)'
      <3>1. CASE CompleteHandshake(i)
        <4>1. pend' = [pend EXCEPT ![Author[i]] = i] /\ Known(Author[i])
          BY <3>1 DEF CompleteHandshake, StorePendingHandshake, Keyed
        <4> QED
          BY <2>2, <4>1 DEF Inv, TypeOK
      <3>2. CASE ~CompleteHandshake(i)
        <4>1. UNCHANGED pend
          BY <1>2, <3>2 DEF Background, AskChallenge, AskKeyPackage, AskFor, Abandon, SendWelcome,
                            groups
        <4> QED
          BY <4>1
      <3> QED
        BY <3>1, <3>2
    <2>5. KeepsKeys /\ KeepsRows
      BY <2>1, <2>3, <2>4 DEF KeepsKeys, KeepsRows
    <2> QED
      BY <2>1, <2>2, <2>5, GentleCommand
  <1> QED
    BY <1>1, <1>2

-----------------------------------------------------------------------------
(* The handlers' part of it. *)

\* A handler t of user u is replaced by those in T.
LEMMA MoveGentle ==
    ASSUME Inv, NEW u \in Users, NEW t, NEW T, T \subseteq Tasks, Move(u, t, T),
           KeepsPeople, KeepsRows, KeepsKeys,
           \A v \in T : HandOK(u, v)',
           \A i \in Ids : Author[i] = u /\ row'[i] = "pending" /\ t \in tasks[u] /\ Takes(t, i)
                            => \E v \in T : Takes(v, i),
           \A w \in Users : \/ Established(w)' => Established(w)
                            \/ request'[w].status # "none"
                            \/ w = u /\ \E v \in T : TakesAll(v)
    PROVE  Gentle
  <1>1. /\ tasks'[u] = (tasks[u] \ {t}) \cup T
        /\ \A w \in Users : w # u => tasks'[w] = tasks[w]
    BY MoveType DEF Inv
  <1>2. KeepsHands
    BY <1>1 DEF KeepsHands
  <1>3. GoesOn
    <2> SUFFICES ASSUME NEW w \in Users, NEW i \in Ids, Author[i] = w, row'[i] = "pending",
                        NEW x \in tasks[w], Takes(x, i)
                 PROVE  \E y \in tasks'[w] : Takes(y, i)
      BY DEF GoesOn
    <2>1. CASE w = u /\ x = t
      BY <1>1, <2>1
    <2>2. CASE ~(w = u /\ x = t)
      BY <1>1, <2>2
    <2> QED
      BY <2>1, <2>2
  <1>4. KeepsConv
    BY <1>1 DEF KeepsConv
  <1> QED
    BY <1>2, <1>3, <1>4 DEF Gentle

\* Where a handler is that takes rows.
LEMMA TakersPlaces ==
    ASSUME NEW t, NEW i, Takes(t, i)
    PROVE  t.by = "loop" /\ t.pc \in {"unpend", "reply", "select", "drain", "drained"}
  BY DEF Takes, TakesAll

LEMMA AtHand ==
    ASSUME Inv, Hands, KeepsPeople, NEW u \in Users, NEW t \in tasks[u], NEW where \in Places,
           t.pc \notin {"pubkey", "identified"} \/ where \in {"pubkey", "identified"}
    PROVE  /\ HandOK(u, At(t, where))' /\ At(t, where) \in Tasks
           /\ At(t, where).by = t.by /\ At(t, where).pc = where /\ At(t, where).left = t.left
  <1>1. t \in Tasks /\ HandOK(u, t)
    BY TaskFacts DEF Hands
  <1>2. PICK v : v = At(t, where)
    OBVIOUS
  <1>3. v \in Tasks /\ v.by = t.by /\ v.pc = where /\ v.left = t.left
    BY <1>1, <1>2, AtType
  <1>4. HandOK(u, v)'
    BY <1>1, <1>3 DEF HandOK, KeepsPeople
  <1> QED
    BY <1>2, <1>3, <1>4

\* Nothing but the handlers and what they send.
LEMMA SamePeople ==
    ASSUME UNCHANGED <<contact, request, row, cmd, init>>,
           \A u \in Users : pend'[u] # NoGroup => pend[u] # NoGroup
    PROVE  KeepsPeople /\ KeepsRows /\ KeepsKeys
  BY DEF KeepsPeople, KeepsRows, KeepsKeys, Known

LEMMA JoinGentle ==
    ASSUME Inv, Hands, NEW u \in Users, NEW t \in tasks[u], Join(u, t)
    PROVE  Gentle
  <1>1. UNCHANGED <<contact, request, row, cmd, init, pend, conv>> /\ t.pc = "join"
    BY DEF Join, people, outbox, starts
  <1>2. KeepsPeople /\ KeepsRows /\ KeepsKeys
    BY <1>1, SamePeople
  <1>3. HandOK(u, At(t, "map"))' /\ At(t, "map") \in Tasks
    BY <1>1, <1>2, AtHand DEF Places
  <1>4. \A i \in Ids : ~Takes(t, i)
    BY <1>1, TakersPlaces
  <1>5. PICK T \in SUBSET Tasks : Move(u, t, T) /\ \A v \in T : HandOK(u, v)'
    <2>1. CASE Move(u, t, {At(t, "map")})
      BY <1>3, <2>1
    <2>2. CASE Move(u, t, {})
      BY <2>2
    <2> QED
      BY <2>1, <2>2 DEF Join
  <1> QED
    BY <1>1, <1>2, <1>4, <1>5, MoveGentle DEF Established

LEMMA MapGroupGentle ==
    ASSUME Inv, Hands, NEW u \in Users, NEW t \in tasks[u], MapGroup(u, t)
    PROVE  Gentle
  <1>1. UNCHANGED <<contact, request, row, cmd, init, pend>> /\ t.pc = "map" /\ t \in Tasks
    BY TaskFacts DEF MapGroup, people, outbox, starts
  <1>2. KeepsPeople /\ KeepsRows /\ KeepsKeys
    BY <1>1, SamePeople
  <1>3. PICK v : v = At(t, AfterMap(t))
    OBVIOUS
  <1>4. AfterMap(t) \in Places /\ (t.by # "user" => AfterMap(t) \in {"unpend", "reply"})
    BY DEF AfterMap, Places
  <1>5. HandOK(u, v)' /\ v \in Tasks /\ v.by = t.by /\ v.pc = AfterMap(t)
    BY <1>1, <1>2, <1>3, <1>4, AtHand
  <1>6. Move(u, t, {v}) /\ conv' = [conv EXCEPT ![u] = t.grp]
    BY <1>3 DEF MapGroup
  <1>7. \A w \in Users : w # u => (Established(w)' => Established(w))
    BY <1>6 DEF Inv, TypeOK, Established
  <1>8. t.by \in {"user", "loop"} /\ (t.by = "user" => request'[u].status # "none")
    BY <1>1 DEF Hands, HandOK, Tasks
  <1>9. t.by = "loop" => TakesAll(v)
    BY <1>4, <1>5 DEF TakesAll
  <1>10. \A i \in Ids : ~Takes(t, i)
    BY <1>1, TakersPlaces
  <1> QED
    BY <1>2, <1>5, <1>6, <1>7, <1>8, <1>9, <1>10, MoveGentle

LEMMA UnpendGentle ==
    ASSUME Inv, Hands, NEW u \in Users, NEW t \in tasks[u], Unpend(u, t)
    PROVE  Gentle
  <1>1. UNCHANGED <<contact, request, row, cmd, init, conv>> /\ t.pc = "unpend"
    BY DEF Unpend, people, outbox, starts
  <1>2. \A w \in Users : pend'[w] # NoGroup => pend[w] # NoGroup
    BY DEF Unpend, Inv, TypeOK
  <1>3. KeepsPeople /\ KeepsRows /\ KeepsKeys
    BY <1>1, <1>2, SamePeople
  <1>4. PICK v : v = At(t, "select")
    OBVIOUS
  <1>5. HandOK(u, v)' /\ v \in Tasks /\ v.by = t.by /\ v.pc = "select"
    BY <1>1, <1>3, <1>4, AtHand DEF Places
  <1>6. Move(u, t, {v})
    BY <1>4 DEF Unpend
  <1>7. \A i \in Ids : Takes(t, i) => Takes(v, i)
    BY <1>1, <1>5 DEF Takes, TakesAll
  <1> QED
    BY <1>1, <1>3, <1>5, <1>6, <1>7, MoveGentle DEF Established

LEMMA SaveContactGentle ==
    ASSUME Inv, Hands, NEW u \in Users, NEW t \in tasks[u], SaveContact(u, t)
    PROVE  Gentle
  <1>1. UNCHANGED <<request, row, cmd, init, conv, pend>> /\ t.pc = "contact"
        /\ contact' = [contact EXCEPT ![u] = "known"]
    BY DEF SaveContact, groups, outbox, starts
  <1>2. \A w \in Users : Known(w) => Known(w)'
    BY <1>1 DEF Inv, TypeOK, Known
  <1>3. KeepsPeople /\ KeepsRows /\ KeepsKeys
    BY <1>1, <1>2 DEF KeepsPeople, KeepsRows, KeepsKeys
  <1>4. PICK v : v = At(t, "reply")
    OBVIOUS
  <1>5. HandOK(u, v)' /\ v \in Tasks
    BY <1>1, <1>3, <1>4, AtHand DEF Places
  <1>6. Move(u, t, {v})
    BY <1>4 DEF SaveContact
  <1>7. \A i \in Ids : ~Takes(t, i)
    BY <1>1, TakersPlaces
  <1> QED
    BY <1>1, <1>3, <1>5, <1>6, <1>7, MoveGentle DEF Established

\* The key is there, so the acknowledgement is sent.
LEMMA SendWelcomeAckGentle ==
    ASSUME Inv, Hands, Calm, Calm', NEW u \in Users, NEW t \in tasks[u], SendWelcomeAck(u, t)
    PROVE  Gentle
  <1>1. UNCHANGED <<contact, request, row, cmd, init, conv, pend>> /\ t.pc = "reply"
    BY DEF SendWelcomeAck, people, groups, outbox, starts
  <1>2. KeepsPeople /\ KeepsRows /\ KeepsKeys
    BY <1>1, SamePeople
  <1>3. CASE t.by = "loop"
    <2>1. Known(u)
      BY <1>1, <1>3 DEF Hands, HandOK
    <2>2. PICK v : v = At(t, "select")
      OBVIOUS
    <2>3. Move(u, t, {v})
      BY <1>3, <2>1, <2>2, NoFaults DEF SendWelcomeAck, SealFails
    <2>4. HandOK(u, v)' /\ v \in Tasks /\ v.by = t.by /\ v.pc = "select"
      BY <1>1, <1>2, <2>2, AtHand DEF Places
    <2>5. TakesAll(v) /\ \A i \in Ids : Takes(v, i)
      BY <1>3, <2>4 DEF Takes, TakesAll
    <2> QED
      BY <1>1, <1>2, <2>3, <2>4, <2>5, MoveGentle DEF Established
  <1>4. CASE t.by # "loop"
    <2>1. \A i \in Ids : ~Takes(t, i)
      BY <1>4, TakersPlaces
    <2>2. PICK T \in SUBSET Tasks : Move(u, t, T) /\ \A v \in T : HandOK(u, v)'
      <3>1. PICK where \in {"mark", "select"} : Move(u, t, {At(t, where)}) \/ Move(u, t, {})
        BY DEF SendWelcomeAck
      <3>2. HandOK(u, At(t, where))' /\ At(t, where) \in Tasks
        BY <1>1, <1>2, AtHand DEF Places
      <3>3. CASE Move(u, t, {At(t, where)})
        BY <3>2, <3>3
      <3>4. CASE Move(u, t, {})
        BY <3>4
      <3> QED
        BY <3>1, <3>3, <3>4
    <2> QED
      BY <1>1, <1>2, <2>1, <2>2, MoveGentle DEF Established
  <1> QED
    BY <1>3, <1>4

LEMMA MarkAcceptedGentle ==
    ASSUME Inv, NEW u \in Users, NEW t \in tasks[u], MarkAccepted(u, t)
    PROVE  Gentle
  <1>1. UNCHANGED <<contact, row, cmd, init, conv, pend>> /\ t.pc = "mark"
        /\ request' = [request EXCEPT ![u].status = "accepted"] /\ Move(u, t, {})
    BY DEF MarkAccepted, groups, outbox, starts
  <1>2. \A w \in Users : request'[w].status = IF w = u THEN "accepted" ELSE request[w].status
    <2>1. TypeOK /\ "accepted" \in Statuses
      BY DEF Inv, Statuses
    <2> QED
      BY <1>1, <2>1, RequestSet
  <1>3. KeepsPeople /\ KeepsRows /\ KeepsKeys
    BY <1>1, <1>2 DEF KeepsPeople, KeepsRows, KeepsKeys, Known
  <1>4. \A i \in Ids : ~Takes(t, i)
    BY <1>1, TakersPlaces
  <1> QED
    BY <1>1, <1>3, <1>4, MoveGentle DEF Established

\* A row that waits is selected, sent and marked.
LEMMA DrainingTakes ==
    ASSUME Inv, Hands, KeepsPeople, NEW u \in Users, NEW t \in tasks[u],
           t.pc \in {"select", "drained"},
           NEW S \in SUBSET Ids
    PROVE  /\ Draining(t, S) \subseteq Tasks
           /\ \A v \in Draining(t, S) : HandOK(u, v)'
           /\ \A i \in S : t.by = "loop" => \E v \in Draining(t, S) : Takes(v, i)
  <1>1. t \in Tasks /\ HandOK(u, t)
    BY TaskFacts DEF Hands
  <1>2. \A v \in Draining(t, S) : v \in Tasks /\ v.by = t.by /\ v.pc = "drain" /\ v.left = S
    BY <1>1, DrainType
  <1>3. \A v \in Draining(t, S) : HandOK(u, v)'
    BY <1>1, <1>2 DEF HandOK, KeepsPeople
  <1>4. S # {} => \E v : v \in Draining(t, S)
    BY DEF Draining
  <1> QED
    BY <1>2, <1>3, <1>4 DEF Takes

LEMMA DrainSelectGentle ==
    ASSUME Inv, Hands, NEW u \in Users, NEW t \in tasks[u], DrainSelect(u, t)
    PROVE  Gentle
  <1>1. UNCHANGED <<contact, request, row, cmd, init, conv, pend>> /\ t.pc = "select"
    BY DEF DrainSelect, people, groups, outbox, starts
  <1>2. KeepsPeople /\ KeepsRows /\ KeepsKeys
    BY <1>1, SamePeople
  <1>3. PICK S \in SUBSET Ids : S = OwnPending(u)
    BY DEF OwnPending
  <1>4. PICK T : T = Draining(t, S)
    OBVIOUS
  <1>5. /\ T \subseteq Tasks /\ \A v \in T : HandOK(u, v)'
        /\ \A i \in S : t.by = "loop" => \E v \in T : Takes(v, i)
    BY <1>1, <1>2, <1>4, DrainingTakes
  <1>6. Move(u, t, T)
    BY <1>3, <1>4 DEF DrainSelect
  <1>7. \A i \in Ids : Author[i] = u /\ row'[i] = "pending" => i \in S
    BY <1>1, <1>3 DEF OwnPending
  <1> QED
    BY <1>1, <1>2, <1>5, <1>6, <1>7, TakersPlaces, MoveGentle DEF Established

LEMMA DrainSendGentle ==
    ASSUME Inv, Hands, Calm, Calm', NEW u \in Users, NEW t \in tasks[u], DrainSend(u, t)
    PROVE  Gentle
  <1>1. UNCHANGED <<contact, request, row, cmd, init, conv, pend>> /\ t.pc = "drain"
    BY DEF DrainSend, people, groups, outbox, starts
  <1>2. KeepsPeople /\ KeepsRows /\ KeepsKeys
    BY <1>1, SamePeople
  <1>3. PICK v : v = At(t, "drained")
    OBVIOUS
  <1>4. HandOK(u, v)' /\ v \in Tasks /\ v.by = t.by /\ v.pc = "drained" /\ v.left = t.left
    BY <1>1, <1>2, <1>3, AtHand DEF Places
  <1>5. CASE t.by = "loop"
    <2>1. Known(u)
      BY <1>1, <1>5 DEF Hands, HandOK
    <2>2. Move(u, t, {v})
      BY <1>3, <2>1, NoFaults DEF DrainSend, SealFails
    <2>3. \A i \in Ids : Takes(t, i) => Takes(v, i)
      BY <1>1, <1>4 DEF Takes, TakesAll
    <2> QED
      BY <1>1, <1>2, <1>4, <2>2, <2>3, MoveGentle DEF Established
  <1>6. CASE t.by # "loop"
    <2>1. \A i \in Ids : ~Takes(t, i)
      BY <1>6, TakersPlaces
    <2>2. Move(u, t, {v}) \/ Move(u, t, {})
      BY <1>3 DEF DrainSend
    <2>3. PICK T \in SUBSET Tasks : Move(u, t, T) /\ \A x \in T : HandOK(u, x)'
      BY <1>4, <2>2
    <2> QED
      BY <1>1, <1>2, <2>1, <2>3, MoveGentle DEF Established
  <1> QED
    BY <1>5, <1>6

LEMMA DrainMarkGentle ==
    ASSUME Inv, Hands, NEW u \in Users, NEW t \in tasks[u], DrainMark(u, t)
    PROVE  Gentle
  <1>1. UNCHANGED <<contact, request, cmd, init, conv, pend>> /\ t.pc = "drained" /\ t \in Tasks
    BY TaskFacts DEF DrainMark, people, groups, starts
  <1>2. PICK k \in Ids : k = Least(t.left)
    BY <1>1, LeftFacts
  <1>3. row' = [row EXCEPT ![k] = "sent"]
    BY <1>2 DEF DrainMark
  <1>4. \A i \in Ids : row'[i] = "pending" => i # k /\ row[i] = "pending"
    BY <1>3 DEF Inv, TypeOK
  <1>5. KeepsPeople /\ KeepsRows /\ KeepsKeys
    BY <1>1, <1>4 DEF KeepsPeople, KeepsRows, KeepsKeys, Known
  <1>6. PICK S \in SUBSET Ids : S = t.left \ {k}
    BY <1>1 DEF Tasks
  <1>7. PICK T : T = Draining(t, S)
    OBVIOUS
  <1>8. /\ T \subseteq Tasks /\ \A v \in T : HandOK(u, v)'
        /\ \A i \in S : t.by = "loop" => \E v \in T : Takes(v, i)
    BY <1>1, <1>5, <1>7, DrainingTakes
  <1>9. Move(u, t, T)
    BY <1>2, <1>6, <1>7 DEF DrainMark
  <1>10. \A i \in Ids : row'[i] = "pending" /\ Takes(t, i) => i \in S /\ t.by = "loop"
    BY <1>1, <1>4, <1>6 DEF Takes, TakesAll
  <1> QED
    BY <1>1, <1>5, <1>8, <1>9, <1>10, MoveGentle DEF Established

-----------------------------------------------------------------------------
(* What arrives, and the choices of the user. *)

LEMMA DispatchGentle ==
    ASSUME Inv, Hands, Keyed, NEW u \in Users, NEW n \in Messages, n.type = "welcome" => Known(u),
           NEW T \in SUBSET tasks[u], Dispatch(u, n, T),
           \A i \in Ids, t \in tasks[u] : Takes(t, i) => t \in T,
           UNCHANGED <<contact, conv, pend, row, cmd, init>>, KeepsPeople
    PROVE  Gentle
  <1>1. KeepsRows /\ KeepsKeys
    BY DEF KeepsRows, KeepsKeys
  <1>2. /\ T \subseteq tasks'[u]
        /\ \A v \in tasks'[u] : \/ v \in T
                                \/ /\ v.by = "loop" /\ v.pc \in {"join", "map"}
                                   /\ n.type = "welcome" \/ pend[u] # NoGroup
        /\ \A w \in Users : w # u => tasks'[w] = tasks[w]
    <2>1. ASSUME NEW where, NEW g
          PROVE  Task("loop", n, g, where).by = "loop" /\ Task("loop", n, g, where).pc = where
      BY DEF Task
    <2>2. CASE tasks' = [tasks EXCEPT ![u] = T]
      BY <2>2 DEF Inv, TypeOK
    <2>3. CASE /\ n.type = "welcome"
               /\ tasks' = [tasks EXCEPT ![u] = T \cup {Task("loop", n, n.grp, "join")}]
      <3>1. PICK x : x = Task("loop", n, n.grp, "join")
        OBVIOUS
      <3>2. x.by = "loop" /\ x.pc \in {"join", "map"} /\ n.type = "welcome"
        BY <2>1, <2>3, <3>1
      <3>3. tasks' = [tasks EXCEPT ![u] = T \cup {x}]
        BY <2>3, <3>1
      <3> QED
        BY <3>2, <3>3 DEF Inv, TypeOK
    <2>4. CASE /\ pend[u] # NoGroup
               /\ tasks' = [tasks EXCEPT ![u] = T \cup {Task("loop", n, pend[u], "map")}]
      <3>1. PICK x : x = Task("loop", n, pend[u], "map")
        OBVIOUS
      <3>2. x.by = "loop" /\ x.pc \in {"join", "map"} /\ pend[u] # NoGroup
        BY <2>1, <2>4, <3>1
      <3>3. tasks' = [tasks EXCEPT ![u] = T \cup {x}]
        BY <2>4, <3>1
      <3> QED
        BY <3>2, <3>3 DEF Inv, TypeOK
    <2> QED
      BY <2>2, <2>3, <2>4 DEF Dispatch
  <1>3. PICK S : S = tasks'[u] \ T
    OBVIOUS
  <1>4. tasks'[u] = T \cup S /\ \A w \in Users : w # u => tasks'[w] = tasks[w]
    BY <1>2, <1>3
  <1>5. \A v \in S : HandOK(u, v)'
    <2>1. Known(u)' <=> Known(u)
      BY DEF Known
    <2> QED
      BY <1>2, <1>3, <2>1 DEF HandOK, Keyed
  <1>6. KeepsHands
    BY <1>4, <1>5 DEF KeepsHands
  <1>7. GoesOn
    <2> SUFFICES ASSUME NEW w \in Users, NEW i \in Ids, NEW x \in tasks[w], Takes(x, i)
                 PROVE  \E y \in tasks'[w] : Takes(y, i)
      BY DEF GoesOn
    <2> QED
      BY <1>4
  <1>8. KeepsConv
    BY DEF KeepsConv, Established
  <1> QED
    BY <1>1, <1>6, <1>7, <1>8 DEF Gentle

LEMMA IdentifiedGentle ==
    ASSUME Inv, Hands, Keyed, NEW u \in Users, NEW t \in tasks[u], Identified(u, t)
    PROVE  Gentle
  <1>1. UNCHANGED <<contact, request, row, cmd, init, conv, pend>> /\ t.pc = "identified"
    BY DEF Identified, people, outbox, starts
  <1>2. KeepsPeople
    BY <1>1, SamePeople
  <1>3. PICK n \in Messages : n = t.m
    BY TaskFacts
  <1>4. n.type # "welcome"
    BY <1>1, <1>3, TaskFacts DEF TaskOK
  <1>5. PICK T \in SUBSET tasks[u] : T = tasks[u] \ {t}
    OBVIOUS
  <1>6. Dispatch(u, n, T)
    BY <1>3, <1>5 DEF Identified
  <1>7. \A i \in Ids, x \in tasks[u] : Takes(x, i) => x \in T
    BY <1>1, <1>5, TakersPlaces
  <1> QED
    BY <1>1, <1>2, <1>4, <1>6, <1>7, DispatchGentle

\* Handlers are added, and requests; nobody who takes rows goes.
LEMMA AddingGentle ==
    ASSUME UNCHANGED <<contact, row, cmd, init, conv, pend>>,
           \A w \in Users : request[w].status # "none" => request'[w].status # "none",
           \A w \in Users, i \in Ids : \A t \in tasks[w] : Takes(t, i) => t \in tasks'[w],
           KeepsHands
    PROVE  Gentle
  <1>1. KeepsPeople /\ KeepsRows /\ KeepsKeys
    BY DEF KeepsPeople, KeepsRows, KeepsKeys, Known
  <1>2. KeepsConv
    BY DEF KeepsConv, Established
  <1>3. GoesOn
    BY DEF GoesOn
  <1> QED
    BY <1>1, <1>2, <1>3 DEF Gentle

LEMMA ReceiveGentle ==
    ASSUME Inv, Hands, Keyed, NEW n \in net, Receive(n)
    PROVE  Gentle
  <1>1. n \in Messages /\ n.to \in Users
    BY DEF Inv, TypeOK, Messages
  <1>2. PICK u \in Users : u = n.to
    BY <1>1
  <1>3. UNCHANGED <<contact, row, cmd, init, conv, pend>>
    BY DEF Receive, outbox, starts
  <1>4. CASE ReceiveKeyless(n)
    BY <1>3, <1>4, AddingGentle DEF ReceiveKeyless, KeepsHands
  <1>5. CASE ReceiveKnown(n)
    <2>1. Known(u) /\ UNCHANGED request
      BY <1>2, <1>5 DEF ReceiveKnown
    <2>2. KeepsPeople
      BY <1>3, <2>1 DEF KeepsPeople, Known
    <2>3. PICK T \in SUBSET tasks[u] : T = tasks[u]
      OBVIOUS
    <2>4. Dispatch(u, n, T)
      BY <1>2, <1>5, <2>3 DEF ReceiveKnown
    <2> QED
      BY <1>1, <1>3, <2>1, <2>2, <2>3, <2>4, DispatchGentle
  <1>6. CASE ReceiveInvite(n)
    <2>1. UNCHANGED tasks /\ request' = [request EXCEPT ![u] = [status |-> "pending", w |-> n]]
      BY <1>2, <1>6 DEF ReceiveInvite
    <2>2. \A w \in Users : request[w].status # "none" => request'[w].status # "none"
      BY <2>1 DEF Inv, TypeOK
    <2> QED
      BY <1>3, <2>1, <2>2, AddingGentle DEF KeepsHands
  <1>7. CASE ReceiveStranger(n)
    <2>1. PICK v : v = Task("loop", n, NoGroup, "pubkey")
      OBVIOUS
    <2>2. v.by = "loop" /\ v.pc = "pubkey"
      BY <2>1 DEF Task
    <2>3. UNCHANGED request /\ tasks' = [tasks EXCEPT ![u] = @ \cup {v}]
      BY <1>2, <1>7, <2>1 DEF ReceiveStranger
    <2>4. tasks'[u] = tasks[u] \cup {v} /\ \A w \in Users : w # u => tasks'[w] = tasks[w]
      BY <2>3 DEF Inv, TypeOK
    <2>5. HandOK(u, v)'
      BY <2>2 DEF HandOK
    <2>6. KeepsHands
      BY <2>4, <2>5 DEF KeepsHands
    <2> QED
      BY <1>3, <2>3, <2>4, <2>6, AddingGentle
  <1> QED
    BY <1>4, <1>5, <1>6, <1>7 DEF Receive

LEMMA NameArrivesGentle ==
    ASSUME Inv, Hands, NEW u \in Users, NameArrives(u)
    PROVE  Gentle
  <1>1. UNCHANGED <<contact, request, row, cmd, init, conv, pend>>
    BY DEF NameArrives, groups, outbox, starts
  <1>2. KeepsPeople /\ KeepsRows /\ KeepsKeys
    BY <1>1, SamePeople
  <1>3. CASE UNCHANGED tasks
    BY <1>1, <1>3, AddingGentle DEF KeepsHands
  <1>4. ASSUME NEW t \in tasks[u], NEW where,
               \/ t.pc = "query" /\ where = "join"
               \/ t.pc = "pubkey" /\ where = "identified",
               Move(u, t, {At(t, where)})
        PROVE  Gentle
    <2>1. PICK v : v = At(t, where)
      OBVIOUS
    <2>2. HandOK(u, v)' /\ v \in Tasks
      BY <1>2, <1>4, <2>1, AtHand DEF Places
    <2>3. \A i \in Ids : ~Takes(t, i)
      BY <1>4, TakersPlaces
    <2> QED
      BY <1>1, <1>2, <1>4, <2>1, <2>2, <2>3, MoveGentle DEF Established
  <1> QED
    BY <1>3, <1>4 DEF NameArrives

LEMMA NameAbandonGentle ==
    ASSUME Inv, NEW u \in Users, NEW t \in tasks[u], NameAbandon(u, t)
    PROVE  Gentle
  <1>1. UNCHANGED <<contact, request, row, cmd, init, conv, pend>> /\ Move(u, t, {})
        /\ t.pc \in {"query", "pubkey"}
    BY DEF NameAbandon, people, groups, outbox, starts
  <1>2. KeepsPeople /\ KeepsRows /\ KeepsKeys
    BY <1>1, SamePeople
  <1>3. \A i \in Ids : ~Takes(t, i)
    BY <1>1, TakersPlaces
  <1> QED
    BY <1>1, <1>2, <1>3, MoveGentle DEF Established

\* The peer's key comes with the key package.
LEMMA AnswersGentle ==
    ASSUME Inv, Hands, NEW u \in Users, Answers(u)
    PROVE  Gentle
  <1>1. CASE ChallengeArrives(u)
    <2>1. UNCHANGED <<contact, request, row, cmd, conv, pend, tasks>>
          /\ \E i : init' = [init EXCEPT ![i] = "pow"]
      BY <1>1 DEF ChallengeArrives, people, groups, outbox
    <2>2. KeepsKeys /\ KeepsRows
      BY <2>1 DEF KeepsKeys, KeepsRows, Inv, TypeOK
    <2> QED
      BY <2>1, <2>2, GentleCommand DEF Known
  <1>2. CASE KeyPackageArrives(u)
    <2>1. PICK i \in Ids : i = waiter[u]["kp"]
      BY <1>2 DEF KeyPackageArrives, Inv, TypeOK
    <2>2. Author[i] = u
      BY <1>2, <2>1 DEF KeyPackageArrives, Inv, Waiters
    <2>3. UNCHANGED <<request, row, cmd, conv, pend, tasks>>
          /\ init' = [init EXCEPT ![i] = "group"] /\ contact' = [contact EXCEPT ![u] = "known"]
      BY <1>2, <2>1 DEF KeyPackageArrives, BundleVerified, groups, outbox
    <2>4. (\A w \in Users : Known(w) => Known(w)') /\ Known(u)'
      BY <2>3 DEF Inv, TypeOK, Known
    <2>5. KeepsKeys /\ KeepsRows
      BY <2>2, <2>3, <2>4 DEF KeepsKeys, KeepsRows, Inv, TypeOK
    <2> QED
      BY <2>3, <2>4, <2>5, GentleCommand
  <1> QED
    BY <1>1, <1>2, NameArrivesGentle DEF Answers

LEMMA ChoicesGentle ==
    ASSUME Inv, Hands, Calm, Calm', NEW u \in Users, Choices(u) \/ QueryAbandon(u)
    PROVE  Gentle
  <1>1. Accept(u) \/ Deny(u) \/ QueryAbandon(u)
    BY NoFaults DEF Choices, AddContact, RemoveContact, QueryUser
  <1>2. CASE Accept(u)
    <2>1. UNCHANGED <<contact, request, row, cmd, init, conv, pend>>
        /\ request[u].status = "pending"
      BY <1>2 DEF Accept, groups, outbox, starts
    <2>2. PICK n : n = request[u].w
      OBVIOUS
    <2>3. PICK where \in {"join", "query"} : Move(u, n, {Task("user", n, n.grp, where)})
      BY <1>2, <2>2 DEF Accept
    <2>4. n \in Messages /\ n.grp \in Ids \cup {NoGroup}
      BY <2>2 DEF Inv, TypeOK, Messages
    <2>5. PICK v : v = Task("user", n, n.grp, where)
      OBVIOUS
    <2>6. v \in Tasks /\ v.by = "user"
      BY <2>4, <2>5, NewTask DEF Places
    <2>7. HandOK(u, v)'
      BY <2>1, <2>6 DEF HandOK
    <2>8. KeepsPeople /\ KeepsRows /\ KeepsKeys
      BY <2>1, SamePeople
    <2>9. \A i \in Ids : n \in tasks[u] /\ Takes(n, i) => \E x \in {v} : Takes(x, i)
      <3>1. n \notin tasks[u]
        <4>1. \A t \in Tasks : "pc" \in DOMAIN t
          BY DEF Tasks
        <4>2. "pc" \notin DOMAIN n
          BY <2>4 DEF Messages
        <4>3. tasks[u] \subseteq Tasks
          BY DEF Inv, TypeOK
        <4> QED
          BY <4>1, <4>2, <4>3
      <3> QED
        BY <3>1
    <2> QED
      BY <2>1, <2>3, <2>5, <2>6, <2>7, <2>8, <2>9, MoveGentle DEF Established
  <1>3. CASE Deny(u)
    <2>1. UNCHANGED <<contact, row, cmd, init, conv, pend, tasks>>
          /\ request' = [request EXCEPT ![u].status = "denied"]
      BY <1>3 DEF Deny, groups, outbox, starts, waits
    <2>2. \A w \in Users : request'[w].status = IF w = u THEN "denied" ELSE request[w].status
      <3>1. TypeOK /\ "denied" \in Statuses
        BY DEF Inv, Statuses
      <3> QED
        BY <2>1, <3>1, RequestSet
    <2> QED
      BY <2>1, <2>2, AddingGentle DEF KeepsHands
  <1>4. CASE QueryAbandon(u)
    <2>1. UNCHANGED <<contact, request, row, cmd, init, conv, pend, tasks>>
      BY <1>4 DEF QueryAbandon, people, groups, outbox, starts
    <2> QED
      BY <2>1, AddingGentle DEF KeepsHands
  <1> QED
    BY <1>1, <1>2, <1>3, <1>4

-----------------------------------------------------------------------------

\* Once a command has stored its row it does not become idle again.
LEMMA StoredStep ==
    ASSUME Inv, Stored, [Next]_vars
    PROVE  Stored'
  <1>1. (\A i \in Ids : row'[i] = "pending" => row[i] = "pending" /\ cmd'[i] = cmd[i]) => Stored'
    BY DEF Stored
  <1>2. ASSUME NEW i \in Ids, SendMessage(i) \/ InitiateConversation(i)
        PROVE  Stored'
    BY <1>2 DEF Stored, Inv, TypeOK, SendMessage, InitiateConversation, NextCommand, outbox
  <1>3. ASSUME NEW i \in Ids, Command(i)
        PROVE  Stored'
    <2>1. \E c \in {"done", "unknown", "direct", "mark"} : cmd' = [cmd EXCEPT ![i] = c]
      BY <1>3 DEF Command, CheckConversation, CheckHandshake, DirectSend, DirectMark
    <2>2. row' = row \/ \E s \in {"failed", "sent"} : row' = [row EXCEPT ![i] = s]
      BY <1>3 DEF Command, CheckConversation, CheckHandshake, DirectSend, DirectMark
    <2> QED
      BY <2>1, <2>2 DEF Stored, Inv, TypeOK
  <1>4. ASSUME NEW u \in Users, NEW t \in tasks[u], DrainMark(u, t)
        PROVE  Stored'
    <2>1. UNCHANGED cmd /\ row' = [row EXCEPT ![Least(t.left)] = "sent"]
      BY <1>4 DEF DrainMark
    <2> QED
      BY <2>1 DEF Stored, Inv, TypeOK
  <1>5. ASSUME NEW u \in Users, Restart(u)
        PROVE  Stored'
    BY <1>5 DEF Restart, Stored
  <1>6. CASE UNCHANGED <<row, cmd>>
    BY <1>6 DEF Stored
  <1>7. ASSUME NEW i \in Ids, Background(i) PROVE UNCHANGED <<row, cmd>>
    BY <1>7 DEF Background, AskChallenge, AskKeyPackage, AskFor, Abandon, CompleteHandshake,
                SendWelcome, outbox
  <1>8. ASSUME NEW u \in Users, Answers(u) \/ Choices(u) \/ QueryAbandon(u)
        PROVE  UNCHANGED <<row, cmd>>
    BY <1>8 DEF Answers, ChallengeArrives, KeyPackageArrives, NameArrives, Choices, Accept, Deny,
                AddContact, RemoveContact, QueryUser, QueryAbandon, outbox
  <1>9. ASSUME NEW u \in Users, NEW t \in tasks[u], Handler(u, t), ~DrainMark(u, t)
        PROVE  UNCHANGED <<row, cmd>>
    BY <1>9 DEF Handler, Join, MapGroup, Unpend, SaveContact, SendWelcomeAck, MarkAccepted,
                DrainSelect, DrainSend, Identified, NameAbandon, outbox
  <1>10. ASSUME NEW n \in net, Receive(n) \/ Lose(n) PROVE UNCHANGED <<row, cmd>>
    BY <1>10 DEF Receive, Lose, outbox
  <1>11. CASE UNCHANGED vars
    BY <1>6, <1>11 DEF vars, outbox
  <1> QED
    BY <1>2, <1>3, <1>4, <1>5, <1>6, <1>7, <1>8, <1>9, <1>10, <1>11 DEF Next

LEMMA RestedStep ==
    ASSUME Inv, Rested, [Next]_vars
    PROVE  Rested'
  <1> SUFFICES ASSUME Calm' PROVE Keyed' /\ Hands' /\ Waited'
    BY StoredStep DEF Rested
  <1>1. Calm
    BY CalmBefore DEF Inv
  <1>2. Stored /\ Keyed /\ Hands /\ Waited
    BY <1>1 DEF Rested
  <1>3. CASE UNCHANGED vars
    BY <1>2, <1>3 DEF vars, people, groups, outbox, starts, Keyed, Hands, HandOK, Waited, Taken,
                      Known, Established, Takes, TakesAll
  <1>4. Next => Gentle
    <2>1. ASSUME NEW i \in Ids,
                 SendMessage(i) \/ InitiateConversation(i) \/ Command(i) \/ Background(i)
          PROVE  Gentle
      BY <1>1, <1>2, <2>1, CommandsGentle
    <2>2. ASSUME NEW u \in Users, Answers(u) \/ Choices(u) \/ QueryAbandon(u)
          PROVE  Gentle
      BY <1>1, <1>2, <2>2, AnswersGentle, ChoicesGentle
    <2>3. ASSUME NEW u \in Users, Restart(u) PROVE Gentle
      BY <1>1, <2>3, NoFaults DEF Restart
    <2>4. ASSUME NEW u \in Users, NEW t \in tasks[u], Handler(u, t) PROVE Gentle
      BY <1>1, <1>2, <2>4, JoinGentle, MapGroupGentle, UnpendGentle, SaveContactGentle,
         SendWelcomeAckGentle, MarkAcceptedGentle, DrainSelectGentle, DrainSendGentle,
         DrainMarkGentle, IdentifiedGentle, NameAbandonGentle DEF Handler
    <2>5. ASSUME NEW n \in net, Receive(n) PROVE Gentle
      BY <1>2, <2>5, ReceiveGentle
    <2>6. ASSUME NEW n \in net, Lose(n) PROVE Gentle
      BY <1>1, <2>6, NoFaults DEF Lose
    <2> QED
      BY <2>1, <2>2, <2>3, <2>4, <2>5, <2>6 DEF Next
  <1> QED
    BY <1>2, <1>3, <1>4, GentleKeeps

\* When all is done and nothing has failed, no message waits for a conversation
\* that is there, unless it was made by accepting a request: whichever handler
\* maps a conversation goes on to drain_pending_messages with the peer's key at
\* hand, and a command that finds no conversation has stored its row before
\* (commands/messaging.rs, tasks/message_loop.rs).
THEOREM DmNoneStranded == Spec => []NoneStranded
  <1>1. Init => Rested
    BY DEF Init, Rested, Stored, Keyed, Hands, Waited, Established
  <1>2. Inv /\ Rested /\ [Next]_vars => Rested'
    BY RestedStep
  <1>3. Inv /\ Rested => NoneStranded
    <2> SUFFICES ASSUME Inv, Rested, Quiet, Calm, NEW i \in Ids, row[i] = "pending",
                        Established(Author[i]), request[Author[i]].status = "none"
                 PROVE  FALSE
      BY DEF NoneStranded, Calm
    <2>1. Author[i] \in Users
      BY AuthorAssumption
    <2>2. ~Working(Author[i])
      BY <2>1 DEF Quiet, Busy
    <2>3. tasks[Author[i]] = {} /\ cmd[i] \in {"idle", "done"}
      BY <2>2 DEF Working
    <2>4. cmd[i] = "done"
      BY <2>3 DEF Rested, Stored
    <2>5. Taken(i)
      BY <2>4 DEF Rested, Waited
    <2> QED
      BY <2>3, <2>5 DEF Taken
  <1> QED
    BY <1>1, <1>2, <1>3, DmInvariance, PTL DEF Spec
=============================================================================
