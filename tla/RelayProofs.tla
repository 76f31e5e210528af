---------------------------- MODULE RelayProofs ----------------------------
(* Theorems about the relay, for every value of its constants. *)
EXTENDS Relay, TLAPS

USE OwnerAssumption, NoTagAssumption, NoUserAssumption, NoMsgAssumption,
    NoIdAssumption, BoundsAssumption

-----------------------------------------------------------------------------
(* Types *)

LEMMA SurbTypes ==
  ASSUME NEW s \in [Tags -> 0 .. MaxSurbs], NEW t \in Tags, NEW n \in Nat
  PROVE  /\ Used(s, t) \in [Tags -> 0 .. MaxSurbs]
         /\ Brought(s, t, n) \in [Tags -> 0 .. MaxSurbs]
BY DEF Used, Brought

LEMMA RequestType ==
  ASSUME TypeOK, NEW t \in Tags
  PROVE  /\ Request(t) \in [Tags -> 0 .. MaxSurbs]
         /\ Used(Request(t), t) \in [Tags -> 0 .. MaxSurbs]
         /\ Used(surbs, t) \in [Tags -> 0 .. MaxSurbs]
         /\ Brought(surbs, t, PerPing) \in [Tags -> 0 .. MaxSurbs]
BY SurbTypes DEF TypeOK, Request

LEMMA SendType ==
  ASSUME TypeOK, NEW i \in Ids, NEW t \in Tags, NEW type \in Types,
         NEW via \in {"live", "drain"}, NEW s \in [Tags -> 0 .. MaxSurbs],
         Send(i, t, type, via, s)
  PROVE  /\ sent' \subseteq Envelope
         /\ emits' \in [Ids -> Nat]
         /\ surbs' \in [Tags -> 0 .. MaxSurbs]
         /\ failed' \subseteq Ids
         /\ faults' \in 0 .. MaxFaults
<1>1. [id |-> i, tag |-> t, type |-> type, via |-> via] \in Envelope
  BY DEF Envelope
<1>2. Used(s, t) \in [Tags -> 0 .. MaxSurbs]
  BY SurbTypes
<1> QED
  BY <1>1, <1>2 DEF TypeOK, Send, Fault, NoFault

LEMMA RelayType ==
  ASSUME TypeOK, NEW i \in Ids, NEW u \in Users, NEW kind \in Kinds,
         NEW s \in [Tags -> 0 .. MaxSurbs], RelayOrStore(i, u, kind, s)
  PROVE  /\ sent' \subseteq Envelope
         /\ emits' \in [Ids -> Nat]
         /\ surbs' \in [Tags -> 0 .. MaxSurbs]
         /\ failed' \subseteq Ids
         /\ faults' \in 0 .. MaxFaults
         /\ pending' \subseteq Row
<1>1. CASE Reachable(s, u) /\ Send(i, userTag[u], LiveType(kind), "live", s)
           /\ UNCHANGED pending
  <2>1. userTag[u] \in Tags
    BY <1>1 DEF Reachable, Registered, TypeOK
  <2>2. LiveType(kind) \in Types
    BY DEF LiveType, Types, Kinds
  <2>3. pending' \subseteq Row
    BY <1>1 DEF TypeOK
  <2> QED
    BY <1>1, <2>1, <2>2, <2>3, SendType
<1>2. CASE (Fault \/ NoFault) /\ Store(i, u, s)
  <2>1. NewRow(i, u) \in Row
    BY DEF NewRow, Row, TypeOK
  <2> QED
    BY <1>2, <2>1 DEF Store, TypeOK, Fault, NoFault
<1> QED
  BY <1>1, <1>2 DEF RelayOrStore

LEMMA SetTagType ==
  ASSUME TypeOK, NEW u \in Users, NEW t \in Tags, SetTag(u, t)
  PROVE  /\ userTag' \in [Users -> Tags \cup {NoTag}]
         /\ faults' \in 0 .. MaxFaults
BY DEF SetTag, TypeOK, Fault, NoFault

LEMMA TypeInit == Init => TypeOK
BY DEF Init, TypeOK

LEMMA TypeStep == TypeOK /\ Serving /\ [Next]_vars => TypeOK'
<1> SUFFICES ASSUME TypeOK, Serving, [Next]_vars PROVE TypeOK'
  OBVIOUS
<1> USE DEF handler, db, history, Return
<1>1. ASSUME NEW u \in Users, NEW t \in Tags, Register(u, t) PROVE TypeOK'
  BY <1>1, RequestType DEF Register, TypeOK
<1>2. ASSUME NEW u \in Users, NEW t \in Tags, Login(u, t) PROVE TypeOK'
  BY <1>2, RequestType, SetTagType DEF Login, TypeOK
<1>3. ASSUME NEW u \in Users, NEW t \in Tags, Ping(u, t) PROVE TypeOK'
  BY <1>3, RequestType, SetTagType DEF Ping, TypeOK
<1>4. ASSUME NEW u \in Users, NEW t \in Tags, FetchPending(u, t) PROVE TypeOK'
  <2>1. {r.id : r \in PendingOf(u)} \subseteq Ids
    BY DEF PendingOf, TypeOK, Row
  <2> QED
    BY <1>4, <2>1, RequestType DEF FetchPending, TypeOK
<1>5. ASSUME NEW u \in Users, NEW t \in Tags, NEW ids \in SUBSET listed,
             Ack(u, t, ids)
      PROVE  TypeOK'
  BY <1>5, RequestType DEF Ack, TypeOK, Without, Fault, NoFault
<1>6. ASSUME NEW i \in Ids, NEW t \in Tags, NEW u \in Users, SendUnified(i, t, u)
      PROVE  TypeOK'
  <2>1. "send" \in Kinds
    BY DEF Kinds
  <2> QED
    BY <1>6, <2>1, RequestType, RelayType
       DEF SendUnified, Answerable, TypeOK, Message, Kinds
<1>7. ASSUME NEW i \in Ids, NEW t \in Tags, NEW u \in Users, SealedSend(i, t, u)
      PROVE  TypeOK'
  <2>1. "sealed" \in Kinds
    BY DEF Kinds
  <2> QED
    BY <1>7, <2>1, RequestType, RelayType
       DEF SealedSend, Answerable, TypeOK, Message, Kinds
<1>8. ASSUME NEW i \in Ids, NEW t \in Tags, NEW u \in Users, RelayControl(i, t, u)
      PROVE  TypeOK'
  <2>1. "control" \in Kinds
    BY DEF Kinds
  <2> QED
    BY <1>8, <2>1, RequestType, RelayType
       DEF RelayControl, TypeOK, Message, Kinds
<1>9. ASSUME NEW i \in Ids, NEW t \in Tags, NEW u \in Users, QueueNotice(i, t, u)
      PROVE  TypeOK'
  <2>1. NewRow(i, u) \in Row
    BY DEF NewRow, Row, TypeOK
  <2> QED
    BY <1>9, <2>1, RequestType DEF QueueNotice, TypeOK, Message, Kinds
<1>19. ASSUME NEW t \in Tags, NEW u \in Users, LegacySend(t, u) PROVE TypeOK'
  BY <1>19, RequestType, SetTagType DEF LegacySend, TypeOK
<1>10. ASSUME NEW i \in Ids, LegacyRoute(i) PROVE TypeOK'
  <2>1. userTag[user] \in Tags /\ user \in Users /\ peer \in Tags
    BY <1>10 DEF LegacyRoute, TypeOK, Registered, Serving
  <2>2. LiveType("chat") \in Types
    BY DEF LiveType, Types
  <2>3. surbs \in [Tags -> 0 .. MaxSurbs]
    BY DEF TypeOK
  <2> QED
    BY <1>10, <2>1, <2>2, <2>3, SendType
       DEF LegacyRoute, Answerable, TypeOK, Message, Kinds
<1>20. CASE LegacyRefused
  <2>1. peer \in Tags
    BY <1>20 DEF LegacyRefused, Serving
  <2> QED
    BY <1>20, <2>1, RequestType DEF LegacyRefused, TypeOK, Fault, NoFault
<1>11. CASE Pong
  <2>1. PendingOf(user) \subseteq Row
    BY DEF PendingOf, TypeOK
  <2>2. surbs' \in [Tags -> 0 .. MaxSurbs]
    BY <1>11, RequestType DEF Pong, TypeOK, Used
  <2> QED
    BY <1>11, <2>1, <2>2 DEF Pong, TypeOK, Fault, NoFault
<1>12. CASE DrainSend
  <2>1. PICK r \in batch :
            /\ Send(r.id, peer, DrainType(msg[r.id].kind), "drain", surbs)
            /\ batch' = batch \ {r}
            /\ delivered' = delivered \cup {r.id}
    BY <1>12 DEF DrainSend
  <2>2. r.id \in Ids /\ peer \in Tags
    BY <1>12 DEF DrainSend, TypeOK, Row, Serving
  <2>3. DrainType(msg[r.id].kind) \in Types
    BY DEF DrainType, Types
  <2>4. surbs \in [Tags -> 0 .. MaxSurbs]
    BY DEF TypeOK
  <2>5. /\ sent' \subseteq Envelope
        /\ emits' \in [Ids -> Nat]
        /\ surbs' \in [Tags -> 0 .. MaxSurbs]
        /\ failed' \subseteq Ids
        /\ faults' \in 0 .. MaxFaults
    BY <2>1, <2>2, <2>3, <2>4, SendType
  <2> QED
    BY <1>12, <2>1, <2>2, <2>5 DEF DrainSend, TypeOK
<1>13. CASE DrainDelete
  BY <1>13 DEF DrainDelete, TypeOK, Without, Fault, NoFault
<1>14. CASE Answer
  <2>1. peer \in Tags /\ job \in Ids
    BY <1>14 DEF Answer, Serving
  <2> QED
    BY <1>14, <2>1, RequestType DEF Answer, TypeOK
<1>15. ASSUME NEW t \in Tags, OtherRequest(t) PROVE TypeOK'
  BY <1>15, RequestType DEF OtherRequest, TypeOK
<1>16. CASE Tick
  BY <1>16 DEF Tick, TypeOK
<1>17. CASE Crash
  BY <1>17 DEF Crash, TypeOK, Fault
<1>18. CASE UNCHANGED vars
  BY <1>18 DEF vars, TypeOK
<1> QED
  BY <1>1, <1>2, <1>3, <1>4, <1>5, <1>6, <1>7, <1>8, <1>9, <1>10, <1>11,
     <1>12, <1>13, <1>14, <1>15, <1>16, <1>17, <1>18, <1>19, <1>20
     DEF Next

-----------------------------------------------------------------------------
(* The inductive invariant *)

Sound == /\ Serving
         /\ FreshUntouched
         /\ RowsSound
         /\ DrainSound
         /\ AnswerSound
         /\ EmitsBounded
         /\ Accounted
         /\ DeliveredToOwner

LEMMA InvInit == Init => Inv
<1> SUFFICES ASSUME Init PROVE Inv
  OBVIOUS
<1>1. TypeOK
  BY TypeInit
<1>2. RowIds = {}
  BY DEF Init, RowIds
<1>3. TagsOwned /\ Serving
  BY DEF Init, TagsOwned, Registered, Serving
<1>4. FreshUntouched /\ Accounted /\ DeliveredToOwner
  BY <1>2 DEF Init, FreshUntouched, Accounted, DeliveredToOwner
<1>5. RowsSound /\ DrainSound /\ AnswerSound
  BY <1>2 DEF Init, RowsSound, DrainSound, AnswerSound
<1>6. EmitsBounded
  BY <1>2 DEF Init, EmitsBounded, Owed
<1> QED
  BY <1>1, <1>3, <1>4, <1>5, <1>6 DEF Inv

\* The senderTag column is only written by a handler that verified a signature
\* of the user whose row it is, from the session it stores.
LEMMA TagsStep == TypeOK /\ TagsOwned /\ [Next]_vars => TagsOwned'
<1> SUFFICES ASSUME TypeOK, TagsOwned, [Next]_vars PROVE TagsOwned'
  OBVIOUS
<1> USE DEF TagsOwned, Registered, db
<1>1. ASSUME NEW u \in Users, NEW t \in Tags, Owner[t] = u,
             userTag' = [userTag EXCEPT ![u] = t]
      PROVE  TagsOwned'
  BY <1>1 DEF TypeOK
<1>2. ASSUME UNCHANGED userTag PROVE TagsOwned'
  BY <1>2
<1>3. ASSUME NEW u \in Users, NEW t \in Tags, Register(u, t) PROVE TagsOwned'
  BY <1>1, <1>3 DEF Register
<1>4. ASSUME NEW u \in Users, NEW t \in Tags, Login(u, t) \/ Ping(u, t)
      PROVE  TagsOwned'
  BY <1>1, <1>2, <1>4 DEF Login, Ping, SetTag, Authentic
<1>5. ASSUME NEW t \in Tags, NEW u \in Users, LegacySend(t, u)
      PROVE  TagsOwned'
  <2>1. Owner[t] \in Users
    OBVIOUS
  <2> QED
    BY <1>1, <1>2, <1>5, <2>1 DEF LegacySend, SetTag
<1>6. ASSUME NEW u \in Users, NEW t \in Tags,
             \/ FetchPending(u, t)
             \/ \E ids \in SUBSET listed : Ack(u, t, ids)
      PROVE  TagsOwned'
  BY <1>2, <1>6 DEF FetchPending, Ack
<1>7. ASSUME NEW i \in Ids, NEW t \in Tags, NEW u \in Users,
             \/ SendUnified(i, t, u)
             \/ SealedSend(i, t, u)
             \/ RelayControl(i, t, u)
             \/ QueueNotice(i, t, u)
      PROVE  TagsOwned'
  BY <1>2, <1>7 DEF SendUnified, SealedSend, RelayControl, QueueNotice
<1>8. ASSUME \/ Pong \/ DrainSend \/ DrainDelete \/ Answer \/ Tick \/ Crash
             \/ LegacyRefused
             \/ \E i \in Ids : LegacyRoute(i)
             \/ \E t \in Tags : OtherRequest(t)
             \/ UNCHANGED vars
      PROVE  TagsOwned'
  BY <1>2, <1>8 DEF Pong, DrainSend, DrainDelete, Answer, Tick, Crash,
                    OtherRequest, LegacyRefused, LegacyRoute, vars
<1> QED
  BY <1>3, <1>4, <1>5, <1>6, <1>7, <1>8 DEF Next

\* A step that touches neither messages nor the running handler.
LEMMA QuietStep ==
  ASSUME TypeOK, TypeOK', Sound, faults' >= faults, now' >= now,
         UNCHANGED <<pending, handler, msg, sent, emits, failed, accepted, acked>>
  PROVE  Sound'
<1> USE DEF handler, TypeOK
<1>1. RowIds' = RowIds
  BY DEF RowIds
<1>2. Serving' /\ AnswerSound' /\ Accounted' /\ DeliveredToOwner'
  BY <1>1 DEF Sound, Serving, AnswerSound, Accounted, DeliveredToOwner
<1>3. FreshUntouched' /\ RowsSound'
  BY <1>1 DEF Sound, FreshUntouched, Fresh, RowsSound
<1>4. DrainSound'
  <2>1. ASSUME NEW r \in Row, r.at + TTL <= now PROVE r.at + TTL <= now'
    BY <2>1 DEF Row
  <2> QED
    BY <2>1 DEF Sound, DrainSound
<1>5. EmitsBounded'
  <2>1. ASSUME NEW i \in Ids PROVE Owed(i)' = Owed(i) /\ Owed(i) \in 0 .. 1
    BY <1>1 DEF Owed
  <2> QED
    BY <2>1 DEF Sound, EmitsBounded
<1> QED
  BY <1>2, <1>3, <1>4, <1>5 DEF Sound

\* The handler of a new message, after its relay step: it returns, or it still
\* has to answer.
Taken(i, u) ==
    /\ Fresh(i)
    /\ phase \in {"idle", "route"}
    /\ \E kind \in Kinds : msg' = [msg EXCEPT ![i] = [to |-> u, kind |-> kind]]
    /\ \/ UNCHANGED <<phase, peer, job>>
       \/ phase' = "answer" /\ peer' \in Tags /\ job' = i
    /\ UNCHANGED <<user, batch, delivered, now, accepted, acked>>

LEMMA TakenMsg ==
  ASSUME TypeOK, NEW i \in Ids, NEW u \in Users, Taken(i, u)
  PROVE  /\ msg'[i] # NoMsg
         /\ msg'[i].to = u
         /\ \A j \in Ids \ {i} : msg'[j] = msg[j]
BY DEF Taken, TypeOK, Message, Kinds

\* A message that is handed to a session of its recipient.
LEMMA LiveStep ==
  ASSUME TypeOK, TypeOK', Sound, NEW i \in Ids, NEW u \in Users, Taken(i, u),
         NEW t \in Tags, Owner[t] = u, NEW type, NEW s,
         Send(i, t, type, "live", s), UNCHANGED pending
  PROVE  Sound'
<1> USE DEF TypeOK
<1>1. RowIds' = RowIds /\ RowIds \subseteq Ids
  BY DEF RowIds, Row
<1>2. /\ i \notin RowIds \cup failed \cup acked \cup accepted
      /\ emits[i] = 0
      /\ \A e \in sent : e.id # i
  BY DEF Taken, Sound, FreshUntouched
<1>3. /\ emits'[i] > 0 \/ i \in failed'
      /\ emits'[i] <= 1
      /\ \A j \in Ids \ {i} : emits'[j] = emits[j] /\ (j \in failed' <=> j \in failed)
      /\ failed \subseteq failed'
      /\ faults' >= faults
  BY <1>2 DEF Send, Fault, NoFault
<1>4. ASSUME NEW e \in sent', e \notin sent PROVE e.id = i /\ e.tag = t
  <2>1. e = [id |-> i, tag |-> t, type |-> type, via |-> "live"]
    BY <1>4 DEF Send
  <2> QED
    BY <2>1
<1>5. Serving' /\ AnswerSound'
  BY <1>3 DEF Sound, Serving, AnswerSound, Taken
<1>6. FreshUntouched'
  <2> SUFFICES ASSUME NEW j \in Ids, Fresh(j)'
               PROVE  /\ j \notin RowIds' \cup failed' \cup acked' \cup accepted'
                      /\ emits'[j] = 0
                      /\ \A e \in sent' : e.id # j
    BY DEF FreshUntouched
  <2>1. j # i /\ Fresh(j)
    BY TakenMsg DEF Fresh
  <2> QED
    BY <1>1, <1>3, <1>4, <2>1 DEF Sound, FreshUntouched, Taken
<1>7. RowsSound'
  <2>1. \A r \in pending : r.id # i /\ r.id \in Ids
    BY <1>2 DEF RowIds, Row
  <2> QED
    BY <1>1, <2>1, TakenMsg DEF Sound, RowsSound, Taken
<1>8. DrainSound'
  BY <1>3 DEF Sound, DrainSound, Taken
<1>9. EmitsBounded'
  <2> SUFFICES ASSUME NEW j \in Ids PROVE (emits[j] + Owed(j) <= 1 + faults)'
    BY DEF EmitsBounded
  <2>1. CASE j = i
    BY <1>1, <1>2, <1>3, <2>1 DEF Owed
  <2>2. CASE j # i
    <3>1. Owed(j)' = Owed(j) /\ Owed(j) \in 0 .. 1 /\ emits'[j] = emits[j]
      BY <1>1, <1>3, <2>2 DEF Owed, Taken
    <3> QED
      BY <1>3, <3>1 DEF Sound, EmitsBounded
  <2> QED
    BY <2>1, <2>2
<1>10. Accounted'
  BY <1>1, <1>2, <1>3 DEF Sound, Accounted, Taken
<1>11. DeliveredToOwner'
  <2> SUFFICES ASSUME NEW e \in sent' PROVE Owner[e.tag] = msg'[e.id].to
    BY DEF DeliveredToOwner
  <2>1. CASE e \in sent
    <3>1. e.id \in Ids \ {i}
      BY <1>2, <2>1 DEF Envelope
    <3> QED
      BY <2>1, <3>1, TakenMsg DEF Sound, DeliveredToOwner
  <2>2. CASE e \notin sent
    BY <1>4, <2>2, TakenMsg
  <2> QED
    BY <2>1, <2>2
<1> QED
  BY <1>5, <1>6, <1>7, <1>8, <1>9, <1>10, <1>11 DEF Sound

\* A message that is stored.
LEMMA StoreStep ==
  ASSUME TypeOK, TypeOK', Sound, NEW i \in Ids, NEW u \in Users, Taken(i, u),
         pending' = pending \cup {NewRow(i, u)},
         UNCHANGED <<sent, emits, failed>>, faults' \in {faults, faults + 1}
  PROVE  Sound'
<1> USE DEF TypeOK
<1>1. RowIds' = RowIds \cup {i} /\ RowIds \subseteq Ids
  <2>1. NewRow(i, u).id = i
    BY DEF NewRow
  <2>2. RowIds' = {r.id : r \in pending'}
    BY DEF RowIds
  <2>3. \A r \in pending' : r \in pending \/ r = NewRow(i, u)
    OBVIOUS
  <2>4. RowIds' \subseteq RowIds \cup {i}
    BY <2>1, <2>2, <2>3 DEF RowIds
  <2>5. RowIds \cup {i} \subseteq RowIds'
    BY <2>1, <2>2 DEF RowIds
  <2>6. RowIds \subseteq Ids
    BY DEF RowIds, Row
  <2> QED
    BY <2>4, <2>5, <2>6
<1>2. /\ i \notin RowIds \cup failed \cup acked \cup accepted
      /\ emits[i] = 0
      /\ \A e \in sent : e.id # i
  BY DEF Taken, Sound, FreshUntouched
<1>3. Serving' /\ AnswerSound'
  BY <1>1 DEF Sound, Serving, AnswerSound, Taken
<1>4. FreshUntouched'
  <2> SUFFICES ASSUME NEW j \in Ids, Fresh(j)'
               PROVE  /\ j \notin RowIds' \cup failed' \cup acked' \cup accepted'
                      /\ emits'[j] = 0
                      /\ \A e \in sent' : e.id # j
    BY DEF FreshUntouched
  <2>1. j # i /\ Fresh(j)
    BY TakenMsg DEF Fresh
  <2> QED
    BY <1>1, <2>1 DEF Sound, FreshUntouched, Taken
<1>5. RowsSound'
  <2>1. \A r \in pending : r.id # i /\ r.id \in Ids
    BY <1>2 DEF RowIds, Row
  <2>2. \A r \in pending' : r \in pending \/ r = NewRow(i, u)
    OBVIOUS
  <2>3. NewRow(i, u).id = i /\ NewRow(i, u).to = u
    BY DEF NewRow
  <2>4. \A r \in pending' : msg'[r.id] # NoMsg /\ msg'[r.id].to = r.to
    BY <2>1, <2>2, <2>3, TakenMsg DEF Sound, RowsSound
  <2>5. \A r, q \in pending' : r.id = q.id => r = q
    BY <2>1, <2>2, <2>3 DEF Sound, RowsSound
  <2>6. acked' \cap RowIds' = {}
    BY <1>1, <1>2 DEF Sound, RowsSound, Taken
  <2> QED
    BY <2>4, <2>5, <2>6 DEF RowsSound
<1>6. DrainSound'
  BY DEF Sound, DrainSound, Taken
<1>7. EmitsBounded'
  <2> SUFFICES ASSUME NEW j \in Ids PROVE (emits[j] + Owed(j) <= 1 + faults)'
    BY DEF EmitsBounded
  <2>1. faults \in Nat /\ faults' >= faults
    OBVIOUS
  <2>2. CASE j = i
    <3>1. Owed(j)' \in 0 .. 1 /\ emits'[j] = 0
      BY <1>2, <2>2 DEF Owed
    <3> QED
      BY <2>1, <3>1
  <2>3. CASE j # i
    <3>1. Owed(j)' = Owed(j) /\ Owed(j) \in 0 .. 1 /\ emits'[j] = emits[j]
      BY <1>1, <2>3 DEF Owed, Taken
    <3> QED
      BY <2>1, <3>1 DEF Sound, EmitsBounded
  <2> QED
    BY <2>2, <2>3
<1>8. Accounted'
  BY <1>1, <1>2 DEF Sound, Accounted, Taken
<1>9. DeliveredToOwner'
  <2>1. \A e \in sent : e.id \in Ids \ {i}
    BY <1>2 DEF Envelope
  <2> QED
    BY <2>1, TakenMsg DEF Sound, DeliveredToOwner
<1> QED
  BY <1>3, <1>4, <1>5, <1>6, <1>7, <1>8, <1>9 DEF Sound

LEMMA PingStep ==
  ASSUME TypeOK, TypeOK', Sound, NEW u \in Users, NEW t \in Tags,
         Ping(u, t) \/ LegacySend(t, u)
  PROVE  Sound'
<1> USE DEF TypeOK, Ping, LegacySend, history
<1>1. RowIds' = RowIds
  BY DEF RowIds
<1>2. Serving' /\ AnswerSound' /\ Accounted' /\ DeliveredToOwner'
  BY <1>1 DEF Sound, Serving, AnswerSound, Accounted, DeliveredToOwner, Authentic
<1>3. FreshUntouched' /\ RowsSound' /\ DrainSound'
  BY <1>1 DEF Sound, FreshUntouched, Fresh, RowsSound, DrainSound
<1>4. faults' >= faults
  BY DEF SetTag, Fault, NoFault
<1>5. EmitsBounded'
  <2>1. ASSUME NEW i \in Ids PROVE Owed(i)' = Owed(i) /\ Owed(i) \in 0 .. 1
    BY <1>1 DEF Owed
  <2> QED
    BY <1>4, <2>1 DEF Sound, EmitsBounded
<1> QED
  BY <1>2, <1>3, <1>5 DEF Sound

\* A handler that returns, or is cut, when it has nothing left to delete: what
\* a drain sent without deleting it is owed again, which a fault pays for.
LEMMA ReturnStep ==
  ASSUME TypeOK, TypeOK', Sound, Return,
         UNCHANGED <<pending, now, msg, sent, emits, failed, accepted, acked>>,
         faults' >= faults,
         delivered = {} \/ faults' = faults + 1
  PROVE  Sound'
<1> USE DEF TypeOK, Return
<1>1. RowIds' = RowIds
  BY DEF RowIds
<1>2. Serving' /\ AnswerSound' /\ Accounted' /\ DeliveredToOwner'
  BY <1>1 DEF Sound, Serving, AnswerSound, Accounted, DeliveredToOwner
<1>3. FreshUntouched' /\ RowsSound' /\ DrainSound'
  BY <1>1 DEF Sound, FreshUntouched, Fresh, RowsSound, DrainSound
<1>4. EmitsBounded'
  <2>1. ASSUME NEW i \in Ids PROVE (emits[i] + Owed(i) <= 1 + faults)'
    <3>1. Owed(i) \in 0 .. 1 /\ Owed(i)' \in 0 .. 1
      BY DEF Owed
    <3>2. emits[i] + Owed(i) <= 1 + faults /\ emits[i] \in Nat /\ emits'[i] = emits[i]
      BY DEF Sound, EmitsBounded
    <3>3. CASE delivered = {}
      <4>1. Owed(i)' = Owed(i)
        BY <1>1, <3>3 DEF Owed
      <4> QED
        BY <3>1, <3>2, <4>1
    <3>4. CASE faults' = faults + 1
      BY <3>1, <3>2, <3>4
    <3> QED
      BY <3>3, <3>4
  <2> QED
    BY <2>1 DEF EmitsBounded
<1> QED
  BY <1>2, <1>3, <1>4 DEF Sound

LEMMA PongStep ==
  ASSUME TypeOK, TypeOK', Sound, Pong
  PROVE  Sound'
<1> USE DEF TypeOK
<1>1. delivered = {} /\ batch = {} /\ phase = "pong"
  BY DEF Pong, Sound, DrainSound
<1>2. CASE Return
  BY <1>1, <1>2, ReturnStep DEF Pong, db, history, Fault, NoFault
<1>3. CASE batch' = PendingOf(user) /\ phase' = "drain" /\ NoFault
           /\ UNCHANGED <<peer, user, job, delivered>>
  <2> USE <1>3 DEF Pong, db, history
  <2>1. RowIds' = RowIds
    BY DEF RowIds
  <2>2. Serving' /\ AnswerSound' /\ Accounted' /\ DeliveredToOwner'
    BY <1>1, <2>1 DEF Sound, Serving, AnswerSound, Accounted, DeliveredToOwner
  <2>3. FreshUntouched' /\ RowsSound'
    BY <2>1 DEF Sound, FreshUntouched, Fresh, RowsSound
  <2>4. DrainSound'
    <3>1. \A r \in pending : r.to = user /\ ~(r.at + TTL <= now) => r \in PendingOf(user)
      BY DEF PendingOf, Unexpired, Row
    <3>2. \A r \in PendingOf(user) : r \in pending /\ r.to = user
      BY DEF PendingOf
    <3> QED
      BY <1>1, <3>1, <3>2 DEF DrainSound
  <2>5. EmitsBounded'
    <3>1. ASSUME NEW i \in Ids PROVE Owed(i)' = Owed(i)
      BY <2>1 DEF Owed
    <3> QED
      BY <3>1 DEF Sound, EmitsBounded, NoFault
  <2> QED
    BY <2>2, <2>3, <2>4, <2>5 DEF Sound
<1> QED
  BY <1>2, <1>3 DEF Pong

LEMMA DrainSendStep ==
  ASSUME TypeOK, TypeOK', Sound, DrainSend
  PROVE  Sound'
<1> USE DEF TypeOK
<1>1. PICK r \in batch :
          /\ Send(r.id, peer, DrainType(msg[r.id].kind), "drain", surbs)
          /\ batch' = batch \ {r}
          /\ delivered' = delivered \cup {r.id}
  BY DEF DrainSend
<1>2. UNCHANGED <<pending, phase, peer, user, job, now, msg, accepted, acked>>
  BY DEF DrainSend, db
<1>3. RowIds' = RowIds
  BY <1>2 DEF RowIds
<1>4. /\ r \in pending /\ r.id \in Ids /\ r.id \in RowIds
      /\ r.to = user /\ r.id \notin delivered
      /\ msg[r.id] # NoMsg /\ msg[r.id].to = user
  BY DEF Sound, DrainSound, RowsSound, RowIds, Row
<1>5. phase = "drain" /\ Owner[peer] = user
  BY DEF DrainSend, Sound, Serving
<1>6. /\ faults' >= faults
      /\ failed \subseteq failed'
      /\ \A j \in failed' : j \in failed \/ j = r.id
      /\ \A j \in Ids \ {r.id} : emits'[j] = emits[j]
      /\ emits'[r.id] >= emits[r.id]
      /\ emits'[r.id] <= emits[r.id] + 1
      /\ emits'[r.id] > 0 \/ r.id \in failed'
  BY <1>1, <1>4 DEF Send, Fault, NoFault
<1>7. ASSUME NEW e \in sent', e \notin sent PROVE e.id = r.id /\ e.tag = peer
  <2>1. e = [id |-> r.id, tag |-> peer, type |-> DrainType(msg[r.id].kind),
             via |-> "drain"]
    BY <1>1, <1>7 DEF Send
  <2> QED
    BY <2>1
<1>8. \A j \in Ids : emits'[j] >= emits[j]
  BY <1>6
<1>9. Serving' /\ AnswerSound' /\ RowsSound'
  BY <1>2, <1>3, <1>5 DEF Sound, Serving, AnswerSound, RowsSound
<1>10. FreshUntouched'
  BY <1>2, <1>3, <1>4, <1>6, <1>7 DEF Sound, FreshUntouched, Fresh
<1>11. Accounted'
  BY <1>2, <1>3, <1>6, <1>8 DEF Sound, Accounted
<1>12. DeliveredToOwner'
  BY <1>2, <1>4, <1>5, <1>7 DEF Sound, DeliveredToOwner
<1>13. DrainSound'
  <2>1. batch' \subseteq pending'
    BY <1>1, <1>2 DEF Sound, DrainSound
  <2>2. \A q \in batch' : q.to = user' /\ q.id \notin delivered'
    BY <1>1, <1>2, <1>4 DEF Sound, DrainSound, RowsSound
  <2>3. \A i \in delivered' : emits'[i] > 0 \/ i \in failed'
    BY <1>1, <1>6, <1>8 DEF Sound, DrainSound
  <2>4. \A q \in pending' : q.id \in delivered' => q.to = user'
    BY <1>1, <1>2, <1>4 DEF Sound, DrainSound, RowsSound
  <2>5. \A q \in pending' : q.to = user' =>
           q \in batch' \/ q.id \in delivered' \/ q.at + TTL <= now'
    BY <1>1, <1>2, <1>5 DEF Sound, DrainSound
  <2> QED
    BY <1>2, <1>5, <2>1, <2>2, <2>3, <2>4, <2>5 DEF DrainSound
<1>14. EmitsBounded'
  <2> SUFFICES ASSUME NEW j \in Ids PROVE (emits[j] + Owed(j) <= 1 + faults)'
    BY DEF EmitsBounded
  <2>1. emits[j] + Owed(j) <= 1 + faults
    BY DEF Sound, EmitsBounded
  <2>2. CASE j = r.id
    <3>1. Owed(j) = 1 /\ Owed(j)' = 0
      BY <1>1, <1>3, <1>4, <2>2 DEF Owed
    <3> QED
      BY <1>6, <2>1, <2>2, <3>1
  <2>3. CASE j # r.id
    <3>1. Owed(j)' = Owed(j) /\ Owed(j) \in 0 .. 1
      BY <1>1, <1>3, <2>3 DEF Owed
    <3> QED
      BY <1>6, <2>1, <2>3, <3>1
  <2> QED
    BY <2>2, <2>3
<1> QED
  BY <1>9, <1>10, <1>11, <1>12, <1>13, <1>14 DEF Sound

\* The rows a drain has sent are deleted, and its handler returns.
LEMMA DeleteStep ==
  ASSUME TypeOK, TypeOK', Sound, phase = "drain", user \in Users,
         pending' = Without(user, delivered), Return,
         UNCHANGED <<now, msg, sent, emits, failed, accepted, acked, faults>>
  PROVE  Sound'
<1> USE DEF TypeOK, Return
<1>1. RowIds' \subseteq RowIds /\ RowIds \subseteq Ids /\ pending' \subseteq pending
  BY DEF RowIds, Row, Without
<1>2. \A i \in RowIds : i \in RowIds' \/ (i \in delivered)
  BY DEF RowIds, Without, Sound, RowsSound, DrainSound
<1>3. \A i \in RowIds' : ~(i \in delivered)
  BY DEF RowIds, Without, Sound, RowsSound, DrainSound
<1>4. Serving' /\ AnswerSound' /\ DeliveredToOwner'
  BY DEF Sound, Serving, AnswerSound, DeliveredToOwner
<1>5. FreshUntouched'
  BY <1>1 DEF Sound, FreshUntouched, Fresh
<1>6. RowsSound'
  BY <1>1, <1>3 DEF Sound, RowsSound
<1>7. DrainSound'
  BY DEF DrainSound
<1>8. EmitsBounded'
  <2> SUFFICES ASSUME NEW i \in Ids PROVE (emits[i] + Owed(i) <= 1 + faults)'
    BY DEF EmitsBounded
  <2>1. emits[i] + Owed(i) <= 1 + faults /\ Owed(i) \in 0 .. 1
    BY DEF Sound, EmitsBounded, Owed
  <2>2. CASE i \in RowIds'
    <3>1. i \notin delivered
      BY <1>1, <1>3, <2>2 DEF Sound, DrainSound, RowsSound, RowIds
    <3>2. Owed(i)' = 1 /\ Owed(i) = 1
      BY <1>1, <2>2, <3>1 DEF Owed
    <3> QED
      BY <2>1, <3>2
  <2>3. CASE i \notin RowIds'
    <3>1. Owed(i)' = 0
      BY <2>3 DEF Owed
    <3> QED
      BY <2>1, <3>1
  <2> QED
    BY <2>2, <2>3
<1>9. Accounted'
  BY <1>2 DEF Sound, Accounted, DrainSound
<1> QED
  BY <1>4, <1>5, <1>6, <1>7, <1>8, <1>9 DEF Sound

LEMMA DrainDeleteStep ==
  ASSUME TypeOK, TypeOK', Sound, DrainDelete
  PROVE  Sound'
<1> USE DEF TypeOK
<1>1. UNCHANGED <<now, msg, sent, emits, failed, accepted, acked>> /\ Return
      /\ phase = "drain"
  BY DEF DrainDelete, history
<1>2. CASE Fault /\ UNCHANGED pending
  BY <1>1, <1>2, ReturnStep DEF Fault
<1>3. CASE pending' = Without(user, delivered) /\ NoFault
  <2>1. user \in Users
    BY <1>1 DEF Sound, Serving
  <2> QED
    BY <1>1, <1>3, <2>1, DeleteStep DEF NoFault
<1> QED
  BY <1>2, <1>3 DEF DrainDelete

LEMMA AckStep ==
  ASSUME TypeOK, TypeOK', Sound, NEW u \in Users, NEW t \in Tags,
         NEW ids \in SUBSET listed, Ack(u, t, ids)
  PROVE  Sound'
<1> USE DEF TypeOK, handler
<1>1. /\ UNCHANGED <<handler, now, msg, sent, emits, failed, accepted>>
      /\ phase = "idle" /\ delivered = {} /\ batch = {}
  BY DEF Ack, Sound, DrainSound
<1>2. CASE Fault /\ UNCHANGED <<pending, acked>>
  BY <1>1, <1>2, QuietStep DEF Fault
<1>3. CASE /\ pending' = Without(u, ids)
           /\ acked' = acked \cup {i \in ids : i \in RowIds /\ msg[i].to = u}
           /\ NoFault
  <2>1. ids \in SUBSET Ids
    OBVIOUS
  <2> USE <1>1, <1>3, <2>1
  <2>2. RowIds' \subseteq RowIds /\ RowIds \subseteq Ids /\ pending' \subseteq pending
    BY DEF RowIds, Row, Without
  <2>3. \A i \in RowIds : i \in RowIds' \/ (i \in ids /\ msg[i].to = u)
    BY DEF RowIds, Without, Sound, RowsSound
  <2>4. \A i \in RowIds' : ~(i \in ids /\ msg[i].to = u)
    BY DEF RowIds, Without, Sound, RowsSound
  <2>5. Serving' /\ AnswerSound' /\ DeliveredToOwner'
    BY DEF Sound, Serving, AnswerSound, DeliveredToOwner
  <2>6. FreshUntouched'
    BY <2>2 DEF Sound, FreshUntouched, Fresh
  <2>7. RowsSound'
    BY <2>2, <2>4 DEF Sound, RowsSound
  <2>8. DrainSound'
    BY <2>2 DEF DrainSound
  <2>9. EmitsBounded'
    <3>1. ASSUME NEW i \in Ids
          PROVE  Owed(i) \in 0 .. 1 /\ Owed(i)' \in 0 .. 1 /\ Owed(i)' <= Owed(i)
      BY <2>2 DEF Owed
    <3> QED
      BY <3>1 DEF Sound, EmitsBounded, NoFault
  <2>10. Accounted'
    BY <2>3 DEF Sound, Accounted
  <2> QED
    BY <2>5, <2>6, <2>7, <2>8, <2>9, <2>10 DEF Sound
<1> QED
  BY <1>2, <1>3 DEF Ack

LEMMA AnswerStep ==
  ASSUME TypeOK, TypeOK', Sound, Answer
  PROVE  Sound'
<1> USE DEF TypeOK, Return, Answer, db
<1>1. RowIds' = RowIds /\ delivered = {} /\ batch = {}
  BY DEF RowIds, Sound, DrainSound
<1>2. /\ job \in Ids
      /\ job \in RowIds \/ emits[job] > 0 \/ job \in failed
  BY DEF Sound, Serving, AnswerSound
<1>3. Serving' /\ AnswerSound' /\ DeliveredToOwner' /\ RowsSound' /\ DrainSound'
  BY <1>1 DEF Sound, Serving, AnswerSound, DeliveredToOwner, RowsSound, DrainSound
<1>4. Accounted'
  BY <1>1, <1>2 DEF Sound, Accounted
<1>5. FreshUntouched'
  BY <1>1, <1>2 DEF Sound, FreshUntouched, Fresh
<1>6. EmitsBounded'
  <2>1. ASSUME NEW i \in Ids PROVE Owed(i)' = Owed(i)
    BY <1>1 DEF Owed
  <2> QED
    BY <2>1 DEF Sound, EmitsBounded
<1> QED
  BY <1>3, <1>4, <1>5, <1>6 DEF Sound

LEMMA InvStep == Inv /\ [Next]_vars => Inv'
<1> SUFFICES ASSUME Inv, [Next]_vars PROVE Inv'
  OBVIOUS
<1>1. TypeOK /\ TypeOK' /\ Sound /\ TagsOwned /\ TagsOwned'
  BY TypeStep, TagsStep DEF Inv, Sound
<1>2. ASSUME Sound' PROVE Inv'
  BY <1>1, <1>2 DEF Inv, Sound
<1> USE <1>1
<1>3. ASSUME faults' \in {faults, faults + 1}, now' \in {now, now + 1},
             UNCHANGED <<pending, handler, msg, sent, emits, failed, accepted,
                         acked>>
      PROVE  Sound'
  BY <1>3, QuietStep DEF TypeOK
<1>4. ASSUME NEW u \in Users, NEW t \in Tags, Register(u, t) PROVE Sound'
  BY <1>3, <1>4 DEF Register, history
<1>5. ASSUME NEW u \in Users, NEW t \in Tags, Login(u, t) PROVE Sound'
  BY <1>3, <1>5 DEF Login, SetTag, Fault, NoFault, history
<1>6. ASSUME NEW u \in Users, NEW t \in Tags, Ping(u, t) PROVE Sound'
  BY <1>6, PingStep
<1>7. ASSUME NEW u \in Users, NEW t \in Tags, FetchPending(u, t) PROVE Sound'
  BY <1>3, <1>7 DEF FetchPending, db
<1>8. ASSUME NEW u \in Users, NEW t \in Tags, NEW ids \in SUBSET listed,
             Ack(u, t, ids)
      PROVE  Sound'
  BY <1>8, AckStep
<1>9. ASSUME NEW i \in Ids, NEW u \in Users, NEW kind \in Kinds, NEW s,
             Taken(i, u), RelayOrStore(i, u, kind, s)
      PROVE  Sound'
  <2>1. CASE Reachable(s, u) /\ Send(i, userTag[u], LiveType(kind), "live", s)
             /\ UNCHANGED pending
    <3>1. userTag[u] \in Tags /\ Owner[userTag[u]] = u
      BY <2>1 DEF Reachable, Registered, TypeOK, TagsOwned
    <3> QED
      BY <1>9, <2>1, <3>1, LiveStep
  <2>2. CASE (Fault \/ NoFault) /\ Store(i, u, s)
    BY <1>9, <2>2, StoreStep DEF Store, Fault, NoFault
  <2> QED
    BY <1>9, <2>1, <2>2 DEF RelayOrStore
<1>10. ASSUME NEW i \in Ids, NEW t \in Tags, NEW u \in Users,
              SendUnified(i, t, u)
       PROVE  Sound'
  <2>1. Taken(i, u)
    BY <1>10 DEF SendUnified, Answerable, Taken, Kinds
  <2> QED
    BY <1>9, <1>10, <2>1 DEF SendUnified, Kinds
<1>11. ASSUME NEW i \in Ids, NEW t \in Tags, NEW u \in Users, SealedSend(i, t, u)
       PROVE  Sound'
  <2>1. Taken(i, u)
    BY <1>11 DEF SealedSend, Answerable, Taken, Kinds
  <2> QED
    BY <1>9, <1>11, <2>1 DEF SealedSend, Kinds
<1>12. ASSUME NEW i \in Ids, NEW t \in Tags, NEW u \in Users,
              RelayControl(i, t, u)
       PROVE  Sound'
  <2>1. Taken(i, u)
    BY <1>12 DEF RelayControl, Taken, Kinds, handler
  <2> QED
    BY <1>9, <1>12, <2>1 DEF RelayControl, Kinds
<1>13. ASSUME NEW i \in Ids, NEW t \in Tags, NEW u \in Users,
              QueueNotice(i, t, u)
       PROVE  Sound'
  <2>1. Taken(i, u)
    BY <1>13 DEF QueueNotice, Taken, Kinds, handler
  <2> QED
    BY <1>13, <2>1, StoreStep DEF QueueNotice
<1>14. ASSUME NEW t \in Tags, NEW u \in Users, LegacySend(t, u) PROVE Sound'
  BY <1>14, PingStep
<1>20. ASSUME NEW i \in Ids, LegacyRoute(i) PROVE Sound'
  <2>1. user \in Users /\ peer \in Tags
    BY <1>20 DEF LegacyRoute, Sound, Serving
  <2>2. Taken(i, user)
    BY <1>20, <2>1 DEF LegacyRoute, Answerable, Taken, Kinds
  <2>3. userTag[user] \in Tags /\ Owner[userTag[user]] = user
    BY <1>20, <2>1 DEF LegacyRoute, Registered, TagsOwned, TypeOK
  <2> QED
    BY <1>20, <2>1, <2>2, <2>3, LiveStep DEF LegacyRoute, db
<1>21. CASE LegacyRefused
  <2>1. faults' >= faults /\ delivered = {}
    BY <1>21 DEF LegacyRefused, Fault, NoFault, TypeOK, Sound, DrainSound
  <2>2. /\ Return
        /\ UNCHANGED <<pending, now, msg, sent, emits, failed, accepted, acked>>
    BY <1>21 DEF LegacyRefused, db, history
  <2> QED
    BY <1>2, <2>1, <2>2, ReturnStep
<1>15. CASE Pong \/ DrainSend \/ DrainDelete \/ Answer
  BY <1>2, <1>15, PongStep, DrainSendStep, DrainDeleteStep, AnswerStep
<1>16. ASSUME NEW t \in Tags, OtherRequest(t) PROVE Sound'
  BY <1>3, <1>16 DEF OtherRequest, db, history
<1>17. CASE Tick
  BY <1>2, <1>3, <1>17 DEF Tick, db, history
<1>18. CASE Crash
  <2>1. faults' >= faults
    BY <1>18 DEF Crash, Fault, TypeOK
  <2> QED
    BY <1>2, <1>18, <2>1, ReturnStep DEF Crash, Fault, db, history
<1>19. CASE UNCHANGED vars
  BY <1>2, <1>3, <1>19 DEF vars, handler
<1> QED
  BY <1>2, <1>4, <1>5, <1>6, <1>7, <1>8, <1>10, <1>11, <1>12, <1>13, <1>14,
     <1>15, <1>16, <1>17, <1>18, <1>19, <1>20, <1>21 DEF Next

\* The inductive invariant holds in every reachable state.
THEOREM Invariance == Spec => []Inv
<1> QED
  BY InvInit, InvStep, PTL DEF Spec

\* Every value the server keeps has its shape (users and pending_messages
\* tables, SURB counts, the state of the running handler).
THEOREM TypeCorrect == Spec => []TypeOK
<1>1. Inv => TypeOK
  BY DEF Inv
<1> QED
  BY <1>1, Invariance, PTL

\* A message that was answered "sent" (relay_with_persistence, handle_ping,
\* handle_ack) is a row, was handed to the mixnet, was acknowledged by its
\* recipient, or met a send that returned an error.
THEOREM AcceptedIsAccounted == Spec => []Accounted
<1>1. Inv => Accounted
  BY DEF Inv
<1> QED
  BY <1>1, Invariance, PTL

\* No message is handed to a session of another user than its recipient
\* (get_user_sender_tag reads only tags that were written after a signature of
\* that user was verified).
THEOREM OnlyOwnersServed == Spec => []DeliveredToOwner
<1>1. Inv => DeliveredToOwner
  BY DEF Inv
<1> QED
  BY <1>1, Invariance, PTL

\* A message is handed to the mixnet at most once more than there were faults.
THEOREM DuplicatesBounded == Spec => []DuplicatesNeedFaults
<1>1. Inv => DuplicatesNeedFaults
  <2> SUFFICES ASSUME Inv, NEW i \in Ids PROVE emits[i] <= 1 + faults
    BY DEF DuplicatesNeedFaults
  <2>1. Owed(i) \in 0 .. 1
    BY DEF Owed
  <2> QED
    BY <2>1 DEF Inv, EmitsBounded, TypeOK
<1> QED
  BY <1>1, Invariance, PTL

-----------------------------------------------------------------------------
(* The relay implements the mailbox *)

Handed == {i \in Ids : emits[i] > 0} \cup failed

\* A send hands its message over, whether it succeeds or not.
LEMMA SendHands ==
  ASSUME TypeOK, NEW i \in Ids, NEW t, NEW type, NEW via, NEW s,
         Send(i, t, type, via, s)
  PROVE  Handed' = Handed \cup {i}
BY DEF Handed, Send, TypeOK, Fault, NoFault

LEMMA MailInit == Init => Mail!MInit
<1> SUFFICES ASSUME Init PROVE Mail!MInit
  OBVIOUS
<1>1. RowIds = {}
  BY DEF Init, RowIds
<1>2. {i \in Ids : emits[i] > 0} \cup failed = {}
  BY DEF Init
<1> QED
  BY <1>1, <1>2 DEF Init, Mail!MInit

\* A new message is held, or handed over.
LEMMA TakenMails ==
  ASSUME Inv, NEW i \in Ids, NEW u \in Users, Fresh(i),
         UNCHANGED <<accepted, acked>>,
         \/ /\ UNCHANGED pending
            /\ \E t, type, s : Send(i, t, type, "live", s)
         \/ /\ pending' = pending \cup {NewRow(i, u)}
            /\ UNCHANGED <<emits, failed>>
  PROVE  Mail!MNext
<1> USE DEF TypeOK
<1>1. TypeOK /\ Mail!New(i)
  BY DEF Inv, FreshUntouched, Mail!New
<1>2. CASE /\ UNCHANGED pending
           /\ \E t, type, s : Send(i, t, type, "live", s)
  <2>1. Handed' = Handed \cup {i} /\ RowIds' = RowIds
    BY <1>1, <1>2, SendHands DEF RowIds
  <2>2. Mail!HandOver(i)
    BY <1>1, <2>1 DEF Mail!HandOver, Handed
  <2> QED
    BY <2>2 DEF Mail!MNext
<1>3. CASE /\ pending' = pending \cup {NewRow(i, u)}
           /\ UNCHANGED <<emits, failed>>
  <2>1. NewRow(i, u).id = i
    BY DEF NewRow
  <2>2. RowIds' \subseteq RowIds \cup {i}
    BY <1>3, <2>1 DEF RowIds
  <2>3. RowIds \cup {i} \subseteq RowIds'
    BY <1>3, <2>1 DEF RowIds
  <2>4. Mail!Hold(i)
    BY <1>1, <1>3, <2>2, <2>3 DEF Mail!Hold
  <2> QED
    BY <2>4 DEF Mail!MNext
<1> QED
  BY <1>2, <1>3

LEMMA MailStep == Inv /\ [Next]_vars => [Mail!MNext]_(Mail!mvars)
<1> SUFFICES ASSUME Inv, [Next]_vars PROVE [Mail!MNext]_(Mail!mvars)
  OBVIOUS
<1>1. TypeOK
  BY DEF Inv
<1> USE DEF db, handler, history
<1>2. ASSUME UNCHANGED <<pending, emits, failed, acked, accepted>>
      PROVE  UNCHANGED Mail!mvars
  BY <1>2 DEF Mail!mvars, RowIds
<1>3. ASSUME NEW u \in Users, NEW t \in Tags,
             \/ Register(u, t)
             \/ Login(u, t)
             \/ Ping(u, t)
             \/ FetchPending(u, t)
             \/ LegacySend(t, u)
      PROVE  UNCHANGED Mail!mvars
  BY <1>2, <1>3 DEF Register, Login, Ping, FetchPending, LegacySend
<1>4. ASSUME NEW u \in Users, NEW t \in Tags, NEW ids \in SUBSET listed,
             Ack(u, t, ids)
      PROVE  [Mail!MNext]_(Mail!mvars)
  <2>1. CASE UNCHANGED <<pending, acked>>
    BY <1>2, <1>4, <2>1 DEF Ack
  <2>2. CASE /\ pending' = Without(u, ids)
             /\ acked' = acked \cup {i \in ids : i \in RowIds /\ msg[i].to = u}
    <3> DEFINE S == {i \in ids : i \in RowIds /\ msg[i].to = u}
    <3>1. S \in SUBSET Ids /\ S \subseteq RowIds
      BY <1>1 DEF TypeOK
    <3>2. RowIds' = RowIds \ S
      <4>1. \A i \in RowIds : i \in RowIds' \/ i \in S
        BY <2>2 DEF RowIds, Without, Inv, RowsSound
      <4>2. \A i \in RowIds' : i \in RowIds /\ i \notin S
        BY <2>2 DEF RowIds, Without, Inv, RowsSound
      <4> QED
        BY <3>1, <4>1, <4>2
    <3>3. Mail!Acknowledge(S)
      BY <1>4, <2>2, <3>1, <3>2 DEF Ack, Mail!Acknowledge
    <3> QED
      BY <3>1, <3>3 DEF Mail!MNext
  <2> QED
    BY <1>4, <2>1, <2>2 DEF Ack
<1>5. ASSUME NEW i \in Ids, NEW u \in Users, NEW kind, NEW s, Fresh(i),
             RelayOrStore(i, u, kind, s), UNCHANGED <<accepted, acked>>
      PROVE  Mail!MNext
  BY <1>5, TakenMails DEF RelayOrStore, Store
<1>6. ASSUME NEW i \in Ids, NEW t \in Tags, NEW u \in Users,
             \/ SendUnified(i, t, u)
             \/ SealedSend(i, t, u)
             \/ RelayControl(i, t, u)
      PROVE  Mail!MNext
  BY <1>5, <1>6 DEF SendUnified, SealedSend, RelayControl, Answerable
<1>7. ASSUME NEW i \in Ids, NEW t \in Tags, NEW u \in Users,
             QueueNotice(i, t, u)
      PROVE  Mail!MNext
  BY <1>7, TakenMails DEF QueueNotice
<1>12. ASSUME NEW i \in Ids, LegacyRoute(i) PROVE Mail!MNext
  <2>1. user \in Users
    BY <1>12 DEF LegacyRoute, Inv, Serving
  <2> QED
    BY <1>12, <2>1, TakenMails DEF LegacyRoute, Answerable
<1>8. CASE Pong \/ Tick \/ Crash \/ LegacyRefused \/ UNCHANGED vars
           \/ \E t \in Tags : OtherRequest(t)
  BY <1>2, <1>8 DEF Pong, Tick, Crash, LegacyRefused, vars, OtherRequest
<1>9. CASE DrainSend
  <2>1. PICK r \in batch :
            Send(r.id, peer, DrainType(msg[r.id].kind), "drain", surbs)
    BY <1>9 DEF DrainSend
  <2>2. r.id \in Ids /\ r.id \in RowIds
    BY DEF Inv, TypeOK, DrainSound, RowIds, Row
  <2>3. Handed' = Handed \cup {r.id}
    BY <1>1, <2>1, <2>2, SendHands
  <2>4. RowIds' = RowIds /\ UNCHANGED <<acked, accepted>>
    BY <1>9 DEF DrainSend, RowIds
  <2>5. Mail!HandOver(r.id)
    BY <2>2, <2>3, <2>4 DEF Mail!HandOver, Handed
  <2> QED
    BY <2>2, <2>5 DEF Mail!MNext
<1>10. CASE DrainDelete
  <2>1. UNCHANGED <<emits, failed, acked, accepted>>
    BY <1>10 DEF DrainDelete
  <2>2. CASE UNCHANGED pending
    BY <1>2, <2>1, <2>2
  <2>3. CASE pending' = Without(user, delivered)
    <3> DEFINE S == delivered \cap RowIds
    <3>1. phase = "drain" /\ S \in SUBSET Ids
      BY <1>1, <1>10 DEF TypeOK, DrainDelete
    <3>2. S \subseteq RowIds \cap Handed
      BY <1>1 DEF Inv, DrainSound, Handed, TypeOK
    <3>3. RowIds' = RowIds \ S
      <4>1. \A i \in RowIds : i \in RowIds' \/ i \in S
        BY <2>3 DEF RowIds, Without
      <4>2. \A i \in RowIds' : i \in RowIds /\ i \notin S
        BY <2>3 DEF RowIds, Without, Inv, DrainSound, RowsSound
      <4> QED
        BY <4>1, <4>2
    <3>4. Mail!LetGo(S)
      BY <2>1, <3>2, <3>3 DEF Mail!LetGo, Handed
    <3> QED
      BY <3>1, <3>4 DEF Mail!MNext
  <2> QED
    BY <1>10, <2>2, <2>3 DEF DrainDelete
<1>11. CASE Answer
  <2>1. /\ job \in Ids
        /\ job \in RowIds \cup Handed
    BY <1>1, <1>11 DEF Answer, Inv, Serving, AnswerSound, Handed
  <2>2. RowIds' = RowIds /\ UNCHANGED <<emits, failed, acked>>
        /\ accepted' = accepted \cup {job}
    BY <1>11 DEF Answer, RowIds
  <2>3. Mail!Promise(job)
    BY <2>1, <2>2 DEF Mail!Promise, Handed
  <2> QED
    BY <2>1, <2>3 DEF Mail!MNext
<1> QED
  BY <1>3, <1>4, <1>6, <1>7, <1>8, <1>9, <1>10, <1>11, <1>12 DEF Next

\* The relay implements the mailbox: no handler, and no crash between two steps
\* of one, lets go of a message that was neither handed over nor acknowledged.
THEOREM RelayImplementsMailbox == Spec => ImplementsMailbox
<1> QED
  BY MailInit, MailStep, Invariance, PTL DEF Spec, ImplementsMailbox, Mail!MSpec

-----------------------------------------------------------------------------
(* Action properties *)

\* What its recipient acknowledged (handle_ack_unified) is not sent again: it
\* has no row a drain could select, and its id is not a new message's.
THEOREM AckedStayAcked == Spec => AckedNotSentAgain
<1>1. Inv /\ [Next]_vars => [\A i \in acked : emits'[i] = emits[i]]_vars
  <2> SUFFICES ASSUME Inv, Next, NEW i \in acked PROVE emits'[i] = emits[i]
    OBVIOUS
  <2> USE DEF db, handler, history
  <2>1. TypeOK /\ i \in Ids /\ ~Fresh(i) /\ i \notin RowIds
    BY DEF Inv, TypeOK, FreshUntouched, RowsSound
  <2>2. ASSUME NEW j \in Ids, Fresh(j), NEW t, NEW type, NEW via, NEW s,
               Send(j, t, type, via, s)
        PROVE  emits'[i] = emits[i]
    BY <2>1, <2>2 DEF Send, TypeOK
  <2>3. ASSUME NEW u \in Users, NEW t \in Tags,
               \/ Register(u, t)
               \/ Login(u, t)
               \/ Ping(u, t)
               \/ FetchPending(u, t)
               \/ LegacySend(t, u)
               \/ \E ids \in SUBSET listed : Ack(u, t, ids)
        PROVE  emits'[i] = emits[i]
    BY <2>3 DEF Register, Login, Ping, FetchPending, LegacySend, Ack
  <2>4. ASSUME NEW j \in Ids, NEW t \in Tags, NEW u \in Users,
               \/ SendUnified(j, t, u)
               \/ SealedSend(j, t, u)
               \/ RelayControl(j, t, u)
               \/ QueueNotice(j, t, u)
        PROVE  emits'[i] = emits[i]
    BY <2>2, <2>4 DEF SendUnified, SealedSend, RelayControl, QueueNotice,
                      RelayOrStore, Store
  <2>7. ASSUME NEW j \in Ids, LegacyRoute(j) PROVE emits'[i] = emits[i]
    BY <2>2, <2>7 DEF LegacyRoute
  <2>5. CASE DrainSend
    <3>1. PICK r \in batch :
              Send(r.id, peer, DrainType(msg[r.id].kind), "drain", surbs)
      BY <2>5 DEF DrainSend
    <3>2. r.id \in RowIds
      BY DEF Inv, DrainSound, RowIds
    <3> QED
      BY <2>1, <3>1, <3>2 DEF Send, TypeOK
  <2>6. CASE Pong \/ DrainDelete \/ Answer \/ Tick \/ Crash \/ LegacyRefused
             \/ \E t \in Tags : OtherRequest(t)
    BY <2>6 DEF Pong, DrainDelete, Answer, Tick, Crash, LegacyRefused, OtherRequest
  <2> QED
    BY <2>3, <2>4, <2>5, <2>6, <2>7 DEF Next
<1> QED
  BY <1>1, Invariance, PTL DEF Spec, AckedNotSentAgain

\* A drain (handle_ping_unified) that ends without a fault leaves its user only
\* rows that have expired.
THEOREM DrainsCompletely == Spec => DrainLeavesOnlyExpired
<1> DEFINE A == phase' = "idle" /\ phase \in {"pong", "drain"} /\ faults' = faults
                  => \A r \in pending' : r.to = user => r.at + TTL <= now
<1>1. Inv /\ [Next]_vars => [A]_vars
  <2> SUFFICES ASSUME Inv, Next, phase' = "idle", phase \in {"pong", "drain"},
                      faults' = faults, NEW r \in pending', r.to = user
               PROVE  r.at + TTL <= now
    OBVIOUS
  <2> USE DEF db, handler, history
  <2>1. TypeOK /\ ~(faults' = faults + 1)
    BY DEF Inv, TypeOK
  <2>2. CASE Pong
    <3>1. PendingOf(user) = {} /\ r \in pending
      BY <2>1, <2>2 DEF Pong, Fault
    <3>2. r \in Row
      BY <2>1, <3>1 DEF TypeOK
    <3> QED
      BY <2>1, <3>1, <3>2 DEF PendingOf, Unexpired, Row, TypeOK
  <2>3. CASE DrainDelete
    <3>1. phase = "drain" /\ batch = {} /\ pending' = Without(user, delivered)
      BY <2>1, <2>3 DEF DrainDelete, Fault
    <3>2. r \in pending /\ r.id \notin delivered
      BY <3>1 DEF Without
    <3> QED
      BY <3>1, <3>2 DEF Inv, DrainSound
  <2>4. CASE Tick
    BY <2>4 DEF Tick
  <2>5. CASE DrainSend
    BY <2>5 DEF DrainSend
  <2>6. CASE Crash
    BY <2>1, <2>6 DEF Crash, Fault
  <2> QED
    BY <2>2, <2>3, <2>4, <2>5, <2>6
       DEF Next, Register, Login, Ping, FetchPending, Ack, SendUnified,
           SealedSend, RelayControl, QueueNotice, LegacySend, LegacyRoute,
           LegacyRefused, Answer, OtherRequest
<1> QED
  BY <1>1, Invariance, PTL DEF Spec, DrainLeavesOnlyExpired
=============================================================================
