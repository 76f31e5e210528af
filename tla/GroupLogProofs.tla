-------------------------- MODULE GroupLogProofs --------------------------
(***************************************************************************)
(* Proofs about GroupLog, for any members and messages, any page size and  *)
(* any time that hashes are kept.                                          *)
(***************************************************************************)
EXTENDS GroupLog, TLAPS

\* What a row appended to the log changes.
LEMMA AppendRows ==
    ASSUME NEW S, NEW s \in Seq(S), NEW e \in S
    PROVE  /\ Append(s, e) \in Seq(S)
           /\ Len(Append(s, e)) = Len(s) + 1
           /\ \A i \in 1 .. Len(s) : Append(s, e)[i] = s[i]
           /\ Append(s, e)[Len(s) + 1] = e
  OBVIOUS

\* The initial state satisfies the inductive invariant.
LEMMA InitInv == Init => Inv
  <1> SUFFICES ASSUME Init PROVE Inv
      OBVIOUS
  <1> USE BoundsAssumption
  <1>1. TypeOK
    <2>1. log \in Seq(Stored) /\ Len(log) = 0
          BY DEF Init
    <2> QED BY <2>1 DEF Init, TypeOK, Stamps, Times, Ids
  <1>2. HashesCover /\ DedupWindow
        BY DEF Init, HashesCover, DedupWindow
  <1>3. StoreSound /\ JobSent /\ AskedFromStart
        BY DEF Init, StoreSound, JobSent, AskedFromStart
  <1>4. ToldIdsRight
        BY DEF Init, ToldIdsRight
  <1>5. Beginnings
        BY 1 .. 0 = {} DEF Init, Beginnings, Beginning
  <1> QED BY <1>1, <1>2, <1>3, <1>4, <1>5 DEF Inv

\* Every step keeps the types.
LEMMA TypeStep == Inv /\ [Next]_vars => TypeOK'
  <1> SUFFICES ASSUME Inv, [Next]_vars PROVE TypeOK'
      OBVIOUS
  <1> USE BoundsAssumption
  <1>0. TypeOK /\ StoreSound /\ AskedFromStart BY DEF Inv
  <1>a. Cleaned \in [Msgs -> Stamps]
        BY <1>0 DEF TypeOK, Cleaned, Stamps
  <1>b. Clean => hashes' \in [Msgs -> Stamps] /\ faults' \in 0 .. MaxFaults
        BY <1>0, <1>a DEF TypeOK, Clean, Fault, NoFault
  <1>1. ASSUME NEW m \in Msgs, SendGroup(m) PROVE TypeOK'
        BY <1>0, <1>1 DEF TypeOK, SendGroup, server
  <1>2. ASSUME NEW m \in Msgs, Receive(m) PROVE TypeOK'
        BY <1>0, <1>b, <1>2 DEF TypeOK, Receive, clients
  <1>3. CASE CheckHash
    <2>1. job \in Msgs
          BY <1>0, <1>3 DEF StoreSound, CheckHash
    <2>2. faults' \in 0 .. MaxFaults
          BY <1>0, <1>3 DEF TypeOK, CheckHash, Fault, NoFault
    <2>3. hashes' \in [Msgs -> Stamps] /\ stamp' \in Stamps
          BY <1>0, <1>3, <2>1 DEF TypeOK, CheckHash, Stamps, Return
    <2>4. told' \subseteq Answer
          BY <1>0, <1>3, <2>1 DEF TypeOK, CheckHash, Tell, Answer
    <2>5. phase' \in {"idle", "check", "store"} /\ job' \in Msgs \cup {NoMsg}
          BY <1>3, <2>1 DEF CheckHash, Return
    <2> QED BY <1>0, <1>3, <2>2, <2>3, <2>4, <2>5 DEF TypeOK, CheckHash, clients
  <1>4. CASE StoreMessage
    <2>1. job \in Msgs /\ Len(log) < MaxLog
          BY <1>0, <1>4 DEF StoreSound, StoreMessage
    <2>2. faults' \in 0 .. MaxFaults
          BY <1>0, <1>4 DEF TypeOK, StoreMessage, Fault, NoFault
    <2> DEFINE e == [msg |-> job, hashed |-> stamp]
    <2>3. e \in Stored
          BY <1>0, <2>1 DEF TypeOK, Stored
    <2>4. log \in Seq(Stored) /\ Len(log) \in Nat
          BY <1>0 DEF TypeOK
    <2>5. /\ Append(log, e) \in Seq(Stored)
          /\ Len(Append(log, e)) = Len(log) + 1
          BY <2>3, <2>4, AppendRows
    <2>6. log' = Append(log, e) \/ log' = log
          BY <1>4 DEF StoreMessage
    <2>7. log' \in Seq(Stored) /\ Len(log') <= MaxLog
      <3> HIDE DEF e
      <3>1. Len(log) + 1 <= MaxLog /\ Len(log) <= MaxLog
            BY <2>1, <2>4
      <3> QED BY <2>4, <2>5, <2>6, <3>1
    <2>8. told' \subseteq Answer
          BY <1>0, <1>4, <2>1, <2>4 DEF TypeOK, StoreMessage, Tell, Answer, Ids
    <2>9. /\ phase' = "idle" /\ job' = NoMsg /\ stamp' \in Stamps
          /\ UNCHANGED <<hashes, now, out, fetches, pages, cursor, seen>>
          BY <1>4 DEF StoreMessage, Return, Stamps, clients
    <2> QED BY <1>0, <2>2, <2>7, <2>8, <2>9 DEF TypeOK
  <1>5. ASSUME NEW u \in Members, Ask(u) PROVE TypeOK'
        BY <1>0, <1>5 DEF TypeOK, Ask, server, Fetch
  <1>6. ASSUME NEW f \in fetches, ServePage(f) PROVE TypeOK'
    <2>1. PageOf(f.since) \subseteq Ids /\ f.by \in Members
          BY <1>0 DEF TypeOK, PageOf, Fetch
    <2>2. pages' \subseteq PageMsg
          BY <1>0, <1>6, <2>1 DEF TypeOK, ServePage, PageMsg
    <2>3. hashes' \in [Msgs -> Stamps] /\ faults' \in 0 .. MaxFaults
          BY <1>0, <1>a, <1>b, <1>6 DEF TypeOK, ServePage, Fault
    <2> QED BY <1>0, <1>6, <2>2, <2>3 DEF TypeOK, ServePage
  <1>7. ASSUME NEW p \in pages, Deliver(p) PROVE TypeOK'
    <2>1. p.to \in Members /\ p.ids \in SUBSET Ids
          BY <1>0 DEF TypeOK, PageMsg
    <2>2. seen' \in [Members -> SUBSET Ids]
          BY <1>0, <1>7, <2>1 DEF TypeOK, Deliver
    <2>3. cursor' \in [Members -> Ids \cup {0}]
          BY <1>0, <1>7, <2>1 DEF TypeOK, Deliver, CursorAfter
    <2> QED BY <1>0, <1>7, <2>2, <2>3 DEF TypeOK, Deliver, server
  <1>8. CASE Crash
        BY <1>0, <1>8 DEF TypeOK, Crash, Fault, Return, Stamps, clients
  <1>9. CASE Tick
        BY <1>0, <1>9 DEF TypeOK, Tick, server, clients, Times
  <1>10. CASE UNCHANGED vars
         BY <1>0, <1>10 DEF TypeOK, vars
  <1> QED BY <1>1, <1>2, <1>3, <1>4, <1>5, <1>6, <1>7, <1>8, <1>9, <1>10 DEF Next

\* The log grows at its end only.
LEMMA LogStep ==
    ASSUME Inv, [Next]_vars
    PROVE  \/ UNCHANGED log
           \/ /\ phase = "store"
              /\ log' = Append(log, [msg |-> job, hashed |-> stamp])
              /\ Len(log') = Len(log) + 1
              /\ \A i \in 1 .. Len(log) : log'[i] = log[i]
              /\ log'[Len(log) + 1] = [msg |-> job, hashed |-> stamp]
  <1>0. TypeOK /\ StoreSound BY DEF Inv
  <1>1. ASSUME phase = "store", log' = Append(log, [msg |-> job, hashed |-> stamp])
        PROVE  /\ Len(log') = Len(log) + 1
               /\ \A i \in 1 .. Len(log) : log'[i] = log[i]
               /\ log'[Len(log) + 1] = [msg |-> job, hashed |-> stamp]
    <2>1. [msg |-> job, hashed |-> stamp] \in Stored
          BY <1>0, <1>1 DEF TypeOK, StoreSound, Stored
    <2> QED BY <1>0, <1>1, <2>1, AppendRows DEF TypeOK
  <1>2. UNCHANGED log \/ StoreMessage
        BY DEF Next, vars, server, SendGroup, Receive, CheckHash, Ask,
           ServePage, Deliver, Crash, Tick
  <1>3. CASE StoreMessage
        BY <1>1, <1>3 DEF StoreMessage
  <1> QED BY <1>2, <1>3

\* Time that passes, a clean-up and an arrival only make hashes older.
LEMMA HashStep == Inv /\ [Next]_vars => HashesCover'
  <1> SUFFICES ASSUME Inv, [Next]_vars, NEW i \in 1 .. Len(log'),
                      log'[i].hashed # Never
               PROVE  \/ hashes'[log'[i].msg] = log'[i].hashed
                      \/ /\ log'[i].hashed + Keep < now'
                         /\ \/ hashes'[log'[i].msg] = Never
                            \/ log'[i].hashed + Keep < hashes'[log'[i].msg]
      BY DEF HashesCover, HashOutdated
  <1> USE BoundsAssumption, NeverAssumption
  <1>0. TypeOK /\ StoreSound /\ HashesCover BY DEF Inv
  <1>1. Len(log) \in Nat /\ log \in Seq(Stored)
        BY <1>0 DEF TypeOK
  <1>2. ASSUME i \in 1 .. Len(log), log'[i] = log[i]
        PROVE  \/ hashes'[log'[i].msg] = log'[i].hashed
               \/ /\ log'[i].hashed + Keep < now'
                  /\ \/ hashes'[log'[i].msg] = Never
                     \/ log'[i].hashed + Keep < hashes'[log'[i].msg]
    <2> DEFINE m == log[i].msg
               h == log[i].hashed
    <2>0. log[i] \in Stored /\ h # Never
          BY <1>1, <1>2
    <2>1. m \in Msgs /\ h \in Nat
          BY <2>0 DEF Stored, Stamps, Times
    <2>2. \/ hashes[m] = h
          \/ h + Keep < now /\ (hashes[m] = Never \/ h + Keep < hashes[m])
          BY <1>0, <1>2 DEF HashesCover, HashOutdated
    <2>3. now \in Nat /\ now' \in Nat /\ now' >= now
          BY <1>0 DEF TypeOK, Times, Next, vars, SendGroup, Receive, CheckHash,
             StoreMessage, Ask, ServePage, Deliver, Crash, Tick
    <2>4. \/ hashes'[m] = hashes[m]
          \/ hashes[m] # Never /\ hashes[m] + Keep < now /\ hashes'[m] = Never
          \/ hashes[m] = Never /\ hashes'[m] = now
      <3>1. Cleaned[m] = IF hashes[m] # Never /\ hashes[m] + Keep < now
                         THEN Never ELSE hashes[m]
            BY <2>1 DEF Cleaned
      <3>2. CASE hashes' = hashes \/ hashes' = Cleaned
            BY <3>1, <3>2
      <3>3. CASE CheckHash
            BY <1>0, <2>1, <3>3 DEF TypeOK, CheckHash
      <3>4. hashes' = hashes \/ hashes' = Cleaned \/ CheckHash
            BY DEF Next, vars, server, SendGroup, Receive, Clean, StoreMessage,
               Ask, ServePage, Deliver, Crash, Tick
      <3> QED BY <3>2, <3>3, <3>4
    <2>5. hashes[m] \in Nat \cup {Never}
          BY <1>0, <2>1 DEF TypeOK, Stamps, Times
    <2>6. \/ hashes'[m] = h
          \/ h + Keep < now' /\ (hashes'[m] = Never \/ h + Keep < hashes'[m])
          BY <2>1, <2>2, <2>3, <2>4, <2>5
    <2> QED BY <2>6, <1>2
  <1>3. CASE UNCHANGED log
        BY <1>2, <1>3
  <1>4. CASE /\ phase = "store"
             /\ log' = Append(log, [msg |-> job, hashed |-> stamp])
             /\ Len(log') = Len(log) + 1
             /\ \A j \in 1 .. Len(log) : log'[j] = log[j]
             /\ log'[Len(log) + 1] = [msg |-> job, hashed |-> stamp]
    <2>1. CASE i \in 1 .. Len(log)
          BY <1>2, <1>4, <2>1
    <2>2. CASE i = Len(log) + 1
      <3>1. log'[i].msg = job /\ log'[i].hashed = stamp
            BY <1>4, <2>2
      <3>2. hashes[job] = stamp
            BY <1>0, <1>4, <3>1 DEF StoreSound
      <3>3. hashes' = hashes
        <4>1. log' # log
              BY <1>1, <1>4
        <4> QED BY <4>1 DEF Next, vars, server, SendGroup, Receive, CheckHash,
                   StoreMessage, Ask, ServePage, Deliver, Crash, Tick
      <3> QED BY <3>1, <3>2, <3>3
    <2> QED BY <1>1, <1>4, <2>1, <2>2
  <1> QED BY <1>3, <1>4, LogStep

\* The hash recorded by the running handler stays until it has stored.
LEMMA StoreStep == Inv /\ [Next]_vars => StoreSound'
  <1> SUFFICES ASSUME Inv, [Next]_vars PROVE StoreSound'
      OBVIOUS
  <1> USE BoundsAssumption, NeverAssumption
  <1>0. TypeOK /\ StoreSound /\ HashesCover BY DEF Inv
  <1>1. ASSUME NEW m \in Msgs, Receive(m) PROVE StoreSound'
        BY <1>0, <1>1 DEF StoreSound, Receive
  <1>2. CASE CheckHash
    <2>1. job \in Msgs /\ Len(log) < MaxLog
          BY <1>0, <1>2 DEF StoreSound, CheckHash
    <2>2. CASE hashes[job] = Never /\ stamp' = now /\ phase' = "store"
               /\ hashes' = [hashes EXCEPT ![job] = now] /\ job' = job
      <3>1. hashes'[job] = now
            BY <1>0, <2>1, <2>2 DEF TypeOK
      <3>2. ASSUME NEW i \in 1 .. Len(log), log[i].msg = job, log[i].hashed # Never
            PROVE  log[i].hashed + Keep < now
            BY <1>0, <2>2, <3>2 DEF HashesCover, HashOutdated
      <3>3. log' = log
            BY <1>2 DEF CheckHash
      <3> QED BY <2>1, <2>2, <3>1, <3>2, <3>3 DEF StoreSound
    <2>3. CASE stamp' = Never /\ phase' \in {"idle", "store"} /\ log' = log
               /\ (phase' = "store" => job' = job)
          BY <2>1, <2>3 DEF StoreSound
    <2> QED BY <1>2, <2>2, <2>3 DEF CheckHash, Return
  <1>3. CASE StoreMessage \/ Crash
        BY <1>3 DEF StoreSound, StoreMessage, Crash, Return
  <1>4. ASSUME NEW f \in fetches, ServePage(f) PROVE StoreSound'
        BY <1>0, <1>4 DEF StoreSound, ServePage
  <1>5. CASE UNCHANGED <<log, hashes, phase, job, stamp>>
        BY <1>0, <1>5 DEF StoreSound
  <1> QED BY <1>1, <1>2, <1>3, <1>4, <1>5 DEF Next, vars, server, SendGroup, Ask,
             Deliver, Tick

\* A row that is added is apart from the earlier ones of its message.
LEMMA DedupStep == Inv /\ [Next]_vars => DedupWindow'
  <1> SUFFICES ASSUME Inv, [Next]_vars,
                      NEW i \in 1 .. Len(log'), NEW j \in 1 .. Len(log'),
                      i < j, log'[i].msg = log'[j].msg,
                      log'[i].hashed # Never, log'[j].hashed # Never
               PROVE  log'[i].hashed + Keep < log'[j].hashed
      BY DEF DedupWindow
  <1>0. TypeOK /\ StoreSound /\ DedupWindow BY DEF Inv
  <1>1. Len(log) \in Nat
        BY <1>0 DEF TypeOK
  <1>2. CASE i \in 1 .. Len(log) /\ j \in 1 .. Len(log)
             /\ log'[i] = log[i] /\ log'[j] = log[j]
        BY <1>0, <1>2 DEF DedupWindow
  <1>3. CASE UNCHANGED log
        BY <1>2, <1>3
  <1>4. CASE /\ phase = "store"
             /\ log' = Append(log, [msg |-> job, hashed |-> stamp])
             /\ Len(log') = Len(log) + 1
             /\ \A k \in 1 .. Len(log) : log'[k] = log[k]
             /\ log'[Len(log) + 1] = [msg |-> job, hashed |-> stamp]
    <2>1. i \in 1 .. Len(log) /\ log'[i] = log[i]
          BY <1>1, <1>4
    <2>2. CASE j \in 1 .. Len(log)
          BY <1>2, <1>4, <2>1, <2>2
    <2>3. CASE j = Len(log) + 1
      <3>1. log'[j].msg = job /\ log'[j].hashed = stamp
            BY <1>4, <2>3
      <3> QED BY <1>0, <1>4, <2>1, <3>1 DEF StoreSound
    <2> QED BY <1>1, <1>4, <2>2, <2>3
  <1> QED BY <1>3, <1>4, LogStep

\* The id that is answered is the position of the row just added.
LEMMA ToldStep == Inv /\ [Next]_vars => ToldIdsRight'
  <1> SUFFICES ASSUME Inv, [Next]_vars, NEW t \in told', t.what = "success"
               PROVE  t.id \in 1 .. Len(log') /\ log'[t.id].msg = t.msg
      BY DEF ToldIdsRight
  <1>0. TypeOK /\ ToldIdsRight BY DEF Inv
  <1>1. Len(log) \in Nat
        BY <1>0 DEF TypeOK
  <1>2. CASE t \in told
    <2>1. t.id \in 1 .. Len(log) /\ log[t.id].msg = t.msg
          BY <1>0, <1>2 DEF ToldIdsRight
    <2>2. t.id \in 1 .. Len(log') /\ log'[t.id] = log[t.id]
          BY <1>1, <2>1, LogStep
    <2> QED BY <2>1, <2>2
  <1>3. CASE t \notin told
    <2>1. StoreMessage \/ CheckHash
          BY <1>3 DEF Next, vars, SendGroup, Receive, Ask, ServePage, Deliver,
             Crash, Tick
    <2>2. StoreMessage /\ t = [msg |-> job, what |-> "success", id |-> Len(log) + 1]
          BY <1>3, <2>1 DEF StoreMessage, CheckHash, Tell
    <2>3. log' = Append(log, [msg |-> job, hashed |-> stamp])
          BY <1>3, <2>2 DEF StoreMessage, Tell
    <2>4. log' # log
          BY <1>0, <2>3 DEF TypeOK
    <2>5. Len(log') = Len(log) + 1 /\ log'[Len(log) + 1].msg = job
          BY <2>4, LogStep
    <2> QED BY <1>1, <2>2, <2>5
  <1> QED BY <1>2, <1>3

\* The message of the running handler was sent.
LEMMA JobStep == Inv /\ [Next]_vars => JobSent'
  <1> SUFFICES ASSUME Inv, [Next]_vars PROVE JobSent'
      OBVIOUS
  <1>0. JobSent BY DEF Inv
  <1> QED BY <1>0 DEF JobSent, Next, vars, server, clients, SendGroup, Receive,
             CheckHash, StoreMessage, Ask, ServePage, Deliver, Crash, Tick, Return

\* No cursor ever moves.
LEMMA AskedStep == Inv /\ [Next]_vars => AskedFromStart'
  <1> SUFFICES ASSUME Inv, [Next]_vars PROVE AskedFromStart'
      OBVIOUS
  <1>0. TypeOK /\ AskedFromStart BY DEF Inv
  <1>1. ASSUME NEW u \in Members, Ask(u) PROVE AskedFromStart'
        BY <1>0, <1>1 DEF AskedFromStart, Ask
  <1>2. ASSUME NEW f \in fetches, ServePage(f) PROVE AskedFromStart'
        BY <1>0, <1>2 DEF AskedFromStart, ServePage
  <1>3. ASSUME NEW p \in pages, Deliver(p) PROVE AskedFromStart'
    <2>1. p.to \in Members
          BY <1>0 DEF TypeOK, PageMsg
    <2>2. \A u \in Members : cursor'[u] = cursor[u]
          BY <1>0, <1>3, <2>1 DEF TypeOK, Deliver, CursorAfter
    <2> QED BY <1>0, <1>3, <2>2 DEF AskedFromStart, Deliver
  <1>4. CASE UNCHANGED <<cursor, fetches>>
        BY <1>0, <1>4 DEF AskedFromStart
  <1> QED BY <1>1, <1>2, <1>3, <1>4 DEF Next, vars, clients, SendGroup, Receive,
             CheckHash, StoreMessage, Crash, Tick

\* A page that is asked for from the first message on is a beginning of the log.
LEMMA PageBegins == TypeOK => Beginning(PageOf(0))
  <1> SUFFICES ASSUME TypeOK PROVE Beginning(PageOf(0))
      OBVIOUS
  <1> USE BoundsAssumption
  <1>1. Len(log) \in Nat /\ Len(log) <= MaxLog
        BY DEF TypeOK
  <1>2. CASE Len(log) <= Page
    <2>1. PageOf(0) = 1 .. Len(log)
          BY <1>1, <1>2 DEF PageOf, Ids
    <2> QED BY <1>1, <2>1 DEF Beginning
  <1>3. CASE Page < Len(log)
    <2>1. PageOf(0) = 1 .. Page
          BY <1>1, <1>3 DEF PageOf, Ids
    <2> QED BY <1>1, <1>3, <2>1 DEF Beginning
  <1> QED BY <1>1, <1>2, <1>3

\* Of two beginnings one contains the other.
LEMMA TwoBeginnings ==
    ASSUME TypeOK, NEW a, NEW b, Beginning(a), Beginning(b)
    PROVE  Beginning(a \cup b)
  <1>1. Len(log) \in Nat
        BY DEF TypeOK
  <1>2. PICK k \in 0 .. Len(log) : a = 1 .. k
        BY DEF Beginning
  <1>3. PICK l \in 0 .. Len(log) : b = 1 .. l
        BY DEF Beginning
  <1>4. CASE k <= l
    <2>1. a \cup b = 1 .. l
          BY <1>1, <1>2, <1>3, <1>4
    <2> QED BY <2>1 DEF Beginning
  <1>5. CASE l <= k
    <2>1. a \cup b = 1 .. k
          BY <1>1, <1>2, <1>3, <1>5
    <2> QED BY <2>1 DEF Beginning
  <1> QED BY <1>1, <1>4, <1>5

\* A beginning of the log stays one when the log grows.
LEMMA BeginningStays ==
    ASSUME Inv, [Next]_vars
    PROVE  \A ids : Beginning(ids) => \E k \in 0 .. Len(log') : ids = 1 .. k
  <1>1. Len(log) \in Nat
        BY DEF Inv, TypeOK
  <1>2. UNCHANGED log \/ Len(log') = Len(log) + 1
        BY LogStep
  <1>3. 0 .. Len(log) \subseteq 0 .. Len(log')
        BY <1>1, <1>2
  <1> QED BY <1>3 DEF Beginning

\* What pages bring, and what members have got of them, are beginnings.
LEMMA BeginningStep == Inv /\ [Next]_vars => Beginnings'
  <1> SUFFICES ASSUME Inv, [Next]_vars PROVE Beginnings'
      OBVIOUS
  <1>0. TypeOK /\ AskedFromStart /\ Beginnings BY DEF Inv
  <1>1. ASSUME NEW f \in fetches, ServePage(f)
        PROVE  UNCHANGED seen /\ \A p \in pages' : p \in pages \/ p.ids = PageOf(0)
    <2>1. f.since = 0
          BY <1>0 DEF AskedFromStart
    <2> QED BY <1>1, <2>1 DEF ServePage
  <1>2. ASSUME NEW p \in pages, Deliver(p)
        PROVE  /\ pages' \subseteq pages
               /\ \A u \in Members : Beginning(seen'[u])
    <2>1. p.to \in Members
          BY <1>0 DEF TypeOK, PageMsg
    <2>2. \A u \in Members : \/ seen'[u] = seen[u]
                             \/ seen'[u] = seen[u] \cup p.ids
          BY <1>0, <1>2, <2>1 DEF TypeOK, Deliver
    <2>3. Beginning(p.ids) /\ \A u \in Members : Beginning(seen[u])
          BY <1>0 DEF Beginnings
    <2>4. \A u \in Members : Beginning(seen[u] \cup p.ids)
          BY <1>0, <2>3, TwoBeginnings
    <2>5. pages' \subseteq pages
          BY <1>2 DEF Deliver
    <2> QED BY <2>2, <2>3, <2>4, <2>5
  <1>3. /\ \A p \in pages' : Beginning(p.ids)
        /\ \A u \in Members : Beginning(seen'[u])
    <2>1. CASE UNCHANGED <<pages, seen>>
          BY <1>0, <2>1 DEF Beginnings
    <2>2. CASE \E f \in fetches : ServePage(f)
          BY <1>0, <1>1, <2>2, PageBegins DEF Beginnings
    <2>3. CASE \E p \in pages : Deliver(p)
          BY <1>0, <1>2, <2>3 DEF Beginnings
    <2> QED BY <2>1, <2>2, <2>3 DEF Next, vars, clients, SendGroup, Receive,
               CheckHash, StoreMessage, Ask, Crash, Tick
  <1>4. \A ids : Beginning(ids) => \E k \in 0 .. Len(log') : ids = 1 .. k
        BY BeginningStays
  <1>5. \A p \in pages' : \E k \in 0 .. Len(log') : p.ids = 1 .. k
        BY <1>3, <1>4
  <1>6. \A u \in Members : \E k \in 0 .. Len(log') : seen'[u] = 1 .. k
        BY <1>3, <1>4
  <1> QED BY <1>5, <1>6 DEF Beginnings, Beginning

-----------------------------------------------------------------------------
(* GroupLog implements Broadcast *)

\* An empty log is an empty order.
LEMMA GroupInit == Init => Group!BInit
  <1> SUFFICES ASSUME Init PROVE Group!BInit
      OBVIOUS
  <1>1. [i \in 1 .. Len(log) |-> log[i].msg] = <<>>
        BY DEF Init
  <1>2. {<<t.msg, t.id>> : t \in {a \in told : a.what = "success"}} = {}
        BY DEF Init
  <1> QED BY <1>1, <1>2 DEF Init, Group!BInit

\* A row that is stored takes the next place, and its sender is told that one.
LEMMA GroupPlace == Inv /\ StoreMessage => [Group!BNext]_(Group!bvars)
  <1> SUFFICES ASSUME Inv, StoreMessage PROVE [Group!BNext]_(Group!bvars)
      OBVIOUS
  <1> DEFINE e    == [msg |-> job, hashed |-> stamp]
             Good(T) == {<<t.msg, t.id>> : t \in {a \in T : a.what = "success"}}
             Order(l) == [i \in 1 .. Len(l) |-> l[i].msg]
  <1>0. TypeOK /\ StoreSound /\ JobSent BY DEF Inv
  <1>1. UNCHANGED <<out, seen>>
        BY DEF StoreMessage, clients
  <1>2. CASE log' = Append(log, e) /\ Tell("success", Len(log) + 1)
    <2>1. job \in Msgs /\ job \in out
          BY <1>0 DEF StoreSound, JobSent, StoreMessage
    <2>2. e \in Stored /\ log \in Seq(Stored) /\ Len(log) \in Nat
          BY <1>0, <2>1 DEF TypeOK, Stored
    <2>3. /\ Len(log') = Len(log) + 1
          /\ \A i \in 1 .. Len(log) : log'[i] = log[i]
          /\ log'[Len(log) + 1] = e
          BY <1>2, <2>2, AppendRows
    <2>4. Order(log) \in Seq(Msgs) /\ Len(Order(log)) = Len(log)
      <3>1. \A i \in 1 .. Len(log) : log[i].msg \in Msgs
        <4>1. \A i \in 1 .. Len(log) : log[i] \in Stored
              BY <2>2
        <4> QED BY <4>1 DEF Stored
      <3>2. Order(log) \in [1 .. Len(log) -> Msgs]
            BY <3>1, Zenon
      <3> HIDE DEF Order
      <3> QED BY <2>2, <3>2
    <2>5. Order(log') = Append(Order(log), job)
      <3>1. Len(Append(Order(log), job)) = Len(log) + 1
            BY <2>1, <2>4
      <3>2. \A i \in 1 .. Len(log) + 1 : Append(Order(log), job)[i] = log'[i].msg
            BY <2>1, <2>2, <2>3, <2>4
      <3>3. Append(Order(log), job) \in Seq(Msgs)
            BY <2>1, <2>4
      <3> QED BY <2>2, <2>3, <3>1, <3>2, <3>3
    <2>6. Good(told') = Good(told) \cup {<<job, Len(log) + 1>>}
      <3> DEFINE x == [msg |-> job, what |-> "success", id |-> Len(log) + 1]
      <3>1. told' = told \cup {x}
            BY <1>2 DEF Tell
      <3>2. {a \in told' : a.what = "success"}
              = {a \in told : a.what = "success"} \cup {x}
            BY <3>1
      <3> HIDE DEF x
      <3>3. Good(told') = Good(told) \cup {<<x.msg, x.id>>}
            BY <3>2, Zenon
      <3> QED BY <3>3 DEF x
    <2>7. PICK m \in Msgs : m = job
          BY <2>1
    <2>8. Group!Place(m)
      <3>1. Len(Order(log)) + 1 = Len(log) + 1
            BY <2>4
      <3> HIDE DEF Order, Good
      <3>2. /\ Order(log') = Append(Order(log), job)
            /\ Good(told') = Good(told) \cup {<<job, Len(Order(log)) + 1>>}
            BY <2>5, <2>6, <3>1
      <3> QED BY <1>1, <2>1, <2>7, <3>2, Zenon DEF Group!Place, Order, Good
    <2> QED BY <2>8 DEF Group!BNext
  <1>3. CASE UNCHANGED log /\ Tell("failed", 0)
    <2>1. Good(told') = Good(told)
          BY <1>3 DEF Tell
    <2> QED BY <1>1, <1>3, <2>1 DEF Group!bvars
  <1> QED BY <1>2, <1>3 DEF StoreMessage

\* A page that arrives brings the rest of a longer beginning, or nothing new.
LEMMA GroupGet ==
    ASSUME Inv, NEW p \in pages, Deliver(p)
    PROVE  Group!BNext
  <1>0. TypeOK /\ Beginnings BY DEF Inv
  <1>1. Len(log) \in Nat
        BY <1>0 DEF TypeOK
  <1>2. p.to \in Members
        BY <1>0 DEF TypeOK, PageMsg
  <1>3. Beginning(seen[p.to] \cup p.ids)
        BY <1>0, <1>2, TwoBeginnings DEF Beginnings
  <1>4. PICK k \in 0 .. Len(log) : seen[p.to] \cup p.ids = 1 .. k
        BY <1>3 DEF Beginning
  <1>5. seen[p.to] \subseteq 1 .. k /\ seen' = [seen EXCEPT ![p.to] = 1 .. k]
        BY <1>4 DEF Deliver
  <1>6. UNCHANGED <<out, log, told>>
        BY DEF Deliver, server
  <1>7. Len([i \in 1 .. Len(log) |-> log[i].msg]) = Len(log)
        BY <1>1
  <1>8. Group!Get(p.to)
        BY <1>5, <1>6, <1>7 DEF Group!Get
  <1> QED BY <1>2, <1>8 DEF Group!BNext

\* Every step of the server, its clients and the environment is one of the
\* group's, or changes nothing the group promises.
LEMMA GroupStep == Inv /\ [Next]_vars => [Group!BNext]_(Group!bvars)
  <1> SUFFICES ASSUME Inv, [Next]_vars PROVE [Group!BNext]_(Group!bvars)
      OBVIOUS
  <1> DEFINE Good(T) == {<<t.msg, t.id>> : t \in {a \in T : a.what = "success"}}
  <1>1. ASSUME UNCHANGED <<out, log, seen>>, Good(told') = Good(told)
        PROVE  [Group!BNext]_(Group!bvars)
        BY <1>1 DEF Group!bvars
  <1>2. ASSUME NEW m \in Msgs, SendGroup(m) PROVE [Group!BNext]_(Group!bvars)
    <2>1. Group!Send(m)
          BY <1>2 DEF SendGroup, server, Group!Send
    <2> QED BY <2>1 DEF Group!BNext
  <1>3. CASE CheckHash
    <2>1. told' = told \/ Tell("duplicate", 0)
          BY <1>3 DEF CheckHash
    <2>2. Good(told') = Good(told)
          BY <2>1 DEF Tell
    <2> QED BY <1>1, <1>3, <2>2 DEF CheckHash, clients
  <1>4. CASE StoreMessage
        BY <1>4, GroupPlace
  <1>5. ASSUME NEW p \in pages, Deliver(p) PROVE [Group!BNext]_(Group!bvars)
        BY <1>5, GroupGet
  <1>6. CASE UNCHANGED <<out, log, seen, told>>
        BY <1>1, <1>6
  <1> QED BY <1>2, <1>3, <1>4, <1>5, <1>6 DEF Next, vars, server, clients,
             Receive, Ask, ServePage, Crash, Tick

-----------------------------------------------------------------------------
(* Theorems *)

\* The inductive invariant holds in every reachable state.
THEOREM GlInvariance == Spec => []Inv
  <1>1. Init => Inv
        BY InitInv
  <1>2. Inv /\ [Next]_vars => Inv'
        BY TypeStep, HashStep, StoreStep, JobStep, AskedStep, BeginningStep,
           DedupStep, ToldStep DEF Inv
  <1> QED BY <1>1, <1>2, PTL DEF Spec

\* A message is stored twice only when its hash was not recorded, or was kept
\* its whole time in between.
THEOREM GlDedupWindow == Spec => []DedupWindow
  <1>1. Inv => DedupWindow
        BY DEF Inv
  <1> QED BY <1>1, GlInvariance, PTL

\* An id that a sender was told is, and stays, the position of its message.
THEOREM GlToldIdsRight == Spec => []ToldIdsRight
  <1>1. Inv => ToldIdsRight
        BY DEF Inv
  <1> QED BY <1>1, GlInvariance, PTL

\* No member has a message and misses an earlier one.
THEOREM GlSeenWithoutGaps == Spec => []SeenWithoutGaps
  <1>1. Inv => SeenWithoutGaps
        BY DEF Inv, TypeOK, Beginnings, Beginning, SeenWithoutGaps
  <1> QED BY <1>1, GlInvariance, PTL

\* Whatever stops, fails, is lost, comes again or overtakes: the log gives its
\* members one order, final places, and a beginning of it each.
THEOREM GlImplements == Spec => ImplementsBroadcast
  <1> QED BY GroupInit, GroupStep, GlInvariance, PTL
          DEF Spec, ImplementsBroadcast, Group!BSpec
=============================================================================
