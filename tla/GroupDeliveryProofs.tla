------------------------ MODULE GroupDeliveryProofs ------------------------
(***************************************************************************)
(* Proofs about GroupDelivery: whose key package a welcome was made for,   *)
(* and what of the log of commits a page shows, for any number of joiners, *)
(* any limits and any number of faults.                                    *)
(***************************************************************************)
EXTENDS GroupDelivery, FiniteSetTheorems, TLAPS

Carries(m) == m.action \in {"storeWelcome", "mlsWelcome", "fetchWelcomeResponse"}

AddRecord(kp, name, path, epoch, next) ==
  [kp |-> kp, name |-> name, path |-> path, epoch |-> epoch, next |-> next]
AnswerFor(j)  == [action |-> "approveGroupResponse", user |-> j]
RefusalFor(j) == [action |-> "approveGroupRefused", user |-> j]
Rows         == [id : Int, epoch : Epochs, readable : BOOLEAN]

\* An add and a message have their fields, and only joiners get replies.
AddShape(a) ==
  /\ a.kp \in Joiners /\ a.name \in Joiners /\ a.epoch \in Epochs
  /\ a = AddRecord(a.kp, a.name, a.path, a.epoch, a.next)
MessageShape(m) ==
  /\ m.action \in Actions
  /\ m.action # "bufferCommit" => m.user \in Joiners
  /\ m.action = "approveGroupResponse" => m = AnswerFor(m.user)
  /\ m.action = "bufferCommit" => m.user = Admin /\ m.commit \in Commit
  /\ m.action = "syncEpochResponse" => m.commits \in Seq(Rows)
  /\ Carries(m) => m.welcome \in Welcome

Shape ==
  /\ welcomes \in [Joiners -> Welcome \cup {NoWelcome}]
  /\ held \in BOOLEAN
  /\ asked \subseteq Joiners
  /\ wait \in Joiners \cup {NoOne}
  /\ leftOver \in BOOLEAN
  /\ at \in [Users -> Epochs \cup {Outside}]
  /\ log \in Seq(Rows)
  /\ \A a \in adding : AddShape(a)
  /\ \A m \in net : MessageShape(m)

\* The admin's epoch counts the members of the MLS group.
InTree  == {j \in Joiners : tree[j] # "no"}
Counted == /\ tree \in [Joiners -> {"no", "approve", "response"}]
           /\ at[Admin] = Cardinality(InTree) + 1

\* As long as nobody else may read the answer of an approval: one approval at
\* most is unfinished, its answer is the only one under way, and every welcome
\* is for whom it is made.
Alone   == /\ \A j, k \in asked : j = k
           /\ wait # NoOne => asked = {}
Answers == \A m \in net : IsApproval(m) =>
             m.user \in asked \cup {wait} /\ \A n \in net : IsApproval(n) => n = m
Added   == \A a \in adding : a.kp = a.name
Carried == \A m \in net : Carries(m) => m.welcome.kp = m.user
Stored  == \A j \in Joiners : welcomes[j] # NoWelcome => welcomes[j].kp = j
InTime  == ~leftOver => Alone /\ Answers /\ Added /\ Carried /\ Stored

\* Ids rise from row to row; without a fault they are the last ones, in order.
Rising(rows, top) ==
  \A i \in 1..Len(rows) : /\ rows[i].id \in 1..top
                          /\ i > 1 => rows[i - 1].id < rows[i].id
Newest == IF lastId < Keep THEN lastId ELSE Keep
LogInv ==
  /\ lastId \in Nat /\ faults \in 0..MaxFaults
  /\ Rising(log, lastId)
  /\ faults = 0 => /\ Len(log) = Newest
                   /\ \A i \in 1..Len(log) : log[i].id = lastId - Len(log) + i

DeliveryInv == Shape /\ Counted /\ InTime

-----------------------------------------------------------------------------
(* Induction over the natural numbers, from the least element of a set.     *)

LEMMA LeastElement ==
    ASSUME NEW T \in SUBSET Nat, T # {}
    PROVE  \E x \in T : \A y \in T : x <= y
  <1>1. PICK x \in T : \A y \in T : <<y, x>> \notin OpToRel(<, Nat)
    BY NatLessThanWellFounded, WFMin
  <1>2. \A y \in T : <<y, x>> \in OpToRel(<, Nat) <=> y < x
    BY DEF OpToRel
  <1>3. \A y \in T : ~(y < x)
    BY <1>1, <1>2
  <1>4. x \in Nat /\ \A y \in T : y \in Nat
    OBVIOUS
  <1>5. \A y \in T : x <= y
    BY <1>3, <1>4
  <1> QED
    BY <1>5

LEMMA Induction ==
    ASSUME NEW S, 0 \in S, \A n \in Nat : n \in S => n + 1 \in S
    PROVE  Nat \subseteq S
  <1> SUFFICES ASSUME Nat \ S # {} PROVE FALSE
    OBVIOUS
  <1>1. PICK x \in Nat \ S : \A y \in Nat \ S : x <= y
    BY LeastElement
  <1>2. x # 0 /\ x - 1 \in Nat /\ x - 1 < x
    BY <1>1
  <1>3. x - 1 \in S
    BY <1>1, <1>2
  <1> QED
    BY <1>1, <1>2, <1>3

-----------------------------------------------------------------------------
(* Applying a page *)

\* after[i] is the epoch after i rows, for the first n.
AfterRows(epoch, page, n, after) ==
  after = [i \in 0..n |-> IF i = 0 THEN epoch ELSE Applied(after[i - 1], page[i])]

\* There is such a function, for any number of rows, so that it is the one
\* that CaughtUp defines.
LEMMA AfterExists ==
    ASSUME NEW epoch, NEW page
    PROVE  \A n \in Nat : \E after : AfterRows(epoch, page, n, after)
  <1> DEFINE S == {n \in Nat : \E after : AfterRows(epoch, page, n, after)}
  <1>1. 0 \in S
    <2>1. AfterRows(epoch, page, 0, [i \in 0..0 |-> epoch])
      BY DEF AfterRows
    <2> QED
      BY <2>1
  <1>2. ASSUME NEW n \in Nat, n \in S PROVE n + 1 \in S
    <2>1. PICK f : AfterRows(epoch, page, n, f)
      BY <1>2
    <2> DEFINE g == [i \in 0..(n + 1) |-> IF i <= n THEN f[i] ELSE Applied(f[n], page[n + 1])]
    <2>2. \A i \in 0..n : g[i] = f[i]
      OBVIOUS
    <2>3. \A i \in 0..n : f[i] = IF i = 0 THEN epoch ELSE Applied(f[i - 1], page[i])
      BY <2>1 DEF AfterRows
    <2>4. g[n + 1] = Applied(f[n], page[n + 1])
      OBVIOUS
    <2>5. g = [i \in 0..(n + 1) |-> g[i]]
      OBVIOUS
    <2> HIDE DEF g
    <2>6. ASSUME NEW i \in 0..(n + 1)
          PROVE  g[i] = IF i = 0 THEN epoch ELSE Applied(g[i - 1], page[i])
      <3>1. CASE i = n + 1
        BY <2>2, <2>4, <3>1
      <3>2. CASE i # n + 1
        BY <2>2, <2>3, <3>2
      <3> QED
        BY <3>1, <3>2
    <2>7. AfterRows(epoch, page, n + 1, g)
      BY <2>5, <2>6 DEF AfterRows
    <2> QED
      BY <2>7
  <1> HIDE DEF S
  <1>3. Nat \subseteq S
    BY <1>1, <1>2, Induction
  <1> QED
    BY <1>3 DEF S

LEMMA CaughtUpIs ==
    ASSUME NEW epoch, NEW page, Len(page) \in Nat
    PROVE  \E after : /\ AfterRows(epoch, page, Len(page), after)
                      /\ CaughtUp(epoch, page) = after[Len(page)]
  <1> DEFINE after == CHOOSE f : AfterRows(epoch, page, Len(page), f)
  <1>1. AfterRows(epoch, page, Len(page), after)
    BY AfterExists
  <1>2. CaughtUp(epoch, page) = after[Len(page)]
    BY DEF CaughtUp, AfterRows
  <1> QED
    BY <1>1, <1>2

\* A page leaves a client in an epoch it had or that a row leads to, and never
\* further back.
LEMMA CaughtUpType ==
    ASSUME NEW epoch \in Epochs \cup {Outside}, NEW page \in Seq(Rows)
    PROVE  /\ CaughtUp(epoch, page) \in Epochs \cup {Outside}
           /\ CaughtUp(epoch, page) >= epoch
  <1>1. Len(page) \in Nat /\ \A i \in 1..Len(page) : page[i] \in Rows
    OBVIOUS
  <1>2. PICK after : /\ AfterRows(epoch, page, Len(page), after)
                     /\ CaughtUp(epoch, page) = after[Len(page)]
    BY <1>1, CaughtUpIs
  <1>3. \A i \in 0..Len(page) :
          after[i] = IF i = 0 THEN epoch ELSE Applied(after[i - 1], page[i])
    BY <1>2 DEF AfterRows
  <1>4. Epochs \cup {Outside} \subseteq Int
    BY DEF Epochs, Outside
  <1> DEFINE S == {n \in Nat : n <= Len(page) =>
                                 after[n] \in Epochs \cup {Outside} /\ after[n] >= epoch}
  <1>5. 0 \in S
    BY <1>1, <1>3, <1>4
  <1>6. ASSUME NEW n \in Nat, n \in S PROVE n + 1 \in S
    <2> SUFFICES ASSUME n + 1 <= Len(page)
                 PROVE  /\ after[n + 1] \in Epochs \cup {Outside}
                        /\ after[n + 1] >= epoch
      OBVIOUS
    <2>1. after[n + 1] = Applied(after[n], page[n + 1])
      BY <1>1, <1>3
    <2>2. after[n] \in Epochs \cup {Outside} /\ after[n] >= epoch /\ after[n] \in Int
      BY <1>1, <1>4, <1>6
    <2>3. page[n + 1].epoch \in Epochs
      BY <1>1 DEF Rows
    <2>4. \/ after[n + 1] = after[n]
          \/ after[n + 1] = page[n + 1].epoch /\ page[n + 1].epoch = after[n] + 1
      BY <2>1 DEF Applied
    <2>5. CASE after[n + 1] = after[n]
      BY <2>2, <2>5
    <2>6. CASE after[n + 1] = page[n + 1].epoch /\ page[n + 1].epoch = after[n] + 1
      BY <1>4, <2>2, <2>3, <2>6
    <2> QED
      BY <2>4, <2>5, <2>6
  <1> HIDE DEF S
  <1>7. Len(page) \in S
    BY <1>1, <1>5, <1>6, Induction
  <1> QED
    BY <1>1, <1>2, <1>7 DEF S

-----------------------------------------------------------------------------
LEMMA NoOneIsNoJoiner == /\ NoOne \notin Joiners /\ Joiners \subseteq Users
                         /\ Admin \in Users /\ Admin \notin Joiners
  BY AdminAssumption DEF Users

LEMMA NoWelcomeIsNone == NoWelcome \notin Welcome
  BY NoOneIsNoJoiner DEF NoWelcome, Welcome

\* There is an epoch for each joiner after the first.
LEMMA NextEpoch ==
    ASSUME Counted, NEW kp \in Joiners, tree[kp] = "no", NEW path \in {"approve", "response"}
    PROVE  /\ at[Admin] + 1 \in Epochs
           /\ tree' = [tree EXCEPT ![kp] = path]
              => /\ tree' \in [Joiners -> {"no", "approve", "response"}]
                 /\ Cardinality(InTree') = Cardinality(InTree) + 1
  <1>1. IsFiniteSet(InTree) /\ InTree \cup {kp} \in SUBSET Joiners /\ kp \notin InTree
    BY UsersAssumption, FS_Subset DEF InTree
  <1>2. /\ Cardinality(InTree \cup {kp}) = Cardinality(InTree) + 1
        /\ Cardinality(InTree) \in Nat
    BY <1>1, FS_AddElement, FS_CardinalityType
  <1>3. Cardinality(InTree \cup {kp}) <= Cardinality(Joiners) /\ Cardinality(Joiners) \in Nat
    BY <1>1, UsersAssumption, FS_Subset, FS_CardinalityType
  <1>4. at[Admin] + 1 \in Epochs
    BY <1>2, <1>3 DEF Counted, Epochs
  <1>5. ASSUME tree' = [tree EXCEPT ![kp] = path]
        PROVE  /\ tree' \in [Joiners -> {"no", "approve", "response"}]
               /\ InTree' = InTree \cup {kp}
    BY <1>5 DEF Counted, InTree
  <1> QED
    BY <1>2, <1>4, <1>5

\* What an add writes.
LEMMA AddedRow ==
    ASSUME Shape, Counted, NEW kp \in Joiners, NEW name, NEW path \in {"approve", "response"},
           tree[kp] = "no", AddMember(kp, name, path)
    PROVE  /\ \E e \in Epochs : adding' = adding \cup {AddRecord(kp, name, path, e, "welcome")}
           /\ at' \in [Users -> Epochs \cup {Outside}]
           /\ Counted'
  <1>1. PICK e : e = at[Admin] + 1
    OBVIOUS
  <1>2. e \in Epochs
    BY <1>1, NextEpoch
  <1>3. adding' = adding \cup {AddRecord(kp, name, path, e, "welcome")}
    BY <1>1 DEF AddMember, AddRecord
  <1>4. at' = [at EXCEPT ![Admin] = e] /\ tree' = [tree EXCEPT ![kp] = path]
    BY <1>1 DEF AddMember
  <1>5. at' \in [Users -> Epochs \cup {Outside}] /\ at'[Admin] = e
    BY <1>2, <1>4, NoOneIsNoJoiner DEF Shape
  <1>6. /\ tree' \in [Joiners -> {"no", "approve", "response"}]
        /\ Cardinality(InTree') = Cardinality(InTree) + 1
    BY <1>4, NextEpoch
  <1>7. Counted'
    BY <1>1, <1>5, <1>6 DEF Counted
  <1> QED
    BY <1>2, <1>3, <1>5, <1>7

LEMMA AddRecordShape ==
    ASSUME NEW kp \in Joiners, NEW name \in Joiners, NEW path, NEW e \in Epochs, NEW next
    PROVE  /\ AddShape(AddRecord(kp, name, path, e, next))
           /\ AddRecord(kp, name, path, e, next).kp = kp
           /\ AddRecord(kp, name, path, e, next).name = name
  BY DEF AddShape, AddRecord

\* What a sent welcome and a sent commit hold.
LEMMA WelcomeSent ==
    ASSUME NEW a, AddShape(a)
    PROVE  /\ MessageShape(WelcomeMessage(a))
           /\ ~IsApproval(WelcomeMessage(a))
           /\ WelcomeMessage(a).user = a.name
           /\ WelcomeMessage(a).welcome.kp = a.kp
           /\ WelcomeMessage(a).welcome \in Welcome
           /\ a.path = "approve" => WelcomeMessage(a).action = "storeWelcome"
  BY DEF AddShape, MessageShape, WelcomeMessage, Actions, Welcome, IsApproval

LEMMA CommitSent ==
    ASSUME NEW a, AddShape(a)
    PROVE  MessageShape(CommitMessage(a)) /\ CommitMessage(a).action = "bufferCommit"
  BY DEF AddShape, MessageShape, CommitMessage, CommitOf, Commit, Actions, Carries

\* The welcome is sent, the commit is next.
LEMMA NextCommit ==
    ASSUME NEW a, AddShape(a)
    PROVE  [a EXCEPT !.next = "commit"] = AddRecord(a.kp, a.name, a.path, a.epoch, "commit")
  BY DEF AddShape, AddRecord

LEMMA PageRows ==
    ASSUME NEW rows \in Seq(Rows)
    PROVE  PageOf(rows) \in Seq(Rows)
  BY LimitAssumption DEF PageOf

\* A row of the next id is stored behind the others.
LEMMA RowAppended ==
    ASSUME log \in Seq(Rows), lastId \in Nat, NEW c \in Commit
    PROVE  /\ BufferCommit(c) \in Seq(Rows)
           /\ Len(BufferCommit(c)) = Len(log) + 1
           /\ \A i \in 1..Len(log) : BufferCommit(c)[i] = log[i]
           /\ BufferCommit(c)[Len(log) + 1].id = lastId + 1
  <1>1. PICK row : row = [id |-> lastId + 1, epoch |-> c.epoch, readable |-> c.readable]
    OBVIOUS
  <1>2. row \in Rows /\ row.id = lastId + 1
    BY <1>1 DEF Rows, Commit
  <1>3. BufferCommit(c) = Append(log, row)
    BY <1>1 DEF BufferCommit
  <1> QED
    BY <1>2, <1>3

LEMMA KeptInSeq ==
    ASSUME NEW rows \in Seq(Rows)
    PROVE  Kept(rows) \in Seq(Rows)
  BY LimitAssumption DEF Kept

\* A step that does not add a member counts none.
LEMMA SameTree ==
    ASSUME Counted, at'[Admin] = at[Admin], UNCHANGED tree
    PROVE  Counted'
  BY DEF Counted, InTree

\* Most steps change little of what the invariant is about.
LEMMA Fewer ==
    ASSUME DeliveryInv, UNCHANGED <<welcomes, at, log, asked, wait, leftOver>>,
           held' \in BOOLEAN, adding' \subseteq adding, net' \subseteq net
    PROVE  Shape' /\ InTime'
  BY DEF DeliveryInv, Shape, InTime, Alone, Answers, Added, Carried, Stored

\* A step that sends no answer to an approval.
LEMMA SameAnswers ==
    ASSUME DeliveryInv, ~leftOver, UNCHANGED <<asked, wait>>,
           \A m \in net' : IsApproval(m) => m \in net
    PROVE  Alone' /\ Answers'
  BY DEF DeliveryInv, InTime, Alone, Answers

\* A handled message leaves the net or stays.
LEMMA Handled ==
    ASSUME NEW m \in net, Answer(m, {})
    PROVE  net' \subseteq net
  BY DEF Answer

\* Once another may read the answer, only the shape of things is left.
LEMMA FewerLeftOver ==
    ASSUME DeliveryInv, UNCHANGED <<welcomes, at, log>>, leftOver' = TRUE,
           asked' \subseteq asked, wait' \in {wait, NoOne}, held' \in BOOLEAN,
           adding' \subseteq adding, net' \subseteq net
    PROVE  Shape' /\ InTime'
  BY DEF DeliveryInv, Shape, InTime

LEMMA ApproveKeeps ==
    ASSUME DeliveryInv, NEW j \in Joiners, Approve(j)
    PROVE  Shape' /\ InTime'
  <1>1. /\ asked' = asked \cup {j}
        /\ leftOver' = (leftOver \/ asked # {} \/ wait # NoOne)
        /\ UNCHANGED <<welcomes, at, log, held, wait, adding>>
    BY DEF Approve
  <1>2. PICK m \in {AnswerFor(j), RefusalFor(j)} : net' \subseteq net \cup {m}
    BY DEF Approve, Send, AnswerFor, RefusalFor
  <1>3. MessageShape(m) /\ m.user = j /\ IsApproval(m) /\ ~Carries(m)
    BY DEF MessageShape, AnswerFor, RefusalFor, Actions, Carries, IsApproval
  <1>4. Shape'
    <2>1. asked' \subseteq Joiners /\ leftOver' \in BOOLEAN
      BY <1>1 DEF DeliveryInv, Shape
    <2> QED
      BY <1>1, <1>2, <1>3, <2>1 DEF DeliveryInv, Shape
  <1>5. ASSUME ~leftOver' PROVE Alone' /\ Answers' /\ ~leftOver
    <2>1. ~leftOver /\ asked = {} /\ wait = NoOne
      BY <1>1, <1>5
    <2>2. \A n \in net : ~IsApproval(n)
      BY <2>1, NoOneIsNoJoiner
      DEF DeliveryInv, Shape, InTime, Answers, MessageShape, IsApproval
    <2> QED
      BY <1>1, <1>2, <1>3, <2>1, <2>2 DEF Alone, Answers
  <1>6. ASSUME ~leftOver PROVE Added' /\ Carried' /\ Stored'
    BY <1>1, <1>2, <1>3, <1>6 DEF DeliveryInv, InTime, Added, Carried, Stored
  <1> QED
    BY <1>4, <1>5, <1>6 DEF InTime

LEMMA TakeReceiverKeeps ==
    ASSUME DeliveryInv, NEW j \in Joiners, TakeReceiver(j)
    PROVE  Shape' /\ InTime'
  <1>1. /\ j \in asked /\ asked' = asked \ {j}
        /\ UNCHANGED <<welcomes, at, log, adding, net>>
    BY DEF TakeReceiver, server
  <1>2. CASE leftOver' = TRUE /\ UNCHANGED <<held, wait>>
    BY <1>1, <1>2, FewerLeftOver DEF DeliveryInv, Shape
  <1>3. CASE held' = TRUE /\ wait' = j /\ UNCHANGED leftOver
    <2>1. Shape'
      BY <1>1, <1>3 DEF DeliveryInv, Shape
    <2>2. ASSUME ~leftOver PROVE Alone' /\ Answers' /\ Added' /\ Carried' /\ Stored'
      <3>1. asked = {j} /\ wait = NoOne
        BY <1>1, <2>2 DEF DeliveryInv, InTime, Alone
      <3>2. Answers'
        BY <1>1, <1>3, <2>2, <3>1, NoOneIsNoJoiner
        DEF DeliveryInv, Shape, InTime, Answers, MessageShape, IsApproval
      <3> QED
        BY <1>1, <1>3, <2>2, <3>1, <3>2
        DEF DeliveryInv, InTime, Alone, Added, Carried, Stored
    <2> QED
      BY <1>3, <2>1, <2>2 DEF InTime
  <1> QED
    BY <1>2, <1>3 DEF TakeReceiver

LEMMA UnheardKeeps ==
    ASSUME DeliveryInv, NEW m \in net, Unheard(m)
    PROVE  Shape' /\ InTime'
  <1>1. net' \subseteq net /\ leftOver' = TRUE /\ UNCHANGED <<server, at, local, admin>>
    BY Handled DEF Unheard
  <1> QED
    BY <1>1, FewerLeftOver DEF server, admin, approvals, DeliveryInv, Shape

LEMMA GiveUpKeeps ==
    ASSUME DeliveryInv, GiveUp
    PROVE  Shape' /\ InTime'
  BY FewerLeftOver DEF GiveUp, PutBack, server

LEMMA AdminStopsKeeps ==
    ASSUME DeliveryInv, AdminStops
    PROVE  Shape' /\ InTime'
  <1>1. /\ UNCHANGED <<welcomes, at, log, net>>
        /\ adding' = {} /\ asked' = {} /\ wait' = NoOne /\ held' = FALSE
        /\ leftOver' = (leftOver \/ asked # {} \/ wait # NoOne)
    BY DEF AdminStops, PutBack, server
  <1>2. CASE asked = {} /\ wait = NoOne
    <2>1. leftOver' = leftOver
      BY <1>1, <1>2 DEF DeliveryInv, Shape
    <2> QED
      BY <1>1, <1>2, <2>1, Fewer
  <1>3. CASE ~(asked = {} /\ wait = NoOne)
    BY <1>1, <1>3, FewerLeftOver
  <1> QED
    BY <1>2, <1>3

\* The approval that waited has ended, and its answer is gone.
LEMMA AnswerRead ==
    ASSUME DeliveryInv, NEW m \in net, IsApproval(m), wait # NoOne, ~leftOver,
           wait' = NoOne, asked' = asked, net' = net \ {m}
    PROVE  Alone' /\ Answers' /\ m.user = wait
  <1>1. asked = {} /\ m.user = wait
    BY DEF DeliveryInv, Shape, InTime, Alone, Answers
  <1>2. \A n \in net' : ~IsApproval(n)
    BY DEF DeliveryInv, InTime, Answers
  <1>3. Alone' /\ Answers'
    BY <1>1, <1>2 DEF Alone, Answers, IsApproval
  <1> QED
    BY <1>1, <1>3

LEMMA AddKeeps ==
    ASSUME DeliveryInv, NEW kp \in Joiners, NEW name \in Joiners,
           NEW path \in {"approve", "response"}, tree[kp] = "no",
           AddMember(kp, name, path), ~leftOver => kp = name
    PROVE  /\ \A a \in adding' : AddShape(a)
           /\ ~leftOver => Added'
           /\ at' \in [Users -> Epochs \cup {Outside}]
           /\ Counted'
  <1>1. PICK e \in Epochs : adding' = adding \cup {AddRecord(kp, name, path, e, "welcome")}
    BY AddedRow DEF DeliveryInv
  <1>2. at' \in [Users -> Epochs \cup {Outside}] /\ Counted'
    BY AddedRow DEF DeliveryInv
  <1>3. \A a \in adding' : AddShape(a)
    BY <1>1, AddRecordShape DEF DeliveryInv, Shape
  <1>4. ~leftOver => Added'
    BY <1>1, AddRecordShape DEF DeliveryInv, InTime, Added
  <1> QED
    BY <1>2, <1>3, <1>4

LEMMA OnApprovedKeeps ==
    ASSUME DeliveryInv, NEW m \in net, OnApproved(m)
    PROVE  Shape' /\ InTime'
  <1>1. /\ m.action = "approveGroupResponse" /\ m.user \in Joiners
        /\ wait \in Joiners /\ wait' = NoOne
        /\ net' = net \ {m} \/ net' = net
        /\ leftOver' = (leftOver \/ m \in net')
        /\ held' \in BOOLEAN
        /\ UNCHANGED <<welcomes, log, asked>>
    BY DEF DeliveryInv, Shape, MessageShape, OnApproved, AddApproved, CannotAdd, PutBack,
           Answer, server
  <1>2. ~leftOver => m.user = wait
    BY <1>1, NoOneIsNoJoiner DEF DeliveryInv, InTime, Alone, Answers, IsApproval
  <1>3. /\ \A a \in adding' : AddShape(a)
        /\ ~leftOver => Added'
        /\ at' \in [Users -> Epochs \cup {Outside}]
    <2>1. CASE AddApproved(m)
      BY <1>1, <1>2, <2>1, AddKeeps DEF AddApproved
    <2>2. CASE CannotAdd(m)
      BY <2>2 DEF CannotAdd, DeliveryInv, Shape, InTime, Added
    <2> QED
      BY <2>1, <2>2 DEF OnApproved
  <1>4. leftOver' \in BOOLEAN
    BY <1>1
  <1>5. Shape'
    BY <1>1, <1>3, <1>4 DEF DeliveryInv, Shape
  <1>6. ASSUME ~leftOver'
        PROVE  ~leftOver /\ Alone' /\ Answers' /\ Carried' /\ Stored'
    <2>1. ~leftOver /\ net' = net \ {m}
      BY <1>1, <1>6
    <2>2. Alone' /\ Answers'
      BY <1>1, <2>1, AnswerRead, NoOneIsNoJoiner DEF IsApproval
    <2> QED
      BY <1>1, <2>1, <2>2 DEF DeliveryInv, InTime, Carried, Stored
  <1> QED
    BY <1>3, <1>5, <1>6 DEF InTime

LEMMA OnRefusedKeeps ==
    ASSUME DeliveryInv, NEW m \in net, OnRefused(m)
    PROVE  Shape' /\ InTime'
  <1>1. /\ IsApproval(m) /\ wait # NoOne /\ wait' = NoOne /\ held' = FALSE
        /\ net' = net \ {m} \/ net' = net
        /\ leftOver' = (leftOver \/ m \in net')
        /\ UNCHANGED <<welcomes, at, log, asked, adding>>
    BY DEF OnRefused, PutBack, Answer, IsApproval, server
  <1>2. Shape'
    BY <1>1 DEF DeliveryInv, Shape
  <1>3. ASSUME ~leftOver'
        PROVE  Alone' /\ Answers' /\ Added' /\ Carried' /\ Stored'
    <2>1. ~leftOver /\ net' = net \ {m}
      BY <1>1, <1>3
    <2>2. Alone' /\ Answers'
      BY <1>1, <2>1, AnswerRead
    <2> QED
      BY <1>1, <2>1, <2>2 DEF DeliveryInv, InTime, Added, Carried, Stored
  <1> QED
    BY <1>2, <1>3 DEF InTime

LEMMA AddByResponseKeeps ==
    ASSUME DeliveryInv, NEW j \in Joiners, AddByResponse(j)
    PROVE  Shape' /\ InTime'
  <1>1. /\ UNCHANGED <<welcomes, log, held, asked, wait, net, leftOver>>
        /\ tree[j] = "no" /\ AddMember(j, j, "response")
    BY DEF AddByResponse, server, approvals
  <1>2. /\ \A a \in adding' : AddShape(a)
        /\ ~leftOver => Added'
        /\ at' \in [Users -> Epochs \cup {Outside}]
    BY <1>1, AddKeeps
  <1> QED
    BY <1>1, <1>2, SameAnswers DEF DeliveryInv, Shape, InTime, Carried, Stored

LEMMA SendWelcomeKeeps ==
    ASSUME DeliveryInv, NEW a \in adding, SendWelcome(a)
    PROVE  Shape' /\ InTime'
  <1>1. /\ AddShape(a) /\ held' \in BOOLEAN
        /\ UNCHANGED <<welcomes, at, log, asked, wait, leftOver>>
    BY DEF DeliveryInv, Shape, SendWelcome, Ended, PutBack, server
  <1>2. CASE adding' = adding \ {a} /\ UNCHANGED net
    BY <1>1, <1>2, Fewer
  <1>3. CASE /\ Send(WelcomeMessage(a))
             /\ adding' = (adding \ {a}) \cup {[a EXCEPT !.next = "commit"]}
    <2>1. adding' = (adding \ {a}) \cup {AddRecord(a.kp, a.name, a.path, a.epoch, "commit")}
      BY <1>1, <1>3, NextCommit
    <2>2. \A b \in adding' : AddShape(b)
      <3>1. a.kp \in Joiners /\ a.name \in Joiners /\ a.epoch \in Epochs
        BY <1>1 DEF AddShape
      <3>2. AddShape(AddRecord(a.kp, a.name, a.path, a.epoch, "commit"))
        BY <3>1, AddRecordShape
      <3> QED
        BY <2>1, <3>2 DEF DeliveryInv, Shape
    <2>3. ~leftOver => a.kp = a.name /\ Added'
      <3>1. /\ AddRecord(a.kp, a.name, a.path, a.epoch, "commit").kp = a.kp
            /\ AddRecord(a.kp, a.name, a.path, a.epoch, "commit").name = a.name
        BY DEF AddRecord
      <3> QED
        BY <2>1, <3>1 DEF DeliveryInv, InTime, Added
    <2>4. net' = net \cup {WelcomeMessage(a)}
      BY <1>3 DEF Send
    <2>5. Shape'
      BY <1>1, <2>2, <2>4, WelcomeSent DEF DeliveryInv, Shape
    <2>6. ~leftOver => Carried' /\ Stored'
      BY <1>1, <2>3, <2>4, WelcomeSent DEF DeliveryInv, InTime, Carried, Stored
    <2>7. ~leftOver => Alone' /\ Answers'
      BY <1>1, <2>4, WelcomeSent, SameAnswers
    <2> QED
      BY <1>1, <2>3, <2>5, <2>6, <2>7 DEF InTime
  <1> QED
    BY <1>2, <1>3 DEF SendWelcome

LEMMA SendCommitKeeps ==
    ASSUME DeliveryInv, NEW a \in adding, SendCommit(a)
    PROVE  Shape' /\ InTime'
  <1>1. /\ AddShape(a) /\ held' \in BOOLEAN
        /\ UNCHANGED <<welcomes, at, log, asked, wait, leftOver>>
        /\ adding' \subseteq adding
        /\ net' \subseteq net \cup {CommitMessage(a)}
    BY DEF DeliveryInv, Shape, SendCommit, Send, Ended, PutBack, server
  <1>2. MessageShape(CommitMessage(a)) /\ CommitMessage(a).action = "bufferCommit"
    BY <1>1, CommitSent
  <1> QED
    BY <1>1, <1>2, SameAnswers
    DEF DeliveryInv, Shape, InTime, Added, Carried, Stored, Carries, IsApproval

LEMMA OnStoreWelcomeKeeps ==
    ASSUME DeliveryInv, NEW m \in net, OnStoreWelcome(m)
    PROVE  Shape' /\ InTime'
  <1>1. /\ m.action = "storeWelcome" /\ m.user \in Joiners /\ m.welcome \in Welcome
        /\ net' \subseteq net
        /\ UNCHANGED <<at, log, held, asked, wait, adding, leftOver>>
        /\ \/ welcomes' = welcomes
           \/ welcomes' = [welcomes EXCEPT ![m.user] = m.welcome]
    BY Handled DEF DeliveryInv, Shape, MessageShape, Carries, OnStoreWelcome, StoreWelcome, admin,
           approvals
  <1>2. Shape'
    BY <1>1 DEF DeliveryInv, Shape
  <1>3. ~leftOver => Stored'
    BY <1>1 DEF DeliveryInv, Shape, InTime, Carried, Carries, Stored
  <1> QED
    BY <1>1, <1>2, <1>3 DEF DeliveryInv, InTime, Alone, Answers, Added, Carried

LEMMA FetchWelcomeKeeps ==
    ASSUME DeliveryInv, NEW j \in Joiners, FetchWelcome(j)
    PROVE  Shape' /\ InTime'
  <1> DEFINE Reply == [action |-> "fetchWelcomeResponse", user |-> j, welcome |-> welcomes[j]]
  <1>1. PICK r : r = Reply
    OBVIOUS
  <1>2. /\ net' = net \cup {r}
        /\ welcomes[j] # NoWelcome
        /\ UNCHANGED <<at, log, held, asked, wait, adding, leftOver>>
        /\ \/ welcomes' = welcomes
           \/ welcomes' = [welcomes EXCEPT ![j] = NoWelcome]
    BY <1>1 DEF FetchWelcome, Send, Removed, admin, approvals
  <1>3. /\ MessageShape(r) /\ r.action = "fetchWelcomeResponse"
        /\ r.user = j /\ r.welcome = welcomes[j]
    <2>1. welcomes[j] \in Welcome
      BY <1>2 DEF DeliveryInv, Shape
    <2> QED
      BY <1>1, <2>1 DEF MessageShape, Actions
  <1>4. Shape'
    BY <1>2, <1>3 DEF DeliveryInv, Shape
  <1>5. ~leftOver => Carried' /\ Stored'
    BY <1>2, <1>3 DEF DeliveryInv, Shape, InTime, Carried, Carries, Stored
  <1>6. ~leftOver => Alone' /\ Answers' /\ Added'
    BY <1>2, <1>3, SameAnswers DEF DeliveryInv, InTime, Added, IsApproval
  <1> QED
    BY <1>2, <1>4, <1>5, <1>6 DEF DeliveryInv, InTime

LEMMA SyncEpochKeeps ==
    ASSUME DeliveryInv, NEW j \in Joiners, SyncEpoch(j)
    PROVE  Shape' /\ InTime'
  <1>1. PICK r : r = [action |-> "syncEpochResponse", user |-> j, commits |-> PageOf(log)]
    OBVIOUS
  <1>2. net' = net \cup {r} /\ UNCHANGED <<welcomes, at, log, held, asked, wait, adding, leftOver>>
    BY <1>1 DEF SyncEpoch, Send, admin, approvals, server
  <1>3. MessageShape(r) /\ r.action = "syncEpochResponse"
    <2>1. PageOf(log) \in Seq(Rows)
      BY PageRows DEF DeliveryInv, Shape
    <2> QED
      BY <1>1, <2>1 DEF MessageShape, Actions, Carries
  <1> QED
    BY <1>2, <1>3, SameAnswers
    DEF DeliveryInv, Shape, InTime, Added, Carried, Carries, Stored, IsApproval

LEMMA OnWelcomeKeeps ==
    ASSUME DeliveryInv, NEW m \in net, OnWelcome(m)
    PROVE  Shape' /\ InTime'
  <1>1. /\ m.user \in Joiners /\ m.welcome.epoch \in Epochs
        /\ net' \subseteq net
        /\ UNCHANGED <<welcomes, log, held, asked, wait, adding, leftOver>>
        /\ UNCHANGED at \/ at' = [at EXCEPT ![m.user] = m.welcome.epoch]
    BY Handled DEF DeliveryInv, Shape, MessageShape, Carries, Welcome, OnWelcome, admin, approvals,
           server
  <1>2. at' \in [Users -> Epochs \cup {Outside}]
    BY <1>1 DEF DeliveryInv, Shape
  <1> QED
    BY <1>1, <1>2 DEF DeliveryInv, Shape, InTime, Alone, Answers, Added, Carried, Stored

LEMMA OnCommitsKeeps ==
    ASSUME DeliveryInv, NEW m \in net, OnCommits(m)
    PROVE  Shape' /\ InTime'
  <1>1. /\ m.user \in Joiners /\ m.commits \in Seq(Rows)
        /\ net' \subseteq net
        /\ UNCHANGED <<welcomes, log, held, asked, wait, adding, leftOver>>
    BY Handled DEF DeliveryInv, Shape, MessageShape, OnCommits, admin, approvals, server
  <1>2. PICK e : /\ e = IF at[m.user] = Outside THEN at[m.user]
                        ELSE CaughtUp(at[m.user], m.commits)
                 /\ at' = [at EXCEPT ![m.user] = e]
    BY DEF OnCommits
  <1>3. at[m.user] \in Epochs \cup {Outside}
    BY <1>1, NoOneIsNoJoiner DEF DeliveryInv, Shape
  <1>4. e \in Epochs \cup {Outside}
    BY <1>1, <1>2, <1>3, CaughtUpType
  <1>5. at' \in [Users -> Epochs \cup {Outside}]
    BY <1>2, <1>4 DEF DeliveryInv, Shape
  <1> QED
    BY <1>1, <1>5 DEF DeliveryInv, Shape, InTime, Alone, Answers, Added, Carried, Stored

LEMMA OnBufferCommitKeeps ==
    ASSUME DeliveryInv, lastId \in Nat, NEW m \in net, OnBufferCommit(m)
    PROVE  Shape' /\ InTime'
  <1>1. /\ m.commit \in Commit
        /\ net' \subseteq net
        /\ UNCHANGED <<welcomes, at, held, asked, wait, adding, leftOver>>
    BY Handled DEF DeliveryInv, Shape, MessageShape, OnBufferCommit, admin, approvals
  <1>2. log' \in Seq(Rows)
    BY <1>1, RowAppended, KeptInSeq DEF DeliveryInv, Shape, OnBufferCommit
  <1> QED
    BY <1>1, <1>2 DEF DeliveryInv, Shape, InTime, Alone, Answers, Added, Carried, Stored

\* The admin's epoch moves when it adds a member, and only then.
LEMMA CountedStep ==
    ASSUME DeliveryInv, [Next]_vars
    PROVE  Counted'
  <1>1. \/ UNCHANGED <<at, tree>>
        \/ \E m \in net : OnApproved(m) \/ OnWelcome(m) \/ OnCommits(m)
        \/ \E j \in Joiners : AddByResponse(j)
    BY DEF Next, vars, admin, approvals, server, TakeReceiver, OnRefused, Unheard, JoinGroup, LeaveGroup, FetchWelcome, SyncEpoch, Approve,
           GiveUp, AdminStops, SendWelcome, SendCommit, OnStoreWelcome, OnUnknown,
           OnBufferCommit, Lose
  <1>2. CASE UNCHANGED <<at, tree>>
    BY <1>2, SameTree DEF DeliveryInv
  <1>3. ASSUME NEW m \in net, OnApproved(m) PROVE Counted'
    <2>1. m.user \in Joiners
      BY <1>3 DEF DeliveryInv, Shape, MessageShape, OnApproved
    <2>2. CASE UNCHANGED <<at, tree>>
      BY <2>2, SameTree DEF DeliveryInv
    <2>3. CASE tree[m.user] = "no" /\ AddMember(m.user, wait, "approve")
      BY <2>1, <2>3, AddedRow DEF DeliveryInv
    <2> QED
      BY <1>3, <2>2, <2>3 DEF OnApproved, AddApproved, CannotAdd
  <1>4. ASSUME NEW m \in net, OnWelcome(m) \/ OnCommits(m) PROVE Counted'
    <2>1. /\ m.user \in Joiners /\ UNCHANGED tree
          /\ UNCHANGED at \/ \E e : at' = [at EXCEPT ![m.user] = e]
      BY <1>4 DEF DeliveryInv, Shape, MessageShape, OnWelcome, OnCommits, admin
    <2>2. at'[Admin] = at[Admin]
      BY <2>1, NoOneIsNoJoiner DEF DeliveryInv, Shape
    <2> QED
      BY <2>1, <2>2, SameTree DEF DeliveryInv
  <1>5. ASSUME NEW j \in Joiners, AddByResponse(j) PROVE Counted'
    BY <1>5, AddedRow DEF DeliveryInv, AddByResponse
  <1> QED
    BY <1>1, <1>2, <1>3, <1>4, <1>5

LEMMA DeliveryStep ==
    ASSUME DeliveryInv, LogInv, [Next]_vars
    PROVE  DeliveryInv'
  <1>1. ASSUME NEW j \in Joiners, JoinGroup(j) \/ LeaveGroup(j) PROVE Shape' /\ InTime'
    BY <1>1, Fewer DEF JoinGroup, LeaveGroup, admin, approvals, server, DeliveryInv, Shape
  <1>2. ASSUME NEW m \in net, OnUnknown(m) \/ Lose(m) PROVE Shape' /\ InTime'
    <2>1. net' \subseteq net
      BY <1>2, Handled DEF OnUnknown, Lose
    <2> QED
      BY <1>2, <2>1, Fewer
      DEF OnUnknown, Lose, admin, approvals, server, DeliveryInv, Shape
  <1>3. ASSUME UNCHANGED vars PROVE Shape' /\ InTime'
    BY <1>3, Fewer DEF vars, DeliveryInv, Shape
  <1>4. lastId \in Nat
    BY DEF LogInv
  <1>5. Shape' /\ InTime'
    BY <1>1, <1>2, <1>3, <1>4, FetchWelcomeKeeps, SyncEpochKeeps, ApproveKeeps,
       AddByResponseKeeps, GiveUpKeeps, AdminStopsKeeps, SendWelcomeKeeps, SendCommitKeeps,
       OnApprovedKeeps, OnStoreWelcomeKeeps, OnBufferCommitKeeps, OnWelcomeKeeps,
       OnCommitsKeeps, TakeReceiverKeeps, UnheardKeeps, OnRefusedKeeps
    DEF Next
  <1> QED
    BY <1>5, CountedStep DEF DeliveryInv

LEMMA DeliveryInit == Init => DeliveryInv
  <1> SUFFICES ASSUME Init PROVE DeliveryInv
    OBVIOUS
  <1>1. at \in [Users -> Epochs \cup {Outside}] /\ at[Admin] = 1
    <2>1. 1 \in Epochs
      BY UsersAssumption, FS_CardinalityType DEF Epochs
    <2> QED
      BY <2>1, NoOneIsNoJoiner DEF Init
  <1>2. Counted
    <2>1. tree \in [Joiners -> {"no", "approve", "response"}] /\ InTree = {}
      BY DEF Init, InTree
    <2> QED
      BY <1>1, <2>1, FS_EmptySet DEF Counted
  <1>3. welcomes \in [Joiners -> Welcome \cup {NoWelcome}] /\ Stored
    BY DEF Init, Stored
  <1>4. /\ held \in BOOLEAN /\ asked = {} /\ wait = NoOne /\ adding = {} /\ net = {}
        /\ leftOver \in BOOLEAN
    BY DEF Init
  <1>5. log \in Seq(Rows)
    BY DEF Init
  <1>6. Shape
    BY <1>1, <1>3, <1>4, <1>5 DEF Shape
  <1>7. Alone /\ Answers /\ Added /\ Carried
    BY <1>4 DEF Alone, Answers, Added, Carried
  <1> QED
    BY <1>2, <1>3, <1>6, <1>7 DEF DeliveryInv, InTime

\* What the server and a client keep of a joiner.
Roles == /\ status \in [Joiners -> {"out", "pending", "member"}]
         /\ local \in [Joiners -> {"none", "member", "linked"}]

LEMMA RolesInit == Init => Roles
  BY DEF Init, Roles

LEMMA RolesStep ==
    ASSUME DeliveryInv, Roles, [Next]_vars
    PROVE  Roles'
  <1>1. \/ UNCHANGED <<status, local>>
        \/ \E j \in Joiners : JoinGroup(j) \/ LeaveGroup(j) \/ Approve(j)
        \/ \E m \in net : OnWelcome(m)
    BY DEF Next, vars, server, TakeReceiver, OnRefused, Unheard, FetchWelcome, SyncEpoch, AddByResponse, GiveUp, AdminStops,
           SendWelcome, SendCommit, OnApproved, OnStoreWelcome, OnUnknown, OnBufferCommit,
           OnCommits, Lose
  <1>2. ASSUME NEW j \in Joiners, JoinGroup(j) PROVE Roles'
    BY <1>2 DEF JoinGroup, Roles
  <1>3. ASSUME NEW j \in Joiners, LeaveGroup(j) PROVE Roles'
    BY <1>3 DEF LeaveGroup, Roles, server
  <1>4. ASSUME NEW j \in Joiners, Approve(j) PROVE Roles'
    BY <1>4 DEF Approve, Roles
  <1>5. ASSUME NEW m \in net, OnWelcome(m) PROVE Roles'
    BY <1>5 DEF OnWelcome, Roles, server
  <1> QED
    BY <1>1, <1>2, <1>3, <1>4, <1>5 DEF Roles

-----------------------------------------------------------------------------
(* The log of commits *)

\* The last rows are kept, as many as may be.
LEMMA KeptRows ==
    ASSUME NEW rows \in Seq(Rows)
    PROVE  /\ Kept(rows) \in Seq(Rows)
           /\ Len(Kept(rows)) = IF Len(rows) < Keep THEN Len(rows) ELSE Keep
           /\ \A i \in 1..Len(Kept(rows)) :
                /\ Len(rows) - Len(Kept(rows)) + i \in 1..Len(rows)
                /\ Kept(rows)[i] = rows[Len(rows) - Len(Kept(rows)) + i]
  <1>1. CASE Len(rows) <= Keep
    <2>1. Kept(rows) = rows
      BY <1>1 DEF Kept
    <2> QED
      BY <1>1, <2>1, LimitAssumption
  <1>2. CASE Len(rows) > Keep
    <2>1. Kept(rows) = SubSeq(rows, Len(rows) - Keep + 1, Len(rows))
      BY <1>2, LimitAssumption DEF Kept
    <2>2. /\ Kept(rows) \in Seq(Rows)
          /\ Len(Kept(rows)) = Keep
          /\ \A i \in 1..Keep : Kept(rows)[i] = rows[Len(rows) - Keep + i]
      BY <1>2, <2>1, LimitAssumption
    <2>3. \A i \in 1..Keep : Len(rows) - Keep + i \in 1..Len(rows)
      BY <1>2, LimitAssumption
    <2> QED
      BY <1>2, <2>2, <2>3, LimitAssumption
  <1> QED
    BY <1>1, <1>2, LimitAssumption

\* Ids rise from row to row, and what is kept of such rows is such rows.
LEMMA KeptRise ==
    ASSUME NEW rows \in Seq(Rows), NEW top, Rising(rows, top)
    PROVE  Rising(Kept(rows), top)
  <1> DEFINE d == Len(rows) - Len(Kept(rows))
  <1>1. /\ d \in Nat
        /\ \A i \in 1..Len(Kept(rows)) : d + i \in 1..Len(rows) /\ Kept(rows)[i] = rows[d + i]
    BY KeptRows, LimitAssumption
  <1> HIDE DEF d
  <1> SUFFICES ASSUME NEW i \in 1..Len(Kept(rows))
               PROVE  /\ Kept(rows)[i].id \in 1..top
                      /\ i > 1 => Kept(rows)[i - 1].id < Kept(rows)[i].id
    BY DEF Rising
  <1>2. Len(Kept(rows)) \in Nat
    BY KeptRows
  <1>3. Kept(rows)[i].id \in 1..top
    BY <1>1 DEF Rising
  <1>4. ASSUME i > 1 PROVE Kept(rows)[i - 1].id < Kept(rows)[i].id
    <2>1. i - 1 \in 1..Len(Kept(rows)) /\ d + i \in 1..Len(rows) /\ d + i > 1
      BY <1>1, <1>2, <1>4
    <2>2. rows[(d + i) - 1].id < rows[d + i].id
      BY <2>1 DEF Rising
    <2>3. (d + i) - 1 = d + (i - 1)
      BY <1>1
    <2> QED
      BY <1>1, <2>1, <2>2, <2>3
  <1> QED
    BY <1>3, <1>4

\* Faults are only counted up.
LEMMA FaultsGrow ==
    ASSUME faults \in 0..MaxFaults, [Next]_vars
    PROVE  faults' \in 0..MaxFaults /\ (faults' = 0 => faults = 0 /\ ~Fault)
  <1>1. (Fault \/ NoFault) => faults' \in 0..MaxFaults /\ (faults' = 0 => faults = 0 /\ ~Fault)
    BY LimitAssumption DEF Fault, NoFault
  <1>2. ASSUME NEW j \in Joiners,
               JoinGroup(j) \/ LeaveGroup(j) \/ FetchWelcome(j) \/ SyncEpoch(j) \/ Approve(j)
                 \/ TakeReceiver(j) \/ AddByResponse(j)
        PROVE  Fault \/ NoFault
    BY <1>2 DEF JoinGroup, LeaveGroup, FetchWelcome, SyncEpoch, Approve, TakeReceiver,
                AddByResponse, NoFault
  <1>3. ASSUME NEW a \in adding, SendWelcome(a) \/ SendCommit(a)
        PROVE  Fault \/ NoFault
    BY <1>3 DEF SendWelcome, SendCommit
  <1>4. ASSUME NEW m \in net,
               OnApproved(m) \/ OnRefused(m) \/ Unheard(m) \/ OnStoreWelcome(m)
                 \/ OnUnknown(m) \/ OnBufferCommit(m) \/ OnWelcome(m) \/ OnCommits(m)
                 \/ Lose(m)
        PROVE  Fault \/ NoFault
    BY <1>4 DEF OnApproved, AddApproved, CannotAdd, OnRefused, Unheard, OnStoreWelcome,
                OnUnknown, OnBufferCommit, OnWelcome, OnCommits, Lose, Answer
  <1>5. GiveUp \/ AdminStops \/ UNCHANGED vars => Fault \/ NoFault
    BY DEF GiveUp, AdminStops, vars, NoFault
  <1> QED
    BY <1>1, <1>2, <1>3, <1>4, <1>5 DEF Next

LEMMA LogStep ==
    ASSUME DeliveryInv, LogInv, [Next]_vars
    PROVE  LogInv'
  <1>1. faults' \in 0..MaxFaults /\ (faults' = 0 => faults = 0 /\ ~Fault)
    BY FaultsGrow DEF LogInv
  <1>2. CASE UNCHANGED <<log, lastId>>
    BY <1>1, <1>2 DEF LogInv, Newest
  <1>3. ASSUME NEW m \in net, OnBufferCommit(m), lastId' = lastId + 1
        PROVE  LogInv'
    <2>1. m.commit \in Commit /\ log \in Seq(Rows) /\ lastId \in Nat
      BY <1>3 DEF DeliveryInv, Shape, MessageShape, OnBufferCommit, LogInv
    <2>2. PICK rows : rows = BufferCommit(m.commit)
      OBVIOUS
    <2>3. /\ rows \in Seq(Rows) /\ Len(rows) = Len(log) + 1
          /\ \A i \in 1..Len(log) : rows[i] = log[i]
          /\ rows[Len(log) + 1].id = lastId + 1
      BY <2>1, <2>2, RowAppended
    <2>4. log' = Kept(rows) \/ (log' = rows /\ faults' # 0)
      BY <1>1, <1>3, <2>2 DEF OnBufferCommit
    <2>5. lastId' \in Nat /\ lastId' = lastId + 1
      BY <1>3, <2>1
    <2>6. Rising(rows, lastId + 1)
      <3> SUFFICES ASSUME NEW i \in 1..Len(rows)
                   PROVE  /\ rows[i].id \in 1..(lastId + 1)
                          /\ i > 1 => rows[i - 1].id < rows[i].id
        BY DEF Rising
      <3>1. \A k \in 1..Len(log) : /\ log[k].id \in 1..lastId
                                   /\ k > 1 => log[k - 1].id < log[k].id
        BY DEF LogInv, Rising
      <3>2. Len(log) \in Nat
        BY <2>1
      <3>3. CASE i = Len(log) + 1
        BY <2>1, <2>3, <3>1, <3>2, <3>3
      <3>4. CASE i # Len(log) + 1
        <4>1. i \in 1..Len(log) /\ (i > 1 => i - 1 \in 1..Len(log))
          BY <2>3, <3>2, <3>4
        <4>2. rows[i] = log[i] /\ log[i].id \in 1..lastId
          BY <2>3, <3>1, <4>1
        <4>3. ASSUME i > 1 PROVE rows[i - 1].id < rows[i].id
          BY <2>3, <3>1, <4>1, <4>2, <4>3
        <4> QED
          BY <2>1, <4>2, <4>3
      <3> QED
        BY <3>3, <3>4
    <2>7. Rising(log', lastId')
      BY <2>3, <2>4, <2>5, <2>6, KeptRise
    <2>8. ASSUME faults' = 0
          PROVE  /\ Len(log') = Newest'
                 /\ \A i \in 1..Len(log') : log'[i].id = lastId' - Len(log') + i
      <3>1. /\ log' = Kept(rows)
            /\ Len(log) = Newest
            /\ \A i \in 1..Len(log) : log[i].id = lastId - Len(log) + i
        BY <1>1, <2>4, <2>8 DEF LogInv
      <3>2. Len(log) \in Nat /\ lastId + 1 \in Nat
        BY <2>1
      <3>3. \A i \in 1..Len(rows) : rows[i].id = (lastId + 1) - Len(rows) + i
        <4> SUFFICES ASSUME NEW i \in 1..Len(rows)
                     PROVE  rows[i].id = (lastId + 1) - Len(rows) + i
          OBVIOUS
        <4>1. CASE i = Len(log) + 1
          BY <2>1, <2>3, <3>1, <3>2, <4>1
        <4>2. CASE i # Len(log) + 1
          <5>1. i \in 1..Len(log)
            BY <2>3, <3>2, <4>2
          <5>2. rows[i].id = lastId - Len(log) + i
            BY <2>3, <3>1, <5>1
          <5> QED
            BY <2>1, <2>3, <3>2, <5>2
        <4> QED
          BY <4>1, <4>2
      <3>4. Len(log') = IF Len(rows) < Keep THEN Len(rows) ELSE Keep
        BY <2>3, <3>1, KeptRows
      <3>5. \A i \in 1..Len(log') : log'[i].id = (lastId + 1) - Len(log') + i
        <4> SUFFICES ASSUME NEW i \in 1..Len(log')
                     PROVE  log'[i].id = (lastId + 1) - Len(log') + i
          OBVIOUS
        <4>1. PICK k \in 1..Len(rows) : k = Len(rows) - Len(log') + i /\ log'[i] = rows[k]
          BY <2>3, <3>1, KeptRows
        <4>2. rows[k].id = (lastId + 1) - Len(rows) + k
          BY <3>3
        <4>3. Len(rows) \in Nat /\ Len(log') \in Nat
          BY <2>3, <3>2, <3>4, LimitAssumption
        <4> QED
          BY <3>2, <4>1, <4>2, <4>3
      <3>6. Newest' = IF lastId + 1 < Keep THEN lastId + 1 ELSE Keep
        BY <2>5 DEF Newest
      <3>7. Len(log) = IF lastId < Keep THEN lastId ELSE Keep
        BY <3>1 DEF Newest
      <3>8. Len(log') = Newest'
        BY <2>1, <2>3, <3>2, <3>4, <3>6, <3>7, LimitAssumption
      <3> QED
        BY <2>5, <3>5, <3>8
    <2> QED
      BY <1>1, <2>5, <2>7, <2>8 DEF LogInv
  <1>4. \/ UNCHANGED <<log, lastId>>
        \/ \E m \in net : OnBufferCommit(m) /\ lastId' = lastId + 1
    BY DEF Next, vars, server, TakeReceiver, OnRefused, Unheard, JoinGroup, LeaveGroup, FetchWelcome, SyncEpoch, Approve,
           AddByResponse, GiveUp, AdminStops, SendWelcome, SendCommit, OnApproved,
           OnStoreWelcome, OnUnknown, OnBufferCommit, OnWelcome, OnCommits, Lose
  <1> QED
    BY <1>2, <1>3, <1>4

LEMMA LogInit == Init => LogInv
  <1> SUFFICES ASSUME Init PROVE LogInv
    OBVIOUS
  <1>1. log = <<>> /\ lastId = 0 /\ faults = 0
    BY DEF Init
  <1>2. Len(log) = 0 /\ Newest = 0
    BY <1>1, LimitAssumption DEF Newest
  <1> QED
    BY <1>1, <1>2, LimitAssumption DEF LogInv, Rising

-----------------------------------------------------------------------------
(* Epochs *)

\* A welcome takes a client in, a commit or an add moves it on, and nothing
\* takes it back.
LEMMA NeverBackStep ==
    ASSUME DeliveryInv, [Next]_vars, NEW u \in Users
    PROVE  at'[u] >= at[u]
  <1>1. at \in [Users -> Epochs \cup {Outside}] /\ Epochs \cup {Outside} \subseteq Nat
    BY DEF DeliveryInv, Shape, Epochs, Outside
  <1>2. at[u] \in Nat
    BY <1>1
  <1>3. \/ UNCHANGED at
        \/ \E m \in net : OnApproved(m) \/ OnWelcome(m) \/ OnCommits(m)
        \/ \E j \in Joiners : AddByResponse(j)
    BY DEF Next, vars, admin, approvals, server, TakeReceiver, OnRefused, Unheard, JoinGroup, LeaveGroup, FetchWelcome, SyncEpoch, Approve,
           GiveUp, AdminStops, SendWelcome, SendCommit, OnStoreWelcome, OnUnknown,
           OnBufferCommit, Lose
  <1>4. CASE UNCHANGED at
    BY <1>2, <1>4
  <1>5. ASSUME NEW kp, NEW name, NEW path, AddMember(kp, name, path) PROVE at'[u] >= at[u]
    <2>1. PICK e \in Nat : e = at[Admin] + 1
      BY <1>1, NoOneIsNoJoiner
    <2>2. at' = [at EXCEPT ![Admin] = e]
      BY <1>5, <2>1 DEF AddMember
    <2>3. at'[u] = IF u = Admin THEN e ELSE at[u]
      BY <1>1, <2>2
    <2> QED
      BY <1>2, <2>1, <2>3
  <1>6. ASSUME NEW m \in net, OnWelcome(m) PROVE at'[u] >= at[u]
    <2>1. m.welcome.epoch \in Nat
      BY <1>1, <1>6 DEF DeliveryInv, Shape, MessageShape, OnWelcome, Carries, Welcome
    <2>2. CASE UNCHANGED at
      BY <1>2, <2>2
    <2>3. CASE at[m.user] = Outside /\ at' = [at EXCEPT ![m.user] = m.welcome.epoch]
      <3>1. at'[u] = IF u = m.user THEN m.welcome.epoch ELSE at[u]
        BY <1>1, <2>3
      <3> QED
        BY <1>2, <2>1, <2>3, <3>1 DEF Outside
    <2> QED
      BY <1>6, <2>2, <2>3 DEF OnWelcome, CanJoin
  <1>7. ASSUME NEW m \in net, OnCommits(m) PROVE at'[u] >= at[u]
    <2>1. PICK e : /\ e = IF at[m.user] = Outside THEN at[m.user]
                          ELSE CaughtUp(at[m.user], m.commits)
                   /\ at' = [at EXCEPT ![m.user] = e]
      BY <1>7 DEF OnCommits
    <2>2. at'[u] = IF u = m.user THEN e ELSE at[u]
      BY <1>1, <2>1
    <2>3. m.commits \in Seq(Rows)
      BY <1>7 DEF DeliveryInv, Shape, MessageShape, OnCommits
    <2>4. CASE u = m.user /\ at[u] # Outside
      <3>1. at[u] \in Epochs \cup {Outside}
        BY <1>1
      <3>2. CaughtUp(at[u], m.commits) >= at[u]
        BY <2>3, <3>1, CaughtUpType
      <3> QED
        BY <2>1, <2>2, <2>4, <3>2
    <2>5. CASE ~(u = m.user /\ at[u] # Outside)
      BY <1>2, <2>1, <2>2, <2>5
    <2> QED
      BY <2>4, <2>5
  <1> QED
    BY <1>3, <1>4, <1>5, <1>6, <1>7 DEF OnApproved, AddApproved, CannotAdd, AddByResponse

-----------------------------------------------------------------------------
(* Nobody is lost *)

\* The trace of a joiner: its approval's answer, then what brings it into the
\* group, then the group.
Answered(j) == \E m \in net : m.action = "approveGroupResponse" /\ m.user = j
Sent(j)     == \E m \in net : m.action \in {"storeWelcome", "fetchWelcomeResponse"} /\ m.user = j
Brought(j)  == Unstored(j) \/ Sent(j) \/ welcomes[j] # NoWelcome \/ at[j] # Outside
Traced(j)   == /\ status[j] = "member" /\ tree[j] = "no" => Answered(j)
               /\ tree[j] = "approve" => Brought(j)

LEMMA NothingLostIsTraced ==
    NothingLost <=> (faults = 0 /\ ~leftOver => \A j \in Joiners : Traced(j))
  BY DEF NothingLost, NoneLost, Traced, Answered, Sent, Brought, WelcomesFor

\* A step that leaves the tables and takes nothing away.
LEMMA MoreSent ==
    ASSUME NEW j \in Joiners, Traced(j), net \subseteq net',
           UNCHANGED <<status, tree, adding, welcomes, at>>
    PROVE  Traced(j)'
  BY DEF Traced, Answered, Sent, Brought, Unstored

\* A handled message that is neither an answer nor a welcome.
LEMMA OtherHandled ==
    ASSUME NEW j \in Joiners, Traced(j), NEW m \in net, net' = net \ {m},
           m.action \notin {"approveGroupResponse", "storeWelcome", "fetchWelcomeResponse"},
           UNCHANGED <<status, tree, adding, welcomes>>, at[j] # Outside => at'[j] # Outside
    PROVE  Traced(j)'
  BY DEF Traced, Answered, Sent, Brought, Unstored

\* Without a fault each step keeps the trace.
LEMMA TracedByJoiner ==
    ASSUME DeliveryInv, Roles, ~Fault, NEW j \in Joiners, Traced(j), NEW k \in Joiners,
           \/ JoinGroup(k) \/ LeaveGroup(k) \/ FetchWelcome(k)
           \/ SyncEpoch(k) \/ Approve(k)
    PROVE  Traced(j)'
  <1>1. CASE JoinGroup(k)
    <2>1. /\ status'[j] = "member" => status[j] = "member"
          /\ UNCHANGED <<tree, net, adding, welcomes, at>>
      BY <1>1 DEF JoinGroup, Roles, admin
    <2> QED
      BY <2>1 DEF Traced, Answered, Sent, Brought, Unstored
  <1>2. CASE LeaveGroup(k)
    BY <1>2 DEF LeaveGroup
  <1>3. CASE FetchWelcome(k)
    <2>1. PICK w : w = [action |-> "fetchWelcomeResponse", user |-> k, welcome |-> welcomes[k]]
      OBVIOUS
    <2>2. /\ net' = net \cup {w} /\ welcomes' = Removed(k)
          /\ UNCHANGED <<status, tree, adding, at>>
      BY <1>3, <2>1 DEF FetchWelcome, Send, admin
    <2>3. j # k => welcomes'[j] = welcomes[j]
      BY <2>2 DEF Removed, DeliveryInv, Shape
    <2>4. j = k => Sent(j)'
      BY <2>1, <2>2 DEF Sent
    <2> QED
      BY <2>2, <2>3, <2>4 DEF Traced, Answered, Sent, Brought, Unstored
  <1>4. CASE SyncEpoch(k)
    BY <1>4, MoreSent DEF SyncEpoch, Send, server, admin
  <1>5. CASE Approve(k)
    <2>1. /\ net' = net \cup {AnswerFor(k)} /\ status' = [status EXCEPT ![k] = "member"]
          /\ UNCHANGED <<tree, adding, welcomes, at>>
      BY <1>5 DEF Approve, Send, AnswerFor
    <2>2. j # k => status'[j] = status[j]
      BY <2>1 DEF Roles
    <2>3. j = k => Answered(j)'
      <3>1. AnswerFor(k) \in net'
        BY <2>1
      <3>2. AnswerFor(k).action = "approveGroupResponse" /\ AnswerFor(k).user = k
        BY DEF AnswerFor
      <3> QED
        BY <3>1, <3>2 DEF Answered
    <2> QED
      BY <2>1, <2>2, <2>3 DEF Traced, Answered, Sent, Brought, Unstored
  <1> QED
    BY <1>1, <1>2, <1>3, <1>4, <1>5

LEMMA TracedByAdmin ==
    ASSUME DeliveryInv, ~Fault, ~leftOver, NEW j \in Joiners, Traced(j), NEW a \in adding,
           SendWelcome(a) \/ SendCommit(a)
    PROVE  Traced(j)'
  <1>1. AddShape(a) /\ a.kp = a.name
    BY DEF DeliveryInv, Shape, InTime, Added
  <1>2. CASE SendCommit(a)
    <2>1. /\ net \subseteq net' /\ adding' = adding \ {a} /\ a.next = "commit"
          /\ UNCHANGED <<status, tree, welcomes, at>>
      BY <1>2 DEF SendCommit, Send, server
    <2>2. Unstored(j) => Unstored(j)'
      BY <2>1 DEF Unstored
    <2> QED
      BY <2>1, <2>2 DEF Traced, Answered, Sent, Brought
  <1>3. CASE SendWelcome(a)
    <2>1. /\ net' = net \cup {WelcomeMessage(a)} /\ adding \ {a} \subseteq adding'
          /\ UNCHANGED <<status, tree, welcomes, at>>
      BY <1>3 DEF SendWelcome, Send, server
    <2>2. Unstored(j) => Unstored(j)' \/ (a.kp = j /\ a.path = "approve")
      BY <2>1 DEF Unstored
    <2>3. a.kp = j /\ a.path = "approve" => Sent(j)'
      BY <1>1, <2>1, WelcomeSent DEF Sent
    <2> QED
      BY <2>1, <2>2, <2>3 DEF Traced, Answered, Sent, Brought
  <1> QED
    BY <1>2, <1>3

LEMMA TracedByMessage ==
    ASSUME "address" \in ValidIds, DeliveryInv, ~Fault, ~leftOver,
           NEW j \in Joiners, Traced(j), NEW m \in net,
           \/ OnStoreWelcome(m) \/ OnUnknown(m)
           \/ OnBufferCommit(m) \/ OnWelcome(m) \/ OnCommits(m)
    PROVE  Traced(j)'
  <1>1. MessageShape(m)
    BY DEF DeliveryInv, Shape
  <1>2. Answer(m, {}) => net' = net \ {m}
    BY DEF Answer
  <1>3. CASE OnStoreWelcome(m)
    <2>1. /\ net' = net \ {m} /\ welcomes' = [welcomes EXCEPT ![m.user] = m.welcome]
          /\ m.user \in Joiners /\ m.welcome # NoWelcome /\ m.action = "storeWelcome"
          /\ UNCHANGED <<status, tree, adding, at>>
      BY <1>1, <1>2, <1>3, NoWelcomeIsNone
      DEF OnStoreWelcome, StoreWelcome, MessageShape, Carries, admin
    <2>2. welcomes'[j] = IF j = m.user THEN m.welcome ELSE welcomes[j]
      BY <2>1 DEF DeliveryInv, Shape
    <2>3. Sent(j) => Sent(j)' \/ j = m.user
      BY <2>1 DEF Sent
    <2>4. Answered(j) => Answered(j)'
      BY <2>1 DEF Answered
    <2> QED
      BY <2>1, <2>2, <2>3, <2>4 DEF Traced, Brought, Unstored
  <1>4. CASE OnUnknown(m)
    BY <1>2, <1>4, OtherHandled DEF OnUnknown, server, admin
  <1>5. CASE OnBufferCommit(m)
    BY <1>2, <1>5, OtherHandled DEF OnBufferCommit, admin
  <1>6. CASE OnWelcome(m)
    <2>1. /\ net' = net \ {m} /\ m.action = "fetchWelcomeResponse" /\ m.user \in Joiners
          /\ m.welcome.epoch \in Epochs /\ m.welcome.kp = m.user
          /\ UNCHANGED <<status, tree, adding, welcomes>>
      BY <1>1, <1>2, <1>6
      DEF OnWelcome, MessageShape, Carries, Welcome, server, admin, DeliveryInv, InTime, Carried
    <2>2. at'[m.user] # Outside
      <3>1. CASE CanJoin(m.user, m.welcome)
        <4>1. at' = [at EXCEPT ![m.user] = m.welcome.epoch]
          BY <1>6, <3>1 DEF OnWelcome
        <4>2. Outside \notin Epochs
          BY DEF Epochs, Outside
        <4> QED
          BY <2>1, <4>1, <4>2, NoOneIsNoJoiner DEF DeliveryInv, Shape
      <3>2. CASE ~CanJoin(m.user, m.welcome)
        BY <1>6, <2>1, <3>2 DEF OnWelcome, CanJoin
      <3> QED
        BY <3>1, <3>2
    <2>3. j # m.user => at'[j] = at[j]
      <3>1. CASE CanJoin(m.user, m.welcome)
        <4>1. at' = [at EXCEPT ![m.user] = m.welcome.epoch]
          BY <1>6, <3>1 DEF OnWelcome
        <4> QED
          BY <4>1, NoOneIsNoJoiner DEF DeliveryInv, Shape
      <3>2. CASE ~CanJoin(m.user, m.welcome)
        BY <1>6, <3>2 DEF OnWelcome
      <3> QED
        BY <3>1, <3>2
    <2>4. Sent(j) => Sent(j)' \/ j = m.user
      BY <2>1 DEF Sent
    <2>5. Answered(j) => Answered(j)'
      BY <2>1 DEF Answered
    <2> QED
      BY <2>1, <2>2, <2>3, <2>4, <2>5 DEF Traced, Brought, Unstored
  <1>7. CASE OnCommits(m)
    <2>1. at'[j] >= at[j]
      BY <1>7, NeverBackStep, NoOneIsNoJoiner DEF Next
    <2>2. at[j] # Outside => at'[j] # Outside
      <3>1. at[j] \in Epochs \cup {Outside}
        BY NoOneIsNoJoiner DEF DeliveryInv, Shape
      <3> QED
        BY <2>1, <3>1 DEF Epochs, Outside
    <2>3. /\ net' = net \ {m} /\ m.action = "syncEpochResponse"
          /\ UNCHANGED <<status, tree, adding, welcomes>>
      BY <1>2, <1>7 DEF OnCommits, server, admin
    <2> QED
      BY <2>2, <2>3, OtherHandled
  <1> QED
    BY <1>3, <1>4, <1>5, <1>6, <1>7

LEMMA TracedByAdd ==
    ASSUME DeliveryInv, NEW j \in Joiners, Traced(j), NEW k \in Joiners, NEW name,
           NEW path \in {"approve", "response"}, tree[k] = "no", AddMember(k, name, path),
           UNCHANGED <<status, welcomes>>, net' \subseteq net,
           \A m \in net \ net' : m.action = "approveGroupResponse" /\ m.user = k
    PROVE  Traced(j)'
  <1>1. PICK e \in Epochs : adding' = adding \cup {AddRecord(k, name, path, e, "welcome")}
    BY AddedRow DEF DeliveryInv
  <1>2. tree'[j] = IF j = k THEN path ELSE tree[j]
    BY DEF AddMember, DeliveryInv, Counted
  <1>3. j = k /\ path = "approve" => Unstored(j)'
    <2>1. PICK a : a = AddRecord(k, name, path, e, "welcome")
      OBVIOUS
    <2>2. a.kp = k /\ a.path = path /\ a.next = "welcome"
      BY <2>1 DEF AddRecord
    <2>3. a \in adding'
      BY <1>1, <2>1
    <2> QED
      BY <2>2, <2>3 DEF Unstored
  <1>4. Unstored(j) => Unstored(j)'
    BY <1>1 DEF Unstored
  <1>5. at'[j] = at[j]
    BY NoOneIsNoJoiner DEF AddMember, DeliveryInv, Shape
  <1>6. (Sent(j) => Sent(j)') /\ (j # k /\ Answered(j) => Answered(j)')
    BY DEF Sent, Answered
  <1>7. CASE j = k
    BY <1>2, <1>3, <1>7 DEF Traced, Brought
  <1>8. CASE j # k
    BY <1>2, <1>4, <1>5, <1>6, <1>8 DEF Traced, Brought
  <1> QED
    BY <1>7, <1>8

LEMMA TracedStep ==
    ASSUME "address" \in ValidIds, DeliveryInv, Roles, ~Fault, ~leftOver', ~leftOver,
           NEW j \in Joiners, Traced(j), [Next]_vars
    PROVE  Traced(j)'
  <1>1. ASSUME NEW k \in Joiners, AddByResponse(k) PROVE Traced(j)'
    BY <1>1, TracedByAdd DEF AddByResponse, server
  <1>2. ASSUME NEW m \in net, OnApproved(m) PROVE Traced(j)'
    <2>1. /\ m.user \in Joiners /\ m.action = "approveGroupResponse" /\ net' = net \ {m}
          /\ UNCHANGED <<status, welcomes>>
      BY <1>2 DEF OnApproved, AddApproved, CannotAdd, Answer, DeliveryInv, Shape, MessageShape,
                  server
    <2>2. CASE tree[m.user] = "no" /\ AddMember(m.user, wait, "approve")
      BY <2>1, <2>2, TracedByAdd
    <2>3. CASE tree[m.user] # "no" /\ UNCHANGED <<at, tree, adding>>
      <3>1. tree[j] = "no" /\ Answered(j) => Answered(j)'
        BY <2>1, <2>3 DEF Answered
      <3>2. Sent(j) => Sent(j)'
        BY <2>1 DEF Sent
      <3> QED
        BY <2>1, <2>3, <3>1, <3>2 DEF Traced, Brought, Unstored
    <2> QED
      BY <1>2, <2>2, <2>3 DEF OnApproved, AddApproved, CannotAdd
  <1>3. ASSUME UNCHANGED vars PROVE Traced(j)'
    BY <1>3, MoreSent DEF vars
  <1>4. CASE GiveUp \/ AdminStops \/ \E m \in net : Lose(m) \/ Unheard(m)
    BY <1>4 DEF GiveUp, AdminStops, Lose, Unheard
  <1>5. ASSUME NEW k \in Joiners, TakeReceiver(k) PROVE Traced(j)'
    BY <1>5, MoreSent DEF TakeReceiver, server
  <1>6. ASSUME NEW m \in net, OnRefused(m) PROVE Traced(j)'
    BY <1>6, OtherHandled DEF OnRefused, Answer, server
  <1> QED
    BY <1>1, <1>2, <1>3, <1>4, <1>5, <1>6, TracedByJoiner, TracedByAdmin, TracedByMessage DEF Next

LEMMA NothingLostStep ==
    ASSUME "address" \in ValidIds, DeliveryInv, LogInv, Roles, NothingLost, [Next]_vars
    PROVE  NothingLost'
  <1> SUFFICES ASSUME faults' = 0, ~leftOver', NEW j \in Joiners
               PROVE  Traced(j)'
    BY DEF NothingLost, NoneLost, Traced, Answered, Sent, Brought, WelcomesFor
  <1>1. faults = 0 /\ ~Fault
    BY FaultsGrow DEF LogInv
  <1>2. ~leftOver
    BY DEF Next, vars, admin, approvals, server, TakeReceiver, OnRefused, Unheard, JoinGroup, LeaveGroup, FetchWelcome, SyncEpoch, Approve,
           AddByResponse, GiveUp, AdminStops, SendWelcome, SendCommit, OnApproved,
           OnStoreWelcome, OnUnknown, OnBufferCommit, OnWelcome, OnCommits, Lose,
           DeliveryInv, Shape
  <1>3. Traced(j)
    BY <1>1, <1>2, NothingLostIsTraced
  <1> QED
    BY <1>1, <1>2, <1>3, TracedStep

-----------------------------------------------------------------------------
(* The theorems *)

\* In every reachable state messages have their fields and the log has the last
\* ids; and as long as each approve_member alone could read its answer, one
\* approval at most is unfinished, its answer is the only one under way, and
\* every welcome names the user it was made for.
THEOREM GdInvariance == Spec => [](DeliveryInv /\ LogInv /\ Roles)
  <1>1. Init => DeliveryInv /\ LogInv /\ Roles
    BY DeliveryInit, LogInit, RolesInit
  <1>2. DeliveryInv /\ LogInv /\ Roles /\ [Next]_vars
         => (DeliveryInv /\ LogInv /\ Roles)'
    BY DeliveryStep, LogStep, RolesStep
  <1> QED
    BY <1>1, <1>2, PTL DEF Spec

\* The type invariant: the admin's epoch counts the members that were added,
\* so that epochs stay in their range, and pages and joins lead to epochs.
THEOREM GdTypeCorrect == Spec => []TypeOK
  <1>1. DeliveryInv /\ LogInv /\ Roles => TypeOK
    <2> SUFFICES ASSUME DeliveryInv, LogInv, Roles PROVE TypeOK
      OBVIOUS
    <2>1. \A i \in DOMAIN log : /\ CommitIn(log[i]) \in Commit
                                /\ log[i].id \in 1 .. lastId
                                /\ i > 1 => log[i - 1].id < log[i].id
      <3>1. DOMAIN log = 1..Len(log) /\ \A i \in 1..Len(log) : log[i] \in Rows
        BY DEF DeliveryInv, Shape
      <3>2. \A i \in 1..Len(log) : CommitIn(log[i]) \in Commit
        BY <3>1 DEF CommitIn, Commit, Rows
      <3> QED
        BY <3>1, <3>2 DEF LogInv, Rising
    <2>2. \A m \in net : m.action \in Actions /\ m.user \in Users
      BY NoOneIsNoJoiner DEF DeliveryInv, Shape, MessageShape
    <2>3. lastId \in Nat /\ faults \in 0..MaxFaults
      BY DEF LogInv
    <2> QED
      BY <2>1, <2>2, <2>3 DEF TypeOK, DeliveryInv, Shape, Counted, Roles, AddShape
  <1> QED
    BY <1>1, GdInvariance, PTL

\* Every welcome on the way to a user opens with that user's key package, as long
\* as each approve_member was the only one from its send to its answer, found the
\* receiver there and did not give up, and no answer came twice (groups.rs sends
\* the approval before it takes the receiver, and answers hold no user name).
THEOREM GdWelcomeInTime == Spec => []WelcomeForTargetInTime
  <1>1. DeliveryInv => WelcomeForTargetInTime
    BY DEF DeliveryInv, Shape, InTime, Carried, Carries, Stored,
           WelcomeForTargetInTime, WelcomeForTarget, WelcomesFor
  <1> QED
    BY <1>1, GdInvariance, PTL

\* Where a page holds what the clean-up keeps, a member who asks from 0 on gets
\* the last Keep commits, unless a clean-up failed.
THEOREM GdNewestInPage ==
    ASSUME Keep <= Page
    PROVE  Spec => []NewestInPage
  <1>1. DeliveryInv /\ LogInv => NewestInPage
    <2> SUFFICES ASSUME DeliveryInv, LogInv, faults = 0, NEW id \in 1..lastId, id > lastId - Keep
                 PROVE  \E i \in DOMAIN PageOf(log) : PageOf(log)[i].id = id
      BY DEF NewestInPage
    <2>1. /\ log \in Seq(Rows) /\ lastId \in Nat /\ Len(log) = Newest
          /\ \A i \in 1..Len(log) : log[i].id = lastId - Len(log) + i
      BY DEF LogInv, DeliveryInv, Shape
    <2>2. Len(log) <= Page /\ Len(log) <= lastId /\ Len(log) \in Nat
      BY <2>1, LimitAssumption DEF Newest
    <2>3. PICK i \in Int : i = id - lastId + Len(log)
      BY <2>1, <2>2
    <2>4. i \in 1..Len(log)
      BY <2>1, <2>2, <2>3, LimitAssumption DEF Newest
    <2>5. log[i].id = id
      BY <2>1, <2>2, <2>3, <2>4
    <2>6. PageOf(log) = SubSeq(log, 1, Len(log))
      BY <2>2, LimitAssumption DEF PageOf
    <2>7. DOMAIN PageOf(log) = 1..Len(log) /\ PageOf(log)[i] = log[i]
      BY <2>1, <2>2, <2>4, <2>6
    <2> QED
      BY <2>4, <2>5, <2>7
  <1> QED
    BY <1>1, GdInvariance, PTL

\* Without a fault, and on the same condition, a user who was approved is in the
\* group, or what brings the user there is under way or kept, if the server takes
\* the group's address for a group id.
THEOREM GdNothingLost ==
    ASSUME "address" \in ValidIds
    PROVE  Spec => []NothingLost
  <1>1. Init => NothingLost
    BY DEF Init, NothingLost, NoneLost
  <1>2. DeliveryInv /\ LogInv /\ Roles /\ NothingLost /\ [Next]_vars => NothingLost'
    BY NothingLostStep
  <1> QED
    BY <1>1, <1>2, GdInvariance, PTL DEF Spec

\* The premise is needed: a server that refuses both kinds of ids stores no
\* welcome and no commit, whatever the admin sends (handle_store_welcome and
\* handle_buffer_commit return before they reach the tables).
THEOREM GdRefusedIds ==
    ASSUME ValidIds = {}
    PROVE  Spec => [](log = <<>> /\ \A j \in Joiners : welcomes[j] = NoWelcome)
  <1> DEFINE Empty == log = <<>> /\ \A j \in Joiners : welcomes[j] = NoWelcome
  <1>1. Init => Empty
    BY DEF Init
  <1>2. Empty /\ [Next]_vars => Empty'
    <2> SUFFICES ASSUME Empty, [Next]_vars PROVE Empty'
      OBVIOUS
    <2>1. \/ UNCHANGED <<welcomes, log>>
          \/ \E m \in net : OnStoreWelcome(m) \/ OnBufferCommit(m)
          \/ \E j \in Joiners : FetchWelcome(j)
      BY DEF Next, vars, server, TakeReceiver, OnRefused, Unheard, JoinGroup, LeaveGroup, SyncEpoch, Approve, AddByResponse,
             GiveUp, AdminStops, AddMember, SendWelcome, SendCommit, OnApproved, OnUnknown,
             OnWelcome, OnCommits, Lose
    <2>2. ~ \E j \in Joiners : FetchWelcome(j)
      BY DEF FetchWelcome
    <2>3. ASSUME NEW m \in net, OnStoreWelcome(m) \/ OnBufferCommit(m)
          PROVE  UNCHANGED <<welcomes, log>>
      BY <2>3 DEF OnStoreWelcome, OnBufferCommit
    <2> QED
      BY <2>1, <2>2, <2>3
  <1> QED
    BY <1>1, <1>2, PTL DEF Spec

\* No client's epoch goes back, whatever arrives again or late.
THEOREM GdNeverBack == Spec => NeverBack
  <1>1. DeliveryInv /\ [Next]_vars => [\A u \in Users : at'[u] >= at[u]]_vars
    BY NeverBackStep
  <1> QED
    BY <1>1, GdInvariance, PTL DEF Spec, NeverBack

=============================================================================
