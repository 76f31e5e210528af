------------------------- MODULE KeyPackagesProofs -------------------------
(* Theorems about key packages, for every value of the constants. *)
EXTENDS KeyPackages, FiniteSetTheorems, TLAPS

USE TargetAssumption, NoKpAssumption, ParametersAssumption

-----------------------------------------------------------------------------
(* Counting, windows, difficulty *)

\* A count above one stands for two different elements.
LEMMA TwoElements ==
  ASSUME NEW S, IsFiniteSet(S), Cardinality(S) > 1
  PROVE  \E x, y \in S : x # y
<1> SUFFICES ASSUME \A x, y \in S : x = y PROVE FALSE
  OBVIOUS
<1>1. CASE S = {}
  BY <1>1, FS_EmptySet
<1>2. CASE S # {}
  <2>1. PICK x \in S : TRUE
    BY <1>2
  <2>2. S = {x}
    BY <2>1
  <2>3. Cardinality(S) = 1
    BY <2>2, FS_Singleton
  <2> QED
    BY <2>3
<1> QED
  BY <1>1, <1>2

LEMMA CountType ==
  ASSUME IsFiniteSet(kps), NEW u
  PROVE  IsFiniteSet(StockOf(u)) /\ Count(u) \in Nat
<1>1. IsFiniteSet(StockOf(u))
  BY FS_Subset DEF StockOf
<1> QED
  BY <1>1, FS_CardinalityType DEF Count

\* The difficulty grows by at most 8.
LEMMA DifficultyType ==
  ASSUME NEW n \in Nat
  PROVE  Difficulty(n) \in Base .. Base + 8
BY DEF Difficulty

\* A challenge that is accepted is less than two windows old.
LEMMA WindowAge ==
  ASSUME NEW t \in Nat, NEW n \in Nat,
         n \div Window <= (t \div Window) + 1
  PROVE  n < t + 2 * Window
<1> DEFINE q == n \div Window
           p == t \div Window
<1>1. q \in Nat /\ p \in Nat /\ n < Window * q + Window /\ Window * p <= t
  OBVIOUS
<1>2. Window * q <= Window * (p + 1)
  BY <1>1
<1>3. Window * (p + 1) = Window * p + Window
  BY <1>1
<1> HIDE DEF q, p
<1>4. Window * q \in Nat /\ Window * p \in Nat
  BY <1>1
<1>5. n < Window * p + 2 * Window
  BY <1>1, <1>2, <1>3, <1>4
<1> QED
  BY <1>1, <1>4, <1>5

LEMMA WindowType ==
  ASSUME NEW n \in Times
  PROVE  n \div Window \in Times
BY DEF Times

-----------------------------------------------------------------------------
(* Types *)

LEMMA TypeInit == Init => TypeOK
BY DEF Init, TypeOK, Times

LEMMA TypeStep == Inv /\ [Next]_vars => TypeOK'
<1> SUFFICES ASSUME Inv, [Next]_vars PROVE TypeOK'
  OBVIOUS
<1> USE DEF server, clients, Return
<1>0. TypeOK /\ IsFiniteSet(kps)
  BY DEF Inv, RowsSound
<1>1. CASE UNCHANGED vars
  BY <1>0, <1>1 DEF TypeOK, vars
<1>2. ASSUME NEW u \in Users, Login(u) PROVE TypeOK'
  <2>1. PICK heard \in 0 .. notices[u] :
           outbox' = [outbox EXCEPT ![u] = Batch * (1 + heard)]
    BY <1>2 DEF Login, ToPublish
  <2>2. heard \in 0 .. MaxNotices
    BY <1>0, <2>1 DEF TypeOK
  <2>3. Batch * (1 + heard) \in 0 .. Batch * (1 + MaxNotices)
    BY <2>2
  <2>4. outbox' \in [Users -> 0 .. Batch * (1 + MaxNotices)]
    BY <1>0, <2>1, <2>3 DEF TypeOK
  <2>5. notices' \in [Users -> 0 .. MaxNotices]
    BY <1>0, <1>2 DEF TypeOK, Login, ToPublish
  <2> QED
    BY <1>0, <1>2, <2>4, <2>5 DEF TypeOK, Login, ToPublish
<1>3. ASSUME NEW u \in Users, PublishFails(u) PROVE TypeOK'
  <2>1. outbox' \in [Users -> 0 .. Batch * (1 + MaxNotices)]
    BY <1>0, <1>3 DEF TypeOK, PublishFails
  <2> QED
    BY <1>0, <1>3, <2>1 DEF TypeOK, PublishFails
<1>4. ASSUME NEW u \in Users, NEW k \in Kps, Publish(u, k) PROVE TypeOK'
  <2>1. outbox' \in [Users -> 0 .. Batch * (1 + MaxNotices)]
    BY <1>0, <1>4 DEF TypeOK, Publish
  <2>2. kps' \subseteq Row /\ owner' \in [Kps -> Users \cup {NoKp}]
    BY <1>0, <1>4 DEF TypeOK, Publish, Row
  <2> QED
    BY <1>0, <1>4, <2>1, <2>2 DEF TypeOK, Publish
<1>5. ASSUME NEW f \in Fetchers, Ask(f) PROVE TypeOK'
  BY <1>0, <1>5 DEF TypeOK, Ask
<1>6. ASSUME NEW f \in Fetchers, Grind(f) PROVE TypeOK'
  <2>1. chal[f] \in Challenge /\ chal[f].bits <= Base + 8
    BY <1>6 DEF Inv, ChallengesSound, Grind
  <2>2. \A extra \in 0 .. ExtraBits :
           [chal[f] EXCEPT !.bits = @ + extra] \in Challenge
    BY <2>1 DEF Challenge, Bits
  <2>3. fetches' \subseteq Challenge
    BY <1>0, <1>6, <2>2 DEF TypeOK, Grind
  <2> QED
    BY <1>0, <1>6, <2>3 DEF TypeOK, Grind
<1>7. ASSUME NEW f \in Fetchers, Timeout(f) PROVE TypeOK'
  BY <1>0, <1>7 DEF TypeOK, Timeout
<1>8. ASSUME NEW f \in Fetchers, ChallengeRefused(f) PROVE TypeOK'
  <2>1. notices' \in [Users -> 0 .. MaxNotices]
    BY <1>0, <1>8 DEF TypeOK, ChallengeRefused
  <2> QED
    BY <1>0, <1>8, <2>1 DEF TypeOK, ChallengeRefused
<1>9. ASSUME NEW f \in Fetchers, ChallengeHeldBack(f) PROVE TypeOK'
  BY <1>0, <1>9 DEF TypeOK, ChallengeHeldBack
<1>10. ASSUME NEW f \in Fetchers, ChallengeIssued(f) PROVE TypeOK'
  <2>1. Difficulty(Count(Target[f])) \in Bits
    BY <1>0, CountType, DifficultyType DEF Bits
  <2>2. CurrentWindow \in Times
    BY <1>0, WindowType DEF TypeOK, CurrentWindow
  <2>3. offers' \subseteq Challenge
    BY <1>0, <1>10, <2>1, <2>2 DEF TypeOK, ChallengeIssued, Challenge
  <2> QED
    BY <1>0, <1>10, <2>3 DEF TypeOK, ChallengeIssued
<1>11. ASSUME NEW c \in offers, GetChallenge(c) PROVE TypeOK'
  <2>1. c \in Challenge /\ c.from \in Fetchers
    BY <1>0 DEF TypeOK, Challenge
  <2> QED
    BY <1>0, <1>11, <2>1 DEF TypeOK, GetChallenge
<1>12. ASSUME NEW r \in replies, GetKp(r) PROVE TypeOK'
  <2>1. r.to \in Fetchers /\ r.kp \in Kps
    BY <1>0 DEF TypeOK, Reply
  <2> QED
    BY <1>0, <1>12, <2>1 DEF TypeOK, GetKp
<1>13. ASSUME NEW m \in fetches, FetchVerified(m) PROVE TypeOK'
  BY <1>0, <1>13 DEF TypeOK, FetchVerified
<1>14. ASSUME NEW m \in fetches, FetchRefused(m) PROVE TypeOK'
  BY <1>0, <1>14 DEF TypeOK, FetchRefused
<1>15. CASE ConsumeCount
  BY <1>0, <1>15 DEF TypeOK, ConsumeCount
<1>16. CASE ConsumeSelect
  <2>1. \A r \in OldestOf(req.user) : r.kp \in Kps
    BY <1>0 DEF TypeOK, OldestOf, StockOf, Row
  <2> QED
    BY <1>0, <1>16, <2>1 DEF TypeOK, ConsumeSelect
<1>17. CASE ConsumeDelete
  BY <1>0, <1>17 DEF TypeOK, ConsumeDelete
<1>18. CASE FetchReply
  <2>1. req \in Challenge /\ pick \in Kps
    BY <1>18 DEF Inv, HandlerSound, FetchReply
  <2>2. replies' \subseteq Reply
    BY <1>0, <1>18, <2>1 DEF TypeOK, FetchReply, Challenge, Reply
  <2>3. given' \subseteq [kp : Kps, to : Fetchers, at : Times]
    BY <1>0, <1>18, <2>1 DEF TypeOK, FetchReply, Challenge
  <2> QED
    BY <1>0, <1>18, <2>2, <2>3 DEF TypeOK, FetchReply
<1>19. CASE CleanupExpired
  BY <1>0, <1>19 DEF TypeOK, CleanupExpired
<1>20. CASE Crash
  BY <1>0, <1>20 DEF TypeOK, Crash
<1>21. CASE Tick
  BY <1>0, <1>21 DEF TypeOK, Tick, Times
<1> QED
  BY <1>1, <1>2, <1>3, <1>4, <1>5, <1>6, <1>7, <1>8, <1>9, <1>10, <1>11,
     <1>12, <1>13, <1>14, <1>15, <1>16, <1>17, <1>18, <1>19, <1>20, <1>21
  DEF Next

-----------------------------------------------------------------------------
(* The other parts of the invariant.  Most actions leave the table and the  *)
(* handler alone.                                                           *)

\* The actions of clients and of the clock
Outside ==
    \/ \E u \in Users : Login(u) \/ PublishFails(u)
    \/ \E f \in Fetchers : Ask(f) \/ Grind(f) \/ Timeout(f)
    \/ \E c \in offers : GetChallenge(c)
    \/ \E r \in replies : GetKp(r)
    \/ Tick
    \/ UNCHANGED vars

\* The actions of the server on a challenge request
Challenging ==
    \E f \in Fetchers : \/ ChallengeRefused(f)
                       \/ ChallengeHeldBack(f)
                       \/ ChallengeIssued(f)

LEMMA Steps ==
  ASSUME [Next]_vars
  PROVE  \/ Outside
         \/ Challenging
         \/ \E u \in Users, k \in Kps : Publish(u, k)
         \/ \E m \in fetches : FetchVerified(m) \/ FetchRefused(m)
         \/ ConsumeCount
         \/ ConsumeSelect
         \/ ConsumeDelete
         \/ FetchReply
         \/ CleanupExpired
         \/ Crash
BY DEF Next, Outside, Challenging

LEMMA OutsideFrame ==
  ASSUME Outside
  PROVE  UNCHANGED <<kps, phase, req, pick, owner, given, started>>
BY DEF Outside, Login, PublishFails, Ask, Grind, Timeout, GetChallenge, GetKp,
       Tick, vars, server

LEMMA ChallengingFrame ==
  ASSUME Challenging
  PROVE  /\ phase = "idle"
         /\ UNCHANGED <<kps, phase, req, pick, owner, given, started>>
         /\ UNCHANGED <<clients, fetches, replies>>
BY DEF Challenging, ChallengeRefused, ChallengeHeldBack, ChallengeIssued,
       server, clients

LEMMA PublishFrame ==
  ASSUME Inv, NEW u \in Users, NEW k \in Kps, Publish(u, k)
  PROVE  /\ phase = "idle"
         /\ UNCHANGED <<phase, req, pick, given, started>>
         /\ UNCHANGED <<clients, fetches, offers, replies>>
         /\ owner[k] = NoKp /\ owner'[k] = u
         /\ \A q \in Kps : q # k => owner'[q] = owner[q]
         /\ \A r \in kps : r.kp # k
         /\ kps' = kps \cup {[kp |-> k, user |-> u, at |-> now]}
<1>1. TypeOK
  BY DEF Inv
<1>2. \A r \in kps : r.kp \in Kps /\ r.user \in Users /\ owner[r.kp] = r.user
  BY <1>1 DEF Inv, RowsSound, TypeOK, Row
<1> QED
  BY <1>1, <1>2 DEF Publish, Unused, TypeOK, clients

LEMMA RowsStep == Inv /\ [Next]_vars => RowsSound'
<1> SUFFICES ASSUME Inv, [Next]_vars PROVE RowsSound'
  OBVIOUS
<1>0. RowsSound /\ TypeOK
  BY DEF Inv
<1>1. CASE UNCHANGED <<kps, owner>>
  BY <1>0, <1>1 DEF RowsSound
<1>2. ASSUME owner' = owner, kps' \subseteq kps PROVE RowsSound'
  <2>1. IsFiniteSet(kps')
    BY <1>0, <1>2, FS_Subset DEF RowsSound
  <2> QED
    BY <1>0, <1>2, <2>1 DEF RowsSound
<1>3. ASSUME NEW u \in Users, NEW k \in Kps, Publish(u, k)
      PROVE  RowsSound'
  <2>0. kps' = kps \cup {[kp |-> k, user |-> u, at |-> now]}
    BY <1>3, PublishFrame
  <2>1. IsFiniteSet(kps')
    BY <1>0, <2>0, FS_AddElement DEF RowsSound
  <2>2. \A r \in kps' : owner'[r.kp] = r.user
    BY <1>0, <1>3, PublishFrame DEF RowsSound, TypeOK, Row
  <2>3. \A r, q \in kps' : r.kp = q.kp => r = q
    BY <1>0, <1>3, PublishFrame DEF RowsSound
  <2> QED
    BY <2>1, <2>2, <2>3 DEF RowsSound
<1>4. CASE ConsumeDelete
  BY <1>2, <1>4 DEF ConsumeDelete
<1>5. CASE CleanupExpired
  BY <1>2, <1>5 DEF CleanupExpired
<1> QED
  BY <1>1, <1>3, <1>4, <1>5, Steps, OutsideFrame, ChallengingFrame
  DEF FetchVerified, FetchRefused, ConsumeCount, ConsumeSelect, FetchReply,
      Crash, server

LEMMA HandlerStep == Inv /\ [Next]_vars => HandlerSound'
<1> SUFFICES ASSUME Inv, [Next]_vars PROVE HandlerSound'
  OBVIOUS
<1>0. HandlerSound /\ TypeOK /\ RowsSound
  BY DEF Inv
<1>1. CASE UNCHANGED <<kps, phase, req, pick, owner, started>>
  BY <1>0, <1>1 DEF HandlerSound
<1>2. ASSUME phase' = "idle", pick' = NoKp PROVE HandlerSound'
  BY <1>2 DEF HandlerSound
<1>3. ASSUME NEW u \in Users, NEW k \in Kps, Publish(u, k)
      PROVE  HandlerSound'
  BY <1>0, <1>2, <1>3, PublishFrame DEF HandlerSound
<1>4. ASSUME NEW m \in fetches, FetchVerified(m) PROVE HandlerSound'
  <2>1. m \in Challenge /\ m.at \in Nat /\ now \in Nat
    BY <1>0 DEF TypeOK, Challenge, Times
  <2>2. m.user = Target[m.from] /\ m.window = m.at \div Window
    BY DEF Inv, ChallengesSound, ChallengeSound
  <2>3. now \div Window <= (m.at \div Window) + 1
    BY <1>4, <2>1, <2>2 DEF FetchVerified, AcceptedWindow, CurrentWindow
  <2>4. now < m.at + 2 * Window
    BY <2>1, <2>3, WindowAge
  <2>5. phase = "idle" /\ pick = NoKp
    BY <1>0, <1>4 DEF HandlerSound, FetchVerified
  <2> QED
    BY <1>4, <2>1, <2>2, <2>4, <2>5 DEF HandlerSound, FetchVerified
<1>5. ASSUME NEW m \in fetches, FetchRefused(m) PROVE HandlerSound'
  BY <1>1, <1>5 DEF FetchRefused, server
<1>6. CASE ConsumeCount
  <2>1. CASE phase' = "counted"
    <3>1. Count(req.user) > 1 /\ UNCHANGED <<req, pick, kps, owner, started>>
      BY <1>0, <1>6, <2>1, CountType
      DEF ConsumeCount, Return, HeldBack, RowsSound
    <3>2. \E x, y \in StockOf(req.user) : x # y
      BY <1>0, <3>1, CountType, TwoElements DEF Count, RowsSound
    <3>3. \E r, q \in kps : r # q /\ r.user = req.user /\ q.user = req.user
      BY <3>2 DEF StockOf
    <3> QED
      BY <1>0, <1>6, <2>1, <3>1, <3>3 DEF HandlerSound, ConsumeCount
  <2> QED
    BY <1>2, <1>6, <2>1 DEF ConsumeCount, Return
<1>7. CASE ConsumeSelect
  <2>1. CASE OldestOf(req.user) = {}
    BY <1>2, <1>7, <2>1 DEF ConsumeSelect, Return
  <2>2. CASE OldestOf(req.user) # {}
    <3>1. PICK r \in OldestOf(req.user) : pick' = r.kp
      BY <1>7, <2>2 DEF ConsumeSelect
    <3>2. r \in kps /\ r.user = req.user
      BY <3>1 DEF OldestOf, StockOf
    <3>3. \E q \in kps : q # r /\ q.user = req.user
      BY <1>0, <1>7 DEF HandlerSound, ConsumeSelect
    <3>4. phase' = "selected" /\ UNCHANGED <<kps, req, owner, started>>
      BY <1>7, <2>2 DEF ConsumeSelect
    <3>5. phase = "counted"
      BY <1>7 DEF ConsumeSelect
    <3> QED
      BY <1>0, <3>1, <3>2, <3>3, <3>4, <3>5 DEF HandlerSound
  <2> QED
    BY <2>1, <2>2
<1>8. CASE ConsumeDelete
  <2>1. PICK r \in kps : r.user = req.user /\ r.kp = pick
    BY <1>0, <1>8 DEF HandlerSound, ConsumeDelete
  <2>2. pick \in Kps /\ owner[pick] = req.user
    BY <1>0, <2>1 DEF TypeOK, Row, RowsSound
  <2> QED
    BY <1>0, <1>8, <2>2 DEF HandlerSound, ConsumeDelete
<1>9. CASE FetchReply
  BY <1>2, <1>9 DEF FetchReply, Return
<1>10. CASE Crash
  BY <1>2, <1>10 DEF Crash, Return
<1>11. CASE CleanupExpired
  BY <1>0, <1>2, <1>11 DEF CleanupExpired, HandlerSound
<1> QED
  BY <1>1, <1>3, <1>4, <1>5, <1>6, <1>7, <1>8, <1>9, <1>10, <1>11, Steps,
     OutsideFrame, ChallengingFrame

LEMMA ChallengesStep == Inv /\ [Next]_vars => ChallengesSound'
<1> SUFFICES ASSUME Inv, [Next]_vars PROVE ChallengesSound'
  OBVIOUS
<1>0. ChallengesSound /\ TypeOK
  BY DEF Inv
<1>1. ASSUME offers' \subseteq offers, fetches' \subseteq fetches,
             UNCHANGED <<state, chal>>
      PROVE  ChallengesSound'
  BY <1>0, <1>1 DEF ChallengesSound, ChallengeSound
<1>2. ASSUME NEW f \in Fetchers, Ask(f) \/ Timeout(f)
      PROVE  ChallengesSound'
  <2>1. /\ UNCHANGED <<offers, fetches>>
        /\ \A g \in Fetchers : state'[g] = "grinding" =>
              g # f /\ state[g] = "grinding" /\ chal'[g] = chal[g]
    BY <1>0, <1>2 DEF Ask, Timeout, TypeOK
  <2> QED
    BY <1>0, <2>1 DEF ChallengesSound, ChallengeSound
<1>3. ASSUME NEW f \in Fetchers, Grind(f) PROVE ChallengesSound'
  <2>1. chal[f] \in Challenge /\ ChallengeSound(chal[f])
    BY <1>0, <1>3 DEF ChallengesSound, Grind
  <2>2. PICK extra \in 0 .. ExtraBits :
           fetches' = fetches \cup {[chal[f] EXCEPT !.bits = @ + extra]}
    BY <1>3 DEF Grind
  <2>3. ChallengeSound([chal[f] EXCEPT !.bits = @ + extra])
    BY <2>1 DEF ChallengeSound, Challenge
  <2>4. \A c \in fetches' : ChallengeSound(c)
    BY <1>0, <2>2, <2>3 DEF ChallengesSound
  <2>5. /\ UNCHANGED <<offers, chal>>
        /\ \A g \in Fetchers : state'[g] = "grinding" => state[g] = "grinding"
    BY <1>0, <1>3 DEF Grind, TypeOK
  <2> QED
    BY <1>0, <2>4, <2>5 DEF ChallengesSound, ChallengeSound
<1>4. ASSUME NEW c \in offers, GetChallenge(c) PROVE ChallengesSound'
  <2>1. c \in Challenge /\ c.from \in Fetchers
    BY <1>0 DEF TypeOK, Challenge
  <2>2. ChallengeSound(c) /\ c.bits <= Base + 8
    BY <1>0 DEF ChallengesSound
  <2>3. offers' \subseteq offers /\ fetches' = fetches
    BY <1>4 DEF GetChallenge
  <2>4. \A g \in Fetchers : state'[g] = "grinding" =>
           \/ chal'[g] = c
           \/ state[g] = "grinding" /\ chal'[g] = chal[g]
    BY <1>0, <1>4, <2>1 DEF GetChallenge, TypeOK
  <2> QED
    BY <1>0, <2>1, <2>2, <2>3, <2>4 DEF ChallengesSound, ChallengeSound
<1>5. ASSUME NEW r \in replies, GetKp(r) PROVE ChallengesSound'
  <2>1. /\ UNCHANGED <<offers, fetches, chal>>
        /\ \A g \in Fetchers : state'[g] = "grinding" => state[g] = "grinding"
    BY <1>0, <1>5 DEF GetKp, TypeOK
  <2> QED
    BY <1>0, <2>1 DEF ChallengesSound, ChallengeSound
<1>6. ASSUME NEW f \in Fetchers, ChallengeIssued(f) PROVE ChallengesSound'
  <2>1. Count(Target[f]) \in Nat
    BY CountType DEF Inv, RowsSound
  <2>2. Difficulty(Count(Target[f])) <= Base + 8
    BY <2>1, DifficultyType
  <2>3. \A c \in offers' : ChallengeSound(c) /\ c.bits <= Base + 8
    BY <1>0, <1>6, <2>2
    DEF ChallengesSound, ChallengeSound, ChallengeIssued, CurrentWindow
  <2>4. UNCHANGED <<state, chal, fetches>>
    BY <1>6 DEF ChallengeIssued, clients
  <2> QED
    BY <1>0, <2>3, <2>4 DEF ChallengesSound, ChallengeSound
<1>7. CASE Outside
  BY <1>1, <1>2, <1>3, <1>4, <1>5, <1>7
  DEF Outside, Login, PublishFails, Tick, vars, clients
<1>8. CASE Challenging
  BY <1>1, <1>6, <1>8
  DEF Challenging, ChallengeRefused, ChallengeHeldBack, clients
<1>9. ASSUME NEW u \in Users, NEW k \in Kps, Publish(u, k)
      PROVE  ChallengesSound'
  BY <1>1, <1>9 DEF Publish, clients
<1>10. ASSUME NEW m \in fetches, FetchVerified(m) \/ FetchRefused(m)
       PROVE  ChallengesSound'
  BY <1>1, <1>10 DEF FetchVerified, FetchRefused, clients
<1> QED
  BY <1>1, <1>7, <1>8, <1>9, <1>10, Steps
  DEF ConsumeCount, ConsumeSelect, ConsumeDelete, FetchReply, CleanupExpired,
      Crash, clients

LEMMA GivenStep == Inv /\ [Next]_vars => GivenSound'
<1> SUFFICES ASSUME Inv, [Next]_vars PROVE GivenSound'
  OBVIOUS
<1>0. GivenSound /\ TypeOK /\ HandlerSound /\ RowsSound
  BY DEF Inv
<1>1. ASSUME UNCHANGED <<given, owner, replies, got>>, kps' \subseteq kps,
             pick' \in {pick, NoKp}
      PROVE  GivenSound'
  <2>1. \A g \in given : g.kp \in Kps
    BY <1>0 DEF TypeOK
  <2> QED
    BY <1>0, <1>1, <2>1 DEF GivenSound
<1>2. ASSUME NEW r \in replies, GetKp(r) PROVE GivenSound'
  <2>1. r.to \in Fetchers /\ r.kp \in Kps
    BY <1>0 DEF TypeOK, Reply
  <2>2. \E g \in given : g.kp = r.kp /\ g.to = r.to
    BY <1>0 DEF GivenSound
  <2>3. \A f \in Fetchers : got'[f] # got[f] => f = r.to /\ got'[f] = r.kp
    BY <1>0, <1>2, <2>1 DEF GetKp, TypeOK
  <2>4. \A f \in Fetchers : got'[f] # NoKp =>
           \E g \in given : g.kp = got'[f] /\ g.to = f
    BY <1>0, <2>2, <2>3 DEF GivenSound
  <2>5. replies' \subseteq replies /\ UNCHANGED <<given, owner, kps, pick>>
    BY <1>2 DEF GetKp, server
  <2> QED
    BY <1>0, <2>4, <2>5 DEF GivenSound
<1>3. ASSUME NEW u \in Users, NEW k \in Kps, Publish(u, k)
      PROVE  GivenSound'
  <2>1. /\ UNCHANGED <<given, replies, got, pick>>
        /\ \A q \in Kps : q # k => owner'[q] = owner[q]
        /\ owner[k] = NoKp
        /\ kps' = kps \cup {[kp |-> k, user |-> u, at |-> now]}
    BY <1>3, PublishFrame DEF clients
  <2>2. \A g \in given : /\ g.kp \in Kps /\ g.kp # k
                         /\ owner[g.kp] = Target[g.to]
                         /\ g.kp # pick
                         /\ \A r \in kps : r.kp # g.kp
    <3>1. \A g \in given : g.kp \in Kps /\ Target[g.to] \in Users
      BY <1>0 DEF TypeOK
    <3> QED
      BY <1>0, <2>1, <3>1 DEF GivenSound
  <2>3. \A g \in given' : /\ g.kp # pick'
                          /\ owner'[g.kp] = Target[g.to]
                          /\ \A r \in kps' : r.kp # g.kp
    BY <2>1, <2>2
  <2> QED
    BY <1>0, <2>1, <2>3 DEF GivenSound
<1>4. CASE ConsumeSelect
  <2>1. CASE OldestOf(req.user) = {}
    BY <1>1, <1>4, <2>1 DEF ConsumeSelect, Return, clients
  <2>2. CASE OldestOf(req.user) # {}
    <3>1. PICK r \in OldestOf(req.user) : pick' = r.kp
      BY <1>4, <2>2 DEF ConsumeSelect
    <3>2. r \in kps
      BY <3>1 DEF OldestOf, StockOf
    <3>3. \A g \in given : g.kp # pick'
      BY <1>0, <3>1, <3>2 DEF GivenSound
    <3>4. UNCHANGED <<given, owner, replies, got, kps>>
      BY <1>4 DEF ConsumeSelect, clients
    <3> QED
      BY <1>0, <3>3, <3>4 DEF GivenSound
  <2> QED
    BY <2>1, <2>2
<1>5. CASE FetchReply
  <2> DEFINE g0 == [kp |-> pick, to |-> req.from, at |-> req.at]
  <2>1. /\ pick \in Kps
        /\ owner[pick] = Target[req.from]
        /\ \A r \in kps : r.kp # pick
        /\ \A g \in given : g.kp # pick
    BY <1>0, <1>5 DEF HandlerSound, GivenSound, FetchReply
  <2>2. /\ given' = given \cup {g0}
        /\ replies' = replies \cup
              {[to |-> req.from, user |-> req.user, kp |-> pick]}
        /\ pick' = NoKp
        /\ UNCHANGED <<owner, kps, got>>
    BY <1>5 DEF FetchReply, Return, clients
  <2>3. \A g, h \in given' : g.kp = h.kp => g = h
    BY <1>0, <2>1, <2>2 DEF GivenSound
  <2>4. \A g \in given : g.kp \in Kps
    BY <1>0 DEF TypeOK
  <2>5. \A g \in given' : /\ g.kp # pick'
                          /\ owner'[g.kp] = Target[g.to]
                          /\ \A r \in kps' : r.kp # g.kp
    BY <1>0, <2>1, <2>2, <2>4 DEF GivenSound
  <2>6. \A r \in replies' : \E g \in given' : g.kp = r.kp /\ g.to = r.to
    <3> SUFFICES ASSUME NEW r \in replies'
                 PROVE  \E g \in given' : g.kp = r.kp /\ g.to = r.to
      OBVIOUS
    <3>1. CASE r \in replies
      BY <1>0, <2>2, <3>1 DEF GivenSound
    <3>2. CASE r = [to |-> req.from, user |-> req.user, kp |-> pick]
      <4>1. g0 \in given' /\ g0.kp = r.kp /\ g0.to = r.to
        BY <2>2, <3>2
      <4> QED
        BY <4>1
    <3> QED
      BY <2>2, <3>1, <3>2
  <2>7. \A f \in Fetchers : got'[f] # NoKp =>
           \E g \in given' : g.kp = got'[f] /\ g.to = f
    BY <1>0, <2>2 DEF GivenSound
  <2> QED
    BY <2>3, <2>5, <2>6, <2>7 DEF GivenSound
<1>6. CASE Outside
  BY <1>1, <1>2, <1>6
  DEF Outside, Login, PublishFails, Ask, Grind, Timeout, GetChallenge, Tick,
      vars, server, clients
<1>7. CASE Challenging
  BY <1>1, <1>7, ChallengingFrame DEF clients
<1>8. ASSUME NEW m \in fetches, FetchVerified(m) \/ FetchRefused(m)
      PROVE  GivenSound'
  BY <1>1, <1>8 DEF FetchVerified, FetchRefused, server, clients
<1>9. CASE ConsumeCount \/ ConsumeDelete \/ CleanupExpired \/ Crash
  BY <1>1, <1>9
  DEF ConsumeCount, ConsumeDelete, CleanupExpired, Crash, Return, clients
<1> QED
  BY <1>3, <1>4, <1>5, <1>6, <1>7, <1>8, <1>9, Steps

-----------------------------------------------------------------------------
(* The theorems *)

LEMMA InvInit == Init => Inv
<1> SUFFICES ASSUME Init PROVE Inv
  OBVIOUS
<1>1. TypeOK
  BY TypeInit
<1>2. RowsSound
  BY FS_EmptySet DEF Init, RowsSound
<1>3. HandlerSound
  BY DEF Init, HandlerSound
<1>4. ChallengesSound
  BY DEF Init, ChallengesSound
<1>5. GivenSound
  BY DEF Init, GivenSound
<1> QED
  BY <1>1, <1>2, <1>3, <1>4, <1>5 DEF Inv

LEMMA InvStep == Inv /\ [Next]_vars => Inv'
BY TypeStep, RowsStep, HandlerStep, ChallengesStep, GivenStep DEF Inv

\* Inv is an invariant: it holds initially and every step keeps it.
THEOREM KpInvariance == Spec => []Inv
<1> QED
  BY InvInit, InvStep, PTL DEF Spec

\* The state has its type: the rows, the handler's request, the challenges and
\* what the clients hold.
THEOREM KpTypeCorrect == Spec => []TypeOK
<1>1. Inv => TypeOK
  BY DEF Inv
<1> QED
  BY <1>1, KpInvariance, PTL

\* No key package is handed out twice, and a client gets one of the user it
\* asked for (FetchReply, consume_key_package).
THEOREM KpGivenOnce == Spec => []GivenOnce
<1>1. Inv => GivenOnce
  <2> SUFFICES ASSUME Inv PROVE GivenOnce
    OBVIOUS
  <2>1. GivenSound
    BY DEF Inv
  <2>2. \A f, g \in Fetchers : got[f] # NoKp /\ got[f] = got[g] => f = g
    BY <2>1 DEF GivenSound
  <2>3. \A f \in Fetchers : got[f] # NoKp => owner[got[f]] = Target[f]
    BY <2>1 DEF GivenSound
  <2> QED
    BY <2>1, <2>2, <2>3 DEF GivenSound, GivenOnce
<1> QED
  BY <1>1, KpInvariance, PTL

\* No key package is handed out against a challenge of two windows ago.
THEOREM KpChallengeAge == Spec => []ChallengeAge
<1>1. Inv => ChallengeAge
  BY DEF Inv, HandlerSound, ChallengeAge
<1> QED
  BY <1>1, KpInvariance, PTL

\* A fetch never takes the last row of a user.
THEOREM KpLastRowKept == Spec => LastRowKept
<1> DEFINE A == \A u \in Users :
                   phase = "selected" /\ (\E r \in kps : r.user = u)
                      => \E r \in kps' : r.user = u
<1>1. Inv /\ [Next]_vars => A
  <2> SUFFICES ASSUME Inv, [Next]_vars, NEW u \in Users, phase = "selected",
                      NEW r \in kps, r.user = u
               PROVE  \E q \in kps' : q.user = u
    OBVIOUS
  <2>1. CASE ConsumeDelete
    <3>1. PICK p, q \in kps : p # q /\ p.user = req.user
                              /\ q.user = req.user /\ p.kp = pick
      BY DEF Inv, HandlerSound
    <3>2. q.kp # pick
      BY <3>1 DEF Inv, RowsSound
    <3>3. q \in kps' /\ (r.kp # pick => r \in kps')
      BY <2>1, <3>2 DEF ConsumeDelete
    <3>4. r.kp = pick => r = p
      BY <3>1 DEF Inv, RowsSound
    <3> QED
      BY <3>1, <3>3, <3>4
  <2>2. CASE kps' = kps
    BY <2>2
  <2>3. ~CleanupExpired /\ \A v \in Users, k \in Kps : ~Publish(v, k)
    BY DEF CleanupExpired, Publish
  <2> QED
    BY <2>1, <2>2, <2>3, Steps, OutsideFrame, ChallengingFrame
    DEF FetchVerified, FetchRefused, ConsumeCount, ConsumeSelect, FetchReply,
        Crash, server
<1>2. Inv /\ [Next]_vars => [A]_vars
  BY <1>1
<1> QED
  BY <1>2, KpInvariance, PTL DEF Spec, LastRowKept
=============================================================================
