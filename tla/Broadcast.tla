----------------------------- MODULE Broadcast -----------------------------
(***************************************************************************)
(* What a group promises its members about what is said in it, with none   *)
(* of the hashes, statements, fetches and pages of module GroupLog: there  *)
(* is one order of the messages, which only grows at its end; a place in   *)
(* it is given to a message that was sent, and confirmed to its sender     *)
(* once and for all; and what a member has got is a beginning of it.       *)
(***************************************************************************)
EXTENDS Naturals, Sequences

CONSTANTS Members, Msgs

VARIABLES sent,       \* messages that members have sent
          order,      \* the messages of the group, in the order of the group
          confirmed,  \* messages with the places their senders were told
          got         \* got[u]: the places whose messages u has got

bvars == <<sent, order, confirmed, got>>

BInit == /\ sent = {}
         /\ order = <<>>
         /\ confirmed = {}
         /\ got = [u \in Members |-> {}]

Send(m) == /\ sent' = sent \cup {m}
           /\ UNCHANGED <<order, confirmed, got>>

\* A message may be given more than one place; GroupLog!DedupWindow says when.
Place(m) == /\ m \in sent
            /\ order' = Append(order, m)
            /\ confirmed' = confirmed \cup {<<m, Len(order) + 1>>}
            /\ UNCHANGED <<sent, got>>

\* A member gets what is missing of a longer beginning.
Get(u) == \E k \in 0 .. Len(order) :
            /\ got[u] \subseteq 1 .. k
            /\ got' = [got EXCEPT ![u] = 1 .. k]
            /\ UNCHANGED <<sent, order, confirmed>>

BNext == \/ \E m \in Msgs : Send(m) \/ Place(m)
         \/ \E u \in Members : Get(u)

BSpec == BInit /\ [][BNext]_bvars
=============================================================================
