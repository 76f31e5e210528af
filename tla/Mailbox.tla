------------------------------ MODULE Mailbox ------------------------------
(***************************************************************************)
(* What the discovery server promises about a message it takes, with none  *)
(* of the handlers, SURBs, sessions or crashes of module Relay: a message  *)
(* is held, handed over, or both for a while; what is held is let go only  *)
(* once it was handed over or its recipient acknowledged it; and the       *)
(* sender is told "sent" only about a message that is held or was handed   *)
(* over.  Handing over is an attempt: whether the transport then delivers  *)
(* the message is not the server's to promise.                             *)
(***************************************************************************)
CONSTANT Ids

VARIABLES held,      \* messages the server keeps
          handed,    \* messages it tried to hand over, at least once
          released,  \* messages their recipient acknowledged
          promised   \* messages whose sender was told "sent"

mvars == <<held, handed, released, promised>>

MInit == held = {} /\ handed = {} /\ released = {} /\ promised = {}

New(i) == i \notin held \cup handed \cup released \cup promised

Hold(i) == /\ New(i)
           /\ held' = held \cup {i}
           /\ UNCHANGED <<handed, released, promised>>

\* A message is handed over when it comes in, or any time while it is held.
HandOver(i) == /\ New(i) \/ i \in held
               /\ handed' = handed \cup {i}
               /\ UNCHANGED <<held, released, promised>>

LetGo(S) == /\ S \subseteq held \cap handed
            /\ held' = held \ S
            /\ UNCHANGED <<handed, released, promised>>

Acknowledge(S) == /\ S \subseteq held
                  /\ held' = held \ S
                  /\ released' = released \cup S
                  /\ UNCHANGED <<handed, promised>>

Promise(i) == /\ i \in held \cup handed \cup released
              /\ promised' = promised \cup {i}
              /\ UNCHANGED <<held, handed, released>>

MNext == \/ \E i \in Ids : Hold(i) \/ HandOver(i) \/ Promise(i)
         \/ \E S \in SUBSET Ids : LetGo(S) \/ Acknowledge(S)

MSpec == MInit /\ [][MNext]_mvars
=============================================================================
