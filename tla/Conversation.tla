---------------------------- MODULE Conversation ----------------------------
(***************************************************************************)
(* What a one-to-one conversation promises its two users, with none of the *)
(* key packages, groups, acknowledgements or tables of module DmHandshake: *)
(* nobody is in a conversation before both have agreed to it, nothing is   *)
(* said before the author is in it, and nothing is heard that was not said.*)
(* That what is said is heard, or that both are in the same conversation,  *)
(* is not promised: the code does not keep either.                         *)
(***************************************************************************)
CONSTANTS Users, Msgs, Author

VARIABLES willing,  \* users who agreed: wrote first, accepted, or added the other
          open,     \* users in the conversation
          said,     \* messages handed over for delivery
          heard     \* messages read by the other user

cvars == <<willing, open, said, heard>>

CInit == willing = {} /\ open = {} /\ said = {} /\ heard = {}

Agree(u) == /\ u \notin willing
            /\ willing' = willing \cup {u}
            /\ UNCHANGED <<open, said, heard>>

Open(u) == /\ u \notin open
           /\ willing = Users
           /\ open' = open \cup {u}
           /\ UNCHANGED <<willing, said, heard>>

Say(m) == /\ m \notin said
          /\ Author[m] \in open
          /\ said' = said \cup {m}
          /\ UNCHANGED <<willing, open, heard>>

Hear(u, m) == /\ m \in said \ heard
              /\ u \in open \ {Author[m]}
              /\ heard' = heard \cup {m}
              /\ UNCHANGED <<willing, open, said>>

CNext == \/ \E u \in Users : Agree(u) \/ Open(u)
         \/ \E m \in Msgs : Say(m) \/ \E u \in Users : Hear(u, m)

CSpec == CInit /\ [][CNext]_cvars
=============================================================================
