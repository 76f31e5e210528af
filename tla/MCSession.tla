----------------------------- MODULE MCSession -----------------------------
(* One application with two connections, a legacy peer who may want the same *)
(* name, and two group servers with different keys for one group.            *)
EXTENDS Session, TLC

CONSTANTS u, v

MCAppTags == 1..2
MCAppKeys == 1..MaxAsks

\* Bound: a behaviour is followed until a command was late and the connection
\* moved, which excuses what is claimed of the application.
NotExcused == ~(late /\ moved)

Symmetry == Permutations({u, v})
=============================================================================
