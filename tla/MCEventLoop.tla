---------------------------- MODULE MCEventLoop ----------------------------
(* Two connections, one of them of a patient client, and two workers. *)
EXTENDS EventLoop

CONSTANTS c1, c2, w1, w2

\* The patient client sends two records, the other one in pieces or whole.
Msgs == [c \in Conns |-> IF c \in Paced THEN 2 ELSE 1]
=============================================================================
