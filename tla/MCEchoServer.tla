---------------------------- MODULE MCEchoServer ----------------------------
(* An instance of EchoServer for TLC: one client types more lines than a    *)
(* socket buffer holds and may be started again, two others come and go.    *)
EXTENDS EchoServer, TLC

CONSTANTS
  c1, c2, c3  \* the clients

Talker   == c1
Lines    == [c \in Clients |-> IF c = Talker THEN 3 ELSE 1]
Runs     == [c \in Clients |-> IF c = Talker THEN 2 ELSE 1]
Symmetry == Permutations(Clients \ {Talker})
=============================================================================
