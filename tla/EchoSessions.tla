---------------------------- MODULE EchoSessions ----------------------------
(***************************************************************************)
(* What the numbered echo server promises: every peer has a session of its *)
(* own, whose messages come back numbered 1, 2, 3, ... whatever the other  *)
(* peers do.  A session ends when the peer says CLOSE and not before, and  *)
(* when MaxClients peers have one no other peer gets one.                  *)
(***************************************************************************)
EXTENDS Naturals, Sequences, FiniteSets

CONSTANTS Clients, MaxClients

VARIABLES
  inbox,  \* the packets that arrived, as anyone may add to them
  count,  \* count[c]: messages answered in c's session, 0 without a session
  sent    \* sent[c]: number of the last answer to c, and of all of them

Sessions == {c \in Clients : count[c] > 0}

Init ==
  /\ count = [c \in Clients |-> 0]
  /\ sent  = [c \in Clients |-> [n |-> 0, total |-> 0]]

Asks(c, data) ==
  /\ inbox # <<>>
  /\ Head(inbox).port = "server"
  /\ Head(inbox).from = c
  /\ Head(inbox).data = data

Answer(c) ==
  /\ Asks(c, "text")
  /\ count[c] > 0 \/ Cardinality(Sessions) < MaxClients
  /\ count' = [count EXCEPT ![c] = @ + 1]
  /\ sent'  = [sent EXCEPT ![c] = [n |-> count[c] + 1, total |-> @.total + 1]]

Close(c) ==
  /\ Asks(c, "CLOSE")
  /\ count' = [count EXCEPT ![c] = 0]
  /\ UNCHANGED sent

Next == \E c \in Clients : Answer(c) \/ Close(c)

Spec == Init /\ [][Next]_<<count, sent>>
=============================================================================
