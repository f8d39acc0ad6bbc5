----------------------------- MODULE ForkServer -----------------------------
(***************************************************************************)
(* The forking calculator server, 3.15/server.c: the parent accepts, counts *)
(* and forks; a child runs dostuff for its connection and exits.  Nobody   *)
(* waits for the children, so each stays a zombie and keeps its place in   *)
(* the process table until the parent ends.                                *)
(***************************************************************************)
EXTENDS Calculator

CONSTANTS
  MaxProcs,    \* children the process table has room for
  Prompt       \* the users sure to answer or leave; the others may do nothing

VARIABLES
  parent,    \* where the parent is: "accept", "count", "fork", "dead"
  new,       \* the clients whose connection is newsockfd: one, or none
  nclients,  \* the parent's nclients
  copy,      \* copy[c]: nclients in the child that serves c
  childOf    \* childOf[c]: the child that serves c: "none", "runs", "zombie"

parentVars == <<parent, new, nclients>>
forkVars == <<calcVars, parentVars, copy, childOf, backlog>>

ForkTypeOK ==
  /\ CalcTypeOK
  /\ parent   \in {"accept", "count", "fork", "dead"}
  /\ new      \in SUBSET Clients
  /\ nclients \in Nat
  /\ copy     \in [Clients -> Nat]
  /\ childOf  \in [Clients -> {"none", "runs", "zombie"}]
  /\ backlog  \in Seq(Clients)

ForkInit ==
  /\ CalcInit
  /\ parent = "accept" /\ new = {}
  /\ nclients = 0
  /\ copy    = [c \in Clients |-> 0]
  /\ childOf = [c \in Clients |-> "none"]
  /\ backlog = <<>>

\* As long as there is a listening socket.
ForkConnect(c) ==
  /\ parent # "dead"
  /\ Connect(c)
  /\ UNCHANGED <<parentVars, copy, childOf>>

-----------------------------------------------------------------------------
(* The parent. *)

\* Mutant: the parent waits for its child before it accepts again.
AcceptAfterChild ==
  /\ parent = "accept"
  /\ \A c \in Clients : childOf[c] # "runs"
  /\ backlog # <<>>
  /\ new' = {Head(backlog)}
  /\ backlog' = Tail(backlog)
  /\ parent' = "count"
  /\ UNCHANGED <<calcVars, nclients, copy, childOf>>

ForkAccept ==
  /\ parent = "accept"
  /\ backlog # <<>>
  /\ new' = {Head(backlog)}
  /\ backlog' = Tail(backlog)
  /\ parent' = "count"
  /\ UNCHANGED <<calcVars, nclients, copy, childOf>>

\* nclients++; printusers prints it.
Count ==
  /\ parent = "count"
  /\ nclients' = nclients + 1
  /\ parent' = "fork"
  /\ UNCHANGED <<calcVars, new, copy, childOf, backlog>>

\* The child has a copy of nclients and the connection, which the parent
\* closes on its side.
Fork ==
  /\ parent = "fork"
  /\ Cardinality({c \in Clients : childOf[c] # "none"}) < MaxProcs
  /\ \E c \in new :
       /\ childOf' = [childOf EXCEPT ![c] = "runs"]
       /\ copy'    = [copy EXCEPT ![c] = nclients]
       /\ stage'   = [stage EXCEPT ![c] = "menu"]
  /\ new' = {}
  /\ parent' = "accept"
  /\ UNCHANGED <<clientVars, buff, args, shown, nclients, backlog>>

\* "ERROR on fork": the parent exits, which closes the listening socket, the
\* connections in its backlog and newsockfd, and frees the zombies.
ForkFails ==
  /\ parent = "fork"
  /\ Cardinality({c \in Clients : childOf[c] # "none"}) >= MaxProcs
  /\ parent' = "dead"
  /\ conn' = [c \in Clients |->
                IF conn[c] # "none" /\ childOf[c] # "runs" THEN "over" ELSE conn[c]]
  /\ childOf' = [c \in Clients |-> IF childOf[c] = "zombie" THEN "none" ELSE childOf[c]]
  /\ backlog' = <<>> /\ new' = {}
  /\ UNCHANGED <<asked, pending, typed, stuffVars, nclients, copy>>

-----------------------------------------------------------------------------
(* The children. *)

ForkDoStuff(c) ==
  /\ childOf[c] = "runs"
  /\ DoStuff(c)
  /\ UNCHANGED <<parentVars, copy, childOf, backlog>>

Answered(c) == stage[c] = "returned" /\ shown[c] # NoResult

\* Mutant: the parent has not closed newsockfd, so the connection stays open.
ChildEndsHeldOpen(c) ==
  /\ childOf[c] = "runs"
  /\ stage[c] \in {"returned", "died"}
  /\ copy' = [copy EXCEPT ![c] = IF Answered(c) THEN @ - 1 ELSE @]
  /\ childOf' = [childOf EXCEPT ![c] = IF parent = "dead" THEN "none" ELSE "zombie"]
  /\ UNCHANGED <<conn, asked, pending, typed, stuffVars, parentVars, backlog>>

\* The child exits, or was killed: its connection is closed.  Only a child
\* that has answered counts down, and it counts its own copy.
ChildEnds(c) ==
  /\ childOf[c] = "runs"
  /\ stage[c] \in {"returned", "died"}
  /\ copy' = [copy EXCEPT ![c] = IF Answered(c) THEN @ - 1 ELSE @]
  /\ conn' = [conn EXCEPT ![c] = "over"]
  /\ childOf' = [childOf EXCEPT ![c] = IF parent = "dead" THEN "none" ELSE "zombie"]
  /\ UNCHANGED <<asked, pending, typed, stuffVars, parentVars, backlog>>

Parent == ForkAccept \/ Count \/ Fork \/ ForkFails
Child(c) == ForkDoStuff(c) \/ ChildEnds(c)
ForkUser(c) == User(c) /\ UNCHANGED <<parentVars, copy, childOf, backlog>>

ForkNext == Parent \/ \E c \in Clients : ForkConnect(c) \/ Child(c) \/ ForkUser(c)

ForkSpec == ForkInit /\ [][ForkNext]_forkVars

\* Processes run.  The users in Prompt answer or leave, the others need not.
ForkFairSpec ==
  /\ ForkSpec
  /\ WF_forkVars(Parent)
  /\ \A c \in Clients : WF_forkVars(Child(c))
  /\ \A c \in Prompt :
       WF_forkVars(UserAnswers(c) /\ UNCHANGED <<parentVars, copy, childOf, backlog>>)

-----------------------------------------------------------------------------
(* Properties. *)

\* A connection that was accepted has a child of its own, and a child has a
\* connection: the parent's close of its side and the child's exit leave no
\* connection open that nobody serves.
OneChildEach ==
  \A c \in Clients :
    /\ childOf[c] = "runs" <=> stage[c] # "none" /\ conn[c] # "over"
    /\ conn[c] \in {"open", "closed", "broken"}
         => childOf[c] = "runs" \/ c \in new \/ \E k \in DOMAIN backlog : backlog[k] = c

\* One user cannot keep another from being served: whoever answers or leaves
\* has the connection closed in the end, although other users do nothing.
ServedAnyway ==
  \A c \in Prompt : conn[c] \in {"open", "closed", "broken"} ~> conn[c] = "over"
=============================================================================
