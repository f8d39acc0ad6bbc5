----------------------------- MODULE EchoServer -----------------------------
(***************************************************************************)
(* The numbered UDP echo server over raw sockets, 3.cross1/server.c, with  *)
(* its clients client1.c and client2.c.  A raw socket receives a copy of   *)
(* every UDP packet of the host, so the server also reads the answers it   *)
(* sent itself and tells its own packets by the destination port.  A       *)
(* packet that finds a full socket buffer is lost.                         *)
(***************************************************************************)
EXTENDS Integers, Sequences, FiniteSets

CONSTANTS
  Clients,     \* the (ip, port) pairs clients send from
  MaxClients,  \* MAX_CLIENTS
  BufferSize,  \* packets a socket buffer holds
  MaxTyped,    \* bound: MaxTyped[c] lines are typed to c
  MaxStarts    \* bound: c is started MaxStarts[c] times

ASSUME EchoAssumption ==
  /\ IsFiniteSet(Clients)
  /\ MaxClients \in Nat /\ BufferSize \in Nat
  /\ MaxTyped \in [Clients -> Nat] /\ MaxStarts \in [Clients -> Nat]

VARIABLES
  clients,  \* clients[0 .. client_count-1], as a sequence
  inbox,    \* the server's socket buffer
  sent,     \* sent[c]: number of the last answer to c, and of all of them
  mailbox,  \* mailbox[c]: the numbers of the answers in c's socket buffer
  running,  \* running[c]: the client process runs
  typed,    \* typed[c]: lines c has sent
  starts,   \* starts[c]: times c was started
  heard,    \* heard[c]: number of the answer c printed last
  saidClose \* saidClose[c]: c has sent a message that begins with CLOSE

vars == <<clients, inbox, sent, mailbox, running, typed, starts, heard, saidClose>>
serverVars == <<clients, sent>>

\* What the server looks at: the destination port, and whether the data
\* begins with CLOSE.
Packet == [from : Clients, port : {"server", "client"}, data : {"text", "CLOSE"}]
Entry  == [peer : Clients, counter : Nat \ {0}]

TypeOK ==
  /\ clients   \in Seq(Entry)
  /\ inbox     \in Seq(Packet)
  /\ sent      \in [Clients -> [n : Nat, total : Nat]]
  /\ mailbox   \in [Clients -> Seq(Nat)]
  /\ running   \in [Clients -> BOOLEAN]
  /\ typed     \in [Clients -> Nat]
  /\ starts    \in [Clients -> Nat]
  /\ heard     \in [Clients -> Nat]
  /\ saidClose \in [Clients -> BOOLEAN]

Init ==
  /\ clients   = <<>>
  /\ inbox     = <<>>
  /\ sent      = [c \in Clients |-> [n |-> 0, total |-> 0]]
  /\ mailbox   = [c \in Clients |-> <<>>]
  /\ running   = [c \in Clients |-> FALSE]
  /\ typed     = [c \in Clients |-> 0]
  /\ starts    = [c \in Clients |-> 0]
  /\ heard     = [c \in Clients |-> 0]
  /\ saidClose = [c \in Clients |-> FALSE]

\* A socket buffer that is full loses what arrives.
Arrive(buffer, packet) ==
  IF Len(buffer) < BufferSize THEN Append(buffer, packet) ELSE buffer

-----------------------------------------------------------------------------
(* The clients. *)

Start(c) ==
  /\ ~running[c]
  /\ starts[c] < MaxStarts[c]
  /\ running' = [running EXCEPT ![c] = TRUE]
  /\ starts'  = [starts EXCEPT ![c] = @ + 1]
  /\ heard'   = [heard EXCEPT ![c] = 0]
  /\ mailbox' = [mailbox EXCEPT ![c] = <<>>]
  /\ UNCHANGED <<serverVars, inbox, typed, saidClose>>

\* A line from stdin is sent as it is.
SendMessage(c, data) ==
  /\ running[c]
  /\ typed[c] < MaxTyped[c]
  /\ typed' = [typed EXCEPT ![c] = @ + 1]
  /\ inbox' = Arrive(inbox, [from |-> c, port |-> "server", data |-> data])
  /\ saidClose' = [saidClose EXCEPT ![c] = @ \/ data = "CLOSE"]
  /\ UNCHANGED <<serverVars, mailbox, running, starts, heard>>

\* End of input or SIGINT: CLOSE is sent and the client exits.
Quit(c) ==
  /\ running[c]
  /\ running' = [running EXCEPT ![c] = FALSE]
  /\ inbox' = Arrive(inbox, [from |-> c, port |-> "server", data |-> "CLOSE"])
  /\ UNCHANGED <<serverVars, mailbox, typed, starts, heard, saidClose>>

\* Any other signal: the client is gone without a CLOSE.
Crash(c) ==
  /\ running[c]
  /\ running' = [running EXCEPT ![c] = FALSE]
  /\ UNCHANGED <<serverVars, inbox, mailbox, typed, starts, heard, saidClose>>

PrintReply(c) ==
  /\ running[c]
  /\ mailbox[c] # <<>>
  /\ heard' = [heard EXCEPT ![c] = Head(mailbox[c])]
  /\ mailbox' = [mailbox EXCEPT ![c] = Tail(@)]
  /\ UNCHANGED <<serverVars, inbox, running, typed, starts, saidClose>>

-----------------------------------------------------------------------------
(* The server takes one packet after the other. *)

\* The slots find_client returns: at most one, if peers are listed once.
Slots(c) == {i \in DOMAIN clients : clients[i].peer = c}

\* find_client: the first slot of the peer.
FindClient(c) == CHOOSE i \in Slots(c) : \A j \in Slots(c) : i <= j

\* reset_client: the entries behind the peer's move down by one.
ShiftDown(table, idx) ==
  [i \in 1 .. Len(table) - 1 |-> IF i < idx THEN table[i] ELSE table[i + 1]]

ResetClient(c) ==
  clients' = IF Slots(c) = {} THEN clients ELSE ShiftDown(clients, FindClient(c))

\* The answer goes to the peer, and a copy of it to the server's own socket.
Reply(c, n) ==
  /\ sent' = [sent EXCEPT ![c] = [n |-> n, total |-> @.total + 1]]
  /\ mailbox' = [mailbox EXCEPT ![c] =
                   IF running[c] THEN Arrive(@, n) ELSE @]
  /\ inbox' = Arrive(Tail(inbox), [from |-> c, port |-> "client", data |-> "text"])

\* The destination port is not SERVER_PORT.
Skip ==
  /\ inbox # <<>>
  /\ Head(inbox).port # "server"
  /\ inbox' = Tail(inbox)
  /\ UNCHANGED <<serverVars, mailbox>>

Close ==
  LET p == Head(inbox) IN
  /\ inbox # <<>>
  /\ p.port = "server" /\ p.data = "CLOSE"
  /\ ResetClient(p.from)
  /\ inbox' = Tail(inbox)
  /\ UNCHANGED <<sent, mailbox>>

\* Mutant: the destination port is not looked at.
EchoAnyPort ==
  LET p == Head(inbox)  c == p.from  i == FindClient(c) IN
  /\ inbox # <<>>
  /\ p.data # "CLOSE"
  /\ \/ /\ Slots(c) # {}
        /\ clients' = [clients EXCEPT ![i].counter = @ + 1]
        /\ Reply(c, clients[i].counter + 1)
     \/ /\ Slots(c) = {}
        /\ Len(clients) < MaxClients
        /\ clients' = Append(clients, [peer |-> c, counter |-> 1])
        /\ Reply(c, 1)

\* Mutant: the peer is not looked up.
EchoAlwaysAdds ==
  LET p == Head(inbox) IN
  /\ inbox # <<>>
  /\ p.port = "server" /\ p.data # "CLOSE"
  /\ Len(clients) < MaxClients
  /\ clients' = Append(clients, [peer |-> p.from, counter |-> 1])
  /\ Reply(p.from, 1)

\* Mutant: the counter of a known peer is not increased.
EchoSameNumber ==
  LET p == Head(inbox)  c == p.from  i == FindClient(c) IN
  /\ inbox # <<>>
  /\ p.port = "server" /\ p.data # "CLOSE"
  /\ \/ /\ Slots(c) # {}
        /\ UNCHANGED clients
        /\ Reply(c, clients[i].counter)
     \/ /\ Slots(c) = {}
        /\ Len(clients) < MaxClients
        /\ clients' = Append(clients, [peer |-> c, counter |-> 1])
        /\ Reply(c, 1)

Echo ==
  LET p == Head(inbox)  c == p.from  i == FindClient(c) IN
  /\ inbox # <<>>
  /\ p.port = "server" /\ p.data # "CLOSE"
  /\ \/ /\ Slots(c) # {}
        /\ clients' = [clients EXCEPT ![i].counter = @ + 1]
        /\ Reply(c, clients[i].counter + 1)
     \/ /\ Slots(c) = {}
        /\ Len(clients) < MaxClients
        /\ clients' = Append(clients, [peer |-> c, counter |-> 1])
        /\ Reply(c, 1)

\* "Too many clients!"
Refuse ==
  LET p == Head(inbox) IN
  /\ inbox # <<>>
  /\ p.port = "server" /\ p.data # "CLOSE"
  /\ Slots(p.from) = {} /\ Len(clients) >= MaxClients
  /\ inbox' = Tail(inbox)
  /\ UNCHANGED <<serverVars, mailbox>>

Server == /\ Skip \/ Close \/ Echo \/ Refuse
          /\ UNCHANGED <<running, typed, starts, heard, saidClose>>

Client(c) ==
  \/ Start(c) \/ Quit(c) \/ Crash(c) \/ PrintReply(c)
  \/ \E data \in {"text", "CLOSE"} : SendMessage(c, data)

Next == Server \/ \E c \in Clients : Client(c)

Spec == Init /\ [][Next]_vars

-----------------------------------------------------------------------------
(* Properties. *)

\* Every peer has one slot at most, and the table holds MAX_CLIENTS at most,
\* through any sequence of arrivals and shifts (find_client and
\* reset_client rely on the first).
OneSlotEach ==
  /\ \A i, j \in DOMAIN clients : clients[i].peer = clients[j].peer => i = j
  /\ Len(clients) <= MaxClients

\* The table implements a session per peer: shifting it down never moves a
\* count from one peer to another, and answers are numbered without gaps.
CountOf(c) == IF Slots(c) = {} THEN 0 ELSE clients[FindClient(c)].counter

Sessions == INSTANCE EchoSessions WITH count <- [c \in Clients |-> CountOf(c)]

ImplementsSessions == Sessions!Spec

\* A client that was started once and has not said CLOSE prints answers in
\* the order of its lines: the numbers it prints go up, whatever is lost.
HeardGoesUp ==
  [][\A c \in Clients :
       PrintReply(c) /\ starts[c] = 1 /\ ~saidClose[c]
         => heard'[c] > heard[c]]_vars
=============================================================================
