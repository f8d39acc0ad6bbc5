------------------------------ MODULE UdpChat ------------------------------
(***************************************************************************)
(* The chat of 3.14: client2.c sends a line and waits for one, client1.c   *)
(* has a line typed, waits for one and sends its own.  Nothing is sent     *)
(* again, so a lost datagram stops both until client2 is started anew,     *)
(* and what is late then counts as the answer to something else.           *)
(***************************************************************************)
EXTENDS Naturals, FiniteSets

CONSTANTS
  MaxLines,  \* bound: lines client2 sends, in all its runs
  MaxRuns2   \* bound: runs of client2

\* Assumed by MCPairs.
UdpAssumption == MaxLines \in Nat /\ MaxRuns2 \in Nat

VARIABLES
  turn,    \* turn[c]: where client c is
  mail,    \* mail[c]: the datagrams on their way to c, in no order, each
           \* named by the line of client2 that it is or answers
  taken,   \* the line client1 took last
  line,    \* the line client2 sent last
  answer,  \* the line whose answer client2 printed last
  runs2    \* runs of client2

udpVars == <<turn, mail, taken, line, answer, runs2>>

Peers == {"client1", "client2"}

TypeOK ==
  /\ turn   \in [Peers -> {"off", "type", "receive", "send"}]
  /\ mail   \in [Peers -> SUBSET (1 .. MaxLines)]
  /\ taken  \in 0 .. MaxLines
  /\ line   \in 0 .. MaxLines
  /\ answer \in 0 .. MaxLines
  /\ runs2  \in 0 .. MaxRuns2

Init ==
  /\ turn = [c \in Peers |-> "off"]
  /\ mail = [c \in Peers |-> {}]
  /\ taken = 0 /\ line = 0 /\ answer = 0 /\ runs2 = 0

Turns(c, place) == turn' = [turn EXCEPT ![c] = place]

\* sendto: lost when nobody has bound the port, or on the way.
SendTo(c, n) ==
  \/ turn[c] # "off" /\ mail' = [mail EXCEPT ![c] = @ \cup {n}]
  \/ UNCHANGED mail

\* recvfrom.
ReceiveFrom(c, n) ==
  /\ turn[c] = "receive"
  /\ n \in mail[c]
  /\ mail' = [mail EXCEPT ![c] = @ \ {n}]

\* A client ends only by being killed; its socket goes with it.
Kill(c) ==
  /\ turn[c] # "off"
  /\ Turns(c, "off")
  /\ mail' = [mail EXCEPT ![c] = {}]
  /\ UNCHANGED <<taken, line, answer, runs2>>

-----------------------------------------------------------------------------
(* client1.c *)

Start1 ==
  /\ turn["client1"] = "off"
  /\ Turns("client1", "type")
  /\ UNCHANGED <<mail, taken, line, answer, runs2>>

\* The answer is typed before the line it answers is there.
Type1 ==
  /\ turn["client1"] = "type"
  /\ Turns("client1", "receive")
  /\ UNCHANGED <<mail, taken, line, answer, runs2>>

Receive1(n) ==
  /\ ReceiveFrom("client1", n)
  /\ taken' = n
  /\ Turns("client1", "send")
  /\ UNCHANGED <<line, answer, runs2>>

Send1 ==
  /\ turn["client1"] = "send"
  /\ SendTo("client2", taken)
  /\ Turns("client1", "type")
  /\ UNCHANGED <<taken, line, answer, runs2>>

-----------------------------------------------------------------------------
(* client2.c *)

Start2 ==
  /\ turn["client2"] = "off" /\ runs2 < MaxRuns2
  /\ runs2' = runs2 + 1
  /\ Turns("client2", "type")
  /\ UNCHANGED <<mail, taken, line, answer>>

\* Mutant: a line may be sent without waiting for the answer to the last.
Send2Again ==
  /\ turn["client2"] \in {"type", "receive"} /\ line < MaxLines
  /\ line' = line + 1
  /\ SendTo("client1", line')
  /\ Turns("client2", "receive")
  /\ UNCHANGED <<taken, answer, runs2>>

\* fgets and sendto.
Send2 ==
  /\ turn["client2"] = "type" /\ line < MaxLines
  /\ line' = line + 1
  /\ SendTo("client1", line')
  /\ Turns("client2", "receive")
  /\ UNCHANGED <<taken, answer, runs2>>

Receive2(n) ==
  /\ ReceiveFrom("client2", n)
  /\ answer' = n
  /\ Turns("client2", "type")
  /\ UNCHANGED <<taken, line, runs2>>

Next ==
  \/ Start1 \/ Type1 \/ Send1
  \/ Start2 \/ Send2
  \/ \E n \in 1 .. MaxLines : Receive1(n) \/ Receive2(n)
  \/ \E c \in Peers : Kill(c)

Spec == Init /\ [][Next]_udpVars

-----------------------------------------------------------------------------
(* Properties. *)

\* Lines and answers on their way, or in client1's hands.
Outstanding ==
  Cardinality(mail["client1"]) + Cardinality(mail["client2"])
    + (IF turn["client1"] = "send" THEN 1 ELSE 0)

\* Whatever is lost, reordered or killed, each earlier run of client2 leaves
\* at most one line behind that is still to be answered, and the present run
\* has one at most, while it waits.  So in its first run client2 takes every
\* answer for what it is: the answer to the line it sent last.
OnePerRun ==
  /\ Outstanding <= runs2
  /\ turn["client2"] = "type" => Outstanding < runs2
  /\ runs2 = 1 /\ turn["client2"] = "type" => answer \in {0, line}
=============================================================================
