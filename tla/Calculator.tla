----------------------------- MODULE Calculator -----------------------------
(***************************************************************************)
(* The dialogue of a calculator client (client.c, the same in 3.15 and     *)
(* 3.18) with dostuff, the function both servers run for a connection: a   *)
(* menu, two operands, one answer, over a TCP connection that the client   *)
(* may leave at any time.  PollServer and ForkServer say who runs dostuff. *)
(*                                                                         *)
(* The result is sent as the whole of buff, 20480 bytes, and client.c asks *)
(* its user for a line after every recv of at most 1023 of them.  dostuff  *)
(* reads none of those lines, so the model counts the questions and leaves *)
(* the lines out, and what the client does with its end of the connection  *)
(* once the server has closed it.                                          *)
(***************************************************************************)
EXTENDS Integers, Sequences, FiniteSets

CONSTANTS
  Clients,  \* the client processes, each of which connects once
  Lines,    \* the integers a user types
  Garbage,  \* what an uninitialised buff may hold, as [value, len]
  Pieces,   \* the recvs the result may take: 21 or more of 1023 bytes
  MaxBacklog  \* connections the kernel holds for accept

ASSUME CalcAssumption ==
  /\ Lines \subseteq Int
  /\ Garbage \subseteq [value : Int, len : Nat]
  /\ Pieces \subseteq Nat

VARIABLES
  conn,     \* conn[c]: the connection, as the server's kernel knows it
  asked,    \* asked[c]: the recvs c owes a line for what the server wrote
  pending,  \* pending[c]: lines of c, sent before the result, not yet read
  typed,    \* typed[c]: all the lines c sent before the result
  stage,    \* stage[c]: where dostuff is that serves c
  buff,     \* buff[c]: the number buff begins with, and the length of buff
  args,     \* args[c]: the operation and the first operand
  shown,    \* shown[c]: the result, and how many characters of it fit
  backlog   \* connections waiting for accept

clientVars == <<conn, asked, pending, typed>>
stuffVars  == <<stage, buff, args, shown>>
calcVars   == <<clientVars, stuffVars>>

\* "closed": the client left and all it sent was taken in by the kernel;
\* "broken": the connection was reset; "over": the server closed it.
ConnState == {"none", "open", "closed", "broken", "over"}
Stage     == {"none", "menu", "op", "a", "b", "sent", "returned", "died"}
Buffer    == [value : Int, len : Nat]
NoResult  == [value |-> 0, room |-> -1]

CalcTypeOK ==
  /\ conn    \in [Clients -> ConnState]
  /\ asked   \in [Clients -> Nat]
  /\ pending \in [Clients -> Seq(Lines)]
  /\ typed   \in [Clients -> Seq(Lines)]
  /\ stage   \in [Clients -> Stage]
  /\ buff    \in [Clients -> Buffer]
  /\ args    \in [Clients -> [op : 0 .. 3, a : Int]]
  /\ shown   \in [Clients -> [value : Int, room : Int]]

CalcInit ==
  /\ conn    = [c \in Clients |-> "none"]
  /\ asked   = [c \in Clients |-> 0]
  /\ pending = [c \in Clients |-> <<>>]
  /\ typed   = [c \in Clients |-> <<>>]
  /\ stage   = [c \in Clients |-> "none"]
  /\ buff    = [c \in Clients |-> [value |-> 0, len |-> 0]]
  /\ args    = [c \in Clients |-> [op |-> 0, a |-> 0]]
  /\ shown   = [c \in Clients |-> NoResult]

-----------------------------------------------------------------------------
(* Numbers as text. *)

Abs(n) == IF n < 0 THEN -n ELSE n

\* An int has ten digits at most.
Digits(n) == 1 + Cardinality({k \in 1 .. 9 : 10 ^ k <= n})

\* The characters "%d" takes.
Width(n) == IF n < 0 THEN 1 + Digits(-n) ELSE Digits(n)

\* Division in C rounds towards zero.
Quotient(a, b) ==
  LET q == Abs(a) \div Abs(b) IN IF (a < 0) = (b < 0) THEN q ELSE -q

\* sub, mult and division.
Apply(op, a, b) ==
  CASE op = 1 -> a - b
    [] op = 2 -> a * b
    [] op = 3 -> Quotient(a, b)

-----------------------------------------------------------------------------
(* The client. *)

\* connect succeeds as long as the backlog has room.
Connect(c) ==
  /\ conn[c] = "none"
  /\ Len(backlog) < MaxBacklog
  /\ conn'    = [conn EXCEPT ![c] = "open"]
  /\ backlog' = Append(backlog, c)
  /\ UNCHANGED <<asked, pending, typed, stuffVars>>

\* recv, fgets and send: one line for every recv.  A line sent in reply to
\* the result stays in the socket unread.
Answer(c, line) ==
  /\ conn[c] = "open"
  /\ asked[c] > 0
  /\ asked'   = [asked EXCEPT ![c] = @ - 1]
  /\ IF shown[c] = NoResult
     THEN /\ pending' = [pending EXCEPT ![c] = Append(@, line)]
          /\ typed'   = [typed EXCEPT ![c] = Append(@, line)]
     ELSE UNCHANGED <<pending, typed>>
  /\ UNCHANGED <<conn, stuffVars>>

\* The user types "quit"; a piece of the result that was not received then
\* resets the connection.
Quit(c) ==
  /\ conn[c] = "open"
  /\ asked[c] > 0
  /\ \/ conn' = [conn EXCEPT ![c] = "closed"]
     \/ asked[c] > 1 /\ conn' = [conn EXCEPT ![c] = "broken"]
  /\ UNCHANGED <<asked, pending, typed, stuffVars>>

\* The client is killed; text it had not received resets the connection.
Crash(c) ==
  /\ conn[c] = "open"
  /\ \/ conn' = [conn EXCEPT ![c] = "closed"]
     \/ asked[c] > 0 /\ conn' = [conn EXCEPT ![c] = "broken"]
  /\ UNCHANGED <<asked, pending, typed, stuffVars>>

-----------------------------------------------------------------------------
(* write and read on the connection (kernel behaviour). *)

\* What is written takes the client n recvs; it always fits the buffers of
\* the two sockets.  A first write to a client that left may bring a reset; a
\* write after a reset raises SIGPIPE, or fails with an error nobody looks at.
Write(c, n, next) ==
  \/ /\ conn[c] = "open"
     /\ asked' = [asked EXCEPT ![c] = @ + n]
     /\ stage' = [stage EXCEPT ![c] = next]
     /\ UNCHANGED conn
  \/ /\ conn[c] = "closed"
     /\ \E after \in {"closed", "broken"} : conn' = [conn EXCEPT ![c] = after]
     /\ stage' = [stage EXCEPT ![c] = next]
     /\ UNCHANGED asked
  \/ /\ conn[c] = "broken"
     /\ \E after \in {next, "died"} : stage' = [stage EXCEPT ![c] = after]
     /\ UNCHANGED <<conn, asked>>

\* A line overwrites the beginning of buff and is not terminated: its number
\* is what atoi finds, and a longer text that was there keeps its end.
Overlay(b, line) ==
  LET n == Width(line) + 1 IN
  [value |-> line, len |-> IF b.len > n THEN b.len ELSE n]

\* The connection has something to read: a line, or its end.
Readable(c) == pending[c] # <<>> \/ conn[c] # "open"

\* Mutant: read does not wait (a non-blocking socket).
ReadNoWait(c) ==
  /\ buff' = [buff EXCEPT ![c] =
                IF pending[c] = <<>> THEN @ ELSE Overlay(@, Head(pending[c]))]
  /\ pending' = [pending EXCEPT ![c] = IF @ = <<>> THEN @ ELSE Tail(@)]

\* read takes a line, or returns 0 when there will be none: buff is then
\* what it was.
Read(c) ==
  /\ Readable(c)
  /\ buff' = [buff EXCEPT ![c] =
                IF pending[c] = <<>> THEN @ ELSE Overlay(@, Head(pending[c]))]
  /\ pending' = [pending EXCEPT ![c] = IF @ = <<>> THEN @ ELSE Tail(@)]

\* "ERROR reading from socket": the process exits.
ReadFails(c) ==
  /\ stage[c] \in {"op", "a", "b"}
  /\ pending[c] = <<>> /\ conn[c] = "broken"
  /\ stage' = [stage EXCEPT ![c] = "died"]
  /\ UNCHANGED <<clientVars, buff, args, shown>>

-----------------------------------------------------------------------------
(* dostuff: each step runs from one blocking read to the next. *)

Greet(c) ==
  /\ stage[c] = "menu"
  /\ \E g \in Garbage : buff' = [buff EXCEPT ![c] = g]
  /\ Write(c, 1, "op")
  /\ UNCHANGED <<pending, typed, args, shown>>

ReadOperation(c) ==
  /\ stage[c] = "op"
  /\ Read(c)
  /\ LET op == buff'[c].value IN
     IF op \in 1 .. 3
     THEN /\ args' = [args EXCEPT ![c] = [op |-> op, a |-> 0]]
          /\ Write(c, 1, "a")
     ELSE /\ stage' = [stage EXCEPT ![c] = "returned"]
          /\ UNCHANGED <<args, conn, asked>>
  /\ UNCHANGED <<typed, shown>>

\* Mutant: the operand is taken from buff before it is read.
ReadFirstTooEarly(c) ==
  /\ stage[c] = "a"
  /\ Read(c)
  /\ args' = [args EXCEPT ![c].a = buff[c].value]
  /\ Write(c, 1, "b")
  /\ UNCHANGED <<typed, shown>>

ReadFirst(c) ==
  /\ stage[c] = "a"
  /\ Read(c)
  /\ args' = [args EXCEPT ![c].a = buff'[c].value]
  /\ Write(c, 1, "b")
  /\ UNCHANGED <<typed, shown>>

\* snprintf writes strlen(buff) - 1 characters at most.  A division by zero
\* ends the process (SIGFPE).
ReadSecond(c) ==
  /\ stage[c] = "b"
  /\ Read(c)
  /\ LET b == buff'[c].value  op == args[c].op IN
     IF op = 3 /\ b = 0
     THEN /\ stage' = [stage EXCEPT ![c] = "died"]
          /\ UNCHANGED <<shown, conn, asked>>
     ELSE /\ shown' = [shown EXCEPT ![c] = [value |-> Apply(op, args[c].a, b),
                                            room  |-> buff'[c].len - 1]]
          /\ \E n \in Pieces : Write(c, n, "sent")
  /\ UNCHANGED <<typed, args>>

\* write(sock, NULL, 0) sends nothing, but meets a reset as any write does.
WriteNothing(c) ==
  /\ stage[c] = "sent"
  /\ Write(c, 0, "returned")
  /\ UNCHANGED <<pending, typed, buff, args, shown>>

DoStuff(c) ==
  \/ Greet(c) \/ ReadOperation(c) \/ ReadFirst(c) \/ ReadSecond(c)
  \/ WriteNothing(c) \/ ReadFails(c)

User(c) == \/ \E line \in Lines : Answer(c, line)
           \/ Quit(c) \/ Crash(c)

\* What every user does in the end: type the next line, or leave.
UserAnswers(c) == Quit(c) \/ \E line \in Lines : Answer(c, line)

-----------------------------------------------------------------------------
(* Properties of a dialogue. *)

\* A dialogue is in step until its result is written: the server reads a line
\* only as the answer to its last question, so an operation is never taken for
\* an operand.  The result asks for many lines more, which nobody reads.
InStep ==
  \A c \in Clients :
    /\ shown[c] = NoResult => Len(pending[c]) + asked[c] <= 1
    /\ stage[c] \in {"op", "a", "b"} /\ conn[c] = "open"
         => Len(pending[c]) + asked[c] = 1

\* A client that answered every question is shown the result of its own
\* operation on its own operands, in their order, whatever buff held before
\* and whatever the other clients do.  It is shown all of it only if one of
\* its lines was as long as the result (snprintf takes its bound from the
\* text that is in buff).
OwnResult ==
  \A c \in Clients :
    shown[c] # NoResult /\ Len(typed[c]) >= 3 =>
      LET result == Apply(typed[c][1], typed[c][2], typed[c][3]) IN
        /\ shown[c].value = result
        /\ (\E i \in 1 .. 3 : Width(typed[c][i]) >= Width(result))
             => shown[c].room >= Width(result)
=============================================================================
