---------------------------- MODULE NumberQueue ----------------------------
(***************************************************************************)
(* The priority queue of numbers, 3.7.  sender.c makes a POSIX queue under *)
(* a fixed name and sends random numbers, each with itself as priority,    *)
(* until one is the last, 255; receiver.c takes the largest number that    *)
(* waits until that is the last.  Neither ever waits for the other, and    *)
(* both remove the name at their end, whatever queue it names by then.     *)
(***************************************************************************)
EXTENDS Naturals, FiniteSets

CONSTANTS
  Last,   \* 255, the largest number, which ends both programs
  MaxMsg  \* mq_maxmsg: the numbers a queue holds

\* Assumed by MCPairs.
NumberAssumption == Last \in Nat \ {0} /\ MaxMsg \in Nat \ {0}

VARIABLES
  sender,   \* where the sender is
  receiver, \* where the receiver is
  name,     \* the queue under the name, 0 if none
  held,     \* the queue each process has open, 0 if none
  waiting,  \* waiting[q][n]: how often the number n waits in the queue q
  misnamed  \* history: since the sender started, the receiver of another
            \* queue has removed the name

numberVars == <<sender, receiver, name, held, waiting, misnamed>>

Sent == 1 .. Last

\* The queues there can be at once: the named one and one open in each process.
Queues == 1 .. 3

\* The k-th of the numbers n that wait in a queue is counted as <<n, k>>.
NumbersIn(q) == Cardinality({w \in Sent \X (1 .. MaxMsg) : w[2] <= waiting[q][w[1]]})

TypeOK ==
  /\ sender   \in {"off", "open", "send", "end"}
  /\ receiver \in {"off", "receive", "end"}
  /\ name     \in {0} \cup Queues
  /\ held     \in [{"sender", "receiver"} -> {0} \cup Queues]
  /\ waiting  \in [Queues -> [Sent -> 0 .. MaxMsg]]
  /\ \A q \in Queues : NumbersIn(q) <= MaxMsg
  /\ misnamed \in BOOLEAN

Init ==
  /\ sender = "off" /\ receiver = "off"
  /\ name = 0 /\ held = [p \in {"sender", "receiver"} |-> 0]
  /\ waiting = [q \in Queues |-> [n \in Sent |-> 0]]
  /\ misnamed = FALSE

\* A queue goes with its last name and its last user.
Kept(names, users) ==
  waiting' = [q \in Queues |->
                IF q = names \/ \E p \in DOMAIN users : users[p] = q
                THEN waiting[q] ELSE [n \in Sent |-> 0]]

\* The queue of that name, or a new one.
Opens(p) ==
  LET new == CHOOSE q \in Queues : \A u \in DOMAIN held : held[u] # q
      q   == IF name = 0 THEN new ELSE name IN
  /\ name' = q
  /\ held' = [held EXCEPT ![p] = q]
  /\ UNCHANGED waiting

Leaves(p) ==
  /\ held' = [held EXCEPT ![p] = 0]
  /\ Kept(name, held')
  /\ UNCHANGED name

Unlinks(p) ==
  /\ name' = 0
  /\ held' = [held EXCEPT ![p] = 0]
  /\ Kept(0, held')

-----------------------------------------------------------------------------
(* Sender. *)

\* Mutant: the queue an earlier run has left keeps its name.
SenderUnlinksNot ==
  /\ sender = "off" /\ sender' = "open"
  /\ UNCHANGED <<receiver, name, held, waiting, misnamed>>

SenderUnlinks ==
  /\ sender = "off" /\ sender' = "open"
  /\ name' = 0
  /\ Kept(0, held)
  /\ UNCHANGED <<receiver, held, misnamed>>

\* By now a receiver may have made the queue.  The loop's first test reads
\* randNum before it has a value: the sender may send nothing.
SenderOpens ==
  /\ sender = "open"
  /\ Opens("sender")
  /\ sender' \in {"send", "end"}
  /\ misnamed' = FALSE
  /\ UNCHANGED receiver

\* A full queue ends the sender, and the queue keeps its name.
SendFails ==
  /\ sender = "send"
  /\ NumbersIn(held["sender"]) = MaxMsg
  /\ sender' = "off"
  /\ Leaves("sender")
  /\ UNCHANGED <<receiver, misnamed>>

Send(n) ==
  /\ sender = "send"
  /\ NumbersIn(held["sender"]) < MaxMsg
  /\ waiting' = [waiting EXCEPT ![held["sender"]][n] = @ + 1]
  /\ sender' = IF n = Last THEN "end" ELSE "send"
  /\ UNCHANGED <<receiver, name, held, misnamed>>

SenderEnds ==
  /\ sender = "end"
  /\ sender' = "off"
  /\ Unlinks("sender")
  /\ UNCHANGED <<receiver, misnamed>>

-----------------------------------------------------------------------------
(* Receiver. *)

ReceiverStarts ==
  /\ receiver = "off"
  /\ Opens("receiver")
  /\ receiver' = "receive"
  /\ UNCHANGED <<sender, misnamed>>

\* The largest number first: the last overtakes all that wait.
Receive ==
  /\ receiver = "receive"
  /\ \E n \in Sent :
       /\ waiting[held["receiver"]][n] > 0
       /\ \A m \in Sent : waiting[held["receiver"]][m] > 0 => m <= n
       /\ waiting' = [waiting EXCEPT ![held["receiver"]][n] = @ - 1]
       /\ receiver' = IF n = Last THEN "end" ELSE "receive"
  /\ UNCHANGED <<sender, name, held, misnamed>>

\* "cannot receive": an empty queue ends the receiver too.
ReceiveFails ==
  /\ receiver = "receive"
  /\ NumbersIn(held["receiver"]) = 0
  /\ receiver' = "off"
  /\ Leaves("receiver")
  /\ UNCHANGED <<sender, misnamed>>

ReceiverEnds ==
  /\ receiver = "end"
  /\ receiver' = "off"
  /\ misnamed' = (misnamed \/ name \notin {0, held["receiver"]})
  /\ Unlinks("receiver")
  /\ UNCHANGED sender

-----------------------------------------------------------------------------
KillSender ==
  /\ sender # "off" /\ sender' = "off"
  /\ Leaves("sender")
  /\ UNCHANGED <<receiver, misnamed>>

KillReceiver ==
  /\ receiver # "off" /\ receiver' = "off"
  /\ Leaves("receiver")
  /\ UNCHANGED <<sender, misnamed>>

Next ==
  \/ SenderUnlinks \/ SenderOpens \/ SendFails \/ SenderEnds \/ KillSender
  \/ \E n \in Sent : Send(n)
  \/ ReceiverStarts \/ Receive \/ ReceiveFails \/ ReceiverEnds \/ KillReceiver

Spec == Init /\ [][Next]_numberVars

-----------------------------------------------------------------------------
(* Properties. *)

\* While numbers are sent, a receiver that starts finds their queue, unless a
\* receiver of an earlier queue came to its end since: the receiver of this
\* queue cannot remove the name before the sender has sent its last number,
\* whatever earlier senders left behind when they failed or were killed.
FoundWhileSending == sender = "send" /\ ~misnamed => name = held["sender"]
=============================================================================
