----------------------------- MODULE QueueChat -----------------------------
(***************************************************************************)
(* The chat of 3.6: sender.c and receiver.c share one System V message     *)
(* queue and both send and receive messages of type 1, so either may take  *)
(* what it sent itself.  Whoever ends removes the queue.  Messages of      *)
(* other types are received by nobody and left out.                        *)
(***************************************************************************)
EXTENDS Naturals, Sequences

CONSTANTS
  Lines,    \* what the user of sender may type, besides "exit"
  Capacity  \* messages the queue holds

ASSUME ChatAssumption ==
  Lines \subseteq STRING /\ "exit" \notin Lines /\ Capacity \in Nat \ {0}

VARIABLES
  at,       \* at[p]: where program p is
  text,     \* text[p]: its message.mtext
  attached, \* attached[p]: its msqid names the queue there is
  exists,   \* there is a queue
  queue,    \* its messages of type 1
  uneven    \* a text too many was sent to the queue, or one was lost

vars == <<at, text, attached, exists, queue, uneven>>

Programs == {"receiver", "sender"}
Places   == {"off", "greet", "send", "receive", "type", "remove"}
Texts    == Lines \cup {"unset", "hello", "exit"}

TypeOK ==
  /\ at       \in [Programs -> Places]
  /\ text     \in [Programs -> Texts]
  /\ attached \in [Programs -> BOOLEAN]
  /\ exists   \in BOOLEAN
  /\ queue    \in Seq(Texts)
  /\ uneven    \in BOOLEAN

Init ==
  /\ at       = [p \in Programs |-> "off"]
  /\ text     = [p \in Programs |-> "unset"]
  /\ attached = [p \in Programs |-> FALSE]
  /\ exists = FALSE /\ queue = <<>> /\ uneven = FALSE

Goes(p, place) == at' = [at EXCEPT ![p] = place]

\* msgget; a program is started by hand.
Starts(p, place, said) ==
  /\ at[p] = "off"
  /\ Goes(p, place)
  /\ text' = [text EXCEPT ![p] = said]
  /\ attached' = [attached EXCEPT ![p] = TRUE]
  /\ exists' = TRUE
  /\ UNCHANGED <<queue, uneven>>

\* msgsnd fails unnoticed when the queue was removed, and waits for a place.
Sends(p, said) ==
  IF attached[p]
  THEN Len(queue) < Capacity /\ queue' = Append(queue, said)
  ELSE UNCHANGED queue

\* msgrcv waits for a text, anyone's; when the queue is gone it fails
\* unnoticed and leaves the old text.  Both programs then look for "exit".
Receives(p, next) ==
  /\ at[p] = "receive"
  /\ IF attached[p]
     THEN /\ queue # <<>>
          /\ text' = [text EXCEPT ![p] = Head(queue)]
          /\ queue' = Tail(queue)
     ELSE UNCHANGED <<text, queue>>
  /\ Goes(p, IF text'[p] = "exit" THEN "remove" ELSE next)
  /\ UNCHANGED <<attached, exists, uneven>>

\* Mutant: receiver leaves the queue for others to use.
ExitsOnly(p) ==
  /\ at[p] = "remove"
  /\ Goes(p, "off")
  /\ UNCHANGED <<text, attached, exists, queue, uneven>>

\* IPC_RMID: a msqid of the queue stays useless for ever.
Removes(p) ==
  /\ at[p] = "remove"
  /\ Goes(p, "off")
  /\ IF attached[p]
     THEN /\ attached' = [q \in Programs |-> FALSE]
          /\ exists' = FALSE /\ queue' = <<>> /\ uneven' = FALSE
     ELSE UNCHANGED <<attached, exists, queue, uneven>>
  /\ UNCHANGED text

-----------------------------------------------------------------------------
(* receiver.c *)

ReceiverStarts == Starts("receiver", "greet", "hello")

\* The type of the first message is never set: it is 1, or msgsnd fails, or
\* nobody will receive the message.
Greets ==
  /\ at["receiver"] = "greet"
  /\ Goes("receiver", "send")
  /\ \/ /\ Sends("receiver", "hello")
        /\ uneven' = (uneven \/ attached["receiver"])
     \/ UNCHANGED <<queue, uneven>>
  /\ UNCHANGED <<text, attached, exists>>

\* Mutant: a text is sent twice.
SendsOnTwice ==
  /\ at["receiver"] = "send"
  /\ IF attached["receiver"]
     THEN /\ Len(queue) + 1 < Capacity
          /\ queue' = queue \o <<text["receiver"], text["receiver"]>>
     ELSE UNCHANGED queue
  /\ Goes("receiver", "receive")
  /\ UNCHANGED <<text, attached, exists, uneven>>

\* What receiver sends is what it received last.
SendsOn ==
  /\ at["receiver"] = "send"
  /\ Sends("receiver", text["receiver"])
  /\ Goes("receiver", "receive")
  /\ UNCHANGED <<text, attached, exists, uneven>>

Receiver == Greets \/ SendsOn \/ Receives("receiver", "send") \/ Removes("receiver")

-----------------------------------------------------------------------------
(* sender.c *)

SenderStarts == Starts("sender", "receive", "unset")

\* The user types a line; at the end of the input fgets leaves the old one.
Types ==
  /\ at["sender"] = "type"
  /\ \E line \in Lines \cup {"exit", text["sender"]} :
       /\ text' = [text EXCEPT !["sender"] = line]
       /\ Sends("sender", line)
  /\ Goes("sender", "receive")
  /\ UNCHANGED <<attached, exists, uneven>>

\* A last message, of type 2, needs a place in the queue before it goes.
SenderRemoves ==
  /\ attached["sender"] => Len(queue) < Capacity
  /\ Removes("sender")

Sender == Receives("sender", "type") \/ SenderRemoves

-----------------------------------------------------------------------------
\* What p has taken but not passed on, or passed on and not got back.
Owes(p) == at[p] \in {"type", "remove"} \/ (p = "receiver" /\ at[p] = "receive")

\* A program is killed; what it sent stays, what it took is lost.
Kill(p) ==
  /\ at[p] # "off"
  /\ Goes(p, "off")
  /\ uneven' = (uneven \/ (attached[p] /\ Owes(p)))
  /\ attached' = [attached EXCEPT ![p] = FALSE]
  /\ UNCHANGED <<text, exists, queue>>

Next ==
  \/ ReceiverStarts \/ Receiver
  \/ SenderStarts \/ Sender \/ Types
  \/ \E p \in Programs : Kill(p)

Spec == Init /\ [][Next]_vars

\* The programs run; nobody need start, kill or type anything.
FairSpec == Spec /\ WF_vars(Receiver) /\ WF_vars(Sender)

-----------------------------------------------------------------------------
(* Properties. *)

Holding == attached["sender"] /\ at["sender"] \in {"type", "remove"}
Waiting == attached["receiver"] /\ at["receiver"] = "receive"

\* As long as no text was lost with a killed program and the first message
\* went nowhere, the two take turns, although either may take its own text:
\* when receiver waits there is one text, on its way or in sender's hands, and
\* when it does not there is none.
OneText == ~uneven => Len(queue) + (IF Holding THEN 1 ELSE 0)
                       = IF Waiting THEN 1 ELSE 0

\* A typed "exit" ends sender, whichever of the two takes it.  (Receiver it
\* ends only if receiver takes it.)
ExitEndsSender ==
  attached["sender"] /\ at["sender"] = "receive" /\ text["sender"] = "exit"
    ~> at["sender"] = "off" \/ uneven
=============================================================================
