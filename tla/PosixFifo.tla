----------------------------- MODULE PosixFifo -----------------------------
(***************************************************************************)
(* The named pipe of 3.10: write.c sends Messages numbers, one at a time,  *)
(* and read.c reads them until the pipe ends.  The semaphores are found by *)
(* name, each by a call of its own, and the names are taken away in the    *)
(* same way; who has opened a semaphore keeps it.  Both programs may be    *)
(* killed and started again anywhere in between, and then one may have an  *)
(* old read semaphore and a new write semaphore, or the reverse.           *)
(***************************************************************************)
EXTENDS Integers, Sequences

CONSTANTS
  Messages,   \* the 10 of the writer's loop
  MaxWriters, \* bound: times the writer is started
  MaxReaders, \* bound: times the reader is started
  MaxKills    \* bound: times one of them is killed

ASSUME FifoAssumption ==
  /\ Messages \in Nat \ {0} /\ MaxWriters \in Nat
  /\ MaxReaders \in Nat /\ MaxKills \in Nat

VARIABLES
  writer,      \* where write.c is
  reader,      \* where read.c is
  named,       \* named[n]: the semaphore the name n stands for, 0 if none
  made,        \* made[n]: semaphores made under the name n
  value,       \* value[n][k]: the k-th semaphore of the name n
  held,        \* held[p][n]: the semaphore p has opened under the name n
  pipe,        \* the messages in the pipe
  sent,        \* messages written, by all writers
  got,         \* the message read last
  writers,     \* times the writer was started
  readers,     \* times the reader was started
  number,      \* numbers the running writer has sent
  kills        \* times one of them was killed

vars == <<writer, reader, named, made, value, held, pipe, sent, got, writers,
          readers, number, kills>>
count == <<writers, readers, number, kills>>
names == <<named, made, held>>
data == <<pipe, sent, got>>

Names == {"semRead", "semWrite"}
Sems  == 1 .. MaxWriters + MaxReaders
Ends  == {"writer", "reader"}

TypeOK ==
  /\ writer \in {"off", "open", "openRead", "openWrite", "wait", "put", "post",
                 "unlinkRead", "unlinkWrite", "close", "done"}
  /\ reader \in {"off", "open", "openRead", "openWrite", "give", "wait", "get",
                 "post", "unlinkRead", "unlinkWrite", "close", "finished"}
  /\ named  \in [Names -> {0} \cup Sems]
  /\ made   \in [Names -> {0} \cup Sems]
  /\ value  \in [Names -> [Sems -> Nat]]
  /\ held   \in [Ends -> [Names -> {0} \cup Sems]]
  /\ pipe   \in Seq(Nat)
  /\ sent   \in 0 .. Messages * MaxWriters
  /\ got    \in 0 .. Messages * MaxWriters
  /\ writers \in 0 .. MaxWriters
  /\ readers \in 0 .. MaxReaders
  /\ number \in 0 .. Messages
  /\ kills \in 0 .. MaxKills

Init ==
  /\ writer = "off" /\ reader = "off"
  /\ named = [n \in Names |-> 0] /\ made = [n \in Names |-> 0]
  /\ value = [n \in Names |-> [k \in Sems |-> 0]]
  /\ held = [p \in Ends |-> [n \in Names |-> 0]]
  /\ pipe = <<>> /\ sent = 0 /\ got = 0
  /\ writers = 0 /\ readers = 0 /\ number = 0 /\ kills = 0

WriterOpen == writer \notin {"off", "open", "done"}
ReaderOpen == reader \notin {"off", "open", "finished"}

\* The kernel drops what is in the pipe when nobody has it open any more.
KeptBy(open) == pipe' = IF open THEN pipe ELSE <<>>

\* sem_open with O_CREAT: the semaphore of that name, or a new one of value 0.
OpenSem(p, n) ==
  LET k == IF named[n] = 0 THEN made[n] + 1 ELSE named[n] IN
  /\ held' = [held EXCEPT ![p][n] = k]
  /\ named' = [named EXCEPT ![n] = k]
  /\ made' = IF named[n] = 0 THEN [made EXCEPT ![n] = k] ELSE made

\* sem_unlink takes the name away; who has opened the semaphore keeps it.
Unlink(n) == named' = [named EXCEPT ![n] = 0] /\ UNCHANGED <<made, held>>

\* sem_wait and sem_post on the semaphore that p has opened as n
SemWait(p, n) == /\ value[n][held[p][n]] > 0
                 /\ value' = [value EXCEPT ![n][held[p][n]] = @ - 1]
SemPost(p, n) == value' = [value EXCEPT ![n][held[p][n]] = @ + 1]

-----------------------------------------------------------------------------
(* write.c *)

StartWriter ==
  /\ writer \in {"off", "done"}
  /\ writers < MaxWriters
  /\ writers' = writers + 1
  /\ writer' = "open"
  /\ number' = 0
  /\ held' = [held EXCEPT !["writer"] = [n \in Names |-> 0]]
  /\ UNCHANGED <<reader, named, made, value, data, readers, kills>>

\* open waits until the other side has the pipe open, or waits for it too:
\* then both go on.
WriterOpens ==
  /\ writer = "open"
  /\ reader = "open" \/ ReaderOpen
  /\ writer' = "openRead"
  /\ reader' = IF reader = "open" THEN "openRead" ELSE reader
  /\ UNCHANGED <<names, value, data, count>>

WriterSemRead ==
  /\ writer = "openRead"
  /\ OpenSem("writer", "semRead")
  /\ writer' = "openWrite"
  /\ UNCHANGED <<reader, value, data, count>>

WriterSemWrite ==
  /\ writer = "openWrite"
  /\ OpenSem("writer", "semWrite")
  /\ writer' = "wait"
  /\ UNCHANGED <<reader, value, data, count>>

WriterWait ==
  /\ writer = "wait"
  /\ SemWait("writer", "semWrite")
  /\ writer' = "put"
  /\ UNCHANGED <<reader, names, data, count>>

\* Without a reader the write raises SIGPIPE, and the writer is gone.
Put ==
  /\ writer = "put"
  /\ IF ReaderOpen
     THEN /\ pipe' = Append(pipe, sent + 1)
          /\ sent' = sent + 1 /\ number' = number + 1
          /\ writer' = "post"
     ELSE writer' = "done" /\ KeptBy(FALSE) /\ UNCHANGED <<sent, number>>
  /\ UNCHANGED <<reader, names, value, got, writers, readers, kills>>

WriterPost ==
  /\ writer = "post"
  /\ SemPost("writer", "semRead")
  /\ writer' = IF number = Messages THEN "unlinkRead" ELSE "wait"
  /\ UNCHANGED <<reader, names, data, count>>

\* The names go one after the other, then the pipe is closed.
WriterUnlinkRead ==
  /\ writer = "unlinkRead"
  /\ Unlink("semRead")
  /\ writer' = "unlinkWrite"
  /\ UNCHANGED <<reader, value, data, count>>

WriterUnlinkWrite ==
  /\ writer = "unlinkWrite"
  /\ Unlink("semWrite")
  /\ writer' = "close"
  /\ UNCHANGED <<reader, value, data, count>>

WriterClose ==
  /\ writer = "close"
  /\ KeptBy(ReaderOpen)
  /\ writer' = "done"
  /\ UNCHANGED <<reader, names, value, sent, got, count>>

-----------------------------------------------------------------------------
(* read.c *)

StartReader ==
  /\ reader \in {"off", "finished"}
  /\ readers < MaxReaders
  /\ readers' = readers + 1
  /\ reader' = "open"
  /\ held' = [held EXCEPT !["reader"] = [n \in Names |-> 0]]
  /\ UNCHANGED <<writer, named, made, value, data, writers, number, kills>>

ReaderOpens ==
  /\ reader = "open"
  /\ writer = "open" \/ WriterOpen
  /\ reader' = "openRead"
  /\ writer' = IF writer = "open" THEN "openRead" ELSE writer
  /\ UNCHANGED <<names, value, data, count>>

ReaderSemRead ==
  /\ reader = "openRead"
  /\ OpenSem("reader", "semRead")
  /\ reader' = "openWrite"
  /\ UNCHANGED <<writer, value, data, count>>

ReaderSemWrite ==
  /\ reader = "openWrite"
  /\ OpenSem("reader", "semWrite")
  /\ reader' = "give"
  /\ UNCHANGED <<writer, value, data, count>>

\* Mutant: the writer is given two turns.
ReaderGiveTwo ==
  /\ reader = "give"
  /\ value' = [value EXCEPT !["semWrite"][held["reader"]["semWrite"]] = @ + 2]
  /\ reader' = "wait"
  /\ UNCHANGED <<writer, names, data, count>>

\* Mutant: the writer is not given a turn.
ReaderGiveNone ==
  /\ reader = "give"
  /\ reader' = "wait"
  /\ UNCHANGED <<writer, names, value, data, count>>

ReaderGive ==
  /\ reader = "give"
  /\ SemPost("reader", "semWrite")
  /\ reader' = "wait"
  /\ UNCHANGED <<writer, names, data, count>>

ReaderWait ==
  /\ reader = "wait"
  /\ SemWait("reader", "semRead")
  /\ reader' = "get"
  /\ UNCHANGED <<writer, names, data, count>>

\* read returns a number, or 0 at the end of the pipe.
Get ==
  /\ reader = "get"
  /\ pipe # <<>> \/ ~WriterOpen
  /\ IF pipe # <<>>
     THEN got' = Head(pipe) /\ pipe' = Tail(pipe) /\ reader' = "post"
     ELSE reader' = "unlinkRead" /\ UNCHANGED <<got, pipe>>
  /\ UNCHANGED <<writer, names, value, sent, count>>

ReaderPost ==
  /\ reader = "post"
  /\ SemPost("reader", "semWrite")
  /\ reader' = "wait"
  /\ UNCHANGED <<writer, names, data, count>>

ReaderUnlinkRead ==
  /\ reader = "unlinkRead"
  /\ Unlink("semRead")
  /\ reader' = "unlinkWrite"
  /\ UNCHANGED <<writer, value, data, count>>

ReaderUnlinkWrite ==
  /\ reader = "unlinkWrite"
  /\ Unlink("semWrite")
  /\ reader' = "close"
  /\ UNCHANGED <<writer, value, data, count>>

ReaderClose ==
  /\ reader = "close"
  /\ KeptBy(WriterOpen)
  /\ reader' = "finished"
  /\ UNCHANGED <<writer, names, value, sent, got, count>>

-----------------------------------------------------------------------------
KillWriter ==
  /\ writer \notin {"off", "done"}
  /\ writer' = "done"
  /\ KeptBy(ReaderOpen)
  /\ UNCHANGED reader

KillReader ==
  /\ reader \notin {"off", "finished"}
  /\ reader' = "off"
  /\ KeptBy(WriterOpen)
  /\ UNCHANGED writer

Kill ==
  /\ kills < MaxKills
  /\ kills' = kills + 1
  /\ KillWriter \/ KillReader
  /\ UNCHANGED <<names, value, sent, got, writers, readers, number>>

Writer == \/ WriterOpens \/ WriterSemRead \/ WriterSemWrite \/ WriterWait \/ Put
          \/ WriterPost \/ WriterUnlinkRead \/ WriterUnlinkWrite \/ WriterClose
Reader == \/ ReaderOpens \/ ReaderSemRead \/ ReaderSemWrite \/ ReaderGive
          \/ ReaderWait \/ Get \/ ReaderPost \/ ReaderUnlinkRead
          \/ ReaderUnlinkWrite \/ ReaderClose

Next == StartWriter \/ StartReader \/ Writer \/ Reader \/ Kill

Spec == Init /\ [][Next]_vars

\* Both programs are started, and run; nothing is assumed of Kill.
FairSpec ==
  /\ Spec
  /\ WF_vars(StartWriter) /\ WF_vars(StartReader)
  /\ WF_vars(Writer) /\ WF_vars(Reader)

-----------------------------------------------------------------------------
(* Properties. *)

\* Whoever is killed and started again, and whatever that leaves in the
\* semaphores, old and new ones mixed: numbers are read in order, each once,
\* and there are never more on their way than readers have been started.
Pair == INSTANCE Handoff WITH Ahead <- MaxReaders, transit <- pipe

ImplementsHandoff == Pair!Spec

\* The first writer and the first reader, whoever comes first, get through
\* all numbers unless one is killed.
FirstIsHandedOver == <>(got >= Messages \/ kills > 0)
=============================================================================
