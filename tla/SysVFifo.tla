------------------------------ MODULE SysVFifo ------------------------------
(***************************************************************************)
(* The named pipe of 3.8: write.c sends Messages numbers, one at a time,   *)
(* and read.c reads them until the pipe ends.  Both are started by hand,   *)
(* in any order; the semaphores outlive them.                              *)
(***************************************************************************)
EXTENDS Semaphores, Sequences

CONSTANTS
  Messages,  \* the 5 of the writer's loop
  MaxLeft    \* bound: what an earlier run left in a semaphore

ASSUME FifoAssumption ==
  Messages \in Nat \ {0} /\ MaxLeft \in Nat /\ Undo \in BOOLEAN

VARIABLES
  writer,  \* where write.c is
  reader,  \* where read.c is
  exists,  \* the pipe has been created
  pipe,    \* the messages in the pipe
  sent,    \* messages written
  got      \* the message read last

vars == <<semVars, writer, reader, exists, pipe, sent, got>>

WriterAt == {"start", "setRead", "setWrite", "wait", "put", "post", "last",
             "exit", "exited", "killed"}
ReaderAt == {"start", "open", "give", "wait", "get", "post", "exit", "exited",
             "killed"}

TypeOK ==
  /\ SemTypeOK
  /\ writer \in WriterAt
  /\ reader \in ReaderAt
  /\ exists \in BOOLEAN
  /\ pipe   \in Seq(1 .. Messages)
  /\ sent   \in 0 .. Messages
  /\ got    \in 0 .. Messages

Init ==
  /\ SemInit(0 .. MaxLeft)
  /\ writer = "start" /\ reader = "start"
  /\ exists \in BOOLEAN
  /\ pipe = <<>> /\ sent = 0 /\ got = 0

WriterGone == writer \in {"exited", "killed"}
ReaderGone == reader \in {"exited", "killed"}

\* The writer opens the pipe for reading and writing, so it never waits for a
\* reader and never writes to a pipe that nobody can read.
WriterOpen == writer \notin {"start", "exited", "killed"}
ReaderOpen == reader \notin {"start", "open", "exited", "killed"}

-----------------------------------------------------------------------------
(* write.c *)

WriterStart ==
  /\ writer = "start"
  /\ exists' = TRUE
  /\ writer' = "setRead"
  /\ UNCHANGED <<semVars, reader, pipe, sent, got>>

SetRead ==
  /\ writer = "setRead"
  /\ SetVal("semRead", 0)
  /\ writer' = "setWrite"
  /\ UNCHANGED <<reader, exists, pipe, sent, got>>

SetWrite ==
  /\ writer = "setWrite"
  /\ SetVal("semWrite", 0)
  /\ writer' = "wait"
  /\ UNCHANGED <<reader, exists, pipe, sent, got>>

\* Mutant: the first number is not waited for.
WriterWaitNotFirst ==
  /\ writer = "wait"
  /\ IF sent = 0 THEN UNCHANGED semVars ELSE P("writer", "semWrite")
  /\ writer' = "put"
  /\ UNCHANGED <<reader, exists, pipe, sent, got>>

WriterWait ==
  /\ writer = "wait"
  /\ P("writer", "semWrite")
  /\ writer' = "put"
  /\ UNCHANGED <<reader, exists, pipe, sent, got>>

Put ==
  /\ writer = "put"
  /\ pipe' = Append(pipe, sent + 1)
  /\ sent' = sent + 1
  /\ writer' = "post"
  /\ UNCHANGED <<semVars, reader, exists, got>>

WriterPost ==
  /\ writer = "post"
  /\ V("writer", "semRead")
  /\ writer' = IF sent < Messages THEN "wait" ELSE "last"
  /\ UNCHANGED <<reader, exists, pipe, sent, got>>

\* One more V lets the reader see the end of the pipe.
WriterLast ==
  /\ writer = "last"
  /\ V("writer", "semRead")
  /\ writer' = "exit"
  /\ UNCHANGED <<reader, exists, pipe, sent, got>>

\* The kernel takes back all of the process's V(semRead) when it ends, and
\* what is in the pipe when nobody has it open.
WriterLeaves(how) ==
  /\ Leave("writer")
  /\ writer' = how
  /\ pipe' = IF ReaderOpen THEN pipe ELSE <<>>
  /\ UNCHANGED <<reader, exists, sent, got>>

WriterExit == writer = "exit" /\ WriterLeaves("exited")

-----------------------------------------------------------------------------
(* read.c *)

\* A pipe that does not exist cannot be opened, and the reader exits.
ReaderStart ==
  /\ reader = "start"
  /\ reader' = IF exists THEN "open" ELSE "exited"
  /\ UNCHANGED <<semVars, writer, exists, pipe, sent, got>>

\* open waits for a process that has the pipe open for writing.
ReaderOpens ==
  /\ reader = "open"
  /\ WriterOpen
  /\ reader' = "give"
  /\ UNCHANGED <<semVars, writer, exists, pipe, sent, got>>

\* Mutant: two numbers may be sent before one is read.
ReaderGiveTwo ==
  /\ reader = "give"
  /\ value' = [value EXCEPT !["semWrite"] = @ + 2]
  /\ Adjusted("reader", "semWrite", -2)
  /\ reader' = "wait"
  /\ UNCHANGED <<writer, exists, pipe, sent, got>>

ReaderGive ==
  /\ reader = "give"
  /\ V("reader", "semWrite")
  /\ reader' = "wait"
  /\ UNCHANGED <<writer, exists, pipe, sent, got>>

ReaderWait ==
  /\ reader = "wait"
  /\ P("reader", "semRead")
  /\ reader' = "get"
  /\ UNCHANGED <<writer, exists, pipe, sent, got>>

\* read waits for a number, or for the pipe to end.
Get ==
  /\ reader = "get"
  /\ \/ /\ pipe # <<>>
        /\ got' = Head(pipe)
        /\ pipe' = Tail(pipe)
        /\ reader' = "post"
     \/ /\ pipe = <<>> /\ ~WriterOpen
        /\ reader' = "exit"
        /\ UNCHANGED <<got, pipe>>
  /\ UNCHANGED <<semVars, writer, exists, sent>>

\* Mutant: the writer is not allowed to go on.
ReaderPostNothing ==
  /\ reader = "post"
  /\ reader' = "wait"
  /\ UNCHANGED <<semVars, writer, exists, pipe, sent, got>>

ReaderPost ==
  /\ reader = "post"
  /\ V("reader", "semWrite")
  /\ reader' = "wait"
  /\ UNCHANGED <<writer, exists, pipe, sent, got>>

ReaderLeaves(how) ==
  /\ Leave("reader")
  /\ reader' = how
  /\ pipe' = IF WriterOpen THEN pipe ELSE <<>>
  /\ UNCHANGED <<writer, exists, sent, got>>

ReaderExit == reader = "exit" /\ ReaderLeaves("exited")

-----------------------------------------------------------------------------
Writer == \/ WriterStart \/ SetRead \/ SetWrite \/ WriterWait \/ Put
          \/ WriterPost \/ WriterLast \/ WriterExit
Reader == \/ ReaderStart \/ ReaderOpens \/ ReaderGive \/ ReaderWait \/ Get
          \/ ReaderPost \/ ReaderExit

Kill == \/ ~WriterGone /\ WriterLeaves("killed")
        \/ ~ReaderGone /\ ReaderLeaves("killed")

Next == Writer \/ Reader \/ Kill

Spec == Init /\ [][Next]_vars

\* Both programs are started and run; nothing is assumed of Kill.
FairSpec == Spec /\ WF_vars(Writer) /\ WF_vars(Reader)

-----------------------------------------------------------------------------
(* Properties. *)

\* Whatever the semaphores held before, whoever starts first and whoever is
\* killed: numbers are read in order, each once, and none is sent before the
\* one before it was read or lost.
Pair == INSTANCE Handoff WITH Ahead <- 1, transit <- pipe

ImplementsHandoff == Pair!Spec

\* A writer that came to its end has handed over all numbers but the last,
\* which the undoing of its V(semRead) may keep from the reader.
AllButLast == writer \in {"last", "exit", "exited"} => got >= Messages - 1

\* A permission given to a writer that has set the semaphores, and is
\* therefore not wiped out any more, carries both through all numbers unless
\* one of them is killed.
PermissionCarries ==
  value["semWrite"] > 0 /\ writer = "wait"
    ~> writer = "exited" \/ "killed" \in {writer, reader}
=============================================================================
