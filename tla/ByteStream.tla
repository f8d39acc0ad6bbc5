----------------------------- MODULE ByteStream -----------------------------
(***************************************************************************)
(* A writer and a reader at the two ends of a stream: the pipe of 3.4,     *)
(* whose ends both processes hold after the fork and whose reader knows    *)
(* how many numbers to expect, and the file transfer of 3.16, whose reader *)
(* (server.c) goes on to the end of the stream.                            *)
(***************************************************************************)
EXTENDS Naturals

CONSTANTS
  Total,  \* the units (numbers, bytes) the writer has to send
  Room    \* units the stream holds

\* Assumed by MCPairs.
StreamAssumption == Total \in Nat \ {0} /\ Room \in Nat \ {0}

VARIABLES
  counted, \* TRUE: the program is 3.4, FALSE: 3.16
  writer,  \* where the writer is
  reader,  \* where the reader is
  open,    \* the ends of the stream that are open, as <<process, end>>
  stream,  \* units on their way
  put,     \* units the writer has sent
  got,     \* units the reader has read
  file,    \* units in the reader's file
  missed   \* units a write to the file has lost

streamVars == <<counted, writer, reader, open, stream, put, got, file, missed>>
fileVars == <<file, missed>>

Ends == {"writer", "reader"} \X {"in", "out"}

TypeOK ==
  /\ counted \in BOOLEAN
  /\ writer  \in {"begin", "write", "done", "failed"}
  /\ reader  \in {"begin", "read", "wait", "done", "failed"}
  /\ open    \subseteq Ends
  /\ stream  \in 0 .. Room
  /\ put     \in 0 .. Total
  /\ got     \in 0 .. Total
  /\ file    \in 0 .. Total
  /\ missed  \in 0 .. Total

\* The fork gives both processes both ends; a socket end belongs to one.
Init ==
  /\ counted \in BOOLEAN
  /\ writer = "begin" /\ reader = "begin"
  /\ open = IF counted THEN Ends ELSE {<<"writer", "in">>, <<"reader", "out">>}
  /\ stream = 0 /\ put = 0 /\ got = 0 /\ file = 0 /\ missed = 0

Writers == {p \in {"writer", "reader"} : <<p, "in">> \in open}
Readers == {p \in {"writer", "reader"} : <<p, "out">> \in open}

\* The end of a process, however it comes, closes what it has open.
EndOf(p) == open' = open \ ({p} \X {"in", "out"})

-----------------------------------------------------------------------------
(* Writer: the child of 3.4, client.c of 3.16. *)

\* Mutant: the child keeps the end it reads nothing from.
WriterBeginsOpen ==
  /\ writer = "begin"
  /\ writer' = "write"
  /\ UNCHANGED <<counted, reader, open, stream, put, got, fileVars>>

WriterBegins ==
  /\ writer = "begin"
  /\ open' = open \ {<<"writer", "out">>}
  /\ writer' = "write"
  /\ UNCHANGED <<counted, reader, stream, put, got, fileVars>>

\* A write waits for room.
Write ==
  /\ writer = "write" /\ put < Total
  /\ Readers # {} /\ stream < Room
  /\ stream' = stream + 1 /\ put' = put + 1
  /\ UNCHANGED <<counted, writer, reader, open, got, fileVars>>

\* Nobody will read: SIGPIPE; a socket may take some more before it tells.
WriteBroken ==
  /\ writer = "write" /\ put < Total
  /\ Readers = {}
  /\ \/ writer' = "failed" /\ EndOf("writer") /\ UNCHANGED put
     \/ ~counted /\ put' = put + 1 /\ UNCHANGED <<writer, open>>
  /\ UNCHANGED <<counted, reader, stream, got, fileVars>>

\* close and exit.
WriterDone ==
  /\ writer = "write" /\ put = Total
  /\ writer' = "done" /\ EndOf("writer")
  /\ UNCHANGED <<counted, reader, stream, put, got, fileVars>>

Writer == WriterBegins \/ Write \/ WriteBroken \/ WriterDone

\* It is killed, or client.c cannot read its file.
WriterFails ==
  /\ writer \in {"begin", "write"}
  /\ writer' = "failed" /\ EndOf("writer")
  /\ UNCHANGED <<counted, reader, stream, put, got, fileVars>>

-----------------------------------------------------------------------------
(* Reader: the parent of 3.4, server.c of 3.16. *)

\* Mutant: the parent keeps the end it writes nothing to.
ReaderBeginsOpen ==
  /\ reader = "begin"
  /\ reader' = "read"
  /\ UNCHANGED <<counted, writer, open, stream, put, got, fileVars>>

ReaderBegins ==
  /\ reader = "begin"
  /\ open' = open \ {<<"reader", "in">>}
  /\ reader' = "read"
  /\ UNCHANGED <<counted, writer, stream, put, got, fileVars>>

\* What was read goes into the file; of that a write may lose some, and nobody
\* looks: 3.4 leaves the results of fprintf and fclose alone, and server.c
\* takes a write that was cut short for a whole one.
Save == \E m \in missed .. got' - file :
          missed' = m /\ file' = got' - m

Wants == reader = "read" /\ (counted => got < Total)

\* Of a pipe a number at a time, of a socket as much as there is.  server.c
\* writes it at once, fprintf when its buffer is full.
Read ==
  /\ Wants /\ stream > 0
  /\ \E n \in 1 .. stream :
       /\ counted => n = 1
       /\ stream' = stream - n /\ got' = got + n
  /\ Save \/ (counted /\ UNCHANGED fileVars)
  /\ UNCHANGED <<counted, writer, reader, open, put>>

\* Mutant: the end of the stream is taken for the end of the numbers.
ReadEndUnnoticed ==
  /\ Wants /\ stream = 0 /\ Writers = {}
  /\ reader' = "done"
  /\ EndOf("reader")
  /\ UNCHANGED got /\ Save
  /\ UNCHANGED <<counted, writer, stream, put>>

\* read returns 0: an error for who counts, the end for who does not.  3.4
\* closes its file here too, and so writes what its buffer holds.
ReadEnd ==
  /\ Wants /\ stream = 0 /\ Writers = {}
  /\ reader' = IF counted THEN "failed" ELSE "done"
  /\ EndOf("reader")
  /\ UNCHANGED got /\ Save
  /\ UNCHANGED <<counted, writer, stream, put>>

\* close and fclose.
ReadAll ==
  /\ reader = "read" /\ counted /\ got = Total
  /\ reader' = "wait"
  /\ open' = open \ {<<"reader", "out">>}
  /\ UNCHANGED got /\ Save
  /\ UNCHANGED <<counted, writer, stream, put>>

\* wait(NULL) of 3.4, whose result too is left alone: the end is a success.
Reap ==
  /\ reader = "wait" /\ writer \in {"done", "failed"}
  /\ reader' = "done"
  /\ EndOf("reader")
  /\ UNCHANGED <<counted, writer, stream, put, got, fileVars>>

Reader == ReaderBegins \/ Read \/ ReadEnd \/ ReadAll \/ Reap

\* It is killed, cannot open its file or cannot read, or server.c has lost all
\* of a write and ends for it.
ReaderFails ==
  /\ reader \in {"begin", "read", "wait"}
  /\ reader' = "failed" /\ EndOf("reader")
  /\ UNCHANGED <<counted, writer, stream, put, got, fileVars>>

-----------------------------------------------------------------------------
Next == Writer \/ WriterFails \/ Reader \/ ReaderFails

Spec == Init /\ [][Next]_streamVars

\* Both run; nothing need fail.
FairSpec == Spec /\ WF_streamVars(Writer) /\ WF_streamVars(Reader)

-----------------------------------------------------------------------------
(* Properties. *)

\* A reader that ends well has read everything, unless it is server.c and the
\* client failed, which server.c cannot tell from its end.  What is then not in
\* the file was lost by a write to the file itself, with no word of it.
NothingMissing ==
  reader = "done" /\ (counted \/ writer = "done") =>
    got = Total /\ file = Total - missed

\* Whoever fails, and wherever: the other does not wait for ever, the reader
\* for the end of a stream that it holds open itself, or the writer for room
\* in one that only it could read.
BothEnd == <>(writer \in {"done", "failed"} /\ reader \in {"done", "failed"})
=============================================================================
