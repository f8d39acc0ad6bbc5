------------------------------ MODULE MCPairs ------------------------------
(***************************************************************************)
(* Instance for TLC of the programs in which two processes share one thing *)
(* of the kernel: a message queue (3.6), a priority queue (3.7), datagrams *)
(* (3.14), a stream (3.4, 3.16), a file and signals (3.5), shared memory   *)
(* (3.12, 3.13).  Each behaviour is one of a single pair, named by         *)
(* program; the variables of the others keep their first values.           *)
(***************************************************************************)
EXTENDS QueueChat

CONSTANTS Last, MaxMsg                     \* of NumberQueue
CONSTANTS MaxLines, MaxRuns2               \* of UdpChat
CONSTANTS Total, Room                      \* of ByteStream
CONSTANTS Numbers, Widths, ReadSize, MaxOld  \* of SignalFile
CONSTANTS Values, Batch, Slots, MaxOverlaps  \* of SharedMinMax

VARIABLES sender, receiver, name, held, waiting, misnamed
VARIABLES turn, mail, taken, line, answer, runs2
VARIABLES counted, writer, reader, open, stream, put, got,
          file, missed
VARIABLES parent, round, child, opened, canRead, pending, present, old, size,
          offset, tty, printed, reads, late
VARIABLES running, buf, nMsg, posMinmax, step, copy, pushed, scan, minOf,
          maxOf, shown, written, reply, overlaps
VARIABLE  program  \* the pair this behaviour is of

Largest == INSTANCE NumberQueue
Udp     == INSTANCE UdpChat
Stream  == INSTANCE ByteStream
Signals == INSTANCE SignalFile
Memory  == INSTANCE SharedMinMax

ASSUME PairsAssumption ==
  /\ Largest!NumberAssumption /\ Udp!UdpAssumption
  /\ Stream!StreamAssumption /\ Signals!SignalAssumption
  /\ Memory!SharedAssumption

queueVars == vars
maxVars   == <<sender, receiver, name, held, waiting, misnamed>>
udpVars   == <<turn, mail, taken, line, answer, runs2>>
bytesVars == <<counted, writer, reader, open, stream, put, got,
               file, missed>>
fileVars  == <<parent, round, child, opened, canRead, pending, present, old,
               size, offset, tty, printed, reads, late>>
arrayVars == <<running, buf, nMsg, posMinmax, step, copy, pushed, scan, minOf,
               maxOf, shown, written, reply, overlaps>>

allVars == <<program, queueVars, maxVars, udpVars, bytesVars, fileVars, arrayVars>>

PairsInit ==
  /\ program \in {"queue", "numbers", "udp", "stream", "signals", "memory"}
  /\ Init /\ Largest!Init /\ Udp!Init /\ Stream!Init /\ Signals!Init /\ Memory!Init
  \* One value for what the other pairs leave alone.
  /\ program # "stream"  => counted
  /\ program # "signals" => ~present /\ old = 0 /\ tty
  /\ program # "memory"  => \A v \in Values : buf[0] <= v

QueueStep(A) ==
  /\ program = "queue" /\ A
  /\ UNCHANGED <<program, maxVars, udpVars, bytesVars, fileVars, arrayVars>>

LargestStep(A) ==
  /\ program = "numbers" /\ A
  /\ UNCHANGED <<program, queueVars, udpVars, bytesVars, fileVars, arrayVars>>

UdpStep(A) ==
  /\ program = "udp" /\ A
  /\ UNCHANGED <<program, queueVars, maxVars, bytesVars, fileVars, arrayVars>>

StreamStep(A) ==
  /\ program = "stream" /\ A
  /\ UNCHANGED <<program, queueVars, maxVars, udpVars, fileVars, arrayVars>>

SignalsStep(A) ==
  /\ program = "signals" /\ A
  /\ UNCHANGED <<program, queueVars, maxVars, udpVars, bytesVars, arrayVars>>

MemoryStep(A) ==
  /\ program = "memory" /\ A
  /\ UNCHANGED <<program, queueVars, maxVars, udpVars, bytesVars, fileVars>>

PairsNext ==
  \/ QueueStep(Next)
  \/ LargestStep(Largest!Next)
  \/ UdpStep(Udp!Next)
  \/ StreamStep(Stream!Next)
  \/ SignalsStep(Signals!Next)
  \/ MemoryStep(Memory!Next)

\* The fairness of QueueChat and of ByteStream.
PairsSpec ==
  /\ PairsInit /\ [][PairsNext]_allVars
  /\ WF_allVars(QueueStep(Receiver)) /\ WF_allVars(QueueStep(Sender))
  /\ WF_allVars(StreamStep(Stream!Writer)) /\ WF_allVars(StreamStep(Stream!Reader))

-----------------------------------------------------------------------------
(* Properties: those of the modules, each for the behaviours of its pair.  *)

\* Every variable of every pair has its type.
PairsTypeOK ==
  /\ TypeOK /\ Largest!TypeOK /\ Udp!TypeOK
  /\ Stream!TypeOK /\ Signals!TypeOK /\ Memory!TypeOK

\* 3.7, numbers: see NumberQueue.  The queue of a sender has its name.
FoundWhileSending == Largest!FoundWhileSending

\* 3.14, udp: see UdpChat.  An answer of the first run of client2 answers the
\* line it sent last.
OnePerRun == Udp!OnePerRun

\* 3.4 and 3.16, stream: see ByteStream.  Who reads to a good end has read it all.
NothingMissing == Stream!NothingMissing

\* 3.4 and 3.16, stream: see ByteStream.  Neither end waits for ever.
BothEnd == program = "stream" => Stream!BothEnd

\* 3.5, signals: see SignalFile.  No read that was not asked for.
ReadsAreAsked == Signals!ReadsAreAsked

\* 3.5, signals: see SignalFile.  A child in time has read the whole
\* file, and printed it on a terminal.
PrintedInTime == Signals!PrintedInTime

\* 3.12 and 3.13, memory: see SharedMinMax.  What the parent prints when the
\* sleeps kept the two apart is the minimum and the maximum.
RightWhileApart == Memory!RightWhileApart
=============================================================================
