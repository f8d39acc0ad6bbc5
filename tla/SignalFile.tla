----------------------------- MODULE SignalFile -----------------------------
(***************************************************************************)
(* The file with signals, 3.5: a parent tells its child to keep away from  *)
(* numbers.txt (SIGUSR1), appends a number, tells the child to read        *)
(* (SIGUSR2) and sleeps.  The child polls a flag that the handlers set.    *)
(* Two signals that wait for the child are delivered in either order.      *)
(***************************************************************************)
EXTENDS Integers

CONSTANTS
  Numbers,   \* the argument of the program
  Widths,    \* the bytes a number takes in the file, with its newline
  ReadSize,  \* the bytes one read asks for
  MaxOld     \* bound: the bytes earlier runs left in the file

\* Assumed by MCPairs.
SignalAssumption ==
  /\ Numbers \in Nat /\ MaxOld \in Nat /\ ReadSize \in Nat
  /\ Widths \subseteq 1 .. ReadSize /\ Widths # {}

VARIABLES
  parent,  \* where the parent is
  round,   \* numbers begun
  child,   \* where the child is
  opened,  \* the child could open the file
  canRead, \* the flag
  pending, \* the signals not delivered yet
  present, \* numbers.txt exists
  old,     \* the bytes earlier runs left in it
  size,    \* its bytes
  offset,  \* the bytes the child has read
  tty,     \* the child prints to a terminal
  printed, \* the bytes of the file that stdio has let through to where it prints
  reads,   \* its calls of read
  late     \* a signal was sent before the child was done with the last one

signalVars == <<parent, round, child, opened, canRead, pending, present, old,
                size, offset, tty, printed, reads, late>>

TypeOK ==
  /\ parent  \in {"open", "hold", "write", "start", "sleep", "done"}
  /\ round   \in 0 .. Numbers
  /\ child   \in {"open", "check", "read", "clear", "dead"}
  /\ opened  \in BOOLEAN
  /\ canRead \in BOOLEAN
  /\ pending \subseteq {"Wait", "Start"}
  /\ present \in BOOLEAN
  /\ old     \in 0 .. MaxOld
  /\ size    \in Nat
  /\ offset  \in 0 .. size
  /\ tty     \in BOOLEAN
  /\ printed \in 0 .. offset
  /\ reads   \in Nat
  /\ late    \in BOOLEAN

Init ==
  /\ parent = "open" /\ child = "open"
  /\ round = 0 /\ reads = 0 /\ offset = 0 /\ printed = 0
  /\ tty \in BOOLEAN
  /\ opened = FALSE /\ canRead = FALSE /\ pending = {}
  /\ present \in BOOLEAN
  /\ old \in IF present THEN 0 .. MaxOld ELSE {0}
  /\ size = old
  /\ late = FALSE

-----------------------------------------------------------------------------
(* Parent. *)

childVars == <<child, opened, canRead, offset, tty, printed, reads>>

ParentOpens ==
  /\ parent = "open"
  /\ present' = TRUE
  /\ parent' = IF Numbers > 0 THEN "hold" ELSE "sleep"
  /\ UNCHANGED <<round, pending, old, size, late, childVars>>

\* A signal that is pending already is not queued a second time.
Signals(s) == pending' = pending \cup {s}

\* The child has handled every signal, and read if it was to.
Settled == pending = {} /\ child \in {"open", "check"}

SendWait ==
  /\ parent = "hold"
  /\ round' = round + 1
  /\ Signals("Wait")
  /\ late' = (late \/ ~Settled \/ canRead)
  /\ parent' = "write"
  /\ UNCHANGED <<present, old, size, childVars>>

AppendNumber ==
  /\ parent = "write"
  /\ \E w \in Widths : size' = size + w
  /\ parent' = "start"
  /\ UNCHANGED <<round, pending, present, old, late, childVars>>

SendStart ==
  /\ parent = "start"
  /\ Signals("Start")
  /\ late' = (late \/ ~Settled)
  /\ parent' = IF round < Numbers THEN "hold" ELSE "sleep"
  /\ UNCHANGED <<round, present, old, size, childVars>>

\* The last sleep, SIGKILL and wait.  What stdio holds back goes with the child.
KillChild ==
  /\ parent = "sleep"
  /\ late' = (late \/ ~Settled \/ canRead)
  /\ child' = "dead" /\ parent' = "done"
  /\ UNCHANGED <<round, pending, present, old, size, opened, canRead, offset,
                 tty, printed, reads>>

-----------------------------------------------------------------------------
(* Child. *)

parentVars == <<parent, round, present, old, size, late, tty>>

\* The handlers Wait and Start; two pending signals come in either order.
Handle(s) ==
  /\ child # "dead" /\ s \in pending
  /\ pending' = pending \ {s}
  /\ canRead' = (s = "Start")
  /\ UNCHANGED <<child, opened, offset, printed, reads, parentVars>>

\* Nothing makes the child wait for the parent's open, which makes the file.
ChildOpens ==
  /\ child = "open"
  /\ opened' = present
  /\ child' = "check"
  /\ UNCHANGED <<canRead, pending, offset, printed, reads, parentVars>>

Check ==
  /\ child = "check" /\ canRead
  /\ child' = "read"
  /\ UNCHANGED <<opened, canRead, pending, offset, printed, reads, parentVars>>

Least(a, b) == IF a < b THEN a ELSE b

Widest == CHOOSE w \in Widths : \A v \in Widths : v <= w

\* printf has no newline of its own and nothing flushes it.  On a terminal
\* stdio passes on all lines that are whole; elsewhere what its buffer cannot
\* hold, which is nothing of a short file.
Prints ==
  \E shown \in printed .. offset' :
    /\ tty => offset' - shown < Widest /\ (offset' = size => shown = size)
    /\ printed' = shown

\* Mutant: the rest of what was read is dropped at the first newline.
ReadOne ==
  /\ child = "read"
  /\ offset' = IF opened THEN Least(size, offset + 1) ELSE offset
  /\ Prints
  /\ reads' = reads + 1
  /\ child' = "clear"
  /\ UNCHANGED <<opened, canRead, pending, parentVars>>

\* Mutant: a read is taken to have filled its buffer.
ReadFull ==
  /\ child = "read"
  /\ offset' = IF opened THEN offset + ReadSize ELSE offset
  /\ Prints
  /\ reads' = reads + 1
  /\ child' = "clear"
  /\ UNCHANGED <<opened, canRead, pending, parentVars>>

\* A read takes what is there, up to its size, and may end within a number,
\* and what was read is printed.
\* That the flag may have been cleared meanwhile it does not see.
Read ==
  /\ child = "read"
  /\ offset' = IF opened THEN Least(size, offset + ReadSize) ELSE offset
  /\ Prints
  /\ reads' = reads + 1
  /\ child' = "clear"
  /\ UNCHANGED <<opened, canRead, pending, parentVars>>

\* Mutant: the flag stays set.
ClearNot ==
  /\ child = "clear"
  /\ child' = "check"
  /\ UNCHANGED <<opened, canRead, pending, offset, printed, reads, parentVars>>

\* This also wipes out a Start that came since the read.
Clear ==
  /\ child = "clear"
  /\ canRead' = FALSE
  /\ child' = "check"
  /\ UNCHANGED <<opened, pending, offset, printed, reads, parentVars>>

-----------------------------------------------------------------------------
Next ==
  \/ ParentOpens \/ SendWait \/ AppendNumber \/ SendStart \/ KillChild
  \/ \E s \in {"Wait", "Start"} : Handle(s)
  \/ ChildOpens \/ Check \/ Read \/ Clear

Spec == Init /\ [][Next]_signalVars

-----------------------------------------------------------------------------
(* Properties. *)

\* The child reads at most once for every Start it was sent, however signals
\* merge, overtake one another or come in the middle of a read.
StartsSent == IF parent \in {"write", "start"} THEN round - 1 ELSE round

ReadsAreAsked == reads <= StartsSent

\* A child that opened the file and was never late has read all of it when it
\* is killed, except what was left of an old file: of that it makes up for at
\* least ReadSize less a number's width in every round.  On a terminal all it
\* has read is printed, except a line it has read only the beginning of.
\* (Printed to anything else, what is in stdio's buffer is never seen.)
PrintedInTime ==
  LET behind == old - Numbers * (ReadSize - Widest) IN
  parent = "done" /\ ~late /\ opened =>
    /\ offset = size \/ size - offset <= behind
    /\ tty => printed = size \/ size - printed < behind + Widest
=============================================================================
