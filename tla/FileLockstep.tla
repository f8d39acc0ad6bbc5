---------------------------- MODULE FileLockstep ----------------------------
(***************************************************************************)
(* A parent that appends numbers to file.txt and its child that reads them *)
(* in step, 3.9 (System V semaphores, set to 0 before the fork, SEM_UNDO)  *)
(* and 3.11 (POSIX semaphores, which keep their values and their names     *)
(* from run to run).  The two programs do the same otherwise.              *)
(***************************************************************************)
EXTENDS Semaphores, Sequences

CONSTANTS
  Numbers,  \* the argument of the program
  MaxRuns   \* bound: runs of the program

ASSUME FileAssumption == Numbers \in Nat \ {0} /\ MaxRuns \in Nat /\ Undo \in BOOLEAN

VARIABLES
  parent,   \* where the parent is
  child,    \* where the child is
  file,     \* file.txt, the number of each record as <<run, number>>
  exists,   \* file.txt exists
  canRead,  \* the child could open file.txt
  offset,   \* records the child has read
  sent,     \* numbers the parent has written
  rounds,   \* times the child has printed "Child get"
  shown,    \* the number it printed last, <<0, 0>> if it read none
  runs,     \* runs begun
  left,     \* what the semaphores held when the run began
  stale     \* file.txt existed when the run began

vars == <<semVars, parent, child, file, exists, canRead, offset, sent, rounds,
          shown, runs, left, stale>>

Record == (0 .. MaxRuns) \X (0 .. Numbers)

TypeOK ==
  /\ SemTypeOK
  /\ parent  \in {"open", "wait", "put", "post", "reap", "done"}
  /\ child   \in {"open", "give", "wait", "get", "post", "exit", "done"}
  /\ file    \in Seq(Record)
  /\ exists  \in BOOLEAN
  /\ canRead \in BOOLEAN
  /\ offset  \in Nat
  /\ sent    \in 0 .. Numbers
  /\ rounds  \in 0 .. Numbers
  /\ shown   \in Record
  /\ runs    \in 0 .. MaxRuns
  /\ left    \in [Sems -> Nat]
  /\ stale   \in BOOLEAN

Init ==
  /\ SemInit({0})
  /\ parent = "done" /\ child = "done"
  /\ file = <<>> /\ exists = FALSE
  /\ canRead = FALSE /\ offset = 0
  /\ sent = 0 /\ rounds = 0 /\ shown = <<0, 0>>
  /\ runs = 0
  /\ left = [s \in Sems |-> 0]
  /\ stale = FALSE

\* main, to the fork.
Begin ==
  /\ parent = "done" /\ child = "done"
  /\ runs < MaxRuns
  /\ runs' = runs + 1
  /\ parent' = "open" /\ child' = "open"
  /\ value' = IF Undo THEN [s \in Sems |-> 0] ELSE value
  /\ adjust' = [p \in Procs |-> NoAdjust]
  /\ left' = value' /\ stale' = exists
  /\ canRead' = FALSE /\ offset' = 0
  /\ sent' = 0 /\ rounds' = 0 /\ shown' = <<0, 0>>
  /\ UNCHANGED <<file, exists>>

-----------------------------------------------------------------------------
(* Parent. *)

childVars == <<child, canRead, offset, rounds, shown>>
runVars   == <<runs, left, stale>>

ParentOpens ==
  /\ parent = "open"
  /\ exists' = TRUE
  /\ parent' = "wait"
  /\ UNCHANGED <<semVars, file, sent, childVars, runVars>>

ParentWaits ==
  /\ parent = "wait"
  /\ P("writer", "semWrite")
  /\ parent' = "put"
  /\ UNCHANGED <<file, exists, sent, childVars, runVars>>

ParentPuts ==
  /\ parent = "put"
  /\ sent' = sent + 1
  /\ file' = Append(file, <<runs, sent'>>)
  /\ parent' = "post"
  /\ UNCHANGED <<semVars, exists, childVars, runVars>>

\* Mutant: the parent waits for the child before it has posted the last number.
ParentPostsAllButLast ==
  /\ parent = "post"
  /\ IF sent < Numbers THEN V("writer", "semRead") ELSE UNCHANGED semVars
  /\ parent' = IF sent < Numbers THEN "wait" ELSE "reap"
  /\ UNCHANGED <<file, exists, sent, childVars, runVars>>

ParentPosts ==
  /\ parent = "post"
  /\ V("writer", "semRead")
  /\ parent' = IF sent < Numbers THEN "wait" ELSE "reap"
  /\ UNCHANGED <<file, exists, sent, childVars, runVars>>

\* wait, remove and exit.
ParentReaps ==
  /\ parent = "reap"
  /\ child = "done"
  /\ file' = <<>> /\ exists' = FALSE
  /\ Leave("writer")
  /\ parent' = "done"
  /\ UNCHANGED <<sent, childVars, runVars>>

-----------------------------------------------------------------------------
(* Child. *)

parentVars == <<parent, file, exists, sent>>

\* The child sleeps 10 microseconds, which orders nothing, and opens the
\* file without creating it; that the open failed it does not notice.
ChildOpens ==
  /\ child = "open"
  /\ canRead' = exists
  /\ child' = "give"
  /\ UNCHANGED <<semVars, offset, rounds, shown, parentVars, runVars>>

\* Mutant: the parent may write two numbers before one is read.
ChildGivesTwo ==
  /\ child = "give"
  /\ value' = [value EXCEPT !["semWrite"] = @ + 2]
  /\ Adjusted("reader", "semWrite", -2)
  /\ child' = "wait"
  /\ UNCHANGED <<canRead, offset, rounds, shown, parentVars, runVars>>

ChildGives ==
  /\ child = "give"
  /\ V("reader", "semWrite")
  /\ child' = "wait"
  /\ UNCHANGED <<canRead, offset, rounds, shown, parentVars, runVars>>

\* Mutant: the child does not wait for a number.
ChildWaitsNot ==
  /\ child = "wait"
  /\ child' = "get"
  /\ UNCHANGED <<semVars, canRead, offset, rounds, shown, parentVars, runVars>>

ChildWaits ==
  /\ child = "wait"
  /\ P("reader", "semRead")
  /\ child' = "get"
  /\ UNCHANGED <<canRead, offset, rounds, shown, parentVars, runVars>>

\* A read at the end of the file, or of a file that is not open, leaves the
\* buffer as it was; it is printed all the same.
ChildGets ==
  /\ child = "get"
  /\ IF canRead /\ offset < Len(file)
     THEN shown' = file[offset + 1] /\ offset' = offset + 1
     ELSE UNCHANGED <<shown, offset>>
  /\ rounds' = rounds + 1
  /\ child' = "post"
  /\ UNCHANGED <<semVars, canRead, parentVars, runVars>>

ChildPosts ==
  /\ child = "post"
  /\ V("reader", "semWrite")
  /\ child' = IF rounds < Numbers THEN "wait" ELSE "exit"
  /\ UNCHANGED <<canRead, offset, rounds, shown, parentVars, runVars>>

ChildExits ==
  /\ child = "exit"
  /\ Leave("reader")
  /\ child' = "done"
  /\ UNCHANGED <<canRead, offset, rounds, shown, parentVars, runVars>>

-----------------------------------------------------------------------------
\* SIGINT from the terminal ends both.  What SEM_UNDO then leaves does not
\* matter: the next run sets the semaphores.
Interrupt ==
  /\ parent # "done"
  /\ parent' = "done" /\ child' = "done"
  /\ value' = IF Undo THEN [s \in Sems |-> 0] ELSE value
  /\ adjust' = [p \in Procs |-> NoAdjust]
  /\ UNCHANGED <<file, exists, sent, canRead, offset, rounds, shown, runVars>>

Parent == \/ ParentOpens \/ ParentWaits \/ ParentPuts \/ ParentPosts
          \/ ParentReaps
Child == \/ ChildOpens \/ ChildGives \/ ChildWaits \/ ChildGets \/ ChildPosts
         \/ ChildExits

Next == Begin \/ Parent \/ Child \/ Interrupt

Spec == Init /\ [][Next]_vars

\* Both processes run; nothing is assumed of Interrupt.
FairSpec == Spec /\ WF_vars(Parent) /\ WF_vars(Child)

-----------------------------------------------------------------------------
(* Properties. *)

\* However a run is interleaved and whatever earlier runs left behind: the
\* parent is never more than one number ahead of the child, and the child
\* never ahead of the parent, but for the values the semaphores began with.
InStep ==
  child # "done" \/ parent # "done" =>
    /\ sent <= rounds + 1 + left["semWrite"]
    /\ rounds <= sent + left["semRead"]

\* A child that could open the file, which no earlier run left behind, prints
\* the number of its round, unless it was let in too early by a semaphore.
GetsWhatWasSent ==
  canRead /\ ~stale /\ left["semRead"] = 0 /\ rounds > 0
    => shown = <<runs, rounds>>

\* A run ends, whatever the semaphores began with.
RunEnds == parent = "open" ~> parent = "done" /\ child = "done"
=============================================================================
