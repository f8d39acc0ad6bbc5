---------------------------- MODULE SharedMinMax ----------------------------
(***************************************************************************)
(* Minimum and maximum in shared memory, 3.12 (System V) and 3.13 (POSIX): *)
(* a parent appends a batch of numbers to a shared array, sleeps, and      *)
(* prints the last two of it; its child sleeps, looks through what is new, *)
(* and appends the least and the greatest number it ever saw.  Nothing but *)
(* the sleeps keeps the two apart.                                         *)
(***************************************************************************)
EXTENDS Integers, Sequences, FiniteSetsExt

CONSTANTS
  Values,      \* the numbers rand() % 1000 may give
  Batch,       \* numbers the parent appends in a row, 10 in the code
  Slots,       \* SHMEM_MAXMSG
  MaxOverlaps  \* bound: how often one wakes while the other is awake

\* Assumed by MCPairs.
SharedAssumption ==
  /\ Values \subseteq 0 .. 999 /\ Values # {}
  /\ Batch \in Nat \ {0} /\ Slots \in Nat
  /\ MaxOverlaps \in Nat

VARIABLES
  running,    \* FALSE: an index has left the array, anything may follow
  buf,        \* the array
  nMsg,       \* n_msg
  posMinmax,  \* pos_minmax
  step,       \* step[p]: where process p is
  copy,       \* copy[p]: the n_msg p has read
  pushed,     \* pushed[p]: numbers p has appended since it slept
  scan,       \* the child's i
  minOf,      \* the child's min
  maxOf,      \* the child's max
  shown,      \* what the parent has printed since its last batch
  written,    \* history: the numbers the parent wrote
  reply,      \* history: where the child is with what the parent will print
  overlaps    \* history: how often one woke while the other was awake

sharedVars == <<running, buf, nMsg, posMinmax, step, copy, pushed, scan, minOf,
                maxOf, shown, written, reply, overlaps>>

Processes == {"Parent", "Child"}

\* INT_MAX and INT_MIN, the min and the max of no numbers.
IntMax  == Max(Values) + 1
IntMin  == -1
Entries == Values \cup {IntMin, IntMax}

TypeOK ==
  /\ running    \in BOOLEAN
  /\ buf        \in [0 .. Slots - 1 -> Entries]
  /\ nMsg       \in 0 .. Slots + 1
  /\ posMinmax  \in 0 .. Slots + 1
  /\ step       \in [Processes -> {"sleep", "scan", "mark", "index", "store",
                                   "load", "bump", "show", "ended"}]
  /\ copy       \in [Processes -> 0 .. Slots + 1]
  /\ pushed     \in [Processes -> 0 .. Max({Batch, 2})]
  /\ scan       \in 0 .. Slots + 1
  /\ minOf      \in Entries
  /\ maxOf      \in Entries
  /\ shown      \in Seq(Entries)
  /\ written    \subseteq Values
  /\ reply      \in {"none", "begun", "given"}
  /\ overlaps   \in 0 .. MaxOverlaps

\* The parent starts with its batch, the child with its sleep.  The array
\* still has what an earlier run left in it.
Init ==
  /\ running = TRUE
  /\ \E old \in Values : buf = [i \in 0 .. Slots - 1 |-> old]
  /\ nMsg = 0 /\ posMinmax = 0
  /\ step = [p \in Processes |-> IF p = "Parent" THEN "index" ELSE "sleep"]
  /\ copy = [p \in Processes |-> 0] /\ pushed = [p \in Processes |-> 0]
  /\ scan = 0 /\ minOf = IntMax /\ maxOf = IntMin
  /\ shown = <<>> /\ written = {} /\ reply = "none" /\ overlaps = 0

Awake(p) == step[p] \notin {"sleep", "ended"}

Goes(p, to) == running /\ step' = [step EXCEPT ![p] = to]

\* sleep(1) is over for p.
Wakes(p, to) ==
  /\ step[p] = "sleep"
  /\ Goes(p, to)
  /\ overlaps' = IF \E q \in Processes : Awake(q) THEN overlaps + 1 ELSE overlaps
  /\ overlaps' <= MaxOverlaps

-----------------------------------------------------------------------------
(* p_shmem->buf[p_shmem->n_msg] = ...; p_shmem->n_msg++, as the memory      *)
(* accesses they are.                                                      *)

child   == <<posMinmax, scan, minOf, maxOf>>
history == <<written, reply, overlaps>>

Index(p) ==
  /\ step[p] = "index"
  /\ copy' = [copy EXCEPT ![p] = nMsg]
  /\ Goes(p, "store")
  /\ UNCHANGED <<running, buf, nMsg, pushed, child, overlaps>>

\* Outside the array nothing is known of what happens.
Strays(i) ==
  /\ running /\ i \notin 0 .. Slots - 1
  /\ running' = FALSE
  /\ UNCHANGED <<buf, nMsg, step, copy, pushed, child, shown, history>>

Store(p, number) ==
  /\ step[p] = "store" /\ copy[p] < Slots
  /\ buf' = [buf EXCEPT ![copy[p]] = number]
  /\ copy' = [copy EXCEPT ![p] = 0]
  /\ Goes(p, "load")
  /\ UNCHANGED <<running, nMsg, pushed, child, shown, reply, overlaps>>

Load(p) ==
  /\ step[p] = "load"
  /\ copy' = [copy EXCEPT ![p] = nMsg]
  /\ Goes(p, "bump")
  /\ UNCHANGED <<running, buf, nMsg, pushed, child, shown, history>>

\* An increment of the other one since Load is lost.
Bump(p, count, next) ==
  /\ step[p] = "bump"
  /\ nMsg' = copy[p] + 1
  /\ copy' = [copy EXCEPT ![p] = 0]
  /\ LET more == pushed[p] + 1 < count IN
       /\ pushed' = [pushed EXCEPT ![p] = IF more THEN @ + 1 ELSE 0]
       /\ Goes(p, IF more THEN "index" ELSE next)
  /\ UNCHANGED <<running, buf, child, shown, written, overlaps>>

-----------------------------------------------------------------------------
(* Parent. *)

\* What the parent printed before is no answer any more.
ParentIndexes ==
  /\ Index("Parent")
  /\ shown' = <<>> /\ reply' = "none"
  /\ UNCHANGED written

ParentStores ==
  \/ step["Parent"] = "store" /\ Strays(copy["Parent"])
  \/ \E x \in Values :
       /\ Store("Parent", x)
       /\ written' = written \cup {x}

ParentBumps ==
  /\ Bump("Parent", Batch, "sleep")
  /\ UNCHANGED reply

\* An answer the child is still busy with comes too late.
ParentWakes ==
  /\ Wakes("Parent", "show")
  /\ reply' = IF reply = "begun" THEN "none" ELSE reply
  /\ UNCHANGED <<running, buf, nMsg, copy, pushed, child, shown, written>>

\* buf[n_msg - 2], then buf[n_msg - 1].
Shows ==
  /\ step["Parent"] = "show"
  /\ LET i == nMsg - 2 + Len(shown) IN
       \/ Strays(i)
       \/ /\ i \in DOMAIN buf
          /\ shown' = Append(shown, buf[i])
          /\ Goes("Parent", IF shown = <<>> THEN "show" ELSE "index")
          /\ UNCHANGED <<running, buf, nMsg, copy, pushed, child, history>>

-----------------------------------------------------------------------------
(* Child. *)

\* int i = pos_minmax.
ChildWakes ==
  /\ Wakes("Child", "scan")
  /\ scan' = posMinmax
  /\ reply' = IF step["Parent"] = "sleep" THEN "begun" ELSE "none"
  /\ UNCHANGED <<running, buf, nMsg, copy, pushed, posMinmax, minOf, maxOf,
                 shown, written>>

Looks ==
  /\ scan \in DOMAIN buf
  /\ minOf' = Min({minOf, buf[scan]}) /\ maxOf' = Max({maxOf, buf[scan]})
  /\ scan' = scan + 1
  /\ Goes("Child", "scan")
  /\ UNCHANGED <<running, buf, nMsg, copy, pushed, posMinmax, shown, history>>

LooksNoMore ==
  /\ Goes("Child", "mark")
  /\ scan' = 0
  /\ UNCHANGED <<running, buf, nMsg, copy, pushed, posMinmax, minOf, maxOf,
                 shown, history>>

\* Mutant: the last of the new numbers is left out.
ScansButLast ==
  /\ step["Child"] = "scan"
  /\ \/ scan < nMsg - 1 /\ (Looks \/ Strays(scan))
     \/ scan >= nMsg - 1 /\ LooksNoMore

\* n_msg is read anew for every number.
Scans ==
  /\ step["Child"] = "scan"
  /\ \/ scan < nMsg /\ (Looks \/ Strays(scan))
     \/ scan >= nMsg /\ LooksNoMore

\* And once more here: what came since the last comparison is skipped.
Marks ==
  /\ step["Child"] = "mark"
  /\ posMinmax' = nMsg
  /\ Goes("Child", "index")
  /\ UNCHANGED <<running, buf, nMsg, copy, pushed, scan, minOf, maxOf, shown,
                 history>>

ChildIndexes ==
  /\ Index("Child")
  /\ UNCHANGED <<shown, written, reply>>

\* min, then max.
ChildStores ==
  \/ step["Child"] = "store" /\ Strays(copy["Child"])
  \/ /\ Store("Child", IF pushed["Child"] = 0 THEN minOf ELSE maxOf)
     /\ UNCHANGED written

ChildBumps ==
  /\ Bump("Child", 2, "sleep")
  /\ reply' = IF reply = "begun" /\ pushed["Child"] = 1 THEN "given" ELSE reply

-----------------------------------------------------------------------------
\* SIGINT: the parent's handler exits, the child dies.
Interrupt(p) ==
  /\ step[p] # "ended"
  /\ Goes(p, "ended")
  /\ UNCHANGED <<running, buf, nMsg, copy, pushed, child, shown, history>>

Next ==
  \/ ParentIndexes \/ ParentStores \/ ParentBumps \/ ParentWakes \/ Shows
  \/ ChildWakes \/ Scans \/ Marks \/ ChildIndexes \/ ChildStores \/ ChildBumps
  \/ \E p \in Processes : Load(p) \/ Interrupt(p)

Spec == Init /\ [][Next]_sharedVars

-----------------------------------------------------------------------------
(* Properties. *)

\* When the child looked through the array and appended its numbers while
\* the parent slept, what the parent prints next is the child's min and max,
\* whatever the two did to each other before; and as long as they never were
\* awake together, it is the least and the greatest of all that was written.
RightWhileApart ==
  Len(shown) = 2 /\ reply = "given" =>
    /\ shown = <<minOf, maxOf>>
    /\ overlaps = 0 => minOf = Min(written) /\ maxOf = Max(written)
=============================================================================
