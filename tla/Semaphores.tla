----------------------------- MODULE Semaphores -----------------------------
(***************************************************************************)
(* Two semaphores between two processes, as the kernel keeps them: System  *)
(* V semaphores with SEM_UNDO (3.8, 3.9), or POSIX semaphores, of which    *)
(* nothing is undone (3.10, 3.11).                                         *)
(***************************************************************************)
EXTENDS Integers

CONSTANT Undo  \* TRUE: every operation is done with SEM_UNDO

VARIABLES
  value,  \* value[s]: the semaphore
  adjust  \* adjust[p][s]: what the exit of p adds to s

semVars == <<value, adjust>>

Sems  == {"semRead", "semWrite"}
Procs == {"writer", "reader"}

SemTypeOK ==
  /\ value  \in [Sems -> Nat]
  /\ adjust \in [Procs -> [Sems -> Int]]

NoAdjust == [s \in Sems |-> 0]

\* The semaphores may have been left with any value by earlier runs.
SemInit(leftovers) ==
  /\ value \in [Sems -> leftovers]
  /\ adjust = [p \in Procs |-> NoAdjust]

Adjusted(p, s, n) ==
  adjust' = IF Undo THEN [adjust EXCEPT ![p][s] = @ + n] ELSE adjust

P(p, s) ==
  /\ value[s] > 0
  /\ value' = [value EXCEPT ![s] = @ - 1]
  /\ Adjusted(p, s, 1)

V(p, s) ==
  /\ value' = [value EXCEPT ![s] = @ + 1]
  /\ Adjusted(p, s, -1)

\* semctl SETVAL also forgets what every process would undo.
SetVal(s, n) ==
  /\ value'  = [value EXCEPT ![s] = n]
  /\ adjust' = [p \in Procs |-> [adjust[p] EXCEPT ![s] = 0]]

\* The end of p, however it comes; a semaphore does not go below 0.
Leave(p) ==
  LET NonNegative(n) == IF n < 0 THEN 0 ELSE n IN
  /\ value'  = [s \in Sems |-> NonNegative(value[s] + adjust[p][s])]
  /\ adjust' = [adjust EXCEPT ![p] = NoAdjust]
=============================================================================
