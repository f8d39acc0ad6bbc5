------------------------------ MODULE Dispatch ------------------------------
(***************************************************************************)
(* What the dispatcher promises about tasks, without queues, statuses or   *)
(* descriptors: a driver is given a task only when it has none, starts it  *)
(* in the end, and works on it for as long as the task asks.               *)
(***************************************************************************)
EXTENDS Integers

CONSTANTS Drivers, TaskTimes

VARIABLES
  job,   \* job[p]: what driver p is at
  left   \* left[p]: the seconds of its task still to be worked

vars == <<job, left>>

Init ==
  /\ job  = [p \in Drivers |-> "idle"]
  /\ left = [p \in Drivers |-> 0]

Assign(p) ==
  /\ job[p] = "idle"
  /\ job' = [job EXCEPT ![p] = "assigned"]
  /\ \E t \in TaskTimes : left' = [left EXCEPT ![p] = t]

\* A task of no length is over as it starts.
Start(p) ==
  /\ job[p] = "assigned"
  /\ job' = [job EXCEPT ![p] = IF left[p] > 0 THEN "working" ELSE "idle"]
  /\ left' = [left EXCEPT ![p] = IF @ > 0 THEN @ ELSE 0]

\* One second of work of every driver; an "assigned" driver has not begun.
Second ==
  LET Working(p) == job[p] = "working" IN
  /\ left' = [p \in Drivers |-> IF Working(p) THEN left[p] - 1 ELSE left[p]]
  /\ job' = [p \in Drivers |-> IF Working(p) /\ left[p] = 1
                               THEN "idle" ELSE job[p]]

Leave(p) ==
  /\ job' = [job EXCEPT ![p] = "gone"]
  /\ left' = [left EXCEPT ![p] = 0]

Next ==
  \/ \E p \in Drivers : Assign(p) \/ Start(p) \/ Leave(p)
  \/ Second

Spec == Init /\ [][Next]_vars

\* An assigned task is started in the end.
FairSpec == Spec /\ \A p \in Drivers : WF_vars(Start(p))
=============================================================================
