------------------------------ MODULE Handoff ------------------------------
(***************************************************************************)
(* What a pair of semaphores is for in the programs 3.8 to 3.11: messages  *)
(* go from one process to another in order, each of them at most once, and *)
(* never more than Ahead of them are on their way.  What is on its way is  *)
(* lost when nobody is left to take it.                                    *)
(***************************************************************************)
EXTENDS Naturals, Sequences

CONSTANT Ahead

VARIABLES
  transit,  \* the numbers of the messages on their way
  sent,     \* messages sent
  got       \* the number of the message received last

Init == transit = <<>> /\ sent = 0 /\ got = 0

Send == /\ Len(transit) < Ahead
        /\ sent' = sent + 1
        /\ transit' = Append(transit, sent')
        /\ UNCHANGED got

Receive == /\ transit # <<>>
           /\ got' = Head(transit)
           /\ transit' = Tail(transit)
           /\ UNCHANGED sent

Lose == transit' = <<>> /\ UNCHANGED <<sent, got>>

Next == Send \/ Receive \/ Lose

Spec == Init /\ [][Next]_<<transit, sent, got>>
=============================================================================
