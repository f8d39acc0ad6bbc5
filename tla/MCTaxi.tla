------------------------------- MODULE MCTaxi -------------------------------
(* Instances of Taxi for TLC. *)
EXTENDS Taxi, TLC

Symmetry == Permutations(Drivers)

\* The user may type any integer: a time that timerfd_settime rejects, one
\* that disarms the timer, one that arms it.
AnySign == {-1, 0, 2}
=============================================================================
