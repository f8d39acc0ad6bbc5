---------------------------- MODULE MCForkServer ----------------------------
(* Instances of ForkServer for TLC. *)
EXTENDS ForkServer, TLC

\* Zeroed memory.
NoGarbage == {[value |-> 0, len |-> 0]}

Symmetry == Permutations(Clients)
=============================================================================
