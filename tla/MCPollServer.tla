---------------------------- MODULE MCPollServer ----------------------------
(* Instances of PollServer for TLC. *)
EXTENDS PollServer, TLC

\* Zeroed memory.
NoGarbage == {[value |-> 0, len |-> 0]}

Symmetry == Permutations(Clients)
=============================================================================
