---------------------------- MODULE MCPhoneList ----------------------------
(* Instances of PhoneList for TLC. *)
EXTENDS PhoneList, TLC

\* A short name and a longer one that the alphabet would put first; a freed
\* cell's name is longer still.
TwoNames == {<<1, 2>>, <<2, 1>>}
Junk     == <<3, 1>>

Symmetry == Permutations(Cells)
=============================================================================
