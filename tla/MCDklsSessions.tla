---------------------------- MODULE MCDklsSessions ----------------------------
(* Instances of DklsSessions for TLC.                                      *)
EXTENDS DklsSessions, TLC

Symmetry == Permutations(Threads) \cup Permutations(Ids)

=============================================================================
