------------------------------ MODULE MCFrostDkg ------------------------------
(* Small instances of FrostDkg for TLC.                                    *)
EXTENDS FrostDkg, TLC

\* Threads and session ids are interchangeable.
Symmetry == Permutations(Threads) \cup Permutations(Ids)
=============================================================================
