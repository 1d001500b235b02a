----------------------------- MODULE MCFrostSign -----------------------------
(* Small instances of FrostSign for TLC.                                   *)
EXTENDS FrostSign, TLC

\* Threads, session ids, keys and messages are interchangeable.
Symmetry == Permutations(Threads) \cup Permutations(Ids)
            \cup Permutations(Keys) \cup Permutations(Msgs)
=============================================================================
