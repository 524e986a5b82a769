----------------------------- MODULE MCItemStore -----------------------------
(***************************************************************************)
(* ItemStore for TLC.                                                      *)
(***************************************************************************)
EXTENDS ItemStore, TLC

CONSTANTS p1, p2, l1, l2, k1, sec

MCPlayer == {p1, p2}
MCLevel == {l1, l2}
MCKey == {k1}
MCSection == {sec}
MCBucket == {1, 2}
MCPrice == {1, 2}
\* New characters begin with one copy in the best condition.
MCKit == [s \in MCSection |-> <<[count |-> 1, cond |-> 2]>>]
MCSymmetry == Permutations(MCPlayer)
=============================================================================
