-------------------------- MODULE MCSessionLifecycle --------------------------
(***************************************************************************)
(* SessionLifecycle for TLC.                                               *)
(***************************************************************************)
EXTENDS SessionLifecycle, TLC

CONSTANTS a1, a2, p1, p2, p3

MCAddr == {a1, a2}
MCTwoAccounts == {p1, p2}
MCThreeAccounts == {p1, p2, p3}
\* Each account has one endpoint; the accounts p1 and p2 share theirs.
MCHome == {<<a1, p1>>, <<a1, p2>>, <<a2, p3>>}
MCAnywhere == {a1, a2} \X {p1, p2}
MCAllActors == {"stale", "kick", "attack"}
MCNoActors == {}
MCSymmetry == Permutations(MCAddr) \cup Permutations(MCTwoAccounts)
=============================================================================
