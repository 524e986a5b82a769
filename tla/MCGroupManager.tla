---------------------------- MODULE MCGroupManager ----------------------------
(***************************************************************************)
(* GroupManager for TLC.                                                   *)
(***************************************************************************)
EXTENDS GroupManager, TLC

CONSTANTS s1, s2, s3
MCThree == {s1, s2, s3}
MCSymmetry == Permutations(Session)
=============================================================================
