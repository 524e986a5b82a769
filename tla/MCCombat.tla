------------------------------- MODULE MCCombat -------------------------------
(***************************************************************************)
(* Combat for TLC.  One player moves and travels.  The other stays where   *)
(* he is: either out of the puppet's sight, and fires, or before it, and   *)
(* it turns from the one to the other.  In the first case the mover goes   *)
(* straight in and out of reach.                                           *)
(***************************************************************************)
EXTENDS Combat

CONSTANTS p1, p2, l1, l2

MCPlayer == {p1, p2}
MCMover == {p1}
MCShooter == {p2}
MCLevel == {l1, l2}
MCSameFaction == {}
MCDamages == {3, 4}

VARIABLE part
mcVars == <<vars, part>>

MCInit ==
  /\ Init
  /\ player[p1].range = Away
  /\ part = IF player[p2].range = Away THEN "fight" ELSE "prey"

MCNext ==
  /\ Next
  /\ UNCHANGED part
  /\ IF part = "prey" THEN work'[p2] = Idle ELSE player'[p1].range # Aggro

MCSpec == MCInit /\ [][MCNext]_mcVars /\ WF_vars(GameLoop)
===============================================================================
