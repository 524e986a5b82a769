------------------------ MODULE MCItemActionProtocol ------------------------
(***************************************************************************)
(* ItemActionProtocol for TLC: either one player with several actions and  *)
(* level loads, or two players with one action each, of the same ActionID, *)
(* to whom item updates are broadcast.  The cache holds every action of a  *)
(* run, as the 256 entries of the code hold those a client can have under  *)
(* way.                                                                    *)
(***************************************************************************)
EXTENDS ItemActionProtocol

CONSTANTS p1, p2
MCPlayer == {p1, p2}
MCPayload == 1 .. MaxActions
MCNoneMalformed == {}
MCItemTrade == {"item", "trade"}

VARIABLE part
mcVars == <<vars, part>>

MCInit == Init /\ part \in {"alone", "peers"}

MCNext ==
  /\ Next
  /\ UNCHANGED part
  /\ IF part = "alone"
     THEN open'[p2] /\ started'[p2] = 0 /\ replies'[p2] = {} /\ restarts'[p2] = 0
     ELSE \A p \in MCPlayer : started'[p] <= 1 /\ restarts'[p] = 0

MCSpec == MCInit /\ [][MCNext]_mcVars /\ Fairness
=============================================================================
