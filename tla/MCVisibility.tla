----------------------------- MODULE MCVisibility -----------------------------
(***************************************************************************)
(* Visibility for TLC: either the players see each other on a server       *)
(* without puppets, or a puppet is replicated to players who have no       *)
(* visual and no game vertex.                                              *)
(***************************************************************************)
EXTENDS Visibility

CONSTANTS s1, s2, l1, l2

MCSession == {s1, s2}
MCAnnouncer == {s1, s2}
MCRoamer == {s2}
MCQuitter == {s2}
MCLevel == {l1, l2}

VARIABLE part
mcVars == <<visibilityVars, part>>

MCInit ==
  /\ InitVisibility
  /\ part = IF entity THEN "puppet" ELSE "peers"

MCNext ==
  /\ NextVisibility
  /\ UNCHANGED part
  /\ \A s \in Session :
       IF part = "puppet" THEN ~session'[s].gvid /\ ~session'[s].visual
       ELSE session'[s].dist = "out"

MCSpec ==
  /\ MCInit
  /\ [][MCNext]_mcVars
  /\ WF_visibilityVars(GameLoop)
  /\ \A s \in Session : WF_visibilityVars(Continue(s))
===============================================================================
