----------------------------- MODULE SessionTable -----------------------------
(***************************************************************************)
(* What the session registry promises to the rest of the server: a set of  *)
(* live sessions in which an endpoint, an account and a session id each    *)
(* occur at most once, whose size never passes the cap.  A session joins   *)
(* by displacing, in the same step, exactly the sessions it conflicts      *)
(* with, and only if the result respects the cap; sessions leave one at a  *)
(* time.  A refused handshake is no step at all.                           *)
(***************************************************************************)
EXTENDS Integers, FiniteSets

CONSTANTS MaxPlayers, IdSpace

VARIABLE live

Conflict(s, t) ==
  \/ s.addr = t.addr
  \/ s.account = t.account
  \/ s.num % IdSpace = t.num % IdSpace

Init == live = {}

Join(s) ==
  /\ live' = {s} \cup {t \in live : ~Conflict(s, t)}
  /\ MaxPlayers > 0 => Cardinality(live') <= MaxPlayers

Leave(s) == live' = live \ {s}

Next ==
  \/ \E s \in live' \ live : Join(s)
  \/ \E s \in live : Leave(s)

Spec == Init /\ [][Next]_live
=============================================================================
