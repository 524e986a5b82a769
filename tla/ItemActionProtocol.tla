-------------------------- MODULE ItemActionProtocol --------------------------
(***************************************************************************)
(* Item, stash and trade actions end to end: the client scripts            *)
(* (gamedata/scripts/zone_net.script), the datagrams between client and    *)
(* server, the server's replay gate (HandlePacket) and the ItemLedger.     *)
(*                                                                         *)
(* The client gives each action an ActionID from one counter, keeps it as  *)
(* pending and resends it unchanged until a result with that ActionID      *)
(* arrives or the resends are used up.  Every send is a datagram of its    *)
(* own with the next packet number; datagrams are lost, duplicated and     *)
(* reordered, and the gate drops those that are not newer than the newest  *)
(* one seen.  Results may be lost, duplicated and reordered as well.       *)
(*                                                                         *)
(* The payload of an action is its identity here: payload n is the n-th    *)
(* action of that player.  Item entries are also dropped by age, without a *)
(* word to the player; the age is a choice here, the older entries first.  *)
(***************************************************************************)
EXTENDS ItemLedger

CONSTANTS
  MaxActions,   \* bound on the actions of a player
  MaxResends,   \* ITEM_ACTION_MAX_RESENDS
  MaxRestarts   \* bound on the level loads of a player

\* The client's counter is as wide as the ActionID and does not wrap here.
ASSUME MaxActionsAssumption ==
  MaxActions \in Nat /\ MaxActions <= MaxId /\ Payload = 1 .. MaxActions
ASSUME MaxResendsAssumption == MaxResends \in Nat
ASSUME MaxRestartsAssumption == MaxRestarts \in Nat

VARIABLES
  next,      \* next_item_action_id of each client
  pending,   \* pending_item_actions, pending_stash_actions, pending_trade_actions
  started,   \* actions begun
  outcome,   \* what the client was told of each of its actions
  notified,  \* history: the actions whose timeout notice was shown to the player
  sent,      \* g_Sequence: datagrams sent
  net,       \* datagrams that may still pass the gate
  lastSeq,   \* PlayerSession.LastSequence
  restarts   \* level loads

clientVars == <<next, pending, started, outcome, notified, restarts>>
netVars == <<sent, net, lastSeq>>
vars == <<ledgerVars, clientVars, netVars>>

Entry == [op: Op, id: ActionId, payload: Payload, resends: 0 .. MaxResends,
          timedOut: BOOLEAN]

PacketOf(e) == [op |-> e.op, id |-> e.id, payload |-> e.payload]

Init ==
  /\ InitLedger
  /\ next = [p \in Player |-> 0]
  /\ pending = [p \in Player |-> {}]
  /\ started = [p \in Player |-> 0]
  /\ outcome = [p \in Player |-> [x \in Payload |-> "none"]]
  /\ notified = [p \in Player |-> {}]
  /\ sent = [p \in Player |-> 0]
  /\ net = [p \in Player |-> {}]
  /\ lastSeq = [p \in Player |-> 0]
  /\ restarts = [p \in Player |-> 0]

(***************************************************************************)
(* The client.                                                             *)
(***************************************************************************)
AllocActionId(p) == next[p] + 1

\* SendRaw puts one datagram on the wire.
SendRaw(p, k) ==
  /\ sent' = [sent EXCEPT ![p] = @ + 1]
  /\ net' = [net EXCEPT ![p] = @ \cup {[seq |-> sent[p] + 1, packet |-> k]}]
  /\ UNCHANGED lastSeq

\* prune_pending_item_actions: the item entries that are too old, the first n
\* actions for some n, whether or not the player was told of a timeout.
Aged(p, n) == {e \in pending[p] : e.op = "item" /\ e.payload <= n}

\* send_item_action, SendStash and SendTrade.  A failing SendRaw uses up the
\* ActionID and leaves nothing pending; an item action that is sent prunes.
SendAction(p, op, ok, n) ==
  LET k == [op |-> op, id |-> AllocActionId(p), payload |-> started[p] + 1]
  IN /\ started[p] < MaxActions
     /\ n > 0 => op = "item" /\ ok
     /\ started' = [started EXCEPT ![p] = @ + 1]
     /\ next' = [next EXCEPT ![p] = AllocActionId(p)]
     /\ IF ok
        THEN /\ SendRaw(p, k)
             /\ pending' = [pending EXCEPT ![p] = (@ \ Aged(p, n)) \cup
                  {[op |-> op, id |-> k.id, payload |-> k.payload,
                    resends |-> 0, timedOut |-> FALSE]}]
        ELSE UNCHANGED <<pending, netVars>>
     /\ UNCHANGED <<outcome, notified, restarts, ledgerVars>>

\* retransmit_pending_item_actions and retransmit_pending_map: the same bytes
\* in a new datagram, or the timeout notice after the last resend.
Retransmit(p, e) ==
  /\ e \in pending[p] /\ ~e.timedOut
  /\ IF e.resends < MaxResends
     THEN /\ pending' = [pending EXCEPT ![p] =
               (@ \ {e}) \cup {[e EXCEPT !.resends = @ + 1]}]
          /\ SendRaw(p, PacketOf(e))
          /\ UNCHANGED notified
     ELSE /\ pending' = [pending EXCEPT ![p] =
               (@ \ {e}) \cup {[e EXCEPT !.timedOut = TRUE]}]
          /\ notified' = [notified EXCEPT ![p] = @ \cup {e.payload}]
          /\ UNCHANGED netVars
  /\ UNCHANGED <<next, started, outcome, restarts, ledgerVars>>

\* Mutant: stash and trade entries are dropped by age alone, as item entries are.
MutPrune(p, e) ==
  /\ e \in pending[p] /\ e.op # "item"
  /\ pending' = [pending EXCEPT ![p] = @ \ {e}]
  /\ UNCHANGED <<next, started, outcome, notified, restarts, netVars, ledgerVars>>

\* retransmit_pending_map: a stash or trade entry that timed out is dropped once
\* its time to live is over.
Prune(p, e) ==
  /\ e \in pending[p] /\ e.op # "item" /\ e.timedOut
  /\ pending' = [pending EXCEPT ![p] = @ \ {e}]
  /\ UNCHANGED <<next, started, outcome, notified, restarts, netVars, ledgerVars>>

\* Mutant: one table of pending actions for all opcodes.
MutAnswers(m, e) == e.id = m.id

\* A result belongs to the pending action of its opcode with its ActionID.
Answers(m, e) == e.op = m.op /\ e.id = m.id

\* on_item_update, on_stash_result and on_trade_result.  An item result prunes.
TakeReply(p, m, e, n) ==
  /\ m \in replies[p] /\ e \in pending[p]
  /\ Answers(m, e)
  /\ n > 0 => m.op = "item"
  /\ pending' = [pending EXCEPT ![p] = @ \ ({e} \cup Aged(p, n))]
  /\ outcome' = [outcome EXCEPT ![p][e.payload] = m.result]
  /\ UNCHANGED <<next, started, notified, restarts, netVars, ledgerVars>>

\* on_item_update for a result that answers no action of the client's own.
TakeOthersUpdate(p, m, n) ==
  /\ m \in replies[p] /\ m.op = "item"
  /\ ~\E e \in pending[p] : Answers(m, e)
  /\ pending' = [pending EXCEPT ![p] = @ \ Aged(p, n)]
  /\ UNCHANGED <<next, started, outcome, notified, restarts, netVars, ledgerVars>>

\* A level load clears the pending actions and restarts the script's Lua VM,
\* which sets the counter to its initial value; the session goes on.
LevelLoad(p) ==
  /\ restarts[p] < MaxRestarts
  /\ restarts' = [restarts EXCEPT ![p] = @ + 1]
  /\ next' = [next EXCEPT ![p] = 0]
  /\ pending' = [pending EXCEPT ![p] = {}]
  /\ UNCHANGED <<started, outcome, notified, netVars, ledgerVars>>

(***************************************************************************)
(* The server.                                                             *)
(***************************************************************************)
\* The replay gate of HandlePacket, then the handler.
Receive(p, d) ==
  /\ d \in net[p]
  /\ d.seq > lastSeq[p]
  /\ lastSeq' = [lastSeq EXCEPT ![p] = d.seq]
  /\ net' = [net EXCEPT ![p] = {f \in @ : f.seq > d.seq}]
  /\ HandleKnown(p, d.packet)
  /\ UNCHANGED <<sent, clientVars>>

Server(p) ==
  \/ WindowSlides(p)
  \/ Remove(p)

Next ==
  \E p \in Player :
    \/ \E op \in Op, ok \in BOOLEAN, n \in 0 .. started[p] : SendAction(p, op, ok, n)
    \/ \E e \in pending[p] : Retransmit(p, e) \/ Prune(p, e)
    \/ \E m \in replies[p], n \in 0 .. started[p] :
         \/ \E e \in pending[p] : TakeReply(p, m, e, n)
         \/ TakeOthersUpdate(p, m, n)
    \/ LevelLoad(p)
    \/ \E d \in net[p] : Receive(p, d)
    \/ Server(p) /\ UNCHANGED <<clientVars, netVars>>

Spec == Init /\ [][Next]_vars

\* The retransmission runs on every frame of the game; nothing else is assumed
\* to happen.
Fairness ==
  \A p \in Player :
    WF_vars(\E e \in pending[p] : Retransmit(p, e))

FairSpec == Spec /\ Fairness
-----------------------------------------------------------------------------
(***************************************************************************)
(* Properties.                                                             *)
(***************************************************************************)

\* Types, and a pending action has not been decided yet.
TypeOK ==
  /\ TypeOKLedger
  /\ next \in [Player -> 0 .. MaxActions]
  /\ pending \in [Player -> SUBSET Entry]
  /\ started \in [Player -> 0 .. MaxActions]
  /\ outcome \in [Player -> [Payload -> Result \cup {"none"}]]
  /\ notified \in [Player -> SUBSET Payload]
  /\ \A p \in Player : \A d \in net[p] : d.packet \in Packet /\ d.seq <= sent[p]
  /\ \A p \in Player : \A e \in pending[p] : outcome[p][e.payload] = "none"

\* A client that takes an "ok" for the answer to a stash or trade action of its own
\* has had that very action committed by the server, whatever the network does to
\* actions and answers and whatever the players around do: the ActionIDs of several
\* players are the same numbers, and the item broadcasts carry them.  The code keeps
\* this until the client's first level load, when its ActionIDs start to recur.
MapActionConfirmed ==
  [][\A p \in Player : \A e \in pending[p] :
       e.op # "item" /\ restarts[p] = 0 /\ outcome'[p][e.payload] = "ok"
         => applied[p][PacketOf(e)] > 0]_vars

\* An action is committed at most once although it is resent with a new packet
\* number that the replay gate accepts, also when its ActionID recurs.
ResendNotReapplied ==
  \A p \in Player, x \in Payload : \A k, l \in {m \in Packet : m.payload = x} :
    /\ applied[p][k] <= 1
    /\ applied[p][k] > 0 /\ applied[p][l] > 0 => k = l

\* The types, and at most one commit per action.
CommitsSound == TypeOK /\ ResendNotReapplied

\* A stash or trade action that was answered is never committed afterwards,
\* although resends of it are still under way when the answer is given.
RecordedAnswerIsFinal ==
  [][\A p \in Player : \A k \in Packet :
       k.op # "item" /\ applied'[p][k] > applied[p][k]
         => ~\E m \in replies[p] : m.op = k.op /\ m.id = k.id]_vars

\* A stash or trade action is never dropped without a word: it is answered, or the
\* player is shown the timeout notice, unless he loads a level first, which forgets
\* it.  (An item action may be forgotten: pruning goes by its age alone.)
EveryActionResolves ==
  \A p \in Player, x \in Payload, r \in 0 .. MaxRestarts :
    (restarts[p] = r /\ \E e \in pending[p] : e.op # "item" /\ e.payload = x)
      ~> (outcome[p][x] # "none" \/ x \in notified[p] \/ restarts[p] > r)
=============================================================================
