------------------------------ MODULE Visibility ------------------------------
(***************************************************************************)
(* What the clients are told of each other and of a puppet: the exchange   *)
(* of ENTITY_ENTER_AOI and ENTITY_LEAVE_AOI between players (the handlers  *)
(* and broadcasts of game/server.go) and the replication of a puppet by    *)
(* the game loop (game/ai_replication.go, game/aoi_manager.go,             *)
(* broadcastPuppetHealth of game/ai_combat.go).                            *)
(*                                                                         *)
(* A handler is a sequence of locked sections; the handlers of the other   *)
(* players and the game loop run between any two of them.  The two short   *)
(* sections of a NotifyEntity call, its edge and its packet, are one step. *)
(* Packets reach a client in the order they are sent (ReliableChannel is   *)
(* about those that do not).  Distances are reduced to the two radii.      *)
(***************************************************************************)
EXTENDS FiniteSets

CONSTANTS
  Session,
  Announcer,  \* the players whose client has a visual and at times a game vertex
  Roamer,     \* the players who come near the puppet
  Quitter,    \* the players who disconnect
  Shooter,    \* the players who hit the puppet
  Level, Spawn, PuppetLevel

ASSUME SessionAssumption == Announcer \cup Roamer \cup Quitter \cup Shooter \subseteq Session
ASSUME LevelAssumption == {Spawn, PuppetLevel} \subseteq Level

NoLevel == "none"
ThePuppet == "puppet"
ASSUME NamesAssumption == NoLevel \notin Level /\ ThePuppet \notin Session

\* Within ai_enter_radius_m, between it and ai_leave_radius_m, farther.
Dist == {"enter", "band", "out"}

VARIABLES
  session,  \* the registry and what visibility reads of a session
  work,     \* what the handler of a session is doing
  shown,    \* client: the entities it shows
  forgot,   \* history: the players it showed when it loaded the level it is on again
  crossed,  \* history: the sessions whose client shows the puppet by an enter that crossed
            \* the leave or a report of their level, or from before a report of the same level
  squad,    \* the puppet in the squad manager
  entity,   \* aiReplication.entityIDs has it
  visible,  \* aiReplication.visible: the sessions that track it
  entries,  \* AoIManager.entries: the sessions that were sent its enter
  tick      \* what the game loop is doing

screen == <<shown, forgot, crossed>>
visibilityVars ==
  <<session, work, shown, forgot, crossed, squad, entity, visible, entries, tick>>
server == <<squad, entity, visible, entries, tick>>

Idle == [pc |-> "idle"]

\* lapsed, a history: the game vertex was 0 in a transform since the last announcement.
Newcomer == [at |-> "away", level |-> Spawn, dist |-> "out", gvid |-> FALSE,
             visual |-> FALSE, told |-> NoLevel, lapsed |-> FALSE]

\* A server may have no puppets.
InitVisibility ==
  /\ session = [s \in Session |-> Newcomer]
  /\ work = [s \in Session |-> Idle]
  /\ shown = [s \in Session |-> {}]
  /\ forgot = [s \in Session |-> {}]
  /\ crossed = {}
  /\ squad \in {"alive", "gone"}
  /\ entity = (squad = "alive")
  /\ visible = {}
  /\ entries = {}
  /\ tick = Idle

Online == {s \in Session : session[s].at = "online"}
At(s, pc) == work[s].pc = pc
Goto(s, w) == work' = [work EXCEPT ![s] = w]

\* The server does not track the puppet for s, or is about to forget that it does.
Crosses(s) ==
  \/ s \notin visible
  \/ tick.pc = "clear" /\ tick.s = s
  \/ At(s, "forget")
  \/ At(s, "aoi") /\ ~work[s].left

\* A client that is gone shows nothing.
Show(s, e) ==
  /\ shown' = [shown EXCEPT ![s] = IF s \in Online THEN @ \cup {e} ELSE {}]
  /\ forgot' = [forgot EXCEPT ![s] = @ \ {e}]
  /\ crossed' = IF e # ThePuppet \/ s \notin Online THEN crossed
                ELSE IF Crosses(s) THEN crossed \cup {s} ELSE crossed \ {s}

Hide(s, e) ==
  /\ shown' = [shown EXCEPT ![s] = @ \ {e}]
  /\ forgot' = [forgot EXCEPT ![s] = @ \ {e}]
  /\ crossed' = IF e = ThePuppet THEN crossed \ {s} ELSE crossed

\* A client that has nothing on its screen.
Blank(s, lost) ==
  /\ shown' = [shown EXCEPT ![s] = {}]
  /\ forgot' = [forgot EXCEPT ![s] = lost]
  /\ crossed' = crossed \ {s}

(***************************************************************************)
(* The three broadcasts: for every other session its level is read under   *)
(* its lock, and the packet is sent afterwards.  "next" is what the        *)
(* handler does when the loop is done.                                     *)
(***************************************************************************)
Loop(pc, todo, level, next) ==
  IF todo = {} THEN [pc |-> next] ELSE [pc |-> pc, todo |-> todo, level |-> level, next |-> next]

Others(s) == Online \ {s}
Announceable(o) == session[o].gvid /\ session[o].visual

\* broadcastEntityEnter, broadcastEntityLeaveToPeers: GetAll.
StartLoop(s) ==
  /\ work[s].pc \in {"announce", "leave", "peers"}
  /\ LET pc == CASE At(s, "announce") -> "announcing"
                 [] At(s, "leave") -> "leaving"
                 [] At(s, "peers") -> "meeting"
     IN Goto(s, Loop(pc, Others(s), work[s].level, work[s].next))
  /\ UNCHANGED <<session, screen>>
  /\ UNCHANGED server

\* One session of the loop: a packet for it, or for the newcomer about it, or none.
CheckPeer(s) ==
  /\ work[s].pc \in {"announcing", "leaving", "meeting"}
  /\ \E o \in work[s].todo :
       LET rest == Loop(work[s].pc, work[s].todo \ {o}, work[s].level, work[s].next)
           due == /\ session[o].level = work[s].level
                  /\ At(s, "meeting") => Announceable(o)
       IN Goto(s, IF due THEN [pc |-> "send", kind |-> work[s].pc, to |-> o, rest |-> rest]
                  ELSE rest)
  /\ UNCHANGED <<session, screen>>
  /\ UNCHANGED server

SendPeer(s) ==
  LET w == work[s]
  IN /\ At(s, "send")
     /\ CASE w.kind = "announcing" -> Show(w.to, s)
          [] w.kind = "leaving" -> Hide(w.to, s)
          [] w.kind = "meeting" -> Show(s, w.to)
     /\ Goto(s, w.rest)
     /\ UNCHANGED session
     /\ UNCHANGED server

(***************************************************************************)
(* The handlers.                                                           *)
(***************************************************************************)
\* OpHandshakeReq of a player with a character: registered, then told of the others.
Join(s) ==
  /\ session[s].at = "away"
  /\ session' = [session EXCEPT ![s].at = "online"]
  /\ Goto(s, [pc |-> "peers", level |-> Spawn, next |-> "idle"])
  /\ UNCHANGED screen
  /\ UNCHANGED server

\* maybeBroadcastEntityEnter, with the session as the handler leaves it: once per level
\* and visual.
MaybeAnnounce(s, sess) ==
  LET due == sess.gvid /\ sess.visual /\ sess.told # sess.level
  IN /\ session' = [session EXCEPT ![s] =
                      IF due THEN [sess EXCEPT !.told = sess.level, !.lapsed = FALSE] ELSE sess]
     /\ Goto(s, IF due THEN [pc |-> "announce", level |-> sess.level, next |-> "idle"] ELSE Idle)

\* How far from the puppet a player may be; on another level it does not matter.
Distances(s, level) == IF s \in Roamer /\ level = PuppetLevel THEN Dist ELSE {"out"}

\* OpClientTransform.  A client sends 0 for its game vertex while it has none.
Transform(s) ==
  /\ s \in Online
  /\ At(s, "idle")
  /\ \E dist \in Dist, gvid \in BOOLEAN :
       /\ dist \in Distances(s, session[s].level)
       /\ gvid => s \in Announcer
       /\ MaybeAnnounce(s, [session[s] EXCEPT !.dist = dist, !.gvid = gvid,
                                              !.lapsed = @ \/ ~gvid])
  /\ UNCHANGED screen
  /\ UNCHANGED server

\* OpPlayerVisual; another visual counts as not yet announced.
Visual(s) ==
  /\ s \in Online \cap Announcer
  /\ At(s, "idle")
  /\ MaybeAnnounce(s, [session[s] EXCEPT !.visual = TRUE, !.told = NoLevel])
  /\ UNCHANGED screen
  /\ UNCHANGED server

\* OpLevelChange.  A client that loaded a level has forgotten what it showed, also when it
\* is the level it was on; it may report its level without having loaded it, too.
LevelChange(s) ==
  /\ s \in Online
  /\ At(s, "idle")
  /\ \E level \in Level : \E dist \in Distances(s, level) :
       /\ session' = [session EXCEPT ![s].level = level, ![s].dist = dist]
       /\ IF level # session[s].level
          THEN Blank(s, {})
          ELSE \/ Blank(s, forgot[s] \cup (shown[s] \ {ThePuppet}))
               \/ /\ UNCHANGED <<shown, forgot>>
                  /\ crossed' = IF ThePuppet \in shown[s] THEN crossed \cup {s} ELSE crossed
       /\ Goto(s, [pc |-> "aoi", old |-> session[s].level, left |-> FALSE])
  /\ UNCHANGED server

\* AoIManager.RemoveSession, of a level change or a departure.
RemoveFromAoI(s) ==
  /\ At(s, "aoi")
  /\ entries' = entries \ {s}
  /\ Goto(s, IF work[s].left THEN [pc |-> "leave", level |-> work[s].old, next |-> "remove"]
             ELSE [pc |-> "forget", old |-> work[s].old])
  /\ UNCHANGED <<session, screen, squad, entity, visible, tick>>

\* aiReplication.forgetSession; a report of the same level ends here.
ForgetSession(s) ==
  /\ At(s, "forget")
  /\ visible' = visible \ {s}
  /\ Goto(s, IF session[s].at = "gone" \/ work[s].old = session[s].level THEN Idle
             ELSE [pc |-> "leave", level |-> work[s].old, next |-> "reset"])
  /\ UNCHANGED <<session, screen, squad, entity, entries, tick>>

\* Mutant: EnterBroadcastLevel is not reset.
MutResetVertex(s) ==
  /\ At(s, "reset")
  /\ session' = [session EXCEPT ![s].gvid = FALSE]
  /\ Goto(s, [pc |-> "peers", level |-> session[s].level, next |-> "idle"])
  /\ UNCHANGED screen
  /\ UNCHANGED server

\* The mover is announced again by the first transform with its new game vertex.
ResetVertex(s) ==
  /\ At(s, "reset")
  /\ session' = [session EXCEPT ![s].gvid = FALSE, ![s].told = NoLevel]
  /\ Goto(s, [pc |-> "peers", level |-> session[s].level, next |-> "idle"])
  /\ UNCHANGED screen
  /\ UNCHANGED server

\* OpDisconnect.
Depart(s) ==
  /\ s \in Online \cap Quitter
  /\ At(s, "idle")
  /\ Goto(s, [pc |-> "aoi", old |-> session[s].level, left |-> TRUE])
  /\ UNCHANGED <<session, screen>>
  /\ UNCHANGED server

\* SessionManager.RemoveSession, then clearSessionTracking.
RemoveSession(s) ==
  /\ At(s, "remove")
  /\ session' = [session EXCEPT ![s] = [Newcomer EXCEPT !.at = "gone"]]
  /\ Blank(s, {})
  /\ Goto(s, [pc |-> "forget", old |-> NoLevel])
  /\ UNCHANGED server

\* handlePuppetDamage: an accepted hit kills the puppet or wounds it.
HitPuppet(s) ==
  /\ s \in Online \cap Shooter
  /\ At(s, "idle")
  /\ session[s].level = PuppetLevel
  /\ squad = "alive"
  /\ \/ squad' = "dead" /\ UNCHANGED work
     \/ Goto(s, [pc |-> "health"]) /\ UNCHANGED squad
  /\ UNCHANGED <<session, screen, entity, visible, entries, tick>>

\* broadcastPuppetHealth: the sessions that track the puppet now ...
ReadTrackers(s) ==
  /\ At(s, "health")
  /\ Goto(s, IF squad = "gone" \/ ~entity THEN Idle
             ELSE Loop("healths", visible, NoLevel, "idle"))
  /\ UNCHANGED <<session, screen>>
  /\ UNCHANGED server

\* ... are sent its enter again.
SendHealth(s) ==
  /\ At(s, "healths")
  /\ \E o \in work[s].todo :
       /\ Show(o, ThePuppet)
       /\ Goto(s, Loop("healths", work[s].todo \ {o}, NoLevel, "idle"))
  /\ UNCHANGED session
  /\ UNCHANGED server

(***************************************************************************)
(* tickAIReplication.                                                      *)
(***************************************************************************)
\* The copy of the sessions for this tick; a player who is never near takes no part.
TickViews ==
  /\ tick.pc = "idle"
  /\ entity
  /\ tick' = [pc |-> "step", views |-> [s \in Online \cap Roamer |->
                                        [level |-> session[s].level, dist |-> session[s].dist]]]
  /\ UNCHANGED <<session, work, screen, squad, entity, visible, entries>>

\* Mutant: the sessions that are no more keep their sets.
MutRetain(live) == visible

\* retainSessions.
Retain(live) == visible \cap live

\* Mutant: the puppets of the pass are those from before the step.
MutPresent == squad \in {"alive", "dead"}

\* The puppets of the pass: the snapshot after the step.
Present == squad' \in {"alive", "dead"}

\* A corpse is despawned when its time is over; then the pass over the views begins.
TickSquads ==
  /\ tick.pc = "step"
  /\ squad' \in (IF squad = "dead" THEN {"dead", "gone"} ELSE {squad})
  /\ visible' = Retain(DOMAIN tick.views)
  /\ tick' = [pc |-> "pass", views |-> tick.views, present |-> Present]
  /\ UNCHANGED <<session, work, screen, entity, entries>>

\* The hysteresis: in range within the leave radius, for a new puppet the enter radius.
InRange(s) ==
  LET v == tick.views[s]
  IN /\ tick.present
     /\ v.level = PuppetLevel
     /\ v.dist \in (IF s \in visible THEN {"enter", "band"} ELSE {"enter"})

\* What is left of the pass after the view of s.
Rest(s) == [t \in DOMAIN tick.views \ {s} |-> tick.views[t]]
Pass(views) == [pc |-> "pass", views |-> views, present |-> tick.present]
Step(pc, s, views) == [pc |-> pc, s |-> s, views |-> views, present |-> tick.present]

TickView(s) ==
  /\ tick.pc = "pass"
  /\ s \in DOMAIN tick.views
  /\ tick' = CASE s \in visible /\ ~InRange(s) -> Step("notifyLeave", s, Rest(s))
               [] InRange(s) -> Step("mark", s, Rest(s))
               [] OTHER -> Pass(Rest(s))
  /\ UNCHANGED <<session, work, screen, squad, entity, visible, entries>>

\* Mutant: the edge stays.
MutNotifyEntityLeave(s) ==
  /\ Hide(s, ThePuppet)
  /\ UNCHANGED entries

NotifyEntityLeave(s) ==
  /\ entries' = entries \ {s}
  /\ Hide(s, ThePuppet)

TickLeave ==
  /\ tick.pc = "notifyLeave"
  /\ NotifyEntityLeave(tick.s)
  /\ tick' = Step("clear", tick.s, tick.views)
  /\ UNCHANGED <<session, work, squad, entity, visible>>

ClearVisible ==
  /\ tick.pc = "clear"
  /\ visible' = visible \ {tick.s}
  /\ tick' = Pass(tick.views)
  /\ UNCHANGED <<session, work, screen, squad, entity, entries>>

MarkVisible ==
  /\ tick.pc = "mark"
  /\ visible' = visible \cup {tick.s}
  /\ tick' = IF tick.s \in visible THEN Pass(tick.views) ELSE Step("notifyEnter", tick.s, tick.views)
  /\ UNCHANGED <<session, work, screen, squad, entity, entries>>

\* NotifyEntityEnter: no packet for an edge that is there.
TickEnter ==
  /\ tick.pc = "notifyEnter"
  /\ entries' = entries \cup {tick.s}
  /\ IF tick.s \in entries THEN UNCHANGED screen ELSE Show(tick.s, ThePuppet)
  /\ tick' = Pass(tick.views)
  /\ UNCHANGED <<session, work, squad, entity, visible>>

\* releaseAISquad, after the pass.
TickEnd ==
  /\ tick.pc = "pass"
  /\ tick.views = <<>>
  /\ IF squad = "gone"
     THEN entity' = FALSE /\ visible' = {}
     ELSE UNCHANGED <<entity, visible>>
  /\ tick' = Idle
  /\ UNCHANGED <<session, work, screen, squad, entries>>

GameLoop ==
  \/ TickViews \/ TickSquads \/ TickLeave \/ ClearVisible \/ MarkVisible \/ TickEnter \/ TickEnd
  \/ \E s \in Session : TickView(s)

\* The further sections of a handler that has begun.
Continue(s) ==
  \/ StartLoop(s) \/ CheckPeer(s) \/ SendPeer(s) \/ RemoveFromAoI(s) \/ ForgetSession(s)
  \/ ResetVertex(s) \/ RemoveSession(s) \/ ReadTrackers(s) \/ SendHealth(s)

NextVisibility ==
  \/ GameLoop
  \/ \E s \in Session :
       \/ Continue(s)
       \/ Join(s) \/ Transform(s) \/ Visual(s) \/ LevelChange(s) \/ Depart(s) \/ HitPuppet(s)

\* The game loop ticks for ever and a handler runs to its end.
SpecVisibility ==
  /\ InitVisibility
  /\ [][NextVisibility]_visibilityVars
  /\ WF_visibilityVars(GameLoop)
  /\ \A s \in Session : WF_visibilityVars(Continue(s))

(***************************************************************************)
(* Properties.                                                             *)
(***************************************************************************)
\* Every variable has its type; a squad that is there has its entity.
VisibilityTypes ==
  /\ session \in [Session -> [at: {"away", "online", "gone"}, level: Level, dist: Dist,
                              gvid: BOOLEAN, visual: BOOLEAN, told: Level \cup {NoLevel},
                              lapsed: BOOLEAN]]
  /\ \A s \in Session :
       work[s].pc \in {"idle", "announce", "leave", "peers", "announcing", "leaving", "meeting",
                       "send", "aoi", "forget", "reset", "remove", "health", "healths"}
  /\ shown \in [Session -> SUBSET (Session \cup {ThePuppet})]
  /\ forgot \in [Session -> SUBSET Session]
  /\ crossed \subseteq Session
  /\ squad \in {"alive", "dead", "gone"}
  /\ entity \in BOOLEAN
  /\ squad # "gone" => entity
  /\ visible \subseteq Session
  /\ entries \subseteq Session
  /\ tick.pc \in {"idle", "step", "pass", "notifyLeave", "clear", "mark", "notifyEnter"}

\* Two players on one level, of whom one is announceable and neither has a handler under
\* way: the other is shown him, however the announcement, the levels they came from and the
\* newcomer's tour of his peers were interleaved.  Two cases are out, as the server does
\* nothing for them: the one had no game vertex in between (a tour then passes him by, and
\* he is not announced again), and the other loaded the level he is on once more.
PeersSeen ==
  \A a, b \in Online :
    ( /\ a # b
      /\ At(a, "idle") /\ At(b, "idle")
      /\ session[a].level = session[b].level
      /\ Announceable(a) /\ ~session[a].lapsed ) => a \in shown[b] \cup forgot[b]

\* The types, and the peers.
PeersSound == VisibilityTypes /\ PeersSeen

\* A puppet that was released is on the screen of no player, whenever he came, travelled or
\* left the range and the corpse's time was over: the pass sends the leaves first.  But one
\* whose enter (of the tick or of a hit) crossed the leave or his report of a level, or who
\* kept it over a report of the level he was on, may keep it for ever.
ReleasedUnseen ==
  ~entity => \A s \in Online : ThePuppet \in shown[s] => s \in crossed

InSight(s) ==
  /\ s \in Online
  /\ session[s].level = PuppetLevel
  /\ session[s].dist = "enter"
  /\ squad = "alive"

\* A puppet that stays within the enter radius of a player is shown to him in the end, once
\* he loads and reports no more levels: the
\* two records of what he was sent, which are kept and dropped apart, never lose it for good.
PuppetSeen ==
  \A s \in Roamer : <>[](InSight(s) /\ ~At(s, "aoi")) => <>[](ThePuppet \in shown[s])

\* The visibility set of a departed player does not survive: a tick that began before the
\* departure may create it again.
TrackingReaped ==
  \A s \in Roamer : <>[](session[s].at = "gone" /\ At(s, "idle")) => <>[](s \notin visible)
===============================================================================
