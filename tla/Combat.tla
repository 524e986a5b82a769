-------------------------------- MODULE Combat --------------------------------
(***************************************************************************)
(* Damage (game/damage.go, the damage handlers of game/server.go and       *)
(* game/ai_combat.go), the safe-zone flag it relies on, and the combat FSM *)
(* of a puppet (ai/combat.go, ai/puppet.go, ai/squad_manager.go).          *)
(*                                                                         *)
(* The worker of a player handles his packets one after the other; other   *)
(* workers and the game loop run between any two of its locked sections.   *)
(* Time passes from tick to tick and is counted in ages: how many ticks    *)
(* ago a thing happened.  Positions are reduced to what is asked of them:  *)
(* the range between a player and the puppet, and whether the player is in *)
(* a safe zone of his level.  A change of range may be the player's move   *)
(* or the puppet's.  Whether a party, the weapon range or the line of      *)
(* sight forbids a hit is a choice.                                        *)
(***************************************************************************)
EXTENDS Integers, FiniteSets, FiniteSetsExt, Functions

CONSTANTS
  Player,
  Mover, Shooter,   \* the players who move and travel, and who fire
  Level, PuppetLevel,
  SameFaction,      \* pairs of players of one faction
  Hostile,          \* players the puppet's faction is hostile to
  Damages,          \* what clients report
  MaxDamagePerHit, Ceiling, DamageBudget, MeleeDamage,
  Window,           \* ticks in the second the budget is for
  AttackCooldown, PatrolResume, CorpseDelay,  \* in ticks
  FullHealth, PuppetHealth

ASSUME PlayerAssumption == Mover \cup Shooter \subseteq Player
ASSUME LevelAssumption == PuppetLevel \in Level
ASSUME FactionAssumption == SameFaction \subseteq Player \X Player /\ Hostile \subseteq Player
ASSUME DamageAssumption ==
  /\ Damages \subseteq Int
  /\ {MaxDamagePerHit, Ceiling, DamageBudget, MeleeDamage, FullHealth, PuppetHealth}
       \subseteq Nat \ {0}
ASSUME TimeAssumption == {Window, AttackCooldown, PatrolResume, CorpseDelay} \subseteq Nat \ {0}

None == "none"
ThePuppet == "puppet"
Attacker == Player \cup {ThePuppet}
\* Ranges between a player and the puppet: within ai_attack_range_m, within
\* ai_aggro_radius_m, farther.
Reach == 0
Aggro == 1
Away == 2
Age == 0 .. Window - 1

ASSUME NamesAssumption == {None, ThePuppet} \cap Player = {}

VARIABLES
  player,  \* level, range, in a zone, the flag InSafeZone, health
  budget,  \* DamageHandler.budget: what an attacker spent, by age
  dealt,   \* history: damage accepted of an attacker, by age
  work,    \* what the worker of a player is doing
  puppet,  \* the squad
  swings,  \* history: ages of its swings
  tick     \* what the game loop is doing

vars == <<player, budget, dealt, work, puppet, swings, tick>>

Idle == [pc |-> "idle"]

\* Players join where they left.
Arrivals == [level: {PuppetLevel}, range: {Reach, Aggro, Away}, zone: {FALSE}, flag: {FALSE},
             health: {FullHealth}]

Init ==
  /\ player \in [Player -> Arrivals]
  /\ budget = [a \in Attacker |-> [g \in Age |-> 0]]
  /\ dealt = [a \in Attacker |-> [g \in Age |-> 0]]
  /\ work = [p \in Player |-> Idle]
  /\ puppet = [state |-> "patrol", target |-> None, health |-> PuppetHealth,
               last |-> AttackCooldown, alert |-> 0, corpse |-> 0]
  /\ swings = {}
  /\ tick = Idle

At(p, pc) == work[p].pc = pc
Goto(p, w) == work' = [work EXCEPT ![p] = w]

(***************************************************************************)
(* The safe-zone flag.                                                     *)
(***************************************************************************)
\* OpClientTransform: the position is stored and the old flag read under the lock ...
Move(p) ==
  /\ At(p, "idle")
  /\ \E range \in {Reach, Aggro, Away}, zone \in BOOLEAN :
       /\ player' = [player EXCEPT ![p].range = range, ![p].zone = zone]
       /\ IF zone # player[p].flag THEN Goto(p, [pc |-> "flag", zone |-> zone])
          ELSE UNCHANGED work
  /\ UNCHANGED <<budget, dealt, puppet, swings, tick>>

\* ... and a flag that has to change is changed under the next one.
SetFlag(p) ==
  /\ At(p, "flag")
  /\ player' = [player EXCEPT ![p].flag = work[p].zone]
  /\ Goto(p, Idle)
  /\ UNCHANGED <<budget, dealt, puppet, swings, tick>>

\* OpLevelChange resets the flag and ends with sendSafezoneState, which reads the
\* position under one lock and sets the flag under another.
LevelChange(p) ==
  /\ At(p, "idle")
  /\ \E level \in Level, zone \in BOOLEAN :
       player' = [player EXCEPT ![p].level = level, ![p].zone = zone, ![p].flag = FALSE]
  /\ Goto(p, [pc |-> "read"])
  /\ UNCHANGED <<budget, dealt, puppet, swings, tick>>

ReadZone(p) ==
  /\ At(p, "read")
  /\ Goto(p, [pc |-> "flag", zone |-> player[p].zone])
  /\ UNCHANGED <<player, budget, dealt, puppet, swings, tick>>

\* The tick sends the state to every session each two seconds.
NextZones(todo) == IF todo = {} THEN Idle ELSE [pc |-> "zones", todo |-> todo]

TickReadZone(p) ==
  /\ tick.pc = "zones"
  /\ p \in tick.todo
  /\ tick' = [pc |-> "zone", p |-> p, zone |-> player[p].zone, todo |-> tick.todo \ {p}]
  /\ UNCHANGED <<player, budget, dealt, work, puppet, swings>>

\* Mutant: only a new zone is stored.
MutTickSetFlag ==
  /\ tick.pc = "zone"
  /\ player' = [player EXCEPT ![tick.p].flag = @ \/ tick.zone]
  /\ tick' = NextZones(tick.todo)
  /\ UNCHANGED <<budget, dealt, work, puppet, swings>>

TickSetFlag ==
  /\ tick.pc = "zone"
  /\ player' = [player EXCEPT ![tick.p].flag = tick.zone]
  /\ tick' = NextZones(tick.todo)
  /\ UNCHANGED <<budget, dealt, work, puppet, swings>>

(***************************************************************************)
(* DamageHandler.                                                          *)
(***************************************************************************)
Spent(a) == SumFunction(budget[a])
Clamped(d) == Min({d, MaxDamagePerHit})

\* Mutant: a hit that finds some of the budget left is charged in full.
MutCharged(a, d) ==
  IF Spent(a) >= DamageBudget THEN 0 ELSE Clamped(d)

\* The per-hit cap, then chargeBudget: what remains of the last second's budget.
Charged(a, d) ==
  IF Spent(a) >= DamageBudget THEN 0 ELSE Min({Clamped(d), DamageBudget - Spent(a)})

Charge(a, n) ==
  /\ budget' = [budget EXCEPT ![a][0] = @ + n]
  /\ dealt' = [dealt EXCEPT ![a][0] = @ + n]

Sane(d) == d > 0 /\ d <= Ceiling

\* OpDamageNotify: the attacker's side of the hit is read first.
Fire(p) ==
  /\ At(p, "idle")
  /\ \E t \in Attacker \ {p}, d \in Damages :
       /\ t = ThePuppet => puppet.state \notin {"dead", "gone"}
       /\ Goto(p, [pc |-> "aimed", target |-> t, damage |-> d, level |-> player[p].level,
                   flag |-> player[p].flag])
  /\ UNCHANGED <<player, budget, dealt, puppet, swings, tick>>

\* Level, safe zone on both sides, faction, damage, budget; party, range and sight.
Validate(p) ==
  LET w == work[p]
      legal == /\ ~w.flag
               /\ IF w.target = ThePuppet THEN w.level = PuppetLevel
                  ELSE /\ w.level = player[w.target].level
                       /\ ~player[w.target].flag
                       /\ <<p, w.target>> \notin SameFaction
               /\ Sane(w.damage)
               /\ Charged(p, w.damage) > 0
  IN /\ At(p, "aimed")
     /\ \/ /\ legal
           /\ Charge(p, Charged(p, w.damage))
           /\ Goto(p, [pc |-> "apply", target |-> w.target,
                       damage |-> Charged(p, w.damage)])
        \/ Goto(p, Idle) /\ UNCHANGED <<budget, dealt>>
     /\ UNCHANGED <<player, puppet, swings, tick>>

Hurt(t, d) == player' = [player EXCEPT ![t].health = Max({0, @ - d})]

\* SquadManager.ApplyPuppetDamage checks once more that the puppet is there and alive.
\* (The timers of a dead puppet are never read again; they are reset here.)
Wounded(sq, d) ==
  IF sq.state \in {"dead", "gone"} THEN sq
  ELSE IF sq.health > d THEN [sq EXCEPT !.health = @ - d]
  ELSE [sq EXCEPT !.health = 0, !.state = "dead", !.target = None,
                  !.last = AttackCooldown, !.alert = 0]

Apply(p) ==
  LET w == work[p]
  IN /\ At(p, "apply")
     /\ IF w.target = ThePuppet
        THEN puppet' = Wounded(puppet, w.damage) /\ UNCHANGED player
        ELSE Hurt(w.target, w.damage) /\ UNCHANGED puppet
     /\ Goto(p, Idle)
     /\ UNCHANGED <<budget, dealt, swings, tick>>

(***************************************************************************)
(* The combat FSM.  A step yields the squad after it and the player it     *)
(* swings at.                                                              *)
(***************************************************************************)
Result(sq, swing) == [sq |-> sq, swing |-> swing]

\* Mutant: the target is kept.
MutStepAlert(sq) ==
  Result([sq EXCEPT !.state = "alert", !.alert = PatrolResume], None)

\* Mutant: with the target the time of the last swing is forgotten.
MutStepAlertForgets(sq) ==
  Result([sq EXCEPT !.target = None, !.state = "alert", !.alert = PatrolResume,
                    !.last = AttackCooldown], None)

StepAlert(sq) ==
  Result([sq EXCEPT !.target = None, !.state = "alert", !.alert = PatrolResume], None)

Swing(sq, t) ==
  IF sq.last >= AttackCooldown THEN Result([sq EXCEPT !.last = 0], t) ELSE Result(sq, None)

\* views: the targets of this tick, with their range.
StepChase(sq, views, t) ==
  IF t \notin DOMAIN views THEN StepAlert(sq)
  ELSE IF views[t] = Reach THEN Swing([sq EXCEPT !.state = "attack"], t)
  ELSE Result([sq EXCEPT !.state = "chase"], None)

NearestHostile(views) ==
  LET near == {t \in DOMAIN views : t \in Hostile /\ views[t] <= Aggro}
  IN {t \in near : \A u \in near : views[t] <= views[u]}

\* Mutant: the end of the alert is set again by every step.
MutStayAlert(sq) == StepAlert(sq)

StayAlert(sq) ==
  IF sq.alert = 0 THEN Result([sq EXCEPT !.state = "patrol", !.target = None], None)
  ELSE Result(sq, None)

\* The possible results of stepCombat; gate: the puppet is outside every safe zone.
StepCombat(sq, views, gate) ==
  LET held == sq.target \in DOMAIN views \cap Hostile
      \* The fields as the case of the state leaves them before stepChase.
      acquired(t) == [sq EXCEPT !.target = t, !.state = "chase"]
  IN CASE ~gate -> {Result([sq EXCEPT !.target = None, !.state = "patrol"], None)}
       [] gate /\ sq.state = "patrol" ->
            IF NearestHostile(views) = {} THEN {Result(sq, None)}
            ELSE {StepChase(acquired(t), views, t) : t \in NearestHostile(views)}
       [] gate /\ sq.state = "alert" ->
            {IF held /\ views[sq.target] <= Aggro
             THEN StepChase(acquired(sq.target), views, sq.target)
             ELSE StayAlert(sq)}
       [] gate /\ sq.state \in {"chase", "attack"} ->
            {IF held THEN StepChase(sq, views, sq.target) ELSE StepAlert(sq)}

(***************************************************************************)
(* The game loop: tickAIReplication reads the sessions, steps the puppet   *)
(* and delivers its swing; then the safe-zone states.                      *)
(***************************************************************************)
Older(f) == [g \in Age |-> IF g = 0 THEN 0 ELSE f[g - 1]]

\* A tick's time: entries of the budget that are a second old are dropped.
Elapse ==
  /\ budget' = [a \in Attacker |-> Older(budget[a])]
  /\ dealt' = [a \in Attacker |-> Older(dealt[a])]
  /\ swings' = {g + 1 : g \in {h \in swings : h < AttackCooldown}}

\* combatTargets: alive and outside the safe zones, by the flag and by the position.
Targets == {p \in Player : /\ player[p].health > 0
                           /\ ~player[p].flag
                           /\ ~player[p].zone
                           /\ player[p].level = PuppetLevel}

Tick ==
  /\ tick.pc = "idle"
  /\ Elapse
  /\ puppet' = [puppet EXCEPT !.last = Min({AttackCooldown, @ + 1}),
                              !.alert = Max({0, @ - 1}),
                              !.corpse = Max({0, @ - 1})]
  /\ tick' = [pc |-> "step", views |-> [p \in Targets |-> player[p].range]]
  /\ UNCHANGED <<player, work>>

\* The others' flags are what they were: they do not move.
Zones == NextZones(Mover)

\* Mutant: every tick finds the corpse anew.
MutDecay(sq) == [sq EXCEPT !.corpse = CorpseDelay + 1]

\* A dead puppet lies for CorpseDelay from the first tick that finds it and is then
\* despawned.
Decay(sq) ==
  CASE sq.corpse = 0 -> [sq EXCEPT !.corpse = CorpseDelay + 1]
    [] sq.corpse = 1 -> [sq EXCEPT !.state = "gone", !.corpse = 0]
    [] OTHER -> sq

\* tickPuppetsLocked steps a puppet that is there.
TickNone ==
  /\ tick.pc = "step"
  /\ puppet.state = "gone"
  /\ tick' = Zones
  /\ UNCHANGED <<player, budget, dealt, work, puppet, swings>>

\* Mutant: the safe-zone gate of the FSM comes before the branch of the dead.
MutTickDead ==
  /\ tick.pc = "step"
  /\ puppet.state = "dead"
  /\ \E gate \in BOOLEAN :
       puppet' = IF gate THEN Decay(puppet) ELSE [puppet EXCEPT !.state = "patrol"]
  /\ tick' = Zones
  /\ UNCHANGED <<player, budget, dealt, work, swings>>

\* The branch of the dead comes first ...
TickDead ==
  /\ tick.pc = "step"
  /\ puppet.state = "dead"
  /\ puppet' = Decay(puppet)
  /\ tick' = Zones
  /\ UNCHANGED <<player, budget, dealt, work, swings>>

\* ... and the living do a step of the FSM.
TickPuppet ==
  /\ tick.pc = "step"
  /\ puppet.state \notin {"dead", "gone"}
  /\ \E gate \in BOOLEAN : \E r \in StepCombat(puppet, tick.views, gate) :
       /\ puppet' = r.sq
       /\ swings' = IF r.swing = None THEN swings ELSE swings \cup {0}
       /\ tick' = IF r.swing = None THEN Zones ELSE [pc |-> "melee", target |-> r.swing]
  /\ UNCHANGED <<player, budget, dealt, work>>

\* applyAIAttacks: the swing goes through ValidateAndApplyDamage like a player's hit.
Melee ==
  LET t == tick.target
      n == Charged(ThePuppet, MeleeDamage)
  IN /\ tick.pc = "melee"
     /\ \/ /\ player[t].level = PuppetLevel /\ ~player[t].flag /\ n > 0
           /\ Charge(ThePuppet, n)
           /\ Hurt(t, n)
        \/ UNCHANGED <<budget, dealt, player>>
     /\ tick' = Zones
     /\ UNCHANGED <<work, puppet, swings>>

GameLoop ==
  \/ Tick \/ TickNone \/ TickDead \/ TickPuppet \/ Melee \/ TickSetFlag
  \/ \E p \in Mover : TickReadZone(p)

Next ==
  \/ GameLoop
  \/ \E p \in Mover : Move(p) \/ SetFlag(p) \/ LevelChange(p) \/ ReadZone(p)
  \/ \E p \in Shooter : Fire(p) \/ Validate(p) \/ Apply(p)

\* The game loop's ticker fires for ever.
Spec == Init /\ [][Next]_vars /\ WF_vars(GameLoop)

(***************************************************************************)
(* Properties.                                                             *)
(***************************************************************************)
\* Every variable has its type; health stays between nothing and full.
TypeOK ==
  /\ player \in [Player -> [level: Level, range: {Reach, Aggro, Away}, zone: BOOLEAN,
                            flag: BOOLEAN, health: 0 .. FullHealth]]
  /\ budget \in [Attacker -> [Age -> Nat]]
  /\ dealt \in [Attacker -> [Age -> Nat]]
  /\ \A p \in Player : work[p].pc \in {"idle", "flag", "read", "aimed", "apply"}
  /\ puppet \in [state: {"patrol", "chase", "attack", "alert", "dead", "gone"},
                 target: Player \cup {None}, health: 0 .. PuppetHealth,
                 last: 0 .. AttackCooldown, alert: 0 .. PatrolResume,
                 corpse: 0 .. CorpseDelay + 1]
  /\ swings \subseteq 0 .. AttackCooldown
  /\ tick.pc \in {"idle", "step", "melee", "zones", "zone"}

\* Within any second an attacker, player or puppet, is granted at most the damage budget,
\* whatever the hits and wherever in the second they fall (chargeBudget).
BudgetHolds ==
  \A a \in Attacker : SumFunction(dealt[a]) <= DamageBudget

\* A puppet swings at most once per AttackCooldown, also when it changes between chase
\* and attack, loses its target and finds another one in between.
SwingSpacing == Cardinality({g \in swings : g < AttackCooldown}) <= 1

\* A puppet has a target exactly while it chases or attacks.
PursuitHasTarget == (puppet.target # None) <=> (puppet.state \in {"chase", "attack"})

\* The types, and the FSM's target.
PursuitSound == TypeOK /\ PursuitHasTarget

\* A killed puppet stays dead until it is despawned, and a despawned one never returns.
PuppetStaysDead ==
  [][/\ puppet.state = "dead" => puppet'.state \in {"dead", "gone"}
     /\ puppet.state = "gone" => puppet'.state = "gone"]_vars

\* A corpse does not stay for ever: it is despawned and its entity released.
CorpseGoes == (puppet.state = "dead") ~> (puppet.state = "gone")

\* A puppet that lost its target does not stay on alert for ever.
AlertEnds == (puppet.state = "alert") ~> (puppet.state # "alert")

\* The flag that damage is checked against follows the position: while a player stays in a
\* safe zone, or stays outside, it is right again and again, although the transform
\* handler, the level change and the tick each set it from a position read earlier.
FlagSettles ==
  \A p \in Mover, z \in BOOLEAN :
    <>[](player[p].zone = z) => []<>(player[p].flag = z)
===============================================================================
