------------------------------ MODULE ItemStore ------------------------------
(***************************************************************************)
(* Where the items are: inventories, world items and stashes in the        *)
(* database (database/db.go, game/stash_manager.go, game/economy.go) and   *)
(* the handlers that move copies between them.                             *)
(*                                                                         *)
(* The database has one connection, so a transaction is one action.  A     *)
(* handler is a sequence of transactions and sends; the workers of other   *)
(* players and the sweep of old world items run in between.  The ledger's  *)
(* gates (resends, stale ids, rate) are in ItemLedger and are passed here. *)
(*                                                                         *)
(* Conditions are the 0-100 buckets of the code, reduced to a few.  Of     *)
(* positions only this is kept: which items' places a player has been      *)
(* farther from than AoIRadius.  For those the radius tests are a choice;  *)
(* so is whether a player is near enough to take an item or to open a      *)
(* stash.  ammo_current is never written with a positive value, so the     *)
(* branches of CreditInventoryLocked for it never run.                     *)
(***************************************************************************)
EXTENDS Integers, Sequences, FiniteSets, FiniteSetsExt, Functions

CONSTANTS
  Player, Section, Level,
  Spawn,         \* the level of new characters
  Bucket,        \* condition buckets, a set of numbers
  Key,           \* rounded stash positions of a level
  Price,         \* money deltas that clients ask for
  MaxMoneyDelta, \* trade_max_money_delta
  MaxPerLevel,   \* world_item_max_per_level
  MaxEntries,    \* what the contents of a stash may have, 256 in the code
  Kit,           \* the loadout of a new character: rows per section
  StarterMoney,  \* and its money; 0 keeps what the account has
  Provision,     \* what AutoProvision leaves in a new row's wallet
  MaxStack, MaxRubles, MaxItems, MaxBought, MaxStashes
                 \* bounds: copies in a request, wallet, drops, copies given out, stashes

ASSUME SpawnAssumption == Spawn \in Level
ASSUME BucketAssumption == Bucket \subseteq Nat
ASSUME PriceAssumption == Price \subseteq Nat \ {0} /\ MaxMoneyDelta \in Nat \ {0}
ASSUME LimitAssumption == {MaxPerLevel, MaxEntries, MaxStack} \subseteq Nat \ {0}
ASSUME FiniteAssumption == IsFiniteSet(Player) /\ IsFiniteSet(Bucket)
ASSUME BoundAssumption == {StarterMoney, Provision, MaxRubles, MaxItems, MaxBought, MaxStashes}
                            \subseteq Nat

Offline == "offline"
ASSUME OfflineAssumption == Offline \notin Level

Row == [count: Nat \ {0}, cond: Bucket]
ASSUME KitAssumption == Kit \in [Section -> Seq(Row)]
ItemId == 1 .. MaxItems
Copies == 1 .. MaxStack

VARIABLES
  inv,      \* character_inventory: rows by player and section, in id order
  rubles,   \* characters.rubles
  world,    \* world_items
  dropped,  \* the last id given to a world item
  stashes,  \* world_stashes in id order
  level,    \* CurrentLevel of a player's session, or Offline
  pending,  \* players whose character is still to be created
  busy,     \* what the worker of a player has under way
  sweep,    \* removals the sweep has still to tell: <<world item, player>>
  sees,     \* world items a player's client shows
  told,     \* copies a player has been told to hold
  away,     \* history: items whose place a player has been out of range of since he
            \* arrived, or that lay there when he loaded the level again
  outside   \* history: copies with traders, used up or expired, less those given out

vars == <<inv, rubles, world, dropped, stashes, level, pending, busy, sweep, sees,
          told, away, outside>>

Idle == [pc |-> "idle"]

Init ==
  /\ inv = [p \in Player |-> [s \in Section |-> <<>>]]
  /\ rubles = [p \in Player |-> Provision]
  /\ world = {}
  /\ dropped = 0
  /\ stashes = <<>>
  /\ level = [p \in Player |-> Offline]
  /\ pending = Player
  /\ busy = [p \in Player |-> Idle]
  /\ sweep = {}
  /\ sees = [p \in Player |-> {}]
  /\ told = [p \in Player |-> [s \in Section |-> 0]]
  /\ away = [p \in Player |-> ItemId]
  /\ outside = [s \in Section |-> 0]

Online(p) == level[p] # Offline
Ready(p) == Online(p) /\ busy[p] = Idle
Continue(p, next) == busy' = [busy EXCEPT ![p] = next]
Done(p) == Continue(p, Idle)

(***************************************************************************)
(* Rows of one section in a character's inventory.                         *)
(***************************************************************************)
Counts(rows) == [i \in DOMAIN rows |-> rows[i].count]
Total(rows) == SumFunction(Counts(rows))

\* Rows of the preferred bucket first, then by id.
ConsumedBefore(rows, i, j, preferred) ==
  LET other(k) == IF rows[k].cond = preferred THEN 0 ELSE 1
  IN other(i) < other(j) \/ (other(i) = other(j) /\ i < j)

\* The copies in the rows that are consumed before row j, and what is left in it when n
\* copies are taken.
Ahead(rows, preferred, j) ==
  SumFunctionOnSet(Counts(rows), {i \in DOMAIN rows : ConsumedBefore(rows, i, j, preferred)})
Left(rows, n, preferred, j) ==
  IF Ahead(rows, preferred, j) >= n THEN rows[j].count
  ELSE Max({0, rows[j].count - (n - Ahead(rows, preferred, j))})

\* The rows with copies; the others are deleted.
Filled(rows) ==
  LET kept[i \in 0 .. Len(rows)] ==
        IF i = 0 THEN <<>>
        ELSE IF rows[i].count > 0 THEN Append(kept[i - 1], rows[i]) ELSE kept[i - 1]
  IN kept[Len(rows)]

\* RemoveInventoryItemsLocked, for n copies that are there: the rows that stay,
\* and the condition of the first row consumed.
RemoveItems(rows, n, preferred) ==
  LET after == [j \in DOMAIN rows |-> [rows[j] EXCEPT !.count = Left(rows, n, preferred, j)]]
      first == CHOOSE j \in DOMAIN rows : Ahead(rows, preferred, j) = 0
  IN [rows |-> Filled(after), cond |-> rows[first].cond]

\* CreditInventoryLocked
CreditItems(rows, n, cond) ==
  LET same == {i \in DOMAIN rows : rows[i].cond = cond}
  IN IF same = {}
     THEN Append(rows, [count |-> n, cond |-> cond])
     ELSE [rows EXCEPT ![Min(same)].count = @ + n]

Take(p, s, n, preferred) ==
  inv' = [inv EXCEPT ![p][s] = RemoveItems(@, n, preferred).rows]
TakenCondition(p, s, n, preferred) == RemoveItems(inv[p][s], n, preferred).cond
Give(p, s, n, cond) == inv' = [inv EXCEPT ![p][s] = CreditItems(@, n, cond)]

\* The answer of a committed action tells the player what he lost or got.
Tell(p, s, n) == told' = [told EXCEPT ![p][s] = @ + n]
Gone(s, n) == outside' = [outside EXCEPT ![s] = @ + n]

\* sendInventorySync: all rows, in as many packets as it takes.
SendInventorySync(p, rows) == told' = [told EXCEPT ![p] = [s \in Section |-> Total(rows[s])]]

(***************************************************************************)
(* Coming and going.                                                       *)
(***************************************************************************)
\* The session is on its level before the world items are read, wherever its position
\* is: a traveller's is still that of the level he left.
Arrive(p, l) ==
  /\ level' = [level EXCEPT ![p] = l]
  /\ sees' = [sees EXCEPT ![p] = {}]
  /\ \E far \in SUBSET ItemId : away' = [away EXCEPT ![p] = far]
  /\ Continue(p, [pc |-> "list"])

\* A returning player's handshake.
Join(p, l) ==
  /\ ~Online(p) /\ p \notin pending
  /\ Arrive(p, l)
  /\ SendInventorySync(p, inv[p])
  /\ UNCHANGED <<inv, rubles, world, dropped, stashes, pending, sweep, outside>>

\* A new player's session, which no gate of the item handlers tells apart.
JoinNew(p) ==
  /\ ~Online(p) /\ p \in pending
  /\ level' = [level EXCEPT ![p] = Spawn]
  /\ UNCHANGED <<inv, rubles, world, dropped, stashes, pending, busy, sweep, sees,
                 told, away, outside>>

\* CreateCharacter replaces whatever inventory the account has.
CharacterSelect(p) ==
  /\ Ready(p) /\ p \in pending
  /\ pending' = pending \ {p}
  /\ inv' = [inv EXCEPT ![p] = Kit]
  /\ rubles' = [rubles EXCEPT ![p] = IF StarterMoney > 0 THEN StarterMoney ELSE @]
  /\ SendInventorySync(p, Kit)
  /\ outside' = [s \in Section |-> outside[s] + Total(inv[p][s]) - Total(Kit[s])]
  /\ Arrive(p, Spawn)
  /\ UNCHANGED <<world, dropped, stashes, sweep>>

Travel(p, l) ==
  /\ Ready(p) /\ p \notin pending
  /\ l # level[p]
  /\ Arrive(p, l)
  /\ SendInventorySync(p, inv[p])
  /\ UNCHANGED <<inv, rubles, world, dropped, stashes, pending, sweep, outside>>

\* The level is loaded again, and reported: the client has forgotten the items, and the
\* server sends neither them nor the inventory.
ReloadLevel(p) ==
  /\ Ready(p) /\ p \notin pending
  /\ sees' = [sees EXCEPT ![p] = {}]
  /\ away' = [away EXCEPT ![p] = @ \cup {w.id : w \in world}]
  /\ UNCHANGED <<inv, rubles, world, dropped, stashes, level, pending, busy, sweep,
                 told, outside>>

\* OpTransform takes the player out of the range of an item's place.
WalkAway(p, i) ==
  /\ Ready(p)
  /\ away' = [away EXCEPT ![p] = @ \cup {i}]
  /\ UNCHANGED <<inv, rubles, world, dropped, stashes, level, pending, busy, sweep, sees,
                 told, outside>>

Leave(p) ==
  /\ Ready(p)
  /\ level' = [level EXCEPT ![p] = Offline]
  /\ sees' = [sees EXCEPT ![p] = {}]
  /\ away' = [away EXCEPT ![p] = ItemId]
  /\ UNCHANGED <<inv, rubles, world, dropped, stashes, pending, busy, sweep, told,
                 outside>>

ItemsOn(l) == {w.id : w \in {v \in world : v.level = l}}

\* sendWorldItemsInAoI reads the items of the level, skips those out of range...
ListWorldItems(p) ==
  /\ busy[p].pc = "list"
  /\ \E items \in SUBSET ItemsOn(level[p]) :
       /\ ItemsOn(level[p]) \ items \subseteq away[p]
       /\ Continue(p, [pc |-> "send", items |-> items])
  /\ UNCHANGED <<inv, rubles, world, dropped, stashes, level, pending, sweep, sees, told,
                 outside, away>>

\* Mutant: the items replace what the client has been shown meanwhile.
MutSendWorldItems(p) ==
  /\ busy[p].pc = "send"
  /\ sees' = [sees EXCEPT ![p] = busy[p].items]
  /\ Done(p)
  /\ UNCHANGED <<inv, rubles, world, dropped, stashes, level, pending, sweep, told,
                 outside, away>>

\* ... and sends them.
SendWorldItems(p) ==
  /\ busy[p].pc = "send"
  /\ sees' = [sees EXCEPT ![p] = @ \cup busy[p].items]
  /\ Done(p)
  /\ UNCHANGED <<inv, rubles, world, dropped, stashes, level, pending, sweep, told,
                 outside, away>>

(***************************************************************************)
(* OpItemAction: drop, consume, pick up.                                   *)
(***************************************************************************)
\* broadcastItemUpdate goes through the other sessions and looks at the level of each.
Broadcast(p, w, shows) ==
  IF Player = {p} THEN Idle
  ELSE [pc |-> "tell", item |-> w, shows |-> shows, to |-> Player \ {p}]

\* The drop is refused when the level is full or the player has too few.
Drop(p, s, n, preferred) ==
  LET w == [id |-> dropped + 1, level |-> level[p], section |-> s, count |-> n,
            cond |-> TakenCondition(p, s, n, preferred)]
  IN /\ Ready(p)
     /\ dropped < MaxItems
     /\ Cardinality({v \in world : v.level = level[p]}) < MaxPerLevel
     /\ Total(inv[p][s]) >= n
     /\ Take(p, s, n, preferred)
     /\ world' = world \cup {w}
     /\ dropped' = dropped + 1
     /\ sees' = [sees EXCEPT ![p] = @ \cup {w.id}]
     /\ Tell(p, s, -n)
     /\ Continue(p, Broadcast(p, w, TRUE))
     /\ UNCHANGED <<rubles, stashes, level, pending, sweep, outside, away>>

\* Whether q hears of it: he is on the level, within the radius of the item.
BroadcastTo(p, q, hears) ==
  /\ busy[p].pc = "tell" /\ q \in busy[p].to
  /\ LET w == busy[p].item
         rest == busy[p].to \ {q}
     IN /\ hears => level[q] = w.level
        /\ ~hears => level[q] # w.level \/ w.id \in away[q]
        /\ sees' = IF ~hears THEN sees
                   ELSE IF busy[p].shows THEN [sees EXCEPT ![q] = @ \cup {w.id}]
                   ELSE [sees EXCEPT ![q] = @ \ {w.id}]
        /\ IF rest = {} THEN Done(p) ELSE busy' = [busy EXCEPT ![p].to = rest]
  /\ UNCHANGED <<inv, rubles, world, dropped, stashes, level, pending, sweep, told,
                 outside, away>>

Consume(p, s, n) ==
  /\ Ready(p)
  /\ Total(inv[p][s]) >= n
  /\ Take(p, s, n, -1)
  /\ Gone(s, n)
  /\ Tell(p, s, -n)
  /\ UNCHANGED <<rubles, world, dropped, stashes, level, pending, busy, sweep, sees, away>>

\* GetWorldItem, the test of level and range...
LookUpItem(p, w) ==
  /\ Ready(p)
  /\ w \in world /\ w.level = level[p]
  /\ Continue(p, [pc |-> "pickup", item |-> w])
  /\ UNCHANGED <<inv, rubles, world, dropped, stashes, level, pending, sweep, sees, told,
                 outside, away>>

\* Mutant: the item that was looked up is credited without looking again.
MutPickupWorldItem(p) ==
  /\ busy[p].pc = "pickup"
  /\ LET w == busy[p].item
     IN /\ world' = world \ {w}
        /\ Give(p, w.section, w.count, w.cond)
        /\ sees' = [sees EXCEPT ![p] = @ \ {w.id}]
        /\ Tell(p, w.section, w.count)
        /\ Continue(p, Broadcast(p, w, FALSE))
  /\ UNCHANGED <<rubles, dropped, stashes, level, pending, sweep, outside, away>>

\* ... and the transaction that deletes the row and credits it.
PickupWorldItem(p) ==
  /\ busy[p].pc = "pickup"
  /\ busy[p].item \in world
  /\ LET w == busy[p].item
     IN /\ world' = world \ {w}
        /\ Give(p, w.section, w.count, w.cond)
        /\ sees' = [sees EXCEPT ![p] = @ \ {w.id}]
        /\ Tell(p, w.section, w.count)
        /\ Continue(p, Broadcast(p, w, FALSE))
  /\ UNCHANGED <<rubles, dropped, stashes, level, pending, sweep, outside, away>>

\* Mutant: the answer to a pickup that lost the race is that of the lookup.
MutPickupLost(p) ==
  /\ busy[p].pc = "pickup"
  /\ busy[p].item \notin world
  /\ Tell(p, busy[p].item.section, busy[p].item.count)
  /\ Done(p)
  /\ UNCHANGED <<inv, rubles, world, dropped, stashes, level, pending, sweep, sees,
                 outside, away>>

\* rejectedItemPickup: somebody else, or the sweep, was first.
PickupLost(p) ==
  /\ busy[p].pc = "pickup"
  /\ busy[p].item \notin world
  /\ SendInventorySync(p, inv[p])
  /\ Done(p)
  /\ UNCHANGED <<inv, rubles, world, dropped, stashes, level, pending, sweep, sees,
                 outside, away>>

(***************************************************************************)
(* sweepWorldItems, in the game loop.                                      *)
(***************************************************************************)
\* The copies of a section among world items.
CopiesIn(items, s) == SumFunction([w \in {v \in items : v.section = s} |-> w.count])

SweepWorldItems(expired) ==
  /\ sweep = {}
  /\ expired # {} /\ expired \subseteq world
  /\ world' = world \ expired
  /\ outside' = [s \in Section |-> outside[s] + CopiesIn(expired, s)]
  /\ sweep' = expired \X Player
  /\ UNCHANGED <<inv, rubles, dropped, stashes, level, pending, busy, sees, told, away>>

BroadcastRemoval(w, q) ==
  /\ <<w, q>> \in sweep
  /\ sweep' = sweep \ {<<w, q>>}
  /\ sees' = IF level[q] = w.level THEN [sees EXCEPT ![q] = @ \ {w.id}] ELSE sees
  /\ UNCHANGED <<inv, rubles, world, dropped, stashes, level, pending, busy, told,
                 outside, away>>

(***************************************************************************)
(* OpStashAction and OpContainerAction.                                    *)
(***************************************************************************)
StashesAt(l, k) == {n \in DOMAIN stashes : stashes[n].level = l /\ stashes[n].key = k}
FindStashAt(l, k) == Min(StashesAt(l, k))
Empty == [e \in Section \X Bucket |-> 0]
Entries(items) == {e \in DOMAIN items : items[e] > 0}

\* Mutant: the insert does not look for a stash at the position.
MutFindOrCreateStash(p, k) ==
  /\ Ready(p)
  /\ stashes' = Append(stashes, [level |-> level[p], key |-> k, items |-> Empty])
  /\ Continue(p, [pc |-> "deposit", stash |-> Len(stashes) + 1])
  /\ UNCHANGED <<inv, rubles, world, dropped, level, pending, sweep, sees, told,
                 outside, away>>

\* Store: FindOrCreateWorldStash, whose stash then passes ValidateAccess (nothing
\* in the server writes an owner or a passcode).
FindOrCreateStash(p, k) ==
  /\ Ready(p)
  /\ IF StashesAt(level[p], k) = {}
     THEN /\ Len(stashes) < MaxStashes
          /\ stashes' = Append(stashes, [level |-> level[p], key |-> k, items |-> Empty])
          /\ Continue(p, [pc |-> "deposit", stash |-> Len(stashes) + 1])
     ELSE /\ Continue(p, [pc |-> "deposit", stash |-> FindStashAt(level[p], k)])
          /\ UNCHANGED stashes
  /\ UNCHANGED <<inv, rubles, world, dropped, level, pending, sweep, sees, told,
                 outside, away>>

\* Take: FindWorldStash and ValidateAccess.
FindStash(p, k) ==
  /\ Ready(p)
  /\ StashesAt(level[p], k) # {}
  /\ Continue(p, [pc |-> "withdraw", stash |-> FindStashAt(level[p], k)])
  /\ UNCHANGED <<inv, rubles, world, dropped, stashes, level, pending, sweep, sees, told,
                 outside, away>>

\* A container is a stash named by its id.
OpenContainer(p, n, action) ==
  /\ Ready(p)
  /\ n \in DOMAIN stashes /\ stashes[n].level = level[p]
  /\ Continue(p, [pc |-> action, stash |-> n])
  /\ UNCHANGED <<inv, rubles, world, dropped, stashes, level, pending, sweep, sees, told,
                 outside, away>>

Stored(p, s, n, preferred) ==
  [stashes[busy[p].stash].items EXCEPT ![<<s, TakenCondition(p, s, n, preferred)>>] = @ + n]

DepositItem(p, s, n, preferred) ==
  /\ busy[p].pc = "deposit"
  /\ Total(inv[p][s]) >= n
  /\ Cardinality(Entries(Stored(p, s, n, preferred))) <= MaxEntries
  /\ Take(p, s, n, preferred)
  /\ stashes' = [stashes EXCEPT ![busy[p].stash].items = Stored(p, s, n, preferred)]
  /\ Tell(p, s, -n)
  /\ Done(p)
  /\ UNCHANGED <<rubles, world, dropped, level, pending, sweep, sees, outside, away>>

WithdrawItem(p, s, n, cond) ==
  /\ busy[p].pc = "withdraw"
  /\ stashes[busy[p].stash].items[<<s, cond>>] >= n
  /\ stashes' = [stashes EXCEPT ![busy[p].stash].items[<<s, cond>>] = @ - n]
  /\ Give(p, s, n, cond)
  /\ Tell(p, s, n)
  /\ Done(p)
  /\ UNCHANGED <<rubles, world, dropped, level, pending, sweep, sees, outside, away>>

\* Too few copies, too many entries, out of range: nothing has changed.  The refusal of a
\* stash, not that of a container, sends the inventory.
StashRefused(p) ==
  /\ busy[p].pc \in {"deposit", "withdraw"}
  /\ SendInventorySync(p, inv[p]) \/ UNCHANGED told
  /\ Done(p)
  /\ UNCHANGED <<inv, rubles, world, dropped, stashes, level, pending, sweep, sees,
                 outside, away>>

(***************************************************************************)
(* OpTradeAction.                                                          *)
(***************************************************************************)
\* A larger delta is cut, and the result is "corrected".
Capped(price) == Min({price, MaxMoneyDelta})

Sell(p, s, n, price) ==
  /\ Ready(p)
  /\ Total(inv[p][s]) >= n
  /\ rubles[p] + Capped(price) <= MaxRubles
  /\ Take(p, s, n, -1)
  /\ rubles' = [rubles EXCEPT ![p] = @ + Capped(price)]
  /\ Gone(s, n)
  /\ Tell(p, s, -n)
  /\ UNCHANGED <<world, dropped, stashes, level, pending, busy, sweep, sees, away>>

Buy(p, s, n, cond, price) ==
  /\ Ready(p)
  /\ n - outside[s] <= MaxBought
  /\ rubles[p] >= Capped(price)
  /\ rubles' = [rubles EXCEPT ![p] = @ - Capped(price)]
  /\ Give(p, s, n, cond)
  /\ Gone(s, -n)
  /\ Tell(p, s, n)
  /\ UNCHANGED <<world, dropped, stashes, level, pending, busy, sweep, sees, away>>

ItemAction(p, s, n) ==
  \/ \E b \in Bucket : Drop(p, s, n, b)
  \/ Consume(p, s, n)
  \/ \E b \in Bucket : DepositItem(p, s, n, b)
  \/ \E b \in Bucket : WithdrawItem(p, s, n, b)
  \/ \E price \in Price : Sell(p, s, n, price)
  \/ \E b \in Bucket, price \in Price : Buy(p, s, n, b, price)

Next ==
  \/ \E p \in Player, l \in Level : Join(p, l) \/ Travel(p, l)
  \/ \E p \in Player : JoinNew(p) \/ CharacterSelect(p) \/ Leave(p)
  \/ \E p \in Player : ReloadLevel(p) \/ \E i \in ItemId : WalkAway(p, i)
  \/ \E p \in Player : ListWorldItems(p) \/ SendWorldItems(p)
  \/ \E p \in Player, s \in Section, n \in Copies : ItemAction(p, s, n)
  \/ \E p \in Player, w \in world : LookUpItem(p, w)
  \/ \E p \in Player : PickupWorldItem(p) \/ PickupLost(p) \/ StashRefused(p)
  \/ \E p, q \in Player, hears \in BOOLEAN : BroadcastTo(p, q, hears)
  \/ \E expired \in SUBSET world : SweepWorldItems(expired)
  \/ \E m \in sweep : BroadcastRemoval(m[1], m[2])
  \/ \E p \in Player, k \in Key : FindOrCreateStash(p, k) \/ FindStash(p, k)
  \/ \E p \in Player, n \in DOMAIN stashes, action \in {"deposit", "withdraw"} :
       OpenContainer(p, n, action)

Spec == Init /\ [][Next]_vars
-----------------------------------------------------------------------------
(***************************************************************************)
(* Properties.                                                             *)
(***************************************************************************)
\* Types.
TypeOK ==
  /\ \A p \in Player, s \in Section : \A i \in DOMAIN inv[p][s] : inv[p][s][i] \in Row
  /\ rubles \in [Player -> Nat]
  /\ world \subseteq [id: 1 .. dropped, level: Level, section: Section,
                      count: Nat \ {0}, cond: Bucket]
  /\ dropped \in 0 .. MaxItems
  /\ \A n \in DOMAIN stashes : stashes[n].items \in [Section \X Bucket -> Nat]
  /\ level \in [Player -> Level \cup {Offline}]
  /\ pending \subseteq Player

\* The copies of a section in inventories, in the world and in stashes.
Carried(s) == SumFunction([p \in Player |-> Total(inv[p][s])])
Lying(s) == CopiesIn(world, s)
StoredCopies(items, s) == SumFunction([c \in Bucket |-> items[<<s, c>>]])
Stashed(s) == SumFunction([n \in DOMAIN stashes |-> StoredCopies(stashes[n].items, s)])

\* No copy is lost or made twice: whatever pickups, the sweep, deposits and
\* withdrawals race for, the copies in inventories, world and stashes are those
\* that traders and loadouts have given out and that were not used up, sold,
\* expired or replaced by a new character.
Conservation == \A s \in Section : Carried(s) + Lying(s) + Stashed(s) + outside[s] = 0

\* The types, and conservation.
ItemsConserved == TypeOK /\ Conservation

\* A player is told of exactly the copies he holds, also when a pickup loses
\* against another player or the sweep after its first look at the item.
ToldTruth == \A p \in Player, s \in Section :
  Online(p) /\ p \notin pending => told[p][s] = Total(inv[p][s])

\* A player who has arrived on a level, has been within AoIRadius of an item's place
\* ever since and has not loaded the level again after the drop is shown the item, or
\* the worker of the player who dropped it is about to tell him: arrivals, drops,
\* pickups of other items and the sweep that cross each other miss nothing.
NobodyMissesAnItem == \A p \in Player, w \in world :
  /\ level[p] = w.level /\ p \notin pending
  /\ busy[p].pc \notin {"list", "send"}
  /\ w.id \notin away[p]
  => \/ w.id \in sees[p]
     \/ \E q \in Player : busy[q].pc = "tell" /\ busy[q].item = w /\ p \in busy[q].to

\* What was stored at a position can be taken there again: the stash that a take
\* finds is the only one at its position, whatever first stores race.
StoredIsFound == \A n \in DOMAIN stashes : FindStashAt(stashes[n].level, stashes[n].key) = n
=============================================================================
