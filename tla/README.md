# Zone: a TLA+ model of sessions, items, combat, visibility, parties and delivery

Zone is a multiplayer server for a single-player game engine: a Go server
(`zone-server`), a C++ library injected into the game (`zone-client`) and Lua
scripts that run inside it (`gamedata/scripts`). Client and server exchange UDP
datagrams; the server owns characters, inventories, parties and death, the
client its position.

This directory holds TLA+ modules for the parts of Zone whose correctness
depends on interleaving, loss and retries, TLC configurations that check them
on small instances, and TLAPS proofs for every size.

```
tlc -config SessionManager.cfg MCSessionManager      # one run
tlapm SessionManagerProofs.tla                       # the proofs of one module
```

## 1. Inventory

Paths are below `src/zone-server/internal/` unless they begin with `src/`.

| Component | State | Operations | Interacts with |
|---|---|---|---|
| Session registry, `network/session.go` | `sessions` by id, `byAddr` by endpoint, cached slice | `TryAddCapped`, `EnsureUniqueName`, `RemoveSession`, lookups | handshake, disconnect, tick, kick, every handler |
| Server, `game/server.go` | counters `sessionIDSeq` and `seq`, `nickMu`, pointers to all managers | `HandlePacket` (one case per opcode), `Tick`, `KickSession`, `BanPlayer` | everything |
| Sleepers, `game/sleeper_manager.go` | sleepers by entity and by account | create, damage, remove, expire | disconnect, timeout, handshake, damage |
| Spatial grid, `game/spatial_grid.go` | entities and cells | insert, remove, update, range query | handlers, area of interest, damage |
| Item ledger, `game/item_ledger.go`, `container_ledger.go`, `stash_trade_ledger.go` | per session: ActionID floor, four result rings, rate window | lookup, stale test, rate test, record, and four handlers | database, client scripts |
| Client item actions, `src/gamedata/scripts/zone_net.script` | ActionID counter, pending tables | send, resend, time out, take a result, level load | the ledger, over UDP |
| Parties, `game/groups.go` | groups, membership, invitations | invite, accept, decline, leave, expire, forget | chat commands, departures, damage (friendly fire) |
| Reliable delivery, `network/ack_queue.go` | unacknowledged packets | enqueue, acknowledge, retransmit, purge by endpoint | `SendToSession`, `Tick`, departures |
| UDP listener, `network/udp_listener.go` | token buckets, one queue per worker | receive, rate limit, dispatch by endpoint | `HandlePacket` |
| Persistence, `database/` | SQLite, write-behind queue | queued updates, synchronous flushes, transactions | handlers, tick, shutdown |
| Damage, `game/damage.go`, `damage_audit.go`, `los_gate.go` | damage budgets, audit throttle | validate, apply, kill | groups, safe zones, sleepers, line of sight |
| Economy and stashes, `game/economy.go`, `stash_manager.go` | prices, stash contents | buy, sell, store, take | ledger handlers, database |
| AI, `ai/`, `game/ai_*.go` | puppets, squads, visibility per session | spawn, patrol, fight, replicate | grid, sessions, damage |
| Area of interest, `game/aoi_manager.go` | visible set per session | enter, leave, snapshots | grid, sessions |
| Emission and safe zones, `game/emission.go`, `safezone.go` | phase of the emission | tick, kill outside safe zones | sessions, database |
| Factions, `game/faction_relations.go` | goodwill table | load, adjust, save | damage, AI |
| Administration, `game/admin*.go`, `auth.go` | named pipe or socket | kick, ban, status | registry, database |
| Line of sight, `los/` | level geometry | ray tests | damage |
| Protocol, `protocol/` | none | encode, decode | everything |
| Client library, `src/zone-client/src` | connection state, packet counter, ring to Lua | connect, heartbeat, send, receive | server, scripts |
| Client scripts | HUD, menus, proxies of remote players | presentation | client library |

### How they run together

* The listener hashes the endpoint of a datagram to one of its workers: the
  packets of one endpoint are handled one after the other, those of different
  endpoints at the same time.
* The game loop (`RunGameLoop`, 30 Hz) runs `Tick` in its own goroutine: sleeper
  expiry, stale sessions, checkpoints, retransmission, AI, snapshots.
* The administrator's console kicks and bans from a third goroutine.
* Each manager has a mutex of its own. There is no lock over several of them: a
  handler is a sequence of atomic steps on different managers, and anything may
  happen in between. A handler holds pointers to sessions that may have left the
  registry since it looked them up.
* The network loses, duplicates and reorders. The client resends item, stash and
  trade actions itself, each time in a new datagram with a new packet number.

### What is hard, and what correct means

* **Registry**: three indexes must describe one set; one session per account and
  per endpoint; the cap holds across racing handshakes; a refused handshake
  harms nobody; names are distinct although they are assigned after the insert.
* **Lifecycle**: registry, grid and sleepers must agree once all handlers are
  done: no ghost, no player outside the grid, no player beside his own body.
* **Items**: an action is committed at most once and the player is told the
  truth about it, or told that the server did not answer.
* **Parties**: membership map and rosters agree, a party ends with its leader,
  its size is never one nor above the limit, departed players are not in it.
* **Reliable delivery**: a packet is delivered or reported as dropped, and a new
  session at an old endpoint never sees its predecessor's packets.
* **Item transactions**: no copy is lost or made twice by racing pickups, sweeps,
  stores and trades; players are told what they hold and shown what lies around.
* **Persistence**: a death is stored, whatever writes race with it; a shutdown ends.
* **Combat**: budget and cooldown hold in every second; a dead puppet stays dead and
  goes; the safe-zone flag follows the position.
* **Visibility**: players on one level are shown each other, a puppet in range is
  shown, a puppet that goes is hidden, and nothing tracks a departed session.

`PROJECT.json` lists the hazards with their lines and the properties that would
catch each of them.

## 2. The modules

| Module | Models | Used by |
|---|---|---|
| `SessionTable` | what the registry promises: a set of live sessions without conflicts, below the cap | `SessionManager` and `SessionLifecycleProofs` (refinements) |
| `SessionManager` | `network/session.go` and the handshake's critical section | `SessionManagerProofs`, `MCSessionManager` |
| `SessionLifecycle` | handshake, disconnect, transform, level change, character selection, sleeper kill, tick and kick on registry, grid and sleepers | `SessionLifecycleProofs`, `MCSessionLifecycle` |
| `ItemLedger` | the ledger and the gates of the item, container, stash and trade handlers | `ItemActionProtocol`, `MCItemLedger` |
| `ItemActionProtocol` | the client scripts, the network and the replay gate around the ledger | `ItemLedgerProofs`, `MCItemActionProtocol` |
| `GroupManager` | `game/groups.go`, the commands that drive it, departures | `GroupManagerProofs`, `MCGroupManager` |
| `ReliableChannel` | `network/ack_queue.go`, `SendToSession`, the client's network thread and its ring to Lua | `DeliveryProofs`, `MCReliableChannel` |
| `ItemStore` | the transactions of `database/db.go`, `game/stash_manager.go` and `game/economy.go` on inventories, world items, stashes and wallet, and the handlers around them | `ItemStoreProofs`, `MCItemStore` |
| `CharacterStore` | the writers of one character's row, the write-behind queue and the shutdown of `cmd/server/main.go` | `CharacterStoreProofs`, `MCCharacterStore` |
| `Combat` | `game/damage.go`, the damage handlers, the safe-zone flag, and the combat FSM of a puppet (`ai/combat.go`, `ai/puppet.go`, `ai/squad_manager.go`) | `CombatProofs`, `MCCombat` |
| `Visibility` | enter and leave between players, and the replication of a puppet (`game/ai_replication.go`, `game/aoi_manager.go`) | `DeliveryProofs`, `MCVisibility` |

Operators whose names begin with `Mut` are deliberately wrong variants of the
definition that follows them. No specification uses them; each one shows that a
property fails when the code has that bug.

### SessionManager

Each method of the Go type runs under its mutex and is one action. The handshake
calls `TryAddCapped` and `EnsureUniqueName` while it holds `nickMu`, so these are
two actions with `nickMu` taken in between; `RemoveSession` can run at any time.
`TryAddCapped` is written as the code is: evict by endpoint, evict by account,
test the cap, drop a session with the same id, insert. On a refusal the evictions
stay and the cached slice is not rebuilt; that this is harmless is a theorem.

A session is a pointer in Go. Here it is a record with the number of its
handshake; the session id is that number modulo `IdSpace` (2^32 in the code, 3 in
the run), so that ids recur while older sessions are live. Names are abstract;
`Suffixed(base, n)` is the name the code builds with `~n`, and the run uses names
that are already as long as the field so that a suffix given by the server can
equal a name chosen by a player.

### SessionLifecycle

The registry is the abstract table here (the theorem `RegistryIsTable`). Every access of a
handler to registry, grid or sleepers is one action; a thread is a record with the step it
is at and what it has looked up. `worker[a]` is the worker of endpoint `a` inside a
handler, `tick` and `kick` are the other two goroutines. Decisions that depend on
positions and time (outside a safe zone, in combat, stale) are choices, except where the
code's own clock forbids them: a session whose packet has just been handled is not stale,
and a sleeper does not expire while it is being made.

### ItemLedger and ItemActionProtocol

The packets of a session are handled by one worker, so a handler is one action.
Its gates are the actions, in the code's order: unknown action code, echo from
the ring, stale id, rate, validity, database. The database is a choice between
commit, correction and refusal. `RecordRejection` has the difference between the
handlers: the container, stash and trade handlers record an early rejection, the
item handler does not.

`ItemActionProtocol` adds one client per player, a set of datagrams, the packet
number and the replay gate of `HandlePacket`. A datagram may be lost (never
received), duplicated or overtaken; the gate drops what is not newer than the
last one. Results are never removed from `replies`, so they too may be lost,
repeated and reordered; those of an item action may also be another player's broadcast
(`TakeOthersUpdate`, or `TakeReply` when the number is that of one's own action). Pending
stash and trade entries are dropped after their timeout notice (`Prune`); item entries
are dropped by age at the next send or item update, told or not (`Aged`, where the age is
a choice of how many of the oldest). `notified` is history.

### GroupManager

Every method is one action. `/invite` and `/accept` look sessions up before they
call the manager and have two and three steps. A departure is `Leave`,
`RemoveSession`, `ForgetSession` in the order of the code; an eviction has
removed the session first. `maxMembers` is chosen initially among the
configured limits.

### ReliableChannel

The methods of `AckQueue` run under its mutex and are one action each, except
`Tick`: it decides under the lock (`AckQueueTick`) and sends after the unlock
(`AckQueueResend`), while acknowledgements and purges go on. Which packets are due
is a choice. Handlers send and departures purge at any time, since they run in
other goroutines. `fate` says whether a packet is queued or how it left the map.
The client acknowledges a packet and then acts on it in one thread, one action;
`PollEvent` of the Lua thread has two steps, because the network thread may write
to the ring while it copies. `fifo` and `copies` are history: what the ring should
contain, and how often the server has sent a packet.

### ItemStore

The database has one connection, so a transaction is one action; a handler is a sequence
of transactions and sends. The gates of the ledger are in `ItemLedger` and are passed
here. An inventory is a sequence of rows per section, as in the table: removal consumes
rows of the preferred condition first (what is `Left` in a row depends on the copies
`Ahead` of it) and reports the condition of the first one, credit merges with the first
row of the same condition. A pickup has two steps (look, take), a store or take of a stash
two (find, transact), a broadcast one per receiver, an arrival two (read the level's
items, send them), and the sweep tells its removals one by one. `sees` and `told` are what
the client was sent. Who is within the radius of an item is a choice: an arrival may be
out of range of any items (its position is still that of the level it left), a walk may
take a player out of range (`WalkAway`), and a player who loads his level again is sent
nothing (`ReloadLevel`). `away` is history: the items a player has been out of range of,
or has unloaded, since he came to the level. A player leaves between his own handlers.
`outside` is history too: copies traders have given out, with the opposite sign of those
used up, sold or expired.

Methods without a caller in the server (`BuyItem`, `SellItem`, `AddCurrency`,
`SetTier`, `SaveStash`) are left out. Nothing writes a stash's owner or passcode, so
`ValidateAccess` only tests level and distance.

### CharacterStore

One account. The worker of its endpoint, another worker (or the administrator) and
the game loop each have a program counter; a database call and a section under the
session's lock are one action each. Of position and health the model keeps whether
the health is positive, which is what `dead` has to agree with. `Flush`, `Save`,
`Sleep` and `Remove` are shared steps and `AfterFlush` has the order in which each
handler takes them: disconnect, kick, timeout, kill, the kill of a sleeper and its
expiry differ only in that. `QueueWrite` drops when the queue is full and panics
when it is closed, as a Go channel does.

### Combat

Time is counted in ticks and kept as ages (how long ago a hit or a swing was).
Positions are reduced to what is asked of them: the range to the puppet, and whether
the player is in a safe zone. A player who moves and one who fires are enough for the
races: `Fire` reads the attacker's side, `Validate` the target's, `Apply` changes the
health, and moves, travel and ticks come in between. The FSM is a function from
squad and views to squad and swing; a tick copies the views first, so the FSM acts on
a state that is a few steps old. Its `alert` branch that takes up the old target is
unreachable, since `stepAlert` drops the target; `PursuitSound` says so. `dealt` and
`swings` are history.

### Visibility

Each handler's broadcasts are loops over the other sessions: the level of one is read
under its lock and the packet sent afterwards. `shown` is what a client shows. The tick's
pass over the sessions has the two records of the code, `visible` (the hysteresis) and
`entries` (the edges of `AoIManager`), which are changed at different moments by tick,
departure and level change. A client that loads a level forgets what it showed, also when
it is the level it was on; it may also report its level without having loaded it. A
transform may carry no game vertex. `lapsed`, `forgot` and `crossed` are history, for what
the server does not repair: a player had no vertex since he was announced; who was on the
screen when the level was loaded again; whose screen shows the puppet by an enter that
crossed its leave or a level report. `Roamer`, `Shooter`, `Announcer` and `Quitter` give
the players their parts. Packets arrive in order; `ReliableChannel` is about those that do
not. The two modules share a proof module, what reaches the clients, hence the names
`InitVisibility`, `NextVisibility` and `SpecVisibility`.

## 3. The runs

| Run | Instance | Shows |
|---|---|---|
| `session_manager` | 3 endpoints, 3 accounts, cap 2, 3 ids, 4 handshakes | types, consistency of the indexes, cap, distinct names, harmless refusal, refinement of `SessionTable` |
| `session_lifecycle` | 2 endpoints, 2 accounts in every combination, 2 sessions, tick, kick and attacks | a live player who has a character is in the grid when all handlers are done |
| `session_reconnect` | 3 accounts that keep to their endpoint (two share one), cap 1, 3 sessions, without kick, timeout and attack | no ghost in the grid, no player beside his sleeper, no sleeper outside the grid |
| `item_ledger` | one session, any item packets, 3 ids, ring of 2, 6 packets | at most once, truthful cache, monotone floor |
| `item_action_protocol` | one client, 2 actions, one resend, item and trade, one level load; or 2 clients, one action each with the same ActionID, item or trade, one resend | no action is committed twice, a trade is confirmed only by its own commit whatever item updates arrive, recorded answers are final, no trade is dropped without a word |
| `item_store` | 2 players, 2 levels, one section in 2 conditions, one drop, one stash with one entry, one copy given out, walks out of range and reloads | conservation, truthful answers, arrivals, drops, pickups and the sweep that cross hide no item from a player who was in its range, one stash per position |
| `character_store` | 2 handshakes, a queue of one | a death is stored until the respawn; a shutdown ends |
| `combat` | a puppet hostile to both players, one who moves and travels, and one who fires from out of its sight or is its second target; a budget of 3 with hits of 2, a window of 2 ticks, a cooldown of 4 | budget, swings a cooldown apart although the puppet loses one target, alerts and finds the other in between, target exactly in pursuit, no resurrection, corpses and alerts end, the safe-zone flag settles |
| `visibility` | 2 players, 2 levels, who meet on a server without puppets; or a puppet that both may hit, without announcements of players; both travel and reload, one roams and leaves | peers are shown but for two gaps, a puppet in range is shown in the end, a released one is left only on screens its enter crossed, the tracking of the departed goes |
| `reliable_channel` | 2 clients, 2 packets, one retry, one duplicate, a ring of 3 slots | acknowledgements are true, a packet is given up after all its retries and not before, the ring is a queue, the queue drains |
| `group_manager` | 3 sessions, limits 2 and 3, one departure | types, map and rosters agree, leader, size |

The bounds are the smallest at which the cases occur: a cap below the number of endpoints
(refusals), fewer ids than handshakes (recurring ids), a ring smaller than the packets
(overwritten results), a party limit below the number of players (a full party) and one
equal to it (a party that goes on after a member left), a stack of two against a kit of
one (too few copies), a stash that is full with one entry, a queue that is full with one
job, two sessions of one account (an old one that is still being written), a budget that
is not a multiple of the hit (a hit that is cut), one reported damage above the ceiling.
In `item_store` two players race for one drop with the sweep, and either may arrive, walk
away or reload while the other drops it. A cooldown of 4 leaves room for a swing, the loss
of the target, a tick of alert and a new target within it (with 2 there is none).

Three MC modules run two scenarios side by side, named by a variable `part` that the
first state chooses, since their product is beyond TLC: `MCItemActionProtocol` one player
with several actions and a level load, or two players with one action each; `MCCombat` a
second player who fires from out of the puppet's sight (the mover then goes straight in
and out of reach), or who stands before it; `MCVisibility` players who are announced to
each other without a puppet, or a puppet without announcements. The two halves of
`Visibility` share only the players' travels and departures. The theorems of section 4
have no such restriction.

Deadlock is checked in `combat`, where the game loop goes on for ever. Elsewhere the bounds
on handshakes, packets, groups and drops, or the shutdown, let the model come to rest.

### Disagreements between code and documentation

One run is expected to fail; `PROJECT.json` quotes the lines it disagrees with.

`ledger_cross_opcode` violates `AtMostOnce`, which a document states. The floor is *set*,
not raised: a stale trade is refused and recorded, the floor falls to its id, and ids
above it that were used under the item opcode can be applied again under another one.

The models have these as well, without a run of their own:

* **Broadcast updates.** The update of a drop or a pickup goes to every player in range with
  its actor's ActionID (`game/item_ledger.go:578`), and every client counts from 1. A player
  who has an item action of that number under way takes the update for the answer to his
  own (`src/gamedata/scripts/zone_net.script:1513`, "Our own drop"): he stops resending it,
  and does not show the other's item. Stash and trade actions have results and tables of
  their own, and `MapActionConfirmed` is about those.
* **Puppet ghosts.** `release` says that "no ghost entity ID can be re-sent"
  (`game/ai_replication.go:157`). `broadcastPuppetHealth` reads who tracks the puppet and
  sends its enter afterwards, without looking again (`game/ai_combat.go:241`). If its worker
  is delayed for longer than a corpse lies, the puppet may have been killed by another hit,
  left and released in between, and is put back on a screen that nothing clears.
  `ReleasedUnseen` excepts these (`crossed`).
* **Level load.** It restarts the script and its counter (`zone_net.script:31`), and
  the server answers the new actions from the results of the old ones; `:735` calls the
  ids monotonic per session. `MapActionConfirmed` holds until the first level load.
* **Aged actions.** An item action is dropped 30 s after it was sent, at the next send or
  item update (`zone_net.script:693`), also when its resends were not used up (they stop
  while the game is paused or not connected) and no notice was shown. `EveryActionResolves`
  is about stash and trade actions, whose entries are dropped only after the notice.
* **Lost vertex.** A client sends 0 while it has no game vertex (`zone_net.script:2868`),
  and the server stores it (`game/server.go:747`). A newcomer's tour passes such a player
  by (`:1643`), and when his vertex is back he counts as announced (`:1573`). `PeersSeen`
  excepts him (`lapsed`).
* **Reported again.** After a load of the level one is on, the client reports it
  (`zone_net.script:2608`, `:2710`) and shows nothing, but the server resends neither peers
  nor world items (`game/server.go:1079`); `docs/LEVEL_TRAVEL.md:41` says so of repeated
  reports. `PeersSeen` and `NobodyMissesAnItem` except what was unloaded (`forgot`, `away`).
  If the client reports its level without a load, both records of a puppet are dropped and
  its screen keeps it; should the puppet then go, or stay between the two radii, no leave
  is sent (`crossed`).
* **Out of range.** World items are told to players within 220 m at the drop or the arrival
  (`game/item_ledger.go:600`, `game/server.go:1463`). Who walks up later is not told; an
  arrival is measured by the position from before the load. `NobodyMissesAnItem` excepts
  them (`away`).
* **Reclaim.** A handshake from a new endpoint that overlaps the disconnect of the old
  one looks for the sleeper before it exists (`game/server.go:552`). The player is then
  online beside his own body, which saves its state over his when it expires. `OneBody`
  holds for players who keep to their endpoint.
* **Party ghost.** The inviter departs between the online check and `Accept`
  (`game/groups.go:442`), which then makes him leader of a party he is never removed
  from.
* **Shutdown.** `cmd/server/main.go:108` says there are "no more write producers" once
  the game loop has ended. Nobody waits for the listener's workers; a transform that
  crosses the border of a safe zone writes to the closed channel and the process
  panics. `ShutdownEnds` therefore allows a crash.
* **Conditions.** `database/db.go:632` says "a low-condition stack cannot be laundered
  into a high-condition world item". A drop that consumes several rows gets the
  condition of the first one (`RemoveItems`), so copies of a worn row can become a
  better item. Copies are conserved, conditions are not.
* **Peer ghosts.** An announcement that is sent after its receiver's level was read
  reaches a player who has travelled since; the leave for the old level has been sent
  before it.

Smaller ones: a handshake that the cap refuses has already taken the player's sleeper
out of the world; the kick or the timeout of a session beside its disconnect leaves a
sleeper outside the grid; an attack between the two steps that make a sleeper leaves
its entity in the grid; a takeover from another endpoint while a transform is being
handled leaves the old entity in the grid (`NoGhost` fails outside the instance of
`session_reconnect`); an invitation is recorded after its target's cleanup; an item
action that was refused for its rate is handled as new when its resend arrives; a
world item that is taken between the arriving player's read and his list is shown
though it is gone; the swing of a puppet that was killed after its step still lands;
neither side of a hit has to be alive. A queued transform may overwrite a newer
flush, a full queue drops a transform whose `Dirty` flag is then cleared, and an
eviction does not flush: positions may go back, which
`src/zone-server/docs/PRODUCTION_READINESS.md` accepts for a checkpoint window.

### Fairness

`EveryActionResolves` assumes weak fairness of the client's retransmission, which the
script runs on every frame while it is connected; nothing is assumed of the network or the
server. A level load, which forgets the pending actions, counts as an end. `QueueDrains`
assumes that the tick finishes its sends and that a packet which stays queued is due in
some later tick: the game loop ticks at a fixed rate and the interval of a packet is half
a second. Nothing is assumed of clients and network. `ShutdownEnds` assumes that the
write-behind goroutine and main are scheduled. `Combat` assumes only that the game loop
goes on (its ticker never stops before the shutdown): `CorpseGoes`, `AlertEnds` and
`FlagSettles` need nothing of the players. `Visibility` assumes the same, and that a
handler that has begun runs to its end; `PuppetSeen` is about a player who stays in range
and reports no more levels.

## 4. The proofs

`SessionManagerProofs`, for any sets of endpoints, accounts and names, any cap,
any number of ids and handshakes. Assumptions: the constants' types, and that two
suffixes of one base differ. The inductive invariant is `TypeOK`, the four parts of
`Consistent`, `CapRespected`, and that sessions being added are numbered below
the counter and not yet in the registry. The index properties need each other:
eviction by endpoint looks in the registry only when `byAddr` has an entry, so it
finds every conflict only if `byAddr` is complete, and the cache is right after a
refusal only because a refusal evicts nobody, which follows from the cap.

* `Typing`, `Consistency`, `Cap`: the invariant's parts.
* `Refusal`: if the cap refuses, both evictions were empty: an eviction frees a
  place, and the registry never holds more than the cap.
* `Naming`: the search for a suffix ends, because there are more suffixes than
  other live sessions (a counting argument with the finite-set theorems).
* `Refinement`: every action is a step of `SessionTable` or a stutter.

`ItemLedgerProofs`, first for the ledger alone: any players, payloads, ring size and
rate, and packets in any order, with the item opcode alone (with two opcodes the
statements are false, see above). The strengthening of `AtMostOnce` is `BelowFloor`:
whatever was committed has an id at or below the floor. For the cache it is `CacheInv`: a
cached id is at or below the floor as well, so that what is cached as refused cannot be
committed later.

* `ItemAtMostOnce`, `ItemFloorMonotone`, `ItemCache`.

Then for clients, network and replay gate, with any number of actions, resends,
datagrams and level loads:

* `ImplementsLedger`: every step of the protocol is a step of the ledger or leaves it
  alone. The theorems above carry over.
* `Confirmed`: a payload names one packet, and on the first level so does an ActionID
  (`ClientInv`); an "ok" for a stash, container or trade action that was sent or is cached
  stands for a commit of this player (`Honest`), which cannot be said of item updates, as
  others are told them too. It has no hypothesis but the constants' types.
* `Commits`, with item actions alone, by `ItemAtMostOnce`.

`GroupManagerProofs`, for any number of sessions, groups and departures and any limits.
The invariant has two halves: `Parties` (types, finite rosters, `RosterExact`,
`LedByMember`, `SizeBounds`, which together are `PartiesSound`) and `Letters` (an
invitation is from another session, so `Accept` never makes a party of a player and
himself). Exactness is needed for the sizes and the other way round: a dissolution
releases everybody only if the roster is exact.

* `Typing`, `WellFormed`.

`DeliveryProofs`, first for `ReliableChannel`: any number of clients and packets, any
retry limit and any ring size. The invariant has an account for each packet: its copies
are one plus its retries, less one while the tick still has to send it. Without the last
term the copies are not inductive, since the retry is counted under the lock and sent
after it. For the ring, `Holds` says that the slots from tail to head are the queue and
that there are fewer than `RingSize`, and `Copying` that the packet being copied is still
the oldest one: the writer stops one slot short of the tail, and only the reader moves the
tail.

* `Acknowledged`, `Retransmission`, `Ring`.

Then for `Visibility`, any sets of players and levels and any roles; it is assumed that
the names of the puppet and of "no level" are not those of a player or a level. That
players see each other holds only between handlers. `Seen` says how an announceable player
on one's level gets to be shown while neither departs, if he has had a vertex since he was
announced and was not forgotten in a reload: his handler is about to tell one of him
(`Tells`: its loop has not begun, or has one on its list, or is about to send), or one's
own handler is about to meet him (`Meets`). A player who is about to leave his level or
the server (`Departs`) is exempt until he has been reset or removed. Two facts make it
inductive: a session that was announced stays announceable until it travels or its vertex
lapses (`PlayerOf`), so that a transform that announces nobody has nobody to announce; and
an announcement or a tour carries the level its session is still on (`HandlerOf`), so that
a peer who is passed over is on another level or comes later with a handler of his own.
For the puppet, `Tracking` says that once its squad is gone the pass finds it out of range
of all, so that only the sessions whose views are left, or who are being sent the leave,
are still tracked. `Followed` ties the record to the screens: whoever shows the puppet and
is not in `crossed` is tracked, and neither the tick nor a handler of his is about to
forget it (`~Crosses`); who has not joined takes no part in a tick. With the release
nobody is tracked, which leaves `crossed`.

* `PeersAreSeen`, `NobodyIsLeftBehind`.

`SessionLifecycleProofs`, for any endpoints, accounts and sessions, any cap, and every
interleaving of workers, tick and kick. That a live player is in the grid holds only
between handlers. The invariant says who is responsible for one that is not: a thread
that is about to insert it or to take it out of the registry. A thread that removes an id
from the grid must therefore have one that is not live or whose owner is leaving, and this
is stable because an id that was seen never enters the registry again.

* `Presence`, with timeouts, kicks and attacks.
* `RegistryIsTable`, under no hypothesis but the constants' types: the registry
  of these handlers implements `SessionTable`, with a session identified by its number,
  endpoint and account. An admitted handshake is a `Join`, each removal a `Leave`. The cap
  (`Capped`) is needed: a handshake that is refused keeps its evictions, and is a stutter
  only because a full registry within its cap has no session to displace. With `Refinement`
  of `SessionManagerProofs` this joins the two modules: the locked methods implement the
  table, and so does the registry that the goroutines of `SessionLifecycle` share.
* `OneSessionEach`, from it: no two sessions of the registry have one endpoint or account.

`CharacterStoreProofs`, for any number of sessions and any capacity of the queue. The
goroutine that causes a death stores it several steps later: `DeathPending` says that
until the row is dead some goroutine is on its way to the save. What it will decide
depends on the health of the session object it has hit, so that object must not be
healed meanwhile: only a handshake sets the health, of a session that nobody else has
seen (`Unregistered`).

* `Deaths`.

`ItemStoreProofs`, for any levels, positions, sections and bounds and finite sets of
players and conditions. Three invariants build on each other.

* `Storing`, from `OnePerPosition`: a store makes a stash only after it found none in the
  same transaction, and deposits and withdrawals change contents only.
* `Showing`, from `SInv`: for every item and player on its level, he sees it, or the worker
  that dropped it still has him on its list, or his own arrival has yet to read the level's
  items or has read this one, or it is among the items he was away from; ids are never used
  twice, so no late removal hides a new item.
* `Conserving`, `Telling`, from `CInv`: the copies of a section in inventories, world and
  stashes add up to what was given out. The sums are folds over sets. The proof first shows
  that the recursion of a fold has a solution on a finite set and that an element can be
  taken out of a sum (induction over the cardinality, by a least counterexample among the
  natural numbers, since the library's induction rules cannot be instantiated). Then it
  shows what a removal and a credit do to the total of the rows: rows are taken out in the
  order in which they are consumed, and each initial segment of that order has lost
  exactly what it should. `Kit` is assumed to be rows of positive counts; the rest of the
  assumptions are the constants' types.

`CombatProofs`, for any players, budget, window, cooldown and damage. The budget is a sum
over the ages of the window, and the same lemmas on folds show that a hit adds to one age
what the code charges and that a tick can only drop the oldest. A living puppet remembers
its last swing (`Spaced`), also across changes of its state. Every step of the FSM yields
a state with a target exactly in pursuit, whichever stale views it acts on.

* `Budget`, `Spacing`, `Pursuit`, `DeadStays`.

Only model-checked: liveness (`EveryActionResolves`, `QueueDrains`, `ShutdownEnds`,
`CorpseGoes`, `AlertEnds`, `FlagSettles`, `PuppetSeen`, `TrackingReaped`), since fairness
and ENABLED are beyond the prover; `RecordedAnswerIsFinal`, in a run whose ring holds all
actions (once the ring has wrapped, only the floor is left, which another opcode can
lower); and `NoGhost`, `OneBody` and `SleeperInGrid`, in a run whose accounts keep to
their endpoint, without kick, timeout and attack (section 3 has what happens otherwise).
`AtMostOnce`, `CacheSound` and `FloorMonotone` are proved for the item opcode, as the run
has it, and `CommitsSound` for item actions. The other safety properties of the passing
runs are proved as they are stated. The modules have no RECURSIVE operators.

## 5. What is not modelled

* Positions, distances, paths and lines of sight (floating point): what depends on
  them is a choice, and the line-of-sight package, steering and the cells of the grid
  are left out.
* The binary encoding of packets and the 16-bit clamp of counts in answers.
* SQL: a statement or a transaction is what it does to the rows.
* The emission (a timer that broadcasts a phase), the goodwill table (read only),
  chat and heartbeats, the token buckets of the listener.
* Snapshots of positions: unreliable, each replaced by the next.
* Sessions beside the queue of `ReliableChannel`: a kick purges before it enqueues its
  own disconnect, and a timeout may purge packets of a successor.
* Handlers that record a result after their session's cleanup; `ItemLedger` handles a
  packet in one step.
* Menus and HUD, the injector and the offline tools.

## 6. Plan

1. Registry: `SessionTable`, `SessionManager`, proofs. *Done.*
2. Items: `ItemLedger`, `ItemActionProtocol`, proofs of both. *Done.*
3. Lifecycle and parties: `SessionLifecycle`, `GroupManager`, proofs of both. *Done.*
4. Delivery: `ReliableChannel`, proofs. *Done.*
5. Stores: `ItemStore`, `CharacterStore`, proofs. *Done.*
6. World: `Combat`, `Visibility`, proofs of both. *Done.*

What a further step would add: sessions beside the queue of `ReliableChannel`, with the
order in which each departure purges and sends, and handlers of `ItemLedger` in two steps.
