--------------------------- MODULE SessionLifecycle ---------------------------
(***************************************************************************)
(* The life of a session across the goroutines of the server               *)
(* (game/server.go): the packet workers, the game loop's Tick and the      *)
(* administrator's kick, each a sequence of steps on three shared          *)
(* structures that have a mutex of their own and no common one:            *)
(*                                                                         *)
(*   - `live`, the session registry, as SessionTable specifies it;         *)
(*   - `grid`, the entities of the SpatialGrid;                            *)
(*   - `sleepers`, the SleeperManager: bodies of players who left outside  *)
(*     a safe zone or in combat, one per account, under the id of the      *)
(*     session they come from.                                             *)
(*                                                                         *)
(* The worker of an endpoint handles its packets one after the other;      *)
(* workers of different endpoints, the tick and a kick interleave between  *)
(* any two accesses to the shared structures.  Session ids are not reused  *)
(* here: SessionManager has the wrap-around of the counter.                *)
(***************************************************************************)
EXTENDS Integers, FiniteSets

CONSTANTS
  Addr,        \* UDP endpoints
  Account,     \* account UUIDs
  From,        \* the <<endpoint, account>> pairs that occur in handshakes
  Actors,      \* which of "stale", "kick", "attack" take part
  MaxPlayers,  \* the cap; 0 means uncapped
  MaxSessions  \* bound on the number of handshakes

ASSUME FromAssumption == From \subseteq Addr \X Account
ASSUME ActorsAssumption == Actors \subseteq {"stale", "kick", "attack"}
ASSUME MaxPlayersAssumption == MaxPlayers \in Nat
ASSUME MaxSessionsAssumption == MaxSessions \in Nat

Id == 1 .. MaxSessions
None == 0

VARIABLES
  seq,       \* sessionIDSeq
  who,       \* endpoint and account of every session made so far
  creating,  \* sessions with PendingCreate set
  created,   \* accounts whose character is complete (ProfileRev = 1)
  live,      \* sessions in the registry
  grid,      \* ids in the spatial grid
  sleepers,  \* ids of the sleepers
  worker,    \* what the worker of each endpoint is doing
  tick,      \* what the game loop is doing
  kick       \* what the administrator's goroutine is doing

vars == <<seq, who, creating, created, live, grid, sleepers, worker, tick, kick>>

(***************************************************************************)
(* A thread is at a step `pc` of the handler it runs for session `s`.      *)
(* `sleeper` is the sleeper the handler has looked up, `todo` the sessions *)
(* or sleepers it has still to clean up after, `flag` a decision it took   *)
(* earlier: the handshake was admitted, the leaving player gets a sleeper. *)
(***************************************************************************)
Idle == [pc |-> "idle", s |-> None, sleeper |-> None, todo |-> {}, flag |-> FALSE]

AccountOf(n) == who[n].account
AddrOf(n) == who[n].addr
GetByAddr(a) == {n \in live : AddrOf(n) = a}
GetSleeperByAccount(acc) == {n \in sleepers : AccountOf(n) = acc}

\* The one sleeper of an account is replaced; the grid is not told of the old one.
CreateSleeper(n) ==
  sleepers' = (sleepers \ GetSleeperByAccount(AccountOf(n))) \cup {n}

Init ==
  /\ seq = 0
  /\ who = [n \in Id |-> [addr |-> None, account |-> None]]
  /\ creating = {}
  /\ created \in SUBSET Account
  /\ live = {}
  /\ grid = {}
  /\ sleepers = {}
  /\ worker = [a \in Addr |-> Idle]
  /\ tick = Idle
  /\ kick = Idle

\* The worker of a is at step pc; it goes on with the fields of w.
At(a, pc) == worker[a].pc = pc
Goto(a, pc) == worker' = [worker EXCEPT ![a].pc = pc]
Done(a) == worker' = [worker EXCEPT ![a] = Idle]
Begin(a, w) == worker[a] = Idle /\ worker' = [worker EXCEPT ![a] = w]

GridInsert(n) == grid' = grid \cup {n}
GridRemove(n) == grid' = grid \ {n}

(***************************************************************************)
(* OpHandshakeReq.                                                         *)
(***************************************************************************)
\* The session is built from the stored character, if there is one.
Handshake(a, acc) ==
  /\ <<a, acc>> \in From
  /\ seq < MaxSessions
  /\ seq' = seq + 1
  /\ who' = [who EXCEPT ![seq + 1] = [addr |-> a, account |-> acc]]
  /\ creating' = IF acc \in created THEN creating ELSE creating \cup {seq + 1}
  /\ Begin(a, [Idle EXCEPT !.pc = "look", !.s = seq + 1])
  /\ UNCHANGED <<created, live, grid, sleepers, tick, kick>>

LookForSleeper(a) ==
  LET found == GetSleeperByAccount(AccountOf(worker[a].s))
  IN /\ At(a, "look")
     /\ IF found = {}
        THEN Goto(a, "add")
        ELSE \E n \in found :
               worker' = [worker EXCEPT ![a].pc = "reclaim", ![a].sleeper = n]
     /\ UNCHANGED <<seq, who, creating, created, live, grid, sleepers, tick, kick>>

\* Mutant: the player joins beside the body.
MutReclaim(a) ==
  /\ At(a, "reclaim")
  /\ Goto(a, "reclaimGrid")
  /\ UNCHANGED <<seq, who, creating, created, live, grid, sleepers, tick, kick>>

\* The player takes over the body: RemoveSleeper, then the grid.
Reclaim(a) ==
  /\ At(a, "reclaim")
  /\ sleepers' = sleepers \ {worker[a].sleeper}
  /\ Goto(a, "reclaimGrid")
  /\ UNCHANGED <<seq, who, creating, created, live, grid, tick, kick>>

ReclaimGrid(a) ==
  /\ At(a, "reclaimGrid")
  /\ GridRemove(worker[a].sleeper)
  /\ creating' = creating \ {worker[a].s}
  /\ Goto(a, "add")
  /\ UNCHANGED <<seq, who, created, live, sleepers, tick, kick>>

Conflicts(n) ==
  {m \in live \ {n} : AddrOf(m) = AddrOf(n) \/ AccountOf(m) = AccountOf(n)}

\* Mutant: the evicted sessions are not returned to the handshake.
MutTryAddCapped(a) ==
  LET n == worker[a].s
      stay == live \ Conflicts(n)
      full == MaxPlayers > 0 /\ Cardinality(stay) >= MaxPlayers
  IN /\ At(a, "add")
     /\ live' = IF full THEN stay ELSE stay \cup {n}
     /\ worker' = [worker EXCEPT ![a].pc = "evict", ![a].flag = ~full]
     /\ UNCHANGED <<seq, who, creating, created, grid, sleepers, tick, kick>>

TryAddCapped(a) ==
  LET n == worker[a].s
      stay == live \ Conflicts(n)
      full == MaxPlayers > 0 /\ Cardinality(stay) >= MaxPlayers
  IN /\ At(a, "add")
     /\ live' = IF full THEN stay ELSE stay \cup {n}
     /\ worker' = [worker EXCEPT ![a].pc = "evict", ![a].todo = Conflicts(n),
                                 ![a].flag = ~full]
     /\ UNCHANGED <<seq, who, creating, created, grid, sleepers, tick, kick>>

\* cleanupEvictedSession
CleanupEvicted(a, m) ==
  /\ At(a, "evict") /\ m \in worker[a].todo
  /\ GridRemove(m)
  /\ worker' = [worker EXCEPT ![a].todo = @ \ {m}]
  /\ UNCHANGED <<seq, who, creating, created, live, sleepers, tick, kick>>

\* Mutant: the returning player is not put into the grid.
MutFinishHandshake(a) ==
  /\ At(a, "evict") /\ worker[a].todo = {}
  /\ Done(a)
  /\ UNCHANGED <<seq, who, creating, created, live, grid, sleepers, tick, kick>>

\* A refused handshake ends here; a new player enters the grid on character
\* selection, a returning one now.
FinishHandshake(a) ==
  /\ At(a, "evict") /\ worker[a].todo = {}
  /\ IF worker[a].flag /\ worker[a].s \notin creating
     THEN GridInsert(worker[a].s)
     ELSE UNCHANGED grid
  /\ Done(a)
  /\ UNCHANGED <<seq, who, creating, created, live, sleepers, tick, kick>>

(***************************************************************************)
(* OpDisconnect.                                                           *)
(***************************************************************************)
Disconnect(a, leaveBody) ==
  /\ \E n \in GetByAddr(a) :
       Begin(a, [Idle EXCEPT !.pc = "leaveGrid", !.s = n, !.flag = leaveBody])
  /\ UNCHANGED <<seq, who, creating, created, live, grid, sleepers, tick, kick>>

DisconnectGrid(a) ==
  /\ At(a, "leaveGrid")
  /\ GridRemove(worker[a].s)
  /\ Goto(a, IF worker[a].flag THEN "sleep" ELSE "leave")
  /\ UNCHANGED <<seq, who, creating, created, live, sleepers, tick, kick>>

DisconnectSleeper(a) ==
  /\ At(a, "sleep")
  /\ CreateSleeper(worker[a].s)
  /\ Goto(a, "sleepGrid")
  /\ UNCHANGED <<seq, who, creating, created, live, grid, tick, kick>>

\* Mutant: the sleeper is not put into the grid.
MutDisconnectSleeperGrid(a) ==
  /\ At(a, "sleepGrid")
  /\ Goto(a, "leave")
  /\ UNCHANGED <<seq, who, creating, created, live, grid, sleepers, tick, kick>>

DisconnectSleeperGrid(a) ==
  /\ At(a, "sleepGrid")
  /\ GridInsert(worker[a].s)
  /\ Goto(a, "leave")
  /\ UNCHANGED <<seq, who, creating, created, live, sleepers, tick, kick>>

DisconnectRemove(a) ==
  /\ At(a, "leave")
  /\ live' = live \ {worker[a].s}
  /\ Done(a)
  /\ UNCHANGED <<seq, who, creating, created, grid, sleepers, tick, kick>>

(***************************************************************************)
(* OpClientTransform, OpLevelChange and OpCharacterSelect: the session is  *)
(* looked up by endpoint, and the grid is written some time later.         *)
(***************************************************************************)
Transform(a) ==
  /\ \E n \in GetByAddr(a) : Begin(a, [Idle EXCEPT !.pc = "lock", !.s = n])
  /\ UNCHANGED <<seq, who, creating, created, live, grid, sleepers, tick, kick>>

\* LastSeen is set under the session's lock: from here on it is not stale.
TransformSeen(a) ==
  /\ At(a, "lock")
  /\ Goto(a, "seen")
  /\ UNCHANGED <<seq, who, creating, created, live, grid, sleepers, tick, kick>>

LevelChange(a) ==
  /\ \E n \in GetByAddr(a) \ creating :
       Begin(a, [Idle EXCEPT !.pc = "move", !.s = n])
  /\ UNCHANGED <<seq, who, creating, created, live, grid, sleepers, tick, kick>>

CharacterSelect(a) ==
  /\ \E n \in GetByAddr(a) \cap creating :
       /\ Begin(a, [Idle EXCEPT !.pc = "move", !.s = n])
       /\ creating' = creating \ {n}
       /\ created' = created \cup {AccountOf(n)}
  /\ UNCHANGED <<seq, who, live, grid, sleepers, tick, kick>>

\* SpatialGrid.Update inserts an entity it does not know, as Insert does.
GridUpdate(a) ==
  /\ At(a, "seen") \/ At(a, "move")
  /\ GridInsert(worker[a].s)
  /\ Done(a)
  /\ UNCHANGED <<seq, who, creating, created, live, sleepers, tick, kick>>

(***************************************************************************)
(* OpDamageNotify that kills a sleeper.                                    *)
(***************************************************************************)
KillSleeper(a) ==
  /\ "attack" \in Actors
  /\ GetByAddr(a) # {}
  /\ \E n \in sleepers : Begin(a, [Idle EXCEPT !.pc = "kill", !.sleeper = n])
  /\ UNCHANGED <<seq, who, creating, created, live, grid, sleepers, tick, kick>>

KillRemove(a) ==
  /\ At(a, "kill")
  /\ sleepers' = sleepers \ {worker[a].sleeper}
  /\ Goto(a, "killGrid")
  /\ UNCHANGED <<seq, who, creating, created, live, grid, tick, kick>>

KillGrid(a) ==
  /\ At(a, "killGrid")
  /\ GridRemove(worker[a].sleeper)
  /\ Done(a)
  /\ UNCHANGED <<seq, who, creating, created, live, sleepers, tick, kick>>

Worker(a) ==
  \/ \E acc \in Account : Handshake(a, acc)
  \/ LookForSleeper(a)
  \/ Reclaim(a)
  \/ ReclaimGrid(a)
  \/ TryAddCapped(a)
  \/ \E m \in worker[a].todo : CleanupEvicted(a, m)
  \/ FinishHandshake(a)
  \/ \E leaveBody \in BOOLEAN : Disconnect(a, leaveBody)
  \/ DisconnectGrid(a)
  \/ DisconnectSleeper(a)
  \/ DisconnectSleeperGrid(a)
  \/ DisconnectRemove(a)
  \/ Transform(a)
  \/ TransformSeen(a)
  \/ LevelChange(a)
  \/ CharacterSelect(a)
  \/ GridUpdate(a)
  \/ KillSleeper(a)
  \/ KillRemove(a)
  \/ KillGrid(a)

(***************************************************************************)
(* Tick: the sleepers, then the sessions of a snapshot of the registry.    *)
(***************************************************************************)
\* A sleeper lives for 30 seconds, longer than the handler that makes it runs.
BeingMade(n) == \E a \in Addr : At(a, "sleepGrid") /\ worker[a].s = n

\* Every sleeper whose time is over leaves the map at once...
SleepersExpire(X) ==
  /\ tick = Idle
  /\ X # {} /\ X \subseteq sleepers
  /\ \A n \in X : ~BeingMade(n)
  /\ sleepers' = sleepers \ X
  /\ tick' = [Idle EXCEPT !.pc = "expire", !.todo = X]
  /\ UNCHANGED <<seq, who, creating, created, live, grid, worker, kick>>

\* ... and the grid in the callbacks, one by one.
SleeperExpireGrid(n) ==
  /\ tick.pc = "expire" /\ n \in tick.todo
  /\ GridRemove(n)
  /\ tick' = IF tick.todo = {n} THEN Idle ELSE [tick EXCEPT !.todo = @ \ {n}]
  /\ UNCHANGED <<seq, who, creating, created, live, sleepers, worker, kick>>

TickSessions ==
  /\ "stale" \in Actors
  /\ tick = Idle
  /\ live # {}
  /\ tick' = [Idle EXCEPT !.pc = "sessions", !.todo = live]
  /\ UNCHANGED <<seq, who, creating, created, live, grid, sleepers, worker, kick>>

\* A session whose packet or handshake is being handled was just seen.
JustSeen(n) == \E a \in Addr : worker[a].pc \in {"seen", "evict"} /\ worker[a].s = n

NextSession(n) ==
  LET rest == tick.todo \ {n}
  IN IF rest = {} THEN Idle ELSE [Idle EXCEPT !.pc = "sessions", !.todo = rest]

TickAlive(n) ==
  /\ tick.pc = "sessions" /\ n \in tick.todo
  /\ tick' = NextSession(n)
  /\ UNCHANGED <<seq, who, creating, created, live, grid, sleepers, worker, kick>>

TickStale(n, leaveBody) ==
  /\ tick.pc = "sessions" /\ n \in tick.todo
  /\ ~JustSeen(n)
  /\ tick' = [tick EXCEPT !.pc = "staleGrid", !.s = n, !.flag = leaveBody]
  /\ UNCHANGED <<seq, who, creating, created, live, grid, sleepers, worker, kick>>

StaleGrid ==
  /\ tick.pc = "staleGrid"
  /\ GridRemove(tick.s)
  /\ tick' = [tick EXCEPT !.pc = "staleRemove"]
  /\ UNCHANGED <<seq, who, creating, created, live, sleepers, worker, kick>>

StaleRemove ==
  /\ tick.pc = "staleRemove"
  /\ live' = live \ {tick.s}
  /\ tick' = IF tick.flag THEN [tick EXCEPT !.pc = "staleSleep"] ELSE NextSession(tick.s)
  /\ UNCHANGED <<seq, who, creating, created, grid, sleepers, worker, kick>>

StaleSleeper ==
  /\ tick.pc = "staleSleep"
  /\ CreateSleeper(tick.s)
  /\ tick' = [tick EXCEPT !.pc = "staleSleepGrid"]
  /\ UNCHANGED <<seq, who, creating, created, live, grid, worker, kick>>

StaleSleeperGrid ==
  /\ tick.pc = "staleSleepGrid"
  /\ GridInsert(tick.s)
  /\ tick' = NextSession(tick.s)
  /\ UNCHANGED <<seq, who, creating, created, live, sleepers, worker, kick>>

Tick ==
  \/ \E X \in SUBSET sleepers : SleepersExpire(X)
  \/ \E n \in tick.todo : SleeperExpireGrid(n)
  \/ TickSessions
  \/ \E n \in tick.todo : TickAlive(n)
  \/ \E n \in tick.todo, leaveBody \in BOOLEAN : TickStale(n, leaveBody)
  \/ StaleGrid
  \/ StaleRemove
  \/ StaleSleeper
  \/ StaleSleeperGrid

(***************************************************************************)
(* KickSession, from the administrator's console or BanPlayer.             *)
(***************************************************************************)
KickSession(n) ==
  /\ "kick" \in Actors
  /\ kick = Idle /\ n \in live
  /\ kick' = [Idle EXCEPT !.pc = "kickGrid", !.s = n]
  /\ UNCHANGED <<seq, who, creating, created, live, grid, sleepers, worker, tick>>

KickGrid ==
  /\ kick.pc = "kickGrid"
  /\ GridRemove(kick.s)
  /\ kick' = [kick EXCEPT !.pc = "kickRemove"]
  /\ UNCHANGED <<seq, who, creating, created, live, sleepers, worker, tick>>

KickRemove ==
  /\ kick.pc = "kickRemove"
  /\ live' = live \ {kick.s}
  /\ kick' = Idle
  /\ UNCHANGED <<seq, who, creating, created, grid, sleepers, worker, tick>>

Kick ==
  \/ \E n \in live : KickSession(n)
  \/ KickGrid
  \/ KickRemove

Next ==
  \/ \E a \in Addr : Worker(a)
  \/ Tick
  \/ Kick

Spec == Init /\ [][Next]_vars
-----------------------------------------------------------------------------
(***************************************************************************)
(* Properties.                                                             *)
(***************************************************************************)
Quiet == (\A a \in Addr : worker[a] = Idle) /\ tick = Idle /\ kick = Idle

\* Types; a sleeper stands for a session that was made.
TypeOK ==
  /\ seq \in 0 .. MaxSessions
  /\ creating \subseteq 1 .. seq
  /\ created \subseteq Account
  /\ live \subseteq 1 .. seq
  /\ grid \subseteq 1 .. seq
  /\ sleepers \subseteq 1 .. seq
  /\ \A n \in 1 .. seq : <<AddrOf(n), AccountOf(n)>> \in From

\* Once every handler has finished, each live player who has a character is in
\* the spatial grid: no cleanup of an old session, sleeper or eviction ever
\* took the entry of the new one.
LiveInGrid == Quiet => live \ creating \subseteq grid

\* The types, and the players in the grid.
PlayersPresent == TypeOK /\ LiveInGrid

\* Once every handler has finished, each id in the grid is a live session or a
\* sleeper ("no group/grid ghost survives a same-address reconnect").
NoGhost == Quiet => grid \subseteq live \cup sleepers

\* Once every handler has finished, each sleeper is in the grid, where other
\* players can see and hit it.
SleeperInGrid == Quiet => sleepers \subseteq grid

\* Once every handler has finished, a player who is online has no sleeper: the
\* reconnect reclaimed it.
OneBody == Quiet => \A n \in live : GetSleeperByAccount(AccountOf(n)) = {}
=============================================================================
