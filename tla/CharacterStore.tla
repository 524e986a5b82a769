---------------------------- MODULE CharacterStore ----------------------------
(***************************************************************************)
(* How the state of a character reaches the characters table               *)
(* (game/server.go, game/sleeper_manager.go, database/db.go) and what a    *)
(* shutdown does to it (cmd/server/main.go).                               *)
(*                                                                         *)
(* The account has a character and one endpoint.  Three goroutines write   *)
(* its row: the worker of its endpoint ("own"), the worker of another      *)
(* player or the administrator ("other") and the game loop ("tick"); a     *)
(* fourth writes what the others leave in the write-behind queue.  A       *)
(* database call is one action, so is a section under a session's lock.    *)
(*                                                                         *)
(* Of position and health, which are written together, the model keeps     *)
(* whether the health is positive.  The flag Dirty, by which the           *)
(* checkpoint and the timeout skip sessions without news, is a choice.     *)
(***************************************************************************)
EXTENDS Integers, Sequences, FiniteSets

CONSTANTS
  QueueCap,    \* capacity of dbQueue, with the job that is being written; 1001 in the code
  MaxSessions  \* bound on handshakes

ASSUME QueueCapAssumption == QueueCap \in Nat \ {0}
ASSUME BoundAssumption == MaxSessions \in Nat

Thread == {"own", "other", "tick"}
Session == 1 .. MaxSessions
None == 0
Job == [kind: {"transform"}, alive: BOOLEAN] \cup {[kind |-> "stats"]}

VARIABLES
  row,      \* the characters row: health and dead
  queue,    \* dbQueue
  sess,     \* Health of the session objects: whether it is positive
  made,     \* the number of session objects
  live,     \* the registered session of the account, or None
  sleeper,  \* the sleeper of the account: its entity id, health and IsDead
  thread,   \* what the goroutines are doing
  phase,    \* of the process
  died      \* history: the character died and has not respawned since

vars == <<row, queue, sess, made, live, sleeper, thread, phase, died>>
storeVars == <<row, queue>>
bodyVars == <<sess, made, live, sleeper, died>>

(***************************************************************************)
(* A goroutine is at step pc of the operation op on session or sleeper n,  *)
(* with the health it has read; stays: a sleeper is to be left behind.   *)
(***************************************************************************)
Pc == {"idle", "respawn", "look", "reclaim", "register", "queue", "flush", "saveDead",
       "sleep", "remove", "removeSleeper", "hit", "check", "hitSleeper", "staleDirty",
       "staleClean"}
FlushOp == {"kill", "expire", "death", "killSleeper", "disconnect", "stale", "kick"}
Operation == FlushOp \cup {"none", "handshake", "move", "checkpoint"}
Idle == [pc |-> "idle", op |-> "none", n |-> None, alive |-> TRUE, stays |-> FALSE]
NoSleeper == [id |-> None, alive |-> TRUE, dead |-> FALSE]

Init ==
  /\ row = [alive |-> TRUE, dead |-> FALSE]
  /\ queue = <<>>
  /\ sess = [n \in Session |-> TRUE]
  /\ made = 0
  /\ live = None
  /\ sleeper = NoSleeper
  /\ thread = [t \in Thread |-> Idle]
  /\ phase = "running"
  /\ died = FALSE

Up == phase \in {"running", "draining"}
At(t, pc) == Up /\ thread[t].pc = pc
Goto(t, pc) == thread' = [thread EXCEPT ![t].pc = pc]
Done(t) == thread' = [thread EXCEPT ![t] = Idle]
GoOn(t, pc) == IF pc = "idle" THEN Done(t) ELSE Goto(t, pc)
\* A worker takes packets also when the context is cancelled: both cases of its select
\* are ready.  The game loop has returned when the queue is closed.
Free(t) == At(t, "idle") /\ (t = "tick" => phase = "running")
Begin(t, pc, op, n, alive, stays) ==
  thread' = [thread EXCEPT ![t] = [pc |-> pc, op |-> op, n |-> n, alive |-> alive,
                                   stays |-> stays]]

(***************************************************************************)
(* The database.                                                           *)
(***************************************************************************)
\* FlushPlayerTransform: neither level_name nor dead is written.
FlushPlayerTransform(alive) == row' = [row EXCEPT !.alive = alive]

\* SaveCharacter with Dead = 1 and Health = 0
SaveDead == row' = [row EXCEPT !.alive = FALSE, !.dead = TRUE]

\* QueueWrite: a send that does not wait.  On a closed channel it panics.
QueueWrite(job) ==
  IF phase = "draining"
  THEN phase' = "crashed" /\ UNCHANGED queue
  ELSE /\ queue' = IF Len(queue) < QueueCap THEN Append(queue, job) ELSE queue
       /\ UNCHANGED phase

\* Mutant: the goroutine stops when the channel is closed, not when it is empty.
MutWriteJob ==
  /\ phase = "running"
  /\ queue # <<>>
  /\ IF Head(queue).kind = "transform" THEN FlushPlayerTransform(Head(queue).alive)
     ELSE UNCHANGED row
  /\ queue' = Tail(queue)
  /\ UNCHANGED <<bodyVars, thread, phase>>

\* The write-behind goroutine of StartWriteQueue.  Play time is not in the model.
WriteJob ==
  /\ Up
  /\ queue # <<>>
  /\ IF Head(queue).kind = "transform" THEN FlushPlayerTransform(Head(queue).alive)
     ELSE UNCHANGED row
  /\ queue' = Tail(queue)
  /\ UNCHANGED <<bodyVars, thread, phase>>

(***************************************************************************)
(* Steps shared by the handlers: flush what was read; a body without       *)
(* health is also saved as dead; then the rest of the operation.           *)
(***************************************************************************)
AfterFlush(op, alive) ==
  IF ~alive /\ op # "expire" THEN "saveDead" ELSE
  CASE op \in {"kill", "expire", "death"} -> "idle"
    [] op = "killSleeper" -> "removeSleeper"
    [] op \in {"disconnect", "stale"} -> "sleep"
    [] op = "kick" -> "remove"

Flush(t) ==
  /\ At(t, "flush")
  /\ FlushPlayerTransform(thread[t].alive)
  /\ GoOn(t, AfterFlush(thread[t].op, thread[t].alive))
  /\ UNCHANGED <<queue, bodyVars, phase>>

\* Mutant: a killed player is only flushed.
MutSave(t) ==
  /\ At(t, "saveDead")
  /\ IF thread[t].op = "kill" THEN UNCHANGED row ELSE SaveDead
  /\ GoOn(t, AfterFlush(thread[t].op, TRUE))
  /\ UNCHANGED <<queue, bodyVars, phase>>

\* LoadCharacter and SaveCharacter; of what was loaded only the level, the faction and
\* the profile are written back, and nobody else changes those.
Save(t) ==
  /\ At(t, "saveDead")
  /\ SaveDead
  /\ GoOn(t, AfterFlush(thread[t].op, TRUE))
  /\ UNCHANGED <<queue, bodyVars, phase>>

\* CreateSleeper copies the session as it is now.
Sleep(t) ==
  LET w == thread[t]
  IN /\ At(t, "sleep")
     /\ sleeper' = IF w.stays /\ w.alive
                   THEN [id |-> w.n, alive |-> sess[w.n], dead |-> FALSE]
                   ELSE sleeper
     /\ IF w.op = "stale" THEN Done(t) ELSE Goto(t, "remove")
     /\ UNCHANGED <<storeVars, sess, made, live, died, phase>>

\* sessions.RemoveSession
Remove(t) ==
  /\ At(t, "remove")
  /\ live' = IF live = thread[t].n THEN None ELSE live
  /\ Done(t)
  /\ UNCHANGED <<storeVars, sess, made, sleeper, died, phase>>

RemoveSleeper(t) ==
  /\ At(t, "removeSleeper")
  /\ sleeper' = IF sleeper.id = thread[t].n THEN NoSleeper ELSE sleeper
  /\ Done(t)
  /\ UNCHANGED <<storeVars, sess, made, live, died, phase>>

(***************************************************************************)
(* Handlers of the account's own packets.                                  *)
(***************************************************************************)
\* OpHandshakeReq: LoadCharacter
Handshake ==
  /\ Free("own")
  /\ made < MaxSessions
  /\ made' = made + 1
  /\ Begin("own", IF row.dead THEN "respawn" ELSE "look", "handshake", made + 1,
           row.alive, FALSE)
  /\ UNCHANGED <<storeVars, sess, live, sleeper, died, phase>>

\* SaveCharacter of the loaded character, alive at the spawn point.
Respawn ==
  /\ At("own", "respawn")
  /\ row' = [row EXCEPT !.alive = TRUE, !.dead = FALSE]
  /\ died' = FALSE
  /\ thread' = [thread EXCEPT !["own"].pc = "look", !["own"].alive = TRUE]
  /\ UNCHANGED <<queue, sess, made, live, sleeper, phase>>

LookForSleeper ==
  /\ At("own", "look")
  /\ thread' = IF sleeper = NoSleeper
               THEN [thread EXCEPT !["own"].pc = "register"]
               ELSE [thread EXCEPT !["own"].pc = "reclaim", !["own"].alive = sleeper.alive]
  /\ UNCHANGED <<storeVars, bodyVars, phase>>

Reclaim ==
  /\ At("own", "reclaim")
  /\ sleeper' = NoSleeper
  /\ Goto("own", "register")
  /\ UNCHANGED <<storeVars, sess, made, live, died, phase>>

\* TryAddCapped: the account's old session is evicted and not flushed; or the server is
\* full.
Register ==
  LET w == thread["own"]
  IN /\ At("own", "register")
     /\ \/ /\ sess' = [sess EXCEPT ![w.n] = w.alive]
           /\ live' = w.n
        \/ live = None /\ UNCHANGED <<sess, live>>
     /\ Done("own")
     /\ UNCHANGED <<storeVars, made, sleeper, died, phase>>

\* OpClientTransform that crosses the border of a safe zone: QueuePlayerTransform with
\* what was read under the lock.
Move ==
  /\ Free("own")
  /\ live # None
  /\ Begin("own", "queue", "move", live, sess[live], FALSE)
  /\ UNCHANGED <<storeVars, bodyVars, phase>>

QueueTransform(t) ==
  /\ At(t, "queue")
  /\ QueueWrite([kind |-> "transform", alive |-> thread[t].alive])
  /\ Done(t)
  /\ UNCHANGED <<row, bodyVars>>

\* OpDisconnect reads the session; whether it is in a safe zone is a choice.
Disconnect ==
  /\ Free("own")
  /\ live # None
  /\ \E stays \in BOOLEAN : Begin("own", "flush", "disconnect", live, sess[live], stays)
  /\ UNCHANGED <<storeVars, bodyVars, phase>>

(***************************************************************************)
(* Hits, by the packet of another player or by a puppet in the tick, and   *)
(* the administrator's kick.                                               *)
(***************************************************************************)
Attacker == {"other", "tick"}

\* GetByID; the session may leave before it is hit.
Aim(t) ==
  /\ Free(t)
  /\ live # None
  /\ Begin(t, "hit", "kill", live, TRUE, FALSE)
  /\ UNCHANGED <<storeVars, bodyVars, phase>>

\* ValidateAndApplyDamage rejects the hit or applies it.
Reject(t) ==
  /\ \E pc \in {"hit", "hitSleeper"} : At(t, pc)
  /\ Done(t)
  /\ UNCHANGED <<storeVars, bodyVars, phase>>

Hit(t) ==
  LET n == thread[t].n
  IN /\ At(t, "hit")
     /\ \E alive \in {FALSE, sess[n]} :
          /\ sess' = [sess EXCEPT ![n] = alive]
          /\ died' = (died \/ (sess[n] /\ ~alive))
     /\ Goto(t, "check")
     /\ UNCHANGED <<storeVars, made, live, sleeper, phase>>

\* A player left without health is flushed and saved as dead.
Check(t) ==
  /\ At(t, "check")
  /\ IF sess[thread[t].n] THEN Done(t)
     ELSE Begin(t, "flush", "kill", thread[t].n, FALSE, FALSE)
  /\ UNCHANGED <<storeVars, bodyVars, phase>>

\* GetSleeper, and SleeperManager.ApplyDamage, which looks it up again.
AimAtSleeper ==
  /\ Free("other")
  /\ sleeper # NoSleeper
  /\ Begin("other", "hitSleeper", "killSleeper", sleeper.id, TRUE, FALSE)
  /\ UNCHANGED <<storeVars, bodyVars, phase>>

HitSleeper ==
  LET n == thread["other"].n
  IN /\ At("other", "hitSleeper")
     /\ IF sleeper.id # n
        THEN Done("other") /\ UNCHANGED <<sleeper, died>>
        ELSE \E alive \in {FALSE, sleeper.alive} :
               /\ sleeper.dead => ~alive
               /\ sleeper' = [sleeper EXCEPT !.alive = alive, !.dead = ~alive]
               /\ died' = (died \/ (sleeper.alive /\ ~alive))
               /\ IF alive THEN Done("other")
                  ELSE Begin("other", "flush", "killSleeper", n, FALSE, FALSE)
     /\ UNCHANGED <<storeVars, sess, made, live, phase>>

\* KickSession
Kick ==
  /\ Free("other")
  /\ live # None
  /\ Begin("other", "flush", "kick", live, sess[live], FALSE)
  /\ UNCHANGED <<storeVars, bodyVars, phase>>

(***************************************************************************)
(* The game loop.                                                          *)
(***************************************************************************)
\* SleeperManager.Tick takes a dead or an expired sleeper out and calls back.
TickSleeper ==
  /\ Free("tick")
  /\ sleeper # NoSleeper
  /\ sleeper' = NoSleeper
  /\ Begin("tick", "flush", IF sleeper.dead THEN "death" ELSE "expire", sleeper.id,
           sleeper.alive, FALSE)
  /\ UNCHANGED <<storeVars, sess, made, live, died, phase>>

\* A stale session: read, then removed, then flushed if it is dirty or dead.
Stale ==
  /\ Free("tick")
  /\ live # None
  /\ \E stays, dirty \in BOOLEAN :
       Begin("tick", IF dirty \/ ~sess[live] THEN "staleDirty" ELSE "staleClean",
             "stale", live, sess[live], stays)
  /\ UNCHANGED <<storeVars, bodyVars, phase>>

RemoveStale ==
  /\ \E pc \in {"staleDirty", "staleClean"} :
       /\ At("tick", pc)
       /\ Goto("tick", IF pc = "staleDirty" THEN "flush" ELSE "sleep")
  /\ live' = IF live = thread["tick"].n THEN None ELSE live
  /\ UNCHANGED <<storeVars, sess, made, sleeper, died, phase>>

\* A session that is not stale: QueuePeriodicStats, and the checkpoint.
CreditPlayTime ==
  /\ Free("tick")
  /\ live # None
  /\ QueueWrite([kind |-> "stats"])
  /\ UNCHANGED <<row, bodyVars, thread>>

Checkpoint ==
  /\ Free("tick")
  /\ live # None
  /\ Begin("tick", "queue", "checkpoint", live, sess[live], FALSE)
  /\ UNCHANGED <<storeVars, bodyVars, phase>>

(***************************************************************************)
(* Shutdown: main.                                                         *)
(***************************************************************************)
\* The context is cancelled, the game loop returns from its last tick, WaitGameLoop
\* returns; close(dbQueue).  Nobody waits for the workers.
CloseQueue ==
  /\ phase = "running"
  /\ Free("tick")
  /\ phase' = "draining"
  /\ UNCHANGED <<storeVars, bodyVars, thread>>

\* WaitWriteQueue returns when the channel is empty; db.Close.
CloseDatabase ==
  /\ phase = "draining"
  /\ queue = <<>>
  /\ phase' = "closed"
  /\ UNCHANGED <<storeVars, bodyVars, thread>>

Next ==
  \/ WriteJob
  \/ Handshake \/ Respawn \/ LookForSleeper \/ Reclaim \/ Register
  \/ Move \/ Disconnect \/ Kick \/ AimAtSleeper \/ HitSleeper
  \/ TickSleeper \/ Stale \/ RemoveStale \/ CreditPlayTime \/ Checkpoint
  \/ \E t \in Thread : Flush(t) \/ Save(t)
  \/ \E t \in Attacker : Aim(t) \/ Reject(t) \/ Hit(t) \/ Check(t)
  \/ \E t \in {"own", "tick"} : Sleep(t) \/ QueueTransform(t)
  \/ \E t \in {"own", "other"} : Remove(t)
  \/ RemoveSleeper("other")
  \/ CloseQueue \/ CloseDatabase

\* The write-behind goroutine and main are scheduled.
Spec ==
  /\ Init
  /\ [][Next]_vars
  /\ WF_vars(WriteJob)
  /\ WF_vars(CloseDatabase)

(***************************************************************************)
(* Properties.                                                             *)
(***************************************************************************)
\* The buffer of the channel holds at most its capacity, and every variable has its type.
TypeOK ==
  /\ row \in [alive: BOOLEAN, dead: BOOLEAN]
  /\ queue \in Seq(Job) /\ Len(queue) <= QueueCap
  /\ sess \in [Session -> BOOLEAN]
  /\ made \in 0 .. MaxSessions
  /\ live \in 0 .. made
  /\ sleeper \in [id: 0 .. made, alive: BOOLEAN, dead: BOOLEAN]
  /\ thread \in [Thread -> [pc: Pc, op: Operation, n: 0 .. made,
                            alive: BOOLEAN, stays: BOOLEAN]]
  /\ phase \in {"running", "draining", "closed", "crashed"}
  /\ died \in BOOLEAN

\* A character that died, as a session or as a sleeper, by a player or by a puppet, is
\* stored as dead until its respawn, whatever disconnects, kicks, timeouts, queued
\* transforms and reconnects run beside the kill.
DeathRecorded == died /\ (\A t \in Thread : thread[t].pc = "idle") => row.dead

\* The types, and the record of deaths.
DeathSafe == TypeOK /\ DeathRecorded

\* Once main has closed the queue it drains and the database is closed, unless a worker's
\* write to the closed channel ends the process first.
ShutdownEnds == (phase = "draining") ~> (phase \in {"closed", "crashed"})
===============================================================================
