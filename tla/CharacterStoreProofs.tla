------------------------- MODULE CharacterStoreProofs -------------------------
(***************************************************************************)
(* Proofs about CharacterStore for any capacity of the write queue and any *)
(* number of sessions of the account.                                      *)
(*                                                                         *)
(* A death is recorded by the goroutine that caused it, several steps      *)
(* after it: the invariant says that until the row is dead this goroutine  *)
(* is on its way to the save, and that nothing it depends on is taken from *)
(* it meanwhile.  What it depends on is the health of the session object   *)
(* it has hit: the session a handshake is about to register is therefore   *)
(* shown to be one nobody else has seen.                                   *)
(***************************************************************************)
EXTENDS CharacterStore, SequenceTheorems, TLAPS

Work == [pc: Pc, op: Operation, n: Nat, alive: BOOLEAN, stays: BOOLEAN]
Sleepers == [id: Nat, alive: BOOLEAN, dead: BOOLEAN]

StoreTypes ==
  /\ row \in [alive: BOOLEAN, dead: BOOLEAN]
  /\ queue \in Seq(Job) /\ Len(queue) <= QueueCap
  /\ phase \in {"running", "draining", "closed", "crashed"}

BodyTypes ==
  /\ sess \in [Session -> BOOLEAN]
  /\ made \in 0 .. MaxSessions
  /\ live \in 0 .. made
  /\ sleeper \in Sleepers /\ sleeper.id <= made /\ (sleeper # NoSleeper => sleeper.id > 0)
  /\ died \in BOOLEAN

\* A goroutine that is busy is so with a session that was made, and flushes for one of
\* the operations that flush.
Busy(w) ==
  /\ w.n <= made
  /\ w.pc # "idle" => w.n > 0
  /\ w.pc \in {"flush", "saveDead", "staleDirty"} => w.op \in FlushOp

ThreadTypes ==
  /\ thread \in [Thread -> Work]
  /\ \A t \in Thread : Busy(thread[t])

\* The session of a handshake that is not over is the newest, and nobody else has it.
Shaking == {"respawn", "look", "reclaim", "register"}
Unregistered ==
  thread["own"].pc \in Shaking =>
    /\ thread["own"].n = made
    /\ live < made /\ sleeper.id < made
    /\ \A t \in Attacker : thread[t].n < made

\* The goroutine is on its way to SaveCharacter with Dead = 1.
Saving(t) ==
  \/ thread[t].pc = "check" /\ ~sess[thread[t].n]
  \/ thread[t].pc = "flush" /\ ~thread[t].alive /\ thread[t].op # "expire"
  \/ thread[t].pc = "saveDead"

DeathPending == died => row.dead \/ \E t \in Thread : Saving(t)

Inv == StoreTypes /\ BodyTypes /\ ThreadTypes /\ Unregistered /\ DeathPending

\* Goroutine t goes on with w.
Moves(t, w) == thread' = [thread EXCEPT ![t] = w]

\* The fields of an idle goroutine and of no sleeper.
LEMMA IdleFields ==
  /\ Idle \in Work /\ Idle.n = 0 /\ Idle.pc = "idle"
  /\ NoSleeper \in Sleepers /\ NoSleeper.id = 0
<1>1. "idle" \in Pc /\ 0 \in Nat
  BY DEF Pc
<1>2. Idle \in Work
  <2>1. "none" \in Operation
    BY DEF Operation
  <2> QED
    BY <1>1, <2>1, Zenon DEF Idle, Work, None
<1>3. NoSleeper \in Sleepers
  BY <1>1, Zenon DEF NoSleeper, Sleepers, None
<1>4. Idle.n = 0 /\ Idle.pc = "idle" /\ NoSleeper.id = 0
  BY DEF Idle, NoSleeper, None
<1> QED
  BY <1>2, <1>3, <1>4

\* The invariant holds initially.
LEMMA InvInit == Init => Inv
<1> SUFFICES ASSUME Init PROVE Inv
  OBVIOUS
<1> USE QueueCapAssumption, BoundAssumption
<1>1. StoreTypes
  BY EmptySeq DEF Init, StoreTypes
<1>2. BodyTypes
  <2>1. sess \in [Session -> BOOLEAN] /\ died \in BOOLEAN
    BY Zenon DEF Init
  <2>2. /\ made \in 0 .. MaxSessions /\ live \in 0 .. made
        /\ sleeper \in Sleepers /\ sleeper.id <= made /\ sleeper = NoSleeper
    BY IdleFields DEF Init, None
  <2> QED
    BY <2>1, <2>2, Zenon DEF BodyTypes
<1>3. ThreadTypes
  BY IdleFields DEF Init, ThreadTypes, Busy
<1>4. Unregistered
  BY IdleFields DEF Init, Unregistered, Shaking, Thread
<1>5. DeathPending
  BY DEF Init, DeathPending
<1> QED
  BY <1>1, <1>2, <1>3, <1>4, <1>5 DEF Inv

\* What the three ways to go on do.
LEMMA GotoMoves ==
  ASSUME thread \in [Thread -> Work], NEW t \in Thread, NEW pc \in Pc, Goto(t, pc)
  PROVE  \E w \in Work : /\ Moves(t, w) /\ w.pc = pc /\ w.op = thread[t].op
                         /\ w.n = thread[t].n /\ w.alive = thread[t].alive
                         /\ w.stays = thread[t].stays
<1>1. PICK r \in Work : r = thread[t]
  OBVIOUS
<1> DEFINE w == [r EXCEPT !.pc = pc]
<1>2. /\ w \in Work /\ w.pc = pc /\ w.op = r.op /\ w.n = r.n /\ w.alive = r.alive
      /\ w.stays = r.stays
  BY DEF Work
<1>3. Moves(t, w)
  BY <1>1 DEF Goto, Moves
<1> QED
  BY <1>1, <1>2, <1>3

\* A goroutine that is done is idle.
LEMMA DoneMoves ==
  ASSUME NEW t \in Thread, Done(t)
  PROVE  Moves(t, Idle) /\ Idle \in Work /\ Idle.pc = "idle" /\ Idle.n = 0
  BY IdleFields DEF Done, Moves

\* A goroutine begins an operation.
LEMMA BeginMoves ==
  ASSUME NEW t \in Thread, NEW pc \in Pc, NEW op \in Operation, NEW n \in Nat,
         NEW alive \in BOOLEAN, NEW stays \in BOOLEAN, Begin(t, pc, op, n, alive, stays)
  PROVE  \E w \in Work : /\ Moves(t, w) /\ w.pc = pc /\ w.op = op /\ w.n = n
                         /\ w.alive = alive /\ w.stays = stays
<1> DEFINE w == [pc |-> pc, op |-> op, n |-> n, alive |-> alive, stays |-> stays]
<1>1. w \in Work /\ Moves(t, w)
  BY DEF Begin, Moves, Work
<1> QED
  BY <1>1

\* A step of a goroutine that registers nobody, hits nobody and keeps the record of
\* deaths.
LEMMA StepKeeps ==
  ASSUME Inv, NEW t \in Thread, NEW w \in Work, Moves(t, w),
         StoreTypes', BodyTypes', made' = made, sess' = sess, died' = died,
         Busy(w), live' \in {live, None},
         w.n \in {None, thread[t].n, live, sleeper.id},
         t = "own" /\ w.pc \in Shaking => thread[t].pc \in Shaking /\ w.n = thread[t].n,
         (t = "own" /\ w.pc \notin Shaking)
           \/ sleeper'.id \in {sleeper.id, None} \cup {thread[u].n : u \in Attacker},
         row.dead => row'.dead,
         Saving(t) => Saving(t)' \/ row'.dead
  PROVE  Inv'
<1>1. thread' \in [Thread -> Work] /\ thread'[t] = w /\ \A u \in Thread \ {t} : thread'[u] = thread[u]
  BY DEF Moves, Inv, ThreadTypes
<1>2. ThreadTypes'
  BY <1>1 DEF Inv, ThreadTypes, Busy
<1>3. Unregistered'
  <2> SUFFICES ASSUME thread'["own"].pc \in Shaking
               PROVE  /\ thread'["own"].n = made
                      /\ live' < made /\ sleeper'.id < made
                      /\ \A u \in Attacker : thread'[u].n < made
    BY DEF Unregistered
  <2>1. "own" \in Thread /\ Attacker \subseteq Thread /\ "own" \notin Attacker
    BY DEF Thread, Attacker
  <2>2. thread["own"].pc \in Shaking /\ thread'["own"].n = thread["own"].n
    BY <1>1, <2>1
  <2>3. /\ thread["own"].n = made /\ live < made /\ sleeper.id < made
        /\ \A u \in Attacker : thread[u].n < made
    BY <2>2 DEF Inv, Unregistered
  <2>4. 0 < made
    <3>1. thread["own"].pc # "idle"
      BY <2>2 DEF Shaking
    <3> QED
      BY <2>1, <2>3, <3>1 DEF Inv, ThreadTypes, Busy
  <2>5. live' < made
    BY <2>3, <2>4 DEF None
  <2>6. sleeper'.id < made
    BY <1>1, <2>1, <2>3, <2>4 DEF None
  <2>7. ASSUME NEW u \in Attacker PROVE thread'[u].n < made
    BY <1>1, <2>1, <2>3, <2>4 DEF None
  <2> QED
    BY <2>2, <2>3, <2>5, <2>6, <2>7
<1>4. ASSUME NEW u \in Thread, u # t, Saving(u) PROVE Saving(u)'
  BY <1>1, <1>4 DEF Saving
<1>5. DeathPending'
  BY <1>4 DEF Inv, DeathPending
<1> QED
  BY <1>2, <1>3, <1>5 DEF Inv

\* A step that moves no goroutine.
LEMMA StillKeeps ==
  ASSUME Inv, StoreTypes', UNCHANGED <<bodyVars, thread>>, row.dead => row'.dead
  PROVE  Inv'
<1>1. UNCHANGED <<sess, made, live, sleeper, died, thread>>
  BY DEF bodyVars
<1> QED
  BY <1>1 DEF Inv, BodyTypes, ThreadTypes, Busy, Unregistered, DeathPending, Saving

Rows == [alive: BOOLEAN, dead: BOOLEAN]

\* A flush leaves dead alone, a save of a dead character sets it, a respawn clears it.
LEMMA RowWrites ==
  ASSUME NEW r \in Rows, NEW b \in BOOLEAN
  PROVE  /\ [r EXCEPT !.alive = b] \in Rows /\ [r EXCEPT !.alive = b].dead = r.dead
         /\ [r EXCEPT !.alive = FALSE, !.dead = TRUE] \in Rows
         /\ [r EXCEPT !.alive = FALSE, !.dead = TRUE].dead = TRUE
         /\ [r EXCEPT !.alive = TRUE, !.dead = FALSE] \in Rows
  BY DEF Rows

\* A queued write stays within the capacity of the channel.
LEMMA QueueWriteKeeps ==
  ASSUME StoreTypes, NEW job \in Job, QueueWrite(job), row' = row
  PROVE  StoreTypes'
<1> USE QueueCapAssumption
<1>1. CASE phase = "draining"
  BY <1>1 DEF QueueWrite, StoreTypes
<1>2. CASE phase # "draining"
  <2>1. phase' = phase /\ queue' = IF Len(queue) < QueueCap THEN Append(queue, job) ELSE queue
    BY <1>2 DEF QueueWrite
  <2>2. queue' \in Seq(Job) /\ Len(queue') <= QueueCap
    BY <2>1, AppendProperties DEF StoreTypes
  <2> QED
    BY <2>1, <2>2 DEF StoreTypes
<1> QED
  BY <1>1, <1>2

\* The writer takes the oldest job.
LEMMA WriteJobKeeps ==
  ASSUME Inv, WriteJob
  PROVE  Inv'
<1> USE QueueCapAssumption
<1>1. queue \in Seq(Job) /\ queue # <<>> /\ queue' = Tail(queue) /\ Len(queue) <= QueueCap
  BY DEF WriteJob, Inv, StoreTypes
<1>2. Head(queue) \in Job /\ queue' \in Seq(Job) /\ Len(queue') = Len(queue) - 1
  BY <1>1, HeadTailProperties
<1>3. row' \in Rows /\ row'.dead = row.dead
  <2>1. row \in Rows
    BY DEF Inv, StoreTypes, Rows
  <2>2. CASE Head(queue).kind = "transform"
    <3>1. row' = [row EXCEPT !.alive = Head(queue).alive]
      BY <2>2 DEF WriteJob, FlushPlayerTransform
    <3>2. Head(queue).alive \in BOOLEAN
      BY <1>2, <2>2 DEF Job
    <3> QED
      BY <2>1, <3>1, <3>2, RowWrites
  <2>3. CASE Head(queue).kind # "transform"
    BY <2>1, <2>3 DEF WriteJob
  <2> QED
    BY <2>2, <2>3
<1>4. phase' = phase
  BY DEF WriteJob
<1>5. StoreTypes'
  BY <1>1, <1>2, <1>3, <1>4 DEF Inv, StoreTypes, Rows
<1>6. UNCHANGED <<bodyVars, thread>>
  BY DEF WriteJob
<1> QED
  BY <1>3, <1>5, <1>6, StillKeeps

\* Where a flush leads.
LEMMA AfterFlushTo ==
  ASSUME NEW op \in FlushOp, NEW alive \in BOOLEAN
  PROVE  /\ AfterFlush(op, alive) \in {"saveDead", "idle", "removeSleeper", "sleep", "remove"}
         /\ ~alive /\ op # "expire" => AfterFlush(op, alive) = "saveDead"
         /\ alive => AfterFlush(op, alive) # "saveDead"
  BY DEF AfterFlush, FlushOp

\* Flush, with the save that follows it for a body without health.
LEMMA FlushKeeps ==
  ASSUME Inv, NEW t \in Thread, Flush(t)
  PROVE  Inv'
<1> DEFINE op == thread[t].op
           alive == thread[t].alive
           next == AfterFlush(op, alive)
<1>1. thread[t] \in Work /\ thread[t].pc = "flush" /\ Busy(thread[t]) /\ thread \in [Thread -> Work]
  BY DEF Flush, At, Inv, ThreadTypes
<1>2. op \in FlushOp /\ alive \in BOOLEAN /\ thread[t].n \in Nat /\ thread[t].n > 0
  BY <1>1 DEF Busy, Work
<1>3. /\ next \in {"saveDead", "idle", "removeSleeper", "sleep", "remove"}
      /\ ~alive /\ op # "expire" => next = "saveDead"
  BY <1>2, AfterFlushTo
<1>4. row' \in Rows /\ row'.dead = row.dead
  BY <1>2, RowWrites DEF Flush, FlushPlayerTransform, Inv, StoreTypes, Rows
<1>5. UNCHANGED <<queue, sess, made, live, sleeper, died, phase>> /\ GoOn(t, next)
  BY DEF Flush, bodyVars
<1>6. StoreTypes' /\ BodyTypes'
  BY <1>4, <1>5 DEF Inv, StoreTypes, BodyTypes, Rows
<1> HIDE DEF next, op, alive
<1>7. CASE next = "idle"
  <2>1. Moves(t, Idle) /\ Idle \in Work /\ Idle.pc = "idle" /\ Idle.n = 0
    BY <1>5, <1>7, DoneMoves DEF GoOn
  <2>2. Busy(Idle) /\ Idle.n \in {None, thread[t].n, live, sleeper.id} /\ Idle.pc \notin Shaking
    BY <2>1 DEF Busy, None, Shaking, Inv, BodyTypes
  <2>3. ~Saving(t)
    BY <1>1, <1>3, <1>7 DEF Saving, op, alive
  <2>4. sleeper'.id = sleeper.id /\ live' = live
    BY <1>5
  <2> QED
    BY <1>4, <1>5, <1>6, <2>1, <2>2, <2>3, <2>4, StepKeeps
<1>8. CASE next # "idle"
  <2>1. next \in Pc
    BY <1>3 DEF Pc
  <2>2. PICK w \in Work : /\ Moves(t, w) /\ w.pc = next /\ w.op = op
                          /\ w.n = thread[t].n /\ w.alive = alive
    BY <1>1, <1>5, <1>8, <2>1, GotoMoves DEF GoOn, op, alive
  <2>3. Busy(w) /\ w.pc \notin Shaking
    BY <1>1, <1>2, <1>3, <2>2 DEF Busy, Shaking
  <2>4. Saving(t) => Saving(t)'
    <3>1. thread'[t] = w
      BY <2>2, <1>1 DEF Moves
    <3> QED
      BY <1>1, <1>3, <2>2, <3>1 DEF Saving, op, alive
  <2>5. sleeper'.id = sleeper.id /\ live' = live
    BY <1>5
  <2> QED
    BY <1>4, <1>5, <1>6, <2>2, <2>3, <2>4, <2>5, StepKeeps
<1> QED
  BY <1>7, <1>8

\* The save that ends the obligation.
LEMMA SaveKeeps ==
  ASSUME Inv, NEW t \in Thread, Save(t)
  PROVE  Inv'
<1> DEFINE next == AfterFlush(thread[t].op, TRUE)
<1>1. thread[t] \in Work /\ thread[t].pc = "saveDead" /\ Busy(thread[t]) /\ thread \in [Thread -> Work]
  BY DEF Save, At, Inv, ThreadTypes
<1>2. thread[t].op \in FlushOp /\ thread[t].n \in Nat /\ thread[t].n > 0
  BY <1>1 DEF Busy, Work
<1>3. next \in {"idle", "removeSleeper", "sleep", "remove"}
  BY <1>2, AfterFlushTo
<1>4. row' \in Rows /\ row'.dead
  BY RowWrites DEF Save, SaveDead, Inv, StoreTypes, Rows
<1>5. UNCHANGED <<queue, sess, made, live, sleeper, died, phase>> /\ GoOn(t, next)
  BY DEF Save, bodyVars
<1>6. StoreTypes' /\ BodyTypes'
  BY <1>4, <1>5 DEF Inv, StoreTypes, BodyTypes, Rows
<1> HIDE DEF next
<1>7. CASE next = "idle"
  <2>1. Moves(t, Idle) /\ Idle \in Work /\ Idle.pc = "idle" /\ Idle.n = 0
    BY <1>5, <1>7, DoneMoves DEF GoOn
  <2>2. Busy(Idle) /\ Idle.n \in {None, thread[t].n, live, sleeper.id} /\ Idle.pc \notin Shaking
    BY <2>1 DEF Busy, None, Shaking, Inv, BodyTypes
  <2>3. sleeper'.id = sleeper.id /\ live' = live
    BY <1>5
  <2> QED
    BY <1>4, <1>5, <1>6, <2>1, <2>2, <2>3, StepKeeps
<1>8. CASE next # "idle"
  <2>1. next \in Pc
    BY <1>3 DEF Pc
  <2>2. PICK w \in Work : Moves(t, w) /\ w.pc = next /\ w.n = thread[t].n
    BY <1>1, <1>5, <1>8, <2>1, GotoMoves DEF GoOn
  <2>3. Busy(w) /\ w.pc \notin Shaking
    BY <1>1, <1>2, <1>3, <2>2 DEF Busy, Shaking
  <2>4. sleeper'.id = sleeper.id /\ live' = live
    BY <1>5
  <2> QED
    BY <1>4, <1>5, <1>6, <2>2, <2>3, <2>4, StepKeeps
<1> QED
  BY <1>7, <1>8

\* A goroutine ends its operation: it was not on its way to a save.
LEMMA DoneKeeps ==
  ASSUME Inv, NEW t \in Thread, Done(t), ~Saving(t), StoreTypes', BodyTypes',
         row' = row, made' = made, sess' = sess, died' = died, live' \in {live, None},
         sleeper'.id \in {sleeper.id, None}
  PROVE  Inv'
<1>1. Moves(t, Idle) /\ Idle \in Work /\ Idle.pc = "idle" /\ Idle.n = 0
  BY DoneMoves
<1>2. Busy(Idle) /\ Idle.n \in {None, thread[t].n, live, sleeper.id} /\ Idle.pc \notin Shaking
  BY <1>1 DEF Busy, None, Shaking, Inv, BodyTypes
<1> QED
  BY <1>1, <1>2, StepKeeps

\* A goroutine that goes on to a step that is not a flush.
LEMMA GotoKeeps ==
  ASSUME Inv, NEW t \in Thread, NEW pc \in Pc, Goto(t, pc), ~Saving(t), StoreTypes', BodyTypes',
         thread[t].pc # "idle", pc \notin {"flush", "saveDead", "staleDirty"},
         pc \in Shaking => thread[t].pc \in Shaking,
         row' = row, made' = made, sess' = sess, died' = died, live' \in {live, None},
         \/ t = "own" /\ pc \notin Shaking
         \/ sleeper'.id \in {sleeper.id, None} \cup {thread[u].n : u \in Attacker}
  PROVE  Inv'
<1>1. thread \in [Thread -> Work] /\ Busy(thread[t])
  BY DEF Inv, ThreadTypes
<1>2. PICK w \in Work : Moves(t, w) /\ w.pc = pc /\ w.n = thread[t].n
  BY <1>1, GotoMoves
<1>3. Busy(w)
  BY <1>1, <1>2 DEF Busy
<1> QED
  BY <1>2, <1>3, StepKeeps

\* An idle goroutine begins with the registered session or the sleeper.
LEMMA BeginKeeps ==
  ASSUME Inv, NEW t \in Thread, NEW pc \in Pc, NEW op \in Operation, NEW n \in {live, sleeper.id},
         NEW alive \in BOOLEAN, NEW stays \in BOOLEAN, Begin(t, pc, op, n, alive, stays),
         n > 0, pc \notin Shaking, pc \in {"flush", "saveDead", "staleDirty"} => op \in FlushOp,
         thread[t].pc = "idle", StoreTypes', BodyTypes',
         row' = row, made' = made, sess' = sess, died' = died, live' = live,
         sleeper'.id \in {sleeper.id, None}
  PROVE  Inv'
<1>1. thread[t] \in Work /\ live \in Nat /\ sleeper.id \in Nat /\ made \in Nat
      /\ live <= made /\ sleeper.id <= made
  BY DEF Inv, ThreadTypes, BodyTypes, Sleepers
<1>2. PICK w \in Work : Moves(t, w) /\ w.pc = pc /\ w.op = op /\ w.n = n
  BY <1>1, BeginMoves
<1>3. Busy(w)
  BY <1>1, <1>2 DEF Busy
<1>4. ~Saving(t)
  BY DEF Saving
<1> QED
  BY <1>2, <1>3, <1>4, StepKeeps

\* Sleep: the body left behind is one the goroutine was busy with.
LEMMA SleepKeeps ==
  ASSUME Inv, NEW t \in {"own", "tick"}, Sleep(t)
  PROVE  Inv'
<1> DEFINE w == thread[t]
<1>1. /\ t \in Thread /\ w.pc = "sleep" /\ w \in Work /\ w.n \in Nat /\ w.n > 0 /\ w.n <= made
      /\ made \in 0 .. MaxSessions
  BY DEF Sleep, At, Inv, ThreadTypes, BodyTypes, Busy, Thread, Work
<1>2. UNCHANGED <<row, queue, sess, made, live, died, phase>> /\ ~Saving(t)
  BY <1>1 DEF Sleep, storeVars, Saving
<1>3. \/ sleeper' = sleeper
      \/ sleeper' = [id |-> w.n, alive |-> sess[w.n], dead |-> FALSE]
  BY DEF Sleep
<1>4. /\ sleeper' \in Sleepers /\ sleeper'.id <= made /\ (sleeper' # NoSleeper => sleeper'.id > 0)
      /\ sleeper'.id \in {sleeper.id, w.n}
  <2>1. CASE sleeper' = sleeper
    BY <2>1 DEF Inv, BodyTypes
  <2>2. CASE sleeper' = [id |-> w.n, alive |-> sess[w.n], dead |-> FALSE]
    <3>1. sess[w.n] \in BOOLEAN
      BY <1>1, BoundAssumption DEF Inv, BodyTypes, Session
    <3> HIDE DEF w
    <3>2. sleeper' \in Sleepers
      BY <1>1, <2>2, <3>1 DEF Sleepers
    <3>3. sleeper'.id = w.n
      BY <2>2
    <3> QED
      BY <1>1, <3>2, <3>3
  <2> QED
    BY <1>3, <2>1, <2>2
<1>5. StoreTypes' /\ BodyTypes'
  BY <1>2, <1>4 DEF Inv, StoreTypes, BodyTypes
<1>6. t = "own" \/ sleeper'.id \in {sleeper.id, None} \cup {thread[u].n : u \in Attacker}
  BY <1>4 DEF Attacker
<1>7. CASE Goto(t, "remove")
  <2>1. "remove" \in Pc /\ "remove" \notin {"flush", "saveDead", "staleDirty"} \cup Shaking
    BY DEF Pc, Shaking
  <2> QED
    BY <1>1, <1>2, <1>5, <1>6, <1>7, <2>1, GotoKeeps
<1>8. CASE Done(t)
  <2>1. Moves(t, Idle) /\ Idle \in Work /\ Idle.pc = "idle" /\ Idle.n = 0
    BY <1>1, <1>8, DoneMoves
  <2>2. Busy(Idle) /\ Idle.n \in {None, thread[t].n, live, sleeper.id} /\ Idle.pc \notin Shaking
    BY <2>1 DEF Busy, None, Shaking, Inv, BodyTypes
  <2> QED
    BY <1>1, <1>2, <1>5, <1>6, <2>1, <2>2, StepKeeps
<1> QED
  BY <1>7, <1>8 DEF Sleep

\* Removals of the session or of the sleeper, at the end of an operation.
LEMMA RemovalsKeep ==
  ASSUME Inv,
         (\E t \in {"own", "other"} : Remove(t)) \/ RemoveSleeper("other")
  PROVE  Inv'
<1>1. ASSUME NEW t \in {"own", "other"}, Remove(t) PROVE Inv'
  <2>1. t \in Thread /\ thread[t].pc = "remove" /\ Done(t) /\ live' \in {live, None}
    BY <1>1 DEF Remove, At, Thread
  <2>2. UNCHANGED <<row, queue, sess, made, sleeper, died, phase>> /\ ~Saving(t)
    BY <1>1, <2>1 DEF Remove, storeVars, Saving
  <2>3. StoreTypes' /\ BodyTypes'
    BY <2>1, <2>2 DEF Inv, StoreTypes, BodyTypes, None
  <2> QED
    BY <2>1, <2>2, <2>3, DoneKeeps
<1>2. ASSUME RemoveSleeper("other") PROVE Inv'
  <2>1. /\ "other" \in Thread /\ thread["other"].pc = "removeSleeper" /\ Done("other")
        /\ sleeper' \in {sleeper, NoSleeper}
    BY <1>2 DEF RemoveSleeper, At, Thread
  <2>2. UNCHANGED <<row, queue, sess, made, live, died, phase>> /\ ~Saving("other")
    BY <1>2, <2>1 DEF RemoveSleeper, storeVars, Saving
  <2>3. /\ sleeper' \in Sleepers /\ sleeper'.id <= made /\ sleeper'.id \in {sleeper.id, None}
        /\ sleeper' # NoSleeper => sleeper'.id > 0
    BY <2>1, IdleFields DEF Inv, BodyTypes, None
  <2>4. StoreTypes' /\ BodyTypes'
    BY <2>2, <2>3 DEF Inv, StoreTypes, BodyTypes
  <2> QED
    BY <2>1, <2>2, <2>3, <2>4, DoneKeeps
<1> QED
  BY <1>1, <1>2

\* A handshake takes a session number nobody has.
LEMMA HandshakeKeeps ==
  ASSUME Inv, Handshake
  PROVE  Inv'
<1> USE BoundAssumption
<1> DEFINE pc == IF row.dead THEN "respawn" ELSE "look"
<1>1. /\ "own" \in Thread /\ thread["own"].pc = "idle" /\ made' = made + 1 /\ made < MaxSessions
      /\ UNCHANGED <<row, queue, sess, live, sleeper, died, phase>>
      /\ Begin("own", pc, "handshake", made + 1, row.alive, FALSE)
  BY DEF Handshake, Free, At, Thread, storeVars
<1>2. /\ made \in Nat /\ row.alive \in BOOLEAN /\ pc \in Pc /\ "handshake" \in Operation
      /\ pc \notin {"flush", "saveDead", "staleDirty"} /\ pc # "check"
  BY DEF Inv, BodyTypes, StoreTypes, Pc, Operation
<1>3. PICK w \in Work : Moves("own", w) /\ w.pc = pc /\ w.n = made + 1
  <2> HIDE DEF pc
  <2>1. made + 1 \in Nat
    BY <1>2
  <2>2. PICK no \in BOOLEAN : no = FALSE
    BY Zenon
  <2>3. Begin("own", pc, "handshake", made + 1, row.alive, no)
    BY <1>1, <2>2
  <2> QED
    BY <1>1, <1>2, <2>1, <2>3, BeginMoves
<1> HIDE DEF pc
<1>4. thread' \in [Thread -> Work] /\ thread'["own"] = w /\ \A u \in Attacker : thread'[u] = thread[u]
  BY <1>1, <1>3 DEF Moves, Inv, ThreadTypes, Attacker, Thread
<1>5. StoreTypes'
  BY <1>1 DEF Inv, StoreTypes
<1>6. BodyTypes'
  BY <1>1, <1>2 DEF Inv, BodyTypes, Sleepers
<1>7. ASSUME NEW u \in Thread PROVE Busy(thread[u])'
  <2>1. CASE u = "own"
    BY <1>1, <1>2, <1>3, <1>4, <2>1 DEF Busy
  <2>2. CASE u # "own"
    <3>1. thread'[u] = thread[u] /\ thread[u].n \in Nat
      BY <1>4, <2>2 DEF Thread, Attacker, Inv, ThreadTypes, Work
    <3> QED
      BY <1>1, <1>2, <3>1 DEF Inv, ThreadTypes, Busy
  <2> QED
    BY <2>1, <2>2
<1>8. Unregistered'
  <2>1. live < made + 1 /\ sleeper.id < made + 1
    BY <1>2 DEF Inv, BodyTypes, Sleepers
  <2>2. \A u \in Attacker : thread[u].n < made + 1
    BY <1>2 DEF Inv, ThreadTypes, Busy, Work, Attacker, Thread
  <2> QED
    BY <1>1, <1>3, <1>4, <2>1, <2>2 DEF Unregistered
<1>9. DeathPending'
  <2>1. ~Saving("own")
    BY <1>1 DEF Saving
  <2>2. ASSUME NEW u \in Attacker, Saving(u) PROVE Saving(u)'
    BY <1>1, <1>4, <2>2 DEF Saving
  <2> QED
    BY <1>1, <2>1, <2>2 DEF Inv, DeathPending, Thread, Attacker
<1> QED
  BY <1>4, <1>5, <1>6, <1>7, <1>8, <1>9 DEF Inv, ThreadTypes

\* The steps of a handshake before its registration.
LEMMA ShakingKeeps ==
  ASSUME Inv, Respawn \/ LookForSleeper \/ Reclaim
  PROVE  Inv'
<1> DEFINE r == thread["own"]
<1>1. /\ "own" \in Thread /\ r \in Work /\ r.pc \in {"respawn", "look", "reclaim"}
      /\ thread \in [Thread -> Work] /\ Busy(r)
  BY DEF Respawn, LookForSleeper, Reclaim, At, Inv, ThreadTypes, Thread
<1>2. ~Saving("own") /\ r.pc \in Shaking /\ r.pc # "idle"
  BY <1>1 DEF Saving, Shaking
<1>3. CASE Respawn
  <2>1. /\ row' \in Rows /\ died' = FALSE
        /\ thread' = [thread EXCEPT !["own"].pc = "look", !["own"].alive = TRUE]
        /\ UNCHANGED <<queue, sess, made, live, sleeper, phase>>
    BY <1>3, RowWrites DEF Respawn, Inv, StoreTypes, Rows
  <2>2. PICK w \in Work : Moves("own", w) /\ w.pc = "look" /\ w.n = r.n
    <3>1. PICK x \in Work : x = r
      BY <1>1
    <3> DEFINE y == [x EXCEPT !.pc = "look", !.alive = TRUE]
    <3>2. "look" \in Pc
      BY DEF Pc
    <3>3. y \in Work /\ y.pc = "look" /\ y.n = x.n
      BY <3>2 DEF Work
    <3>4. Moves("own", y)
      BY <1>1, <2>1, <3>1 DEF Moves
    <3> QED
      BY <3>1, <3>3, <3>4
  <2>3. /\ thread' \in [Thread -> Work] /\ thread'["own"] = w
        /\ \A u \in Thread \ {"own"} : thread'[u] = thread[u]
    BY <1>1, <2>2 DEF Moves
  <2>4. StoreTypes' /\ BodyTypes'
    BY <2>1, Zenon DEF Inv, StoreTypes, BodyTypes, Rows
  <2>5. Busy(w)'
    BY <1>1, <1>2, <2>1, <2>2 DEF Busy
  <2>6. ThreadTypes'
    BY <2>1, <2>3, <2>5 DEF Inv, ThreadTypes, Busy
  <2>7. Unregistered'
    BY <1>2, <2>1, <2>2, <2>3 DEF Inv, Unregistered, Attacker, Thread
  <2> QED
    BY <2>1, <2>4, <2>6, <2>7 DEF Inv, DeathPending
<1>4. CASE LookForSleeper
  <2>1. UNCHANGED <<row, queue, sess, made, live, sleeper, died, phase>>
    BY <1>4 DEF LookForSleeper, storeVars, bodyVars
  <2>2. StoreTypes' /\ BodyTypes'
    BY <2>1 DEF Inv, StoreTypes, BodyTypes
  <2>3. PICK w \in Work : Moves("own", w) /\ w.pc \in {"register", "reclaim"} /\ w.n = r.n
    <3>1. PICK x \in Work : x = r
      BY <1>1
    <3>2. "register" \in Pc /\ "reclaim" \in Pc /\ sleeper.alive \in BOOLEAN
      BY DEF Pc, Inv, BodyTypes, Sleepers
    <3>3. CASE sleeper = NoSleeper
      <4> DEFINE y == [x EXCEPT !.pc = "register"]
      <4>1. y \in Work /\ y.pc = "register" /\ y.n = x.n
        BY <3>2 DEF Work
      <4>2. Moves("own", y)
        BY <1>1, <1>4, <3>1, <3>3 DEF Moves, LookForSleeper
      <4> QED
        BY <3>1, <4>1, <4>2
    <3>4. CASE sleeper # NoSleeper
      <4> DEFINE y == [x EXCEPT !.pc = "reclaim", !.alive = sleeper.alive]
      <4>1. y \in Work /\ y.pc = "reclaim" /\ y.n = x.n
        BY <3>2 DEF Work
      <4>2. Moves("own", y)
        BY <1>1, <1>4, <3>1, <3>4 DEF Moves, LookForSleeper
      <4> QED
        BY <3>1, <4>1, <4>2
    <3> QED
      BY <3>3, <3>4
  <2>4. Busy(w) /\ sleeper'.id = sleeper.id
    BY <1>1, <1>2, <2>1, <2>3 DEF Busy
  <2> QED
    BY <1>1, <1>2, <2>1, <2>2, <2>3, <2>4, StepKeeps
<1>5. CASE Reclaim
  <2>1. /\ UNCHANGED <<row, queue, sess, made, live, died, phase>> /\ sleeper' = NoSleeper
        /\ Goto("own", "register")
    BY <1>5 DEF Reclaim, storeVars
  <2>2. StoreTypes' /\ BodyTypes' /\ sleeper'.id = None
    BY <2>1, IdleFields DEF Inv, StoreTypes, BodyTypes, None
  <2>3. "register" \in Pc /\ "register" \notin {"flush", "saveDead", "staleDirty"}
    BY DEF Pc
  <2> QED
    BY <1>1, <1>2, <2>1, <2>2, <2>3, GotoKeeps
<1> QED
  BY <1>3, <1>4, <1>5

\* The registration writes the health of a session nobody has hit.
LEMMA RegisterKeeps ==
  ASSUME Inv, Register
  PROVE  Inv'
<1> DEFINE w == thread["own"]
<1>1. /\ "own" \in Thread /\ w \in Work /\ w.pc = "register" /\ Busy(w)
      /\ thread \in [Thread -> Work] /\ Done("own")
      /\ UNCHANGED <<row, queue, made, sleeper, died, phase>>
  BY DEF Register, At, Inv, ThreadTypes, Thread, storeVars
<1>2. /\ w.n = made /\ w.n \in Nat /\ w.n > 0 /\ w.alive \in BOOLEAN
      /\ \A u \in Attacker : thread[u].n < made
  BY <1>1 DEF Inv, Unregistered, Shaking, Busy, Work
<1>3. (sess' = [sess EXCEPT ![w.n] = w.alive] /\ live' = w.n) \/ UNCHANGED <<sess, live>>
  BY DEF Register
<1>4. Moves("own", Idle) /\ Idle \in Work /\ Idle.pc = "idle" /\ Idle.n = 0
  BY <1>1, DoneMoves
<1>5. /\ thread' \in [Thread -> Work] /\ thread'["own"] = Idle
      /\ \A u \in Thread \ {"own"} : thread'[u] = thread[u]
  BY <1>1, <1>4 DEF Moves
<1>6. StoreTypes'
  BY <1>1 DEF Inv, StoreTypes
<1>7. BodyTypes'
  <2>1. sess' \in [Session -> BOOLEAN]
    BY <1>2, <1>3 DEF Inv, BodyTypes
  <2>2. live' \in 0 .. made
    BY <1>2, <1>3 DEF Inv, BodyTypes
  <2> QED
    BY <1>1, <2>1, <2>2 DEF Inv, BodyTypes
<1>8. ThreadTypes'
  BY <1>1, <1>4, <1>5 DEF Inv, ThreadTypes, Busy, BodyTypes
<1>9. Unregistered'
  BY <1>4, <1>5 DEF Unregistered, Shaking
<1>10. DeathPending'
  <2>1. ~Saving("own")
    BY <1>1 DEF Saving
  <2>2. ASSUME NEW u \in Attacker, Saving(u) PROVE Saving(u)'
    <3>1. thread'[u] = thread[u] /\ thread[u].n # w.n
      BY <1>2, <1>5 DEF Attacker, Thread
    <3>2. thread[u].pc = "check" => sess'[thread[u].n] = sess[thread[u].n]
      <4>1. thread[u].pc = "check" => thread[u].n \in Session
        BY BoundAssumption DEF Attacker, Thread, Inv, ThreadTypes, Busy, Work, BodyTypes, Session
      <4> QED
        BY <1>3, <3>1, <4>1 DEF Inv, BodyTypes
    <3> QED
      BY <2>2, <3>1, <3>2 DEF Saving
  <2> QED
    BY <1>1, <2>1, <2>2 DEF Inv, DeathPending, Thread, Attacker
<1> QED
  BY <1>6, <1>7, <1>8, <1>9, <1>10 DEF Inv

\* A hit that kills makes its goroutine the one that saves; a hit never revives.
LEMMA HitKeeps ==
  ASSUME Inv, NEW t \in Attacker, Hit(t)
  PROVE  Inv'
<1> DEFINE n == thread[t].n
<1>1. /\ t \in Thread /\ thread \in [Thread -> Work] /\ thread[t].pc = "hit" /\ Busy(thread[t])
      /\ n \in Nat /\ n > 0 /\ n <= made /\ Goto(t, "check") /\ "check" \in Pc
      /\ UNCHANGED <<row, queue, made, live, sleeper, phase>>
  BY DEF Hit, At, Inv, ThreadTypes, BodyTypes, Busy, Work, Thread, Attacker, storeVars, Pc
<1>2. n \in Session
  BY <1>1, BoundAssumption DEF Inv, BodyTypes, Session
<1>3. PICK alive \in {FALSE, sess[n]} :
        /\ sess' = [sess EXCEPT ![n] = alive]
        /\ died' = (died \/ (sess[n] /\ ~alive))
  BY DEF Hit
<1>4. PICK w \in Work : Moves(t, w) /\ w.pc = "check" /\ w.n = n
  BY <1>1, GotoMoves
<1>5. /\ thread' \in [Thread -> Work] /\ thread'[t] = w
      /\ \A u \in Thread \ {t} : thread'[u] = thread[u]
  BY <1>1, <1>4 DEF Moves
<1>6. StoreTypes'
  BY <1>1 DEF Inv, StoreTypes
<1>7. BodyTypes'
  <2>1. alive \in BOOLEAN /\ died' \in BOOLEAN
    BY <1>2, <1>3, Zenon DEF Inv, BodyTypes
  <2>2. sess' \in [Session -> BOOLEAN]
    BY <1>2, <1>3, <2>1 DEF Inv, BodyTypes
  <2> QED
    BY <1>1, <2>1, <2>2 DEF Inv, BodyTypes
<1>8. ThreadTypes'
  BY <1>1, <1>4, <1>5 DEF Inv, ThreadTypes, Busy
<1>9. Unregistered'
  BY <1>1, <1>4, <1>5 DEF Inv, Unregistered, Attacker, Thread
<1>10. \A m \in Session : ~sess[m] => ~sess'[m]
  BY <1>2, <1>3 DEF Inv, BodyTypes
<1>11. sess'[n] = alive
  BY <1>2, <1>3 DEF Inv, BodyTypes
<1>12. ASSUME NEW u \in Thread, Saving(u) PROVE Saving(u)'
  <2>1. u # t
    BY <1>1, <1>12 DEF Saving
  <2>2. thread'[u] = thread[u]
    BY <1>5, <2>1
  <2>3. thread[u].pc = "check" => thread[u].n \in Session
    BY BoundAssumption DEF Inv, ThreadTypes, Busy, Work, BodyTypes, Session
  <2> QED
    BY <1>10, <1>12, <2>2, <2>3 DEF Saving
<1>13. died' => died \/ ~alive
  BY <1>3
<1>14. ~alive => Saving(t)'
  BY <1>4, <1>5, <1>11 DEF Saving
<1>15. DeathPending'
  BY <1>1, <1>12, <1>13, <1>14 DEF Inv, DeathPending
<1> QED
  BY <1>6, <1>7, <1>8, <1>9, <1>15 DEF Inv

\* The check after the hit finds the session without health.
LEMMA CheckKeeps ==
  ASSUME Inv, NEW t \in Attacker, Check(t)
  PROVE  Inv'
<1>1. /\ t \in Thread /\ thread \in [Thread -> Work] /\ thread[t].pc = "check" /\ Busy(thread[t])
      /\ thread[t].n \in Nat /\ thread[t].n > 0 /\ thread[t].n <= made
      /\ UNCHANGED <<row, queue, sess, made, live, sleeper, died, phase>>
  BY DEF Check, At, Inv, ThreadTypes, BodyTypes, Busy, Work, Thread, Attacker, storeVars, bodyVars
<1>2. StoreTypes' /\ BodyTypes'
  BY <1>1 DEF Inv, StoreTypes, BodyTypes
<1>3. CASE sess[thread[t].n]
  <2>1. Done(t) /\ ~Saving(t)
    BY <1>1, <1>3 DEF Check, Saving
  <2> QED
    BY <1>1, <1>2, <2>1, DoneKeeps
<1>4. CASE ~sess[thread[t].n]
  <2>1. PICK no \in BOOLEAN : no = FALSE
    BY Zenon
  <2>2. Begin(t, "flush", "kill", thread[t].n, no, no)
    BY <1>4, <2>1 DEF Check
  <2>3. "flush" \in Pc /\ "kill" \in Operation /\ "kill" \in FlushOp
    BY DEF Pc, Operation, FlushOp
  <2>4. PICK w \in Work : Moves(t, w) /\ w.pc = "flush" /\ w.op = "kill" /\ w.n = thread[t].n
                          /\ w.alive = no
    BY <1>1, <2>2, <2>3, BeginMoves
  <2>5. Busy(w) /\ w.pc \notin Shaking
    BY <1>1, <2>3, <2>4 DEF Busy, Shaking
  <2>6. Saving(t)'
    BY <1>1, <2>1, <2>4 DEF Saving, Moves
  <2> QED
    BY <1>1, <1>2, <2>4, <2>5, <2>6, StepKeeps
<1> QED
  BY <1>3, <1>4

\* A hit on the sleeper that kills it is followed by flush and save.
LEMMA HitSleeperKeeps ==
  ASSUME Inv, HitSleeper
  PROVE  Inv'
<1> DEFINE t == "other"
           n == thread[t].n
<1>1. /\ t \in Thread /\ thread \in [Thread -> Work] /\ thread[t].pc = "hitSleeper" /\ Busy(thread[t])
      /\ n \in Nat /\ n > 0 /\ n <= made
      /\ UNCHANGED <<row, queue, sess, made, live, phase>>
  BY DEF HitSleeper, At, Inv, ThreadTypes, BodyTypes, Busy, Work, Thread, storeVars
<1>2. ~Saving(t) /\ StoreTypes'
  BY <1>1 DEF Saving, Inv, StoreTypes
<1>3. CASE sleeper.id # n
  <2>1. Done(t) /\ sleeper' = sleeper /\ died' = died
    BY <1>3 DEF HitSleeper
  <2>2. BodyTypes'
    BY <1>1, <2>1 DEF Inv, BodyTypes
  <2> QED
    BY <1>1, <1>2, <2>1, <2>2, DoneKeeps
<1>4. CASE sleeper.id = n
  <2>1. PICK alive \in {FALSE, sleeper.alive} :
          /\ sleeper' = [sleeper EXCEPT !.alive = alive, !.dead = ~alive]
          /\ died' = (died \/ (sleeper.alive /\ ~alive))
          /\ IF alive THEN Done(t) ELSE Begin(t, "flush", "killSleeper", n, FALSE, FALSE)
    BY <1>4 DEF HitSleeper
  <2>2. sleeper \in Sleepers /\ alive \in BOOLEAN /\ died' \in BOOLEAN
    <3>1. sleeper \in Sleepers
      BY DEF Inv, BodyTypes
    <3>2. sleeper.alive \in BOOLEAN
      BY <3>1 DEF Sleepers
    <3> QED
      BY <2>1, <3>1, <3>2, Zenon
  <2>3. sleeper' \in Sleepers /\ sleeper'.id = sleeper.id
    <3>1. PICK s \in Sleepers : s = sleeper
      BY <2>2
    <3>2. PICK gone \in BOOLEAN : gone = ~alive
      BY Zenon
    <3>3. /\ [s EXCEPT !.alive = alive, !.dead = gone] \in Sleepers
          /\ [s EXCEPT !.alive = alive, !.dead = gone].id = s.id
      BY <2>2 DEF Sleepers
    <3> QED
      BY <2>1, <3>1, <3>2, <3>3
  <2>4. BodyTypes'
    BY <1>1, <1>4, <2>2, <2>3 DEF Inv, BodyTypes
  <2>5. CASE alive
    <3>1. died' = died /\ Done(t)
      BY <2>1, <2>5 DEF Inv, BodyTypes
    <3> QED
      BY <1>1, <1>2, <2>3, <2>4, <3>1, DoneKeeps
  <2>6. CASE ~alive
    <3>1. PICK no \in BOOLEAN : no = FALSE
      BY Zenon
    <3>2. Begin(t, "flush", "killSleeper", n, no, no)
      BY <2>1, <2>6, <3>1
    <3>3. "flush" \in Pc /\ "killSleeper" \in Operation /\ "killSleeper" \in FlushOp
      BY DEF Pc, Operation, FlushOp
    <3>4. PICK w \in Work : /\ Moves(t, w) /\ w.pc = "flush" /\ w.op = "killSleeper"
                            /\ w.n = n /\ w.alive = no
      BY <1>1, <3>2, <3>3, BeginMoves
    <3>5. /\ thread' \in [Thread -> Work] /\ thread'[t] = w
          /\ \A u \in Thread \ {t} : thread'[u] = thread[u]
      BY <1>1, <3>4 DEF Moves
    <3>6. ThreadTypes'
      BY <1>1, <3>3, <3>4, <3>5 DEF Inv, ThreadTypes, Busy
    <3>7. Unregistered'
      BY <1>1, <2>3, <3>4, <3>5 DEF Inv, Unregistered, Attacker, Thread
    <3>8. Saving(t)'
      BY <3>1, <3>4, <3>5 DEF Saving
    <3> QED
      BY <1>1, <1>2, <2>4, <3>6, <3>7, <3>8 DEF Inv, DeathPending
  <2> QED
    BY <2>5, <2>6
<1> QED
  BY <1>3, <1>4

\* The operations that start with the registered session.
LEMMA StartsKeep ==
  ASSUME Inv, \/ \E t \in Attacker : Aim(t)
              \/ Move \/ Disconnect \/ Kick \/ Stale \/ Checkpoint
  PROVE  Inv'
<1>1. /\ live # None /\ UNCHANGED <<row, queue, sess, made, live, sleeper, died, phase>>
      /\ \E t \in Thread : thread[t].pc = "idle" /\
           \E pc \in {"hit", "queue", "flush", "staleDirty", "staleClean"},
              op \in {"kill", "move", "disconnect", "kick", "stale", "checkpoint"},
              alive \in {TRUE, sess[live]}, stays \in BOOLEAN :
             /\ Begin(t, pc, op, live, alive, stays)
             /\ pc \in {"flush", "staleDirty"} => op \in {"disconnect", "kick", "stale"}
  <2>1. CASE \E t \in Attacker : Aim(t)
    BY <2>1, Zenon DEF Aim, Free, At, Thread, Attacker, storeVars, bodyVars
  <2>2. CASE Move
    BY <2>2, Zenon DEF Move, Free, At, Thread, storeVars, bodyVars
  <2>3. CASE Disconnect
    BY <2>3, Zenon DEF Disconnect, Free, At, Thread, storeVars, bodyVars
  <2>4. CASE Kick
    BY <2>4, Zenon DEF Kick, Free, At, Thread, storeVars, bodyVars
  <2>5. CASE Stale
    BY <2>5, Zenon DEF Stale, Free, At, Thread, storeVars, bodyVars
  <2>6. CASE Checkpoint
    BY <2>6, Zenon DEF Checkpoint, Free, At, Thread, storeVars, bodyVars
  <2> QED
    BY <2>1, <2>2, <2>3, <2>4, <2>5, <2>6
<1>2. PICK t \in Thread : thread[t].pc = "idle" /\
           \E pc \in {"hit", "queue", "flush", "staleDirty", "staleClean"},
              op \in {"kill", "move", "disconnect", "kick", "stale", "checkpoint"},
              alive \in {TRUE, sess[live]}, stays \in BOOLEAN :
             /\ Begin(t, pc, op, live, alive, stays)
             /\ pc \in {"flush", "staleDirty"} => op \in {"disconnect", "kick", "stale"}
  BY <1>1, Zenon
<1> PICK pc \in {"hit", "queue", "flush", "staleDirty", "staleClean"},
         op \in {"kill", "move", "disconnect", "kick", "stale", "checkpoint"},
         alive \in {TRUE, sess[live]}, stays \in BOOLEAN :
      /\ Begin(t, pc, op, live, alive, stays)
      /\ pc \in {"flush", "staleDirty"} => op \in {"disconnect", "kick", "stale"}
  BY <1>2, Zenon
<1>3. live \in Session /\ live > 0
  BY <1>1, BoundAssumption DEF Inv, BodyTypes, Session, None
<1>4. alive \in BOOLEAN
  BY <1>3, Zenon DEF Inv, BodyTypes
<1>5. /\ pc \in Pc /\ op \in Operation /\ pc \notin Shaking
      /\ pc \in {"flush", "saveDead", "staleDirty"} => op \in FlushOp
  BY DEF Pc, Operation, FlushOp, Shaking
<1>6. StoreTypes' /\ BodyTypes' /\ sleeper'.id = sleeper.id
  BY <1>1 DEF Inv, StoreTypes, BodyTypes
<1> QED
  BY <1>1, <1>2, <1>3, <1>4, <1>5, <1>6, BeginKeeps

\* The operations that start with the sleeper.
LEMMA SleeperStartsKeep ==
  ASSUME Inv, AimAtSleeper \/ TickSleeper
  PROVE  Inv'
<1>1. sleeper # NoSleeper /\ sleeper.id > 0 /\ sleeper.alive \in BOOLEAN
  BY DEF AimAtSleeper, TickSleeper, Inv, BodyTypes, Sleepers
<1>2. PICK no, yes \in BOOLEAN : no = FALSE /\ yes = TRUE
  BY Zenon
<1>3. UNCHANGED <<row, queue, sess, made, live, died, phase>>
  BY DEF AimAtSleeper, TickSleeper, storeVars, bodyVars
<1>4. CASE AimAtSleeper
  <2>1. /\ "other" \in Thread /\ thread["other"].pc = "idle" /\ sleeper' = sleeper
        /\ Begin("other", "hitSleeper", "killSleeper", sleeper.id, yes, no)
    BY <1>2, <1>4 DEF AimAtSleeper, Free, At, Thread, bodyVars
  <2>2. /\ "hitSleeper" \in Pc \ Shaking /\ "killSleeper" \in Operation
        /\ "hitSleeper" \notin {"flush", "saveDead", "staleDirty"}
    BY DEF Pc, Shaking, Operation, FlushOp
  <2>3. StoreTypes' /\ BodyTypes' /\ sleeper'.id = sleeper.id
    BY <1>3, <2>1 DEF Inv, StoreTypes, BodyTypes
  <2> QED
    BY <1>1, <1>3, <2>1, <2>2, <2>3, BeginKeeps
<1>5. CASE TickSleeper
  <2>1. /\ "tick" \in Thread /\ thread["tick"].pc = "idle" /\ sleeper' = NoSleeper
        /\ \E op \in {"death", "expire"} :
             Begin("tick", "flush", op, sleeper.id, sleeper.alive, no)
    BY <1>2, <1>5 DEF TickSleeper, Free, At, Thread
  <2>2. "flush" \in Pc \ Shaking /\ {"death", "expire"} \subseteq Operation \cap FlushOp
    BY DEF Pc, Shaking, Operation, FlushOp
  <2>3. StoreTypes' /\ BodyTypes' /\ sleeper'.id = None
    BY <1>3, <2>1, IdleFields DEF Inv, StoreTypes, BodyTypes, None
  <2> QED
    BY <1>1, <1>3, <2>1, <2>2, <2>3, BeginKeeps
<1> QED
  BY <1>4, <1>5

\* Rejected hits, the removal of a stale session, and writes to the queue.
LEMMA OthersKeep ==
  ASSUME Inv,
         \/ \E t \in Attacker : Reject(t)
         \/ RemoveStale
         \/ \E t \in {"own", "tick"} : QueueTransform(t)
  PROVE  Inv'
<1>1. ASSUME NEW t \in Attacker, Reject(t) PROVE Inv'
  <2>1. /\ t \in Thread /\ Done(t) /\ ~Saving(t)
        /\ UNCHANGED <<row, queue, sess, made, live, sleeper, died, phase>>
    BY <1>1 DEF Reject, At, Saving, Attacker, Thread, storeVars, bodyVars
  <2>2. StoreTypes' /\ BodyTypes'
    BY <2>1 DEF Inv, StoreTypes, BodyTypes
  <2> QED
    BY <2>1, <2>2, DoneKeeps
<1>2. ASSUME RemoveStale PROVE Inv'
  <2> DEFINE t == "tick"
  <2>1. /\ t \in Thread /\ thread[t] \in Work /\ thread \in [Thread -> Work] /\ Busy(thread[t])
        /\ UNCHANGED <<row, queue, sess, made, sleeper, died, phase>> /\ live' \in {live, None}
    BY <1>2 DEF RemoveStale, Thread, Inv, ThreadTypes, storeVars
  <2>2. StoreTypes' /\ BodyTypes'
    BY <2>1 DEF Inv, StoreTypes, BodyTypes, None
  <2>3. \/ thread[t].pc = "staleDirty" /\ Goto(t, "flush")
        \/ thread[t].pc = "staleClean" /\ Goto(t, "sleep")
    BY <1>2 DEF RemoveStale, At
  <2>4. ~Saving(t) /\ thread[t].pc # "idle"
    BY <2>3 DEF Saving
  <2>5. {"flush", "sleep"} \subseteq Pc \ Shaking
    BY DEF Pc, Shaking
  <2>6. PICK w \in Work : /\ Moves(t, w) /\ w.pc \in {"flush", "sleep"}
                          /\ w.n = thread[t].n /\ w.op = thread[t].op
                          /\ w.pc = "flush" => thread[t].pc = "staleDirty"
    BY <2>1, <2>3, <2>5, GotoMoves
  <2>7. Busy(w)
    BY <2>1, <2>3, <2>4, <2>6 DEF Busy
  <2> QED
    BY <2>1, <2>2, <2>4, <2>5, <2>6, <2>7, StepKeeps
<1>3. ASSUME NEW t \in {"own", "tick"}, QueueTransform(t) PROVE Inv'
  <2>1. /\ t \in Thread /\ Done(t) /\ ~Saving(t) /\ thread[t] \in Work
        /\ UNCHANGED <<row, sess, made, live, sleeper, died>>
    BY <1>3 DEF QueueTransform, At, Saving, Thread, bodyVars, Inv, ThreadTypes
  <2>2. [kind |-> "transform", alive |-> thread[t].alive] \in Job
    BY <2>1 DEF Job, Work
  <2>3. StoreTypes' /\ BodyTypes'
    BY <1>3, <2>1, <2>2, QueueWriteKeeps DEF QueueTransform, Inv, BodyTypes
  <2> QED
    BY <2>1, <2>3, DoneKeeps
<1> QED
  BY <1>1, <1>2, <1>3

\* Every step keeps the invariant.
LEMMA InvNext == Inv /\ [Next]_vars => Inv'
<1> SUFFICES ASSUME Inv, [Next]_vars PROVE Inv'
  OBVIOUS
<1>1. CASE WriteJob
  BY <1>1, WriteJobKeeps
<1>2. CASE Handshake
  BY <1>2, HandshakeKeeps
<1>3. CASE Respawn \/ LookForSleeper \/ Reclaim
  BY <1>3, ShakingKeeps
<1>4. CASE Register
  BY <1>4, RegisterKeeps
<1>5. CASE Move \/ Disconnect \/ Kick \/ Stale \/ Checkpoint \/ \E t \in Attacker : Aim(t)
  BY <1>5, StartsKeep
<1>6. CASE AimAtSleeper \/ TickSleeper
  BY <1>6, SleeperStartsKeep
<1>7. CASE HitSleeper
  BY <1>7, HitSleeperKeeps
<1>8. CASE RemoveStale \/ (\E t \in Attacker : Reject(t))
             \/ \E t \in {"own", "tick"} : QueueTransform(t)
  BY <1>8, OthersKeep
<1>9. CASE CreditPlayTime
  <2>1. QueueWrite([kind |-> "stats"]) /\ row' = row /\ UNCHANGED <<bodyVars, thread>>
    BY <1>9 DEF CreditPlayTime
  <2>2. [kind |-> "stats"] \in Job
    BY DEF Job
  <2>3. StoreTypes'
    BY <2>1, <2>2, QueueWriteKeeps DEF Inv
  <2> QED
    BY <2>1, <2>3, StillKeeps
<1>10. ASSUME NEW t \in Thread, Flush(t) \/ Save(t) PROVE Inv'
  BY <1>10, FlushKeeps, SaveKeeps
<1>11. ASSUME NEW t \in Attacker, Hit(t) \/ Check(t) PROVE Inv'
  BY <1>11, HitKeeps, CheckKeeps
<1>12. ASSUME NEW t \in {"own", "tick"}, Sleep(t) PROVE Inv'
  BY <1>12, SleepKeeps
<1>13. CASE (\E t \in {"own", "other"} : Remove(t)) \/ RemoveSleeper("other")
  BY <1>13, RemovalsKeep
<1>14. CASE CloseQueue \/ CloseDatabase
  <2>1. UNCHANGED <<row, queue, bodyVars, thread>> /\ phase' \in {"draining", "closed"}
    BY <1>14 DEF CloseQueue, CloseDatabase, storeVars
  <2>2. StoreTypes'
    BY <2>1 DEF Inv, StoreTypes
  <2> QED
    BY <2>1, <2>2, StillKeeps
<1>15. CASE UNCHANGED vars
  <2>1. UNCHANGED <<row, queue, phase, bodyVars, thread>>
    BY <1>15 DEF vars, bodyVars
  <2>2. StoreTypes'
    BY <2>1 DEF Inv, StoreTypes
  <2> QED
    BY <2>1, <2>2, StillKeeps
<1> QED
  BY <1>1, <1>2, <1>3, <1>4, <1>5, <1>6, <1>7, <1>8, <1>9, <1>10, <1>11, <1>12, <1>13, <1>14,
     <1>15 DEF Next

\* A character that died is stored as dead once the goroutines are at rest, until it
\* respawns: for any number of sessions and any queue, whatever interleaves with the kill.
THEOREM Deaths == Spec => []DeathSafe
<1>1. Inv => DeathSafe
  <2> SUFFICES ASSUME Inv PROVE DeathSafe
    OBVIOUS
  <2>1. sleeper \in [id: 0 .. made, alive: BOOLEAN, dead: BOOLEAN]
    BY DEF Inv, BodyTypes, Sleepers
  <2>2. thread \in [Thread -> [pc: Pc, op: Operation, n: 0 .. made, alive: BOOLEAN, stays: BOOLEAN]]
    BY DEF Inv, BodyTypes, ThreadTypes, Busy, Work
  <2>3. TypeOK
    BY <2>1, <2>2, Zenon DEF Inv, StoreTypes, BodyTypes, TypeOK
  <2>4. ASSUME \A t \in Thread : thread[t].pc = "idle" PROVE \A t \in Thread : ~Saving(t)
    BY <2>4 DEF Saving
  <2>5. DeathRecorded
    BY <2>4 DEF Inv, DeathPending, DeathRecorded
  <2> QED
    BY <2>3, <2>5 DEF DeathSafe
<1> QED
  BY <1>1, InvInit, InvNext, PTL DEF Spec

=============================================================================
