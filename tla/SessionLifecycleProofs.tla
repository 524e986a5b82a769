------------------------ MODULE SessionLifecycleProofs ------------------------
(***************************************************************************)
(* Proofs about SessionLifecycle, for any number of endpoints, accounts    *)
(* and sessions, any cap, and every interleaving of the workers, the tick  *)
(* and a kick.                                                             *)
(*                                                                         *)
(* That a live player is in the grid holds only between handlers.  The     *)
(* inductive invariant says who is responsible for a player that is not:   *)
(* some thread is about to insert it or to take it out of the registry.    *)
(* A thread that removes an id from the grid must therefore have one that  *)
(* is not live, or whose owner is leaving: this is what the clauses about  *)
(* bodies and evicted sessions say.  They are stable because an id that    *)
(* anybody has seen never enters the registry again.                       *)
(***************************************************************************)
EXTENDS SessionLifecycle, FiniteSetTheorems, TLAPS

Joining == {"look", "reclaim", "reclaimGrid", "add"}
Leaves == {"sleepGrid", "leave"}
Pc == {"idle", "evict", "leaveGrid", "sleep", "lock", "seen", "move", "kill", "killGrid",
       "expire", "sessions", "staleGrid", "staleRemove", "staleSleep", "staleSleepGrid",
       "kickGrid", "kickRemove"} \cup Joining \cup Leaves
Work == [pc: Pc, s: Nat, sleeper: Nat, todo: SUBSET Nat, flag: BOOLEAN]
Entry == [addr: Addr \cup {None}, account: Account \cup {None}]

\* What a thread holds are ids of sessions that were made.
Known(w) == w.s \in 0 .. seq /\ w.sleeper \in 0 .. seq /\ w.todo \subseteq 1 .. seq

Types ==
  /\ TypeOK
  /\ who \in [Id -> Entry]
  /\ worker \in [Addr -> Work] /\ tick \in Work /\ kick \in Work
  /\ \A a \in Addr : Known(worker[a])
  /\ Known(tick) /\ Known(kick)

\* A worker handles packets of sessions at its endpoint only.
Owns(a, w) == w.pc \notin {"idle", "kill", "killGrid"} => w.s > 0 /\ AddrOf(w.s) = a
Owners == \A a \in Addr : Owns(a, worker[a])

\* The tick has a session in the steps that clean up after one, and so has the kick.
HasSession ==
  /\ tick.pc \in {"staleGrid", "staleRemove", "staleSleep", "staleSleepGrid"} => tick.s > 0
  /\ kick.pc # "idle" => kick.s > 0

\* The session of a handshake that is not registered has been seen by nobody.
Unseen(n) ==
  /\ n \notin live /\ n \notin sleepers
  /\ n # tick.s /\ n \notin tick.todo /\ n # kick.s
  /\ \A b \in Addr : n # worker[b].sleeper /\ n \notin worker[b].todo
Newcomers == \A a \in Addr : worker[a].pc \in Joining => Unseen(worker[a].s)

\* A session is out of the registry, or its worker is about to take it out.
Gone(n) == n \notin live \/ \E a \in Addr : worker[a].pc \in Leaves /\ worker[a].s = n

Bodies ==
  /\ \A n \in sleepers : Gone(n)
  /\ \A b \in Addr : Gone(worker[b].sleeper)
  /\ tick.pc = "expire" => \A n \in tick.todo : Gone(n)
  /\ tick.pc \in {"staleSleep", "staleSleepGrid"} => tick.s \notin live

Evicted == \A b \in Addr : worker[b].todo \cap live = {}

\* A thread that is about to insert n into the grid, or to remove it from the registry.
Covers(w, n) ==
  /\ w.pc \in {"move", "sleep"} \cup Leaves \/ (w.pc = "evict" /\ w.flag)
  /\ w.s = n
Explained(n) ==
  \/ \E a \in Addr : Covers(worker[a], n)
  \/ tick.pc = "staleRemove" /\ tick.s = n
  \/ kick.pc = "kickRemove" /\ kick.s = n

Present == \A n \in live \ creating : n \in grid \/ Explained(n)

Inv == Types /\ Owners /\ HasSession /\ Newcomers /\ Bodies /\ Evicted /\ Present

-----------------------------------------------------------------------------
\* The worker of a goes on with w.
Moves(a, w) == worker' = [worker EXCEPT ![a] = w]

\* The fields of w.
Fields(w, pc, n, m, X, f) ==
  w \in Work /\ w.pc = pc /\ w.s = n /\ w.sleeper = m /\ w.todo = X /\ w.flag = f

\* An idle thread holds nothing.
LEMMA IdleWork ==
  /\ Idle \in Work /\ Idle.pc = "idle" /\ Idle.s = 0 /\ Idle.sleeper = 0 /\ Idle.todo = {}
  /\ Idle.flag = FALSE
<1>1. "idle" \in Pc /\ 0 \in Nat
  BY DEF Pc
<1>2. Idle \in Work
  BY <1>1, Zenon DEF Idle, Work, None
<1> QED
  BY <1>2 DEF Idle, None

\* The updates of a thread's fields that the steps make.
LEMMA Updates ==
  ASSUME NEW r \in Work, NEW pc \in Pc, NEW n \in Nat, NEW X \in SUBSET Nat, NEW f \in BOOLEAN
  PROVE  /\ Fields([r EXCEPT !.pc = pc], pc, r.s, r.sleeper, r.todo, r.flag)
         /\ Fields([r EXCEPT !.pc = pc, !.s = n], pc, n, r.sleeper, r.todo, r.flag)
         /\ Fields([r EXCEPT !.pc = pc, !.s = n, !.flag = f], pc, n, r.sleeper, r.todo, f)
         /\ Fields([r EXCEPT !.pc = pc, !.sleeper = n], pc, r.s, n, r.todo, r.flag)
         /\ Fields([r EXCEPT !.pc = pc, !.todo = X], pc, r.s, r.sleeper, X, r.flag)
         /\ Fields([r EXCEPT !.pc = pc, !.todo = X, !.flag = f], pc, r.s, r.sleeper, X, f)
         /\ Fields([r EXCEPT !.todo = X], r.pc, r.s, r.sleeper, X, r.flag)
  BY DEF Work, Fields

\* The invariant holds initially.
LEMMA InvInit == Init => Inv
<1> SUFFICES ASSUME Init PROVE Inv
  OBVIOUS
<1> USE IdleWork, MaxSessionsAssumption
<1>1. Types
  <2>1. TypeOK
    BY DEF Init, TypeOK
  <2>2. who \in [Id -> Entry]
    <3>1. [addr |-> None, account |-> None] \in Entry
      BY DEF Entry
    <3> QED
      BY <3>1 DEF Init
  <2>3. worker \in [Addr -> Work] /\ tick = Idle /\ kick = Idle /\ \A a \in Addr : worker[a] = Idle
    BY DEF Init
  <2>4. Known(Idle)
    BY DEF Init, Known
  <2> QED
    BY <2>1, <2>2, <2>3, <2>4 DEF Types
<1>2. Owners /\ HasSession /\ Newcomers /\ Evicted
  BY DEF Init, Owners, Owns, HasSession, Newcomers, Joining, Evicted
<1>3. Bodies /\ Present
  BY DEF Init, Bodies, Gone, Present
<1> QED
  BY <1>1, <1>2, <1>3 DEF Inv

\* A step of a worker that registers nobody: it takes up nothing but its own session and
\* bodies it has seen, and what it covers, or takes from the grid, stays covered.
LEMMA WorkerKeeps ==
  ASSUME Inv, NEW a \in Addr, NEW w \in Work, Moves(a, w),
         UNCHANGED <<seq, who, tick, kick>>,
         created' \subseteq Account, creating' \subseteq creating, grid' \subseteq 1 .. seq,
         Known(w), Owns(a, w),
         live' \subseteq live,
         sleepers' \subseteq sleepers \cup {worker[a].s},
         worker[a].s \in sleepers' \ sleepers =>
           worker[a].s > 0 /\ worker[a].pc \notin Joining /\ AddrOf(worker[a].s) = a
             /\ w.pc \in Leaves /\ w.s = worker[a].s,
         w.pc \in Joining => worker[a].pc \in Joining /\ w.s = worker[a].s,
         w.todo \subseteq worker[a].todo,
         w.sleeper \in sleepers \cup {worker[a].sleeper, None},
         worker[a].pc \in Leaves =>
           (w.pc \in Leaves /\ w.s = worker[a].s) \/ worker[a].s \notin live',
         \A n \in live' \cap creating : n \notin creating' => Covers(w, n),
         \A n \in live' \cap grid : n \notin grid' =>
           Covers(w, n) \/ \E b \in Addr : b # a /\ Covers(worker[b], n),
         \A n \in live' \ creating' : Covers(worker[a], n) => Covers(w, n) \/ n \in grid'
  PROVE  Inv'
<1>1. /\ worker' \in [Addr -> Work] /\ worker'[a] = w
      /\ \A b \in Addr \ {a} : worker'[b] = worker[b]
  BY DEF Moves, Inv, Types
<1>2. sleepers' \subseteq 1 .. seq /\ live' \subseteq 1 .. seq /\ creating' \subseteq 1 .. seq
  <2>1. worker[a].s \in 0 .. seq
    BY DEF Inv, Types, Known
  <2>2. sleepers \subseteq 1 .. seq /\ live \subseteq 1 .. seq /\ creating \subseteq 1 .. seq
          /\ seq \in Nat
    BY DEF Inv, Types, TypeOK
  <2>3. ASSUME NEW n \in sleepers' PROVE n \in 1 .. seq
    BY <2>1, <2>2
  <2> QED
    BY <2>2, <2>3
<1>3. Types'
  <2>1. TypeOK'
    BY <1>2 DEF Inv, Types, TypeOK, AddrOf, AccountOf
  <2>2. \A b \in Addr : Known(worker[b])'
    BY <1>1 DEF Inv, Types, Known
  <2> QED
    BY <1>1, <2>1, <2>2 DEF Inv, Types, Known
<1>4. Owners'
  BY <1>1 DEF Inv, Owners, Owns, AddrOf
<1>5. HasSession'
  BY DEF Inv, HasSession
<1>6. Newcomers'
  <2> SUFFICES ASSUME NEW b \in Addr, worker'[b].pc \in Joining
               PROVE  Unseen(worker[b].s)'
    BY DEF Newcomers
  <2>1. worker[b].pc \in Joining /\ worker'[b].s = worker[b].s
    BY <1>1
  <2> DEFINE n == worker[b].s
  <2>2. Unseen(n) /\ n > 0 /\ AddrOf(n) = b
    BY <2>1 DEF Inv, Newcomers, Owners, Owns, Joining
  <2>3. n \notin live'
    BY <2>2 DEF Unseen
  <2>4. n \notin sleepers'
    BY <2>1, <2>2 DEF Unseen
  <2>5. n # w.sleeper /\ n \notin w.todo
    BY <2>2 DEF Unseen, None, Inv, Types, Work
  <2>6. \A c \in Addr : n # worker'[c].sleeper /\ n \notin worker'[c].todo
    BY <1>1, <2>2, <2>5 DEF Unseen
  <2> QED
    BY <2>1, <2>2, <2>3, <2>4, <2>6 DEF Unseen
<1>7. ASSUME NEW n, Gone(n) PROVE Gone(n)'
  <2>1. CASE n \notin live
    BY <2>1 DEF Gone
  <2>2. ASSUME NEW b \in Addr, worker[b].pc \in Leaves, worker[b].s = n PROVE Gone(n)'
    <3>1. CASE b = a
      BY <1>1, <2>2, <3>1 DEF Gone
    <3>2. CASE b # a
      BY <1>1, <2>2, <3>2 DEF Gone
    <3> QED
      BY <3>1, <3>2
  <2> QED
    BY <1>7, <2>1, <2>2 DEF Gone
<1>8. Bodies'
  <2>1. ASSUME NEW n \in sleepers' PROVE Gone(n)'
    <3>1. CASE n \in sleepers
      BY <1>7, <3>1 DEF Inv, Bodies
    <3>2. CASE n \notin sleepers
      BY <1>1, <3>2 DEF Gone
    <3> QED
      BY <3>1, <3>2
  <2>2. Gone(None)'
    BY <1>2 DEF Gone, None
  <2>3. ASSUME NEW b \in Addr PROVE Gone(worker[b].sleeper)'
    <3>1. CASE b = a
      BY <1>1, <1>7, <2>2, <3>1 DEF Inv, Bodies
    <3>2. CASE b # a
      BY <1>1, <1>7, <3>2 DEF Inv, Bodies
    <3> QED
      BY <3>1, <3>2
  <2>4. tick'.pc = "expire" => \A n \in tick'.todo : Gone(n)'
    BY <1>7 DEF Inv, Bodies
  <2>5. tick'.pc \in {"staleSleep", "staleSleepGrid"} => tick'.s \notin live'
    BY DEF Inv, Bodies
  <2> QED
    BY <2>1, <2>3, <2>4, <2>5 DEF Bodies
<1>9. Evicted'
  BY <1>1 DEF Inv, Evicted
<1>10. Present'
  <2> SUFFICES ASSUME NEW n \in live' \ creating', n \notin grid' PROVE Explained(n)'
    BY DEF Present
  <2>1. ASSUME NEW b \in Addr, b # a, Covers(worker[b], n) PROVE Explained(n)'
    BY <1>1, <2>1 DEF Explained, Covers
  <2>2. ASSUME Covers(w, n) PROVE Explained(n)'
    BY <1>1, <2>2 DEF Explained, Covers
  <2>3. CASE n \in creating
    BY <2>2, <2>3
  <2>4. CASE n \in grid
    BY <2>1, <2>2, <2>4
  <2>5. CASE n \notin creating /\ n \notin grid
    <3>1. Explained(n)
      BY <2>5 DEF Inv, Present
    <3>2. CASE \E b \in Addr : Covers(worker[b], n)
      BY <2>1, <2>2, <3>2
    <3>3. CASE ~\E b \in Addr : Covers(worker[b], n)
      BY <3>1, <3>3 DEF Explained
    <3> QED
      BY <3>2, <3>3
  <2> QED
    BY <2>3, <2>4, <2>5
<1> QED
  BY <1>3, <1>4, <1>5, <1>6, <1>8, <1>9, <1>10 DEF Inv

\* The worker of a step: what it holds, and where Goto and Done lead.
LEMMA WorkerSteps ==
  ASSUME Inv, NEW a \in Addr
  PROVE  /\ worker \in [Addr -> Work] /\ worker[a] \in Work
         /\ worker[a].s \in Nat /\ worker[a].sleeper \in Nat
         /\ Known(worker[a]) /\ Owns(a, worker[a])
         /\ \A pc \in Pc : Goto(a, pc) =>
              \E w \in Work : /\ Moves(a, w)
                              /\ Fields(w, pc, worker[a].s, worker[a].sleeper, worker[a].todo,
                                        worker[a].flag)
         /\ Done(a) => Moves(a, Idle)
<1>1. worker \in [Addr -> Work] /\ Known(worker[a]) /\ Owns(a, worker[a])
  BY DEF Inv, Types, Owners
<1>2. PICK r \in Work : r = worker[a]
  BY <1>1
<1>3. r.s \in Nat /\ r.sleeper \in Nat
  BY DEF Work
<1>4. ASSUME NEW pc \in Pc, Goto(a, pc)
      PROVE  \E w \in Work : Moves(a, w) /\ Fields(w, pc, r.s, r.sleeper, r.todo, r.flag)
  <2> DEFINE w == [r EXCEPT !.pc = pc]
  <2>1. Fields(w, pc, r.s, r.sleeper, r.todo, r.flag)
    BY DEF Work, Fields
  <2>2. Moves(a, w)
    BY <1>2, <1>4 DEF Goto, Moves
  <2>3. w \in Work
    BY <2>1 DEF Fields
  <2> QED
    BY <2>1, <2>2, <2>3
<1>5. Done(a) => Moves(a, Idle)
  BY DEF Done, Moves
<1> QED
  BY <1>1, <1>2, <1>3, <1>4, <1>5

\* A worker takes up a packet.
LEMMA BeginsKeep ==
  ASSUME Inv, NEW a \in Addr,
         \/ \E leaveBody \in BOOLEAN : Disconnect(a, leaveBody)
         \/ Transform(a) \/ LevelChange(a) \/ CharacterSelect(a) \/ KillSleeper(a)
  PROVE  Inv'
<1> USE IdleWork
<1>1. worker[a] = Idle /\ UNCHANGED <<seq, who, live, grid, sleepers, tick, kick>>
  BY DEF Disconnect, Transform, LevelChange, CharacterSelect, KillSleeper, Begin
<1>2. created' \subseteq Account /\ creating' \subseteq creating
  <2>1. CASE CharacterSelect(a)
    <3>1. PICK n \in live : creating' = creating \ {n} /\ created' = created \cup {AccountOf(n)}
      BY <2>1 DEF CharacterSelect, GetByAddr
    <3>2. AccountOf(n) \in Account
      BY FromAssumption DEF Inv, Types, TypeOK
    <3> QED
      BY <3>1, <3>2 DEF Inv, Types, TypeOK
  <2>2. CASE ~CharacterSelect(a)
    BY <2>2 DEF Disconnect, Transform, LevelChange, KillSleeper, Inv, Types, TypeOK
  <2> QED
    BY <2>1, <2>2
<1>3. \A n \in live : n \in 1 .. seq /\ n \in Nat /\ n > 0
  BY DEF Inv, Types, TypeOK
<1>4. grid \subseteq 1 .. seq /\ Known(Idle) /\ seq \in Nat
  BY DEF Inv, Types, TypeOK, Known
<1>5. ASSUME NEW n \in live, AddrOf(n) = a, NEW w \in Work, NEW f \in BOOLEAN,
             NEW pc \in {"leaveGrid", "lock", "move"}, Moves(a, w), Fields(w, pc, n, 0, {}, f),
             creating' = creating \/ (creating' = creating \ {n} /\ pc = "move")
      PROVE  Inv'
  <2>1. Known(w) /\ Owns(a, w)
    BY <1>3, <1>4, <1>5 DEF Known, Owns, Fields
  <2>2. w.pc \notin Joining \cup Leaves /\ worker[a].pc \notin Joining \cup Leaves
    BY <1>1, <1>5 DEF Joining, Leaves, Fields
  <2>3. \A m : ~Covers(worker[a], m)
    BY <1>1, <2>2 DEF Covers
  <2>4. \A m \in live' \cap creating : m \notin creating' => Covers(w, m)
    BY <1>1, <1>5 DEF Covers, Fields
  <2>5. w.todo \subseteq worker[a].todo /\ w.sleeper \in sleepers \cup {worker[a].sleeper, None}
    BY <1>1, <1>5 DEF Fields
  <2> QED
    BY <1>1, <1>2, <1>4, <1>5, <2>1, <2>2, <2>3, <2>4, <2>5, WorkerKeeps
<1>6. PICK no \in BOOLEAN : no = FALSE
  BY Zenon
<1>7. {"leaveGrid", "lock", "move", "kill"} \subseteq Pc
  BY DEF Pc
<1>8. CASE \E leaveBody \in BOOLEAN : Disconnect(a, leaveBody)
  <2>1. PICK f \in BOOLEAN, n \in live :
          /\ AddrOf(n) = a /\ creating' = creating
          /\ Moves(a, [Idle EXCEPT !.pc = "leaveGrid", !.s = n, !.flag = f])
    BY <1>8 DEF Disconnect, GetByAddr, Begin, Moves
  <2>2. Fields([Idle EXCEPT !.pc = "leaveGrid", !.s = n, !.flag = f], "leaveGrid", n, 0, {}, f)
    BY <1>3, <1>7, Updates
  <2> QED
    BY <1>5, <2>1, <2>2 DEF Fields
<1>9. CASE Transform(a)
  <2>1. PICK n \in live : /\ AddrOf(n) = a /\ creating' = creating
                          /\ Moves(a, [Idle EXCEPT !.pc = "lock", !.s = n])
    BY <1>9 DEF Transform, GetByAddr, Begin, Moves
  <2>2. Fields([Idle EXCEPT !.pc = "lock", !.s = n], "lock", n, 0, {}, no)
    BY <1>3, <1>6, <1>7, Updates
  <2> QED
    BY <1>5, <2>1, <2>2 DEF Fields
<1>10. CASE LevelChange(a) \/ CharacterSelect(a)
  <2>1. PICK n \in live : /\ AddrOf(n) = a /\ (creating' = creating \/ creating' = creating \ {n})
                          /\ Moves(a, [Idle EXCEPT !.pc = "move", !.s = n])
    BY <1>10 DEF LevelChange, CharacterSelect, GetByAddr, Begin, Moves
  <2>2. Fields([Idle EXCEPT !.pc = "move", !.s = n], "move", n, 0, {}, no)
    BY <1>3, <1>6, <1>7, Updates
  <2> QED
    BY <1>5, <2>1, <2>2 DEF Fields
<1>11. CASE KillSleeper(a)
  <2>1. PICK n \in sleepers : /\ creating' = creating
                              /\ Moves(a, [Idle EXCEPT !.pc = "kill", !.sleeper = n])
    BY <1>11 DEF KillSleeper, Begin, Moves
  <2>2. n \in 1 .. seq /\ n \in Nat
    BY DEF Inv, Types, TypeOK
  <2>3. Fields([Idle EXCEPT !.pc = "kill", !.sleeper = n], "kill", 0, n, {}, no)
    BY <1>6, <1>7, <2>2, Updates
  <2>4. PICK w \in Work : Moves(a, w) /\ Fields(w, "kill", 0, n, {}, no)
    BY <2>1, <2>3 DEF Fields
  <2>5. Known(w) /\ Owns(a, w)
    BY <1>4, <2>2, <2>4 DEF Known, Owns, Fields
  <2>6. w.pc \notin Joining \cup Leaves /\ worker[a].pc \notin Joining \cup Leaves
    BY <1>1, <2>4 DEF Joining, Leaves, Fields
  <2>7. \A m : ~Covers(worker[a], m)
    BY <1>1, <2>6 DEF Covers
  <2>8. w.todo \subseteq worker[a].todo /\ w.sleeper \in sleepers
    BY <1>1, <2>4 DEF Fields
  <2> QED
    BY <1>1, <1>2, <1>4, <2>1, <2>4, <2>5, <2>6, <2>7, <2>8, WorkerKeeps
<1> QED
  BY <1>8, <1>9, <1>10, <1>11

\* A thread that has looked up a body removes it from the grid: its session is not live,
\* or the worker of its endpoint covers it.
LEMMA RemoveBody ==
  ASSUME Inv, NEW a \in Addr, worker[a].pc \notin Leaves
  PROVE  worker[a].sleeper \in live =>
           \E b \in Addr : b # a /\ Covers(worker[b], worker[a].sleeper)
<1>1. Gone(worker[a].sleeper)
  BY DEF Inv, Bodies
<1> QED
  BY <1>1 DEF Gone, Covers

\* A step of a handshake, but for the registration.
LEMMA HandshakeKeeps ==
  ASSUME Inv, NEW a \in Addr,
         \/ LookForSleeper(a) \/ Reclaim(a) \/ ReclaimGrid(a)
         \/ \E m \in worker[a].todo : CleanupEvicted(a, m)
         \/ FinishHandshake(a)
  PROVE  Inv'
<1> USE IdleWork
<1>1. /\ worker[a] \in Work /\ Known(worker[a]) /\ Owns(a, worker[a])
      /\ worker[a].s \in 0 .. seq
  BY WorkerSteps DEF Known
<1>2. UNCHANGED <<seq, who, created, live, tick, kick>>
  BY DEF LookForSleeper, Reclaim, ReclaimGrid, CleanupEvicted, FinishHandshake
<1>3. created' \subseteq Account /\ grid \subseteq 1 .. seq /\ seq \in Nat
  BY <1>2 DEF Inv, Types, TypeOK
<1>4. {"reclaim", "reclaimGrid", "add"} \subseteq Pc /\ Joining \cap Leaves = {}
  BY DEF Pc, Joining, Leaves
<1>5. ASSUME worker[a].pc \in Joining, NEW w \in Work, NEW pc \in Joining, NEW m,
             Moves(a, w), Fields(w, pc, worker[a].s, m, worker[a].todo, worker[a].flag),
             m \in sleepers \cup {worker[a].sleeper},
             creating' = creating \/ creating' = creating \ {worker[a].s},
             sleepers' \subseteq sleepers,
             grid' = grid \/ grid' = grid \ {worker[a].sleeper}
      PROVE  Inv'
  <2>1. sleepers \subseteq 1 .. seq
    BY DEF Inv, Types, TypeOK
  <2>2. Known(w) /\ Owns(a, w)
    BY <1>1, <1>4, <1>5, <2>1 DEF Known, Owns, Fields, Joining
  <2>3. worker[a].s \notin live
    BY <1>5 DEF Inv, Newcomers, Unseen
  <2>4. \A n : ~Covers(worker[a], n)
    BY <1>5 DEF Covers, Joining, Leaves
  <2>5. \A n \in live' \cap grid : n \notin grid' =>
          Covers(w, n) \/ \E b \in Addr : b # a /\ Covers(worker[b], n)
    BY <1>2, <1>4, <1>5, RemoveBody
  <2>6. worker[a].pc \notin Leaves /\ w.pc \notin Leaves
    BY <1>4, <1>5 DEF Fields
  <2>7. /\ creating' \subseteq creating /\ grid' \subseteq 1 .. seq
        /\ \A n \in live' \cap creating : n \notin creating' => Covers(w, n)
    BY <1>2, <1>3, <1>5, <2>3
  <2>8. /\ w.todo \subseteq worker[a].todo
        /\ w.sleeper \in sleepers \cup {worker[a].sleeper, None}
        /\ w.s = worker[a].s
    BY <1>5 DEF Fields
  <2> QED
    BY <1>2, <1>3, <1>5, <2>2, <2>4, <2>5, <2>6, <2>7, <2>8, WorkerKeeps
<1>6. CASE LookForSleeper(a)
  <2>1. worker[a].pc = "look" /\ UNCHANGED <<creating, grid, sleepers>>
    BY <1>6 DEF LookForSleeper, At
  <2>2. CASE Goto(a, "add")
    <3>1. PICK w \in Work : /\ Moves(a, w)
                            /\ Fields(w, "add", worker[a].s, worker[a].sleeper, worker[a].todo,
                                      worker[a].flag)
      BY <1>4, <2>2, WorkerSteps
    <3> QED
      BY <1>5, <2>1, <3>1 DEF Joining
  <2>3. CASE \E n \in sleepers :
               worker' = [worker EXCEPT ![a].pc = "reclaim", ![a].sleeper = n]
    <3>1. PICK n \in sleepers :
            worker' = [worker EXCEPT ![a].pc = "reclaim", ![a].sleeper = n]
      BY <2>3
    <3>2. n \in Nat
      BY DEF Inv, Types, TypeOK
    <3>3. PICK r \in Work : r = worker[a]
      BY <1>1
    <3>4. Fields([r EXCEPT !.pc = "reclaim", !.sleeper = n], "reclaim", r.s, n, r.todo, r.flag)
      BY <3>2 DEF Work, Fields, Pc, Joining
    <3>5. Moves(a, [r EXCEPT !.pc = "reclaim", !.sleeper = n])
      BY <3>1, <3>3, WorkerSteps DEF Moves
    <3>6. PICK w \in Work : Moves(a, w) /\ Fields(w, "reclaim", r.s, n, r.todo, r.flag)
      BY <3>4, <3>5 DEF Fields
    <3> QED
      BY <1>5, <2>1, <3>3, <3>6 DEF Joining
  <2> QED
    BY <1>6, <2>2, <2>3 DEF LookForSleeper, GetSleeperByAccount
<1>7. CASE Reclaim(a)
  <2>1. PICK w \in Work : /\ Moves(a, w)
                          /\ Fields(w, "reclaimGrid", worker[a].s, worker[a].sleeper,
                                    worker[a].todo, worker[a].flag)
    BY <1>4, <1>7, WorkerSteps DEF Reclaim
  <2> QED
    BY <1>5, <1>7, <2>1 DEF Joining, Reclaim, At
<1>8. CASE ReclaimGrid(a)
  <2>1. PICK w \in Work : /\ Moves(a, w)
                          /\ Fields(w, "add", worker[a].s, worker[a].sleeper,
                                    worker[a].todo, worker[a].flag)
    BY <1>4, <1>8, WorkerSteps DEF ReclaimGrid
  <2> QED
    BY <1>5, <1>8, <2>1 DEF Joining, ReclaimGrid, At, GridRemove
<1>9. CASE \E m \in worker[a].todo : CleanupEvicted(a, m)
  <2>1. PICK m \in worker[a].todo : CleanupEvicted(a, m)
    BY <1>9
  <2>2. PICK r \in Work : r = worker[a]
    BY <1>1
  <2>3. r.todo \ {m} \in SUBSET Nat
    BY DEF Work
  <2>4. Fields([r EXCEPT !.todo = r.todo \ {m}], r.pc, r.s, r.sleeper, r.todo \ {m}, r.flag)
    BY <2>3 DEF Work, Fields
  <2>5. Moves(a, [r EXCEPT !.todo = r.todo \ {m}])
    BY <2>1, <2>2, WorkerSteps DEF CleanupEvicted, Moves
  <2>6. PICK w \in Work : Moves(a, w) /\ Fields(w, r.pc, r.s, r.sleeper, r.todo \ {m}, r.flag)
    BY <2>4, <2>5 DEF Fields
  <2>7. r.pc = "evict" /\ grid' = grid \ {m} /\ m \notin live /\ UNCHANGED <<creating, sleepers>>
    BY <2>1, <2>2 DEF CleanupEvicted, At, GridRemove, Inv, Evicted
  <2>8. Known(w) /\ Owns(a, w)
    BY <1>1, <2>2, <2>6 DEF Known, Owns, Fields
  <2>9. w.pc \notin Joining \cup Leaves /\ r.pc \notin Joining \cup Leaves
    BY <2>6, <2>7 DEF Joining, Leaves, Fields
  <2>10. \A n : Covers(r, n) => Covers(w, n)
    BY <2>6 DEF Covers, Fields
  <2>11. w.todo \subseteq r.todo /\ w.sleeper = r.sleeper /\ grid' \subseteq 1 .. seq
    BY <1>3, <2>6, <2>7 DEF Fields
  <2> QED
    BY <1>2, <1>3, <2>2, <2>6, <2>7, <2>8, <2>9, <2>10, <2>11, WorkerKeeps
<1>10. CASE FinishHandshake(a)
  <2>1. /\ worker[a].pc = "evict" /\ UNCHANGED <<creating, sleepers>> /\ Moves(a, Idle)
        /\ grid \subseteq grid' /\ grid' \subseteq grid \cup {worker[a].s}
        /\ worker[a].flag /\ worker[a].s \notin creating => worker[a].s \in grid'
    BY <1>10 DEF FinishHandshake, At, Done, Moves, GridInsert
  <2>2. worker[a].s > 0
    BY <1>1, <2>1 DEF Owns
  <2>3. Known(Idle) /\ Owns(a, Idle) /\ grid' \subseteq 1 .. seq
    BY <1>1, <1>3, <2>1, <2>2 DEF Known, Owns
  <2>4. \A n \in live' \ creating' : Covers(worker[a], n) => n \in grid'
    BY <2>1 DEF Covers, Leaves
  <2>5. Idle.pc \notin Joining /\ worker[a].pc \notin Leaves
    BY <2>1 DEF Joining, Leaves
  <2> QED
    BY <1>2, <1>3, <2>1, <2>3, <2>4, <2>5, WorkerKeeps DEF None
<1> QED
  BY <1>6, <1>7, <1>8, <1>9, <1>10

\* A step of a player who leaves or moves, and of the death of a sleeper.
LEMMA LeaveKeeps ==
  ASSUME Inv, NEW a \in Addr,
         \/ DisconnectGrid(a) \/ DisconnectSleeper(a) \/ DisconnectSleeperGrid(a)
         \/ DisconnectRemove(a) \/ TransformSeen(a) \/ GridUpdate(a)
         \/ KillRemove(a) \/ KillGrid(a)
  PROVE  Inv'
<1> USE IdleWork
<1>1. /\ worker[a] \in Work /\ Known(worker[a]) /\ Owns(a, worker[a])
      /\ worker[a].s \in 0 .. seq
  BY WorkerSteps DEF Known
<1>2. UNCHANGED <<seq, who, created, creating, tick, kick>>
  BY DEF DisconnectGrid, DisconnectSleeper, DisconnectSleeperGrid, DisconnectRemove,
         TransformSeen, GridUpdate, KillRemove, KillGrid
<1>3. created' \subseteq Account /\ grid \subseteq 1 .. seq /\ seq \in Nat
  BY <1>2 DEF Inv, Types, TypeOK
<1>4. {"sleep", "leave", "sleepGrid", "seen", "killGrid"} \subseteq Pc \ Joining
  BY DEF Pc, Joining, Leaves
<1>5. worker[a].pc \notin Joining \cup {"idle"}
  BY DEF DisconnectGrid, DisconnectSleeper, DisconnectSleeperGrid, DisconnectRemove,
         TransformSeen, GridUpdate, KillRemove, KillGrid, At, Joining
<1>6. ASSUME NEW pc \in {"sleep", "leave", "sleepGrid", "seen", "killGrid"}, Goto(a, pc),
             live' = live,
             pc = "killGrid" <=> worker[a].pc = "kill",
             worker[a].pc # "killGrid",
             grid' \subseteq 1 .. seq,
             sleepers' \subseteq sleepers \cup {worker[a].s},
             worker[a].s \in sleepers' \ sleepers => pc \in Leaves,
             worker[a].pc \in Leaves => pc \in Leaves,
             \A n \in live \cap grid : n \notin grid' =>
               pc \in {"sleep"} \cup Leaves /\ n = worker[a].s,
             \A n \in live : Covers(worker[a], n) => pc \in {"sleep"} \cup Leaves
      PROVE  Inv'
  <2>1. PICK w \in Work : /\ Moves(a, w)
                          /\ Fields(w, pc, worker[a].s, worker[a].sleeper, worker[a].todo,
                                    worker[a].flag)
    BY <1>4, <1>6, WorkerSteps
  <2>2. w.pc = pc /\ w.s = worker[a].s /\ w.sleeper = worker[a].sleeper /\ w.todo = worker[a].todo
    BY <2>1 DEF Fields
  <2>3. Known(w) /\ Owns(a, w)
    BY <1>1, <1>5, <1>6, <2>2 DEF Known, Owns
  <2>4. w.pc \notin Joining
    BY <1>4, <1>6, <2>2
  <2>5. worker[a].s \in sleepers' \ sleepers => worker[a].s > 0 /\ AddrOf(worker[a].s) = a
    BY <1>1, <1>5, <1>6 DEF Owns, Leaves
  <2>6. \A n \in live' \cap grid : n \notin grid' => Covers(w, n)
    BY <1>6, <2>2 DEF Covers
  <2>7. \A n \in live' : Covers(worker[a], n) => Covers(w, n)
    BY <1>6, <2>2 DEF Covers
  <2> QED
    BY <1>2, <1>3, <1>5, <1>6, <2>1, <2>2, <2>3, <2>4, <2>5, <2>6, <2>7, WorkerKeeps
<1>7. ASSUME Done(a), live' \subseteq live, sleepers' = sleepers, grid' \subseteq 1 .. seq,
             worker[a].pc \in Leaves => worker[a].s \notin live',
             \A n \in live' \cap grid : n \notin grid' =>
               \E b \in Addr : b # a /\ Covers(worker[b], n),
             \A n \in live' : Covers(worker[a], n) => n \in grid'
      PROVE  Inv'
  <2>1. Moves(a, Idle)
    BY <1>7 DEF Done, Moves
  <2>2. Known(Idle) /\ Owns(a, Idle) /\ Idle.pc \notin Joining
    BY <1>3 DEF Known, Owns, Joining
  <2> QED
    BY <1>2, <1>3, <1>7, <2>1, <2>2, WorkerKeeps DEF None
<1>8. CASE DisconnectGrid(a)
  <2>1. worker[a].pc = "leaveGrid" /\ grid' = grid \ {worker[a].s} /\ UNCHANGED <<live, sleepers>>
    BY <1>8 DEF DisconnectGrid, At, GridRemove
  <2>2. PICK pc \in {"sleep", "leave"} : Goto(a, pc)
    BY <1>8 DEF DisconnectGrid
  <2>3. \A n : ~Covers(worker[a], n)
    BY <2>1 DEF Covers, Leaves
  <2> QED
    BY <1>3, <1>6, <2>1, <2>2, <2>3 DEF Leaves
<1>9. CASE DisconnectSleeper(a)
  <2>1. /\ worker[a].pc = "sleep" /\ Goto(a, "sleepGrid") /\ UNCHANGED <<live, grid>>
        /\ sleepers' \subseteq sleepers \cup {worker[a].s}
    BY <1>9 DEF DisconnectSleeper, At, CreateSleeper
  <2> QED
    BY <1>3, <1>6, <2>1 DEF Leaves
<1>10. CASE DisconnectSleeperGrid(a)
  <2>1. /\ worker[a].pc = "sleepGrid" /\ Goto(a, "leave") /\ UNCHANGED <<live, sleepers>>
        /\ grid' = grid \cup {worker[a].s}
    BY <1>10 DEF DisconnectSleeperGrid, At, GridInsert
  <2>2. grid' \subseteq 1 .. seq
    <3>1. worker[a].s > 0
      BY <1>1, <2>1 DEF Owns
    <3>2. worker[a].s \in 1 .. seq
      BY <1>1, <1>3, <3>1
    <3> QED
      BY <1>3, <2>1, <3>2
  <2> QED
    BY <1>3, <1>6, <2>1, <2>2 DEF Leaves
<1>11. CASE DisconnectRemove(a)
  <2>1. /\ worker[a].pc = "leave" /\ Done(a) /\ UNCHANGED <<grid, sleepers>>
        /\ live' = live \ {worker[a].s}
    BY <1>11 DEF DisconnectRemove, At
  <2>2. \A n \in live' : ~Covers(worker[a], n)
    BY <2>1 DEF Covers
  <2> QED
    BY <1>3, <1>7, <2>1, <2>2
<1>12. CASE TransformSeen(a)
  <2>1. worker[a].pc = "lock" /\ Goto(a, "seen") /\ UNCHANGED <<live, grid, sleepers>>
    BY <1>12 DEF TransformSeen, At
  <2>2. \A n : ~Covers(worker[a], n)
    BY <2>1 DEF Covers, Leaves
  <2> QED
    BY <1>3, <1>6, <2>1, <2>2 DEF Leaves
<1>13. CASE GridUpdate(a)
  <2>1. /\ worker[a].pc \in {"seen", "move"} /\ Done(a) /\ UNCHANGED <<live, sleepers>>
        /\ grid' = grid \cup {worker[a].s}
    BY <1>13 DEF GridUpdate, At, GridInsert
  <2>2. grid' \subseteq 1 .. seq
    <3>1. worker[a].s > 0
      BY <1>1, <2>1 DEF Owns
    <3>2. worker[a].s \in 1 .. seq
      BY <1>1, <1>3, <3>1
    <3> QED
      BY <1>3, <2>1, <3>2
  <2>3. \A n : Covers(worker[a], n) => n \in grid'
    BY <2>1 DEF Covers
  <2> QED
    BY <1>7, <2>1, <2>2, <2>3 DEF Leaves
<1>14. CASE KillRemove(a)
  <2>1. /\ worker[a].pc = "kill" /\ Goto(a, "killGrid") /\ UNCHANGED <<live, grid>>
        /\ sleepers' \subseteq sleepers
    BY <1>14 DEF KillRemove, At
  <2>2. \A n : ~Covers(worker[a], n)
    BY <2>1 DEF Covers, Leaves
  <2> QED
    BY <1>3, <1>6, <2>1, <2>2 DEF Leaves
<1>15. CASE KillGrid(a)
  <2>1. /\ worker[a].pc = "killGrid" /\ Done(a) /\ UNCHANGED <<live, sleepers>>
        /\ grid' = grid \ {worker[a].sleeper}
    BY <1>15 DEF KillGrid, At, GridRemove
  <2>2. worker[a].pc \notin Leaves /\ \A n : ~Covers(worker[a], n)
    BY <2>1 DEF Covers, Leaves
  <2>3. \A n \in live' \cap grid : n \notin grid' =>
          \E b \in Addr : b # a /\ Covers(worker[b], n)
    BY <2>1, <2>2, RemoveBody
  <2> QED
    BY <1>3, <1>7, <2>1, <2>2, <2>3
<1> QED
  BY <1>8, <1>9, <1>10, <1>11, <1>12, <1>13, <1>14, <1>15

\* A new session: its id is above every id anybody has seen.
LEMMA HandshakeBegins ==
  ASSUME Inv, NEW a \in Addr, NEW acc \in Account, Handshake(a, acc)
  PROVE  Inv'
<1> USE IdleWork
<1>0. PICK n \in Nat : n = seq + 1
  BY DEF Inv, Types, TypeOK
<1>1. /\ seq \in Nat /\ n \in Id /\ n \in Nat /\ seq' = n /\ n \notin 0 .. seq
      /\ n \in 1 .. seq' /\ 1 .. seq \subseteq 1 .. seq' /\ 0 .. seq \subseteq 0 .. seq'
      /\ \A m \in 1 .. seq' : m = n \/ m \in 1 .. seq
      /\ 1 .. seq \subseteq 0 .. seq /\ n \in 0 .. seq'
      /\ \A m \in 0 .. seq : m # n
  BY <1>0, MaxSessionsAssumption DEF Inv, Types, TypeOK, Handshake, Id
<1>2. /\ who' = [who EXCEPT ![n] = [addr |-> a, account |-> acc]] /\ <<a, acc>> \in From
      /\ worker[a] = Idle /\ Moves(a, [Idle EXCEPT !.pc = "look", !.s = n])
      /\ UNCHANGED <<created, live, grid, sleepers, tick, kick>>
      /\ creating \subseteq creating' /\ creating' \subseteq creating \cup {n}
      /\ seq' \in 0 .. MaxSessions
  BY <1>0, MaxSessionsAssumption DEF Handshake, Begin, Moves, Inv, Types, TypeOK
<1>3. PICK w \in Work : /\ Moves(a, w) /\ w.pc = "look" /\ w.s = n /\ w.sleeper = 0
                        /\ w.todo = {}
  <2>1. "look" \in Pc
    BY DEF Pc, Joining
  <2>2. PICK no \in BOOLEAN : no = FALSE
    BY Zenon
  <2>3. Fields([Idle EXCEPT !.pc = "look", !.s = n], "look", n, 0, {}, no)
    BY <1>1, <2>1, <2>2, Updates
  <2> QED
    BY <1>2, <2>3 DEF Fields
<1>4. /\ worker' \in [Addr -> Work] /\ worker'[a] = w
      /\ \A b \in Addr \ {a} : worker'[b] = worker[b]
  BY <1>3 DEF Moves, Inv, Types
<1>5. /\ who' \in [Id -> Entry] /\ who'[n] = [addr |-> a, account |-> acc]
      /\ \A m \in 1 .. seq : who'[m] = who[m]
  <2>1. who \in [Id -> Entry] /\ 1 .. seq \subseteq Id
    BY <1>1, MaxSessionsAssumption DEF Inv, Types, TypeOK, Id
  <2>2. [addr |-> a, account |-> acc] \in Entry
    BY DEF Entry
  <2> QED
    BY <1>1, <1>2, <2>1, <2>2
<1>6. AddrOf(n)' = a /\ AccountOf(n)' = acc
  BY <1>5 DEF AddrOf, AccountOf
<1>7. \A m \in 1 .. seq : AddrOf(m)' = AddrOf(m) /\ AccountOf(m)' = AccountOf(m)
  BY <1>5 DEF AddrOf, AccountOf
<1>8. /\ live \subseteq 1 .. seq /\ grid \subseteq 1 .. seq /\ sleepers \subseteq 1 .. seq
      /\ creating \subseteq 1 .. seq /\ created \subseteq Account
      /\ Known(tick) /\ Known(kick) /\ \A b \in Addr : Known(worker[b])
  BY DEF Inv, Types, TypeOK
<1>9. Types'
  <2>1. \A m \in 1 .. seq' : <<AddrOf(m)', AccountOf(m)'>> \in From
    BY <1>1, <1>2, <1>6, <1>7 DEF Inv, Types, TypeOK
  <2>2. creating' \subseteq 1 .. seq' /\ live' \subseteq 1 .. seq' /\ grid' \subseteq 1 .. seq'
          /\ sleepers' \subseteq 1 .. seq' /\ created' \subseteq Account
    BY <1>1, <1>2, <1>8
  <2>3. TypeOK'
    BY <1>2, <2>1, <2>2 DEF TypeOK
  <2>4. ASSUME NEW v, Known(v) PROVE Known(v)'
    BY <1>1, <2>4 DEF Known
  <2>5. Known(tick)' /\ Known(kick)'
    BY <1>1, <1>2, <1>8 DEF Known
  <2>6. Known(w)'
    BY <1>1, <1>3 DEF Known
  <2>7. ASSUME NEW b \in Addr PROVE Known(worker[b])'
    <3>1. CASE b = a
      BY <1>4, <2>6, <3>1 DEF Known
    <3>2. CASE b # a
      BY <1>1, <1>4, <1>8, <3>2 DEF Known
    <3> QED
      BY <3>1, <3>2
  <2>8. tick' \in Work /\ kick' \in Work
    BY <1>2 DEF Inv, Types
  <2> QED
    BY <1>4, <1>5, <2>3, <2>5, <2>7, <2>8 DEF Types
<1>10. Owners'
  <2>1. ASSUME NEW b \in Addr PROVE Owns(b, worker[b])'
    <3>1. CASE b = a
      BY <1>1, <1>3, <1>4, <1>6, <3>1 DEF Owns
    <3>2. CASE b # a
      <4>1. worker'[b] = worker[b] /\ worker[b].s \in 0 .. seq /\ Owns(b, worker[b])
        BY <1>4, <1>8, <3>2 DEF Known, Inv, Owners
      <4>2. worker[b].s > 0 => worker[b].s \in 1 .. seq
        BY <1>1, <4>1
      <4> QED
        BY <1>7, <4>1, <4>2 DEF Owns
    <3> QED
      BY <3>1, <3>2
  <2> QED
    BY <2>1 DEF Owners
<1>11. HasSession'
  BY <1>2 DEF Inv, HasSession
<1>12. Newcomers'
  <2>1. n \notin live /\ n \notin sleepers /\ n # tick.s /\ n \notin tick.todo /\ n # kick.s
    BY <1>1, <1>8 DEF Known
  <2>2. \A b \in Addr : n # worker[b].sleeper /\ n \notin worker[b].todo
    BY <1>1, <1>8 DEF Known
  <2>3. ASSUME NEW m \in Nat, m # 0, m \notin live, m \notin sleepers, m # tick.s,
               m \notin tick.todo, m # kick.s,
               \A b \in Addr : m # worker[b].sleeper /\ m \notin worker[b].todo
        PROVE  Unseen(m)'
    <3>1. \A b \in Addr : m # worker'[b].sleeper /\ m \notin worker'[b].todo
      BY <1>3, <1>4, <2>3
    <3> QED
      BY <1>2, <2>3, <3>1 DEF Unseen
  <2>4. ASSUME NEW b \in Addr, worker'[b].pc \in Joining PROVE Unseen(worker[b].s)'
    <3>1. CASE b = a
      <4>1. worker'[b].s = n /\ n # 0
        BY <1>1, <1>3, <1>4, <3>1
      <4>2. Unseen(n)'
        BY <1>1, <2>1, <2>2, <2>3, <4>1
      <4> QED
        BY <4>1, <4>2 DEF Unseen
    <3>2. CASE b # a
      <4>1. worker'[b] = worker[b] /\ Unseen(worker[b].s)
        BY <1>4, <2>4, <3>2 DEF Inv, Newcomers
      <4>2. worker[b].s \in Nat /\ worker[b].s # 0
        BY <1>8, <2>4, <4>1 DEF Known, Inv, Owners, Owns, Joining
      <4>3. PICK m \in Nat : m = worker[b].s
        BY <4>2
      <4>4. Unseen(m)'
        BY <2>3, <4>1, <4>2, <4>3 DEF Unseen
      <4> QED
        BY <4>1, <4>3, <4>4 DEF Unseen
    <3> QED
      BY <3>1, <3>2
  <2> QED
    BY <2>4 DEF Newcomers
<1>13. ASSUME NEW m, Gone(m) PROVE Gone(m)'
  <2>1. worker[a].pc \notin Leaves
    BY <1>2 DEF Leaves
  <2> QED
    BY <1>2, <1>4, <1>13, <2>1 DEF Gone
<1>14. Bodies'
  <2>1. Gone(0)'
    BY <1>2, <1>8 DEF Gone
  <2>2. ASSUME NEW b \in Addr PROVE Gone(worker[b].sleeper)'
    <3>1. CASE b = a
      BY <1>3, <1>4, <2>1, <3>1 DEF Gone
    <3>2. CASE b # a
      <4>1. Gone(worker[b].sleeper) /\ worker'[b] = worker[b]
        BY <1>4, <3>2 DEF Inv, Bodies
      <4> QED
        BY <1>13, <4>1 DEF Gone
    <3> QED
      BY <3>1, <3>2
  <2> QED
    BY <1>2, <1>13, <2>2 DEF Inv, Bodies
<1>15. Evicted'
  BY <1>2, <1>3, <1>4 DEF Inv, Evicted
<1>16. Present'
  <2>1. \A m : ~Covers(worker[a], m)
    BY <1>2 DEF Covers, Leaves
  <2>2. ASSUME NEW m, Explained(m) PROVE Explained(m)'
    BY <1>2, <1>4, <2>1, <2>2 DEF Explained, Covers
  <2> QED
    BY <1>2, <2>2 DEF Inv, Present
<1> QED
  BY <1>9, <1>10, <1>11, <1>12, <1>14, <1>15, <1>16 DEF Inv

\* The registration: the newcomer replaces the sessions it conflicts with, and the worker has
\* them and itself to take care of.
LEMMA RegisterKeeps ==
  ASSUME Inv, NEW a \in Addr, TryAddCapped(a)
  PROVE  Inv'
<1> DEFINE n == worker[a].s
           stay == live \ Conflicts(n)
           full == MaxPlayers > 0 /\ Cardinality(stay) >= MaxPlayers
<1>1. /\ worker[a].pc = "add"
      /\ live' = IF full THEN stay ELSE stay \cup {n}
      /\ worker' = [worker EXCEPT ![a].pc = "evict", ![a].todo = Conflicts(n),
                                  ![a].flag = ~full]
      /\ UNCHANGED <<seq, who, creating, created, grid, sleepers, tick, kick>>
  BY DEF TryAddCapped, At
<1>2. PICK f \in BOOLEAN : f = ~full
  BY Zenon
<1>3. PICK r \in Work : r = worker[a]
  BY DEF Inv, Types
<1>4. /\ seq \in Nat /\ live \subseteq 1 .. seq /\ Known(r) /\ Conflicts(n) \subseteq live
      /\ n \notin Conflicts(n)
  BY <1>3 DEF Inv, Types, TypeOK, Conflicts
<1>5. PICK w \in Work : Moves(a, w) /\ Fields(w, "evict", n, r.sleeper, Conflicts(n), f)
  <2>1. "evict" \in Pc /\ Conflicts(n) \in SUBSET Nat
    <3>1. "evict" \in Pc
      BY DEF Pc
    <3>2. \A m \in 1 .. seq : m \in Nat
      OBVIOUS
    <3> QED
      BY <1>4, <3>1, <3>2, Zenon
  <2> DEFINE v == [r EXCEPT !.pc = "evict", !.todo = Conflicts(n), !.flag = f]
  <2>2. Fields(v, "evict", r.s, r.sleeper, Conflicts(n), f)
    BY <2>1, Updates
  <2>3. Moves(a, v)
    BY <1>1, <1>2, <1>3 DEF Moves, Inv, Types
  <2> QED
    BY <1>3, <2>2, <2>3 DEF Fields
<1>6. /\ worker' \in [Addr -> Work] /\ worker'[a] = w
      /\ \A b \in Addr \ {a} : worker'[b] = worker[b]
  BY <1>5 DEF Moves, Inv, Types
<1>7. w.pc = "evict" /\ w.s = n /\ w.sleeper = r.sleeper /\ w.todo = Conflicts(n) /\ w.flag = f
  BY <1>5 DEF Fields
<1>8. Unseen(n) /\ n > 0 /\ AddrOf(n) = a /\ n \in 0 .. seq
  BY <1>1, <1>3, <1>4 DEF Inv, Newcomers, Owners, Owns, Joining, Known
<1>9. /\ live' \subseteq stay \cup {n}
      /\ n \in live' => f
  BY <1>1, <1>2, <1>8 DEF Unseen
<1>10. Types'
  <2>1. n \in 1 .. seq
    BY <1>4, <1>8
  <2>2. live' \subseteq 1 .. seq
    BY <1>4, <1>9, <2>1
  <2>3. TypeOK'
    BY <1>1, <2>2 DEF Inv, Types, TypeOK, AddrOf, AccountOf
  <2>4. Known(w)
    BY <1>3, <1>4, <1>7, <1>8 DEF Known
  <2>5. \A b \in Addr : Known(worker[b])'
    BY <1>1, <1>6, <2>4 DEF Inv, Types, Known
  <2> QED
    BY <1>1, <1>6, <2>3, <2>5 DEF Inv, Types, Known
<1>11. Owners'
  BY <1>1, <1>6, <1>7, <1>8 DEF Inv, Owners, Owns, AddrOf
<1>12. HasSession'
  BY <1>1 DEF Inv, HasSession
<1>13. Newcomers'
  <2> SUFFICES ASSUME NEW b \in Addr, worker'[b].pc \in Joining PROVE Unseen(worker[b].s)'
    BY DEF Newcomers
  <2>1. b # a /\ worker'[b] = worker[b]
    BY <1>6, <1>7 DEF Joining
  <2>2. Unseen(worker[b].s) /\ AddrOf(worker[b].s) = b
    BY <2>1 DEF Inv, Newcomers, Owners, Owns, Joining
  <2>3. worker[b].s # n
    BY <1>8, <2>1, <2>2
  <2>4. worker[b].s \notin live'
    BY <1>9, <2>2, <2>3 DEF Unseen
  <2>5. \A c \in Addr : worker[b].s # worker'[c].sleeper /\ worker[b].s \notin worker'[c].todo
    <3>1. worker[b].s # w.sleeper /\ worker[b].s \notin w.todo
      BY <1>3, <1>4, <1>7, <2>2 DEF Unseen
    <3> QED
      BY <1>6, <2>2, <3>1 DEF Unseen
  <2>6. UNCHANGED <<sleepers, tick, kick>>
    BY <1>1
  <2>7. PICK m : m = worker[b].s
    OBVIOUS
  <2>8. Unseen(m)'
    BY <2>2, <2>4, <2>5, <2>6, <2>7 DEF Unseen
  <2> QED
    BY <2>1, <2>7, <2>8
<1>14. ASSUME NEW m, m # n, Gone(m) PROVE Gone(m)'
  <2>1. CASE m \notin live
    BY <1>9, <1>14, <2>1 DEF Gone
  <2>2. ASSUME NEW b \in Addr, worker[b].pc \in Leaves, worker[b].s = m PROVE Gone(m)'
    BY <1>1, <1>6, <2>2 DEF Gone, Leaves
  <2> QED
    BY <1>14, <2>1, <2>2 DEF Gone
<1>15. Bodies'
  <2>1. \A m \in sleepers' : Gone(m)'
    BY <1>1, <1>8, <1>14 DEF Inv, Bodies, Unseen
  <2>2. ASSUME NEW b \in Addr PROVE Gone(worker[b].sleeper)'
    <3>1. worker'[b].sleeper = worker[b].sleeper
      BY <1>3, <1>6, <1>7
    <3>2. Gone(worker[b].sleeper) /\ worker[b].sleeper # n
      BY <1>8 DEF Inv, Bodies, Unseen
    <3> QED
      BY <1>14, <3>1, <3>2 DEF Gone
  <2>3. tick'.pc = "expire" => \A m \in tick'.todo : Gone(m)'
    BY <1>1, <1>8, <1>14 DEF Inv, Bodies, Unseen
  <2>4. tick'.pc \in {"staleSleep", "staleSleepGrid"} => tick'.s \notin live'
    BY <1>1, <1>8, <1>9 DEF Inv, Bodies, Unseen
  <2> QED
    BY <2>1, <2>2, <2>3, <2>4 DEF Bodies
<1>16. Evicted'
  <2>1. w.todo \cap live' = {}
    BY <1>4, <1>7, <1>9
  <2>2. ASSUME NEW b \in Addr PROVE worker[b].todo \cap live' = {}
    BY <1>8, <1>9 DEF Inv, Evicted, Unseen
  <2> QED
    BY <1>6, <2>1, <2>2 DEF Evicted
<1>17. Present'
  <2> SUFFICES ASSUME NEW m \in live' \ creating', m \notin grid' PROVE Explained(m)'
    BY DEF Present
  <2>1. CASE m = n
    <3>1. Covers(w, m)
      BY <1>7, <1>9, <2>1 DEF Covers
    <3> QED
      BY <1>6, <3>1 DEF Explained, Covers
  <2>2. CASE m # n
    <3>1. Explained(m)
      BY <1>1, <1>9, <2>2 DEF Inv, Present
    <3>2. ~Covers(worker[a], m)
      BY <1>1 DEF Covers, Leaves
    <3> QED
      BY <1>1, <1>6, <3>1, <3>2 DEF Explained, Covers
  <2> QED
    BY <2>1, <2>2
<1> QED
  BY <1>10, <1>11, <1>12, <1>13, <1>15, <1>16, <1>17 DEF Inv

\* A step of the tick or of the kick: no worker moves and nobody is registered.
LEMMA OthersKeep ==
  ASSUME Inv, UNCHANGED <<seq, who, creating, created, worker>>,
         tick' \in Work, kick' \in Work, Known(tick)', Known(kick)', HasSession',
         live' \subseteq live, grid' \subseteq 1 .. seq,
         sleepers' \subseteq sleepers \cup {tick.s},
         tick.s \in sleepers' \ sleepers => tick.s > 0 /\ tick.s \notin live',
         tick'.s \in {tick.s, 0} \cup tick.todo,
         tick'.todo \subseteq live \cup sleepers \cup tick.todo,
         kick'.s \in {kick.s, 0} \cup live,
         tick'.pc = "expire" => \A n \in tick'.todo : Gone(n),
         tick'.pc \in {"staleSleep", "staleSleepGrid"} => tick'.s \notin live',
         \A n \in live' \cap grid : n \notin grid' => Explained(n)',
         \A n \in live' : tick.pc = "staleRemove" /\ tick.s = n => Explained(n)',
         \A n \in live' : kick.pc = "kickRemove" /\ kick.s = n => Explained(n)'
  PROVE  Inv'
<1>1. sleepers' \subseteq 1 .. seq /\ live' \subseteq 1 .. seq
  <2>1. /\ sleepers \subseteq 1 .. seq /\ live \subseteq 1 .. seq /\ tick.s \in 0 .. seq
        /\ seq \in Nat
    BY DEF Inv, Types, TypeOK, Known
  <2>2. tick.s > 0 => tick.s \in 1 .. seq
    BY <2>1
  <2>3. ASSUME NEW n \in sleepers' PROVE n \in 1 .. seq
    BY <2>1, <2>2
  <2> QED
    BY <2>1, <2>3
<1>2. Types'
  <2>1. TypeOK'
    BY <1>1 DEF Inv, Types, TypeOK, AddrOf, AccountOf
  <2> QED
    BY <2>1 DEF Inv, Types, Known
<1>3. Owners' /\ Evicted'
  BY DEF Inv, Owners, Owns, AddrOf, Evicted
<1>4. Newcomers'
  <2> SUFFICES ASSUME NEW b \in Addr, worker[b].pc \in Joining PROVE Unseen(worker[b].s)'
    BY DEF Newcomers
  <2>1. Unseen(worker[b].s) /\ worker[b].s # 0
    BY DEF Inv, Newcomers, Owners, Owns, Joining
  <2> QED
    BY <2>1 DEF Unseen
<1>5. ASSUME NEW n, Gone(n) PROVE Gone(n)'
  BY <1>5 DEF Gone
<1>6. Bodies'
  <2>1. ASSUME NEW n \in sleepers' PROVE Gone(n)'
    BY <1>5 DEF Inv, Bodies, Gone
  <2> QED
    BY <1>5, <2>1 DEF Inv, Bodies
<1>7. Present'
  <2> SUFFICES ASSUME NEW n \in live' \ creating', n \notin grid' PROVE Explained(n)'
    BY DEF Present
  <2>1. CASE n \notin grid
    <3>1. Explained(n)
      BY <2>1 DEF Inv, Present
    <3> QED
      BY <3>1 DEF Explained
  <2> QED
    BY <2>1
<1> QED
  BY <1>2, <1>3, <1>4, <1>6, <1>7 DEF Inv

\* The game loop goes on with the next session of its snapshot.
LEMMA NextSessionFields ==
  ASSUME Inv, NEW n
  PROVE  /\ NextSession(n) \in Work /\ NextSession(n).pc \in {"idle", "sessions"}
         /\ NextSession(n).s = 0 /\ NextSession(n).sleeper = 0
         /\ NextSession(n).todo \subseteq tick.todo
<1> USE IdleWork
<1> DEFINE rest == tick.todo \ {n}
<1>1. "sessions" \in Pc /\ rest \in SUBSET Nat
  <2>1. "sessions" \in Pc
    BY DEF Pc
  <2>2. tick.todo \in SUBSET Nat
    BY DEF Inv, Types, Work
  <2> QED
    BY <2>1, <2>2
<1>2. PICK no \in BOOLEAN : no = FALSE
  BY Zenon
<1>3. 0 \in Nat
  OBVIOUS
<1>4. Fields([Idle EXCEPT !.pc = "sessions", !.todo = rest], "sessions", 0, 0, rest, no)
  BY <1>1, <1>2, <1>3, Updates
<1>5. CASE rest = {}
  BY <1>5 DEF NextSession
<1>6. CASE rest # {}
  BY <1>4, <1>6 DEF NextSession, Fields
<1> QED
  BY <1>5, <1>6

\* A sleeper's time is over.
LEMMA ExpireKeeps ==
  ASSUME Inv,
         \/ \E X \in SUBSET sleepers : SleepersExpire(X)
         \/ \E n \in tick.todo : SleeperExpireGrid(n)
  PROVE  Inv'
<1> USE IdleWork
<1>1. UNCHANGED <<seq, who, creating, created, live, worker, kick>>
  BY DEF SleepersExpire, SleeperExpireGrid
<1>2. /\ seq \in Nat /\ grid \subseteq 1 .. seq /\ sleepers \subseteq 1 .. seq
      /\ tick \in Work /\ kick \in Work /\ Known(tick) /\ Known(kick)
  BY DEF Inv, Types, TypeOK
<1>3. kick' \in Work /\ Known(kick)' /\ kick'.s = kick.s
  BY <1>1, <1>2 DEF Known
<1>4. "expire" \in Pc
  BY DEF Pc
<1>5. PICK no \in BOOLEAN : no = FALSE
  BY Zenon
<1>6. CASE \E X \in SUBSET sleepers : SleepersExpire(X)
  <2>1. PICK X \in SUBSET sleepers : SleepersExpire(X)
    BY <1>6
  <2>2. tick = Idle /\ tick' = [Idle EXCEPT !.pc = "expire", !.todo = X]
          /\ sleepers' = sleepers \ X /\ grid' = grid
    BY <2>1 DEF SleepersExpire
  <2>3. X \in SUBSET Nat /\ 0 \in Nat
    BY <1>2
  <2>4. Fields(tick', "expire", 0, 0, X, no)
    BY <1>4, <1>5, <2>2, <2>3, Updates
  <2>5. tick' \in Work /\ tick'.pc = "expire" /\ tick'.s = 0 /\ tick'.sleeper = 0 /\ tick'.todo = X
    BY <2>4 DEF Fields
  <2>6. Known(tick)' /\ HasSession'
    BY <1>1, <1>2, <2>5 DEF Known, HasSession, Inv
  <2>7. \A n \in X : Gone(n)
    BY DEF Inv, Bodies
  <2> QED
    BY <1>1, <1>2, <1>3, <2>2, <2>5, <2>6, <2>7, OthersKeep DEF Explained
<1>7. CASE \E n \in tick.todo : SleeperExpireGrid(n)
  <2>1. PICK n \in tick.todo : SleeperExpireGrid(n)
    BY <1>7
  <2>2. /\ tick.pc = "expire" /\ sleepers' = sleepers /\ grid' = grid \ {n}
        /\ tick' = IF tick.todo = {n} THEN Idle ELSE [tick EXCEPT !.todo = @ \ {n}]
    BY <2>1 DEF SleeperExpireGrid, GridRemove
  <2>3. tick.todo \ {n} \in SUBSET Nat
    BY <1>2 DEF Work
  <2>4. /\ tick' \in Work /\ tick'.pc \in {"idle", "expire"} /\ tick'.s \in {tick.s, 0}
        /\ tick'.sleeper \in {tick.sleeper, 0} /\ tick'.todo \subseteq tick.todo
    <3>1. CASE tick.todo = {n}
      BY <2>2, <3>1
    <3>2. CASE tick.todo # {n}
      <4>1. PICK r \in Work : r = tick
        BY <1>2
      <4>2. Fields([r EXCEPT !.todo = r.todo \ {n}], r.pc, r.s, r.sleeper, r.todo \ {n}, r.flag)
        BY <2>3, <4>1 DEF Work, Fields
      <4> QED
        BY <2>2, <3>2, <4>1, <4>2 DEF Fields
    <3> QED
      BY <3>1, <3>2
  <2>5. Known(tick)' /\ HasSession'
    BY <1>1, <1>2, <2>4 DEF Known, HasSession, Inv
  <2>6. \A m \in tick.todo : Gone(m)
    BY <2>2 DEF Inv, Bodies
  <2>7. ASSUME NEW m \in live', m \in grid, m \notin grid' PROVE Explained(m)'
    <3>1. m = n /\ m \in live
      BY <1>1, <2>2, <2>7
    <3>2. PICK b \in Addr : worker[b].pc \in Leaves /\ worker[b].s = m
      BY <2>6, <3>1 DEF Gone
    <3> QED
      BY <1>1, <3>2 DEF Explained, Covers
  <2>8. grid' \subseteq 1 .. seq
    BY <1>2, <2>2
  <2>9. \A m \in live' : kick.pc = "kickRemove" /\ kick.s = m => Explained(m)'
    BY <1>1 DEF Explained
  <2> QED
    BY <1>1, <1>2, <1>3, <2>2, <2>4, <2>5, <2>6, <2>7, <2>8, <2>9, OthersKeep
<1> QED
  BY <1>6, <1>7

\* The game loop takes a stale session out of the grid and of the registry.
LEMMA StaleKeeps ==
  ASSUME Inv,
         \/ TickSessions
         \/ \E n \in tick.todo : TickAlive(n)
         \/ \E n \in tick.todo, leaveBody \in BOOLEAN : TickStale(n, leaveBody)
         \/ StaleGrid \/ StaleRemove \/ StaleSleeper \/ StaleSleeperGrid
  PROVE  Inv'
<1> USE IdleWork
<1>1. UNCHANGED <<seq, who, creating, created, worker, kick>>
  BY DEF TickSessions, TickAlive, TickStale, StaleGrid, StaleRemove, StaleSleeper,
         StaleSleeperGrid
<1>2. /\ seq \in Nat /\ grid \subseteq 1 .. seq /\ live \subseteq 1 .. seq
      /\ tick \in Work /\ kick \in Work /\ Known(tick) /\ Known(kick)
  BY DEF Inv, Types, TypeOK
<1>3. /\ kick' \in Work /\ Known(kick)' /\ kick'.s = kick.s
      /\ \A n : kick.pc = "kickRemove" /\ kick.s = n => Explained(n)'
      /\ kick'.pc # "idle" => kick'.s > 0
  BY <1>1, <1>2 DEF Known, Explained, Inv, HasSession
<1>4. {"sessions", "staleGrid", "staleRemove", "staleSleep", "staleSleepGrid"} \subseteq Pc
  BY DEF Pc
<1>5. PICK no \in BOOLEAN : no = FALSE
  BY Zenon
<1>6. PICK r \in Work : r = tick
  BY <1>2
<1>7. r.pc \in {"staleGrid", "staleRemove", "staleSleep", "staleSleepGrid"} =>
        r.s > 0 /\ r.s \in 1 .. seq
  BY <1>2, <1>6 DEF Inv, HasSession, Known
\* The tick goes on in the same clean-up, or with the next session of the snapshot.
<1>8. ASSUME live' \subseteq live, tick' \in Work, Known(tick)', grid' \subseteq 1 .. seq,
             sleepers' \subseteq sleepers \cup {r.s},
             r.s \in sleepers' \ sleepers => r.s > 0 /\ r.s \notin live',
             tick'.s \in {r.s, 0} \cup r.todo,
             tick'.todo \subseteq live \cup r.todo,
             tick'.pc # "expire",
             tick'.pc \in {"staleGrid", "staleRemove", "staleSleep", "staleSleepGrid"} =>
               tick'.s > 0,
             tick'.pc \in {"staleSleep", "staleSleepGrid"} => tick'.s \notin live',
             \A n \in live' \cap grid : n \notin grid' => tick'.pc = "staleRemove" /\ tick'.s = n,
             \A n \in live' : ~(r.pc = "staleRemove" /\ r.s = n)
      PROVE  Inv'
  <2>1. HasSession'
    BY <1>3, <1>8 DEF HasSession
  <2>2. \A n \in live' \cap grid : n \notin grid' => Explained(n)'
    BY <1>8 DEF Explained
  <2> QED
    BY <1>1, <1>3, <1>6, <1>8, <2>1, <2>2, OthersKeep
<1>9. ASSUME NEW n, tick' = NextSession(n), live' \subseteq live, grid' \subseteq 1 .. seq,
             sleepers' = sleepers, \A m \in live' \cap grid : m \in grid',
             \A m \in live' : ~(r.pc = "staleRemove" /\ r.s = m)
      PROVE  Inv'
  <2>1. /\ tick' \in Work /\ tick'.pc \in {"idle", "sessions"} /\ tick'.s = 0
        /\ tick'.sleeper = 0 /\ tick'.todo \subseteq r.todo
    BY <1>6, <1>9, NextSessionFields
  <2>2. Known(tick)'
    BY <1>1, <1>2, <1>6, <2>1 DEF Known
  <2> QED
    BY <1>8, <1>9, <2>1, <2>2
<1>10. ASSUME NEW pc \in {"staleRemove", "staleSleep", "staleSleepGrid"},
              tick' = [tick EXCEPT !.pc = pc],
              r.pc \in {"staleGrid", "staleRemove", "staleSleep", "staleSleepGrid"},
              live' \subseteq live, grid' \subseteq grid,
              sleepers' \subseteq sleepers \cup {r.s},
              r.s \in sleepers' \ sleepers => r.s \notin live',
              pc \in {"staleSleep", "staleSleepGrid"} => r.s \notin live',
              \A n \in live' \cap grid : n \notin grid' => pc = "staleRemove" /\ r.s = n,
              \A n \in live' : ~(r.pc = "staleRemove" /\ r.s = n)
       PROVE  Inv'
  <2>1. Fields(tick', pc, r.s, r.sleeper, r.todo, r.flag)
    <3>1. pc \in Pc
      BY <1>4
    <3> QED
      BY <1>6, <1>10, <3>1 DEF Fields, Work
  <2>2. tick' \in Work /\ tick'.pc = pc /\ tick'.s = r.s /\ tick'.sleeper = r.sleeper
          /\ tick'.todo = r.todo
    BY <2>1 DEF Fields
  <2>3. Known(tick)'
    BY <1>1, <1>2, <1>6, <2>2 DEF Known
  <2>4. grid' \subseteq 1 .. seq
    BY <1>2, <1>10
  <2> QED
    BY <1>7, <1>8, <1>10, <2>2, <2>3, <2>4
<1>11. CASE TickSessions
  <2>1. /\ r = Idle /\ tick' = [Idle EXCEPT !.pc = "sessions", !.todo = live]
        /\ UNCHANGED <<live, grid, sleepers>>
    BY <1>6, <1>11 DEF TickSessions
  <2>2. live \in SUBSET Nat /\ 0 \in Nat
    BY <1>2
  <2>3. Fields(tick', "sessions", 0, 0, live, no)
    <3>1. Fields([r EXCEPT !.pc = "sessions", !.todo = live],
                 "sessions", r.s, r.sleeper, live, r.flag)
      BY <1>4, <2>2, Updates
    <3>2. r.s = 0 /\ r.sleeper = 0 /\ r.flag = no
      BY <1>5, <2>1, IdleWork
    <3>3. tick' = [r EXCEPT !.pc = "sessions", !.todo = live]
      BY <2>1
    <3> QED
      BY <3>1, <3>2, <3>3
  <2>4. /\ tick' \in Work /\ tick'.pc = "sessions" /\ tick'.s = 0 /\ tick'.sleeper = 0
        /\ tick'.todo = live
    BY <2>3 DEF Fields
  <2>5. Known(tick)'
    BY <1>1, <1>2, <2>4 DEF Known
  <2> QED
    BY <1>2, <1>8, <2>1, <2>4, <2>5
<1>12. CASE \E n \in tick.todo : TickAlive(n)
  <2>1. PICK n : tick' = NextSession(n) /\ UNCHANGED <<live, grid, sleepers>>
                   /\ r.pc = "sessions"
    BY <1>6, <1>12 DEF TickAlive
  <2> QED
    BY <1>2, <1>9, <2>1
<1>13. CASE \E n \in tick.todo, leaveBody \in BOOLEAN : TickStale(n, leaveBody)
  <2>1. PICK n \in r.todo, f \in BOOLEAN :
          /\ tick' = [tick EXCEPT !.pc = "staleGrid", !.s = n, !.flag = f]
          /\ UNCHANGED <<live, grid, sleepers>> /\ r.pc = "sessions"
    BY <1>6, <1>13 DEF TickStale
  <2>2. n \in 1 .. seq /\ n \in Nat /\ n > 0
    BY <1>2, <1>6 DEF Known
  <2>3. Fields(tick', "staleGrid", n, r.sleeper, r.todo, f)
    BY <1>4, <1>6, <2>1, <2>2 DEF Work, Fields
  <2>4. /\ tick' \in Work /\ tick'.pc = "staleGrid" /\ tick'.s = n /\ tick'.sleeper = r.sleeper
        /\ tick'.todo = r.todo
    BY <2>3 DEF Fields
  <2>5. Known(tick)'
    BY <1>1, <1>2, <1>6, <2>2, <2>4 DEF Known
  <2> QED
    BY <1>2, <1>8, <2>1, <2>2, <2>4, <2>5
<1>14. CASE StaleGrid
  <2>1. /\ r.pc = "staleGrid" /\ grid' = grid \ {r.s} /\ UNCHANGED <<live, sleepers>>
        /\ tick' = [tick EXCEPT !.pc = "staleRemove"]
    BY <1>6, <1>14 DEF StaleGrid, GridRemove
  <2> QED
    BY <1>10, <2>1
<1>15. CASE StaleRemove
  <2>1. /\ r.pc = "staleRemove" /\ live' = live \ {r.s} /\ UNCHANGED <<grid, sleepers>>
        /\ \/ tick' = [tick EXCEPT !.pc = "staleSleep"]
           \/ tick' = NextSession(r.s)
    BY <1>6, <1>15 DEF StaleRemove
  <2> QED
    BY <1>2, <1>9, <1>10, <2>1
<1>16. CASE StaleSleeper
  <2>1. /\ r.pc = "staleSleep" /\ UNCHANGED <<live, grid>>
        /\ sleepers' \subseteq sleepers \cup {r.s}
        /\ tick' = [tick EXCEPT !.pc = "staleSleepGrid"]
    BY <1>6, <1>16 DEF StaleSleeper, CreateSleeper
  <2>2. r.s \notin live'
    BY <1>6, <2>1 DEF Inv, Bodies
  <2> QED
    BY <1>10, <2>1, <2>2
<1>17. CASE StaleSleeperGrid
  <2>1. /\ r.pc = "staleSleepGrid" /\ grid' = grid \cup {r.s} /\ UNCHANGED <<live, sleepers>>
        /\ tick' = NextSession(r.s)
    BY <1>6, <1>17 DEF StaleSleeperGrid, GridInsert
  <2>2. grid' \subseteq 1 .. seq
    BY <1>2, <1>7, <2>1
  <2> QED
    BY <1>9, <2>1, <2>2
<1> QED
  BY <1>11, <1>12, <1>13, <1>14, <1>15, <1>16, <1>17

\* The administrator's kick.
LEMMA KickKeeps ==
  ASSUME Inv, Kick
  PROVE  Inv'
<1> USE IdleWork
<1>1. UNCHANGED <<seq, who, creating, created, sleepers, worker, tick>>
  BY DEF Kick, KickSession, KickGrid, KickRemove
<1>2. /\ seq \in Nat /\ grid \subseteq 1 .. seq /\ live \subseteq 1 .. seq
      /\ tick \in Work /\ kick \in Work /\ Known(tick) /\ Known(kick)
  BY DEF Inv, Types, TypeOK
<1>3. {"kickGrid", "kickRemove"} \subseteq Pc
  BY DEF Pc
<1>4. PICK no \in BOOLEAN : no = FALSE
  BY Zenon
<1>5. PICK r \in Work : r = kick
  BY <1>2
<1>6. ASSUME live' \subseteq live, kick' \in Work, Known(kick)', grid' \subseteq grid,
             kick'.s \in {r.s, 0} \cup live,
             kick'.pc # "idle" => kick'.s > 0,
             \A n \in live' \cap grid : n \notin grid' => kick'.pc = "kickRemove" /\ kick'.s = n,
             \A n \in live' : ~(r.pc = "kickRemove" /\ r.s = n)
      PROVE  Inv'
  <2>1. HasSession'
    BY <1>1, <1>6 DEF Inv, HasSession
  <2>2. \A n \in live' \cap grid : n \notin grid' => Explained(n)'
    BY <1>6 DEF Explained
  <2>3. tick' \in Work /\ Known(tick)' /\ grid' \subseteq 1 .. seq
    BY <1>1, <1>2, <1>6 DEF Known
  <2>4. /\ tick'.pc = "expire" => \A n \in tick'.todo : Gone(n)
        /\ tick'.pc \in {"staleSleep", "staleSleepGrid"} => tick'.s \notin live'
    BY <1>1, <1>6 DEF Inv, Bodies
  <2>5. \A n \in live' : tick.pc = "staleRemove" /\ tick.s = n => Explained(n)'
    BY <1>1 DEF Explained
  <2> QED
    BY <1>1, <1>5, <1>6, <2>1, <2>2, <2>3, <2>4, <2>5, OthersKeep
<1>7. CASE \E n \in live : KickSession(n)
  <2>1. PICK n \in live : /\ r = Idle /\ kick' = [Idle EXCEPT !.pc = "kickGrid", !.s = n]
                          /\ UNCHANGED <<live, grid>>
    BY <1>5, <1>7 DEF KickSession
  <2>2. n \in 1 .. seq /\ n \in Nat /\ n > 0
    BY <1>2
  <2>3. Fields(kick', "kickGrid", n, 0, {}, no)
    BY <1>3, <1>4, <2>1, <2>2, Updates
  <2>4. /\ kick' \in Work /\ kick'.pc = "kickGrid" /\ kick'.s = n /\ kick'.sleeper = 0
        /\ kick'.todo = {}
    BY <2>3 DEF Fields
  <2>5. Known(kick)'
    BY <1>1, <1>2, <2>2, <2>4 DEF Known
  <2> QED
    BY <1>6, <2>1, <2>2, <2>4, <2>5
<1>8. CASE KickGrid
  <2>1. /\ r.pc = "kickGrid" /\ grid' = grid \ {r.s} /\ live' = live
        /\ kick' = [r EXCEPT !.pc = "kickRemove"]
    BY <1>5, <1>8 DEF KickGrid, GridRemove
  <2>2. Fields(kick', "kickRemove", r.s, r.sleeper, r.todo, r.flag)
    BY <1>3, <2>1 DEF Fields, Work
  <2>3. /\ kick' \in Work /\ kick'.pc = "kickRemove" /\ kick'.s = r.s /\ kick'.sleeper = r.sleeper
        /\ kick'.todo = r.todo
    BY <2>2 DEF Fields
  <2>4. Known(kick)' /\ r.s > 0
    BY <1>1, <1>2, <1>5, <2>1, <2>3 DEF Known, Inv, HasSession
  <2> QED
    BY <1>6, <2>1, <2>3, <2>4
<1>9. CASE KickRemove
  <2>1. live' = live \ {r.s} /\ grid' = grid /\ kick' = Idle
    BY <1>5, <1>9 DEF KickRemove
  <2>2. Known(kick)'
    BY <1>1, <1>2, <2>1 DEF Known
  <2> QED
    BY <1>6, <2>1, <2>2
<1> QED
  BY <1>7, <1>8, <1>9 DEF Kick

\* The invariant is inductive.
LEMMA InvNext == Inv /\ [Next]_vars => Inv'
<1> SUFFICES ASSUME Inv, [Next]_vars PROVE Inv'
  OBVIOUS
<1>1. CASE \E a \in Addr : Worker(a)
  <2>1. PICK a \in Addr : Worker(a)
    BY <1>1
  <2>2. CASE \E acc \in Account : Handshake(a, acc)
    BY <2>2, HandshakeBegins
  <2>3. CASE TryAddCapped(a)
    BY <2>3, RegisterKeeps
  <2>4. CASE \/ LookForSleeper(a) \/ Reclaim(a) \/ ReclaimGrid(a)
             \/ \E m \in worker[a].todo : CleanupEvicted(a, m)
             \/ FinishHandshake(a)
    BY <2>4, HandshakeKeeps
  <2>5. CASE \/ DisconnectGrid(a) \/ DisconnectSleeper(a) \/ DisconnectSleeperGrid(a)
             \/ DisconnectRemove(a) \/ TransformSeen(a) \/ GridUpdate(a)
             \/ KillRemove(a) \/ KillGrid(a)
    BY <2>5, LeaveKeeps
  <2>6. CASE \/ \E leaveBody \in BOOLEAN : Disconnect(a, leaveBody)
             \/ Transform(a) \/ LevelChange(a) \/ CharacterSelect(a) \/ KillSleeper(a)
    BY <2>6, BeginsKeep
  <2> QED
    BY <2>1, <2>2, <2>3, <2>4, <2>5, <2>6 DEF Worker
<1>2. CASE Tick
  <2>1. CASE \/ \E X \in SUBSET sleepers : SleepersExpire(X)
             \/ \E n \in tick.todo : SleeperExpireGrid(n)
    BY <2>1, ExpireKeeps
  <2>2. CASE \/ TickSessions
             \/ \E n \in tick.todo : TickAlive(n)
             \/ \E n \in tick.todo, leaveBody \in BOOLEAN : TickStale(n, leaveBody)
             \/ StaleGrid \/ StaleRemove \/ StaleSleeper \/ StaleSleeperGrid
    BY <2>2, StaleKeeps
  <2> QED
    BY <1>2, <2>1, <2>2 DEF Tick
<1>3. CASE Kick
  BY <1>3, KickKeeps
<1>4. CASE UNCHANGED vars
  BY <1>4 DEF vars, Inv, Types, TypeOK, Known, AddrOf, AccountOf, Owners, Owns, HasSession,
             Newcomers, Unseen, Bodies, Gone, Evicted, Present, Explained
<1> QED
  BY <1>1, <1>2, <1>3, <1>4 DEF Next

\* When no handler runs, every player in the registry whose character is complete is in the
\* grid: no order of packets of other endpoints, clean-ups of the tick, deaths of sleepers and
\* kicks makes a live player invisible (server.go: handshake, disconnect, Tick, KickSession).
\* The types hold in every state.
THEOREM Presence == Spec => []PlayersPresent
<1>1. Inv => PlayersPresent
  <2>1. ASSUME Inv, Quiet, NEW n \in live \ creating PROVE n \in grid
    <3>1. ~Explained(n)
      BY <2>1, IdleWork DEF Quiet, Explained, Covers, Leaves
    <3> QED
      BY <2>1, <3>1 DEF Inv, Present
  <2>2. Inv => TypeOK
    BY DEF Inv, Types
  <2> QED
    BY <2>1, <2>2 DEF PlayersPresent, LiveInGrid
<1> QED
  BY <1>1, InvInit, InvNext, PTL DEF Spec

-----------------------------------------------------------------------------
(***************************************************************************)
(* The registry of these handlers is a SessionTable: whatever the workers, *)
(* the tick and a kick do between their locked sections, sessions join by  *)
(* displacing those they conflict with and leave one at a time, and the    *)
(* cap is never passed.  A session id is made once here, so two sessions   *)
(* never conflict by their ids.  A refused handshake evicts nobody because *)
(* a registry within its cap that is full without the sessions to be       *)
(* displaced has none to displace.                                         *)
(***************************************************************************)
SessionOf(n) == [num |-> n, addr |-> AddrOf(n), account |-> AccountOf(n)]
Registered == {SessionOf(n) : n \in live}

Registry == INSTANCE SessionTable WITH live <- Registered, IdSpace <- MaxSessions + 1
RegistrySpec == Registry!Spec

Capped == MaxPlayers > 0 => Cardinality(live) <= MaxPlayers

\* The registry is finite, and so is every part of it.
LEMMA LiveFinite ==
  ASSUME Inv
  PROVE  /\ IsFiniteSet(live) /\ Cardinality(live) \in Nat
         /\ \A L \in SUBSET live :
              /\ IsFiniteSet(L) /\ Cardinality(L) \in Nat
              /\ Cardinality(L) <= Cardinality(live)
              /\ Cardinality(live) = Cardinality(L) => live = L
<1>1. live \in SUBSET (1 .. seq) /\ seq \in Int /\ 1 \in Int
  BY DEF Inv, Types, TypeOK
<1>2. IsFiniteSet(live)
  <2>1. IsFiniteSet(1 .. seq)
    BY <1>1, FS_Interval
  <2> QED
    BY <1>1, <2>1, FS_Subset
<1>3. ASSUME NEW L \in SUBSET live
      PROVE  /\ IsFiniteSet(L) /\ Cardinality(L) \in Nat
             /\ Cardinality(L) <= Cardinality(live)
             /\ Cardinality(live) = Cardinality(L) => live = L
  BY <1>2, FS_Subset, FS_CardinalityType
<1> QED
  BY <1>2, <1>3, FS_CardinalityType

\* What TryAddCapped makes of the registry.
LEMMA AddCases ==
  ASSUME Inv, Capped, NEW a \in Addr, TryAddCapped(a)
  PROVE  LET n == worker[a].s
         IN  \/ live' = live
             \/ /\ live' = (live \ Conflicts(n)) \cup {n} /\ n \notin live /\ n \in 1 .. seq
                /\ UNCHANGED <<seq, who>>
                /\ MaxPlayers > 0 => Cardinality(live') <= MaxPlayers
<1> DEFINE n == worker[a].s
           stay == live \ Conflicts(n)
           full == MaxPlayers > 0 /\ Cardinality(stay) >= MaxPlayers
<1>1. /\ live' = IF full THEN stay ELSE stay \cup {n}
      /\ worker[a].pc = "add" /\ UNCHANGED <<seq, who>>
  BY DEF TryAddCapped, At
<1>2. /\ IsFiniteSet(stay) /\ Cardinality(stay) \in Nat /\ Cardinality(live) \in Nat
      /\ Cardinality(stay) <= Cardinality(live)
      /\ Cardinality(live) = Cardinality(stay) => live = stay
  BY LiveFinite
<1>3. Unseen(n) /\ n \in 0 .. seq /\ n > 0
  BY <1>1 DEF Inv, Newcomers, Joining, Types, Known, Owners, Owns
<1>4. n \notin live /\ n \notin stay /\ n \in 1 .. seq
  BY <1>3 DEF Unseen, Inv, Types, TypeOK
<1>5. CASE full
  BY <1>1, <1>2, <1>5, MaxPlayersAssumption DEF Capped
<1>6. CASE ~full
  <2>1. Cardinality(stay \cup {n}) = Cardinality(stay) + 1
    BY <1>2, <1>4, FS_AddElement
  <2>2. MaxPlayers > 0 => Cardinality(stay \cup {n}) <= MaxPlayers
    BY <1>2, <1>6, <2>1, MaxPlayersAssumption
  <2> QED
    BY <1>1, <1>4, <1>6, <2>2
<1> QED
  BY <1>5, <1>6

\* The other steps take one session out of the registry, or none.
LEMMA OthersLeave ==
  ASSUME Inv, [Next]_vars, ~\E a \in Addr : TryAddCapped(a)
  PROVE  \/ live' = live
         \/ \E n : live' = live \ {n}
<1>1. ASSUME NEW a \in Addr, Worker(a) PROVE live' = live \/ \E n : live' = live \ {n}
  <2>1. ~TryAddCapped(a)
    OBVIOUS
  <2> QED
    BY <1>1, <2>1, Zenon DEF Worker, Handshake, LookForSleeper, Reclaim, ReclaimGrid, CleanupEvicted,
       FinishHandshake, Disconnect, DisconnectGrid, DisconnectSleeper, DisconnectSleeperGrid,
       DisconnectRemove, Transform, TransformSeen, LevelChange, CharacterSelect, GridUpdate,
       KillSleeper, KillRemove, KillGrid
<1>2. CASE Tick
  BY <1>2, Zenon DEF Tick, SleepersExpire, SleeperExpireGrid, TickSessions, TickAlive, TickStale,
     StaleGrid, StaleRemove, StaleSleeper, StaleSleeperGrid
<1>3. CASE Kick
  BY <1>3, Zenon DEF Kick, KickSession, KickGrid, KickRemove
<1>4. CASE UNCHANGED vars
  BY <1>4 DEF vars
<1> QED
  BY <1>1, <1>2, <1>3, <1>4 DEF Next

\* The cap holds.
LEMMA CappedInit == Init => Capped
<1>1. Cardinality({}) = 0
  BY FS_EmptySet
<1> QED
  BY <1>1, MaxPlayersAssumption DEF Init, Capped

LEMMA CappedNext == Inv /\ Capped /\ [Next]_vars => Capped'
<1> SUFFICES ASSUME Inv, Capped, [Next]_vars PROVE Capped'
  OBVIOUS
<1>1. CASE \E a \in Addr : TryAddCapped(a)
  BY <1>1, AddCases DEF Capped
<1>2. CASE ~\E a \in Addr : TryAddCapped(a)
  <2>1. live' \in SUBSET live
    BY <1>2, OthersLeave
  <2>2. /\ Cardinality(live') <= Cardinality(live)
        /\ Cardinality(live') \in Nat /\ Cardinality(live) \in Nat
    BY <2>1, LiveFinite
  <2> QED
    BY <2>2, MaxPlayersAssumption DEF Capped
<1> QED
  BY <1>1, <1>2

\* A session that is made stays what it is.
LEMMA SessionsStay ==
  ASSUME Inv, [Next]_vars, NEW n \in 1 .. seq
  PROVE  SessionOf(n)' = SessionOf(n)
<1>1. who'[n] = who[n]
  <2>1. CASE \E a \in Addr, acc \in Account : Handshake(a, acc)
    <3>1. PICK e : who' = [who EXCEPT ![seq + 1] = e]
      BY <2>1 DEF Handshake
    <3>2. n # seq + 1 /\ n \in Id
      BY MaxSessionsAssumption DEF Inv, Types, TypeOK, Id
    <3> QED
      BY <3>1, <3>2 DEF Inv, Types
  <2>2. CASE ~\E a \in Addr, acc \in Account : Handshake(a, acc)
    <3>1. ASSUME NEW a \in Addr, Worker(a) PROVE who' = who
      <4>1. ~\E acc \in Account : Handshake(a, acc)
        BY <2>2
      <4> QED
        BY <3>1, <4>1, Zenon DEF Worker, LookForSleeper, Reclaim, ReclaimGrid, TryAddCapped,
           CleanupEvicted, FinishHandshake, Disconnect, DisconnectGrid, DisconnectSleeper,
           DisconnectSleeperGrid, DisconnectRemove, Transform, TransformSeen, LevelChange,
           CharacterSelect, GridUpdate, KillSleeper, KillRemove, KillGrid
    <3>2. CASE Tick
      BY <3>2, Zenon DEF Tick, SleepersExpire, SleeperExpireGrid, TickSessions, TickAlive, TickStale,
         StaleGrid, StaleRemove, StaleSleeper, StaleSleeperGrid
    <3>3. CASE Kick
      BY <3>3, Zenon DEF Kick, KickSession, KickGrid, KickRemove
    <3>4. CASE UNCHANGED vars
      BY <3>4 DEF vars
    <3> QED
      BY <3>1, <3>2, <3>3, <3>4 DEF Next
  <2> QED
    BY <2>1, <2>2
<1> QED
  BY <1>1 DEF SessionOf, AddrOf, AccountOf

\* Two sessions of the registry differ in their ids.
LEMMA SameSession ==
  ASSUME NEW n, NEW m, SessionOf(n) = SessionOf(m)
  PROVE  n = m
<1>1. SessionOf(n).num = n /\ SessionOf(m).num = m
  BY DEF SessionOf
<1> QED
  BY <1>1

\* Sessions conflict by endpoint and account.
LEMMA ConflictIs ==
  ASSUME Inv, NEW n \in 1 .. seq, NEW m \in live, n # m
  PROVE  Registry!Conflict(SessionOf(n), SessionOf(m)) <=> m \in Conflicts(n)
<1>1. /\ n \in Nat /\ m \in Nat /\ n < MaxSessions + 1 /\ m < MaxSessions + 1
      /\ MaxSessions + 1 \in Nat \ {0}
  BY MaxSessionsAssumption DEF Inv, Types, TypeOK
<1>2. n % (MaxSessions + 1) = n /\ m % (MaxSessions + 1) = m
  <2>1. PICK d : d = MaxSessions + 1
    OBVIOUS
  <2> QED
    BY <1>1, <2>1
<1>3. /\ SessionOf(n).num = n /\ SessionOf(n).addr = AddrOf(n)
      /\ SessionOf(n).account = AccountOf(n)
      /\ SessionOf(m).num = m /\ SessionOf(m).addr = AddrOf(m)
      /\ SessionOf(m).account = AccountOf(m)
  BY DEF SessionOf
<1> QED
  BY <1>2, <1>3 DEF Registry!Conflict, Conflicts

\* The entries of a registry are no more than their ids.
LEMMA RegisteredSize ==
  ASSUME NEW k \in Int, NEW L \in SUBSET (1 .. k)
  PROVE  /\ Cardinality({SessionOf(n) : n \in L}) \in Nat /\ Cardinality(L) \in Nat
         /\ Cardinality({SessionOf(n) : n \in L}) <= Cardinality(L)
<1> DEFINE f == [n \in L |-> SessionOf(n)]
           R == {SessionOf(n) : n \in L}
<1>1. IsFiniteSet(L)
  <2>1. 1 \in Int
    OBVIOUS
  <2>2. IsFiniteSet(1 .. k)
    BY <2>1, FS_Interval
  <2> QED
    BY <2>2, FS_Subset
<1>2. f \in Surjection(L, R)
  BY DEF Surjection
<1>3. IsFiniteSet(R) /\ Cardinality(R) <= Cardinality(L)
  BY <1>1, <1>2, FS_Surjection
<1> QED
  BY <1>1, <1>3, FS_CardinalityType

\* An admitted handshake is a Join of the table.
LEMMA AddJoins ==
  ASSUME Inv, Inv', NEW n \in 1 .. seq, n \notin live, [Next]_vars, UNCHANGED <<seq, who>>,
         live' = (live \ Conflicts(n)) \cup {n},
         MaxPlayers > 0 => Cardinality(live') <= MaxPlayers
  PROVE  Registry!Next
<1> DEFINE s == SessionOf(n)
<1>1. \A m : SessionOf(m)' = SessionOf(m)
  BY DEF SessionOf, AddrOf, AccountOf
<1>2. Registered' = {SessionOf(m) : m \in live'}
  BY <1>1 DEF Registered
<1>3. s \in Registered' /\ s \notin Registered
  BY <1>2, SameSession DEF Registered
<1>4. Registered' = {s} \cup {t \in Registered : ~Registry!Conflict(s, t)}
  <2>1. ASSUME NEW t \in Registered'
        PROVE  t \in {s} \cup {u \in Registered : ~Registry!Conflict(s, u)}
    <3>1. PICK m \in live' : t = SessionOf(m)
      BY <1>2
    <3>2. CASE m # n
      <4>1. m \in live /\ m \notin Conflicts(n)
        BY <3>2
      <4> QED
        BY <3>1, <3>2, <4>1, ConflictIs DEF Registered
    <3> QED
      BY <3>1, <3>2
  <2>2. ASSUME NEW t \in Registered, ~Registry!Conflict(s, t) PROVE t \in Registered'
    <3>1. PICK m \in live : t = SessionOf(m)
      BY DEF Registered
    <3>2. m # n /\ m \notin Conflicts(n)
      BY <2>2, <3>1, ConflictIs
    <3> QED
      BY <1>2, <3>1, <3>2
  <2> QED
    BY <1>3, <2>1, <2>2
<1>5. MaxPlayers > 0 => Cardinality(Registered') <= MaxPlayers
  <2>1. /\ Cardinality(Registered') \in Nat /\ Cardinality(live') \in Nat
        /\ Cardinality(Registered') <= Cardinality(live')
    <3>1. live' \in SUBSET (1 .. seq') /\ seq' \in Int
      BY DEF Inv, Types, TypeOK
    <3> QED
      BY <1>2, <3>1, RegisteredSize
  <2> QED
    BY <2>1, MaxPlayersAssumption
<1>6. Registry!Join(s)
  BY <1>4, <1>5 DEF Registry!Join, Registry!Cardinality, Cardinality
<1> QED
  BY <1>3, <1>6 DEF Registry!Next

\* Every step is a step of the table or leaves it as it is.
LEMMA RegistryStep ==
  ASSUME Inv, Inv', Capped, [Next]_vars
  PROVE  [Registry!Next]_Registered
<1>1. live \subseteq 1 .. seq
  BY DEF Inv, Types, TypeOK
<1>2. \A m \in live : SessionOf(m)' = SessionOf(m)
  BY <1>1, SessionsStay
<1>3. ASSUME live' \subseteq live
      PROVE  Registered' = {SessionOf(m) : m \in live'}
  BY <1>2, <1>3 DEF Registered
<1>4. CASE live' = live
  <2>1. Registered' = {SessionOf(m) : m \in live'}
    BY <1>3, <1>4
  <2> QED
    BY <1>4, <2>1 DEF Registered
<1>5. ASSUME NEW n \in live, live' = live \ {n} PROVE [Registry!Next]_Registered
  <2>1. Registered' = {SessionOf(m) : m \in live \ {n}}
    BY <1>3, <1>5
  <2>2. Registered' = Registered \ {SessionOf(n)} /\ SessionOf(n) \in Registered
    BY <2>1, SameSession DEF Registered
  <2> QED
    BY <2>2 DEF Registry!Next, Registry!Leave
<1>6. CASE \E a \in Addr : TryAddCapped(a)
  <2>1. PICK a \in Addr : TryAddCapped(a)
    BY <1>6
  <2> QED
    BY <2>1, <1>4, AddCases, AddJoins
<1>7. CASE ~\E a \in Addr : TryAddCapped(a)
  <2>1. live' = live \/ \E n \in live : live' = live \ {n}
    BY <1>7, OthersLeave
  <2> QED
    BY <2>1, <1>4, <1>5
<1> QED
  BY <1>6, <1>7

\* However the handlers interleave, the registry they share is the one that SessionManager
\* was shown to implement: a session joins by displacing its rivals (TryAddCapped), leaves
\* by disconnect, timeout or kick, and the cap holds.
THEOREM RegistryIsTable == Spec => RegistrySpec
<1>1. Init => Registry!Init
  BY DEF Init, Registry!Init, Registered
<1>2. Inv /\ Inv' /\ Capped /\ [Next]_vars => [Registry!Next]_Registered
  BY RegistryStep
<1> QED
  BY <1>1, <1>2, CappedInit, CappedNext, InvInit, InvNext, PTL DEF Spec, RegistrySpec, Registry!Spec

\* No two sessions of the registry conflict.
NoRivals == \A s, t \in Registered : Registry!Conflict(s, t) => s = t

LEMMA NoRivalsNext == NoRivals /\ [Registry!Next]_Registered => NoRivals'
<1> SUFFICES ASSUME NoRivals, [Registry!Next]_Registered PROVE NoRivals'
  OBVIOUS
<1>1. CASE Registered' \subseteq Registered
  BY <1>1 DEF NoRivals, Registry!Conflict
<1>2. ASSUME NEW s, Registered' = {s} \cup {t \in Registered : ~Registry!Conflict(s, t)}
      PROVE  NoRivals'
  <2> SUFFICES ASSUME NEW t \in Registered', NEW u \in Registered', Registry!Conflict(t, u)
               PROVE  t = u
    BY DEF NoRivals, Registry!Conflict
  <2>1. CASE t = s /\ u # s
    BY <1>2, <2>1
  <2>2. CASE t # s /\ u = s
    <3>1. Registry!Conflict(s, t)
      BY <2>2 DEF Registry!Conflict
    <3> QED
      BY <1>2, <2>2, <3>1
  <2>3. CASE t # s /\ u # s
    BY <1>2, <2>3 DEF NoRivals
  <2> QED
    BY <2>1, <2>2, <2>3
<1>3. CASE Registry!Next
  BY <1>1, <1>2, <1>3 DEF Registry!Next, Registry!Join, Registry!Leave
<1> QED
  BY <1>1, <1>3

\* Whatever handshakes, departures, timeouts and kicks race, no endpoint and no account ever
\* has two sessions in the registry.
THEOREM OneSessionEach == Spec => []NoRivals
<1>1. Init => NoRivals
  BY DEF Init, NoRivals, Registered
<1>2. Inv /\ Inv' /\ Capped /\ [Next]_vars => [Registry!Next]_Registered
  BY RegistryStep
<1> QED
  BY <1>1, <1>2, NoRivalsNext, CappedInit, CappedNext, InvInit, InvNext, PTL DEF Spec
=============================================================================
