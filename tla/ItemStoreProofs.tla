--------------------------- MODULE ItemStoreProofs ---------------------------
(***************************************************************************)
(* ItemStore for any players, levels, sections, positions and bounds.      *)
(*                                                                         *)
(* One stash per position: Min is a CHOOSE, so the property is proved from *)
(* the plain form OnePerPosition (IInv).                                   *)
(*                                                                         *)
(* Nobody misses an item: SInv says how a player on the level of an item   *)
(* has come, or will come, to see it, and that no id is used twice.        *)
(*                                                                         *)
(* Conservation, and what players are told: CInv.  The sums are folds of   *)
(* the library, so the third part shows that the equation of the fold has  *)
(* a solution on every finite set and that any element can be taken out of *)
(* a sum (as CombatProofs does for its windows).  The fourth part is what  *)
(* RemoveInventoryItemsLocked and CreditInventoryLocked do to the total of *)
(* an inventory: the rows of an initial segment of the order in which they *)
(* are consumed keep together what is left of their copies.  The last      *)
(* parts are one lemma per sum and one per action.                         *)
(***************************************************************************)
EXTENDS ItemStore, FiniteSetTheorems, WellFoundedInduction, TLAPS

Stash == [level: Level, key: Key, items: [Section \X Bucket -> Nat]]

\* What the stashes and the levels are.
StashTypes ==
  /\ stashes \in Seq(Stash)
  /\ level \in [Player -> Level \cup {Offline}]

\* No two stashes have the same position.
OnePerPosition ==
  \A m, n \in DOMAIN stashes :
    stashes[m].level = stashes[n].level /\ stashes[m].key = stashes[n].key => m = n

IInv == StashTypes /\ OnePerPosition

\* A request is for a number of copies.
LEMMA CopiesNat == \A n \in Copies : n \in Nat
BY LimitAssumption DEF Copies

\* The contents of a stash ...
LEMMA Contents ==
  ASSUME IInv, NEW k \in DOMAIN stashes
  PROVE  /\ stashes[k] \in Stash
         /\ stashes[k].items \in [Section \X Bucket -> Nat]
<1>1. stashes[k] \in Stash
  BY DEF IInv, StashTypes
<1>2. \A r \in Stash : r.items \in [Section \X Bucket -> Nat]
  BY DEF Stash
<1> QED
  BY <1>1, <1>2

\* ... and its record with others.
LEMMA Refilled ==
  ASSUME NEW r \in Stash, NEW items \in [Section \X Bucket -> Nat]
  PROVE  /\ [r EXCEPT !.items = items] \in Stash
         /\ [r EXCEPT !.items = items].level = r.level
         /\ [r EXCEPT !.items = items].key = r.key
BY DEF Stash

\* Changing the contents of a stash changes no position; where there is no stash
\* nothing changes.
LEMMA ContentsKeepPositions ==
  ASSUME IInv, NEW k, NEW items,
         k \in DOMAIN stashes => items \in [Section \X Bucket -> Nat],
         stashes' = [stashes EXCEPT ![k].items = items],
         UNCHANGED level
  PROVE  IInv'
<1> DEFINE new == [stashes[k] EXCEPT !.items = items]
<1>1. stashes \in Seq(Stash)
  BY DEF IInv, StashTypes
<1>2. k \in DOMAIN stashes =>
        new \in Stash /\ new.level = stashes[k].level /\ new.key = stashes[k].key
  <2> SUFFICES ASSUME k \in DOMAIN stashes
               PROVE  new \in Stash /\ new.level = stashes[k].level /\ new.key = stashes[k].key
    OBVIOUS
  <2> QED
    BY Contents, Refilled
<1>3. stashes' = [stashes EXCEPT ![k] = new]
  OBVIOUS
<1> HIDE DEF new
<1>4. stashes' \in Seq(Stash) /\ DOMAIN stashes' = DOMAIN stashes
  <2>1. CASE k \in DOMAIN stashes
    BY <2>1, <1>1, <1>2, <1>3
  <2>2. CASE k \notin DOMAIN stashes
    <3>1. stashes' = stashes
      BY <2>2, <1>1, <1>3
    <3> QED
      BY <3>1, <1>1
  <2> QED
    BY <2>1, <2>2
<1>5. \A n \in DOMAIN stashes : stashes'[n].level = stashes[n].level /\ stashes'[n].key = stashes[n].key
  BY <1>1, <1>2, <1>3
<1>6. OnePerPosition'
  BY <1>4, <1>5 DEF IInv, OnePerPosition
<1> QED
  BY <1>4, <1>6 DEF IInv, StashTypes

\* The contents of a stash with one entry changed.
LEMMA EntryChanged ==
  ASSUME NEW f \in [Section \X Bucket -> Nat], NEW e, NEW v,
         e \in Section \X Bucket => v \in Nat
  PROVE  [f EXCEPT ![e] = v] \in [Section \X Bucket -> Nat]
OBVIOUS

\* A stash is made only where there is none.
LEMMA CreateKeepsPositions ==
  ASSUME IInv, NEW p \in Player, NEW k \in Key, FindOrCreateStash(p, k)
  PROVE  IInv'
<1>1. CASE StashesAt(level[p], k) = {}
  <2> DEFINE new == [level |-> level[p], key |-> k, items |-> Empty]
  <2>1. stashes' = Append(stashes, new) /\ level' = level
    BY <1>1 DEF FindOrCreateStash
  <2>2. new \in Stash
    BY DEF FindOrCreateStash, Ready, Online, IInv, StashTypes, Stash, Empty
  <2>3. /\ stashes' \in Seq(Stash)
        /\ Len(stashes') = Len(stashes) + 1
        /\ stashes'[Len(stashes) + 1] = new
        /\ \A n \in DOMAIN stashes : stashes'[n] = stashes[n]
    BY <2>1, <2>2 DEF IInv, StashTypes
  <2>4. \A n \in DOMAIN stashes : ~(stashes[n].level = new.level /\ stashes[n].key = new.key)
    BY <1>1 DEF StashesAt
  <2>5. DOMAIN stashes' = DOMAIN stashes \cup {Len(stashes) + 1}
    BY <2>3 DEF IInv, StashTypes
  <2>6. OnePerPosition'
    <3> SUFFICES ASSUME NEW m \in DOMAIN stashes', NEW n \in DOMAIN stashes',
                        stashes'[m].level = stashes'[n].level,
                        stashes'[m].key = stashes'[n].key
                 PROVE  m = n
      BY DEF OnePerPosition
    <3> HIDE DEF new
    <3>1. CASE m \in DOMAIN stashes /\ n \in DOMAIN stashes
      BY <3>1, <2>3 DEF IInv, OnePerPosition
    <3>2. CASE m = Len(stashes) + 1 /\ n \in DOMAIN stashes
      BY <3>2, <2>3, <2>4
    <3>3. CASE m \in DOMAIN stashes /\ n = Len(stashes) + 1
      BY <3>3, <2>3, <2>4
    <3> QED
      BY <2>5, <3>1, <3>2, <3>3
  <2> QED
    BY <2>1, <2>3, <2>6 DEF IInv, StashTypes
<1>2. CASE StashesAt(level[p], k) # {}
  BY <1>2 DEF FindOrCreateStash, IInv, StashTypes, OnePerPosition
<1> QED
  BY <1>1, <1>2

\* Deposits and withdrawals change the contents of one stash.
LEMMA DepositKeepsPositions ==
  ASSUME IInv, NEW p \in Player, NEW s \in Section, NEW n \in Copies, NEW b \in Bucket,
         DepositItem(p, s, n, b)
  PROVE  IInv'
<1>1. PICK k : k = busy[p].stash
  OBVIOUS
<1>2. PICK e : e = <<s, TakenCondition(p, s, n, b)>>
  OBVIOUS
<1>3. Stored(p, s, n, b) = [stashes[k].items EXCEPT ![e] = stashes[k].items[e] + n]
  BY <1>1, <1>2, Zenon DEF Stored
<1>4. k \in DOMAIN stashes => Stored(p, s, n, b) \in [Section \X Bucket -> Nat]
  <2> SUFFICES ASSUME k \in DOMAIN stashes
               PROVE  Stored(p, s, n, b) \in [Section \X Bucket -> Nat]
    OBVIOUS
  <2>1. stashes[k].items \in [Section \X Bucket -> Nat]
    BY Contents
  <2>2. e \in Section \X Bucket => stashes[k].items[e] + n \in Nat
    BY <2>1, CopiesNat
  <2>3. PICK f, v : f = stashes[k].items /\ v = stashes[k].items[e] + n
    OBVIOUS
  <2>4. [f EXCEPT ![e] = v] \in [Section \X Bucket -> Nat]
    BY <2>1, <2>2, <2>3, EntryChanged
  <2> QED
    BY <1>3, <2>3, <2>4
<1>5. stashes' = [stashes EXCEPT ![k].items = Stored(p, s, n, b)] /\ UNCHANGED level
  BY <1>1, Zenon DEF DepositItem
<1> QED
  BY <1>4, <1>5, ContentsKeepPositions, Zenon

LEMMA WithdrawKeepsPositions ==
  ASSUME IInv, NEW p \in Player, NEW s \in Section, NEW n \in Copies, NEW b \in Bucket,
         WithdrawItem(p, s, n, b)
  PROVE  IInv'
<1>1. PICK k : k = busy[p].stash
  OBVIOUS
<1>2. PICK items : items = [stashes[k].items EXCEPT ![<<s, b>>] = @ - n]
  OBVIOUS
<1>3. k \in DOMAIN stashes => items \in [Section \X Bucket -> Nat]
  <2> SUFFICES ASSUME k \in DOMAIN stashes
               PROVE  items \in [Section \X Bucket -> Nat]
    OBVIOUS
  <2>1. stashes[k].items \in [Section \X Bucket -> Nat]
    BY Contents
  <2>2. stashes[k].items[<<s, b>>] >= n
    BY <1>1, Zenon DEF WithdrawItem
  <2>3. stashes[k].items[<<s, b>>] - n \in Nat
    BY <2>1, <2>2, CopiesNat
  <2> QED
    BY <1>2, <2>1, <2>3, EntryChanged
<1>4. stashes' = [stashes EXCEPT ![k].items = items] /\ UNCHANGED level
  BY <1>1, <1>2, Zenon DEF WithdrawItem
<1> QED
  BY <1>3, <1>4, ContentsKeepPositions, Zenon

LEMMA InitIInv == Init => IInv
BY DEF Init, IInv, StashTypes, OnePerPosition

LEMMA NextIInv == IInv /\ [Next]_vars => IInv'
<1> SUFFICES ASSUME IInv, [Next]_vars PROVE IInv'
  OBVIOUS
<1> USE DEF IInv, StashTypes, OnePerPosition
<1>1. CASE UNCHANGED vars
  BY <1>1 DEF vars
<1>2. ASSUME NEW p \in Player, NEW l \in Level, Join(p, l) \/ Travel(p, l) PROVE IInv'
  BY <1>2 DEF Join, Travel, Arrive
<1>3. ASSUME NEW p \in Player, JoinNew(p) \/ CharacterSelect(p) \/ Leave(p) PROVE IInv'
  BY <1>3, SpawnAssumption DEF JoinNew, CharacterSelect, Leave, Arrive
<1>13. ASSUME NEW p \in Player, ReloadLevel(p) \/ \E i \in ItemId : WalkAway(p, i) PROVE IInv'
  <2>1. UNCHANGED <<stashes, level>>
    BY <1>13 DEF ReloadLevel, WalkAway
  <2> QED
    BY <2>1
<1>4. ASSUME NEW p \in Player, ListWorldItems(p) \/ SendWorldItems(p) PROVE IInv'
  BY <1>4 DEF ListWorldItems, SendWorldItems
<1>5. ASSUME NEW p \in Player, NEW s \in Section, NEW n \in Copies, ItemAction(p, s, n)
      PROVE  IInv'
  <2>1. CASE \E b \in Bucket : DepositItem(p, s, n, b)
    BY <2>1, DepositKeepsPositions
  <2>2. CASE \E b \in Bucket : WithdrawItem(p, s, n, b)
    BY <2>2, WithdrawKeepsPositions
  <2>3. CASE \/ \E b \in Bucket : Drop(p, s, n, b)
             \/ Consume(p, s, n)
             \/ \E price \in Price : Sell(p, s, n, price)
             \/ \E b \in Bucket, price \in Price : Buy(p, s, n, b, price)
    <3>1. UNCHANGED <<stashes, level>>
      BY <2>3 DEF Drop, Consume, Sell, Buy
    <3> QED
      BY <3>1
  <2> QED
    BY <1>5, <2>1, <2>2, <2>3 DEF ItemAction
<1>6. ASSUME NEW p \in Player, NEW w \in world, LookUpItem(p, w) PROVE IInv'
  BY <1>6 DEF LookUpItem
<1>7. ASSUME NEW p \in Player, PickupWorldItem(p) \/ PickupLost(p) \/ StashRefused(p) PROVE IInv'
  BY <1>7 DEF PickupWorldItem, PickupLost, StashRefused
<1>8. ASSUME NEW p \in Player, NEW q \in Player, NEW hears \in BOOLEAN, BroadcastTo(p, q, hears)
      PROVE  IInv'
  BY <1>8 DEF BroadcastTo
<1>9. ASSUME NEW expired \in SUBSET world, SweepWorldItems(expired) PROVE IInv'
  BY <1>9 DEF SweepWorldItems
<1>10. ASSUME NEW m \in sweep, BroadcastRemoval(m[1], m[2]) PROVE IInv'
  BY <1>10 DEF BroadcastRemoval
<1>11. ASSUME NEW p \in Player, NEW k \in Key, FindOrCreateStash(p, k) \/ FindStash(p, k)
       PROVE  IInv'
  <2>1. CASE FindOrCreateStash(p, k)
    BY <2>1, CreateKeepsPositions
  <2>2. CASE FindStash(p, k)
    BY <2>2 DEF FindStash
  <2> QED
    BY <1>11, <2>1, <2>2
<1>12. ASSUME NEW p \in Player, NEW n \in DOMAIN stashes,
              NEW action \in {"deposit", "withdraw"}, OpenContainer(p, n, action)
       PROVE  IInv'
  BY <1>12 DEF OpenContainer
<1> QED
  BY <1>1, <1>2, <1>3, <1>4, <1>5, <1>6, <1>7, <1>8, <1>9, <1>10, <1>11, <1>12, <1>13 DEF Next

LEMMA IInvStored == IInv => StoredIsFound
<1> SUFFICES ASSUME IInv, NEW n \in DOMAIN stashes
             PROVE  FindStashAt(stashes[n].level, stashes[n].key) = n
  BY DEF StoredIsFound
<1>1. StashesAt(stashes[n].level, stashes[n].key) = {n}
  BY DEF StashesAt, IInv, OnePerPosition
<1>2. n \in Nat
  BY DEF IInv, StashTypes
<1> QED
  BY <1>1, <1>2 DEF FindStashAt, Min

(***************************************************************************)
(* What a player stores is found again: for any number of players whose    *)
(* first stores at a position race, FindOrCreateStashAt and FindStashAt    *)
(* agree on one stash.                                                     *)
(***************************************************************************)
THEOREM Storing == Spec => []StoredIsFound
BY InitIInv, NextIInv, IInvStored, PTL DEF Spec
-----------------------------------------------------------------------------
(***************************************************************************)
(* What the clients are shown.  An item is known while it lies in the      *)
(* world, while a worker carries it between two steps and while the sweep  *)
(* has still to tell of it: ids must be told apart among all of these, or  *)
(* the late news of a removal could hide another item.                     *)
(***************************************************************************)
Carries(b) == b.pc \in {"pickup", "tell"}
Known ==
  world \cup {busy[p].item : p \in {q \in Player : Carries(busy[q])}} \cup {m[1] : m \in sweep}

\* What a worker that tells the others carries.
TellRecord(b) == \E w, shows, to : b = [pc |-> "tell", item |-> w, shows |-> shows, to |-> to]

ShownTypes ==
  /\ DOMAIN level = Player /\ DOMAIN busy = Player /\ DOMAIN sees = Player
  /\ DOMAIN away = Player
  /\ dropped \in Nat
  /\ \A p \in Player : ~Online(p) => busy[p] = Idle
  /\ \A p \in Player : busy[p].pc = "tell" => TellRecord(busy[p])
  /\ \A w \in world : w.level # Offline

OneId ==
  /\ \A w \in Known : w.id \in 1 .. dropped
  /\ \A v, w \in Known : v.id = w.id => v = w

\* Only an item that is gone is taken from a client's screen.
RemovalsTrue ==
  /\ \A p \in Player : busy[p].pc = "tell" /\ ~busy[p].shows => busy[p].item \notin world
  /\ \A m \in sweep : m[1] \notin world

\* How a player who is on the level of an item has come, or will come, to see it, unless
\* he has been away.
Tells(q, w, p) == busy[q].pc = "tell" /\ busy[q].item = w /\ p \in busy[q].to
Shown(p, w) ==
  \/ busy[p].pc = "list"
  \/ busy[p].pc = "send" /\ w.id \in busy[p].items
  \/ w.id \in sees[p] \/ w.id \in away[p]
  \/ \E q \in Player : Tells(q, w, p)
AllShown ==
  \A p \in Player, w \in world : level[p] = w.level /\ p \notin pending => Shown(p, w)

SInv == ShownTypes /\ OneId /\ RemovalsTrue /\ AllShown

\* The worker of one player goes on; the others are where they were.
LEMMA OneContinues ==
  ASSUME ShownTypes, NEW p \in Player, NEW b, busy' = [busy EXCEPT ![p] = b]
  PROVE  /\ DOMAIN busy' = Player /\ busy'[p] = b
         /\ \A q \in Player \ {p} : busy'[q] = busy[q]
BY DEF ShownTypes

\* What is known grows only by what a step adds.
LEMMA KnownKeeps ==
  ASSUME OneId, Known' \subseteq Known, UNCHANGED dropped
  PROVE  OneId'
<1>1. \A w \in Known' : w.id \in 1 .. dropped'
  BY DEF OneId
<1>2. \A v, w \in Known' : v.id = w.id => v = w
  BY DEF OneId
<1> QED
  BY <1>1, <1>2 DEF OneId

\* What is known after a worker took a step.
LEMMA KnownAfter ==
  ASSUME ShownTypes, NEW p \in Player, NEW b, busy' = [busy EXCEPT ![p] = b],
         world' \subseteq Known, sweep' \subseteq sweep,
         Carries(b) => b.item \in Known
  PROVE  Known' \subseteq Known
<1>1. ASSUME NEW q \in Player, Carries(busy'[q]) PROVE busy'[q].item \in Known
  <2>1. CASE q = p
    BY <1>1, <2>1, OneContinues
  <2>2. CASE q # p
    <3>1. busy'[q] = busy[q]
      BY <2>2, OneContinues
    <3> QED
      BY <1>1, <3>1 DEF Known
  <2> QED
    BY <2>1, <2>2
<1>2. \A m \in sweep' : m[1] \in Known
  BY DEF Known
<1> QED
  BY <1>1, <1>2 DEF Known

\* Who is telling goes on telling unless it is his worker that took the step.
LEMMA TellsKeeps ==
  ASSUME ShownTypes, NEW p \in Player, NEW b, busy' = [busy EXCEPT ![p] = b],
         busy[p].pc # "tell", NEW q \in Player, NEW w, NEW r, Tells(q, w, r)
  PROVE  Tells(q, w, r)'
<1>1. q # p
  BY DEF Tells
<1>2. busy'[q] = busy[q]
  BY <1>1, OneContinues
<1> QED
  BY <1>2 DEF Tells

\* A worker goes on without announcing a removal, in a world that has nothing new.
LEMMA WorkerKeeps ==
  ASSUME ShownTypes, RemovalsTrue, NEW p \in Player, NEW b, busy' = [busy EXCEPT ![p] = b],
         UNCHANGED <<level, away>>, DOMAIN sees' = Player, dropped' \in Nat,
         world' \subseteq world, sweep' \subseteq sweep,
         Online(p) \/ b = Idle,
         b.pc = "tell" => TellRecord(b),
         b.pc = "tell" /\ ~b.shows => b.item \notin world'
  PROVE  ShownTypes' /\ RemovalsTrue'
<1>1. ASSUME NEW q \in Player, ~Online(q)' PROVE busy'[q] = Idle
  <2>1. CASE q = p
    BY <1>1, <2>1, OneContinues DEF Online
  <2>2. CASE q # p
    BY <1>1, <2>2, OneContinues DEF ShownTypes, Online
  <2> QED
    BY <2>1, <2>2
<1>2. ShownTypes'
  <2>1. \A q \in Player : busy'[q].pc = "tell" => TellRecord(busy'[q])
    BY OneContinues DEF ShownTypes
  <2> QED
    BY <1>1, <2>1, OneContinues DEF ShownTypes
<1>3. ASSUME NEW q \in Player, busy'[q].pc = "tell", ~busy'[q].shows
      PROVE  busy'[q].item \notin world'
  <2>1. CASE q = p
    BY <1>3, <2>1, OneContinues
  <2>2. CASE q # p
    <3>1. busy'[q] = busy[q]
      BY <2>2, OneContinues
    <3> QED
      BY <1>3, <3>1 DEF RemovalsTrue
  <2> QED
    BY <2>1, <2>2
<1> QED
  BY <1>2, <1>3 DEF RemovalsTrue

\* A worker that is neither arriving nor telling, before and after, changes nothing.
LEMMA Elsewhere ==
  ASSUME SInv, NEW p \in Player, NEW b, busy' = [busy EXCEPT ![p] = b],
         UNCHANGED <<world, dropped, level, pending, sweep, sees, away>>,
         busy[p].pc \notin {"list", "send", "tell"}, b.pc # "tell",
         Online(p) \/ b = Idle,
         b.pc = "pickup" => b.item \in world
  PROVE  SInv'
<1>1. ShownTypes /\ OneId /\ RemovalsTrue /\ AllShown
  BY DEF SInv
<1>2. Known' \subseteq Known
  <2>1. world' \subseteq Known /\ sweep' \subseteq sweep /\ (Carries(b) => b.item \in Known)
    BY DEF Known, Carries
  <2> QED
    BY <1>1, <2>1, KnownAfter
<1>3. OneId'
  BY <1>1, <1>2, KnownKeeps
<1>4. ShownTypes' /\ RemovalsTrue'
  <2>1. DOMAIN sees' = Player /\ dropped' \in Nat
    BY <1>1 DEF ShownTypes
  <2> QED
    BY <1>1, <2>1, WorkerKeeps
<1>5. AllShown'
  <2> SUFFICES ASSUME NEW r \in Player, NEW w \in world, level[r] = w.level, r \notin pending
               PROVE  Shown(r, w)'
    BY DEF AllShown
  <2>1. Shown(r, w)
    BY <1>1 DEF AllShown
  <2>2. CASE \E q \in Player : Tells(q, w, r)
    BY <1>1, <2>2, TellsKeeps DEF Shown
  <2>3. CASE ~\E q \in Player : Tells(q, w, r)
    <3>1. CASE r = p
      BY <2>1, <2>3, <3>1 DEF Shown
    <3>2. CASE r # p
      <4>1. busy'[r] = busy[r]
        BY <1>1, <3>2, OneContinues
      <4> QED
        BY <2>1, <2>3, <4>1 DEF Shown
    <3> QED
      BY <3>1, <3>2
  <2> QED
    BY <2>2, <2>3
<1> QED
  BY <1>3, <1>4, <1>5 DEF SInv

\* A step that concerns neither the items in the world nor the workers.
LEMMA Aside ==
  ASSUME SInv, UNCHANGED <<world, dropped, level, pending, busy, sweep, sees, away>>
  PROVE  SInv'
BY DEF SInv, ShownTypes, OneId, RemovalsTrue, AllShown, Shown, Tells, Known, Online

\* At first nothing lies anywhere.
LEMMA SInvInit == Init => SInv
BY DEF Init, SInv, ShownTypes, OneId, RemovalsTrue, AllShown, Known, Carries, Idle, Online

\* A player who arrives will list the items; nobody waits for news from him.
LEMMA ArriveKeeps ==
  ASSUME SInv, NEW p \in Player, NEW l, Arrive(p, l), l # Offline, busy[p] = Idle,
         pending' \subseteq pending, \A q \in Player \ {p} : q \in pending => q \in pending',
         UNCHANGED <<world, dropped, sweep>>
  PROVE  SInv'
<1>1. ShownTypes /\ OneId /\ RemovalsTrue /\ AllShown
  BY DEF SInv
<1>2. PICK b : b = [pc |-> "list"] /\ busy' = [busy EXCEPT ![p] = b]
  BY DEF Arrive, Continue
<1>3. b.pc = "list" /\ busy[p].pc = "idle" /\ b # Idle
  BY <1>2 DEF Idle
<1>4. OneId'
  <2>1. world' \subseteq Known /\ sweep' \subseteq sweep /\ (Carries(b) => b.item \in Known)
    BY <1>3 DEF Known, Carries
  <2> QED
    BY <1>1, <1>2, <2>1, KnownAfter, KnownKeeps
<1>5. /\ level' = [level EXCEPT ![p] = l] /\ sees' = [sees EXCEPT ![p] = {}]
  BY DEF Arrive
<1>6. /\ DOMAIN level' = Player /\ DOMAIN sees' = Player /\ level'[p] = l
      /\ \A q \in Player \ {p} : level'[q] = level[q] /\ sees'[q] = sees[q]
  BY <1>1, <1>5 DEF ShownTypes
<1>10. DOMAIN away' = Player /\ \A q \in Player \ {p} : away'[q] = away[q]
  <2>1. PICK far : away' = [away EXCEPT ![p] = far]
    BY DEF Arrive
  <2> QED
    BY <1>1, <2>1 DEF ShownTypes
<1>7. ShownTypes'
  <2>1. ASSUME NEW q \in Player, ~Online(q)' PROVE busy'[q] = Idle
    <3>1. q # p
      BY <1>6, <2>1 DEF Online
    <3> QED
      BY <1>1, <1>2, <1>6, <2>1, <3>1, OneContinues DEF ShownTypes, Online
  <2>2. \A q \in Player : busy'[q].pc = "tell" => TellRecord(busy'[q])
    BY <1>1, <1>2, <1>3, OneContinues DEF ShownTypes
  <2> QED
    BY <1>1, <1>2, <1>6, <1>10, <2>1, <2>2, OneContinues DEF ShownTypes
<1>8. RemovalsTrue'
  <2>1. ASSUME NEW q \in Player, busy'[q].pc = "tell", ~busy'[q].shows
        PROVE  busy'[q].item \notin world'
    <3>1. q # p
      BY <1>1, <1>2, <1>3, <2>1, OneContinues
    <3>2. busy'[q] = busy[q]
      BY <1>1, <1>2, <3>1, OneContinues
    <3> QED
      BY <1>1, <2>1, <3>2 DEF RemovalsTrue
  <2> QED
    BY <1>1, <2>1 DEF RemovalsTrue
<1>9. AllShown'
  <2> SUFFICES ASSUME NEW r \in Player, NEW w \in world, level'[r] = w.level, r \notin pending'
               PROVE  Shown(r, w)'
    BY DEF AllShown
  <2>1. CASE r = p
    BY <1>1, <1>2, <1>3, <2>1, OneContinues DEF Shown
  <2>2. CASE r # p
    <3>1. Shown(r, w)
      BY <1>1, <1>6, <2>2 DEF AllShown
    <3>2. busy'[r] = busy[r] /\ sees'[r] = sees[r] /\ away'[r] = away[r]
      BY <1>1, <1>2, <1>6, <1>10, <2>2, OneContinues
    <3>3. (\E q \in Player : Tells(q, w, r)) => (\E q \in Player : Tells(q, w, r)')
      BY <1>1, <1>2, <1>3, TellsKeeps
    <3> QED
      BY <3>1, <3>2, <3>3 DEF Shown
  <2> QED
    BY <2>1, <2>2
<1> QED
  BY <1>4, <1>7, <1>8, <1>9 DEF SInv

\* A session whose level changes without anything else: a new player's, or one that ends.
LEMMA LevelOnlyKeeps ==
  ASSUME SInv, NEW p \in Player, NEW l, level' = [level EXCEPT ![p] = l], busy[p] = Idle,
         l = Offline \/ p \in pending,
         UNCHANGED <<world, dropped, pending, busy, sweep>>,
         DOMAIN sees' = Player, \A q \in Player \ {p} : sees'[q] = sees[q],
         DOMAIN away' = Player, \A q \in Player \ {p} : away'[q] = away[q]
  PROVE  SInv'
<1>1. ShownTypes /\ OneId /\ RemovalsTrue /\ AllShown
  BY DEF SInv
<1>2. DOMAIN level' = Player /\ level'[p] = l /\ \A q \in Player \ {p} : level'[q] = level[q]
  BY <1>1 DEF ShownTypes
<1>3. OneId' /\ RemovalsTrue'
  BY <1>1 DEF OneId, RemovalsTrue, Known
<1>4. ShownTypes'
  <2>1. ASSUME NEW q \in Player, ~Online(q)' PROVE busy'[q] = Idle
    <3>1. CASE q = p
      BY <3>1
    <3>2. CASE q # p
      BY <1>1, <1>2, <2>1, <3>2 DEF ShownTypes, Online
    <3> QED
      BY <3>1, <3>2
  <2> QED
    BY <1>1, <1>2, <2>1 DEF ShownTypes
<1>5. AllShown'
  <2> SUFFICES ASSUME NEW r \in Player, NEW w \in world, level'[r] = w.level, r \notin pending
               PROVE  Shown(r, w)'
    BY DEF AllShown
  <2>1. r # p
    BY <1>1, <1>2 DEF ShownTypes
  <2>2. Shown(r, w)
    BY <1>1, <1>2, <2>1 DEF AllShown
  <2> QED
    BY <2>1, <2>2 DEF Shown, Tells
<1> QED
  BY <1>3, <1>4, <1>5 DEF SInv

\* Who forgets an item has been away from it.
LEMMA AwayKeeps ==
  ASSUME SInv, UNCHANGED <<world, dropped, level, pending, busy, sweep>>,
         DOMAIN sees' = Player, DOMAIN away' = Player,
         \A q \in Player : \A w \in world :
           w.id \in sees[q] \cup away[q] => w.id \in sees'[q] \cup away'[q]
  PROVE  SInv'
<1>1. ShownTypes /\ OneId /\ RemovalsTrue /\ AllShown
  BY DEF SInv
<1>2. /\ DOMAIN sees' = Player /\ DOMAIN away' = Player
      /\ \A q \in Player : \A w \in world :
           w.id \in sees[q] \cup away[q] => w.id \in sees'[q] \cup away'[q]
  OBVIOUS
<1>3. ShownTypes' /\ OneId' /\ RemovalsTrue'
  BY <1>1, <1>2 DEF ShownTypes, OneId, RemovalsTrue, Known, Online
<1>4. AllShown'
  BY <1>1, <1>2 DEF AllShown, Shown, Tells
<1> QED
  BY <1>3, <1>4 DEF SInv

\* The items are listed: all that lie on the level and that the player is in range of.
LEMMA ListKeeps ==
  ASSUME SInv, NEW p \in Player, ListWorldItems(p)
  PROVE  SInv'
<1>1. ShownTypes /\ OneId /\ RemovalsTrue /\ AllShown
  BY DEF SInv
<1>2. PICK items : /\ ItemsOn(level[p]) \ items \subseteq away[p]
                   /\ Continue(p, [pc |-> "send", items |-> items])
  BY DEF ListWorldItems
<1>3. PICK b : b = [pc |-> "send", items |-> items] /\ busy' = [busy EXCEPT ![p] = b]
  BY <1>2 DEF Continue
<1>4. b.pc = "send" /\ b.items = items
  BY <1>3
<1>5. busy[p].pc = "list" /\ UNCHANGED <<world, dropped, level, pending, sweep, sees, away>>
  BY DEF ListWorldItems
<1>6. Online(p)
  BY <1>1, <1>5 DEF ShownTypes, Idle
<1>7. OneId'
  <2>1. world' \subseteq Known /\ sweep' \subseteq sweep /\ (Carries(b) => b.item \in Known)
    BY <1>4, <1>5 DEF Known, Carries
  <2> QED
    BY <1>1, <1>3, <1>5, <2>1, KnownAfter, KnownKeeps
<1>8. ShownTypes' /\ RemovalsTrue'
  <2>1. DOMAIN sees' = Player /\ dropped' \in Nat
    BY <1>1, <1>5 DEF ShownTypes
  <2> QED
    BY <1>1, <1>3, <1>4, <1>5, <1>6, <2>1, WorkerKeeps
<1>9. AllShown'
  <2> SUFFICES ASSUME NEW r \in Player, NEW w \in world, level[r] = w.level, r \notin pending
               PROVE  Shown(r, w)'
    BY <1>5 DEF AllShown
  <2>1. CASE r = p
    <3>1. w.id \in items \/ w.id \in away[r]
      BY <1>2, <2>1 DEF ItemsOn
    <3>2. busy'[r] = b
      BY <1>1, <1>3, <2>1, OneContinues
    <3> QED
      BY <1>4, <1>5, <3>1, <3>2 DEF Shown
  <2>2. CASE r # p
    <3>1. Shown(r, w)
      BY <1>1 DEF AllShown
    <3>2. busy'[r] = busy[r] /\ sees'[r] = sees[r]
      BY <1>1, <1>3, <1>5, <2>2, OneContinues
    <3>3. (\E q \in Player : Tells(q, w, r)) => (\E q \in Player : Tells(q, w, r)')
      BY <1>1, <1>3, <1>5, TellsKeeps
    <3> QED
      BY <1>5, <3>1, <3>2, <3>3 DEF Shown
  <2> QED
    BY <2>1, <2>2
<1> QED
  BY <1>7, <1>8, <1>9 DEF SInv

\* They are sent, on top of what was shown meanwhile.
LEMMA SendKeeps ==
  ASSUME SInv, NEW p \in Player, SendWorldItems(p)
  PROVE  SInv'
<1>1. ShownTypes /\ OneId /\ RemovalsTrue /\ AllShown
  BY DEF SInv
<1>2. busy' = [busy EXCEPT ![p] = Idle] /\ Idle.pc = "idle"
  BY DEF SendWorldItems, Done, Continue, Idle
<1>3. /\ busy[p].pc = "send" /\ UNCHANGED <<world, dropped, level, pending, sweep, away>>
      /\ sees' = [sees EXCEPT ![p] = sees[p] \cup busy[p].items]
  BY DEF SendWorldItems
<1>4. /\ DOMAIN sees' = Player /\ sees'[p] = sees[p] \cup busy[p].items
      /\ \A q \in Player \ {p} : sees'[q] = sees[q]
  BY <1>1, <1>3 DEF ShownTypes
<1>5. OneId'
  <2>1. world' \subseteq Known /\ sweep' \subseteq sweep /\ (Carries(Idle) => Idle.item \in Known)
    BY <1>2, <1>3 DEF Known, Carries
  <2> QED
    BY <1>1, <1>2, <1>3, <2>1, KnownAfter, KnownKeeps
<1>6. ShownTypes' /\ RemovalsTrue'
  <2>1. dropped' \in Nat
    BY <1>1, <1>3 DEF ShownTypes
  <2> QED
    BY <1>1, <1>2, <1>3, <1>4, <2>1, WorkerKeeps
<1>7. AllShown'
  <2> SUFFICES ASSUME NEW r \in Player, NEW w \in world, level[r] = w.level, r \notin pending
               PROVE  Shown(r, w)'
    BY <1>3 DEF AllShown
  <2>1. Shown(r, w)
    BY <1>1 DEF AllShown
  <2>2. (\E q \in Player : Tells(q, w, r)) => (\E q \in Player : Tells(q, w, r)')
    BY <1>1, <1>2, <1>3, TellsKeeps
  <2>3. CASE r = p
    BY <1>3, <1>4, <2>1, <2>2, <2>3 DEF Shown
  <2>4. CASE r # p
    <3>1. busy'[r] = busy[r] /\ sees'[r] = sees[r]
      BY <1>1, <1>2, <1>4, <2>4, OneContinues
    <3> QED
      BY <1>3, <2>1, <2>2, <3>1 DEF Shown
  <2> QED
    BY <2>3, <2>4
<1> QED
  BY <1>5, <1>6, <1>7 DEF SInv

\* Who is told of an item by the worker that dropped or took it.
LEMMA BroadcastRecord ==
  ASSUME NEW p \in Player, NEW w, NEW shows \in BOOLEAN, NEW b, b = Broadcast(p, w, shows)
  PROVE  \/ b = Idle /\ b.pc = "idle" /\ Player = {p}
         \/ /\ b = [pc |-> "tell", item |-> w, shows |-> shows, to |-> Player \ {p}]
            /\ b.pc = "tell" /\ b.item = w /\ b.shows = shows /\ b.to = Player \ {p}
            /\ TellRecord(b)
<1>1. CASE Player = {p}
  BY <1>1 DEF Broadcast, Idle
<1>2. CASE Player # {p}
  <2>1. b = [pc |-> "tell", item |-> w, shows |-> shows, to |-> Player \ {p}]
    BY <1>2 DEF Broadcast
  <2>2. TellRecord(b)
    BY <2>1, Zenon DEF TellRecord
  <2>3. b.pc = "tell" /\ b.item = w /\ b.shows = shows /\ b.to = Player \ {p}
    BY <2>1
  <2> QED
    BY <2>1, <2>2, <2>3
<1> QED
  BY <1>1, <1>2

\* A drop: the id is new, and everybody else on the level is about to be told.
LEMMA DropKeeps ==
  ASSUME SInv, NEW p \in Player, NEW s, NEW n, NEW c, Drop(p, s, n, c)
  PROVE  SInv'
<1>1. ShownTypes /\ OneId /\ RemovalsTrue /\ AllShown
  BY DEF SInv
<1>2. PICK z : z = [id |-> dropped + 1, level |-> level[p], section |-> s, count |-> n,
                    cond |-> TakenCondition(p, s, n, c)]
  OBVIOUS
<1>3. z.id = dropped + 1 /\ z.level = level[p]
  BY <1>2
<1>4. PICK yes \in BOOLEAN : yes = TRUE
  BY Zenon
<1>5. PICK b : b = Broadcast(p, z, yes)
  OBVIOUS
<1>6. /\ Online(p) /\ busy[p] = Idle
      /\ world' = world \cup {z} /\ dropped' = dropped + 1
      /\ sees' = [sees EXCEPT ![p] = sees[p] \cup {z.id}]
      /\ busy' = [busy EXCEPT ![p] = b]
      /\ UNCHANGED <<level, pending, sweep, away>>
  <2>1. busy' = [busy EXCEPT ![p] = Broadcast(p, z, TRUE)]
    BY <1>2, Zenon DEF Drop, Continue
  <2>2. busy' = [busy EXCEPT ![p] = b]
    BY <1>4, <1>5, <2>1, Zenon
  <2>3. world' = world \cup {z} /\ sees' = [sees EXCEPT ![p] = sees[p] \cup {z.id}]
    BY <1>2, Zenon DEF Drop
  <2> QED
    BY <2>2, <2>3 DEF Drop, Ready
<1>7. \/ b = Idle /\ b.pc = "idle" /\ Player = {p}
      \/ b.pc = "tell" /\ b.item = z /\ b.shows /\ b.to = Player \ {p} /\ TellRecord(b)
  <2>1. \/ b = Idle /\ b.pc = "idle" /\ Player = {p}
        \/ b.pc = "tell" /\ b.item = z /\ b.shows = yes /\ b.to = Player \ {p} /\ TellRecord(b)
    BY <1>5, BroadcastRecord
  <2> QED
    BY <1>4, <2>1, Zenon
<1>8. busy[p].pc = "idle"
  BY <1>6 DEF Idle
<1>9. /\ DOMAIN sees' = Player /\ sees'[p] = sees[p] \cup {z.id}
      /\ \A q \in Player \ {p} : sees'[q] = sees[q]
  BY <1>1, <1>6 DEF ShownTypes
<1>10. /\ DOMAIN busy' = Player /\ busy'[p] = b
       /\ \A q \in Player \ {p} : busy'[q] = busy[q]
  BY <1>1, <1>6, OneContinues
<1>11. dropped \in Nat /\ \A w \in Known : w.id \in 1 .. dropped
  BY <1>1 DEF ShownTypes, OneId
<1>12. z \notin Known
  BY <1>3, <1>11
<1>13. OneId'
  <2>1. Known' \subseteq Known \cup {z}
    <3>1. ASSUME NEW q \in Player, Carries(busy'[q]) PROVE busy'[q].item \in Known \cup {z}
      <4>1. CASE q = p
        BY <1>7, <1>10, <3>1, <4>1 DEF Carries
      <4>2. CASE q # p
        BY <1>10, <3>1, <4>2 DEF Known
      <4> QED
        BY <4>1, <4>2
    <3> QED
      BY <1>6, <3>1 DEF Known
  <2>2. \A w \in Known' : w.id \in 1 .. dropped'
    BY <1>3, <1>6, <1>11, <2>1
  <2>3. ASSUME NEW v \in Known', NEW w \in Known', v.id = w.id PROVE v = w
    <3>1. CASE v \in Known /\ w \in Known
      BY <1>1, <2>3, <3>1 DEF OneId
    <3>2. CASE v = z /\ w \in Known
      BY <1>3, <1>11, <2>3, <3>2
    <3>3. CASE v \in Known /\ w = z
      BY <1>3, <1>11, <2>3, <3>3
    <3> QED
      BY <2>1, <3>1, <3>2, <3>3
  <2> QED
    BY <2>2, <2>3 DEF OneId
<1>14. ShownTypes'
  <2>1. dropped' \in Nat
    BY <1>6, <1>11
  <2>2. \A q \in Player : ~Online(q)' => busy'[q] = Idle
    BY <1>1, <1>6, <1>10 DEF ShownTypes, Online
  <2>3. \A w \in world' : w.level # Offline
    BY <1>1, <1>3, <1>6 DEF ShownTypes, Online
  <2>4. \A q \in Player : busy'[q].pc = "tell" => TellRecord(busy'[q])
    BY <1>1, <1>7, <1>10 DEF ShownTypes
  <2> QED
    BY <1>1, <1>6, <1>9, <1>10, <2>1, <2>2, <2>3, <2>4 DEF ShownTypes
<1>15. RemovalsTrue'
  <2>1. ASSUME NEW q \in Player, busy'[q].pc = "tell", ~busy'[q].shows
        PROVE  busy'[q].item \notin world'
    <3>1. q # p
      BY <1>7, <1>10, <2>1
    <3>2. busy'[q] = busy[q]
      BY <1>10, <3>1
    <3>3. busy[q].item \in Known
      BY <2>1, <3>2 DEF Known, Carries
    <3> QED
      BY <1>1, <1>6, <1>12, <2>1, <3>2, <3>3 DEF RemovalsTrue
  <2>2. \A m \in sweep : m[1] \in Known
    BY DEF Known
  <2> QED
    BY <1>1, <1>6, <1>12, <2>1, <2>2 DEF RemovalsTrue
<1>16. AllShown'
  <2> SUFFICES ASSUME NEW r \in Player, NEW w \in world', level[r] = w.level, r \notin pending
               PROVE  Shown(r, w)'
    BY <1>6 DEF AllShown
  <2>1. CASE w = z
    <3>1. CASE r = p
      BY <1>9, <2>1, <3>1 DEF Shown
    <3>2. CASE r # p
      <4>1. b.pc = "tell" /\ b.item = z /\ r \in b.to
        BY <1>7, <3>2
      <4>2. Tells(p, w, r)'
        BY <1>10, <2>1, <4>1 DEF Tells
      <4> QED
        BY <4>2 DEF Shown
    <3> QED
      BY <3>1, <3>2
  <2>2. CASE w \in world
    <3>1. Shown(r, w)
      BY <1>1, <2>2 DEF AllShown
    <3>2. (\E q \in Player : Tells(q, w, r)) => (\E q \in Player : Tells(q, w, r)')
      BY <1>1, <1>6, <1>8, TellsKeeps
    <3>3. CASE r = p
      BY <1>6, <1>8, <1>9, <3>1, <3>2, <3>3 DEF Shown
    <3>4. CASE r # p
      BY <1>6, <1>9, <1>10, <3>1, <3>2, <3>4 DEF Shown
    <3> QED
      BY <3>3, <3>4
  <2> QED
    BY <1>6, <2>1, <2>2
<1> QED
  BY <1>13, <1>14, <1>15, <1>16 DEF SInv

\* Items that lie in the world have ids of their own, and a carried one too.
LEMMA OtherId ==
  ASSUME SInv, NEW v \in Known, NEW w \in Known, v # w
  PROVE  v.id # w.id
BY DEF SInv, OneId

\* A pickup: the client of the player who took the item forgets it, and only it.
LEMMA PickupKeeps ==
  ASSUME SInv, NEW p \in Player, PickupWorldItem(p)
  PROVE  SInv'
<1>1. ShownTypes /\ OneId /\ RemovalsTrue /\ AllShown
  BY DEF SInv
<1>2. PICK z \in world : z = busy[p].item
  BY DEF PickupWorldItem
<1>3. PICK no \in BOOLEAN : no = FALSE
  BY Zenon
<1>4. PICK b : b = Broadcast(p, z, no)
  OBVIOUS
<1>5. /\ busy[p].pc = "pickup"
      /\ world' = world \ {z}
      /\ sees' = [sees EXCEPT ![p] = sees[p] \ {z.id}]
      /\ busy' = [busy EXCEPT ![p] = b]
      /\ UNCHANGED <<dropped, level, pending, sweep, away>>
  BY <1>2, <1>3, <1>4 DEF PickupWorldItem, Continue
<1>6. \/ b = Idle /\ b.pc = "idle"
      \/ b.pc = "tell" /\ b.item = z /\ ~b.shows /\ TellRecord(b)
  BY <1>3, <1>4, BroadcastRecord
<1>7. /\ DOMAIN sees' = Player /\ sees'[p] = sees[p] \ {z.id}
      /\ \A q \in Player \ {p} : sees'[q] = sees[q]
  BY <1>1, <1>5 DEF ShownTypes
<1>8. OneId'
  <2>1. world' \subseteq Known /\ sweep' \subseteq sweep /\ (Carries(b) => b.item \in Known)
    BY <1>5, <1>6 DEF Known, Carries
  <2> QED
    BY <1>1, <1>5, <2>1, KnownAfter, KnownKeeps
<1>9. ShownTypes' /\ RemovalsTrue'
  <2>1. /\ dropped' \in Nat /\ world' \subseteq world /\ sweep' \subseteq sweep
        /\ Online(p)
        /\ b.pc = "tell" => TellRecord(b)
        /\ b.pc = "tell" /\ ~b.shows => b.item \notin world'
    BY <1>1, <1>5, <1>6 DEF ShownTypes, Idle
  <2> QED
    BY <1>1, <1>5, <1>7, <2>1, WorkerKeeps
<1>10. AllShown'
  <2> SUFFICES ASSUME NEW r \in Player, NEW w \in world', level[r] = w.level, r \notin pending
               PROVE  Shown(r, w)'
    BY <1>5 DEF AllShown
  <2>1. w \in world /\ w # z
    BY <1>5
  <2>2. Shown(r, w)
    BY <1>1, <2>1 DEF AllShown
  <2>3. (\E q \in Player : Tells(q, w, r)) => (\E q \in Player : Tells(q, w, r)')
    BY <1>1, <1>5, TellsKeeps
  <2>4. CASE r = p
    <3>1. w.id # z.id
      BY <1>2, <2>1, OtherId DEF Known
    <3> QED
      BY <1>5, <1>7, <2>2, <2>3, <2>4, <3>1 DEF Shown
  <2>5. CASE r # p
    <3>1. busy'[r] = busy[r]
      BY <1>1, <1>5, <2>5, OneContinues
    <3> QED
      BY <1>5, <1>7, <2>2, <2>3, <2>5, <3>1 DEF Shown
  <2> QED
    BY <2>4, <2>5
<1> QED
  BY <1>8, <1>9, <1>10 DEF SInv

\* One player is told, if he is in range: he sees the item, or forgets one that is gone.
LEMMA BroadcastToKeeps ==
  ASSUME SInv, NEW p \in Player, NEW q \in Player, NEW hears \in BOOLEAN,
         BroadcastTo(p, q, hears)
  PROVE  SInv'
<1>1. ShownTypes /\ OneId /\ RemovalsTrue /\ AllShown
  BY DEF SInv
<1>2. /\ busy[p].pc = "tell" /\ q \in busy[p].to
      /\ UNCHANGED <<world, dropped, level, pending, sweep, away>>
  BY DEF BroadcastTo
<1>3. PICK z, shows, T : busy[p] = [pc |-> "tell", item |-> z, shows |-> shows, to |-> T]
  BY <1>1, <1>2 DEF ShownTypes, TellRecord
<1>4. busy[p].item = z /\ busy[p].to = T /\ busy[p].shows = shows
  BY <1>3
<1>5. PICK rest : rest = T \ {q}
  OBVIOUS
<1>6. PICK c : c = [pc |-> "tell", item |-> z, shows |-> shows, to |-> rest]
  OBVIOUS
<1>7. PICK b : b = IF rest = {} THEN Idle ELSE c
  OBVIOUS
<1>8. busy' = [busy EXCEPT ![p] = b]
  <2>1. c = [busy[p] EXCEPT !.to = rest]
    BY <1>3, <1>6
  <2>2. CASE rest = {}
    BY <1>4, <1>5, <1>7, <2>2 DEF BroadcastTo, Done, Continue
  <2>3. CASE rest # {}
    BY <1>4, <1>5, <1>7, <2>1, <2>3 DEF BroadcastTo
  <2> QED
    BY <2>2, <2>3
<1>9. /\ rest = {} => b = Idle /\ b.pc = "idle"
      /\ rest # {} => /\ b.pc = "tell" /\ b.item = z /\ b.shows = shows /\ b.to = rest
                      /\ TellRecord(b)
  BY <1>6, <1>7 DEF Idle, TellRecord
<1>10. /\ sees' = IF ~hears THEN sees
                  ELSE IF shows THEN [sees EXCEPT ![q] = sees[q] \cup {z.id}]
                  ELSE [sees EXCEPT ![q] = sees[q] \ {z.id}]
       /\ ~hears => level[q] # z.level \/ z.id \in away[q]
  BY <1>4 DEF BroadcastTo
<1>11. /\ DOMAIN sees' = Player /\ \A r \in Player \ {q} : sees'[r] = sees[r]
       /\ hears /\ shows => sees'[q] = sees[q] \cup {z.id}
       /\ hears /\ ~shows => sees'[q] = sees[q] \ {z.id}
       /\ ~hears => sees'[q] = sees[q]
  BY <1>1, <1>10 DEF ShownTypes
<1>12. z \in Known /\ (~shows => z \notin world)
  BY <1>1, <1>2, <1>4 DEF Known, Carries, RemovalsTrue
<1>13. OneId'
  <2>1. world' \subseteq Known /\ sweep' \subseteq sweep /\ (Carries(b) => b.item \in Known)
    BY <1>2, <1>9, <1>12 DEF Known, Carries
  <2> QED
    BY <1>1, <1>2, <1>8, <2>1, KnownAfter, KnownKeeps
<1>14. ShownTypes' /\ RemovalsTrue'
  <2>1. /\ dropped' \in Nat /\ world' \subseteq world /\ sweep' \subseteq sweep
        /\ Online(p)
        /\ b.pc = "tell" => TellRecord(b)
        /\ b.pc = "tell" /\ ~b.shows => b.item \notin world'
    BY <1>1, <1>2, <1>9, <1>12 DEF ShownTypes, Idle
  <2> QED
    BY <1>1, <1>2, <1>8, <1>11, <2>1, WorkerKeeps
<1>15. AllShown'
  <2> SUFFICES ASSUME NEW r \in Player, NEW w \in world, level[r] = w.level, r \notin pending
               PROVE  Shown(r, w)'
    BY <1>2 DEF AllShown
  <2>1. Shown(r, w)
    BY <1>1 DEF AllShown
  <2>2. busy'[p] = b /\ \A t \in Player \ {p} : busy'[t] = busy[t]
    BY <1>1, <1>8, OneContinues
  <2>3. w.id \in sees[r] => w.id \in sees'[r]
    <3>1. CASE r = q /\ ~shows /\ hears
      <4>1. w # z /\ w \in Known
        BY <1>12, <3>1 DEF Known
      <4>2. w.id # z.id
        BY <1>12, <4>1, OtherId
      <4> QED
        BY <1>11, <3>1, <4>2
    <3>2. CASE ~(r = q /\ ~shows /\ hears)
      BY <1>11, <3>2
    <3> QED
      BY <3>1, <3>2
  <2>4. ASSUME NEW t \in Player, Tells(t, w, r)
        PROVE  w.id \in sees'[r] \/ w.id \in away[r] \/ Tells(t, w, r)'
    <3>1. CASE t # p
      BY <2>2, <2>4, <3>1 DEF Tells
    <3>2. CASE t = p /\ r # q
      <4>1. w = z /\ r \in rest
        BY <1>4, <1>5, <2>4, <3>2 DEF Tells
      <4> QED
        BY <1>9, <2>2, <3>2, <4>1 DEF Tells
    <3>3. CASE t = p /\ r = q
      <4>1. w = z
        BY <1>4, <2>4, <3>3 DEF Tells
      <4>2. shows \/ ~shows
        OBVIOUS
      <4> QED
        BY <1>10, <1>11, <1>12, <3>3, <4>1
    <3> QED
      BY <3>1, <3>2, <3>3
  <2>5. busy[r].pc \in {"list", "send"} => busy'[r] = busy[r]
    BY <1>2, <2>2
  <2>6. away'[r] = away[r]
    BY <1>2
  <2> QED
    BY <2>1, <2>3, <2>4, <2>5, <2>6 DEF Shown
<1> QED
  BY <1>13, <1>14, <1>15 DEF SInv

\* The sweep takes items out of the world and has then to tell of them.
LEMMA SweepKeeps ==
  ASSUME SInv, NEW expired \in SUBSET world, SweepWorldItems(expired)
  PROVE  SInv'
<1>1. ShownTypes /\ OneId /\ RemovalsTrue /\ AllShown
  BY DEF SInv
<1>2. /\ world' = world \ expired /\ sweep' = expired \X Player
      /\ UNCHANGED <<dropped, level, pending, busy, sees, away>>
  BY DEF SweepWorldItems
<1>3. \A m \in sweep' : m[1] \in expired
  BY <1>2
<1>4. OneId'
  <2>1. Known' \subseteq Known
    BY <1>2, <1>3 DEF Known
  <2> QED
    BY <1>1, <1>2, <2>1, KnownKeeps
<1>5. ShownTypes' /\ RemovalsTrue'
  BY <1>1, <1>2, <1>3 DEF ShownTypes, RemovalsTrue, Online
<1>6. AllShown'
  BY <1>1, <1>2 DEF AllShown, Shown, Tells
<1> QED
  BY <1>4, <1>5, <1>6 DEF SInv

\* A client forgets an item that the sweep took.
LEMMA RemovalKeeps ==
  ASSUME SInv, NEW m \in sweep, BroadcastRemoval(m[1], m[2])
  PROVE  SInv'
<1>1. ShownTypes /\ OneId /\ RemovalsTrue /\ AllShown
  BY DEF SInv
<1>2. PICK z, q : z = m[1] /\ q = m[2]
  OBVIOUS
<1>3. z \in Known /\ z \notin world
  BY <1>1, <1>2 DEF Known, RemovalsTrue
<1>4. /\ sweep' \subseteq sweep /\ UNCHANGED <<world, dropped, level, pending, busy, away>>
      /\ sees' = IF level[q] = z.level THEN [sees EXCEPT ![q] = sees[q] \ {z.id}] ELSE sees
  BY <1>2 DEF BroadcastRemoval
<1>5. /\ DOMAIN sees' = Player
      /\ \A r \in Player : \A w \in world : w.id \in sees[r] => w.id \in sees'[r]
  <2>1. \A w \in world : w.id # z.id
    BY <1>3, OtherId DEF Known
  <2> QED
    BY <1>1, <1>4, <2>1 DEF ShownTypes
<1>6. OneId'
  <2>1. Known' \subseteq Known
    BY <1>4 DEF Known
  <2> QED
    BY <1>1, <1>4, <2>1, KnownKeeps
<1>7. ShownTypes' /\ RemovalsTrue'
  BY <1>1, <1>4, <1>5 DEF ShownTypes, RemovalsTrue, Online
<1>8. AllShown'
  BY <1>1, <1>4, <1>5 DEF AllShown, Shown, Tells
<1> QED
  BY <1>6, <1>7, <1>8 DEF SInv

\* Every step keeps the invariant.
LEMMA SInvNext == SInv /\ [Next]_vars => SInv'
<1> SUFFICES ASSUME SInv, [Next]_vars PROVE SInv'
  OBVIOUS
<1>0. ShownTypes
  BY DEF SInv
<1>1. CASE UNCHANGED vars
  BY <1>1, Aside DEF vars
<1>2. ASSUME NEW p \in Player, NEW l \in Level, Join(p, l) \/ Travel(p, l) PROVE SInv'
  <2>1. Arrive(p, l) /\ UNCHANGED <<world, dropped, sweep, pending>>
    BY <1>2 DEF Join, Travel
  <2>2. l # Offline
    BY OfflineAssumption
  <2>3. busy[p] = Idle
    BY <1>0, <1>2 DEF Join, Travel, Ready, ShownTypes
  <2> QED
    BY <2>1, <2>2, <2>3, ArriveKeeps
<1>3. ASSUME NEW p \in Player, JoinNew(p) PROVE SInv'
  <2>1. /\ level' = [level EXCEPT ![p] = Spawn] /\ p \in pending /\ busy[p] = Idle
        /\ UNCHANGED <<world, dropped, pending, busy, sweep, sees, away>>
    BY <1>0, <1>3 DEF JoinNew, ShownTypes
  <2>2. /\ DOMAIN sees' = Player /\ \A q \in Player \ {p} : sees'[q] = sees[q]
        /\ DOMAIN away' = Player /\ \A q \in Player \ {p} : away'[q] = away[q]
    BY <1>0, <2>1 DEF ShownTypes
  <2> QED
    BY <2>1, <2>2, LevelOnlyKeeps
<1>4. ASSUME NEW p \in Player, CharacterSelect(p) PROVE SInv'
  <2>1. /\ Arrive(p, Spawn) /\ UNCHANGED <<world, dropped, sweep>> /\ busy[p] = Idle
        /\ pending' = pending \ {p}
    BY <1>4 DEF CharacterSelect, Ready
  <2>2. Spawn # Offline /\ pending' \subseteq pending
        /\ \A q \in Player \ {p} : q \in pending => q \in pending'
    BY <2>1, OfflineAssumption, SpawnAssumption
  <2> QED
    BY <2>1, <2>2, ArriveKeeps
<1>5. ASSUME NEW p \in Player, Leave(p) PROVE SInv'
  <2>1. /\ level' = [level EXCEPT ![p] = Offline] /\ busy[p] = Idle
        /\ sees' = [sees EXCEPT ![p] = {}] /\ away' = [away EXCEPT ![p] = ItemId]
        /\ UNCHANGED <<world, dropped, pending, busy, sweep>>
    BY <1>5 DEF Leave, Ready
  <2>2. /\ DOMAIN sees' = Player /\ \A q \in Player \ {p} : sees'[q] = sees[q]
        /\ DOMAIN away' = Player /\ \A q \in Player \ {p} : away'[q] = away[q]
    BY <1>0, <2>1 DEF ShownTypes
  <2> QED
    BY <2>1, <2>2, LevelOnlyKeeps
<1>16. ASSUME NEW p \in Player, ReloadLevel(p) PROVE SInv'
  <2>1. PICK far : far = away[p] \cup {w.id : w \in world}
    OBVIOUS
  <2>2. /\ sees' = [sees EXCEPT ![p] = {}] /\ away' = [away EXCEPT ![p] = far]
        /\ UNCHANGED <<world, dropped, level, pending, busy, sweep>>
    BY <1>16, <2>1 DEF ReloadLevel
  <2>3. /\ DOMAIN sees' = Player /\ DOMAIN away' = Player /\ away'[p] = far
        /\ \A q \in Player \ {p} : sees'[q] = sees[q] /\ away'[q] = away[q]
    BY <1>0, <2>2 DEF ShownTypes
  <2>4. ASSUME NEW q \in Player, NEW w \in world, w.id \in sees[q] \cup away[q]
        PROVE  w.id \in sees'[q] \cup away'[q]
    <3>1. CASE q = p
      BY <2>1, <2>3, <3>1
    <3>2. CASE q # p
      BY <2>3, <2>4, <3>2
    <3> QED
      BY <3>1, <3>2
  <2> QED
    BY <2>2, <2>3, <2>4, AwayKeeps
<1>17. ASSUME NEW p \in Player, NEW i \in ItemId, WalkAway(p, i) PROVE SInv'
  <2>1. PICK far : far = away[p] \cup {i}
    OBVIOUS
  <2>2. /\ away' = [away EXCEPT ![p] = far]
        /\ UNCHANGED <<world, dropped, level, pending, busy, sweep, sees>>
    BY <1>17, <2>1 DEF WalkAway
  <2>3. DOMAIN sees' = Player /\ DOMAIN away' = Player
    BY <1>0, <2>2 DEF ShownTypes
  <2>4. \A q \in Player : \A w \in world :
          w.id \in sees[q] \cup away[q] => w.id \in sees'[q] \cup away'[q]
    BY <1>0, <2>1, <2>2 DEF ShownTypes
  <2> QED
    BY <2>2, <2>3, <2>4, AwayKeeps
<1>6. ASSUME NEW p \in Player, ListWorldItems(p) \/ SendWorldItems(p) PROVE SInv'
  BY <1>6, ListKeeps, SendKeeps
<1>7. ASSUME NEW p \in Player, NEW b, busy' = [busy EXCEPT ![p] = b],
             UNCHANGED <<world, dropped, level, pending, sweep, sees, away>>,
             busy[p].pc \in {"idle", "pickup", "deposit", "withdraw"},
             b.pc \in {"idle", "deposit", "withdraw"} \/ (b.pc = "pickup" /\ b.item \in world),
             Online(p)
      PROVE  SInv'
  BY <1>7, Elsewhere
<1>8. \A p \in Player : busy[p].pc \in {"pickup", "deposit", "withdraw"} => Online(p)
  BY <1>0 DEF ShownTypes, Idle
<1>9. \A p \in Player : Ready(p) => Online(p) /\ busy[p].pc = "idle"
  BY DEF Ready, Idle
<1>10. Idle.pc = "idle"
  BY DEF Idle
<1>11. ASSUME NEW p \in Player, NEW s \in Section, NEW n \in Copies, ItemAction(p, s, n)
       PROVE  SInv'
  <2>1. ASSUME NEW c \in Bucket, Drop(p, s, n, c) PROVE SInv'
    BY <2>1, DropKeeps
  <2>2. ASSUME NEW c \in Bucket, DepositItem(p, s, n, c) \/ WithdrawItem(p, s, n, c) PROVE SInv'
    <3>1. /\ busy[p].pc \in {"deposit", "withdraw"} /\ busy' = [busy EXCEPT ![p] = Idle]
          /\ UNCHANGED <<world, dropped, level, pending, sweep, sees, away>>
      BY <2>2 DEF DepositItem, WithdrawItem, Done, Continue
    <3> QED
      BY <1>7, <1>8, <1>10, <3>1
  <2>3. CASE \/ Consume(p, s, n) \/ \E price \in Price : Sell(p, s, n, price)
             \/ \E c \in Bucket, price \in Price : Buy(p, s, n, c, price)
    <3>1. UNCHANGED <<world, dropped, level, pending, busy, sweep, sees, away>>
      BY <2>3 DEF Consume, Sell, Buy
    <3> QED
      BY <3>1, Aside
  <2> QED
    BY <1>11, <2>1, <2>2, <2>3 DEF ItemAction
<1>12. ASSUME NEW p \in Player, NEW w \in world, LookUpItem(p, w) PROVE SInv'
  <2>1. PICK b : b = [pc |-> "pickup", item |-> w]
    OBVIOUS
  <2>2. b.pc = "pickup" /\ b.item \in world
    BY <2>1
  <2>3. /\ Ready(p) /\ busy' = [busy EXCEPT ![p] = b]
        /\ UNCHANGED <<world, dropped, level, pending, sweep, sees, away>>
    BY <1>12, <2>1 DEF LookUpItem, Continue
  <2> QED
    BY <1>7, <1>9, <2>2, <2>3
<1>13. ASSUME NEW p \in Player, PickupLost(p) \/ StashRefused(p) PROVE SInv'
  <2>1. /\ busy[p].pc \in {"pickup", "deposit", "withdraw"} /\ busy' = [busy EXCEPT ![p] = Idle]
        /\ UNCHANGED <<world, dropped, level, pending, sweep, sees, away>>
    BY <1>13 DEF PickupLost, StashRefused, Done, Continue
  <2> QED
    BY <1>7, <1>8, <1>10, <2>1
<1>14. ASSUME NEW p \in Player, NEW k \in Key, FindOrCreateStash(p, k) \/ FindStash(p, k)
       PROVE  SInv'
  <2>1. PICK b : /\ \E n : b = [pc |-> "deposit", stash |-> n] \/ b = [pc |-> "withdraw", stash |-> n]
                 /\ busy' = [busy EXCEPT ![p] = b]
    BY <1>14 DEF FindOrCreateStash, FindStash, Continue
  <2>2. b.pc \in {"deposit", "withdraw"}
    BY <2>1
  <2>3. Ready(p) /\ UNCHANGED <<world, dropped, level, pending, sweep, sees, away>>
    BY <1>14 DEF FindOrCreateStash, FindStash
  <2> QED
    BY <1>7, <1>9, <2>1, <2>2, <2>3
<1>15. ASSUME NEW p \in Player, NEW n \in DOMAIN stashes,
              NEW action \in {"deposit", "withdraw"}, OpenContainer(p, n, action)
       PROVE  SInv'
  <2>1. PICK b : b = [pc |-> action, stash |-> n]
    OBVIOUS
  <2>2. b.pc \in {"deposit", "withdraw"}
    BY <2>1
  <2>3. /\ Ready(p) /\ busy' = [busy EXCEPT ![p] = b]
        /\ UNCHANGED <<world, dropped, level, pending, sweep, sees, away>>
    BY <1>15, <2>1 DEF OpenContainer, Continue
  <2> QED
    BY <1>7, <1>9, <2>2, <2>3
<1> QED
  BY <1>1, <1>2, <1>3, <1>4, <1>5, <1>6, <1>11, <1>12, <1>13, <1>14, <1>15, <1>16, <1>17,
     PickupKeeps, BroadcastToKeeps, SweepKeeps, RemovalKeeps DEF Next

(***************************************************************************)
(* For any number of players, items and levels: whoever has arrived on a   *)
(* level and stayed in range of an item that lies there, without loading   *)
(* the level again since it was dropped, sees it or is on the list of the  *)
(* worker that dropped it; neither a drop that crosses an arrival nor the  *)
(* late news of a pickup or of the sweep hides an item                     *)
(* (broadcastItemUpdate in game/item_ledger.go, sendWorldItemsInAoI and    *)
(* sweepWorldItems in game/server.go).                                     *)
(***************************************************************************)
THEOREM Showing == Spec => []NobodyMissesAnItem
<1>1. SInv => NobodyMissesAnItem
  BY DEF SInv, AllShown, Shown, Tells, NobodyMissesAnItem
<1> QED
  BY <1>1, SInvInit, SInvNext, PTL DEF Spec
-----------------------------------------------------------------------------
(***************************************************************************)
(* Sums over finite sets.                                                  *)
(***************************************************************************)
\* The element the fold takes next, the equation its function solves, and the sum.
Pick(s) == CHOOSE x \in s : TRUE

SumEq(g, f, S) ==
  g = [s \in SUBSET S |-> IF s = {} THEN 0 ELSE f[Pick(s)] + g[s \ {Pick(s)}]]

SumOf(f, S) == SumFunctionOnSet(f, S)

\* A sum is what the recursion of the fold computes.
LEMMA Unfold ==
  ASSUME NEW f, NEW S
  PROVE SumOf(f, S) = (CHOOSE g : SumEq(g, f, S))[S]
BY DEF SumOf, SumFunctionOnSet, FoldFunctionOnSet, MapThenFoldSet, SumEq, Pick

\* Induction over the natural numbers, for a set.
LEMMA Induction ==
  ASSUME NEW P, 0 \in P, \A n \in Nat : n \in P => n + 1 \in P
  PROVE  Nat \subseteq P
<1> SUFFICES ASSUME Nat \ P # {} PROVE FALSE
  OBVIOUS
<1> DEFINE R == {ss \in Nat \X Nat : ss[1] < ss[2]}
<1>1. IsWellFoundedOn(R, Nat)
  BY NatLessThanWellFounded DEF OpToRel
<1>2. PICK n \in Nat \ P : \A m \in Nat \ P : ~(<<m, n>> \in R)
  <2> HIDE DEF R
  <2>1. Nat \ P \subseteq Nat
    OBVIOUS
  <2> QED
    BY <1>1, <2>1, WFMin
<1>3. n # 0 /\ n \in Nat
  OBVIOUS
<1>4. n - 1 \in Nat /\ n - 1 \in P
  <2>1. n - 1 \in Nat /\ <<n - 1, n>> \in R
    BY <1>3
  <2> QED
    BY <1>2, <2>1
<1>5. (n - 1) + 1 \in P
  BY <1>4
<1> QED
  BY <1>2, <1>3, <1>5

\* Picking an element of a finite set leaves one element less.
LEMMA Picked ==
  ASSUME NEW S, IsFiniteSet(S), NEW s \in SUBSET S, s # {}
  PROVE  /\ Pick(s) \in s /\ s \ {Pick(s)} \in SUBSET S
         /\ IsFiniteSet(s) /\ Cardinality(s) \in Nat \ {0}
         /\ Cardinality(s \ {Pick(s)}) = Cardinality(s) - 1
<1>1. Pick(s) \in s
  BY DEF Pick
<1>2. IsFiniteSet(s)
  BY FS_Subset
<1>3. Cardinality(s) \in Nat /\ Cardinality(s) # 0
  BY <1>2, FS_CardinalityType, FS_EmptySet
<1>4. Cardinality(s \ {Pick(s)}) = Cardinality(s) - 1
  BY <1>1, <1>2, FS_RemoveElement
<1> QED
  BY <1>1, <1>2, <1>3, <1>4

\* The recursion has a solution on a finite set.
LEMMA SumExists ==
  ASSUME NEW S, IsFiniteSet(S), NEW f, \A x \in S : f[x] \in Int
  PROVE  \E g \in [SUBSET S -> Int] : SumEq(g, f, S)
<1> DEFINE Val(g, s) == IF s = {} THEN 0 ELSE f[Pick(s)] + g[s \ {Pick(s)}]
           Upto(g, n) == \A s \in SUBSET S : Cardinality(s) <= n => g[s] = Val(g, s)
           P == {n \in Nat : \E g \in [SUBSET S -> Int] : Upto(g, n)}
<1>1. ASSUME NEW s \in SUBSET S, NEW g \in [SUBSET S -> Int] PROVE Val(g, s) \in Int
  <2>1. CASE s = {}
    BY <2>1
  <2>2. CASE s # {}
    <3>1. Pick(s) \in S /\ s \ {Pick(s)} \in SUBSET S
      BY <2>2, Picked
    <3> QED
      BY <2>2, <3>1
  <2> QED
    BY <2>1, <2>2
<1>2. \A s \in SUBSET S : IsFiniteSet(s) /\ Cardinality(s) \in Nat /\ (Cardinality(s) = 0 <=> s = {})
  BY FS_Subset, FS_CardinalityType, FS_EmptySet
<1>3. 0 \in P
  <2>0. [s \in SUBSET S |-> 0] \in [SUBSET S -> Int]
    OBVIOUS
  <2>1. PICK g \in [SUBSET S -> Int] : g = [s \in SUBSET S |-> 0]
    BY <2>0, Zenon
  <2>2. ASSUME NEW s \in SUBSET S, Cardinality(s) <= 0 PROVE g[s] = Val(g, s)
    <3>1. s = {}
      BY <1>2, <2>2
    <3> QED
      BY <2>1, <3>1
  <2>3. Upto(g, 0)
    BY <2>2
  <2> QED
    BY <2>3
<1>4. ASSUME NEW n \in Nat, n \in P PROVE n + 1 \in P
  <2>1. PICK g \in [SUBSET S -> Int] : Upto(g, n)
    BY <1>4
  <2> HIDE DEF Val
  <2>2. PICK h : h = [s \in SUBSET S |-> Val(g, s)]
    OBVIOUS
  <2>3. h \in [SUBSET S -> Int]
    BY <1>1, <2>2
  <2>4. \A s \in SUBSET S : Cardinality(s) <= n => h[s] = g[s]
    BY <2>1, <2>2
  <2>5. ASSUME NEW s \in SUBSET S, Cardinality(s) <= n + 1 PROVE h[s] = Val(h, s)
    <3>1. CASE s = {}
      BY <2>2, <3>1 DEF Val
    <3>2. CASE s # {}
      <4>1. s \ {Pick(s)} \in SUBSET S /\ Cardinality(s \ {Pick(s)}) <= n
        BY <2>5, <3>2, Picked
      <4>2. h[s \ {Pick(s)}] = g[s \ {Pick(s)}]
        BY <2>4, <4>1
      <4> QED
        BY <2>2, <4>2 DEF Val
    <3> QED
      BY <3>1, <3>2
  <2>6. Upto(h, n + 1)
    BY <2>5
  <2> QED
    BY <2>3, <2>6
<1>5. Cardinality(S) \in P
  <2>1. Cardinality(S) \in Nat
    BY FS_CardinalityType
  <2>2. Nat \subseteq P
    <3> HIDE DEF P
    <3> QED
      BY <1>3, <1>4, Induction
  <2> QED
    BY <2>1, <2>2
<1>6. PICK g \in [SUBSET S -> Int] : Upto(g, Cardinality(S))
  BY <1>5
<1>7. \A s \in SUBSET S : g[s] = Val(g, s)
  <2>1. \A s \in SUBSET S : Cardinality(s) <= Cardinality(S)
    BY FS_Subset
  <2> QED
    BY <1>6, <2>1
<1>8. g = [s \in SUBSET S |-> g[s]]
  OBVIOUS
<1>9. SumEq(g, f, S)
  BY <1>7, <1>8 DEF SumEq
<1> QED
  BY <1>9

\* Two solutions agree where both are defined.
LEMMA SumAgrees ==
  ASSUME NEW S, IsFiniteSet(S), NEW T \in SUBSET S, NEW f, NEW g, NEW h,
         SumEq(g, f, S), SumEq(h, f, T)
  PROVE  \A s \in SUBSET T : g[s] = h[s]
<1> DEFINE P == {n \in Nat : \A s \in SUBSET T : Cardinality(s) = n => g[s] = h[s]}
<1>1. ASSUME NEW s \in SUBSET T
      PROVE  /\ s \in SUBSET S /\ IsFiniteSet(s) /\ Cardinality(s) \in Nat
             /\ Cardinality(s) = 0 <=> s = {}
             /\ s = {} => g[s] = 0 /\ h[s] = 0
             /\ s # {} => /\ g[s] = f[Pick(s)] + g[s \ {Pick(s)}]
                          /\ h[s] = f[Pick(s)] + h[s \ {Pick(s)}]
  <2>1. s \in SUBSET S
    OBVIOUS
  <2>2. IsFiniteSet(s) /\ Cardinality(s) \in Nat /\ (Cardinality(s) = 0 <=> s = {})
    BY <2>1, FS_Subset, FS_CardinalityType, FS_EmptySet
  <2> QED
    BY <2>1, <2>2 DEF SumEq
<1>2. 0 \in P
  BY <1>1
<1>3. ASSUME NEW n \in Nat, n \in P PROVE n + 1 \in P
  <2>1. ASSUME NEW s \in SUBSET T, Cardinality(s) = n + 1 PROVE g[s] = h[s]
    <3>1. s # {} /\ s \in SUBSET S
      <4>1. s \in SUBSET S /\ (Cardinality(s) = 0 <=> s = {})
        BY <1>1
      <4>2. n + 1 # 0
        OBVIOUS
      <4> QED
        BY <2>1, <4>1, <4>2
    <3>2. Cardinality(s \ {Pick(s)}) = n /\ s \ {Pick(s)} \in SUBSET T
      BY <2>1, <3>1, Picked
    <3>3. g[s \ {Pick(s)}] = h[s \ {Pick(s)}]
      BY <1>3, <3>2
    <3> QED
      BY <1>1, <3>1, <3>3
  <2> QED
    BY <2>1
<1>4. Nat \subseteq P
  <2> HIDE DEF P
  <2> QED
    BY <1>2, <1>3, Induction
<1> QED
  BY <1>1, <1>4

\* A sum over a finite set of integers is an integer; over nothing it is 0, and any
\* element can be taken out of it.
LEMMA SumRule ==
  ASSUME NEW S, IsFiniteSet(S), NEW f, \A x \in S : f[x] \in Int
  PROVE  /\ SumOf(f, {}) = 0
         /\ \A T \in SUBSET S : SumOf(f, T) \in Int
         /\ \A T \in SUBSET S : \A x \in T : SumOf(f, T) = f[x] + SumOf(f, T \ {x})
<1>1. PICK g \in [SUBSET S -> Int] : SumEq(g, f, S)
  BY SumExists
<1>2. ASSUME NEW T \in SUBSET S PROVE SumOf(f, T) = g[T]
  <2>1. IsFiniteSet(T) /\ \A x \in T : f[x] \in Int
    BY FS_Subset
  <2>2. \E h : SumEq(h, f, T)
    BY <2>1, SumExists
  <2>3. SumEq(CHOOSE h : SumEq(h, f, T), f, T)
    BY <2>2
  <2>4. PICK h : h = CHOOSE k : SumEq(k, f, T)
    OBVIOUS
  <2>5. g[T] = h[T]
    BY <1>1, <2>3, <2>4, SumAgrees
  <2> QED
    BY <2>4, <2>5, Unfold
<1>3. g[{}] = 0
  BY <1>1 DEF SumEq
<1>4. ASSUME NEW s \in SUBSET S, s # {} PROVE g[s] = f[Pick(s)] + g[s \ {Pick(s)}]
  BY <1>1, <1>4 DEF SumEq
<1> DEFINE P == {n \in Nat : \A s \in SUBSET S : Cardinality(s) = n =>
                                \A x \in s : g[s] = f[x] + g[s \ {x}]}
<1>5. \A s \in SUBSET S : IsFiniteSet(s) /\ Cardinality(s) \in Nat /\ (Cardinality(s) = 0 <=> s = {})
  BY FS_Subset, FS_CardinalityType, FS_EmptySet
<1>6. 0 \in P
  BY <1>5
<1>7. ASSUME NEW n \in Nat, n \in P PROVE n + 1 \in P
  <2>1. ASSUME NEW s \in SUBSET S, Cardinality(s) = n + 1, NEW x \in s
        PROVE  g[s] = f[x] + g[s \ {x}]
    <3>1. PICK c : c = Pick(s)
      OBVIOUS
    <3>2. c \in s /\ s \ {c} \in SUBSET S /\ Cardinality(s \ {c}) = n
      BY <2>1, <3>1, Picked
    <3>3. g[s] = f[c] + g[s \ {c}]
      BY <1>4, <3>1
    <3>4. CASE x = c
      BY <3>3, <3>4
    <3>5. CASE x # c
      <4>1. s \ {x} \in SUBSET S /\ c \in s \ {x} /\ x \in s \ {c}
        BY <3>2, <3>5
      <4>2. Cardinality(s \ {x}) = n
        <5>1. IsFiniteSet(s) /\ x \in s
          BY <1>5
        <5>2. Cardinality(s \ {x}) = Cardinality(s) - 1
          BY <5>1, FS_RemoveElement
        <5> QED
          BY <5>2, <2>1
      <4>3. g[s \ {c}] = f[x] + g[(s \ {c}) \ {x}]
        BY <1>7, <3>2, <4>1
      <4>4. g[s \ {x}] = f[c] + g[(s \ {x}) \ {c}]
        BY <1>7, <4>1, <4>2
      <4>5. (s \ {c}) \ {x} = (s \ {x}) \ {c}
        OBVIOUS
      <4>6. PICK rest \in Int : rest = g[(s \ {c}) \ {x}] /\ rest = g[(s \ {x}) \ {c}]
        BY <4>5
      <4>7. f[x] \in Int /\ f[c] \in Int
        BY <3>2
      <4> QED
        BY <3>3, <4>3, <4>4, <4>6, <4>7
    <3> QED
      BY <3>4, <3>5
  <2> QED
    BY <2>1
<1>8. Nat \subseteq P
  <2> HIDE DEF P
  <2> QED
    BY <1>6, <1>7, Induction
<1>9. ASSUME NEW s \in SUBSET S, NEW x \in s PROVE g[s] = f[x] + g[s \ {x}]
  BY <1>5, <1>8
<1>10. {} \in SUBSET S /\ \A T \in SUBSET S : \A x \in T : T \ {x} \in SUBSET S
  OBVIOUS
<1> QED
  BY <1>2, <1>3, <1>9, <1>10

\* Functions that agree have the same sum, and larger summands give no smaller one.
LEMMA SumCompare ==
  ASSUME NEW S, IsFiniteSet(S), NEW e, NEW f, \A x \in S : e[x] \in Int /\ f[x] \in Int
  PROVE  /\ (\A x \in S : e[x] <= f[x]) => SumOf(e, S) <= SumOf(f, S)
         /\ (\A x \in S : e[x] = f[x]) => SumOf(e, S) = SumOf(f, S)
<1> DEFINE Le(s) == (\A x \in s : e[x] <= f[x]) => SumOf(e, s) <= SumOf(f, s)
           Eq(s) == (\A x \in s : e[x] = f[x]) => SumOf(e, s) = SumOf(f, s)
           P == {n \in Nat : \A s \in SUBSET S : Cardinality(s) = n => Le(s) /\ Eq(s)}
<1>1. \A s \in SUBSET S : IsFiniteSet(s) /\ Cardinality(s) \in Nat /\ (Cardinality(s) = 0 <=> s = {})
  BY FS_Subset, FS_CardinalityType, FS_EmptySet
<1>2. SumOf(e, {}) = 0 /\ SumOf(f, {}) = 0
  BY SumRule
<1>3. \A T \in SUBSET S : SumOf(e, T) \in Int /\ SumOf(f, T) \in Int
  <2>1. \A T \in SUBSET S : SumOf(e, T) \in Int
    BY SumRule
  <2>2. \A T \in SUBSET S : SumOf(f, T) \in Int
    BY SumRule
  <2> QED
    BY <2>1, <2>2
<1> HIDE DEF Le, Eq
<1>4. 0 \in P
  <2>1. Le({}) /\ Eq({})
    BY <1>2 DEF Le, Eq
  <2> QED
    BY <1>1, <2>1
<1>5. ASSUME NEW n \in Nat, n \in P PROVE n + 1 \in P
  <2>1. ASSUME NEW s \in SUBSET S, Cardinality(s) = n + 1 PROVE Le(s) /\ Eq(s)
    <3>1. PICK x \in s : TRUE
      BY <1>1, <2>1
    <3>2. PICK r \in SUBSET S : r = s \ {x}
      OBVIOUS
    <3>3. Cardinality(r) = n /\ r \subseteq s
      <4>1. IsFiniteSet(s) /\ x \in s
        BY <1>1, <3>1
      <4>2. Cardinality(s \ {x}) = Cardinality(s) - 1
        BY <4>1, FS_RemoveElement
      <4> QED
        BY <2>1, <3>2, <4>2
    <3>4. Le(r) /\ Eq(r)
      BY <1>5, <3>3
    <3>5. SumOf(e, s) = e[x] + SumOf(e, r) /\ SumOf(f, s) = f[x] + SumOf(f, r)
      <4>1. SumOf(e, s) = e[x] + SumOf(e, r)
        BY <3>2, SumRule
      <4>2. SumOf(f, s) = f[x] + SumOf(f, r)
        BY <3>2, SumRule
      <4> QED
        BY <4>1, <4>2
    <3>6. /\ e[x] \in Int /\ f[x] \in Int /\ SumOf(e, r) \in Int /\ SumOf(f, r) \in Int
      BY <1>3
    <3> QED
      BY <3>3, <3>4, <3>5, <3>6 DEF Le, Eq
  <2> QED
    BY <2>1
<1>6. Nat \subseteq P
  <2> HIDE DEF P
  <2> QED
    BY <1>4, <1>5, Induction
<1>7. Le(S) /\ Eq(S)
  <2>1. S \in SUBSET S /\ Cardinality(S) \in Nat
    BY <1>1
  <2> QED
    BY <1>6, <2>1
<1> QED
  BY <1>7 DEF Le, Eq


\* A summand taken out.
LEMMA SumStep ==
  ASSUME NEW S, IsFiniteSet(S), NEW f, \A x \in S : f[x] \in Int, NEW T \in SUBSET S, NEW x \in T
  PROVE  SumOf(f, T) = f[x] + SumOf(f, T \ {x})
BY SumRule

\* A function that differs at one place.
LEMMA SumChange ==
  ASSUME NEW S, IsFiniteSet(S), NEW e, NEW f, \A x \in S : e[x] \in Int /\ f[x] \in Int,
         NEW a \in S, \A x \in S \ {a} : e[x] = f[x]
  PROVE  /\ SumOf(e, S) \in Int /\ SumOf(f, S) \in Int
         /\ SumOf(e, S) = SumOf(f, S) - f[a] + e[a]
<1>1. PICK T \in SUBSET S : T = S \ {a}
  OBVIOUS
<1>2. SumOf(e, S) = e[a] + SumOf(e, T) /\ SumOf(e, S) \in Int
  BY <1>1, SumRule
<1>3. SumOf(f, S) = f[a] + SumOf(f, T) /\ SumOf(f, S) \in Int /\ SumOf(f, T) \in Int
  BY <1>1, SumRule
<1>4. SumOf(e, T) = SumOf(f, T)
  <2>1. IsFiniteSet(T)
    BY FS_Subset
  <2>2. \A x \in T : e[x] \in Int /\ f[x] \in Int /\ e[x] = f[x]
    BY <1>1
  <2> QED
    BY <2>1, <2>2, SumCompare
<1>5. e[a] \in Int /\ f[a] \in Int
  OBVIOUS
<1> QED
  BY <1>2, <1>3, <1>4, <1>5

\* A function with one more place.
LEMMA SumExtended ==
  ASSUME NEW S, IsFiniteSet(S), NEW e, NEW f, \A x \in S : f[x] \in Int /\ e[x] = f[x],
         NEW a, a \notin S, e[a] \in Int, NEW U, U = S \cup {a}
  PROVE  SumOf(f, S) \in Int /\ SumOf(e, U) = SumOf(f, S) + e[a]
<1>1. IsFiniteSet(U) /\ S \in SUBSET U /\ a \in U /\ U \ {a} = S
  BY FS_AddElement
<1>2. \A x \in U : e[x] \in Int
  OBVIOUS
<1>3. SumOf(e, U) = e[a] + SumOf(e, S)
  <2>1. PICK V : V = U \ {a}
    OBVIOUS
  <2>2. SumOf(e, U) = e[a] + SumOf(e, V)
    BY <1>1, <1>2, <2>1, SumRule
  <2>3. V = S
    BY <1>1, <2>1
  <2> QED
    BY <2>2, <2>3
<1>4. SumOf(e, S) = SumOf(f, S)
  <2>1. \A x \in S : e[x] \in Int /\ f[x] \in Int
    OBVIOUS
  <2> QED
    BY <2>1, SumCompare
<1>5. PICK n \in Int, m \in Int : n = SumOf(f, S) /\ m = e[a]
  BY SumRule
<1>6. SumOf(e, U) = n + m
  BY <1>3, <1>4, <1>5
<1> QED
  BY <1>5, <1>6

\* The sum over a part and over the rest.
LEMMA SumSplit ==
  ASSUME NEW S, IsFiniteSet(S), NEW f, \A x \in S : f[x] \in Int
  PROVE  \A T \in SUBSET S : /\ SumOf(f, T) \in Int /\ SumOf(f, S \ T) \in Int
                             /\ SumOf(f, S) = SumOf(f, T) + SumOf(f, S \ T)
<1>1. /\ SumOf(f, {}) = 0 /\ \A T \in SUBSET S : SumOf(f, T) \in Int
      /\ \A T \in SUBSET S : \A x \in T : SumOf(f, T) = f[x] + SumOf(f, T \ {x})
  BY SumRule
<1> DEFINE Q(T) == SumOf(f, S) = SumOf(f, T) + SumOf(f, S \ T)
           P == {n \in Nat : \A T \in SUBSET S : Cardinality(T) = n => Q(T)}
<1>2. \A s \in SUBSET S : IsFiniteSet(s) /\ Cardinality(s) \in Nat /\ (Cardinality(s) = 0 <=> s = {})
  BY FS_Subset, FS_CardinalityType, FS_EmptySet
<1>3. 0 \in P
  <2>1. Q({})
    <3>1. S \ {} = S /\ SumOf(f, S) \in Int
      BY <1>1
    <3> QED
      BY <1>1, <3>1
  <2> HIDE DEF Q
  <2> QED
    BY <1>2, <2>1
<1>4. ASSUME NEW n \in Nat, n \in P PROVE n + 1 \in P
  <2>1. ASSUME NEW T \in SUBSET S, Cardinality(T) = n + 1 PROVE Q(T)
    <3>1. PICK x \in T : TRUE
      BY <1>2, <2>1
    <3>2. PICK U \in SUBSET S, V \in SUBSET S, W \in SUBSET S :
            U = T \ {x} /\ V = S \ T /\ W = S \ U
      OBVIOUS
    <3>3. Cardinality(U) = n
      <4>1. IsFiniteSet(T) /\ x \in T
        BY <1>2, <3>1
      <4>2. Cardinality(T \ {x}) = Cardinality(T) - 1
        BY <4>1, FS_RemoveElement
      <4> QED
        BY <2>1, <3>2, <4>2
    <3>4. Q(U)
      BY <1>4, <3>3
    <3>5. x \in W /\ W \ {x} = V
      BY <3>1, <3>2
    <3>6. SumOf(f, T) = f[x] + SumOf(f, U) /\ SumOf(f, W) = f[x] + SumOf(f, V)
      BY <1>1, <3>1, <3>2, <3>5
    <3>7. f[x] \in Int /\ SumOf(f, U) \in Int /\ SumOf(f, V) \in Int
      BY <1>1
    <3> QED
      BY <3>2, <3>4, <3>6, <3>7
  <2> HIDE DEF Q
  <2> QED
    BY <2>1
<1>5. Nat \subseteq P
  <2> HIDE DEF P
  <2> QED
    BY <1>3, <1>4, Induction
<1>6. \A T \in SUBSET S : Q(T)
  <2> HIDE DEF Q
  <2> QED
    BY <1>2, <1>5
<1> QED
  BY <1>1, <1>6

\* Summands that are natural numbers, and summands that are nothing.
LEMMA SumNat ==
  ASSUME NEW S, IsFiniteSet(S), NEW f, \A x \in S : f[x] \in Nat
  PROVE  SumOf(f, S) \in Nat /\ ((\A x \in S : f[x] = 0) => SumOf(f, S) = 0)
<1>1. \A x \in S : f[x] \in Int
  OBVIOUS
<1>2. /\ SumOf(f, {}) = 0 /\ \A T \in SUBSET S : SumOf(f, T) \in Int
      /\ \A T \in SUBSET S : \A x \in T : SumOf(f, T) = f[x] + SumOf(f, T \ {x})
  BY <1>1, SumRule
<1> DEFINE Q(T) == SumOf(f, T) >= 0 /\ ((\A x \in T : f[x] = 0) => SumOf(f, T) = 0)
           P == {n \in Nat : \A T \in SUBSET S : Cardinality(T) = n => Q(T)}
<1>3. \A s \in SUBSET S : IsFiniteSet(s) /\ Cardinality(s) \in Nat /\ (Cardinality(s) = 0 <=> s = {})
  BY FS_Subset, FS_CardinalityType, FS_EmptySet
<1>4. 0 \in P
  <2>1. Q({})
    BY <1>2
  <2> HIDE DEF Q
  <2> QED
    BY <1>3, <2>1
<1>5. ASSUME NEW n \in Nat, n \in P PROVE n + 1 \in P
  <2>1. ASSUME NEW T \in SUBSET S, Cardinality(T) = n + 1 PROVE Q(T)
    <3>1. PICK x \in T : TRUE
      BY <1>3, <2>1
    <3>2. PICK U \in SUBSET S : U = T \ {x}
      OBVIOUS
    <3>3. Cardinality(U) = n
      <4>1. IsFiniteSet(T) /\ x \in T
        BY <1>3, <3>1
      <4>2. Cardinality(T \ {x}) = Cardinality(T) - 1
        BY <4>1, FS_RemoveElement
      <4> QED
        BY <2>1, <3>2, <4>2
    <3>4. Q(U)
      BY <1>5, <3>3
    <3>5. SumOf(f, T) = f[x] + SumOf(f, U) /\ f[x] \in Nat /\ SumOf(f, U) \in Int
      BY <1>2, <3>1, <3>2
    <3> QED
      BY <3>1, <3>2, <3>4, <3>5
  <2> HIDE DEF Q
  <2> QED
    BY <2>1
<1>6. Nat \subseteq P
  <2> HIDE DEF P
  <2> QED
    BY <1>4, <1>5, Induction
<1>7. Q(S)
  <2> HIDE DEF Q
  <2>1. S \in SUBSET S
    OBVIOUS
  <2> QED
    BY <1>3, <1>6, <2>1
<1> QED
  BY <1>2, <1>7

\* The least of some natural numbers.
LEMMA LeastNat ==
  ASSUME NEW S, \A x \in S : x \in Nat, S # {}
  PROVE  \E x \in S : \A y \in S : x <= y
<1> DEFINE P == {n \in Nat : \A m \in S : m >= n}
<1>1. SUFFICES ASSUME \A x \in S : \E y \in S : ~(x <= y) PROVE FALSE
  OBVIOUS
<1>2. 0 \in P
  OBVIOUS
<1>3. ASSUME NEW n \in Nat, n \in P PROVE n + 1 \in P
  <2>1. ASSUME NEW m \in S PROVE m >= n + 1
    <3>1. m >= n /\ m \in Nat
      BY <1>3
    <3>2. m # n
      <4>1. ASSUME m = n PROVE FALSE
        <5>1. PICK y \in S : ~(m <= y)
          BY <1>1
        <5> QED
          BY <1>3, <4>1, <5>1
      <4> QED
        BY <4>1
    <3> QED
      BY <3>1, <3>2
  <2> QED
    BY <2>1
<1>4. Nat \subseteq P
  <2> HIDE DEF P
  <2> QED
    BY <1>2, <1>3, Induction
<1>5. PICK x \in S : x \in Nat
  OBVIOUS
<1>6. x + 1 \in P
  BY <1>4, <1>5
<1> QED
  BY <1>5, <1>6
-----------------------------------------------------------------------------
(***************************************************************************)
(* The rows of an inventory.                                               *)
(***************************************************************************)
\* Rows on their way: some may be empty.
AnyRow == [count: Nat, cond: Bucket]

\* The total of rows is the sum of their counts.
LEMMA TotalSum ==
  ASSUME NEW rows \in Seq(AnyRow)
  PROVE  /\ Total(rows) = SumOf(Counts(rows), DOMAIN rows) /\ Total(rows) \in Nat
         /\ IsFiniteSet(DOMAIN rows) /\ DOMAIN rows = 1 .. Len(rows) /\ Len(rows) \in Nat
         /\ \A i \in DOMAIN rows : /\ rows[i] \in AnyRow /\ Counts(rows)[i] = rows[i].count
                                   /\ Counts(rows)[i] \in Nat /\ Counts(rows)[i] \in Int
                                   /\ rows[i].cond \in Bucket
<1>1. DOMAIN rows = 1 .. Len(rows) /\ Len(rows) \in Nat
  OBVIOUS
<1>2. IsFiniteSet(DOMAIN rows)
  <2>1. 1 \in Int /\ Len(rows) \in Int
    BY <1>1
  <2>2. IsFiniteSet(1 .. Len(rows))
    BY <2>1, FS_Interval
  <2> QED
    BY <1>1, <2>2
<1>3. ASSUME NEW i \in DOMAIN rows
      PROVE  /\ rows[i] \in AnyRow /\ Counts(rows)[i] = rows[i].count
             /\ Counts(rows)[i] \in Nat /\ Counts(rows)[i] \in Int
             /\ rows[i].cond \in Bucket
  <2>1. rows[i] \in AnyRow
    OBVIOUS
  <2>2. Counts(rows)[i] = rows[i].count
    BY DEF Counts
  <2> QED
    BY <2>1, <2>2 DEF AnyRow
<1>4. Total(rows) = SumOf(Counts(rows), DOMAIN rows)
  <2>1. DOMAIN Counts(rows) = DOMAIN rows
    BY DEF Counts
  <2> QED
    BY <2>1 DEF Total, SumFunction, SumOf
<1>5. Total(rows) \in Nat
  BY <1>2, <1>3, <1>4, SumNat
<1> QED
  BY <1>1, <1>2, <1>3, <1>4, <1>5

\* A row is one that may be empty, and is not.
LEMMA RowIsAny ==
  /\ \A r : r \in Row <=> r \in AnyRow /\ r.count > 0
  /\ \A rows \in Seq(Row) : rows \in Seq(AnyRow)
<1>1. ASSUME NEW r PROVE r \in Row <=> r \in AnyRow /\ r.count > 0
  BY DEF Row, AnyRow
<1>2. Row \subseteq AnyRow
  BY <1>1
<1> QED
  BY <1>1, <1>2

\* A row more.
LEMMA TotalAppend ==
  ASSUME NEW rows \in Seq(Row), NEW r \in Row
  PROVE  /\ Append(rows, r) \in Seq(Row)
         /\ Total(Append(rows, r)) = Total(rows) + r.count
<1>1. PICK new : new = Append(rows, r)
  OBVIOUS
<1>2. /\ new \in Seq(Row) /\ Len(new) = Len(rows) + 1 /\ Len(rows) \in Nat
      /\ new[Len(rows) + 1] = r
      /\ \A i \in DOMAIN rows : new[i] = rows[i]
  BY <1>1
<1>3. rows \in Seq(AnyRow) /\ new \in Seq(AnyRow)
  BY <1>2, RowIsAny
<1>4. PICK a : a = Len(rows) + 1
  OBVIOUS
<1>5. DOMAIN new = DOMAIN rows \cup {a} /\ a \notin DOMAIN rows /\ a \in DOMAIN new
  BY <1>2, <1>4
<1>6. IsFiniteSet(DOMAIN rows) /\ \A i \in DOMAIN rows : Counts(rows)[i] \in Int
  BY <1>3, TotalSum
<1>7. \A i \in DOMAIN rows : Counts(new)[i] = Counts(rows)[i]
  BY <1>2, <1>5 DEF Counts
<1>8. Counts(new)[a] = r.count /\ Counts(new)[a] \in Int
  BY <1>2, <1>3, <1>4, <1>5, TotalSum
<1>9. SumOf(Counts(new), DOMAIN new) = SumOf(Counts(rows), DOMAIN rows) + Counts(new)[a]
  <2>1. PICK e, f, S, U : /\ e = Counts(new) /\ f = Counts(rows)
                          /\ S = DOMAIN rows /\ U = DOMAIN new
    OBVIOUS
  <2>2. IsFiniteSet(S) /\ \A x \in S : f[x] \in Int /\ e[x] = f[x]
    BY <1>6, <1>7, <2>1
  <2>3. a \notin S /\ e[a] \in Int /\ U = S \cup {a}
    BY <1>5, <1>8, <2>1
  <2>4. SumOf(e, U) = SumOf(f, S) + e[a]
    BY <2>2, <2>3, SumExtended
  <2> QED
    BY <2>1, <2>4
<1>10. Total(new) = SumOf(Counts(new), DOMAIN new) /\ Total(rows) = SumOf(Counts(rows), DOMAIN rows)
  BY <1>3, TotalSum
<1> QED
  BY <1>1, <1>2, <1>5, <1>8, <1>9, <1>10

\* CreditInventoryLocked adds what it is asked to add.
LEMMA CreditTotal ==
  ASSUME NEW rows \in Seq(Row), NEW n \in Nat \ {0}, NEW cond \in Bucket
  PROVE  /\ CreditItems(rows, n, cond) \in Seq(Row)
         /\ Total(CreditItems(rows, n, cond)) = Total(rows) + n
<1>1. PICK same : same = {i \in DOMAIN rows : rows[i].cond = cond}
  OBVIOUS
<1>2. CASE same = {}
  <2>1. PICK r : r = [count |-> n, cond |-> cond]
    OBVIOUS
  <2>2. r \in Row /\ r.count = n
    BY <2>1 DEF Row
  <2>3. CreditItems(rows, n, cond) = Append(rows, r)
    BY <1>1, <1>2, <2>1 DEF CreditItems
  <2> QED
    BY <2>2, <2>3, TotalAppend
<1>3. CASE same # {}
  <2>1. rows \in Seq(AnyRow)
    BY RowIsAny
  <2>2. PICK a \in DOMAIN rows : a = Min(same)
    <3>1. same \subseteq DOMAIN rows /\ \A i \in same : i \in Nat
      BY <1>1
    <3>2. \E x \in same : \A y \in same : x <= y
      BY <1>3, <3>1, LeastNat
    <3>3. Min(same) \in same
      BY <3>2 DEF Min
    <3> QED
      BY <3>1, <3>3
  <2>3. PICK r : r = [rows[a] EXCEPT !.count = rows[a].count + n]
    OBVIOUS
  <2>4. r \in Row /\ r.count = rows[a].count + n
    <3>1. PICK row \in Row : row = rows[a]
      OBVIOUS
    <3>2. PICK m : m = row.count + n
      OBVIOUS
    <3>3. row.count \in Nat \ {0} /\ m \in Nat \ {0}
      BY <3>2 DEF Row
    <3>4. r = [row EXCEPT !.count = m]
      BY <2>3, <3>1, <3>2
    <3>5. r \in Row /\ r.count = m
      BY <3>3, <3>4 DEF Row
    <3> QED
      BY <3>1, <3>2, <3>5
  <2>5. PICK new : new = [rows EXCEPT ![a] = r]
    OBVIOUS
  <2>6. CreditItems(rows, n, cond) = new
    BY <1>1, <1>3, <2>2, <2>3, <2>5 DEF CreditItems
  <2>7. /\ new \in Seq(Row) /\ DOMAIN new = DOMAIN rows /\ new[a] = r
        /\ \A i \in DOMAIN rows \ {a} : new[i] = rows[i]
    BY <2>4, <2>5
  <2>8. new \in Seq(AnyRow)
    BY <2>7, RowIsAny
  <2>9. /\ \A i \in DOMAIN rows : Counts(new)[i] \in Int /\ Counts(rows)[i] \in Int
        /\ Counts(new)[a] = rows[a].count + n /\ Counts(rows)[a] = rows[a].count
        /\ IsFiniteSet(DOMAIN rows)
    BY <2>1, <2>4, <2>7, <2>8, TotalSum
  <2>10. \A i \in DOMAIN rows \ {a} : Counts(new)[i] = Counts(rows)[i]
    BY <2>7 DEF Counts
  <2>11. /\ SumOf(Counts(rows), DOMAIN rows) \in Int
         /\ SumOf(Counts(new), DOMAIN rows)
              = SumOf(Counts(rows), DOMAIN rows) - Counts(rows)[a] + Counts(new)[a]
    <3>1. PICK D, e, f : D = DOMAIN rows /\ e = Counts(new) /\ f = Counts(rows)
      OBVIOUS
    <3>2. /\ IsFiniteSet(D) /\ a \in D /\ \A i \in D : e[i] \in Int /\ f[i] \in Int
          /\ \A i \in D \ {a} : e[i] = f[i]
      BY <2>9, <2>10, <3>1
    <3>3. SumOf(f, D) \in Int /\ SumOf(e, D) = SumOf(f, D) - f[a] + e[a]
      BY <3>2, SumChange
    <3> QED
      BY <3>1, <3>3
  <2>12. /\ Total(new) = SumOf(Counts(new), DOMAIN rows)
         /\ Total(rows) = SumOf(Counts(rows), DOMAIN rows)
    BY <2>1, <2>7, <2>8, TotalSum
  <2>13. rows[a].count \in Int /\ n \in Int
    BY <2>9
  <2> QED
    BY <2>6, <2>7, <2>9, <2>11, <2>12, <2>13
<1> QED
  BY <1>2, <1>3

\* The equation of the rows that are kept.
KeptEq(k, rows) ==
  k = [i \in 0 .. Len(rows) |->
         IF i = 0 THEN <<>>
         ELSE IF rows[i].count > 0 THEN Append(k[i - 1], rows[i]) ELSE k[i - 1]]

\* It has a solution.
LEMMA KeptExists ==
  ASSUME NEW rows \in Seq(AnyRow)
  PROVE  \E k : KeptEq(k, rows)
<1>0. Len(rows) \in Nat /\ DOMAIN rows = 1 .. Len(rows)
  OBVIOUS
<1> DEFINE D == 0 .. Len(rows)
           Val(k, i) == IF i = 0 THEN <<>>
                        ELSE IF rows[i].count > 0 THEN Append(k[i - 1], rows[i]) ELSE k[i - 1]
           Upto(k, n) == DOMAIN k = D /\ \A i \in D : i <= n => k[i] = Val(k, i)
           P == {n \in Nat : \E k : Upto(k, n)}
<1>1. 0 \in P
  <2>1. PICK k : k = [i \in D |-> <<>>]
    OBVIOUS
  <2>2. Upto(k, 0)
    BY <2>1
  <2> QED
    BY <2>2
<1>2. ASSUME NEW n \in Nat, n \in P PROVE n + 1 \in P
  <2>1. PICK k : Upto(k, n)
    BY <1>2
  <2> HIDE DEF Val
  <2>2. PICK h : h = [i \in D |-> Val(k, i)]
    OBVIOUS
  <2>3. \A i \in D : i <= n => h[i] = k[i]
    BY <2>1, <2>2
  <2>4. ASSUME NEW i \in D, i <= n + 1 PROVE h[i] = Val(h, i)
    <3>1. CASE i = 0
      BY <2>2, <3>1 DEF Val
    <3>2. CASE i # 0
      <4>1. i - 1 \in D /\ i - 1 <= n
        BY <1>0, <2>4, <3>2
      <4>2. h[i - 1] = k[i - 1]
        BY <2>3, <4>1
      <4> QED
        BY <2>2, <4>2 DEF Val
    <3> QED
      BY <3>1, <3>2
  <2>5. Upto(h, n + 1)
    BY <2>2, <2>4
  <2> QED
    BY <2>5
<1>3. Len(rows) \in P
  <2>1. Nat \subseteq P
    <3> HIDE DEF P
    <3> QED
      BY <1>1, <1>2, Induction
  <2> QED
    BY <1>0, <2>1
<1>4. PICK k : Upto(k, Len(rows))
  BY <1>3
<1>5. DOMAIN k = D /\ \A i \in D : k[i] = Val(k, i)
  BY <1>0, <1>4
<1>6. PICK h : h = [i \in D |-> Val(k, i)]
  OBVIOUS
<1>7. \A i \in D : h[i] = k[i]
  BY <1>5, <1>6
<1>8. ASSUME NEW i \in D PROVE Val(k, i) = Val(h, i)
  <2>1. i # 0 => i - 1 \in D
    BY <1>0
  <2> QED
    BY <1>7, <2>1
<1>9. h = [i \in D |-> Val(h, i)]
  <2> HIDE DEF Val
  <2> QED
    BY <1>6, <1>8
<1> QED
  BY <1>9 DEF KeptEq

\* Deleting the empty rows loses no copy.
LEMMA FilledTotal ==
  ASSUME NEW rows \in Seq(AnyRow)
  PROVE  Filled(rows) \in Seq(Row) /\ Total(Filled(rows)) = Total(rows)
<1>1. PICK k : k = CHOOSE h : KeptEq(h, rows)
  OBVIOUS
<1>2. KeptEq(k, rows)
  BY <1>1, KeptExists
<1>3. Filled(rows) = k[Len(rows)]
  BY <1>1 DEF Filled, KeptEq
<1>4. PICK f, D : f = Counts(rows) /\ D = DOMAIN rows
  OBVIOUS
<1>5. /\ IsFiniteSet(D) /\ D = 1 .. Len(rows) /\ Len(rows) \in Nat
      /\ \A i \in D : rows[i] \in AnyRow /\ f[i] = rows[i].count /\ f[i] \in Int /\ f[i] \in Nat
      /\ Total(rows) = SumOf(f, D)
  BY <1>4, TotalSum
<1>6. /\ SumOf(f, {}) = 0 /\ \A T \in SUBSET D : SumOf(f, T) \in Int
      /\ \A T \in SUBSET D : \A x \in T : SumOf(f, T) = f[x] + SumOf(f, T \ {x})
  <2>1. IsFiniteSet(D) /\ \A x \in D : f[x] \in Int
    BY <1>5
  <2>2. SumOf(f, {}) = 0
    BY <2>1, SumRule
  <2>3. \A T \in SUBSET D : SumOf(f, T) \in Int
    BY <2>1, SumRule
  <2>4. ASSUME NEW T \in SUBSET D, NEW x \in T PROVE SumOf(f, T) = f[x] + SumOf(f, T \ {x})
    BY <2>1, SumStep
  <2> QED
    BY <2>2, <2>3, <2>4
<1> DEFINE P == {n \in Nat : n <= Len(rows) => k[n] \in Seq(Row) /\ Total(k[n]) = SumOf(f, 1 .. n)}
<1>7. 0 \in P
  <2>1. k[0] = <<>>
    BY <1>2, <1>5 DEF KeptEq
  <2>2. PICK e : e = <<>>
    OBVIOUS
  <2>3. e \in Seq(Row) /\ e \in Seq(AnyRow) /\ DOMAIN e = {}
    BY <2>2
  <2>4. Total(e) = SumOf(Counts(e), DOMAIN e) /\ IsFiniteSet({})
    BY <2>3, TotalSum
  <2>5. SumOf(Counts(e), {}) = 0
    BY <2>4, <2>3, SumRule
  <2>6. 1 .. 0 = {}
    OBVIOUS
  <2> QED
    BY <1>6, <2>1, <2>2, <2>3, <2>4, <2>5, <2>6
<1>8. ASSUME NEW n \in Nat, n \in P PROVE n + 1 \in P
  <2>1. ASSUME n + 1 <= Len(rows)
        PROVE  k[n + 1] \in Seq(Row) /\ Total(k[n + 1]) = SumOf(f, 1 .. (n + 1))
    <3>1. PICK i \in D, T \in SUBSET D, U \in SUBSET D :
            i = n + 1 /\ T = 1 .. (n + 1) /\ U = 1 .. n
      BY <1>5, <2>1
    <3>2. i \in T /\ T \ {i} = U
      BY <3>1
    <3>3. SumOf(f, T) = f[i] + SumOf(f, U) /\ SumOf(f, U) \in Int
      BY <1>6, <3>2
    <3>4. PICK old : old = k[n]
      OBVIOUS
    <3>5. old \in Seq(Row) /\ Total(old) = SumOf(f, U)
      BY <1>5, <1>8, <2>1, <3>1, <3>4
    <3>6. k[i] = IF rows[i].count > 0 THEN Append(old, rows[i]) ELSE old
      <4>1. i \in 0 .. Len(rows) /\ i # 0 /\ i - 1 = n
        BY <1>5, <3>1
      <4> QED
        BY <1>2, <3>4, <4>1 DEF KeptEq
    <3>7. CASE rows[i].count > 0
      <4>1. rows[i] \in Row
        BY <1>5, <3>7, RowIsAny
      <4>2. /\ Append(old, rows[i]) \in Seq(Row)
            /\ Total(Append(old, rows[i])) = Total(old) + rows[i].count
        BY <3>5, <4>1, TotalAppend
      <4>3. f[i] = rows[i].count /\ f[i] \in Int
        BY <1>5
      <4> QED
        BY <3>1, <3>3, <3>5, <3>6, <3>7, <4>2, <4>3
    <3>8. CASE ~(rows[i].count > 0)
      <4>1. f[i] = 0
        BY <1>5, <3>8
      <4> QED
        BY <3>1, <3>3, <3>5, <3>6, <3>8, <4>1
    <3> QED
      BY <3>7, <3>8
  <2> QED
    BY <2>1
<1>9. Len(rows) \in P
  <2>1. Nat \subseteq P
    <3> HIDE DEF P
    <3> QED
      BY <1>7, <1>8, Induction
  <2> QED
    BY <1>5, <2>1
<1> QED
  BY <1>3, <1>5, <1>9

\* The order in which rows are consumed.
LEMMA ConsumedOrder ==
  ASSUME NEW rows, NEW c, NEW S, \A i \in S : i \in Nat
  PROVE  /\ \A i \in S : ~ConsumedBefore(rows, i, i, c)
         /\ \A i, j \in S : i # j => ConsumedBefore(rows, i, j, c) \/ ConsumedBefore(rows, j, i, c)
         /\ \A i, j, k \in S : ConsumedBefore(rows, i, j, c) /\ ConsumedBefore(rows, j, k, c)
                                 => ConsumedBefore(rows, i, k, c)
<1>1. ASSUME NEW i \in Nat PROVE ~ConsumedBefore(rows, i, i, c)
  BY DEF ConsumedBefore
<1>2. ASSUME NEW i \in Nat, NEW j \in Nat, i # j
      PROVE  ConsumedBefore(rows, i, j, c) \/ ConsumedBefore(rows, j, i, c)
  BY <1>2 DEF ConsumedBefore
<1>3. ASSUME NEW i \in Nat, NEW j \in Nat, NEW k \in Nat,
             ConsumedBefore(rows, i, j, c), ConsumedBefore(rows, j, k, c)
      PROVE  ConsumedBefore(rows, i, k, c)
  BY <1>3 DEF ConsumedBefore
<1> QED
  BY <1>1, <1>2, <1>3

\* A finite set has a last element in an order.
LEMMA LastExists ==
  ASSUME NEW S, IsFiniteSet(S), NEW R,
         \A i, j \in S : i # j => <<i, j>> \in R \/ <<j, i>> \in R,
         \A i, j, k \in S : <<i, j>> \in R /\ <<j, k>> \in R => <<i, k>> \in R
  PROVE  \A T \in SUBSET S : T # {} => \E m \in T : \A i \in T \ {m} : <<i, m>> \in R
<1> DEFINE Q(T) == T # {} => \E m \in T : \A i \in T \ {m} : <<i, m>> \in R
           P == {n \in Nat : \A T \in SUBSET S : Cardinality(T) = n => Q(T)}
<1>1. \A s \in SUBSET S : IsFiniteSet(s) /\ Cardinality(s) \in Nat /\ (Cardinality(s) = 0 <=> s = {})
  BY FS_Subset, FS_CardinalityType, FS_EmptySet
<1>2. 0 \in P
  BY <1>1
<1>3. ASSUME NEW n \in Nat, n \in P PROVE n + 1 \in P
  <2>1. ASSUME NEW T \in SUBSET S, Cardinality(T) = n + 1 PROVE Q(T)
    <3>1. PICK x \in T : TRUE
      BY <1>1, <2>1
    <3>2. PICK U \in SUBSET S : U = T \ {x}
      OBVIOUS
    <3>3. Cardinality(U) = n
      <4>1. IsFiniteSet(T) /\ x \in T
        BY <1>1, <3>1
      <4>2. Cardinality(T \ {x}) = Cardinality(T) - 1
        BY <4>1, FS_RemoveElement
      <4> QED
        BY <2>1, <3>2, <4>2
    <3>4. Q(U)
      BY <1>3, <3>3
    <3>5. CASE U = {}
      BY <3>1, <3>2, <3>5
    <3>6. CASE U # {}
      <4>1. PICK m \in U : \A i \in U \ {m} : <<i, m>> \in R
        BY <3>4, <3>6
      <4>2. m \in T /\ m # x /\ x \in S /\ m \in S
        BY <3>1, <3>2
      <4>3. CASE <<x, m>> \in R
        BY <3>2, <4>1, <4>2, <4>3
      <4>4. CASE <<m, x>> \in R
        <5>1. ASSUME NEW i \in T \ {x} PROVE <<i, x>> \in R
          <6>1. i = m \/ <<i, m>> \in R
            BY <3>2, <4>1
          <6>2. i \in S
            OBVIOUS
          <6> QED
            BY <4>2, <4>4, <6>1, <6>2
        <5> QED
          BY <3>1, <5>1
      <4> QED
        BY <4>2, <4>3, <4>4
    <3> QED
      BY <3>5, <3>6
  <2> HIDE DEF Q
  <2> QED
    BY <2>1
<1>4. Nat \subseteq P
  <2> HIDE DEF P
  <2> QED
    BY <1>2, <1>3, Induction
<1>5. \A T \in SUBSET S : Q(T)
  <2> HIDE DEF Q
  <2> QED
    BY <1>1, <1>4
<1> QED
  BY <1>5

\* The larger of a number and nothing.
LEMMA MaxZero ==
  ASSUME NEW b \in Int
  PROVE  Max({0, b}) = IF b > 0 THEN b ELSE 0
<1>1. PICK x \in {0, b} : x = IF b > 0 THEN b ELSE 0
  OBVIOUS
<1>2. \A y \in {0, b} : x >= y
  BY <1>1
<1>3. \A z \in {0, b} : (\A y \in {0, b} : z >= y) => z = x
  BY <1>1
<1>4. (CHOOSE z \in {0, b} : \A y \in {0, b} : z >= y) = x
  BY <1>2, <1>3
<1> QED
  BY <1>1, <1>4 DEF Max

\* What is left of t copies when n are taken.
Rest(t, n) == IF t >= n THEN t - n ELSE 0

\* The rows in the order in which they are consumed: nothing comes before the first one, and
\* the rows of an initial segment together keep what is left of their copies.
LEMMA LeftSum ==
  ASSUME NEW rows \in Seq(Row), NEW n \in Nat \ {0}, NEW c, NEW g,
         \A j \in DOMAIN rows : g[j] = Left(rows, n, c, j)
  PROVE  /\ \A j \in DOMAIN rows : g[j] \in Nat
         /\ SumOf(g, DOMAIN rows) = Rest(Total(rows), n)
         /\ DOMAIN rows # {} => \E j \in DOMAIN rows : Ahead(rows, c, j) = 0
<1>1. rows \in Seq(AnyRow)
  BY RowIsAny
<1>2. PICK f, D, R : /\ f = Counts(rows) /\ D = DOMAIN rows
                     /\ R = {ij \in D \X D : ConsumedBefore(rows, ij[1], ij[2], c)}
  OBVIOUS
<1>3. /\ IsFiniteSet(D) /\ D \subseteq Nat /\ Total(rows) = SumOf(f, D)
      /\ \A j \in D : rows[j].count = f[j] /\ f[j] \in Nat
  BY <1>1, <1>2, TotalSum
<1>4. \A i, j \in D : <<i, j>> \in R <=> ConsumedBefore(rows, i, j, c)
  BY <1>2
<1>5. /\ \A i \in D : <<i, i>> \notin R
      /\ \A i, j \in D : i # j => <<i, j>> \in R \/ <<j, i>> \in R
      /\ \A i, j, k \in D : <<i, j>> \in R /\ <<j, k>> \in R => <<i, k>> \in R
  <2>1. \A i \in D : i \in Nat
    BY <1>3
  <2>2. /\ \A i \in D : ~ConsumedBefore(rows, i, i, c)
        /\ \A i, j \in D : i # j => ConsumedBefore(rows, i, j, c) \/ ConsumedBefore(rows, j, i, c)
        /\ \A i, j, k \in D : ConsumedBefore(rows, i, j, c) /\ ConsumedBefore(rows, j, k, c)
                                 => ConsumedBefore(rows, i, k, c)
    BY <2>1, ConsumedOrder
  <2> QED
    BY <1>4, <2>2
<1>6. ASSUME NEW j \in D, NEW U \in SUBSET D, \A i \in D : i \in U <=> <<i, j>> \in R
      PROVE  Ahead(rows, c, j) = SumOf(f, U)
  <2>1. {i \in DOMAIN rows : ConsumedBefore(rows, i, j, c)} = U
    BY <1>2, <1>4, <1>6
  <2> QED
    BY <1>2, <2>1 DEF Ahead, SumOf
<1>7. \A T \in SUBSET D : IsFiniteSet(T) /\ SumOf(f, T) \in Nat
  <2>1. ASSUME NEW T \in SUBSET D PROVE IsFiniteSet(T) /\ SumOf(f, T) \in Nat
    <3>1. IsFiniteSet(T)
      BY <1>3, FS_Subset
    <3>2. \A x \in T : f[x] \in Nat
      BY <1>3
    <3> QED
      BY <3>1, <3>2, SumNat
  <2> QED
    BY <2>1
<1>8. ASSUME NEW j \in D, NEW U \in SUBSET D, \A i \in D : i \in U <=> <<i, j>> \in R
      PROVE  g[j] \in Nat /\ g[j] = IF SumOf(f, U) >= n THEN f[j] ELSE Rest(SumOf(f, U) + f[j], n)
  <2>1. PICK a \in Nat : a = Ahead(rows, c, j) /\ a = SumOf(f, U)
    BY <1>6, <1>7, <1>8
  <2>2. PICK m \in Nat : m = f[j] /\ m = rows[j].count
    BY <1>3
  <2>3. g[j] = IF a >= n THEN m ELSE Max({0, m - (n - a)})
    BY <1>2, <2>1, <2>2 DEF Left
  <2>4. PICK b \in Int : b = m - (n - a)
    OBVIOUS
  <2>5. Max({0, b}) = IF b > 0 THEN b ELSE 0
    BY MaxZero
  <2>6. g[j] = IF a >= n THEN m ELSE IF b > 0 THEN b ELSE 0
    BY <2>3, <2>4, <2>5
  <2>7. PICK v : v = IF a >= n THEN m ELSE IF b > 0 THEN b ELSE 0
    OBVIOUS
  <2>8. v \in Nat /\ v = IF a >= n THEN m ELSE Rest(a + m, n)
    BY <2>4, <2>7 DEF Rest
  <2> QED
    BY <2>1, <2>2, <2>6, <2>7, <2>8
<1>9. \A j \in D : g[j] \in Nat
  <2>1. ASSUME NEW j \in D PROVE g[j] \in Nat
    <3>1. PICK U \in SUBSET D : U = {i \in D : <<i, j>> \in R}
      OBVIOUS
    <3>2. \A i \in D : i \in U <=> <<i, j>> \in R
      BY <3>1
    <3> QED
      BY <1>8, <3>2
  <2> QED
    BY <2>1
<1>10. \A T \in SUBSET D : T # {} => \E m \in T : \A i \in T \ {m} : <<i, m>> \in R
  BY <1>3, <1>5, LastExists
<1> DEFINE Closed(T) == \A i \in D, j \in T : <<i, j>> \in R => i \in T
           Q(T) == Closed(T) => SumOf(g, T) = Rest(SumOf(f, T), n)
           P == {k \in Nat : \A T \in SUBSET D : Cardinality(T) = k => Q(T)}
<1>11. \A s \in SUBSET D : Cardinality(s) \in Nat /\ (Cardinality(s) = 0 <=> s = {})
  BY <1>7, FS_CardinalityType, FS_EmptySet
<1>12. 0 \in P
  <2>1. SumOf(f, {}) = 0 /\ SumOf(g, {}) = 0
    <3>1. \A x \in D : f[x] \in Int /\ g[x] \in Int
      BY <1>3, <1>9
    <3> QED
      BY <1>3, <3>1, SumRule
  <2>2. Q({})
    BY <2>1 DEF Rest
  <2> HIDE DEF Q
  <2> QED
    BY <1>11, <2>2
<1>13. ASSUME NEW k \in Nat, k \in P PROVE k + 1 \in P
  <2>1. ASSUME NEW T \in SUBSET D, Cardinality(T) = k + 1, Closed(T)
        PROVE  SumOf(g, T) = Rest(SumOf(f, T), n)
    <3>1. T # {}
      BY <1>11, <2>1
    <3>2. PICK m \in T : \A i \in T \ {m} : <<i, m>> \in R
      BY <1>10, <3>1
    <3>3. PICK U \in SUBSET D : U = T \ {m}
      OBVIOUS
    <3>4. Cardinality(U) = k
      <4>1. IsFiniteSet(T) /\ m \in T
        BY <1>7, <3>2
      <4>2. Cardinality(T \ {m}) = Cardinality(T) - 1
        BY <4>1, FS_RemoveElement
      <4> QED
        BY <2>1, <3>3, <4>2
    <3>5. Closed(U)
      <4>1. ASSUME NEW i \in D, NEW j \in U, <<i, j>> \in R PROVE i \in U
        <5>1. j \in T /\ j \in D /\ m \in D /\ <<j, m>> \in R
          BY <3>2, <3>3
        <5>2. i \in T
          BY <2>1, <4>1, <5>1
        <5>3. i # m
          BY <1>5, <4>1, <5>1
        <5> QED
          BY <3>3, <5>2, <5>3
      <4> QED
        BY <4>1
    <3>6. SumOf(g, U) = Rest(SumOf(f, U), n)
      <4>1. Q(U)
        <5> HIDE DEF Q
        <5> QED
          BY <1>13, <3>4
      <4> HIDE DEF Closed
      <4> QED
        BY <3>5, <4>1
    <3>7. \A i \in D : i \in U <=> <<i, m>> \in R
      <4>1. ASSUME NEW i \in D, i \in U PROVE <<i, m>> \in R
        BY <3>2, <3>3, <4>1
      <4>2. ASSUME NEW i \in D, <<i, m>> \in R PROVE i \in U
        <5>1. i \in T
          BY <2>1, <4>2
        <5>2. i # m
          BY <1>5, <4>2
        <5> QED
          BY <3>3, <5>1, <5>2
      <4> QED
        BY <4>1, <4>2
    <3>8. PICK a \in Nat, b \in Nat : a = SumOf(f, U) /\ b = f[m]
      BY <1>3, <1>7
    <3>9. g[m] = IF a >= n THEN b ELSE Rest(a + b, n)
      BY <1>8, <3>7, <3>8
    <3>10. SumOf(f, T) = b + a
      <4>1. IsFiniteSet(D) /\ \A x \in D : f[x] \in Int
        BY <1>3
      <4>2. SumOf(f, T) = f[m] + SumOf(f, T \ {m})
        BY <4>1, SumStep
      <4> QED
        BY <3>3, <3>8, <4>2
    <3>11. SumOf(g, T) = g[m] + SumOf(g, U)
      <4>1. IsFiniteSet(D) /\ \A x \in D : g[x] \in Int
        BY <1>3, <1>9
      <4>2. SumOf(g, T) = g[m] + SumOf(g, T \ {m})
        BY <4>1, SumStep
      <4> QED
        BY <3>3, <4>2
    <3> QED
      BY <3>6, <3>8, <3>9, <3>10, <3>11 DEF Rest
  <2>2. \A T \in SUBSET D : Cardinality(T) = k + 1 => Q(T)
    BY <2>1
  <2> HIDE DEF Q
  <2> QED
    BY <2>2
<1>14. Nat \subseteq P
  <2> HIDE DEF P
  <2> QED
    BY <1>12, <1>13, Induction
<1>15. SumOf(g, D) = Rest(Total(rows), n)
  <2>1. Closed(D) /\ D \in SUBSET D
    OBVIOUS
  <2>2. Q(D)
    <3> HIDE DEF Q
    <3> QED
      BY <1>11, <1>14, <2>1
  <2> QED
    BY <1>3, <2>1, <2>2
<1>16. ASSUME D # {} PROVE \E j \in D : Ahead(rows, c, j) = 0
  <2>1. PICK V : V = {ij \in D \X D : <<ij[2], ij[1]>> \in R}
    OBVIOUS
  <2>2. \A i, j \in D : <<i, j>> \in V <=> <<j, i>> \in R
    BY <2>1
  <2>3. /\ \A i, j \in D : i # j => <<i, j>> \in V \/ <<j, i>> \in V
        /\ \A i, j, k \in D : <<i, j>> \in V /\ <<j, k>> \in V => <<i, k>> \in V
    BY <1>5, <2>2
  <2>4. \A T \in SUBSET D : T # {} => \E m \in T : \A i \in T \ {m} : <<i, m>> \in V
    BY <1>3, <2>3, LastExists
  <2>5. D \in SUBSET D
    OBVIOUS
  <2>6. PICK m \in D : \A i \in D \ {m} : <<i, m>> \in V
    BY <1>16, <2>4, <2>5
  <2>7. PICK U \in SUBSET D : U = {}
    OBVIOUS
  <2>8. \A i \in D : i \in U <=> <<i, m>> \in R
    <3>1. ASSUME NEW i \in D, <<i, m>> \in R PROVE FALSE
      <4>1. i # m
        BY <1>5, <3>1
      <4>2. <<m, i>> \in R
        BY <2>2, <2>6, <4>1
      <4> QED
        BY <1>5, <3>1, <4>2
    <3> QED
      BY <2>7, <3>1
  <2>9. Ahead(rows, c, m) = SumOf(f, U)
    BY <1>6, <2>8
  <2>10. SumOf(f, {}) = 0
    <3>0. \A x \in D : f[x] \in Nat
      BY <1>3
    <3>1. \A x \in D : f[x] \in Int
      BY <3>0
    <3> QED
      BY <1>3, <3>1, SumRule
  <2> QED
    BY <2>7, <2>9, <2>10
<1> QED
  BY <1>2, <1>9, <1>15, <1>16

\* RemoveInventoryItemsLocked takes what it is asked to take, and the condition it answers is
\* that of a row.
LEMMA RemoveTotal ==
  ASSUME NEW rows \in Seq(Row), NEW n \in Nat \ {0}, NEW c, Total(rows) >= n
  PROVE  /\ RemoveItems(rows, n, c).rows \in Seq(Row)
         /\ Total(RemoveItems(rows, n, c).rows) = Total(rows) - n
         /\ RemoveItems(rows, n, c).cond \in Bucket
<1>1. rows \in Seq(AnyRow)
  BY RowIsAny
<1>2. PICK D : D = DOMAIN rows
  OBVIOUS
<1>3. /\ IsFiniteSet(D) /\ D = 1 .. Len(rows) /\ Len(rows) \in Nat
      /\ \A j \in D : rows[j] \in AnyRow /\ rows[j].cond \in Bucket
      /\ Total(rows) = SumOf(Counts(rows), D) /\ Total(rows) \in Nat
  BY <1>1, <1>2, TotalSum
<1>4. PICK g : g = [j \in D |-> Left(rows, n, c, j)]
  OBVIOUS
<1>5. \A j \in DOMAIN rows : g[j] = Left(rows, n, c, j)
  BY <1>2, <1>4
<1>6. /\ \A j \in D : g[j] \in Nat
      /\ SumOf(g, D) = Rest(Total(rows), n)
      /\ D # {} => \E j \in D : Ahead(rows, c, j) = 0
  BY <1>2, <1>5, LeftSum
<1>7. PICK after : after = [j \in D |-> [rows[j] EXCEPT !.count = Left(rows, n, c, j)]]
  OBVIOUS
<1>8. PICK first : first = CHOOSE j \in D : Ahead(rows, c, j) = 0
  OBVIOUS
<1>9. RemoveItems(rows, n, c) = [rows |-> Filled(after), cond |-> rows[first].cond]
  BY <1>2, <1>7, <1>8 DEF RemoveItems
<1>10. \A j \in D : after[j] \in AnyRow /\ after[j].count = g[j]
  <2>1. ASSUME NEW j \in D PROVE after[j] \in AnyRow /\ after[j].count = g[j]
    <3>1. PICK v \in Nat : v = g[j]
      BY <1>6
    <3>2. after[j] = [rows[j] EXCEPT !.count = v]
      BY <1>2, <1>5, <1>7, <3>1
    <3>3. rows[j] \in AnyRow
      BY <1>3
    <3> QED
      BY <3>1, <3>2, <3>3 DEF AnyRow
  <2> QED
    BY <2>1
<1>11. after \in Seq(AnyRow) /\ DOMAIN after = D
  <2>1. after \in [1 .. Len(rows) -> AnyRow]
    BY <1>3, <1>7, <1>10
  <2> QED
    BY <1>3, <2>1
<1>12. Total(after) = SumOf(g, D)
  <2>1. /\ Total(after) = SumOf(Counts(after), D)
        /\ \A j \in D : Counts(after)[j] = after[j].count
    BY <1>11, TotalSum
  <2>2. PICK f : f = Counts(after)
    OBVIOUS
  <2>3. \A j \in D : f[j] \in Int /\ g[j] \in Int /\ f[j] = g[j]
    BY <1>6, <1>10, <2>1, <2>2
  <2>4. SumOf(f, D) = SumOf(g, D)
    BY <1>3, <2>3, SumCompare
  <2> QED
    BY <2>1, <2>2, <2>4
<1>13. Filled(after) \in Seq(Row) /\ Total(Filled(after)) = Total(after)
  BY <1>11, FilledTotal
<1>14. first \in D
  <2>1. D # {}
    <3>1. ASSUME D = {} PROVE FALSE
      <4>1. PICK f : f = Counts(rows)
        OBVIOUS
      <4>2. \A x \in {} : f[x] \in Int
        OBVIOUS
      <4>3. IsFiniteSet({})
        BY <1>3, <3>1
      <4>4. SumOf(f, {}) = 0
        BY <4>2, <4>3, SumRule
      <4> QED
        BY <1>3, <3>1, <4>1, <4>4
    <3> QED
      BY <3>1
  <2> QED
    BY <1>6, <1>8, <2>1
<1>15. rows[first].cond \in Bucket
  BY <1>3, <1>14
<1>16. PICK u, b : u = Filled(after) /\ b = rows[first].cond
  OBVIOUS
<1>17. RemoveItems(rows, n, c).rows = u /\ RemoveItems(rows, n, c).cond = b
  BY <1>9, <1>16
<1> QED
  BY <1>3, <1>6, <1>12, <1>13, <1>15, <1>16, <1>17 DEF Rest
-----------------------------------------------------------------------------
(***************************************************************************)
(* What a change does to the three sums of Conservation.                   *)
(***************************************************************************)
Inventories == [Player -> [Section -> Seq(Row)]]

\* One entry of an inventory changes by d copies.
Moves(p, s, d) ==
  /\ inv' \in Inventories
  /\ Total(inv'[p][s]) = Total(inv[p][s]) + d
  /\ \A q \in Player, t \in Section : q # p \/ t # s => inv'[q][t] = inv[q][t]

\* Totals are numbers.
LEMMA TotalsNat ==
  ASSUME NEW i \in Inventories
  PROVE  \A q \in Player, t \in Section : i[q][t] \in Seq(Row) /\ Total(i[q][t]) \in Nat
<1>1. ASSUME NEW q \in Player, NEW t \in Section
      PROVE  i[q][t] \in Seq(Row) /\ Total(i[q][t]) \in Nat
  <2>1. PICK rows \in Seq(Row) : rows = i[q][t]
    BY DEF Inventories
  <2>2. rows \in Seq(AnyRow)
    BY RowIsAny
  <2>3. Total(rows) \in Nat
    BY <2>2, TotalSum
  <2> QED
    BY <2>1, <2>3
<1> QED
  BY <1>1

\* RemoveInventoryItemsLocked on an inventory.
LEMMA TakeMoves ==
  ASSUME inv \in Inventories, NEW p \in Player, NEW s \in Section, NEW n \in Copies, NEW c,
         Total(inv[p][s]) >= n, Take(p, s, n, c)
  PROVE  Moves(p, s, -n) /\ TakenCondition(p, s, n, c) \in Bucket
<1>1. n \in Nat \ {0}
  BY LimitAssumption DEF Copies
<1>2. PICK rows \in Seq(Row) : rows = inv[p][s]
  BY TotalsNat
<1>3. /\ RemoveItems(rows, n, c).rows \in Seq(Row)
      /\ Total(RemoveItems(rows, n, c).rows) = Total(rows) - n
      /\ RemoveItems(rows, n, c).cond \in Bucket
  BY <1>1, <1>2, RemoveTotal
<1>4. PICK new \in Seq(Row) : new = RemoveItems(rows, n, c).rows
  BY <1>3
<1>5. PICK mine : mine = [inv[p] EXCEPT ![s] = new] /\ inv' = [inv EXCEPT ![p] = mine]
  BY <1>2, <1>4 DEF Take
<1>6. /\ inv' \in Inventories /\ inv'[p][s] = new
      /\ \A q \in Player, t \in Section : q # p \/ t # s => inv'[q][t] = inv[q][t]
  <2>1. inv[p] \in [Section -> Seq(Row)]
    BY DEF Inventories
  <2>2. /\ mine \in [Section -> Seq(Row)] /\ mine[s] = new
        /\ \A t \in Section \ {s} : mine[t] = inv[p][t]
    BY <1>5, <2>1
  <2>3. inv' \in Inventories /\ inv'[p] = mine /\ \A q \in Player \ {p} : inv'[q] = inv[q]
    BY <1>5, <2>2 DEF Inventories
  <2> QED
    BY <2>2, <2>3
<1>7. Total(inv[p][s]) \in Nat
  BY TotalsNat
<1> QED
  BY <1>1, <1>2, <1>3, <1>4, <1>6, <1>7 DEF Moves, TakenCondition

\* CreditInventoryLocked on an inventory.
LEMMA GiveMoves ==
  ASSUME inv \in Inventories, NEW p \in Player, NEW s \in Section, NEW n \in Nat \ {0},
         NEW c \in Bucket, Give(p, s, n, c)
  PROVE  Moves(p, s, n)
<1>1. PICK rows \in Seq(Row) : rows = inv[p][s]
  BY TotalsNat
<1>2. /\ CreditItems(rows, n, c) \in Seq(Row)
      /\ Total(CreditItems(rows, n, c)) = Total(rows) + n
  BY CreditTotal
<1>3. PICK new \in Seq(Row) : new = CreditItems(rows, n, c)
  BY <1>2
<1>4. PICK mine : mine = [inv[p] EXCEPT ![s] = new] /\ inv' = [inv EXCEPT ![p] = mine]
  BY <1>1, <1>3 DEF Give
<1>5. /\ inv' \in Inventories /\ inv'[p][s] = new
      /\ \A q \in Player, t \in Section : q # p \/ t # s => inv'[q][t] = inv[q][t]
  <2>1. inv[p] \in [Section -> Seq(Row)]
    BY DEF Inventories
  <2>2. /\ mine \in [Section -> Seq(Row)] /\ mine[s] = new
        /\ \A t \in Section \ {s} : mine[t] = inv[p][t]
    BY <1>4, <2>1
  <2>3. inv' \in Inventories /\ inv'[p] = mine /\ \A q \in Player \ {p} : inv'[q] = inv[q]
    BY <1>4, <2>2 DEF Inventories
  <2> QED
    BY <2>2, <2>3
<1> QED
  BY <1>1, <1>2, <1>3, <1>5 DEF Moves

\* The inventory of one player changes.
LEMMA CarriedByOne ==
  ASSUME inv \in Inventories, inv' \in Inventories, NEW p \in Player, NEW t \in Section,
         \A q \in Player \ {p} : inv'[q][t] = inv[q][t]
  PROVE  /\ Carried(t) \in Int /\ Carried(t)' \in Int
         /\ Carried(t)' = Carried(t) - Total(inv[p][t]) + Total(inv'[p][t])
<1>1. PICK f, e : /\ f = [q \in Player |-> Total(inv[q][t])]
                  /\ e = [q \in Player |-> Total(inv'[q][t])]
  OBVIOUS
<1>2. \A q \in Player : e[q] \in Int /\ f[q] \in Int
  BY <1>1, TotalsNat
<1>3. \A q \in Player \ {p} : e[q] = f[q]
  BY <1>1
<1>4. IsFiniteSet(Player)
  BY FiniteAssumption
<1>5. /\ SumOf(e, Player) \in Int /\ SumOf(f, Player) \in Int
      /\ SumOf(e, Player) = SumOf(f, Player) - f[p] + e[p]
  BY <1>2, <1>3, <1>4, SumChange
<1>6. Carried(t) = SumOf(f, Player)
  BY <1>1 DEF Carried, SumFunction, SumOf
<1>7. Carried(t)' = SumOf(e, Player)
  BY <1>1 DEF Carried, SumFunction, SumOf
<1> QED
  BY <1>1, <1>5, <1>6, <1>7

\* What is carried when one entry changes.
LEMMA CarriedMoves ==
  ASSUME inv \in Inventories, NEW p \in Player, NEW s \in Section, NEW d \in Int, Moves(p, s, d)
  PROVE  \A t \in Section : /\ Carried(t) \in Int
                            /\ Carried(t)' = Carried(t) + (IF t = s THEN d ELSE 0)
<1> SUFFICES ASSUME NEW t \in Section
             PROVE  Carried(t) \in Int /\ Carried(t)' = Carried(t) + (IF t = s THEN d ELSE 0)
  OBVIOUS
<1>1. inv' \in Inventories /\ \A q \in Player \ {p} : inv'[q][t] = inv[q][t]
  BY DEF Moves
<1>2. /\ Carried(t) \in Int /\ Carried(t)' \in Int
      /\ Carried(t)' = Carried(t) - Total(inv[p][t]) + Total(inv'[p][t])
  BY <1>1, CarriedByOne
<1>3. Total(inv[p][t]) \in Nat
  BY TotalsNat
<1>4. CASE t = s
  BY <1>2, <1>3, <1>4 DEF Moves
<1>5. CASE t # s
  <2>1. inv'[p][t] = inv[p][t]
    BY <1>5 DEF Moves
  <2> QED
    BY <1>2, <1>3, <1>5, <2>1
<1> QED
  BY <1>4, <1>5

\* A part of the world's items and the rest.
Parts(W, E, R) ==
  IsFiniteSet(W) /\ (\A w \in W : w.count \in Nat) /\ E \in SUBSET W /\ R = W \ E

\* Their copies add up.
LEMMA CopiesSplit ==
  ASSUME NEW W, NEW E, NEW R, Parts(W, E, R), NEW t
  PROVE  /\ CopiesIn(W, t) \in Int /\ CopiesIn(E, t) \in Int /\ CopiesIn(R, t) \in Int
         /\ CopiesIn(W, t) = CopiesIn(E, t) + CopiesIn(R, t)
<1>0. IsFiniteSet(W) /\ (\A w \in W : w.count \in Nat) /\ E \in SUBSET W /\ R = W \ E
  BY DEF Parts
<1>1. PICK g : g = [w \in W |-> w.count]
  OBVIOUS
<1>2. PICK H, HE : H = {v \in W : v.section = t} /\ HE = {v \in E : v.section = t}
  OBVIOUS
<1>3. IsFiniteSet(H) /\ H \in SUBSET W /\ HE \in SUBSET H /\ \A w \in H : g[w] \in Int
  <2>1. H \in SUBSET W
    BY <1>2
  <2>2. IsFiniteSet(H)
    BY <1>0, <2>1, FS_Subset
  <2> QED
    BY <1>0, <1>1, <1>2, <2>1, <2>2
<1>4. ASSUME NEW F \in SUBSET W PROVE CopiesIn(F, t) = SumOf(g, {v \in F : v.section = t})
  <2>1. PICK K : K = {v \in F : v.section = t}
    OBVIOUS
  <2>2. PICK h : h = [w \in K |-> w.count]
    OBVIOUS
  <2>3. CopiesIn(F, t) = SumOf(h, K)
    BY <2>1, <2>2 DEF CopiesIn, SumFunction, SumOf
  <2>4. K \in SUBSET W
    BY <2>1
  <2>5. IsFiniteSet(K)
    BY <1>0, <2>4, FS_Subset
  <2>6. \A x \in K : h[x] \in Int /\ g[x] \in Int /\ h[x] = g[x]
    BY <1>0, <1>1, <2>2, <2>4
  <2>7. SumOf(h, K) = SumOf(g, K)
    BY <2>5, <2>6, SumCompare
  <2> QED
    BY <2>1, <2>3, <2>7
<1>5. /\ SumOf(g, HE) \in Int /\ SumOf(g, H \ HE) \in Int
      /\ SumOf(g, H) = SumOf(g, HE) + SumOf(g, H \ HE)
  BY <1>3, SumSplit
<1>6. {v \in R : v.section = t} = H \ HE /\ R \in SUBSET W /\ W \in SUBSET W
  BY <1>0, <1>2
<1>7. CopiesIn(W, t) = SumOf(g, H) /\ CopiesIn(E, t) = SumOf(g, HE)
  BY <1>0, <1>2, <1>4, <1>6
<1>8. CopiesIn(R, t) = SumOf(g, H \ HE)
  BY <1>4, <1>6
<1> QED
  BY <1>5, <1>7, <1>8

\* One item.
LEMMA CopiesOne ==
  ASSUME NEW w, w.count \in Nat, NEW t
  PROVE  CopiesIn({w}, t) = IF w.section = t THEN w.count ELSE 0
<1>1. PICK H, g : H = {v \in {w} : v.section = t} /\ g = [v \in H |-> v.count]
  OBVIOUS
<1>2. CopiesIn({w}, t) = SumOf(g, H)
  BY <1>1 DEF CopiesIn, SumFunction, SumOf
<1>3. IsFiniteSet(H) /\ \A v \in H : g[v] \in Int
  <2>1. IsFiniteSet({w}) /\ H \subseteq {w}
    BY <1>1, FS_Singleton
  <2>2. IsFiniteSet(H)
    BY <2>1, FS_Subset
  <2> QED
    BY <1>1, <2>2
<1>4. SumOf(g, {}) = 0
  BY <1>3, SumRule
<1>5. CASE w.section = t
  <2>1. H = {w} /\ w \in H /\ H \ {w} = {} /\ H \in SUBSET H
    BY <1>1, <1>5
  <2>2. SumOf(g, H) = g[w] + SumOf(g, H \ {w})
    BY <1>3, <2>1, SumStep
  <2>3. SumOf(g, H) = g[w] + 0
    BY <1>4, <2>1, <2>2
  <2>4. g[w] = w.count
    BY <1>1, <2>1
  <2> QED
    BY <1>2, <1>5, <2>3, <2>4
<1>6. CASE w.section # t
  <2>1. H = {}
    BY <1>1, <1>6
  <2> QED
    BY <1>2, <1>4, <1>6, <2>1
<1> QED
  BY <1>5, <1>6

\* The contents of a stash with one entry changed by d copies.
OneEntry(e, f, s, c, d) ==
  /\ e \in [Section \X Bucket -> Nat] /\ f \in [Section \X Bucket -> Nat]
  /\ e[<<s, c>>] = f[<<s, c>>] + d
  /\ \A x \in Section \X Bucket : x # <<s, c>> => e[x] = f[x]

\* d copies of section s.
Shift(t, s, d) == IF t = s THEN d ELSE 0

\* Its copies change by as many.
LEMMA ContentsChange ==
  ASSUME NEW e, NEW f, NEW s \in Section, NEW c \in Bucket, NEW d \in Int,
         OneEntry(e, f, s, c, d), NEW t \in Section
  PROVE  /\ StoredCopies(f, t) \in Int
         /\ StoredCopies(e, t) = StoredCopies(f, t) + Shift(t, s, d)
<1>0. /\ e \in [Section \X Bucket -> Nat] /\ f \in [Section \X Bucket -> Nat]
      /\ e[<<s, c>>] = f[<<s, c>>] + d
      /\ \A x \in Section \X Bucket : x # <<s, c>> => e[x] = f[x]
  BY DEF OneEntry
<1>1. PICK g, h : g = [b \in Bucket |-> e[<<t, b>>]] /\ h = [b \in Bucket |-> f[<<t, b>>]]
  OBVIOUS
<1>2. \A b \in Bucket : <<t, b>> \in Section \X Bucket
  OBVIOUS
<1>3. \A b \in Bucket : g[b] = e[<<t, b>>] /\ h[b] = f[<<t, b>>] /\ g[b] \in Int /\ h[b] \in Int
  BY <1>0, <1>1, <1>2
<1>4. IsFiniteSet(Bucket)
  BY FiniteAssumption
<1>5. StoredCopies(e, t) = SumOf(g, Bucket) /\ StoredCopies(f, t) = SumOf(h, Bucket)
  BY <1>1 DEF StoredCopies, SumFunction, SumOf
<1>6. CASE t = s
  <2>1. \A b \in Bucket \ {c} : g[b] = h[b]
    <3>1. ASSUME NEW b \in Bucket \ {c} PROVE g[b] = h[b]
      <4>1. <<t, b>> # <<s, c>>
        OBVIOUS
      <4> QED
        BY <1>0, <1>2, <1>3, <4>1
    <3> QED
      BY <3>1
  <2>2. /\ SumOf(g, Bucket) \in Int /\ SumOf(h, Bucket) \in Int
        /\ SumOf(g, Bucket) = SumOf(h, Bucket) - h[c] + g[c]
    <3>1. \A b \in Bucket : g[b] \in Int /\ h[b] \in Int
      BY <1>3
    <3> QED
      BY <1>4, <2>1, <3>1, SumChange
  <2>3. g[c] = h[c] + d /\ h[c] \in Int
    BY <1>0, <1>3, <1>6
  <2> QED
    BY <1>5, <1>6, <2>2, <2>3 DEF Shift
<1>7. CASE t # s
  <2>1. \A b \in Bucket : g[b] \in Int /\ h[b] \in Int /\ g[b] = h[b]
    <3>1. ASSUME NEW b \in Bucket PROVE g[b] = h[b]
      <4>1. <<t, b>> # <<s, c>>
        BY <1>7
      <4> QED
        BY <1>0, <1>2, <1>3, <4>1
    <3> QED
      BY <1>3, <3>1
  <2>2. SumOf(g, Bucket) = SumOf(h, Bucket)
    BY <1>4, <2>1, SumCompare
  <2>3. SumOf(h, Bucket) \in Int
    <3>1. Bucket \in SUBSET Bucket /\ \A b \in Bucket : h[b] \in Int
      BY <1>3
    <3> QED
      BY <1>4, <3>1, SumRule
  <2> QED
    BY <1>5, <1>7, <2>2, <2>3 DEF Shift
<1> QED
  BY <1>6, <1>7

\* The contents of a stash are numbers, and a new one is empty.
LEMMA ContentsNat ==
  ASSUME NEW f \in [Section \X Bucket -> Nat], NEW t \in Section
  PROVE  StoredCopies(f, t) \in Nat /\ (f = Empty => StoredCopies(f, t) = 0)
<1>1. PICK h : h = [b \in Bucket |-> f[<<t, b>>]]
  OBVIOUS
<1>2. \A b \in Bucket : <<t, b>> \in Section \X Bucket
  OBVIOUS
<1>3. \A b \in Bucket : h[b] = f[<<t, b>>] /\ h[b] \in Nat
  BY <1>1, <1>2
<1>4. StoredCopies(f, t) = SumOf(h, Bucket) /\ IsFiniteSet(Bucket)
  BY <1>1, FiniteAssumption DEF StoredCopies, SumFunction, SumOf
<1>5. SumOf(h, Bucket) \in Nat /\ ((\A b \in Bucket : h[b] = 0) => SumOf(h, Bucket) = 0)
  BY <1>3, <1>4, SumNat
<1>6. ASSUME f = Empty PROVE \A b \in Bucket : h[b] = 0
  BY <1>2, <1>3, <1>6 DEF Empty
<1> QED
  BY <1>4, <1>5, <1>6

\* The copies in the stashes, as a sum over their ids.
LEMMA StashedSum ==
  ASSUME NEW ss \in Seq(Stash), NEW t \in Section, NEW f,
         f = [n \in DOMAIN ss |-> StoredCopies(ss[n].items, t)]
  PROVE  /\ IsFiniteSet(DOMAIN ss) /\ DOMAIN ss = 1 .. Len(ss) /\ Len(ss) \in Nat
         /\ \A n \in DOMAIN ss : f[n] \in Nat
         /\ SumFunction(f) = SumOf(f, DOMAIN ss)
<1>1. DOMAIN ss = 1 .. Len(ss) /\ Len(ss) \in Nat
  OBVIOUS
<1>2. IsFiniteSet(DOMAIN ss)
  <2>1. 1 \in Int /\ Len(ss) \in Int
    BY <1>1
  <2>2. IsFiniteSet(1 .. Len(ss))
    BY <2>1, FS_Interval
  <2> QED
    BY <1>1, <2>2
<1>3. ASSUME NEW n \in DOMAIN ss PROVE f[n] \in Nat
  <2>1. ss[n] \in Stash
    OBVIOUS
  <2>2. ss[n].items \in [Section \X Bucket -> Nat]
    BY <2>1 DEF Stash
  <2>3. StoredCopies(ss[n].items, t) \in Nat
    BY <2>2, ContentsNat
  <2> QED
    BY <2>3
<1>4. SumFunction(f) = SumOf(f, DOMAIN ss)
  <2>1. DOMAIN f = DOMAIN ss
    OBVIOUS
  <2> QED
    BY <2>1 DEF SumFunction, SumOf
<1> QED
  BY <1>1, <1>2, <1>3, <1>4

\* What is stashed when the contents of one stash change ...
LEMMA StashedChange ==
  ASSUME stashes \in Seq(Stash), stashes' \in Seq(Stash), DOMAIN stashes' = DOMAIN stashes,
         NEW k \in DOMAIN stashes, \A n \in DOMAIN stashes \ {k} : stashes'[n] = stashes[n],
         NEW t \in Section
  PROVE  /\ Stashed(t) \in Int
         /\ Stashed(t)' = Stashed(t) - StoredCopies(stashes[k].items, t)
                                     + StoredCopies(stashes'[k].items, t)
<1>1. PICK f, e, D : /\ f = [n \in DOMAIN stashes |-> StoredCopies(stashes[n].items, t)]
                     /\ e = [n \in DOMAIN stashes' |-> StoredCopies(stashes'[n].items, t)]
                     /\ D = DOMAIN stashes
  OBVIOUS
<1>2. /\ IsFiniteSet(DOMAIN stashes) /\ \A n \in DOMAIN stashes : f[n] \in Nat
      /\ SumFunction(f) = SumOf(f, DOMAIN stashes)
  BY <1>1, StashedSum
<1>3. /\ \A n \in DOMAIN stashes' : e[n] \in Nat
      /\ SumFunction(e) = SumOf(e, DOMAIN stashes')
  BY <1>1, StashedSum
<1>4. Stashed(t) = SumFunction(f) /\ Stashed(t)' = SumFunction(e)
  BY <1>1 DEF Stashed
<1>5. \A n \in D : e[n] \in Int /\ f[n] \in Int
  BY <1>1, <1>2, <1>3
<1>6. \A n \in D \ {k} : e[n] = f[n]
  BY <1>1
<1>7. /\ SumOf(e, D) \in Int /\ SumOf(f, D) \in Int
      /\ SumOf(e, D) = SumOf(f, D) - f[k] + e[k]
  <2>1. IsFiniteSet(D) /\ k \in D
    BY <1>1, <1>2
  <2> QED
    BY <1>5, <1>6, <2>1, SumChange
<1>8. f[k] = StoredCopies(stashes[k].items, t) /\ e[k] = StoredCopies(stashes'[k].items, t)
  BY <1>1
<1> QED
  BY <1>1, <1>2, <1>3, <1>4, <1>7, <1>8

\* ... and when an empty one is added.
LEMMA StashedAdded ==
  ASSUME stashes \in Seq(Stash), NEW r \in Stash, r.items = Empty, stashes' = Append(stashes, r),
         NEW t \in Section
  PROVE  Stashed(t) \in Int /\ Stashed(t)' = Stashed(t)
<1>0. PICK ss \in Seq(Stash) : ss = Append(stashes, r)
  OBVIOUS
<1>1. PICK f, e, D : /\ f = [n \in DOMAIN stashes |-> StoredCopies(stashes[n].items, t)]
                     /\ e = [n \in DOMAIN ss |-> StoredCopies(ss[n].items, t)]
                     /\ D = DOMAIN stashes
  OBVIOUS
<1>2. /\ IsFiniteSet(DOMAIN stashes) /\ \A n \in DOMAIN stashes : f[n] \in Nat
      /\ SumFunction(f) = SumOf(f, DOMAIN stashes)
      /\ DOMAIN stashes = 1 .. Len(stashes) /\ Len(stashes) \in Nat
  BY <1>1, StashedSum
<1>3. /\ \A n \in DOMAIN ss : e[n] \in Nat
      /\ SumFunction(e) = SumOf(e, DOMAIN ss)
  BY <1>1, StashedSum
<1>4. Stashed(t) = SumFunction(f) /\ Stashed(t)' = SumFunction(e)
  BY <1>0, <1>1 DEF Stashed
<1>5. PICK a : a = Len(stashes) + 1
  OBVIOUS
<1>6. /\ DOMAIN ss = D \cup {a} /\ a \notin D /\ ss[a] = r
      /\ \A n \in D : ss[n] = stashes[n]
  BY <1>0, <1>1, <1>2, <1>5
<1>7. \A n \in D : f[n] \in Int /\ e[n] = f[n]
  BY <1>1, <1>2, <1>6
<1>8. e[a] = 0 /\ e[a] \in Int
  <2>1. PICK items \in [Section \X Bucket -> Nat] : items = r.items /\ items = Empty
    BY DEF Stash
  <2>2. StoredCopies(items, t) = 0
    BY <2>1, ContentsNat
  <2> QED
    BY <1>1, <1>6, <2>1, <2>2
<1>9. SumOf(f, D) \in Int /\ SumOf(e, DOMAIN ss) = SumOf(f, D) + e[a]
  <2>1. IsFiniteSet(D) /\ a \notin D /\ e[a] \in Int
    BY <1>1, <1>2, <1>6, <1>8
  <2>2. PICK U : U = DOMAIN ss /\ U = D \cup {a}
    BY <1>6
  <2>3. SumOf(f, D) \in Int /\ SumOf(e, U) = SumOf(f, D) + e[a]
    BY <1>7, <2>1, <2>2, SumExtended
  <2> QED
    BY <2>2, <2>3
<1> QED
  BY <1>1, <1>2, <1>3, <1>4, <1>6, <1>8, <1>9
-----------------------------------------------------------------------------
(***************************************************************************)
(* Conservation, and what the players are told.                            *)
(***************************************************************************)
WorldItem(d) ==
  [id: 1 .. d, level: Level, section: Section, count: Nat \ {0}, cond: Bucket]

\* What the tables hold, and what was told.
Goods ==
  /\ inv \in Inventories
  /\ rubles \in [Player -> Nat]
  /\ world \subseteq WorldItem(dropped) /\ IsFiniteSet(world)
  /\ dropped \in 0 .. MaxItems
  /\ pending \subseteq Player
  /\ told \in [Player -> [Section -> Int]]
  /\ outside \in [Section -> Int]

\* A worker that has found a stash found one that exists, and stashes are never deleted.
StashNamed ==
  \A p \in Player : busy[p].pc \in {"deposit", "withdraw"} => busy[p].stash \in DOMAIN stashes

CInv == Goods /\ StashNamed /\ Conservation /\ ToldTruth

\* The items of the world have natural counts, and so have those that expire.
LEMMA WorldCounts ==
  ASSUME Goods
  PROVE  \A w \in world : /\ w.count \in Nat \ {0} /\ w.section \in Section /\ w.cond \in Bucket
                          /\ w.id \in 1 .. dropped
BY DEF Goods, WorldItem

\* The four summands are numbers.
LEMMA SumsInt ==
  ASSUME Goods, StashTypes, NEW t \in Section
  PROVE  Carried(t) \in Int /\ Lying(t) \in Int /\ Stashed(t) \in Int /\ outside[t] \in Int
<1>1. Carried(t) \in Int
  <2>1. PICK f : f = [q \in Player |-> Total(inv[q][t])]
    OBVIOUS
  <2>2. inv \in Inventories
    BY DEF Goods
  <2>3. \A q \in Player : f[q] \in Nat
    BY <2>1, <2>2, TotalsNat
  <2>4. IsFiniteSet(Player)
    BY FiniteAssumption
  <2>5. SumOf(f, Player) \in Nat
    BY <2>3, <2>4, SumNat
  <2>6. Carried(t) = SumOf(f, Player)
    BY <2>1 DEF Carried, SumFunction, SumOf
  <2> QED
    BY <2>5, <2>6
<1>2. Lying(t) \in Int
  <2>1. IsFiniteSet(world) /\ \A w \in world : w.count \in Nat
    BY WorldCounts DEF Goods
  <2>2. PICK E, R : E = {} /\ R = world \ E
    OBVIOUS
  <2>3. CopiesIn(world, t) \in Int
    <3>1. Parts(world, E, R)
      BY <2>1, <2>2 DEF Parts
    <3> QED
      BY <3>1, CopiesSplit
  <2> QED
    BY <2>3 DEF Lying
<1>3. Stashed(t) \in Int
  <2>1. stashes \in Seq(Stash)
    BY DEF StashTypes
  <2>2. PICK f, D : /\ f = [n \in DOMAIN stashes |-> StoredCopies(stashes[n].items, t)]
                    /\ D = DOMAIN stashes
    OBVIOUS
  <2>3. IsFiniteSet(D) /\ (\A n \in D : f[n] \in Nat) /\ SumFunction(f) = SumOf(f, D)
    BY <2>1, <2>2, StashedSum
  <2>4. SumOf(f, D) \in Nat
    BY <2>3, SumNat
  <2> QED
    BY <2>2, <2>3, <2>4 DEF Stashed
<1>4. outside[t] \in Int
  BY DEF Goods
<1> QED
  BY <1>1, <1>2, <1>3, <1>4

\* Stashes stay, and the worker of one player goes on.
LEMMA NamedKeeps ==
  ASSUME CInv, SInv, NEW p \in Player, NEW b, busy' = [busy EXCEPT ![p] = b],
         DOMAIN stashes \subseteq DOMAIN stashes',
         b.pc \in {"deposit", "withdraw"} => b.stash \in DOMAIN stashes'
  PROVE  StashNamed'
<1>1. DOMAIN busy' = Player /\ busy'[p] = b /\ \A q \in Player \ {p} : busy'[q] = busy[q]
  BY DEF SInv, ShownTypes
<1>2. ASSUME NEW q \in Player, busy'[q].pc \in {"deposit", "withdraw"}
      PROVE  busy'[q].stash \in DOMAIN stashes'
  <2>1. CASE q = p
    BY <1>1, <1>2, <2>1
  <2>2. CASE q # p
    BY <1>1, <1>2, <2>2 DEF CInv, StashNamed
  <2> QED
    BY <2>1, <2>2
<1> QED
  BY <1>2 DEF StashNamed

\* No worker goes on.
LEMMA NamedStays ==
  ASSUME CInv, busy' = busy, stashes' = stashes
  PROVE  StashNamed'
BY DEF CInv, StashNamed

\* What has become true for one player and stays true for the others.
LEMMA ToldKeeps ==
  ASSUME ToldTruth, NEW p \in Player,
         \A q \in Player \ {p} : /\ inv'[q] = inv[q] /\ told'[q] = told[q] /\ level'[q] = level[q]
                                 /\ (q \in pending' <=> q \in pending),
         level'[p] # Offline /\ p \notin pending' =>
           \A t \in Section : told'[p][t] = Total(inv'[p][t])
  PROVE  ToldTruth'
<1>1. ASSUME NEW q \in Player, NEW t \in Section, level'[q] # Offline, q \notin pending'
      PROVE  told'[q][t] = Total(inv'[q][t])
  <2>1. CASE q = p
    BY <1>1, <2>1
  <2>2. CASE q # p
    <3>1. level[q] # Offline /\ q \notin pending /\ inv'[q] = inv[q] /\ told'[q] = told[q]
      BY <1>1, <2>2
    <3>2. told[q][t] = Total(inv[q][t])
      BY <3>1 DEF ToldTruth, Online
    <3> QED
      BY <3>1, <3>2
  <2> QED
    BY <2>1, <2>2
<1> QED
  BY <1>1 DEF ToldTruth, Online

\* Steps that move no copies.
LEMMA StillKeeps ==
  ASSUME CInv, UNCHANGED <<inv, rubles, world, dropped, stashes, pending, told, outside>>,
         \A q \in Player : q \notin pending /\ level'[q] # Offline => level[q] # Offline,
         StashNamed'
  PROVE  CInv'
<1>1. Goods'
  BY DEF CInv, Goods
<1>2. Conservation'
  BY DEF CInv, Conservation, Carried, Lying, Stashed
<1>3. ToldTruth'
  BY DEF CInv, ToldTruth, Online
<1> QED
  BY <1>1, <1>2, <1>3 DEF CInv

\* sendInventorySync with nothing moved: told is what is held.
LEMMA SyncKeeps ==
  ASSUME CInv, StashTypes, NEW p \in Player, SendInventorySync(p, inv[p]),
         UNCHANGED <<inv, rubles, world, dropped, stashes, pending, outside>>,
         \A q \in Player \ {p} : level'[q] = level[q], StashNamed'
  PROVE  CInv'
<1>1. told \in [Player -> [Section -> Int]] /\ inv \in Inventories /\ ToldTruth
  BY DEF CInv, Goods
<1>2. PICK row : row = [s \in Section |-> Total(inv[p][s])]
  OBVIOUS
<1>3. row \in [Section -> Int]
  BY <1>1, <1>2, TotalsNat
<1>4. told' = [told EXCEPT ![p] = row]
  BY <1>2 DEF SendInventorySync
<1>5. /\ told' \in [Player -> [Section -> Int]] /\ told'[p] = row
      /\ \A q \in Player \ {p} : told'[q] = told[q]
  BY <1>1, <1>3, <1>4
<1>6. Goods'
  BY <1>5 DEF CInv, Goods
<1>7. Conservation'
  BY DEF CInv, Conservation, Carried, Lying, Stashed
<1>8. \A t \in Section : told'[p][t] = Total(inv'[p][t])
  BY <1>2, <1>5
<1>9. ToldTruth'
  BY <1>1, <1>5, <1>8, ToldKeeps
<1> QED
  BY <1>6, <1>7, <1>9 DEF CInv

\* The answer of a committed action says what has moved.
LEMMA TellKeeps ==
  ASSUME CInv, NEW p \in Player, NEW s \in Section, NEW d \in Int, Moves(p, s, d), Tell(p, s, d),
         UNCHANGED <<level, pending>>
  PROVE  told' \in [Player -> [Section -> Int]] /\ ToldTruth'
<1>1. told \in [Player -> [Section -> Int]] /\ inv \in Inventories /\ ToldTruth
  BY DEF CInv, Goods
<1>2. PICK v \in Int : v = told[p][s] + d
  BY <1>1
<1>3. PICK row : row = [told[p] EXCEPT ![s] = v]
  OBVIOUS
<1>4. row \in [Section -> Int] /\ row[s] = v /\ \A t \in Section \ {s} : row[t] = told[p][t]
  BY <1>1, <1>3
<1>5. told' = [told EXCEPT ![p] = row]
  BY <1>2, <1>3 DEF Tell
<1>6. /\ told' \in [Player -> [Section -> Int]] /\ told'[p] = row
      /\ \A q \in Player \ {p} : told'[q] = told[q]
  BY <1>1, <1>4, <1>5
<1>7. inv' \in Inventories /\ \A q \in Player \ {p}, t \in Section : inv'[q][t] = inv[q][t]
  BY DEF Moves
<1>8. ASSUME NEW q \in Player \ {p} PROVE inv'[q] = inv[q]
  <2>1. DOMAIN inv'[q] = Section /\ DOMAIN inv[q] = Section
    BY <1>1, <1>7 DEF Inventories
  <2>2. \A t \in Section : inv'[q][t] = inv[q][t]
    BY <1>7
  <2>3. inv'[q] \in [Section -> Seq(Row)] /\ inv[q] \in [Section -> Seq(Row)]
    BY <1>1, <1>7 DEF Inventories
  <2> QED
    BY <2>2, <2>3
<1>9. ASSUME level[p] # Offline, p \notin pending, NEW t \in Section
      PROVE  told'[p][t] = Total(inv'[p][t])
  <2>1. told[p][t] = Total(inv[p][t])
    BY <1>1, <1>9 DEF ToldTruth, Online
  <2>2. CASE t = s
    BY <1>2, <1>4, <1>6, <2>1, <2>2 DEF Moves
  <2>3. CASE t # s
    <3>1. inv'[p][t] = inv[p][t]
      BY <2>3 DEF Moves
    <3> QED
      BY <1>4, <1>6, <2>1, <2>3, <3>1
  <2> QED
    BY <2>2, <2>3
<1>10. ToldTruth'
  BY <1>1, <1>6, <1>8, <1>9, ToldKeeps
<1> QED
  BY <1>6, <1>10

\* Copies leave or come.
LEMMA GoneEffect ==
  ASSUME Goods, NEW s \in Section, NEW d \in Int, Gone(s, d)
  PROVE  /\ outside' \in [Section -> Int]
         /\ \A t \in Section : outside'[t] = outside[t] + (IF t = s THEN d ELSE 0)
<1>1. outside \in [Section -> Int]
  BY DEF Goods
<1>2. PICK v \in Int : v = outside[s] + d
  BY <1>1
<1>3. outside' = [outside EXCEPT ![s] = v]
  BY <1>2 DEF Gone
<1>4. /\ outside' \in [Section -> Int] /\ outside'[s] = v
      /\ \A t \in Section \ {s} : outside'[t] = outside[t]
  BY <1>1, <1>3
<1>5. ASSUME NEW t \in Section PROVE outside'[t] = outside[t] + (IF t = s THEN d ELSE 0)
  <2>1. outside[t] \in Int
    BY <1>1
  <2> QED
    BY <1>2, <1>4, <2>1
<1> QED
  BY <1>4, <1>5

\* Initially there is nothing anywhere.
LEMMA CInvInit == Init => CInv
<1> SUFFICES ASSUME Init PROVE CInv
  OBVIOUS
<1>1. PICK e : e = <<>>
  OBVIOUS
<1>2. e \in Seq(Row) /\ e \in Seq(AnyRow) /\ DOMAIN e = {}
  BY <1>1
<1>3. IsFiniteSet({})
  BY FS_EmptySet
<1>4. ASSUME NEW f PROVE SumOf(f, {}) = 0
  <2>1. \A x \in {} : f[x] \in Int
    OBVIOUS
  <2> QED
    BY <1>3, <2>1, SumRule
<1>5. Total(e) = 0
  <2>1. Total(e) = SumOf(Counts(e), {})
    BY <1>2, TotalSum
  <2> QED
    BY <1>4, <2>1
<1>6. inv = [p \in Player |-> [s \in Section |-> e]]
  BY <1>1 DEF Init
<1>7. \A p \in Player, s \in Section : inv[p][s] = e /\ told[p][s] = 0
  BY <1>6 DEF Init
<1>8. Goods
  <2>1. inv \in Inventories
    BY <1>2, <1>6 DEF Inventories
  <2>2. rubles \in [Player -> Nat] /\ dropped \in 0 .. MaxItems
    BY BoundAssumption DEF Init
  <2>3. world \subseteq WorldItem(dropped) /\ IsFiniteSet(world)
    BY <1>3 DEF Init
  <2>4. told \in [Player -> [Section -> Int]] /\ outside \in [Section -> Int]
    BY DEF Init
  <2> QED
    BY <2>1, <2>2, <2>3, <2>4 DEF Goods, Init
<1>9. StashNamed
  BY DEF StashNamed, Init, Idle
<1>10. Conservation
  <2> SUFFICES ASSUME NEW t \in Section PROVE Carried(t) + Lying(t) + Stashed(t) + outside[t] = 0
    BY DEF Conservation
  <2>1. Carried(t) = 0
    <3>1. PICK f : f = [q \in Player |-> Total(inv[q][t])]
      OBVIOUS
    <3>2. \A q \in Player : f[q] \in Nat /\ f[q] = 0
      BY <1>5, <1>7, <3>1
    <3>3. IsFiniteSet(Player)
      BY FiniteAssumption
    <3>4. SumOf(f, Player) = 0
      BY <3>2, <3>3, SumNat
    <3> QED
      BY <3>1, <3>4 DEF Carried, SumFunction, SumOf
  <2>2. Lying(t) = 0
    <3>1. PICK H : H = {v \in world : v.section = t}
      OBVIOUS
    <3>2. PICK f : f = [w \in H |-> w.count]
      OBVIOUS
    <3>3. Lying(t) = SumOf(f, H)
      BY <3>1, <3>2 DEF Lying, CopiesIn, SumFunction, SumOf
    <3>4. H = {}
      BY <3>1 DEF Init
    <3> QED
      BY <1>4, <3>3, <3>4
  <2>3. Stashed(t) = 0
    <3>1. PICK f : f = [n \in DOMAIN stashes |-> StoredCopies(stashes[n].items, t)]
      OBVIOUS
    <3>2. Stashed(t) = SumOf(f, DOMAIN stashes)
      BY <3>1 DEF Stashed, SumFunction, SumOf
    <3>3. DOMAIN stashes = {}
      BY DEF Init
    <3> QED
      BY <1>4, <3>2, <3>3
  <2>4. outside[t] = 0
    BY DEF Init
  <2> QED
    BY <2>1, <2>2, <2>3, <2>4
<1>11. ToldTruth
  BY <1>5, <1>7 DEF ToldTruth
<1> QED
  BY <1>8, <1>9, <1>10, <1>11 DEF CInv

\* The level of one player changes.
LEMMA OneLevel ==
  ASSUME StashTypes, NEW p \in Player, NEW l, level' = [level EXCEPT ![p] = l]
  PROVE  level'[p] = l /\ \A q \in Player \ {p} : level'[q] = level[q]
BY DEF StashTypes

\* Arrivals and departures.
LEMMA ComingKeeps ==
  ASSUME CInv, IInv, SInv, NEW p \in Player, NEW l,
         Join(p, l) \/ Travel(p, l) \/ JoinNew(p) \/ Leave(p)
  PROVE  CInv'
<1>1. StashTypes
  BY DEF IInv
<1>2. CASE Join(p, l) \/ Travel(p, l)
  <2>1. PICK b : b = [pc |-> "list"]
    OBVIOUS
  <2>2. /\ level' = [level EXCEPT ![p] = l] /\ busy' = [busy EXCEPT ![p] = b]
        /\ SendInventorySync(p, inv[p])
        /\ UNCHANGED <<inv, rubles, world, dropped, stashes, pending, outside>>
    BY <1>2, <2>1 DEF Join, Travel, Arrive, Continue
  <2>3. b.pc = "list"
    BY <2>1
  <2>4. StashNamed'
    BY <2>2, <2>3, NamedKeeps
  <2>5. \A q \in Player \ {p} : level'[q] = level[q]
    BY <1>1, <2>2, OneLevel
  <2> QED
    BY <1>1, <2>2, <2>4, <2>5, SyncKeeps
<1>3. CASE JoinNew(p)
  <2>1. /\ level' = [level EXCEPT ![p] = Spawn] /\ p \in pending
        /\ UNCHANGED <<inv, rubles, world, dropped, stashes, pending, busy, told, outside>>
    BY <1>3 DEF JoinNew
  <2>2. StashNamed'
    BY <2>1, NamedStays
  <2>3. \A q \in Player \ {p} : level'[q] = level[q]
    BY <1>1, <2>1, OneLevel
  <2>4. \A q \in Player : q \notin pending /\ level'[q] # Offline => level[q] # Offline
    BY <2>1, <2>3
  <2> QED
    BY <2>1, <2>2, <2>4, StillKeeps
<1>4. CASE Leave(p)
  <2>1. /\ level' = [level EXCEPT ![p] = Offline]
        /\ UNCHANGED <<inv, rubles, world, dropped, stashes, pending, busy, told, outside>>
    BY <1>4 DEF Leave
  <2>2. StashNamed'
    BY <2>1, NamedStays
  <2>3. level'[p] = Offline /\ \A q \in Player \ {p} : level'[q] = level[q]
    BY <1>1, <2>1, OneLevel
  <2>4. \A q \in Player : q \notin pending /\ level'[q] # Offline => level[q] # Offline
    BY <2>3
  <2> QED
    BY <2>1, <2>2, <2>4, StillKeeps
<1> QED
  BY <1>2, <1>3, <1>4

\* CreateCharacter: what the account had is gone, the loadout is given out.
LEMMA SelectKeeps ==
  ASSUME CInv, IInv, SInv, NEW p \in Player, CharacterSelect(p)
  PROVE  CInv'
<1>1. Goods /\ StashTypes /\ ToldTruth /\ Conservation
  BY DEF CInv, IInv
<1>2. inv \in Inventories /\ Kit \in [Section -> Seq(Row)]
  BY <1>1, KitAssumption DEF Goods
<1>3. inv' = [inv EXCEPT ![p] = Kit]
  BY DEF CharacterSelect
<1>4. inv' \in Inventories /\ inv'[p] = Kit /\ \A q \in Player \ {p} : inv'[q] = inv[q]
  BY <1>2, <1>3 DEF Inventories
<1>5. \A t \in Section : Total(inv[p][t]) \in Nat /\ Total(Kit[t]) \in Nat
  BY <1>2, <1>4, TotalsNat
<1>6. /\ outside' \in [Section -> Int]
      /\ \A t \in Section : outside'[t] = outside[t] + Total(inv[p][t]) - Total(Kit[t])
  <2>1. outside' = [t \in Section |-> outside[t] + Total(inv[p][t]) - Total(Kit[t])]
    BY DEF CharacterSelect
  <2>2. \A t \in Section : outside[t] \in Int
    BY <1>1 DEF Goods
  <2> QED
    BY <1>5, <2>1, <2>2
<1>7. Conservation'
  <2> SUFFICES ASSUME NEW t \in Section
               PROVE  Carried(t)' + Lying(t)' + Stashed(t)' + outside'[t] = 0
    BY DEF Conservation
  <2>1. Carried(t)' = Carried(t) - Total(inv[p][t]) + Total(Kit[t])
    <3>1. \A q \in Player \ {p} : inv'[q][t] = inv[q][t]
      BY <1>4
    <3>2. Carried(t)' = Carried(t) - Total(inv[p][t]) + Total(inv'[p][t])
      BY <1>2, <1>4, <3>1, CarriedByOne
    <3> QED
      BY <1>4, <3>2
  <2>2. Lying(t)' = Lying(t) /\ Stashed(t)' = Stashed(t)
    BY DEF CharacterSelect, Lying, Stashed
  <2>3. Carried(t) \in Int /\ Lying(t) \in Int /\ Stashed(t) \in Int /\ outside[t] \in Int
    BY <1>1, SumsInt
  <2>4. Carried(t) + Lying(t) + Stashed(t) + outside[t] = 0
    BY <1>1 DEF Conservation
  <2> QED
    BY <1>5, <1>6, <2>1, <2>2, <2>3, <2>4
<1>8. PICK row : row = [s \in Section |-> Total(Kit[s])]
  OBVIOUS
<1>9. /\ told' \in [Player -> [Section -> Int]] /\ told'[p] = row
      /\ \A q \in Player \ {p} : told'[q] = told[q]
  <2>1. told' = [told EXCEPT ![p] = row]
    BY <1>8 DEF CharacterSelect, SendInventorySync
  <2>2. row \in [Section -> Int]
    BY <1>5, <1>8
  <2>3. told \in [Player -> [Section -> Int]]
    BY <1>1 DEF Goods
  <2> QED
    BY <2>1, <2>2, <2>3
<1>10. pending' = pending \ {p} /\ level' = [level EXCEPT ![p] = Spawn]
  BY DEF CharacterSelect, Arrive
<1>11. ToldTruth'
  <2>1. \A t \in Section : told'[p][t] = Total(inv'[p][t])
    BY <1>4, <1>8, <1>9
  <2>2. \A q \in Player \ {p} : level'[q] = level[q]
    BY <1>1, <1>10, OneLevel
  <2>3. \A q \in Player \ {p} : q \in pending' <=> q \in pending
    BY <1>10
  <2> QED
    BY <1>1, <1>4, <1>9, <2>1, <2>2, <2>3, ToldKeeps
<1>12. rubles' \in [Player -> Nat]
  <2>1. PICK r \in Nat : r = IF StarterMoney > 0 THEN StarterMoney ELSE rubles[p]
    BY <1>1, BoundAssumption DEF Goods
  <2>2. rubles' = [rubles EXCEPT ![p] = r]
    BY <2>1 DEF CharacterSelect
  <2> QED
    BY <1>1, <2>2 DEF Goods
<1>13. StashNamed'
  <2>1. PICK b : b = [pc |-> "list"]
    OBVIOUS
  <2>2. b.pc = "list" /\ busy' = [busy EXCEPT ![p] = b] /\ stashes' = stashes
    BY <2>1 DEF CharacterSelect, Arrive, Continue
  <2> QED
    BY <2>2, NamedKeeps
<1>14. Goods'
  <2>1. world' = world /\ dropped' = dropped
    BY DEF CharacterSelect
  <2> QED
    BY <1>1, <1>4, <1>6, <1>9, <1>10, <1>12, <2>1 DEF Goods
<1> QED
  BY <1>7, <1>11, <1>13, <1>14 DEF CInv

\* A transaction of one player moves d copies, and the other places lose them.
LEMMA TransferKeeps ==
  ASSUME CInv, IInv, NEW p \in Player, NEW s \in Section, NEW d \in Int, Moves(p, s, d),
         Tell(p, s, d), UNCHANGED <<level, pending>>, rubles' \in [Player -> Nat],
         world' \subseteq WorldItem(dropped'), IsFiniteSet(world'), dropped' \in 0 .. MaxItems,
         outside' \in [Section -> Int], StashNamed',
         \A t \in Section : Lying(t)' + Stashed(t)' + outside'[t]
                              = Lying(t) + Stashed(t) + outside[t] - (IF t = s THEN d ELSE 0),
         \A t \in Section : Lying(t)' \in Int /\ Stashed(t)' \in Int
  PROVE  CInv'
<1>1. Goods /\ StashTypes /\ Conservation
  BY DEF CInv, IInv
<1>2. told' \in [Player -> [Section -> Int]] /\ ToldTruth'
  BY TellKeeps
<1>3. Goods'
  BY <1>1, <1>2 DEF Goods, Moves
<1>4. Conservation'
  <2> SUFFICES ASSUME NEW t \in Section
               PROVE  Carried(t)' + Lying(t)' + Stashed(t)' + outside'[t] = 0
    BY DEF Conservation
  <2>1. Carried(t) \in Int /\ Lying(t) \in Int /\ Stashed(t) \in Int /\ outside[t] \in Int
    BY <1>1, SumsInt
  <2>2. Carried(t) + Lying(t) + Stashed(t) + outside[t] = 0
    BY <1>1 DEF Conservation
  <2>3. Carried(t)' = Carried(t) + (IF t = s THEN d ELSE 0)
    BY <1>1, CarriedMoves DEF Goods
  <2>4. PICK x \in Int : x = IF t = s THEN d ELSE 0
    OBVIOUS
  <2>5. Lying(t)' + Stashed(t)' + outside'[t] = Lying(t) + Stashed(t) + outside[t] - x
    BY <2>4
  <2>6. Lying(t)' \in Int /\ Stashed(t)' \in Int /\ outside'[t] \in Int
    OBVIOUS
  <2> QED
    BY <2>1, <2>2, <2>3, <2>4, <2>5, <2>6
<1> QED
  BY <1>2, <1>3, <1>4 DEF CInv

\* A drop.
LEMMA DropConserves ==
  ASSUME CInv, IInv, SInv, NEW p \in Player, NEW s \in Section, NEW n \in Copies, NEW c,
         Drop(p, s, n, c)
  PROVE  CInv'
<1>1. Goods /\ StashTypes /\ n \in Nat \ {0}
  BY LimitAssumption DEF CInv, IInv, Copies
<1>2. inv \in Inventories /\ Total(inv[p][s]) >= n /\ Take(p, s, n, c)
  BY <1>1 DEF Goods, Drop
<1>3. PICK d \in Int : d = -n
  BY <1>1
<1>4. Moves(p, s, d) /\ TakenCondition(p, s, n, c) \in Bucket
  BY <1>2, <1>3, TakeMoves
<1>5. PICK cc \in Bucket, l \in Level, i \in Nat :
        cc = TakenCondition(p, s, n, c) /\ l = level[p] /\ i = dropped + 1
  <2>1. level[p] \in Level
    BY <1>1 DEF StashTypes, Drop, Ready, Online
  <2>2. dropped + 1 \in Nat
    BY <1>1, BoundAssumption DEF Goods
  <2> QED
    BY <1>4, <2>1, <2>2
<1>6. PICK w : w = [id |-> i, level |-> l, section |-> s, count |-> n, cond |-> cc]
  OBVIOUS
<1>7. w.section = s /\ w.count = n /\ w.id = i
  BY <1>6
<1>8. /\ world' = world \cup {w} /\ dropped' = i /\ i \in 1 .. MaxItems
      /\ Tell(p, s, d)
      /\ UNCHANGED <<rubles, stashes, level, pending, outside>>
  <2>1. world' = world \cup {w}
    BY <1>5, <1>6, Zenon DEF Drop
  <2>2. dropped' = i /\ i \in 1 .. MaxItems
    BY <1>1, <1>5, BoundAssumption DEF Drop, Goods
  <2>3. Tell(p, s, d) /\ UNCHANGED <<rubles, stashes, level, pending, outside>>
    BY <1>3 DEF Drop
  <2> QED
    BY <2>1, <2>2, <2>3
<1>9. w \in WorldItem(i) /\ world \subseteq WorldItem(i)
  <2>1. w \in WorldItem(i)
    BY <1>1, <1>6, <1>8 DEF WorldItem
  <2>2. 1 .. dropped \subseteq 1 .. i
    BY <1>1, <1>5 DEF Goods
  <2>3. WorldItem(dropped) \subseteq WorldItem(i)
    BY <2>2 DEF WorldItem
  <2> QED
    BY <1>1, <2>1, <2>3 DEF Goods
<1>10. w \notin world
  BY <1>1, <1>5, <1>7, WorldCounts DEF Goods
<1>11. IsFiniteSet(world')
  BY <1>1, <1>8, FS_AddElement DEF Goods
<1>12. ASSUME NEW t \in Section
       PROVE  Lying(t)' \in Int /\ Lying(t)' = Lying(t) - (IF t = s THEN d ELSE 0)
  <2>1. PICK W : W = world'
    OBVIOUS
  <2>2. \A v \in W : v.count \in Nat
    BY <1>1, <1>7, <1>8, <2>1, WorldCounts
  <2>3. PICK E \in SUBSET W : E = {w}
    BY <1>8, <2>1
  <2>4. PICK R : R = world /\ R = W \ E
    BY <1>8, <1>10, <2>1, <2>3
  <2>5. /\ CopiesIn(W, t) \in Int /\ CopiesIn(E, t) \in Int /\ CopiesIn(R, t) \in Int
        /\ CopiesIn(W, t) = CopiesIn(E, t) + CopiesIn(R, t)
    <3>1. IsFiniteSet(W)
      BY <1>11, <2>1
    <3>2. Parts(W, E, R)
      BY <2>2, <2>4, <3>1 DEF Parts
    <3> QED
      BY <3>2, CopiesSplit
  <2>6. CopiesIn(E, t) = IF w.section = t THEN w.count ELSE 0
    <3>1. w.count \in Nat
      BY <1>1, <1>7
    <3> QED
      BY <2>3, <3>1, CopiesOne
  <2>7. Lying(t)' = CopiesIn(W, t) /\ Lying(t) = CopiesIn(R, t)
    BY <2>1, <2>4 DEF Lying
  <2> QED
    BY <1>1, <1>3, <1>7, <2>5, <2>6, <2>7
<1>13. ASSUME NEW t \in Section
       PROVE  /\ Lying(t)' \in Int /\ Stashed(t)' \in Int
              /\ Lying(t)' + Stashed(t)' + outside'[t]
                   = Lying(t) + Stashed(t) + outside[t] - (IF t = s THEN d ELSE 0)
  <2>1. Stashed(t)' = Stashed(t) /\ outside'[t] = outside[t]
    BY <1>8 DEF Stashed
  <2>2. Lying(t) \in Int /\ Stashed(t) \in Int /\ outside[t] \in Int
    BY <1>1, SumsInt
  <2> QED
    BY <1>12, <2>1, <2>2
<1>14. StashNamed'
  <2>1. PICK yes \in BOOLEAN : yes = TRUE
    BY Zenon
  <2>2. PICK b : b = Broadcast(p, w, yes)
    OBVIOUS
  <2>3. busy' = [busy EXCEPT ![p] = b]
    BY <1>5, <1>6, <2>1, <2>2, Zenon DEF Drop, Continue
  <2>4. b.pc \in {"idle", "tell"}
    BY <2>2, BroadcastRecord
  <2>5. DOMAIN stashes \subseteq DOMAIN stashes'
    BY <1>8
  <2>6. b.pc \in {"deposit", "withdraw"} => b.stash \in DOMAIN stashes'
    BY <2>4
  <2> QED
    BY <2>3, <2>5, <2>6, NamedKeeps
<1>15. rubles' \in [Player -> Nat] /\ outside' \in [Section -> Int] /\ dropped' \in 0 .. MaxItems
  BY <1>1, <1>8 DEF Goods
<1>16. world' \subseteq WorldItem(dropped')
  BY <1>8, <1>9
<1>17. UNCHANGED <<level, pending>>
  BY <1>8
<1> QED
  BY <1>4, <1>8, <1>11, <1>13, <1>14, <1>15, <1>16, <1>17, TransferKeeps

\* Copies that the player uses up or sells.
LEMMA SpendConserves ==
  ASSUME CInv, IInv, NEW p \in Player, NEW s \in Section, NEW n \in Copies, NEW c,
         Total(inv[p][s]) >= n, Take(p, s, n, c), NEW d \in Int, d = -n, Gone(s, n), Tell(p, s, d),
         rubles' \in [Player -> Nat], UNCHANGED <<world, dropped, stashes, level, pending, busy>>
  PROVE  CInv'
<1>1. Goods /\ StashTypes /\ n \in Int
  BY LimitAssumption DEF CInv, IInv, Copies
<1>2. Moves(p, s, d)
  BY <1>1, TakeMoves DEF Goods
<1>3. /\ outside' \in [Section -> Int]
      /\ \A t \in Section : outside'[t] = outside[t] + (IF t = s THEN n ELSE 0)
  BY <1>1, GoneEffect
<1>4. ASSUME NEW t \in Section
      PROVE  /\ Lying(t)' \in Int /\ Stashed(t)' \in Int
             /\ Lying(t)' + Stashed(t)' + outside'[t]
                   = Lying(t) + Stashed(t) + outside[t] - (IF t = s THEN d ELSE 0)
  <2>1. Stashed(t)' = Stashed(t) /\ Lying(t)' = Lying(t)
    BY DEF Stashed, Lying
  <2>2. Lying(t) \in Int /\ Stashed(t) \in Int /\ outside[t] \in Int
    BY <1>1, SumsInt
  <2> QED
    BY <1>1, <1>3, <2>1, <2>2
<1>5. StashNamed'
  BY NamedStays
<1>6. world' \subseteq WorldItem(dropped') /\ IsFiniteSet(world') /\ dropped' \in 0 .. MaxItems
  BY <1>1 DEF Goods
<1>7. UNCHANGED <<level, pending>>
  OBVIOUS
<1> QED
  BY <1>2, <1>3, <1>4, <1>5, <1>6, <1>7, TransferKeeps

\* The price that is asked for, cut to what a trade may move.
LEMMA CappedNat ==
  ASSUME NEW price \in Price
  PROVE  Capped(price) \in Nat
<1>1. PICK S : S = {price, MaxMoneyDelta}
  OBVIOUS
<1>2. S # {} /\ \A x \in S : x \in Nat
  BY <1>1, PriceAssumption
<1>3. \E x \in S : \A y \in S : x <= y
  BY <1>2, LeastNat
<1>4. Min(S) \in S
  BY <1>3 DEF Min
<1> QED
  BY <1>1, <1>2, <1>4 DEF Capped

\* A use ...
LEMMA ConsumeConserves ==
  ASSUME CInv, IInv, NEW p \in Player, NEW s \in Section, NEW n \in Copies,
         Consume(p, s, n)
  PROVE  CInv'
<1>1. Goods /\ StashTypes /\ n \in Nat \ {0}
  BY LimitAssumption DEF CInv, IInv, Copies
<1>2. rubles \in [Player -> Nat] /\ inv \in Inventories
  BY <1>1 DEF Goods
<1>3. PICK d \in Int : d = -n
  BY <1>1
<1>4. PICK k : k = -1
  OBVIOUS
<1>5. /\ Total(inv[p][s]) >= n /\ Take(p, s, n, k) /\ Gone(s, n) /\ Tell(p, s, d)
      /\ UNCHANGED <<rubles, world, dropped, stashes, level, pending, busy>>
  BY <1>3, <1>4 DEF Consume
<1>6. rubles' \in [Player -> Nat] /\ UNCHANGED <<world, dropped, stashes, level, pending, busy>>
  BY <1>2, <1>5
<1> QED
  BY <1>3, <1>5, <1>6, SpendConserves

\* ... a sale ...
LEMMA SellConserves ==
  ASSUME CInv, IInv, NEW p \in Player, NEW s \in Section, NEW n \in Copies, NEW price \in Price,
         Sell(p, s, n, price)
  PROVE  CInv'
<1>1. Goods /\ StashTypes /\ n \in Nat \ {0}
  BY LimitAssumption DEF CInv, IInv, Copies
<1>2. rubles \in [Player -> Nat] /\ inv \in Inventories
  BY <1>1 DEF Goods
<1>3. PICK d \in Int : d = -n
  BY <1>1
<1>4. PICK v \in Nat : v = Capped(price)
  BY CappedNat
<1>5. PICK k : k = -1
  OBVIOUS
<1>6. /\ Total(inv[p][s]) >= n /\ Take(p, s, n, k) /\ Gone(s, n) /\ Tell(p, s, d)
      /\ rubles' = [rubles EXCEPT ![p] = rubles[p] + v]
      /\ UNCHANGED <<world, dropped, stashes, level, pending, busy>>
  BY <1>3, <1>4, <1>5 DEF Sell
<1>7. PICK r \in Nat : r = rubles[p] + v
  BY <1>2
<1>8. rubles' \in [Player -> Nat]
  BY <1>2, <1>6, <1>7
<1> QED
  BY <1>3, <1>6, <1>8, SpendConserves

\* ... and a purchase.
LEMMA BuyConserves ==
  ASSUME CInv, IInv, NEW p \in Player, NEW s \in Section, NEW n \in Copies, NEW c \in Bucket,
         NEW price \in Price,
         Buy(p, s, n, c, price)
  PROVE  CInv'
<1>1. Goods /\ StashTypes /\ n \in Nat \ {0}
  BY LimitAssumption DEF CInv, IInv, Copies
<1>2. rubles \in [Player -> Nat] /\ inv \in Inventories
  BY <1>1 DEF Goods
<1>3. PICK d \in Int : d = -n
  BY <1>1
<1>4. PICK v \in Nat : v = Capped(price)
  BY CappedNat
<1>5. /\ rubles[p] >= v /\ Give(p, s, n, c) /\ Gone(s, d) /\ Tell(p, s, n)
      /\ rubles' = [rubles EXCEPT ![p] = rubles[p] - v]
      /\ UNCHANGED <<world, dropped, stashes, level, pending, busy>>
  BY <1>3, <1>4 DEF Buy
<1>6. PICK r \in Nat : r = rubles[p] - v
  BY <1>2, <1>5
<1>7. rubles' \in [Player -> Nat]
  BY <1>2, <1>5, <1>6
<1>8. Moves(p, s, n)
  BY <1>1, <1>2, <1>5, GiveMoves
<1>9. /\ outside' \in [Section -> Int]
      /\ \A t \in Section : outside'[t] = outside[t] + (IF t = s THEN d ELSE 0)
  BY <1>1, <1>5, GoneEffect
<1>10. ASSUME NEW t \in Section
      PROVE  /\ Lying(t)' \in Int /\ Stashed(t)' \in Int
             /\ Lying(t)' + Stashed(t)' + outside'[t]
                   = Lying(t) + Stashed(t) + outside[t] - (IF t = s THEN n ELSE 0)
  <2>1. Stashed(t)' = Stashed(t) /\ Lying(t)' = Lying(t)
    BY <1>5 DEF Stashed, Lying
  <2>2. Lying(t) \in Int /\ Stashed(t) \in Int /\ outside[t] \in Int
    BY <1>1, SumsInt
  <2> QED
    BY <1>1, <1>3, <1>9, <2>1, <2>2
<1>11. StashNamed'
  BY <1>5, NamedStays
<1>12. world' \subseteq WorldItem(dropped') /\ IsFiniteSet(world') /\ dropped' \in 0 .. MaxItems
  BY <1>1, <1>5 DEF Goods
<1>13. UNCHANGED <<level, pending>> /\ n \in Int
  BY <1>1, <1>5
<1> QED
  BY <1>5, <1>7, <1>8, <1>9, <1>10, <1>11, <1>12, <1>13, TransferKeeps

\* A pickup: the transaction looks again, so that the copies are in the world.
LEMMA PickupConserves ==
  ASSUME CInv, IInv, SInv, NEW p \in Player, PickupWorldItem(p)
  PROVE  CInv'
<1>1. Goods /\ StashTypes
  BY DEF CInv, IInv
<1>2. PICK w \in world : w = busy[p].item
  BY DEF PickupWorldItem
<1>3. PICK s \in Section, n \in Nat \ {0}, c \in Bucket : s = w.section /\ n = w.count /\ c = w.cond
  BY <1>1, WorldCounts
<1>4. /\ world' = world \ {w} /\ Give(p, s, n, c) /\ Tell(p, s, n)
      /\ UNCHANGED <<rubles, dropped, stashes, level, pending, outside>>
  BY <1>2, <1>3 DEF PickupWorldItem
<1>5. Moves(p, s, n)
  BY <1>1, <1>4, GiveMoves DEF Goods
<1>6. IsFiniteSet(world') /\ world' \subseteq WorldItem(dropped')
  <2>1. world' \subseteq world
    BY <1>4
  <2>2. IsFiniteSet(world')
    BY <1>1, <2>1, FS_Subset DEF Goods
  <2> QED
    BY <1>1, <1>4, <2>1, <2>2 DEF Goods
<1>7. ASSUME NEW t \in Section
      PROVE  Lying(t)' \in Int /\ Lying(t)' = Lying(t) - (IF t = s THEN n ELSE 0)
  <2>1. PICK E, R : E = {w} /\ R = world' /\ R = world \ E
    BY <1>4
  <2>2. Parts(world, E, R)
    BY <1>1, <2>1, WorldCounts DEF Parts, Goods
  <2>3. /\ CopiesIn(world, t) \in Int /\ CopiesIn(E, t) \in Int /\ CopiesIn(R, t) \in Int
        /\ CopiesIn(world, t) = CopiesIn(E, t) + CopiesIn(R, t)
    BY <2>2, CopiesSplit
  <2>4. CopiesIn(E, t) = IF w.section = t THEN w.count ELSE 0
    <3>1. w.count \in Nat
      BY <1>3
    <3> QED
      BY <2>1, <3>1, CopiesOne
  <2>5. Lying(t)' = CopiesIn(R, t) /\ Lying(t) = CopiesIn(world, t)
    BY <2>1 DEF Lying
  <2> QED
    BY <1>3, <2>3, <2>4, <2>5
<1>8. ASSUME NEW t \in Section
      PROVE  /\ Lying(t)' \in Int /\ Stashed(t)' \in Int
             /\ Lying(t)' + Stashed(t)' + outside'[t]
                  = Lying(t) + Stashed(t) + outside[t] - (IF t = s THEN n ELSE 0)
  <2>1. Stashed(t)' = Stashed(t) /\ outside'[t] = outside[t]
    BY <1>4 DEF Stashed
  <2>2. Lying(t) \in Int /\ Stashed(t) \in Int /\ outside[t] \in Int
    BY <1>1, SumsInt
  <2> QED
    BY <1>3, <1>7, <2>1, <2>2
<1>9. StashNamed'
  <2>1. PICK no \in BOOLEAN : no = FALSE
    BY Zenon
  <2>2. PICK b : b = Broadcast(p, w, no)
    OBVIOUS
  <2>3. busy' = [busy EXCEPT ![p] = b]
    BY <1>2, <2>1, <2>2, Zenon DEF PickupWorldItem, Continue
  <2>4. b.pc \in {"idle", "tell"}
    BY <2>2, BroadcastRecord
  <2>5. DOMAIN stashes \subseteq DOMAIN stashes'
    BY <1>4
  <2>6. b.pc \in {"deposit", "withdraw"} => b.stash \in DOMAIN stashes'
    BY <2>4
  <2> QED
    BY <2>3, <2>5, <2>6, NamedKeeps
<1>10. rubles' \in [Player -> Nat] /\ outside' \in [Section -> Int] /\ dropped' \in 0 .. MaxItems
  BY <1>1, <1>4 DEF Goods
<1>11. UNCHANGED <<level, pending>> /\ n \in Int
  BY <1>4
<1>12. /\ \A t \in Section : Lying(t)' + Stashed(t)' + outside'[t]
                              = Lying(t) + Stashed(t) + outside[t] - (IF t = s THEN n ELSE 0)
       /\ \A t \in Section : Lying(t)' \in Int /\ Stashed(t)' \in Int
  BY <1>8
<1> QED
  BY <1>4, <1>5, <1>6, <1>9, <1>10, <1>11, <1>12, TransferKeeps, ZenonT(40)

\* The sweep: expired items leave the world.
LEMMA SweepConserves ==
  ASSUME CInv, IInv, NEW expired \in SUBSET world, SweepWorldItems(expired)
  PROVE  CInv'
<1>1. Goods /\ StashTypes /\ Conservation
  BY DEF CInv, IInv
<1>2. /\ world' = world \ expired
      /\ outside' = [s \in Section |-> outside[s] + CopiesIn(expired, s)]
      /\ UNCHANGED <<inv, rubles, dropped, stashes, level, pending, busy, told>>
  BY DEF SweepWorldItems
<1>3. PICK R : R = world \ expired /\ R = world'
  BY <1>2
<1>4. Parts(world, expired, R)
  BY <1>1, <1>3, WorldCounts DEF Parts, Goods
<1>5. ASSUME NEW t \in Section
      PROVE  /\ CopiesIn(world, t) \in Int /\ CopiesIn(expired, t) \in Int /\ CopiesIn(R, t) \in Int
             /\ CopiesIn(world, t) = CopiesIn(expired, t) + CopiesIn(R, t)
  BY <1>4, CopiesSplit
<1>6. outside' \in [Section -> Int]
  <2>1. \A t \in Section : outside[t] \in Int
    BY <1>1 DEF Goods
  <2> QED
    BY <1>2, <1>5, <2>1
<1>7. Goods'
  <2>1. world' \subseteq world
    BY <1>2
  <2>2. IsFiniteSet(world')
    BY <1>1, <2>1, FS_Subset DEF Goods
  <2> QED
    BY <1>1, <1>2, <1>6, <2>1, <2>2 DEF Goods
<1>8. Conservation'
  <2> SUFFICES ASSUME NEW t \in Section
               PROVE  Carried(t)' + Lying(t)' + Stashed(t)' + outside'[t] = 0
    BY DEF Conservation
  <2>1. Carried(t) \in Int /\ Lying(t) \in Int /\ Stashed(t) \in Int /\ outside[t] \in Int
    BY <1>1, SumsInt
  <2>2. Carried(t) + Lying(t) + Stashed(t) + outside[t] = 0
    BY <1>1 DEF Conservation
  <2>3. Carried(t)' = Carried(t) /\ Stashed(t)' = Stashed(t)
    BY <1>2 DEF Carried, Stashed
  <2>4. outside'[t] = outside[t] + CopiesIn(expired, t)
    BY <1>2
  <2>5. Lying(t)' = CopiesIn(R, t) /\ Lying(t) = CopiesIn(world, t)
    BY <1>3 DEF Lying
  <2> QED
    BY <1>5, <2>1, <2>2, <2>3, <2>4, <2>5
<1>9. StashNamed' /\ ToldTruth'
  BY <1>2 DEF CInv, StashNamed, ToldTruth, Online
<1> QED
  BY <1>7, <1>8, <1>9 DEF CInv

\* One entry of stash k changes by d copies.
EntryMoves(k, s, c, d) ==
  \E r \in Stash : /\ stashes' = [stashes EXCEPT ![k] = r]
                   /\ OneEntry(r.items, stashes[k].items, s, c, d)

\* What is stashed changes by as many.
LEMMA StashEntry ==
  ASSUME IInv, NEW k \in DOMAIN stashes, NEW s \in Section, NEW c \in Bucket, NEW d \in Int,
         EntryMoves(k, s, c, d)
  PROVE  /\ DOMAIN stashes' = DOMAIN stashes
         /\ \A t \in Section : /\ Stashed(t)' \in Int
                               /\ Stashed(t)' = Stashed(t) + (IF t = s THEN d ELSE 0)
<1>1. stashes \in Seq(Stash)
  BY DEF IInv, StashTypes
<1>0. PICK r \in Stash : /\ stashes' = [stashes EXCEPT ![k] = r]
                         /\ OneEntry(r.items, stashes[k].items, s, c, d)
  BY DEF EntryMoves
<1>2. /\ stashes' \in Seq(Stash) /\ DOMAIN stashes' = DOMAIN stashes /\ stashes'[k] = r
      /\ \A n \in DOMAIN stashes \ {k} : stashes'[n] = stashes[n]
  BY <1>0, <1>1
<1>3. PICK e, f : e = r.items /\ f = stashes[k].items /\ OneEntry(e, f, s, c, d)
  BY <1>0
<1>4. ASSUME NEW t \in Section
      PROVE  Stashed(t)' \in Int /\ Stashed(t)' = Stashed(t) + (IF t = s THEN d ELSE 0)
  <2>1. StoredCopies(f, t) \in Int /\ StoredCopies(e, t) = StoredCopies(f, t) + Shift(t, s, d)
    <3>1. OneEntry(e, f, s, c, d)
      BY <1>3
    <3> QED
      BY <3>1, ContentsChange
  <2>2. /\ Stashed(t) \in Int
        /\ Stashed(t)' = Stashed(t) - StoredCopies(stashes[k].items, t)
                                    + StoredCopies(stashes'[k].items, t)
    BY <1>1, <1>2, StashedChange
  <2>3. Stashed(t)' = Stashed(t) - StoredCopies(f, t) + StoredCopies(e, t)
    BY <1>2, <1>3, <2>2
  <2>4. PICK x \in Int : x = Shift(t, s, d) /\ x = IF t = s THEN d ELSE 0
    BY DEF Shift
  <2> QED
    BY <2>1, <2>2, <2>3, <2>4
<1> QED
  BY <1>2, <1>4

\* A deposit or a withdrawal: what the player loses the stash gets, and the reverse.
LEMMA StashConserves ==
  ASSUME CInv, IInv, SInv, NEW p \in Player, NEW s \in Section, NEW d \in Int, Moves(p, s, d),
         Tell(p, s, d), UNCHANGED <<rubles, world, dropped, level, pending, outside>>,
         NEW x \in Int, x = -d, Done(p),
         DOMAIN stashes' = DOMAIN stashes,
         \A t \in Section : /\ Stashed(t)' \in Int
                            /\ Stashed(t)' = Stashed(t) + (IF t = s THEN x ELSE 0)
  PROVE  CInv'
<1>1. Goods /\ StashTypes
  BY DEF CInv, IInv
<1>2. ASSUME NEW t \in Section
      PROVE  /\ Lying(t)' \in Int /\ Stashed(t)' \in Int
             /\ Lying(t)' + Stashed(t)' + outside'[t]
                   = Lying(t) + Stashed(t) + outside[t] - (IF t = s THEN d ELSE 0)
  <2>1. Lying(t)' = Lying(t) /\ outside'[t] = outside[t]
    BY DEF Lying
  <2>2. Lying(t) \in Int /\ Stashed(t) \in Int /\ outside[t] \in Int
    BY <1>1, SumsInt
  <2>3. Stashed(t)' \in Int /\ Stashed(t)' = Stashed(t) + (IF t = s THEN x ELSE 0)
    OBVIOUS
  <2> QED
    BY <2>1, <2>2, <2>3
<1>3. StashNamed'
  <2>1. PICK b : b = Idle
    OBVIOUS
  <2>2. b.pc = "idle" /\ busy' = [busy EXCEPT ![p] = b]
    BY <2>1 DEF Idle, Done, Continue
  <2>3. b.pc \in {"deposit", "withdraw"} => b.stash \in DOMAIN stashes'
    BY <2>2
  <2> QED
    BY <2>2, <2>3, NamedKeeps
<1>4. world' \subseteq WorldItem(dropped') /\ IsFiniteSet(world') /\ dropped' \in 0 .. MaxItems
  BY <1>1 DEF Goods
<1>5. rubles' \in [Player -> Nat] /\ outside' \in [Section -> Int]
  BY <1>1 DEF Goods
<1>6. UNCHANGED <<level, pending>>
  OBVIOUS
<1> QED
  BY <1>2, <1>3, <1>4, <1>5, <1>6, TransferKeeps

\* A deposit.
LEMMA DepositConserves ==
  ASSUME CInv, IInv, SInv, NEW p \in Player, NEW s \in Section, NEW n \in Copies, NEW b,
         DepositItem(p, s, n, b)
  PROVE  CInv'
<1>1. Goods /\ StashTypes /\ n \in Nat \ {0} /\ n \in Int
  BY LimitAssumption DEF CInv, IInv, Copies
<1>2. PICK d \in Int : d = -n
  BY <1>1
<1>3. Total(inv[p][s]) >= n /\ Take(p, s, n, b) /\ inv \in Inventories
  BY <1>1 DEF DepositItem, Goods
<1>4. Moves(p, s, d) /\ TakenCondition(p, s, n, b) \in Bucket
  BY <1>2, <1>3, TakeMoves
<1>5. PICK c \in Bucket : c = TakenCondition(p, s, n, b)
  BY <1>4
<1>6. PICK k \in DOMAIN stashes : k = busy[p].stash
  BY DEF DepositItem, CInv, StashNamed
<1>7. PICK f \in [Section \X Bucket -> Nat] : f = stashes[k].items
  BY Contents
<1>8. PICK y \in Section \X Bucket : y = <<s, c>>
  OBVIOUS
<1>9. PICK v \in Nat : v = f[y] + n
  BY <1>1
<1>10. PICK e : e = [f EXCEPT ![y] = v]
  OBVIOUS
<1>11. Stored(p, s, n, b) = e
  BY <1>5, <1>6, <1>7, <1>8, <1>9, <1>10 DEF Stored
<1>12. /\ e \in [Section \X Bucket -> Nat] /\ e[y] = f[y] + n
       /\ \A x \in Section \X Bucket : x # y => e[x] = f[x]
  BY <1>9, <1>10
<1>13. PICK r : r = [stashes[k] EXCEPT !.items = e]
  OBVIOUS
<1>14. r \in Stash /\ e = r.items
  <2>1. stashes[k] \in Stash
    BY Contents
  <2> QED
    BY <1>12, <1>13, <2>1 DEF Stash
<1>15. stashes' = [stashes EXCEPT ![k] = r]
  <2>1. stashes' = [stashes EXCEPT ![k].items = e]
    BY <1>6, <1>11, Zenon DEF DepositItem
  <2> QED
    BY <1>13, <2>1
<1>16. /\ DOMAIN stashes' = DOMAIN stashes
       /\ \A t \in Section : /\ Stashed(t)' \in Int
                             /\ Stashed(t)' = Stashed(t) + (IF t = s THEN n ELSE 0)
  <2>1. e[<<s, c>>] = f[<<s, c>>] + n /\ \A x \in Section \X Bucket : x # <<s, c>> => e[x] = f[x]
    BY <1>8, <1>12
  <2>2. OneEntry(e, f, s, c, n)
    BY <1>12, <2>1 DEF OneEntry
  <2>3. OneEntry(r.items, stashes[k].items, s, c, n)
    BY <1>7, <1>14, <2>2
  <2>4. EntryMoves(k, s, c, n)
    BY <1>14, <1>15, <2>3, Zenon DEF EntryMoves
  <2> QED
    BY <1>1, <2>4, StashEntry
<1>17. /\ Tell(p, s, d) /\ Done(p) /\ n = -d
       /\ UNCHANGED <<rubles, world, dropped, level, pending, outside>>
  BY <1>1, <1>2 DEF DepositItem
<1> QED
  BY <1>1, <1>4, <1>16, <1>17, StashConserves

\* A withdrawal.
LEMMA WithdrawConserves ==
  ASSUME CInv, IInv, SInv, NEW p \in Player, NEW s \in Section, NEW n \in Copies, NEW c \in Bucket,
         WithdrawItem(p, s, n, c)
  PROVE  CInv'
<1>1. Goods /\ StashTypes /\ n \in Nat \ {0} /\ n \in Int
  BY LimitAssumption DEF CInv, IInv, Copies
<1>2. PICK d \in Int : d = -n
  BY <1>1
<1>3. Moves(p, s, n)
  BY <1>1, GiveMoves DEF WithdrawItem, Goods
<1>4. PICK k \in DOMAIN stashes : k = busy[p].stash
  BY DEF WithdrawItem, CInv, StashNamed
<1>5. PICK f \in [Section \X Bucket -> Nat] : f = stashes[k].items
  BY Contents
<1>6. PICK y \in Section \X Bucket : y = <<s, c>>
  OBVIOUS
<1>7. f[y] >= n
  BY <1>4, <1>5, <1>6 DEF WithdrawItem
<1>8. PICK v \in Nat : v = f[y] - n
  BY <1>1, <1>7
<1>9. PICK e : e = [f EXCEPT ![y] = v]
  OBVIOUS
<1>10. /\ e \in [Section \X Bucket -> Nat] /\ e[y] = f[y] + d
       /\ \A x \in Section \X Bucket : x # y => e[x] = f[x]
  BY <1>1, <1>2, <1>8, <1>9
<1>11. PICK r : r = [stashes[k] EXCEPT !.items = e]
  OBVIOUS
<1>12. r \in Stash /\ e = r.items
  <2>1. stashes[k] \in Stash
    BY Contents
  <2> QED
    BY <1>10, <1>11, <2>1 DEF Stash
<1>13. stashes' = [stashes EXCEPT ![k] = r]
  BY <1>4, <1>5, <1>6, <1>8, <1>9, <1>11 DEF WithdrawItem
<1>14. /\ DOMAIN stashes' = DOMAIN stashes
       /\ \A t \in Section : /\ Stashed(t)' \in Int
                             /\ Stashed(t)' = Stashed(t) + (IF t = s THEN d ELSE 0)
  <2>1. e[<<s, c>>] = f[<<s, c>>] + d /\ \A x \in Section \X Bucket : x # <<s, c>> => e[x] = f[x]
    BY <1>6, <1>10
  <2>2. OneEntry(e, f, s, c, d)
    BY <1>10, <2>1 DEF OneEntry
  <2>3. OneEntry(r.items, stashes[k].items, s, c, d)
    BY <1>5, <1>12, <2>2
  <2>4. EntryMoves(k, s, c, d)
    BY <1>12, <1>13, <2>3, Zenon DEF EntryMoves
  <2> QED
    BY <2>4, StashEntry
<1>15. /\ Tell(p, s, n) /\ Done(p) /\ d = -n
       /\ UNCHANGED <<rubles, world, dropped, level, pending, outside>>
  BY <1>1, <1>2 DEF WithdrawItem
<1> QED
  BY <1>1, <1>3, <1>14, <1>15, StashConserves

\* The stash that is found at a position exists.
LEMMA FoundExists ==
  ASSUME IInv, NEW l, NEW k, StashesAt(l, k) # {}
  PROVE  FindStashAt(l, k) \in DOMAIN stashes
<1>1. PICK S : S = StashesAt(l, k)
  OBVIOUS
<1>2. stashes \in Seq(Stash)
  BY DEF IInv, StashTypes
<1>3. S # {} /\ S \subseteq DOMAIN stashes /\ \A x \in S : x \in Nat
  BY <1>1, <1>2 DEF StashesAt
<1>4. \E x \in S : \A y \in S : x <= y
  BY <1>3, LeastNat
<1>5. Min(S) \in S
  BY <1>4 DEF Min
<1> QED
  BY <1>1, <1>3, <1>5 DEF FindStashAt

\* Looking for a stash: the worker has one that exists.
LEMMA FindKeeps ==
  ASSUME CInv, IInv, SInv, NEW p \in Player, NEW b, busy' = [busy EXCEPT ![p] = b],
         b.stash \in DOMAIN stashes,
         UNCHANGED <<inv, rubles, world, dropped, stashes, level, pending, told, outside>>
  PROVE  CInv'
<1>1. StashNamed'
  <2>1. DOMAIN stashes \subseteq DOMAIN stashes' /\ b.stash \in DOMAIN stashes'
    OBVIOUS
  <2> QED
    BY <2>1, NamedKeeps
<1>2. \A q \in Player : q \notin pending /\ level'[q] # Offline => level[q] # Offline
  OBVIOUS
<1> QED
  BY <1>1, <1>2, StillKeeps

\* A worker that goes on without a stash, and moves nothing.
LEMMA WorkerStill ==
  ASSUME CInv, SInv, NEW p \in Player, NEW b, busy' = [busy EXCEPT ![p] = b],
         b.pc \notin {"deposit", "withdraw"},
         UNCHANGED <<inv, rubles, world, dropped, stashes, level, pending, told, outside>>
  PROVE  CInv'
<1>1. StashNamed'
  <2>1. DOMAIN stashes \subseteq DOMAIN stashes'
    OBVIOUS
  <2> QED
    BY <2>1, NamedKeeps
<1>2. \A q \in Player : q \notin pending /\ level'[q] # Offline => level[q] # Offline
  OBVIOUS
<1> QED
  BY <1>1, <1>2, StillKeeps

\* Finding or making a stash.
LEMMA FindOrCreateConserves ==
  ASSUME CInv, IInv, SInv, NEW p \in Player, NEW k \in Key, FindOrCreateStash(p, k)
  PROVE  CInv'
<1>1. Goods /\ StashTypes /\ stashes \in Seq(Stash)
  BY DEF CInv, IInv, StashTypes
<1>2. CASE StashesAt(level[p], k) = {}
  <2>1. PICK r : r = [level |-> level[p], key |-> k, items |-> Empty]
    OBVIOUS
  <2>2. r \in Stash /\ r.items = Empty
    <3>1. level[p] \in Level
      BY <1>1 DEF FindOrCreateStash, Ready, Online, StashTypes
    <3>2. Empty \in [Section \X Bucket -> Nat]
      BY DEF Empty
    <3> QED
      BY <2>1, <3>1, <3>2 DEF Stash
  <2>3. PICK a : a = Len(stashes) + 1
    OBVIOUS
  <2>4. PICK b : b = [pc |-> "deposit", stash |-> a]
    OBVIOUS
  <2>5. /\ stashes' = Append(stashes, r) /\ busy' = [busy EXCEPT ![p] = b]
        /\ UNCHANGED <<inv, rubles, world, dropped, level, pending, told, outside>>
    BY <1>2, <2>1, <2>3, <2>4 DEF FindOrCreateStash, Continue
  <2>6. DOMAIN stashes \subseteq DOMAIN stashes' /\ a \in DOMAIN stashes'
    BY <1>1, <2>2, <2>3, <2>5
  <2>7. StashNamed'
    <3>1. b.stash = a
      BY <2>4
    <3> QED
      BY <2>5, <2>6, <3>1, NamedKeeps
  <2>8. Goods' /\ ToldTruth'
    BY <1>1, <2>5 DEF CInv, Goods, ToldTruth, Online
  <2>9. Conservation'
    <3> SUFFICES ASSUME NEW t \in Section
                 PROVE  Carried(t)' + Lying(t)' + Stashed(t)' + outside'[t] = 0
      BY DEF Conservation
    <3>1. Stashed(t)' = Stashed(t)
      BY <1>1, <2>2, <2>5, StashedAdded
    <3>2. Carried(t)' = Carried(t) /\ Lying(t)' = Lying(t) /\ outside'[t] = outside[t]
      BY <2>5 DEF Carried, Lying
    <3>3. Carried(t) + Lying(t) + Stashed(t) + outside[t] = 0
      BY DEF CInv, Conservation
    <3> QED
      BY <3>1, <3>2, <3>3
  <2> QED
    BY <2>7, <2>8, <2>9 DEF CInv
<1>3. CASE StashesAt(level[p], k) # {}
  <2>1. PICK n \in DOMAIN stashes : n = FindStashAt(level[p], k)
    BY <1>3, FoundExists
  <2>2. PICK b : b = [pc |-> "deposit", stash |-> n]
    OBVIOUS
  <2>3. /\ b.stash \in DOMAIN stashes /\ busy' = [busy EXCEPT ![p] = b]
        /\ UNCHANGED <<inv, rubles, world, dropped, stashes, level, pending, told, outside>>
    BY <1>3, <2>1, <2>2 DEF FindOrCreateStash, Continue
  <2> QED
    BY <2>3, FindKeeps
<1> QED
  BY <1>2, <1>3

\* Taking from a stash, and opening a container.
LEMMA OpenKeeps ==
  ASSUME CInv, IInv, SInv, NEW p \in Player, NEW k, NEW n, NEW action,
         FindStash(p, k) \/ OpenContainer(p, n, action)
  PROVE  CInv'
<1>1. CASE FindStash(p, k)
  <2>1. PICK m \in DOMAIN stashes : m = FindStashAt(level[p], k)
    BY <1>1, FoundExists DEF FindStash
  <2>2. PICK b : b = [pc |-> "withdraw", stash |-> m]
    OBVIOUS
  <2>3. /\ b.stash \in DOMAIN stashes /\ busy' = [busy EXCEPT ![p] = b]
        /\ UNCHANGED <<inv, rubles, world, dropped, stashes, level, pending, told, outside>>
    BY <1>1, <2>1, <2>2 DEF FindStash, Continue
  <2> QED
    BY <2>3, FindKeeps
<1>2. CASE OpenContainer(p, n, action)
  <2>1. PICK b : b = [pc |-> action, stash |-> n]
    OBVIOUS
  <2>2. /\ b.stash \in DOMAIN stashes /\ busy' = [busy EXCEPT ![p] = b]
        /\ UNCHANGED <<inv, rubles, world, dropped, stashes, level, pending, told, outside>>
    BY <1>2, <2>1 DEF OpenContainer, Continue
  <2> QED
    BY <2>2, FindKeeps
<1> QED
  BY <1>1, <1>2

\* The worker ends, after a refusal or a pickup that was too late.
LEMMA RefusalKeeps ==
  ASSUME CInv, IInv, SInv, NEW p \in Player, PickupLost(p) \/ StashRefused(p)
  PROVE  CInv'
<1>1. StashTypes
  BY DEF IInv
<1>2. PICK b : b = Idle
  OBVIOUS
<1>3. /\ b.pc = "idle" /\ busy' = [busy EXCEPT ![p] = b]
      /\ SendInventorySync(p, inv[p]) \/ UNCHANGED told
      /\ UNCHANGED <<inv, rubles, world, dropped, stashes, level, pending, outside>>
  BY <1>2 DEF PickupLost, StashRefused, Done, Continue, Idle
<1>4. CASE SendInventorySync(p, inv[p])
  <2>1. StashNamed'
    BY <1>3, NamedKeeps
  <2>2. \A q \in Player \ {p} : level'[q] = level[q]
    BY <1>3
  <2>3. UNCHANGED <<inv, rubles, world, dropped, stashes, pending, outside>>
    BY <1>3
  <2> QED
    BY <1>1, <1>4, <2>1, <2>2, <2>3, SyncKeeps
<1>5. CASE UNCHANGED told
  BY <1>3, <1>5, WorkerStill
<1> QED
  BY <1>3, <1>4, <1>5

\* What a player is shown moves no copies.
LEMMA ShowingStill ==
  ASSUME CInv, SInv, NEW p \in Player, NEW q \in Player, NEW w,
         NEW hears \in BOOLEAN,
         \/ ListWorldItems(p) \/ SendWorldItems(p) \/ LookUpItem(p, w) \/ BroadcastTo(p, q, hears)
  PROVE  CInv'
<1>1. UNCHANGED <<inv, rubles, world, dropped, stashes, level, pending, told, outside>>
  BY DEF ListWorldItems, SendWorldItems, LookUpItem, BroadcastTo
<1>2. CASE ListWorldItems(p)
  <2>1. PICK items : Continue(p, [pc |-> "send", items |-> items])
    BY <1>2 DEF ListWorldItems
  <2>3. PICK b : b = [pc |-> "send", items |-> items]
    OBVIOUS
  <2>2. b.pc = "send" /\ busy' = [busy EXCEPT ![p] = b]
    BY <2>1, <2>3 DEF Continue
  <2> QED
    BY <1>1, <2>2, WorkerStill
<1>3. CASE SendWorldItems(p)
  <2>1. PICK b : b = Idle
    OBVIOUS
  <2>2. b.pc = "idle" /\ busy' = [busy EXCEPT ![p] = b]
    BY <1>3, <2>1 DEF SendWorldItems, Done, Continue, Idle
  <2> QED
    BY <1>1, <2>2, WorkerStill
<1>4. CASE LookUpItem(p, w)
  <2>1. PICK b : b = [pc |-> "pickup", item |-> w]
    OBVIOUS
  <2>2. b.pc = "pickup" /\ busy' = [busy EXCEPT ![p] = b]
    BY <1>4, <2>1 DEF LookUpItem, Continue
  <2> QED
    BY <1>1, <2>2, WorkerStill
<1>5. CASE BroadcastTo(p, q, hears)
  <2>1. PICK rest : rest = busy[p].to \ {q}
    OBVIOUS
  <2>2. /\ busy[p].pc = "tell" /\ (rest = {} => Done(p))
        /\ rest # {} => busy' = [busy EXCEPT ![p].to = rest]
    BY <1>5, <2>1 DEF BroadcastTo
  <2>3. PICK b : b.pc \notin {"deposit", "withdraw"} /\ busy' = [busy EXCEPT ![p] = b]
    <3>1. CASE rest = {}
      <4>1. PICK b : b = Idle
        OBVIOUS
      <4>2. b.pc = "idle" /\ busy' = [busy EXCEPT ![p] = b]
        BY <2>2, <3>1, <4>1 DEF Done, Continue, Idle
      <4> QED
        BY <4>2
    <3>2. CASE rest # {}
      <4>1. PICK b : b = [busy[p] EXCEPT !.to = rest]
        OBVIOUS
      <4>2. busy' = [busy EXCEPT ![p] = b]
        BY <2>2, <3>2, <4>1
      <4>3. TellRecord(busy[p])
        BY <2>2 DEF SInv, ShownTypes
      <4>4. PICK ww, shows, to : busy[p] = [pc |-> "tell", item |-> ww, shows |-> shows, to |-> to]
        BY <4>3 DEF TellRecord
      <4>5. b.pc = "tell"
        BY <4>1, <4>4
      <4> QED
        BY <4>2, <4>5
    <3> QED
      BY <3>1, <3>2
  <2> QED
    BY <1>1, <2>3, WorkerStill
<1> QED
  BY <1>2, <1>3, <1>4, <1>5

\* So do walking away and loading the level again.
LEMMA AwayStill ==
  ASSUME CInv, NEW p, NEW i, ReloadLevel(p) \/ WalkAway(p, i)
  PROVE  CInv'
<1>1. UNCHANGED <<inv, rubles, world, dropped, stashes, level, pending, busy, told, outside>>
  BY DEF ReloadLevel, WalkAway
<1>2. StashNamed'
  BY <1>1, NamedStays
<1>3. \A q \in Player : q \notin pending /\ level'[q] # Offline => level[q] # Offline
  BY <1>1
<1> QED
  BY <1>1, <1>2, <1>3, StillKeeps

\* And the news of a removal.
LEMMA RemovalStill ==
  ASSUME CInv, NEW w, NEW q, BroadcastRemoval(w, q)
  PROVE  CInv'
<1>1. UNCHANGED <<inv, rubles, world, dropped, stashes, level, pending, busy, told, outside>>
  BY DEF BroadcastRemoval
<1>2. StashNamed'
  BY <1>1, NamedStays
<1>3. \A q2 \in Player : q2 \notin pending /\ level'[q2] # Offline => level[q2] # Offline
  BY <1>1
<1> QED
  BY <1>1, <1>2, <1>3, StillKeeps

\* Every step keeps CInv.
LEMMA CInvNext == CInv /\ IInv /\ SInv /\ [Next]_vars => CInv'
<1> SUFFICES ASSUME CInv, IInv, SInv, [Next]_vars PROVE CInv'
  OBVIOUS
<1>1. CASE \E p \in Player, l \in Level : Join(p, l) \/ Travel(p, l)
  BY <1>1, ComingKeeps
<1>2. CASE \E p \in Player : JoinNew(p) \/ CharacterSelect(p) \/ Leave(p)
  BY <1>2, ComingKeeps, SelectKeeps
<1>13. CASE \E p \in Player : ReloadLevel(p) \/ \E i \in ItemId : WalkAway(p, i)
  BY <1>13, AwayStill
<1>3. CASE \E p \in Player : ListWorldItems(p) \/ SendWorldItems(p)
  BY <1>3, ShowingStill
<1>4. ASSUME NEW p \in Player, NEW s \in Section, NEW n \in Copies, ItemAction(p, s, n) PROVE CInv'
  <2>1. CASE \E b \in Bucket : Drop(p, s, n, b)
    BY <2>1, DropConserves
  <2>2. CASE Consume(p, s, n)
    BY <2>2, ConsumeConserves
  <2>3. CASE \E b \in Bucket : DepositItem(p, s, n, b)
    BY <2>3, DepositConserves
  <2>4. CASE \E b \in Bucket : WithdrawItem(p, s, n, b)
    BY <2>4, WithdrawConserves
  <2>5. CASE \E price \in Price : Sell(p, s, n, price)
    BY <2>5, SellConserves
  <2>6. CASE \E b \in Bucket, price \in Price : Buy(p, s, n, b, price)
    BY <2>6, BuyConserves
  <2> QED
    BY <1>4, <2>1, <2>2, <2>3, <2>4, <2>5, <2>6 DEF ItemAction
<1>5. CASE \E p \in Player, w \in world : LookUpItem(p, w)
  BY <1>5, ShowingStill
<1>6. CASE \E p \in Player : PickupWorldItem(p) \/ PickupLost(p) \/ StashRefused(p)
  BY <1>6, PickupConserves, RefusalKeeps
<1>7. CASE \E p, q \in Player, hears \in BOOLEAN : BroadcastTo(p, q, hears)
  BY <1>7, ShowingStill
<1>8. CASE \E expired \in SUBSET world : SweepWorldItems(expired)
  BY <1>8, SweepConserves
<1>9. CASE \E m \in sweep : BroadcastRemoval(m[1], m[2])
  BY <1>9, RemovalStill
<1>10. CASE \E p \in Player, k \in Key : FindOrCreateStash(p, k) \/ FindStash(p, k)
  BY <1>10, FindOrCreateConserves, OpenKeeps
<1>11. CASE \E p \in Player, n \in DOMAIN stashes, action \in {"deposit", "withdraw"} :
              OpenContainer(p, n, action)
  BY <1>11, OpenKeeps
<1>12. CASE UNCHANGED vars
  <2>1. UNCHANGED <<inv, rubles, world, dropped, stashes, level, pending, busy, told, outside>>
    BY <1>12 DEF vars
  <2>2. StashNamed'
    BY <2>1, NamedStays
  <2>3. \A q \in Player : q \notin pending /\ level'[q] # Offline => level[q] # Offline
    BY <2>1
  <2> QED
    BY <2>1, <2>2, <2>3, StillKeeps
<1> QED
  BY <1>1, <1>2, <1>3, <1>4, <1>5, <1>6, <1>7, <1>8, <1>9, <1>10, <1>11, <1>12,
     <1>13 DEF Next

\* Copies are neither lost nor made twice: in every state the copies of a section in the
\* inventories, in the world and in the stashes are those that traders and loadouts gave out,
\* less what was used up, sold, expired or replaced, for any number of players whose workers
\* race the sweep and one another for items and stashes.
THEOREM Conserving == Spec => []ItemsConserved
<1>1. CInv /\ IInv => ItemsConserved
  <2> SUFFICES ASSUME CInv, IInv PROVE TypeOK /\ Conservation
    BY DEF ItemsConserved
  <2>1. Goods /\ StashTypes /\ Conservation
    BY DEF CInv, IInv
  <2>2. ASSUME NEW p \in Player, NEW s \in Section, NEW i \in DOMAIN inv[p][s]
        PROVE  inv[p][s][i] \in Row
    <3>1. PICK rows \in Seq(Row) : rows = inv[p][s]
      BY <2>1, TotalsNat DEF Goods
    <3> QED
      BY <3>1
  <2>3. \A n \in DOMAIN stashes : stashes[n].items \in [Section \X Bucket -> Nat]
    BY Contents
  <2>4. world \subseteq [id: 1 .. dropped, level: Level, section: Section,
                         count: Nat \ {0}, cond: Bucket]
    BY <2>1 DEF Goods, WorldItem
  <2> QED
    BY <2>1, <2>2, <2>3, <2>4 DEF TypeOK, Goods, StashTypes
<1>2. Spec => []IInv
  BY InitIInv, NextIInv, PTL DEF Spec
<1>3. Spec => []SInv
  BY SInvInit, SInvNext, PTL DEF Spec
<1> QED
  BY <1>1, <1>2, <1>3, CInvInit, CInvNext, PTL DEF Spec

\* What the server tells a player he holds is what he holds, after every answer, also that of
\* a pickup that lost its race.
THEOREM Telling == Spec => []ToldTruth
<1>1. CInv => ToldTruth
  BY DEF CInv
<1>2. Spec => []IInv
  BY InitIInv, NextIInv, PTL DEF Spec
<1>3. Spec => []SInv
  BY SInvInit, SInvNext, PTL DEF Spec
<1> QED
  BY <1>1, <1>2, <1>3, CInvInit, CInvNext, PTL DEF Spec
=============================================================================
