------------------------------ MODULE ItemLedger ------------------------------
(***************************************************************************)
(* The server's ledger of item, container, stash and trade actions:        *)
(* game/item_ledger.go and the four handlers that use it (handleItemAction *)
(* with drop, pickup and consume, handleContainerAction, handleStashAction *)
(* and handleTradeAction).                                                 *)
(*                                                                         *)
(* A session keeps one floor for the ActionIDs of all opcodes, one ring of *)
(* recent results per opcode and one rate window.  The packets of a        *)
(* session come from one endpoint, hence from one worker: its handlers do  *)
(* not overlap, and each is one action.  The gates of a handler, in order: *)
(* action code, ring, floor, rate, validity, database.                     *)
(*                                                                         *)
(* What a packet asks for is abstracted to the pair of its opcode and an   *)
(* opaque payload, and the database to a choice of outcome.  `applied`     *)
(* counts the transactions the database committed for each packet; the     *)
(* code writes one audit row for each of them.                             *)
(***************************************************************************)
EXTENDS Integers, Sequences

CONSTANTS
  Player,     \* sessions
  Op,         \* opcodes in use, a subset of {"item", "container", "stash", "trade"}
  MaxId,      \* ActionIDs are 0 .. MaxId; the client counts from 1
  Payload,    \* what an action asks for
  Malformed,  \* the payloads that fail the checks before the database
  CacheSize,  \* itemActionCacheSize
  Allowed,    \* actions per second a session may make, at least 1
  MaxPackets  \* bound on the packets handled for a session

ASSUME OpAssumption == Op \subseteq {"item", "container", "stash", "trade"}
ASSUME MaxIdAssumption == MaxId \in Nat
ASSUME CacheSizeAssumption == CacheSize \in Nat \ {0}
ASSUME AllowedAssumption == Allowed \in Nat \ {0}
ASSUME MalformedAssumption == Malformed \subseteq Payload
ASSUME MaxPacketsAssumption == MaxPackets \in Nat

ActionId == 0 .. MaxId
Result == {"ok", "corrected", "rejected"}
Packet == [op: Op, id: ActionId, payload: Payload]
Reply == [op: Op, id: ActionId, payload: Payload, result: Result]

VARIABLES
  open,     \* the session is in the registry
  floor,    \* lastActionID, or -1 while hasLast is false
  ring,     \* the four result caches: slots and next position
  rate,     \* timestamps in the rolling one-second window
  handled,  \* packets handled, for the bound
  applied,  \* committed transactions per packet
  replies   \* results sent to each player, by this or another player's handler

ledgerVars == <<open, floor, ring, rate, handled, applied, replies>>

EmptyRing == [slot |-> <<>>, pos |-> 1]

InitLedger ==
  /\ open = [p \in Player |-> TRUE]
  /\ floor = [p \in Player |-> -1]
  /\ ring = [p \in Player |-> [o \in Op |-> EmptyRing]]
  /\ rate = [p \in Player |-> 0]
  /\ handled = [p \in Player |-> 0]
  /\ applied = [p \in Player |-> [k \in Packet |-> 0]]
  /\ replies = [p \in Player |-> {}]

(***************************************************************************)
(* The caches.                                                             *)
(***************************************************************************)
Push(r, entry) ==
  [slot |-> IF r.pos > Len(r.slot)
            THEN Append(r.slot, entry)
            ELSE [r.slot EXCEPT ![r.pos] = entry],
   pos |-> (r.pos % CacheSize) + 1]

Hits(p, k) == {n \in DOMAIN ring[p][k.op].slot : ring[p][k.op].slot[n].id = k.id}

Cached(p, k) ==
  ring[p][k.op].slot[CHOOSE n \in Hits(p, k) : \A m \in Hits(p, k) : n <= m]

IsStale(p, k) == k.id <= floor[p]

\* Mutant: the result is cached and the floor stays.
MutRecord(p, k, res) ==
  /\ UNCHANGED floor
  /\ ring' = [ring EXCEPT ![p][k.op] =
       Push(@, [op |-> k.op, id |-> k.id, payload |-> k.payload, result |-> res])]

\* Mutant: the outcome of a transaction is not recorded at all.
MutUnrecorded(p, k, res) == UNCHANGED <<floor, ring>>

\* Record, RecordContainer, RecordStash and RecordTrade set the floor to the
\* recorded id, whether it is higher or lower.
Record(p, k, res) ==
  /\ floor' = [floor EXCEPT ![p] = k.id]
  /\ ring' = [ring EXCEPT ![p][k.op] =
       Push(@, [op |-> k.op, id |-> k.id, payload |-> k.payload, result |-> res])]

NoRecord == UNCHANGED <<floor, ring>>

\* Mutant: the item handler records its early rejections too.
MutRecordRejection(p, k) == Record(p, k, "rejected")

\* Mutant: no handler records its early rejections.
MutNoRejectionRecorded(p, k) == NoRecord

\* The `reject` closure of the container, stash and trade handlers records the
\* rejection; the item handler answers a packet that it did not get to the
\* database without recording anything.
RecordRejection(p, k) ==
  IF k.op = "item" THEN NoRecord ELSE Record(p, k, "rejected")

ReplyTo(p, k, res) ==
  replies' = [replies EXCEPT ![p] =
    @ \cup {[op |-> k.op, id |-> k.id, payload |-> k.payload, result |-> res]}]

Handles(p) ==
  /\ open[p]
  /\ handled[p] < MaxPackets
  /\ handled' = [handled EXCEPT ![p] = @ + 1]
  /\ UNCHANGED open

(***************************************************************************)
(* The gates of a handler.                                                 *)
(***************************************************************************)
\* An action code the handler does not know is refused before the ring is read.
UnknownAction(p, k) ==
  /\ Handles(p)
  /\ RecordRejection(p, k)
  /\ ReplyTo(p, k, "rejected")
  /\ UNCHANGED <<rate, applied>>

\* A replay of a cached ActionID gets the cached result.
Echo(p, k) ==
  /\ Handles(p)
  /\ Hits(p, k) # {}
  /\ replies' = [replies EXCEPT ![p] = @ \cup {Cached(p, k)}]
  /\ NoRecord
  /\ UNCHANGED <<rate, applied>>

Stale(p, k) ==
  /\ Handles(p)
  /\ Hits(p, k) = {}
  /\ IsStale(p, k)
  /\ RecordRejection(p, k)
  /\ ReplyTo(p, k, "rejected")
  /\ UNCHANGED <<rate, applied>>

Passes(p, k) ==
  /\ Handles(p)
  /\ Hits(p, k) = {}
  /\ ~IsStale(p, k)

\* AllowAction: the window is full.
OverRate(p, k) ==
  /\ Passes(p, k)
  /\ rate[p] >= Allowed
  /\ RecordRejection(p, k)
  /\ ReplyTo(p, k, "rejected")
  /\ UNCHANGED <<rate, applied>>

Charge(p) ==
  /\ rate[p] < Allowed
  /\ rate' = [rate EXCEPT ![p] = @ + 1]

\* A bad section, a zero count, a zero item id, no account: never reaches the
\* database.  (A consume of zero items is recorded and is a Fail.)
Invalid(p, k) ==
  /\ k.payload \in Malformed
  /\ Passes(p, k)
  /\ Charge(p)
  /\ RecordRejection(p, k)
  /\ ReplyTo(p, k, "rejected")
  /\ UNCHANGED applied

\* The database refuses, or access is denied; the trade handler has no
\* correction for this case.
Fail(p, k, res) ==
  /\ res \in IF k.op = "trade" THEN {"rejected"} ELSE {"corrected", "rejected"}
  /\ k.payload \notin Malformed
  /\ Passes(p, k)
  /\ Charge(p)
  /\ Record(p, k, res)
  /\ ReplyTo(p, k, res)
  /\ UNCHANGED applied

\* The database commits.  A capped trade is answered "corrected".  A drop or a
\* pickup is also sent, with the actor's ActionID, to the players around.
Apply(p, k, res, audience) ==
  /\ res \in IF k.op = "trade" THEN {"ok", "corrected"} ELSE {"ok"}
  /\ k.payload \notin Malformed
  /\ k.op # "item" => audience = {}
  /\ Passes(p, k)
  /\ Charge(p)
  /\ Record(p, k, res)
  /\ applied' = [applied EXCEPT ![p][k] = @ + 1]
  /\ replies' = [q \in Player |->
       IF q = p \/ q \in audience
       THEN replies[q] \cup
              {[op |-> k.op, id |-> k.id, payload |-> k.payload, result |-> res]}
       ELSE replies[q]]

\* The oldest timestamp leaves the rolling window.
WindowSlides(p) ==
  /\ rate[p] > 0
  /\ rate' = [rate EXCEPT ![p] = @ - 1]
  /\ UNCHANGED <<open, floor, ring, handled, applied, replies>>

\* The session leaves the registry and clearSessionTracking drops its state.
Remove(p) ==
  /\ open[p]
  /\ open' = [open EXCEPT ![p] = FALSE]
  /\ floor' = [floor EXCEPT ![p] = -1]
  /\ ring' = [ring EXCEPT ![p] = [o \in Op |-> EmptyRing]]
  /\ rate' = [rate EXCEPT ![p] = 0]
  /\ UNCHANGED <<handled, applied, replies>>

\* A packet whose action code is one the handler knows.
HandleKnown(p, k) ==
  \/ Echo(p, k)
  \/ Stale(p, k)
  \/ OverRate(p, k)
  \/ Invalid(p, k)
  \/ \E res \in Result : Fail(p, k, res)
  \/ \E res \in Result, audience \in SUBSET (Player \ {p}) : Apply(p, k, res, audience)

\* Any client: packets with any opcode and any ActionID, in any order.
NextLedger ==
  \E p \in Player :
    \/ \E k \in Packet : UnknownAction(p, k) \/ HandleKnown(p, k)
    \/ WindowSlides(p)
    \/ Remove(p)

SpecLedger == InitLedger /\ [][NextLedger]_ledgerVars
-----------------------------------------------------------------------------
(***************************************************************************)
(* Properties.                                                             *)
(***************************************************************************)

\* The types of the ledger; a ring never outgrows its size.
TypeOKLedger ==
  /\ open \in [Player -> BOOLEAN]
  /\ floor \in [Player -> -1 .. MaxId]
  /\ rate \in [Player -> 0 .. Allowed]
  /\ handled \in [Player -> 0 .. MaxPackets]
  /\ applied \in [Player -> [Packet -> Nat]]
  /\ replies \in [Player -> SUBSET Reply]
  /\ \A p \in Player, o \in Op :
       /\ ring[p][o].slot \in Seq(Reply)
       /\ Len(ring[p][o].slot) <= CacheSize
       /\ ring[p][o].pos \in 1 .. CacheSize

\* An ActionID is applied at most once, whatever the client sends: not twice
\* under one opcode, and not under two ("a replayed ActionID echoes its cached
\* result and can never re-apply or cross-replay another opcode").
AtMostOnce ==
  \A p \in Player : \A k, l \in Packet :
    /\ applied[p][k] <= 1
    /\ k.id = l.id /\ applied[p][k] > 0 /\ applied[p][l] > 0 => k = l

\* The floor of a live session never goes down ("recordFloor advances the
\* shared monotonic ActionID floor").
FloorMonotone ==
  [][\A p \in Player : open'[p] => floor'[p] >= floor[p]]_ledgerVars

\* What the ring would echo is what happened: a cached ok was committed, a
\* cached rejection was not.
CacheTruthful ==
  \A p \in Player, o \in Op : \A n \in DOMAIN ring[p][o].slot :
    LET e == ring[p][o].slot[n]
        k == [op |-> e.op, id |-> e.id, payload |-> e.payload]
    IN (applied[p][k] = 0) <=> (e.result = "rejected" \/ (o # "trade" /\ e.result = "corrected"))

\* The types, and the truth of the cache.
CacheSound == TypeOKLedger /\ CacheTruthful
=============================================================================
