--------------------------- MODULE ItemLedgerProofs ---------------------------
(***************************************************************************)
(* Proofs about the ledger of item actions, for any number of sessions,    *)
(* ActionIDs and packets, any ring size and any rate.                      *)
(*                                                                         *)
(* With the item opcode alone the floor is what prevents a second          *)
(* application: the ring forgets, the floor does not.  The hypothesis is   *)
(* needed, since the other handlers record their early rejections and can  *)
(* so lower the floor (run ledger_cross_opcode).                           *)
(*                                                                         *)
(* The second half is about clients and network.  A packet of a client has *)
(* the number of its action, so an answer can be traced to one action      *)
(* (ClientInv), and what the server says of stash, container and trade     *)
(* actions is true (Honest).  The theorems on the ledger use no assumption *)
(* about the protocol.                                                     *)
(***************************************************************************)
EXTENDS ItemActionProtocol, WellFoundedInduction, TLAPS

\* The part of the types that the argument needs.
Types ==
  /\ open \in [Player -> BOOLEAN]
  /\ floor \in [Player -> -1 .. MaxId]
  /\ applied \in [Player -> [Packet -> Nat]]

\* Everything a live session has applied is at or below its floor.
BelowFloor ==
  \A p \in Player : \A k \in Packet :
    open[p] /\ applied[p][k] > 0 => k.id <= floor[p]

IInv == Types /\ BelowFloor /\ AtMostOnce

\* A step of one session: its floor stays or rises to the id of the packet, and
\* only a packet above the old floor is applied.
FloorStep(p, k) ==
  /\ open' = open
  /\ \/ floor' = floor /\ applied' = applied
     \/ /\ open[p]
        /\ k.id > floor[p]
        /\ floor' = [floor EXCEPT ![p] = k.id]
        /\ \/ applied' = applied
           \/ applied' = [applied EXCEPT ![p][k] = @ + 1]

USE MaxIdAssumption

\* Every outcome of the item handler is such a step.
LEMMA HandlerStep ==
  ASSUME Op = {"item"}, Types, NEW p \in Player, NEW k \in Packet,
         UnknownAction(p, k) \/ HandleKnown(p, k)
  PROVE  FloorStep(p, k)
<1>1. k.op = "item"
  BY DEF Packet
<1>2. CASE UnknownAction(p, k)
  BY <1>1, <1>2 DEF UnknownAction, Handles, RecordRejection, NoRecord, FloorStep
<1>3. CASE Echo(p, k)
  BY <1>3 DEF Echo, Handles, NoRecord, FloorStep
<1>4. CASE Stale(p, k)
  BY <1>1, <1>4 DEF Stale, Handles, RecordRejection, NoRecord, FloorStep
<1>5. CASE OverRate(p, k)
  BY <1>1, <1>5 DEF OverRate, Passes, Handles, RecordRejection, NoRecord, FloorStep
<1>6. CASE Invalid(p, k)
  BY <1>1, <1>6 DEF Invalid, Passes, Handles, RecordRejection, NoRecord, FloorStep
<1>7. k.id \in Int /\ floor[p] \in Int /\ (~IsStale(p, k) => k.id > floor[p])
  BY DEF IsStale, Types, Packet, ActionId
<1>8. CASE \E res \in Result : Fail(p, k, res)
  BY <1>7, <1>8 DEF Fail, Passes, Handles, Record, FloorStep
<1>9. CASE \E res \in Result, audience \in SUBSET (Player \ {p}) : Apply(p, k, res, audience)
  BY <1>7, <1>9 DEF Apply, Passes, Handles, Record, FloorStep
<1> QED
  BY <1>2, <1>3, <1>4, <1>5, <1>6, <1>8, <1>9 DEF HandleKnown

\* Such a step keeps the invariant.
LEMMA FloorStepKeeps ==
  ASSUME IInv, NEW p \in Player, NEW k \in Packet, FloorStep(p, k)
  PROVE  IInv'
<1> USE DEF IInv
<1>1. k.id \in -1 .. MaxId /\ \A l \in Packet : l.id \in Int
  BY DEF Packet, ActionId
<1>2. CASE floor' = floor /\ applied' = applied
  BY <1>2 DEF FloorStep, Types, BelowFloor, AtMostOnce
<1>3. CASE /\ open[p]
           /\ k.id > floor[p]
           /\ floor' = [floor EXCEPT ![p] = k.id]
           /\ \/ applied' = applied
              \/ applied' = [applied EXCEPT ![p][k] = @ + 1]
  <2>1. \A l \in Packet : l.id = k.id => applied[p][l] = 0
    BY <1>1, <1>3 DEF Types, BelowFloor
  <2>2. Types'
    <3>1. applied' \in [Player -> [Packet -> Nat]]
      <4>1. applied \in [Player -> [Packet -> Nat]]
        BY DEF Types
      <4>2. PICK c : c = [applied[p] EXCEPT ![k] = @ + 1]
        OBVIOUS
      <4>3. applied[p] \in [Packet -> Nat] /\ applied[p][k] \in Nat
        BY <4>1
      <4>4. c \in [Packet -> Nat]
        BY <4>2, <4>3
      <4>5. applied' = applied \/ applied' = [applied EXCEPT ![p] = c]
        BY <1>3, <4>2
      <4> QED
        BY <4>1, <4>4, <4>5
    <3>2. floor' \in [Player -> -1 .. MaxId]
      BY <1>1, <1>3 DEF Types
    <3> QED
      BY <3>1, <3>2 DEF FloorStep, Types
  <2>3. \A q \in Player : \A l \in Packet :
          applied'[q][l] = applied[q][l] \/ (q = p /\ l = k /\ applied'[q][l] = 1)
    BY <1>3, <2>1 DEF Types
  <2>4. \A q \in Player : floor'[q] = IF q = p THEN k.id ELSE floor[q]
    BY <1>3 DEF Types
  <2>5. open' = open
    BY DEF FloorStep
  <2>6. \A q \in Player : floor[q] \in Int /\ \A l \in Packet : applied[q][l] \in Nat
    BY DEF Types
  <2>7. BelowFloor'
    BY <1>1, <1>3, <2>3, <2>4, <2>5, <2>6 DEF BelowFloor
  <2>8. AtMostOnce'
    BY <2>1, <2>3, <2>6 DEF AtMostOnce
  <2> QED
    BY <2>2, <2>7, <2>8
<1> QED
  BY <1>2, <1>3 DEF FloorStep

\* The invariant holds initially and is kept by every step.
LEMMA LedgerInit == InitLedger => IInv
  BY DEF InitLedger, IInv, Types, BelowFloor, AtMostOnce

\* Every packet, and every loss of the session, keeps the invariant.
LEMMA LedgerNext ==
  ASSUME Op = {"item"}
  PROVE  IInv /\ [NextLedger]_ledgerVars => IInv'
<1> SUFFICES ASSUME IInv, [NextLedger]_ledgerVars PROVE IInv'
  OBVIOUS
<1>1. CASE UNCHANGED ledgerVars
  BY <1>1 DEF ledgerVars, IInv, Types, BelowFloor, AtMostOnce
<1>2. ASSUME NEW p \in Player, NEW k \in Packet,
             UnknownAction(p, k) \/ HandleKnown(p, k)
      PROVE  IInv'
  BY <1>2, HandlerStep, FloorStepKeeps DEF IInv
<1>3. ASSUME NEW p \in Player, WindowSlides(p)
      PROVE  IInv'
  BY <1>3 DEF WindowSlides, IInv, Types, BelowFloor, AtMostOnce
<1>4. ASSUME NEW p \in Player, Remove(p)
      PROVE  IInv'
  BY <1>4 DEF Remove, IInv, Types, BelowFloor, AtMostOnce
<1> QED
  BY <1>1, <1>2, <1>3, <1>4 DEF NextLedger

\* The invariant holds throughout.
LEMMA LedgerInvariance ==
  ASSUME Op = {"item"}
  PROVE  SpecLedger => []IInv
<1>1. IInv /\ [NextLedger]_ledgerVars => IInv'
  BY LedgerNext
<1> QED
  BY <1>1, LedgerInit, PTL DEF SpecLedger

\* Drop, pickup and consume are applied at most once per ActionID for any
\* client, however far the 256 cached results are behind.
THEOREM ItemAtMostOnce ==
  ASSUME Op = {"item"}
  PROVE  SpecLedger => []AtMostOnce
<1>1. IInv => AtMostOnce
  BY DEF IInv
<1> QED
  BY <1>1, LedgerInvariance, PTL

\* The floor of a live session never goes down while only item actions arrive.
THEOREM ItemFloorMonotone ==
  ASSUME Op = {"item"}
  PROVE  SpecLedger => FloorMonotone
<1> DEFINE Rises == \A p \in Player : open'[p] => floor'[p] >= floor[p]
<1>1. IInv /\ [NextLedger]_ledgerVars => [Rises]_ledgerVars
  <2> SUFFICES ASSUME IInv, NextLedger PROVE Rises
    OBVIOUS
  <2>1. \A q \in Player : floor[q] \in Int
    BY DEF IInv, Types
  <2>2. ASSUME NEW p \in Player, NEW k \in Packet,
               UnknownAction(p, k) \/ HandleKnown(p, k)
        PROVE  Rises
    <3>1. FloorStep(p, k)
      BY <2>2, HandlerStep DEF IInv
    <3>2. k.id \in Int
      BY DEF Packet, ActionId
    <3> QED
      BY <2>1, <3>1, <3>2 DEF FloorStep, IInv, Types
  <2>3. ASSUME NEW p \in Player, WindowSlides(p)
        PROVE  Rises
    BY <2>1, <2>3 DEF WindowSlides
  <2>4. ASSUME NEW p \in Player, Remove(p)
        PROVE  Rises
    BY <2>1, <2>4 DEF Remove, IInv, Types
  <2> QED
    BY <2>2, <2>3, <2>4 DEF NextLedger
<1> QED
  BY <1>1, LedgerInvariance, PTL DEF SpecLedger, FloorMonotone

-----------------------------------------------------------------------------
(***************************************************************************)
(* The cached results.                                                     *)
(***************************************************************************)
Caches == {r \in [slot: Seq(Reply), pos: 1 .. CacheSize] : Len(r.slot) <= CacheSize}

EntryOf(k, res) == [op |-> k.op, id |-> k.id, payload |-> k.payload, result |-> res]

\* The remaining types of the ledger, which hold for any opcodes.
LedgerTypes ==
  /\ Types
  /\ ring \in [Player -> [Op -> Caches]]
  /\ rate \in [Player -> 0 .. Allowed]
  /\ handled \in [Player -> 0 .. MaxPackets]
  /\ replies \in [Player -> SUBSET Reply]

\* A recorded result is put into a ring of its size: it overwrites one entry or
\* is added, and the other entries stay.
LEMMA Pushed ==
  ASSUME NEW r \in Caches, NEW e \in Reply
  PROVE  /\ Push(r, e) \in Caches
         /\ \A n \in DOMAIN Push(r, e).slot :
              Push(r, e).slot[n] = e \/ \E m \in DOMAIN r.slot : Push(r, e).slot[n] = r.slot[m]
<1> DEFINE s == Push(r, e).slot
<1>1. /\ r.slot \in Seq(Reply) /\ Len(r.slot) \in Nat /\ Len(r.slot) <= CacheSize
      /\ r.pos \in 1 .. CacheSize /\ CacheSize \in Nat \ {0}
  BY CacheSizeAssumption DEF Caches
<1>2. Push(r, e).pos \in 1 .. CacheSize
  BY <1>1 DEF Push
<1>3. CASE r.pos > Len(r.slot)
  <2>1. s = Append(r.slot, e)
    BY <1>3 DEF Push
  <2>2. s \in Seq(Reply) /\ Len(s) = Len(r.slot) + 1 /\ Len(s) <= CacheSize
    BY <2>1, <1>1, <1>3
  <2>3. \A n \in DOMAIN s : s[n] = e \/ (n \in DOMAIN r.slot /\ s[n] = r.slot[n])
    BY <2>1, <1>1
  <2> QED
    BY <1>2, <2>2, <2>3 DEF Push, Caches
<1>4. CASE ~(r.pos > Len(r.slot))
  <2>1. s = [r.slot EXCEPT ![r.pos] = e]
    BY <1>4 DEF Push
  <2>2. s \in Seq(Reply) /\ Len(s) = Len(r.slot)
    BY <2>1, <1>1, <1>4
  <2>3. \A n \in DOMAIN s : s[n] = e \/ (n \in DOMAIN r.slot /\ s[n] = r.slot[n])
    BY <2>1, <1>1
  <2> QED
    BY <1>1, <1>2, <2>2, <2>3 DEF Push, Caches
<1> QED
  BY <1>3, <1>4

\* A cached ActionID has an entry, and the one echoed is such an entry.
LEMMA CachedIsEntry ==
  ASSUME LedgerTypes, NEW p \in Player, NEW k \in Packet, Hits(p, k) # {}
  PROVE  /\ Cached(p, k) \in Reply
         /\ \E n \in Hits(p, k) : Cached(p, k) = ring[p][k.op].slot[n]
<1> DEFINE H == Hits(p, k)
<1>1. k.op \in Op /\ ring[p][k.op] \in Caches
  BY DEF LedgerTypes, Packet
<1>2. /\ ring[p][k.op].slot \in Seq(Reply)
      /\ H \subseteq DOMAIN ring[p][k.op].slot /\ H \subseteq Nat
  BY <1>1 DEF Hits, Caches
<1> HIDE DEF H
<1> DEFINE R == {ss \in Nat \X Nat : ss[1] < ss[2]}
<1>3. IsWellFoundedOn(R, Nat)
  BY NatLessThanWellFounded DEF OpToRel
<1>4. PICK n \in H : \A m \in H : n <= m
  <2>1. PICK n \in H : \A m \in H : ~(<<m, n>> \in R)
    <3> HIDE DEF R
    <3> QED
      BY <1>2, <1>3, WFMin DEF H
  <2>2. ASSUME NEW m \in H PROVE n <= m
    <3>1. m \in Nat /\ n \in Nat /\ ~(<<m, n>> \in R)
      BY <1>2, <2>1
    <3>2. ~(m < n)
      BY <3>1
    <3> QED
      BY <3>1, <3>2
  <2> QED
    BY <2>2
<1> DEFINE c == CHOOSE i \in H : \A m \in H : i <= m
<1>5. c \in H
  BY <1>4
<1>6. Cached(p, k) = ring[p][k.op].slot[c]
  BY DEF H, Cached
<1> HIDE DEF c
<1>7. c \in DOMAIN ring[p][k.op].slot
  BY <1>2, <1>5
<1> QED
  BY <1>2, <1>5, <1>6, <1>7 DEF H

\* Recording keeps the types of floor and rings.
LEMMA RecordTypes ==
  ASSUME LedgerTypes, NEW p \in Player, NEW k \in Packet, NEW res \in Result,
         Record(p, k, res) \/ NoRecord
  PROVE  floor' \in [Player -> -1 .. MaxId] /\ ring' \in [Player -> [Op -> Caches]]
<1>1. CASE NoRecord
  BY <1>1 DEF NoRecord, LedgerTypes, Types
<1>2. CASE Record(p, k, res)
  <2>1. k.op \in Op /\ k.id \in -1 .. MaxId /\ EntryOf(k, res) \in Reply
    BY DEF Packet, ActionId, EntryOf, Reply
  <2>2. PICK e : e = EntryOf(k, res)
    OBVIOUS
  <2>3. ring' = [ring EXCEPT ![p][k.op] = Push(@, e)] /\ floor' = [floor EXCEPT ![p] = k.id]
    BY <1>2, <2>2 DEF Record, EntryOf
  <2>4. Push(ring[p][k.op], e) \in Caches
    BY <2>1, <2>2, Pushed DEF LedgerTypes
  <2> QED
    BY <2>1, <2>3, <2>4 DEF LedgerTypes, Types
<1> QED
  BY <1>1, <1>2

\* The answer to one packet is a reply, sent to one player or to several.
LEMMA ReplyTypes ==
  ASSUME LedgerTypes, NEW p \in Player, NEW k \in Packet, NEW res \in Result,
         ReplyTo(p, k, res)
  PROVE  replies' \in [Player -> SUBSET Reply]
<1>1. PICK e : e = EntryOf(k, res)
  OBVIOUS
<1>2. e \in Reply
  BY <1>1 DEF EntryOf, Packet, Reply
<1>3. replies' = [replies EXCEPT ![p] = @ \cup {e}]
  BY <1>1 DEF ReplyTo, EntryOf
<1> QED
  BY <1>2, <1>3 DEF LedgerTypes

\* Every step keeps the types, for any opcodes.
LEMMA TypesNext == LedgerTypes /\ [NextLedger]_ledgerVars => LedgerTypes'
<1> SUFFICES ASSUME LedgerTypes, [NextLedger]_ledgerVars PROVE LedgerTypes'
  OBVIOUS
<1> USE AllowedAssumption, MaxPacketsAssumption
<1>1. CASE UNCHANGED ledgerVars
  BY <1>1 DEF ledgerVars, LedgerTypes, Types
<1>2. ASSUME NEW p \in Player, NEW k \in Packet,
             UnknownAction(p, k) \/ HandleKnown(p, k)
      PROVE  LedgerTypes'
  <2>1. open' = open /\ handled' \in [Player -> 0 .. MaxPackets]
    <3>1. Handles(p)
      BY <1>2 DEF UnknownAction, HandleKnown, Echo, Stale, OverRate, Invalid, Fail, Apply, Passes
    <3> QED
      BY <3>1 DEF Handles, LedgerTypes
  <2>2. rate' \in [Player -> 0 .. Allowed]
    <3>1. UNCHANGED rate \/ Charge(p)
      BY <1>2 DEF UnknownAction, HandleKnown, Echo, Stale, OverRate, Invalid, Fail, Apply
    <3> QED
      BY <3>1 DEF Charge, LedgerTypes
  <2>3. applied' \in [Player -> [Packet -> Nat]]
    <3>1. applied' = applied \/ applied' = [applied EXCEPT ![p][k] = @ + 1]
      BY <1>2 DEF UnknownAction, HandleKnown, Echo, Stale, OverRate, Invalid, Fail, Apply
    <3>2. applied \in [Player -> [Packet -> Nat]] /\ applied[p][k] + 1 \in Nat
      BY DEF LedgerTypes, Types
    <3>3. CASE applied' = [applied EXCEPT ![p][k] = @ + 1]
      BY <3>2, <3>3
    <3> QED
      BY <3>1, <3>2, <3>3
  <2>4. floor' \in [Player -> -1 .. MaxId] /\ ring' \in [Player -> [Op -> Caches]]
    <3>1. NoRecord \/ \E res \in Result : Record(p, k, res)
      BY <1>2 DEF UnknownAction, HandleKnown, Echo, Stale, OverRate, Invalid, Fail, Apply,
                  RecordRejection, Result
    <3>2. "ok" \in Result
      BY DEF Result
    <3> QED
      BY <3>1, <3>2, RecordTypes
  <2>5. replies' \in [Player -> SUBSET Reply]
    <3>1. CASE \E res \in Result : ReplyTo(p, k, res)
      BY <3>1, ReplyTypes
    <3>2. CASE Echo(p, k)
      <4>1. Cached(p, k) \in Reply /\ replies' = [replies EXCEPT ![p] = @ \cup {Cached(p, k)}]
        BY <3>2, CachedIsEntry DEF Echo
      <4> QED
        BY <4>1 DEF LedgerTypes
    <3>3. ASSUME NEW res \in Result, NEW audience \in SUBSET (Player \ {p}),
                 Apply(p, k, res, audience)
          PROVE  replies' \in [Player -> SUBSET Reply]
      <4>1. PICK e : e = EntryOf(k, res)
        OBVIOUS
      <4>2. e \in Reply
        BY <4>1 DEF EntryOf, Packet, Reply
      <4>3. replies' = [q \in Player |-> IF q = p \/ q \in audience
                                         THEN replies[q] \cup {e} ELSE replies[q]]
        BY <3>3, <4>1 DEF Apply, EntryOf
      <4> QED
        BY <4>2, <4>3 DEF LedgerTypes
    <3>4. "rejected" \in Result
      BY DEF Result
    <3> QED
      BY <1>2, <3>1, <3>2, <3>3, <3>4
         DEF UnknownAction, HandleKnown, Stale, OverRate, Invalid, Fail
  <2> QED
    BY <2>1, <2>2, <2>3, <2>4, <2>5 DEF LedgerTypes, Types
<1>3. ASSUME NEW p \in Player, WindowSlides(p)
      PROVE  LedgerTypes'
  BY <1>3 DEF WindowSlides, LedgerTypes, Types
<1>4. ASSUME NEW p \in Player, Remove(p)
      PROVE  LedgerTypes'
  <2>1. EmptyRing \in Caches
    BY CacheSizeAssumption DEF EmptyRing, Caches
  <2>2. ring' \in [Player -> [Op -> Caches]]
    BY <1>4, <2>1 DEF Remove, LedgerTypes
  <2>3. /\ open' \in [Player -> BOOLEAN] /\ floor' \in [Player -> -1 .. MaxId]
        /\ rate' \in [Player -> 0 .. Allowed]
    BY <1>4 DEF Remove, LedgerTypes, Types
  <2> QED
    BY <1>4, <2>2, <2>3 DEF Remove, LedgerTypes, Types
<1> QED
  BY <1>1, <1>2, <1>3, <1>4 DEF NextLedger

\* Whether a cached result says that the action was not applied.
NotApplied(e) == e.result = "rejected" \/ (e.op # "trade" /\ e.result = "corrected")

\* An entry lies in the ring of its opcode, at or below the floor while the
\* session lives, and says what happened.
EntrySound(p, o, e) ==
  /\ e.op = o
  /\ open[p] /\ e.id <= floor[p]
  /\ (applied[p][PacketOf(e)] = 0) <=> NotApplied(e)

CacheInv ==
  \A p \in Player, o \in Op : \A n \in DOMAIN ring[p][o].slot :
    EntrySound(p, o, ring[p][o].slot[n])

\* A step that records: above the floor, with an outcome that agrees with what
\* the database did.
RecordStep(p, k, res) ==
  /\ open[p] /\ k.id > floor[p]
  /\ Record(p, k, res)
  /\ open' = open
  /\ \/ applied' = applied /\ res \in {"corrected", "rejected"}
     \/ applied' = [applied EXCEPT ![p][k] = @ + 1] /\ res = "ok"

\* Every outcome of the item handler records above the floor or nothing.
LEMMA HandlerRecords ==
  ASSUME Op = {"item"}, Types, NEW p \in Player, NEW k \in Packet,
         UnknownAction(p, k) \/ HandleKnown(p, k)
  PROVE  \/ UNCHANGED <<open, floor, ring, applied>>
         \/ \E res \in Result : RecordStep(p, k, res)
<1>1. k.op = "item"
  BY DEF Packet
<1>2. CASE UnknownAction(p, k) \/ Echo(p, k) \/ Stale(p, k) \/ OverRate(p, k) \/ Invalid(p, k)
  BY <1>1, <1>2 DEF UnknownAction, Echo, Stale, OverRate, Invalid, Passes, Handles,
                    RecordRejection, NoRecord
<1>3. k.id \in Int /\ floor[p] \in Int /\ (~IsStale(p, k) => k.id > floor[p])
  BY DEF IsStale, Types, Packet, ActionId
<1>4. ASSUME NEW res \in Result, Fail(p, k, res) PROVE RecordStep(p, k, res)
  BY <1>1, <1>3, <1>4 DEF Fail, Passes, Handles, RecordStep
<1>5. ASSUME NEW res \in Result, NEW audience \in SUBSET (Player \ {p}),
             Apply(p, k, res, audience)
      PROVE  RecordStep(p, k, res)
  BY <1>1, <1>3, <1>5 DEF Apply, Passes, Handles, RecordStep
<1> QED
  BY <1>2, <1>4, <1>5 DEF HandleKnown

\* Such a step adds a sound entry and disturbs no other: the ids of the others
\* are at or below the old floor.
LEMMA RecordKeepsCache ==
  ASSUME Op = {"item"}, LedgerTypes, IInv, CacheInv,
         NEW p \in Player, NEW k \in Packet, NEW res \in Result, RecordStep(p, k, res)
  PROVE  CacheInv'
<1>1. k.op = "item" /\ k.id \in Int /\ k.id \in -1 .. MaxId
  BY DEF Packet, ActionId
<1>2. PICK e : e = EntryOf(k, res)
  OBVIOUS
<1>3. /\ e \in Reply /\ e.op = k.op /\ e.id = k.id /\ e.payload = k.payload /\ e.result = res
      /\ PacketOf(e) = k
  BY <1>2 DEF EntryOf, Packet, Reply, PacketOf
<1>4. /\ ring' = [ring EXCEPT ![p][k.op] = Push(@, e)]
      /\ floor' = [floor EXCEPT ![p] = k.id] /\ open' = open /\ open[p] /\ k.id > floor[p]
  BY <1>2 DEF RecordStep, Record, EntryOf
<1>5. \A l \in Packet : l.id = k.id => applied[p][l] = 0
  BY <1>1, <1>4 DEF IInv, Types, BelowFloor
<1>6. ASSUME NEW q \in Player, NEW o \in Op, NEW d \in Reply, EntrySound(q, o, d)
      PROVE  EntrySound(q, o, d)'
  <2>1. d.id \in Int /\ PacketOf(d) \in Packet /\ PacketOf(d).id = d.id /\ floor[q] \in Int
    BY DEF Reply, Packet, PacketOf, ActionId, LedgerTypes, Types
  <2>2. CASE q = p
    <3>1. d.id < k.id /\ floor'[q] = k.id
      BY <1>1, <1>4, <1>6, <2>1, <2>2 DEF EntrySound, LedgerTypes, Types
    <3>2. PacketOf(d) # k
      BY <3>1, <2>1, <1>1
    <3>3. applied'[q][PacketOf(d)] = applied[q][PacketOf(d)]
      <4>1. applied' = applied \/ applied' = [applied EXCEPT ![p][k] = @ + 1]
        BY DEF RecordStep
      <4> QED
        BY <4>1, <3>2, <2>1, <2>2 DEF LedgerTypes, Types
    <3> QED
      BY <1>4, <1>6, <2>1, <1>1, <3>1, <3>3 DEF EntrySound, PacketOf, NotApplied
  <2>3. CASE q # p
    <3>1. floor'[q] = floor[q] /\ applied'[q] = applied[q]
      BY <2>3, <1>4 DEF RecordStep, LedgerTypes, Types
    <3> QED
      BY <3>1, <1>4, <1>6 DEF EntrySound, PacketOf, NotApplied
  <2> QED
    BY <2>2, <2>3
<1>7. EntrySound(p, k.op, e)'
  <2>1. floor'[p] = k.id /\ applied[p][k] = 0
    BY <1>4, <1>5 DEF LedgerTypes, Types
  <2>2. CASE applied' = applied /\ res \in {"corrected", "rejected"}
    BY <1>1, <1>3, <1>4, <2>1, <2>2 DEF EntrySound, NotApplied
  <2>3. CASE applied' = [applied EXCEPT ![p][k] = @ + 1] /\ res = "ok"
    <3>1. applied'[p][k] = 1
      BY <2>1, <2>3 DEF LedgerTypes, Types
    <3> QED
      BY <1>1, <1>3, <1>4, <2>1, <2>3, <3>1 DEF EntrySound, NotApplied
  <2> QED
    BY <2>2, <2>3 DEF RecordStep
<1>8. ASSUME NEW q \in Player, NEW o \in Op, NEW n \in DOMAIN ring'[q][o].slot
      PROVE  EntrySound(q, o, ring[q][o].slot[n])'
  <2>1. \A m \in DOMAIN ring[q][o].slot :
          ring[q][o].slot[m] \in Reply /\ EntrySound(q, o, ring[q][o].slot[m])
    BY DEF CacheInv, LedgerTypes, Caches
  <2>2. CASE q = p /\ o = k.op
    <3>1. ring'[q][o] = Push(ring[q][o], e) /\ ring[q][o] \in Caches
      BY <1>4, <2>2 DEF LedgerTypes
    <3>2. \/ ring'[q][o].slot[n] = e
          \/ \E m \in DOMAIN ring[q][o].slot : ring'[q][o].slot[n] = ring[q][o].slot[m]
      BY <1>3, <3>1, Pushed
    <3> QED
      BY <2>1, <2>2, <3>2, <1>6, <1>7
  <2>3. CASE ~(q = p /\ o = k.op)
    <3>1. ring'[q][o] = ring[q][o]
      BY <1>4, <2>3 DEF LedgerTypes
    <3> QED
      BY <2>1, <3>1, <1>6
  <2> QED
    BY <2>2, <2>3
<1> QED
  BY <1>8 DEF CacheInv

\* Every step keeps the cache sound; the end of a session empties its rings.
LEMMA CacheNext ==
  ASSUME Op = {"item"}
  PROVE  LedgerTypes /\ IInv /\ CacheInv /\ [NextLedger]_ledgerVars => CacheInv'
<1> SUFFICES ASSUME LedgerTypes, IInv, CacheInv, [NextLedger]_ledgerVars PROVE CacheInv'
  OBVIOUS
<1>1. ASSUME UNCHANGED <<open, floor, ring, applied>> PROVE CacheInv'
  <2>1. ASSUME NEW p \in Player, NEW o \in Op, NEW n \in DOMAIN ring[p][o].slot
        PROVE  EntrySound(p, o, ring[p][o].slot[n])'
    <3>1. EntrySound(p, o, ring[p][o].slot[n])
      BY DEF CacheInv
    <3> QED
      BY <1>1, <3>1 DEF EntrySound, PacketOf, NotApplied
  <2>2. ring' = ring
    BY <1>1
  <2> QED
    BY <2>1, <2>2 DEF CacheInv
<1>2. ASSUME NEW p \in Player, NEW k \in Packet,
             UnknownAction(p, k) \/ HandleKnown(p, k)
      PROVE  CacheInv'
  BY <1>1, <1>2, HandlerRecords, RecordKeepsCache DEF IInv
<1>3. ASSUME NEW p \in Player, WindowSlides(p)
      PROVE  CacheInv'
  BY <1>1, <1>3 DEF WindowSlides
<1>4. ASSUME NEW p \in Player, Remove(p)
      PROVE  CacheInv'
  <2> SUFFICES ASSUME NEW q \in Player, NEW o \in Op, NEW n \in DOMAIN ring'[q][o].slot
               PROVE  EntrySound(q, o, ring[q][o].slot[n])'
    BY DEF CacheInv
  <2>1. /\ ring' = [ring EXCEPT ![p] = [x \in Op |-> EmptyRing]]
        /\ open' = [open EXCEPT ![p] = FALSE] /\ floor' = [floor EXCEPT ![p] = -1]
        /\ applied' = applied
    BY <1>4 DEF Remove
  <2>2. q # p
    <3>1. ASSUME q = p PROVE FALSE
      <4>1. ring'[q][o] = EmptyRing
        BY <2>1, <3>1 DEF LedgerTypes
      <4>2. DOMAIN ring'[q][o].slot = {}
        BY <4>1 DEF EmptyRing
      <4> QED
        BY <4>2
    <3> QED
      BY <3>1
  <2>3. ring'[q] = ring[q] /\ open'[q] = open[q] /\ floor'[q] = floor[q]
    BY <2>1, <2>2 DEF LedgerTypes, Types
  <2>4. EntrySound(q, o, ring[q][o].slot[n])
    BY <2>3 DEF CacheInv
  <2> QED
    BY <2>1, <2>3, <2>4 DEF EntrySound, PacketOf, NotApplied
<1>5. CASE UNCHANGED ledgerVars
  BY <1>1, <1>5 DEF ledgerVars
<1> QED
  BY <1>2, <1>3, <1>4, <1>5 DEF NextLedger

\* The types and the sound cache hold initially.
LEMMA CacheInit == InitLedger => LedgerTypes /\ CacheInv
<1> SUFFICES ASSUME InitLedger PROVE LedgerTypes /\ CacheInv
  OBVIOUS
<1>1. EmptyRing \in Caches /\ DOMAIN EmptyRing.slot = {}
  BY CacheSizeAssumption DEF EmptyRing, Caches
<1>2. ring = [p \in Player |-> [o \in Op |-> EmptyRing]]
  BY DEF InitLedger
<1>3. LedgerTypes
  BY <1>1, <1>2, AllowedAssumption, MaxPacketsAssumption DEF InitLedger, LedgerTypes, Types
<1>4. ASSUME NEW p \in Player, NEW o \in Op PROVE DOMAIN ring[p][o].slot = {}
  BY <1>1, <1>2
<1> QED
  BY <1>3, <1>4 DEF CacheInv

\* The rings keep their size for any opcodes, and with the item opcode alone the
\* result echoed to a replayed ActionID is what the database did: a cached ok was
\* committed, a cached rejection or correction was not and never will be.
THEOREM ItemCache ==
  ASSUME Op = {"item"}
  PROVE  SpecLedger => []CacheSound
<1>1. LedgerTypes /\ IInv /\ CacheInv => CacheSound
  <2> SUFFICES ASSUME LedgerTypes, CacheInv PROVE CacheSound
    OBVIOUS
  <2>1. TypeOKLedger
    BY DEF LedgerTypes, Types, Caches, TypeOKLedger
  <2>2. ASSUME NEW p \in Player, NEW o \in Op, NEW n \in DOMAIN ring[p][o].slot
        PROVE  LET e == ring[p][o].slot[n]
                   k == [op |-> e.op, id |-> e.id, payload |-> e.payload]
               IN (applied[p][k] = 0)
                    <=> (e.result = "rejected" \/ (o # "trade" /\ e.result = "corrected"))
    <3>1. EntrySound(p, o, ring[p][o].slot[n])
      BY DEF CacheInv
    <3> QED
      BY <3>1 DEF EntrySound, NotApplied, PacketOf
  <2> QED
    BY <2>1, <2>2 DEF CacheSound, CacheTruthful
<1>2. LedgerTypes /\ IInv /\ CacheInv /\ [NextLedger]_ledgerVars => CacheInv'
  BY CacheNext
<1>3. IInv /\ [NextLedger]_ledgerVars => IInv'
  BY LedgerNext
<1>4. SpecLedger => [](LedgerTypes /\ IInv /\ CacheInv)
  BY <1>2, <1>3, LedgerInit, CacheInit, TypesNext, PTL DEF SpecLedger
<1> QED
  BY <1>1, <1>4, PTL
-----------------------------------------------------------------------------
(***************************************************************************)
(* The clients and the network over the ledger (ItemActionProtocol).       *)
(*                                                                         *)
(* The packets of an action are the same bytes wherever they are: pending  *)
(* at the client, under way, or committed.                                 *)
(***************************************************************************)
Packets(p) ==
  {d.packet : d \in net[p]} \cup {PacketOf(e) : e \in pending[p]}
    \cup {k \in Packet : applied[p][k] > 0}

Datagram == [seq: Nat, packet: Packet]

ClientTypes ==
  /\ next \in [Player -> 0 .. MaxActions] /\ started \in [Player -> 0 .. MaxActions]
  /\ pending \in [Player -> SUBSET Entry]
  /\ outcome \in [Player -> [Payload -> Result \cup {"none"}]]
  /\ notified \in [Player -> SUBSET Payload]
  /\ sent \in [Player -> Nat] /\ net \in [Player -> SUBSET Datagram]
  /\ restarts \in [Player -> Nat]

\* A payload names one packet, and on the first level an ActionID does, too.
Names(p) ==
  /\ next[p] <= started[p]
  /\ \A k \in Packets(p) :
       /\ k.payload <= started[p] /\ k.id >= 1 /\ k.id <= MaxActions
       /\ restarts[p] = 0 => k.id <= next[p]
  /\ \A k, l \in Packets(p) :
       k.payload = l.payload \/ (restarts[p] = 0 /\ k.id = l.id) => k = l
  /\ \A d \in net[p] : d.seq <= sent[p]

\* A pending action is undecided, and there is one entry for it.
Undecided(p) ==
  /\ \A e, f \in pending[p] : e.payload = f.payload => e = f
  /\ \A e \in pending[p] : outcome[p][e.payload] = "none"
  /\ \A x \in Payload : outcome[p][x] # "none" => x <= started[p]

ClientInv == ClientTypes /\ \A p \in Player : Names(p) /\ Undecided(p)

\* What the server says of a player's stash, container or trade action is so: an "ok", sent
\* or cached.  (The answer to an item action is told to others as well.)
Tells(p, m) == m.op # "item" /\ m.result = "ok" => applied[p][PacketOf(m)] > 0
Honest ==
  \A p \in Player :
    /\ \A m \in replies[p] : Tells(p, m)
    /\ \A o \in Op : \A n \in DOMAIN ring[p][o].slot :
         ring[p][o].slot[n].op = o /\ Tells(p, ring[p][o].slot[n])

\* What a handler does with a packet whose action code it knows: it echoes a cached result,
\* refuses without recording, records a refusal, or commits and records that.
LEMMA HandleCases ==
  ASSUME LedgerTypes, NEW p \in Player, NEW k \in Packet, HandleKnown(p, k)
  PROVE  /\ open[p] /\ open' = open
         /\ \/ /\ NoRecord /\ applied' = applied
               /\ \E n \in Hits(p, k) :
                    replies' = [replies EXCEPT ![p] = @ \cup {ring[p][k.op].slot[n]}]
            \/ /\ NoRecord /\ applied' = applied
               /\ k.op = "item" /\ ReplyTo(p, k, "rejected")
            \/ /\ Hits(p, k) = {} /\ applied' = applied
               /\ \E res \in Result \ {"ok"} : Record(p, k, res) /\ ReplyTo(p, k, res)
            \/ /\ Hits(p, k) = {} /\ applied' = [applied EXCEPT ![p][k] = @ + 1]
               /\ \E res \in Result, audience \in SUBSET (Player \ {p}) :
                    /\ k.op # "item" => audience = {}
                    /\ Record(p, k, res)
                    /\ replies' = [q \in Player |->
                                     IF q = p \/ q \in audience
                                     THEN replies[q] \cup {EntryOf(k, res)} ELSE replies[q]]
<1>1. open[p] /\ open' = open
  BY DEF HandleKnown, Echo, Stale, OverRate, Invalid, Fail, Apply, Passes, Handles
<1>2. "rejected" \in Result \ {"ok"}
  BY DEF Result
<1>3. CASE Echo(p, k)
  BY <1>1, <1>3, CachedIsEntry DEF Echo
<1>4. CASE Stale(p, k) \/ OverRate(p, k) \/ Invalid(p, k)
  <2>1. /\ Hits(p, k) = {} /\ applied' = applied /\ RecordRejection(p, k)
        /\ ReplyTo(p, k, "rejected")
    BY <1>4 DEF Stale, OverRate, Invalid, Passes
  <2> QED
    BY <1>1, <1>2, <2>1 DEF RecordRejection
<1>5. ASSUME NEW res \in Result, Fail(p, k, res) PROVE res # "ok" /\ Record(p, k, res)
                 /\ ReplyTo(p, k, res) /\ Hits(p, k) = {} /\ applied' = applied
  BY <1>5 DEF Fail, Passes
<1>6. ASSUME NEW res \in Result, NEW audience \in SUBSET (Player \ {p}),
             Apply(p, k, res, audience)
      PROVE  /\ Hits(p, k) = {} /\ applied' = [applied EXCEPT ![p][k] = @ + 1]
             /\ k.op # "item" => audience = {}
             /\ Record(p, k, res)
             /\ replies' = [q \in Player |->
                              IF q = p \/ q \in audience
                              THEN replies[q] \cup {EntryOf(k, res)} ELSE replies[q]]
  BY <1>6, Zenon DEF Apply, Passes, EntryOf
<1>7. CASE \E res \in Result : Fail(p, k, res)
  BY <1>1, <1>5, <1>7
<1>8. CASE \E res \in Result, audience \in SUBSET (Player \ {p}) : Apply(p, k, res, audience)
  <2>1. PICK res \in Result, audience \in SUBSET (Player \ {p}) : Apply(p, k, res, audience)
    BY <1>8
  <2>2. /\ Hits(p, k) = {} /\ applied' = [applied EXCEPT ![p][k] = @ + 1]
        /\ k.op # "item" => audience = {}
        /\ Record(p, k, res)
        /\ replies' = [q \in Player |->
                         IF q = p \/ q \in audience
                         THEN replies[q] \cup {EntryOf(k, res)} ELSE replies[q]]
    BY <1>6, <2>1, Zenon
  <2> QED
    BY <1>1, <2>2, Zenon
<1> QED
  BY <1>3, <1>4, <1>7, <1>8 DEF HandleKnown

\* The packets of a client are packets.
LEMMA PacketsTyped ==
  ASSUME ClientTypes, NEW p \in Player
  PROVE  /\ Packets(p) \subseteq Packet
         /\ \A e \in pending[p] : e \in Entry /\ PacketOf(e) \in Packets(p)
         /\ \A d \in net[p] : d \in Datagram /\ d.packet \in Packets(p)
<1>1. \A e \in pending[p] : e \in Entry
  BY DEF ClientTypes
<1>2. \A d \in net[p] : d \in Datagram
  BY DEF ClientTypes
<1>3. \A e \in Entry : PacketOf(e) \in Packet
  BY DEF Entry, PacketOf, Packet
<1>4. \A d \in Datagram : d.packet \in Packet
  BY DEF Datagram
<1> QED
  BY <1>1, <1>2, <1>3, <1>4 DEF Packets

\* Every step of the protocol is, for the ledger, a step of some client's or nothing.
LEMMA ProtocolStep ==
  ASSUME ClientTypes, [Next]_vars
  PROVE  [NextLedger]_ledgerVars
<1>1. CASE UNCHANGED vars
  BY <1>1 DEF vars, ledgerVars
<1>2. ASSUME NEW p \in Player, NEW d \in net[p], Receive(p, d) PROVE NextLedger
  <2>1. d.packet \in Packet
    BY PacketsTyped
  <2> QED
    BY <1>2, <2>1 DEF Receive, NextLedger
<1>3. ASSUME NEW p \in Player, Server(p) PROVE NextLedger
  BY <1>3 DEF Server, NextLedger
<1>4. ASSUME NEW p \in Player,
             \/ \E op \in Op, ok \in BOOLEAN, n \in 0 .. started[p] : SendAction(p, op, ok, n)
             \/ \E e \in pending[p] : Retransmit(p, e) \/ Prune(p, e)
             \/ \E m \in replies[p], n \in 0 .. started[p] :
                  (\E e \in pending[p] : TakeReply(p, m, e, n)) \/ TakeOthersUpdate(p, m, n)
             \/ LevelLoad(p)
      PROVE  UNCHANGED ledgerVars
  BY <1>4 DEF SendAction, Retransmit, Prune, TakeReply, TakeOthersUpdate, LevelLoad
<1> QED
  BY <1>1, <1>2, <1>3, <1>4 DEF Next

\* No new packet: the names of a player's packets stay.
LEMMA NamesKept ==
  ASSUME ClientInv, NEW q \in Player, Packets(q)' \subseteq Packets(q),
         started'[q] = started[q],
         \/ next'[q] = next[q] /\ restarts'[q] = restarts[q]
         \/ next'[q] = 0 /\ restarts'[q] > 0,
         \A d \in net'[q] : d.seq <= sent'[q]
  PROVE  Names(q)'
<1>1. Names(q) /\ started[q] \in Nat /\ restarts[q] \in Nat /\ next[q] \in Nat
  BY MaxActionsAssumption DEF ClientInv, ClientTypes
<1>2. next'[q] <= started'[q]
  BY <1>1 DEF Names
<1>3. ASSUME NEW k \in Packets(q)'
      PROVE  /\ k.payload <= started'[q] /\ k.id >= 1 /\ k.id <= MaxActions
             /\ restarts'[q] = 0 => k.id <= next'[q]
  BY <1>1, <1>3 DEF Names
<1>4. ASSUME NEW k \in Packets(q)', NEW l \in Packets(q)',
             k.payload = l.payload \/ (restarts'[q] = 0 /\ k.id = l.id)
      PROVE  k = l
  BY <1>1, <1>4 DEF Names
<1> QED
  BY <1>2, <1>3, <1>4 DEF Names

\* A new action: its payload is new, and on the first level its ActionID is.
LEMMA SendKeeps ==
  ASSUME ClientInv, LedgerTypes, NEW p \in Player, NEW op \in Op, NEW ok \in BOOLEAN,
         NEW n \in 0 .. started[p], SendAction(p, op, ok, n)
  PROVE  ClientInv'
<1> USE MaxActionsAssumption
<1>1. /\ next[p] \in 0 .. MaxActions /\ started[p] \in 0 .. MaxActions /\ next[p] <= started[p]
      /\ sent[p] \in Nat /\ restarts[p] \in Nat
  BY DEF ClientInv, ClientTypes, Names
<1>2. PICK x \in Nat, i \in Nat : x = started[p] + 1 /\ i = next[p] + 1
  BY <1>1
<1>3. x \in Payload /\ i \in ActionId /\ i \in 0 .. MaxActions /\ x \in 0 .. MaxActions
        /\ i >= 1 /\ i <= MaxActions /\ i <= x
  BY <1>1, <1>2, MaxIdAssumption DEF SendAction, ActionId
<1>4. PICK k : k = [op |-> op, id |-> i, payload |-> x]
  OBVIOUS
<1>5. k \in Packet /\ k.op = op /\ k.id = i /\ k.payload = x
  BY <1>3, <1>4 DEF Packet
<1>6. PICK no \in BOOLEAN : no = FALSE
  BY Zenon
<1>7. PICK e : e = [op |-> op, id |-> i, payload |-> x, resends |-> 0, timedOut |-> no]
  OBVIOUS
<1>8. e \in Entry /\ e.payload = x /\ PacketOf(e) = k
  <2>1. 0 \in 0 .. MaxResends
    BY MaxResendsAssumption
  <2>2. e \in Entry
    BY <1>3, <1>7, <2>1 DEF Entry
  <2> QED
    BY <1>4, <1>7, <2>2 DEF PacketOf
<1>9. /\ started' = [started EXCEPT ![p] = x] /\ next' = [next EXCEPT ![p] = i]
      /\ UNCHANGED <<outcome, notified, restarts, applied>>
  BY <1>2 DEF SendAction, AllocActionId, ledgerVars
<1>10. \/ UNCHANGED <<pending, sent, net>>
       \/ /\ pending' = [pending EXCEPT ![p] = (@ \ Aged(p, n)) \cup {e}]
          /\ sent' = [sent EXCEPT ![p] = @ + 1]
          /\ net' = [net EXCEPT ![p] = @ \cup {[seq |-> sent[p] + 1, packet |-> k]}]
  BY <1>2, <1>4, <1>6, <1>7 DEF SendAction, SendRaw, AllocActionId, netVars
<1>11. PICK d : d = [seq |-> sent[p] + 1, packet |-> k]
  OBVIOUS
<1>12. d \in Datagram /\ d.packet = k /\ d.seq = sent[p] + 1
  BY <1>1, <1>5, <1>11 DEF Datagram
<1>13. ClientTypes'
  <2>1. next' \in [Player -> 0 .. MaxActions] /\ started' \in [Player -> 0 .. MaxActions]
    BY <1>3, <1>9 DEF ClientInv, ClientTypes
  <2>2. pending' \in [Player -> SUBSET Entry] /\ sent' \in [Player -> Nat]
          /\ net' \in [Player -> SUBSET Datagram]
    <3>1. CASE UNCHANGED <<pending, sent, net>>
      BY <3>1 DEF ClientInv, ClientTypes
    <3>2. CASE ~UNCHANGED <<pending, sent, net>>
      <4>1. /\ pending' = [pending EXCEPT ![p] = (pending[p] \ Aged(p, n)) \cup {e}]
            /\ sent' = [sent EXCEPT ![p] = sent[p] + 1]
            /\ net' = [net EXCEPT ![p] = net[p] \cup {d}]
        BY <1>10, <1>11, <3>2
      <4>2. /\ (pending[p] \ Aged(p, n)) \cup {e} \in SUBSET Entry /\ net[p] \cup {d} \in SUBSET Datagram
            /\ sent[p] + 1 \in Nat
        BY <1>1, <1>8, <1>12 DEF ClientInv, ClientTypes
      <4> QED
        BY <4>1, <4>2 DEF ClientInv, ClientTypes
    <3> QED
      BY <3>1, <3>2
  <2> QED
    BY <1>9, <2>1, <2>2 DEF ClientInv, ClientTypes
<1>14. ASSUME NEW q \in Player, q # p PROVE Names(q)' /\ Undecided(q)'
  <2>1. /\ pending'[q] = pending[q] /\ net'[q] = net[q] /\ sent'[q] = sent[q]
        /\ started'[q] = started[q] /\ next'[q] = next[q] /\ restarts'[q] = restarts[q]
        /\ outcome'[q] = outcome[q] /\ applied'[q] = applied[q]
    BY <1>9, <1>10, <1>14 DEF ClientInv, ClientTypes
  <2>2. Packets(q)' = Packets(q)
    BY <2>1 DEF Packets
  <2>3. \A f \in net'[q] : f.seq <= sent'[q]
    BY <2>1 DEF ClientInv, Names
  <2> QED
    BY <2>1, <2>2, <2>3, NamesKept DEF ClientInv, Undecided
<1>15. Names(p)'
  <2>1. Packets(p)' \subseteq Packets(p) \cup {k}
    <3>1. /\ pending'[p] \subseteq pending[p] \cup {e} /\ net'[p] \subseteq net[p] \cup {d}
          /\ applied' = applied
      BY <1>9, <1>10, <1>11 DEF ClientInv, ClientTypes
    <3> QED
      BY <1>8, <1>12, <3>1 DEF Packets
  <2>2. started'[p] = x /\ next'[p] = i /\ restarts'[p] = restarts[p]
    BY <1>9 DEF ClientInv, ClientTypes
  <2>3. ASSUME NEW l \in Packets(p)
        PROVE  /\ l.payload < x /\ l.id >= 1 /\ l.id <= MaxActions
               /\ restarts[p] = 0 => l.id < i
    <3>1. l.id \in Nat /\ l.payload \in Nat
      BY PacketsTyped DEF ClientInv, Packet, ActionId
    <3> QED
      BY <1>1, <1>2, <3>1 DEF ClientInv, Names
  <2>4. ASSUME NEW l \in Packets(p)'
        PROVE  /\ l.payload <= x /\ l.id >= 1 /\ l.id <= MaxActions
               /\ restarts'[p] = 0 => l.id <= i
    <3>1. CASE l \in Packets(p)
      <4>1. l.id \in Nat /\ l.payload \in Nat
        BY <3>1, PacketsTyped DEF ClientInv, Packet, ActionId
      <4> QED
        BY <2>2, <2>3, <3>1, <4>1
    <3>2. CASE l = k
      BY <1>3, <1>5, <3>2
    <3> QED
      BY <2>1, <3>1, <3>2
  <2>5. ASSUME NEW l \in Packets(p)', NEW m \in Packets(p)',
               l.payload = m.payload \/ (restarts'[p] = 0 /\ l.id = m.id)
        PROVE  l = m
    <3>1. CASE l \in Packets(p) /\ m \in Packets(p)
      BY <2>2, <2>5, <3>1 DEF ClientInv, Names
    <3>2. CASE l \in Packets(p) /\ m = k
      <4>1. l.payload # x /\ (restarts[p] = 0 => l.id # i)
        BY <1>2, <2>3, <3>2
      <4> QED
        BY <1>5, <2>2, <2>5, <3>2, <4>1
    <3>3. CASE m \in Packets(p) /\ l = k
      <4>1. m.payload # x /\ (restarts[p] = 0 => m.id # i)
        BY <1>2, <2>3, <3>3
      <4> QED
        BY <1>5, <2>2, <2>5, <3>3, <4>1
    <3> QED
      BY <2>1, <3>1, <3>2, <3>3
  <2>6. ASSUME NEW f \in net'[p] PROVE f.seq <= sent'[p]
    <3>1. CASE f \in net[p] /\ sent'[p] \in {sent[p], sent[p] + 1}
      <4>1. f.seq \in Nat /\ f.seq <= sent[p]
        BY <3>1, PacketsTyped DEF ClientInv, Names, Datagram
      <4> QED
        BY <1>1, <3>1, <4>1
    <3>2. CASE f = d /\ sent'[p] = sent[p] + 1
      BY <1>1, <1>12, <3>2
    <3> QED
      BY <1>10, <1>11, <3>1, <3>2 DEF ClientInv, ClientTypes
  <2> QED
    BY <1>3, <2>2, <2>4, <2>5, <2>6 DEF Names
<1>16. Undecided(p)'
  <2>1. pending'[p] \subseteq pending[p] \cup {e} /\ outcome' = outcome /\ started'[p] = x
    BY <1>9, <1>10 DEF ClientInv, ClientTypes
  <2>2. \A f \in pending[p] : f.payload <= started[p] /\ f.payload \in Nat
    <3>1. ASSUME NEW f \in pending[p] PROVE f.payload <= started[p] /\ f.payload \in Nat
      <4>1. f \in Entry /\ PacketOf(f) \in Packets(p) /\ PacketOf(f).payload = f.payload
        BY PacketsTyped DEF ClientInv, PacketOf
      <4> QED
        BY <4>1 DEF ClientInv, Names, Entry
    <3> QED
      BY <3>1
  <2>3. \A f \in pending[p] : f.payload # x
    BY <1>1, <1>2, <2>2
  <2>4. outcome[p][x] = "none"
    <3>1. ~(x <= started[p])
      BY <1>1, <1>2
    <3> QED
      BY <1>3, <3>1 DEF ClientInv, Undecided
  <2>5. \A y \in Payload : outcome[p][y] # "none" => y <= x
    BY <1>1, <1>2 DEF ClientInv, Undecided
  <2> QED
    BY <1>8, <2>1, <2>3, <2>4, <2>5 DEF ClientInv, Undecided
<1> QED
  BY <1>13, <1>14, <1>15, <1>16 DEF ClientInv

\* A resend is the same packet; the entry only counts it.
LEMMA EntryUpdates ==
  ASSUME NEW e \in Entry, NEW yes \in BOOLEAN
  PROVE  /\ e.resends < MaxResends =>
              /\ [e EXCEPT !.resends = e.resends + 1] \in Entry
              /\ [e EXCEPT !.resends = e.resends + 1].payload = e.payload
              /\ PacketOf([e EXCEPT !.resends = e.resends + 1]) = PacketOf(e)
         /\ [e EXCEPT !.timedOut = yes] \in Entry
         /\ [e EXCEPT !.timedOut = yes].payload = e.payload
         /\ PacketOf([e EXCEPT !.timedOut = yes]) = PacketOf(e)
  BY MaxResendsAssumption DEF Entry, PacketOf

\* Resends, time-outs, prunings, answers and level loads keep the client's invariant.
LEMMA ClientKeeps ==
  ASSUME ClientInv, LedgerTypes, NEW p \in Player,
         \/ \E e \in pending[p] : Retransmit(p, e) \/ Prune(p, e)
         \/ \E m \in replies[p], n \in 0 .. started[p] :
              (\E e \in pending[p] : TakeReply(p, m, e, n)) \/ TakeOthersUpdate(p, m, n)
         \/ LevelLoad(p)
  PROVE  ClientInv'
<1> USE MaxActionsAssumption
<1>1. started' = started /\ applied' = applied
  BY DEF Retransmit, Prune, TakeReply, TakeOthersUpdate, LevelLoad, ledgerVars
<1>2. /\ sent[p] \in Nat /\ restarts[p] \in Nat /\ next[p] \in 0 .. MaxActions
      /\ \A d \in net[p] : d \in Datagram /\ d.seq \in Nat /\ d.seq <= sent[p]
  BY DEF ClientInv, ClientTypes, Names, Datagram
\* The effect on player p; nobody else is touched.
<1>3. ASSUME pending' \in [Player -> SUBSET Entry], sent' \in [Player -> Nat],
             net' \in [Player -> SUBSET Datagram],
             outcome' \in [Player -> [Payload -> Result \cup {"none"}]],
             notified' \in [Player -> SUBSET Payload],
             restarts' \in [Player -> Nat], next' \in [Player -> 0 .. MaxActions],
             \A q \in Player \ {p} :
               /\ pending'[q] = pending[q] /\ sent'[q] = sent[q] /\ net'[q] = net[q]
               /\ outcome'[q] = outcome[q] /\ restarts'[q] = restarts[q] /\ next'[q] = next[q],
             \/ next'[p] = next[p] /\ restarts'[p] = restarts[p]
             \/ next'[p] = 0 /\ restarts'[p] > 0,
             \A d \in net'[p] : d.seq <= sent'[p] /\ d.packet \in Packets(p),
             \A e \in pending'[p] : PacketOf(e) \in Packets(p),
             Undecided(p)'
      PROVE  ClientInv'
  <2>1. ClientTypes'
    BY <1>1, <1>3 DEF ClientInv, ClientTypes
  <2>2. ASSUME NEW q \in Player, q # p PROVE Names(q)' /\ Undecided(q)'
    <3>1. /\ pending'[q] = pending[q] /\ sent'[q] = sent[q] /\ net'[q] = net[q]
          /\ outcome'[q] = outcome[q] /\ restarts'[q] = restarts[q] /\ next'[q] = next[q]
      BY <1>3, <2>2
    <3>2. Packets(q)' = Packets(q) /\ \A d \in net'[q] : d.seq <= sent'[q]
      BY <1>1, <3>1 DEF Packets, ClientInv, Names
    <3> QED
      BY <1>1, <3>1, <3>2, NamesKept DEF ClientInv, Undecided
  <2>3. ASSUME NEW k \in Packets(p)' PROVE k \in Packets(p)
    <3>1. CASE k \in {d.packet : d \in net'[p]}
      BY <1>3, <3>1
    <3>2. CASE k \in {PacketOf(e) : e \in pending'[p]}
      BY <1>3, <3>2
    <3>3. CASE k \in {l \in Packet : applied[p][l] > 0}
      BY <3>3 DEF Packets
    <3> QED
      BY <1>1, <2>3, <3>1, <3>2, <3>3 DEF Packets
  <2>4. Names(p)'
    BY <1>1, <1>3, <2>3, NamesKept
  <2> QED
    BY <1>3, <2>1, <2>2, <2>4 DEF ClientInv
<1>4. ASSUME NEW e \in pending[p], Retransmit(p, e) PROVE ClientInv'
  <2>1. PICK yes \in BOOLEAN : yes = TRUE
    BY Zenon
  <2>2. e \in Entry /\ PacketOf(e) \in Packets(p)
    BY PacketsTyped DEF ClientInv
  <2>3. PICK f \in Entry : /\ f.payload = e.payload /\ PacketOf(f) = PacketOf(e)
                           /\ pending' = [pending EXCEPT ![p] = (@ \ {e}) \cup {f}]
    <3>1. CASE e.resends < MaxResends
      BY <1>4, <2>1, <2>2, <3>1, EntryUpdates DEF Retransmit
    <3>2. CASE ~(e.resends < MaxResends)
      BY <1>4, <2>1, <2>2, <3>2, EntryUpdates DEF Retransmit
    <3> QED
      BY <3>1, <3>2
  <2>4. PICK d : d = [seq |-> sent[p] + 1, packet |-> PacketOf(e)]
    OBVIOUS
  <2>5. d \in Datagram /\ d.packet = PacketOf(e) /\ d.seq = sent[p] + 1
    BY <1>2, <2>2, <2>4, PacketsTyped DEF ClientInv, Datagram
  <2>6. \/ UNCHANGED <<sent, net>>
        \/ /\ sent' = [sent EXCEPT ![p] = @ + 1]
           /\ net' = [net EXCEPT ![p] = @ \cup {d}]
    BY <1>4, <2>4 DEF Retransmit, SendRaw, netVars
  <2>7. UNCHANGED <<outcome, restarts, next>> /\ notified' \in [Player -> SUBSET Payload]
    <3>1. UNCHANGED <<outcome, restarts, next>>
            /\ (notified' = notified \/ notified' = [notified EXCEPT ![p] = @ \cup {e.payload}])
      BY <1>4 DEF Retransmit
    <3>2. notified \in [Player -> SUBSET Payload] /\ e.payload \in Payload
      BY <2>2 DEF ClientInv, ClientTypes, Entry
    <3> QED
      BY <3>1, <3>2
  <2>8. pending' \in [Player -> SUBSET Entry] /\ sent' \in [Player -> Nat]
          /\ net' \in [Player -> SUBSET Datagram]
    <3>1. (pending[p] \ {e}) \cup {f} \in SUBSET Entry /\ net[p] \cup {d} \in SUBSET Datagram
            /\ sent[p] + 1 \in Nat
      BY <1>2, <2>3, <2>5 DEF ClientInv, ClientTypes
    <3>2. pending' \in [Player -> SUBSET Entry]
      BY <2>3, <3>1 DEF ClientInv, ClientTypes
    <3>3. CASE UNCHANGED <<sent, net>>
      BY <3>2, <3>3 DEF ClientInv, ClientTypes
    <3>4. CASE /\ sent' = [sent EXCEPT ![p] = sent[p] + 1]
               /\ net' = [net EXCEPT ![p] = net[p] \cup {d}]
      BY <3>1, <3>2, <3>4 DEF ClientInv, ClientTypes
    <3> QED
      BY <2>6, <3>3, <3>4
  <2>9. pending'[p] = (pending[p] \ {e}) \cup {f}
    BY <2>3 DEF ClientInv, ClientTypes
  <2>10. \A h \in pending'[p] : PacketOf(h) \in Packets(p)
    BY <2>2, <2>3, <2>9, PacketsTyped DEF ClientInv
  <2>11. \A h \in net'[p] : h.seq <= sent'[p] /\ h.packet \in Packets(p)
    <3>1. \A h \in net[p] : h.packet \in Packets(p)
      BY PacketsTyped DEF ClientInv
    <3>2. CASE UNCHANGED <<sent, net>>
      BY <1>2, <3>1, <3>2
    <3>3. CASE /\ sent' = [sent EXCEPT ![p] = @ + 1]
               /\ net' = [net EXCEPT ![p] = @ \cup {d}]
      <4>1. sent'[p] = sent[p] + 1 /\ net'[p] = net[p] \cup {d}
        BY <3>3 DEF ClientInv, ClientTypes
      <4>2. \A h \in net[p] : h.seq <= sent[p] + 1
        BY <1>2
      <4> QED
        BY <1>2, <2>2, <2>5, <3>1, <4>1, <4>2
    <3> QED
      BY <2>6, <3>2, <3>3
  <2>12. Undecided(p)'
    BY <1>1, <2>3, <2>7, <2>9 DEF ClientInv, Undecided
  <2>13. \A q \in Player \ {p} :
           pending'[q] = pending[q] /\ sent'[q] = sent[q] /\ net'[q] = net[q]
    BY <2>3, <2>6 DEF ClientInv, ClientTypes
  <2>14. /\ outcome' \in [Player -> [Payload -> Result \cup {"none"}]]
         /\ restarts' \in [Player -> Nat] /\ next' \in [Player -> 0 .. MaxActions]
    BY <2>7 DEF ClientInv, ClientTypes
  <2> QED
    BY <1>3, <2>7, <2>8, <2>10, <2>11, <2>12, <2>13, <2>14
\* Entries go, and one of them may be answered.
<1>5. ASSUME NEW D, pending' = [pending EXCEPT ![p] = @ \ D],
             UNCHANGED <<next, notified, restarts, sent, net>>,
             \/ outcome' = outcome
             \/ \E e \in pending[p], v \in Result :
                  e \in D /\ outcome' = [outcome EXCEPT ![p][e.payload] = v]
      PROVE  ClientInv'
  <2>1. /\ pending' \in [Player -> SUBSET Entry] /\ pending'[p] = pending[p] \ D
        /\ \A q \in Player \ {p} : pending'[q] = pending[q]
    BY <1>5 DEF ClientInv, ClientTypes
  <2>2. /\ outcome' \in [Player -> [Payload -> Result \cup {"none"}]]
        /\ \A q \in Player \ {p} : outcome'[q] = outcome[q]
        /\ Undecided(p)'
    <3>1. CASE outcome' = outcome
      BY <1>1, <2>1, <3>1 DEF ClientInv, ClientTypes, Undecided
    <3>2. ASSUME NEW e \in pending[p], NEW v \in Result, e \in D,
                 outcome' = [outcome EXCEPT ![p][e.payload] = v]
          PROVE  /\ outcome' \in [Player -> [Payload -> Result \cup {"none"}]]
                 /\ \A q \in Player \ {p} : outcome'[q] = outcome[q]
                 /\ Undecided(p)'
      <4>1. e \in Entry /\ e.payload \in Payload /\ PacketOf(e) \in Packets(p)
        BY PacketsTyped DEF ClientInv, Entry
      <4>2. e.payload <= started[p]
        BY <4>1 DEF ClientInv, Names, PacketOf
      <4>3. /\ outcome' \in [Player -> [Payload -> Result \cup {"none"}]]
            /\ \A q \in Player \ {p} : outcome'[q] = outcome[q]
            /\ \A y \in Payload : y # e.payload => outcome'[p][y] = outcome[p][y]
        BY <3>2, <4>1 DEF ClientInv, ClientTypes
      <4>4. \A f \in pending'[p] :
              f \in pending[p] /\ f.payload # e.payload /\ f.payload \in Payload
        <5>1. ASSUME NEW f \in pending'[p]
              PROVE  f \in pending[p] /\ f.payload # e.payload /\ f.payload \in Payload
          <6>1. f \in pending[p] /\ f # e /\ f \in Entry
            BY <2>1, <3>2 DEF ClientInv, ClientTypes
          <6> QED
            BY <6>1 DEF ClientInv, Undecided, Entry
        <5> QED
          BY <5>1
      <4> QED
        BY <1>1, <4>2, <4>3, <4>4 DEF ClientInv, Undecided
    <3> QED
      BY <1>5, <3>1, <3>2
  <2>3. \A h \in pending'[p] : PacketOf(h) \in Packets(p)
    BY <2>1, PacketsTyped DEF ClientInv
  <2>4. \A h \in net'[p] : h.seq <= sent'[p] /\ h.packet \in Packets(p)
    BY <1>2, <1>5, PacketsTyped DEF ClientInv
  <2>5. /\ sent' \in [Player -> Nat] /\ net' \in [Player -> SUBSET Datagram]
        /\ restarts' \in [Player -> Nat] /\ next' \in [Player -> 0 .. MaxActions]
        /\ notified' \in [Player -> SUBSET Payload]
    BY <1>5 DEF ClientInv, ClientTypes
  <2> QED
    BY <1>3, <1>5, <2>1, <2>2, <2>3, <2>4, <2>5
<1>7. ASSUME NEW e \in pending[p], Prune(p, e) PROVE ClientInv'
  <2>1. /\ pending' = [pending EXCEPT ![p] = @ \ {e}]
        /\ UNCHANGED <<next, notified, restarts, sent, net, outcome>>
    BY <1>7 DEF Prune, netVars
  <2> QED
    BY <1>5, <2>1
<1>8. ASSUME NEW m \in replies[p], NEW e \in pending[p], NEW n \in 0 .. started[p],
             TakeReply(p, m, e, n)
      PROVE  ClientInv'
  <2>1. m.result \in Result
    BY DEF LedgerTypes, Reply
  <2>2. PICK D : D = {e} \cup Aged(p, n)
    OBVIOUS
  <2>3. /\ pending' = [pending EXCEPT ![p] = @ \ D]
        /\ UNCHANGED <<next, notified, restarts, sent, net>>
        /\ outcome' = [outcome EXCEPT ![p][e.payload] = m.result]
    BY <1>8, <2>2 DEF TakeReply, netVars
  <2>4. e \in D
    BY <2>2
  <2> QED
    BY <1>5, <2>1, <2>3, <2>4
<1>9. ASSUME NEW m \in replies[p], NEW n \in 0 .. started[p], TakeOthersUpdate(p, m, n)
      PROVE  ClientInv'
  <2>1. /\ pending' = [pending EXCEPT ![p] = @ \ Aged(p, n)]
        /\ UNCHANGED <<next, notified, restarts, sent, net, outcome>>
    BY <1>9 DEF TakeOthersUpdate, netVars
  <2> QED
    BY <1>5, <2>1
<1>6. CASE LevelLoad(p)
  <2>1. /\ restarts' = [restarts EXCEPT ![p] = @ + 1] /\ next' = [next EXCEPT ![p] = 0]
        /\ pending' = [pending EXCEPT ![p] = {}] /\ UNCHANGED <<outcome, notified, sent, net>>
    BY <1>6 DEF LevelLoad, netVars
  <2>2. /\ restarts' \in [Player -> Nat] /\ restarts'[p] > 0
        /\ next' \in [Player -> 0 .. MaxActions] /\ next'[p] = 0
        /\ pending' \in [Player -> SUBSET Entry] /\ pending'[p] = {}
        /\ \A q \in Player \ {p} :
             pending'[q] = pending[q] /\ restarts'[q] = restarts[q] /\ next'[q] = next[q]
    BY <1>2, <2>1 DEF ClientInv, ClientTypes
  <2>3. Undecided(p)'
    BY <1>1, <2>1, <2>2 DEF ClientInv, Undecided
  <2>4. \A h \in net'[p] : h.seq <= sent'[p] /\ h.packet \in Packets(p)
    BY <1>2, <2>1, PacketsTyped DEF ClientInv
  <2>5. /\ sent' \in [Player -> Nat] /\ net' \in [Player -> SUBSET Datagram]
        /\ outcome' \in [Player -> [Payload -> Result \cup {"none"}]]
        /\ notified' \in [Player -> SUBSET Payload]
    BY <2>1 DEF ClientInv, ClientTypes
  <2> QED
    BY <1>3, <2>1, <2>2, <2>3, <2>4, <2>5
<1> QED
  BY <1>4, <1>6, <1>7, <1>8, <1>9

\* The server commits only packets that are under way.
LEMMA ServerKeeps ==
  ASSUME ClientInv, LedgerTypes, NEW p \in Player,
         \/ \E d \in net[p] : Receive(p, d)
         \/ Server(p) /\ UNCHANGED <<clientVars, netVars>>
  PROVE  ClientInv'
<1>1. UNCHANGED <<next, pending, started, outcome, notified, restarts, sent>>
  BY DEF Receive, clientVars, netVars
<1>2. /\ net' \in [Player -> SUBSET Datagram] /\ \A q \in Player : net'[q] \subseteq net[q]
  <2>1. CASE net' = net
    BY <2>1 DEF ClientInv, ClientTypes
  <2>2. ASSUME NEW d \in net[p], Receive(p, d)
        PROVE  net' \in [Player -> SUBSET Datagram] /\ \A q \in Player : net'[q] \subseteq net[q]
    BY <2>2 DEF Receive, ClientInv, ClientTypes
  <2> QED
    BY <2>1, <2>2 DEF netVars
<1>3. ASSUME NEW q \in Player, NEW k \in Packet, applied'[q][k] > 0
      PROVE  applied[q][k] > 0 \/ k \in {d.packet : d \in net[q]}
  <2>1. CASE applied' = applied
    BY <1>3, <2>1
  <2>2. ASSUME NEW d \in net[p], Receive(p, d), applied' # applied
        PROVE  applied[q][k] > 0 \/ k \in {f.packet : f \in net[q]}
    <3>1. d.packet \in Packet
      BY PacketsTyped DEF ClientInv
    <3>2. applied' = [applied EXCEPT ![p][d.packet] = @ + 1]
      BY <2>2, <3>1, HandleCases DEF Receive
    <3>3. applied \in [Player -> [Packet -> Nat]]
      BY DEF LedgerTypes, Types
    <3>4. applied'[q][k] = applied[q][k] \/ (q = p /\ k = d.packet)
      BY <3>1, <3>2, <3>3
    <3> QED
      BY <1>3, <3>4
  <2>3. Server(p) => applied' = applied
    BY DEF Server, WindowSlides, Remove
  <2> QED
    BY <2>1, <2>2, <2>3
<1>4. ASSUME NEW q \in Player PROVE Packets(q)' \subseteq Packets(q)
  BY <1>1, <1>2, <1>3 DEF Packets
<1>5. ClientTypes'
  BY <1>1, <1>2 DEF ClientInv, ClientTypes
<1>6. ASSUME NEW q \in Player PROVE Names(q)'
  <2>1. \A d \in net'[q] : d.seq <= sent'[q]
    BY <1>1, <1>2 DEF ClientInv, Names
  <2> QED
    BY <1>1, <1>4, <2>1, NamesKept
<1>7. ASSUME NEW q \in Player PROVE Undecided(q)'
  BY <1>1 DEF ClientInv, Undecided
<1> QED
  BY <1>5, <1>6, <1>7 DEF ClientInv

\* The client's invariant holds initially.
LEMMA ClientInit == Init => LedgerTypes /\ ClientInv
<1> SUFFICES ASSUME Init PROVE LedgerTypes /\ ClientInv
  OBVIOUS
<1> USE MaxActionsAssumption
<1>1. LedgerTypes
  BY CacheInit DEF Init
<1>2. ClientTypes
  BY DEF Init, ClientTypes
<1>3. ASSUME NEW p \in Player PROVE Packets(p) = {}
  <2>1. \A k \in Packet : applied[p][k] = 0
    BY DEF Init, InitLedger
  <2>2. net[p] = {} /\ pending[p] = {}
    BY DEF Init
  <2> QED
    BY <2>1, <2>2 DEF Packets
<1>4. ASSUME NEW p \in Player PROVE Names(p) /\ Undecided(p)
  <2>1. /\ next[p] = 0 /\ started[p] = 0 /\ net[p] = {} /\ pending[p] = {}
        /\ \A x \in Payload : outcome[p][x] = "none"
    BY DEF Init
  <2> QED
    BY <1>3, <2>1 DEF Names, Undecided
<1> QED
  BY <1>1, <1>2, <1>4 DEF ClientInv

\* Every step keeps the client's invariant and the ledger's types.
LEMMA ClientNext == LedgerTypes /\ ClientInv /\ [Next]_vars => LedgerTypes' /\ ClientInv'
<1> SUFFICES ASSUME LedgerTypes, ClientInv, [Next]_vars PROVE LedgerTypes' /\ ClientInv'
  OBVIOUS
<1>1. LedgerTypes'
  BY ProtocolStep, TypesNext DEF ClientInv
<1>2. CASE UNCHANGED vars
  <2>1. /\ next' = next /\ pending' = pending /\ started' = started /\ outcome' = outcome
        /\ notified' = notified /\ restarts' = restarts /\ sent' = sent /\ net' = net /\ applied' = applied
    BY <1>2 DEF vars, ledgerVars, clientVars, netVars
  <2> QED
    BY <1>1, <2>1 DEF ClientInv, ClientTypes, Names, Undecided, Packets
<1> QED
  BY <1>1, <1>2, SendKeeps, ClientKeeps, ServerKeeps DEF Next

\* The invariant of the clients and the ledger's types hold in every reachable state.
LEMMA ClientInvariance == Spec => [](LedgerTypes /\ ClientInv)
  BY ClientInit, ClientNext, PTL DEF Spec

\* The protocol implements the ledger with any client: whatever is proved of the ledger for
\* packets in any order and with any ActionID holds of it behind this client and network.
THEOREM ImplementsLedger == Spec => SpecLedger
<1>1. Init => InitLedger
  BY DEF Init
<1>2. LedgerTypes /\ ClientInv /\ [Next]_vars => [NextLedger]_ledgerVars
  BY ProtocolStep DEF ClientInv
<1> QED
  BY <1>1, <1>2, ClientInvariance, PTL DEF Spec, SpecLedger

\* What one packet does to the rings and to the counts of commits.
LEMMA HandleEffect ==
  ASSUME LedgerTypes, NEW p \in Player, NEW k \in Packet, HandleKnown(p, k)
  PROVE  /\ \A q \in Player : \A l \in Packet :
              \/ applied'[q][l] = applied[q][l]
              \/ q = p /\ l = k /\ Hits(p, k) = {} /\ applied'[q][l] = applied[q][l] + 1
         /\ \A q \in Player : \A o \in Op : \A n \in DOMAIN ring'[q][o].slot :
              \/ \E m \in DOMAIN ring[q][o].slot : ring'[q][o].slot[n] = ring[q][o].slot[m]
              \/ q = p /\ o = k.op /\ \E res \in Result :
                   /\ ring'[q][o].slot[n] = EntryOf(k, res)
                   /\ res = "ok" => applied'[p][k] > 0
<1>1. applied \in [Player -> [Packet -> Nat]] /\ ring \in [Player -> [Op -> Caches]]
        /\ k.op \in Op
  BY DEF LedgerTypes, Types, Packet
<1>2. ASSUME NEW q \in Player, NEW l \in Packet,
             applied' = applied \/ (applied' = [applied EXCEPT ![p][k] = @ + 1] /\ Hits(p, k) = {})
      PROVE  \/ applied'[q][l] = applied[q][l]
             \/ q = p /\ l = k /\ Hits(p, k) = {} /\ applied'[q][l] = applied[q][l] + 1
  BY <1>1, <1>2
<1>4. /\ applied' = applied \/ (applied' = [applied EXCEPT ![p][k] = @ + 1] /\ Hits(p, k) = {})
      /\ \/ ring' = ring
         \/ \E res \in Result :
              Record(p, k, res) /\ (res = "ok" => applied' = [applied EXCEPT ![p][k] = @ + 1])
  BY HandleCases DEF NoRecord
<1>5. ASSUME NEW q \in Player, NEW o \in Op, NEW n \in DOMAIN ring'[q][o].slot,
             NEW res \in Result, Record(p, k, res),
             res = "ok" => applied' = [applied EXCEPT ![p][k] = @ + 1]
      PROVE  \/ \E m \in DOMAIN ring[q][o].slot : ring'[q][o].slot[n] = ring[q][o].slot[m]
             \/ /\ q = p /\ o = k.op /\ ring'[q][o].slot[n] = EntryOf(k, res)
                /\ res = "ok" => applied'[p][k] > 0
  <2>1. PICK e \in Reply : e = EntryOf(k, res)
    BY DEF EntryOf, Packet, Reply
  <2>2. ring' = [ring EXCEPT ![p][k.op] = Push(@, e)]
    BY <1>5, <2>1 DEF Record, EntryOf
  <2>3. res = "ok" => applied'[p][k] > 0
    BY <1>1, <1>5
  <2>4. CASE q = p /\ o = k.op
    <3>1. ring'[q][o] = Push(ring[q][o], e) /\ ring[q][o] \in Caches
      BY <1>1, <2>2, <2>4
    <3> QED
      BY <2>1, <2>3, <2>4, <3>1, Pushed
  <2>5. CASE ~(q = p /\ o = k.op)
    <3>1. ring'[q][o] = ring[q][o]
      BY <1>1, <2>2, <2>5
    <3> QED
      BY <3>1
  <2> QED
    BY <2>4, <2>5
<1>6. ASSUME NEW q \in Player, NEW o \in Op, NEW n \in DOMAIN ring'[q][o].slot, ring' = ring
      PROVE  \E m \in DOMAIN ring[q][o].slot : ring'[q][o].slot[n] = ring[q][o].slot[m]
  BY <1>6
<1>7. ASSUME NEW q \in Player, NEW o \in Op, NEW n \in DOMAIN ring'[q][o].slot
      PROVE  \/ \E m \in DOMAIN ring[q][o].slot : ring'[q][o].slot[n] = ring[q][o].slot[m]
             \/ q = p /\ o = k.op /\ \E res \in Result :
                  /\ ring'[q][o].slot[n] = EntryOf(k, res)
                  /\ res = "ok" => applied'[p][k] > 0
  BY <1>4, <1>5, <1>6
<1> QED
  BY <1>2, <1>4, <1>7

\* What a packet makes the server tell its own session, and that nobody else is told
\* anything but item updates.
LEMMA HandleReplies ==
  ASSUME LedgerTypes, NEW p \in Player, NEW k \in Packet, HandleKnown(p, k),
         NEW q \in Player, NEW m \in replies'[q]
  PROVE  \/ m \in replies[q] \/ m.op = "item"
         \/ q = p /\ \E n \in Hits(p, k) : m = ring[p][k.op].slot[n]
         \/ q = p /\ \E res \in Result :
              /\ m = EntryOf(k, res)
              /\ res = "ok" => applied' = [applied EXCEPT ![p][k] = @ + 1]
<1>1. replies \in [Player -> SUBSET Reply] /\ "rejected" \in Result
  BY DEF LedgerTypes, Result
<1>2. ASSUME NEW a, replies' = [replies EXCEPT ![p] = @ \cup {a}]
      PROVE  m \in replies[q] \/ (q = p /\ m = a)
  BY <1>1, <1>2
<1>3. ASSUME NEW res \in Result, ReplyTo(p, k, res)
      PROVE  m \in replies[q] \/ (q = p /\ m = EntryOf(k, res))
  <2>1. replies' = [replies EXCEPT ![p] = @ \cup {EntryOf(k, res)}]
    BY <1>3 DEF ReplyTo, EntryOf
  <2> QED
    BY <1>2, <2>1
<1>4. ASSUME NEW res \in Result, NEW audience \in SUBSET (Player \ {p}),
             k.op # "item" => audience = {},
             replies' = [r \in Player |-> IF r = p \/ r \in audience
                                          THEN replies[r] \cup {EntryOf(k, res)} ELSE replies[r]]
      PROVE  m \in replies[q] \/ m.op = "item" \/ (q = p /\ m = EntryOf(k, res))
  <2>1. m \in replies[q] \/ (m = EntryOf(k, res) /\ (q = p \/ q \in audience))
    BY <1>4
  <2>2. q \in audience => k.op = "item"
    BY <1>4
  <2>3. EntryOf(k, res).op = k.op
    BY DEF EntryOf
  <2> QED
    BY <2>1, <2>2, <2>3
<1>5. CASE \E n \in Hits(p, k) :
             replies' = [replies EXCEPT ![p] = @ \cup {ring[p][k.op].slot[n]}]
  BY <1>2, <1>5
<1>6. CASE k.op = "item" /\ ReplyTo(p, k, "rejected")
  BY <1>1, <1>3, <1>6
<1>7. CASE \E res \in Result \ {"ok"} : Record(p, k, res) /\ ReplyTo(p, k, res)
  BY <1>3, <1>7
<1>8. CASE /\ applied' = [applied EXCEPT ![p][k] = @ + 1]
           /\ \E res \in Result, audience \in SUBSET (Player \ {p}) :
                    /\ k.op # "item" => audience = {}
                    /\ Record(p, k, res)
                    /\ replies' = [r \in Player |->
                                     IF r = p \/ r \in audience
                                     THEN replies[r] \cup {EntryOf(k, res)} ELSE replies[r]]
  BY <1>4, <1>8
<1> QED
  BY <1>5, <1>6, <1>7, <1>8, HandleCases

\* The end of a session and its rate window commit nothing and tell nobody.
LEMMA ServerEffect ==
  ASSUME LedgerTypes, NEW p \in Player, Server(p)
  PROVE  /\ applied' = applied /\ replies' = replies
         /\ \/ ring' = ring /\ open' = open
            \/ /\ open' = [open EXCEPT ![p] = FALSE]
               /\ ring' = [ring EXCEPT ![p] = [o \in Op |-> EmptyRing]]
  BY DEF Server, WindowSlides, Remove

\* Of stash, container and trade actions the server only says what is so.
LEMMA HonestNext ==
  ASSUME LedgerTypes, ClientInv, Honest, [Next]_vars
  PROVE  Honest'
<1>1. /\ replies \in [Player -> SUBSET Reply] /\ ring \in [Player -> [Op -> Caches]]
      /\ applied \in [Player -> [Packet -> Nat]]
  BY DEF LedgerTypes, Types
<1>2. \A q \in Player : \A m \in replies[q] : m \in Reply /\ Tells(q, m)
  BY <1>1 DEF Honest
<1>3. \A q \in Player : \A o \in Op : \A n \in DOMAIN ring[q][o].slot :
        ring[q][o].slot[n] \in Reply /\ ring[q][o].slot[n].op = o /\ Tells(q, ring[q][o].slot[n])
  BY <1>1 DEF Honest, Caches
<1>4. ASSUME UNCHANGED <<applied, replies, ring>> PROVE Honest'
  BY <1>4 DEF Honest, Tells
<1>5. ASSUME NEW p \in Player, NEW k \in Packet, HandleKnown(p, k) PROVE Honest'
  <2>1. \A q \in Player : \A l \in Packet :
          applied[q][l] > 0 => applied'[q][l] > 0
    <3>1. ASSUME NEW q \in Player, NEW l \in Packet
          PROVE  applied'[q][l] \in {applied[q][l], applied[q][l] + 1}
      BY <1>5, HandleEffect
    <3>2. ASSUME NEW q \in Player, NEW l \in Packet, applied[q][l] > 0 PROVE applied'[q][l] > 0
      <4>1. applied[q][l] \in Nat
        BY <1>1
      <4> QED
        BY <3>1, <3>2, <4>1
    <3> QED
      BY <3>2
  <2>2. ASSUME NEW q \in Player, NEW m \in Reply, Tells(q, m) PROVE Tells(q, m)'
    <3>1. PacketOf(m) \in Packet
      BY DEF PacketOf, Reply, Packet
    <3> QED
      BY <2>1, <2>2, <3>1 DEF Tells, PacketOf
  <2>3. ASSUME NEW res \in Result, res = "ok" => applied'[p][k] > 0
        PROVE  Tells(p, EntryOf(k, res))' /\ EntryOf(k, res).op = k.op
    <3>1. PacketOf(EntryOf(k, res)) = k /\ EntryOf(k, res).result = res
      BY DEF PacketOf, EntryOf, Packet
    <3> QED
      BY <2>3, <3>1 DEF Tells, PacketOf, EntryOf
  <2>4. ASSUME NEW q \in Player, NEW m \in replies'[q] PROVE Tells(q, m)'
    <3>1. CASE m \in replies[q]
      BY <1>2, <2>2, <3>1
    <3>2. CASE m.op = "item"
      BY <3>2 DEF Tells
    <3>3. CASE q = p /\ \E n \in Hits(p, k) : m = ring[p][k.op].slot[n]
      <4>1. PICK n \in DOMAIN ring[p][k.op].slot : m = ring[p][k.op].slot[n]
        BY <3>3 DEF Hits
      <4>2. k.op \in Op
        BY DEF Packet
      <4> QED
        BY <1>3, <2>2, <3>3, <4>1, <4>2
    <3>4. CASE q = p /\ \E res \in Result :
                   /\ m = EntryOf(k, res)
                   /\ res = "ok" => applied' = [applied EXCEPT ![p][k] = @ + 1]
      <4>1. ASSUME applied' = [applied EXCEPT ![p][k] = @ + 1] PROVE applied'[p][k] > 0
        BY <1>1, <4>1
      <4> QED
        BY <2>3, <3>4, <4>1
    <3> QED
      BY <1>5, <3>1, <3>2, <3>3, <3>4, HandleReplies
  <2>5. ASSUME NEW q \in Player, NEW o \in Op, NEW n \in DOMAIN ring'[q][o].slot
        PROVE  ring'[q][o].slot[n].op = o /\ Tells(q, ring[q][o].slot[n])'
    <3>1. CASE \E m \in DOMAIN ring[q][o].slot : ring'[q][o].slot[n] = ring[q][o].slot[m]
      <4>1. PICK m \in DOMAIN ring[q][o].slot : ring'[q][o].slot[n] = ring[q][o].slot[m]
        BY <3>1
      <4>2. PICK a \in Reply : a = ring[q][o].slot[m]
        BY <1>3
      <4>3. a.op = o /\ Tells(q, a)'
        BY <1>3, <2>2, <4>2
      <4> QED
        BY <4>1, <4>2, <4>3 DEF Tells, PacketOf
    <3>2. CASE q = p /\ o = k.op /\ \E res \in Result :
                 /\ ring'[q][o].slot[n] = EntryOf(k, res)
                 /\ res = "ok" => applied'[p][k] > 0
      <4>1. PICK res \in Result : /\ ring'[q][o].slot[n] = EntryOf(k, res)
                                  /\ res = "ok" => applied'[p][k] > 0
        BY <3>2
      <4>2. Tells(p, EntryOf(k, res))' /\ EntryOf(k, res).op = k.op
        BY <2>3, <4>1
      <4> QED
        BY <3>2, <4>1, <4>2 DEF Tells, PacketOf, EntryOf
    <3> QED
      BY <1>5, <3>1, <3>2, HandleEffect
  <2> QED
    BY <2>4, <2>5 DEF Honest
<1>6. ASSUME NEW p \in Player, Server(p) PROVE Honest'
  <2>1. CASE ring' = ring /\ open' = open
    BY <1>4, <1>6, <2>1, ServerEffect
  <2>2. CASE ring' = [ring EXCEPT ![p] = [o \in Op |-> EmptyRing]]
    <3>1. applied' = applied /\ replies' = replies
      BY <1>6, ServerEffect
    <3>2. ASSUME NEW q \in Player, NEW o \in Op, NEW n \in DOMAIN ring'[q][o].slot
          PROVE  n \in DOMAIN ring[q][o].slot /\ ring'[q][o].slot[n] = ring[q][o].slot[n]
      <4>1. CASE q = p
        <5>1. ring'[q][o] = EmptyRing
          BY <1>1, <2>2, <4>1
        <5> QED
          BY <3>2, <5>1 DEF EmptyRing
      <4>2. CASE q # p
        BY <1>1, <2>2, <4>2
      <4> QED
        BY <4>1, <4>2
    <3> QED
      BY <3>1, <3>2 DEF Honest, Tells
  <2> QED
    BY <1>6, <2>1, <2>2, ServerEffect
<1>7. ASSUME NEW p \in Player, NEW d \in net[p], Receive(p, d) PROVE Honest'
  <2>1. d.packet \in Packet
    BY PacketsTyped DEF ClientInv
  <2> QED
    BY <1>5, <1>7, <2>1 DEF Receive
<1>8. ASSUME NEW p \in Player,
             \/ \E op \in Op, ok \in BOOLEAN, n \in 0 .. started[p] : SendAction(p, op, ok, n)
             \/ \E e \in pending[p] : Retransmit(p, e) \/ Prune(p, e)
             \/ \E m \in replies[p], n \in 0 .. started[p] :
                  (\E e \in pending[p] : TakeReply(p, m, e, n)) \/ TakeOthersUpdate(p, m, n)
             \/ LevelLoad(p)
      PROVE  Honest'
  BY <1>4, <1>8 DEF SendAction, Retransmit, Prune, TakeReply, TakeOthersUpdate, LevelLoad, ledgerVars
<1>9. CASE UNCHANGED vars
  BY <1>4, <1>9 DEF vars, ledgerVars
<1> QED
  BY <1>6, <1>7, <1>8, <1>9 DEF Next

\* On the first level an answer with the ActionID of a pending action is about that action.
LEMMA ConfirmedStep ==
  ASSUME LedgerTypes, ClientInv, Honest, [Next]_vars, NEW p \in Player, NEW e \in pending[p],
         e.op # "item", restarts[p] = 0, outcome'[p][e.payload] = "ok"
  PROVE  applied[p][PacketOf(e)] > 0
<1>1. /\ e \in Entry /\ e.payload \in Payload /\ PacketOf(e) \in Packets(p)
      /\ outcome[p][e.payload] = "none"
  BY PacketsTyped DEF ClientInv, Undecided, Entry
<1>2. outcome \in [Player -> [Payload -> Result \cup {"none"}]]
  BY DEF ClientInv, ClientTypes
<1>3. ASSUME NEW q \in Player, NEW m \in replies[q], NEW f \in pending[q],
             NEW n \in 0 .. started[q], TakeReply(q, m, f, n)
      PROVE  applied[p][PacketOf(e)] > 0
  <2>1. outcome' = [outcome EXCEPT ![q][f.payload] = m.result] /\ f.op = m.op /\ f.id = m.id
    BY <1>3 DEF TakeReply, Answers
  <2>2. q = p /\ f.payload = e.payload /\ m.result = "ok"
    <3>1. f \in Entry /\ f.payload \in Payload
      BY PacketsTyped DEF ClientInv, Entry
    <3>2. outcome'[p][e.payload] # outcome[p][e.payload]
      BY <1>1
    <3> QED
      BY <1>1, <1>2, <2>1, <3>1, <3>2
  <2>3. f = e
    BY <2>2 DEF ClientInv, Undecided
  <2>4. m \in Reply /\ Tells(p, m)
    BY <2>2 DEF LedgerTypes, Honest
  <2>5. PacketOf(m) \in Packet
    BY <2>4 DEF Reply, Packet, PacketOf
  <2>6. applied[p][PacketOf(m)] > 0
    BY <2>1, <2>2, <2>3, <2>4 DEF Tells
  <2>7. PacketOf(m) \in Packets(p) /\ PacketOf(m).id = PacketOf(e).id
    BY <2>1, <2>3, <2>5, <2>6 DEF Packets, PacketOf
  <2>8. PacketOf(m) = PacketOf(e)
    BY <1>1, <2>7 DEF ClientInv, Names
  <2> QED
    BY <2>6, <2>8
<1>4. ASSUME NEW q \in Player,
             \/ \E op \in Op, ok \in BOOLEAN, n \in 0 .. started[q] : SendAction(q, op, ok, n)
             \/ \E f \in pending[q] : Retransmit(q, f) \/ Prune(q, f)
             \/ \E m \in replies[q], n \in 0 .. started[q] : TakeOthersUpdate(q, m, n)
             \/ \E d \in net[q] : Receive(q, d)
             \/ Server(q) /\ UNCHANGED <<clientVars, netVars>>
             \/ LevelLoad(q)
      PROVE  outcome' = outcome
  BY <1>4 DEF SendAction, Retransmit, Prune, TakeOthersUpdate, LevelLoad, Receive, clientVars
<1>5. UNCHANGED vars => outcome' = outcome
  BY DEF vars, clientVars
<1>6. outcome' # outcome
  BY <1>1
<1> QED
  BY <1>3, <1>4, <1>5, <1>6 DEF Next

\* A client that takes an "ok" for the answer to a stash or trade action before its first
\* level load has had that very action committed, for any number of players who send each
\* other item updates with the same ActionIDs, of actions, resends and packets, and for any
\* ring and any network.
THEOREM Confirmed == Spec => MapActionConfirmed
<1>1. Init => Honest
  <2> SUFFICES ASSUME Init PROVE Honest
    OBVIOUS
  <2>1. ASSUME NEW p \in Player
        PROVE  replies[p] = {} /\ \A o \in Op : DOMAIN ring[p][o].slot = {}
    BY DEF Init, InitLedger, EmptyRing
  <2> QED
    BY <2>1 DEF Honest
<1>2. LedgerTypes /\ ClientInv /\ Honest /\ [Next]_vars => Honest'
  BY HonestNext
<1>3. LedgerTypes /\ ClientInv /\ Honest /\ [Next]_vars
        => [\A p \in Player : \A e \in pending[p] :
              e.op # "item" /\ restarts[p] = 0 /\ outcome'[p][e.payload] = "ok"
                => applied[p][PacketOf(e)] > 0]_vars
  BY ConfirmedStep
<1> QED
  BY <1>1, <1>2, <1>3, ClientInvariance, PTL DEF Spec, MapActionConfirmed

\* The types and the names make at most one commit of each packet at most one of each action.
LEMMA OncePerPacket ==
  ASSUME LedgerTypes, ClientInv, \A p \in Player : \A k \in Packet : applied[p][k] <= 1
  PROVE  CommitsSound
<1>1. TypeOKLedger
  BY DEF LedgerTypes, Types, Caches, TypeOKLedger
<1>2. ASSUME NEW p \in Player
      PROVE  /\ \A d \in net[p] : d.packet \in Packet /\ d.seq <= sent[p]
             /\ \A e \in pending[p] : outcome[p][e.payload] = "none"
  BY PacketsTyped DEF ClientInv, Names, Undecided
<1>3. TypeOK
  BY <1>1, <1>2 DEF TypeOK, ClientInv, ClientTypes
<1>4. ASSUME NEW p \in Player, NEW k \in Packet, NEW l \in Packet, k.payload = l.payload,
             applied[p][k] > 0, applied[p][l] > 0
      PROVE  k = l
  <2>1. k \in Packets(p) /\ l \in Packets(p)
    BY <1>4 DEF Packets
  <2> QED
    BY <1>4, <2>1 DEF ClientInv, Names
<1>5. ResendNotReapplied
  BY <1>4 DEF ResendNotReapplied
<1> QED
  BY <1>3, <1>5 DEF CommitsSound

\* An item action that is resent in new datagrams, which the replay gate accepts, is
\* committed at most once, also when its ActionID recurs after a level load, for any number
\* of actions and any ring: the floor refuses what the ring forgot.
THEOREM Commits ==
  ASSUME Op = {"item"}
  PROVE  Spec => []CommitsSound
<1>1. LedgerTypes /\ ClientInv /\ AtMostOnce => CommitsSound
  BY OncePerPacket DEF AtMostOnce
<1>2. SpecLedger => []AtMostOnce
  BY ItemAtMostOnce
<1> QED
  BY <1>1, <1>2, ImplementsLedger, ClientInvariance, PTL
=============================================================================
