---------------------------- MODULE ReliableChannel ----------------------------
(***************************************************************************)
(* Reliable packets from the server to its clients: SendToSession and the  *)
(* AckQueue (network/ack_queue.go) with the purges of the handlers that    *)
(* end a session, and the client's network thread (net/udp_client.cpp)     *)
(* with its acknowledgements and the ring through which packets reach Lua. *)
(*                                                                         *)
(* One counter numbers the packets of all clients.  A packet stays queued  *)
(* until it is acknowledged from its endpoint, its retries are used up or  *)
(* its endpoint is purged.  The handlers that send and the four places     *)
(* that purge an endpoint (disconnect, eviction, timeout, kick) run        *)
(* concurrently with the tick that retransmits: here they come at any      *)
(* time.  Datagrams are lost, duplicated and reordered.                    *)
(***************************************************************************)
EXTENDS Integers, Sequences, FiniteSets

CONSTANTS
  Addr,        \* endpoints
  None,        \* no endpoint
  MaxSends,    \* bound on the reliable packets
  MaxRetries,  \* AckQueue.maxRetries, 5
  RingSize,    \* slots of g_Ring, 256
  MaxDups      \* bound on the datagrams the network duplicates

ASSUME NoneAssumption == None \notin Addr
ASSUME MaxSendsAssumption == MaxSends \in Nat
ASSUME MaxRetriesAssumption == MaxRetries \in Nat \ {0}
ASSUME RingSizeAssumption == RingSize \in Nat /\ RingSize > 1
ASSUME MaxDupsAssumption == MaxDups \in Nat

Seq32 == 1 .. MaxSends

VARIABLES
  seq,      \* Server.seq
  to,       \* the endpoint of each packet
  kind,     \* "data" or "disconnect"
  fate,     \* "unsent", "queued", or how the packet left AckQueue.entries
  retries,  \* AckEntry.Retries
  wire,     \* copies of each packet under way to its client
  copies,   \* copies of each packet the server has put on the wire
  dups,     \* datagrams duplicated by the network
  acks,     \* OpAck datagrams: source and acknowledged number
  resend,   \* packets AckQueue.Tick has collected and not yet sent again
  up,       \* g_State of each client is not DISCONNECTED
  received, \* packets that reached their client
  ring,     \* g_Ring, g_RingHead and g_RingTail of each client
  reading,  \* the packet PollEvent is copying, 0 if none
  fifo      \* the packets accepted into the ring and not yet handed to Lua

queueVars == <<seq, to, kind, fate, retries, wire, copies>>
clientVars == <<up, received, ring, reading, fifo>>
vars == <<queueVars, resend, dups, acks, clientVars>>

Init ==
  /\ seq = 0
  /\ to = [n \in Seq32 |-> None]
  /\ kind = [n \in Seq32 |-> "data"]
  /\ fate = [n \in Seq32 |-> "unsent"]
  /\ retries = [n \in Seq32 |-> 0]
  /\ wire = [n \in Seq32 |-> 0]
  /\ copies = [n \in Seq32 |-> 0]
  /\ dups = 0
  /\ acks = {}
  /\ resend = {}
  /\ up = [a \in Addr |-> FALSE]
  /\ received = {}
  /\ ring = [a \in Addr |->
       [slot |-> [i \in 0 .. RingSize - 1 |-> 0], head |-> 0, tail |-> 0]]
  /\ reading = [a \in Addr |-> 0]
  /\ fifo = [a \in Addr |-> <<>>]

(***************************************************************************)
(* The queue.                                                              *)
(***************************************************************************)
Queued == {n \in Seq32 : fate[n] = "queued"}

\* SendToSession with FlagReliable: number, enqueue, send.
SendToSession(a, k) ==
  /\ seq < MaxSends
  /\ seq' = seq + 1
  /\ to' = [to EXCEPT ![seq + 1] = a]
  /\ kind' = [kind EXCEPT ![seq + 1] = k]
  /\ fate' = [fate EXCEPT ![seq + 1] = "queued"]
  /\ wire' = [wire EXCEPT ![seq + 1] = 1]
  /\ copies' = [copies EXCEPT ![seq + 1] = 1]
  /\ UNCHANGED retries

RemoveByAddr(a) ==
  /\ fate' = [n \in Seq32 |->
       IF n \in Queued /\ to[n] = a THEN "purged" ELSE fate[n]]
  /\ UNCHANGED <<seq, to, kind, retries, wire, copies>>

\* Mutant: an acknowledgement covers the earlier packets too.
MutAckReceived(k) ==
  /\ k \in acks
  /\ fate' = [n \in Seq32 |->
       IF n <= k.seq /\ n \in Queued /\ to[n] = k.addr THEN "acked" ELSE fate[n]]
  /\ UNCHANGED <<seq, to, kind, retries, wire, copies, dups, acks, resend, clientVars>>

\* The OpAck case of HandlePacket, AcknowledgeFrom.
AckReceived(k) ==
  /\ k \in acks
  /\ fate' = [n \in Seq32 |->
       IF n = k.seq /\ n \in Queued /\ to[n] = k.addr THEN "acked" ELSE fate[n]]
  /\ UNCHANGED <<seq, to, kind, retries, wire, copies, dups, acks, resend, clientVars>>

\* Mutant: the last retry is not made.
MutExhausted(n) == retries[n] + 1 >= MaxRetries

Exhausted(n) == retries[n] >= MaxRetries

\* Mutant: an exhausted packet is no longer sent and stays in the map.
MutGiveUp(due) == fate

GiveUp(due) ==
  [n \in Seq32 |-> IF n \in due /\ Exhausted(n) THEN "dropped" ELSE fate[n]]

\* AckQueue.Tick under its lock: of the packets whose interval is over, the
\* exhausted ones are dropped and the others are collected for sending.
AckQueueTick(due) ==
  /\ resend = {}
  /\ due # {} /\ due \subseteq Queued
  /\ fate' = GiveUp(due)
  /\ retries' = [n \in Seq32 |->
       IF n \in due /\ ~Exhausted(n) THEN retries[n] + 1 ELSE retries[n]]
  /\ resend' = {n \in due : ~Exhausted(n)}
  /\ UNCHANGED <<seq, to, kind, wire, copies, dups, acks, clientVars>>

\* The sends of AckQueue.Tick, after the unlock: a packet acknowledged or purged
\* in between is sent all the same.
AckQueueResend(n) ==
  /\ n \in resend
  /\ wire' = [wire EXCEPT ![n] = @ + 1]
  /\ copies' = [copies EXCEPT ![n] = @ + 1]
  /\ resend' = resend \ {n}
  /\ UNCHANGED <<seq, to, kind, fate, retries, dups, acks, clientVars>>

\* A handler sends a reliable packet: data for Lua, or one that ends the client's
\* connection (OpDisconnect, a refused handshake).
Send(a, k) ==
  /\ SendToSession(a, k)
  /\ UNCHANGED <<resend, dups, acks, clientVars>>

\* The end of a session purges its endpoint.
Purge(a) ==
  /\ RemoveByAddr(a)
  /\ UNCHANGED <<resend, dups, acks, clientVars>>

(***************************************************************************)
(* The network and the clients.                                            *)
(***************************************************************************)
Duplicate(n) ==
  /\ wire[n] > 0 /\ dups < MaxDups
  /\ dups' = dups + 1
  /\ wire' = [wire EXCEPT ![n] = @ + 1]
  /\ UNCHANGED <<seq, to, kind, fate, retries, copies, acks, resend, clientVars>>

\* Connect of the client.
Connect(a) ==
  /\ ~up[a]
  /\ up' = [up EXCEPT ![a] = TRUE]
  /\ UNCHANGED <<queueVars, dups, acks, resend, received, ring, reading, fifo>>

\* Ten seconds without a packet, or a failed handshake.
ClientTimeout(a) ==
  /\ up[a]
  /\ up' = [up EXCEPT ![a] = FALSE]
  /\ UNCHANGED <<queueVars, dups, acks, resend, received, ring, reading, fifo>>

NextSlot(i) == (i + 1) % RingSize

\* Mutant: the producer does not look at the consumer's position.
MutRingFull(a) == FALSE

RingFull(a) == NextSlot(ring[a].head) = ring[a].tail

\* The network thread puts a packet into the ring, or drops it.
Push(a, n) ==
  IF RingFull(a)
  THEN UNCHANGED <<ring, fifo>>
  ELSE /\ ring' = [ring EXCEPT ![a].slot[ring[a].head] = n,
                               ![a].head = NextSlot(@)]
       /\ fifo' = [fifo EXCEPT ![a] = Append(@, n)]

\* BackgroundThread receives a reliable packet: acknowledge, then act on it.  A
\* disconnected client does not read its socket.
ClientReceive(n) ==
  LET a == to[n] IN
  /\ wire[n] > 0 /\ up[a]
  /\ wire' = [wire EXCEPT ![n] = @ - 1]
  /\ acks' = acks \cup {[addr |-> a, seq |-> n]}
  /\ received' = received \cup {n}
  /\ IF kind[n] = "disconnect"
     THEN /\ up' = [up EXCEPT ![a] = FALSE]
          /\ UNCHANGED <<ring, fifo>>
     ELSE /\ Push(a, n)
          /\ UNCHANGED up
  /\ UNCHANGED <<seq, to, kind, fate, retries, copies, dups, resend, reading>>

\* PollEvent of the Lua thread: copy the packet at the tail, then release the slot
\* (a packet too large for the caller's buffer is released in the same way).
PollCopy(a) ==
  /\ reading[a] = 0
  /\ ring[a].tail # ring[a].head
  /\ reading' = [reading EXCEPT ![a] = ring[a].slot[ring[a].tail]]
  /\ UNCHANGED <<queueVars, dups, acks, resend, up, received, ring, fifo>>

PollRelease(a) ==
  /\ reading[a] # 0
  /\ reading' = [reading EXCEPT ![a] = 0]
  /\ ring' = [ring EXCEPT ![a].tail = NextSlot(@)]
  /\ fifo' = [fifo EXCEPT ![a] = Tail(@)]
  /\ UNCHANGED <<queueVars, dups, acks, resend, up, received>>

-----------------------------------------------------------------------------
Server ==
  \/ \E a \in Addr : Purge(a) \/ \E k \in {"data", "disconnect"} : Send(a, k)
  \/ \E k \in acks : AckReceived(k)
  \/ \E due \in SUBSET Queued : AckQueueTick(due)
  \/ \E n \in resend : AckQueueResend(n)

Client ==
  \/ \E n \in Seq32 : Duplicate(n) \/ (wire[n] > 0 /\ ClientReceive(n))
  \/ \E a \in Addr : Connect(a) \/ ClientTimeout(a) \/ PollCopy(a) \/ PollRelease(a)

Next == Server \/ Client

Spec == Init /\ [][Next]_vars

\* The tick goes on: it finishes what it began, and a packet whose interval is
\* over is among those of some later tick.  Nothing is assumed of the clients and
\* of the network.
Fairness ==
  /\ WF_vars(\E n \in resend : AckQueueResend(n))
  /\ \A n \in Seq32 : SF_vars(\E due \in SUBSET Queued : n \in due /\ AckQueueTick(due))

FairSpec == Spec /\ Fairness
-----------------------------------------------------------------------------
(***************************************************************************)
(* Properties.                                                             *)
(***************************************************************************)

\* Types; the ring's positions stay inside it.
TypeOK ==
  /\ seq \in 0 .. MaxSends
  /\ to \in [Seq32 -> Addr \cup {None}]
  /\ kind \in [Seq32 -> {"data", "disconnect"}]
  /\ fate \in [Seq32 -> {"unsent", "queued", "acked", "dropped", "purged"}]
  /\ retries \in [Seq32 -> Nat] /\ wire \in [Seq32 -> Nat] /\ copies \in [Seq32 -> Nat]
  /\ acks \subseteq [addr: Addr, seq: Seq32]
  /\ resend \subseteq Seq32
  /\ up \in [Addr -> BOOLEAN]
  /\ received \subseteq Seq32
  /\ \A a \in Addr : ring[a].head \in 0 .. RingSize - 1 /\ ring[a].tail \in 0 .. RingSize - 1

\* A packet the server takes off its queue as acknowledged has reached the client
\* it was meant for ("an address-blind ACK would let any client suppress another
\* client's reliable retransmissions").
AckedWasReceived ==
  \A n \in Seq32 : fate[n] = "acked" => n \in received

\* A packet is given up only after its first transmission and all retries, and
\* no packet is sent more often, however ticks, acknowledgements and purges
\* interleave with the sends outside the lock.
GivenUpAfterAllRetries ==
  \A n \in Seq32 :
    /\ copies[n] <= MaxRetries + 1
    /\ fate[n] = "dropped" => copies[n] = MaxRetries + 1

\* The ring between network thread and Lua is a queue: what lies between tail and
\* head is what was accepted and not yet handed over, in order, and the slot that
\* PollEvent copies is not overwritten meanwhile.
RingIsFifo ==
  \A a \in Addr :
    LET used == (ring[a].head - ring[a].tail + RingSize) % RingSize
    IN /\ fifo[a] = [i \in 1 .. used |-> ring[a].slot[(ring[a].tail + i - 1) % RingSize]]
       /\ reading[a] # 0 => used > 0 /\ reading[a] = Head(fifo[a])

\* The types, and the ring as a queue.
RingSound == TypeOK /\ RingIsFifo

\* No packet is retransmitted for ever: it is acknowledged, purged with its
\* endpoint or given up, also when the client has gone silently.
QueueDrains ==
  \A n \in Seq32 : (fate[n] = "queued") ~> (fate[n] # "queued")
=============================================================================
