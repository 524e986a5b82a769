---------------------------- MODULE DeliveryProofs ----------------------------
(***************************************************************************)
(* Proofs about what reaches the clients.  ReliableChannel, for any number *)
(* of clients and packets, any retry limit and any ring size: the account  *)
(* of the retransmissions and the ring.  Visibility, for any players,      *)
(* levels and roles: who is shown to whom, and the release of the puppet.  *)
(***************************************************************************)
EXTENDS ReliableChannel, Visibility, SequenceTheorems, TLAPS

\* The types the arguments need.
QueueTypes ==
  /\ seq \in 0 .. MaxSends
  /\ fate \in [Seq32 -> {"unsent", "queued", "acked", "dropped", "purged"}]
  /\ retries \in [Seq32 -> Nat]
  /\ copies \in [Seq32 -> Nat]
  /\ resend \subseteq Seq32

\* An acknowledgement exists only for a packet that was received.
AcksTrue ==
  /\ \A k \in acks : k.seq \in received
  /\ AckedWasReceived

\* The copies of a packet are its first transmission and its retries, less the
\* one the tick is about to make.
Account(n) ==
  /\ n > seq => fate[n] = "unsent" /\ retries[n] = 0 /\ copies[n] = 0 /\ n \notin resend
  /\ n <= seq => copies[n] = retries[n] + 1 - (IF n \in resend THEN 1 ELSE 0)
  /\ retries[n] <= MaxRetries
  /\ fate[n] = "dropped" => retries[n] = MaxRetries /\ n \notin resend

Accounts == \A n \in Seq32 : Account(n)

Inv == QueueTypes /\ AcksTrue /\ Accounts

-----------------------------------------------------------------------------
\* The invariant holds initially.
LEMMA InvInit == Init => Inv
<1> USE MaxSendsAssumption, MaxRetriesAssumption DEF Seq32
<1> SUFFICES ASSUME Init PROVE Inv
  OBVIOUS
<1>1. QueueTypes
  BY DEF Init, QueueTypes
<1>2. AcksTrue
  BY DEF Init, AcksTrue, AckedWasReceived
<1>3. Accounts
  BY DEF Init, Accounts, Account
<1> QED
  BY <1>1, <1>2, <1>3 DEF Inv

\* A new packet starts with one copy and no retry.
LEMMA SendKeeps ==
  ASSUME Inv, NEW a \in Addr, NEW k, Send(a, k)
  PROVE  Inv'
<1> USE MaxSendsAssumption, MaxRetriesAssumption DEF Seq32, Inv
<1>1. QueueTypes'
  BY DEF QueueTypes, Send, SendToSession
<1>2. AcksTrue'
  BY DEF QueueTypes, AcksTrue, AckedWasReceived, Send, SendToSession, clientVars
<1>3. Accounts'
  <2> SUFFICES ASSUME NEW n \in Seq32 PROVE Account(n)'
    BY DEF Accounts
  <2>1. Account(n)
    BY DEF Accounts
  <2>2. CASE n = seq + 1
    BY <2>1, <2>2 DEF QueueTypes, Account, Send, SendToSession
  <2>3. CASE n # seq + 1
    BY <2>1, <2>3 DEF QueueTypes, Account, Send, SendToSession
  <2> QED
    BY <2>2, <2>3
<1> QED
  BY <1>1, <1>2, <1>3

\* A purge takes packets off the queue and touches nothing else.
LEMMA PurgeKeeps ==
  ASSUME Inv, NEW a \in Addr, Purge(a)
  PROVE  Inv'
<1> USE MaxSendsAssumption DEF Seq32, Inv
<1>1. QueueTypes'
  BY DEF QueueTypes, Purge, RemoveByAddr
<1>2. AcksTrue'
  BY DEF QueueTypes, AcksTrue, AckedWasReceived, Purge, RemoveByAddr, clientVars
<1>3. Accounts'
  BY DEF QueueTypes, Accounts, Account, Purge, RemoveByAddr, Queued
<1> QED
  BY <1>1, <1>2, <1>3

\* Only the packet named in the acknowledgement is taken off.
LEMMA AckKeeps ==
  ASSUME Inv, NEW k \in acks, AckReceived(k)
  PROVE  Inv'
<1> USE MaxSendsAssumption DEF Seq32, Inv
<1>1. QueueTypes'
  BY DEF QueueTypes, AckReceived
<1>2. AcksTrue'
  BY DEF QueueTypes, AcksTrue, AckedWasReceived, AckReceived, clientVars
<1>3. Accounts'
  BY DEF QueueTypes, Accounts, Account, AckReceived, Queued
<1> QED
  BY <1>1, <1>2, <1>3

\* The tick counts the retry before it is sent.
LEMMA TickKeeps ==
  ASSUME Inv, NEW due \in SUBSET Queued, AckQueueTick(due)
  PROVE  Inv'
<1> USE MaxSendsAssumption, MaxRetriesAssumption DEF Seq32, Inv
<1>1. QueueTypes'
  <2>1. seq' = seq /\ copies' = copies
    BY DEF AckQueueTick
  <2>2. fate' \in [Seq32 -> {"unsent", "queued", "acked", "dropped", "purged"}]
    BY DEF QueueTypes, AckQueueTick, GiveUp
  <2>3. retries' \in [Seq32 -> Nat]
    BY DEF QueueTypes, AckQueueTick
  <2>4. resend' \subseteq Seq32
    BY DEF AckQueueTick, Queued
  <2> QED
    BY <2>1, <2>2, <2>3, <2>4 DEF QueueTypes
<1>2. AcksTrue'
  BY DEF QueueTypes, AcksTrue, AckedWasReceived, AckQueueTick, GiveUp, clientVars
<1>3. Accounts'
  <2> SUFFICES ASSUME NEW n \in Seq32 PROVE Account(n)'
    BY DEF Accounts
  <2>1. Account(n) /\ n \notin resend
    BY DEF Accounts, AckQueueTick
  <2>2. n \in due => n <= seq /\ fate[n] = "queued"
    BY <2>1 DEF Account, Queued, QueueTypes
  <2>3. CASE n \in due /\ Exhausted(n)
    BY <2>1, <2>2, <2>3 DEF QueueTypes, Account, AckQueueTick, GiveUp, Exhausted
  <2>4. CASE n \in due /\ ~Exhausted(n)
    BY <2>1, <2>2, <2>4 DEF QueueTypes, Account, AckQueueTick, GiveUp, Exhausted
  <2>5. CASE n \notin due
    BY <2>1, <2>5 DEF QueueTypes, Account, AckQueueTick, GiveUp
  <2> QED
    BY <2>3, <2>4, <2>5
<1> QED
  BY <1>1, <1>2, <1>3

\* The send outside the lock makes the copy that was counted.
LEMMA ResendKeeps ==
  ASSUME Inv, NEW m \in resend, AckQueueResend(m)
  PROVE  Inv'
<1> USE MaxSendsAssumption, MaxRetriesAssumption DEF Seq32, Inv
<1>1. QueueTypes'
  BY DEF QueueTypes, AckQueueResend
<1>2. AcksTrue'
  BY DEF AcksTrue, AckedWasReceived, AckQueueResend, clientVars
<1>3. Accounts'
  <2> SUFFICES ASSUME NEW n \in Seq32 PROVE Account(n)'
    BY DEF Accounts
  <2>1. Account(n)
    BY DEF Accounts
  <2>2. CASE n = m
    BY <2>1, <2>2 DEF QueueTypes, Account, AckQueueResend
  <2>3. CASE n # m
    BY <2>1, <2>3 DEF QueueTypes, Account, AckQueueResend
  <2> QED
    BY <2>2, <2>3
<1> QED
  BY <1>1, <1>2, <1>3

\* The client acknowledges a packet in the step in which it receives it.
LEMMA ReceiveKeeps ==
  ASSUME Inv, NEW n \in Seq32, ClientReceive(n)
  PROVE  Inv'
<1> USE DEF Inv
<1>1. UNCHANGED <<seq, fate, retries, copies, resend>>
  BY DEF ClientReceive
<1>2. QueueTypes' /\ Accounts'
  BY <1>1 DEF QueueTypes, Accounts, Account
<1>3. /\ received' = received \cup {n}
      /\ acks' = acks \cup {[addr |-> to[n], seq |-> n]}
  BY DEF ClientReceive
<1>4. AcksTrue'
  BY <1>1, <1>3 DEF AcksTrue, AckedWasReceived
<1> QED
  BY <1>2, <1>4

\* What leaves the queue, the acknowledgements and what was received alone.
LEMMA OthersKeep ==
  ASSUME Inv, UNCHANGED <<seq, fate, retries, copies, resend, acks, received>>
  PROVE  Inv'
  BY DEF Inv, QueueTypes, AcksTrue, AckedWasReceived, Accounts, Account

\* Every step keeps the invariant.
LEMMA InvNext == Inv /\ [Next]_vars => Inv'
<1> SUFFICES ASSUME Inv, [Next]_vars PROVE Inv'
  OBVIOUS
<1>1. CASE Server
  <2>1. ASSUME NEW a \in Addr, Purge(a) PROVE Inv'
    BY <2>1, PurgeKeeps
  <2>2. ASSUME NEW a \in Addr, NEW k \in {"data", "disconnect"}, Send(a, k) PROVE Inv'
    BY <2>2, SendKeeps
  <2>3. ASSUME NEW k \in acks, AckReceived(k) PROVE Inv'
    BY <2>3, AckKeeps
  <2>4. ASSUME NEW due \in SUBSET Queued, AckQueueTick(due) PROVE Inv'
    BY <2>4, TickKeeps
  <2>5. ASSUME NEW n \in resend, AckQueueResend(n) PROVE Inv'
    BY <2>5, ResendKeeps
  <2> QED
    BY <1>1, <2>1, <2>2, <2>3, <2>4, <2>5 DEF Server
<1>2. CASE Client
  <2>1. ASSUME NEW n \in Seq32, Duplicate(n) PROVE Inv'
    BY <2>1, OthersKeep DEF Duplicate, clientVars
  <2>2. ASSUME NEW n \in Seq32, ClientReceive(n) PROVE Inv'
    BY <2>2, ReceiveKeeps
  <2>3. ASSUME NEW a \in Addr, Connect(a) \/ ClientTimeout(a) PROVE Inv'
    BY <2>3, OthersKeep DEF Connect, ClientTimeout, queueVars
  <2>4. ASSUME NEW a \in Addr, PollCopy(a) \/ PollRelease(a) PROVE Inv'
    BY <2>4, OthersKeep DEF PollCopy, PollRelease, queueVars
  <2> QED
    BY <1>2, <2>1, <2>2, <2>3, <2>4 DEF Client
<1>3. CASE UNCHANGED vars
  BY <1>3, OthersKeep DEF vars, queueVars, clientVars
<1> QED
  BY <1>1, <1>2, <1>3 DEF Next

\* The invariant holds in every behaviour.
LEMMA Invariance == Spec => []Inv
  BY InvInit, InvNext, PTL DEF Spec

\* A packet taken off the queue as acknowledged has reached its client, for any
\* number of clients and whatever the network does.
THEOREM Acknowledged == Spec => []AckedWasReceived
<1>1. Inv => AckedWasReceived
  BY DEF Inv, AcksTrue
<1> QED
  BY <1>1, Invariance, PTL

\* A packet is sent at most 1 + MaxRetries times, and exactly that often before
\* it is given up.
THEOREM Retransmission == Spec => []GivenUpAfterAllRetries
<1>1. Inv => GivenUpAfterAllRetries
  <2> SUFFICES ASSUME Inv, NEW n \in Seq32
               PROVE  /\ copies[n] <= MaxRetries + 1
                      /\ fate[n] = "dropped" => copies[n] = MaxRetries + 1
    BY DEF GivenUpAfterAllRetries
  <2>1. Account(n) /\ n \in Nat /\ seq \in Nat /\ retries[n] \in Nat /\ copies[n] \in Nat
    BY MaxSendsAssumption DEF Inv, QueueTypes, Accounts, Seq32
  <2>2. CASE n > seq
    BY <2>1, <2>2, MaxRetriesAssumption DEF Account
  <2>3. CASE n <= seq
    BY <2>1, <2>3, MaxRetriesAssumption DEF Account
  <2> QED
    BY <2>1, <2>2, <2>3
<1> QED
  BY <1>1, Invariance, PTL
-----------------------------------------------------------------------------
(***************************************************************************)
(* The ring.  Its positions wrap around: they are reasoned about without   *)
(* the remainder, as the j-th slot counted from a position.                *)
(***************************************************************************)
Slots == 0 .. RingSize - 1
SlotAt(t, j) == IF t + j < RingSize THEN t + j ELSE t + j - RingSize
Rings == [slot: [Slots -> Nat], head: Slots, tail: Slots]

\* The rest of the types: a packet on the wire has an endpoint.
ChannelTypes ==
  /\ to \in [Seq32 -> Addr \cup {None}]
  /\ \A n \in Seq32 : n <= seq => to[n] \in Addr
  /\ kind \in [Seq32 -> {"data", "disconnect"}]
  /\ wire \in [Seq32 -> Nat]
  /\ \A n \in Seq32 : n > seq => wire[n] = 0
  /\ acks \subseteq [addr: Addr, seq: Seq32]
  /\ up \in [Addr -> BOOLEAN]
  /\ received \subseteq Seq32

RingTypes ==
  /\ ring \in [Addr -> Rings]
  /\ fifo \in [Addr -> Seq(Seq32)]
  /\ reading \in [Addr -> Nat]

\* A ring r holds the queue q: the head is Len(q) slots after the tail, one slot
\* always stays free, and the slots from the tail on are the members of q.
Holds(r, q) ==
  /\ Len(q) < RingSize
  /\ r.head = SlotAt(r.tail, Len(q))
  /\ \A i \in 1 .. Len(q) : q[i] = r.slot[SlotAt(r.tail, i - 1)]

\* What PollEvent copies is the oldest packet.
Copying(a) == reading[a] # 0 => fifo[a] # <<>> /\ reading[a] = Head(fifo[a])

RingInv == ChannelTypes /\ RingTypes /\ \A a \in Addr : Holds(ring[a], fifo[a]) /\ Copying(a)

\* The remainder for what a position in the ring and a step or a difference of
\* positions add up to.
LEMMA Wrap ==
  ASSUME NEW x \in 0 .. 2 * RingSize - 1
  PROVE  x % RingSize = IF x < RingSize THEN x ELSE x - RingSize
  BY RingSizeAssumption

\* The position after a slot.
LEMMA NextIsAt ==
  ASSUME NEW i \in Slots
  PROVE  NextSlot(i) = SlotAt(i, 1) /\ NextSlot(i) \in Slots
  BY Wrap, RingSizeAssumption DEF NextSlot, SlotAt, Slots

\* Positions: j slots after t, one slot farther, and all around the ring.
LEMMA Positions ==
  ASSUME NEW t \in Slots, NEW j \in Slots
  PROVE  /\ SlotAt(t, j) \in Slots
         /\ j + 1 < RingSize => SlotAt(SlotAt(t, j), 1) = SlotAt(t, j + 1)
         /\ j + 1 < RingSize => SlotAt(SlotAt(t, 1), j) = SlotAt(t, j + 1)
         /\ j + 1 = RingSize => SlotAt(SlotAt(t, j), 1) = t
<1>1. /\ RingSize \in Nat /\ t \in Nat /\ j \in Nat /\ 1 < RingSize
      /\ t < RingSize /\ j < RingSize
  BY RingSizeAssumption DEF Slots
<1>2. SlotAt(t, j) \in Slots
  BY <1>1 DEF SlotAt, Slots
<1>3. j + 1 < RingSize => SlotAt(SlotAt(t, j), 1) = SlotAt(t, j + 1)
  BY <1>1 DEF SlotAt
<1>4. j + 1 < RingSize => SlotAt(SlotAt(t, 1), j) = SlotAt(t, j + 1)
  BY <1>1 DEF SlotAt
<1>5. j + 1 = RingSize => SlotAt(SlotAt(t, j), 1) = t
  BY <1>1 DEF SlotAt
<1> QED
  BY <1>2, <1>3, <1>4, <1>5

\* Two positions are two slots.
LEMMA PositionsDiffer ==
  ASSUME NEW t \in Slots, NEW j \in Slots, NEW k \in Slots, j # k
  PROVE  SlotAt(t, j) # SlotAt(t, k)
<1>1. /\ RingSize \in Nat /\ t \in Nat /\ j \in Nat /\ k \in Nat
      /\ t < RingSize /\ j < RingSize /\ k < RingSize
  BY RingSizeAssumption DEF Slots
<1> QED
  BY <1>1 DEF SlotAt

\* Lengths below the ring's size and positions.
LEMMA Lengths ==
  ASSUME NEW m \in Nat, m < RingSize
  PROVE  /\ m \in Slots /\ (m + 1 < RingSize \/ m + 1 = RingSize)
         /\ \A i \in 1 .. m : i \in Nat /\ i - 1 \in Slots /\ i - 1 # m /\ (i - 1) + 1 = i
         /\ \A i \in 1 .. m + 1 : i = m + 1 \/ i \in 1 .. m
         /\ (m + 1) - 1 = m
  BY RingSizeAssumption DEF Slots

\* A packet put at the head of a ring that is not full lands behind all others
\* and overwrites none of them.
LEMMA Pushed ==
  ASSUME NEW r \in Rings, NEW q \in Seq(Seq32), NEW n \in Seq32,
         Holds(r, q), NextSlot(r.head) # r.tail,
         NEW s \in Rings,
         s.slot = [r.slot EXCEPT ![r.head] = n], s.head = NextSlot(r.head), s.tail = r.tail
  PROVE  Holds(s, Append(q, n))
<1>1. PICK m, t, h : m = Len(q) /\ t = r.tail /\ h = r.head
  OBVIOUS
<1>2. /\ m \in Nat /\ Len(Append(q, n)) = m + 1
      /\ Append(q, n)[m + 1] = n
      /\ \A i \in 1 .. m : Append(q, n)[i] = q[i]
  BY <1>1
<1>3. /\ t \in Slots /\ h \in Slots
      /\ s.slot[h] = n
      /\ \A i \in Slots : i # h => s.slot[i] = r.slot[i]
  BY <1>1 DEF Rings
<1>4. /\ m < RingSize /\ h = SlotAt(t, m)
      /\ \A i \in 1 .. m : q[i] = r.slot[SlotAt(t, i - 1)]
  BY <1>1 DEF Holds
<1>5. NextSlot(h) = SlotAt(h, 1) /\ s.head = NextSlot(h) /\ NextSlot(h) # t /\ s.tail = t
  BY <1>1, <1>3, NextIsAt
<1>6. m \in Slots
  BY <1>2, <1>4, Lengths
<1>7. m + 1 < RingSize /\ s.head = SlotAt(t, m + 1)
  <2>1. /\ m + 1 < RingSize => SlotAt(h, 1) = SlotAt(t, m + 1)
        /\ m + 1 = RingSize => SlotAt(h, 1) = t
    BY <1>3, <1>4, <1>6, Positions
  <2> QED
    BY <2>1, <1>2, <1>4, <1>5, Lengths
<1>8. ASSUME NEW i \in 1 .. m
      PROVE  Append(q, n)[i] = s.slot[SlotAt(t, i - 1)]
  <2>1. i - 1 \in Slots /\ i - 1 # m
    BY <1>2, <1>4, Lengths
  <2>2. SlotAt(t, i - 1) \in Slots /\ SlotAt(t, i - 1) # h
    BY <2>1, <1>3, <1>4, <1>6, Positions, PositionsDiffer
  <2> QED
    BY <2>2, <1>2, <1>3, <1>4
<1>9. ASSUME NEW i \in 1 .. m + 1
      PROVE  Append(q, n)[i] = s.slot[SlotAt(t, i - 1)]
  <2>1. CASE i = m + 1
    <3>1. i - 1 = m
      BY <2>1, <1>2, <1>4, Lengths
    <3> QED
      BY <2>1, <3>1, <1>2, <1>3, <1>4
  <2>2. CASE i \in 1 .. m
    BY <2>2, <1>8
  <2> QED
    BY <2>1, <2>2, <1>2, <1>4, Lengths
<1> QED
  BY <1>2, <1>5, <1>7, <1>9 DEF Holds

\* Releasing the tail of a ring that is not empty takes off the oldest packet.
LEMMA Released ==
  ASSUME NEW r \in Rings, NEW q \in Seq(Seq32), q # <<>>, Holds(r, q),
         NEW s \in Rings,
         s.slot = r.slot, s.head = r.head, s.tail = NextSlot(r.tail)
  PROVE  Holds(s, Tail(q))
<1>1. PICK m, t, l : m = Len(q) /\ t = r.tail /\ l = Len(Tail(q))
  OBVIOUS
<1>2. /\ m \in Nat /\ m > 0 /\ l = m - 1
      /\ \A i \in 1 .. l : Tail(q)[i] = q[i + 1]
  BY <1>1, HeadTailProperties, EmptySeq
<1>3. /\ m < RingSize /\ r.head = SlotAt(t, m)
      /\ \A i \in 1 .. m : q[i] = r.slot[SlotAt(t, i - 1)]
  BY <1>1 DEF Holds
<1>4. l \in Nat /\ l + 1 = m /\ l < RingSize /\ l + 1 < RingSize
  BY <1>2, <1>3, RingSizeAssumption
<1>5. t \in Slots /\ s.tail = SlotAt(t, 1)
  <2>1. t \in Slots
    BY <1>1 DEF Rings
  <2> QED
    BY <2>1, <1>1, NextIsAt
<1>6. s.head = SlotAt(s.tail, l)
  <2>1. l \in Slots
    BY <1>4, Lengths
  <2> QED
    BY <2>1, <1>3, <1>4, <1>5, Positions
<1>7. ASSUME NEW i \in 1 .. l
      PROVE  Tail(q)[i] = s.slot[SlotAt(s.tail, i - 1)]
  <2>1. /\ i \in Nat /\ i - 1 \in Slots /\ (i - 1) + 1 = i
    BY <1>4, Lengths
  <2>2. RingSize \in Nat /\ m \in Nat /\ i <= l
    BY <1>2, <1>4, RingSizeAssumption
  <2>3. i < RingSize /\ i + 1 \in 1 .. m /\ (i + 1) - 1 = i
    BY <2>1, <2>2, <1>4
  <2>4. SlotAt(s.tail, i - 1) = SlotAt(t, i)
    BY <2>1, <2>3, <1>5, Positions
  <2>5. Tail(q)[i] = r.slot[SlotAt(t, i)]
    BY <2>3, <1>2, <1>3
  <2> QED
    BY <2>4, <2>5
<1> QED
  BY <1>1, <1>4, <1>6, <1>7 DEF Holds

\* The ring's invariant holds initially.
LEMMA RingInit == Init => RingInv
<1> USE MaxSendsAssumption, RingSizeAssumption DEF Seq32
<1> SUFFICES ASSUME Init PROVE RingInv
  OBVIOUS
<1>1. ChannelTypes
  BY DEF Init, ChannelTypes
<1>2. RingTypes
  BY EmptySeq DEF Init, RingTypes, Rings, Slots
<1>3. \A a \in Addr : Holds(ring[a], fifo[a]) /\ Copying(a)
  BY DEF Init, Holds, Copying, SlotAt
<1> QED
  BY <1>1, <1>2, <1>3 DEF RingInv

\* The server's steps leave the clients' rings alone and keep the types.
LEMMA ServerKeepsRing ==
  ASSUME Inv, RingInv, Server
  PROVE  RingInv'
<1> USE MaxSendsAssumption DEF Seq32
<1>1. UNCHANGED <<acks, up, received, ring, reading, fifo>>
  BY DEF Server, Purge, Send, AckReceived, AckQueueTick, AckQueueResend, clientVars
<1>2. ChannelTypes'
  <2>1. ASSUME NEW a \in Addr, NEW k \in {"data", "disconnect"}, Send(a, k) PROVE ChannelTypes'
    BY <2>1, <1>1 DEF Send, SendToSession, Inv, QueueTypes, RingInv, ChannelTypes
  <2>2. ASSUME NEW n \in resend, AckQueueResend(n) PROVE ChannelTypes'
    <3>1. n \in Seq32 /\ ~(n > seq)
      BY DEF Inv, QueueTypes, Accounts, Account
    <3>2. seq' = seq /\ to' = to /\ kind' = kind /\ wire' = [wire EXCEPT ![n] = @ + 1]
      BY <2>2 DEF AckQueueResend
    <3>3. wire' \in [Seq32 -> Nat]
      BY <3>1, <3>2 DEF RingInv, ChannelTypes
    <3>4. ASSUME NEW m \in Seq32, m > seq PROVE wire'[m] = 0
      BY <3>1, <3>2, <3>4 DEF RingInv, ChannelTypes
    <3> QED
      BY <3>2, <3>3, <3>4, <1>1 DEF RingInv, ChannelTypes
  <2>3. ASSUME UNCHANGED <<seq, to, kind, wire>> PROVE ChannelTypes'
    BY <2>3, <1>1 DEF RingInv, ChannelTypes
  <2> QED
    BY <2>1, <2>2, <2>3 DEF Server, Purge, RemoveByAddr, AckReceived, AckQueueTick
<1>3. RingTypes'
  BY <1>1 DEF RingInv, RingTypes
<1>4. ASSUME NEW a \in Addr PROVE (Holds(ring[a], fifo[a]) /\ Copying(a))'
  BY <1>1 DEF RingInv, Holds, Copying
<1> QED
  BY <1>2, <1>3, <1>4 DEF RingInv

\* The network thread's push, between any two steps of PollEvent.
LEMMA PushKeepsRing ==
  ASSUME RingTypes, NEW a \in Addr, NEW n \in Seq32, Push(a, n), reading' = reading,
         \A b \in Addr : Holds(ring[b], fifo[b]) /\ Copying(b)
  PROVE  RingTypes' /\ \A b \in Addr : (Holds(ring[b], fifo[b]) /\ Copying(b))'
<1>1. CASE RingFull(a)
  BY <1>1 DEF Push, RingTypes, Holds, Copying
<1>2. CASE ~RingFull(a)
  <2> DEFINE r == ring[a]
             s == [r EXCEPT !.slot[r.head] = n, !.head = NextSlot(@)]
  <2>1. r \in Rings /\ r.head \in Slots /\ r.slot \in [Slots -> Nat] /\ r.tail \in Slots
    BY DEF RingTypes, Rings
  <2>2. /\ s \in Rings /\ s.slot = [r.slot EXCEPT ![r.head] = n]
        /\ s.head = NextSlot(r.head) /\ s.tail = r.tail
    <3> HIDE DEF r
    <3>1. n \in Nat /\ NextSlot(r.head) \in Slots
      BY <2>1, NextIsAt, MaxSendsAssumption DEF Seq32
    <3> QED
      BY <2>1, <3>1 DEF Rings
  <2>3. ring' = [ring EXCEPT ![a] = s]
    <3>1. ring' = [ring EXCEPT ![a].slot[ring[a].head] = n, ![a].head = NextSlot(@)]
      BY <1>2 DEF Push
    <3>2. ring \in [Addr -> Rings] /\ ring[a] \in Rings
      BY DEF RingTypes
    <3> QED
      BY <3>1, <3>2
  <2>4. fifo' = [fifo EXCEPT ![a] = Append(@, n)]
    BY <1>2 DEF Push
  <2>5. fifo[a] \in Seq(Seq32) /\ Append(fifo[a], n) \in Seq(Seq32)
    BY AppendProperties DEF RingTypes
  <2>6. NextSlot(r.head) # r.tail
    BY <1>2 DEF RingFull
  <2>7. Holds(s, Append(fifo[a], n))
    <3> HIDE DEF r
    <3>1. Holds(r, fifo[a])
      BY DEF r
    <3> HIDE DEF s
    <3> QED
      BY <2>1, <2>2, <2>5, <2>6, <3>1, Pushed
  <2> HIDE DEF s
  <2>8. RingTypes'
    BY <2>2, <2>3, <2>4, <2>5 DEF RingTypes
  <2>9. ASSUME NEW b \in Addr PROVE (Holds(ring[b], fifo[b]) /\ Copying(b))'
    <3>1. CASE b = a
      <4>1. ring'[a] = s /\ fifo'[a] = Append(fifo[a], n)
        BY <2>3, <2>4 DEF RingTypes
      <4>2. reading[a] # 0 => fifo[a] # <<>> /\ reading[a] = Head(fifo[a])
        BY DEF Copying
      <4>3. fifo[a] # <<>> => Append(fifo[a], n) # <<>> /\ Head(Append(fifo[a], n)) = Head(fifo[a])
        BY <2>5
      <4> QED
        BY <3>1, <4>1, <4>2, <4>3, <2>7 DEF Copying
    <3>2. CASE b # a
      <4>1. ring'[b] = ring[b] /\ fifo'[b] = fifo[b]
        BY <3>2, <2>3, <2>4 DEF RingTypes
      <4> QED
        BY <4>1 DEF Copying
    <3> QED
      BY <3>1, <3>2
  <2> QED
    BY <2>8, <2>9
<1> QED
  BY <1>1, <1>2

\* The Lua thread's release of the slot it has copied.
LEMMA ReleaseKeepsRing ==
  ASSUME RingInv, NEW a \in Addr, PollRelease(a)
  PROVE  RingTypes' /\ \A b \in Addr : (Holds(ring[b], fifo[b]) /\ Copying(b))'
<1> DEFINE r == ring[a]
           s == [r EXCEPT !.tail = NextSlot(@)]
<1>1. r \in Rings /\ r.head \in Slots /\ r.slot \in [Slots -> Nat] /\ r.tail \in Slots
  BY DEF RingInv, RingTypes, Rings
<1>2. s \in Rings /\ s.slot = r.slot /\ s.head = r.head /\ s.tail = NextSlot(r.tail)
  <2> HIDE DEF r
  <2>1. NextSlot(r.tail) \in Slots
    BY <1>1, NextIsAt
  <2> QED
    BY <1>1, <2>1 DEF Rings
<1>3. ring' = [ring EXCEPT ![a] = s]
  <2>1. ring' = [ring EXCEPT ![a].tail = NextSlot(@)]
    BY DEF PollRelease
  <2>2. ring \in [Addr -> Rings] /\ ring[a] \in Rings
    BY DEF RingInv, RingTypes
  <2> QED
    BY <2>1, <2>2
<1>4. fifo' = [fifo EXCEPT ![a] = Tail(@)] /\ reading' = [reading EXCEPT ![a] = 0]
  BY DEF PollRelease
<1>5. fifo[a] \in Seq(Seq32) /\ fifo[a] # <<>>
  BY DEF RingInv, RingTypes, Copying, PollRelease
<1>6. Tail(fifo[a]) \in Seq(Seq32)
  BY <1>5, HeadTailProperties
<1>7. Holds(s, Tail(fifo[a]))
  <2> HIDE DEF r
  <2>1. Holds(r, fifo[a])
    BY DEF r, RingInv
  <2> HIDE DEF s
  <2> QED
    BY <1>1, <1>2, <1>5, <2>1, Released
<1> HIDE DEF s
<1>8. RingTypes'
  BY <1>2, <1>3, <1>4, <1>6 DEF RingInv, RingTypes
<1>9. ASSUME NEW b \in Addr PROVE (Holds(ring[b], fifo[b]) /\ Copying(b))'
  <2>1. CASE b = a
    <3>1. ring'[a] = s /\ fifo'[a] = Tail(fifo[a]) /\ reading'[a] = 0
      BY <1>3, <1>4 DEF RingInv, RingTypes
    <3> QED
      BY <2>1, <3>1, <1>7 DEF Copying
  <2>2. CASE b # a
    <3>1. ring'[b] = ring[b] /\ fifo'[b] = fifo[b] /\ reading'[b] = reading[b]
      BY <2>2, <1>3, <1>4 DEF RingInv, RingTypes
    <3> QED
      BY <3>1 DEF Copying, RingInv
  <2> QED
    BY <2>1, <2>2
<1> QED
  BY <1>8, <1>9

\* The copy takes the packet at the tail, the oldest one.
LEMMA CopyKeepsRing ==
  ASSUME RingInv, NEW a \in Addr, PollCopy(a)
  PROVE  RingInv'
<1> USE RingSizeAssumption
<1>1. /\ UNCHANGED <<seq, to, kind, wire, acks, up, received, ring, fifo>>
      /\ reading' = [reading EXCEPT ![a] = ring[a].slot[ring[a].tail]]
  BY DEF PollCopy, queueVars
<1>2. ring[a].tail \in Slots /\ ring[a].slot[ring[a].tail] \in Nat /\ fifo[a] \in Seq(Seq32)
  BY DEF RingInv, RingTypes, Rings
<1>3. fifo[a] # <<>> /\ ring[a].slot[ring[a].tail] = Head(fifo[a])
  <2>1. Holds(ring[a], fifo[a]) /\ ring[a].tail # ring[a].head
    BY DEF RingInv, PollCopy
  <2>2. SlotAt(ring[a].tail, 0) = ring[a].tail
    BY <1>2 DEF SlotAt, Slots
  <2>3. Len(fifo[a]) # 0
    BY <2>1, <2>2 DEF Holds
  <2>4. fifo[a] # <<>> /\ Head(fifo[a]) = fifo[a][1] /\ 1 \in 1 .. Len(fifo[a])
    BY <1>2, <2>3
  <2> QED
    BY <2>1, <2>2, <2>4 DEF Holds
<1>4. ChannelTypes' /\ RingTypes'
  BY <1>1, <1>2 DEF RingInv, ChannelTypes, RingTypes
<1>5. ASSUME NEW b \in Addr PROVE (Holds(ring[b], fifo[b]) /\ Copying(b))'
  BY <1>1, <1>3 DEF RingInv, RingTypes, Copying
<1> QED
  BY <1>4, <1>5 DEF RingInv

\* The client receives a packet; a packet on the wire has a client.
LEMMA ReceiveKeepsRing ==
  ASSUME Inv, RingInv, NEW n \in Seq32, wire[n] > 0, ClientReceive(n)
  PROVE  RingInv'
<1> USE MaxSendsAssumption
<1>1. n <= seq /\ to[n] \in Addr
  BY DEF Inv, QueueTypes, RingInv, ChannelTypes, Seq32
<1>2. /\ UNCHANGED <<seq, to, kind, reading>>
      /\ wire' = [wire EXCEPT ![n] = @ - 1]
      /\ acks' = acks \cup {[addr |-> to[n], seq |-> n]}
      /\ received' = received \cup {n}
  BY DEF ClientReceive
<1>3. /\ up' \in [Addr -> BOOLEAN]
      /\ Push(to[n], n) \/ UNCHANGED <<ring, fifo>>
  <2>1. CASE kind[n] = "disconnect"
    <3>1. up' = [up EXCEPT ![to[n]] = FALSE] /\ UNCHANGED <<ring, fifo>>
      BY <2>1 DEF ClientReceive
    <3> QED
      BY <3>1 DEF RingInv, ChannelTypes
  <2>2. CASE kind[n] # "disconnect"
    <3>1. up' = up /\ Push(to[n], n)
      BY <2>2 DEF ClientReceive
    <3> QED
      BY <3>1 DEF RingInv, ChannelTypes
  <2> QED
    BY <2>1, <2>2
<1>4. wire[n] \in Nat /\ wire' \in [Seq32 -> Nat]
  BY <1>2 DEF RingInv, ChannelTypes
<1>5. ASSUME NEW m \in Seq32, m > seq PROVE wire'[m] = 0
  BY <1>1, <1>2, <1>5 DEF RingInv, ChannelTypes, Inv, QueueTypes, Seq32
<1>6. ChannelTypes'
  BY <1>1, <1>2, <1>3, <1>4, <1>5 DEF RingInv, ChannelTypes
<1>7. RingTypes' /\ \A b \in Addr : (Holds(ring[b], fifo[b]) /\ Copying(b))'
  <2>1. CASE Push(to[n], n)
    BY <2>1, <1>1, <1>2, PushKeepsRing DEF RingInv
  <2>2. CASE UNCHANGED <<ring, fifo>>
    BY <2>2, <1>2 DEF RingInv, RingTypes, Holds, Copying
  <2> QED
    BY <2>1, <2>2, <1>3
<1> QED
  BY <1>6, <1>7 DEF RingInv

\* The network duplicates a packet that is on the wire.
LEMMA DuplicateKeepsRing ==
  ASSUME Inv, RingInv, NEW n \in Seq32, Duplicate(n)
  PROVE  RingInv'
<1>1. /\ UNCHANGED <<seq, to, kind, acks, up, received, ring, reading, fifo>>
      /\ wire[n] > 0 /\ wire' = [wire EXCEPT ![n] = @ + 1]
  BY DEF Duplicate, clientVars
<1>2. ~(n > seq)
  BY <1>1 DEF RingInv, ChannelTypes
<1>3. wire' \in [Seq32 -> Nat]
  BY <1>1 DEF RingInv, ChannelTypes
<1>4. ASSUME NEW m \in Seq32, m > seq PROVE wire'[m] = 0
  BY <1>1, <1>2, <1>4 DEF RingInv, ChannelTypes
<1>5. ChannelTypes'
  BY <1>1, <1>3, <1>4 DEF RingInv, ChannelTypes
<1> QED
  BY <1>1, <1>5 DEF RingInv, RingTypes, Holds, Copying

\* Every step keeps the ring's invariant.
LEMMA RingNext == Inv /\ RingInv /\ [Next]_vars => RingInv'
<1> SUFFICES ASSUME Inv, RingInv, [Next]_vars PROVE RingInv'
  OBVIOUS
<1>1. CASE Server
  BY <1>1, ServerKeepsRing
<1>2. CASE Client
  <2>1. ASSUME NEW n \in Seq32, Duplicate(n) PROVE RingInv'
    BY <2>1, DuplicateKeepsRing
  <2>2. ASSUME NEW n \in Seq32, wire[n] > 0, ClientReceive(n) PROVE RingInv'
    BY <2>2, ReceiveKeepsRing
  <2>3. ASSUME NEW a \in Addr, Connect(a) \/ ClientTimeout(a) PROVE RingInv'
    <3>1. /\ UNCHANGED <<seq, to, kind, wire, acks, received, ring, reading, fifo>>
          /\ up' = [up EXCEPT ![a] = TRUE] \/ up' = [up EXCEPT ![a] = FALSE]
      BY <2>3 DEF Connect, ClientTimeout, queueVars
    <3>2. ChannelTypes'
      BY <3>1 DEF RingInv, ChannelTypes
    <3> QED
      BY <3>1, <3>2 DEF RingInv, RingTypes, Holds, Copying
  <2>4. ASSUME NEW a \in Addr, PollCopy(a) PROVE RingInv'
    BY <2>4, CopyKeepsRing
  <2>5. ASSUME NEW a \in Addr, PollRelease(a) PROVE RingInv'
    <3>1. UNCHANGED <<seq, to, kind, wire, acks, up, received>>
      BY <2>5 DEF PollRelease, queueVars
    <3>2. ChannelTypes'
      BY <3>1 DEF RingInv, ChannelTypes
    <3> QED
      BY <2>5, <3>2, ReleaseKeepsRing DEF RingInv
  <2> QED
    BY <1>2, <2>1, <2>2, <2>3, <2>4, <2>5 DEF Client
<1>3. CASE UNCHANGED vars
  BY <1>3 DEF vars, queueVars, clientVars, RingInv, ChannelTypes, RingTypes, Holds, Copying
<1> QED
  BY <1>1, <1>2, <1>3 DEF Next

\* The distance from the tail to a head that is m slots further.
LEMMA Distance ==
  ASSUME NEW t \in Slots, NEW h \in Slots, NEW m \in Slots,
         h = IF t + m < RingSize THEN t + m ELSE t + m - RingSize
  PROVE  (h - t + RingSize) % RingSize = m
<1>1. CASE t + m < RingSize
  <2>1. h - t + RingSize = m + RingSize
    BY <1>1, RingSizeAssumption DEF Slots
  <2>2. m + RingSize \in 0 .. 2 * RingSize - 1 /\ m + RingSize - RingSize = m
    BY RingSizeAssumption DEF Slots
  <2>3. (m + RingSize) % RingSize = m
    BY <2>2, Wrap, RingSizeAssumption DEF Slots
  <2> QED
    BY <2>1, <2>3
<1>2. CASE ~(t + m < RingSize)
  <2>1. h - t + RingSize = m
    BY <1>2, RingSizeAssumption DEF Slots
  <2>2. m % RingSize = m
    BY RingSizeAssumption DEF Slots
  <2> QED
    BY <2>1, <2>2
<1> QED
  BY <1>1, <1>2

\* The slot of the i-th packet.
LEMMA Offset ==
  ASSUME NEW t \in Slots, NEW i \in 1 .. RingSize
  PROVE  (t + i - 1) % RingSize = SlotAt(t, i - 1)
<1>1. t + i - 1 \in 0 .. 2 * RingSize - 1 /\ t + i - 1 = t + (i - 1)
  BY RingSizeAssumption DEF Slots
<1> QED
  BY <1>1, Wrap, RingSizeAssumption DEF SlotAt, Slots

\* A ring that holds its queue is the queue RingIsFifo reads off the slots.
LEMMA HoldsIsFifo ==
  ASSUME NEW r \in Rings, NEW q \in Seq(Seq32), Holds(r, q)
  PROVE  LET used == (r.head - r.tail + RingSize) % RingSize
         IN /\ used = Len(q)
            /\ q = [i \in 1 .. used |-> r.slot[(r.tail + i - 1) % RingSize]]
<1> DEFINE used == (r.head - r.tail + RingSize) % RingSize
<1>1. /\ RingSize \in Nat /\ r.head \in Nat /\ r.tail \in Nat /\ Len(q) \in Nat
      /\ r.head < RingSize /\ r.tail < RingSize
  BY RingSizeAssumption DEF Rings, Slots
<1>2. /\ Len(q) < RingSize
      /\ r.head = IF r.tail + Len(q) < RingSize THEN r.tail + Len(q)
                  ELSE r.tail + Len(q) - RingSize
  BY DEF Holds, SlotAt
<1>3. used = Len(q)
  <2>1. r.tail \in Slots /\ r.head \in Slots /\ Len(q) \in Slots
    BY <1>1, <1>2 DEF Slots
  <2> QED
    BY <2>1, <1>2, Distance
<1>4. ASSUME NEW i \in 1 .. Len(q) PROVE q[i] = r.slot[(r.tail + i - 1) % RingSize]
  <2>0. r.tail \in Slots /\ i \in 1 .. RingSize
    BY <1>1, <1>2 DEF Slots
  <2>1. (r.tail + i - 1) % RingSize = SlotAt(r.tail, i - 1)
    BY <2>0, Offset
  <2> QED
    BY <2>1 DEF Holds
<1>5. q = [i \in 1 .. Len(q) |-> q[i]]
  OBVIOUS
<1> QED
  BY <1>3, <1>4, <1>5

\* The ring between the network thread and Lua is a queue that loses and reorders
\* nothing it accepted, and the slot PollEvent copies is not overwritten: for any
\* ring size and whatever the two threads interleave.
THEOREM Ring == Spec => []RingSound
<1>1. Inv /\ RingInv => RingSound
  <2> SUFFICES ASSUME Inv, RingInv PROVE RingSound
    OBVIOUS
  <2>1. TypeOK
    BY DEF Inv, RingInv, QueueTypes, ChannelTypes, RingTypes, Rings, Slots, TypeOK
  <2>2. ASSUME NEW a \in Addr
        PROVE  LET used == (ring[a].head - ring[a].tail + RingSize) % RingSize
               IN /\ fifo[a] = [i \in 1 .. used |-> ring[a].slot[(ring[a].tail + i - 1) % RingSize]]
                  /\ reading[a] # 0 => used > 0 /\ reading[a] = Head(fifo[a])
    <3>1. ring[a] \in Rings /\ fifo[a] \in Seq(Seq32) /\ Holds(ring[a], fifo[a]) /\ Copying(a)
      BY DEF RingInv, RingTypes
    <3>2. reading[a] # 0 => Len(fifo[a]) > 0 /\ reading[a] = Head(fifo[a])
      BY <3>1 DEF Copying
    <3> QED
      BY <3>1, <3>2, HoldsIsFifo
  <2> QED
    BY <2>1, <2>2 DEF RingSound, RingIsFifo
<1>2. Spec => [](Inv /\ RingInv)
  BY InvInit, InvNext, RingInit, RingNext, PTL DEF Spec
<1> QED
  BY <1>1, <1>2, PTL


(***************************************************************************)
(* Visibility.  Two players on one level are each other's concern: the     *)
(* invariant says, while one of them is announceable and neither departs,  *)
(* by whose handler the other still gets to see him.                       *)
(***************************************************************************)
Loops == {"announcing", "leaving", "meeting"}
Handling == {"idle", "announce", "leave", "peers", "send", "aoi", "forget", "reset", "remove",
             "health", "healths"} \cup Loops

\* A loop over the others, and what follows it: after the leaves of an old level or of a
\* departure the handler goes on, the others end it.  Players are told of the level that
\* the session is on.
LoopOf(w, level) ==
  /\ w.pc \in Loops /\ w.todo \subseteq Session
  /\ w.pc = "leaving" => w.next \in {"reset", "remove"}
  /\ w.pc # "leaving" => w.next = "idle" /\ w.level = level

RestOf(what, w, level) ==
  \/ LoopOf(w, level) /\ w.pc = what
  \/ what = "leaving" /\ w.pc \in {"reset", "remove"}
  \/ what # "leaving" /\ w.pc = "idle"

HandlerOf(w, level) ==
  /\ w.pc \in Handling
  /\ w.pc = "leave" => w.next \in {"reset", "remove"}
  /\ w.pc \in {"announce", "peers"} => w.next = "idle" /\ w.level = level
  /\ w.pc \in Loops => LoopOf(w, level)
  /\ w.pc = "send" => w.to \in Session /\ w.kind \in Loops /\ RestOf(w.kind, w.rest, level)
  /\ w.pc = "healths" => w.todo \subseteq Session

Sessions ==
  [at: {"away", "online", "gone"}, level: Level, dist: Dist, gvid: BOOLEAN, visual: BOOLEAN,
   told: Level \cup {NoLevel}, lapsed: BOOLEAN]

\* What was announced is announceable, unless the game vertex is lapsed; who has not joined
\* is on the first level.
PlayerOf(r) ==
  /\ r.told # NoLevel => (r.gvid \/ r.lapsed) /\ r.visual
  /\ r.at = "away" => r.level = Spawn /\ ~r.gvid

\* What a client shows, or has forgotten that it was shown.
Known(b) == shown[b] \cup forgot[b]
Screens ==
  /\ shown \in [Session -> SUBSET (Session \cup {ThePuppet})]
  /\ forgot \in [Session -> SUBSET Session]

Players ==
  /\ session \in [Session -> Sessions]
  /\ work = [s \in Session |-> work[s]]
  /\ \A s \in Session : PlayerOf(session[s]) /\ HandlerOf(work[s], session[s].level)
  /\ Screens

\* The handler is about to tell o; is about to be told of o; takes its session away from
\* the level or from the server.
Tells(w, o) ==
  \/ w.pc = "announce"
  \/ w.pc = "announcing" /\ o \in w.todo
  \/ /\ w.pc = "send" /\ w.kind = "announcing"
     /\ w.to = o \/ (w.rest.pc = "announcing" /\ o \in w.rest.todo)
Meets(w, o) ==
  \/ w.pc = "peers"
  \/ w.pc = "meeting" /\ o \in w.todo
  \/ /\ w.pc = "send" /\ w.kind = "meeting"
     /\ w.to = o \/ (w.rest.pc = "meeting" /\ o \in w.rest.todo)
Departs(w, level) ==
  \/ w.pc = "aoi" /\ (w.left \/ w.old # level)
  \/ w.pc = "forget" /\ w.old # level
  \/ w.pc \in {"leave", "leaving", "reset", "remove"}
  \/ w.pc = "send" /\ w.kind = "leaving"

\* How a player comes to see another one who is announceable on his level.
Seen(a, b) ==
  ( /\ a \in Online /\ b \in Online
    /\ session[a].level = session[b].level
    /\ Announceable(a) /\ ~session[a].lapsed
    /\ ~Departs(work[a], session[a].level) /\ ~Departs(work[b], session[b].level) )
  => a \in Known(b) \/ Tells(work[a], b) \/ Meets(work[b], a)

Peers == \A a, b \in Session : a # b => Seen(a, b)

\* The pass of the tick.  A puppet that is gone is out of range of all: only the sessions
\* of the views that are left track it, and the one that is being sent the leave.
PassOf(t) == t.pc \in {"pass", "notifyLeave", "clear", "mark", "notifyEnter"}
Tracking ==
  /\ squad \in {"alive", "dead", "gone"} /\ entity \in BOOLEAN
  /\ squad # "gone" => entity
  /\ visible \subseteq Session /\ entries \subseteq Session
  /\ tick.pc \in {"idle", "step"} \/ PassOf(tick)
  /\ tick.pc # "idle" => DOMAIN tick.views \subseteq Session
  /\ PassOf(tick) /\ tick.pc # "pass" => tick.s \in Session
  /\ PassOf(tick) => (tick.present <=> squad # "gone")
  /\ PassOf(tick) /\ squad = "gone" =>
       /\ tick.pc \in {"pass", "notifyLeave", "clear"}
       /\ \A s \in visible :
            s \in DOMAIN tick.views \/ (tick.pc \in {"notifyLeave", "clear"} /\ tick.s = s)

ViewInv == Players /\ Peers /\ Tracking

USE SessionAssumption, LevelAssumption, NamesAssumption
-----------------------------------------------------------------------------
\* Nobody has joined, and the game loop rests.
LEMMA ViewInit == InitVisibility => ViewInv
<1> SUFFICES ASSUME InitVisibility PROVE ViewInv
  OBVIOUS
<1>1. /\ Newcomer \in Sessions /\ PlayerOf(Newcomer) /\ Newcomer.at = "away"
      /\ Newcomer.level = Spawn
  BY DEF Newcomer, Sessions, PlayerOf, Dist
<1>2. \A s \in Session : session[s] = Newcomer /\ work[s] = Idle
  BY DEF InitVisibility
<1>3. \A level : HandlerOf(Idle, level)
  BY DEF Idle, HandlerOf, Handling, Loops
<1>4. Players
  BY <1>1, <1>2, <1>3 DEF InitVisibility, Players, Screens
<1>5. Peers
  BY <1>1, <1>2 DEF Peers, Seen, Online
<1>6. Tracking
  BY DEF InitVisibility, Tracking, PassOf, Idle
<1> QED
  BY <1>4, <1>5, <1>6 DEF ViewInv

-----------------------------------------------------------------------------
\* A step of one handler, with what it makes of its session.
Handles(s, w, r) ==
  /\ work' = [work EXCEPT ![s] = w]
  /\ session' = [session EXCEPT ![s] = r]

\* The others are where they were.
LEMMA OthersStay ==
  ASSUME Players, NEW s \in Session, NEW w, NEW r, Handles(s, w, r)
  PROVE  /\ DOMAIN work' = Session /\ work'[s] = w /\ session'[s] = r
         /\ \A o \in Session \ {s} : work'[o] = work[o] /\ session'[o] = session[o]
         /\ \A o \in Session : o # s => (o \in Online' <=> o \in Online)
         /\ s \in Online' <=> r.at = "online"
  BY DEF Players, Handles, Online

\* A step that leaves the screens alone.
LEMMA SameScreens ==
  ASSUME Players, UNCHANGED <<shown, forgot>>
  PROVE  Screens' /\ \A b : Known(b)' = Known(b)
  BY DEF Players, Screens, Known

\* The types after such a step.
LEMMA PlayersStep ==
  ASSUME Players, NEW s \in Session, NEW w, NEW r, Handles(s, w, r),
         r \in Sessions, PlayerOf(r), HandlerOf(w, r.level),
         Screens'
  PROVE  Players'
<1>1. session' \in [Session -> Sessions]
  BY DEF Players, Handles
<1>2. \A o \in Session : PlayerOf(session'[o]) /\ HandlerOf(work'[o], session'[o].level)
  BY OthersStay DEF Players
<1>3. work' = [o \in Session |-> work'[o]]
  BY DEF Players, Handles
<1> QED
  BY <1>1, <1>2, <1>3 DEF Players

\* Two other players see each other as before if nothing is taken from their screens.
LEMMA OtherPairs ==
  ASSUME Players, Peers, NEW s \in Session, NEW w, NEW r, Handles(s, w, r),
         \A a, b \in Session \ {s} :
           b \in Online /\ a \in Known(b) /\ a # b => a \in Known(b)',
         \A o \in Session \ {s} : Seen(s, o)' /\ Seen(o, s)'
  PROVE  Peers'
<1> SUFFICES ASSUME NEW a \in Session, NEW b \in Session, a # b
             PROVE  Seen(a, b)'
  BY DEF Peers
<1>1. CASE a = s \/ b = s
  BY <1>1
<1>2. CASE a # s /\ b # s
  <2>1. /\ work'[a] = work[a] /\ session'[a] = session[a] /\ (a \in Online' <=> a \in Online)
        /\ work'[b] = work[b] /\ session'[b] = session[b] /\ (b \in Online' <=> b \in Online)
    BY <1>2, OthersStay
  <2>2. Seen(a, b) /\ (b \in Online /\ a \in Known(b) => a \in Known(b)')
    BY <1>2 DEF Peers
  <2> QED
    BY <2>1, <2>2 DEF Seen, Announceable
<1> QED
  BY <1>1, <1>2

\* A step of a handler that leaves the sessions as they are.
LEMMA HandlerPairs ==
  ASSUME Players, Peers, NEW s \in Session, NEW w, Goto(s, w), UNCHANGED session,
         \A a, b \in Session :
           b \in Online /\ a \in Known(b) /\ a # b =>
             a \in Known(b)' \/ (a = s /\ Departs(w, session[s].level)),
         s \in Online /\ Departs(work[s], session[s].level) => Departs(w, session[s].level),
         \A o \in Session \ {s} :
           ( /\ o \in Online /\ session[o].level = session[s].level
             /\ Announceable(s) /\ Tells(work[s], o) )
           => Tells(w, o) \/ s \in Known(o)' \/ Departs(w, session[s].level),
         \A o \in Session \ {s} :
           ( /\ s \in Online /\ o \in Online /\ session[o].level = session[s].level
             /\ Announceable(o) /\ Meets(work[s], o) )
           => Meets(w, o) \/ o \in Known(s)' \/ Departs(w, session[s].level)
  PROVE  Peers'
<1>1. Handles(s, w, session[s])
  BY DEF Handles, Goto, Players
<1>2. /\ work'[s] = w /\ Online' = Online
      /\ \A o \in Session \ {s} : work'[o] = work[o]
  BY <1>1, OthersStay DEF Online
<1>3. ASSUME NEW o \in Session \ {s} PROVE Seen(s, o)'
  <2>1. Seen(s, o) /\ work'[o] = work[o] /\ s # o
    BY <1>2 DEF Peers
  <2> QED
    BY <1>2, <2>1 DEF Seen, Announceable
<1>4. ASSUME NEW o \in Session \ {s} PROVE Seen(o, s)'
  <2>1. Seen(o, s) /\ work'[o] = work[o] /\ s # o
    BY <1>2 DEF Peers
  <2> QED
    BY <1>2, <2>1 DEF Seen, Announceable
<1>5. \A a, b \in Session \ {s} : b \in Online /\ a \in Known(b) /\ a # b => a \in Known(b)'
  OBVIOUS
<1> QED
  BY <1>1, <1>3, <1>4, <1>5, OtherPairs

\* What a client shows after a packet.
LEMMA Showing ==
  ASSUME Players, NEW s \in Session, NEW e \in Session \cup {ThePuppet}, Show(s, e)
  PROVE  /\ Screens'
         /\ \A a, b \in Session : b \in Online /\ a \in Known(b) => a \in Known(b)'
         /\ s \in Online => e \in Known(s)'
  BY DEF Show, Players, Screens, Known

LEMMA Hiding ==
  ASSUME Players, NEW s \in Session, NEW e \in Session \cup {ThePuppet}, Hide(s, e)
  PROVE  /\ Screens'
         /\ \A a, b \in Session : a \in Known(b) /\ ~(b = s /\ a = e) => a \in Known(b)'
  BY DEF Hide, Players, Screens, Known

\* The puppet is no player.
LEMMA PuppetPackets ==
  ASSUME Players, NEW s \in Session, Show(s, ThePuppet) \/ Hide(s, ThePuppet)
  PROVE  /\ Screens'
         /\ \A a, b \in Session : b \in Online /\ a \in Known(b) => a \in Known(b)'
  BY Showing, Hiding

\* A loop of a player on level l.
LoopFor(w, pc, todo, level, next, l) ==
  /\ w = Loop(pc, todo, level, next)
  /\ pc \in Loops /\ todo \subseteq Session
  /\ pc = "leaving" => next \in {"reset", "remove"}
  /\ pc # "leaving" => next = "idle" /\ level = l

\* A loop that begins, goes on or ends is what the handler's step allows.
LEMMA LoopCases ==
  ASSUME NEW w, NEW pc, NEW todo, NEW level, NEW next, NEW l,
         LoopFor(w, pc, todo, level, next, l)
  PROVE  /\ RestOf(pc, w, l) /\ HandlerOf(w, l)
         /\ pc = "leaving" => Departs(w, l)
         /\ pc = "announcing" => \A o \in todo : Tells(w, o)
         /\ pc = "meeting" => \A o \in todo : Meets(w, o)
         /\ todo # {} => w.pc = pc /\ w.todo = todo
         /\ todo = {} => w.pc = next
<1>1. CASE todo = {}
  BY <1>1 DEF LoopFor, Loop, RestOf, HandlerOf, Handling, Loops, LoopOf, Departs, Tells, Meets
<1>2. CASE todo # {}
  BY <1>2 DEF LoopFor, Loop, RestOf, HandlerOf, Handling, Loops, LoopOf, Departs, Tells, Meets
<1> QED
  BY <1>1, <1>2

\* GetAll: whoever is there is told, or met.
LEMMA StartLoopKeeps ==
  ASSUME Players, Peers, NEW s \in Session, StartLoop(s)
  PROVE  Players' /\ Peers'
<1>1. PICK pc, w : /\ pc \in Loops /\ w = Loop(pc, Others(s), work[s].level, work[s].next)
                   /\ Goto(s, w)
                   /\ work[s].pc = "announce" => pc = "announcing"
                   /\ work[s].pc = "leave" => pc = "leaving"
                   /\ work[s].pc = "peers" => pc = "meeting"
                   /\ work[s].pc \in {"announce", "leave", "peers"}
  BY DEF StartLoop, At, Loops
<1>2. /\ pc = "leaving" => work[s].next \in {"reset", "remove"}
      /\ pc # "leaving" => work[s].next = "idle" /\ work[s].level = session[s].level
  BY <1>1 DEF Players, HandlerOf
<1>3. Others(s) \in SUBSET Session /\ \A o \in Online : o # s => o \in Others(s)
  BY DEF Others, Online
<1>4. /\ HandlerOf(w, session[s].level)
      /\ pc = "leaving" => Departs(w, session[s].level)
      /\ pc = "announcing" => \A o \in Others(s) : Tells(w, o)
      /\ pc = "meeting" => \A o \in Others(s) : Meets(w, o)
  <2>1. LoopFor(w, pc, Others(s), work[s].level, work[s].next, session[s].level)
    BY <1>1, <1>2, <1>3 DEF LoopFor
  <2> QED
    BY <2>1, LoopCases
<1>5. UNCHANGED <<session, shown, forgot>>
  BY DEF StartLoop, screen
<1>6. Handles(s, w, session[s])
  BY <1>1, <1>5 DEF Handles, Goto, Players
<1>7. Players'
  BY <1>4, <1>5, <1>6, PlayersStep, SameScreens DEF Players
<1>8. s \in Online /\ Departs(work[s], session[s].level) => Departs(w, session[s].level)
  BY <1>1, <1>4 DEF Departs
<1>9. \A o \in Session \ {s} : o \in Online /\ Tells(work[s], o) => Tells(w, o)
  BY <1>1, <1>3, <1>4 DEF Tells
<1>10. \A o \in Session \ {s} : Meets(work[s], o) /\ o \in Online => Meets(w, o)
  BY <1>1, <1>3, <1>4 DEF Meets
<1>11. Peers'
  BY <1>1, <1>5, <1>8, <1>9, <1>10, HandlerPairs, SameScreens
<1> QED
  BY <1>7, <1>11

\* The level of one session is read: it will be told, or it is elsewhere; a newcomer meets
\* who is announceable.
LEMMA CheckPeerKeeps ==
  ASSUME Players, Peers, NEW s \in Session, CheckPeer(s)
  PROVE  Players' /\ Peers'
<1>1. PICK p, rest, w :
        /\ p \in work[s].todo
        /\ rest = Loop(work[s].pc, work[s].todo \ {p}, work[s].level, work[s].next)
        /\ \/ w = [pc |-> "send", kind |-> work[s].pc, to |-> p, rest |-> rest]
           \/ /\ w = rest
              /\ ~ ( /\ session[p].level = work[s].level
                     /\ work[s].pc = "meeting" => Announceable(p) )
        /\ Goto(s, w)
  BY DEF CheckPeer, At
<1>2. LoopOf(work[s], session[s].level) /\ work[s].pc \in Loops
  BY DEF CheckPeer, Players, HandlerOf, Loops
<1>3. PICK pc, todo, level, next, l :
        /\ pc = work[s].pc /\ todo = work[s].todo /\ level = work[s].level
        /\ next = work[s].next /\ l = session[s].level
  OBVIOUS
<1>4. LoopFor(rest, pc, todo \ {p}, level, next, l)
  BY <1>1, <1>2, <1>3 DEF LoopOf, LoopFor
<1>5. /\ RestOf(pc, rest, l) /\ HandlerOf(rest, l)
      /\ pc = "leaving" => Departs(rest, l)
      /\ pc = "announcing" => \A o \in todo \ {p} : Tells(rest, o)
      /\ pc = "meeting" => \A o \in todo \ {p} : Meets(rest, o)
      /\ todo \ {p} # {} => rest.pc = pc /\ rest.todo = todo \ {p}
  BY <1>4, LoopCases
<1>6. HandlerOf(w, l)
  <2>1. CASE w = [pc |-> "send", kind |-> pc, to |-> p, rest |-> rest]
    <3>1. p \in Session /\ pc \in Loops
      BY <1>1, <1>2, <1>3 DEF LoopOf
    <3> QED
      BY <2>1, <3>1, <1>5 DEF HandlerOf, Handling, Loops
  <2> QED
    BY <2>1, <1>1, <1>3, <1>5
<1>7. pc = "leaving" => Departs(w, l)
  BY <1>1, <1>3, <1>5 DEF Departs
<1>8. ASSUME pc = "announcing", NEW o \in todo, session[o].level = level
      PROVE  Tells(w, o)
  <2>1. CASE o = p
    BY <2>1, <1>1, <1>3, <1>8 DEF Tells
  <2>2. CASE o # p /\ w = rest
    BY <2>2, <1>5, <1>8
  <2>3. CASE o # p /\ w = [pc |-> "send", kind |-> pc, to |-> p, rest |-> rest]
    BY <2>3, <1>5, <1>8 DEF Tells
  <2> QED
    BY <2>1, <2>2, <2>3, <1>1, <1>3
<1>9. ASSUME pc = "meeting", NEW o \in todo, session[o].level = level, Announceable(o)
      PROVE  Meets(w, o)
  <2>1. CASE o = p
    BY <2>1, <1>1, <1>3, <1>9 DEF Meets
  <2>2. CASE o # p /\ w = rest
    BY <2>2, <1>5, <1>9
  <2>3. CASE o # p /\ w = [pc |-> "send", kind |-> pc, to |-> p, rest |-> rest]
    BY <2>3, <1>5, <1>9 DEF Meets
  <2> QED
    BY <2>1, <2>2, <2>3, <1>1, <1>3
<1>10. UNCHANGED <<session, shown, forgot>>
  BY DEF CheckPeer, screen
<1>11. Players'
  <2>1. Handles(s, w, session[s])
    BY <1>1, <1>10 DEF Handles, Goto, Players
  <2> QED
    BY <1>3, <1>6, <1>10, <2>1, PlayersStep, SameScreens DEF Players
<1>12. Departs(work[s], session[s].level) => Departs(w, session[s].level)
  BY <1>2, <1>3, <1>7 DEF Departs, Loops
<1>13. \A o \in Session \ {s} :
         session[o].level = session[s].level /\ Tells(work[s], o) => Tells(w, o)
  BY <1>2, <1>3, <1>8 DEF Tells, Loops, LoopOf
<1>14. \A o \in Session \ {s} :
         session[o].level = session[s].level /\ Announceable(o) /\ Meets(work[s], o) => Meets(w, o)
  BY <1>2, <1>3, <1>9 DEF Meets, Loops, LoopOf
<1>15. Peers'
  BY <1>1, <1>10, <1>12, <1>13, <1>14, HandlerPairs, SameScreens
<1> QED
  BY <1>11, <1>15

\* A packet: its receiver sees the player, or no longer sees one who departs.
LEMMA SendPeerKeeps ==
  ASSUME Players, Peers, NEW s \in Session, SendPeer(s)
  PROVE  Players' /\ Peers'
<1>1. PICK w, v, l : w = work[s] /\ v = w.rest /\ l = session[s].level
  OBVIOUS
<1>2. /\ w.pc = "send" /\ w.to \in Session /\ w.kind \in Loops /\ RestOf(w.kind, v, l)
      /\ Goto(s, v) /\ UNCHANGED session
      /\ w.kind = "announcing" => Show(w.to, s)
      /\ w.kind = "leaving" => Hide(w.to, s)
      /\ w.kind = "meeting" => Show(s, w.to)
  BY <1>1 DEF SendPeer, At, Players, HandlerOf
<1>3. HandlerOf(v, l)
  BY <1>2 DEF RestOf, HandlerOf, LoopOf, Loops, Handling
<1>4. /\ Screens'
      /\ \A a, b \in Session :
           b \in Online /\ a \in Known(b) => a \in Known(b)' \/ (a = s /\ w.kind = "leaving")
      /\ w.kind = "announcing" /\ w.to \in Online => s \in Known(w.to)'
      /\ w.kind = "meeting" /\ s \in Online => w.to \in Known(s)'
  BY <1>2, Showing, Hiding DEF Loops
<1>5. Players'
  <2>1. Handles(s, v, session[s])
    BY <1>2 DEF Handles, Goto, Players
  <2> QED
    BY <1>1, <1>2, <1>3, <1>4, <2>1, PlayersStep DEF Players
<1>6. w.kind = "leaving" => Departs(v, l)
  BY <1>2 DEF RestOf, Departs
<1>7. Departs(w, l) => Departs(v, l)
  BY <1>2, <1>6 DEF Departs
<1>8. \A o \in Session \ {s} : o \in Online /\ Tells(w, o) => Tells(v, o) \/ s \in Known(o)'
  BY <1>1, <1>2, <1>4 DEF Tells
<1>9. \A o \in Session \ {s} :
        s \in Online /\ Meets(w, o) => Meets(v, o) \/ o \in Known(s)'
  BY <1>1, <1>2, <1>4 DEF Meets
<1>10. Peers'
  BY <1>1, <1>2, <1>4, <1>6, <1>7, <1>8, <1>9, HandlerPairs
<1> QED
  BY <1>5, <1>10

\* The other steps of a handler with its peers done or not begun, and what they show.
LEMMA QuietStep ==
  ASSUME Players, Peers, NEW s \in Session, NEW w, Goto(s, w), UNCHANGED session,
         HandlerOf(w, session[s].level),
         Screens',
         \A a, b \in Session : b \in Online /\ a \in Known(b) => a \in Known(b)',
         work[s].pc \notin {"announce", "peers", "send"} \cup Loops,
         s \in Online /\ Departs(work[s], session[s].level) => Departs(w, session[s].level)
  PROVE  Players' /\ Peers'
<1>1. Players'
  <2>1. Handles(s, w, session[s])
    BY DEF Handles, Goto, Players
  <2> QED
    BY <2>1, PlayersStep DEF Players
<1>2. \A o : ~Tells(work[s], o) /\ ~Meets(work[s], o)
  BY DEF Tells, Meets, Loops
<1>3. Peers'
  BY <1>2, HandlerPairs
<1> QED
  BY <1>1, <1>3

\* AoIManager.RemoveSession.
LEMMA RemoveFromAoIKeeps ==
  ASSUME Players, Peers, NEW s \in Session, RemoveFromAoI(s)
  PROVE  Players' /\ Peers'
<1>1. PICK w : /\ w = IF work[s].left
                      THEN [pc |-> "leave", level |-> work[s].old, next |-> "remove"]
                      ELSE [pc |-> "forget", old |-> work[s].old]
               /\ Goto(s, w)
  BY DEF RemoveFromAoI
<1>2. work[s].pc = "aoi" /\ UNCHANGED <<session, shown, forgot>>
  BY DEF RemoveFromAoI, screen, At
<1>3. HandlerOf(w, session[s].level)
  BY <1>1 DEF HandlerOf, Handling, Loops
<1>4. Departs(work[s], session[s].level) => Departs(w, session[s].level)
  BY <1>1, <1>2 DEF Departs
<1>5. work[s].pc \notin {"announce", "peers", "send"} \cup Loops
  BY <1>2 DEF Loops
<1> QED
  BY <1>1, <1>2, <1>3, <1>4, <1>5, QuietStep, SameScreens DEF Players

\* aiReplication.forgetSession; a player who is online has told the truth about his level.
LEMMA ForgetSessionKeeps ==
  ASSUME Players, Peers, NEW s \in Session, ForgetSession(s)
  PROVE  Players' /\ Peers'
<1>1. PICK w : /\ w = IF session[s].at = "gone" \/ work[s].old = session[s].level THEN Idle
                      ELSE [pc |-> "leave", level |-> work[s].old, next |-> "reset"]
               /\ Goto(s, w)
  BY DEF ForgetSession
<1>2. work[s].pc = "forget" /\ UNCHANGED <<session, shown, forgot>>
  BY DEF ForgetSession, screen, At
<1>3. HandlerOf(w, session[s].level)
  BY <1>1 DEF HandlerOf, Handling, Loops, Idle
<1>4. s \in Online /\ Departs(work[s], session[s].level) => Departs(w, session[s].level)
  BY <1>1, <1>2 DEF Departs, Online
<1>5. work[s].pc \notin {"announce", "peers", "send"} \cup Loops
  BY <1>2 DEF Loops
<1> QED
  BY <1>1, <1>2, <1>3, <1>4, <1>5, QuietStep, SameScreens DEF Players

\* OpDisconnect.
LEMMA DepartKeeps ==
  ASSUME Players, Peers, NEW s \in Session, Depart(s)
  PROVE  Players' /\ Peers'
<1>1. PICK w : w = [pc |-> "aoi", old |-> session[s].level, left |-> TRUE] /\ Goto(s, w)
  BY DEF Depart
<1>2. work[s].pc = "idle" /\ UNCHANGED <<session, shown, forgot>>
  BY DEF Depart, screen, At
<1>3. HandlerOf(w, session[s].level)
  BY <1>1 DEF HandlerOf, Handling, Loops
<1>4. ~Departs(work[s], session[s].level)
  BY <1>2 DEF Departs
<1>5. work[s].pc \notin {"announce", "peers", "send"} \cup Loops
  BY <1>2 DEF Loops
<1> QED
  BY <1>1, <1>2, <1>3, <1>4, <1>5, QuietStep, SameScreens DEF Players

\* The hit of a puppet and the broadcast of its health.
LEMMA HitPuppetKeeps ==
  ASSUME Players, Peers, NEW s \in Session, HitPuppet(s)
  PROVE  Players' /\ Peers'
<1>1. PICK w : w \in {work[s], [pc |-> "health"]} /\ Goto(s, w)
  <2>1. work' = [work EXCEPT ![s] = work[s]] \/ Goto(s, [pc |-> "health"])
    BY DEF HitPuppet, Players
  <2> QED
    BY <2>1 DEF Goto
<1>2. work[s].pc = "idle" /\ UNCHANGED <<session, shown, forgot>>
  BY DEF HitPuppet, screen, At
<1>3. HandlerOf(w, session[s].level)
  BY <1>1 DEF HandlerOf, Handling, Loops, Players
<1>4. ~Departs(work[s], session[s].level)
  BY <1>2 DEF Departs
<1>5. work[s].pc \notin {"announce", "peers", "send"} \cup Loops
  BY <1>2 DEF Loops
<1> QED
  BY <1>1, <1>2, <1>3, <1>4, <1>5, QuietStep, SameScreens DEF Players

\* A round of healths.
LEMMA HealthLoop ==
  ASSUME NEW w, NEW todo \in SUBSET Session, NEW level, w = Loop("healths", todo, NoLevel, "idle")
  PROVE  HandlerOf(w, level)
  BY DEF Loop, HandlerOf, Handling, Loops

LEMMA ReadTrackersKeeps ==
  ASSUME Players, Peers, Tracking, NEW s \in Session, ReadTrackers(s)
  PROVE  Players' /\ Peers'
<1>1. PICK w : /\ w = IF squad = "gone" \/ ~entity THEN Idle
                      ELSE Loop("healths", visible, NoLevel, "idle")
               /\ Goto(s, w)
  BY DEF ReadTrackers
<1>2. work[s].pc = "health" /\ UNCHANGED <<session, shown, forgot>>
  BY DEF ReadTrackers, screen, At
<1>3. HandlerOf(w, session[s].level)
  <2>1. HandlerOf(Idle, session[s].level)
    BY DEF HandlerOf, Handling, Loops, Idle
  <2>2. visible \in SUBSET Session
    BY DEF Tracking
  <2> QED
    BY <1>1, <2>1, <2>2, HealthLoop
<1>4. ~Departs(work[s], session[s].level)
  BY <1>2 DEF Departs
<1>5. work[s].pc \notin {"announce", "peers", "send"} \cup Loops
  BY <1>2 DEF Loops
<1> QED
  BY <1>1, <1>2, <1>3, <1>4, <1>5, QuietStep, SameScreens DEF Players

LEMMA SendHealthKeeps ==
  ASSUME Players, Peers, NEW s \in Session, SendHealth(s)
  PROVE  Players' /\ Peers'
<1>1. PICK o, w :
              /\ o \in work[s].todo
              /\ w = Loop("healths", work[s].todo \ {o}, NoLevel, "idle")
              /\ Goto(s, w) /\ Show(o, ThePuppet)
  BY DEF SendHealth
<1>2. work[s].pc = "healths" /\ work[s].todo \subseteq Session /\ UNCHANGED session
  BY DEF SendHealth, At, Players, HandlerOf
<1>3. HandlerOf(w, session[s].level)
  <2>1. work[s].todo \ {o} \in SUBSET Session
    BY <1>2
  <2> QED
    BY <1>1, <2>1, HealthLoop
<1>4. ~Departs(work[s], session[s].level)
  BY <1>2 DEF Departs
<1>5. work[s].pc \notin {"announce", "peers", "send"} \cup Loops
  BY <1>2 DEF Loops
<1>6. /\ Screens'
      /\ \A a, b \in Session : b \in Online /\ a \in Known(b) => a \in Known(b)'
  BY <1>1, <1>2, PuppetPackets
<1> QED
  BY <1>1, <1>2, <1>3, <1>4, <1>5, <1>6, QuietStep

-----------------------------------------------------------------------------
\* The newcomer has not told his game vertex; he is about to meet the others.
LEMMA JoinKeeps ==
  ASSUME Players, Peers, NEW s \in Session, Join(s)
  PROVE  Players' /\ Peers'
<1>1. PICK w, r : /\ w = [pc |-> "peers", level |-> Spawn, next |-> "idle"]
                  /\ r = [session[s] EXCEPT !.at = "online"]
                  /\ Handles(s, w, r)
  BY DEF Join, Goto, Handles
<1>2. Handles(s, w, r) /\ Screens'
  BY <1>1, SameScreens DEF Join, screen
<1>3. /\ session[s] \in Sessions /\ session[s].level = Spawn /\ ~session[s].gvid
      /\ PlayerOf(session[s])
  BY DEF Join, Players, PlayerOf
<1>4. /\ r \in Sessions /\ r.at = "online" /\ r.level = Spawn /\ ~r.gvid
      /\ r.told = session[s].told /\ r.visual = session[s].visual
  BY <1>1, <1>3 DEF Sessions
<1>5. PlayerOf(r) /\ HandlerOf(w, r.level)
  BY <1>1, <1>3, <1>4 DEF PlayerOf, HandlerOf, Handling, Loops
<1>6. Players'
  BY <1>2, <1>4, <1>5, PlayersStep
<1>7. work'[s] = w /\ session'[s] = r
  BY <1>2, OthersStay
<1>8. \A o : Meets(w, o)
  BY <1>1 DEF Meets
<1>9. \A o \in Session \ {s} : Seen(s, o)' /\ Seen(o, s)'
  BY <1>4, <1>7, <1>8 DEF Seen, Announceable
<1>10. UNCHANGED <<shown, forgot>>
  BY DEF Join, screen
<1>11. Peers'
  BY <1>2, <1>9, <1>10, OtherPairs, SameScreens
<1> QED
  BY <1>6, <1>11

\* An announcement is due, or the player was announced on this level before.
LEMMA AnnounceKeeps ==
  ASSUME Players, Peers, NEW s \in Session, NEW sess \in Sessions,
         s \in Online, At(s, "idle"), MaybeAnnounce(s, sess), UNCHANGED <<shown, forgot>>,
         sess.at = "online", sess.level = session[s].level,
         sess.told # NoLevel => (sess.gvid \/ sess.lapsed) /\ sess.visual,
         sess.told # NoLevel /\ ~sess.lapsed => Announceable(s) /\ ~session[s].lapsed
  PROVE  Players' /\ Peers'
<1>1. PICK due, w, r :
        /\ due = (sess.gvid /\ sess.visual /\ sess.told # sess.level)
        /\ r = IF due THEN [sess EXCEPT !.told = sess.level, !.lapsed = FALSE] ELSE sess
        /\ w = IF due THEN [pc |-> "announce", level |-> sess.level, next |-> "idle"] ELSE Idle
        /\ Handles(s, w, r)
  BY DEF MaybeAnnounce, Goto, Handles
<1>2. /\ r \in Sessions /\ r.at = "online" /\ r.level = session[s].level
      /\ r.gvid = sess.gvid /\ r.visual = sess.visual
      /\ r.told # NoLevel => (r.gvid \/ r.lapsed) /\ r.visual
  BY <1>1 DEF Sessions
<1>3. PlayerOf(r) /\ HandlerOf(w, r.level)
  BY <1>1, <1>2 DEF PlayerOf, HandlerOf, Handling, Loops, Idle
<1>4. Players'
  BY <1>1, <1>2, <1>3, PlayersStep, SameScreens DEF Players
<1>5. /\ work'[s] = w /\ session'[s] = r
      /\ \A o \in Session \ {s} :
           /\ work'[o] = work[o] /\ session'[o] = session[o]
           /\ o \in Online' <=> o \in Online
  BY <1>1, OthersStay
<1>6. \A o, level : ~Departs(work[s], level) /\ ~Tells(work[s], o) /\ ~Meets(work[s], o)
  BY DEF At, Departs, Tells, Meets
<1>7. due => \A o : Tells(w, o)
  BY <1>1 DEF Tells
<1>8. ~due /\ r.gvid /\ r.visual /\ ~r.lapsed => Announceable(s) /\ ~session[s].lapsed
  BY <1>1, <1>2 DEF Sessions
<1>9. ASSUME NEW o \in Session \ {s} PROVE Seen(s, o)'
  <2>1. Seen(s, o)
    BY DEF Peers
  <2> QED
    BY <1>2, <1>5, <1>6, <1>7, <1>8, <2>1, SameScreens DEF Seen, Announceable
<1>10. ASSUME NEW o \in Session \ {s} PROVE Seen(o, s)'
  <2>1. Seen(o, s)
    BY DEF Peers
  <2> QED
    BY <1>2, <1>5, <1>6, <2>1, SameScreens DEF Seen, Announceable
<1>11. Peers'
  BY <1>1, <1>9, <1>10, OtherPairs, SameScreens
<1> QED
  BY <1>4, <1>11

\* OpClientTransform.
LEMMA TransformKeeps ==
  ASSUME Players, Peers, NEW s \in Session, Transform(s)
  PROVE  Players' /\ Peers'
<1>1. PICK dist \in Dist, gvid \in BOOLEAN :
        MaybeAnnounce(s, [session[s] EXCEPT !.dist = dist, !.gvid = gvid,
                                            !.lapsed = @ \/ ~gvid])
  BY DEF Transform
<1>2. s \in Online /\ At(s, "idle") /\ UNCHANGED <<shown, forgot>>
  BY DEF Transform, screen
<1>3. PICK sess : sess = [session[s] EXCEPT !.dist = dist, !.gvid = gvid,
                                            !.lapsed = @ \/ ~gvid]
  OBVIOUS
<1>4. session[s] \in Sessions /\ session[s].at = "online" /\ PlayerOf(session[s])
  BY <1>2 DEF Players, Online
<1>5. /\ sess \in Sessions /\ sess.at = session[s].at /\ sess.level = session[s].level
      /\ sess.told = session[s].told /\ sess.visual = session[s].visual /\ sess.gvid = gvid
      /\ sess.lapsed = (session[s].lapsed \/ ~gvid)
  BY <1>3, <1>4 DEF Sessions
<1>6. /\ sess.told # NoLevel => (sess.gvid \/ sess.lapsed) /\ sess.visual
      /\ sess.told # NoLevel /\ ~sess.lapsed => Announceable(s) /\ ~session[s].lapsed
  BY <1>1, <1>4, <1>5 DEF PlayerOf, Announceable
<1>7. MaybeAnnounce(s, sess)
  BY <1>1, <1>3
<1> QED
  BY <1>2, <1>4, <1>5, <1>6, <1>7, AnnounceKeeps

\* OpPlayerVisual.
LEMMA VisualKeeps ==
  ASSUME Players, Peers, NEW s \in Session, Visual(s)
  PROVE  Players' /\ Peers'
<1>1. PICK sess : /\ sess = [session[s] EXCEPT !.visual = TRUE, !.told = NoLevel]
                  /\ MaybeAnnounce(s, sess)
  BY DEF Visual
<1>2. s \in Online /\ At(s, "idle") /\ UNCHANGED <<shown, forgot>>
  BY DEF Visual, screen
<1>3. session[s] \in Sessions /\ session[s].at = "online"
  BY <1>2 DEF Players, Online
<1>4. /\ sess \in Sessions /\ sess.at = "online" /\ sess.level = session[s].level
      /\ sess.told = NoLevel
  BY <1>1, <1>3 DEF Sessions
<1> QED
  BY <1>1, <1>2, <1>4, AnnounceKeeps

\* What a report of a level does to the screen: a client that loaded the level it was on has
\* forgotten what it showed.
Reported(s, level) ==
  /\ Screens'
  /\ \A o \in Session \ {s} : Known(o)' = Known(o)
  /\ level = session[s].level =>
       \A a \in Session : a \in Known(s) => a \in Known(s)'

LEMMA Reports ==
  ASSUME Players, NEW s \in Session, NEW level,
         IF level # session[s].level
         THEN Blank(s, {})
         ELSE \/ Blank(s, forgot[s] \cup (shown[s] \ {ThePuppet}))
              \/ UNCHANGED <<shown, forgot>>
  PROVE  Reported(s, level)
<1>1. ASSUME NEW lost \in SUBSET Session, Blank(s, lost)
      PROVE  Screens' /\ Known(s)' = lost /\ \A o \in Session \ {s} : Known(o)' = Known(o)
  BY <1>1 DEF Blank, Players, Screens, Known
<1>2. CASE level # session[s].level
  BY <1>1, <1>2 DEF Reported
<1>3. CASE level = session[s].level /\ UNCHANGED <<shown, forgot>>
  BY <1>3 DEF Reported, Players, Screens, Known
<1>4. CASE level = session[s].level /\ Blank(s, forgot[s] \cup (shown[s] \ {ThePuppet}))
  <2>1. forgot[s] \cup (shown[s] \ {ThePuppet}) \in SUBSET Session
    BY DEF Players, Screens
  <2>2. /\ Screens' /\ Known(s)' = forgot[s] \cup (shown[s] \ {ThePuppet})
        /\ \A o \in Session \ {s} : Known(o)' = Known(o)
    BY <1>1, <1>4, <2>1
  <2>3. \A a \in Session : a \in Known(s) => a \in forgot[s] \cup (shown[s] \ {ThePuppet})
    BY DEF Known
  <2> QED
    BY <2>2, <2>3 DEF Reported
<1> QED
  BY <1>2, <1>3, <1>4

\* Whoever changes his level departs from the old one; a report of the same level moves
\* nobody.
LEMMA LevelChangeKeeps ==
  ASSUME Players, Peers, NEW s \in Session, LevelChange(s)
  PROVE  Players' /\ Peers'
<1>1. PICK level, dist, w, r :
        /\ level \in Level /\ dist \in Distances(s, level)
        /\ r = [session[s] EXCEPT !.level = level, !.dist = dist]
        /\ w = [pc |-> "aoi", old |-> session[s].level, left |-> FALSE]
        /\ Reported(s, level)
        /\ work' = [work EXCEPT ![s] = w]
        /\ session' = [session EXCEPT ![s] = r]
  <2>1. PICK level \in Level : \E dist \in Distances(s, level) :
          /\ session' = [session EXCEPT ![s].level = level, ![s].dist = dist]
          /\ Reported(s, level)
          /\ Goto(s, [pc |-> "aoi", old |-> session[s].level, left |-> FALSE])
    BY Reports DEF LevelChange
  <2>2. PICK dist \in Distances(s, level) :
          /\ session' = [session EXCEPT ![s].level = level, ![s].dist = dist]
          /\ Reported(s, level)
          /\ Goto(s, [pc |-> "aoi", old |-> session[s].level, left |-> FALSE])
    BY <2>1
  <2>3. session' = [session EXCEPT ![s] = [session[s] EXCEPT !.level = level, !.dist = dist]]
    BY <2>2 DEF Players
  <2> QED
    BY <2>2, <2>3 DEF Goto
<1>2. s \in Online /\ At(s, "idle")
  BY DEF LevelChange
<1>3. session[s] \in Sessions /\ session[s].at = "online" /\ PlayerOf(session[s])
  BY <1>2 DEF Players, Online
<1>4. dist \in Dist
  BY <1>1 DEF Distances, Dist
<1>5. /\ r \in Sessions /\ r.at = "online" /\ r.level = level /\ r.told = session[s].told
      /\ r.visual = session[s].visual /\ r.gvid = session[s].gvid
      /\ r.lapsed = session[s].lapsed
  BY <1>1, <1>3, <1>4 DEF Sessions
<1>6. PlayerOf(r) /\ HandlerOf(w, r.level)
  BY <1>1, <1>3, <1>5 DEF PlayerOf, HandlerOf, Handling, Loops
<1>7. /\ Handles(s, w, r)
      /\ Screens'
      /\ \A o \in Session \ {s} : Known(o)' = Known(o)
      /\ level = session[s].level => \A a \in Session : a \in Known(s) => a \in Known(s)'
  BY <1>1 DEF Handles, Players, Reported
<1>8. Players'
  BY <1>5, <1>6, <1>7, PlayersStep
<1>9. /\ work'[s] = w /\ session'[s] = r
      /\ \A o \in Session \ {s} :
           /\ work'[o] = work[o] /\ session'[o] = session[o]
           /\ o \in Online' <=> o \in Online
  BY <1>7, OthersStay
<1>10. \A o, l : ~Departs(work[s], l) /\ ~Tells(work[s], o) /\ ~Meets(work[s], o)
  BY <1>2 DEF At, Departs, Tells, Meets
<1>11. level # session[s].level => Departs(w, level)
  BY <1>1 DEF Departs
<1>12. ASSUME NEW o \in Session \ {s} PROVE Seen(s, o)'
  <2>1. Seen(s, o)
    BY DEF Peers
  <2> QED
    BY <1>2, <1>5, <1>7, <1>9, <1>10, <1>11, <2>1 DEF Seen, Announceable
<1>13. ASSUME NEW o \in Session \ {s} PROVE Seen(o, s)'
  <2>1. Seen(o, s)
    BY DEF Peers
  <2> QED
    BY <1>2, <1>5, <1>7, <1>9, <1>10, <1>11, <2>1 DEF Seen, Announceable
<1>14. Peers'
  BY <1>7, <1>12, <1>13, OtherPairs
<1> QED
  BY <1>8, <1>14

\* The mover has no game vertex on the new level yet, and is about to meet the others.
LEMMA ResetVertexKeeps ==
  ASSUME Players, Peers, NEW s \in Session, ResetVertex(s)
  PROVE  Players' /\ Peers'
<1>1. PICK w, r : /\ w = [pc |-> "peers", level |-> session[s].level, next |-> "idle"]
                  /\ r = [session[s] EXCEPT !.gvid = FALSE, !.told = NoLevel]
                  /\ Handles(s, w, r)
  <2>1. /\ session' = [session EXCEPT ![s].gvid = FALSE, ![s].told = NoLevel]
        /\ Goto(s, [pc |-> "peers", level |-> session[s].level, next |-> "idle"])
    BY DEF ResetVertex
  <2>2. session' = [session EXCEPT ![s] = [session[s] EXCEPT !.gvid = FALSE, !.told = NoLevel]]
    BY <2>1 DEF Players
  <2> QED
    BY <2>1, <2>2 DEF Goto, Handles
<1>2. UNCHANGED <<shown, forgot>>
  BY DEF ResetVertex, screen
<1>3. session[s] \in Sessions /\ PlayerOf(session[s])
  BY DEF Players
<1>4. /\ r \in Sessions /\ r.at = session[s].at /\ r.level = session[s].level /\ ~r.gvid
      /\ r.told = NoLevel
  BY <1>1, <1>3 DEF Sessions
<1>5. PlayerOf(r) /\ HandlerOf(w, r.level)
  BY <1>1, <1>3, <1>4 DEF PlayerOf, HandlerOf, Handling, Loops
<1>6. Players'
  BY <1>1, <1>2, <1>4, <1>5, PlayersStep, SameScreens DEF Players
<1>7. work'[s] = w /\ session'[s] = r
  BY <1>1, OthersStay
<1>8. \A o : Meets(w, o)
  BY <1>1 DEF Meets
<1>9. \A o \in Session \ {s} : Seen(s, o)' /\ Seen(o, s)'
  BY <1>4, <1>7, <1>8 DEF Seen, Announceable
<1>10. Peers'
  BY <1>1, <1>2, <1>9, OtherPairs, SameScreens
<1> QED
  BY <1>6, <1>10

\* Who is gone neither sees nor is seen.
LEMMA RemoveSessionKeeps ==
  ASSUME Players, Peers, NEW s \in Session, RemoveSession(s)
  PROVE  Players' /\ Peers'
<1>1. PICK w, r : /\ w = [pc |-> "forget", old |-> NoLevel]
                  /\ r = [Newcomer EXCEPT !.at = "gone"]
                  /\ Handles(s, w, r)
                  /\ Blank(s, {})
  BY DEF RemoveSession, Goto, Handles
<1>2. /\ r \in Sessions /\ r.at = "gone" /\ r.told = NoLevel
  BY <1>1 DEF Sessions, Newcomer, Dist
<1>3. PlayerOf(r) /\ HandlerOf(w, r.level)
  BY <1>1, <1>2 DEF PlayerOf, HandlerOf, Handling, Loops
<1>4. /\ Handles(s, w, r)
      /\ Screens'
      /\ \A o \in Session \ {s} : Known(o)' = Known(o)
  BY <1>1 DEF Players, Blank, Screens, Known
<1>5. Players'
  BY <1>2, <1>3, <1>4, PlayersStep
<1>6. s \notin Online'
  BY <1>2, <1>4, OthersStay
<1>7. \A o \in Session \ {s} : Seen(s, o)' /\ Seen(o, s)'
  BY <1>6 DEF Seen
<1>8. Peers'
  BY <1>4, <1>7, OtherPairs
<1> QED
  BY <1>5, <1>8
-----------------------------------------------------------------------------
\* The handlers leave the tick alone, but for whom it has sent what.
LEMMA HandlerTracking ==
  ASSUME Tracking, NEW s \in Session,
         \/ UNCHANGED server
         \/ RemoveFromAoI(s) \/ ForgetSession(s) \/ HitPuppet(s)
  PROVE  Tracking'
<1>1. CASE UNCHANGED server
  BY <1>1 DEF server, Tracking, PassOf
<1>2. CASE RemoveFromAoI(s)
  BY <1>2 DEF RemoveFromAoI, Tracking, PassOf
<1>3. CASE ForgetSession(s)
  BY <1>3 DEF ForgetSession, Tracking, PassOf
<1>4. CASE HitPuppet(s)
  BY <1>4 DEF HitPuppet, Tracking, PassOf
<1> QED
  BY <1>1, <1>2, <1>3, <1>4

\* The game loop shows and hides the puppet only.
LEMMA LoopPeers ==
  ASSUME Players, Peers, UNCHANGED <<session, work>>,
         \/ UNCHANGED <<shown, forgot>>
         \/ \E s \in Session : Show(s, ThePuppet) \/ Hide(s, ThePuppet)
  PROVE  Players' /\ Peers'
<1>1. /\ Screens'
      /\ \A a, b \in Session : b \in Online /\ a \in Known(b) => a \in Known(b)'
  <2>1. CASE UNCHANGED <<shown, forgot>>
    BY <2>1, SameScreens DEF Players
  <2>2. CASE \E s \in Session : Show(s, ThePuppet) \/ Hide(s, ThePuppet)
    BY <2>2, PuppetPackets
  <2> QED
    BY <2>1, <2>2
<1>2. Players'
  BY <1>1 DEF Players
<1>3. Online' = Online
  BY DEF Online
<1>4. ASSUME NEW a \in Session, NEW b \in Session, a # b PROVE Seen(a, b)'
  <2>1. Seen(a, b)
    BY <1>4 DEF Peers
  <2> QED
    BY <2>1, <1>1, <1>3 DEF Seen, Announceable
<1> QED
  BY <1>2, <1>4 DEF Peers

\* The views of a tick are of sessions.
LEMMA TickViewsKeeps ==
  ASSUME Players, Peers, Tracking, TickViews PROVE Players' /\ Peers' /\ Tracking'
<1>1. Tracking'
  BY DEF TickViews, Tracking, PassOf, Online
<1> QED
  BY <1>1, LoopPeers DEF TickViews, screen

\* Whom no view is of is tracked no more when the pass begins.
LEMMA TickSquadsKeeps ==
  ASSUME Players, Peers, Tracking, TickSquads PROVE Players' /\ Peers' /\ Tracking'
<1>1. /\ tick'.pc = "pass" /\ tick'.views = tick.views
      /\ tick'.present <=> squad' \in {"alive", "dead"}
  BY DEF TickSquads, Present
<1>2. /\ squad' \in {"alive", "dead", "gone"} /\ (squad' # "gone" => squad # "gone")
      /\ visible' = visible \cap DOMAIN tick.views /\ UNCHANGED <<entity, entries>>
      /\ tick.pc = "step"
  BY DEF TickSquads, Tracking, Retain
<1>3. Tracking'
  BY <1>1, <1>2 DEF Tracking, PassOf
<1> QED
  BY <1>3, LoopPeers DEF TickSquads, screen

\* A view is done with: who tracks what is not in range is about to be told.
LEMMA TickViewKeeps ==
  ASSUME Players, Peers, Tracking, NEW s \in Session, TickView(s)
  PROVE  Players' /\ Peers' /\ Tracking'
<1>1. PICK rest : rest = Rest(s) /\ DOMAIN rest = DOMAIN tick.views \ {s}
  <2>1. DOMAIN Rest(s) = DOMAIN tick.views \ {s}
    BY DEF Rest
  <2> QED
    BY <2>1
<1>2. /\ tick.pc = "pass" /\ s \in DOMAIN tick.views
      /\ squad' = squad /\ entity' = entity /\ visible' = visible /\ entries' = entries
  BY DEF TickView
<1>3. /\ DOMAIN rest \subseteq Session /\ (tick.present <=> squad # "gone")
      /\ squad = "gone" => \A t \in visible : t \in DOMAIN rest \/ t = s
  BY <1>1, <1>2 DEF Tracking, PassOf
<1>4. InRange(s) => squad # "gone"
  BY <1>3 DEF InRange
<1>5. /\ PassOf(tick') /\ tick'.views = rest /\ tick'.present = tick.present
      /\ tick'.pc # "pass" => tick'.s = s
      /\ tick'.pc = "pass" => s \notin visible
      /\ squad = "gone" => tick'.pc \in {"pass", "notifyLeave"}
  BY <1>1, <1>4 DEF TickView, Step, Pass, PassOf
<1>6. /\ squad \in {"alive", "dead", "gone"} /\ entity \in BOOLEAN
      /\ squad # "gone" => entity
      /\ visible \subseteq Session /\ entries \subseteq Session
  BY DEF Tracking
<1>7. PassOf(tick') /\ squad' = "gone" =>
        /\ tick'.pc \in {"pass", "notifyLeave", "clear"}
        /\ \A t \in visible' :
             t \in DOMAIN tick'.views \/ (tick'.pc \in {"notifyLeave", "clear"} /\ tick'.s = t)
  BY <1>2, <1>3, <1>5
<1>8. Tracking'
  BY <1>2, <1>3, <1>5, <1>6, <1>7 DEF Tracking
<1> QED
  BY <1>8, LoopPeers DEF TickView, screen

LEMMA TickLeaveKeeps ==
  ASSUME Players, Peers, Tracking, TickLeave PROVE Players' /\ Peers' /\ Tracking'
<1>1. tick.pc = "notifyLeave" /\ tick.s \in Session
  BY DEF TickLeave, Tracking, PassOf
<1>2. /\ tick'.pc = "clear" /\ tick'.s = tick.s /\ tick'.views = tick.views
      /\ tick'.present = tick.present
      /\ UNCHANGED <<squad, entity, visible>> /\ entries' \subseteq entries
      /\ Hide(tick.s, ThePuppet)
  BY DEF TickLeave, Step, NotifyEntityLeave
<1>3. Tracking'
  BY <1>1, <1>2 DEF Tracking, PassOf
<1> QED
  BY <1>1, <1>2, <1>3, LoopPeers DEF TickLeave

LEMMA ClearVisibleKeeps ==
  ASSUME Players, Peers, Tracking, ClearVisible PROVE Players' /\ Peers' /\ Tracking'
<1>1. /\ tick.pc = "clear" /\ tick'.pc = "pass" /\ tick'.views = tick.views
      /\ tick'.present = tick.present /\ visible' = visible \ {tick.s}
      /\ UNCHANGED <<squad, entity, entries>>
  BY DEF ClearVisible, Pass
<1>2. Tracking'
  BY <1>1 DEF Tracking, PassOf
<1> QED
  BY <1>2, LoopPeers DEF ClearVisible, screen

LEMMA MarkVisibleKeeps ==
  ASSUME Players, Peers, Tracking, MarkVisible PROVE Players' /\ Peers' /\ Tracking'
<1>1. /\ tick.pc = "mark" /\ tick.s \in Session /\ squad # "gone"
      /\ visible' = visible \cup {tick.s} /\ UNCHANGED <<squad, entity, entries>>
  BY DEF MarkVisible, Tracking, PassOf
<1>2. /\ tick'.views = tick.views /\ tick'.present = tick.present
      /\ tick'.pc = "pass" \/ (tick'.pc = "notifyEnter" /\ tick'.s = tick.s)
  BY DEF MarkVisible, Pass, Step
<1>3. Tracking'
  BY <1>1, <1>2 DEF Tracking, PassOf
<1> QED
  BY <1>3, LoopPeers DEF MarkVisible, screen

LEMMA TickEnterKeeps ==
  ASSUME Players, Peers, Tracking, TickEnter PROVE Players' /\ Peers' /\ Tracking'
<1>1. tick.pc = "notifyEnter" /\ tick.s \in Session
  BY DEF TickEnter, Tracking, PassOf
<1>2. /\ tick'.pc = "pass" /\ tick'.views = tick.views /\ tick'.present = tick.present
      /\ UNCHANGED <<squad, entity, visible>> /\ entries' = entries \cup {tick.s}
      /\ UNCHANGED <<shown, forgot>> \/ Show(tick.s, ThePuppet)
  BY DEF TickEnter, Pass, screen
<1>3. Tracking'
  BY <1>1, <1>2 DEF Tracking, PassOf
<1> QED
  BY <1>1, <1>2, <1>3, LoopPeers DEF TickEnter

\* At the end of a pass nobody tracks a puppet that is gone.
LEMMA Untracked ==
  ASSUME Tracking, TickEnd, squad = "gone" PROVE visible = {}
<1>1. tick.pc = "pass" /\ DOMAIN tick.views = {}
  BY DEF TickEnd
<1> QED
  BY <1>1 DEF Tracking, PassOf

LEMMA TickEndKeeps ==
  ASSUME Players, Peers, Tracking, TickEnd PROVE Players' /\ Peers' /\ Tracking'
<1>1. /\ tick'.pc = "idle" /\ UNCHANGED <<squad, entries>> /\ visible' \subseteq visible
      /\ entity' \in BOOLEAN /\ (squad # "gone" => entity' = entity)
  BY DEF TickEnd, Idle, Tracking
<1>2. Tracking'
  BY <1>1 DEF Tracking, PassOf
<1> QED
  BY <1>2, LoopPeers DEF TickEnd, screen

-----------------------------------------------------------------------------
LEMMA ViewNext == ViewInv /\ [NextVisibility]_visibilityVars => ViewInv'
<1> SUFFICES ASSUME Players, Peers, Tracking, [NextVisibility]_visibilityVars
             PROVE  Players' /\ Peers' /\ Tracking'
  BY DEF ViewInv
<1>1. CASE GameLoop
  BY <1>1, TickViewsKeeps, TickSquadsKeeps, TickViewKeeps, TickLeaveKeeps, ClearVisibleKeeps,
     MarkVisibleKeeps, TickEnterKeeps, TickEndKeeps DEF GameLoop
<1>2. ASSUME NEW s \in Session, Continue(s) PROVE Players' /\ Peers' /\ Tracking'
  <2>1. Players' /\ Peers'
    BY <1>2, StartLoopKeeps, CheckPeerKeeps, SendPeerKeeps, RemoveFromAoIKeeps,
       ForgetSessionKeeps, ResetVertexKeeps, RemoveSessionKeeps, ReadTrackersKeeps,
       SendHealthKeeps DEF Continue
  <2>2. UNCHANGED server \/ RemoveFromAoI(s) \/ ForgetSession(s)
    BY <1>2 DEF Continue, StartLoop, CheckPeer, SendPeer, ResetVertex, RemoveSession,
       ReadTrackers, SendHealth
  <2> QED
    BY <2>1, <2>2, HandlerTracking
<1>3. ASSUME NEW s \in Session,
             \/ Join(s) \/ Transform(s) \/ Visual(s) \/ LevelChange(s) \/ Depart(s)
             \/ HitPuppet(s)
      PROVE  Players' /\ Peers' /\ Tracking'
  <2>1. Players' /\ Peers'
    BY <1>3, JoinKeeps, TransformKeeps, VisualKeeps, LevelChangeKeeps, DepartKeeps,
       HitPuppetKeeps
  <2>2. UNCHANGED server \/ HitPuppet(s)
    BY <1>3 DEF Join, Transform, Visual, LevelChange, Depart
  <2> QED
    BY <2>1, <2>2, HandlerTracking
<1>4. CASE UNCHANGED visibilityVars
  <2>1. UNCHANGED <<session, work, shown, forgot>> /\ UNCHANGED server
    BY <1>4 DEF visibilityVars, server
  <2>2. Players' /\ Peers'
    BY <2>1, LoopPeers
  <2>3. Tracking'
    BY <2>1 DEF server, Tracking, PassOf
  <2> QED
    BY <2>2, <2>3
<1> QED
  BY <1>1, <1>2, <1>3, <1>4 DEF NextVisibility

-----------------------------------------------------------------------------
(***************************************************************************)
(* The puppet on the screens.  The server tracks it for whoever shows it,  *)
(* but for those whose enter crossed a leave or a report; who has not      *)
(* joined takes no part in a tick.                                         *)
(***************************************************************************)
Shows(s) == s \in Online /\ ThePuppet \in shown[s] /\ s \notin crossed

\* The sessions that the tick, or aiReplication, has to do with.
InTick(s) ==
  \/ s \in visible
  \/ tick.pc # "idle" /\ s \in DOMAIN tick.views
  \/ PassOf(tick) /\ tick.pc # "pass" /\ tick.s = s

Absent(s) == session[s].at = "away" => ~InTick(s) /\ ThePuppet \notin shown[s]

Followed ==
  /\ crossed \subseteq Session
  /\ \A s \in Session : (InTick(s) => s \in Roamer) /\ Absent(s) /\ (Shows(s) => ~Crosses(s))
  /\ tick.pc = "step" => visible \cap Online \subseteq DOMAIN tick.views
  /\ ~entity => tick.pc = "idle" /\ visible = {}

LEMMA FollowedInit == InitVisibility => Followed
  BY DEF InitVisibility, Followed, InTick, Absent, Shows, Online, PassOf, Idle

\* A handler's step, which shows the puppet to nobody anew.
LEMMA FollowedHandler ==
  ASSUME Players, Tracking, Followed, NEW s \in Session, NEW w, NEW r, Handles(s, w, r),
         UNCHANGED <<tick, entity>>, visible' \in {visible, visible \ {s}},
         r.at = "away" => session[s].at = "away",
         r.at = "online" => session[s].at # "gone",
         crossed' \subseteq Session,
         \A o \in Session : ThePuppet \in shown'[o] => ThePuppet \in shown[o],
         \A o \in Session \ {s} : o \in crossed => o \in crossed' \/ ThePuppet \notin shown'[o],
         Shows(s)' => ~Crosses(s)'
  PROVE  Followed'
<1>1. /\ work'[s] = w /\ session'[s] = r
      /\ \A o \in Session \ {s} :
           /\ work'[o] = work[o] /\ session'[o] = session[o]
           /\ o \in Online' <=> o \in Online
  BY OthersStay
<1>2. \A o \in Session : InTick(o)' => InTick(o)
  BY DEF InTick, PassOf
<1>3. \A o \in Session : Absent(o)'
  BY <1>1, <1>2 DEF Absent, Followed
<1>4. ASSUME NEW o \in Session, Shows(o)' PROVE ~Crosses(o)'
  <2>1. CASE o = s
    BY <2>1, <1>4
  <2>2. CASE o # s
    <3>1. Shows(o)
      BY <1>1, <1>4, <2>2 DEF Shows
    <3>2. ~Crosses(o)
      BY <3>1 DEF Followed
    <3> QED
      BY <1>1, <2>2, <3>2 DEF Crosses, At
  <2> QED
    BY <2>1, <2>2
<1>5. ASSUME tick.pc = "step", NEW o \in Session, o \in visible', o \in Online'
      PROVE  o \in DOMAIN tick.views
  <2>1. o \in visible
    BY <1>5
  <2>2. o \in Online
    BY <1>1, <1>5, <2>1 DEF Online, Followed, Absent, InTick, Players, Sessions
  <2> QED
    BY <1>5, <2>1, <2>2 DEF Followed
<1>6. tick'.pc = "step" => visible' \cap Online' \subseteq DOMAIN tick'.views
  BY <1>5 DEF Online
<1>7. ~entity' => tick'.pc = "idle" /\ visible' = {}
  BY DEF Followed
<1> QED
  BY <1>2, <1>3, <1>4, <1>6, <1>7 DEF Followed

\* The session stays as it is, and the server does not begin to forget.
LEMMA FollowedQuiet ==
  ASSUME Players, Tracking, Followed, NEW s \in Session, NEW w, Goto(s, w),
         UNCHANGED <<session, tick, entity, crossed>>, visible' \in {visible, visible \ {s}},
         \A o \in Session : ThePuppet \in shown'[o] => ThePuppet \in shown[o],
         Crosses(s)' => Crosses(s)
  PROVE  Followed'
<1>1. Handles(s, w, session[s])
  BY DEF Handles, Goto, Players
<1>2. Shows(s)' => ~Crosses(s)'
  BY DEF Followed, Shows, Online
<1>3. crossed' \subseteq Session
  BY DEF Followed
<1>4. session[s].at = "online" => session[s].at # "gone"
  OBVIOUS
<1> QED
  BY <1>1, <1>2, <1>3, <1>4, FollowedHandler

\* The loops over the others.
LEMMA FollowedLoops ==
  ASSUME Players, Tracking, Followed, NEW s \in Session,
         StartLoop(s) \/ CheckPeer(s) \/ SendPeer(s)
  PROVE  Followed'
<1>1. PICK w : Goto(s, w) /\ w.pc \notin {"aoi", "forget"}
  <2>1. CASE StartLoop(s)
    <3>1. PICK pc : /\ pc \in Loops
                    /\ Goto(s, Loop(pc, Others(s), work[s].level, work[s].next))
                    /\ work[s].pc \in {"announce", "leave", "peers"}
      BY <2>1 DEF StartLoop, At, Loops
    <3>2. work[s].next \in {"reset", "remove", "idle"}
      BY <3>1 DEF Players, HandlerOf
    <3> QED
      BY <3>1, <3>2 DEF Loop, Loops
  <2>2. CASE CheckPeer(s)
    <3>1. PICK p, rest : /\ rest = Loop(work[s].pc, work[s].todo \ {p}, work[s].level, work[s].next)
                         /\ \/ Goto(s, [pc |-> "send", kind |-> work[s].pc, to |-> p, rest |-> rest])
                            \/ Goto(s, rest)
      BY <2>2 DEF CheckPeer
    <3>2. work[s].pc \in Loops /\ work[s].next \in {"reset", "remove", "idle"}
      BY <2>2 DEF CheckPeer, Players, HandlerOf, LoopOf, Loops
    <3>3. rest.pc \notin {"aoi", "forget"}
      BY <3>1, <3>2 DEF Loop, Loops
    <3> QED
      BY <3>1, <3>3
  <2>3. CASE SendPeer(s)
    <3>1. Goto(s, work[s].rest) /\ RestOf(work[s].kind, work[s].rest, session[s].level)
      BY <2>3 DEF SendPeer, At, Players, HandlerOf
    <3> QED
      BY <3>1 DEF RestOf, LoopOf, Loops
  <2> QED
    BY <2>1, <2>2, <2>3
<1>2. UNCHANGED session /\ UNCHANGED server
  BY DEF StartLoop, CheckPeer, SendPeer
<1>3. crossed' = crossed /\ \A o \in Session : ThePuppet \in shown'[o] => ThePuppet \in shown[o]
  <2>1. CASE UNCHANGED screen
    BY <2>1 DEF screen
  <2>2. CASE SendPeer(s)
    <3>1. work[s].to \in Session /\ work[s].kind \in Loops
      BY <2>2 DEF SendPeer, At, Players, HandlerOf
    <3>2. Show(work[s].to, s) \/ Hide(work[s].to, s) \/ Show(s, work[s].to)
      BY <2>2, <3>1 DEF SendPeer, Loops
    <3>3. PICK o \in Session, e \in Session : Show(o, e) \/ Hide(o, e)
      BY <3>1, <3>2
    <3>4. e # ThePuppet
      OBVIOUS
    <3> QED
      BY <3>3, <3>4 DEF Show, Hide, Players, Screens
  <2> QED
    BY <2>1, <2>2 DEF StartLoop, CheckPeer
<1>4. Crosses(s)' => Crosses(s)
  <2>1. work'[s] = w
    BY <1>1 DEF Goto, Players
  <2> QED
    BY <1>1, <1>2, <2>1 DEF Crosses, At, server
<1>5. UNCHANGED <<session, tick, entity, crossed>> /\ visible' = visible
  BY <1>2, <1>3 DEF server
<1> QED
  BY <1>1, <1>3, <1>4, <1>5, FollowedQuiet

\* The other steps that leave the session as it is: only a report of a level makes the server
\* forget, and that has begun.
LEMMA FollowedForget ==
  ASSUME Players, Tracking, Followed, NEW s \in Session,
         RemoveFromAoI(s) \/ ForgetSession(s) \/ ReadTrackers(s) \/ Depart(s) \/ HitPuppet(s)
  PROVE  Followed'
<1>1. /\ UNCHANGED <<session, tick, entity, crossed>> /\ visible' \in {visible, visible \ {s}}
      /\ \A o \in Session : ThePuppet \in shown'[o] => ThePuppet \in shown[o]
  BY DEF RemoveFromAoI, ForgetSession, ReadTrackers, Depart, HitPuppet, screen, server
<1>2. CASE RemoveFromAoI(s)
  <2>1. PICK w : /\ w = IF work[s].left
                        THEN [pc |-> "leave", level |-> work[s].old, next |-> "remove"]
                        ELSE [pc |-> "forget", old |-> work[s].old]
                 /\ Goto(s, w)
    BY <1>2 DEF RemoveFromAoI
  <2>2. work'[s] = w /\ At(s, "aoi") /\ visible' = visible
    BY <1>2, <2>1 DEF RemoveFromAoI, Goto, Players
  <2>3. Crosses(s)' => Crosses(s)
    BY <1>1, <2>1, <2>2 DEF Crosses, At
  <2> QED
    BY <1>1, <2>1, <2>3, FollowedQuiet
<1>3. CASE ForgetSession(s)
  <2>1. PICK w : Goto(s, w)
    BY <1>3 DEF ForgetSession
  <2>2. Crosses(s)
    BY <1>3 DEF ForgetSession, Crosses
  <2> QED
    BY <1>1, <2>1, <2>2, FollowedQuiet
<1>4. CASE ReadTrackers(s) \/ Depart(s) \/ HitPuppet(s)
  <2>1. PICK w : Goto(s, w) /\ w.pc # "forget" /\ (w.pc = "aoi" => w.left)
    <3>1. CASE ReadTrackers(s)
      BY <3>1 DEF ReadTrackers, Loop, Idle
    <3>2. CASE Depart(s)
      BY <3>2 DEF Depart
    <3>3. CASE HitPuppet(s)
      <4>1. Goto(s, work[s]) \/ Goto(s, [pc |-> "health"])
        BY <3>3 DEF HitPuppet, Goto, Players
      <4> QED
        BY <3>3, <4>1 DEF HitPuppet, At
    <3> QED
      BY <1>4, <3>1, <3>2, <3>3
  <2>2. work'[s] = w /\ visible' = visible
    BY <1>4, <2>1 DEF ReadTrackers, Depart, HitPuppet, Goto, Players, server
  <2>3. Crosses(s)' => Crosses(s)
    BY <1>1, <2>1, <2>2 DEF Crosses, At
  <2> QED
    BY <1>1, <2>1, <2>3, FollowedQuiet
<1> QED
  BY <1>2, <1>3, <1>4

\* The steps that change the session.  A report of the level may leave the puppet on the screen.
LEMMA FollowedSession ==
  ASSUME Players, Tracking, Followed, NEW s \in Session,
         \/ Join(s) \/ Transform(s) \/ Visual(s) \/ LevelChange(s) \/ ResetVertex(s)
         \/ RemoveSession(s)
  PROVE  Followed'
<1>1. /\ UNCHANGED <<tick, entity, visible>>
      /\ crossed' \subseteq Session
      /\ \A o \in Session : ThePuppet \in shown'[o] => ThePuppet \in shown[o]
      /\ \A o \in Session \ {s} : o \in crossed => o \in crossed'
  <2>1. UNCHANGED <<tick, entity, visible>>
    BY DEF Join, Transform, Visual, LevelChange, ResetVertex, RemoveSession, server
  <2>2. CASE UNCHANGED screen
    BY <2>1, <2>2 DEF screen, Followed
  <2>3. CASE \E lost : Blank(s, lost)
    BY <2>1, <2>3 DEF Blank, Followed, Players, Screens
  <2>4. CASE shown' = shown /\ crossed' \in {crossed, crossed \cup {s}}
    BY <2>1, <2>4 DEF Followed
  <2>5. UNCHANGED screen \/ (\E lost : Blank(s, lost))
          \/ (shown' = shown /\ crossed' \in {crossed, crossed \cup {s}})
    BY DEF Join, Transform, Visual, LevelChange, ResetVertex, RemoveSession
  <2> QED
    BY <2>2, <2>3, <2>4, <2>5
<1>2. ASSUME NEW w, NEW r, Handles(s, w, r),
             r.at = "away" => session[s].at = "away",
             r.at = "online" => session[s].at # "gone",
             Shows(s)' => ~Crosses(s)'
      PROVE  Followed'
  <2>1. visible' \in {visible, visible \ {s}}
    BY <1>1
  <2>2. \A o \in Session \ {s} : o \in crossed => o \in crossed' \/ ThePuppet \notin shown'[o]
    BY <1>1
  <2> QED
    BY <1>1, <1>2, <2>1, <2>2, FollowedHandler
<1>3. CASE Join(s)
  <2>1. PICK w, r : /\ w = [pc |-> "peers", level |-> Spawn, next |-> "idle"]
                    /\ r = [session[s] EXCEPT !.at = "online"]
                    /\ Handles(s, w, r)
    BY <1>3 DEF Join, Goto, Handles
  <2>2. session[s] \in Sessions /\ session[s].at = "away"
    BY <1>3 DEF Join, Players
  <2>3. r.at = "online"
    BY <2>1, <2>2 DEF Sessions
  <2>4. ThePuppet \notin shown'[s]
    BY <1>1, <2>2 DEF Followed, Absent
  <2> QED
    BY <1>2, <2>1, <2>2, <2>3, <2>4 DEF Shows
<1>4. ASSUME NEW r \in Sessions, NEW w, Handles(s, w, r), s \in Online, r.at = "online",
             UNCHANGED screen, w.pc \notin {"aoi", "forget"}
      PROVE  Followed'
  <2>1. work'[s] = w /\ session[s].at = "online"
    BY <1>4, OthersStay DEF Online
  <2>2. Shows(s)' => ~Crosses(s)'
    BY <1>1, <1>4, <2>1 DEF Followed, Shows, Crosses, At, screen
  <2> QED
    BY <1>2, <1>4, <2>1, <2>2
<1>5. ASSUME NEW sess \in Sessions, MaybeAnnounce(s, sess), s \in Online, sess.at = "online",
             UNCHANGED screen
      PROVE  Followed'
  <2>1. PICK due, w, r :
          /\ r = IF due THEN [sess EXCEPT !.told = sess.level, !.lapsed = FALSE] ELSE sess
          /\ w = IF due THEN [pc |-> "announce", level |-> sess.level, next |-> "idle"] ELSE Idle
          /\ Handles(s, w, r)
    BY <1>5 DEF MaybeAnnounce, Goto, Handles
  <2>2. r \in Sessions /\ r.at = "online"
    BY <1>5, <2>1 DEF Sessions
  <2>3. w.pc \notin {"aoi", "forget"}
    BY <2>1 DEF Idle
  <2> QED
    BY <1>4, <1>5, <2>1, <2>2, <2>3
<1>6. CASE Transform(s)
  <2>1. PICK dist \in Dist, gvid \in BOOLEAN :
          MaybeAnnounce(s, [session[s] EXCEPT !.dist = dist, !.gvid = gvid,
                                              !.lapsed = @ \/ ~gvid])
    BY <1>6 DEF Transform
  <2>2. PICK sess : sess = [session[s] EXCEPT !.dist = dist, !.gvid = gvid,
                                              !.lapsed = @ \/ ~gvid]
    OBVIOUS
  <2>3. session[s] \in Sessions /\ session[s].at = "online" /\ s \in Online /\ UNCHANGED screen
    BY <1>6 DEF Transform, Players, Online
  <2>4. sess \in Sessions /\ sess.at = "online"
    BY <2>2, <2>3 DEF Sessions
  <2> QED
    BY <1>5, <2>1, <2>2, <2>3, <2>4
<1>7. CASE Visual(s)
  <2>1. PICK sess : /\ sess = [session[s] EXCEPT !.visual = TRUE, !.told = NoLevel]
                    /\ MaybeAnnounce(s, sess)
    BY <1>7 DEF Visual
  <2>2. session[s] \in Sessions /\ session[s].at = "online" /\ s \in Online /\ UNCHANGED screen
    BY <1>7 DEF Visual, Players, Online
  <2>3. sess \in Sessions /\ sess.at = "online"
    BY <2>1, <2>2 DEF Sessions
  <2> QED
    BY <1>5, <2>1, <2>2, <2>3
<1>8. CASE LevelChange(s)
  <2>1. PICK level \in Level, dist \in Dist :
          session' = [session EXCEPT ![s].level = level, ![s].dist = dist]
    <3>1. \A level \in Level : Distances(s, level) \subseteq Dist
      BY DEF Distances, Dist
    <3> QED
      BY <1>8, <3>1 DEF LevelChange
  <2>2. PICK r : r = [session[s] EXCEPT !.level = level, !.dist = dist]
    OBVIOUS
  <2>3. PICK w : w = [pc |-> "aoi", old |-> session[s].level, left |-> FALSE]
    OBVIOUS
  <2>4. Handles(s, w, r)
    BY <1>8, <2>1, <2>2, <2>3 DEF LevelChange, Goto, Handles, Players
  <2>5. r.at = session[s].at /\ session[s].at = "online"
    <3>1. session[s] \in Sessions /\ session[s].at = "online"
      BY <1>8 DEF LevelChange, Players, Online
    <3> QED
      BY <2>2, <3>1 DEF Sessions
  <2>6. s \in crossed' \/ ThePuppet \notin shown'[s]
    <3>1. CASE \E lost : Blank(s, lost)
      BY <3>1 DEF Blank, Players, Screens
    <3>2. CASE /\ shown' = shown
               /\ crossed' = IF ThePuppet \in shown[s] THEN crossed \cup {s} ELSE crossed
      BY <3>2
    <3> QED
      BY <1>8, <3>1, <3>2 DEF LevelChange
  <2> QED
    BY <1>2, <2>4, <2>5, <2>6 DEF Shows
<1>9. CASE ResetVertex(s)
  <2>1. PICK w, r : /\ w = [pc |-> "peers", level |-> session[s].level, next |-> "idle"]
                    /\ r = [session[s] EXCEPT !.gvid = FALSE, !.told = NoLevel]
    OBVIOUS
  <2>2. Handles(s, w, r)
    <3>1. /\ session' = [session EXCEPT ![s].gvid = FALSE, ![s].told = NoLevel]
          /\ Goto(s, w)
      BY <1>9, <2>1 DEF ResetVertex
    <3>2. session' = [session EXCEPT ![s] = r]
      BY <2>1, <3>1 DEF Players
    <3> QED
      BY <3>1, <3>2 DEF Goto, Handles
  <2>3. r.at = session[s].at
    <3>1. session[s] \in Sessions
      BY DEF Players
    <3> QED
      BY <2>1, <3>1 DEF Sessions
  <2>4. work'[s] = w /\ session'[s] = r
    BY <2>2, OthersStay
  <2>5. Shows(s)' => Shows(s)
    BY <1>9, <2>2, <2>3, <2>4, OthersStay DEF ResetVertex, Shows, Online, screen
  <2>6. Crosses(s)' => Crosses(s)
    BY <1>1, <2>1, <2>4 DEF Crosses, At
  <2>7. Shows(s)' => ~Crosses(s)'
    BY <2>5, <2>6 DEF Followed
  <2> QED
    BY <1>2, <2>2, <2>3, <2>7
<1>10. CASE RemoveSession(s)
  <2>1. PICK w, r : /\ w = [pc |-> "forget", old |-> NoLevel]
                    /\ r = [Newcomer EXCEPT !.at = "gone"]
                    /\ Handles(s, w, r)
    BY <1>10 DEF RemoveSession, Goto, Handles
  <2>2. r.at = "gone"
    BY <2>1 DEF Newcomer
  <2>3. ~Shows(s)'
    BY <2>1, <2>2, OthersStay DEF Shows
  <2> QED
    BY <1>2, <2>1, <2>2, <2>3
<1> QED
  BY <1>3, <1>6, <1>7, <1>8, <1>9, <1>10

\* An enter of the puppet: it is tracked for the receiver, or the enter crosses something.
LEMMA Enters ==
  ASSUME Players, Followed, NEW s \in Session, Show(s, ThePuppet)
  PROVE  /\ crossed' \subseteq Session
         /\ \A o \in Session \ {s} : shown'[o] = shown[o] /\ (o \in crossed' <=> o \in crossed)
         /\ s \in Online => (s \in crossed' <=> Crosses(s))
         /\ s \notin Online => ThePuppet \notin shown'[s]
  BY DEF Show, Players, Screens, Followed, Online

LEMMA FollowedSendHealth ==
  ASSUME Players, Tracking, Followed, NEW s \in Session, SendHealth(s) PROVE Followed'
<1>1. PICK o, w : /\ o \in work[s].todo
                  /\ w = Loop("healths", work[s].todo \ {o}, NoLevel, "idle")
                  /\ Goto(s, w) /\ Show(o, ThePuppet)
  BY DEF SendHealth
<1>2. /\ At(s, "healths") /\ o \in Session /\ UNCHANGED session
      /\ UNCHANGED <<tick, entity, visible>>
  BY <1>1 DEF SendHealth, At, Players, HandlerOf, server
<1>3. \A a \in Session : Crosses(a)' = Crosses(a)
  <2>1. work'[s] = w /\ \A a \in Session \ {s} : work'[a] = work[a]
    BY <1>1 DEF Goto, Players
  <2>2. w.pc \notin {"aoi", "forget"} /\ work[s].pc \notin {"aoi", "forget"}
    BY <1>1, <1>2 DEF Loop, At
  <2>3. ASSUME NEW a \in Session PROVE Crosses(a)' = Crosses(a)
    <3>1. CASE a = s
      BY <1>2, <2>1, <2>2, <3>1 DEF Crosses, At
    <3>2. CASE a # s
      BY <1>2, <2>1, <3>2 DEF Crosses, At
    <3> QED
      BY <3>1, <3>2
  <2> QED
    BY <2>3
<1>4. \A a \in Session : InTick(a)' = InTick(a)
  BY <1>2 DEF InTick, PassOf
<1>5. ASSUME NEW a \in Session PROVE Absent(a)' /\ (Shows(a)' => ~Crosses(a)')
  <2>1. CASE a = o
    BY <1>1, <1>2, <1>3, <1>4, <2>1, Enters DEF Absent, Shows, Followed, Online
  <2>2. CASE a # o
    BY <1>1, <1>2, <1>3, <1>4, <2>2, Enters DEF Absent, Shows, Followed, Online
  <2> QED
    BY <2>1, <2>2
<1>6. crossed' \subseteq Session
  BY <1>1, <1>2, Enters
<1> QED
  BY <1>2, <1>4, <1>5, <1>6 DEF Followed, Online

\* A step of the tick: whom it has to do with does not grow, and what it sends it tracks.
LEMMA FollowedTick ==
  ASSUME Players, Followed, UNCHANGED <<session, work>>, entity' = entity \/ visible' = {},
         \A s \in Session : InTick(s)' => InTick(s) \/ (s \in Online /\ s \in Roamer),
         crossed' \subseteq Session,
         \A s \in Session : ThePuppet \in shown'[s] => ThePuppet \in shown[s] \/ s \in Online,
         \A s \in Session : Shows(s)' => ~Crosses(s)',
         tick'.pc = "step" => visible' \cap Online \subseteq DOMAIN tick'.views,
         ~entity' => tick'.pc = "idle" /\ visible' = {}
  PROVE  Followed'
<1>1. \A s \in Session : (InTick(s)' => s \in Roamer) /\ Absent(s)'
  BY DEF Followed, Absent, Online
<1>2. Online' = Online
  BY DEF Online
<1> QED
  BY <1>1, <1>2 DEF Followed

LEMMA FollowedLoop ==
  ASSUME Players, Tracking, Followed, GameLoop PROVE Followed'
<1>0. UNCHANGED <<session, work>> /\ Online' = Online
  BY DEF GameLoop, TickViews, TickSquads, TickView, TickLeave, ClearVisible, MarkVisible,
     TickEnter, TickEnd, Online
<1>1. CASE TickViews
  <2>1. /\ tick.pc = "idle" /\ tick'.pc = "step" /\ DOMAIN tick'.views = Online \cap Roamer
        /\ UNCHANGED <<entity, visible, shown, crossed>> /\ entity
    BY <1>1 DEF TickViews, screen
  <2>2. \A s \in Session : InTick(s)' => InTick(s) \/ (s \in Online /\ s \in Roamer)
    BY <2>1 DEF InTick, PassOf
  <2>3. \A s \in Session : Shows(s)' => ~Crosses(s)'
    BY <1>0, <2>1 DEF Followed, Shows, Crosses, At
  <2>4. visible \cap Online \subseteq Online \cap Roamer
    BY DEF Followed, InTick, Online
  <2> QED
    BY <1>0, <2>1, <2>2, <2>3, <2>4, FollowedTick DEF Followed
<1>2. CASE TickSquads
  <2>1. /\ tick.pc = "step" /\ tick'.pc = "pass" /\ tick'.views = tick.views
        /\ visible' = visible \cap DOMAIN tick.views /\ UNCHANGED <<entity, shown, crossed>>
    BY <1>2 DEF TickSquads, Retain, screen
  <2>2. \A s \in Session : InTick(s)' => InTick(s)
    BY <2>1 DEF InTick, PassOf
  <2>3. \A s \in Session : Shows(s)' => ~Crosses(s)'
    BY <1>0, <2>1 DEF Followed, Shows, Crosses, At
  <2>4. entity
    BY <2>1 DEF Followed
  <2> QED
    BY <1>0, <2>1, <2>2, <2>3, <2>4, FollowedTick DEF Followed
<1>3. ASSUME NEW t \in Session, TickView(t) PROVE Followed'
  <2>1. /\ tick.pc = "pass" /\ t \in DOMAIN tick.views
        /\ UNCHANGED <<entity, visible, shown, crossed>>
        /\ tick'.pc \in {"pass", "notifyLeave", "mark"}
        /\ DOMAIN tick'.views = DOMAIN tick.views \ {t}
        /\ tick'.pc # "pass" => tick'.s = t
    BY <1>3 DEF TickView, Step, Pass, Rest, screen
  <2>2. \A s \in Session : InTick(s)' => InTick(s)
    BY <2>1 DEF InTick, PassOf
  <2>3. \A s \in Session : Shows(s)' => ~Crosses(s)'
    BY <1>0, <2>1 DEF Followed, Shows, Crosses, At
  <2>4. entity
    BY <2>1 DEF Followed
  <2> QED
    BY <1>0, <2>1, <2>2, <2>3, <2>4, FollowedTick DEF Followed
<1>4. CASE TickLeave
  <2>1. /\ tick.pc = "notifyLeave" /\ tick'.pc = "clear" /\ tick'.views = tick.views
        /\ tick'.s = tick.s /\ tick.s \in Session
        /\ Hide(tick.s, ThePuppet) /\ UNCHANGED <<entity, visible>>
    BY <1>4 DEF TickLeave, Step, NotifyEntityLeave, Tracking, PassOf
  <2>2. /\ crossed' = crossed \ {tick.s}
        /\ ThePuppet \notin shown'[tick.s]
        /\ \A s \in Session : ThePuppet \in shown'[s] => ThePuppet \in shown[s] /\ s # tick.s
    BY <2>1 DEF Hide, Players, Screens
  <2>3. \A s \in Session : InTick(s)' => InTick(s)
    BY <2>1 DEF InTick, PassOf
  <2>4. \A s \in Session : Shows(s)' => ~Crosses(s)'
    BY <1>0, <2>1, <2>2 DEF Followed, Shows, Crosses, At
  <2>5. entity
    BY <2>1 DEF Followed
  <2>6. crossed' \subseteq Session
    BY <2>2 DEF Followed
  <2> QED
    BY <1>0, <2>1, <2>2, <2>3, <2>4, <2>5, <2>6, FollowedTick
<1>5. CASE ClearVisible
  <2>1. /\ tick.pc = "clear" /\ tick'.pc = "pass" /\ tick'.views = tick.views
        /\ visible' = visible \ {tick.s} /\ UNCHANGED <<entity, shown, crossed>>
    BY <1>5 DEF ClearVisible, Pass, screen
  <2>2. \A s \in Session : InTick(s)' => InTick(s)
    BY <2>1 DEF InTick, PassOf
  <2>3. \A s \in Session : Shows(s)' => ~Crosses(s)'
    BY <1>0, <2>1 DEF Followed, Shows, Crosses, At
  <2>4. entity
    BY <2>1 DEF Followed
  <2> QED
    BY <1>0, <2>1, <2>2, <2>3, <2>4, FollowedTick DEF Followed
<1>6. CASE MarkVisible
  <2>1. /\ tick.pc = "mark" /\ tick'.pc \in {"pass", "notifyEnter"} /\ tick'.views = tick.views
        /\ tick'.pc = "notifyEnter" => tick'.s = tick.s
        /\ visible' = visible \cup {tick.s} /\ UNCHANGED <<entity, shown, crossed>>
    BY <1>6 DEF MarkVisible, Pass, Step, screen
  <2>2. \A s \in Session : InTick(s)' => InTick(s)
    BY <2>1 DEF InTick, PassOf
  <2>3. \A s \in Session : Shows(s)' => ~Crosses(s)'
    BY <1>0, <2>1 DEF Followed, Shows, Crosses, At
  <2>4. entity
    BY <2>1 DEF Followed
  <2> QED
    BY <1>0, <2>1, <2>2, <2>3, <2>4, FollowedTick DEF Followed
<1>7. CASE TickEnter
  <2>1. /\ tick.pc = "notifyEnter" /\ tick'.pc = "pass" /\ tick'.views = tick.views
        /\ UNCHANGED <<entity, visible>> /\ tick.s \in Session
        /\ UNCHANGED screen \/ Show(tick.s, ThePuppet)
    BY <1>7 DEF TickEnter, Pass, Tracking, PassOf
  <2>2. \A s \in Session : InTick(s)' => InTick(s)
    BY <2>1 DEF InTick, PassOf
  <2>3. \A s \in Session : Crosses(s)' = Crosses(s)
    BY <1>0, <2>1 DEF Crosses, At
  <2>4. ASSUME NEW s \in Session
        PROVE  /\ Shows(s)' => ~Crosses(s)'
               /\ ThePuppet \in shown'[s] => ThePuppet \in shown[s] \/ s \in Online
    <3>1. CASE UNCHANGED screen
      BY <1>0, <2>3, <3>1 DEF Shows, Followed, screen
    <3>2. CASE Show(tick.s, ThePuppet) /\ s = tick.s
      BY <1>0, <2>1, <2>3, <3>2, Enters DEF Shows
    <3>3. CASE Show(tick.s, ThePuppet) /\ s # tick.s
      BY <1>0, <2>1, <2>3, <3>3, Enters DEF Shows, Followed
    <3> QED
      BY <2>1, <3>1, <3>2, <3>3
  <2>5. entity
    BY <2>1 DEF Followed
  <2>6. crossed' \subseteq Session
    BY <2>1, Enters DEF screen, Followed
  <2> QED
    BY <1>0, <2>1, <2>2, <2>4, <2>5, <2>6, FollowedTick
<1>8. CASE TickEnd
  <2>1. /\ tick.pc = "pass" /\ tick'.pc = "idle" /\ UNCHANGED <<shown, crossed>>
        /\ IF squad = "gone" THEN ~entity' /\ visible' = {} ELSE UNCHANGED <<entity, visible>>
    BY <1>8 DEF TickEnd, Idle, screen
  <2>2. visible' = visible
    BY <1>8, <2>1, Untracked
  <2>3. \A s \in Session : InTick(s)' => InTick(s)
    BY <2>1, <2>2 DEF InTick, PassOf
  <2>4. \A s \in Session : Shows(s)' => ~Crosses(s)'
    BY <1>0, <2>1, <2>2 DEF Followed, Shows, Crosses, At
  <2>5. entity
    BY <2>1 DEF Followed
  <2> QED
    BY <1>0, <2>1, <2>2, <2>3, <2>4, <2>5, FollowedTick DEF Followed
<1> QED
  BY <1>1, <1>2, <1>3, <1>4, <1>5, <1>6, <1>7, <1>8 DEF GameLoop

LEMMA FollowedNext ==
  Players /\ Tracking /\ Followed /\ [NextVisibility]_visibilityVars => Followed'
<1> SUFFICES ASSUME Players, Tracking, Followed, [NextVisibility]_visibilityVars
             PROVE  Followed'
  OBVIOUS
<1>1. ASSUME NEW s \in Session, Continue(s) PROVE Followed'
  BY <1>1, FollowedLoops, FollowedForget, FollowedSession, FollowedSendHealth DEF Continue
<1>2. ASSUME NEW s \in Session,
             \/ Join(s) \/ Transform(s) \/ Visual(s) \/ LevelChange(s) \/ Depart(s)
             \/ HitPuppet(s)
      PROVE  Followed'
  BY <1>2, FollowedForget, FollowedSession
<1>3. CASE UNCHANGED visibilityVars
  BY <1>3 DEF visibilityVars, Followed, InTick, Absent, Shows, Crosses, Online, At, PassOf
<1> QED
  BY <1>1, <1>2, <1>3, FollowedLoop DEF NextVisibility

LEMMA FollowedInvariance == SpecVisibility => [](ViewInv /\ Followed)
<1>1. ViewInv /\ Followed /\ [NextVisibility]_visibilityVars => ViewInv' /\ Followed'
  BY ViewNext, FollowedNext DEF ViewInv
<1> QED
  BY ViewInit, FollowedInit, <1>1, PTL DEF SpecVisibility

-----------------------------------------------------------------------------
\* Two players on one level, of whom one is announceable and neither has a handler under
\* way: the other is shown him, but for a game vertex that lapsed and a level loaded again.
THEOREM PeersAreSeen == SpecVisibility => []PeersSound
<1>1. ViewInv /\ Followed => PeersSound
  <2> SUFFICES ASSUME Players, Peers, Tracking, Followed PROVE PeersSound
    BY DEF ViewInv
  <2>1. VisibilityTypes
    <3>1. \A s \in Session : work[s].pc \in Handling
      BY DEF Players, HandlerOf
    <3>2. session \in [Session -> Sessions]
      BY DEF Players
    <3>3. /\ shown \in [Session -> SUBSET (Session \cup {ThePuppet})]
          /\ forgot \in [Session -> SUBSET Session] /\ crossed \subseteq Session
      BY DEF Players, Screens, Followed
    <3>4. tick.pc \in {"idle", "step", "pass", "notifyLeave", "clear", "mark", "notifyEnter"}
      BY DEF Tracking, PassOf
    <3> QED
      BY <3>1, <3>2, <3>3, <3>4 DEF VisibilityTypes, Tracking, Sessions, Handling, Loops
  <2>2. ASSUME NEW a \in Online, NEW b \in Online, a # b, At(a, "idle"), At(b, "idle"),
               session[a].level = session[b].level, Announceable(a), ~session[a].lapsed
        PROVE  a \in shown[b] \cup forgot[b]
    <3>1. Seen(a, b)
      BY <2>2 DEF Peers, Online
    <3> QED
      BY <2>2, <3>1 DEF Seen, At, Departs, Tells, Meets, Known
  <2> QED
    BY <2>1, <2>2 DEF PeersSound, PeersSeen
<1> QED
  BY <1>1, FollowedInvariance, PTL

\* A puppet that was released is on nobody's screen, but for those whose enter crossed the
\* leave or a report of their level.
THEOREM NobodyIsLeftBehind == SpecVisibility => []ReleasedUnseen
<1>1. Followed => ReleasedUnseen
  BY DEF Followed, ReleasedUnseen, Shows, Crosses, Online
<1> QED
  BY <1>1, FollowedInvariance, PTL
=============================================================================
