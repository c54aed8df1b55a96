------------------------ MODULE PointToPointProofs -------------------------
(***************************************************************************)
(* Theorems about PointToPoint, for any packet sizes, data rates, gaps,    *)
(* delay and queue limits, in either mode of the queues, whatever the      *)
(* error model corrupts.                                                   *)
(***************************************************************************)
EXTENDS PointToPoint, WellFoundedInduction, TLAPS

-----------------------------------------------------------------------------
(* The two ends, the order of events and the operations of the queue       *)

LEMMA PeerIsOther ==
  ASSUME NEW d \in Devices
  PROVE  /\ Peer(d) \in Devices /\ Peer(d) # d
         /\ Peer(Peer(d)) = d
         /\ \A e \in Devices : e = d \/ e = Peer(d)
<1>1. PICK x, y \in Devices : x # y /\ Devices = {x, y}
  BY LinkConstants
<1>2. \E e \in Devices : e # d
  BY <1>1
<1>3. Peer(d) \in Devices /\ Peer(d) # d
  BY <1>2 DEF Peer
<1>4. \E e \in Devices : e # Peer(d)
  BY <1>1
<1>5. Peer(Peer(d)) \in Devices /\ Peer(Peer(d)) # Peer(d)
  BY <1>4 DEF Peer
<1> QED BY <1>1, <1>3, <1>5

LEMMA PacketFields ==
  ASSUME NEW p \in Packets
  PROVE  p.src \in Devices /\ p.no \in 1 .. MaxSends /\ p.bytes \in Nat /\ p # None
BY LinkConstants, NoneIsNoPacket DEF Packets

LEMMA EnqueueType ==
  ASSUME NEW q \in Queues, NEW p \in Packets
  PROVE  /\ Enqueue(q, p) \in Queues
         /\ Enqueue(q, p).m_packets = Append(q.m_packets, p)
         /\ Enqueue(q, p).m_nPackets = q.m_nPackets + 1
<1>1. p.bytes \in Nat /\ q.m_packets \in Seq(Packets)
  BY PacketFields DEF Queues
<1>2. Append(q.m_packets, p) \in Seq(Packets)
  BY <1>1
<1> QED BY <1>1, <1>2 DEF Enqueue, Queues

LEMMA DropType ==
  ASSUME NEW q \in Queues
  PROVE  /\ Drop(q) \in Queues
         /\ Drop(q).m_packets = q.m_packets
         /\ Drop(q).m_nPackets = q.m_nPackets
BY DEF Drop, Queues

LEMMA DequeueType ==
  ASSUME NEW q \in Queues, q.m_packets # <<>>, q.m_nPackets = Len(q.m_packets)
  PROVE  /\ Dequeue(q) \in Queues
         /\ Dequeue(q).m_packets = Tail(q.m_packets)
         /\ Dequeue(q).m_nPackets = q.m_nPackets - 1
         /\ Peek(q) \in Packets
         /\ Peek(q) = q.m_packets[1]
<1>1. q.m_packets \in Seq(Packets) /\ Len(q.m_packets) >= 1
  BY DEF Queues
<1>2. Peek(q) \in Packets /\ Peek(q) = q.m_packets[1]
  BY <1>1 DEF Peek
<1>3. Peek(q).bytes \in Nat
  BY <1>2, PacketFields
<1> HIDE DEF Peek
<1>4. Tail(q.m_packets) \in Seq(Packets) /\ q.m_nPackets - 1 \in Nat
  BY <1>1
<1> QED BY <1>2, <1>3, <1>4 DEF Dequeue, Queues

\* What the tail of a queue holds at i, the queue held at i + 1.
LEMMA ShiftedPlace ==
  ASSUME NEW A \in Nat, NEW Q \in Nat, NEW i \in 1 .. Q - 1
  PROVE  i + 1 \in 1 .. Q /\ A - (Q - 1) + i = A - Q + (i + 1)
OBVIOUS

LEMMA TimesAreNat ==
  ASSUME NEW m \in Nat, NEW n \in Nat
  PROVE  m * n \in Nat
BY SMT

-----------------------------------------------------------------------------
(* The inductive invariant                                                 *)

\* A packet's fate, by its number: d's peer has the first ones, the next are
\* on the wire, one event each, and the last wait in the queue.
Numbered(d) ==
  \A i \in 1 .. Len(accepted[d]) : accepted[d][i].no = i /\ accepted[d][i].src = d
Queued(d) ==
  /\ m_queue[d].m_nPackets = Len(m_queue[d].m_packets)
  /\ \A i \in 1 .. Len(m_queue[d].m_packets) :
       /\ m_queue[d].m_packets[i].no = Len(accepted[d]) - Len(m_queue[d].m_packets) + i
       /\ m_queue[d].m_packets[i] = accepted[d][m_queue[d].m_packets[i].no]
UnderWay(d) ==
  \A ev \in OnWire(d) :
    /\ ev.pkt.no > Len(arrived[d]) /\ ev.pkt.no <= Len(accepted[d]) - Len(m_queue[d].m_packets)
    /\ ev.pkt = accepted[d][ev.pkt.no]
    /\ ev.dev = Peer(d)
NoneMissing(d) ==
  /\ Len(arrived[d]) + Len(m_queue[d].m_packets) <= Len(accepted[d])
  /\ \A n \in 1 .. Len(accepted[d]) :
       Len(arrived[d]) < n /\ n <= Len(accepted[d]) - Len(m_queue[d].m_packets)
         => \E ev \in OnWire(d) : ev.pkt.no = n

Books(d) == Numbered(d) /\ Queued(d) /\ UnderWay(d) /\ NoneMissing(d)

\* The packets on the wire follow each other in time as in number, and the
\* next transmission can only begin late enough to keep it so.
Paced(d) ==
  /\ \A ev, ew \in OnWire(d) : ev.pkt.no = ew.pkt.no => ev = ew
  /\ \A ev, ew \in OnWire(d) : ev.pkt.no < ew.pkt.no =>
       /\ ev.uid < ew.uid
       /\ \E b \in ByteTimes : ew.ts >= ev.ts + Gap[d] + ew.pkt.bytes * b
  /\ m_txMachineState[d] = "READY" => \A ev \in OnWire(d) : ev.ts + Gap[d] <= now + Delay
  /\ \A c \in Completions(d), ev \in OnWire(d) : ev.ts + Gap[d] <= c.ts + Delay

\* While the gap does not exceed the delay, the packet in transmission is
\* still on the wire, behind its completion.
Held(d) ==
  m_currentPkt[d] # None /\ Gap[d] <= Delay =>
    \E ev \in OnWire(d) : ev.pkt = m_currentPkt[d] /\ \A c \in Completions(d) : Before(c, ev)

Stripped == \A p \in stripped : p.no <= Len(arrived[p.src])

EventsOK ==
  /\ \A e, f \in events : e.uid = f.uid => e = f
  /\ \A ev \in events : ev.does = "Receive" => ev.pkt \in Packets

LInv ==
  /\ TypeOK
  /\ EventsOK
  /\ OneTransmission
  /\ \A d \in Devices : Books(d) /\ Paced(d) /\ Held(d)
  /\ Stripped

LEMMA InitInv == Init => LInv
<1> SUFFICES ASSUME Init PROVE LInv
  OBVIOUS
<1>1. EmptyQueue \in Queues /\ EmptyQueue.m_packets = <<>> /\ EmptyQueue.m_nPackets = 0
  BY DEF EmptyQueue, Queues
<1> HIDE DEF EmptyQueue
<1>2. TypeOK
  BY <1>1, LinkConstants DEF Init, TypeOK
<1>3. \A d \in Devices : Completions(d) = {} /\ OnWire(d) = {}
  BY DEF Init, Completions, OnWire
<1>4. OneTransmission
  BY <1>1, <1>3 DEF Init, OneTransmission
<1>5. \A d \in Devices : Books(d) /\ Paced(d) /\ Held(d)
  BY <1>1, <1>3 DEF Init, Books, Numbered, Queued, UnderWay, NoneMissing, Paced, Held
<1> QED BY <1>2, <1>4, <1>5 DEF Init, EventsOK, Stripped, LInv

-----------------------------------------------------------------------------
(* What a transmission adds to the event list                              *)

Done(d, p, t) ==
  [ts |-> t + p.bytes * m_bps[d] + Gap[d], uid |-> uid, does |-> "TransmitComplete", dev |-> d, pkt |-> None]
Arrival(d, p, t) ==
  [ts |-> t + p.bytes * m_bps[d] + Delay, uid |-> uid + 1, does |-> "Receive", dev |-> Peer(d), pkt |-> p]

LEMMA Starting ==
  ASSUME TypeOK, EventsOK, NEW d \in Devices, NEW p \in Packets, p.src = d, NEW t \in Nat,
         NEW X \in SUBSET Completions(d), TransmitStart(d, p, t, events \ X)
  PROVE  /\ events' = (events \ X) \cup {Done(d, p, t), Arrival(d, p, t)}
         /\ Done(d, p, t) \in Events /\ Arrival(d, p, t) \in Events
         /\ Done(d, p, t).ts >= t /\ Arrival(d, p, t).ts >= t
         /\ Completions(d)' = (Completions(d) \ X) \cup {Done(d, p, t)}
         /\ OnWire(d)' = OnWire(d) \cup {Arrival(d, p, t)}
         /\ \A e \in Devices \ {d} : Completions(e)' = Completions(e) /\ OnWire(e)' = OnWire(e)
         /\ EventsOK'
<1>1. p.bytes * m_bps[d] \in Nat
  <2>1. m_bps[d] \in Nat
    BY LinkConstants DEF TypeOK
  <2> QED BY <2>1, PacketFields, TimesAreNat
<1> DEFINE x == p.bytes * m_bps[d]
<1>2. x \in Nat
  BY <1>1
<1>3. /\ events' = (events \ X) \cup {Done(d, p, t), Arrival(d, p, t)}
      /\ uid' = uid + 2
  BY DEF TransmitStart, Done, Arrival
<1>4. /\ Done(d, p, t) = [ts |-> t + x + Gap[d], uid |-> uid, does |-> "TransmitComplete", dev |-> d, pkt |-> None]
      /\ Arrival(d, p, t) = [ts |-> t + x + Delay, uid |-> uid + 1, does |-> "Receive", dev |-> Peer(d), pkt |-> p]
  BY DEF Done, Arrival
<1> HIDE DEF x
<1>5. Gap[d] \in Nat /\ Delay \in Nat /\ uid \in Nat
  BY LinkConstants DEF TypeOK
<1>6. /\ Done(d, p, t) \in Events /\ Arrival(d, p, t) \in Events
      /\ Done(d, p, t).ts >= t /\ Arrival(d, p, t).ts >= t
  BY <1>2, <1>4, <1>5, PeerIsOther DEF Events
<1>7. Completions(d)' = (Completions(d) \ X) \cup {Done(d, p, t)}
  BY <1>3, <1>4 DEF Completions
<1>8. OnWire(d)' = OnWire(d) \cup {Arrival(d, p, t)}
  BY <1>3, <1>4 DEF OnWire, Completions
<1>9. \A e \in Devices \ {d} : Completions(e)' = Completions(e) /\ OnWire(e)' = OnWire(e)
  BY <1>3, <1>4 DEF OnWire, Completions
<1>10. EventsOK'
  <2>1. \A e \in events : e.uid # uid /\ e.uid # uid + 1
    BY <1>5 DEF TypeOK, Events
  <2>2. \A e, f \in events' : e.uid = f.uid => e = f
    BY <1>3, <1>4, <1>5, <2>1 DEF EventsOK
  <2> QED BY <1>3, <1>4, <2>2 DEF EventsOK
<1> QED BY <1>3, <1>6, <1>7, <1>8, <1>9, <1>10

-----------------------------------------------------------------------------
(* The kinds of steps: a quiet one, a reception, the end of a              *)
(* transmission, and the beginning of one, from Send or TransmitComplete.  *)

\* The members of another device
Others(d) == \A e \in Devices \ {d} :
  /\ m_txMachineState'[e] = m_txMachineState[e] /\ m_currentPkt'[e] = m_currentPkt[e]
  /\ m_queue'[e] = m_queue[e] /\ accepted'[e] = accepted[e] /\ arrived'[e] = arrived[e]

Quiet ==
  /\ UNCHANGED <<events, m_txMachineState, m_currentPkt, arrived, stripped>>
  /\ now' \in Nat /\ now' >= now
  /\ \A d \in Devices :
       /\ accepted'[d] = accepted[d]
       /\ m_queue'[d].m_packets = m_queue[d].m_packets
       /\ m_queue'[d].m_nPackets = m_queue[d].m_nPackets

LEMMA QuietStep ==
  ASSUME LInv, Quiet
  PROVE  EventsOK' /\ OneTransmission' /\ (\A d \in Devices : Books(d) /\ Paced(d) /\ Held(d))' /\ Stripped'
<1>1. EventsOK'
  BY DEF LInv, EventsOK, Quiet
<1>2. \A d \in Devices : OnWire(d)' = OnWire(d) /\ Completions(d)' = Completions(d)
  BY DEF Quiet, OnWire, Completions
<1>3. OneTransmission'
  BY <1>2 DEF Quiet, LInv, OneTransmission
<1>4. ASSUME NEW d \in Devices PROVE Books(d)'
  <2>1. /\ accepted'[d] = accepted[d] /\ arrived' = arrived
        /\ m_queue'[d].m_packets = m_queue[d].m_packets
        /\ m_queue'[d].m_nPackets = m_queue[d].m_nPackets
    BY DEF Quiet
  <2>2. Books(d)
    BY DEF LInv
  <2> QED BY <1>2, <2>1, <2>2 DEF Books, Numbered, Queued, UnderWay, NoneMissing
<1>5. ASSUME NEW d \in Devices PROVE Paced(d)'
  <2>1. \A ev \in OnWire(d) : ev.ts \in Nat
    BY DEF LInv, TypeOK, OnWire, Events
  <2>2. now \in Nat /\ Gap[d] \in Nat /\ Delay \in Nat
    BY LinkConstants DEF LInv, TypeOK
  <2>3. now' \in Nat /\ now' >= now /\ m_txMachineState' = m_txMachineState
    BY DEF Quiet
  <2> QED BY <1>2, <2>1, <2>2, <2>3 DEF LInv, Paced
<1>6. \A d \in Devices : Held(d)'
  BY <1>2 DEF Quiet, LInv, Held
<1>7. Stripped'
  BY DEF Quiet, LInv, Stripped
<1> QED BY <1>1, <1>3, <1>4, <1>5, <1>6, <1>7

\* A transmission begins: d has no completion left to come, and the packet
\* has the next number.
LEMMA StartStep ==
  ASSUME LInv, NEW d \in Devices, NEW p \in Packets, p.src = d, NEW t \in Nat, t >= now,
         TransmitStart(d, p, t, events \ Completions(d)),
         now' = t, Others(d), UNCHANGED <<arrived, stripped>>,
         \A ev \in OnWire(d) : ev.pkt.no < p.no /\ ev.ts + Gap[d] <= t + Delay
  PROVE  EventsOK' /\ OneTransmission' /\ (\A e \in Devices : Paced(e) /\ Held(e))' /\ Stripped'
<1> DEFINE c == Done(d, p, t)
           r == Arrival(d, p, t)
           x == p.bytes * m_bps[d]
<1>1. /\ Completions(d)' = {c} /\ OnWire(d)' = OnWire(d) \cup {r}
      /\ \A e \in Devices \ {d} : Completions(e)' = Completions(e) /\ OnWire(e)' = OnWire(e)
      /\ EventsOK'
  <2>1. Completions(d) \in SUBSET Completions(d)
    OBVIOUS
  <2>2. /\ Completions(d)' = (Completions(d) \ Completions(d)) \cup {c} /\ OnWire(d)' = OnWire(d) \cup {r}
        /\ \A e \in Devices \ {d} : Completions(e)' = Completions(e) /\ OnWire(e)' = OnWire(e)
        /\ EventsOK'
    BY <2>1, Starting DEF LInv
  <2> QED BY <2>2
<1>2. /\ m_txMachineState'[d] = "BUSY" /\ m_currentPkt'[d] = p
  BY DEF TransmitStart, LInv, TypeOK
<1>3. p # None
  BY PacketFields
<1>4. /\ c.ts = t + x + Gap[d] /\ r.ts = t + x + Delay /\ c.uid = uid /\ r.uid = uid + 1
      /\ r.pkt = p
  BY DEF Done, Arrival
<1>5. m_bps[d] \in ByteTimes /\ x \in Nat
  <2>1. m_bps[d] \in ByteTimes /\ m_bps[d] \in Nat
    BY LinkConstants DEF LInv, TypeOK
  <2> QED BY <2>1, PacketFields, TimesAreNat
<1> HIDE DEF c, r
<1>6. Gap[d] \in Nat /\ Delay \in Nat /\ uid \in Nat
  BY LinkConstants DEF LInv, TypeOK
<1>7. \A ev \in OnWire(d) : ev.ts \in Nat /\ ev.uid \in Nat /\ ev.uid < uid /\ ev.pkt.no < p.no
  BY DEF LInv, TypeOK, OnWire, Events
<1>8. OneTransmission'
  <2>1. /\ m_txMachineState'[d] = "BUSY" <=> m_currentPkt'[d] # None
        /\ m_txMachineState'[d] = "BUSY" <=> Completions(d)' # {}
        /\ \A ev, ew \in Completions(d)' : ev = ew
    BY <1>1, <1>2, <1>3
  <2>2. ASSUME NEW e \in Devices, e # d
        PROVE  /\ m_txMachineState'[e] = "BUSY" <=> m_currentPkt'[e] # None
               /\ m_txMachineState'[e] = "BUSY" <=> Completions(e)' # {}
               /\ \A ev, ew \in Completions(e)' : ev = ew
               /\ m_queue'[e].m_packets # <<>> => m_txMachineState'[e] = "BUSY"
    <3>1. /\ Completions(e)' = Completions(e)
          /\ m_txMachineState'[e] = m_txMachineState[e] /\ m_currentPkt'[e] = m_currentPkt[e]
          /\ m_queue'[e] = m_queue[e]
      BY <1>1, <2>2 DEF Others
    <3> QED BY <3>1 DEF LInv, OneTransmission
  <2> QED BY <1>2, <2>1, <2>2 DEF OneTransmission
<1>9. ASSUME NEW e \in Devices PROVE Paced(e)'
  <2>1. CASE e = d
    <3>1. p.no \in Nat
      BY PacketFields
    <3>1a. \A ev \in OnWire(d) : ev.pkt.no \in Nat
      BY PacketFields DEF LInv, EventsOK, OnWire
    <3>2. \A ev, ew \in OnWire(d)' : ev.pkt.no = ew.pkt.no => ev = ew
      BY <1>1, <1>4, <1>7, <3>1, <3>1a DEF LInv, Paced
    <3>3. ASSUME NEW ev \in OnWire(d)', NEW ew \in OnWire(d)', ev.pkt.no < ew.pkt.no
          PROVE  ev.uid < ew.uid /\ \E b \in ByteTimes : ew.ts >= ev.ts + Gap[d] + ew.pkt.bytes * b
      <4>1. CASE ev \in OnWire(d) /\ ew \in OnWire(d)
        BY <3>3, <4>1 DEF LInv, Paced
      <4>2. CASE ev = r
        BY <1>1, <1>4, <1>7, <3>1, <3>1a, <3>3, <4>2
      <4>3. CASE ew = r /\ ev \in OnWire(d)
        <5>1. ev.ts + Gap[d] <= t + Delay /\ ev.ts \in Nat
          BY <4>3, <1>7
        <5>2. ew.ts >= ev.ts + Gap[d] + x
          BY <5>1, <1>4, <1>5, <1>6, <4>3
        <5>3. ew.pkt.bytes * m_bps[d] = x
          BY <1>4, <4>3
        <5> QED BY <1>4, <1>5, <1>6, <1>7, <4>3, <5>2, <5>3
      <4> QED BY <1>1, <4>1, <4>2, <4>3
    <3>4. \A ev \in OnWire(d)' : ev.ts + Gap[d] <= c.ts + Delay
      BY <1>1, <1>4, <1>5, <1>6, <1>7
    <3> QED BY <1>1, <1>2, <2>1, <3>2, <3>3, <3>4 DEF Paced
  <2>2. CASE e # d
    <3>1. \A ev \in OnWire(e) : ev.ts \in Nat
      BY DEF LInv, TypeOK, OnWire, Events
    <3>2. now \in Nat /\ Gap[e] \in Nat
      BY LinkConstants DEF LInv, TypeOK
    <3> QED BY <1>1, <1>6, <2>2, <3>1, <3>2 DEF LInv, Paced, Others
  <2> QED BY <2>1, <2>2
<1>10. ASSUME NEW e \in Devices PROVE Held(e)'
  <2>1. CASE e = d
    BY <1>1, <1>2, <1>4, <1>5, <1>6, <2>1 DEF Held, Before
  <2>2. CASE e # d
    BY <1>1, <2>2 DEF LInv, Held, Others
  <2> QED BY <2>1, <2>2
<1>11. Stripped'
  BY DEF LInv, Stripped
<1> QED BY <1>1, <1>8, <1>9, <1>10, <1>11

-----------------------------------------------------------------------------
(* The books through each kind of step                                     *)

\* Lengths and members of d's three sequences
LEMMA SequenceTypes ==
  ASSUME LInv, NEW d \in Devices
  PROVE  /\ accepted[d] \in Seq(Packets) /\ Len(accepted[d]) \in Nat
         /\ arrived[d] \in Seq(Packets) /\ Len(arrived[d]) \in Nat
         /\ m_queue[d] \in Queues
         /\ m_queue[d].m_packets \in Seq(Packets) /\ Len(m_queue[d].m_packets) \in Nat
         /\ \A ev \in OnWire(d) : ev \in Events /\ ev.pkt \in Packets /\ ev.pkt.no \in Nat
<1>1. /\ accepted[d] \in Seq(Packets) /\ arrived[d] \in Seq(Packets) /\ m_queue[d] \in Queues
  BY DEF LInv, TypeOK
<1>2. m_queue[d].m_packets \in Seq(Packets)
  BY <1>1 DEF Queues
<1>3. \A ev \in OnWire(d) : ev \in Events /\ ev.pkt \in Packets
  BY DEF LInv, TypeOK, EventsOK, OnWire
<1>4. \A ev \in OnWire(d) : ev.pkt.no \in Nat
  BY <1>3, PacketFields
<1> QED BY <1>1, <1>2, <1>3, <1>4

LEMMA OtherBooks ==
  ASSUME LInv, NEW d \in Devices, Others(d), NEW e \in Devices, e # d, OnWire(e)' = OnWire(e)
  PROVE  Books(e)'
<1>1. /\ accepted'[e] = accepted[e] /\ arrived'[e] = arrived[e] /\ m_queue'[e] = m_queue[e]
  BY DEF Others
<1>2. Books(e)
  BY DEF LInv
<1> QED BY <1>1, <1>2 DEF Books, Numbered, Queued, UnderWay, NoneMissing

\* Send of an idle device: its queue stays empty
LEMMA SendReadyBooks ==
  ASSUME LInv, NEW d \in Devices, NEW p \in Packets, p.src = d, p.no = Len(accepted[d]) + 1,
         m_queue[d].m_packets = <<>>, m_queue'[d].m_packets = <<>>, m_queue'[d].m_nPackets = 0,
         accepted'[d] = Append(accepted[d], p), arrived'[d] = arrived[d],
         NEW r, r.pkt = p, r.dev = Peer(d), OnWire(d)' = OnWire(d) \cup {r}
  PROVE  Books(d)'
<1>1. PICK A \in Nat, R \in Nat : A = Len(accepted[d]) /\ R = Len(arrived[d])
  BY SequenceTypes
<1>2. /\ accepted[d] \in Seq(Packets) /\ Len(m_queue[d].m_packets) = 0
      /\ \A ev \in OnWire(d) : ev.pkt.no \in Nat
  BY SequenceTypes
<1>3. /\ Len(accepted'[d]) = A + 1 /\ accepted'[d][A + 1] = p
      /\ \A i \in 1 .. A : accepted'[d][i] = accepted[d][i]
  BY <1>1, <1>2
<1>4. Books(d)
  BY DEF LInv
<1>5. /\ R <= A
      /\ \A i \in 1 .. A : accepted[d][i].no = i /\ accepted[d][i].src = d
      /\ \A ev \in OnWire(d) :
           /\ ev.pkt.no > R /\ ev.pkt.no <= A
           /\ ev.pkt = accepted[d][ev.pkt.no]
           /\ ev.dev = Peer(d)
      /\ \A n \in 1 .. A : R < n => \E ev \in OnWire(d) : ev.pkt.no = n
  BY <1>1, <1>2, <1>4 DEF Books, Numbered, Queued, UnderWay, NoneMissing
<1>6. ASSUME NEW ev \in OnWire(d)'
      PROVE  /\ ev.pkt.no > R /\ ev.pkt.no <= A + 1
             /\ ev.pkt = accepted'[d][ev.pkt.no]
             /\ ev.dev = Peer(d)
  <2>1. CASE ev = r
    BY <1>1, <1>3, <1>5, <2>1
  <2>2. CASE ev \in OnWire(d)
    <3>1. ev.pkt.no \in 1 .. A
      BY <1>2, <1>5, <2>2
    <3> QED BY <1>3, <1>5, <2>2, <3>1
  <2> QED BY <2>1, <2>2
<1>7. ASSUME NEW n \in 1 .. A + 1, R < n PROVE \E ev \in OnWire(d)' : ev.pkt.no = n
  <2>1. CASE n = A + 1
    BY <1>1, <2>1
  <2>2. CASE n \in 1 .. A
    BY <1>5, <1>7, <2>2
  <2> QED BY <2>1, <2>2
<1>8. \A i \in 1 .. A + 1 : accepted'[d][i].no = i /\ accepted'[d][i].src = d
  BY <1>1, <1>3, <1>5
<1>9. Len(m_queue'[d].m_packets) = 0 /\ Len(arrived'[d]) = R
  BY <1>1
<1>10. A + 1 \in Nat /\ 0 \in Nat /\ R + 0 <= A + 1 /\ (A + 1) - 0 = A + 1
  BY <1>5
<1>11. \A n \in 1 .. A + 1 : R < n /\ n <= (A + 1) - 0 => \E ev \in OnWire(d)' : ev.pkt.no = n
  BY <1>7
<1>12. \A ev \in OnWire(d)' :
         /\ ev.pkt.no > R /\ ev.pkt.no <= (A + 1) - 0
         /\ ev.pkt = accepted'[d][ev.pkt.no]
         /\ ev.dev = Peer(d)
  BY <1>6, <1>10
<1>13. Numbered(d)'
  BY <1>3, <1>8 DEF Numbered
<1>14. Queued(d)'
  BY <1>9 DEF Queued
<1>15. UnderWay(d)'
  BY <1>3, <1>9, <1>12 DEF UnderWay
<1>16. NoneMissing(d)'
  BY <1>3, <1>9, <1>10, <1>11 DEF NoneMissing
<1> QED BY <1>13, <1>14, <1>15, <1>16 DEF Books

\* Send of a busy device
LEMMA SendBusyBooks ==
  ASSUME LInv, NEW d \in Devices, NEW p \in Packets, p.src = d, p.no = Len(accepted[d]) + 1,
         m_queue'[d].m_packets = Append(m_queue[d].m_packets, p),
         m_queue'[d].m_nPackets = m_queue[d].m_nPackets + 1,
         accepted'[d] = Append(accepted[d], p), arrived'[d] = arrived[d],
         OnWire(d)' = OnWire(d)
  PROVE  Books(d)'
<1>1. PICK A \in Nat, R \in Nat, Q \in Nat :
        A = Len(accepted[d]) /\ R = Len(arrived[d]) /\ Q = Len(m_queue[d].m_packets)
  BY SequenceTypes
<1>2. /\ accepted[d] \in Seq(Packets) /\ m_queue[d].m_packets \in Seq(Packets)
      /\ \A ev \in OnWire(d) : ev.pkt.no \in Nat
  BY SequenceTypes
<1>3. /\ Len(accepted'[d]) = A + 1 /\ accepted'[d][A + 1] = p
      /\ \A i \in 1 .. A : accepted'[d][i] = accepted[d][i]
      /\ Len(m_queue'[d].m_packets) = Q + 1 /\ m_queue'[d].m_packets[Q + 1] = p
      /\ \A i \in 1 .. Q : m_queue'[d].m_packets[i] = m_queue[d].m_packets[i]
  BY <1>1, <1>2
<1>4. Books(d)
  BY DEF LInv
<1>5. /\ R + Q <= A /\ m_queue[d].m_nPackets = Q
      /\ \A i \in 1 .. A : accepted[d][i].no = i /\ accepted[d][i].src = d
      /\ \A i \in 1 .. Q :
           /\ m_queue[d].m_packets[i].no = A - Q + i
           /\ m_queue[d].m_packets[i] = accepted[d][m_queue[d].m_packets[i].no]
      /\ \A ev \in OnWire(d) :
           /\ ev.pkt.no > R /\ ev.pkt.no <= A - Q
           /\ ev.pkt = accepted[d][ev.pkt.no]
           /\ ev.dev = Peer(d)
      /\ \A n \in 1 .. A : R < n /\ n <= A - Q => \E ev \in OnWire(d) : ev.pkt.no = n
  BY <1>1, <1>4 DEF Books, Numbered, Queued, UnderWay, NoneMissing
<1>6. ASSUME NEW i \in 1 .. Q + 1
      PROVE  /\ m_queue'[d].m_packets[i].no = (A + 1) - (Q + 1) + i
             /\ m_queue'[d].m_packets[i] = accepted'[d][m_queue'[d].m_packets[i].no]
  <2>1. CASE i = Q + 1
    <3>1. m_queue'[d].m_packets[i] = p
      BY <1>3, <2>1
    <3>2. p.no = A + 1 /\ accepted'[d][A + 1] = p
      BY <1>1, <1>3
    <3>3. (A + 1) - (Q + 1) + i = A + 1
      BY <2>1
    <3> QED BY <3>1, <3>2, <3>3
  <2>2. CASE i \in 1 .. Q
    <3>1. /\ m_queue'[d].m_packets[i] = m_queue[d].m_packets[i]
          /\ m_queue[d].m_packets[i].no = A - Q + i
          /\ m_queue[d].m_packets[i] = accepted[d][m_queue[d].m_packets[i].no]
      BY <1>3, <1>5, <2>2
    <3>2. A - Q + i \in 1 .. A /\ (A + 1) - (Q + 1) + i = A - Q + i
      BY <1>5, <2>2
    <3> QED BY <1>3, <3>1, <3>2
  <2>3. i = Q + 1 \/ i \in 1 .. Q
    OBVIOUS
  <2> QED BY <2>1, <2>2, <2>3
<1>7. \A i \in 1 .. A + 1 : accepted'[d][i].no = i /\ accepted'[d][i].src = d
  BY <1>1, <1>3, <1>5
<1>8. ASSUME NEW n \in 1 .. A + 1, R < n, n <= (A + 1) - (Q + 1)
      PROVE  \E ev \in OnWire(d)' : ev.pkt.no = n
  <2>1. n \in 1 .. A /\ n <= A - Q
    BY <1>8
  <2> QED BY <1>5, <1>8, <2>1
<1>9. ASSUME NEW ev \in OnWire(d)'
      PROVE  /\ ev.pkt.no > R /\ ev.pkt.no <= (A + 1) - (Q + 1)
             /\ ev.pkt = accepted'[d][ev.pkt.no]
             /\ ev.dev = Peer(d)
  <2>1. ev.pkt.no \in 1 .. A
    BY <1>2, <1>5
  <2> QED BY <1>2, <1>3, <1>5, <2>1
<1>10. Len(arrived'[d]) = R /\ m_queue'[d].m_nPackets = Q + 1 /\ R + (Q + 1) <= A + 1
  <2>1. Len(arrived'[d]) = R
    BY <1>1
  <2>2. m_queue'[d].m_nPackets = Q + 1
    BY <1>5
  <2>3. R + (Q + 1) <= A + 1
    BY <1>5
  <2> QED BY <2>1, <2>2, <2>3
<1>11. Numbered(d)'
  BY <1>3, <1>7 DEF Numbered
<1>12. Queued(d)'
  BY <1>3, <1>6, <1>10 DEF Queued
<1>13. UnderWay(d)'
  BY <1>3, <1>9, <1>10 DEF UnderWay
<1>14. NoneMissing(d)'
  BY <1>3, <1>8, <1>10 DEF NoneMissing
<1> QED BY <1>11, <1>12, <1>13, <1>14 DEF Books

\* The packet at the head of the queue comes after all those on the wire
LEMMA HeadFollows ==
  ASSUME LInv, NEW d \in Devices, m_queue[d].m_packets # <<>>
  PROVE  /\ m_queue[d].m_packets[1].src = d
         /\ \A ev \in OnWire(d) : ev.pkt.no < m_queue[d].m_packets[1].no
<1>1. PICK A \in Nat, R \in Nat, Q \in Nat :
        A = Len(accepted[d]) /\ R = Len(arrived[d]) /\ Q = Len(m_queue[d].m_packets)
  BY SequenceTypes
<1>2. /\ Q >= 1 /\ \A ev \in OnWire(d) : ev.pkt.no \in Nat
  BY <1>1, SequenceTypes
<1>3. Numbered(d) /\ Queued(d) /\ UnderWay(d) /\ NoneMissing(d)
  BY DEF LInv, Books
<1>4. R + Q <= A /\ \A ev \in OnWire(d) : ev.pkt.no <= A - Q
  BY <1>1, <1>3 DEF UnderWay, NoneMissing
<1>5. 1 \in 1 .. Q /\ A - Q + 1 \in 1 .. A
  BY <1>2, <1>4
<1>6. /\ m_queue[d].m_packets[1].no = A - Q + 1
      /\ m_queue[d].m_packets[1] = accepted[d][A - Q + 1]
  BY <1>1, <1>3, <1>5 DEF Queued
<1>7. accepted[d][A - Q + 1].src = d
  BY <1>1, <1>3, <1>5 DEF Numbered
<1>8. ASSUME NEW ev \in OnWire(d) PROVE ev.pkt.no < A - Q + 1
  BY <1>2, <1>4
<1> QED BY <1>6, <1>7, <1>8

\* The next packet leaves the queue for the wire
LEMMA NextBooks ==
  ASSUME LInv, NEW d \in Devices, NEW p \in Packets, m_queue[d].m_packets # <<>>,
         p = m_queue[d].m_packets[1],
         m_queue'[d].m_packets = Tail(m_queue[d].m_packets),
         m_queue'[d].m_nPackets = m_queue[d].m_nPackets - 1,
         accepted'[d] = accepted[d], arrived'[d] = arrived[d],
         NEW r, r.pkt = p, r.dev = Peer(d), OnWire(d)' = OnWire(d) \cup {r}
  PROVE  Books(d)'
<1>1. PICK A \in Nat, R \in Nat, Q \in Nat :
        A = Len(accepted[d]) /\ R = Len(arrived[d]) /\ Q = Len(m_queue[d].m_packets)
  BY SequenceTypes
<1>2. /\ accepted[d] \in Seq(Packets) /\ m_queue[d].m_packets \in Seq(Packets)
      /\ \A ev \in OnWire(d) : ev.pkt.no \in Nat
  BY SequenceTypes
<1>3. /\ Q >= 1 /\ Len(m_queue'[d].m_packets) = Q - 1
      /\ \A i \in 1 .. Q - 1 : m_queue'[d].m_packets[i] = m_queue[d].m_packets[i + 1]
  BY <1>1, <1>2
<1>4. Books(d)
  BY DEF LInv
<1>5. /\ R + Q <= A /\ m_queue[d].m_nPackets = Q
      /\ \A i \in 1 .. A : accepted[d][i].no = i /\ accepted[d][i].src = d
      /\ \A i \in 1 .. Q :
           /\ m_queue[d].m_packets[i].no = A - Q + i
           /\ m_queue[d].m_packets[i] = accepted[d][m_queue[d].m_packets[i].no]
      /\ \A ev \in OnWire(d) :
           /\ ev.pkt.no > R /\ ev.pkt.no <= A - Q
           /\ ev.pkt = accepted[d][ev.pkt.no]
           /\ ev.dev = Peer(d)
      /\ \A n \in 1 .. A : R < n /\ n <= A - Q => \E ev \in OnWire(d) : ev.pkt.no = n
  BY <1>1, <1>4 DEF Books, Numbered, Queued, UnderWay, NoneMissing
<1>6. 1 \in 1 .. Q /\ A - Q + 1 \in 1 .. A
  BY <1>3, <1>5
<1>7. p.no = A - Q + 1 /\ p = accepted[d][p.no]
  BY <1>5, <1>6
<1>8. ASSUME NEW i \in 1 .. Q - 1
      PROVE  /\ m_queue'[d].m_packets[i].no = A - (Q - 1) + i
             /\ m_queue'[d].m_packets[i] = accepted'[d][m_queue'[d].m_packets[i].no]
  <2>1. i + 1 \in 1 .. Q /\ A - (Q - 1) + i = A - Q + (i + 1)
    BY ShiftedPlace
  <2>2. m_queue'[d].m_packets[i] = m_queue[d].m_packets[i + 1]
    BY <1>3
  <2>3. /\ m_queue[d].m_packets[i + 1].no = A - Q + (i + 1)
        /\ m_queue[d].m_packets[i + 1] = accepted[d][m_queue[d].m_packets[i + 1].no]
    BY <1>5, <2>1
  <2> QED BY <2>1, <2>2, <2>3
<1>9. ASSUME NEW ev \in OnWire(d)'
      PROVE  /\ ev.pkt.no > R /\ ev.pkt.no <= A - (Q - 1)
             /\ ev.pkt = accepted'[d][ev.pkt.no]
             /\ ev.dev = Peer(d)
  <2>1. CASE ev = r
    BY <1>5, <1>7, <2>1
  <2>2. CASE ev \in OnWire(d)
    BY <1>2, <1>5, <2>2
  <2> QED BY <2>1, <2>2
<1>10. ASSUME NEW n \in 1 .. A, R < n, n <= A - (Q - 1)
       PROVE  \E ev \in OnWire(d)' : ev.pkt.no = n
  <2>1. CASE n = A - Q + 1
    BY <1>7, <2>1
  <2>2. CASE n <= A - Q
    BY <1>5, <1>10, <2>2
  <2>3. n = A - Q + 1 \/ n <= A - Q
    BY <1>10
  <2> QED BY <2>1, <2>2, <2>3
<1>11. Q - 1 \in Nat /\ R + (Q - 1) <= A /\ m_queue'[d].m_nPackets = Q - 1
  BY <1>3, <1>5
<1>12. Len(accepted'[d]) = A /\ Len(arrived'[d]) = R
  BY <1>1
<1>13. Books(d)'
  <2>1. Numbered(d)'
    BY <1>5, <1>12 DEF Numbered
  <2>2. Queued(d)'
    BY <1>3, <1>8, <1>11, <1>12 DEF Queued
  <2>3. UnderWay(d)'
    BY <1>3, <1>9, <1>12 DEF UnderWay
  <2>4. NoneMissing(d)'
    BY <1>3, <1>10, <1>11, <1>12 DEF NoneMissing
  <2> QED BY <2>1, <2>2, <2>3, <2>4 DEF Books
<1> QED BY <1>13

\* The next event is the arrival of the packet after the last one
LEMMA FirstArrives ==
  ASSUME LInv, NEW d \in Devices, NEW ev \in OnWire(d), IsNext(ev)
  PROVE  ev.pkt.no = Len(arrived[d]) + 1
<1>1. PICK A \in Nat, R \in Nat, Q \in Nat :
        A = Len(accepted[d]) /\ R = Len(arrived[d]) /\ Q = Len(m_queue[d].m_packets)
  BY SequenceTypes
<1>2. \A ew \in OnWire(d) : ew \in Events /\ ew.pkt \in Packets /\ ew.pkt.no \in Nat
  BY SequenceTypes
<1>3. Books(d) /\ Paced(d)
  BY DEF LInv
<1>4. /\ ev.pkt.no > R /\ ev.pkt.no <= A - Q
      /\ \A n \in 1 .. A : R < n /\ n <= A - Q => \E ew \in OnWire(d) : ew.pkt.no = n
  BY <1>1, <1>3 DEF Books, UnderWay, NoneMissing
<1>5. SUFFICES ASSUME ev.pkt.no # R + 1 PROVE FALSE
  BY <1>1
<1>6. R + 1 \in 1 .. A /\ R < R + 1 /\ R + 1 <= A - Q /\ R + 1 < ev.pkt.no
  BY <1>2, <1>4, <1>5
<1>7. PICK ew \in OnWire(d) : ew.pkt.no = R + 1
  BY <1>4, <1>6
<1>8. PICK b \in ByteTimes : ev.ts >= ew.ts + Gap[d] + ev.pkt.bytes * b
  BY <1>3, <1>6, <1>7 DEF Paced
<1>9. ev.pkt.bytes * b \in Nat
  BY <1>2, PacketFields, LinkConstants, TimesAreNat
<1>10. ev.ts \in Nat /\ ew.ts \in Nat /\ Gap[d] \in Nat /\ ev.uid \in Nat /\ ew.uid \in Nat
  BY <1>2, LinkConstants DEF Events
<1> DEFINE x == ev.pkt.bytes * b
<1>11. ev.ts >= ew.ts + Gap[d] + x /\ x \in Nat
  BY <1>8, <1>9
<1> HIDE DEF x
<1>12. ev.ts >= ew.ts
  BY <1>10, <1>11
<1>13. ew.uid < ev.uid
  BY <1>3, <1>6, <1>7 DEF Paced
<1>14. ew \in events /\ ew # ev
  BY <1>6, <1>7 DEF OnWire
<1>15. Before(ev, ew)
  BY <1>14 DEF IsNext
<1> QED BY <1>10, <1>12, <1>13, <1>15 DEF Before

\* A packet arrives
LEMMA ReceiveBooks ==
  ASSUME LInv, NEW d \in Devices, NEW ev \in OnWire(d), IsNext(ev),
         m_queue' = m_queue, accepted' = accepted, arrived'[d] = Append(arrived[d], ev.pkt),
         OnWire(d)' = OnWire(d) \ {ev}
  PROVE  Books(d)' /\ ev.pkt = accepted[d][Len(arrived[d]) + 1] /\ Len(arrived[d]) < Len(accepted[d])
<1>1. PICK A \in Nat, R \in Nat, Q \in Nat :
        A = Len(accepted[d]) /\ R = Len(arrived[d]) /\ Q = Len(m_queue[d].m_packets)
  BY SequenceTypes
<1>2. arrived[d] \in Seq(Packets) /\ \A ew \in OnWire(d) : ew.pkt \in Packets /\ ew.pkt.no \in Nat
  BY SequenceTypes
<1>3. Books(d) /\ Paced(d)
  BY DEF LInv
<1>4. ev.pkt.no = R + 1
  BY <1>1, FirstArrives
<1>5. \A ew \in OnWire(d) :
        /\ ew.pkt.no > R /\ ew.pkt.no <= A - Q
        /\ ew.pkt = accepted[d][ew.pkt.no]
        /\ ew.dev = Peer(d)
  BY <1>1, <1>3 DEF Books, UnderWay
<1>6. R + Q <= A /\ \A n \in 1 .. A : R < n /\ n <= A - Q => \E ew \in OnWire(d) : ew.pkt.no = n
  BY <1>1, <1>3 DEF Books, NoneMissing
<1>7. Len(arrived'[d]) = R + 1
  BY <1>1, <1>2
<1>8. R + 1 <= A - Q
  BY <1>4, <1>5
<1>9. \A ew \in OnWire(d) : ew # ev => ew.pkt.no # R + 1
  BY <1>3, <1>4 DEF Paced
<1>10. Numbered(d)' /\ Queued(d)'
  BY <1>3 DEF Books, Numbered, Queued
<1>11. UnderWay(d)'
  <2>1. ASSUME NEW ew \in OnWire(d)'
        PROVE  /\ ew.pkt.no > R + 1 /\ ew.pkt.no <= A - Q
               /\ ew.pkt = accepted[d][ew.pkt.no]
               /\ ew.dev = Peer(d)
    BY <1>2, <1>5, <1>9
  <2> QED BY <1>1, <1>7, <2>1 DEF UnderWay
<1>12. NoneMissing(d)'
  <2>1. ASSUME NEW n \in 1 .. A, R + 1 < n, n <= A - Q
        PROVE  \E ew \in OnWire(d)' : ew.pkt.no = n
    <3>1. PICK ew \in OnWire(d) : ew.pkt.no = n
      BY <1>6, <2>1
    <3>2. ew # ev
      BY <1>4, <2>1, <3>1
    <3>3. ew \in OnWire(d)'
      BY <3>2
    <3> QED BY <3>1, <3>3
  <2>2. Len(accepted'[d]) = A /\ Len(m_queue'[d].m_packets) = Q
    BY <1>1
  <2>3. (R + 1) + Q <= A
    BY <1>8
  <2>4. \A n \in 1 .. Len(accepted'[d]) :
          Len(arrived'[d]) < n /\ n <= Len(accepted'[d]) - Len(m_queue'[d].m_packets)
            => \E ew \in OnWire(d)' : ew.pkt.no = n
    BY <1>7, <2>1, <2>2
  <2>5. Len(arrived'[d]) + Len(m_queue'[d].m_packets) <= Len(accepted'[d])
    BY <1>7, <2>2, <2>3
  <2> QED BY <2>4, <2>5 DEF NoneMissing
<1>13. Books(d)'
  BY <1>10, <1>11, <1>12 DEF Books
<1>14. ev.pkt = accepted[d][R + 1] /\ R < A
  BY <1>4, <1>5, <1>8
<1> QED BY <1>1, <1>13, <1>14

-----------------------------------------------------------------------------
(* Every action keeps the invariant                                        *)

LEMMA NextTime ==
  ASSUME TypeOK, NEW ev \in events, IsNext(ev)
  PROVE  /\ ev \in Events /\ ev.ts \in Nat /\ ev.ts >= now
         /\ \A f \in events : f.ts >= ev.ts
<1>1. \A f \in events : f \in Events /\ f.ts \in Nat /\ f.ts >= now
  BY DEF TypeOK, Events
<1> QED BY <1>1 DEF IsNext, Before

\* Calls that leave packets and events alone
LEMMA QuietInv == ASSUME LInv, Quiet, TypeOK' PROVE LInv'
BY QuietStep DEF LInv

LEMMA AttachInv ==
  ASSUME LInv, NEW d \in Devices, Attach(d)
  PROVE  LInv'
<1>1. TypeOK'
  BY DEF LInv, TypeOK, Attach, simVars, devVars, logVars
<1>2. Quiet
  BY DEF LInv, TypeOK, Attach, Quiet, simVars, devVars, logVars
<1> QED BY <1>1, <1>2, QuietInv

LEMMA SetDataRateInv ==
  ASSUME LInv, NEW d \in Devices, SetDataRate(d)
  PROVE  LInv'
<1>1. TypeOK'
  BY DEF LInv, TypeOK, SetDataRate, simVars, devVars, logVars
<1>2. Quiet
  BY DEF LInv, TypeOK, SetDataRate, Quiet, simVars, devVars, logVars
<1> QED BY <1>1, <1>2, QuietInv

LEMMA WaitInv == ASSUME LInv, Wait PROVE LInv'
<1>1. /\ now \in Nat /\ now' = now + 1 /\ \A ev \in events : ev.ts \in Nat /\ now < ev.ts
  BY DEF LInv, TypeOK, Wait, Events
<1>2. \A ev \in events : ev.ts >= now'
  BY <1>1
<1>3. TypeOK'
  BY <1>1, <1>2 DEF LInv, TypeOK, Wait, devVars, confVars, logVars
<1>4. Quiet
  BY <1>1 DEF Wait, Quiet, devVars, confVars, logVars
<1> QED BY <1>3, <1>4, QuietInv

LEMMA StutterInv == ASSUME LInv, UNCHANGED vars PROVE LInv'
<1>1. TypeOK'
  BY DEF LInv, TypeOK, vars, simVars, confVars, devVars, logVars
<1>2. Quiet
  BY DEF LInv, TypeOK, Quiet, vars, simVars, confVars, devVars, logVars
<1> QED BY <1>1, <1>2, QuietInv

\* What Send leaves alone whatever it finds
SendFrame == UNCHANGED <<now, confVars, stripped, arrived>>

LEMMA SendDownInv ==
  ASSUME LInv, NEW d \in Devices, NEW p \in Packets, SendDown(d, p), SendFrame
  PROVE  LInv'
<1>1. unlinked' \in [Devices -> Nat] /\ macTxDrop' \in [Devices -> Nat]
  BY DEF LInv, TypeOK, SendDown
<1>2. TypeOK'
  BY <1>1 DEF LInv, TypeOK, SendDown, SendFrame, confVars, devVars
<1>3. Quiet
  BY DEF LInv, TypeOK, Quiet, SendDown, SendFrame, confVars, devVars
<1> QED BY <1>2, <1>3, QuietInv

LEMMA SendFullInv ==
  ASSUME LInv, NEW d \in Devices, NEW p \in Packets, SendFull(d, p), SendFrame
  PROVE  LInv'
<1>1. refused' \in [Devices -> Nat] /\ macTxDrop' \in [Devices -> Nat]
  BY DEF LInv, TypeOK, SendFull, Refuse
<1>2. m_queue[d] \in Queues /\ m_queue' = [m_queue EXCEPT ![d] = Drop(m_queue[d])]
  BY DEF LInv, TypeOK, SendFull
<1>3. /\ Drop(m_queue[d]) \in Queues
      /\ Drop(m_queue[d]).m_packets = m_queue[d].m_packets
      /\ Drop(m_queue[d]).m_nPackets = m_queue[d].m_nPackets
  BY <1>2, DropType
<1>4. /\ m_queue' \in [Devices -> Queues]
      /\ \A e \in Devices : /\ m_queue'[e].m_packets = m_queue[e].m_packets
                            /\ m_queue'[e].m_nPackets = m_queue[e].m_nPackets
  BY <1>2, <1>3 DEF LInv, TypeOK
<1>5. TypeOK'
  BY <1>1, <1>4 DEF LInv, TypeOK, SendFull, Refuse, SendFrame, confVars
<1>6. Quiet
  BY <1>4 DEF LInv, TypeOK, Quiet, SendFull, Refuse, SendFrame, confVars
<1> QED BY <1>5, <1>6, QuietInv

LEMMA SendBusyInv ==
  ASSUME LInv, NEW d \in Devices, NEW p \in Packets, p.src = d, p.no = Len(accepted[d]) + 1,
         SendBusy(d, p), SendFrame
  PROVE  LInv'
<1>1. /\ m_queue[d] \in Queues /\ accepted[d] \in Seq(Packets)
      /\ m_queue' = [m_queue EXCEPT ![d] = Enqueue(m_queue[d], p)]
      /\ accepted' = [accepted EXCEPT ![d] = Append(accepted[d], p)]
  BY DEF LInv, TypeOK, SendBusy, Accept
<1>2. /\ Enqueue(m_queue[d], p) \in Queues
      /\ Enqueue(m_queue[d], p).m_packets = Append(m_queue[d].m_packets, p)
      /\ Enqueue(m_queue[d], p).m_nPackets = m_queue[d].m_nPackets + 1
  BY <1>1, EnqueueType
<1>3. /\ m_queue' \in [Devices -> Queues] /\ m_queue'[d] = Enqueue(m_queue[d], p)
      /\ accepted' \in [Devices -> Seq(Packets)] /\ accepted'[d] = Append(accepted[d], p)
      /\ \A e \in Devices \ {d} : m_queue'[e] = m_queue[e] /\ accepted'[e] = accepted[e]
  BY <1>1, <1>2 DEF LInv, TypeOK
<1>4. UNCHANGED <<now, events, uid, m_txMachineState, m_currentPkt, m_link, m_linkUp, m_bps,
                  stripped, arrived, refused, unlinked, macTxDrop>>
  BY DEF SendBusy, Accept, SendFrame, confVars
<1>5. TypeOK'
  BY <1>3, <1>4 DEF LInv, TypeOK
<1>6. \A e \in Devices : Completions(e)' = Completions(e) /\ OnWire(e)' = OnWire(e)
  BY <1>4 DEF Completions, OnWire
<1>7. OneTransmission'
  <2>1. m_txMachineState[d] = "BUSY"
    BY DEF SendBusy
  <2> QED BY <1>3, <1>4, <1>6, <2>1 DEF LInv, OneTransmission
<1>8. \A e \in Devices : Books(e)'
  <2>1. Books(d)'
    BY <1>2, <1>3, <1>4, <1>6, SendBusyBooks
  <2>2. ASSUME NEW e \in Devices, e # d PROVE Books(e)'
    <3>1. Others(d)
      BY <1>3, <1>4 DEF Others
    <3> QED BY <1>6, <2>2, <3>1, OtherBooks
  <2> QED BY <2>1, <2>2
<1>9. \A e \in Devices : Paced(e)' /\ Held(e)'
  BY <1>4, <1>6 DEF LInv, Paced, Held
<1>10. EventsOK' /\ Stripped'
  BY <1>4 DEF LInv, EventsOK, Stripped
<1> QED BY <1>5, <1>7, <1>8, <1>9, <1>10 DEF LInv

\* The types of what TransmitStart assigns
LEMMA StartType ==
  ASSUME LInv, NEW d \in Devices, NEW p \in Packets, p.src = d, NEW t \in Nat,
         NEW X \in SUBSET Completions(d), TransmitStart(d, p, t, events \ X),
         \A ev \in events : ev.ts >= t
  PROVE  /\ events' \subseteq Events
         /\ \A ev \in events' : ev.ts >= t /\ ev.uid < uid'
         /\ uid' \in Nat
         /\ m_txMachineState' \in [Devices -> {"READY", "BUSY"}]
         /\ m_currentPkt' \in [Devices -> Packets \cup {None}]
         /\ \A e \in Devices \ {d} : /\ m_txMachineState'[e] = m_txMachineState[e]
                                     /\ m_currentPkt'[e] = m_currentPkt[e]
<1>1. /\ events' = (events \ X) \cup {Done(d, p, t), Arrival(d, p, t)}
      /\ Done(d, p, t) \in Events /\ Arrival(d, p, t) \in Events
      /\ Done(d, p, t).ts >= t /\ Arrival(d, p, t).ts >= t
  BY Starting DEF LInv
<1>2. uid \in Nat /\ uid' = uid + 2 /\ Done(d, p, t).uid = uid /\ Arrival(d, p, t).uid = uid + 1
  BY DEF LInv, TypeOK, TransmitStart, Done, Arrival
<1>3. \A ev \in events : ev \in Events /\ ev.uid \in Nat /\ ev.uid < uid
  BY DEF LInv, TypeOK, Events
<1>4. /\ m_txMachineState' = [m_txMachineState EXCEPT ![d] = "BUSY"]
      /\ m_currentPkt' = [m_currentPkt EXCEPT ![d] = p]
  BY DEF TransmitStart
<1>5. events' \subseteq Events /\ \A ev \in events' : ev.ts >= t /\ ev.uid < uid'
  BY <1>1, <1>2, <1>3
<1>6. /\ m_txMachineState' \in [Devices -> {"READY", "BUSY"}]
      /\ m_currentPkt' \in [Devices -> Packets \cup {None}]
      /\ \A e \in Devices \ {d} : /\ m_txMachineState'[e] = m_txMachineState[e]
                                  /\ m_currentPkt'[e] = m_currentPkt[e]
  BY <1>4 DEF LInv, TypeOK
<1> QED BY <1>2, <1>5, <1>6

LEMMA StartWire ==
  ASSUME LInv, NEW d \in Devices, NEW p \in Packets, p.src = d, NEW t \in Nat,
         NEW X \in SUBSET Completions(d), TransmitStart(d, p, t, events \ X)
  PROVE  /\ OnWire(d)' = OnWire(d) \cup {Arrival(d, p, t)}
         /\ \A e \in Devices \ {d} : OnWire(e)' = OnWire(e)
BY Starting DEF LInv

LEMMA SendReadyInv ==
  ASSUME LInv, NEW d \in Devices, NEW p \in Packets, p.src = d, p.no = Len(accepted[d]) + 1,
         SendReady(d, p), SendFrame
  PROVE  LInv'
<1> DEFINE q == Enqueue(m_queue[d], p)
<1>1. /\ m_queue[d] \in Queues /\ accepted[d] \in Seq(Packets) /\ m_txMachineState[d] = "READY"
      /\ m_queue' = [m_queue EXCEPT ![d] = Dequeue(q)]
      /\ TransmitStart(d, Peek(q), now, events)
      /\ accepted' = [accepted EXCEPT ![d] = Append(accepted[d], p)]
  BY DEF LInv, TypeOK, SendReady, Accept
<1>2. Completions(d) = {} /\ m_queue[d].m_packets = <<>>
  BY <1>1 DEF LInv, OneTransmission
<1>3. m_queue[d].m_nPackets = 0
  <2>1. Queued(d)
    BY DEF LInv, Books
  <2> QED BY <1>2, <2>1 DEF Queued
<1>4. /\ q \in Queues /\ q.m_packets = Append(<<>>, p) /\ q.m_nPackets = 0 + 1
  BY <1>1, <1>2, <1>3, EnqueueType
<1> HIDE DEF q
<1>5. q.m_packets # <<>> /\ q.m_nPackets = Len(q.m_packets) /\ Tail(q.m_packets) = <<>> /\ q.m_packets[1] = p
  BY <1>4
<1>6. /\ Dequeue(q) \in Queues /\ Dequeue(q).m_packets = <<>> /\ Dequeue(q).m_nPackets = 0
      /\ Peek(q) = p
  <2>1. /\ Dequeue(q) \in Queues /\ Dequeue(q).m_packets = Tail(q.m_packets)
        /\ Dequeue(q).m_nPackets = q.m_nPackets - 1 /\ Peek(q) = q.m_packets[1]
    BY <1>4, <1>5, DequeueType
  <2>2. q.m_nPackets - 1 = 0
    BY <1>4
  <2> QED BY <1>5, <2>1, <2>2
<1>7. TransmitStart(d, p, now, events \ Completions(d))
  BY <1>1, <1>2, <1>6 DEF TransmitStart
<1>8. /\ m_queue' \in [Devices -> Queues] /\ m_queue'[d] = Dequeue(q)
      /\ accepted' \in [Devices -> Seq(Packets)] /\ accepted'[d] = Append(accepted[d], p)
      /\ \A e \in Devices \ {d} : m_queue'[e] = m_queue[e] /\ accepted'[e] = accepted[e]
  BY <1>1, <1>6 DEF LInv, TypeOK
<1>9. UNCHANGED <<now, m_link, m_linkUp, m_bps, stripped, arrived, refused, unlinked, macTxDrop>>
  BY DEF SendReady, Accept, SendFrame, confVars
<1>10. now \in Nat /\ \A ev \in events : ev.ts >= now
  BY DEF LInv, TypeOK
<1>11. Completions(d) \in SUBSET Completions(d)
  OBVIOUS
<1>12. /\ events' \subseteq Events
       /\ \A ev \in events' : ev.ts >= now /\ ev.uid < uid'
       /\ uid' \in Nat
       /\ m_txMachineState' \in [Devices -> {"READY", "BUSY"}]
       /\ m_currentPkt' \in [Devices -> Packets \cup {None}]
       /\ \A e \in Devices \ {d} : /\ m_txMachineState'[e] = m_txMachineState[e]
                                   /\ m_currentPkt'[e] = m_currentPkt[e]
  BY <1>7, <1>10, <1>11, StartType
<1>13. TypeOK'
  BY <1>8, <1>9, <1>12 DEF LInv, TypeOK
<1>14. Others(d)
  BY <1>8, <1>9, <1>12 DEF Others
<1>15. ASSUME NEW ev \in OnWire(d)
       PROVE  ev.pkt.no < p.no /\ ev.ts + Gap[d] <= now + Delay
  <2>1. Books(d) /\ Paced(d) /\ ev.pkt.no \in Nat /\ Len(accepted[d]) \in Nat
    BY SequenceTypes DEF LInv
  <2>2. ev.pkt.no <= Len(accepted[d]) - Len(m_queue[d].m_packets)
    BY <2>1 DEF Books, UnderWay
  <2>3. Len(m_queue[d].m_packets) = 0
    BY <1>2
  <2> QED BY <1>1, <2>1, <2>2, <2>3 DEF Paced
<1>16. EventsOK' /\ OneTransmission' /\ (\A e \in Devices : Paced(e) /\ Held(e))' /\ Stripped'
  BY <1>7, <1>9, <1>10, <1>14, <1>15, StartStep
<1>17. /\ OnWire(d)' = OnWire(d) \cup {Arrival(d, p, now)}
       /\ \A e \in Devices \ {d} : OnWire(e)' = OnWire(e)
  BY <1>7, <1>10, <1>11, StartWire
<1>18. Arrival(d, p, now).pkt = p /\ Arrival(d, p, now).dev = Peer(d)
  BY DEF Arrival
<1>19. Books(d)'
  BY <1>2, <1>6, <1>8, <1>9, <1>17, <1>18, SendReadyBooks
<1>20. \A e \in Devices : Books(e)'
  BY <1>14, <1>17, <1>19, OtherBooks
<1> QED BY <1>13, <1>16, <1>20 DEF LInv

\* The number of the packet Send makes is within bounds
LEMMA SentIsPacket ==
  ASSUME LInv, NEW d \in Devices, Send(d), NEW b \in Sizes
  PROVE  [src |-> d, no |-> Len(accepted[d]) + 1, bytes |-> b] \in Packets
<1>1. Len(accepted[d]) \in Nat /\ Len(accepted[Peer(d)]) \in Nat
  BY SequenceTypes, PeerIsOther
<1> DEFINE Failed(e) == refused[e] + unlinked[e]
<1>2. Failed(d) \in Nat /\ Failed(Peer(d)) \in Nat
  BY PeerIsOther DEF LInv, TypeOK
<1>3. Len(accepted[d]) + Failed(d) + (Len(accepted[Peer(d)]) + Failed(Peer(d))) < MaxSends
  <2>1. /\ refused[d] \in Nat /\ refused[Peer(d)] \in Nat
        /\ unlinked[d] \in Nat /\ unlinked[Peer(d)] \in Nat
    BY PeerIsOther DEF LInv, TypeOK
  <2> QED BY <1>1, <2>1 DEF Send, Given
<1>4. Len(accepted[d]) + 1 \in 1 .. MaxSends
  <2>1. MaxSends \in Nat
    BY LinkConstants
  <2>2. ASSUME NEW k \in Nat, NEW l \in Nat, NEW m \in Nat, NEW n \in Nat, k + l + (m + n) < MaxSends
        PROVE  k + 1 \in 1 .. MaxSends
    BY <2>1, <2>2
  <2> HIDE DEF Failed
  <2> QED BY <1>1, <1>2, <1>3, <2>2
<1> QED BY <1>4 DEF Packets

LEMMA SendInv ==
  ASSUME LInv, NEW d \in Devices, Send(d)
  PROVE  LInv'
<1>1. PICK b \in Sizes :
        LET p == [src |-> d, no |-> Len(accepted[d]) + 1, bytes |-> b]
        IN  SendDown(d, p) \/ SendReady(d, p) \/ SendBusy(d, p) \/ SendFull(d, p)
  BY DEF Send
<1> DEFINE p == [src |-> d, no |-> Len(accepted[d]) + 1, bytes |-> b]
<1>2. p \in Packets /\ p.src = d /\ p.no = Len(accepted[d]) + 1
  BY SentIsPacket
<1>3. SendFrame
  BY DEF Send, SendFrame
<1>4. SendDown(d, p) \/ SendReady(d, p) \/ SendBusy(d, p) \/ SendFull(d, p)
  BY <1>1
<1> HIDE DEF p
<1> QED BY <1>2, <1>3, <1>4, SendDownInv, SendReadyInv, SendBusyInv, SendFullInv

\* The transmitter finds its queue empty
LEMMA TransmitIdleInv ==
  ASSUME LInv, NEW ev \in events, IsNext(ev), now' = ev.ts, TransmitComplete(ev),
         m_queue[ev.dev].m_packets = <<>>
  PROVE  LInv'
<1>1. PICK d \in Devices : d = ev.dev
  BY NextTime DEF LInv, Events
<1>2. /\ ev.does = "TransmitComplete"
      /\ m_txMachineState' = [m_txMachineState EXCEPT ![d] = "READY"]
      /\ m_currentPkt' = [m_currentPkt EXCEPT ![d] = None]
      /\ events' = events \ {ev}
      /\ uid' = uid /\ m_queue' = m_queue
      /\ UNCHANGED <<m_link, m_linkUp, m_bps, stripped, accepted, refused, unlinked, macTxDrop, arrived>>
  BY <1>1 DEF TransmitComplete, confVars, logVars
<1>3. /\ m_txMachineState' \in [Devices -> {"READY", "BUSY"}] /\ m_txMachineState'[d] = "READY"
      /\ m_currentPkt' \in [Devices -> Packets \cup {None}] /\ m_currentPkt'[d] = None
      /\ \A e \in Devices \ {d} : /\ m_txMachineState'[e] = m_txMachineState[e]
                                  /\ m_currentPkt'[e] = m_currentPkt[e]
  BY <1>2 DEF LInv, TypeOK
<1>4. ev.ts \in Nat /\ ev.ts >= now /\ \A f \in events : f.ts >= ev.ts
  BY NextTime DEF LInv
<1>5. TypeOK'
  BY <1>2, <1>3, <1>4 DEF LInv, TypeOK
<1>6. ev \in Completions(d)
  BY <1>1, <1>2 DEF Completions
<1>7. Completions(d) = {ev}
  BY <1>6 DEF LInv, OneTransmission
<1>8. /\ Completions(d)' = {}
      /\ \A e \in Devices : OnWire(e)' = OnWire(e)
      /\ \A e \in Devices \ {d} : Completions(e)' = Completions(e)
  BY <1>1, <1>2, <1>6, <1>7 DEF Completions, OnWire
<1>9. OneTransmission'
  <2>1. ASSUME NEW e \in Devices, e # d
        PROVE  /\ m_txMachineState'[e] = "BUSY" <=> m_currentPkt'[e] # None
               /\ m_txMachineState'[e] = "BUSY" <=> Completions(e)' # {}
               /\ \A c, f \in Completions(e)' : c = f
               /\ m_queue'[e].m_packets # <<>> => m_txMachineState'[e] = "BUSY"
    BY <1>2, <1>3, <1>8, <2>1 DEF LInv, OneTransmission
  <2>2. m_queue'[d].m_packets = <<>>
    BY <1>1, <1>2
  <2> QED BY <1>3, <1>8, <2>1, <2>2 DEF OneTransmission
<1>10. \A e \in Devices : Books(e)'
  <2> SUFFICES ASSUME NEW e \in Devices PROVE Books(e)'
    OBVIOUS
  <2>1. Books(e) /\ OnWire(e)' = OnWire(e)
    BY <1>8 DEF LInv
  <2> QED BY <1>2, <2>1 DEF Books, Numbered, Queued, UnderWay, NoneMissing
<1>11. ASSUME NEW e \in Devices PROVE Paced(e)'
  <2>1. OnWire(e)' = OnWire(e) /\ Paced(e)
    BY <1>8 DEF LInv
  <2>2. \A f \in OnWire(e) : f.ts \in Nat
    BY SequenceTypes DEF Events
  <2>3. now \in Nat /\ Gap[e] \in Nat /\ Delay \in Nat
    BY LinkConstants DEF LInv, TypeOK
  <2>4. m_txMachineState'[e] = "READY" => \A f \in OnWire(e)' : f.ts + Gap[e] <= now' + Delay
    <3>1. CASE e = d
      BY <1>6, <2>1, <3>1 DEF Paced
    <3>2. CASE e # d
      BY <1>3, <1>4, <2>1, <2>2, <2>3, <3>2 DEF Paced
    <3> QED BY <3>1, <3>2
  <2>5. \A c \in Completions(e)', f \in OnWire(e)' : f.ts + Gap[e] <= c.ts + Delay
    BY <1>8, <2>1 DEF Paced
  <2> QED BY <2>1, <2>4, <2>5 DEF Paced
<1>12. ASSUME NEW e \in Devices PROVE Held(e)'
  <2>1. CASE e = d
    BY <1>3, <2>1 DEF Held
  <2>2. CASE e # d
    BY <1>3, <1>8, <2>2 DEF LInv, Held
  <2> QED BY <2>1, <2>2
<1>13. EventsOK' /\ Stripped'
  BY <1>2 DEF LInv, EventsOK, Stripped
<1> QED BY <1>5, <1>9, <1>10, <1>11, <1>12, <1>13 DEF LInv

\* The transmitter turns to the next packet
LEMMA TransmitNextInv ==
  ASSUME LInv, NEW ev \in events, IsNext(ev), now' = ev.ts, TransmitComplete(ev),
         m_queue[ev.dev].m_packets # <<>>
  PROVE  LInv'
<1>1. PICK d \in Devices : d = ev.dev
  BY NextTime DEF LInv, Events
<1> DEFINE q == m_queue[d]
           p == Peek(q)
<1>2. /\ ev.does = "TransmitComplete"
      /\ m_queue' = [m_queue EXCEPT ![d] = Dequeue(q)]
      /\ TransmitStart(d, p, ev.ts, events \ {ev})
      /\ UNCHANGED <<m_link, m_linkUp, m_bps, stripped, accepted, refused, unlinked, macTxDrop, arrived>>
  BY <1>1 DEF TransmitComplete, confVars, logVars
<1>3. Queued(d) /\ q \in Queues /\ q.m_packets # <<>>
  BY <1>1 DEF LInv, Books, TypeOK
<1>4. /\ Dequeue(q) \in Queues /\ Dequeue(q).m_packets = Tail(q.m_packets)
      /\ Dequeue(q).m_nPackets = q.m_nPackets - 1
      /\ p \in Packets /\ p = q.m_packets[1]
  BY <1>3, DequeueType DEF Queued
<1> HIDE DEF p
<1>5. /\ m_queue' \in [Devices -> Queues] /\ m_queue'[d] = Dequeue(q)
      /\ \A e \in Devices \ {d} : m_queue'[e] = m_queue[e]
  BY <1>2, <1>4 DEF LInv, TypeOK
<1>6. ev \in Completions(d)
  BY <1>1, <1>2 DEF Completions
<1>7. Completions(d) = {ev} /\ Completions(d) \in SUBSET Completions(d)
  BY <1>6 DEF LInv, OneTransmission
<1>8. TransmitStart(d, p, ev.ts, events \ Completions(d))
  BY <1>2, <1>7
<1>9. ev.ts \in Nat /\ ev.ts >= now /\ \A f \in events : f.ts >= ev.ts
  BY NextTime DEF LInv
<1>10. Arrival(d, p, ev.ts).pkt = p /\ Arrival(d, p, ev.ts).dev = Peer(d)
  BY DEF Arrival
<1>11. p.src = d /\ \A f \in OnWire(d) : f.pkt.no < p.no
  <2>1. m_queue[d].m_packets # <<>> /\ p = m_queue[d].m_packets[1]
    BY <1>3, <1>4
  <2> QED BY <2>1, HeadFollows
<1>12. /\ events' \subseteq Events
       /\ \A f \in events' : f.ts >= ev.ts /\ f.uid < uid'
       /\ uid' \in Nat
       /\ m_txMachineState' \in [Devices -> {"READY", "BUSY"}]
       /\ m_currentPkt' \in [Devices -> Packets \cup {None}]
       /\ \A e \in Devices \ {d} : /\ m_txMachineState'[e] = m_txMachineState[e]
                                   /\ m_currentPkt'[e] = m_currentPkt[e]
  BY <1>4, <1>7, <1>8, <1>9, <1>11, StartType
<1>13. TypeOK'
  BY <1>2, <1>5, <1>9, <1>12 DEF LInv, TypeOK
<1>14. Others(d)
  BY <1>2, <1>5, <1>12 DEF Others
<1>15. \A f \in OnWire(d) : f.pkt.no < p.no /\ f.ts + Gap[d] <= ev.ts + Delay
  BY <1>6, <1>11 DEF LInv, Paced
<1>16. EventsOK' /\ OneTransmission' /\ (\A e \in Devices : Paced(e) /\ Held(e))' /\ Stripped'
  BY <1>2, <1>4, <1>8, <1>9, <1>11, <1>14, <1>15, StartStep
<1>17. /\ OnWire(d)' = OnWire(d) \cup {Arrival(d, p, ev.ts)}
       /\ \A e \in Devices \ {d} : OnWire(e)' = OnWire(e)
  BY <1>4, <1>7, <1>8, <1>9, <1>11, StartWire
<1>18. Books(d)'
  BY <1>2, <1>3, <1>4, <1>5, <1>10, <1>17, NextBooks
<1>19. \A e \in Devices : Books(e)'
  BY <1>14, <1>17, <1>18, OtherBooks
<1> QED BY <1>13, <1>16, <1>19 DEF LInv

\* A packet reaches the other end
LEMMA ReceiveStep ==
  ASSUME LInv, NEW ev \in events, IsNext(ev), now' = ev.ts, Receive(ev)
  PROVE  /\ LInv'
         /\ \E d \in Devices : /\ Len(arrived[d]) < Len(accepted[d])
                               /\ arrived' = [arrived EXCEPT ![d] = Append(@, accepted[d][Len(@) + 1])]
<1>1. /\ ev.does = "Receive" /\ ev.pkt \in Packets
      /\ arrived' = [arrived EXCEPT ![Peer(ev.dev)] = Append(@, ev.pkt)]
      /\ events' = events \ {ev}
      /\ uid' = uid /\ m_queue' = m_queue
      /\ UNCHANGED <<m_link, m_linkUp, m_bps, m_txMachineState, m_currentPkt, accepted, refused, unlinked, macTxDrop>>
      /\ stripped' \in {stripped, stripped \cup {ev.pkt}}
  BY DEF Receive, LInv, EventsOK, confVars, devVars
<1>2. PICK d \in Devices : d = ev.pkt.src
  BY <1>1, PacketFields
<1>3. ev \in OnWire(d)
  BY <1>1, <1>2 DEF OnWire
<1>4. ev.dev = Peer(d) /\ Peer(ev.dev) = d
  <2>1. Books(d)
    BY DEF LInv
  <2> QED BY <1>3, <2>1, PeerIsOther DEF Books, UnderWay
<1>5. /\ arrived' \in [Devices -> Seq(Packets)] /\ arrived[d] \in Seq(Packets)
      /\ arrived'[d] = Append(arrived[d], ev.pkt)
      /\ \A e \in Devices \ {d} : arrived'[e] = arrived[e]
  BY <1>1, <1>4 DEF LInv, TypeOK
<1>6. ev.ts \in Nat /\ ev.ts >= now /\ now \in Nat /\ \A f \in events : f.ts >= ev.ts
  BY NextTime DEF LInv, TypeOK
<1>7. TypeOK'
  <2>1. stripped' \subseteq Packets
    BY <1>1 DEF LInv, TypeOK
  <2> QED BY <1>1, <1>5, <1>6, <2>1 DEF LInv, TypeOK
<1>8. /\ OnWire(d)' = OnWire(d) \ {ev}
      /\ \A e \in Devices \ {d} : OnWire(e)' = OnWire(e)
      /\ \A e \in Devices : Completions(e)' = Completions(e)
  BY <1>1, <1>2 DEF OnWire, Completions
<1>9. OneTransmission'
  BY <1>1, <1>8 DEF LInv, OneTransmission
<1>10. /\ Books(d)' /\ ev.pkt = accepted[d][Len(arrived[d]) + 1]
       /\ Len(arrived[d]) < Len(accepted[d])
  BY <1>1, <1>3, <1>5, <1>8, ReceiveBooks
<1>11. \A e \in Devices : Books(e)'
  <2>1. Others(d)
    BY <1>1, <1>5 DEF Others
  <2> QED BY <1>8, <1>10, <2>1, OtherBooks
<1>12. ASSUME NEW e \in Devices PROVE Paced(e)'
  <2>1. OnWire(e)' \subseteq OnWire(e) /\ Completions(e)' = Completions(e) /\ Paced(e)
    BY <1>8 DEF LInv
  <2>2. \A f \in OnWire(e) : f.ts \in Nat
    BY SequenceTypes DEF Events
  <2>3. now' \in Nat /\ now' >= now /\ now \in Nat /\ Gap[e] \in Nat /\ Delay \in Nat
    BY <1>6, LinkConstants
  <2>4. m_txMachineState'[e] = "READY" => \A f \in OnWire(e)' : f.ts + Gap[e] <= now' + Delay
    BY <1>1, <2>1, <2>2, <2>3 DEF Paced
  <2> QED BY <2>1, <2>4 DEF Paced
<1>13. ASSUME NEW e \in Devices PROVE Held(e)'
  <2>1. Held(e) /\ Completions(e)' = Completions(e)
    BY <1>8 DEF LInv
  <2>2. SUFFICES ASSUME m_currentPkt[e] # None, Gap[e] <= Delay
                 PROVE  \E f \in OnWire(e)' : f.pkt = m_currentPkt[e] /\ \A c \in Completions(e) : Before(c, f)
    BY <1>1, <2>1 DEF Held
  <2>3. PICK f \in OnWire(e) : f.pkt = m_currentPkt[e] /\ \A c \in Completions(e) : Before(c, f)
    BY <2>1, <2>2 DEF Held
  <2>4. PICK c \in Completions(e) : TRUE
    BY <2>2 DEF LInv, OneTransmission
  <2>5. f # ev
    <3>1. c \in events /\ c # ev /\ c.ts \in Nat /\ ev.ts \in Nat /\ c.uid \in Nat /\ ev.uid \in Nat
      BY <1>1 DEF Completions, LInv, TypeOK, Events
    <3>2. Before(ev, c)
      BY <3>1 DEF IsNext
    <3>3. ~Before(c, ev)
      BY <3>1, <3>2 DEF Before
    <3> QED BY <2>3, <2>4, <3>3
  <2>6. f \in OnWire(e)'
    BY <1>8, <2>5
  <2> QED BY <2>3, <2>6
<1>14. Stripped'
  <2>1. \A p \in stripped : p.no <= Len(arrived[p.src]) /\ p \in Packets
    BY DEF LInv, TypeOK, Stripped
  <2>2. \A e \in Devices : Len(arrived[e]) \in Nat /\ Len(arrived'[e]) \in Nat /\ Len(arrived[e]) <= Len(arrived'[e])
    <3>1. ASSUME NEW e \in Devices
          PROVE  Len(arrived[e]) \in Nat /\ Len(arrived'[e]) \in Nat /\ Len(arrived[e]) <= Len(arrived'[e])
      <4>1. arrived[e] \in Seq(Packets) /\ arrived'[e] \in {arrived[e], Append(arrived[e], ev.pkt)}
        BY <1>5, SequenceTypes
      <4> QED BY <1>1, <4>1
    <3> QED BY <3>1
  <2>3. \A p \in stripped : p.no <= Len(arrived'[p.src])
    BY <2>1, <2>2, PacketFields
  <2>4. ev.pkt.no <= Len(arrived'[ev.pkt.src])
    <3>1. ev.pkt.no = Len(arrived[d]) + 1
      BY <1>3, FirstArrives
    <3>2. Len(arrived'[d]) = Len(arrived[d]) + 1
      BY <1>1, <1>5
    <3>3. Len(arrived[d]) \in Nat
      BY SequenceTypes
    <3> QED BY <1>2, <3>1, <3>2, <3>3
  <2> QED BY <1>1, <2>3, <2>4 DEF Stripped
<1>15. EventsOK'
  BY <1>1 DEF LInv, EventsOK
<1>16. LInv'
  BY <1>7, <1>9, <1>11, <1>12, <1>13, <1>14, <1>15 DEF LInv
<1>17. arrived' = [arrived EXCEPT ![d] = Append(@, accepted[d][Len(@) + 1])]
  BY <1>1, <1>4, <1>10
<1> QED BY <1>10, <1>16, <1>17

LEMMA Inductive == LInv /\ [Next]_vars => LInv'
<1> SUFFICES ASSUME LInv, [Next]_vars PROVE LInv'
  OBVIOUS
<1>1. CASE \E d \in Devices : Attach(d) \/ SetDataRate(d) \/ Send(d)
  BY <1>1, AttachInv, SetDataRateInv, SendInv
<1>2. CASE RunNext
  <2>1. PICK ev \in events : IsNext(ev) /\ now' = ev.ts /\ (TransmitComplete(ev) \/ Receive(ev))
    BY <1>2 DEF RunNext
  <2> QED BY <2>1, TransmitIdleInv, TransmitNextInv, ReceiveStep
<1>3. CASE Wait
  BY <1>3, WaitInv
<1>4. CASE UNCHANGED vars
  BY <1>4, StutterInv
<1> QED BY <1>1, <1>2, <1>3, <1>4 DEF Next

(* The invariant of both devices, their queues and the events of the link  *)
(* holds after every Send, transmission, reception and change of rate.     *)
THEOREM InvariantHolds == Spec => []LInv
<1> QED BY InitInv, Inductive, PTL DEF Spec

-----------------------------------------------------------------------------
(* The theorems                                                            *)

(* The members of both devices and the events of the link keep their types *)
(* under every sequence of sends, rate changes, transmissions and          *)
(* receptions.                                                             *)
THEOREM LinkTypeCorrect == Spec => []TypeOK
<1>1. LInv => TypeOK
  BY DEF LInv
<1> QED BY <1>1, InvariantHolds, PTL

(* The assertions of TransmitStart and TransmitComplete never fail and no  *)
(* packet is left in the queue of an idle device.                          *)
THEOREM TransmitMachine == Spec => []OneTransmission
<1>1. LInv => OneTransmission
  BY DEF LInv
<1> QED BY <1>1, InvariantHolds, PTL

(* However rates change and sizes vary, TransmitStart never puts packets   *)
(* on the wire closer together than the line can carry them.               *)
THEOREM LineRate == Spec => []WireCapacity
<1>1. LInv => WireCapacity
  BY DEF LInv, Paced, WireCapacity
<1> QED BY <1>1, InvariantHolds, PTL

(* TransmitComplete traces the packet before its receiver takes the header *)
(* off the shared object, provided the gap does not exceed the delay.      *)
THEOREM TracedWhole == Spec => []WholeAtTxEnd
<1>1. LInv => WholeAtTxEnd
  <2> SUFFICES ASSUME LInv, NEW d \in Devices, m_currentPkt[d] # None, Gap[d] <= Delay
               PROVE  m_currentPkt[d] \notin stripped
    BY DEF WholeAtTxEnd
  <2>1. PICK ev \in OnWire(d) : ev.pkt = m_currentPkt[d]
    BY DEF LInv, Held
  <2>2. ev.pkt.no > Len(arrived[d]) /\ ev.pkt.src = d
    BY DEF LInv, Books, UnderWay, OnWire
  <2>3. ev.pkt.no \in Nat /\ Len(arrived[d]) \in Nat
    BY SequenceTypes
  <2> QED BY <2>1, <2>2, <2>3 DEF LInv, Stripped
<1> QED BY <1>1, InvariantHolds, PTL

(* Send, the queue, the transmit machine and the channel implement a FIFO  *)
(* link: each step takes a packet, brings the one after the last brought   *)
(* to the other end, or changes nothing the ends can see.                  *)
THEOREM LinkIsFifo == Spec => Link!LinkSafe
<1>1. Init => Link!LinkInit
  BY DEF Init, Link!LinkInit
<1>2. LInv /\ [Next]_vars => [Link!LinkNext]_Link!linkVars
  <2> SUFFICES ASSUME LInv, [Next]_vars PROVE Link!LinkNext \/ UNCHANGED <<accepted, arrived>>
    BY DEF Link!linkVars
  <2>1. CASE \E d \in Devices : Attach(d) \/ SetDataRate(d)
    BY <2>1 DEF Attach, SetDataRate, logVars
  <2>2. ASSUME NEW d \in Devices, Send(d)
        PROVE  Link!LinkNext \/ UNCHANGED <<accepted, arrived>>
    <3>1. PICK b \in Sizes :
            LET p == [src |-> d, no |-> Len(accepted[d]) + 1, bytes |-> b]
            IN  SendDown(d, p) \/ SendReady(d, p) \/ SendBusy(d, p) \/ SendFull(d, p)
      BY <2>2 DEF Send
    <3> DEFINE p == [src |-> d, no |-> Len(accepted[d]) + 1, bytes |-> b]
    <3>2. arrived' = arrived
      BY <2>2 DEF Send
    <3>3. CASE SendDown(d, p) \/ SendFull(d, p)
      BY <3>2, <3>3 DEF SendDown, SendFull, Refuse
    <3>4. CASE SendReady(d, p) \/ SendBusy(d, p)
      <4>1. accepted' = [accepted EXCEPT ![d] = Append(@, p)]
        BY <3>4 DEF SendReady, SendBusy, Accept
      <4>2. p \in Packets
        BY <2>2, <4>1, SentIsPacket
      <4> HIDE DEF p
      <4>3. Link!Take(d)
        BY <3>2, <4>1, <4>2 DEF Link!Take
      <4> QED BY <4>3 DEF Link!LinkNext
    <3> QED BY <3>1, <3>3, <3>4
  <2>3. CASE RunNext
    <3>1. PICK ev \in events : IsNext(ev) /\ now' = ev.ts /\ (TransmitComplete(ev) \/ Receive(ev))
      BY <2>3 DEF RunNext
    <3>2. CASE TransmitComplete(ev)
      BY <3>2 DEF TransmitComplete, logVars
    <3>3. CASE Receive(ev)
      <4>1. PICK d \in Devices :
              /\ Len(arrived[d]) < Len(accepted[d])
              /\ arrived' = [arrived EXCEPT ![d] = Append(@, accepted[d][Len(@) + 1])]
        BY <3>1, <3>3, ReceiveStep
      <4>2. accepted' = accepted
        BY <3>3 DEF Receive
      <4>3. Link!Bring(d)
        BY <4>1, <4>2 DEF Link!Bring
      <4> QED BY <4>3 DEF Link!LinkNext
    <3> QED BY <3>1, <3>2, <3>3
  <2>4. CASE Wait \/ UNCHANGED vars
    BY <2>4 DEF Wait, vars, logVars
  <2> QED BY <2>1, <2>2, <2>3, <2>4 DEF Next
<1> QED BY <1>1, <1>2, InvariantHolds, PTL DEF Spec, Link!LinkSafe

-----------------------------------------------------------------------------
(* Induction over the natural numbers, with the property as a set          *)

LEMMA NatOrder ==
  \E R : IsWellFoundedOn(R, Nat) /\ \A m, n \in Nat : n < m => <<n, m>> \in R
<1>1. \A m, n \in Nat : n < m => <<n, m>> \in OpToRel(<, Nat)
  BY DEF OpToRel
<1> QED BY <1>1, NatLessThanWellFounded

LEMMA LeastNatural ==
  ASSUME NEW T, T \subseteq Nat, T # {}
  PROVE  \E m \in T : \A n \in T : m <= n
<1>1. PICK R : IsWellFoundedOn(R, Nat) /\ \A m, n \in Nat : n < m => <<n, m>> \in R
  BY NatOrder
<1>2. PICK m \in T : \A n \in T : ~(<<n, m>> \in R)
  BY <1>1, WFMin
<1>3. ASSUME NEW n \in T PROVE m <= n
  <2>1. n \in Nat /\ m \in Nat /\ ~(n < m)
    BY <1>1, <1>2
  <2> QED BY <2>1
<1> QED BY <1>3

LEMMA Induct ==
  ASSUME NEW S, 0 \in S, \A n \in Nat : n \in S => n + 1 \in S
  PROVE  Nat \subseteq S
<1> SUFFICES ASSUME ~(Nat \subseteq S) PROVE FALSE
  OBVIOUS
<1>1. PICK m \in Nat \ S : \A n \in Nat \ S : m <= n
  BY LeastNatural
<1>2. m - 1 \in Nat /\ ~(m <= m - 1) /\ (m - 1) + 1 = m
  BY <1>1
<1> QED BY <1>1, <1>2

-----------------------------------------------------------------------------
(* The bytes of a queue: the loop of BytesOf has a value, and appending a  *)
(* packet or taking the first one away changes it by that packet's bytes.  *)

BytesUpTo(s, n, f) ==
  f = [i \in 0 .. n |-> IF i = 0 THEN 0 ELSE f[i - 1] + s[i].bytes]

LEMMA BytesDefined ==
  ASSUME NEW s, NEW n \in Nat
  PROVE  \E f : BytesUpTo(s, n, f)
<1> DEFINE S == {m \in Nat : \E f : BytesUpTo(s, m, f)}
<1>1. 0 \in S
  <2>1. BytesUpTo(s, 0, [i \in 0 .. 0 |-> 0])
    BY DEF BytesUpTo
  <2> QED BY <2>1
<1>2. ASSUME NEW m \in Nat, m \in S PROVE m + 1 \in S
  <2>1. PICK f : BytesUpTo(s, m, f)
    BY <1>2
  <2> DEFINE g == [i \in 0 .. m + 1 |-> IF i <= m THEN f[i] ELSE f[m] + s[m + 1].bytes]
  <2>2. BytesUpTo(s, m + 1, g)
    BY <2>1 DEF BytesUpTo
  <2> QED BY <2>2
<1> HIDE DEF S
<1>3. Nat \subseteq S
  BY <1>1, <1>2, Induct
<1> QED BY <1>3 DEF S

LEMMA BytesTotal ==
  ASSUME NEW s \in Seq(Packets)
  PROVE  \E f : /\ f[0] = 0 /\ BytesOf(s) = f[Len(s)]
                /\ \A i \in 1 .. Len(s) : f[i] = f[i - 1] + s[i].bytes
                /\ \A i \in 0 .. Len(s) : f[i] \in Nat
<1>1. Len(s) \in Nat /\ \A i \in 1 .. Len(s) : s[i].bytes \in Nat
  BY PacketFields
<1>2. BytesUpTo(s, Len(s), CHOOSE f : BytesUpTo(s, Len(s), f))
  BY <1>1, BytesDefined
<1>3. BytesOf(s) = (CHOOSE f : BytesUpTo(s, Len(s), f))[Len(s)]
  BY DEF BytesOf, BytesUpTo
<1>4. PICK f : BytesUpTo(s, Len(s), f) /\ BytesOf(s) = f[Len(s)]
  BY <1>2, <1>3
<1>5. f[0] = 0 /\ \A i \in 1 .. Len(s) : f[i] = f[i - 1] + s[i].bytes
  BY <1>1, <1>4 DEF BytesUpTo
<1> DEFINE S == {i \in Nat : i <= Len(s) => f[i] \in Nat}
<1>6. 0 \in S
  BY <1>5
<1>7. ASSUME NEW n \in Nat, n \in S PROVE n + 1 \in S
  <2> SUFFICES ASSUME n + 1 <= Len(s) PROVE f[n + 1] \in Nat
    OBVIOUS
  <2>1. n + 1 \in 1 .. Len(s) /\ f[n] \in Nat
    BY <1>1, <1>7
  <2> QED BY <1>1, <1>5, <2>1
<1>8. Nat \subseteq S
  <2> HIDE DEF S
  <2> QED BY <1>6, <1>7, Induct
<1>9. \A i \in 0 .. Len(s) : f[i] \in Nat
  BY <1>1, <1>8
<1> QED BY <1>4, <1>5, <1>9

LEMMA BytesNat ==
  ASSUME NEW s \in Seq(Packets)
  PROVE  BytesOf(s) \in Nat /\ (s = <<>> => BytesOf(s) = 0)
<1>1. PICK f : /\ f[0] = 0 /\ BytesOf(s) = f[Len(s)]
               /\ \A i \in 0 .. Len(s) : f[i] \in Nat
  BY BytesTotal
<1>2. Len(s) \in Nat /\ (s = <<>> => Len(s) = 0)
  OBVIOUS
<1> QED BY <1>1, <1>2

LEMMA BytesAppend ==
  ASSUME NEW s \in Seq(Packets), NEW p \in Packets
  PROVE  BytesOf(Append(s, p)) = BytesOf(s) + p.bytes
<1> DEFINE t == Append(s, p)
<1>1. /\ t \in Seq(Packets) /\ Len(s) \in Nat /\ Len(t) = Len(s) + 1 /\ t[Len(s) + 1] = p
      /\ \A i \in 1 .. Len(s) : t[i] = s[i]
  OBVIOUS
<1> HIDE DEF t
<1>2. PICK f : /\ f[0] = 0 /\ BytesOf(s) = f[Len(s)]
               /\ \A i \in 1 .. Len(s) : f[i] = f[i - 1] + s[i].bytes
  BY BytesTotal
<1>3. PICK g : /\ g[0] = 0 /\ BytesOf(t) = g[Len(t)]
               /\ \A i \in 1 .. Len(t) : g[i] = g[i - 1] + t[i].bytes
  BY <1>1, BytesTotal
<1> DEFINE S == {i \in Nat : i <= Len(s) => g[i] = f[i]}
<1>4. 0 \in S
  BY <1>2, <1>3
<1>5. ASSUME NEW n \in Nat, n \in S PROVE n + 1 \in S
  <2> SUFFICES ASSUME n + 1 <= Len(s) PROVE g[n + 1] = f[n + 1]
    OBVIOUS
  <2>1. n + 1 \in 1 .. Len(s) /\ n + 1 \in 1 .. Len(t) /\ g[n] = f[n] /\ (n + 1) - 1 = n
    BY <1>1, <1>5
  <2> QED BY <1>1, <1>2, <1>3, <2>1
<1>6. Nat \subseteq S
  <2> HIDE DEF S
  <2> QED BY <1>4, <1>5, Induct
<1>7. g[Len(s)] = f[Len(s)]
  BY <1>1, <1>6
<1>8. Len(t) \in 1 .. Len(t) /\ Len(t) - 1 = Len(s)
  BY <1>1
<1> QED BY <1>1, <1>2, <1>3, <1>7, <1>8 DEF t

LEMMA BytesTail ==
  ASSUME NEW s \in Seq(Packets), s # <<>>
  PROVE  BytesOf(s) = BytesOf(Tail(s)) + s[1].bytes
<1> DEFINE t == Tail(s)
<1>1. /\ t \in Seq(Packets) /\ Len(s) \in Nat /\ Len(s) >= 1 /\ Len(t) = Len(s) - 1
      /\ \A i \in 1 .. Len(t) : t[i] = s[i + 1]
  OBVIOUS
<1> HIDE DEF t
<1>1a. s[1].bytes \in Nat
  BY <1>1, PacketFields
<1>2. PICK f : /\ f[0] = 0 /\ BytesOf(s) = f[Len(s)]
               /\ \A i \in 1 .. Len(s) : f[i] = f[i - 1] + s[i].bytes
               /\ \A i \in 0 .. Len(s) : f[i] \in Nat
  BY BytesTotal
<1>3. PICK g : /\ g[0] = 0 /\ BytesOf(t) = g[Len(t)]
               /\ \A i \in 1 .. Len(t) : g[i] = g[i - 1] + t[i].bytes
               /\ \A i \in 0 .. Len(t) : g[i] \in Nat
  BY <1>1, BytesTotal
<1> DEFINE S == {i \in Nat : i <= Len(t) => f[i + 1] = g[i] + s[1].bytes}
<1>4. 0 \in S
  BY <1>1, <1>1a, <1>2, <1>3
<1>5. ASSUME NEW n \in Nat, n \in S PROVE n + 1 \in S
  <2> SUFFICES ASSUME n + 1 <= Len(t) PROVE f[(n + 1) + 1] = g[n + 1] + s[1].bytes
    OBVIOUS
  <2>1. /\ n + 1 \in 1 .. Len(t) /\ n \in 0 .. Len(t) /\ (n + 1) - 1 = n
        /\ n + 2 \in 1 .. Len(s) /\ (n + 2) - 1 = n + 1 /\ (n + 1) + 1 = n + 2
        /\ f[n + 1] = g[n] + s[1].bytes
    BY <1>1, <1>5
  <2>2. /\ f[n + 2] = f[n + 1] + s[n + 2].bytes
        /\ g[n + 1] = g[n] + t[n + 1].bytes
        /\ t[n + 1] = s[n + 2]
    BY <1>1, <1>2, <1>3, <2>1
  <2>3. g[n] \in Nat /\ s[n + 2].bytes \in Nat
    BY <1>1, <1>3, <2>1, PacketFields
  <2> QED BY <1>1a, <2>1, <2>2, <2>3
<1>6. Nat \subseteq S
  <2> HIDE DEF S
  <2> QED BY <1>4, <1>5, Induct
<1>7. Len(t) \in Nat /\ Len(t) + 1 = Len(s)
  BY <1>1
<1>8. f[Len(t) + 1] = g[Len(t)] + s[1].bytes
  BY <1>6, <1>7
<1> QED BY <1>2, <1>3, <1>7, <1>8 DEF t

-----------------------------------------------------------------------------
(* The queue's accounts                                                    *)

Accounted(d, q) ==
  /\ q.m_nPackets = Len(q.m_packets)
  /\ q.m_bytesInQueue = BytesOf(q.m_packets)
  /\ q.m_nBytes = q.m_bytesInQueue
  /\ Mode[d] = "PACKETS" => q.m_nPackets <= Limit[d]
  /\ Mode[d] = "BYTES" => q.m_nBytes = 0 \/ q.m_nBytes < Limit[d]

LEMMA EmptyAccounted ==
  ASSUME NEW d \in Devices
  PROVE  /\ Accounted(d, EmptyQueue)
         /\ EmptyQueue.m_nTotalReceivedPackets = 0
         /\ EmptyQueue.m_nTotalDroppedPackets = 0
<1>1. BytesOf(<<>>) = 0
  <2>1. <<>> \in Seq(Packets)
    OBVIOUS
  <2> QED BY <2>1, BytesNat
<1>2. Limit[d] \in Nat
  BY LinkConstants
<1> QED BY <1>1, <1>2 DEF EmptyQueue, Accounted

LEMMA EnqueueAccounted ==
  ASSUME NEW d \in Devices, NEW q \in Queues, NEW p \in Packets,
         Accounted(d, q), ~IsFull(q, p, Mode[d], Limit[d])
  PROVE  /\ Accounted(d, Enqueue(q, p))
         /\ Enqueue(q, p).m_nTotalReceivedPackets = q.m_nTotalReceivedPackets + 1
         /\ Enqueue(q, p).m_nTotalDroppedPackets = q.m_nTotalDroppedPackets
<1>1. /\ q.m_packets \in Seq(Packets) /\ p.bytes \in Nat /\ Limit[d] \in Nat
      /\ BytesOf(q.m_packets) \in Nat
  BY LinkConstants, PacketFields, BytesNat DEF Queues
<1>2. BytesOf(Append(q.m_packets, p)) = BytesOf(q.m_packets) + p.bytes
  BY <1>1, BytesAppend
<1>3. Len(Append(q.m_packets, p)) = Len(q.m_packets) + 1 /\ Len(q.m_packets) \in Nat
  BY <1>1
<1> QED BY <1>1, <1>2, <1>3 DEF Enqueue, Accounted, IsFull

LEMMA DequeueAccounted ==
  ASSUME NEW d \in Devices, NEW q \in Queues, q.m_packets # <<>>, Accounted(d, q)
  PROVE  /\ Accounted(d, Dequeue(q))
         /\ Dequeue(q).m_nTotalReceivedPackets = q.m_nTotalReceivedPackets
         /\ Dequeue(q).m_nTotalDroppedPackets = q.m_nTotalDroppedPackets
<1>1. q.m_packets \in Seq(Packets) /\ Len(q.m_packets) \in Nat \ {0} /\ Limit[d] \in Nat
  BY LinkConstants DEF Queues
<1>2. Peek(q) = q.m_packets[1] /\ Peek(q).bytes \in Nat
  BY <1>1, PacketFields DEF Peek
<1>3. Tail(q.m_packets) \in Seq(Packets) /\ Len(Tail(q.m_packets)) = Len(q.m_packets) - 1
  BY <1>1
<1>4. BytesOf(q.m_packets) = BytesOf(Tail(q.m_packets)) + Peek(q).bytes
  BY <1>1, <1>2, BytesTail
<1>5. BytesOf(Tail(q.m_packets)) \in Nat
  BY <1>3, BytesNat
<1> HIDE DEF Peek
<1> QED BY <1>1, <1>2, <1>3, <1>4, <1>5 DEF Dequeue, Accounted

\* QueueAccounts, with the limit on bytes that DoEnqueue really keeps
InAccount(d) ==
  /\ Accounted(d, m_queue[d])
  /\ m_queue[d].m_nTotalReceivedPackets = Len(accepted[d])
  /\ m_queue[d].m_nTotalDroppedPackets = refused[d]

LEMMA AccountsStep ==
  ASSUME LInv, \A e \in Devices : InAccount(e), [Next]_vars
  PROVE  \A e \in Devices : InAccount(e)'
<1> DEFINE Kept(e) == /\ m_queue'[e] = m_queue[e]
                      /\ accepted'[e] = accepted[e] /\ refused'[e] = refused[e]
           Right(e) == /\ Accounted(e, m_queue'[e])
                       /\ m_queue'[e].m_nTotalReceivedPackets = Len(accepted'[e])
                       /\ m_queue'[e].m_nTotalDroppedPackets = refused'[e]
<1>1. \A e \in Devices : /\ Accounted(e, m_queue[e])
                         /\ m_queue[e].m_nTotalReceivedPackets = Len(accepted[e])
                         /\ m_queue[e].m_nTotalDroppedPackets = refused[e]
  BY DEF InAccount
<1>2. /\ m_queue \in [Devices -> Queues] /\ accepted \in [Devices -> Seq(Packets)]
      /\ refused \in [Devices -> Nat]
  BY DEF LInv, TypeOK
<1>3. \A e \in Devices : Kept(e) => Right(e)
  BY <1>1
<1>4. CASE \/ \E d \in Devices : Attach(d) \/ SetDataRate(d)
           \/ Wait \/ UNCHANGED vars
  BY <1>3, <1>4 DEF Attach, SetDataRate, Wait, vars, devVars, logVars, InAccount, Accounted
<1>5. ASSUME NEW d \in Devices, Send(d) PROVE \A e \in Devices : Right(e)
  <2> PICK b \in Sizes :
        LET p == [src |-> d, no |-> Len(accepted[d]) + 1, bytes |-> b]
        IN  SendDown(d, p) \/ SendReady(d, p) \/ SendBusy(d, p) \/ SendFull(d, p)
    BY <1>5 DEF Send
  <2> DEFINE p == [src |-> d, no |-> Len(accepted[d]) + 1, bytes |-> b]
  <2>1. CASE SendDown(d, p)
    BY <1>3, <2>1 DEF SendDown, devVars
  <2>2. CASE SendFull(d, p)
    <3>1. /\ accepted' = accepted /\ m_queue' = [m_queue EXCEPT ![d] = Drop(m_queue[d])]
          /\ refused' = [refused EXCEPT ![d] = @ + 1]
      BY <2>2 DEF SendFull, Refuse
    <3>2. /\ m_queue'[d] = Drop(m_queue[d]) /\ refused'[d] = refused[d] + 1
          /\ \A e \in Devices \ {d} : m_queue'[e] = m_queue[e] /\ refused'[e] = refused[e]
      BY <1>2, <3>1
    <3>3. /\ Accounted(d, Drop(m_queue[d]))
          /\ Drop(m_queue[d]).m_nTotalReceivedPackets = m_queue[d].m_nTotalReceivedPackets
          /\ Drop(m_queue[d]).m_nTotalDroppedPackets = m_queue[d].m_nTotalDroppedPackets + 1
      <4>1. m_queue[d] \in Queues /\ Accounted(d, m_queue[d])
        BY <1>1, <1>2
      <4> QED BY <4>1 DEF Drop, Accounted, Queues
    <3> QED BY <1>1, <1>3, <3>1, <3>2, <3>3
  <2>3. CASE SendReady(d, p) \/ SendBusy(d, p)
    <3>1. p \in Packets
      <4>1. accepted' = [accepted EXCEPT ![d] = Append(@, p)]
        BY <2>3 DEF SendReady, SendBusy, Accept
      <4> QED BY <1>5, <4>1, SentIsPacket
    <3>2. /\ accepted' = [accepted EXCEPT ![d] = Append(accepted[d], p)] /\ refused' = refused
          /\ ~IsFull(m_queue[d], p, Mode[d], Limit[d])
          /\ \/ m_queue' = [m_queue EXCEPT ![d] = Dequeue(Enqueue(m_queue[d], p))]
             \/ m_queue' = [m_queue EXCEPT ![d] = Enqueue(m_queue[d], p)]
      BY <2>3 DEF SendReady, SendBusy, Accept
    <3> HIDE DEF p
    <3>3. /\ accepted'[d] = Append(accepted[d], p) /\ Len(accepted'[d]) = Len(accepted[d]) + 1
          /\ m_queue'[d] \in {Enqueue(m_queue[d], p), Dequeue(Enqueue(m_queue[d], p))}
          /\ \A e \in Devices \ {d} : Kept(e)
      BY <1>2, <3>1, <3>2
    <3>4. /\ Enqueue(m_queue[d], p) \in Queues
          /\ Enqueue(m_queue[d], p).m_packets = Append(m_queue[d].m_packets, p)
      BY <1>2, <3>1, EnqueueType
    <3>5. Enqueue(m_queue[d], p).m_packets # <<>>
      <4>1. m_queue[d].m_packets \in Seq(Packets)
        BY <1>2 DEF Queues
      <4> QED BY <3>1, <3>4, <4>1
    <3>6. /\ Accounted(d, Enqueue(m_queue[d], p))
          /\ Enqueue(m_queue[d], p).m_nTotalReceivedPackets = m_queue[d].m_nTotalReceivedPackets + 1
          /\ Enqueue(m_queue[d], p).m_nTotalDroppedPackets = m_queue[d].m_nTotalDroppedPackets
      BY <1>1, <1>2, <3>1, <3>2, EnqueueAccounted
    <3>7. /\ Accounted(d, Dequeue(Enqueue(m_queue[d], p)))
          /\ Dequeue(Enqueue(m_queue[d], p)).m_nTotalReceivedPackets = m_queue[d].m_nTotalReceivedPackets + 1
          /\ Dequeue(Enqueue(m_queue[d], p)).m_nTotalDroppedPackets = m_queue[d].m_nTotalDroppedPackets
      BY <3>4, <3>5, <3>6, DequeueAccounted
    <3>8. Right(d)
      BY <1>1, <3>2, <3>3, <3>6, <3>7
    <3> QED BY <1>3, <3>2, <3>3, <3>8
  <2> QED BY <2>1, <2>2, <2>3
<1>6. CASE RunNext
  <2>1. PICK ev \in events : TransmitComplete(ev) \/ Receive(ev)
    BY <1>6 DEF RunNext
  <2>2. CASE Receive(ev)
    BY <1>3, <2>2 DEF Receive, devVars, InAccount, Accounted
  <2>3. CASE TransmitComplete(ev)
    <3>1. ev.dev \in Devices /\ accepted' = accepted /\ refused' = refused
      BY <2>3 DEF LInv, TypeOK, Events, TransmitComplete, logVars
    <3> DEFINE d == ev.dev
    <3>2. \/ m_queue' = m_queue
          \/ m_queue[d].m_packets # <<>> /\ m_queue' = [m_queue EXCEPT ![d] = Dequeue(m_queue[d])]
      BY <2>3 DEF TransmitComplete
    <3> HIDE DEF d
    <3>3. CASE m_queue' = m_queue
      BY <1>1, <3>1, <3>3 DEF InAccount, Accounted
    <3>4. CASE m_queue[d].m_packets # <<>> /\ m_queue' = [m_queue EXCEPT ![d] = Dequeue(m_queue[d])]
      <4>1. d \in Devices /\ m_queue[d] \in Queues /\ Accounted(d, m_queue[d])
        BY <1>1, <1>2, <3>1 DEF d
      <4>2. m_queue'[d] = Dequeue(m_queue[d]) /\ \A e \in Devices \ {d} : m_queue'[e] = m_queue[e]
        BY <1>2, <3>4, <4>1
      <4>3. /\ Accounted(d, Dequeue(m_queue[d]))
            /\ Dequeue(m_queue[d]).m_nTotalReceivedPackets = m_queue[d].m_nTotalReceivedPackets
            /\ Dequeue(m_queue[d]).m_nTotalDroppedPackets = m_queue[d].m_nTotalDroppedPackets
        BY <3>4, <4>1, DequeueAccounted
      <4>4. \A e \in Devices : Right(e)
        BY <1>1, <3>1, <4>1, <4>2, <4>3
      <4> QED BY <4>4 DEF InAccount, Accounted
    <3> QED BY <3>2, <3>3, <3>4
  <2> QED BY <2>1, <2>2, <2>3
<1>7. CASE \E d \in Devices : Send(d)
  <2>1. \A e \in Devices : Right(e)
    BY <1>5, <1>7
  <2> QED BY <2>1 DEF InAccount, Accounted
<1> QED BY <1>4, <1>6, <1>7 DEF Next

LEMMA EveryInAccount == Spec => [](\A d \in Devices : InAccount(d))
<1> DEFINE AllInAccount == \A d \in Devices : InAccount(d)
<1>1. Init => AllInAccount
  <2> SUFFICES ASSUME Init, NEW d \in Devices PROVE InAccount(d)
    OBVIOUS
  <2>1. m_queue[d] = EmptyQueue /\ accepted[d] = <<>> /\ refused[d] = 0
    BY DEF Init
  <2> QED BY <2>1, EmptyAccounted DEF InAccount
<1>2. LInv /\ AllInAccount /\ [Next]_vars => AllInAccount'
  BY AccountsStep
<1> HIDE DEF AllInAccount
<1>3. Spec => []AllInAccount
  BY <1>1, <1>2, InvariantHolds, PTL DEF Spec
<1> QED BY <1>3 DEF AllInAccount

(* Through every Send, refusal and transmission both sets of books the     *)
(* queue keeps count exactly what it holds, its limit in packets or bytes  *)
(* is never passed, and it has counted every packet Send accepted as       *)
(* received and every one it had no room for as dropped.                   *)
THEOREM QueueBooksBalance == Spec => []QueueAccounts
<1>1. ASSUME LInv, \A d \in Devices : InAccount(d) PROVE QueueAccounts
  <2> SUFFICES ASSUME NEW d \in Devices
               PROVE  /\ Accounted(d, m_queue[d])
                      /\ Mode[d] = "BYTES" => m_queue[d].m_nBytes <= Limit[d]
                      /\ m_queue[d].m_nTotalReceivedPackets = Len(accepted[d])
                      /\ m_queue[d].m_nTotalDroppedPackets = refused[d]
    BY DEF QueueAccounts, Accounted
  <2>1. m_queue[d].m_nBytes \in Int /\ Limit[d] \in Nat
    BY <1>1, LinkConstants DEF LInv, TypeOK, Queues
  <2> QED BY <1>1, <2>1 DEF InAccount, Accounted
<1> QED BY <1>1, InvariantHolds, EveryInAccount, PTL

(* Whatever is sent, a queue that counts bytes is never filled to its      *)
(* maximum: DoEnqueue drops the packet that would just fit, although the   *)
(* attribute calls the maximum the number of bytes accepted.               *)
THEOREM NoQueueIsFilled == Spec => []NeverExactlyFull
<1>1. (\A d \in Devices : InAccount(d)) => NeverExactlyFull
  BY DEF InAccount, Accounted, NeverExactlyFull
<1> QED BY <1>1, EveryInAccount, PTL
=============================================================================
