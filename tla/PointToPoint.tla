---------------------------- MODULE PointToPoint ----------------------------
(***************************************************************************)
(* Two PointToPointNetDevices, each with its DropTailQueue, joined by a    *)
(* PointToPointChannel, on the simulator's event list.  Upper layers send  *)
(* at any moment between two events (also from within a receive callback,  *)
(* which is the moment right after the event that makes it), configuration *)
(* code changes the data rate, and an error model corrupts what it likes.  *)
(*                                                                         *)
(* A packet is an object both devices and the event list point to: the     *)
(* receiver strips the PPP header of the very packet the sender may still  *)
(* hold as m_currentPkt.                                                   *)
(***************************************************************************)
EXTENDS DropTailQueue

CONSTANTS
  Devices,     \* the two ends
  None,        \* a null Ptr<Packet>
  Sizes,       \* packet sizes in bytes, the PPP header included
  ByteTimes,   \* the times the data rates need for a byte
  Gap,         \* Gap[d]: m_tInterframeGap of d
  Delay,       \* m_delay of the channel
  Mode,        \* Mode[d]: the queue's m_mode
  Limit,       \* Limit[d]: its m_maxPackets or m_maxBytes
  MaxSends,    \* bound: packets given to the two devices
  Horizon      \* bound: the time of the last call that no event makes

ASSUME LinkConstants ==
  /\ \E d, e \in Devices : d # e /\ Devices = {d, e}
  /\ Sizes \subseteq Nat
  /\ ByteTimes \subseteq Nat
  /\ Gap \in [Devices -> Nat]
  /\ Delay \in Nat
  /\ Mode \in [Devices -> Modes]
  /\ Limit \in [Devices -> Nat]
  /\ MaxSends \in Nat
  /\ Horizon \in Nat

VARIABLES
  now,               \* Simulator::Now
  events,            \* the link's events in the event list
  uid,               \* the number the next one gets
  m_link,            \* the channel: the devices attached to it
  m_linkUp,
  m_bps,             \* the data rate, as the time of a byte
  m_txMachineState,
  m_currentPkt,
  m_queue,
  stripped,          \* packets whose header the receiver has taken off
  accepted,          \* accepted[d]: the packets Send of d returned true for
  refused,           \* refused[d]: how many packets its queue was full for
  unlinked,          \* unlinked[d]: how many it met without a link
  macTxDrop,         \* macTxDrop[d]: how often m_macTxDropTrace fired
  arrived            \* arrived[d]: the packets of d its peer received

simVars == <<now, events, uid>>
devVars == <<m_txMachineState, m_currentPkt, m_queue>>
confVars == <<m_link, m_linkUp, m_bps>>
logVars == <<stripped, accepted, refused, unlinked, macTxDrop, arrived>>
vars == <<simVars, devVars, confVars, logVars>>

Peer(d) == CHOOSE e \in Devices : e # d

(* Packets of a device are numbered in the order it accepts them.          *)
Packets == [src : Devices, no : 1..MaxSends, bytes : Sizes]

ASSUME NoneIsNoPacket == None \notin Packets

Before(a, b) == a.ts < b.ts \/ (a.ts = b.ts /\ a.uid < b.uid)
IsNext(ev) == ev \in events /\ \A f \in events \ {ev} : Before(ev, f)

Init ==
  /\ now = 0
  /\ events = {}
  /\ uid = 0
  /\ m_link = {}
  /\ m_linkUp = [d \in Devices |-> FALSE]
  /\ m_bps \in [Devices -> ByteTimes]
  /\ m_txMachineState = [d \in Devices |-> "READY"]
  /\ m_currentPkt = [d \in Devices |-> None]
  /\ m_queue = [d \in Devices |-> EmptyQueue]
  /\ stripped = {}
  /\ accepted = [d \in Devices |-> <<>>]
  /\ refused = [d \in Devices |-> 0]
  /\ unlinked = [d \in Devices |-> 0]
  /\ macTxDrop = [d \in Devices |-> 0]
  /\ arrived = [d \in Devices |-> <<>>]

-----------------------------------------------------------------------------
(* PointToPointHelper attaches both devices before anything else happens.  *)
Attached == m_link \in {{}, Devices}

Attach(d) ==
  /\ d \notin m_link
  /\ m_link' = m_link \union {d}
  /\ m_linkUp' = [m_linkUp EXCEPT ![d] = TRUE]
  /\ UNCHANGED <<m_bps, simVars, devVars, logVars>>

(* A change of the DataRate attribute; a transmission under way keeps its  *)
(* end.                                                                    *)
SetDataRate(d) ==
  /\ Attached
  /\ now < Horizon
  /\ \E b \in ByteTimes \ {m_bps[d]} : m_bps' = [m_bps EXCEPT ![d] = b]
  /\ UNCHANGED <<m_link, m_linkUp, simVars, devVars, logVars>>

-----------------------------------------------------------------------------
(* Wrong variant: the gap after the packet forgotten.                      *)
TransmitStartNoGap(d, p, t, pending) ==
  LET txTime == p.bytes * m_bps[d]
  IN  /\ m_link = Devices
      /\ m_txMachineState' = [m_txMachineState EXCEPT ![d] = "BUSY"]
      /\ m_currentPkt' = [m_currentPkt EXCEPT ![d] = p]
      /\ events' = pending \union
           {[ts |-> t + txTime, uid |-> uid, does |-> "TransmitComplete", dev |-> d, pkt |-> None],
            [ts |-> t + txTime + Delay, uid |-> uid + 1, does |-> "Receive", dev |-> Peer(d), pkt |-> p]}
      /\ uid' = uid + 2

(* Wrong variant: the transmission time left out.                          *)
TransmitStartGapOnly(d, p, t, pending) ==
  LET txTime == p.bytes * m_bps[d]
  IN  /\ m_link = Devices
      /\ m_txMachineState' = [m_txMachineState EXCEPT ![d] = "BUSY"]
      /\ m_currentPkt' = [m_currentPkt EXCEPT ![d] = p]
      /\ events' = pending \union
           {[ts |-> t + Gap[d], uid |-> uid, does |-> "TransmitComplete", dev |-> d, pkt |-> None],
            [ts |-> t + txTime + Delay, uid |-> uid + 1, does |-> "Receive", dev |-> Peer(d), pkt |-> p]}
      /\ uid' = uid + 2

(* Wrong variant: the channel called before Schedule.                      *)
TransmitStartChannelFirst(d, p, t, pending) ==
  LET txTime == p.bytes * m_bps[d]
  IN  /\ m_link = Devices
      /\ m_txMachineState' = [m_txMachineState EXCEPT ![d] = "BUSY"]
      /\ m_currentPkt' = [m_currentPkt EXCEPT ![d] = p]
      /\ events' = pending \union
           {[ts |-> t + txTime + Gap[d], uid |-> uid + 1, does |-> "TransmitComplete", dev |-> d, pkt |-> None],
            [ts |-> t + txTime + Delay, uid |-> uid, does |-> "Receive", dev |-> Peer(d), pkt |-> p]}
      /\ uid' = uid + 2

(* PointToPointNetDevice::TransmitStart at time t, with the channel's      *)
(* TransmitStart: two events join the pending ones, one at each end of the *)
(* link, the sender's first.                                               *)
TransmitStart(d, p, t, pending) ==
  LET txTime == p.bytes * m_bps[d]
  IN  /\ m_link = Devices      \* NS_ASSERT: both halves are IDLE
      /\ m_txMachineState' = [m_txMachineState EXCEPT ![d] = "BUSY"]
      /\ m_currentPkt' = [m_currentPkt EXCEPT ![d] = p]
      /\ events' = pending \union
           {[ts |-> t + txTime + Gap[d], uid |-> uid, does |-> "TransmitComplete", dev |-> d, pkt |-> None],
            [ts |-> t + txTime + Delay, uid |-> uid + 1, does |-> "Receive", dev |-> Peer(d), pkt |-> p]}
      /\ uid' = uid + 2

-----------------------------------------------------------------------------
(* PointToPointNetDevice::Send, by what it finds.                          *)

Accept(d, p) ==
  /\ accepted' = [accepted EXCEPT ![d] = Append(@, p)]
  /\ UNCHANGED <<refused, unlinked, macTxDrop>>

(* The queue's Enqueue returns false.                                      *)
Refuse(d, traced) ==
  /\ refused' = [refused EXCEPT ![d] = @ + 1]
  /\ macTxDrop' = [macTxDrop EXCEPT ![d] = @ + traced]
  /\ UNCHANGED <<accepted, unlinked>>

(* Without a link Send returns before it asks the queue.                   *)
SendDown(d, p) ==
  /\ ~m_linkUp[d]
  /\ unlinked' = [unlinked EXCEPT ![d] = @ + 1]
  /\ macTxDrop' = [macTxDrop EXCEPT ![d] = @ + 1]
  /\ UNCHANGED <<accepted, refused, events, uid, devVars>>

(* Even an idle device takes its packet through the queue.                 *)
SendReady(d, p) ==
  LET q == Enqueue(m_queue[d], p)
  IN  /\ m_linkUp[d]
      /\ m_txMachineState[d] = "READY"
      /\ ~IsFull(m_queue[d], p, Mode[d], Limit[d])
      /\ m_queue' = [m_queue EXCEPT ![d] = Dequeue(q)]
      /\ TransmitStart(d, Peek(q), now, events)
      /\ Accept(d, p)

SendBusy(d, p) ==
  /\ m_linkUp[d]
  /\ m_txMachineState[d] = "BUSY"
  /\ ~IsFull(m_queue[d], p, Mode[d], Limit[d])
  /\ m_queue' = [m_queue EXCEPT ![d] = Enqueue(@, p)]
  /\ Accept(d, p)
  /\ UNCHANGED <<events, uid, m_txMachineState, m_currentPkt>>

(* Only an idle device fires m_macTxDropTrace.                             *)
SendFull(d, p) ==
  /\ m_linkUp[d]
  /\ IsFull(m_queue[d], p, Mode[d], Limit[d])
  /\ m_queue' = [m_queue EXCEPT ![d] = Drop(@)]
  /\ Refuse(d, IF m_txMachineState[d] = "READY" THEN 1 ELSE 0)
  /\ UNCHANGED <<events, uid, m_txMachineState, m_currentPkt>>

Given(d) == Len(accepted[d]) + refused[d] + unlinked[d]

Send(d) ==
  /\ Attached
  /\ Given(d) + Given(Peer(d)) < MaxSends
  /\ \E b \in Sizes :
       LET p == [src |-> d, no |-> Len(accepted[d]) + 1, bytes |-> b]
       IN  SendDown(d, p) \/ SendReady(d, p) \/ SendBusy(d, p) \/ SendFull(d, p)
  /\ UNCHANGED <<now, confVars, stripped, arrived>>

-----------------------------------------------------------------------------
(* The executive runs the events in order.                                 *)

(* Wrong variant: the machine is not READY again.                          *)
TransmitCompleteStaysBusy(ev) ==
  LET d == ev.dev
      q == m_queue[d]
  IN  /\ ev.does = "TransmitComplete"
      /\ m_txMachineState[d] = "BUSY"
      /\ m_currentPkt[d] # None      
      /\ \/ /\ q.m_packets = <<>>
            /\ m_currentPkt' = [m_currentPkt EXCEPT ![d] = None]
            /\ events' = events \ {ev}
            /\ UNCHANGED <<uid, m_queue, m_txMachineState>>
         \/ /\ q.m_packets # <<>>
            /\ m_queue' = [m_queue EXCEPT ![d] = Dequeue(q)]
            /\ TransmitStart(d, Peek(q), ev.ts, events \ {ev})
      /\ UNCHANGED <<confVars, logVars>>

(* The transmitter is done with a packet and turns to the next.            *)
TransmitComplete(ev) ==
  LET d == ev.dev
      q == m_queue[d]
  IN  /\ ev.does = "TransmitComplete"
      /\ m_txMachineState[d] = "BUSY"      \* NS_ASSERT
      /\ m_currentPkt[d] # None            \* NS_ASSERT
      /\ \/ /\ q.m_packets = <<>>
            /\ m_txMachineState' = [m_txMachineState EXCEPT ![d] = "READY"]
            /\ m_currentPkt' = [m_currentPkt EXCEPT ![d] = None]
            /\ events' = events \ {ev}
            /\ UNCHANGED <<uid, m_queue>>
         \/ /\ q.m_packets # <<>>
            /\ m_queue' = [m_queue EXCEPT ![d] = Dequeue(q)]
            /\ TransmitStart(d, Peek(q), ev.ts, events \ {ev})
      /\ UNCHANGED <<confVars, logVars>>

(* A corrupted packet goes no further than the device; of any other one    *)
(* the header is removed before the upper layer gets it.                   *)
Receive(ev) ==
  /\ ev.does = "Receive"
  /\ \E corrupt \in BOOLEAN :
       stripped' = IF corrupt THEN stripped ELSE stripped \union {ev.pkt}
  /\ arrived' = [arrived EXCEPT ![Peer(ev.dev)] = Append(@, ev.pkt)]
  /\ events' = events \ {ev}
  /\ UNCHANGED <<uid, devVars, confVars, accepted, refused, unlinked, macTxDrop>>

RunNext ==
  \E ev \in events :
    /\ IsNext(ev)
    /\ now' = ev.ts
    /\ TransmitComplete(ev) \/ Receive(ev)

(* Time passes to a call that is no event of the link's.                   *)
Wait ==
  /\ Attached
  /\ now < Horizon
  /\ \A ev \in events : now < ev.ts
  /\ now' = now + 1
  /\ UNCHANGED <<events, uid, devVars, confVars, logVars>>

Next ==
  \/ \E d \in Devices : Attach(d) \/ SetDataRate(d) \/ Send(d)
  \/ RunNext
  \/ Wait

(* Simulator::Run serves the list until it is empty.                       *)
Spec == Init /\ [][Next]_vars /\ WF_vars(RunNext)

-----------------------------------------------------------------------------
Events == [ts : Nat, uid : Nat, does : {"TransmitComplete", "Receive"},
           dev : Devices, pkt : Packets \union {None}]

Queues == [m_packets : Seq(Packets), m_bytesInQueue : Int, m_nPackets : Nat, m_nBytes : Int,
           m_nTotalReceivedPackets : Nat, m_nTotalDroppedPackets : Nat]

(* The members' types (that the byte counters, unsigned, are never taken   *)
(* below zero is part of QueueAccounts); every event of the link is still  *)
(* to come.                                                                *)
TypeOK ==
  /\ now \in Nat
  /\ events \subseteq Events
  /\ \A ev \in events : ev.ts >= now /\ ev.uid < uid
  /\ uid \in Nat
  /\ m_link \subseteq Devices
  /\ m_linkUp \in [Devices -> BOOLEAN]
  /\ m_bps \in [Devices -> ByteTimes]
  /\ m_txMachineState \in [Devices -> {"READY", "BUSY"}]
  /\ m_currentPkt \in [Devices -> Packets \union {None}]
  /\ m_queue \in [Devices -> Queues]
  /\ stripped \subseteq Packets
  /\ accepted \in [Devices -> Seq(Packets)]
  /\ refused \in [Devices -> Nat]
  /\ unlinked \in [Devices -> Nat]
  /\ macTxDrop \in [Devices -> Nat]
  /\ arrived \in [Devices -> Seq(Packets)]

Completions(d) == {ev \in events : ev.does = "TransmitComplete" /\ ev.dev = d}

(* What d has put on the wire and its peer has not received.               *)
OnWire(d) == {ev \in events : ev.does = "Receive" /\ ev.pkt.src = d}

(* The transmit machine (TransmitStart, TransmitComplete and Send): a      *)
(* device is busy, holding a packet, exactly while one completion is to    *)
(* come, and a packet waits in the queue only behind one in transmission.  *)
(* So the assertions of TransmitStart and TransmitComplete hold and no     *)
(* packet is left behind in the queue of a device that has gone quiet.     *)
OneTransmission ==
  \A d \in Devices :
    /\ m_txMachineState[d] = "BUSY" <=> m_currentPkt[d] # None
    /\ m_txMachineState[d] = "BUSY" <=> Completions(d) # {}
    /\ \A ev, ew \in Completions(d) : ev = ew
    /\ m_queue[d].m_packets # <<>> => m_txMachineState[d] = "BUSY"

BytesOf(s) ==
  LET total[i \in 0..Len(s)] == IF i = 0 THEN 0 ELSE total[i - 1] + s[i].bytes
  IN total[Len(s)]

(* The queue's two sets of books (DropTailQueue and Queue) agree with its  *)
(* contents and its maximum is never passed.  Every call of Send that      *)
(* reaches the queue is counted once: received if Send returns true,       *)
(* dropped if it returns false.                                            *)
QueueAccounts ==
  \A d \in Devices :
    LET q == m_queue[d]
    IN  /\ q.m_nPackets = Len(q.m_packets)
        /\ q.m_bytesInQueue = BytesOf(q.m_packets)
        /\ q.m_nBytes = q.m_bytesInQueue
        /\ Mode[d] = "PACKETS" => q.m_nPackets <= Limit[d]
        /\ Mode[d] = "BYTES" => q.m_nBytes <= Limit[d]
        /\ q.m_nTotalReceivedPackets = Len(accepted[d])
        /\ q.m_nTotalDroppedPackets = refused[d]

(* What the code does where its documentation says otherwise: MaxBytes is  *)
(* "the maximum number of bytes accepted" (drop-tail-queue.cc:48) and a    *)
(* packet dropped for it "would exceed max bytes" (97), but DoEnqueue      *)
(* compares with >= (95), so a packet that just fits is dropped: a queue   *)
(* that counts bytes never holds the maximum.                              *)
NeverExactlyFull ==
  \A d \in Devices :
    Mode[d] = "BYTES" => m_queue[d].m_nBytes = 0 \/ m_queue[d].m_nBytes < Limit[d]

(* No two packets of one direction reach the peer closer together than the *)
(* second takes to transmit, at some rate the device has had, and the      *)
(* interframe gap: what TransmitStart's txCompleteTime is for.             *)
WireCapacity ==
  \A d \in Devices : \A ev, ew \in OnWire(d) :
    ev.pkt.no < ew.pkt.no =>
      \E b \in ByteTimes : ew.ts >= ev.ts + Gap[d] + ew.pkt.bytes * b

(* The packet TransmitComplete hands to m_phyTxEndTrace still has its      *)
(* header: the receiver, who strips the same object, comes later, unless   *)
(* the interframe gap is longer than the channel's delay.                  *)
WholeAtTxEnd ==
  \A d \in Devices :
    m_currentPkt[d] # None /\ Gap[d] <= Delay => m_currentPkt[d] \notin stripped

Link == INSTANCE FifoLink WITH Ends <- Devices, taken <- accepted, brought <- arrived

(* Send, the queue, the transmit machine and the channel together: a       *)
(* packet that Send took reaches the peer once and in order, whatever the  *)
(* sizes, rates and gaps, and none waits forever.                          *)
ImplementsFifoLink == Link!LinkSpec
=============================================================================
