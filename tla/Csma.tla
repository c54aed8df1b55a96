--------------------------------- MODULE Csma ---------------------------------
(***************************************************************************)
(* A CsmaChannel and the CsmaNetDevices attached to it: carrier sense,     *)
(* back-off and retries, the interframe gap, and propagation to all        *)
(* stations, while configuration code enables, disables, detaches and      *)
(* reattaches devices.                                                     *)
(*                                                                         *)
(* Transmission times, gaps and back-off times are whatever they are: the  *)
(* one event a device has pending may come at any moment.  The Receive     *)
(* events of a frame and the channel's PropagationCompleteEvent are        *)
(* scheduled together for one time: they run in that order.                *)
(*                                                                         *)
(* The packets a device accepts are numbered 1, 2, ...; addresses and      *)
(* headers are left out: a frame counts as received when a station hands   *)
(* it to the classification of its destination.                            *)
(***************************************************************************)
EXTENDS Integers, Sequences

CONSTANTS
  Devices,
  MaxRetries,    \* Backoff::m_maxRetries
  QueueSize,     \* m_maxPackets of the transmit queues
  MaxSends,      \* bound: packets each device accepts
  MaxSwitches    \* bound: changes of the configuration

ASSUME CsmaConstants ==
  /\ MaxRetries \in Nat
  /\ QueueSize \in Nat \ {0}
  /\ MaxSends \in Nat
  /\ MaxSwitches \in Nat

None == 0   \* a null Ptr<Packet>

VARIABLES
  m_state,               \* the channel: IDLE, TRANSMITTING or PROPAGATING
  m_currentSrc, m_wire,  \* the channel's m_currentSrc and m_currentPkt
  active,                \* CsmaDeviceRec::active
  receptions,            \* frames of the pending Receive events
  m_sendEnable, m_receiveEnable,
  m_txMachineState, m_currentPkt, m_queue, m_numBackoffRetries,
  event,                 \* the device's pending event
  accepted,              \* accepted[d]: packets Send of d returned true for
  sent,                  \* sent[d]: those whose transmission ended
  lost,                  \* lost[d]: those m_phyTxDropTrace fired for
  received,              \* received[d][s]: frames of s that reached d
  cut,                   \* history: devices that were once disabled or detached
  switches

channelVars == <<m_state, m_currentSrc, m_wire>>
deviceVars == <<m_txMachineState, m_currentPkt, m_queue, m_numBackoffRetries, event, lost>>
confVars == <<active, m_sendEnable, m_receiveEnable, cut, switches>>
vars == <<channelVars, deviceVars, confVars, receptions, accepted, sent, received>>

\* CsmaHelper has attached the devices; m_currentSrc is not initialised.
Init ==
  /\ m_state = "IDLE" /\ m_wire = None
  /\ m_currentSrc \in Devices
  /\ active = [d \in Devices |-> TRUE]
  /\ receptions = {}
  /\ m_sendEnable = [d \in Devices |-> TRUE]
  /\ m_receiveEnable = [d \in Devices |-> TRUE]
  /\ m_txMachineState = [d \in Devices |-> "READY"]
  /\ m_currentPkt = [d \in Devices |-> None]
  /\ m_queue = [d \in Devices |-> <<>>]
  /\ m_numBackoffRetries = [d \in Devices |-> 0]
  /\ event = [d \in Devices |-> "none"]
  /\ accepted = [d \in Devices |-> 0]
  /\ sent = [d \in Devices |-> {}]
  /\ lost = [d \in Devices |-> {}]
  /\ received = [d \in Devices |-> [s \in Devices |-> {}]]
  /\ cut = {}
  /\ switches = 0

-----------------------------------------------------------------------------
(* The transmit state machine *)

\* Set the whole of device d's machine, with the number of its retries.
Machine(d, st, p, q, retries, ev) ==
  /\ m_txMachineState' = [m_txMachineState EXCEPT ![d] = st]
  /\ m_currentPkt' = [m_currentPkt EXCEPT ![d] = p]
  /\ m_queue' = [m_queue EXCEPT ![d] = q]
  /\ m_numBackoffRetries' = [m_numBackoffRetries EXCEPT ![d] = retries]
  /\ event' = [event EXCEPT ![d] = ev]

Drop(d, ps) == lost' = [lost EXCEPT ![d] = @ \cup ps]

\* Wrong version: one retry too many.
MaxRetriesExceeded(d) == m_numBackoffRetries[d] > MaxRetries

MaxRetriesReached(d) == m_numBackoffRetries[d] >= MaxRetries

\* Wrong version: listens to the sender only.
NobodyTransmits == m_state # "TRANSMITTING"

ChannelIdle == m_state = "IDLE"

\* Send is disabled: the packet is dropped and everything else stays.
DropDisabled(d, st, p, q) ==
  /\ ~m_sendEnable[d]
  /\ Machine(d, st, None, q, m_numBackoffRetries[d], "none")
  /\ Drop(d, {p})
  /\ UNCHANGED channelVars

BackOff(d, p, q) ==
  /\ m_sendEnable[d] /\ ~ChannelIdle /\ ~MaxRetriesReached(d)
  /\ Machine(d, "BACKOFF", p, q, m_numBackoffRetries[d] + 1, "TransmitStart")
  /\ UNCHANGED <<channelVars, lost>>

InQueue(q) == {q[i] : i \in DOMAIN q}

\* Too many retries: the next packet is tried at once, finds the channel as
\* busy as before and backs off for the first time, or is given up as well
\* if no retry is allowed, and so on through the queue.
TransmitAbort(d, p, q) ==
  /\ m_sendEnable[d] /\ ~ChannelIdle /\ MaxRetriesReached(d)
  /\ IF q = <<>> \/ MaxRetries = 0
     THEN Machine(d, "READY", None, <<>>, 0, "none") /\ Drop(d, {p} \cup InQueue(q))
     ELSE Machine(d, "BACKOFF", Head(q), Tail(q), 1, "TransmitStart") /\ Drop(d, {p})
  /\ UNCHANGED channelVars

\* The channel does not take frames of a detached device.
DropDetached(d, p, q) ==
  /\ m_sendEnable[d] /\ ChannelIdle /\ ~active[d]
  /\ Machine(d, "READY", None, q, m_numBackoffRetries[d], "none")
  /\ Drop(d, {p})
  /\ UNCHANGED channelVars

BeginTransmission(d, p, q) ==
  /\ m_sendEnable[d] /\ ChannelIdle /\ active[d]
  /\ m_state' = "TRANSMITTING" /\ m_currentSrc' = d /\ m_wire' = p
  /\ Machine(d, "BUSY", p, q, 0, "TransmitComplete")
  /\ UNCHANGED lost

\* TransmitStart with current packet p, queue q and state st.
TransmitStart(d, st, p, q) ==
  \/ DropDisabled(d, st, p, q)
  \/ BackOff(d, p, q)
  \/ TransmitAbort(d, p, q)
  \/ DropDetached(d, p, q)
  \/ BeginTransmission(d, p, q)

-----------------------------------------------------------------------------
(* The events of a device *)

BackoffEnds(d) ==
  /\ event[d] = "TransmitStart"
  /\ TransmitStart(d, m_txMachineState[d], m_currentPkt[d], m_queue[d])
  /\ UNCHANGED <<confVars, receptions, accepted, sent, received>>

\* TransmitEnd of the channel: a copy for every device attached now.
Copies == {[to |-> d, src |-> m_currentSrc, pkt |-> m_wire] : d \in {e \in Devices : active[e]}}

\* Wrong version: the packet stays the current one.
TransmitCompleteEventKeeps(d) ==
  /\ event[d] = "TransmitComplete"
  /\ m_state' = "PROPAGATING"
  /\ receptions' = receptions \cup Copies
  /\ sent' = [sent EXCEPT ![d] = @ \cup {m_currentPkt[d]}]
  /\ Machine(d, "GAP", m_currentPkt[d], m_queue[d], m_numBackoffRetries[d], "TransmitReady")
  /\ UNCHANGED <<m_currentSrc, m_wire, lost, confVars, accepted, received>>

TransmitCompleteEvent(d) ==
  /\ event[d] = "TransmitComplete"
  /\ m_state' = "PROPAGATING"
  /\ receptions' = receptions \cup Copies
  /\ sent' = [sent EXCEPT ![d] = @ \cup {m_currentPkt[d]}]
  /\ Machine(d, "GAP", None, m_queue[d], m_numBackoffRetries[d], "TransmitReady")
  /\ UNCHANGED <<m_currentSrc, m_wire, lost, confVars, accepted, received>>

\* Wrong version: waits for the next Send to go on.
TransmitReadyEventWaits(d) ==
  /\ event[d] = "TransmitReady"
  /\ Machine(d, "READY", None, m_queue[d], m_numBackoffRetries[d], "none")
  /\ UNCHANGED <<channelVars, lost, confVars, receptions, accepted, sent, received>>

\* The gap is over: go on with the next packet of the queue.
TransmitReadyEvent(d) ==
  /\ event[d] = "TransmitReady"
  /\ IF m_queue[d] = <<>>
     THEN /\ Machine(d, "READY", None, <<>>, m_numBackoffRetries[d], "none")
          /\ UNCHANGED <<channelVars, lost>>
     ELSE TransmitStart(d, "READY", Head(m_queue[d]), Tail(m_queue[d]))
  /\ UNCHANGED <<confVars, receptions, accepted, sent, received>>

-----------------------------------------------------------------------------
(* The events of the channel *)

\* A station never hears itself; a disabled receiver, an error model or the
\* checksum drops the frame.
Receive(f) ==
  /\ f \in receptions
  /\ receptions' = receptions \ {f}
  /\ \/ UNCHANGED received
     \/ /\ f.to # f.src /\ m_receiveEnable[f.to]
        /\ received' = [received EXCEPT ![f.to][f.src] = @ \cup {f.pkt}]
  /\ UNCHANGED <<channelVars, deviceVars, confVars, accepted, sent>>

PropagationCompleteEvent ==
  /\ m_state = "PROPAGATING" /\ receptions = {}
  /\ m_state' = "IDLE"
  /\ UNCHANGED <<m_currentSrc, m_wire, deviceVars, confVars, receptions, accepted, sent, received>>

-----------------------------------------------------------------------------
(* Calls of upper layers and of configuration code *)

\* A disabled device or a full queue refuses the packet: nothing changes.
\* A device that is ready takes the oldest of its queue, not necessarily
\* this packet.
Send(d) ==
  /\ accepted[d] < MaxSends
  /\ m_sendEnable[d] /\ Len(m_queue[d]) < QueueSize
  /\ accepted' = [accepted EXCEPT ![d] = @ + 1]
  /\ LET q == Append(m_queue[d], accepted[d] + 1) IN
     IF m_txMachineState[d] = "READY"
     THEN TransmitStart(d, "READY", Head(q), Tail(q))
     ELSE /\ m_queue' = [m_queue EXCEPT ![d] = q]
          /\ UNCHANGED <<channelVars, m_txMachineState, m_currentPkt, m_numBackoffRetries,
                         event, lost>>
  /\ UNCHANGED <<confVars, receptions, sent, received>>

\* A call that sets what is set already changes nothing and is left out.
Switch == switches < MaxSwitches /\ switches' = switches + 1

SetSendEnable(d) ==
  /\ Switch
  /\ m_sendEnable' = [m_sendEnable EXCEPT ![d] = ~@]
  /\ cut' = cut \cup {d}
  /\ UNCHANGED <<channelVars, deviceVars, active, m_receiveEnable, receptions, accepted, sent,
                 received>>

SetReceiveEnable(d) ==
  /\ Switch
  /\ m_receiveEnable' = [m_receiveEnable EXCEPT ![d] = ~@]
  /\ UNCHANGED <<channelVars, deviceVars, active, m_sendEnable, cut, receptions, accepted, sent,
                 received>>

\* Frames on their way to it still arrive, a transmission of its own goes on.
Detach(d) ==
  /\ Switch /\ active[d]
  /\ active' = [active EXCEPT ![d] = FALSE]
  /\ cut' = cut \cup {d}
  /\ UNCHANGED <<channelVars, deviceVars, m_sendEnable, m_receiveEnable, receptions, accepted,
                 sent, received>>

Reattach(d) ==
  /\ Switch /\ ~active[d]
  /\ active' = [active EXCEPT ![d] = TRUE]
  /\ UNCHANGED <<channelVars, deviceVars, m_sendEnable, m_receiveEnable, cut, receptions,
                 accepted, sent, received>>

DeviceEvent(d) == BackoffEnds(d) \/ TransmitCompleteEvent(d) \/ TransmitReadyEvent(d)
ChannelEvent == PropagationCompleteEvent \/ \E f \in receptions : Receive(f)

Call(d) ==
  \/ Send(d)
  \/ SetSendEnable(d) \/ SetReceiveEnable(d)
  \/ Detach(d) \/ Reattach(d)

Next ==
  \/ ChannelEvent
  \/ \E d \in Devices : DeviceEvent(d) \/ Call(d)

\* Simulator::Run runs every event that is pending.
Fairness == WF_vars(ChannelEvent) /\ \A d \in Devices : WF_vars(DeviceEvent(d))

Spec == Init /\ [][Next]_vars /\ Fairness

-----------------------------------------------------------------------------
(* Properties *)

Packets == 1..MaxSends
Frames == [to : Devices, src : Devices, pkt : Packets]

\* Types, the capacity of the queues and the bound of the retries.
TypeOK ==
  /\ m_state \in {"IDLE", "TRANSMITTING", "PROPAGATING"}
  /\ m_currentSrc \in Devices /\ m_wire \in Packets \cup {None}
  /\ active \in [Devices -> BOOLEAN]
  /\ receptions \subseteq Frames
  /\ m_sendEnable \in [Devices -> BOOLEAN] /\ m_receiveEnable \in [Devices -> BOOLEAN]
  /\ m_txMachineState \in [Devices -> {"READY", "BUSY", "GAP", "BACKOFF"}]
  /\ m_currentPkt \in [Devices -> Packets \cup {None}]
  /\ m_queue \in [Devices -> Seq(Packets)]
  /\ \A d \in Devices : Len(m_queue[d]) <= QueueSize
  /\ m_numBackoffRetries \in [Devices -> 0..MaxRetries]
  /\ event \in [Devices -> {"none", "TransmitStart", "TransmitComplete", "TransmitReady"}]
  /\ accepted \in [Devices -> 0..MaxSends]
  /\ sent \in [Devices -> SUBSET Packets] /\ lost \in [Devices -> SUBSET Packets]
  /\ received \in [Devices -> [Devices -> SUBSET Packets]]
  /\ cut \subseteq Devices
  /\ switches \in 0..MaxSwitches

\* One frame at a time: a device is transmitting exactly while the channel
\* carries its current packet, frames reach the stations only while the
\* channel propagates them, and every state of the machine has its event
\* (csma-channel.cc:171, 202, 245; the assertions of csma-net-device.cc:437,
\* 555, 556, 586).
OneFrameAtATime ==
  /\ \A d \in Devices :
       m_txMachineState[d] = "BUSY" <=> m_state = "TRANSMITTING" /\ m_currentSrc = d
  /\ m_state = "TRANSMITTING" => m_wire # None /\ m_currentPkt[m_currentSrc] = m_wire
  /\ \A f \in receptions : m_state = "PROPAGATING" /\ f.src = m_currentSrc /\ f.pkt = m_wire
  /\ \A d \in Devices :
       /\ event[d] = "TransmitComplete" <=> m_txMachineState[d] = "BUSY"
       /\ event[d] = "TransmitReady" <=> m_txMachineState[d] = "GAP"
       /\ event[d] = "TransmitStart" <=> m_txMachineState[d] = "BACKOFF" /\ m_currentPkt[d] # None
       /\ m_txMachineState[d] \in {"READY", "GAP"} => m_currentPkt[d] = None

\* How many packets of d have left its queue and its hands.
Gone(d) == accepted[d] - Len(m_queue[d]) - (IF m_currentPkt[d] = None THEN 0 ELSE 1)

\* The queue holds the last packets, the current one comes before them, and
\* what came before that was either sent once or dropped with a trace.
Placed(d) ==
  /\ m_currentPkt[d] # None => m_currentPkt[d] = Gone(d) + 1
  /\ \A i \in DOMAIN m_queue[d] : m_queue[d][i] = accepted[d] - Len(m_queue[d]) + i
  /\ sent[d] \cup lost[d] = 1..Gone(d)
  /\ sent[d] \cap lost[d] = {}

InTheirPlaces == \A d \in Devices : Placed(d)

\* What is on the wire is newer than all that any station has received from
\* its sender; nobody received what was not sent.
NewOnTheWire ==
  \A d, e \in Devices :
    /\ received[d][e] \subseteq sent[e]
    /\ \A f \in receptions : f.to = d /\ f.src = e => \A p \in received[d][e] : p < f.pkt

\* Every packet a device accepted is in one place, in order, and reaches a
\* station at most once and after its predecessors (csma-net-device.cc:426,
\* 479, 513, 536, 604, 941, 956; csma-channel.cc:171, 184, 220).
EveryPacketOnce == InTheirPlaces /\ NewOnTheWire

\* Every accepted packet is sent or dropped in the end, however busy the
\* channel: back-off gives up after m_maxRetries.  The exception are devices
\* that were disabled or detached (csma-net-device.cc:452, 541, 608).
EveryPacketLeaves ==
  \A d \in Devices, p \in Packets :
    accepted[d] >= p ~> (p \in sent[d] \cup lost[d] \/ d \in cut)

\* Of a device that is not idle, "the transmission will be started when the
\* current packet finished": a queued packet has an event to wait for.
QueueIsServed == \A d \in Devices : m_queue[d] # <<>> => event[d] # "none"

=============================================================================
