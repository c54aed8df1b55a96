------------------------------ MODULE CsmaProofs ------------------------------
(***************************************************************************)
(* Theorems about Csma, for any number of stations, of retries and of      *)
(* packets and any size of the queues, while devices are disabled,         *)
(* enabled, detached and reattached at any moment.                         *)
(***************************************************************************)
EXTENDS Csma, TLAPS

\* Every frame on its way to a station has been sent in full.
SentInFull == \A f \in receptions : f.pkt \in sent[f.src]

IInv == TypeOK /\ OneFrameAtATime /\ InTheirPlaces /\ NewOnTheWire /\ SentInFull

\* What a call of TransmitStart leaves alone.
Bystanders == <<confVars, receptions, sent, received>>

-----------------------------------------------------------------------------
(* The transmit state machine                                              *)

LEMMA NextPlace ==
  ASSUME NEW a \in Nat, NEW n \in Nat, NEW i \in Int
  PROVE  a - n + (i + 1) = a - n + 1 + i
OBVIOUS

\* The types of the device's machine.
MachineTypes ==
  /\ m_txMachineState \in [Devices -> {"READY", "BUSY", "GAP", "BACKOFF"}]
  /\ m_currentPkt \in [Devices -> Packets \cup {None}]
  /\ m_queue \in [Devices -> Seq(Packets)]
  /\ \A e \in Devices : Len(m_queue[e]) <= QueueSize
  /\ m_numBackoffRetries \in [Devices -> 0..MaxRetries]
  /\ event \in [Devices -> {"none", "TransmitStart", "TransmitComplete", "TransmitReady"}]

\* The machines of the other devices do not move.
OthersStay(d) ==
  \A e \in Devices \ {d} :
    /\ m_txMachineState'[e] = m_txMachineState[e]
    /\ m_currentPkt'[e] = m_currentPkt[e] /\ m_queue'[e] = m_queue[e]
    /\ event'[e] = event[e]

LEMMA MachineSets ==
  ASSUME TypeOK, NEW d \in Devices,
         NEW st \in {"READY", "BUSY", "GAP", "BACKOFF"}, NEW p \in Packets \cup {None},
         NEW q \in Seq(Packets), Len(q) <= QueueSize, NEW n \in 0..MaxRetries,
         NEW ev \in {"none", "TransmitStart", "TransmitComplete", "TransmitReady"},
         Machine(d, st, p, q, n, ev)
  PROVE  /\ MachineTypes'
         /\ OthersStay(d)
         /\ m_txMachineState'[d] = st /\ m_currentPkt'[d] = p /\ m_queue'[d] = q
         /\ event'[d] = ev
BY DEF Machine, TypeOK, MachineTypes, OthersStay

LEMMA HeadAndTail ==
  ASSUME NEW S, NEW q \in Seq(S), q # <<>>
  PROVE  /\ Len(q) \in Nat \ {0} /\ Head(q) \in S /\ Head(q) = q[1]
         /\ Tail(q) \in Seq(S) /\ Len(Tail(q)) = Len(q) - 1
         /\ \A i \in 1 .. Len(q) - 1 : Tail(q)[i] = q[i + 1]
OBVIOUS

\* The packet becomes the current one or is lost; after the last retry it is
\* lost and the next one becomes the current one, or the whole queue is lost.
Fate(d, p, q) ==
  \/ m_currentPkt'[d] = p /\ m_queue'[d] = q /\ UNCHANGED lost
  \/ m_currentPkt'[d] = None /\ m_queue'[d] = q /\ Drop(d, {p})
  \/ m_currentPkt'[d] = None /\ m_queue'[d] = <<>> /\ Drop(d, {p} \cup InQueue(q))
  \/ q # <<>> /\ m_currentPkt'[d] = Head(q) /\ m_queue'[d] = Tail(q) /\ Drop(d, {p})

StaysOff(d) ==
  /\ UNCHANGED channelVars
  /\ \/ m_txMachineState'[d] = "READY" /\ m_currentPkt'[d] = None /\ event'[d] = "none"
     \/ m_txMachineState'[d] = "BACKOFF" /\ m_currentPkt'[d] = None /\ event'[d] = "none"
     \/ /\ m_txMachineState'[d] = "BACKOFF" /\ m_currentPkt'[d] # None
        /\ event'[d] = "TransmitStart"

GoesOnTheWire(d, p) ==
  /\ m_state = "IDLE" /\ m_state' = "TRANSMITTING"
  /\ m_currentSrc' = d /\ m_wire' = p
  /\ m_txMachineState'[d] = "BUSY" /\ m_currentPkt'[d] = p
  /\ event'[d] = "TransmitComplete"

\* What TransmitStart does to its device and to the channel.
LEMMA StartOutcomes ==
  ASSUME TypeOK, NEW d \in Devices, NEW st \in {"READY", "BACKOFF"}, NEW p \in Packets,
         NEW q \in Seq(Packets), Len(q) <= QueueSize,
         TransmitStart(d, st, p, q)
  PROVE  /\ MachineTypes' /\ OthersStay(d) /\ Fate(d, p, q)
         /\ StaysOff(d) \/ GoesOnTheWire(d, p)
<1>1. /\ MaxRetries \in Nat /\ m_numBackoffRetries[d] \in 0..MaxRetries
      /\ 0 \in 0..MaxRetries /\ (MaxRetries # 0 => 1 \in 0..MaxRetries)
  BY CsmaConstants DEF TypeOK
<1>2. p # None /\ p \in Packets \cup {None} /\ None \in Packets \cup {None}
  BY DEF Packets, None
<1>3. CASE DropDisabled(d, st, p, q)
  <2>1. Machine(d, st, None, q, m_numBackoffRetries[d], "none")
    BY <1>3 DEF DropDisabled
  <2>2. /\ MachineTypes' /\ OthersStay(d)
        /\ m_txMachineState'[d] = st /\ m_currentPkt'[d] = None /\ m_queue'[d] = q
        /\ event'[d] = "none"
    <3>1. CASE st = "READY"
      BY <1>1, <1>2, <2>1, <3>1, MachineSets
    <3>2. CASE st = "BACKOFF"
      BY <1>1, <1>2, <2>1, <3>2, MachineSets
    <3> QED BY <3>1, <3>2
  <2> QED BY <1>3, <2>2 DEF DropDisabled, Fate, StaysOff
<1>4. CASE BackOff(d, p, q)
  <2>1. m_numBackoffRetries[d] + 1 \in 0..MaxRetries
    BY <1>1, <1>4 DEF BackOff, MaxRetriesReached
  <2>2. Machine(d, "BACKOFF", p, q, m_numBackoffRetries[d] + 1, "TransmitStart")
    BY <1>4 DEF BackOff
  <2>3. /\ MachineTypes' /\ OthersStay(d)
        /\ m_txMachineState'[d] = "BACKOFF" /\ m_currentPkt'[d] = p /\ m_queue'[d] = q
        /\ event'[d] = "TransmitStart"
    BY <1>2, <2>1, <2>2, MachineSets
  <2> QED BY <1>2, <1>4, <2>3 DEF BackOff, Fate, StaysOff
<1>5. CASE TransmitAbort(d, p, q)
  <2>1. CASE q = <<>> \/ MaxRetries = 0
    <3>1. Machine(d, "READY", None, <<>>, 0, "none") /\ Drop(d, {p} \cup InQueue(q))
      BY <1>5, <2>1 DEF TransmitAbort
    <3>2. <<>> \in Seq(Packets) /\ Len(<<>>) <= QueueSize
      BY CsmaConstants
    <3>3. /\ MachineTypes' /\ OthersStay(d)
          /\ m_txMachineState'[d] = "READY" /\ m_currentPkt'[d] = None /\ m_queue'[d] = <<>>
          /\ event'[d] = "none"
      BY <1>1, <1>2, <3>1, <3>2, MachineSets
    <3> QED BY <1>5, <3>1, <3>3 DEF TransmitAbort, Fate, StaysOff
  <2>2. CASE q # <<>> /\ MaxRetries # 0
    <3>1. /\ Head(q) \in Packets \cup {None} /\ Head(q) # None /\ Tail(q) \in Seq(Packets)
          /\ Len(Tail(q)) <= QueueSize
      BY <2>2, HeadAndTail, CsmaConstants DEF Packets, None
    <3>2. Machine(d, "BACKOFF", Head(q), Tail(q), 1, "TransmitStart")
      BY <1>5, <2>2 DEF TransmitAbort
    <3>3. /\ MachineTypes' /\ OthersStay(d)
          /\ m_txMachineState'[d] = "BACKOFF" /\ m_currentPkt'[d] = Head(q)
          /\ m_queue'[d] = Tail(q) /\ event'[d] = "TransmitStart"
      BY <1>1, <2>2, <3>1, <3>2, MachineSets
    <3>4. Drop(d, {p}) /\ UNCHANGED channelVars
      BY <1>5, <2>2 DEF TransmitAbort
    <3> QED BY <2>2, <3>1, <3>3, <3>4 DEF Fate, StaysOff
  <2> QED BY <2>1, <2>2
<1>6. CASE DropDetached(d, p, q)
  <2>1. Machine(d, "READY", None, q, m_numBackoffRetries[d], "none")
    BY <1>6 DEF DropDetached
  <2>2. /\ MachineTypes' /\ OthersStay(d)
        /\ m_txMachineState'[d] = "READY" /\ m_currentPkt'[d] = None /\ m_queue'[d] = q
        /\ event'[d] = "none"
    BY <1>1, <1>2, <2>1, MachineSets
  <2> QED BY <1>6, <2>2 DEF DropDetached, Fate, StaysOff
<1>7. CASE BeginTransmission(d, p, q)
  <2>1. Machine(d, "BUSY", p, q, 0, "TransmitComplete")
    BY <1>7 DEF BeginTransmission
  <2>2. /\ MachineTypes' /\ OthersStay(d)
        /\ m_txMachineState'[d] = "BUSY" /\ m_currentPkt'[d] = p /\ m_queue'[d] = q
        /\ event'[d] = "TransmitComplete"
    BY <1>1, <1>2, <2>1, MachineSets
  <2> QED BY <1>7, <2>2 DEF BeginTransmission, ChannelIdle, Fate, GoesOnTheWire
<1> QED BY <1>3, <1>4, <1>5, <1>6, <1>7 DEF TransmitStart

LEMMA StartKeepsTypes ==
  ASSUME TypeOK, NEW d \in Devices, NEW st \in {"READY", "BACKOFF"}, NEW p \in Packets,
         NEW q \in Seq(Packets), Len(q) <= QueueSize,
         TransmitStart(d, st, p, q),
         accepted' \in [Devices -> 0..MaxSends],
         UNCHANGED Bystanders
  PROVE  TypeOK'
<1>1. MachineTypes' /\ Fate(d, p, q) /\ (StaysOff(d) \/ GoesOnTheWire(d, p))
  BY StartOutcomes
<1>2. /\ m_state' \in {"IDLE", "TRANSMITTING", "PROPAGATING"}
      /\ m_currentSrc' \in Devices /\ m_wire' \in Packets \cup {None}
  BY <1>1 DEF TypeOK, channelVars, StaysOff, GoesOnTheWire
<1>3. lost' \in [Devices -> SUBSET Packets]
  <2>1. lost \in [Devices -> SUBSET Packets] /\ InQueue(q) \subseteq Packets
    BY DEF TypeOK, InQueue
  <2>2. ASSUME NEW ps \in SUBSET Packets, Drop(d, ps)
        PROVE  lost' \in [Devices -> SUBSET Packets]
    <3>1. lost[d] \cup ps \in SUBSET Packets
      BY <2>1
    <3> QED BY <2>1, <2>2, <3>1 DEF Drop
  <2>3. {p} \in SUBSET Packets /\ {p} \cup InQueue(q) \in SUBSET Packets
    BY <2>1
  <2>4. UNCHANGED lost \/ Drop(d, {p}) \/ Drop(d, {p} \cup InQueue(q))
    BY <1>1 DEF Fate
  <2> QED BY <2>1, <2>2, <2>3, <2>4
<1> QED BY <1>1, <1>2, <1>3 DEF TypeOK, MachineTypes, Bystanders, confVars

LEMMA QuietKeepsOneFrame ==
  ASSUME TypeOK, OneFrameAtATime, NEW d \in Devices,
         m_txMachineState[d] # "BUSY",
         OthersStay(d), StaysOff(d), receptions' = receptions
  PROVE  OneFrameAtATime'
<1>1. m_state = "TRANSMITTING" => m_currentSrc # d
  BY DEF OneFrameAtATime
<1>2. m_currentSrc \in Devices
  BY DEF TypeOK
<1>3. UNCHANGED <<m_state, m_currentSrc, m_wire>>
  BY DEF StaysOff, channelVars
<1>4. ASSUME NEW e \in Devices
      PROVE  m_txMachineState'[e] = "BUSY"
               <=> m_state' = "TRANSMITTING" /\ m_currentSrc' = e
  BY <1>1, <1>3 DEF OneFrameAtATime, StaysOff, OthersStay
<1>5. m_state' = "TRANSMITTING" => m_wire' # None /\ m_currentPkt'[m_currentSrc'] = m_wire'
  BY <1>1, <1>2, <1>3 DEF OneFrameAtATime, OthersStay
<1>6. \A f \in receptions' :
        m_state' = "PROPAGATING" /\ f.src = m_currentSrc' /\ f.pkt = m_wire'
  BY <1>3 DEF OneFrameAtATime
<1>7. ASSUME NEW e \in Devices
      PROVE  /\ event'[e] = "TransmitComplete" <=> m_txMachineState'[e] = "BUSY"
             /\ event'[e] = "TransmitReady" <=> m_txMachineState'[e] = "GAP"
             /\ event'[e] = "TransmitStart" <=>
                  m_txMachineState'[e] = "BACKOFF" /\ m_currentPkt'[e] # None
             /\ m_txMachineState'[e] \in {"READY", "GAP"} => m_currentPkt'[e] = None
  BY DEF OneFrameAtATime, StaysOff, OthersStay
<1> QED BY <1>4, <1>5, <1>6, <1>7 DEF OneFrameAtATime

\* Only an idle channel begins to carry a frame, so none is propagating.
LEMMA StartKeepsOneFrame ==
  ASSUME TypeOK, OneFrameAtATime,
         NEW d \in Devices, NEW st \in {"READY", "BACKOFF"}, NEW p \in Packets,
         NEW q \in Seq(Packets), Len(q) <= QueueSize,
         m_txMachineState[d] # "BUSY",
         TransmitStart(d, st, p, q),
         UNCHANGED Bystanders
  PROVE  OneFrameAtATime'
<1>1. OthersStay(d) /\ (StaysOff(d) \/ GoesOnTheWire(d, p))
  BY StartOutcomes
<1>2. receptions' = receptions
  BY DEF Bystanders
<1>3. CASE StaysOff(d)
  BY <1>1, <1>2, <1>3, QuietKeepsOneFrame
<1>4. CASE GoesOnTheWire(d, p)
  <2>1. receptions' = {} /\ p # None
    BY <1>2, <1>4 DEF OneFrameAtATime, GoesOnTheWire, Packets, None
  <2>2. ASSUME NEW e \in Devices
        PROVE  m_txMachineState'[e] = "BUSY"
                 <=> m_state' = "TRANSMITTING" /\ m_currentSrc' = e
    BY <1>1, <1>4 DEF OneFrameAtATime, GoesOnTheWire, OthersStay
  <2>3. ASSUME NEW e \in Devices
        PROVE  /\ event'[e] = "TransmitComplete" <=> m_txMachineState'[e] = "BUSY"
               /\ event'[e] = "TransmitReady" <=> m_txMachineState'[e] = "GAP"
               /\ event'[e] = "TransmitStart" <=>
                    m_txMachineState'[e] = "BACKOFF" /\ m_currentPkt'[e] # None
               /\ m_txMachineState'[e] \in {"READY", "GAP"} => m_currentPkt'[e] = None
    BY <1>1, <1>4 DEF OneFrameAtATime, GoesOnTheWire, OthersStay
  <2> QED BY <1>4, <2>1, <2>2, <2>3 DEF OneFrameAtATime, GoesOnTheWire
<1> QED BY <1>1, <1>3, <1>4

\* TransmitStart gets the packet before the queue, all that came before it
\* being sent or lost: it ends as the current packet or as the last one lost.
LEMMA StartKeepsPlaces ==
  ASSUME TypeOK, NEW d \in Devices, NEW st \in {"READY", "BACKOFF"}, NEW p \in Packets,
         NEW q \in Seq(Packets), Len(q) <= QueueSize,
         TransmitStart(d, st, p, q),
         UNCHANGED Bystanders,
         accepted' \in [Devices -> 0..MaxSends],
         \A e \in Devices \ {d} : accepted'[e] = accepted[e] /\ Placed(e),
         p = accepted'[d] - Len(q),
         \A i \in 1 .. Len(q) : q[i] = p + i,
         sent[d] \cup lost[d] = 1 .. p - 1,
         sent[d] \cap lost[d] = {}
  PROVE  InTheirPlaces'
<1>1. OthersStay(d) /\ Fate(d, p, q)
  BY StartOutcomes
<1>2. sent' = sent
  BY DEF Bystanders
<1>3. \A e \in Devices \ {d} : lost'[e] = lost[e]
  BY <1>1 DEF Fate, Drop, TypeOK
<1>4. \A ps \in SUBSET Packets : Drop(d, ps) => lost'[d] = lost[d] \cup ps
  BY DEF Drop, TypeOK
<1>5. ASSUME NEW e \in Devices \ {d} PROVE Placed(e)'
  <2>1. /\ m_currentPkt'[e] = m_currentPkt[e] /\ m_queue'[e] = m_queue[e]
        /\ accepted'[e] = accepted[e] /\ lost'[e] = lost[e] /\ sent'[e] = sent[e]
    BY <1>1, <1>2, <1>3 DEF OthersStay
  <2>2. Gone(e)' = Gone(e) /\ Placed(e)
    BY <2>1 DEF Gone
  <2> QED BY <2>1, <2>2 DEF Placed
<1>6. Placed(d)'
  <2>1. p \in Nat \ {0} /\ accepted'[d] \in Nat /\ Len(q) \in Nat /\ p # None
    BY CsmaConstants DEF Packets, None
  <2>2. DOMAIN q = 1 .. Len(q)
    OBVIOUS
  <2>3. Drop(d, {p}) => sent'[d] \cup lost'[d] = 1 .. p /\ sent'[d] \cap lost'[d] = {}
    <3> SUFFICES ASSUME Drop(d, {p})
                 PROVE  sent'[d] \cup lost'[d] = 1 .. p /\ sent'[d] \cap lost'[d] = {}
      OBVIOUS
    <3>1. sent'[d] = sent[d] /\ lost'[d] = lost[d] \cup {p}
      BY <1>2, <1>4
    <3>2. 1 .. p = (1 .. p - 1) \cup {p} /\ p \notin 1 .. p - 1
      BY <2>1
    <3> QED BY <3>1, <3>2
  <2>4. CASE m_currentPkt'[d] = p /\ m_queue'[d] = q /\ UNCHANGED lost
    <3>1. Gone(d)' = p - 1
      BY <2>1, <2>4 DEF Gone
    <3>2. sent'[d] \cup lost'[d] = 1 .. p - 1 /\ sent'[d] \cap lost'[d] = {}
      BY <1>2, <2>4
    <3> QED BY <2>1, <2>2, <2>4, <3>1, <3>2 DEF Placed
  <2>5. CASE m_currentPkt'[d] = None /\ m_queue'[d] = q /\ Drop(d, {p})
    <3>1. Gone(d)' = p
      BY <2>1, <2>5 DEF Gone
    <3> QED BY <2>1, <2>2, <2>3, <2>5, <3>1 DEF Placed
  <2>6. CASE q # <<>> /\ m_currentPkt'[d] = Head(q) /\ m_queue'[d] = Tail(q) /\ Drop(d, {p})
    <3>1. Head(q) = q[1] /\ Len(q) \in Nat \ {0}
      BY <2>6, HeadAndTail
    <3>2. m_currentPkt'[d] = p + 1 /\ p + 1 # None
      BY <2>1, <2>6, <3>1 DEF None
    <3>3. /\ Len(m_queue'[d]) = Len(q) - 1
          /\ \A i \in 1 .. Len(q) - 1 : m_queue'[d][i] = q[i + 1]
      BY <2>6, HeadAndTail
    <3>4. Gone(d)' = p
      BY <2>1, <3>1, <3>2, <3>3 DEF Gone
    <3>5. ASSUME NEW i \in 1 .. Len(q) - 1
          PROVE  m_queue'[d][i] = accepted'[d] - (Len(q) - 1) + i
      <4>1. i + 1 \in 1 .. Len(q)
        BY <3>1
      <4>2. q[i + 1] = p + (i + 1)
        BY <4>1
      <4>3. m_queue'[d][i] = p + (i + 1) /\ i \in Int
        BY <3>1, <3>3, <4>2
      <4> QED BY <2>1, <4>3
    <3>6. DOMAIN m_queue'[d] = 1 .. Len(q) - 1
      BY <2>6, <3>1, <3>3, HeadAndTail
    <3> QED BY <2>3, <2>6, <3>2, <3>3, <3>4, <3>5, <3>6 DEF Placed
  <2>7. CASE m_currentPkt'[d] = None /\ m_queue'[d] = <<>> /\ Drop(d, {p} \cup InQueue(q))
    <3>1. lost'[d] = lost[d] \cup ({p} \cup InQueue(q))
      <4>1. {p} \cup InQueue(q) \in SUBSET Packets
        BY DEF InQueue
      <4> QED BY <1>4, <2>7, <4>1
    <3>2. accepted'[d] = p + Len(q) /\ Gone(d)' = accepted'[d]
      BY <2>1, <2>7 DEF Gone
    <3>3. InQueue(q) = p + 1 .. p + Len(q)
      <4>1. \A i \in 1 .. Len(q) : q[i] \in p + 1 .. p + Len(q)
        BY <2>1
      <4>2. ASSUME NEW n \in p + 1 .. p + Len(q) PROVE n \in InQueue(q)
        <5>1. n - p \in 1 .. Len(q) /\ p + (n - p) = n
          BY <2>1
        <5>2. q[n - p] = n
          BY <5>1
        <5> QED BY <2>2, <5>1, <5>2 DEF InQueue
      <4> QED BY <2>2, <4>1, <4>2 DEF InQueue
    <3>4. (1 .. p - 1) \cup ({p} \cup (p + 1 .. p + Len(q))) = 1 .. p + Len(q)
      BY <2>1
    <3>5. sent'[d] \cup lost'[d] = 1 .. Gone(d)'
      BY <1>2, <3>1, <3>2, <3>3, <3>4
    <3>6. sent'[d] \cap lost'[d] = {}
      <4>1. \A n \in {p} \cup InQueue(q) : n \notin 1 .. p - 1
        BY <2>1, <3>3
      <4> QED BY <1>2, <3>1, <4>1
    <3> QED BY <2>7, <3>5, <3>6 DEF Placed
  <2> QED BY <1>1, <2>4, <2>5, <2>6, <2>7 DEF Fate
<1> QED BY <1>5, <1>6 DEF InTheirPlaces

-----------------------------------------------------------------------------
(* The actions                                                             *)

LEMMA InitInv == Init => IInv
<1> SUFFICES ASSUME Init PROVE IInv
  OBVIOUS
<1>1. /\ \A d \in Devices : m_queue[d] = <<>> /\ m_currentPkt[d] = None
      /\ \A d \in Devices : accepted[d] = 0 /\ sent[d] = {} /\ lost[d] = {}
      /\ \A d, e \in Devices : received[d][e] = {}
      /\ receptions = {}
  BY DEF Init
<1>2. TypeOK
  BY CsmaConstants DEF Init, TypeOK, Packets, Frames, None
<1>3. OneFrameAtATime
  BY DEF Init, OneFrameAtATime
<1>4. ASSUME NEW d \in Devices PROVE Placed(d)
  BY <1>1 DEF Placed, Gone, None
<1> QED BY <1>1, <1>2, <1>3, <1>4 DEF IInv, InTheirPlaces, NewOnTheWire, SentInFull

\* A step that touches neither packets nor their frames keeps them in place.
LEMMA PlacesStay ==
  ASSUME IInv,
         UNCHANGED <<m_currentPkt, m_queue, accepted, sent, lost, received>>,
         receptions' \subseteq receptions
  PROVE  InTheirPlaces' /\ NewOnTheWire' /\ SentInFull'
<1>1. InTheirPlaces'
  BY DEF IInv, InTheirPlaces, Placed, Gone
<1>2. NewOnTheWire'
  BY DEF IInv, NewOnTheWire
<1>3. SentInFull'
  BY DEF IInv, SentInFull
<1> QED BY <1>1, <1>2, <1>3

\* The back-off is over: the current packet is tried again.
LEMMA BackoffStep ==
  ASSUME IInv, NEW d \in Devices, BackoffEnds(d)
  PROVE  IInv'
<1> DEFINE st == m_txMachineState[d]
           p == m_currentPkt[d]
           q == m_queue[d]
<1>1. /\ st = "BACKOFF" /\ p \in Packets /\ p # None
      /\ q \in Seq(Packets) /\ Len(q) <= QueueSize /\ accepted[d] \in Nat
  BY CsmaConstants DEF IInv, TypeOK, OneFrameAtATime, BackoffEnds
<1>2. TransmitStart(d, st, p, q) /\ UNCHANGED Bystanders /\ UNCHANGED accepted
  BY DEF BackoffEnds, Bystanders
<1>3. accepted' \in [Devices -> 0..MaxSends]
  BY <1>2 DEF IInv, TypeOK
<1>4. TypeOK'
  BY <1>1, <1>2, <1>3, StartKeepsTypes DEF IInv
<1>5. OneFrameAtATime'
  BY <1>1, <1>2, StartKeepsOneFrame DEF IInv
<1>6. InTheirPlaces'
  <2>1. Placed(d) /\ \A e \in Devices \ {d} : accepted'[e] = accepted[e] /\ Placed(e)
    BY <1>2 DEF IInv, InTheirPlaces
  <2>2. Len(q) \in Nat /\ DOMAIN q = 1 .. Len(q) /\ p \in Nat
    BY <1>1 DEF Packets
  <2>3. p = accepted'[d] - Len(q) /\ Gone(d) = p - 1
    BY <1>1, <1>2, <2>1, <2>2 DEF Placed, Gone
  <2>4. \A i \in 1 .. Len(q) : q[i] = p + i
    BY <1>2, <2>1, <2>2, <2>3 DEF Placed
  <2>5. sent[d] \cup lost[d] = 1 .. p - 1 /\ sent[d] \cap lost[d] = {}
    BY <2>1, <2>3 DEF Placed
  <2> HIDE DEF p, q, st
  <2> QED BY <1>1, <1>2, <1>3, <2>1, <2>3, <2>4, <2>5, StartKeepsPlaces DEF IInv
<1> QED BY <1>2, <1>4, <1>5, <1>6 DEF IInv, NewOnTheWire, SentInFull, Bystanders

LEMMA ReadyStep ==
  ASSUME IInv, NEW d \in Devices, TransmitReadyEvent(d)
  PROVE  IInv'
<1>1. /\ m_txMachineState[d] = "GAP" /\ m_currentPkt[d] = None
      /\ m_queue[d] \in Seq(Packets) /\ Len(m_queue[d]) <= QueueSize /\ accepted[d] \in Nat
  BY CsmaConstants DEF IInv, TypeOK, OneFrameAtATime, TransmitReadyEvent
<1>2. UNCHANGED Bystanders /\ UNCHANGED accepted
  BY DEF TransmitReadyEvent, Bystanders
<1>3. CASE m_queue[d] = <<>>
  <2>1. /\ Machine(d, "READY", None, m_queue[d], m_numBackoffRetries[d], "none")
        /\ UNCHANGED <<channelVars, lost>>
    BY <1>3 DEF TransmitReadyEvent
  <2>2. None \in Packets \cup {None} /\ m_numBackoffRetries[d] \in 0..MaxRetries
    BY DEF IInv, TypeOK
  <2>3. /\ MachineTypes' /\ OthersStay(d)
        /\ m_txMachineState'[d] = "READY" /\ m_currentPkt'[d] = None
        /\ m_queue'[d] = m_queue[d] /\ event'[d] = "none"
    BY <1>1, <2>1, <2>2, MachineSets DEF IInv
  <2>4. TypeOK'
    BY <1>2, <2>1, <2>3 DEF IInv, TypeOK, MachineTypes, Bystanders, confVars, channelVars
  <2>5. StaysOff(d)
    BY <2>1, <2>3 DEF StaysOff
  <2>6. OneFrameAtATime'
    BY <1>1, <1>2, <2>3, <2>5, QuietKeepsOneFrame DEF IInv, Bystanders
  <2>7. ASSUME NEW e \in Devices
        PROVE  m_currentPkt'[e] = m_currentPkt[e] /\ m_queue'[e] = m_queue[e]
    BY <1>1, <2>3 DEF OthersStay
  <2>8. InTheirPlaces'
    BY <1>2, <2>1, <2>7 DEF IInv, InTheirPlaces, Placed, Gone, Bystanders
  <2> QED BY <1>2, <2>4, <2>6, <2>8 DEF IInv, NewOnTheWire, SentInFull, Bystanders
<1>4. CASE m_queue[d] # <<>>
  <2> DEFINE p == Head(m_queue[d])
             q == Tail(m_queue[d])
  <2>1. TransmitStart(d, "READY", p, q)
    BY <1>4 DEF TransmitReadyEvent
  <2>2. /\ Len(m_queue[d]) \in Nat \ {0} /\ p \in Packets /\ p = m_queue[d][1]
        /\ q \in Seq(Packets) /\ Len(q) = Len(m_queue[d]) - 1
        /\ \A i \in 1 .. Len(m_queue[d]) - 1 : q[i] = m_queue[d][i + 1]
    BY <1>1, <1>4, HeadAndTail
  <2>3. Len(q) <= QueueSize
    BY <1>1, <2>2, CsmaConstants
  <2>4. accepted' \in [Devices -> 0..MaxSends]
    BY <1>2 DEF IInv, TypeOK
  <2>5. Placed(d) /\ \A e \in Devices \ {d} : accepted'[e] = accepted[e] /\ Placed(e)
    BY <1>2 DEF IInv, InTheirPlaces
  <2>6. DOMAIN m_queue[d] = 1 .. Len(m_queue[d])
    BY <1>1
  <2>7. /\ Gone(d) = accepted[d] - Len(m_queue[d])
        /\ \A i \in 1 .. Len(m_queue[d]) :
             m_queue[d][i] = accepted[d] - Len(m_queue[d]) + i
    <3>1. Len(m_queue[d]) \in Nat
      BY <2>2
    <3> HIDE DEF p, q
    <3>2. Gone(d) = accepted[d] - Len(m_queue[d])
      BY <1>1, <3>1 DEF Gone
    <3> QED BY <2>5, <2>6, <3>2 DEF Placed
  <2>8. p = accepted'[d] - Len(q) /\ Gone(d) = p - 1
    BY <1>1, <1>2, <2>2, <2>7
  <2> HIDE DEF p, q
  <2>9. ASSUME NEW i \in 1 .. Len(q) PROVE q[i] = p + i
    <3>1. i + 1 \in 1 .. Len(m_queue[d]) /\ q[i] = m_queue[d][i + 1]
      BY <2>2
    <3>2. Len(m_queue[d]) \in Nat /\ Len(q) = Len(m_queue[d]) - 1
      BY <2>2
    <3>3. q[i] = accepted[d] - Len(m_queue[d]) + (i + 1)
      BY <2>7, <3>1
    <3>4. accepted'[d] = accepted[d] /\ accepted[d] \in Nat /\ i \in Int
      BY <1>1, <1>2, <3>2
    <3>5. p = accepted[d] - Len(m_queue[d]) + 1
      BY <2>8, <3>2, <3>4
    <3> QED BY <3>2, <3>3, <3>4, <3>5, NextPlace
  <2>10. sent[d] \cup lost[d] = 1 .. p - 1 /\ sent[d] \cap lost[d] = {}
    BY <2>5, <2>8 DEF Placed
  <2>11. TypeOK'
    BY <1>2, <2>1, <2>2, <2>3, <2>4, StartKeepsTypes DEF IInv
  <2>12. OneFrameAtATime'
    BY <1>1, <1>2, <2>1, <2>2, <2>3, StartKeepsOneFrame DEF IInv
  <2>13. InTheirPlaces'
    BY <1>2, <2>1, <2>2, <2>3, <2>4, <2>5, <2>8, <2>9, <2>10, StartKeepsPlaces DEF IInv
  <2> QED BY <1>2, <2>11, <2>12, <2>13 DEF IInv, NewOnTheWire, SentInFull, Bystanders
<1> QED BY <1>3, <1>4

\* The channel was carrying the current packet of d, no frame was under way,
\* and the packet is the first of d that was neither sent nor lost.
LEMMA CompleteStep ==
  ASSUME IInv, NEW d \in Devices, TransmitCompleteEvent(d)
  PROVE  IInv'
<1> DEFINE p == m_currentPkt[d]
<1>1. /\ m_txMachineState[d] = "BUSY" /\ m_state = "TRANSMITTING" /\ m_currentSrc = d
      /\ m_wire = p /\ p # None /\ p \in Packets
      /\ receptions = {}
  BY DEF IInv, TypeOK, OneFrameAtATime, TransmitCompleteEvent
<1>2. /\ m_queue[d] \in Seq(Packets) /\ Len(m_queue[d]) <= QueueSize
      /\ m_numBackoffRetries[d] \in 0..MaxRetries /\ None \in Packets \cup {None}
      /\ accepted[d] \in Nat
  BY CsmaConstants DEF IInv, TypeOK
<1>3. /\ Machine(d, "GAP", None, m_queue[d], m_numBackoffRetries[d], "TransmitReady")
      /\ m_state' = "PROPAGATING" /\ UNCHANGED <<m_currentSrc, m_wire, lost, accepted, received>>
      /\ UNCHANGED confVars
      /\ sent' = [sent EXCEPT ![d] = @ \cup {p}]
  BY DEF TransmitCompleteEvent
<1>4. /\ MachineTypes' /\ OthersStay(d)
      /\ m_txMachineState'[d] = "GAP" /\ m_currentPkt'[d] = None
      /\ m_queue'[d] = m_queue[d] /\ event'[d] = "TransmitReady"
  BY <1>2, <1>3, MachineSets DEF IInv
<1>5. \A f \in receptions' : f \in Frames /\ f.src = d /\ f.pkt = p
  BY <1>1 DEF TransmitCompleteEvent, Copies, Frames
<1>6. /\ sent' \in [Devices -> SUBSET Packets] /\ sent'[d] = sent[d] \cup {p}
      /\ \A e \in Devices \ {d} : sent'[e] = sent[e]
  BY <1>1, <1>3 DEF IInv, TypeOK
<1>7. TypeOK'
  BY <1>3, <1>4, <1>5, <1>6 DEF IInv, TypeOK, MachineTypes, confVars
<1>8. OneFrameAtATime'
  <2>1. ASSUME NEW e \in Devices
        PROVE  m_txMachineState'[e] # "BUSY"
    BY <1>1, <1>4 DEF IInv, OneFrameAtATime, OthersStay
  <2>2. ASSUME NEW e \in Devices
        PROVE  /\ event'[e] = "TransmitComplete" <=> m_txMachineState'[e] = "BUSY"
               /\ event'[e] = "TransmitReady" <=> m_txMachineState'[e] = "GAP"
               /\ event'[e] = "TransmitStart" <=>
                    m_txMachineState'[e] = "BACKOFF" /\ m_currentPkt'[e] # None
               /\ m_txMachineState'[e] \in {"READY", "GAP"} => m_currentPkt'[e] = None
    BY <1>4 DEF IInv, OneFrameAtATime, OthersStay
  <2> QED BY <1>1, <1>3, <1>5, <2>1, <2>2 DEF OneFrameAtATime
<1>9. /\ Placed(d) /\ p = Gone(d) + 1
      /\ sent[d] \cup lost[d] = 1 .. Gone(d) /\ sent[d] \cap lost[d] = {}
      /\ Gone(d) \in Int /\ Gone(d)' = p
  <2>1. Len(m_queue[d]) \in Nat
    BY <1>2
  <2>2. Placed(d)
    BY DEF IInv, InTheirPlaces
  <2>3. Gone(d) = accepted[d] - Len(m_queue[d]) - 1
    BY <1>1 DEF Gone
  <2>4. Gone(d)' = accepted[d] - Len(m_queue[d])
    BY <1>2, <1>3, <1>4, <2>1 DEF Gone
  <2>5. p = Gone(d) + 1
    BY <1>1, <2>2 DEF Placed
  <2> HIDE DEF p
  <2> QED BY <1>2, <2>1, <2>2, <2>3, <2>4, <2>5 DEF Placed
<1>10. \A n \in sent[d] : n \in Int /\ n < p
  BY <1>1, <1>9
<1>11. InTheirPlaces'
  <2>1. ASSUME NEW e \in Devices \ {d} PROVE Placed(e)'
    BY <1>3, <1>4, <1>6 DEF IInv, InTheirPlaces, Placed, Gone, OthersStay
  <2>2. 1 .. p = (1 .. Gone(d)) \cup {p} /\ p \notin 1 .. Gone(d)
    BY <1>1, <1>9 DEF Packets
  <2>3. sent'[d] \cup lost'[d] = 1 .. p /\ sent'[d] \cap lost'[d] = {}
    BY <1>3, <1>6, <1>9, <2>2
  <2>4. Placed(d)'
    BY <1>3, <1>4, <1>9, <2>3 DEF Placed
  <2> QED BY <2>1, <2>4 DEF InTheirPlaces
<1>12. NewOnTheWire'
  <2>1. ASSUME NEW s \in Devices, NEW e \in Devices
        PROVE  /\ received'[s][e] \subseteq sent'[e]
               /\ \A f \in receptions' :
                    f.to = s /\ f.src = e => \A n \in received'[s][e] : n < f.pkt
    <3>1. received'[s][e] \subseteq sent[e] /\ sent[e] \subseteq sent'[e]
      BY <1>3, <1>6 DEF IInv, NewOnTheWire
    <3> QED BY <1>5, <1>10, <3>1
  <2> QED BY <2>1 DEF NewOnTheWire
<1>13. SentInFull'
  BY <1>5, <1>6 DEF SentInFull
<1> QED BY <1>7, <1>8, <1>11, <1>12, <1>13 DEF IInv

\* All frames on the way are copies of one: a station gets what is newer than
\* all it has, and no second copy is left for it.
LEMMA ReceiveStep ==
  ASSUME IInv, NEW f \in receptions, Receive(f)
  PROVE  IInv'
<1>1. f \in Frames /\ receptions' = receptions \ {f} /\ f.pkt \in sent[f.src]
  BY DEF Receive, IInv, TypeOK, SentInFull
<1>2. f.to \in Devices /\ f.src \in Devices /\ f.pkt \in Packets
  BY <1>1 DEF Frames
<1>3. /\ UNCHANGED <<m_state, m_currentSrc, m_wire, active, m_sendEnable, m_receiveEnable>>
      /\ UNCHANGED <<cut, switches, m_txMachineState, m_currentPkt, m_queue>>
      /\ UNCHANGED <<m_numBackoffRetries, event, lost, accepted, sent>>
  BY DEF Receive, channelVars, deviceVars, confVars
<1>4. OneFrameAtATime'
  BY <1>1, <1>3 DEF IInv, OneFrameAtATime
<1>5. CASE UNCHANGED received
  <2>1. TypeOK'
    BY <1>1, <1>3, <1>5 DEF IInv, TypeOK
  <2> QED BY <1>1, <1>3, <1>4, <1>5, <2>1, PlacesStay DEF IInv
<1>6. CASE received' = [received EXCEPT ![f.to][f.src] = @ \cup {f.pkt}]
  <2>1. /\ received' \in [Devices -> [Devices -> SUBSET Packets]]
        /\ received'[f.to][f.src] = received[f.to][f.src] \cup {f.pkt}
        /\ \A s, e \in Devices :
             s # f.to \/ e # f.src => received'[s][e] = received[s][e]
    <3>1. /\ received \in [Devices -> [Devices -> SUBSET Packets]]
          /\ received[f.to] \in [Devices -> SUBSET Packets]
          /\ received[f.to][f.src] \cup {f.pkt} \in SUBSET Packets
      <4>1. received \in [Devices -> [Devices -> SUBSET Packets]]
        BY DEF IInv, TypeOK
      <4> QED BY <1>2, <4>1
    <3> DEFINE old == received[f.to]
               new == received[f.to][f.src] \cup {f.pkt}
               row == [old EXCEPT ![f.src] = new]
    <3>2. /\ row \in [Devices -> SUBSET Packets]
          /\ row[f.src] = new
          /\ \A e \in Devices \ {f.src} : row[e] = old[e]
      <4>1. old \in [Devices -> SUBSET Packets] /\ new \in SUBSET Packets
        BY <3>1
      <4> HIDE DEF old, new
      <4> QED BY <1>2, <4>1
    <3>3. received' = [received EXCEPT ![f.to] = row]
      BY <1>6
    <3> HIDE DEF row
    <3>4. /\ received' \in [Devices -> [Devices -> SUBSET Packets]]
          /\ received'[f.to] = row
          /\ \A s \in Devices \ {f.to} : received'[s] = received[s]
      BY <1>2, <3>1, <3>2, <3>3
    <3> QED BY <3>2, <3>4
  <2>2. TypeOK'
    BY <1>1, <1>3, <2>1 DEF IInv, TypeOK
  <2>3. InTheirPlaces'
    BY <1>3 DEF IInv, InTheirPlaces, Placed, Gone
  <2>4. ASSUME NEW g \in receptions', g.to = f.to, g.src = f.src PROVE FALSE
    <3>1. g \in Frames /\ g.pkt = f.pkt /\ g # f
      BY <1>1 DEF IInv, TypeOK, OneFrameAtATime
    <3> QED BY <1>1, <2>4, <3>1 DEF Frames
  <2>5. ASSUME NEW s \in Devices, NEW e \in Devices
        PROVE  /\ received'[s][e] \subseteq sent'[e]
               /\ \A g \in receptions' :
                    g.to = s /\ g.src = e => \A n \in received'[s][e] : n < g.pkt
    <3>1. CASE s = f.to /\ e = f.src
      BY <1>1, <1>3, <2>1, <2>4, <3>1 DEF IInv, NewOnTheWire
    <3>2. CASE s # f.to \/ e # f.src
      BY <1>1, <1>3, <2>1, <3>2 DEF IInv, NewOnTheWire
    <3> QED BY <3>1, <3>2
  <2>6. NewOnTheWire'
    BY <2>5 DEF NewOnTheWire
  <2>7. SentInFull'
    BY <1>1, <1>3 DEF IInv, SentInFull
  <2> QED BY <1>4, <2>2, <2>3, <2>6, <2>7 DEF IInv
<1> QED BY <1>5, <1>6 DEF Receive

LEMMA PropagationStep ==
  ASSUME IInv, PropagationCompleteEvent
  PROVE  IInv'
<1>1. /\ UNCHANGED <<m_currentSrc, m_wire, active, m_sendEnable, m_receiveEnable>>
      /\ UNCHANGED <<cut, switches, m_txMachineState, m_currentPkt, m_queue>>
      /\ UNCHANGED <<m_numBackoffRetries, event, lost, accepted, sent, receptions, received>>
      /\ m_state = "PROPAGATING" /\ m_state' = "IDLE" /\ receptions = {}
  BY DEF PropagationCompleteEvent, deviceVars, confVars
<1>2. TypeOK'
  BY <1>1 DEF IInv, TypeOK
<1>3. OneFrameAtATime'
  BY <1>1 DEF IInv, OneFrameAtATime
<1> QED BY <1>1, <1>2, <1>3, PlacesStay DEF IInv

LEMMA AppendFacts ==
  ASSUME NEW S, NEW q \in Seq(S), NEW x \in S
  PROVE  /\ Append(q, x) \in Seq(S) /\ Append(q, x) # <<>>
         /\ Len(q) \in Nat /\ Len(Append(q, x)) = Len(q) + 1
         /\ \A i \in 1 .. Len(q) : Append(q, x)[i] = q[i]
         /\ Append(q, x)[Len(q) + 1] = x
OBVIOUS

\* The new packet goes behind the queue, whose oldest is started if d is ready.
LEMMA SendStep ==
  ASSUME IInv, NEW d \in Devices, Send(d)
  PROVE  IInv'
<1> DEFINE a == accepted[d] + 1
           q == Append(m_queue[d], a)
<1>1. /\ accepted[d] \in Nat /\ accepted[d] < MaxSends /\ a \in Packets
      /\ a \in 1..MaxSends /\ MaxSends \in Nat
      /\ m_queue[d] \in Seq(Packets) /\ Len(m_queue[d]) < QueueSize
      /\ DOMAIN m_queue[d] = 1 .. Len(m_queue[d])
  BY CsmaConstants DEF IInv, TypeOK, Send, Packets
<1>2. /\ accepted' \in [Devices -> 0..MaxSends] /\ accepted'[d] = a
      /\ \A e \in Devices \ {d} : accepted'[e] = accepted[e]
  BY <1>1 DEF IInv, TypeOK, Send
<1>3. UNCHANGED Bystanders
  BY DEF Send, Bystanders
<1> HIDE DEF a
<1>4. /\ q \in Seq(Packets) /\ q # <<>> /\ Len(m_queue[d]) \in Nat
      /\ Len(q) = Len(m_queue[d]) + 1
      /\ \A i \in 1 .. Len(m_queue[d]) : q[i] = m_queue[d][i]
      /\ q[Len(q)] = a
  BY <1>1, AppendFacts
<1>5. a = accepted[d] + 1 /\ a \in Nat
  BY <1>1 DEF a
<1>6. /\ Placed(d)
      /\ \A e \in Devices \ {d} : Placed(e)
  BY DEF IInv, InTheirPlaces
<1> HIDE DEF q
<1>7. ASSUME NEW i \in 1 .. Len(q) PROVE q[i] = a - Len(q) + i
  <2>1. CASE i = Len(q)
    BY <1>4, <1>5, <2>1
  <2>2. CASE i # Len(q)
    <3>1. i \in 1 .. Len(m_queue[d])
      BY <1>4, <2>2
    <3>2. q[i] = accepted[d] - Len(m_queue[d]) + i
      BY <1>1, <1>4, <1>6, <3>1 DEF Placed
    <3>3. a - Len(q) = accepted[d] - Len(m_queue[d]) /\ i \in Int
      BY <1>1, <1>4, <1>5
    <3> QED BY <3>2, <3>3
  <2> QED BY <2>1, <2>2
<1>8. CASE m_txMachineState[d] = "READY"
  <2> DEFINE p == Head(q)
             r == Tail(q)
  <2>1. TransmitStart(d, "READY", p, r)
    BY <1>8 DEF Send, q, a
  <2>2. /\ Len(q) \in Nat \ {0} /\ p \in Packets /\ p = q[1]
        /\ r \in Seq(Packets) /\ Len(r) = Len(q) - 1
        /\ \A i \in 1 .. Len(q) - 1 : r[i] = q[i + 1]
    BY <1>4, HeadAndTail
  <2> HIDE DEF p, r
  <2>3. Len(r) <= QueueSize
    BY <1>1, <1>4, <2>2, CsmaConstants
  <2>4. m_currentPkt[d] = None
    BY <1>8 DEF IInv, OneFrameAtATime
  <2>5. Gone(d) = accepted[d] - Len(m_queue[d])
    BY <1>1, <1>4, <2>4 DEF Gone
  <2>6. p = accepted'[d] - Len(r) /\ Gone(d) = p - 1
    <3>1. q[1] = a - Len(q) + 1
      BY <1>7, <2>2
    <3>2. p = a - Len(q) + 1 /\ Len(q) \in Nat
      BY <2>2, <3>1
    <3>3. p = accepted'[d] - Len(r)
      BY <1>2, <1>5, <2>2, <3>2
    <3>4. p = accepted[d] - Len(m_queue[d]) + 1
      <4>1. /\ accepted[d] \in Nat /\ Len(m_queue[d]) \in Nat
            /\ Len(q) = Len(m_queue[d]) + 1
        BY <1>1, <1>4
      <4>2. p = (accepted[d] + 1) - (Len(m_queue[d]) + 1) + 1
        BY <1>5, <3>2, <4>1
      <4> QED BY <4>1, <4>2
    <3> QED BY <1>1, <1>4, <2>5, <3>3, <3>4
  <2>7. ASSUME NEW i \in 1 .. Len(r) PROVE r[i] = p + i
    <3>1. i + 1 \in 1 .. Len(q) /\ r[i] = q[i + 1] /\ i \in Int
      BY <2>2
    <3>2. q[i + 1] = a - Len(q) + (i + 1)
      BY <1>7, <3>1
    <3>3. p = a - Len(q) + 1
      BY <1>2, <1>5, <2>2, <2>6
    <3>4. a - Len(q) + (i + 1) = a - Len(q) + 1 + i
      BY <1>5, <2>2, <3>1, NextPlace
    <3> QED BY <3>1, <3>2, <3>3, <3>4
  <2>8. sent[d] \cup lost[d] = 1 .. p - 1 /\ sent[d] \cap lost[d] = {}
    BY <1>6, <2>6 DEF Placed
  <2>9. TypeOK'
    BY <1>2, <1>3, <2>1, <2>2, <2>3, StartKeepsTypes DEF IInv
  <2>10. OneFrameAtATime'
    BY <1>3, <1>8, <2>1, <2>2, <2>3, StartKeepsOneFrame DEF IInv
  <2>11. InTheirPlaces'
    BY <1>2, <1>3, <1>6, <2>1, <2>2, <2>3, <2>6, <2>7, <2>8, StartKeepsPlaces DEF IInv
  <2> QED BY <1>3, <2>9, <2>10, <2>11 DEF IInv, NewOnTheWire, SentInFull, Bystanders
<1>9. CASE m_txMachineState[d] # "READY"
  <2>1. /\ m_queue' = [m_queue EXCEPT ![d] = q]
        /\ UNCHANGED <<m_state, m_currentSrc, m_wire, active, m_sendEnable, m_receiveEnable>>
        /\ UNCHANGED <<cut, switches, m_txMachineState, m_currentPkt>>
        /\ UNCHANGED <<m_numBackoffRetries, event, lost, sent, receptions, received>>
    BY <1>9 DEF Send, q, a, channelVars, confVars
  <2>2. /\ m_queue' \in [Devices -> Seq(Packets)]
        /\ m_queue'[d] = q /\ Len(q) <= QueueSize
        /\ \A e \in Devices \ {d} : m_queue'[e] = m_queue[e]
    BY <1>1, <1>4, <2>1, CsmaConstants DEF IInv, TypeOK
  <2>3. TypeOK'
    BY <1>2, <2>1, <2>2 DEF IInv, TypeOK
  <2>4. OneFrameAtATime'
    BY <2>1 DEF IInv, OneFrameAtATime
  <2>5. ASSUME NEW e \in Devices \ {d} PROVE Placed(e)'
    BY <1>2, <1>6, <2>1, <2>2 DEF Placed, Gone
  <2>6. Placed(d)'
    <3>1. Gone(d)' = Gone(d)
      BY <1>1, <1>2, <1>4, <1>5, <2>1, <2>2 DEF Gone
    <3>2. DOMAIN q = 1 .. Len(q)
      BY <1>4
    <3> QED BY <1>2, <1>6, <1>7, <2>1, <2>2, <3>1, <3>2 DEF Placed
  <2> QED BY <2>1, <2>3, <2>4, <2>5, <2>6
          DEF IInv, InTheirPlaces, NewOnTheWire, SentInFull
<1> QED BY <1>8, <1>9

\* Enabling, disabling, detaching and reattaching touch no machine.
LEMMA SwitchStep ==
  ASSUME IInv, NEW d \in Devices,
         SetSendEnable(d) \/ SetReceiveEnable(d) \/ Detach(d) \/ Reattach(d)
  PROVE  IInv'
<1>1. /\ UNCHANGED <<m_state, m_currentSrc, m_wire, m_txMachineState, m_currentPkt, m_queue>>
      /\ UNCHANGED <<m_numBackoffRetries, event, lost, accepted, sent, receptions, received>>
  BY DEF SetSendEnable, SetReceiveEnable, Detach, Reattach, channelVars, deviceVars
<1>2. switches' \in 0..MaxSwitches
  BY CsmaConstants DEF IInv, TypeOK, SetSendEnable, SetReceiveEnable, Detach, Reattach, Switch
<1>3. /\ active' \in [Devices -> BOOLEAN]
      /\ m_sendEnable' \in [Devices -> BOOLEAN] /\ m_receiveEnable' \in [Devices -> BOOLEAN]
      /\ cut' \subseteq Devices
  BY DEF IInv, TypeOK, SetSendEnable, SetReceiveEnable, Detach, Reattach
<1>4. TypeOK'
  BY <1>1, <1>2, <1>3 DEF IInv, TypeOK
<1>5. OneFrameAtATime'
  BY <1>1 DEF IInv, OneFrameAtATime
<1> QED BY <1>1, <1>4, <1>5, PlacesStay DEF IInv

LEMMA NextInv == IInv /\ [Next]_vars => IInv'
<1> SUFFICES ASSUME IInv, [Next]_vars PROVE IInv'
  OBVIOUS
<1>1. CASE ChannelEvent
  BY <1>1, ReceiveStep, PropagationStep DEF ChannelEvent
<1>2. CASE \E d \in Devices : DeviceEvent(d)
  BY <1>2, BackoffStep, CompleteStep, ReadyStep DEF DeviceEvent
<1>3. CASE \E d \in Devices : Call(d)
  BY <1>3, SendStep, SwitchStep DEF Call
<1>4. CASE UNCHANGED vars
  BY <1>4 DEF IInv, TypeOK, OneFrameAtATime, InTheirPlaces, Placed, Gone, NewOnTheWire,
              SentInFull, vars, channelVars, deviceVars, confVars
<1> QED BY <1>1, <1>2, <1>3, <1>4 DEF Next

-----------------------------------------------------------------------------
(* The theorems                                                            *)

\* The invariant behind the others, along every behaviour.
THEOREM BusInvariant == Spec => []IInv
BY InitInv, NextInv, PTL DEF Spec

\* The variables keep their types, queues their limit and back-offs theirs,
\* whatever the configuration code does (backoff.cc:79, csma-net-device.cc:444).
THEOREM BusTypes == Spec => []TypeOK
<1>1. IInv => TypeOK
  BY DEF IInv
<1> QED BY <1>1, BusInvariant, PTL

\* The channel carries one frame at a time, of the device that is BUSY, and
\* every state of the transmit machine has its event (csma-channel.cc:171).
THEOREM OneStationTransmits == Spec => []OneFrameAtATime
<1>1. IInv => OneFrameAtATime
  BY DEF IInv
<1> QED BY <1>1, BusInvariant, PTL

\* Every packet Send accepted is in exactly one place, and a station gets it
\* at most once and after its predecessors (csma-net-device.cc:426, 604, 956).
THEOREM PacketsKeepTheirPlaces == Spec => []EveryPacketOnce
<1>1. IInv => EveryPacketOnce
  BY DEF IInv, EveryPacketOnce
<1> QED BY <1>1, BusInvariant, PTL
=============================================================================
