----------------------- MODULE DistributedSimProofs ------------------------
(***************************************************************************)
(* Theorems about DistributedSim, for every set of ranks, every topology   *)
(* of remote links and every stop time, and whatever the handlers do.      *)
(***************************************************************************)
EXTENDS DistributedSim, FiniteSetTheorems, TLAPS

(* A uid, and a sequence number, that was not given out yet is not in use. *)
FreshUids == \A r \in Ranks : \A ev \in m_events[r] : ev.uid < m_uid[r]

TInv == TypeOK /\ FreshUids

FreshSeqs == \A m \in network : m.seq < m_txCount[m.from]

Finite == /\ IsFiniteSet(network)
          /\ IsFiniteSet(Units(m_rxCount))
          /\ IsFiniteSet(Units(m_txCount))

CInv == TInv /\ FreshSeqs /\ Finite /\ CountsMatchTransit

-----------------------------------------------------------------------------

LEMMA InitTInv == Init => TInv
<1> SUFFICES ASSUME Init PROVE TInv
  OBVIOUS
<1>1. [ts |-> StopTime, uid |-> FirstUid, stop |-> TRUE] \in Event
  BY TimesAssumption DEF Event, FirstUid
<1>2. FirstUid + 1 \in Nat /\ FirstUid < FirstUid + 1
  BY DEF FirstUid
<1>3. TypeOK
  BY <1>1, <1>2 DEF Init, TypeOK, Places
<1>4. FreshUids
  BY <1>2 DEF Init, FreshUids
<1> QED BY <1>3, <1>4 DEF TInv

LEMMA AddEventTInv ==
  ASSUME TInv, NEW r \in Ranks, NEW ts \in Nat, AddEvent(r, ts)
  PROVE  /\ m_events' \in [Ranks -> SUBSET Event]
         /\ m_uid' \in [Ranks -> Nat]
         /\ \A q \in Ranks : \A e, f \in m_events'[q] : e.uid = f.uid => e = f
         /\ \A q \in Ranks : \A ev \in m_events'[q] : ev.uid < m_uid'[q]
<1> DEFINE new == [ts |-> ts, uid |-> m_uid[r], stop |-> FALSE]
<1>0. /\ m_events \in [Ranks -> SUBSET Event] /\ m_uid \in [Ranks -> Nat]
      /\ \A q \in Ranks : \A e, f \in m_events[q] : e.uid = f.uid => e = f
      /\ \A q \in Ranks : \A ev \in m_events[q] : ev.uid < m_uid[q]
  BY DEF TInv, TypeOK, FreshUids
<1>1. new \in Event /\ new.uid = m_uid[r]
  BY <1>0 DEF Event
<1>2. /\ m_events' = [m_events EXCEPT ![r] = @ \union {new}]
      /\ m_uid' = [m_uid EXCEPT ![r] = @ + 1]
  BY DEF AddEvent
<1> HIDE DEF new
<1>3. /\ m_events' \in [Ranks -> SUBSET Event]
      /\ m_uid' \in [Ranks -> Nat]
  BY <1>0, <1>1, <1>2
<1>4. ASSUME NEW q \in Ranks
      PROVE  /\ \A e, f \in m_events'[q] : e.uid = f.uid => e = f
             /\ \A ev \in m_events'[q] : ev.uid < m_uid'[q]
  <2>1. CASE q = r
    <3>1. m_events'[q] = m_events[q] \union {new} /\ m_uid'[q] = m_uid[q] + 1
      BY <2>1, <1>0, <1>2
    <3>2. \A ev \in m_events[q] : ev.uid \in Nat
      BY <1>0 DEF Event
    <3> QED BY <2>1, <3>1, <3>2, <1>0, <1>1
  <2>2. CASE q # r
    <3>1. m_events'[q] = m_events[q] /\ m_uid'[q] = m_uid[q]
      BY <2>2, <1>0, <1>2
    <3> QED BY <3>1, <1>0
  <2> QED BY <2>1, <2>2
<1> QED BY <1>3, <1>4

LEMMA LookAheadType ==
  ASSUME NEW old \in Nat, NEW d \in Nat
  PROVE  LookAhead(old, d) \in Nat
BY DEF LookAhead

(* The message a device of rank r hands to MPI.                            *)
LEMMA SentMessage ==
  ASSUME TInv, NEW r \in Ranks, SendPacket(r)
  PROVE  \E m \in Message :
           /\ m.from = r /\ m.seq = m_txCount[r]
           /\ m.link \in Links /\ m.to \in Ends[m.link]
           /\ m.rxTime >= m_currentTs[r] + Delay[m.link]
           /\ network' = network \union {m}
<1>1. PICK l \in Remote(r), txTime \in TxTimes, q \in Ranks :
        /\ Ends[l] = {r, q}
        /\ q # r
        /\ network' = network \union
             {[link |-> l, from |-> r, to |-> q, seq |-> m_txCount[r],
               rxTime |-> m_currentTs[r] + txTime + Delay[l]]}
  BY DEF SendPacket
<1>2. /\ l \in Links /\ Delay[l] \in Nat /\ txTime \in Nat
      /\ m_currentTs[r] \in Nat /\ m_txCount[r] \in Nat
  BY TopologyAssumption, TimesAssumption DEF Remote, TInv, TypeOK
<1> DEFINE m == [link |-> l, from |-> r, to |-> q, seq |-> m_txCount[r],
                 rxTime |-> m_currentTs[r] + txTime + Delay[l]]
<1>3. m \in Message
  BY <1>2 DEF Message
<1>4. m.rxTime >= m_currentTs[r] + Delay[m.link]
  BY <1>2
<1> QED BY <1>1, <1>2, <1>3, <1>4

LEMMA NextTInv == TInv /\ [Next]_vars => TInv'
<1> SUFFICES ASSUME TInv, [Next]_vars PROVE TInv'
  OBVIOUS
<1> USE DEF rankVars, netVars
<1>0. TypeOK /\ FreshUids
  BY DEF TInv
<1>1. ASSUME NEW r \in Ranks, Schedule(r) PROVE TInv'
  <2>1. PICK d \in Delays : AddEvent(r, m_currentTs[r] + d)
    BY <1>1 DEF Schedule
  <2>2. m_currentTs[r] + d \in Nat
    BY <1>0, TimesAssumption DEF TypeOK
  <2>3. UNCHANGED <<pc, unscanned, m_lookAhead, m_grantedTime, m_currentTs, m_stop,
                    m_rxCount, m_txCount, network>>
    BY <1>1 DEF Schedule
  <2> QED BY <1>0, <2>1, <2>2, <2>3, AddEventTInv DEF TInv, TypeOK, FreshUids
<1>2. ASSUME NEW r \in Ranks, Remove(r) PROVE TInv'
  <2>1. PICK ev \in m_events[r] : m_events' = [m_events EXCEPT ![r] = @ \ {ev}]
    BY <1>2 DEF Remove
  <2>2. UNCHANGED <<pc, unscanned, m_lookAhead, m_grantedTime, m_uid, m_currentTs, m_stop,
                    m_rxCount, m_txCount, network>>
    BY <1>2 DEF Remove
  <2>3. m_events' \in [Ranks -> SUBSET Event] /\ \A q \in Ranks : m_events'[q] \subseteq m_events[q]
    BY <1>0, <2>1 DEF TypeOK
  <2> QED BY <1>0, <2>2, <2>3 DEF TInv, TypeOK, FreshUids
<1>3. ASSUME NEW r \in Ranks, SendPacket(r) PROVE TInv'
  <2>1. PICK m \in Message : network' = network \union {m}
    BY <1>3, SentMessage
  <2>2. m_txCount' \in [Ranks -> Nat]
    BY <1>0, <1>3 DEF SendPacket, TypeOK
  <2> QED BY <1>0, <1>3, <2>1, <2>2 DEF SendPacket, TInv, TypeOK, FreshUids
<1>4. ASSUME NEW r \in Ranks, HandlerReturns(r) PROVE TInv'
  BY <1>0, <1>4 DEF HandlerReturns, Goto, TInv, TypeOK, FreshUids, Places
<1>5. ASSUME NEW r \in Ranks, Run(r) PROVE TInv'
  <2>1. Remote(r) \subseteq Links
    BY DEF Remote
  <2> QED BY <1>0, <1>5, <2>1 DEF Run, Goto, TInv, TypeOK, FreshUids, Places
<1>6. ASSUME NEW r \in Ranks, ScanLink(r) PROVE TInv'
  <2>1. PICK l \in unscanned[r] :
          /\ unscanned' = [unscanned EXCEPT ![r] = @ \ {l}]
          /\ m_lookAhead' = [m_lookAhead EXCEPT ![r] = LookAhead(m_lookAhead[r], Delay[l])]
          /\ m_grantedTime' = [m_grantedTime EXCEPT ![r] = LookAhead(m_lookAhead[r], Delay[l])]
    BY <1>6 DEF ScanLink
  <2>2. LookAhead(m_lookAhead[r], Delay[l]) \in Nat
    BY <1>0, TopologyAssumption, LookAheadType DEF TypeOK
  <2>3. UNCHANGED <<pc, m_events, m_uid, m_currentTs, m_stop, m_rxCount, m_txCount, network>>
    BY <1>6 DEF ScanLink
  <2> QED BY <1>0, <2>1, <2>2, <2>3 DEF TInv, TypeOK, FreshUids
<1>7. ASSUME NEW r \in Ranks, ScanDone(r) PROVE TInv'
  BY <1>0, <1>7 DEF ScanDone, Goto, TInv, TypeOK, FreshUids, Places
<1>8. ASSUME NEW r \in Ranks, LoopExits(r) PROVE TInv'
  BY <1>0, <1>8 DEF LoopExits, Goto, TInv, TypeOK, FreshUids, Places
<1>9. ASSUME NEW r \in Ranks, ProcessOneEvent(r) PROVE TInv'
  <2>1. PICK ev \in m_events[r] :
          /\ m_events' = [m_events EXCEPT ![r] = @ \ {ev}]
          /\ m_currentTs' = [m_currentTs EXCEPT ![r] = ev.ts]
          /\ m_stop' = [m_stop EXCEPT ![r] = ev.stop]
          /\ pc' = [pc EXCEPT ![r] = IF ev.stop THEN "loop" ELSE "handler"]
    BY <1>9 DEF ProcessOneEvent, Goto
  <2>2. UNCHANGED <<unscanned, m_lookAhead, m_grantedTime, m_uid, m_rxCount, m_txCount, network>>
    BY <1>9 DEF ProcessOneEvent
  <2>3. ev.ts \in Nat /\ ev.stop \in BOOLEAN
    BY <1>0 DEF TypeOK, Event
  <2>4. m_events' \in [Ranks -> SUBSET Event] /\ \A q \in Ranks : m_events'[q] \subseteq m_events[q]
    BY <1>0, <2>1 DEF TypeOK
  <2>5. /\ m_currentTs' \in [Ranks -> Nat] /\ m_stop' \in [Ranks -> BOOLEAN]
        /\ pc' \in [Ranks -> Places]
    BY <1>0, <2>1, <2>3 DEF TypeOK, Places
  <2> QED BY <1>0, <2>2, <2>4, <2>5 DEF TInv, TypeOK, FreshUids
<1>10. ASSUME NEW r \in Ranks, BeyondGrant(r) PROVE TInv'
  BY <1>0, <1>10 DEF BeyondGrant, Goto, TInv, TypeOK, FreshUids, Places
<1>11. ASSUME NEW r \in Ranks, ReceiveMessage(r) PROVE TInv'
  <2>1. PICK m \in network : network' = network \ {m} /\ AddEvent(r, m.rxTime)
    BY <1>11 DEF ReceiveMessage
  <2>2. m.rxTime \in Nat
    BY <1>0 DEF TypeOK, Message
  <2>3. /\ UNCHANGED <<pc, unscanned, m_lookAhead, m_grantedTime, m_currentTs, m_stop, m_txCount>>
        /\ m_rxCount' \in [Ranks -> Nat]
    BY <1>0, <1>11 DEF ReceiveMessage, TypeOK
  <2> QED BY <1>0, <2>1, <2>2, <2>3, AddEventTInv DEF TInv, TypeOK, FreshUids
<1>12. ASSUME NEW r \in Ranks, NoMoreMessages(r) PROVE TInv'
  BY <1>0, <1>12 DEF NoMoreMessages, Goto, TInv, TypeOK, FreshUids, Places
<1>13. ASSUME Allgather PROVE TInv'
  <2>1. PICK smallest \in {ev.ts : ev \in UNION {m_events[r] : r \in Ranks}} :
          m_grantedTime' = [r \in Ranks |->
            IF Total(m_rxCount) = Total(m_txCount)
            THEN smallest + m_lookAhead[r] ELSE m_grantedTime[r]]
    BY <1>13 DEF Allgather
  <2>2. smallest \in Nat
    BY <1>0 DEF TypeOK, Event
  <2>3. m_grantedTime' \in [Ranks -> Nat]
    BY <1>0, <2>1, <2>2 DEF TypeOK
  <2>4. pc' \in [Ranks -> Places]
    BY <1>13 DEF Allgather, Places
  <2> QED BY <1>0, <1>13, <2>3, <2>4 DEF Allgather, TInv, TypeOK, FreshUids
<1>14. CASE UNCHANGED vars
  BY <1>0, <1>14 DEF vars, TInv, TypeOK, FreshUids
<1> QED
  BY <1>1, <1>2, <1>3, <1>4, <1>5, <1>6, <1>7, <1>8, <1>9, <1>10, <1>11, <1>12, <1>13, <1>14
  DEF Next, RankStep, AllDone

(* Every member keeps its type and every event of a rank has a uid of its  *)
(* own, through scheduling, removal and the receipt of remote events.      *)
THEOREM DistributedTypeCorrect == Spec => []TypeOK
<1>1. TInv => TypeOK
  BY DEF TInv
<1> QED BY InitTInv, NextTInv, <1>1, PTL DEF Spec

-----------------------------------------------------------------------------
(* Counting: the totals of the LBTS computation and the network.           *)

LEMMA OneMoreUnit ==
  ASSUME NEW count \in [Ranks -> Nat], NEW r \in Ranks, IsFiniteSet(Units(count)),
         NEW new, new = [count EXCEPT ![r] = @ + 1]
  PROVE  IsFiniteSet(Units(new)) /\ Total(new) = Total(count) + 1
<1> DEFINE u == <<r, count[r] + 1>>
<1>1. u \notin Units(count)
  BY DEF Units
<1>2. \A q \in Ranks : new[q] = IF q = r THEN count[q] + 1 ELSE count[q]
  OBVIOUS
<1>3. \A q \in Ranks : count[q] \in Nat
  OBVIOUS
<1>4. ASSUME NEW x PROVE x \in Units(new) <=> x \in Units(count) \union {u}
  <2>1. x \in Units(new) <=> \E q \in Ranks : \E k \in 1..new[q] : x = <<q, k>>
    BY DEF Units
  <2>2. x \in Units(count) <=> \E q \in Ranks : \E k \in 1..count[q] : x = <<q, k>>
    BY DEF Units
  <2>3. ASSUME NEW q \in Ranks, NEW k \in 1..new[q], x = <<q, k>>
        PROVE  x \in Units(count) \union {u}
    <3>1. CASE q = r /\ k = count[r] + 1
      BY <3>1, <2>3
    <3>2. CASE ~(q = r /\ k = count[r] + 1)
      <4>1. k \in 1..count[q]
        BY <3>2, <1>2, <1>3
      <4> QED BY <4>1, <2>2, <2>3
    <3> QED BY <3>1, <3>2
  <2>4. ASSUME NEW q \in Ranks, NEW k \in 1..count[q], x = <<q, k>>
        PROVE  x \in Units(new)
    <3>1. k \in 1..new[q]
      BY <1>2, <1>3
    <3> QED BY <3>1, <2>1, <2>4
  <2>5. x = u => x \in Units(new)
    <3>1. count[r] + 1 \in 1..new[r]
      BY <1>2, <1>3
    <3> QED BY <3>1, <2>1
  <2> QED BY <2>1, <2>2, <2>3, <2>4, <2>5
<1>5. Units(new) = Units(count) \union {u}
  BY <1>4
<1> HIDE DEF u
<1>6. /\ IsFiniteSet(Units(count) \union {u})
      /\ Cardinality(Units(count) \union {u}) = Cardinality(Units(count)) + 1
  BY <1>1, FS_AddElement
<1>7. Total(new) = Cardinality(Units(count) \union {u}) /\ Total(count) = Cardinality(Units(count))
  BY <1>5 DEF Total
<1> QED BY <1>5, <1>6, <1>7

LEMMA InitCInv == Init => CInv
<1> SUFFICES ASSUME Init PROVE CInv
  OBVIOUS
<1>1. Units(m_rxCount) = {} /\ Units(m_txCount) = {}
  BY DEF Init, Units
<1>2. network = {}
  BY DEF Init
<1> QED BY <1>1, <1>2, InitTInv, FS_EmptySet
        DEF CInv, FreshSeqs, Finite, CountsMatchTransit, Total

LEMMA NextCInv == CInv /\ [Next]_vars => CInv'
<1> SUFFICES ASSUME CInv, [Next]_vars PROVE CInv'
  OBVIOUS
<1>0. TInv /\ TypeOK /\ FreshSeqs /\ Finite /\ CountsMatchTransit
  BY DEF CInv, TInv
<1>t. TInv'
  BY <1>0, NextTInv
<1>n. Total(m_rxCount) \in Nat /\ Total(m_txCount) \in Nat /\ Cardinality(network) \in Nat
  BY <1>0, FS_CardinalityType DEF Finite, Total
<1>1. CASE UNCHANGED netVars
  BY <1>0, <1>1, <1>t DEF netVars, CInv, FreshSeqs, Finite, CountsMatchTransit, Total, Units
<1>2. ASSUME NEW r \in Ranks, SendPacket(r) PROVE CInv'
  <2>1. PICK m \in Message :
          /\ m.from = r /\ m.seq = m_txCount[r]
          /\ network' = network \union {m}
    BY <1>0, <1>2, SentMessage
  <2>2. m_txCount' = [m_txCount EXCEPT ![r] = @ + 1] /\ m_rxCount' = m_rxCount
    BY <1>2 DEF SendPacket
  <2>3. m_txCount \in [Ranks -> Nat] /\ network \subseteq Message
    BY <1>0 DEF TypeOK
  <2>4. m \notin network
    BY <2>1, <2>3, <1>0 DEF FreshSeqs
  <2>5. IsFiniteSet(network') /\ Cardinality(network') = Cardinality(network) + 1
    BY <2>1, <2>4, <1>0, FS_AddElement DEF Finite
  <2>6. IsFiniteSet(Units(m_txCount')) /\ Total(m_txCount') = Total(m_txCount) + 1
    BY <2>2, <2>3, <1>0, OneMoreUnit DEF Finite
  <2>7. FreshSeqs'
    <3> SUFFICES ASSUME NEW k \in network' PROVE k.seq < m_txCount'[k.from]
      BY DEF FreshSeqs
    <3>1. k \in Message /\ k.from \in Ranks /\ k.seq \in Nat
      BY <2>1, <2>3 DEF Message
    <3>2. CASE k \in network
      BY <3>1, <3>2, <2>2, <2>3, <1>0 DEF FreshSeqs
    <3>3. CASE k = m
      BY <3>1, <3>3, <2>1, <2>2, <2>3
    <3> QED BY <3>2, <3>3, <2>1
  <2>8. IsFiniteSet(Units(m_rxCount)') /\ Total(m_rxCount)' = Total(m_rxCount)
    BY <2>2, <1>0 DEF Finite, Units, Total
  <2>9. IsFiniteSet(Units(m_txCount)') /\ Total(m_txCount)' = Total(m_txCount) + 1
    BY <2>6 DEF Units, Total
  <2>10. CountsMatchTransit'
    BY <2>5, <2>8, <2>9, <1>0, <1>n DEF CountsMatchTransit
  <2> QED BY <1>t, <2>5, <2>7, <2>8, <2>9, <2>10 DEF CInv, Finite
<1>3. ASSUME NEW r \in Ranks, ReceiveMessage(r) PROVE CInv'
  <2>1. PICK m \in network : network' = network \ {m}
    BY <1>3 DEF ReceiveMessage
  <2>2. m_rxCount' = [m_rxCount EXCEPT ![r] = @ + 1] /\ m_txCount' = m_txCount
    BY <1>3 DEF ReceiveMessage
  <2>3. m_rxCount \in [Ranks -> Nat]
    BY <1>0 DEF TypeOK
  <2>4. IsFiniteSet(network') /\ Cardinality(network') = Cardinality(network) - 1
    BY <2>1, <1>0, FS_RemoveElement DEF Finite
  <2>5. IsFiniteSet(Units(m_rxCount')) /\ Total(m_rxCount') = Total(m_rxCount) + 1
    BY <2>2, <2>3, <1>0, OneMoreUnit DEF Finite
  <2>6. FreshSeqs'
    BY <2>1, <2>2, <1>0 DEF FreshSeqs
  <2>7. IsFiniteSet(Units(m_txCount)') /\ Total(m_txCount)' = Total(m_txCount)
    BY <2>2, <1>0 DEF Finite, Units, Total
  <2>8. IsFiniteSet(Units(m_rxCount)') /\ Total(m_rxCount)' = Total(m_rxCount) + 1
    BY <2>5 DEF Units, Total
  <2>9. CountsMatchTransit'
    BY <2>4, <2>7, <2>8, <1>0, <1>n DEF CountsMatchTransit
  <2> QED BY <1>t, <2>4, <2>6, <2>7, <2>8, <2>9 DEF CInv, Finite
<1> QED
  BY <1>1, <1>2, <1>3 DEF Next, RankStep, AllDone, vars, netVars, Schedule, Remove, HandlerReturns,
     Run, ScanLink, ScanDone, LoopExits, ProcessOneEvent, BeyondGrant, NoMoreMessages, Allgather

(* The sums of all sent and all received counts differ by the number of    *)
(* messages in transit, so the test totRx == totTx of Run is exact.        *)
THEOREM TransitCountIsExact == Spec => []CountsMatchTransit
<1>1. CInv => CountsMatchTransit
  BY DEF CInv
<1> QED BY InitCInv, NextCInv, <1>1, PTL DEF Spec

LEMMA NoTransients ==
  ASSUME CInv, Total(m_rxCount) = Total(m_txCount)
  PROVE  network = {}
<1>1. IsFiniteSet(network) /\ Total(m_rxCount) \in Nat /\ Cardinality(network) \in Nat
  BY FS_CardinalityType DEF CInv, Finite, Total
<1>2. Cardinality(network) = 0
  BY <1>1 DEF CInv, CountsMatchTransit
<1> QED BY <1>1, <1>2, FS_EmptySet

-----------------------------------------------------------------------------
(***************************************************************************)
(* Causality.  Let G be the least next time of the last successful LBTS    *)
(* round (0 before the first).  Nothing that is left to do is earlier than *)
(* G: no queued event, no running handler; and a message in transit is     *)
(* due a link delay after G at least.  A grant is G plus the lookahead,    *)
(* which no remote link undercuts, so no message can be due before it.     *)
(* The lookahead bounds the delays only if none is zero.                   *)
(***************************************************************************)
PositiveDelays == \A l \in Links : Delay[l] > 0

Starting(r) == pc[r] \in {"script", "lookahead"}

LookAheadIsBound ==
  \A r \in Ranks :
    /\ pc[r] = "script" => m_lookAhead[r] = 0
    /\ ~Starting(r) => unscanned[r] = {}
    /\ pc[r] # "script" =>
         \A l \in Remote(r) \ unscanned[r] : 0 < m_lookAhead[r] /\ m_lookAhead[r] <= Delay[l]

ClocksWithinGrants(G) ==
  \A r \in Ranks :
    /\ Starting(r) => G = 0 /\ m_currentTs[r] = 0
    /\ ~Starting(r) => /\ m_grantedTime[r] = G + m_lookAhead[r]
                       /\ m_currentTs[r] <= m_grantedTime[r]
    /\ pc[r] = "lookahead" => m_grantedTime[r] = m_lookAhead[r]
    /\ pc[r] = "script" => m_grantedTime[r] = 0
    /\ pc[r] = "handler" => G <= m_currentTs[r]

EventsAhead(G) ==
  \A r \in Ranks : \A ev \in m_events[r] : G <= ev.ts /\ m_currentTs[r] <= ev.ts

MessagesAhead(G) ==
  \A m \in network : m.to \in Ends[m.link] /\ G + Delay[m.link] <= m.rxTime

Causal(G) ==
  /\ G \in Nat
  /\ ClocksWithinGrants(G)
  /\ EventsAhead(G)
  /\ MessagesAhead(G)

IInv == CInv /\ LookAheadIsBound /\ \E G \in Nat : Causal(G)

LEMMA CausalIsSafe ==
  ASSUME IInv
  PROVE  NoEventFromThePast /\ GrantIsSafe
<1>0. TypeOK /\ LookAheadIsBound
  BY DEF IInv, CInv, TInv
<1>1. PICK G \in Nat : Causal(G)
  BY DEF IInv
<1>2. ASSUME NEW m \in network
      PROVE  /\ m_currentTs[m.to] <= m.rxTime
             /\ ~Starting(m.to) => m_grantedTime[m.to] <= m.rxTime
  <2>1. /\ m.to \in Ranks /\ m.link \in Links /\ m.rxTime \in Nat /\ Delay[m.link] \in Nat
        /\ m_currentTs[m.to] \in Nat /\ m_lookAhead[m.to] \in Nat /\ m_grantedTime[m.to] \in Nat
    BY <1>0, TopologyAssumption DEF TypeOK, Message
  <2>2. m.link \in Remote(m.to) /\ G + Delay[m.link] <= m.rxTime
    BY <1>1, <2>1 DEF Causal, MessagesAhead, Remote
  <2>3. CASE Starting(m.to)
    BY <2>1, <2>2, <2>3, <1>1 DEF Causal, ClocksWithinGrants
  <2>4. CASE ~Starting(m.to)
    <3>1. m_lookAhead[m.to] <= Delay[m.link]
      BY <2>1, <2>2, <2>4, <1>0 DEF LookAheadIsBound, Starting
    <3>2. /\ m_grantedTime[m.to] = G + m_lookAhead[m.to]
          /\ m_currentTs[m.to] <= m_grantedTime[m.to]
      BY <2>1, <2>4, <1>1 DEF Causal, ClocksWithinGrants
    <3> QED BY <2>1, <2>2, <3>1, <3>2
  <2> QED BY <2>3, <2>4
<1>3. \A r \in Ranks : \A ev \in m_events[r] : m_currentTs[r] <= ev.ts
  BY <1>1 DEF Causal, EventsAhead
<1> QED BY <1>2, <1>3 DEF NoEventFromThePast, GrantIsSafe, Starting

LEMMA InitIInv == Init => IInv
<1> SUFFICES ASSUME Init PROVE IInv
  OBVIOUS
<1>1. LookAheadIsBound
  BY DEF Init, LookAheadIsBound, Starting
<1>2. Causal(0)
  BY TimesAssumption DEF Init, Causal, ClocksWithinGrants, EventsAhead, MessagesAhead, Starting
<1> QED BY <1>1, <1>2, InitCInv DEF IInv

LEMMA NextLookAhead ==
  ASSUME PositiveDelays, TypeOK, LookAheadIsBound, [Next]_vars
  PROVE  LookAheadIsBound'
<1> USE DEF rankVars, netVars, Starting, Goto
<1>1. ASSUME NEW r \in Ranks, ScanLink(r) PROVE LookAheadIsBound'
  <2>1. PICK l \in unscanned[r] :
          /\ unscanned' = [unscanned EXCEPT ![r] = @ \ {l}]
          /\ m_lookAhead' = [m_lookAhead EXCEPT ![r] = LookAhead(m_lookAhead[r], Delay[l])]
    BY <1>1 DEF ScanLink
  <2>2. pc[r] = "lookahead" /\ pc' = pc
    BY <1>1 DEF ScanLink
  <2>3. /\ l \in Links /\ Delay[l] \in Nat /\ Delay[l] > 0 /\ m_lookAhead[r] \in Nat
        /\ \A k \in Links : Delay[k] \in Nat
    BY TopologyAssumption DEF TypeOK, PositiveDelays
  <2> DEFINE new == LookAhead(m_lookAhead[r], Delay[l])
  <2>4. 0 < new /\ new <= Delay[l] /\ (m_lookAhead[r] > 0 => new <= m_lookAhead[r]) /\ new \in Nat
    BY <2>3 DEF LookAhead
  <2>5. \A k \in Remote(r) \ unscanned'[r] : 0 < m_lookAhead'[r] /\ m_lookAhead'[r] <= Delay[k]
    <3> SUFFICES ASSUME NEW k \in Remote(r) \ unscanned'[r]
                 PROVE  0 < m_lookAhead'[r] /\ m_lookAhead'[r] <= Delay[k]
      OBVIOUS
    <3>1. m_lookAhead'[r] = new /\ unscanned'[r] = unscanned[r] \ {l}
      BY <2>1 DEF TypeOK
    <3>2. CASE k = l
      BY <3>1, <3>2, <2>4
    <3>3. CASE k # l
      <4>1. k \in Remote(r) \ unscanned[r] /\ k \in Links
        BY <3>1, <3>3 DEF Remote
      <4>2. 0 < m_lookAhead[r] /\ m_lookAhead[r] <= Delay[k]
        BY <4>1, <2>2 DEF LookAheadIsBound
      <4> HIDE DEF new
      <4> QED BY <4>1, <4>2, <3>1, <2>3, <2>4
    <3> QED BY <3>2, <3>3
  <2>6. \A q \in Ranks \ {r} : m_lookAhead'[q] = m_lookAhead[q] /\ unscanned'[q] = unscanned[q]
    BY <2>1 DEF TypeOK
  <2> QED BY <2>2, <2>5, <2>6 DEF LookAheadIsBound
<1>2. ASSUME NEW r \in Ranks, Run(r) PROVE LookAheadIsBound'
  <2>1. /\ pc[r] = "script" /\ pc' = [pc EXCEPT ![r] = "lookahead"]
        /\ unscanned' = [unscanned EXCEPT ![r] = Remote(r)] /\ m_lookAhead' = m_lookAhead
    BY <1>2 DEF Run
  <2> QED BY <2>1 DEF TypeOK, LookAheadIsBound
<1>3. ASSUME UNCHANGED <<unscanned, m_lookAhead>>,
             \/ pc' = pc
             \/ \E r \in Ranks : \E p \in {"loop", "handler", "receive", "allgather", "done"} :
                  /\ ~Starting(r) \/ (pc[r] = "lookahead" /\ unscanned[r] = {})
                  /\ pc' = [pc EXCEPT ![r] = p]
      PROVE  LookAheadIsBound'
  BY <1>3 DEF TypeOK, LookAheadIsBound
<1>4. ASSUME NEW r \in Ranks, ScanDone(r) PROVE LookAheadIsBound'
  BY <1>3, <1>4 DEF ScanDone
<1>5. ASSUME NEW r \in Ranks, ProcessOneEvent(r) PROVE LookAheadIsBound'
  <2>1. PICK ev \in m_events[r] : pc' = [pc EXCEPT ![r] = IF ev.stop THEN "loop" ELSE "handler"]
    BY <1>5 DEF ProcessOneEvent
  <2>2. UNCHANGED <<unscanned, m_lookAhead>> /\ ~Starting(r)
    BY <1>5 DEF ProcessOneEvent
  <2>3. (IF ev.stop THEN "loop" ELSE "handler") \in {"loop", "handler", "receive", "allgather", "done"}
    OBVIOUS
  <2> QED BY <2>1, <2>2, <2>3, <1>3
<1>6. ASSUME NEW r \in Ranks,
             HandlerReturns(r) \/ LoopExits(r) \/ BeyondGrant(r) \/ NoMoreMessages(r)
      PROVE  LookAheadIsBound'
  BY <1>3, <1>6 DEF HandlerReturns, LoopExits, BeyondGrant, NoMoreMessages
<1>7. ASSUME NEW r \in Ranks, Schedule(r) \/ Remove(r) \/ SendPacket(r) \/ ReceiveMessage(r)
      PROVE  LookAheadIsBound'
  BY <1>3, <1>7 DEF Schedule, Remove, SendPacket, ReceiveMessage
<1>8. ASSUME Allgather PROVE LookAheadIsBound'
  <2>1. /\ \A r \in Ranks : pc[r] = "allgather" /\ pc'[r] = "loop"
        /\ UNCHANGED <<unscanned, m_lookAhead>>
    BY <1>8 DEF Allgather
  <2> QED BY <2>1 DEF LookAheadIsBound
<1>9. CASE UNCHANGED vars
  BY <1>3, <1>9 DEF vars
<1> QED
  BY <1>1, <1>2, <1>4, <1>5, <1>6, <1>7, <1>8, <1>9 DEF Next, RankStep, AllDone

(* A rank's events after it adds one that is not in its past.              *)
LEMMA AddedEventAhead ==
  ASSUME TypeOK, NEW G \in Nat, EventsAhead(G), NEW r \in Ranks, NEW ts \in Nat,
         G <= ts, m_currentTs[r] <= ts, AddEvent(r, ts), UNCHANGED m_currentTs
  PROVE  EventsAhead(G)'
<1> DEFINE new == [ts |-> ts, uid |-> m_uid[r], stop |-> FALSE]
<1>1. m_events' = [m_events EXCEPT ![r] = @ \union {new}] /\ new.ts = ts
  BY DEF AddEvent
<1> HIDE DEF new
<1>2. \A q \in Ranks : \A ev \in m_events'[q] : ev \in m_events[q] \/ (q = r /\ ev = new)
  BY <1>1 DEF TypeOK
<1> QED BY <1>1, <1>2 DEF EventsAhead

LEMMA NextCausal ==
  ASSUME IInv, [Next]_vars, NEW G \in Nat, Causal(G)
  PROVE  \E H \in Nat : Causal(H)'
<1> USE DEF rankVars, netVars, Starting, Goto
<1>0. /\ TypeOK /\ LookAheadIsBound /\ CInv
      /\ ClocksWithinGrants(G) /\ EventsAhead(G) /\ MessagesAhead(G)
  BY DEF IInv, CInv, TInv, Causal
<1>1. ASSUME NEW r \in Ranks, Schedule(r) PROVE Causal(G)'
  <2>1. PICK d \in Delays : AddEvent(r, m_currentTs[r] + d)
    BY <1>1 DEF Schedule
  <2>2. /\ pc[r] \in {"script", "handler"}
        /\ UNCHANGED <<pc, unscanned, m_lookAhead, m_grantedTime, m_currentTs, m_stop,
                       m_rxCount, m_txCount, network>>
    BY <1>1 DEF Schedule
  <2>3. d \in Nat /\ m_currentTs[r] \in Nat
    BY <1>0, TimesAssumption DEF TypeOK
  <2>4. G <= m_currentTs[r]
    BY <1>0, <2>2 DEF ClocksWithinGrants
  <2>5. EventsAhead(G)'
    BY <1>0, <2>1, <2>2, <2>3, <2>4, AddedEventAhead
  <2> QED BY <1>0, <2>2, <2>5 DEF Causal, ClocksWithinGrants, MessagesAhead
<1>2. ASSUME NEW r \in Ranks, Remove(r) PROVE Causal(G)'
  <2>1. PICK ev \in m_events[r] : m_events' = [m_events EXCEPT ![r] = @ \ {ev}]
    BY <1>2 DEF Remove
  <2>2. \A q \in Ranks : m_events'[q] \subseteq m_events[q]
    BY <1>0, <2>1 DEF TypeOK
  <2>3. UNCHANGED <<pc, m_lookAhead, m_grantedTime, m_currentTs, network>>
    BY <1>2 DEF Remove
  <2> QED BY <1>0, <2>2, <2>3 DEF Causal, ClocksWithinGrants, EventsAhead, MessagesAhead
<1>3. ASSUME NEW r \in Ranks, SendPacket(r) PROVE Causal(G)'
  <2>1. PICK m \in Message :
          /\ m.from = r /\ m.link \in Links /\ m.to \in Ends[m.link]
          /\ m.rxTime >= m_currentTs[r] + Delay[m.link]
          /\ network' = network \union {m}
    BY <1>0, <1>3, SentMessage DEF CInv
  <2>2. pc[r] = "handler" /\ UNCHANGED <<pc, m_lookAhead, m_grantedTime, m_currentTs, m_events>>
    BY <1>3 DEF SendPacket
  <2>3. G <= m_currentTs[r] /\ m_currentTs[r] \in Nat /\ Delay[m.link] \in Nat /\ m.rxTime \in Nat
    BY <1>0, <2>1, <2>2, TopologyAssumption DEF ClocksWithinGrants, TypeOK, Message
  <2>4. G + Delay[m.link] <= m.rxTime
    BY <2>1, <2>3
  <2>5. MessagesAhead(G)'
    BY <1>0, <2>1, <2>4 DEF MessagesAhead
  <2> QED BY <1>0, <2>2, <2>5 DEF Causal, ClocksWithinGrants, EventsAhead
<1>4. ASSUME NEW r \in Ranks,
             \/ HandlerReturns(r) \/ Run(r) \/ ScanDone(r)
             \/ LoopExits(r) \/ BeyondGrant(r) \/ NoMoreMessages(r)
      PROVE  Causal(G)'
  <2>1. UNCHANGED <<m_lookAhead, m_grantedTime, m_currentTs, m_events, network>>
    BY <1>4 DEF HandlerReturns, Run, ScanDone, LoopExits, BeyondGrant, NoMoreMessages
  <2>2. ClocksWithinGrants(G)'
    <3>1. CASE Run(r)
      <4>1. pc[r] = "script" /\ pc' = [pc EXCEPT ![r] = "lookahead"]
        BY <3>1 DEF Run
      <4> QED BY <1>0, <2>1, <4>1 DEF TypeOK, ClocksWithinGrants, LookAheadIsBound
    <3>2. CASE ScanDone(r)
      <4>1. pc[r] = "lookahead" /\ pc' = [pc EXCEPT ![r] = "loop"]
        BY <3>2 DEF ScanDone
      <4> QED BY <1>0, <2>1, <4>1 DEF TypeOK, ClocksWithinGrants
    <3>3. ASSUME HandlerReturns(r) \/ LoopExits(r) \/ BeyondGrant(r) \/ NoMoreMessages(r)
          PROVE  ClocksWithinGrants(G)'
      <4>1. PICK p \in {"loop", "done", "receive", "allgather"} : pc' = [pc EXCEPT ![r] = p]
        BY <3>3 DEF HandlerReturns, LoopExits, BeyondGrant, NoMoreMessages
      <4>2. ~Starting(r)
        BY <3>3 DEF HandlerReturns, LoopExits, BeyondGrant, NoMoreMessages
      <4> QED BY <1>0, <2>1, <4>1, <4>2 DEF TypeOK, ClocksWithinGrants
    <3> QED BY <1>4, <3>1, <3>2, <3>3
  <2> QED BY <1>0, <2>1, <2>2 DEF Causal, EventsAhead, MessagesAhead
<1>5. ASSUME NEW r \in Ranks, ScanLink(r) PROVE Causal(G)'
  <2>1. PICK l \in unscanned[r] :
          /\ m_lookAhead' = [m_lookAhead EXCEPT ![r] = LookAhead(m_lookAhead[r], Delay[l])]
          /\ m_grantedTime' = [m_grantedTime EXCEPT ![r] = LookAhead(m_lookAhead[r], Delay[l])]
    BY <1>5 DEF ScanLink
  <2>2. pc[r] = "lookahead" /\ UNCHANGED <<pc, m_events, m_currentTs, network>>
    BY <1>5 DEF ScanLink
  <2>3. ClocksWithinGrants(G)'
    BY <1>0, <2>1, <2>2 DEF TypeOK, ClocksWithinGrants
  <2> QED BY <1>0, <2>2, <2>3 DEF Causal, EventsAhead, MessagesAhead
<1>6. ASSUME NEW r \in Ranks, ProcessOneEvent(r) PROVE Causal(G)'
  <2>1. PICK ev \in m_events[r] :
          /\ IsNext(r, ev)
          /\ ev.ts <= m_grantedTime[r]
          /\ m_events' = [m_events EXCEPT ![r] = @ \ {ev}]
          /\ m_currentTs' = [m_currentTs EXCEPT ![r] = ev.ts]
          /\ pc' = [pc EXCEPT ![r] = IF ev.stop THEN "loop" ELSE "handler"]
    BY <1>6 DEF ProcessOneEvent
  <2>2. pc[r] = "loop" /\ UNCHANGED <<m_lookAhead, m_grantedTime, network>>
    BY <1>6 DEF ProcessOneEvent
  <2>3. ev.ts \in Nat /\ G <= ev.ts /\ \A f \in m_events[r] : f.ts \in Nat
    BY <1>0 DEF EventsAhead, TypeOK, Event
  <2>4. ClocksWithinGrants(G)'
    BY <1>0, <2>1, <2>2, <2>3 DEF TypeOK, ClocksWithinGrants
  <2>5. EventsAhead(G)'
    <3>1. \A f \in m_events[r] \ {ev} : ev.ts <= f.ts
      BY <2>1, <2>3 DEF IsNext, Before
    <3>2. /\ m_events'[r] = m_events[r] \ {ev} /\ m_currentTs'[r] = ev.ts
          /\ \A q \in Ranks \ {r} : m_events'[q] = m_events[q] /\ m_currentTs'[q] = m_currentTs[q]
      BY <1>0, <2>1 DEF TypeOK
    <3> QED BY <1>0, <3>1, <3>2 DEF EventsAhead
  <2>6. MessagesAhead(G)'
    BY <1>0, <2>2 DEF MessagesAhead
  <2> QED BY <2>4, <2>5, <2>6 DEF Causal
<1>7. ASSUME NEW r \in Ranks, ReceiveMessage(r) PROVE Causal(G)'
  <2>1. PICK m \in network :
          m.to = r /\ network' = network \ {m} /\ AddEvent(r, m.rxTime)
    BY <1>7 DEF ReceiveMessage
  <2>2. UNCHANGED <<pc, m_lookAhead, m_grantedTime, m_currentTs>>
    BY <1>7 DEF ReceiveMessage
  <2>3. m.rxTime \in Nat /\ m.link \in Links /\ Delay[m.link] \in Nat
    BY <1>0, TopologyAssumption DEF TypeOK, Message
  <2>4. G <= m.rxTime
    BY <1>0, <2>3 DEF MessagesAhead
  <2>5. m_currentTs[r] <= m.rxTime
    BY <2>1, CausalIsSafe DEF NoEventFromThePast
  <2>6. EventsAhead(G)'
    BY <1>0, <2>1, <2>2, <2>3, <2>4, <2>5, AddedEventAhead
  <2> QED BY <1>0, <2>1, <2>2, <2>6 DEF Causal, ClocksWithinGrants, MessagesAhead
<1>8. ASSUME Allgather PROVE \E H \in Nat : Causal(H)'
  <2>1. /\ \A r \in Ranks : pc[r] = "allgather" /\ pc'[r] = "loop"
        /\ UNCHANGED <<m_lookAhead, m_events, m_currentTs, network>>
    BY <1>8 DEF Allgather
  <2>2. PICK smallest \in {ev.ts : ev \in UNION {m_events[r] : r \in Ranks}} :
          /\ IsSmallest(smallest)
          /\ m_grantedTime' = [r \in Ranks |->
               IF Total(m_rxCount) = Total(m_txCount)
               THEN smallest + m_lookAhead[r] ELSE m_grantedTime[r]]
    BY <1>8 DEF Allgather
  <2>3. PICK q \in Ranks : \E ev \in m_events[q] : smallest = ev.ts
    BY <2>2 DEF IsSmallest
  <2>4. smallest \in Nat /\ G <= smallest
    BY <1>0, <2>3 DEF EventsAhead, TypeOK, Event
  <2>5. CASE Total(m_rxCount) # Total(m_txCount)
    <3>1. \A r \in Ranks : m_grantedTime'[r] = m_grantedTime[r]
      BY <2>2, <2>5
    <3> QED BY <1>0, <2>1, <3>1
            DEF Causal, ClocksWithinGrants, EventsAhead, MessagesAhead
  <2>6. CASE Total(m_rxCount) = Total(m_txCount)
    <3>1. network = {}
      BY <1>0, <2>6, NoTransients
    <3>2. \A r \in Ranks : m_grantedTime'[r] = smallest + m_lookAhead[r]
      BY <2>2, <2>6
    <3>3. \A r \in Ranks : /\ m_currentTs[r] <= G + m_lookAhead[r]
                           /\ m_currentTs[r] \in Nat /\ m_lookAhead[r] \in Nat
      BY <1>0, <2>1 DEF ClocksWithinGrants, TypeOK
    <3>4. \A r \in Ranks : m_currentTs[r] <= smallest + m_lookAhead[r]
      BY <2>4, <3>3
    <3>5. EventsAhead(smallest)'
      BY <1>0, <2>1, <2>2 DEF EventsAhead, IsSmallest
    <3>6. ClocksWithinGrants(smallest)'
      BY <2>1, <3>2, <3>4 DEF ClocksWithinGrants
    <3>7. MessagesAhead(smallest)'
      BY <2>1, <3>1 DEF MessagesAhead
    <3> QED BY <2>4, <3>5, <3>6, <3>7 DEF Causal
  <2> QED BY <2>5, <2>6
<1>9. CASE UNCHANGED vars
  BY <1>0, <1>9 DEF vars, Causal, ClocksWithinGrants, EventsAhead, MessagesAhead
<1> QED
  BY <1>1, <1>2, <1>3, <1>4, <1>5, <1>6, <1>7, <1>8, <1>9 DEF Next, RankStep, AllDone

LEMMA NextIInv == PositiveDelays /\ IInv /\ [Next]_vars => IInv'
<1> SUFFICES ASSUME PositiveDelays, IInv, [Next]_vars PROVE IInv'
  OBVIOUS
<1>1. CInv'
  BY NextCInv DEF IInv
<1>2. LookAheadIsBound'
  BY NextLookAhead DEF IInv, CInv, TInv
<1>3. PICK G \in Nat : Causal(G)
  BY DEF IInv
<1>4. \E H \in Nat : Causal(H)'
  BY <1>3, NextCausal
<1> QED BY <1>1, <1>2, <1>4 DEF IInv

(* Causality: when no remote link has delay zero, no rank ever receives a  *)
(* message from its past, however messages are delayed and reordered.      *)
THEOREM Causality ==
  ASSUME PositiveDelays
  PROVE  Spec => []NoEventFromThePast
<1>1. IInv => NoEventFromThePast
  BY CausalIsSafe
<1>2. IInv /\ [Next]_vars => IInv'
  BY NextIInv
<1> QED BY InitIInv, <1>1, <1>2, PTL DEF Spec

(* The grant of an LBTS round covers no time at which a message can still  *)
(* be due.                                                                 *)
THEOREM GrantsAreSafe ==
  ASSUME PositiveDelays
  PROVE  Spec => []GrantIsSafe
<1>1. IInv => GrantIsSafe
  BY CausalIsSafe
<1>2. IInv /\ [Next]_vars => IInv'
  BY NextIInv
<1> QED BY InitIInv, <1>1, <1>2, PTL DEF Spec

(* ProcessOneEvent's assertion: every rank runs its events, its own and    *)
(* the received ones, in time-stamped order.                               *)
THEOREM TimeOrder ==
  ASSUME PositiveDelays
  PROVE  Spec => TimeStampedOrder
<1>1. IInv /\ [Next]_vars => [\A r \in Ranks : m_currentTs[r] <= m_currentTs'[r]]_vars
  <2> SUFFICES ASSUME IInv, Next, NEW r \in Ranks
               PROVE  m_currentTs[r] <= m_currentTs'[r]
    OBVIOUS
  <2>1. m_currentTs \in [Ranks -> Nat] /\ NoEventFromThePast
    BY CausalIsSafe DEF IInv, CInv, TInv, TypeOK
  <2>2. CASE UNCHANGED m_currentTs
    BY <2>1, <2>2
  <2>3. ASSUME NEW q \in Ranks, ProcessOneEvent(q) PROVE m_currentTs[r] <= m_currentTs'[r]
    <3>1. PICK ev \in m_events[q] : m_currentTs' = [m_currentTs EXCEPT ![q] = ev.ts]
      BY <2>3 DEF ProcessOneEvent
    <3>2. m_currentTs[q] <= ev.ts
      BY <2>1 DEF NoEventFromThePast
    <3> QED BY <2>1, <3>1, <3>2
  <2> QED
    BY <2>2, <2>3 DEF Next, RankStep, AllDone, vars, rankVars, Schedule, Remove, SendPacket,
       HandlerReturns, Run, ScanLink, ScanDone, LoopExits, BeyondGrant, ReceiveMessage,
       NoMoreMessages, Allgather
<1>2. IInv /\ [Next]_vars => IInv'
  BY NextIInv
<1> QED BY InitIInv, <1>1, <1>2, PTL DEF Spec, TimeStampedOrder
=============================================================================
