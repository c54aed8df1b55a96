-------------------------- MODULE DistributedSim ---------------------------
(***************************************************************************)
(* The distributed executive: one DistributedSimulatorImpl per MPI rank    *)
(* (mpi/model/distributed-simulator-impl.cc), packets crossing ranks over  *)
(* PointToPointRemoteChannel and MpiInterface.  Each rank runs its own     *)
(* events up to its granted time; the grants come from a conservative      *)
(* algorithm: the least next time of all ranks, agreed on in an            *)
(* MPI_Allgather when no message is in transit, plus the rank's lookahead. *)
(*                                                                         *)
(* MPI itself is external: messages are delivered reliably, in any order,  *)
(* after any delay; the Allgather is a barrier.  Every rank runs the same  *)
(* program, so every script calls Simulator::Stop (StopTime).              *)
(***************************************************************************)
EXTENDS Integers, FiniteSets

CONSTANTS
  Ranks,    \* the MPI ranks (system ids)
  Links,    \* the point-to-point channels between nodes of different ranks
  Ends,     \* Ends[l]: the two ranks link l joins
  Delay,    \* Delay[l]: the channel's Delay attribute (0 by default)
  StopTime,
  Delays,   \* delays events are scheduled with
  TxTimes,  \* transmission times of packets
  MaxUid, MaxTx  \* bounds on scheduling and sending, per rank

ASSUME TopologyAssumption ==
  /\ Ends \in [Links -> SUBSET Ranks]
  /\ \A l \in Links : \E a, b \in Ranks : a # b /\ Ends[l] = {a, b}
  /\ Delay \in [Links -> Nat]

ASSUME TimesAssumption ==
  /\ StopTime \in Nat
  /\ Delays \subseteq Nat
  /\ TxTimes \subseteq Nat
  /\ MaxUid \in Nat /\ MaxTx \in Nat

VARIABLES
  pc,            \* where each rank is: in its script, in Run, after it
  unscanned,     \* the links CalculateLookAhead has still to look at
  m_lookAhead,
  m_grantedTime,
  m_events,      \* the event list: time, uid, and whether it is Stop's event
  m_uid,
  m_currentTs,
  m_stop,
  m_rxCount,
  m_txCount,
  network        \* messages sent and not yet received

rankVars == <<pc, unscanned, m_lookAhead, m_grantedTime, m_events, m_uid, m_currentTs, m_stop>>
netVars == <<m_rxCount, m_txCount, network>>
vars == <<rankVars, netVars>>

FirstUid == 4  \* 0, 1 and 2 are reserved

Remote(r) == {l \in Links : r \in Ends[l]}

Before(a, b) == a.ts < b.ts \/ (a.ts = b.ts /\ a.uid < b.uid)
IsNext(r, ev) == ev \in m_events[r] /\ \A f \in m_events[r] \ {ev} : Before(ev, f)

(* Something at rank r, which goes on at place p.                          *)
Goto(r, p) == pc' = [pc EXCEPT ![r] = p]

Init ==
  /\ pc = [r \in Ranks |-> "script"]
  /\ unscanned = [r \in Ranks |-> {}]
  /\ m_lookAhead = [r \in Ranks |-> 0]
  /\ m_grantedTime = [r \in Ranks |-> 0]
  /\ m_events = [r \in Ranks |-> {[ts |-> StopTime, uid |-> FirstUid, stop |-> TRUE]}]
  /\ m_uid = [r \in Ranks |-> FirstUid + 1]
  /\ m_currentTs = [r \in Ranks |-> 0]
  /\ m_stop = [r \in Ranks |-> FALSE]
  /\ m_rxCount = [r \in Ranks |-> 0]
  /\ m_txCount = [r \in Ranks |-> 0]
  /\ network = {}

-----------------------------------------------------------------------------
(* Calls the script (before Run) and event handlers make.                  *)

(* Wrong variant: m_uid not incremented.                                   *)
AddEventSameUid(r, ts) ==
  /\ m_events' = [m_events EXCEPT ![r] = @ \union {[ts |-> ts, uid |-> m_uid[r], stop |-> FALSE]}]
  /\ UNCHANGED m_uid

AddEvent(r, ts) ==
  /\ m_events' = [m_events EXCEPT ![r] = @ \union {[ts |-> ts, uid |-> m_uid[r], stop |-> FALSE]}]
  /\ m_uid' = [m_uid EXCEPT ![r] = @ + 1]

Schedule(r) ==
  /\ pc[r] \in {"script", "handler"}
  /\ m_uid[r] < MaxUid
  /\ \E d \in Delays : AddEvent(r, m_currentTs[r] + d)
  /\ UNCHANGED <<pc, unscanned, m_lookAhead, m_grantedTime, m_currentTs, m_stop, netVars>>

(* Of an event that has not expired; nobody has the id of Stop's event.    *)
Remove(r) ==
  /\ pc[r] \in {"script", "handler"}
  /\ \E ev \in m_events[r] :
       /\ ~ev.stop
       /\ m_events' = [m_events EXCEPT ![r] = @ \ {ev}]
  /\ UNCHANGED <<pc, unscanned, m_lookAhead, m_grantedTime, m_uid, m_currentTs, m_stop, netVars>>

(* Wrong variant: the message not counted.                                 *)
SendPacketUncounted(r) ==
  /\ pc[r] = "handler"
  /\ m_txCount[r] < MaxTx
  /\ \E l \in Remote(r), txTime \in TxTimes, q \in Ranks :
       /\ Ends[l] = {r, q}
       /\ q # r
       /\ network' = network \union
            {[link |-> l, from |-> r, to |-> q, seq |-> m_txCount[r],
              rxTime |-> m_currentTs[r] + txTime + Delay[l]]}
  /\ UNCHANGED <<rankVars, m_rxCount, m_txCount>>

(* A device of this rank transmits on a remote channel; the receive time   *)
(* is computed here and travels with the packet.                           *)
SendPacket(r) ==
  /\ pc[r] = "handler"
  /\ m_txCount[r] < MaxTx
  /\ \E l \in Remote(r), txTime \in TxTimes, q \in Ranks :
       /\ Ends[l] = {r, q}
       /\ q # r
       /\ network' = network \union
            {[link |-> l, from |-> r, to |-> q, seq |-> m_txCount[r],
              rxTime |-> m_currentTs[r] + txTime + Delay[l]]}
  /\ m_txCount' = [m_txCount EXCEPT ![r] = @ + 1]
  /\ UNCHANGED <<rankVars, m_rxCount>>

HandlerReturns(r) ==
  /\ pc[r] = "handler"
  /\ Goto(r, "loop")
  /\ UNCHANGED <<unscanned, m_lookAhead, m_grantedTime, m_events, m_uid, m_currentTs, m_stop, netVars>>

-----------------------------------------------------------------------------
(* Run.                                                                    *)

Run(r) ==
  /\ pc[r] = "script"
  /\ Goto(r, "lookahead")
  /\ unscanned' = [unscanned EXCEPT ![r] = Remote(r)]
  /\ UNCHANGED <<m_lookAhead, m_grantedTime, m_events, m_uid, m_currentTs, m_stop, netVars>>

(* Wrong variant: the largest delay.                                       *)
LookAheadLargest(old, d) == IF old = 0 \/ d > old THEN d ELSE old

(* The new lookahead after a link of delay d: zero stands for "none yet".  *)
LookAhead(old, d) == IF old = 0 \/ d < old THEN d ELSE old

(* CalculateLookAhead visits nodes and devices in the order the script     *)
(* made them, so the remote links come in any order.  The grant is set     *)
(* whenever the lookahead is.                                              *)
ScanLink(r) ==
  /\ pc[r] = "lookahead"
  /\ \E l \in unscanned[r] :
       LET new == LookAhead(m_lookAhead[r], Delay[l]) IN
       /\ unscanned' = [unscanned EXCEPT ![r] = @ \ {l}]
       /\ m_lookAhead' = [m_lookAhead EXCEPT ![r] = new]
       /\ m_grantedTime' = [m_grantedTime EXCEPT ![r] = new]
  /\ UNCHANGED <<pc, m_events, m_uid, m_currentTs, m_stop, netVars>>

ScanDone(r) ==
  /\ pc[r] = "lookahead"
  /\ unscanned[r] = {}
  /\ Goto(r, "loop")
  /\ m_stop' = [m_stop EXCEPT ![r] = FALSE]
  /\ UNCHANGED <<unscanned, m_lookAhead, m_grantedTime, m_events, m_uid, m_currentTs, netVars>>

LoopExits(r) ==
  /\ pc[r] = "loop"
  /\ m_events[r] = {} \/ m_stop[r]
  /\ Goto(r, "done")
  /\ UNCHANGED <<unscanned, m_lookAhead, m_grantedTime, m_events, m_uid, m_currentTs, m_stop, netVars>>

(* Every event but Stop's opens a handler; Stop's sets the flag.           *)
ProcessOneEvent(r) ==
  /\ pc[r] = "loop"
  /\ ~m_stop[r]
  /\ \E ev \in m_events[r] :
       /\ IsNext(r, ev)
       /\ ev.ts <= m_grantedTime[r]
       /\ m_events' = [m_events EXCEPT ![r] = @ \ {ev}]
       /\ m_currentTs' = [m_currentTs EXCEPT ![r] = ev.ts]
       /\ m_stop' = [m_stop EXCEPT ![r] = ev.stop]
       /\ Goto(r, IF ev.stop THEN "loop" ELSE "handler")
  /\ UNCHANGED <<unscanned, m_lookAhead, m_grantedTime, m_uid, netVars>>

(* The next event is beyond the grant: receive, then compute the LBTS.     *)
BeyondGrant(r) ==
  /\ pc[r] = "loop"
  /\ ~m_stop[r]
  /\ m_events[r] # {}
  /\ \A ev \in m_events[r] : ev.ts > m_grantedTime[r]
  /\ Goto(r, "receive")
  /\ UNCHANGED <<unscanned, m_lookAhead, m_grantedTime, m_events, m_uid, m_currentTs, m_stop, netVars>>

(* Wrong variant: the message not counted.                                 *)
ReceiveMessageUncounted(r) ==
  /\ pc[r] = "receive"
  /\ \E m \in network :
       /\ m.to = r
       /\ network' = network \ {m}
       /\ AddEvent(r, m.rxTime)
  /\ UNCHANGED <<pc, unscanned, m_lookAhead, m_grantedTime, m_currentTs, m_stop, m_rxCount, m_txCount>>

(* One turn of the loop of ReceiveMessages: MPI_Testany reports a message  *)
(* that has arrived, which becomes an event at its receive time.           *)
ReceiveMessage(r) ==
  /\ pc[r] = "receive"
  /\ \E m \in network :
       /\ m.to = r
       /\ network' = network \ {m}
       /\ AddEvent(r, m.rxTime)
  /\ m_rxCount' = [m_rxCount EXCEPT ![r] = @ + 1]
  /\ UNCHANGED <<pc, unscanned, m_lookAhead, m_grantedTime, m_currentTs, m_stop, m_txCount>>

(* MPI_Testany reports nothing, whether or not something is on its way.    *)
NoMoreMessages(r) ==
  /\ pc[r] = "receive"
  /\ Goto(r, "allgather")
  /\ UNCHANGED <<unscanned, m_lookAhead, m_grantedTime, m_events, m_uid, m_currentTs, m_stop, netVars>>

(* The sum over the ranks, as the number of units counted.                 *)
Units(count) == UNION {{r} \X (1..count[r]) : r \in Ranks}
Total(count) == Cardinality(Units(count))

(* The least of the next times all ranks sent.                             *)
IsSmallest(t) ==
  /\ \E r \in Ranks : \E ev \in m_events[r] : ev.ts = t
  /\ \A r \in Ranks : \A ev \in m_events[r] : t <= ev.ts

(* Wrong variant: a grant although messages may be in transit.             *)
AllgatherUnchecked ==
  /\ \A r \in Ranks : pc[r] = "allgather"
  /\ \E smallest \in {ev.ts : ev \in UNION {m_events[r] : r \in Ranks}} :
       /\ IsSmallest(smallest)
       /\ m_grantedTime' = [r \in Ranks |-> smallest + m_lookAhead[r]]
  /\ pc' = [r \in Ranks |-> "loop"]
  /\ UNCHANGED <<unscanned, m_lookAhead, m_events, m_uid, m_currentTs, m_stop, netVars>>

(* The barrier: a rank waits in MPI_Allgather until all have sent their    *)
(* counts and next time; what it sent cannot change while it waits.  Then  *)
(* each computes its own grant, unless messages are in transit.  Back in   *)
(* the loop the comparison with the grant is the code's second test.       *)
Allgather ==
  /\ \A r \in Ranks : pc[r] = "allgather"
  /\ \E smallest \in {ev.ts : ev \in UNION {m_events[r] : r \in Ranks}} :
       /\ IsSmallest(smallest)
       /\ m_grantedTime' = [r \in Ranks |->
            IF Total(m_rxCount) = Total(m_txCount)
            THEN smallest + m_lookAhead[r] ELSE m_grantedTime[r]]
  /\ pc' = [r \in Ranks |-> "loop"]
  /\ UNCHANGED <<unscanned, m_lookAhead, m_events, m_uid, m_currentTs, m_stop, netVars>>

-----------------------------------------------------------------------------
RankStep(r) ==
  \/ Schedule(r) \/ Remove(r) \/ SendPacket(r) \/ HandlerReturns(r)
  \/ Run(r) \/ ScanLink(r) \/ ScanDone(r)
  \/ LoopExits(r) \/ ProcessOneEvent(r) \/ BeyondGrant(r)
  \/ ReceiveMessage(r) \/ NoMoreMessages(r)

AllDone == (\A r \in Ranks : pc[r] = "done") /\ UNCHANGED vars

Next == (\E r \in Ranks : RankStep(r)) \/ Allgather \/ AllDone

(* Each process is scheduled, scripts reach Run and handlers return; a     *)
(* message that is on its way arrives by some call of MPI_Testany.         *)
Progress(r) ==
  Run(r) \/ ScanLink(r) \/ ScanDone(r) \/ HandlerReturns(r) \/ LoopExits(r)
    \/ ProcessOneEvent(r) \/ BeyondGrant(r) \/ NoMoreMessages(r)

Fairness ==
  /\ \A r \in Ranks : WF_vars(Progress(r)) /\ SF_vars(ReceiveMessage(r))
  /\ WF_vars(Allgather)

Spec == Init /\ [][Next]_vars /\ Fairness
-----------------------------------------------------------------------------
Places == {"script", "lookahead", "loop", "handler", "receive", "allgather", "done"}
Event == [ts : Nat, uid : Nat, stop : BOOLEAN]
Message == [link : Links, from : Ranks, to : Ranks, seq : Nat, rxTime : Nat]

(* The ranks' members have their types and every event its own uid.        *)
TypeOK ==
  /\ pc \in [Ranks -> Places]
  /\ unscanned \in [Ranks -> SUBSET Links]
  /\ m_lookAhead \in [Ranks -> Nat] /\ m_grantedTime \in [Ranks -> Nat]
  /\ m_events \in [Ranks -> SUBSET Event]
  /\ m_uid \in [Ranks -> Nat]
  /\ m_currentTs \in [Ranks -> Nat]
  /\ m_stop \in [Ranks -> BOOLEAN]
  /\ m_rxCount \in [Ranks -> Nat] /\ m_txCount \in [Ranks -> Nat]
  /\ network \subseteq Message
  /\ \A r \in Ranks : \A e, f \in m_events[r] : e.uid = f.uid => e = f

(* No rank receives "a message containing an event from the past"          *)
(* (distributed.rst): wherever a message is on its way to, and whatever    *)
(* event a rank still holds, its time is not behind that rank's clock.     *)
NoEventFromThePast ==
  /\ \A m \in network : m_currentTs[m.to] <= m.rxTime
  /\ \A r \in Ranks : \A ev \in m_events[r] : m_currentTs[r] <= ev.ts

(* What a grant means: no message still to be received is due before the   *)
(* granted time of a rank that is in its event loop.                       *)
GrantIsSafe ==
  \A m \in network :
    pc[m.to] \notin {"script", "lookahead"} => m_grantedTime[m.to] <= m.rxTime

(* The counts the Allgather adds up differ exactly by the messages in      *)
(* transit: equal totals mean an empty network.                            *)
CountsMatchTransit == Total(m_txCount) = Total(m_rxCount) + Cardinality(network)

(* Each rank executes its events in time-stamped order (the NS_ASSERT of   *)
(* ProcessOneEvent).                                                       *)
TimeStampedOrder == [][\A r \in Ranks : m_currentTs[r] <= m_currentTs'[r]]_vars

(* Run returns on every rank: "Run the simulation until one of ... the     *)
(* user called Simulator::stop" (simulator.h:112-117).  No rank is left    *)
(* waiting for messages or grants.                                         *)
EveryRankReturns == <>(\A r \in Ranks : pc[r] = "done")
=============================================================================
