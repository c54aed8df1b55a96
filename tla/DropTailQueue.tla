--------------------------- MODULE DropTailQueue ---------------------------
(***************************************************************************)
(* The transmit queue of a device: ns3::DropTailQueue and the counters its *)
(* base class ns3::Queue keeps beside it, as operators on one record, so   *)
(* that a device that enqueues and dequeues within one call can compose    *)
(* them.  The byte totals run along with the packet totals and are left    *)
(* out, as are ResetStatistics and DequeueAll, which no device calls.      *)
(***************************************************************************)
EXTENDS Integers, Sequences

Modes == {"PACKETS", "BYTES"}

EmptyQueue ==
  [m_packets |-> <<>>, m_bytesInQueue |-> 0,                       \* DropTailQueue
   m_nPackets |-> 0, m_nBytes |-> 0,                               \* Queue
   m_nTotalReceivedPackets |-> 0, m_nTotalDroppedPackets |-> 0]

(* DoEnqueue drops p.                                                      *)
IsFull(q, p, mode, max) ==
  \/ mode = "PACKETS" /\ Len(q.m_packets) >= max
  \/ mode = "BYTES" /\ q.m_bytesInQueue + p.bytes >= max

Enqueue(q, p) ==
  [m_packets |-> Append(q.m_packets, p),
   m_bytesInQueue |-> q.m_bytesInQueue + p.bytes,
   m_nPackets |-> q.m_nPackets + 1,
   m_nBytes |-> q.m_nBytes + p.bytes,
   m_nTotalReceivedPackets |-> q.m_nTotalReceivedPackets + 1,
   m_nTotalDroppedPackets |-> q.m_nTotalDroppedPackets]

(* Wrong variant: what was never in leaves the count.                     *)
DropUncounts(q) == [q EXCEPT !.m_nTotalDroppedPackets = @ + 1, !.m_nPackets = @ - 1]

Drop(q) == [q EXCEPT !.m_nTotalDroppedPackets = @ + 1]

Peek(q) == Head(q.m_packets)

(* Wrong variant: the subclass forgets the bytes of what leaves.           *)
DequeueKeepsBytes(q) ==
  [q EXCEPT !.m_packets = Tail(@),
            !.m_nPackets = @ - 1,
            !.m_nBytes = @ - Peek(q).bytes]

(* Of a queue that is not empty; Peek(q) is the packet that leaves.        *)
Dequeue(q) ==
  [m_packets |-> Tail(q.m_packets),
   m_bytesInQueue |-> q.m_bytesInQueue - Peek(q).bytes,
   m_nPackets |-> q.m_nPackets - 1,
   m_nBytes |-> q.m_nBytes - Peek(q).bytes,
   m_nTotalReceivedPackets |-> q.m_nTotalReceivedPackets,
   m_nTotalDroppedPackets |-> q.m_nTotalDroppedPackets]
=============================================================================
