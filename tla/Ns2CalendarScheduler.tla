----------------------- MODULE Ns2CalendarScheduler ------------------------
(***************************************************************************)
(* ns3::Ns2CalendarScheduler, the calendar queue taken over from ns-2, up  *)
(* to the eight events its initial four buckets hold before it resizes     *)
(* (top_threshold_).  head () looks for the next event AND moves the       *)
(* calendar's clock to it, also when it is called by PeekNext.             *)
(***************************************************************************)
EXTENDS EventKeys

nbuckets == 4
width == 1
TopThreshold == nbuckets * 2

Hash(ts) == (ts \div width) % nbuckets

EmptyNs2 ==
  [buckets |-> [b \in 0..(nbuckets - 1) |-> <<>>], lastbucket |-> 0, clock |-> 0]

Insert(c, ev) == [c EXCEPT !.buckets[Hash(ev.ts)] = InsertSorted(@, ev)]

Visited(c, k) == (c.lastbucket + k) % nbuckets
NonEmpty(c) == {k \in 0..(nbuckets - 1) : c.buckets[Visited(c, k)] # <<>>}
FrontOf(c, k) == Head(c.buckets[Visited(c, k)])

(* diff0_, diff1_, diff2_: how far ahead of the clock the event of the     *)
(* k-th bucket visited may be to be taken on sight.  The difference is     *)
(* unsigned: an event behind the clock is very far ahead.                  *)
Reach(k) == CASE k = 0 -> (width * nbuckets) \div 2
              [] k = 1 -> (width * nbuckets) \div 2 + width
              [] OTHER -> width * nbuckets
OnSight(c) ==
  {k \in NonEmpty(c) :
     /\ k < nbuckets - 1
     /\ FrontOf(c, k).ts >= c.clock
     /\ FrontOf(c, k).ts - c.clock < Reach(k)}

PeekNext(c) ==
  IF OnSight(c) # {}
  THEN FrontOf(c, Min(OnSight(c)))
  ELSE Least({FrontOf(c, k) : k \in NonEmpty(c)})

(* What head () leaves behind.                                             *)
AfterPeek(c) ==
  [c EXCEPT !.lastbucket = Hash(PeekNext(c).ts), !.clock = PeekNext(c).ts]

RemoveNext(c) == [AfterPeek(c) EXCEPT !.buckets[Hash(PeekNext(c).ts)] = Tail(@)]

RemoveEvent(c, ev) == [c EXCEPT !.buckets[Hash(ev.ts)] = EraseUid(@, ev)]

Contents(c) == UNION {Range(c.buckets[b]) : b \in DOMAIN c.buckets}
WellFormed(c) ==
  \A b \in DOMAIN c.buckets :
    /\ KeysAscend(c.buckets[b])
    /\ \A e \in Range(c.buckets[b]) : Hash(e.ts) = b
=============================================================================
