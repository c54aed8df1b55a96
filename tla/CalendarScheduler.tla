------------------------- MODULE CalendarScheduler -------------------------
(***************************************************************************)
(* ns3::CalendarScheduler: Brown's calendar queue.  A calendar is a record *)
(* of the class's members; m_buckets is a function from bucket numbers to  *)
(* sorted lists.  A search starts at the bucket and year of the last       *)
(* removal, so it is right only as long as nothing earlier is inserted.    *)
(***************************************************************************)
EXTENDS EventKeys, FiniteSets

CONSTANTS
  MaxBuckets,    \* 32768: no resizing up from there
  WidthModulus   \* 2^32: CalculateNewWidth returns a uint32_t

Hash(ts, width, n) == (ts \div width) % n

Calendar(nBuckets, width, startPrio, qSize) ==
  [buckets |-> [b \in 0..(nBuckets - 1) |-> <<>>],
   nBuckets |-> nBuckets,
   width |-> width,
   lastPrio |-> startPrio,
   lastBucket |-> Hash(startPrio, width, nBuckets),
   bucketTop |-> (startPrio \div width + 1) * width,
   qSize |-> qSize]

EmptyCalendar == Calendar(2, 1, 0, 0)

DoInsert(c, ev) ==
  [c EXCEPT !.buckets[Hash(ev.ts, c.width, c.nBuckets)] = InsertSorted(@, ev)]

(* The scan visits every bucket once from lastBucket on; the k-th bucket   *)
(* visited ends its current year at bucketTop + k * width.                 *)
Visited(c, k) == (c.lastBucket + k) % c.nBuckets
NonEmpty(c) == {k \in 0..(c.nBuckets - 1) : c.buckets[Visited(c, k)] # <<>>}
FrontOf(c, k) == Head(c.buckets[Visited(c, k)])
DueThisYear(c) == {k \in NonEmpty(c) : FrontOf(c, k).ts < c.bucketTop + k * c.width}

(* The first bucket whose front falls into its current year, or else the   *)
(* least of all the fronts.                                                *)
PeekNext(c) ==
  IF DueThisYear(c) # {}
  THEN FrontOf(c, Min(DueThisYear(c)))
  ELSE Least({FrontOf(c, k) : k \in NonEmpty(c)})

(* Wrong variant: the year advanced before the bucket is tested.           *)
DoRemoveNextOvershoots(c) ==
  IF DueThisYear(c) # {}
  THEN LET k == Min(DueThisYear(c)) IN
       [c EXCEPT !.lastBucket = Visited(c, k),
                 !.lastPrio = FrontOf(c, k).ts,
                 !.bucketTop = @ + (k + 1) * c.width,
                 !.buckets[Visited(c, k)] = Tail(@)]
  ELSE LET ev == PeekNext(c)
           b == Hash(ev.ts, c.width, c.nBuckets) IN
       [c EXCEPT !.lastPrio = ev.ts,
                 !.lastBucket = b,
                 !.bucketTop = (ev.ts \div c.width + 1) * c.width,
                 !.buckets[b] = Tail(@)]

DoRemoveNext(c) ==
  IF DueThisYear(c) # {}
  THEN LET k == Min(DueThisYear(c)) IN
       [c EXCEPT !.lastBucket = Visited(c, k),
                 !.lastPrio = FrontOf(c, k).ts,
                 !.bucketTop = @ + k * c.width,
                 !.buckets[Visited(c, k)] = Tail(@)]
  ELSE LET ev == PeekNext(c)
           b == Hash(ev.ts, c.width, c.nBuckets) IN
       [c EXCEPT !.lastPrio = ev.ts,
                 !.lastBucket = b,
                 !.bucketTop = (ev.ts \div c.width + 1) * c.width,
                 !.buckets[b] = Tail(@)]

(* CalculateNewWidth takes the first samples out and puts them back; the   *)
(* position of the search is saved and restored around it.                 *)
SampleSize(c) ==
  LET nSamples == IF c.qSize <= 5 THEN c.qSize ELSE 5 + c.qSize \div 10
  IN IF nSamples > 25 THEN 25 ELSE nSamples

Samples(c, n) ==
  LET after[i \in 0..n] == IF i = 0 THEN c ELSE DoRemoveNext(after[i - 1])
  IN [i \in 1..n |-> PeekNext(after[i - 1]).ts]

TotalOf(gap, n) ==
  LET total[i \in 0..n] == IF i = 0 THEN 0 ELSE total[i - 1] + gap[i]
  IN total[n]

CalculateNewWidth(c) ==
  IF c.qSize < 2 THEN 1
  ELSE LET n == SampleSize(c) - 1
           samples == Samples(c, n + 1)
           gap == [i \in 1..n |-> samples[i + 1] - samples[i]]
           twiceAvg == (TotalOf(gap, n) \div n) * 2
           kept == [i \in 1..n |-> IF gap[i] <= twiceAvg THEN gap[i] ELSE 0]
           total == TotalOf(kept, n) * 3
       IN (IF total < 1 THEN 1 ELSE total) % WidthModulus

(* Every event of an old bucket, in order, into the new buckets.           *)
Refill(c, bucket) ==
  LET loop[j \in 0..Len(bucket)] ==
        IF j = 0 THEN c ELSE DoInsert(loop[j - 1], bucket[j])
  IN loop[Len(bucket)]

NewBuckets(c, newSize) == Calendar(newSize, CalculateNewWidth(c), c.lastPrio, c.qSize)

(* Wrong variant: the last bucket left behind.                             *)
ResizeShort(c, newSize) ==
  LET loop[i \in 0..(c.nBuckets - 1)] ==
        IF i = 0 THEN NewBuckets(c, newSize) ELSE Refill(loop[i - 1], c.buckets[i - 1])
  IN loop[c.nBuckets - 1]

Resize(c, newSize) ==
  LET loop[i \in 0..c.nBuckets] ==
        IF i = 0 THEN NewBuckets(c, newSize) ELSE Refill(loop[i - 1], c.buckets[i - 1])
  IN loop[c.nBuckets]

ResizeUp(c) ==
  IF c.qSize > c.nBuckets * 2 /\ c.nBuckets < MaxBuckets
  THEN Resize(c, c.nBuckets * 2) ELSE c

ResizeDown(c) ==
  IF c.qSize < c.nBuckets \div 2 THEN Resize(c, c.nBuckets \div 2) ELSE c

Insert(c, ev) == ResizeUp([DoInsert(c, ev) EXCEPT !.qSize = @ + 1])
RemoveNext(c) == ResizeDown([DoRemoveNext(c) EXCEPT !.qSize = @ - 1])
(* Wrong variant: the size not counted down.                               *)
RemoveEventUncounted(c, ev) ==
  ResizeDown([c EXCEPT !.buckets[Hash(ev.ts, c.width, c.nBuckets)] = EraseUid(@, ev)])

RemoveEvent(c, ev) ==
  ResizeDown([c EXCEPT !.buckets[Hash(ev.ts, c.width, c.nBuckets)] = EraseUid(@, ev),
                       !.qSize = @ - 1])

Contents(c) == UNION {Range(c.buckets[b]) : b \in DOMAIN c.buckets}
WellFormed(c) ==
  /\ c.width > 0
  /\ \A b \in DOMAIN c.buckets :
       /\ KeysAscend(c.buckets[b])
       /\ \A e \in Range(c.buckets[b]) : Hash(e.ts, c.width, c.nBuckets) = b
  /\ c.qSize = Cardinality(Contents(c))
=============================================================================
