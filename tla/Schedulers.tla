---------------------------- MODULE Schedulers -----------------------------
(***************************************************************************)
(* The event lists of ns-3 (core/model/*-scheduler.cc) behind the one      *)
(* interface Scheduler, driven as an event executive drives them: events   *)
(* are inserted at or after the current time, the next one is taken out    *)
(* and becomes the current time, queued events are removed, the next one   *)
(* is looked at (Next), and the list in use is replaced by another one     *)
(* (SetScheduler).  `queue' is what the interface promises: a plain set.   *)
(* `store' is the structure of the scheduler in use; the five modules hold *)
(* its operations.                                                         *)
(***************************************************************************)
EXTENDS Integers, FiniteSets, Sequences

CONSTANTS
  Kinds,         \* the schedulers in use, of "list", "map", "heap", "calendar", "ns2"
  RemoveKinds,   \* those whose users call Simulator::Remove
  PeekKinds,     \* those whose users call PeekNext before inserting
  Delays,        \* how far ahead of the current time events are scheduled
  MaxSize, MaxTs, MaxUid,  \* bounds: queued events, times, events ever made
  MaxBuckets, WidthModulus \* see CalendarScheduler

ASSUME KindsAssumption ==
  /\ Kinds \subseteq {"list", "map", "heap", "calendar", "ns2"}
  /\ Delays \subseteq Nat
  /\ MaxSize \in Nat /\ MaxTs \in Nat /\ MaxUid \in Nat
  /\ MaxBuckets \in Nat /\ WidthModulus \in Nat \ {0, 1}

VARIABLES
  kind,   \* the scheduler in use
  store,  \* its data
  queue,  \* the events inserted and neither taken nor removed
  now,    \* time of the last event taken
  uid     \* uid of the next event

vars == <<kind, store, queue, now, uid>>

List == INSTANCE ListScheduler
Map == INSTANCE MapScheduler
Heap == INSTANCE HeapScheduler
Cal == INSTANCE CalendarScheduler
Ns2 == INSTANCE Ns2CalendarScheduler

(* The ns-2 calendar is modelled with the buckets it starts with.          *)
ASSUME Ns2Assumption == "ns2" \in Kinds => MaxSize <= Ns2!TopThreshold

-----------------------------------------------------------------------------
(* The interface: dispatch on the scheduler in use.                        *)

Empty(k) ==
  CASE k = "list" -> List!EmptyList [] k = "map" -> Map!EmptyMap
    [] k = "heap" -> Heap!EmptyHeap [] k = "calendar" -> Cal!EmptyCalendar
    [] k = "ns2" -> Ns2!EmptyNs2

InsertInto(k, s, ev) ==
  CASE k = "list" -> List!Insert(s, ev) [] k = "map" -> Map!Insert(s, ev)
    [] k = "heap" -> Heap!Insert(s, ev) [] k = "calendar" -> Cal!Insert(s, ev)
    [] k = "ns2" -> Ns2!Insert(s, ev)

PeekNext(k, s) ==
  CASE k = "list" -> List!PeekNext(s) [] k = "map" -> Map!PeekNext(s)
    [] k = "heap" -> Heap!PeekNext(s) [] k = "calendar" -> Cal!PeekNext(s)
    [] k = "ns2" -> Ns2!PeekNext(s)

AfterRemoveNext(k, s) ==
  CASE k = "list" -> List!RemoveNext(s) [] k = "map" -> Map!RemoveNext(s)
    [] k = "heap" -> Heap!RemoveNext(s) [] k = "calendar" -> Cal!RemoveNext(s)
    [] k = "ns2" -> Ns2!RemoveNext(s)

AfterRemove(k, s, ev) ==
  CASE k = "list" -> List!RemoveEvent(s, ev) [] k = "map" -> Map!RemoveEvent(s, ev)
    [] k = "heap" -> Heap!RemoveEvent(s, ev) [] k = "calendar" -> Cal!RemoveEvent(s, ev)
    [] k = "ns2" -> Ns2!RemoveEvent(s, ev)

(* PeekNext is declared const; the ns-2 calendar casts that away.          *)
AfterPeek(k, s) == IF k = "ns2" THEN Ns2!AfterPeek(s) ELSE s

Contents(k, s) ==
  CASE k = "list" -> List!Contents(s) [] k = "map" -> Map!Contents(s)
    [] k = "heap" -> Heap!Contents(s) [] k = "calendar" -> Cal!Contents(s)
    [] k = "ns2" -> Ns2!Contents(s)

(* Everything in s, in the order RemoveNext yields it, inserted into s2.   *)
MoveOne(k, k2, m) ==
  [from |-> AfterRemoveNext(k, m.from), to |-> InsertInto(k2, m.to, PeekNext(k, m.from))]

Moved(k, s, n, k2, s2) ==
  LET loop[i \in 0..n] ==
        IF i = 0 THEN [from |-> s, to |-> s2] ELSE MoveOne(k, k2, loop[i - 1])
  IN loop[n].to

-----------------------------------------------------------------------------
Init ==
  /\ kind \in Kinds
  /\ store = Empty(kind)
  /\ queue = {}
  /\ now = 0
  /\ uid = 0

(* Simulator::Schedule.                                                    *)
Insert ==
  /\ Cardinality(queue) < MaxSize /\ uid < MaxUid
  /\ \E d \in Delays :
       LET ev == [ts |-> now + d, uid |-> uid] IN
       /\ ev.ts <= MaxTs
       /\ store' = InsertInto(kind, store, ev)
       /\ queue' = queue \union {ev}
  /\ uid' = uid + 1
  /\ UNCHANGED <<kind, now>>

(* ProcessOneEvent: the next event is taken and its time is the new time.  *)
RemoveNext ==
  /\ queue # {}
  /\ LET ev == PeekNext(kind, store) IN
     /\ queue' = queue \ {ev}
     /\ now' = ev.ts
  /\ store' = AfterRemoveNext(kind, store)
  /\ UNCHANGED <<kind, uid>>

(* Simulator::Remove of a queued event.                                    *)
Remove ==
  /\ kind \in RemoveKinds
  /\ \E ev \in queue :
       /\ store' = AfterRemove(kind, store, ev)
       /\ queue' = queue \ {ev}
  /\ UNCHANGED <<kind, now, uid>>

(* Next (): a look at the next event's time, after which events may still  *)
(* be scheduled before it.                                                 *)
Peek ==
  /\ kind \in PeekKinds
  /\ queue # {}
  /\ store' = AfterPeek(kind, store)
  /\ UNCHANGED <<kind, queue, now, uid>>

SetScheduler ==
  /\ kind' \in Kinds \ {kind}
  /\ store' = Moved(kind, store, Cardinality(queue), kind', Empty(kind'))
  /\ UNCHANGED <<queue, now, uid>>

Next == Insert \/ RemoveNext \/ Remove \/ Peek \/ SetScheduler

Spec == Init /\ [][Next]_vars

-----------------------------------------------------------------------------
Events == [ts : 0..MaxTs, uid : 0..(MaxUid - 1)]

(* The structural invariant each scheduler's search relies on: sorted      *)
(* lists, the heap order, each event in the bucket of its time with the    *)
(* buckets sorted, a positive width and an exact m_qSize.                  *)
WellFormed ==
  CASE kind = "list" -> List!WellFormed(store) [] kind = "map" -> Map!WellFormed(store)
    [] kind = "heap" -> Heap!WellFormed(store) [] kind = "calendar" -> Cal!WellFormed(store)
    [] kind = "ns2" -> Ns2!WellFormed(store)

(* The abstract side of the state has its type, no two events share a uid  *)
(* (the assertions of MapScheduler::Insert and the uid searches of the     *)
(* Remove methods rest on it), and the structure is well formed.           *)
TypeOK ==
  /\ kind \in Kinds
  /\ queue \subseteq Events
  /\ \A e, f \in queue : e.uid = f.uid => e = f
  /\ now \in 0..MaxTs
  /\ uid \in 0..MaxUid
  /\ WellFormed

(* No scheduler loses, duplicates or invents an event: through insertions, *)
(* removals, calendar resizes and moves from one scheduler to another, the *)
(* structure holds exactly what was inserted and not yet taken.            *)
HoldsEveryEvent == Contents(kind, store) = queue

(* PeekNext and RemoveNext give "the next earliest event" (scheduler.h:81  *)
(* and :89): the least key queued, whatever the history of the structure.  *)
ServesNextEarliest ==
  queue # {} => PeekNext(kind, store) = List!Least(queue)

(* Seen through `queue', `now' and `uid' the list in use is a plain set    *)
(* whose least element leaves next, at its own time and never in the past: *)
(* what Simulator assumes of m_events (default-simulator-impl.cc:117).     *)
Promised == INSTANCE EventQueue WITH Times <- 0..MaxTs, Uids <- 0..(MaxUid - 1)
ImplementsEventQueue == Promised!QueueSpec
=============================================================================
