-------------------------- MODULE SimulatorProofs --------------------------
(***************************************************************************)
(* Theorems about Simulator, for every set of contexts and delays and for  *)
(* every bound.                                                            *)
(***************************************************************************)
EXTENDS Simulator, FiniteSetTheorems, TLAPS

(* The shape of what the simulator stores: the key of an ordinary event is *)
(* the uid it was given, and no uid was given twice.                       *)
IsOrdinary(id) == id.uid = id.impl /\ id.impl \in FirstUid..(m_uid - 1)
IsDestroy(id) == id.uid = DestroyUid /\ id.impl \in FirstUid..(m_uid - 1)

Shapes ==
  /\ m_uid >= FirstUid
  /\ m_currentUid < m_uid
  /\ \A e \in m_events : IsOrdinary(e)
  /\ \A id \in ids : id = NullId \/ IsOrdinary(id) \/ IsDestroy(id)
  /\ \A i \in cancelled : i < m_uid

SameImplSameEvent ==
  \A e \in m_events, id \in m_events \union ids : id.impl = e.impl => id = e

(* An id that IsExpired takes for live names an event of the list.         *)
LiveIsQueued ==
  pc # "destroyed" =>
    \A id \in ids : (id.uid # DestroyUid /\ ~IsExpired(id)) => id \in m_events

IInv ==
  /\ TypeOK
  /\ IsFiniteSet(m_events)
  /\ UnscheduledIsQueueSize
  /\ QueueIsAhead
  /\ Shapes
  /\ SameImplSameEvent
  /\ LiveIsQueued

-----------------------------------------------------------------------------

LEMMA NullIdType == NullId \in EventIds
BY SMT DEF NullId, EventIds

LEMMA InitIInv == Init => IInv
<1> SUFFICES ASSUME Init PROVE IInv
  OBVIOUS
<1>1. TypeOK
  <2>1. NullId \in EventIds
    BY NullIdType
  <2>2. <<>> \in Seq(EventIds) /\ FirstUid \in Nat /\ 0 \in Nat
    BY DEF FirstUid
  <2>3. "script" \in Pcs
    BY DEF Pcs, ClientPcs
  <2> QED BY <2>1, <2>2, <2>3 DEF Init, TypeOK
<1>2. IsFiniteSet(m_events) /\ UnscheduledIsQueueSize
  BY FS_EmptySet DEF Init, UnscheduledIsQueueSize
<1>3. QueueIsAhead /\ SameImplSameEvent
  BY DEF Init, QueueIsAhead, SameImplSameEvent
<1>4. Shapes
  BY DEF Init, Shapes, FirstUid
<1>5. LiveIsQueued
  BY DEF Init, LiveIsQueued, IsExpired, NullId, DestroyUid
<1> QED BY <1>1, <1>2, <1>3, <1>4, <1>5 DEF IInv

(* The three Schedule calls differ in the context and in whether the       *)
(* caller gets the id.                                                     *)
LEMMA InsertIInv ==
  ASSUME IInv, NEW ev \in EventIds, ev.impl = m_uid, ev.uid = m_uid,
         ev.ts >= m_currentTs, InsertEvent(ev),
         ids' = ids \/ ids' = ids \union {ev},
         stoppers' \subseteq Nat
  PROVE  IInv'
<1> USE DEF FirstUid, DestroyUid
<1>0. /\ m_events' = m_events \union {ev}
      /\ m_uid' = m_uid + 1 /\ m_uid \in Nat /\ m_uid >= 4
      /\ m_unscheduledEvents' = m_unscheduledEvents + 1
      /\ UNCHANGED <<m_destroyEvents, m_currentUid, m_currentTs, m_currentContext,
                     m_stop, cancelled, pc, ran, ranDestroy, withdrawn>>
      /\ ids' \subseteq ids \union {ev}
      /\ pc # "destroyed"
  BY DEF InsertEvent, current, IInv, TypeOK, Shapes, ClientPcs
<1>1. TypeOK'
  BY <1>0 DEF IInv, TypeOK
<1>2. ev \notin m_events
  BY <1>0 DEF IInv, Shapes, IsOrdinary
<1>3. IsFiniteSet(m_events)' /\ UnscheduledIsQueueSize'
  BY <1>0, <1>2, FS_AddElement DEF IInv, UnscheduledIsQueueSize
<1>4. QueueIsAhead'
  BY <1>0 DEF IInv, QueueIsAhead, Before, Now, EventIds, TypeOK, Shapes
<1>5. Shapes'
  BY <1>0 DEF IInv, Shapes, IsOrdinary, IsDestroy, NullId, TypeOK, EventIds
<1>6. SameImplSameEvent'
  <2>1. \A id \in m_events \union ids : id.impl # m_uid
    BY <1>0 DEF IInv, Shapes, IsOrdinary, IsDestroy, NullId
  <2> QED BY <1>0, <2>1 DEF IInv, SameImplSameEvent
<1>7. LiveIsQueued'
  <2>1. \A id \in ids : IsExpired(id)' = IsExpired(id)
    BY <1>0 DEF IsExpired
  <2> QED BY <1>0, <2>1 DEF IInv, LiveIsQueued
<1> QED BY <1>1, <1>3, <1>4, <1>5, <1>6, <1>7 DEF IInv

(* Cancel and Remove leave the list and the count in step because an id    *)
(* that is not expired names a listed event.                               *)
LEMMA CancelIInv ==
  ASSUME IInv, NEW id \in ids, Cancel(id)
  PROVE  IInv'
<1> USE DEF FirstUid, DestroyUid
<1>0. /\ cancelled' = cancelled \/ (cancelled' = cancelled \union {id.impl})
      /\ UNCHANGED <<m_events, m_destroyEvents, m_uid, m_unscheduledEvents, m_currentUid,
                     m_currentTs, m_currentContext, m_stop, pc, stoppers, ids, ran,
                     ranDestroy>>
      /\ withdrawn' \subseteq withdrawn \union {id.impl}
      /\ id \in EventIds
  BY DEF Cancel, Retract, events, current, IInv, TypeOK
<1>1. TypeOK'
  BY <1>0 DEF IInv, TypeOK, EventIds
<1>2. IsFiniteSet(m_events)' /\ UnscheduledIsQueueSize'
  BY <1>0 DEF IInv, UnscheduledIsQueueSize
<1>3. QueueIsAhead' /\ SameImplSameEvent'
  BY <1>0 DEF IInv, QueueIsAhead, SameImplSameEvent, Now
<1>4. Shapes'
  <2>1. id.impl < m_uid
    BY <1>0 DEF IInv, Shapes, IsOrdinary, IsDestroy, NullId, TypeOK
  <2> QED BY <1>0, <2>1 DEF IInv, Shapes, IsOrdinary, IsDestroy
<1>5. LiveIsQueued'
  <2>1. \A x \in ids : (x.uid # DestroyUid /\ IsExpired(x)) => IsExpired(x)'
    BY <1>0 DEF IsExpired
  <2> QED BY <1>0, <2>1 DEF IInv, LiveIsQueued
<1> QED BY <1>1, <1>2, <1>3, <1>4, <1>5 DEF IInv

LEMMA RemoveAtType ==
  ASSUME NEW S, NEW s \in Seq(S), NEW i \in DOMAIN s
  PROVE  RemoveAt(s, i) \in Seq(S)
BY DEF RemoveAt

LEMMA RemoveDestroyIInv ==
  ASSUME IInv, NEW id \in ids, RemoveDestroy(id)
  PROVE  IInv'
<1> USE DEF FirstUid, DestroyUid
<1>0. /\ UNCHANGED <<m_events, m_uid, m_unscheduledEvents, m_currentUid, m_currentTs,
                     m_currentContext, m_stop, cancelled, pc, stoppers, ids, ran,
                     ranDestroy>>
      /\ withdrawn' \subseteq withdrawn \union {id.impl}
      /\ id \in EventIds
  BY DEF RemoveDestroy, Retract, current, IInv, TypeOK
<1>1. m_destroyEvents' \in Seq(EventIds)
  <2>1. CASE id \in Range(m_destroyEvents)
    <3> DEFINE i == CHOOSE j \in DOMAIN m_destroyEvents : m_destroyEvents[j] = id
    <3>1. i \in DOMAIN m_destroyEvents
      BY <2>1 DEF Range
    <3>2. m_destroyEvents' = RemoveAt(m_destroyEvents, i)
      BY <2>1 DEF RemoveDestroy
    <3> QED BY <3>1, <3>2, RemoveAtType DEF IInv, TypeOK
  <2>2. CASE id \notin Range(m_destroyEvents)
    BY <2>2 DEF RemoveDestroy, IInv, TypeOK
  <2> QED BY <2>1, <2>2
<1>2. TypeOK'
  BY <1>0, <1>1 DEF IInv, TypeOK, EventIds
<1>3. IsFiniteSet(m_events)' /\ UnscheduledIsQueueSize' /\ Shapes'
  BY <1>0 DEF IInv, UnscheduledIsQueueSize, Shapes, IsOrdinary, IsDestroy
<1>4. QueueIsAhead' /\ SameImplSameEvent'
  BY <1>0 DEF IInv, QueueIsAhead, SameImplSameEvent, Now
<1>5. LiveIsQueued'
  <2>1. \A x \in ids : x.uid # DestroyUid => IsExpired(x)' = IsExpired(x)
    BY <1>0 DEF IsExpired
  <2> QED BY <1>0, <2>1 DEF IInv, LiveIsQueued
<1> QED BY <1>2, <1>3, <1>4, <1>5 DEF IInv

LEMMA RemoveEventIInv ==
  ASSUME IInv, NEW id \in ids, RemoveEvent(id)
  PROVE  IInv'
<1> USE DEF FirstUid, DestroyUid
<1>0. /\ UNCHANGED <<m_destroyEvents, m_uid, m_currentUid, m_currentTs,
                     m_currentContext, m_stop, pc, stoppers, ids, ran, ranDestroy>>
      /\ withdrawn' \subseteq withdrawn \union {id.impl}
      /\ id \in EventIds
      /\ id.uid # DestroyUid
      /\ pc # "destroyed"
  BY DEF RemoveEvent, Retract, current, IInv, TypeOK, ClientPcs
<1>a. CASE IsExpired(id)
  <2>0. UNCHANGED <<m_events, m_unscheduledEvents, cancelled>>
    BY <1>a DEF RemoveEvent
  <2>1. TypeOK'
    BY <1>0, <2>0 DEF IInv, TypeOK, EventIds
  <2>2. IsFiniteSet(m_events)' /\ UnscheduledIsQueueSize' /\ Shapes'
    BY <1>0, <2>0 DEF IInv, UnscheduledIsQueueSize, Shapes, IsOrdinary, IsDestroy
  <2>3. QueueIsAhead' /\ SameImplSameEvent'
    BY <1>0, <2>0 DEF IInv, QueueIsAhead, SameImplSameEvent, Now
  <2>4. LiveIsQueued'
    <3>1. \A x \in ids : IsExpired(x)' = IsExpired(x)
      BY <1>0, <2>0 DEF IsExpired
    <3> QED BY <1>0, <2>0, <3>1 DEF IInv, LiveIsQueued
  <2> QED BY <2>1, <2>2, <2>3, <2>4 DEF IInv
<1>b. CASE ~IsExpired(id)
  <2>0. /\ m_events' = m_events \ {id}
        /\ cancelled' = cancelled \union {id.impl}
        /\ m_unscheduledEvents' = m_unscheduledEvents - 1
    BY <1>b DEF RemoveEvent
  <2>1. id \in m_events
    BY <1>b, <1>0 DEF IInv, LiveIsQueued
  <2>2. /\ IsFiniteSet(m_events \ {id})
        /\ Cardinality(m_events \ {id}) = m_unscheduledEvents - 1
        /\ Cardinality(m_events \ {id}) \in Nat
    BY <1>0, <2>1, FS_RemoveElement, FS_CardinalityType DEF IInv, UnscheduledIsQueueSize
  <2>3. TypeOK'
    BY <1>0, <2>0, <2>2 DEF IInv, TypeOK, EventIds
  <2>4. IsFiniteSet(m_events)' /\ UnscheduledIsQueueSize'
    BY <1>0, <2>0, <2>2 DEF UnscheduledIsQueueSize
  <2>5. QueueIsAhead' /\ SameImplSameEvent'
    BY <1>0, <2>0 DEF IInv, QueueIsAhead, SameImplSameEvent, Now
  <2>6. Shapes'
    BY <1>0, <2>0, <2>1 DEF IInv, Shapes, IsOrdinary, IsDestroy, TypeOK
  <2>7. LiveIsQueued'
    <3>1. \A x \in ids : IsExpired(x) => IsExpired(x)'
      BY <1>0, <2>0 DEF IsExpired
    <3>2. IsExpired(id)'
      BY <1>0, <2>0 DEF IsExpired
    <3> QED BY <1>0, <2>0, <3>1, <3>2 DEF IInv, LiveIsQueued
  <2> QED BY <2>3, <2>4, <2>5, <2>6, <2>7 DEF IInv
<1> QED BY <1>a, <1>b

(* Taking the least key moves the current event past every id it expires.  *)
LEMMA ProcessIInv ==
  ASSUME IInv, NEW handler \in Pcs, NEW caller \in Pcs, pc # "destroyed",
         ProcessOneEvent(handler, caller)
  PROVE  IInv'
<1> USE DEF FirstUid, DestroyUid
<1>0. PICK next \in m_events :
        /\ IsNext(next)
        /\ m_events' = m_events \ {next}
        /\ m_unscheduledEvents' = m_unscheduledEvents - 1
        /\ m_currentTs' = next.ts
        /\ m_currentContext' = next.context
        /\ m_currentUid' = next.uid
        /\ ran' = ran \/ ran' = ran \union {next.impl}
        /\ m_stop' \in BOOLEAN
        /\ pc' \in Pcs
        /\ UNCHANGED <<m_destroyEvents, m_uid, cancelled, stoppers, ids, ranDestroy,
                       withdrawn>>
  BY DEF ProcessOneEvent, IInv, TypeOK
<1>1. next \in EventIds
  BY DEF IInv, TypeOK
<1>2. /\ IsFiniteSet(m_events \ {next})
      /\ Cardinality(m_events \ {next}) = m_unscheduledEvents - 1
      /\ Cardinality(m_events \ {next}) \in Nat
  BY FS_RemoveElement, FS_CardinalityType DEF IInv, UnscheduledIsQueueSize
<1>3. TypeOK'
  BY <1>0, <1>1, <1>2 DEF IInv, TypeOK, EventIds
<1>4. IsFiniteSet(m_events)' /\ UnscheduledIsQueueSize'
  BY <1>0, <1>2 DEF UnscheduledIsQueueSize
<1>5. QueueIsAhead' /\ SameImplSameEvent'
  BY <1>0 DEF IInv, QueueIsAhead, SameImplSameEvent, Now, IsNext, Before
<1>6. Shapes'
  BY <1>0, <1>1 DEF IInv, Shapes, IsOrdinary, IsDestroy, TypeOK, EventIds
<1>7. LiveIsQueued'
  <2>1. ASSUME NEW x \in ids, x.uid # DestroyUid, ~IsExpired(x)'
        PROVE  ~IsExpired(x) /\ x # next
    BY <1>0, <1>1, <2>1 DEF IsExpired, IInv, QueueIsAhead, Before, Now, TypeOK, EventIds
  <2> QED BY <1>0, <2>1 DEF IInv, LiveIsQueued
<1> QED BY <1>3, <1>4, <1>5, <1>6, <1>7 DEF IInv

(* Steps that touch neither the event list nor the current event.          *)
LEMMA QuietIInv ==
  ASSUME IInv, pc # "destroyed", pc' \in Pcs, m_stop' \in BOOLEAN,
         m_destroyEvents' \in Seq(EventIds), ranDestroy' \subseteq Nat,
         UNCHANGED <<m_events, m_uid, m_unscheduledEvents, m_currentUid, m_currentTs,
                     m_currentContext, cancelled, stoppers, ids, ran, withdrawn>>
  PROVE  IInv'
<1>1. TypeOK'
  BY DEF IInv, TypeOK
<1>2. IsFiniteSet(m_events)' /\ UnscheduledIsQueueSize' /\ Shapes'
  BY DEF IInv, UnscheduledIsQueueSize, Shapes, IsOrdinary, IsDestroy
<1>3. QueueIsAhead' /\ SameImplSameEvent'
  BY DEF IInv, QueueIsAhead, SameImplSameEvent, Now
<1>4. LiveIsQueued'
  <2>1. \A x \in ids : x.uid # DestroyUid => IsExpired(x)' = IsExpired(x)
    BY DEF IsExpired
  <2> QED BY <2>1 DEF IInv, LiveIsQueued
<1> QED BY <1>1, <1>2, <1>3, <1>4 DEF IInv

LEMMA ScheduleDestroyIInv ==
  ASSUME IInv, ScheduleDestroy
  PROVE  IInv'
<1> USE DEF FirstUid, DestroyUid
<1> DEFINE id == [impl |-> m_uid, ts |-> m_currentTs,
                  uid |-> DestroyUid, context |-> NoContext]
<1>0. /\ m_destroyEvents' = Append(m_destroyEvents, id)
      /\ m_uid' = m_uid + 1 /\ m_uid \in Nat /\ m_uid >= 4
      /\ ids' = ids \union {id}
      /\ UNCHANGED <<m_events, m_unscheduledEvents, m_currentUid, m_currentTs,
                     m_currentContext, m_stop, cancelled, pc, stoppers, ran, ranDestroy,
                     withdrawn>>
  BY DEF ScheduleDestroy, current, IInv, TypeOK, Shapes
<1>1. id \in EventIds /\ id.impl = m_uid /\ id.uid = DestroyUid
  BY <1>0 DEF IInv, TypeOK, EventIds
<1> HIDE DEF id
<1>2. TypeOK'
  BY <1>0, <1>1 DEF IInv, TypeOK
<1>3. IsFiniteSet(m_events)' /\ UnscheduledIsQueueSize'
  BY <1>0 DEF IInv, UnscheduledIsQueueSize
<1>4. QueueIsAhead'
  BY <1>0 DEF IInv, QueueIsAhead, Now
<1>5. Shapes'
  BY <1>0, <1>1 DEF IInv, Shapes, IsOrdinary, IsDestroy, NullId, TypeOK, EventIds
<1>6. SameImplSameEvent'
  <2>1. \A e \in m_events : e.impl # m_uid
    BY <1>0 DEF IInv, Shapes, IsOrdinary
  <2> QED BY <1>0, <1>1, <2>1 DEF IInv, SameImplSameEvent
<1>7. LiveIsQueued'
  <2>1. \A x \in ids : x.uid # DestroyUid => IsExpired(x)' = IsExpired(x)
    BY <1>0 DEF IsExpired
  <2> QED BY <1>0, <1>1, <2>1 DEF IInv, LiveIsQueued
<1> QED BY <1>2, <1>3, <1>4, <1>5, <1>6, <1>7 DEF IInv

LEMMA DisposeIInv ==
  ASSUME IInv, DoDispose
  PROVE  IInv'
<1>0. /\ m_events' = {} /\ pc' = "destroyed"
      /\ UNCHANGED <<m_destroyEvents, m_uid, m_unscheduledEvents, m_currentUid,
                     m_currentTs, m_currentContext, m_stop, cancelled, stoppers, ids,
                     ran, ranDestroy, withdrawn>>
  BY DEF DoDispose, current, history
<1>1. TypeOK'
  BY <1>0 DEF IInv, TypeOK, Pcs
<1>2. IsFiniteSet(m_events)' /\ UnscheduledIsQueueSize'
  BY <1>0, FS_EmptySet DEF UnscheduledIsQueueSize
<1>3. QueueIsAhead' /\ SameImplSameEvent' /\ LiveIsQueued'
  BY <1>0 DEF QueueIsAhead, SameImplSameEvent, LiveIsQueued
<1>4. Shapes'
  BY <1>0 DEF IInv, Shapes, IsOrdinary, IsDestroy
<1> QED BY <1>1, <1>2, <1>3, <1>4 DEF IInv

(* What each Schedule call hands to InsertEvent.                           *)
LEMMA NewEventType ==
  ASSUME IInv, NEW d \in Nat, NEW c \in Contexts \union {NoContext}
  PROVE  LET ev == NewEvent(d, c)
         IN ev \in EventIds /\ ev.impl = m_uid /\ ev.uid = m_uid /\ ev.ts >= m_currentTs
BY DEF NewEvent, EventIds, IInv, TypeOK

LEMMA NextIInv == IInv /\ [Next]_vars => IInv'
<1> SUFFICES ASSUME IInv, [Next]_vars PROVE IInv'
  OBVIOUS
<1> USE SimulatorAssumption
<1>0. /\ m_currentContext \in Contexts \union {NoContext} /\ m_uid \in Nat
      /\ stoppers \subseteq Nat /\ m_destroyEvents \in Seq(EventIds)
      /\ ranDestroy \subseteq Nat
  BY DEF IInv, TypeOK
<1>1. ASSUME NEW d \in Delays, Schedule(d) PROVE IInv'
  <2>1. /\ InsertEvent(NewEvent(d, m_currentContext))
        /\ ids' = ids \union {NewEvent(d, m_currentContext)}
        /\ stoppers' = stoppers
    BY <1>1 DEF Schedule
  <2> QED BY <1>0, <2>1, NewEventType, InsertIInv
<1>2. ASSUME NEW d \in Delays, StopAt(d) PROVE IInv'
  <2>1. /\ InsertEvent(NewEvent(d, m_currentContext))
        /\ ids' = ids
        /\ stoppers' \subseteq Nat
    BY <1>0, <1>2 DEF StopAt
  <2> QED BY <1>0, <2>1, NewEventType, InsertIInv
<1>3. ASSUME NEW c \in Contexts, NEW d \in Delays, ScheduleWithContext(c, d) PROVE IInv'
  <2>1. /\ InsertEvent(NewEvent(d, c))
        /\ ids' = ids
        /\ stoppers' = stoppers
    BY <1>3 DEF ScheduleWithContext
  <2> QED BY <1>0, <2>1, NewEventType, InsertIInv
<1>4. CASE ScheduleNow
  <2>1. /\ InsertEvent(NewEvent(0, m_currentContext))
        /\ ids' = ids \union {NewEvent(0, m_currentContext)}
        /\ stoppers' = stoppers
    BY <1>4 DEF ScheduleNow
  <2> QED BY <1>0, <2>1, NewEventType, InsertIInv
<1>5. CASE ScheduleDestroy
  BY <1>5, ScheduleDestroyIInv
<1>6. ASSUME NEW id \in ids, Cancel(id) PROVE IInv'
  BY <1>6, CancelIInv
<1>7. ASSUME NEW id \in ids, RemoveDestroy(id) PROVE IInv'
  BY <1>7, RemoveDestroyIInv
<1>8. ASSUME NEW id \in ids, RemoveEvent(id) PROVE IInv'
  BY <1>8, RemoveEventIInv
<1>9. CASE Stop
  BY <1>9, <1>0, QuietIInv
  DEF Stop, events, current, history, ClientPcs, IInv, TypeOK
<1>10. CASE Run
  BY <1>10, <1>0, QuietIInv DEF Run, events, current, history, Pcs
<1>11. CASE RunStep
  BY <1>11, ProcessIInv DEF RunStep, Pcs, ClientPcs
<1>12. CASE RunReturns
  BY <1>12, <1>0, QuietIInv
  DEF RunReturns, events, current, history, Pcs, ClientPcs, IInv, TypeOK
<1>13. CASE RunOneEvent
  BY <1>13, ProcessIInv DEF RunOneEvent, Pcs, ClientPcs
<1>14. CASE HandlerReturns
  BY <1>14, <1>0, QuietIInv
  DEF HandlerReturns, events, current, history, Pcs, ClientPcs, IInv, TypeOK
<1>15. CASE Destroy
  BY <1>15, <1>0, QuietIInv
  DEF Destroy, events, current, history, Pcs, IInv, TypeOK
<1>16. CASE DestroyStep
  <2>1. Head(m_destroyEvents) \in EventIds /\ Tail(m_destroyEvents) \in Seq(EventIds)
    BY <1>0, <1>16 DEF DestroyStep
  <2>2. ranDestroy' \subseteq Nat
    BY <1>0, <1>16, <2>1 DEF DestroyStep, EventIds
  <2>3. pc' \in Pcs /\ m_stop' \in BOOLEAN
    BY <1>16 DEF DestroyStep, Pcs, ClientPcs, IInv, TypeOK
  <2> QED BY <1>16, <2>1, <2>2, <2>3, QuietIInv DEF DestroyStep, current
<1>17. CASE DoDispose
  BY <1>17, DisposeIInv
<1>18. CASE UNCHANGED vars
  BY <1>18 DEF vars, IInv, TypeOK, UnscheduledIsQueueSize, QueueIsAhead, Shapes, Now,
               IsOrdinary, IsDestroy, SameImplSameEvent, LiveIsQueued, IsExpired
<1> QED
  BY <1>1, <1>2, <1>3, <1>4, <1>5, <1>6, <1>7, <1>8, <1>9, <1>10, <1>11, <1>12, <1>13,
     <1>14, <1>15, <1>16, <1>17, <1>18 DEF Next, ClientCall

-----------------------------------------------------------------------------

(* The simulator's state keeps its types for every program: in particular  *)
(* m_unscheduledEvents never wraps below zero.                             *)
THEOREM TypeCorrect == Spec => []TypeOK
<1>1. IInv => TypeOK
  BY DEF IInv
<1> QED BY InitIInv, NextIInv, <1>1, PTL DEF Spec

(* The assertion of ProcessOneEvent never fails: nothing in the event list *)
(* is behind the event being executed.                                     *)
THEOREM NeverFromThePast == Spec => []QueueIsAhead
<1>1. IInv => QueueIsAhead
  BY DEF IInv
<1> QED BY InitIInv, NextIInv, <1>1, PTL DEF Spec

(* The assertion at the end of Run never fails: the count is the size of   *)
(* the event list.                                                         *)
THEOREM CountIsExact == Spec => []UnscheduledIsQueueSize
<1>1. IInv => UnscheduledIsQueueSize
  BY DEF IInv
<1> QED BY InitIInv, NextIInv, <1>1, PTL DEF Spec

(* Events are taken in strictly increasing (time, uid).                    *)
THEOREM InOrder == Spec => ExecutionOrder
<1>1. IInv /\ [Next]_vars => [current' # current => Before(Now, Now')]_vars
  <2> SUFFICES ASSUME IInv, Next, current' # current
               PROVE  Before(Now, Now')
    BY DEF vars, current
  <2>1. ASSUME NEW h, NEW c, ProcessOneEvent(h, c) PROVE Before(Now, Now')
    BY <2>1 DEF ProcessOneEvent, IInv, QueueIsAhead, Now, Before
  <2>2. UNCHANGED current \/ RunStep \/ RunOneEvent
    BY DEF Next, ClientCall, Schedule, StopAt, ScheduleWithContext, ScheduleNow,
           InsertEvent, ScheduleDestroy, Cancel, RemoveDestroy, RemoveEvent, Stop, Run,
           RunReturns, HandlerReturns, Destroy, DestroyStep, DoDispose
  <2> QED BY <2>1, <2>2 DEF RunStep, RunOneEvent
<1> QED BY InitIInv, NextIInv, <1>1, PTL DEF Spec, ExecutionOrder

-----------------------------------------------------------------------------
(* The second invariant: where every event ever scheduled is accounted for.*)

DestroyIds == Range(m_destroyEvents)
Executed == ran \union ranDestroy
Sorted(s) == \A i, j \in DOMAIN s : i < j => s[i].impl < s[j].impl

Ledger ==
  /\ \A a, b \in ids : a.impl = b.impl => a = b
  /\ DestroyIds \subseteq ids /\ \A d \in DestroyIds : d.uid = DestroyUid
  /\ Sorted(m_destroyEvents)
  /\ \A i \in Executed \union withdrawn : i < m_uid
  /\ \A e \in m_events \union DestroyIds :
       e.impl \notin Executed /\ (e.impl \in withdrawn <=> e.impl \in cancelled)
  /\ withdrawn \cap Executed = {}
  /\ \A i \in FirstUid..(m_uid - 1) :
       \/ i \in Executed \union withdrawn
       \/ \E e \in m_events \union DestroyIds : e.impl = i
  /\ \A d \in DestroyIds, i \in ranDestroy : i < d.impl
  /\ \A id \in ids : IF id.uid = DestroyUid THEN id.impl \notin ran
                                           ELSE id.impl \notin ranDestroy

LInv == IInv /\ (pc # "destroyed" => Ledger) /\ DestroyIsFifo

(* Sequences without repetition: what the three changes of m_destroyEvents *)
(* do to its members and its order.                                        *)
LEMMA AppendSorted ==
  ASSUME NEW s \in Seq(EventIds), NEW x \in EventIds, Sorted(s),
         \A e \in Range(s) : e.impl < x.impl
  PROVE  /\ Sorted(Append(s, x))
         /\ Range(Append(s, x)) = Range(s) \union {x}
<1>1. /\ DOMAIN Append(s, x) = 1..(Len(s) + 1) /\ Len(s) \in Nat
      /\ DOMAIN s = 1..Len(s)
      /\ \A i \in 1..Len(s) : Append(s, x)[i] = s[i] /\ s[i] \in Range(s)
      /\ Append(s, x)[Len(s) + 1] = x
  BY DEF Range
<1>2. Sorted(Append(s, x))
  BY <1>1 DEF Sorted
<1>3. \A e : e \in Range(Append(s, x)) <=> e \in Range(s) \union {x}
  <2>1. ASSUME NEW e \in Range(Append(s, x)) PROVE e \in Range(s) \union {x}
    <3>1. PICK i \in 1..(Len(s) + 1) : e = Append(s, x)[i]
      BY <1>1 DEF Range
    <3>2. i \in 1..Len(s) \/ i = Len(s) + 1
      BY <1>1
    <3> QED BY <1>1, <3>1, <3>2
  <2>2. ASSUME NEW e \in Range(s) PROVE e \in Range(Append(s, x))
    <3>1. PICK i \in 1..Len(s) : e = s[i]
      BY <1>1 DEF Range
    <3>2. i \in DOMAIN Append(s, x) /\ Append(s, x)[i] = e
      BY <1>1, <3>1
    <3> QED BY <3>2 DEF Range
  <2>3. x \in Range(Append(s, x))
    <3>1. Len(s) + 1 \in DOMAIN Append(s, x)
      BY <1>1
    <3> QED BY <1>1, <3>1 DEF Range
  <2> QED BY <2>1, <2>2, <2>3
<1> QED BY <1>2, <1>3

LEMMA TailSorted ==
  ASSUME NEW s \in Seq(EventIds), s # <<>>, Sorted(s)
  PROVE  /\ Sorted(Tail(s))
         /\ Range(Tail(s)) = Range(s) \ {Head(s)}
         /\ Head(s) \in Range(s)
         /\ \A e \in Range(Tail(s)) : Head(s).impl < e.impl
<1>1. /\ Len(s) \in Nat /\ Len(s) >= 1 /\ DOMAIN s = 1..Len(s)
      /\ DOMAIN Tail(s) = 1..(Len(s) - 1)
      /\ \A i \in 1..(Len(s) - 1) : Tail(s)[i] = s[i + 1]
      /\ Head(s) = s[1]
      /\ \A i \in 1..Len(s) : s[i].impl \in Nat
  <2>1. /\ Len(s) \in Nat /\ Len(s) >= 1 /\ DOMAIN s = 1..Len(s)
        /\ \A i \in 1..Len(s) : s[i] \in EventIds
        /\ Head(s) = s[1]
    OBVIOUS
  <2>2. /\ DOMAIN Tail(s) = 1..(Len(s) - 1)
        /\ \A i \in 1..(Len(s) - 1) : Tail(s)[i] = s[i + 1]
    OBVIOUS
  <2>3. \A e \in EventIds : e.impl \in Nat
    BY DEF EventIds
  <2> QED BY <2>1, <2>2, <2>3
<1>2. Sorted(Tail(s))
  <2>1. ASSUME NEW i \in 1..(Len(s) - 1), NEW j \in 1..(Len(s) - 1), i < j
        PROVE  s[i + 1].impl < s[j + 1].impl
    <3>1. i + 1 \in 1..Len(s) /\ j + 1 \in 1..Len(s) /\ i + 1 < j + 1
      BY <1>1, <2>1
    <3> QED BY <1>1, <3>1 DEF Sorted
  <2> QED BY <1>1, <2>1 DEF Sorted
<1>3. \A i \in 2..Len(s) : s[1].impl < s[i].impl
  BY <1>1 DEF Sorted
<1>4. \A e : e \in Range(Tail(s)) <=> \E i \in 2..Len(s) : e = s[i]
  <2>1. ASSUME NEW i \in 2..Len(s) PROVE s[i] \in Range(Tail(s))
    <3>1. i - 1 \in 1..(Len(s) - 1) /\ Tail(s)[i - 1] = s[i]
      BY <1>1
    <3> QED BY <1>1, <3>1 DEF Range
  <2> QED BY <1>1, <2>1 DEF Range
<1>5. \A e \in Range(Tail(s)) : Head(s).impl < e.impl
  BY <1>1, <1>3, <1>4
<1>6. \A e : e \in Range(s) <=> (e = s[1] \/ \E i \in 2..Len(s) : e = s[i])
  BY <1>1 DEF Range
<1>7. \A i \in 2..Len(s) : s[i] # s[1]
  BY <1>1, <1>3
<1>8. \A e : e \in Range(Tail(s)) <=> e \in Range(s) \ {Head(s)}
  BY <1>1, <1>4, <1>6, <1>7
<1> QED BY <1>1, <1>2, <1>5, <1>6, <1>8

LEMMA ConcatType ==
  ASSUME NEW S, NEW a \in Seq(S), NEW b \in Seq(S)
  PROVE  a \o b \in Seq(S) /\ Len(a \o b) = Len(a) + Len(b)
OBVIOUS

LEMMA RemoveAtSorted ==
  ASSUME NEW s \in Seq(EventIds), NEW k \in DOMAIN s, Sorted(s)
  PROVE  /\ Sorted(RemoveAt(s, k))
         /\ Range(RemoveAt(s, k)) = Range(s) \ {s[k]}
<1> DEFINE t == RemoveAt(s, k)
<1>1. /\ Len(s) \in Nat /\ DOMAIN s = 1..Len(s) /\ k \in 1..Len(s)
      /\ \A i \in 1..Len(s) : s[i].impl \in Nat
  <2>1. /\ Len(s) \in Nat /\ DOMAIN s = 1..Len(s)
        /\ \A i \in 1..Len(s) : s[i] \in EventIds
    OBVIOUS
  <2>2. \A e \in EventIds : e.impl \in Nat
    BY DEF EventIds
  <2> QED BY <2>1, <2>2
<1>2. /\ DOMAIN t = 1..(Len(s) - 1)
      /\ \A i \in 1..(Len(s) - 1) : t[i] = IF i < k THEN s[i] ELSE s[i + 1]
  <2> DEFINE u == SubSeq(s, 1, k - 1)
             v == SubSeq(s, k + 1, Len(s))
  <2>1. /\ u \in Seq(EventIds) /\ Len(u) = k - 1
        /\ \A i \in 1..(k - 1) : u[i] = s[i]
    BY <1>1
  <2>2. /\ v \in Seq(EventIds) /\ Len(v) = Len(s) - k
        /\ \A i \in 1..(Len(s) - k) : v[i] = s[i + k]
    BY <1>1
  <2>3. t = u \o v
    BY DEF RemoveAt
  <2> HIDE DEF u, v, t
  <2>4. Len(t) = Len(s) - 1 /\ DOMAIN t = 1..(Len(s) - 1)
    <3>1. t \in Seq(EventIds) /\ Len(t) = Len(u) + Len(v)
      BY <2>1, <2>2, <2>3, ConcatType
    <3>2. DOMAIN t = 1..Len(t)
      BY <3>1
    <3>3. Len(t) = Len(s) - 1
      BY <1>1, <2>1, <2>2, <3>1
    <3> QED BY <3>2, <3>3
  <2>5. \A i \in 1..(Len(s) - 1) : t[i] = IF i < k THEN u[i] ELSE v[i - (k - 1)]
    BY <1>1, <2>1, <2>2, <2>3
  <2>6. \A i \in 1..(Len(s) - 1) : i >= k => v[i - (k - 1)] = s[i + 1]
    <3> SUFFICES ASSUME NEW i \in 1..(Len(s) - 1), i >= k PROVE v[i - (k - 1)] = s[i + 1]
      OBVIOUS
    <3>1. i - (k - 1) \in 1..(Len(s) - k) /\ (i - (k - 1)) + k = i + 1
      BY <1>1
    <3> QED BY <2>2, <3>1
  <2> QED BY <1>1, <2>1, <2>4, <2>5, <2>6
<1> HIDE DEF t
<1>3. Sorted(t)
  <2> SUFFICES ASSUME NEW i \in 1..(Len(s) - 1), NEW j \in 1..(Len(s) - 1), i < j
               PROVE  t[i].impl < t[j].impl
    BY <1>2 DEF Sorted
  <2>1. \A a, b \in 1..Len(s) : a < b => s[a].impl < s[b].impl
    BY <1>1 DEF Sorted
  <2>2. CASE j < k
    BY <1>1, <1>2, <2>1, <2>2
  <2>3. CASE i >= k
    BY <1>1, <1>2, <2>1, <2>3
  <2>4. CASE i < k /\ k <= j
    BY <1>1, <1>2, <2>1, <2>4
  <2> QED BY <1>1, <2>2, <2>3, <2>4
<1>4. \A i \in 1..Len(s) : i # k => s[i] # s[k]
  BY <1>1 DEF Sorted
<1>5. ASSUME NEW i \in 1..Len(s), i # k PROVE s[i] \in Range(t)
  <2>1. CASE i < k
    <3>1. i \in 1..(Len(s) - 1) /\ t[i] = s[i]
      BY <1>1, <1>2, <2>1
    <3> QED BY <1>2, <3>1 DEF Range
  <2>2. CASE i > k
    <3>1. i - 1 \in 1..(Len(s) - 1) /\ t[i - 1] = s[i]
      BY <1>1, <1>2, <2>2
    <3> QED BY <1>2, <3>1 DEF Range
  <2> QED BY <1>1, <1>5, <2>1, <2>2
<1>6. ASSUME NEW i \in 1..(Len(s) - 1) PROVE \E j \in 1..Len(s) : j # k /\ t[i] = s[j]
  BY <1>1, <1>2
<1>7. \A e : e \in Range(t) <=> e \in Range(s) \ {s[k]}
  <2>1. \A e \in Range(t) : \E i \in 1..(Len(s) - 1) : e = t[i]
    BY <1>2 DEF Range
  <2>2. \A e \in Range(s) : \E i \in 1..Len(s) : e = s[i]
    BY <1>1 DEF Range
  <2>3. \A i \in 1..Len(s) : s[i] \in Range(s)
    BY <1>1 DEF Range
  <2>4. ASSUME NEW e \in Range(t) PROVE e \in Range(s) /\ e # s[k]
    BY <1>4, <1>6, <2>1, <2>3
  <2>5. ASSUME NEW e \in Range(s), e # s[k] PROVE e \in Range(t)
    BY <1>5, <2>2, <2>5
  <2> QED BY <2>4, <2>5
<1> QED BY <1>3, <1>7 DEF t

LEMMA InitLedger == Init => Ledger /\ DestroyIsFifo
<1> SUFFICES ASSUME Init PROVE Ledger /\ DestroyIsFifo
  OBVIOUS
<1>1. DestroyIds = {} /\ Sorted(m_destroyEvents)
  BY DEF Init, DestroyIds, Range, Sorted
<1>2. Ledger
  BY <1>1 DEF Init, Ledger, Executed, FirstUid, DestroyUid, NullId
<1>3. DestroyIsFifo
  BY DEF Init, DestroyIsFifo
<1> QED BY <1>2, <1>3

(* Facts about a state in which the ledger holds.                          *)
LEMMA LedgerFacts ==
  ASSUME IInv, Ledger
  PROVE  /\ m_uid \in Nat /\ m_uid >= FirstUid
         /\ m_events \subseteq EventIds /\ ids \subseteq EventIds
         /\ \A id \in EventIds : id.impl \in Nat /\ id.uid \in Nat /\ id.ts \in Nat
         /\ DestroyIds \subseteq ids
         /\ ran \subseteq Nat /\ ranDestroy \subseteq Nat /\ withdrawn \subseteq Nat
         /\ \A e \in m_events : IsOrdinary(e)
         /\ \A d \in DestroyIds : IsDestroy(d)
         /\ \A e \in m_events, d \in DestroyIds : e.impl # d.impl
         /\ \A x \in m_events \union DestroyIds, id \in ids : id.impl = x.impl => id = x
<1> USE DEF FirstUid, DestroyUid
<1>1. /\ m_uid \in Nat /\ m_uid >= FirstUid
      /\ m_events \subseteq EventIds /\ ids \subseteq EventIds
      /\ \A id \in EventIds : id.impl \in Nat /\ id.uid \in Nat /\ id.ts \in Nat
      /\ DestroyIds \subseteq ids
      /\ ran \subseteq Nat /\ ranDestroy \subseteq Nat /\ withdrawn \subseteq Nat
  BY DEF IInv, TypeOK, Shapes, Ledger, EventIds
<1>2. /\ \A e \in m_events : IsOrdinary(e)
      /\ \A d \in DestroyIds : IsDestroy(d)
  BY <1>1 DEF IInv, Shapes, Ledger, IsOrdinary, IsDestroy, NullId
<1>3. \A e \in m_events, d \in DestroyIds : e.impl # d.impl
  BY <1>1, <1>2 DEF IInv, SameImplSameEvent, IsOrdinary, IsDestroy
<1>4. \A x \in m_events \union DestroyIds, id \in ids : id.impl = x.impl => id = x
  BY <1>1, <1>2 DEF IInv, SameImplSameEvent, Ledger
<1> QED BY <1>1, <1>2, <1>3, <1>4

LEMMA LedgerInsert ==
  ASSUME IInv, Ledger, NEW ev \in EventIds, ev.impl = m_uid, ev.uid = m_uid,
         InsertEvent(ev), ids' = ids \/ ids' = ids \union {ev}
  PROVE  Ledger'
<1> USE DEF FirstUid, DestroyUid
<1>0. /\ m_events' = m_events \union {ev}
      /\ m_uid' = m_uid + 1
      /\ UNCHANGED <<m_destroyEvents, cancelled, ran, ranDestroy, withdrawn, DestroyIds,
                     Executed>>
      /\ ids' \subseteq ids \union {ev}
      /\ ids \subseteq ids'
  BY DEF InsertEvent, DestroyIds, Executed
<1>a. /\ m_uid \in Nat /\ m_uid >= FirstUid
      /\ \A id \in ids : id.impl \in Nat
      /\ ran \subseteq Nat /\ ranDestroy \subseteq Nat /\ withdrawn \subseteq Nat
  BY LedgerFacts
<1>1. \A id \in ids : id.impl < m_uid
  BY <1>a DEF IInv, Shapes, IsOrdinary, IsDestroy, NullId
<1>2. m_uid \notin Executed /\ m_uid \notin withdrawn /\ m_uid \notin cancelled
  BY <1>a DEF Ledger, IInv, Shapes, TypeOK, Executed
<1>3. (\A a, b \in ids : a.impl = b.impl => a = b)'
  BY <1>0, <1>1, <1>a DEF Ledger
<1>4. (/\ DestroyIds \subseteq ids /\ \A d \in DestroyIds : d.uid = DestroyUid
       /\ Sorted(m_destroyEvents)
       /\ \A d \in DestroyIds, i \in ranDestroy : i < d.impl)'
  BY <1>0 DEF Ledger, Sorted
<1>5. (\A i \in Executed \union withdrawn : i < m_uid)'
  BY <1>0, <1>a DEF Ledger, Executed
<1>6. (\A e \in m_events \union DestroyIds :
         e.impl \notin Executed /\ (e.impl \in withdrawn <=> e.impl \in cancelled))'
  BY <1>0, <1>2 DEF Ledger
<1>7. (withdrawn \cap Executed = {})'
  BY <1>0 DEF Ledger
<1>8. (\A i \in FirstUid..(m_uid - 1) :
         \/ i \in Executed \union withdrawn
         \/ \E e \in m_events \union DestroyIds : e.impl = i)'
  <2> SUFFICES ASSUME NEW i \in FirstUid..m_uid
               PROVE  (\/ i \in Executed \union withdrawn
                       \/ \E e \in m_events \union DestroyIds : e.impl = i)'
    BY <1>0, <1>a
  <2>1. CASE i = m_uid
    BY <1>0, <2>1
  <2>2. CASE i \in FirstUid..(m_uid - 1)
    BY <1>0, <2>2 DEF Ledger
  <2> QED BY <1>a, <2>1, <2>2
<1>9. (\A id \in ids : IF id.uid = DestroyUid THEN id.impl \notin ran
                                             ELSE id.impl \notin ranDestroy)'
  BY <1>0, <1>2, <1>a DEF Ledger, Executed
<1> QED BY <1>3, <1>4, <1>5, <1>6, <1>7, <1>8, <1>9 DEF Ledger

LEMMA LedgerScheduleDestroy ==
  ASSUME IInv, Ledger, ScheduleDestroy
  PROVE  Ledger'
<1> USE DEF FirstUid, DestroyUid
<1> DEFINE id == [impl |-> m_uid, ts |-> m_currentTs,
                  uid |-> DestroyUid, context |-> NoContext]
<1>0. /\ m_destroyEvents' = Append(m_destroyEvents, id)
      /\ m_uid' = m_uid + 1
      /\ ids' = ids \union {id}
      /\ UNCHANGED <<m_events, cancelled, ran, ranDestroy, withdrawn, Executed>>
  BY DEF ScheduleDestroy, Executed
<1>a. /\ m_uid \in Nat /\ m_uid >= FirstUid
      /\ \A x \in ids : x.impl \in Nat
      /\ ran \subseteq Nat /\ ranDestroy \subseteq Nat /\ withdrawn \subseteq Nat
      /\ DestroyIds \subseteq ids
      /\ m_destroyEvents \in Seq(EventIds)
  BY LedgerFacts DEF IInv, TypeOK
<1>b. id \in EventIds /\ id.impl = m_uid /\ id.uid = DestroyUid
  BY <1>a DEF EventIds, IInv, TypeOK
<1> HIDE DEF id
<1>1. \A x \in ids : x.impl < m_uid
  BY <1>a DEF IInv, Shapes, IsOrdinary, IsDestroy, NullId
<1>2. m_uid \notin Executed /\ m_uid \notin withdrawn /\ m_uid \notin cancelled
  BY <1>a DEF Ledger, IInv, Shapes, TypeOK, Executed
<1>c. Sorted(m_destroyEvents') /\ DestroyIds' = DestroyIds \union {id}
  BY <1>0, <1>1, <1>a, <1>b, AppendSorted DEF Ledger, DestroyIds
<1>3. (\A a, b \in ids : a.impl = b.impl => a = b)'
  BY <1>0, <1>1, <1>a, <1>b DEF Ledger
<1>4. (/\ DestroyIds \subseteq ids /\ \A d \in DestroyIds : d.uid = DestroyUid
       /\ Sorted(m_destroyEvents))'
  BY <1>0, <1>b, <1>c DEF Ledger
<1>5. (\A i \in Executed \union withdrawn : i < m_uid)'
  BY <1>0, <1>a DEF Ledger, Executed
<1>6. (\A e \in m_events \union DestroyIds :
         e.impl \notin Executed /\ (e.impl \in withdrawn <=> e.impl \in cancelled))'
  BY <1>0, <1>2, <1>b, <1>c DEF Ledger
<1>7. (withdrawn \cap Executed = {})'
  BY <1>0 DEF Ledger
<1>8. (\A i \in FirstUid..(m_uid - 1) :
         \/ i \in Executed \union withdrawn
         \/ \E e \in m_events \union DestroyIds : e.impl = i)'
  <2> SUFFICES ASSUME NEW i \in FirstUid..m_uid
               PROVE  (\/ i \in Executed \union withdrawn
                       \/ \E e \in m_events \union DestroyIds : e.impl = i)'
    BY <1>0, <1>a
  <2>1. CASE i = m_uid
    BY <1>b, <1>c, <2>1
  <2>2. CASE i \in FirstUid..(m_uid - 1)
    BY <1>0, <1>c, <2>2 DEF Ledger
  <2> QED BY <1>a, <2>1, <2>2
<1>9. (\A d \in DestroyIds, i \in ranDestroy : i < d.impl)'
  BY <1>0, <1>b, <1>c DEF Ledger, Executed
<1>10. (\A x \in ids : IF x.uid = DestroyUid THEN x.impl \notin ran
                                            ELSE x.impl \notin ranDestroy)'
  BY <1>0, <1>2, <1>b DEF Ledger, Executed
<1> QED BY <1>3, <1>4, <1>5, <1>6, <1>7, <1>8, <1>9, <1>10 DEF Ledger

(* Cancel and both Removes: the id is marked withdrawn exactly when its    *)
(* event can still be kept from running.                                   *)
LEMMA LedgerCancel ==
  ASSUME IInv, Ledger, NEW id \in ids, Cancel(id)
  PROVE  Ledger'
<1> USE DEF FirstUid, DestroyUid
<1>0. /\ UNCHANGED <<m_events, m_destroyEvents, m_uid, ids, ran, ranDestroy, DestroyIds,
                     Executed>>
      /\ withdrawn' = withdrawn \union ({id.impl} \ Executed)
      /\ cancelled' = IF IsExpired(id) THEN cancelled ELSE cancelled \union {id.impl}
      /\ pc # "destroyed"
  BY DEF Cancel, Retract, Executed, DestroyIds, events, ClientPcs
<1>a. /\ m_uid \in Nat /\ id.impl \in Nat /\ id.impl < m_uid
  BY LedgerFacts DEF IInv, Shapes, IsOrdinary, IsDestroy, NullId
<1>1. ASSUME IsExpired(id), NEW e \in m_events \union DestroyIds, e.impl = id.impl
      PROVE  e.impl \in cancelled
  <2>1. id = e
    BY <1>1, LedgerFacts
  <2>2. CASE e \in m_events
    <3>1. Before(Now, id) /\ id.impl # 0 /\ id.uid # DestroyUid
      BY <2>1, <2>2, LedgerFacts DEF IInv, QueueIsAhead, IsOrdinary
    <3> QED BY <1>1, <2>1, <3>1, LedgerFacts DEF IsExpired, Before, Now, IInv, TypeOK
  <2>3. CASE e \in DestroyIds
    BY <1>1, <2>1, <2>3, LedgerFacts DEF IsExpired, DestroyIds, IsDestroy
  <2> QED BY <2>2, <2>3
<1>2. (\A i \in Executed \union withdrawn : i < m_uid)'
  BY <1>0, <1>a DEF Ledger, Executed
<1>3. (\A e \in m_events \union DestroyIds :
         e.impl \notin Executed /\ (e.impl \in withdrawn <=> e.impl \in cancelled))'
  BY <1>0, <1>1 DEF Ledger
<1>4. (withdrawn \cap Executed = {})'
  BY <1>0 DEF Ledger
<1> QED BY <1>0, <1>2, <1>3, <1>4 DEF Ledger, Sorted

LEMMA LedgerRemoveDestroy ==
  ASSUME IInv, Ledger, NEW id \in ids, RemoveDestroy(id)
  PROVE  Ledger'
<1> USE DEF FirstUid, DestroyUid
<1>0. /\ UNCHANGED <<m_events, m_uid, cancelled, ids, ran, ranDestroy, Executed>>
      /\ withdrawn' = withdrawn \union ({id.impl} \ Executed)
      /\ id.uid = DestroyUid
      /\ pc # "destroyed"
  BY DEF RemoveDestroy, Retract, Executed, ClientPcs
<1>a. /\ m_uid \in Nat /\ id.impl \in Nat /\ id.impl < m_uid
  BY LedgerFacts DEF IInv, Shapes, IsOrdinary, IsDestroy, NullId
<1>b. Sorted(m_destroyEvents') /\ DestroyIds' = DestroyIds \ {id}
  <2>1. CASE id \in Range(m_destroyEvents)
    <3> DEFINE i == CHOOSE j \in DOMAIN m_destroyEvents : m_destroyEvents[j] = id
    <3>1. i \in DOMAIN m_destroyEvents /\ m_destroyEvents[i] = id
      BY <2>1 DEF Range
    <3>2. m_destroyEvents' = RemoveAt(m_destroyEvents, i)
      BY <2>1 DEF RemoveDestroy
    <3> QED BY <3>1, <3>2, RemoveAtSorted DEF IInv, TypeOK, Ledger, DestroyIds
  <2>2. CASE id \notin Range(m_destroyEvents)
    BY <2>2 DEF RemoveDestroy, Ledger, DestroyIds
  <2> QED BY <2>1, <2>2
<1>1. \A e \in m_events \union (DestroyIds \ {id}) : e.impl # id.impl
  <2>1. \A e \in m_events : e # id
    BY <1>0, LedgerFacts DEF IsOrdinary
  <2> QED BY <2>1, LedgerFacts
<1>2. (/\ \A a, b \in ids : a.impl = b.impl => a = b
       /\ DestroyIds \subseteq ids /\ \A d \in DestroyIds : d.uid = DestroyUid
       /\ Sorted(m_destroyEvents)
       /\ \A d \in DestroyIds, i \in ranDestroy : i < d.impl)'
  BY <1>0, <1>b DEF Ledger
<1>3. (\A i \in Executed \union withdrawn : i < m_uid)'
  BY <1>0, <1>a DEF Ledger, Executed
<1>4. (\A e \in m_events \union DestroyIds :
         e.impl \notin Executed /\ (e.impl \in withdrawn <=> e.impl \in cancelled))'
  BY <1>0, <1>1, <1>b DEF Ledger
<1>5. (withdrawn \cap Executed = {})'
  BY <1>0 DEF Ledger
<1>6. (\A i \in FirstUid..(m_uid - 1) :
         \/ i \in Executed \union withdrawn
         \/ \E e \in m_events \union DestroyIds : e.impl = i)'
  BY <1>0, <1>b DEF Ledger
<1>7. (\A x \in ids : IF x.uid = DestroyUid THEN x.impl \notin ran
                                           ELSE x.impl \notin ranDestroy)'
  BY <1>0 DEF Ledger
<1> QED BY <1>2, <1>3, <1>4, <1>5, <1>6, <1>7 DEF Ledger

LEMMA LedgerRemoveEvent ==
  ASSUME IInv, Ledger, NEW id \in ids, RemoveEvent(id)
  PROVE  Ledger'
<1> USE DEF FirstUid, DestroyUid
<1>0. /\ UNCHANGED <<m_destroyEvents, m_uid, ids, ran, ranDestroy, DestroyIds, Executed>>
      /\ withdrawn' = withdrawn \union ({id.impl} \ Executed)
      /\ id.uid # DestroyUid
      /\ pc # "destroyed"
  BY DEF RemoveEvent, Retract, Executed, DestroyIds, ClientPcs
<1>a. /\ m_uid \in Nat /\ id.impl \in Nat /\ id.impl < m_uid
  BY LedgerFacts DEF IInv, Shapes, IsOrdinary, IsDestroy, NullId
<1>b. \A d \in DestroyIds : d.impl # id.impl
  BY <1>0, LedgerFacts DEF IsDestroy
<1>c. (/\ \A a, b \in ids : a.impl = b.impl => a = b
       /\ DestroyIds \subseteq ids /\ \A d \in DestroyIds : d.uid = DestroyUid
       /\ Sorted(m_destroyEvents)
       /\ withdrawn \cap Executed = {}
       /\ \A d \in DestroyIds, i \in ranDestroy : i < d.impl
       /\ \A x \in ids : IF x.uid = DestroyUid THEN x.impl \notin ran
                                             ELSE x.impl \notin ranDestroy)'
  BY <1>0 DEF Ledger, Sorted
<1>d. (\A i \in Executed \union withdrawn : i < m_uid)'
  BY <1>0, <1>a DEF Ledger, Executed
<1>1. CASE IsExpired(id)
  <2>0. UNCHANGED <<m_events, cancelled>>
    BY <1>1 DEF RemoveEvent
  <2>1. ASSUME NEW e \in m_events, e.impl = id.impl PROVE e.impl \in cancelled
    <3>1. id = e
      BY <2>1, LedgerFacts
    <3>2. Before(Now, id) /\ id.impl # 0
      BY <3>1, LedgerFacts DEF IInv, QueueIsAhead, IsOrdinary
    <3> QED BY <1>0, <1>1, <3>1, <3>2, LedgerFacts DEF IsExpired, Before, Now, IInv, TypeOK
  <2>2. (\A e \in m_events \union DestroyIds :
           e.impl \notin Executed /\ (e.impl \in withdrawn <=> e.impl \in cancelled))'
    BY <1>0, <1>b, <2>0, <2>1 DEF Ledger
  <2>3. (\A i \in FirstUid..(m_uid - 1) :
           \/ i \in Executed \union withdrawn
           \/ \E e \in m_events \union DestroyIds : e.impl = i)'
    BY <1>0, <2>0 DEF Ledger
  <2> QED BY <1>c, <1>d, <2>2, <2>3 DEF Ledger
<1>2. CASE ~IsExpired(id)
  <2>0. m_events' = m_events \ {id} /\ cancelled' = cancelled \union {id.impl}
    BY <1>2 DEF RemoveEvent
  <2>1. id \in m_events
    BY <1>0, <1>2 DEF IInv, LiveIsQueued
  <2>2. \A e \in m_events : e.impl = id.impl => e = id
    BY LedgerFacts
  <2>3. (\A e \in m_events \union DestroyIds :
           e.impl \notin Executed /\ (e.impl \in withdrawn <=> e.impl \in cancelled))'
    BY <1>0, <1>b, <2>0, <2>2 DEF Ledger
  <2>4. id.impl \notin Executed
    BY <2>1 DEF Ledger
  <2>5. (\A i \in FirstUid..(m_uid - 1) :
           \/ i \in Executed \union withdrawn
           \/ \E e \in m_events \union DestroyIds : e.impl = i)'
    BY <1>0, <2>0, <2>4 DEF Ledger
  <2> QED BY <1>c, <1>d, <2>3, <2>5 DEF Ledger
<1> QED BY <1>1, <1>2

LEMMA LedgerProcess ==
  ASSUME IInv, Ledger, NEW handler, NEW caller, ProcessOneEvent(handler, caller)
  PROVE  Ledger'
<1> USE DEF FirstUid, DestroyUid
<1>0. PICK next \in m_events :
        /\ m_events' = m_events \ {next}
        /\ ran' = IF next.impl \notin cancelled THEN ran \union {next.impl} ELSE ran
        /\ UNCHANGED <<m_destroyEvents, m_uid, cancelled, ids, ranDestroy, withdrawn,
                       DestroyIds>>
  BY DEF ProcessOneEvent, DestroyIds
<1>a. /\ IsOrdinary(next) /\ next.impl \in Nat /\ m_uid \in Nat
      /\ \A e \in (m_events \ {next}) \union DestroyIds : e.impl # next.impl
      /\ \A x \in ids : x.impl = next.impl => x = next
  BY LedgerFacts DEF IInv, SameImplSameEvent
<1>b. /\ Executed \subseteq Executed' /\ Executed' \subseteq Executed \union {next.impl}
      /\ next.impl \in Executed' \union withdrawn
      /\ (next.impl \in Executed' => next.impl \notin withdrawn)
  BY <1>0 DEF Executed, Ledger
<1>1. (/\ \A a, b \in ids : a.impl = b.impl => a = b
       /\ DestroyIds \subseteq ids /\ \A d \in DestroyIds : d.uid = DestroyUid
       /\ Sorted(m_destroyEvents)
       /\ \A d \in DestroyIds, i \in ranDestroy : i < d.impl)'
  BY <1>0 DEF Ledger, Sorted
<1>2. (\A i \in Executed \union withdrawn : i < m_uid)'
  BY <1>0, <1>a, <1>b DEF Ledger, IsOrdinary
<1>3. (\A e \in m_events \union DestroyIds :
         e.impl \notin Executed /\ (e.impl \in withdrawn <=> e.impl \in cancelled))'
  BY <1>0, <1>a, <1>b DEF Ledger
<1>4. (withdrawn \cap Executed = {})'
  BY <1>0, <1>b DEF Ledger
<1>5. (\A i \in FirstUid..(m_uid - 1) :
         \/ i \in Executed \union withdrawn
         \/ \E e \in m_events \union DestroyIds : e.impl = i)'
  BY <1>0, <1>b DEF Ledger
<1>6. (\A x \in ids : IF x.uid = DestroyUid THEN x.impl \notin ran
                                           ELSE x.impl \notin ranDestroy)'
  <2>1. next.uid # DestroyUid
    BY <1>a DEF IsOrdinary
  <2> QED BY <1>0, <1>a, <2>1 DEF Ledger
<1> QED BY <1>1, <1>2, <1>3, <1>4, <1>5, <1>6 DEF Ledger

LEMMA LedgerDestroyStep ==
  ASSUME IInv, Ledger, DestroyStep
  PROVE  Ledger'
<1> USE DEF FirstUid, DestroyUid
<1> DEFINE d0 == Head(m_destroyEvents)
<1>0. /\ m_destroyEvents # <<>> /\ m_destroyEvents' = Tail(m_destroyEvents)
      /\ UNCHANGED <<m_events, m_uid, cancelled, ids, ran, withdrawn>>
      /\ ranDestroy' = IF d0.impl \in cancelled THEN ranDestroy
                                               ELSE ranDestroy \union {d0.impl}
      /\ m_destroyEvents \in Seq(EventIds)
  BY DEF DestroyStep, IInv, TypeOK
<1>1. /\ Sorted(m_destroyEvents') /\ DestroyIds' = DestroyIds \ {d0} /\ d0 \in DestroyIds
      /\ \A d \in DestroyIds' : d0.impl < d.impl
  BY <1>0, TailSorted DEF Ledger, DestroyIds
<1> HIDE DEF d0
<1>a. /\ IsDestroy(d0) /\ d0 \in ids /\ d0.impl \in Nat /\ m_uid \in Nat
      /\ \A e \in m_events \union (DestroyIds \ {d0}) : e.impl # d0.impl
      /\ \A x \in ids : x.impl = d0.impl => x = d0
  BY <1>1, LedgerFacts
<1>b. /\ Executed \subseteq Executed' /\ Executed' \subseteq Executed \union {d0.impl}
      /\ d0.impl \in Executed' \union withdrawn
      /\ (d0.impl \in Executed' => d0.impl \notin withdrawn)
  BY <1>0, <1>1 DEF Executed, Ledger
<1>2. (/\ \A a, b \in ids : a.impl = b.impl => a = b
       /\ DestroyIds \subseteq ids /\ \A d \in DestroyIds : d.uid = DestroyUid
       /\ Sorted(m_destroyEvents))'
  BY <1>0, <1>1 DEF Ledger
<1>3. (\A i \in Executed \union withdrawn : i < m_uid)'
  BY <1>0, <1>a, <1>b DEF Ledger, IsDestroy
<1>4. (\A e \in m_events \union DestroyIds :
         e.impl \notin Executed /\ (e.impl \in withdrawn <=> e.impl \in cancelled))'
  BY <1>0, <1>1, <1>a, <1>b DEF Ledger
<1>5. (withdrawn \cap Executed = {})'
  BY <1>0, <1>b DEF Ledger
<1>6. (\A i \in FirstUid..(m_uid - 1) :
         \/ i \in Executed \union withdrawn
         \/ \E e \in m_events \union DestroyIds : e.impl = i)'
  BY <1>0, <1>1, <1>b DEF Ledger
<1>7. (\A d \in DestroyIds, i \in ranDestroy : i < d.impl)'
  BY <1>0, <1>1 DEF Ledger
<1>8. (\A x \in ids : IF x.uid = DestroyUid THEN x.impl \notin ran
                                           ELSE x.impl \notin ranDestroy)'
  BY <1>0, <1>a DEF Ledger, IsDestroy
<1> QED BY <1>2, <1>3, <1>4, <1>5, <1>6, <1>7, <1>8 DEF Ledger

LEMMA LedgerIsFifo == IInv /\ Ledger => DestroyIsFifo
<1> USE DEF FirstUid, DestroyUid
<1> SUFFICES ASSUME IInv, Ledger,
                    NEW a \in ids, NEW b \in ids, a.uid = DestroyUid, b.uid = DestroyUid,
                    a.impl < b.impl, b.impl \in ranDestroy
             PROVE  a.impl \in ranDestroy \union withdrawn
  BY DEF DestroyIsFifo
<1>1. IsDestroy(a)
  BY DEF IInv, Shapes, IsOrdinary, NullId
<1>2. a.impl \notin ran
  BY DEF Ledger
<1>3. ASSUME NEW e \in m_events \union DestroyIds PROVE e.impl # a.impl
  <2>1. CASE e \in DestroyIds
    BY <2>1, LedgerFacts DEF Ledger
  <2>2. CASE e \in m_events
    BY <1>1, <2>2, LedgerFacts DEF IsOrdinary, IsDestroy
  <2> QED BY <2>1, <2>2
<1> QED BY <1>1, <1>2, <1>3 DEF Ledger, IsDestroy, Executed

LEMMA NextLInv == LInv /\ [Next]_vars => LInv'
<1> SUFFICES ASSUME LInv, [Next]_vars PROVE LInv'
  OBVIOUS
<1> USE SimulatorAssumption
<1>1. IInv /\ IInv'
  BY NextIInv DEF LInv
<1>2. CASE pc = "destroyed"
  <2>1. UNCHANGED vars
    BY <1>2 DEF Next, ClientCall, Schedule, StopAt, ScheduleWithContext, ScheduleNow,
           InsertEvent, ScheduleDestroy, Cancel, RemoveDestroy, RemoveEvent, Stop, Run,
           RunStep, RunReturns, RunOneEvent, HandlerReturns, Destroy, DestroyStep,
           DoDispose, ClientPcs
  <2> QED BY <1>1, <1>2, <2>1 DEF LInv, vars, DestroyIsFifo
<1>3. CASE DoDispose
  BY <1>1, <1>3 DEF DoDispose, LInv, DestroyIsFifo, history
<1>4. ASSUME pc # "destroyed", ~DoDispose PROVE Ledger'
  <2>0. Ledger /\ m_currentContext \in Contexts \union {NoContext}
    BY <1>4 DEF LInv, IInv, TypeOK
  <2>1. ASSUME NEW d \in Delays, Schedule(d) PROVE Ledger'
    BY <1>1, <2>0, <2>1, NewEventType, LedgerInsert DEF Schedule
  <2>2. ASSUME NEW d \in Delays, StopAt(d) PROVE Ledger'
    BY <1>1, <2>0, <2>2, NewEventType, LedgerInsert DEF StopAt
  <2>3. ASSUME NEW c \in Contexts, NEW d \in Delays, ScheduleWithContext(c, d)
        PROVE  Ledger'
    BY <1>1, <2>0, <2>3, NewEventType, LedgerInsert DEF ScheduleWithContext
  <2>4. CASE ScheduleNow
    BY <1>1, <2>0, <2>4, NewEventType, LedgerInsert DEF ScheduleNow
  <2>5. CASE ScheduleDestroy
    BY <1>1, <2>0, <2>5, LedgerScheduleDestroy
  <2>6. ASSUME NEW id \in ids, Cancel(id) PROVE Ledger'
    BY <1>1, <2>0, <2>6, LedgerCancel
  <2>7. ASSUME NEW id \in ids, RemoveDestroy(id) PROVE Ledger'
    BY <1>1, <2>0, <2>7, LedgerRemoveDestroy
  <2>8. ASSUME NEW id \in ids, RemoveEvent(id) PROVE Ledger'
    BY <1>1, <2>0, <2>8, LedgerRemoveEvent
  <2>9. CASE RunStep
    BY <1>1, <2>0, <2>9, LedgerProcess DEF RunStep
  <2>10. CASE RunOneEvent
    BY <1>1, <2>0, <2>10, LedgerProcess DEF RunOneEvent
  <2>11. CASE DestroyStep
    BY <1>1, <2>0, <2>11, LedgerDestroyStep
  <2>12. ASSUME UNCHANGED <<m_events, m_destroyEvents, m_uid, cancelled, ids, ran, ranDestroy,
                           withdrawn>>
         PROVE  Ledger'
    BY <2>0, <2>12 DEF Ledger, DestroyIds, Executed, Sorted
  <2>13. CASE Stop \/ Run \/ RunReturns \/ HandlerReturns \/ Destroy \/ UNCHANGED vars
    BY <2>12, <2>13 DEF Stop, Run, RunReturns, HandlerReturns, Destroy, events, history, vars
  <2>14. ClientCall => (Ledger' \/ Stop)
    BY <2>1, <2>2, <2>3, <2>4, <2>5, <2>6, <2>7, <2>8 DEF ClientCall
  <2> QED
    BY <1>4, <2>9, <2>10, <2>11, <2>13, <2>14 DEF Next
<1>5. IInv' /\ Ledger' => DestroyIsFifo'
  BY LedgerIsFifo, PTL
<1> QED BY <1>1, <1>2, <1>3, <1>4, <1>5 DEF LInv

LEMMA SpecLInv == Spec => []LInv
<1>1. Init => LInv
  BY InitIInv, InitLedger DEF LInv
<1> QED BY <1>1, NextLInv, PTL DEF Spec

(* No event is lost and none runs twice: every event is executed, withdrawn*)
(* or waiting, and only one of the three.                                  *)
THEOREM NothingIsLost == Spec => []NothingLost
<1>1. LInv => NothingLost
  BY DEF LInv, NothingLost, Ledger, QueuedImpls, QueuedDestroy, DestroyIds, Executed
<1> QED BY <1>1, SpecLInv, PTL

(* IsExpired (id) tells the truth about every id ever handed out.          *)
THEOREM ExpiryIsExact == Spec => []ExpiredIsExact
<1>1. LInv => ExpiredIsExact
  <2> USE DEF FirstUid, DestroyUid
  <2> SUFFICES ASSUME LInv, pc # "destroyed", NEW id \in ids
               PROVE  IsExpired(id) <=> \/ id.impl \notin QueuedImpls \union QueuedDestroy
                                        \/ id.impl \in withdrawn
    BY DEF ExpiredIsExact
  <2>0. IInv /\ Ledger
    BY DEF LInv
  <2>1. id.impl \in QueuedImpls \union QueuedDestroy
          <=> id \in m_events \union DestroyIds
    BY <2>0, LedgerFacts DEF QueuedImpls, QueuedDestroy, DestroyIds
  <2>2. id \in m_events \union DestroyIds => (id.impl \in withdrawn <=> id.impl \in cancelled)
    BY <2>0 DEF Ledger
  <2>3. CASE id.uid = DestroyUid
    <3>1. id \notin m_events
      BY <2>0, <2>3, LedgerFacts DEF IsOrdinary
    <3> QED BY <2>1, <2>2, <2>3, <3>1 DEF IsExpired, DestroyIds
  <2>4. CASE id.uid # DestroyUid
    <3>1. id \notin DestroyIds
      BY <2>0, <2>4 DEF Ledger
    <3>2. id \in m_events => (IsExpired(id) <=> id.impl \in cancelled)
      <4> SUFFICES ASSUME id \in m_events
                   PROVE  IsExpired(id) <=> id.impl \in cancelled
        OBVIOUS
      <4>1. Before(Now, id) /\ id.impl # 0
        BY <2>0, LedgerFacts DEF IInv, QueueIsAhead, IsOrdinary
      <4> QED BY <2>0, <2>4, <4>1, LedgerFacts DEF IsExpired, Before, Now, IInv, TypeOK
    <3>3. id \notin m_events => IsExpired(id)
      BY <2>0, <2>4 DEF IInv, LiveIsQueued, LInv
    <3> QED BY <2>1, <2>2, <3>1, <3>2, <3>3
  <2> QED BY <2>3, <2>4
<1> QED BY <1>1, SpecLInv, PTL

(* Destroy events run in the order they were scheduled.                    *)
THEOREM DestroyRunsInOrder == Spec => []DestroyIsFifo
<1>1. LInv => DestroyIsFifo
  BY DEF LInv
<1> QED BY <1>1, SpecLInv, PTL

-----------------------------------------------------------------------------
(* The refinement: live events are EventLoop's pending ones.               *)

Key(e) == [ts |-> e.ts, uid |-> e.uid]
Live == {e \in m_events : e.impl \notin cancelled}
Pending == {Key(e) : e \in Live}
Bounded == \A e \in m_events : Key(e) \in [ts : 0..MaxTs, uid : FirstUid..MaxUid]

RInv == LInv /\ Bounded

LEMMA NextBounded == LInv /\ Bounded /\ [Next]_vars => Bounded'
<1> SUFFICES ASSUME LInv, Bounded, [Next]_vars PROVE Bounded'
  OBVIOUS
<1> USE SimulatorAssumption
<1>1. ASSUME NEW ev, ev \in EventIds, ev.uid = m_uid, InsertEvent(ev) PROVE Bounded'
  <2>1. ev.ts \in 0..MaxTs /\ ev.uid \in FirstUid..MaxUid
    BY <1>1 DEF InsertEvent, EventIds, LInv, IInv, Shapes, TypeOK
  <2> QED BY <1>1, <2>1 DEF Bounded, InsertEvent, Key
<1>2. ASSUME m_events' \subseteq m_events PROVE Bounded'
  BY <1>2 DEF Bounded, Key
<1>3. ASSUME NEW h, NEW c, ProcessOneEvent(h, c) PROVE Bounded'
  BY <1>2, <1>3 DEF ProcessOneEvent
<1>4. m_currentContext \in Contexts \union {NoContext} /\ IInv
  BY DEF LInv, IInv, TypeOK
<1>5. ASSUME NEW d \in Delays, Schedule(d) PROVE Bounded'
  BY <1>1, <1>4, <1>5, NewEventType DEF Schedule
<1>6. ASSUME NEW d \in Delays, StopAt(d) PROVE Bounded'
  BY <1>1, <1>4, <1>6, NewEventType DEF StopAt
<1>7. ASSUME NEW c \in Contexts, NEW d \in Delays, ScheduleWithContext(c, d) PROVE Bounded'
  BY <1>1, <1>4, <1>7, NewEventType DEF ScheduleWithContext
<1>8. CASE ScheduleNow
  BY <1>1, <1>4, <1>8, NewEventType DEF ScheduleNow
<1>9. ASSUME NEW id \in ids, RemoveEvent(id) PROVE Bounded'
  BY <1>2, <1>9 DEF RemoveEvent
<1>10. CASE RunStep \/ RunOneEvent
  BY <1>3, <1>10 DEF RunStep, RunOneEvent
<1>11. ASSUME NEW id \in ids, Cancel(id) \/ RemoveDestroy(id) PROVE Bounded'
  BY <1>2, <1>11 DEF Cancel, RemoveDestroy, events
<1>12. CASE \/ Stop \/ Run \/ RunReturns \/ HandlerReturns \/ Destroy \/ DestroyStep
            \/ DoDispose \/ ScheduleDestroy \/ UNCHANGED vars
  BY <1>2, <1>12 DEF Stop, Run, RunReturns, HandlerReturns, Destroy, DestroyStep, DoDispose,
                     ScheduleDestroy, events, vars
<1>13. ClientCall => Bounded' \/ Stop \/ ScheduleDestroy
  BY <1>5, <1>6, <1>7, <1>8, <1>9, <1>11 DEF ClientCall
<1> QED BY <1>10, <1>12, <1>13 DEF Next

LEMMA SpecRInv == Spec => []RInv
<1>1. Init => LInv /\ Bounded
  BY InitIInv, InitLedger DEF LInv, Init, Bounded
<1> QED BY <1>1, NextLInv, NextBounded, PTL DEF Spec, RInv

(* A newly inserted event is a Post.                                       *)
LEMMA InsertIsPost ==
  ASSUME RInv, NEW ev \in EventIds, ev.impl = m_uid, ev.uid = m_uid,
         ev.ts >= m_currentTs, InsertEvent(ev)
  PROVE  Loop!LoopNext
<1> USE SimulatorAssumption DEF FirstUid, DestroyUid
<1>0. IInv /\ Ledger /\ Bounded
  BY DEF RInv, LInv, InsertEvent, ClientPcs
<1>1. m_uid \in Nat /\ m_uid >= 4 /\ ev.ts \in Nat
  BY <1>0, LedgerFacts
<1>2. Key(ev) \in Loop!Keys /\ Key(ev).ts = ev.ts /\ Key(ev).uid = m_uid
  BY <1>1 DEF InsertEvent, Loop!Keys, Key
<1>3. \A k \in Pending : k.uid < m_uid
  <2>1. \A e \in Live : e.uid < m_uid
    BY <1>0, <1>1 DEF Live, IInv, Shapes, IsOrdinary
  <2> QED BY <2>1 DEF Pending, Key
<1>4. \A u \in ran : u < m_uid
  BY <1>0 DEF Ledger, Executed
<1>5. Pending' = Pending \union {Key(ev)}
  <2>1. m_uid \notin cancelled
    BY <1>0, <1>1 DEF IInv, Shapes, TypeOK
  <2>2. Live' = Live \union {ev}
    BY <2>1 DEF Live, InsertEvent
  <2> QED BY <2>2 DEF Pending
<1>6. Loop!Post(Key(ev))
  BY <1>1, <1>2, <1>3, <1>4, <1>5
  DEF Loop!Post, InsertEvent, current, Pending, Live, Key
<1> QED BY <1>2, <1>6 DEF Loop!LoopNext

(* Removing or cancelling a live event withdraws its key and no other.     *)
LEMMA WithdrawLive ==
  ASSUME RInv, NEW id \in m_events, id.impl \notin cancelled,
         Live' = Live \ {id}, UNCHANGED <<m_currentTs, ran>>
  PROVE  Loop!LoopNext
<1> USE DEF FirstUid, DestroyUid
<1>1. Key(id) \in Pending /\ Key(id) \in Loop!Keys
  BY DEF Pending, Live, RInv, Bounded, Loop!Keys
<1>2. \A e \in Live : Key(e) = Key(id) => e = id
  BY DEF RInv, LInv, IInv, SameImplSameEvent, Shapes, IsOrdinary, Live, Key
<1>3. Pending' = Pending \ {Key(id)}
  BY <1>2 DEF Pending
<1>4. Loop!Withdraw(Key(id))
  BY <1>1, <1>3 DEF Loop!Withdraw, Pending, Live, Key
<1> QED BY <1>1, <1>4 DEF Loop!LoopNext

LEMMA ProcessIsExecute ==
  ASSUME RInv, pc # "destroyed", NEW handler, NEW caller, ProcessOneEvent(handler, caller)
  PROVE  Loop!LoopNext
<1> USE SimulatorAssumption DEF FirstUid, DestroyUid
<1>0. PICK next \in m_events :
        /\ IsNext(next)
        /\ m_events' = m_events \ {next}
        /\ m_currentTs' = next.ts
        /\ ran' = IF next.impl \notin cancelled THEN ran \union {next.impl} ELSE ran
        /\ cancelled' = cancelled
  BY DEF ProcessOneEvent
<1>1. /\ Key(next) \in Loop!Keys /\ Key(next).ts = next.ts /\ Key(next).uid = next.uid
      /\ next.uid = next.impl
      /\ next.ts \in 0..MaxTs
  BY DEF RInv, LInv, IInv, Shapes, IsOrdinary, Bounded, Loop!Keys, Key
<1>2. m_currentTs <= next.ts
  BY <1>0 DEF RInv, LInv, IInv, QueueIsAhead, Before, Now, TypeOK, EventIds
<1>3. \A e \in m_events \ {next} : Before(next, e)
  BY <1>0 DEF IsNext
<1>4. \A e \in Live : Key(e) = Key(next) => e = next
  BY DEF RInv, LInv, IInv, SameImplSameEvent, Shapes, IsOrdinary, Live, Key
<1>a. CASE next.impl \in cancelled
  <2>1. Live' = Live
    BY <1>0, <1>a DEF Live
  <2>2. \A k \in Pending : next.ts <= k.ts
    BY <1>0, <1>3, <1>a DEF Pending, Live, Key, Before, RInv, LInv, IInv, TypeOK, EventIds
  <2>3. Loop!Pass(next.ts)
    BY <1>0, <1>2, <1>a, <2>1, <2>2 DEF Loop!Pass, Pending, Live, Key
  <2> QED BY <1>1, <2>3 DEF Loop!LoopNext
<1>b. CASE next.impl \notin cancelled
  <2>1. Live' = Live \ {next} /\ next \in Live
    BY <1>0, <1>b DEF Live
  <2>2. Pending' = Pending \ {Key(next)} /\ Key(next) \in Pending
    BY <1>4, <2>1 DEF Pending
  <2>3. \A k \in Pending \ {Key(next)} : Loop!Earlier(Key(next), k)
    BY <1>3 DEF Pending, Live, Key, Before, Loop!Earlier
  <2>4. Loop!Execute(Key(next))
    BY <1>0, <1>1, <1>2, <1>b, <2>2, <2>3 DEF Loop!Execute, Pending, Live, Key
  <2> QED BY <1>1, <2>4 DEF Loop!LoopNext
<1> QED BY <1>a, <1>b

LEMMA StepRefines == RInv /\ [Next]_vars => [Loop!LoopNext]_(Loop!loopVars)
<1> SUFFICES ASSUME RInv, [Next]_vars
             PROVE  Loop!LoopNext \/ UNCHANGED Loop!loopVars
  OBVIOUS
<1> USE SimulatorAssumption DEF FirstUid, DestroyUid
<1>0. IInv /\ m_currentContext \in Contexts \union {NoContext}
  BY DEF RInv, LInv, IInv, TypeOK
<1>1. ASSUME NEW d \in Delays, Schedule(d) \/ StopAt(d) PROVE Loop!LoopNext
  BY <1>0, <1>1, NewEventType, InsertIsPost DEF Schedule, StopAt
<1>2. ASSUME NEW c \in Contexts, NEW d \in Delays, ScheduleWithContext(c, d)
      PROVE  Loop!LoopNext
  BY <1>0, <1>2, NewEventType, InsertIsPost DEF ScheduleWithContext
<1>3. CASE ScheduleNow
  BY <1>0, <1>3, NewEventType, InsertIsPost DEF ScheduleNow
<1>4. ASSUME UNCHANGED <<m_events, cancelled, m_currentTs, ran>>
      PROVE  UNCHANGED Loop!loopVars
  BY <1>4 DEF Loop!loopVars
<1>5. ASSUME NEW id \in ids, Cancel(id) PROVE Loop!LoopNext \/ UNCHANGED Loop!loopVars
  <2>0. UNCHANGED <<m_events, m_currentTs, ran>> /\ pc # "destroyed"
    BY <1>5 DEF Cancel, events, current, ClientPcs
  <2>1. CASE IsExpired(id)
    BY <1>4, <1>5, <2>0, <2>1 DEF Cancel
  <2>2. CASE ~IsExpired(id) /\ id.uid # DestroyUid
    <3>1. id \in m_events
      BY <1>0, <2>0, <2>2 DEF IInv, LiveIsQueued
    <3>2. id.impl \notin cancelled
      BY <2>2 DEF IsExpired
    <3>3. \A e \in m_events : e.impl = id.impl => e = id
      BY <1>0, <3>1 DEF IInv, SameImplSameEvent
    <3>4. Live' = Live \ {id}
      BY <1>5, <2>0, <2>2, <3>3 DEF Cancel, Live
    <3> QED BY <2>0, <3>1, <3>2, <3>4, WithdrawLive
  <2>3. CASE ~IsExpired(id) /\ id.uid = DestroyUid
    <3>1. \A e \in m_events : e.impl # id.impl
      BY <1>0, <2>3 DEF IInv, SameImplSameEvent, Shapes, IsOrdinary
    <3>2. Live' = Live
      BY <1>5, <2>0, <2>3, <3>1 DEF Cancel, Live
    <3> QED BY <2>0, <3>2 DEF Loop!loopVars, Live
  <2> QED BY <2>1, <2>2, <2>3
<1>6. ASSUME NEW id \in ids, RemoveEvent(id)
      PROVE  Loop!LoopNext \/ UNCHANGED Loop!loopVars
  <2>0. UNCHANGED <<m_currentTs, ran>> /\ pc # "destroyed" /\ id.uid # DestroyUid
    BY <1>6 DEF RemoveEvent, current, ClientPcs
  <2>1. CASE IsExpired(id)
    BY <1>4, <1>6, <2>0, <2>1 DEF RemoveEvent
  <2>2. CASE ~IsExpired(id)
    <3>1. id \in m_events
      BY <1>0, <2>0, <2>2 DEF IInv, LiveIsQueued
    <3>2. id.impl \notin cancelled
      BY <2>0, <2>2 DEF IsExpired
    <3>3. \A e \in m_events : e.impl = id.impl => e = id
      BY <1>0, <3>1 DEF IInv, SameImplSameEvent
    <3>4. Live' = Live \ {id}
      BY <1>6, <2>2, <3>3 DEF RemoveEvent, Live
    <3> QED BY <2>0, <3>1, <3>2, <3>4, WithdrawLive
  <2> QED BY <2>1, <2>2
<1>7. CASE RunStep \/ RunOneEvent
  BY <1>7, ProcessIsExecute DEF RunStep, RunOneEvent
<1>8. CASE DoDispose
  <2>1. Pending' = {} /\ UNCHANGED <<m_currentTs, ran>>
    BY <1>8 DEF DoDispose, Pending, Live, current, history
  <2>2. Loop!Discard
    BY <2>1 DEF Loop!Discard, Pending, Live, Key
  <2> QED BY <2>2 DEF Loop!LoopNext
<1>9. ASSUME NEW id \in ids, RemoveDestroy(id) PROVE UNCHANGED Loop!loopVars
  BY <1>4, <1>9 DEF RemoveDestroy, current
<1>10. CASE \/ Stop \/ Run \/ RunReturns \/ HandlerReturns \/ Destroy \/ DestroyStep
            \/ ScheduleDestroy \/ UNCHANGED vars
  BY <1>4, <1>10 DEF Stop, Run, RunReturns, HandlerReturns, Destroy, DestroyStep,
                     ScheduleDestroy, events, current, history, vars
<1>11. ClientCall => Loop!LoopNext \/ UNCHANGED Loop!loopVars \/ Stop \/ ScheduleDestroy
  BY <1>1, <1>2, <1>3, <1>5, <1>6, <1>9 DEF ClientCall
<1> QED BY <1>7, <1>8, <1>10, <1>11 DEF Next

(* DefaultSimulatorImpl implements EventLoop.                              *)
THEOREM Refinement == Spec => ImplementsEventLoop
<1>1. Init => Loop!LoopInit
  BY DEF Init, Loop!LoopInit
<1> QED BY <1>1, SpecRInv, StepRefines, PTL DEF Spec, ImplementsEventLoop, Loop!LoopSpec
=============================================================================
