----------------------------- MODULE Simulator -----------------------------
(***************************************************************************)
(* ns3::DefaultSimulatorImpl: the event executive every simulation runs    *)
(* on.  The client program (the script and the event handlers) may call    *)
(* any operation of ns3::Simulator whenever it has control: outside Run,   *)
(* inside an event, inside a destroy event.  Scheduler::RemoveNext is      *)
(* taken at its word here (it returns the least key); the module           *)
(* HeapScheduler and its siblings look at the implementations.             *)
(***************************************************************************)
EXTENDS Integers, Sequences, FiniteSets, SequencesExt

CONSTANTS
  Contexts,     \* the node identifiers an event may execute in
  NoContext,    \* 0xffffffff
  Delays,       \* the delays the client schedules with
  MaxTs,        \* bound: the client schedules nothing later than this
  MaxUid        \* bound: m_uid stops here, far from the 32-bit wrap

ASSUME SimulatorAssumption ==
  /\ Delays \subseteq Nat
  /\ MaxTs \in Nat
  /\ MaxUid \in Nat

VARIABLES
  m_events,            \* the event list: a set of events, ordered by their key
  m_destroyEvents,     \* the ids of the destroy events, in FIFO order
  m_uid,               \* the next uid
  m_currentUid,
  m_currentTs,
  m_currentContext,
  m_unscheduledEvents, \* events inserted and neither taken nor removed
  m_stop,
  cancelled,           \* the EventImpls whose m_cancel is set
  pc,                  \* who has control, see Pcs
  stoppers,            \* the EventImpls made by Stop (time)
  ids,                 \* history: every EventId given to the client
  ran,                 \* history: the EventImpls invoked by ProcessOneEvent
  ranDestroy,          \* history: the EventImpls invoked by Destroy
  withdrawn            \* history: EventImpls cancelled or removed before they ran

events == <<m_events, m_destroyEvents, m_uid, m_unscheduledEvents>>
current == <<m_currentUid, m_currentTs, m_currentContext>>
history == <<ids, ran, ranDestroy, withdrawn>>
vars == <<m_events, m_destroyEvents, m_uid, m_currentUid, m_currentTs,
          m_currentContext, m_unscheduledEvents, m_stop, cancelled, pc,
          stoppers, ids, ran, ranDestroy, withdrawn>>

(* EventId and Scheduler::Event: an EventImpl and its key.  An EventImpl is *)
(* named by the value of m_uid when it was handed to the simulator, so that *)
(* destroy events, which all have uid 2, are told apart as their pointers   *)
(* tell them apart.                                                         *)
DestroyUid == 2
FirstUid == 4
EventIds == [impl : Nat, ts : Nat, uid : Nat, context : Contexts \union {NoContext}]
NullId == [impl |-> 0, ts |-> 0, uid |-> 0, context |-> NoContext]

Before(a, b) == a.ts < b.ts \/ (a.ts = b.ts /\ a.uid < b.uid)

(* Client code runs in ClientPcs; the others are the simulator's loops.    *)
ClientPcs == {"script", "event", "single", "destroyEvent"}
Pcs == ClientPcs \union {"run", "destroy", "destroyed"}

-----------------------------------------------------------------------------

Init ==
  /\ m_events = {}
  /\ m_destroyEvents = <<>>
  /\ m_uid = FirstUid
  /\ m_currentUid = 0
  /\ m_currentTs = 0
  /\ m_currentContext = NoContext
  /\ m_unscheduledEvents = 0
  /\ m_stop = FALSE
  /\ cancelled = {}
  /\ pc = "script"
  /\ stoppers = {}
  /\ ids = {NullId}
  /\ ran = {}
  /\ ranDestroy = {}
  /\ withdrawn = {}

(* Wrong variants: the running event does not count as expired; the uid is *)
(* not compared at all.                                                    *)
IsExpiredLate(id) ==
  IF id.uid = DestroyUid
  THEN id.impl \in cancelled \/ id \notin Range(m_destroyEvents)
  ELSE \/ id.impl = 0
       \/ id.ts < m_currentTs
       \/ id.ts = m_currentTs /\ id.uid < m_currentUid
       \/ id.impl \in cancelled

IsExpiredByTime(id) ==
  IF id.uid = DestroyUid
  THEN id.impl \in cancelled \/ id \notin Range(m_destroyEvents)
  ELSE id.impl = 0 \/ id.ts <= m_currentTs \/ id.impl \in cancelled

IsExpired(id) ==
  IF id.uid = DestroyUid
  THEN id.impl \in cancelled \/ id \notin Range(m_destroyEvents)
  ELSE \/ id.impl = 0
       \/ id.ts < m_currentTs
       \/ id.ts = m_currentTs /\ id.uid <= m_currentUid
       \/ id.impl \in cancelled

(* Wrong variant: the delay is taken for an absolute time.                 *)
NewEventAbsolute(delay, context) ==
  [impl |-> m_uid, ts |-> delay, uid |-> m_uid, context |-> context]

NewEvent(delay, context) ==
  [impl |-> m_uid, ts |-> m_currentTs + delay, uid |-> m_uid, context |-> context]

(* The part the three Schedule calls share: fill in the key, count, insert. *)
InsertEvent(ev) ==
  /\ pc \in ClientPcs
  /\ m_uid < MaxUid
  /\ ev.ts <= MaxTs
  /\ m_events' = m_events \union {ev}
  /\ m_uid' = m_uid + 1
  /\ m_unscheduledEvents' = m_unscheduledEvents + 1
  /\ UNCHANGED <<m_destroyEvents, current, m_stop, cancelled, pc, ran, ranDestroy,
                 withdrawn>>

Schedule(delay) ==
  LET ev == NewEvent(delay, m_currentContext) IN
  /\ InsertEvent(ev)
  /\ ids' = ids \union {ev}
  /\ UNCHANGED stoppers

(* Used across nodes and ranks; the caller gets no EventId.                *)
ScheduleWithContext(context, delay) ==
  /\ InsertEvent(NewEvent(delay, context))
  /\ UNCHANGED <<ids, stoppers>>

ScheduleNow ==
  LET ev == NewEvent(0, m_currentContext) IN
  /\ InsertEvent(ev)
  /\ ids' = ids \union {ev}
  /\ UNCHANGED stoppers

(* Stop (time) schedules an event whose handler is Stop.                   *)
StopAt(delay) ==
  /\ InsertEvent(NewEvent(delay, m_currentContext))
  /\ stoppers' = stoppers \union {m_uid}
  /\ UNCHANGED ids

(* Wrong variant: a destroy event is pushed at the front.                  *)
ScheduleDestroyFront ==
  LET id == [impl |-> m_uid, ts |-> m_currentTs,
             uid |-> DestroyUid, context |-> NoContext] IN
  /\ pc \in ClientPcs
  /\ m_uid < MaxUid
  /\ m_destroyEvents' = <<id>> \o m_destroyEvents
  /\ m_uid' = m_uid + 1
  /\ ids' = ids \union {id}
  /\ UNCHANGED <<m_events, m_unscheduledEvents, current, m_stop, cancelled, pc,
                 stoppers, ran, ranDestroy, withdrawn>>

ScheduleDestroy ==
  LET id == [impl |-> m_uid, ts |-> m_currentTs,
             uid |-> DestroyUid, context |-> NoContext] IN
  /\ pc \in ClientPcs
  /\ m_uid < MaxUid
  /\ m_destroyEvents' = Append(m_destroyEvents, id)
  /\ m_uid' = m_uid + 1
  /\ ids' = ids \union {id}
  /\ UNCHANGED <<m_events, m_unscheduledEvents, current, m_stop, cancelled, pc,
                 stoppers, ran, ranDestroy, withdrawn>>

(* What the client means by Cancel and Remove: an event that has not run   *)
(* is not to run.                                                          *)
Retract(id) == withdrawn' = withdrawn \union ({id.impl} \ (ran \union ranDestroy))

Cancel(id) ==
  /\ pc \in ClientPcs
  /\ cancelled' = IF IsExpired(id) THEN cancelled ELSE cancelled \union {id.impl}
  /\ Retract(id)
  /\ UNCHANGED <<events, current, m_stop, pc, stoppers, ids, ran, ranDestroy>>

(* Remove of a destroy event erases it and leaves m_cancel alone.          *)
RemoveDestroy(id) ==
  /\ pc \in ClientPcs
  /\ id.uid = DestroyUid
  /\ m_destroyEvents' =
       IF id \in Range(m_destroyEvents)
       THEN RemoveAt(m_destroyEvents,
                     CHOOSE i \in DOMAIN m_destroyEvents : m_destroyEvents[i] = id)
       ELSE m_destroyEvents
  /\ Retract(id)
  /\ UNCHANGED <<m_events, m_uid, m_unscheduledEvents, current, m_stop, cancelled,
                 pc, stoppers, ids, ran, ranDestroy>>

(* Wrong variants: the early return for an expired id is missing; the      *)
(* count is not maintained.                                                *)
RemoveEventUnguarded(id) ==
  /\ pc \in ClientPcs
  /\ id.uid # DestroyUid
  /\ m_events' = m_events \ {id}
  /\ cancelled' = cancelled \union {id.impl}
  /\ m_unscheduledEvents' = m_unscheduledEvents - 1
  /\ Retract(id)
  /\ UNCHANGED <<m_destroyEvents, m_uid, current, m_stop, pc, stoppers, ids, ran, ranDestroy>>

RemoveEventUncounted(id) ==
  /\ pc \in ClientPcs
  /\ id.uid # DestroyUid
  /\ IF IsExpired(id)
     THEN UNCHANGED <<m_events, cancelled>>
     ELSE /\ m_events' = m_events \ {id}
          /\ cancelled' = cancelled \union {id.impl}
  /\ Retract(id)
  /\ UNCHANGED <<m_destroyEvents, m_uid, m_unscheduledEvents, current, m_stop, pc,
                 stoppers, ids, ran, ranDestroy>>

RemoveEvent(id) ==
  /\ pc \in ClientPcs
  /\ id.uid # DestroyUid
  /\ IF IsExpired(id)
     THEN UNCHANGED <<m_events, m_unscheduledEvents, cancelled>>
     ELSE /\ m_events' = m_events \ {id}
          /\ cancelled' = cancelled \union {id.impl}
          /\ m_unscheduledEvents' = m_unscheduledEvents - 1
  /\ Retract(id)
  /\ UNCHANGED <<m_destroyEvents, m_uid, current, m_stop, pc, stoppers, ids, ran, ranDestroy>>

Stop ==
  /\ pc \in ClientPcs
  /\ m_stop' = TRUE
  /\ UNCHANGED <<events, current, cancelled, pc, stoppers, history>>

-----------------------------------------------------------------------------

IsNext(ev) == ev \in m_events /\ \A e \in m_events \ {ev} : Before(ev, e)

(* Wrong variant: the handler is called without a look at m_cancel.        *)
ProcessOneEventUnchecked(handler, caller) ==
  \E next \in m_events :
    /\ IsNext(next)
    /\ m_events' = m_events \ {next}
    /\ m_unscheduledEvents' = m_unscheduledEvents - 1
    /\ m_currentTs' = next.ts
    /\ m_currentContext' = next.context
    /\ m_currentUid' = next.uid
    /\ ran' = ran \union {next.impl}
    /\ m_stop' = (m_stop \/ next.impl \in stoppers)
    /\ pc' = IF next.impl \in stoppers THEN caller ELSE handler
    /\ UNCHANGED <<m_destroyEvents, m_uid, cancelled, stoppers, ids,
                   ranDestroy, withdrawn>>

(* ProcessOneEvent up to the point where the handler has control (it then  *)
(* is "event" or "single"), or is already back in the caller: Invoke does  *)
(* nothing for a cancelled event, and the handler of a Stop (time) event   *)
(* is Stop.                                                                *)
ProcessOneEvent(handler, caller) ==
  \E next \in m_events :
    /\ IsNext(next)
    /\ m_events' = m_events \ {next}
    /\ m_unscheduledEvents' = m_unscheduledEvents - 1
    /\ m_currentTs' = next.ts
    /\ m_currentContext' = next.context
    /\ m_currentUid' = next.uid
    /\ LET invoked == next.impl \notin cancelled
           stops == invoked /\ next.impl \in stoppers IN
       /\ ran' = IF invoked THEN ran \union {next.impl} ELSE ran
       /\ m_stop' = (m_stop \/ stops)
       /\ pc' = IF invoked /\ ~stops THEN handler ELSE caller
    /\ UNCHANGED <<m_destroyEvents, m_uid, cancelled, stoppers, ids,
                   ranDestroy, withdrawn>>

(* Wrong variant: the last event in the list is left there.                *)
IsFinishedEarly == Cardinality(m_events) <= 1 \/ m_stop

IsFinished == m_events = {} \/ m_stop

Run ==
  /\ pc = "script"
  /\ m_stop' = FALSE
  /\ pc' = "run"
  /\ UNCHANGED <<events, current, cancelled, stoppers, history>>

RunStep ==
  /\ pc = "run"
  /\ ~IsFinished
  /\ ProcessOneEvent("event", "run")

RunReturns ==
  /\ pc = "run"
  /\ IsFinished
  /\ pc' = "script"
  /\ UNCHANGED <<events, current, m_stop, cancelled, stoppers, history>>

(* The client calls it only when there is an event to run.                 *)
RunOneEvent ==
  /\ pc = "script"
  /\ ProcessOneEvent("single", "script")

HandlerReturns ==
  /\ pc \in {"event", "single", "destroyEvent"}
  /\ pc' = CASE pc = "event" -> "run"
             [] pc = "single" -> "script"
             [] OTHER -> "destroy"
  /\ UNCHANGED <<events, current, m_stop, cancelled, stoppers, history>>

Destroy ==
  /\ pc = "script"
  /\ pc' = "destroy"
  /\ UNCHANGED <<events, current, m_stop, cancelled, stoppers, history>>

(* A destroy event is popped first and invoked second: its handler finds   *)
(* its own id expired.                                                     *)
DestroyStep ==
  /\ pc = "destroy"
  /\ m_destroyEvents # <<>>
  /\ m_destroyEvents' = Tail(m_destroyEvents)
  /\ LET ev == Head(m_destroyEvents) IN
     IF ev.impl \in cancelled
     THEN UNCHANGED <<pc, ranDestroy>>
     ELSE /\ pc' = "destroyEvent"
          /\ ranDestroy' = ranDestroy \union {ev.impl}
  /\ UNCHANGED <<m_events, m_uid, m_unscheduledEvents, current, m_stop, cancelled,
                 stoppers, ids, ran, withdrawn>>

(* Simulator::Destroy drops the implementation, whose DoDispose empties    *)
(* the event list and runs nothing.                                        *)
DoDispose ==
  /\ pc = "destroy"
  /\ m_destroyEvents = <<>>
  /\ m_events' = {}
  /\ pc' = "destroyed"
  /\ UNCHANGED <<m_destroyEvents, m_uid, m_unscheduledEvents, current, m_stop,
                 cancelled, stoppers, history>>

-----------------------------------------------------------------------------

ClientCall ==
  \/ \E d \in Delays : Schedule(d)
  \/ \E d \in Delays : StopAt(d)
  \/ \E c \in Contexts, d \in Delays : ScheduleWithContext(c, d)
  \/ ScheduleNow
  \/ ScheduleDestroy
  \/ \E id \in ids : Cancel(id)
  \/ \E id \in ids : RemoveDestroy(id)
  \/ \E id \in ids : RemoveEvent(id)
  \/ Stop

Next ==
  \/ ClientCall
  \/ Run
  \/ RunStep
  \/ RunReturns
  \/ RunOneEvent
  \/ HandlerReturns
  \/ Destroy
  \/ DestroyStep
  \/ DoDispose

(* Run and Destroy are loops of one thread and do not pause; a handler     *)
(* returns.  Nothing obliges the client to call anything.                  *)
Fairness ==
  /\ WF_vars(RunStep)
  /\ WF_vars(RunReturns)
  /\ WF_vars(HandlerReturns)
  /\ WF_vars(DestroyStep)
  /\ WF_vars(DoDispose)

Spec == Init /\ [][Next]_vars /\ Fairness

-----------------------------------------------------------------------------

TypeOK ==
  /\ m_events \subseteq EventIds
  /\ m_destroyEvents \in Seq(EventIds)
  /\ m_uid \in Nat
  /\ m_currentUid \in Nat
  /\ m_currentTs \in Nat
  /\ m_currentContext \in Contexts \union {NoContext}
  /\ m_unscheduledEvents \in Nat
  /\ m_stop \in BOOLEAN
  /\ cancelled \subseteq Nat
  /\ pc \in Pcs
  /\ stoppers \subseteq Nat
  /\ ids \subseteq EventIds
  /\ ran \subseteq Nat
  /\ ranDestroy \subseteq Nat
  /\ withdrawn \subseteq Nat

Now == [ts |-> m_currentTs, uid |-> m_currentUid]
QueuedImpls == {e.impl : e \in m_events}
QueuedDestroy == {e.impl : e \in Range(m_destroyEvents)}

(* Everything still in the event list is behind the event being executed   *)
(* in (time, uid): what NS_ASSERT (next.key.m_ts >= m_currentTs) of        *)
(* ProcessOneEvent checks of one event, and what IsExpired relies on.      *)
QueueIsAhead == \A e \in m_events : Before(Now, e)

(* m_unscheduledEvents counts the event list, through Cancel, Remove and   *)
(* any interleaving of client calls: the "consistency test to check that   *)
(* we didn't lose any events" at the end of Run.                           *)
UnscheduledIsQueueSize ==
  pc # "destroyed" => m_unscheduledEvents = Cardinality(m_events)

(* IsExpired compares keys; the client reads it as "has run, is running or *)
(* was cancelled or removed".  For every id ever handed out the two agree, *)
(* so an id that outlives its event is harmless.  That includes the ids of *)
(* destroy events, against simulator.h:696-699, which calls testing one    *)
(* for expiration impossible and "a program error (crash)": IsExpired has  *)
(* a branch for them (default-simulator-impl.cc:307-320), and              *)
(* simulator-test-suite.cc:149-170 tests it.                               *)
ExpiredIsExact ==
  pc # "destroyed" =>
    \A id \in ids : IsExpired(id) <=>
      \/ id.impl \notin QueuedImpls \union QueuedDestroy
      \/ id.impl \in withdrawn

(* Nothing is lost and nothing runs twice: each event ever handed to the   *)
(* simulator is exactly one of executed, withdrawn by the client before it *)
(* could run, or still waiting.  Destroy events can be withdrawn too: the  *)
(* code of Remove and Cancel and its tests support it, although            *)
(* simulator.h:674-676 and 688-689 call it a program error (crash).        *)
NothingLost ==
  pc # "destroyed" =>
    \A i \in FirstUid..(m_uid - 1) :
      LET executed == i \in ran \union ranDestroy
          retracted == i \in withdrawn
          waiting == i \in (QueuedImpls \union QueuedDestroy) \ cancelled
      IN /\ executed \/ retracted \/ waiting
         /\ ~(executed /\ retracted)
         /\ ~(executed /\ waiting)
         /\ ~(retracted /\ waiting)

(* Destroy events run first in, first out (simulator.h: "scheduled FIFO"), *)
(* also those that another destroy event schedules, and when others have   *)
(* been removed or cancelled in between (see NothingLost).                 *)
DestroyIsFifo ==
  \A a, b \in ids :
    (a.uid = DestroyUid /\ b.uid = DestroyUid /\ a.impl < b.impl
       /\ b.impl \in ranDestroy)
      => a.impl \in ranDestroy \union withdrawn

(* Each event the executive takes is later than the last one it took: time *)
(* never goes back, and events of one instant run in the order of their    *)
(* Schedule calls.                                                         *)
ExecutionOrder ==
  [][current' # current => Before(Now, Now')]_vars

(* The loop serves every event: an event that is in the list while Run     *)
(* loops is taken (or removed), unless Stop ends the loop before it.  The  *)
(* client of this model schedules finitely many events (MaxUid): an event  *)
(* that calls ScheduleNow for ever would starve the rest.                  *)
EventuallyServed ==
  \A i \in FirstUid..MaxUid :
    (pc = "run" /\ i \in QueuedImpls) ~> (m_stop \/ i \notin QueuedImpls)

(* The executive implements EventLoop: its live events are the pending     *)
(* ones, and a cancelled event is time that passes.                        *)
Loop == INSTANCE EventLoop WITH
  Times <- 0..MaxTs,
  Uids <- FirstUid..MaxUid,
  now <- m_currentTs,
  pending <- {[ts |-> e.ts, uid |-> e.uid] :
                e \in {x \in m_events : x.impl \notin cancelled}},
  done <- ran
ImplementsEventLoop == Loop!LoopSpec
=============================================================================
