---------------------------- MODULE RealtimeSim ----------------------------
(***************************************************************************)
(* The realtime executive: RealtimeSimulatorImpl paces the event list with *)
(* the wall clock through WallClockSynchronizer and SystemCondition, while *)
(* other threads (the read threads of emu and tap devices, the threads of  *)
(* main-test-sync.cc) schedule into it.                                    *)
(*                                                                         *)
(* A critical section of RealtimeSimulatorImpl::m_mutex is one step, save  *)
(* that a thread which posts an event keeps the mutex while it takes the   *)
(* condition's own mutex to signal.  The simulation thread's wait is taken *)
(* apart at every read of the clock and of the condition.                  *)
(*                                                                         *)
(* Time is in clock units: simulation time and wall clock advance by the   *)
(* same unit, of which gettimeofday's microsecond is one.                  *)
(***************************************************************************)
EXTENDS Integers, FiniteSets

CONSTANTS
    Threads,        \* the threads that post events, beside the simulation thread
    Free,           \* nobody holds m_mutex
    Delays,         \* the delays passed to the Schedule methods
    Epoch,          \* the wall clock when the program starts
    Jiffy,          \* m_jiffy, the resolution of a sleep
    Second,         \* NS_PER_SEC: clock units in a second
    HardLimit,      \* m_hardLimit
    MaxUid,         \* bound: uids given out
    MaxRuns,        \* bound: calls of Run
    Horizon         \* bound: the clock passes it only to end a wait

ASSUME RealtimeAssumption ==
    /\ Free \notin Threads
    /\ Delays \subseteq Nat
    /\ Epoch \in Nat
    /\ Jiffy \in Nat \ {0}
    /\ Second \in Nat \ {0}
    /\ {HardLimit, MaxUid, MaxRuns, Horizon} \subseteq Nat

VARIABLES
    wall,                   \* what gettimeofday returns
    m_realtimeOriginNano,
    m_events, m_uid, m_currentTs, m_currentUid, m_unscheduledEvents,
    m_stop, m_running, m_synchronizationMode,
    m_mutex,                \* the thread inside a posting critical section
    m_condition, woken,     \* SystemCondition: its boolean, a signal on its way
    pc,                     \* where the simulation thread is
    target,                 \* nsCurrent + nsDelay: the wall clock to wait for
    ns, deadline,           \* TimedWait: its argument, and ts in clock units
    badTime,                \* ts.tv_nsec of TimedWait is one whole second
    runs                    \* calls of Run so far

list == <<m_events, m_uid, m_currentTs, m_currentUid, m_unscheduledEvents>>
flags == <<m_stop, m_running, m_synchronizationMode>>
waiting == <<target, ns, deadline, badTime>>
vars == <<wall, m_realtimeOriginNano, list, flags, m_mutex, m_condition, woken,
          pc, waiting, runs>>

Places == {"script", "origin", "loop", "plan", "correct", "sleep", "test",
           "wait", "blocked", "drift", "spin", "take", "handler", "aborted"}

Uids == 4 .. MaxUid

Realtime == wall - m_realtimeOriginNano

(* The constructor of Synchronizer sets the origin to 0 (synchronizer.cc:35). *)
Init ==
    /\ wall = Epoch
    /\ m_realtimeOriginNano = 0
    /\ m_events = {} /\ m_uid = 4 /\ m_unscheduledEvents = 0
    /\ m_currentTs = 0 /\ m_currentUid = 0
    /\ m_stop = FALSE /\ m_running = FALSE
    /\ m_synchronizationMode \in {"BEST_EFFORT", "HARD_LIMIT"}
    /\ m_mutex = Free
    /\ m_condition = FALSE /\ woken = FALSE
    /\ pc = "script"
    /\ target = 0 /\ ns = 0 /\ deadline = 0 /\ badTime = FALSE
    /\ runs = 0

(***************************************************************************)
(* Posting an event                                                        *)
(***************************************************************************)
\* Wrong variant: the condition is signalled, but not set
PostUnannounced(ts) ==
    /\ m_mutex = Free
    /\ m_uid <= MaxUid
    /\ m_events' = m_events \cup {[ts |-> ts, uid |-> m_uid]}
    /\ m_uid' = m_uid + 1
    /\ m_unscheduledEvents' = m_unscheduledEvents + 1
    /\ UNCHANGED <<m_condition, m_currentTs, m_currentUid>>

\* The body every Schedule method has inside its critical section, up to Signal
Post(ts) ==
    /\ m_mutex = Free
    /\ m_uid <= MaxUid
    /\ m_events' = m_events \cup {[ts |-> ts, uid |-> m_uid]}
    /\ m_uid' = m_uid + 1
    /\ m_unscheduledEvents' = m_unscheduledEvents + 1
    /\ m_condition' = TRUE
    /\ UNCHANGED <<m_currentTs, m_currentUid>>

\* Wrong variant: the delay is taken for an absolute time
SimulationTimesAbsolute == Delays

\* Schedule, ScheduleNow and ScheduleWithContext count from the last event
SimulationTimes == {m_currentTs + d : d \in Delays}

\* ScheduleRealtime and ScheduleRealtimeWithContext count from the clock
RealTimes == {Realtime + d : d \in Delays}

\* ScheduleRealtimeNow and ScheduleRealtimeNowWithContext
RealtimeNow == IF m_running THEN Realtime ELSE m_currentTs

PostTimes == SimulationTimes \cup RealTimes \cup {RealtimeNow}

\* A thread posts; it still has to signal, holding m_mutex
ThreadPosts(t) ==
    /\ pc # "aborted"
    /\ \E ts \in PostTimes : Post(ts)
    /\ m_mutex' = t
    /\ UNCHANGED <<wall, m_realtimeOriginNano, flags, woken, pc, waiting, runs>>

\* The simulation thread holds the condition's mutex inside TimedWait, except
\* while it is blocked
ConditionMutexFree == pc \notin {"test", "wait"}

\* SystemCondition::Signal, and the end of the critical section
ThreadSignals(t) ==
    /\ pc # "aborted"
    /\ m_mutex = t
    /\ ConditionMutexFree
    /\ woken' = (woken \/ pc = "blocked")
    /\ m_mutex' = Free
    /\ UNCHANGED <<wall, m_realtimeOriginNano, list, flags, m_condition, pc, waiting, runs>>

(***************************************************************************)
(* The simulation thread: the script and the handlers                      *)
(***************************************************************************)
InClientCode == pc \in {"script", "handler"}

\* The simulation thread posts: nobody waits, so its signal wakes nobody
Schedule ==
    /\ InClientCode
    /\ \E ts \in PostTimes : Post(ts)
    /\ UNCHANGED <<wall, m_realtimeOriginNano, flags, m_mutex, woken, pc, waiting, runs>>

IsExpired(e) ==
    e.ts < m_currentTs \/ (e.ts = m_currentTs /\ e.uid <= m_currentUid)

\* Wrong variant: the removed event stays in the count
RemoveUncounted(e) ==
    /\ InClientCode
    /\ m_mutex = Free
    /\ ~IsExpired(e)
    /\ m_events' = m_events \ {e}
    /\ UNCHANGED <<m_unscheduledEvents, wall, m_realtimeOriginNano, m_uid, m_currentTs, m_currentUid, flags,
                   m_mutex, m_condition, woken, pc, waiting, runs>>

Remove(e) ==
    /\ InClientCode
    /\ m_mutex = Free
    /\ ~IsExpired(e)
    /\ m_events' = m_events \ {e}
    /\ m_unscheduledEvents' = m_unscheduledEvents - 1
    /\ UNCHANGED <<wall, m_realtimeOriginNano, m_uid, m_currentTs, m_currentUid, flags,
                   m_mutex, m_condition, woken, pc, waiting, runs>>

Stop ==
    /\ pc = "handler"
    /\ m_stop' = TRUE
    /\ UNCHANGED <<wall, m_realtimeOriginNano, list, m_running, m_synchronizationMode,
                   m_mutex, m_condition, woken, pc, waiting, runs>>

HandlerReturns ==
    /\ pc = "handler"
    /\ pc' = "loop"
    /\ UNCHANGED <<wall, m_realtimeOriginNano, list, flags, m_mutex, m_condition, woken,
                   waiting, runs>>

(***************************************************************************)
(* Run                                                                     *)
(***************************************************************************)
Run ==
    /\ pc = "script"
    /\ runs < MaxRuns
    /\ runs' = runs + 1
    /\ m_stop' = FALSE
    /\ m_running' = TRUE
    /\ pc' = "origin"
    /\ UNCHANGED <<wall, m_realtimeOriginNano, list, m_synchronizationMode, m_mutex,
                   m_condition, woken, waiting>>

\* m_synchronizer->SetOrigin (m_currentTs), which forgets its argument
SetOrigin ==
    /\ pc = "origin"
    /\ m_realtimeOriginNano' = wall
    /\ pc' = "loop"
    /\ UNCHANGED <<wall, list, flags, m_mutex, m_condition, woken, waiting, runs>>

Loop ==
    /\ pc = "loop"
    /\ m_mutex = Free
    /\ IF m_stop \/ m_events = {}
       THEN pc' = "script" /\ m_running' = FALSE
       ELSE pc' = "plan" /\ UNCHANGED m_running
    /\ UNCHANGED <<wall, m_realtimeOriginNano, list, m_stop, m_synchronizationMode,
                   m_mutex, m_condition, woken, waiting, runs>>

(***************************************************************************)
(* ProcessOneEvent: waiting for the next event                             *)
(***************************************************************************)
Before(a, b) == a.ts < b.ts \/ (a.ts = b.ts /\ a.uid < b.uid)

IsNext(e) == e \in m_events /\ \A f \in m_events : f = e \/ Before(e, f)

\* tsNow, tsNext and tsDelay: the wait is for the later of tsNow and tsNext
Plan ==
    /\ pc = "plan"
    /\ m_mutex = Free
    /\ \E e \in m_events :
         /\ IsNext(e)
         /\ target' = IF e.ts <= Realtime THEN Realtime ELSE e.ts
    /\ m_condition' = FALSE
    /\ pc' = "correct"
    /\ UNCHANGED <<wall, m_realtimeOriginNano, list, flags, m_mutex, woken, ns, deadline, badTime, runs>>

\* What DriftCorrect leaves of the delay, now that the clock has moved on
Corrected == IF Realtime >= target THEN 0 ELSE target - Realtime

\* DoSynchronize: sleep if more than three jiffies are left
Jiffies == Corrected \div Jiffy

DriftCorrect ==
    /\ pc = "correct"
    /\ IF Jiffies > 3
       THEN pc' = "sleep" /\ ns' = (Jiffies - 3) * Jiffy
       ELSE pc' = "drift" /\ UNCHANGED ns
    /\ UNCHANGED <<wall, m_realtimeOriginNano, list, flags, m_mutex, m_condition, woken,
                   target, deadline, badTime, runs>>

\* Wrong variant: TimedWait clears the condition, as Wait does
SleepWaitResets ==
    /\ pc = "sleep"
    /\ deadline' = wall + ns
    /\ badTime' = ((ns % Second) + (wall % Second) = Second)
    /\ ns' = 0
    /\ pc' = "test"
    /\ m_condition' = FALSE
    /\ UNCHANGED <<wall, m_realtimeOriginNano, list, flags, m_mutex, woken,
                   target, runs>>

\* TimedWait reads the clock again for its absolute time.  The carry into the
\* seconds is taken for more than a second of nanoseconds, not for one exactly.
SleepWait ==
    /\ pc = "sleep"
    /\ deadline' = wall + ns
    /\ badTime' = ((ns % Second) + (wall % Second) = Second)
    /\ ns' = 0
    /\ pc' = "test"
    /\ UNCHANGED <<wall, m_realtimeOriginNano, list, flags, m_mutex, m_condition, woken,
                   target, runs>>

\* ts is a local of TimedWait
LeavesTimedWait == deadline' = 0 /\ badTime' = FALSE /\ UNCHANGED ns

\* while (m_condition == false), with the condition's mutex held
TestCondition ==
    /\ pc = "test"
    /\ IF m_condition
       THEN pc' = "plan" /\ LeavesTimedWait /\ target' = 0
       ELSE pc' = "wait" /\ UNCHANGED waiting
    /\ UNCHANGED <<wall, m_realtimeOriginNano, list, flags, m_mutex, m_condition, woken,
                   runs>>

\* pthread_cond_timedwait refuses a time with tv_nsec of a second (EINVAL)
Block ==
    /\ pc = "wait"
    /\ pc' = IF badTime THEN "test" ELSE "blocked"
    /\ woken' = FALSE
    /\ UNCHANGED <<wall, m_realtimeOriginNano, list, flags, m_mutex, m_condition,
                   waiting, runs>>

Wake ==
    /\ pc = "blocked"
    /\ woken
    /\ pc' = "test"
    /\ UNCHANGED <<wall, m_realtimeOriginNano, list, flags, m_mutex, m_condition, woken,
                   waiting, runs>>

\* past the deadline pthread_cond_timedwait only times out
SpuriousWake ==
    /\ pc = "blocked"
    /\ ~woken
    /\ wall < deadline
    /\ pc' = "test"
    /\ UNCHANGED <<wall, m_realtimeOriginNano, list, flags, m_mutex, m_condition, woken,
                   waiting, runs>>

\* Wrong variant: the time-out goes back to the test of the condition
TimedOutTestsAgain ==
    /\ pc = "blocked"
    /\ wall >= deadline
    /\ pc' = "test"
    /\ UNCHANGED <<ns, deadline, badTime>>
    /\ UNCHANGED <<wall, m_realtimeOriginNano, list, flags, m_mutex, m_condition, woken,
                   target, runs>>

TimedOut ==
    /\ pc = "blocked"
    /\ wall >= deadline
    /\ pc' = "drift"
    /\ LeavesTimedWait
    /\ UNCHANGED <<wall, m_realtimeOriginNano, list, flags, m_mutex, m_condition, woken,
                   target, runs>>

\* DoGetDrift (nsCurrent + nsDelay) after the sleep
Drift ==
    /\ pc = "drift"
    /\ pc' = IF Realtime >= target THEN "take" ELSE "spin"
    /\ UNCHANGED <<wall, m_realtimeOriginNano, list, flags, m_mutex, m_condition, woken,
                   waiting, runs>>

\* Wrong variant: an interrupted wait counts as a completed one
SpinWaitInterrupted ==
    /\ pc = "spin"
    /\ \/ Realtime >= target /\ pc' = "take" /\ UNCHANGED target
       \/ Realtime < target /\ m_condition /\ pc' = "take" /\ target' = 0
    /\ UNCHANGED <<wall, m_realtimeOriginNano, list, flags, m_mutex, m_condition, woken,
                   ns, deadline, badTime, runs>>

SpinWait ==
    /\ pc = "spin"
    /\ \/ Realtime >= target /\ pc' = "take" /\ UNCHANGED target
       \/ Realtime < target /\ m_condition /\ pc' = "plan" /\ target' = 0
    /\ UNCHANGED <<wall, m_realtimeOriginNano, list, flags, m_mutex, m_condition, woken,
                   ns, deadline, badTime, runs>>

(***************************************************************************)
(* ProcessOneEvent: taking the event                                       *)
(***************************************************************************)
TooLate(ts) ==
    /\ m_synchronizationMode = "HARD_LIMIT"
    /\ (Realtime > ts + HardLimit \/ ts > Realtime + HardLimit)

TakeEvent ==
    /\ pc = "take"
    /\ m_mutex = Free
    /\ \E e \in m_events :
         /\ IsNext(e)
         /\ m_events' = m_events \ {e}
         /\ m_currentTs' = e.ts
         /\ m_currentUid' = e.uid
         /\ pc' = IF TooLate(e.ts) THEN "aborted" ELSE "handler"
    /\ m_unscheduledEvents' = m_unscheduledEvents - 1
    /\ target' = 0
    /\ UNCHANGED <<wall, m_realtimeOriginNano, m_uid, flags, m_mutex, m_condition, woken,
                   ns, deadline, badTime, runs>>

(***************************************************************************)
(* The clock                                                               *)
(***************************************************************************)
Tick ==
    /\ pc # "aborted"
    /\ \/ wall < Horizon
       \/ wall < deadline
       \/ pc = "spin" /\ Realtime < target
    /\ wall' = wall + 1
    /\ UNCHANGED <<m_realtimeOriginNano, list, flags, m_mutex, m_condition, woken, pc,
                   waiting, runs>>

Executive ==
    \/ HandlerReturns \/ SetOrigin \/ Loop \/ Plan \/ DriftCorrect \/ SleepWait
    \/ TestCondition \/ Block \/ Wake \/ TimedOut \/ Drift \/ SpinWait \/ TakeEvent

Next ==
    \/ Executive
    \/ Run \/ Schedule \/ Stop \/ SpuriousWake
    \/ \E e \in m_events : Remove(e)
    \/ \E t \in Threads : ThreadPosts(t) \/ ThreadSignals(t)
    \/ Tick

\* The operating system runs every thread that can run, and the clock advances
Fairness ==
    /\ WF_vars(Executive)
    /\ WF_vars(Tick)
    /\ \A t \in Threads : WF_vars(ThreadSignals(t))

Spec == Init /\ [][Next]_vars /\ Fairness
-----------------------------------------------------------------------------
(***************************************************************************)
(* Properties                                                              *)
(***************************************************************************)
\* Types; the uids of queued events are distinct and m_unscheduledEvents counts
\* the events in the list, whichever thread posted or removed them
EventsOK ==
    /\ m_events \subseteq [ts : Nat, uid : 4 .. m_uid - 1]
    /\ \A e, f \in m_events : e.uid = f.uid => e = f
    /\ IsFiniteSet(m_events) /\ m_unscheduledEvents = Cardinality(m_events)
    /\ m_uid \in Nat /\ m_uid >= 4 /\ m_currentUid \in 0 .. m_uid - 1
    /\ m_currentTs \in Nat

TypeOK ==
    /\ EventsOK
    /\ wall \in Nat /\ m_realtimeOriginNano \in 0 .. wall
    /\ target \in Nat /\ ns \in Nat /\ deadline \in Nat
    /\ m_stop \in BOOLEAN /\ m_running \in BOOLEAN
    /\ m_condition \in BOOLEAN /\ woken \in BOOLEAN /\ badTime \in BOOLEAN
    /\ m_synchronizationMode \in {"BEST_EFFORT", "HARD_LIMIT"}
    /\ m_mutex \in Threads \cup {Free}
    /\ pc \in Places
    /\ runs \in 0 .. MaxRuns

\* The assertions of ProcessOneEvent and of every Schedule method: no thread
\* posts an event behind the last one executed
QueueIsAhead == \A e \in m_events : e.ts >= m_currentTs

\* ProcessOneEvent paces: an event never runs before the wall clock reaches its
\* time, even if other threads changed the head of the list during the wait
NeverEarly == pc = "handler" => m_currentTs <= Realtime

\* The executive does not sleep over an event posted ahead of the one it waits
\* for: nobody is posting and no signal is on its way, so nothing is earlier
NoLostWakeup ==
    pc = "blocked" /\ m_mutex = Free /\ ~woken => \A e \in m_events : e.ts >= target

Queued(u) == \E e \in m_events : e.uid = u

\* TimedWait was given a time pthread_cond_timedwait refuses, and spins
Refused == badTime /\ pc \in {"test", "wait"} /\ ~m_condition

InTimedWait == pc \in {"test", "wait", "blocked"}

\* TimedWait waits "a maximum of ns nanoseconds" (system-condition.h:93)
TimedWaitReturns == InTimedWait ~> ~InTimedWait

\* Run serves every queued event, or is stopped, or gives up the hard limit,
\* unless TimedWait spins on a time it computed wrongly
EventuallyServed ==
    \A u \in Uids : Queued(u) /\ m_running
        ~> ~Queued(u) \/ ~m_running \/ pc = "aborted" \/ Refused

\* A thread that posts always gets out of its critical section: it holds m_mutex
\* while it takes the condition's mutex, which TimedWait may be holding
MutexIsReleased ==
    \A t \in Threads : m_mutex = t ~> m_mutex = Free \/ pc = "aborted"
=============================================================================
