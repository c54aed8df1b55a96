------------------------- MODULE RealtimeSimProofs -------------------------
(***************************************************************************)
(* Theorems about RealtimeSim, for any set of posting threads, any delays, *)
(* any resolution of the clock and any interleaving of the threads, the    *)
(* wait and the clock.                                                     *)
(***************************************************************************)
EXTENDS RealtimeSim, FiniteSetTheorems, TLAPS

-----------------------------------------------------------------------------
(* The list of events                                                      *)

LEMMA PostTimesAreTimes ==
  ASSUME TypeOK, NEW ts \in PostTimes
  PROVE  ts \in Nat
BY RealtimeAssumption DEF PostTimes, SimulationTimes, RealTimes, RealtimeNow, Realtime, TypeOK, EventsOK

LEMMA PostKeepsList ==
  ASSUME EventsOK, NEW ts \in Nat, Post(ts)
  PROVE  EventsOK'
<1> DEFINE new == [ts |-> ts, uid |-> m_uid]
<1>1. /\ m_events' = m_events \cup {new} /\ m_uid' = m_uid + 1
      /\ m_unscheduledEvents' = m_unscheduledEvents + 1
      /\ m_currentTs' = m_currentTs /\ m_currentUid' = m_currentUid
  BY DEF Post
<1>2. new.uid = m_uid /\ new \in [ts : Nat, uid : 4 .. m_uid' - 1]
  BY <1>1 DEF EventsOK
<1>3. \A e \in m_events : e \in [ts : Nat, uid : 4 .. m_uid' - 1] /\ e.uid < m_uid
  BY <1>1 DEF EventsOK
<1> HIDE DEF new
<1>4. new \notin m_events
  BY <1>2, <1>3 DEF EventsOK
<1>5. IsFiniteSet(m_events') /\ Cardinality(m_events') = Cardinality(m_events) + 1
  BY <1>1, <1>4, FS_AddElement DEF EventsOK
<1>6. \A e, f \in m_events' : e.uid = f.uid => e = f
  BY <1>1, <1>2, <1>3 DEF EventsOK
<1> QED BY <1>1, <1>2, <1>3, <1>5, <1>6 DEF EventsOK

LEMMA TakingKeepsList ==
  ASSUME EventsOK, NEW e \in m_events, m_events' = m_events \ {e},
         m_unscheduledEvents' = m_unscheduledEvents - 1, m_uid' = m_uid,
         \/ UNCHANGED <<m_currentTs, m_currentUid>>
         \/ m_currentTs' = e.ts /\ m_currentUid' = e.uid
  PROVE  EventsOK'
<1>1. e \in [ts : Nat, uid : 4 .. m_uid - 1]
  BY DEF EventsOK
<1>2. IsFiniteSet(m_events') /\ Cardinality(m_events') = Cardinality(m_events) - 1
  BY FS_RemoveElement DEF EventsOK
<1> QED BY <1>1, <1>2 DEF EventsOK

-----------------------------------------------------------------------------
LEMMA InitType == Init => TypeOK
<1> SUFFICES ASSUME Init PROVE TypeOK
  OBVIOUS
<1>1. EventsOK
  BY FS_EmptySet DEF Init, EventsOK
<1>2. Epoch \in Nat /\ 0 \in 0 .. Epoch /\ 0 \in 0 .. MaxRuns
  BY RealtimeAssumption
<1>3. /\ wall \in Nat /\ m_realtimeOriginNano \in 0 .. wall /\ runs \in 0 .. MaxRuns
  BY <1>2 DEF Init
<1> QED BY <1>1, <1>3 DEF Init, TypeOK, Places

\* What a wait that is longer than three jiffies leaves to sleep
LEMMA SleepIsNat ==
  ASSUME TypeOK, Jiffies > 3
  PROVE  (Jiffies - 3) * Jiffy \in Nat
<1>1. Corrected \in Nat
  BY DEF TypeOK, Corrected, Realtime
<1>2. Jiffies \in Nat
  BY <1>1, RealtimeAssumption DEF Jiffies
<1>3. Jiffies - 3 \in Nat
  BY <1>2
<1> QED BY <1>3, RealtimeAssumption

LEMMA NextType == TypeOK /\ [Next]_vars => TypeOK'
<1> SUFFICES ASSUME TypeOK, [Next]_vars PROVE TypeOK'
  OBVIOUS
<1>0. EventsOK
  BY DEF TypeOK
<1>a. UNCHANGED list => EventsOK'
  BY <1>0 DEF list, EventsOK
<1> USE DEF flags, waiting
<1>1. CASE HandlerReturns
  BY <1>1, <1>a DEF HandlerReturns, list, TypeOK, Places
<1>2. CASE SetOrigin
  BY <1>2, <1>a DEF SetOrigin, list, TypeOK, Places
<1>3. CASE Loop
  BY <1>3, <1>a DEF Loop, list, TypeOK, Places
<1>4. CASE Plan
  <2>1. target' \in Nat
    BY <1>4 DEF Plan, TypeOK, EventsOK, Realtime
  <2> QED BY <1>4, <1>a, <2>1 DEF Plan, list, TypeOK, Places
<1>5. CASE DriftCorrect
  BY <1>5, <1>a, SleepIsNat DEF DriftCorrect, list, TypeOK, Places
<1>6. CASE SleepWait
  BY <1>6, <1>a DEF SleepWait, list, TypeOK, Places
<1>7. CASE TestCondition
  <2>1. /\ target' \in {0, target} /\ ns' = ns /\ deadline' \in {0, deadline}
        /\ pc' \in {"plan", "wait"}
    BY <1>7 DEF TestCondition, LeavesTimedWait
  <2>2. badTime' \in BOOLEAN
    BY <1>7 DEF TestCondition, LeavesTimedWait, TypeOK
  <2> QED BY <1>7, <1>a, <2>1, <2>2 DEF TestCondition, list, TypeOK, Places
<1>8. CASE Block
  BY <1>8, <1>a DEF Block, list, TypeOK, Places
<1>9. CASE Wake
  BY <1>9, <1>a DEF Wake, list, TypeOK, Places
<1>10. CASE TimedOut
  BY <1>10, <1>a DEF TimedOut, LeavesTimedWait, list, TypeOK, Places
<1>11. CASE Drift
  BY <1>11, <1>a DEF Drift, list, TypeOK, Places
<1>12. CASE SpinWait
  BY <1>12, <1>a DEF SpinWait, list, TypeOK, Places
<1>13. CASE TakeEvent
  <2>1. PICK e \in m_events : TakeEvent!3!(e)
    BY <1>13 DEF TakeEvent
  <2>2. EventsOK'
    BY <1>0, <1>13, <2>1, TakingKeepsList DEF TakeEvent
  <2> QED BY <1>13, <2>1, <2>2 DEF TakeEvent, TypeOK, Places
<1>14. CASE Run
  <2>1. MaxRuns \in Nat
    BY RealtimeAssumption
  <2>2. runs' \in 0 .. MaxRuns
    BY <1>14, <2>1 DEF Run, TypeOK
  <2> QED BY <1>14, <1>a, <2>2 DEF Run, list, TypeOK, Places
<1>15. CASE Schedule
  <2>1. PICK ts \in PostTimes : Post(ts)
    BY <1>15 DEF Schedule
  <2>2. EventsOK'
    BY <1>0, <2>1, PostTimesAreTimes, PostKeepsList
  <2>3. m_condition' = TRUE
    BY <2>1 DEF Post
  <2> QED BY <1>15, <2>2, <2>3 DEF Schedule, TypeOK, Places
<1>16. CASE Stop
  BY <1>16, <1>a DEF Stop, list, TypeOK, Places
<1>17. CASE SpuriousWake
  BY <1>17, <1>a DEF SpuriousWake, list, TypeOK, Places
<1>18. ASSUME NEW e \in m_events, Remove(e) PROVE TypeOK'
  <2>1. EventsOK'
    BY <1>0, <1>18, TakingKeepsList DEF Remove
  <2> QED BY <1>18, <2>1 DEF Remove, TypeOK, Places
<1>19. ASSUME NEW t \in Threads, ThreadPosts(t) PROVE TypeOK'
  <2>1. PICK ts \in PostTimes : Post(ts)
    BY <1>19 DEF ThreadPosts
  <2>2. EventsOK'
    BY <1>0, <2>1, PostTimesAreTimes, PostKeepsList
  <2>3. m_condition' = TRUE
    BY <2>1 DEF Post
  <2> QED BY <1>19, <2>2, <2>3 DEF ThreadPosts, TypeOK, Places
<1>20. ASSUME NEW t \in Threads, ThreadSignals(t) PROVE TypeOK'
  BY <1>20, <1>a DEF ThreadSignals, list, TypeOK, Places
<1>21. CASE Tick
  BY <1>21, <1>a DEF Tick, list, TypeOK, Places
<1>22. CASE UNCHANGED vars
  BY <1>22, <1>a DEF vars, list, TypeOK, Places
<1> QED BY <1>1, <1>2, <1>3, <1>4, <1>5, <1>6, <1>7, <1>8, <1>9, <1>10, <1>11, <1>12,
           <1>13, <1>14, <1>15, <1>16, <1>17, <1>18, <1>19, <1>20, <1>21, <1>22
        DEF Next, Executive

\* RealtimeSimulatorImpl's members keep their types, and the count of
\* unscheduled events is exact whichever thread posts, removes or takes one
THEOREM RealtimeTypeCorrect == Spec => []TypeOK
<1> QED BY InitType, NextType, PTL DEF Spec

-----------------------------------------------------------------------------
(* Pacing: what the wait is for stays in the list until it is taken        *)

\* The simulation thread is between Plan and TakeEvent
Waiting == {"correct", "sleep", "test", "wait", "blocked", "drift", "spin", "take"}

\* Some queued event is due when the wait is over: other threads only add
DueAtTarget == pc \in Waiting => \E e \in m_events : e.ts <= target

WaitIsOver == pc = "take" => Realtime >= target

PInv == TypeOK /\ DueAtTarget /\ WaitIsOver /\ NeverEarly

LEMMA InitPInv == Init => PInv
BY InitType DEF Init, PInv, DueAtTarget, Waiting, WaitIsOver, NeverEarly

\* A step that leaves the list, the clock and the wait's target as they are
LEMMA MovesOn ==
  ASSUME PInv, UNCHANGED <<m_events, wall, m_realtimeOriginNano, target, m_currentTs>>,
         pc' \in Waiting => pc \in Waiting,
         pc' = "take" => Realtime >= target \/ pc = "take",
         pc' = "handler" => pc = "handler"
  PROVE  DueAtTarget' /\ WaitIsOver' /\ NeverEarly'
BY DEF PInv, DueAtTarget, WaitIsOver, NeverEarly, Realtime

LEMMA PostKeepsPacing ==
  ASSUME PInv, NEW ts \in Nat, Post(ts),
         UNCHANGED <<wall, m_realtimeOriginNano, target, pc>>
  PROVE  DueAtTarget' /\ WaitIsOver' /\ NeverEarly'
BY DEF PInv, Post, DueAtTarget, WaitIsOver, NeverEarly, Realtime

LEMMA NextPInv == PInv /\ [Next]_vars => PInv'
<1> SUFFICES ASSUME PInv, [Next]_vars PROVE DueAtTarget' /\ WaitIsOver' /\ NeverEarly'
  BY NextType DEF PInv
<1>0. TypeOK
  BY DEF PInv
<1> USE DEF list, flags, waiting
<1>1. CASE HandlerReturns
  BY <1>1, MovesOn DEF HandlerReturns, Waiting
<1>2. CASE SetOrigin
  BY <1>2 DEF SetOrigin, Waiting, DueAtTarget, WaitIsOver, NeverEarly
<1>3. CASE Loop
  BY <1>3, MovesOn DEF Loop, Waiting
<1>4. CASE Plan
  <2>1. PICK e \in m_events : target' = IF e.ts <= Realtime THEN Realtime ELSE e.ts
    BY <1>4 DEF Plan
  <2>2. e.ts \in Nat /\ Realtime \in Nat
    BY <1>0 DEF TypeOK, EventsOK, Realtime
  <2>3. e.ts <= target'
    BY <2>1, <2>2
  <2> QED BY <1>4, <2>3 DEF Plan, DueAtTarget, WaitIsOver, NeverEarly
<1>5. CASE DriftCorrect
  BY <1>5, MovesOn DEF DriftCorrect, Waiting
<1>6. CASE SleepWait
  BY <1>6, MovesOn DEF SleepWait, Waiting
<1>7. CASE TestCondition
  <2>1. \/ pc' = "plan" /\ UNCHANGED m_events
        \/ pc' = "wait" /\ UNCHANGED <<m_events, target, wall, m_realtimeOriginNano, m_currentTs>>
    BY <1>7 DEF TestCondition
  <2>2. CASE pc' = "plan"
    BY <2>2 DEF Waiting, DueAtTarget, WaitIsOver, NeverEarly
  <2>3. CASE pc' = "wait"
    BY <1>7, <2>1, <2>3, MovesOn DEF TestCondition, Waiting
  <2> QED BY <2>1, <2>2, <2>3
<1>8. CASE Block
  BY <1>8, MovesOn DEF Block, Waiting
<1>9. CASE Wake
  BY <1>9, MovesOn DEF Wake, Waiting
<1>10. CASE TimedOut
  BY <1>10, MovesOn DEF TimedOut, Waiting
<1>11. CASE Drift
  BY <1>11, MovesOn DEF Drift, Waiting
<1>12. CASE SpinWait
  <2>1. CASE pc' = "take"
    BY <1>12, <2>1, MovesOn DEF SpinWait, Waiting
  <2>2. CASE pc' = "plan"
    BY <2>2 DEF Waiting, DueAtTarget, WaitIsOver, NeverEarly
  <2> QED BY <1>12, <2>1, <2>2 DEF SpinWait
<1>13. CASE TakeEvent
  <2>1. PICK e \in m_events : IsNext(e) /\ m_currentTs' = e.ts
    BY <1>13 DEF TakeEvent
  <2>2. PICK f \in m_events : f.ts <= target
    BY <1>13 DEF TakeEvent, PInv, DueAtTarget, Waiting
  <2>3. e.ts \in Nat /\ f.ts \in Nat /\ target \in Nat /\ Realtime \in Nat
    BY <1>0 DEF TypeOK, EventsOK, Realtime
  <2>4. e.ts <= f.ts
    BY <2>1, <2>3 DEF IsNext, Before
  <2>5. Realtime >= target
    BY <1>13 DEF TakeEvent, PInv, WaitIsOver
  <2>6. m_currentTs' <= Realtime'
    BY <1>13, <2>1, <2>2, <2>3, <2>4, <2>5 DEF TakeEvent, Realtime
  <2>7. pc' \in {"aborted", "handler"}
    BY <1>13 DEF TakeEvent
  <2> QED BY <2>6, <2>7 DEF Waiting, DueAtTarget, WaitIsOver, NeverEarly
<1>14. CASE Run
  BY <1>14, MovesOn DEF Run, Waiting
<1>15. CASE Schedule
  <2>1. PICK ts \in PostTimes : Post(ts)
    BY <1>15 DEF Schedule
  <2> QED BY <1>0, <1>15, <2>1, PostTimesAreTimes, PostKeepsPacing DEF Schedule
<1>16. CASE Stop
  BY <1>16, MovesOn DEF Stop
<1>17. CASE SpuriousWake
  BY <1>17, MovesOn DEF SpuriousWake, Waiting
<1>18. ASSUME NEW e \in m_events, Remove(e) PROVE DueAtTarget' /\ WaitIsOver' /\ NeverEarly'
  BY <1>18 DEF Remove, InClientCode, Waiting, PInv, DueAtTarget, WaitIsOver, NeverEarly, Realtime
<1>19. ASSUME NEW t \in Threads, ThreadPosts(t) PROVE DueAtTarget' /\ WaitIsOver' /\ NeverEarly'
  <2>1. PICK ts \in PostTimes : Post(ts)
    BY <1>19 DEF ThreadPosts
  <2> QED BY <1>0, <1>19, <2>1, PostTimesAreTimes, PostKeepsPacing DEF ThreadPosts
<1>20. ASSUME NEW t \in Threads, ThreadSignals(t) PROVE DueAtTarget' /\ WaitIsOver' /\ NeverEarly'
  BY <1>20, MovesOn DEF ThreadSignals
<1>21. CASE Tick
  BY <1>0, <1>21 DEF Tick, TypeOK, EventsOK, PInv, DueAtTarget, WaitIsOver, NeverEarly, Realtime
<1>22. CASE UNCHANGED vars
  BY <1>22, MovesOn DEF vars
<1> QED BY <1>1, <1>2, <1>3, <1>4, <1>5, <1>6, <1>7, <1>8, <1>9, <1>10, <1>11, <1>12,
           <1>13, <1>14, <1>15, <1>16, <1>17, <1>18, <1>19, <1>20, <1>21, <1>22
        DEF Next, Executive

\* ProcessOneEvent never runs an event before the wall clock has reached its
\* time, in any Run and whatever other threads post during the wait
THEOREM Pacing == Spec => []NeverEarly
<1>1. PInv => NeverEarly
  BY DEF PInv
<1> QED BY <1>1, InitPInv, NextPInv, PTL DEF Spec

-----------------------------------------------------------------------------
(* Waking up: an event posted ahead of the target leaves a trace, first in *)
(* m_condition, then in a signal                                           *)

NothingEarlier == \A e \in m_events : e.ts >= target

\* While the condition is false nothing is earlier than what the wait is for;
\* right after Plan the wait may be for the present instead, and not needed
ConditionTells ==
    /\ pc = "correct" /\ ~m_condition => Realtime >= target \/ NothingEarlier
    /\ pc \in {"sleep", "test", "wait", "blocked"} /\ ~m_condition => NothingEarlier

\* The condition became true after TimedWait read it: whoever set it has yet to
\* signal, or the signal is on its way
SignalFollows ==
    /\ pc = "wait" /\ m_condition => m_mutex # Free
    /\ pc = "blocked" /\ m_condition => woken \/ m_mutex # Free

WInv == TypeOK /\ ConditionTells /\ SignalFollows

LEMMA InitWInv == Init => WInv
BY InitType DEF Init, WInv, ConditionTells, SignalFollows

\* A step of the wait that changes neither the list nor the condition
LEMMA WaitGoesOn ==
  ASSUME WInv,
         UNCHANGED <<m_events, m_condition, m_mutex, wall, m_realtimeOriginNano, target>>,
         pc \in {"sleep", "test", "wait", "blocked"},
         pc' \in {"test", "wait", "blocked"}
  PROVE  ConditionTells'
BY DEF WInv, ConditionTells, NothingEarlier

\* Everywhere else the wait is over, or has not begun
LEMMA NotWaiting ==
  ASSUME pc' \notin {"correct", "sleep", "test", "wait", "blocked"}
  PROVE  ConditionTells' /\ SignalFollows'
BY DEF ConditionTells, SignalFollows

\* Jiffies are left to sleep only if the clock is short of the target
LEMMA SleepIsAhead ==
  ASSUME TypeOK, Jiffies > 3
  PROVE  ~(Realtime >= target)
<1> SUFFICES ASSUME Realtime >= target PROVE FALSE
  OBVIOUS
<1>1. Corrected = 0
  BY DEF Corrected
<1>2. Jiffies = 0
  BY <1>1, RealtimeAssumption DEF Jiffies
<1> QED BY <1>2

LEMMA NextWInv == WInv /\ [Next]_vars => WInv'
<1> SUFFICES ASSUME WInv, [Next]_vars PROVE ConditionTells' /\ SignalFollows'
  BY NextType DEF WInv
<1>0. TypeOK
  BY DEF WInv
<1> USE DEF list, flags, waiting
<1>1. CASE HandlerReturns
  BY <1>1, NotWaiting DEF HandlerReturns
<1>2. CASE SetOrigin
  BY <1>2, NotWaiting DEF SetOrigin
<1>3. CASE Loop
  BY <1>3, NotWaiting DEF Loop
<1>4. CASE Plan
  <2>1. PICK e \in m_events :
          IsNext(e) /\ target' = IF e.ts <= Realtime THEN Realtime ELSE e.ts
    BY <1>4 DEF Plan
  <2>2. CASE e.ts <= Realtime
    <3>1. Realtime' >= target'
      BY <1>0, <1>4, <2>1, <2>2 DEF Plan, Realtime, TypeOK
    <3> QED BY <1>4, <3>1 DEF Plan, ConditionTells, SignalFollows
  <2>3. CASE ~(e.ts <= Realtime)
    <3>1. \A f \in m_events : f.ts >= e.ts
      BY <1>0, <2>1 DEF IsNext, Before, TypeOK, EventsOK
    <3>2. NothingEarlier'
      BY <1>4, <2>1, <2>3, <3>1 DEF Plan, NothingEarlier
    <3> QED BY <1>4, <3>2 DEF Plan, ConditionTells, SignalFollows
  <2> QED BY <2>2, <2>3
<1>5. CASE DriftCorrect
  <2>1. CASE Jiffies > 3
    <3>1. ~m_condition => NothingEarlier
      BY <1>0, <1>5, <2>1, SleepIsAhead DEF DriftCorrect, WInv, ConditionTells
    <3> QED BY <1>5, <2>1, <3>1
            DEF DriftCorrect, ConditionTells, SignalFollows, NothingEarlier
  <2>2. CASE ~(Jiffies > 3)
    BY <1>5, <2>2, NotWaiting DEF DriftCorrect
  <2> QED BY <2>1, <2>2
<1>6. CASE SleepWait
  <2>1. ConditionTells'
    BY <1>6, WaitGoesOn DEF SleepWait
  <2> QED BY <1>6, <2>1 DEF SleepWait, SignalFollows
<1>7. CASE TestCondition
  <2>1. CASE m_condition
    BY <1>7, <2>1, NotWaiting DEF TestCondition
  <2>2. CASE ~m_condition
    <3>1. ConditionTells'
      BY <1>7, <2>2, WaitGoesOn DEF TestCondition
    <3> QED BY <1>7, <2>2, <3>1 DEF TestCondition, SignalFollows
  <2> QED BY <2>1, <2>2
<1>8. CASE Block
  <2>1. ConditionTells'
    BY <1>8, WaitGoesOn DEF Block
  <2> QED BY <1>8, <2>1 DEF Block, WInv, SignalFollows
<1>9. CASE Wake
  <2>1. ConditionTells'
    BY <1>9, WaitGoesOn DEF Wake
  <2> QED BY <1>9, <2>1 DEF Wake, SignalFollows
<1>10. CASE TimedOut
  BY <1>10, NotWaiting DEF TimedOut
<1>11. CASE Drift
  BY <1>11, NotWaiting DEF Drift
<1>12. CASE SpinWait
  BY <1>12, NotWaiting DEF SpinWait
<1>13. CASE TakeEvent
  BY <1>13, NotWaiting DEF TakeEvent
<1>14. CASE Run
  BY <1>14, NotWaiting DEF Run
<1>15. CASE Schedule
  BY <1>15, NotWaiting DEF Schedule, InClientCode
<1>16. CASE Stop
  BY <1>16, NotWaiting DEF Stop
<1>17. CASE SpuriousWake
  <2>1. ConditionTells'
    BY <1>17, WaitGoesOn DEF SpuriousWake
  <2> QED BY <1>17, <2>1 DEF SpuriousWake, SignalFollows
<1>18. ASSUME NEW e \in m_events, Remove(e) PROVE ConditionTells' /\ SignalFollows'
  BY <1>18, NotWaiting DEF Remove, InClientCode
<1>19. ASSUME NEW t \in Threads, ThreadPosts(t) PROVE ConditionTells' /\ SignalFollows'
  <2>1. m_condition' = TRUE /\ m_mutex' = t /\ t # Free
    BY <1>19, RealtimeAssumption DEF ThreadPosts, Post
  <2> QED BY <2>1 DEF ConditionTells, SignalFollows
<1>20. ASSUME NEW t \in Threads, ThreadSignals(t) PROVE ConditionTells' /\ SignalFollows'
  <2>1. ConditionTells'
    BY <1>20 DEF ThreadSignals, WInv, ConditionTells, NothingEarlier, Realtime
  <2>2. pc' # "wait" /\ (pc' = "blocked" => woken')
    BY <1>20 DEF ThreadSignals, ConditionMutexFree
  <2> QED BY <2>1, <2>2 DEF SignalFollows
<1>21. CASE Tick
  <2>1. Realtime >= target => Realtime' >= target'
    BY <1>0, <1>21 DEF Tick, Realtime, TypeOK
  <2> QED BY <1>21, <2>1 DEF Tick, WInv, ConditionTells, SignalFollows, NothingEarlier
<1>22. CASE UNCHANGED vars
  BY <1>22 DEF vars, WInv, ConditionTells, SignalFollows, NothingEarlier, Realtime
<1> QED BY <1>1, <1>2, <1>3, <1>4, <1>5, <1>6, <1>7, <1>8, <1>9, <1>10, <1>11, <1>12,
           <1>13, <1>14, <1>15, <1>16, <1>17, <1>18, <1>19, <1>20, <1>21, <1>22
        DEF Next, Executive

\* The simulation thread never sleeps over an event posted ahead of the one it
\* waits for: SystemCondition loses no wake-up
THEOREM WakesForEarlierEvents == Spec => []NoLostWakeup
<1>1. WInv => NoLostWakeup
  BY DEF WInv, ConditionTells, SignalFollows, NoLostWakeup, NothingEarlier
<1> QED BY <1>1, InitWInv, NextWInv, PTL DEF Spec

-----------------------------------------------------------------------------
(* Time order, if Run is called once                                       *)

OneRun == MaxRuns = 1

\* The origin is set while the simulation time is still zero, so the clock never
\* falls behind the last event
ClockIsAhead ==
    /\ m_currentTs <= Realtime
    /\ runs = 0 => pc = "script" /\ m_currentTs = 0
    /\ pc = "origin" => m_currentTs = 0

QInv == PInv /\ QueueIsAhead /\ ClockIsAhead

LEMMA InitQInv == Init => QInv
<1> SUFFICES ASSUME Init PROVE QInv
  OBVIOUS
<1>1. Epoch \in Nat
  BY RealtimeAssumption
<1>2. m_currentTs <= Realtime
  BY <1>1 DEF Init, Realtime
<1> QED BY <1>2, InitPInv DEF Init, QInv, QueueIsAhead, ClockIsAhead

LEMMA PostTimesAreAhead ==
  ASSUME QInv, NEW ts \in PostTimes
  PROVE  ts \in Nat /\ ts >= m_currentTs
<1>1. m_currentTs \in Nat /\ Realtime \in Nat /\ m_currentTs <= Realtime
  BY DEF QInv, PInv, ClockIsAhead, TypeOK, EventsOK, Realtime
<1> QED BY <1>1, RealtimeAssumption DEF PostTimes, SimulationTimes, RealTimes, RealtimeNow

\* A step that leaves the times alone and takes nothing from the list
LEMMA TimesKept ==
  ASSUME QInv, UNCHANGED <<m_events, m_currentTs, wall, m_realtimeOriginNano, runs>>,
         runs = 0 => pc' = "script",
         pc' # "origin"
  PROVE  QueueIsAhead' /\ ClockIsAhead'
BY DEF QInv, QueueIsAhead, ClockIsAhead, Realtime

LEMMA PostKeepsOrder ==
  ASSUME QInv, NEW ts \in PostTimes, Post(ts),
         UNCHANGED <<wall, m_realtimeOriginNano, pc, runs>>
  PROVE  QueueIsAhead' /\ ClockIsAhead'
<1>1. m_events' = m_events \cup {[ts |-> ts, uid |-> m_uid]} /\ m_currentTs' = m_currentTs
  BY DEF Post
<1>2. \A e \in m_events' : e.ts >= m_currentTs'
  BY <1>1, PostTimesAreAhead DEF QInv, QueueIsAhead
<1> QED BY <1>1, <1>2 DEF QInv, QueueIsAhead, ClockIsAhead, Realtime

LEMMA NextQInv == ASSUME OneRun PROVE QInv /\ [Next]_vars => QInv'
<1> SUFFICES ASSUME QInv, [Next]_vars PROVE QueueIsAhead' /\ ClockIsAhead'
  BY NextPInv DEF QInv
<1>0. TypeOK
  BY DEF QInv, PInv
<1>z. runs = 0 => pc = "script"
  BY DEF QInv, ClockIsAhead
<1> USE DEF list, flags, waiting
<1>1. CASE HandlerReturns
  BY <1>1, <1>z, TimesKept DEF HandlerReturns
<1>2. CASE SetOrigin
  <2>1. m_currentTs' = 0 /\ Realtime' = 0 /\ runs' # 0 /\ pc' = "loop" /\ m_events' = m_events
    BY <1>0, <1>2, <1>z DEF SetOrigin, QInv, ClockIsAhead, Realtime, TypeOK
  <2> QED BY <1>2, <2>1 DEF SetOrigin, QInv, QueueIsAhead, ClockIsAhead
<1>3. CASE Loop
  BY <1>3, <1>z, TimesKept DEF Loop
<1>4. CASE Plan
  BY <1>4, <1>z, TimesKept DEF Plan
<1>5. CASE DriftCorrect
  BY <1>5, <1>z, TimesKept DEF DriftCorrect
<1>6. CASE SleepWait
  BY <1>6, <1>z, TimesKept DEF SleepWait
<1>7. CASE TestCondition
  BY <1>7, <1>z, TimesKept DEF TestCondition
<1>8. CASE Block
  BY <1>8, <1>z, TimesKept DEF Block
<1>9. CASE Wake
  BY <1>9, <1>z, TimesKept DEF Wake
<1>10. CASE TimedOut
  BY <1>10, <1>z, TimesKept DEF TimedOut
<1>11. CASE Drift
  BY <1>11, <1>z, TimesKept DEF Drift
<1>12. CASE SpinWait
  BY <1>12, <1>z, TimesKept DEF SpinWait
<1>13. CASE TakeEvent
  <2>1. PICK e \in m_events :
          IsNext(e) /\ m_events' = m_events \ {e} /\ m_currentTs' = e.ts
    BY <1>13 DEF TakeEvent
  <2>2. PICK f \in m_events : f.ts <= target
    BY <1>13 DEF TakeEvent, QInv, PInv, DueAtTarget, Waiting
  <2>3. \A g \in m_events : g.ts \in Nat /\ g.ts >= e.ts
    BY <1>0, <2>1 DEF IsNext, Before, TypeOK, EventsOK
  <2>4. target \in Nat /\ Realtime \in Nat /\ Realtime >= target
    BY <1>0, <1>13 DEF TakeEvent, QInv, PInv, WaitIsOver, TypeOK, Realtime
  <2>5. e.ts <= Realtime
    BY <2>2, <2>3, <2>4
  <2>6. runs' # 0 /\ pc' # "origin" /\ Realtime' = Realtime
    BY <1>13, <1>z DEF TakeEvent, Realtime
  <2> QED BY <2>1, <2>3, <2>5, <2>6 DEF QueueIsAhead, ClockIsAhead
<1>14. CASE Run
  <2>1. runs = 0 /\ runs' = 1
    BY <1>0, <1>14 DEF Run, OneRun, TypeOK
  <2> QED BY <1>14, <2>1 DEF Run, QInv, QueueIsAhead, ClockIsAhead, Realtime
<1>15. CASE Schedule
  <2>1. PICK ts \in PostTimes : Post(ts)
    BY <1>15 DEF Schedule
  <2> QED BY <1>15, <2>1, PostKeepsOrder DEF Schedule
<1>16. CASE Stop
  BY <1>16, <1>z, TimesKept DEF Stop
<1>17. CASE SpuriousWake
  BY <1>17, <1>z, TimesKept DEF SpuriousWake
<1>18. ASSUME NEW e \in m_events, Remove(e) PROVE QueueIsAhead' /\ ClockIsAhead'
  BY <1>18 DEF Remove, QInv, QueueIsAhead, ClockIsAhead, Realtime
<1>19. ASSUME NEW t \in Threads, ThreadPosts(t) PROVE QueueIsAhead' /\ ClockIsAhead'
  <2>1. PICK ts \in PostTimes : Post(ts)
    BY <1>19 DEF ThreadPosts
  <2> QED BY <1>19, <2>1, PostKeepsOrder DEF ThreadPosts
<1>20. ASSUME NEW t \in Threads, ThreadSignals(t) PROVE QueueIsAhead' /\ ClockIsAhead'
  BY <1>20 DEF ThreadSignals, QInv, QueueIsAhead, ClockIsAhead, Realtime
<1>21. CASE Tick
  <2>1. m_currentTs <= Realtime => m_currentTs' <= Realtime'
    BY <1>0, <1>21 DEF Tick, Realtime, TypeOK, EventsOK
  <2> QED BY <1>21, <2>1 DEF Tick, QInv, QueueIsAhead, ClockIsAhead
<1>22. CASE UNCHANGED vars
  BY <1>22 DEF vars, QInv, QueueIsAhead, ClockIsAhead, Realtime
<1> QED BY <1>1, <1>2, <1>3, <1>4, <1>5, <1>6, <1>7, <1>8, <1>9, <1>10, <1>11, <1>12,
           <1>13, <1>14, <1>15, <1>16, <1>17, <1>18, <1>19, <1>20, <1>21, <1>22
        DEF Next, Executive

\* If Run is called once, no thread ever posts an event behind the last one
\* executed: the assertions of ProcessOneEvent and of the Schedule methods hold
THEOREM PostsAreAhead == ASSUME OneRun PROVE Spec => []QueueIsAhead
<1>1. QInv => QueueIsAhead
  BY DEF QInv
<1>2. QInv /\ [Next]_vars => QInv'
  BY NextQInv
<1> QED BY <1>1, <1>2, InitQInv, PTL DEF Spec
=============================================================================
