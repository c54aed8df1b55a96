------------------------------ MODULE Visualizer ------------------------------
(***************************************************************************)
(* The live visualizer: a GTK thread (class Visualizer of core.py) that    *)
(* shows the model once per sample period, and the SimulationThread that   *)
(* runs the simulator until the next target time when told to go.  They    *)
(* share the simulator and self.pause_messages under a lock, and the       *)
(* Event `go' and the flag `quit' without it.                              *)
(*                                                                         *)
(* While update_view_timeout finds the lock taken it runs the GTK main     *)
(* loop, in which every other callback may be dispatched, another          *)
(* update_view_timeout included: `view' is the stack of the calls.  GLib   *)
(* does not dispatch a source again while its callback is running.         *)
(*                                                                         *)
(* Times are kept as distances: `ahead' is target_time minus Now ().       *)
(***************************************************************************)
EXTENDS Integers, Sequences, FiniteSets

CONSTANTS
  Periods,       \* the values of sample_period
  TimerIds,      \* bound: GLib source ids in use at one time
  MaxMessages,   \* bound: calls of PyViz::Pause
  MaxIdles       \* bound: update_model callbacks waiting, counted up to this many

ASSUME BoundsAssumption ==
  /\ Periods \subseteq Nat \ {0} /\ Periods # {}
  /\ MaxMessages \in Nat /\ MaxIdles \in Nat

None == 0
ASSUME IdsAssumption == TimerIds \subseteq Nat \ {None}

VARIABLES
  lock,                \* SimulationThread.lock: "free" or its holder
  go, quit,            \* SimulationThread.go, .quit
  ahead, sample_period,
  m_pauseMessages,     \* PyViz: messages of the round under way
  pause_messages,      \* SimulationThread.pause_messages
  sim,                 \* control of the simulation thread
  gtk,                 \* control of the GTK thread outside the view updates
  view,                \* the calls of update_view_timeout, innermost last
  timers,              \* live timeout sources
  update_timeout_id,   \* Visualizer._update_timeout_id
  active,              \* play_button.get_active ()
  idles,               \* idle sources that call update_model
  raised, shown,       \* history: pause messages so far, and those in dialogs
  overrun              \* history: rounds that advanced the model since play was released

simVars == <<sim, m_pauseMessages, raised>>
timerVars == <<timers, update_timeout_id>>
vars == <<lock, go, quit, ahead, sample_period, m_pauseMessages, pause_messages, sim,
          gtk, view, timers, update_timeout_id, active, idles, raised, shown, overrun>>

\* create_gui initialises the speed, which starts the first timer, before
\* the play button exists; the button is released.
Init ==
  /\ lock = "free" /\ go = FALSE /\ quit = FALSE
  /\ ahead = 0 /\ sample_period \in Periods
  /\ m_pauseMessages = <<>> /\ pause_messages = <<>>
  /\ sim = "test" /\ gtk = "loop" /\ view = <<>>
  /\ \E t \in TimerIds : timers = {t} /\ update_timeout_id = t
  /\ active = FALSE
  /\ idles = 0
  /\ raised = 0 /\ shown = <<>> /\ overrun = 0

-----------------------------------------------------------------------------
(* SimulationThread.run *)

TestQuit ==
  /\ sim = "test"
  /\ sim' = IF quit THEN "ended" ELSE "wait"
  /\ UNCHANGED <<lock, go, quit, ahead, sample_period, m_pauseMessages, pause_messages, gtk,
                 view, timerVars, active, idles, raised, shown, overrun>>

AwaitGo ==
  /\ sim = "wait" /\ go
  /\ sim' = "clear"
  /\ UNCHANGED <<lock, go, quit, ahead, sample_period, m_pauseMessages, pause_messages, gtk,
                 view, timerVars, active, idles, raised, shown, overrun>>

ClearGo ==
  /\ sim = "clear"
  /\ go' = FALSE
  /\ sim' = "check"
  /\ UNCHANGED <<lock, quit, ahead, sample_period, m_pauseMessages, pause_messages, gtk,
                 view, timerVars, active, idles, raised, shown, overrun>>

CheckQuit ==
  /\ sim = "check"
  /\ sim' = IF quit THEN "ended" ELSE "acquire"
  /\ UNCHANGED <<lock, go, quit, ahead, sample_period, m_pauseMessages, pause_messages, gtk,
                 view, timerVars, active, idles, raised, shown, overrun>>

\* Wrong version: a round that has nothing to run keeps the old messages.
BeginRoundClearsLate ==
  /\ sim = "acquire" /\ lock = "free"
  /\ lock' = "sim"
  /\ m_pauseMessages' = IF ahead = 0 THEN m_pauseMessages ELSE <<>>
  /\ sim' = "running"
  /\ UNCHANGED <<go, quit, ahead, sample_period, pause_messages, gtk, view, timerVars, active,
                 idles, raised, shown, overrun>>

\* Take the lock and enter SimulatorRunUntil, which drops the messages and
\* samples of the last round first.
BeginRound ==
  /\ sim = "acquire" /\ lock = "free"
  /\ lock' = "sim"
  /\ m_pauseMessages' = <<>>
  /\ sim' = "running"
  /\ UNCHANGED <<go, quit, ahead, sample_period, pause_messages, gtk, view, timerVars, active,
                 idles, raised, shown, overrun>>

\* What the calls of Pause number m + 1 to n push.
PauseCalls(m, n) == [i \in 1..(n - m) |-> m + i]

\* Run until the target: nothing to do if the model is there already; an
\* event of the model may stop the run early.  Its events may ask for a
\* pause any number of times, which does not stop the run.
RunUntil ==
  /\ sim = "running"
  /\ ahead' \in 0..ahead
  /\ raised' \in raised..MaxMessages
  /\ ahead = 0 => raised' = raised
  /\ m_pauseMessages' = m_pauseMessages \o PauseCalls(raised, raised')
  /\ overrun' = IF active \/ ahead = 0 \/ overrun = 3 THEN overrun ELSE overrun + 1
  /\ sim' = "collect"
  /\ UNCHANGED <<lock, go, quit, sample_period, pause_messages, gtk, view, timerVars, active,
                 idles, shown>>

\* Add the round's messages to the list and queue an update_model.
CollectMessages ==
  /\ sim = "collect"
  /\ pause_messages' = pause_messages \o m_pauseMessages
  /\ idles' = IF idles < MaxIdles THEN idles + 1 ELSE idles
  /\ sim' = "release"
  /\ UNCHANGED <<lock, go, quit, ahead, sample_period, m_pauseMessages, gtk, view, timerVars,
                 active, raised, shown, overrun>>

\* Wrong version: returns with the lock held.
EndRoundKeepsLock ==
  /\ sim = "release"
  /\ sim' = "test"
  /\ UNCHANGED <<lock, go, quit, ahead, sample_period, m_pauseMessages, pause_messages, gtk, view,
                 timerVars, active, idles, raised, shown, overrun>>

EndRound ==
  /\ sim = "release"
  /\ lock' = "free"
  /\ sim' = "test"
  /\ UNCHANGED <<go, quit, ahead, sample_period, m_pauseMessages, pause_messages, gtk, view,
                 timerVars, active, idles, raised, shown, overrun>>

SimulationThread ==
  TestQuit \/ AwaitGo \/ ClearGo \/ CheckQuit \/ BeginRound \/ RunUntil \/ CollectMessages
    \/ EndRound

-----------------------------------------------------------------------------
(* The GTK thread.  Its main loop dispatches when no callback is running,    *)
(* or from the innermost view update while that waits for the lock.          *)

Top == view[Len(view)]
Waiting == IF view = <<>> THEN FALSE ELSE Top.at = "lock"
Dispatching == gtk = "loop" /\ (view = <<>> \/ Waiting)

WithTop(call) == [view EXCEPT ![Len(view)] = call]
Pop == SubSeq(view, 1, Len(view) - 1)

SourceRemove(S, t) == S \ {t}

\* _start_update_timer: remove the timer last started, start another.
StartUpdateTimer ==
  \E t \in TimerIds \ (timers \cup {update_timeout_id} \cup {view[i].timer : i \in DOMAIN view}) :
    /\ timers' = SourceRemove(timers, update_timeout_id) \cup {t}
    /\ update_timeout_id' = t

\* A timer expires: update_view_timeout is called.
TimerFires(t) ==
  /\ Dispatching /\ t \in timers
  /\ \A i \in DOMAIN view : view[i].timer # t
  /\ view' = Append(view, [timer |-> t, at |-> "lock", messages |-> <<>>])
  /\ UNCHANGED <<lock, go, quit, ahead, sample_period, pause_messages, simVars, gtk, timerVars,
                 active, idles, shown, overrun>>

\* The lock is free at last: take the messages, show the model, set the
\* next target.
UpdateView ==
  /\ gtk = "loop" /\ Waiting /\ lock = "free"
  /\ view' = WithTop([Top EXCEPT !.at = "unlocked", !.messages = pause_messages])
  /\ pause_messages' = <<>>
  /\ ahead' = sample_period
  /\ UNCHANGED <<lock, go, quit, sample_period, simVars, gtk, timerVars, active, idles, shown,
                 overrun>>

\* Wrong version: the simulation goes on also when paused.
FinishViewAlwaysGoes ==
  /\ gtk = "loop" /\ view # <<>> /\ ~Waiting
  /\ LET paused == Top.messages # <<>> \/ ~active
         left == IF Top.messages # <<>> /\ active
                 THEN SourceRemove(timers, update_timeout_id) ELSE timers IN
     /\ active' = ~paused
     /\ overrun' = IF paused /\ active THEN 0 ELSE overrun
     /\ IF paused
        THEN timers' = SourceRemove(left, Top.timer) /\ update_timeout_id' = None /\ go' = TRUE
        ELSE go' = TRUE /\ UNCHANGED timerVars
  /\ shown' = shown \o Top.messages
  /\ view' = Pop
  /\ UNCHANGED <<lock, quit, ahead, sample_period, pause_messages, simVars, gtk, idles>>

\* Show a dialog with the messages and release the play button, whose
\* handler removes the timer; then stop if paused, or let the simulation go.
FinishView ==
  /\ gtk = "loop" /\ view # <<>> /\ ~Waiting
  /\ LET paused == Top.messages # <<>> \/ ~active
         left == IF Top.messages # <<>> /\ active
                 THEN SourceRemove(timers, update_timeout_id) ELSE timers IN
     /\ active' = ~paused
     /\ overrun' = IF paused /\ active THEN 0 ELSE overrun
     /\ IF paused
        THEN timers' = SourceRemove(left, Top.timer) /\ update_timeout_id' = None /\ UNCHANGED go
        ELSE go' = TRUE /\ UNCHANGED timerVars
  /\ shown' = shown \o Top.messages
  /\ view' = Pop
  /\ UNCHANGED <<lock, quit, ahead, sample_period, pause_messages, simVars, gtk, idles>>

\* The user presses or releases the play button.
PlayButtonToggled ==
  /\ Dispatching /\ ~quit
  /\ active' = ~active
  /\ overrun' = 0
  /\ IF active
     THEN timers' = SourceRemove(timers, update_timeout_id) /\ UNCHANGED update_timeout_id
     ELSE StartUpdateTimer
  /\ UNCHANGED <<lock, go, quit, ahead, sample_period, pause_messages, simVars, gtk, view, idles,
                 shown>>

SpeedChanged ==
  /\ Dispatching /\ ~quit
  /\ sample_period' \in Periods
  /\ StartUpdateTimer
  /\ UNCHANGED <<lock, go, quit, ahead, pause_messages, simVars, gtk, view, active, idles, shown,
                 overrun>>

\* A callback that blocks for the lock is dispatched: update_model, or one
\* of the user's (tooltip, node drag, selection, packet capture options).
DispatchLocking ==
  /\ Dispatching
  /\ \/ idles > 0 /\ idles' = idles - 1
     \/ ~quit /\ UNCHANGED idles
  /\ gtk' = "blocked"
  /\ UNCHANGED <<lock, go, quit, ahead, sample_period, pause_messages, simVars, view, timerVars,
                 active, shown, overrun>>

RunLocking ==
  /\ gtk = "blocked" /\ lock = "free"
  /\ gtk' = "loop"
  /\ UNCHANGED <<lock, go, quit, ahead, sample_period, pause_messages, simVars, view, timerVars,
                 active, idles, shown, overrun>>

\* _quit on the delete event of the window: no more timer, tell the thread
\* to quit, wake it up, join it, leave the main loop.
Quit ==
  /\ Dispatching /\ ~quit
  /\ timers' = SourceRemove(timers, update_timeout_id)
  /\ update_timeout_id' = None
  /\ quit' = TRUE
  /\ gtk' = "wake"
  /\ UNCHANGED <<lock, go, ahead, sample_period, pause_messages, simVars, view, active, idles,
                 shown, overrun>>

\* Wrong version: the thread is not woken up.
QuitWakesNobody ==
  /\ gtk = "wake"
  /\ gtk' = "join"
  /\ UNCHANGED <<lock, go, quit, ahead, sample_period, pause_messages, simVars, view, timerVars,
                 active, idles, shown, overrun>>

QuitWakes ==
  /\ gtk = "wake"
  /\ go' = TRUE
  /\ gtk' = "join"
  /\ UNCHANGED <<lock, quit, ahead, sample_period, pause_messages, simVars, view, timerVars,
                 active, idles, shown, overrun>>

Join ==
  /\ gtk = "join" /\ sim = "ended"
  /\ gtk' = "loop"
  /\ UNCHANGED <<lock, go, quit, ahead, sample_period, pause_messages, simVars, view, timerVars,
                 active, idles, shown, overrun>>

\* gtk.main () returns once the callback that called gtk.main_quit, and any
\* view update around it, have returned.
MainReturns ==
  /\ gtk = "loop" /\ quit /\ view = <<>>
  /\ gtk' = "ended"
  /\ UNCHANGED <<lock, go, quit, ahead, sample_period, pause_messages, simVars, view, timerVars,
                 active, idles, shown, overrun>>

Gtk ==
  \/ \E t \in TimerIds : TimerFires(t)
  \/ UpdateView \/ FinishView
  \/ PlayButtonToggled \/ SpeedChanged
  \/ DispatchLocking \/ RunLocking
  \/ Quit \/ QuitWakes \/ Join \/ MainReturns

Next == SimulationThread \/ Gtk

\* The threads run; a waiting update polls the lock at every depth of the
\* stack; the user and the clock owe nothing.
Fairness ==
  /\ WF_vars(SimulationThread)
  /\ \A n \in 1..Cardinality(TimerIds) : SF_vars(UpdateView /\ Len(view) = n)
  /\ WF_vars(FinishView \/ RunLocking \/ QuitWakes \/ Join)
  /\ SF_vars(MainReturns)
  /\ SF_vars(DispatchLocking /\ idles' < idles)

Spec == Init /\ [][Next]_vars /\ Fairness

-----------------------------------------------------------------------------
(* Properties *)

Messages == Seq(1..MaxMessages)

\* Types; the lock is held by the simulation thread exactly during a round.
TypeOK ==
  /\ lock \in {"free", "sim"}
  /\ lock = "sim" <=> sim \in {"running", "collect", "release"}
  /\ go \in BOOLEAN /\ quit \in BOOLEAN /\ active \in BOOLEAN
  /\ ahead \in Nat /\ sample_period \in Periods
  /\ m_pauseMessages \in Messages /\ pause_messages \in Messages /\ shown \in Messages
  /\ sim \in {"test", "wait", "clear", "check", "acquire", "running", "collect", "release",
              "ended"}
  /\ gtk \in {"loop", "blocked", "wake", "join", "ended"}
  /\ view \in Seq([timer : TimerIds, at : {"lock", "unlocked"}, messages : Messages])
  /\ timers \subseteq TimerIds /\ update_timeout_id \in TimerIds \cup {None}
  /\ idles \in 0..MaxIdles
  /\ raised \in 0..MaxMessages /\ overrun \in 0..3

InOrder(n) == [i \in 1..n |-> i]
Taken == IF view = <<>> THEN <<>> ELSE Top.messages

\* Every pause message is shown once and in order: what was shown, taken by
\* a view update, collected by the thread and raised in the round under way
\* are together the messages so far (core.py:390, 1063-1076; pyviz.cc:270).
EveryMessageShownOnce ==
  shown \o Taken \o pause_messages
    \o (IF sim = "collect" THEN m_pauseMessages ELSE <<>>) = InOrder(raised)

\* Pausing, by the user or by a message, lets at most two more rounds advance
\* the model: the one under way and one that was told to go before
\* (core.py:1080-1086, 371-394).
PausedModelStops == overrun <= 2

\* Closing the window ends both threads, also when the event is dispatched
\* while a view update waits for the lock (core.py:1105-1112, 371-376).
QuitEnds == quit ~> (sim = "ended" /\ gtk = "ended")

=============================================================================
