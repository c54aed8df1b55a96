--------------------------- MODULE VisualizerProofs ---------------------------
(***************************************************************************)
(* Theorems about Visualizer, for any sample periods, any number of timers *)
(* and of messages, and view updates nested to any depth.                  *)
(***************************************************************************)
EXTENDS Visualizer, SequenceTheorems, TLAPS

Calls == [timer : TimerIds, at : {"lock", "unlocked"}, messages : Messages]

-----------------------------------------------------------------------------
(* The stack of view updates                                               *)

LEMMA StackFacts ==
  ASSUME NEW s \in Seq(Calls), NEW c \in Calls
  PROVE  /\ Append(s, c) \in Seq(Calls) /\ Append(s, c) # <<>>
         /\ Len(s) \in Nat /\ Len(Append(s, c)) = Len(s) + 1
         /\ DOMAIN Append(s, c) = 1 .. Len(s) + 1
         /\ \A i \in 1 .. Len(s) : Append(s, c)[i] = s[i]
         /\ Append(s, c)[Len(s) + 1] = c
OBVIOUS

LEMMA BelowTheTop ==
  ASSUME NEW n \in Nat \ {0}
  PROVE  n \in 1 .. n /\ \A i \in 1 .. n - 1 : i \in 1 .. n /\ i # n
OBVIOUS

LEMMA TopFacts ==
  ASSUME NEW s \in Seq(Calls), s # <<>>, NEW c \in Calls
  PROVE  /\ Len(s) \in Nat \ {0} /\ DOMAIN s = 1 .. Len(s) /\ s[Len(s)] \in Calls
         /\ [s EXCEPT ![Len(s)] = c] \in Seq(Calls)
         /\ [s EXCEPT ![Len(s)] = c] # <<>>
         /\ Len([s EXCEPT ![Len(s)] = c]) = Len(s)
         /\ [s EXCEPT ![Len(s)] = c][Len(s)] = c
         /\ \A i \in 1 .. Len(s) - 1 : [s EXCEPT ![Len(s)] = c][i] = s[i]
<1>1. Len(s) \in Nat \ {0} /\ DOMAIN s = 1 .. Len(s) /\ s[Len(s)] \in Calls
  OBVIOUS
<1>2. /\ [s EXCEPT ![Len(s)] = c] \in Seq(Calls)
      /\ Len([s EXCEPT ![Len(s)] = c]) = Len(s)
      /\ \A i \in 1 .. Len(s) : [s EXCEPT ![Len(s)] = c][i] = IF i = Len(s) THEN c ELSE s[i]
  BY <1>1, ExceptSeq
<1>3. /\ [s EXCEPT ![Len(s)] = c][Len(s)] = c
      /\ \A i \in 1 .. Len(s) - 1 : [s EXCEPT ![Len(s)] = c][i] = s[i]
  <2> DEFINE r == [s EXCEPT ![Len(s)] = c]
  <2>1. \A i \in 1 .. Len(s) : r[i] = IF i = Len(s) THEN c ELSE s[i]
    BY <1>2
  <2> HIDE DEF r
  <2>2. Len(s) \in 1 .. Len(s) /\ \A i \in 1 .. Len(s) - 1 : i \in 1 .. Len(s) /\ i # Len(s)
    BY <1>1, BelowTheTop
  <2>3. r[Len(s)] = c /\ \A i \in 1 .. Len(s) - 1 : r[i] = s[i]
    BY <2>1, <2>2
  <2> QED BY <2>3 DEF r
<1>4. [s EXCEPT ![Len(s)] = c] # <<>>
  BY <1>1, <1>2, EmptySeq
<1> QED BY <1>1, <1>2, <1>3, <1>4

LEMMA PopFacts ==
  ASSUME NEW s \in Seq(Calls), s # <<>>
  PROVE  /\ SubSeq(s, 1, Len(s) - 1) \in Seq(Calls)
         /\ Len(SubSeq(s, 1, Len(s) - 1)) = Len(s) - 1
         /\ \A i \in 1 .. Len(s) - 1 : SubSeq(s, 1, Len(s) - 1)[i] = s[i]
<1>1. Len(s) \in Nat \ {0}
  OBVIOUS
<1>2. \A i \in 1 .. Len(s) - 1 : s[i] \in Calls
  BY <1>1
<1>3. /\ SubSeq(s, 1, Len(s) - 1) \in Seq(Calls)
      /\ Len(SubSeq(s, 1, Len(s) - 1)) =
           IF 1 <= Len(s) - 1 THEN Len(s) - 1 - 1 + 1 ELSE 0
      /\ \A i \in 1 .. Len(s) - 1 - 1 + 1 : SubSeq(s, 1, Len(s) - 1)[i] = s[1 + i - 1]
  <2> DEFINE n == Len(s) - 1
  <2>1. n \in Int /\ \A i \in 1 .. n : s[i] \in Calls
    BY <1>1, <1>2
  <2> HIDE DEF n
  <2>2. /\ SubSeq(s, 1, n) \in Seq(Calls)
        /\ Len(SubSeq(s, 1, n)) = IF 1 <= n THEN n - 1 + 1 ELSE 0
        /\ \A i \in 1 .. n - 1 + 1 : SubSeq(s, 1, n)[i] = s[1 + i - 1]
    BY <2>1, SubSeqProperties
  <2> QED BY <2>2 DEF n
<1>4. Len(s) - 1 - 1 + 1 = Len(s) - 1
  BY <1>1
<1>5. \A i \in 1 .. Len(s) - 1 : 1 + i - 1 = i
  BY <1>1
<1> QED BY <1>1, <1>3, <1>4, <1>5

LEMMA ViewTop ==
  ASSUME view \in Seq(Calls), view # <<>>
  PROVE  /\ Len(view) \in Nat \ {0} /\ Top \in Calls
         /\ Top.timer \in TimerIds /\ Top.messages \in Messages
         /\ Top.at \in {"lock", "unlocked"}
<1>1. Len(view) \in Nat \ {0} /\ view[Len(view)] \in Calls
  OBVIOUS
<1> QED BY <1>1 DEF Top, Calls

-----------------------------------------------------------------------------
(* Types                                                                   *)

LEMMA PauseCallsFacts ==
  ASSUME NEW m \in 0..MaxMessages, NEW n \in m..MaxMessages
  PROVE  /\ PauseCalls(m, n) \in Messages
         /\ PauseCalls(m, n) \in Seq(Nat)
         /\ Len(PauseCalls(m, n)) = n - m /\ n - m \in Nat
         /\ \A i \in 1 .. n - m : PauseCalls(m, n)[i] = m + i
<1>1. n - m \in Nat /\ \A i \in 1 .. n - m : m + i \in 1..MaxMessages /\ m + i \in Nat
  BY BoundsAssumption
<1> QED BY <1>1 DEF PauseCalls, Messages

LEMMA MessagesConcat ==
  ASSUME NEW s \in Messages, NEW t \in Messages
  PROVE  s \o t \in Messages
BY DEF Messages

LEMMA MessagesAssociate ==
  ASSUME NEW s \in Messages, NEW t \in Messages, NEW u \in Messages
  PROVE  (s \o t) \o u = s \o (t \o u)
BY ConcatAssociative DEF Messages

LEMMA NoMessages == <<>> \in Messages
BY DEF Messages

LEMMA InitTypes == Init => TypeOK
<1> SUFFICES ASSUME Init PROVE TypeOK
  OBVIOUS
<1>1. view \in Seq(Calls)
  BY DEF Init
<1>2. timers \subseteq TimerIds /\ update_timeout_id \in TimerIds \cup {None}
  BY DEF Init
<1>3. idles \in 0..MaxIdles /\ raised \in 0..MaxMessages /\ overrun \in 0..3 /\ ahead \in Nat
  BY BoundsAssumption DEF Init
<1>4. m_pauseMessages \in Messages /\ pause_messages \in Messages /\ shown \in Messages
  BY NoMessages DEF Init
<1>5. /\ lock = "free" /\ sim = "test" /\ gtk = "loop"
      /\ go \in BOOLEAN /\ quit \in BOOLEAN /\ active \in BOOLEAN /\ sample_period \in Periods
  BY DEF Init
<1> QED BY <1>1, <1>2, <1>3, <1>4, <1>5 DEF TypeOK, Calls

LEMMA ThreadKeepsTypes ==
  ASSUME TypeOK, SimulationThread
  PROVE  TypeOK'
<1> USE DEF timerVars, simVars
<1>1. CASE TestQuit
  BY <1>1 DEF TestQuit, TypeOK
<1>2. CASE AwaitGo
  BY <1>2 DEF AwaitGo, TypeOK
<1>3. CASE ClearGo
  BY <1>3 DEF ClearGo, TypeOK
<1>4. CASE CheckQuit
  BY <1>4 DEF CheckQuit, TypeOK
<1>5. CASE BeginRound
  BY <1>5, NoMessages DEF BeginRound, TypeOK
<1>6. CASE RunUntil
  <2>1. raised' \in 0..MaxMessages /\ m_pauseMessages' \in Messages
    <3>1. /\ raised \in 0..MaxMessages /\ raised' \in raised..MaxMessages
          /\ m_pauseMessages' = m_pauseMessages \o PauseCalls(raised, raised')
      BY <1>6 DEF RunUntil, TypeOK
    <3>2. PauseCalls(raised, raised') \in Messages /\ raised' \in 0..MaxMessages
      BY <3>1, PauseCallsFacts, BoundsAssumption
    <3> QED BY <3>1, <3>2, MessagesConcat DEF TypeOK
  <2>2. ahead' \in Nat /\ overrun' \in 0..3
    BY <1>6 DEF RunUntil, TypeOK
  <2>3. /\ sim = "running" /\ sim' = "collect"
        /\ UNCHANGED <<lock, go, quit, sample_period, pause_messages, gtk, view, timers>>
        /\ UNCHANGED <<update_timeout_id, active, idles, shown>>
    BY <1>6 DEF RunUntil
  <2> QED BY <2>1, <2>2, <2>3 DEF TypeOK
<1>7. CASE CollectMessages
  <2>1. pause_messages' \in Messages
    BY <1>7, MessagesConcat DEF CollectMessages, TypeOK
  <2>2. idles' \in 0..MaxIdles
    BY <1>7, BoundsAssumption DEF CollectMessages, TypeOK
  <2> QED BY <1>7, <2>1, <2>2 DEF CollectMessages, TypeOK
<1>8. CASE EndRound
  BY <1>8 DEF EndRound, TypeOK
<1> QED BY <1>1, <1>2, <1>3, <1>4, <1>5, <1>6, <1>7, <1>8 DEF SimulationThread

LEMMA GtkKeepsTypes ==
  ASSUME TypeOK, Gtk
  PROVE  TypeOK'
<1> USE DEF timerVars, simVars
<1>1. view \in Seq(Calls)
  BY DEF TypeOK, Calls
<1>2. ASSUME StartUpdateTimer
      PROVE  timers' \subseteq TimerIds /\ update_timeout_id' \in TimerIds \cup {None}
  BY <1>2 DEF StartUpdateTimer, SourceRemove, TypeOK
<1>3. CASE \E t \in TimerIds : TimerFires(t)
  <2>1. PICK t \in TimerIds : TimerFires(t)
    BY <1>3
  <2>2. [timer |-> t, at |-> "lock", messages |-> <<>>] \in Calls
    BY NoMessages DEF Calls
  <2>3. view' \in Seq(Calls)
    BY <1>1, <2>1, <2>2, StackFacts DEF TimerFires
  <2> QED BY <2>1, <2>3 DEF TimerFires, TypeOK, Calls
<1>4. CASE UpdateView
  <2> DEFINE call == [Top EXCEPT !.at = "unlocked", !.messages = pause_messages]
  <2>1. view # <<>>
    BY <1>4 DEF UpdateView, Waiting
  <2>2. call \in Calls
    BY <1>1, <2>1, ViewTop DEF Calls, TypeOK
  <2>3. view' \in Seq(Calls)
    BY <1>1, <1>4, <2>1, <2>2, TopFacts DEF UpdateView, WithTop
  <2>4. ahead' \in Nat /\ pause_messages' \in Messages
    BY <1>4, NoMessages, BoundsAssumption DEF UpdateView, TypeOK
  <2> QED BY <1>4, <2>3, <2>4 DEF UpdateView, TypeOK, Calls
<1>5. CASE FinishView
  <2>1. view # <<>>
    BY <1>5 DEF FinishView
  <2>2. view' \in Seq(Calls)
    BY <1>1, <1>5, <2>1, PopFacts DEF FinishView, Pop
  <2>3. shown' \in Messages
    BY <1>1, <1>5, <2>1, ViewTop, MessagesConcat DEF FinishView, TypeOK
  <2>4. timers' \subseteq TimerIds /\ update_timeout_id' \in TimerIds \cup {None}
    <3>1. timers' \subseteq timers
      BY <1>5 DEF FinishView, SourceRemove
    <3>2. update_timeout_id' \in {update_timeout_id, None}
      BY <1>5 DEF FinishView
    <3> QED BY <3>1, <3>2 DEF TypeOK
  <2>5. active' \in BOOLEAN /\ go' \in BOOLEAN /\ overrun' \in 0..3
    <3>1. active' \in BOOLEAN
      BY <1>5 DEF FinishView
    <3>2. go' = go \/ go' = TRUE
      BY <1>5 DEF FinishView
    <3>3. go' \in BOOLEAN
      BY <3>2, Zenon DEF TypeOK
    <3>4. overrun' \in {overrun, 0}
      BY <1>5 DEF FinishView
    <3>5. overrun' \in 0..3
      BY <3>4 DEF TypeOK
    <3> QED BY <3>1, <3>3, <3>5
  <2>6. UNCHANGED <<lock, quit, ahead, sample_period, pause_messages, simVars, gtk, idles>>
    BY <1>5 DEF FinishView
  <2> QED BY <2>2, <2>3, <2>4, <2>5, <2>6 DEF TypeOK, Calls
<1>6. CASE PlayButtonToggled
  <2>1. timers' \subseteq TimerIds /\ update_timeout_id' \in TimerIds \cup {None}
    BY <1>2, <1>6 DEF PlayButtonToggled, SourceRemove, TypeOK
  <2> QED BY <1>6, <2>1 DEF PlayButtonToggled, TypeOK
<1>7. CASE SpeedChanged
  BY <1>2, <1>7 DEF SpeedChanged, TypeOK
<1>8. CASE DispatchLocking
  <2>1. idles' \in 0..MaxIdles
    BY <1>8, BoundsAssumption DEF DispatchLocking, TypeOK
  <2> QED BY <1>8, <2>1 DEF DispatchLocking, TypeOK
<1>9. CASE RunLocking \/ QuitWakes \/ Join \/ MainReturns
  BY <1>9 DEF RunLocking, QuitWakes, Join, MainReturns, TypeOK
<1>10. CASE Quit
  BY <1>10 DEF Quit, SourceRemove, TypeOK
<1> QED BY <1>3, <1>4, <1>5, <1>6, <1>7, <1>8, <1>9, <1>10 DEF Gtk

LEMMA NextTypes == TypeOK /\ [Next]_vars => TypeOK'
<1>1. TypeOK /\ UNCHANGED vars => TypeOK'
  BY DEF vars, TypeOK
<1> QED BY <1>1, ThreadKeepsTypes, GtkKeepsTypes DEF Next

-----------------------------------------------------------------------------
(* Rounds after a pause                                                    *)

\* The round under way will run, unless the window was closed before.
InRound ==
  IF sim \in {"acquire", "running"} \/ (sim \in {"clear", "check"} /\ ~quit) THEN 1 ELSE 0

\* The thread was told to go once more, and has not forgotten it.
ToldToGo == IF go /\ ~quit /\ sim # "clear" THEN 1 ELSE 0

PauseInv ==
  /\ gtk \in {"wake", "join"} => quit
  /\ overrun <= 2
  /\ ~active => overrun + InRound + ToldToGo <= 2

LEMMA NextPause == TypeOK /\ PauseInv /\ [Next]_vars => PauseInv'
<1> SUFFICES ASSUME TypeOK, PauseInv, [Next]_vars PROVE PauseInv'
  OBVIOUS
<1> USE DEF simVars, PauseInv, InRound, ToldToGo
<1>1. overrun \in 0..3 /\ active \in BOOLEAN /\ go \in BOOLEAN /\ quit \in BOOLEAN
  BY DEF TypeOK
<1>2. CASE SimulationThread
  <2>1. CASE TestQuit \/ AwaitGo \/ ClearGo \/ CheckQuit
    BY <1>1, <2>1 DEF TestQuit, AwaitGo, ClearGo, CheckQuit
  <2>2. CASE BeginRound \/ CollectMessages \/ EndRound
    BY <1>1, <2>2 DEF BeginRound, CollectMessages, EndRound
  <2>3. CASE RunUntil
    <3>1. /\ sim = "running" /\ sim' = "collect" /\ UNCHANGED <<go, quit, active, gtk>>
          /\ overrun' = overrun \/ (~active /\ overrun' = overrun + 1)
      BY <2>3 DEF RunUntil
    <3> QED BY <1>1, <3>1
  <2> QED BY <1>2, <2>1, <2>2, <2>3 DEF SimulationThread
<1>3. CASE FinishView
  <2>1. /\ UNCHANGED <<sim, quit, gtk>> /\ active' \in BOOLEAN
        /\ \/ active' /\ overrun' = overrun
           \/ active /\ ~active' /\ overrun' = 0
           \/ ~active /\ ~active' /\ overrun' = overrun /\ go' = go
    BY <1>1, <1>3 DEF FinishView
  <2> QED BY <1>1, <2>1
<1>4. CASE PlayButtonToggled
  <2>1. UNCHANGED <<sim, quit, go, gtk>> /\ overrun' = 0
    BY <1>4 DEF PlayButtonToggled
  <2> QED BY <1>1, <2>1
<1>5. CASE Quit \/ QuitWakes
  <2>1. /\ UNCHANGED <<sim, overrun, active>> /\ (quit => quit')
        /\ go' = go \/ QuitWakes
    BY <1>5 DEF Quit, QuitWakes
  <2>2. (QuitWakes => quit) /\ (gtk' \in {"wake", "join"} => quit')
    BY <1>5 DEF Quit, QuitWakes
  <2> QED BY <1>1, <2>1, <2>2
<1>6. CASE \/ \E t \in TimerIds : TimerFires(t)
           \/ UpdateView \/ SpeedChanged \/ DispatchLocking \/ RunLocking \/ Join \/ MainReturns
           \/ UNCHANGED vars
  <2>1. /\ UNCHANGED <<sim, quit, go, overrun, active>>
        /\ gtk' \in {"wake", "join"} => gtk \in {"wake", "join"}
    BY <1>6 DEF TimerFires, UpdateView, SpeedChanged, DispatchLocking, RunLocking, Join,
                MainReturns, vars
  <2> QED BY <1>1, <2>1
<1> QED BY <1>2, <1>3, <1>4, <1>5, <1>6 DEF Next, Gtk

-----------------------------------------------------------------------------
(* Pause messages                                                          *)

\* Only the innermost view update is past its wait for the lock, and only it
\* holds messages.
StackInv ==
  /\ \A i \in 1 .. Len(view) - 1 : view[i].at = "lock"
  /\ \A i \in 1 .. Len(view) : view[i].at = "lock" => view[i].messages = <<>>

\* The round under way has not raised a message yet.
FreshRound == sim = "running" => m_pauseMessages = <<>>

Raised == IF sim = "collect" THEN m_pauseMessages ELSE <<>>

MInv == TypeOK /\ StackInv /\ FreshRound /\ EveryMessageShownOnce

LEMMA ViewIsAStack ==
  ASSUME TypeOK
  PROVE  view \in Seq(Calls) /\ Len(view) \in Nat /\ (view # <<>> => Len(view) # 0)
<1>1. view \in Seq(Calls)
  BY DEF TypeOK, Calls
<1> QED BY <1>1, EmptySeq, LenProperties

LEMMA TakenIsMessages ==
  ASSUME TypeOK
  PROVE  Taken \in Messages /\ Raised \in Messages
BY ViewIsAStack, ViewTop, NoMessages DEF TypeOK, Taken, Raised

\* While the main loop dispatches, no view update holds messages.
LEMMA NothingTaken ==
  ASSUME TypeOK, StackInv, view = <<>> \/ Waiting
  PROVE  Taken = <<>>
<1>1. CASE view = <<>>
  BY <1>1 DEF Taken
<1>2. CASE view # <<>>
  <2>1. Top.at = "lock" /\ Len(view) \in Nat \ {0}
    BY <1>2, ViewIsAStack DEF Waiting
  <2>2. Len(view) \in 1 .. Len(view) /\ Top = view[Len(view)]
    BY <2>1 DEF Top
  <2> QED BY <1>2, <2>1, <2>2 DEF StackInv, Taken
<1> QED BY <1>1, <1>2

\* Steps that touch neither the stack nor the messages.
LEMMA NoMessageMoves ==
  ASSUME MInv, UNCHANGED <<view, pause_messages, shown, raised>>,
         Raised' = Raised, FreshRound'
  PROVE  StackInv' /\ FreshRound' /\ EveryMessageShownOnce'
<1>1. StackInv'
  BY DEF MInv, StackInv
<1>2. Taken' = Taken
  BY DEF Taken, Top
<1>3. EveryMessageShownOnce'
  BY <1>2 DEF MInv, EveryMessageShownOnce, Raised
<1> QED BY <1>1, <1>3

LEMMA InOrderGrows ==
  ASSUME NEW m \in 0..MaxMessages, NEW n \in m..MaxMessages
  PROVE  InOrder(m) \o PauseCalls(m, n) = InOrder(n)
<1>1. m \in Nat /\ n \in Nat /\ n - m \in Nat /\ m + (n - m) = n
  BY BoundsAssumption
<1>2. /\ InOrder(m) \in Seq(Nat) /\ Len(InOrder(m)) = m /\ \A i \in 1 .. m : InOrder(m)[i] = i
      /\ InOrder(n) \in Seq(Nat) /\ Len(InOrder(n)) = n /\ \A i \in 1 .. n : InOrder(n)[i] = i
  BY <1>1 DEF InOrder
<1> DEFINE s == InOrder(m)
           t == PauseCalls(m, n)
<1>3. /\ s \in Seq(Nat) /\ Len(s) = m
      /\ t \in Seq(Nat) /\ Len(t) = n - m /\ \A i \in 1 .. n - m : t[i] = m + i
  BY <1>2, PauseCallsFacts
<1> HIDE DEF s, t
<1>4. /\ s \o t \in Seq(Nat) /\ Len(s \o t) = n
      /\ \A i \in 1 .. n : (s \o t)[i] = IF i <= m THEN s[i] ELSE t[i - m]
  <2>1. /\ s \o t \in Seq(Nat) /\ Len(s \o t) = Len(s) + Len(t)
        /\ \A i \in 1 .. Len(s) + Len(t) :
             (s \o t)[i] = IF i <= Len(s) THEN s[i] ELSE t[i - Len(s)]
    BY <1>3, ConcatProperties
  <2>2. Len(s) = m /\ Len(s) + Len(t) = n
    BY <1>1, <1>3
  <2> QED BY <2>1, <2>2
<1>5. ASSUME NEW i \in 1 .. n PROVE (s \o t)[i] = InOrder(n)[i]
  <2>1. CASE i <= m
    <3>1. i \in 1 .. m
      BY <1>1, <2>1
    <3> QED BY <1>2, <1>4, <2>1, <3>1 DEF s
  <2>2. CASE ~(i <= m)
    <3>1. i - m \in 1 .. n - m /\ m + (i - m) = i
      BY <1>1, <2>2
    <3> QED BY <1>2, <1>3, <1>4, <2>2, <3>1
  <2> QED BY <2>1, <2>2
<1>6. s \o t = InOrder(n)
  BY <1>2, <1>4, <1>5, SeqEqual
<1> QED BY <1>6 DEF s, t

\* The messages of a round come to an empty list, in the order of the calls.
LEMMA RunMessages ==
  ASSUME MInv, RunUntil
  PROVE  StackInv' /\ FreshRound' /\ EveryMessageShownOnce'
<1> DEFINE X == shown \o Taken \o pause_messages
<1>1. /\ sim = "running" /\ sim' = "collect" /\ m_pauseMessages = <<>>
      /\ UNCHANGED <<view, pause_messages, shown>>
  BY DEF RunUntil, MInv, FreshRound
<1>2. StackInv' /\ FreshRound' /\ Taken' = Taken
  BY <1>1 DEF MInv, StackInv, FreshRound, Taken, Top
<1>3. X \in Messages
  BY TakenIsMessages, MessagesConcat DEF MInv, TypeOK
<1>4. X = InOrder(raised) /\ X \o <<>> = X
  <2>1. X \o <<>> = X
    BY <1>3, ConcatEmptySeq DEF Messages
  <2> QED BY <1>1, <2>1 DEF MInv, EveryMessageShownOnce
<1>5. shown' \o Taken' \o pause_messages' = X
  BY <1>1, <1>2
<1> HIDE DEF X
<1>6. X \o m_pauseMessages' = InOrder(raised')
  <2>1. /\ raised \in 0..MaxMessages /\ raised' \in raised..MaxMessages
        /\ m_pauseMessages' = <<>> \o PauseCalls(raised, raised')
    BY <1>1 DEF RunUntil, MInv, TypeOK
  <2>2. m_pauseMessages' = PauseCalls(raised, raised')
    <3>1. PauseCalls(raised, raised') \in Seq(Nat)
      BY <2>1, PauseCallsFacts
    <3> QED BY <2>1, <3>1, ConcatEmptySeq
  <2> QED BY <1>4, <2>1, <2>2, InOrderGrows
<1> QED BY <1>1, <1>2, <1>5, <1>6 DEF EveryMessageShownOnce

LEMMA CollectMoves ==
  ASSUME MInv, CollectMessages
  PROVE  StackInv' /\ FreshRound' /\ EveryMessageShownOnce'
<1> DEFINE X == shown \o Taken
<1>1. /\ sim = "collect" /\ sim' = "release"
      /\ pause_messages' = pause_messages \o m_pauseMessages
      /\ UNCHANGED <<view, shown, raised>>
  BY DEF CollectMessages
<1>2. StackInv' /\ FreshRound' /\ Taken' = Taken
  BY <1>1 DEF MInv, StackInv, FreshRound, Taken, Top
<1>3. /\ X \in Messages /\ pause_messages \in Messages /\ m_pauseMessages \in Messages
  BY TakenIsMessages, MessagesConcat DEF MInv, TypeOK
<1>4. X \o pause_messages \o m_pauseMessages = InOrder(raised)
  BY <1>1 DEF MInv, EveryMessageShownOnce
<1>5. shown' \o Taken' = X
  BY <1>1, <1>2
<1> HIDE DEF X
<1>6. X \o (pause_messages \o m_pauseMessages) = InOrder(raised)
  <2>1. X \o pause_messages \o m_pauseMessages = X \o (pause_messages \o m_pauseMessages)
    BY <1>3, MessagesAssociate
  <2> QED BY <1>4, <2>1
<1>7. X \o pause_messages' \in Messages /\ X \o pause_messages' = InOrder(raised)
  BY <1>1, <1>3, <1>6, MessagesConcat
<1>8. X \o pause_messages' \o <<>> = InOrder(raised)
  <2> DEFINE Y == X \o pause_messages'
  <2>1. Y \in Seq(1..MaxMessages) /\ Y = InOrder(raised)
    BY <1>7 DEF Messages
  <2> HIDE DEF Y
  <2>2. Y \o <<>> = Y
    BY <2>1, ConcatEmptySeq
  <2> QED BY <2>1, <2>2 DEF Y
<1> QED BY <1>1, <1>2, <1>5, <1>8 DEF EveryMessageShownOnce

LEMMA FireMessages ==
  ASSUME MInv, NEW t \in TimerIds, TimerFires(t)
  PROVE  StackInv' /\ FreshRound' /\ EveryMessageShownOnce'
<1> DEFINE c == [timer |-> t, at |-> "lock", messages |-> <<>>]
<1>1. /\ view' = Append(view, c)
      /\ view = <<>> \/ Waiting
      /\ UNCHANGED <<sim, m_pauseMessages, raised, pause_messages, shown>>
  BY DEF TimerFires, Dispatching, simVars
<1>2. view \in Seq(Calls) /\ c \in Calls
  BY ViewIsAStack, NoMessages DEF MInv, Calls
<1>3. c.at = "lock" /\ c.messages = <<>>
  OBVIOUS
<1> HIDE DEF c
<1>4. /\ Len(view) \in Nat /\ Len(view') = Len(view) + 1 /\ view' # <<>>
      /\ \A i \in 1 .. Len(view) : view'[i] = view[i]
      /\ view'[Len(view) + 1] = c
  BY <1>1, <1>2, StackFacts
<1>5. \A i \in 1 .. Len(view) : view[i].at = "lock" /\ view[i].messages = <<>>
  <2>1. CASE view = <<>>
    BY <1>4, <2>1
  <2>2. CASE view # <<>>
    <3>1. view[Len(view)].at = "lock"
      BY <1>1, <2>2 DEF Waiting, Top
    <3>2. \A i \in 1 .. Len(view) : i \in 1 .. Len(view) - 1 \/ i = Len(view)
      BY <1>4
    <3> QED BY <3>1, <3>2 DEF MInv, StackInv
  <2> QED BY <2>1, <2>2
<1>6. \A i \in 1 .. Len(view') : i \in 1 .. Len(view) \/ i = Len(view) + 1
  BY <1>4
<1>7. \A i \in 1 .. Len(view') : view'[i].at = "lock" /\ view'[i].messages = <<>>
  BY <1>3, <1>4, <1>5, <1>6
<1>8. StackInv'
  <2>1. \A i \in 1 .. Len(view') - 1 : i \in 1 .. Len(view')
    BY <1>4
  <2> QED BY <1>7, <2>1 DEF StackInv
<1>9. Taken' = <<>> /\ Taken = <<>>
  <2>1. Taken' = c.messages
    BY <1>4 DEF Taken, Top
  <2> QED BY <1>1, <1>3, <2>1, NothingTaken DEF MInv
<1>10. EveryMessageShownOnce'
  BY <1>1, <1>9 DEF MInv, EveryMessageShownOnce
<1> QED BY <1>1, <1>8, <1>10 DEF MInv, FreshRound

\* The messages go from the thread's list to the view update that shows them.
LEMMA UpdateMessages ==
  ASSUME MInv, UpdateView
  PROVE  StackInv' /\ FreshRound' /\ EveryMessageShownOnce'
<1> DEFINE c == [Top EXCEPT !.at = "unlocked", !.messages = pause_messages]
           n == Len(view)
<1>1. /\ view # <<>> /\ Waiting
      /\ view' = [view EXCEPT ![n] = c] /\ pause_messages' = <<>>
      /\ UNCHANGED <<sim, m_pauseMessages, raised, shown>>
  BY DEF UpdateView, Waiting, WithTop, simVars
<1>2. view \in Seq(Calls) /\ Top \in Calls /\ pause_messages \in Messages
  BY <1>1, ViewIsAStack, ViewTop DEF MInv, TypeOK
<1>3. c \in Calls /\ c.at = "unlocked" /\ c.messages = pause_messages
  BY <1>2 DEF Calls
<1> HIDE DEF c
<1>4. /\ n \in Nat \ {0} /\ view' # <<>> /\ Len(view') = n
      /\ view'[n] = c /\ \A i \in 1 .. n - 1 : view'[i] = view[i]
  BY <1>1, <1>2, <1>3, TopFacts
<1> HIDE DEF n
<1>5. StackInv'
  <2>1. \A i \in 1 .. n : i \in 1 .. n - 1 \/ i = n
    BY <1>4
  <2>2. \A i \in 1 .. n - 1 : i \in 1 .. n
    BY <1>4
  <2>3. \A i \in 1 .. n - 1 : view'[i].at = "lock" /\ view'[i].messages = <<>>
    BY <1>4, <2>2 DEF MInv, StackInv, n
  <2> QED BY <1>3, <1>4, <2>1, <2>3 DEF StackInv
<1>6. Taken = <<>> /\ Taken' = pause_messages
  <2>1. Taken' = view'[n].messages
    BY <1>4 DEF Taken, Top
  <2> QED BY <1>1, <1>3, <1>4, <2>1, NothingTaken DEF MInv
<1>7. shown \o <<>> \o pause_messages = shown \o pause_messages \o <<>>
  <2>1. shown \in Messages /\ shown \o pause_messages \in Messages
    BY <1>2, MessagesConcat DEF MInv, TypeOK
  <2> QED BY <2>1, ConcatEmptySeq DEF Messages
<1>8. EveryMessageShownOnce'
  BY <1>1, <1>6, <1>7 DEF MInv, EveryMessageShownOnce
<1> QED BY <1>1, <1>5, <1>8 DEF MInv, FreshRound

LEMMA FinishMessages ==
  ASSUME MInv, FinishView
  PROVE  StackInv' /\ FreshRound' /\ EveryMessageShownOnce'
<1> DEFINE n == Len(view)
<1>1. /\ view # <<>> /\ view' = SubSeq(view, 1, n - 1)
      /\ shown' = shown \o Top.messages
      /\ UNCHANGED <<sim, m_pauseMessages, raised, pause_messages>>
  BY DEF FinishView, Pop, simVars
<1>2. view \in Seq(Calls) /\ Taken = Top.messages /\ Taken \in Messages /\ shown \in Messages
  BY <1>1, ViewIsAStack, TakenIsMessages DEF MInv, TypeOK, Taken
<1>3. /\ n \in Nat \ {0} /\ view' \in Seq(Calls) /\ Len(view') = n - 1
      /\ \A i \in 1 .. n - 1 : view'[i] = view[i]
  BY <1>1, <1>2, PopFacts, ViewTop
<1>4. \A i \in 1 .. n - 1 : view[i].at = "lock" /\ view[i].messages = <<>>
  <2>1. \A i \in 1 .. n - 1 : i \in 1 .. n
    BY <1>3
  <2> QED BY <2>1 DEF MInv, StackInv
<1> HIDE DEF n
<1>5. StackInv'
  <2>1. \A i \in 1 .. Len(view') - 1 : i \in 1 .. n - 1
    BY <1>3
  <2> QED BY <1>3, <1>4, <2>1 DEF StackInv
<1>6. Taken' = <<>>
  <2>1. CASE view' = <<>>
    BY <2>1 DEF Taken
  <2>2. CASE view' # <<>>
    <3>1. Len(view') \in 1 .. n - 1
      BY <1>3, <2>2, EmptySeq
    <3> QED BY <1>3, <1>4, <2>2, <3>1 DEF Taken, Top
  <2> QED BY <2>1, <2>2
<1>7. shown' \o Taken' = shown \o Taken
  <2>1. shown \o Taken \in Messages
    BY <1>2, MessagesConcat
  <2>2. shown \o Taken \o <<>> = shown \o Taken
    BY <2>1, ConcatEmptySeq DEF Messages
  <2> QED BY <1>1, <1>2, <1>6, <2>2
<1>8. EveryMessageShownOnce'
  BY <1>1, <1>7 DEF MInv, EveryMessageShownOnce
<1> QED BY <1>1, <1>5, <1>8 DEF MInv, FreshRound

LEMMA InitMessages == Init => StackInv /\ FreshRound /\ EveryMessageShownOnce
<1> SUFFICES ASSUME Init PROVE StackInv /\ FreshRound /\ EveryMessageShownOnce
  OBVIOUS
<1>1. StackInv /\ FreshRound
  BY DEF Init, StackInv, FreshRound
<1>2. InOrder(0) = <<>>
  BY DEF InOrder
<1>3. Taken = <<>> /\ shown = <<>> /\ pause_messages = <<>> /\ raised = 0 /\ sim = "test"
  BY DEF Init, Taken
<1>4. <<>> \o <<>> \o <<>> \o <<>> = <<>>
  BY NoMessages, ConcatEmptySeq DEF Messages
<1> QED BY <1>1, <1>2, <1>3, <1>4 DEF EveryMessageShownOnce

LEMMA NextMessages == MInv /\ [Next]_vars => MInv'
<1> SUFFICES ASSUME MInv, [Next]_vars PROVE StackInv' /\ FreshRound' /\ EveryMessageShownOnce'
  BY NextTypes DEF MInv
<1> USE DEF simVars, timerVars
<1>1. CASE TestQuit \/ AwaitGo \/ ClearGo \/ CheckQuit \/ BeginRound \/ EndRound
  <2>1. UNCHANGED <<view, pause_messages, shown, raised>>
    BY <1>1 DEF TestQuit, AwaitGo, ClearGo, CheckQuit, BeginRound, EndRound
  <2>2. Raised' = Raised /\ FreshRound'
    BY <1>1 DEF TestQuit, AwaitGo, ClearGo, CheckQuit, BeginRound, EndRound, Raised, FreshRound
  <2> QED BY <2>1, <2>2, NoMessageMoves
<1>2. CASE \/ PlayButtonToggled \/ SpeedChanged \/ DispatchLocking \/ RunLocking
           \/ Quit \/ QuitWakes \/ Join \/ MainReturns \/ UNCHANGED vars
  <2>1. UNCHANGED <<view, pause_messages, shown, raised, sim, m_pauseMessages>>
    BY <1>2 DEF PlayButtonToggled, SpeedChanged, DispatchLocking, RunLocking, Quit, QuitWakes,
                Join, MainReturns, vars
  <2>2. Raised' = Raised /\ FreshRound'
    BY <2>1 DEF MInv, Raised, FreshRound
  <2> QED BY <2>1, <2>2, NoMessageMoves
<1> QED BY <1>1, <1>2, RunMessages, CollectMoves, FireMessages, UpdateMessages, FinishMessages
        DEF Next, SimulationThread, Gtk

-----------------------------------------------------------------------------
(* The theorems                                                            *)

\* The variables keep their types, and the simulation thread holds the lock
\* exactly during a round (core.py:371-394).
THEOREM VisualizerTypes == Spec => []TypeOK
BY InitTypes, NextTypes, PTL DEF Spec

\* Every pause message reaches one dialog, in order, however the view updates
\* nest and whenever the rounds begin and end (core.py:390, 1063-1076).
THEOREM MessagesAreShownOnce == Spec => []EveryMessageShownOnce
<1>1. Init => MInv
  BY InitTypes, InitMessages DEF MInv
<1>2. MInv => EveryMessageShownOnce
  BY DEF MInv
<1> QED BY <1>1, <1>2, NextMessages, PTL DEF Spec

\* After play is released at most two more rounds advance the model: the one
\* under way and the one the Event `go' remembers (core.py:371-394, 1080).
THEOREM PauseTakesEffect == Spec => []PausedModelStops
<1>1. Init => PauseInv
  BY DEF Init, PauseInv, InRound, ToldToGo
<1>2. PauseInv => PausedModelStops
  BY DEF PauseInv, PausedModelStops
<1>3. TypeOK /\ PauseInv /\ [Next]_vars => PauseInv'
  BY NextPause
<1> QED BY <1>1, <1>2, <1>3, VisualizerTypes, PTL DEF Spec
=============================================================================
