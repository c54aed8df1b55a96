# A TLA+ model of the NTU-DSI-DCN simulator

The repository is NTU-DSI-DCN, a data-centre network simulator: a fork of
ns-3.13 (`src/src/<module>/model`) with scripts that build Fat-tree, BCube and
file-described topologies (`src/scratch/*.cc`), run traffic over them, on one
processor or distributed with MPI, and collect flow statistics. Around the
simulator stand Python programs: a live visualizer and the test driver.

Every result of the simulator rests on three promises: the executive runs
events in time order and loses none, the distributed executive does the same
across processes, and the network components (devices, queues, protocols) do
what their real counterparts do. The two Python programs add one of their own:
threads that share a simulator, or queues of jobs, lose nothing. This directory specifies those parts in TLA+,
checks them with TLC on small instances and proves the central invariants with
TLAPS for every value of the constants.

## 1. Inventory

Paths are relative to `src/src`.

| Part | State | Operations | What makes it correct |
|---|---|---|---|
| Simulation executive, `core/model/default-simulator-impl.cc` | event list, destroy list, `m_uid`, `m_currentTs`, `m_currentUid`, `m_unscheduledEvents`, `m_stop` | Schedule*, ScheduleDestroy, Cancel, Remove, IsExpired, Stop, Run, RunOneEvent, Destroy | events run once, in (time, uid) order, never in the past; cancelled ones never run; expired ids are recognised although ids outlive their events |
| Event lists, `core/model/*-scheduler.cc` | sorted list, map, binary heap, calendar of buckets with width and search position | Insert, PeekNext, RemoveNext, Remove; exchanged at run time by `SetScheduler` | always the least key, nothing lost, whatever happened before |
| Distributed executive, `mpi/model` | per rank: event list, lookahead, granted time, rx/tx counts; messages in MPI | LBTS rounds over `MPI_Allgather`, `SendPacket`, `ReceiveMessages` | no rank receives a message from its past; all ranks return from Run |
| Realtime executive, `core/model/realtime-simulator-impl.cc`, `wall-clock-synchronizer.cc`, `unix-system-condition.cc` | event list under `m_mutex`, the condition and its own mutex, the clock origin | Schedule* from any thread, the wait in sleep and spin, Run, Stop, Remove | never early, no lost wake-up, no thread stuck |
| Point-to-point link, `point-to-point/model`, `network/utils/drop-tail-queue.cc` | transmit machine, current packet, queue with two sets of counters, channel ends, the link's events | Attach, Send, TransmitStart, TransmitComplete, Receive, SetDataRate | an accepted packet arrives once and in order, no faster than the line; the queue keeps its limit |
| CSMA bus, `csma/model` | channel IDLE/TRANSMITTING/PROPAGATING, device READY/BUSY/GAP/BACKOFF, current packet, queue, back-off counter, send and receive enabled | Send, TransmitStart with carrier sense, back-off, TransmitAbort, the completion, ready and propagation events, Receive, SetSendEnable, SetReceiveEnable, Detach, Reattach | one frame at a time, every accepted packet sent or dropped once and in order, no device stuck |
| Live visualizer, `visualizer/visualizer/core.py`, `visualizer/model/pyviz.cc` | the lock, the Event `go`, `quit`, target time, pause messages, timeout sources, the play button | the thread's rounds, the view update and the main loop nested in it, play, speed, quit | every pause message shown once, pause takes effect, closing the window ends both threads |
| Test driver, `test.py` (at the top of the repository) | input and output queue, the worker threads' jobs, `thread_exit`, return codes, the results file | dispatch, work, collect, join, the SIGINT handler | every job comes back once, the exit code tells the truth, the run ends |
| ARP, `internet/model/arp-*.cc` | entries ALIVE, WAIT_REPLY, DEAD with pending packets, one timer | Lookup, Receive, HandleWaitReplyTimeout | pending packets are sent or dropped, retries are bounded, the timer runs while someone waits |
| IPv4, `internet/model/ipv4-l3-protocol.cc` | fragments under reassembly with a timer each | Send, Receive, forward, reassemble | TTL, no mix-up of fragments, nothing kept for ever |
| TCP, `internet/model/tcp-*.cc` | connection state, tx/rx buffers, congestion state, timers | connect, close, send, receive, retransmit | in-order delivery over a lossy link, progress, clean close |
| Global and nix-vector routing | link-state database, SPF candidates; nix cache | compute, look up, flush | shortest paths; no stale cache entry used |
| Flow monitor, bridge, applications | tracked packets; learning table; one timer each | packet events; learning and expiry; start, stop | every packet accounted for once |
| Wi-Fi, WiMAX, LTE, UAN, mesh, AODV, DSDV, OLSR, spectrum, energy, emulation, OpenFlow, Click, tracing, build | | | not used by the data-centre scripts, or continuous, or external: not modelled |

**Interactions.** Components call each other in one thread and postpone work by
scheduling events; the executive calls back. The realtime executive adds
posting threads (`emu`, `tap-bridge` read threads), the distributed one adds
processes that exchange packets and a barrier. The visualizer runs the executive
in a thread of its own, round by round, and reads the model between rounds; the
test driver starts the programs as processes, from several threads. A packet object is shared by
pointer between a sender, the event list and a receiver.

**What is hard.** Handlers that schedule, cancel, remove and stop while the
loop is running; ids that outlive their events; data structures whose search
position is a cache of the past; lookahead computed from link attributes;
messages reported late and out of order; a condition variable used with two
mutexes; a transmit machine served from three places; a shared medium sensed in
one event and used in another, by devices that are disabled and detached
meanwhile; a callback that runs the main loop while it waits for a lock; a
signal in the middle of a hand-over between queues. `PROJECT.json` lists
these hazards line by line with the properties that cover them.

## 2. Modules

| Module | Stands for | Composes |
|---|---|---|
| `EventLoop` | abstract: what an executive promises | |
| `Simulator` | `DefaultSimulatorImpl`, `EventId`, `EventImpl` | refines `EventLoop` |
| `EventKeys`, `ListScheduler`, `MapScheduler`, `HeapScheduler`, `CalendarScheduler`, `Ns2CalendarScheduler` | the event lists, as operators on their data layout | |
| `EventQueue` | abstract: what an event list promises the executive | |
| `Schedulers` | their interface: one of them in use beside the plain set it stands for, and `SetScheduler` | all five, refines `EventQueue` |
| `DistributedSim` | `DistributedSimulatorImpl`, `MpiInterface`, `PointToPointRemoteChannel` of all ranks | |
| `RealtimeSim` | `RealtimeSimulatorImpl`, `WallClockSynchronizer`, `SystemCondition`, posting threads | |
| `FifoLink` | abstract: what a full-duplex link promises | |
| `DropTailQueue` | `DropTailQueue` and the counters of `Queue`, as operators | |
| `PointToPoint` | two devices and their channel | uses `DropTailQueue`, refines `FifoLink` |
| `Csma` | the stations and the channel of a bus | |
| `Visualizer` | `SimulationThread`, the GTK callbacks of `Visualizer`, `PyViz::SimulatorRunUntil` | |
| `TestRunner` | `run_tests`, `worker_thread`, `sigint_hook` | |
| `SimulatorProofs`, `SchedulersProofs`, `DistributedSimProofs`, `RealtimeSimProofs`, `PointToPointProofs`, `CsmaProofs`, `VisualizerProofs`, `TestRunnerProofs` | theorems | extend the module they are about |
| `MC*` | instances for TLC | |

### Simulator

State variables are the members of the class. `pc` says who has control: the
script, `Run`'s loop, an event handler, `RunOneEvent`, `Destroy`'s loop, a
destroy handler. Every public method is an action enabled whenever client code
has control, so the model covers every script and every handler. An EventImpl
is named by the uid counter at its creation; `ids`, `ran`, `ranDestroy` and
`withdrawn` are histories used by properties only. Destroy events are cancelled,
removed and tested for expiration like others, as the code and its tests do
(see Findings for what `simulator.h` says). `stoppers` are the events
`Stop (time)` makes. The event list is a set; that the schedulers implement
this set is the subject of `Schedulers`, which refines `EventQueue`.

`Stop (time)` being an ordinary event, events scheduled earlier for the very
stop time still run before `Run` returns, against `simulator.h:134` ("greater
than or equal to the stop time"); the model has this behaviour.

### Schedulers

Each scheduler module gives `Empty`, `Insert`, `PeekNext`, `RemoveNext`,
`Remove` and `WellFormed` on its own data: sequences for the list and the heap,
buckets with width, last position and size for the calendars, including the
calendar's resize and width computation. `Schedulers` drives the one in use as
the executives do (nothing inserted behind the last event taken) and exchanges
it at any moment. The loops of the code (the heap's exchanges, the sampling of
gaps, the refilling of buckets, the move of all events to another list) are
recursive functions of the number of turns taken. The ns-2 calendar keeps its
initial four buckets; its resize is not modelled.

### DistributedSim

One copy of the members per rank, `network` for the messages MPI holds. `pc`
follows `Run`: the scan of remote channels for the lookahead, the loop, a
handler, the receive phase, the barrier. `Allgather` is one action of all
ranks, enabled when all are there. A message is received in any order and
after any delay, but `MPI_Allgather` returns only when each rank has called it.
Totals of the counts are cardinalities, so they can be reasoned about without
recursion.

### RealtimeSim

A critical section of `m_mutex` is one step, except posting, which keeps the
mutex while it takes the condition's own mutex to signal. The wait is cut at
every read of the clock or the condition: plan, drift correction, sleep
(`TimedWait`'s test, block, wake, spurious wake, time-out), drift, spin.
`SetCondition` writes the boolean without the condition's mutex: the reads and
writes of it are separate steps. `badTime` is the case in which the absolute
time of `TimedWait` has one whole second of nanoseconds.

### PointToPoint

`Send` has an action for each outcome (link down, idle, busy, full); packets
are (source, number, size) with the number in order of acceptance. `refused`
counts the packets the full queue turned away, `unlinked` those that met no
link: the first are what `m_nTotalDroppedPackets` must count. The event
list holds the link's own events; `RunNext` takes the first, `Wait` lets time
pass to a call that is not an event of the link. A receiver strips the header
of the object the sender may still hold: `stripped`. An error model may corrupt
any packet; a corrupted one has reached the far end but goes no further.

### Csma

One copy of the device's members per station; the channel has its state, the
frame (`m_wire`, the code's `m_currentPkt`) and its source. A device has at most
one event of its own pending, `event`: the back-off's end, the completion or the
ready event. Any pending event may be next, so every choice of rates, gaps,
back-off slots and delays is covered. `TransmitStart` is an operator with the
branches of the code: disabled, channel not idle (back off or give up), refused
by the channel, transmitting; it is used by `Send`, by the end of the back-off
and by the service of the queue. `TransmitAbort` goes on to the next packet of
the queue with a fresh back-off; with `m_maxRetries` 0 that packet is given up at
once as well, and so on until the queue is empty, in one step. `TransmitEnd` makes one reception per active
device, the sender included, and `Receive` drops the device's own. A packet is
the number of its acceptance by its device; `sent`, `lost` and `received` are
histories, `cut` are the devices that were disabled or detached.

### Visualizer

`sim` and `gtk` are the places of the two threads. `view` is the stack of the
calls of `update_view_timeout`: while one polls for the lock it dispatches any
other callback, a second view update by another timer included. `ahead` is the
distance of `target_time` from `Now ()`. The model may pause any number of times
in one round. A callback that blocks on the lock
(`update_model` and those of the user) blocks the GTK thread: `gtk = "blocked"`.
Pause messages are numbered; `overrun` counts the rounds that advanced the model
after play was released.

### TestRunner

The main thread's phases (`pc`) follow `run_tests`: prepare, dispatch, collect,
join, finish. The preparation may fail, or end the program with exit code 0
after it printed a list (`--list`, `--kinds`). A worker gets a job, reads `thread_exit`, runs the job or throws it
back, ships it. A job's outcome is chosen when it runs: the return code, with or
without a report file. A job thrown back has `returncode` False and one that was
skipped None, as in the code. SIGINT may come at any moment; its handler runs
between two steps of the main thread, and not while that is blocked in a call
(`MainBlocked`). An exception of the main thread ends the run with the
interpreter's exit code.

## 3. Runs

All runs use two workers; none takes more than about two minutes.
`CHECK_DEADLOCK FALSE` is set where the system may stop: a destroyed simulator,
an exhausted bound on calls, an empty event list with no more clients, a test
run or a visualizer that has ended.

| Run | Instance | Shows |
|---|---|---|
| `simulator` | 1 context, delays 0 and 1, times to 2, uids below 7 (three events) | `TypeOK`, `QueueIsAhead`, `UnscheduledIsQueueSize`, `ExpiredIsExact`, `NothingLost`, `DestroyIsFifo`, the refinement of `EventLoop`, `EventuallyServed` |
| `schedulers` | all five lists, delays 0, 1, 5, at most 6 queued, 6 uids, calendar up to 8 buckets | `HoldsEveryEvent`, `ServesNextEarliest`, `TypeOK`, which says that each layout is well formed |
| `heap_remove` | heap, 7 uids | violation: `Remove` breaks the heap order |
| `distributed` | 2 ranks, 2 links of delays 1 and 2, stop at 4, 2 sends per rank and one event of its own beside Stop's | `NoEventFromThePast`, `GrantIsSafe`, `CountsMatchTransit`, `EveryRankReturns` |
| `unequal_lookaheads` | a chain of 3 ranks, delays 3 and 1, stop at 2 | violation: two ranks wait in the barrier for ever |
| `realtime` | 2 threads, 3 events, delays 0 and 4, jiffy 1, second of 3 units, both modes | `QueueIsAhead`, `NeverEarly`, `NoLostWakeup`, `EventuallyServed`, `MutexIsReleased` |
| `timed_wait` | one event | violation: `TimedWait` never returns when its time has a whole second of nanoseconds |
| `point_to_point` | sizes 1 and 2, two rates, gaps 1 and 0, delay 1, a packet queue of 1 and a byte queue of 3, 4 sends | `OneTransmission`, `QueueAccounts`, `WireCapacity`, `WholeAtTxEnd`, the refinement of `FifoLink` |
| `csma` | 2 stations, queues of 2, 2 retries, 2 sends and 2 switches (enable, detach, ...) | `OneFrameAtATime`, `EveryPacketOnce`, `EveryPacketLeaves` |
| `csma_queue` | the same | violation: a queued packet on a device with no event to come |
| `visualizer` | 2 timers, 2 pause messages, period 1, waiting `update_model` calls counted up to 1 | `EveryMessageShownOnce`, `PausedModelStops`, `QuitEnds` |
| `test_runner` | 2 workers, 2 suites and an example | `EveryJobOnce`, `ExitCodeIsHonest`, `EveryRunEnds` |

**Why the bounds are enough.** Three events are the least with which a handler
can act on an earlier, the current and a later event, two of them at one
instant; delays 0 and 1 give equal and different times. Six or seven keys are
the least with which the heap has a removal that breaks it, and enough for the
calendar to double and halve. Two links of different delays make the lookahead a
choice; two sends per rank leave a message in transit over several rounds; three
ranks are the least for unequal lookaheads. Delay 4 with jiffy 1 reaches both
the sleep and the spin, two threads contend for `m_mutex`. Four sends fill each
queue behind a transmission. On the bus one station backs off while the other
transmits, two sends leave a packet in the queue behind the current one, two
retries separate the first, the last and the one too many, and two switches
disable or detach a device and bring it back; a full queue, whose only effect
is that `Send` is refused, needs a third send and is left to the theorems. Two timers nest two view updates;
a third would nest the same way. With two workers results come back in
another order than dispatched, and one worker takes a second job. The theorems below
remove the bounds. Two bounds hide behaviour and are listed as hazards without
a property: the wrap of the 32-bit `m_uid`, and the width of a calendar bucket
computed in 64 bits and kept in 32. Three parameters keep out cases in which the
code does not have the property: remote links have a delay of at least 1
(`distributed-simulator-impl.cc:200` takes 0, the default, for "no lookahead
yet" and may then receive messages from the past), `Run` of the realtime
executive is called once (`MaxRuns`; a second `Run` restarts the clock and not
the simulation time, so that events are posted behind the last one executed), and
`PeekKinds` names the lists whose `PeekNext` may be called at any time
(`Ns2CalendarScheduler::PeekNext` moves the calendar's clock).
The theorems state the same three as assumptions (`PositiveDelays`, `OneRun`,
`OrderKept`).

**Fairness.**
- `Simulator`: the loops of `Run` and `Destroy` are one thread and do not pause,
  handlers return; the client owes nothing. `EventuallyServed` needs the finite
  number of schedulings (`MaxUid`): a handler that calls `ScheduleNow` for ever
  would starve the rest, in the code too.
- `DistributedSim`: every rank's process runs; a message in transit is received
  if its receiver polls for ever (strong fairness, as one `MPI_Testany` may not
  report it), the barrier completes when all have reached it.
- `RealtimeSim`: the operating system runs every runnable thread and the clock
  advances. Posts are bounded by `MaxUid`, so weak fairness on a thread that
  waits for a mutex is enough. `EventuallyServed` excludes the case of
  `timed_wait`, where the code really does not serve.
- `PointToPoint`: `Run` serves the list until it is empty; a script that stops
  the simulation early owes no delivery.
- `Csma`: `Run` serves the list, so every pending event occurs in the end. Nothing
  is owed to a device that has been disabled or detached.
- `Visualizer`: both threads are scheduled, and a simulator round ends. The view
  update and a blocked callback get the lock in the end although it is free only
  between rounds (strong fairness, one condition per depth of the stack: each
  polls or queues for the lock again and again). The user and the clock owe
  nothing.
- `TestRunner`: the threads run, and every test program ends, as `Popen.communicate`
  has no time-out. Workers that die of an exception are excepted.

**Findings.** Four are runs and entries under `findings`: `HeapScheduler::Remove`
only sifts down; a rank leaves `Run` while others need it in the barrier;
`TimedWait` carries only above one second; a CSMA device that was disabled or
detached keeps what is queued. Others were met while modelling and have no run:

- `simulator.h` says that events scheduled for the destroy time cannot be
  removed, cancelled or tested for expiration: it "will result in a program
  error (crash)" (674-676, 688-689, 696-699). The text is out of date:
  `default-simulator-impl.cc:263-278` and `305-337` handle them,
  `simulator-test-suite.cc:149-170` tests all three, and `ExpiredIsExact`,
  `NothingLost` and `DestroyIsFifo` hold for them.
- In BYTES mode `DropTailQueue` drops a packet that would fill the queue exactly
  (`drop-tail-queue.cc:95` compares with `>=`), although `MaxBytes` is "the
  maximum number of bytes accepted" (48) and the log says the packet "would
  exceed max bytes" (97). No run is spent on it: `NeverExactlyFull` states what
  the code does and is proved (`NoQueueIsFilled`).
- A detached CSMA device "is not allowed to receive or transmit packets"
  (`csma-channel.h:96-97`), but a frame that it began to transmit is still
  delivered to every active station (`csma-channel.cc:197-237` only
  returns false), and a frame that was on its way to it when it was detached
  still arrives, as the reception is already scheduled. `EveryPacketOnce`
  counts both as the code does.
- `Ns2CalendarScheduler::PeekNext` has effects; delay 0 of a remote link; the
  second realtime `Run` (above); `DoSetOrigin` ignores its argument; a busy
  point-to-point device drops without `m_macTxDropTrace`.
- A CSMA device that is READY with a full queue, which happens when it is
  detached while it has packets, refuses every packet for ever; a refusal by the
  channel does not reset the number of retries; `CsmaChannel::Reattach (id)`
  (`csma-channel.cc:103`) returns for every valid id, its test being inverted,
  and is left out of the model.
- A view update that finds play released forgets a timer that a speed change
  started meanwhile (`core.py:1082`): two timers then go on beside each other.
  The invariants hold all the same; two timers are what makes view updates nest.
- In `test.py` a worker that dies hangs the main thread (686, 1447), the
  entry of a crashed suite is not XML (1568), and the entry for valgrind errors
  (1572) is nested in the branch for return codes other than 0, 1 and 2, so it is
  never written.

**Mutants.** Every property of a passing run is violated by a named wrong
variant of a definition (dropped guard, missing count, swapped order), kept
before the definition it replaces.

## 4. Proofs

All theorems hold for every value of the constants that satisfies the named
assumptions of the modules.

- `SimulatorProofs`. `IInv` strengthens `QueueIsAhead` and
  `UnscheduledIsQueueSize` with the shape of keys (an ordinary event's uid is
  its creation number, none is given twice) and `LiveIsQueued`: an id that
  `IsExpired` takes for live names an event of the list, without which `Remove`
  could decrement the count for nothing. `LInv` adds the ledger that says where
  every event is, from which `NothingLost`, `ExpiredIsExact` and `DestroyIsFifo`
  follow. `Refinement` maps every step to a step or stutter of `EventLoop`.
- `SchedulersProofs`, for any number of events, times, buckets and any order of
  lists, assumes `OrderKept`: nobody removes from a heap (the finding
  `heap_remove`) or looks at the ns-2 calendar and then inserts earlier (see
  above), and three times a time is never 0 modulo `WidthModulus`, which for
  2^32 means that times stay below 2^32 (beyond, the code can compute a width of
  0 and divide by it). The proof has three layers. The first is about sorted
  lists and buckets of them. The second shows for each scheduler that its
  operations, on a structure that is `Good` for a set of events, do what the set
  operations do and leave it good. For the heap: an element that rises or sinks
  is the only one out of order, and comes to rest within as many turns as the
  array is long. For the calendar: no event is before the last time taken, and
  the bucket and year of the search belong to that time, so the first bucket
  with an event due in its year has the earliest, and else the least of the
  fronts is; taking samples loses nothing, the new width is positive, and the refilled
  buckets hold the same events. For the ns-2 calendar: its clock is behind all
  events and the event taken on sight in the k-th bucket is exactly k ahead. The
  third layer is the induction over steps, `Inv`, which says only that the list in use is
  good for `queue`, whose events are not before `now` and whose uids are
  distinct and used. `TypeOK`, `HoldsEveryEvent`, `ServesNextEarliest` and the
  refinement of `EventQueue` follow from `Inv`.
- `DistributedSimProofs`. `CountsMatchTransit` is proved with fresh sequence
  numbers and finiteness only. Causality needs `PositiveDelays` (no remote link
  of delay zero, which the code does not get right) and the
  invariant that some global floor `G` is behind every event, `G` plus the delay
  of its link behind every message, and every grant is `G` plus the rank's
  lookahead.
- `RealtimeSimProofs`. Three invariants: something due at the target stays
  queued until it is taken (`NeverEarly`); an event posted ahead of the target
  leaves a trace first in the condition, then in a signal (`NoLostWakeup`); the
  clock is never behind the simulation time, which needs `OneRun` (Run is
  called once).
- `PointToPointProofs`. `LInv` splits the numbers of a device's packets into
  arrived, on the wire (one event each) and queued, says that packets on the
  wire follow each other in time and uid as in number, and that the next
  transmission cannot begin too early. The order of arrival, the line rate, the
  header of the traced packet and the refinement of `FifoLink`'s safety follow.
  `QueueAccounts` is inductive given `LInv`, strengthened by the strict limit
  on bytes (`NeverExactlyFull`, theorem `NoQueueIsFilled`): what the queue counts changes with
  the bytes of one packet, since the bytes of a sequence are those of its tail
  and its head, and those of a sequence with one more packet grow by it.
- `CsmaProofs`, for any number of stations and packets, queue size and limit of
  retries, 0 included. `IInv` adds to what the run checks only that a frame on its way to a
  station is among those its source has sent in full: without it a reception
  could be of a packet still in its device's hands. `TransmitStart` has a lemma
  for its outcomes and one per invariant for what it keeps, in terms of the
  packet and queue it is called with; `Send`, the end of the back-off and the
  ready event cite them.
- `VisualizerProofs`. For the messages, `MInv` adds that a call of the stack
  below the innermost one waits for the lock and has taken no message, and
  that `m_pauseMessages` is empty when a round begins: what is shown, taken,
  collected and raised is then a concatenation that each step only cuts
  elsewhere. For the pause, `PauseInv` bounds the rounds that advanced the
  model by what the simulation thread may still do: one round if it is past
  the wait, one more if `go` is set.
- `TestRunnerProofs`, for any number of workers, suites and examples. `HInv` adds
  to `EveryJobOnce` that a job that was shipped has run, or was thrown back or
  skipped, that the sum of the counts of passed and skipped is the
  number of received jobs that really passed or were skipped, that an entry
  CRASH belongs to a crashed job, and what the main thread knows in each phase. The exit
  code compares the counts with the number of jobs; that equal numbers mean
  all jobs is a cardinality argument.

Induction over numbers, which the loops and the byte totals need, is done with
the property as a set: a set of naturals with 0 and the successor of each of its
elements is all of them, by the well-foundedness of `<` (lemmas `Induct` of both modules and
`InductTo` of `SchedulersProofs`). The functions that stand for loops are first shown to exist
(`SinkDefined`, `RefillDefined`, ...), then described turn by turn.

**Only model-checked.** Liveness (`EventuallyServed` of both executives,
`EveryRankReturns`, `MutexIsReleased`, `EveryPacketLeaves`, `QuitEnds`,
`EveryRunEnds`) and the fairness part of `FifoLink`, which the prover does not
reach. Every invariant of a run has a theorem. `ImplementsEventQueue`, the
other way round, is proved and is in no run; TLC finds no
error when it is added to `MCSchedulers.cfg`, and a counterexample in `MCSchedulersHeap.cfg`.

## 5. Not modelled

Packets are abstracted to identity and size, handlers to the calls they make,
contexts to a small set. Methods that the distributed and realtime executives
repeat from the default one (Cancel, ScheduleDestroy, Destroy) are modelled
once, in `Simulator`. MPI, POSIX threads, GLib, the Python interpreter and the
clock are external, modelled from how the code uses them. On the bus `Attach`
during the simulation, `Reattach` by number, addresses and encapsulation are
left out; in the visualizer drawing, the transmission samples and the plug-ins;
in the test driver the options other than `--list` and `--kinds` and the formats
of its reports.

Most of the repository's Python lines are the generated bindings
(`bindings/modulegen__*.py`, twice per module, and `bindings/callbacks_list.py`): lists of registrations of the
C++ classes with the Python wrapper generator. They are straight-line tables, run once
by the build, without state, branch or interaction: there is nothing to check
about them, and they are not modelled. What has behaviour in Python, the
visualizer's threads and the test driver, is. The remaining components marked
`not_modelled` in `PROJECT.json` carry their reasons.

## 6. Plan

1. Done: executive, event lists, distributed and realtime executives,
   point-to-point link, CSMA bus, live visualizer and test driver, with their
   theorems.
2. `Arp`: the cache's entries and their timer with lost replies. Pending packets
   are sent once or dropped, retries bounded, and whenever an entry waits the
   timer is armed. Theorem: the timer invariant.
3. `Tcp`: two sockets over a lossy, reordering channel, refining a byte-stream
   specification; then the close handshake.
4. `FlowMonitor` and IPv4 fragmentation: tables with timers against lost, late
   and duplicated packets; the learning table of the bridge.
5. Pure algorithms for TLC only: the SPF of global routing and the nix-vector
   search on all small graphs against a reference definition, and the nix cache
   under changes of interfaces.
6. Composition: `Simulator` and `Schedulers` share the set of events only
   through `EventQueue`; a module with both state machines in one would show
   that the executive never leaves the conditions of `OrderKept`.
