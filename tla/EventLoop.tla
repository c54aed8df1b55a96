----------------------------- MODULE EventLoop -----------------------------
(***************************************************************************)
(* What a discrete-event executive promises its clients, whatever data     *)
(* structure holds the events and whichever thread or process posts them:  *)
(* the live event that is first in (time, order of posting) runs next, at  *)
(* its own time, once, and an event that was withdrawn never runs.         *)
(* Simulator (the default implementation) is shown to implement it.        *)
(***************************************************************************)
EXTENDS Integers

CONSTANTS
  Times,     \* the times events are posted for, a set of natural numbers
  Uids       \* the numbers events get in the order they are posted

Keys == [ts : Times, uid : Uids]

VARIABLES
  now,       \* the current time of the simulation
  pending,   \* the posted events that will still run
  done       \* the numbers of the events that have run

loopVars == <<now, pending, done>>

(* Events are ordered by time, and by the order of posting at equal times. *)
Earlier(a, b) == a.ts < b.ts \/ (a.ts = b.ts /\ a.uid < b.uid)

LoopInit ==
  /\ now = 0
  /\ pending = {}
  /\ done = {}

(* A new event is posted at the current time or later, behind everything   *)
(* already posted for that time.                                           *)
Post(k) ==
  /\ now <= k.ts
  /\ \A e \in pending : e.uid < k.uid
  /\ \A u \in done : u < k.uid
  /\ pending' = pending \union {k}
  /\ UNCHANGED <<now, done>>

Withdraw(k) ==
  /\ k \in pending
  /\ pending' = pending \ {k}
  /\ UNCHANGED <<now, done>>

Execute(k) ==
  /\ k \in pending
  /\ \A e \in pending \ {k} : Earlier(k, e)
  /\ now <= k.ts
  /\ now' = k.ts
  /\ pending' = pending \ {k}
  /\ done' = done \union {k.uid}

(* Time may pass without an event as long as no live event is overtaken.   *)
Pass(t) ==
  /\ now <= t
  /\ \A e \in pending : t <= e.ts
  /\ now' = t
  /\ UNCHANGED <<pending, done>>

(* The executive is discarded together with what it still held.            *)
Discard ==
  /\ pending' = {}
  /\ UNCHANGED <<now, done>>

LoopNext ==
  \/ \E k \in Keys : Post(k) \/ Withdraw(k) \/ Execute(k)
  \/ \E t \in Times : Pass(t)
  \/ Discard

LoopSpec == LoopInit /\ [][LoopNext]_loopVars
=============================================================================
