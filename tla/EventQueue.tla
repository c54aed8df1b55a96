----------------------------- MODULE EventQueue ----------------------------
(***************************************************************************)
(* What an event list promises the executive that uses it (scheduler.h),   *)
(* whatever structure it keeps: every event put in and not erased comes    *)
(* out once, the next one is the earliest, and so time never goes back.    *)
(* A look at the next event, a reorganisation of the structure and the     *)
(* exchange of one list for another are not seen by the user.  Schedulers  *)
(* is shown to implement it; Simulator keeps its events in such a set.     *)
(***************************************************************************)
EXTENDS Integers

CONSTANTS
  Times,     \* the times events are put in for, a set of natural numbers
  Uids       \* their numbers in the order they are put in

Keys == [ts : Times, uid : Uids]

VARIABLES
  queue,     \* the events put in that have not left
  now,       \* the time of the last event taken
  uid        \* the number of the next event

queueVars == <<queue, now, uid>>

Earlier(a, b) == a.ts < b.ts \/ (a.ts = b.ts /\ a.uid < b.uid)

QueueInit ==
  /\ queue = {}
  /\ now = 0
  /\ uid = 0

Put(e) ==
  /\ e \notin queue
  /\ e.uid = uid /\ now <= e.ts
  /\ queue' = queue \union {e}
  /\ uid' = uid + 1
  /\ UNCHANGED now

TakeNext(e) ==
  /\ e \in queue
  /\ \A f \in queue \ {e} : Earlier(e, f)
  /\ now <= e.ts
  /\ now' = e.ts
  /\ queue' = queue \ {e}
  /\ UNCHANGED uid

Erase(e) ==
  /\ e \in queue
  /\ queue' = queue \ {e}
  /\ UNCHANGED <<now, uid>>

QueueNext == \E e \in Keys : Put(e) \/ TakeNext(e) \/ Erase(e)

QueueSpec == QueueInit /\ [][QueueNext]_queueVars
=============================================================================
