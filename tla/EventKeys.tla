----------------------------- MODULE EventKeys -----------------------------
(* Scheduler::EventKey and what the event lists share: a key's order and   *)
(* lists kept sorted by it.  The context of an event plays no part here.   *)
EXTENDS Integers, Sequences, SequencesExt

Before(a, b) == a.ts < b.ts \/ (a.ts = b.ts /\ a.uid < b.uid)

(* The least key of a non-empty set.                                       *)
Least(S) == CHOOSE e \in S : \A f \in S \ {e} : Before(e, f)

(* Linear search from the front, insertion before the first later key.     *)
InsertSorted(list, ev) ==
  LET later == {i \in DOMAIN list : Before(ev, list[i])} IN
  IF later = {} THEN Append(list, ev) ELSE InsertAt(list, Min(later), ev)

(* Linear search for the uid, erase.                                       *)
EraseUid(list, ev) ==
  RemoveAt(list, CHOOSE i \in DOMAIN list : list[i].uid = ev.uid)

KeysAscend(list) == \A i \in 1..(Len(list) - 1) : Before(list[i], list[i + 1])
=============================================================================
