-------------------------- MODULE SchedulersProofs -------------------------
(***************************************************************************)
(* Theorems about Schedulers: whatever is inserted, taken, removed and     *)
(* moved from one event list to another, each of the five structures holds *)
(* what a plain set would hold and serves its least key, for any bounds on *)
(* sizes, times and uids.                                                  *)
(*                                                                         *)
(* The proof has three layers.  The first is about sorted lists and about  *)
(* buckets of sorted lists.  The second shows for each scheduler that its  *)
(* operations, started from a structure that is Good for a set of events,  *)
(* do what the set operations do and leave it Good.  The third is the      *)
(* induction over the steps of Schedulers, which sees only Good.           *)
(***************************************************************************)
EXTENDS Schedulers, FiniteSetTheorems, SequenceTheorems, WellFoundedInduction, TLAPS

-----------------------------------------------------------------------------
(* Induction over the natural numbers, with the property as a set          *)

LEMMA NatOrder ==
  \E R : IsWellFoundedOn(R, Nat) /\ \A m, n \in Nat : n < m => <<n, m>> \in R
<1>1. \A m, n \in Nat : n < m => <<n, m>> \in OpToRel(<, Nat)
  BY DEF OpToRel
<1> QED BY <1>1, NatLessThanWellFounded

LEMMA LeastNatural ==
  ASSUME NEW T, T \subseteq Nat, T # {}
  PROVE  \E m \in T : \A n \in T : m <= n
<1>1. PICK R : IsWellFoundedOn(R, Nat) /\ \A m, n \in Nat : n < m => <<n, m>> \in R
  BY NatOrder
<1>2. PICK m \in T : \A n \in T : ~(<<n, m>> \in R)
  BY <1>1, WFMin
<1>3. ASSUME NEW n \in T PROVE m <= n
  <2>1. n \in Nat /\ m \in Nat /\ ~(n < m)
    BY <1>1, <1>2
  <2> QED BY <2>1
<1> QED BY <1>3

LEMMA Induct ==
  ASSUME NEW S, 0 \in S, \A n \in Nat : n \in S => n + 1 \in S
  PROVE  Nat \subseteq S
<1> SUFFICES ASSUME ~(Nat \subseteq S) PROVE FALSE
  OBVIOUS
<1>1. PICK m \in Nat \ S : \A n \in Nat \ S : m <= n
  BY LeastNatural
<1>2. m - 1 \in Nat /\ ~(m <= m - 1) /\ (m - 1) + 1 = m
  BY <1>1
<1> QED BY <1>1, <1>2

\* The same up to a bound
LEMMA InductTo ==
  ASSUME NEW N \in Nat, NEW S, 0 \in S, \A n \in 0 .. N - 1 : n \in S => n + 1 \in S
  PROVE  0 .. N \subseteq S
<1> DEFINE T == {n \in Nat : n <= N => n \in S}
<1>1. 0 \in T
  OBVIOUS
<1>2. ASSUME NEW n \in Nat, n \in T PROVE n + 1 \in T
  <2> SUFFICES ASSUME n + 1 <= N PROVE n + 1 \in S
    OBVIOUS
  <2>1. n \in 0 .. N - 1 /\ n \in S
    BY <1>2
  <2> QED BY <2>1
<1> HIDE DEF T
<1>3. Nat \subseteq T
  BY <1>1, <1>2, Induct
<1> QED BY <1>3 DEF T

-----------------------------------------------------------------------------
(* The order of events.  Each of the five modules has its copy of the      *)
(* operators of EventKeys; those of ListScheduler stand for all.           *)

LEMMA SameOrder ==
  \A a, b : /\ Map!Before(a, b) <=> List!Before(a, b)
            /\ Heap!Before(a, b) <=> List!Before(a, b)
            /\ Cal!Before(a, b) <=> List!Before(a, b)
            /\ Ns2!Before(a, b) <=> List!Before(a, b)
BY DEF List!Before, Map!Before, Heap!Before, Cal!Before, Ns2!Before

LEMMA SameLeast ==
  \A S : /\ Map!Least(S) = List!Least(S)
         /\ Cal!Least(S) = List!Least(S)
         /\ Ns2!Least(S) = List!Least(S)
BY DEF List!Least, Map!Least, Cal!Least, Ns2!Least,
       List!Before, Map!Before, Cal!Before, Ns2!Before

LEMMA SameLists ==
  \A l, e : /\ Cal!InsertSorted(l, e) = List!InsertSorted(l, e)
            /\ Ns2!InsertSorted(l, e) = List!InsertSorted(l, e)
            /\ Cal!EraseUid(l, e) = List!EraseUid(l, e)
            /\ Ns2!EraseUid(l, e) = List!EraseUid(l, e)
            /\ Cal!KeysAscend(l) <=> List!KeysAscend(l)
            /\ Ns2!KeysAscend(l) <=> List!KeysAscend(l)
BY DEF List!InsertSorted, Cal!InsertSorted, Ns2!InsertSorted,
       List!EraseUid, Cal!EraseUid, Ns2!EraseUid,
       List!KeysAscend, Cal!KeysAscend, Ns2!KeysAscend,
       List!Before, Cal!Before, Ns2!Before, List!InsertAt, Cal!InsertAt, Ns2!InsertAt,
       List!RemoveAt, Cal!RemoveAt, Ns2!RemoveAt, List!Min, Cal!Min, Ns2!Min

LEMMA SameCount == \A S : Cal!Cardinality(S) = Cardinality(S)
BY DEF Cal!Cardinality, Cardinality

LEMMA EventFields ==
  ASSUME NEW e \in Events
  PROVE  e.ts \in Nat /\ e.ts \in 0 .. MaxTs /\ e.uid \in Nat
BY KindsAssumption DEF Events

LEMMA TotalOrder ==
  /\ \A a \in Events : ~List!Before(a, a)
  /\ \A a, b \in Events : a = b \/ List!Before(a, b) \/ List!Before(b, a)
  /\ \A a, b \in Events : ~(List!Before(a, b) /\ List!Before(b, a))
  /\ \A a, b, c \in Events : List!Before(a, b) /\ List!Before(b, c) => List!Before(a, c)
  /\ \A a, b \in Events : List!Before(a, b) => a.ts <= b.ts
BY KindsAssumption DEF Events, List!Before

LEMMA LeastIs ==
  ASSUME NEW Q \in SUBSET Events, NEW p \in Q, \A f \in Q \ {p} : List!Before(p, f)
  PROVE  List!Least(Q) = p
<1>1. \A e \in Q : (\A f \in Q \ {e} : List!Before(e, f)) => e = p
  BY TotalOrder
<1> QED BY <1>1 DEF List!Least

LEMMA LeastExists ==
  ASSUME NEW Q \in SUBSET Events, Q # {}
  PROVE  /\ List!Least(Q) \in Q
         /\ \A f \in Q \ {List!Least(Q)} : List!Before(List!Least(Q), f)
<1> DEFINE Times == {e.ts : e \in Q}
<1>1. PICK t \in Times : \A u \in Times : t <= u
  <2>1. Times \subseteq Nat /\ Times # {}
    BY EventFields
  <2> HIDE DEF Times
  <2> QED BY <2>1, LeastNatural
<1> DEFINE Uids == {e.uid : e \in {f \in Q : f.ts = t}}
<1>2. PICK u \in Uids : \A v \in Uids : u <= v
  <2>1. Uids \subseteq Nat /\ Uids # {}
    BY EventFields
  <2> HIDE DEF Uids
  <2> QED BY <2>1, LeastNatural
<1>3. PICK p \in Q : p.ts = t /\ p.uid = u
  OBVIOUS
<1>4. ASSUME NEW f \in Q \ {p} PROVE List!Before(p, f)
  <2>1. p.ts <= f.ts /\ (f.ts = p.ts => p.uid <= f.uid)
    BY <1>1, <1>2, <1>3
  <2>2. p.ts \in Nat /\ f.ts \in Nat /\ p.uid \in Nat /\ f.uid \in Nat
    BY EventFields
  <2>3. ~(p.ts = f.ts /\ p.uid = f.uid)
    BY DEF Events
  <2> QED BY <2>1, <2>2, <2>3 DEF List!Before
<1>5. List!Least(Q) = p
  BY <1>4, LeastIs
<1> QED BY <1>4, <1>5

-----------------------------------------------------------------------------
(* Sorted lists                                                            *)

Sorted(l, Q) ==
  /\ l \in Seq(Events)
  /\ List!KeysAscend(l)
  /\ Q = {l[i] : i \in 1 .. Len(l)}

LEMMA SortedTypes ==
  ASSUME NEW l, NEW Q, Sorted(l, Q)
  PROVE  /\ Len(l) \in Nat /\ Q \subseteq Events
         /\ \A i \in 1 .. Len(l) : l[i] \in Events /\ l[i] \in Q
         /\ l = <<>> <=> Q = {}
         /\ l = <<>> <=> Len(l) = 0
<1>1. l \in Seq(Events) /\ Len(l) \in Nat
  BY DEF Sorted
<1>2. \A i \in 1 .. Len(l) : l[i] \in Events /\ l[i] \in Q
  BY <1>1 DEF Sorted
<1>3. l = <<>> <=> Len(l) = 0
  BY <1>1
<1>4. l # <<>> => 1 \in 1 .. Len(l)
  BY <1>1, <1>3
<1>5. Len(l) = 0 => Q = {}
  BY DEF Sorted
<1>6. Q \subseteq Events
  BY <1>2 DEF Sorted
<1> QED BY <1>1, <1>2, <1>3, <1>4, <1>5, <1>6

\* Neighbours ascend, so any two do.
LEMMA SortedAll ==
  ASSUME NEW l, NEW Q, Sorted(l, Q), NEW i \in 1 .. Len(l), NEW j \in 1 .. Len(l), i < j
  PROVE  List!Before(l[i], l[j])
<1>1. Len(l) \in Nat /\ \A k \in 1 .. Len(l) : l[k] \in Events
  BY SortedTypes
<1> DEFINE S == {k \in Nat : i + k + 1 <= Len(l) => List!Before(l[i], l[i + k + 1])}
<1>2. 0 \in S
  BY <1>1 DEF Sorted, List!KeysAscend
<1>3. ASSUME NEW k \in Nat, k \in S PROVE k + 1 \in S
  <2> SUFFICES ASSUME i + (k + 1) + 1 <= Len(l) PROVE List!Before(l[i], l[i + (k + 1) + 1])
    OBVIOUS
  <2> DEFINE m == i + k + 1
  <2>1. m \in 1 .. Len(l) - 1 /\ m + 1 \in 1 .. Len(l) /\ m + 1 = i + (k + 1) + 1
    BY <1>1
  <2>2. List!Before(l[i], l[m])
    BY <1>3, <2>1
  <2>3. List!Before(l[m], l[m + 1])
    BY <2>1 DEF Sorted, List!KeysAscend
  <2> HIDE DEF m
  <2>4. m \in 1 .. Len(l)
    BY <1>1, <2>1
  <2> QED BY <1>1, <2>1, <2>2, <2>3, <2>4, TotalOrder
<1> HIDE DEF S
<1>4. Nat \subseteq S
  BY <1>2, <1>3, Induct
<1>5. j - i - 1 \in Nat /\ i + (j - i - 1) + 1 = j /\ j <= Len(l)
  BY <1>1
<1> QED BY <1>4, <1>5 DEF S

LEMMA SortedEmpty == Sorted(<<>>, {})
BY DEF Sorted, List!KeysAscend

LEMMA SortedFront ==
  ASSUME NEW l, NEW Q, Sorted(l, Q), l # <<>>
  PROVE  /\ Head(l) \in Q /\ Head(l) \in Events
         /\ \A f \in Q \ {Head(l)} : List!Before(Head(l), f)
         /\ List!Least(Q) = Head(l)
         /\ Sorted(Tail(l), Q \ {Head(l)})
<1>1. /\ l \in Seq(Events) /\ Len(l) \in Nat \ {0} /\ Q \in SUBSET Events
      /\ \A i \in 1 .. Len(l) : l[i] \in Events /\ l[i] \in Q
  BY SortedTypes DEF Sorted
<1>2. Head(l) = l[1] /\ 1 \in 1 .. Len(l)
  BY <1>1
<1>3. \A i \in 2 .. Len(l) : List!Before(l[1], l[i])
  BY <1>1, <1>2, SortedAll
<1>4. \A f \in Q \ {l[1]} : \E i \in 2 .. Len(l) : f = l[i]
  BY <1>1 DEF Sorted
<1>5. \A f \in Q \ {l[1]} : List!Before(l[1], f)
  BY <1>3, <1>4
<1>6. List!Least(Q) = l[1]
  BY <1>1, <1>2, <1>5, LeastIs
<1>7. Sorted(Tail(l), Q \ {l[1]})
  <2>1. /\ Tail(l) \in Seq(Events) /\ Len(Tail(l)) = Len(l) - 1
        /\ \A i \in 1 .. Len(l) - 1 : Tail(l)[i] = l[i + 1]
    BY <1>1
  <2>2. List!KeysAscend(Tail(l))
    BY <1>1, <2>1 DEF Sorted, List!KeysAscend
  <2>3. \A i \in 2 .. Len(l) : l[i] # l[1] /\ l[i] \in Q /\ l[i] = Tail(l)[i - 1] /\ i - 1 \in 1 .. Len(l) - 1
    BY <1>1, <1>2, <1>3, <2>1, TotalOrder
  <2>4. \A i \in 1 .. Len(l) - 1 : i + 1 \in 2 .. Len(l)
    BY <1>1
  <2>5. ASSUME NEW f \in Q \ {l[1]} PROVE f \in {Tail(l)[i] : i \in 1 .. Len(l) - 1}
    <3>1. PICK i \in 2 .. Len(l) : f = l[i]
      BY <1>4
    <3> QED BY <2>3, <3>1
  <2>6. \A i \in 1 .. Len(l) - 1 : Tail(l)[i] \in Q \ {l[1]}
    BY <2>1, <2>3, <2>4
  <2>7. Q \ {l[1]} = {Tail(l)[i] : i \in 1 .. Len(l) - 1}
    BY <2>5, <2>6
  <2> QED BY <2>1, <2>2, <2>7 DEF Sorted
<1> QED BY <1>1, <1>2, <1>5, <1>6, <1>7

\* InsertAt and RemoveAt, place by place
LEMMA InsertedAt ==
  ASSUME NEW l \in Seq(Events), NEW e \in Events, NEW p \in 1 .. Len(l)
  PROVE  /\ List!InsertAt(l, p, e) \in Seq(Events)
         /\ Len(List!InsertAt(l, p, e)) = Len(l) + 1
         /\ \A i \in 1 .. Len(l) + 1 :
              List!InsertAt(l, p, e)[i] = IF i < p THEN l[i] ELSE IF i = p THEN e ELSE l[i - 1]
<1> DEFINE a == SubSeq(l, 1, p - 1)
           b == <<e>>
           c == SubSeq(l, p, Len(l))
<1>1. Len(l) \in Nat /\ \A i \in 1 .. Len(l) : l[i] \in Events
  OBVIOUS
<1>2. /\ a \in Seq(Events) /\ Len(a) = p - 1
      /\ \A i \in 1 .. p - 1 : a[i] = l[i]
  <2>1. \A i \in 1 .. p - 1 : l[i] \in Events
    BY <1>1
  <2>2. 1 \in Int /\ p - 1 \in Int /\ p >= 1
    OBVIOUS
  <2>3. /\ a \in Seq(Events) /\ Len(a) = IF 1 <= p - 1 THEN (p - 1) - 1 + 1 ELSE 0
        /\ \A i \in 1 .. (p - 1) - 1 + 1 : a[i] = l[1 + i - 1]
    BY <2>1, <2>2, SubSeqProperties
  <2> HIDE DEF a
  <2> QED BY <2>2, <2>3
<1>3. /\ c \in Seq(Events) /\ Len(c) = Len(l) - p + 1
      /\ \A i \in 1 .. Len(l) - p + 1 : c[i] = l[p + i - 1]
  <2>1. \A i \in p .. Len(l) : l[i] \in Events
    BY <1>1
  <2>2. p \in Int /\ Len(l) \in Int /\ p <= Len(l)
    BY <1>1
  <2>3. /\ c \in Seq(Events) /\ Len(c) = IF p <= Len(l) THEN Len(l) - p + 1 ELSE 0
        /\ \A i \in 1 .. Len(l) - p + 1 : c[i] = l[p + i - 1]
    BY <2>1, <2>2, SubSeqProperties
  <2> HIDE DEF c
  <2> QED BY <2>2, <2>3
<1>4. b \in Seq(Events) /\ Len(b) = 1 /\ b[1] = e
  OBVIOUS
<1>5. List!InsertAt(l, p, e) = (a \o b) \o c
  BY DEF List!InsertAt
<1> HIDE DEF a, b, c
<1> DEFINE ab == a \o b
<1>6. /\ ab \in Seq(Events) /\ Len(ab) = Len(a) + Len(b)
      /\ \A i \in 1 .. Len(a) + Len(b) : ab[i] = IF i <= Len(a) THEN a[i] ELSE b[i - Len(a)]
  BY <1>2, <1>4, ConcatProperties
<1> HIDE DEF ab
<1>7. /\ ab \o c \in Seq(Events) /\ Len(ab \o c) = Len(ab) + Len(c)
      /\ \A i \in 1 .. Len(ab) + Len(c) : (ab \o c)[i] = IF i <= Len(ab) THEN ab[i] ELSE c[i - Len(ab)]
  <2>1. ab \in Seq(Events) /\ c \in Seq(Events)
    BY <1>3, <1>6
  <2> QED BY <2>1, ConcatProperties
<1> DEFINE r == ab \o c
<1>8. /\ List!InsertAt(l, p, e) = r /\ r \in Seq(Events) /\ Len(r) = Len(ab) + Len(c)
      /\ \A i \in 1 .. Len(ab) + Len(c) : r[i] = IF i <= Len(ab) THEN ab[i] ELSE c[i - Len(ab)]
  BY <1>5, <1>7 DEF ab
<1> HIDE DEF r
<1>9. Len(ab) = p /\ Len(r) = Len(l) + 1
  BY <1>1, <1>2, <1>3, <1>4, <1>6, <1>8
<1>10. ASSUME NEW i \in 1 .. Len(l) + 1
       PROVE  r[i] = IF i < p THEN l[i] ELSE IF i = p THEN e ELSE l[i - 1]
  <2>1. CASE i < p
    <3>1. /\ i \in 1 .. p - 1 /\ i \in 1 .. Len(ab) /\ i \in 1 .. Len(ab) + Len(c)
          /\ i \in 1 .. Len(a) + Len(b) /\ i <= Len(a)
      BY <1>1, <1>2, <1>3, <1>4, <1>9, <2>1
    <3>2. r[i] = ab[i]
      BY <1>8, <1>9, <2>1, <3>1
    <3>3. ab[i] = a[i]
      BY <1>6, <3>1
    <3>4. a[i] = l[i]
      BY <1>2, <3>1
    <3> QED BY <2>1, <3>2, <3>3, <3>4
  <2>2. CASE i = p
    <3>1. /\ p \in 1 .. Len(ab) /\ p \in 1 .. Len(ab) + Len(c) /\ p \in 1 .. Len(a) + Len(b)
          /\ ~(p <= Len(a)) /\ p - Len(a) = 1
      BY <1>1, <1>2, <1>3, <1>4, <1>9
    <3>2. r[p] = ab[p]
      BY <1>8, <1>9, <3>1
    <3>3. ab[p] = b[1]
      BY <1>6, <3>1
    <3> QED BY <1>4, <2>2, <3>2, <3>3
  <2>3. CASE i > p
    <3>1. i - p \in 1 .. Len(l) - p + 1 /\ p + (i - p) - 1 = i - 1
      BY <1>1, <2>3
    <3>2. i \in 1 .. Len(ab) + Len(c) /\ ~(i <= Len(ab)) /\ i - Len(ab) = i - p
      BY <1>1, <1>3, <1>9, <2>3
    <3>3. r[i] = c[i - p]
      BY <1>8, <3>2
    <3>4. c[i - p] = l[i - 1]
      BY <1>3, <3>1
    <3> QED BY <2>3, <3>3, <3>4
  <2> QED BY <2>1, <2>2, <2>3
<1> QED BY <1>8, <1>9, <1>10

LEMMA RemovedAt ==
  ASSUME NEW l \in Seq(Events), NEW p \in 1 .. Len(l)
  PROVE  /\ List!RemoveAt(l, p) \in Seq(Events)
         /\ Len(List!RemoveAt(l, p)) = Len(l) - 1
         /\ \A i \in 1 .. Len(l) - 1 :
              List!RemoveAt(l, p)[i] = IF i < p THEN l[i] ELSE l[i + 1]
<1> DEFINE a == SubSeq(l, 1, p - 1)
           c == SubSeq(l, p + 1, Len(l))
<1>1. Len(l) \in Nat /\ \A i \in 1 .. Len(l) : l[i] \in Events
  OBVIOUS
<1>2. /\ a \in Seq(Events) /\ Len(a) = p - 1
      /\ \A i \in 1 .. p - 1 : a[i] = l[i]
  <2>1. \A i \in 1 .. p - 1 : l[i] \in Events
    BY <1>1
  <2>2. 1 \in Int /\ p - 1 \in Int /\ p >= 1
    OBVIOUS
  <2>3. /\ a \in Seq(Events) /\ Len(a) = IF 1 <= p - 1 THEN (p - 1) - 1 + 1 ELSE 0
        /\ \A i \in 1 .. (p - 1) - 1 + 1 : a[i] = l[1 + i - 1]
    BY <2>1, <2>2, SubSeqProperties
  <2> HIDE DEF a
  <2> QED BY <2>2, <2>3
<1>3. /\ c \in Seq(Events) /\ Len(c) = Len(l) - p
      /\ \A i \in 1 .. Len(l) - p : c[i] = l[p + i]
  <2>1. \A i \in p + 1 .. Len(l) : l[i] \in Events
    BY <1>1
  <2>2. p + 1 \in Int /\ Len(l) \in Int /\ p <= Len(l)
    BY <1>1
  <2>3. /\ c \in Seq(Events) /\ Len(c) = IF p + 1 <= Len(l) THEN Len(l) - (p + 1) + 1 ELSE 0
        /\ \A i \in 1 .. Len(l) - (p + 1) + 1 : c[i] = l[(p + 1) + i - 1]
    BY <2>1, <2>2, SubSeqProperties
  <2> HIDE DEF c
  <2> QED BY <2>2, <2>3
<1>5. List!RemoveAt(l, p) = a \o c
  BY DEF List!RemoveAt
<1> HIDE DEF a, c
<1>6. /\ a \o c \in Seq(Events) /\ Len(a \o c) = Len(a) + Len(c)
      /\ \A i \in 1 .. Len(a) + Len(c) : (a \o c)[i] = IF i <= Len(a) THEN a[i] ELSE c[i - Len(a)]
  BY <1>2, <1>3, ConcatProperties
<1> DEFINE r == a \o c
<1>8. /\ List!RemoveAt(l, p) = r /\ r \in Seq(Events) /\ Len(r) = Len(l) - 1
      /\ \A i \in 1 .. Len(l) - 1 : r[i] = IF i <= p - 1 THEN a[i] ELSE c[i - (p - 1)]
  BY <1>1, <1>2, <1>3, <1>5, <1>6
<1> HIDE DEF r
<1>10. ASSUME NEW i \in 1 .. Len(l) - 1
       PROVE  r[i] = IF i < p THEN l[i] ELSE l[i + 1]
  <2>1. CASE i < p
    BY <1>1, <1>2, <1>8, <2>1
  <2>2. CASE i >= p
    <3>1. i - (p - 1) \in 1 .. Len(l) - p /\ p + (i - (p - 1)) = i + 1
      BY <1>1, <2>2
    <3> QED BY <1>1, <1>3, <1>8, <2>2, <3>1
  <2> QED BY <2>1, <2>2
<1> QED BY <1>8, <1>10

LEMMA SortedInsert ==
  ASSUME NEW l, NEW Q, Sorted(l, Q), NEW e \in Events, e \notin Q
  PROVE  Sorted(List!InsertSorted(l, e), Q \cup {e})
<1>1. /\ l \in Seq(Events) /\ Len(l) \in Nat
      /\ \A i \in 1 .. Len(l) : l[i] \in Events /\ l[i] \in Q /\ l[i] # e
  BY SortedTypes DEF Sorted
<1> DEFINE later == {i \in 1 .. Len(l) : List!Before(e, l[i])}
           r == List!InsertSorted(l, e)
<1>2. PICK p \in 1 .. Len(l) + 1 :
        /\ \A i \in 1 .. Len(l) : i < p => List!Before(l[i], e)
        /\ p <= Len(l) => List!Before(e, l[p])
        /\ r \in Seq(Events) /\ Len(r) = Len(l) + 1
        /\ \A i \in 1 .. Len(l) + 1 : r[i] = IF i < p THEN l[i] ELSE IF i = p THEN e ELSE l[i - 1]
  <2>1. DOMAIN l = 1 .. Len(l)
    BY <1>1
  <2>2. r = IF later = {} THEN Append(l, e) ELSE List!InsertAt(l, List!Min(later), e)
    BY <2>1 DEF List!InsertSorted
  <2> HIDE DEF r
  <2>3. CASE later = {}
    <3>1. \A i \in 1 .. Len(l) : ~List!Before(e, l[i])
      BY <2>3
    <3>2. \A i \in 1 .. Len(l) : List!Before(l[i], e)
      BY <1>1, <3>1, TotalOrder
    <3>3. r = Append(l, e)
      BY <2>2, <2>3
    <3>4. /\ r \in Seq(Events) /\ Len(r) = Len(l) + 1 /\ r[Len(l) + 1] = e
          /\ \A i \in 1 .. Len(l) : r[i] = l[i]
      BY <1>1, <3>3
    <3>5. Len(l) + 1 \in 1 .. Len(l) + 1
      BY <1>1
    <3> QED BY <1>1, <3>2, <3>4, <3>5
  <2>4. CASE later # {}
    <3>1. PICK m \in later : \A i \in later : m <= i
      <4>1. later \subseteq Nat
        BY <1>1
      <4> HIDE DEF later
      <4> QED BY <2>4, <4>1, LeastNatural
    <3>2. List!Min(later) = m
      <4>1. \A x \in later : (\A y \in later : x <= y) => x = m
        BY <1>1, <3>1
      <4> HIDE DEF later
      <4> QED BY <3>1, <4>1 DEF List!Min
    <3>3. m \in 1 .. Len(l) /\ List!Before(e, l[m])
      BY <3>1
    <3>4. \A i \in 1 .. Len(l) : i < m => List!Before(l[i], e)
      <4>1. \A i \in 1 .. Len(l) : i < m => ~List!Before(e, l[i])
        BY <1>1, <3>1, <3>3
      <4> QED BY <1>1, <4>1, TotalOrder
    <3>5. r = List!InsertAt(l, m, e)
      BY <2>2, <2>4, <3>2
    <3>6. /\ r \in Seq(Events) /\ Len(r) = Len(l) + 1
          /\ \A i \in 1 .. Len(l) + 1 : r[i] = IF i < m THEN l[i] ELSE IF i = m THEN e ELSE l[i - 1]
      <4> HIDE DEF later
      <4>1. m \in 1 .. Len(l) /\ l \in Seq(Events)
        BY <1>1, <3>3
      <4> QED BY <3>5, <4>1, InsertedAt
    <3>7. m \in 1 .. Len(l) + 1
      BY <1>1, <3>3
    <3> HIDE DEF later
    <3> QED BY <3>3, <3>4, <3>6, <3>7
  <2> HIDE DEF later
  <2> QED BY <2>3, <2>4
<1> HIDE DEF r, later
<1>3. List!KeysAscend(r)
  <2> SUFFICES ASSUME NEW i \in 1 .. Len(l) PROVE List!Before(r[i], r[i + 1])
    BY <1>1, <1>2 DEF List!KeysAscend
  <2>1. i \in 1 .. Len(l) + 1 /\ i + 1 \in 1 .. Len(l) + 1
    BY <1>1
  <2>2. CASE i + 1 < p
    <3>1. r[i] = l[i] /\ r[i + 1] = l[i + 1] /\ i \in 1 .. Len(l) - 1
      BY <1>1, <1>2, <2>1, <2>2
    <3> QED BY <3>1 DEF Sorted, List!KeysAscend
  <2>3. CASE i + 1 = p
    <3>1. r[i] = l[i] /\ r[i + 1] = e
      BY <1>1, <1>2, <2>1, <2>3
    <3> QED BY <1>1, <1>2, <2>3, <3>1
  <2>4. CASE i = p
    <3>1. r[i] = e /\ r[i + 1] = l[i]
      BY <1>1, <1>2, <2>1, <2>4
    <3> QED BY <1>1, <1>2, <2>4, <3>1
  <2>5. CASE i > p
    <3>1. r[i] = l[i - 1] /\ r[i + 1] = l[(i - 1) + 1] /\ i - 1 \in 1 .. Len(l) - 1
      BY <1>1, <1>2, <2>1, <2>5
    <3> QED BY <3>1 DEF Sorted, List!KeysAscend
  <2> QED BY <1>1, <2>2, <2>3, <2>4, <2>5
<1>4. ASSUME NEW i \in 1 .. Len(r) PROVE r[i] \in Q \cup {e}
  <2>1. i < p => i \in 1 .. Len(l)
    BY <1>1, <1>2
  <2>2. i > p => i - 1 \in 1 .. Len(l)
    BY <1>1, <1>2
  <2> QED BY <1>1, <1>2, <2>1, <2>2
<1>5. ASSUME NEW f \in Q \cup {e} PROVE \E i \in 1 .. Len(r) : f = r[i]
  <2>1. CASE f = e
    BY <1>1, <1>2, <2>1
  <2>2. CASE f \in Q
    <3>1. PICK i \in 1 .. Len(l) : f = l[i]
      BY <2>2 DEF Sorted
    <3>2. CASE i < p
      BY <1>1, <1>2, <3>1, <3>2
    <3>3. CASE i >= p
      <4>1. i + 1 \in 1 .. Len(l) + 1 /\ (i + 1) - 1 = i /\ ~(i + 1 < p) /\ i + 1 # p
        BY <1>1, <3>3
      <4>2. r[i + 1] = l[i]
        BY <1>2, <4>1
      <4> QED BY <1>2, <3>1, <4>1, <4>2
    <3> QED BY <1>1, <3>2, <3>3
  <2> QED BY <2>1, <2>2
<1>6. Q \cup {e} = {r[i] : i \in 1 .. Len(r)}
  BY <1>4, <1>5
<1> QED BY <1>2, <1>3, <1>6 DEF Sorted, r

LEMMA SortedErase ==
  ASSUME NEW l, NEW Q, Sorted(l, Q), NEW e \in Q, \A f \in Q : f.uid = e.uid => f = e
  PROVE  Sorted(List!EraseUid(l, e), Q \ {e})
<1>1. /\ l \in Seq(Events) /\ Len(l) \in Nat
      /\ \A i \in 1 .. Len(l) : l[i] \in Events /\ l[i] \in Q
      /\ DOMAIN l = 1 .. Len(l)
  BY SortedTypes DEF Sorted
<1> DEFINE q == CHOOSE i \in DOMAIN l : l[i].uid = e.uid
<1>2. PICK p \in 1 .. Len(l) : p = q /\ l[p] = e
  <2>1. \E i \in DOMAIN l : l[i].uid = e.uid
    BY <1>1 DEF Sorted
  <2>2. q \in DOMAIN l /\ l[q].uid = e.uid
    BY <2>1
  <2> HIDE DEF q
  <2> QED BY <1>1, <2>2
<1> DEFINE r == List!EraseUid(l, e)
<1>3. r = List!RemoveAt(l, p)
  BY <1>2 DEF List!EraseUid
<1> HIDE DEF q, r
<1>4. /\ r \in Seq(Events) /\ Len(r) = Len(l) - 1
      /\ \A i \in 1 .. Len(l) - 1 : r[i] = IF i < p THEN l[i] ELSE l[i + 1]
  BY <1>1, <1>3, RemovedAt
<1>5. \A i, j \in 1 .. Len(l) : i < j => List!Before(l[i], l[j])
  BY SortedAll
<1>6. List!KeysAscend(r)
  <2> SUFFICES ASSUME NEW i \in 1 .. (Len(l) - 1) - 1 PROVE List!Before(r[i], r[i + 1])
    BY <1>4 DEF List!KeysAscend
  <2>1. /\ i \in 1 .. Len(l) - 1 /\ i + 1 \in 1 .. Len(l) - 1
        /\ i \in 1 .. Len(l) /\ i + 1 \in 1 .. Len(l) /\ (i + 1) + 1 \in 1 .. Len(l)
        /\ i < i + 1 /\ i + 1 < (i + 1) + 1 /\ i < (i + 1) + 1
    BY <1>1
  <2>2. r[i] \in {l[i], l[i + 1]} /\ r[i + 1] \in {l[i + 1], l[(i + 1) + 1]}
    BY <1>4, <2>1
  <2>4. CASE i < p
    <3>1. r[i] = l[i]
      BY <1>4, <2>1, <2>4
    <3> QED BY <1>5, <2>1, <2>2, <3>1
  <2>5. CASE ~(i < p)
    <3>1. r[i] = l[i + 1] /\ r[i + 1] = l[(i + 1) + 1]
      BY <1>1, <1>4, <2>1, <2>5
    <3> QED BY <1>5, <2>1, <3>1
  <2> QED BY <2>4, <2>5
<1>7. ASSUME NEW i \in 1 .. Len(r) PROVE r[i] \in Q \ {e}
  <2>1. PICK j \in 1 .. Len(l) : r[i] = l[j] /\ j # p
    <3>1. CASE i < p
      BY <1>1, <1>4, <3>1
    <3>2. CASE ~(i < p)
      <4>1. i + 1 \in 1 .. Len(l) /\ i + 1 # p
        BY <1>1, <1>4, <3>2
      <4> QED BY <1>4, <3>2, <4>1
    <3> QED BY <3>1, <3>2
  <2>2. List!Before(l[j], l[p]) \/ List!Before(l[p], l[j])
    BY <1>1, <1>5, <2>1
  <2>3. l[j] # l[p]
    BY <1>1, <2>2, TotalOrder
  <2> QED BY <1>1, <1>2, <2>1, <2>3
<1>8. ASSUME NEW f \in Q \ {e} PROVE \E i \in 1 .. Len(r) : f = r[i]
  <2>1. PICK i \in 1 .. Len(l) : f = l[i]
    BY DEF Sorted
  <2>2. i # p
    BY <1>2, <2>1
  <2>3. CASE i < p
    <3>1. i \in 1 .. Len(l) - 1
      BY <1>1, <2>3
    <3> QED BY <1>4, <2>1, <2>3, <3>1
  <2>4. CASE i > p
    <3>1. i - 1 \in 1 .. Len(l) - 1 /\ ~(i - 1 < p) /\ (i - 1) + 1 = i
      BY <1>1, <2>4
    <3>2. r[i - 1] = l[i]
      BY <1>4, <3>1
    <3> QED BY <1>4, <2>1, <3>1, <3>2
  <2> QED BY <2>2, <2>3, <2>4
<1>9. Q \ {e} = {r[i] : i \in 1 .. Len(r)}
  BY <1>7, <1>8
<1> QED BY <1>4, <1>6, <1>9 DEF Sorted, r

-----------------------------------------------------------------------------
(* Buckets of sorted lists: H gives the bucket of a time, and each bucket  *)
(* holds its share of the events, sorted.                                  *)

Share(Q, H, b) == {e \in Q : H[e.ts] = b}

Bucketed(B, n, H, Q) ==
  /\ Q \subseteq Events
  /\ H \in [0 .. MaxTs -> 0 .. n - 1]
  /\ B \in [0 .. n - 1 -> Seq(Events)]
  /\ \A b \in 0 .. n - 1 : Sorted(B[b], Share(Q, H, b))

LEMMA BucketedEmpty ==
  ASSUME NEW n, NEW H \in [0 .. MaxTs -> 0 .. n - 1]
  PROVE  Bucketed([b \in 0 .. n - 1 |-> <<>>], n, H, {})
<1>1. \A b \in 0 .. n - 1 : Share({}, H, b) = {}
  BY DEF Share
<1>2. <<>> \in Seq(Events)
  OBVIOUS
<1>3. [b \in 0 .. n - 1 |-> <<>>] \in [0 .. n - 1 -> Seq(Events)]
  BY <1>2
<1> QED BY <1>1, <1>3, SortedEmpty DEF Bucketed

LEMMA BucketedInsert ==
  ASSUME NEW B, NEW n, NEW H, NEW Q, Bucketed(B, n, H, Q), NEW e \in Events, e \notin Q
  PROVE  Bucketed([B EXCEPT ![H[e.ts]] = List!InsertSorted(B[H[e.ts]], e)], n, H, Q \cup {e})
<1> DEFINE h == H[e.ts]
           l == List!InsertSorted(B[h], e)
<1>1. h \in 0 .. n - 1
  BY EventFields DEF Bucketed
<1>2. Share(Q \cup {e}, H, h) = Share(Q, H, h) \cup {e}
  BY DEF Share
<1>3. \A b \in (0 .. n - 1) \ {h} : Share(Q \cup {e}, H, b) = Share(Q, H, b)
  BY DEF Share
<1>4. Sorted(B[h], Share(Q, H, h)) /\ e \notin Share(Q, H, h)
  BY <1>1 DEF Bucketed, Share
<1>5. Sorted(l, Share(Q \cup {e}, H, h))
  BY <1>2, <1>4, SortedInsert
<1> HIDE DEF h, l
<1>6. l \in Seq(Events)
  BY <1>5 DEF Sorted
<1>7. Bucketed([B EXCEPT ![h] = l], n, H, Q \cup {e})
  BY <1>1, <1>3, <1>5, <1>6 DEF Bucketed
<1> QED BY <1>7 DEF h, l

LEMMA BucketedErase ==
  ASSUME NEW B, NEW n, NEW H, NEW Q, Bucketed(B, n, H, Q),
         NEW e \in Q, \A f \in Q : f.uid = e.uid => f = e
  PROVE  Bucketed([B EXCEPT ![H[e.ts]] = List!EraseUid(B[H[e.ts]], e)], n, H, Q \ {e})
<1> DEFINE h == H[e.ts]
           l == List!EraseUid(B[h], e)
<1>1. h \in 0 .. n - 1
  BY EventFields DEF Bucketed
<1>2. Share(Q \ {e}, H, h) = Share(Q, H, h) \ {e}
  BY DEF Share
<1>3. \A b \in (0 .. n - 1) \ {h} : Share(Q \ {e}, H, b) = Share(Q, H, b)
  BY DEF Share
<1>4. Sorted(B[h], Share(Q, H, h)) /\ e \in Share(Q, H, h)
  BY <1>1 DEF Bucketed, Share
<1>5. \A f \in Share(Q, H, h) : f.uid = e.uid => f = e
  BY DEF Share
<1>6. Sorted(l, Share(Q \ {e}, H, h))
  <2> DEFINE R == Share(Q, H, h)
             m == B[h]
  <2>1. Sorted(m, R) /\ e \in R /\ \A f \in R : f.uid = e.uid => f = e
    BY <1>4, <1>5
  <2> HIDE DEF R, m
  <2>2. Sorted(List!EraseUid(m, e), R \ {e})
    BY <2>1, SortedErase
  <2> QED BY <1>2, <2>2 DEF R, m
<1> HIDE DEF h, l
<1>7. l \in Seq(Events)
  BY <1>6 DEF Sorted
<1>8. Bucketed([B EXCEPT ![h] = l], n, H, Q \ {e})
  BY <1>1, <1>3, <1>6, <1>7 DEF Bucketed
<1> QED BY <1>8 DEF h, l

\* An event waits behind the front of its bucket.
LEMMA BucketFront ==
  ASSUME NEW B, NEW n, NEW H, NEW Q, Bucketed(B, n, H, Q), NEW b \in 0 .. n - 1, B[b] # <<>>
  PROVE  /\ Head(B[b]) \in Q /\ H[Head(B[b]).ts] = b
         /\ \A e \in Q : H[e.ts] = b => e = Head(B[b]) \/ List!Before(Head(B[b]), e)
<1>1. Sorted(B[b], Share(Q, H, b))
  BY DEF Bucketed
<1>2. /\ Head(B[b]) \in Share(Q, H, b)
      /\ \A f \in Share(Q, H, b) \ {Head(B[b])} : List!Before(Head(B[b]), f)
  BY <1>1, SortedFront
<1> QED BY <1>2 DEF Share

LEMMA BucketOfEvent ==
  ASSUME NEW B, NEW n, NEW H, NEW Q, Bucketed(B, n, H, Q), NEW e \in Q
  PROVE  H[e.ts] \in 0 .. n - 1 /\ B[H[e.ts]] # <<>>
<1>1. e \in Events /\ H[e.ts] \in 0 .. n - 1
  BY EventFields DEF Bucketed
<1>2. Sorted(B[H[e.ts]], Share(Q, H, H[e.ts])) /\ e \in Share(Q, H, H[e.ts])
  BY <1>1 DEF Bucketed, Share
<1> QED BY <1>1, <1>2, SortedTypes

LEMMA BucketedTail ==
  ASSUME NEW B, NEW n, NEW H, NEW Q, Bucketed(B, n, H, Q), NEW b \in 0 .. n - 1, B[b] # <<>>
  PROVE  Bucketed([B EXCEPT ![b] = Tail(B[b])], n, H, Q \ {Head(B[b])})
<1> DEFINE e == Head(B[b])
           l == Tail(B[b])
<1>1. Sorted(B[b], Share(Q, H, b))
  BY DEF Bucketed
<1>2. e \in Share(Q, H, b) /\ Sorted(l, Share(Q, H, b) \ {e})
  BY <1>1, SortedFront
<1> HIDE DEF e, l
<1>3. e \in Q /\ H[e.ts] = b
  BY <1>2 DEF Share
<1>4. Share(Q \ {e}, H, b) = Share(Q, H, b) \ {e}
  BY <1>3 DEF Share
<1>5. \A c \in (0 .. n - 1) \ {b} : Share(Q \ {e}, H, c) = Share(Q, H, c)
  BY <1>3 DEF Share
<1>6. l \in Seq(Events)
  BY <1>2 DEF Sorted
<1>7. Bucketed([B EXCEPT ![b] = l], n, H, Q \ {e})
  BY <1>2, <1>4, <1>5, <1>6 DEF Bucketed
<1> QED BY <1>7 DEF e, l

LEMMA BucketedAll ==
  ASSUME NEW B, NEW n, NEW H, NEW Q, Bucketed(B, n, H, Q)
  PROVE  /\ \A b \in 0 .. n - 1 : /\ List!KeysAscend(B[b])
                                  /\ \A i \in 1 .. Len(B[b]) : B[b][i] \in Q /\ H[B[b][i].ts] = b
         /\ \A e \in Q : \E i \in 1 .. Len(B[H[e.ts]]) : e = B[H[e.ts]][i]
         /\ \A e \in Q : H[e.ts] \in 0 .. n - 1
<1>1. ASSUME NEW b \in 0 .. n - 1
      PROVE  /\ List!KeysAscend(B[b])
             /\ \A i \in 1 .. Len(B[b]) : B[b][i] \in Q /\ H[B[b][i].ts] = b
             /\ \A e \in Q : H[e.ts] = b => \E i \in 1 .. Len(B[b]) : e = B[b][i]
  <2>1. Sorted(B[b], Share(Q, H, b))
    BY DEF Bucketed
  <2>2. \A i \in 1 .. Len(B[b]) : B[b][i] \in Share(Q, H, b)
    BY <2>1, SortedTypes
  <2>3. \A e \in Share(Q, H, b) : \E i \in 1 .. Len(B[b]) : e = B[b][i]
    BY <2>1 DEF Sorted
  <2> QED BY <2>1, <2>2, <2>3 DEF Sorted, Share
<1>2. \A e \in Q : H[e.ts] \in 0 .. n - 1
  BY BucketOfEvent
<1> QED BY <1>1, <1>2

-----------------------------------------------------------------------------
(* The heap.  Its loops have a value, and keep the heap's elements.        *)

ClimbFrom(h, x, n, f) ==
  f = [k \in 0 .. n |-> IF k = 0 THEN Heap!At(h, x) ELSE Heap!UpStep(f[k - 1])]

LEMMA ClimbDefined ==
  ASSUME NEW h, NEW x, NEW n \in Nat
  PROVE  \E f : ClimbFrom(h, x, n, f)
<1> DEFINE S == {m \in Nat : \E f : ClimbFrom(h, x, m, f)}
<1>1. 0 \in S
  <2>1. ClimbFrom(h, x, 0, [k \in 0 .. 0 |-> Heap!At(h, x)])
    BY DEF ClimbFrom
  <2> QED BY <2>1
<1>2. ASSUME NEW m \in Nat, m \in S PROVE m + 1 \in S
  <2>1. PICK f : ClimbFrom(h, x, m, f)
    BY <1>2
  <2> DEFINE g == [k \in 0 .. m + 1 |-> IF k <= m THEN f[k] ELSE Heap!UpStep(f[m])]
  <2>2. ClimbFrom(h, x, m + 1, g)
    BY <2>1 DEF ClimbFrom
  <2> QED BY <2>2
<1> HIDE DEF S
<1>3. Nat \subseteq S
  BY <1>1, <1>2, Induct
<1> QED BY <1>3 DEF S

LEMMA Climb ==
  ASSUME NEW h, NEW x, Len(h) \in Nat
  PROVE  \E f : /\ Heap!BottomUp(h, x) = f[Len(h)].heap
                /\ f[0] = Heap!At(h, x)
                /\ \A k \in 0 .. Len(h) - 1 : f[k + 1] = Heap!UpStep(f[k])
<1>1. ClimbFrom(h, x, Len(h), CHOOSE f : ClimbFrom(h, x, Len(h), f))
  BY ClimbDefined
<1>2. Heap!BottomUp(h, x) = (CHOOSE f : ClimbFrom(h, x, Len(h), f))[Len(h)].heap
  BY DEF Heap!BottomUp, ClimbFrom
<1>3. PICK f : ClimbFrom(h, x, Len(h), f) /\ Heap!BottomUp(h, x) = f[Len(h)].heap
  BY <1>1, <1>2
<1>4. f[0] = Heap!At(h, x)
  BY <1>3 DEF ClimbFrom
<1>5. \A k \in 0 .. Len(h) - 1 : f[k + 1] = Heap!UpStep(f[k])
  <2>1. \A k \in 0 .. Len(h) - 1 : k + 1 \in 0 .. Len(h) /\ k + 1 # 0 /\ (k + 1) - 1 = k
    OBVIOUS
  <2>2. \A k \in 0 .. Len(h) : k # 0 => f[k] = Heap!UpStep(f[k - 1])
    BY <1>3 DEF ClimbFrom
  <2> QED BY <2>1, <2>2
<1> QED BY <1>3, <1>4, <1>5

SinkFrom(h, x, n, f) ==
  f = [k \in 0 .. n |-> IF k = 0 THEN Heap!At(h, x) ELSE Heap!DownStep(f[k - 1])]

LEMMA SinkDefined ==
  ASSUME NEW h, NEW x, NEW n \in Nat
  PROVE  \E f : SinkFrom(h, x, n, f)
<1> DEFINE S == {m \in Nat : \E f : SinkFrom(h, x, m, f)}
<1>1. 0 \in S
  <2>1. SinkFrom(h, x, 0, [k \in 0 .. 0 |-> Heap!At(h, x)])
    BY DEF SinkFrom
  <2> QED BY <2>1
<1>2. ASSUME NEW m \in Nat, m \in S PROVE m + 1 \in S
  <2>1. PICK f : SinkFrom(h, x, m, f)
    BY <1>2
  <2> DEFINE g == [k \in 0 .. m + 1 |-> IF k <= m THEN f[k] ELSE Heap!DownStep(f[m])]
  <2>2. SinkFrom(h, x, m + 1, g)
    BY <2>1 DEF SinkFrom
  <2> QED BY <2>2
<1> HIDE DEF S
<1>3. Nat \subseteq S
  BY <1>1, <1>2, Induct
<1> QED BY <1>3 DEF S

LEMMA Sink ==
  ASSUME NEW h, NEW x, Len(h) \in Nat
  PROVE  \E f : /\ Heap!TopDown(h, x) = f[Len(h)].heap
                /\ f[0] = Heap!At(h, x)
                /\ \A k \in 0 .. Len(h) - 1 : f[k + 1] = Heap!DownStep(f[k])
<1>1. SinkFrom(h, x, Len(h), CHOOSE f : SinkFrom(h, x, Len(h), f))
  BY SinkDefined
<1>2. Heap!TopDown(h, x) = (CHOOSE f : SinkFrom(h, x, Len(h), f))[Len(h)].heap
  BY DEF Heap!TopDown, SinkFrom
<1>3. PICK f : SinkFrom(h, x, Len(h), f) /\ Heap!TopDown(h, x) = f[Len(h)].heap
  BY <1>1, <1>2
<1>4. f[0] = Heap!At(h, x)
  BY <1>3 DEF SinkFrom
<1>5. \A k \in 0 .. Len(h) - 1 : f[k + 1] = Heap!DownStep(f[k])
  <2>1. \A k \in 0 .. Len(h) - 1 : k + 1 \in 0 .. Len(h) /\ k + 1 # 0 /\ (k + 1) - 1 = k
    OBVIOUS
  <2>2. \A k \in 0 .. Len(h) : k # 0 => f[k] = Heap!DownStep(f[k - 1])
    BY <1>3 DEF SinkFrom
  <2> QED BY <2>1, <2>2
<1> QED BY <1>3, <1>4, <1>5

\* An array of the events of Q, each once
Filled(h, n, Q) ==
  /\ Q \subseteq Events
  /\ h \in Seq(Events) /\ Len(h) = n
  /\ \A i, j \in 1 .. n : h[i] = h[j] => i = j
  /\ Q = {h[i] : i \in 1 .. n}

Ordered(h, i) == List!Before(h[i \div 2], h[i])

GoodHeap(h, Q) ==
  /\ Filled(h, Len(h), Q)
  /\ \A i \in 2 .. Len(h) : Ordered(h, i)

LEMMA Exchanged ==
  ASSUME NEW h, NEW n \in Nat, NEW Q, Filled(h, n, Q), NEW a \in 1 .. n, NEW b \in 1 .. n
  PROVE  /\ Filled(Heap!Exch(h, a, b), n, Q)
         /\ \A i \in 1 .. n : Heap!Exch(h, a, b)[i] = IF i = a THEN h[b] ELSE IF i = b THEN h[a] ELSE h[i]
<1> DEFINE g == Heap!Exch(h, a, b)
           to(i) == IF i = a THEN b ELSE IF i = b THEN a ELSE i
<1>1. h \in Seq(Events) /\ Len(h) = n /\ \A i \in 1 .. n : h[i] \in Events
  BY DEF Filled
<1>2. /\ g \in Seq(Events) /\ Len(g) = n
      /\ \A i \in 1 .. n : g[i] = IF i = a THEN h[b] ELSE IF i = b THEN h[a] ELSE h[i]
  BY <1>1 DEF Heap!Exch
<1> HIDE DEF g
<1>3. \A i \in 1 .. n : to(i) \in 1 .. n /\ g[i] = h[to(i)] /\ h[i] = g[to(i)]
  BY <1>2
<1>4. \A i, j \in 1 .. n : to(i) = to(j) => i = j
  OBVIOUS
<1> HIDE DEF to
<1>5. \A i, j \in 1 .. n : g[i] = g[j] => i = j
  BY <1>3, <1>4 DEF Filled
<1>6. Q = {g[i] : i \in 1 .. n}
  <2>1. \A i \in 1 .. n : g[i] \in Q
    BY <1>3 DEF Filled
  <2>2. ASSUME NEW f \in Q PROVE \E i \in 1 .. n : f = g[i]
    <3>1. PICK i \in 1 .. n : f = h[i]
      BY DEF Filled
    <3> QED BY <1>3, <3>1
  <2> QED BY <2>1, <2>2
<1> QED BY <1>2, <1>5, <1>6 DEF g, Filled

\* A node and its parent
LEMMA Parents ==
  /\ \A i \in Nat : i >= 2 => i \div 2 \in Nat /\ i \div 2 >= 1 /\ i \div 2 < i
  /\ \A i \in Nat : 2 * i \in Nat /\ (2 * i) \div 2 = i /\ (2 * i + 1) \div 2 = i
  /\ \A i, j \in Nat : i \div 2 = j => i = 2 * j \/ i = 2 * j + 1
OBVIOUS

LEMMA RootIsLeast ==
  ASSUME NEW h, NEW Q, GoodHeap(h, Q), Q # {}
  PROVE  /\ Len(h) >= 1 /\ h[1] \in Q
         /\ \A f \in Q \ {h[1]} : List!Before(h[1], f)
         /\ List!Least(Q) = h[1]
<1>1. /\ h \in Seq(Events) /\ Len(h) \in Nat /\ Q \in SUBSET Events
      /\ Q = {h[i] : i \in 1 .. Len(h)} /\ \A i \in 1 .. Len(h) : h[i] \in Events
  BY DEF GoodHeap, Filled
<1>2. Len(h) >= 1
  BY <1>1
<1> DEFINE Bad == {i \in 2 .. Len(h) : ~List!Before(h[1], h[i])}
<1>3. Bad = {}
  <2> SUFFICES ASSUME Bad # {} PROVE FALSE
    OBVIOUS
  <2>1. PICK m \in Bad : \A i \in Bad : m <= i
    <3>1. Bad \subseteq Nat
      BY <1>1
    <3> HIDE DEF Bad
    <3> QED BY <3>1, LeastNatural
  <2>2. /\ m \in 2 .. Len(h) /\ m \in Nat /\ m >= 2 /\ ~List!Before(h[1], h[m])
    BY <1>1
  <2>3. m \div 2 \in Nat /\ m \div 2 >= 1 /\ m \div 2 < m
    BY <2>2, Parents
  <2>4. m \div 2 \in 1 .. Len(h) /\ List!Before(h[m \div 2], h[m])
    BY <1>1, <2>2, <2>3 DEF GoodHeap, Ordered
  <2>5. m \div 2 # 1
    BY <2>2, <2>4
  <2>6. List!Before(h[1], h[m \div 2])
    BY <1>1, <2>1, <2>2, <2>3, <2>4, <2>5
  <2>7. 1 \in 1 .. Len(h) /\ m \in 1 .. Len(h)
    BY <1>1, <1>2, <2>2
  <2> QED BY <1>1, <2>2, <2>4, <2>6, <2>7, TotalOrder
<1>4. 1 \in 1 .. Len(h) /\ h[1] \in Q
  BY <1>1, <1>2
<1>5. \A f \in Q \ {h[1]} : List!Before(h[1], f)
  <2> SUFFICES ASSUME NEW f \in Q \ {h[1]} PROVE List!Before(h[1], f)
    OBVIOUS
  <2>1. PICK i \in 1 .. Len(h) : f = h[i]
    BY <1>1
  <2>2. i \in 2 .. Len(h)
    BY <1>1, <2>1
  <2> QED BY <1>3, <2>1, <2>2
<1>6. List!Least(Q) = h[1]
  <2>1. Q \in SUBSET Events
    BY <1>1
  <2> QED BY <1>4, <1>5, <2>1, LeastIs
<1> QED BY <1>2, <1>4, <1>5, <1>6

\* BottomUp: the order fails at most between x and its parent, and the
\* children of x come after that parent.
Rising(h, x, n, Q) ==
  /\ Filled(h, n, Q) /\ x \in 1 .. n
  /\ \A i \in 2 .. n : i # x => Ordered(h, i)
  /\ \A i \in 2 .. n : i \div 2 = x /\ x >= 2 => List!Before(h[x \div 2], h[i])

Risen(h, x) == x = 1 \/ ~List!Before(h[x], h[x \div 2])

LEMMA RisenIsGood ==
  ASSUME NEW h, NEW x, NEW n \in Nat, NEW Q, Rising(h, x, n, Q), Risen(h, x)
  PROVE  GoodHeap(h, Q)
<1>1. /\ h \in Seq(Events) /\ Len(h) = n /\ x \in 1 .. n
      /\ \A i \in 1 .. n : h[i] \in Events
      /\ \A i, j \in 1 .. n : h[i] = h[j] => i = j
  BY DEF Rising, Filled
<1>2. x # 1 => Ordered(h, x)
  <2> SUFFICES ASSUME x # 1 PROVE Ordered(h, x)
    OBVIOUS
  <2>1. x \div 2 \in Nat /\ x \div 2 >= 1 /\ x \div 2 < x
    BY <1>1, Parents
  <2>2. x \div 2 \in 1 .. n /\ h[x \div 2] # h[x]
    BY <1>1, <2>1
  <2> QED BY <1>1, <2>2, TotalOrder DEF Risen, Ordered
<1> QED BY <1>1, <1>2 DEF Rising, GoodHeap

LEMMA RisingStep ==
  ASSUME NEW s, NEW n \in Nat, NEW Q, Rising(s.heap, s.index, n, Q)
  PROVE  /\ Risen(s.heap, s.index) => Heap!UpStep(s) = s
         /\ ~Risen(s.heap, s.index) =>
              /\ Rising(Heap!UpStep(s).heap, Heap!UpStep(s).index, n, Q)
              /\ Heap!UpStep(s).index < s.index
<1> DEFINE h == s.heap
           x == s.index
           p == x \div 2
           g == Heap!Exch(h, x, p)
<1>1. Heap!UpStep(s) = IF x # 1 /\ List!Before(h[x], h[p]) THEN [heap |-> g, index |-> p] ELSE s
  BY SameOrder DEF Heap!UpStep, Heap!Root, Heap!IsLessStrictly, Heap!Parent, Heap!At
<1>2. Rising(h, x, n, Q) /\ x \in 1 .. n
  BY DEF Rising
<1>3. Risen(h, x) => Heap!UpStep(s) = s
  BY <1>1 DEF Risen
<1>4. ASSUME ~Risen(h, x)
      PROVE  Rising(g, p, n, Q) /\ p < x
  <2>1. x # 1 /\ List!Before(h[x], h[p])
    BY <1>4 DEF Risen
  <2> HIDE DEF h, x
  <2>2. p \in Nat /\ p >= 1 /\ p < x /\ p \in 1 .. n /\ x \in 2 .. n
    BY <1>2, <2>1, Parents
  <2>3. /\ Filled(h, n, Q)
        /\ \A i \in 2 .. n : i # x => List!Before(h[i \div 2], h[i])
        /\ \A i \in 2 .. n : i \div 2 = x => List!Before(h[p], h[i])
        /\ \A i \in 1 .. n : h[i] \in Events
    <3>1. x >= 2 /\ Filled(h, n, Q)
      BY <1>2, <2>2 DEF Rising
    <3>2. \A i \in 1 .. n : h[i] \in Events
      BY <3>1 DEF Filled
    <3> QED BY <1>2, <3>1, <3>2 DEF Rising, Ordered
  <2> HIDE DEF p
  <2>4. /\ Filled(g, n, Q)
        /\ \A i \in 1 .. n : g[i] = IF i = x THEN h[p] ELSE IF i = p THEN h[x] ELSE h[i]
    BY <1>2, <2>2, <2>3, Exchanged
  <2> HIDE DEF g
  <2>5. \A i \in 2 .. n : i \div 2 \in 1 .. n /\ i \div 2 < i /\ i \in 1 .. n
    BY Parents
  <2>6. ASSUME NEW i \in 2 .. n, i # p PROVE List!Before(g[i \div 2], g[i])
    <3>1. CASE i = x
      <4>1. g[x] = h[p] /\ g[p] = h[x] /\ i \div 2 = p
        BY <2>2, <2>4, <3>1 DEF p
      <4> QED BY <2>1, <3>1, <4>1
    <3>2. CASE i # x /\ i \div 2 = p
      <4>1. g[i] = h[i] /\ g[p] = h[x] /\ List!Before(h[p], h[i])
        BY <2>2, <2>3, <2>4, <2>5, <2>6, <3>2
      <4> QED BY <2>1, <2>2, <2>3, <2>5, <3>2, <4>1, TotalOrder, <1>2
    <3>3. CASE i # x /\ i \div 2 = x
      <4>1. g[i] = h[i] /\ g[x] = h[p]
        BY <1>2, <2>4, <2>5, <2>6, <3>3
      <4> QED BY <2>3, <3>3, <4>1
    <3>4. CASE i # x /\ i \div 2 # p /\ i \div 2 # x
      <4>1. g[i] = h[i] /\ g[i \div 2] = h[i \div 2]
        BY <2>4, <2>5, <2>6, <3>4
      <4> QED BY <2>3, <3>4, <4>1
    <3> QED BY <3>1, <3>2, <3>3, <3>4
  <2>7. ASSUME NEW i \in 2 .. n, i \div 2 = p, p >= 2 PROVE List!Before(g[p \div 2], g[i])
    <3>1. p \in 2 .. n /\ p \div 2 \in 1 .. n /\ p \div 2 < p
      BY <2>2, <2>5, <2>7
    <3>2. g[p \div 2] = h[p \div 2]
      BY <2>2, <2>4, <3>1
    <3>3. List!Before(h[p \div 2], h[p])
      BY <2>2, <2>3, <3>1
    <3>4. CASE i = x
      BY <1>2, <2>4, <3>2, <3>3, <3>4
    <3>5. CASE i # x
      <4>1. g[i] = h[i] /\ List!Before(h[p], h[i])
        BY <2>3, <2>4, <2>5, <2>7, <3>1, <3>5
      <4>2. h[p \div 2] \in Events /\ h[p] \in Events /\ h[i] \in Events
        BY <2>2, <2>3, <2>5, <3>1
      <4> QED BY <3>2, <3>3, <4>1, <4>2, TotalOrder
    <3> QED BY <3>4, <3>5
  <2> QED BY <2>2, <2>4, <2>6, <2>7 DEF Rising, Ordered
<1>5. ~Risen(h, x) => Heap!UpStep(s).heap = g /\ Heap!UpStep(s).index = p
  BY <1>1 DEF Risen
<1> QED BY <1>3, <1>4, <1>5

LEMMA BottomUpIsGood ==
  ASSUME NEW h, NEW n \in Nat, NEW x, NEW Q, Rising(h, x, n, Q)
  PROVE  GoodHeap(Heap!BottomUp(h, x), Q)
<1>1. Len(h) = n /\ x \in 1 .. n
  BY DEF Rising, Filled
<1>2. PICK f : /\ Heap!BottomUp(h, x) = f[n].heap
               /\ f[0] = Heap!At(h, x)
               /\ \A k \in 0 .. n - 1 : f[k + 1] = Heap!UpStep(f[k])
  <2>1. \E f : /\ Heap!BottomUp(h, x) = f[Len(h)].heap
               /\ f[0] = Heap!At(h, x)
               /\ \A k \in 0 .. Len(h) - 1 : f[k + 1] = Heap!UpStep(f[k])
    BY <1>1, Climb
  <2> QED BY <1>1, <2>1
<1> DEFINE S == {k \in 0 .. n : /\ Rising(f[k].heap, f[k].index, n, Q)
                                /\ Risen(f[k].heap, f[k].index) \/ f[k].index <= n - k}
<1>3. 0 \in S
  <2>1. f[0].heap = h /\ f[0].index = x
    BY <1>2 DEF Heap!At
  <2> QED BY <1>1, <2>1
<1>4. ASSUME NEW k \in 0 .. n - 1, k \in S PROVE k + 1 \in S
  <2>1. /\ Rising(f[k].heap, f[k].index, n, Q)
        /\ Risen(f[k].heap, f[k].index) \/ f[k].index <= n - k
        /\ f[k + 1] = Heap!UpStep(f[k])
        /\ k + 1 \in 0 .. n
    BY <1>2, <1>4
  <2>2. CASE Risen(f[k].heap, f[k].index)
    <3>1. f[k + 1] = f[k]
      BY <2>1, <2>2, RisingStep
    <3> QED BY <2>1, <2>2, <3>1
  <2>3. CASE ~Risen(f[k].heap, f[k].index)
    <3>1. /\ Rising(f[k + 1].heap, f[k + 1].index, n, Q)
          /\ f[k + 1].index < f[k].index
      BY <2>1, <2>3, RisingStep
    <3>2. f[k + 1].index \in 1 .. n /\ f[k].index \in 1 .. n
      BY <2>1, <3>1 DEF Rising
    <3>3. f[k + 1].index <= n - (k + 1)
      BY <2>1, <2>3, <3>1, <3>2
    <3> QED BY <2>1, <3>1, <3>3
  <2> QED BY <2>2, <2>3
<1> HIDE DEF S
<1>5. n \in S
  BY <1>3, <1>4, InductTo
<1>6. /\ Rising(f[n].heap, f[n].index, n, Q)
      /\ Risen(f[n].heap, f[n].index) \/ f[n].index <= n - n
  BY <1>5 DEF S
<1>7. Risen(f[n].heap, f[n].index)
  BY <1>6 DEF Rising
<1> QED BY <1>2, <1>6, <1>7, RisenIsGood

LEMMA HeapInsert ==
  ASSUME NEW h, NEW Q, GoodHeap(h, Q), NEW e \in Events, e \notin Q
  PROVE  GoodHeap(Heap!Insert(h, e), Q \cup {e})
<1> DEFINE n == Len(h)
           g == Append(h, e)
<1>1. /\ h \in Seq(Events) /\ n \in Nat
      /\ \A i \in 1 .. n : h[i] \in Q /\ h[i] # e
      /\ \A i, j \in 1 .. n : h[i] = h[j] => i = j
      /\ \A f \in Q : \E i \in 1 .. n : f = h[i]
      /\ Q \cup {e} \subseteq Events
  BY DEF GoodHeap, Filled
<1>2. /\ g \in Seq(Events) /\ Len(g) = n + 1 /\ g[n + 1] = e
      /\ \A i \in 1 .. n : g[i] = h[i]
  BY <1>1
<1> HIDE DEF g
<1>3. Filled(g, n + 1, Q \cup {e})
  <2>1. \A i, j \in 1 .. n + 1 : g[i] = g[j] => i = j
    BY <1>1, <1>2
  <2>2. \A i \in 1 .. n + 1 : g[i] \in Q \cup {e}
    BY <1>1, <1>2
  <2>3. \A f \in Q \cup {e} : \E i \in 1 .. n + 1 : f = g[i]
    BY <1>1, <1>2
  <2>4. Q \cup {e} = {g[i] : i \in 1 .. n + 1}
    BY <2>2, <2>3
  <2> QED BY <1>1, <1>2, <2>1, <2>4 DEF Filled
<1>4. \A i \in 2 .. n + 1 : i # n + 1 => Ordered(g, i)
  <2> SUFFICES ASSUME NEW i \in 2 .. n PROVE Ordered(g, i)
    BY <1>1
  <2>1. i \in Nat /\ i \div 2 \in 1 .. n /\ i \in 1 .. n
    BY <1>1, Parents
  <2>2. Ordered(h, i)
    BY DEF GoodHeap
  <2> QED BY <1>2, <2>1, <2>2 DEF Ordered
<1>5. \A i \in 2 .. n + 1 : i \div 2 # n + 1
  BY <1>1
<1>6. n + 1 \in 1 .. n + 1 /\ n + 1 \in Nat
  BY <1>1
<1>7. Rising(g, n + 1, n + 1, Q \cup {e})
  BY <1>3, <1>4, <1>5, <1>6 DEF Rising
<1>8. Heap!Insert(h, e) = Heap!BottomUp(g, n + 1)
  BY DEF Heap!Insert, g
<1> QED BY <1>6, <1>7, <1>8, BottomUpIsGood

\* TopDown: the order fails at most between x and its children, and those
\* come after the parent of x.
Sinking(h, x, n, Q) ==
  /\ Filled(h, n, Q) /\ x \in 1 .. n
  /\ \A i \in 2 .. n : i \div 2 # x => Ordered(h, i)
  /\ \A i \in 2 .. n : i \div 2 = x /\ x >= 2 => List!Before(h[x \div 2], h[i])

Sunk(h, x, n) ==
  LET c == Heap!SmallestChild(h, x) IN c > n \/ List!Before(h[x], h[c])

LEMMA ChildProperties ==
  ASSUME NEW h, NEW n \in Nat, NEW Q, Filled(h, n, Q), NEW x \in 1 .. n
  PROVE  LET c == Heap!SmallestChild(h, x) IN
         /\ c \in Nat /\ c >= 2 /\ c \div 2 = x /\ x < c
         /\ c > n => \A i \in 2 .. n : i \div 2 # x
         /\ c <= n => \A i \in 2 .. n : i \div 2 = x => i = c \/ List!Before(h[c], h[i])
<1> DEFINE c == Heap!SmallestChild(h, x)
           l == 2 * x
           r == 2 * x + 1
<1>1. Len(h) = n /\ \A i \in 1 .. n : h[i] \in Events
  BY DEF Filled
<1>2. \A i, j \in 1 .. n : h[i] = h[j] => i = j
  BY DEF Filled
<1>3. /\ l \in Nat /\ r \in Nat /\ l >= 2 /\ r >= 2 /\ l < r /\ x < l
      /\ l \div 2 = x /\ r \div 2 = x
      /\ \A i \in 2 .. n : i \div 2 = x => i = l \/ i = r
  BY Parents
<1>4. c = IF r > n THEN l ELSE IF List!Before(h[l], h[r]) THEN l ELSE r
  <2>1. x * 2 = l /\ x * 2 + 1 = r
    OBVIOUS
  <2> HIDE DEF l, r
  <2>2. Heap!LeftChild(x) = l /\ Heap!RightChild(x) = r
    BY <2>1 DEF Heap!LeftChild, Heap!RightChild
  <2> QED BY <1>1, <2>2, SameOrder
      DEF Heap!SmallestChild, Heap!IsBottom, Heap!Smallest, Heap!IsLessStrictly
<1> HIDE DEF c, l, r
<1>5. CASE r > n
  <2>1. c = l
    BY <1>4, <1>5
  <2>2. \A i \in 2 .. n : i \div 2 = x => i = l
    BY <1>3, <1>5
  <2> QED BY <1>3, <2>1, <2>2 DEF c
<1>6. CASE r <= n
  <2>1. l \in 1 .. n /\ r \in 1 .. n
    BY <1>3, <1>6
  <2>2. h[l] # h[r] /\ h[l] \in Events /\ h[r] \in Events
    BY <1>1, <1>2, <1>3, <2>1
  <2>3. CASE List!Before(h[l], h[r])
    <3>1. c = l
      BY <1>3, <1>4, <1>6, <2>3
    <3> QED BY <1>3, <2>1, <2>3, <3>1 DEF c
  <2>4. CASE ~List!Before(h[l], h[r])
    <3>1. c = r /\ List!Before(h[r], h[l])
      BY <1>3, <1>4, <1>6, <2>2, <2>4, TotalOrder
    <3> QED BY <1>3, <2>1, <3>1 DEF c
  <2> QED BY <2>3, <2>4
<1> QED BY <1>3, <1>5, <1>6

LEMMA SunkIsGood ==
  ASSUME NEW h, NEW x, NEW n \in Nat, NEW Q, Sinking(h, x, n, Q), Sunk(h, x, n)
  PROVE  GoodHeap(h, Q)
<1> DEFINE c == Heap!SmallestChild(h, x)
<1>1. /\ Filled(h, n, Q) /\ Len(h) = n /\ x \in 1 .. n
      /\ \A i \in 1 .. n : h[i] \in Events
  BY DEF Sinking, Filled
<1>2. /\ c \in Nat /\ c >= 2
      /\ c > n => \A i \in 2 .. n : i \div 2 # x
      /\ c <= n => \A i \in 2 .. n : i \div 2 = x => i = c \/ List!Before(h[c], h[i])
  BY <1>1, ChildProperties
<1>3. c > n \/ List!Before(h[x], h[c])
  BY DEF Sunk
<1> HIDE DEF c
<1>4. ASSUME NEW i \in 2 .. n, i \div 2 = x PROVE Ordered(h, i)
  <2>1. c <= n /\ List!Before(h[x], h[c])
    BY <1>1, <1>2, <1>3, <1>4
  <2>2. i = c \/ List!Before(h[c], h[i])
    BY <1>2, <1>4, <2>1
  <2>3. c \in 1 .. n /\ i \in 1 .. n
    BY <1>2, <2>1
  <2> QED BY <1>1, <1>4, <2>1, <2>2, <2>3, TotalOrder DEF Ordered
<1> QED BY <1>1, <1>4 DEF Sinking, GoodHeap

LEMMA SinkingStep ==
  ASSUME NEW s, NEW n \in Nat, NEW Q, Sinking(s.heap, s.index, n, Q)
  PROVE  /\ Sunk(s.heap, s.index, n) => Heap!DownStep(s) = s
         /\ ~Sunk(s.heap, s.index, n) =>
              /\ Sinking(Heap!DownStep(s).heap, Heap!DownStep(s).index, n, Q)
              /\ Heap!DownStep(s).index > s.index
<1> DEFINE h == s.heap
           x == s.index
           c == Heap!SmallestChild(h, x)
           g == Heap!Exch(h, x, c)
<1>1. Sinking(h, x, n, Q) /\ x \in 1 .. n /\ Filled(h, n, Q) /\ Len(h) = n
  BY DEF Sinking, Filled
<1>2. Heap!DownStep(s) = IF c > n \/ List!Before(h[x], h[c]) THEN s ELSE [heap |-> g, index |-> c]
  BY <1>1, SameOrder DEF Heap!DownStep, Heap!IsBottom, Heap!IsLessStrictly, Heap!At
<1>3. Sunk(h, x, n) => Heap!DownStep(s) = s
  BY <1>2 DEF Sunk
<1>4. ~Sunk(h, x, n) => Heap!DownStep(s).heap = g /\ Heap!DownStep(s).index = c
  BY <1>2 DEF Sunk
<1>5. ASSUME ~Sunk(h, x, n)
      PROVE  Sinking(g, c, n, Q) /\ x < c
  <2>1. ~(c > n) /\ ~List!Before(h[x], h[c])
    BY <1>5 DEF Sunk
  <2> HIDE DEF h, x
  <2>2. /\ c \in Nat /\ c >= 2 /\ c \div 2 = x /\ x < c
        /\ c <= n => \A i \in 2 .. n : i \div 2 = x => i = c \/ List!Before(h[c], h[i])
    BY <1>1, ChildProperties
  <2>3. /\ \A i \in 2 .. n : i \div 2 # x => List!Before(h[i \div 2], h[i])
        /\ \A i \in 2 .. n : i \div 2 = x /\ x >= 2 => List!Before(h[x \div 2], h[i])
        /\ \A i \in 1 .. n : h[i] \in Events
        /\ \A i, j \in 1 .. n : h[i] = h[j] => i = j
    BY <1>1 DEF Sinking, Filled, Ordered
  <2> HIDE DEF c
  <2>4. c \in 2 .. n /\ c \in 1 .. n
    BY <2>1, <2>2
  <2>5. /\ Filled(g, n, Q)
        /\ \A i \in 1 .. n : g[i] = IF i = x THEN h[c] ELSE IF i = c THEN h[x] ELSE h[i]
    BY <1>1, <2>4, Exchanged
  <2> HIDE DEF g
  <2>6. \A i \in 2 .. n : i \div 2 \in 1 .. n /\ i \div 2 < i /\ i \in 1 .. n
    BY Parents
  <2>7. List!Before(h[c], h[x])
    BY <1>1, <2>1, <2>2, <2>3, <2>4, TotalOrder
  <2>8. g[x] = h[c] /\ g[c] = h[x]
    BY <1>1, <2>2, <2>4, <2>5
  <2>9. ASSUME NEW i \in 2 .. n, i \div 2 # c PROVE List!Before(g[i \div 2], g[i])
    <3>1. CASE i = x
      <4>1. x \in 2 .. n /\ x >= 2 /\ x \div 2 \in 1 .. n /\ x \div 2 < x
        BY <2>6, <3>1
      <4>2. g[x \div 2] = h[x \div 2]
        BY <2>2, <2>5, <4>1
      <4>3. List!Before(h[x \div 2], h[c])
        BY <2>2, <2>3, <2>4, <4>1
      <4> QED BY <2>8, <3>1, <4>2, <4>3
    <3>2. CASE i = c
      BY <2>2, <2>7, <2>8, <3>2
    <3>3. CASE i # x /\ i # c /\ i \div 2 = x
      <4>1. g[i] = h[i]
        BY <2>5, <2>6, <3>3
      <4>2. List!Before(h[c], h[i])
        BY <2>2, <2>4, <3>3
      <4> QED BY <2>8, <3>3, <4>1, <4>2
    <3>4. CASE i # x /\ i # c /\ i \div 2 # x
      <4>1. g[i] = h[i] /\ g[i \div 2] = h[i \div 2]
        BY <2>5, <2>6, <2>9, <3>4
      <4> QED BY <2>3, <3>4, <4>1
    <3> QED BY <3>1, <3>2, <3>3, <3>4
  <2>10. ASSUME NEW i \in 2 .. n, i \div 2 = c PROVE List!Before(g[c \div 2], g[i])
    <3>1. i # x /\ i # c /\ i \div 2 # x
      BY <2>2, <2>6, <2>10
    <3>2. g[i] = h[i] /\ g[c \div 2] = h[c]
      BY <2>2, <2>5, <2>6, <2>8, <3>1
    <3> QED BY <2>3, <2>10, <3>1, <3>2
  <2> QED BY <2>2, <2>4, <2>5, <2>9, <2>10 DEF Sinking, Ordered
<1> QED BY <1>3, <1>4, <1>5

LEMMA TopDownIsGood ==
  ASSUME NEW h, NEW n \in Nat, NEW x, NEW Q, Sinking(h, x, n, Q)
  PROVE  GoodHeap(Heap!TopDown(h, x), Q)
<1>1. Len(h) = n /\ x \in 1 .. n
  BY DEF Sinking, Filled
<1>2. PICK f : /\ Heap!TopDown(h, x) = f[n].heap
               /\ f[0] = Heap!At(h, x)
               /\ \A k \in 0 .. n - 1 : f[k + 1] = Heap!DownStep(f[k])
  <2>1. \E f : /\ Heap!TopDown(h, x) = f[Len(h)].heap
               /\ f[0] = Heap!At(h, x)
               /\ \A k \in 0 .. Len(h) - 1 : f[k + 1] = Heap!DownStep(f[k])
    BY <1>1, Sink
  <2> QED BY <1>1, <2>1
<1> DEFINE S == {k \in 0 .. n : /\ Sinking(f[k].heap, f[k].index, n, Q)
                                /\ Sunk(f[k].heap, f[k].index, n) \/ f[k].index > k}
<1>3. 0 \in S
  <2>1. f[0].heap = h /\ f[0].index = x
    BY <1>2 DEF Heap!At
  <2> QED BY <1>1, <2>1
<1>4. ASSUME NEW k \in 0 .. n - 1, k \in S PROVE k + 1 \in S
  <2>1. /\ Sinking(f[k].heap, f[k].index, n, Q)
        /\ Sunk(f[k].heap, f[k].index, n) \/ f[k].index > k
        /\ f[k + 1] = Heap!DownStep(f[k])
        /\ k + 1 \in 0 .. n
    BY <1>2, <1>4
  <2>2. CASE Sunk(f[k].heap, f[k].index, n)
    <3>1. f[k + 1] = f[k]
      BY <2>1, <2>2, SinkingStep
    <3> QED BY <2>1, <2>2, <3>1
  <2>3. CASE ~Sunk(f[k].heap, f[k].index, n)
    <3>1. /\ Sinking(f[k + 1].heap, f[k + 1].index, n, Q)
          /\ f[k + 1].index > f[k].index
      BY <2>1, <2>3, SinkingStep
    <3>2. f[k + 1].index \in 1 .. n /\ f[k].index \in 1 .. n
      BY <2>1, <3>1 DEF Sinking
    <3>3. f[k + 1].index > k + 1
      BY <2>1, <2>3, <3>1, <3>2
    <3> QED BY <2>1, <3>1, <3>3
  <2> QED BY <2>2, <2>3
<1> HIDE DEF S
<1>5. n \in S
  BY <1>3, <1>4, InductTo
<1>6. /\ Sinking(f[n].heap, f[n].index, n, Q)
      /\ Sunk(f[n].heap, f[n].index, n) \/ f[n].index > n
  BY <1>5 DEF S
<1>7. Sunk(f[n].heap, f[n].index, n)
  BY <1>6 DEF Sinking
<1> QED BY <1>2, <1>6, <1>7, SunkIsGood

LEMMA HeapRemoveNext ==
  ASSUME NEW h, NEW Q, GoodHeap(h, Q), Q # {}
  PROVE  GoodHeap(Heap!RemoveNext(h), Q \ {h[1]})
<1> DEFINE n == Len(h)
           e == Heap!Exch(h, 1, n)
           g == SubSeq(e, 1, n - 1)
<1>1. Filled(h, n, Q) /\ n \in Nat /\ n >= 1 /\ 1 \in 1 .. n /\ n \in 1 .. n
  <2>1. n \in Nat
    BY DEF GoodHeap, Filled
  <2> QED BY <2>1, RootIsLeast DEF GoodHeap
<1>2. /\ Filled(e, n, Q)
      /\ \A i \in 1 .. n : e[i] = IF i = 1 THEN h[n] ELSE IF i = n THEN h[1] ELSE h[i]
  BY <1>1, Exchanged
<1>3. Heap!RemoveNext(h) = Heap!TopDown(g, 1)
  <2>1. Len(e) = n
    BY <1>2 DEF Filled
  <2> HIDE DEF e
  <2>2. Heap!Front(e) = g
    BY <2>1 DEF Heap!Front
  <2> QED BY <2>2 DEF Heap!RemoveNext, Heap!TakeOut, Heap!Root, e
<1> HIDE DEF e
<1>4. /\ g \in Seq(Events) /\ Len(g) = n - 1
      /\ \A i \in 1 .. n - 1 : g[i] = e[i]
  <2>1. e \in Seq(Events) /\ Len(e) = n
    BY <1>2 DEF Filled
  <2> QED BY <1>1, <2>1
<1>5. e[n] = h[1]
  BY <1>1, <1>2
<1> HIDE DEF g
<1>6. Filled(g, n - 1, Q \ {h[1]})
  <2>1. /\ \A i, j \in 1 .. n : e[i] = e[j] => i = j
        /\ Q = {e[i] : i \in 1 .. n} /\ Q \subseteq Events
    BY <1>2 DEF Filled
  <2>2. \A i \in 1 .. n - 1 : i \in 1 .. n /\ i # n
    BY <1>1
  <2>3. \A i \in 1 .. n - 1 : g[i] \in Q /\ g[i] # h[1]
    BY <1>1, <1>4, <1>5, <2>1, <2>2
  <2>4. \A f \in Q \ {h[1]} : \E i \in 1 .. n - 1 : f = g[i]
    <3> SUFFICES ASSUME NEW f \in Q \ {h[1]} PROVE \E i \in 1 .. n - 1 : f = g[i]
      OBVIOUS
    <3>1. PICK i \in 1 .. n : f = e[i]
      BY <2>1
    <3>2. i \in 1 .. n - 1
      BY <1>1, <1>5, <3>1
    <3> QED BY <1>4, <3>1, <3>2
  <2>5. Q \ {h[1]} = {g[i] : i \in 1 .. n - 1}
    BY <2>3, <2>4
  <2>6. \A i, j \in 1 .. n - 1 : g[i] = g[j] => i = j
    BY <1>4, <2>1, <2>2
  <2> QED BY <1>4, <2>1, <2>5, <2>6 DEF Filled
<1>7. CASE n = 1
  <2>1. Len(g) = 0
    BY <1>4, <1>7
  <2>2. PICK f : /\ Heap!TopDown(g, 1) = f[Len(g)].heap
                 /\ f[0] = Heap!At(g, 1)
    BY <2>1, Sink
  <2>3. Heap!TopDown(g, 1) = g
    BY <2>1, <2>2 DEF Heap!At
  <2>4. GoodHeap(g, Q \ {h[1]})
    BY <1>6, <1>7, <2>1 DEF GoodHeap
  <2> QED BY <1>3, <2>3, <2>4
<1>8. CASE n # 1
  <2>1. n - 1 \in Nat /\ 1 \in 1 .. n - 1
    <3> HIDE DEF n
    <3> QED BY <1>1, <1>8
  <2>2. ASSUME NEW i \in 2 .. n - 1, i \div 2 # 1 PROVE Ordered(g, i)
    <3>1. /\ i \in 1 .. n - 1 /\ i # 1 /\ i \in 2 .. n /\ i \in 1 .. n /\ i # n
          /\ i \div 2 \in 1 .. n - 1 /\ i \div 2 \in 1 .. n /\ i \div 2 # n
      BY <1>1, Parents
    <3>2. g[i] = h[i] /\ g[i \div 2] = h[i \div 2]
      BY <1>2, <1>4, <2>2, <3>1
    <3> QED BY <3>1, <3>2 DEF GoodHeap, Ordered
  <2>3. Sinking(g, 1, n - 1, Q \ {h[1]})
    BY <1>6, <2>1, <2>2 DEF Sinking
  <2> QED BY <1>3, <2>1, <2>3, TopDownIsGood
<1> QED BY <1>7, <1>8

LEMMA HeapEmpty == GoodHeap(<<>>, {})
BY DEF GoodHeap, Filled

-----------------------------------------------------------------------------
(* Division: the facts behind the hash of a calendar queue                 *)

LEMMA Scaled ==
  ASSUME NEW w \in Nat, NEW a \in Nat, NEW b \in Nat, a <= b
  PROVE  a * w \in Nat /\ b * w \in Nat /\ a * w <= b * w
<1>1. a * w \in Nat /\ b * w \in Nat /\ (b - a) * w \in Nat /\ b - a \in Nat
  BY SMT
<1>2. b * w = a * w + (b - a) * w
  BY SMT
<1> QED BY <1>1, <1>2

LEMMA Distributes ==
  ASSUME NEW y \in Int, NEW k \in Int, NEW w \in Int
  PROVE  (y + 1) * w + k * w = ((y + k) + 1) * w
BY SMT

LEMMA Quotient ==
  ASSUME NEW n \in Int, n > 0, NEW a \in Int
  PROVE  (a \div n) * n = a - (a % n)
BY SMT

LEMMA DivMod ==
  ASSUME NEW n \in Nat \ {0}, NEW a \in Nat
  PROVE  a \div n \in Nat /\ a % n \in 0 .. n - 1 /\ a = (a \div n) * n + (a % n)
<1>1. a \div n \in Int /\ a \div n >= 0
  BY SMT
<1>2. a % n \in 0 .. n - 1
  BY SMT
<1>3. (a \div n) * n = a - (a % n)
  <2>1. n \in Int /\ n > 0 /\ a \in Int
    OBVIOUS
  <2> QED BY <2>1, Quotient
<1>4. a = (a \div n) * n + (a % n)
  <2> DEFINE x == (a \div n) * n
             r == a % n
  <2>1. r \in Int /\ a \in Int /\ x = a - r
    BY <1>2, <1>3
  <2> HIDE DEF x, r
  <2>2. a = x + r
    BY <2>1
  <2> QED BY <2>2 DEF x, r
<1> QED BY <1>1, <1>2, <1>4

LEMMA DivUnique ==
  ASSUME NEW n \in Nat \ {0}, NEW q \in Nat, NEW r \in 0 .. n - 1
  PROVE  (q * n + r) \div n = q /\ (q * n + r) % n = r
<1> DEFINE a == q * n + r
<1>1. q * n \in Nat /\ a \in Nat
  BY SMT
<1> DEFINE p == a \div n
           s == a % n
<1>2. p \in Nat /\ s \in 0 .. n - 1 /\ a = p * n + s
  BY <1>1, DivMod
<1>3. q * n + r = p * n + s
  BY <1>2
<1> HIDE DEF a, p, s
<1>4. CASE q < p
  <2>1. (q + 1) * n <= p * n /\ (q + 1) * n = q * n + n /\ p * n \in Nat
    <3>1. q + 1 \in Nat /\ q + 1 <= p
      BY <1>2, <1>4
    <3>2. (q + 1) * n = q * n + n
      BY SMT
    <3> QED BY <1>2, <3>1, <3>2, Scaled
  <2> QED BY <1>1, <1>2, <1>3, <2>1
<1>5. CASE p < q
  <2>1. (p + 1) * n <= q * n /\ (p + 1) * n = p * n + n /\ p * n \in Nat
    <3>1. p + 1 \in Nat /\ p + 1 <= q /\ p <= p + 1
      BY <1>2, <1>5
    <3>2. (p + 1) * n = p * n + n
      BY <1>2, SMT
    <3>3. p * n \in Nat
      BY <1>2, <3>1, Scaled
    <3> QED BY <1>2, <3>1, <3>2, <3>3, Scaled
  <2> QED BY <1>1, <1>2, <1>3, <2>1
<1>6. CASE p = q
  BY <1>1, <1>2, <1>3, <1>6 DEF p, s, a
<1> QED BY <1>2, <1>4, <1>5, <1>6

LEMMA DivBound ==
  ASSUME NEW w \in Nat \ {0}, NEW t \in Nat, NEW m \in Nat
  PROVE  t < m * w <=> t \div w < m
<1> DEFINE q == t \div w
           r == t % w
<1>1. q \in Nat /\ r \in 0 .. w - 1 /\ t = q * w + r
  BY DivMod
<1> HIDE DEF q, r
<1>2. CASE q < m
  <2>1. q + 1 \in Nat /\ q + 1 <= m /\ q * w \in Nat
    BY <1>1, <1>2, Scaled
  <2>2. (q + 1) * w <= m * w /\ m * w \in Nat
    BY <2>1, Scaled
  <2>3. (q + 1) * w = q * w + w
    BY <1>1, SMT
  <2> QED BY <1>1, <1>2, <2>1, <2>2, <2>3 DEF q
<1>3. CASE m <= q
  <2>1. m * w <= q * w /\ q * w \in Nat /\ m * w \in Nat
    BY <1>1, <1>3, Scaled
  <2> QED BY <1>1, <1>3, <2>1 DEF q
<1> QED BY <1>1, <1>2, <1>3

LEMMA DivMonotone ==
  ASSUME NEW w \in Nat \ {0}, NEW a \in Nat, NEW b \in Nat, a <= b
  PROVE  a \div w <= b \div w
<1>1. a \div w \in Nat /\ b \div w \in Nat /\ b \div w + 1 \in Nat
  BY DivMod
<1>2. b < (b \div w + 1) * w
  BY <1>1, DivBound
<1>3. (b \div w + 1) * w \in Nat
  BY <1>1, Scaled
<1>4. a < (b \div w + 1) * w
  BY <1>2, <1>3
<1>5. a \div w < b \div w + 1
  BY <1>1, <1>4, DivBound
<1> QED BY <1>1, <1>5

\* Adding a multiple of n, or reducing one summand, does not change a sum
\* modulo n.
LEMMA ModOfSum ==
  ASSUME NEW n \in Nat \ {0}, NEW a \in Nat, NEW k \in Nat, NEW j \in Nat
  PROVE  (a + j * n) % n = a % n /\ ((a % n) + k) % n = (a + k) % n
<1>1. ASSUME NEW b \in Nat, NEW i \in Nat PROVE (b + i * n) % n = b % n
  <2> DEFINE q == b \div n
             r == b % n
  <2>1. q \in Nat /\ r \in 0 .. n - 1 /\ b = q * n + r
    BY DivMod
  <2> HIDE DEF q, r
  <2>2. b + i * n = (q + i) * n + r /\ q + i \in Nat
    BY <2>1, SMT
  <2>3. ((q + i) * n + r) % n = r
    BY <2>1, <2>2, DivUnique
  <2> QED BY <2>2, <2>3 DEF r
<1>2. ((a % n) + k) % n = (a + k) % n
  <2> DEFINE q == a \div n
             r == a % n
  <2>1. q \in Nat /\ r \in 0 .. n - 1 /\ a = q * n + r
    BY DivMod
  <2> HIDE DEF q, r
  <2>2. q * n \in Nat /\ r + k \in Nat
    BY <2>1, Scaled
  <2>3. a + k = (r + k) + q * n
    BY <2>1, <2>2
  <2>4. ((r + k) + q * n) % n = (r + k) % n
    BY <1>1, <2>1, <2>2
  <2> QED BY <2>3, <2>4 DEF r
<1> QED BY <1>1, <1>2

\* Less than n apart, only equal numbers are congruent.
LEMMA SameSlot ==
  ASSUME NEW n \in Nat \ {0}, NEW a \in Nat, NEW b \in Nat, a <= b, b - a < n, a % n = b % n
  PROVE  a = b
<1> DEFINE p == a \div n
           q == b \div n
           r == a % n
<1>1. p \in Nat /\ q \in Nat /\ r \in 0 .. n - 1 /\ a = p * n + r /\ b = q * n + r
  BY DivMod
<1> HIDE DEF p, q, r
<1>2. CASE p < q
  <2>1. p + 1 \in Nat /\ p + 1 <= q /\ p * n \in Nat /\ q * n \in Nat
    BY <1>1, <1>2, Scaled
  <2>2. (p + 1) * n <= q * n
    BY <1>1, <2>1, Scaled
  <2>3. (p + 1) * n = p * n + n
    BY <1>1, SMT
  <2> QED BY <1>1, <2>1, <2>2, <2>3
<1>3. CASE q < p
  <2>1. q + 1 \in Nat /\ q + 1 <= p /\ p * n \in Nat /\ q * n \in Nat
    BY <1>1, <1>3, Scaled
  <2>2. (q + 1) * n <= p * n
    BY <1>1, <2>1, Scaled
  <2>3. (q + 1) * n = q * n + n
    BY <1>1, SMT
  <2> QED BY <1>1, <2>1, <2>2, <2>3
<1> QED BY <1>1, <1>2, <1>3

\* The scan of n slots from y on meets the slot of every later number.
LEMMA ScanReaches ==
  ASSUME NEW n \in Nat \ {0}, NEW y \in Nat, NEW z \in Nat, y <= z
  PROVE  \E k \in 0 .. n - 1 : ((y % n) + k) % n = z % n
<1>1. z - y \in Nat
  OBVIOUS
<1> DEFINE k == (z - y) % n
           j == (z - y) \div n
<1>2. j \in Nat /\ k \in 0 .. n - 1 /\ z - y = j * n + k
  BY <1>1, DivMod
<1> HIDE DEF j, k
<1>3. j * n \in Nat /\ k \in Nat /\ y + k \in Nat
  BY <1>2, Scaled
<1>4. z = (y + k) + j * n
  BY <1>2, <1>3
<1>5. z % n = (y + k) % n
  <2> DEFINE a == y + k
  <2>1. a \in Nat /\ j \in Nat /\ z = a + j * n
    BY <1>2, <1>3, <1>4
  <2> HIDE DEF a
  <2>2. (a + j * n) % n = a % n
    BY <2>1, ModOfSum
  <2> QED BY <2>1, <2>2 DEF a
<1>6. ((y % n) + k) % n = (y + k) % n
  BY <1>3, ModOfSum
<1> QED BY <1>2, <1>5, <1>6

-----------------------------------------------------------------------------
(* The calendar, apart from the count of its events: the search stands at  *)
(* the bucket and the year of lastPrio, and no event is before that.       *)

Days(w, n) == [t \in 0 .. MaxTs |-> Cal!Hash(t, w, n)]

AsCalendar(B, n, w, p, q) ==
  [buckets |-> B, nBuckets |-> n, width |-> w, lastPrio |-> p,
   lastBucket |-> Cal!Hash(p, w, n), bucketTop |-> (p \div w + 1) * w, qSize |-> q]

Loaded(c, Q) ==
  /\ c = AsCalendar(c.buckets, c.nBuckets, c.width, c.lastPrio, c.qSize)
  /\ c.nBuckets \in Nat \ {0} /\ c.width \in Nat \ {0} /\ c.lastPrio \in 0 .. MaxTs
  /\ Bucketed(c.buckets, c.nBuckets, Days(c.width, c.nBuckets), Q)
  /\ \A e \in Q : c.lastPrio <= e.ts

SameShape(c, d) ==
  c.nBuckets = d.nBuckets /\ c.width = d.width /\ c.lastPrio = d.lastPrio /\ c.qSize = d.qSize

LEMMA DaysAre ==
  ASSUME NEW w \in Nat \ {0}, NEW n \in Nat \ {0}
  PROVE  /\ Days(w, n) \in [0 .. MaxTs -> 0 .. n - 1]
         /\ \A t \in 0 .. MaxTs : Days(w, n)[t] = Cal!Hash(t, w, n)
<1>1. ASSUME NEW t \in 0 .. MaxTs PROVE Cal!Hash(t, w, n) \in 0 .. n - 1
  <2>1. t \in Nat
    BY KindsAssumption
  <2>2. t \div w \in Nat
    BY <2>1, DivMod
  <2> HIDE DEF Cal!Hash
  <2>3. (t \div w) % n \in 0 .. n - 1
    BY <2>2, DivMod
  <2> QED BY <2>3 DEF Cal!Hash
<1> QED BY <1>1 DEF Days

LEMMA LoadedEmpty ==
  ASSUME NEW n \in Nat \ {0}, NEW w \in Nat \ {0}, NEW p \in 0 .. MaxTs, NEW q
  PROVE  /\ Loaded(Cal!Calendar(n, w, p, q), {})
         /\ Cal!Calendar(n, w, p, q).nBuckets = n /\ Cal!Calendar(n, w, p, q).width = w
         /\ Cal!Calendar(n, w, p, q).lastPrio = p /\ Cal!Calendar(n, w, p, q).qSize = q
<1> DEFINE B == [b \in 0 .. n - 1 |-> <<>>]
<1>1. Cal!Calendar(n, w, p, q) = AsCalendar(B, n, w, p, q)
  BY DEF Cal!Calendar, AsCalendar
<1>2. Bucketed(B, n, Days(w, n), {})
  BY DaysAre, BucketedEmpty
<1> HIDE DEF B
<1> DEFINE c == AsCalendar(B, n, w, p, q)
<1>3. c.buckets = B /\ c.nBuckets = n /\ c.width = w /\ c.lastPrio = p /\ c.qSize = q
  BY DEF AsCalendar
<1> HIDE DEF c
<1>4. Loaded(c, {})
  BY <1>2, <1>3 DEF Loaded, c
<1> QED BY <1>1, <1>3, <1>4 DEF c

\* The count is a member of its own.
LEMMA LoadedCount ==
  ASSUME NEW c, NEW Q, Loaded(c, Q), NEW q
  PROVE  /\ Loaded([c EXCEPT !.qSize = q], Q)
         /\ [c EXCEPT !.qSize = q].qSize = q
         /\ [c EXCEPT !.qSize = q].nBuckets = c.nBuckets
         /\ [c EXCEPT !.qSize = q].lastPrio = c.lastPrio
<1> DEFINE d == [c EXCEPT !.qSize = q]
<1>1. c = AsCalendar(c.buckets, c.nBuckets, c.width, c.lastPrio, c.qSize)
  BY DEF Loaded
<1>2. /\ d = AsCalendar(c.buckets, c.nBuckets, c.width, c.lastPrio, q)
      /\ d.buckets = c.buckets /\ d.nBuckets = c.nBuckets /\ d.width = c.width
      /\ d.lastPrio = c.lastPrio /\ d.qSize = q
  BY <1>1 DEF AsCalendar
<1> HIDE DEF d
<1>3. Loaded(d, Q)
  BY <1>2 DEF Loaded
<1> QED BY <1>2, <1>3 DEF d

\* Other buckets, for other events.
LEMMA LoadedBuckets ==
  ASSUME NEW c, NEW Q, Loaded(c, Q), NEW B, NEW P,
         Bucketed(B, c.nBuckets, Days(c.width, c.nBuckets), P),
         \A e \in P : c.lastPrio <= e.ts
  PROVE  /\ Loaded([c EXCEPT !.buckets = B], P)
         /\ SameShape([c EXCEPT !.buckets = B], c)
<1> DEFINE d == [c EXCEPT !.buckets = B]
<1>1. c = AsCalendar(c.buckets, c.nBuckets, c.width, c.lastPrio, c.qSize)
  BY DEF Loaded
<1>2. /\ d = AsCalendar(B, c.nBuckets, c.width, c.lastPrio, c.qSize)
      /\ d.buckets = B /\ d.nBuckets = c.nBuckets /\ d.width = c.width
      /\ d.lastPrio = c.lastPrio /\ d.qSize = c.qSize
  BY <1>1 DEF AsCalendar
<1> HIDE DEF d
<1>3. Loaded(d, P)
  BY <1>2 DEF Loaded
<1> QED BY <1>2, <1>3 DEF d, SameShape

LEMMA LoadedInsert ==
  ASSUME NEW c, NEW Q, Loaded(c, Q), NEW e \in Events, e \notin Q, c.lastPrio <= e.ts
  PROVE  /\ Loaded(Cal!DoInsert(c, e), Q \cup {e})
         /\ SameShape(Cal!DoInsert(c, e), c)
<1> DEFINE b == Days(c.width, c.nBuckets)[e.ts]
           B == [c.buckets EXCEPT ![b] = List!InsertSorted(c.buckets[b], e)]
<1>1. b = Cal!Hash(e.ts, c.width, c.nBuckets)
  BY DaysAre, EventFields DEF Loaded
<1>2. Bucketed(B, c.nBuckets, Days(c.width, c.nBuckets), Q \cup {e})
  BY BucketedInsert DEF Loaded
<1>3. B = [c.buckets EXCEPT ![b] = Cal!InsertSorted(c.buckets[b], e)]
  BY SameLists
<1>4. Cal!DoInsert(c, e) = [c EXCEPT !.buckets = B]
  <2>1. Cal!DoInsert(c, e) = [c EXCEPT !.buckets = [c.buckets EXCEPT ![b] = Cal!InsertSorted(c.buckets[b], e)]]
    BY <1>1 DEF Cal!DoInsert
  <2> QED BY <1>3, <2>1
<1> HIDE DEF B, b
<1>5. \A f \in Q \cup {e} : c.lastPrio <= f.ts
  BY DEF Loaded
<1>6. Loaded([c EXCEPT !.buckets = B], Q \cup {e}) /\ SameShape([c EXCEPT !.buckets = B], c)
  BY <1>2, <1>5, LoadedBuckets
<1> QED BY <1>4, <1>6

LEMMA LoadedErase ==
  ASSUME NEW c, NEW Q, Loaded(c, Q), NEW e \in Q, \A f \in Q : f.uid = e.uid => f = e
  PROVE  LET b == Cal!Hash(e.ts, c.width, c.nBuckets)
             d == [c EXCEPT !.buckets = [c.buckets EXCEPT ![b] = Cal!EraseUid(c.buckets[b], e)]]
         IN  Loaded(d, Q \ {e}) /\ SameShape(d, c)
<1> DEFINE b == Days(c.width, c.nBuckets)[e.ts]
           B == [c.buckets EXCEPT ![b] = List!EraseUid(c.buckets[b], e)]
<1>1. b = Cal!Hash(e.ts, c.width, c.nBuckets)
  <2>1. e \in Events
    BY DEF Loaded, Bucketed
  <2> QED BY <2>1, DaysAre, EventFields DEF Loaded
<1>2. Bucketed(B, c.nBuckets, Days(c.width, c.nBuckets), Q \ {e})
  BY BucketedErase DEF Loaded
<1>3. B = [c.buckets EXCEPT ![b] = Cal!EraseUid(c.buckets[b], e)]
  BY SameLists
<1> HIDE DEF B, b
<1>5. \A f \in Q \ {e} : c.lastPrio <= f.ts
  BY DEF Loaded
<1>6. Loaded([c EXCEPT !.buckets = B], Q \ {e}) /\ SameShape([c EXCEPT !.buckets = B], c)
  BY <1>2, <1>5, LoadedBuckets
<1> QED BY <1>1, <1>3, <1>6

\* What the scan sees: slot k holds the fronts of year lastPrio \div width + k.
LEMMA Scan ==
  ASSUME NEW c, NEW Q, Loaded(c, Q), NEW k \in 0 .. c.nBuckets - 1
  PROVE  /\ c.lastPrio \div c.width \in Nat
         /\ Cal!Visited(c, k) \in 0 .. c.nBuckets - 1
         /\ Cal!Visited(c, k) = (c.lastPrio \div c.width + k) % c.nBuckets
         /\ \A t \in Nat : t < c.bucketTop + k * c.width <=> t \div c.width <= c.lastPrio \div c.width + k
<1> DEFINE n == c.nBuckets
           w == c.width
           y == c.lastPrio \div w
<1>1. n \in Nat \ {0} /\ w \in Nat \ {0} /\ c.lastPrio \in Nat
  BY KindsAssumption DEF Loaded
<1>2. y \in Nat
  BY <1>1, DivMod
<1>3. c.lastBucket = y % n /\ c.bucketTop = (y + 1) * w
  BY DEF Loaded, AsCalendar, Cal!Hash
<1> HIDE DEF y
<1>4. Cal!Visited(c, k) = (y + k) % n
  <2>1. Cal!Visited(c, k) = ((y % n) + k) % n
    BY <1>3 DEF Cal!Visited
  <2>2. k \in Nat
    BY <1>1
  <2>3. ((y % n) + k) % n = (y + k) % n
    BY <1>1, <1>2, <2>2, ModOfSum
  <2> QED BY <2>1, <2>3
<1>5. (y + k) % n \in 0 .. n - 1
  <2>1. y + k \in Nat
    BY <1>1, <1>2
  <2> QED BY <1>1, <2>1, DivMod
<1>6. ASSUME NEW t \in Nat
      PROVE  t < c.bucketTop + k * w <=> t \div w <= y + k
  <2>1. k \in Nat /\ (y + 1) + k \in Nat
    BY <1>1, <1>2
  <2>2. c.bucketTop + k * w = ((y + 1) + k) * w
    <3>1. y \in Int /\ k \in Int /\ w \in Int
      BY <1>1, <1>2, <2>1
    <3>2. (y + 1) * w + k * w = ((y + 1) + k) * w
      BY <3>1, SMT
    <3> QED BY <1>3, <3>2
  <2>3. t < ((y + 1) + k) * w <=> t \div w < (y + 1) + k
    BY <1>1, <2>1, DivBound
  <2>4. t \div w \in Nat
    BY <1>1, DivMod
  <2>5. t \div w < (y + 1) + k <=> t \div w <= y + k
    BY <1>2, <2>1, <2>4
  <2> QED BY <2>2, <2>3, <2>5
<1> QED BY <1>2, <1>4, <1>5, <1>6 DEF y

LEMMA FrontIs ==
  ASSUME NEW c, NEW Q, Loaded(c, Q), NEW k \in Cal!NonEmpty(c)
  PROVE  /\ k \in 0 .. c.nBuckets - 1
         /\ Cal!FrontOf(c, k) \in Q /\ Cal!FrontOf(c, k) \in Events
         /\ Cal!FrontOf(c, k) = Head(c.buckets[Cal!Visited(c, k)])
         /\ c.buckets[Cal!Visited(c, k)] # <<>>
         /\ Cal!Hash(Cal!FrontOf(c, k).ts, c.width, c.nBuckets) = Cal!Visited(c, k)
         /\ \A e \in Q : Cal!Hash(e.ts, c.width, c.nBuckets) = Cal!Visited(c, k) =>
                           e = Cal!FrontOf(c, k) \/ List!Before(Cal!FrontOf(c, k), e)
<1> DEFINE b == Cal!Visited(c, k)
           H == Days(c.width, c.nBuckets)
<1>1. k \in 0 .. c.nBuckets - 1 /\ c.buckets[b] # <<>> /\ Cal!FrontOf(c, k) = Head(c.buckets[b])
  BY DEF Cal!NonEmpty, Cal!FrontOf
<1>2. b \in 0 .. c.nBuckets - 1
  BY <1>1, Scan
<1> HIDE DEF b
<1>3. /\ Head(c.buckets[b]) \in Q /\ H[Head(c.buckets[b]).ts] = b
      /\ \A e \in Q : H[e.ts] = b => e = Head(c.buckets[b]) \/ List!Before(Head(c.buckets[b]), e)
  <2> HIDE DEF H
  <2>1. Bucketed(c.buckets, c.nBuckets, H, Q)
    BY DEF Loaded, H
  <2> QED BY <1>1, <1>2, <2>1, BucketFront
<1>4. \A e \in Q : e \in Events /\ H[e.ts] = Cal!Hash(e.ts, c.width, c.nBuckets)
  <2>1. Q \subseteq Events
    BY DEF Loaded, Bucketed
  <2>2. \A e \in Q : e.ts \in 0 .. MaxTs
    BY <2>1, EventFields
  <2> QED BY <2>1, <2>2, DaysAre DEF Loaded
<1> HIDE DEF H
<1> QED BY <1>1, <1>3, <1>4 DEF b

\* Every event has its year at or after the search's, in a slot the scan visits.
LEMMA SlotOf ==
  ASSUME NEW c, NEW Q, Loaded(c, Q), NEW e \in Q
  PROVE  /\ e \in Events /\ e.ts \div c.width \in Nat
         /\ c.lastPrio \div c.width <= e.ts \div c.width
         /\ \E k \in Cal!NonEmpty(c) : Cal!Visited(c, k) = Cal!Hash(e.ts, c.width, c.nBuckets)
<1> DEFINE n == c.nBuckets
           w == c.width
           y == c.lastPrio \div w
           z == e.ts \div w
           H == Days(w, n)
<1>1. n \in Nat \ {0} /\ w \in Nat \ {0} /\ c.lastPrio \in Nat /\ e \in Events /\ c.lastPrio <= e.ts
  BY KindsAssumption DEF Loaded, Bucketed
<1>2. e.ts \in Nat /\ e.ts \in 0 .. MaxTs
  BY <1>1, EventFields
<1>3. y \in Nat /\ z \in Nat /\ y <= z
  BY <1>1, <1>2, DivMod, DivMonotone
<1>4. Cal!Hash(e.ts, w, n) = z % n
  BY DEF Cal!Hash
<1>5. c.buckets[z % n] # <<>>
  <2>1. Bucketed(c.buckets, n, H, Q) /\ H[e.ts] = z % n
    BY <1>1, <1>2, <1>4, DaysAre DEF Loaded
  <2> HIDE DEF H, z
  <2> QED BY <2>1, BucketOfEvent
<1> HIDE DEF y, z
<1>6. PICK k \in 0 .. n - 1 : ((y % n) + k) % n = z % n
  BY <1>1, <1>3, ScanReaches
<1>7. Cal!Visited(c, k) = z % n
  <2>1. Cal!Visited(c, k) = (y + k) % n
    BY Scan DEF y
  <2>2. k \in Nat
    BY <1>1
  <2>3. ((y % n) + k) % n = (y + k) % n
    BY <1>1, <1>3, <2>2, ModOfSum
  <2> QED BY <1>6, <2>1, <2>3
<1>8. k \in Cal!NonEmpty(c)
  BY <1>5, <1>7 DEF Cal!NonEmpty
<1> QED BY <1>1, <1>3, <1>4, <1>7, <1>8 DEF y, z

LEMMA DueFront ==
  ASSUME NEW c, NEW Q, Loaded(c, Q), NEW k \in Cal!DueThisYear(c),
         \A j \in Cal!DueThisYear(c) : k <= j
  PROVE  /\ Cal!FrontOf(c, k).ts \div c.width = c.lastPrio \div c.width + k
         /\ \A f \in Q \ {Cal!FrontOf(c, k)} : List!Before(Cal!FrontOf(c, k), f)
<1> DEFINE n == c.nBuckets
           w == c.width
           y == c.lastPrio \div w
           e == Cal!FrontOf(c, k)
<1>1. k \in Cal!NonEmpty(c) /\ e.ts < c.bucketTop + k * w
  BY DEF Cal!DueThisYear
<1>2. /\ k \in 0 .. n - 1 /\ e \in Q /\ e \in Events /\ e.ts \in Nat
      /\ n \in Nat \ {0} /\ w \in Nat \ {0} /\ y \in Nat
  BY <1>1, FrontIs, Scan, EventFields DEF Loaded
<1>3. ASSUME NEW j \in Cal!NonEmpty(c)
      PROVE  LET z == Cal!FrontOf(c, j).ts \div w IN
             /\ j \in 0 .. n - 1 /\ z \in Nat /\ y <= z /\ z % n = (y + j) % n
             /\ j \in Cal!DueThisYear(c) <=> z <= y + j
  <2> DEFINE f == Cal!FrontOf(c, j)
             z == f.ts \div w
  <2>1. j \in 0 .. n - 1 /\ f \in Q /\ Cal!Hash(f.ts, w, n) = Cal!Visited(c, j)
    BY FrontIs
  <2>2. f.ts \in Nat /\ z \in Nat /\ y <= z
    BY <2>1, SlotOf, EventFields
  <2>3. z % n = (y + j) % n
    BY <2>1, Scan DEF Cal!Hash
  <2>4. f.ts < c.bucketTop + j * w <=> z <= y + j
    BY <2>1, <2>2, Scan
  <2>5. j \in Cal!DueThisYear(c) <=> f.ts < c.bucketTop + j * w
    BY DEF Cal!DueThisYear
  <2> QED BY <2>1, <2>2, <2>3, <2>4, <2>5
<1> HIDE DEF y
<1>4. e.ts \div w = y + k
  <2> DEFINE z == e.ts \div w
  <2>1. k \in 0 .. n - 1 /\ z \in Nat /\ y <= z /\ z % n = (y + k) % n /\ z <= y + k
    BY <1>1, <1>3
  <2> HIDE DEF z
  <2>2. y + k \in Nat /\ (y + k) - z < n
    BY <1>2, <2>1
  <2> QED BY <1>2, <2>1, <2>2, SameSlot DEF z
<1>5. ASSUME NEW f \in Q \ {e} PROVE List!Before(e, f)
  <2> DEFINE z == f.ts \div w
  <2>1. f \in Events /\ f.ts \in Nat /\ z \in Nat /\ y <= z
    BY SlotOf, EventFields DEF y
  <2>2. PICK j \in Cal!NonEmpty(c) : Cal!Visited(c, j) = Cal!Hash(f.ts, w, n)
    BY SlotOf
  <2> DEFINE g == Cal!FrontOf(c, j)
  <2>3. g \in Events /\ g.ts \in Nat /\ (f = g \/ List!Before(g, f))
    BY <2>2, FrontIs, EventFields
  <2>4. g.ts <= f.ts
    BY <2>1, <2>3, TotalOrder
  <2>5. g.ts \div w <= z
    BY <1>2, <2>1, <2>3, <2>4, DivMonotone
  <2>6. j \in 0 .. n - 1 /\ g.ts \div w \in Nat
    BY <1>3
  <2>7. z % n = (y + j) % n
    BY <2>2, <2>6, Scan DEF Cal!Hash, y
  <2>8. z >= y + k
    <3> SUFFICES ASSUME z < y + k PROVE FALSE
      BY <1>2, <2>1
    <3> HIDE DEF z, g
    <3>0. j \in Nat /\ k \in Nat /\ j < n /\ k < n
      BY <1>2, <2>6
    <3>1. CASE z <= y + j
      <4>1. g.ts \div w <= y + j
        BY <1>2, <2>1, <2>5, <2>6, <3>0, <3>1
      <4>2. k <= j
        BY <1>3, <4>1 DEF g
      <4>3. y + j \in Nat /\ (y + j) - z < n
        BY <1>2, <2>1, <3>0, <3>1
      <4>4. z = y + j
        BY <1>2, <2>1, <2>7, <3>1, <4>3, SameSlot
      <4> QED BY <1>2, <2>1, <3>0, <4>2, <4>4
    <3>2. CASE z > y + j
      <4>1. y + j \in Nat /\ z - (y + j) < n /\ y + j <= z
        BY <1>2, <2>1, <3>0, <3>2
      <4>2. y + j = z
        BY <1>2, <2>1, <2>7, <4>1, SameSlot
      <4> QED BY <1>2, <2>1, <3>0, <3>2, <4>2
    <3> QED BY <1>2, <2>1, <3>0, <3>1, <3>2
  <2>9. CASE z = y + k
    <3>1. Cal!Hash(f.ts, w, n) = (y + k) % n /\ Cal!Visited(c, k) = (y + k) % n
      BY <1>2, <2>9, Scan DEF Cal!Hash, y
    <3> QED BY <1>1, <3>1, FrontIs
  <2>10. CASE z > y + k
    <3>1. ~(f.ts <= e.ts)
      <4> SUFFICES ASSUME f.ts <= e.ts PROVE FALSE
        OBVIOUS
      <4>1. z <= e.ts \div w
        BY <1>2, <2>1, DivMonotone
      <4> HIDE DEF z
      <4> QED BY <1>2, <1>4, <2>1, <2>10, <4>1
    <3> QED BY <1>2, <2>1, <3>1 DEF List!Before
  <2> HIDE DEF z
  <2> QED BY <1>2, <2>1, <2>8, <2>9, <2>10
<1> QED BY <1>4, <1>5 DEF y

\* PeekNext is the least event whichever way the scan ends, and DoRemoveNext
\* takes it out of its bucket and moves the search to its year.
LEMMA CalendarPeek ==
  ASSUME NEW c, NEW Q, Loaded(c, Q), Q # {}
  PROVE  /\ Cal!PeekNext(c) = List!Least(Q)
         /\ Cal!DueThisYear(c) # {} =>
              LET k == Cal!Min(Cal!DueThisYear(c)) IN
              /\ k \in Cal!NonEmpty(c)
              /\ Cal!FrontOf(c, k) = List!Least(Q)
              /\ List!Least(Q).ts \div c.width = c.lastPrio \div c.width + k
<1>1. Q \in SUBSET Events /\ c.nBuckets \in Nat \ {0}
  BY DEF Loaded, Bucketed
<1>2. CASE Cal!DueThisYear(c) # {}
  <2> DEFINE D == Cal!DueThisYear(c)
  <2>1. D \subseteq 0 .. c.nBuckets - 1 /\ D \subseteq Cal!NonEmpty(c)
    BY DEF Cal!DueThisYear, Cal!NonEmpty
  <2> HIDE DEF D
  <2>2. PICK k \in D : \A j \in D : k <= j
    <3>1. D \subseteq Nat /\ D # {}
      BY <1>1, <1>2, <2>1 DEF D
    <3> QED BY <3>1, LeastNatural
  <2>3. Cal!Min(D) = k
    <3>1. \A x \in D : (\A y \in D : x <= y) => x = k
      BY <1>1, <2>1, <2>2
    <3> QED BY <2>2, <3>1 DEF Cal!Min
  <2>4. /\ Cal!FrontOf(c, k).ts \div c.width = c.lastPrio \div c.width + k
        /\ \A f \in Q \ {Cal!FrontOf(c, k)} : List!Before(Cal!FrontOf(c, k), f)
    BY <2>2, DueFront DEF D
  <2>5. k \in Cal!NonEmpty(c) /\ Cal!FrontOf(c, k) \in Q
    BY <2>1, <2>2, FrontIs
  <2>6. List!Least(Q) = Cal!FrontOf(c, k)
    BY <1>1, <2>4, <2>5, LeastIs
  <2>7. Cal!PeekNext(c) = Cal!FrontOf(c, k)
    BY <1>2, <2>3 DEF Cal!PeekNext, D
  <2> QED BY <2>3, <2>4, <2>5, <2>6, <2>7 DEF D
<1>3. CASE Cal!DueThisYear(c) = {}
  <2> DEFINE F == {Cal!FrontOf(c, k) : k \in Cal!NonEmpty(c)}
             p == List!Least(Q)
  <2>1. p \in Q /\ \A f \in Q \ {p} : List!Before(p, f)
    BY <1>1, LeastExists
  <2> HIDE DEF p
  <2>2. F \subseteq Q
    BY FrontIs
  <2>3. p \in F
    <3>1. PICK k \in Cal!NonEmpty(c) : Cal!Visited(c, k) = Cal!Hash(p.ts, c.width, c.nBuckets)
      BY <2>1, SlotOf
    <3>2. /\ Cal!FrontOf(c, k) \in Q
          /\ p = Cal!FrontOf(c, k) \/ List!Before(Cal!FrontOf(c, k), p)
      BY <2>1, <3>1, FrontIs
    <3>3. p = Cal!FrontOf(c, k)
      BY <1>1, <2>1, <3>2, TotalOrder
    <3> QED BY <3>3
  <2> HIDE DEF F
  <2>4. F \in SUBSET Events /\ \A f \in F \ {p} : List!Before(p, f)
    BY <1>1, <2>1, <2>2
  <2>5. List!Least(F) = p
    BY <2>3, <2>4, LeastIs
  <2>6. Cal!PeekNext(c) = List!Least(F)
    BY <1>3, SameLeast DEF Cal!PeekNext, F
  <2> QED BY <1>3, <2>5, <2>6 DEF p
<1> QED BY <1>2, <1>3

LEMMA SearchMoved ==
  ASSUME NEW c, c = AsCalendar(c.buckets, c.nBuckets, c.width, c.lastPrio, c.qSize),
         NEW B, NEW p, NEW b, b = Cal!Hash(p, c.width, c.nBuckets)
  PROVE  /\ [c EXCEPT !.lastPrio = p, !.lastBucket = b,
                      !.bucketTop = (p \div c.width + 1) * c.width, !.buckets = B] =
              AsCalendar(B, c.nBuckets, c.width, p, c.qSize)
         /\ [c EXCEPT !.lastBucket = b, !.lastPrio = p,
                      !.bucketTop = (p \div c.width + 1) * c.width, !.buckets = B] =
              AsCalendar(B, c.nBuckets, c.width, p, c.qSize)
<1> DEFINE bs == c.buckets
           n == c.nBuckets
           w == c.width
           lp == c.lastPrio
           q == c.qSize
           lb == Cal!Hash(lp, w, n)
           bt == (lp \div w + 1) * w
           top == (p \div w + 1) * w
<1>1. c = [buckets |-> bs, nBuckets |-> n, width |-> w, lastPrio |-> lp,
           lastBucket |-> lb, bucketTop |-> bt, qSize |-> q]
  BY Zenon DEF AsCalendar
<1>2. AsCalendar(B, n, w, p, q) =
        [buckets |-> B, nBuckets |-> n, width |-> w, lastPrio |-> p,
         lastBucket |-> b, bucketTop |-> top, qSize |-> q]
  BY Zenon DEF AsCalendar
<1> HIDE DEF bs, n, w, lp, q, lb, bt, top
<1> DEFINE R == [buckets |-> bs, nBuckets |-> n, width |-> w, lastPrio |-> p,
                 lastBucket |-> b, bucketTop |-> bt, qSize |-> q]
<1>3. [c EXCEPT !.lastPrio = p, !.lastBucket = b] = R
  <2> DEFINE d == [c EXCEPT !.lastPrio = p]
  <2>1. d = [buckets |-> bs, nBuckets |-> n, width |-> w, lastPrio |-> p,
             lastBucket |-> lb, bucketTop |-> bt, qSize |-> q]
    BY <1>1
  <2> HIDE DEF d
  <2>2. [d EXCEPT !.lastBucket = b] = R
    BY <2>1
  <2> QED BY <2>2, Zenon DEF d
<1>4. [c EXCEPT !.lastBucket = b, !.lastPrio = p] = R
  <2> DEFINE d == [c EXCEPT !.lastBucket = b]
  <2>1. d = [buckets |-> bs, nBuckets |-> n, width |-> w, lastPrio |-> lp,
             lastBucket |-> b, bucketTop |-> bt, qSize |-> q]
    BY <1>1
  <2> HIDE DEF d
  <2>2. [d EXCEPT !.lastPrio = p] = R
    BY <2>1
  <2> QED BY <2>2, Zenon DEF d
<1>5. [R EXCEPT !.bucketTop = top, !.buckets = B] = AsCalendar(B, n, w, p, q)
  <2> DEFINE d == [R EXCEPT !.bucketTop = top]
  <2>1. d = [buckets |-> bs, nBuckets |-> n, width |-> w, lastPrio |-> p,
             lastBucket |-> b, bucketTop |-> top, qSize |-> q]
    OBVIOUS
  <2> HIDE DEF d
  <2>2. [d EXCEPT !.buckets = B] = AsCalendar(B, n, w, p, q)
    BY <1>2, <2>1
  <2> QED BY <2>2, Zenon DEF d
<1> HIDE DEF R
<1> QED BY <1>3, <1>4, <1>5, Zenon DEF n, w, q, top

LEMMA CalendarTake ==
  ASSUME NEW c, NEW Q, Loaded(c, Q), Q # {}
  PROVE  /\ Loaded(Cal!DoRemoveNext(c), Q \ {List!Least(Q)})
         /\ Cal!DoRemoveNext(c).lastPrio = List!Least(Q).ts
         /\ Cal!DoRemoveNext(c).nBuckets = c.nBuckets
         /\ Cal!DoRemoveNext(c).width = c.width
         /\ Cal!DoRemoveNext(c).qSize = c.qSize
<1> DEFINE p == List!Least(Q)
           n == c.nBuckets
           w == c.width
           b == Cal!Hash(p.ts, w, n)
           B == [c.buckets EXCEPT ![b] = Tail(c.buckets[b])]
           d == AsCalendar(B, n, w, p.ts, c.qSize)
           H == Days(w, n)
<1>1. /\ n \in Nat \ {0} /\ w \in Nat \ {0} /\ Q \in SUBSET Events
      /\ c = AsCalendar(c.buckets, n, w, c.lastPrio, c.qSize)
      /\ Bucketed(c.buckets, n, H, Q)
  BY DEF Loaded, Bucketed
<1>2. /\ p \in Q /\ p \in Events /\ p.ts \in 0 .. MaxTs
      /\ \A f \in Q \ {p} : List!Before(p, f)
  BY <1>1, LeastExists, EventFields
<1> HIDE DEF p
<1>3. b \in 0 .. n - 1 /\ b = H[p.ts]
  <2>1. H \in [0 .. MaxTs -> 0 .. n - 1] /\ H[p.ts] = b
    BY <1>1, <1>2, DaysAre
  <2> HIDE DEF H, b
  <2> QED BY <1>2, <2>1
<1>4. c.buckets[b] # <<>> /\ Head(c.buckets[b]) = p
  <2>1. c.buckets[b] # <<>>
    BY <1>1, <1>2, <1>3, BucketOfEvent
  <2> DEFINE h == Head(c.buckets[b])
  <2>2. h \in Q /\ \A e \in Q : H[e.ts] = b => e = h \/ List!Before(h, e)
    <3> HIDE DEF H, b
    <3> QED BY <1>1, <1>3, <2>1, BucketFront
  <2> HIDE DEF h, b, H
  <2>3. h \in Events /\ (p = h \/ List!Before(h, p)) /\ (h = p \/ List!Before(p, h))
    BY <1>1, <1>2, <1>3, <2>2
  <2>4. h = p
    BY <1>2, <2>3, TotalOrder
  <2> QED BY <2>1, <2>4 DEF h
<1>5. Cal!DoRemoveNext(c) = d
  <2>0. Cal!PeekNext(c) = p
    <3>1. Cal!PeekNext(c) = List!Least(Q)
      BY CalendarPeek
    <3> QED BY <3>1 DEF p
  <2>1. CASE Cal!DueThisYear(c) = {}
    <3>1. Cal!DoRemoveNext(c) =
            [c EXCEPT !.lastPrio = p.ts,
                      !.lastBucket = b,
                      !.bucketTop = (p.ts \div w + 1) * w,
                      !.buckets = B]
      BY <2>0, <2>1 DEF Cal!DoRemoveNext
    <3> HIDE DEF B, b
    <3>2. [c EXCEPT !.lastPrio = p.ts,
                    !.lastBucket = b,
                    !.bucketTop = (p.ts \div w + 1) * w,
                    !.buckets = B] = d
      BY <1>1, SearchMoved, Zenon DEF b
    <3> QED BY <3>1, <3>2
  <2>2. CASE Cal!DueThisYear(c) # {}
    <3> DEFINE k == Cal!Min(Cal!DueThisYear(c))
    <3>1. /\ k \in Cal!NonEmpty(c) /\ Cal!FrontOf(c, k) = p
          /\ p.ts \div w = c.lastPrio \div w + k
      BY <2>2, CalendarPeek DEF p
    <3>2. Cal!DoRemoveNext(c) =
            [c EXCEPT !.lastBucket = Cal!Visited(c, k),
                      !.lastPrio = Cal!FrontOf(c, k).ts,
                      !.bucketTop = c.bucketTop + k * w,
                      !.buckets = [c.buckets EXCEPT ![Cal!Visited(c, k)] = Tail(c.buckets[Cal!Visited(c, k)])]]
      BY <2>2 DEF Cal!DoRemoveNext
    <3> HIDE DEF k
    <3>3. Cal!Visited(c, k) = b
      BY <3>1, FrontIs
    <3>4. c.bucketTop + k * w = (p.ts \div w + 1) * w
      <4> DEFINE y == c.lastPrio \div w
      <4>1. c.bucketTop = (y + 1) * w
        BY <1>1 DEF AsCalendar
      <4>2. y \in Int /\ k \in Int /\ w \in Int
        <5>1. k \in 0 .. n - 1
          BY <3>1, FrontIs
        <5>2. y \in Nat
          BY <5>1, Scan
        <5> HIDE DEF y
        <5> QED BY <1>1, <5>1, <5>2
      <4>3. p.ts \div w = y + k
        BY <3>1
      <4> HIDE DEF y
      <4>4. (y + 1) * w + k * w = ((y + k) + 1) * w
        BY <4>2, Distributes
      <4> QED BY <4>1, <4>3, <4>4
    <3>5. Cal!DoRemoveNext(c) =
            [c EXCEPT !.lastBucket = b, !.lastPrio = p.ts,
                      !.bucketTop = (p.ts \div w + 1) * w, !.buckets = B]
      BY <3>1, <3>2, <3>3, <3>4
    <3> HIDE DEF B, b
    <3>6. [c EXCEPT !.lastBucket = b, !.lastPrio = p.ts,
                    !.bucketTop = (p.ts \div w + 1) * w, !.buckets = B] = d
      BY <1>1, SearchMoved, Zenon DEF b
    <3> QED BY <3>5, <3>6
  <2> QED BY <2>1, <2>2
<1>6. Bucketed(B, n, H, Q \ {p})
  <2> HIDE DEF H, b
  <2> QED BY <1>1, <1>3, <1>4, BucketedTail
<1>7. \A e \in Q \ {p} : p.ts <= e.ts
  BY <1>1, <1>2, TotalOrder
<1> HIDE DEF B, b, H
<1>8. d.buckets = B /\ d.nBuckets = n /\ d.width = w /\ d.lastPrio = p.ts /\ d.qSize = c.qSize
  BY DEF AsCalendar
<1> HIDE DEF d
<1>9. Loaded(d, Q \ {p})
  BY <1>1, <1>2, <1>6, <1>7, <1>8 DEF Loaded, d, H
<1> QED BY <1>5, <1>8, <1>9 DEF p

-----------------------------------------------------------------------------
(* The new width of a resized calendar.  Its samples are times in order,   *)
(* so the separations it keeps add up to no more than the last bound on    *)
(* times; the width is a positive number unless the conversion to 32 bits  *)
(* gives zero.                                                             *)

SamplesFrom(c, n, f) ==
  f = [i \in 0 .. n |-> IF i = 0 THEN c ELSE Cal!DoRemoveNext(f[i - 1])]

LEMMA SamplesDefined ==
  ASSUME NEW c, NEW n \in Nat
  PROVE  \E f : SamplesFrom(c, n, f)
<1> DEFINE S == {m \in Nat : \E f : SamplesFrom(c, m, f)}
<1>1. 0 \in S
  <2>1. SamplesFrom(c, 0, [i \in 0 .. 0 |-> c])
    BY DEF SamplesFrom
  <2> QED BY <2>1
<1>2. ASSUME NEW m \in Nat, m \in S PROVE m + 1 \in S
  <2>1. PICK f : SamplesFrom(c, m, f)
    BY <1>2
  <2> DEFINE g == [i \in 0 .. m + 1 |-> IF i <= m THEN f[i] ELSE Cal!DoRemoveNext(f[m])]
  <2>2. SamplesFrom(c, m + 1, g)
    BY <2>1 DEF SamplesFrom
  <2> QED BY <2>2
<1> HIDE DEF S
<1>3. Nat \subseteq S
  BY <1>1, <1>2, Induct
<1> QED BY <1>3 DEF S

LEMMA SamplesAre ==
  ASSUME NEW c, NEW n \in Nat
  PROVE  \E f : /\ \A i \in 1 .. n : Cal!Samples(c, n)[i] = Cal!PeekNext(f[i - 1]).ts
                /\ f[0] = c
                /\ \A i \in 0 .. n - 1 : f[i + 1] = Cal!DoRemoveNext(f[i])
<1>1. SamplesFrom(c, n, CHOOSE f : SamplesFrom(c, n, f))
  BY SamplesDefined
<1>2. Cal!Samples(c, n) =
        [i \in 1 .. n |-> Cal!PeekNext((CHOOSE f : SamplesFrom(c, n, f))[i - 1]).ts]
  BY DEF Cal!Samples, SamplesFrom
<1>3. PICK f : /\ SamplesFrom(c, n, f)
               /\ Cal!Samples(c, n) = [i \in 1 .. n |-> Cal!PeekNext(f[i - 1]).ts]
  BY <1>1, <1>2
<1>4. f[0] = c
  BY <1>3 DEF SamplesFrom
<1>5. \A i \in 0 .. n - 1 : f[i + 1] = Cal!DoRemoveNext(f[i])
  <2>1. \A i \in 0 .. n - 1 : i + 1 \in 0 .. n /\ i + 1 # 0 /\ (i + 1) - 1 = i
    OBVIOUS
  <2>2. \A i \in 0 .. n : i # 0 => f[i] = Cal!DoRemoveNext(f[i - 1])
    BY <1>3 DEF SamplesFrom
  <2> QED BY <2>1, <2>2
<1> QED BY <1>3, <1>4, <1>5

LEMMA SamplesAscend ==
  ASSUME NEW c, NEW Q, Loaded(c, Q), IsFiniteSet(Q), NEW n \in Nat, n <= Cardinality(Q)
  PROVE  /\ \A i \in 1 .. n : Cal!Samples(c, n)[i] \in 0 .. MaxTs
         /\ \A i \in 1 .. n - 1 : Cal!Samples(c, n)[i] <= Cal!Samples(c, n)[i + 1]
<1>1. PICK f : /\ \A i \in 1 .. n : Cal!Samples(c, n)[i] = Cal!PeekNext(f[i - 1]).ts
               /\ f[0] = c
               /\ \A i \in 0 .. n - 1 : f[i + 1] = Cal!DoRemoveNext(f[i])
  BY SamplesAre
<1> DEFINE Left(i, P) == Loaded(f[i], P) /\ IsFiniteSet(P) /\ Cardinality(P) = Cardinality(Q) - i
           S == {i \in 0 .. n : \E P : Left(i, P)}
<1>2. Cardinality(Q) \in Nat
  BY FS_CardinalityType
<1>3. 0 \in S
  <2>1. Left(0, Q)
    BY <1>1, <1>2
  <2> QED BY <2>1
<1>4. ASSUME NEW i \in 0 .. n - 1, NEW P, Left(i, P)
      PROVE  /\ P # {} /\ P \in SUBSET Events /\ List!Least(P) \in P
             /\ Cal!PeekNext(f[i]) = List!Least(P)
             /\ Left(i + 1, P \ {List!Least(P)})
             /\ f[i + 1].lastPrio = List!Least(P).ts
  <2>1. P # {}
    <3>1. Cardinality(P) # 0
      BY <1>2, <1>4
    <3> QED BY <3>1, FS_EmptySet
  <2>2. P \in SUBSET Events /\ List!Least(P) \in P
    <3>1. P \in SUBSET Events
      BY <1>4 DEF Loaded, Bucketed
    <3> QED BY <2>1, <3>1, LeastExists
  <2>3. Cal!PeekNext(f[i]) = List!Least(P)
    BY <1>4, <2>1, CalendarPeek
  <2>4. f[i + 1] = Cal!DoRemoveNext(f[i])
    BY <1>1
  <2>5. Loaded(f[i + 1], P \ {List!Least(P)}) /\ f[i + 1].lastPrio = List!Least(P).ts
    BY <1>4, <2>1, <2>4, CalendarTake
  <2>6. /\ IsFiniteSet(P \ {List!Least(P)})
        /\ Cardinality(P \ {List!Least(P)}) = Cardinality(Q) - (i + 1)
    <3>1. /\ IsFiniteSet(P \ {List!Least(P)})
          /\ Cardinality(P \ {List!Least(P)}) = Cardinality(P) - 1
      BY <1>4, <2>2, FS_RemoveElement
    <3> QED BY <1>2, <1>4, <3>1
  <2> QED BY <2>1, <2>2, <2>3, <2>5, <2>6
<1>5. ASSUME NEW i \in 0 .. n - 1, i \in S PROVE i + 1 \in S
  <2>1. PICK P : Left(i, P)
    BY <1>5
  <2>2. Left(i + 1, P \ {List!Least(P)})
    BY <1>4, <2>1
  <2>3. i + 1 \in 0 .. n
    OBVIOUS
  <2> QED BY <2>2, <2>3
<1> HIDE DEF S
<1>6. \A i \in 0 .. n : \E P : Left(i, P)
  <2>1. 0 .. n \subseteq S
    BY <1>3, <1>5, InductTo
  <2> QED BY <2>1 DEF S
<1> HIDE DEF Left
<1>7. ASSUME NEW i \in 1 .. n PROVE Cal!Samples(c, n)[i] \in 0 .. MaxTs
  <2>1. i - 1 \in 0 .. n - 1 /\ i - 1 \in 0 .. n
    OBVIOUS
  <2>2. PICK P : Left(i - 1, P)
    BY <1>6, <2>1
  <2>3. P \in SUBSET Events /\ List!Least(P) \in P /\ Cal!PeekNext(f[i - 1]) = List!Least(P)
    BY <1>4, <2>1, <2>2
  <2>4. List!Least(P).ts \in 0 .. MaxTs
    BY <2>3, EventFields
  <2> QED BY <1>1, <2>3, <2>4
<1>8. ASSUME NEW i \in 1 .. n - 1 PROVE Cal!Samples(c, n)[i] <= Cal!Samples(c, n)[i + 1]
  <2>1. i - 1 \in 0 .. n - 1 /\ i - 1 \in 0 .. n /\ i \in 0 .. n - 1 /\ i \in 1 .. n
        /\ (i - 1) + 1 = i /\ i + 1 \in 1 .. n /\ (i + 1) - 1 = i
    OBVIOUS
  <2>2. PICK P : Left(i - 1, P)
    BY <1>6, <2>1
  <2> DEFINE R == P \ {List!Least(P)}
  <2>3. /\ Cal!PeekNext(f[i - 1]) = List!Least(P) /\ Left(i, R)
        /\ f[i].lastPrio = List!Least(P).ts
    BY <1>4, <2>1, <2>2
  <2>4. List!Least(R) \in R /\ Cal!PeekNext(f[i]) = List!Least(R)
    BY <1>4, <2>1, <2>3
  <2>5. f[i].lastPrio <= List!Least(R).ts
    BY <2>3, <2>4 DEF Left, Loaded
  <2> QED BY <1>1, <2>1, <2>3, <2>4, <2>5
<1> QED BY <1>7, <1>8

TotalFrom(gap, n, f) ==
  f = [i \in 0 .. n |-> IF i = 0 THEN 0 ELSE f[i - 1] + gap[i]]

LEMMA TotalDefined ==
  ASSUME NEW gap, NEW n \in Nat
  PROVE  \E f : TotalFrom(gap, n, f)
<1> DEFINE S == {m \in Nat : \E f : TotalFrom(gap, m, f)}
<1>1. 0 \in S
  <2>1. TotalFrom(gap, 0, [i \in 0 .. 0 |-> 0])
    BY DEF TotalFrom
  <2> QED BY <2>1
<1>2. ASSUME NEW m \in Nat, m \in S PROVE m + 1 \in S
  <2>1. PICK f : TotalFrom(gap, m, f)
    BY <1>2
  <2> DEFINE g == [i \in 0 .. m + 1 |-> IF i <= m THEN f[i] ELSE f[m] + gap[m + 1]]
  <2>2. TotalFrom(gap, m + 1, g)
    BY <2>1 DEF TotalFrom
  <2> QED BY <2>2
<1> HIDE DEF S
<1>3. Nat \subseteq S
  BY <1>1, <1>2, Induct
<1> QED BY <1>3 DEF S

LEMMA TotalIs ==
  ASSUME NEW gap, NEW n \in Nat
  PROVE  \E f : /\ Cal!TotalOf(gap, n) = f[n]
                /\ f[0] = 0
                /\ \A i \in 0 .. n - 1 : f[i + 1] = f[i] + gap[i + 1]
<1>1. TotalFrom(gap, n, CHOOSE f : TotalFrom(gap, n, f))
  BY TotalDefined
<1>2. Cal!TotalOf(gap, n) = (CHOOSE f : TotalFrom(gap, n, f))[n]
  BY DEF Cal!TotalOf, TotalFrom
<1>3. PICK f : TotalFrom(gap, n, f) /\ Cal!TotalOf(gap, n) = f[n]
  BY <1>1, <1>2
<1>4. f[0] = 0
  BY <1>3 DEF TotalFrom
<1>5. \A i \in 0 .. n - 1 : f[i + 1] = f[i] + gap[i + 1]
  <2>1. \A i \in 0 .. n - 1 : i + 1 \in 0 .. n /\ i + 1 # 0 /\ (i + 1) - 1 = i
    OBVIOUS
  <2>2. \A i \in 0 .. n : i # 0 => f[i] = f[i - 1] + gap[i]
    BY <1>3 DEF TotalFrom
  <2> QED BY <2>1, <2>2
<1> QED BY <1>3, <1>4, <1>5

\* Separations kept or dropped add up to no more than the whole span.
LEMMA TotalBound ==
  ASSUME NEW n \in Nat, NEW s, \A i \in 1 .. n + 1 : s[i] \in Int,
         NEW gap, \A i \in 1 .. n : gap[i] \in Int /\ 0 <= gap[i] /\ gap[i] <= s[i + 1] - s[i]
  PROVE  /\ Cal!TotalOf(gap, n) \in Int
         /\ 0 <= Cal!TotalOf(gap, n) /\ Cal!TotalOf(gap, n) <= s[n + 1] - s[1]
<1>1. PICK f : /\ Cal!TotalOf(gap, n) = f[n]
               /\ f[0] = 0
               /\ \A i \in 0 .. n - 1 : f[i + 1] = f[i] + gap[i + 1]
  BY TotalIs
<1> DEFINE S == {i \in 0 .. n : f[i] \in Int /\ 0 <= f[i] /\ f[i] <= s[i + 1] - s[1]}
<1>2. 0 \in S
  <2>1. s[1] \in Int
    OBVIOUS
  <2> QED BY <1>1, <2>1
<1>3. ASSUME NEW i \in 0 .. n - 1, i \in S PROVE i + 1 \in S
  <2>1. /\ f[i] \in Int /\ 0 <= f[i] /\ f[i] <= s[i + 1] - s[1]
        /\ f[i + 1] = f[i] + gap[i + 1] /\ i + 1 \in 0 .. n
    BY <1>1, <1>3
  <2>2. i + 1 \in 1 .. n /\ i + 1 \in 1 .. n + 1 /\ (i + 1) + 1 \in 1 .. n + 1 /\ 1 \in 1 .. n + 1
    OBVIOUS
  <2>3. gap[i + 1] \in Int /\ 0 <= gap[i + 1] /\ gap[i + 1] <= s[(i + 1) + 1] - s[i + 1]
    BY <2>2
  <2>4. s[(i + 1) + 1] \in Int /\ s[i + 1] \in Int /\ s[1] \in Int
    BY <2>2
  <2>5. f[i + 1] \in Int /\ 0 <= f[i + 1] /\ f[i + 1] <= s[(i + 1) + 1] - s[1]
    BY <2>1, <2>3, <2>4
  <2> QED BY <2>1, <2>5
<1> HIDE DEF S
<1>4. n \in S
  <2>1. 0 .. n \subseteq S
    BY <1>2, <1>3, InductTo
  <2> QED BY <2>1
<1> QED BY <1>1, <1>4 DEF S

\* The conversion of the new width to 32 bits never gives zero, given what
\* the separations of the events in this model can add up to.
WidthFits == \A t \in 1 .. MaxTs : (3 * t) % WidthModulus # 0

LEMMA SampleSizeIs ==
  ASSUME NEW c, c.qSize \in Nat, c.qSize >= 2
  PROVE  Cal!SampleSize(c) \in Nat /\ 2 <= Cal!SampleSize(c) /\ Cal!SampleSize(c) <= c.qSize
<1> DEFINE q == c.qSize
           s == IF q <= 5 THEN q ELSE 5 + (q \div 10)
<1>1. q \in Nat /\ q >= 2
  OBVIOUS
<1>2. Cal!SampleSize(c) = IF s > 25 THEN 25 ELSE s
  BY DEF Cal!SampleSize
<1> HIDE DEF q
<1>3. s \in Nat /\ 2 <= s /\ s <= q
  BY <1>1
<1> HIDE DEF s
<1>4. LET r == IF s > 25 THEN 25 ELSE s IN r \in Nat /\ 2 <= r /\ r <= q
  BY <1>1, <1>3
<1> QED BY <1>2, <1>4 DEF q

LEMMA NewWidthIsPositive ==
  ASSUME NEW c, NEW Q, Loaded(c, Q), IsFiniteSet(Q), c.qSize = Cardinality(Q), WidthFits
  PROVE  Cal!CalculateNewWidth(c) \in Nat \ {0}
<1>1. c.qSize \in Nat
  BY FS_CardinalityType
<1>2. CASE c.qSize < 2
  BY <1>2 DEF Cal!CalculateNewWidth
<1>3. CASE ~(c.qSize < 2)
  <2> DEFINE n == Cal!SampleSize(c) - 1
             samples == Cal!Samples(c, n + 1)
             gap == [i \in 1 .. n |-> samples[i + 1] - samples[i]]
             twiceAvg == (Cal!TotalOf(gap, n) \div n) * 2
             kept == [i \in 1 .. n |-> IF gap[i] <= twiceAvg THEN gap[i] ELSE 0]
             t == Cal!TotalOf(kept, n)
             total == t * 3
  <2>1. Cal!CalculateNewWidth(c) = (IF total < 1 THEN 1 ELSE total) % WidthModulus
    BY <1>3, Zenon DEF Cal!CalculateNewWidth
  <2>2. n \in Nat /\ n + 1 \in Nat /\ n + 1 <= Cardinality(Q)
    BY <1>1, <1>3, SampleSizeIs
  <2> HIDE DEF n
  <2>3. /\ \A i \in 1 .. n + 1 : samples[i] \in 0 .. MaxTs
        /\ \A i \in 1 .. (n + 1) - 1 : samples[i] <= samples[i + 1]
    BY <2>2, SamplesAscend
  <2> HIDE DEF samples
  <2>4. \A i \in 1 .. n : gap[i] \in Int /\ 0 <= gap[i] /\ gap[i] = samples[i + 1] - samples[i]
    <3> SUFFICES ASSUME NEW i \in 1 .. n
                 PROVE  gap[i] \in Int /\ 0 <= gap[i] /\ gap[i] = samples[i + 1] - samples[i]
      OBVIOUS
    <3>1. i \in 1 .. n + 1 /\ i + 1 \in 1 .. n + 1 /\ i \in 1 .. (n + 1) - 1
      BY <2>2
    <3>2. samples[i] \in Int /\ samples[i + 1] \in Int /\ samples[i] <= samples[i + 1]
      BY <2>3, <3>1
    <3> QED BY <3>2
  <2> HIDE DEF gap, twiceAvg
  <2>5. \A i \in 1 .. n : kept[i] \in Int /\ 0 <= kept[i] /\ kept[i] <= samples[i + 1] - samples[i]
    BY <2>4
  <2> HIDE DEF kept
  <2>6. \A i \in 1 .. n + 1 : samples[i] \in Int
    BY <2>3
  <2>7. t \in Int /\ 0 <= t /\ t <= samples[n + 1] - samples[1]
    BY <2>2, <2>5, <2>6, TotalBound
  <2>8. samples[1] \in 0 .. MaxTs /\ samples[n + 1] \in 0 .. MaxTs
    <3>1. 1 \in 1 .. n + 1 /\ n + 1 \in 1 .. n + 1
      BY <2>2
    <3> QED BY <2>3, <3>1
  <2> HIDE DEF t
  <2>9. t \in 0 .. MaxTs
    BY <2>7, <2>8, KindsAssumption
  <2>10. WidthModulus \in Nat \ {0} /\ 1 % WidthModulus = 1
    <3>1. WidthModulus \in Nat \ {0} /\ 1 < WidthModulus
      BY KindsAssumption
    <3>2. (0 * WidthModulus + 1) % WidthModulus = 1
      BY <3>1, DivUnique
    <3> QED BY <3>1, <3>2
  <2>11. CASE t = 0
    <3>1. Cal!CalculateNewWidth(c) = 1 % WidthModulus
      BY <2>1, <2>11
    <3> QED BY <2>10, <3>1
  <2>12. CASE t # 0
    <3>1. t \in 1 .. MaxTs /\ total = 3 * t /\ ~(total < 1) /\ total \in Nat
      BY <2>9, <2>12, KindsAssumption
    <3>2. Cal!CalculateNewWidth(c) = (3 * t) % WidthModulus
      BY <2>1, <3>1
    <3>3. (3 * t) % WidthModulus # 0
      BY <3>1 DEF WidthFits
    <3>4. (3 * t) % WidthModulus \in 0 .. WidthModulus - 1
      BY <2>10, <3>1, DivMod
    <3> QED BY <2>10, <3>2, <3>3, <3>4
  <2> QED BY <2>11, <2>12
<1> QED BY <1>2, <1>3

-----------------------------------------------------------------------------
(* Resizing: the buckets are emptied one after the other into new ones.    *)

RefillFrom(c, l, n, f) ==
  f = [j \in 0 .. n |-> IF j = 0 THEN c ELSE Cal!DoInsert(f[j - 1], l[j])]

LEMMA RefillDefined ==
  ASSUME NEW c, NEW l, NEW n \in Nat
  PROVE  \E f : RefillFrom(c, l, n, f)
<1> DEFINE S == {m \in Nat : \E f : RefillFrom(c, l, m, f)}
<1>1. 0 \in S
  <2>1. RefillFrom(c, l, 0, [j \in 0 .. 0 |-> c])
    BY DEF RefillFrom
  <2> QED BY <2>1
<1>2. ASSUME NEW m \in Nat, m \in S PROVE m + 1 \in S
  <2>1. PICK f : RefillFrom(c, l, m, f)
    BY <1>2
  <2> DEFINE g == [j \in 0 .. m + 1 |-> IF j <= m THEN f[j] ELSE Cal!DoInsert(f[m], l[m + 1])]
  <2>2. RefillFrom(c, l, m + 1, g)
    BY <2>1 DEF RefillFrom
  <2> QED BY <2>2
<1> HIDE DEF S
<1>3. Nat \subseteq S
  BY <1>1, <1>2, Induct
<1> QED BY <1>3 DEF S

LEMMA RefillIs ==
  ASSUME NEW c, NEW l, Len(l) \in Nat
  PROVE  \E f : /\ Cal!Refill(c, l) = f[Len(l)]
                /\ f[0] = c
                /\ \A j \in 0 .. Len(l) - 1 : f[j + 1] = Cal!DoInsert(f[j], l[j + 1])
<1>1. RefillFrom(c, l, Len(l), CHOOSE f : RefillFrom(c, l, Len(l), f))
  BY RefillDefined
<1>2. Cal!Refill(c, l) = (CHOOSE f : RefillFrom(c, l, Len(l), f))[Len(l)]
  BY DEF Cal!Refill, RefillFrom
<1>3. PICK f : RefillFrom(c, l, Len(l), f) /\ Cal!Refill(c, l) = f[Len(l)]
  BY <1>1, <1>2
<1>4. f[0] = c
  BY <1>3 DEF RefillFrom
<1>5. \A j \in 0 .. Len(l) - 1 : f[j + 1] = Cal!DoInsert(f[j], l[j + 1])
  <2>1. \A j \in 0 .. Len(l) - 1 : j + 1 \in 0 .. Len(l) /\ j + 1 # 0 /\ (j + 1) - 1 = j
    OBVIOUS
  <2>2. \A j \in 0 .. Len(l) : j # 0 => f[j] = Cal!DoInsert(f[j - 1], l[j])
    BY <1>3 DEF RefillFrom
  <2> QED BY <2>1, <2>2
<1> QED BY <1>3, <1>4, <1>5

LEMMA RefillLoads ==
  ASSUME NEW c, NEW P, Loaded(c, P), NEW l, NEW R, Sorted(l, R), P \cap R = {},
         \A e \in R : c.lastPrio <= e.ts
  PROVE  Loaded(Cal!Refill(c, l), P \cup R) /\ SameShape(Cal!Refill(c, l), c)
<1>1. /\ Len(l) \in Nat /\ R = {l[i] : i \in 1 .. Len(l)}
      /\ \A i \in 1 .. Len(l) : l[i] \in Events /\ l[i] \in R
      /\ \A i, j \in 1 .. Len(l) : i < j => l[i] # l[j]
  <2>1. \A i, j \in 1 .. Len(l) : i < j => List!Before(l[i], l[j])
    BY SortedAll
  <2>2. \A i \in 1 .. Len(l) : l[i] \in Events
    BY SortedTypes
  <2>3. \A i, j \in 1 .. Len(l) : i < j => l[i] # l[j]
    BY <2>1, <2>2, TotalOrder
  <2> QED BY <2>3, SortedTypes DEF Sorted
<1>2. PICK f : /\ Cal!Refill(c, l) = f[Len(l)]
               /\ f[0] = c
               /\ \A j \in 0 .. Len(l) - 1 : f[j + 1] = Cal!DoInsert(f[j], l[j + 1])
  <2>1. Len(l) \in Nat
    BY <1>1
  <2> QED BY <2>1, RefillIs
<1> DEFINE First(j) == P \cup {l[i] : i \in 1 .. j}
           S == {j \in 0 .. Len(l) : Loaded(f[j], First(j)) /\ SameShape(f[j], c)}
<1>3. 0 \in S
  <2>1. First(0) = P
    OBVIOUS
  <2> HIDE DEF First
  <2> QED BY <1>1, <1>2, <2>1 DEF SameShape
<1>4. ASSUME NEW j \in 0 .. Len(l) - 1, j \in S PROVE j + 1 \in S
  <2> DEFINE e == l[j + 1]
  <2>1. /\ Loaded(f[j], First(j)) /\ SameShape(f[j], c)
        /\ f[j + 1] = Cal!DoInsert(f[j], e) /\ j + 1 \in 0 .. Len(l) /\ j + 1 \in 1 .. Len(l)
    BY <1>1, <1>2, <1>4
  <2>2. e \in Events /\ e \in R /\ e \notin P
    BY <1>1, <2>1
  <2>3. \A i \in 1 .. j : l[i] # e
    <3>1. \A i \in 1 .. j : i \in 1 .. Len(l) /\ i < j + 1
      BY <1>1
    <3> QED BY <1>1, <2>1, <3>1
  <2>4. e \notin First(j)
    BY <2>2, <2>3
  <2>5. f[j].lastPrio <= e.ts
    BY <2>1, <2>2 DEF SameShape
  <2>6. First(j + 1) = First(j) \cup {e}
    <3>1. 1 .. j + 1 = (1 .. j) \cup {j + 1}
      BY <1>1
    <3> QED BY <3>1
  <2> HIDE DEF e, First
  <2>7. Loaded(Cal!DoInsert(f[j], e), First(j) \cup {e}) /\ SameShape(Cal!DoInsert(f[j], e), f[j])
    BY <2>1, <2>2, <2>4, <2>5, LoadedInsert
  <2> QED BY <2>1, <2>6, <2>7 DEF SameShape
<1> HIDE DEF S
<1>5. Len(l) \in S
  <2>1. 0 .. Len(l) \subseteq S
    BY <1>1, <1>3, <1>4, InductTo
  <2> QED BY <1>1, <2>1
<1>6. First(Len(l)) = P \cup R
  BY <1>1
<1> HIDE DEF First
<1> QED BY <1>2, <1>5, <1>6 DEF S

ResizeFrom(c, d, n, f) ==
  f = [i \in 0 .. n |-> IF i = 0 THEN d ELSE Cal!Refill(f[i - 1], c.buckets[i - 1])]

LEMMA ResizeDefined ==
  ASSUME NEW c, NEW d, NEW n \in Nat
  PROVE  \E f : ResizeFrom(c, d, n, f)
<1> DEFINE S == {m \in Nat : \E f : ResizeFrom(c, d, m, f)}
<1>1. 0 \in S
  <2>1. ResizeFrom(c, d, 0, [i \in 0 .. 0 |-> d])
    BY DEF ResizeFrom
  <2> QED BY <2>1
<1>2. ASSUME NEW m \in Nat, m \in S PROVE m + 1 \in S
  <2>1. PICK f : ResizeFrom(c, d, m, f)
    BY <1>2
  <2> DEFINE g == [i \in 0 .. m + 1 |-> IF i <= m THEN f[i] ELSE Cal!Refill(f[m], c.buckets[m])]
  <2>2. ResizeFrom(c, d, m + 1, g)
    BY <2>1 DEF ResizeFrom
  <2> QED BY <2>2
<1> HIDE DEF S
<1>3. Nat \subseteq S
  BY <1>1, <1>2, Induct
<1> QED BY <1>3 DEF S

LEMMA ResizeIs ==
  ASSUME NEW c, NEW size, c.nBuckets \in Nat
  PROVE  \E f : /\ Cal!Resize(c, size) = f[c.nBuckets]
                /\ f[0] = Cal!NewBuckets(c, size)
                /\ \A i \in 0 .. c.nBuckets - 1 : f[i + 1] = Cal!Refill(f[i], c.buckets[i])
<1> DEFINE n == c.nBuckets
           d == Cal!NewBuckets(c, size)
<1>1. ResizeFrom(c, d, n, CHOOSE f : ResizeFrom(c, d, n, f))
  BY ResizeDefined
<1>2. Cal!Resize(c, size) = (CHOOSE f : ResizeFrom(c, d, n, f))[n]
  BY DEF Cal!Resize, ResizeFrom
<1>3. PICK f : ResizeFrom(c, d, n, f) /\ Cal!Resize(c, size) = f[n]
  BY <1>1, <1>2
<1>4. f[0] = d
  BY <1>3 DEF ResizeFrom
<1>5. \A i \in 0 .. n - 1 : f[i + 1] = Cal!Refill(f[i], c.buckets[i])
  <2>1. \A i \in 0 .. n - 1 : i + 1 \in 0 .. n /\ i + 1 # 0 /\ (i + 1) - 1 = i
    OBVIOUS
  <2>2. \A i \in 0 .. n : i # 0 => f[i] = Cal!Refill(f[i - 1], c.buckets[i - 1])
    BY <1>3 DEF ResizeFrom
  <2> QED BY <2>1, <2>2
<1> QED BY <1>3, <1>4, <1>5

LEMMA ResizeLoads ==
  ASSUME NEW c, NEW Q, Loaded(c, Q), IsFiniteSet(Q), c.qSize = Cardinality(Q), WidthFits,
         NEW size \in Nat \ {0}
  PROVE  /\ Loaded(Cal!Resize(c, size), Q)
         /\ Cal!Resize(c, size).qSize = c.qSize
         /\ Cal!Resize(c, size).lastPrio = c.lastPrio
<1> DEFINE n == c.nBuckets
           H == Days(c.width, n)
           d == Cal!NewBuckets(c, size)
<1>1. n \in Nat /\ Bucketed(c.buckets, n, H, Q) /\ c.lastPrio \in 0 .. MaxTs
  BY DEF Loaded
<1>2. Loaded(d, {}) /\ d.lastPrio = c.lastPrio /\ d.qSize = c.qSize
  <2>1. Cal!CalculateNewWidth(c) \in Nat \ {0}
    BY NewWidthIsPositive
  <2> DEFINE w == Cal!CalculateNewWidth(c)
  <2>2. d = Cal!Calendar(size, w, c.lastPrio, c.qSize)
    BY DEF Cal!NewBuckets
  <2> HIDE DEF d, w
  <2>3. w \in Nat \ {0}
    BY <2>1 DEF w
  <2> QED BY <1>1, <2>2, <2>3, LoadedEmpty
<1> HIDE DEF d
<1>3. PICK f : /\ Cal!Resize(c, size) = f[n]
               /\ f[0] = d
               /\ \A i \in 0 .. n - 1 : f[i + 1] = Cal!Refill(f[i], c.buckets[i])
  BY <1>1, ResizeIs DEF d
<1> DEFINE Done(i) == {e \in Q : H[e.ts] < i}
           S == {i \in 0 .. n : /\ Loaded(f[i], Done(i))
                                /\ f[i].lastPrio = c.lastPrio /\ f[i].qSize = c.qSize}
<1>4. \A e \in Q : H[e.ts] \in 0 .. n - 1
  <2> HIDE DEF H
  <2> QED BY <1>1, BucketedAll
<1> HIDE DEF H
<1>5. 0 \in S
  <2>1. Done(0) = {}
    BY <1>4
  <2> HIDE DEF Done
  <2> QED BY <1>1, <1>2, <1>3, <2>1
<1>6. ASSUME NEW i \in 0 .. n - 1, i \in S PROVE i + 1 \in S
  <2>1. /\ Loaded(f[i], Done(i)) /\ f[i].lastPrio = c.lastPrio /\ f[i].qSize = c.qSize
        /\ f[i + 1] = Cal!Refill(f[i], c.buckets[i]) /\ i + 1 \in 0 .. n
    BY <1>1, <1>3, <1>6
  <2> DEFINE R == Share(Q, H, i)
  <2>2. Sorted(c.buckets[i], R)
    BY <1>1 DEF Bucketed
  <2>3. Done(i) \cap R = {} /\ Done(i + 1) = Done(i) \cup R
    <3>1. \A e \in Q : ~(H[e.ts] < i /\ H[e.ts] = i)
      BY <1>4
    <3>2. \A e \in Q : H[e.ts] < i + 1 <=> H[e.ts] < i \/ H[e.ts] = i
      BY <1>1, <1>4
    <3> QED BY <3>1, <3>2 DEF Share
  <2>4. \A e \in R : f[i].lastPrio <= e.ts
    BY <2>1 DEF Share, Loaded
  <2> HIDE DEF R, Done
  <2>5. /\ Loaded(Cal!Refill(f[i], c.buckets[i]), Done(i) \cup R)
        /\ SameShape(Cal!Refill(f[i], c.buckets[i]), f[i])
    BY <2>1, <2>2, <2>3, <2>4, RefillLoads
  <2> QED BY <2>1, <2>3, <2>5 DEF SameShape
<1> HIDE DEF S
<1>7. n \in S
  <2>1. 0 .. n \subseteq S
    BY <1>1, <1>5, <1>6, InductTo
  <2> QED BY <1>1, <2>1
<1>8. Done(n) = Q
  BY <1>1, <1>4
<1> HIDE DEF Done
<1> QED BY <1>3, <1>7, <1>8 DEF S

\* With its count, a calendar resizes up or down and stays good.
GoodCalendar(c, Q) ==
  Loaded(c, Q) /\ IsFiniteSet(Q) /\ c.qSize = Cardinality(Q)

LEMMA GoodResized ==
  ASSUME NEW c, NEW Q, GoodCalendar(c, Q), WidthFits
  PROVE  /\ GoodCalendar(Cal!ResizeUp(c), Q) /\ Cal!ResizeUp(c).lastPrio = c.lastPrio
         /\ GoodCalendar(Cal!ResizeDown(c), Q) /\ Cal!ResizeDown(c).lastPrio = c.lastPrio
<1> USE DEF GoodCalendar
<1>1. c.nBuckets \in Nat \ {0} /\ c.qSize \in Nat
  BY FS_CardinalityType DEF Loaded
<1>2. ASSUME NEW size \in Nat \ {0}
      PROVE  GoodCalendar(Cal!Resize(c, size), Q) /\ Cal!Resize(c, size).lastPrio = c.lastPrio
  BY ResizeLoads
<1>3. c.nBuckets * 2 \in Nat \ {0}
  BY <1>1
<1>4. c.qSize < c.nBuckets \div 2 => c.nBuckets \div 2 \in Nat \ {0}
  <2>1. c.nBuckets \div 2 \in Nat
    BY <1>1, DivMod
  <2> DEFINE h == c.nBuckets \div 2
  <2> HIDE DEF h
  <2>2. h \in Nat /\ (c.qSize < h => h # 0)
    BY <1>1, <2>1 DEF h
  <2> QED BY <2>2 DEF h
<1> HIDE DEF GoodCalendar
<1>5. GoodCalendar(Cal!ResizeUp(c), Q) /\ Cal!ResizeUp(c).lastPrio = c.lastPrio
  BY <1>2, <1>3 DEF Cal!ResizeUp
<1>6. GoodCalendar(Cal!ResizeDown(c), Q) /\ Cal!ResizeDown(c).lastPrio = c.lastPrio
  BY <1>2, <1>4 DEF Cal!ResizeDown
<1> QED BY <1>5, <1>6

LEMMA CalendarEmpty == GoodCalendar(Cal!EmptyCalendar, {}) /\ Cal!EmptyCalendar.lastPrio = 0
<1>1. 0 \in 0 .. MaxTs /\ 1 \in Nat \ {0} /\ 2 \in Nat \ {0}
  BY KindsAssumption
<1>2. Loaded(Cal!EmptyCalendar, {}) /\ Cal!EmptyCalendar.lastPrio = 0 /\ Cal!EmptyCalendar.qSize = 0
  BY <1>1, LoadedEmpty DEF Cal!EmptyCalendar
<1> QED BY <1>2, FS_EmptySet DEF GoodCalendar

LEMMA CalendarInsert ==
  ASSUME NEW c, NEW Q, GoodCalendar(c, Q), WidthFits,
         NEW e \in Events, e \notin Q, c.lastPrio <= e.ts
  PROVE  GoodCalendar(Cal!Insert(c, e), Q \cup {e}) /\ Cal!Insert(c, e).lastPrio = c.lastPrio
<1> DEFINE d == Cal!DoInsert(c, e)
           r == [d EXCEPT !.qSize = d.qSize + 1]
           P == Q \cup {e}
<1>1. Loaded(d, P) /\ SameShape(d, c)
  BY LoadedInsert DEF GoodCalendar
<1> HIDE DEF d
<1>2. Loaded(r, P) /\ r.qSize = d.qSize + 1 /\ r.lastPrio = d.lastPrio
  BY <1>1, LoadedCount
<1>3. Cal!Insert(c, e) = Cal!ResizeUp(r)
  BY DEF Cal!Insert, d
<1>4. IsFiniteSet(P) /\ Cardinality(P) = Cardinality(Q) + 1
  BY FS_AddElement DEF GoodCalendar
<1> HIDE DEF r, P
<1>5. GoodCalendar(r, P) /\ r.lastPrio = c.lastPrio
  BY <1>1, <1>2, <1>4 DEF GoodCalendar, SameShape
<1>6. GoodCalendar(Cal!ResizeUp(r), P) /\ Cal!ResizeUp(r).lastPrio = c.lastPrio
  BY <1>5, GoodResized
<1> QED BY <1>3, <1>6 DEF P

LEMMA CalendarRemoveNext ==
  ASSUME NEW c, NEW Q, GoodCalendar(c, Q), WidthFits, Q # {}
  PROVE  /\ GoodCalendar(Cal!RemoveNext(c), Q \ {List!Least(Q)})
         /\ Cal!RemoveNext(c).lastPrio = List!Least(Q).ts
<1> DEFINE d == Cal!DoRemoveNext(c)
           r == [d EXCEPT !.qSize = d.qSize - 1]
           p == List!Least(Q)
           P == Q \ {p}
<1>1. Loaded(d, P) /\ d.lastPrio = p.ts /\ d.qSize = c.qSize
  BY CalendarTake DEF GoodCalendar
<1> HIDE DEF d
<1>2. Loaded(r, P) /\ r.qSize = d.qSize - 1 /\ r.lastPrio = d.lastPrio
  BY <1>1, LoadedCount
<1>3. Cal!RemoveNext(c) = Cal!ResizeDown(r)
  BY DEF Cal!RemoveNext, d
<1>4. p \in Q
  <2>1. Q \in SUBSET Events
    BY DEF GoodCalendar, Loaded, Bucketed
  <2> QED BY <2>1, LeastExists
<1>5. IsFiniteSet(P) /\ Cardinality(P) = Cardinality(Q) - 1
  BY <1>4, FS_RemoveElement DEF GoodCalendar
<1> HIDE DEF r, P
<1>6. GoodCalendar(r, P) /\ r.lastPrio = p.ts
  BY <1>1, <1>2, <1>5 DEF GoodCalendar
<1>7. GoodCalendar(Cal!ResizeDown(r), P) /\ Cal!ResizeDown(r).lastPrio = p.ts
  BY <1>6, GoodResized
<1> QED BY <1>3, <1>7 DEF P

LEMMA CalendarRemove ==
  ASSUME NEW c, NEW Q, GoodCalendar(c, Q), WidthFits,
         NEW e \in Q, \A f \in Q : f.uid = e.uid => f = e
  PROVE  /\ GoodCalendar(Cal!RemoveEvent(c, e), Q \ {e})
         /\ Cal!RemoveEvent(c, e).lastPrio = c.lastPrio
<1> DEFINE b == Cal!Hash(e.ts, c.width, c.nBuckets)
           d == [c EXCEPT !.buckets = [c.buckets EXCEPT ![b] = Cal!EraseUid(c.buckets[b], e)]]
           r == [d EXCEPT !.qSize = d.qSize - 1]
           P == Q \ {e}
<1>1. Loaded(d, P) /\ SameShape(d, c)
  BY LoadedErase DEF GoodCalendar
<1>2. Cal!RemoveEvent(c, e) = Cal!ResizeDown(r)
  <2>1. d.qSize = c.qSize
    BY <1>1 DEF SameShape
  <2>2. Cal!RemoveEvent(c, e) = Cal!ResizeDown([d EXCEPT !.qSize = c.qSize - 1])
    BY DEF Cal!RemoveEvent
  <2> HIDE DEF d
  <2> QED BY <2>1, <2>2
<1> HIDE DEF d
<1>3. Loaded(r, P) /\ r.qSize = d.qSize - 1 /\ r.lastPrio = d.lastPrio
  BY <1>1, LoadedCount
<1>5. IsFiniteSet(P) /\ Cardinality(P) = Cardinality(Q) - 1
  BY FS_RemoveElement DEF GoodCalendar
<1> HIDE DEF r, P
<1>6. GoodCalendar(r, P) /\ r.lastPrio = c.lastPrio
  BY <1>1, <1>3, <1>5 DEF GoodCalendar, SameShape
<1>7. GoodCalendar(Cal!ResizeDown(r), P) /\ Cal!ResizeDown(r).lastPrio = c.lastPrio
  BY <1>6, GoodResized
<1> QED BY <1>2, <1>7 DEF P

-----------------------------------------------------------------------------
(* The ns-2 calendar.  With no event before its clock, an event taken on   *)
(* sight in the k-th bucket is exactly k ahead of the clock.               *)

Slots == [t \in 0 .. MaxTs |-> Ns2!Hash(t)]

GoodNs2(c, Q) ==
  /\ c = [buckets |-> c.buckets, lastbucket |-> Ns2!Hash(c.clock), clock |-> c.clock]
  /\ c.clock \in 0 .. MaxTs
  /\ Bucketed(c.buckets, 4, Slots, Q)
  /\ \A e \in Q : c.clock <= e.ts

LEMMA SlotsAre ==
  /\ \A t \in Nat : Ns2!Hash(t) = t % 4 /\ Ns2!Hash(t) \in 0 .. 3
  /\ Slots \in [0 .. MaxTs -> 0 .. 4 - 1]
  /\ \A e \in Events : Slots[e.ts] = Ns2!Hash(e.ts) /\ Ns2!Hash(e.ts) \in 0 .. 3
<1>1. ASSUME NEW t \in Nat PROVE Ns2!Hash(t) = t % 4 /\ Ns2!Hash(t) \in 0 .. 3
  <2>1. t \div 1 = t /\ t % 4 \in 0 .. 3
    OBVIOUS
  <2> QED BY <2>1 DEF Ns2!Hash, Ns2!nbuckets, Ns2!width
<1>2. \A t \in 0 .. MaxTs : t \in Nat
  BY KindsAssumption
<1>3. \A t \in 0 .. MaxTs : Slots[t] = Ns2!Hash(t)
  BY DEF Slots
<1>4. \A e \in Events : e.ts \in 0 .. MaxTs
  BY EventFields
<1>5. Slots \in [0 .. MaxTs -> 0 .. 4 - 1]
  <2>1. \A t \in 0 .. MaxTs : Ns2!Hash(t) \in 0 .. 4 - 1
    BY <1>1, <1>2
  <2> QED BY <2>1 DEF Slots
<1> QED BY <1>1, <1>2, <1>3, <1>4, <1>5

\* Other buckets, for other events, seen from a clock none of them is before.
LEMMA Ns2Buckets ==
  ASSUME NEW B, NEW t \in 0 .. MaxTs, NEW P, Bucketed(B, 4, Slots, P), \A e \in P : t <= e.ts
  PROVE  GoodNs2([buckets |-> B, lastbucket |-> Ns2!Hash(t), clock |-> t], P)
<1> DEFINE d == [buckets |-> B, lastbucket |-> Ns2!Hash(t), clock |-> t]
<1>1. d.buckets = B /\ d.clock = t
  OBVIOUS
<1>2. d = [buckets |-> d.buckets, lastbucket |-> Ns2!Hash(d.clock), clock |-> d.clock]
  BY <1>1
<1> HIDE DEF d
<1>3. GoodNs2(d, P)
  BY <1>1, <1>2 DEF GoodNs2
<1> QED BY <1>3 DEF d

LEMMA Ns2Empty == GoodNs2(Ns2!EmptyNs2, {}) /\ Ns2!EmptyNs2.clock = 0
<1> DEFINE B == [b \in 0 .. 4 - 1 |-> <<>>]
<1>1. Bucketed(B, 4, Slots, {})
  BY SlotsAre, BucketedEmpty
<1>2. Ns2!Hash(0) = 0 /\ 0 \in 0 .. MaxTs
  BY SlotsAre, KindsAssumption
<1>3. Ns2!EmptyNs2 = [buckets |-> B, lastbucket |-> Ns2!Hash(0), clock |-> 0]
  BY <1>2 DEF Ns2!EmptyNs2, Ns2!nbuckets
<1> HIDE DEF B
<1>4. GoodNs2([buckets |-> B, lastbucket |-> Ns2!Hash(0), clock |-> 0], {})
  BY <1>1, <1>2, Ns2Buckets
<1> QED BY <1>3, <1>4

LEMMA Ns2Insert ==
  ASSUME NEW c, NEW Q, GoodNs2(c, Q), NEW e \in Events, e \notin Q, c.clock <= e.ts
  PROVE  GoodNs2(Ns2!Insert(c, e), Q \cup {e}) /\ Ns2!Insert(c, e).clock = c.clock
<1> DEFINE b == Slots[e.ts]
           B == [c.buckets EXCEPT ![b] = List!InsertSorted(c.buckets[b], e)]
           d == [buckets |-> B, lastbucket |-> Ns2!Hash(c.clock), clock |-> c.clock]
<1>1. Bucketed(B, 4, Slots, Q \cup {e})
  BY BucketedInsert DEF GoodNs2
<1>2. Ns2!Insert(c, e) = d
  <2>1. B = [c.buckets EXCEPT ![Ns2!Hash(e.ts)] = Ns2!InsertSorted(c.buckets[Ns2!Hash(e.ts)], e)]
    BY SlotsAre, SameLists
  <2>2. Ns2!Insert(c, e) = [c EXCEPT !.buckets = B]
    <3> HIDE DEF B
    <3> QED BY <2>1 DEF Ns2!Insert
  <2> HIDE DEF B
  <2>3. c = [buckets |-> c.buckets, lastbucket |-> Ns2!Hash(c.clock), clock |-> c.clock]
    BY DEF GoodNs2
  <2> QED BY <2>2, <2>3
<1> HIDE DEF B
<1>3. c.clock \in 0 .. MaxTs /\ \A f \in Q \cup {e} : c.clock <= f.ts
  BY DEF GoodNs2
<1>4. GoodNs2(d, Q \cup {e})
  BY <1>1, <1>3, Ns2Buckets
<1> QED BY <1>2, <1>4

LEMMA Ns2Remove ==
  ASSUME NEW c, NEW Q, GoodNs2(c, Q), NEW e \in Q, \A f \in Q : f.uid = e.uid => f = e
  PROVE  GoodNs2(Ns2!RemoveEvent(c, e), Q \ {e}) /\ Ns2!RemoveEvent(c, e).clock = c.clock
<1> DEFINE b == Slots[e.ts]
           B == [c.buckets EXCEPT ![b] = List!EraseUid(c.buckets[b], e)]
           d == [buckets |-> B, lastbucket |-> Ns2!Hash(c.clock), clock |-> c.clock]
<1>1. Bucketed(B, 4, Slots, Q \ {e})
  BY BucketedErase DEF GoodNs2
<1>2. Ns2!RemoveEvent(c, e) = d
  <2>0. e \in Events
    BY DEF GoodNs2, Bucketed
  <2>1. B = [c.buckets EXCEPT ![Ns2!Hash(e.ts)] = Ns2!EraseUid(c.buckets[Ns2!Hash(e.ts)], e)]
    BY <2>0, SlotsAre, SameLists
  <2>2. Ns2!RemoveEvent(c, e) = [c EXCEPT !.buckets = B]
    <3> HIDE DEF B
    <3> QED BY <2>1 DEF Ns2!RemoveEvent
  <2> HIDE DEF B
  <2>3. c = [buckets |-> c.buckets, lastbucket |-> Ns2!Hash(c.clock), clock |-> c.clock]
    BY DEF GoodNs2
  <2> QED BY <2>2, <2>3
<1> HIDE DEF B
<1>3. c.clock \in 0 .. MaxTs /\ \A f \in Q \ {e} : c.clock <= f.ts
  BY DEF GoodNs2
<1>4. GoodNs2(d, Q \ {e})
  BY <1>1, <1>3, Ns2Buckets
<1> QED BY <1>2, <1>4

LEMMA Ns2Front ==
  ASSUME NEW c, NEW Q, GoodNs2(c, Q), NEW k \in Ns2!NonEmpty(c)
  PROVE  /\ k \in 0 .. 3 /\ Ns2!FrontOf(c, k) \in Q /\ Ns2!FrontOf(c, k) \in Events
         /\ Ns2!FrontOf(c, k).ts % 4 = (c.clock + k) % 4
         /\ \A e \in Q : e.ts % 4 = (c.clock + k) % 4 =>
                           e = Ns2!FrontOf(c, k) \/ List!Before(Ns2!FrontOf(c, k), e)
<1> DEFINE b == Ns2!Visited(c, k)
           g == Ns2!FrontOf(c, k)
<1>1. k \in 0 .. 3 /\ c.buckets[b] # <<>> /\ g = Head(c.buckets[b])
  BY DEF Ns2!NonEmpty, Ns2!FrontOf, Ns2!nbuckets
<1>2. c.clock \in Nat /\ Q \subseteq Events
  BY KindsAssumption DEF GoodNs2, Bucketed
<1>3. b = (c.clock + k) % 4 /\ b \in 0 .. 3
  <2>1. c.lastbucket = c.clock % 4
    <3>1. c.lastbucket = Ns2!Hash(c.clock)
      BY DEF GoodNs2
    <3> QED BY <1>2, <3>1, SlotsAre
  <2>2. b = ((c.clock % 4) + k) % 4
    BY <2>1 DEF Ns2!Visited, Ns2!nbuckets
  <2>3. ((c.clock % 4) + k) % 4 = (c.clock + k) % 4 /\ (c.clock + k) % 4 \in 0 .. 3
    BY <1>1, <1>2
  <2> QED BY <2>2, <2>3
<1> HIDE DEF b, g
<1>4. /\ Head(c.buckets[b]) \in Q /\ Slots[Head(c.buckets[b]).ts] = b
      /\ \A e \in Q : Slots[e.ts] = b => e = Head(c.buckets[b]) \/ List!Before(Head(c.buckets[b]), e)
  <2>1. Bucketed(c.buckets, 4, Slots, Q) /\ b \in 0 .. 4 - 1
    BY <1>3 DEF GoodNs2
  <2> QED BY <1>1, <2>1, BucketFront
<1>5. \A e \in Q : Slots[e.ts] = e.ts % 4
  BY <1>2, SlotsAre, EventFields
<1> QED BY <1>1, <1>2, <1>3, <1>4, <1>5 DEF g

LEMMA Ns2SlotOf ==
  ASSUME NEW c, NEW Q, GoodNs2(c, Q), NEW e \in Q
  PROVE  /\ e \in Events /\ e.ts \in Nat /\ c.clock \in Nat /\ c.clock <= e.ts
         /\ \E k \in Ns2!NonEmpty(c) : e.ts % 4 = (c.clock + k) % 4
<1>1. /\ e \in Events /\ e.ts \in Nat /\ c.clock \in Nat /\ c.clock <= e.ts
      /\ c.lastbucket = c.clock % 4
  <2>1. c.clock \in Nat /\ e \in Events /\ c.lastbucket = Ns2!Hash(c.clock) /\ c.clock <= e.ts
    BY KindsAssumption DEF GoodNs2, Bucketed
  <2> QED BY <2>1, SlotsAre, EventFields
<1> DEFINE k == (e.ts - c.clock) % 4
<1>2. k \in 0 .. 3 /\ e.ts % 4 = (c.clock + k) % 4 /\ ((c.clock % 4) + k) % 4 = e.ts % 4
  BY <1>1
<1> HIDE DEF k
<1>3. Ns2!Visited(c, k) = e.ts % 4
  BY <1>1, <1>2 DEF Ns2!Visited, Ns2!nbuckets
<1>4. c.buckets[e.ts % 4] # <<>>
  <2>1. Slots[e.ts] = e.ts % 4
    BY <1>1, SlotsAre
  <2>2. Bucketed(c.buckets, 4, Slots, Q)
    BY DEF GoodNs2
  <2> QED BY <2>1, <2>2, BucketOfEvent
<1>5. k \in Ns2!NonEmpty(c)
  BY <1>2, <1>3, <1>4 DEF Ns2!NonEmpty, Ns2!nbuckets
<1> QED BY <1>1, <1>2, <1>5

\* What is on sight
LEMMA Ns2OnSight ==
  ASSUME NEW c, NEW Q, GoodNs2(c, Q), NEW k \in Ns2!NonEmpty(c)
  PROVE  k \in Ns2!OnSight(c) <=> k < 3 /\ Ns2!FrontOf(c, k).ts = c.clock + k
<1> DEFINE t == Ns2!FrontOf(c, k).ts
<1>1. k \in 0 .. 3 /\ t \in Nat /\ c.clock \in Nat /\ c.clock <= t /\ t % 4 = (c.clock + k) % 4
  BY Ns2Front, Ns2SlotOf
<1>2. k \in Ns2!OnSight(c) <=> k < 3 /\ t >= c.clock /\ t - c.clock < Ns2!Reach(k)
  BY DEF Ns2!OnSight, Ns2!nbuckets
<1>3. Ns2!Reach(k) = IF k = 0 THEN 2 ELSE IF k = 1 THEN 3 ELSE 4
  <2>1. (1 * 4) \div 2 = 2 /\ 1 * 4 = 4
    OBVIOUS
  <2> QED BY <2>1 DEF Ns2!Reach, Ns2!nbuckets, Ns2!width
<1> HIDE DEF t
<1>4. t = c.clock + k /\ k < 3 => t >= c.clock /\ t - c.clock < Ns2!Reach(k)
  BY <1>1, <1>3
<1>5. ASSUME k < 3, t - c.clock < Ns2!Reach(k)
      PROVE  t = c.clock + k
  <2> DEFINE z == t - c.clock
  <2>1. z \in 0 .. 3 /\ (c.clock + z) % 4 = (c.clock + k) % 4
    BY <1>1, <1>3, <1>5
  <2> HIDE DEF z
  <2>2. z = k
    BY <1>1, <2>1
  <2> QED BY <1>1, <2>2 DEF z
<1> QED BY <1>2, <1>4, <1>5 DEF t

LEMMA Ns2Peek ==
  ASSUME NEW c, NEW Q, GoodNs2(c, Q), Q # {}
  PROVE  Ns2!PeekNext(c) = List!Least(Q)
<1>1. Q \in SUBSET Events
  BY DEF GoodNs2, Bucketed
<1>2. CASE Ns2!OnSight(c) # {}
  <2> DEFINE D == Ns2!OnSight(c)
  <2>1. D \subseteq Ns2!NonEmpty(c) /\ D \subseteq Nat
    BY DEF Ns2!OnSight, Ns2!NonEmpty, Ns2!nbuckets
  <2> HIDE DEF D
  <2>2. PICK k \in D : \A j \in D : k <= j
    BY <1>2, <2>1, LeastNatural DEF D
  <2>3. Ns2!Min(D) = k
    <3>1. \A x \in D : (\A y \in D : x <= y) => x = k
      BY <2>1, <2>2
    <3> QED BY <2>2, <3>1 DEF Ns2!Min
  <2> DEFINE e == Ns2!FrontOf(c, k)
  <2>4. Ns2!PeekNext(c) = e
    BY <1>2, <2>3 DEF Ns2!PeekNext, D
  <2>5. /\ k \in 0 .. 3 /\ k < 3 /\ k \in Ns2!NonEmpty(c) /\ e \in Q /\ e \in Events
        /\ e.ts \in Nat /\ c.clock \in Nat /\ e.ts = c.clock + k
    <3>1. k \in Ns2!NonEmpty(c) /\ k \in Ns2!OnSight(c)
      BY <2>1, <2>2 DEF D
    <3> QED BY <3>1, Ns2Front, Ns2OnSight, Ns2SlotOf
  <2>6. ASSUME NEW f \in Q \ {e} PROVE List!Before(e, f)
    <3>1. f \in Events /\ f.ts \in Nat /\ c.clock <= f.ts
      BY Ns2SlotOf
    <3>2. PICK j \in Ns2!NonEmpty(c) : f.ts % 4 = (c.clock + j) % 4
      BY Ns2SlotOf
    <3> DEFINE g == Ns2!FrontOf(c, j)
    <3>3. /\ j \in 0 .. 3 /\ g \in Q /\ g.ts \in Nat /\ c.clock <= g.ts
          /\ g.ts % 4 = (c.clock + j) % 4
          /\ g = f \/ List!Before(g, f)
      BY <3>2, Ns2Front, Ns2SlotOf
    <3>4. g.ts <= f.ts
      BY <1>1, <3>1, <3>3, TotalOrder
    <3>5. ~(f.ts < c.clock + k)
      <4> SUFFICES ASSUME f.ts < c.clock + k PROVE FALSE
        OBVIOUS
      <4>1. g.ts = c.clock + j /\ j < 3 /\ j < k
        <5> HIDE DEF g, e
        <5> DEFINE z == f.ts - c.clock
        <5>1. z \in 0 .. 2 /\ z < k /\ (c.clock + z) % 4 = (c.clock + j) % 4
          BY <2>5, <3>1, <3>2
        <5> DEFINE y == g.ts - c.clock
        <5>2. y \in 0 .. 2 /\ (c.clock + y) % 4 = (c.clock + j) % 4
          BY <2>5, <3>1, <3>3, <3>4
        <5> HIDE DEF z, y
        <5>3. z = j /\ y = j
          BY <2>5, <3>3, <5>1, <5>2
        <5>4. g.ts = c.clock + y
          BY <2>5, <3>3 DEF y
        <5> QED BY <5>1, <5>3, <5>4
      <4>2. j \in D
        BY <4>1, Ns2OnSight DEF D
      <4> QED BY <2>2, <2>5, <3>3, <4>1, <4>2
    <3>6. CASE f.ts = c.clock + k
      BY <2>5, <3>6, Ns2Front
    <3>7. CASE f.ts # c.clock + k
      <4>1. e.ts < f.ts
        BY <2>5, <3>1, <3>5, <3>7
      <4> QED BY <4>1 DEF List!Before
    <3> QED BY <3>6, <3>7
  <2> QED BY <1>1, <2>4, <2>5, <2>6, LeastIs
<1>3. CASE Ns2!OnSight(c) = {}
  <2> DEFINE F == {Ns2!FrontOf(c, k) : k \in Ns2!NonEmpty(c)}
             p == List!Least(Q)
  <2>1. p \in Q /\ \A f \in Q \ {p} : List!Before(p, f)
    BY <1>1, LeastExists
  <2> HIDE DEF p
  <2>2. F \subseteq Q
    BY Ns2Front
  <2>3. p \in F
    <3>1. PICK k \in Ns2!NonEmpty(c) : p.ts % 4 = (c.clock + k) % 4
      BY <2>1, Ns2SlotOf
    <3>2. /\ Ns2!FrontOf(c, k) \in Q
          /\ p = Ns2!FrontOf(c, k) \/ List!Before(Ns2!FrontOf(c, k), p)
      BY <2>1, <3>1, Ns2Front
    <3>3. p = Ns2!FrontOf(c, k)
      BY <1>1, <2>1, <3>2, TotalOrder
    <3> QED BY <3>3
  <2> HIDE DEF F
  <2>4. F \in SUBSET Events /\ \A f \in F \ {p} : List!Before(p, f)
    BY <1>1, <2>1, <2>2
  <2>5. List!Least(F) = p
    BY <2>3, <2>4, LeastIs
  <2>6. Ns2!PeekNext(c) = List!Least(F)
    BY <1>3, SameLeast DEF Ns2!PeekNext, F
  <2> QED BY <2>5, <2>6 DEF p
<1> QED BY <1>2, <1>3

LEMMA Ns2RemoveNext ==
  ASSUME NEW c, NEW Q, GoodNs2(c, Q), Q # {}
  PROVE  /\ GoodNs2(Ns2!RemoveNext(c), Q \ {List!Least(Q)})
         /\ Ns2!RemoveNext(c).clock = List!Least(Q).ts
<1> DEFINE p == List!Least(Q)
           b == Ns2!Hash(p.ts)
           B == [c.buckets EXCEPT ![b] = Tail(c.buckets[b])]
           d == [buckets |-> B, lastbucket |-> b, clock |-> p.ts]
<1>1. /\ Q \in SUBSET Events /\ Bucketed(c.buckets, 4, Slots, Q)
      /\ c = [buckets |-> c.buckets, lastbucket |-> Ns2!Hash(c.clock), clock |-> c.clock]
  BY DEF GoodNs2, Bucketed
<1>2. /\ p \in Q /\ p \in Events /\ p.ts \in 0 .. MaxTs
      /\ \A f \in Q \ {p} : List!Before(p, f)
  BY <1>1, LeastExists, EventFields
<1>3. Ns2!PeekNext(c) = p
  BY Ns2Peek
<1> HIDE DEF p
<1>4. b \in 0 .. 4 - 1 /\ b = Slots[p.ts]
  BY <1>2, SlotsAre
<1> HIDE DEF b
<1>5. c.buckets[b] # <<>> /\ Head(c.buckets[b]) = p
  <2>1. c.buckets[b] # <<>>
    BY <1>1, <1>2, <1>4, BucketOfEvent
  <2> DEFINE h == Head(c.buckets[b])
  <2>2. h \in Q /\ \A e \in Q : Slots[e.ts] = b => e = h \/ List!Before(h, e)
    BY <1>1, <1>4, <2>1, BucketFront
  <2> HIDE DEF h
  <2>3. h \in Events /\ (p = h \/ List!Before(h, p)) /\ (h = p \/ List!Before(p, h))
    BY <1>1, <1>2, <1>4, <2>2
  <2>4. h = p
    BY <1>2, <2>3, TotalOrder
  <2> QED BY <2>1, <2>4 DEF h
<1>6. Bucketed(B, 4, Slots, Q \ {p})
  BY <1>1, <1>4, <1>5, BucketedTail
<1>7. \A e \in Q \ {p} : p.ts <= e.ts
  BY <1>1, <1>2, TotalOrder
<1>8. Ns2!RemoveNext(c) = d
  <2>1. Ns2!RemoveNext(c) = [Ns2!AfterPeek(c) EXCEPT !.buckets[b] = Tail(@)]
    BY <1>3 DEF Ns2!RemoveNext, b
  <2>2. Ns2!AfterPeek(c) = [buckets |-> c.buckets, lastbucket |-> b, clock |-> p.ts]
    <3>1. Ns2!AfterPeek(c) = [c EXCEPT !.lastbucket = b, !.clock = p.ts]
      BY <1>3 DEF Ns2!AfterPeek, b
    <3> QED BY <1>1, <3>1
  <2> DEFINE a == Ns2!AfterPeek(c)
             bs == c.buckets
  <2>3. Ns2!RemoveNext(c) = [a EXCEPT !.buckets[b] = Tail(@)]
    BY <2>1
  <2>4. a = [buckets |-> bs, lastbucket |-> b, clock |-> p.ts]
    BY <2>2
  <2> HIDE DEF a, bs
  <2>5. [a EXCEPT !.buckets[b] = Tail(@)] =
          [buckets |-> [bs EXCEPT ![b] = Tail(bs[b])], lastbucket |-> b, clock |-> p.ts]
    <3> DEFINE X == [bs EXCEPT ![b] = Tail(bs[b])]
    <3>1. a.buckets = bs
      BY <2>4
    <3>2. [a EXCEPT !.buckets[b] = Tail(@)] = [a EXCEPT !.buckets = X]
      BY <3>1
    <3> HIDE DEF X
    <3>3. [a EXCEPT !.buckets = X] = [buckets |-> X, lastbucket |-> b, clock |-> p.ts]
      BY <2>4
    <3> QED BY <3>2, <3>3 DEF X
  <2> QED BY <2>3, <2>5 DEF bs
<1> HIDE DEF B
<1>9. GoodNs2(d, Q \ {p})
  BY <1>2, <1>6, <1>7, Ns2Buckets DEF b
<1> QED BY <1>8, <1>9 DEF p

-----------------------------------------------------------------------------
(* The interface: what the five schedulers have in common.  Good says that *)
(* structure s of scheduler k holds the events Q and may be given events   *)
(* from time lo on.                                                        *)

Good(k, s, Q, lo) ==
  /\ Q \in SUBSET Events /\ IsFiniteSet(Q)
  /\ k = "list" => Sorted(s, Q)
  /\ k = "map" => s = Q
  /\ k = "heap" => GoodHeap(s, Q)
  /\ k = "calendar" => GoodCalendar(s, Q) /\ s.lastPrio <= lo
  /\ k = "ns2" => GoodNs2(s, Q) /\ s.clock <= lo

\* What is assumed of the scheduler in use; see the theorems below.
Fits(k) == k \in Kinds /\ (k = "calendar" => WidthFits)

LEMMA KindIs ==
  ASSUME NEW k \in Kinds
  PROVE  k = "list" \/ k = "map" \/ k = "heap" \/ k = "calendar" \/ k = "ns2"
BY KindsAssumption

LEMMA GoodEmpty ==
  ASSUME NEW k, Fits(k), NEW lo \in Nat
  PROVE  Good(k, Empty(k), {}, lo)
<1>1. IsFiniteSet({}) /\ {} \in SUBSET Events
  BY FS_EmptySet
<1>2. CASE k = "list"
  BY <1>1, <1>2, SortedEmpty DEF Good, Empty, List!EmptyList
<1>3. CASE k = "map"
  BY <1>1, <1>3 DEF Good, Empty, Map!EmptyMap
<1>4. CASE k = "heap"
  BY <1>1, <1>4, HeapEmpty DEF Good, Empty, Heap!EmptyHeap
<1>5. CASE k = "calendar"
  BY <1>1, <1>5, CalendarEmpty DEF Good, Empty
<1>6. CASE k = "ns2"
  BY <1>1, <1>6, Ns2Empty DEF Good, Empty
<1> QED BY <1>2, <1>3, <1>4, <1>5, <1>6, KindIs DEF Fits

LEMMA GoodInsert ==
  ASSUME NEW k, Fits(k), NEW s, NEW Q, NEW lo \in Nat, Good(k, s, Q, lo),
         NEW e \in Events, e \notin Q, lo <= e.ts
  PROVE  Good(k, InsertInto(k, s, e), Q \cup {e}, lo)
<1>1. IsFiniteSet(Q \cup {e}) /\ Q \cup {e} \in SUBSET Events /\ e.ts \in Nat
  BY FS_AddElement, EventFields DEF Good
<1>2. CASE k = "list"
  <2>1. Sorted(List!InsertSorted(s, e), Q \cup {e})
    BY <1>2, SortedInsert DEF Good
  <2> QED BY <1>1, <1>2, <2>1 DEF Good, InsertInto, List!Insert
<1>3. CASE k = "map"
  BY <1>1, <1>3 DEF Good, InsertInto, Map!Insert
<1>4. CASE k = "heap"
  <2>1. GoodHeap(Heap!Insert(s, e), Q \cup {e})
    BY <1>4, HeapInsert DEF Good
  <2> QED BY <1>1, <1>4, <2>1 DEF Good, InsertInto
<1>5. CASE k = "calendar"
  <2>1. GoodCalendar(s, Q) /\ s.lastPrio <= lo /\ WidthFits
    BY <1>5 DEF Good, Fits
  <2>2. s.lastPrio \in Nat
    BY <2>1, KindsAssumption DEF GoodCalendar, Loaded
  <2>3. s.lastPrio <= e.ts
    BY <1>1, <2>1, <2>2
  <2>4. GoodCalendar(Cal!Insert(s, e), Q \cup {e}) /\ Cal!Insert(s, e).lastPrio = s.lastPrio
    BY <2>1, <2>3, CalendarInsert
  <2> QED BY <1>1, <1>5, <2>1, <2>4 DEF Good, InsertInto
<1>6. CASE k = "ns2"
  <2>1. GoodNs2(s, Q) /\ s.clock <= lo
    BY <1>6 DEF Good
  <2>2. s.clock \in Nat
    BY <2>1, KindsAssumption DEF GoodNs2
  <2>3. s.clock <= e.ts
    BY <1>1, <2>1, <2>2
  <2>4. GoodNs2(Ns2!Insert(s, e), Q \cup {e}) /\ Ns2!Insert(s, e).clock = s.clock
    BY <2>1, <2>3, Ns2Insert
  <2> QED BY <1>1, <1>6, <2>1, <2>4 DEF Good, InsertInto
<1> QED BY <1>2, <1>3, <1>4, <1>5, <1>6, KindIs DEF Fits

LEMMA GoodPeek ==
  ASSUME NEW k, Fits(k), NEW s, NEW Q, NEW lo, Good(k, s, Q, lo), Q # {}
  PROVE  /\ PeekNext(k, s) = List!Least(Q)
         /\ List!Least(Q) \in Q /\ List!Least(Q) \in Events
         /\ \A e \in Q : List!Least(Q).ts <= e.ts
<1>1. Q \in SUBSET Events
  BY DEF Good
<1>2. /\ List!Least(Q) \in Q /\ List!Least(Q) \in Events
      /\ \A e \in Q : List!Least(Q).ts <= e.ts
  <2> DEFINE p == List!Least(Q)
  <2>1. p \in Q /\ \A e \in Q \ {p} : List!Before(p, e)
    BY <1>1, LeastExists
  <2> HIDE DEF p
  <2>2. \A e \in Q : p.ts <= e.ts
    <3> SUFFICES ASSUME NEW e \in Q PROVE p.ts <= e.ts
      OBVIOUS
    <3>1. p \in Events /\ e \in Events /\ p.ts \in Nat
      BY <1>1, <2>1, EventFields
    <3>2. CASE e = p
      BY <3>1, <3>2
    <3>3. CASE e # p
      BY <2>1, <3>1, <3>3, TotalOrder
    <3> QED BY <3>2, <3>3
  <2> QED BY <1>1, <2>1, <2>2 DEF p
<1>3. CASE k = "list"
  <2>1. Sorted(s, Q)
    BY <1>3 DEF Good
  <2>2. List!Least(Q) = Head(s)
    BY <2>1, SortedTypes, SortedFront
  <2> QED BY <1>2, <1>3, <2>2 DEF PeekNext, List!PeekNext
<1>4. CASE k = "map"
  BY <1>2, <1>4, SameLeast DEF Good, PeekNext, Map!PeekNext
<1>5. CASE k = "heap"
  <2>1. GoodHeap(s, Q)
    BY <1>5 DEF Good
  <2>2. List!Least(Q) = s[1]
    BY <2>1, RootIsLeast
  <2> QED BY <1>2, <1>5, <2>2 DEF PeekNext, Heap!PeekNext, Heap!Root
<1>6. CASE k = "calendar"
  <2>1. Loaded(s, Q)
    BY <1>6 DEF Good, GoodCalendar
  <2>2. Cal!PeekNext(s) = List!Least(Q)
    BY <2>1, CalendarPeek
  <2> QED BY <1>2, <1>6, <2>2 DEF PeekNext
<1>7. CASE k = "ns2"
  <2>1. Ns2!PeekNext(s) = List!Least(Q)
    BY <1>7, Ns2Peek DEF Good
  <2> QED BY <1>2, <1>7, <2>1 DEF PeekNext
<1> QED BY <1>3, <1>4, <1>5, <1>6, <1>7, KindIs DEF Fits

LEMMA GoodRemoveNext ==
  ASSUME NEW k, Fits(k), NEW s, NEW Q, NEW lo, Good(k, s, Q, lo), Q # {}
  PROVE  Good(k, AfterRemoveNext(k, s), Q \ {List!Least(Q)}, List!Least(Q).ts)
<1> DEFINE p == List!Least(Q)
           P == Q \ {p}
<1>1. P \in SUBSET Events /\ IsFiniteSet(P) /\ p.ts \in Nat
  <2>1. IsFiniteSet(P)
    BY FS_RemoveElement DEF Good
  <2>2. p \in Events
    BY GoodPeek
  <2> HIDE DEF p
  <2> QED BY <2>1, <2>2, EventFields DEF Good
<1>3. CASE k = "list"
  <2>1. Sorted(s, Q)
    BY <1>3 DEF Good
  <2>2. List!Least(Q) = Head(s) /\ Sorted(Tail(s), Q \ {Head(s)})
    BY <2>1, SortedTypes, SortedFront
  <2>3. Sorted(List!RemoveNext(s), P)
    BY <2>2 DEF List!RemoveNext
  <2> QED BY <1>1, <1>3, <2>3 DEF Good, AfterRemoveNext
<1>4. CASE k = "map"
  <2>1. Map!RemoveNext(s) = P
    BY <1>4, SameLeast DEF Good, Map!RemoveNext
  <2> QED BY <1>1, <1>4, <2>1 DEF Good, AfterRemoveNext
<1>5. CASE k = "heap"
  <2>1. GoodHeap(s, Q)
    BY <1>5 DEF Good
  <2>2. List!Least(Q) = s[1] /\ GoodHeap(Heap!RemoveNext(s), Q \ {s[1]})
    BY <2>1, RootIsLeast, HeapRemoveNext
  <2>3. GoodHeap(Heap!RemoveNext(s), P)
    BY <2>2
  <2> QED BY <1>1, <1>5, <2>3 DEF Good, AfterRemoveNext
<1>6. CASE k = "calendar"
  <2>1. GoodCalendar(s, Q) /\ WidthFits
    BY <1>6 DEF Good, Fits
  <2>2. GoodCalendar(Cal!RemoveNext(s), P) /\ Cal!RemoveNext(s).lastPrio = p.ts
    BY <2>1, CalendarRemoveNext
  <2> HIDE DEF p, P
  <2>3. p.ts <= p.ts
    BY <1>1
  <2>4. Good(k, AfterRemoveNext(k, s), P, p.ts)
    BY <1>1, <1>6, <2>2, <2>3 DEF Good, AfterRemoveNext
  <2> QED BY <2>4 DEF P, p
<1>7. CASE k = "ns2"
  <2>1. GoodNs2(s, Q)
    BY <1>7 DEF Good
  <2>2. GoodNs2(Ns2!RemoveNext(s), P) /\ Ns2!RemoveNext(s).clock = p.ts
    BY <2>1, Ns2RemoveNext
  <2> HIDE DEF p, P
  <2>3. p.ts <= p.ts
    BY <1>1
  <2>4. Good(k, AfterRemoveNext(k, s), P, p.ts)
    BY <1>1, <1>7, <2>2, <2>3 DEF Good, AfterRemoveNext
  <2> QED BY <2>4 DEF P, p
<1> QED BY <1>3, <1>4, <1>5, <1>6, <1>7, KindIs DEF Fits

\* HeapScheduler::Remove is not among them: it may leave the heap out of order.
LEMMA GoodRemove ==
  ASSUME NEW k, Fits(k), k # "heap", NEW s, NEW Q, NEW lo, Good(k, s, Q, lo),
         NEW e \in Q, \A f \in Q : f.uid = e.uid => f = e
  PROVE  Good(k, AfterRemove(k, s, e), Q \ {e}, lo)
<1> DEFINE P == Q \ {e}
<1>1. P \in SUBSET Events /\ IsFiniteSet(P)
  BY FS_RemoveElement DEF Good
<1>2. CASE k = "list"
  <2>1. Sorted(List!EraseUid(s, e), P)
    BY <1>2, SortedErase DEF Good
  <2> QED BY <1>1, <1>2, <2>1 DEF Good, AfterRemove, List!RemoveEvent
<1>3. CASE k = "map"
  BY <1>1, <1>3 DEF Good, AfterRemove, Map!RemoveEvent
<1>4. CASE k = "calendar"
  <2>1. GoodCalendar(s, Q) /\ s.lastPrio <= lo /\ WidthFits
    BY <1>4 DEF Good, Fits
  <2>2. GoodCalendar(Cal!RemoveEvent(s, e), P) /\ Cal!RemoveEvent(s, e).lastPrio = s.lastPrio
    BY <2>1, CalendarRemove
  <2> QED BY <1>1, <1>4, <2>1, <2>2 DEF Good, AfterRemove
<1>5. CASE k = "ns2"
  <2>1. GoodNs2(s, Q) /\ s.clock <= lo
    BY <1>5 DEF Good
  <2>2. GoodNs2(Ns2!RemoveEvent(s, e), P) /\ Ns2!RemoveEvent(s, e).clock = s.clock
    BY <2>1, Ns2Remove
  <2> QED BY <1>1, <1>5, <2>1, <2>2 DEF Good, AfterRemove
<1> QED BY <1>2, <1>3, <1>4, <1>5, KindIs DEF Fits

\* Each structure holds exactly its events.
LEMMA ElementsOf ==
  ASSUME NEW l \in Seq(Events)
  PROVE  /\ List!Range(l) = {l[i] : i \in 1 .. Len(l)}
         /\ Heap!Range(l) = {l[i] : i \in 1 .. Len(l)}
         /\ Cal!Range(l) = {l[i] : i \in 1 .. Len(l)}
         /\ Ns2!Range(l) = {l[i] : i \in 1 .. Len(l)}
<1>1. DOMAIN l = 1 .. Len(l)
  OBVIOUS
<1> QED BY <1>1 DEF List!Range, Heap!Range, Cal!Range, Ns2!Range

LEMMA BucketsHold ==
  ASSUME NEW B, NEW n, NEW H, NEW Q, Bucketed(B, n, H, Q)
  PROVE  /\ DOMAIN B = 0 .. n - 1
         /\ UNION {Cal!Range(B[b]) : b \in DOMAIN B} = Q
         /\ UNION {Ns2!Range(B[b]) : b \in DOMAIN B} = Q
         /\ \A b \in DOMAIN B : \A e \in Cal!Range(B[b]) : e \in Q /\ H[e.ts] = b
         /\ \A b \in DOMAIN B : \A e \in Ns2!Range(B[b]) : e \in Q /\ H[e.ts] = b
<1>1. DOMAIN B = 0 .. n - 1 /\ \A b \in 0 .. n - 1 : B[b] \in Seq(Events)
  BY DEF Bucketed
<1>2. /\ \A b \in DOMAIN B : Cal!Range(B[b]) = {B[b][i] : i \in 1 .. Len(B[b])}
      /\ \A b \in DOMAIN B : Ns2!Range(B[b]) = {B[b][i] : i \in 1 .. Len(B[b])}
  BY <1>1, ElementsOf
<1>3. /\ \A b \in DOMAIN B : \A i \in 1 .. Len(B[b]) : B[b][i] \in Q /\ H[B[b][i].ts] = b
      /\ \A e \in Q : H[e.ts] \in DOMAIN B /\ \E i \in 1 .. Len(B[H[e.ts]]) : e = B[H[e.ts]][i]
  <2>1. /\ \A b \in 0 .. n - 1 : /\ List!KeysAscend(B[b])
                                 /\ \A i \in 1 .. Len(B[b]) : B[b][i] \in Q /\ H[B[b][i].ts] = b
        /\ \A e \in Q : \E i \in 1 .. Len(B[H[e.ts]]) : e = B[H[e.ts]][i]
        /\ \A e \in Q : H[e.ts] \in 0 .. n - 1
    BY BucketedAll
  <2> QED BY <1>1, <2>1, Zenon
<1>4. /\ \A b \in DOMAIN B : \A e \in Cal!Range(B[b]) : e \in Q /\ H[e.ts] = b
      /\ \A b \in DOMAIN B : \A e \in Ns2!Range(B[b]) : e \in Q /\ H[e.ts] = b
  BY <1>2, <1>3
<1>5. \A e \in Q : e \in Cal!Range(B[H[e.ts]]) /\ e \in Ns2!Range(B[H[e.ts]])
  BY <1>2, <1>3
<1>6. UNION {Cal!Range(B[b]) : b \in DOMAIN B} = Q
  BY <1>3, <1>4, <1>5
<1>7. UNION {Ns2!Range(B[b]) : b \in DOMAIN B} = Q
  BY <1>3, <1>4, <1>5
<1> QED BY <1>1, <1>4, <1>6, <1>7

LEMMA GoodContents ==
  ASSUME NEW k, Fits(k), NEW s, NEW Q, NEW lo, Good(k, s, Q, lo)
  PROVE  Contents(k, s) = Q
<1>1. CASE k = "list"
  <2>1. s \in Seq(Events) /\ Q = {s[i] : i \in 1 .. Len(s)}
    BY <1>1 DEF Good, Sorted
  <2>2. List!Contents(s) = Q
    BY <2>1, ElementsOf DEF List!Contents
  <2> QED BY <1>1, <2>2 DEF Contents
<1>2. CASE k = "map"
  BY <1>2 DEF Good, Contents, Map!Contents
<1>3. CASE k = "heap"
  <2>1. s \in Seq(Events) /\ Q = {s[i] : i \in 1 .. Len(s)}
    BY <1>3 DEF Good, GoodHeap, Filled
  <2>2. Heap!Contents(s) = Q
    BY <2>1, ElementsOf DEF Heap!Contents
  <2> QED BY <1>3, <2>2 DEF Contents
<1>4. CASE k = "calendar"
  <2>1. Bucketed(s.buckets, s.nBuckets, Days(s.width, s.nBuckets), Q)
    BY <1>4 DEF Good, GoodCalendar, Loaded
  <2>2. Cal!Contents(s) = Q
    BY <2>1, BucketsHold DEF Cal!Contents
  <2> QED BY <1>4, <2>2 DEF Contents
<1>5. CASE k = "ns2"
  <2>1. Bucketed(s.buckets, 4, Slots, Q)
    BY <1>5 DEF Good, GoodNs2
  <2>2. Ns2!Contents(s) = Q
    BY <2>1, BucketsHold DEF Ns2!Contents
  <2> QED BY <1>5, <2>2 DEF Contents
<1> QED BY <1>1, <1>2, <1>3, <1>4, <1>5, KindIs DEF Fits

\* Each structure is as its search wants it.
LEMMA GoodWellFormed ==
  ASSUME Fits(kind), NEW lo, Good(kind, store, queue, lo),
         \A e, f \in queue : e.uid = f.uid => e = f
  PROVE  WellFormed
<1>1. CASE kind = "list"
  <2>1. List!WellFormed(store)
    BY <1>1 DEF Good, Sorted, List!WellFormed
  <2> QED BY <1>1, <2>1 DEF WellFormed
<1>2. CASE kind = "map"
  <2>1. Map!WellFormed(store)
    BY <1>2 DEF Good, Map!WellFormed
  <2> QED BY <1>2, <2>1 DEF WellFormed
<1>3. CASE kind = "heap"
  <2>1. Heap!WellFormed(store)
    <3>1. \A i \in 2 .. Len(store) : List!Before(store[i \div 2], store[i])
      BY <1>3 DEF Good, GoodHeap, Ordered
    <3> QED BY <3>1, SameOrder DEF Heap!WellFormed, Heap!Parent
  <2> QED BY <1>3, <2>1 DEF WellFormed
<1>4. CASE kind = "calendar"
  <2> DEFINE B == store.buckets
             n == store.nBuckets
             w == store.width
             H == Days(w, n)
  <2>1. /\ n \in Nat \ {0} /\ w \in Nat \ {0} /\ Bucketed(B, n, H, queue)
        /\ store.qSize = Cardinality(queue) /\ queue \in SUBSET Events
    BY <1>4 DEF Good, GoodCalendar, Loaded
  <2>2. /\ DOMAIN B = 0 .. n - 1
        /\ \A b \in DOMAIN B : \A e \in Cal!Range(B[b]) : e \in queue /\ H[e.ts] = b
        /\ \A b \in DOMAIN B : Cal!KeysAscend(B[b])
    <3> HIDE DEF H, B
    <3> QED BY <2>1, BucketsHold, BucketedAll, SameLists
  <2>3. \A e \in queue : H[e.ts] = Cal!Hash(e.ts, w, n)
    BY <2>1, DaysAre, EventFields
  <2>4. w > 0
    BY <2>1
  <2>5. Cal!Contents(store) = queue
    BY <1>4, GoodContents DEF Contents
  <2> HIDE DEF H
  <2>6. \A b \in DOMAIN B : \A e \in Cal!Range(B[b]) : Cal!Hash(e.ts, w, n) = b
    BY <2>2, <2>3
  <2>7. store.qSize = Cal!Cardinality(Cal!Contents(store))
    BY <2>1, <2>5, SameCount
  <2>8. Cal!WellFormed(store)
    BY <2>2, <2>4, <2>6, <2>7 DEF Cal!WellFormed
  <2> QED BY <1>4, <2>8 DEF WellFormed
<1>5. CASE kind = "ns2"
  <2> DEFINE B == store.buckets
  <2>1. Bucketed(B, 4, Slots, queue) /\ queue \in SUBSET Events
    BY <1>5 DEF Good, GoodNs2
  <2>2. /\ \A b \in DOMAIN B : \A e \in Ns2!Range(B[b]) : e \in queue /\ Slots[e.ts] = b
        /\ \A b \in DOMAIN B : Ns2!KeysAscend(B[b])
    <3> HIDE DEF B
    <3>0. Bucketed(B, 4, Slots, queue)
      BY <2>1
    <3>1. /\ DOMAIN B = 0 .. 4 - 1
          /\ \A b \in DOMAIN B : \A e \in Ns2!Range(B[b]) : e \in queue /\ Slots[e.ts] = b
      BY <3>0, BucketsHold
    <3>2. \A b \in 0 .. 4 - 1 : List!KeysAscend(B[b])
      BY <3>0, BucketedAll
    <3> QED BY <3>1, <3>2, SameLists, Zenon
  <2>3. \A e \in queue : Slots[e.ts] = Ns2!Hash(e.ts)
    BY <2>1, SlotsAre
  <2>4. Ns2!WellFormed(store)
    BY <2>2, <2>3 DEF Ns2!WellFormed
  <2> QED BY <1>5, <2>4 DEF WellFormed
<1> QED BY <1>1, <1>2, <1>3, <1>4, <1>5, KindIs DEF Fits

-----------------------------------------------------------------------------
(* SetScheduler: everything is moved, in order, into the new structure.    *)

MovedFrom(k, s, n, k2, s2, f) ==
  f = [i \in 0 .. n |-> IF i = 0 THEN [from |-> s, to |-> s2] ELSE MoveOne(k, k2, f[i - 1])]

LEMMA MovedDefined ==
  ASSUME NEW k, NEW s, NEW k2, NEW s2, NEW n \in Nat
  PROVE  \E f : MovedFrom(k, s, n, k2, s2, f)
<1> DEFINE S == {m \in Nat : \E f : MovedFrom(k, s, m, k2, s2, f)}
<1>1. 0 \in S
  <2>1. MovedFrom(k, s, 0, k2, s2, [i \in 0 .. 0 |-> [from |-> s, to |-> s2]])
    BY DEF MovedFrom
  <2> QED BY <2>1
<1>2. ASSUME NEW m \in Nat, m \in S PROVE m + 1 \in S
  <2>1. PICK f : MovedFrom(k, s, m, k2, s2, f)
    BY <1>2
  <2> DEFINE g == [i \in 0 .. m + 1 |-> IF i <= m THEN f[i] ELSE MoveOne(k, k2, f[m])]
  <2>2. MovedFrom(k, s, m + 1, k2, s2, g)
    BY <2>1 DEF MovedFrom
  <2> QED BY <2>2
<1> HIDE DEF S
<1>3. Nat \subseteq S
  BY <1>1, <1>2, Induct
<1> QED BY <1>3 DEF S

LEMMA MovedIs ==
  ASSUME NEW k, NEW s, NEW k2, NEW s2, NEW n \in Nat
  PROVE  \E f : /\ Moved(k, s, n, k2, s2) = f[n].to
                /\ f[0] = [from |-> s, to |-> s2]
                /\ \A i \in 0 .. n - 1 : f[i + 1] = MoveOne(k, k2, f[i])
<1>1. MovedFrom(k, s, n, k2, s2, CHOOSE f : MovedFrom(k, s, n, k2, s2, f))
  BY MovedDefined
<1>2. Moved(k, s, n, k2, s2) = (CHOOSE f : MovedFrom(k, s, n, k2, s2, f))[n].to
  BY DEF Moved, MovedFrom
<1>3. PICK f : MovedFrom(k, s, n, k2, s2, f) /\ Moved(k, s, n, k2, s2) = f[n].to
  BY <1>1, <1>2
<1>4. f[0] = [from |-> s, to |-> s2]
  BY <1>3 DEF MovedFrom
<1>5. \A i \in 0 .. n - 1 : f[i + 1] = MoveOne(k, k2, f[i])
  <2>1. \A i \in 0 .. n - 1 : i + 1 \in 0 .. n /\ i + 1 # 0 /\ (i + 1) - 1 = i
    OBVIOUS
  <2>2. \A i \in 0 .. n : i # 0 => f[i] = MoveOne(k, k2, f[i - 1])
    BY <1>3 DEF MovedFrom
  <2> QED BY <2>1, <2>2
<1> QED BY <1>3, <1>4, <1>5

LEMMA GoodMoved ==
  ASSUME NEW k, Fits(k), NEW k2, Fits(k2), NEW s, NEW Q, NEW lo \in Nat, Good(k, s, Q, lo),
         \A e \in Q : lo <= e.ts
  PROVE  Good(k2, Moved(k, s, Cardinality(Q), k2, Empty(k2)), Q, lo)
<1> DEFINE n == Cardinality(Q)
           s2 == Empty(k2)
<1>1. n \in Nat /\ Q \in SUBSET Events /\ IsFiniteSet(Q)
  BY FS_CardinalityType DEF Good
<1>2. Good(k2, s2, {}, lo)
  BY GoodEmpty
<1> HIDE DEF s2
<1>3. PICK f : /\ Moved(k, s, n, k2, s2) = f[n].to
               /\ f[0] = [from |-> s, to |-> s2]
               /\ \A i \in 0 .. n - 1 : f[i + 1] = MoveOne(k, k2, f[i])
  <2> HIDE DEF n
  <2> QED BY <1>1, MovedIs
<1> DEFINE Half(i, P) == /\ P \in SUBSET Q
                         /\ \E l : Good(k, f[i].from, P, l)
                         /\ Cardinality(P) = n - i
                         /\ Good(k2, f[i].to, Q \ P, lo)
           S == {i \in 0 .. n : \E P : Half(i, P)}
<1>4. 0 \in S
  <2>1. f[0].from = s /\ f[0].to = s2 /\ Q \ Q = {}
    BY <1>3
  <2>2. Half(0, Q)
    BY <1>1, <1>2, <2>1
  <2> HIDE DEF Half
  <2> QED BY <1>1, <2>2
<1>5. ASSUME NEW i \in 0 .. n - 1, i \in S PROVE i + 1 \in S
  <2>1. PICK P : Half(i, P)
    BY <1>5
  <2>2. PICK l : Good(k, f[i].from, P, l)
    BY <2>1
  <2> DEFINE p == List!Least(P)
  <2>3. P \in SUBSET Q /\ IsFiniteSet(P) /\ Cardinality(P) = n - i /\ P # {}
    <3>1. P \in SUBSET Q /\ IsFiniteSet(P) /\ Cardinality(P) = n - i
      BY <2>1, <2>2 DEF Good
    <3>2. Cardinality(P) # 0
      BY <1>1, <3>1
    <3> QED BY <3>1, <3>2, FS_EmptySet
  <2>4. PeekNext(k, f[i].from) = p /\ p \in P /\ p \in Events
    BY <2>2, <2>3, GoodPeek
  <2>5. Good(k, AfterRemoveNext(k, f[i].from), P \ {p}, p.ts)
    BY <2>2, <2>3, GoodRemoveNext
  <2> HIDE DEF p
  <2>6. f[i + 1] = [from |-> AfterRemoveNext(k, f[i].from), to |-> InsertInto(k2, f[i].to, p)]
    BY <1>3, <2>4 DEF MoveOne
  <2>7. Good(k2, InsertInto(k2, f[i].to, p), (Q \ P) \cup {p}, lo)
    <3>1. Good(k2, f[i].to, Q \ P, lo)
      BY <2>1
    <3>2. p \notin Q \ P /\ lo <= p.ts
      BY <2>3, <2>4
    <3> QED BY <2>4, <3>1, <3>2, GoodInsert
  <2>8. (Q \ P) \cup {p} = Q \ (P \ {p})
    BY <2>3, <2>4
  <2>9. Cardinality(P \ {p}) = n - (i + 1)
    <3>1. Cardinality(P \ {p}) = Cardinality(P) - 1
      <4>1. IsFiniteSet(P) /\ p \in P
        BY <2>3, <2>4
      <4> QED BY <4>1, FS_RemoveElement
    <3> QED BY <1>1, <2>3, <3>1
  <2>10. Half(i + 1, P \ {p})
    <3>1. f[i + 1].from = AfterRemoveNext(k, f[i].from) /\ f[i + 1].to = InsertInto(k2, f[i].to, p)
      BY <2>6
    <3>2. Good(k, f[i + 1].from, P \ {p}, p.ts)
      BY <2>5, <3>1
    <3>3. Good(k2, f[i + 1].to, Q \ (P \ {p}), lo)
      BY <2>7, <2>8, <3>1
    <3> QED BY <2>3, <2>9, <3>2, <3>3
  <2> HIDE DEF Half
  <2> QED BY <1>1, <2>10
<1> HIDE DEF S
<1>6. n \in S
  <2>1. 0 .. n \subseteq S
    BY <1>1, <1>4, <1>5, InductTo
  <2> QED BY <1>1, <2>1
<1>7. PICK P : Half(n, P)
  BY <1>6 DEF S
<1>8. P = {}
  <2>1. IsFiniteSet(P) /\ Cardinality(P) = 0
    BY <1>1, <1>7 DEF Good
  <2> QED BY <2>1, FS_EmptySet
<1>9. Good(k2, f[n].to, Q, lo)
  BY <1>7, <1>8
<1> QED BY <1>3, <1>9 DEF s2

-----------------------------------------------------------------------------
(* The steps of Schedulers                                                 *)

\* What the theorems assume of the constants, beyond their types.  Each part
\* leaves out a case in which the code does lose the order of events: Remove
\* from a heap, insertion after a look at the ns-2 calendar (its head () moves
\* the clock), and a new width of the calendar that is 0 modulo 2^32, which
\* cannot be while MaxTs is less than 2^32.
OrderKept ==
  /\ "heap" \notin RemoveKinds
  /\ "ns2" \notin PeekKinds
  /\ "calendar" \in Kinds => WidthFits

Inv ==
  /\ kind \in Kinds
  /\ queue \in SUBSET Events
  /\ \A e, f \in queue : e.uid = f.uid => e = f
  /\ now \in 0 .. MaxTs
  /\ uid \in 0 .. MaxUid
  /\ \A e \in queue : now <= e.ts /\ e.uid < uid
  /\ Good(kind, store, queue, now)

LEMMA KindFits ==
  ASSUME OrderKept, NEW k \in Kinds
  PROVE  Fits(k)
BY DEF OrderKept, Fits

LEMMA InvInit ==
  ASSUME OrderKept, Init
  PROVE  Inv
<1>1. 0 \in 0 .. MaxTs /\ 0 \in 0 .. MaxUid /\ 0 \in Nat
  BY KindsAssumption
<1>2. Good(kind, store, {}, 0)
  BY <1>1, KindFits, GoodEmpty DEF Init
<1> QED BY <1>1, <1>2 DEF Inv, Init

LEMMA InvInsert ==
  ASSUME OrderKept, Inv, Insert
  PROVE  Inv'
<1>1. PICK d \in Delays :
        LET ev == [ts |-> now + d, uid |-> uid] IN
        /\ ev.ts <= MaxTs
        /\ store' = InsertInto(kind, store, ev)
        /\ queue' = queue \cup {ev}
  BY DEF Insert
<1> DEFINE ev == [ts |-> now + d, uid |-> uid]
<1>2. now \in Nat /\ d \in Nat /\ uid \in Nat /\ uid < MaxUid /\ uid' = uid + 1 /\ kind' = kind /\ now' = now
  BY KindsAssumption DEF Inv, Insert
<1>3. /\ ev \in Events /\ ev.ts = now + d /\ now <= ev.ts /\ ev.uid = uid
      /\ store' = InsertInto(kind, store, ev) /\ queue' = queue \cup {ev}
  BY <1>1, <1>2, KindsAssumption DEF Events
<1> HIDE DEF ev
<1>4. ev \notin queue
  BY <1>2, <1>3 DEF Inv
<1>5. Good(kind, store', queue', now)
  BY <1>2, <1>3, <1>4, KindFits, GoodInsert DEF Inv
<1>6. \A e \in queue : e.uid \in Nat /\ e.uid < uid
  BY EventFields DEF Inv
<1>7. \A e, f \in queue' : e.uid = f.uid => e = f
  BY <1>2, <1>3, <1>6 DEF Inv
<1>8. \A e \in queue' : now <= e.ts /\ e.uid < uid + 1
  BY <1>2, <1>3, <1>6 DEF Inv
<1>9. queue' \in SUBSET Events
  BY <1>3 DEF Inv
<1>10. uid' \in 0 .. MaxUid
  BY <1>2, KindsAssumption
<1> QED BY <1>2, <1>5, <1>7, <1>8, <1>9, <1>10 DEF Inv

LEMMA InvRemoveNext ==
  ASSUME OrderKept, Inv, RemoveNext
  PROVE  Inv'
<1> DEFINE p == List!Least(queue)
<1>1. Fits(kind) /\ Good(kind, store, queue, now) /\ queue # {}
  BY KindFits DEF Inv, RemoveNext
<1>2. /\ PeekNext(kind, store) = p /\ p \in queue /\ p \in Events
      /\ \A e \in queue : p.ts <= e.ts
  BY <1>1, GoodPeek
<1>3. Good(kind, AfterRemoveNext(kind, store), queue \ {p}, p.ts)
  BY <1>1, GoodRemoveNext
<1> HIDE DEF p
<1>4. /\ queue' = queue \ {p} /\ now' = p.ts /\ store' = AfterRemoveNext(kind, store)
      /\ kind' = kind /\ uid' = uid
  BY <1>2 DEF RemoveNext
<1>5. now' \in 0 .. MaxTs
  BY <1>2, <1>4, EventFields
<1> QED BY <1>2, <1>3, <1>4, <1>5 DEF Inv

LEMMA InvRemove ==
  ASSUME OrderKept, Inv, Remove
  PROVE  Inv'
<1>1. PICK ev \in queue : store' = AfterRemove(kind, store, ev) /\ queue' = queue \ {ev}
  BY DEF Remove
<1>2. /\ kind # "heap" /\ Fits(kind) /\ Good(kind, store, queue, now)
      /\ \A f \in queue : f.uid = ev.uid => f = ev
      /\ kind' = kind /\ now' = now /\ uid' = uid
  BY KindFits DEF OrderKept, Inv, Remove
<1>3. Good(kind, AfterRemove(kind, store, ev), queue \ {ev}, now)
  BY <1>2, GoodRemove
<1> QED BY <1>1, <1>2, <1>3 DEF Inv

LEMMA InvPeek ==
  ASSUME OrderKept, Inv, Peek
  PROVE  Inv'
<1>1. kind # "ns2"
  BY DEF OrderKept, Peek
<1> QED BY <1>1 DEF Inv, Peek, AfterPeek

LEMMA InvSetScheduler ==
  ASSUME OrderKept, Inv, SetScheduler
  PROVE  Inv'
<1>1. /\ kind' \in Kinds /\ queue' = queue /\ now' = now /\ uid' = uid
      /\ store' = Moved(kind, store, Cardinality(queue), kind', Empty(kind'))
  BY DEF SetScheduler
<1>2. Fits(kind) /\ Fits(kind')
  BY <1>1, KindFits DEF Inv
<1>3. now \in Nat /\ Good(kind, store, queue, now) /\ \A e \in queue : now <= e.ts
  BY KindsAssumption DEF Inv
<1>4. Good(kind', Moved(kind, store, Cardinality(queue), kind', Empty(kind')), queue, now)
  <2> DEFINE k2 == kind'
  <2>1. Fits(k2)
    BY <1>2
  <2> HIDE DEF k2
  <2>2. Good(k2, Moved(kind, store, Cardinality(queue), k2, Empty(k2)), queue, now)
    BY <1>2, <1>3, <2>1, GoodMoved
  <2> QED BY <2>2 DEF k2
<1> QED BY <1>1, <1>4 DEF Inv

\* In every reachable state the scheduler in use is good for the queued events,
\* which are not before the current time.
THEOREM SchedulersInductive == ASSUME OrderKept PROVE Spec => []Inv
<1>1. Init => Inv
  BY InvInit
<1>2. Inv /\ [Next]_vars => Inv'
  <2> SUFFICES ASSUME Inv, [Next]_vars PROVE Inv'
    OBVIOUS
  <2>1. CASE Insert
    BY <2>1, InvInsert
  <2>2. CASE RemoveNext
    BY <2>2, InvRemoveNext
  <2>3. CASE Remove
    BY <2>3, InvRemove
  <2>4. CASE Peek
    BY <2>4, InvPeek
  <2>5. CASE SetScheduler
    BY <2>5, InvSetScheduler
  <2>6. CASE UNCHANGED vars
    BY <2>6 DEF Inv, vars
  <2> QED BY <2>1, <2>2, <2>3, <2>4, <2>5, <2>6 DEF Next
<1> QED BY <1>1, <1>2, PTL DEF Spec

\* The events queued have their type and distinct uids, and the structure that
\* holds them is as its search needs it: sorted list, heap order, each event in
\* the bucket of its time, an exact m_qSize and a positive width
\* (list-, map-, heap-, calendar- and ns2-calendar-scheduler.cc).
THEOREM SchedulersTypeOK == ASSUME OrderKept PROVE Spec => []TypeOK
<1>1. Inv => TypeOK
  <2> SUFFICES ASSUME Inv PROVE TypeOK
    OBVIOUS
  <2>1. Fits(kind) /\ Good(kind, store, queue, now)
    BY KindFits DEF Inv
  <2>2. WellFormed
    BY <2>1, GoodWellFormed DEF Inv
  <2> QED BY <2>2 DEF Inv, TypeOK
<1> QED BY <1>1, SchedulersInductive, PTL

\* No insertion, removal, heap exchange, calendar resize or move to another
\* scheduler loses, doubles or invents an event.
THEOREM NoEventIsLost == ASSUME OrderKept PROVE Spec => []HoldsEveryEvent
<1>1. Inv => HoldsEveryEvent
  <2> SUFFICES ASSUME Inv PROVE HoldsEveryEvent
    OBVIOUS
  <2>1. Fits(kind) /\ Good(kind, store, queue, now)
    BY KindFits DEF Inv
  <2> QED BY <2>1, GoodContents DEF HoldsEveryEvent
<1> QED BY <1>1, SchedulersInductive, PTL

\* Whatever the history of the structure, the next event is the one with the
\* least key queued, "the next earliest event" of scheduler.h:81.
THEOREM NextIsEarliest == ASSUME OrderKept PROVE Spec => []ServesNextEarliest
<1>1. Inv => ServesNextEarliest
  <2> SUFFICES ASSUME Inv, queue # {} PROVE PeekNext(kind, store) = List!Least(queue)
    BY DEF ServesNextEarliest
  <2>1. Fits(kind) /\ Good(kind, store, queue, now)
    BY KindFits DEF Inv
  <2> QED BY <2>1, GoodPeek
<1> QED BY <1>1, SchedulersInductive, PTL

LEMMA PutStep ==
  ASSUME Inv, Insert
  PROVE  Promised!QueueNext
<1>1. PICK d \in Delays :
        LET ev == [ts |-> now + d, uid |-> uid] IN
        /\ ev.ts <= MaxTs
        /\ queue' = queue \cup {ev}
  BY DEF Insert
<1> DEFINE ev == [ts |-> now + d, uid |-> uid]
<1>2. /\ now \in Nat /\ d \in Nat /\ uid \in Nat /\ uid < MaxUid
      /\ uid' = uid + 1 /\ now' = now
  BY KindsAssumption DEF Inv, Insert
<1>3. /\ ev \in Promised!Keys /\ ev.uid = uid /\ now <= ev.ts
      /\ queue' = queue \cup {ev}
  BY <1>1, <1>2, KindsAssumption DEF Promised!Keys
<1> HIDE DEF ev
<1>4. ev \notin queue
  BY <1>2, <1>3 DEF Inv
<1>5. Promised!Put(ev)
  BY <1>2, <1>3, <1>4 DEF Promised!Put
<1> QED BY <1>3, <1>5 DEF Promised!QueueNext

LEMMA TakeNextStep ==
  ASSUME OrderKept, Inv, RemoveNext
  PROVE  Promised!QueueNext
<1> DEFINE p == List!Least(queue)
<1>1. Fits(kind) /\ Good(kind, store, queue, now) /\ queue # {}
  BY KindFits DEF Inv, RemoveNext
<1>2. PeekNext(kind, store) = p /\ p \in queue /\ p \in Events
  BY <1>1, GoodPeek
<1>3. queue \subseteq Events /\ \A e, f \in queue : e.uid = f.uid => e = f
  BY DEF Inv
<1>4. \A f \in queue \ {p} : Promised!Earlier(p, f)
  <2>1. \A f \in queue \ {p} : List!Before(p, f)
    BY <1>1, <1>3, LeastExists
  <2> QED BY <2>1 DEF List!Before, Promised!Earlier
<1> HIDE DEF p
<1>5. queue' = queue \ {p} /\ now' = p.ts /\ uid' = uid
  BY <1>2 DEF RemoveNext
<1>6. now <= p.ts
  BY <1>2 DEF Inv
<1>7. Promised!TakeNext(p)
  BY <1>2, <1>4, <1>5, <1>6 DEF Promised!TakeNext
<1>8. p \in Promised!Keys
  BY <1>2 DEF Events, Promised!Keys
<1> QED BY <1>7, <1>8 DEF Promised!QueueNext

\* The list in use implements the abstract event queue: an insertion puts an
\* event in, the next event taken is the earliest and not in the past, a removal
\* erases one event, and PeekNext and SetScheduler (default-simulator-impl.cc:94),
\* like every resize inside them, change nothing the executive sees.
THEOREM EventQueueImplemented == ASSUME OrderKept PROVE Spec => ImplementsEventQueue
<1>1. Init => Promised!QueueInit
  BY DEF Init, Promised!QueueInit
<1>2. Inv /\ [Next]_vars => [Promised!QueueNext]_(Promised!queueVars)
  <2> SUFFICES ASSUME Inv, [Next]_vars
               PROVE  Promised!QueueNext \/ UNCHANGED Promised!queueVars
    OBVIOUS
  <2>1. CASE Insert
    BY <2>1, PutStep
  <2>2. CASE RemoveNext
    BY <2>2, TakeNextStep
  <2>3. CASE Remove
    <3>1. PICK ev \in queue : queue' = queue \ {ev}
      BY <2>3 DEF Remove
    <3>2. Promised!Erase(ev)
      BY <2>3, <3>1 DEF Remove, Promised!Erase
    <3>3. ev \in Promised!Keys
      BY <3>1 DEF Inv, Events, Promised!Keys
    <3> QED BY <3>2, <3>3 DEF Promised!QueueNext
  <2>4. CASE Peek
    BY <2>4 DEF Peek, Promised!queueVars
  <2>5. CASE SetScheduler
    BY <2>5 DEF SetScheduler, Promised!queueVars
  <2>6. CASE UNCHANGED vars
    BY <2>6 DEF vars, Promised!queueVars
  <2> QED BY <2>1, <2>2, <2>3, <2>4, <2>5, <2>6 DEF Next
<1> QED BY <1>1, <1>2, SchedulersInductive, PTL DEF Spec, ImplementsEventQueue, Promised!QueueSpec
=============================================================================
