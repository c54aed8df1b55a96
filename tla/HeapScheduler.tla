--------------------------- MODULE HeapScheduler ---------------------------
(***************************************************************************)
(* ns3::HeapScheduler: a binary heap in an array.  The array's wasted      *)
(* element 0 is left out: a heap is the sequence m_heap[1..Last()].        *)
(***************************************************************************)
EXTENDS EventKeys

EmptyHeap == <<>>

Root == 1
Parent(id) == id \div 2
LeftChild(id) == id * 2
RightChild(id) == id * 2 + 1
IsBottom(m_heap, id) == id > Len(m_heap)
Exch(m_heap, a, b) == [m_heap EXCEPT ![a] = m_heap[b], ![b] = m_heap[a]]
IsLessStrictly(m_heap, a, b) == Before(m_heap[a], m_heap[b])
Smallest(m_heap, a, b) == IF IsLessStrictly(m_heap, a, b) THEN a ELSE b

(* BottomUp and TopDown are loops over the array and an index into it.     *)
At(m_heap, index) == [heap |-> m_heap, index |-> index]

UpStep(s) ==
  IF s.index # Root /\ IsLessStrictly(s.heap, s.index, Parent(s.index))
  THEN At(Exch(s.heap, s.index, Parent(s.index)), Parent(s.index))
  ELSE s

BottomUp(m_heap, index) ==
  LET loop[k \in 0..Len(m_heap)] ==
        IF k = 0 THEN At(m_heap, index) ELSE UpStep(loop[k - 1])
  IN loop[Len(m_heap)].heap

(* The child to compare with: the smaller of two, or the left one.         *)
SmallestChild(m_heap, index) ==
  IF IsBottom(m_heap, RightChild(index)) THEN LeftChild(index)
  ELSE Smallest(m_heap, LeftChild(index), RightChild(index))

DownStep(s) ==
  LET tmp == SmallestChild(s.heap, s.index) IN
  IF IsBottom(s.heap, tmp) \/ IsLessStrictly(s.heap, s.index, tmp)
  THEN s
  ELSE At(Exch(s.heap, s.index, tmp), tmp)

TopDown(m_heap, index) ==
  LET loop[k \in 0..Len(m_heap)] ==
        IF k = 0 THEN At(m_heap, index) ELSE DownStep(loop[k - 1])
  IN loop[Len(m_heap)].heap

(* Swap with the last element and shrink the array.                        *)
TakeOut(m_heap, i) == Front(Exch(m_heap, i, Len(m_heap)))

Insert(m_heap, ev) == BottomUp(Append(m_heap, ev), Len(m_heap) + 1)
PeekNext(m_heap) == m_heap[Root]
RemoveNext(m_heap) == TopDown(TakeOut(m_heap, Root), Root)

(* The element put in the hole is only moved down, never up.               *)
RemoveEvent(m_heap, ev) ==
  LET i == CHOOSE j \in DOMAIN m_heap : m_heap[j].uid = ev.uid
  IN TopDown(TakeOut(m_heap, i), i)

Contents(m_heap) == Range(m_heap)
WellFormed(m_heap) ==
  \A i \in 2..Len(m_heap) : Before(m_heap[Parent(i)], m_heap[i])
=============================================================================
