--------------------------- MODULE ListScheduler ---------------------------
(* ns3::ListScheduler: a linked list kept sorted by key.                   *)
EXTENDS EventKeys

EmptyList == <<>>

Insert(m_events, ev) == InsertSorted(m_events, ev)
PeekNext(m_events) == Head(m_events)
RemoveNext(m_events) == Tail(m_events)
RemoveEvent(m_events, ev) == EraseUid(m_events, ev)

Contents(m_events) == Range(m_events)
WellFormed(m_events) == KeysAscend(m_events)
=============================================================================
