---------------------------- MODULE MapScheduler ---------------------------
(* ns3::MapScheduler: a std::map from key to EventImpl, a set of events in *)
(* key order; Insert asserts that the key was not there.                   *)
EXTENDS EventKeys

EmptyMap == {}

Insert(m_list, ev) == m_list \union {ev}
PeekNext(m_list) == Least(m_list)
RemoveNext(m_list) == m_list \ {Least(m_list)}
RemoveEvent(m_list, ev) == m_list \ {ev}

Contents(m_list) == m_list
WellFormed(m_list) == \A e, f \in m_list : e.uid = f.uid => e = f
=============================================================================
