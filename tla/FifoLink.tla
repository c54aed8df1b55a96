------------------------------ MODULE FifoLink ------------------------------
(***************************************************************************)
(* What a full-duplex link promises its two ends: a packet one end has     *)
(* accepted reaches the other end once, in the order of acceptance, and    *)
(* every accepted packet does.  Whether its contents survive is not        *)
(* promised: a packet may reach the other end corrupted.  PointToPoint is  *)
(* shown to implement it.                                                  *)
(***************************************************************************)
EXTENDS Integers, Sequences

CONSTANTS
  Ends,        \* the two ends of the link
  Packets      \* what they send

VARIABLES
  taken,       \* taken[d]: the packets end d has accepted, in order
  brought      \* brought[d]: those of them that have reached the other end

linkVars == <<taken, brought>>

LinkInit ==
  /\ taken = [d \in Ends |-> <<>>]
  /\ brought = [d \in Ends |-> <<>>]

Take(d) ==
  /\ \E p \in Packets : taken' = [taken EXCEPT ![d] = Append(@, p)]
  /\ UNCHANGED brought

Bring(d) ==
  /\ Len(brought[d]) < Len(taken[d])
  /\ brought' = [brought EXCEPT ![d] = Append(@, taken[d][Len(@) + 1])]
  /\ UNCHANGED taken

LinkNext == \E d \in Ends : Take(d) \/ Bring(d)

LinkSafe == LinkInit /\ [][LinkNext]_linkVars

LinkSpec == LinkSafe /\ \A d \in Ends : WF_linkVars(Bring(d))
=============================================================================
