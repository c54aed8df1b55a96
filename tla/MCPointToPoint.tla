--------------------------- MODULE MCPointToPoint ---------------------------
(* A link between two devices: the queue of one counts packets and its     *)
(* interframe gap is as long as the channel's delay, the queue of the      *)
(* other counts bytes and it has no gap.                                   *)
EXTENDS PointToPoint, TLC

CONSTANTS a, b

GapAB == a :> 1 @@ b :> 0
ModeAB == a :> "PACKETS" @@ b :> "BYTES"
LimitAB == a :> 1 @@ b :> 3
=============================================================================
