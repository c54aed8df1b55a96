--------------------------- MODULE MCRealtimeSim ---------------------------
\* RealtimeSim for TLC: its configurations bound the clock and the uids
EXTENDS RealtimeSim
=============================================================================
