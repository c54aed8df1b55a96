---------------------------- MODULE MCSimulator ----------------------------
(* A small instance of Simulator for TLC.                                  *)
EXTENDS Simulator

MCDelays == 0..1
=============================================================================
