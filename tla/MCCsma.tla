-------------------------------- MODULE MCCsma --------------------------------
(* Two stations contending for the bus. *)
EXTENDS Csma

CONSTANTS d1, d2
=============================================================================
