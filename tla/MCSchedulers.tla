--------------------------- MODULE MCSchedulers ----------------------------
(* Small instances of Schedulers for TLC.                                  *)
EXTENDS Schedulers

MCDelays == {0, 1, 5}
=============================================================================
