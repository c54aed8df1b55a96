----------------------------- MODULE MCTestRunner -----------------------------
(* Two workers, two suites and an example: a worker takes more than one job, *)
(* results come back in another order than they were dispatched.             *)
EXTENDS TestRunner

=============================================================================
