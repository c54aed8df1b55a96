----------------------------- MODULE MCVisualizer -----------------------------
(* One sample period, two messages, and timers for two nested view updates. *)
EXTENDS Visualizer

=============================================================================
