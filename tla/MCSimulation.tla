---------------------------- MODULE MCSimulation ----------------------------
(* The n-body demo on a line that loses bursts of bytes, with short dumps. *)
EXTENDS Simulation
=============================================================================
