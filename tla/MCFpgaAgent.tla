---------------------------- MODULE MCFpgaAgent ----------------------------
(* One board, requests that compete for it and a few event streams.        *)
EXTENDS FpgaAgent, TLC

Symmetry == Permutations(Callers) \cup Permutations(Images)
=============================================================================
