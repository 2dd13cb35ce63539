------------------------------ MODULE MCVideo ------------------------------
(* Two streams and two demos over one capture card.                        *)
EXTENDS Video, TLC

Symmetry == Permutations(Viewers) \cup Permutations(Leases) \cup Permutations(Processes)
=============================================================================
