------------------------------ MODULE MCBoard ------------------------------
(* The board manager with two browsers that come and go.                   *)
EXTENDS Board, TLC

Symmetry == Permutations(Users)
=============================================================================
