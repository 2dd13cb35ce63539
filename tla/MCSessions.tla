----------------------------- MODULE MCSessions -----------------------------
(* SessionManager with three users, and clock ticks before, at and after   *)
(* the end of the contended window.                                        *)
EXTENDS Sessions, TLC

Symmetry == Permutations(Users)
=============================================================================
