---------------------------- MODULE MCTokenRefresh ----------------------------
(* Instances of TokenRefresh for TLC.                                      *)
EXTENDS TokenRefresh, TLC

CONSTANTS c1, c2, a1, a2

TwoCallers == {c1, c2}
OneAdmin == {a1}
TwoAdmins == {a1, a2}
Symmetry == Permutations(Callers) \cup Permutations(Admins)
=============================================================================
