--------------------------- MODULE MCAccountDetails ---------------------------
(* Instances of AccountDetails for TLC.                                    *)
EXTENDS AccountDetails, TLC

CONSTANTS e1, e2, a1, k1, k2, u1, systemone

TwoEditors == {e1, e2}
OneAdmin == {a1}
TwoKeys == {k1, k2}
OneUrl == {u1}
Caps == {systemone}
Symmetry == Permutations(Editors) \cup Permutations(Plain)
=============================================================================
