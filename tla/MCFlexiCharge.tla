---------------------------- MODULE MCFlexiCharge ----------------------------
(* FlexiCharge on three thresholds: none, one usable at either end of a    *)
(* window, and the first value refused as a lower limit.                   *)
EXTENDS FlexiCharge

MCSocs == {40, 60, 96}
MCLimits == {0, 40, 96}

(* For the liveness runs the battery stands still and the band does not    *)
(* matter: a save does not depend on the state of charge.                  *)
MCSoc == {60}
MCTwoLimits == {0, 40}
=============================================================================
