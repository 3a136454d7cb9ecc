----------------------- MODULE MCFlexiChargeGenerations -----------------------
(* Two windows that share a threshold, an upper limit alone, the inverted   *)
(* pairs, and the first value refused as a lower limit; charges on and      *)
(* between the thresholds.                                                  *)
EXTENDS FlexiChargeGenerations

MCSocs == {20, 40, 50, 60, 97}
MCLimits == {0, 40, 60, 96, 100}
=============================================================================
