--------------------------- MODULE MCFlexiChargeHost ---------------------------
(* Two overlapping windows, 40..60 and 40..80, 60..80, and a gauge that     *)
(* visits every zone of them; one window is enough for the lost disable.   *)
EXTENDS FlexiChargeHost

MCSocs == {40, 50, 80}
MCLimits == {40, 60, 80}
MCOneWindow == {40, 60}
=============================================================================
