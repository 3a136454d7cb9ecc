------------------------------ MODULE Hysteresis ------------------------------
(***************************************************************************)
(* What the FlexiCharge patch promises, free of registers, shadows and     *)
(* commits: a charging session opens at the lower limit and closes at the  *)
(* upper one, and charging is inhibited exactly while no session is open.  *)
(*                                                                         *)
(* "session" stands for EC[07D0].bit7 and "inhibit" for EC[07B9].bit7.     *)
(* "writer" remembers who last wrote one of them, so that a decision of    *)
(* the controller cannot pass for a configuration by the host.             *)
(***************************************************************************)
EXTENDS Naturals

CONSTANTS
  Socs,      (* relative states of charge the gauge may report             *)
  Limits,    (* values of a threshold, 0 meaning "none"                    *)
  LowCap     (* lower limits from this value on are not usable             *)

VARIABLES soc, low, high, session, inhibit, writer

hvars == <<soc, low, high, session, inhibit, writer>>

IsWindow(l, h) == l # 0 /\ h # 0 /\ l < LowCap /\ l < h
IsUpperOnly(l, h) == l = 0 /\ h # 0

-----------------------------------------------------------------------------
HInit ==
  /\ soc \in Socs
  /\ low = 0 /\ high = 0
  /\ session = FALSE
  /\ inhibit \in BOOLEAN
  /\ writer = "reset"

(* One evaluation of the charging policy.                                  *)
DecideWindow ==
  /\ IsWindow(low, high)
  /\ session' = (soc <= low \/ (session /\ soc < high))
  /\ inhibit' = ~session'

(* Without a lower limit only the upper one counts, unless the stock       *)
(* firmware has another reason to permit charging.                         *)
DecideUpperOnly ==
  /\ IsUpperOnly(low, high)
  /\ inhibit' \in {FALSE, soc >= high}
  /\ UNCHANGED session

DecideUnlimited ==
  /\ ~IsWindow(low, high) /\ ~IsUpperOnly(low, high)
  /\ session' = FALSE
  /\ inhibit' = FALSE

Decide ==
  /\ DecideWindow \/ DecideUpperOnly \/ DecideUnlimited
  /\ writer' = "pass"
  /\ UNCHANGED <<soc, low, high>>

Drift == soc' \in Socs /\ UNCHANGED <<low, high, session, inhibit, writer>>

(* The host writes one register, a threshold together with its flag.       *)
ConfigureLow ==
  /\ low' \in Limits /\ session' \in BOOLEAN
  /\ writer' = "host"
  /\ UNCHANGED <<soc, high, inhibit>>

ConfigureHigh ==
  /\ high' \in Limits /\ inhibit' \in BOOLEAN
  /\ writer' = "host"
  /\ UNCHANGED <<soc, low, session>>

(* A restart may bring older thresholds back, never an open session.       *)
Reset ==
  /\ low' \in Limits /\ high' \in Limits
  /\ session' = FALSE
  /\ inhibit' \in BOOLEAN
  /\ writer' = "reset"
  /\ UNCHANGED soc

HNext == Decide \/ Drift \/ ConfigureLow \/ ConfigureHigh \/ Reset

HSpec == HInit /\ [][HNext]_hvars
=============================================================================
