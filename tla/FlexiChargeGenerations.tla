------------------------ MODULE FlexiChargeGenerations ------------------------
(***************************************************************************)
(* FlexiCharge v2 and v2.1 side by side on the same registers: the two     *)
(* policies decide at the same moments, see the same thresholds and the    *)
(* same battery, and differ only in the flags each of them keeps.  Neither *)
(* has the persistent lower limit of v2.2 (module FlexiCharge), so a cold  *)
(* boot loses it.                                                          *)
(*                                                                         *)
(* A register byte is a threshold in its low seven bits and a flag in bit  *)
(* 7:   EC[07D0] = low + phase        EC[07B9] = high + stop               *)
(* The continuation at D741, which copies the upper limit, is the one of   *)
(* module FlexiCharge and is left out.                                     *)
(***************************************************************************)
EXTENDS Naturals

CONSTANTS
  Socs,         (* values RSOC (04AB) takes                                *)
  Limits        (* seven-bit values the threshold registers take           *)

LowCap == 96

ASSUME SocsAssumption == Socs \subseteq Nat
ASSUME LimitsAssumption == Limits \subseteq 0 .. 127 /\ 0 \in Limits

VARIABLES
  soc,          (* RSOC, EC[04AB]                                          *)
  low, high,    (* the two thresholds                                      *)
  v2, v21,      (* the two flags, as each generation would have them       *)
  writer,       (* who last wrote a flag (history)                         *)
  kept          (* v2 carried a session through a disabled pair (history)  *)

vars == <<soc, low, high, v2, v21, writer, kept>>

Flags == [phase : BOOLEAN, stop : BOOLEAN]

Bit7 == 128
Raw(limit, flag) == limit + (IF flag THEN Bit7 ELSE 0)
ThresholdUnmasked(byte) == byte   \* fault: bit 7 is taken for part of the limit
Threshold(byte) == byte % Bit7
Flag(byte) == byte \div Bit7 = 1

-----------------------------------------------------------------------------
(* What both generations share.                                            *)

Window(l, h) == l # 0 /\ l < LowCap /\ h > l
UpperOnly(l, h) == l = 0 /\ h # 0
Disabled(l, h) == ~Window(l, h) /\ ~UpperOnly(l, h)

(* Thresholds come before the old phase; in the middle of the band the     *)
(* phase decides and is kept.                                              *)
AtOrBelowLow == [phase |-> TRUE, stop |-> FALSE]
AtOrAboveHigh == [phase |-> FALSE, stop |-> TRUE]
Middle(f) == [f EXCEPT !.stop = ~f.phase]

WindowDecision(f) ==
  IF soc <= low THEN AtOrBelowLow
  ELSE IF soc >= high THEN AtOrAboveHigh
  ELSE Middle(f)

(* apply_policy answered 0: compare as the stock code did, or clear the    *)
(* stop bit where a stock gate failed.  The phase is not looked at.        *)
StockDecision(f, gatesPass) == [f EXCEPT !.stop = gatesPass /\ soc >= high]

(* D724, among the context bytes the generators insist on: a limit of zero *)
(* does not reach the comparison.                                          *)
GatesMayPass == high # 0

(* v2: whatever is no window is left to the stock decision, flags and all. *)
V2Decision(f, gatesPass) ==
  IF Window(low, high) THEN WindowDecision(f) ELSE StockDecision(f, gatesPass)

(* v2.1: a pair that is neither window nor upper limit clears both flags.  *)
DisabledPair(f) == [phase |-> FALSE, stop |-> FALSE]
V21DecisionLikeV2(f, gatesPass) ==    \* fault: invalid pairs as in v2
  IF Window(low, high) THEN WindowDecision(f) ELSE StockDecision(f, gatesPass)
V21DecisionNoUpper(f, gatesPass) ==   \* fault: invalid_pair does not test the upper limit
  IF Window(low, high) THEN WindowDecision(f) ELSE DisabledPair(f)
V21Decision(f, gatesPass) ==
  IF Window(low, high) THEN WindowDecision(f)
  ELSE IF UpperOnly(low, high) THEN StockDecision(f, gatesPass)
  ELSE DisabledPair(f)

Pass(gatesPass) ==
  /\ gatesPass => GatesMayPass
  /\ v2' = V2Decision(v2, gatesPass)
  /\ v21' = V21Decision(v21, gatesPass)
  /\ writer' = "pass"
  /\ kept' = IF Disabled(low, high) THEN v2.phase
             ELSE kept /\ (Window(low, high) => soc > low /\ soc < high)
  /\ UNCHANGED <<soc, low, high>>

-----------------------------------------------------------------------------
(* The host writes one whole byte: a threshold with a flag of its choice,  *)
(* or with the flag it has just read.                                      *)
WriteLow(byte) ==
  /\ low' = Threshold(byte)
  /\ v2' = [v2 EXCEPT !.phase = Flag(byte)]
  /\ v21' = [v21 EXCEPT !.phase = Flag(byte)]
  /\ kept' = FALSE

WriteHigh(byte) ==
  /\ high' = Threshold(byte)
  /\ v2' = [v2 EXCEPT !.stop = Flag(byte)]
  /\ v21' = [v21 EXCEPT !.stop = Flag(byte)]

HostWrites(limit, flag) ==
  /\ \/ WriteLow(Raw(limit, flag)) /\ UNCHANGED high
     \/ WriteHigh(Raw(limit, flag)) /\ UNCHANGED <<low, kept>>
  /\ writer' = "host"
  /\ UNCHANGED soc

HostKeepsFlag(limit) ==
  /\ \/ low' = Threshold(Raw(limit, v21.phase)) /\ UNCHANGED high
     \/ high' = Threshold(Raw(limit, v21.stop)) /\ UNCHANGED low
  /\ writer' = "host"
  /\ UNCHANGED <<soc, v2, v21, kept>>

(* XRAM is lost; the stock restore brings an upper limit back, and leaves  *)
(* bit 7 of 07B9 as it finds it.                                           *)
ColdBoot ==
  /\ low' = 0
  /\ high' \in Limits
  /\ \E s \in BOOLEAN : /\ v2' = [phase |-> FALSE, stop |-> s]
                        /\ v21' = [phase |-> FALSE, stop |-> s]
  /\ writer' = "reset"
  /\ kept' = FALSE
  /\ UNCHANGED soc

SocMoves ==
  /\ soc' \in Socs \ {soc}
  /\ UNCHANGED <<low, high, v2, v21, writer, kept>>

-----------------------------------------------------------------------------
Init ==
  /\ soc \in Socs
  /\ low = 0 /\ high = 0
  /\ v2 = [phase |-> FALSE, stop |-> FALSE]
  /\ v21 = [phase |-> FALSE, stop |-> FALSE]
  /\ writer = "reset"
  /\ kept = FALSE

Next ==
  \/ \E gatesPass \in BOOLEAN : Pass(gatesPass)
  \/ \E limit \in Limits, flag \in BOOLEAN : HostWrites(limit, flag)
  \/ \E limit \in Limits : HostKeepsFlag(limit)
  \/ ColdBoot
  \/ SocMoves

Spec == Init /\ [][Next]_vars

-----------------------------------------------------------------------------
(* Properties.                                                             *)

TypeOK ==
  /\ soc \in Socs
  /\ low \in Limits /\ high \in Limits
  /\ v2 \in Flags /\ v21 \in Flags
  /\ writer \in {"pass", "host", "reset"}
  /\ kept \in BOOLEAN

(* Where the two generations part: only by a session v2 carried through a  *)
(* pair v2.1 calls disabled, and never the other way round.  Without one   *)
(* they agree on every window and every upper limit a pass has seen.       *)
DifferOnlyByKeptSession ==
  /\ v2.phase # v21.phase => kept /\ v2.phase
  /\ writer = "pass" /\ ~kept /\ ~Disabled(low, high) => v2.stop = v21.stop

(* v2.1 already implements the hysteresis that v2.2 implements; v2 does    *)
(* not, because of the sessions it keeps and the limits it obeys on a pair *)
(* that is no window.                                                      *)
H == INSTANCE Hysteresis WITH session <- v21.phase, inhibit <- v21.stop
V21ImplementsHysteresis == H!HSpec
=============================================================================
