--------------------- MODULE FlexiChargeGenerationsProofs ---------------------
(***************************************************************************)
(* Theorems about FlexiCharge v2 and v2.1 for every set of thresholds and  *)
(* every gauge: their types, the one way they part, and the hysteresis     *)
(* v2.1 implements.                                                        *)
(***************************************************************************)
EXTENDS FlexiChargeGenerations, TLAPS

USE SocsAssumption, LimitsAssumption

(* A byte gives back the threshold and the flag it was made of.            *)
LEMMA RawRoundTrip ==
  ASSUME NEW limit \in Limits, NEW flag \in BOOLEAN
  PROVE  Threshold(Raw(limit, flag)) = limit /\ Flag(Raw(limit, flag)) = flag
<1>1. limit \in 0 .. 127
  OBVIOUS
<1>2. CASE flag = TRUE
  <2>1. Raw(limit, flag) = limit + 128
    BY <1>2 DEF Raw, Bit7
  <2>2. (limit + 128) % 128 = limit /\ (limit + 128) \div 128 = 1
    BY <1>1
  <2> QED
    BY <1>2, <2>1, <2>2 DEF Threshold, Flag, Bit7
<1>3. CASE flag = FALSE
  <2>1. Raw(limit, flag) = limit
    BY <1>1, <1>3 DEF Raw
  <2>2. limit % 128 = limit /\ limit \div 128 = 0
    BY <1>1
  <2> QED
    BY <1>3, <2>1, <2>2 DEF Threshold, Flag, Bit7
<1> QED
  BY <1>2, <1>3

(* The flags a reset leaves.                                               *)
LEMMA ClearedFlags ==
  ASSUME NEW s \in BOOLEAN
  PROVE  [phase |-> FALSE, stop |-> s] \in Flags
BY DEF Flags

(* In a window both generations decide by the thresholds first and by the  *)
(* old phase between them.                                                 *)
LEMMA WindowDecides ==
  ASSUME TypeOK, NEW f \in Flags
  PROVE  /\ WindowDecision(f) \in Flags
         /\ WindowDecision(f).phase <=> (soc <= low \/ (f.phase /\ soc < high))
         /\ WindowDecision(f).stop <=> ~WindowDecision(f).phase
<1>1. soc \in Nat /\ low \in Nat /\ high \in Nat
  BY DEF TypeOK
<1>2. f.phase \in BOOLEAN
  BY DEF Flags
<1>3. CASE soc <= low
  <2>1. WindowDecision(f) = [phase |-> TRUE, stop |-> FALSE]
    BY <1>3 DEF WindowDecision, AtOrBelowLow
  <2> QED
    BY <1>3, <2>1 DEF Flags
<1>4. CASE ~(soc <= low) /\ soc >= high
  <2>1. WindowDecision(f) = [phase |-> FALSE, stop |-> TRUE]
    BY <1>4 DEF WindowDecision, AtOrAboveHigh
  <2> QED
    BY <1>1, <1>4, <2>1 DEF Flags
<1>5. CASE ~(soc <= low) /\ ~(soc >= high)
  <2>1. WindowDecision(f) = [phase |-> f.phase, stop |-> ~f.phase]
    BY <1>5 DEF WindowDecision, Middle, Flags
  <2>2. [phase |-> f.phase, stop |-> ~f.phase] \in Flags
    BY <1>2 DEF Flags
  <2>3. soc < high
    BY <1>1, <1>5
  <2>4. WindowDecision(f).phase = f.phase /\ WindowDecision(f).stop = ~f.phase
    BY <2>1
  <2>5. WindowDecision(f).phase <=> (soc <= low \/ (f.phase /\ soc < high))
    BY <1>5, <2>3, <2>4, Zenon
  <2>6. WindowDecision(f).stop <=> ~WindowDecision(f).phase
    BY <2>4, Zenon
  <2> QED
    BY <2>1, <2>2, <2>5, <2>6
<1> QED
  BY <1>3, <1>4, <1>5

(* The stock comparison leaves the phase alone.                            *)
LEMMA StockDecides ==
  ASSUME TypeOK, NEW f \in Flags, NEW gatesPass \in BOOLEAN
  PROVE  /\ StockDecision(f, gatesPass) \in Flags
         /\ StockDecision(f, gatesPass).phase = f.phase
         /\ StockDecision(f, gatesPass).stop = (gatesPass /\ soc >= high)
<1>1. StockDecision(f, gatesPass) = [phase |-> f.phase, stop |-> (gatesPass /\ soc >= high)]
  BY DEF StockDecision, Flags
<1> QED
  BY <1>1 DEF Flags

LEMMA ThreeKinds ==
  /\ Window(low, high) => ~UpperOnly(low, high)
  /\ Disabled(low, high) <=> ~Window(low, high) /\ ~UpperOnly(low, high)
BY DEF Window, UpperOnly, Disabled

(* What a pass makes of the flags of v2 and of v2.1.                       *)
LEMMA PassTypes ==
  ASSUME TypeOK, NEW gatesPass \in BOOLEAN, Pass(gatesPass)
  PROVE  v2' \in Flags /\ v21' \in Flags
<1>1. v2 \in Flags /\ v21 \in Flags
  BY DEF TypeOK
<1>2. V2Decision(v2, gatesPass) \in Flags
  BY <1>1, WindowDecides, StockDecides DEF V2Decision
<1>3. DisabledPair(v21) \in Flags
  BY DEF DisabledPair, Flags
<1>4. V21Decision(v21, gatesPass) \in Flags
  BY <1>1, <1>3, WindowDecides, StockDecides DEF V21Decision
<1> QED
  BY <1>2, <1>4 DEF Pass

LEMMA TypeStep == TypeOK /\ [Next]_vars => TypeOK'
<1> SUFFICES ASSUME TypeOK, [Next]_vars PROVE TypeOK'
  OBVIOUS
<1>1. ASSUME NEW gatesPass \in BOOLEAN, Pass(gatesPass) PROVE TypeOK'
  <2>1. v2' \in Flags /\ v21' \in Flags
    BY <1>1, PassTypes
  <2>2. v2.phase \in BOOLEAN
    BY DEF TypeOK, Flags
  <2>3. kept' \in BOOLEAN
    BY <1>1, <2>2 DEF Pass, TypeOK
  <2> QED
    BY <1>1, <2>1, <2>3 DEF Pass, TypeOK
<1>2. ASSUME NEW limit \in Limits, NEW flag \in BOOLEAN, HostWrites(limit, flag) PROVE TypeOK'
  <2>1. Threshold(Raw(limit, flag)) \in Limits /\ Flag(Raw(limit, flag)) \in BOOLEAN
    BY RawRoundTrip
  <2>2. ASSUME WriteLow(Raw(limit, flag)), UNCHANGED high PROVE TypeOK'
    BY <1>2, <2>1, <2>2 DEF WriteLow, HostWrites, TypeOK, Flags
  <2>3. ASSUME WriteHigh(Raw(limit, flag)), UNCHANGED <<low, kept>> PROVE TypeOK'
    BY <1>2, <2>1, <2>3 DEF WriteHigh, HostWrites, TypeOK, Flags
  <2> QED
    BY <1>2, <2>2, <2>3 DEF HostWrites
<1>3. ASSUME NEW limit \in Limits, HostKeepsFlag(limit) PROVE TypeOK'
  <2>1. v21.phase \in BOOLEAN /\ v21.stop \in BOOLEAN
    BY DEF TypeOK, Flags
  <2>2. Threshold(Raw(limit, v21.phase)) = limit /\ Threshold(Raw(limit, v21.stop)) = limit
    BY <2>1, RawRoundTrip
  <2> QED
    BY <1>3, <2>2 DEF HostKeepsFlag, TypeOK
<1>4. CASE ColdBoot
  <2>1. v2' \in Flags /\ v21' \in Flags
    BY <1>4, ClearedFlags DEF ColdBoot
  <2> QED
    BY <1>4, <2>1 DEF ColdBoot, TypeOK
<1>5. CASE SocMoves
  BY <1>5 DEF SocMoves, TypeOK
<1>6. CASE UNCHANGED vars
  BY <1>6 DEF vars, TypeOK
<1> QED
  BY <1>1, <1>2, <1>3, <1>4, <1>5, <1>6 DEF Next

LEMMA InitType == Init => TypeOK
<1>1. [phase |-> FALSE, stop |-> FALSE] \in Flags
  BY ClearedFlags
<1> QED
  BY <1>1 DEF Init, TypeOK

(* Registers and flags stay in their types: the mask of bit 7 keeps the    *)
(* flag of one byte out of the threshold of the next.                      *)
THEOREM GenerationsTypeCorrect == Spec => []TypeOK
BY InitType, TypeStep, PTL DEF Spec

-----------------------------------------------------------------------------
(* How the generations part.                                               *)
LEMMA PassDiffers ==
  ASSUME TypeOK, DifferOnlyByKeptSession, NEW gatesPass \in BOOLEAN, Pass(gatesPass)
  PROVE  DifferOnlyByKeptSession'
<1>1. v2 \in Flags /\ v21 \in Flags
  BY DEF TypeOK
<1>2. /\ v2' = V2Decision(v2, gatesPass)
      /\ v21' = V21Decision(v21, gatesPass)
      /\ UNCHANGED <<soc, low, high>>
  BY DEF Pass
<1>3. CASE Window(low, high)
  <2>1. v2' = WindowDecision(v2) /\ v21' = WindowDecision(v21)
    BY <1>2, <1>3 DEF V2Decision, V21Decision
  <2>2. kept' = (kept /\ soc > low /\ soc < high)
    BY <1>3, ThreeKinds DEF Pass, TypeOK
  <2>3. /\ v2'.phase <=> (soc <= low \/ (v2.phase /\ soc < high))
        /\ v2'.stop <=> ~v2'.phase
        /\ v21'.phase <=> (soc <= low \/ (v21.phase /\ soc < high))
        /\ v21'.stop <=> ~v21'.phase
    BY <1>1, <2>1, WindowDecides
  <2>4. v2' \in Flags /\ v21' \in Flags
    BY PassTypes
  <2>5. soc \in Nat /\ low \in Nat /\ high \in Nat
    BY DEF TypeOK
  <2>6. v2'.phase \in BOOLEAN /\ v2'.stop \in BOOLEAN /\ v21'.phase \in BOOLEAN /\ v21'.stop \in BOOLEAN
    BY <2>4 DEF Flags
  <2>7. v2.phase \in BOOLEAN /\ v21.phase \in BOOLEAN
    BY <1>1 DEF Flags
  <2>8. (v2'.phase # v21'.phase) => kept' /\ v2'.phase
    BY <2>2, <2>3, <2>5, <2>6, <2>7 DEF DifferOnlyByKeptSession
  <2>9. ~kept' => v2'.stop = v21'.stop
    BY <2>3, <2>6, <2>8
  <2> QED
    BY <2>8, <2>9 DEF DifferOnlyByKeptSession
<1>4. CASE UpperOnly(low, high)
  <2>1. ~Window(low, high)
    BY <1>4, ThreeKinds
  <2>2. v2' = StockDecision(v2, gatesPass) /\ v21' = StockDecision(v21, gatesPass)
    BY <1>2, <1>4, <2>1 DEF V2Decision, V21Decision
  <2>3. /\ v2'.phase = v2.phase /\ v21'.phase = v21.phase
        /\ v2'.stop = v21'.stop
    BY <1>1, <2>2, StockDecides
  <2>4. kept' = kept
    BY <1>4, <2>1, ThreeKinds DEF Pass, TypeOK
  <2> QED
    BY <2>3, <2>4 DEF DifferOnlyByKeptSession
<1>5. CASE Disabled(low, high)
  <2>1. ~Window(low, high) /\ ~UpperOnly(low, high)
    BY <1>5 DEF Disabled
  <2>2. v2' = StockDecision(v2, gatesPass) /\ v21' = DisabledPair(v21)
    BY <1>2, <2>1 DEF V2Decision, V21Decision
  <2>3. v2'.phase = v2.phase /\ v21'.phase = FALSE
    BY <1>1, <2>2, StockDecides DEF DisabledPair
  <2>4. kept' = v2.phase /\ v2.phase \in BOOLEAN
    BY <1>1, <1>5 DEF Pass, Flags
  <2>5. Disabled(low', high')
    BY <1>2, <1>5
  <2> QED
    BY <2>3, <2>4, <2>5 DEF DifferOnlyByKeptSession
<1> QED
  BY <1>3, <1>4, <1>5 DEF Disabled

LEMMA DifferStep == TypeOK /\ DifferOnlyByKeptSession /\ [Next]_vars => DifferOnlyByKeptSession'
<1> SUFFICES ASSUME TypeOK, DifferOnlyByKeptSession, [Next]_vars
             PROVE  DifferOnlyByKeptSession'
  OBVIOUS
<1>1. ASSUME NEW gatesPass \in BOOLEAN, Pass(gatesPass) PROVE DifferOnlyByKeptSession'
  BY <1>1, PassDiffers
<1>2. ASSUME NEW limit \in Limits, NEW flag \in BOOLEAN, HostWrites(limit, flag)
      PROVE  DifferOnlyByKeptSession'
  <2>1. writer' = "host"
    BY <1>2 DEF HostWrites
  <2>2. ASSUME WriteLow(Raw(limit, flag)) PROVE v2'.phase = v21'.phase
    BY <2>2 DEF WriteLow, TypeOK, Flags
  <2>3. ASSUME WriteHigh(Raw(limit, flag)), UNCHANGED <<low, kept>>
        PROVE  v2'.phase = v2.phase /\ v21'.phase = v21.phase /\ kept' = kept
    BY <2>3 DEF WriteHigh, TypeOK, Flags
  <2> QED
    BY <1>2, <2>1, <2>2, <2>3 DEF HostWrites, DifferOnlyByKeptSession
<1>3. ASSUME NEW limit \in Limits, HostKeepsFlag(limit) PROVE DifferOnlyByKeptSession'
  BY <1>3 DEF HostKeepsFlag, DifferOnlyByKeptSession
<1>4. CASE ColdBoot
  BY <1>4 DEF ColdBoot, DifferOnlyByKeptSession
<1>5. CASE SocMoves
  BY <1>5 DEF SocMoves, DifferOnlyByKeptSession, Disabled, Window, UpperOnly
<1>6. CASE UNCHANGED vars
  BY <1>6 DEF vars, DifferOnlyByKeptSession, Disabled, Window, UpperOnly
<1> QED
  BY <1>1, <1>2, <1>3, <1>4, <1>5, <1>6 DEF Next

(* v2 and v2.1 decide alike for every window and every upper limit, unless *)
(* v2 carries a session that was opened before a disabled pair.            *)
THEOREM PartOnlyByKeptSession == Spec => []DifferOnlyByKeptSession
<1>1. Init => DifferOnlyByKeptSession
  BY DEF Init, DifferOnlyByKeptSession
<1> QED
  BY <1>1, GenerationsTypeCorrect, DifferStep, PTL DEF Spec

-----------------------------------------------------------------------------
(* v2.1 implements the abstract hysteresis.                                *)

LEMMA InitRefines == Init => H!HInit
BY DEF Init, H!HInit

LEMMA PassRefines ==
  ASSUME TypeOK, NEW gatesPass \in BOOLEAN, Pass(gatesPass)
  PROVE  H!Decide
<1>1. UNCHANGED <<soc, low, high>> /\ writer' = "pass" /\ v21' = V21Decision(v21, gatesPass)
  BY DEF Pass
<1>2. low \in Nat /\ high \in Nat
  BY DEF TypeOK
<1>3. /\ Window(low, high) <=> H!IsWindow(low, high)
      /\ UpperOnly(low, high) <=> H!IsUpperOnly(low, high)
  BY <1>2 DEF Window, UpperOnly, LowCap, H!IsWindow, H!IsUpperOnly
<1>4. v21 \in Flags /\ v21' \in Flags
  BY PassTypes DEF TypeOK
<1>5. v21.phase \in BOOLEAN /\ v21'.phase \in BOOLEAN /\ v21'.stop \in BOOLEAN
  BY <1>4 DEF Flags
<1>6. CASE Window(low, high)
  <2>1. v21' = WindowDecision(v21)
    BY <1>1, <1>6 DEF V21Decision
  <2>2. /\ v21'.phase <=> (soc <= low \/ (v21.phase /\ soc < high))
        /\ v21'.stop <=> ~v21'.phase
    BY <1>4, <2>1, WindowDecides
  <2>3. v21'.phase = (soc <= low \/ (v21.phase /\ soc < high))
    BY <2>2, <1>5
  <2>4. v21'.stop = ~v21'.phase
    BY <2>2, <1>5
  <2> QED
    BY <1>1, <1>3, <1>6, <2>3, <2>4 DEF H!Decide, H!DecideWindow
<1>7. CASE UpperOnly(low, high)
  <2>1. v21' = StockDecision(v21, gatesPass)
    BY <1>1, <1>7, ThreeKinds DEF V21Decision
  <2>2. v21'.phase = v21.phase /\ v21'.stop = (gatesPass /\ soc >= high)
    BY <1>4, <2>1, StockDecides
  <2>3. v21'.stop \in {FALSE, soc >= high}
    BY <2>2
  <2> QED
    BY <1>1, <1>3, <1>7, <2>2, <2>3 DEF H!Decide, H!DecideUpperOnly
<1>8. CASE Disabled(low, high)
  <2>1. v21' = DisabledPair(v21)
    BY <1>1, <1>8 DEF Disabled, V21Decision
  <2>2. v21'.phase = FALSE /\ v21'.stop = FALSE
    BY <2>1 DEF DisabledPair
  <2> QED
    BY <1>1, <1>3, <1>8, <2>2, ThreeKinds DEF H!Decide, H!DecideUnlimited
<1> QED
  BY <1>6, <1>7, <1>8 DEF Disabled

LEMMA HostRefines ==
  ASSUME TypeOK, TypeOK', NEW limit \in Limits, NEW flag \in BOOLEAN, HostWrites(limit, flag)
  PROVE  H!ConfigureLow \/ H!ConfigureHigh
<1>1. v21'.phase \in BOOLEAN /\ v21'.stop \in BOOLEAN /\ low' \in Limits /\ high' \in Limits
  BY DEF TypeOK, Flags
<1>2. writer' = "host" /\ UNCHANGED soc
  BY DEF HostWrites
<1>3. ASSUME WriteLow(Raw(limit, flag)), UNCHANGED high PROVE H!ConfigureLow
  <2>1. v21'.stop = v21.stop
    BY <1>3 DEF WriteLow, TypeOK, Flags
  <2> QED
    BY <1>1, <1>2, <1>3, <2>1 DEF H!ConfigureLow
<1>4. ASSUME WriteHigh(Raw(limit, flag)), UNCHANGED <<low, kept>> PROVE H!ConfigureHigh
  <2>1. v21'.phase = v21.phase
    BY <1>4 DEF WriteHigh, TypeOK, Flags
  <2> QED
    BY <1>1, <1>2, <1>4, <2>1 DEF H!ConfigureHigh
<1> QED
  BY <1>3, <1>4 DEF HostWrites

LEMMA StepRefines == TypeOK /\ TypeOK' /\ [Next]_vars => [H!HNext]_(H!hvars)
<1> SUFFICES ASSUME TypeOK, TypeOK', [Next]_vars PROVE [H!HNext]_(H!hvars)
  OBVIOUS
<1>1. ASSUME NEW gatesPass \in BOOLEAN, Pass(gatesPass) PROVE H!HNext
  BY <1>1, PassRefines DEF H!HNext
<1>2. ASSUME NEW limit \in Limits, NEW flag \in BOOLEAN, HostWrites(limit, flag) PROVE H!HNext
  BY <1>2, HostRefines DEF H!HNext
<1>3. ASSUME NEW limit \in Limits, HostKeepsFlag(limit) PROVE H!HNext
  <2>1. /\ low' \in Limits /\ high' \in Limits
        /\ v21.phase \in BOOLEAN /\ v21.stop \in BOOLEAN
    BY DEF TypeOK, Flags
  <2>2. UNCHANGED <<soc, v21>> /\ writer' = "host" /\ (UNCHANGED high \/ UNCHANGED low)
    BY <1>3 DEF HostKeepsFlag
  <2>3. CASE UNCHANGED high
    BY <2>1, <2>2, <2>3 DEF H!HNext, H!ConfigureLow
  <2>4. CASE UNCHANGED low
    BY <2>1, <2>2, <2>4 DEF H!HNext, H!ConfigureHigh
  <2> QED
    BY <2>2, <2>3, <2>4
<1>4. CASE ColdBoot
  <2>1. v21'.phase = FALSE /\ v21'.stop \in BOOLEAN
    BY <1>4 DEF ColdBoot
  <2>2. H!Reset
    BY <1>4, <2>1 DEF ColdBoot, H!Reset, TypeOK
  <2> QED
    BY <2>2 DEF H!HNext
<1>5. CASE SocMoves
  <2>1. H!Drift
    BY <1>5 DEF SocMoves, H!Drift
  <2> QED
    BY <2>1 DEF H!HNext
<1>6. CASE UNCHANGED vars
  BY <1>6 DEF vars, H!hvars
<1> QED
  BY <1>1, <1>2, <1>3, <1>4, <1>5, <1>6 DEF Next

(* FlexiCharge v2.1 implements the abstract hysteresis: a session opens at *)
(* the lower limit, closes at the upper one, and is forgotten by a         *)
(* disabled pair.                                                          *)
THEOREM V21Refinement == Spec => V21ImplementsHysteresis
BY GenerationsTypeCorrect, InitRefines, StepRefines, PTL
   DEF Spec, V21ImplementsHysteresis, H!HSpec
=============================================================================
