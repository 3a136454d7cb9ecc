-------------------------- MODULE FlexiChargeProofs --------------------------
(***************************************************************************)
(* Theorems about FlexiCharge for every set of thresholds, every gauge and *)
(* any number of power losses: the safety invariants the runs check, the   *)
(* edges of the hysteresis band, and the implementation of Hysteresis.     *)
(***************************************************************************)
EXTENDS FlexiCharge, TLAPS

(* What the invariants lean on: DC2A collects the handshake only after it  *)
(* was marked as consumed, and the mirror differs from its stored copy     *)
(* only with a countdown running or on the restore default.                *)
HandshakeConsumed ==
  /\ loop = "commit" => request = "consumed"
  /\ block.request # "commit"

MirrorDue ==
  /\ mirror # nvHigh => highDue \/ mirror = Fallback
  /\ writer = "pass" => mirror = high

MirrorStorable == highDue => mirror \in Limits

IInv ==
  /\ TypeOK
  /\ MirrorStorable
  /\ CommitPending
  /\ HandshakeConsumed
  /\ MirrorDue
  /\ PolicySettled
  /\ QuietBoot

USE SocsAssumption, LimitsAssumption, NoRecordAssumption, MaxResetsAssumption

(* The ways a step leaves or changes the register pair.                    *)
LEMMA PassCases ==
  ASSUME TypeOK, NEW gatesPass \in BOOLEAN, PolicyPass(gatesPass)
  PROVE  /\ phase' \in BOOLEAN /\ stop' \in BOOLEAN
         /\ ValidPair(low, high) =>
              /\ phase' <=> (soc <= low \/ (phase /\ soc < high))
              /\ stop' <=> ~phase'
         /\ UpperOnly(low, high) =>
              /\ phase' <=> phase
              /\ stop' => soc >= high
         /\ ~ValidPair(low, high) /\ ~UpperOnly(low, high) => ~phase' /\ ~stop'
<1>1. low \in Nat /\ high \in Nat /\ soc \in Nat
  BY DEF TypeOK
<1>2. CASE AtOrBelowLow
  BY <1>1, <1>2 DEF AtOrBelowLow, ValidPair, UpperOnly
<1>3. CASE AtOrAboveHigh
  <2>1. ~(soc <= low) /\ ~(soc < high)
    BY <1>1, <1>3 DEF AtOrAboveHigh
  <2>2. ValidPair(low, high) /\ ~UpperOnly(low, high)
    BY <1>3 DEF AtOrAboveHigh, ValidPair, UpperOnly
  <2> QED
    BY <2>1, <2>2, <1>3 DEF AtOrAboveHigh
<1>4. CASE Middle
  <2>1. ~(soc <= low) /\ soc < high
    BY <1>1, <1>4 DEF Middle
  <2>2. ValidPair(low, high) /\ ~UpperOnly(low, high)
    BY <1>4 DEF Middle, ValidPair, UpperOnly
  <2> QED
    BY <2>1, <2>2, <1>4 DEF Middle, TypeOK
<1>5. CASE DisabledPair
  BY <1>5 DEF DisabledPair
<1>6. CASE StockDecision(gatesPass)
  BY <1>1, <1>6 DEF StockDecision, ValidPair, UpperOnly, TypeOK
<1> QED
  BY <1>2, <1>3, <1>4, <1>5, <1>6 DEF PolicyPass

-----------------------------------------------------------------------------
LEMMA InitIInv == Init => IInv
<1> SUFFICES ASSUME Init PROVE IInv
  OBVIOUS
<1>1. TypeOK
  <2>1. block \in Block /\ pending \in Pendings
    BY DEF Init, EmptyBlock, Block, Requests, Pendings
  <2> QED
    BY <2>1 DEF Init, TypeOK, Requests
<1>2. HandshakeConsumed /\ CommitPending
  BY DEF Init, HandshakeConsumed, CommitPending, EmptyBlock
<1>3. MirrorDue /\ MirrorStorable /\ PolicySettled /\ QuietBoot
  BY DEF Init, MirrorDue, MirrorStorable, PolicySettled, QuietBoot
<1> QED
  BY <1>1, <1>2, <1>3 DEF IInv

LEMMA PendingWrite ==
  ASSUME NEW h \in Limits, NEW s \in BOOLEAN
  PROVE  HighWrite(h, s) \in Pendings
<1>1. \E k \in Limits, t \in BOOLEAN : HighWrite(h, s) = HighWrite(k, t)
  OBVIOUS
<1> QED
  BY <1>1 DEF Pendings

(* What the registers of the save machinery may be does not depend on the  *)
(* policy, so the step lemma takes the types first.                        *)
LEMMA TypeStep == TypeOK /\ MirrorStorable /\ [Next]_vars => TypeOK'
<1> SUFFICES ASSUME TypeOK, MirrorStorable, [Next]_vars PROVE TypeOK'
  OBVIOUS
<1> USE DEF TypeOK
<1>1. ASSUME NEW gatesPass \in BOOLEAN, PolicyPass(gatesPass) PROVE TypeOK'
  <2>1. phase' \in BOOLEAN /\ stop' \in BOOLEAN
    BY <1>1, PassCases
  <2>2. shadow' \in Limits \cup {NoRecord} /\ request' \in Requests
    BY <1>1 DEF PolicyPass, UpdateShadow, Requests
  <2>3. mirror' \in Limits \cup {Fallback} /\ highDue' \in BOOLEAN
    BY <1>1 DEF PolicyPass, Continuation
  <2> QED
    BY <1>1, <2>1, <2>2, <2>3 DEF PolicyPass, nvVars
<1>2. CASE AcceptCommit
  BY <1>2 DEF AcceptCommit, policyVars, nvVars, Requests
<1>3. CASE CommitBlock
  BY <1>3 DEF CommitBlock, policyVars, saveVars, Block
<1>4. CASE CommitHigh
  BY <1>4 DEF CommitHigh, policyVars, MirrorStorable
<1>5. CASE ColdBoot
  <2>1. block' \in Block
    BY <1>5 DEF ColdBoot, EmptyBlock, Block, Requests
  <2>2. shadow' \in Limits \cup {NoRecord} /\ request' \in Requests
    BY <1>5, <2>1 DEF ColdBoot, Block
  <2>3. low' \in Limits /\ phase' \in BOOLEAN
    BY <1>5, <2>1 DEF ColdBoot, Block, RestoreLow, RestorePhase
  <2>4. /\ high' \in Limits /\ stop' \in BOOLEAN
        /\ mirror' \in Limits \cup {Fallback} /\ nvHigh' \in Limits \cup {NoRecord}
    <3>1. CASE high' = 0 /\ mirror' = Fallback /\ stop' = FALSE
      BY <1>5, <3>1 DEF ColdBoot
    <3>2. CASE nvHigh # NoRecord /\ high' = nvHigh /\ mirror' = nvHigh /\ stop' \in BOOLEAN
      BY <1>5, <3>2 DEF ColdBoot
    <3> QED
      BY <1>5, <3>1, <3>2 DEF ColdBoot, RestoreHigh
  <2>5. pending' \in Pendings /\ resets' \in Nat
    BY <1>5 DEF ColdBoot, Pendings
  <2> QED
    BY <1>5, <2>1, <2>2, <2>3, <2>4, <2>5 DEF ColdBoot
<1>6. CASE Host
  <2> USE DEF saveVars, nvVars
  <2>1. ASSUME NEW l \in Limits, NEW h \in Limits, NEW resume \in BOOLEAN, HostSet(l, h, resume)
        PROVE  TypeOK'
    <3> DEFINE active == ChooseCycleActive(l, h, resume)
    <3>1. active \in BOOLEAN
      BY DEF ChooseCycleActive
    <3>2. phase' = active /\ pending' = HighWrite(h, ~active)
      BY <2>1 DEF HostSet
    <3> HIDE DEF active
    <3>3. pending' \in Pendings /\ phase' \in BOOLEAN
      BY <3>1, <3>2, PendingWrite
    <3> QED
      BY <2>1, <3>3 DEF HostSet
  <2>2. CASE HostDisable
    <3>1. pending' \in Pendings
      BY <2>2, PendingWrite DEF HostDisable
    <3> QED
      BY <2>2, <3>1 DEF HostDisable
  <2>3. CASE HostFinish
    <3>1. PICK h \in Limits, s \in BOOLEAN : pending = HighWrite(h, s)
      BY <2>3 DEF HostFinish, Pendings
    <3>2. high' = h /\ stop' = s
      BY <2>3, <3>1 DEF HostFinish, HighWrite
    <3> QED
      BY <2>3, <3>2 DEF HostFinish, Pendings
  <2>4. CASE HostKilled
    BY <2>4 DEF HostKilled, policyVars, Pendings
  <2>5. ASSUME NEW l \in Limits, VendorWriteLow(l) PROVE TypeOK'
    BY <2>5 DEF VendorWriteLow
  <2>6. ASSUME NEW h \in Limits, VendorWriteHigh(h) PROVE TypeOK'
    BY <2>6 DEF VendorWriteHigh
  <2> QED
    BY <1>6, <2>1, <2>2, <2>3, <2>4, <2>5, <2>6 DEF Host
<1>7. CASE SocMoves
  BY <1>7 DEF SocMoves, policyVars, saveVars, nvVars
<1>8. CASE UNCHANGED vars
  BY <1>8 DEF vars, policyVars, saveVars, nvVars
<1> QED
  BY <1>1, <1>2, <1>3, <1>4, <1>5, <1>6, <1>7, <1>8 DEF Next, Firmware

(* The host reaches the threshold registers and nothing else.              *)
LEMMA HostFrame ==
  ASSUME Host
  PROVE  /\ UNCHANGED <<saveVars, nvVars, loop>>
         /\ writer' = "host" \/ UNCHANGED <<policyVars, writer>>
<1>1. CASE \E l, h \in Limits, resume \in BOOLEAN : HostSet(l, h, resume)
  BY <1>1 DEF HostSet
<1>2. CASE HostDisable
  BY <1>2 DEF HostDisable
<1>3. CASE HostFinish
  BY <1>3 DEF HostFinish
<1>4. CASE HostKilled
  BY <1>4 DEF HostKilled
<1>5. CASE \E l \in Limits : VendorWriteLow(l)
  BY <1>5 DEF VendorWriteLow
<1>6. CASE \E h \in Limits : VendorWriteHigh(h)
  BY <1>6 DEF VendorWriteHigh
<1> QED
  BY <1>1, <1>2, <1>3, <1>4, <1>5, <1>6 DEF Host

(* Each part of the invariant, action by action.                           *)
LEMMA SaveStep ==
  TypeOK /\ HandshakeConsumed /\ CommitPending /\ [Next]_vars
    => HandshakeConsumed' /\ CommitPending'
<1> SUFFICES ASSUME TypeOK, HandshakeConsumed, CommitPending, [Next]_vars
             PROVE  HandshakeConsumed' /\ CommitPending'
  OBVIOUS
<1> USE DEF HandshakeConsumed, CommitPending
<1>1. ASSUME NEW gatesPass \in BOOLEAN, PolicyPass(gatesPass)
      PROVE  HandshakeConsumed' /\ CommitPending'
  BY <1>1 DEF PolicyPass, UpdateShadow, nvVars
<1>2. CASE AcceptCommit
  BY <1>2 DEF AcceptCommit, nvVars
<1>3. CASE CommitBlock
  BY <1>3 DEF CommitBlock, saveVars
<1>4. CASE CommitHigh
  BY <1>4 DEF CommitHigh
<1>5. CASE ColdBoot
  <2>1. block'.request # "commit"
    BY <1>5 DEF ColdBoot, EmptyBlock
  <2> QED
    BY <1>5, <2>1 DEF ColdBoot
<1>6. CASE Host
  BY <1>6, HostFrame DEF saveVars, nvVars
<1>7. CASE SocMoves \/ UNCHANGED vars
  BY <1>7 DEF SocMoves, vars, saveVars, nvVars
<1> QED
  BY <1>1, <1>2, <1>3, <1>4, <1>5, <1>6, <1>7 DEF Next, Firmware

LEMMA MirrorStep ==
  TypeOK /\ MirrorDue /\ MirrorStorable /\ [Next]_vars => MirrorDue' /\ MirrorStorable'
<1> SUFFICES ASSUME TypeOK, MirrorDue, MirrorStorable, [Next]_vars
             PROVE  MirrorDue' /\ MirrorStorable'
  OBVIOUS
<1> USE DEF MirrorDue, MirrorStorable
<1>1. ASSUME NEW gatesPass \in BOOLEAN, PolicyPass(gatesPass) PROVE MirrorDue' /\ MirrorStorable'
  BY <1>1 DEF PolicyPass, Continuation, nvVars, TypeOK
<1>2. CASE AcceptCommit
  BY <1>2 DEF AcceptCommit, nvVars, policyVars
<1>3. CASE CommitBlock
  BY <1>3 DEF CommitBlock, saveVars, policyVars
<1>4. CASE CommitHigh
  BY <1>4 DEF CommitHigh, policyVars
<1>5. CASE ColdBoot
  BY <1>5 DEF ColdBoot, RestoreHigh
<1>6. CASE Host
  BY <1>6, HostFrame DEF saveVars, nvVars, policyVars
<1>7. CASE SocMoves \/ UNCHANGED vars
  BY <1>7 DEF SocMoves, vars, saveVars, nvVars, policyVars
<1> QED
  BY <1>1, <1>2, <1>3, <1>4, <1>5, <1>6, <1>7 DEF Next, Firmware

LEMMA SettledStep == TypeOK /\ PolicySettled /\ [Next]_vars => PolicySettled'
<1> SUFFICES ASSUME TypeOK, PolicySettled, [Next]_vars PROVE PolicySettled'
  OBVIOUS
<1> USE DEF PolicySettled, ValidPair, UpperOnly
<1>1. ASSUME NEW gatesPass \in BOOLEAN, PolicyPass(gatesPass) PROVE PolicySettled'
  <2>1. low' = low /\ high' = high
    BY <1>1 DEF PolicyPass
  <2> QED
    BY <1>1, <2>1, PassCases
<1>2. CASE AcceptCommit \/ CommitBlock \/ CommitHigh
  BY <1>2 DEF AcceptCommit, CommitBlock, CommitHigh, policyVars
<1>3. CASE ColdBoot
  BY <1>3 DEF ColdBoot
<1>4. CASE Host
  BY <1>4, HostFrame DEF policyVars
<1>5. CASE SocMoves \/ UNCHANGED vars
  BY <1>5 DEF SocMoves, vars, policyVars
<1> QED
  BY <1>1, <1>2, <1>3, <1>4, <1>5 DEF Next, Firmware

LEMMA QuietBootStep ==
  TypeOK /\ HandshakeConsumed /\ QuietBoot /\ [Next]_vars => QuietBoot'
<1> SUFFICES ASSUME TypeOK, HandshakeConsumed, QuietBoot, [Next]_vars PROVE QuietBoot'
  OBVIOUS
<1> USE DEF QuietBoot
<1>1. ASSUME NEW gatesPass \in BOOLEAN, PolicyPass(gatesPass) PROVE QuietBoot'
  BY <1>1 DEF PolicyPass
<1>2. CASE AcceptCommit
  BY <1>2 DEF AcceptCommit, policyVars, nvVars
<1>3. CASE CommitBlock
  BY <1>3 DEF CommitBlock, policyVars, saveVars
<1>4. CASE CommitHigh
  BY <1>4 DEF CommitHigh, policyVars
<1>5. CASE ColdBoot
  BY <1>5 DEF ColdBoot, RestoreLow, EmptyBlock, HandshakeConsumed
<1>6. CASE Host
  BY <1>6, HostFrame DEF saveVars, nvVars, policyVars
<1>7. CASE SocMoves \/ UNCHANGED vars
  BY <1>7 DEF SocMoves, vars, saveVars, nvVars, policyVars
<1> QED
  BY <1>1, <1>2, <1>3, <1>4, <1>5, <1>6, <1>7 DEF Next, Firmware

LEMMA Inductive == Spec => []IInv
<1>1. IInv /\ [Next]_vars => IInv'
  BY TypeStep, SaveStep, MirrorStep, SettledStep, QuietBootStep DEF IInv
<1> QED
  BY <1>1, InitIInv, PTL DEF Spec

-----------------------------------------------------------------------------
(* Every register, stored block and pending write keeps to its range: no   *)
(* restore, commit or host command can bring in a value outside it.        *)
THEOREM TypeCorrect == Spec => []TypeOK
BY Inductive, PTL DEF IInv

(* A lower-limit record that differs from the stored one always has its    *)
(* save request or its commit under way, whatever the host and the power   *)
(* supply do.                                                              *)
THEOREM LowSaveNeverLost == Spec => []CommitPending
BY Inductive, PTL DEF IInv

(* Likewise for the upper limit and the stock countdown.                   *)
THEOREM HighSaveNeverLost == Spec => []UpperCommitPending
<1>1. IInv => UpperCommitPending
  BY DEF IInv, MirrorDue, UpperCommitPending
<1> QED
  BY <1>1, Inductive, PTL

(* Neither limit is ever lost on its way to the non-volatile memory.       *)
THEOREM NoSaveLost == Spec => []SavesPending
BY LowSaveNeverLost, HighSaveNeverLost, PTL DEF SavesPending

(* After a policy pass the stop bit and the phase bit agree.               *)
THEOREM PolicyCoherent == Spec => []PolicySettled
BY Inductive, PTL DEF IInv

(* A boot from a readable record asks for no flash write.                  *)
THEOREM BootWritesNoFlash == Spec => []QuietBoot
BY Inductive, PTL DEF IInv

(* Between two passes with nobody else writing, charging resumes only at   *)
(* the lower limit and stops only at the upper one.                        *)
THEOREM HysteresisBand == Spec => BandEdges
<1> DEFINE Edges ==
      writer = "pass" /\ writer' = "pass" /\ ValidPair(low, high) =>
        /\ stop /\ ~stop' => soc <= low
        /\ ~stop /\ stop' => soc >= high
<1>1. IInv /\ [Next]_vars => [Edges]_vars
  <2> SUFFICES ASSUME IInv, [Next]_vars, writer = "pass", writer' = "pass", ValidPair(low, high)
               PROVE  /\ stop /\ ~stop' => soc <= low
                      /\ ~stop /\ stop' => soc >= high
    OBVIOUS
  <2>1. TypeOK /\ (stop <=> ~phase)
    BY DEF IInv, PolicySettled
  <2>2. ASSUME NEW gatesPass \in BOOLEAN, PolicyPass(gatesPass)
        PROVE  /\ stop /\ ~stop' => soc <= low
               /\ ~stop /\ stop' => soc >= high
    <3>1. /\ phase' <=> (soc <= low \/ (phase /\ soc < high))
          /\ stop' <=> ~phase'
      BY <2>1, <2>2, PassCases
    <3>2. ~(soc < high) => soc >= high
      BY <2>1 DEF TypeOK
    <3> QED
      BY <2>1, <3>1, <3>2
  <2>3. CASE stop' = stop
    BY <2>3
  <2>4. ~ColdBoot
    BY DEF ColdBoot
  <2>5. Host => stop' = stop
    BY HostFrame DEF policyVars
  <2>6. AcceptCommit \/ CommitBlock \/ CommitHigh \/ SocMoves \/ UNCHANGED vars => stop' = stop
    BY DEF AcceptCommit, CommitBlock, CommitHigh, SocMoves, vars, policyVars
  <2> QED
    BY <2>2, <2>3, <2>4, <2>5, <2>6 DEF Next, Firmware
<1> QED
  BY <1>1, Inductive, PTL DEF Spec, BandEdges

-----------------------------------------------------------------------------
(* Every step of the firmware, of the host and of the power supply is a    *)
(* step of the abstract hysteresis or leaves it alone.                     *)
LEMMA InitRefines == Init => H!HInit
BY DEF Init, H!HInit

LEMMA PassRefines ==
  ASSUME TypeOK, NEW gatesPass \in BOOLEAN, PolicyPass(gatesPass)
  PROVE  H!Decide
<1>1. UNCHANGED <<soc, low, high>> /\ writer' = "pass"
  BY DEF PolicyPass
<1>2. low \in Nat /\ high \in Nat
  BY DEF TypeOK
<1>3. /\ ValidPair(low, high) <=> H!IsWindow(low, high)
      /\ UpperOnly(low, high) <=> H!IsUpperOnly(low, high)
  BY <1>2 DEF ValidPair, UpperOnly, H!IsWindow, H!IsUpperOnly
<1>4. phase \in BOOLEAN /\ phase' \in BOOLEAN /\ stop' \in BOOLEAN
  BY PassCases DEF TypeOK
<1>5. CASE ValidPair(low, high)
  <2>1. phase' <=> (soc <= low \/ (phase /\ soc < high))
    BY <1>5, PassCases
  <2>2. stop' <=> ~phase'
    BY <1>5, PassCases
  <2>3. phase' = (soc <= low \/ (phase /\ soc < high))
    BY <2>1, <1>4
  <2>4. stop' = ~phase'
    BY <2>2, <1>4
  <2> QED
    BY <1>1, <1>3, <1>5, <2>3, <2>4 DEF H!Decide, H!DecideWindow
<1>6. CASE UpperOnly(low, high)
  <2>1. phase' = phase
    BY <1>4, <1>6, PassCases
  <2>2. stop' => soc >= high
    BY <1>6, PassCases
  <2>3. stop' \in {FALSE, soc >= high}
    BY <1>4, <2>2
  <2> QED
    BY <1>1, <1>3, <1>6, <2>1, <2>3 DEF H!Decide, H!DecideUpperOnly
<1>7. CASE ~ValidPair(low, high) /\ ~UpperOnly(low, high)
  <2>1. phase' = FALSE /\ stop' = FALSE
    BY <1>4, <1>7, PassCases
  <2> QED
    BY <1>1, <1>3, <1>7, <2>1 DEF H!Decide, H!DecideUnlimited
<1> QED
  BY <1>5, <1>6, <1>7

LEMMA BootRefines == TypeOK /\ TypeOK' /\ ColdBoot => H!Reset
BY DEF TypeOK, ColdBoot, RestorePhase, H!Reset

LEMMA HostRefines == TypeOK' /\ Host => H!ConfigureLow \/ H!ConfigureHigh \/ UNCHANGED H!hvars
<1> SUFFICES ASSUME TypeOK', Host
             PROVE  H!ConfigureLow \/ H!ConfigureHigh \/ UNCHANGED H!hvars
  OBVIOUS
<1> USE DEF TypeOK, H!ConfigureLow, H!ConfigureHigh
<1>1. CASE \E l, h \in Limits, resume \in BOOLEAN : HostSet(l, h, resume)
  BY <1>1 DEF HostSet
<1>2. CASE HostDisable
  BY <1>2 DEF HostDisable
<1>3. CASE HostFinish
  BY <1>3 DEF HostFinish
<1>4. CASE HostKilled
  BY <1>4 DEF HostKilled, policyVars, H!hvars
<1>5. CASE \E l \in Limits : VendorWriteLow(l)
  BY <1>5 DEF VendorWriteLow
<1>6. CASE \E h \in Limits : VendorWriteHigh(h)
  BY <1>6 DEF VendorWriteHigh
<1> QED
  BY <1>1, <1>2, <1>3, <1>4, <1>5, <1>6 DEF Host

LEMMA StepRefines == TypeOK /\ TypeOK' /\ [Next]_vars => [H!HNext]_(H!hvars)
<1> SUFFICES ASSUME TypeOK, TypeOK', [Next]_vars PROVE [H!HNext]_(H!hvars)
  OBVIOUS
<1>1. ASSUME NEW gatesPass \in BOOLEAN, PolicyPass(gatesPass) PROVE H!HNext
  BY <1>1, PassRefines DEF H!HNext
<1>2. CASE AcceptCommit \/ CommitBlock \/ CommitHigh \/ UNCHANGED vars
  BY <1>2 DEF AcceptCommit, CommitBlock, CommitHigh, vars, policyVars, H!hvars
<1>3. CASE Host
  BY <1>3, HostRefines DEF H!HNext
<1>4. CASE SocMoves
  <2>1. H!Drift
    BY <1>4 DEF SocMoves, policyVars, H!Drift
  <2> QED
    BY <2>1 DEF H!HNext
<1>5. CASE ColdBoot
  BY <1>5, BootRefines DEF H!HNext
<1> QED
  BY <1>1, <1>2, <1>3, <1>4, <1>5 DEF Next, Firmware

(* FlexiCharge v2.2 implements the abstract hysteresis.                    *)
THEOREM Refinement == Spec => ImplementsHysteresis
BY TypeCorrect, InitRefines, StepRefines, PTL DEF Spec, ImplementsHysteresis, H!HSpec
=============================================================================
