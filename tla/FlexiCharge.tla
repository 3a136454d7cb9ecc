------------------------------ MODULE FlexiCharge ------------------------------
(***************************************************************************)
(* The EC side of FlexiCharge v2.2 at the grain of one scheduler task: the *)
(* charging policy that the patch generator assembles into the code cave,  *)
(* the persistent record of the lower limit, and the stock routines it     *)
(* leans on (the D741 continuation, the block commit, the restore chain).  *)
(* Tasks of the EC main loop do not interrupt each other; the host writes  *)
(* registers between them, one at a time, and the EC may lose power.       *)
(*                                                                         *)
(* A register byte is kept as its low seven bits and its bit 7:            *)
(*   EC[07D0] = low, phase        EC[07B9] = high, stop                    *)
(*   EC[0773] = shadow, a lower limit when bit 7 marks it valid            *)
(***************************************************************************)
EXTENDS Naturals

CONSTANTS
  Socs,         (* values RSOC (04AB) takes                                *)
  Limits,       (* seven-bit values the threshold registers take           *)
  NoRecord,     (* a stored byte that marks no record                      *)
  MaxResets     (* bound on the number of power losses                     *)

LowCap == 96          (* first lower limit apply_policy refuses            *)
Fallback == 100       (* the stock restore's default for 087F              *)

ASSUME SocsAssumption == Socs \subseteq Nat
ASSUME LimitsAssumption == Limits \subseteq 0 .. 127 /\ 0 \in Limits
ASSUME NoRecordAssumption == NoRecord \notin Nat
ASSUME MaxResetsAssumption == MaxResets \in Nat

VARIABLES
  soc,          (* RSOC, EC[04AB]                                          *)
  low, phase,   (* EC[07D0]: lower limit, charge cycle active              *)
  high, stop,   (* EC[07B9]: upper limit, charging inhibited               *)
  shadow,       (* EC[0773]: persistent record of the lower limit          *)
  request,      (* EC[077E..077F]: save handshake                          *)
  mirror,       (* EC[087F]: stock copy of the upper limit                 *)
  highDue,      (* EC[0802] counting down to a commit of the mirror        *)
  block,        (* non-volatile copy of 0773 and 077E..077F                *)
  nvHigh,       (* non-volatile copy of 087F                               *)
  loop,         (* "commit" while the scheduler is inside DC2A             *)
  pending,      (* EC[07B9] write a host command has yet to do             *)
  writer,       (* who last wrote phase or stop (history)                  *)
  resets        (* power losses so far                                     *)

policyVars == <<low, phase, high, stop>>
saveVars == <<shadow, request, mirror, highDue>>
nvVars == <<block, nvHigh>>
vars == <<soc, policyVars, saveVars, nvVars, loop, pending, writer, resets>>

Requests == {"idle", "commit", "consumed"}     (* A5/78 is "commit", 55/AA "consumed" *)
Block == [shadow : Limits \cup {NoRecord}, request : Requests]
EmptyBlock == [shadow |-> NoRecord, request |-> "idle"]
Nothing == [op |-> "none"]
HighWrite(h, s) == [op |-> "write", high |-> h, stop |-> s]
Pendings == {Nothing} \cup {HighWrite(h, s) : h \in Limits, s \in BOOLEAN}

-----------------------------------------------------------------------------
(* The patched decision, one operator per way through apply_policy.        *)

ValidPair(l, h) == l # 0 /\ h # 0 /\ l < LowCap /\ h > l
UpperOnly(l, h) == l = 0 /\ h # 0

(* The record is refreshed only when it is missing or differs from the     *)
(* register, so that a periodic task does not wear the flash out.          *)
UpdateShadowFirstOnly ==          \* fault: a changed limit raises no request
  /\ shadow' = low
  /\ request' = IF shadow = NoRecord THEN "commit" ELSE request
UpdateShadowAlways ==             \* fault: the comparison is left out
  shadow' = low /\ request' = "commit"
UpdateShadow ==
  IF shadow = NoRecord \/ shadow # low
  THEN shadow' = low /\ request' = "commit"
  ELSE UNCHANGED <<shadow, request>>

AtOrBelowLow ==
  /\ ValidPair(low, high)
  /\ soc <= low
  /\ phase' = TRUE /\ stop' = FALSE

AtOrAboveHigh ==
  /\ ValidPair(low, high)
  /\ soc > low /\ soc >= high
  /\ phase' = FALSE /\ stop' = TRUE

MiddleCharges ==                  \* fault: the phase is not looked at
  /\ ValidPair(low, high)
  /\ soc > low /\ soc < high
  /\ phase' = TRUE /\ stop' = FALSE
Middle ==
  /\ ValidPair(low, high)
  /\ soc > low /\ soc < high
  /\ stop' = ~phase
  /\ UNCHANGED phase

DisabledPairKeepsStop ==          \* fault: the stop bit is left to the stock code
  /\ ~ValidPair(low, high) /\ ~UpperOnly(low, high)
  /\ phase' = FALSE
  /\ UNCHANGED stop
DisabledPair ==
  /\ ~ValidPair(low, high) /\ ~UpperOnly(low, high)
  /\ phase' = FALSE /\ stop' = FALSE

(* apply_policy answered 0: decision_entry compares as the stock code did, *)
(* preclear_entry (a gate failed) clears the stop bit.                     *)
StockDecision(gatesPass) ==
  /\ UpperOnly(low, high)
  /\ stop' = (gatesPass /\ soc >= high)
  /\ UNCHANGED phase

(* D741: the stock code mirrors a changed upper limit and arms its commit. *)
ContinuationUnarmed ==            \* fault: mirrored, but no countdown
  IF mirror # high THEN mirror' = high /\ UNCHANGED highDue ELSE UNCHANGED <<mirror, highDue>>
Continuation ==
  IF mirror # high
  THEN mirror' = high /\ highDue' = TRUE
  ELSE UNCHANGED <<mirror, highDue>>

PolicyPass(gatesPass) ==
  /\ loop = "idle"
  /\ UpdateShadow
  /\ \/ AtOrBelowLow
     \/ AtOrAboveHigh
     \/ Middle
     \/ DisabledPair
     \/ StockDecision(gatesPass)
  /\ Continuation
  /\ writer' = "pass"
  /\ UNCHANGED <<soc, low, high, nvVars, loop, pending, resets>>

-----------------------------------------------------------------------------
(* Stock scheduler tasks.                                                  *)

AcceptCommit ==
  /\ loop = "idle" /\ request = "commit"
  /\ request' = "consumed"
  /\ loop' = "commit"
  /\ UNCHANGED <<soc, policyVars, shadow, mirror, highDue, nvVars, pending, writer, resets>>

CommitBlock ==
  /\ loop = "commit"
  /\ block' = [shadow |-> shadow, request |-> request]
  /\ loop' = "idle"
  /\ UNCHANGED <<soc, policyVars, saveVars, nvHigh, pending, writer, resets>>

CommitHigh ==
  /\ loop = "idle" /\ highDue
  /\ nvHigh' = mirror
  /\ highDue' = FALSE
  /\ UNCHANGED <<soc, policyVars, shadow, request, mirror, block, loop, pending, writer, resets>>

(* DC02, DE03 and restore_entry on the way up.  A power loss inside DC2A   *)
(* may leave the old block or one that fails its check.  DE03 keeps bit 7  *)
(* of 07B9, whatever it is by then; when the redundant upper records are    *)
(* missing or disagree it writes the defaults.                             *)
RestoreLowUnchecked(b) == b.shadow          \* fault: no test of the valid bit
RestoreLowMissing(b) == 0                   \* fault: v2.1, nothing is restored
RestorePhaseUnmasked(b) == b.shadow # NoRecord  \* fault: the valid bit becomes the phase
RestoreLow(b) == IF b.shadow = NoRecord THEN 0 ELSE b.shadow
RestorePhase(b) == FALSE

RestoreHigh ==
  \/ high' = 0 /\ mirror' = Fallback /\ stop' = FALSE
  \/ /\ nvHigh # NoRecord
     /\ high' = nvHigh /\ mirror' = nvHigh /\ stop' \in BOOLEAN

ColdBoot ==
  /\ resets < MaxResets
  /\ block' \in {block} \cup (IF loop = "commit" THEN {EmptyBlock} ELSE {})
  /\ shadow' = block'.shadow /\ request' = block'.request
  /\ RestoreHigh
  /\ low' = RestoreLow(block') /\ phase' = RestorePhase(block')
  /\ highDue' = FALSE
  /\ loop' = "idle"
  /\ pending' = Nothing
  /\ writer' = "reset"
  /\ resets' = resets + 1
  /\ UNCHANGED <<soc, nvHigh>>

-----------------------------------------------------------------------------
(* The host tool, at the grain of a register write.                        *)

ChooseCycleActive(l, h, resume) ==
  \/ soc <= l
  \/ /\ soc < h
     /\ resume \/ (low = l /\ high = h /\ phase)

HostSet(l, h, resume) ==
  /\ pending = Nothing
  /\ l \in 1 .. 95 /\ h \in 2 .. 99 /\ l < h
  /\ LET active == ChooseCycleActive(l, h, resume)
     IN  /\ phase' = active
         /\ pending' = HighWrite(h, ~active)
  /\ low' = l
  /\ writer' = "host"
  /\ UNCHANGED <<soc, high, stop, saveVars, nvVars, loop, resets>>

HostDisable ==
  /\ pending = Nothing
  /\ low' = 0 /\ phase' = FALSE
  /\ pending' = HighWrite(0, FALSE)
  /\ writer' = "host"
  /\ UNCHANGED <<soc, high, stop, saveVars, nvVars, loop, resets>>

HostFinish ==
  /\ pending # Nothing
  /\ high' = pending.high /\ stop' = pending.stop
  /\ pending' = Nothing
  /\ writer' = "host"
  /\ UNCHANGED <<soc, low, phase, saveVars, nvVars, loop, resets>>

(* The command dies between its two writes.                                *)
HostKilled ==
  /\ pending # Nothing
  /\ pending' = Nothing
  /\ UNCHANGED <<soc, policyVars, saveVars, nvVars, loop, writer, resets>>

(* Vendor software writes the same two registers under no such checks.     *)
VendorWriteLow(l) ==
  /\ low' = l /\ phase' \in BOOLEAN
  /\ writer' = "host"
  /\ UNCHANGED <<soc, high, stop, saveVars, nvVars, loop, pending, resets>>

VendorWriteHigh(h) ==
  /\ high' = h /\ stop' \in BOOLEAN
  /\ writer' = "host"
  /\ UNCHANGED <<soc, low, phase, saveVars, nvVars, loop, pending, resets>>

SocMoves ==
  /\ soc' \in Socs \ {soc}
  /\ UNCHANGED <<policyVars, saveVars, nvVars, loop, pending, writer, resets>>

-----------------------------------------------------------------------------
Init ==
  /\ soc \in Socs
  /\ low = 0 /\ phase = FALSE
  /\ high = 0 /\ stop = FALSE
  /\ shadow = NoRecord /\ request = "idle"
  /\ mirror = Fallback /\ highDue = FALSE
  /\ block = EmptyBlock /\ nvHigh = NoRecord
  /\ loop = "idle"
  /\ pending = Nothing
  /\ writer = "reset"
  /\ resets = 0

Firmware ==
  \/ \E gatesPass \in BOOLEAN : PolicyPass(gatesPass)
  \/ AcceptCommit
  \/ CommitBlock
  \/ CommitHigh

Host ==
  \/ \E l, h \in Limits, resume \in BOOLEAN : HostSet(l, h, resume)
  \/ HostDisable
  \/ HostFinish
  \/ HostKilled
  \/ \E l \in Limits : VendorWriteLow(l)
  \/ \E h \in Limits : VendorWriteHigh(h)

Next == Firmware \/ Host \/ SocMoves \/ ColdBoot

(* The EC main loop comes round to each of its tasks again and again; a    *)
(* task is only kept waiting while another one runs, hence SF for those    *)
(* that wait for DC2A to return.  Neither the host, the battery nor the    *)
(* power supply owes the model a step.                                     *)
Fairness ==
  /\ SF_vars(\E gatesPass \in BOOLEAN : PolicyPass(gatesPass))
  /\ SF_vars(AcceptCommit)
  /\ WF_vars(CommitBlock)
  /\ SF_vars(CommitHigh)

Spec == Init /\ [][Next]_vars
FairSpec == Spec /\ Fairness

-----------------------------------------------------------------------------
(* Properties.                                                             *)

TypeOK ==
  /\ soc \in Socs
  /\ low \in Limits /\ phase \in BOOLEAN
  /\ high \in Limits /\ stop \in BOOLEAN
  /\ shadow \in Limits \cup {NoRecord} /\ request \in Requests
  /\ mirror \in Limits \cup {Fallback} /\ highDue \in BOOLEAN
  /\ block \in Block /\ nvHigh \in Limits \cup {NoRecord}
  /\ loop \in {"idle", "commit"}
  /\ pending \in Pendings
  /\ writer \in {"pass", "host", "reset"}
  /\ resets \in Nat

(* The policy requests a commit only when the record changes, so a record  *)
(* that differs from the non-volatile one must still have its request or   *)
(* its commit under way: otherwise nothing would ever save it.             *)
CommitPending ==
  shadow # block.shadow => request = "commit" \/ loop = "commit"

(* The same for the upper limit and the stock countdown.  A threshold      *)
(* equal to the restore default (100) is the stock code's blind spot: the  *)
(* host encodes it as 0.                                                   *)
UpperCommitPending ==
  writer = "pass" /\ nvHigh # high /\ high # Fallback => highDue

(* Neither limit is ever lost on its way to the non-volatile memory.       *)
SavesPending == CommitPending /\ UpperCommitPending

(* Once the policy has had the last word, the two flags tell one story:    *)
(* in a window charging is inhibited exactly while no cycle is active, and *)
(* a pair that is no window and no upper limit never inhibits charging.    *)
PolicySettled ==
  writer = "pass" =>
    /\ ValidPair(low, high) => stop = ~phase
    /\ ~ValidPair(low, high) /\ ~UpperOnly(low, high) => ~stop /\ ~phase

(* A boot whose record was readable brings up the recorded lower limit and *)
(* no stale save request, so that the first pass after it writes no flash. *)
QuietBoot ==
  writer = "reset" /\ shadow # NoRecord =>
    /\ low = shadow /\ block.shadow = shadow
    /\ request # "commit"

(* Hysteresis proper: while only the policy acts, charging resumes at the  *)
(* lower limit only and stops at the upper one only.                       *)
BandEdges ==
  [][ writer = "pass" /\ writer' = "pass" /\ ValidPair(low, high) =>
        /\ stop /\ ~stop' => soc <= low
        /\ ~stop /\ stop' => soc >= high ]_vars

(* The firmware implements the abstract hysteresis under phase = session   *)
(* and stop = inhibit: passes only decide, boots never open a session.     *)
H == INSTANCE Hysteresis WITH session <- phase, inhibit <- stop
ImplementsHysteresis == H!HSpec

(* A lower limit that is left alone is eventually the one a power loss     *)
(* brings back, and an upper limit likewise.                               *)
LowBecomesDurable ==
  \A l \in Limits : <>[](low = l) => <>[](block.shadow = l)
HighBecomesDurable ==
  \A h \in Limits \ {Fallback} : <>[](high = h) => <>[](nvHigh = h)

(* With the lower limit left alone the flash is eventually left alone too. *)
FlashComesToRest ==
  \A l \in Limits : <>[](low = l) => <>[](request # "commit" /\ loop = "idle")

(* Limits that are left alone become durable, each by its own mechanism,   *)
(* and cost no more writes of the flash once they are.                     *)
SettledLimitsRest == LowBecomesDurable /\ HighBecomesDurable /\ FlashComesToRest
=============================================================================
