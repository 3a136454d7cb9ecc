---------------------------- MODULE FlexiChargeHost ----------------------------
(***************************************************************************)
(* FlexiCharge v2.2 and the host tool flexicharge.py on the bus: every     *)
(* access to the two threshold registers and to RSOC is a step of its own. *)
(* The EC policy reads 07B9 and 07D0 at one point and writes them back at  *)
(* another; the host, through I2EC, reads and writes the same bytes at any *)
(* time, with no lock between the two.                                     *)
(*                                                                         *)
(* A byte carries, besides its low seven bits "v" and its bit 7, the       *)
(* number of the host command that put the value there ("ver"), which no   *)
(* program sees.                                                           *)
(***************************************************************************)
EXTENDS Naturals

CONSTANTS
  Socs,          \* values RSOC takes
  Limits,        \* seven-bit thresholds a host command may ask for
  MaxCommands    \* bound on the number of host commands

ASSUME HostSocsAssumption == Socs \subseteq Nat
ASSUME HostLimitsAssumption == Limits \subseteq 0 .. 127
ASSUME MaxCommandsAssumption == MaxCommands \in Nat

VARIABLES
  soc,           \* EC[04AB]
  lowReg,        \* EC[07D0]
  highReg,       \* EC[07B9]
  ecPc,          \* next access of the policy pass
  r3,            \* upper limit cached by the stock prologue
  gatesPass,     \* whether the pass came through D729 rather than D73A
  raw,           \* 07D0 as the pass read it
  plan,          \* bit 7 of each register the pass is going to write
  acc,           \* 07B9 as the pass read it to modify it
  hostPc,        \* next access of the host command
  cmd,           \* the host command
  old,           \* what it read
  commands,      \* host commands so far
  dirty,         \* registers the host wrote since the pass read them (history)
  lost,          \* registers in which a host write was overwritten (history)
  fresh,         \* the pass began after the last host write (history)
  settled        \* such a pass has completed (history)

ecVars == <<ecPc, r3, gatesPass, raw, plan, acc>>
hostVars == <<hostPc, cmd, old, commands>>
history == <<dirty, lost, fresh, settled>>
vars == <<soc, lowReg, highReg, ecVars, hostVars, history>>

LowCap == 96
Byte(v, bit7, ver) == [v |-> v, bit7 |-> bit7, ver |-> ver]
Blank == Byte(0, FALSE, 0)
NoPlan == [low |-> "keep", high |-> FALSE]

ValidPair(l, h) == l # 0 /\ h # 0 /\ l < LowCap /\ h > l
UpperOnly(l, h) == l = 0 /\ h # 0

-----------------------------------------------------------------------------
(* The policy pass.                                                        *)

EcStep(from, to) == ecPc = from /\ ecPc' = to

(* The stock prologue caches the upper limit and runs the gates.           *)
BeginPass ==
  /\ EcStep("idle", "readLow")
  /\ r3' = highReg
  /\ gatesPass' \in BOOLEAN
  /\ fresh' = TRUE
  /\ UNCHANGED <<soc, lowReg, highReg, raw, plan, acc, hostVars, dirty, lost, settled>>

(* PUSH of the raw lower limit, then the tests that need no RSOC.          *)
ReadLowV2 ==      \* fault: v2, a pair that is no window falls back to the stock comparison
  /\ ecPc = "readLow"
  /\ raw' = lowReg
  /\ dirty' = dirty \ {"low"}
  /\ ecPc' = IF ValidPair(lowReg.v, r3.v) THEN "belowLow" ELSE "stock"
  /\ UNCHANGED <<soc, lowReg, highReg, r3, gatesPass, plan, acc, hostVars, lost, fresh, settled>>
ReadLow ==
  /\ ecPc = "readLow"
  /\ raw' = lowReg
  /\ dirty' = dirty \ {"low"}
  /\ \/ /\ ValidPair(lowReg.v, r3.v)
        /\ ecPc' = "belowLow"
        /\ UNCHANGED plan
     \/ /\ UpperOnly(lowReg.v, r3.v)
        /\ ecPc' = "stock"
        /\ UNCHANGED plan
     \/ /\ ~ValidPair(lowReg.v, r3.v) /\ ~UpperOnly(lowReg.v, r3.v)
        /\ ecPc' = "writeLow"
        /\ plan' = [low |-> "clear", high |-> FALSE]
  /\ UNCHANGED <<soc, lowReg, highReg, r3, gatesPass, acc, hostVars, lost, fresh, settled>>

(* First read of RSOC.                                                     *)
CompareLowStrictly ==      \* fault: JZ after JC left out, SOC = low is not low
  /\ ecPc = "belowLow"
  /\ IF soc < raw.v
     THEN plan' = [low |-> "set", high |-> FALSE] /\ ecPc' = "writeLow"
     ELSE ecPc' = "aboveHigh" /\ UNCHANGED plan
  /\ UNCHANGED <<soc, lowReg, highReg, r3, gatesPass, raw, acc, hostVars, history>>
CompareLow ==
  /\ ecPc = "belowLow"
  /\ \/ /\ soc <= raw.v
        /\ plan' = [low |-> "set", high |-> FALSE]
        /\ ecPc' = "writeLow"
     \/ /\ soc > raw.v
        /\ ecPc' = "aboveHigh"
        /\ UNCHANGED plan
  /\ UNCHANGED <<soc, lowReg, highReg, r3, gatesPass, raw, acc, hostVars, history>>

(* Second read of RSOC, and the middle band.                               *)
CompareHighRereads ==      \* fault: the upper limit is read again instead of taken from R3
  /\ ecPc = "aboveHigh"
  /\ r3' = highReg
  /\ IF soc >= highReg.v
     THEN plan' = [low |-> "clear", high |-> TRUE] /\ ecPc' = "writeLow"
     ELSE plan' = [low |-> "keep", high |-> ~raw.bit7] /\ ecPc' = "readHigh"
  /\ UNCHANGED <<soc, lowReg, highReg, gatesPass, raw, acc, hostVars, history>>
MiddleHolds ==             \* fault: the middle band always inhibits
  /\ ecPc = "aboveHigh"
  /\ plan' = [low |-> IF soc >= r3.v THEN "clear" ELSE "keep", high |-> TRUE]
  /\ ecPc' = IF soc >= r3.v THEN "writeLow" ELSE "readHigh"
  /\ UNCHANGED <<soc, lowReg, highReg, r3, gatesPass, raw, acc, hostVars, history>>
CompareHigh ==
  /\ ecPc = "aboveHigh"
  /\ \/ /\ soc >= r3.v
        /\ plan' = [low |-> "clear", high |-> TRUE]
        /\ ecPc' = "writeLow"
     \/ /\ soc < r3.v
        /\ plan' = [low |-> "keep", high |-> ~raw.bit7]
        /\ ecPc' = "readHigh"
  /\ UNCHANGED <<soc, lowReg, highReg, r3, gatesPass, raw, acc, hostVars, history>>

(* apply_policy answered 0: stock comparison, or the stock clear.          *)
StockDecision ==
  /\ EcStep("stock", "readHigh")
  /\ plan' = [low |-> "keep", high |-> gatesPass /\ soc >= r3.v]
  /\ UNCHANGED <<soc, lowReg, highReg, r3, gatesPass, raw, acc, hostVars, history>>

(* 07D0 is written from the value read at the start of the pass.           *)
WriteLowErases ==          \* fault: clearing the phase takes the threshold with it
  /\ EcStep("writeLow", "readHigh")
  /\ lowReg' = IF plan.low = "set" THEN [raw EXCEPT !.bit7 = TRUE] ELSE Byte(0, FALSE, raw.ver)
  /\ lost' = lost \cup (dirty \cap {"low"})
  /\ UNCHANGED <<soc, highReg, r3, gatesPass, raw, plan, acc, hostVars, dirty, fresh, settled>>
WriteLow ==
  /\ EcStep("writeLow", "readHigh")
  /\ lowReg' = [raw EXCEPT !.bit7 = (plan.low = "set")]
  /\ lost' = lost \cup (dirty \cap {"low"})
  /\ UNCHANGED <<soc, highReg, r3, gatesPass, raw, plan, acc, hostVars, dirty, fresh, settled>>

ReadHigh ==
  /\ EcStep("readHigh", "writeHigh")
  /\ acc' = highReg
  /\ dirty' = dirty \ {"high"}
  /\ UNCHANGED <<soc, lowReg, highReg, r3, gatesPass, raw, plan, hostVars, lost, fresh, settled>>

WriteHigh ==
  /\ EcStep("writeHigh", "idle")
  /\ highReg' = [acc EXCEPT !.bit7 = plan.high]
  /\ lost' = lost \cup (dirty \cap {"high"})
  /\ settled' = fresh
  /\ r3' = Blank /\ raw' = Blank /\ acc' = Blank /\ plan' = NoPlan    \* dead from here on
  /\ UNCHANGED <<soc, lowReg, gatesPass, hostVars, dirty, fresh>>

Ec == BeginPass \/ ReadLow \/ CompareLow \/ CompareHigh \/ StockDecision
        \/ WriteLow \/ ReadHigh \/ WriteHigh

-----------------------------------------------------------------------------
(* The host tool.  The unlock check touches no register of the policy.     *)

NoCommand == [op |-> "none", low |-> 0, high |-> 0, resume |-> FALSE]
SetCommand(l, h, resume) == [op |-> "set", low |-> l, high |-> h, resume |-> resume]
DisableCommand == [op |-> "disable", low |-> 0, high |-> 0, resume |-> FALSE]
Unread == [high |-> Blank, low |-> Blank, active |-> FALSE]

HostBegin(c) ==
  /\ hostPc \in {"idle", "done"}
  /\ commands < MaxCommands
  /\ cmd' = c
  /\ commands' = commands + 1
  /\ old' = Unread
  /\ hostPc' = "readHigh"
  /\ UNCHANGED <<soc, lowReg, highReg, ecVars, history>>

CommandSet ==
  \E l, h \in Limits, resume \in BOOLEAN :
    /\ l \in 1 .. 95 /\ h \in 2 .. 99 /\ l < h
    /\ HostBegin(SetCommand(l, h, resume))

CommandDisable == HostBegin(DisableCommand)

HostReadHigh ==
  /\ hostPc = "readHigh"
  /\ old' = [old EXCEPT !.high = highReg]
  /\ hostPc' = "readLow"
  /\ UNCHANGED <<soc, lowReg, highReg, ecVars, cmd, commands, history>>

HostReadLow ==
  /\ hostPc = "readLow"
  /\ old' = [old EXCEPT !.low = lowReg]
  /\ hostPc' = "readSoc"
  /\ UNCHANGED <<soc, lowReg, highReg, ecVars, cmd, commands, history>>

ChooseCycleActive(rsoc) ==
  \/ rsoc <= cmd.low
  \/ /\ rsoc < cmd.high
     /\ cmd.resume \/ (old.low.v = cmd.low /\ old.high.v = cmd.high /\ old.low.bit7)

HostReadSoc ==
  /\ hostPc = "readSoc"
  /\ old' = [old EXCEPT !.active = (cmd.op = "set" /\ ChooseCycleActive(soc))]
  /\ hostPc' = "writeLow"
  /\ UNCHANGED <<soc, lowReg, highReg, ecVars, cmd, commands, history>>

Touch(register) ==
  /\ dirty' = dirty \cup {register}
  /\ fresh' = FALSE
  /\ settled' = FALSE
  /\ UNCHANGED lost

HostWriteLowAdds ==        \* fault: the active flag is added to the old raw byte
  /\ hostPc = "writeLow"
  /\ lowReg' = Byte(cmd.low + old.low.v, old.active, commands)
  /\ hostPc' = "writeHigh"
  /\ Touch("low")
  /\ UNCHANGED <<soc, highReg, ecVars, cmd, old, commands>>
HostWriteLow ==
  /\ hostPc = "writeLow"
  /\ lowReg' = Byte(cmd.low, old.active, commands)
  /\ hostPc' = "writeHigh"
  /\ Touch("low")
  /\ UNCHANGED <<soc, highReg, ecVars, cmd, old, commands>>

HostWriteHigh ==
  /\ hostPc = "writeHigh"
  /\ highReg' = Byte(cmd.high, cmd.op = "set" /\ ~old.active, commands)
  /\ hostPc' = "done"
  /\ Touch("high")
  /\ UNCHANGED <<soc, lowReg, ecVars, cmd, old, commands>>

HostKilled ==
  /\ hostPc \notin {"idle", "done"}
  /\ hostPc' = "idle"
  /\ UNCHANGED <<soc, lowReg, highReg, ecVars, cmd, old, commands, history>>

Host == CommandSet \/ CommandDisable \/ HostReadHigh \/ HostReadLow \/ HostReadSoc
          \/ HostWriteLow \/ HostWriteHigh \/ HostKilled

SocMoves ==
  /\ soc' \in Socs \ {soc}
  /\ UNCHANGED <<lowReg, highReg, ecVars, hostVars, history>>

-----------------------------------------------------------------------------
Init ==
  /\ soc \in Socs
  /\ lowReg = Blank /\ highReg = Blank
  /\ ecPc = "idle"
  /\ r3 = Blank /\ raw = Blank /\ acc = Blank
  /\ gatesPass = FALSE
  /\ plan = NoPlan
  /\ hostPc = "idle" /\ cmd = NoCommand /\ old = Unread /\ commands = 0
  /\ dirty = {} /\ lost = {}
  /\ fresh = FALSE /\ settled = FALSE

Next == Ec \/ Host \/ SocMoves

(* The scheduler keeps calling the policy.                                 *)
Spec == Init /\ [][Next]_vars
FairSpec == Spec /\ WF_vars(Ec)

-----------------------------------------------------------------------------
(* Properties.                                                             *)

Bytes == [v : Limits \cup {0}, bit7 : BOOLEAN, ver : 0 .. MaxCommands]

TypeOK ==
  /\ soc \in Socs
  /\ lowReg \in Bytes /\ highReg \in Bytes
  /\ r3 \in Bytes /\ raw \in Bytes /\ acc \in Bytes
  /\ ecPc \in {"idle", "readLow", "belowLow", "aboveHigh", "stock", "writeLow", "readHigh", "writeHigh"}
  /\ plan \in [low : {"keep", "set", "clear"}, high : BOOLEAN]
  /\ hostPc \in {"idle", "readHigh", "readLow", "readSoc", "writeLow", "writeHigh", "done"}
  /\ commands \in 0 .. MaxCommands
  /\ dirty \subseteq {"low", "high"} /\ lost \subseteq {"low", "high"}
  /\ gatesPass \in BOOLEAN /\ fresh \in BOOLEAN /\ settled \in BOOLEAN

(* The thresholds of a finished command stand, unless the policy wrote a   *)
(* register back over the host's write: no other interleaving of the two   *)
(* programs changes the low seven bits of either byte.                     *)
KeptUnlessLost ==
  hostPc = "done" =>
    /\ "low" \notin lost => lowReg.v = cmd.low /\ lowReg.ver = commands
    /\ "high" \notin lost => highReg.v = cmd.high /\ highReg.ver = commands

(* "Write lower first" (flexicharge.py): the policy never pairs an upper   *)
(* limit with a lower limit older than it, unless a write was lost.        *)
NoStalePair ==
  ecPc \notin {"idle", "readLow"} /\ lost = {} => raw.ver >= r3.ver

(* A pass that no host write overlapped leaves the two flags coherent for  *)
(* the pair in the registers, though it read RSOC twice and 07B9 twice.    *)
FlagsCoherent ==
  settled /\ ecPc = "idle" =>
    /\ ValidPair(lowReg.v, highReg.v) => highReg.bit7 = ~lowReg.bit7
    /\ ~ValidPair(lowReg.v, highReg.v) /\ ~UpperOnly(lowReg.v, highReg.v) =>
         ~highReg.bit7 /\ ~lowReg.bit7

(* A pass decides on a pair the host meant, and leaves the flags that go   *)
(* with it: thresholds of two commands are never mixed the dangerous way.  *)
PassCoherent == NoStalePair /\ FlagsCoherent

(* After a disable command has finished and one pass has followed, nothing *)
(* holds charging, unless a write was lost.                                *)
DisableReleasesUnlessLost ==
  hostPc = "done" /\ cmd.op = "disable" /\ settled /\ lost = {} => ~highReg.bit7

(* The decision the registers should come to rest on.                      *)
Converged ==
  ValidPair(lowReg.v, highReg.v) =>
    /\ highReg.bit7 = ~lowReg.bit7
    /\ soc <= lowReg.v => ~highReg.bit7
    /\ soc >= highReg.v => highReg.bit7

(* Once the host and the battery are quiet, the flags reach the decision   *)
(* for the thresholds that are there and stay with it.                     *)
Converges ==
  \A s \in Socs : <>[](hostPc \in {"idle", "done"} /\ soc = s) => <>[]Converged

(* What a comment promises beyond that.                                    *)

(* flexicharge.py on command_disable: clearing the stop bit too keeps the  *)
(* disable from leaving charging held.                                     *)
DisableReleases ==
  hostPc = "done" /\ cmd.op = "disable" /\ settled => ~highReg.bit7
=============================================================================
