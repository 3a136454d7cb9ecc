-------------------------- MODULE FlexiChargeHostProofs --------------------------
(***************************************************************************)
(* Theorems about the host tool and the policy pass on one bus, for every  *)
(* set of thresholds and any number of host commands: the one harm they do *)
(* each other is a host write that is overwritten, and without it a pass   *)
(* decides on a pair the host meant.                                       *)
(***************************************************************************)
EXTENDS FlexiChargeHost, TLAPS

USE HostSocsAssumption, HostLimitsAssumption, MaxCommandsAssumption

Disabled(l, h) == ~ValidPair(l, h) /\ ~UpperOnly(l, h)

-----------------------------------------------------------------------------
(* The inductive invariant, part by part.                                  *)

RegisterType ==
  /\ soc \in Socs
  /\ lowReg \in Bytes /\ highReg \in Bytes
  /\ r3 \in Bytes /\ raw \in Bytes /\ acc \in Bytes
  /\ ecPc \in {"idle", "readLow", "belowLow", "aboveHigh", "stock", "writeLow", "readHigh", "writeHigh"}
  /\ plan \in [low : {"keep", "set", "clear"}, high : BOOLEAN]

HostType ==
  /\ hostPc \in {"idle", "readHigh", "readLow", "readSoc", "writeLow", "writeHigh", "done"}
  /\ commands \in 0 .. MaxCommands
  /\ cmd \in [op : {"none", "set", "disable"}, low : Limits \cup {0}, high : Limits \cup {0},
              resume : BOOLEAN]
  /\ old \in [high : Bytes, low : Bytes, active : BOOLEAN]
  /\ cmd.op = "disable" => cmd.low = 0 /\ cmd.high = 0

HistoryType ==
  /\ dirty \subseteq {"low", "high"} /\ lost \subseteq {"low", "high"}
  /\ gatesPass \in BOOLEAN /\ fresh \in BOOLEAN /\ settled \in BOOLEAN

(* What the pass holds in its hands is what is in the register, unless the *)
(* register is marked as written since.                                    *)
InHand ==
  /\ ecPc \notin {"idle", "readLow"} /\ "low" \notin dirty =>
       raw.v = lowReg.v /\ raw.ver = lowReg.ver
  /\ ecPc \in {"belowLow", "aboveHigh", "stock", "writeLow"} /\ "low" \notin dirty =>
       raw.bit7 = lowReg.bit7
  /\ ecPc = "writeHigh" /\ "high" \notin dirty =>
       acc.v = highReg.v /\ acc.ver = highReg.ver

(* The writes of the command at hand stand, unless one was lost.           *)
Kept ==
  /\ hostPc \in {"writeHigh", "done"} /\ "low" \notin lost =>
       lowReg.v = cmd.low /\ lowReg.ver = commands
  /\ hostPc = "done" /\ "high" \notin lost =>
       highReg.v = cmd.high /\ highReg.ver = commands

(* The lower limit is never older than the upper one.                      *)
Aged ==
  lost = {} =>
    /\ highReg.ver <= lowReg.ver /\ lowReg.ver <= commands
    /\ ecPc # "idle" => r3.ver <= highReg.ver
    /\ ecPc \notin {"idle", "readLow"} => r3.ver <= raw.ver

(* A pass that no host write overlaps: what it has cached is what is       *)
(* there, and its plan goes with it.                                       *)
Coherent ==
  /\ settled => fresh
  /\ fresh /\ ecPc # "idle" => r3.v = highReg.v
  /\ fresh /\ ecPc \notin {"idle", "readLow"} => raw.v = lowReg.v
  /\ fresh /\ ecPc \in {"belowLow", "aboveHigh", "stock", "writeLow"} => raw.bit7 = lowReg.bit7
  /\ fresh /\ ecPc = "writeHigh" => acc.v = highReg.v
  /\ ecPc \in {"belowLow", "aboveHigh"} => ValidPair(raw.v, r3.v)
  /\ ecPc = "stock" => UpperOnly(raw.v, r3.v)
  /\ ecPc = "writeLow" =>
       /\ plan.low \in {"set", "clear"}
       /\ ValidPair(raw.v, r3.v) => (plan.high <=> plan.low # "set")
       /\ Disabled(raw.v, r3.v) => plan.low = "clear" /\ ~plan.high
  /\ fresh /\ ecPc \in {"readHigh", "writeHigh"} =>
       /\ ValidPair(raw.v, r3.v) => (plan.high <=> ~lowReg.bit7)
       /\ Disabled(raw.v, r3.v) => ~plan.high /\ ~lowReg.bit7
  /\ settled /\ ecPc = "idle" =>
       /\ ValidPair(lowReg.v, highReg.v) => (highReg.bit7 <=> ~lowReg.bit7)
       /\ Disabled(lowReg.v, highReg.v) => ~highReg.bit7 /\ ~lowReg.bit7

Released ==
  hostPc = "done" /\ cmd.op = "disable" /\ settled /\ lost = {} => ~highReg.bit7

Inv ==
  /\ RegisterType /\ HostType /\ HistoryType
  /\ InHand /\ Kept /\ Aged /\ Coherent /\ Released

LEMMA TypeParts == RegisterType /\ HostType /\ HistoryType => TypeOK
BY DEF TypeOK, RegisterType, HostType, HistoryType

LEMMA ByteFields ==
  ASSUME NEW b \in Bytes
  PROVE  /\ b.v \in Nat /\ b.v \in Limits \cup {0}
         /\ b.bit7 \in BOOLEAN
         /\ b.ver \in Nat /\ b.ver \in 0 .. MaxCommands
<1>1. b.v \in Limits \cup {0} /\ b.bit7 \in BOOLEAN /\ b.ver \in 0 .. MaxCommands
  BY DEF Bytes
<1>2. Limits \cup {0} \subseteq Nat
  OBVIOUS
<1>3. 0 .. MaxCommands \subseteq Nat
  OBVIOUS
<1> QED
  BY <1>1, <1>2, <1>3

Plans == [low : {"keep", "set", "clear"}, high : BOOLEAN]

LEMMA DecidedPlans ==
  /\ [low |-> "set", high |-> FALSE] \in Plans /\ [low |-> "clear", high |-> FALSE] \in Plans
  /\ [low |-> "clear", high |-> TRUE] \in Plans
BY DEF Plans

LEMMA HeldPlans == ASSUME NEW x \in BOOLEAN PROVE [low |-> "keep", high |-> ~x] \in Plans
<1>1. (~x) \in BOOLEAN
  OBVIOUS
<1> QED
  BY <1>1 DEF Plans

LEMMA TestsPlan ==
  /\ ReadLow /\ plan \in Plans => plan' \in Plans
  /\ CompareLow /\ plan \in Plans => plan' \in Plans
  /\ CompareHigh /\ plan \in Plans /\ raw.bit7 \in BOOLEAN => plan' \in Plans
<1>1. ReadLow /\ plan \in Plans => plan' \in Plans
  BY DecidedPlans DEF ReadLow
<1>2. CompareLow /\ plan \in Plans => plan' \in Plans
  BY DecidedPlans DEF CompareLow
<1>3. CompareHigh /\ plan \in Plans /\ raw.bit7 \in BOOLEAN => plan' \in Plans
  BY DecidedPlans, HeldPlans DEF CompareHigh
<1> QED
  BY <1>1, <1>2, <1>3

LEMMA FlaggedByte ==
  ASSUME NEW b \in Bytes, NEW f \in BOOLEAN
  PROVE  [b EXCEPT !.bit7 = f] \in Bytes
BY DEF Bytes

LEMMA BlankByte == Blank \in Bytes /\ Blank.v = 0 /\ Blank.ver = 0 /\ Blank.bit7 = FALSE
BY DEF Blank, Byte, Bytes

LEMMA InitInv == Init => Inv
<1> SUFFICES ASSUME Init PROVE Inv
  OBVIOUS
<1> USE BlankByte
<1>1. RegisterType
  BY DEF Init, RegisterType, NoPlan
<1>2. HostType
  BY DEF Init, HostType, NoCommand, Unread
<1>3. HistoryType
  BY DEF Init, HistoryType
<1>4. InHand /\ Kept /\ Aged
  BY DEF Init, InHand, Kept, Aged
<1>5. Coherent /\ Released
  BY DEF Init, Coherent, Released
<1> QED
  BY <1>1, <1>2, <1>3, <1>4, <1>5 DEF Inv

-----------------------------------------------------------------------------
(* Every step preserves the types.                                         *)
LEMMA RegisterTypeStep == Inv /\ [Next]_vars => RegisterType'
<1> SUFFICES ASSUME Inv, [Next]_vars PROVE RegisterType'
  OBVIOUS
<1> USE BlankByte DEF Inv, RegisterType, HostType, ecVars, hostVars, history, Bytes
<1>1. CASE BeginPass
  BY <1>1 DEF BeginPass, EcStep
<1>2. CASE ReadLow
  <2>1. plan \in Plans /\ raw.bit7 \in BOOLEAN
    BY DEF Plans
  <2>2. plan' \in Plans
    BY <1>2, <2>1, TestsPlan
  <2> QED
    BY <1>2, <2>2 DEF ReadLow, Plans
<1>3. CASE CompareLow
  <2>1. plan \in Plans /\ raw.bit7 \in BOOLEAN
    BY DEF Plans
  <2>2. plan' \in Plans
    BY <1>3, <2>1, TestsPlan
  <2> QED
    BY <1>3, <2>2 DEF CompareLow, Plans
<1>4. CASE CompareHigh
  <2>1. plan \in Plans /\ raw.bit7 \in BOOLEAN
    BY DEF Plans
  <2>2. plan' \in Plans
    BY <1>4, <2>1, TestsPlan
  <2> QED
    BY <1>4, <2>2 DEF CompareHigh, Plans
<1>5. CASE StockDecision
  BY <1>5 DEF StockDecision, EcStep
<1>6. CASE ReadHigh
  BY <1>6 DEF ReadHigh, EcStep
<1>7. CASE WriteLow
  <2>1. (plan.low = "set") \in BOOLEAN
    OBVIOUS
  <2>2. [raw EXCEPT !.bit7 = (plan.low = "set")] \in Bytes
    BY <2>1, FlaggedByte
  <2>3. lowReg' = [raw EXCEPT !.bit7 = (plan.low = "set")]
    BY <1>7 DEF WriteLow, EcStep
  <2>4. lowReg' \in Bytes
    BY <2>2, <2>3
  <2> QED
    BY <1>7, <2>4 DEF WriteLow, EcStep
<1>8. CASE WriteHigh
  <2>1. plan.high \in BOOLEAN
    OBVIOUS
  <2>2. [acc EXCEPT !.bit7 = plan.high] \in Bytes
    BY <2>1, FlaggedByte
  <2>3. highReg' = [acc EXCEPT !.bit7 = plan.high]
    BY <1>8 DEF WriteHigh, EcStep
  <2>4. highReg' \in Bytes
    BY <2>2, <2>3
  <2> QED
    BY <1>8, <2>4 DEF WriteHigh, EcStep, NoPlan
<1>9. CASE CommandSet \/ CommandDisable
  BY <1>9 DEF CommandSet, HostBegin, SetCommand, CommandDisable, DisableCommand
<1>10. CASE HostReadHigh \/ HostReadLow \/ HostReadSoc \/ HostKilled
  BY <1>10 DEF HostReadHigh, HostReadLow, HostReadSoc, HostKilled
<1>11. CASE HostWriteLow
  BY <1>11 DEF HostWriteLow, Touch, Byte
<1>12. CASE HostWriteHigh
  BY <1>12 DEF HostWriteHigh, Touch, Byte
<1>13. CASE SocMoves \/ UNCHANGED vars
  BY <1>13 DEF SocMoves, vars
<1> QED
  BY <1>1, <1>2, <1>3, <1>4, <1>5, <1>6, <1>7, <1>8, <1>9, <1>10, <1>11,
     <1>12, <1>13 DEF Next, Ec, Host

LEMMA HostTypeStep == Inv /\ [Next]_vars => HostType'
<1> SUFFICES ASSUME Inv, [Next]_vars PROVE HostType'
  OBVIOUS
<1> USE BlankByte DEF Inv, RegisterType, HostType, ecVars, hostVars, history, Bytes
<1>1. CASE BeginPass \/ ReadLow \/ CompareLow \/ CompareHigh
  BY <1>1 DEF BeginPass, EcStep, ReadLow, CompareLow, CompareHigh
<1>2. CASE StockDecision \/ WriteLow \/ ReadHigh \/ WriteHigh
  BY <1>2 DEF StockDecision, EcStep, WriteLow, ReadHigh, WriteHigh
<1>3. CASE CommandSet
  BY <1>3 DEF CommandSet, HostBegin, SetCommand, Unread
<1>4. CASE CommandDisable
  BY <1>4 DEF CommandDisable, HostBegin, DisableCommand, Unread
<1>5. CASE HostReadHigh \/ HostReadLow \/ HostReadSoc \/ HostKilled
  BY ZenonT(40), <1>5 DEF HostReadHigh, HostReadLow, HostReadSoc, HostKilled
<1>6. CASE HostWriteLow \/ HostWriteHigh
  BY <1>6 DEF HostWriteLow, Touch, Byte, HostWriteHigh
<1>7. CASE SocMoves \/ UNCHANGED vars
  BY <1>7 DEF SocMoves, vars
<1> QED
  BY <1>1, <1>2, <1>3, <1>4, <1>5, <1>6, <1>7 DEF Next, Ec, Host

LEMMA HistoryTypeStep == Inv /\ [Next]_vars => HistoryType'
<1> SUFFICES ASSUME Inv, [Next]_vars PROVE HistoryType'
  OBVIOUS
<1> USE DEF Inv, HistoryType, ecVars, hostVars, history
<1>1. CASE BeginPass \/ ReadLow \/ CompareLow \/ CompareHigh
  BY <1>1 DEF BeginPass, EcStep, ReadLow, CompareLow, CompareHigh
<1>2. CASE StockDecision \/ WriteLow \/ ReadHigh \/ WriteHigh
  BY <1>2 DEF StockDecision, EcStep, WriteLow, ReadHigh, WriteHigh
<1>3. CASE CommandSet \/ CommandDisable
  BY <1>3 DEF CommandSet, HostBegin, SetCommand, CommandDisable, DisableCommand
<1>4. CASE HostReadHigh \/ HostReadLow \/ HostReadSoc \/ HostKilled
  BY <1>4 DEF HostReadHigh, HostReadLow, HostReadSoc, HostKilled
<1>5. CASE HostWriteLow \/ HostWriteHigh
  BY <1>5 DEF HostWriteLow, Touch, Byte, HostWriteHigh
<1>6. CASE SocMoves \/ UNCHANGED vars
  BY <1>6 DEF SocMoves, vars
<1> QED
  BY <1>1, <1>2, <1>3, <1>4, <1>5, <1>6 DEF Next, Ec, Host

-----------------------------------------------------------------------------
(* Every step preserves what relates the two programs.                     *)
LEMMA InHandStep == Inv /\ [Next]_vars => InHand'
<1> SUFFICES ASSUME Inv, [Next]_vars PROVE InHand'
  OBVIOUS
<1> USE DEF Inv, RegisterType, InHand, ecVars, hostVars, history
<1>1. CASE BeginPass \/ ReadLow \/ CompareLow \/ CompareHigh
  BY <1>1 DEF BeginPass, EcStep, ReadLow, CompareLow, CompareHigh
<1>2. CASE StockDecision
  BY <1>2 DEF StockDecision, EcStep
<1>3. CASE WriteLow
  BY <1>3 DEF WriteLow, EcStep
<1>4. CASE ReadHigh \/ WriteHigh
  BY <1>4 DEF ReadHigh, EcStep, WriteHigh
<1>5. CASE CommandSet \/ CommandDisable
  BY <1>5 DEF CommandSet, HostBegin, SetCommand, CommandDisable, DisableCommand
<1>6. CASE HostReadHigh \/ HostReadLow \/ HostReadSoc \/ HostKilled
  BY <1>6 DEF HostReadHigh, HostReadLow, HostReadSoc, HostKilled
<1>7. CASE HostWriteLow \/ HostWriteHigh
  BY <1>7 DEF HostWriteLow, Touch, Byte, HostWriteHigh
<1>8. CASE SocMoves \/ UNCHANGED vars
  BY <1>8 DEF SocMoves, vars
<1> QED
  BY <1>1, <1>2, <1>3, <1>4, <1>5, <1>6, <1>7, <1>8 DEF Next, Ec, Host

LEMMA KeptStep == Inv /\ [Next]_vars => Kept'
<1> SUFFICES ASSUME Inv, [Next]_vars PROVE Kept'
  OBVIOUS
<1> USE DEF Inv, RegisterType, HostType, HistoryType, InHand, Kept, ecVars,
      hostVars, history
<1>1. CASE BeginPass \/ ReadLow \/ CompareLow \/ CompareHigh
  BY <1>1 DEF BeginPass, EcStep, ReadLow, CompareLow, CompareHigh
<1>2. CASE StockDecision
  BY <1>2 DEF StockDecision, EcStep
<1>3. CASE WriteLow
  BY <1>3 DEF WriteLow, EcStep
<1>4. CASE ReadHigh
  BY <1>4 DEF ReadHigh, EcStep
<1>5. CASE WriteHigh
  BY <1>5 DEF WriteHigh, EcStep
<1>6. CASE CommandSet \/ CommandDisable
  BY <1>6 DEF CommandSet, HostBegin, SetCommand, CommandDisable, DisableCommand
<1>7. CASE HostReadHigh \/ HostReadLow \/ HostReadSoc \/ HostKilled
  BY <1>7 DEF HostReadHigh, HostReadLow, HostReadSoc, HostKilled
<1>8. CASE HostWriteLow \/ HostWriteHigh
  BY <1>8 DEF HostWriteLow, Touch, Byte, HostWriteHigh
<1>9. CASE SocMoves \/ UNCHANGED vars
  BY <1>9 DEF SocMoves, vars
<1> QED
  BY <1>1, <1>2, <1>3, <1>4, <1>5, <1>6, <1>7, <1>8, <1>9 DEF Next, Ec, Host

LEMMA AgedStep == Inv /\ [Next]_vars => Aged'
<1> SUFFICES ASSUME Inv, [Next]_vars PROVE Aged'
  OBVIOUS
<1> USE ByteFields, BlankByte DEF Inv, RegisterType, HostType, HistoryType, InHand,
      Kept, Aged, ecVars, hostVars, history
<1>1. CASE BeginPass \/ ReadLow \/ CompareLow \/ CompareHigh
  BY <1>1 DEF BeginPass, EcStep, ReadLow, CompareLow, CompareHigh
<1>2. CASE StockDecision
  BY <1>2 DEF StockDecision, EcStep
<1>3. CASE WriteLow
  BY <1>3 DEF WriteLow, EcStep
<1>4. CASE ReadHigh
  BY <1>4 DEF ReadHigh, EcStep
<1>5. CASE WriteHigh
  BY <1>5 DEF WriteHigh, EcStep
<1>6. CASE CommandSet \/ CommandDisable
  BY <1>6 DEF CommandSet, HostBegin, SetCommand, CommandDisable, DisableCommand
<1>7. CASE HostReadHigh \/ HostReadLow \/ HostReadSoc \/ HostKilled
  BY <1>7 DEF HostReadHigh, HostReadLow, HostReadSoc, HostKilled
<1>8. CASE HostWriteLow \/ HostWriteHigh
  BY <1>8 DEF HostWriteLow, Touch, Byte, HostWriteHigh
<1>9. CASE SocMoves \/ UNCHANGED vars
  BY <1>9 DEF SocMoves, vars
<1> QED
  BY <1>1, <1>2, <1>3, <1>4, <1>5, <1>6, <1>7, <1>8, <1>9 DEF Next, Ec, Host

LEMMA CoherentStep == Inv /\ [Next]_vars => Coherent'
<1> SUFFICES ASSUME Inv, [Next]_vars PROVE Coherent'
  OBVIOUS
<1> USE ByteFields, BlankByte DEF Inv, RegisterType, HistoryType, Coherent, ecVars,
      hostVars, history, Disabled
<1>1. CASE BeginPass \/ ReadLow \/ CompareLow \/ CompareHigh
  BY <1>1 DEF BeginPass, EcStep, ReadLow, CompareLow, CompareHigh
<1>2. CASE WriteLow
  BY <1>2 DEF WriteLow, EcStep
<1>3. CASE ReadHigh
  BY <1>3 DEF ReadHigh, EcStep
<1>4. CASE WriteHigh
  BY <1>4 DEF WriteHigh, EcStep
<1>5. CASE StockDecision
  <2>1. ~ValidPair(raw.v, r3.v) /\ ~Disabled(raw.v, r3.v)
    BY <1>5 DEF StockDecision, EcStep, UpperOnly, ValidPair
  <2> QED
    BY <1>5, <2>1 DEF StockDecision, EcStep
<1>6. CASE CommandSet \/ CommandDisable
  BY <1>6 DEF CommandSet, HostBegin, SetCommand, CommandDisable, DisableCommand
<1>7. CASE HostReadHigh \/ HostReadLow \/ HostReadSoc \/ HostKilled
  BY <1>7 DEF HostReadHigh, HostReadLow, HostReadSoc, HostKilled
<1>8. CASE HostWriteLow \/ HostWriteHigh
  BY <1>8 DEF HostWriteLow, Touch, Byte, HostWriteHigh
<1>9. CASE SocMoves \/ UNCHANGED vars
  BY <1>9 DEF SocMoves, vars
<1> QED
  BY <1>1, <1>2, <1>3, <1>4, <1>5, <1>6, <1>7, <1>8, <1>9 DEF Next, Ec, Host

LEMMA ReleasedStep == Inv /\ [Next]_vars => Released'
<1> SUFFICES ASSUME Inv, [Next]_vars PROVE Released'
  OBVIOUS
<1> USE ByteFields DEF Inv, RegisterType, HostType, Kept, Coherent, Released,
      ecVars, hostVars, history, Disabled, ValidPair, UpperOnly
<1>1. CASE BeginPass \/ ReadLow \/ CompareLow \/ CompareHigh
  BY <1>1 DEF BeginPass, EcStep, ReadLow, CompareLow, CompareHigh
<1>2. CASE StockDecision \/ WriteLow
  BY <1>2 DEF StockDecision, EcStep, WriteLow
<1>3. CASE ReadHigh
  BY <1>3 DEF ReadHigh, EcStep
<1>4. CASE WriteHigh
  BY <1>4 DEF WriteHigh, EcStep
<1>5. CASE CommandSet \/ CommandDisable
  BY <1>5 DEF CommandSet, HostBegin, SetCommand, CommandDisable, DisableCommand
<1>6. CASE HostReadHigh \/ HostReadLow \/ HostReadSoc \/ HostKilled
  BY <1>6 DEF HostReadHigh, HostReadLow, HostReadSoc, HostKilled
<1>7. CASE HostWriteLow \/ HostWriteHigh
  BY <1>7 DEF HostWriteLow, Touch, Byte, HostWriteHigh
<1>8. CASE SocMoves \/ UNCHANGED vars
  BY <1>8 DEF SocMoves, vars
<1> QED
  BY <1>1, <1>2, <1>3, <1>4, <1>5, <1>6, <1>7, <1>8 DEF Next, Ec, Host

LEMMA InvStep == Inv /\ [Next]_vars => Inv'
<1> SUFFICES ASSUME Inv, [Next]_vars PROVE Inv'
  OBVIOUS
<1>1. RegisterType' /\ HostType' /\ HistoryType'
  BY RegisterTypeStep, HostTypeStep, HistoryTypeStep
<1>2. InHand' /\ Kept' /\ Aged'
  BY InHandStep, KeptStep, AgedStep
<1>3. Coherent' /\ Released'
  BY CoherentStep, ReleasedStep
<1> QED
  BY <1>1, <1>2, <1>3 DEF Inv

LEMMA Invariance == Spec => []Inv
BY InitInv, InvStep, PTL DEF Spec

-----------------------------------------------------------------------------
(* Registers, policy pass and host command stay in their types: a byte     *)
(* either side writes has a threshold the host asked for, or none.         *)
THEOREM HostTypeCorrect == Spec => []TypeOK
<1>1. Inv => TypeOK
  BY TypeParts DEF Inv
<1> QED
  BY <1>1, Invariance, PTL

(* The thresholds of a finished host command stand, whatever passes ran    *)
(* in between, unless the policy wrote a register back over them.          *)
THEOREM CommandsKept == Spec => []KeptUnlessLost
<1>1. Inv => KeptUnlessLost
  BY DEF Inv, Kept, KeptUnlessLost
<1> QED
  BY <1>1, Invariance, PTL

(* A pass decides on an upper limit no younger than the lower one, and a   *)
(* pass no host write overlaps leaves the two flags coherent.              *)
THEOREM PassesCoherent == Spec => []PassCoherent
<1>1. Inv => NoStalePair
  <2> SUFFICES ASSUME Inv, ecPc \notin {"idle", "readLow"}, lost = {}
               PROVE  raw.ver >= r3.ver
    BY DEF NoStalePair
  <2>1. raw.ver \in Nat /\ r3.ver \in Nat
    BY ByteFields DEF Inv, RegisterType
  <2>2. r3.ver <= raw.ver
    BY DEF Inv, Aged
  <2> QED
    BY <2>1, <2>2
<1>2. Inv => FlagsCoherent
  <2> SUFFICES ASSUME Inv, settled, ecPc = "idle"
               PROVE  /\ ValidPair(lowReg.v, highReg.v) => highReg.bit7 = ~lowReg.bit7
                      /\ Disabled(lowReg.v, highReg.v) => ~highReg.bit7 /\ ~lowReg.bit7
    BY DEF FlagsCoherent, Disabled
  <2>1. highReg.bit7 \in BOOLEAN /\ lowReg.bit7 \in BOOLEAN
    BY ByteFields DEF Inv, RegisterType
  <2>2. /\ ValidPair(lowReg.v, highReg.v) => (highReg.bit7 <=> ~lowReg.bit7)
        /\ Disabled(lowReg.v, highReg.v) => ~highReg.bit7 /\ ~lowReg.bit7
    BY DEF Inv, Coherent
  <2> QED
    BY <2>1, <2>2
<1> QED
  BY <1>1, <1>2, Invariance, PTL DEF PassCoherent

(* A disable command releases charging within one pass, unless one of its  *)
(* writes was lost.                                                        *)
THEOREM DisableReleased == Spec => []DisableReleasesUnlessLost
<1>1. Inv => DisableReleasesUnlessLost
  BY DEF Inv, Released, DisableReleasesUnlessLost
<1> QED
  BY <1>1, Invariance, PTL
=============================================================================
