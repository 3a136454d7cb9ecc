--------------------------- MODULE I2ecPortProofs ---------------------------
(***************************************************************************)
(* Theorems about I2ecPort for every set of clients, addresses and values. *)
(***************************************************************************)
EXTENDS I2ecPort, TLAPS

(* What the properties lean on.  Only the holder of the lock is in a       *)
(* session; a client that accesses a port has an access left to make; the  *)
(* latches a session has set so far hold its address; what the session of  *)
(* a client expects of the memory is there.                                *)
Exclusive == \A c \in Clients : pc[c] # "closed" => lock = c
Loaded == \A c \in Clients : pc[c] \in {"high", "low", "data"} => program[c] # <<>>
LatchesFollow ==
  \A c \in Clients :
    /\ pc[c] \in {"low", "data"} => high = Target(c) \div 256
    /\ pc[c] = "data" => low = Target(c) % 256
SeenIsMemory ==
  \A c \in Clients : pc[c] # "closed" => \A a \in Addresses : seen[c][a] \in {NoValue, mem[a]}

IInv == TypeOK /\ Exclusive /\ Loaded /\ LatchesFollow /\ SeenIsMemory

LEMMA ProgramsTyped ==
  ASSUME NEW c \in Clients, NEW p \in Programs(c)
  PROVE  p \in Seq(Access) /\ p # <<>>
<1>1. \A a \in Addresses : Rd(a) \in Access
  BY DEF Rd, Access
<1>2. \A a \in Addresses, v \in Values : Wr(a, v) \in Access
  BY DEF Wr, Access
<1>3. Check \in Access
  BY AddressesAssumption DEF Check, Access
<1>4. CASE p \in Pairs
  <2>1. PICK a \in Addresses, b \in Addresses : p = <<Rd(a), Rd(b)>>
    BY <1>4, SMT DEF Pairs
  <2> QED
    BY <1>1, <2>1, SMT
<1>5. CASE p \in {<<Rd(a)>> : a \in Addresses}
  <2>1. PICK a \in Addresses : p = <<Rd(a)>>
    BY <1>5, SMT
  <2> QED
    BY <1>1, <2>1, SMT
<1>6. CASE p \in ForcedWrites
  <2>1. PICK a \in Addresses, v \in Values : p = <<Rd(a), Wr(a, v), Rd(a)>>
    BY <1>6, SMT DEF ForcedWrites
  <2> QED
    BY <1>1, <1>2, <2>1, SMT
<1>7. CASE p \in GuardedWrites
  <2>1. PICK a \in Addresses, v \in Values : p = <<Check, Rd(a), Wr(a, v), Rd(a)>>
    BY <1>7, SMT DEF GuardedWrites
  <2> QED
    BY <1>1, <1>2, <1>3, <2>1, SMT
<1> QED
  BY <1>4, <1>5, <1>6, <1>7 DEF Programs

(* The access at hand and the ones after it.                               *)
LEMMA AtHand ==
  ASSUME TypeOK, Loaded, NEW c \in Clients, pc[c] \in {"high", "low", "data"}
  PROVE  /\ Head(program[c]) \in Access
         /\ Target(c) \in Addresses
         /\ Tail(program[c]) \in Seq(Access)
         /\ Len(program[c]) # 1 => Tail(program[c]) # <<>>
<1>1. program[c] \in Seq(Access) /\ program[c] # <<>>
  BY DEF TypeOK, Loaded
<1>2. Head(program[c]) \in Access /\ Tail(program[c]) \in Seq(Access)
  BY <1>1
<1>3. Len(program[c]) # 1 => Tail(program[c]) # <<>>
  <2>1. Len(Tail(program[c])) = Len(program[c]) - 1 /\ Len(program[c]) \in Nat
    BY <1>1
  <2>2. Len(<< >>) = 0
    OBVIOUS
  <2>3. Tail(program[c]) = << >> => Len(Tail(program[c])) = Len(<< >>)
    BY Zenon
  <2>4. Len(program[c]) # 1 => Len(Tail(program[c])) # 0
    BY <2>1
  <2> QED
    BY <2>2, <2>3, <2>4, Zenon
<1>4. Target(c) \in Addresses
  BY <1>2 DEF Target, Access
<1> QED
  BY <1>2, <1>3, <1>4

(* Split into its halves and put together again, an address is itself.     *)
LEMMA Halves ==
  ASSUME NEW a \in Addresses
  PROVE  /\ a \div 256 \in Byte
         /\ a % 256 \in Byte
         /\ (a \div 256) * 256 + (a % 256) = a
<1>1. a \in Nat /\ a < AddressSpace
  BY AddressesAssumption
<1>2. a \div 256 \in Nat /\ a \div 256 <= 255
  BY <1>1, SMT DEF AddressSpace
<1>3. a % 256 \in Nat /\ a % 256 <= 255 /\ a % 256 = a - (a \div 256) * 256
  BY <1>1, SMT
<1> QED
  BY <1>1, <1>2, <1>3, SMT DEF Byte

LEMMA DataAddress ==
  ASSUME TypeOK, Loaded, LatchesFollow, NEW c \in Clients, pc[c] = "data"
  PROVE  Selected = Target(c) /\ Target(c) \in Addresses
<1>1. Target(c) \in Addresses
  BY AtHand
<1>2. high = Target(c) \div 256 /\ low = Target(c) % 256
  BY DEF LatchesFollow
<1> QED
  BY <1>1, <1>2, Halves DEF Selected

LEMMA InitIInv == Init => IInv
<1> SUFFICES ASSUME Init PROVE IInv
  OBVIOUS
<1>1. 0 \in Byte
  BY DEF Byte
<1>2. << >> \in Seq(Access)
  OBVIOUS
<1>3. TypeOK
  BY <1>1, <1>2 DEF Init, TypeOK, Unknown
<1>4. Exclusive /\ Loaded /\ LatchesFollow /\ SeenIsMemory
  BY DEF Init, Exclusive, Loaded, LatchesFollow, SeenIsMemory, Unknown
<1> QED
  BY <1>3, <1>4 DEF IInv

(* One lemma per action: it keeps the invariant.                           *)
LEMMA OpenKeeps ==
  ASSUME IInv, NEW c \in Clients, Open(c)
  PROVE  IInv'
<1> USE DEF IInv
<1>1. PICK p \in Programs(c) : program' = [program EXCEPT ![c] = p]
  BY DEF Open
<1>2. p \in Seq(Access) /\ p # <<>>
  BY ProgramsTyped
<1>3. TypeOK'
  BY <1>1, <1>2 DEF Open, Step, TypeOK, latches
<1>4. Exclusive'
  BY ClientsAssumption DEF Open, Step, TypeOK, Exclusive
<1>5. Loaded'
  BY <1>1, <1>2 DEF Open, Step, TypeOK, Loaded
<1>6. LatchesFollow'
  BY <1>1 DEF Open, Step, TypeOK, LatchesFollow, Target, latches
<1>7. SeenIsMemory'
  BY DEF Open, Step, TypeOK, SeenIsMemory
<1> QED
  BY <1>3, <1>4, <1>5, <1>6, <1>7

LEMMA SelectHighKeeps ==
  ASSUME IInv, NEW c \in Clients, SelectHigh(c)
  PROVE  IInv'
<1> USE DEF IInv
<1>1. Target(c) \div 256 \in Byte
  BY AtHand, Halves DEF SelectHigh, Step
<1>2. TypeOK'
  BY <1>1 DEF SelectHigh, Step, TypeOK
<1>3. Exclusive' /\ Loaded' /\ SeenIsMemory'
  BY DEF SelectHigh, Step, TypeOK, Exclusive, Loaded, SeenIsMemory
<1>4. \A d \in Clients \ {c} : pc[d] = "closed"
  BY DEF SelectHigh, Step, Exclusive
<1>5. LatchesFollow'
  BY <1>4 DEF SelectHigh, Step, TypeOK, LatchesFollow, Target
<1> QED
  BY <1>2, <1>3, <1>5

LEMMA SelectLowKeeps ==
  ASSUME IInv, NEW c \in Clients, SelectLow(c)
  PROVE  IInv'
<1> USE DEF IInv
<1>1. Target(c) % 256 \in Byte
  BY AtHand, Halves DEF SelectLow, Step
<1>2. TypeOK'
  BY <1>1 DEF SelectLow, Step, TypeOK
<1>3. Exclusive' /\ Loaded' /\ SeenIsMemory'
  BY DEF SelectLow, Step, TypeOK, Exclusive, Loaded, SeenIsMemory
<1>4. \A d \in Clients \ {c} : pc[d] = "closed"
  BY DEF SelectLow, Step, Exclusive
<1>5. LatchesFollow'
  BY <1>4 DEF SelectLow, Step, TypeOK, LatchesFollow, Target
<1> QED
  BY <1>2, <1>3, <1>5

(* After the data access the rest of the program is loaded.                *)
LEMMA DataLoads ==
  ASSUME IInv, NEW c \in Clients, pc[c] = "data", NEW to, pc' = [pc EXCEPT ![c] = to],
         to \in {AfterData(c), "error"}, program' = [program EXCEPT ![c] = Tail(@)]
  PROVE  /\ Loaded'
         /\ pc' \in [Clients -> {"closed", "high", "low", "data", "report", "error"}]
         /\ program' \in [Clients -> Seq(Access)]
         /\ pc[c] # "closed" /\ pc'[c] \notin {"low", "data", "closed"}
<1>1. /\ Tail(program[c]) \in Seq(Access)
      /\ Len(program[c]) # 1 => Tail(program[c]) # <<>>
  BY AtHand DEF IInv
<1>2. to \in {"high", "report", "error"} /\ (to = "high" => Tail(program[c]) # <<>>)
  BY <1>1 DEF AfterData
<1> QED
  BY <1>1, <1>2 DEF IInv, TypeOK, Loaded

LEMMA ReadDataKeeps ==
  ASSUME IInv, NEW c \in Clients, ReadData(c)
  PROVE  IInv'
<1> USE DEF IInv
<1>1. pc[c] = "data" /\ program' = [program EXCEPT ![c] = Tail(@)]
  BY DEF ReadData
<1>2. PICK to \in {AfterData(c), "error"} : pc' = [pc EXCEPT ![c] = to]
  BY DEF ReadData, Step
<1>3. /\ Loaded'
      /\ pc' \in [Clients -> {"closed", "high", "low", "data", "report", "error"}]
      /\ program' \in [Clients -> Seq(Access)]
      /\ pc[c] # "closed" /\ pc'[c] \notin {"low", "data", "closed"}
  BY <1>1, <1>2, DataLoads
<1>4. mem[Selected] \in Values
  BY <1>1, DataAddress DEF TypeOK
<1>5. TypeOK'
  BY <1>3, <1>4 DEF ReadData, TypeOK, latches
<1>6. Exclusive' /\ SeenIsMemory'
  BY <1>2, <1>3 DEF ReadData, TypeOK, Exclusive, SeenIsMemory
<1>7. LatchesFollow'
  BY <1>1, <1>2, <1>3 DEF ReadData, TypeOK, LatchesFollow, Target, latches
<1> QED
  BY <1>3, <1>5, <1>6, <1>7

LEMMA WriteDataKeeps ==
  ASSUME IInv, NEW c \in Clients, WriteData(c)
  PROVE  IInv'
<1> USE DEF IInv
<1> DEFINE access == Head(program[c])
<1>1. /\ pc[c] = "data" /\ access.op = "write" /\ program' = [program EXCEPT ![c] = Tail(@)]
      /\ pc' = [pc EXCEPT ![c] = AfterData(c)]
  BY DEF WriteData, Step
<1>2. /\ Loaded'
      /\ pc' \in [Clients -> {"closed", "high", "low", "data", "report", "error"}]
      /\ program' \in [Clients -> Seq(Access)]
      /\ pc[c] # "closed" /\ pc'[c] \notin {"low", "data", "closed"}
  BY <1>1, DataLoads
<1>3. access \in Access
  BY <1>1, AtHand
<1>4. access.value \in Values /\ access.addr \in Addresses /\ access.addr = Selected
  BY <1>1, <1>3, DataAddress DEF Access, Target
<1>5. /\ mem' = [mem EXCEPT ![Selected] = access.value]
      /\ seen' = [seen EXCEPT ![c][Selected] = access.value]
      /\ UNCHANGED <<latches, lock, got, stop>>
  BY <1>4 DEF WriteData
<1> HIDE DEF access
<1>6. TypeOK'
  BY <1>2, <1>4, <1>5 DEF TypeOK, latches
<1>7. Exclusive'
  BY <1>1, <1>2, <1>5 DEF TypeOK, Exclusive
<1>8. SeenIsMemory'
  <2>1. \A d \in Clients \ {c} : pc'[d] = "closed"
    BY <1>1, ClientsAssumption DEF TypeOK, Exclusive
  <2>2. \A a \in Addresses : seen'[c][a] \in {NoValue, mem'[a]}
    BY <1>1, <1>4, <1>5 DEF TypeOK, SeenIsMemory
  <2> QED
    BY <2>1, <2>2 DEF SeenIsMemory
<1>9. LatchesFollow'
  BY <1>1, <1>2, <1>5 DEF TypeOK, LatchesFollow, Target, latches
<1> QED
  BY <1>2, <1>6, <1>7, <1>8, <1>9

LEMMA AccessFailsKeeps ==
  ASSUME IInv, NEW c \in Clients, AccessFails(c)
  PROVE  IInv'
<1> USE DEF IInv
<1>1. TypeOK'
  BY DEF AccessFails, TypeOK, latches
<1>2. Exclusive' /\ Loaded' /\ SeenIsMemory'
  BY DEF AccessFails, TypeOK, Exclusive, Loaded, SeenIsMemory
<1>3. LatchesFollow'
  BY DEF AccessFails, TypeOK, LatchesFollow, Target, latches
<1> QED
  BY <1>1, <1>2, <1>3

LEMMA ResampleKeeps ==
  ASSUME IInv, NEW c \in Clients, Resample(c)
  PROVE  IInv'
<1> USE DEF IInv
<1>1. PICK p \in Programs(c) : program' = [program EXCEPT ![c] = p]
  BY DEF Resample
<1>2. p \in Seq(Access) /\ p # <<>>
  BY ProgramsTyped
<1>3. TypeOK'
  BY <1>1, <1>2 DEF Resample, Step, TypeOK, latches
<1>4. Exclusive' /\ SeenIsMemory'
  BY DEF Resample, Step, TypeOK, Exclusive, SeenIsMemory
<1>5. Loaded'
  BY <1>1, <1>2 DEF Resample, Step, TypeOK, Loaded
<1>6. LatchesFollow'
  BY <1>1 DEF Resample, Step, TypeOK, LatchesFollow, Target, latches
<1> QED
  BY <1>3, <1>4, <1>5, <1>6

LEMMA ReleaseKeeps ==
  ASSUME IInv, NEW c \in Clients, Release(c), pc[c] # "closed"
  PROVE  IInv'
<1> USE DEF IInv
<1>1. << >> \in Seq(Access)
  OBVIOUS
<1>2. TypeOK'
  BY <1>1 DEF Release, Unknown, TypeOK, latches
<1>3. Exclusive' /\ Loaded' /\ SeenIsMemory'
  BY DEF Release, Unknown, TypeOK, Exclusive, Loaded, SeenIsMemory
<1>4. LatchesFollow'
  BY DEF Release, TypeOK, LatchesFollow, Target, latches
<1> QED
  BY <1>2, <1>3, <1>4

LEMMA InterruptKeeps ==
  ASSUME IInv, NEW c \in Clients, Interrupt(c)
  PROVE  IInv'
<1> USE DEF IInv
<1>1. TypeOK'
  BY DEF Interrupt, TypeOK, latches, clientVars
<1>2. Exclusive' /\ Loaded' /\ SeenIsMemory' /\ LatchesFollow'
  BY DEF Interrupt, Exclusive, Loaded, SeenIsMemory, LatchesFollow, Target, latches, clientVars
<1> QED
  BY <1>1, <1>2

LEMMA FirmwareKeeps ==
  ASSUME IInv, NEW a \in Live, NEW v \in Values, Firmware(a, v)
  PROVE  IInv'
<1> USE DEF IInv
<1>1. a \in Addresses
  BY AddressesAssumption
<1>2. TypeOK'
  BY <1>1 DEF Firmware, TypeOK, latches, clientVars
<1>3. SeenIsMemory'
  BY <1>1 DEF Firmware, TypeOK, SeenIsMemory, clientVars
<1>4. Exclusive' /\ Loaded' /\ LatchesFollow'
  BY DEF Firmware, Exclusive, Loaded, LatchesFollow, Target, latches, clientVars
<1> QED
  BY <1>2, <1>3, <1>4

LEMMA StutterKeeps ==
  ASSUME IInv, UNCHANGED vars
  PROVE  IInv'
<1>1. TypeOK'
  BY DEF IInv, vars, latches, clientVars, TypeOK
<1>2. Exclusive' /\ Loaded' /\ LatchesFollow' /\ SeenIsMemory'
  BY DEF IInv, vars, latches, clientVars, Exclusive, Loaded, LatchesFollow, SeenIsMemory, Target
<1> QED
  BY <1>1, <1>2 DEF IInv

LEMMA Inductive == IInv /\ [Next]_vars => IInv'
<1> SUFFICES ASSUME IInv, [Next]_vars PROVE IInv'
  OBVIOUS
<1>1. ASSUME NEW c \in Clients, Goes(c) PROVE IInv'
  BY <1>1, SelectHighKeeps, SelectLowKeeps, ReadDataKeeps, WriteDataKeeps, ResampleKeeps,
     ReleaseKeeps, Zenon DEF Goes, Close
<1>2. ASSUME NEW c \in Clients, Open(c) \/ AccessFails(c) \/ Killed(c) \/ Interrupt(c) PROVE IInv'
  BY <1>2, OpenKeeps, AccessFailsKeeps, ReleaseKeeps, InterruptKeeps, Zenon DEF Killed
<1>3. ASSUME NEW a \in Live, NEW v \in Values, Firmware(a, v) PROVE IInv'
  BY <1>3, FirmwareKeeps
<1>4. CASE UNCHANGED vars
  BY <1>4, StutterKeeps
<1> QED
  BY <1>1, <1>2, <1>3, <1>4, Zenon DEF Next

LEMMA Invariance == Spec => []IInv
BY InitIInv, Inductive, PTL DEF Spec

(* Memory, latches, lock and programs stay in their types; the latches are *)
(* bytes, as the ports they stand for.                                     *)
THEOREM TypeCorrect == Spec => []TypeOK
<1>1. IInv => TypeOK
  BY DEF IInv
<1> QED
  BY <1>1, Invariance, PTL

(* The data access of read_xdata and write_xdata meets the address whose   *)
(* halves the client has just written, for any number of clients, wherever *)
(* killed clients left the latches.                                        *)
THEOREM ByteReached == Spec => []AccessReachesItsByte
<1>1. IInv => AccessReachesItsByte
  BY DataAddress, Zenon DEF IInv, AccessReachesItsByte
<1> QED
  BY <1>1, Invariance, PTL

(* Within a session of i2ec_rw.py a client finds what it last wrote, or    *)
(* what stood there when it began, unless the firmware has changed it:     *)
(* no other client's write comes in between, for any number of clients.    *)
THEOREM Isolation == Spec => []SessionIsolated
<1>1. ASSUME IInv, NEW c \in Clients, pc[c] = "data"
      PROVE  seen[c][Target(c)] \in {NoValue, mem[Selected]}
  <2>1. Selected = Target(c) /\ Target(c) \in Addresses
    BY <1>1, DataAddress, Zenon DEF IInv
  <2> QED
    BY <1>1, <2>1, Zenon DEF IInv, SeenIsMemory
<1>2. IInv => SessionIsolated
  BY <1>1, Zenon DEF SessionIsolated
<1> QED
  BY <1>2, Invariance, PTL

-----------------------------------------------------------------------------
(* Three port accesses implement one access to a register.                 *)

LEMMA InitRefines == Init => R!Init
BY DEF Init, R!Init

LEMMA OpenRefines ==
  ASSUME NEW c \in Clients, Open(c)
  PROVE  R!Begin(c)
BY DEF Open, R!Begin

LEMMA ReadDataRefines ==
  ASSUME IInv, NEW c \in Clients, ReadData(c)
  PROVE  R!Read(c, Target(c)) /\ Target(c) \in Addresses
<1>1. Selected = Target(c) /\ Target(c) \in Addresses
  BY DataAddress, Zenon DEF IInv, ReadData
<1>2. lock = c
  BY Zenon DEF IInv, Exclusive, ReadData
<1> QED
  BY <1>1, <1>2, Zenon DEF ReadData, R!Read

LEMMA WriteDataRefines ==
  ASSUME IInv, NEW c \in Clients, WriteData(c)
  PROVE  \E a \in Addresses, v \in Values : R!Write(c, a, v)
<1>1. Selected = Target(c) /\ Target(c) \in Addresses
  BY DataAddress, Zenon DEF IInv, WriteData
<1>2. Head(program[c]) \in Access /\ Head(program[c]).op = "write"
  BY AtHand, Zenon DEF IInv, WriteData
<1>3. Head(program[c]).value \in Values
  BY <1>2 DEF Access
<1>4. lock = c
  BY Zenon DEF IInv, Exclusive, WriteData
<1>5. R!Write(c, Target(c), Head(program[c]).value)
  BY <1>1, <1>4, Zenon DEF WriteData, R!Write
<1> QED
  BY <1>1, <1>3, <1>5, Zenon

LEMMA ResampleRefines ==
  ASSUME IInv, NEW c \in Clients, Resample(c)
  PROVE  R!Again(c)
<1>1. lock = c
  BY Zenon DEF IInv, Exclusive, Resample, Step
<1> QED
  BY <1>1, Zenon DEF Resample, R!Again

LEMMA ReleaseRefines ==
  ASSUME IInv, NEW c \in Clients, Release(c), pc[c] # "closed"
  PROVE  R!End(c)
<1>1. lock = c
  BY Zenon DEF IInv, Exclusive
<1> QED
  BY <1>1, Zenon DEF Release, R!End

LEMMA StepRefines == IInv /\ [Next]_vars => [R!Next]_(R!vars)
<1> SUFFICES ASSUME IInv, [Next]_vars PROVE [R!Next]_(R!vars)
  OBVIOUS
<1>1. ASSUME NEW c \in Clients, Open(c) PROVE R!Next
  BY <1>1, OpenRefines DEF R!Next
<1>2. ASSUME NEW c \in Clients, ReadData(c) PROVE R!Next
  BY <1>2, ReadDataRefines DEF R!Next
<1>3. ASSUME NEW c \in Clients, WriteData(c) PROVE R!Next
  BY <1>3, WriteDataRefines, Zenon DEF R!Next
<1>4. ASSUME NEW c \in Clients, Resample(c) PROVE R!Next
  BY <1>4, ResampleRefines DEF R!Next
<1>5. ASSUME NEW c \in Clients, Close(c) \/ Killed(c) PROVE R!Next
  <2>1. Release(c) /\ pc[c] # "closed"
    BY <1>5 DEF Close, Killed
  <2> QED
    BY <2>1, ReleaseRefines DEF R!Next
<1>6. ASSUME NEW a \in Live, NEW v \in Values, Firmware(a, v) PROVE R!Next
  <2>1. a \in Addresses
    BY AddressesAssumption
  <2>2. R!Firmware(a, v)
    BY <1>6 DEF Firmware, R!Firmware, clientVars
  <2> QED
    BY <2>1, <2>2, Zenon DEF R!Next
<1>7. ASSUME NEW c \in Clients, SelectHigh(c) \/ SelectLow(c) \/ AccessFails(c) \/ Interrupt(c)
      PROVE  UNCHANGED R!vars
  BY <1>7, Zenon DEF SelectHigh, SelectLow, AccessFails, Interrupt, clientVars, R!vars
<1>8. UNCHANGED vars => UNCHANGED R!vars
  BY Zenon DEF vars, clientVars, R!vars
<1> QED
  BY <1>1, <1>2, <1>3, <1>4, <1>5, <1>6, <1>7, <1>8, Zenon DEF Next, Goes

(* read_xdata, write_xdata and the sessions of the watcher implement the   *)
(* abstract register file, whatever the clients, their commands, their     *)
(* deaths and the firmware do.                                             *)
THEOREM PortRefinement == Spec => ImplementsRegisters
BY Invariance, InitRefines, StepRefines, PTL DEF Spec, ImplementsRegisters, R!Spec

=============================================================================
