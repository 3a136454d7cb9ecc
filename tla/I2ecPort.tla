------------------------------- MODULE I2ecPort -------------------------------
(***************************************************************************)
(* i2ec_rw.py and its client watch_i2ec_battery.py: a byte of EC memory is *)
(* reached by three accesses to I/O ports (high and low half of the        *)
(* address, then the data), on latches that all processes share.  Processes*)
(* exclude each other with flock on /dev/port.  Any of them may die, or an *)
(* access may fail, between any two accesses.                              *)
(***************************************************************************)
EXTENDS Integers, Sequences

CONSTANTS
  Clients,       \* processes that run a command of i2ec_rw.py or the watcher
  Watchers,      \* those that run watch_i2ec_battery.py
  NoClient,      \* holder of the free lock
  Addresses,     \* EC addresses in use
  Live,          \* those the firmware changes by itself
  Control,       \* 200D, SPCTRL1
  Values,        \* byte values
  WriteMode,     \* values of SPCTRL1 that show read-write mode
  NoValue        \* no byte read yet

AddressSpace == 65536

ASSUME ClientsAssumption == Watchers \subseteq Clients /\ NoClient \notin Clients
ASSUME AddressesAssumption ==
  (\A a \in Addresses : a \in Nat /\ a < AddressSpace) /\ Live \subseteq Addresses /\ Control \in Addresses
ASSUME ValuesAssumption == WriteMode \subseteq Values /\ NoValue \notin Values

VARIABLES
  mem,           \* EC memory
  high, low,     \* the address latches
  lock,          \* holder of /dev/port
  pc,            \* next port access of each client
  program,       \* the accesses of its command that are still to come
  got,           \* the last byte it has read
  stop,          \* watchers that have received SIGINT
  seen           \* EC memory as the session of each client must find it: as it
                 \* was when the session began, with the client's own writes
                 \* since; NoValue where the firmware has changed it (history)

clientVars == <<pc, program, got>>
latches == <<high, low>>
vars == <<mem, latches, lock, clientVars, stop, seen>>

Access == [op : {"check", "read"}, addr : Addresses, value : {NoValue}]
          \union [op : {"write"}, addr : Addresses, value : Values]
Rd(a) == [op |-> "read", addr |-> a, value |-> NoValue]
Wr(a, v) == [op |-> "write", addr |-> a, value |-> v]
Check == [op |-> "check", addr |-> Control, value |-> NoValue]

(* The commands as sequences of accesses: read, read of two bytes (and the *)
(* dump of a range), write with --force and without.  A watcher takes      *)
(* samples of several bytes.                                               *)
Pairs == {<<Rd(a), Rd(b)>> : a, b \in Addresses}
ForcedWrites == {<<Rd(a), Wr(a, v), Rd(a)>> : a \in Addresses, v \in Values}
GuardedWrites == {<<Check, Rd(a), Wr(a, v), Rd(a)>> : a \in Addresses, v \in Values}
Programs(c) ==
  IF c \in Watchers THEN Pairs
  ELSE {<<Rd(a)>> : a \in Addresses} \union Pairs \union ForcedWrites \union GuardedWrites

-----------------------------------------------------------------------------

Step(c, from, to) == pc[c] = from /\ pc' = [pc EXCEPT ![c] = to]

(* os.open and flock(LOCK_EX), held until the process closes the port.     *)
OpenUnlocked(c) ==      \* fault: the lock is not waited for
  /\ Step(c, "closed", "high")
  /\ lock' = c
  /\ \E p \in Programs(c) : program' = [program EXCEPT ![c] = p]
  /\ seen' = [seen EXCEPT ![c] = mem]
  /\ UNCHANGED <<mem, latches, got, stop>>
Open(c) ==
  /\ Step(c, "closed", "high")
  /\ lock = NoClient
  /\ lock' = c
  /\ \E p \in Programs(c) : program' = [program EXCEPT ![c] = p]
  /\ seen' = [seen EXCEPT ![c] = mem]
  /\ UNCHANGED <<mem, latches, got, stop>>

Target(c) == Head(program[c]).addr

SelectHighOnce(c) ==      \* fault: the high half is written for the first access only
  /\ Step(c, "high", "low")
  /\ high' = IF got[c] = NoValue THEN Target(c) \div 256 ELSE high
  /\ UNCHANGED <<mem, low, lock, program, got, stop, seen>>
SelectHigh(c) ==
  /\ Step(c, "high", "low")
  /\ high' = Target(c) \div 256
  /\ UNCHANGED <<mem, low, lock, program, got, stop, seen>>

SelectLowWhole(c) ==      \* fault: the address is not masked
  /\ Step(c, "low", "data")
  /\ low' = Target(c)
  /\ UNCHANGED <<mem, high, lock, program, got, stop, seen>>
SelectLow(c) ==
  /\ Step(c, "low", "data")
  /\ low' = Target(c) % 256
  /\ UNCHANGED <<mem, high, lock, program, got, stop, seen>>

Selected == high * 256 + low
AfterData(c) == IF Len(program[c]) = 1 THEN "report" ELSE "high"

ReadData(c) ==
  LET access == Head(program[c])
      value == mem[Selected]
  IN /\ pc[c] = "data" /\ access.op # "write"
     /\ Step(c, "data", IF access.op = "check" /\ value \notin WriteMode THEN "error" ELSE AfterData(c))
     /\ got' = [got EXCEPT ![c] = value]
     /\ program' = [program EXCEPT ![c] = Tail(@)]
     /\ UNCHANGED <<mem, latches, lock, stop, seen>>

WriteDataUnlocks(c) ==      \* fault: the lock is given up before the read-back
  LET access == Head(program[c])
  IN /\ pc[c] = "data" /\ access.op = "write"
     /\ Step(c, "data", AfterData(c))
     /\ lock' = NoClient
     /\ mem' = [mem EXCEPT ![Selected] = access.value]
     /\ seen' = [seen EXCEPT ![c][access.addr] = access.value]
     /\ program' = [program EXCEPT ![c] = Tail(@)]
     /\ UNCHANGED <<latches, got, stop>>
WriteData(c) ==
  LET access == Head(program[c])
  IN /\ pc[c] = "data" /\ access.op = "write"
     /\ Step(c, "data", AfterData(c))
     /\ mem' = [mem EXCEPT ![Selected] = access.value]
     /\ seen' = [seen EXCEPT ![c][access.addr] = access.value]
     /\ program' = [program EXCEPT ![c] = Tail(@)]
     /\ UNCHANGED <<latches, lock, got, stop>>

(* A port access fails: the command ends with an error, the watcher prints *)
(* it and drops the sample.                                                *)
AccessFails(c) ==
  /\ pc[c] \in {"high", "low", "data"}
  /\ pc' = [pc EXCEPT ![c] = IF c \in Watchers THEN "report" ELSE "error"]
  /\ UNCHANGED <<mem, latches, lock, program, got, stop, seen>>

(* The watcher keeps the port open and samples until it is asked to stop.  *)
ResampleAlways(c) ==      \* fault: no look at the stop flag
  /\ c \in Watchers
  /\ Step(c, "report", "high")
  /\ \E p \in Programs(c) : program' = [program EXCEPT ![c] = p]
  /\ got' = [got EXCEPT ![c] = NoValue]
  /\ UNCHANGED <<mem, latches, lock, stop, seen>>
Resample(c) ==
  /\ c \in Watchers /\ c \notin stop
  /\ Step(c, "report", "high")
  /\ \E p \in Programs(c) : program' = [program EXCEPT ![c] = p]
  /\ got' = [got EXCEPT ![c] = NoValue]
  /\ UNCHANGED <<mem, latches, lock, stop, seen>>

Unknown == [a \in Addresses |-> NoValue]
Release(c) ==
  /\ pc' = [pc EXCEPT ![c] = "closed"]
  /\ lock' = IF lock = c THEN NoClient ELSE lock
  /\ stop' = stop \ {c}
  /\ program' = [program EXCEPT ![c] = <<>>]
  /\ got' = [got EXCEPT ![c] = NoValue]
  /\ seen' = [seen EXCEPT ![c] = Unknown]
  /\ UNCHANGED <<mem, latches>>

Close(c) ==
  /\ pc[c] \in {"report", "error"}
  /\ c \in Watchers => c \in stop
  /\ Release(c)

(* SIGKILL, or SIGINT to a command of i2ec_rw.py.                          *)
Killed(c) == pc[c] # "closed" /\ Release(c)

Interrupt(c) ==
  /\ c \in Watchers /\ pc[c] # "closed"
  /\ stop' = stop \union {c}
  /\ UNCHANGED <<mem, latches, lock, clientVars, seen>>

(* The firmware runs all the time.                                         *)
Firmware(a, v) ==
  /\ mem' = [mem EXCEPT ![a] = v]
  /\ seen' = [c \in Clients |-> [seen[c] EXCEPT ![a] = NoValue]]
  /\ UNCHANGED <<latches, lock, clientVars, stop>>

-----------------------------------------------------------------------------

Init ==
  /\ mem \in [Addresses -> Values]
  /\ high = 0 /\ low = 0
  /\ lock = NoClient
  /\ pc = [c \in Clients |-> "closed"]
  /\ program = [c \in Clients |-> <<>>]
  /\ got = [c \in Clients |-> NoValue]
  /\ stop = {}
  /\ seen = [c \in Clients |-> Unknown]

Goes(c) == SelectHigh(c) \/ SelectLow(c) \/ ReadData(c) \/ WriteData(c) \/ Resample(c) \/ Close(c)

Next ==
  \/ \E c \in Clients : Open(c) \/ Goes(c) \/ AccessFails(c) \/ Killed(c) \/ Interrupt(c)
  \/ \E a \in Live, v \in Values : Firmware(a, v)

Spec == Init /\ [][Next]_vars

(* A process that has the port is scheduled, and its signal handler runs.  *)
Fairness == \A c \in Clients : WF_vars(Goes(c))
FairSpec == Spec /\ Fairness

-----------------------------------------------------------------------------
(* Properties.                                                             *)

Byte == 0 .. 255

(* Every variable has its type; the latches are bytes.                     *)
TypeOK ==
  /\ mem \in [Addresses -> Values]
  /\ high \in Byte /\ low \in Byte
  /\ lock \in Clients \union {NoClient}
  /\ pc \in [Clients -> {"closed", "high", "low", "data", "report", "error"}]
  /\ program \in [Clients -> Seq(Access)]
  /\ got \in [Clients -> Values \union {NoValue}]
  /\ stop \subseteq Watchers
  /\ seen \in [Clients -> [Addresses -> Values \union {NoValue}]]

(* The data access of a client meets the address it has selected, whoever  *)
(* used the latches before and wherever they were left.                    *)
AccessReachesItsByte == \A c \in Clients : pc[c] = "data" => Selected = Target(c)

(* A session sees the memory as if it were alone: the byte it is about to  *)
(* access is what this client last wrote there in this session, or what    *)
(* stood there when the session began, unless the firmware has changed it  *)
(* since.  In particular the read-back of cmd_write finds the byte that    *)
(* cmd_write wrote, and not the later write of another process.            *)
SessionIsolated ==
  \A c \in Clients : pc[c] = "data" => seen[c][Target(c)] \in {NoValue, mem[Selected]}

(* Three port accesses implement one access to a register.                 *)
R == INSTANCE Registers WITH user <- lock, answer <- got
ImplementsRegisters == R!Spec

(* A session ends and frees the port for the next, the watcher's once it   *)
(* has been interrupted.                                                   *)
SessionsEnd ==
  \A c \in Clients : (pc[c] # "closed" /\ (c \in Watchers => c \in stop)) ~> pc[c] = "closed"

=============================================================================
