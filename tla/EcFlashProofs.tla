----------------------------- MODULE EcFlashProofs -----------------------------
(***************************************************************************)
(* Theorems about ec-flash for a flash of any size, any images, any number *)
(* of commands and any deaths, signals, shutdowns and losses of power: the *)
(* marker only ever stands for a verified write, exit status 0 can be      *)
(* trusted, and a command that failed says so or leaves nothing behind.    *)
(***************************************************************************)
EXTENDS EcFlash, TLAPS

USE SizeAssumption, ImagesAssumption, MaxRunsAssumption

WriteStages == {"preRead", "ready", "latch", "mutate", "settle", "eraseVerify", "writeDisable", "verify"}
InFollowMode == WriteStages \cup {"readId", "read", "readFinish", "compare", "done"}
Quiet == {"preRead", "eraseVerify", "writeDisable", "verify"}
WayOut == {"exitFollow", "enableKbc", "arm", "end"}

-----------------------------------------------------------------------------
(* The inductive invariant, part by part.                                  *)

(* Which stages a command of each kind goes through.                       *)
Kinds ==
  /\ pc = "idle" <=> job = NoJob
  /\ job.op = "write" => pc \notin {"read", "readFinish", "compare"}
  /\ pc \in WriteStages \cup {"disarm", "delay", "readId", "arm"} => job.op = "write"
  /\ pc \in {"read", "readFinish", "compare"} => job.op = "read"
  /\ job.op = "write" => job.first <= job.last
  /\ pc \in WriteStages => job.first <= blk /\ blk <= job.last
  /\ pc = "readId" => blk = job.first
  /\ job.op = "write" /\ pc \in {"disarm", "delay", "disableKbc", "enterFollow"} => blk = job.first
  /\ ok => pc \in {"cleanup"} \cup WayOut
  /\ pc = "arm" => ok

(* Who runs when, and whom the marker and the consumed marker belong to.   *)
Owners ==
  /\ machine = "up" => consumed = Unarmed
  /\ job.op \in {"write", "read"} => machine = "up"
  /\ job.op = "reset" => consumed # Unarmed /\ marker = Unarmed
  /\ job.op = "write" /\ pc \in Working \ {"disarm"} => marker = Unarmed
  /\ job.op = "write" /\ ok /\ pc # "end" => marker = Unarmed

(* An armed or consumed marker finds its range in place and the chip idle. *)
Promised ==
  /\ marker # Unarmed => ~Busy /\ Holds(marker)
  /\ consumed # Unarmed => ~Busy /\ Holds(consumed)

(* The blocks a write is done with hold the image, and what is in flight   *)
(* concerns the block at hand.                                             *)
Progress ==
  /\ pc \in Quiet => ~Busy
  /\ pc \in WriteStages /\ Busy => busy.blk = blk
  /\ pc \in WriteStages =>
       \A b \in Blocks : job.first <= b /\ b < blk => content[b] = Whole(job.image)
  /\ job.op = "write" /\ (pc = "done" \/ ok) => ~Busy /\ Holds(job)

(* What the flags of the command say of the EC.                            *)
Undone ==
  /\ pc \in InFollowMode => inFollow
  /\ pc \in InFollowMode \cup {"enterFollow"} => kbcDisabled
  /\ ok /\ pc \in {"cleanup", "exitFollow"} => inFollow
  /\ ok /\ pc \in {"cleanup", "exitFollow", "enableKbc"} => kbcDisabled
  /\ ok /\ pc \in {"enableKbc", "arm", "end"} => ~follow
  /\ ok /\ pc \in {"arm", "end"} => ~kbcOff
  /\ ok /\ pc = "end" /\ job.op = "write" => marker # Unarmed

(* What the buffers of a dump hold.                                        *)
Buffers ==
  /\ pc \in {"disarm", "delay", "disableKbc", "enterFollow"} => got = <<>>
  /\ pc = "read" => got = <<>> \/ (job.double /\ Len(got) = 1 /\ ~Busy)
  /\ pc = "readFinish" => Len(got) = 1 \/ (job.double /\ Len(got) = 2 /\ got[2] = "flash")
  /\ pc = "compare" /\ job.double => Len(got) = 2 /\ got[2] = "flash"
  /\ job.op = "read" /\ job.double /\ (pc = "done" \/ ok) => got = <<"flash", "flash">>

(* What the command added to what it found, and which flag remembers it.   *)
Debts ==
  /\ pc \in InFollowMode => entered
  /\ pc \in WriteStages \ {"preRead"} => writeStarted
  /\ pc \in {"disarm", "delay", "disableKbc", "enterFollow", "readId",
             "read", "readFinish", "compare"} => ~writeStarted
  /\ pc # "idle" /\ ~warned =>
       /\ follow => found.follow \/ inFollow \/ readCut
       /\ kbcOff => found.kbcOff \/ kbcDisabled
       /\ wel /\ ~found.wel => /\ entered /\ writeStarted
                               /\ pc \notin WayOut \cup {"preRead", "verify", "done"}
                               /\ ~ok
       /\ Busy /\ ~found.busy => /\ entered /\ writeStarted
                                 /\ pc \notin WayOut \cup Quiet \cup {"done"}
                                 /\ ~ok
  /\ pc \in {"enableKbc", "arm", "end"} => ~inFollow
  /\ pc \in {"arm", "end"} => ~kbcDisabled

(* A read is cut on the way out of a command that has changed nothing.     *)
Cutting ==
  readCut => ~ok /\ ~writeStarted /\ pc \in {"cleanup", "exitFollow", "enableKbc", "end"}

(* The one mutation after a stop is followed by a wait that sees the stop. *)
Stopping ==
  afterStop > 0 => afterStop = 1 /\ stopped /\ pc \notin Working \ {"settle"}

(* The type invariant, part by part.                                       *)
ChipType ==
  /\ content \in [Blocks -> [Units -> Cells]]
  /\ busy \in {Ready} \cup [blk : Blocks, unit : Units, result : Cells]
  /\ wel \in BOOLEAN

PlaceType ==
  /\ pc \in Working \cup {"idle", "cleanup", "quiesce", "exitFollow", "enableKbc", "arm", "end"}
  /\ job \in {NoJob} \cup WriteJobs \cup ReadJobs \cup {ResetJob}
  /\ blk \in Blocks /\ unit \in Units /\ task \in {"unprotect", "erase", "program"}

FlagType ==
  /\ follow \in BOOLEAN /\ kbcOff \in BOOLEAN
  /\ machine \in {"up", "poweroff", "kexec"}
  /\ inFollow \in BOOLEAN /\ kbcDisabled \in BOOLEAN
  /\ entered \in BOOLEAN /\ writeStarted \in BOOLEAN
  /\ ok \in BOOLEAN /\ stopped \in BOOLEAN /\ warned \in BOOLEAN

RecordType ==
  /\ marker \in Promises /\ consumed \in Promises
  /\ got \in Seq({"flash", "nonsense"})
  /\ found \in [follow : BOOLEAN, kbcOff : BOOLEAN, wel : BOOLEAN, busy : BOOLEAN]
  /\ afterStop \in Nat /\ runs \in Nat

Inv ==
  /\ TypeOK /\ Kinds /\ Owners /\ Promised /\ Progress
  /\ Undone /\ Buffers /\ Debts /\ Cutting /\ Stopping

LEMMA JobShape ==
  ASSUME TypeOK
  PROVE  /\ job.op \in {"none", "write", "read", "reset"}
         /\ job.op = "none" <=> job = NoJob
         /\ job # NoJob => job.first \in Blocks /\ job.last \in Blocks /\ job.double \in BOOLEAN
         /\ job.op = "write" => job.image \in Images
<1>1. 1 \in Blocks /\ NBlocks \in Blocks
  BY DEF Blocks
<1>2. CASE job = NoJob
  BY <1>2 DEF NoJob
<1>3. CASE job \in WriteJobs
  <2>1. /\ job.op = "write" /\ job.first \in Blocks /\ job.last \in Blocks
        /\ job.image \in Images /\ job.double = FALSE
    BY <1>3 DEF WriteJobs, Job
  <2>2. job # NoJob
    BY <2>1 DEF NoJob
  <2> QED
    BY <2>1, <2>2
<1>4. CASE job \in ReadJobs
  BY <1>1, <1>4 DEF ReadJobs, Job, NoJob
<1>5. CASE job = ResetJob
  BY <1>1, <1>5 DEF ResetJob, Job, NoJob
<1> QED
  BY <1>2, <1>3, <1>4, <1>5 DEF TypeOK

CutType == readCut \in BOOLEAN

LEMMA TypeParts == ChipType /\ PlaceType /\ FlagType /\ RecordType /\ CutType => TypeOK
BY DEF TypeOK, ChipType, PlaceType, FlagType, RecordType, CutType

-----------------------------------------------------------------------------
(* The invariant holds at first.                                           *)
LEMMA InitInv == Init => Inv
<1> SUFFICES ASSUME Init PROVE Inv
  OBVIOUS
<1>1. PICK i \in Images : content = [b \in Blocks |-> Whole(i)]
  BY DEF Init
<1>2. 1 \in Blocks /\ 1 \in Units
  BY DEF Blocks, Units
<1>3. ChipType
  BY <1>1 DEF Init, ChipType, Whole, Cells, Ready
<1>4. PlaceType /\ FlagType
  BY <1>2 DEF Init, PlaceType, FlagType, Working
<1>5. RecordType
  BY DEF Init, RecordType, Promises
<1>6. NoJob.op = "none" /\ CutType
  BY DEF Init, NoJob, CutType
<1>7. Kinds /\ Owners /\ Promised /\ Progress
  BY <1>6 DEF Init, Kinds, Owners, Promised, Progress, WriteStages, WayOut, Quiet, Working, Busy, Ready
<1>8. Undone /\ Buffers /\ Debts /\ Cutting /\ Stopping
  BY <1>6 DEF Init, Undone, Buffers, Debts, Cutting, Stopping, InFollowMode, WriteStages, WayOut, Quiet
<1> QED
  BY <1>3, <1>4, <1>5, <1>6, <1>7, <1>8, TypeParts DEF Inv

-----------------------------------------------------------------------------
(* Every step preserves the types.                                         *)
LEMMA ChipTypeStep == Inv /\ [Next]_vars => ChipType'
<1> SUFFICES ASSUME Inv, [Next]_vars PROVE ChipType'
  OBVIOUS
<1> USE JobShape DEF Inv, TypeOK, Kinds, ChipType, chip, ec, env, place, flags, run,
      Go, Access, Busy, Cells
<1>1. CASE Disarm \/ WaitBeforeWrite \/ DisableKbc \/ EnterFollow \/ ReadId
  BY <1>1 DEF Disarm, WaitBeforeWrite, DisableKbc, EnterFollow, AfterEnter, ReadId
<1>2. CASE PreRead \/ WriteEnable \/ Latch \/ Settle \/ EraseVerify \/ WriteDisable
  BY <1>2 DEF PreRead, NextBlock, WriteEnable, StopRequested, Latch, Settle,
         EraseVerify, WriteDisable
<1>3. CASE Mutate
  <2>1. content[blk][unit] \in Cells /\ job.image \in Cells
    BY <1>3 DEF Mutate, WriteStages, Cells
  <2>2. PICK t \in Cells, r \in Cells : Accept(t, r)
    BY <1>3, <2>1 DEF Mutate, Cells
  <2>3. busy' \in [blk : Blocks, unit : Units, result : Cells] /\ UNCHANGED wel
    BY <2>2 DEF Accept
  <2>4. content' \in [Blocks -> [Units -> Cells]]
    BY <2>2 DEF Accept
  <2> QED
    BY <2>3, <2>4
<1>4. CASE Verify \/ WaitTimesOut \/ StopNoticed \/ ReadFlash \/ ReadFinish \/
         Compare
  BY <1>4 DEF Verify, NextBlock, WaitTimesOut, StopNoticed, StopRequested,
         ReadFlash, Sample, ReadFinish, Compare
<1>5. CASE Done \/ Cleanup \/ Quiesce \/ ExitFollow \/ EnableKbc \/ ArmShutdownReset
  BY <1>5 DEF Done, Cleanup, Quiesce, ExitFollow, EnableKbc, ArmShutdownReset
<1>6. CASE Exit \/ Killed \/
         (\E action \in {"poweroff", "kexec"} : Shutdown(action)) \/ Boot \/
         PowerLoss
  BY <1>6 DEF Exit, Gone, Fresh, NoJob, Killed, Shutdown, Boot, PowerLoss
<1>7. CASE ChipFinishes
  BY <1>7 DEF ChipFinishes
<1>8. CASE AccessFails
  BY <1>8 DEF AccessFails, Working
<1>9. CASE Signal \/ UNCHANGED vars
  BY <1>9 DEF Signal, Working, vars
<1>10. CASE (\E j \in WriteJobs \cup ReadJobs : Start(j)) \/ ShutdownHelper
  BY <1>10 DEF Start, Launch, Fresh, WriteJobs, ReadJobs, Job, NoJob,
         ShutdownHelper, ResetJob
<1> QED
  BY <1>1, <1>2, <1>3, <1>4, <1>5, <1>6, <1>7, <1>8, <1>9, <1>10 DEF Next, Tool, Environment

LEMMA PlaceTypeStep == Inv /\ [Next]_vars => PlaceType'
<1> SUFFICES ASSUME Inv, [Next]_vars PROVE PlaceType'
  OBVIOUS
<1> USE JobShape DEF Inv, TypeOK, Kinds, PlaceType, chip, ec, env, place, flags,
      run, Go, Access, Working, Blocks, Units
<1>1. CASE Disarm \/ WaitBeforeWrite \/ DisableKbc \/ EnterFollow \/ ReadId
  BY <1>1 DEF Disarm, WaitBeforeWrite, DisableKbc, EnterFollow, AfterEnter, ReadId
<1>2. CASE PreRead
  BY <1>2 DEF PreRead, NextBlock
<1>3. CASE WriteEnable
  BY <1>3 DEF WriteEnable, StopRequested
<1>4. CASE Latch \/ Mutate
  BY <1>4 DEF Latch, StopRequested, Mutate, Accept
<1>5. CASE Settle \/ EraseVerify
  BY <1>5 DEF Settle, StopRequested, EraseVerify
<1>6. CASE WriteDisable
  BY <1>6 DEF WriteDisable, StopRequested
<1>7. CASE Verify \/ WaitTimesOut \/ StopNoticed \/ ReadFlash \/ ReadFinish \/
         Compare
  BY <1>7 DEF Verify, NextBlock, WaitTimesOut, StopNoticed, StopRequested,
         ReadFlash, Sample, ReadFinish, Compare
<1>8. CASE Done \/ Cleanup \/ Quiesce \/ ExitFollow \/ EnableKbc \/ ArmShutdownReset
  BY <1>8 DEF Done, Cleanup, Quiesce, ExitFollow, EnableKbc, ArmShutdownReset
<1>9. CASE Exit \/ Killed \/
         (\E action \in {"poweroff", "kexec"} : Shutdown(action))
  BY <1>9 DEF Exit, Gone, Fresh, NoJob, Killed, Shutdown
<1>10. CASE Boot
  BY <1>10 DEF Boot, Gone, Fresh, NoJob
<1>11. CASE PowerLoss
  BY <1>11 DEF PowerLoss, Gone, Fresh, NoJob
<1>12. CASE ChipFinishes \/ AccessFails \/ Signal \/ UNCHANGED vars
  BY <1>12 DEF ChipFinishes, AccessFails, Signal, vars
<1>13. CASE (\E j \in WriteJobs \cup ReadJobs : Start(j)) \/ ShutdownHelper
  BY <1>13 DEF Start, Launch, Fresh, WriteJobs, ReadJobs, Job, NoJob,
         ShutdownHelper, ResetJob
<1> QED
  BY <1>1, <1>2, <1>3, <1>4, <1>5, <1>6, <1>7, <1>8, <1>9, <1>10, <1>11,
     <1>12, <1>13 DEF Next, Tool, Environment

LEMMA FlagTypeStep == Inv /\ [Next]_vars => FlagType'
<1> SUFFICES ASSUME Inv, [Next]_vars PROVE FlagType'
  OBVIOUS
<1> USE JobShape DEF Inv, TypeOK, Kinds, FlagType, chip, ec, env, place, flags, run,
      Go, Access, Working
<1>1. CASE Disarm \/ WaitBeforeWrite
  BY <1>1 DEF Disarm, WaitBeforeWrite
<1>2. CASE DisableKbc
  BY <1>2 DEF DisableKbc
<1>3. CASE EnterFollow
  BY <1>3 DEF EnterFollow, AfterEnter
<1>4. CASE ReadId
  BY <1>4 DEF ReadId
<1>5. CASE PreRead
  BY ZenonT(40), <1>5 DEF PreRead, NextBlock
<1>6. CASE WriteEnable
  BY <1>6 DEF WriteEnable, StopRequested
<1>7. CASE Latch
  BY <1>7 DEF Latch, StopRequested
<1>8. CASE Mutate
  BY <1>8 DEF Mutate, Accept
<1>9. CASE Settle \/ EraseVerify \/ WriteDisable
  BY <1>9 DEF Settle, StopRequested, EraseVerify, WriteDisable
<1>10. CASE Verify \/ WaitTimesOut \/ StopNoticed \/ ReadFlash \/ ReadFinish \/
         Compare
  BY <1>10 DEF Verify, NextBlock, WaitTimesOut, StopNoticed, StopRequested,
         ReadFlash, Sample, ReadFinish, Compare
<1>11. CASE Done
  BY <1>11 DEF Done
<1>12. CASE Cleanup
  BY <1>12 DEF Cleanup
<1>13. CASE Quiesce
  BY ZenonT(40), <1>13 DEF Quiesce
<1>14. CASE ExitFollow
  BY ZenonT(40), <1>14 DEF ExitFollow
<1>15. CASE EnableKbc
  BY ZenonT(40), <1>15 DEF EnableKbc
<1>16. CASE ArmShutdownReset
  BY ZenonT(40), <1>16 DEF ArmShutdownReset
<1>17. CASE Exit \/ Killed \/
         (\E action \in {"poweroff", "kexec"} : Shutdown(action)) \/ Boot \/
         PowerLoss
  BY <1>17 DEF Exit, Gone, Fresh, NoJob, Killed, Shutdown, Boot, PowerLoss
<1>18. CASE ChipFinishes \/ AccessFails
  BY <1>18 DEF ChipFinishes, AccessFails
<1>19. CASE Signal
  BY <1>19 DEF Signal
<1>20. CASE UNCHANGED vars
  BY <1>20 DEF vars
<1>21. CASE (\E j \in WriteJobs \cup ReadJobs : Start(j)) \/ ShutdownHelper
  BY <1>21 DEF Start, Launch, Fresh, ShutdownHelper, ResetJob, Job, NoJob
<1> QED
  BY <1>1, <1>2, <1>3, <1>4, <1>5, <1>6, <1>7, <1>8, <1>9, <1>10, <1>11,
     <1>12, <1>13, <1>14, <1>15, <1>16, <1>17, <1>18, <1>19, <1>20, <1>21 DEF Next, Tool, Environment

LEMMA RecordTypeStep == Inv /\ [Next]_vars => RecordType'
<1> SUFFICES ASSUME Inv, [Next]_vars PROVE RecordType'
  OBVIOUS
<1> USE JobShape DEF Inv, TypeOK, Kinds, RecordType, chip, ec, env, place, flags,
      run, Go, Access, Promises, Blocks, Busy
<1>1. CASE Disarm \/ WaitBeforeWrite \/ DisableKbc \/ EnterFollow \/ ReadId
  BY <1>1 DEF Disarm, WaitBeforeWrite, DisableKbc, EnterFollow, AfterEnter, ReadId
<1>2. CASE PreRead \/ WriteEnable
  BY <1>2 DEF PreRead, NextBlock, WriteEnable, StopRequested
<1>3. CASE Latch
  BY <1>3 DEF Latch, StopRequested
<1>4. CASE Mutate
  BY <1>4 DEF Mutate, Accept
<1>5. CASE Settle \/ EraseVerify \/ WriteDisable
  BY <1>5 DEF Settle, StopRequested, EraseVerify, WriteDisable
<1>6. CASE Verify \/ WaitTimesOut \/ StopNoticed
  BY <1>6 DEF Verify, NextBlock, WaitTimesOut, StopNoticed, StopRequested
<1>7. CASE ReadFlash
  BY <1>7 DEF ReadFlash, Sample
<1>8. CASE ReadFinish
  BY <1>8 DEF ReadFinish
<1>9. CASE Compare
  BY <1>9 DEF Compare
<1>10. CASE Done \/ Cleanup \/ Quiesce
  BY <1>10 DEF Done, Cleanup, Quiesce
<1>11. CASE ExitFollow \/ EnableKbc
  BY <1>11 DEF ExitFollow, EnableKbc
<1>12. CASE ArmShutdownReset
  <2>1. job.op = "write" /\ UNCHANGED <<consumed, got, found, afterStop, runs>>
    BY <1>12 DEF ArmShutdownReset
  <2>2. job.first \in Blocks /\ job.last \in Blocks /\ job.image \in Images
    BY <2>1, JobShape DEF NoJob
  <2>3. marker' \in {Unarmed, [first |-> job.first, last |-> job.last, image |-> job.image]}
    BY <1>12 DEF ArmShutdownReset
  <2>4. marker' \in Promises
    BY <2>2, <2>3 DEF Promises
  <2> QED
    BY <2>1, <2>4
<1>13. CASE Exit
  BY <1>13 DEF Exit, Gone, Fresh, NoJob
<1>14. CASE Killed
  BY <1>14 DEF Killed, Gone, Fresh, NoJob
<1>15. CASE \E action \in {"poweroff", "kexec"} : Shutdown(action)
  BY <1>15 DEF Shutdown, Gone, Fresh, NoJob
<1>16. CASE Boot
  BY <1>16 DEF Boot, Gone, Fresh, NoJob
<1>17. CASE PowerLoss
  BY <1>17 DEF PowerLoss, Gone, Fresh, NoJob
<1>18. CASE ChipFinishes \/ AccessFails \/ Signal \/ UNCHANGED vars
  BY <1>18 DEF ChipFinishes, AccessFails, Working, Signal, vars
<1>19. CASE \E j \in WriteJobs \cup ReadJobs : Start(j)
  BY <1>19 DEF Start, Launch, Fresh, WriteJobs, ReadJobs, Job, NoJob
<1>20. CASE ShutdownHelper
  BY <1>20 DEF ShutdownHelper, Launch, Fresh, ResetJob, Job, NoJob
<1> QED
  BY <1>1, <1>2, <1>3, <1>4, <1>5, <1>6, <1>7, <1>8, <1>9, <1>10, <1>11,
     <1>12, <1>13, <1>14, <1>15, <1>16, <1>17, <1>18, <1>19, <1>20 DEF Next, Tool, Environment

(* A read is cut by a failing access, and forgotten by the next command.   *)
LEMMA CutTypeStep == Inv /\ [Next]_vars => CutType'
<1> SUFFICES ASSUME Inv, [Next]_vars PROVE CutType'
  OBVIOUS
<1> USE DEF Inv, TypeOK, CutType, run
<1>1. CASE Disarm \/ WaitBeforeWrite \/ DisableKbc \/ EnterFollow \/ ReadId
  BY <1>1 DEF Disarm, WaitBeforeWrite, DisableKbc, EnterFollow, ReadId
<1>2. CASE PreRead \/ WriteEnable \/ Latch \/ Mutate \/ Settle \/ EraseVerify \/
         WriteDisable
  BY <1>2 DEF PreRead, WriteEnable, Latch, Mutate, Settle, EraseVerify, WriteDisable
<1>3. CASE Verify \/ WaitTimesOut \/ StopNoticed \/ ReadFlash \/ ReadFinish \/
         Compare
  BY <1>3 DEF Verify, WaitTimesOut, StopNoticed, ReadFlash, ReadFinish, Compare
<1>4. CASE Done \/ Cleanup \/ Quiesce \/ ExitFollow \/ EnableKbc \/ ArmShutdownReset
  BY <1>4 DEF Done, Cleanup, Quiesce, ExitFollow, EnableKbc, ArmShutdownReset
<1>5. CASE Exit \/ Killed \/
         (\E action \in {"poweroff", "kexec"} : Shutdown(action)) \/ Boot \/
         PowerLoss
  BY <1>5 DEF Exit, Gone, Fresh, Killed, Shutdown, Boot, PowerLoss
<1>6. CASE ChipFinishes \/ AccessFails \/ Signal \/ UNCHANGED vars
  BY <1>6 DEF ChipFinishes, AccessFails, Signal, vars
<1>7. CASE (\E j \in WriteJobs \cup ReadJobs : Start(j)) \/ ShutdownHelper
  BY <1>7 DEF Start, Launch, Fresh, ShutdownHelper
<1> QED
  BY <1>1, <1>2, <1>3, <1>4, <1>5, <1>6, <1>7 DEF Next, Tool, Environment

-----------------------------------------------------------------------------
(* Every step preserves the order of stages and who owns the markers.      *)
LEMMA KindsStep == Inv /\ [Next]_vars => Kinds'
<1> SUFFICES ASSUME Inv, [Next]_vars PROVE Kinds'
  OBVIOUS
<1> USE JobShape DEF Inv, TypeOK, Kinds, chip, ec, env, place, flags, run, Go,
      Access, WriteStages, WayOut, NoJob, Blocks
<1>1. CASE Disarm \/ WaitBeforeWrite \/ DisableKbc \/ EnterFollow \/ ReadId
  BY <1>1 DEF Disarm, WaitBeforeWrite, DisableKbc, EnterFollow, AfterEnter, ReadId
<1>2. CASE PreRead
  BY <1>2 DEF PreRead, NextBlock
<1>3. CASE WriteEnable
  BY <1>3 DEF WriteEnable, StopRequested
<1>4. CASE Latch
  BY <1>4 DEF Latch, StopRequested
<1>5. CASE Mutate
  BY <1>5 DEF Mutate, Accept
<1>6. CASE Settle \/ EraseVerify \/ WriteDisable
  BY <1>6 DEF Settle, StopRequested, EraseVerify, WriteDisable
<1>7. CASE Verify \/ WaitTimesOut \/ StopNoticed \/ ReadFlash \/ ReadFinish \/
         Compare
  BY <1>7 DEF Verify, NextBlock, WaitTimesOut, StopNoticed, StopRequested,
         ReadFlash, Sample, ReadFinish, Compare
<1>8. CASE Done \/ Cleanup \/ Quiesce
  BY <1>8 DEF Done, Cleanup, Quiesce
<1>9. CASE ExitFollow \/ EnableKbc \/ ArmShutdownReset
  BY <1>9 DEF ExitFollow, EnableKbc, ArmShutdownReset
<1>10. CASE Exit \/ Killed \/
         (\E action \in {"poweroff", "kexec"} : Shutdown(action))
  BY <1>10 DEF Exit, Gone, Fresh, Killed, Shutdown
<1>11. CASE Boot
  BY <1>11 DEF Boot, Gone, Fresh
<1>12. CASE PowerLoss
  BY <1>12 DEF PowerLoss, Gone, Fresh
<1>13. CASE ChipFinishes \/ AccessFails \/ Signal \/ UNCHANGED vars
  BY SMTT(20), <1>13 DEF ChipFinishes, AccessFails, Working, Signal, vars
<1>14. CASE (\E j \in WriteJobs \cup ReadJobs : Start(j)) \/ ShutdownHelper
  BY <1>14 DEF Start, Launch, Fresh, WriteJobs, ReadJobs, Job, ShutdownHelper,
         ResetJob
<1> QED
  BY <1>1, <1>2, <1>3, <1>4, <1>5, <1>6, <1>7, <1>8, <1>9, <1>10, <1>11,
     <1>12, <1>13, <1>14 DEF Next, Tool, Environment

LEMMA OwnersStep == Inv /\ [Next]_vars => Owners'
<1> SUFFICES ASSUME Inv, [Next]_vars PROVE Owners'
  OBVIOUS
<1> USE JobShape DEF Inv, TypeOK, Kinds, Owners, chip, ec, env, place, flags, run,
      Go, Access, Working
<1>1. CASE Disarm \/ WaitBeforeWrite \/ DisableKbc \/ EnterFollow \/ ReadId
  BY <1>1 DEF Disarm, WaitBeforeWrite, DisableKbc, EnterFollow, AfterEnter, ReadId
<1>2. CASE PreRead \/ WriteEnable \/ Latch \/ Mutate \/ Settle \/ EraseVerify \/
         WriteDisable
  BY <1>2 DEF PreRead, NextBlock, WriteEnable, StopRequested, Latch, Mutate, Accept,
         Settle, EraseVerify, WriteDisable
<1>3. CASE Verify \/ WaitTimesOut \/ StopNoticed \/ ReadFlash \/ ReadFinish \/
         Compare
  BY <1>3 DEF Verify, NextBlock, WaitTimesOut, StopNoticed, StopRequested,
         ReadFlash, Sample, ReadFinish, Compare
<1>4. CASE Done \/ Cleanup \/ Quiesce \/ ArmShutdownReset
  BY <1>4 DEF Done, Cleanup, Quiesce, ArmShutdownReset
<1>11. CASE ExitFollow \/ EnableKbc
  <2>1. /\ UNCHANGED <<machine, marker, consumed, job>>
        /\ pc \notin Working /\ pc' \notin Working /\ pc # "end"
    BY <1>11 DEF ExitFollow, EnableKbc
  <2>2. ok' => ok
    <3>1. CASE ExitFollow
      BY <3>1 DEF ExitFollow
    <3>2. CASE EnableKbc
      BY <3>2 DEF EnableKbc
    <3> QED
      BY <1>11, <3>1, <3>2
  <2> QED
    BY <2>1, <2>2
<1>5. CASE Exit \/ Killed \/
         (\E action \in {"poweroff", "kexec"} : Shutdown(action))
  BY <1>5 DEF Exit, Gone, Fresh, NoJob, Killed, Shutdown
<1>6. CASE Boot
  BY <1>6 DEF Boot, Gone, Fresh, NoJob
<1>7. CASE PowerLoss
  BY <1>7 DEF PowerLoss, Gone, Fresh, NoJob
<1>8. CASE ChipFinishes \/ Signal \/ UNCHANGED vars
  BY <1>8 DEF ChipFinishes, Signal, vars
<1>10. CASE AccessFails
  <2>1. UNCHANGED <<machine, marker, consumed, job>> /\ pc \in Working /\ pc' = "cleanup"
    BY <1>10 DEF AccessFails
  <2>2. ~ok'
    BY <1>10, <2>1 DEF AccessFails, WayOut
  <2> QED
    BY <2>1, <2>2
<1>9. CASE (\E j \in WriteJobs \cup ReadJobs : Start(j)) \/ ShutdownHelper
  BY <1>9 DEF Start, Launch, Fresh, WriteJobs, ReadJobs, Job, NoJob, ShutdownHelper,
         ResetJob
<1> QED
  BY <1>1, <1>2, <1>3, <1>4, <1>5, <1>6, <1>7, <1>8, <1>9, <1>10, <1>11 DEF Next, Tool, Environment

(* An armed marker, a verified block: the chip only changes under a write  *)
(* that has removed the marker, and at the block that write is at.         *)
LEMMA PromisedStep == Inv /\ [Next]_vars => Promised'
<1> SUFFICES ASSUME Inv, [Next]_vars PROVE Promised'
  OBVIOUS
<1> USE JobShape DEF Inv, TypeOK, Kinds, Owners, Promised, Progress, Undone, chip,
      ec, env, place, flags, run, Go, Access, Holds, Busy, Blocks, WriteStages
<1>1. CASE Disarm \/ WaitBeforeWrite \/ DisableKbc \/ EnterFollow \/ ReadId
  BY <1>1 DEF Disarm, WaitBeforeWrite, DisableKbc, EnterFollow, AfterEnter, ReadId
<1>2. CASE PreRead \/ WriteEnable \/ Latch \/ Settle \/ EraseVerify \/ WriteDisable
  BY <1>2 DEF PreRead, NextBlock, WriteEnable, StopRequested, Latch, Settle,
         EraseVerify, WriteDisable
<1>3. CASE Mutate
  <2>1. job.op = "write" /\ pc \in Working \ {"disarm"}
    BY <1>3 DEF Mutate, WriteStages, Working
  <2>2. marker = Unarmed /\ consumed = Unarmed
    BY <2>1
  <2> QED
    BY <1>3, <2>2 DEF Mutate
<1>4. CASE Verify \/ WaitTimesOut \/ StopNoticed \/ ReadFlash \/ ReadFinish \/
         Compare
  BY <1>4 DEF Verify, NextBlock, WaitTimesOut, StopNoticed, StopRequested,
         ReadFlash, Sample, ReadFinish, Compare
<1>5. CASE Done \/ Cleanup \/ Quiesce \/ ExitFollow \/ EnableKbc
  BY <1>5 DEF Done, Cleanup, Quiesce, ExitFollow, EnableKbc
<1>6. CASE ArmShutdownReset
  <2>1. job.op = "write" /\ ok /\ Holds(job) /\ ~Busy
    BY <1>6 DEF ArmShutdownReset
  <2>2. marker' = Unarmed \/ marker' = [first |-> job.first, last |-> job.last, image |-> job.image]
    BY <1>6 DEF ArmShutdownReset
  <2>3. UNCHANGED <<content, busy, consumed>>
    BY <1>6 DEF ArmShutdownReset
  <2> QED
    BY <2>1, <2>2, <2>3 DEF Holds, Busy
<1>7. CASE Exit \/ Killed \/
         (\E action \in {"poweroff", "kexec"} : Shutdown(action)) \/ Boot \/
         PowerLoss
  BY <1>7 DEF Exit, Gone, Fresh, NoJob, Killed, Shutdown, Boot, PowerLoss
<1>8. CASE ChipFinishes \/ AccessFails \/ Signal \/ UNCHANGED vars
  BY <1>8 DEF ChipFinishes, AccessFails, Working, Signal, vars
<1>9. CASE (\E j \in WriteJobs \cup ReadJobs : Start(j)) \/ ShutdownHelper
  BY <1>9 DEF Start, Launch, Fresh, WriteJobs, ReadJobs, Job, NoJob, ShutdownHelper,
         ResetJob
<1> QED
  BY <1>1, <1>2, <1>3, <1>4, <1>5, <1>6, <1>7, <1>8, <1>9 DEF Next, Tool, Environment

LEMMA ProgressStep == Inv /\ [Next]_vars => Progress'
<1> SUFFICES ASSUME Inv, [Next]_vars PROVE Progress'
  OBVIOUS
<1> USE JobShape DEF Inv, TypeOK, Kinds, Progress, chip, ec, env, place, flags, run,
      Go, Access, Holds, Busy, Blocks, Quiet, WriteStages, Ready
<1>1. CASE Disarm \/ WaitBeforeWrite \/ DisableKbc \/ EnterFollow \/ ReadId
  BY <1>1 DEF Disarm, WaitBeforeWrite, DisableKbc, EnterFollow, AfterEnter, ReadId
<1>2. CASE PreRead
  BY <1>2 DEF PreRead, NextBlock
<1>3. CASE WriteEnable
  BY <1>3 DEF WriteEnable, StopRequested
<1>4. CASE Latch
  BY <1>4 DEF Latch, StopRequested
<1>5. CASE Settle \/ EraseVerify \/ WriteDisable
  BY <1>5 DEF Settle, StopRequested, EraseVerify, WriteDisable
<1>6. CASE Mutate
  <2>1. pc = "mutate" /\ job.op = "write" /\ ~ok /\ blk \in Blocks
    BY <1>6 DEF Mutate, WriteStages, WayOut
  <2>2. PICK t, r : Accept(t, r)
    BY <1>6 DEF Mutate
  <2>3. busy'.blk = blk /\ \A b \in Blocks : b # blk => content'[b] = content[b]
    BY <2>1, <2>2 DEF Accept
  <2>4. UNCHANGED <<blk, job, ok>> /\ pc' \in {"settle", "cleanup"}
    BY <1>6 DEF Mutate
  <2>5. \A b \in Blocks : job.first <= b /\ b < blk => content[b] = Whole(job.image)
    BY <2>1 DEF WriteStages
  <2>6. \A b \in Blocks : job.first <= b /\ b < blk => content'[b] = Whole(job.image)
    BY <2>1, <2>3, <2>5 DEF Blocks
  <2> QED
    BY <2>1, <2>3, <2>4, <2>6 DEF Quiet, WriteStages
<1>7. CASE Verify \/ WaitTimesOut \/ StopNoticed \/ ReadFlash \/ ReadFinish \/
         Compare
  BY SMTT(20), <1>7 DEF Verify, NextBlock, WaitTimesOut, StopNoticed, StopRequested,
         ReadFlash, Sample, ReadFinish, Compare
<1>8. CASE Done \/ Cleanup \/ Quiesce \/ ArmShutdownReset
  BY SMTT(20), <1>8 DEF Done, Cleanup, Quiesce, ArmShutdownReset
<1>9. CASE ExitFollow
  <2>1. UNCHANGED <<content, busy, blk, job>> /\ pc' = "enableKbc"
    BY <1>9 DEF ExitFollow
  <2>2. ok' => ok
    BY <1>9 DEF ExitFollow
  <2> QED
    BY <2>1, <2>2 DEF Quiet, WriteStages, Holds, Busy
<1>10. CASE EnableKbc
  <2>1. UNCHANGED <<content, busy, blk, job>> /\ pc' \in {"arm", "end"}
    BY <1>10 DEF EnableKbc
  <2>2. ok' => ok
    BY <1>10 DEF EnableKbc
  <2> QED
    BY <2>1, <2>2 DEF Quiet, WriteStages, Holds, Busy
<1>11. CASE Exit \/ Killed \/
         (\E action \in {"poweroff", "kexec"} : Shutdown(action)) \/ Boot \/
         PowerLoss
  BY <1>11 DEF Exit, Gone, Fresh, NoJob, Killed, Shutdown, Boot, PowerLoss
<1>12. CASE ChipFinishes
  BY <1>12 DEF ChipFinishes
<1>13. CASE AccessFails
  BY <1>13 DEF AccessFails, Working
<1>14. CASE Signal \/ UNCHANGED vars
  BY <1>14 DEF Signal, Working, vars
<1>15. CASE (\E j \in WriteJobs \cup ReadJobs : Start(j)) \/ ShutdownHelper
  BY <1>15 DEF Start, Launch, Fresh, WriteJobs, ReadJobs, Job, NoJob,
         ShutdownHelper, ResetJob
<1> QED
  BY <1>1, <1>2, <1>3, <1>4, <1>5, <1>6, <1>7, <1>8, <1>9, <1>10, <1>11,
     <1>12, <1>13, <1>14, <1>15 DEF Next, Tool, Environment

(* The way out undoes what was done.                                       *)
LEMMA UndoneStep == Inv /\ [Next]_vars => Undone'
<1> SUFFICES ASSUME Inv, [Next]_vars PROVE Undone'
  OBVIOUS
<1> USE JobShape DEF Inv, TypeOK, Kinds, Undone, chip, ec, env, place, flags, run,
      Go, Access, InFollowMode, WriteStages, WayOut, Unarmed, Blocks
<1>1. CASE Disarm \/ WaitBeforeWrite \/ DisableKbc \/ EnterFollow \/ ReadId
  BY <1>1 DEF Disarm, WaitBeforeWrite, DisableKbc, EnterFollow, AfterEnter, ReadId
<1>2. CASE PreRead \/ WriteEnable \/ Latch \/ Mutate \/ Settle \/ EraseVerify \/
         WriteDisable
  BY <1>2 DEF PreRead, NextBlock, WriteEnable, StopRequested, Latch, Mutate, Accept,
         Settle, EraseVerify, WriteDisable
<1>3. CASE Verify \/ WaitTimesOut \/ StopNoticed \/ ReadFlash \/ ReadFinish \/
         Compare
  BY <1>3 DEF Verify, NextBlock, WaitTimesOut, StopNoticed, StopRequested,
         ReadFlash, Sample, ReadFinish, Compare
<1>4. CASE Done \/ Cleanup \/ Quiesce
  BY <1>4 DEF Done, Cleanup, Quiesce
<1>5. CASE ExitFollow
  <2>1. pc = "exitFollow" /\ pc' = "enableKbc" /\ UNCHANGED <<kbcDisabled, job>>
    BY <1>5 DEF ExitFollow
  <2>2. ok' => ok /\ (~inFollow \/ follow' = FALSE)
    <3>1. CASE ~inFollow /\ UNCHANGED <<follow, ok, warned>>
      BY <3>1
    <3>2. CASE inFollow /\ follow' = readCut /\ UNCHANGED <<ok, warned>>
      BY <3>2 DEF Cutting
    <3>3. CASE ok' = FALSE
      BY <3>3
    <3> QED
      BY <1>5, <3>1, <3>2, <3>3 DEF ExitFollow
  <2> QED
    BY <2>1, <2>2 DEF InFollowMode, WriteStages
<1>6. CASE EnableKbc
  <2>1. pc = "enableKbc" /\ pc' \in {"arm", "end"} /\ UNCHANGED <<follow, job, marker>>
    BY <1>6 DEF EnableKbc
  <2>2. ok' => ok /\ (~kbcDisabled \/ kbcOff' = FALSE)
    BY <1>6 DEF EnableKbc
  <2>3. pc' = "end" => ~ok' \/ job.op # "write"
    BY <1>6 DEF EnableKbc
  <2> QED
    BY <2>1, <2>2, <2>3 DEF InFollowMode, WriteStages
<1>7. CASE ArmShutdownReset
  <2>1. /\ pc = "arm" /\ pc' = "end" /\ job.op = "write"
        /\ UNCHANGED <<follow, kbcOff, job>> /\ (ok' => ok)
    BY <1>7 DEF ArmShutdownReset
  <2>2. ok' => marker' = [first |-> job.first, last |-> job.last, image |-> job.image]
    BY <1>7 DEF ArmShutdownReset
  <2>3. job.first # 0
    BY <2>1 DEF Blocks
  <2>4. [first |-> job.first, last |-> job.last, image |-> job.image] # Unarmed
    BY <2>3 DEF Unarmed
  <2> QED
    BY <2>1, <2>2, <2>4 DEF InFollowMode, WriteStages
<1>8. CASE Exit \/ Killed \/
         (\E action \in {"poweroff", "kexec"} : Shutdown(action)) \/ Boot \/
         PowerLoss
  BY <1>8 DEF Exit, Gone, Fresh, NoJob, Killed, Shutdown, Boot, PowerLoss
<1>9. CASE ChipFinishes \/ AccessFails \/ Signal \/ UNCHANGED vars
  BY <1>9 DEF ChipFinishes, AccessFails, Working, Signal, vars
<1>10. CASE (\E j \in WriteJobs \cup ReadJobs : Start(j)) \/ ShutdownHelper
  BY <1>10 DEF Start, Launch, Fresh, WriteJobs, ReadJobs, Job, NoJob,
         ShutdownHelper, ResetJob
<1> QED
  BY <1>1, <1>2, <1>3, <1>4, <1>5, <1>6, <1>7, <1>8, <1>9, <1>10 DEF Next, Tool, Environment

LEMMA BuffersStep == Inv /\ [Next]_vars => Buffers'
<1> SUFFICES ASSUME Inv, [Next]_vars PROVE Buffers'
  OBVIOUS
<1> USE JobShape DEF Inv, TypeOK, Kinds, Buffers, chip, ec, env, place, flags, run,
      Go, Access, WriteStages, WayOut, Busy, Ready
<1>1. CASE Disarm \/ WaitBeforeWrite \/ DisableKbc \/ EnterFollow \/ ReadId
  BY <1>1 DEF Disarm, WaitBeforeWrite, DisableKbc, EnterFollow, AfterEnter, ReadId
<1>2. CASE PreRead \/ WriteEnable \/ Latch \/ Mutate \/ Settle \/ EraseVerify \/
         WriteDisable
  BY <1>2 DEF PreRead, NextBlock, WriteEnable, StopRequested, Latch, Mutate, Accept,
         Settle, EraseVerify, WriteDisable
<1>3. CASE Verify \/ WaitTimesOut \/ StopNoticed
  BY <1>3 DEF Verify, NextBlock, WaitTimesOut, StopNoticed, StopRequested
<1>4. CASE ReadFlash
  BY <1>4 DEF ReadFlash, Sample
<1>5. CASE ReadFinish
  BY <1>5 DEF ReadFinish
<1>6. CASE Compare
  BY SMTT(20), <1>6 DEF Compare
<1>7. CASE Done \/ Cleanup \/ Quiesce \/ ArmShutdownReset
  BY <1>7 DEF Done, Cleanup, Quiesce, ArmShutdownReset
<1>8. CASE ExitFollow
  <2>1. UNCHANGED <<got, job>> /\ pc' = "enableKbc"
    BY <1>8 DEF ExitFollow
  <2>2. ok' => ok
    BY <1>8 DEF ExitFollow
  <2> QED
    BY <2>1, <2>2
<1>9. CASE EnableKbc
  <2>1. UNCHANGED <<got, job>> /\ pc' \in {"arm", "end"}
    BY <1>9 DEF EnableKbc
  <2>2. ok' => ok
    BY <1>9 DEF EnableKbc
  <2> QED
    BY <2>1, <2>2
<1>10. CASE Exit \/ Killed \/
         (\E action \in {"poweroff", "kexec"} : Shutdown(action)) \/ Boot \/
         PowerLoss
  BY <1>10 DEF Exit, Gone, Fresh, NoJob, Killed, Shutdown, Boot, PowerLoss
<1>11. CASE ChipFinishes \/ AccessFails \/ Signal \/ UNCHANGED vars
  BY <1>11 DEF ChipFinishes, AccessFails, Working, Signal, vars
<1>12. CASE (\E j \in WriteJobs \cup ReadJobs : Start(j)) \/ ShutdownHelper
  BY <1>12 DEF Start, Launch, Fresh, WriteJobs, ReadJobs, Job, NoJob,
         ShutdownHelper, ResetJob
<1> QED
  BY <1>1, <1>2, <1>3, <1>4, <1>5, <1>6, <1>7, <1>8, <1>9, <1>10, <1>11,
     <1>12 DEF Next, Tool, Environment

LEMMA DebtsStep == Inv /\ [Next]_vars => Debts'
<1> SUFFICES ASSUME Inv, [Next]_vars PROVE Debts'
  OBVIOUS
<1> USE JobShape DEF Inv, TypeOK, Kinds, Debts, Progress, chip, ec, env, place,
      flags, run, Go, Access, InFollowMode, WriteStages, Quiet, WayOut, Busy, Ready
<1>1. CASE Disarm \/ WaitBeforeWrite \/ DisableKbc
  BY <1>1 DEF Disarm, WaitBeforeWrite, DisableKbc
<1>2. CASE EnterFollow
  BY <1>2 DEF EnterFollow, AfterEnter
<1>3. CASE ReadId
  BY <1>3 DEF ReadId
<1>4. CASE PreRead
  BY <1>4 DEF PreRead, NextBlock
<1>5. CASE WriteEnable
  BY <1>5 DEF WriteEnable, StopRequested
<1>6. CASE Latch
  BY <1>6 DEF Latch, StopRequested
<1>7. CASE Mutate
  BY <1>7 DEF Mutate, Accept
<1>8. CASE Settle \/ EraseVerify \/ WriteDisable
  BY <1>8 DEF Settle, StopRequested, EraseVerify, WriteDisable
<1>9. CASE Verify \/ WaitTimesOut \/ StopNoticed \/ ReadFlash \/ ReadFinish \/
         Compare
  BY <1>9 DEF Verify, NextBlock, WaitTimesOut, StopNoticed, StopRequested,
         ReadFlash, Sample, ReadFinish, Compare
<1>10. CASE Done \/ Cleanup \/ Quiesce \/ ArmShutdownReset
  BY <1>10 DEF Done, Cleanup, Quiesce, ArmShutdownReset
<1>11. CASE ExitFollow
  <2>1. /\ pc = "exitFollow" /\ pc' = "enableKbc" /\ inFollow' = FALSE
        /\ UNCHANGED <<content, busy, wel, kbcOff, kbcDisabled, entered, writeStarted, found>>
    BY <1>11 DEF ExitFollow
  <2>2. readCut' = readCut /\ (~warned' => (~inFollow /\ follow' = follow) \/ follow' = readCut)
    BY <1>11 DEF ExitFollow
  <2>3. ok' => ok
    BY <1>11 DEF ExitFollow
  <2>4. warned => warned'
    BY <1>11 DEF ExitFollow
  <2> QED
    BY <2>1, <2>2, <2>3, <2>4 DEF InFollowMode, WriteStages, Quiet, WayOut, Busy
<1>12. CASE EnableKbc
  <2>1. /\ pc = "enableKbc" /\ pc' \in {"arm", "end"} /\ kbcDisabled' = FALSE
        /\ UNCHANGED <<content, busy, wel, follow, inFollow, entered, writeStarted, found, readCut>>
    BY <1>12 DEF EnableKbc
  <2>2. ~warned' => (~kbcDisabled /\ kbcOff' = kbcOff) \/ kbcOff' = FALSE
    BY <1>12 DEF EnableKbc
  <2>3. ok' => ok
    BY <1>12 DEF EnableKbc
  <2>4. warned => warned'
    BY <1>12 DEF EnableKbc
  <2> QED
    BY <2>1, <2>2, <2>3, <2>4 DEF InFollowMode, WriteStages, Quiet, WayOut, Busy
<1>13. CASE Exit \/ Killed \/
         (\E action \in {"poweroff", "kexec"} : Shutdown(action)) \/ Boot \/
         PowerLoss
  BY <1>13 DEF Exit, Gone, Fresh, NoJob, Killed, Shutdown, Boot, PowerLoss
<1>14. CASE ChipFinishes \/ Signal \/ UNCHANGED vars
  BY <1>14 DEF ChipFinishes, Working, Signal, vars
<1>17. CASE AccessFails
  <2>1. /\ pc \in Working /\ pc' = "cleanup"
        /\ UNCHANGED <<chip, ec, flags, ok, found, warned>>
    BY <1>17 DEF AccessFails
  <2>2. ~readCut
    BY <2>1 DEF Working, Cutting
  <2> QED
    BY <2>1, <2>2 DEF Working
<1>15. CASE ShutdownHelper
  BY <1>15 DEF ShutdownHelper, Launch, Fresh, ResetJob, Job, NoJob
<1>16. CASE \E j \in WriteJobs \cup ReadJobs : Start(j)
  <2>1. /\ pc' \in {"disarm", "disableKbc"} /\ ~writeStarted' /\ ~ok'
        /\ found' = [follow |-> follow, kbcOff |-> kbcOff, wel |-> wel, busy |-> Busy]
        /\ UNCHANGED <<chip, ec>>
    BY <1>16 DEF Start, Launch, Fresh
  <2> QED
    BY <2>1
<1> QED
  BY <1>1, <1>2, <1>3, <1>4, <1>5, <1>6, <1>7, <1>8, <1>9, <1>10, <1>11,
     <1>12, <1>13, <1>14, <1>15, <1>16, <1>17 DEF Next, Tool, Environment

LEMMA CuttingStep == Inv /\ [Next]_vars => Cutting'
<1> SUFFICES ASSUME Inv, [Next]_vars PROVE Cutting'
  OBVIOUS
<1> USE JobShape DEF Inv, TypeOK, Kinds, Cutting, chip, ec, env, place, flags, run,
      Go, Access, Working
<1>1. CASE Disarm \/ WaitBeforeWrite \/ DisableKbc \/ EnterFollow \/ ReadId
  BY <1>1 DEF Disarm, WaitBeforeWrite, DisableKbc, EnterFollow, AfterEnter, ReadId
<1>2. CASE PreRead \/ WriteEnable
  BY <1>2 DEF PreRead, NextBlock, WriteEnable, StopRequested
<1>3. CASE Latch
  BY <1>3 DEF Latch, StopRequested
<1>4. CASE Mutate
  BY <1>4 DEF Mutate, Accept
<1>5. CASE Settle \/ EraseVerify \/ WriteDisable
  BY <1>5 DEF Settle, StopRequested, EraseVerify, WriteDisable
<1>6. CASE Verify \/ WaitTimesOut \/ StopNoticed \/ ReadFlash \/ ReadFinish \/
         Compare
  BY <1>6 DEF Verify, NextBlock, WaitTimesOut, StopNoticed, StopRequested,
         ReadFlash, Sample, ReadFinish, Compare
<1>7. CASE Done \/ Cleanup \/ Quiesce \/ ExitFollow \/ EnableKbc \/ ArmShutdownReset
  <2>1. /\ readCut' = readCut /\ writeStarted' = writeStarted
        /\ pc' \in {"cleanup", "quiesce", "exitFollow", "enableKbc", "arm", "end"}
        /\ pc' = "cleanup" => pc = "done"
        /\ pc' = "quiesce" => pc = "cleanup" /\ writeStarted
        /\ ok' => ok \/ pc = "done"
    <3>1. CASE Done \/ Cleanup \/ Quiesce
      BY <3>1 DEF Done, Cleanup, Quiesce
    <3>2. CASE ExitFollow
      <4>1. /\ readCut' = readCut /\ writeStarted' = writeStarted
            /\ pc' = "enableKbc"
        BY <3>2 DEF ExitFollow
      <4>2. ok' => ok
        BY <3>2 DEF ExitFollow
      <4> QED
        BY <4>1, <4>2
    <3>3. CASE EnableKbc
      <4>1. /\ readCut' = readCut /\ writeStarted' = writeStarted
            /\ pc' \in {"arm", "end"}
        BY <3>3 DEF EnableKbc
      <4>2. ok' => ok
        BY <3>3 DEF EnableKbc
      <4> QED
        BY <4>1, <4>2
    <3>4. CASE ArmShutdownReset
      BY <3>4 DEF ArmShutdownReset
    <3> QED
      BY <1>7, <3>1, <3>2, <3>3, <3>4
  <2>2. pc' = "arm" => ok'
    BY <1>7 DEF Done, Cleanup, Quiesce, ExitFollow, EnableKbc, ArmShutdownReset
  <2> QED
    BY <2>1, <2>2
<1>8. CASE Exit \/ Killed \/
         (\E action \in {"poweroff", "kexec"} : Shutdown(action))
  BY <1>8 DEF Exit, Gone, Fresh, NoJob, Killed, Shutdown
<1>9. CASE Boot
  BY <1>9 DEF Boot, Gone, Fresh, NoJob
<1>10. CASE PowerLoss
  BY <1>10 DEF PowerLoss, Gone, Fresh, NoJob
<1>11. CASE ChipFinishes \/ AccessFails \/ Signal \/ UNCHANGED vars
  <2>1. CASE AccessFails
    <3>1. pc \in Working /\ pc' = "cleanup" /\ UNCHANGED <<ok, writeStarted>>
          /\ (readCut' => ~writeStarted)
      BY <2>1 DEF AccessFails
    <3> QED
      BY <3>1 DEF WayOut
  <2>2. CASE ChipFinishes \/ Signal \/ UNCHANGED vars
    BY <2>2 DEF ChipFinishes, Signal, vars
  <2> QED
    BY <1>11, <2>1, <2>2
<1>12. CASE (\E j \in WriteJobs \cup ReadJobs : Start(j)) \/ ShutdownHelper
  BY <1>12 DEF Start, Launch, Fresh, WriteJobs, ReadJobs, Job, NoJob,
         ShutdownHelper, ResetJob
<1> QED
  BY <1>1, <1>2, <1>3, <1>4, <1>5, <1>6, <1>7, <1>8, <1>9, <1>10, <1>11,
     <1>12 DEF Next, Tool, Environment

(* A mutation after the stop leaves the command in a wait that sees it.    *)
LEMMA StoppingStep == Inv /\ [Next]_vars => Stopping'
<1> SUFFICES ASSUME Inv, [Next]_vars PROVE Stopping'
  OBVIOUS
<1> USE JobShape DEF Inv, TypeOK, Kinds, Stopping, chip, ec, env, place, flags, run,
      Go, Access, Working
<1>1. CASE Disarm \/ WaitBeforeWrite \/ DisableKbc \/ EnterFollow \/ ReadId
  BY <1>1 DEF Disarm, WaitBeforeWrite, DisableKbc, EnterFollow, AfterEnter, ReadId
<1>2. CASE PreRead \/ WriteEnable
  BY <1>2 DEF PreRead, NextBlock, WriteEnable, StopRequested
<1>3. CASE Latch
  BY <1>3 DEF Latch, StopRequested
<1>4. CASE Mutate
  BY <1>4 DEF Mutate, Accept
<1>5. CASE Settle \/ EraseVerify \/ WriteDisable
  BY <1>5 DEF Settle, StopRequested, EraseVerify, WriteDisable
<1>6. CASE Verify \/ WaitTimesOut \/ StopNoticed \/ ReadFlash \/ ReadFinish \/
         Compare
  BY <1>6 DEF Verify, NextBlock, WaitTimesOut, StopNoticed, StopRequested,
         ReadFlash, Sample, ReadFinish, Compare
<1>7. CASE Done \/ Cleanup \/ Quiesce \/ ExitFollow \/ EnableKbc \/ ArmShutdownReset
  BY <1>7 DEF Done, Cleanup, Quiesce, ExitFollow, EnableKbc, ArmShutdownReset
<1>8. CASE Exit \/ Killed \/
         (\E action \in {"poweroff", "kexec"} : Shutdown(action))
  BY <1>8 DEF Exit, Gone, Fresh, NoJob, Killed, Shutdown
<1>9. CASE Boot
  BY <1>9 DEF Boot, Gone, Fresh, NoJob
<1>10. CASE PowerLoss
  BY <1>10 DEF PowerLoss, Gone, Fresh, NoJob
<1>11. CASE ChipFinishes \/ AccessFails \/ Signal \/ UNCHANGED vars
  BY <1>11 DEF ChipFinishes, AccessFails, Signal, vars
<1>12. CASE (\E j \in WriteJobs \cup ReadJobs : Start(j)) \/ ShutdownHelper
  BY <1>12 DEF Start, Launch, Fresh, WriteJobs, ReadJobs, Job, NoJob,
         ShutdownHelper, ResetJob
<1> QED
  BY <1>1, <1>2, <1>3, <1>4, <1>5, <1>6, <1>7, <1>8, <1>9, <1>10, <1>11,
     <1>12 DEF Next, Tool, Environment

LEMMA InvStep == Inv /\ [Next]_vars => Inv'
<1> SUFFICES ASSUME Inv, [Next]_vars PROVE Inv'
  OBVIOUS
<1>1. ChipType' /\ PlaceType' /\ FlagType' /\ RecordType' /\ CutType'
  BY ChipTypeStep, PlaceTypeStep, FlagTypeStep, RecordTypeStep, CutTypeStep
<1>2. TypeOK'
  BY <1>1 DEF TypeOK, ChipType, PlaceType, FlagType, RecordType, CutType
<1>3. Kinds' /\ Owners' /\ Promised' /\ Progress'
  BY KindsStep, OwnersStep, PromisedStep, ProgressStep
<1>4. Undone' /\ Buffers' /\ Debts' /\ Cutting' /\ Stopping'
  BY UndoneStep, BuffersStep, DebtsStep, CuttingStep, StoppingStep
<1> QED
  BY <1>2, <1>3, <1>4 DEF Inv

LEMMA Invariance == Spec => []Inv
BY InitInv, InvStep, PTL DEF Spec

-----------------------------------------------------------------------------
(* State of chip, EC and command stay in their types.                      *)
THEOREM FlashTypeCorrect == Spec => []TypeOK
<1>1. Inv => TypeOK
  BY DEF Inv
<1> QED
  BY <1>1, Invariance, PTL

(* While a reset marker exists, and when the reset it asked for is sent,   *)
(* the flash holds the image that was verified, on flashes of any size and *)
(* whatever commands were started, killed or failed in between.            *)
THEOREM ResetNeedsVerifiedFlash == Spec => []ArmedMeansVerified
<1>1. Inv => ArmedMeansVerified
  BY DEF Inv, Kinds, Owners, Promised, ArmedMeansVerified, MarkerVerified, ResetOnlyVerified,
         ResetSent
<1> QED
  BY <1>1, Invariance, PTL

(* Exit status 0 of a write or of a checked dump can be trusted, and a     *)
(* write never compares what a busy chip answers.                          *)
THEOREM SuccessCanBeTrusted == Spec => []SuccessMeansDone
<1>1. Inv => SuccessMeansDone
  <2>1. Inv => ReadsAreQuiet
    BY DEF Inv, Progress, Quiet, ReadsAreQuiet
  <2>2. Inv => WriteIsDone /\ DumpIsFaithful
    BY DEF Inv, Kinds, Progress, Undone, Buffers, WriteIsDone, DumpIsFaithful
  <2> QED
    BY <2>1, <2>2 DEF SuccessMeansDone
<1> QED
  BY <1>1, Invariance, PTL

(* A command without a warning leaves behind nothing it did not find.      *)
THEOREM CleanupIsHonest == Spec => []NoWorseThanFound
<1>1. Inv => NoWorseThanFound
  BY DEF Inv, Debts, NoWorseThanFound, WayOut
<1> QED
  BY <1>1, Invariance, PTL

(* A stopped write sends the chip at most one more mutation.               *)
THEOREM StopIsPrompt == Spec => []OneMutationAfterStop
<1>1. Inv => OneMutationAfterStop
  BY DEF Inv, TypeOK, Stopping, OneMutationAfterStop
<1> QED
  BY <1>1, Invariance, PTL

-----------------------------------------------------------------------------
(* The refinement of the abstract reset, kind of step by kind of step.     *)

(* A block shows an image only if it holds it as a whole.                  *)
LEMMA ShownImage ==
  ASSUME NEW c \in [Blocks -> [Units -> Cells]], NEW b \in Blocks
  PROVE  /\ (IF \E i \in Images : c[b] = Whole(i) THEN c[b][1] ELSE "torn") \in Images \cup {"torn"}
         /\ \A i \in Images : c[b] = Whole(i) => c[b][1] = i
<1>1. 1 \in Units
  BY DEF Units
<1>2. ASSUME NEW i \in Images, c[b] = Whole(i)
      PROVE  c[b][1] = i
  BY <1>1, <1>2 DEF Whole
<1> QED
  BY <1>2

LEMMA ShownType == ASSUME TypeOK PROVE Shown \in [Blocks -> Images \cup {"torn"}]
BY ShownImage DEF TypeOK, Shown

LEMMA ShownTypePrimed == ASSUME TypeOK' PROVE Shown' \in [Blocks -> Images \cup {"torn"}]
BY ShownImage DEF TypeOK, Shown

LEMMA HoldsKept ==
  ASSUME TypeOK, NEW p \in [first : Blocks, last : Blocks, image : Images], Holds(p)
  PROVE  G!Kept(p)
<1>1. ASSUME NEW b \in Blocks, p.first <= b /\ b <= p.last
      PROVE  Shown[b] = p.image
  <2>1. content[b] = Whole(p.image) /\ p.image \in Images
    BY <1>1 DEF Holds
  <2>2. content[b][1] = p.image
    BY <2>1, ShownImage DEF TypeOK
  <2> QED
    BY <2>1, <2>2 DEF Shown
<1> QED
  BY <1>1 DEF G!Kept

(* Nothing is called in but by a reset on its way.                         *)
LEMMA NothingCalled == job.op # "reset" => Called = Unarmed /\ Resetting = FALSE
BY DEF Called, Resetting, ResetSent

LEMMA NothingCalledPrimed == job'.op # "reset" => Called' = Unarmed /\ Resetting' = FALSE
BY DEF Called, Resetting, ResetSent

LEMMA GuardedInit == Init => G!GInit
<1> SUFFICES ASSUME Init PROVE G!GInit
  OBVIOUS
<1>1. TypeOK /\ job.op # "reset"
  BY InitInv DEF Inv, Init, NoJob
<1>2. Shown \in [Blocks -> Images \cup {"torn"}]
  BY <1>1, ShownType
<1>3. Called = Unarmed /\ Resetting = FALSE
  BY <1>1, NothingCalled
<1> QED
  BY <1>2, <1>3 DEF Init, G!GInit, G!Free

(* The chip's part: whatever it does to its content, nothing is promised.  *)
LEMMA ContentSteps ==
  ASSUME Inv, TypeOK', Mutate \/ ChipFinishes
  PROVE  G!Rewrite
<1>1. UNCHANGED <<marker, consumed, job, pc, ok, inFollow>> \/ (Mutate /\ UNCHANGED <<marker, job>>)
  BY DEF Mutate, ChipFinishes, env, run, flags
<1>2. CASE Mutate
  <2>1. job.op = "write" /\ marker = Unarmed
    BY <1>2 DEF Inv, Kinds, Owners, WriteStages, Working, Mutate, Access
  <2>2. Called = Unarmed /\ Called' = Unarmed /\ Resetting = FALSE /\ Resetting' = FALSE
    BY <1>1, <1>2, <2>1, NothingCalled, NothingCalledPrimed DEF Mutate
  <2>3. marker' = marker
    BY <1>2 DEF Mutate, env
  <2> QED
    BY <2>1, <2>2, <2>3, ShownTypePrimed DEF G!Rewrite, G!Free
<1>3. CASE ChipFinishes
  <2>1. marker = Unarmed /\ consumed = Unarmed
    BY <1>3 DEF Inv, Promised, ChipFinishes
  <2>2. UNCHANGED <<marker, consumed, job, pc, ok, inFollow>>
    BY <1>3 DEF ChipFinishes, env, run, flags
  <2>3. Called = Unarmed /\ Called' = Called /\ Resetting' = Resetting
    BY <2>1, <2>2 DEF Called, Resetting, ResetSent
  <2> QED
    BY <2>1, <2>2, <2>3, ShownTypePrimed DEF G!Rewrite, G!Free
<1> QED
  BY <1>2, <1>3

(* The marker's part: it goes before anything is written and comes back    *)
(* once everything is verified.                                            *)
LEMMA MarkerSteps ==
  ASSUME Inv, Disarm \/ ArmShutdownReset
  PROVE  G!Withdraw \/ G!Give
<1>1. job.op = "write" /\ job' = job /\ content' = content
  BY DEF Inv, Kinds, WriteStages, Disarm, ArmShutdownReset, Go, chip, run
<1>2. Called = Unarmed /\ Called' = Unarmed /\ Resetting = FALSE /\ Resetting' = FALSE
  BY <1>1, NothingCalled, NothingCalledPrimed
<1>3. Shown' = Shown
  BY <1>1 DEF Shown
<1>4. CASE marker' = Unarmed
  BY <1>2, <1>3, <1>4 DEF G!Withdraw
<1>5. CASE marker' = [first |-> job.first, last |-> job.last, image |-> job.image] /\ pc = "arm"
  <2>1. marker = Unarmed /\ Holds(job)
    BY <1>1, <1>5 DEF Inv, Kinds, Owners, Progress
  <2>2. marker' \in [first : Blocks, last : Blocks, image : Images] /\ marker'.first <= marker'.last
    BY <1>1, <1>5, JobShape DEF Inv, Kinds, NoJob
  <2>3. Holds(marker')
    BY <1>5, <2>1 DEF Holds
  <2>4. \A p \in [first : Blocks, last : Blocks, image : Images] : Holds(p) => G!Kept(p)
    BY HoldsKept DEF Inv
  <2>5. G!Kept(marker')
    BY <2>2, <2>3, <2>4
  <2> QED
    BY <1>2, <1>3, <2>1, <2>2, <2>5 DEF G!Give, G!Free, G!Promise
<1> QED
  BY <1>4, <1>5 DEF Disarm, ArmShutdownReset, Go

(* A step of a command that keeps flash and marker goes on with the reset, *)
(* decides to send it, or is past it.                                      *)
LEMMA CommandStep ==
  ASSUME Inv, UNCHANGED <<content, marker, consumed, job>>,
         job.op = "reset" /\ pc \in {"exitFollow", "enableKbc", "end"} => pc' \in {"enableKbc", "end"}
  PROVE  [G!SendReset \/ G!Spend]_(G!gvars)
<1>1. Shown' = Shown /\ marker' = marker
  BY DEF Shown
<1>2. CASE job.op # "reset"
  <2>1. Called' = Called /\ Resetting' = Resetting
    BY <1>2, NothingCalled, NothingCalledPrimed
  <2> QED
    BY <1>1, <2>1 DEF G!gvars
<1>3. CASE pc' \in {"enableKbc", "end"}
  <2>1. Called' = Unarmed /\ Resetting' = FALSE
    BY <1>3 DEF Called, Resetting
  <2> QED
    BY <1>1, <2>1 DEF G!Spend
<1>4. CASE job.op = "reset" /\ pc' \notin {"enableKbc", "end"}
  <2>1. Called = consumed /\ Called' = consumed /\ Resetting = FALSE
    BY <1>4 DEF Called, Resetting
  <2>2. consumed # Unarmed /\ Holds(consumed) /\ consumed \in [first : Blocks, last : Blocks, image : Images]
    BY <1>4 DEF Inv, Owners, Promised, TypeOK, Promises
  <2>3. G!Kept(Called)
    <3>1. TypeOK
      BY DEF Inv
    <3>2. G!Kept(consumed)
      BY <2>2, <3>1, HoldsKept
    <3> QED
      BY <2>1, <3>2
  <2>4. Resetting' \in BOOLEAN
    BY DEF Resetting
  <2>5. CASE Resetting' = TRUE
    BY <1>1, <2>1, <2>2, <2>3, <2>5 DEF G!SendReset
  <2>6. CASE Resetting' = FALSE
    BY <1>1, <2>1, <2>6 DEF G!gvars
  <2> QED
    BY <2>4, <2>5, <2>6
<1> QED
  BY <1>2, <1>3, <1>4

LEMMA ToolSteps ==
  ASSUME Inv, TypeOK', Tool
  PROVE  [G!GNext]_(G!gvars)
<1> USE DEF chip, ec, env, place, flags, run, Go, Access
<1>1. CASE Mutate
  BY <1>1, ContentSteps DEF G!GNext
<1>2. CASE Disarm \/ ArmShutdownReset
  BY <1>2, MarkerSteps DEF G!GNext
<1>3. CASE Exit
  <2>1. job'.op # "reset" /\ Shown' = Shown /\ marker' = marker
    BY <1>3 DEF Exit, Gone, Fresh, NoJob, Shown
  <2>2. Called' = Unarmed /\ Resetting' = FALSE
    BY <2>1, NothingCalledPrimed
  <2> QED
    BY <2>1, <2>2 DEF G!Spend, G!GNext
<1>4. ASSUME UNCHANGED <<content, marker, consumed, job>>,
             job.op = "reset" /\ pc \in {"exitFollow", "enableKbc", "end"} => pc' \in {"enableKbc", "end"}
      PROVE  [G!GNext]_(G!gvars)
  BY <1>4, CommandStep DEF G!GNext
<1>5. CASE WaitBeforeWrite \/ DisableKbc \/ EnterFollow \/ ReadId \/ PreRead \/ WriteEnable
  BY <1>4, <1>5 DEF WaitBeforeWrite, DisableKbc, EnterFollow, ReadId, PreRead, WriteEnable
<1>6. CASE Latch \/ Settle \/ EraseVerify \/ WriteDisable \/ Verify \/ WaitTimesOut \/ StopNoticed
  BY <1>4, <1>6 DEF Latch, Settle, EraseVerify, WriteDisable, Verify, WaitTimesOut, StopNoticed
<1>7. CASE ReadFlash \/ ReadFinish \/ Compare \/ Done \/ Cleanup \/ Quiesce
  BY <1>4, <1>7 DEF ReadFlash, ReadFinish, Compare, Done, Cleanup, Quiesce
<1>8. CASE ExitFollow \/ EnableKbc
  BY <1>4, <1>8 DEF ExitFollow, EnableKbc
<1> QED
  BY <1>1, <1>2, <1>3, <1>5, <1>6, <1>7, <1>8 DEF Tool

(* The machine's part: a start calls nothing in, the helper calls in what  *)
(* it takes away, and a death or a boot gives up what was called in.       *)
LEMMA MachineSteps ==
  ASSUME Inv, Environment
  PROVE  [G!GNext]_(G!gvars)
<1> USE DEF chip, ec, env, place, flags, run
<1>1. ASSUME NEW j \in WriteJobs \cup ReadJobs, Start(j)
      PROVE  UNCHANGED G!gvars
  <2>1. job.op # "reset" /\ job'.op # "reset"
    BY <1>1 DEF Start, Launch, Fresh, Inv, Kinds, NoJob, WriteJobs, ReadJobs, Job
  <2>2. Shown' = Shown /\ marker' = marker
    BY <1>1 DEF Start, Launch, Shown
  <2> QED
    BY <2>1, <2>2, NothingCalled, NothingCalledPrimed DEF G!gvars
<1>2. CASE AccessFails \/ Signal
  <2>1. UNCHANGED <<content, marker, consumed, job>>
    BY <1>2 DEF AccessFails, Signal
  <2>2. pc \notin {"exitFollow", "enableKbc", "end"}
    BY <1>2 DEF AccessFails, Signal, Working
  <2> QED
    BY <2>1, <2>2, CommandStep DEF G!GNext
<1>3. CASE Killed \/ (\E action \in {"poweroff", "kexec"} : Shutdown(action))
  <2>1. job'.op # "reset" /\ Shown' = Shown /\ marker' = marker
    BY <1>3 DEF Killed, Shutdown, Gone, Fresh, NoJob, Shown
  <2> QED
    BY <2>1, NothingCalledPrimed DEF G!Spend, G!GNext
<1>4. CASE ShutdownHelper
  <2>1. job.op # "reset" /\ marker # Unarmed
    BY <1>4 DEF ShutdownHelper, Inv, Kinds, NoJob
  <2>2. /\ Shown' = Shown /\ marker' = Unarmed /\ consumed' = marker
        /\ job'.op = "reset" /\ pc' = "disableKbc"
    BY <1>4 DEF ShutdownHelper, Launch, Fresh, ResetJob, Job, Shown
  <2>3. Called' = marker /\ Resetting' = FALSE
    BY <2>2 DEF Called, Resetting
  <2> QED
    BY <2>1, <2>2, <2>3, NothingCalled DEF G!CallIn, G!GNext
<1>5. CASE Boot \/ PowerLoss
  <2>1. job' = NoJob /\ content' = content /\ marker' = Unarmed
    BY <1>5 DEF Boot, PowerLoss, Gone, Fresh
  <2>2. job'.op # "reset" /\ Shown' = Shown
    BY <2>1 DEF NoJob, Shown
  <2> QED
    BY <2>1, <2>2, NothingCalledPrimed DEF G!Forget, G!GNext
<1> QED
  BY <1>1, <1>2, <1>3, <1>4, <1>5 DEF Environment

LEMMA GuardedStep == Inv /\ Inv' /\ [Next]_vars => [G!GNext]_(G!gvars)
<1> SUFFICES ASSUME Inv, Inv', [Next]_vars PROVE [G!GNext]_(G!gvars)
  OBVIOUS
<1>1. TypeOK'
  BY DEF Inv
<1>2. CASE ChipFinishes
  BY <1>1, <1>2, ContentSteps DEF G!GNext
<1>3. CASE UNCHANGED vars
  BY <1>3 DEF vars, chip, env, run, flags, Shown, Called, Resetting, ResetSent, G!gvars
<1> QED
  BY <1>1, <1>2, <1>3, ToolSteps, MachineSteps DEF Next

(* Marker, shutdown helper and FE implement the guarded reset, whatever    *)
(* commands are started, stopped or killed in between: a reset is promised *)
(* for a verified range, the flash is left alone while the promise stands, *)
(* and one promise pays for one reset.                                     *)
THEOREM ResetIsGuarded == Spec => ImplementsGuardedReset
<1>1. Spec => G!GInit /\ [][G!GNext]_(G!gvars)
  BY Invariance, GuardedInit, GuardedStep, PTL DEF Spec
<1> QED
  BY <1>1 DEF ImplementsGuardedReset, G!GSpec
=============================================================================
