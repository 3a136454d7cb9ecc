-------------------------------- MODULE EcFlash --------------------------------
(***************************************************************************)
(* The ec-flash command and its shutdown helper, with the flash chip and   *)
(* the EC they drive.  A step is one operation of the tool on the chip     *)
(* (an SPI transaction, a wait, a read-back); the bytes of a transaction   *)
(* are abstracted.  The chip goes on by itself while the tool waits, dies  *)
(* or is told to stop; the machine may be shut down or lose power.         *)
(***************************************************************************)
EXTENDS Naturals, Sequences

CONSTANTS
  NBlocks,      (* 64 KiB blocks of the flash                              *)
  NUnits,       (* erase sectors, and program pages, of a block            *)
  Images,       (* contents of a block                                     *)
  MaxRuns       (* bound on the commands a user starts                     *)

ASSUME SizeAssumption == NBlocks \in Nat \ {0} /\ NUnits \in Nat \ {0}
ASSUME ImagesAssumption == Images # {} /\ "torn" \notin Images
ASSUME MaxRunsAssumption == MaxRuns \in Nat

VARIABLES
  (* the flash chip                                                        *)
  content,      (* what each unit of each block holds                      *)
  busy,         (* the operation in flight (status bit WIP), or Ready      *)
  wel,          (* write-enable latch                                      *)
  (* the EC                                                                *)
  follow,       (* in Follow Mode                                          *)
  kbcOff,       (* keyboard controller disabled                            *)
  (* the machine                                                           *)
  machine,      (* "up", or the final action of the shutdown under way     *)
  marker,       (* the reset marker, with what it was armed for (history)  *)
  (* the running command                                                   *)
  pc, job,
  blk, unit, task,
  inFollow, kbcDisabled, entered, writeStarted,
  ok,           (* rc = 0                                                  *)
  stopped,      (* SIGINT or SIGTERM was caught                            *)
  got,          (* what the buffers of a dump hold                         *)
  (* history                                                               *)
  found,        (* the device as the command found it                      *)
  warned,       (* it printed that its cleanup did not complete            *)
  readCut,      (* a pair of flash_read was cut before any mutation        *)
  afterStop,    (* mutations it started after the stop                     *)
  consumed,     (* the marker the shutdown helper removed                  *)
  runs          (* commands started so far                                 *)

chip == <<content, busy, wel>>
ec == <<follow, kbcOff>>
env == <<machine, marker, consumed, runs>>
place == <<blk, unit, task>>
flags == <<inFollow, kbcDisabled, entered, writeStarted>>
run == <<job, ok, stopped, got, found, warned, readCut, afterStop>>
vars == <<chip, ec, env, pc, place, flags, run>>

Blocks == 1 .. NBlocks
Units == 1 .. NUnits
Cells == Images \cup {"erased", "torn"}
Whole(cell) == [u \in Units |-> cell]
Ready == [blk |-> 0]                       \* no operation in flight
Busy == busy # Ready
Unarmed == [first |-> 0]                   \* no marker

Job(op, first, last, image, double) ==
  [op |-> op, first |-> first, last |-> last, image |-> image, double |-> double]
WriteJobs == {Job("write", f, l, i, FALSE) : f \in Blocks, l \in Blocks, i \in Images}
ReadJobs == {Job("read", 1, NBlocks, "none", d) : d \in BOOLEAN}
ResetJob == Job("reset", 1, NBlocks, "none", FALSE)
NoJob == [op |-> "none"]

Go(from, to) == pc = from /\ pc' = to
(* An access to the EC may also report a timeout after it took effect.     *)
Access(from, to) == pc = from /\ pc' \in {to, "cleanup"}

(* ec_stop_requested; the flag is forgotten once cleanup begins.           *)
StopRequestedNever == FALSE   \* fault: ec_set_stop_flag is not called
StopRequested == stopped

-----------------------------------------------------------------------------
(* The chip.                                                               *)

(* An accepted mutation leaves the unit torn until it completes, and for   *)
(* good if it was cut short or the chip does not take it.                  *)
Accept(torn, result) ==
  /\ busy' \in {[blk |-> blk, unit |-> unit, result |-> r] : r \in {torn, result}}
  /\ content' = [content EXCEPT ![blk][unit] = torn]
  /\ UNCHANGED wel

ChipFinishes ==
  /\ Busy
  /\ content' = [content EXCEPT ![busy.blk][busy.unit] = busy.result]
  /\ busy' = Ready
  /\ wel' = FALSE
  /\ UNCHANGED <<ec, env, pc, place, flags, run>>

-----------------------------------------------------------------------------
(* The command: its start, the marker, Follow Mode.                        *)

Fresh(j) ==
  /\ job' = j
  /\ blk' = (IF j = NoJob THEN 1 ELSE j.first) /\ unit' = 1 /\ task' = "unprotect"
  /\ inFollow' = FALSE /\ kbcDisabled' = FALSE /\ entered' = FALSE /\ writeStarted' = FALSE
  /\ ok' = FALSE /\ stopped' = FALSE /\ got' = <<>> /\ warned' = FALSE /\ readCut' = FALSE /\ afterStop' = 0

Launch(j) ==
  /\ Fresh(j)
  /\ pc' = IF j.op = "write" THEN "disarm" ELSE "disableKbc"
  /\ found' = [follow |-> follow, kbcOff |-> kbcOff, wel |-> wel, busy |-> Busy]
  /\ UNCHANGED <<chip, ec, machine>>

Gone == pc' = "idle" /\ Fresh(NoJob) /\ UNCHANGED found

Start(j) ==
  /\ machine = "up" /\ pc = "idle" /\ runs < MaxRuns
  /\ j.first <= j.last
  /\ Launch(j)
  /\ runs' = runs + 1
  /\ UNCHANGED <<marker, consumed>>

DisarmKeeps ==             \* fault: the old marker is not removed
  /\ Go("disarm", "delay")
  /\ UNCHANGED <<chip, ec, env, place, flags, run>>
Disarm ==
  /\ Go("disarm", "delay")
  /\ marker' = Unarmed
  /\ UNCHANGED <<chip, ec, machine, consumed, runs, place, flags, run>>

(* nanosleep is interrupted by a signal that arrives while it sleeps; one  *)
(* that came before is not looked at.                                      *)
WaitBeforeWrite ==
  /\ \/ Go("delay", "disableKbc")
     \/ stopped /\ Go("delay", "cleanup")
  /\ UNCHANGED <<chip, ec, env, place, flags, run>>

DisableKbcLate ==          \* fault: kbc_disabled is set after the wait
  /\ Access("disableKbc", "enterFollow")
  /\ kbcOff' = TRUE /\ kbcDisabled' = (pc' # "cleanup")
  /\ UNCHANGED <<chip, follow, env, place, inFollow, entered, writeStarted, run>>
DisableKbc ==
  /\ Access("disableKbc", "enterFollow")
  /\ kbcOff' = TRUE /\ kbcDisabled' = TRUE
  /\ UNCHANGED <<chip, follow, env, place, inFollow, entered, writeStarted, run>>

(* 0xdc and the wait for its acknowledgement.                              *)
AfterEnter == CASE job.op = "write" -> "readId"
                [] job.op = "read" -> "read"
                [] job.op = "reset" -> "done"
EnterFollow ==
  /\ Access("enterFollow", AfterEnter)
  /\ follow' = TRUE
  /\ inFollow' = TRUE
  /\ entered' = (pc' # "cleanup")
  /\ UNCHANGED <<chip, kbcOff, env, place, kbcDisabled, writeStarted, run>>

(* A chip in the middle of an operation does not answer 0x9f; ff is no     *)
(* vendor the write path accepts.                                          *)
ReadId ==
  /\ \/ Busy /\ Go("readId", "cleanup")
     \/ ~Busy /\ Go("readId", "preRead")
  /\ UNCHANGED <<chip, ec, env, place, flags, run>>

-----------------------------------------------------------------------------
(* write_image: a block is left alone, or unprotected, erased, programmed  *)
(* and read back.  flash_read ends with the wait for WIP to clear.         *)

NextBlock ==
  IF blk < job.last
  THEN blk' = blk + 1 /\ pc' = "preRead"
  ELSE pc' = "done" /\ UNCHANGED blk

PreRead ==
  /\ pc = "preRead" /\ ~Busy
  /\ \/ /\ content[blk] = Whole(job.image)
        /\ NextBlock
        /\ UNCHANGED <<unit, task, writeStarted>>
     \/ /\ content[blk] # Whole(job.image)
        /\ writeStarted' = TRUE
        /\ task' = "unprotect" /\ unit' = 1
        /\ pc' = "ready"
        /\ UNCHANGED blk
  /\ UNCHANGED <<chip, ec, env, inFollow, kbcDisabled, entered, run>>

(* flash_write_enable: ready, WREN (which may get lost), latch.            *)
WriteEnable ==
  /\ ~StopRequested /\ ~Busy
  /\ Access("ready", "latch")
  /\ wel' \in {wel, TRUE}
  /\ UNCHANGED <<content, busy, ec, env, place, flags, run>>

Latch ==
  /\ ~StopRequested /\ wel /\ ~Busy
  /\ Go("latch", "mutate")
  /\ UNCHANGED <<chip, ec, env, place, flags, run>>

Mutate ==
  /\ Access("mutate", "settle")
  /\ LET was == content[blk][unit]
     IN  CASE task = "unprotect" -> Accept(was, was)
           [] task = "erase" -> Accept("torn", "erased")
           [] task = "program" -> Accept("torn", IF was = "erased" THEN job.image ELSE "torn")
  /\ afterStop' = IF stopped THEN afterStop + 1 ELSE afterStop
  /\ UNCHANGED <<ec, env, place, flags, job, ok, stopped, got, found, warned, readCut>>

(* flash_wait_ready after the mutation, then the next unit or phase.       *)
SettleUnwaited ==          \* fault: no wait after the last command of a phase
  /\ ~StopRequested
  /\ pc = "settle"
  /\ \/ task = "unprotect" /\ task' = "erase" /\ unit' = 1 /\ pc' = "ready"
     \/ task # "unprotect" /\ unit < NUnits /\ unit' = unit + 1 /\ pc' = "ready" /\ UNCHANGED task
     \/ /\ task # "unprotect" /\ unit = NUnits
        /\ pc' = IF task = "erase" THEN "eraseVerify" ELSE "writeDisable"
        /\ UNCHANGED <<unit, task>>
  /\ UNCHANGED <<chip, ec, env, blk, flags, run>>
SettleOneTooMany ==        \* fault: offset <= FLASH_ERASE_BLOCK_SIZE
  /\ ~StopRequested /\ ~Busy
  /\ pc = "settle"
  /\ IF unit <= NUnits
     THEN unit' = unit + 1 /\ pc' = "ready" /\ UNCHANGED task
     ELSE pc' = "eraseVerify" /\ UNCHANGED <<unit, task>>
  /\ UNCHANGED <<chip, ec, env, blk, flags, run>>
Settle ==
  /\ ~StopRequested /\ ~Busy
  /\ pc = "settle"
  /\ \/ task = "unprotect" /\ task' = "erase" /\ unit' = 1 /\ pc' = "ready"
     \/ task # "unprotect" /\ unit < NUnits /\ unit' = unit + 1 /\ pc' = "ready" /\ UNCHANGED task
     \/ /\ task # "unprotect" /\ unit = NUnits
        /\ pc' = IF task = "erase" THEN "eraseVerify" ELSE "writeDisable"
        /\ UNCHANGED <<unit, task>>
  /\ UNCHANGED <<chip, ec, env, blk, flags, run>>

EraseVerify ==
  /\ pc = "eraseVerify" /\ ~Busy
  /\ \/ /\ content[blk] = Whole("erased")
        /\ task' = "program" /\ unit' = 1
        /\ pc' = "ready"
     \/ /\ content[blk] # Whole("erased")
        /\ pc' = "cleanup"
        /\ UNCHANGED <<task, unit>>
  /\ UNCHANGED <<chip, ec, env, blk, flags, run>>

WriteDisable ==
  /\ ~StopRequested /\ ~Busy
  /\ Access("writeDisable", "verify")
  /\ wel' = FALSE
  /\ UNCHANGED <<content, busy, ec, env, place, flags, run>>

VerifyUnchecked ==         \* fault: what was read back is not compared
  /\ pc = "verify" /\ ~Busy
  /\ NextBlock
  /\ UNCHANGED <<chip, ec, env, unit, task, flags, run>>
Verify ==
  /\ pc = "verify" /\ ~Busy
  /\ \/ content[blk] = Whole(job.image) /\ NextBlock
     \/ content[blk] # Whole(job.image) /\ pc' = "cleanup" /\ UNCHANGED blk
  /\ UNCHANGED <<chip, ec, env, unit, task, flags, run>>

(* wait_status: the deadline, and the stop flag it looks at each time.     *)
WaitTimesOutReady ==       \* fault: no deadline on the write-enable latch
  /\ pc \in {"ready", "settle", "writeDisable"} /\ Busy
  /\ pc' = "cleanup"
  /\ UNCHANGED <<chip, ec, env, place, flags, run>>
WaitTimesOutLatch ==       \* fault: no deadline on the end of an operation
  /\ pc = "latch" /\ ~(wel /\ ~Busy)
  /\ pc' = "cleanup"
  /\ UNCHANGED <<chip, ec, env, place, flags, run>>
WaitTimesOut ==
  /\ \/ pc \in {"ready", "settle", "writeDisable"} /\ Busy
     \/ pc = "latch" /\ ~(wel /\ ~Busy)
  /\ pc' = "cleanup"
  /\ UNCHANGED <<chip, ec, env, place, flags, run>>

StopNoticed ==
  /\ StopRequested
  /\ pc \in {"ready", "latch", "settle", "writeDisable"}
  /\ pc' = "cleanup"
  /\ UNCHANGED <<chip, ec, env, place, flags, run>>

-----------------------------------------------------------------------------
(* --dump and --verify: a chip that is busy answers nonsense.  Each read   *)
(* ends with follow_read_transaction_finish, which waits for WIP to clear  *)
(* and knows no deadline.                                                  *)

Sample == IF Busy THEN "nonsense" ELSE "flash"

ReadFlash ==
  /\ Go("read", "readFinish")
  /\ got' = Append(got, Sample)
  /\ UNCHANGED <<chip, ec, env, place, flags, job, ok, stopped, found, warned, readCut, afterStop>>

ReadFinishUnwaited ==      \* fault: the status is read once and not waited for
  /\ Go("readFinish", IF job.double /\ Len(got) = 1 THEN "read" ELSE "compare")
  /\ UNCHANGED <<chip, ec, env, place, flags, run>>
ReadFinish ==
  /\ ~Busy
  /\ Go("readFinish", IF job.double /\ Len(got) = 1 THEN "read" ELSE "compare")
  /\ UNCHANGED <<chip, ec, env, place, flags, run>>

Compare ==
  /\ \/ Go("compare", "cleanup")
     \/ Go("compare", "done") /\ \A i, j \in 1 .. Len(got) : got[i] = got[j]
  /\ UNCHANGED <<chip, ec, env, place, flags, run>>

-----------------------------------------------------------------------------
(* The way out, taken by every command that is not killed.                 *)

Done ==
  /\ Go("done", "cleanup")
  /\ ok' = TRUE
  /\ UNCHANGED <<chip, ec, env, place, flags, job, stopped, got, found, warned, readCut, afterStop>>

CleanupAlways ==           \* fault: the chip is not looked after
  /\ Go("cleanup", "exitFollow")
  /\ UNCHANGED <<chip, ec, env, place, flags, run>>
Cleanup ==
  /\ Go("cleanup", IF entered /\ writeStarted /\ ~ok THEN "quiesce" ELSE "exitFollow")
  /\ UNCHANGED <<chip, ec, env, place, flags, run>>

(* flash_wait_ready and flash_write_disable, with no stop flag any more.   *)
Quiesce ==
  /\ Go("quiesce", "exitFollow")
  /\ \/ ~Busy /\ wel' = FALSE /\ UNCHANGED warned
     \/ wel' \in {wel, wel /\ Busy} /\ warned' = TRUE
  /\ UNCHANGED <<content, busy, ec, env, place, flags, job, ok, stopped, got, found, readCut, afterStop>>

(* follow_exit: 0x05s, 0xfe when a reset is asked for, 0xfc, which an EC   *)
(* that waits for the rest of a pair takes for a data byte.                *)
ResetSent == job.op = "reset" /\ ok /\ inFollow
ExitFollow ==
  /\ Go("exitFollow", "enableKbc")
  /\ \/ ~inFollow /\ UNCHANGED <<follow, ok, warned>>
     \/ inFollow /\ follow' = readCut /\ UNCHANGED <<ok, warned>>
     \/ inFollow /\ follow' \in {follow, FALSE} /\ ok' = FALSE /\ warned' = TRUE
  /\ inFollow' = FALSE
  /\ UNCHANGED <<chip, kbcOff, env, place, kbcDisabled, entered, writeStarted, job, stopped, got, found, readCut, afterStop>>

EnableKbc ==
  /\ pc = "enableKbc"
  /\ \/ ~kbcDisabled /\ UNCHANGED <<kbcOff, ok, warned>>
     \/ kbcDisabled /\ kbcOff' = FALSE /\ UNCHANGED <<ok, warned>>
     \/ kbcDisabled /\ kbcOff' \in {kbcOff, FALSE} /\ ok' = FALSE /\ warned' = TRUE
  /\ kbcDisabled' = FALSE
  /\ pc' = IF ok' /\ job.op = "write" THEN "arm" ELSE "end"
  /\ UNCHANGED <<chip, follow, env, place, inFollow, entered, writeStarted, job, stopped, got, found, readCut, afterStop>>

ArmShutdownReset ==
  /\ Go("arm", "end")
  /\ \/ marker' = [first |-> job.first, last |-> job.last, image |-> job.image] /\ UNCHANGED ok
     \/ marker' = Unarmed /\ ok' = FALSE
  /\ UNCHANGED <<chip, ec, machine, consumed, runs, place, flags, job, stopped, got, found, warned, readCut, afterStop>>

Exit ==
  /\ pc = "end"
  /\ Gone
  /\ UNCHANGED <<chip, ec, env>>

-----------------------------------------------------------------------------
(* What happens to the command.                                            *)

Working == {"disarm", "delay", "disableKbc", "enterFollow", "readId", "preRead", "ready",
            "latch", "mutate", "settle", "eraseVerify", "writeDisable", "verify",
            "read", "readFinish", "compare", "done"}

(* An access whose port never becomes ready, or is left on a stop.  Before *)
(* the first mutation neither closing writes nor quiescing follow a pair   *)
(* of flash_read that is cut by it.                                        *)
AccessFails ==
  /\ pc \in Working \ {"delay", "done"}
  /\ pc' = "cleanup"
  /\ readCut' \in BOOLEAN
  /\ readCut' => pc \in {"preRead", "read", "readFinish"} /\ ~writeStarted
  /\ UNCHANGED <<chip, ec, env, place, flags, job, ok, stopped, got, found, warned, afterStop>>

Signal ==
  /\ pc \in Working
  /\ stopped' = TRUE
  /\ UNCHANGED <<chip, ec, env, pc, place, flags, job, ok, got, found, warned, readCut, afterStop>>

Killed ==
  /\ pc # "idle"
  /\ Gone
  /\ UNCHANGED <<chip, ec, env>>

(* What happens to the machine.  /run does not survive a boot; the EC      *)
(* stays powered through all of these but a power loss.                    *)
Shutdown(action) ==
  /\ machine = "up"
  /\ machine' = action
  /\ Gone
  /\ UNCHANGED <<chip, ec, marker, consumed, runs>>

(* ec-flash-system-shutdown: the marker goes first, then the reset.        *)
ShutdownHelper ==
  /\ machine = "poweroff" /\ pc = "idle"
  /\ marker # Unarmed
  /\ marker' = Unarmed /\ consumed' = marker
  /\ Launch(ResetJob)
  /\ UNCHANGED runs

Boot ==
  /\ machine # "up"
  /\ machine' = "up"
  /\ marker' = Unarmed /\ consumed' = Unarmed
  /\ follow' \in {follow, FALSE} /\ kbcOff' = FALSE
  /\ Gone
  /\ UNCHANGED <<chip, runs>>

PowerLoss ==
  /\ machine' = "up"
  /\ marker' = Unarmed /\ consumed' = Unarmed
  /\ follow' = FALSE /\ kbcOff' = FALSE
  /\ busy' = Ready /\ wel' = FALSE
  /\ Gone
  /\ UNCHANGED <<content, runs>>

-----------------------------------------------------------------------------
Init ==
  /\ \E i \in Images : content = [b \in Blocks |-> Whole(i)]
  /\ busy = Ready /\ wel = FALSE
  /\ follow = FALSE /\ kbcOff = FALSE
  /\ machine = "up" /\ marker = Unarmed
  /\ pc = "idle" /\ job = NoJob
  /\ blk = 1 /\ unit = 1 /\ task = "unprotect"
  /\ inFollow = FALSE /\ kbcDisabled = FALSE /\ entered = FALSE /\ writeStarted = FALSE
  /\ ok = FALSE /\ stopped = FALSE /\ got = <<>> /\ warned = FALSE /\ readCut = FALSE /\ afterStop = 0
  /\ found = [follow |-> FALSE, kbcOff |-> FALSE, wel |-> FALSE, busy |-> FALSE]
  /\ consumed = Unarmed
  /\ runs = 0

Tool ==
  \/ Disarm \/ WaitBeforeWrite \/ DisableKbc \/ EnterFollow \/ ReadId
  \/ PreRead \/ WriteEnable \/ Latch \/ Mutate \/ Settle
  \/ EraseVerify \/ WriteDisable \/ Verify \/ WaitTimesOut \/ StopNoticed
  \/ ReadFlash \/ ReadFinish \/ Compare
  \/ Done \/ Cleanup \/ Quiesce \/ ExitFollow \/ EnableKbc \/ ArmShutdownReset \/ Exit

Environment ==
  \/ \E j \in WriteJobs \cup ReadJobs : Start(j)
  \/ AccessFails \/ Signal \/ Killed
  \/ \E action \in {"poweroff", "kexec"} : Shutdown(action)
  \/ ShutdownHelper \/ Boot \/ PowerLoss

Next == Tool \/ ChipFinishes \/ Environment

Spec == Init /\ [][Next]_vars
(* The kernel schedules the process, and its bounded waits end; that the   *)
(* chip completes its operations is one thing more.                        *)
ToolSpec == Spec /\ WF_vars(Tool)
ChipCompletes == WF_vars(ChipFinishes)

-----------------------------------------------------------------------------
(* Properties.                                                             *)

Promises == {Unarmed} \cup [first : Blocks, last : Blocks, image : Images]

TypeOK ==
  /\ content \in [Blocks -> [Units -> Cells]]
  /\ busy \in {Ready} \cup [blk : Blocks, unit : Units, result : Cells]
  /\ wel \in BOOLEAN /\ follow \in BOOLEAN /\ kbcOff \in BOOLEAN
  /\ machine \in {"up", "poweroff", "kexec"}
  /\ marker \in Promises /\ consumed \in Promises
  /\ pc \in Working \cup {"idle", "cleanup", "quiesce", "exitFollow", "enableKbc", "arm", "end"}
  /\ job \in {NoJob} \cup WriteJobs \cup ReadJobs \cup {ResetJob}
  /\ blk \in Blocks /\ unit \in Units /\ task \in {"unprotect", "erase", "program"}
  /\ inFollow \in BOOLEAN /\ kbcDisabled \in BOOLEAN
  /\ entered \in BOOLEAN /\ writeStarted \in BOOLEAN
  /\ ok \in BOOLEAN /\ stopped \in BOOLEAN /\ warned \in BOOLEAN
  /\ readCut \in BOOLEAN
  /\ got \in Seq({"flash", "nonsense"})
  /\ found \in [follow : BOOLEAN, kbcOff : BOOLEAN, wel : BOOLEAN, busy : BOOLEAN]
  /\ afterStop \in Nat /\ runs \in Nat

Holds(promise) ==
  \A b \in Blocks : promise.first <= b /\ b <= promise.last => content[b] = Whole(promise.image)

(* The marker asks for an EC reset, which boots the EC from the flash: as  *)
(* long as it exists, the range it was armed for holds the image that was  *)
(* verified, whatever later commands were started, killed or failed.       *)
MarkerVerified == marker # Unarmed => Holds(marker)

(* 0xfe is about to be sent only if the marker of a verified write was     *)
(* consumed for it, and a second shutdown will not find that marker.       *)
ResetOnlyVerified ==
  pc = "exitFollow" /\ ResetSent =>
    consumed # Unarmed /\ Holds(consumed) /\ marker = Unarmed

(* The EC never boots from a flash that is not the one somebody verified.  *)
ArmedMeansVerified == MarkerVerified /\ ResetOnlyVerified

(* Exit status 0 of a write: every block of the range holds the image, the *)
(* chip is idle, the EC is out of Follow Mode, the keyboard is back and    *)
(* the reset is armed.                                                     *)
WriteIsDone ==
  pc = "end" /\ ok => /\ ~follow /\ ~kbcOff
                      /\ job.op = "write" => ~Busy /\ Holds(job) /\ marker # Unarmed

(* A dump that passed the consistency check holds what the flash holds,    *)
(* even if the chip was still busy with the work of a killed command.      *)
DumpIsFaithful ==
  pc = "end" /\ ok /\ job.op = "read" /\ job.double => got = <<"flash", "flash">>

(* The write path never reads the array of a chip that is busy: what it    *)
(* compares is what the flash holds.                                       *)
ReadsAreQuiet == pc \in {"preRead", "eraseVerify", "verify"} => ~Busy

(* Exit status 0 can be trusted, whatever the command was, and so can the  *)
(* comparisons of a write, which it rests on.                              *)
SuccessMeansDone == WriteIsDone /\ DumpIsFaithful /\ ReadsAreQuiet

(* A command that did not say that its cleanup failed leaves behind        *)
(* nothing it did not find: Follow Mode, a dead keyboard, a write-enabled  *)
(* or a busy chip.  It may have been stopped or have failed anywhere; only *)
(* where it cut a pair of a read the EC may stay in Follow Mode.           *)
NoWorseThanFound ==
  pc = "end" /\ ~warned =>
    /\ follow => found.follow \/ readCut
    /\ kbcOff => found.kbcOff
    /\ wel => found.wel
    /\ Busy => found.busy

(* After SIGINT or SIGTERM at most one more mutation is sent to the chip.  *)
OneMutationAfterStop == afterStop <= 1

(* Marker, helper and FE keep the promise of the abstract reset: it is     *)
(* given on a range that shows its image only, the flash is not written    *)
(* while it stands, and it is called in once, for one reset.               *)
Shown == [b \in Blocks |-> IF \E i \in Images : content[b] = Whole(i)
                          THEN content[b][1] ELSE "torn"]
Called == IF job.op = "reset" /\ pc \notin {"enableKbc", "end"} THEN consumed ELSE Unarmed
Resetting == pc = "exitFollow" /\ ResetSent
G == INSTANCE GuardedReset WITH
       shown <- Shown, promise <- marker, called <- Called, resetting <- Resetting,
       NoImage <- "torn", NoPromise <- Unarmed
ImplementsGuardedReset == G!GSpec

(* A write ends even if the chip never does.                               *)
WritesEnd == pc # "idle" /\ job.op = "write" ~> pc = "idle"

(* docs/02-flash-protocol.md: every wait has a deadline; every command ends*)
(* whatever the chip does.                                                 *)
EveryRunEnds == pc # "idle" ~> pc = "idle"

(* Every command, a dump included, ends if the chip completes what it is   *)
(* doing.                                                                  *)
RunsEndIfChipDoes == ChipCompletes => EveryRunEnds

(* No command hangs but a read of a chip that never becomes idle.          *)
OnlyDumpsHang == WritesEnd /\ RunsEndIfChipDoes
=============================================================================
