------------------------------ MODULE SbsMailbox ------------------------------
(***************************************************************************)
(* The doorbell mailbox of the SBS instrumentation v13: the firmware cave, *)
(* which appends one read command to each of CommandCount stock SMBus      *)
(* transactions, and the host program read_sbs_identity_cache.py, which    *)
(* rings the doorbell and reads the record.  The EC and the host share the *)
(* record byte by byte.  Host processes exclude each other (I2ecPort), so  *)
(* one client stands for all: it ends or is killed and opens the port anew.*)
(*                                                                         *)
(* A word of the record is known by what the programs do not see: the scan *)
(* that fetched it, the number of requests rung by then, and whether its   *)
(* transaction succeeded.                                                  *)
(***************************************************************************)
EXTENDS Naturals, FiniteSets

CONSTANTS
  CommandCount,      \* COMMAND_COUNT, 32
  Unstored,          \* commands whose word goes to the scratch word 00C0
  Captured,          \* words inside the bytes the host reads
  InterruptPoints,   \* where an interrupt may call the SMBus veneer
  MaxRequests        \* bound on the requests rung

Index == 0 .. CommandCount - 1
Stored == Index \ Unstored

ASSUME CommandCountAssumption == CommandCount \in Nat \ {0}
ASSUME CapturedAssumption == Captured \subseteq Stored
ASSUME MaxRequestsAssumption == MaxRequests \in Nat

(* The cave relies on it: no interrupt calls the veneer between the test   *)
(* of the state and its claim, nor while the record is being cleared.      *)
ASSUME InterruptsAssumption == InterruptPoints \subseteq {"idle", "stock", "command", "bypass"}

VARIABLES
  rec,           \* the record at 0A79
  scratch,       \* whose result the stock scratch word 00C0 holds
  ecPc,          \* next step of the main line and of an interrupt
  regs,          \* what each of them has in registers and on the stack
  host,          \* the client: next step and the record as read so far
  asked,         \* requests rung (history)
  scan           \* scans begun (history)

vars == <<rec, scratch, ecPc, regs, host, asked, scan>>
hostVars == <<host, asked>>

Levels == {"main", "irq"}
Word(s, a, ok) == [scan |-> s, asked |-> a, ok |-> ok]
NoWord == Word(0, 0, FALSE)
NoRegs == [index |-> 0, kept |-> "main", returned |-> FALSE]
NoRecord == [bell |-> "00", magic |-> FALSE, state |-> 0, mask |-> {},
             words |-> [i \in Stored |-> NoWord], count |-> 0]

(* "mine" is the number of the client's own request (0 without --request), *)
(* "overlap" that it was rung at the end of a scan: both are history.      *)
Closed == [pc |-> "closed", bell |-> "00", magic |-> FALSE, state |-> 0, mask |-> {},
           words |-> <<>>, mine |-> 0, overlap |-> FALSE]

-----------------------------------------------------------------------------
(* The main loop accepts a request.  An interrupt suspends the main line.  *)

Runs(l) == l = "main" => ecPc["irq"] = "idle"
EcStep(l, from, to) ==
  Runs(l) /\ ecPc[l] = from /\ ecPc' = [ecPc EXCEPT ![l] = to] /\ UNCHANGED hostVars
EcWrites(l, from, to, r) ==
  EcStep(l, from, to) /\ rec' = r /\ UNCHANGED <<scratch, regs, scan>>

AcceptTest == rec.bell = "A5" /\ EcWrites("main", "idle", "acceptBell", rec)

AcceptBellOnly ==     \* fault: a request during a scan is only acknowledged
  EcWrites("main", "acceptBell", IF rec.state = 1 THEN "idle" ELSE "acceptMagic", [rec EXCEPT !.bell = "5A"])
AcceptBell == EcWrites("main", "acceptBell", "acceptMagic", [rec EXCEPT !.bell = "5A"])
AcceptMagic == EcWrites("main", "acceptMagic", "acceptState", [rec EXCEPT !.magic = TRUE])
AcceptState == EcWrites("main", "acceptState", "clearMask", [rec EXCEPT !.state = 1])

(* The clearing loop runs upwards: bitmap, words, count.                   *)
ClearMaskMissing ==   \* fault: the loop starts above the bitmap
  /\ EcStep("main", "clearMask", "clearWords")
  /\ scan' = scan + 1
  /\ UNCHANGED <<rec, scratch, regs>>
ClearMask ==
  /\ EcStep("main", "clearMask", "clearWords")
  /\ rec' = [rec EXCEPT !.mask = {}]
  /\ scan' = scan + 1
  /\ UNCHANGED <<scratch, regs>>
ClearWords == EcWrites("main", "clearWords", "clearCount", [rec EXCEPT !.words = NoRecord.words])
ClearCountMissing == EcWrites("main", "clearCount", "idle", rec)   \* fault: the loop ends one byte early
ClearCount == EcWrites("main", "clearCount", "idle", [rec EXCEPT !.count = 0])

AcceptStep ==
  \/ AcceptTest \/ AcceptBell \/ AcceptMagic \/ AcceptState
  \/ ClearMask \/ ClearWords \/ ClearCount

-----------------------------------------------------------------------------
(* The SMBus veneer common:1B22, entered by a stock caller.                *)

VeneerEntry(l) ==
  /\ l = "irq" => ecPc["main"] \in InterruptPoints
  /\ EcWrites(l, "idle", IF rec.bell = "5A" THEN "pending" ELSE "bypass", rec)

(* "eligible": the caller runs on register bank 0.                         *)
PendingUnguarded(l, eligible) ==      \* fault: no look at the state
  EcWrites(l, "pending", IF eligible THEN "claim" ELSE "bypass", rec)
Pending(l, eligible) ==
  EcWrites(l, "pending", IF rec.state # 2 /\ eligible THEN "claim" ELSE "bypass", rec)

(* The stock transaction; the cave never looks at the word it brings.      *)
StockWorker(l) ==
  /\ scratch' = l
  /\ UNCHANGED <<rec, regs, scan>>

Bypass(l) == EcStep(l, "bypass", "idle") /\ StockWorker(l)
Claim(l) == EcWrites(l, "claim", "stock", [rec EXCEPT !.state = 2])
StockCall(l) == EcStep(l, "stock", "prepare") /\ StockWorker(l)

(* The cave pushes the scratch word and takes the count as command index.  *)
Prepare(l) ==
  /\ EcStep(l, "prepare", "command")
  /\ regs' = [regs EXCEPT ![l].kept = scratch, ![l].index = rec.count]
  /\ UNCHANGED <<rec, scratch, scan>>

(* The worker may fail, and then says nothing of the word it leaves.       *)
Command(l, ok) ==
  /\ EcStep(l, "command", "restore")
  /\ regs' = [regs EXCEPT ![l].returned = ok]
  /\ \/ /\ regs[l].index \in Stored
        /\ rec' = [rec EXCEPT !.words[regs[l].index] = Word(scan, asked, ok)]
        /\ UNCHANGED scratch
     \/ /\ regs[l].index \in Unstored
        /\ scratch' = "probe"
        /\ UNCHANGED rec
  /\ UNCHANGED scan

AfterRestore(l) == IF regs[l].returned THEN "mark" ELSE "count"
RestoreNothing(l) == EcWrites(l, "restore", AfterRestore(l), rec)   \* fault: no pop of the scratch word
Restore(l) ==
  /\ EcStep(l, "restore", AfterRestore(l))
  /\ scratch' = regs[l].kept
  /\ regs' = [regs EXCEPT ![l].kept = NoRegs.kept]
  /\ UNCHANGED <<rec, scan>>

Mark(l) == EcWrites(l, "mark", "count", [rec EXCEPT !.mask = @ \union {rec.count}])

CountTo(l, end) ==
  EcWrites(l, "count", IF rec.count + 1 = end THEN "finish" ELSE "more", [rec EXCEPT !.count = @ + 1])
CountEarly(l) == CountTo(l, CommandCount - 1)   \* fault: the scan ends one command early
Count(l) == CountTo(l, CommandCount)

MoreHeld(l) == EcWrites(l, "more", "leave", rec)   \* fault: the state stays 02
More(l) == EcWrites(l, "more", "leave", [rec EXCEPT !.state = 1])
Finish(l) == EcWrites(l, "finish", "publish", [rec EXCEPT !.state = 3])
Publish(l) == EcWrites(l, "publish", "leave", [rec EXCEPT !.bell = "C3"])

(* The registers are popped and the stock caller, which reads the scratch  *)
(* word, goes on.                                                          *)
Leave(l) ==
  /\ EcStep(l, "leave", "idle")
  /\ regs' = [regs EXCEPT ![l] = NoRegs]
  /\ UNCHANGED <<rec, scratch, scan>>

WindowStep(l) ==
  \/ VeneerEntry(l) \/ Bypass(l) \/ (\E eligible \in BOOLEAN : Pending(l, eligible))
  \/ Claim(l) \/ StockCall(l)
  \/ Prepare(l) \/ (\E ok \in BOOLEAN : Command(l, ok)) \/ Restore(l) \/ Mark(l)
  \/ Count(l) \/ More(l) \/ Finish(l) \/ Publish(l) \/ Leave(l)

(* The stretch in which a level holds the claim of state 02.               *)
Claimed == {"stock", "prepare", "command", "restore", "mark", "count", "more", "finish"}

-----------------------------------------------------------------------------
(* The host program.                                                       *)

ecVars == <<scratch, ecPc, regs, scan>>
HostStep(from, h) == host.pc = from /\ host' = h /\ UNCHANGED ecVars
HostReads(from, h) == HostStep(from, h) /\ UNCHANGED <<rec, asked>>

(* open_i2ec, which waits for the process before to end.                   *)
Open == HostReads("closed", [Closed EXCEPT !.pc = "open"])

(* The end of a scan is at hand: its last command is about to run, runs,   *)
(* or its completion is about to be published.                             *)
Ending ==
  /\ rec.count + 1 >= CommandCount
  /\ \E l \in Levels : ecPc[l] \in (Claimed \union {"pending", "claim", "publish"})

(* --request: write A5, whatever the doorbell shows.                       *)
Ring ==
  /\ asked < MaxRequests
  /\ asked' = asked + 1
  /\ rec' = [rec EXCEPT !.bell = "A5"]
  /\ HostStep("open", [host EXCEPT !.pc = "poll", !.mine = asked + 1, !.overlap = Ending])

(* The poll sees C3, or its time is up; without --request there is none.   *)
PollDone == rec.bell = "C3" /\ HostReads("poll", [host EXCEPT !.pc = "bell"])
PollTimeout == HostReads("poll", [host EXCEPT !.pc = "bell"])
ReadOnly == HostReads("open", [host EXCEPT !.pc = "bell"])

(* read_snapshot: one byte after the other, upwards.                       *)
SnapBell == HostReads("bell", [host EXCEPT !.pc = "magic", !.bell = rec.bell])
SnapMagic == HostReads("magic", [host EXCEPT !.pc = "state", !.magic = rec.magic])
SnapState == HostReads("state", [host EXCEPT !.pc = "mask", !.state = rec.state])
SnapMask == HostReads("mask", [host EXCEPT !.pc = "words", !.mask = rec.mask])
SnapWord ==
  \E i \in Captured \ DOMAIN host.words :
    /\ \A j \in Captured \ DOMAIN host.words : i <= j
    /\ HostReads("words", [host EXCEPT
         !.pc = IF \E j \in Captured : j > i THEN "words" ELSE "report",
         !.words = [j \in DOMAIN @ \union {i} |-> IF j = i THEN rec.words[i] ELSE @[j]]])

(* The process ends: after print_record, or killed at any point.           *)
Exit ==
  /\ host.pc # "closed"
  /\ host' = Closed
  /\ UNCHANGED <<rec, ecVars, asked>>

(* print_record: the exit status.                                          *)
Result(h) ==
  CASE h.bell = "A5" -> 3
    [] h.bell # "A5" /\ ~h.magic -> 2
    [] h.bell # "A5" /\ h.magic -> IF h.bell = "C3" /\ h.state = 3 THEN 0 ELSE 1

HostAction ==
  \/ Open \/ ReadOnly \/ Ring \/ PollDone \/ PollTimeout
  \/ SnapBell \/ SnapMagic \/ SnapState \/ SnapMask \/ SnapWord
  \/ Exit

-----------------------------------------------------------------------------

Init ==
  /\ rec = NoRecord
  /\ scratch = "main"
  /\ ecPc = [l \in Levels |-> "idle"]
  /\ regs = [l \in Levels |-> NoRegs]
  /\ host = Closed
  /\ asked = 0 /\ scan = 0

Next ==
  \/ AcceptStep
  \/ \E l \in Levels : WindowStep(l)
  \/ HostAction

Spec == Init /\ [][Next]_vars

(* Interrupts end and leave the main line time; its loop polls the         *)
(* doorbell; stock transactions that a window admits keep coming.          *)
Fairness ==
  /\ WF_vars(ecPc["irq"] # "idle" /\ WindowStep("irq"))
  /\ SF_vars(ecPc["main"] # "idle" /\ (AcceptStep \/ WindowStep("main")))
  /\ SF_vars(AcceptTest)
  /\ SF_vars(rec.bell = "5A" /\ VeneerEntry("main"))
  /\ SF_vars(Pending("main", TRUE))
FairSpec == Spec /\ Fairness

-----------------------------------------------------------------------------
(* Properties.                                                             *)

EcSteps == Claimed \union {"idle", "acceptBell", "acceptMagic", "acceptState",
  "clearMask", "clearWords", "clearCount", "pending", "bypass", "claim", "publish", "leave"}
WordType == [scan : 0 .. MaxRequests, asked : 0 .. MaxRequests, ok : BOOLEAN]
Owner == Levels \union {"probe"}
RecordType ==
  [bell : {"00", "A5", "5A", "C3"}, magic : BOOLEAN, state : 0 .. 3,
   mask : SUBSET Index, words : [Stored -> WordType], count : 0 .. CommandCount]

(* Every variable stays in its range; the count never passes the number of *)
(* commands, so the bitmap and the words stay inside the record.           *)
TypeOK ==
  /\ rec \in RecordType
  /\ scratch \in Owner
  /\ ecPc \in [Levels -> EcSteps]
  /\ regs \in [Levels -> [index : Index, kept : Owner, returned : BOOLEAN]]
  /\ host.mine \in 0 .. MaxRequests /\ host.overlap \in BOOLEAN
  /\ asked \in 0 .. MaxRequests /\ scan \in 0 .. MaxRequests

(* A success bit vouches for its word: a transaction of the same scan      *)
(* fetched it.                                                             *)
BitMeansWord == \A i \in rec.mask \intersect Stored : rec.words[i].ok /\ rec.words[i].scan = scan

(* C3 stands over a finished record only: whatever the host rang meanwhile,*)
(* every word under it is of the one latest scan and that scan is over;    *)
(* and at no time does a success bit stand over a word of another scan.    *)
CompleteIsWhole ==
  /\ rec.bell = "C3" =>
       /\ rec.state = 3 /\ rec.count = CommandCount
       /\ \A i \in Stored : rec.words[i].scan = scan
  /\ BitMeansWord

(* State 02 is shown exactly while a window is open, and only one level    *)
(* has one open: a transaction of an interrupt never restarts or repeats   *)
(* the command of the one it interrupted.                                  *)
OneWindow ==
  /\ (rec.state = 2) <=> (\E l \in Levels : ecPc[l] \in Claimed)
  /\ Cardinality({l \in Levels : ecPc[l] \in Claimed}) <= 1

(* The stock caller finds its own result in the scratch word when the      *)
(* window returns to it, whatever the appended command put there.          *)
CallerSeesItsWord == \A l \in Levels : ecPc[l] = "leave" => scratch = l

Reports == host.pc = "report"

Stale == \E i \in Captured : host.words[i].asked < host.mine

(* A completed answer holds words fetched before its request in one case   *)
(* only: the request was rung while the last command of a scan ran.        *)
StaleOnlyByOverlap == Reports /\ Result(host) = 0 /\ Stale => host.overlap

(* Cave and reader implement the abstract mailbox: a scan is begun on      *)
(* request only and posted once, whole and with true success bits; the     *)
(* record stands unchanged under C3; and what the reader reports as        *)
(* completed is what was posted, although it read it byte by byte while    *)
(* the EC ran and earlier processes may have rung and died.                *)
UnderWay ==
  \/ ecPc["main"] \in {"clearWords", "clearCount"}
  \/ scan > 0 /\ rec.count < CommandCount
  \/ \E l \in Levels : ecPc[l] \in {"finish", "publish"}
Posted == IF rec.bell = "C3" THEN {[words |-> rec.words, good |-> rec.mask \cap Stored]} ELSE {}
Taken == IF Reports /\ Result(host) = 0
         THEN {[words |-> host.words, good |-> host.mask \cap Captured]} ELSE {}
M == INSTANCE Mailbox WITH
       Slots <- Stored, Read <- Captured,
       begun <- scan, open <- UnderWay, posted <- Posted, taken <- Taken
ImplementsMailbox == M!MSpec

(* A doorbell that was rung shows completion in the end, whatever becomes  *)
(* of the process that rang it: no scan gets stuck half way.               *)
DoorbellAnswered == rec.bell = "A5" ~> rec.bell = "C3"
=============================================================================
