--------------------------- MODULE SbsMailboxProofs ---------------------------
(***************************************************************************)
(* Theorems about the doorbell mailbox, for every number of commands, of   *)
(* requests and of deaths of the client: one window at a time, a doorbell  *)
(* C3 over one whole scan, a scratch word that is its caller's, and an     *)
(* answer that is stale in one case only.                                  *)
(***************************************************************************)
EXTENDS SbsMailbox, FiniteSetTheorems, TLAPS

USE CommandCountAssumption, CapturedAssumption, MaxRequestsAssumption, InterruptsAssumption

Clearing == {"acceptMagic", "acceptState", "clearMask", "clearWords", "clearCount"}
Accepting == Clearing \cup {"acceptBell"}

(* Where a window has its command before it and where it has it behind it. *)
Counting == {"stock", "prepare", "command", "restore", "mark", "count"}
Fetched == {"restore", "mark", "count"}
HostSteps == {"closed", "open", "poll", "bell", "magic", "state", "mask", "words", "report"}
Bells == {"00", "A5", "5A", "C3"}

-----------------------------------------------------------------------------
(* The inductive invariant, part by part.                                  *)

RecType == rec \in RecordType

EcType ==
  /\ scratch \in Owner
  /\ ecPc \in [Levels -> EcSteps]
  /\ regs \in [Levels -> [index : Index, kept : Owner, returned : BOOLEAN]]

HostType ==
  /\ host = [pc |-> host.pc, bell |-> host.bell, magic |-> host.magic, state |-> host.state,
             mask |-> host.mask, words |-> host.words, mine |-> host.mine, overlap |-> host.overlap]
  /\ host.pc \in HostSteps
  /\ host.bell \in Bells /\ host.magic \in BOOLEAN /\ host.overlap \in BOOLEAN
  /\ asked \in 0 .. MaxRequests
  /\ host.mine \in 0 .. asked
  /\ scan \in Nat

(* An interrupt suspends the main line where it may, and never accepts.    *)
Suspended ==
  /\ ecPc["irq"] \notin Accepting
  /\ ecPc["irq"] # "idle" => ecPc["main"] \in {"idle", "stock", "command", "bypass"}

(* State 02 is the lock on the window.                                     *)
Locked ==
  /\ rec.state = 2 <=> ecPc["main"] \in Claimed \/ ecPc["irq"] \in Claimed
  /\ ~(ecPc["main"] \in Claimed /\ ecPc["irq"] \in Claimed)
  /\ \A l \in Levels : ecPc[l] = "claim" => rec.state # 2
  /\ \A l \in Levels : ecPc[l] = "publish" => rec.state = 3

(* A window only opens on a command that is left, and the one command is   *)
(* the one the window counts.                                              *)
Numbered ==
  /\ \A l \in Levels :
       ecPc[l] \in Counting \cup {"pending", "claim", "more"} => rec.count < CommandCount
  /\ \A l \in Levels : ecPc[l] \in {"finish", "publish"} => rec.count = CommandCount
  /\ \A l \in Levels : ecPc[l] \in {"command", "restore"} => regs[l].index = rec.count
  /\ rec.bell = "5A" /\ ecPc["main"] \notin Clearing
       /\ (\A l \in Levels : ecPc[l] \notin {"finish", "publish"}) => rec.count < CommandCount

(* Every scan was asked for.                                               *)
AskedFor ==
  /\ scan <= asked
  /\ ecPc["main"] = "acceptBell" => rec.bell = "A5"
  /\ ecPc["main"] \in Clearing => rec.bell \in {"A5", "5A"}
  /\ rec.bell = "A5" => scan + 1 <= asked
  /\ ecPc["main"] \in {"acceptMagic", "acceptState", "clearMask"} => scan + 1 <= asked
  /\ ecPc["main"] \in {"acceptMagic", "acceptState", "clearMask"} /\ rec.bell = "A5" =>
       scan + 2 <= asked

(* Success bits stand behind the count, each for a word of this scan.      *)
Bits ==
  /\ ecPc["main"] \in {"clearWords", "clearCount"} => rec.mask = {}
  /\ \A i \in rec.mask :
       \/ i < rec.count
       \/ i = rec.count /\ \E l \in Levels : ecPc[l] = "count"
  /\ \A i \in rec.mask : i \in Stored => rec.words[i].ok /\ rec.words[i].scan = scan
  /\ \A l \in Levels : ecPc[l] = "restore" /\ regs[l].returned /\ rec.count \in Stored =>
       rec.words[rec.count].ok
  /\ \A l \in Levels : ecPc[l] = "mark" /\ rec.count \in Stored => rec.words[rec.count].ok

(* The words behind the count are of this scan.                            *)
Filled ==
  ecPc["main"] \notin {"clearWords", "clearCount"} =>
    \A i \in Stored :
      i < rec.count \/ (i = rec.count /\ \E l \in Levels : ecPc[l] \in Fetched) =>
        rec.words[i].scan = scan

(* Under C3 the EC is done with the record.                                *)
Complete ==
  rec.bell = "C3" =>
    /\ rec.state = 3 /\ rec.count = CommandCount
    /\ ecPc["main"] \notin Accepting
    /\ \A l \in Levels : ecPc[l] \notin Claimed \cup {"pending", "claim", "publish"}

(* The stock result is in the scratch word, or with the window.            *)
Guarded ==
  \A l \in Levels :
    /\ ecPc[l] \in {"prepare", "mark", "count", "more", "finish", "publish", "leave"} => scratch = l
    /\ ecPc[l] \in {"command", "restore"} => regs[l].kept = l

(* What a client has read under C3 is still there.                         *)
Snapshot ==
  /\ DOMAIN host.words \subseteq Captured
  /\ host.pc = "report" => DOMAIN host.words = Captured
  /\ host.pc \in {"magic", "state", "mask", "words", "report"} /\ host.bell = "C3" =>
       /\ rec.bell = "C3"
       /\ host.pc \in {"words", "report"} => host.mask = rec.mask
       /\ \A i \in DOMAIN host.words : host.words[i] = rec.words[i]
  /\ host.pc \in {"bell", "magic", "state", "mask", "poll", "open", "closed"} =>
       DOMAIN host.words = {}

(* A request rung before the end of a scan is at hand gets words fetched   *)
(* after it.                                                               *)
Ends(l) ==
  \/ ecPc[l] \in Counting \cup {"pending", "claim"} /\ rec.count + 1 >= CommandCount
  \/ ecPc[l] \in {"finish", "publish"}
WordsSince(n) ==
  \A i \in Stored :
    i < rec.count \/ (i = rec.count /\ \E l \in Levels : ecPc[l] \in Fetched) =>
      n <= rec.words[i].asked
Answered ==
  host.mine > 0 /\ ~host.overlap =>
    \/ rec.bell = "A5" /\ \A l \in Levels : ~Ends(l)
    \/ ecPc["main"] \in Clearing
    \/ WordsSince(host.mine)

Inv ==
  /\ RecType /\ EcType /\ HostType
  /\ Suspended /\ Locked /\ Numbered /\ AskedFor
  /\ Bits /\ Filled /\ Complete /\ Guarded /\ Snapshot /\ Answered

LEMMA OneMore ==
  ASSUME NEW n \in Nat
  PROVE  \A i \in Stored : i < n + 1 => i < n \/ i = n
BY DEF Stored, Index

-----------------------------------------------------------------------------
(* The invariant holds at first.                                           *)
LEMMA InitInv == Init => Inv
<1> SUFFICES ASSUME Init PROVE Inv
  OBVIOUS
<1> USE DEF Init, Levels
<1>1. NoRecord.words \in [Stored -> WordType]
  BY DEF NoRecord, NoWord, Word, WordType
<1>2. rec.bell = "00" /\ rec.state = 0 /\ rec.mask = {} /\ rec.count = 0
  BY DEF NoRecord
<1>3. RecType
  BY <1>1 DEF RecType, RecordType, NoRecord
<1>4. EcType
  BY DEF EcType, EcSteps, Owner, NoRegs, Index
<1>5. HostType
  BY DEF HostType, Closed, HostSteps, Bells
<1>6. Suspended /\ Locked
  BY <1>2 DEF Suspended, Locked, Accepting, Clearing, Claimed
<1>7. Numbered /\ AskedFor
  BY <1>2 DEF Numbered, AskedFor, Counting, Clearing
<1>8. \A i \in Stored : ~(i < rec.count) /\ ecPc["main"] = "idle" /\ ecPc["irq"] = "idle"
  BY <1>2 DEF Stored, Index
<1>9. Bits /\ Filled
  BY <1>2, <1>8 DEF Bits, Filled, Fetched
<1>10. Complete /\ Guarded
  BY <1>2 DEF Complete, Guarded
<1>11. Snapshot
  BY DEF Snapshot, Closed
<1>12. Answered
  BY DEF Answered, Closed
<1> QED
  BY <1>3, <1>4, <1>5, <1>6, <1>7, <1>9, <1>10, <1>11, <1>12 DEF Inv

-----------------------------------------------------------------------------
(* Every step preserves the types.                                         *)
LEMMA RecTypeStep == Inv /\ [Next]_vars => RecType'
<1> SUFFICES ASSUME Inv, [Next]_vars PROVE RecType'
  OBVIOUS
<1> USE DEF Inv, RecType, EcType, HostType, AskedFor, Numbered, hostVars, ecVars,
      Levels, RecordType, WordType, Index, Stored
<1>1. CASE AcceptTest \/ AcceptBell
  BY <1>1 DEF AcceptTest, EcStep, EcWrites, Runs, AcceptBell
<1>2. CASE AcceptMagic
  BY <1>2 DEF AcceptMagic, EcStep, EcWrites, Runs
<1>3. CASE AcceptState
  BY <1>3 DEF AcceptState, EcStep, EcWrites, Runs
<1>4. CASE ClearMask \/ ClearCount
  BY <1>4 DEF ClearMask, EcStep, Runs, ClearCount, EcWrites
<1>5. CASE ClearWords
  <2>1. NoWord \in WordType
    BY DEF NoWord, Word
  <2>2. NoRecord.words \in [Stored -> WordType]
    BY <2>1 DEF NoRecord
  <2>3. rec' = [rec EXCEPT !.words = NoRecord.words]
    BY <1>5 DEF ClearWords, EcWrites, EcStep
  <2> HIDE DEF WordType, Stored, Index
  <2> QED
    BY <2>2, <2>3
<1>6. ASSUME NEW l \in Levels, NEW b \in BOOLEAN, VeneerEntry(l) \/ Bypass(l) \/
           Pending(l, b) \/ Claim(l)
      PROVE  RecType'
  BY <1>6 DEF VeneerEntry, EcStep, EcWrites, Runs, Bypass, StockWorker, Pending,
         Claim
<1>7. ASSUME NEW l \in Levels, NEW b \in BOOLEAN, StockCall(l) \/ Prepare(l) \/
           Command(l, b)
      PROVE  RecType'
  BY SMTT(20), <1>7 DEF StockCall, EcStep, StockWorker, Runs, Prepare, Command, Word
<1>8. ASSUME NEW l \in Levels, Restore(l)
      PROVE  RecType'
  BY <1>8 DEF Restore, EcStep, AfterRestore, Runs
<1>9. ASSUME NEW l \in Levels, Mark(l)
      PROVE  RecType'
  <2>1. ecPc[l] = "mark" /\ rec' = [rec EXCEPT !.mask = @ \cup {rec.count}]
    BY <1>9 DEF Mark, EcWrites, EcStep
  <2>2. rec.count \in Index
    BY <2>1 DEF Counting
  <2> HIDE DEF WordType, Stored, Index
  <2> QED
    BY <2>1, <2>2
<1>10. ASSUME NEW l \in Levels, Count(l)
      PROVE  RecType'
  <2>1. ecPc[l] = "count" /\ rec' = [rec EXCEPT !.count = @ + 1]
    BY <1>10 DEF Count, CountTo, EcWrites, EcStep
  <2>2. rec.count + 1 \in 0 .. CommandCount
    BY <2>1 DEF Counting
  <2> HIDE DEF WordType, Stored, Index
  <2> QED
    BY <2>1, <2>2
<1>11. ASSUME NEW l \in Levels, More(l) \/ Finish(l) \/ Publish(l) \/ Leave(l)
      PROVE  RecType'
  BY <1>11 DEF More, EcStep, EcWrites, Runs, Finish, Publish, Leave
<1>12. CASE Open \/ ReadOnly \/ Ring \/ PollDone \/ PollTimeout
  BY SMTT(20), <1>12 DEF Open, HostReads, HostStep, Closed, ReadOnly, Ring, PollDone,
         PollTimeout
<1>13. CASE SnapBell \/ SnapMagic \/ SnapState \/ SnapMask
  BY <1>13 DEF SnapBell, HostReads, HostStep, SnapMagic, SnapState, SnapMask
<1>14. CASE SnapWord \/ Exit
  BY <1>14 DEF SnapWord, HostReads, HostStep, Exit, Closed
<1>15. CASE UNCHANGED vars
  BY <1>15 DEF vars
<1> QED
  BY <1>1, <1>2, <1>3, <1>4, <1>5, <1>6, <1>7, <1>8, <1>9, <1>10, <1>11,
     <1>12, <1>13, <1>14, <1>15
  DEF Next, AcceptStep, WindowStep, HostAction

LEMMA EcTypeStep == Inv /\ [Next]_vars => EcType'
<1> SUFFICES ASSUME Inv, [Next]_vars PROVE EcType'
  OBVIOUS
<1> USE DEF Inv, RecType, EcType, Numbered, hostVars, ecVars, Levels, EcSteps,
      Owner, Claimed, RecordType, Index, Stored
<1>1. CASE AcceptTest \/ AcceptBell \/ AcceptMagic \/ AcceptState
  BY <1>1 DEF AcceptTest, EcStep, EcWrites, Runs, AcceptBell, AcceptMagic,
         AcceptState
<1>2. CASE ClearMask \/ ClearWords \/ ClearCount
  BY <1>2 DEF ClearMask, EcStep, Runs, ClearWords, EcWrites, ClearCount
<1>3. ASSUME NEW l \in Levels, NEW b \in BOOLEAN, VeneerEntry(l) \/ Bypass(l) \/
           Pending(l, b) \/ Claim(l)
      PROVE  EcType'
  BY <1>3 DEF VeneerEntry, EcStep, EcWrites, Runs, Bypass, StockWorker, Pending,
         Claim
<1>4. ASSUME NEW l \in Levels, NEW b \in BOOLEAN, StockCall(l) \/ Prepare(l) \/
           Command(l, b)
      PROVE  EcType'
  BY <1>4 DEF StockCall, EcStep, StockWorker, Runs, Prepare, Command
<1>5. ASSUME NEW l \in Levels, Restore(l) \/ Mark(l) \/ Count(l)
      PROVE  EcType'
  BY <1>5 DEF Restore, EcStep, AfterRestore, NoRegs, Runs, Mark, EcWrites, Count,
         CountTo
<1>6. ASSUME NEW l \in Levels, More(l) \/ Finish(l)
      PROVE  EcType'
  BY <1>6 DEF More, EcStep, EcWrites, Runs, Finish
<1>7. ASSUME NEW l \in Levels, Publish(l)
      PROVE  EcType'
  BY <1>7 DEF Publish, EcStep, EcWrites, Runs
<1>8. ASSUME NEW l \in Levels, Leave(l)
      PROVE  EcType'
  BY <1>8 DEF Leave, EcStep, NoRegs, Runs
<1>9. CASE Open \/ ReadOnly \/ Ring \/ PollDone \/ PollTimeout
  BY <1>9 DEF Open, HostReads, HostStep, Closed, ReadOnly, Ring, PollDone,
         PollTimeout
<1>10. CASE SnapBell \/ SnapMagic \/ SnapState \/ SnapMask
  BY <1>10 DEF SnapBell, HostReads, HostStep, SnapMagic, SnapState, SnapMask
<1>11. CASE SnapWord \/ Exit
  BY <1>11 DEF SnapWord, HostReads, HostStep, Exit, Closed
<1>12. CASE UNCHANGED vars
  BY <1>12 DEF vars
<1> QED
  BY <1>1, <1>2, <1>3, <1>4, <1>5, <1>6, <1>7, <1>8, <1>9, <1>10, <1>11,
     <1>12
  DEF Next, AcceptStep, WindowStep, HostAction

LEMMA HostTypeStep == Inv /\ [Next]_vars => HostType'
<1> SUFFICES ASSUME Inv, [Next]_vars PROVE HostType'
  OBVIOUS
<1> USE DEF Inv, RecType, HostType, hostVars, ecVars, Levels, HostSteps, Bells,
      RecordType
<1>1. CASE AcceptTest \/ AcceptBell \/ AcceptMagic \/ AcceptState
  BY <1>1 DEF AcceptTest, EcStep, EcWrites, Runs, AcceptBell, AcceptMagic,
         AcceptState
<1>2. CASE ClearMask \/ ClearWords \/ ClearCount
  BY <1>2 DEF ClearMask, EcStep, Runs, ClearWords, EcWrites, ClearCount
<1>3. ASSUME NEW l \in Levels, NEW b \in BOOLEAN, VeneerEntry(l) \/ Bypass(l) \/
           Pending(l, b) \/ Claim(l)
      PROVE  HostType'
  BY <1>3 DEF VeneerEntry, EcStep, EcWrites, Runs, Bypass, StockWorker, Pending,
         Claim
<1>4. ASSUME NEW l \in Levels, NEW b \in BOOLEAN, StockCall(l) \/ Prepare(l) \/
           Command(l, b)
      PROVE  HostType'
  BY <1>4 DEF StockCall, EcStep, StockWorker, Runs, Prepare, Command
<1>5. ASSUME NEW l \in Levels, Restore(l) \/ Mark(l) \/ Count(l)
      PROVE  HostType'
  BY <1>5 DEF Restore, EcStep, AfterRestore, Runs, Mark, EcWrites, Count, CountTo
<1>6. ASSUME NEW l \in Levels, More(l) \/ Finish(l) \/ Publish(l) \/ Leave(l)
      PROVE  HostType'
  BY <1>6 DEF More, EcStep, EcWrites, Runs, Finish, Publish, Leave
<1>7. CASE ReadOnly \/ PollDone \/ PollTimeout
  BY <1>7 DEF ReadOnly, HostReads, HostStep, PollDone, PollTimeout
<1>8. CASE Open
  <2>1. host' = [pc |-> "open", bell |-> "00", magic |-> FALSE, state |-> 0, mask |-> {},
                 words |-> <<>>, mine |-> 0, overlap |-> FALSE]
    BY <1>8 DEF Open, HostReads, HostStep, Closed
  <2>2. UNCHANGED <<asked, scan>> /\ 0 \in 0 .. asked
    BY <1>8 DEF Open, HostReads, HostStep
  <2> QED
    BY <2>1, <2>2
<1>9. CASE Ring
  <2>1. /\ host' = [host EXCEPT !.pc = "poll", !.mine = asked + 1, !.overlap = Ending]
        /\ asked' = asked + 1 /\ scan' = scan /\ asked < MaxRequests
    BY <1>9 DEF Ring, HostStep
  <2>2. asked + 1 \in 0 .. MaxRequests /\ asked + 1 \in 0 .. asked'
    BY <2>1
  <2>3. Ending \in BOOLEAN
    BY DEF Ending
  <2> QED
    BY <2>1, <2>2, <2>3
<1>10. CASE SnapBell \/ SnapMagic \/ SnapState \/ SnapMask
  BY ZenonT(40), <1>10 DEF SnapBell, HostReads, HostStep, SnapMagic, SnapState, SnapMask
<1>11. CASE SnapWord
  BY ZenonT(40), <1>11 DEF SnapWord, HostReads, HostStep
<1>12. CASE Exit
  BY <1>12 DEF Exit, HostReads, HostStep, Closed
<1>13. CASE UNCHANGED vars
  BY <1>13 DEF vars
<1> QED
  BY <1>1, <1>2, <1>3, <1>4, <1>5, <1>6, <1>7, <1>8, <1>9, <1>10, <1>11,
     <1>12, <1>13
  DEF Next, AcceptStep, WindowStep, HostAction

(* Interrupts, the window and its number.                                  *)
LEMMA SuspendedStep == Inv /\ [Next]_vars => Suspended'
<1> SUFFICES ASSUME Inv, [Next]_vars PROVE Suspended'
  OBVIOUS
<1> USE DEF Inv, EcType, Suspended, hostVars, ecVars, Levels, Accepting, Clearing,
      EcSteps
<1>1. CASE AcceptTest \/ AcceptBell \/ AcceptMagic \/ AcceptState
  BY <1>1 DEF AcceptTest, EcStep, EcWrites, Runs, AcceptBell, AcceptMagic,
         AcceptState
<1>2. CASE ClearMask \/ ClearWords \/ ClearCount
  BY <1>2 DEF ClearMask, EcStep, Runs, ClearWords, EcWrites, ClearCount
<1>3. ASSUME NEW l \in Levels, NEW b \in BOOLEAN, VeneerEntry(l) \/ Bypass(l) \/
           Pending(l, b) \/ Claim(l)
      PROVE  Suspended'
  BY <1>3 DEF VeneerEntry, EcStep, EcWrites, Runs, Bypass, StockWorker, Pending,
         Claim
<1>4. ASSUME NEW l \in Levels, NEW b \in BOOLEAN, StockCall(l) \/ Prepare(l) \/
           Command(l, b)
      PROVE  Suspended'
  BY <1>4 DEF StockCall, EcStep, StockWorker, Runs, Prepare, Command
<1>5. ASSUME NEW l \in Levels, Restore(l) \/ Mark(l) \/ Count(l)
      PROVE  Suspended'
  BY <1>5 DEF Restore, EcStep, AfterRestore, Runs, Mark, EcWrites, Count, CountTo
<1>6. ASSUME NEW l \in Levels, More(l) \/ Finish(l) \/ Publish(l) \/ Leave(l)
      PROVE  Suspended'
  BY <1>6 DEF More, EcStep, EcWrites, Runs, Finish, Publish, Leave
<1>7. CASE Open \/ ReadOnly \/ Ring \/ PollDone \/ PollTimeout
  BY <1>7 DEF Open, HostReads, HostStep, Closed, ReadOnly, Ring, PollDone,
         PollTimeout
<1>8. CASE SnapBell \/ SnapMagic \/ SnapState \/ SnapMask
  BY <1>8 DEF SnapBell, HostReads, HostStep, SnapMagic, SnapState, SnapMask
<1>9. CASE SnapWord \/ Exit
  BY <1>9 DEF SnapWord, HostReads, HostStep, Exit, Closed
<1>10. CASE UNCHANGED vars
  BY <1>10 DEF vars
<1> QED
  BY <1>1, <1>2, <1>3, <1>4, <1>5, <1>6, <1>7, <1>8, <1>9, <1>10
  DEF Next, AcceptStep, WindowStep, HostAction

LEMMA LockedStep == Inv /\ [Next]_vars => Locked'
<1> SUFFICES ASSUME Inv, [Next]_vars PROVE Locked'
  OBVIOUS
<1> USE DEF Inv, RecType, EcType, Suspended, Locked, hostVars, ecVars, Levels,
      Claimed, RecordType, Accepting, Clearing
<1>1. CASE AcceptTest \/ AcceptBell \/ AcceptMagic \/ AcceptState
  BY <1>1 DEF AcceptTest, EcStep, EcWrites, Runs, AcceptBell, AcceptMagic,
         AcceptState
<1>2. CASE ClearMask \/ ClearWords \/ ClearCount
  BY <1>2 DEF ClearMask, EcStep, Runs, ClearWords, EcWrites, ClearCount
<1>3. ASSUME NEW l \in Levels, NEW b \in BOOLEAN, VeneerEntry(l) \/ Bypass(l) \/
           Pending(l, b) \/ Claim(l)
      PROVE  Locked'
  BY <1>3 DEF VeneerEntry, EcStep, EcWrites, Runs, Bypass, StockWorker, Pending,
         Claim
<1>4. ASSUME NEW l \in Levels, NEW b \in BOOLEAN, StockCall(l) \/ Prepare(l) \/
           Command(l, b)
      PROVE  Locked'
  BY <1>4 DEF StockCall, EcStep, StockWorker, Runs, Prepare, Command
<1>5. ASSUME NEW l \in Levels, Restore(l) \/ Mark(l) \/ Count(l)
      PROVE  Locked'
  BY <1>5 DEF Restore, EcStep, AfterRestore, Runs, Mark, EcWrites, Count, CountTo
<1>6. ASSUME NEW l \in Levels, More(l) \/ Finish(l) \/ Publish(l) \/ Leave(l)
      PROVE  Locked'
  BY <1>6 DEF More, EcStep, EcWrites, Runs, Finish, Publish, Leave
<1>7. CASE Open \/ ReadOnly \/ Ring \/ PollDone \/ PollTimeout
  BY <1>7 DEF Open, HostReads, HostStep, Closed, ReadOnly, Ring, PollDone,
         PollTimeout
<1>8. CASE SnapBell \/ SnapMagic \/ SnapState \/ SnapMask
  BY <1>8 DEF SnapBell, HostReads, HostStep, SnapMagic, SnapState, SnapMask
<1>9. CASE SnapWord \/ Exit
  BY <1>9 DEF SnapWord, HostReads, HostStep, Exit, Closed
<1>10. CASE UNCHANGED vars
  BY <1>10 DEF vars
<1> QED
  BY <1>1, <1>2, <1>3, <1>4, <1>5, <1>6, <1>7, <1>8, <1>9, <1>10
  DEF Next, AcceptStep, WindowStep, HostAction

LEMMA NumberedStep == Inv /\ [Next]_vars => Numbered'
<1> SUFFICES ASSUME Inv, [Next]_vars PROVE Numbered'
  OBVIOUS
<1> USE DEF Inv, RecType, EcType, Suspended, Locked, Numbered, Complete, hostVars,
      ecVars, Levels, Claimed, RecordType, Accepting, Clearing, Counting, Index
<1>1. CASE AcceptTest \/ AcceptBell \/ AcceptMagic \/ AcceptState
  BY <1>1 DEF AcceptTest, EcStep, EcWrites, Runs, AcceptBell, AcceptMagic,
         AcceptState
<1>2. CASE ClearMask \/ ClearWords \/ ClearCount
  BY <1>2 DEF ClearMask, EcStep, Runs, ClearWords, EcWrites, ClearCount
<1>3. ASSUME NEW l \in Levels, NEW b \in BOOLEAN, VeneerEntry(l) \/ Bypass(l) \/
           Pending(l, b) \/ Claim(l)
      PROVE  Numbered'
  BY <1>3 DEF VeneerEntry, EcStep, EcWrites, Runs, Bypass, StockWorker, Pending,
         Claim
<1>4. ASSUME NEW l \in Levels, NEW b \in BOOLEAN, StockCall(l) \/ Prepare(l) \/
           Command(l, b)
      PROVE  Numbered'
  BY <1>4 DEF StockCall, EcStep, StockWorker, Runs, Prepare, Command
<1>5. ASSUME NEW l \in Levels, Restore(l) \/ Mark(l) \/ Count(l)
      PROVE  Numbered'
  BY <1>5 DEF Restore, EcStep, AfterRestore, Runs, Mark, EcWrites, Count, CountTo
<1>6. ASSUME NEW l \in Levels, More(l) \/ Finish(l) \/ Publish(l) \/ Leave(l)
      PROVE  Numbered'
  BY <1>6 DEF More, EcStep, EcWrites, Runs, Finish, Publish, Leave
<1>7. CASE Open \/ ReadOnly \/ Ring \/ PollDone \/ PollTimeout
  BY <1>7 DEF Open, HostReads, HostStep, Closed, ReadOnly, Ring, PollDone,
         PollTimeout
<1>8. CASE SnapBell \/ SnapMagic \/ SnapState \/ SnapMask
  BY <1>8 DEF SnapBell, HostReads, HostStep, SnapMagic, SnapState, SnapMask
<1>9. CASE SnapWord \/ Exit
  BY ZenonT(40), <1>9 DEF SnapWord, HostReads, HostStep, Exit, Closed
<1>10. CASE UNCHANGED vars
  BY <1>10 DEF vars
<1> QED
  BY <1>1, <1>2, <1>3, <1>4, <1>5, <1>6, <1>7, <1>8, <1>9, <1>10
  DEF Next, AcceptStep, WindowStep, HostAction

(* Requests, success bits and words.                                       *)
LEMMA AskedForStep == Inv /\ [Next]_vars => AskedFor'
<1> SUFFICES ASSUME Inv, [Next]_vars PROVE AskedFor'
  OBVIOUS
<1> USE DEF Inv, RecType, EcType, HostType, Suspended, AskedFor, hostVars, ecVars,
      Levels, Claimed, RecordType, Accepting, Clearing, Counting, Index
<1>1. CASE AcceptTest \/ AcceptBell \/ AcceptMagic \/ AcceptState
  BY <1>1 DEF AcceptTest, EcStep, EcWrites, Runs, AcceptBell, AcceptMagic,
         AcceptState
<1>2. CASE ClearMask \/ ClearWords \/ ClearCount
  BY <1>2 DEF ClearMask, EcStep, Runs, ClearWords, EcWrites, ClearCount
<1>3. ASSUME NEW l \in Levels, NEW b \in BOOLEAN, VeneerEntry(l) \/ Bypass(l) \/
           Pending(l, b) \/ Claim(l)
      PROVE  AskedFor'
  BY <1>3 DEF VeneerEntry, EcStep, EcWrites, Runs, Bypass, StockWorker, Pending,
         Claim
<1>4. ASSUME NEW l \in Levels, NEW b \in BOOLEAN, StockCall(l) \/ Prepare(l) \/
           Command(l, b)
      PROVE  AskedFor'
  BY <1>4 DEF StockCall, EcStep, StockWorker, Runs, Prepare, Command
<1>5. ASSUME NEW l \in Levels, Restore(l) \/ Mark(l) \/ Count(l)
      PROVE  AskedFor'
  BY <1>5 DEF Restore, EcStep, AfterRestore, Runs, Mark, EcWrites, Count, CountTo
<1>6. ASSUME NEW l \in Levels, More(l) \/ Finish(l) \/ Publish(l) \/ Leave(l)
      PROVE  AskedFor'
  BY <1>6 DEF More, EcStep, EcWrites, Runs, Finish, Publish, Leave
<1>7. CASE Open \/ ReadOnly \/ Ring \/ PollDone \/ PollTimeout
  BY SMTT(20), <1>7 DEF Open, HostReads, HostStep, Closed, ReadOnly, Ring, PollDone,
         PollTimeout
<1>8. CASE SnapBell \/ SnapMagic \/ SnapState \/ SnapMask
  BY <1>8 DEF SnapBell, HostReads, HostStep, SnapMagic, SnapState, SnapMask
<1>9. CASE SnapWord \/ Exit
  BY <1>9 DEF SnapWord, HostReads, HostStep, Exit, Closed
<1>10. CASE UNCHANGED vars
  BY <1>10 DEF vars
<1> QED
  BY <1>1, <1>2, <1>3, <1>4, <1>5, <1>6, <1>7, <1>8, <1>9, <1>10
  DEF Next, AcceptStep, WindowStep, HostAction

LEMMA BitsStep == Inv /\ [Next]_vars => Bits'
<1> SUFFICES ASSUME Inv, [Next]_vars PROVE Bits'
  OBVIOUS
<1> USE DEF Inv, RecType, EcType, Suspended, Locked, Numbered, Bits, hostVars,
      ecVars, Levels, Claimed, RecordType, Accepting, Clearing, Counting, Index,
      Stored, WordType
<1>1. CASE AcceptTest \/ AcceptBell \/ AcceptMagic \/ AcceptState
  BY <1>1 DEF AcceptTest, EcStep, EcWrites, Runs, AcceptBell, AcceptMagic,
         AcceptState
<1>2. CASE ClearMask \/ ClearWords \/ ClearCount
  BY <1>2 DEF ClearMask, EcStep, Runs, ClearWords, EcWrites, ClearCount
<1>3. ASSUME NEW l \in Levels, NEW b \in BOOLEAN, VeneerEntry(l) \/ Bypass(l) \/
           Pending(l, b) \/ Claim(l)
      PROVE  Bits'
  BY <1>3 DEF VeneerEntry, EcStep, EcWrites, Runs, Bypass, StockWorker, Pending,
         Claim
<1>4. ASSUME NEW l \in Levels, NEW b \in BOOLEAN, StockCall(l) \/ Prepare(l) \/
           Command(l, b)
      PROVE  Bits'
  BY SMTT(20), <1>4 DEF StockCall, EcStep, StockWorker, Runs, Prepare, Command, Word
<1>5. ASSUME NEW l \in Levels, Restore(l) \/ Count(l)
      PROVE  Bits'
  BY <1>5 DEF Restore, EcStep, AfterRestore, Runs, Count, EcWrites, CountTo
<1>6. ASSUME NEW l \in Levels, Mark(l)
      PROVE  Bits'
  <2>1. /\ ecPc[l] = "mark" /\ ecPc' = [ecPc EXCEPT ![l] = "count"]
        /\ rec' = [rec EXCEPT !.mask = @ \cup {rec.count}]
        /\ UNCHANGED <<regs, scan>>
    BY <1>6 DEF Mark, EcWrites, EcStep
  <2>2. /\ rec'.mask = rec.mask \cup {rec.count} /\ rec'.words = rec.words
        /\ rec'.count = rec.count /\ ecPc'[l] = "count"
        /\ \A k \in Levels : k # l => ecPc'[k] = ecPc[k]
    BY <2>1
  <2>3. ecPc'["main"] \notin {"clearWords", "clearCount"}
    BY <2>1, <2>2, <1>6 DEF Mark, EcWrites, EcStep, Runs
  <2>4. \A i \in rec'.mask :
          \/ i < rec'.count
          \/ i = rec'.count /\ \E k \in Levels : ecPc'[k] = "count"
    BY <2>1, <2>2
  <2>5. rec.count \in Stored => rec.words[rec.count].ok /\ rec.words[rec.count].scan = scan
    <3>1. ecPc["main"] \notin {"clearWords", "clearCount"}
      BY <2>1, <1>6 DEF Mark, EcWrites, EcStep, Runs
    <3>2. rec.count \in Stored => rec.words[rec.count].scan = scan
      BY <3>1, <2>1 DEF Filled, Fetched
    <3> QED
      BY <2>1, <3>2
  <2>6. \A i \in rec'.mask : i \in Stored => rec'.words[i].ok /\ rec'.words[i].scan = scan'
    BY <2>1, <2>2, <2>5
  <2>7. \A k \in Levels : /\ ecPc'[k] = "restore" => ecPc[k] = "restore"
                          /\ ecPc'[k] = "mark" => ecPc[k] = "mark"
    BY <2>2
  <2> QED
    BY <2>1, <2>2, <2>3, <2>4, <2>6, <2>7
<1>7. ASSUME NEW l \in Levels, More(l) \/ Finish(l) \/ Publish(l) \/ Leave(l)
      PROVE  Bits'
  BY <1>7 DEF More, EcStep, EcWrites, Runs, Finish, Publish, Leave
<1>8. CASE Open \/ ReadOnly
  BY <1>8 DEF Open, HostReads, HostStep, Closed, ReadOnly
<1>9. CASE Ring
  BY <1>9 DEF Ring, HostStep
<1>10. CASE PollDone \/ PollTimeout
  BY <1>10 DEF PollDone, HostReads, HostStep, PollTimeout
<1>11. CASE SnapBell \/ SnapMagic \/ SnapState \/ SnapMask
  BY <1>11 DEF SnapBell, HostReads, HostStep, SnapMagic, SnapState, SnapMask
<1>12. CASE SnapWord \/ Exit
  BY ZenonT(40), <1>12 DEF SnapWord, HostReads, HostStep, Exit, Closed
<1>13. CASE UNCHANGED vars
  BY <1>13 DEF vars
<1> QED
  BY ZenonT(40), <1>1, <1>2, <1>3, <1>4, <1>5, <1>6, <1>7, <1>8, <1>9, <1>10, <1>11,
     <1>12, <1>13
  DEF Next, AcceptStep, WindowStep, HostAction

LEMMA FilledStep == Inv /\ [Next]_vars => Filled'
<1> SUFFICES ASSUME Inv, [Next]_vars PROVE Filled'
  OBVIOUS
<1> USE DEF Inv, RecType, EcType, Suspended, Locked, Numbered, Filled, hostVars,
      ecVars, Levels, Claimed, RecordType, Accepting, Clearing, Counting, Index,
      Fetched, Stored, WordType
<1>1. CASE AcceptTest \/ AcceptBell \/ AcceptMagic \/ AcceptState
  BY <1>1 DEF AcceptTest, EcStep, EcWrites, Runs, AcceptBell, AcceptMagic,
         AcceptState
<1>2. CASE ClearMask \/ ClearWords \/ ClearCount
  BY <1>2 DEF ClearMask, EcStep, Runs, ClearWords, EcWrites, ClearCount
<1>3. ASSUME NEW l \in Levels, NEW b \in BOOLEAN, VeneerEntry(l) \/ Bypass(l) \/
           Pending(l, b) \/ Claim(l)
      PROVE  Filled'
  BY <1>3 DEF VeneerEntry, EcStep, EcWrites, Runs, Bypass, StockWorker, Pending,
         Claim
<1>4. ASSUME NEW l \in Levels, NEW b \in BOOLEAN, StockCall(l) \/ Prepare(l) \/
           Command(l, b)
      PROVE  Filled'
  BY <1>4 DEF StockCall, EcStep, StockWorker, Runs, Prepare, Command, Word
<1>5. ASSUME NEW l \in Levels, Restore(l) \/ Mark(l)
      PROVE  Filled'
  BY <1>5 DEF Restore, EcStep, AfterRestore, Runs, Mark, EcWrites
<1>6. ASSUME NEW l \in Levels, Count(l)
      PROVE  Filled'
  <2>1. /\ ecPc[l] = "count" /\ ecPc'[l] \in {"finish", "more"}
        /\ \A k \in Levels : k # l => ecPc'[k] = ecPc[k]
        /\ rec' = [rec EXCEPT !.count = @ + 1] /\ UNCHANGED <<scan, hostVars>>
    BY <1>6 DEF Count, CountTo, EcWrites, EcStep
  <2>2. rec'.count = rec.count + 1 /\ rec'.words = rec.words /\ rec'.bell = rec.bell
    BY <2>1
  <2>3. \A k \in Levels : ecPc'[k] \notin Fetched
    BY <2>1
  <2>4. \A i \in Stored : i < rec.count + 1 => i < rec.count \/ i = rec.count
    <3>1. rec.count \in Nat
      OBVIOUS
    <3> QED
      BY <3>1, OneMore
  <2>5. ecPc["main"] \notin {"clearWords", "clearCount"}
    BY <2>1, <1>6 DEF Count, CountTo, EcWrites, EcStep, Runs
  <2>6. ASSUME NEW i \in Stored,
               i < rec'.count \/ (i = rec'.count /\ \E k \in Levels : ecPc'[k] \in Fetched)
        PROVE  rec'.words[i].scan = scan'
    BY <2>1, <2>2, <2>3, <2>4, <2>5, <2>6
  <2> QED
    BY <2>6
<1>7. ASSUME NEW l \in Levels, More(l) \/ Finish(l) \/ Publish(l) \/ Leave(l)
      PROVE  Filled'
  BY <1>7 DEF More, EcStep, EcWrites, Runs, Finish, Publish, Leave
<1>8. CASE Open \/ ReadOnly \/ Ring \/ PollDone \/ PollTimeout
  BY ZenonT(40), <1>8 DEF Open, HostReads, HostStep, Closed, ReadOnly, Ring, PollDone,
         PollTimeout
<1>9. CASE SnapBell \/ SnapMagic \/ SnapState \/ SnapMask
  BY <1>9 DEF SnapBell, HostReads, HostStep, SnapMagic, SnapState, SnapMask
<1>10. CASE SnapWord \/ Exit
  BY ZenonT(40), <1>10 DEF SnapWord, HostReads, HostStep, Exit, Closed
<1>11. CASE UNCHANGED vars
  BY <1>11 DEF vars
<1> QED
  BY <1>1, <1>2, <1>3, <1>4, <1>5, <1>6, <1>7, <1>8, <1>9, <1>10, <1>11
  DEF Next, AcceptStep, WindowStep, HostAction

(* What completion stands for, to the stock caller and to the client.      *)
LEMMA CompleteStep == Inv /\ [Next]_vars => Complete'
<1> SUFFICES ASSUME Inv, [Next]_vars PROVE Complete'
  OBVIOUS
<1> USE DEF Inv, RecType, EcType, Suspended, Locked, Numbered, AskedFor, Complete,
      hostVars, ecVars, Levels, Claimed, RecordType, Accepting, Clearing, Counting,
      Index
<1>1. CASE AcceptTest \/ AcceptBell \/ AcceptMagic \/ AcceptState
  BY <1>1 DEF AcceptTest, EcStep, EcWrites, Runs, AcceptBell, AcceptMagic,
         AcceptState
<1>2. CASE ClearMask \/ ClearWords \/ ClearCount
  BY <1>2 DEF ClearMask, EcStep, Runs, ClearWords, EcWrites, ClearCount
<1>3. ASSUME NEW l \in Levels, NEW b \in BOOLEAN, VeneerEntry(l) \/ Bypass(l) \/
           Pending(l, b) \/ Claim(l)
      PROVE  Complete'
  BY <1>3 DEF VeneerEntry, EcStep, EcWrites, Runs, Bypass, StockWorker, Pending,
         Claim
<1>4. ASSUME NEW l \in Levels, NEW b \in BOOLEAN, StockCall(l) \/ Prepare(l) \/
           Command(l, b)
      PROVE  Complete'
  BY <1>4 DEF StockCall, EcStep, StockWorker, Runs, Prepare, Command
<1>5. ASSUME NEW l \in Levels, Restore(l) \/ Mark(l) \/ Count(l)
      PROVE  Complete'
  BY <1>5 DEF Restore, EcStep, AfterRestore, Runs, Mark, EcWrites, Count, CountTo
<1>6. ASSUME NEW l \in Levels, More(l) \/ Finish(l) \/ Publish(l) \/ Leave(l)
      PROVE  Complete'
  BY <1>6 DEF More, EcStep, EcWrites, Runs, Finish, Publish, Leave
<1>7. CASE Open \/ ReadOnly \/ Ring \/ PollDone \/ PollTimeout
  BY <1>7 DEF Open, HostReads, HostStep, Closed, ReadOnly, Ring, PollDone,
         PollTimeout
<1>8. CASE SnapBell \/ SnapMagic \/ SnapState \/ SnapMask
  BY <1>8 DEF SnapBell, HostReads, HostStep, SnapMagic, SnapState, SnapMask
<1>9. CASE SnapWord \/ Exit
  BY <1>9 DEF SnapWord, HostReads, HostStep, Exit, Closed
<1>10. CASE UNCHANGED vars
  BY <1>10 DEF vars
<1> QED
  BY <1>1, <1>2, <1>3, <1>4, <1>5, <1>6, <1>7, <1>8, <1>9, <1>10
  DEF Next, AcceptStep, WindowStep, HostAction

LEMMA GuardedStep == Inv /\ [Next]_vars => Guarded'
<1> SUFFICES ASSUME Inv, [Next]_vars PROVE Guarded'
  OBVIOUS
<1> USE DEF Inv, RecType, EcType, Suspended, Guarded, hostVars, ecVars, Levels,
      Owner, RecordType
<1>1. CASE AcceptTest \/ AcceptBell \/ AcceptMagic \/ AcceptState
  BY <1>1 DEF AcceptTest, EcStep, EcWrites, Runs, AcceptBell, AcceptMagic,
         AcceptState
<1>2. CASE ClearMask \/ ClearWords \/ ClearCount
  BY <1>2 DEF ClearMask, EcStep, Runs, ClearWords, EcWrites, ClearCount
<1>3. ASSUME NEW l \in Levels, NEW b \in BOOLEAN, VeneerEntry(l) \/ Bypass(l) \/
           Pending(l, b) \/ Claim(l)
      PROVE  Guarded'
  BY <1>3 DEF VeneerEntry, EcStep, EcWrites, Runs, Bypass, StockWorker, Pending,
         Claim
<1>4. ASSUME NEW l \in Levels, NEW b \in BOOLEAN, StockCall(l) \/ Prepare(l) \/
           Command(l, b)
      PROVE  Guarded'
  BY <1>4 DEF StockCall, EcStep, StockWorker, Runs, Prepare, Command
<1>5. ASSUME NEW l \in Levels, Restore(l) \/ Mark(l) \/ Count(l)
      PROVE  Guarded'
  BY <1>5 DEF Restore, EcStep, AfterRestore, Runs, Mark, EcWrites, Count, CountTo
<1>6. ASSUME NEW l \in Levels, More(l) \/ Finish(l) \/ Publish(l) \/ Leave(l)
      PROVE  Guarded'
  BY <1>6 DEF More, EcStep, EcWrites, Runs, Finish, Publish, Leave
<1>7. CASE Open \/ ReadOnly \/ Ring \/ PollDone \/ PollTimeout
  BY <1>7 DEF Open, HostReads, HostStep, Closed, ReadOnly, Ring, PollDone,
         PollTimeout
<1>8. CASE SnapBell \/ SnapMagic \/ SnapState \/ SnapMask
  BY <1>8 DEF SnapBell, HostReads, HostStep, SnapMagic, SnapState, SnapMask
<1>9. CASE SnapWord \/ Exit
  BY <1>9 DEF SnapWord, HostReads, HostStep, Exit, Closed
<1>10. CASE UNCHANGED vars
  BY <1>10 DEF vars
<1> QED
  BY <1>1, <1>2, <1>3, <1>4, <1>5, <1>6, <1>7, <1>8, <1>9, <1>10
  DEF Next, AcceptStep, WindowStep, HostAction

LEMMA SnapshotStep == Inv /\ [Next]_vars => Snapshot'
<1> SUFFICES ASSUME Inv, [Next]_vars PROVE Snapshot'
  OBVIOUS
<1> USE DEF Inv, RecType, EcType, HostType, Complete, Snapshot, hostVars, ecVars,
      Levels, RecordType, HostSteps, Accepting, Clearing, Claimed
<1>1. CASE AcceptTest \/ AcceptBell \/ AcceptMagic \/ AcceptState
  BY <1>1 DEF AcceptTest, EcStep, EcWrites, Runs, AcceptBell, AcceptMagic,
         AcceptState
<1>2. CASE ClearMask \/ ClearWords \/ ClearCount
  BY <1>2 DEF ClearMask, EcStep, Runs, ClearWords, EcWrites, ClearCount
<1>3. ASSUME NEW l \in Levels, NEW b \in BOOLEAN, VeneerEntry(l) \/ Bypass(l) \/
           Pending(l, b) \/ Claim(l)
      PROVE  Snapshot'
  BY <1>3 DEF VeneerEntry, EcStep, EcWrites, Runs, Bypass, StockWorker, Pending,
         Claim
<1>4. ASSUME NEW l \in Levels, NEW b \in BOOLEAN, StockCall(l) \/ Prepare(l) \/
           Command(l, b)
      PROVE  Snapshot'
  BY <1>4 DEF StockCall, EcStep, StockWorker, Runs, Prepare, Command
<1>5. ASSUME NEW l \in Levels, Restore(l) \/ Mark(l) \/ Count(l)
      PROVE  Snapshot'
  BY <1>5 DEF Restore, EcStep, AfterRestore, Runs, Mark, EcWrites, Count, CountTo
<1>6. ASSUME NEW l \in Levels, More(l) \/ Finish(l) \/ Publish(l) \/ Leave(l)
      PROVE  Snapshot'
  BY <1>6 DEF More, EcStep, EcWrites, Runs, Finish, Publish, Leave
<1>7. CASE Open \/ ReadOnly
  BY <1>7 DEF Open, HostReads, HostStep, Closed, ReadOnly
<1>8. CASE Ring
  BY <1>8 DEF Ring, HostStep
<1>9. CASE PollDone \/ PollTimeout
  BY <1>9 DEF PollDone, HostReads, HostStep, PollTimeout
<1>10. CASE SnapBell \/ SnapMagic
  BY ZenonT(40), <1>10 DEF SnapBell, HostReads, HostStep, SnapMagic
<1>11. CASE SnapState
  BY <1>11 DEF SnapState, HostReads, HostStep
<1>12. CASE SnapMask
  BY <1>12 DEF SnapMask, HostReads, HostStep
<1>13. CASE Exit
  BY <1>13 DEF Exit, HostReads, HostStep, Closed
<1>14. CASE SnapWord
  <2> DEFINE Rest == Captured \ DOMAIN host.words
  <2>1. PICK i \in Rest :
          /\ \A j \in Rest : i <= j
          /\ HostReads("words", [host EXCEPT
               !.pc = IF \E j \in Captured : j > i THEN "words" ELSE "report",
               !.words = [j \in DOMAIN @ \cup {i} |-> IF j = i THEN rec.words[i] ELSE @[j]]])
    BY <1>14 DEF SnapWord
  <2>2. /\ host'.words = [j \in DOMAIN host.words \cup {i} |->
                            IF j = i THEN rec.words[i] ELSE host.words[j]]
        /\ host'.pc = IF \E j \in Captured : j > i THEN "words" ELSE "report"
        /\ host.pc = "words" /\ rec' = rec
        /\ host'.bell = host.bell /\ host'.mask = host.mask
    BY <2>1 DEF HostReads, HostStep
  <2>3. DOMAIN host'.words = DOMAIN host.words \cup {i}
    BY <2>2
  <2>4. host'.pc = "report" => Captured \subseteq DOMAIN host.words \cup {i}
    <3> SUFFICES ASSUME ~ \E j \in Captured : j > i, NEW k \in Captured, k \notin DOMAIN host.words
                 PROVE  k = i
      BY <2>2
    <3>1. k \in Nat /\ i \in Nat
      BY <2>1 DEF Stored, Index
    <3>2. i <= k /\ ~(k > i)
      BY <2>1
    <3> QED
      BY <3>1, <3>2
  <2>5. host.bell = "C3" => \A j \in DOMAIN host'.words : host'.words[j] = rec'.words[j]
    BY <2>2, <2>3
  <2>6. host'.pc \in {"words", "report"}
    BY <2>2
  <2> QED
    BY <2>1, <2>2, <2>3, <2>4, <2>5, <2>6
<1>15. CASE UNCHANGED vars
  BY <1>15 DEF vars
<1> QED
  BY SMTT(20), <1>1, <1>2, <1>3, <1>4, <1>5, <1>6, <1>7, <1>8, <1>9, <1>10, <1>11,
     <1>12, <1>13, <1>14, <1>15
  DEF Next, AcceptStep, WindowStep, HostAction

LEMMA AnsweredStep == Inv /\ [Next]_vars => Answered'
<1> SUFFICES ASSUME Inv, [Next]_vars PROVE Answered'
  OBVIOUS
<1> USE DEF Inv, RecType, EcType, HostType, Suspended, Locked, Numbered, Complete,
      Answered, hostVars, ecVars, Levels, Claimed, RecordType, Accepting, Clearing,
      Counting, Index, Fetched, Stored, WordType, Ends, WordsSince
<1>1. CASE AcceptTest \/ AcceptBell \/ AcceptMagic \/ AcceptState
  BY <1>1 DEF AcceptTest, EcStep, EcWrites, Runs, AcceptBell, AcceptMagic,
         AcceptState
<1>2. CASE ClearMask \/ ClearWords \/ ClearCount
  BY <1>2 DEF ClearMask, EcStep, Runs, ClearWords, EcWrites, ClearCount
<1>3. ASSUME NEW l \in Levels, NEW b \in BOOLEAN, VeneerEntry(l) \/ Bypass(l) \/
           Pending(l, b) \/ Claim(l)
      PROVE  Answered'
  BY SMTT(20), <1>3 DEF VeneerEntry, EcStep, EcWrites, Runs, Bypass, StockWorker, Pending,
         Claim
<1>4. ASSUME NEW l \in Levels, NEW b \in BOOLEAN, StockCall(l) \/ Prepare(l) \/
           Command(l, b)
      PROVE  Answered'
  BY <1>4 DEF StockCall, EcStep, StockWorker, Runs, Prepare, Command, Word
<1>5. ASSUME NEW l \in Levels, Restore(l) \/ Mark(l)
      PROVE  Answered'
  BY <1>5 DEF Restore, EcStep, AfterRestore, Runs, Mark, EcWrites
<1>6. ASSUME NEW l \in Levels, Count(l)
      PROVE  Answered'
  <2>1. /\ ecPc[l] = "count" /\ ecPc'[l] \in {"finish", "more"}
        /\ \A k \in Levels : k # l => ecPc'[k] = ecPc[k]
        /\ rec' = [rec EXCEPT !.count = @ + 1] /\ UNCHANGED <<scan, hostVars>>
    BY <1>6 DEF Count, CountTo, EcWrites, EcStep
  <2>2. rec'.count = rec.count + 1 /\ rec'.words = rec.words /\ rec'.bell = rec.bell
    BY <2>1
  <2>3. \A k \in Levels : ecPc'[k] \notin Fetched
    BY <2>1
  <2>4. \A i \in Stored : i < rec.count + 1 => i < rec.count \/ i = rec.count
    <3>1. rec.count \in Nat
      OBVIOUS
    <3> QED
      BY <3>1, OneMore
  <2> SUFFICES ASSUME host.mine > 0, ~host.overlap
               PROVE  \/ rec'.bell = "A5" /\ \A k \in Levels : ~Ends(k)'
                      \/ WordsSince(host.mine)'
    BY <2>1
  <2>5. CASE rec.bell = "A5" /\ \A k \in Levels : ~Ends(k)
    <3>1. rec.count + 1 < CommandCount
      BY <2>1, <2>5
    <3>2. ecPc'[l] = "more"
      BY <3>1, <1>6 DEF Count, CountTo, EcWrites, EcStep
    <3>3. \A k \in Levels : k # l => ecPc[k] \in {"idle", "bypass"}
      BY <2>1, <1>6 DEF Count, CountTo, EcWrites, EcStep, Runs
    <3>4. \A k \in Levels : ~Ends(k)'
      BY <2>1, <3>2, <3>3
    <3> QED
      BY <2>2, <2>5, <3>4
  <2>6. CASE ecPc["main"] \in Clearing
    BY <2>1, <2>6, <1>6 DEF Count, CountTo, EcWrites, EcStep, Runs
  <2>7. CASE WordsSince(host.mine)
    <3>1. ASSUME NEW i \in Stored,
               i < rec'.count \/ (i = rec'.count /\ \E k \in Levels : ecPc'[k] \in Fetched)
          PROVE  host.mine <= rec'.words[i].asked
      BY <2>1, <2>2, <2>3, <2>4, <2>7, <3>1
    <3> QED
      BY <3>1, <2>1
  <2> QED
    BY <2>5, <2>6, <2>7
<1>7. ASSUME NEW l \in Levels, More(l) \/ Finish(l)
      PROVE  Answered'
  BY <1>7 DEF More, EcStep, EcWrites, Runs, Finish
<1>8. ASSUME NEW l \in Levels, Publish(l) \/ Leave(l)
      PROVE  Answered'
  BY <1>8 DEF Publish, EcStep, EcWrites, Runs, Leave
<1>9. CASE Open
  BY <1>9 DEF Open, HostReads, HostStep, Closed
<1>10. CASE ReadOnly
  BY <1>10 DEF ReadOnly, HostReads, HostStep
<1>11. CASE Ring
  BY <1>11 DEF Ring, HostStep, Ending
<1>12. CASE PollDone \/ PollTimeout
  BY <1>12 DEF PollDone, HostReads, HostStep, PollTimeout
<1>13. CASE SnapBell \/ SnapMagic
  BY ZenonT(40), <1>13 DEF SnapBell, HostReads, HostStep, SnapMagic
<1>14. CASE SnapState \/ SnapMask
  BY ZenonT(40), <1>14 DEF SnapState, HostReads, HostStep, SnapMask
<1>15. CASE SnapWord
  BY <1>15 DEF SnapWord, HostReads, HostStep
<1>16. CASE Exit
  BY <1>16 DEF Exit, HostReads, HostStep, Closed
<1>17. CASE UNCHANGED vars
  BY <1>17 DEF vars
<1> QED
  BY SMTT(20), <1>1, <1>2, <1>3, <1>4, <1>5, <1>6, <1>7, <1>8, <1>9, <1>10, <1>11,
     <1>12, <1>13, <1>14, <1>15, <1>16, <1>17
  DEF Next, AcceptStep, WindowStep, HostAction

LEMMA InvStep == Inv /\ [Next]_vars => Inv'
<1> SUFFICES ASSUME Inv, [Next]_vars PROVE Inv'
  OBVIOUS
<1>1. RecType' /\ EcType' /\ HostType'
  BY RecTypeStep, EcTypeStep, HostTypeStep
<1>2. Suspended' /\ Locked' /\ Numbered' /\ AskedFor'
  BY SuspendedStep, LockedStep, NumberedStep, AskedForStep
<1>3. Bits' /\ Filled' /\ Complete' /\ Guarded'
  BY BitsStep, FilledStep, CompleteStep, GuardedStep
<1>4. Snapshot' /\ Answered'
  BY SnapshotStep, AnsweredStep
<1> QED
  BY <1>1, <1>2, <1>3, <1>4 DEF Inv

LEMMA Invariance == Spec => []Inv
BY InitInv, InvStep, PTL DEF Spec

-----------------------------------------------------------------------------
(* Bitmap, words and count stay inside the record and every register in    *)
(* its type: the scan never runs past its last command.                    *)
THEOREM MailboxTypeCorrect == Spec => []TypeOK
<1>1. Inv => TypeOK
  <2> SUFFICES ASSUME Inv PROVE TypeOK
    OBVIOUS
  <2>1. asked \in 0 .. MaxRequests /\ scan \in Nat /\ scan <= asked /\ host.mine \in 0 .. asked
    BY DEF Inv, HostType, AskedFor
  <2>2. scan \in 0 .. MaxRequests /\ host.mine \in 0 .. MaxRequests
    BY <2>1
  <2> QED
    BY <2>1, <2>2 DEF Inv, RecType, EcType, HostType, TypeOK
<1> QED
  BY <1>1, Invariance, PTL

(* A window that one level of the EC has opened keeps the other out.       *)
THEOREM WindowsExclude == Spec => []OneWindow
<1>1. Inv => OneWindow
  <2> SUFFICES ASSUME Inv PROVE OneWindow
    OBVIOUS
  <2> DEFINE Holders == {l \in Levels : ecPc[l] \in Claimed}
  <2>1. \E l \in Levels : Holders \subseteq {l}
    BY DEF Inv, Locked, Levels
  <2>2. Cardinality(Holders) <= 1
    <3>1. PICK l \in Levels : Holders \subseteq {l}
      BY <2>1
    <3>2. Holders = {} \/ Holders = {l}
      BY <3>1
    <3>3. CASE Holders = {}
      BY <3>3, FS_EmptySet
    <3>4. Cardinality({l}) = 1
      BY FS_Singleton
    <3>5. CASE Holders = {l}
      BY <3>4, <3>5
    <3> QED
      BY <3>2, <3>3, <3>5
  <2>3. rec.state = 2 <=> \E l \in Levels : ecPc[l] \in Claimed
    BY DEF Inv, Locked, Levels
  <2> QED
    BY <2>2, <2>3 DEF OneWindow
<1> QED
  BY <1>1, Invariance, PTL

(* C3 stands over the words of one scan that is over, and a success bit    *)
(* over a word that scan fetched, for any number of commands.              *)
THEOREM ScansAreWhole == Spec => []CompleteIsWhole
<1>1. Inv => BitMeansWord
  BY DEF Inv, Bits, BitMeansWord
<1>2. Inv => CompleteIsWhole
  <2> SUFFICES ASSUME Inv, rec.bell = "C3"
               PROVE  /\ rec.state = 3 /\ rec.count = CommandCount
                      /\ \A i \in Stored : rec.words[i].scan = scan
    BY <1>1 DEF CompleteIsWhole
  <2>1. rec.state = 3 /\ rec.count = CommandCount /\ ecPc["main"] \notin Accepting
    BY DEF Inv, Complete
  <2>2. \A i \in Stored : i < rec.count
    BY <2>1 DEF Stored, Index
  <2> QED
    BY <2>1, <2>2 DEF Inv, Filled, Accepting, Clearing
<1> QED
  BY <1>2, Invariance, PTL

(* The stock caller of a window finds its own result in the scratch word.  *)
THEOREM CallersKeepTheirWord == Spec => []CallerSeesItsWord
<1>1. Inv => CallerSeesItsWord
  BY DEF Inv, Guarded, CallerSeesItsWord
<1> QED
  BY <1>1, Invariance, PTL

LEMMA ReportedUnderC3 ==
  ASSUME Inv, Reports, Result(host) = 0
  PROVE  /\ rec.bell = "C3" /\ host.mask = rec.mask
         /\ \A i \in Captured : host.words[i] = rec.words[i]
<1>1. host.bell = "C3"
  BY DEF Result, Inv, HostType
<1> QED
  BY <1>1 DEF Inv, Snapshot, Reports

AnswerIsWhole ==
  Reports /\ Result(host) = 0 =>
    \A i \in Captured : host.words[i].scan = scan /\ (i \in host.mask => host.words[i].ok)

(* What the client reports as completed is one whole scan, the latest,     *)
(* with true success bits, however it read it.                             *)
THEOREM AnswersAreWhole == Spec => []AnswerIsWhole
<1>1. Inv => AnswerIsWhole
  <2> SUFFICES ASSUME Inv, Reports, Result(host) = 0, NEW i \in Captured
               PROVE  host.words[i].scan = scan /\ (i \in host.mask => host.words[i].ok)
    BY DEF AnswerIsWhole
  <2>1. rec.bell = "C3" /\ host.mask = rec.mask /\ host.words[i] = rec.words[i]
    BY ReportedUnderC3
  <2>2. rec.count = CommandCount /\ ecPc["main"] \notin Accepting
    BY <2>1 DEF Inv, Complete
  <2>3. i \in Stored /\ i < rec.count
    BY <2>2 DEF Stored, Index
  <2>4. rec.words[i].scan = scan
    BY <2>2, <2>3 DEF Inv, Filled, Accepting, Clearing
  <2>5. i \in rec.mask => rec.words[i].ok
    BY <2>3 DEF Inv, Bits
  <2> QED
    BY <2>1, <2>4, <2>5
<1> QED
  BY <1>1, Invariance, PTL

(* A completed answer is older than its request only if the request was    *)
(* rung while a scan came to its end.                                      *)
THEOREM StaleInOneCase == Spec => []StaleOnlyByOverlap
<1>1. Inv => StaleOnlyByOverlap
  <2> SUFFICES ASSUME Inv, Reports, Result(host) = 0, ~host.overlap,
                      NEW i \in Captured, host.words[i].asked < host.mine
               PROVE  FALSE
    BY DEF StaleOnlyByOverlap, Stale
  <2>1. rec.bell = "C3" /\ host.words[i] = rec.words[i]
    BY ReportedUnderC3
  <2>2. rec.count = CommandCount /\ ecPc["main"] \notin Accepting
    BY <2>1 DEF Inv, Complete
  <2>3. i \in Stored /\ i < rec.count
    BY <2>2 DEF Stored, Index
  <2>4. rec.words[i].asked \in Nat /\ host.mine \in Nat
    BY <2>3 DEF Inv, RecType, RecordType, WordType, HostType
  <2>5. host.mine > 0
    BY <2>1, <2>4
  <2>6. WordsSince(host.mine)
    BY <2>1, <2>2, <2>5 DEF Inv, Answered, Accepting
  <2>7. host.mine <= rec.words[i].asked
    BY <2>3, <2>6 DEF WordsSince
  <2> QED
    BY <2>1, <2>4, <2>7
<1> QED
  BY <1>1, Invariance, PTL

-----------------------------------------------------------------------------
(* The refinement of the abstract mailbox.  It needs two facts more: no    *)
(* window opens before the first scan, and no word is older than its scan. *)

Begun ==
  scan = 0 =>
    /\ \A l \in Levels : ecPc[l] \notin Claimed \cup {"pending", "claim", "publish"}
    /\ ecPc["main"] \notin {"clearWords", "clearCount"}
    /\ rec.bell = "5A" => ecPc["main"] \in {"acceptMagic", "acceptState", "clearMask"}

Dated ==
  \A i \in Stored : rec.words[i].scan <= rec.words[i].asked /\ rec.words[i].asked <= asked

LEMMA InitDated == Init => Begun /\ Dated
<1> SUFFICES ASSUME Init PROVE Begun /\ Dated
  OBVIOUS
<1>1. rec.bell = "00" /\ \A i \in Stored : rec.words[i] = NoWord
  BY DEF Init, NoRecord
<1>2. Begun
  BY <1>1 DEF Begun, Init, Levels, Claimed
<1>3. Dated
  BY <1>1 DEF Dated, Init, NoWord, Word
<1> QED
  BY <1>2, <1>3

LEMMA BegunStep == Inv /\ Begun /\ [Next]_vars => Begun'
<1> SUFFICES ASSUME Inv, Begun, [Next]_vars PROVE Begun'
  OBVIOUS
<1> USE DEF Inv, RecType, EcType, HostType, Suspended, Begun, hostVars, ecVars, Levels,
      Claimed, RecordType, Accepting, Clearing
<1>1. CASE AcceptTest \/ AcceptBell \/ AcceptMagic \/ AcceptState
  BY <1>1 DEF AcceptTest, EcStep, EcWrites, Runs, AcceptBell, AcceptMagic, AcceptState
<1>2. CASE ClearMask \/ ClearWords \/ ClearCount
  BY <1>2 DEF ClearMask, EcStep, Runs, ClearWords, EcWrites, ClearCount
<1>3. ASSUME NEW l \in Levels, NEW b \in BOOLEAN,
             VeneerEntry(l) \/ Bypass(l) \/ Pending(l, b) \/ Claim(l)
      PROVE  Begun'
  BY <1>3 DEF VeneerEntry, EcStep, EcWrites, Runs, Bypass, StockWorker, Pending, Claim
<1>4. ASSUME NEW l \in Levels, NEW b \in BOOLEAN, StockCall(l) \/ Prepare(l) \/ Command(l, b)
      PROVE  Begun'
  BY <1>4 DEF StockCall, EcStep, StockWorker, Runs, Prepare, Command
<1>5. ASSUME NEW l \in Levels, Restore(l) \/ Mark(l) \/ Count(l)
      PROVE  Begun'
  BY <1>5 DEF Restore, EcStep, AfterRestore, Runs, Mark, EcWrites, Count, CountTo
<1>6. ASSUME NEW l \in Levels, More(l) \/ Finish(l) \/ Publish(l) \/ Leave(l)
      PROVE  Begun'
  BY <1>6 DEF More, EcStep, EcWrites, Runs, Finish, Publish, Leave
<1>7. CASE HostAction
  BY <1>7 DEF HostAction, Open, ReadOnly, Ring, PollDone, PollTimeout, SnapBell, SnapMagic,
         SnapState, SnapMask, SnapWord, Exit, HostReads, HostStep
<1>8. CASE UNCHANGED vars
  BY <1>8 DEF vars
<1> QED
  BY <1>1, <1>2, <1>3, <1>4, <1>5, <1>6, <1>7, <1>8 DEF Next, AcceptStep, WindowStep

(* Only the command of a window writes a word, and marks it with the scan  *)
(* and the requests of that moment.                                        *)
LEMMA DatedStep == Inv /\ Dated /\ [Next]_vars => Dated'
<1> SUFFICES ASSUME Inv, Dated, [Next]_vars, NEW i \in Stored
             PROVE  rec'.words[i].scan <= rec'.words[i].asked /\ rec'.words[i].asked <= asked'
  BY DEF Dated
<1> USE DEF hostVars, ecVars
<1>1. /\ rec.words[i].scan \in Nat /\ rec.words[i].asked \in Nat
      /\ asked \in Nat /\ scan \in Nat /\ scan <= asked
      /\ rec.words[i].scan <= rec.words[i].asked /\ rec.words[i].asked <= asked
  BY DEF Inv, RecType, RecordType, WordType, HostType, AskedFor, Dated
<1>2. ASSUME rec'.words[i] = rec.words[i], asked' \in {asked, asked + 1}
      PROVE  rec'.words[i].scan <= rec'.words[i].asked /\ rec'.words[i].asked <= asked'
  BY <1>1, <1>2
<1>3. CASE ClearWords
  <2>1. rec'.words[i] = NoWord /\ asked' = asked
    BY <1>3 DEF ClearWords, EcWrites, EcStep, NoRecord, Inv, RecType, RecordType
  <2> QED
    BY <1>1, <2>1 DEF NoWord, Word
<1>4. ASSUME NEW l \in Levels, NEW b \in BOOLEAN, Command(l, b)
      PROVE  rec'.words[i].scan <= rec'.words[i].asked /\ rec'.words[i].asked <= asked'
  <2>1. asked' = asked /\ (rec'.words[i] = rec.words[i] \/ rec'.words[i] = Word(scan, asked, b))
    BY <1>4 DEF Command, EcStep, Inv, RecType, RecordType
  <2> QED
    BY <1>1, <2>1 DEF Word
<1>5. CASE AcceptTest \/ AcceptBell \/ AcceptMagic \/ AcceptState \/ ClearMask \/ ClearCount
  <2>1. rec'.words = rec.words /\ asked' = asked
    BY <1>5 DEF AcceptTest, AcceptBell, AcceptMagic, AcceptState, ClearMask, ClearCount,
           EcWrites, EcStep, Inv, RecType, RecordType
  <2> QED
    BY <1>2, <2>1
<1>6. ASSUME NEW l \in Levels, NEW b \in BOOLEAN,
             VeneerEntry(l) \/ Bypass(l) \/ Pending(l, b) \/ Claim(l) \/ StockCall(l) \/ Prepare(l)
      PROVE  rec'.words = rec.words /\ asked' = asked
  BY <1>6 DEF VeneerEntry, EcStep, EcWrites, Bypass, StockWorker, Pending, Claim, StockCall,
         Prepare, Inv, RecType, RecordType
<1>7. ASSUME NEW l \in Levels,
             Restore(l) \/ Mark(l) \/ Count(l) \/ More(l) \/ Finish(l) \/ Publish(l) \/ Leave(l)
      PROVE  rec'.words = rec.words /\ asked' = asked
  BY <1>7 DEF Restore, Mark, Count, CountTo, More, Finish, Publish, Leave, EcStep, EcWrites,
         Inv, RecType, RecordType
<1>8. CASE HostAction
  <2>1. rec'.words = rec.words /\ asked' \in {asked, asked + 1}
    BY <1>8 DEF HostAction, Open, ReadOnly, Ring, PollDone, PollTimeout, SnapBell, SnapMagic,
           SnapState, SnapMask, SnapWord, Exit, HostReads, HostStep, Inv, RecType, RecordType
  <2> QED
    BY <1>2, <2>1
<1>9. CASE UNCHANGED vars
  BY <1>2, <1>9 DEF vars
<1> QED
  BY <1>2, <1>3, <1>4, <1>5, <1>6, <1>7, <1>8, <1>9 DEF Next, AcceptStep, WindowStep

(* The stages at which a scan begins and ends.                             *)
Edges == {"clearWords", "clearCount", "finish", "publish"}

LEMMA OpenIsBoolean == UnderWay \in BOOLEAN /\ UnderWay' \in BOOLEAN
BY DEF UnderWay

(* A step apart from the edges of a scan leaves it under way or not.       *)
LEMMA OpenKept ==
  ASSUME NEW l \in Levels, ecPc[l] \notin Edges, ecPc'[l] \notin Edges,
         \A k \in Levels : k # l => ecPc'[k] = ecPc[k],
         rec'.count = rec.count, scan' = scan
  PROVE  UnderWay' = UnderWay
<1>1. UnderWay' <=> UnderWay
  BY DEF UnderWay, Edges, Levels
<1> QED
  BY <1>1, OpenIsBoolean

(* A step of the EC that neither begins nor posts a scan is no step of the *)
(* abstract mailbox.                                                       *)
LEMMA EcStutters ==
  ASSUME UNCHANGED <<scan, host, asked>>, UnderWay' = UnderWay,
         rec'.bell = "C3" \/ rec.bell = "C3" => rec' = rec
  PROVE  UNCHANGED M!mvars
<1>1. Posted' = Posted
  BY DEF Posted
<1>2. Taken' = Taken
  BY DEF Taken, Reports, Result
<1> QED
  BY <1>1, <1>2 DEF M!mvars

LEMMA AcceptSteps ==
  ASSUME Inv, Begun, AcceptStep
  PROVE  [M!MNext]_(M!mvars)
<1> USE DEF EcWrites, EcStep, hostVars, Runs
<1>1. "main" \in Levels /\ ecPc \in [Levels -> EcSteps] /\ rec \in RecordType
  BY DEF Levels, Inv, EcType, RecType
<1>2. ecPc["main"] \in Accepting => rec.bell # "C3"
  BY DEF Inv, Complete
<1>3. CASE AcceptTest \/ AcceptBell \/ AcceptMagic \/ AcceptState
  <2>1. /\ UNCHANGED <<scan, host, asked>>
        /\ rec'.bell # "C3" /\ rec.bell # "C3"
    BY <1>1, <1>2, <1>3
       DEF AcceptTest, AcceptBell, AcceptMagic, AcceptState, Accepting, Clearing, RecordType
  <2>2. /\ ecPc["main"] \notin Edges /\ ecPc'["main"] \notin Edges
        /\ \A k \in Levels : k # "main" => ecPc'[k] = ecPc[k]
        /\ rec'.count = rec.count
    BY <1>1, <1>3 DEF AcceptTest, AcceptBell, AcceptMagic, AcceptState, Edges, RecordType
  <2>3. UnderWay' = UnderWay
    BY <1>1, <2>1, <2>2, OpenKept
  <2> QED
    BY <2>1, <2>3, EcStutters
<1>4. CASE ClearMask
  <2>1. /\ ecPc["main"] = "clearMask" /\ ecPc'["main"] = "clearWords"
        /\ rec'.bell = rec.bell /\ scan' = scan + 1 /\ UNCHANGED <<host, asked>>
    BY <1>1, <1>4 DEF ClearMask, RecordType
  <2>2. rec.bell # "C3" /\ scan < asked
    BY <1>2, <2>1 DEF Inv, AskedFor, HostType, Accepting, Clearing
  <2>3. Posted = {} /\ Posted' = {}
    BY <2>1, <2>2 DEF Posted
  <2>4. UnderWay' = TRUE
    BY <2>1 DEF UnderWay
  <2>5. Taken' = Taken
    BY <2>1 DEF Taken, Reports, Result
  <2>6. M!Begin
    BY <2>1, <2>2, <2>3, <2>4, <2>5 DEF M!Begin
  <2> QED
    BY <2>6 DEF M!MNext
<1>5. CASE ClearWords \/ ClearCount
  <2>1. /\ UNCHANGED <<scan, host, asked>>
        /\ rec'.bell # "C3" /\ rec.bell # "C3"
        /\ ecPc["main"] \in {"clearWords", "clearCount"}
        /\ ecPc'["main"] = "clearCount" \/ rec'.count = 0
    BY <1>1, <1>2, <1>5 DEF ClearWords, ClearCount, Accepting, Clearing, RecordType
  <2>2. scan > 0
    BY <2>1 DEF Begun, Inv, HostType
  <2>3. UnderWay /\ UnderWay'
    BY <2>1, <2>2 DEF UnderWay
  <2>4. UnderWay' = UnderWay
    BY <2>3, OpenIsBoolean
  <2> QED
    BY <2>1, <2>4, EcStutters
<1> QED
  BY <1>3, <1>4, <1>5 DEF AcceptStep

LEMMA WindowSteps ==
  ASSUME Inv, Begun, Dated, NEW l \in Levels, WindowStep(l)
  PROVE  [M!MNext]_(M!mvars)
<1> USE DEF EcWrites, EcStep, hostVars, Runs
<1>1. ecPc \in [Levels -> EcSteps] /\ rec \in RecordType /\ scan \in Nat
  BY DEF Inv, EcType, RecType, HostType
<1>2. ecPc[l] \in Claimed \cup {"pending", "claim", "publish"} => rec.bell # "C3"
  BY DEF Inv, Complete
<1>3. UNCHANGED <<scan, host, asked>>
  BY DEF WindowStep, VeneerEntry, Bypass, StockWorker, Pending, Claim, StockCall, Prepare,
     Command, Restore, Mark, Count, CountTo, More, Finish, Publish, Leave
<1>4. /\ ecPc'[l] \in EcSteps
      /\ \A k \in Levels : k # l => ecPc'[k] = ecPc[k]
  BY <1>1 DEF WindowStep, VeneerEntry, Bypass, StockWorker, Pending, Claim, StockCall, Prepare,
     Command, Restore, AfterRestore, Mark, Count, CountTo, More, Finish, Publish, Leave,
     EcSteps, Claimed
<1>5. ASSUME ecPc[l] \notin Edges, ecPc'[l] \notin Edges, rec'.count = rec.count,
             rec'.bell = "C3" \/ rec.bell = "C3" => rec' = rec
      PROVE  UNCHANGED M!mvars
  BY <1>3, <1>4, <1>5, OpenKept, EcStutters
<1>6. CASE VeneerEntry(l) \/ Bypass(l) \/ Leave(l)
  <2>1. rec' = rec /\ ecPc[l] \notin Edges /\ ecPc'[l] \notin Edges
    BY <1>1, <1>6 DEF VeneerEntry, Bypass, StockWorker, Leave, Edges
  <2> QED
    BY <1>5, <2>1
<1>7. ASSUME NEW b \in BOOLEAN,
             Pending(l, b) \/ Claim(l) \/ StockCall(l) \/ Prepare(l) \/ Command(l, b)
      PROVE  UNCHANGED M!mvars
  <2>1. /\ rec'.bell = rec.bell /\ rec'.count = rec.count
        /\ ecPc[l] \notin Edges /\ ecPc'[l] \notin Edges
        /\ ecPc[l] \in Claimed \cup {"pending", "claim", "publish"}
    BY <1>1, <1>7 DEF Pending, Claim, StockCall, StockWorker, Prepare, Command, Edges, Claimed,
         RecordType
  <2> QED
    BY <1>2, <1>5, <2>1
<1>8. CASE Restore(l) \/ Mark(l) \/ More(l)
  <2>1. /\ rec'.bell = rec.bell /\ rec'.count = rec.count
        /\ ecPc[l] \notin Edges /\ ecPc'[l] \notin Edges
        /\ ecPc[l] \in Claimed \cup {"pending", "claim", "publish"}
    BY <1>1, <1>8 DEF Restore, AfterRestore, Mark, More, Edges, Claimed, RecordType
  <2> QED
    BY <1>2, <1>5, <2>1
<1>9. CASE Count(l)
  <2>1. /\ ecPc[l] = "count" /\ rec'.bell = rec.bell /\ rec'.count = rec.count + 1
        /\ ecPc'[l] = "finish" \/ rec.count + 1 # CommandCount
    BY <1>1, <1>9 DEF Count, CountTo, RecordType
  <2>2. rec.count < CommandCount /\ scan > 0 /\ rec.bell # "C3"
    BY <1>1, <1>2, <2>1 DEF Inv, Numbered, Counting, Begun, Claimed
  <2>3. rec.count \in Nat
    BY <1>1 DEF RecordType
  <2>4. UnderWay
    BY <2>2 DEF UnderWay
  <2>5. UnderWay'
    BY <1>3, <2>1, <2>2, <2>3 DEF UnderWay
  <2>6. UnderWay' = UnderWay
    BY <2>4, <2>5, OpenIsBoolean
  <2> QED
    BY <1>3, <2>1, <2>2, <2>6, EcStutters
<1>10. CASE Finish(l)
  <2>1. ecPc[l] = "finish" /\ ecPc'[l] = "publish" /\ rec'.bell = rec.bell
    BY <1>1, <1>10 DEF Finish, RecordType
  <2>2. UnderWay /\ UnderWay'
    BY <2>1 DEF UnderWay
  <2>3. UnderWay' = UnderWay
    BY <2>2, OpenIsBoolean
  <2> QED
    BY <1>2, <1>3, <2>1, <2>3, EcStutters DEF Claimed
<1>11. CASE Publish(l)
  <2>1. ecPc[l] = "publish" /\ ecPc'[l] = "leave" /\ rec' = [rec EXCEPT !.bell = "C3"]
    BY <1>1, <1>11 DEF Publish
  <2>2. rec'.bell = "C3" /\ rec'.count = rec.count /\ rec'.words = rec.words /\ rec'.mask = rec.mask
    BY <1>1, <2>1 DEF RecordType
  <2>3. rec.bell # "C3" /\ rec.count = CommandCount
    BY <1>2, <2>1 DEF Inv, Numbered
  <2>4. ecPc["main"] \notin {"clearWords", "clearCount"}
    <3>1. l = "irq" => ecPc["main"] \in {"idle", "stock", "command", "bypass"}
      BY <2>1 DEF Inv, Suspended
    <3> QED
      BY <2>1, <3>1 DEF Levels
  <2>5. UnderWay = TRUE
    BY <2>1 DEF UnderWay
  <2>6. \A k \in Levels : ecPc'[k] \notin Edges
    <3>1. ASSUME NEW k \in Levels, k # l PROVE ecPc[k] \notin Edges
      BY <2>1, <2>4, <3>1, <1>11 DEF Publish, Inv, Suspended, Levels, Edges, Claimed
    <3> QED
      BY <1>4, <2>1, <3>1 DEF Edges
  <2>7. UnderWay' = FALSE
    <3>1. ~UnderWay'
      BY <2>2, <2>3, <2>6, <1>3 DEF UnderWay, Edges, Levels
    <3> QED
      BY <3>1, OpenIsBoolean
  <2> DEFINE post == [words |-> rec.words, good |-> rec.mask \cap Stored]
  <2>8. Posted = {} /\ Posted' = {post}
    BY <2>2, <2>3 DEF Posted
  <2>9. M!Whole(post)
    <3>1. ASSUME NEW i \in Stored
          PROVE  rec.words[i] \in [scan : {scan}, asked : scan .. asked, ok : BOOLEAN]
      <4>1. rec.words[i] \in WordType
        BY <1>1 DEF RecordType
      <4>2. i < rec.count
        BY <2>3 DEF Stored, Index
      <4>3. rec.words[i].scan = scan
        BY <2>4, <4>2 DEF Inv, Filled
      <4>4. rec.words[i].asked \in scan .. asked
        BY <1>1, <4>1, <4>3 DEF Dated, WordType, Inv, HostType
      <4> QED
        BY <4>1, <4>3, <4>4 DEF WordType
    <3>2. rec.words \in [Stored -> [scan : {scan}, asked : scan .. asked, ok : BOOLEAN]]
      BY <1>1, <3>1 DEF RecordType
    <3>3. \A i \in rec.mask \cap Stored : rec.words[i].ok
      BY DEF Inv, Bits
    <3> QED
      BY <3>2, <3>3 DEF M!Whole
  <2>10. Taken' = Taken
    BY <1>3 DEF Taken, Reports, Result
  <2>11. M!Post
    BY <1>3, <2>5, <2>7, <2>8, <2>9, <2>10 DEF M!Post
  <2> QED
    BY <2>11 DEF M!MNext
<1> QED
  BY <1>6, <1>7, <1>8, <1>9, <1>10, <1>11 DEF WindowStep

(* The reader takes what is posted with its last byte, and lets go of it   *)
(* when it ends.                                                           *)
LEMMA ReaderSteps ==
  ASSUME Inv, Inv', HostAction
  PROVE  [M!MNext]_(M!mvars)
<1> USE DEF HostReads, HostStep, ecVars
<1>1. UNCHANGED <<scan, ecPc>> /\ rec \in RecordType
  BY DEF HostAction, Open, ReadOnly, Ring, PollDone, PollTimeout, SnapBell, SnapMagic,
     SnapState, SnapMask, SnapWord, Exit, Inv, RecType
<1>2. host.pc \in HostSteps
  BY DEF Inv, HostType
<1>3. CASE Ring
  <2>1. /\ asked' = asked + 1 /\ rec'.bell = "A5" /\ rec'.count = rec.count
        /\ host.pc = "open" /\ host'.pc = "poll"
    BY <1>1, <1>3 DEF Ring, RecordType, Inv, HostType
  <2>2. Posted' = {} /\ Taken = {} /\ Taken' = {}
    BY <2>1 DEF Posted, Taken, Reports
  <2>3. UnderWay' = UnderWay
    BY <1>1, <2>1 DEF UnderWay
  <2> QED
    BY <1>1, <2>1, <2>2, <2>3 DEF M!Request, M!MNext
<1>4. CASE ~Ring
  <2>1. rec' = rec /\ asked' = asked
    BY <1>4 DEF HostAction, Open, ReadOnly, PollDone, PollTimeout, SnapBell, SnapMagic,
           SnapState, SnapMask, SnapWord, Exit
  <2>2. Posted' = Posted /\ UnderWay' = UnderWay
    BY <1>1, <2>1 DEF Posted, UnderWay
  <2>3. CASE Taken' = {}
    BY <1>1, <2>1, <2>2, <2>3 DEF M!Drop, M!MNext
  <2>4. CASE Taken' # {}
    <3>1. host'.pc = "report" /\ Result(host') = 0
      BY <2>4 DEF Taken, Reports, Result
    <3>2. host'.bell = "C3"
      BY <3>1 DEF Result, Inv, HostType, Bells
    <3>3. rec'.bell = "C3" /\ host'.mask = rec'.mask /\ DOMAIN host'.words = Captured
          /\ \A i \in Captured : host'.words[i] = rec'.words[i]
      BY <3>1, <3>2 DEF Inv, Snapshot
    <3>4. host'.words = [i \in Captured |-> rec.words[i]]
      <4>1. CASE SnapWord
        <5>1. PICK i \in Captured :
                host'.words = [j \in DOMAIN host.words \cup {i} |->
                                 IF j = i THEN rec.words[i] ELSE host.words[j]]
          BY <4>1 DEF SnapWord, Inv, HostType
        <5>2. DOMAIN host.words \cup {i} = Captured
          BY <3>3, <5>1
        <5> QED
          BY <2>1, <3>3, <5>1, <5>2
      <4>2. CASE ~SnapWord
        <5>1. Open \/ Exit => host'.pc # "report"
          BY DEF Open, Exit, Closed
        <5>2. ReadOnly \/ PollDone \/ PollTimeout => host'.pc # "report"
          BY DEF ReadOnly, PollDone, PollTimeout, Inv, HostType
        <5>3. SnapBell \/ SnapMagic => host'.pc # "report"
          BY DEF SnapBell, SnapMagic, Inv, HostType
        <5>4. SnapState \/ SnapMask => host'.pc # "report"
          BY DEF SnapState, SnapMask, Inv, HostType
        <5> QED
          BY <1>4, <3>1, <4>2, <5>1, <5>2, <5>3, <5>4 DEF HostAction
      <4> QED
        BY <4>1, <4>2
    <3> DEFINE post == [words |-> rec.words, good |-> rec.mask \cap Stored]
    <3>5. Posted = {post}
      BY <2>1, <3>3 DEF Posted
    <3>6. Taken' = {[words |-> host'.words, good |-> host'.mask \cap Captured]}
      BY <3>1 DEF Taken, Reports, Result
    <3>7. (rec.mask \cap Stored) \cap Captured = host'.mask \cap Captured
      BY <2>1, <3>3
    <3>8. M!Part(post) = [words |-> [i \in Captured |-> rec.words[i]],
                          good |-> (rec.mask \cap Stored) \cap Captured]
      BY DEF M!Part
    <3>9. Taken' = {M!Part(post)}
      BY <3>4, <3>6, <3>7, <3>8
    <3>10. M!Take
      BY <1>1, <2>1, <2>2, <3>5, <3>9 DEF M!Take
    <3> QED
      BY <3>10 DEF M!MNext
  <2> QED
    BY <2>3, <2>4
<1> QED
  BY <1>3, <1>4

LEMMA MailboxInit == Init => M!MInit
<1> SUFFICES ASSUME Init PROVE M!MInit
  OBVIOUS
<1>1. Posted = {} /\ Taken = {}
  BY DEF Init, NoRecord, Closed, Posted, Taken, Reports
<1>2. ~UnderWay
  BY DEF Init, Levels, UnderWay
<1>3. UnderWay = FALSE
  BY <1>2, OpenIsBoolean
<1> QED
  BY <1>1, <1>3 DEF Init, M!MInit

LEMMA MailboxStep == Inv /\ Inv' /\ Begun /\ Dated /\ [Next]_vars => [M!MNext]_(M!mvars)
<1> SUFFICES ASSUME Inv, Inv', Begun, Dated, [Next]_vars
             PROVE  [M!MNext]_(M!mvars)
  OBVIOUS
<1>1. CASE UNCHANGED vars
  <2>1. UnderWay' = UnderWay
    BY <1>1 DEF vars, UnderWay
  <2> QED
    BY <1>1, <2>1, EcStutters DEF vars
<1> QED
  BY <1>1, AcceptSteps, WindowSteps, ReaderSteps DEF Next

(* Cave and reader implement the abstract mailbox for any number of        *)
(* commands, requests, interrupts and deaths of the reader: a scan is      *)
(* begun on request only, posted once and as a whole, what stands under C3 *)
(* does not change, and what is reported as completed is what was posted.  *)
THEOREM MailboxRefinement == Spec => ImplementsMailbox
<1>1. Init => Begun /\ Dated
  BY InitDated
<1>2. Inv /\ Begun /\ Dated /\ [Next]_vars => Begun' /\ Dated'
  BY BegunStep, DatedStep
<1>3. Spec => [](Inv /\ Begun /\ Dated)
  BY <1>1, <1>2, Invariance, PTL DEF Spec
<1>4. Spec => M!MInit /\ [][M!MNext]_(M!mvars)
  BY <1>3, MailboxInit, MailboxStep, PTL DEF Spec
<1> QED
  BY <1>4 DEF ImplementsMailbox, M!MSpec
=============================================================================
