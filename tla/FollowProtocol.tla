---------------------------- MODULE FollowProtocol ----------------------------
(***************************************************************************)
(* The bytes ec-flash writes to port 66 in Follow Mode, one write a step:  *)
(* what EcFlash takes for one operation on the chip is here a transaction  *)
(* of single bytes and of selector/data pairs, and any write may fail      *)
(* before or after its byte went out.  A pair that is cut leaves the EC    *)
(* waiting for a data byte, and what the cleanup sends next is taken for   *)
(* it.                                                                     *)
(*                                                                         *)
(* The EC is modelled from the protocol the code follows: after selector   *)
(* 02 or 03 it takes whatever comes as an opcode or a data byte; FC leaves *)
(* Follow Mode, FE resets it.                                              *)
(***************************************************************************)
EXTENDS Naturals, Sequences

CONSTANTS
  PageBytes,    (* FLASH_PAGE_SIZE, 256                                    *)
  MaxCommands   (* bound on the number of commands                         *)

ASSUME PageBytesAssumption == PageBytes \in Nat
ASSUME MaxCommandsAssumption == MaxCommands \in Nat

VARIABLES
  ec,           (* "out" of Follow Mode, or what the EC expects next       *)
  strays,       (* opcodes the EC took that nobody sent as such (history)  *)
  pc,           (* part of the command at work                             *)
  stage,        (* what the work is at: the transaction at hand            *)
  todo,         (* steps the transaction has yet to do                     *)
  half,         (* the selector of the pair at hand is out                 *)
  closes,       (* transaction_close_writes                                *)
  started,      (* write_started                                           *)
  reset,        (* the command is --reset-only                             *)
  failed,       (* rc = 1 so far                                           *)
  warned,       (* the cleanup did not complete and says so                *)
  readCut,      (* a pair of flash_read was cut before any mutation (history) *)
  outcome,      (* how the last command went                               *)
  commands      (* commands so far                                         *)

work == <<stage, todo, half, closes, started>>
report == <<failed, warned, readCut, outcome, commands>>
vars == <<ec, strays, pc, work, reset, report>>

-----------------------------------------------------------------------------
(* The steps of a transaction: a byte, a byte that asks for an answer and  *)
(* is repeated as often as bytes or polls are wanted, a pair, and the      *)
(* closing bytes that are counted.                                         *)
Step(kind, byte, data) == [kind |-> kind, byte |-> byte, data |-> data]
Begin == <<Step("out", 1, 0)>>
Close == <<Step("out", 5, 0)>>
FinishId == <<Step("finish", 5, 0), Step("finish", 5, 0)>>
FinishRead == <<Step("finishRead", 5, 0)>>
Read == <<Step("read", 4, 0)>>
Opcode(op) == <<Step("pair", 2, op)>>
Bytes(n) == [i \in 1 .. n |-> Step("pair", 3, 0)]

RDSR == 5
WRSR == 1
WREN == 6
WRDI == 4
JEDEC == 159
FastRead == 11
SectorErase == 32
PageProgram == 2
Mutations == {SectorErase, PageProgram}

(* The transactions of flash_read.c and flash_write.c.                     *)
ReadId == Begin \o Opcode(JEDEC) \o Read \o FinishId
StatusStream == Begin \o Opcode(RDSR) \o Read
WaitStatus == StatusStream \o Close
ReadChunk == Begin \o Opcode(FastRead) \o Bytes(4) \o Read \o StatusStream \o FinishRead
WriteEnable == WaitStatus \o Begin \o Opcode(WREN) \o WaitStatus
ClearProtection == WriteEnable \o Begin \o Opcode(WRSR) \o Bytes(1) \o WaitStatus
EraseSector == WriteEnable \o Begin \o Opcode(SectorErase) \o Bytes(3) \o Close \o WaitStatus
ProgramPage == WriteEnable \o Begin \o Opcode(PageProgram) \o Bytes(3 + PageBytes) \o WaitStatus
WriteDisable == WaitStatus \o Begin \o Opcode(WRDI) \o StatusStream \o Close

(* The stages of the work.  A dump reads chunk by chunk; a write takes     *)
(* block by block, and within it sector by sector and page by page.        *)
Reads == {"read", "preRead", "eraseVerify", "verify"}
Stages == Reads \cup {"id", "unprotect", "erase", "program", "disable"}
Transaction(s) ==
  CASE s = "id" -> ReadId
    [] s \in Reads -> ReadChunk
    [] s = "unprotect" -> ClearProtection
    [] s = "erase" -> EraseSector
    [] s = "program" -> ProgramPage
    [] s = "disable" -> WriteDisable

First == {"id", "read"}
After(s) ==
  CASE s = "id" -> {"read", "preRead", "end"}
    [] s = "read" -> {"read", "end"}
    [] s = "preRead" -> {"preRead", "unprotect", "end"}
    [] s = "unprotect" -> {"erase"}
    [] s = "erase" -> {"erase", "eraseVerify"}
    [] s = "eraseVerify" -> {"program"}
    [] s = "program" -> {"program", "disable"}
    [] s = "disable" -> {"verify"}
    [] s = "verify" -> {"preRead", "end"}
    [] s = "none" -> {"end"}

-----------------------------------------------------------------------------
(* The EC takes one byte.                                                  *)
Takes(v) ==
  CASE ec = "out" -> "out"
    [] ec \in {"opcode", "byte"} -> "command"
    [] ec = "command" /\ v = 2 -> "opcode"
    [] ec = "command" /\ v = 3 -> "byte"
    [] ec = "command" /\ v \in {252, 254} -> "out"
    [] OTHER -> "command"

Sends(v, asData) ==
  /\ ec' = Takes(v)
  /\ strays' = IF ec = "opcode" /\ ~asData THEN strays \cup {v} ELSE strays
Sent(v) == Sends(v, FALSE)
NotSent == UNCHANGED <<ec, strays>>

(* The byte the step at hand sends next.                                   *)
SendsNext == Sends(IF half THEN Head(todo).data ELSE Head(todo).byte, half)

-----------------------------------------------------------------------------
(* follow_enter: DC is answered only by an EC that was not in Follow Mode  *)
(* yet; without the answer the command fails, and its cleanup sends FC.    *)
(* follow_transaction_begin announces two closing writes before its byte   *)
(* is out, follow_read_transaction_begin none.                             *)
Turns(s) ==
  /\ stage' = s /\ todo' = Transaction(s)
  /\ closes' = CASE s = "id" -> 2 [] s \in Reads -> 0 [] OTHER -> closes

Enter(s, isReset) ==
  /\ pc = "off" /\ commands < MaxCommands
  /\ half' = FALSE /\ started' = FALSE
  /\ warned' = FALSE /\ readCut' = FALSE /\ outcome' = "running"
  /\ reset' = isReset
  /\ commands' = commands + 1
  /\ \/ /\ ec = "out"
        /\ ec' = "command" /\ UNCHANGED strays
        /\ pc' = "work" /\ failed' = FALSE
        /\ IF s = "none" THEN stage' = s /\ todo' = <<>> /\ closes' = 0 ELSE Turns(s)
     \/ /\ IF ec = "out" THEN ec' = "command" /\ UNCHANGED strays ELSE Sent(220)
        /\ pc' = "close" /\ failed' = TRUE
        /\ stage' = "none" /\ todo' = <<>> /\ closes' = 0

(* follow_enter fails before DC: in_follow is 0 and the cleanup sends      *)
(* nothing either.                                                         *)
NotEntered ==
  /\ pc = "off" /\ commands < MaxCommands
  /\ outcome' = "notEntered"
  /\ commands' = commands + 1
  /\ UNCHANGED <<ec, strays, pc, work, reset, failed, warned, readCut>>

(* The next transaction; write_started is set before the first mutation.   *)
Continue(s) ==
  /\ pc = "work" /\ todo = <<>>
  /\ s \in After(stage) \ {"end"}
  /\ Turns(s)
  /\ started' = (started \/ s = "unprotect")
  /\ UNCHANGED <<ec, strays, pc, half, reset, report>>

(* One write; a closing write is counted once it is done.                  *)
ClosesAfterCounts(w) ==           \* fault: the end of a read counts one down as well
  CASE w.kind \in {"finish", "finishRead"} -> closes - 1
    [] OTHER -> closes
ClosesAfter(w) ==
  CASE w.kind = "finish" -> closes - 1
    [] w.kind = "finishRead" -> 0
    [] OTHER -> closes

Write ==
  /\ pc \in {"work", "quiesce"} /\ todo # <<>>
  /\ SendsNext
  /\ LET w == Head(todo)
     IN  /\ half' = (w.kind = "pair" /\ ~half)
         /\ closes' = ClosesAfter(w)
         /\ todo' \in (IF half' THEN {} ELSE {Tail(todo)})
                      \cup (IF half' \/ w.kind = "read" THEN {todo} ELSE {})
  /\ UNCHANGED <<pc, stage, started, reset, report>>

WorkDone ==
  /\ pc = "work" /\ todo = <<>> /\ "end" \in After(stage)
  /\ pc' = "close"
  /\ UNCHANGED <<ec, strays, work, reset, report>>

(* Waiting for the chip and taking the write-enable latch back begins with *)
(* a transaction of its own.                                               *)
QuiesceSkipsBegin == Tail(WaitStatus) \o WriteDisable   \* fault: the stream is not opened
QuiesceProgram == WaitStatus \o WriteDisable

CleanupNever ==                   \* fault: no quiescing after a failed write
  pc' = "close" /\ todo' = <<>>
Cleanup ==
  IF started
  THEN pc' = "quiesce" /\ todo' = QuiesceProgram
  ELSE pc' = "close" /\ todo' = <<>>

(* A wait times out or sees the stop flag, or a comparison fails: the      *)
(* write at hand is not done, or done and not confirmed.                   *)
WorkFails ==
  /\ pc = "work"
  /\ NotSent \/ (todo # <<>> /\ SendsNext)
  /\ Cleanup
  /\ half' = FALSE
  /\ failed' = TRUE
  /\ readCut' = (ec' \in {"opcode", "byte"} /\ stage \in Reads /\ ~started)
  /\ UNCHANGED <<stage, closes, started, reset, warned, outcome, commands>>

QuiesceEnds ==
  /\ pc = "quiesce"
  /\ \/ todo = <<>> /\ NotSent /\ UNCHANGED warned
     \/ /\ todo # <<>>
        /\ NotSent \/ SendsNext
        /\ warned' = TRUE
  /\ pc' = "close" /\ todo' = <<>> /\ half' = FALSE
  /\ UNCHANGED <<stage, closes, started, reset, failed, readCut, outcome, commands>>

-----------------------------------------------------------------------------
(* follow_exit: what is left of the closing writes, FE for a reset, FC.    *)
AfterClose == IF reset /\ ~failed THEN "reset" ELSE "leave"

CloseTransaction ==
  /\ pc = "close"
  /\ \/ closes = 0 /\ NotSent /\ pc' = AfterClose /\ UNCHANGED <<closes, warned>>
     \/ /\ closes > 0 /\ Sent(5)
        /\ closes' = closes - 1 /\ UNCHANGED <<pc, warned>>
     \/ /\ closes > 0 /\ (NotSent \/ Sent(5))
        /\ pc' = AfterClose /\ warned' = TRUE /\ UNCHANGED closes
  /\ UNCHANGED <<stage, todo, half, started, reset, failed, readCut, outcome, commands>>

ResetEc ==
  /\ pc = "reset"
  /\ \/ Sent(254) /\ UNCHANGED warned
     \/ (NotSent \/ Sent(254)) /\ warned' = TRUE
  /\ pc' = "leave"
  /\ UNCHANGED <<work, reset, failed, readCut, outcome, commands>>

Leave ==
  /\ pc = "leave"
  /\ \/ Sent(252) /\ UNCHANGED warned
     \/ (NotSent \/ Sent(252)) /\ warned' = TRUE
  /\ pc' = "off"
  /\ closes' = 0
  /\ outcome' = "ended"
  /\ UNCHANGED <<stage, todo, half, started, reset, failed, readCut, commands>>

Killed ==
  /\ pc # "off"
  /\ pc' = "off" /\ todo' = <<>> /\ half' = FALSE
  /\ outcome' = "killed"
  /\ UNCHANGED <<ec, strays, stage, closes, started, reset, failed, warned, readCut, commands>>

-----------------------------------------------------------------------------
Init ==
  /\ ec = "out" /\ strays = {}
  /\ pc = "off" /\ stage = "none" /\ todo = <<>> /\ half = FALSE /\ closes = 0
  /\ started = FALSE /\ reset = FALSE
  /\ failed = FALSE /\ warned = FALSE /\ readCut = FALSE
  /\ outcome = "none"
  /\ commands = 0

Next ==
  \/ \E s \in First : Enter(s, FALSE)
  \/ Enter("none", TRUE)
  \/ NotEntered
  \/ \E s \in Stages : Continue(s)
  \/ Write
  \/ WorkDone
  \/ WorkFails
  \/ QuiesceEnds
  \/ CloseTransaction
  \/ ResetEc
  \/ Leave
  \/ Killed

Spec == Init /\ [][Next]_vars

-----------------------------------------------------------------------------
(* Properties.                                                             *)

TypeOK ==
  /\ ec \in {"out", "command", "opcode", "byte"}
  /\ strays \subseteq 0 .. 255
  /\ pc \in {"off", "work", "quiesce", "close", "reset", "leave"}
  /\ stage \in Stages \cup {"none"}
  /\ closes \in 0 .. 2
  /\ half \in BOOLEAN /\ started \in BOOLEAN /\ reset \in BOOLEAN
  /\ failed \in BOOLEAN /\ warned \in BOOLEAN /\ readCut \in BOOLEAN
  /\ outcome \in {"none", "notEntered", "running", "ended", "killed"}
  /\ commands \in 0 .. MaxCommands

(* A command that sent DC, ended and gave no warning has left Follow Mode, *)
(* wherever a write of it failed, with one exception: a pair of flash_read *)
(* cut before the first mutation, when neither closing writes nor          *)
(* quiescing come between the cut and the FC.                              *)
StuckOnlyByReadCut == outcome = "ended" /\ ec # "out" => warned \/ readCut

(* Whatever is taken for the missing byte of a cut pair, it is never an    *)
(* erase or program opcode; 02, the selector every transaction sends, is   *)
(* the opcode of a page program.                                           *)
NoStrayMutation == strays \cap Mutations = {}
=============================================================================
