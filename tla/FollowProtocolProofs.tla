------------------------- MODULE FollowProtocolProofs -------------------------
(***************************************************************************)
(* Theorems about the bytes of Follow Mode for pages of any size, any      *)
(* number of blocks, sectors, pages and commands: which cut pairs the      *)
(* cleanup cannot make good, and what the EC may take for an opcode.       *)
(***************************************************************************)
EXTENDS FollowProtocol, TLAPS, SequenceTheorems

USE PageBytesAssumption, MaxCommandsAssumption

Kinds == {"out", "read", "pair", "finish", "finishRead"}

(* A step that is no pair sends 01, 04 or 05, which leave an EC that waits *)
(* for a command waiting for one; a pair begins with a selector.           *)
Steps ==
  {w \in [kind : Kinds, byte : 0 .. 255, data : 0 .. 255] :
     IF w.kind = "pair" THEN w.byte \in {2, 3} ELSE w.byte \in {1, 4, 5}}

(* Those of every transaction but the identification, which alone has      *)
(* closing writes to count down.                                           *)
Uncounted == {w \in Steps : w.kind # "finish"}

(* The last two steps of a sequence, and no others, are counted.           *)
Counted(s) ==
  \A i \in 1 .. Len(s) :
    (s[i].kind = "finish" <=> i + 2 > Len(s)) /\ s[i].kind # "finishRead"

-----------------------------------------------------------------------------
(* The inductive invariant, part by part.                                  *)

Shape ==
  /\ todo \in Seq(Steps)
  /\ pc \in {"work", "quiesce"} /\ stage # "id" => todo \in Seq(Uncounted)
  /\ pc \notin {"work", "quiesce"} => todo = <<>>
  /\ half => pc \in {"work", "quiesce"} /\ todo # <<>> /\ Head(todo).kind = "pair"

(* The EC is where the step at hand expects it.                            *)
InStep ==
  ec = IF half THEN (IF Head(todo).byte = 2 THEN "opcode" ELSE "byte") ELSE "command"

(* The quiescing finds the EC anywhere, and is in step with it from its    *)
(* first byte on.                                                          *)
Opening == ~half /\ todo = QuiesceProgram /\ ec # "out"

Synchronised ==
  /\ pc = "work" => InStep
  /\ pc = "quiesce" => InStep \/ Opening

(* As many closing writes are due as the identification has to do; nobody  *)
(* else leaves any.                                                        *)
Closing ==
  /\ pc = "work" /\ stage = "id" =>
       Counted(todo) /\ closes = (IF Len(todo) >= 2 THEN 2 ELSE Len(todo))
  /\ pc \in {"work", "quiesce"} /\ stage # "id" => closes = 0

(* write_started separates the stages that mutate from those before.       *)
Started ==
  /\ pc = "work" => stage \in First \cup {"none", "preRead"} \/ started
  /\ pc = "work" /\ stage = "id" => ~started
  /\ pc = "work" /\ stage = "none" => todo = <<>>
  /\ pc = "quiesce" => started /\ stage # "id"

(* An EC that waits for the rest of a pair is brought back by a closing    *)
(* write, or the command knows.                                            *)
Cut ==
  /\ pc = "close" /\ ec \in {"opcode", "byte"} => closes > 0 \/ warned \/ readCut
  /\ pc \in {"reset", "leave"} /\ ec \in {"opcode", "byte"} => warned \/ readCut
  /\ pc = "off" /\ outcome = "ended" /\ ec # "out" => warned \/ readCut
  /\ pc # "off" => outcome = "running"

(* The opcodes an EC may take that waits for one.                          *)
Strays == strays \subseteq {1, 5, 220, 252, 254}

Inv == TypeOK /\ Shape /\ Synchronised /\ Closing /\ Started /\ Cut /\ Strays

(* The type invariant, in two parts.                                       *)
ValueType ==
  /\ ec \in {"out", "command", "opcode", "byte"}
  /\ strays \subseteq 0 .. 255
  /\ pc \in {"off", "work", "quiesce", "close", "reset", "leave"}
  /\ stage \in Stages \cup {"none"}
  /\ closes \in 0 .. 2
  /\ outcome \in {"none", "notEntered", "running", "ended", "killed"}
  /\ commands \in 0 .. MaxCommands

FlagType ==
  /\ half \in BOOLEAN /\ started \in BOOLEAN /\ reset \in BOOLEAN
  /\ failed \in BOOLEAN /\ warned \in BOOLEAN /\ readCut \in BOOLEAN

LEMMA TypeParts == TypeOK <=> ValueType /\ FlagType
BY DEF TypeOK, ValueType, FlagType

-----------------------------------------------------------------------------
(* What the transactions are made of.                                      *)

LEMMA PartsUncounted ==
  /\ Begin \in Seq(Uncounted) /\ Close \in Seq(Uncounted)
  /\ Read \in Seq(Uncounted) /\ FinishRead \in Seq(Uncounted)
  /\ \A op \in 0 .. 255 : Opcode(op) \in Seq(Uncounted)
  /\ \A n \in Nat : Bytes(n) \in Seq(Uncounted)
<1>1. /\ Step("out", 1, 0) \in Uncounted /\ Step("out", 5, 0) \in Uncounted
      /\ Step("read", 4, 0) \in Uncounted /\ Step("finishRead", 5, 0) \in Uncounted
      /\ Step("pair", 3, 0) \in Uncounted
      /\ \A op \in 0 .. 255 : Step("pair", 2, op) \in Uncounted
  BY SMTT(20) DEF Step, Uncounted, Steps, Kinds
<1>2. ASSUME NEW n \in Nat PROVE Bytes(n) \in Seq(Uncounted)
  BY <1>1, IsASeq DEF Bytes
<1> QED
  BY <1>1, <1>2 DEF Begin, Close, Read, FinishRead, Opcode

(* A sequence put together from two has its steps from theirs, the first   *)
(* from the first.                                                         *)
LEMMA Joined ==
  ASSUME NEW s \in Seq(Uncounted), NEW t \in Seq(Uncounted)
  PROVE  /\ s \o t \in Seq(Uncounted)
         /\ s # <<>> => s \o t # <<>> /\ Head(s \o t) = Head(s)
<1>1. s \o t \in Seq(Uncounted) /\ Len(s \o t) = Len(s) + Len(t)
  BY ConcatProperties
<1>2. ASSUME s # <<>>
      PROVE  s \o t # <<>> /\ Head(s \o t) = Head(s)
  <2>1. Len(s) \in Nat /\ Len(s) >= 1 /\ Len(t) \in Nat
    BY <1>2
  <2>2. (s \o t)[1] = s[1]
    BY <2>1, ConcatProperties
  <2> QED
    BY <1>1, <2>1, <2>2
<1> QED
  BY <1>1, <1>2

LEMMA WaitUncounted ==
  /\ StatusStream \in Seq(Uncounted)
  /\ WaitStatus \in Seq(Uncounted)
  /\ WriteEnable \in Seq(Uncounted)
<1>1. StatusStream \in Seq(Uncounted)
  BY PartsUncounted, Joined DEF StatusStream, RDSR
<1>2. WaitStatus \in Seq(Uncounted)
  BY <1>1, PartsUncounted, Joined DEF WaitStatus
<1> QED
  BY <1>1, <1>2, PartsUncounted, Joined DEF WriteEnable, WREN

LEMMA TransactionUncounted ==
  ASSUME NEW s \in Stages \ {"id"}
  PROVE  Transaction(s) \in Seq(Uncounted)
<1>1. ReadChunk \in Seq(Uncounted)
  BY PartsUncounted, WaitUncounted, Joined DEF ReadChunk, FastRead
<1>2. ClearProtection \in Seq(Uncounted)
  BY PartsUncounted, WaitUncounted, Joined DEF ClearProtection, WRSR
<1>3. EraseSector \in Seq(Uncounted)
  BY PartsUncounted, WaitUncounted, Joined DEF EraseSector, SectorErase
<1>4. ProgramPage \in Seq(Uncounted)
  BY PartsUncounted, WaitUncounted, Joined DEF ProgramPage, PageProgram
<1>5. WriteDisable \in Seq(Uncounted)
  BY PartsUncounted, WaitUncounted, Joined DEF WriteDisable, WRDI
<1> QED
  BY <1>1, <1>2, <1>3, <1>4, <1>5 DEF Transaction, Stages, Reads

(* The quiescing opens a transaction of its own with 01.                   *)
LEMMA QuiesceOpens ==
  /\ QuiesceProgram \in Seq(Uncounted)
  /\ QuiesceProgram # <<>>
  /\ Head(QuiesceProgram) = Step("out", 1, 0)
<1>1. /\ StatusStream \in Seq(Uncounted) /\ WaitStatus \in Seq(Uncounted)
      /\ WriteDisable \in Seq(Uncounted)
  BY WaitUncounted, TransactionUncounted DEF Transaction, Stages, Reads
<1>2. Begin # <<>> /\ Head(Begin) = Step("out", 1, 0)
  BY DEF Begin
<1>3. Begin \o Opcode(RDSR) \in Seq(Uncounted) /\ Begin \o Opcode(RDSR) # <<>>
      /\ Head(Begin \o Opcode(RDSR)) = Step("out", 1, 0)
  <2>1. Opcode(RDSR) \in Seq(Uncounted)
    BY PartsUncounted DEF RDSR
  <2> QED
    BY <1>2, <2>1, PartsUncounted, Joined
<1>4. StatusStream # <<>> /\ Head(StatusStream) = Step("out", 1, 0)
  BY <1>3, PartsUncounted, Joined DEF StatusStream
<1>5. WaitStatus # <<>> /\ Head(WaitStatus) = Step("out", 1, 0)
  BY <1>1, <1>4, PartsUncounted, Joined DEF WaitStatus
<1> QED
  BY <1>1, <1>5, Joined DEF QuiesceProgram

(* The identification ends with its two closing writes and has no others.  *)
LEMMA IdentificationCounts ==
  /\ ReadId \in Seq(Steps) /\ Len(ReadId) \in Nat /\ Len(ReadId) >= 2
  /\ Counted(ReadId)
<1> DEFINE Plain == {w \in Steps : w.kind \notin {"finish", "finishRead"}}
           query == Begin \o Opcode(JEDEC) \o Read
<1>1. query \in Seq(Plain)
  <2>1. /\ Step("out", 1, 0) \in Plain /\ Step("pair", 2, 159) \in Plain
        /\ Step("read", 4, 0) \in Plain
    BY DEF Step, Steps, Kinds
  <2> HIDE DEF Plain
  <2>2. Begin \in Seq(Plain) /\ Opcode(JEDEC) \in Seq(Plain) /\ Read \in Seq(Plain)
    BY <2>1 DEF Begin, Opcode, JEDEC, Read
  <2>3. Begin \o Opcode(JEDEC) \in Seq(Plain)
    BY <2>2, ConcatProperties
  <2> QED
    BY <2>2, <2>3, ConcatProperties
<1>2. /\ FinishId \in Seq(Steps) /\ Len(FinishId) = 2
      /\ \A i \in 1 .. 2 : FinishId[i].kind = "finish"
  BY DEF FinishId, Step, Steps, Kinds
<1>3. ReadId = query \o FinishId
  BY DEF ReadId
<1>4. query \in Seq(Steps) /\ Len(query) \in Nat
  BY <1>1, SeqMonotonic
<1>5. \A i \in 1 .. Len(query) : query[i] \in Plain
  BY <1>1, ElementOfSeq
<1> HIDE DEF query
<1>6. /\ ReadId \in Seq(Steps) /\ Len(ReadId) = Len(query) + Len(FinishId)
      /\ \A i \in 1 .. Len(query) + Len(FinishId) :
           ReadId[i] = IF i <= Len(query) THEN query[i] ELSE FinishId[i - Len(query)]
  <2>1. FinishId \in Seq(Steps)
    BY <1>2
  <2> QED
    BY <1>3, <1>4, <2>1, ConcatProperties
<1>7. ASSUME NEW i \in 1 .. Len(ReadId)
      PROVE  /\ ReadId[i].kind = "finish" <=> i + 2 > Len(ReadId)
             /\ ReadId[i].kind # "finishRead"
  <2>1. CASE i <= Len(query)
    <3>1. ReadId[i] \in Plain
      BY <1>2, <1>4, <1>5, <1>6, <2>1
    <3> QED
      BY <1>2, <1>4, <1>6, <2>1, <3>1
  <2>2. CASE i > Len(query)
    <3>1. i - Len(query) \in 1 .. 2 /\ ReadId[i] = FinishId[i - Len(query)]
      BY <1>2, <1>4, <1>6, <2>2
    <3> QED
      BY <1>2, <1>4, <1>6, <2>2, <3>1
  <2> QED
    BY <1>4, <2>1, <2>2
<1> QED
  BY <1>2, <1>4, <1>6, <1>7 DEF Counted

LEMMA HeadAndTail ==
  ASSUME NEW S, NEW s \in Seq(S), s # <<>>
  PROVE  /\ Head(s) \in S /\ Head(s) = s[1]
         /\ Tail(s) \in Seq(S)
         /\ Len(s) \in Nat /\ Len(s) >= 1 /\ Len(Tail(s)) = Len(s) - 1
         /\ \A i \in 1 .. Len(s) - 1 : Tail(s)[i] = s[i + 1]
OBVIOUS

LEMMA CountedDown ==
  ASSUME NEW s \in Seq(Steps), s # <<>>, Counted(s)
  PROVE  /\ Head(s).kind # "finishRead"
         /\ Head(s).kind = "finish" <=> Len(s) < 3
         /\ Counted(Tail(s))
<1>1. /\ Head(s) = s[1] /\ Len(s) \in Nat /\ Len(s) >= 1 /\ Len(Tail(s)) = Len(s) - 1
      /\ \A i \in 1 .. Len(s) - 1 : Tail(s)[i] = s[i + 1]
  BY HeadAndTail
<1>2. 1 \in 1 .. Len(s)
  BY <1>1
<1>3. (s[1].kind = "finish" <=> 1 + 2 > Len(s)) /\ s[1].kind # "finishRead"
  BY <1>2 DEF Counted
<1>4. ASSUME NEW i \in 1 .. Len(s) - 1
      PROVE  (Tail(s)[i].kind = "finish" <=> i + 2 > Len(s) - 1) /\ Tail(s)[i].kind # "finishRead"
  <2>1. i + 1 \in 1 .. Len(s) /\ Tail(s)[i] = s[i + 1]
    BY <1>1
  <2>2. (s[i + 1].kind = "finish" <=> i + 1 + 2 > Len(s)) /\ s[i + 1].kind # "finishRead"
    BY <2>1 DEF Counted
  <2> QED
    BY <1>1, <2>1, <2>2
<1>5. Counted(Tail(s))
  BY <1>1, <1>4 DEF Counted
<1> QED
  BY <1>1, <1>3, <1>5

LEMMA UncountedSteps ==
  /\ Uncounted \subseteq Steps /\ <<>> \in Seq(Uncounted)
  /\ \A s \in Seq(Uncounted) : s \in Seq(Steps)
BY SeqMonotonic DEF Uncounted

(* The cleanup's bytes are opcodes that may be taken without harm.         *)
LEMMA SentStrays ==
  ASSUME Strays,
         \/ UNCHANGED strays
         \/ \E v \in {1, 5, 220, 252, 254}, b \in BOOLEAN : Sends(v, b)
  PROVE  Strays' /\ strays' \subseteq 0 .. 255
<1>1. CASE UNCHANGED strays
  BY <1>1 DEF Strays
<1>2. ASSUME NEW v \in {1, 5, 220, 252, 254}, NEW b \in BOOLEAN, Sends(v, b)
      PROVE  Strays' /\ strays' \subseteq 0 .. 255
  <2>1. strays' \subseteq strays \cup {v}
    BY <1>2 DEF Sends
  <2>2. Strays'
    BY <2>1 DEF Strays
  <2> QED
    BY <2>2 DEF Strays
<1> QED
  BY <1>1, <1>2

-----------------------------------------------------------------------------
(* The invariant holds at first.                                           *)
LEMMA InitInv == Init => Inv
<1> SUFFICES ASSUME Init PROVE Inv
  OBVIOUS
<1>1. TypeOK
  <2>1. ValueType
    BY DEF Init, ValueType
  <2>2. FlagType
    BY DEF Init, FlagType
  <2> QED
    BY <2>1, <2>2, TypeParts
<1>2. Shape
  BY UncountedSteps DEF Init, Shape
<1>3. Synchronised /\ Closing /\ Started /\ Cut /\ Strays
  BY DEF Init, Synchronised, Closing, Started, Cut, Strays
<1> QED
  BY <1>1, <1>2, <1>3 DEF Inv

-----------------------------------------------------------------------------
(* Every step preserves it, group by group.                                *)

(* A transaction begins, in step with the EC, with as many closing writes  *)
(* due as it has.                                                          *)
LEMMA TurnsInv ==
  ASSUME NEW s \in Stages, Turns(s), half' = FALSE,
         s # "id" /\ s \notin Reads => closes = 0
  PROVE  /\ todo' \in Seq(Steps)
         /\ s # "id" => todo' \in Seq(Uncounted)
         /\ closes' = IF s = "id" THEN 2 ELSE 0
         /\ s = "id" => /\ Len(todo') \in Nat /\ Len(todo') >= 2
                        /\ Counted(todo')
<1>1. CASE s = "id"
  <2>1. todo' = ReadId /\ closes' = 2
    BY <1>1 DEF Turns, Transaction, Reads
  <2> QED
    BY <1>1, <2>1, IdentificationCounts
<1>2. CASE s # "id"
  <2>1. todo' \in Seq(Uncounted)
    BY <1>2, TransactionUncounted DEF Turns
  <2>2. closes' = 0
    BY <1>2 DEF Turns
  <2> QED
    BY <1>2, <2>1, <2>2, UncountedSteps
<1> QED
  BY <1>1, <1>2

LEMMA EnterInv ==
  ASSUME Inv, NEW s \in First \cup {"none"}, NEW isReset \in BOOLEAN, Enter(s, isReset)
  PROVE  Inv'
<1> USE DEF Inv
<1>1. TypeOK'
  <2>1. ec' \in {"out", "command", "opcode", "byte"}
    BY DEF TypeOK, Enter, Sent, Sends, Takes
  <2>2. strays' \subseteq 0 .. 255
    BY ZenonT(40), SentStrays DEF Enter, Sent
  <2>3. stage' \in Stages \cup {"none"} /\ closes' \in 0 .. 2
    BY DEF TypeOK, Enter, Turns, First, Stages, Reads
  <2>4. /\ pc' \in {"work", "close"} /\ outcome' = "running"
        /\ commands' \in 0 .. MaxCommands
    BY DEF TypeOK, Enter
  <2>5. FlagType'
    BY DEF FlagType, Enter
  <2> QED
    BY <2>1, <2>2, <2>3, <2>4, <2>5 DEF TypeOK, FlagType
<1>2. CASE pc' = "close"
  <2>1. Shape' /\ Synchronised' /\ Closing' /\ Started'
    BY <1>2, UncountedSteps DEF Enter, Shape, Synchronised, Closing, Started
  <2>2. Strays'
    BY <1>2, SentStrays DEF Enter, Sent
  <2>3. Cut'
    BY <1>2 DEF TypeOK, Enter, Sent, Sends, Takes, Cut
  <2> QED
    BY <1>1, <2>1, <2>2, <2>3
<1>3. CASE pc' = "work" /\ s = "none"
  <2>1. Shape' /\ Synchronised' /\ Closing' /\ Started'
    BY <1>3, UncountedSteps DEF Enter, Shape, Synchronised, InStep, Closing, Started, First
  <2>2. Cut' /\ Strays'
    BY <1>3 DEF Enter, Cut, Strays
  <2> QED
    BY <1>1, <2>1, <2>2
<1>4. CASE pc' = "work" /\ s # "none"
  <2>1. /\ s \in Stages /\ (s # "id" => s \in Reads) /\ Turns(s) /\ half' = FALSE
        /\ ec' = "command" /\ stage' = s /\ outcome' = "running" /\ strays' = strays
    BY <1>4 DEF Enter, First, Stages, Reads, Turns
  <2>2. Shape' /\ Closing'
    BY <1>4, <2>1, TurnsInv DEF Shape, Closing
  <2>3. Synchronised' /\ Strays' /\ Cut'
    BY <1>4, <2>1 DEF Synchronised, InStep, Cut, Strays
  <2>4. Started'
    BY <1>4, <2>1 DEF Enter, Started, First
  <2> QED
    BY <1>1, <2>2, <2>3, <2>4
<1> QED
  BY <1>2, <1>3, <1>4 DEF Enter

LEMMA ContinueInv ==
  ASSUME Inv, NEW s \in Stages, Continue(s)
  PROVE  Inv'
<1> USE DEF Inv
<1>1. half = FALSE
  BY DEF TypeOK, Shape, Continue
<1>2. closes = 0
  BY DEF Continue, Closing
<1>3. s # "id" /\ (s \notin First \cup {"preRead"} => started')
  BY DEF TypeOK, Continue, After, Started, First, Stages, Reads
<1>4. TypeOK'
  BY <1>2 DEF TypeOK, Continue, Turns, report
<1>5. /\ Turns(s) /\ half' = FALSE /\ ec' = ec /\ strays' = strays
      /\ pc' = "work" /\ stage' = s /\ outcome' = outcome
  BY <1>1 DEF Continue, Turns, report
<1>6. Shape' /\ Closing'
  BY <1>1, <1>2, <1>3, <1>5, TurnsInv DEF Shape, Closing
<1>7. Synchronised'
  BY <1>1, <1>5 DEF Continue, Synchronised, InStep
<1>8. Started' /\ Cut' /\ Strays'
  BY <1>3, <1>5 DEF Continue, Started, Cut, Strays, Stages, Reads, First
<1> QED
  BY <1>4, <1>6, <1>7, <1>8

(* A byte or a pair goes out in step: the EC expects the next byte, and    *)
(* only the one that opens the quiescing may be taken for an opcode.       *)
LEMMA SendsInStep ==
  ASSUME Inv, pc \in {"work", "quiesce"}, todo # <<>>, SendsNext
  PROVE  /\ ec' = IF Head(todo).kind = "pair" /\ ~half
                  THEN (IF Head(todo).byte = 2 THEN "opcode" ELSE "byte")
                  ELSE "command"
         /\ Strays' /\ strays' \subseteq 0 .. 255
<1> USE DEF Inv
<1> DEFINE w == Head(todo)
<1>1. w \in Steps
  BY HeadAndTail DEF Shape
<1>2. CASE InStep /\ half
  <2>1. w.kind = "pair" /\ ec \in {"opcode", "byte"} /\ Sends(w.data, TRUE)
    BY <1>2 DEF Shape, InStep, SendsNext
  <2>2. ec' = "command" /\ UNCHANGED strays
    BY <2>1 DEF Sends, Takes
  <2> QED
    BY <1>2, <2>1, <2>2, SentStrays
<1>3. CASE InStep /\ ~half
  <2>1. ec = "command" /\ Sends(w.byte, FALSE)
    BY <1>3 DEF TypeOK, InStep, SendsNext
  <2>2. UNCHANGED strays
    BY <2>1 DEF Sends
  <2>3. IF w.kind = "pair" THEN w.byte \in {2, 3} ELSE w.byte \in {1, 4, 5}
    BY <1>1 DEF Steps
  <2>4. ec' = IF w.kind = "pair" THEN (IF w.byte = 2 THEN "opcode" ELSE "byte")
              ELSE "command"
    BY <2>1, <2>3 DEF Sends, Takes
  <2> QED
    BY <1>3, <2>2, <2>4, SentStrays
<1>4. CASE Opening
  <2>1. w.kind = "out" /\ w.byte = 1 /\ half = FALSE /\ ec # "out"
    BY <1>4, QuiesceOpens DEF TypeOK, Opening, Step
  <2>2. Sends(1, FALSE)
    BY <2>1 DEF SendsNext
  <2>3. ec' = "command"
    BY <2>1, <2>2 DEF TypeOK, Sends, Takes
  <2> QED
    BY <2>1, <2>2, <2>3, SentStrays
<1> QED
  BY <1>2, <1>3, <1>4 DEF Synchronised

LEMMA WriteInv ==
  ASSUME Inv, Write
  PROVE  Inv'
<1> USE DEF Inv
<1> DEFINE w == Head(todo)
<1>1. /\ pc \in {"work", "quiesce"} /\ todo # <<>> /\ SendsNext
      /\ pc' = pc /\ stage' = stage /\ started' = started /\ reset' = reset
      /\ failed' = failed /\ warned' = warned /\ readCut' = readCut
      /\ outcome' = outcome /\ commands' = commands
  BY DEF Write, report
<1>2. /\ w \in Steps /\ Tail(todo) \in Seq(Steps)
      /\ stage # "id" => w \in Uncounted /\ Tail(todo) \in Seq(Uncounted)
  BY <1>1, HeadAndTail DEF Shape
<1>3. Len(todo) \in Nat /\ Len(todo) >= 1 /\ Len(Tail(todo)) = Len(todo) - 1
  BY <1>1, HeadAndTail DEF Shape
<1>4. Tail(todo) # todo
  <2>1. Len(Tail(todo)) # Len(todo)
    BY <1>3
  <2> QED
    BY <2>1
<1>5. /\ half' = (w.kind = "pair" /\ ~half) /\ closes' = ClosesAfter(w)
      /\ todo' = todo \/ (todo' = Tail(todo) /\ ~half')
      /\ todo' = todo => w.kind \in {"pair", "read"}
      /\ half' => todo' = todo
  <2> HIDE DEF w
  <2>1. /\ half' = (w.kind = "pair" /\ ~half) /\ closes' = ClosesAfter(w)
        /\ todo' \in (IF half' THEN {} ELSE {Tail(todo)})
                       \cup (IF half' \/ w.kind = "read" THEN {todo} ELSE {})
    BY DEF Write, w
  <2>2. CASE half'
    <3>1. todo' = todo /\ w.kind = "pair"
      BY <2>1, <2>2
    <3> QED
      BY <2>1, <2>2, <3>1
  <2>3. CASE ~half'
    <3>1. todo' = Tail(todo) \/ (w.kind = "read" /\ todo' = todo)
      BY <2>1, <2>3
    <3> QED
      BY <1>4, <2>1, <2>3, <3>1
  <2> QED
    BY <2>2, <2>3
<1>6. /\ ec' = IF half' THEN (IF w.byte = 2 THEN "opcode" ELSE "byte") ELSE "command"
      /\ Strays' /\ strays' \subseteq 0 .. 255
  BY <1>1, <1>5, SendsInStep
<1>7. Closing' /\ closes' \in 0 .. 2
  <2>1. CASE stage # "id"
    <3>1. closes = 0 /\ w.kind # "finish"
      BY <1>1, <1>2, <2>1 DEF Closing, Uncounted
    <3> QED
      BY <1>1, <1>5, <2>1, <3>1 DEF Closing, ClosesAfter
  <2>2. CASE stage = "id"
    <3>1. pc = "work" /\ Counted(todo) /\ closes = (IF Len(todo) >= 2 THEN 2 ELSE Len(todo))
      BY <1>1, <2>2 DEF Closing, Started
    <3>2. /\ w.kind # "finishRead" /\ (w.kind = "finish" <=> Len(todo) < 3)
          /\ Counted(Tail(todo))
      BY <1>1, <3>1, CountedDown DEF Shape
    <3>3. closes' = IF Len(todo) < 3 THEN closes - 1 ELSE closes
      BY <1>5, <3>2 DEF ClosesAfter
    <3>4. CASE todo' = todo
      <4>1. Len(todo) >= 3 /\ closes' = 2
        BY <1>3, <1>5, <3>1, <3>2, <3>3, <3>4
      <4> QED
        BY <1>3, <1>1, <2>2, <3>1, <3>4, <4>1 DEF Closing
    <3>5. CASE todo' = Tail(todo)
      <4>1. closes' = (IF Len(todo') >= 2 THEN 2 ELSE Len(todo')) /\ closes' \in 0 .. 2
        <5>1. Len(todo') = Len(todo) - 1
          BY <1>3, <3>5
        <5>2. CASE Len(todo) < 3
          BY <1>3, <3>1, <3>3, <5>1, <5>2
        <5>3. CASE Len(todo) >= 3
          BY <1>3, <3>1, <3>3, <5>1, <5>3
        <5> QED
          BY <1>3, <5>2, <5>3
      <4> QED
        BY <1>1, <2>2, <3>2, <3>5, <4>1 DEF Closing
    <3> QED
      BY <1>5, <3>4, <3>5
  <2> QED
    BY <2>1, <2>2
<1>8. TypeOK'
  <2>1. half' \in BOOLEAN
    BY <1>5
  <2> QED
    BY <1>1, <1>6, <1>7, <2>1 DEF TypeOK
<1>9. Shape'
  BY <1>1, <1>2, <1>5 DEF Shape
<1>10. Synchronised'
  BY <1>1, <1>5, <1>6 DEF Synchronised, InStep
<1>11. Started' /\ Cut'
  BY <1>1 DEF Started, Cut
<1> QED
  BY <1>6, <1>7, <1>8, <1>9, <1>10, <1>11

LEMMA WorkDoneInv ==
  ASSUME Inv, WorkDone
  PROVE  Inv'
<1> USE DEF Inv
<1>1. TypeOK'
  BY DEF TypeOK, WorkDone, work, report
<1>2. ec = "command" /\ half = FALSE
  BY DEF WorkDone, TypeOK, Shape, Synchronised, InStep
<1>3. Shape' /\ Synchronised' /\ Closing' /\ Started' /\ Cut' /\ Strays'
  BY <1>2, UncountedSteps
  DEF WorkDone, work, report, Shape, Synchronised, Closing, Started, Cut, Strays
<1> QED
  BY <1>1, <1>3

LEMMA Quiesces ==
  ASSUME Inv, WorkFails, Strays', strays' \subseteq 0 .. 255,
         ec' \in {"command", "opcode", "byte"},
         ec' \in {"opcode", "byte"} => todo # <<>>
  PROVE  Inv'
<1> USE DEF Inv
<1>1. /\ pc = "work" /\ half' = FALSE /\ failed' = TRUE
      /\ stage' = stage /\ closes' = closes /\ started' = started /\ reset' = reset
      /\ warned' = warned /\ outcome' = outcome /\ commands' = commands
      /\ readCut' = (ec' \in {"opcode", "byte"} /\ stage \in Reads /\ ~started)
      /\ Cleanup
  BY DEF WorkFails
<1>2. TypeOK'
  <2>1. readCut' \in BOOLEAN /\ pc' \in {"quiesce", "close"}
    BY <1>1 DEF Cleanup
  <2> QED
    BY <1>1, <2>1 DEF TypeOK
<1>3. CASE started
  <2>1. pc' = "quiesce" /\ todo' = QuiesceProgram /\ stage # "id" /\ closes = 0
    BY <1>1, <1>3 DEF Cleanup, Started, Closing
  <2>2. Shape' /\ Synchronised' /\ Closing'
    BY <1>1, <2>1, QuiesceOpens, UncountedSteps DEF Shape, Synchronised, Opening, Closing
  <2>3. Started' /\ Cut'
    BY <1>1, <1>3, <2>1 DEF Started, Cut
  <2> QED
    BY <1>2, <2>2, <2>3
<1>4. CASE ~started
  <2>1. pc' = "close" /\ todo' = <<>>
    BY <1>1, <1>4 DEF Cleanup
  <2>2. ec' \in {"opcode", "byte"} => closes > 0 \/ stage \in Reads
    BY <1>1, <1>4 DEF Started, Closing, Shape, First, Reads
  <2>3. Shape' /\ Synchronised' /\ Closing' /\ Started'
    BY <1>1, <2>1, UncountedSteps DEF Shape, Synchronised, Closing, Started
  <2>4. Cut'
    BY <1>1, <1>4, <2>1, <2>2 DEF Cut
  <2> QED
    BY <1>2, <2>3, <2>4
<1> QED
  BY <1>3, <1>4

(* A failed write leaves the EC waiting for a data byte; then either a     *)
(* closing write is due, or the quiescing follows, or it was a read.       *)
LEMMA WorkFailsInv ==
  ASSUME Inv, WorkFails
  PROVE  Inv'
<1> USE DEF Inv
<1>1. /\ pc = "work" /\ half' = FALSE /\ failed' = TRUE
      /\ stage' = stage /\ closes' = closes /\ started' = started /\ reset' = reset
      /\ warned' = warned /\ outcome' = outcome /\ commands' = commands
      /\ readCut' = (ec' \in {"opcode", "byte"} /\ stage \in Reads /\ ~started)
  BY DEF WorkFails
<1>2. CASE NotSent
  <2>1. ec' = ec /\ strays' = strays
    BY <1>2 DEF NotSent
  <2>2. ec' \in {"command", "opcode", "byte"} /\ (ec' \in {"opcode", "byte"} => todo # <<>>)
    BY <1>1, <2>1 DEF Synchronised, InStep, Shape
  <2> QED
    BY <2>1, <2>2, SentStrays, Quiesces
<1>3. CASE todo # <<>> /\ SendsNext
  BY <1>1, <1>3, SendsInStep, Quiesces
<1> QED
  BY <1>2, <1>3 DEF WorkFails

LEMMA QuiesceEndsInv ==
  ASSUME Inv, QuiesceEnds
  PROVE  Inv'
<1> USE DEF Inv
<1>1. /\ pc = "quiesce" /\ pc' = "close" /\ todo' = <<>> /\ half' = FALSE
      /\ stage' = stage /\ closes' = closes /\ started' = started /\ reset' = reset
      /\ failed' = failed /\ readCut' = readCut /\ outcome' = outcome
      /\ commands' = commands
  BY DEF QuiesceEnds
<1>2. /\ ec' \in {"out", "command", "opcode", "byte"}
      /\ Strays' /\ strays' \subseteq 0 .. 255
      /\ warned' \in BOOLEAN /\ (ec' \in {"opcode", "byte"} => warned')
  <2>1. CASE todo = <<>> /\ NotSent /\ UNCHANGED warned
    <3>1. InStep /\ half = FALSE
      BY <1>1, <2>1, QuiesceOpens DEF TypeOK, Shape, Synchronised, Opening
    <3>2. ec' = "command" /\ strays' = strays
      BY <2>1, <3>1 DEF InStep, NotSent
    <3> QED
      BY <2>1, <3>2, SentStrays DEF TypeOK
  <2>2. CASE todo # <<>> /\ NotSent /\ warned' = TRUE
    BY <2>2, SentStrays DEF TypeOK, NotSent
  <2>3. CASE todo # <<>> /\ SendsNext /\ warned' = TRUE
    BY <1>1, <2>3, SendsInStep
  <2> QED
    BY <2>1, <2>2, <2>3 DEF QuiesceEnds
<1>3. TypeOK'
  BY <1>1, <1>2 DEF TypeOK
<1>4. Shape' /\ Synchronised' /\ Closing' /\ Started' /\ Cut'
  BY <1>1, <1>2, UncountedSteps DEF Shape, Synchronised, Closing, Started, Cut
<1> QED
  BY <1>2, <1>3, <1>4

(* The way out sends only 05, FE and FC, and changes nothing of the work.  *)
LEMMA WayOutInv ==
  ASSUME Inv, CloseTransaction \/ ResetEc \/ Leave
  PROVE  Inv'
<1> USE DEF Inv
<1>1. /\ pc \in {"close", "reset", "leave"} /\ pc' \in {"close", "reset", "leave", "off"}
      /\ stage' = stage /\ todo' = todo /\ half' = half /\ started' = started
      /\ reset' = reset /\ failed' = failed /\ readCut' = readCut /\ commands' = commands
      /\ outcome' = IF pc' = "off" THEN "ended" ELSE outcome
  BY DEF CloseTransaction, AfterClose, ResetEc, Leave, work
<1>2. Strays' /\ strays' \subseteq 0 .. 255
  <2>1. UNCHANGED strays \/ \E v \in {1, 5, 220, 252, 254} : Sends(v, FALSE)
    BY ZenonT(40) DEF CloseTransaction, ResetEc, Leave, NotSent, Sent
  <2> QED
    BY <2>1, SentStrays
<1>3. /\ ec' \in {"out", "command", "opcode", "byte"} /\ closes' \in 0 .. 2
      /\ warned' \in BOOLEAN
  <2>1. CASE CloseTransaction
    <3>1. closes' \in 0 .. 2
      BY <2>1 DEF TypeOK, CloseTransaction
    <3>3. warned' \in BOOLEAN
      BY <2>1 DEF TypeOK, CloseTransaction
    <3>2. ec' \in {"out", "command", "opcode", "byte"}
      BY <2>1 DEF TypeOK, CloseTransaction, NotSent, Sent, Sends, Takes
    <3> QED
      BY <3>1, <3>2, <3>3
  <2>2. CASE ResetEc
    BY ZenonT(40), <2>2 DEF TypeOK, ResetEc, work, NotSent, Sent, Sends, Takes
  <2>3. CASE Leave
    <3>1. closes' \in 0 .. 2
      BY <2>3 DEF TypeOK, Leave
    <3>3. warned' \in BOOLEAN
      BY <2>3 DEF TypeOK, Leave
    <3>2. ec' \in {"out", "command", "opcode", "byte"}
      BY <2>3 DEF TypeOK, Leave, NotSent, Sent, Sends, Takes
    <3> QED
      BY <3>1, <3>2, <3>3
  <2> QED
    BY <2>1, <2>2, <2>3
<1>4. TypeOK'
  BY <1>1, <1>2, <1>3 DEF TypeOK
<1>5. Cut'
  <2>1. CASE CloseTransaction
    BY <2>1 DEF TypeOK, CloseTransaction, AfterClose, NotSent, Sent, Sends, Takes, Cut
  <2>2. CASE ResetEc
    BY <2>2 DEF TypeOK, ResetEc, work, NotSent, Sent, Sends, Takes, Cut
  <2>3. CASE Leave
    BY <2>3 DEF TypeOK, Leave, NotSent, Sent, Sends, Takes, Cut
  <2> QED
    BY <2>1, <2>2, <2>3
<1>6. Shape' /\ Synchronised' /\ Closing' /\ Started'
  BY <1>1 DEF Shape, Synchronised, Closing, Started
<1> QED
  BY <1>2, <1>4, <1>5, <1>6

LEMMA KilledInv ==
  ASSUME Inv, Killed
  PROVE  Inv'
<1> USE DEF Inv
<1>1. TypeOK'
  BY DEF TypeOK, Killed
<1>2. Shape' /\ Synchronised' /\ Closing' /\ Started' /\ Cut' /\ Strays'
  BY UncountedSteps DEF Killed, Shape, Synchronised, Closing, Started, Cut, Strays
<1> QED
  BY <1>1, <1>2

LEMMA NotEnteredInv ==
  ASSUME Inv, NotEntered
  PROVE  Inv'
<1> USE DEF Inv
<1>1. TypeOK'
  <2>1. ValueType'
    BY TypeParts DEF ValueType, NotEntered, work
  <2>2. FlagType'
    BY TypeParts DEF FlagType, NotEntered, work
  <2> QED
    BY <2>1, <2>2, TypeParts DEF TypeOK, ValueType, FlagType
<1>2. Shape' /\ Synchronised' /\ Closing' /\ Started' /\ Cut' /\ Strays'
  BY DEF NotEntered, work, Shape, Synchronised, Closing, Started, Cut, Strays
<1> QED
  BY <1>1, <1>2

LEMMA StepInv == Inv /\ [Next]_vars => Inv'
<1> SUFFICES ASSUME Inv, [Next]_vars PROVE Inv'
  OBVIOUS
<1>1. ASSUME NEW s \in First, Enter(s, FALSE) PROVE Inv'
  BY <1>1, EnterInv
<1>2. CASE Enter("none", TRUE)
  BY <1>2, EnterInv
<1>3. ASSUME NEW s \in Stages, Continue(s) PROVE Inv'
  BY <1>3, ContinueInv
<1>4. CASE UNCHANGED vars
  <2>1. TypeOK'
    BY <1>4 DEF vars, work, report, Inv, TypeOK
  <2>2. Shape' /\ Synchronised' /\ Closing'
    BY <1>4 DEF vars, work, report, Inv, Shape, Synchronised, InStep, Opening, Closing
  <2>3. Started' /\ Cut' /\ Strays'
    BY <1>4 DEF vars, work, report, Inv, Started, Cut, Strays
  <2> QED
    BY <2>1, <2>2, <2>3 DEF Inv
<1> QED
  BY <1>1, <1>2, <1>3, <1>4, WriteInv, WorkDoneInv, WorkFailsInv, QuiesceEndsInv,
     WayOutInv, KilledInv, NotEnteredInv
  DEF Next

(* The count of closing writes, the part of the pair at hand and what the  *)
(* EC waits for agree after every byte, failure and kill.                  *)
THEOREM FollowInvariant == Spec => []Inv
<1> QED
  BY InitInv, StepInv, PTL DEF Spec

-----------------------------------------------------------------------------
(* What a command of any length can leave behind.                          *)

(* follow.c, flash_read.c and flash_write.c: the variables hold what they  *)
(* are meant to; transaction_close_writes is counted down as often as the  *)
(* identification sends its closing byte, never below 0.                   *)
THEOREM FollowTypeCorrect == Spec => []TypeOK
<1> QED
  BY FollowInvariant, PTL DEF Inv

(* follow_exit: a command that sent DC and ended without a warning left    *)
(* Follow Mode, unless a pair of flash_read was cut before write_started. *)
THEOREM OnlyReadCutsStick == Spec => []StuckOnlyByReadCut
<1>1. Inv => StuckOnlyByReadCut
  BY DEF Inv, Cut, TypeOK, StuckOnlyByReadCut
<1> QED
  BY <1>1, FollowInvariant, PTL

(* An EC that waits for the opcode of a cut pair gets 01, 05, DC, FE or FC *)
(* in its place, none of which erases or programs.                         *)
THEOREM CutPairsNeverMutate == Spec => []NoStrayMutation
<1>1. Inv => NoStrayMutation
  BY DEF Inv, Strays, NoStrayMutation, Mutations, SectorErase, PageProgram
<1> QED
  BY <1>1, FollowInvariant, PTL
=============================================================================
