------------------------------ MODULE ImageFiles ------------------------------
(***************************************************************************)
(* The firmware image files: the patch generators that make one image of   *)
(* another, and the dump and write of ec-flash that move images between    *)
(* the chip and the disk.  Commands run one at a time; each may be killed  *)
(* or fail between any two of its steps, and the machine may lose power:   *)
(* what was not synced may then be found in an older or a torn state, and  *)
(* a write of the chip, which goes erase block by erase block, may be cut  *)
(* within a block or between two of them.                                  *)
(*                                                                         *)
(* An image is what each of its patch sites holds, "stock" for the bytes   *)
(* of the vendor.  A file and the chip hold blocks of images.  Since a     *)
(* SHA-256 digest stands for one image, the check of a digest is equality  *)
(* with the image it was taken of.                                         *)
(***************************************************************************)
EXTENDS Naturals, Sequences

CONSTANTS
  Names,        (* paths a command line may name                           *)
  Files,        (* the files there are                                     *)
  Resolve,      (* the file a path leads to: several paths may reach one   *)
  First,        (* the one file there is at first                          *)
  Starts,       (* images that file and the chip hold at first             *)
  Ranges,       (* what --address and --length name: n blocks after the    *)
                (* first at                                                *)
  MaxCommands   (* bound on the number of commands                         *)

ASSUME ResolveAssumption == Resolve \in [Names -> Files] /\ First \in Files
ASSUME MaxCommandsAssumption == MaxCommands \in Nat
ASSUME RangesAssumption ==
  Ranges \subseteq {r \in [at : 0 .. 2, n : 1 .. 3] : r.at + r.n <= 3}

-----------------------------------------------------------------------------
(* Images and the generators.                                              *)

(* Erase blocks of 64 KiB.  Those after the second hold no patch site and  *)
(* count as one.                                                           *)
Places == 1 .. 3
Layout == <<{"probe",      (* 00272, 01B22: main loop and SMBus veneer     *)
             "restore",    (* 0DE54: cold-start restore                    *)
             "cave"},      (* 07E6A..07FFF, FF in the vendor's image       *)
            {"cal",        (* 14974: commit of a battery calibration       *)
             "apexist",    (* 1D1D7: the mode-clear action                 *)
             "mode",       (* 1D303: choice of the voltage tier            *)
             "charge"},    (* 1D729, 1D73A: charge-limit decision          *)
            {"rest"}>>     (* 20000..3FFFF, the same in every image        *)
Sites == Layout[1] \cup Layout[2] \cup Layout[3]
Code == {"stock", "direct", "only", "locked", "ignored", "v2", "v2.1", "v2.2", "v11", "v13"}
Images == [Sites -> Code]

Official == [s \in Sites |-> "stock"]
Patched(image, replaced) ==
  [s \in Sites |-> IF s \in DOMAIN replaced THEN replaced[s] ELSE image[s]]

(* A generator names the image it demands by its digest, the sites whose   *)
(* old bytes it compares, and what it puts where.                          *)
CalDirectOnly == [base |-> Official, checked |-> {"cal"}, replaced |-> [cal |-> "direct"]]
ModeOnly == [base |-> Official, checked |-> {"mode"}, replaced |-> [mode |-> "only"]]
ModeLocked == [base |-> Official, checked |-> {"mode"}, replaced |-> [mode |-> "locked"]]
ApexistIgnore == [base |-> Official, checked |-> {"apexist"}, replaced |-> [apexist |-> "ignored"]]
CalModeLocked ==
  [base |-> Official, checked |-> {"cal", "mode"}, replaced |-> [cal |-> "direct", mode |-> "locked"]]

LockedImage == Patched(Official, CalModeLocked.replaced)         (* 22512c7c *)
AddApexistIgnore ==
  [base |-> LockedImage, checked |-> {"apexist"}, replaced |-> [apexist |-> "ignored"]]

BaseImage == Patched(LockedImage, AddApexistIgnore.replaced)     (* aa4a52ab *)
FlexiChargeV2 ==
  [base |-> BaseImage, checked |-> {"charge", "cave"}, replaced |-> [charge |-> "v2", cave |-> "v2"]]
FlexiChargeV21 ==
  [base |-> BaseImage, checked |-> {"charge", "cave"}, replaced |-> [charge |-> "v2.1", cave |-> "v2.1"]]
FlexiChargeV22 ==
  [base |-> BaseImage, checked |-> {"charge", "restore", "cave"},
   replaced |-> [charge |-> "v2.2", restore |-> "v2.2", cave |-> "v2.2"]]
SbsObserverV11 ==
  [base |-> BaseImage, checked |-> {"probe", "cave"}, replaced |-> [probe |-> "v11", cave |-> "v11"]]
SbsWordScanV13 ==
  [base |-> BaseImage, checked |-> {"probe", "cave"}, replaced |-> [probe |-> "v13", cave |-> "v13"]]

(* The short road to v2.2 compares no old bytes but the digest of its      *)
(* result.                                                                 *)
V22Image == Patched(BaseImage, FlexiChargeV22.replaced)          (* ff668376 *)
BuildFromOfficial ==
  [base |-> Official, checked |-> {},
   replaced |-> [cal |-> "direct", mode |-> "locked", apexist |-> "ignored",
                 charge |-> "v2.2", restore |-> "v2.2", cave |-> "v2.2"]]

Generators ==
  {CalDirectOnly, ModeOnly, ModeLocked, ApexistIgnore, CalModeLocked, AddApexistIgnore,
   FlexiChargeV2, FlexiChargeV21, FlexiChargeV22, SbsObserverV11, SbsWordScanV13,
   BuildFromOfficial}

Made == {Official} \cup {Patched(g.base, g.replaced) : g \in Generators}
ASSUME StartsAssumption == Starts \subseteq [file : Made, chip : Made]

-----------------------------------------------------------------------------
(* An image as blocks.  Scrap is a block whose bytes are those of no image *)
(* at this place: erased, programmed in part, or never written.            *)
Cut(image) == [i \in Places |-> [s \in Layout[i] |-> image[s]]]
Scrap == <<>>
Block == [Layout[1] -> Code] \cup [Layout[2] -> Code] \cup [Layout[3] -> Code] \cup {Scrap}

(* n blocks of x after the first at.                                       *)
Part(x, at, n) == [i \in 1 .. n |-> x[at + i]]

Joined(x) ==
  [s \in Sites |-> IF s \in Layout[1] THEN x[1][s]
                   ELSE IF s \in Layout[2] THEN x[2][s] ELSE x[3][s]]

(* Contents of a file: some blocks, or a length that is no number of them. *)
Absent == [kind |-> "absent"]
Ragged == [kind |-> "ragged"]
Data(x) == [kind |-> "blocks", blocks |-> x]
Empty == Data(<<>>)
Extents == {<<>>} \cup [1 .. 1 -> Block] \cup [1 .. 2 -> Block] \cup [Places -> Block]
Filled == [kind : {"blocks"}, blocks : Extents]
Contents == {Absent, Ragged} \cup Filled

(* What may be found of data c that was not written or synced to its end:  *)
(* its first part, with or without the length of the whole.                *)
Torn(c) ==
  {Ragged, Empty} \cup
  IF c.kind # "blocks" THEN {}
  ELSE {Data(Part(c.blocks, 0, n)) : n \in 0 .. Len(c.blocks) - 1}
         \cup {Data([i \in 1 .. Len(c.blocks) |-> IF i <= n THEN c.blocks[i] ELSE Scrap]) :
                n \in 0 .. Len(c.blocks) - 1}

VARIABLES
  disk,         (* what a reader finds in each file                        *)
  atLoss,       (* what a loss of power might leave there                  *)
  chip,         (* what the flash chip holds                               *)
  run,          (* the command in progress                                 *)
  saved,        (* contents ec-flash reported as saved and synced (history) *)
  mixtures,     (* what the chip held between two blocks of a write, and   *)
                (* after a write of a part (history)                       *)
  commands      (* commands so far                                         *)

vars == <<disk, atLoss, chip, run, saved, mixtures, commands>>

Idle == [op |-> "idle"]
Forget(f) == {s \in saved : s.file # f}

(* The content of f becomes c in the page cache only.                      *)
Dirty(f, c) ==
  /\ disk' = [disk EXCEPT ![f] = c]
  /\ atLoss' = [atLoss EXCEPT ![f] = @ \cup {c}]

-----------------------------------------------------------------------------
(* A generator refuses an output that is its source, an image that is not  *)
(* the one it was made for and old bytes that differ; it then ends before  *)
(* it has touched anything.                                                *)
SameFileByName(source, output) == source = output  \* fault: paths are not resolved
SameFile(source, output) == Resolve[source] = Resolve[output]

Whole(content) ==
  content.kind = "blocks" /\ DOMAIN content.blocks = Places
    /\ \A i \in Places : DOMAIN content.blocks[i] = Layout[i]
OldBytes(g, content) == \A s \in g.checked : Joined(content.blocks)[s] = "stock"

AcceptsAnyWhole(g, content) ==    \* fault: the digest is not compared
  Whole(content) /\ OldBytes(g, content)
Accepts(g, content) ==
  content = Data(Cut(g.base)) /\ OldBytes(g, content)

PassesReview(g, image) == g = BuildFromOfficial => image = V22Image

Generate(g, source, output) ==
  /\ run = Idle /\ commands < MaxCommands
  /\ ~SameFile(source, output)
  /\ Accepts(g, disk[Resolve[source]])
  /\ LET file == disk[Resolve[source]]
         image == Patched(Joined(file.blocks), g.replaced)
     IN  /\ PassesReview(g, image)
         /\ run' = [op |-> "generate", pc |-> "open", source |-> Resolve[source],
                    base |-> g.base, found |-> atLoss[Resolve[source]],
                    out |-> Resolve[output], data |-> Data(Cut(image))]
  /\ commands' = commands + 1
  /\ UNCHANGED <<disk, atLoss, chip, saved, mixtures>>

(* write_bytes: the file is emptied, then filled in place.                 *)
Truncate ==
  /\ run.op = "generate" /\ run.pc = "open"
  /\ Dirty(run.out, Empty)
  /\ run' = [run EXCEPT !.pc = "write"]
  /\ saved' = Forget(run.out)
  /\ UNCHANGED <<chip, mixtures, commands>>

WriteSome ==
  /\ run.op = "generate" /\ run.pc = "write"
  /\ \/ Dirty(run.out, Ragged)
     \/ \E n \in 1 .. 2 : Dirty(run.out, Data(Part(run.data.blocks, 0, n)))
  /\ UNCHANGED <<chip, run, saved, mixtures, commands>>

WriteRest ==
  /\ run.op = "generate" /\ run.pc = "write"
  /\ disk' = [disk EXCEPT ![run.out] = run.data]
  /\ atLoss' = [atLoss EXCEPT ![run.out] = @ \cup Torn(run.data) \cup {run.data}]
  /\ run' = Idle
  /\ UNCHANGED <<chip, saved, mixtures, commands>>

-----------------------------------------------------------------------------
(* save_file of ec-flash: a temporary file, its data synced, its name      *)
(* moved over the old file, the directory synced.  A dump reads the chip   *)
(* twice and compares before it saves (module EcFlash).  It takes whatever *)
(* --address and --length name, but no empty range.                        *)
ReadableEmptyToo ==               \* fault: a length of zero is not refused
  {Empty, Ragged} \cup {Data(Part(chip, r.at, r.n)) : r \in Ranges}
Readable == {Ragged} \cup {Data(Part(chip, r.at, r.n)) : r \in Ranges}

Dump(f) ==
  /\ run = Idle /\ commands < MaxCommands
  /\ \E c \in Readable :
       run' = [op |-> "dump", pc |-> "write", out |-> f, data |-> c,
               safe |-> FALSE, found |-> atLoss[f]]
  /\ commands' = commands + 1
  /\ UNCHANGED <<disk, atLoss, chip, saved, mixtures>>

SaveWrite ==
  /\ run.op = "dump" /\ run.pc = "write"
  /\ run' = [run EXCEPT !.pc = "sync"]
  /\ UNCHANGED <<disk, atLoss, chip, saved, mixtures, commands>>

SaveSyncSkipped ==                \* fault: the data is not synced before the rename
  /\ run.op = "dump" /\ run.pc = "sync"
  /\ run' = [run EXCEPT !.pc = "rename"]
  /\ UNCHANGED <<disk, atLoss, chip, saved, mixtures, commands>>
SaveSync ==
  /\ run.op = "dump" /\ run.pc = "sync"
  /\ run' = [run EXCEPT !.pc = "rename", !.safe = TRUE]
  /\ UNCHANGED <<disk, atLoss, chip, saved, mixtures, commands>>

(* What the temporary file might be after a loss of power.                 *)
Temporary == IF run.safe THEN {run.data} ELSE {run.data} \cup Torn(run.data)

SaveRename ==
  /\ run.op = "dump" /\ run.pc = "rename"
  /\ disk' = [disk EXCEPT ![run.out] = run.data]
  /\ atLoss' = [atLoss EXCEPT ![run.out] = @ \cup Temporary]
  /\ run' = [run EXCEPT !.pc = "directory"]
  /\ saved' = Forget(run.out)
  /\ UNCHANGED <<chip, mixtures, commands>>

SaveDirectorySkipped ==           \* fault: the new name is not synced
  /\ run.op = "dump" /\ run.pc = "directory"
  /\ saved' = saved \cup {[file |-> run.out, content |-> run.data]}
  /\ run' = Idle
  /\ UNCHANGED <<disk, atLoss, chip, mixtures, commands>>
SaveDirectory ==
  /\ run.op = "dump" /\ run.pc = "directory"
  /\ atLoss' = [atLoss EXCEPT ![run.out] = {run.data}]
  /\ saved' = saved \cup {[file |-> run.out, content |-> run.data]}
  /\ run' = Idle
  /\ UNCHANGED <<disk, chip, mixtures, commands>>

(* A command fails or is killed where it stands.                           *)
Abandon ==
  /\ run # Idle
  /\ run' = Idle
  /\ UNCHANGED <<disk, atLoss, chip, saved, mixtures, commands>>

-----------------------------------------------------------------------------
(* ec-flash --write takes any file of whole erase blocks, for any place of *)
(* the chip, and asks for no digest.  It rewrites the blocks that differ   *)
(* one by one; a verification that fails is an end like any other, so that *)
(* Abandon stands for it.  The accesses to the chip are those of EcFlash.  *)
Flashable(content, r) == content.kind = "blocks" /\ Len(content.blocks) = r.n

Write(f, r) ==
  /\ run = Idle /\ commands < MaxCommands
  /\ Flashable(disk[f], r)
  /\ run' = [op |-> "flash", pc |-> "compare", at |-> r.at, next |-> 1, data |-> disk[f]]
  /\ commands' = commands + 1
  /\ UNCHANGED <<disk, atLoss, chip, saved, mixtures>>

Place == run.at + run.next
Wanted == run.data.blocks[run.next]
NextBlock ==
  run' = IF run.next = Len(run.data.blocks) THEN Idle
         ELSE [run EXCEPT !.next = @ + 1, !.pc = "compare"]

SkipBlock ==
  /\ run.op = "flash" /\ run.pc = "compare"
  /\ chip[Place] = Wanted
  /\ NextBlock
  /\ UNCHANGED <<disk, atLoss, chip, saved, mixtures, commands>>

EraseBlock ==
  /\ run.op = "flash" /\ run.pc = "compare"
  /\ chip[Place] # Wanted
  /\ chip' = [chip EXCEPT ![Place] = Scrap]
  /\ run' = [run EXCEPT !.pc = "program"]
  /\ UNCHANGED <<disk, atLoss, saved, mixtures, commands>>

ProgramBlock ==
  /\ run.op = "flash" /\ run.pc = "program"
  /\ chip' = [chip EXCEPT ![Place] = Wanted]
  /\ mixtures' = IF chip' = run.data.blocks THEN mixtures ELSE mixtures \cup {chip'}
  /\ NextBlock
  /\ UNCHANGED <<disk, atLoss, saved, commands>>

(* The kernel writes a file back in its own time.                          *)
Writeback(f) ==
  /\ atLoss[f] # {disk[f]}
  /\ atLoss' = [atLoss EXCEPT ![f] = {disk[f]}]
  /\ UNCHANGED <<disk, chip, run, saved, mixtures, commands>>

PowerLoss ==
  /\ \/ run # Idle
     \/ \E f \in Files : atLoss[f] # {disk[f]}
  /\ disk' \in {d \in [Files -> UNION {atLoss[f] : f \in Files}] : \A f \in Files : d[f] \in atLoss[f]}
  /\ atLoss' = [f \in Files |-> {disk'[f]}]
  /\ run' = Idle
  /\ UNCHANGED <<chip, saved, mixtures, commands>>

-----------------------------------------------------------------------------
Init ==
  /\ \E start \in Starts :
       /\ disk = [f \in Files |-> IF f = First THEN Data(Cut(start.file)) ELSE Absent]
       /\ chip = Cut(start.chip)
  /\ atLoss = [f \in Files |-> {disk[f]}]
  /\ run = Idle
  /\ saved = {}
  /\ mixtures = {}
  /\ commands = 0

Next ==
  \/ \E g \in Generators, source, output \in Names : Generate(g, source, output)
  \/ Truncate \/ WriteSome \/ WriteRest
  \/ \E f \in Files : Dump(f)
  \/ SaveWrite \/ SaveSync \/ SaveRename \/ SaveDirectory
  \/ Abandon
  \/ \E f \in Files, r \in Ranges : Write(f, r)
  \/ SkipBlock \/ EraseBlock \/ ProgramBlock
  \/ \E f \in Files : Writeback(f)
  \/ PowerLoss

Spec == Init /\ [][Next]_vars

-----------------------------------------------------------------------------
(* Properties.                                                             *)

Runs ==
  {Idle}
    \cup [op : {"generate"}, pc : {"open", "write"}, source : Files, base : Images,
          found : SUBSET Contents, out : Files, data : Filled]
    \cup [op : {"dump"}, pc : {"write", "sync", "rename", "directory"}, out : Files,
          data : ({Ragged} \cup Filled) \ {Empty}, safe : BOOLEAN, found : SUBSET Contents]
    \cup [op : {"flash"}, pc : {"compare", "program"}, at : 0 .. 2, next : 1 .. 3, data : Filled]

(* Every variable has its type; nothing empty is saved, and nothing but    *)
(* whole blocks is flashed.                                                *)
TypeOK ==
  /\ disk \in [Files -> Contents]
  /\ atLoss \in [Files -> SUBSET Contents]
  /\ chip \in [Places -> Block]
  /\ run \in Runs
  /\ saved \subseteq [file : Files, content : ({Ragged} \cup Filled) \ {Empty}]
  /\ mixtures \subseteq [Places -> Block]
  /\ commands \in Nat

(* The hooks of a whole image lead to the code they were made for: the     *)
(* cave is shared, and a hook into the other patch's cave would run it     *)
(* from the wrong entry.  Neither cave stands without the three byte       *)
(* patches of its base.                                                    *)
HooksMatch(image) ==
  /\ image["charge"] = IF image["cave"] \in {"v2", "v2.1", "v2.2"} THEN image["cave"] ELSE "stock"
  /\ image["restore"] = IF image["cave"] = "v2.2" THEN "v2.2" ELSE "stock"
  /\ image["probe"] = IF image["cave"] \in {"v11", "v13"} THEN image["cave"] ELSE "stock"
  /\ image["cave"] # "stock" =>
       image["cal"] = "direct" /\ image["mode"] = "locked" /\ image["apexist"] = "ignored"

(* Whatever chain of commands, deaths and losses of power: blocks in a     *)
(* file or on the chip that join to an image join to one whose hooks and   *)
(* cave belong together, or they are, block for block, what the chip held  *)
(* in the midst of a write or after the write of a part.  And no generator *)
(* makes anything of such a mixture: what it is about to write has hooks   *)
(* and cave of one patch without exception.                                *)
Accounted(content) ==
  Whole(content) => HooksMatch(Joined(content.blocks)) \/ content.blocks \in mixtures

HooksMatchCave ==
  /\ \A f \in Files : Accounted(disk[f])
  /\ Accounted(Data(chip))
  /\ run.op = "generate" => Whole(run.data) /\ HooksMatch(Joined(run.data.blocks))

(* While a generator writes, the image it started from is still there, so  *)
(* a run that dies can be repeated; and a loss of power takes no more from *)
(* it than it could have before, so that of a source on stable storage     *)
(* nothing is at stake.                                                    *)
SourceSurvives ==
  run.op = "generate" =>
    disk[run.source] = Data(Cut(run.base)) /\ atLoss[run.source] \subseteq run.found

(* While a dump is being saved its file is what it was, or the dump; after *)
(* a loss of power too.                                                    *)
DumpIsOldOrNew ==
  run.op = "dump" => atLoss[run.out] \subseteq run.found \cup {run.data}

(* A dump reported as saved and synced is still there after a loss of      *)
(* power, until another command writes the file.                           *)
SavedSurvives == \A s \in saved : disk[s.file] = s.content

(* A dump replaces its file as a whole and for good or not at all.         *)
DumpsAreAtomic == DumpIsOldOrNew /\ SavedSurvives
=============================================================================
