--------------------------- MODULE ImageFilesProofs ---------------------------
(***************************************************************************)
(* Theorems about the image files, for any number of files, paths, links   *)
(* and commands: which images there can be, that the roads to v2.2 meet,   *)
(* what a write of the chip that is cut leaves and what can come of it,    *)
(* and what a death or a loss of power leaves on the disk.                 *)
(***************************************************************************)
EXTENDS ImageFiles, TLAPS

USE ResolveAssumption, MaxCommandsAssumption, RangesAssumption

-----------------------------------------------------------------------------
(* The images the generators make.                                         *)

LEMMA SiteNames ==
  /\ Layout[1] = {"probe", "restore", "cave"}
  /\ Layout[2] = {"cal", "apexist", "mode", "charge"}
  /\ Layout[3] = {"rest"}
  /\ Sites = {"probe", "restore", "cave", "cal", "apexist", "mode", "charge", "rest"}
BY DEF Sites, Layout

LEMMA OfficialImage == Official \in Images /\ HooksMatch(Official)
BY SiteNames DEF Official, Images, Code, HooksMatch

LEMMA LockedSites ==
  /\ LockedImage \in Images
  /\ LockedImage["cal"] = "direct"
  /\ LockedImage["mode"] = "locked"
  /\ \A s \in Sites \ {"cal", "mode"} : LockedImage[s] = "stock"
BY SiteNames DEF LockedImage, CalModeLocked, Patched, Images, Official, Code

LEMMA BaseSites ==
  /\ BaseImage \in Images
  /\ BaseImage["cal"] = "direct"
  /\ BaseImage["mode"] = "locked"
  /\ BaseImage["apexist"] = "ignored"
  /\ \A s \in Sites \ {"cal", "mode", "apexist"} : BaseImage[s] = "stock"
BY LockedSites, SiteNames DEF BaseImage, AddApexistIgnore, Patched, Images, Code

(* The script that starts from the vendor's image and the chain of single  *)
(* patches end in the same image, byte for byte: the comparison of digests *)
(* at its end never fails.                                                 *)
THEOREM RoadsMeet == Patched(Official, BuildFromOfficial.replaced) = V22Image
BY BaseSites, SiteNames DEF BuildFromOfficial, Patched, Official, V22Image, FlexiChargeV22

Result(g) == Patched(g.base, g.replaced)
Fit(g) == Result(g) \in Images /\ HooksMatch(Result(g))

LEMMA ByteGeneratorsFit ==
  /\ Fit(CalDirectOnly) /\ Fit(ModeOnly) /\ Fit(ModeLocked)
  /\ Fit(ApexistIgnore) /\ Fit(CalModeLocked) /\ Fit(AddApexistIgnore)
<1> USE SiteNames DEF Fit, Result, Patched, Images, Code, HooksMatch, Official
<1>1. Fit(CalDirectOnly)
  BY DEF CalDirectOnly
<1>2. Fit(ModeOnly)
  BY DEF ModeOnly
<1>3. Fit(ModeLocked)
  BY DEF ModeLocked
<1>4. Fit(ApexistIgnore)
  BY DEF ApexistIgnore
<1>5. Fit(CalModeLocked)
  BY DEF CalModeLocked
<1>6. Fit(AddApexistIgnore)
  BY LockedSites DEF AddApexistIgnore
<1> QED
  BY <1>1, <1>2, <1>3, <1>4, <1>5, <1>6

LEMMA CaveGeneratorsFit ==
  /\ Fit(FlexiChargeV2) /\ Fit(FlexiChargeV21) /\ Fit(FlexiChargeV22)
  /\ Fit(SbsObserverV11) /\ Fit(SbsWordScanV13) /\ Fit(BuildFromOfficial)
<1> USE BaseSites, SiteNames DEF Fit, Result, Patched, Images, Code, HooksMatch
<1>1. Fit(FlexiChargeV2)
  BY DEF FlexiChargeV2
<1>2. Fit(FlexiChargeV21)
  BY DEF FlexiChargeV21
<1>3. Fit(FlexiChargeV22)
  BY DEF FlexiChargeV22
<1>4. Fit(SbsObserverV11)
  BY DEF SbsObserverV11
<1>5. Fit(SbsWordScanV13)
  BY DEF SbsWordScanV13
<1>6. Fit(BuildFromOfficial)
  BY DEF BuildFromOfficial, Official
<1> QED
  BY <1>1, <1>2, <1>3, <1>4, <1>5, <1>6

LEMMA GeneratorsFit ==
  ASSUME NEW g \in Generators
  PROVE  Fit(g) /\ g.base \in Images
<1>1. Fit(g)
  BY ByteGeneratorsFit, CaveGeneratorsFit DEF Generators
<1>2. g.base \in {Official, LockedImage, BaseImage}
  BY DEF Generators, CalDirectOnly, ModeOnly, ModeLocked, ApexistIgnore, CalModeLocked,
         AddApexistIgnore, FlexiChargeV2, FlexiChargeV21, FlexiChargeV22, SbsObserverV11,
         SbsWordScanV13, BuildFromOfficial
<1> QED
  BY <1>1, <1>2, OfficialImage, LockedSites, BaseSites

LEMMA MadeFit ==
  ASSUME NEW image \in Made
  PROVE  image \in Images /\ HooksMatch(image)
<1>1. CASE image = Official
  BY <1>1, OfficialImage
<1>2. CASE \E g \in Generators : image = Result(g)
  BY <1>2, GeneratorsFit DEF Fit
<1> QED
  BY <1>1, <1>2 DEF Made, Result

-----------------------------------------------------------------------------
(* Blocks.                                                                 *)

LEMMA ExtentOf ==
  ASSUME NEW n \in 0 .. 3, NEW x \in [1 .. n -> Block]
  PROVE  x \in Extents /\ Len(x) = n
<1>1. CASE n = 0
  <2>1. x = <<>>
    BY <1>1
  <2> QED
    BY <1>1, <2>1 DEF Extents
<1>2. CASE n = 1
  BY <1>2 DEF Extents
<1>3. CASE n = 2
  BY <1>3 DEF Extents
<1>4. CASE n = 3
  BY <1>4 DEF Extents, Places
<1> QED
  BY <1>1, <1>2, <1>3, <1>4

LEMMA ExtentSize ==
  ASSUME NEW x \in Extents
  PROVE  Len(x) \in 0 .. 3 /\ x \in [1 .. Len(x) -> Block]
<1>1. <<>> \in [1 .. 0 -> Block]
  OBVIOUS
<1>2. \E n \in 0 .. 3 : x \in [1 .. n -> Block]
  <2>1. CASE x = <<>>
    BY <1>1, <2>1
  <2>2. CASE x \in [1 .. 1 -> Block]
    BY <2>2
  <2>3. CASE x \in [1 .. 2 -> Block]
    BY <2>3
  <2>4. CASE x \in [Places -> Block]
    BY <2>4 DEF Places
  <2> QED
    BY <2>1, <2>2, <2>3, <2>4 DEF Extents
<1> QED
  BY <1>2, ExtentOf

LEMMA ScrapIsBlock == Scrap \in Block /\ \A i \in Places : DOMAIN Scrap # Layout[i]
<1>1. DOMAIN Scrap = {}
  BY DEF Scrap
<1>2. \A i \in Places : Layout[i] # {}
  BY SiteNames DEF Places
<1> QED
  BY <1>1, <1>2 DEF Block

(* Blocks and image are two views of the same bytes.                       *)
LEMMA CutJoins ==
  ASSUME NEW image \in Images
  PROVE  /\ Cut(image) \in [Places -> Block]
         /\ Whole(Data(Cut(image)))
         /\ Joined(Cut(image)) = image
<1>1. \A i \in Places : Cut(image)[i] = [s \in Layout[i] |-> image[s]]
  BY DEF Cut
<1>2. Layout[1] \subseteq Sites /\ Layout[2] \subseteq Sites /\ Layout[3] \subseteq Sites
  BY DEF Sites
<1>3. \A i \in Places : Cut(image)[i] \in [Layout[i] -> Code]
  BY <1>1, <1>2 DEF Images, Places
<1>4. Cut(image) \in [Places -> Block]
  BY <1>3 DEF Cut, Block, Places
<1>5. Whole(Data(Cut(image)))
  BY <1>3, <1>4 DEF Whole, Data
<1>6. \A s \in Sites : Joined(Cut(image))[s] = image[s]
  BY <1>1 DEF Joined, Sites, Places
<1>7. Joined(Cut(image)) = image
  BY <1>6 DEF Joined, Images
<1> QED
  BY <1>4, <1>5, <1>7

-----------------------------------------------------------------------------
(* What a file may hold, given what the chip has been through.             *)

Pure(c) == Whole(c) /\ HooksMatch(Joined(c.blocks))
Sound(c, seen) ==
  /\ c \in Contents
  /\ Whole(c) => HooksMatch(Joined(c.blocks)) \/ c.blocks \in seen

LEMMA FewerBlocks ==
  ASSUME NEW seen, NEW n \in 0 .. 3, NEW x \in [1 .. n -> Block],
         n < 3 \/ \E i \in Places : DOMAIN x[i] # Layout[i]
  PROVE  Sound(Data(x), seen)
<1>1. Data(x) \in Contents
  BY ExtentOf DEF Data, Contents, Filled
<1>2. ~Whole(Data(x))
  BY DEF Whole, Data, Places
<1> QED
  BY <1>1, <1>2 DEF Sound

LEMMA OddIsSound == \A seen : Sound(Ragged, seen) /\ Sound(Absent, seen) /\ Sound(Empty, seen)
<1>1. ~Whole(Ragged) /\ ~Whole(Absent)
  BY DEF Whole, Ragged, Absent
<1>2. ~Whole(Empty)
  BY DEF Whole, Empty, Data, Places
<1>3. Ragged \in Contents /\ Absent \in Contents /\ Empty \in Contents
  BY DEF Contents, Filled, Extents, Empty, Data
<1> QED
  BY <1>1, <1>2, <1>3 DEF Sound

LEMMA FilledBlocks ==
  ASSUME NEW c \in Contents, c.kind = "blocks"
  PROVE  c \in Filled /\ c.blocks \in Extents /\ c = Data(c.blocks)
BY DEF Contents, Filled, Absent, Ragged, Data

(* A first part of some data has no image, and a block that was not        *)
(* written is of none.                                                     *)
LEMMA PrefixIsSound ==
  ASSUME NEW seen, NEW x \in Extents, NEW n \in 0 .. 2, n <= Len(x)
  PROVE  Sound(Data(Part(x, 0, n)), seen)
<1>1. PICK k \in 0 .. 3 : k = Len(x) /\ x \in [1 .. k -> Block]
  BY ExtentSize
<1>2. n <= k
  BY <1>1
<1>3. PICK y : y = Part(x, 0, n)
  OBVIOUS
<1>4. y \in [1 .. n -> Block]
  BY <1>1, <1>2, <1>3 DEF Part
<1>5. n \in 0 .. 3 /\ n < 3
  OBVIOUS
<1>6. Sound(Data(y), seen)
  BY <1>4, <1>5, FewerBlocks
<1> QED
  BY <1>3, <1>6

LEMMA TornIsSound ==
  ASSUME NEW seen, NEW c \in Contents, NEW t \in Torn(c)
  PROVE  Sound(t, seen)
<1>1. CASE t \in {Ragged, Empty}
  BY <1>1, OddIsSound
<1>2. CASE t \notin {Ragged, Empty}
  <2>1. c.kind = "blocks"
    BY <1>2 DEF Torn
  <2>2. c.blocks \in Extents
    BY <2>1, FilledBlocks
  <2>3. PICK k \in 0 .. 3 : k = Len(c.blocks) /\ c.blocks \in [1 .. k -> Block]
    BY <2>2, ExtentSize
  <2>4. PICK n \in 0 .. k - 1 :
          \/ t = Data(Part(c.blocks, 0, n))
          \/ t = Data([i \in 1 .. k |-> IF i <= n THEN c.blocks[i] ELSE Scrap])
    BY <1>2, <2>1, <2>3 DEF Torn
  <2>5. n \in 0 .. 2 /\ n < k
    OBVIOUS
  <2>6. CASE t = Data(Part(c.blocks, 0, n))
    <3>1. n <= Len(c.blocks)
      BY <2>3, <2>5
    <3> QED
      BY <2>2, <2>5, <2>6, <3>1, PrefixIsSound
  <2>7. CASE t = Data([i \in 1 .. k |-> IF i <= n THEN c.blocks[i] ELSE Scrap])
    <3>1. PICK x : x = [i \in 1 .. k |-> IF i <= n THEN c.blocks[i] ELSE Scrap]
      OBVIOUS
    <3>2. x \in [1 .. k -> Block]
      BY <2>3, <3>1, ScrapIsBlock
    <3>3. k < 3 \/ \E i \in Places : DOMAIN x[i] # Layout[i]
      <4>1. ASSUME k = 3 PROVE x[3] = Scrap
        BY <2>5, <3>1, <4>1
      <4> QED
        BY <4>1, ScrapIsBlock DEF Places
    <3>4. Sound(Data(x), seen)
      BY <3>2, <3>3, FewerBlocks
    <3> QED
      BY <2>7, <3>1, <3>4
  <2> QED
    BY <2>4, <2>6, <2>7
<1> QED
  BY <1>1, <1>2

LEMMA ImageIsSound ==
  ASSUME NEW seen, NEW image \in Images, HooksMatch(image)
  PROVE  /\ Sound(Data(Cut(image)), seen)
         /\ Data(Cut(image)) \in Filled
         /\ Pure(Data(Cut(image)))
<1>1. Cut(image) \in [Places -> Block] /\ Whole(Data(Cut(image))) /\ Joined(Cut(image)) = image
  BY CutJoins
<1>2. Data(Cut(image)).blocks = Cut(image)
  BY DEF Data
<1>3. Data(Cut(image)) \in Filled
  BY <1>1 DEF Data, Filled, Extents
<1>4. Pure(Data(Cut(image)))
  BY <1>1, <1>2 DEF Pure
<1> QED
  BY <1>1, <1>2, <1>3, <1>4 DEF Sound, Contents

Generating ==
  [op : {"generate"}, pc : {"open", "write"}, source : Files, base : Images,
   found : SUBSET Contents, out : Files, data : Filled]
Dumping ==
  [op : {"dump"}, pc : {"write", "sync", "rename", "directory"}, out : Files,
   data : ({Ragged} \cup Filled) \ {Empty}, safe : BOOLEAN, found : SUBSET Contents]
Flashing ==
  [op : {"flash"}, pc : {"compare", "program"}, at : 0 .. 2, next : 1 .. 3, data : Filled]

LEMMA RunKinds ==
  ASSUME run \in Runs
  PROVE  /\ run.op = "generate" => run \in Generating
         /\ run.op = "dump" => run \in Dumping
         /\ run.op = "flash" => run \in Flashing
         /\ run.op \notin {"generate", "dump", "flash"} => run = Idle
BY DEF Runs, Generating, Dumping, Flashing, Idle

(* The inductive invariant, in three parts: every content on the disk, at  *)
(* stake, on the chip or in hand is sound, and what a generator has in     *)
(* hand is so without excuse; the run in progress; and what was synced is  *)
(* at stake no longer.                                                     *)
AllSound ==
  /\ \A f \in Files : Sound(disk[f], mixtures) /\ \A c \in atLoss[f] : Sound(c, mixtures)
  /\ Sound(Data(chip), mixtures)
  /\ run # Idle => Sound(run.data, mixtures)
  /\ run.op = "generate" => Pure(run.data)

RunInv ==
  /\ run.op = "generate" =>
       /\ disk[run.source] = Data(Cut(run.base))
       /\ atLoss[run.source] \subseteq run.found
       /\ run.source # run.out
       /\ run.pc = "write" => \A s \in saved : s.file # run.out
  /\ run.op = "dump" =>
       /\ atLoss[run.out] \subseteq run.found \cup {run.data}
       /\ run.pc \in {"rename", "directory"} => run.safe
       /\ run.pc = "directory" => /\ disk[run.out] = run.data
                                  /\ \A s \in saved : s.file # run.out
  /\ run.op = "flash" =>
       run.next <= Len(run.data.blocks) /\ run.at + Len(run.data.blocks) <= 3

AtStake ==
  /\ \A f \in Files : disk[f] \in atLoss[f]
  /\ \A s \in saved : disk[s.file] = s.content /\ atLoss[s.file] = {s.content}

Inv == TypeOK /\ AllSound /\ RunInv /\ AtStake

LEMMA InitInv == Init => Inv
<1> SUFFICES ASSUME Init PROVE Inv
  OBVIOUS
<1>1. PICK start \in Starts :
        /\ disk = [f \in Files |-> IF f = First THEN Data(Cut(start.file)) ELSE Absent]
        /\ chip = Cut(start.chip)
  BY DEF Init
<1>2. /\ start.file \in Images /\ HooksMatch(start.file)
      /\ start.chip \in Images /\ HooksMatch(start.chip)
  BY StartsAssumption, MadeFit
<1>3. /\ \A image \in {start.file, start.chip} : Sound(Data(Cut(image)), mixtures)
      /\ Data(Cut(start.file)) \in Filled /\ Sound(Absent, mixtures)
      /\ chip \in [Places -> Block]
  BY <1>1, <1>2, ImageIsSound, OddIsSound, CutJoins
<1>4. \A f \in Files : disk[f] \in {Data(Cut(start.file)), Absent} /\ atLoss[f] = {disk[f]}
  BY <1>1 DEF Init
<1>5. TypeOK
  BY <1>1, <1>3 DEF Init, TypeOK, Runs, Contents
<1>6. AllSound
  BY <1>1, <1>3, <1>4 DEF Init, AllSound, Idle
<1>7. RunInv
  BY DEF Init, RunInv, Idle
<1>8. AtStake
  BY <1>4 DEF Init, AtStake
<1> QED
  BY <1>5, <1>6, <1>7, <1>8 DEF Inv

-----------------------------------------------------------------------------
(* One lemma per action.                                                   *)

LEMMA GenerateStep ==
  ASSUME Inv, NEW g \in Generators, NEW source \in Names, NEW output \in Names,
         Generate(g, source, output)
  PROVE  Inv'
<1> DEFINE image == Patched(Joined(disk[Resolve[source]].blocks), g.replaced)
<1>1. /\ disk[Resolve[source]] = Data(Cut(g.base))
      /\ Resolve[source] # Resolve[output]
      /\ run' = [op |-> "generate", pc |-> "open", source |-> Resolve[source],
                 base |-> g.base, found |-> atLoss[Resolve[source]],
                 out |-> Resolve[output], data |-> Data(Cut(image))]
      /\ commands' = commands + 1
      /\ UNCHANGED <<disk, atLoss, chip, saved, mixtures>>
  BY DEF Generate, Accepts, SameFile
<1>2. image = Result(g)
  <2>1. Joined(Cut(g.base)) = g.base
    BY GeneratorsFit, CutJoins
  <2> QED
    BY <1>1, <2>1 DEF Data, Result
<1>3. image \in Images /\ HooksMatch(image) /\ g.base \in Images
  BY <1>2, GeneratorsFit DEF Fit
<1>4. Sound(Data(Cut(image)), mixtures) /\ Data(Cut(image)) \in Filled /\ Pure(Data(Cut(image)))
  BY <1>3, ImageIsSound
<1> HIDE DEF image
<1>5. run' \in Generating
  BY <1>1, <1>3, <1>4 DEF Inv, TypeOK, Generating
<1>6. TypeOK'
  BY <1>1, <1>5 DEF Inv, TypeOK, Runs, Generating
<1>7. AllSound'
  BY <1>1, <1>4 DEF Inv, AllSound
<1>8. RunInv'
  BY <1>1 DEF RunInv
<1>9. AtStake'
  BY <1>1 DEF Inv, AtStake
<1> QED
  BY <1>6, <1>7, <1>8, <1>9 DEF Inv

(* A file whose content is replaced, and nothing synced before left of it. *)
LEMMA FileStep ==
  ASSUME Inv, NEW f \in Files, NEW c, Sound(c, mixtures),
         NEW more, c \in more, \A x \in more : Sound(x, mixtures),
         disk' = [disk EXCEPT ![f] = c],
         atLoss' = [atLoss EXCEPT ![f] = @ \cup more],
         saved' \subseteq saved, \A s \in saved' : s.file # f
  PROVE  /\ disk' \in [Files -> Contents]
         /\ atLoss' \in [Files -> SUBSET Contents]
         /\ \A g \in Files : Sound(disk'[g], mixtures) /\ \A x \in atLoss'[g] : Sound(x, mixtures)
         /\ AtStake'
         /\ \A g \in Files \ {f} : disk'[g] = disk[g] /\ atLoss'[g] = atLoss[g]
         /\ disk'[f] = c /\ atLoss'[f] = atLoss[f] \cup more
<1>1. disk \in [Files -> Contents] /\ atLoss \in [Files -> SUBSET Contents]
  BY DEF Inv, TypeOK
<1>2. /\ \A g \in Files \ {f} : disk'[g] = disk[g] /\ atLoss'[g] = atLoss[g]
      /\ disk'[f] = c /\ atLoss'[f] = atLoss[f] \cup more
  BY <1>1
<1>3. c \in Contents /\ more \subseteq Contents
  BY DEF Sound
<1>4. disk' \in [Files -> Contents] /\ atLoss' \in [Files -> SUBSET Contents]
  BY <1>1, <1>3
<1>5. \A g \in Files : Sound(disk'[g], mixtures) /\ \A x \in atLoss'[g] : Sound(x, mixtures)
  BY <1>2 DEF Inv, AllSound
<1>6. \A g \in Files : disk'[g] \in atLoss'[g]
  BY <1>2 DEF Inv, AtStake
<1>7. \A s \in saved' : s.file \in Files
  BY DEF Inv, TypeOK
<1>8. \A s \in saved' : disk'[s.file] = s.content /\ atLoss'[s.file] = {s.content}
  BY <1>2, <1>7 DEF Inv, AtStake
<1> QED
  BY <1>2, <1>4, <1>5, <1>6, <1>8 DEF AtStake

LEMMA TruncateStep == ASSUME Inv, Truncate PROVE Inv'
<1>1. run \in Generating /\ run.pc = "open"
  BY RunKinds DEF Inv, TypeOK, Truncate
<1>2. run.out \in Files
  BY <1>1 DEF Generating
<1>3. run' = [run EXCEPT !.pc = "write"] /\ UNCHANGED <<chip, mixtures, commands>>
  BY DEF Truncate
<1>4. /\ run' \in Generating /\ run'.op = "generate"
      /\ run'.out = run.out /\ run'.source = run.source /\ run'.base = run.base
      /\ run'.found = run.found /\ run'.data = run.data
  BY <1>1, <1>3 DEF Generating
<1>5. saved' \subseteq saved /\ \A s \in saved' : s.file # run.out
  BY DEF Truncate, Forget
<1>6. /\ disk' \in [Files -> Contents]
      /\ atLoss' \in [Files -> SUBSET Contents]
      /\ \A g \in Files : Sound(disk'[g], mixtures) /\ \A x \in atLoss'[g] : Sound(x, mixtures)
      /\ AtStake'
      /\ \A g \in Files \ {run.out} : disk'[g] = disk[g] /\ atLoss'[g] = atLoss[g]
  <2>1. Sound(Empty, mixtures)
    BY OddIsSound
  <2>2. PICK f \in Files : f = run.out
    BY <1>2
  <2>3. PICK more : more = {Empty}
    OBVIOUS
  <2>4. /\ disk' = [disk EXCEPT ![f] = Empty]
        /\ atLoss' = [atLoss EXCEPT ![f] = atLoss[f] \cup more]
        /\ saved' \subseteq saved /\ \A s \in saved' : s.file # f
    BY <1>5, <2>2, <2>3 DEF Truncate, Dirty
  <2>5. Empty \in more /\ \A x \in more : Sound(x, mixtures)
    BY <2>1, <2>3
  <2>6. /\ disk' \in [Files -> Contents]
        /\ atLoss' \in [Files -> SUBSET Contents]
        /\ \A g \in Files : Sound(disk'[g], mixtures) /\ \A x \in atLoss'[g] : Sound(x, mixtures)
        /\ AtStake'
        /\ \A g \in Files \ {f} : disk'[g] = disk[g] /\ atLoss'[g] = atLoss[g]
    BY ZenonT(40), <2>1, <2>4, <2>5, FileStep
  <2> QED
    BY <2>2, <2>6
<1>7. TypeOK'
  BY <1>3, <1>4, <1>5, <1>6 DEF Inv, TypeOK, Runs, Generating
<1>8. AllSound'
  BY <1>1, <1>3, <1>4, <1>6 DEF Inv, AllSound, Idle, Generating
<1>9. RunInv'
  <2>1. /\ run.source \in Files /\ run.source # run.out
        /\ disk[run.source] = Data(Cut(run.base)) /\ atLoss[run.source] \subseteq run.found
    BY <1>1 DEF Inv, RunInv, Generating
  <2> QED
    BY <1>4, <1>5, <1>6, <2>1 DEF RunInv
<1> QED
  BY <1>6, <1>7, <1>8, <1>9 DEF Inv

LEMMA WriteSomeStep == ASSUME Inv, WriteSome PROVE Inv'
<1>1. run \in Generating /\ run.pc = "write" /\ run.op = "generate"
  BY RunKinds DEF Inv, TypeOK, WriteSome
<1>2. run.out \in Files /\ run.data.blocks \in Extents /\ Pure(run.data)
  BY <1>1 DEF Inv, AllSound, Generating, Filled
<1>3. UNCHANGED <<chip, run, saved, mixtures, commands>> /\ \A s \in saved : s.file # run.out
  BY <1>1 DEF Inv, RunInv, WriteSome
<1>4. PICK c : Dirty(run.out, c) /\ Sound(c, mixtures)
  <2>1. CASE Dirty(run.out, Ragged)
    BY <2>1, OddIsSound
  <2>2. CASE \E n \in 1 .. 2 : Dirty(run.out, Data(Part(run.data.blocks, 0, n)))
    <3>1. PICK n \in 1 .. 2 : Dirty(run.out, Data(Part(run.data.blocks, 0, n)))
      BY <2>2
    <3>2. n <= Len(run.data.blocks)
      <4>1. DOMAIN run.data.blocks = 1 .. 3
        BY <1>2 DEF Pure, Whole, Places
      <4>2. PICK k \in 0 .. 3 : k = Len(run.data.blocks) /\ run.data.blocks \in [1 .. k -> Block]
        BY <1>2, ExtentSize
      <4>3. DOMAIN run.data.blocks = 1 .. k
        BY <4>2
      <4>4. n \in 1 .. k
        BY <4>1, <4>3
      <4>5. n <= k
        BY <4>4
      <4> QED
        BY <4>2, <4>5
    <3>3. n \in 0 .. 2
      OBVIOUS
    <3>4. Sound(Data(Part(run.data.blocks, 0, n)), mixtures)
      BY <1>2, <3>2, <3>3, PrefixIsSound
    <3> QED
      BY <3>1, <3>4
  <2> QED
    BY <2>1, <2>2 DEF WriteSome
<1>5. /\ disk' \in [Files -> Contents]
      /\ atLoss' \in [Files -> SUBSET Contents]
      /\ \A g \in Files : Sound(disk'[g], mixtures) /\ \A x \in atLoss'[g] : Sound(x, mixtures)
      /\ AtStake'
      /\ \A g \in Files \ {run.out} : disk'[g] = disk[g] /\ atLoss'[g] = atLoss[g]
  <2>1. PICK f \in Files : f = run.out
    BY <1>2
  <2>2. PICK more : more = {c}
    OBVIOUS
  <2>3. /\ disk' = [disk EXCEPT ![f] = c]
        /\ atLoss' = [atLoss EXCEPT ![f] = atLoss[f] \cup more]
        /\ saved' \subseteq saved /\ \A s \in saved' : s.file # f
    BY <1>3, <1>4, <2>1, <2>2 DEF Dirty
  <2>4. c \in more /\ \A x \in more : Sound(x, mixtures)
    BY <1>4, <2>2
  <2>5. /\ disk' \in [Files -> Contents]
        /\ atLoss' \in [Files -> SUBSET Contents]
        /\ \A g \in Files : Sound(disk'[g], mixtures) /\ \A x \in atLoss'[g] : Sound(x, mixtures)
        /\ AtStake'
        /\ \A g \in Files \ {f} : disk'[g] = disk[g] /\ atLoss'[g] = atLoss[g]
    BY ZenonT(40), <1>4, <2>3, <2>4, FileStep
  <2> QED
    BY <2>1, <2>5
<1>6. TypeOK' /\ AllSound'
  BY <1>3, <1>5 DEF Inv, TypeOK, AllSound
<1>7. RunInv'
  <2>1. /\ run.source \in Files /\ run.source # run.out
        /\ disk[run.source] = Data(Cut(run.base)) /\ atLoss[run.source] \subseteq run.found
    BY <1>1 DEF Inv, RunInv, Generating
  <2> QED
    BY <1>1, <1>3, <1>5, <2>1 DEF RunInv
<1> QED
  BY <1>5, <1>6, <1>7 DEF Inv

LEMMA WriteRestStep == ASSUME Inv, WriteRest PROVE Inv'
<1>1. run \in Generating /\ run.pc = "write" /\ run.op = "generate"
  BY RunKinds DEF Inv, TypeOK, WriteRest
<1>2. run.out \in Files /\ run # Idle
  BY <1>1 DEF Generating, Idle
<1>3. /\ UNCHANGED <<chip, saved, mixtures, commands>> /\ run' = Idle
      /\ \A s \in saved : s.file # run.out
  BY <1>1 DEF Inv, RunInv, WriteRest
<1>4. /\ disk' \in [Files -> Contents]
      /\ atLoss' \in [Files -> SUBSET Contents]
      /\ \A g \in Files : Sound(disk'[g], mixtures) /\ \A x \in atLoss'[g] : Sound(x, mixtures)
      /\ AtStake'
  <2>1. Sound(run.data, mixtures) /\ \A x \in Torn(run.data) \cup {run.data} : Sound(x, mixtures)
    <3>1. Sound(run.data, mixtures) /\ run.data \in Contents
      BY <1>2 DEF Inv, AllSound, Sound
    <3> QED
      BY <3>1, TornIsSound
  <2>2. PICK f \in Files : f = run.out
    BY <1>2
  <2>3. PICK c : c = run.data
    OBVIOUS
  <2>4. PICK more : more = Torn(run.data) \cup {c}
    OBVIOUS
  <2>5. /\ disk' = [disk EXCEPT ![f] = c]
        /\ atLoss' = [atLoss EXCEPT ![f] = atLoss[f] \cup more]
        /\ saved' \subseteq saved /\ \A s \in saved' : s.file # f
    BY <1>3, <2>2, <2>3, <2>4 DEF WriteRest
  <2>6. c \in more /\ Sound(c, mixtures) /\ \A x \in more : Sound(x, mixtures)
    BY <2>1, <2>3, <2>4
  <2> QED
    BY <2>5, <2>6, FileStep
<1>5. TypeOK' /\ AllSound' /\ RunInv'
  BY <1>3, <1>4 DEF Inv, TypeOK, AllSound, RunInv, Runs, Idle
<1> QED
  BY <1>4, <1>5 DEF Inv

(* Of the chip a dump takes what has an image only as a whole.             *)
LEMMA ReadableIsSound ==
  ASSUME Inv, NEW c \in Readable
  PROVE  Sound(c, mixtures) /\ c \in ({Ragged} \cup Filled) \ {Empty}
<1>1. CASE c = Ragged
  BY <1>1, OddIsSound DEF Ragged, Empty, Data
<1>2. CASE \E r \in Ranges : c = Data(Part(chip, r.at, r.n))
  <2>1. PICK r \in Ranges : c = Data(Part(chip, r.at, r.n))
    BY <1>2
  <2>2. PICK n, x : n = r.n /\ x = Part(chip, r.at, n)
    OBVIOUS
  <2>3. r.at \in 0 .. 2 /\ n \in 1 .. 3 /\ n \in 0 .. 3 /\ r.at + n <= 3
    BY <2>2
  <2>4. chip \in [1 .. 3 -> Block]
    BY DEF Inv, TypeOK, Places
  <2>5. x \in [1 .. n -> Block]
    BY <2>2, <2>3, <2>4 DEF Part
  <2>6. x \in Extents /\ x # <<>>
    <3>1. x \in Extents /\ Len(x) = n
      BY <2>3, <2>5, ExtentOf
    <3> QED
      BY <2>3, <3>1
  <2>7. c \in ({Ragged} \cup Filled) \ {Empty}
    BY <2>1, <2>2, <2>6 DEF Filled, Data, Empty
  <2>8. CASE n < 3
    <3>1. Sound(Data(x), mixtures)
      BY <2>3, <2>5, <2>8, FewerBlocks
    <3> QED
      BY <2>1, <2>2, <2>7, <3>1
  <2>9. CASE n = 3
    <3>1. r.at = 0
      BY <2>3, <2>9
    <3>2. x = chip
      BY <2>2, <2>4, <2>9, <3>1 DEF Part
    <3> QED
      BY <2>1, <2>2, <2>7, <3>2 DEF Inv, AllSound
  <2> QED
    BY <2>3, <2>8, <2>9
<1> QED
  BY <1>1, <1>2 DEF Readable

LEMMA DumpStep == ASSUME Inv, NEW f \in Files, Dump(f) PROVE Inv'
<1>1. PICK c \in Readable :
        run' = [op |-> "dump", pc |-> "write", out |-> f, data |-> c,
                safe |-> FALSE, found |-> atLoss[f]]
  BY DEF Dump
<1>2. commands' = commands + 1 /\ UNCHANGED <<disk, atLoss, chip, saved, mixtures>>
  BY DEF Dump
<1>3. Sound(c, mixtures) /\ c \in ({Ragged} \cup Filled) \ {Empty}
  BY ReadableIsSound
<1>4. run' \in Dumping
  BY <1>1, <1>3 DEF Inv, TypeOK, Dumping
<1>5. TypeOK'
  BY <1>2, <1>4 DEF Inv, TypeOK, Runs, Dumping
<1>6. AllSound' /\ RunInv' /\ AtStake'
  BY <1>1, <1>2, <1>3 DEF Inv, AllSound, RunInv, AtStake
<1> QED
  BY <1>5, <1>6 DEF Inv

LEMMA SaveWriteStep == ASSUME Inv, SaveWrite PROVE Inv'
<1>1. run \in Dumping /\ run.pc = "write" /\ run # Idle /\ run.op = "dump"
  BY RunKinds DEF Inv, TypeOK, SaveWrite, Idle
<1>2. run' = [run EXCEPT !.pc = "sync"] /\ UNCHANGED <<disk, atLoss, chip, saved, mixtures, commands>>
  BY DEF SaveWrite
<1>3. /\ run' \in Dumping /\ run'.op = "dump" /\ run'.pc = "sync"
      /\ run'.out = run.out /\ run'.data = run.data /\ run'.found = run.found
  BY <1>1, <1>2 DEF Dumping
<1>4. TypeOK'
  BY <1>2, <1>3 DEF Inv, TypeOK, Runs, Dumping
<1>5. AllSound' /\ RunInv' /\ AtStake'
  BY <1>1, <1>2, <1>3 DEF Inv, AllSound, RunInv, AtStake
<1> QED
  BY <1>4, <1>5 DEF Inv

LEMMA SaveSyncStep == ASSUME Inv, SaveSync PROVE Inv'
<1>1. run \in Dumping /\ run.pc = "sync" /\ run # Idle /\ run.op = "dump"
  BY RunKinds DEF Inv, TypeOK, SaveSync, Idle
<1>2. /\ run' = [run EXCEPT !.pc = "rename", !.safe = TRUE]
      /\ UNCHANGED <<disk, atLoss, chip, saved, mixtures, commands>>
  BY DEF SaveSync
<1>3. /\ run' \in Dumping /\ run'.op = "dump" /\ run'.pc = "rename" /\ run'.safe
      /\ run'.out = run.out /\ run'.data = run.data /\ run'.found = run.found
  BY <1>1, <1>2 DEF Dumping
<1>4. TypeOK'
  BY <1>2, <1>3 DEF Inv, TypeOK, Runs, Dumping
<1>5. AllSound' /\ RunInv' /\ AtStake'
  BY <1>1, <1>2, <1>3 DEF Inv, AllSound, RunInv, AtStake
<1> QED
  BY <1>4, <1>5 DEF Inv

(* The data is safe, so that the moved name adds nothing but the dump to   *)
(* what is at stake.                                                       *)
LEMMA SaveRenameStep == ASSUME Inv, SaveRename PROVE Inv'
<1>1. run \in Dumping /\ run.pc = "rename" /\ run # Idle /\ run.op = "dump"
  BY RunKinds DEF Inv, TypeOK, SaveRename, Idle
<1>2. run.out \in Files /\ run.safe /\ Sound(run.data, mixtures)
  BY <1>1 DEF Inv, RunInv, AllSound, Dumping
<1>3. run' = [run EXCEPT !.pc = "directory"] /\ UNCHANGED <<chip, mixtures, commands>>
  BY DEF SaveRename
<1>4. /\ run' \in Dumping /\ run'.op = "dump" /\ run'.pc = "directory" /\ run'.safe
      /\ run'.out = run.out /\ run'.data = run.data /\ run'.found = run.found
  BY <1>1, <1>2, <1>3 DEF Dumping
<1>5. saved' \subseteq saved /\ \A s \in saved' : s.file # run.out
  BY DEF SaveRename, Forget
<1>6. PICK f \in Files : f = run.out
  BY <1>2
<1>7. PICK c, more : c = run.data /\ more = {c}
  OBVIOUS
<1>8. /\ disk' = [disk EXCEPT ![f] = c]
      /\ atLoss' = [atLoss EXCEPT ![f] = atLoss[f] \cup more]
      /\ \A s \in saved' : s.file # f
      /\ c \in more /\ Sound(c, mixtures) /\ \A x \in more : Sound(x, mixtures)
  BY <1>2, <1>5, <1>6, <1>7 DEF SaveRename, Temporary
<1>9. /\ disk' \in [Files -> Contents]
      /\ atLoss' \in [Files -> SUBSET Contents]
      /\ \A g \in Files : Sound(disk'[g], mixtures) /\ \A x \in atLoss'[g] : Sound(x, mixtures)
      /\ AtStake'
      /\ disk'[f] = c /\ atLoss'[f] = atLoss[f] \cup more
  BY <1>5, <1>8, FileStep
<1>10. TypeOK'
  BY <1>3, <1>4, <1>5, <1>9 DEF Inv, TypeOK, Runs, Dumping
<1>11. AllSound'
  BY <1>1, <1>3, <1>4, <1>9 DEF Inv, AllSound
<1>12. RunInv'
  BY <1>1, <1>4, <1>5, <1>6, <1>7, <1>9 DEF Inv, RunInv
<1> QED
  BY <1>9, <1>10, <1>11, <1>12 DEF Inv

(* A file all of whose possible contents become the one it has.            *)
LEMMA SettledStep ==
  ASSUME Inv, NEW f \in Files, atLoss' = [atLoss EXCEPT ![f] = {disk[f]}],
         UNCHANGED <<disk, chip, mixtures, commands>>
  PROVE  /\ atLoss' \in [Files -> SUBSET Contents]
         /\ \A g \in Files : /\ Sound(disk'[g], mixtures) /\ \A x \in atLoss'[g] : Sound(x, mixtures)
                             /\ disk'[g] \in atLoss'[g] /\ atLoss'[g] \subseteq atLoss[g]
         /\ \A s \in saved : disk'[s.file] = s.content /\ atLoss'[s.file] = {s.content}
         /\ atLoss'[f] = {disk[f]}
<1>1. disk \in [Files -> Contents] /\ atLoss \in [Files -> SUBSET Contents]
  BY DEF Inv, TypeOK
<1>2. /\ \A g \in Files \ {f} : atLoss'[g] = atLoss[g]
      /\ atLoss'[f] = {disk[f]}
  BY <1>1
<1>3. atLoss' \in [Files -> SUBSET Contents]
  BY <1>1
<1>4. \A g \in Files : disk[g] \in atLoss[g]
  BY DEF Inv, AtStake
<1>5. \A g \in Files : atLoss'[g] \subseteq atLoss[g] /\ disk'[g] \in atLoss'[g]
  BY <1>2, <1>4
<1>6. \A s \in saved : s.file \in Files
  BY DEF Inv, TypeOK
<1>7. \A s \in saved : disk'[s.file] = s.content /\ atLoss'[s.file] = {s.content}
  BY <1>2, <1>6 DEF Inv, AtStake
<1> QED
  BY <1>2, <1>3, <1>5, <1>7 DEF Inv, AllSound

LEMMA SaveDirectoryStep == ASSUME Inv, SaveDirectory PROVE Inv'
<1>1. run \in Dumping /\ run.pc = "directory" /\ run # Idle /\ run.op = "dump"
  BY RunKinds DEF Inv, TypeOK, SaveDirectory, Idle
<1>2. PICK f \in Files : f = run.out
  BY <1>1 DEF Dumping
<1>3. disk[f] = run.data /\ run.data \in ({Ragged} \cup Filled) \ {Empty}
  BY <1>1, <1>2 DEF Inv, RunInv, Dumping
<1>4. /\ run' = Idle /\ UNCHANGED <<disk, chip, mixtures, commands>>
      /\ atLoss' = [atLoss EXCEPT ![f] = {disk[f]}]
      /\ saved' = saved \cup {[file |-> f, content |-> run.data]}
  BY <1>2, <1>3 DEF SaveDirectory
<1>5. /\ atLoss' \in [Files -> SUBSET Contents]
      /\ \A g \in Files : /\ Sound(disk'[g], mixtures) /\ \A x \in atLoss'[g] : Sound(x, mixtures)
                          /\ disk'[g] \in atLoss'[g]
      /\ \A s \in saved : disk'[s.file] = s.content /\ atLoss'[s.file] = {s.content}
      /\ atLoss'[f] = {disk[f]}
  BY <1>4, SettledStep
<1>6. TypeOK'
  BY <1>3, <1>4, <1>5 DEF Inv, TypeOK, Runs
<1>7. AllSound' /\ RunInv'
  BY <1>4, <1>5 DEF Inv, AllSound, RunInv, Idle
<1>8. AtStake'
  BY <1>3, <1>4, <1>5 DEF AtStake
<1> QED
  BY <1>6, <1>7, <1>8 DEF Inv

LEMMA WritebackStep == ASSUME Inv, NEW f \in Files, Writeback(f) PROVE Inv'
<1>1. /\ atLoss' = [atLoss EXCEPT ![f] = {disk[f]}]
      /\ UNCHANGED <<disk, chip, run, saved, mixtures, commands>>
  BY DEF Writeback
<1>2. /\ atLoss' \in [Files -> SUBSET Contents]
      /\ \A g \in Files : /\ Sound(disk'[g], mixtures) /\ \A x \in atLoss'[g] : Sound(x, mixtures)
                          /\ disk'[g] \in atLoss'[g] /\ atLoss'[g] \subseteq atLoss[g]
      /\ \A s \in saved : disk'[s.file] = s.content /\ atLoss'[s.file] = {s.content}
  BY <1>1, SettledStep
<1>3. TypeOK' /\ AllSound' /\ AtStake'
  BY <1>1, <1>2 DEF Inv, TypeOK, AllSound, AtStake
<1>4. (run.op = "dump" => run.out \in Files) /\ (run.op = "generate" => run.source \in Files)
  BY RunKinds DEF Inv, TypeOK, Dumping, Generating
<1>5. RunInv'
  BY <1>1, <1>2, <1>4 DEF Inv, RunInv
<1> QED
  BY <1>3, <1>5 DEF Inv

LEMMA AbandonStep == ASSUME Inv, Abandon PROVE Inv'
BY DEF Inv, TypeOK, AllSound, RunInv, AtStake, Abandon, Runs, Idle

(* A write of the chip.                                                    *)
LEMMA WriteStep == ASSUME Inv, NEW f \in Files, NEW r \in Ranges, Write(f, r) PROVE Inv'
<1>1. /\ run = Idle /\ Flashable(disk[f], r)
      /\ run' = [op |-> "flash", pc |-> "compare", at |-> r.at, next |-> 1, data |-> disk[f]]
      /\ commands' = commands + 1 /\ UNCHANGED <<disk, atLoss, chip, saved, mixtures>>
  BY DEF Write
<1>2. r.at \in 0 .. 2 /\ r.n \in 1 .. 3 /\ r.at + r.n <= 3
  OBVIOUS
<1>3. Sound(disk[f], mixtures) /\ disk[f] \in Filled /\ Len(disk[f].blocks) = r.n
  BY <1>1, FilledBlocks DEF Inv, TypeOK, AllSound, Flashable
<1>4. run' \in Flashing
  BY <1>1, <1>2, <1>3 DEF Flashing
<1>5. TypeOK'
  BY <1>1, <1>4 DEF Inv, TypeOK, Runs, Flashing
<1>6. AllSound' /\ AtStake'
  BY <1>1, <1>3 DEF Inv, AllSound, AtStake
<1>7. RunInv'
  BY <1>1, <1>2, <1>3 DEF RunInv
<1> QED
  BY <1>5, <1>6, <1>7 DEF Inv

(* The block at hand is one of the file's and has its place on the chip.   *)
LEMMA AtBlock ==
  ASSUME Inv, run.op = "flash"
  PROVE  /\ run \in Flashing /\ run # Idle
         /\ Place \in Places /\ Wanted \in Block
         /\ Sound(run.data, mixtures)
         /\ NextBlock => \/ run' = Idle
                         \/ run' \in Flashing /\ run' # Idle /\ run'.op = "flash"
                              /\ run'.next <= Len(run.data.blocks)
                              /\ run'.at = run.at /\ run'.data = run.data
<1>1. run \in Flashing /\ run # Idle
  BY RunKinds DEF Inv, TypeOK, Idle
<1>2. run.data.blocks \in Extents
  BY <1>1 DEF Flashing, Filled
<1>3. PICK n \in 0 .. 3 : n = Len(run.data.blocks) /\ run.data.blocks \in [1 .. n -> Block]
  BY <1>2, ExtentSize
<1>4. run.next \in 1 .. 3 /\ run.at \in 0 .. 2 /\ run.next <= n /\ run.at + n <= 3
  BY <1>1, <1>3 DEF Inv, RunInv, Flashing
<1>5. Place \in Places /\ Wanted \in Block
  <2>1. Place \in Places
    BY <1>3, <1>4 DEF Place, Places
  <2>2. run.next \in 1 .. n
    BY <1>4
  <2> QED
    BY <1>3, <2>1, <2>2 DEF Wanted
<1>6. ASSUME NextBlock, run.next # n
      PROVE  run' \in Flashing /\ run' # Idle /\ run'.op = "flash"
               /\ run'.next <= n /\ run'.at = run.at /\ run'.data = run.data
  <2>1. run' = [run EXCEPT !.next = run.next + 1, !.pc = "compare"]
    BY <1>3, <1>6 DEF NextBlock
  <2>2. run.next + 1 \in 1 .. 3 /\ run.next + 1 <= n
    BY <1>4, <1>6
  <2> QED
    BY <1>1, <2>1, <2>2 DEF Flashing, Idle
<1>7. NextBlock /\ run.next = n => run' = Idle
  BY <1>3 DEF NextBlock
<1>8. Sound(run.data, mixtures)
  BY <1>1 DEF Inv, AllSound
<1> QED
  BY <1>1, <1>3, <1>5, <1>6, <1>7, <1>8

(* What the next block leaves to be shown of a step: the chip.             *)
LEMMA NextBlockKeeps ==
  ASSUME Inv, run.op = "flash", NextBlock, UNCHANGED <<disk, atLoss, saved, commands>>,
         chip' \in [Places -> Block], mixtures' \subseteq [Places -> Block],
         mixtures \subseteq mixtures', Sound(Data(chip'), mixtures')
  PROVE  Inv'
<1>1. \/ run' = Idle
      \/ run' \in Flashing /\ run' # Idle /\ run'.op = "flash"
           /\ run'.next <= Len(run.data.blocks)
           /\ run'.at = run.at /\ run'.data = run.data
  BY AtBlock
<1>2. run' \in Runs
  BY <1>1 DEF Runs, Flashing
<1>3. TypeOK'
  BY <1>2 DEF Inv, TypeOK
<1>4. \A c : Sound(c, mixtures) => Sound(c, mixtures')
  BY DEF Sound
<1>5. \A f \in Files : Sound(disk[f], mixtures') /\ \A c \in atLoss[f] : Sound(c, mixtures')
  BY <1>4 DEF Inv, AllSound
<1>6. Sound(run.data, mixtures')
  BY <1>4, AtBlock
<1>7. AllSound'
  BY <1>1, <1>5, <1>6 DEF AllSound, Idle
<1>8. RunInv'
  BY <1>1 DEF Inv, RunInv, Idle
<1>9. AtStake'
  BY DEF Inv, AtStake
<1> QED
  BY <1>3, <1>7, <1>8, <1>9 DEF Inv

LEMMA SkipBlockStep == ASSUME Inv, SkipBlock PROVE Inv'
<1>1. /\ run.op = "flash" /\ NextBlock
      /\ UNCHANGED <<disk, atLoss, chip, saved, mixtures, commands>>
  BY DEF SkipBlock
<1>2. /\ chip' \in [Places -> Block] /\ mixtures' \subseteq [Places -> Block]
      /\ Sound(Data(chip'), mixtures')
  BY <1>1 DEF Inv, TypeOK, AllSound
<1> QED
  BY <1>1, <1>2, NextBlockKeeps

(* An erased block is of no image.                                         *)
LEMMA EraseBlockStep == ASSUME Inv, EraseBlock PROVE Inv'
<1>1. /\ run.op = "flash" /\ run' = [run EXCEPT !.pc = "program"]
      /\ chip' = [chip EXCEPT ![Place] = Scrap]
      /\ UNCHANGED <<disk, atLoss, saved, mixtures, commands>>
  BY DEF EraseBlock
<1>2. run \in Flashing /\ run # Idle /\ Place \in Places /\ Sound(run.data, mixtures)
  BY <1>1, AtBlock
<1>3. /\ run' \in Flashing /\ run'.op = "flash" /\ run'.data = run.data
      /\ run'.at = run.at /\ run'.next = run.next
  BY <1>1, <1>2 DEF Flashing
<1>4. chip' \in [1 .. 3 -> Block] /\ chip'[Place] = Scrap
  <2>1. chip \in [1 .. 3 -> Block] /\ Place \in 1 .. 3 /\ Scrap \in Block
    BY <1>2, ScrapIsBlock DEF Inv, TypeOK, Places
  <2> QED
    BY SMTT(20), <1>1, <2>1
<1>5. Sound(Data(chip'), mixtures)
  BY <1>2, <1>4, ScrapIsBlock, FewerBlocks DEF Places
<1>6. TypeOK'
  BY <1>1, <1>3, <1>4 DEF Inv, TypeOK, Runs, Flashing, Places
<1>7. AllSound'
  BY <1>1, <1>2, <1>3, <1>5 DEF Inv, AllSound
<1>8. RunInv' /\ AtStake'
  BY <1>1, <1>3 DEF Inv, RunInv, AtStake
<1> QED
  BY <1>6, <1>7, <1>8 DEF Inv

(* Once a block is programmed the chip is the whole file, or in the midst. *)
LEMMA ProgramBlockStep == ASSUME Inv, ProgramBlock PROVE Inv'
<1>1. /\ run.op = "flash" /\ NextBlock
      /\ chip' = [chip EXCEPT ![Place] = Wanted]
      /\ mixtures' = IF chip' = run.data.blocks THEN mixtures ELSE mixtures \cup {chip'}
      /\ UNCHANGED <<disk, atLoss, saved, commands>>
  BY DEF ProgramBlock
<1>2. /\ run \in Flashing /\ Place \in Places /\ Wanted \in Block
      /\ Sound(run.data, mixtures)
  BY <1>1, AtBlock
<1>3. chip' \in [Places -> Block]
  BY <1>1, <1>2 DEF Inv, TypeOK
<1>4. mixtures' \subseteq [Places -> Block] /\ mixtures \subseteq mixtures'
  BY <1>1, <1>3 DEF Inv, TypeOK
<1>5. Sound(Data(chip'), mixtures')
  <2>1. CASE chip' = run.data.blocks
    <3>1. run.data = Data(run.data.blocks)
      BY <1>2 DEF Flashing, Filled, Data
    <3>2. mixtures' = mixtures
      BY <1>1, <2>1
    <3> QED
      BY <1>2, <2>1, <3>1, <3>2
  <2>2. CASE chip' # run.data.blocks
    <3>1. chip' \in mixtures'
      BY <1>1, <2>2
    <3>2. Data(chip') \in Contents /\ Data(chip').blocks = chip'
      BY <1>3 DEF Contents, Filled, Extents, Data
    <3> QED
      BY <3>1, <3>2 DEF Sound
  <2> QED
    BY <2>1, <2>2
<1> QED
  BY <1>1, <1>3, <1>4, <1>5, NextBlockKeeps

(* Whatever a loss of power leaves of a file, it was at stake; what was    *)
(* synced was not.                                                         *)
LEMMA PowerLossStep == ASSUME Inv, PowerLoss PROVE Inv'
<1>1. /\ run' = Idle /\ UNCHANGED <<chip, saved, mixtures, commands>>
      /\ atLoss' = [f \in Files |-> {disk'[f]}]
  BY DEF PowerLoss
<1>2. /\ disk' \in [Files -> UNION {atLoss[f] : f \in Files}]
      /\ \A f \in Files : disk'[f] \in atLoss[f]
  BY DEF PowerLoss
<1>3. \A f \in Files : disk'[f] \in Contents /\ Sound(disk'[f], mixtures) /\ atLoss'[f] = {disk'[f]}
  BY <1>1, <1>2 DEF Inv, TypeOK, AllSound
<1>4. disk' \in [Files -> Contents] /\ atLoss' \in [Files -> SUBSET Contents]
  BY <1>1, <1>2, <1>3
<1>5. \A s \in saved : s.file \in Files /\ disk'[s.file] = s.content
  BY <1>2 DEF Inv, TypeOK, AtStake
<1>6. TypeOK'
  BY <1>1, <1>4 DEF Inv, TypeOK, Runs
<1>7. AllSound' /\ RunInv' /\ AtStake'
  BY <1>1, <1>3, <1>5 DEF Inv, AllSound, RunInv, AtStake, Idle
<1> QED
  BY <1>6, <1>7 DEF Inv

LEMMA InvStep == Inv /\ [Next]_vars => Inv'
<1> SUFFICES ASSUME Inv, [Next]_vars PROVE Inv'
  OBVIOUS
<1>1. CASE \E g \in Generators, source, output \in Names : Generate(g, source, output)
  BY <1>1, GenerateStep
<1>2. CASE Truncate \/ WriteSome \/ WriteRest
  BY <1>2, TruncateStep, WriteSomeStep, WriteRestStep
<1>3. CASE \E f \in Files : Dump(f)
  BY <1>3, DumpStep
<1>4. CASE SaveWrite \/ SaveSync \/ SaveRename \/ SaveDirectory
  BY <1>4, SaveWriteStep, SaveSyncStep, SaveRenameStep, SaveDirectoryStep
<1>5. CASE Abandon \/ PowerLoss
  BY <1>5, AbandonStep, PowerLossStep
<1>6. CASE \/ \E f \in Files, r \in Ranges : Write(f, r)
           \/ SkipBlock \/ EraseBlock \/ ProgramBlock
  BY <1>6, WriteStep, SkipBlockStep, EraseBlockStep, ProgramBlockStep
<1>7. CASE \E f \in Files : Writeback(f)
  BY <1>7, WritebackStep
<1>8. CASE UNCHANGED vars
  BY <1>8 DEF vars, Inv, TypeOK, AllSound, RunInv, AtStake
<1> QED
  BY <1>1, <1>2, <1>3, <1>4, <1>5, <1>6, <1>7, <1>8 DEF Next

LEMMA Invariance == Spec => []Inv
BY InitInv, InvStep, PTL DEF Spec

-----------------------------------------------------------------------------
(* Files hold what the commands can write, and nothing else.               *)
THEOREM ImageTypeCorrect == Spec => []TypeOK
<1>1. Inv => TypeOK
  BY DEF Inv
<1> QED
  BY <1>1, Invariance, PTL

(* Whatever chain of generators, dumps, writes, deaths and losses of power:*)
(* an image whose hooks lead into the cave of another patch is one the     *)
(* chip held in the midst of a write or after the write of a part, and no  *)
(* generator makes an image of it.                                         *)
THEOREM HooksAlwaysMatch == Spec => []HooksMatchCave
<1>1. \A c : Sound(c, mixtures) => Accounted(c)
  BY DEF Sound, Accounted
<1>2. Inv => HooksMatchCave
  BY <1>1 DEF Inv, AllSound, Pure, HooksMatchCave
<1> QED
  BY <1>2, Invariance, PTL

(* A generator never writes the file it reads, whatever links lead to it,  *)
(* and puts nothing of it at stake.                                        *)
THEOREM SourceKept == Spec => []SourceSurvives
<1>1. Inv => SourceSurvives
  BY DEF Inv, RunInv, SourceSurvives
<1> QED
  BY <1>1, Invariance, PTL

(* A dump replaces its file as a whole and for good or not at all.         *)
THEOREM DumpsReplaceWhole == Spec => []DumpsAreAtomic
<1>1. Inv => DumpsAreAtomic
  BY DEF Inv, RunInv, AtStake, DumpsAreAtomic, DumpIsOldOrNew, SavedSurvives
<1> QED
  BY <1>1, Invariance, PTL
=============================================================================
