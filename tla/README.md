# A TLA+ model of ec_reverse

The repository holds patched firmware for the embedded controller (EC) of a
laptop, the tools that flash it and the tools that talk to it while it runs.
This directory holds specifications of the parts that keep state, the TLC runs
that check them on small instances, and the proofs that TLAPS checks for all
instances. Paths below are relative to the repository; `v22.py` is
`firmware_mods/GXxHXxx_21.200/build-from-official-20261103/patch_ec_flexicharge_v22.py`
and `v13.py` the `patch_sbs_cyclecount_v13_word_scan.py` of 20260727.

## 1. Inventory

| Component | State | Operations | Talks to | What is hard | What makes it correct |
|---|---|---|---|---|---|
| **FlexiCharge policy** (`v22.py`, `build_cave`) | `07D0` (lower limit, bit 7 = charge cycle active), `07B9` (upper limit, bit 7 = charging inhibited) | one pass per scheduler round: `apply_policy` through `decision_entry` or `preclear_entry` | host writes the same bytes; `04AB` (state of charge) | it reads and writes bytes that another processor writes | hysteresis: resume at the lower limit only, stop at the upper one only; an invalid pair inhibits nothing |
| **Its persistence** (`v22.py`, `restore_entry`, `update_low_shadow`) | `0773` record of the lower limit, `077E/077F` save handshake, stock `087F` and `0802` for the upper limit, the non-volatile block | request a save on change; stock commit; restore on boot | stock scheduler, `bank0:DE03`, `DC2A` | power loss between any two of them | no limit is neither stored nor pending; no flash wear; boot restores no stale request and no phase |
| **`tools/ec/flexicharge.py`** | none of its own | `status`, `set`, `disable`: read three registers, write two | the policy, through I2EC | not atomic against the policy | what it configures stands, what it reports is so |
| **`tools/ec-flash`** | Follow Mode, keyboard disabled, the chip's content, WIP and WEL, the marker in `/run`, the dump file | `--write`, `--dump/--verify`, `--reset-only` | flash chip through the EC, shutdown helper through the marker | kill, signal, timeouts and power loss between any two steps, or between selector and data byte; a chip that is busy or ignores a command | the marker never promises what the flash does not hold; every exit restores EC and keyboard or says that it did not; a dump is saved whole or not at all |
| **`ec-flash-system-shutdown`** | the marker | remove it, run `--reset-only` | `ec-flash` | one shot | resets only into a verified image |
| **`tools/ec/i2ec_rw.py`** | I2EC address latches, the lock on `/dev/port` | `read`, `write`, `dump` | every I2EC client | three port accesses make one access | an access reaches the byte it names |
| **SBS mailbox** (`v13.py`, `read_sbs_identity_cache.py`) | doorbell, state, counter, bitmap, words | ring, accept, one command per stock SMBus window, snapshot | host and EC main loop | a request or a snapshot during a scan; interrupts that use the bus too | a "complete" answer is one whole scan, and an answer to the request |
| **`watch_i2ec_battery.py`** | previous sample | sample, compare, print | I2EC | holds the lock for its whole life | reads only |
| **SBS instrumentation v11 and earlier** | the same mailbox | one stock transaction is watched | | superseded | its image fits no other cave |
| **FlexiCharge v2, v2.1** | `07D0`, `07B9` as v2.2 | as v2.2, no persistence | host, battery | a phase outlives its window | v2.1 implements what v2.2 implements; v2 differs in one known way |
| **Image generators** (eleven patch scripts and the one that starts from the official image) | an image file | check digest and old bytes, replace, write | each other's output, `ec-flash` | order of the chain, a death in the middle of `write_bytes` or between two blocks of a write, one file under two names | an image that mixes two patches comes from a write that was cut or of a part only, and no generator takes it; the source survives |
| **`tools/analysis`**, packaging | files | offline text transformations, build recipes | | nothing stateful | |

`PROJECT.json` lists them with what is modelled of each, and lists under
`hazards` every place where the code can go wrong in a way a test would hardly
reach, with the property that looks there.

## 2. Modules

```
Hysteresis              what the charging policy promises
   ^ refined by
FlexiCharge             v2.2: policy, persistence, boots, host, one step per task or register write
   ^ proved about in FlexiChargeProofs, checked by MCFlexiCharge
FlexiChargeGenerations  v2 and v2.1 side by side, v2.1 refines Hysteresis too
   ^ proved about in FlexiChargeGenerationsProofs, checked by MCFlexiChargeGenerations
FlexiChargeHost         one policy pass against one host command, one step per register access
   ^ proved about in FlexiChargeHostProofs, checked by MCFlexiChargeHost

ImageFiles              generators, image files, save_file, page cache
   ^ proved about in ImageFilesProofs, checked by MCImageFiles
GuardedReset            what marker, shutdown helper and FE promise
   ^ refined by
EcFlash                 ec-flash, shutdown helper, chip, machine, one step per operation on the chip
   ^ proved about in EcFlashProofs, checked by MCEcFlash
FollowProtocol          the same commands, one step per byte to port 66
   ^ proved about in FollowProtocolProofs, checked by itself

Registers               what the I2EC port promises
   ^ refined by
I2ecPort                i2ec_rw.py and the battery monitor, one step per port access
   ^ proved about in I2ecPortProofs, checked by MCI2ecPort

Mailbox                 what the doorbell mailbox promises
   ^ refined by
SbsMailbox              v13 cave with interrupts, host reader, one step per byte of the record
   ^ proved about in SbsMailboxProofs, checked by MCSbsMailbox
```

They compose by assumption: I2ecPort shows that the three port accesses of a
client act as one access to a register and that sessions exclude each other.
FlexiChargeHost and SbsMailbox take both for granted, their host steps are
register accesses of one client at a time. ImageFiles takes the accesses of
ec-flash to one erase block as two steps and opens up what becomes of images;
EcFlash opens up the accesses; FollowProtocol opens up one operation of EcFlash
into bytes.

### Hysteresis

Six variables and no registers: a session opens at the lower limit and closes
at the upper one, charging is inhibited exactly while no session is open.
`Decide` is the controller, `ConfigureLow`/`ConfigureHigh` the host, `Reset` a
boot, `Drift` the battery.

### FlexiCharge

The generator assembles 8051 code; its emit calls, read with the labels and
comments beside them, are the source. A register byte is a pair: its low seven
bits (`low`, `high`, `shadow`) and its bit 7 (`phase`, `stop`, validity, where
`NoRecord` is a byte without the valid bit).

| Action | Code |
|---|---|
| `PolicyPass` | `decision_entry` or `preclear_entry`, `apply_policy`, then the stock continuation `D741`. `UpdateShadow` and one of `AtOrBelowLow`, `AtOrAboveHigh`, `Middle`, `DisabledPair`, `StockDecision` |
| `AcceptCommit`, `CommitBlock`, `CommitHigh` | stock scheduler: the handshake is consumed, then the 16-byte block is written; the mirror of the upper limit is written after its countdown |
| `ColdBoot` | power loss and restore: `DC02`, `DE03`, `restore_entry`. A loss inside the block write may leave the old block or an unreadable one |
| `HostSet`, `HostDisable`, `HostFinish`, `HostKilled` | `command_set`, `command_disable`: the write of `07D0`, then the write of `07B9`, or death in between |
| `VendorWriteLow`, `VendorWriteHigh` | any other program on the host (external) |

The stock routines are not in the repository as source; they are modelled from
what the generator's comments, hooks and expected bytes say of them and marked
external. `writer` is a history variable: who last wrote a flag.

### FlexiChargeGenerations

Both generations see the same thresholds, charge, hosts and boots, and keep
their own pair of flags (`v2`, `v21`). `Pass` is `apply_policy` with the
decision of each: `WindowDecision` is common, `V2Decision` leaves every pair that
is no window to the stock comparison, `V21Decision` has `invalid_pair`.
`HostWrites` writes a whole byte (`Raw`, `Threshold` and `Flag` are the
arithmetic of bit 7), `HostKeepsFlag` a byte with the flag it found. `kept` is
history: v2 carried a session through a pair that v2.1 calls disabled.

### FlexiChargeHost

The same pass, opened up: `BeginPass` reads `07B9` into R3, `ReadLow` pushes
`07D0`, `CompareLow` and `CompareHigh` each read `04AB`, `WriteLow` writes the
pushed byte back, `ReadHigh` and `WriteHigh` modify `07B9`. The host's
`read_state` and its two writes are one step per register. Every byte carries
the number of the command that wrote it (`ver`), and `dirty`, `lost`, `fresh`,
`settled` are history. The persistent record plays no part here.

### GuardedReset and EcFlash

GuardedReset knows what each block shows, a promise and who acts for it: a
promise is given (`Give`) for a range that shows its image, blocks are rewritten
(`Rewrite`) only while none stands and none is called in, it is called in once
(`CallIn`), and a reset is sent (`SendReset`) only for one that is called in and
kept. `Shown`, `Called` and `Resetting` map EcFlash to it: a block shows an image
it holds as a whole, the consumed marker is called in until the reset command has
passed `follow_exit`.

In EcFlash a step is one operation of the tool on the chip. `pc` names the next one:

```
write:  disarm > delay > disableKbc > enterFollow > readId
          > preRead > (ready > latch > mutate > settle)*  unprotect, erase sectors
          > eraseVerify > (ready > latch > mutate > settle)*  program pages
          > writeDisable > verify > next block ... > done
read:   disableKbc > enterFollow > read > readFinish [> read > readFinish] > compare > done
reset:  disableKbc > enterFollow > done
all:    ... > cleanup [> quiesce] > exitFollow > enableKbc [> arm] > end
```

`inFollow`, `kbcDisabled`, `entered`, `writeStarted`, `ok` are the program's
flags (`rc == 0` for `ok`), `follow`, `kbcOff`, `busy`, `wel`, `content` the
hardware's. An access may fail before it has its effect (`AccessFails`) or
after it (`Access`). `Signal` is SIGINT/SIGTERM, `Killed` SIGKILL; `Shutdown`,
`ShutdownHelper`, `Boot` and `PowerLoss` are the machine. The chip finishes an
operation when it likes; an operation may leave its unit `"torn"` and a WREN
may get lost. `marker` carries what it was armed for, `found` the state of the
device when the command started, `readCut` that an access failed inside a pair of
`flash_read` before the first mutation, after which the EC takes the `FC` of
`ExitFollow` for the missing byte: these are history.

### FollowProtocol

A command goes through stages (`Stages`, `After`), each a transaction of
`flash_read.c` or `flash_write.c` (`ReadId`, `ReadChunk`, `EraseSector`, ...): a
dump reads chunk after chunk, a write takes block after block and in it sector
after sector and page after page, as many as there are. A transaction is a
sequence of direct commands and of pairs of a selector and a data byte; `todo` is
what is left of it and `half` says that the selector of a pair is out. `Write`
does one write to port 66, repeated where the code polls or streams; `WorkFails`
is a wait that times out before or after its byte went out, a stop or a
comparison that fails; `Continue` turns to the next transaction and sets
`closes`, the number of closing `05` writes the code would still owe.
`CloseTransaction`, `ResetEc` and `Leave` are `follow_exit`, `Enter` is
`follow_enter`, with and without its answer, `NotEntered` one that fails before
`DC`, `QuiesceEnds` the end of the `flash_wait_ready` and `flash_write_disable`
that `main` tries after a failed write. `Takes` is what the EC makes of a byte:
after a selector, the next one is an opcode or a data byte whatever it was meant
for. `PageBytes` is the size of a page. The values of addresses and data play no part.

### ImageFiles

An image is what each of its patch sites holds; a digest is equality with the
image it was taken of. A generator is a record of the image it demands, the
sites whose old bytes it compares and what it puts where. `Generate` is all that
comes before the output is opened, `Truncate`, `WriteSome`, `WriteRest` are
`write_bytes`; `SaveWrite`, `SaveSync`, `SaveRename`, `SaveDirectory` are
`save_file`.

Files and the chip hold erase blocks. `Layout` says which site lies in which: the
cave, the entry of the probe and the restore hook in the first 64 KiB, the three
byte patches and the charge hooks in the second, no site in the rest, which
counts as one block. A block that is erased, programmed in part or of a torn file
is `Scrap`: it belongs to no image. `Dump` reads the blocks that `--address` and
`--length` name, or a length that is no number of blocks (`Ragged`). `Write` takes
a file of whole blocks to any of those places and then goes block by block as
`write_image` does: `SkipBlock`, or `EraseBlock` and `ProgramBlock`. It may fail, be
killed or lose power at each of these points (`Abandon`, `PowerLoss`); a failed
verification is one of them. That a write with exit status 0 has left the file
on the chip is `SuccessMeansDone` of EcFlash.

So the chip can come to hold the hooks of one patch over the cave of another, and
a dump saves that as a file of full length. A write that was cut
arms no reset (`ArmedMeansVerified`), and the generators' digests refuse the
file (`HooksMatchCave`); but a write of a part that succeeds arms one, whatever
patch the rest of the chip belongs to, and nothing in `ec-flash` asks.

`atLoss` holds what a loss of power may leave in a file: of data that was not
synced the first blocks, with or without the length of the whole (`Torn`).
`saved` and `mixtures` are history: the dumps reported as saved, and what the chip
held between two blocks of a write or after a write of a part. `run.found` is what
was at stake in a file when the command at hand began.

### Registers and I2ecPort

`Registers` is an array of bytes with one client in session. I2ecPort splits
each access as `I2EC.select`, `read` and `write` do: `SelectHigh`, `SelectLow`,
then `ReadData` or `WriteData` through whatever the latches select. A command
is a `program`, the sequence of accesses it makes: `Rd` (`cmd_read`), pairs
(`--low`, `cmd_dump`, samples), `Check`, read, write, read (`cmd_write`). `Open`
is `os.open` with `flock`, `Close` the end of `open_i2ec`, `AccessFails` an
exception of `read_byte`/`write_byte`, `Killed` the death of a process at any
point (the kernel then drops the lock, the latches stay). A watcher draws a new
program (`Resample`) until SIGINT (`Interrupt`); an error drops its sample and
not its session. `Firmware` changes the bytes in `Live` at any time. `seen` is history,
one memory for each client: as it stood when the client's session began, with
the client's own writes, and nothing known of what the firmware has changed
since. No write of another client shows in it, so that the read-back of
`cmd_write` compares with what `cmd_write` wrote.

### Mailbox and SbsMailbox

Mailbox has requests, scans and one post: a request takes the post down
(`Request`), a scan is begun if one was asked for (`Begin`), posted once and as a
whole (`Post`), and taken as posted (`Take`). In the mapping the record is posted
while the doorbell shows `C3`, and taken while a client reports completion;
`UnderWay` says that a scan has begun and is not published.

In SbsMailbox two levels run the cave, the main line and an interrupt that suspends it. Their
steps are the accesses to the record, in the order of the emitted code:

| Action | `v13.py` |
|---|---|
| `AcceptTest` ... `ClearCount` | `main_entry`, `main_accept`, `clear_cache` (upwards: bitmap, words, count) |
| `VeneerEntry`, `Pending`, `Claim`, `Bypass` | `smbus_entry`, `pending`, `bypass` |
| `StockCall`, `Prepare`, `Command`, `Restore`, `Mark` | the caller's transaction, the appended command, the scratch word `00C0`, the bitmap |
| `Count`, `More`, `Finish`, `Publish`, `Leave` | end of the window, `restore_caller` |
| `Open`, `Ring`, `PollDone`, `PollTimeout`, `ReadOnly`, `Snap...`, `Exit` | `read_sbs_identity_cache.py`: `request_probe`, `read_snapshot`, end or death |

A word is known by the scan that fetched it, the requests rung by then and its
success. The version byte at offset 3 is constant and left out; so is the first
of the two snapshots, which only feeds a warning.

## 3. Runs

| Run | Shows | Instance | Distinct states |
|---|---|---|---|
| `flexicharge_safety` | `SavesPending` (no save is lost), `PolicySettled`, `QuietBoot`, and that FlexiCharge implements Hysteresis | charges 40, 60, 96; thresholds 0, 40, 96; 2 power losses | 567 891 |
| `flexicharge_durable` | `SettledLimitsRest`: limits left alone become durable, then the flash rests | thresholds 0, 40; 1 power loss | 8 358 |
| `generations` | `DifferOnlyByKeptSession`; v2.1 implements Hysteresis | charges 20 to 97; thresholds 0, 40, 60, 96, 100 | 1 975 |
| `host_interleaving` | `KeptUnlessLost`: the only harm an interleaving does to thresholds is a lost write; `PassCoherent`; `DisableReleasesUnlessLost`; once host and battery are quiet the flags reach the right decision (`Converges`) | windows 40-60, 40-80, 60-80; 2 commands | 2 156 235 |
| `host_disable_lost` | violation: a disable can leave charging inhibited | window 40-60; 2 commands | |
| `ecflash_safety` | `ArmedMeansVerified`, `SuccessMeansDone`, `NoWorseThanFound`, `OneMutationAfterStop`, and that EcFlash implements GuardedReset | 2 blocks of 2 units, 2 images (symmetric), 2 commands and the resets they arm | 1 060 443 |
| `ecflash_ends` | `OnlyDumpsHang`: a write ends even if the chip never completes an operation, the other commands if it does | 1 block of 2 units | 198 880 |
| `ecflash_dump_hangs` | violation: the status poll after a read has no deadline | 1 block of 1 unit | |
| `follow_protocol` | `StuckOnlyByReadCut`: which cut pairs leave Follow Mode without a warning; `NoStrayMutation`: what is taken for the missing byte is no erase and no program | any command and number of blocks, pages of 2 bytes; 2 commands in a row | 3 199 |
| `image_files` | `HooksMatchCave`, `SourceSurvives`, `DumpsAreAtomic` | 2 files, one also behind a link; 3 commands; all 12 generators; dumps and writes of the image or of one of its two blocks with sites; the chip holds the official image or v2.2 | 1 266 342 |
| `i2ec_sessions` | an access meets the byte it names, a session sees memory as if alone, the port implements Registers, every session ends | two tools and a watcher; 4 addresses that share halves | 101 760 |
| `sbs_scan` | `C3` stands over one whole scan and bits vouch for words (`CompleteIsWhole`), one window at a time, callers find their own result, the whole implements Mailbox, what the reader reports complete is stale in one case only, every doorbell is answered | 2 commands, the last to the scratch word; 3 requests | 251 050 |

Each property of a passing run is broken by at least one fault listed under
`mutants`; the faulty operators stand before the right ones in the modules and
are marked `fault`.

**Why the bounds are enough.** The policy compares a charge with two
thresholds, zero and 96: three thresholds and three charges meet every order of
them, the equalities and the cap included. Two power losses give a loss during
the recovery from a loss. Two host commands give a command that meets the
remains of another; the second may be the disable. In EcFlash two blocks give
one that is skipped and one that is rewritten, two units a first and a last;
two commands give one that finds what a killed or failed one left; the old
image is one of the two, so that a command may also restore it. In I2ecPort the
addresses 0, 1, 256, 257 differ in either half or in both, three clients are two
that may write, so that one can come between the write and the read-back of the
other, and a watcher, and programs of up to four accesses contain every command;
the proofs remove the bounds on clients and addresses.
In SbsMailbox two commands are one that leaves the scan open and one that ends
it, the last goes to the scratch word as the indexes 30 and 31 do, and a second
and a third request meet a scan at any point, also one that has itself replaced
another; the proofs remove these bounds. In ImageFiles three commands are what
v2.2 takes on top of the official image, and what it takes to cut a write of the
base image over v2.2 between two blocks, to dump the mixture and to offer it to a
generator; the two blocks with sites and the whole image are the ranges that
can part hooks from cave, and two files are a source and an output, or one under
two names. In FollowProtocol the second command meets the EC as the first left it, blocks,
sectors and pages are unbounded, and two bytes of a page are one that is the
last and one that is not. In FlexiChargeGenerations nothing
is bounded but the values. The proofs lift the bounds of every safety property.

**Deadlock** is checked in every run but `follow_protocol` and `image_files`,
where nothing is left to do once the last command is over.

**Fairness.** FlexiCharge: the EC's main loop returns to each task; a task may
only be kept waiting by another, hence strong fairness of the tasks that wait
for a commit to return, weak fairness of the commit. The host, the battery and
the power supply owe nothing. FlexiChargeHost: the pass goes on. EcFlash: the
process is scheduled (`WF_vars(Tool)`, which includes its deadlines); that the
chip completes is assumed by `ecflash_ends` only, and the run without it is a
violation. I2ecPort: a process that has the port is scheduled (`WF_vars(Goes)`);
that a waiting one is served is not claimed, for a watcher may hold the port for
ever. SbsMailbox: interrupts end (weak fairness), the main line gets on between
them, its loop polls the doorbell, and stock transactions on register bank 0
keep coming (strong fairness, since interrupts and the state of the record
disable these steps again and again). No run assumes that an access succeeds or
that a user acts.

**Interrupts.** `InterruptPoints` lets an interrupt enter the SMBus veneer while
a stock worker runs, the case that the comment at
`patch_sbs_identity_v11_live_veneer_observer.py:201-202` describes. Were there a
caller on register bank 0 that can interrupt the test and the claim of a window
(`v13.py:187-197`) or the clearing loop, `OneWindow` and `CompleteIsWhole` would
fail: the cave relies on there being none. `InterruptsAssumption` states it.

## 4. Disagreements with the documentation

With a run that shows them (`findings`):

1. `flexicharge.py:174-175` says clearing the stop bit keeps a disable from
   leaving charging held. The policy's read-modify-write of `07B9` can swallow
   that write whole (`host_disable_lost`).
2. `docs/02-flash-protocol.md:22` and
   `docs/_archive/ec-flash-and-i2ec-rw-20261103.md:50-51` say every wait has a
   timeout; `follow.c:78-83` has none (`ecflash_dump_hangs`).

Without a run of their own; the properties named show that there is no more to
them:

3. `v22.py:307-309` says `disabled_pair` does not destroy two-step host writes.
   It writes back the byte it pushed at the start of the pass
   (`v22.py:310-312`), so it can; `KeptUnlessLost` excepts exactly such writes.
4. `flexicharge.py:159-160` reports an active cycle that a pass between the two
   writes of `set` has already cleared.
5. `read_sbs_identity_cache.py:117` says that the EC completed the requested
   probe. `v13.py:276` writes `C3` without looking whether the doorbell still
   shows the `5A` it began with; a request rung during the last command is
   overwritten, and its client is shown the scan before. `StaleOnlyByOverlap`:
   this is the only way.
6. `docs/02-flash-protocol.md:110` has a failure in any phase leave Follow Mode.
   A pair of `flash_read` cut between selector and data byte makes the EC take
   the `FC` of the cleanup for the missing byte; nothing is reported.
   `StuckOnlyByReadCut`: this is the only unreported way, and a theorem for pages
   of any size and any number of commands.
7. `docs/_archive/ec_firmware_instrumentation_tutorial_20260727.md:638` asks tools
   to check magic and version; `read_sbs_identity_cache.py:72` checks the magic
   only, and shows words of a v13 record as identity fields.
8. `docs/01-hardware.md:62-63` demands a temporary file, sync, rename and sync
   for images; `save_file` does it (`DumpsAreAtomic`), the generators'
   `write_bytes` does not. Their output may be torn; their source is not touched
   (`SourceSurvives`), but a source that was itself not synced yet can be lost
   with the power, as it could before the generator ran.
9. `v22.py:47` has a comment "(0/100/200 mV per cell)" over bytes that select 250
   and 150 (`patch_mode_locked_voltage.py:16-17`).
10. The table of `docs/07-mods.md` gives the official image as the base of
    `cal-direct-mode-locked-apexist-ignore`; `patch_add_apexist_ignore.py` demands
    `22512c7c`. It also says that the scripts of `cal-direct-only` and `mode-only`
    are no longer there; they are. Its claim at line 28, that both roads to v2.2
    give the same bytes, holds in the model (theorem `RoadsMeet`).
11. `docs/02-flash-protocol.md:108` has WREN sent again before a write whose latch
    is not set gives up. `flash_write.c:139-148` sends it once and polls the status
    until the deadline; EcFlash follows the code: a lost WREN fails the write.

## 5. Proofs

TLAPS checks the theorems below, each for every value of the constants that the
named assumptions of its module admit; nothing else is assumed. Each safety
property of a passing run, and each refinement, is the subject of one.

| Module | Theorem | Property |
|---|---|---|
| `FlexiChargeProofs` | `TypeCorrect` | `TypeOK` |
| | `NoSaveLost` (from `LowSaveNeverLost`, `HighSaveNeverLost`) | `SavesPending` |
| | `PolicyCoherent` | `PolicySettled` |
| | `BootWritesNoFlash` | `QuietBoot` |
| | `HysteresisBand` | `BandEdges`, an action property |
| | `Refinement` | `ImplementsHysteresis` |
| `FlexiChargeGenerationsProofs` | `GenerationsTypeCorrect` | `TypeOK` |
| | `PartOnlyByKeptSession` | `DifferOnlyByKeptSession` |
| | `V21Refinement` | `V21ImplementsHysteresis` |
| `FlexiChargeHostProofs` | `HostTypeCorrect` | `TypeOK` |
| | `CommandsKept` | `KeptUnlessLost` |
| | `PassesCoherent` | `PassCoherent` |
| | `DisableReleased` | `DisableReleasesUnlessLost` |
| `EcFlashProofs` | `FlashTypeCorrect` | `TypeOK` |
| | `ResetNeedsVerifiedFlash` | `ArmedMeansVerified` |
| | `ResetIsGuarded` | `ImplementsGuardedReset` |
| | `SuccessCanBeTrusted` | `SuccessMeansDone` |
| | `CleanupIsHonest` | `NoWorseThanFound` |
| | `StopIsPrompt` | `OneMutationAfterStop` |
| `FollowProtocolProofs` | `FollowTypeCorrect` | `TypeOK` |
| | `OnlyReadCutsStick` | `StuckOnlyByReadCut` |
| | `CutPairsNeverMutate` | `NoStrayMutation` |
| `ImageFilesProofs` | `ImageTypeCorrect` | `TypeOK` |
| | `RoadsMeet` | the two roads to v2.2 make one image |
| | `HooksAlwaysMatch` | `HooksMatchCave` |
| | `SourceKept` | `SourceSurvives` |
| | `DumpsReplaceWhole` | `DumpsAreAtomic` |
| `I2ecPortProofs` | `TypeCorrect` | `TypeOK` |
| | `ByteReached` | `AccessReachesItsByte` |
| | `Isolation` | `SessionIsolated` |
| | `PortRefinement` | `ImplementsRegisters` |
| `SbsMailboxProofs` | `MailboxTypeCorrect` | `TypeOK` |
| | `WindowsExclude` | `OneWindow` |
| | `ScansAreWhole` | `CompleteIsWhole` |
| | `CallersKeepTheirWord` | `CallerSeesItsWord` |
| | `MailboxRefinement` | `ImplementsMailbox` |
| | `AnswersAreWhole` | what is reported complete is the latest scan |
| | `StaleInOneCase` | `StaleOnlyByOverlap` |

Hardly any of these is inductive. What each invariant adds, and why:

**FlexiCharge.** `CommitPending` is not inductive alone: a boot copies the stored
block, so one must know that the block never stores a request, because `DC2A`
writes it only after the scheduler has marked the handshake consumed
(`HandshakeConsumed`). `UpperCommitPending` speaks of the last writer only; under
it lies `MirrorDue`, a mirror that differs from the stored limit has its
countdown running, and `MirrorStorable`, the mirror is a limit or the default.
`Inductive` has one step per action. `HysteresisBand` rests on `PolicySettled`;
`Refinement` is proved action by action (`PassRefines`, `BootRefines`,
`HostRefines`) from types alone.

**FlexiChargeGenerations.** `RawRoundTrip` is the arithmetic of bit 7. v2's phase
implies v2.1's unless a session was kept; the agreement of the stop bits needs
that the phases agree.

**FlexiChargeHost.** `InHand`: what the pass holds is what is in the register,
unless the host wrote it since (`dirty`). `Kept` is the property for each stage of
a command. `Aged` orders the versions: upper limit, then what the pass read of it,
never younger than the lower one, while nothing is lost. `Coherent` carries what
the pass has decided from the test to the last write.

**EcFlash.** `Kinds` and `Owners`: which stages belong to which command, and that
a marker is gone before a write touches the chip. `Promised`: an armed or
consumed marker finds its range in place and the chip idle, the last because a
busy chip could still change it. `Progress`: blocks behind the one at hand hold
the image, what is in flight concerns the one at hand. `Debts`: what is worse
than found is remembered in a flag of the command that the way out looks at, and
the stages at which none is owed. `Undone`, `Buffers`, `Stopping` do the same for
the EC, the two buffers of a dump and the stop flag, and `Cutting` says that a
read is cut only by a command that has changed nothing. The refinement of
GuardedReset is proved by kind of step: `ContentSteps` (the chip changes only
while nothing is promised, from `Promised` and `Owners`), `MarkerSteps` (the
marker is armed for a range that `Progress` knows to be in place), `CommandStep`
(a command that touches neither: it goes on, sends the reset or is past it) and
`MachineSteps` (deaths and boots give up what was called in).

**FollowProtocol.** `Synchronised`: while the tool works, the EC is where the step
at hand expects it, so only a failure can part them; `Opening` covers the first
byte of the quiescing, which finds the EC anywhere and, whatever it is taken for,
leaves it waiting for a command. `Closing` counts the closing writes that
are due, `Started` says which stages mutate, `Cut` follows an EC left in the
middle of a pair through the way out. `Strays` is the whole list of bytes it may
take for an opcode, from which `NoStrayMutation` follows. The lemmas on
transactions (`PartsUncounted`, `Joined`, ...) say of every one of them that only
its pairs send selectors.

**ImageFiles.** The demand of each generator for one base image (`GeneratorsFit`)
keeps hooks and cave together in what it makes (`Pure`). Everything else that
lies in a file, on the chip, in a command's hands or is at stake in a loss of power is
accounted for: it joins to no image, or to one whose hooks match, or it is a
mixture on record (`Sound`, `AllSound`). Two lemmas carry this: an image cut into
blocks joins to itself (`CutJoins`), so that a generator, which takes nothing but
its base image, never starts from a mixture; and fewer blocks than the whole, or
a block of scrap among them, join to nothing (`FewerBlocks`), so that torn files,
dumps of a part and blocks just erased need no record. `NextBlockKeeps` ends a
write: its last block makes the chip the file, which was accounted for, or a
mixture. `RunInv` says what the command in progress has at stake, `AtStake` that
what is saved is all a loss can leave.

**I2ecPort.** Only the holder of the lock is in a session (`Exclusive`), whoever
accesses a port has an access left to make (`Loaded`), the latches a session has
set hold its address (`LatchesFollow`, which needs `Exclusive`), and what a client
in session has seen is what memory holds (`SeenIsMemory`, which needs both: no
other client is in a session to write, and its own write lands where it says).
`Isolation` does not follow from `ByteReached`: were the lock held for an access
instead of a session, each access would still reach its byte and another
client's write could fall between a write and its read-back. `Halves` shows that
an address split into two bytes is put together again.

**SbsMailbox.** `Suspended`: an interrupt leaves the main line where the
assumption lets it be. `Locked`: state 02 is the lock, and none but its holder is
between claim and release. `Numbered`: a window only opens while the count is
below `CommandCount`, which makes the bounds of the record and rests on no
interrupt seeing it while it is cleared. `AskedFor`: scans, the doorbell and an
acceptance under way together were asked for. `Bits` and `Filled` relate bits and
words to the count, `Complete` says that nobody writes under `C3`, `Guarded`
where the stock result is, `Snapshot` that what was read under `C3` is still
there. `Answered` follows a request from the ring to its words: it is on the
doorbell with no scan about to end, or being accepted, or all words behind the
count are younger. The refinement of Mailbox needs that no window opens before the
first scan (`Begun`) and that no word is older than its scan (`Dated`); `Publish`
is the one step that posts, and `Filled` and `Bits` make the post whole.

Model-checked only: the liveness properties (`SettledLimitsRest`, `Converges`,
`OnlyDumpsHang`, `DoorbellAnswered`, `SessionsEnd`), which are out of the
prover's reach, and the violations of section 4.

## 6. Not modelled

- Wording, argument parsing and printing; the write lock `--confirm`.
- Reads of an idle chip return what it holds; a bus that corrupts data is not
  modelled. Protection bits are cleared and otherwise not looked at.
- Two `ec-flash` commands at once: nothing prevents it, and it would mix the
  bytes of their transactions. What the EC makes of the mixture is not known, so
  there is nothing to be faithful to.
- That FollowProtocol refines EcFlash. Their granularity differs on both sides (an
  operation of EcFlash is many bytes here, the chip's state is not here at all);
  the failure `Access`/`AccessFails` of EcFlash is what FollowProtocol explains.
- A watcher that is interrupted while it still waits in `flock` (it then opens
  and closes the port without a sample), and torn two-byte reads, which the lock
  does not prevent: the firmware changes its memory at any time. The comparison
  of samples and its display are not modelled either; the battery monitor is
  therefore listed as partly modelled.
- The decoding of a mailbox record for display, the protocol of v3 to v11: v11 is
  in ImageFiles as an image, its cave is superseded by v13, which has the same
  mailbox and more of it.
- The two-pass assembler in each generator (`Code`): the model is of
  the code it emits. The encoding of opcodes and relative jumps is checked by the
  generators themselves against the image digest.
- `tools/analysis`: offline text transformations without state; packaging: build
  recipes.

## 7. Order of work and what is left

Modelled in the order of what a mistake costs: the policy and its persistence,
ec-flash and the marker, the host tool, the port, the mailbox, the bytes of
Follow Mode, the image files. What a next step would take up: the v11 cave, an abstract
specification of ImageFiles, and a ranking by which every step of a write leads
nearer to its end, the part of `OnlyDumpsHang` that is an action property.
