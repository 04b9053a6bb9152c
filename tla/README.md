# zvolrescue: specifications and proofs

zvolrescue reads volumes (and files) off damaged ZFS pools without importing
them: from devices that refuse reads, from images an imager could only take in
part, from pools with members missing. It writes nothing to the evidence. What
it produces is an image, a number (the exit code) and a record, and all three
are used later by people who cannot ask the pool again. This directory holds
TLA+ specifications of the parts where that can go wrong, the TLC configurations
that check them, and TLAPS proofs of what matters most in them.

Paths below are relative to `src/`; `dump.rs:452` is
`src/crates/zvolrescue/src/dump.rs`, line 452, and so on. `PROJECT.json` maps
every definition to the lines it translates.

    tlc -workers 2 -config read_any.cfg MCPoolReader.tla
    tlapm PoolReaderProofs.tla

## 1. The system

All tools (`zvolrescue`, `zvolcarve`, `zvolfiles`, `zvolreport`,
`zvoltimeline`) are short-lived single-threaded processes. No two threads share
state; the only thing that runs beside the main line is the signal handler,
which sets one flag and arranges for the second signal to kill. What is hard is
therefore not locking. It is what one step leaves behind for a much later one:
in memory (an incident, a closed device, a cached block, an error kept over
another) and on disk (an output, a state file, an index), across processes that
may end anywhere.

| Component (crate, files) | State it keeps | Operations | Talks to | Hard behaviour | What makes it correct |
|---|---|---|---|---|---|
| **Image writing and resume** (`zfs-read/zvol.rs`, `zvol-common/resume.rs`, `zvolrescue/dump.rs`, `SparseFile` in `zvolrescue-io/lib.rs`) | output file and its length; resume state file; digests; report of bad ranges; interrupt flag | `open`, one round of `extract_from` per block, `write`, `clear`, `finish`, the code of one volume | asks the block reader for every block; the next process reads the files | interrupts, kills, torn writes, a lossy state file, a full disk; runs that differ in their options | the state never vouches for what is not there; digests are of the file; exit 0 means the volume; an interrupted dump can be completed |
| **Medium ledger and OS reads** (`zvolrescue-io/lib.rs`, `medium.rs`) | incidents; the closed device; eight read windows per source; the imager's map | `read_at`, `read_at_salvaging`, `Ledger::record` | asked by the block reader; the ledger is shared by every source of the run | a refused read either ends the run or, with `--device-may-fail`, is skipped, up to a limit; nothing may be asked afterwards | the policy is kept exactly; after the stop no device is asked anything; a stop is exactly at the refusal that fills the ledger |
| **Block reader** (`zfs-read/zio.rs`, `dmu.rs`) | the block cache; the remembered stop; per call the errors so far | `read_block`, `read_gang`, `read_verified*`, `read_striped`, `salvage_dva`, `locate` | asks the sources; answers `extract_from`, the dataset walk, the file walk | redundancy nested in redundancy: DVAs, mirrors, gang children, pieces of removed vdevs, parity | a good copy is found; nothing with a checksum is delivered wrong; the fuller side is kept |
| **Striped layouts** (`zio.rs`, `zfs-ondisk/raidz.rs`, `draid.rs`, `indirect.rs`, `spacemap.rs`) | none | column maps, combinations to distrust, remapping | part of the block reader | combinations, boundaries, nesting | each column is on one device; every tolerable loss is reconstructed |
| **Pool binding** (`zvol-common/members.rs`, `zfs-read/pool.rs`, `bind.rs`) | which member is which leaf | assemble, removed vdevs, `--hints`, `--assume-member` | gives the reader its device list | stale labels, two claims to one slot, members that fail to open | no member takes another's place; a pool is refused when a feature is unaccounted for |
| **Dataset walk, timeline** (`zfs-read/dsl.rs`, `zap.rs`, `dump.rs` `find_dataset`, `list.rs`, `zvoltimeline`) | TXGs searched, what did not read at each; the last TXG walked | walk the DSL, fall back to an older TXG | block reader | falls back on an error, must not after a stop | the newest TXG that reads is used; what is missing is told; the events are what happened |
| **Run record** (`zvol-common/lib.rs`, `evidence.rs`, `dump.rs` `run`, `finish`) | exit code so far; evidence log | `after_extraction`, `end_run`, `end_early`, `append` | every tool ends through it | several failures compete for one number | the code is never better than the worst thing that happened |
| **Carving scan** (`zvolcarve/scan.rs`, `model.rs`, `zfs-read/carve.rs`) | index of candidates; per-member offsets in a state file | scan, interrupt, resume, merge | reads members directly | two files that must agree, written one after the other; limits; member errors | a resumed scan finds what one uninterrupted scan would |
| **Carved dumps, roots, zero point, space maps** (`zvolcarve/dump.rs`, `roots.rs`, `zeropoint.rs`, `zfs-read/pointers.rs`, `spacemap.rs`) | none between runs | rank candidates, dump one, find headers, find the base | `extract_from` | ties, wrong hints | a hint costs ranking, never the recovery |
| **File extraction** (`zvolfiles/extract.rs`, `objects.rs`, `zfs-read/zpl.rs`) | files written, hard links, manifest | walk a dataset's tree, copy, link | block reader | partial files, links to partial files, interrupts, strictness | the manifest says of every name what is in it |
| **Report and verification** (`zvolreport`) | none | build, sign, verify | reads the logs of the others | logs that several runs append to, clocks, files changed later | verify never passes what changed |
| **Labels lost** (`zfs-read/vdev.rs`, `zeropoint.rs`) | what one member is taken to be | labels, GEOM's sector, partition table, rings of uberblocks | pool binding | tables rewritten, labels of older vdevs, sectors refused | a base is used only where a checksum confirms it |
| **Parsers, compression, checksums, encryption, fixtures** | none | pure | everything | byte-level decoding | fuzzed and tested against golden data in the repository |

## 2. Plan

In order of how much a user depends on the behaviour; all of it is done.

| | Module | Subject | Run | Proofs |
|---|---|---|---|---|
| 1 | `DumpResume`, `ImagePrefix` | the image, its state file and the code of one volume over any succession of runs | `resume_any` | `DumpResumeProofs` |
| 2 | `PoolReader` | how a block is read: ledger, sources, redundancy, salvage, and the loop that asks | `read_any` | `PoolReaderProofs` |
| 3 | `DumpRun` | a whole `dump` run: opening, `find_dataset`, the `-r` loop, exit codes, the record | `bulk_run`, `bulk_loses` | `DumpRunProofs` |
| 4 | `CarveScan` | the resumable scan, its two files, the dumps that name a candidate by its id | `carve_any` | `CarveScanProofs` |
| 5 | `FilesExtract` | a tree of files, its manifest and status | `files_any` | `FilesExtractProofs` |
| 6 | `EvidenceReport` | from runs over logs to a report and a verdict | `custody_any` | `EvidenceReportProofs` |
| 7 | `MemberScan` | what one member is taken to be | `scan_any` | `MemberScanProofs` |
| 8 | `PoolMembers` | which member is which leaf | `members_any` | |
| 9 | `StripedLayouts` | raidz, dRAID, removed vdevs | `layouts_any` | |
| 10 | `PoolHistory` | the dataset tree over TXGs: walk, list, timeline | `history_any` | `PoolHistoryProofs`, from `PoolHistoryInvariants` |
| 11 | `RawSpace` | what raw space still tells: base, headers, candidates | `raw_any` | |

Four of the proof modules begin with what they need of natural numbers: least
and greatest members, induction over sets, functions defined by recursion.

What would come next: proofs for 8, 9 and 11, beginning with `BoundIsProven`; a
composition of `PoolReader` with `StripedLayouts`, so that salvage, gang blocks
and the ledger meet rows; several members in `RawSpace`.

How the modules meet. `DumpResume` and `PoolReader` meet in `extract_from`:
every outcome `PoolReader` can deliver for a block is one of the block actions
of `DumpResume` (4.4). `DumpRun` takes the outcomes of `DumpResume` as its steps
(5.1) and those of a walk, of which `PoolHistory` is the detail. `MemberScan`
ends where `PoolMembers` begins: a member with its labels, or without them and
with a base. `StripedLayouts` is one DVA of `PoolReader` on a vdev that is not a
disk or mirror. `RawSpace` is one chunk of `CarveScan` after another. The records
`EvidenceReport` starts from are what `DumpRun` appends.

Runs are of safety unless fairness is named. Properties that are proved for all
instances are not checked by TLC as well where that would tell nothing new; the
table in section 14 names them.

## 3. DumpResume: one image, any succession of runs

### 3.1 Model and code

One state is: the files as they survive a process (`file`, `flen`, `state`), the
process if there is one (`pc`, `img`, `strict`, `start`, `blk`, `digest`,
`firstBad`, `how`, `stop`) and the status of the last one (`code`). `owned`,
`pure` and `gaps` are history: no action reads them.

| Action | Code |
|---|---|
| `Open` | `dump_one` up to `extract_from`; `resume::open`: the state is believed if it is of this image and the output is long enough; else the output is created anew. The state file is not touched |
| `OpenFails` | `open` fails: exit 1 |
| `ReadBlock`, `ZeroBlock`, `SalvageBlock` | one round of the loop of `extract_from`: a hole or a block that reads; one that does not; one read in part. Each hashes the cell, calls the progress callback, and that may checkpoint the state (`Advance`) |
| `StrictAbort`, `MediumStop` | the two arms that leave the loop, with the bad block logged first |
| `WriteFails`, `FinishFails` | the sink returns an error: exit 3, the state neither written nor removed |
| `FinishImage` | the rest of the volume hashed as zeros, `set_len`, `sync_all` |
| `Settle` | `dump_one` after `extract_from`: the state is removed after a whole image, else written with the block to continue at; then `run`'s code |
| `Interrupt`, `Kill` | the first signal sets the flag; the second, or a crash, ends the process at any point, possibly inside a block write or a state write |

A block is one cell: zeros, an image's data, or data cut short. A digest is the
sequence of cells fed to it. The tail past the tree, holes and blocks of zeros
are all zeros that `SparseFile` does not write, which is why the output is
shorter than the image until `finish`.

The state file is `serde_json` written with `std::fs::write`: it may be kept,
written, or left unparsable at any write, and each is a disjunct of `WriteState`
or `Kill`.

### 3.2 Runs

| Run | Question | Result |
|---|---|---|
| `resume_any` | two images to one output, all faults at every step, and fairness | holds: `ClaimHolds`, `ExitZeroLosesNothingNew`, `StateRewindsOnlyToABadBlock`, `KeepsThePromise`, `InterruptedRunsComplete` |

`DigestFollowsFile` (the digest differs from the file only by zeros on blocks past
the resumed prefix) and `TypeOK` are proved instead (section 14).

The properties are what remains true beside differences 1 to 3 of section 15: an
exit 0 loses nothing that *this* run passed, and the blocks an earlier run gave up
all lie before the resume point; the state vouches for settled blocks as long as
it was written over this very output (`owned`, `pure`). `KeepsThePromise` states it
as an implementation: under the mapping `settled` = the blocks that hold the
volume's data or are known to be given up, `claim` = `blocks_done`, each step of
the dump is a step of `ImagePrefix` or leaves it alone.

**Bounds.** Three blocks, two images of one size: `a` with a hole in the middle,
`b` whose tree ends a block early, so that a resume point can fall before, on and
after a hole, in the last block and at the end of the tree. Two images are what
it takes for a state file of one to meet the output of the other. No bound limits
the number of runs or faults.

**Fairness.** `WF(Open)`: an operator whose volume is not whole starts the next
run. `WF(FinishImage)`, `WF(Settle)`: a running single-threaded program goes on.
`SF(Visit)`: signals may come at any time but not *always* between the start of a
run and its first block; without it every run could be interrupted before it
did anything, and nothing the program does could help. `Interrupt` has no
fairness. `InterruptedRunsComplete` is for behaviours that are in the end
`CalmStep`s only: resumed runs of one image that meet interrupts, as many as
there are, and nothing else. Whatever came before - kills, torn writes, another
image, a run that gave up - is arbitrary. Endless kills are left out because a
kill may lose the progress since the last checkpoint (five seconds), so that they
can prevent completion in the code as well.

## 4. PoolReader: how a block is read

### 4.1 Model and code

One step is one read asked of one member, or the decision that follows from the
reads so far. What stays fixed for a run is the pool as it is found: what each
member is (`kind`: a device, an image, missing), what a read of each address
meets (`medium`: good, rotten, refused whole, refused in part, past the end),
whether reads that can be served always are (`steady`), the options, and the
volume: a list of blocks, each with the indirect blocks on the way to it.

| Layer | State | Operators and actions | Code |
|---|---|---|---|
| ledger | `incidents` | `Judge`, `Refused`, `Closed` | `medium.rs`: `record`, `stopped_on` |
| source | `windows` | `ReadAt`, `ReadAtSalvaging`, `Remember`, `AskSource` | `lib.rs`: the map, then the closed device, then the windows, then `pread` |
| leaf | `mediumStop`, `cache` | `ReadLeaf`, `SalvageLeaf`, `CachePut` | `zio.rs`: missing member, then the stop, then the cache, then the source |
| block | `stack`, `ret` | `TryLeaf`, `TryCandidate`, `JoinPieces`, `OpenGang`, `GangTooDeep`, `UnknownVdev`, `NoCopyLeft`, `ChildRead` | `read_raw_verified` and the `read_verified*` functions it dispatches to; one stack frame per call, so that `read_gang`'s recursion is a push |
| volume | `phase`, `level`, `err`, `sal`, `results` | `HoleBlock`, `StartBlock`, `BlockRead`, `TrySalvage`, `NotSalvaged`, `EndSalvage`, `EndExplain`, `Finish` | `extract_from`'s round: `locate` level by level, the data block, then `salvage` and `why_not_salvaged` |

The order of the tests in each layer is the code's, because the properties are
about it: a missing member is reported before a stop, a stop before a cached
block, the imager's map before the closed device. `MoreTelling` is
`more_telling`: a refusal is kept over what comes later, and a missing member
replaces nothing. `BlockAnswer` is the end of `read_block`: the stop wins over the
bytes, a mismatch over every other failure.

Sides of a mirror are tried until one verifies; the candidates of a removed vdev
and of a gang header are all read before any is looked at, as the code does.

### 4.2 Runs

| Run | Question | Result |
|---|---|---|
| `read_any` | four volumes, every kind of member, every two faults, every policy | holds: `AGoodCopyIsFound`, `OnlyUncheckedBlocksAreWrong`, `KeepsTheBestSide`, `NothingAskedAfterStop` |

**Bounds.** Two members are what a mirror needs and enough for every precedence
between two failures. The four volumes put each construct where the others can
meet it: mirrored data under a mirrored indirect block; a removed vdev whose one
piece went to a disk and the other to a mirror, as the second DVA of a block
whose first is a leaf; an unchecked and a sealed block; a gang of two, and gangs
in gangs down to the depth at which `read_gang` gives up (`MaxDepth` = 1 stands
for the code's own limit; both sides of it occur) with an unknown vdev on the
way, and a gang with a child that has no checksum. `MaxBad` = 2: any two of the cells and members may be bad, or one with
reads that fail at any time; the block with most copies in one DVA list has two
leaves or a leaf and three candidates, so every copy of most blocks can be lost.
`MayFailLimit` = 3 (8 in the code) is reached with two bad cells because a
refused address is asked for again. `WINDOWS` = 1 and `Budget` = 3 are far below
the code's 8 and 64 MiB on purpose: both overflow in the run. Nothing is
bounded by a guard: a volume is finite and
each block's reads are.

### 4.3 Proved and model-checked

All of it is proved for every instance. `TypeOK` (with the bounds of the windows
and the cache), `LedgerKeepsPolicy` and `StopWinsOverTheBlock` are not run as
well; the four properties of `read_any` are. `StopWinsOverTheBlock` covers every
phase: once a refusal has stopped the run no block is delivered whole, whether a
copy was good before, or sits in the cache, or a salvage is under way that still
has sides to try. A salvage in progress ends with what it had kept (in part, empty
or zeros), none begins, and after it come only holes, until the volume ends or
the next block to be read ends it with `stop`.

The proofs corrected two of them. `AGoodCopyIsFound` counted on a gang block with
a checksum whose child has none: the code takes the child's first copy as it
comes, and if that one is rotten the whole gang fails though a good copy is
there (`Fit`). `KeepsTheBestSide` holds up to `StoppedAt`: a block whose device
refused a read can still come to be salvaged (difference 10 of section 15), the
salvage asks the device again, and that refusal may stop the run before an image
that holds part of the block is asked. Both needed pools that no run had; the first is now one of
`read_any`'s volumes.

### 4.4 How it meets DumpResume

| `results[k].got` | `DumpResume` |
|---|---|
| `"hole"`, bytes | `ReadBlock` |
| `"zero"` | `ZeroBlock` |
| `"part"`, `"void"` | `SalvageBlock` (with nothing kept, the cell is zeros) |
| `"aborted"` | `StrictAbort` |
| `"stop"` | `MediumStop` |

`StopWinsOverTheBlock` is what makes `MediumStop` of `DumpResume` right: no block
goes to the image whole after the stop. The one during whose salvage it came is
`SalvageBlock` or `ZeroBlock`, and `MediumStop` is the next block that has to be
read.

## 5. DumpRun: from the command line to the status

### 5.1 Model and code

| Phase | Actions | Code |
|---|---|---|
| open | `BadArguments`, `OpenMember`, `AssembleFails`, `Assemble` | `open_members`: one member at a time, and the end of the run as soon as a refusal stopped it; features, hints, assumed members |
| choose | `ChooseFails`, `Choose` | `refuse_if_evidence`, `choose_pool`, no verified uberblock |
| search, found | `PoolUnreadable`, `PoolRefused`, `Walk`; `DatasetReads`, `DatasetUnreadable`, `DatasetRefused`; `NotFound` | `find_dataset`: a TXG is passed over when its pool does not read, when its tree has not the name, or when the dataset does not read there; any `Medium` error ends the search |
| targets | `NoDirectory`, `Targets` | what is extracted, and to which file |
| loop | `SkipNotVolume`, `Locked`, `VolumeUnopened`, `OutputUnopened`, `ExtractionFails`; `ExtractWhole`, `ExtractPart`, `ExtractStopped`, `ExtractInterrupted` | one target: the ways `dump_one` fails, then the ways it reports |
| finish | `Manifest`, `Finish`, `EndRun`, `EndEarly` | the manifest, `finish`, `end_run`, `report_medium`, the evidence log |

`Interrupt` may come at any time. A step that reads is `Answered` (some refusals
may have been skipped on the way), `Refused`, or `Tolerated` where the code goes
on whatever happens (the walk, the scan of a member); all three move the same
ledger. A TXG may be `hurt`: then any part of it may fail to read, and the walk
may leave out any datasets or find them without their kind.

The four `Extract` actions are the ends of an extraction in `DumpResume`: whole,
with blocks given up or cut at the first (`part`), stopped, interrupted;
`ExtractionFails` is its `WriteFails` and `FinishFails`, `OutputUnopened` its
`OpenFails`. That a volume is reported whole only if it is, is `DumpResume`'s;
what the run makes of several such reports is checked here.

The file of a volume in a bulk run is its name with every `/` as `_`; the model
keeps only what follows from that, that two names may have one file.

### 5.2 Runs

| Run | Question | Result |
|---|---|---|
| `bulk_run` | every failure at every step, with and without `-r` and `--device-may-fail` | holds: `CodeNeverFlatters`, `BulkKeepsEveryVolume`, `RecordAccountsForOutputs`, `SearchReachesWhatReads`, `NothingTouchedAfterStop` |
| `bulk_loses` (`BulkIsComplete`) | "Extract every volume under dataset" (`man/zvolrescue.1:257`) | violated: a directory of the tree does not read, the walk leaves it out, the run ends with 0 |

`BulkKeepsEveryVolume` is what is left of the promise: over a walk that found
everything, 0 means an image for each volume that has its file name to itself.
`RecordAccountsForOutputs` names two exceptions the code has: an extraction that
failed leaves an output the record does not name (the status is then at least 3),
and of two volumes with one file name both are on record, the file holding the
later. `SearchReachesWhatReads` is for runs without refusals: with
`--device-may-fail` a refusal that is skipped ends the search just the same
(`dump.rs:223`, `251`). `CodeNeverFlatters` leaves out status 1: when the log
cannot be written the status is 1 whatever the code was. `InterruptEndsTheLoop`
(proved, not run) counts extractions that came to a report: an interrupted one whose output cannot
be finished is an error, and the loop goes on.

**Bounds.** Two members (one may fail, or all), two TXGs (the dataset is gone in
the newer), a filesystem, a snapshot, and three volumes: two with one file name,
one of these locked, the other without blocks. Three targets after the root are
what it takes for one volume to stop or interrupt a run, another to come after
it, and a third to share a file. `MayFailLimit` = 2 (8 in the code) lets a run
skip one refusal and be stopped by the next. Nothing is bounded by a guard.

## 6. CarveScan: one workspace, any succession of scans

### 6.1 Model and code

The state is: the two files of the workspace (`index`, `state`), the output and
resume state of dumps made from it (`image`, `dump`), the scan if there is one
(`phase` and the variables after it), and the status of the last run (`exit`).
`rescanned` and `mishap` are history.

| Action | Code |
|---|---|
| `Resume`, `OddStart`, `Begin` | `run` in `scan.rs` up to the loop: with `--resume` each file is taken up by itself, one that does not read counts as empty |
| `NoScan` | every early return before the loop |
| `MemberAbsent`, `PutOff`, `TakeUp` | one member of the loop: it did not open (its offset becomes 0), or the flag is set (it keeps its offset), or it is scanned from its offset |
| `ScanInterrupted`, `ChunkSkipped`, `ChunkRead`, `ChunkCapped`, `MemberRead` | one round of `scan_member`'s loop, in its order: the flag, the read, the passes over the chunk, the cap; a scan that stops early stops *before* the chunk |
| `Leave` | what `run` does with a member's `Scan`: the hits are assessed (which reads) and added |
| `MembersDone`, `SaveIndex`, `SaveState` | sorting and numbering, `candidates.json`, `state.json`, the status |
| `IndexCutShort`, `StateCutShort`, `ScanKilled` | a write that fails, or the process ends there |
| `Interrupt` | the first signal |
| `Dump`, `Key`, `Id` | `run` in `dump.rs`: the candidate by its place in the index, and the key of its resume state |

The operator may run `scan` and `dump` in any order and number. A chunk with its
overlap reads or does not, for good (`bad`); after the medium's stop none does.
`Err` of `scan_member` (`scan.rs:391`) has no action: the function only returns
`Ok`.

### 6.2 Runs

| Run | Question | Result |
|---|---|---|
| `carve_any` | any scans and dumps, with signals, kills, failed writes, refusals | holds: `NothingForgotten`, `ExitZeroIsOnePass`, `DumpKeepsItsCandidate`, `ScansComplete` |

`TypeOK`, `ResumeOnlyAdds` and `OffsetsNeverFallBack` are proved and not run.

`NothingForgotten` is the reason a resume may start at the offsets: what they
have passed, and reads, is in the index. It holds between runs and all through a
run that resumes, whatever ends it. It does not hold after the three events
`mishap` records: a chunk passed over because of the stop rather than the disk;
an index cut short beside offsets of an earlier scan (the next resume starts
with no candidates at those offsets); a scan from the start that wrote its index
and ended before its offsets, beside an earlier state. `ExitZeroIsOnePass` is
what the status may then be taken to say.

**Bounds.** Two members of two chunks: an offset can be at, before and behind
every chunk, and one member can be finished while the other is put off. Two
candidates share the first chunk and a third the second, so that `MaxHits` = 2
fills within one scan; the third is the best and of the same shape as one of the
first, the last is on the other member. One chunk may be unreadable.
`MayFailLimit` = 2 allows one refusal before the stop. `MaxTrouble` = 3 bounds,
together, the signals, kills, failed writes and runs that are not the plain
`scan --resume` of all members as images: three are an odd start, something that
goes wrong in it, and something that goes wrong in the run after it. Resumes and
dumps are not bounded.

**Fairness.** `WF(Scan)`: a running single-threaded program goes on.
`WF(Resume)`: the operator resumes the scan some time. `ScansComplete` further
needs that trouble ends (`MaxTrouble`) and that no chunk holds more candidates
than the cap (`Fits`); where one does, each resume reads it again and stops at
it again (`carve.rs:573`).

## 7. FilesExtract: a dataset's files

### 7.1 Model and code

The dataset is fixed for a run: its objects with their kinds, directory entries,
hard-link counts, which metadata and blocks read. The output is a tree of names
over inodes, so that two names can be one file, a name can fold onto another and
a directory can be read-only.

| Action | Code |
|---|---|
| `OpenFails`, `Open` | `with_dataset`, `refuse_if_evidence`, the output directory, paths that lead nowhere |
| `TakeRoot`, `WalkEntry`, `WalkReturn`, `WalkEnds` | `zpl.rs` `walk_into`: depth first, `MAX_DEPTH`, a directory is not entered below itself |
| `EntryRefused`, `EntryDir`, `EntrySymlink`, `EntryLink`, `EntryFile` | one entry of the list in `extract.rs`: `safe_join`, the directory made, the link made, a second name of a file linked to the first |
| `CopyBlock`, `CopyStops`, `CopyEnds` | the copy of a file: zeros for what does not read, a write that fails, an interrupt inside it |
| `LastRoot`, `WriteManifest` | modes given to directories, `manifest.json`, the status |
| `ObjectSkipped`, `ObjectWritten`, `ObjectsEnd` | `objects.rs`: slot by slot, a large dnode owning the slots after it |

### 7.2 Run

`files_any` holds: `ManifestTells` (a digest in the manifest is of the file under
that name, in every state of a run), `StatusTells`, `ObjectsAreTheDataset` (the
slots a large dnode owns are passed over, nothing else that reads is).

`ManifestTells` leaves out a name asked for twice and the names of a file the
manifest was written over: a file `manifest.json` at the root shares its inode
with the other hard links to it (difference 20). `StatusTells` has two parts. A
run that nothing interrupted has a line for every entry of every directory it
reached (`NamesHaveLines`), provided every directory has one name (`TreeShaped`:
a directory under two names is walked under the first only) and as far as
`MAX_DEPTH` below a place asked for whose attributes read (below one whose
attributes do not, the walk has nothing to ask). A run that exits 0 read every
block of every file it has a line for (`FilesAreWhole`), on any dataset.

**Bounds.** Six objects, ten datasets: a file with a second name for the
`manifest.json` of the root; a tree with a file under two names in two
directories, one of them read-only, a symlink with the name of its directory and
a file named `manifest.json`; the same with blocks, attributes, ZAPs and spilled
bonus areas that do not read; a directory inside itself; names that fold onto one
another; a chain one deeper than the walk (`MaxDepth` = 1 stands for the code's
limit); slots of a large dnode. Each is listed, extracted whole, by one path and
by two, one inside the other, and written out object by object, by a superuser
and by others. The interrupt comes anywhere, the disk may fill up at any write.

## 8. EvidenceReport: from a run to a verdict

### 8.1 Model and code

| Actions | Code |
|---|---|
| `Work`, `Stamp`, `AppendHead`, `AppendEnd`, `Kill` | a tool hashes its evidence, writes its output and appends its record: `evidence.rs` `append`, which writes the record and the newline separately to a file others append to |
| `BuildBegins`, `BuildReads`, `BuildHashes`, `BuildRefused`, `BuildWrites`, `BuildSigns`, `BuildFails` | `build.rs` `run`: logs read one after the other, then hashed by a second read; a line that does not parse refuses the log; the order of commands; the outputs' last hashes; the warnings; `report.json`, then the signature |
| `Edit`, `Relocate`, `Meddle` | anyone changes the report, copies evidence and outputs under other roots with or without their directories, or changes a file |
| `Verify` | `verify.rs` `run`: the signature, the evidence and the outputs where `locate` finds them (`--evidence-root`, `--outputs-root`: either, both or none), the status |
| `Tick`, `StepBack` | the clock |

### 8.2 Run

`custody_any` holds: `NothingLeftOut`, `AlarmsAreReal`, `PassIsGenuine`. 3.2 million
states.

`PassIsGenuine` speaks of both halves of a report, under whichever roots the examiner
gives. An output that has a hash is there as a run recorded it under that path. A
piece of evidence that any run hashed is there as *every* run that hashed it saw it
or, where the report warns that it changed, as one of them did: the report keeps the
first hash (`build.rs:182`), so what a later run saw may be gone, and only the
warning says so.

**Bounds.** Two runs (one of each kind of work, or two of one) by two tools that
run at one time, two logs, one build, two outputs with one file name in different
directories, one clock tick and one piece of trouble (`MaxTrouble`): a second of
any of these only repeats what one shows, except for two pieces of trouble that
hide each other, which the run does not have. Tools are symmetric: nothing orders
them. The clock stands still once the last record is stamped, since nothing reads it
after.

## 9. MemberScan: what one member is taken to be

### 9.1 Model and code

A member is its units of 256 KiB; a label verifies only where it is read at the
offset it was written for, which is all a checksum is here.

| Actions | Code |
|---|---|
| `LoseConfig`, `LoseRing`, `Refuse`, `LoseTable`, `Repartition` | what happens to a member before it is read |
| `ScanLabels` | `vdev.rs` `scan_device`: four labels of the member as it stands, `pick_best_label` |
| `TryGeom` | `zeropoint.rs`: the provider GEOM recorded in the last sector |
| `ReadTable`, `TryPartition` | GPT, its backup, or MBR; each partition in its order (`Before`: those of ZFS types first), the first with a verified configuration is taken |
| `NotSearched`, `SearchFinds` | the search for rings of uberblocks at both ends, refused for devices unless asked for; the base four rings agree on |

### 9.2 Run

`scan_any` holds: `BaseIsProven`, `AConfigurationIsFound`, `RingsStandIn`.

**Bounds.** Fourteen members cover each way a vdev may be on a disk; an old vdev
of the whole disk under a new partition gives labels of both. `MaxDamage` = 4 is
one piece of damage for each of four labels, or for the labels, the table and a
unit together. `Edge` = 4 units (64 MiB in the code) against members of up to
twelve: one has its vdev beyond the edge.

## 10. PoolMembers: which member is which leaf

### 10.1 Model and code

The history of the pool is ZFS's: `Change` attaches, detaches, replaces, unplugs,
plugs in and removes; each TXG writes the labels of the disks that are there and
rows of metadata over the columns. `Recover` gives some of the disks to
`open_members`, some of them without their labels.

| Actions | Code |
|---|---|
| `NothingOpened`, `RefuseUnaccounted` | no member opened; `refuse_unaccounted_features` |
| `AssembleLabels` | `pool.rs` `assemble`: by pool guid, the newest tree of each top-level vdev, superseded devices set aside, gaps for holes |
| `TakeLayout`, `UseLayout`, `SearchLayout` | `--hints`: a layout stated, completed, or searched for by reading (`hints.rs`, `members.rs` `search_layout`) |
| `NoteRemovedTops` | `removed_tops_of`: the MOS of a readable pool names the removed vdevs |
| `BindNamed`, `BindByReading`, `NoTaker` | `bind_assumed`: a leaf named with `--assume-member`, or each vacant slot and each base tried by walking the pool with and without the member (`bind.rs`) |
| `ChoosePool` | `choose_pool` |

### 10.2 Run

`members_any` holds: `AssemblyIsThePool`, `ReadableTells`, `BoundIsProven`,
`OrderIsFound`.

`BoundIsProven` is for metadata in which each column tells on its own: where each
block has one data column, parity repeats it, several columns read alike, and the
code binds one of them. It is also not for a member that was bound already, which
`--assume-member` does not check.

**Bounds.** Three pools: a mirror of disks 1 and 2 beside disk 3, with a member of
another pool (5) and a spare (4); a raidz of 1 to 3 whose rows have one and two
data columns, with a spare; and a raidz of rows with one data column. Three TXGs:
a disk is out for one, changed in the next, back in the third. One disk without
labels, one `--assume-member`, bases 0 and 1. Left out: groups within groups in a
layout, refusals, the limit on orders searched (a raidz of three has six).

## 11. StripedLayouts: raidz, dRAID and removed vdevs

### 11.1 Model and code

`Write`, `RemoveVdev`, `Lose` and `Rot` are the pool's and the world's: a block is
placed sector by sector, by a numbering of the vdev's sectors that owes nothing to
the column maps of the program. `Open` is what the reader knows (the mappings of
removed vdevs and the top-level vdevs the labels describe), `Read` is
`read_raw_verified` for one DVA: `raidz::map`, `draid::Config::map`, the columns
read, the combinations distrusted, reconstruction by Gaussian elimination over
GF(2^8), `Mapping::remap` and `remapped_candidates`.

### 11.2 Run

`layouts_any` holds: `TolerableLossIsRead` (no row has more bad columns than
parity, rot in one row only), `MovedBlocksAreRead`. 3.4 million states.

**Bounds.** Six pools: raidz1 of three, raidz2 of four with a replacement under
way, raidz3 of five; dRAID1 with groups of two data columns whose spare stands
beside the disk it replaces, dRAID2 with the spare alone in its slot; two mirrors
and a disk of which two vdevs may be removed, one onto the other. `RowHeight` = 2
and `SwapEvery` = 4 make a block cross both boundaries; offsets are at, before and
after them. `MaxNesting` = 1 (8 in the code) has mappings on both sides of it.
`MaxLost` = 3 is the most parity there is, `MaxRotten` = 2 adds rot beside it.

Not included: salvage, several DVAs (`PoolReader` has both on leaves and mirrors),
gang blocks, refusals, truncated mappings, reads without verification. Way *k* of
a moved block takes the *k*-th side of every piece: sides are not combined across
pieces, and the property says so.

## 12. PoolHistory: the dataset tree over TXGs

### 12.1 Model and code

`Admin` is a command on the pool (create, snapshot, clone, rename, resize,
promote, destroy, write), each a TXG with a new set of objects, numbered from the
lowest free number on; `truth` keeps what its user saw, by guid and with the path
each dataset has, and no command reads a path from the objects. `Free` hands back
what a destroy left behind. `Lose` takes one part of one object, as one TXG wrote
it, away from every TXG that still points at it.

A walk is the function `Calls`: one call of `walk_dir` after the other, over what is
still to be walked (`todo`), what was entered (`seen`), what was described (`sets`)
and the errors. It is over after as many calls as there are directories.

| Actions | Code |
|---|---|
| `ReadTxg` | one TXG of `zvoltimeline` `report.rs`: `open_mos`, `walk` (`walk_dir`, `describe`, `snapshots` with their errors), `events.rs` `diff` against the last TXG walked, the command to recover what is gone, `pending` |
| `ListNewest`, `ListExact` | `zvolrescue list`: the newest TXG whose tree reads, or the one asked for, and the status |

### 12.2 Run

`history_any` holds: `HistoryIsTheScript`, `RecoverFindsIt`, `PendingIsHeld`,
`MissingIsTold`. 174,366 states. The mutants are a timeline that compares by name,
a recover command for the TXG of the event, a list of freed blocks that counts as
empty when it does not read, and a head that is passed over without an error.

`HistoryIsTheScript`, `RecoverFindsIt` and `MissingIsTold` are proved for every pool,
every succession of commands and every loss (section 14); `PendingIsHeld` is
model-checked. `HistoryIsTheScript` is about TXGs that are `Whole`: every part a walk
needs reads, and no path is deeper than `walk_dir` goes (`MAX_DEPTH`, 64; ZFS itself
nests to 50).

**Bounds.** The pool starts with an encrypted volume, with or without a snapshot
of it, with or without a clone of that; two more commands (`MaxTxg` = 3) are what a
rename with a new dataset of the old name takes, a promote and a destroy, or a
destroy and the freeing of its space. `MaxGone` = 1: with one part lost, every
place where `walk` goes on after an error is met. New datasets are filesystems
(`Kinds`); the volume is there from the start.

Left out: objects of 32 in one block (each object has its blocks to itself),
ZAPs of several blocks, refusals, `--dataset`, `--from`, `--to`, hosts, and every
order: what a walk gives is a set, a name is looked up among all that have it
(`DatasetTree::get` takes the first; `RecoverFindsIt` says there is no other).

## 13. RawSpace: what raw space still tells

### 13.1 Model and code

The pool writes each TXG to free units and leaves what it replaced until the
rotor comes round; a metaslab's log is flushed every second TXG, so the maps lag.
One volume is used by a guest for a pool of its own, whose headers and pointers
look like the pool's. `Imaged` fixes the base of the partition, the shift, which
kinds of blocks are compressed, and a unit that does not read.

| Actions | Code |
|---|---|
| `Zeropoint` | `zvolcarve zeropoint`: a scan for dnodes, datasets and headers, their pointers as anchors, bases screened and confirmed, the coarsest step first (`pointers.rs` `search`) |
| `Roots` | `zvolcarve roots`: headers of object sets, with a layout the datasets under each, sorted and cut |
| `Scan`, `ScanLike` | `zvolcarve scan`: candidates by profile, strict or not, `--like` a dataset; their blocks against the space maps (`spacemap.rs`), their rank (`carve.rs`) and name (`scan.rs` `name_from_datasets`) |

### 13.2 Run

`raw_any` holds: `TrueBaseIsListed`, `RootsAreThePast`, `CandidatesAreToldRight`.
372,549 states.

`RootsAreThePast` says what a row without an error is worth: it is of one TXG, and
every dataset of that TXG is in it but those in a part of the MOS that is lost. A row
that is short does not say so (difference 18). A TXG whose header and object
directory read has a row, except where the header was written compressed, where the
end of a chunk cuts it, or where the rows kept list no fewer datasets.

**Bounds.** Fourteen units in two metaslabs, two volumes of two blocks, five TXGs: the
rotor comes round and reuses the first TXGs' places while their pointers are still
about. The MOS is a header over two blocks: the first has what a walk begins with (the
object directory), the first volume and the array that says which metaslabs have a
map, the second has the maps and the other volume (`Late`). The first is written
again only when it changes, so that several headers share it; with one unit lost
(`MaxRot`), a walk can fail, come out short, or read whole, and the space maps can be
lost with the vdev, in part, or not at all. Bases 0, 1 and 2 are aligned and
unaligned at the shifts tried (0 to 3). A scan reads `Chunk` = 4 sectors at a time:
headers lie across the end of a chunk at some bases and not at others.
`Screen`, `Keep`, `MaxHits` and `MaxRoots` are small enough that each cuts
something off; `Confirmations` and `Window` keep their relation to them. Each
command runs once on an image: it keeps no state between runs.

Simplified: one member, one disk vdev, blocks of one allocation unit, a volume's
object set and its array of dnodes in one block, one DVA, a perfect checksum. What a
walk asks for on the way below the object directory (DSL directories, datasets, child
ZAPs, `dsl.rs:706`, `732`, `742`) is one block: that each such loss leaves out what is
below it and no more is `PoolHistory`'s `MissingIsTold`. Left out: refusals, interrupts, resuming (`CarveScan`),
`contents_of`, `--sample`, formatting.

## 14. Proofs

| Theorem | Property | Holds for |
|---|---|---|
| `TypeCorrect`, `ClaimAlwaysHolds`, `DigestAlwaysFollowsFile`, `ExitZeroIsSafe`, `StateSeldomRewinds` | `TypeOK`, `ClaimHolds`, `DigestFollowsFile`, `ExitZeroLosesNothingNew`, `StateRewindsOnlyToABadBlock` | every number of blocks, set of images, placement of holes, combination of faults and options |
| `DumpKeepsThePromise` | `KeepsThePromise`: `DumpResume` implements `ImagePrefix` | the same |
| `TypesAndBounds`, `LedgerAlwaysKeepsPolicy`, `NoBlockIsSilentlyWrong`, `StopIsFinal`, `StopIsNeverOverridden`, `KeepsTheBestSideHolds`, `AGoodCopyIsFoundHolds` | `TypeOK`, `LedgerKeepsPolicy`, `OnlyUncheckedBlocksAreWrong`, `NothingAskedAfterStop`, `StopWinsOverTheBlock`, `KeepsTheBestSide`, `AGoodCopyIsFound` | every pool geometry, block pointer, nesting of gangs, volume and limit |
| `RunTypes`, `CodeNeverFlattersHolds`, `BulkKeepsEveryVolumeHolds`, `RecordAccountsForOutputsHolds`, `SearchReachesWhatReadsHolds`, `InterruptEndsTheLoopHolds`, `NothingTouchedAfterStopHolds` | `TypeOK`, `InterruptEndsTheLoop`, the invariants and the action property of `bulk_run` | every number of members and TXGs, set of datasets held at each TXG, naming of outputs and limit |
| `ScanTypes`, `NothingForgottenHolds`, `ExitZeroIsOnePassHolds`, `DumpKeepsItsCandidateHolds`, `ResumeOnlyAddsHolds`, `OffsetsNeverFallBackHolds` | `TypeOK`, `ResumeOnlyAdds`, `OffsetsNeverFallBack`, the invariants of `carve_any` | every number of members, chunks and candidates, every placement and ranking, cap, limit and pattern of unreadable chunks |
| `ExtractTypes`, `ManifestTellsHolds`, `StatusTellsHolds`, `ObjectsAreTheDatasetHolds` | `TypeOK`, the invariants of `files_any` | every dataset, damaged in any way, every set of names with any folding, every depth of the walk and command line |
| `ReportTypes`, `NothingLeftOutHolds`, `AlarmsAreRealHolds`, `PassIsGenuineHolds` | `TypeOK`, the invariants of `custody_any` | every number of tools, logs, runs, builds and mishaps, every work, evidence and output |
| `ScanInvHolds`, `BaseIsProvenHolds`, `AConfigurationIsFoundHolds`, `RingsStandInHolds` | the invariants of `scan_any` | every member whose labels were sealed where they lie, every table, every width of the search, any number of damages |
| `HistoryIsSound`, `HistoryIsExact`, `TimelineIsTheScript`, `RecoverIsFound`, `MissingIsAnError` | `PastIsSound`, `PastIsExact`, `HistoryIsTheScript`, `RecoverFindsIt`, `MissingIsTold` | every number of TXGs and objects, every set of names, every succession of commands, any parts lost |

**Assumptions.** `DumpResume`: `N` is a natural number, no image is `NoImage`, a
tree reaches at most `N` blocks, holes are blocks. `PoolReader`: DVAs have the
shape the parser gives them (a leaf, a removed vdev and a gang header have at
least one candidate, a gang header at least one child), a volume's blocks name
pointers, the limits are at least one. `DumpRun`: there is a member, a TXG and
room for one refusal; what a TXG holds is a sequence of datasets with different
names; each name has an output. `CarveScan`: there is a member with
a chunk, candidates are finitely many, each starts in a chunk, and no two have one
score (ties are broken by the earlier id in the code). `FilesExtract`: a directory
has a name once (a ZAP does), a slot marked as inside is owned by a large dnode and
what a dnode owns is marked so, a dnode and the slots it owns read together (they
are in one block of the object), and `extract` walks to the bottom (`main.rs` has no
option for less). `EvidenceReport`: there is a log, no path is evidence and an
output, outputs are not the model value for nothing. `MemberScan`: a vdev has room for four
labels, and what a member holds of a label lies at one of the four places of a
vdev that was on it (`Sealed`: ZFS seals a label with its offset in its vdev).
`PoolHistory`: names of datasets and of snapshots are finitely many, none is
`$ORIGIN` (ZFS refuses it), what is created is a filesystem or a volume, the bounds
are natural numbers. TLC evaluates all of them in the runs.

**DumpResume's invariant.** None of the properties is inductive. `ClaimHolds`
speaks only of `owned` and `pure` states and needs to know what is true of a run
in progress: that every block behind it is settled if the output is pure
(`BehindTheRun`), that no cell of another image is in a file this run created
and that blocks ahead of a fresh run are still zeros (`NothingStray`,
`FreshAhead`: a hole is settled without being written), where a run is and where
its first bad block can be (`RunInBounds`), and which way `extract_from` ended
(`HowItEnded`). With them a visit settles exactly one block
(`AVisitSettlesItsBlock`), a tear is past the claim (`ATearIsPastTheClaim`), and
`Settle` claims no more than is behind the run. The refinement follows step by
step from the same invariant.

**PoolReader's invariant.** `LedgerKeepsPolicy` is nearly inductive: a leaf asks
only while the stop is not remembered, that is, while the ledger is not full.
`OnlyUncheckedBlocksAreWrong` is not: bytes travel from a leaf through frames of
the stack, so `CallsNest` says what is on it (every suspended call waits for a
child of the gang it is in, the outermost is for the pointer the block loop is
at, and what any call returns has passed *its own* checksum), and
`SalvageIsPlaced` says where a salvage is. The gang case is where it matters: a
parent joins children that each verified, and must verify the join itself.
`NothingAskedAfterStop` follows from the ledger's clause alone.
`StopWinsOverTheBlock` needs that a salvage the stop came into holds no whole copy
and gets none (`NoWholeCopyAfterStop`): a copy that reads whole ends the search of
the salvage at once, so the refusal found none, and the stop comes before the cache
and the image in every later read.

`KeepsTheBestSide` needs what a salvage has gone past: the best copy so far is no
worse than any partial one behind it while the run is not stopped (`BestSoFar`),
and after a block left empty against an image that holds part of it nothing but
holes and the stop is delivered (`EmptyIsLast`). `AGoodCopyIsFound` needs what every
call on the stack has gone past: the DVAs it gave up cannot give the block, the
leaves it tried are not good, and a good header or piece was seen as good
(`NothingGood`, with as many levels of gangs to go as the stack leaves room for);
what it returns as a failure is of a block that cannot be had (`MissNothing`); and
each call is for the child the one below it waits for (`Chained`), so that a
child's failure is its gang's (`ChildDecides`). `Stands` says that wrong bytes in a
gang come only from a child without a checksum. What can be had, `Obtainable`, is a
function defined by recursion over the nesting; that it satisfies its equation
(`ObtainableIsARecursion`) is what `RecursionIsDefined` is for. All of it holds up
to the stop: from there on the block in hand is delivered as stopped.

**DumpRun's invariant.** What is claimed of the record and the status speaks of
the end of the run, so the invariant says what has to be true on the way there:
the code covers each volume put down so far (`CodeCovers`), the reports agree
with the outputs as they are (`ReportsFollowFiles`), under code 0 each target
behind the loop has its image (`KeptSoFar`), nothing is done before the loop
(`PhaseFacts`) and the volume that counts under the flag is its last
(`LateIsLast`). `HowARunEnds` then says of every ending, whichever `return` it
is, that its code is no better than the run's. `KeptSoFar` is where the file
names matter: a later volume leaves an earlier image alone only because the two
do not share one (`Alone`), and the targets lie under the dataset.
`NothingTouchedAfterStop` needs no invariant.

**CarveScan's invariant.** The properties speak of the files, the invariant of
what will be written to them. `FilesAgree` says when the files may be trusted, at
any point a run may end; it is kept because `RunGoesOn` says that the candidates
gathered cover the offsets gathered *and* the offsets taken up (a member that is
put off falls back on those), and because `MemberGoesOn` says that the hits cover
a member up to the chunk it is at (a member may be left before any chunk). Both
are conditional on no `mishap`. That `complete` at the end means every offset is
at its end is the last clause of `RunGoesOn`. `OneCandidate` needs that ids are
different: two places in a ranking differ in the number of those before them
(`IdsDiffer`).

**FilesExtract's invariant** has two halves. The first is about the host's tree.
That a digest is of the file under its name could fail because names share
inodes: what is written under one name is written under all. `NamesApart` says
that two names share an inode only where both lead to one object that has been
written; `FirstsStand`, that its first name still holds what was written under
it, which is what a later link takes its digest from; `DigestsStand`, that every
digest but that of the file being copied is of what is there. A file is created
only where its name is not there yet or leads to an object not yet written, so
a write disturbs no name but its own (`CopyIsPlaced`); the one exception is
`fs::write` of the manifest. `LinesTell` relates a line's errors to what reads.

The second half, `WalkInv`, is for `NamesHaveLines`: every name either has a
line, or is listed, or is still to come from an entry some frame of the recursion
has left (`Covered`, `Pending`). The hard step is a directory that is not entered
because `seen_dirs` has it (`zpl.rs:686`): that loses nothing only if it was
entered under the same path. `WalksOnce` says that a directory is walked before
anything still to come leads to it, and `OneDepth` that in a tree all paths to a
directory are one path; it is proved by induction over the length of a path, as
`SetInduction` over the set of the lengths for which it holds. `FramesStand` says
how each frame is reached and that what is left of a directory is its end, so that
`MAX_DEPTH` is counted from the place asked for.

**EvidenceReport's invariant** says of every record, wherever it is, that a run
made it and wrote its output, and that no other output was written by that run
(`RecordsAreMade`), that what ended is whole in its log (`EndsAreThere`), that
what a build has read of a log is in it (`BuildReadsLogs`; logs are only appended
to), that every document built is drawn from commands in the logs
(`BuiltFromLogs`) and that a signature is of a document some build signed, or is
scrap (`SignaturesAreBuilds`). `AlarmsAreReal` then needs that a last command of an
output exists and comes after each of the others in the report's order
(`LastOfIsLast`), an order by time, log and line that no two commands share.

**MemberScan's invariant** carries what each phase has ruled out: the scan of the
member as it stands is at hand (`AsItStands`), no label of it verified, nor of the
provider GEOM recorded (`NothingSoFar`), nor of any partition no longer on the list
(`NothingTried`), and a scan that failed has a reason (`OnlyHalts`). Two lemmas turn
this into the properties. A label that verifies where it is read belongs to a vdev
that begins where the scan began (`VerifiedIsAtItsBase`), whichever vdev's labels
were about. And a label that survived does verify where its vdev is scanned, from
the front whatever the length given, from the end if that is the vdev's
(`LabelIsSeen`) - also where the member ends one unit before the vdev does, since
the fourth place is then the third label's. `AnchoredGivesTheBase` is about the
rings: with one in front of one vdev and none of another, the bases are one, and
a rear ring is confirmed because the front one comes before it.

**PoolHistory's invariant** is about the objects of a TXG, whether they still read
or not: `Sound(mos, live, t)`. Each directory but the root is the child of another,
with paths as `truth` has them (`Tree`: since paths differ, the directories are a
tree); each has a head, and each snapshot a place, of its own (`HeadsKnown`,
`SnapsKnown`); a clone's origin is a snapshot, older than any of the clone's own
(`Origins`); no two datasets have one deadlist (`Deads`); and every filesystem and
volume of `truth` is there (`Users`). Each command keeps it (`CreateKeeps` to
`OverwriteKeeps`): what the command does to the objects is said first as a predicate
of old and new (`IsGrown`, `IsSnapped`, `IsDestroyed`, `IsPromoted`, `IsMoved`), and
that each part survives is proved from the predicate alone. A rename needs most: it
moves a whole subtree, and `GoesDown` is the induction over the length of a path that
carries the new front to everything below. A promote needs `Origins`: the clone's
origin is older than the clone's snapshots, so it is not one of them, and what moves
comes from another head; a destroy needs `Deads`, since the deadlist it takes away must be no one else's.

The walk has two invariants of its own, each with the set of what it is done with.
`WalkInv` follows paths: each was reached from one that was walked, and none still to
come was, so no two datasets that were found have one name (`WalkNamesOnce`), also
when parts do not read and whatever `$ORIGIN` is taken for. `RecoverFindsIt` then
needs `TimelineInv`: what the timeline compares with is the walk of an earlier TXG
that read, and each destruction leads to it. Since nothing of the pool changes once
the timeline has begun, the walk a user does later is that walk (`Rests`, and the
lemmas that follow it). `CoverInv` follows directories: one that is done with has its
head described or an error in its place, and its children are done with, are to come,
or have an error above them; after as many calls as there are directories nothing is
to come (`WalkCovers`), and every filesystem and volume is told
(`NothingIsPassedOver`).

`HistoryIsTheScript` needs more of the objects than `Sound`: `Exact(mos, live)`. Every
dataset of a directory is its head or one of the head's snapshots (`SetsKnown`), what
its user sees of it is its kind, size and key, and of a head whether it is a clone
(`Portrayed`), no two have one guid and each guid of `truth` has one. A walk finds out
whether a dataset is encrypted by following `root` and whether it is a clone by asking
for the origin snapshot; `Roots` and `OriginKnown` say that these lead where they
should, and `PromotedIsExact` is the longest proof here: a promote turns two origins
round, and the root of every directory that had the old one.
From there it is a chain: a walk of a TXG that reads whole is the tree of its user
(`IsWholeTree`), the timeline compares the walk of the last TXG it read with this one
(`ScriptInv`), a dataset that is in both trees is of one kind and one key
(`UsersStay`, over any number of TXGs `KindsStay`), and the events of two such trees are
`Script`.

**Out of the prover's reach.** `InterruptedRunsComplete` and `ScansComplete`
(liveness under fairness) are model-checked only. So are the properties of the
modules of sections 10, 11 and 13, most of which say what a fold or a search over
data comes to: `StripedLayouts` inverts matrices and `MovedBlocksAreRead` follows
nested mappings by a recursive operator, `RawSpace` replays logs; and one of
`PoolHistory`'s: `PendingIsHeld` compares sums over sets of objects, which are folds.
The library's induction theorems take operators,
which the provers cannot put in their place; the proofs state induction over a set
and recursion over a function instead (the lemmas `SetInduction` and
`RecursionIsDefined`, which are mathematics and say nothing of the code).

## 15. Where the code and its documentation differ

`bulk_loses` is a run whose counterexample TLC prints. The others were met while
modelling, most as counterexamples of a property stated from the documentation
before it was narrowed to what the code keeps; they have no run of their own.

**Images and reading**

1. `DatasetTree.errors` is not looked at by `dump` (`dump.rs:670`), and a dataset
   whose kind did not read is skipped as "not a volume" (`dump.rs:703`) without
   touching the code, against "Extract every volume under dataset"
   (`man/zvolrescue.1:257`). **Run `bulk_loses`.**
2. The status speaks of one run's blocks only (`dump.rs:754`): zero a block,
   interrupt, resume behind it, exit 0; against "a script that reads only the
   status must not be told it is" the volume (`dump.rs:749`).
3. Creating the output anew does not remove the older state file
   (`resume.rs:148`): a run that gives the new output its length and is killed
   leaves that state beside a file of zeros, against "Blocks `0..blocks_done` are
   complete in the output" (`resume.rs:35`).
4. Zeros are hashed without being written (`zvol.rs:336`): over bytes a killed run
   left past its checkpoint the digest is not the file's.
5. A mismatch on one copy hides the partial read of another (`zio.rs:1552`), and
   the block is zeroed whole, against `docs/SPEC.md:214`.
6. A distributed spare is followed only where the child of the dRAID is the spare
   itself (`zio.rs:886`). In a pool it stands beside the disk it replaces under a
   `spare` vdev (`tests/golden/zdb-layout.py:68`), which becomes a mirror, whose
   spare side answers "distributed spare read outside its dRAID" (`zio.rs:746`): the
   rebuilt column is never read. `docs/SPEC.md:206` (F-25) says that distributed
   spares are implemented.
7. Mappings of removed vdevs are followed eight deep (`zio.rs:546`); OpenZFS has no
   such bound. A parity column that did not read is asked for again in the second
   pass of `read_parity`, against its "Once".
8. `mismatches` counts every failed attempt to reconstruct (`zio.rs:605`), the hints
   speak of "Blocks whose checksum failed on the data as first read".
9. `dump.rs:220` says that a device that refused a read "has stopped the run"; under
   `--device-may-fail` it may not have. A refused range is then asked for again
   whenever a pointer leads back to it, since only successes are remembered
   (`zio.rs:664`), against "each refused range is skipped once" (`medium.rs:18`).
10. A refusal that was skipped is forgotten when a later DVA is on an unknown vdev
    or its gang header fails, since these overwrite it (`zio.rs:1402`): if an image
    then fails to read, the block is salvaged and the device asked again, against "A
    device's refusal is never read around (N-10): with `--device-may-fail` the block
    is zeroed whole, once." (`zvol.rs:377`).
11. The images of `a/b_c` and `a/b/c` have one name in a bulk run (`dump.rs:678`),
    against "one image per volume" (`man/zvolrescue.1:261`). `dump.rs:797` speaks of
    "every image this run wrote"; one whose extraction failed is not among them.

**Carving**

12. What was not read because of a stop counts as read (`carve.rs:546`): a scan the
    medium stopped, resumed on an image as its message advises, starts such members
    at their end and exits 0, against "an interrupted scan resumed equals one pass"
    (`docs/COMPANIONS.md:248`).
13. A dump's resume state names a candidate by a number that the next scan gives
    anew (`zvolcarve/dump.rs:125`, `scan.rs:479`).
14. `scan` ends with 0 also when a member did not open (`zvolcarve/scan.rs:353`);
    `zvolrescue dump` ends with `EVIDENCE` (`dump.rs:582`).
15. A candidate whose first block's place was given to another dataset is named
    after that one, because only the place is compared (`zvolcarve/scan.rs:704`),
    against "The dataset whose objset still points at this candidate" (`scan.rs:658`).
16. The coarsest step at which anything is found ends the search, also when what
    was found is a guest's and the pool's own base needs a finer step, against "A
    coarser shift finds the same bases a finer one does" (`pointers.rs`). A base
    fails when its first four probes were overwritten or are a guest's; ties go to
    the smaller base; `zeropoint` always scans with ashift 12. Compressed blocks are
    looked for at steps from the front of the device, not of the vdev ("a block
    starts at an allocation boundary").
17. `roots` never finds a compressed header of 1 to 4 KiB: only sizes of 16, 32 and
    128 KiB are tried (`compress.rs` `check_size`). `--like` takes the size a volume
    was made with, `implied_size` is what was written: a volume with an unwritten
    tail does not match. `plausible_dnode` rejects data blocks that are no power of
    two, which OpenZFS writes for files of one block. `plausible_indirect` and
    `Reject::DvaOutside` are not used by the scan.
18. A row of `roots` without an error may be short of datasets: `tree.errors` is not
    looked at (`roots.rs:246`), and neither the row nor the status says that part of
    the MOS did not read, against "A header that yields nothing is still reported,
    with the reason it gave" (`docs/COMPANIONS.md:219`): one that yields less gives no
    reason. A header that is not compressed and begins in the last 512 bytes of a
    chunk is missed, since the plain pass has the chunk's own bytes only and a header
    takes 1024 (`carve.rs:314`, `561`), against "A block that starts near the end of a
    chunk has to be readable whole" (`carve.rs:510`).

**Files**

19. `objects` is for datasets whose names are gone (`objects.rs:3`) but needs the
    master node (`zpl.rs:162`). A dnode that does not read is passed over silently
    with status 0 (`objects.rs:71`), and so is what lies deeper than `MAX_DEPTH`
    (`zpl.rs:658`).
20. A symlink with `--path` fails (`extract.rs:457`, `docs/COMPANIONS.md:457`); a
    hard link asked for twice fails with "exists"; a hard link's count of errors is
    0 whatever its file's (`extract.rs:473`); a file `manifest.json` at the root is
    written over (`extract.rs:344`), and with it every hard link to that file
    (`extract.rs:472`), whose lines keep the digest of what is gone, against "every
    extracted path with size, mode, owner, times, SHA-256" (`docs/COMPANIONS.md:445`);
    a directory's mode is restored before its
    children are written (`extract.rs:509`).
21. `with_dataset` ends at the first TXG whose filesystem does not open
    (`common.rs:97`); `dump` falls back further.

**Records**

22. A log's hash is taken by a second read (`build.rs:333`, against `model.rs:21`): it
    may be of more than was reported. One torn line refuses the whole log
    (`evidence.rs:3`).
23. A clock set back, or two records of one second, make an older output "last"
    (`build.rs:143`). The TXG window is compared with the first pool that has one
    (`build.rs:248`, `285`). `locate` falls back to the bare file name, which two
    outputs may share.

**Members**

24. A listed partition shorter than four labels (a 512 KiB freebsd-boot) ends the
    scan of the whole member (`zeropoint.rs:392`), as does a refused sector of the
    table or a truncated image, against "falling back to the base its uberblocks
    confirm" (`zeropoint.rs:317`) and `vdev.rs:211`.
25. With no anchor found, the scan with an unverified label is returned and used at
    base 0 (against `zeropoint.rs:320`). Only the best base is tried.
26. Of two devices that claim a leaf the first given is taken, not the newest
    (`pool.rs:343`). Superseded devices still offer uberblocks; a stale member keeps a
    removed vdev described (`pool.rs:134`).
27. `--assume-member` does not ask whether the device is bound already. By
    elimination a member is bound that was never read (against `bind.rs:6`). All
    consistent candidates are reported, not "Only a candidate that makes the
    difference" (`bind.rs:102`); an ambiguous one is bound to the first
    (`members.rs:234`), against "so nothing is bound" (`bind.rs:271`). A read that was
    refused and skipped during a trial counts as proof. The search for an order
    settles one top-level vdev after the other (`members.rs:85`).

**History**

28. Where a walk loses datasets, the timeline reports live ones as destroyed, with a
    command to recover them: `tree.errors` is not looked at (`report.rs:131`), against
    "A dataset or volume that is no longer there." (`events.rs:25`) and
    `docs/COMPANIONS.md:111`. A property that does not read is reported as changed;
    an origin that does not read makes every dataset look like a clone.
29. There is no `promoted` event (`docs/COMPANIONS.md:111`, `128`), and the first
    failing block of a TXG is not reported (T-04).
30. `list` exits 0 with errors in the tree, and a list of snapshots that does not
    read is left out without one (`dsl.rs` `snapshots`).

## 16. Not modelled

- The on-disk parsers, checksums, compression and encryption: pure functions of
  bytes, fuzzed and golden-tested in the repository. In the models a block
  verifies or not, and opens or not.
- Of reading: gang headers of several sizes, sector arithmetic of a salvage,
  the parsing of a ddrescue map, pieces of a range, device probing (ioctls),
  tracing. `PoolReader` has them in its header; rows and removals onto removed
  vdevs are in `StripedLayouts`, apart from the ledger.
- Of members: the parsing of labels and tables, the syntax of a layout file,
  groups within groups.
- Of carving: `--range` and `--sample`, a list of members that changes between scans
  (the offsets are kept by position, `scan.rs:356`), `contents_of`, several members
  in `RawSpace`.
- Of files: extended attributes, owners and times.
- Of reports: Markdown, key generation, signatures by external tools.
- Formatting, sorting, filters on output: layout without state.
- Time: the five seconds between checkpoints are a choice (`Advance` may
  checkpoint after any block); the clock of a record is a number that may go back.
- Fixtures, examples, tests and packaging: not part of the running program.
