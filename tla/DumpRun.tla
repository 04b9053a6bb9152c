------------------------------- MODULE DumpRun -------------------------------
(***************************************************************************)
(* One whole run of `zvolrescue dump`: opening the members, choosing the   *)
(* pool, searching the TXGs for the dataset, extracting one volume or,     *)
(* with -r, every volume under it, and ending with an exit code and a      *)
(* record in the evidence log.                                             *)
(*                                                                         *)
(* Everything here reads through one ledger of refusals, and everything    *)
(* that fails competes for one exit code.  The run goes on after most      *)
(* failures: it passes over a TXG, skips a volume, leaves a directory of   *)
(* the walk aside.  What it did not do is told by the code or not at all.  *)
(*                                                                         *)
(* Simplifications:                                                        *)
(*  - a step reads many blocks: it is answered, fails or is refused, and   *)
(*    some refusals may have been skipped on the way.  That a reader which *)
(*    was stopped answers nothing but the stop is PoolReader's             *)
(*    StopWinsOverTheBlock and NothingAskedAfterStop;                      *)
(*  - an extraction is one step that starts at block 0, with the ends      *)
(*    DumpResume gives it; --resume and a killed run are DumpResume's;     *)
(*  - the candidates are the TXGs of the instance: --txg is an instance    *)
(*    with one, and one that names none is among ChooseFails;              *)
(*  - a walk that loses blocks may leave out any datasets, a snapshot and  *)
(*    the dataset it is of alike;                                          *)
(*  - whether the key given opens a dataset is a choice each time.         *)
(***************************************************************************)
EXTENDS Naturals, FiniteSets, SequencesExt

CONSTANTS
  Members,      \* how many members the command line names
  NTxgs,        \* verified TXGs: 1 is the newest
  Names,        \* names of datasets
  Files,        \* names of outputs
  Mangled,      \* Mangled[n]: the image of n in a bulk run, "/" made "_"
  Output,       \* -o, when the run is for one volume
  Held,         \* Held[t]: the datasets the pool holds at t, in walk order
  Roots,        \* names the operator may ask for
  MayFailLimit  \* Ledger::MAY_FAIL_LIMIT

Txgs == 1 .. NTxgs
Dataset == [name : Names, within : SUBSET Names,  \* itself and what it is under
            volume : BOOLEAN, snapshot : BOOLEAN, locked : BOOLEAN,
            empty : BOOLEAN]                      \* no block to visit

ASSUME MembersAssumption == Members \in Nat \ {0}
ASSUME TxgsAssumption == NTxgs \in Nat \ {0}
ASSUME FilesAssumption == Mangled \in [Names -> Files] /\ Output \in Files /\ Roots \subseteq Names
ASSUME HeldAssumption ==
  /\ Held \in [Txgs -> Seq(Dataset)]
  /\ \A t \in Txgs : \A m, n \in DOMAIN Held[t] : Held[t][m].name = Held[t][n].name => m = n
ASSUME LimitAssumption == MayFailLimit \in Nat \ {0}

VARIABLES
  opt,       \* the command line
  hurt,      \* TXGs some of whose metadata or data no copy of reads
  opened,    \* members looked at
  failed,    \* of these, those that could not be opened or scanned
  refusals,  \* incidents in the ledger
  phase,     \* where the run is
  at,        \* the TXG it looks at, past the last when the search is over
  tree,      \* positions in Held[at] of the datasets the walk found
  unread,    \* of these, the ones whose kind it could not read
  todo,      \* positions of the targets still to come
  flag,      \* the interrupt flag
  code,      \* the exit code so far
  volumes,   \* RunOut.volumes: the extractions that came to a report
  skipped,   \* RunOut.skipped: the name and the code that came with it
  files,     \* what each output holds
  exit,      \* the exit status
  record,    \* the evidence record
  late       \* history: extractions of a volume with blocks that began under
             \* the flag and came to a report

scan == <<opened, failed>>
search == <<at, tree, unread>>
outcome == <<volumes, skipped, files, late>>
ending == <<exit, record>>
world == <<opt, hurt>>
vars == <<world, scan, search, refusals, phase, todo, flag, code, outcome, ending>>

-----------------------------------------------------------------------------
USAGE == 1
EVIDENCE == 2
UNRECOVERABLE == 3
PARTIAL == 4
REFUSED == 5
INTERRUPTED == 6
MEDIUM == 7

Running == 100
NoRecord == [status |-> Running, outputs |-> <<>>]
Untouched == [of |-> Output, how |-> "absent"]

\* Mutant of Worse: each step sets the code.
Latest(c, d) == d

\* The code is never lowered.
Worse(c, d) == IF c < d THEN d ELSE c

Named(datasets, k) == datasets[k].name = opt.root
FileOf(d) == IF opt.recursive THEN Mangled[d.name] ELSE Output

\* With --device-may-fail the limit stops the run, without it the first does.
Allowed == IF opt.mayFail THEN MayFailLimit ELSE 1
Stopped == refusals = Allowed

\* Mutant of Answered: what was read before the stop is still served after it.
AnsweredFromCache ==
  \/ Stopped /\ UNCHANGED refusals
  \/ ~Stopped /\ refusals' \in refusals .. Allowed - 1

\* The three ways a group of reads can go.
Answered ==
  /\ ~Stopped
  /\ refusals' \in refusals .. Allowed - 1
Refused ==
  \/ Stopped /\ UNCHANGED refusals
  \/ ~Stopped /\ refusals' \in refusals + 1 .. Allowed
\* The reads of a step that goes on whatever they give.
Tolerated == refusals' \in refusals .. Allowed

\* Some read of this TXG may fail.
Doubtful == at \in hurt \/ refusals' > 0

-----------------------------------------------------------------------------
Init ==
  /\ opt \in [recursive : BOOLEAN, mayFail : BOOLEAN, root : Roots]
  /\ hurt \in SUBSET Txgs
  /\ opened = 0 /\ failed = 0 /\ refusals = 0
  /\ phase = "open"
  /\ at = 1 /\ tree = {} /\ unread = {} /\ todo = {}
  /\ flag = FALSE /\ code = 0
  /\ volumes = <<>> /\ skipped = <<>> /\ late = 0
  /\ files = [f \in Files |-> Untouched]
  /\ exit = Running /\ record = NoRecord

\* The run ends: a stop is the status whatever the code was, and a log that
\* cannot be written makes it USAGE.  There may be no log at all.
EndRun(c, outputs) ==
  LET status == IF refusals' = Allowed THEN MEDIUM ELSE c IN
  /\ phase' = "ended"
  /\ \/ exit' = status /\ record' = [status |-> status, outputs |-> outputs]
     \/ exit' = USAGE /\ UNCHANGED record
     \/ exit' = status /\ UNCHANGED record

\* A run that produced nothing.
EndEarly(c) == EndRun(c, <<>>)

\* The handler sets the flag; it is looked at between the blocks of a volume.
Interrupt ==
  /\ phase # "ended" /\ ~flag
  /\ flag' = TRUE
  /\ UNCHANGED <<world, scan, search, refusals, phase, todo, code, outcome, ending>>

\* The command line names no members, or a map of something else.
BadArguments ==
  /\ phase = "open" /\ opened = 0
  /\ UNCHANGED <<world, scan, search, refusals, todo, flag, code, outcome>>
  /\ EndEarly(USAGE)

OpenMember ==
  /\ phase = "open" /\ opened < Members
  /\ opened' = opened + 1
  /\ failed' \in {failed, failed + 1}
  /\ Tolerated
  /\ \/ refusals' = Allowed /\ EndEarly(MEDIUM)
     \/ refusals' < Allowed /\ UNCHANGED <<phase, ending>>
  /\ UNCHANGED <<world, search, todo, flag, code, outcome>>

\* No member could be opened, a feature is unaccounted for, the hints or
\* --assume-member do not fit, or a device refused on the way.
AssembleFails ==
  /\ phase = "open" /\ opened = Members
  /\ Tolerated
  /\ \E c \in IF failed = Members THEN {EVIDENCE} ELSE {USAGE, EVIDENCE, UNRECOVERABLE, MEDIUM} :
       /\ c = MEDIUM => refusals' = Allowed
       /\ EndEarly(c)
  /\ UNCHANGED <<world, scan, search, todo, flag, code, outcome>>

Assemble ==
  /\ phase = "open" /\ opened = Members /\ failed < Members
  /\ Answered
  /\ phase' = "choose"
  /\ UNCHANGED <<world, scan, search, todo, flag, code, outcome, ending>>

\* The output is evidence, no pool or several, no verified uberblock.
ChooseFails ==
  /\ phase = "choose"
  /\ UNCHANGED <<world, scan, search, refusals, todo, flag, code, outcome>>
  /\ \E c \in {REFUSED, USAGE, EVIDENCE, UNRECOVERABLE} : EndEarly(c)

Choose ==
  /\ phase = "choose"
  /\ phase' = "search"
  /\ UNCHANGED <<world, scan, search, refusals, todo, flag, code, outcome, ending>>

-----------------------------------------------------------------------------
\* find_dataset: newest first.
SearchFrom(t) == at' = t /\ phase' = "search" /\ tree' = {} /\ unread' = {}
NextTxg == SearchFrom(at + 1)
GiveUp == SearchFrom(NTxgs + 1)

searching == phase = "search" /\ at \in Txgs

\* The MOS or the object directory does not read at this TXG.
PoolUnreadable ==
  /\ searching
  /\ Answered /\ Doubtful
  /\ NextTxg
  /\ UNCHANGED <<world, scan, todo, flag, code, outcome, ending>>

\* Any refusal, also one to be skipped, is taken for the stop of the run.
PoolRefused ==
  /\ searching
  /\ Refused
  /\ GiveUp
  /\ UNCHANGED <<world, scan, todo, flag, code, outcome, ending>>

\* What does not read on the way is left out of the tree, or is in it
\* without its kind.  A TXG whose tree has not the name is passed over.
Walk ==
  /\ searching
  /\ ~Stopped /\ Tolerated
  /\ \E found \in SUBSET DOMAIN Held[at] : \E dim \in SUBSET found :
       /\ ~Doubtful => found = DOMAIN Held[at] /\ dim = {}
       /\ \/ /\ \E k \in found : Named(Held[at], k)
             /\ tree' = found /\ unread' = dim
             /\ phase' = "found" /\ UNCHANGED at
          \/ /\ \A k \in found : ~Named(Held[at], k)
             /\ NextTxg
  /\ UNCHANGED <<world, scan, todo, flag, code, outcome, ending>>

\* dataset_reads
DatasetReads ==
  /\ phase = "found"
  /\ Answered
  /\ phase' = "targets"
  /\ UNCHANGED <<world, scan, search, todo, flag, code, outcome, ending>>

\* Mutant of DatasetUnreadable: the first TXG that names the dataset decides.
DatasetGivesUp ==
  /\ phase = "found"
  /\ Answered /\ Doubtful
  /\ GiveUp
  /\ UNCHANGED <<world, scan, todo, flag, code, outcome, ending>>

DatasetUnreadable ==
  /\ phase = "found"
  /\ Answered /\ Doubtful
  /\ NextTxg
  /\ UNCHANGED <<world, scan, todo, flag, code, outcome, ending>>

DatasetRefused ==
  /\ phase = "found"
  /\ Refused
  /\ GiveUp
  /\ UNCHANGED <<world, scan, todo, flag, code, outcome, ending>>

NotFound ==
  /\ phase = "search" /\ at \notin Txgs
  /\ UNCHANGED <<world, scan, search, refusals, todo, flag, code, outcome>>
  /\ EndRun(UNRECOVERABLE, <<>>)

-----------------------------------------------------------------------------
\* Mutant of Target: only what is below the dataset.
TargetBelow(d) ==
  IF opt.recursive THEN ~d.snapshot /\ opt.root \in d.within \ {d.name} ELSE d.name = opt.root

Target(d) ==
  IF opt.recursive THEN ~d.snapshot /\ opt.root \in d.within ELSE d.name = opt.root

\* The output directory of a bulk run cannot be made.
NoDirectory ==
  /\ phase = "targets" /\ opt.recursive
  /\ UNCHANGED <<world, scan, search, refusals, todo, flag, code, outcome>>
  /\ EndEarly(USAGE)

Targets ==
  /\ phase = "targets"
  /\ todo' = {k \in tree : Target(Held[at][k])}
  /\ phase' = "loop"
  /\ UNCHANGED <<world, scan, search, refusals, flag, code, outcome, ending>>

\* The loop over the targets.
first == CHOOSE k \in todo : \A j \in todo : k <= j
ds == Held[at][first]
looping == phase = "loop" /\ todo # {}
readAsVolume == ds.volume /\ first \notin unread
tried == looping /\ (opt.recursive => readAsVolume)

Extracted(how) == [of |-> ds.name, how |-> how]
Report(how) == [file |-> FileOf(ds), holds |-> Extracted(how)]

NextTarget == todo' = todo \ {first} /\ phase' = "loop"
LeaveLoop == todo' = {} /\ phase' = "loop"

\* It is put down as skipped, and the code with it; one target ends the loop.
Skip(c) ==
  /\ skipped' = IF opt.recursive THEN Append(skipped, [name |-> ds.name, code |-> c]) ELSE skipped
  /\ code' = Worse(code, c)
  /\ IF opt.recursive THEN NextTarget ELSE LeaveLoop

SkipNotVolume ==
  /\ looping /\ opt.recursive /\ ~readAsVolume
  /\ skipped' = Append(skipped, [name |-> ds.name, code |-> 0])
  /\ NextTarget
  /\ UNCHANGED <<world, scan, search, refusals, flag, code, volumes, files, late, ending>>

\* No key, or not the right one.
Locked ==
  /\ tried /\ ds.locked
  /\ UNCHANGED <<world, scan, search, refusals, flag, volumes, files, late>>
  /\ \/ opt.recursive /\ Skip(USAGE) /\ UNCHANGED ending
     \/ ~opt.recursive /\ EndEarly(USAGE) /\ UNCHANGED <<skipped, code, todo>>

\* It is not a volume, its dnodes do not read, its size is not known.
VolumeUnopened ==
  /\ tried
  /\ \/ Answered /\ (ds.volume => Doubtful)
     \/ Refused
  /\ Skip(UNRECOVERABLE)
  /\ UNCHANGED <<world, scan, search, flag, volumes, files, late, ending>>

\* resume::open: the output is not touched.
OutputUnopened ==
  /\ tried /\ ds.volume
  /\ Answered
  /\ Skip(USAGE)
  /\ UNCHANGED <<world, scan, search, flag, volumes, files, late, ending>>

\* The sink fails in the middle or at the end: no report, an output cut short.
ExtractionFails ==
  /\ tried /\ ds.volume
  /\ Answered
  /\ Skip(UNRECOVERABLE)
  /\ files' = [files EXCEPT ![FileOf(ds)] = Extracted("torn")]
  /\ UNCHANGED <<world, scan, search, flag, volumes, late, ending>>

\* A report, and the code of exit::after_extraction.
Extract(how, c) ==
  /\ tried /\ ds.volume
  /\ files' = [files EXCEPT ![FileOf(ds)] = Extracted(how)]
  /\ volumes' = Append(volumes, Report(how))
  /\ code' = Worse(code, c)
  /\ late' = IF flag /\ ~ds.empty THEN late + 1 ELSE late
  /\ UNCHANGED <<world, scan, search, flag, skipped, ending>>

\* The flag is looked at before each block.
passesFlag == ds.empty \/ ~flag

ExtractWhole ==
  /\ looping /\ passesFlag
  /\ Answered
  /\ Extract("whole", 0) /\ NextTarget

\* Blocks as zeros, or under --strict the image cut at the first of them.
ExtractPart ==
  /\ ~flag /\ looping /\ ~ds.empty
  /\ Answered /\ Doubtful
  /\ Extract("part", PARTIAL) /\ NextTarget

\* A bulk run does not stop with the volume the medium stopped.
ExtractStopped ==
  /\ ~flag /\ looping /\ ~ds.empty
  /\ ~Stopped /\ refusals' = Allowed
  /\ Extract("stopped", PARTIAL) /\ NextTarget

ExtractInterrupted ==
  /\ flag /\ looping /\ ~ds.empty
  /\ Answered
  /\ Extract("interrupted", INTERRUPTED) /\ LeaveLoop

\* Mutant of Manifest: one that cannot be written ends the run at once.
ManifestOrEnd ==
  /\ phase = "loop" /\ todo = {}
  /\ UNCHANGED <<world, scan, search, refusals, todo, flag, code, outcome>>
  /\ \/ phase' = "finish" /\ UNCHANGED ending
     \/ opt.recursive /\ EndEarly(USAGE)

\* The manifest of a bulk run may not be written.
Manifest ==
  /\ phase = "loop" /\ todo = {}
  /\ phase' = "finish"
  /\ \/ UNCHANGED code
     \/ opt.recursive /\ code' = Worse(code, USAGE)
  /\ UNCHANGED <<world, scan, search, refusals, todo, flag, outcome, ending>>

\* finish, with every image of a report.
Finish ==
  /\ phase = "finish"
  /\ UNCHANGED <<world, scan, search, refusals, todo, flag, code, outcome>>
  /\ EndRun(IF code = 0 /\ failed > 0 THEN EVIDENCE ELSE code, volumes)

Ended == phase = "ended" /\ UNCHANGED vars

Next ==
  \/ Interrupt
  \/ BadArguments \/ OpenMember \/ AssembleFails \/ Assemble \/ ChooseFails \/ Choose
  \/ PoolUnreadable \/ PoolRefused \/ Walk
  \/ DatasetReads \/ DatasetUnreadable \/ DatasetRefused \/ NotFound
  \/ NoDirectory \/ Targets
  \/ SkipNotVolume \/ Locked \/ VolumeUnopened \/ OutputUnopened \/ ExtractionFails
  \/ ExtractWhole \/ ExtractPart \/ ExtractStopped \/ ExtractInterrupted
  \/ Manifest \/ Finish
  \/ Ended

Spec == Init /\ [][Next]_vars

-----------------------------------------------------------------------------
Content == [of : Names \cup {Output}, how : {"absent", "torn", "whole", "part", "stopped", "interrupted"}]
Reports == [file : Files, holds : Content]
Codes == 0 .. MEDIUM

\* Types, and that the ledger never passes its limit.
TypeOK ==
  /\ opt \in [recursive : BOOLEAN, mayFail : BOOLEAN, root : Roots]
  /\ hurt \subseteq Txgs
  /\ opened \in 0 .. Members /\ failed \in 0 .. opened
  /\ refusals \in 0 .. Allowed
  /\ phase \in {"open", "choose", "search", "found", "targets", "loop", "finish", "ended"}
  /\ at \in 1 .. NTxgs + 1
  /\ tree \subseteq (IF at \in Txgs THEN DOMAIN Held[at] ELSE {})
  /\ unread \subseteq tree /\ todo \subseteq tree
  /\ flag \in BOOLEAN /\ code \in Codes
  /\ volumes \in Seq(Reports) /\ skipped \in Seq([name : Names, code : Codes])
  /\ files \in [Files -> Content]
  /\ exit \in Codes \cup {Running}
  /\ record \in [status : Codes \cup {Running}, outputs : Seq(Reports)]
  /\ late \in Nat

CodeOf(how) ==
  CASE how = "whole" -> 0
    [] how \in {"part", "stopped"} -> PARTIAL
    [] how = "interrupted" -> INTERRUPTED

\* What the run may not say less than: the worst of what became of each
\* volume, EVIDENCE at least with a member that did not open, and MEDIUM
\* after a stop.
NoBetterThan(status) ==
  /\ \A k \in DOMAIN volumes : status >= CodeOf(volumes[k].holds.how)
  /\ \A k \in DOMAIN skipped : status >= skipped[k].code
  /\ failed > 0 => status # 0
  /\ Stopped => status = MEDIUM

\* Volumes end in any order with any codes, members fail before them and a
\* device may stop the run at any read: neither the record nor, where the
\* log could be written, the status ever says less than the worst of it; and
\* status 0 is never given where anything went wrong.
CodeNeverFlatters ==
  /\ record # NoRecord => NoBetterThan(record.status) /\ exit = record.status
  /\ phase = "ended" /\ exit # USAGE => NoBetterThan(exit)

\* The datasets under the one asked for, and those of them that share their
\* file name with no other.
Under == {k \in DOMAIN Held[at] : ~Held[at][k].snapshot /\ opt.root \in Held[at][k].within}
Alone(k) == \A m \in Under : Mangled[Held[at][m].name] = Mangled[Held[at][k].name] => m = k
HasItsImage(held) == files[Mangled[held.name]] = [of |-> held.name, how |-> "whole"]

\* A bulk run that ends with 0, over a walk that left nothing out, leaves
\* the whole image of every volume under the dataset, unless two of them
\* have one file name.
BulkKeepsEveryVolume ==
  (exit = 0 /\ opt.recursive /\ tree = DOMAIN Held[at] /\ unread = {}) =>
    \A k \in Under : Held[at][k].volume /\ Alone(k) => HasItsImage(Held[at][k])

Shared(f) == \E k, m \in DOMAIN volumes : k < m /\ volumes[k].file = f /\ volumes[m].file = f

\* The record of a run knows every output the run has written: the image is
\* in it with what it holds, or it is what an extraction that failed left
\* behind and the status says so.  An image in the record is in its file as
\* recorded, unless a later volume took the same file.
RecordAccountsForOutputs ==
  record # NoRecord =>
    /\ \A f \in Files : files[f] # Untouched =>
         \/ [file |-> f, holds |-> files[f]] \in Range(record.outputs)
         \/ files[f].how = "torn" /\ record.status >= UNRECOVERABLE
    /\ \A k \in DOMAIN record.outputs :
         LET r == record.outputs[k] IN
         files[r.file] = r.holds \/ Shared(r.file) \/ files[r.file].how = "torn"

\* As long as no device refused anything, the search passes over a TXG only
\* if it has not the dataset or is hurt: the newest TXG that holds the
\* dataset and reads is never left behind.
SearchReachesWhatReads ==
  refusals = 0 => \A t \in Txgs : t < at => t \in hurt \/ \A k \in DOMAIN Held[t] : ~Named(Held[t], k)

\* After the stop no output is touched, whatever targets are left.
NothingTouchedAfterStop == [][Stopped => UNCHANGED files]_vars

\* A bulk run does not go on to the next volume after an interrupt: of the
\* volumes with blocks, at most one whose extraction began under the flag
\* comes to a report.
InterruptEndsTheLoop == late <= 1

\* Extract every volume under the dataset: status 0 of a bulk run means
\* every volume the pool holds there, whatever the walk could read.
BulkIsComplete ==
  (exit = 0 /\ opt.recursive) =>
    \A k \in Under : Held[at][k].volume => HasItsImage(Held[at][k])
=============================================================================
