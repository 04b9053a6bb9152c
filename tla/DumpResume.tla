----------------------------- MODULE DumpResume -----------------------------
(***************************************************************************)
(* One volume dumped to one output file by a succession of `dump` runs:    *)
(* zfs-read's extract_from, zvol-common's resume state file, zvolrescue-   *)
(* io's SparseFile and the exit code dump.rs ends a run with.              *)
(*                                                                         *)
(* A run is a process.  It opens the output (fresh, or resuming from the   *)
(* state file), visits the blocks in order, and ends by itself, by a       *)
(* signal it honours between two blocks, or by a kill it does not see.     *)
(* The output file, its length and the state file are what survives; the   *)
(* next run sees nothing else of the runs before it.                       *)
(*                                                                         *)
(* Simplifications:                                                        *)
(*  - a block is one cell of the file; a block cut short (a torn write, or *)
(*    a block salvaged with some sectors zeroed) is one cell value.  The   *)
(*    last block is a whole one, and lengths are counted in whole blocks;  *)
(*  - holes and blocks of zeros are the same cell: SparseFile writes       *)
(*    neither.  All images have the same size;                             *)
(*  - a digest is the sequence of the cells fed to it: two digests are     *)
(*    equal exactly when these sequences are;                              *)
(*  - exit code 2 (a member could not be opened) and the evidence log's    *)
(*    failure are not here: they do not touch the image or the state.      *)
(***************************************************************************)
EXTENDS Naturals, Sequences

CONSTANTS
  Images,   \* what State.key() tells apart: dataset, GUID, TXG, sizes
  NoImage,  \* the image of no state file
  N,        \* blocks in the volume (volsize.div_ceil(bs))
  Total,    \* Total[i]: blocks the tree of image i reaches, at most N
  Holes,    \* Holes[i]: blocks of image i that are holes or hold zeros
  Modes,    \* subset of BOOLEAN: values of --strict the operator uses
  Resumes,  \* subset of BOOLEAN: values of --resume the operator uses
  Faults    \* what may go wrong; see FaultKinds

FaultKinds ==
  { "interrupt",   \* SIGINT or SIGTERM while blocks are visited
    "kill",        \* SIGKILL, a second SIGINT, a crash
    "unreadable",  \* a block no copy of which can be read
    "salvage",     \* a block read in part
    "medium",      \* a device refuses a read and the run stops there
    "sink",        \* the output refuses an operation
    "state" }      \* the state file cannot be written or removed

Blocks == 0 .. N - 1

ASSUME NAssumption == N \in Nat
ASSUME ImagesAssumption == NoImage \notin Images
ASSUME TotalAssumption == Total \in [Images -> 0 .. N]
ASSUME HolesAssumption == Holes \in [Images -> SUBSET Blocks]
ASSUME WorldAssumption ==
  Modes \subseteq BOOLEAN /\ Resumes \subseteq BOOLEAN /\ Faults \subseteq FaultKinds

VARIABLES
  file,     \* file[b]: the cell at block b of the output
  flen,     \* its length
  state,    \* the resume state file
  pc,       \* "idle": no process; "loop": visiting; "settle": extract_from returned
  img, strict, start,  \* what the current (or last) run was asked, where it began
  blk,      \* the block it visits next
  digest,   \* what its digests were fed
  firstBad, \* blkid of the first entry of report.bad, N when there is none
  how,      \* how extract_from returned
  stop,     \* the interrupt flag
  code,     \* exit status of the last run
  \* History, kept for the properties and read by no action:
  owned,    \* the state file was written over the file as last created
  pure,     \* no run resumed this file from a state that is not owned
  gaps      \* blocks last left as zeros or kept in part, since creation

evidenceVars == <<file, flen, state>>
runVars == <<pc, img, strict, start, blk, digest, firstBad, how, stop, code>>
history == <<owned, pure, gaps>>
vars == <<evidenceVars, runVars, history>>

-----------------------------------------------------------------------------
\* Cells: whose bytes stand at a block, and what became of them.

Zero == <<NoImage, "zero">>
Data(i) == <<i, "data">>
Part(i) == <<i, "part">>
Cell == {Zero} \cup {Data(i) : i \in Images} \cup {Part(i) : i \in Images}

\* What block b of image i holds on the pool; past the tree, zeros.
Truth(i, b) == IF b >= Total[i] \/ b \in Holes[i] THEN Zero ELSE Data(i)

NoState == [img |-> NoImage, done |-> 0]
NoBad == N

Init ==
  /\ file = [b \in Blocks |-> Zero]
  /\ flen = 0
  /\ state = NoState
  /\ pc = "idle"
  /\ img \in Images
  /\ strict = FALSE
  /\ start = 0
  /\ blk = 0
  /\ digest = <<>>
  /\ firstBad = NoBad
  /\ how = "none"
  /\ stop = FALSE
  /\ code = "none"
  /\ owned = FALSE
  /\ pure = TRUE
  /\ gaps = {}

-----------------------------------------------------------------------------
\* The state file.

\* Mutant of WriteState: it counts the block about to be read as done.
WriteStateAhead(done) ==
  /\ state' = [img |-> img, done |-> done + 1]
  /\ owned' = TRUE

\* resume::write, best effort: it may fail before or after truncating.
WriteState(done) ==
  \/ /\ state' = [img |-> img, done |-> done]
     /\ owned' = TRUE
  \/ /\ "state" \in Faults
     /\ \/ UNCHANGED <<state, owned>>
        \/ state' = NoState /\ owned' = FALSE

\* resume::clear; a file that cannot be removed stays.
ClearState ==
  \/ state' = NoState /\ owned' = FALSE
  \/ "state" \in Faults /\ UNCHANGED <<state, owned>>

\* The block resume::open starts at: the state's, when it is of this image
\* and the output is as long as it says.
ResumePoint(i, r) ==
  IF r /\ state.img = i /\ flen >= state.done THEN state.done ELSE 0

\* The digests a run begins with: fed the prefix the output already holds.
PrefixDigest(from) == [k \in 1 .. from |-> file[k - 1]]

\* Mutant of OpenOutput: a resumed output is truncated like a fresh one.
OpenOutputTruncating(from) ==
  /\ file' = [b \in Blocks |-> Zero]
  /\ flen' = 0
  /\ UNCHANGED <<owned, pure, gaps>>

\* SparseFile::open_existing keeps the output, SparseFile::create empties it.
OpenOutput(from) ==
  \/ /\ from > 0
     /\ pure' = (pure /\ owned)
     /\ UNCHANGED <<file, flen, owned, gaps>>
  \/ /\ from = 0
     /\ file' = [b \in Blocks |-> Zero]
     /\ flen' = 0
     /\ owned' = FALSE /\ pure' = TRUE /\ gaps' = {}

\* resume::open, for a run of image i under --strict s and --resume r.  The
\* state file is not touched, whichever way it goes.
Open(i, s, r) ==
  LET from == ResumePoint(i, r) IN
  /\ pc = "idle"
  /\ pc' = "loop"
  /\ img' = i /\ strict' = s /\ start' = from /\ blk' = from
  /\ digest' = PrefixDigest(from)
  /\ OpenOutput(from)
  /\ firstBad' = NoBad /\ how' = "none" /\ stop' = FALSE /\ code' = "running"
  /\ UNCHANGED state

\* The output cannot be opened: exit 1, and nothing has changed.
OpenFails ==
  /\ pc = "idle"
  /\ "sink" \in Faults
  /\ code' = "usage"
  /\ UNCHANGED <<evidenceVars, history>>
  /\ UNCHANGED <<pc, img, strict, start, blk, digest, firstBad, how, stop>>

-----------------------------------------------------------------------------
\* extract_from, one block at a time.

\* The loop looks at the interrupt flag before every block.
AtBlock == pc = "loop" /\ blk < Total[img] /\ ~stop

\* SparseFile::write_at: a cell of zeros is not written.
WriteAt(b, cell) ==
  IF cell = Zero
  THEN UNCHANGED <<file, flen>>
  ELSE /\ file' = [file EXCEPT ![b] = cell]
       /\ flen' = IF flen > b THEN flen ELSE b + 1

\* The block is accounted for: it is hashed, and the progress callback
\* may find five seconds gone and checkpoint the state.
Advance(cell) ==
  /\ digest' = Append(digest, cell)
  /\ blk' = blk + 1
  /\ \/ UNCHANGED <<state, owned>>
     \/ blk + 1 < Total[img] /\ WriteState(blk + 1)
  /\ UNCHANGED <<pc, img, strict, start, how, stop, code, pure>>

\* A range is logged as unreadable; the report keeps the first.
LogBad == firstBad' = IF firstBad = NoBad THEN blk ELSE firstBad

\* A hole, a block that reads and verifies, or one that does on retry.
ReadBlock ==
  /\ AtBlock
  /\ WriteAt(blk, Truth(img, blk))
  /\ Advance(Truth(img, blk))
  /\ gaps' = gaps \ {blk}
  /\ UNCHANGED firstBad

\* Unreadable, and zeros are what the operator asked for: hashed as zeros,
\* and nothing is written.
ZeroBlock ==
  /\ AtBlock
  /\ "unreadable" \in Faults /\ ~strict
  /\ LogBad
  /\ gaps' = gaps \cup {blk}
  /\ Advance(Zero)
  /\ UNCHANGED <<file, flen>>

\* Some sectors could be kept, the others are zeros (they may be all that
\* was not zero to begin with).
SalvageBlock ==
  /\ AtBlock
  /\ "salvage" \in Faults /\ ~strict
  /\ Truth(img, blk) # Zero
  /\ LogBad
  /\ gaps' = gaps \cup {blk}
  /\ \E cell \in {Zero, Part(img)} : WriteAt(blk, cell) /\ Advance(cell)

\* Unreadable under --strict, or refused by a device: the loop ends here.
AbortAt(reason) ==
  /\ AtBlock
  /\ LogBad
  /\ how' = reason
  /\ pc' = "settle"
  /\ UNCHANGED <<evidenceVars, img, strict, start, blk, digest, stop, code, history>>

StrictAbort == "unreadable" \in Faults /\ strict /\ AbortAt("aborted")

MediumStop == "medium" \in Faults /\ AbortAt("medium")

\* A write the output refused: extract_from returns Err, dump_one exits 3,
\* and neither writes the state nor removes it.
WriteFails ==
  /\ AtBlock
  /\ "sink" \in Faults
  /\ Truth(img, blk) # Zero
  /\ \/ UNCHANGED file
     \/ file' = [file EXCEPT ![blk] = Part(img)]
  /\ pc' = "idle" /\ how' = "none" /\ code' = "unrecoverable"
  /\ UNCHANGED <<flen, state, img, strict, start, blk, digest, firstBad, stop, history>>

\* The loop is over: every block visited, or the flag seen before one.
LoopOver == pc = "loop" /\ (blk >= Total[img] \/ stop)

Ending == IF blk < Total[img] THEN "interrupted" ELSE "whole"

\* The rest of the volume is hashed as zeros and the file given its length.
FinishImage ==
  /\ LoopOver
  /\ how' = Ending
  /\ digest' = digest \o [k \in 1 .. N - blk |-> Zero]
  /\ flen' = N
  /\ pc' = "settle"
  /\ UNCHANGED <<file, state, img, strict, start, blk, firstBad, stop, code, history>>

\* set_len or sync_all fails: Err, with the length set or not.
FinishFails ==
  /\ LoopOver
  /\ "sink" \in Faults
  /\ flen' \in {flen, N}
  /\ pc' = "idle" /\ how' = "none" /\ code' = "unrecoverable"
  /\ UNCHANGED <<file, state, img, strict, start, blk, digest, firstBad, stop, history>>

-----------------------------------------------------------------------------
\* dump_one after extract_from, and the exit status of the run.

\* Mutants of ContinueAt: past the block the interrupt came before; where
\* this run began.
ContinueAfter == IF how = "interrupted" THEN blk + 1 ELSE firstBad
ContinueAtStart == IF how = "interrupted" THEN start ELSE firstBad

\* Where --resume is to continue: the block the interrupt came before, else
\* the first unreadable one.
ContinueAt == IF how = "interrupted" THEN blk ELSE firstBad

ExitCode ==
  CASE how = "medium" -> "medium"
    [] how = "interrupted" -> "interrupted"
    [] how = "aborted" -> "partial"
    [] how = "whole" -> IF firstBad = NoBad THEN "ok" ELSE "partial"

Settle ==
  /\ pc = "settle"
  /\ IF how = "whole" THEN ClearState ELSE WriteState(ContinueAt)
  /\ code' = ExitCode
  /\ pc' = "idle"
  /\ UNCHANGED <<file, flen, img, strict, start, blk, digest, firstBad, how, stop, pure, gaps>>

-----------------------------------------------------------------------------
\* What happens to a run from outside.

\* The first SIGINT or SIGTERM only sets the flag.
Interrupt ==
  /\ "interrupt" \in Faults
  /\ pc = "loop" /\ ~stop
  /\ stop' = TRUE
  /\ UNCHANGED <<evidenceVars, history>>
  /\ UNCHANGED <<pc, img, strict, start, blk, digest, firstBad, how, code>>

\* The process is gone.  The block it was writing may be cut short, and so
\* may a state file it was writing (which then does not parse).
Kill ==
  /\ "kill" \in Faults
  /\ pc # "idle"
  /\ \/ UNCHANGED <<file, state, owned>>
     \/ /\ AtBlock /\ Truth(img, blk) # Zero
        /\ file' = [file EXCEPT ![blk] = Part(img)]
        /\ UNCHANGED <<state, owned>>
     \/ /\ (pc = "loop" /\ blk > start) \/ (pc = "settle" /\ how # "whole")
        /\ state' = NoState /\ owned' = FALSE
        /\ UNCHANGED file
  /\ pc' = "idle" /\ how' = "none" /\ code' = "killed"
  /\ UNCHANGED <<flen, img, strict, start, blk, digest, firstBad, stop, pure, gaps>>

-----------------------------------------------------------------------------

Visit == ReadBlock \/ ZeroBlock \/ SalvageBlock

Next ==
  \/ \E i \in Images, s \in Modes, r \in Resumes : Open(i, s, r)
  \/ OpenFails
  \/ ReadBlock
  \/ ZeroBlock
  \/ SalvageBlock
  \/ StrictAbort
  \/ MediumStop
  \/ WriteFails
  \/ FinishImage
  \/ FinishFails
  \/ Settle
  \/ Interrupt
  \/ Kill

Spec == Init /\ [][Next]_vars

\* A program that is running goes on; an operator whose volume is not whole
\* starts the next run; and interrupts, however many, do not always come
\* before the first block of a run.
FairSpec ==
  /\ Spec
  /\ WF_vars(\E i \in Images, s \in Modes, r \in Resumes : Open(i, s, r))
  /\ SF_vars(Visit)
  /\ WF_vars(FinishImage)
  /\ WF_vars(Settle)

-----------------------------------------------------------------------------
\* Properties.

\* The kinds of values the variables hold.
TypeOK ==
  /\ file \in [Blocks -> Cell]
  /\ flen \in 0 .. N
  /\ state \in [img : Images \cup {NoImage}, done : 0 .. N]
  /\ pc \in {"idle", "loop", "settle"}
  /\ img \in Images /\ strict \in BOOLEAN
  /\ start \in 0 .. N /\ blk \in 0 .. N /\ firstBad \in 0 .. N
  /\ digest \in Seq(Cell)
  /\ how \in {"none", "whole", "interrupted", "aborted", "medium"}
  /\ pc = "settle" => how # "none"
  /\ stop \in BOOLEAN
  /\ code \in {"none", "running", "killed", "usage", "unrecoverable",
               "ok", "partial", "interrupted", "medium"}
  /\ owned \in BOOLEAN /\ pure \in BOOLEAN
  /\ gaps \subseteq Blocks

\* The runs that hand a digest of the image to the evidence record.
Recorded == code \in {"ok", "partial", "interrupted", "medium"}

Settled(b) == file[b] = Truth(img, b) \/ b \in gaps

\* As long as every run that wrote the state file wrote it over this very
\* output (and every resume started from such a state), the blocks the
\* state file says are complete hold what the volume holds, or are blocks
\* some run gave up and reported.  A later --resume relies on nothing else.
ClaimHolds ==
  owned /\ pure =>
    /\ state.img = img
    /\ \A b \in Blocks : b < state.done => Settled(b)

\* The digest extract_from is feeding is of the bytes in the output file,
\* block for block, except that on a resumed run a block past the resumed
\* prefix may be hashed as zeros while the file keeps older bytes there; and
\* an image given its length is hashed to that length.
DigestFollowsFile ==
  pc # "idle" \/ Recorded =>
    /\ \A b \in Blocks :
         b < Len(digest) =>
           \/ digest[b + 1] = file[b]
           \/ start > 0 /\ b >= start /\ digest[b + 1] = Zero
    /\ IF how \in {"whole", "interrupted"}
       THEN Len(digest) = N /\ flen = N
       ELSE Len(digest) = blk

\* The image and its state file keep the promise of ImagePrefix; a state
\* file that vouches for an earlier creation of the image vouches for
\* nothing.
Promise == INSTANCE ImagePrefix WITH
  settled <- IF pure THEN {b \in Blocks : Settled(b)} ELSE {},
  claim   <- IF pure /\ owned THEN state.done ELSE 0

\* Every step of the dump keeps it: a run settles one block at a time, moves
\* the claim only as far as the settled blocks reach, and tears no block it
\* has claimed.
KeepsThePromise == Promise!Spec

\* A run that exits 0 leaves an image of full length in which only blocks
\* an earlier run gave up, all before the block this run resumed at, can
\* differ from the volume.
ExitZeroLosesNothingNew ==
  code = "ok" /\ pure =>
    /\ flen = N
    /\ \A b \in Blocks : Settled(b)
    /\ \A b \in gaps : b < start

\* A state file only ever moves forward over one output file, except that a
\* run that gives up (--strict, or a refusing device) takes it back to the
\* first block it could not read, never behind where it started.
StateRewindsOnlyToABadBlock ==
  [][ (owned /\ owned' /\ state'.done < state.done) =>
        /\ how \in {"aborted", "medium"}
        /\ state'.done = firstBad
        /\ state'.done >= start ]_vars

\* What an operator who resumes one image sees while nothing worse than an
\* interrupt happens: every write of the state succeeds.
CalmStep ==
  \/ \E s \in Modes : Open(img, s, TRUE)
  \/ Visit /\ state' \in {state, [img |-> img, done |-> blk']}
  \/ FinishImage
  \/ Settle /\ (how = "interrupted" => state' = [img |-> img, done |-> ContinueAt])
  \/ Interrupt

\* Whatever kills, write errors and refusing devices came before: once there
\* are none any more, resuming completes the volume, however often the runs
\* are interrupted.
InterruptedRunsComplete ==
  <>[][CalmStep]_vars => []<>(pc = "settle" /\ how = "whole")
=============================================================================
