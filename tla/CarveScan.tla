------------------------------ MODULE CarveScan ------------------------------
(***************************************************************************)
(* The workspace of `zvolcarve`: scans that read the members chunk by      *)
(* chunk, are interrupted, capped, killed and resumed, the two files they  *)
(* leave (the index of candidates and the offsets reached), and the dumps  *)
(* that name a candidate by its place in the index.                        *)
(*                                                                         *)
(* The index and the offsets are written one after the other, and a later  *)
(* scan trusts each without the other.                                     *)
(*                                                                         *)
(* Simplifications:                                                        *)
(*  - the scans of a workspace name the same members in the same order,    *)
(*    with one profile and no --range; members have whole chunks;          *)
(*  - a candidate is a place, met in the chunk it starts in; whether a     *)
(*    chunk with its overlap reads is a fact of the disk;                  *)
(*  - which of a chunk's candidates the cap still lets in is a choice;     *)
(*  - scores are fixed and differ;                                         *)
(*  - a dump is one step: it starts over or goes on, and ends with or      *)
(*    without a state file (DumpResume is about the inside of it).         *)
(***************************************************************************)
EXTENDS Naturals, FiniteSets

CONSTANTS
  NMembers,     \* members on the command line
  Chunks,       \* chunks of each of them
  Candidates,   \* what an uninterrupted scan of healthy members finds
  Place,        \* Place[x]: the member and the chunk candidate x starts in
  Score,        \* Score[x]: its rank
  Shape,        \* Shape[x]: its size and block size
  Defects,      \* the sets of chunks that may be unreadable
  MaxHits,      \* --max-hits
  MayFailLimit, \* Ledger::MAY_FAIL_LIMIT
  MaxTrouble    \* bound: signals, kills, failed writes and odd starts

Members == 1 .. NMembers
Offsets == 0 .. Chunks

ASSUME SizesAssumption ==
  NMembers \in Nat \ {0} /\ Chunks \in Nat \ {0} /\ MaxHits \in Nat /\ MaxTrouble \in Nat
ASSUME CandidatesAssumption ==
  /\ IsFiniteSet(Candidates)
  /\ Place \in [Candidates -> Members \X (0 .. Chunks - 1)]
  /\ Score \in [Candidates -> Nat]
  /\ \A x, y \in Candidates : Score[x] = Score[y] => x = y
ASSUME DefectsAssumption == \A these \in Defects : these \subseteq Members \X (0 .. Chunks - 1)
ASSUME CarveLimitAssumption == MayFailLimit \in Nat \ {0}

VARIABLES
  bad,       \* <<member, chunk>> that do not read
  index,     \* candidates.json: readable or not, and the candidates in it
  state,     \* state.json: readable or not, and the offset reached on each member
  image,     \* the candidates whose blocks are in the output of the dumps
  dump,      \* its resume state: the candidate's id and shape
  rescanned, \* history: the index was written since the output was begun
  phase,     \* where the scan is; "idle" between runs
  opt,       \* its command line
  present,   \* the members that could be opened
  from,      \* previous.reached
  found,     \* candidates
  reached,   \* the offset to resume each member at
  complete,  \* no member was left early
  member,    \* the member being scanned, past the last when done
  at,        \* the chunk being read
  hits,      \* Scan.hits
  refusals,  \* incidents in the ledger
  flag,      \* the interrupt flag
  exit,      \* the exit status
  mishap,    \* history: a stop made a scan pass over a chunk that reads, or a
             \* run ended between its files, in one of the two ways that hurt
  trouble    \* what is left of MaxTrouble

disk == <<index, state>>
output == <<image, dump>>
command == <<opt, present, from>>
gathered == <<found, reached, complete>>
window == <<member, at, hits>>
vars == <<bad, disk, output, rescanned, phase, command, gathered, window, refusals, flag, exit,
          mishap, trouble>>

-----------------------------------------------------------------------------
USAGE == 1
EVIDENCE == 2
UNRECOVERABLE == 3
REFUSED == 5
INTERRUPTED == 6
MEDIUM == 7

Running == 100
Killed == 101

Start0 == [m \in Members |-> 0]
NoIndex == [readable |-> FALSE, found |-> {}]
NoState == [readable |-> FALSE, reached |-> Start0]
NoDump == [readable |-> FALSE, id |-> 0, shape |-> 0]

Allowed == IF opt.mayFail THEN MayFailLimit ELSE 1
Stopped == refusals = Allowed

\* Reads of a step that goes on whatever they give: only a device refuses.
Tolerated == refusals' \in IF opt.device THEN refusals .. Allowed ELSE {refusals}

\* The candidates that start in the chunk.
Meets == {x \in Candidates : Place[x] = <<member, at>>}

Spend == trouble > 0 /\ trouble' = trouble - 1

-----------------------------------------------------------------------------
Init ==
  /\ bad \in Defects
  /\ index = NoIndex /\ state = NoState
  /\ image = {} /\ dump = NoDump /\ rescanned = FALSE
  /\ phase = "idle"
  /\ opt = [resume |-> FALSE, device |-> FALSE, mayFail |-> FALSE]
  /\ present = Members /\ from = Start0
  /\ found = {} /\ reached = Start0 /\ complete = TRUE
  /\ member = 1 /\ at = 0 /\ hits = {}
  /\ refusals = 0 /\ flag = FALSE /\ exit = Running
  /\ mishap = FALSE /\ trouble = MaxTrouble

\* A resume takes up what each file says, a file that does not read says
\* nothing.  The space maps are read on the way.
Begin ==
  /\ phase' = "member"
  /\ from' = IF opt'.resume THEN state.reached ELSE Start0
  /\ found' = IF opt'.resume THEN index.found ELSE {}
  /\ reached' = Start0 /\ complete' = TRUE
  /\ member' = 1 /\ at' = 0 /\ hits' = {}
  /\ flag' = FALSE /\ exit' = Running
  /\ refusals' \in IF opt'.device THEN 0 .. Allowed' ELSE {0}

\* scan --resume of images of all members.
Resume ==
  /\ phase = "idle"
  /\ opt' = [resume |-> TRUE, device |-> FALSE, mayFail |-> FALSE]
  /\ present' = Members
  /\ Begin
  /\ UNCHANGED <<bad, disk, output, rescanned, mishap, trouble>>

\* Any other: from the start, on devices, or with members that do not open.
OddStart ==
  /\ phase = "idle"
  /\ Spend
  /\ opt' \in [resume : BOOLEAN, device : BOOLEAN, mayFail : BOOLEAN]
  /\ present' \in SUBSET Members \ {{}}
  /\ Begin
  /\ UNCHANGED <<bad, disk, output, rescanned, mishap>>

\* A command line, members or a workspace that are refused.
NoScan ==
  /\ phase = "idle"
  /\ Spend
  /\ exit' \in {USAGE, EVIDENCE, UNRECOVERABLE, REFUSED, MEDIUM}
  /\ UNCHANGED <<bad, disk, output, rescanned, phase, command, gathered, window, refusals, flag, mishap>>

\* A signal is looked at before each member and before each chunk.
Interrupt ==
  /\ phase # "idle" /\ ~flag
  /\ Spend
  /\ flag' = TRUE
  /\ UNCHANGED <<bad, disk, output, rescanned, phase, command, gathered, window, refusals, exit, mishap>>

-----------------------------------------------------------------------------
\* The members, in order.
NextMember == member' = member + 1 /\ phase' = "member"

MemberAbsent ==
  /\ phase = "member" /\ member \in Members \ present
  /\ NextMember
  /\ UNCHANGED <<bad, disk, output, rescanned, command, gathered, at, hits, refusals, flag, exit,
                 mishap, trouble>>

\* Mutant of PutOff: the scan counts as done.
PutOffDone ==
  /\ phase = "member" /\ member \in present /\ flag
  /\ reached' = [reached EXCEPT ![member] = from[member]]
  /\ NextMember
  /\ UNCHANGED <<bad, disk, output, rescanned, command, found, complete, at, hits, refusals, flag, exit,
                 mishap, trouble>>

\* It keeps what an earlier run reached.
PutOff ==
  /\ phase = "member" /\ member \in present /\ flag
  /\ reached' = [reached EXCEPT ![member] = from[member]]
  /\ complete' = FALSE
  /\ NextMember
  /\ UNCHANGED <<bad, disk, output, rescanned, command, found, at, hits, refusals, flag, exit,
                 mishap, trouble>>

TakeUp ==
  /\ phase = "member" /\ member \in present /\ ~flag
  /\ phase' = "chunks"
  /\ at' = from[member] /\ hits' = {}
  /\ UNCHANGED <<bad, disk, output, rescanned, command, gathered, member, refusals, flag, exit,
                 mishap, trouble>>

-----------------------------------------------------------------------------
\* The chunks of a member.
reading == phase = "chunks" /\ at < Chunks /\ ~flag
readable == <<member, at>> \notin bad /\ ~Stopped

\* The member is left at an offset, and its hits are assessed and kept.
Leave(offset, early, these) ==
  /\ reached' = [reached EXCEPT ![member] = offset]
  /\ complete' = (complete /\ ~early)
  /\ found' = found \cup these
  /\ hits' = {}
  /\ Tolerated
  /\ NextMember
  /\ UNCHANGED <<bad, disk, output, rescanned, command, at, flag, exit, mishap, trouble>>

ScanInterrupted ==
  /\ phase = "chunks" /\ at < Chunks /\ flag
  /\ Leave(at, TRUE, hits)

\* A chunk that does not read is passed over; after a stop none reads.
ChunkSkipped ==
  /\ reading /\ ~readable
  /\ at' = at + 1
  /\ refusals' = IF opt.device /\ ~Stopped THEN refusals + 1 ELSE refusals
  /\ mishap' = (mishap \/ <<member, at>> \notin bad)
  /\ UNCHANGED <<bad, disk, output, rescanned, phase, command, gathered, member, hits, flag, exit, trouble>>

ChunkRead ==
  /\ reading /\ readable
  /\ Cardinality(hits \cup Meets) <= MaxHits
  /\ hits' = hits \cup Meets
  /\ at' = at + 1
  /\ UNCHANGED <<bad, disk, output, rescanned, phase, command, gathered, member, refusals, flag, exit,
                 mishap, trouble>>

\* Mutant of ChunkCapped: the rest of the chunk is not looked at again.
ChunkCappedPast ==
  /\ reading /\ readable
  /\ Cardinality(hits \cup Meets) > MaxHits
  /\ \E some \in SUBSET Meets :
       /\ Cardinality(hits \cup some) = MaxHits
       /\ Leave(at + 1, TRUE, hits \cup some)

\* Mutant of ChunkCapped: back to where the run began.
ChunkCappedBack ==
  /\ reading /\ readable
  /\ Cardinality(hits \cup Meets) > MaxHits
  /\ \E some \in SUBSET Meets :
       /\ Cardinality(hits \cup some) = MaxHits
       /\ Leave(from[member], TRUE, hits \cup some)

\* One more than the cap: to be resumed where the chunk began.
ChunkCapped ==
  /\ reading /\ readable
  /\ Cardinality(hits \cup Meets) > MaxHits
  /\ \E some \in SUBSET Meets :
       /\ Cardinality(hits \cup some) = MaxHits
       /\ Leave(at, TRUE, hits \cup some)

MemberRead ==
  /\ phase = "chunks" /\ at = Chunks
  /\ Leave(at, FALSE, hits)

-----------------------------------------------------------------------------
\* The two files, one after the other.
MembersDone ==
  /\ phase = "member" /\ member \notin Members
  /\ phase' = "index"
  /\ UNCHANGED <<bad, disk, output, rescanned, command, gathered, window, refusals, flag, exit,
                 mishap, trouble>>

SaveIndex ==
  /\ phase = "index"
  /\ phase' = "state"
  /\ index' = [readable |-> TRUE, found |-> found]
  /\ rescanned' = TRUE
  /\ UNCHANGED <<bad, state, output, command, gathered, window, refusals, flag, exit, mishap, trouble>>

\* The stop is the status whatever the scan was, and a log that cannot be
\* written makes it USAGE.
SaveState ==
  /\ phase = "state"
  /\ phase' = "idle"
  /\ state' = [readable |-> TRUE, reached |-> reached]
  /\ \/ /\ exit' = IF Stopped THEN MEDIUM ELSE IF complete THEN 0 ELSE INTERRUPTED
        /\ UNCHANGED trouble
     \/ exit' = USAGE /\ Spend
  /\ UNCHANGED <<bad, index, output, rescanned, command, gathered, window, refusals, flag, mishap>>

\* The index cannot be written, or the process dies in the middle.  With
\* offsets from before, an index lost is lost for good.
IndexCutShort ==
  /\ phase = "index"
  /\ Spend
  /\ phase' = "idle" /\ exit' \in {USAGE, Killed}
  /\ \/ UNCHANGED <<index, mishap, rescanned>>
     \/ index' = NoIndex /\ rescanned' = TRUE /\ mishap' = (mishap \/ state.readable)
  /\ UNCHANGED <<bad, state, output, command, gathered, window, refusals, flag>>

\* The same of the offsets.  A new index beside old offsets hurts where the
\* scan was not a resume.
StateCutShort ==
  /\ phase = "state"
  /\ Spend
  /\ phase' = "idle" /\ exit' \in {USAGE, Killed}
  /\ \/ state' = NoState /\ UNCHANGED mishap
     \/ UNCHANGED state /\ mishap' = (mishap \/ (state.readable /\ ~opt.resume))
  /\ UNCHANGED <<bad, index, output, rescanned, command, gathered, window, refusals, flag>>

\* Before the files nothing is left behind.
ScanKilled ==
  /\ phase \in {"member", "chunks"}
  /\ Spend
  /\ phase' = "idle" /\ exit' = Killed
  /\ UNCHANGED <<bad, disk, output, rescanned, command, gathered, window, refusals, flag, mishap>>

-----------------------------------------------------------------------------
\* Ids are places in the index, best first.
Id(x) == 1 + Cardinality({y \in index.found : Score[y] > Score[x]})

\* Mutant of Key: the size alone.
KeyOfShape(x) == [readable |-> TRUE, id |-> 0, shape |-> Shape[x]]

Key(x) == [readable |-> TRUE, id |-> Id(x), shape |-> Shape[x]]

\* dump ID, with or without --resume; a state of something else is set aside.
\* A dump that ends in the middle leaves its own.
Dump ==
  /\ phase = "idle"
  /\ \E x \in index.found : \E resume \in BOOLEAN :
       /\ \/ resume /\ dump = Key(x) /\ image' = image \cup {x} /\ UNCHANGED rescanned
          \/ ~(resume /\ dump = Key(x)) /\ image' = {x} /\ rescanned' = FALSE
       /\ dump' \in {NoDump, Key(x)}
  /\ UNCHANGED <<bad, disk, phase, command, gathered, window, refusals, flag, exit, mishap, trouble>>

Scan ==
  \/ MemberAbsent \/ PutOff \/ TakeUp
  \/ ScanInterrupted \/ ChunkSkipped \/ ChunkRead \/ ChunkCapped \/ MemberRead
  \/ MembersDone \/ SaveIndex \/ SaveState

Next ==
  \/ Resume \/ OddStart \/ NoScan \/ Interrupt
  \/ Scan
  \/ IndexCutShort \/ StateCutShort \/ ScanKilled
  \/ Dump

\* A scan goes on by itself; the operator resumes it.
Spec == Init /\ [][Next]_vars /\ WF_vars(Scan) /\ WF_vars(Resume)

-----------------------------------------------------------------------------
\* Types, and that the ledger never passes its limit.
TypeOK ==
  /\ bad \in SUBSET (Members \X (0 .. Chunks - 1))
  /\ index \in [readable : BOOLEAN, found : SUBSET Candidates]
  /\ state \in [readable : BOOLEAN, reached : [Members -> Offsets]]
  /\ image \subseteq Candidates /\ rescanned \in BOOLEAN
  /\ dump.readable \in BOOLEAN /\ dump.id \in Nat
  /\ phase \in {"idle", "member", "chunks", "index", "state"}
  /\ opt \in [resume : BOOLEAN, device : BOOLEAN, mayFail : BOOLEAN]
  /\ present \subseteq Members /\ from \in [Members -> Offsets]
  /\ found \subseteq Candidates /\ reached \in [Members -> Offsets] /\ complete \in BOOLEAN
  /\ member \in 1 .. NMembers + 1 /\ at \in Offsets /\ hits \subseteq Candidates
  /\ (phase = "chunks" => member \in Members)
  /\ refusals \in 0 .. Allowed /\ flag \in BOOLEAN
  /\ exit \in (0 .. MEDIUM) \cup {Running, Killed}
  /\ mishap \in BOOLEAN /\ trouble \in 0 .. MaxTrouble

Behind(x, offsets) == Place[x][2] < offsets[Place[x][1]]

\* Between runs, and all through a run that resumes, no offset has passed a
\* chunk that reads without its candidates being in the index.
NothingForgotten ==
  ~mishap /\ state.readable /\ (phase = "idle" \/ opt.resume) =>
    /\ index.readable
    /\ \A x \in Candidates : Behind(x, state.reached) /\ Place[x] \notin bad => x \in index.found

\* Status 0 with all members there: the index holds what one uninterrupted
\* scan would have found.
ExitZeroIsOnePass ==
  exit = 0 /\ present = Members /\ ~mishap =>
    \A x \in Candidates : Place[x] \notin bad => x \in index.found

\* A run that resumes only ever adds to an index it could read.
ResumeOnlyAdds ==
  [][phase # "idle" /\ opt.resume /\ index.readable /\ index'.readable => index.found \subseteq index'.found]_vars

\* A resumed scan of all members sets none of them back.
OffsetsNeverFallBack ==
  [][phase # "idle" /\ opt.resume /\ present = Members /\ state.readable /\ state'.readable =>
       \A m \in Members : state'.reached[m] >= state.reached[m]]_vars

\* As long as the index stays as it is, a dump that goes on goes on with
\* the candidate it began with.
DumpKeepsItsCandidate == ~rescanned => Cardinality(image) <= 1

\* Where no chunk has more candidates than the cap, a scan that is resumed
\* often enough comes to its end.
Fits == \A m \in Members, c \in 0 .. Chunks - 1 : Cardinality({x \in Candidates : Place[x] = <<m, c>>}) <= MaxHits
ScansComplete == Fits => []<>(exit = 0)

=============================================================================
