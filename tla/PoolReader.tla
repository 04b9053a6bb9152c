----------------------------- MODULE PoolReader -----------------------------
(***************************************************************************)
(* How the blocks of a volume are read off a pool: zfs-read's PoolReader   *)
(* (read_block and everything under it), extract_from's use of it          *)
(* (locate, then the data block, then salvage), and zvolrescue-io's medium *)
(* policy underneath (the incident ledger, the closed device, the read     *)
(* windows, the imager's map).                                             *)
(*                                                                         *)
(* One step is one read asked of one member.  Nothing runs beside the      *)
(* reader; what makes it hard is that each read leaves something behind    *)
(* (an incident, a closed device, a cached block, an error kept over       *)
(* another) that decides what a much later one does.                       *)
(*                                                                         *)
(* Simplifications:                                                        *)
(*  - a read covers one address of one device, whole; what is there is one *)
(*    of the cells below.  Members are disks and mirrors: raidz and dRAID  *)
(*    rows are not here.  A mirror of mirrors is the list of its leaves,   *)
(*    which the code reads in that same order and folds alike;             *)
(*  - a piece of a removed vdev, like a gang header, is on a vdev that     *)
(*    still exists; a gang header is read at the one size it has;          *)
(*  - every checksum algorithm is supported, or is "off" (Unchecked);      *)
(*  - no block is larger than ReadCache::MAX_ENTRY (128 KiB, the largest   *)
(*    volblocksize), and the cache's budget is counted in blocks;          *)
(*  - the interrupt flag, the image and the state file are DumpResume's.   *)
(***************************************************************************)
EXTENDS Naturals, Sequences, FiniteSets

CONSTANTS
  Devices,      \* slots of the pool's member list
  Addresses,    \* places a copy may live at, on any device
  Pointers,     \* block pointers
  Dvas,         \* Dvas[p]: the non-empty DVAs of p, in order
  Unchecked,    \* pointers with checksum=off
  Packed,       \* pointers to compressed or encrypted blocks
  Sealed,       \* pointers to blocks that verify but do not open (no key,
                \* a key that does not fit, a payload that does not unpack)
  Volumes,      \* volumes that may be read; see Block
  MayFailLimit, \* Ledger::MAY_FAIL_LIMIT
  WINDOWS,      \* FileSource::WINDOWS
  Budget,       \* ReadCache::BUDGET, in blocks
  MaxDepth,     \* the deepest gang nesting read_gang follows
  MaxBad        \* bound: members missing and cells that are not good (reads
                \* that may fail at any time count as one more)

\* A DVA: how it is read, the reads that may serve it (for a removed vdev, in
\* the order of the block's pieces, each names its piece and the side of the
\* mirror that piece went to), the number of ways to join such pieces (the
\* sides of the widest), and the children a gang header lists.
Candidate == [dev : Devices, at : Addresses, piece : Nat, side : Nat]
Dva == [how : {"leaf", "removed", "gang", "unknown"},
        cands : Seq(Candidate), ways : Nat \ {0}, children : Seq(Pointers)]

\* A block of a volume: the indirect blocks on the way to it, then, unless it
\* is a hole, its own pointer.
Block == [path : Seq(Pointers), hole : BOOLEAN]

ASSUME DvasAssumption ==
  /\ Dvas \in [Pointers -> Seq(Dva)]
  /\ \A p \in Pointers : \A x \in DOMAIN Dvas[p] :
       /\ Dvas[p][x].how # "unknown" => Dvas[p][x].cands # <<>>
       /\ Dvas[p][x].how = "gang" => Dvas[p][x].children # <<>>
ASSUME VolumesAssumption ==
  /\ \A v \in Volumes : v \in Seq(Block)
  /\ \A v \in Volumes : \A k \in DOMAIN v : v[k].path = <<>> => v[k].hole
ASSUME PointersAssumption ==
  Unchecked \subseteq Pointers /\ Packed \subseteq Pointers /\ Sealed \subseteq Pointers
ASSUME LimitsAssumption ==
  /\ MayFailLimit \in Nat \ {0} /\ WINDOWS \in Nat \ {0} /\ Budget \in Nat \ {0}
  /\ MaxDepth \in Nat /\ MaxBad \in Nat

VARIABLES
  \* The pool and the options, fixed for the run:
  kind,       \* what each member is
  medium,     \* medium[d][a]: what a read of address a of device d meets
  mayFail,    \* --device-may-fail
  strict,     \* --strict
  steady,     \* a read that can be served is; else any read may fail
  vol,        \* the volume
  \* zvolrescue-io:
  incidents,  \* the ledger
  windows,    \* the last reads of each source
  \* PoolReader:
  mediumStop, \* medium_stop: the refusal that stopped the run is remembered
  cache,      \* the blocks ReadCache holds
  stack,      \* the read_raw_verified calls in progress, outermost first
  ret,        \* what the innermost call returns, "none" while it runs
  \* extract_from:
  phase,      \* what the block loop is at
  level,      \* which pointer of the block's path is being read
  err,        \* why the block could not be read
  sal,        \* where its salvage is, and the best copy so far
  results,    \* what became of each block visited
  \* History, for the properties only:
  asked       \* times a device was asked for an address, counted to 2

world == <<kind, medium, mayFail, strict, steady, vol>>
io == <<incidents, windows, asked>>
memory == <<io, mediumStop, cache>>
loop == <<phase, level, err, sal, results>>
vars == <<world, memory, stack, ret, loop>>

-----------------------------------------------------------------------------
Kinds == {"device", "image", "missing"}

\* good, or rotten (it reads, and is not what was written); refused whole, or
\* in part; or past the end of the source.
Cells == {"good", "rotten", "partly", "refused", "past"}

\* Bytes read: what was written, or not.
Bytes == {"true", "false"}
Errors == {"nomember", "io", "skip", "stop", "mismatch", "gang", "unknown", "sealed"}
Outcomes == Bytes \cup Errors

\* What a salvage read gives beside: some sectors, or none.
Kept == Bytes \cup {"part", "void"}

Slots == Devices \X Addresses

Frame == [ptr : Pointers, i : Nat \ {0}, got : Seq(Outcomes), child : Nat,
          clean : BOOLEAN, last : Errors, flagged : BOOLEAN]

Call(p) == [ptr |-> p, i |-> 1, got |-> <<>>, child |-> 0, clean |-> TRUE,
            last |-> "nomember", flagged |-> FALSE]

NoSalvage == [i |-> 1, c |-> 1, best |-> "none"]

Faulty(bad) ==
  Cardinality(bad) + Cardinality({d \in Devices : kind[d] = "missing"}) + IF steady THEN 0 ELSE 1

Init ==
  /\ kind \in [Devices -> Kinds]
  /\ mayFail \in BOOLEAN /\ strict \in BOOLEAN /\ steady \in BOOLEAN
  /\ \E bad \in SUBSET Slots :
       /\ Faulty(bad) <= MaxBad
       /\ \E cell \in [bad -> Cells \ {"good"}] :
            medium = [d \in Devices |-> [a \in Addresses |->
                        IF <<d, a>> \in bad THEN cell[<<d, a>>] ELSE "good"]]
  /\ vol \in Volumes
  /\ incidents = <<>>
  /\ windows = [d \in Devices |-> <<>>]
  /\ mediumStop = FALSE
  /\ cache = {}
  /\ stack = <<>>
  /\ ret = "none"
  /\ phase = "next" /\ level = 0 /\ err = "none" /\ sal = NoSalvage
  /\ results = <<>>
  /\ asked = [d \in Devices |-> [a \in Addresses |-> 0]]

-----------------------------------------------------------------------------
\* One read of one source (zvolrescue-io).

BytesAt(d, a) == IF medium[d][a] = "rotten" THEN "false" ELSE "true"

\* The read is within what the medium can give; and it may fail all the same.
CanGive(d, a) == medium[d][a] \in {"good", "rotten"}
MayRefuse(d, a) == medium[d][a] \in {"partly", "refused"} \/ (~steady /\ CanGive(d, a))

Ask(d, a) ==
  asked' = IF kind[d] = "device" /\ asked[d][a] < 2
           THEN [asked EXCEPT ![d][a] = @ + 1] ELSE asked

\* FileSource::remember: the oldest of WINDOWS reads makes room.
Remember(d, a) ==
  windows' = [windows EXCEPT
    ![d] = Append(IF Len(@) >= WINDOWS THEN Tail(@) ELSE @, a)]

\* Ledger::record: whether this refusal stops the run.
Judge == ~mayFail \/ Len(incidents) + 1 >= MayFailLimit

\* A refused read of a device is an incident.
Refused(d, a, out) ==
  /\ incidents' = Append(incidents, [dev |-> d, at |-> a, stopped |-> Judge])
  /\ out = IF Judge THEN "stop" ELSE "skip"

Closed(d) == \E n \in DOMAIN incidents : incidents[n].dev = d /\ incidents[n].stopped

InWindow(d, a) == \E n \in DOMAIN windows[d] : windows[d][n] = a

\* The operating system is asked.
AskSource(d, a, out) ==
  /\ Ask(d, a)
  /\ \/ /\ CanGive(d, a)
        /\ out = BytesAt(d, a)
        /\ Remember(d, a) /\ UNCHANGED incidents
     \/ /\ medium[d][a] = "past"
        /\ out = "io"
        /\ UNCHANGED <<incidents, windows>>
     \/ /\ MayRefuse(d, a) /\ kind[d] = "device"
        /\ Refused(d, a, out)
        /\ UNCHANGED windows
     \/ /\ MayRefuse(d, a) /\ kind[d] = "image"
        /\ out = "io"
        /\ UNCHANGED <<incidents, windows>>

\* FileSource::read_at: the imager's map, the closed device, the windows.
ReadAt(d, a, out) ==
  IF kind[d] = "image" /\ medium[d][a] \in {"partly", "refused"}
  THEN out = "io" /\ UNCHANGED io
  ELSE IF kind[d] = "device" /\ Closed(d)
  THEN out = "stop" /\ UNCHANGED io
  ELSE IF InWindow(d, a)
  THEN out = BytesAt(d, a) /\ UNCHANGED io
  ELSE AskSource(d, a, out)

\* FileSource::read_at_salvaging: an image is read again around what its map
\* or its file system refuses; a device is only read.
ReadAtSalvaging(d, a, out) ==
  IF kind[d] = "device"
  THEN ReadAt(d, a, out)
  ELSE /\ \/ CanGive(d, a) /\ out = BytesAt(d, a)
          \/ CanGive(d, a) /\ ~steady /\ out \in {"part", "void"}
          \/ medium[d][a] = "partly" /\ out = "part"
          \/ medium[d][a] = "refused" /\ out = "void"
          \/ medium[d][a] = "past" /\ out = "io"
       /\ UNCHANGED io

-----------------------------------------------------------------------------
\* One read of one leaf (PoolReader).

\* ReadCache::put: past its budget the cache starts over.
CachePut(d, a) ==
  cache' = IF Cardinality(cache) + 1 > Budget THEN {<<d, a>>} ELSE cache \cup {<<d, a>>}

\* What read_leaf and salvage_leaf answer before any device is asked.
Preamble(d, a, out) ==
  /\ \/ kind[d] = "missing" /\ out = "nomember"
     \/ kind[d] # "missing" /\ mediumStop /\ out = "stop"
     \/ kind[d] # "missing" /\ ~mediumStop /\ <<d, a>> \in cache /\ out = BytesAt(d, a)
  /\ UNCHANGED memory

\* Mutant of Asks: the remembered refusal is not looked at.
AsksOn(d, a) == kind[d] # "missing" /\ <<d, a>> \notin cache

\* The leaf is to be read from its device.
Asks(d, a) == kind[d] # "missing" /\ ~mediumStop /\ <<d, a>> \notin cache

\* What the answer leaves behind (io_error, ReadCache::put).
Keep(d, a, out) ==
  /\ mediumStop' = (mediumStop \/ out = "stop")
  /\ IF out \in Bytes THEN CachePut(d, a) ELSE UNCHANGED cache

ReadLeaf(d, a, out) ==
  \/ Preamble(d, a, out)
  \/ Asks(d, a) /\ ReadAt(d, a, out) /\ Keep(d, a, out)

SalvageLeaf(d, a, out) ==
  \/ Preamble(d, a, out)
  \/ Asks(d, a) /\ ReadAtSalvaging(d, a, out) /\ Keep(d, a, out)

-----------------------------------------------------------------------------
\* read_raw_verified, and the ways of a DVA.

Reading == phase = "read" /\ ret = "none"
top == stack[Len(stack)]
HasDva == top.i <= Len(Dvas[top.ptr])
dva == Dvas[top.ptr][top.i]
Reads(how) == Reading /\ HasDva /\ dva.how = how
SetTop(f) == stack' = [stack EXCEPT ![Len(stack)] = f]

\* Of two failures, the one worth reporting.
MoreTelling(last, next) ==
  IF last \in {"skip", "stop"} THEN last
  ELSE IF next = "nomember" THEN last ELSE next

\* PoolReader::verify: bytes with no checksum are taken as they come.
Accepts(p, bytes) == bytes = "true" \/ p \in Unchecked

\* The DVA is given up, e being the error kept; the next one is tried.
FailDva(f, e, mismatch) ==
  [f EXCEPT !.i = @ + 1, !.got = <<>>, !.child = 0, !.clean = TRUE,
            !.last = e, !.flagged = @ \/ mismatch]

\* Mutant of AfterLeaf: a mirror is given up at its first side.
AfterFirstLeaf(f, out) ==
  [f EXCEPT !.got = <<>>, !.i = @ + 1,
            !.last = MoreTelling(@, IF out \in Bytes THEN "mismatch" ELSE out),
            !.flagged = @ \/ out \in Bytes]

\* The leaf did not do; the next side of the mirror, then the next DVA.
AfterLeaf(f, out) ==
  LET more == Len(f.got) + 1 < Len(dva.cands)
  IN  [f EXCEPT !.got = IF more THEN Append(@, out) ELSE <<>>,
                !.i = IF more THEN @ ELSE @ + 1,
                !.last = MoreTelling(@, IF out \in Bytes THEN "mismatch" ELSE out),
                !.flagged = @ \/ out \in Bytes]

\* read_verified on a disk or a mirror.
TryLeaf ==
  /\ Reads("leaf")
  /\ LET c == dva.cands[Len(top.got) + 1] IN
     \E out \in Outcomes :
       /\ ReadLeaf(c.dev, c.at, out)
       /\ IF out \in Bytes /\ Accepts(top.ptr, out)
          THEN ret' = out /\ UNCHANGED stack
          ELSE SetTop(AfterLeaf(top, out)) /\ UNCHANGED ret
  /\ UNCHANGED <<world, loop>>

\* candidates_on: every candidate is read before any is looked at.
TryCandidate ==
  /\ \/ Reads("removed")
     \/ Reads("gang") /\ top.child = 0 /\ Len(stack) - 1 <= MaxDepth
  /\ Len(top.got) < Len(dva.cands)
  /\ LET c == dva.cands[Len(top.got) + 1] IN
     \E out \in Outcomes :
       /\ ReadLeaf(c.dev, c.at, out)
       /\ SetTop([top EXCEPT !.got = Append(@, out)])
  /\ UNCHANGED <<world, loop, ret>>

AllTried == Len(top.got) = Len(dva.cands)

\* remapped_candidates: way k joins the k-th side of every piece, or the last
\* side of a piece that has fewer.
Joins(D, k) ==
  {c \in DOMAIN D.cands :
     \/ D.cands[c].side = k
     \/ /\ D.cands[c].side < k
        /\ \A e \in DOMAIN D.cands :
             D.cands[e].piece = D.cands[c].piece => D.cands[e].side <= D.cands[c].side}

First(S) == CHOOSE n \in S : \A m \in S : n <= m

WayOutcome(k) ==
  LET failed == {c \in Joins(dva, k) : top.got[c] \in Errors}
  IN  IF failed # {} THEN top.got[First(failed)]
      ELSE IF \A c \in Joins(dva, k) : top.got[c] = "true" THEN "true" ELSE "false"

\* read_verified_remapped: the ways in order, of their failures the last kept.
JoinPieces ==
  /\ Reads("removed") /\ AllTried
  /\ LET ways == 1 .. dva.ways
         accepted == {k \in ways : WayOutcome(k) \in Bytes /\ Accepts(top.ptr, WayOutcome(k))}
         final == IF WayOutcome(dva.ways) \in Bytes THEN "mismatch" ELSE WayOutcome(dva.ways)
     IN  IF accepted # {}
         THEN ret' = WayOutcome(First(accepted)) /\ UNCHANGED stack
         ELSE /\ SetTop(FailDva(top, MoreTelling(top.last, final),
                                \E k \in ways : WayOutcome(k) \in Bytes))
              /\ UNCHANGED ret
  /\ UNCHANGED <<world, memory, loop>>

\* read_gang: a header that verifies is among the candidates, or not.
OpenGang ==
  /\ Reads("gang") /\ top.child = 0 /\ AllTried /\ Len(stack) - 1 <= MaxDepth
  /\ IF \E c \in DOMAIN top.got : top.got[c] = "true"
     THEN stack' = Append([stack EXCEPT ![Len(stack)].child = 1], Call(dva.children[1]))
     ELSE LET final == top.got[Len(top.got)]
          IN  SetTop(FailDva(top, IF final \in Bytes THEN "gang" ELSE final, FALSE))
  /\ UNCHANGED <<world, memory, loop, ret>>

GangTooDeep ==
  /\ Reads("gang") /\ Len(stack) - 1 > MaxDepth
  /\ SetTop(FailDva(top, "gang", FALSE))
  /\ UNCHANGED <<world, memory, loop, ret>>

\* A DVA of a vdev nobody described.
UnknownVdev ==
  /\ Reads("unknown")
  /\ SetTop(FailDva(top, "unknown", FALSE))
  /\ UNCHANGED <<world, memory, loop, ret>>

NoCopyLeft ==
  /\ Reading /\ ~HasDva
  /\ ret' = top.last
  /\ UNCHANGED <<world, memory, loop, stack>>

\* A child of a gang block came back: the next one, or all of it is verified.
ChildRead ==
  /\ phase = "read" /\ ret # "none" /\ Len(stack) > 1
  /\ LET below == SubSeq(stack, 1, Len(stack) - 2)
         f == stack[Len(stack) - 1]
         children == Dvas[f.ptr][f.i].children
         clean == f.clean /\ ret = "true"
         whole == IF clean THEN "true" ELSE "false"
     IN  IF ret \in Errors
         THEN stack' = Append(below, FailDva(f, ret, FALSE)) /\ ret' = "none"
         ELSE IF f.child < Len(children)
         THEN /\ stack' = below \o << [f EXCEPT !.child = @ + 1, !.clean = clean],
                                      Call(children[f.child + 1]) >>
              /\ ret' = "none"
         ELSE IF Accepts(f.ptr, whole)
         THEN stack' = Append(below, f) /\ ret' = whole
         ELSE stack' = Append(below, FailDva(f, "mismatch", TRUE)) /\ ret' = "none"
  /\ UNCHANGED <<world, memory, loop>>

-----------------------------------------------------------------------------
\* extract_from: one block after the other.

block == vol[Len(results) + 1]

Deliver(got, why) ==
  /\ results' = Append(results, [got |-> got, why |-> why])
  /\ phase' = IF got \in {"stop", "aborted"} THEN "done" ELSE "next"
  /\ level' = 0 /\ err' = "none" /\ sal' = NoSalvage

\* Nothing is between the dnode and a hole.
HoleBlock ==
  /\ phase = "next" /\ Len(results) < Len(vol)
  /\ block.path = <<>>
  /\ Deliver("hole", "none")
  /\ UNCHANGED <<world, memory, stack, ret>>

StartBlock ==
  /\ phase = "next" /\ Len(results) < Len(vol)
  /\ block.path # <<>>
  /\ phase' = "read" /\ level' = 1
  /\ stack' = <<Call(block.path[1])>>
  /\ UNCHANGED <<world, memory, ret, err, sal, results>>

\* The end of read_block: the stop first, then the bytes, and of the
\* failures a mismatch before any other.
BlockAnswer ==
  IF mediumStop THEN "stop"
  ELSE IF ret \in Bytes THEN IF top.ptr \in Sealed THEN "sealed" ELSE ret
  ELSE IF top.flagged THEN "mismatch" ELSE ret

\* The block pointer was found; salvage may be tried at all.
AtData == level = Len(block.path) /\ ~block.hole
Salvageable(e) == e = "io" /\ AtData /\ top.ptr \notin Packed

BlockRead ==
  /\ phase = "read" /\ ret # "none" /\ Len(stack) = 1
  /\ ret' = "none"
  /\ LET a == BlockAnswer IN
     \/ /\ a \in Bytes /\ level < Len(block.path)
        /\ level' = level + 1
        /\ stack' = <<Call(block.path[level + 1])>>
        /\ UNCHANGED <<phase, err, sal, results>>
     \/ /\ a \in Bytes /\ level = Len(block.path)
        /\ Deliver(IF block.hole THEN "hole" ELSE a, "none")
        /\ stack' = <<>>
     \/ /\ a = "stop" /\ Deliver("stop", a) /\ stack' = <<>>
     \/ /\ a \in Errors \ {"stop"} /\ strict
        /\ Deliver("aborted", a) /\ stack' = <<>>
     \/ /\ a \in Errors \ {"stop"} /\ ~strict /\ ~Salvageable(a)
        /\ Deliver("zero", a) /\ stack' = <<>>
     \/ /\ a \in Errors \ {"stop"} /\ ~strict /\ Salvageable(a)
        /\ phase' = "salvage" /\ err' = a /\ sal' = NoSalvage
        /\ stack' = <<>>
        /\ UNCHANGED <<level, results>>
  /\ UNCHANGED <<world, memory>>

\* The salvage goes over every leaf of every DVA that is on a disk or mirror;
\* the explanation of a failed one (why_not_salvaged) over the first DVA's.
dataPtr == block.path[Len(block.path)]
salDva == Dvas[dataPtr][sal.i]
SalvageEnds ==
  \/ sal.i > Len(Dvas[dataPtr])
  \/ phase = "explain" /\ sal.i > 1
  \/ sal.best \in Bytes

Lost(kept) == CASE kept \in Bytes -> 0 [] kept = "part" -> 1 [] kept = "void" -> 2 [] OTHER -> 3

\* Mutant of Better: the last copy wins.
BetterLast(new, old) == TRUE

\* A copy that loses fewer bytes is preferred.
Better(new, old) == Lost(new) < Lost(old)

TrySalvage ==
  /\ phase \in {"salvage", "explain"} /\ ~SalvageEnds
  /\ salDva.how = "leaf"
  /\ LET c == salDva.cands[sal.c] IN
     \E out \in Outcomes \cup Kept :
       /\ SalvageLeaf(c.dev, c.at, out)
       /\ sal' = [i |-> IF sal.c < Len(salDva.cands) THEN sal.i ELSE sal.i + 1,
                  c |-> IF sal.c < Len(salDva.cands) THEN sal.c + 1 ELSE 1,
                  best |-> IF out \in Kept /\ Better(out, sal.best) THEN out ELSE sal.best]
  /\ UNCHANGED <<world, stack, ret, phase, level, err, results>>

\* salvage_dva refuses a gang block, a removed vdev, an unknown one.
NotSalvaged ==
  /\ phase \in {"salvage", "explain"} /\ ~SalvageEnds
  /\ salDva.how # "leaf"
  /\ sal' = [sal EXCEPT !.i = @ + 1, !.c = 1]
  /\ UNCHANGED <<world, memory, stack, ret, phase, level, err, results>>

\* Mutant of SalvageVerifies: whatever read whole on retry is the block.
SalvageTrusts == TRUE

\* Only a checksum makes what read whole on retry the block.
SalvageVerifies == sal.best = "true" /\ dataPtr \notin Unchecked

EndSalvage ==
  /\ phase = "salvage" /\ SalvageEnds
  /\ \/ sal.best \in Bytes /\ SalvageVerifies /\ Deliver(sal.best, "none")
     \/ sal.best \in {"part", "void"} /\ Deliver(sal.best, err)
     \/ /\ sal.best = "none" \/ (sal.best \in Bytes /\ ~SalvageVerifies)
        /\ phase' = "explain" /\ sal' = NoSalvage
        /\ UNCHANGED <<level, err, results>>
  /\ UNCHANGED <<world, memory, stack, ret>>

EndExplain ==
  /\ phase = "explain" /\ SalvageEnds
  /\ Deliver("zero", err)
  /\ UNCHANGED <<world, memory, stack, ret>>

Finish ==
  /\ phase = "next" /\ Len(results) = Len(vol)
  /\ phase' = "done"
  /\ UNCHANGED <<world, memory, stack, ret, level, err, sal, results>>

Done == phase = "done" /\ UNCHANGED vars

Next ==
  \/ HoleBlock
  \/ StartBlock
  \/ TryLeaf
  \/ TryCandidate
  \/ JoinPieces
  \/ OpenGang
  \/ GangTooDeep
  \/ UnknownVdev
  \/ NoCopyLeft
  \/ ChildRead
  \/ BlockRead
  \/ TrySalvage
  \/ NotSalvaged
  \/ EndSalvage
  \/ EndExplain
  \/ Finish
  \/ Done

Spec == Init /\ [][Next]_vars

-----------------------------------------------------------------------------
\* Properties.

\* The kinds of values the variables hold, and the bounds on what is kept.
WorldOK ==
  /\ kind \in [Devices -> Kinds]
  /\ medium \in [Devices -> [Addresses -> Cells]]
  /\ mayFail \in BOOLEAN /\ strict \in BOOLEAN /\ steady \in BOOLEAN
  /\ vol \in Volumes
MemoryOK ==
  /\ incidents \in Seq([dev : Devices, at : Addresses, stopped : BOOLEAN])
  /\ windows \in [Devices -> Seq(Addresses)]
  /\ \A d \in Devices : Len(windows[d]) <= WINDOWS
  /\ mediumStop \in BOOLEAN
  /\ cache \subseteq Slots /\ Cardinality(cache) <= Budget
  /\ asked \in [Devices -> [Addresses -> 0 .. 2]]
CallsOK ==
  /\ stack \in Seq(Frame)
  /\ ret \in Outcomes \cup {"none"}
LoopOK ==
  /\ phase \in {"next", "read", "salvage", "explain", "done"}
  /\ level \in Nat
  /\ err \in Errors \cup {"none"}
  /\ sal \in [i : Nat \ {0}, c : Nat \ {0}, best : Kept \cup {"none"}]
  /\ results \in Seq([got : Kept \cup {"hole", "zero", "stop", "aborted"},
                      why : Errors \cup {"none"}])
TypeOK == WorldOK /\ MemoryOK /\ CallsOK /\ LoopOK

Allowed == IF mayFail THEN MayFailLimit ELSE 1

\* The ledger never holds more refusals than the policy allows (one, or
\* MAY_FAIL_LIMIT with --device-may-fail); the one that fills it, and no
\* other, stops the run; and the reader remembers the stop from that very
\* read on, whichever of its many readers asked.
LedgerKeepsPolicy ==
  /\ Len(incidents) <= Allowed
  /\ \A n \in DOMAIN incidents : incidents[n].stopped <=> n = Allowed
  /\ mediumStop <=> Len(incidents) = Allowed

\* Once the ledger holds the refusal that stopped the run, no device is asked
\* anything more, that one or another: not by the block reader, nor for an
\* indirect block, nor by the salvage.
NothingAskedAfterStop ==
  [][(\E n \in DOMAIN incidents : incidents[n].stopped) =>
        asked' = asked /\ incidents' = incidents]_vars

\* Once a refusal has stopped the run no block is delivered whole any more,
\* whatever other copies of it gave before the refusal or might still give from
\* memory: the block being read is the stop and the end of the volume, and a
\* block being salvaged is left as far as it was kept when the refusal came,
\* in part, empty or zeros.  Only holes, which nothing is read for, may come
\* between the two, and no other salvage begins.
StopWinsOverTheBlock ==
  [][mediumStop =>
       /\ results' # results =>
            \/ results' = Append(results, [got |-> "stop", why |-> "stop"]) /\ phase' = "done"
            \/ phase = "next" /\ results' = Append(results, [got |-> "hole", why |-> "none"])
            \/ /\ phase \in {"salvage", "explain"}
               /\ \E got \in {"part", "void", "zero"} :
                    results' = Append(results, [got |-> got, why |-> err])
       /\ phase' \in {"salvage", "explain"} =>
            phase \in {"salvage", "explain"} /\ sal'.best \in {"none", sal.best}]_vars

\* A copy is there to be had: of a leaf, of one way to join the pieces, of a
\* header and every child (level n of gang nesting still to go).  Of a child
\* without a checksum the first copy is taken, right or wrong, so a gang block
\* that has one can be counted on only if it has none itself.
GoodAt(c) == kind[c.dev] # "missing" /\ medium[c.dev][c.at] = "good"
DvaGives(D, children) ==
  \/ D.how = "leaf" /\ \E c \in DOMAIN D.cands : GoodAt(D.cands[c])
  \/ D.how = "removed" /\ \E k \in 1 .. D.ways : \A c \in Joins(D, k) : GoodAt(D.cands[c])
  \/ /\ D.how = "gang" /\ \E c \in DOMAIN D.cands : GoodAt(D.cands[c])
     /\ \A x \in DOMAIN D.children : D.children[x] \in children
Fit(p, children) == IF p \in Unchecked THEN children ELSE children \ Unchecked
Obtainable[n \in Nat] ==
  {p \in Pointers : \E x \in DOMAIN Dvas[p] :
     /\ n = 0 => Dvas[p][x].how # "gang"
     /\ DvaGives(Dvas[p][x], IF n = 0 THEN {} ELSE Fit(p, Obtainable[n - 1]))}

\* If some copy of every block on the way is good and on a member that is
\* there, the block is not written as zeros, whatever is wrong with the other
\* copies: it is delivered, or a refusal stops the run on it.
AGoodCopyIsFound ==
  steady =>
    \A k \in DOMAIN results :
      results[k].got \notin Bytes \cup {"hole", "stop"} =>
        \E x \in DOMAIN vol[k].path :
          vol[k].path[x] \notin Obtainable[MaxDepth + 1] \/ vol[k].path[x] \in Sealed

\* Bytes that are not the volume's are delivered as a whole block only where
\* no checksum could tell: never of a block that has one, through no copy,
\* gang child, joined piece or second reading.
OnlyUncheckedBlocksAreWrong ==
  \A k \in DOMAIN results :
    results[k].got = "false" => vol[k].path[Len(vol[k].path)] \in Unchecked

DataPtr(k) == vol[k].path[Len(vol[k].path)]
PartlyThere(k) ==
  \E x \in DOMAIN Dvas[DataPtr(k)] :
    /\ Dvas[DataPtr(k)][x].how = "leaf"
    /\ \E n \in DOMAIN Dvas[DataPtr(k)][x].cands :
         LET c == Dvas[DataPtr(k)][x].cands[n]
         IN  kind[c.dev] = "image" /\ medium[c.dev][c.at] = "partly"

\* A refusal stopped the run while block k was salvaged: nothing was read
\* after it.
StoppedAt(k) ==
  mediumStop /\ \A m \in DOMAIN results : m > k => results[m].got \in {"hole", "stop"}

\* A block read as far as its imagers read it is kept from the side that lost
\* least: it is not left empty while some image holds part of it, unless a
\* device that was asked again for another side stopped the run before that
\* image's turn.
KeepsTheBestSide ==
  steady =>
    \A k \in DOMAIN results :
      results[k].got = "void" /\ PartlyThere(k) => StoppedAt(k)
=============================================================================
