-------------------------- MODULE DumpResumeProofs --------------------------
(***************************************************************************)
(* Theorems about DumpResume, for every number of blocks, every set of     *)
(* images, every placement of holes and every combination of faults.       *)
(***************************************************************************)
EXTENDS DumpResume, SequenceTheorems, TLAPS

USE NAssumption, TotalAssumption, HolesAssumption

-----------------------------------------------------------------------------
\* Lemmas about the operators the model is built from.

\* Reading a block, whatever it is, yields a cell.
LEMMA TruthIsACell ==
  ASSUME NEW i \in Images, NEW b
  PROVE  Truth(i, b) \in Cell
BY DEF Truth, Cell

\* Nothing an image's data can be taken for is a block of zeros.
LEMMA DataIsNotZero ==
  ASSUME NEW i \in Images
  PROVE  Data(i) # Zero /\ Part(i) # Zero /\ Data(i) # Part(i)
BY ImagesAssumption DEF Data, Part, Zero

\* A run starts at a block of the volume, or at its end.
LEMMA ResumePointIsABlock ==
  ASSUME TypeOK, NEW i \in Images, NEW r
  PROVE  ResumePoint(i, r) \in 0 .. N
BY DEF TypeOK, ResumePoint

\* Whatever becomes of the state file, it reads as a state or as none.
LEMMA StateStaysAState ==
  ASSUME TypeOK
  PROVE  LET Ok == state' \in [img : Images \cup {NoImage}, done : 0 .. N]
                   /\ owned' \in BOOLEAN IN
         /\ \A k \in 0 .. N : WriteState(k) => Ok
         /\ ClearState => Ok
         /\ UNCHANGED <<state, owned>> => Ok
         /\ state' = NoState /\ owned' = FALSE => Ok
<1>1. NoState \in [img : Images \cup {NoImage}, done : 0 .. N]
  BY DEF NoState
<1>2. \A k \in 0 .. N : [img |-> img, done |-> k] \in [img : Images \cup {NoImage}, done : 0 .. N]
  BY DEF TypeOK
<1>3. state \in [img : Images \cup {NoImage}, done : 0 .. N] /\ owned \in BOOLEAN
  BY DEF TypeOK
<1>4. QED
  BY <1>1, <1>2, <1>3 DEF WriteState, ClearState

\* The prefix a digest begins with is as long as the run says.
LEMMA PrefixDigestIsASequence ==
  ASSUME TypeOK, NEW from \in 0 .. N
  PROVE  /\ PrefixDigest(from) \in Seq(Cell)
         /\ Len(PrefixDigest(from)) = from
         /\ \A b \in Blocks : b < from => PrefixDigest(from)[b + 1] = file[b]
<1>1. \A k \in 1 .. from : file[k - 1] \in Cell
  BY DEF TypeOK, Blocks
<1>2. PrefixDigest(from) \in [1 .. from -> Cell]
  BY <1>1 DEF PrefixDigest
<1>3. PrefixDigest(from) \in Seq(Cell) /\ Len(PrefixDigest(from)) = from
  BY <1>2
<1>4. QED
  BY <1>3 DEF PrefixDigest, Blocks

\* The tail of zeros a finished image is hashed with completes the volume.
LEMMA ZeroTail ==
  ASSUME NEW d \in Seq(Cell), NEW k \in 0 .. N
  PROVE  LET tail == [j \in 1 .. N - k |-> Zero] IN
         /\ d \o tail \in Seq(Cell)
         /\ Len(d \o tail) = Len(d) + (N - k)
         /\ \A j \in 1 .. Len(d) : (d \o tail)[j] = d[j]
         /\ \A j \in Len(d) + 1 .. Len(d) + (N - k) : (d \o tail)[j] = Zero
<1> DEFINE tail == [j \in 1 .. N - k |-> Zero]
<1>1. tail \in Seq(Cell) /\ Len(tail) = N - k
  <2>1. tail \in [1 .. N - k -> Cell]
    BY DEF Cell
  <2>2. N - k \in Nat
    OBVIOUS
  <2>3. QED
    BY <2>1, <2>2
<1>2. \A j \in 1 .. N - k : tail[j] = Zero
  OBVIOUS
<1> HIDE DEF tail
<1>3. QED
  BY <1>1, <1>2, ConcatProperties DEF tail

-----------------------------------------------------------------------------
\* Type correctness.

\* The state file, the output and the run begin with such values.
LEMMA TypeInit == Init => TypeOK
<1> SUFFICES ASSUME Init PROVE TypeOK
  OBVIOUS
<1>1. file \in [Blocks -> Cell]
  BY DEF Init, Cell
<1>2. state \in [img : Images \cup {NoImage}, done : 0 .. N]
  BY DEF Init, NoState
<1>3. digest \in Seq(Cell) /\ N \in 0 .. N /\ 0 \in 0 .. N
  BY DEF Init
<1> QED
  BY <1>1, <1>2, <1>3 DEF Init, TypeOK, NoBad

\* Every step keeps them.
LEMMA TypeStep == TypeOK /\ [Next]_vars => TypeOK'
<1> SUFFICES ASSUME TypeOK, [Next]_vars PROVE TypeOK'
  OBVIOUS
<1> USE DEF TypeOK
<1>1. ASSUME NEW i \in Images, NEW s \in Modes, NEW r \in Resumes, Open(i, s, r)
      PROVE  TypeOK'
  <2> DEFINE from == ResumePoint(i, r)
  <2>1. from \in 0 .. N
    BY ResumePointIsABlock
  <2>2. PrefixDigest(from) \in Seq(Cell)
    BY <2>1, PrefixDigestIsASequence
  <2>3. s \in BOOLEAN
    BY WorldAssumption
  <2>4. file' \in [Blocks -> Cell]
    BY <1>1 DEF Open, OpenOutput, Cell
  <2>5. flen' \in 0 .. N /\ gaps' \subseteq Blocks
    BY <1>1 DEF Open, OpenOutput
  <2>6. owned' \in BOOLEAN /\ pure' \in BOOLEAN
    BY <1>1 DEF Open, OpenOutput
  <2>7. start' \in 0 .. N /\ blk' \in 0 .. N /\ digest' \in Seq(Cell)
    BY <1>1, <2>1, <2>2 DEF Open
  <2>8. firstBad' \in 0 .. N /\ state' = state /\ img' = i /\ strict' = s
        /\ pc' = "loop" /\ how' = "none" /\ stop' = FALSE /\ code' = "running"
    BY <1>1 DEF Open, NoBad
  <2> QED
    BY <2>3, <2>4, <2>5, <2>6, <2>7, <2>8
<1>2. CASE OpenFails
  BY <1>2 DEF OpenFails, evidenceVars, history
<1>3. ASSUME NEW cell \in Cell, AtBlock, Advance(cell)
      PROVE  /\ digest' \in Seq(Cell) /\ blk' \in 0 .. N /\ blk' = blk + 1
             /\ state' \in [img : Images \cup {NoImage}, done : 0 .. N]
             /\ owned' \in BOOLEAN
  <2>1. blk < N /\ blk + 1 \in 0 .. N
    BY <1>3 DEF AtBlock
  <2>2. digest' \in Seq(Cell)
    BY <1>3 DEF Advance
  <2>3. state' \in [img : Images \cup {NoImage}, done : 0 .. N] /\ owned' \in BOOLEAN
    BY <1>3, <2>1, StateStaysAState DEF Advance
  <2>4. QED
    BY <1>3, <2>1, <2>2, <2>3 DEF Advance
<1>4. ASSUME NEW cell \in Cell, AtBlock, WriteAt(blk, cell)
      PROVE  file' \in [Blocks -> Cell] /\ flen' \in 0 .. N
  BY <1>4 DEF WriteAt, AtBlock, Blocks
<1>5. CASE ReadBlock
  BY <1>5, <1>3, <1>4, TruthIsACell DEF ReadBlock, Advance
<1>6. CASE ZeroBlock
  <2>1. Zero \in Cell /\ blk \in Blocks
    BY <1>6 DEF Cell, ZeroBlock, AtBlock, Blocks
  <2> QED
    BY <1>6, <2>1, <1>3 DEF ZeroBlock, Advance, LogBad
<1>7. CASE SalvageBlock
  <2>1. {Zero, Part(img)} \subseteq Cell /\ blk \in Blocks
    BY <1>7 DEF Cell, SalvageBlock, AtBlock, Blocks
  <2> QED
    BY <1>7, <2>1, <1>3, <1>4 DEF SalvageBlock, Advance, LogBad
<1>8. CASE StrictAbort \/ MediumStop
  BY <1>8 DEF StrictAbort, MediumStop, AbortAt, LogBad, evidenceVars, history
<1>9. CASE WriteFails
  BY <1>9 DEF WriteFails, history, Cell, AtBlock, Blocks
<1>10. CASE FinishImage
  <2>1. digest' \in Seq(Cell)
    BY <1>10, ZeroTail DEF FinishImage
  <2> QED
    BY <1>10, <2>1 DEF FinishImage, history, Ending
<1>11. CASE FinishFails
  BY <1>11 DEF FinishFails, history
<1>12. CASE Settle
  <2>1. state' \in [img : Images \cup {NoImage}, done : 0 .. N] /\ owned' \in BOOLEAN
    <3>1. ContinueAt \in 0 .. N
      BY DEF ContinueAt
    <3> QED
      BY <1>12, <3>1, StateStaysAState DEF Settle
  <2>2. code' \in {"ok", "partial", "interrupted", "medium"}
    BY <1>12 DEF Settle, ExitCode
  <2> QED
    BY <1>12, <2>1, <2>2 DEF Settle
<1>13. CASE Interrupt
  BY <1>13 DEF Interrupt, evidenceVars, history
<1>14. CASE Kill
  <2>1. file' \in [Blocks -> Cell]
    BY <1>14 DEF Kill, Cell
  <2>2. state' \in [img : Images \cup {NoImage}, done : 0 .. N] /\ owned' \in BOOLEAN
    BY <1>14, StateStaysAState DEF Kill
  <2> QED
    BY <1>14, <2>1, <2>2 DEF Kill
<1>15. CASE UNCHANGED vars
  BY <1>15 DEF vars, evidenceVars, runVars, history
<1>16. QED
  BY <1>1, <1>2, <1>5, <1>6, <1>7, <1>8, <1>9, <1>10, <1>11, <1>12, <1>13, <1>14, <1>15
     DEF Next

\* Every variable keeps the kind of value the program keeps there: in
\* particular no run is ever at, starts at, or leaves a state file naming a
\* block outside the volume.
THEOREM TypeCorrect == Spec => []TypeOK
BY TypeInit, TypeStep, PTL DEF Spec

-----------------------------------------------------------------------------
\* The inductive invariant.

\* Over an output no foreign state was resumed into, nothing stands where the
\* volume is zeros, and no run gave up a block the tree does not reach.
NothingStray ==
  pure => /\ \A b \in Blocks : Truth(img, b) = Zero => file[b] = Zero
          /\ \A b \in gaps : b < Total[img]

\* The run is at or past the block it began at, the state file is not ahead
\* of it, and its first bad block lies between.
RunInBounds ==
  pc # "idle" =>
    /\ code = "running"
    /\ start <= blk
    /\ owned => state.done <= blk
    /\ firstBad # NoBad => start <= firstBad /\ firstBad <= blk

\* What extract_from's return value says of where it stopped.
HowItEnded ==
  /\ pc = "loop" => how = "none"
  /\ pc = "settle" /\ how \in {"aborted", "medium"} => firstBad # NoBad
  /\ pc = "settle" /\ how = "whole" => blk >= Total[img] /\ flen = N

\* Every block behind the run is settled, and a run with nothing to report
\* has given up none of those it visited.
BehindTheRun ==
  pc # "idle" /\ pure =>
    /\ \A b \in Blocks : b < blk => Settled(b)
    /\ firstBad = NoBad => \A b \in gaps : b < start \/ b >= blk

\* A run that did not resume finds nothing ahead of it in the output.
FreshAhead ==
  pc # "idle" /\ start = 0 => \A b \in Blocks : b >= blk => file[b] = Zero

IInv ==
  /\ TypeOK
  /\ NothingStray
  /\ RunInBounds
  /\ HowItEnded
  /\ BehindTheRun
  /\ FreshAhead
  /\ ClaimHolds
  /\ DigestFollowsFile
  /\ ExitZeroLosesNothingNew

-----------------------------------------------------------------------------
\* Each action keeps the inductive invariant.

\* Taking up the output: an output created anew is all zeros and carries no
\* claim; one resumed carries the claim of ClaimHolds, or is no longer pure.
LEMMA OpenKeepsInv ==
  ASSUME IInv, TypeOK', NEW i \in Images, NEW s \in Modes, NEW r \in Resumes, Open(i, s, r)
  PROVE  IInv'
<1> DEFINE from == ResumePoint(i, r)
<1>1. from \in 0 .. N
  BY ResumePointIsABlock DEF IInv
<1>2. /\ pc' = "loop" /\ how' = "none" /\ code' = "running" /\ img' = i
      /\ start' = from /\ blk' = from /\ firstBad' = NoBad /\ state' = state
      /\ digest' = PrefixDigest(from)
  BY DEF Open
<1>3. CASE from = 0
  <2>1. /\ file' = [b \in Blocks |-> Zero] /\ flen' = 0
        /\ ~owned' /\ pure' /\ gaps' = {}
    BY <1>3 DEF Open, OpenOutput
  <2>2. NothingStray' /\ BehindTheRun' /\ FreshAhead'
    BY <1>2, <1>3, <2>1 DEF NothingStray, BehindTheRun, FreshAhead, Blocks
  <2>3. RunInBounds' /\ HowItEnded'
    BY <1>2, <1>3, <2>1 DEF RunInBounds, HowItEnded
  <2>4. ClaimHolds' /\ ExitZeroLosesNothingNew'
    BY <1>2, <2>1 DEF ClaimHolds, ExitZeroLosesNothingNew
  <2>5. DigestFollowsFile'
    BY <1>1, <1>2, <1>3, PrefixDigestIsASequence DEF DigestFollowsFile, IInv, Blocks
  <2>6. QED
    BY <2>2, <2>3, <2>4, <2>5 DEF IInv
<1>4. CASE from > 0
  <2>1. /\ file' = file /\ flen' = flen /\ owned' = owned /\ gaps' = gaps
        /\ pure' = (pure /\ owned)
    BY <1>4 DEF Open, OpenOutput
  <2>2. from = state.done /\ state.img = i
    BY <1>4 DEF ResumePoint
  <2>3. ASSUME pure'
        PROVE  owned /\ pure /\ img = i /\ \A b \in Blocks : b < from => Settled(b)
    BY <2>1, <2>2, <2>3 DEF IInv, ClaimHolds
  <2>4. NothingStray'
    BY <1>2, <2>1, <2>3 DEF IInv, NothingStray
  <2>5. BehindTheRun'
    BY <1>1, <1>2, <2>1, <2>3, TypeOK DEF IInv, BehindTheRun, Settled, TypeOK, Blocks
  <2>6. RunInBounds' /\ HowItEnded' /\ FreshAhead'
    BY <1>1, <1>2, <1>4, <2>2 DEF RunInBounds, HowItEnded, FreshAhead
  <2>7. ClaimHolds' /\ ExitZeroLosesNothingNew'
    BY <1>2, <2>1, <2>3 DEF IInv, ClaimHolds, ExitZeroLosesNothingNew, Settled
  <2>8. DigestFollowsFile'
    BY <1>1, <1>2, <2>1, PrefixDigestIsASequence DEF DigestFollowsFile, IInv
  <2>9. QED
    BY <2>4, <2>5, <2>6, <2>7, <2>8 DEF IInv
<1>5. QED
  BY <1>1, <1>3, <1>4

\* What visiting a block comes to, whichever way it goes: one cell is hashed
\* and stands at the block, the volume's own unless the block is given up.
LEMMA AVisitSettlesItsBlock ==
  ASSUME TypeOK, Visit
  PROVE  /\ blk \in Blocks /\ blk < Total[img]
         /\ \E cell \in Cell :
              /\ Advance(cell)
              /\ file' = IF cell = Zero THEN file ELSE [file EXCEPT ![blk] = cell]
              /\ cell # Zero => Truth(img, blk) # Zero
              /\ \/ cell = Truth(img, blk) /\ gaps' = gaps \ {blk} /\ firstBad' = firstBad
                 \/ gaps' = gaps \cup {blk} /\ firstBad' = IF firstBad = NoBad THEN blk ELSE firstBad
<1>1. blk \in Blocks /\ blk < Total[img]
  BY DEF TypeOK, Visit, ReadBlock, ZeroBlock, SalvageBlock, AtBlock, Blocks
<1>2. CASE ReadBlock
  BY <1>1, <1>2, TruthIsACell DEF ReadBlock, WriteAt, TypeOK
<1>3. CASE ZeroBlock
  BY <1>1, <1>3 DEF ZeroBlock, LogBad, Cell
<1>4. CASE SalvageBlock
  <2>1. PICK cell \in {Zero, Part(img)} : WriteAt(blk, cell) /\ Advance(cell)
    BY <1>4 DEF SalvageBlock
  <2>2. cell \in Cell
    BY <2>1 DEF Cell, TypeOK
  <2>3. QED
    BY <1>1, <1>4, <2>1, <2>2 DEF SalvageBlock, WriteAt, LogBad
<1>5. QED
  BY <1>2, <1>3, <1>4 DEF Visit

LEMMA VisitKeepsInv ==
  ASSUME IInv, TypeOK', Visit
  PROVE  IInv'
<1> USE DEF IInv
<1>1. blk \in Blocks /\ blk < Total[img] /\ pc = "loop"
  BY AVisitSettlesItsBlock DEF Visit, ReadBlock, ZeroBlock, SalvageBlock, AtBlock
<1>2. PICK cell \in Cell :
        /\ Advance(cell)
        /\ file' = IF cell = Zero THEN file ELSE [file EXCEPT ![blk] = cell]
        /\ cell # Zero => Truth(img, blk) # Zero
        /\ \/ cell = Truth(img, blk) /\ gaps' = gaps \ {blk} /\ firstBad' = firstBad
           \/ gaps' = gaps \cup {blk} /\ firstBad' = IF firstBad = NoBad THEN blk ELSE firstBad
  BY AVisitSettlesItsBlock
<1>3. /\ pc' = pc /\ img' = img /\ start' = start /\ how' = how /\ code' = code
      /\ pure' = pure /\ blk' = blk + 1 /\ digest' = Append(digest, cell)
  BY <1>2 DEF Advance
<1>4. \A b \in Blocks : b # blk => file'[b] = file[b]
  BY <1>2 DEF TypeOK
<1>5. file'[blk] = IF cell = Zero THEN file[blk] ELSE cell
  BY <1>1, <1>2 DEF TypeOK
<1>6. blk \in Nat /\ start \in Nat /\ N \in Nat
  BY DEF TypeOK
<1>7. NothingStray'
  BY <1>1, <1>2, <1>3, <1>4, <1>5 DEF NothingStray
<1>8. owned' => \/ state'.done = blk + 1 /\ state'.img = img
                \/ owned /\ state' = state
  <2>1. \/ state' = state /\ (owned' => owned)
        \/ state' = [img |-> img, done |-> blk + 1]
        \/ ~owned'
    <3>1. CASE UNCHANGED <<state, owned>>
      BY <3>1
    <3>2. CASE WriteState(blk + 1)
      BY <3>2 DEF WriteState
    <3>3. QED
      BY <1>2, <3>1, <3>2 DEF Advance
  <2>2. QED
    BY <2>1
<1>9. RunInBounds'
  BY <1>1, <1>2, <1>3, <1>6, <1>8 DEF RunInBounds, TypeOK, NoBad
<1>10. HowItEnded'
  BY <1>1, <1>3 DEF HowItEnded
<1>11. pure => \A b \in Blocks : b < blk + 1 => Settled(b)'
  <2> SUFFICES ASSUME pure, NEW b \in Blocks, b < blk + 1 PROVE Settled(b)'
    OBVIOUS
  <2>1. CASE b = blk
    BY <1>1, <1>2, <1>3, <1>5, <2>1 DEF Settled, NothingStray
  <2>2. CASE b # blk
    <3>1. Settled(b)
      BY <1>1, <1>6, <2>2 DEF BehindTheRun, Blocks
    <3>2. QED
      BY <1>2, <1>3, <1>4, <2>2, <3>1 DEF Settled
  <2>3. QED
    BY <2>1, <2>2
<1>12. BehindTheRun'
  <2>1. ASSUME pure, firstBad' = NoBad, NEW b \in gaps'
        PROVE  b < start \/ b >= blk + 1
    <3>1. gaps' = gaps \ {blk} /\ firstBad = NoBad
      BY <1>1, <1>2, <2>1 DEF NoBad, Blocks
    <3>2. QED
      BY <1>1, <1>6, <2>1, <3>1 DEF BehindTheRun, TypeOK, Blocks
  <2>2. QED
    BY <1>3, <1>11, <2>1 DEF BehindTheRun
<1>13. FreshAhead'
  BY <1>1, <1>3, <1>4, <1>6 DEF FreshAhead, Blocks
<1>14. ClaimHolds'
  <2> SUFFICES ASSUME owned', pure'
               PROVE  state'.img = img /\ \A b \in Blocks : b < state'.done => Settled(b)'
    BY <1>3 DEF ClaimHolds
  <2>1. CASE state'.done = blk + 1 /\ state'.img = img
    BY <1>3, <1>11, <2>1
  <2>2. CASE owned /\ state' = state
    BY <1>1, <1>3, <1>6, <1>11, <2>2 DEF ClaimHolds, RunInBounds, TypeOK, Blocks
  <2>3. QED
    BY <1>8, <2>1, <2>2
<1>15. DigestFollowsFile'
  <2>1. Len(digest) = blk /\ digest \in Seq(Cell) /\ how = "none"
    BY <1>1 DEF DigestFollowsFile, HowItEnded, TypeOK
  <2>2. Len(digest') = blk + 1 /\ digest'[blk + 1] = cell
    BY <1>3, <2>1
  <2>3. \A b \in Blocks : b < blk => digest'[b + 1] = digest[b + 1]
    BY <1>3, <1>6, <2>1 DEF Blocks
  <2>4. ASSUME NEW b \in Blocks, b < blk + 1
        PROVE  \/ digest'[b + 1] = file'[b]
               \/ start > 0 /\ b >= start /\ digest'[b + 1] = Zero
    <3>1. CASE b = blk
      BY <1>1, <1>5, <1>6, <2>2, <3>1 DEF FreshAhead, RunInBounds
    <3>2. CASE b < blk
      <4>1. digest'[b + 1] = digest[b + 1] /\ file'[b] = file[b]
        BY <1>4, <1>6, <2>3, <3>2
      <4>2. digest[b + 1] = file[b] \/ (start > 0 /\ b >= start /\ digest[b + 1] = Zero)
        BY <1>1, <2>1, <3>2 DEF DigestFollowsFile
      <4>3. QED
        BY <4>1, <4>2
    <3>3. QED
      BY <1>6, <2>4, <3>1, <3>2 DEF Blocks
  <2>5. QED
    BY <1>3, <2>1, <2>2, <2>4 DEF DigestFollowsFile
<1>16. ExitZeroLosesNothingNew'
  BY <1>1, <1>3 DEF ExitZeroLosesNothingNew, RunInBounds
<1>17. QED
  BY <1>7, <1>9, <1>10, <1>12, <1>13, <1>14, <1>15, <1>16

\* Giving up at a block, under --strict or at a device's refusal.
LEMMA AbortKeepsInv ==
  ASSUME IInv, StrictAbort \/ MediumStop
  PROVE  IInv'
<1> USE DEF IInv
<1>1. PICK reason \in {"aborted", "medium"} : AbortAt(reason)
  BY DEF StrictAbort, MediumStop
<1>2. /\ pc = "loop" /\ blk < Total[img] /\ pc' = "settle" /\ how' = reason
      /\ firstBad' = IF firstBad = NoBad THEN blk ELSE firstBad
      /\ UNCHANGED <<file, flen, state, img, strict, start, blk, digest, stop, code>>
      /\ UNCHANGED <<owned, pure, gaps>>
  BY <1>1 DEF AbortAt, AtBlock, LogBad, evidenceVars, history
<1>3. blk \in 0 .. N /\ blk < N /\ start <= blk
  BY <1>2 DEF TypeOK, RunInBounds
<1>4. firstBad' # NoBad /\ start <= firstBad' /\ firstBad' <= blk
  BY <1>2, <1>3 DEF RunInBounds, NoBad
<1>5. TypeOK'
  BY <1>2, <1>3 DEF TypeOK
<1>6. NothingStray' /\ FreshAhead' /\ ClaimHolds' /\ ExitZeroLosesNothingNew'
  BY <1>2 DEF NothingStray, FreshAhead, ClaimHolds, ExitZeroLosesNothingNew, Settled, RunInBounds
<1>7. RunInBounds' /\ HowItEnded'
  BY <1>2, <1>4 DEF RunInBounds, HowItEnded
<1>8. BehindTheRun'
  BY <1>2, <1>4 DEF BehindTheRun, Settled
<1>9. DigestFollowsFile'
  BY <1>2 DEF DigestFollowsFile, HowItEnded
<1>10. QED
  BY <1>5, <1>6, <1>7, <1>8, <1>9

\* A tear at the block being visited: nothing is claimed of it yet.
LEMMA ATearIsPastTheClaim ==
  ASSUME IInv, AtBlock, Truth(img, blk) # Zero, file' = [file EXCEPT ![blk] = Part(img)],
         UNCHANGED <<img, pure, gaps>>,
         UNCHANGED <<state, owned>> \/ ~owned'
  PROVE  NothingStray' /\ ClaimHolds'
<1> USE DEF IInv
<1>1. blk \in Blocks /\ pc = "loop"
  BY DEF AtBlock, TypeOK, Blocks
<1>2. \A b \in Blocks : b # blk => file'[b] = file[b]
  BY DEF TypeOK
<1>3. NothingStray'
  BY <1>1, <1>2 DEF NothingStray
<1>4. CASE UNCHANGED <<state, owned>>
  BY <1>1, <1>2, <1>3, <1>4 DEF ClaimHolds, RunInBounds, Settled, TypeOK, Blocks
<1>5. CASE ~owned'
  BY <1>3, <1>5 DEF ClaimHolds
<1>6. QED
  BY <1>4, <1>5

\* A run that dies leaves the evidence as it stood, but for a block cut
\* short and a state file that may be gone.
LEMMA DeathKeepsInv ==
  ASSUME IInv, TypeOK', WriteFails \/ FinishFails \/ Kill
  PROVE  IInv'
<1> USE DEF IInv
<1>1. /\ pc' = "idle" /\ how' = "none" /\ code' \in {"unrecoverable", "killed"}
      /\ UNCHANGED <<img, pure, gaps>>
  BY DEF WriteFails, FinishFails, Kill, history
<1>2. UNCHANGED <<state, owned>> \/ ~owned'
  BY DEF WriteFails, FinishFails, Kill, history
<1>3. \/ file' = file
      \/ /\ AtBlock /\ Truth(img, blk) # Zero
         /\ file' = [file EXCEPT ![blk] = Part(img)]
  BY DEF WriteFails, FinishFails, Kill
<1>4. NothingStray' /\ ClaimHolds'
  <2>1. CASE file' = file
    BY <1>1, <1>2, <2>1 DEF NothingStray, ClaimHolds, Settled
  <2>2. QED
    BY <1>1, <1>2, <1>3, <2>1, ATearIsPastTheClaim
<1>5. RunInBounds' /\ HowItEnded' /\ BehindTheRun' /\ FreshAhead' /\ ExitZeroLosesNothingNew'
  BY <1>1 DEF RunInBounds, HowItEnded, BehindTheRun, FreshAhead, ExitZeroLosesNothingNew
<1>6. DigestFollowsFile'
  BY <1>1 DEF DigestFollowsFile, Recorded
<1>7. QED
  BY <1>4, <1>5, <1>6

\* The length is set and the tail of the volume is hashed.
LEMMA FinishKeepsInv ==
  ASSUME IInv, TypeOK', FinishImage
  PROVE  IInv'
<1> USE DEF IInv
<1> DEFINE tail == [j \in 1 .. N - blk |-> Zero]
<1>1. /\ pc = "loop" /\ pc' = "settle" /\ flen' = N /\ how' = Ending
      /\ digest' = digest \o tail
      /\ UNCHANGED <<file, state, img, strict, start, blk, firstBad, stop, code>>
      /\ UNCHANGED <<owned, pure, gaps>>
  BY DEF FinishImage, LoopOver, history
<1>2. (how' = "whole" /\ blk >= Total[img]) \/ how' = "interrupted"
  BY <1>1 DEF Ending, TypeOK
<1>3. NothingStray' /\ RunInBounds' /\ BehindTheRun' /\ FreshAhead' /\ ClaimHolds'
  BY <1>1 DEF NothingStray, RunInBounds, BehindTheRun, FreshAhead, ClaimHolds, Settled
<1>4. HowItEnded' /\ ExitZeroLosesNothingNew'
  BY <1>1, <1>2 DEF HowItEnded, ExitZeroLosesNothingNew, RunInBounds
<1>5. DigestFollowsFile'
  <2>1. Len(digest) = blk /\ digest \in Seq(Cell) /\ blk \in 0 .. N /\ start \in 0 .. N
    BY <1>1 DEF DigestFollowsFile, HowItEnded, TypeOK
  <2>2. /\ Len(digest') = N
        /\ \A j \in 1 .. blk : digest'[j] = digest[j]
        /\ \A j \in blk + 1 .. N : digest'[j] = Zero
    BY <1>1, <2>1, ZeroTail
  <2>3. ASSUME NEW b \in Blocks
        PROVE  \/ digest'[b + 1] = file[b]
               \/ start > 0 /\ b >= start /\ digest'[b + 1] = Zero
    <3>1. CASE b < blk
      BY <1>1, <2>1, <2>2, <3>1 DEF DigestFollowsFile, Blocks
    <3>2. CASE b >= blk
      BY <1>1, <2>1, <2>2, <3>2, SMTT(40) DEF FreshAhead, RunInBounds, Blocks
    <3>3. QED
      BY <2>1, <3>1, <3>2 DEF Blocks
  <2>4. QED
    BY <1>1, <1>2, <2>2, <2>3 DEF DigestFollowsFile
<1>6. QED
  BY <1>3, <1>4, <1>5

\* The exit: what the state file is made to say is settled, and a run that
\* exits 0 has visited everything.
LEMMA SettleKeepsInv ==
  ASSUME IInv, TypeOK', Settle
  PROVE  IInv'
<1> USE DEF IInv
<1>1. /\ pc = "settle" /\ pc' = "idle" /\ code' = ExitCode
      /\ UNCHANGED <<file, flen, img, start, blk, digest, firstBad, how, pure, gaps>>
  BY DEF Settle
<1>2. NothingStray' /\ RunInBounds' /\ HowItEnded' /\ BehindTheRun' /\ FreshAhead'
  BY <1>1 DEF NothingStray, RunInBounds, HowItEnded, BehindTheRun, FreshAhead
<1>3. ClaimHolds'
  <2>1. \/ how # "whole" /\ state' = [img |-> img, done |-> ContinueAt]
        \/ state' = state /\ (owned' => owned)
        \/ ~owned'
    BY DEF Settle, ClearState, WriteState
  <2>2. CASE how # "whole" /\ state' = [img |-> img, done |-> ContinueAt]
    <3>1. ContinueAt <= blk /\ blk \in Nat /\ ContinueAt \in Nat
      BY <1>1, <2>2 DEF ContinueAt, HowItEnded, RunInBounds, TypeOK
    <3>2. pure => \A b \in Blocks : b < ContinueAt => Settled(b)
      BY <1>1, <3>1 DEF BehindTheRun, Blocks
    <3>3. QED
      BY <1>1, <2>2, <3>2 DEF ClaimHolds, Settled
  <2>3. CASE state' = state /\ (owned' => owned)
    BY <1>1, <2>3 DEF ClaimHolds, Settled
  <2>4. QED
    BY <2>1, <2>2, <2>3 DEF ClaimHolds
<1>4. DigestFollowsFile'
  BY <1>1 DEF DigestFollowsFile
<1>5. ExitZeroLosesNothingNew'
  <2> SUFFICES ASSUME code' = "ok", pure
               PROVE  flen = N /\ (\A b \in Blocks : Settled(b)) /\ \A b \in gaps : b < start
    BY <1>1 DEF ExitZeroLosesNothingNew, Settled
  <2>1. how = "whole" /\ firstBad = NoBad
    BY <1>1 DEF ExitCode, TypeOK
  <2>2. flen = N /\ blk >= Total[img] /\ blk \in 0 .. N /\ Total[img] \in 0 .. N
    BY <1>1, <2>1 DEF HowItEnded, TypeOK
  <2>3. ASSUME NEW b \in Blocks PROVE Settled(b)
    <3>1. CASE b < blk
      BY <1>1, <3>1 DEF BehindTheRun
    <3>2. CASE b >= blk
      BY <2>2, <3>2 DEF NothingStray, Settled, Truth, Blocks
    <3>3. QED
      BY <2>2, <3>1, <3>2 DEF Blocks
  <2>4. \A b \in gaps : b < start
    BY <1>1, <2>1, <2>2 DEF BehindTheRun, NothingStray, TypeOK, Blocks
  <2>5. QED
    BY <2>2, <2>3, <2>4
<1>6. QED
  BY <1>2, <1>3, <1>4, <1>5

\* Steps that touch neither the evidence nor the run's place in it.
LEMMA NothingMovedKeepsInv ==
  ASSUME IInv, OpenFails \/ Interrupt \/ UNCHANGED vars
  PROVE  IInv'
<1>1. TypeOK'
  BY TypeStep DEF IInv, Next
<1>2. /\ UNCHANGED <<file, flen, state, img, strict, start, blk, digest, firstBad, how, pc>>
      /\ UNCHANGED <<owned, pure, gaps>>
      /\ \/ code' = code
         \/ pc = "idle" /\ code' = "usage"
  <2>1. CASE OpenFails
    BY <2>1 DEF OpenFails, evidenceVars, history
  <2>2. CASE Interrupt
    BY <2>2 DEF Interrupt, evidenceVars, history
  <2>3. CASE UNCHANGED vars
    BY <2>3 DEF vars, runVars, evidenceVars, history
  <2>4. QED
    BY <2>1, <2>2, <2>3
<1>3. NothingStray' /\ RunInBounds' /\ HowItEnded' /\ BehindTheRun' /\ FreshAhead' /\ ClaimHolds'
  BY <1>2 DEF IInv, NothingStray, RunInBounds, HowItEnded, BehindTheRun, FreshAhead,
              ClaimHolds, Settled
<1>4. DigestFollowsFile' /\ ExitZeroLosesNothingNew'
  BY <1>2 DEF IInv, DigestFollowsFile, ExitZeroLosesNothingNew, Recorded, Settled
<1>5. QED
  BY <1>1, <1>3, <1>4 DEF IInv

-----------------------------------------------------------------------------
\* The theorems.

\* A fresh program, over no output and no state file, satisfies the invariant.
LEMMA InvInit == Init => IInv
<1> SUFFICES ASSUME Init PROVE IInv
  OBVIOUS
<1>1. TypeOK
  BY TypeInit
<1>2. NothingStray /\ RunInBounds /\ HowItEnded /\ BehindTheRun /\ FreshAhead
  BY DEF Init, NothingStray, RunInBounds, HowItEnded, BehindTheRun, FreshAhead
<1>3. ClaimHolds /\ DigestFollowsFile /\ ExitZeroLosesNothingNew
  BY DEF Init, ClaimHolds, DigestFollowsFile, ExitZeroLosesNothingNew, Recorded
<1>4. QED
  BY <1>1, <1>2, <1>3 DEF IInv

\* Every step preserves it.
LEMMA InvStep == IInv /\ [Next]_vars => IInv'
<1> SUFFICES ASSUME IInv, [Next]_vars PROVE IInv'
  OBVIOUS
<1>1. TypeOK'
  BY TypeStep DEF IInv
<1>2. ASSUME NEW i \in Images, NEW s \in Modes, NEW r \in Resumes, Open(i, s, r)
      PROVE  IInv'
  BY <1>1, <1>2, OpenKeepsInv
<1>3. CASE Visit
  BY <1>1, <1>3, VisitKeepsInv
<1>4. CASE StrictAbort \/ MediumStop
  BY <1>4, AbortKeepsInv
<1>5. CASE FinishImage
  BY <1>1, <1>5, FinishKeepsInv
<1>6. CASE Settle
  BY <1>1, <1>6, SettleKeepsInv
<1>7. CASE WriteFails \/ FinishFails \/ Kill
  BY <1>1, <1>7, DeathKeepsInv
<1>8. CASE OpenFails \/ Interrupt \/ UNCHANGED vars
  BY <1>8, NothingMovedKeepsInv
<1>9. QED
  BY <1>2, <1>3, <1>4, <1>5, <1>6, <1>7, <1>8 DEF Next, Visit

\* The inductive invariant holds throughout.
THEOREM InvHolds == Spec => []IInv
BY InvInit, InvStep, PTL DEF Spec

\* What the state file claims of the output it was written over is so: every
\* block before blocks_done holds the volume's data or was given up and
\* reported, after any sequence of runs, interrupts, kills and failures.
THEOREM ClaimAlwaysHolds == Spec => []ClaimHolds
<1>1. IInv => ClaimHolds
  BY DEF IInv
<1>2. QED
  BY <1>1, InvHolds, PTL

\* The digests extract_from computes are of the bytes in the output, block
\* for block, up to zeros on blocks a resumed run could not read.
THEOREM DigestAlwaysFollowsFile == Spec => []DigestFollowsFile
<1>1. IInv => DigestFollowsFile
  BY DEF IInv
<1>2. QED
  BY <1>1, InvHolds, PTL

\* Exit 0 means the whole volume, up to blocks an earlier run gave up before
\* the point this run resumed at.
THEOREM ExitZeroIsSafe == Spec => []ExitZeroLosesNothingNew
<1>1. IInv => ExitZeroLosesNothingNew
  BY DEF IInv
<1>2. QED
  BY <1>1, InvHolds, PTL

\* No step takes the state file of an output back, but the exit of a run
\* that gave up, and that one to the first block it could not read.
THEOREM StateSeldomRewinds == Spec => StateRewindsOnlyToABadBlock
<1> DEFINE Rewinds == owned /\ owned' /\ state'.done < state.done
           Given == /\ how \in {"aborted", "medium"}
                    /\ state'.done = firstBad
                    /\ state'.done >= start
<1>1. IInv /\ [Next]_vars => [Rewinds => Given]_vars
  <2> SUFFICES ASSUME IInv, [Next]_vars, Rewinds PROVE Given
    OBVIOUS
  <2> USE DEF IInv
  <2>1. state' # state /\ state.done \in Nat
    BY DEF TypeOK
  <2>2. ASSUME Visit PROVE FALSE
    <3>1. PICK cell \in Cell : Advance(cell) /\ pc = "loop"
      BY <2>2, AVisitSettlesItsBlock DEF Visit, ReadBlock, ZeroBlock, SalvageBlock, AtBlock
    <3>2. state' = [img |-> img, done |-> blk + 1]
      BY <2>1, <3>1 DEF Advance, WriteState
    <3>3. QED
      BY <2>1, <3>1, <3>2 DEF RunInBounds, TypeOK
  <2>3. CASE Settle
    <3>1. state' = [img |-> img, done |-> ContinueAt] /\ how # "whole" /\ pc = "settle"
      BY <2>1, <2>3 DEF Settle, ClearState, WriteState
    <3>2. how # "interrupted"
      BY <2>1, <3>1 DEF ContinueAt, RunInBounds, TypeOK
    <3>3. how \in {"aborted", "medium"}
      BY <3>1, <3>2 DEF TypeOK
    <3>4. QED
      BY <3>1, <3>3 DEF ContinueAt, RunInBounds, HowItEnded
  <2>4. ASSUME NEW i \in Images, NEW s \in Modes, NEW r \in Resumes, Open(i, s, r)
        PROVE  FALSE
    BY <2>1, <2>4 DEF Open
  <2>5. ASSUME \/ OpenFails \/ StrictAbort \/ MediumStop \/ WriteFails
               \/ FinishImage \/ FinishFails \/ Interrupt \/ Kill \/ UNCHANGED vars
        PROVE  FALSE
    <3>1. state' = state \/ ~owned'
      BY <2>5 DEF OpenFails, StrictAbort, MediumStop, AbortAt, WriteFails, FinishImage,
                  FinishFails, Interrupt, Kill, vars, evidenceVars, history
    <3>2. QED
      BY <2>1, <3>1
  <2>6. QED
    BY <2>2, <2>3, <2>4, <2>5 DEF Next, Visit
<1>2. QED
  BY <1>1, InvHolds, PTL DEF Spec, StateRewindsOnlyToABadBlock

-----------------------------------------------------------------------------
\* The dump implements ImagePrefix.

settledNow == IF pure THEN {b \in Blocks : Settled(b)} ELSE {}
claimNow == IF pure /\ owned THEN state.done ELSE 0

\* What is claimed reaches no further than what is settled.
LEMMA ClaimReaches ==
  ASSUME IInv
  PROVE  /\ claimNow \in 0 .. N /\ settledNow \subseteq Blocks
         /\ \A b \in Blocks : b < claimNow => b \in settledNow
BY DEF IInv, ClaimHolds, claimNow, settledNow, TypeOK, Blocks

\* A visit settles its block, and the claim follows or is dropped.
LEMMA VisitKeepsThePromise ==
  ASSUME IInv, IInv', Visit
  PROVE  \/ UNCHANGED <<settledNow, claimNow>>
         \/ settledNow' = settledNow \cup {blk} /\ blk \in Blocks
<1>1. PICK cell \in Cell :
        /\ blk \in Blocks /\ blk < Total[img]
        /\ Advance(cell)
        /\ file' = IF cell = Zero THEN file ELSE [file EXCEPT ![blk] = cell]
        /\ \/ cell = Truth(img, blk) /\ gaps' = gaps \ {blk}
           \/ gaps' = gaps \cup {blk}
  BY AVisitSettlesItsBlock DEF IInv
<1>2. img' = img /\ pure' = pure /\ pc = "loop" /\ pc' = "loop" /\ blk' = blk + 1
  BY <1>1 DEF Advance, Visit, ReadBlock, ZeroBlock, SalvageBlock, AtBlock
<1>3. CASE pure
  <2>1. PICK here \in Blocks : here = blk
    BY <1>1
  <2>2. Settled(here)'
    BY <1>1, <1>2, <1>3, <2>1 DEF IInv, BehindTheRun, Blocks
  <2>3. ASSUME NEW b \in Blocks, b # here
        PROVE  Settled(b)' <=> Settled(b)
    BY <1>1, <1>2, <2>1, <2>3 DEF Settled, IInv, TypeOK
  <2>4. settledNow' = settledNow \cup {here}
    BY <1>1, <1>2, <1>3, <2>2, <2>3 DEF settledNow
  <2>5. QED
    BY <2>1, <2>4
<1>4. CASE ~pure
  BY <1>2, <1>4 DEF settledNow, claimNow
<1>5. QED
  BY <1>3, <1>4

\* A tear unsettles at most the block being visited, which is past the claim.
LEMMA DeathKeepsThePromise ==
  ASSUME IInv, IInv', WriteFails \/ FinishFails \/ Kill
  PROVE  \/ claimNow' = 0
         \/ /\ claimNow' = claimNow
            /\ \/ settledNow' = settledNow
               \/ blk \in Blocks /\ blk >= claimNow /\ settledNow' = settledNow \ {blk}
<1>1. UNCHANGED <<img, pure, gaps>>
  BY DEF WriteFails, FinishFails, Kill, history
<1>2. UNCHANGED <<state, owned>> \/ ~owned'
  BY DEF WriteFails, FinishFails, Kill, history
<1>3. CASE ~owned'
  BY <1>3 DEF claimNow
<1>4. CASE UNCHANGED <<state, owned>> /\ file' = file
  BY <1>1, <1>4 DEF claimNow, settledNow, Settled
<1>5. CASE UNCHANGED <<state, owned>> /\ AtBlock /\ file' = [file EXCEPT ![blk] = Part(img)]
  <2>1. claimNow' = claimNow
    BY <1>1, <1>5 DEF claimNow
  <2>2. PICK here \in Blocks : here = blk /\ here >= claimNow
    BY <1>5 DEF AtBlock, IInv, TypeOK, RunInBounds, claimNow, Blocks
  <2>3. \A b \in Blocks : b # here => (Settled(b)' <=> Settled(b))
    BY <1>1, <1>5, <2>2 DEF Settled, IInv, TypeOK
  <2>4. Settled(here)' => here \in gaps
    <3>1. img \in Images /\ Part(img) # Zero /\ Part(img) # Data(img)
      BY DataIsNotZero DEF IInv, TypeOK
    <3>2. file'[here] = Part(img)
      BY <1>5, <2>2 DEF IInv, TypeOK
    <3>3. QED
      BY <1>1, <3>1, <3>2 DEF Settled, Truth
  <2>5. here \in gaps => Settled(here) /\ Settled(here)'
    BY <1>1 DEF Settled
  <2>6. settledNow' = settledNow \/ settledNow' = settledNow \ {here}
    BY <1>1, <2>3, <2>4, <2>5 DEF settledNow
  <2>7. QED
    BY <2>1, <2>2, <2>6
<1>6. QED
  BY <1>2, <1>3, <1>4, <1>5 DEF WriteFails, FinishFails, Kill

\* The dump implements ImagePrefix: whatever happens to the runs, the image
\* settles block by block and the state file never vouches for a block that
\* is not settled or is then torn.
THEOREM DumpKeepsThePromise == Spec => KeepsThePromise
<1>1. Init => Promise!Init
  BY ClaimReaches, InvInit DEF Init, Promise!Init, Promise!Blocks, settledNow, Blocks
<1>2. IInv /\ IInv' /\ [Next]_vars => [Promise!Next]_<<settledNow, claimNow>>
  <2> SUFFICES ASSUME IInv, IInv', [Next]_vars, ~UNCHANGED <<settledNow, claimNow>>
               PROVE  Promise!Next
    OBVIOUS
  <2> USE DEF Promise!Next, Promise!Blocks, Promise!Reaches
  <2>1. /\ claimNow' \in 0 .. N /\ settledNow' \subseteq Blocks
        /\ \A b \in Blocks : b < claimNow' => b \in settledNow'
    BY DEF IInv, ClaimHolds, claimNow, settledNow, TypeOK, Blocks
  <2>2. ASSUME claimNow' = 0 PROVE Promise!StartOver
    BY <2>1, <2>2 DEF Promise!StartOver, settledNow, claimNow, Blocks
  <2>3. ASSUME NEW b \in Blocks, settledNow' = settledNow \cup {b}
        PROVE  Promise!SettleBlock
    BY <2>1, <2>3 DEF Promise!SettleBlock, settledNow, claimNow, Blocks
  <2>4. ASSUME settledNow' = settledNow PROVE Promise!Claim
    BY <2>1, <2>4 DEF Promise!Claim, settledNow, claimNow, Blocks
  <2>5. ASSUME NEW b \in Blocks, b >= claimNow, settledNow' = settledNow \ {b}, claimNow' = claimNow
        PROVE  Promise!Tear
    BY <2>5 DEF Promise!Tear, settledNow, claimNow, Blocks
  <2>6. ASSUME NEW i \in Images, NEW s \in Modes, NEW r \in Resumes, Open(i, s, r)
        PROVE  claimNow' = 0
    <3>1. CASE ResumePoint(i, r) = 0
      BY <2>6, <3>1 DEF Open, OpenOutput, claimNow
    <3>2. CASE ResumePoint(i, r) > 0
      <4>1. /\ pure' = (pure /\ owned)
            /\ UNCHANGED <<file, owned, gaps, state>>
        BY <2>6, <3>2 DEF Open, OpenOutput
      <4>2. CASE pure /\ owned
        <5>1. img' = img
          BY <2>6, <3>2, <4>2 DEF Open, ResumePoint, IInv, ClaimHolds
        <5>2. QED
          BY <4>1, <4>2, <5>1 DEF settledNow, claimNow, Settled
      <4>3. CASE ~(pure /\ owned)
        BY <4>1, <4>3 DEF claimNow
      <4>4. QED
        BY <4>2, <4>3
    <3>3. QED
      BY <3>1, <3>2, ResumePointIsABlock DEF IInv
  <2>7. ASSUME \/ OpenFails \/ StrictAbort \/ MediumStop \/ FinishImage \/ Settle
               \/ Interrupt \/ UNCHANGED vars
        PROVE  settledNow' = settledNow
    <3>1. UNCHANGED <<file, img, pure, gaps>>
      BY <2>7 DEF OpenFails, StrictAbort, MediumStop, AbortAt, FinishImage, Settle,
                  Interrupt, vars, runVars, evidenceVars, history
    <3>2. QED
      BY <3>1 DEF settledNow, Settled
  <2>8. CASE Visit
    BY <2>3, <2>8, VisitKeepsThePromise
  <2>9. CASE WriteFails \/ FinishFails \/ Kill
    BY <2>2, <2>4, <2>5, <2>9, DeathKeepsThePromise
  <2>10. QED
    BY <2>2, <2>4, <2>6, <2>7, <2>8, <2>9 DEF Next, Visit
<1>3. QED
  BY <1>1, <1>2, InvHolds, PTL DEF Spec, KeepsThePromise, Promise!Spec, Promise!avars, settledNow, claimNow

=============================================================================
