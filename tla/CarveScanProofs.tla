--------------------------- MODULE CarveScanProofs ---------------------------
(***************************************************************************)
(* The safety properties of carve_any, for every number of members, chunks *)
(* and candidates, every cap and every pattern of unreadable chunks.       *)
(***************************************************************************)
EXTENDS CarveScan, FiniteSetTheorems, TLAPS

-----------------------------------------------------------------------------
\* The inductive invariant.

\* What the offsets have passed, and reads, is among these candidates.
Covered(offsets, these) ==
  \A x \in Candidates : Behind(x, offsets) /\ Place[x] \notin bad => x \in these

\* The files agree at any time a run may end, but in a scan from the start
\* that has written one of them.
FilesAgree ==
  ~mishap /\ state.readable /\ (phase # "state" \/ opt.resume) =>
    index.readable /\ Covered(state.reached, index.found)
NothingReadSaysNothing == ~state.readable => state.reached = Start0

\* A run since its begin.
RunGoesOn ==
  phase # "idle" =>
    /\ exit = Running
    /\ opt.resume => index.found \subseteq found /\ from = state.reached
    /\ ~mishap => Covered(from, found) /\ Covered(reached, found)
    /\ \A m \in present : m < member =>
         reached[m] >= from[m] /\ (complete => reached[m] = Chunks)

\* The member it is at, and the candidates met in it.
MemberGoesOn ==
  phase = "chunks" =>
    /\ member \in present /\ at >= from[member]
    /\ ~mishap => \A x \in Candidates :
         Place[x][1] = member /\ Place[x][2] < at /\ Place[x] \notin bad => x \in found \cup hits

AfterTheMembers ==
  /\ phase \in {"index", "state"} => member = NMembers + 1
  /\ phase = "state" => index.readable /\ index.found = found

\* The output and its resume state are of one candidate of the index.
OneCandidate ==
  ~rescanned =>
    \/ image = {} /\ dump = NoDump
    \/ \E x \in index.found : image = {x} /\ dump \in {NoDump, Key(x)}

IInv ==
  /\ TypeOK
  /\ FilesAgree
  /\ NothingReadSaysNothing
  /\ RunGoesOn
  /\ MemberGoesOn
  /\ AfterTheMembers
  /\ ExitZeroIsOnePass
  /\ OneCandidate

-----------------------------------------------------------------------------
\* Places, offsets and ids.

LEMMA PlacesAreChunks ==
  ASSUME NEW x \in Candidates
  PROVE  Place[x][1] \in Members /\ Place[x][2] \in 0 .. Chunks - 1 /\ Place[x] = <<Place[x][1], Place[x][2]>>
BY CandidatesAssumption

LEMMA StartIsAnOffset == Start0 \in [Members -> Offsets] /\ \A these : Covered(Start0, these)
<1>1. Start0 \in [Members -> Offsets]
  BY SizesAssumption DEF Start0, Offsets
<1>2. ASSUME NEW x \in Candidates PROVE ~ Behind(x, Start0)
  BY PlacesAreChunks DEF Behind, Start0
<1> QED
  BY <1>1, <1>2 DEF Covered

\* The places of an index are numbers, and no two candidates share one.
LEMMA IdsAreNumbers ==
  ASSUME TypeOK, NEW x \in index.found PROVE Id(x) \in Nat
<1>1. IsFiniteSet({y \in index.found : Score[y] > Score[x]})
  <2>1. {y \in index.found : Score[y] > Score[x]} \subseteq Candidates
    BY DEF TypeOK
  <2> QED
    BY <2>1, CandidatesAssumption, FS_Subset
<1> QED
  BY <1>1, FS_CardinalityType DEF Id

LEMMA IdsDiffer ==
  ASSUME TypeOK, NEW x \in index.found, NEW y \in index.found, Id(x) = Id(y) PROVE x = y
<1> DEFINE Better(z) == {w \in index.found : Score[w] > Score[z]}
<1>1. x \in Candidates /\ y \in Candidates /\ index.found \subseteq Candidates
  BY DEF TypeOK
<1>2. \A z \in Candidates : Score[z] \in Nat
  BY CandidatesAssumption
<1>3. ASSUME NEW u \in index.found, NEW v \in index.found, Score[u] > Score[v]
      PROVE  Cardinality(Better(u)) < Cardinality(Better(v))
  <2>1. IsFiniteSet(Better(v))
    BY <1>1, CandidatesAssumption, FS_Subset
  <2>2. Better(u) \subseteq Better(v) /\ u \in Better(v) /\ u \notin Better(u)
    BY <1>1, <1>2, <1>3
  <2>3. Better(u) \in SUBSET Better(v) /\ Better(u) # Better(v)
    BY <2>2
  <2> HIDE DEF Better
  <2>4. IsFiniteSet(Better(u)) /\ Cardinality(Better(u)) <= Cardinality(Better(v))
        /\ Cardinality(Better(u)) # Cardinality(Better(v))
    BY <2>1, <2>3, FS_Subset
  <2>5. Cardinality(Better(u)) \in Nat /\ Cardinality(Better(v)) \in Nat
    BY <2>1, <2>4, FS_CardinalityType
  <2> QED
    BY <2>4, <2>5
<1>4. Cardinality(Better(x)) = Cardinality(Better(y))
  <2>1. IsFiniteSet(Better(x)) /\ IsFiniteSet(Better(y))
    BY <1>1, CandidatesAssumption, FS_Subset
  <2>2. Cardinality(Better(x)) \in Nat /\ Cardinality(Better(y)) \in Nat
    BY <2>1, FS_CardinalityType
  <2>3. 1 + Cardinality(Better(x)) = 1 + Cardinality(Better(y))
    BY DEF Id
  <2> QED
    BY <2>2, <2>3
<1>5. ~ (Score[x] > Score[y]) /\ ~ (Score[y] > Score[x])
  <2>1. IsFiniteSet(Better(x)) /\ IsFiniteSet(Better(y))
    BY <1>1, CandidatesAssumption, FS_Subset
  <2>2. Cardinality(Better(x)) \in Nat /\ Cardinality(Better(y)) \in Nat
    BY <2>1, FS_CardinalityType
  <2> HIDE DEF Better
  <2> QED
    BY <2>2, <1>3, <1>4
<1> QED
  BY <1>1, <1>2, <1>5, CandidatesAssumption

-----------------------------------------------------------------------------
\* Types.

LEMMA BeginTypes ==
  ASSUME TypeOK, Begin, opt' \in [resume : BOOLEAN, device : BOOLEAN, mayFail : BOOLEAN]
  PROVE  /\ phase' = "member" /\ from' \in [Members -> Offsets] /\ found' \subseteq Candidates
         /\ reached' \in [Members -> Offsets] /\ complete' \in BOOLEAN
         /\ member' \in 1 .. NMembers + 1 /\ at' \in Offsets /\ hits' \subseteq Candidates
         /\ refusals' \in 0 .. Allowed' /\ flag' \in BOOLEAN /\ exit' = Running
<1>1. Allowed' \in Nat
  BY CarveLimitAssumption DEF Allowed
<1>2. from' \in [Members -> Offsets] /\ reached' \in [Members -> Offsets]
  BY StartIsAnOffset DEF TypeOK, Begin
<1>3. found' \subseteq Candidates
  BY DEF TypeOK, Begin
<1>4. member' \in 1 .. NMembers + 1 /\ at' \in Offsets
  BY SizesAssumption DEF Begin, Offsets
<1>5. refusals' \in 0 .. Allowed'
  BY <1>1 DEF Begin
<1> QED
  BY <1>2, <1>3, <1>4, <1>5 DEF Begin

LEMMA LeaveTypes ==
  ASSUME TypeOK, phase = "chunks", NEW early \in BOOLEAN, NEW these \in SUBSET Candidates,
         Leave(at, early, these)
  PROVE  TypeOK'
<1>1. reached' \in [Members -> Offsets] /\ complete' \in BOOLEAN /\ found' \subseteq Candidates
  BY DEF TypeOK, Leave
<1>2. Allowed' = Allowed /\ refusals' \in 0 .. Allowed'
  BY CarveLimitAssumption DEF TypeOK, Leave, Tolerated, Allowed, command
<1>3. member' \in 1 .. NMembers + 1 /\ phase' = "member"
  BY SizesAssumption DEF TypeOK, Leave, NextMember, Members
<1> QED
  BY <1>1, <1>2, <1>3 DEF TypeOK, Leave, disk, output, command

LEMMA EmptyFiles ==
  /\ NoIndex \in [readable : BOOLEAN, found : SUBSET Candidates]
  /\ NoState \in [readable : BOOLEAN, reached : [Members -> Offsets]]
BY StartIsAnOffset DEF NoIndex, NoState

LEMMA SpendTypes ==
  ASSUME TypeOK, Spend PROVE trouble' \in 0 .. MaxTrouble
BY SizesAssumption DEF TypeOK, Spend

LEMMA TypesHold == TypeOK /\ [Next]_vars => TypeOK'
<1> SUFFICES ASSUME TypeOK, [Next]_vars PROVE TypeOK'
  OBVIOUS
<1> USE DEF disk, output, command, gathered, window
<1>1. Meets \subseteq Candidates
  BY DEF Meets
<1>2. CASE Resume
  BY <1>2, BeginTypes DEF Resume, TypeOK
<1>3. CASE OddStart
  BY <1>3, BeginTypes, SpendTypes DEF OddStart, TypeOK
<1>4. CASE NoScan
  BY <1>4, SpendTypes DEF NoScan, TypeOK, Allowed, USAGE, EVIDENCE, UNRECOVERABLE, REFUSED, MEDIUM
<1>5. CASE Interrupt
  BY <1>5, SpendTypes DEF Interrupt, TypeOK, Allowed
<1>6. CASE MemberAbsent
  BY <1>6, SizesAssumption DEF MemberAbsent, NextMember, TypeOK, Allowed, Members
<1>7. CASE PutOff
  <2>1. reached' \in [Members -> Offsets]
    BY <1>7 DEF PutOff, TypeOK
  <2>2. member' \in 1 .. NMembers + 1 /\ phase' = "member"
    BY <1>7, SizesAssumption DEF PutOff, NextMember, TypeOK, Members
  <2> QED
    BY <1>7, <2>1, <2>2 DEF PutOff, TypeOK, Allowed
<1>8. CASE TakeUp
  BY <1>8 DEF TakeUp, TypeOK, Allowed
<1>9. CASE ScanInterrupted
  BY <1>9, LeaveTypes DEF ScanInterrupted, TypeOK
<1>10. CASE ChunkSkipped
  <2>1. at' \in Offsets
    BY <1>10, SizesAssumption DEF ChunkSkipped, reading, TypeOK, Offsets
  <2>2. Allowed' = Allowed /\ refusals' \in 0 .. Allowed'
    BY <1>10, CarveLimitAssumption DEF ChunkSkipped, TypeOK, Allowed, Stopped
  <2> QED
    BY <1>10, <2>1, <2>2 DEF ChunkSkipped, TypeOK
<1>11. CASE ChunkRead
  <2>1. at' \in Offsets
    BY <1>11, SizesAssumption DEF ChunkRead, reading, TypeOK, Offsets
  <2> QED
    BY <1>1, <1>11, <2>1 DEF ChunkRead, TypeOK, Allowed
<1>12. CASE ChunkCapped
  BY <1>1, <1>12, LeaveTypes DEF ChunkCapped, reading, TypeOK
<1>13. CASE MemberRead
  BY <1>13, LeaveTypes DEF MemberRead, TypeOK
<1>14. CASE MembersDone
  BY <1>14 DEF MembersDone, TypeOK, Allowed
<1>15. CASE SaveIndex
  BY <1>15 DEF SaveIndex, TypeOK, Allowed
<1>16. CASE SaveState
  BY <1>16, SpendTypes DEF SaveState, TypeOK, Allowed, USAGE, INTERRUPTED, MEDIUM
<1>17. CASE IndexCutShort
  <2>1. trouble' \in 0 .. MaxTrouble
    BY <1>17, SpendTypes DEF IndexCutShort
  <2>2. index' \in [readable : BOOLEAN, found : SUBSET Candidates] /\ rescanned' \in BOOLEAN
    BY <1>17, EmptyFiles DEF IndexCutShort, TypeOK
  <2>3. mishap' \in BOOLEAN
    BY <1>17, Zenon DEF IndexCutShort, TypeOK
  <2> QED
    BY <1>17, <2>1, <2>2, <2>3 DEF IndexCutShort, TypeOK, Allowed, USAGE, MEDIUM
<1>18. CASE StateCutShort
  <2>1. trouble' \in 0 .. MaxTrouble
    BY <1>18, SpendTypes DEF StateCutShort
  <2>2. state' \in [readable : BOOLEAN, reached : [Members -> Offsets]]
    BY <1>18, EmptyFiles DEF StateCutShort, TypeOK
  <2>3. mishap' \in BOOLEAN
    BY <1>18, Zenon DEF StateCutShort, TypeOK
  <2> QED
    BY <1>18, <2>1, <2>2, <2>3 DEF StateCutShort, TypeOK, Allowed, USAGE, MEDIUM
<1>19. CASE ScanKilled
  BY <1>19, SpendTypes DEF ScanKilled, TypeOK, Allowed
<1>20. CASE Dump
  <2>1. PICK x \in index.found : /\ (image' = image \cup {x} \/ image' = {x})
                                /\ (UNCHANGED rescanned \/ rescanned' = FALSE)
                                /\ dump' \in {NoDump, Key(x)}
    BY <1>20 DEF Dump
  <2>2. dump'.readable \in BOOLEAN /\ dump'.id \in Nat
    <3>1. Id(x) \in Nat
      BY IdsAreNumbers
    <3>2. CASE dump' = NoDump
      BY <3>2 DEF NoDump
    <3>3. CASE dump' = Key(x)
      BY <3>1, <3>3 DEF Key
    <3> QED
      BY <2>1, <3>2, <3>3
  <2>3. image' \subseteq Candidates /\ rescanned' \in BOOLEAN
    BY <2>1 DEF TypeOK
  <2>4. UNCHANGED <<bad, index, state, phase, opt, present, from, found, reached, complete, member, at,
                    hits, refusals, flag, exit, mishap, trouble>>
    BY <1>20 DEF Dump
  <2>5. Allowed' = Allowed
    BY <2>4 DEF Allowed
  <2> QED
    BY <2>2, <2>3, <2>4, <2>5 DEF TypeOK
<1>21. CASE UNCHANGED vars
  BY <1>21 DEF vars, TypeOK, Allowed
<1> QED
  BY <1>2, <1>3, <1>4, <1>5, <1>6, <1>7, <1>8, <1>9, <1>10, <1>11, <1>12, <1>13, <1>14, <1>15,
     <1>16, <1>17, <1>18, <1>19, <1>20, <1>21 DEF Next, Scan

-----------------------------------------------------------------------------
\* What no step does.

\* Which chunks read is a fact of the disk, and a mishap is not undone.
LEMMA NothingIsUndone == TypeOK /\ [Next]_vars => bad' = bad /\ (mishap => mishap')
<1> SUFFICES ASSUME TypeOK, [Next]_vars PROVE bad' = bad /\ (mishap => mishap')
  OBVIOUS
<1> mishap \in BOOLEAN /\ mishap' \in BOOLEAN
  BY TypesHold DEF TypeOK
<1>1. CASE MemberAbsent \/ PutOff \/ TakeUp \/ ScanInterrupted \/ ChunkRead \/ ChunkCapped
           \/ MemberRead \/ MembersDone \/ SaveIndex \/ SaveState
  BY <1>1 DEF MemberAbsent, PutOff, TakeUp, ScanInterrupted, ChunkRead, ChunkCapped, MemberRead,
     MembersDone, SaveIndex, SaveState, Leave
<1>2. CASE Resume \/ OddStart \/ NoScan \/ Interrupt \/ Dump \/ ScanKilled
  BY <1>2 DEF Resume, OddStart, NoScan, Interrupt, Dump, ScanKilled
<1>3. CASE ChunkSkipped
  <2>1. bad' = bad /\ mishap' = (mishap \/ <<member, at>> \notin bad)
    BY <1>3 DEF ChunkSkipped
  <2> QED
    BY <2>1
<1>4. CASE IndexCutShort
  <2>1. bad' = bad /\ (mishap' = mishap \/ mishap' = (mishap \/ state.readable))
    BY <1>4, Zenon DEF IndexCutShort
  <2> QED
    BY <2>1
<1>5. CASE StateCutShort
  <2>1. bad' = bad /\ (mishap' = mishap \/ mishap' = (mishap \/ (state.readable /\ ~opt.resume)))
    BY <1>5, Zenon DEF StateCutShort
  <2> QED
    BY <2>1
<1>6. CASE UNCHANGED vars
  BY <1>6 DEF vars
<1> QED
  BY <1>1, <1>2, <1>3, <1>4, <1>5, <1>6 DEF Next, Scan

\* Where the files stay as they are, they go on agreeing.
LEMMA AgreeingFilesStay ==
  ASSUME FilesAgree, UNCHANGED <<bad, index, state>>, mishap => mishap',
         phase # "state" \/ UNCHANGED <<phase, opt>>
  PROVE  FilesAgree'
BY DEF FilesAgree, Covered, Behind

-----------------------------------------------------------------------------
\* The run.

\* A run takes up offsets whose candidates it has.
LEMMA BeginGoesOn ==
  ASSUME FilesAgree, NothingReadSaysNothing, phase = "idle", Begin,
         UNCHANGED <<bad, index, state, mishap>>, present' \subseteq Members
  PROVE  RunGoesOn'
<1>1. exit' = Running /\ (opt'.resume => index'.found \subseteq found' /\ from' = state'.reached)
  BY DEF Begin
<1>2. ~mishap' => Covered(from, found)' /\ Covered(reached, found)'
  <2> SUFFICES ASSUME ~mishap' PROVE Covered(from, found)' /\ Covered(reached, found)'
    OBVIOUS
  <2>1. Covered(reached, found)'
    BY StartIsAnOffset DEF Begin, Covered, Behind
  <2>2. CASE opt'.resume /\ state.readable
    <3>1. from' = state.reached /\ found' = index.found /\ Covered(state.reached, index.found)
      BY <2>2 DEF FilesAgree, Begin
    <3>2. Covered(from, found)'
      BY <3>1 DEF Covered, Behind
    <3> QED
      BY <2>1, <3>2
  <2>3. CASE ~ (opt'.resume /\ state.readable)
    <3>1. from' = Start0
      BY <2>3 DEF Begin, NothingReadSaysNothing
    <3> QED
      BY <2>1, <3>1, StartIsAnOffset DEF Covered, Behind
  <2> QED
    BY <2>1, <2>2, <2>3
<1>3. \A m \in present' : ~ (m < member')
  BY DEF Begin, Members
<1> QED
  BY <1>1, <1>2, <1>3 DEF RunGoesOn

\* A member that is left where it is has been read so far.
LEMMA LeaveGoesOn ==
  ASSUME TypeOK, RunGoesOn, MemberGoesOn, phase = "chunks",
         NEW early \in BOOLEAN, ~early => at = Chunks,
         NEW these, hits \subseteq these, Leave(at, early, these)
  PROVE  RunGoesOn'
<1>1. /\ member \in present /\ at >= from[member] /\ reached' = [reached EXCEPT ![member] = at]
      /\ found' = found \cup these /\ member' = member + 1
      /\ complete' = (complete /\ ~early)
      /\ UNCHANGED <<bad, index, state, opt, present, from, exit, mishap>>
  BY DEF MemberGoesOn, Leave, NextMember, disk, command
<1>2. exit' = Running /\ (opt'.resume => index'.found \subseteq found' /\ from' = state'.reached)
  BY <1>1 DEF RunGoesOn
<1>3. ~mishap' => Covered(from, found)' /\ Covered(reached, found)'
  <2> SUFFICES ASSUME ~mishap' PROVE Covered(from, found)' /\ Covered(reached, found)'
    OBVIOUS
  <2>1. Covered(from, found) /\ Covered(reached, found)
    BY <1>1 DEF RunGoesOn
  <2>2. Covered(from, found)'
    BY <1>1, <2>1 DEF Covered, Behind
  <2>3. ASSUME NEW x \in Candidates, Behind(x, reached'), Place[x] \notin bad PROVE x \in found'
    <3>1. CASE Place[x][1] = member
      <4>1. Place[x][2] < at
        BY <1>1, <2>3, <3>1 DEF Behind, TypeOK
      <4> QED
        BY <1>1, <2>3, <3>1, <4>1 DEF MemberGoesOn
    <3>2. CASE Place[x][1] # member
      <4>1. Behind(x, reached)
        BY <1>1, <2>3, <3>2, PlacesAreChunks DEF Behind, TypeOK
      <4> QED
        BY <1>1, <2>1, <2>3, <4>1 DEF Covered
    <3> QED
      BY <3>1, <3>2
  <2> QED
    BY <1>1, <2>2, <2>3 DEF Covered, Behind
<1>4. ASSUME NEW m \in present', m < member'
      PROVE  reached'[m] >= from'[m] /\ (complete' => reached'[m] = Chunks)
  <2>1. m \in Members /\ member \in Members /\ m <= member
    BY <1>1, <1>4 DEF TypeOK, Members
  <2>2. CASE m = member
    BY <1>1, <2>1, <2>2 DEF TypeOK
  <2>3. CASE m < member
    BY <1>1, <1>4, <2>1, <2>3 DEF TypeOK, RunGoesOn
  <2> QED
    BY <2>1, <2>2, <2>3 DEF Members
<1> QED
  BY <1>2, <1>3, <1>4 DEF RunGoesOn

\* The steps that neither begin a run, nor leave a member, nor write a file.
LEMMA QuietStepsGoOn ==
  ASSUME RunGoesOn, mishap => mishap', phase # "idle" \/ phase' = "idle",
         UNCHANGED <<bad, index, state, opt, present, from, found, reached, complete, exit>>,
         \/ member' = member
         \/ member \in Members \ present /\ member' = member + 1, TypeOK
  PROVE  RunGoesOn'
<1>1. CASE phase' = "idle"
  BY <1>1 DEF RunGoesOn
<1>2. CASE phase' # "idle"
  <2>1. ASSUME NEW m \in present, m < member' PROVE m < member
    BY <2>1 DEF TypeOK, Members
  <2> QED
    BY <1>2, <2>1 DEF RunGoesOn, Covered, Behind
<1> QED
  BY <1>1, <1>2

LEMMA RunGoesOnHolds == IInv /\ [Next]_vars => RunGoesOn'
<1> SUFFICES ASSUME IInv, [Next]_vars PROVE RunGoesOn'
  OBVIOUS
<1> TypeOK /\ RunGoesOn /\ MemberGoesOn /\ bad' = bad /\ (mishap => mishap')
  BY NothingIsUndone DEF IInv
<1> USE DEF disk, command, gathered, window
<1>1. CASE Resume
  BY <1>1, BeginGoesOn DEF Resume, IInv
<1>2. CASE OddStart
  BY <1>2, BeginGoesOn DEF OddStart, IInv
<1>3. CASE phase' = "idle"
  BY <1>3 DEF RunGoesOn
<1>4. CASE Interrupt
  BY <1>4, QuietStepsGoOn DEF Interrupt
<1>5. CASE MemberAbsent
  BY <1>5, QuietStepsGoOn DEF MemberAbsent, NextMember
<1>6. CASE TakeUp
  BY <1>6, QuietStepsGoOn DEF TakeUp
<1>7. CASE ChunkSkipped
  BY <1>7, QuietStepsGoOn DEF ChunkSkipped, reading
<1>8. CASE ChunkRead
  BY <1>8, QuietStepsGoOn DEF ChunkRead, reading
<1>9. CASE MembersDone
  BY <1>9, QuietStepsGoOn DEF MembersDone
<1>10. CASE PutOff
  <2>1. /\ phase = "member" /\ member \in present /\ member' = member + 1 /\ complete' = FALSE
        /\ reached' = [reached EXCEPT ![member] = from[member]]
        /\ UNCHANGED <<index, state, opt, present, from, found, exit>>
    BY <1>10 DEF PutOff, NextMember
  <2>2. exit' = Running /\ (opt'.resume => index'.found \subseteq found' /\ from' = state'.reached)
    BY <2>1 DEF RunGoesOn
  <2>3. ~mishap' => Covered(from, found)' /\ Covered(reached, found)'
    <3> SUFFICES ASSUME ~mishap' PROVE Covered(from, found)' /\ Covered(reached, found)'
      OBVIOUS
    <3>1. Covered(from, found) /\ Covered(reached, found)
      BY <2>1 DEF RunGoesOn
    <3>2. \A x \in Candidates : Behind(x, reached') => Behind(x, reached) \/ Behind(x, from)
      BY <2>1, PlacesAreChunks DEF Behind, TypeOK
    <3> QED
      BY <2>1, <3>1, <3>2 DEF Covered, Behind
  <2>4. ASSUME NEW m \in present, m < member + 1 PROVE reached'[m] >= from[m]
    <3>1. m \in Members /\ member \in Members /\ m <= member /\ from[m] \in Nat
      BY <2>1, <2>4, SizesAssumption DEF TypeOK, Members, Offsets
    <3>2. CASE m = member
      BY <2>1, <3>1, <3>2 DEF TypeOK
    <3>3. CASE m < member
      BY <2>1, <2>4, <3>1, <3>3 DEF TypeOK, RunGoesOn
    <3> QED
      BY <3>1, <3>2, <3>3 DEF Members
  <2> QED
    BY <2>1, <2>2, <2>3, <2>4 DEF RunGoesOn
<1>11. CASE ScanInterrupted
  BY <1>11, LeaveGoesOn DEF ScanInterrupted
<1>12. CASE ChunkCapped
  <2>1. PICK some \in SUBSET Meets : Leave(at, TRUE, hits \cup some)
    BY <1>12 DEF ChunkCapped
  <2> QED
    BY <1>12, <2>1, LeaveGoesOn DEF ChunkCapped, reading
<1>13. CASE MemberRead
  BY <1>13, LeaveGoesOn DEF MemberRead
<1>14. CASE SaveIndex
  <2>1. /\ phase = "index" /\ index'.found = found
        /\ UNCHANGED <<state, opt, present, from, found, reached, complete, member, exit, mishap>>
    BY <1>14 DEF SaveIndex
  <2> QED
    BY <2>1 DEF RunGoesOn, Covered, Behind
<1>15. CASE UNCHANGED vars
  BY <1>15, QuietStepsGoOn DEF vars
<1>16. NoScan \/ SaveState \/ IndexCutShort \/ StateCutShort \/ ScanKilled \/ Dump => phase' = "idle"
  BY DEF NoScan, SaveState, IndexCutShort, StateCutShort, ScanKilled, Dump
<1> QED
  BY <1>1, <1>2, <1>3, <1>4, <1>5, <1>6, <1>7, <1>8, <1>9, <1>10, <1>11, <1>12, <1>13, <1>14,
     <1>15, <1>16 DEF Next, Scan

\* The hits of a member cover it from where it was taken up.
LEMMA MemberGoesOnHolds == IInv /\ [Next]_vars => MemberGoesOn'
<1> SUFFICES ASSUME IInv, [Next]_vars, phase' = "chunks" PROVE MemberGoesOn'
  BY DEF MemberGoesOn
<1> TypeOK /\ RunGoesOn /\ MemberGoesOn /\ bad' = bad /\ (mishap => mishap')
  BY NothingIsUndone DEF IInv
<1> USE DEF disk, command, gathered, window
<1>1. TakeUp \/ ChunkSkipped \/ ChunkRead \/ Interrupt \/ UNCHANGED vars
  BY DEF Next, Scan, Resume, OddStart, Begin, NoScan, MemberAbsent, NextMember, PutOff, ScanInterrupted,
     Leave, ChunkCapped, MemberRead, MembersDone, SaveIndex, SaveState, IndexCutShort, StateCutShort,
     ScanKilled, Dump
<1>2. CASE TakeUp
  <2>1. /\ phase = "member" /\ member \in present /\ at' = from[member] /\ hits' = {}
        /\ UNCHANGED <<present, from, found, member, mishap>>
    BY <1>2 DEF TakeUp
  <2>2. at' >= from[member]
    BY <2>1, SizesAssumption DEF TypeOK, Offsets
  <2>3. ASSUME ~mishap, NEW x \in Candidates, Place[x][1] = member, Place[x][2] < from[member], Place[x] \notin bad
        PROVE  x \in found
    BY <2>1, <2>3 DEF RunGoesOn, Covered, Behind
  <2> QED
    BY <2>1, <2>2, <2>3 DEF MemberGoesOn
<1>3. CASE ChunkSkipped
  <2>1. /\ phase = "chunks" /\ at' = at + 1 /\ (<<member, at>> \notin bad => mishap')
        /\ UNCHANGED <<present, from, found, member, hits>>
    BY <1>3 DEF ChunkSkipped, reading
  <2>2. at \in Nat /\ from[member] \in Nat
    BY <2>1, SizesAssumption DEF TypeOK, Offsets
  <2>3. \A x \in Candidates : Place[x][1] = member /\ Place[x][2] < at + 1 =>
          Place[x][2] < at \/ Place[x] = <<member, at>>
    BY <2>2, PlacesAreChunks
  <2> QED
    BY <2>1, <2>2, <2>3 DEF MemberGoesOn
<1>4. CASE ChunkRead
  <2>1. /\ phase = "chunks" /\ at' = at + 1 /\ hits' = hits \cup Meets
        /\ UNCHANGED <<present, from, found, member, mishap>>
    BY <1>4 DEF ChunkRead, reading
  <2>2. at \in Nat /\ from[member] \in Nat
    BY <2>1, SizesAssumption DEF TypeOK, Offsets
  <2>3. \A x \in Candidates : Place[x][1] = member /\ Place[x][2] < at + 1 =>
          Place[x][2] < at \/ x \in Meets
    BY <2>2, PlacesAreChunks DEF Meets
  <2> QED
    BY <2>1, <2>2, <2>3 DEF MemberGoesOn
<1>5. CASE Interrupt \/ UNCHANGED vars
  BY <1>5 DEF Interrupt, vars, MemberGoesOn
<1> QED
  BY <1>1, <1>2, <1>3, <1>4, <1>5

-----------------------------------------------------------------------------
\* The files.

LEMMA AfterTheMembersHolds == IInv /\ [Next]_vars => AfterTheMembers'
<1> SUFFICES ASSUME IInv, [Next]_vars PROVE AfterTheMembers'
  OBVIOUS
<1> TypeOK /\ AfterTheMembers
  BY DEF IInv
<1> USE DEF disk, command, gathered, window
<1>1. CASE phase' \notin {"index", "state"}
  BY <1>1 DEF AfterTheMembers
<1>2. CASE phase' \in {"index", "state"}
  <2>1. MembersDone \/ SaveIndex \/ Interrupt \/ UNCHANGED vars
    BY <1>2 DEF Next, Scan, Resume, OddStart, Begin, NoScan, MemberAbsent, NextMember, PutOff, TakeUp,
       ScanInterrupted, Leave, ChunkSkipped, reading, ChunkRead, ChunkCapped, MemberRead, SaveState,
       IndexCutShort, StateCutShort, ScanKilled, Dump
  <2>2. CASE MembersDone
    BY <2>2, SizesAssumption DEF MembersDone, AfterTheMembers, TypeOK, Members
  <2>3. CASE SaveIndex
    BY <2>3 DEF SaveIndex, AfterTheMembers
  <2>4. CASE Interrupt \/ UNCHANGED vars
    BY <2>4 DEF Interrupt, vars, AfterTheMembers
  <2> QED
    BY <2>1, <2>2, <2>3, <2>4
<1> QED
  BY <1>1, <1>2

LEMMA NothingReadSaysNothingHolds == IInv /\ [Next]_vars => NothingReadSaysNothing'
<1> SUFFICES ASSUME IInv, [Next]_vars PROVE NothingReadSaysNothing'
  OBVIOUS
<1>1. CASE state' = state
  BY <1>1 DEF IInv, NothingReadSaysNothing
<1>2. CASE SaveState
  BY <1>2 DEF SaveState, NothingReadSaysNothing
<1>3. CASE StateCutShort
  BY <1>1, <1>3 DEF StateCutShort, NoState, NothingReadSaysNothing
<1>4. state' = state \/ SaveState \/ StateCutShort
  BY DEF Next, Scan, Resume, OddStart, NoScan, Interrupt, MemberAbsent, PutOff, TakeUp, ScanInterrupted,
     Leave, ChunkSkipped, ChunkRead, ChunkCapped, MemberRead, MembersDone, SaveIndex, IndexCutShort,
     ScanKilled, Dump, disk, vars
<1> QED
  BY <1>1, <1>2, <1>3, <1>4

LEMMA FilesAgreeHolds == IInv /\ [Next]_vars => FilesAgree'
<1> SUFFICES ASSUME IInv, [Next]_vars PROVE FilesAgree'
  OBVIOUS
<1> TypeOK /\ FilesAgree /\ RunGoesOn /\ AfterTheMembers /\ bad' = bad /\ (mishap => mishap')
  BY NothingIsUndone DEF IInv
<1> USE DEF disk, command, gathered, window
<1>1. CASE UNCHANGED <<index, state>> /\ (phase # "state" \/ UNCHANGED <<phase, opt>>)
  BY <1>1, AgreeingFilesStay
<1>2. CASE SaveIndex
  <2>1. phase = "index" /\ index' = [readable |-> TRUE, found |-> found] /\ UNCHANGED <<state, opt, mishap>>
        /\ phase' = "state"
    BY <1>2 DEF SaveIndex
  <2>2. ~mishap /\ opt.resume => Covered(state.reached, found)
    BY <2>1 DEF RunGoesOn
  <2> QED
    BY <2>1, <2>2 DEF FilesAgree, Covered, Behind
<1>3. CASE SaveState
  <2>1. phase = "state" /\ state' = [readable |-> TRUE, reached |-> reached] /\ UNCHANGED <<index, mishap>>
    BY <1>3 DEF SaveState
  <2>2. index.readable /\ index.found = found /\ (~mishap => Covered(reached, found))
    BY <2>1 DEF RunGoesOn, AfterTheMembers
  <2> QED
    BY <2>1, <2>2 DEF FilesAgree, Covered, Behind
<1>4. CASE IndexCutShort
  <2>1. phase = "index" /\ state' = state
    BY <1>4 DEF IndexCutShort
  <2>2. CASE index' = index
    BY <1>1, <2>1, <2>2
  <2>3. CASE mishap' = (mishap \/ state.readable)
    BY <2>1, <2>3 DEF FilesAgree
  <2> QED
    BY <1>4, <2>2, <2>3 DEF IndexCutShort
<1>5. CASE StateCutShort
  <2>1. phase = "state" /\ phase' = "idle" /\ UNCHANGED <<index, opt>>
    BY <1>5 DEF StateCutShort
  <2>2. CASE state' = NoState
    BY <2>2 DEF NoState, FilesAgree
  <2>3. CASE state' = state /\ mishap' = (mishap \/ (state.readable /\ ~opt.resume))
    BY <2>1, <2>3 DEF FilesAgree, Covered, Behind
  <2> QED
    BY <1>5, <2>2, <2>3 DEF StateCutShort
<1>6. \/ UNCHANGED <<index, state>> /\ (phase # "state" \/ UNCHANGED <<phase, opt>>)
      \/ SaveIndex \/ SaveState \/ IndexCutShort \/ StateCutShort
  BY DEF Next, Scan, Resume, OddStart, NoScan, Interrupt, MemberAbsent, PutOff, TakeUp, ScanInterrupted,
     Leave, ChunkSkipped, reading, ChunkRead, ChunkCapped, MemberRead, MembersDone, ScanKilled, Dump, vars
<1> QED
  BY <1>1, <1>2, <1>3, <1>4, <1>5, <1>6

\* Only a scan that left no member early ends with 0.
LEMMA ExitZeroIsOnePassKept == IInv /\ [Next]_vars => ExitZeroIsOnePass'
<1> SUFFICES ASSUME IInv, [Next]_vars PROVE ExitZeroIsOnePass'
  OBVIOUS
<1> TypeOK /\ RunGoesOn /\ AfterTheMembers /\ ExitZeroIsOnePass /\ bad' = bad /\ (mishap => mishap')
  BY NothingIsUndone DEF IInv
<1> USE DEF disk, command, gathered, window
<1>1. CASE phase' # "idle"
  BY <1>1, RunGoesOnHolds DEF RunGoesOn, ExitZeroIsOnePass, Running
<1>2. CASE NoScan \/ IndexCutShort \/ StateCutShort \/ ScanKilled
  BY <1>2 DEF NoScan, IndexCutShort, StateCutShort, ScanKilled, ExitZeroIsOnePass, USAGE, EVIDENCE,
     UNRECOVERABLE, REFUSED, MEDIUM, Killed
<1>3. CASE Dump \/ UNCHANGED vars
  BY <1>3 DEF Dump, vars, ExitZeroIsOnePass
<1>4. CASE SaveState
  <2> SUFFICES ASSUME exit' = 0, present = Members, ~mishap, NEW x \in Candidates, Place[x] \notin bad
               PROVE  x \in index.found
    BY <1>4 DEF SaveState, ExitZeroIsOnePass
  <2>1. phase = "state" /\ complete
    BY <1>4 DEF SaveState, USAGE, MEDIUM, INTERRUPTED
  <2>2. Place[x][1] \in Members /\ Place[x][2] < Chunks
    BY PlacesAreChunks, SizesAssumption
  <2>3. reached[Place[x][1]] = Chunks
    BY <2>1, <2>2, SizesAssumption DEF RunGoesOn, AfterTheMembers, Members
  <2> QED
    BY <2>1, <2>2, <2>3 DEF RunGoesOn, AfterTheMembers, Covered, Behind
<1>5. phase' # "idle" \/ NoScan \/ IndexCutShort \/ StateCutShort \/ ScanKilled \/ Dump
      \/ UNCHANGED vars \/ SaveState
  BY DEF Next, Scan, Resume, OddStart, Begin, Interrupt, MemberAbsent, NextMember, PutOff, TakeUp,
     ScanInterrupted, Leave, ChunkSkipped, reading, ChunkRead, ChunkCapped, MemberRead, MembersDone, SaveIndex
<1> QED
  BY <1>1, <1>2, <1>3, <1>4, <1>5

-----------------------------------------------------------------------------
\* The output of the dumps.

LEMMA KeysDiffer ==
  ASSUME TypeOK, NEW x \in index.found, NEW y \in index.found
  PROVE  /\ Key(x) # NoDump
         /\ Key(x) = Key(y) => x = y
<1>1. Key(x).readable = TRUE /\ NoDump.readable = FALSE
  BY DEF Key, NoDump
<1>2. Key(x).id = Id(x) /\ Key(y).id = Id(y)
  BY DEF Key
<1> QED
  BY <1>1, <1>2, IdsDiffer

LEMMA OneCandidateHolds == IInv /\ [Next]_vars => OneCandidate'
<1> SUFFICES ASSUME IInv, [Next]_vars PROVE OneCandidate'
  OBVIOUS
<1> TypeOK /\ OneCandidate
  BY DEF IInv
<1>1. CASE rescanned' = TRUE
  BY <1>1 DEF OneCandidate
<1>2. CASE UNCHANGED <<index, image, dump, rescanned>>
  BY <1>2 DEF OneCandidate, Key, Id
<1>3. CASE Dump
  <2> SUFFICES ASSUME ~rescanned' PROVE OneCandidate'
    BY DEF OneCandidate
  <2>1. index' = index
    BY <1>3 DEF Dump, disk
  <2>2. PICK x \in index.found :
          /\ \/ dump = Key(x) /\ image' = image \cup {x} /\ UNCHANGED rescanned
             \/ image' = {x} /\ rescanned' = FALSE
          /\ dump' \in {NoDump, Key(x)}
    BY <1>3 DEF Dump
  <2>3. image' = {x}
    <3>1. CASE image' = {x}
      BY <3>1
    <3>2. CASE dump = Key(x) /\ image' = image \cup {x} /\ UNCHANGED rescanned
      <4>1. dump # NoDump
        BY <3>2, KeysDiffer
      <4>2. PICK y \in index.found : image = {y} /\ dump \in {NoDump, Key(y)}
        BY <3>2, <4>1 DEF OneCandidate
      <4>3. x = y
        BY <3>2, <4>1, <4>2, KeysDiffer
      <4> QED
        BY <3>2, <4>2, <4>3
    <3> QED
      BY <2>2, <3>1, <3>2
  <2>4. Key(x)' = Key(x)
    BY <2>1 DEF Key, Id
  <2> QED
    BY <2>1, <2>2, <2>3, <2>4 DEF OneCandidate
<1>4. rescanned' = TRUE \/ UNCHANGED <<index, image, dump, rescanned>> \/ Dump
  BY DEF Next, Scan, Resume, OddStart, NoScan, Interrupt, MemberAbsent, PutOff, TakeUp, ScanInterrupted,
     Leave, ChunkSkipped, ChunkRead, ChunkCapped, MemberRead, MembersDone, SaveIndex, SaveState,
     IndexCutShort, StateCutShort, ScanKilled, disk, output, vars
<1> QED
  BY <1>1, <1>2, <1>3, <1>4

-----------------------------------------------------------------------------
\* The theorems.

LEMMA InitHolds == Init => IInv
<1> SUFFICES ASSUME Init PROVE IInv
  OBVIOUS
<1>1. TypeOK
  <2>1. refusals \in 0 .. Allowed
    BY CarveLimitAssumption DEF Init, Allowed
  <2>2. bad \in SUBSET (Members \X (0 .. Chunks - 1))
    BY DefectsAssumption DEF Init
  <2>3. member \in 1 .. NMembers + 1 /\ at \in Offsets /\ trouble \in 0 .. MaxTrouble
    BY SizesAssumption DEF Init, Offsets
  <2>4. from \in [Members -> Offsets] /\ reached \in [Members -> Offsets]
    BY StartIsAnOffset DEF Init
  <2>5. dump.readable \in BOOLEAN /\ dump.id \in Nat
    BY DEF Init, NoDump
  <2> QED
    BY <2>1, <2>2, <2>3, <2>4, <2>5, EmptyFiles DEF Init, TypeOK
<1>2. FilesAgree /\ NothingReadSaysNothing
  BY DEF Init, NoState, FilesAgree, NothingReadSaysNothing
<1>3. RunGoesOn /\ MemberGoesOn /\ AfterTheMembers
  BY DEF Init, RunGoesOn, MemberGoesOn, AfterTheMembers
<1>4. ExitZeroIsOnePass
  BY DEF Init, ExitZeroIsOnePass, Running
<1>5. OneCandidate
  BY DEF Init, OneCandidate
<1> QED
  BY <1>1, <1>2, <1>3, <1>4, <1>5 DEF IInv

LEMMA InvariantHolds == Spec => []IInv
<1>1. IInv /\ [Next]_vars => IInv'
  BY TypesHold, FilesAgreeHolds, NothingReadSaysNothingHolds, RunGoesOnHolds, MemberGoesOnHolds,
     AfterTheMembersHolds, ExitZeroIsOnePassKept, OneCandidateHolds DEF IInv
<1> QED
  BY <1>1, InitHolds, PTL DEF Spec

\* The types, and that the ledger never passes the limit.
THEOREM ScanTypes == Spec => []TypeOK
<1>1. IInv => TypeOK
  BY DEF IInv
<1> QED
  BY <1>1, InvariantHolds, PTL

\* scan.rs, the two files: what the offsets have passed is in the index.
THEOREM NothingForgottenHolds == Spec => []NothingForgotten
<1>1. IInv => NothingForgotten
  BY DEF IInv, FilesAgree, NothingForgotten, Covered
<1> QED
  BY <1>1, InvariantHolds, PTL

\* scan.rs, complete and the code: 0 means one whole pass.
THEOREM ExitZeroIsOnePassHolds == Spec => []ExitZeroIsOnePass
<1>1. IInv => ExitZeroIsOnePass
  BY DEF IInv
<1> QED
  BY <1>1, InvariantHolds, PTL

\* dump.rs, the key of the resume state: one index, one candidate.
THEOREM DumpKeepsItsCandidateHolds == Spec => []DumpKeepsItsCandidate
<1>1. IInv => DumpKeepsItsCandidate
  BY FS_EmptySet, FS_Singleton DEF IInv, OneCandidate, DumpKeepsItsCandidate
<1> QED
  BY <1>1, InvariantHolds, PTL

\* scan.rs, earlier: a resume adds to the index.
THEOREM ResumeOnlyAddsHolds == Spec => ResumeOnlyAdds
<1>1. IInv /\ [Next]_vars =>
        [phase # "idle" /\ opt.resume /\ index.readable /\ index'.readable => index.found \subseteq index'.found]_vars
  <2> SUFFICES ASSUME IInv, [Next]_vars, phase # "idle", opt.resume, index'.readable
               PROVE  index.found \subseteq index'.found
    OBVIOUS
  <2>1. CASE index' = index
    BY <2>1
  <2>2. CASE SaveIndex
    BY <2>2 DEF SaveIndex, IInv, RunGoesOn
  <2>3. index' # NoIndex
    BY DEF NoIndex
  <2>4. index' = index \/ SaveIndex \/ index' = NoIndex
    BY DEF Next, Scan, Resume, OddStart, NoScan, Interrupt, MemberAbsent, PutOff, TakeUp, ScanInterrupted,
       Leave, ChunkSkipped, ChunkRead, ChunkCapped, MemberRead, MembersDone, SaveState,
       IndexCutShort, StateCutShort, ScanKilled, Dump, disk, vars
  <2> QED
    BY <2>1, <2>2, <2>3, <2>4
<1> QED
  BY <1>1, InvariantHolds, PTL DEF Spec, ResumeOnlyAdds

\* scan.rs, reached: what a member came to, or what it had.
THEOREM OffsetsNeverFallBackHolds == Spec => OffsetsNeverFallBack
<1>1. IInv /\ [Next]_vars =>
        [phase # "idle" /\ opt.resume /\ present = Members /\ state.readable /\ state'.readable =>
           \A m \in Members : state'.reached[m] >= state.reached[m]]_vars
  <2> SUFFICES ASSUME IInv, [Next]_vars, phase # "idle", opt.resume, present = Members, state'.readable,
                      NEW m \in Members
               PROVE  state'.reached[m] >= state.reached[m]
    OBVIOUS
  <2>1. CASE state' = state
    <3>1. state.reached[m] \in Nat
      BY SizesAssumption DEF IInv, TypeOK, Offsets
    <3> QED
      BY <2>1, <3>1
  <2>2. CASE SaveState
    <3>1. phase = "state" /\ state'.reached = reached
      BY <2>2 DEF SaveState
    <3>2. m < member
      BY <3>1, SizesAssumption DEF IInv, AfterTheMembers, Members
    <3> QED
      BY <3>1, <3>2 DEF IInv, RunGoesOn
  <2>3. state' # NoState
    BY DEF NoState
  <2>4. state' = state \/ SaveState \/ state' = NoState
    BY DEF Next, Scan, Resume, OddStart, NoScan, Interrupt, MemberAbsent, PutOff, TakeUp, ScanInterrupted,
       Leave, ChunkSkipped, ChunkRead, ChunkCapped, MemberRead, MembersDone, SaveIndex,
       IndexCutShort, StateCutShort, ScanKilled, Dump, disk, vars
  <2> QED
    BY <2>1, <2>2, <2>3, <2>4
<1> QED
  BY <1>1, InvariantHolds, PTL DEF Spec, OffsetsNeverFallBack
=============================================================================
