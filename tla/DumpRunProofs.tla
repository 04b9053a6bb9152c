---------------------------- MODULE DumpRunProofs ----------------------------
(***************************************************************************)
(* The properties of bulk_run, for every pool, command line and limit.     *)
(***************************************************************************)
EXTENDS DumpRun, WellFoundedInduction, TLAPS

-----------------------------------------------------------------------------
\* The inductive invariant.

\* Until the loop nothing was done, and nothing is told until the end.
NothingDone ==
  volumes = <<>> /\ skipped = <<>> /\ late = 0 /\ code = 0 /\ files = [f \in Files |-> Untouched]

PhaseFacts ==
  /\ phase \in {"open", "choose", "search", "found", "targets"} => NothingDone /\ todo = {}
  /\ phase = "found" => at \in Txgs
  /\ phase = "loop" /\ ~opt.recursive /\ todo # {} =>
       NothingDone /\ \A j, k \in todo : j = k
  /\ phase = "loop" /\ opt.recursive => todo \subseteq Under
  /\ phase = "finish" => todo = {}
  /\ phase # "ended" => exit = Running /\ record = NoRecord

\* The ways an extraction comes to a report.
Hows == {"whole", "part", "stopped", "interrupted"}

\* The code is as bad as each volume so far.
CodeCovers ==
  /\ \A k \in DOMAIN volumes : LET how == volumes[k].holds.how IN how \in Hows /\ code >= CodeOf(how)
  /\ \A k \in DOMAIN skipped : code >= skipped[k].code

\* The loop ends with the first volume that counts.
LateIsLast == late <= 1 /\ (late > 0 => phase \in {"loop", "finish", "ended"} /\ todo = {})

\* What the reports so far say of the outputs.
Told(f) ==
  \/ \E k \in DOMAIN volumes : volumes[k] = [file |-> f, holds |-> files[f]]
  \/ files[f].how = "torn" /\ code >= UNRECOVERABLE
StillHolds(r) == files[r.file] = r.holds \/ Shared(r.file) \/ files[r.file].how = "torn"
ReportsFollowFiles ==
  /\ \A f \in Files : files[f] # Untouched => Told(f)
  /\ \A k \in DOMAIN volumes : StillHolds(volumes[k])

\* Under code 0 each target behind the loop has its image.
KeptSoFar ==
  /\ exit = 0 => code = 0 /\ phase = "ended" /\ todo = {}
  /\ (phase \in {"loop", "finish"} \/ exit = 0) /\ opt.recursive /\ code = 0 /\ unread = {} =>
       \A k \in Under : k \in tree \ todo /\ Held[at][k].volume /\ Alone(k) =>
         HasItsImage(Held[at][k])

IInv ==
  /\ TypeOK
  /\ PhaseFacts
  /\ CodeCovers
  /\ CodeNeverFlatters
  /\ LateIsLast
  /\ ReportsFollowFiles
  /\ RecordAccountsForOutputs
  /\ KeptSoFar
  /\ SearchReachesWhatReads

-----------------------------------------------------------------------------
\* Types.

\* The ledger has room for one refusal at least.
LEMMA RoomInTheLedger ==
  ASSUME TypeOK PROVE Allowed \in Nat \ {0}
BY LimitAssumption DEF TypeOK, Allowed

\* Each target is the one at its position, the first of those left.
LEMMA FirstIsLeft ==
  ASSUME TypeOK, todo # {}
  PROVE  first \in todo /\ at \in Txgs /\ ds \in Dataset
<1>1. todo \subseteq Nat /\ at \in Txgs /\ todo \subseteq DOMAIN Held[at]
  BY HeldAssumption DEF TypeOK, Txgs
<1>2. \E x \in todo : \A y \in todo : ~ (<<y, x>> \in OpToRel(<, Nat))
  BY <1>1, NatLessThanWellFounded, WFMin
<1>3. PICK x \in todo : \A y \in todo : ~ (<<y, x>> \in OpToRel(<, Nat))
  BY <1>2
<1>4. \A y \in todo : ~ (y < x)
  BY <1>1, <1>3 DEF OpToRel
<1>5. \A y \in todo : x <= y
  BY <1>1, <1>4
<1>6. first \in todo
  BY <1>5 DEF first
<1> QED
  BY <1>1, <1>6, HeldAssumption DEF ds

\* Whatever ends the run leaves a status and a record.
LEMMA EndRunTypes ==
  ASSUME TypeOK, NEW c \in Codes, NEW outputs \in Seq(Reports), EndRun(c, outputs)
  PROVE  /\ phase' = "ended"
         /\ exit' \in Codes \cup {Running}
         /\ record' \in [status : Codes \cup {Running}, outputs : Seq(Reports)]
BY DEF TypeOK, EndRun, Codes, MEDIUM, USAGE

LEMMA WorseIsACode ==
  ASSUME NEW c \in Codes, NEW e \in Codes
  PROVE  Worse(c, e) \in Codes /\ Worse(c, e) >= c /\ Worse(c, e) >= e
BY DEF Worse, Codes, MEDIUM

\* A file of a target, and what is put down of one.
LEMMA TargetTypes ==
  ASSUME TypeOK, looping,
         NEW how \in {"torn", "whole", "part", "stopped", "interrupted"}
  PROVE  /\ first \in todo /\ at \in Txgs /\ ds \in Dataset /\ ds.name \in Names
         /\ FileOf(ds) \in Files
         /\ Extracted(how) \in Content /\ Report(how) \in Reports
<1>1. first \in todo /\ at \in Txgs /\ ds \in Dataset
  BY FirstIsLeft DEF looping
<1>2. ds.name \in Names
  BY <1>1 DEF Dataset
<1>3. FileOf(ds) \in Files
  BY <1>2, FilesAssumption DEF FileOf
<1> QED
  BY <1>1, <1>2, <1>3 DEF Extracted, Report, Content, Reports

LEMMA SkipTypes ==
  ASSUME TypeOK, looping, NEW c \in Codes, Skip(c)
  PROVE  /\ skipped' \in Seq([name : Names, code : Codes]) /\ code' \in Codes
         /\ todo' \subseteq todo /\ phase' = "loop"
<1>1. ds.name \in Names
  BY TargetTypes
<1>2. code' \in Codes
  BY WorseIsACode DEF Skip, TypeOK
<1> DEFINE entry == [name |-> ds.name, code |-> c]
<1>3. entry \in [name : Names, code : Codes]
  BY <1>1
<1>4. skipped' = skipped \/ skipped' = Append(skipped, entry)
  BY DEF Skip
<1>5. skipped' \in Seq([name : Names, code : Codes])
  <2> DEFINE Entries == [name : Names, code : Codes]
  <2>1. skipped \in Seq(Entries) /\ entry \in Entries
    BY <1>3 DEF TypeOK
  <2> HIDE DEF entry, Entries
  <2>2. skipped' \in Seq(Entries)
    BY <1>4, <2>1
  <2> QED
    BY <2>2 DEF Entries
<1> QED
  BY <1>2, <1>5 DEF Skip, NextTarget, LeaveLoop

LEMMA ExtractTypes ==
  ASSUME TypeOK, NEW c \in Codes, NEW how \in {"whole", "part", "stopped", "interrupted"},
         Extract(how, c)
  PROVE  /\ files' \in [Files -> Content] /\ volumes' \in Seq(Reports)
         /\ code' \in Codes /\ late' \in Nat
<1>1. looping
  BY DEF Extract, tried
<1>2. FileOf(ds) \in Files /\ Extracted(how) \in Content /\ Report(how) \in Reports
  BY <1>1, TargetTypes
<1>3. code' \in Codes
  BY WorseIsACode DEF Extract, TypeOK
<1>4. files' \in [Files -> Content]
  BY <1>2 DEF Extract, TypeOK
<1>5. volumes' \in Seq(Reports)
  BY <1>2 DEF Extract, TypeOK
<1> QED
  BY <1>3, <1>4, <1>5 DEF Extract, TypeOK

\* Refusals are never taken back, and never pass the limit.
LEMMA RefusalsGrow ==
  ASSUME TypeOK, UNCHANGED opt,
         UNCHANGED refusals \/ Answered \/ Refused \/ Tolerated \/ (~Stopped /\ refusals' = Allowed)
  PROVE  refusals' \in 0 .. Allowed /\ refusals' >= refusals /\ Allowed' = Allowed
<1>1. Allowed \in Nat \ {0} /\ Allowed' = Allowed
  BY RoomInTheLedger DEF Allowed
<1> QED
  BY <1>1 DEF TypeOK, Answered, Refused, Tolerated, Stopped

\* Each step keeps the types.
LEMMA TypesStep ==
  ASSUME TypeOK, PhaseFacts, [Next]_vars PROVE TypeOK'
<1> USE DEF vars, world, scan, search, outcome, ending
<1> USAGE \in Codes /\ EVIDENCE \in Codes /\ UNRECOVERABLE \in Codes /\ PARTIAL \in Codes
    /\ REFUSED \in Codes /\ INTERRUPTED \in Codes /\ MEDIUM \in Codes /\ 0 \in Codes
  BY DEF Codes, USAGE, EVIDENCE, UNRECOVERABLE, PARTIAL, REFUSED, INTERRUPTED, MEDIUM
<1> <<>> \in Seq(Reports)
  OBVIOUS
<1>1. CASE Interrupt
  BY <1>1 DEF Interrupt, TypeOK, Allowed
<1>2. CASE BadArguments \/ ChooseFails \/ NotFound \/ NoDirectory
  <2>1. PICK c \in Codes : EndRun(c, <<>>)
    BY <1>2 DEF BadArguments, ChooseFails, NotFound, NoDirectory, EndEarly
  <2>2. UNCHANGED <<world, scan, search, refusals, todo, flag, code, outcome>>
    BY <1>2 DEF BadArguments, ChooseFails, NotFound, NoDirectory
  <2> QED
    BY <2>1, <2>2, EndRunTypes DEF TypeOK, Allowed
<1>3. CASE OpenMember
  <2>1. refusals' \in 0 .. Allowed /\ Allowed' = Allowed
    BY <1>3, RefusalsGrow DEF OpenMember
  <2>2. opened' \in 0 .. Members /\ failed' \in 0 .. opened'
    BY <1>3, MembersAssumption DEF OpenMember, TypeOK
  <2>3. /\ phase' \in {"open", "ended"} /\ exit' \in Codes \cup {Running}
        /\ record' \in [status : Codes \cup {Running}, outputs : Seq(Reports)]
    BY <1>3, EndRunTypes DEF OpenMember, TypeOK, EndEarly
  <2> QED
    BY <1>3, <2>1, <2>2, <2>3 DEF OpenMember, TypeOK
<1>4. CASE AssembleFails
  <2>1. refusals' \in 0 .. Allowed /\ Allowed' = Allowed
    BY <1>4, RefusalsGrow DEF AssembleFails
  <2>2. PICK c \in Codes : EndRun(c, <<>>)
    BY <1>4 DEF AssembleFails, EndEarly
  <2> QED
    BY <1>4, <2>1, <2>2, EndRunTypes DEF AssembleFails, TypeOK
<1>5. CASE Assemble \/ DatasetReads
  <2>1. refusals' \in 0 .. Allowed /\ Allowed' = Allowed
    BY <1>5, RefusalsGrow DEF Assemble, DatasetReads
  <2> QED
    BY <1>5, <2>1 DEF Assemble, DatasetReads, TypeOK
<1>6. CASE Choose
  BY <1>6 DEF Choose, TypeOK, Allowed
<1>7. CASE PoolUnreadable \/ PoolRefused \/ DatasetUnreadable \/ DatasetRefused
  <2>1. refusals' \in 0 .. Allowed /\ Allowed' = Allowed
    BY <1>7, RefusalsGrow
    DEF PoolUnreadable, PoolRefused, DatasetUnreadable, DatasetRefused
  <2>2. todo = {} /\ at \in Txgs
    BY <1>7 DEF PhaseFacts, PoolUnreadable, PoolRefused, DatasetUnreadable, DatasetRefused, searching
  <2>3. at' \in 1 .. NTxgs + 1 /\ phase' = "search" /\ tree' = {} /\ unread' = {}
    BY <1>7, <2>2, TxgsAssumption
    DEF PoolUnreadable, PoolRefused, DatasetUnreadable, DatasetRefused, NextTxg, GiveUp, SearchFrom, Txgs
  <2> QED
    BY <1>7, <2>1, <2>2, <2>3
    DEF TypeOK, PoolUnreadable, PoolRefused, DatasetUnreadable, DatasetRefused
<1>8. CASE Walk
  <2>1. refusals' \in 0 .. Allowed /\ Allowed' = Allowed
    BY <1>8, RefusalsGrow DEF Walk
  <2>2. todo = {} /\ at \in Txgs
    BY <1>8 DEF PhaseFacts, Walk, searching
  <2>3. /\ at' \in 1 .. NTxgs + 1 /\ phase' \in {"search", "found"}
        /\ tree' \subseteq (IF at' \in Txgs THEN DOMAIN Held[at'] ELSE {}) /\ unread' \subseteq tree'
    BY <1>8, <2>2, TxgsAssumption DEF Walk, NextTxg, SearchFrom, Txgs, TypeOK
  <2> QED
    BY <1>8, <2>1, <2>2, <2>3 DEF TypeOK, Walk
<1>9. CASE Targets
  BY <1>9 DEF Targets, TypeOK, Allowed
<1>10. CASE SkipNotVolume
  <2>1. looping
    BY <1>10 DEF SkipNotVolume
  <2> DEFINE entry == [name |-> ds.name, code |-> 0]
  <2>2. entry \in [name : Names, code : Codes]
    BY <2>1, TargetTypes
  <2>3. skipped' \in Seq([name : Names, code : Codes])
    BY <1>10, <2>2 DEF SkipNotVolume, TypeOK
  <2> QED
    BY <1>10, <2>3 DEF SkipNotVolume, TypeOK, NextTarget, Allowed
<1>11. CASE Locked
  <2>1. CASE Skip(USAGE) /\ UNCHANGED ending
    <3>1. looping
      BY <1>11 DEF Locked, tried
    <3> QED
      BY <1>11, <2>1, <3>1, SkipTypes DEF Locked, TypeOK, Allowed
  <2>2. CASE EndRun(USAGE, <<>>) /\ UNCHANGED <<skipped, code, todo>>
    BY <1>11, <2>2, EndRunTypes DEF Locked, TypeOK, Allowed
  <2> QED
    BY <1>11, <2>1, <2>2 DEF Locked, EndEarly
<1>12. CASE VolumeUnopened \/ OutputUnopened \/ ExtractionFails
  <2>1. looping
    BY <1>12 DEF VolumeUnopened, OutputUnopened, ExtractionFails, tried
  <2>2. PICK c \in Codes : Skip(c)
    BY <1>12 DEF VolumeUnopened, OutputUnopened, ExtractionFails
  <2>3. refusals' \in 0 .. Allowed /\ Allowed' = Allowed
    BY <1>12, RefusalsGrow
    DEF VolumeUnopened, OutputUnopened, ExtractionFails
  <2>4. files' \in [Files -> Content]
    BY <1>12, <2>1, TargetTypes DEF VolumeUnopened, OutputUnopened, ExtractionFails, TypeOK
  <2>5. UNCHANGED <<world, scan, search, flag, volumes, late, ending>>
    BY <1>12 DEF VolumeUnopened, OutputUnopened, ExtractionFails
  <2> QED
    BY <2>1, <2>2, <2>3, <2>4, <2>5, SkipTypes DEF TypeOK
<1>13. CASE ExtractWhole \/ ExtractPart \/ ExtractStopped \/ ExtractInterrupted
  <2>1. PICK c \in Codes, how \in {"whole", "part", "stopped", "interrupted"} : Extract(how, c)
    BY <1>13 DEF ExtractWhole, ExtractPart, ExtractStopped, ExtractInterrupted
  <2>2. UNCHANGED <<world, scan, search, flag, skipped, ending>>
    BY <2>1 DEF Extract
  <2>3. refusals' \in 0 .. Allowed /\ Allowed' = Allowed
    BY <1>13, <2>2, RefusalsGrow
    DEF ExtractWhole, ExtractPart, ExtractStopped, ExtractInterrupted
  <2>4. todo' \subseteq todo /\ phase' = "loop"
    BY <1>13 DEF ExtractWhole, ExtractPart, ExtractStopped, ExtractInterrupted, NextTarget, LeaveLoop
  <2> QED
    BY <2>1, <2>2, <2>3, <2>4, ExtractTypes DEF TypeOK
<1>14. CASE Manifest
  <2>1. code' \in Codes
    BY <1>14, WorseIsACode DEF Manifest, TypeOK
  <2> QED
    BY <1>14, <2>1 DEF Manifest, TypeOK, Allowed
<1>15. CASE Finish
  <2>1. PICK c \in Codes : EndRun(c, volumes)
    BY <1>15 DEF Finish, TypeOK
  <2>2. volumes \in Seq(Reports)
    BY DEF TypeOK
  <2> QED
    BY <1>15, <2>1, <2>2, EndRunTypes DEF Finish, TypeOK, Allowed
<1>16. CASE UNCHANGED vars
  BY <1>16 DEF TypeOK, Allowed
<1> QED
  BY <1>1, <1>2, <1>3, <1>4, <1>5, <1>6, <1>7, <1>8, <1>9, <1>10, <1>11, <1>12, <1>13, <1>14,
     <1>15, <1>16 DEF Next, Ended

-----------------------------------------------------------------------------
\* The kinds of steps.

LEMMA CodesOfEnds ==
  /\ CodeOf("whole") = 0 /\ CodeOf("part") = PARTIAL /\ CodeOf("stopped") = PARTIAL
  /\ CodeOf("interrupted") = INTERRUPTED
BY DEF CodeOf

\* What a step makes of the outputs: nothing, an output cut short, or a
\* report; the code never goes down.
LEMMA KindsOfSteps ==
  ASSUME TypeOK, [Next]_vars
  PROVE  /\ code' >= code /\ opt' = opt
         /\ \/ UNCHANGED <<volumes, files, late>>
            \/ ExtractionFails
            \/ \E how \in Hows : Extract(how, CodeOf(how)) /\ (how = "interrupted" => LeaveLoop)
<1> USE DEF vars, world, scan, search, outcome, ending
<1> /\ code \in Codes /\ 0 \in Codes /\ USAGE \in Codes /\ UNRECOVERABLE \in Codes
    /\ PARTIAL \in Codes /\ INTERRUPTED \in Codes /\ code >= code
  BY DEF TypeOK, Codes, USAGE, UNRECOVERABLE, PARTIAL, INTERRUPTED, MEDIUM
<1>1. CASE \/ Interrupt \/ BadArguments \/ OpenMember \/ AssembleFails \/ Assemble
           \/ ChooseFails \/ Choose
  BY <1>1 DEF Interrupt, BadArguments, OpenMember, AssembleFails, Assemble, ChooseFails, Choose
<1>2. CASE \/ PoolUnreadable \/ PoolRefused \/ Walk \/ DatasetReads \/ DatasetUnreadable
           \/ DatasetRefused \/ NotFound \/ NoDirectory \/ Targets
  BY <1>2 DEF PoolUnreadable, PoolRefused, Walk, DatasetReads, DatasetUnreadable,
     DatasetRefused, NotFound, NoDirectory, Targets
<1>3. CASE \/ SkipNotVolume \/ Locked \/ VolumeUnopened \/ OutputUnopened \/ ExtractionFails
           \/ Manifest \/ Finish \/ UNCHANGED vars
  BY <1>3, WorseIsACode DEF SkipNotVolume, Locked, VolumeUnopened, OutputUnopened,
     ExtractionFails, Manifest, Finish, Skip
<1>4. CASE ExtractWhole \/ ExtractPart \/ ExtractStopped \/ ExtractInterrupted
  <2>1. PICK how \in Hows : Extract(how, CodeOf(how)) /\ (how = "interrupted" => LeaveLoop)
    BY <1>4, CodesOfEnds DEF Hows, ExtractWhole, ExtractPart, ExtractStopped, ExtractInterrupted
  <2>2. CodeOf(how) \in Codes
    BY CodesOfEnds DEF Hows
  <2> QED
    BY <2>1, <2>2, WorseIsACode DEF Extract
<1> QED
  BY <1>1, <1>2, <1>3, <1>4 DEF Next, Ended

\* A step that does not end the run tells nothing, and one that does ends it
\* with a code no better than the run's; status 0 comes from the last step
\* of a run without failed members only.
LEMMA HowARunEnds ==
  ASSUME TypeOK, PhaseFacts, [Next]_vars
  PROVE  \/ UNCHANGED ending /\ (phase' = "ended" <=> phase = "ended")
         \/ /\ phase # "ended" /\ phase' = "ended"
            /\ UNCHANGED <<volumes, skipped, files, code, late, todo, tree, unread, at, opt>>
            /\ \E c \in Codes : \E outputs \in Seq(Reports) :
                 /\ EndRun(c, outputs)
                 /\ c >= code /\ (failed' > 0 => c # 0)
                 /\ outputs = volumes
                 /\ NothingDone \/ (phase = "finish" /\ (c = 0 => code = 0))
                 /\ c = 0 => phase = "finish"
<1> USE DEF vars, world, scan, search, outcome, ending
<1> /\ USAGE \in Codes \ {0} /\ EVIDENCE \in Codes \ {0} /\ UNRECOVERABLE \in Codes \ {0}
    /\ REFUSED \in Codes \ {0} /\ MEDIUM \in Codes \ {0}
  BY DEF Codes, USAGE, EVIDENCE, UNRECOVERABLE, PARTIAL, REFUSED, INTERRUPTED, MEDIUM
<1> DEFINE Ends(c) == EndRun(c, <<>>) /\ NothingDone /\ phase # "ended"
                      /\ UNCHANGED <<volumes, skipped, files, code, late, todo, tree, unread, at, opt>>
<1>1. ASSUME NEW c \in Codes \ {0}, Ends(c)
      PROVE  /\ phase' = "ended"
             /\ \E e \in Codes : \E outputs \in Seq(Reports) :
                 /\ EndRun(e, outputs)
                 /\ e >= code /\ (failed' > 0 => e # 0)
                 /\ outputs = volumes
                 /\ NothingDone \/ (phase = "finish" /\ (e = 0 => code = 0))
                 /\ e = 0 => phase = "finish"
  <2>1. <<>> \in Seq(Reports) /\ volumes = <<>> /\ c >= code /\ EndRun(c, <<>>)
    BY <1>1 DEF NothingDone, Codes
  <2> QED
    BY <1>1, <2>1 DEF EndRun
<1>2. CASE \/ BadArguments \/ AssembleFails \/ ChooseFails \/ NotFound \/ NoDirectory
           \/ (OpenMember /\ EndEarly(MEDIUM)) \/ (Locked /\ EndEarly(USAGE) /\ ~opt.recursive
                                                   /\ UNCHANGED <<skipped, code, todo>>)
  <2>1. \E c \in Codes \ {0} : Ends(c)
    BY <1>2 DEF BadArguments, AssembleFails, ChooseFails, NotFound, NoDirectory, OpenMember, Locked,
       EndEarly, PhaseFacts, tried, looping
  <2> QED
    BY <1>1, <2>1
<1>3. CASE Finish
  <2> DEFINE c == IF code = 0 /\ failed > 0 THEN EVIDENCE ELSE code
  <2>1. c \in Codes /\ c >= code /\ (failed' > 0 => c # 0) /\ (c = 0 => code = 0)
    BY <1>3 DEF Finish, TypeOK, Codes, EVIDENCE, MEDIUM
  <2>2. volumes \in Seq(Reports) /\ phase = "finish" /\ EndRun(c, volumes)
    BY <1>3 DEF Finish, TypeOK
  <2>3. UNCHANGED <<volumes, skipped, files, code, late, todo, tree, unread, at, opt>>
        /\ phase' = "ended"
    BY <1>3 DEF Finish, EndRun
  <2> QED
    BY <2>1, <2>2, <2>3
<1>4. CASE \/ (OpenMember /\ UNCHANGED <<phase, ending>>) \/ (Locked /\ Skip(USAGE) /\ UNCHANGED ending)
           \/ Interrupt \/ Assemble \/ Choose \/ PoolUnreadable \/ PoolRefused \/ Walk \/ DatasetReads
           \/ DatasetUnreadable \/ DatasetRefused \/ Targets
  BY <1>4 DEF OpenMember, Locked, Skip, tried, looping, NextTarget, LeaveLoop, Interrupt, Assemble,
     Choose, PoolUnreadable, PoolRefused, Walk, DatasetReads, DatasetUnreadable, DatasetRefused, Targets,
     searching, NextTxg, GiveUp, SearchFrom
<1>5. CASE \/ SkipNotVolume \/ VolumeUnopened \/ OutputUnopened \/ ExtractionFails \/ ExtractWhole
           \/ ExtractPart \/ ExtractStopped \/ ExtractInterrupted \/ Manifest \/ UNCHANGED vars
  BY <1>5 DEF SkipNotVolume, VolumeUnopened, OutputUnopened, ExtractionFails, ExtractWhole, ExtractPart,
     ExtractStopped, ExtractInterrupted, Extract, Manifest, Skip, tried, looping, NextTarget, LeaveLoop
<1> QED
  BY <1>2, <1>3, <1>4, <1>5 DEF Next, Ended, OpenMember, Locked

-----------------------------------------------------------------------------
\* The steps of the invariant.

\* Nothing is done before the loop; a run for one volume has one target.
LEMMA PhaseStep ==
  ASSUME TypeOK, PhaseFacts, [Next]_vars PROVE PhaseFacts'
<1> USE DEF vars, world, scan, search, outcome, ending
<1>1. CASE UNCHANGED vars
  BY <1>1 DEF PhaseFacts, NothingDone, Under
<1>2. CASE Next /\ phase' = "ended"
  <2>1. CASE UNCHANGED ending /\ phase = "ended"
    BY <1>2, <2>1 DEF PhaseFacts
  <2>2. CASE phase # "ended"
    BY <1>2, <2>2 DEF PhaseFacts
  <2> QED
    BY <1>2, <2>1, <2>2, HowARunEnds
<1>3. CASE Next /\ phase' # "ended"
  <2>1. UNCHANGED ending /\ phase # "ended"
    BY <1>3, HowARunEnds
  <2>2. exit' = Running /\ record' = NoRecord
    BY <2>1 DEF PhaseFacts
  <2>3. CASE \/ Interrupt \/ OpenMember \/ Assemble \/ Choose \/ PoolUnreadable \/ PoolRefused
             \/ Walk \/ DatasetReads \/ DatasetUnreadable \/ DatasetRefused
    BY <1>3, <2>2, <2>3 DEF PhaseFacts, NothingDone, Under, Interrupt, OpenMember, Assemble, Choose,
       PoolUnreadable, PoolRefused, Walk, DatasetReads, DatasetUnreadable, DatasetRefused,
       NextTxg, GiveUp, SearchFrom, searching, EndEarly, EndRun
  <2>4. CASE Targets
    <3>1. NothingDone' /\ phase' = "loop"
      BY <2>4 DEF Targets, PhaseFacts, NothingDone
    <3>2. \A k \in todo' : k \in tree /\ at \in Txgs /\ k \in DOMAIN Held[at] /\ Target(Held[at][k])
      BY <2>4 DEF Targets, TypeOK
    <3>3. ~opt.recursive => \A j, k \in todo' : j = k
      BY <3>2, HeldAssumption DEF Target
    <3>4. opt.recursive => todo' \subseteq Under'
      BY <2>4, <3>2 DEF Target, Under, Targets
    <3> QED
      BY <2>2, <2>4, <3>1, <3>3, <3>4 DEF PhaseFacts, Targets
  <2>5. CASE Manifest
    BY <2>2, <2>5 DEF PhaseFacts, Manifest
  <2>6. CASE \/ SkipNotVolume \/ Locked \/ VolumeUnopened \/ OutputUnopened \/ ExtractionFails
             \/ ExtractWhole \/ ExtractPart \/ ExtractStopped \/ ExtractInterrupted
    <3>1. looping /\ phase' = "loop" /\ UNCHANGED <<opt, at>>
      BY <1>3, <2>6 DEF SkipNotVolume, Locked, VolumeUnopened, OutputUnopened, ExtractionFails, ExtractWhole,
         ExtractPart, ExtractStopped, ExtractInterrupted, tried, Extract, Skip, NextTarget, LeaveLoop,
         EndEarly, EndRun
    <3>2. todo' = {} \/ todo' = todo \ {first}
      BY <1>3, <2>6 DEF SkipNotVolume, Locked, VolumeUnopened, OutputUnopened, ExtractionFails, ExtractWhole,
         ExtractPart, ExtractStopped, ExtractInterrupted, tried, Extract, Skip, NextTarget, LeaveLoop,
         EndEarly, EndRun
    <3>3. first \in todo
      BY <3>1, FirstIsLeft DEF looping
    <3>4. ~opt.recursive => todo' = {}
      BY <3>1, <3>2, <3>3 DEF PhaseFacts, looping
    <3>5. opt.recursive => todo' \subseteq Under'
      BY <3>1, <3>2 DEF PhaseFacts, looping, Under
    <3> QED
      BY <2>2, <3>1, <3>4, <3>5 DEF PhaseFacts
  <2> QED
    BY <1>3, <2>1, <2>3, <2>4, <2>5, <2>6 DEF Next, Ended, BadArguments, AssembleFails, ChooseFails,
       NotFound, NoDirectory, Finish, EndEarly, EndRun
<1> QED
  BY <1>1, <1>2, <1>3

\* One more at the end.
LEMMA OneMore ==
  ASSUME NEW S, NEW s \in Seq(S), NEW e \in S
  PROVE  /\ \A k \in DOMAIN Append(s, e) : Append(s, e)[k] = e \/ (k \in DOMAIN s /\ Append(s, e)[k] = s[k])
         /\ \A k \in DOMAIN s : k \in DOMAIN Append(s, e) /\ Append(s, e)[k] = s[k]
         /\ Len(s) + 1 \in DOMAIN Append(s, e) /\ Append(s, e)[Len(s) + 1] = e
         /\ \A k \in DOMAIN s : k < Len(s) + 1
OBVIOUS

\* A report of a target is put at the end of the reports.
LEMMA OneMoreReport ==
  ASSUME TypeOK, NEW how \in Hows, Extract(how, CodeOf(how))
  PROVE  /\ looping /\ Report(how) \in Reports /\ FileOf(ds) \in Files
         /\ Extracted(how) \in Content
         /\ Report(how).holds.how = how /\ Report(how).file = FileOf(ds)
         /\ Report(how).holds = Extracted(how)
         /\ CodeOf(how) \in Codes /\ code' >= CodeOf(how) /\ code' >= code
         /\ \A k \in DOMAIN volumes' : volumes'[k] = Report(how) \/ (k \in DOMAIN volumes /\ volumes'[k] = volumes[k])
         /\ \A k \in DOMAIN volumes : k \in DOMAIN volumes' /\ volumes'[k] = volumes[k]
         /\ Len(volumes) + 1 \in DOMAIN volumes' /\ volumes'[Len(volumes) + 1] = Report(how)
         /\ \A k \in DOMAIN volumes : k < Len(volumes) + 1
<1>1. looping /\ code \in Codes /\ volumes \in Seq(Reports) /\ volumes' = Append(volumes, Report(how))
      /\ code' = Worse(code, CodeOf(how))
  BY DEF Extract, tried, TypeOK
<1>2. CodeOf(how) \in Codes
  BY CodesOfEnds DEF Hows, Codes, PARTIAL, INTERRUPTED, MEDIUM
<1>3. Report(how) \in Reports /\ FileOf(ds) \in Files /\ Extracted(how) \in Content
  BY <1>1, TargetTypes DEF Hows
<1>4. code' >= CodeOf(how) /\ code' >= code
  BY <1>1, <1>2, WorseIsACode
<1>5. Report(how).holds.how = how /\ Report(how).file = FileOf(ds) /\ Report(how).holds = Extracted(how)
  BY DEF Report, Extracted
<1> DEFINE r == Report(how)
<1>6. r \in Reports /\ volumes' = Append(volumes, r)
  BY <1>1, <1>3
<1> HIDE DEF r
<1>7. /\ \A k \in DOMAIN volumes' : volumes'[k] = r \/ (k \in DOMAIN volumes /\ volumes'[k] = volumes[k])
      /\ \A k \in DOMAIN volumes : k \in DOMAIN volumes' /\ volumes'[k] = volumes[k]
      /\ Len(volumes) + 1 \in DOMAIN volumes' /\ volumes'[Len(volumes) + 1] = r
      /\ \A k \in DOMAIN volumes : k < Len(volumes) + 1
  BY <1>1, <1>6, OneMore
<1> QED
  BY <1>1, <1>2, <1>3, <1>4, <1>5, <1>7 DEF r

\* A code no lower covers what was skipped before.
LEMMA StillCovered ==
  ASSUME TypeOK, CodeCovers, NEW c \in Codes, c >= code
  PROVE  \A k \in DOMAIN skipped : c >= skipped[k].code
<1> TAKE k \in DOMAIN skipped
<1>1. skipped[k] \in [name : Names, code : Codes]
  <2> DEFINE Entries == [name : Names, code : Codes]
  <2>1. skipped \in Seq(Entries)
    BY DEF TypeOK
  <2> HIDE DEF Entries
  <2>2. skipped[k] \in Entries
    BY <2>1
  <2> QED
    BY <2>2 DEF Entries
<1>2. skipped[k].code \in Codes /\ code >= skipped[k].code /\ code \in Codes
  BY <1>1 DEF CodeCovers, TypeOK
<1> QED
  BY <1>2 DEF Codes

\* What is put down as skipped has raised the code to its own.
LEMMA OneMoreSkipped ==
  ASSUME TypeOK, looping, NEW c \in Codes, code' \in Codes, code' >= c, code' >= code,
         CodeCovers,
         UNCHANGED skipped \/ skipped' = Append(skipped, [name |-> ds.name, code |-> c])
  PROVE  \A k \in DOMAIN skipped' : code' >= skipped'[k].code
<1> DEFINE Entries == [name : Names, code : Codes]
           entry == [name |-> ds.name, code |-> c]
<1>1. skipped \in Seq(Entries) /\ entry \in Entries /\ entry.code = c
  BY TargetTypes DEF TypeOK
<1>2. \A k \in DOMAIN skipped : code' >= skipped[k].code
  BY StillCovered
<1>3. CASE UNCHANGED skipped
  BY <1>2, <1>3
<1>4. CASE skipped' = Append(skipped, entry)
  <2> HIDE DEF entry, Entries
  <2>1. \A k \in DOMAIN skipped' : skipped'[k] = entry \/ (k \in DOMAIN skipped /\ skipped'[k] = skipped[k])
    BY <1>1, <1>4, OneMore
  <2> QED
    BY <1>1, <1>2, <2>1
<1> QED
  BY <1>3, <1>4

\* Names are put down as skipped one at a time, with a code the run keeps.
LEMMA KindsOfSkips ==
  ASSUME TypeOK, [Next]_vars
  PROVE  \/ UNCHANGED skipped
         \/ looping /\ \E c \in Codes : /\ code' >= c
                                       /\ skipped' = Append(skipped, [name |-> ds.name, code |-> c])
<1> USE DEF vars, world, scan, search, outcome, ending
<1>1. USAGE \in Codes /\ UNRECOVERABLE \in Codes /\ 0 \in Codes /\ code \in Codes
      /\ (code \in Nat => code >= 0)
  BY DEF Codes, USAGE, UNRECOVERABLE, MEDIUM, TypeOK
<1>2. CASE SkipNotVolume
  <2>1. code' = code /\ code >= 0
    BY <1>1, <1>2 DEF SkipNotVolume, Codes
  <2> QED
    BY <1>1, <1>2, <2>1 DEF SkipNotVolume
<1>3. ASSUME looping, NEW c \in Codes, Skip(c)
      PROVE  \/ UNCHANGED skipped
             \/ looping /\ \E e \in Codes : /\ code' >= e
                                           /\ skipped' = Append(skipped, [name |-> ds.name, code |-> e])
  <2>1. code' >= c
    BY <1>1, <1>3, WorseIsACode DEF Skip
  <2> QED
    BY <1>3, <2>1 DEF Skip
<1>4. CASE Locked \/ VolumeUnopened \/ OutputUnopened \/ ExtractionFails
  <2>1. looping /\ (UNCHANGED skipped \/ \E c \in Codes : Skip(c))
    BY <1>1, <1>4 DEF Locked, VolumeUnopened, OutputUnopened, ExtractionFails, tried
  <2> QED
    BY <1>3, <2>1
<1>5. CASE \/ Interrupt \/ BadArguments \/ OpenMember \/ AssembleFails \/ Assemble \/ ChooseFails
           \/ Choose \/ PoolUnreadable \/ PoolRefused \/ Walk \/ DatasetReads \/ DatasetUnreadable
           \/ DatasetRefused \/ NotFound \/ NoDirectory \/ Targets
  BY <1>5 DEF Interrupt, BadArguments, OpenMember, AssembleFails, Assemble, ChooseFails, Choose,
     PoolUnreadable, PoolRefused, Walk, DatasetReads, DatasetUnreadable, DatasetRefused, NotFound,
     NoDirectory, Targets
<1>6. CASE \/ ExtractWhole \/ ExtractPart \/ ExtractStopped \/ ExtractInterrupted \/ Manifest
           \/ Finish \/ UNCHANGED vars
  BY <1>6 DEF ExtractWhole, ExtractPart, ExtractStopped, ExtractInterrupted, Extract, Manifest, Finish
<1> QED
  BY <1>2, <1>4, <1>5, <1>6 DEF Next, Ended

\* Each volume put down raises the code to its own at least.
LEMMA CodeStep ==
  ASSUME TypeOK, CodeCovers, [Next]_vars, TypeOK' PROVE CodeCovers'
<1> USE DEF vars, world, scan, search, outcome, ending
<1>1. code' >= code /\ code \in Codes /\ code' \in Codes
  BY KindsOfSteps DEF TypeOK
<1>2. \A k \in DOMAIN volumes' :
        LET how == volumes'[k].holds.how IN how \in Hows /\ code' >= CodeOf(how)
  <2>1. \A k \in DOMAIN volumes :
          LET how == volumes[k].holds.how IN how \in Hows /\ code' >= CodeOf(how)
    BY <1>1, CodesOfEnds DEF CodeCovers, Hows, Codes, PARTIAL, INTERRUPTED
  <2>2. ASSUME NEW how \in Hows, Extract(how, CodeOf(how))
        PROVE  \A k \in DOMAIN volumes' :
                 LET h == volumes'[k].holds.how IN h \in Hows /\ code' >= CodeOf(h)
    BY <2>1, <2>2, OneMoreReport
  <2>3. CASE UNCHANGED volumes
    BY <2>1, <2>3
  <2> QED
    BY <2>2, <2>3, KindsOfSteps DEF ExtractionFails
<1>3. \A k \in DOMAIN skipped' : code' >= skipped'[k].code
  <2>1. \/ UNCHANGED skipped
        \/ looping /\ \E c \in Codes : /\ code' >= c
                                      /\ skipped' = Append(skipped, [name |-> ds.name, code |-> c])
    BY KindsOfSkips
  <2>2. CASE UNCHANGED skipped
    BY <1>1, <2>2, StillCovered
  <2>3. CASE looping /\ \E c \in Codes : /\ code' >= c
                                       /\ skipped' = Append(skipped, [name |-> ds.name, code |-> c])
    BY <1>1, <2>3, OneMoreSkipped
  <2> QED
    BY <2>1, <2>2, <2>3
<1> QED
  BY <1>2, <1>3 DEF CodeCovers

\* A run that has ended stays as it is.
LEMMA EndedStays ==
  ASSUME phase = "ended", [Next]_vars PROVE UNCHANGED vars
BY DEF Next, Ended, Interrupt, BadArguments, OpenMember, AssembleFails, Assemble, ChooseFails, Choose,
   PoolUnreadable, PoolRefused, Walk, DatasetReads, DatasetUnreadable, DatasetRefused, NotFound,
   NoDirectory, Targets, SkipNotVolume, Locked, VolumeUnopened, OutputUnopened, ExtractionFails,
   ExtractWhole, ExtractPart, ExtractStopped, ExtractInterrupted, Extract, Manifest, Finish,
   searching, looping, tried

\* The step that ends the run gives a status no better than the run's code.
LEMMA EndingStatus ==
  ASSUME TypeOK, TypeOK', opt' = opt, NEW c \in Codes, NEW outputs, EndRun(c, outputs), c >= code,
         exit = Running, record = NoRecord
  PROVE  \E status \in Codes :
           /\ status >= code /\ (refusals' = Allowed' => status = MEDIUM)
           /\ status = c \/ status = MEDIUM
           /\ exit' \in {status, USAGE}
           /\ record' = NoRecord \/ (exit' = status /\ record' = [status |-> status, outputs |-> outputs])
<1> DEFINE status == IF refusals' = Allowed THEN MEDIUM ELSE c
<1>1. status \in Codes /\ status >= code
  BY DEF TypeOK, Codes, MEDIUM
<1>2. Allowed' = Allowed
  BY DEF Allowed
<1> QED
  BY <1>1, <1>2 DEF EndRun

\* Neither the record nor the status says less than what went wrong.
LEMMA FlattersStep ==
  ASSUME TypeOK, PhaseFacts, CodeCovers, CodeNeverFlatters, TypeOK', CodeCovers', [Next]_vars
  PROVE  CodeNeverFlatters'
<1>1. CASE phase = "ended"
  <2>1. UNCHANGED vars
    BY <1>1, EndedStays
  <2> QED
    BY <2>1 DEF vars, world, scan, search, outcome, ending, CodeNeverFlatters, NoBetterThan, Stopped, Allowed
<1>2. CASE UNCHANGED ending /\ phase # "ended" /\ phase' # "ended"
  BY <1>2 DEF CodeNeverFlatters, PhaseFacts, ending
<1>3. CASE phase # "ended" /\ ~(UNCHANGED ending /\ phase' # "ended")
  <2>1. PICK c \in Codes, outputs \in Seq(Reports) :
          EndRun(c, outputs) /\ c >= code /\ (failed' > 0 => c # 0)
    BY <1>3, HowARunEnds
  <2>2. exit = Running /\ record = NoRecord /\ opt' = opt
    BY <1>3, KindsOfSteps DEF PhaseFacts
  <2>3. PICK status \in Codes :
           /\ status >= code /\ (refusals' = Allowed' => status = MEDIUM)
           /\ status = c \/ status = MEDIUM
           /\ exit' \in {status, USAGE}
           /\ record' = NoRecord \/ (exit' = status /\ record' = [status |-> status, outputs |-> outputs])
    BY <2>1, <2>2, EndingStatus
  <2>4. code' = code /\ code \in Codes
    BY <1>3, HowARunEnds DEF TypeOK
  <2>5. /\ \A k \in DOMAIN volumes' : status >= CodeOf(volumes'[k].holds.how)
        /\ \A k \in DOMAIN skipped' : status >= skipped'[k].code
    <3>1. \A k \in DOMAIN volumes' : code' >= CodeOf(volumes'[k].holds.how) /\ volumes'[k].holds.how \in Hows
      BY DEF CodeCovers
    <3>2. \A how \in Hows : CodeOf(how) \in Codes
      BY CodesOfEnds DEF Hows, Codes, PARTIAL, INTERRUPTED, MEDIUM
    <3>3. \A k \in DOMAIN volumes' : status >= CodeOf(volumes'[k].holds.how)
      BY <2>3, <2>4, <3>1, <3>2 DEF Codes
    <3>4. \A k \in DOMAIN skipped' : status >= skipped'[k].code
      <4>1. UNCHANGED skipped /\ code' = code
        BY <1>3, HowARunEnds
      <4> QED
        BY <2>3, <4>1, StillCovered
    <3> QED
      BY <3>3, <3>4
  <2>6. failed' > 0 => status # 0
    BY <2>1, <2>3 DEF MEDIUM
  <2>7. Stopped' => status = MEDIUM
    BY <2>3 DEF Stopped
  <2>8. NoRecord.status = Running
    BY DEF NoRecord
  <2> QED
    BY <2>3, <2>5, <2>6, <2>7 DEF CodeNeverFlatters, NoBetterThan
<1> QED
  BY <1>1, <1>2, <1>3, HowARunEnds

\* Behind the loop no target comes back.
LEMMA LoopIsOver ==
  ASSUME todo = {}, phase \in {"loop", "finish", "ended"}, [Next]_vars
  PROVE  todo' = {} /\ phase' \in {"loop", "finish", "ended"} /\ late' = late
BY DEF vars, world, scan, search, outcome, ending, Next, Ended, Interrupt, BadArguments, OpenMember,
   AssembleFails, Assemble, ChooseFails, Choose,
   PoolUnreadable, PoolRefused, Walk, DatasetReads, DatasetUnreadable, DatasetRefused, NotFound,
   NoDirectory, Targets, SkipNotVolume, Locked, VolumeUnopened, OutputUnopened, ExtractionFails,
   ExtractWhole, ExtractPart, ExtractStopped, ExtractInterrupted, Extract, Manifest, Finish,
   searching, looping, tried, EndEarly, EndRun

\* The volume that counts is the last.
LEMMA LateStep ==
  ASSUME TypeOK, LateIsLast, [Next]_vars PROVE LateIsLast'
<1> USE DEF vars, world, scan, search, outcome, ending
<1>1. CASE late > 0
  BY <1>1, LoopIsOver DEF LateIsLast
<1>2. CASE late = 0 /\ late' = late
  BY <1>2 DEF LateIsLast
<1>3. CASE late = 0 /\ late' # late
  <2>1. ExtractInterrupted
    <3>1. ~ExtractionFails /\ ~UNCHANGED late
      BY <1>3 DEF ExtractionFails
    <3>2. CASE ExtractWhole \/ ExtractPart \/ ExtractStopped
      BY <1>3, <3>2 DEF ExtractWhole, ExtractPart, ExtractStopped, Extract, passesFlag
    <3>3. CASE ~(ExtractWhole \/ ExtractPart \/ ExtractStopped \/ ExtractInterrupted)
      BY <3>1, <3>3 DEF Next, Ended, Interrupt, BadArguments, OpenMember, AssembleFails, Assemble,
         ChooseFails, Choose, PoolUnreadable, PoolRefused, Walk, DatasetReads, DatasetUnreadable,
         DatasetRefused, NotFound, NoDirectory, Targets, SkipNotVolume, Locked, VolumeUnopened,
         OutputUnopened, Manifest, Finish
    <3> QED
      BY <3>2, <3>3
  <2> QED
    BY <1>3, <2>1 DEF ExtractInterrupted, LeaveLoop, Extract, LateIsLast
<1> QED
  BY <1>1, <1>2, <1>3 DEF TypeOK, LateIsLast

LEMMA ReportTypes ==
  ASSUME TypeOK PROVE \A k \in DOMAIN volumes : volumes[k].file \in Files
<1>1. volumes \in Seq(Reports)
  BY DEF TypeOK
<1>2. \A k \in DOMAIN volumes : volumes[k] \in Reports
  BY <1>1
<1> QED
  BY <1>2 DEF Reports

\* What the reports say of the outputs stays true, for the output of the
\* step and for the others.
LEMMA ReportsStep ==
  ASSUME TypeOK, ReportsFollowFiles, [Next]_vars, TypeOK' PROVE ReportsFollowFiles'
<1>1. code' >= code /\ code \in Nat /\ code' \in Nat /\ UNRECOVERABLE \in Nat
  BY KindsOfSteps DEF TypeOK, Codes, UNRECOVERABLE
<1>2. CASE UNCHANGED <<volumes, files, late>>
  BY <1>1, <1>2 DEF ReportsFollowFiles, Told, StillHolds, Shared
<1>3. CASE ExtractionFails
  <2>1. looping /\ FileOf(ds) \in Files
    BY <1>3, TargetTypes DEF ExtractionFails, tried
  <2>2. volumes' = volumes /\ files' = [files EXCEPT ![FileOf(ds)] = Extracted("torn")]
        /\ files \in [Files -> Content]
    BY <1>3 DEF ExtractionFails, TypeOK
  <2>3. code' >= UNRECOVERABLE
    <3>1. code \in Codes /\ UNRECOVERABLE \in Codes
      BY DEF TypeOK, Codes, UNRECOVERABLE, MEDIUM
    <3>2. code' = Worse(code, UNRECOVERABLE)
      BY <1>3 DEF ExtractionFails, Skip
    <3> QED
      BY <3>1, <3>2, WorseIsACode
  <2>4. files'[FileOf(ds)].how = "torn"
    BY <2>1, <2>2 DEF Extracted
  <2>5. \A f \in Files : f # FileOf(ds) => files'[f] = files[f]
    BY <2>2
  <2>6. \A f \in Files : files'[f] # Untouched => Told(f)'
    BY <1>1, <2>2, <2>3, <2>4, <2>5 DEF ReportsFollowFiles, Told
  <2>7. \A k \in DOMAIN volumes : volumes[k].file \in Files
    BY ReportTypes
  <2>8. \A k \in DOMAIN volumes' : StillHolds(volumes[k])'
    BY <2>2, <2>4, <2>5, <2>7 DEF ReportsFollowFiles, StillHolds, Shared
  <2> QED
    BY <2>2, <2>6, <2>8 DEF ReportsFollowFiles
<1>4. ASSUME NEW how \in Hows, Extract(how, CodeOf(how)) PROVE ReportsFollowFiles'
  <2> DEFINE r == Report(how)
             f == FileOf(ds)
             last == Len(volumes) + 1
  <2>1. /\ f \in Files /\ r.file = f
        /\ \A k \in DOMAIN volumes' : volumes'[k] = r \/ (k \in DOMAIN volumes /\ volumes'[k] = volumes[k])
        /\ \A k \in DOMAIN volumes : k \in DOMAIN volumes' /\ volumes'[k] = volumes[k] /\ k < last
        /\ last \in DOMAIN volumes' /\ volumes'[last] = r
    BY <1>4, OneMoreReport
  <2>2. r = [file |-> f, holds |-> Extracted(how)] /\ r.holds = Extracted(how)
    BY DEF Report
  <2>3. files' = [files EXCEPT ![f] = r.holds] /\ files \in [Files -> Content]
    BY <1>4, <2>2 DEF Extract, TypeOK
  <2>4. files'[f] = r.holds /\ \A g \in Files : g # f => files'[g] = files[g]
    BY <2>1, <2>3
  <2>5. r = [file |-> f, holds |-> files'[f]]
    BY <2>2, <2>4
  <2>6. \A k \in DOMAIN volumes : volumes[k].file \in Files
    BY ReportTypes
  <2> HIDE DEF r, f, last
  <2>7. \A g \in Files : files'[g] # Untouched => Told(g)'
    BY <1>1, <2>1, <2>4, <2>5 DEF ReportsFollowFiles, Told
  <2>8. \A k \in DOMAIN volumes' : StillHolds(volumes[k])'
    <3> TAKE k \in DOMAIN volumes'
    <3>1. CASE volumes'[k] = r
      BY <2>1, <2>4, <3>1 DEF StillHolds
    <3>2. CASE k \in DOMAIN volumes /\ volumes'[k] = volumes[k] /\ volumes[k].file = f
      BY <2>1, <3>2 DEF StillHolds, Shared
    <3>3. CASE k \in DOMAIN volumes /\ volumes'[k] = volumes[k] /\ volumes[k].file # f
      <4>1. StillHolds(volumes[k]) /\ files'[volumes[k].file] = files[volumes[k].file]
        BY <2>4, <2>6, <3>3 DEF ReportsFollowFiles
      <4>2. Shared(volumes[k].file) => Shared(volumes[k].file)'
        BY <2>1, <3>3 DEF Shared
      <4> QED
        BY <3>3, <4>1, <4>2 DEF StillHolds
    <3> QED
      BY <2>1, <3>1, <3>2, <3>3
  <2> QED
    BY <2>7, <2>8 DEF ReportsFollowFiles
<1> QED
  BY <1>2, <1>3, <1>4, KindsOfSteps

\* The record is made of the reports, at a status no lower than the code.
LEMMA RecordStep ==
  ASSUME TypeOK, PhaseFacts, ReportsFollowFiles, RecordAccountsForOutputs, [Next]_vars, TypeOK'
  PROVE  RecordAccountsForOutputs'
<1>1. CASE phase = "ended"
  <2>1. UNCHANGED vars
    BY <1>1, EndedStays
  <2> QED
    BY <2>1 DEF vars, outcome, ending, RecordAccountsForOutputs, Shared
<1>2. CASE UNCHANGED ending /\ phase # "ended"
  BY <1>2 DEF RecordAccountsForOutputs, PhaseFacts, ending
<1>3. CASE phase # "ended" /\ ~UNCHANGED ending
  <2>1. PICK c \in Codes : EndRun(c, volumes) /\ c >= code
    BY <1>3, HowARunEnds
  <2>2. exit = Running /\ record = NoRecord /\ opt' = opt
    BY <1>3, KindsOfSteps DEF PhaseFacts
  <2>3. PICK status \in Codes :
           /\ status >= code
           /\ record' = NoRecord \/ record' = [status |-> status, outputs |-> volumes]
    BY <2>1, <2>2, EndingStatus
  <2>4. UNCHANGED <<volumes, files, code>>
    BY <1>3, HowARunEnds
  <2>5. CASE record' = [status |-> status, outputs |-> volumes]
    <3>1. status >= code /\ status \in Nat /\ code \in Nat /\ UNRECOVERABLE \in Nat
      BY <2>3 DEF TypeOK, Codes, UNRECOVERABLE
    <3>2. record'.status = status /\ record'.outputs = volumes
      BY <2>5
    <3>3. \A f \in Files : files[f] # Untouched =>
            \/ [file |-> f, holds |-> files[f]] \in Range(volumes)
            \/ files[f].how = "torn" /\ status >= UNRECOVERABLE
      BY <3>1 DEF ReportsFollowFiles, Told, Range
    <3>4. \A k \in DOMAIN volumes :
            LET r == volumes[k] IN files[r.file] = r.holds \/ Shared(r.file) \/ files[r.file].how = "torn"
      BY DEF ReportsFollowFiles, StillHolds
    <3> QED
      BY <2>4, <3>2, <3>3, <3>4 DEF RecordAccountsForOutputs, Shared
  <2>6. CASE record' = NoRecord
    BY <2>6 DEF RecordAccountsForOutputs
  <2> QED
    BY <2>3, <2>5, <2>6
<1> QED
  BY <1>1, <1>2, <1>3

\* The dataset at a position has a name, and its image is an output.
LEMMA ImageOfUnder ==
  ASSUME TypeOK, at \in Txgs, NEW k \in Under
  PROVE  Held[at][k].name \in Names /\ Mangled[Held[at][k].name] \in Files
<1>1. Held[at] \in Seq(Dataset) /\ k \in DOMAIN Held[at]
  BY HeldAssumption DEF Under
<1>2. Held[at][k] \in Dataset
  BY <1>1
<1>3. Held[at][k].name \in Names
  BY <1>2 DEF Dataset
<1> QED
  BY <1>3, FilesAssumption

\* A target behind the loop keeps its image, and under code 0 each that the
\* loop leaves behind has got its own.
LEMMA KeptStep ==
  ASSUME TypeOK, PhaseFacts, KeptSoFar, [Next]_vars, TypeOK', PhaseFacts' PROVE KeptSoFar'
<1> USE DEF vars, world, scan, search, outcome, ending
<1> DEFINE Behind(k) == k \in Under /\ k \in tree \ todo /\ Held[at][k].volume /\ Alone(k)
           Claim == opt.recursive /\ code = 0 /\ unread = {} =>
                      \A k \in Under : Behind(k) => HasItsImage(Held[at][k])
<1>1. CASE UNCHANGED vars
  BY <1>1 DEF KeptSoFar, Under, Alone, HasItsImage
<1>2. CASE phase # "ended" /\ phase' = "ended"
  <2>1. PICK c \in Codes, outputs \in Seq(Reports) :
          /\ EndRun(c, outputs) /\ c >= code
          /\ (c = 0 => phase = "finish" /\ (NothingDone \/ code = 0))
    BY <1>2, HowARunEnds
  <2>2. UNCHANGED <<files, code, todo, tree, unread, at, opt>>
    BY <1>2, HowARunEnds
  <2>3. exit' = 0 => c = 0
    BY <2>1 DEF EndRun, MEDIUM, USAGE, PhaseFacts, Running
  <2>4. exit' = 0 => phase = "finish" /\ code = 0 /\ todo = {}
    BY <2>1, <2>3 DEF PhaseFacts, NothingDone
  <2> QED
    BY <1>2, <2>2, <2>4 DEF KeptSoFar, Under, Alone, HasItsImage
<1>3. CASE phase # "ended" /\ phase' # "ended"
  <2>1. exit' = Running /\ Running # 0
    BY <1>3 DEF PhaseFacts, Running
  <2>2. SUFFICES ASSUME phase' \in {"loop", "finish"} PROVE Claim'
    BY <2>1 DEF KeptSoFar
  <2>3. CASE UNCHANGED <<opt, at, tree, unread, todo, files, phase>> /\ code' = code
    BY <2>2, <2>3 DEF KeptSoFar, Under, Alone, HasItsImage
  <2>4. CASE Targets
    <3>1. \A k \in Under : opt.recursive /\ k \in tree => k \in todo'
      BY <2>4 DEF Targets, Target, Under
    <3> QED
      BY <2>4, <3>1 DEF Targets, Under
  <2>5. CASE Manifest
    <3>1. code' >= code /\ code \in Nat /\ phase = "loop"
      BY <2>5, KindsOfSteps DEF TypeOK, Codes, Manifest
    <3> QED
      BY <2>5, <3>1 DEF Manifest, KeptSoFar, Under, Alone, HasItsImage
  <2>6. CASE SkipNotVolume
    <3>1. looping /\ first \in todo /\ ~readAsVolume /\ todo' = todo \ {first}
      BY <2>6, TargetTypes DEF SkipNotVolume, NextTarget
    <3>2. unread = {} => ~Held[at][first].volume
      BY <3>1 DEF readAsVolume, ds
    <3> QED
      BY <2>6, <3>1, <3>2 DEF SkipNotVolume, KeptSoFar, looping, Under, Alone, HasItsImage
  <2>7. CASE \/ Locked \/ VolumeUnopened \/ OutputUnopened \/ ExtractionFails
             \/ ExtractPart \/ ExtractStopped \/ ExtractInterrupted
    <3>1. code' # 0
      <4>1. \E c \in Codes \ {0} : code' = Worse(code, c)
        BY <2>1, <2>2, <2>7 DEF Locked, VolumeUnopened, OutputUnopened, ExtractionFails, ExtractPart,
           ExtractStopped, ExtractInterrupted, Skip, Extract, EndEarly, EndRun, Codes, USAGE,
           UNRECOVERABLE, PARTIAL, INTERRUPTED, MEDIUM
      <4> QED
        BY <4>1, WorseIsACode, SMTT(40) DEF TypeOK, Codes
    <3> QED
      BY <3>1
  <2>8. CASE ExtractWhole
    <3>1. /\ looping /\ ds.volume /\ todo' = todo \ {first}
          /\ files' = [files EXCEPT ![FileOf(ds)] = Extracted("whole")]
          /\ UNCHANGED <<opt, at, tree, unread>>
      BY <2>8 DEF ExtractWhole, Extract, NextTarget
    <3>2. code' >= code /\ code \in Nat
      BY KindsOfSteps DEF TypeOK, Codes
    <3>3. first \in todo /\ at \in Txgs /\ FileOf(ds) \in Files /\ files \in [Files -> Content]
      BY <3>1, TargetTypes DEF TypeOK
    <3>4. SUFFICES ASSUME opt.recursive, code' = 0, unread = {}, NEW k \in Under, Behind(k)'
                   PROVE  files'[Mangled[Held[at][k].name]] = [of |-> Held[at][k].name, how |-> "whole"]
      BY <3>1 DEF Under, HasItsImage
    <3>5. FileOf(ds) = Mangled[ds.name] /\ first \in Under
      BY <3>1, <3>3, <3>4 DEF FileOf, PhaseFacts, looping
    <3>6. CASE k = first
      BY <3>1, <3>3, <3>5, <3>6 DEF Extracted, ds
    <3>7. CASE k # first
      <4>1. Behind(k) /\ code = 0
        BY <3>1, <3>2, <3>4, <3>7 DEF Under, Alone
      <4>2. HasItsImage(Held[at][k])
        BY <3>1, <3>4, <4>1 DEF KeptSoFar, looping
      <4>3. Mangled[Held[at][k].name] # FileOf(ds)
        BY <3>5, <3>7, <4>1 DEF Alone, ds
      <4> QED
        BY <3>1, <3>3, <4>2, <4>3, ImageOfUnder DEF HasItsImage
    <3> QED
      BY <3>6, <3>7
  <2> QED
    BY <1>3, <2>2, <2>3, <2>4, <2>5, <2>6, <2>7, <2>8 DEF Next, Ended, Interrupt, BadArguments, OpenMember, AssembleFails,
       Assemble, ChooseFails, Choose, PoolUnreadable, PoolRefused, Walk, DatasetReads, DatasetUnreadable,
       DatasetRefused, NotFound, NoDirectory, Finish, EndEarly, EndRun, NextTxg, GiveUp, SearchFrom
<1> QED
  BY <1>1, <1>2, <1>3, EndedStays

\* The command line and the pool stay as they are.
LEMMA WorldStays ==
  ASSUME [Next]_vars PROVE opt' = opt /\ hurt' = hurt
BY DEF vars, world, Next, Ended, Interrupt, BadArguments, OpenMember, AssembleFails, Assemble, ChooseFails,
   Choose, PoolUnreadable, PoolRefused, Walk, DatasetReads, DatasetUnreadable, DatasetRefused, NotFound,
   NoDirectory, Targets, SkipNotVolume, Locked, VolumeUnopened, OutputUnopened, ExtractionFails,
   ExtractWhole, ExtractPart, ExtractStopped, ExtractInterrupted, Extract, Manifest, Finish

\* Refusals are never taken back.
LEMMA RefusalsStep ==
  ASSUME TypeOK, [Next]_vars PROVE refusals' >= refusals /\ refusals \in Nat
<1> USE DEF vars, world, scan, search, outcome, ending
<1>1. Allowed \in Nat \ {0} /\ refusals \in Nat
  BY RoomInTheLedger DEF TypeOK
<1>2. \/ UNCHANGED refusals \/ Answered \/ Refused \/ Tolerated \/ (~Stopped /\ refusals' = Allowed)
  BY DEF Next, Ended, Interrupt, BadArguments, OpenMember, AssembleFails, Assemble, ChooseFails, Choose,
     PoolUnreadable, PoolRefused, Walk, DatasetReads, DatasetUnreadable, DatasetRefused, NotFound,
     NoDirectory, Targets, SkipNotVolume, Locked, VolumeUnopened, OutputUnopened, ExtractionFails,
     ExtractWhole, ExtractPart, ExtractStopped, ExtractInterrupted, Manifest, Finish
<1>3. opt' = opt
  BY WorldStays
<1> QED
  BY <1>1, <1>2, <1>3, RefusalsGrow

\* A TXG is left behind for what it is, or after a refusal.
LEMMA SearchStep ==
  ASSUME TypeOK, PhaseFacts, SearchReachesWhatReads, [Next]_vars PROVE SearchReachesWhatReads'
<1> USE DEF vars, world, scan, search, outcome, ending
<1>1. SUFFICES ASSUME refusals' = 0, NEW t \in Txgs, t < at'
               PROVE  t \in hurt' \/ \A k \in DOMAIN Held[t] : ~(Held[t][k].name = opt'.root)
  BY DEF SearchReachesWhatReads, Named
<1>2. refusals = 0 /\ opt' = opt /\ hurt' = hurt
  <2>1. refusals' >= refusals /\ refusals \in Nat
    BY RefusalsStep
  <2> QED
    BY <1>1, <2>1, WorldStays
<1>3. t < at => t \in hurt \/ \A k \in DOMAIN Held[t] : ~Named(Held[t], k)
  BY <1>2 DEF SearchReachesWhatReads
<1>4. CASE at' = at
  BY <1>1, <1>2, <1>3, <1>4 DEF Named
<1>5. CASE PoolUnreadable \/ DatasetUnreadable
  <2>1. at \in hurt /\ at \in Txgs /\ at' = at + 1
    BY <1>1, <1>5 DEF PoolUnreadable, DatasetUnreadable, Doubtful, NextTxg, SearchFrom, TypeOK
  <2>2. t < at \/ t = at
    BY <1>1, <2>1, TxgsAssumption DEF Txgs
  <2> QED
    BY <1>2, <1>3, <2>1, <2>2 DEF Named
<1>6. CASE Walk /\ at' # at
  <2>1. at \in Txgs /\ at' = at + 1 /\ (at \in hurt \/ \A k \in DOMAIN Held[at] : ~Named(Held[at], k))
    BY <1>1, <1>6 DEF Walk, searching, Doubtful, NextTxg, SearchFrom
  <2>2. t < at \/ t = at
    BY <1>1, <2>1, TxgsAssumption DEF Txgs
  <2> QED
    BY <1>2, <1>3, <2>1, <2>2 DEF Named
<1>7. CASE PoolRefused \/ DatasetRefused
  <2>1. Refused /\ Allowed \in Nat \ {0}
    BY <1>7, RoomInTheLedger DEF PoolRefused, DatasetRefused
  <2> QED
    BY <1>1, <1>2, <2>1 DEF Refused, Stopped
<1> QED
  BY <1>4, <1>5, <1>6, <1>7 DEF Next, Ended, Interrupt, BadArguments, OpenMember, AssembleFails,
     Assemble, ChooseFails, Choose, Walk, DatasetReads, NotFound, NoDirectory, Targets, SkipNotVolume,
     Locked, VolumeUnopened, OutputUnopened, ExtractionFails, ExtractWhole, ExtractPart, ExtractStopped,
     ExtractInterrupted, Extract, Manifest, Finish

-----------------------------------------------------------------------------
\* The theorems.

LEMMA IInvInit ==
  ASSUME Init PROVE IInv
<1>1. Allowed \in Nat \ {0}
  BY LimitAssumption DEF Allowed
<1>2. TypeOK
  <2>1. [f \in Files |-> Untouched] \in [Files -> Content]
    BY DEF Untouched, Content
  <2>2. NoRecord \in [status : Codes \cup {Running}, outputs : Seq(Reports)]
    BY DEF NoRecord
  <2>3. opened \in 0 .. Members /\ failed \in 0 .. opened /\ refusals \in 0 .. Allowed /\ at \in 1 .. NTxgs + 1
    BY <1>1, MembersAssumption, TxgsAssumption DEF Init
  <2>4. /\ opt \in [recursive : BOOLEAN, mayFail : BOOLEAN, root : Roots]
        /\ volumes \in Seq(Reports) /\ skipped \in Seq([name : Names, code : Codes])
    BY DEF Init
  <2>5. tree \subseteq (IF at \in Txgs THEN DOMAIN Held[at] ELSE {}) /\ unread \subseteq tree /\ todo \subseteq tree
    BY DEF Init
  <2>6. /\ hurt \subseteq Txgs /\ flag \in BOOLEAN /\ late \in Nat
        /\ phase \in {"open", "choose", "search", "found", "targets", "loop", "finish", "ended"}
    BY DEF Init
  <2>7. code \in Codes /\ exit \in Codes \cup {Running}
    BY DEF Init, Codes, MEDIUM
  <2>8. files \in [Files -> Content] /\ record \in [status : Codes \cup {Running}, outputs : Seq(Reports)]
    BY <2>1, <2>2 DEF Init
  <2> QED
    BY <2>3, <2>4, <2>5, <2>6, <2>7, <2>8 DEF TypeOK
<1>3. PhaseFacts /\ LateIsLast
  BY DEF Init, PhaseFacts, NothingDone, LateIsLast
<1>4. CodeCovers /\ CodeNeverFlatters
  BY DEF Init, CodeCovers, CodeNeverFlatters
<1>5. ReportsFollowFiles /\ RecordAccountsForOutputs
  BY DEF Init, ReportsFollowFiles, RecordAccountsForOutputs
<1>6. KeptSoFar
  BY DEF Init, KeptSoFar, Running
<1>7. SearchReachesWhatReads
  BY TxgsAssumption DEF Init, SearchReachesWhatReads, Txgs
<1> QED
  BY <1>2, <1>3, <1>4, <1>5, <1>6, <1>7 DEF IInv

LEMMA IInvStep ==
  ASSUME IInv, [Next]_vars PROVE IInv'
<1>1. TypeOK' /\ PhaseFacts'
  BY TypesStep, PhaseStep DEF IInv
<1>2. CodeCovers'
  BY <1>1, CodeStep DEF IInv
<1> QED
  BY <1>1, <1>2, FlattersStep, LateStep, ReportsStep, RecordStep, KeptStep, SearchStep DEF IInv

LEMMA InvariantHolds == Spec => []IInv
<1>1. Init => IInv
  BY IInvInit
<1>2. IInv /\ [Next]_vars => IInv'
  BY IInvStep
<1> QED
  BY <1>1, <1>2, PTL DEF Spec

\* The types, and that the ledger never passes the limit.
THEOREM RunTypes == Spec => []TypeOK
<1>1. IInv => TypeOK
  BY DEF IInv
<1> QED
  BY <1>1, InvariantHolds, PTL

\* exit::worse, finish and the log: whatever fails, in whatever order, the
\* record and the status tell the worst of it.
THEOREM CodeNeverFlattersHolds == Spec => []CodeNeverFlatters
<1>1. IInv => CodeNeverFlatters
  BY DEF IInv
<1> QED
  BY <1>1, InvariantHolds, PTL

\* The loop of dump -r: status 0 over a whole walk means that each volume
\* with a file name of its own has its image.
THEOREM BulkKeepsEveryVolumeHolds == Spec => []BulkKeepsEveryVolume
<1>1. IInv => BulkKeepsEveryVolume
  BY DEF IInv, KeptSoFar, BulkKeepsEveryVolume, Under
<1> QED
  BY <1>1, InvariantHolds, PTL

\* finish: each output of the run is in its record as it is on disk, or was
\* cut short and the status says so.
THEOREM RecordAccountsForOutputsHolds == Spec => []RecordAccountsForOutputs
<1>1. IInv => RecordAccountsForOutputs
  BY DEF IInv
<1> QED
  BY <1>1, InvariantHolds, PTL

\* find_dataset: without refusals, only a TXG that is hurt or has not the
\* dataset is passed over.
THEOREM SearchReachesWhatReadsHolds == Spec => []SearchReachesWhatReads
<1>1. IInv => SearchReachesWhatReads
  BY DEF IInv
<1> QED
  BY <1>1, InvariantHolds, PTL

\* The loop of dump -r after a signal: one volume at most still comes to a
\* report.
THEOREM InterruptEndsTheLoopHolds == Spec => []InterruptEndsTheLoop
<1>1. IInv => InterruptEndsTheLoop
  BY DEF IInv, LateIsLast, InterruptEndsTheLoop
<1> QED
  BY <1>1, InvariantHolds, PTL

\* The ledger's stop: a step that touches an output begins before it.
THEOREM NothingTouchedAfterStopHolds == Spec => NothingTouchedAfterStop
<1>1. [Next]_vars => [Stopped => UNCHANGED files]_vars
  BY DEF vars, outcome, Next, Ended, Interrupt, BadArguments, OpenMember, AssembleFails, Assemble,
     ChooseFails, Choose, PoolUnreadable, PoolRefused, Walk, DatasetReads, DatasetUnreadable,
     DatasetRefused, NotFound, NoDirectory, Targets, SkipNotVolume, Locked, VolumeUnopened,
     OutputUnopened, ExtractionFails, ExtractWhole, ExtractPart, ExtractStopped, ExtractInterrupted,
     Manifest, Finish, Answered
<1> QED
  BY <1>1, PTL DEF Spec, NothingTouchedAfterStop
=============================================================================
