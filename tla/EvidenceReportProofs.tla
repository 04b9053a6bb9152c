------------------------- MODULE EvidenceReportProofs -------------------------
(***************************************************************************)
(* What EvidenceReport promises for any number of tools, logs, runs,       *)
(* builds and mishaps: no whole record is left out of a report, an alarm   *)
(* is real unless the order of the records is not the order of the writes, *)
(* and a pass under a key is of a report a build wrote and signed, with    *)
(* evidence and outputs as its commands recorded them.                     *)
(***************************************************************************)
EXTENDS EvidenceReport, WellFoundedInduction, SequenceTheorems, TLAPS

-----------------------------------------------------------------------------
(* Numbers                                                                 *)

\* A set of numbers that has a member has a least one.
LEMMA HasLeast ==
  ASSUME NEW S \in SUBSET Nat, S # {}
  PROVE  \E x \in S : \A y \in S : x <= y
<1>1. PICK x \in S : \A y \in S : ~ (<<y, x>> \in OpToRel(<, Nat))
  BY NatLessThanWellFounded, WFMin
<1>2. \A y \in S : ~ (y < x)
  BY <1>1 DEF OpToRel
<1> QED
  BY <1>2

\* Where it has a bound, it has a greatest one too.
LEMMA HasGreatest ==
  ASSUME NEW S \in SUBSET Nat, S # {}, NEW m \in Nat, \A x \in S : x <= m
  PROVE  \E x \in S : \A y \in S : y <= x
<1> DEFINE T == {m - x : x \in S}
<1>1. \A x \in S : m - x \in Nat
  OBVIOUS
<1>2. T \in SUBSET Nat /\ T # {}
  BY <1>1
<1> HIDE DEF T
<1>3. PICK z \in T : \A y \in T : z <= y
  BY <1>2, HasLeast
<1>4. PICK x \in S : z = m - x
  BY <1>3 DEF T
<1>5. \A y \in S : m - x <= m - y
  BY <1>3, <1>4 DEF T
<1> QED
  BY <1>5

-----------------------------------------------------------------------------
\* The inductive invariant.

RecType ==
  [run : 0 .. MaxRuns, ts : 0 .. MaxClock, work : WorkType,
   seen : [Evidence -> {None} \cup Contents], digest : 0 .. MaxRuns]
PieceType == [part : {"head", "end", "cut"}, rec : RecType]
ToolType == [phase : {"idle", "worked", "append", "appending"}, rec : RecType, log : Logs]
BuildType ==
  [phase : {"none", "read", "hash", "write", "sign"}, log : {0} \cup Logs,
   read : Seq(SUBSET [line : Nat, rec : RecType]), hashes : Seq(Nat), sign : BOOLEAN,
   owed : SUBSET (Logs \X RecType)]

TypeOK ==
  /\ clock \in 0 .. MaxClock /\ files \in [Places -> {None} \cup Contents]
  /\ logs \in [Logs -> Seq(PieceType)] /\ tool \in [Tools -> ToolType]
  /\ runs \in 0 .. MaxRuns /\ build \in BuildType
  /\ wrote \in [Outputs -> Seq(1 .. MaxRuns)] /\ ended \subseteq Logs \X RecType

\* A record a run made: it names the run, whose output, and no other file, the
\* run has written.
MadeBy(r, n, writes) ==
  /\ r.run \in 1 .. n /\ r.digest = r.run
  /\ \A p \in Outputs : r.work.output = p <=> \E k \in DOMAIN writes[p] : writes[p][k] = r.run
Made(r) == MadeBy(r, runs, wrote)

RecordsAreMade ==
  /\ \A t \in Tools : tool[t].phase # "idle" => Made(tool[t].rec)
  /\ \A l \in Logs : \A i \in DOMAIN logs[l] : Made(logs[l][i].rec)
  /\ \A p \in Outputs : \A k \in DOMAIN wrote[p] : wrote[p][k] <= runs

\* The end of an append that ended is in the log.
EndsAreThere ==
  \A x \in ended :
    \E i \in DOMAIN logs[x[1]] : logs[x[1]][i] = Piece("end", x[2])

\* What was read of a log is in it, and there it stays.
IsIn(l, line, rec) == line \in DOMAIN logs[l] /\ logs[l][line].rec = rec
BuildReadsLogs ==
  /\ \A l \in DOMAIN build.read : l \in Logs /\ \A r \in build.read[l] : IsIn(l, r.line, r.rec)
  /\ build.phase \in {"read", "hash"} => build.log \in Logs
  /\ build.phase = "read" => Len(build.read) + 1 = build.log
  /\ build.phase = "hash" => Len(build.read) = build.log
  /\ \A x \in build.owed :
       x[1] \in DOMAIN build.read /\ \E r \in build.read[x[1]] : r.rec = x[2]

\* A document a build wrote is drawn from commands that are in the logs, and
\* from those it owes among them.
IsDrawn(b) ==
  /\ b.doc.kind = "report"
  /\ \A a \in b.doc.commands :
       /\ a = [log |-> a.log, line |-> a.line, rec |-> a.rec]
       /\ a.log \in Logs /\ IsIn(a.log, a.line, a.rec)
  /\ b.doc.evidence = EvidenceOf(b.doc.commands)
  /\ b.doc.outputs = OutputsOf(b.doc.commands)
  /\ b.doc.warnings = Warnings(b.doc.commands)
  /\ b.owed \subseteq {<<a.log, a.rec>> : a \in b.doc.commands}
BuiltFromLogs == \A b \in built : IsDrawn(b)

\* A signature is of a document some build signed, or is cut short.
SignaturesAreBuilds ==
  /\ sig \in {NoDoc, Scrap} \/ \E b \in built : b.doc = sig /\ b.signed
  /\ build.phase = "sign" =>
       \E b \in built : b.doc = Assemble(build.read, build.hashes) /\ b.signed

IInv ==
  /\ TypeOK
  /\ RecordsAreMade
  /\ EndsAreThere
  /\ BuildReadsLogs
  /\ BuiltFromLogs
  /\ SignaturesAreBuilds

-----------------------------------------------------------------------------
\* The order of the commands of a report.

\* Commands that are in the logs: no two of them at one place.
AreIn(S) ==
  \A a \in S :
    /\ a = [log |-> a.log, line |-> a.line, rec |-> a.rec]
    /\ a.log \in Logs /\ IsIn(a.log, a.line, a.rec)

LEMMA CommandIsTyped ==
  ASSUME TypeOK, NEW S, AreIn(S), NEW a \in S
  PROVE  a.rec \in RecType /\ a.rec.ts \in 0 .. MaxClock /\ a.log \in 1 .. NLogs /\ a.line \in Nat
<1>1. a.log \in Logs /\ a.line \in DOMAIN logs[a.log] /\ logs[a.log][a.line].rec = a.rec
  BY DEF AreIn, IsIn
<1>2. logs[a.log] \in Seq(PieceType)
  BY <1>1 DEF TypeOK
<1>3. logs[a.log][a.line] \in PieceType /\ a.line \in Nat
  BY <1>1, <1>2
<1> QED
  BY <1>1, <1>3 DEF PieceType, RecType, Logs

\* The command a report puts last is there, and after each of the others.
LEMMA LastOfIsLast ==
  ASSUME TypeOK, NEW S, S # {}, AreIn(S)
  PROVE  LastOf(S) \in S /\ \A b \in S \ {LastOf(S)} : Before(b, LastOf(S))
<1>0. /\ MaxClock \in Nat /\ NLogs \in Nat
      /\ \A a \in S : a.rec.ts \in 0 .. MaxClock /\ a.log \in 1 .. NLogs /\ a.line \in Nat
  BY SizesAssumption, CommandIsTyped
<1> DEFINE Times == {a.rec.ts : a \in S}
<1>1. Times \in SUBSET Nat /\ Times # {} /\ \A x \in Times : x <= MaxClock
  BY <1>0
<1>2. PICK t \in Times : \A x \in Times : x <= t
  <2> HIDE DEF Times
  <2> QED
    BY <1>0, <1>1, HasGreatest
<1> DEFINE There == {a.log : a \in {a \in S : a.rec.ts = t}}
<1>3. There \in SUBSET Nat /\ There # {} /\ \A x \in There : x <= NLogs
  BY <1>0, <1>2
<1>4. PICK l \in There : \A x \in There : x <= l
  <2> HIDE DEF There
  <2> QED
    BY <1>0, <1>3, HasGreatest
<1> DEFINE Lines == {a.line : a \in {a \in S : a.rec.ts = t /\ a.log = l}}
<1>5. l \in Logs /\ logs[l] \in Seq(PieceType)
  BY <1>0, <1>4 DEF TypeOK, Logs
<1>6. \A a \in S : a.log = l => a.line \in 1 .. Len(logs[l])
  BY <1>5 DEF AreIn, IsIn
<1>7. Lines \in SUBSET Nat /\ Lines # {} /\ \A x \in Lines : x <= Len(logs[l])
  BY <1>0, <1>4, <1>5, <1>6
<1>8. PICK n \in Lines : \A x \in Lines : x <= n
  <2> HIDE DEF Lines
  <2>1. Len(logs[l]) \in Nat
    BY <1>5
  <2> QED
    BY <2>1, <1>7, HasGreatest
<1>9. PICK a \in S : a.rec.ts = t /\ a.log = l /\ a.line = n
  BY <1>8
<1>10. \A b \in S : b.rec.ts <= t
  BY <1>2
<1>11. \A b \in S : b.rec.ts = t => b.log <= l
  BY <1>4
<1>12. \A b \in S : b.rec.ts = t /\ b.log = l => b.line <= n
  BY <1>8
<1> HIDE DEF Times, There, Lines
<1>13. ASSUME NEW b \in S, b # a
       PROVE  Before(b, a)
  <2>0. /\ a.rec.ts \in Nat /\ a.log \in Nat /\ a.line \in Nat
        /\ b.rec.ts \in Nat /\ b.log \in Nat /\ b.line \in Nat
    BY <1>0
  <2>1. b.rec.ts = t /\ b.log = l => b.line # n
    BY <1>9, <1>13 DEF AreIn, IsIn
  <2>2. b.rec.ts < t \/ b.rec.ts = t
    BY <1>9, <1>10, <2>0
  <2>3. b.rec.ts = t => b.log < l \/ b.log = l
    BY <1>9, <1>11, <2>0
  <2>4. b.rec.ts = t /\ b.log = l => b.line < n
    BY <1>9, <1>12, <2>0, <2>1
  <2> QED
    BY <1>9, <2>2, <2>3, <2>4 DEF Before
<1>14. a \in S /\ \A b \in S \ {a} : Before(b, a)
  BY <1>13
<1> QED
  BY <1>14 DEF LastOf

\* The command a report puts first is there, and before each of the others.
LEMMA FirstOfIsFirst ==
  ASSUME TypeOK, NEW S, S # {}, AreIn(S)
  PROVE  FirstOf(S) \in S /\ \A b \in S \ {FirstOf(S)} : Before(FirstOf(S), b)
<1>0. /\ MaxClock \in Nat /\ NLogs \in Nat
      /\ \A a \in S : a.rec.ts \in 0 .. MaxClock /\ a.log \in 1 .. NLogs /\ a.line \in Nat
  BY SizesAssumption, CommandIsTyped
<1> DEFINE Times == {a.rec.ts : a \in S}
<1>1. Times \in SUBSET Nat /\ Times # {} 
  BY <1>0
<1>2. PICK t \in Times : \A x \in Times : t <= x
  <2> HIDE DEF Times
  <2> QED
    BY <1>0, <1>1, HasLeast
<1> DEFINE There == {a.log : a \in {a \in S : a.rec.ts = t}}
<1>3. There \in SUBSET Nat /\ There # {} 
  BY <1>0, <1>2
<1>4. PICK l \in There : \A x \in There : l <= x
  <2> HIDE DEF There
  <2> QED
    BY <1>0, <1>3, HasLeast
<1> DEFINE Lines == {a.line : a \in {a \in S : a.rec.ts = t /\ a.log = l}}
<1>5. l \in Logs /\ logs[l] \in Seq(PieceType)
  BY <1>0, <1>4 DEF TypeOK, Logs
<1>6. \A a \in S : a.log = l => a.line \in 1 .. Len(logs[l])
  BY <1>5 DEF AreIn, IsIn
<1>7. Lines \in SUBSET Nat /\ Lines # {} 
  BY <1>0, <1>4, <1>5, <1>6
<1>8. PICK n \in Lines : \A x \in Lines : n <= x
  <2> HIDE DEF Lines
  <2>1. Len(logs[l]) \in Nat
    BY <1>5
  <2> QED
    BY <2>1, <1>7, HasLeast
<1>9. PICK a \in S : a.rec.ts = t /\ a.log = l /\ a.line = n
  BY <1>8
<1>10. \A b \in S : t <= b.rec.ts
  BY <1>2
<1>11. \A b \in S : b.rec.ts = t => l <= b.log
  BY <1>4
<1>12. \A b \in S : b.rec.ts = t /\ b.log = l => n <= b.line
  BY <1>8
<1> HIDE DEF Times, There, Lines
<1>13. ASSUME NEW b \in S, b # a
       PROVE  Before(a, b)
  <2>0. /\ a.rec.ts \in Nat /\ a.log \in Nat /\ a.line \in Nat
        /\ b.rec.ts \in Nat /\ b.log \in Nat /\ b.line \in Nat
    BY <1>0
  <2>1. b.rec.ts = t /\ b.log = l => b.line # n
    BY <1>9, <1>13 DEF AreIn, IsIn
  <2>2. t < b.rec.ts \/ b.rec.ts = t
    BY <1>9, <1>10, <2>0
  <2>3. b.rec.ts = t => l < b.log \/ b.log = l
    BY <1>9, <1>11, <2>0
  <2>4. b.rec.ts = t /\ b.log = l => n < b.line
    BY <1>9, <1>12, <2>0, <2>1
  <2> QED
    BY <1>9, <2>2, <2>3, <2>4 DEF Before
<1>14. a \in S /\ \A b \in S \ {a} : Before(a, b)
  BY <1>13
<1> QED
  BY <1>14 DEF FirstOf

-----------------------------------------------------------------------------
\* What the lines of a log tell.

\* In a log that parses each end of an append ends a line of its own, so its
\* record is among those read.
LEMMA EndIsRead ==
  ASSUME NEW log \in Seq(PieceType), Readable(log), NEW i \in DOMAIN log, log[i].part = "end"
  PROVE  \E r \in Records(log) : r.rec = log[i].rec
<1>0. Len(log) \in Nat /\ i \in 1 .. Len(log) /\ DOMAIN log = 1 .. Len(log)
  OBVIOUS
<1> DEFINE Starts == {s \in 1 .. i : s \in LineStarts(log)}
<1>1. 1 \in Starts
  BY <1>0 DEF LineStarts
<1>2. PICK s \in Starts : \A x \in Starts : x <= s
  <2>1. Starts \in SUBSET Nat /\ Starts # {} /\ \A x \in Starts : x <= i
    BY <1>0, <1>1
  <2>2. i \in Nat
    BY <1>0
  <2> HIDE DEF Starts
  <2> QED
    BY <2>1, <2>2, HasGreatest
<1>3. s \in 1 .. i /\ s \in LineStarts(log)
  OBVIOUS
<1>4. ASSUME NEW e \in s .. i - 1
      PROVE  log[e].part # "end"
  <2>1. e + 1 \in 1 .. i /\ e + 1 > s
    BY <1>0, <1>3
  <2>2. e + 1 \in LineStarts(log) <=> log[e].part = "end"
    BY <1>0, <1>3, <2>1 DEF LineStarts
  <2> QED
    BY <1>2, <1>3, <2>1, <2>2
<1> HIDE DEF Starts
<1> DEFINE Is(e) == /\ e = Len(log) \/ log[e].part = "end"
                   /\ \A n \in s .. e - 1 : log[n].part # "end"
<1>5. i \in s .. Len(log) /\ Is(i)
  BY <1>0, <1>3, <1>4
<1>6. ASSUME NEW e \in s .. Len(log), Is(e)
      PROVE  e = i
  <2>0. /\ s \in Int /\ e \in Int /\ i \in Int /\ Len(log) \in Int
        /\ s <= e /\ e <= Len(log) /\ s <= i /\ i <= Len(log)
    BY <1>0, <1>3
  <2>1. e = Len(log) \/ log[e].part = "end"
    BY <1>6
  <2>2. e < i => e \in s .. i - 1 /\ e # Len(log)
    BY <2>0
  <2>3. i < e => i \in s .. e - 1
    BY <1>0, <1>3
  <2>4. i \in s .. e - 1 => log[i].part # "end"
    BY <1>6
  <2>5. ~(e < i) /\ ~(i < e)
    BY <1>4, <2>1, <2>2, <2>3, <2>4
  <2> QED
    BY <1>0, <1>3, <2>5
<1>7. LineEnd(log, s) = i
  BY <1>5, <1>6 DEF LineEnd
<1>8. Parses(SubSeq(log, s, i))
  BY <1>3, <1>7 DEF Readable, Line
<1>9. i = s + 1
  <2>1. Len(SubSeq(log, s, i)) = i - s + 1
    BY <1>0, <1>3
  <2> QED
    BY <1>0, <1>3, <1>8, <2>1 DEF Parses
<1>10. log[s].rec = log[i].rec
  <2>1. SubSeq(log, s, i)[1] = log[s] /\ SubSeq(log, s, i)[2] = log[s + 1]
    BY <1>0, <1>3, <1>9
  <2> QED
    BY <1>8, <1>9, <2>1 DEF Parses
<1>11. [line |-> s, rec |-> log[s].rec] \in Records(log)
  BY <1>3, <1>7, <1>8 DEF Records, Line
<1> QED
  BY <1>10, <1>11

\* A record read of a log is at its line.
LEMMA RecordIsThere ==
  ASSUME NEW log \in Seq(PieceType), NEW r \in Records(log)
  PROVE  /\ r \in [line : Nat, rec : RecType]
         /\ r.line \in DOMAIN log /\ log[r.line].rec = r.rec
<1>1. PICK s \in LineStarts(log) : r = [line |-> s, rec |-> log[s].rec]
  BY DEF Records
<1>2. s \in 1 .. Len(log) /\ log[s] \in PieceType
  BY DEF LineStarts
<1> QED
  BY <1>1, <1>2 DEF PieceType

-----------------------------------------------------------------------------
\* What the steps keep.

\* A step that leaves the records, the build and its documents alone.
LEMMA OthersKeepInv ==
  ASSUME IInv, UNCHANGED <<logs, tool, runs, ended, wrote, build, built, sig>>,
         clock' \in 0 .. MaxClock, files' \in [Places -> {None} \cup Contents]
  PROVE  IInv'
<1>1. TypeOK'
  BY DEF IInv, TypeOK
<1>2. RecordsAreMade'
  BY DEF IInv, RecordsAreMade, Made
<1>3. EndsAreThere' /\ BuildReadsLogs'
  BY DEF IInv, EndsAreThere, BuildReadsLogs, IsIn
<1>4. BuiltFromLogs'
  BY DEF IInv, BuiltFromLogs, IsDrawn, IsIn
<1>5. SignaturesAreBuilds'
  BY DEF IInv, SignaturesAreBuilds
<1> QED
  BY <1>1, <1>2, <1>3, <1>4, <1>5 DEF IInv

\* Documents stay drawn from logs that only grow.
LogsGrow ==
  \A l \in Logs : \A i \in DOMAIN logs[l] : i \in DOMAIN logs'[l] /\ logs'[l][i] = logs[l][i]

LEMMA GrownLogsKeepReads ==
  ASSUME IInv, LogsGrow, UNCHANGED <<build, built>>
  PROVE  BuildReadsLogs' /\ BuiltFromLogs'
<1>1. \A l \in Logs : \A n, r : IsIn(l, n, r) => IsIn(l, n, r)'
  BY DEF LogsGrow, IsIn
<1>2. BuildReadsLogs'
  BY <1>1 DEF IInv, BuildReadsLogs
<1>3. \A b \in built : IsDrawn(b)'
  <2> SUFFICES ASSUME NEW b \in built
               PROVE  IsDrawn(b)'
    OBVIOUS
  <2>1. IsDrawn(b)
    BY DEF IInv, BuiltFromLogs
  <2> QED
    BY <1>1, <2>1 DEF IsDrawn
<1>4. BuiltFromLogs'
  BY <1>3 DEF BuiltFromLogs
<1> QED
  BY <1>2, <1>4

\* One piece more in one log.
Gains(l, piece) ==
  /\ logs' \in [Logs -> Seq(PieceType)] /\ LogsGrow
  /\ \A m \in Logs : \A i \in DOMAIN logs'[m] :
       (i \in DOMAIN logs[m] /\ logs'[m][i] = logs[m][i]) \/ logs'[m][i] = piece
  /\ \E i \in DOMAIN logs'[l] : logs'[l][i] = piece

LEMMA LogAppended ==
  ASSUME TypeOK, NEW l \in Logs, NEW piece \in PieceType,
         logs' = [logs EXCEPT ![l] = Append(@, piece)]
  PROVE  Gains(l, piece)
<1>1. logs \in [Logs -> Seq(PieceType)] /\ logs[l] \in Seq(PieceType)
  BY DEF TypeOK
<1>2. /\ Append(logs[l], piece) \in Seq(PieceType)
      /\ Len(Append(logs[l], piece)) = Len(logs[l]) + 1
      /\ \A i \in 1 .. Len(logs[l]) : Append(logs[l], piece)[i] = logs[l][i]
      /\ Append(logs[l], piece)[Len(logs[l]) + 1] = piece
      /\ Len(logs[l]) \in Nat /\ DOMAIN logs[l] = 1 .. Len(logs[l])
      /\ DOMAIN Append(logs[l], piece) = 1 .. Len(logs[l]) + 1
  BY <1>1
<1> DEFINE new == Append(logs[l], piece)
<1>3. logs' = [logs EXCEPT ![l] = new]
  OBVIOUS
<1> HIDE DEF new
<1>4. /\ new \in Seq(PieceType)
      /\ \A i \in DOMAIN logs[l] : i \in DOMAIN new /\ new[i] = logs[l][i]
      /\ \A i \in DOMAIN new : (i \in DOMAIN logs[l] /\ new[i] = logs[l][i]) \/ new[i] = piece
      /\ \E i \in DOMAIN new : new[i] = piece
  BY <1>2 DEF new
<1>5. logs'[l] = new /\ \A m \in Logs \ {l} : logs'[m] = logs[m]
  BY <1>1, <1>3
<1> QED
  BY <1>1, <1>3, <1>4, <1>5 DEF LogsGrow, Gains

-----------------------------------------------------------------------------
\* The steps, one by one.

LEMMA IdleIsTyped ==
  Idle \in ToolType /\ NoRec \in RecType /\ NoBuild \in BuildType /\ 1 \in Logs
<1>1. NoWork \in WorkType /\ 0 \in 0 .. MaxRuns /\ 0 \in 0 .. MaxClock /\ 1 \in Logs
  BY SizesAssumption DEF NoWork, WorkType, None, Logs
<1>2. NoRec \in RecType
  BY <1>1 DEF NoRec, RecType, None
<1>3. Idle \in ToolType
  BY <1>1, <1>2 DEF Idle, ToolType
<1>4. <<>> \in Seq(SUBSET [line : Nat, rec : RecType]) /\ <<>> \in Seq(Nat)
  OBVIOUS
<1>5. NoBuild \in BuildType
  BY <1>4 DEF NoBuild, BuildType
<1> QED
  BY <1>1, <1>2, <1>3, <1>5

LEMMA InitInv == Init => IInv
<1> SUFFICES ASSUME Init PROVE IInv
  OBVIOUS
<1>1. TypeOK
  <2>1. clock \in 0 .. MaxClock /\ runs \in 0 .. MaxRuns /\ 1 \in Contents
    BY SizesAssumption DEF Init, Contents
  <2>2. files \in [Places -> {None} \cup Contents]
    BY <2>1 DEF Init
  <2>3. logs \in [Logs -> Seq(PieceType)] /\ wrote \in [Outputs -> Seq(1 .. MaxRuns)]
    BY DEF Init
  <2> QED
    BY <2>1, <2>2, <2>3, IdleIsTyped DEF Init, TypeOK
<1>2. RecordsAreMade
  BY DEF Init, RecordsAreMade, Idle
<1>3. EndsAreThere /\ BuildReadsLogs
  BY DEF Init, EndsAreThere, BuildReadsLogs, NoBuild
<1>4. \A b \in built : b.owed = {} /\ b.signed /\ b.doc = report /\ sig = report
                        /\ report = Assemble([l \in Logs |-> {}], [l \in Logs |-> 0])
  BY DEF Init
<1>5. BuiltFromLogs
  <2> SUFFICES ASSUME NEW b \in built PROVE IsDrawn(b)
    BY DEF BuiltFromLogs
  <2> DEFINE none == UNION {{[log |-> l, line |-> x.line, rec |-> x.rec] :
                               x \in [m \in Logs |-> {}][l]} : l \in DOMAIN [m \in Logs |-> {}]}
  <2>1. none = {}
    OBVIOUS
  <2>2. b.doc = [kind |-> "report", logs |-> [l \in Logs |-> 0], commands |-> none,
                 evidence |-> EvidenceOf(none), outputs |-> OutputsOf(none), warnings |-> Warnings(none)]
    BY <1>4 DEF Assemble
  <2> HIDE DEF none
  <2> QED
    BY <1>4, <2>1, <2>2 DEF IsDrawn
<1>6. SignaturesAreBuilds
  <2>1. build.phase = "none"
    BY DEF Init, NoBuild
  <2>2. CASE sig = NoDoc
    BY <2>1, <2>2 DEF SignaturesAreBuilds
  <2>3. CASE sig = report /\ built = {[doc |-> report, owed |-> {}, signed |-> TRUE]}
    BY <2>1, <2>3 DEF SignaturesAreBuilds
  <2> QED
    BY <2>2, <2>3 DEF Init
<1> QED
  BY <1>1, <1>2, <1>3, <1>5, <1>6 DEF IInv

\* A run writes: its number is new, and stands for nothing but its output.
LEMMA WorkKeepsInv ==
  ASSUME IInv, NEW t \in Tools, Work(t)
  PROVE  IInv'
<1>1. PICK w \in Works, l \in Logs :
        /\ tool' = [tool EXCEPT ![t] = [Idle EXCEPT !.phase = "worked", !.log = l,
                      !.rec = [NoRec EXCEPT !.run = runs + 1, !.work = w, !.digest = runs + 1]]]
        /\ IF w.output = None THEN UNCHANGED <<files, wrote>>
           ELSE /\ files' = [files EXCEPT ![Here(w.output)] = runs + 1]
                /\ wrote' = [wrote EXCEPT ![w.output] = Append(@, runs + 1)]
  BY DEF Work
<1> DEFINE rec == [run |-> runs + 1, ts |-> 0, work |-> w, seen |-> [e \in Evidence |-> None],
                   digest |-> runs + 1]
<1>2. /\ runs \in 0 .. MaxRuns /\ runs < MaxRuns /\ runs' = runs + 1 /\ MaxRuns \in Nat
      /\ UNCHANGED <<clock, logs, builds, build, report, sig, ended, built>>
  BY SizesAssumption DEF Work, IInv, TypeOK, Smooth, paper
<1>3. runs + 1 \in 0 .. MaxRuns /\ runs + 1 \in 1 .. MaxRuns /\ runs + 1 \in Contents
  BY <1>2 DEF Contents
<1>4. w \in WorkType /\ w.output \in Outputs \cup {None}
  BY WorksAssumption DEF WorkType
<1>5. rec \in RecType
  BY <1>3, <1>4, SizesAssumption DEF RecType
<1>6. tool' = [tool EXCEPT ![t] = [phase |-> "worked", rec |-> rec, log |-> l]]
  <2>1. NoRec = [run |-> 0, ts |-> 0, work |-> NoWork, seen |-> [e \in Evidence |-> None], digest |-> 0]
    BY DEF NoRec, None
  <2>2. PICK r : r = [NoRec EXCEPT !.run = runs + 1, !.work = w, !.digest = runs + 1]
    OBVIOUS
  <2>3. r = rec
    BY <2>1, <2>2
  <2> HIDE DEF rec
  <2>4. Idle = [phase |-> "idle", rec |-> NoRec, log |-> 1]
    BY DEF Idle
  <2>5. PICK i : i = [Idle EXCEPT !.phase = "worked", !.log = l, !.rec = rec]
    OBVIOUS
  <2>6. i = [phase |-> "worked", rec |-> rec, log |-> l]
    BY <2>4, <2>5
  <2> QED
    BY <1>1, <2>2, <2>3, <2>5, <2>6
<1>7. /\ rec.run = runs + 1 /\ rec.digest = runs + 1 /\ rec.work = w
  OBVIOUS
<1> HIDE DEF rec
<1> DEFINE new == [phase |-> "worked", rec |-> rec, log |-> l]
<1>8. new \in ToolType /\ new.rec = rec
  BY <1>5 DEF ToolType
<1>9. tool' \in [Tools -> ToolType] /\ tool'[t] = new /\ \A x \in Tools \ {t} : tool'[x] = tool[x]
  <2> HIDE DEF new
  <2>1. tool' = [tool EXCEPT ![t] = new] /\ tool \in [Tools -> ToolType]
    BY <1>6 DEF IInv, TypeOK, new
  <2> QED
    BY <1>8, <2>1
<1>10. files' \in [Places -> {None} \cup Contents]
  BY <1>1, <1>3 DEF IInv, TypeOK
<1>11. /\ wrote' \in [Outputs -> Seq(1 .. MaxRuns)]
       /\ \A p \in Outputs : p # w.output => wrote'[p] = wrote[p]
       /\ \A p \in Outputs : p = w.output =>
            /\ \A k \in DOMAIN wrote[p] : k \in DOMAIN wrote'[p] /\ wrote'[p][k] = wrote[p][k]
            /\ \A k \in DOMAIN wrote'[p] : (k \in DOMAIN wrote[p] /\ wrote'[p][k] = wrote[p][k])
                                              \/ wrote'[p][k] = runs + 1
            /\ \E k \in DOMAIN wrote'[p] : wrote'[p][k] = runs + 1
  <2>1. wrote \in [Outputs -> Seq(1 .. MaxRuns)]
    BY DEF IInv, TypeOK
  <2>2. CASE w.output = None
    <3>1. w.output \notin Outputs /\ wrote' = wrote
      BY <1>1, <2>2, PathsAssumption
    <3> QED
      BY <2>1, <3>1
  <2>3. CASE w.output # None
    <3> DEFINE o == w.output
               row == Append(wrote[o], runs + 1)
    <3>1. o \in Outputs /\ wrote[o] \in Seq(1 .. MaxRuns) /\ wrote' = [wrote EXCEPT ![o] = row]
      BY <1>1, <1>4, <2>1, <2>3
    <3>2. /\ row \in Seq(1 .. MaxRuns) /\ Len(wrote[o]) \in Nat
          /\ DOMAIN wrote[o] = 1 .. Len(wrote[o]) /\ DOMAIN row = 1 .. Len(wrote[o]) + 1
          /\ \A k \in 1 .. Len(wrote[o]) : row[k] = wrote[o][k]
          /\ row[Len(wrote[o]) + 1] = runs + 1
      BY <1>3, <3>1
    <3> HIDE DEF row
    <3>3. wrote'[o] = row /\ \A p \in Outputs \ {o} : wrote'[p] = wrote[p]
      BY <2>1, <3>1
    <3>4. wrote' \in [Outputs -> Seq(1 .. MaxRuns)]
      BY <2>1, <3>1, <3>2
    <3> HIDE DEF o
    <3>5. /\ \A k \in DOMAIN wrote[o] : k \in DOMAIN row /\ row[k] = wrote[o][k]
          /\ \A k \in DOMAIN row : (k \in DOMAIN wrote[o] /\ row[k] = wrote[o][k]) \/ row[k] = runs + 1
          /\ \E k \in DOMAIN row : row[k] = runs + 1
      BY <3>2
    <3> QED
      BY <3>3, <3>4, <3>5 DEF o
  <2> QED
    BY <2>2, <2>3
<1>12. ASSUME NEW r, Made(r)
       PROVE  MadeBy(r, runs', wrote')
  <2>1. r.run \in 1 .. runs' /\ r.run # runs + 1
    BY <1>2, <1>12 DEF Made, MadeBy
  <2> QED
    BY <1>11, <1>12, <2>1 DEF Made, MadeBy
<1>13. MadeBy(rec, runs', wrote')
  <2>1. \A p \in Outputs : \A k \in DOMAIN wrote[p] : wrote[p][k] # runs + 1
    BY <1>2 DEF IInv, RecordsAreMade, TypeOK
  <2>2. \A p \in Outputs : w.output = p <=> \E k \in DOMAIN wrote'[p] : wrote'[p][k] = runs + 1
    BY <1>11, <2>1
  <2>3. rec.run \in 1 .. runs'
    BY <1>2, <1>7
  <2> QED
    BY <1>7, <2>2, <2>3 DEF MadeBy
<1>14. RecordsAreMade'
  <2>1. \A x \in Tools : tool'[x].phase # "idle" => MadeBy(tool'[x].rec, runs', wrote')
    BY <1>8, <1>9, <1>12, <1>13 DEF IInv, RecordsAreMade
  <2>2. \A m \in Logs : \A i \in DOMAIN logs'[m] : MadeBy(logs'[m][i].rec, runs', wrote')
    BY <1>2, <1>12 DEF IInv, RecordsAreMade
  <2>3. ASSUME NEW p \in Outputs, NEW k \in DOMAIN wrote'[p]
        PROVE  wrote'[p][k] <= runs'
    <3>1. (k \in DOMAIN wrote[p] /\ wrote'[p][k] = wrote[p][k]) \/ wrote'[p][k] = runs + 1
      BY <1>11
    <3>2. wrote[p] \in Seq(1 .. MaxRuns)
      BY DEF IInv, TypeOK
    <3>3. \A n \in 1 .. Len(wrote[p]) : wrote[p][n] \in 1 .. MaxRuns
      BY <3>2, ElementOfSeq
    <3>4. k \in DOMAIN wrote[p] => wrote[p][k] <= runs
      BY DEF IInv, RecordsAreMade
    <3> QED
      BY <1>2, <3>1, <3>2, <3>3, <3>4
  <2> QED
    BY <2>1, <2>2, <2>3 DEF RecordsAreMade, Made
<1>15. TypeOK'
  BY <1>2, <1>3, <1>9, <1>10, <1>11 DEF IInv, TypeOK
<1>16. BuildReadsLogs' /\ BuiltFromLogs'
  BY <1>2, GrownLogsKeepReads DEF LogsGrow
<1>17. EndsAreThere' /\ SignaturesAreBuilds'
  BY <1>2 DEF IInv, EndsAreThere, SignaturesAreBuilds
<1> QED
  BY <1>14, <1>15, <1>16, <1>17 DEF IInv

LEMMA StampKeepsInv ==
  ASSUME IInv, NEW t \in Tools, Stamp(t)
  PROVE  IInv'
<1> DEFINE seen == [e \in Evidence |-> IF tool[t].rec.work.hashes THEN files[Here(e)] ELSE None]
           old == tool[t].rec
           new == [run |-> old.run, ts |-> clock, work |-> old.work, seen |-> seen, digest |-> old.digest]
           next == [phase |-> "append", rec |-> new, log |-> tool[t].log]
<1>1. UNCHANGED <<files, clock, logs, runs, build, sig, built, wrote, ended>>
  BY DEF Stamp, Smooth, world, paper, history
<1>2. tool[t] \in ToolType /\ tool[t].phase = "worked"
  BY DEF Stamp, IInv, TypeOK
<1>3. old \in RecType /\ tool[t] = [phase |-> "worked", rec |-> old, log |-> tool[t].log]
  BY <1>2 DEF ToolType
<1>4. seen \in [Evidence -> {None} \cup Contents]
  BY DEF IInv, TypeOK, Here, Places, Paths
<1>5. new \in RecType /\ next \in ToolType
  <2> HIDE DEF seen
  <2>1. new \in RecType
    BY <1>3, <1>4 DEF IInv, TypeOK, RecType
  <2> HIDE DEF new
  <2> QED
    BY <1>2, <2>1 DEF ToolType
<1>6. tool' = [tool EXCEPT ![t] = next]
  <2>1. tool' = [tool EXCEPT ![t].phase = "append", ![t].rec.ts = clock, ![t].rec.seen = seen]
    BY DEF Stamp
  <2> HIDE DEF seen
  <2>2. tool \in [Tools -> ToolType]
    BY DEF IInv, TypeOK
  <2>3. \A x \in Tools \ {t} : tool'[x] = tool[x]
    BY <2>1, <2>2
  <2>4. tool'[t] = [[[tool[t] EXCEPT !.phase = "append"] EXCEPT !.rec.ts = clock] EXCEPT !.rec.seen = seen]
    BY <2>1, <2>2
  <2>5. tool'[t] = next
    BY <1>2, <1>3, <2>4 DEF ToolType, RecType
  <2> HIDE DEF next
  <2> QED
    BY <2>1, <2>2, <2>3, <2>5
<1>7. Made(new)
  <2>1. Made(old)
    BY <1>2 DEF IInv, RecordsAreMade
  <2>2. new.run = old.run /\ new.digest = old.digest /\ new.work = old.work
    OBVIOUS
  <2> HIDE DEF new, old
  <2> QED
    BY <2>1, <2>2 DEF Made, MadeBy
<1> HIDE DEF new
<1>8. next.rec = new
  OBVIOUS
<1> HIDE DEF next
<1>9. tool' \in [Tools -> ToolType] /\ tool'[t] = next /\ \A x \in Tools \ {t} : tool'[x] = tool[x]
  BY <1>5, <1>6 DEF IInv, TypeOK
<1>10. TypeOK'
  BY <1>1, <1>9 DEF IInv, TypeOK
<1>11. RecordsAreMade'
  <2>1. /\ \A x \in Tools : tool'[x].phase # "idle" => Made(tool'[x].rec)
        /\ \A l \in Logs : \A i \in DOMAIN logs[l] : Made(logs[l][i].rec)
        /\ \A p \in Outputs : \A k \in DOMAIN wrote[p] : wrote[p][k] <= runs
    BY <1>7, <1>8, <1>9 DEF IInv, RecordsAreMade
  <2> QED
    BY <1>1, <2>1 DEF RecordsAreMade, Made
<1>12. BuildReadsLogs' /\ BuiltFromLogs'
  BY <1>1, GrownLogsKeepReads DEF LogsGrow
<1>13. EndsAreThere' /\ SignaturesAreBuilds'
  BY <1>1 DEF IInv, EndsAreThere, SignaturesAreBuilds
<1> QED
  BY <1>10, <1>11, <1>12, <1>13 DEF IInv

\* What a tool appends is a piece with its record.
LEMMA ToolAppends ==
  ASSUME TypeOK, NEW t \in Tools, NEW part \in {"head", "end", "cut"},
         logs' = [logs EXCEPT ![tool[t].log] = Append(@, Piece(part, tool[t].rec))]
  PROVE  Gains(tool[t].log, Piece(part, tool[t].rec))
<1>1. tool[t].log \in Logs /\ Piece(part, tool[t].rec) \in PieceType
  BY DEF TypeOK, ToolType, Piece, PieceType
<1> QED
  BY <1>1, LogAppended

\* One write of an append, whatever becomes of the tool: the piece holds the
\* record of a run, and the append ends with an end.
LEMMA PieceKeepsInv ==
  ASSUME IInv, NEW t \in Tools, tool[t].phase # "idle",
         NEW part \in {"head", "end", "cut"}, NEW after \in ToolType,
         after.phase # "idle" => after.rec = tool[t].rec,
         tool' = [tool EXCEPT ![t] = after],
         Gains(tool[t].log, Piece(part, tool[t].rec)),
         ended' = ended \/ (part = "end" /\ ended' = ended \cup {<<tool[t].log, tool[t].rec>>}),
         UNCHANGED <<clock, files, runs, wrote, build, built, sig>>
  PROVE  IInv'
<1>0. tool[t].rec \in RecType /\ tool[t].log \in Logs /\ Made(tool[t].rec)
  BY DEF IInv, TypeOK, ToolType, RecordsAreMade
<1>1. PICK rec \in RecType, l \in Logs : rec = tool[t].rec /\ l = tool[t].log /\ Made(rec)
  BY <1>0
<1>2. PICK piece \in PieceType : piece = Piece(part, rec) /\ piece.part = part /\ piece.rec = rec
  <2>1. Piece(part, rec) \in PieceType /\ Piece(part, rec).part = part /\ Piece(part, rec).rec = rec
    BY DEF Piece, PieceType
  <2> QED
    BY <2>1
<1>3. /\ logs' \in [Logs -> Seq(PieceType)] /\ LogsGrow
      /\ \A m \in Logs : \A i \in DOMAIN logs'[m] :
           (i \in DOMAIN logs[m] /\ logs'[m][i] = logs[m][i]) \/ logs'[m][i] = piece
      /\ \E i \in DOMAIN logs'[l] : logs'[l][i] = piece
  BY <1>1, <1>2 DEF Gains
<1>4. tool' \in [Tools -> ToolType] /\ tool'[t] = after /\ \A x \in Tools \ {t} : tool'[x] = tool[x]
  BY DEF IInv, TypeOK
<1>5. TypeOK'
  <2>1. ended' \subseteq Logs \X RecType
    BY <1>1 DEF IInv, TypeOK
  <2> QED
    BY <1>3, <1>4, <2>1 DEF IInv, TypeOK
<1>6. RecordsAreMade'
  <2>1. \A x \in Tools : tool'[x].phase # "idle" => Made(tool'[x].rec)
    BY <1>1, <1>4 DEF IInv, RecordsAreMade
  <2>2. \A m \in Logs : \A i \in DOMAIN logs'[m] : Made(logs'[m][i].rec)
    BY <1>1, <1>2, <1>3 DEF IInv, RecordsAreMade
  <2>3. \A p \in Outputs : \A k \in DOMAIN wrote[p] : wrote[p][k] <= runs
    BY DEF IInv, RecordsAreMade
  <2> QED
    BY <2>1, <2>2, <2>3 DEF RecordsAreMade, Made
<1>7. EndsAreThere'
  <2>1. \A x \in ended : \E i \in DOMAIN logs'[x[1]] : logs'[x[1]][i] = Piece("end", x[2])
    BY <1>3 DEF IInv, TypeOK, EndsAreThere, LogsGrow
  <2>2. CASE ended' = ended
    BY <2>1, <2>2 DEF EndsAreThere
  <2>3. CASE part = "end" /\ ended' = ended \cup {<<l, rec>>}
    <3>1. \E i \in DOMAIN logs'[l] : logs'[l][i] = Piece("end", rec)
      BY <1>2, <1>3, <2>3
    <3>2. \A x \in ended' : x \in ended \/ (x[1] = l /\ x[2] = rec)
      BY <2>3
    <3> QED
      BY <2>1, <3>1, <3>2 DEF EndsAreThere
  <2> QED
    BY <1>1, <2>2, <2>3
<1>8. BuildReadsLogs' /\ BuiltFromLogs'
  BY <1>3, GrownLogsKeepReads
<1>9. SignaturesAreBuilds'
  BY DEF IInv, SignaturesAreBuilds
<1> QED
  BY <1>5, <1>6, <1>7, <1>8, <1>9 DEF IInv

LEMMA AppendKeepsInv ==
  ASSUME IInv, NEW t \in Tools, AppendHead(t) \/ AppendEnd(t)
  PROVE  IInv'
<1>1. tool[t] \in ToolType /\ tool \in [Tools -> ToolType]
  BY DEF IInv, TypeOK
<1>2. UNCHANGED <<clock, files, runs, wrote, build, built, sig>>
  BY DEF AppendHead, AppendEnd, Smooth, world, paper, history
<1>3. CASE AppendHead(t)
  <2> DEFINE after == [tool[t] EXCEPT !.phase = "appending"]
  <2>1. after \in ToolType /\ after.rec = tool[t].rec
    BY <1>1 DEF ToolType
  <2>2. tool' = [tool EXCEPT ![t] = after]
    BY <1>1, <1>3 DEF AppendHead
  <2> HIDE DEF after
  <2>3. /\ tool[t].phase # "idle" /\ ended' = ended
    BY <1>3 DEF AppendHead, history
  <2>4. Gains(tool[t].log, Piece("head", tool[t].rec))
    BY <1>3, ToolAppends DEF AppendHead, IInv
  <2> QED
    BY <1>2, <2>1, <2>2, <2>3, <2>4, PieceKeepsInv
<1>4. CASE AppendEnd(t)
  <2>1. /\ tool[t].phase # "idle" /\ tool' = [tool EXCEPT ![t] = Idle]
        /\ ended' = ended \cup {<<tool[t].log, tool[t].rec>>}
    BY <1>4 DEF AppendEnd
  <2>3. Gains(tool[t].log, Piece("end", tool[t].rec))
    BY <1>4, ToolAppends DEF AppendEnd, IInv
  <2>2. Idle \in ToolType /\ Idle.phase = "idle"
    BY IdleIsTyped DEF Idle
  <2> QED
    BY <1>2, <2>1, <2>2, <2>3, PieceKeepsInv
<1> QED
  BY <1>3, <1>4

LEMMA KillKeepsInv ==
  ASSUME IInv, NEW t \in Tools, Kill(t)
  PROVE  IInv'
<1>1. /\ UNCHANGED <<clock, files, runs, wrote, build, built, sig, ended>>
      /\ tool[t].phase # "idle" /\ tool' = [tool EXCEPT ![t] = Idle]
  BY DEF Kill, Mishap, world, paper, history
<1>2. Idle \in ToolType /\ Idle.phase = "idle"
  BY IdleIsTyped DEF Idle
<1>3. CASE logs' = [logs EXCEPT ![tool[t].log] = Append(@, Piece("cut", tool[t].rec))]
  <2>1. Gains(tool[t].log, Piece("cut", tool[t].rec))
    BY <1>3, ToolAppends DEF IInv
  <2> QED
    BY <1>1, <1>2, <2>1, PieceKeepsInv
<1>4. CASE UNCHANGED logs
  <2>1. tool \in [Tools -> ToolType]
    BY DEF IInv, TypeOK
  <2>2. tool' \in [Tools -> ToolType] /\ tool'[t] = Idle /\ \A x \in Tools \ {t} : tool'[x] = tool[x]
    BY <1>1, <1>2, <2>1
  <2>3. TypeOK'
    BY <1>1, <1>4, <2>2 DEF IInv, TypeOK
  <2>4. RecordsAreMade'
    BY <1>1, <1>2, <1>4, <2>2 DEF IInv, RecordsAreMade, Made
  <2>5. BuildReadsLogs' /\ BuiltFromLogs'
    BY <1>1, <1>4, GrownLogsKeepReads DEF LogsGrow
  <2>6. EndsAreThere' /\ SignaturesAreBuilds'
    BY <1>1, <1>4 DEF IInv, EndsAreThere, SignaturesAreBuilds
  <2> QED
    BY <2>3, <2>4, <2>5, <2>6 DEF IInv
<1> QED
  BY <1>3, <1>4 DEF Kill

\* The world changes around the tools.
LEMMA WorldKeepsInv ==
  ASSUME IInv, Tick \/ StepBack \/ Meddle \/ Relocate \/ Edit \/ Verify
  PROVE  IInv'
<1>0. MaxClock \in Nat /\ clock \in 0 .. MaxClock /\ files \in [Places -> {None} \cup Contents]
  BY SizesAssumption DEF IInv, TypeOK
<1>1. UNCHANGED <<logs, tool, runs, ended, wrote, build, built, sig>>
  BY DEF Tick, StepBack, Meddle, Relocate, Edit, Verify, Smooth, Mishap, world, paper, history
<1>2. clock' \in 0 .. MaxClock
  BY <1>0 DEF Tick, StepBack, Meddle, Relocate, Edit, Verify, world
<1>3. files' \in [Places -> {None} \cup Contents]
  <2>1. CASE UNCHANGED files
    BY <1>0, <2>1
  <2>2. CASE Meddle
    <3>1. runs \in Nat /\ runs <= MaxRuns /\ MaxRuns \in Nat
      BY SizesAssumption DEF IInv, TypeOK
    <3>2. {None, MaxRuns + 1} \cup 1 .. runs \subseteq {None} \cup Contents
      BY <3>1 DEF Contents
    <3>3. PICK p \in Paths : \E c \in {None} \cup Contents : files' = [files EXCEPT ![Here(p)] = c]
      BY <2>2, <3>2 DEF Meddle
    <3> QED
      BY <1>0, <3>3
  <2>3. CASE Relocate
    <3>1. \A p \in Paths : files[Here(p)] \in {None} \cup Contents
      BY <1>0 DEF Here, Places
    <3>2. \A q \in Places : q[2] = "joined" => q[1] \in Paths
      BY DEF Places
    <3>3. CASE files' = [q \in Places |-> IF q[2] = "joined" THEN files[Here(q[1])] ELSE files[q]]
      BY <1>0, <3>1, <3>2, <3>3
    <3>4. CASE \E left \in [{Base[p] : p \in Paths} -> Paths] :
                 files' = [q \in Places |-> IF q[2] = "named"
                                           THEN files[Here(left[q[1]])] ELSE files[q]]
      <4>1. PICK left \in [{Base[p] : p \in Paths} -> Paths] :
                 files' = [q \in Places |-> IF q[2] = "named"
                                           THEN files[Here(left[q[1]])] ELSE files[q]]
        BY <3>4
      <4>2. \A q \in Places : q[2] = "named" => files[Here(left[q[1]])] \in {None} \cup Contents
        <5>1. \A q \in Places : q[2] = "named" => q[1] \in DOMAIN left
          BY <4>1 DEF Places
        <5> QED
          BY <3>1, <4>1, <5>1
      <4> QED
        BY <1>0, <4>1, <4>2
    <3> QED
      BY <2>3, <3>3, <3>4 DEF Relocate
  <2> QED
    BY <2>1, <2>2, <2>3 DEF Tick, StepBack, Edit, Verify, world
<1> QED
  BY <1>1, <1>2, <1>3, OthersKeepInv

-----------------------------------------------------------------------------
\* The steps of a build.

\* A build that begins has read nothing.
Begun(s) == [phase |-> "read", log |-> 1, read |-> <<>>, hashes |-> <<>>, sign |-> s, owed |-> {}]

LEMMA BuildBegun ==
  ASSUME NEW s \in BOOLEAN
  PROVE  /\ [NoBuild EXCEPT !.phase = "read", !.log = 1, !.sign = s] = Begun(s)
         /\ Begun(s) \in BuildType
<1>1. NoBuild = [phase |-> "none", log |-> 0, read |-> <<>>, hashes |-> <<>>, sign |-> FALSE, owed |-> {}]
  BY DEF NoBuild
<1>2. PICK b : b = [NoBuild EXCEPT !.phase = "read", !.log = 1, !.sign = s]
  OBVIOUS
<1>3. b = Begun(s)
  BY <1>1, <1>2 DEF Begun
<1>4. 1 \in Logs /\ <<>> \in Seq(SUBSET [line : Nat, rec : RecType]) /\ <<>> \in Seq(Nat)
  BY IdleIsTyped
<1>5. Begun(s) \in BuildType
  BY <1>4 DEF BuildType, Begun
<1> QED
  BY <1>2, <1>3, <1>5, Zenon

\* A build that only begins, ends or fails owes nothing and has read nothing.
LEMMA BuildStopsKeepInv ==
  ASSUME IInv,
         build' \in BuildType, build'.phase \in {"none", "read"}, build'.read = <<>>, build'.owed = {},
         build'.phase = "read" => build'.log = 1,
         sig' \in {sig, Scrap},
         UNCHANGED <<clock, files, logs, tool, runs, ended, wrote, built>>
  PROVE  IInv'
<1>1. TypeOK'
  BY DEF IInv, TypeOK
<1>2. RecordsAreMade'
  BY DEF IInv, RecordsAreMade, Made
<1>3. EndsAreThere'
  BY DEF IInv, EndsAreThere
<1>4. BuildReadsLogs'
  BY IdleIsTyped DEF BuildReadsLogs
<1>5. BuiltFromLogs'
  BY DEF IInv, BuiltFromLogs, IsDrawn, IsIn
<1>6. SignaturesAreBuilds'
  BY DEF IInv, SignaturesAreBuilds
<1> QED
  BY <1>1, <1>2, <1>3, <1>4, <1>5, <1>6 DEF IInv

\* The log is read: each record whose append has ended is among what was read.
LEMMA BuildReadsKeepInv ==
  ASSUME IInv, BuildReads
  PROVE  IInv'
<1> DEFINE l == build.log
           new == Records(logs[l])
           owed == build.owed \cup {x \in ended : x[1] = l}
<1>1. /\ build \in BuildType /\ build.phase = "read" /\ l \in Logs /\ Len(build.read) + 1 = l
      /\ logs[l] \in Seq(PieceType) /\ Readable(logs[l])
  BY DEF BuildReads, IInv, TypeOK, BuildReadsLogs
<1>2. UNCHANGED <<clock, files, logs, tool, runs, ended, wrote, built, sig>>
  BY DEF BuildReads, Smooth, world, paper, history
<1>3. build.read \in Seq(SUBSET [line : Nat, rec : RecType])
  BY <1>1 DEF BuildType
<1>4. /\ new \subseteq [line : Nat, rec : RecType]
      /\ \A r \in new : IsIn(l, r.line, r.rec)
  <2> HIDE DEF l
  <2>1. \A r \in Records(logs[l]) :
          r \in [line : Nat, rec : RecType] /\ r.line \in DOMAIN logs[l] /\ logs[l][r.line].rec = r.rec
    BY <1>1, RecordIsThere
  <2> QED
    BY <2>1 DEF IsIn
<1>5. \A x \in ended : x[1] = l => \E r \in new : r.rec = x[2]
  <2> SUFFICES ASSUME NEW x \in ended, x[1] = l
               PROVE  \E r \in new : r.rec = x[2]
    OBVIOUS
  <2>1. PICK i \in DOMAIN logs[l] : logs[l][i] = Piece("end", x[2])
    BY DEF IInv, EndsAreThere
  <2>2. logs[l][i].part = "end" /\ logs[l][i].rec = x[2]
    BY <2>1 DEF Piece
  <2> HIDE DEF l
  <2> QED
    BY <1>1, <2>2, EndIsRead
<1>6. owed \subseteq Logs \X RecType
  BY <1>1 DEF BuildType, IInv, TypeOK
<1> DEFINE read == Append(build.read, new)
           next == [phase |-> "hash", log |-> l, read |-> read, hashes |-> build.hashes,
                    sign |-> build.sign, owed |-> owed]
<1>7. /\ read \in Seq(SUBSET [line : Nat, rec : RecType]) /\ Len(read) = l
      /\ DOMAIN read = DOMAIN build.read \cup {l} /\ l \notin DOMAIN build.read
      /\ \A m \in DOMAIN build.read : read[m] = build.read[m]
      /\ read[l] = new
  <2>1. Len(build.read) \in Nat /\ DOMAIN build.read = 1 .. Len(build.read) /\ l = Len(build.read) + 1
    BY <1>1, <1>3
  <2>2. new \in SUBSET [line : Nat, rec : RecType]
    BY <1>4
  <2> HIDE DEF new, l
  <2> QED
    BY <1>3, <2>1, <2>2
<1>8. build' = next
  <2>1. build' = [build EXCEPT !.phase = "hash", !.read = read, !.owed = owed]
    BY DEF BuildReads
  <2>2. build = [phase |-> "read", log |-> l, read |-> build.read, hashes |-> build.hashes,
                 sign |-> build.sign, owed |-> build.owed]
    BY <1>1 DEF BuildType
  <2> HIDE DEF read, owed
  <2> QED
    BY <2>1, <2>2
<1>9. next \in BuildType
  <2> HIDE DEF read, owed
  <2> QED
    BY <1>1, <1>6, <1>7 DEF BuildType
<1>10. /\ build'.phase = "hash" /\ build'.log = l /\ build'.read = read /\ build'.owed = owed
  BY <1>8
<1> HIDE DEF next, read
<1>11. TypeOK'
  BY <1>2, <1>8, <1>9 DEF IInv, TypeOK
<1>12. RecordsAreMade'
  BY <1>2 DEF IInv, RecordsAreMade, Made
<1>13. EndsAreThere'
  BY <1>2 DEF IInv, EndsAreThere
<1>14. BuildReadsLogs'
  <2>1. \A m, n, r : IsIn(m, n, r) => IsIn(m, n, r)'
    BY <1>2 DEF IsIn
  <2>2. \A m \in DOMAIN read : m \in Logs /\ \A r \in read[m] : IsIn(m, r.line, r.rec)'
    <3> HIDE DEF new, l
    <3> QED
      BY <1>1, <1>4, <1>7, <2>1 DEF IInv, BuildReadsLogs
  <2>3. ASSUME NEW x \in owed
        PROVE  x[1] \in DOMAIN read /\ \E r \in read[x[1]] : r.rec = x[2]
    <3>1. CASE x \in build.owed
      <4>1. x[1] \in DOMAIN build.read /\ \E r \in build.read[x[1]] : r.rec = x[2]
        BY <3>1 DEF IInv, BuildReadsLogs
      <4> HIDE DEF new, l, owed
      <4> QED
        BY <1>7, <4>1
    <3>2. CASE x \in ended /\ x[1] = l
      <4>1. \E r \in new : r.rec = x[2]
        BY <1>5, <3>2
      <4> HIDE DEF new, l, owed
      <4> QED
        BY <1>7, <3>2, <4>1
    <3> QED
      BY <3>1, <3>2
  <2> HIDE DEF owed, new, l
  <2> QED
    BY <1>1, <1>7, <1>10, <2>2, <2>3 DEF BuildReadsLogs
<1>15. BuiltFromLogs'
  BY <1>2 DEF IInv, BuiltFromLogs, IsDrawn, IsIn
<1>16. SignaturesAreBuilds'
  BY <1>2, <1>10 DEF IInv, SignaturesAreBuilds
<1> QED
  BY <1>11, <1>12, <1>13, <1>14, <1>15, <1>16 DEF IInv

LEMMA BuildHashesKeepInv ==
  ASSUME IInv, BuildHashes
  PROVE  IInv'
<1> DEFINE l == build.log
           hashes == Append(build.hashes, Len(logs[l]))
           after == IF l < NLogs THEN l + 1 ELSE l
           phase == IF l < NLogs THEN "read" ELSE "write"
<1>1. /\ build \in BuildType /\ build.phase = "hash" /\ l \in Logs /\ Len(build.read) = l
      /\ logs[l] \in Seq(PieceType)
  BY DEF BuildHashes, IInv, TypeOK, BuildReadsLogs
<1>2. UNCHANGED <<clock, files, logs, tool, runs, ended, wrote, built, sig>>
  BY DEF BuildHashes, Smooth, world, paper, history
<1>3. hashes \in Seq(Nat)
  <2>1. Len(logs[l]) \in Nat /\ build.hashes \in Seq(Nat)
    BY <1>1 DEF BuildType
  <2> HIDE DEF l
  <2> QED
    BY <2>1
<1>4. after \in Logs /\ phase \in {"read", "write"} /\ (phase = "read" => after = l + 1)
  BY <1>1, SizesAssumption DEF Logs
<1>5. build' = [phase |-> phase, log |-> after, read |-> build.read, hashes |-> hashes,
                sign |-> build.sign, owed |-> build.owed]
  <2>1. build' = [build EXCEPT !.hashes = hashes, !.log = after, !.phase = phase]
    BY DEF BuildHashes
  <2>2. build = [phase |-> "hash", log |-> l, read |-> build.read, hashes |-> build.hashes,
                 sign |-> build.sign, owed |-> build.owed]
    BY <1>1 DEF BuildType
  <2> HIDE DEF hashes, after, phase
  <2> QED
    BY <2>1, <2>2
<1> HIDE DEF hashes, after, phase
<1>6. build' \in BuildType
  BY <1>1, <1>3, <1>4, <1>5 DEF BuildType
<1>7. /\ build'.phase = phase /\ build'.log = after
      /\ build'.read = build.read /\ build'.owed = build.owed
  BY <1>5
<1>8. TypeOK'
  BY <1>2, <1>6 DEF IInv, TypeOK
<1>9. RecordsAreMade' /\ EndsAreThere'
  BY <1>2 DEF IInv, RecordsAreMade, Made, EndsAreThere
<1>10. BuildReadsLogs'
  <2>1. \A m, n, r : IsIn(m, n, r) => IsIn(m, n, r)'
    BY <1>2 DEF IsIn
  <2>2. phase = "read" => Len(build.read) + 1 = after
    BY <1>1, <1>4
  <2> QED
    BY <1>4, <1>7, <2>1, <2>2 DEF IInv, BuildReadsLogs
<1>11. BuiltFromLogs'
  BY <1>2 DEF IInv, BuiltFromLogs, IsDrawn, IsIn
<1>12. SignaturesAreBuilds'
  BY <1>2, <1>4, <1>7 DEF IInv, SignaturesAreBuilds
<1> QED
  BY <1>8, <1>9, <1>10, <1>11, <1>12 DEF IInv

\* What was read is what the document is drawn from.
LEMMA AssembleIsDrawn ==
  ASSUME IInv
  PROVE  LET doc == Assemble(build.read, build.hashes)
         IN  IsDrawn([doc |-> doc, owed |-> build.owed, signed |-> build.sign])
<1> DEFINE S == UNION {{[log |-> l, line |-> x.line, rec |-> x.rec] : x \in build.read[l]} :
                         l \in DOMAIN build.read}
           doc == Assemble(build.read, build.hashes)
<1>1. doc = [kind |-> "report", logs |-> build.hashes, commands |-> S, evidence |-> EvidenceOf(S),
             outputs |-> OutputsOf(S), warnings |-> Warnings(S)]
  BY DEF Assemble
<1>2. ASSUME NEW a \in S
      PROVE  /\ a = [log |-> a.log, line |-> a.line, rec |-> a.rec]
             /\ a.log \in Logs /\ IsIn(a.log, a.line, a.rec)
  <2>1. PICK l \in DOMAIN build.read : \E x \in build.read[l] : a = [log |-> l, line |-> x.line, rec |-> x.rec]
    OBVIOUS
  <2>2. PICK x \in build.read[l] : a = [log |-> l, line |-> x.line, rec |-> x.rec]
    BY <2>1
  <2>3. l \in Logs /\ IsIn(l, x.line, x.rec)
    BY DEF IInv, BuildReadsLogs
  <2> HIDE DEF S
  <2> QED
    BY <2>2, <2>3
<1>3. build.owed \subseteq {<<a.log, a.rec>> : a \in S}
  <2> SUFFICES ASSUME NEW x \in build.owed
               PROVE  x \in {<<a.log, a.rec>> : a \in S}
    OBVIOUS
  <2>1. x = <<x[1], x[2]>>
    BY DEF IInv, TypeOK, BuildType
  <2>2. x[1] \in DOMAIN build.read /\ \E r \in build.read[x[1]] : r.rec = x[2]
    BY DEF IInv, BuildReadsLogs
  <2>3. PICK r \in build.read[x[1]] : r.rec = x[2]
    BY <2>2
  <2>4. [log |-> x[1], line |-> r.line, rec |-> r.rec] \in S
    BY <2>2
  <2> HIDE DEF S
  <2>5. PICK a \in S : a.log = x[1] /\ a.rec = x[2]
    BY <2>3, <2>4
  <2> QED
    BY <2>1, <2>5
<1> HIDE DEF S
<1>4. /\ doc.kind = "report" /\ doc.commands = S /\ doc.evidence = EvidenceOf(S)
      /\ doc.outputs = OutputsOf(S) /\ doc.warnings = Warnings(S)
  BY <1>1
<1> HIDE DEF doc
<1>5. IsDrawn([doc |-> doc, owed |-> build.owed, signed |-> build.sign])
  BY <1>2, <1>3, <1>4 DEF IsDrawn
<1> QED
  BY <1>5 DEF doc

LEMMA BuildWritesKeepInv ==
  ASSUME IInv, BuildWrites
  PROVE  IInv'
<1> DEFINE doc == Assemble(build.read, build.hashes)
           b == [doc |-> doc, owed |-> build.owed, signed |-> build.sign]
<1>1. /\ build.phase = "write" /\ built' = built \cup {b} /\ build \in BuildType
      /\ UNCHANGED <<clock, files, logs, tool, runs, ended, wrote, sig>>
  BY DEF BuildWrites, Smooth, world, IInv, TypeOK
<1>2. IsDrawn(b)
  BY AssembleIsDrawn
<1>3. BuiltFromLogs'
  <2> HIDE DEF b
  <2>1. \A x \in built' : IsDrawn(x)
    BY <1>1, <1>2 DEF IInv, BuiltFromLogs
  <2> QED
    BY <1>1, <2>1 DEF BuiltFromLogs, IsDrawn, IsIn
<1>4. RecordsAreMade' /\ EndsAreThere'
  BY <1>1 DEF IInv, RecordsAreMade, Made, EndsAreThere
<1>5. CASE ~build.sign
  <2>1. build' = NoBuild
    BY <1>5 DEF BuildWrites
  <2>2. TypeOK'
    BY <1>1, <2>1, IdleIsTyped DEF IInv, TypeOK
  <2>3. BuildReadsLogs'
    BY <2>1 DEF BuildReadsLogs, NoBuild
  <2>4. SignaturesAreBuilds'
    BY <1>1, <2>1 DEF IInv, SignaturesAreBuilds, NoBuild
  <2> QED
    BY <1>3, <1>4, <2>2, <2>3, <2>4 DEF IInv
<1>6. CASE build.sign
  <2>1. build' = [build EXCEPT !.phase = "sign"]
    BY <1>6 DEF BuildWrites
  <2>2. /\ build' \in BuildType /\ build'.phase = "sign" /\ build'.read = build.read
        /\ build'.hashes = build.hashes /\ build'.owed = build.owed
    BY <1>1, <2>1 DEF BuildType
  <2>3. TypeOK'
    BY <1>1, <2>2 DEF IInv, TypeOK
  <2>4. BuildReadsLogs'
    BY <1>1, <2>2 DEF IInv, BuildReadsLogs, IsIn
  <2>5. b \in built' /\ b.doc = doc /\ b.signed
    BY <1>1, <1>6
  <2>6. SignaturesAreBuilds'
    <3>1. doc = Assemble(build'.read, build'.hashes)
      BY <2>2
    <3> HIDE DEF b, doc
    <3> QED
      BY <1>1, <2>5, <3>1 DEF IInv, SignaturesAreBuilds
  <2> QED
    BY <1>3, <1>4, <2>3, <2>4, <2>6 DEF IInv
<1> QED
  BY <1>1, <1>5, <1>6 DEF BuildType

LEMMA BuildSignsKeepInv ==
  ASSUME IInv, BuildSigns
  PROVE  IInv'
<1>1. /\ build' = NoBuild /\ sig' = Assemble(build.read, build.hashes) /\ build.phase = "sign"
      /\ UNCHANGED <<clock, files, logs, tool, runs, ended, wrote, built>>
  BY DEF BuildSigns, Smooth, world, history
<1>2. TypeOK'
  BY <1>1, IdleIsTyped DEF IInv, TypeOK
<1>3. RecordsAreMade' /\ EndsAreThere'
  BY <1>1 DEF IInv, RecordsAreMade, Made, EndsAreThere
<1>4. BuildReadsLogs'
  BY <1>1 DEF BuildReadsLogs, NoBuild
<1>5. BuiltFromLogs'
  BY <1>1 DEF IInv, BuiltFromLogs, IsDrawn, IsIn
<1>6. SignaturesAreBuilds'
  BY <1>1 DEF IInv, SignaturesAreBuilds, NoBuild
<1> QED
  BY <1>2, <1>3, <1>4, <1>5, <1>6 DEF IInv

LEMMA StepInv == IInv /\ [Next]_vars => IInv'
<1> SUFFICES ASSUME IInv, [Next]_vars PROVE IInv'
  OBVIOUS
<1>1. CASE Tick \/ StepBack \/ Meddle \/ Relocate \/ Edit \/ Verify
  BY <1>1, WorldKeepsInv
<1>2. ASSUME NEW t \in Tools, Work(t) \/ Stamp(t) \/ AppendHead(t) \/ AppendEnd(t) \/ Kill(t)
      PROVE  IInv'
  BY <1>2, WorkKeepsInv, StampKeepsInv, AppendKeepsInv, KillKeepsInv
<1>3. CASE BuildBegins \/ BuildRefused \/ BuildFails
  <2>1. UNCHANGED <<clock, files, logs, tool, runs, ended, wrote, built>>
    BY <1>3 DEF BuildBegins, BuildRefused, BuildFails, Smooth, Mishap, world, history
  <2>2. sig' \in {sig, Scrap}
    BY <1>3 DEF BuildBegins, BuildRefused, BuildFails
  <2>3. CASE build' = NoBuild
    <3>1. /\ build' \in BuildType /\ build'.phase = "none" /\ build'.read = <<>> /\ build'.owed = {}
      BY <2>3, IdleIsTyped DEF NoBuild
    <3> QED
      BY <2>1, <2>2, <3>1, BuildStopsKeepInv
  <2>4. ASSUME NEW s \in BOOLEAN, build' = [NoBuild EXCEPT !.phase = "read", !.log = 1, !.sign = s]
        PROVE  IInv'
    <3>1. build' = Begun(s) /\ Begun(s) \in BuildType
      BY <2>4, BuildBegun, Zenon
    <3>2. /\ build' \in BuildType /\ build'.phase = "read" /\ build'.read = <<>> /\ build'.owed = {}
          /\ build'.log = 1
      BY <3>1 DEF Begun
    <3> QED
      BY <2>1, <2>2, <3>2, BuildStopsKeepInv
  <2> QED
    BY <1>3, <2>3, <2>4 DEF BuildBegins, BuildRefused, BuildFails
<1>4. CASE BuildReads
  BY <1>4, BuildReadsKeepInv
<1>5. CASE BuildHashes
  BY <1>5, BuildHashesKeepInv
<1>6. CASE BuildWrites
  BY <1>6, BuildWritesKeepInv
<1>7. CASE BuildSigns
  BY <1>7, BuildSignsKeepInv
<1>8. CASE UNCHANGED vars
  <2>1. clock' \in 0 .. MaxClock /\ files' \in [Places -> {None} \cup Contents]
    BY <1>8 DEF vars, IInv, TypeOK
  <2> QED
    BY <1>8, <2>1, OthersKeepInv DEF vars
<1> QED
  BY <1>1, <1>2, <1>3, <1>4, <1>5, <1>6, <1>7, <1>8 DEF Next

LEMMA InvHolds == Spec => []IInv
  BY InitInv, StepInv, PTL DEF Spec

-----------------------------------------------------------------------------
\* The theorems.

\* Every variable a tool, a build or a host writes keeps its kind of value.
THEOREM ReportTypes == Spec => []TypeOK
<1>1. IInv => TypeOK
  BY DEF IInv
<1> QED
  BY <1>1, InvHolds, PTL

\* build.rs: no record whose append had ended is left out, torn or interleaved
\* lines or not, and evidence hashed differently by two of its runs is named.
THEOREM NothingLeftOutHolds == Spec => []NothingLeftOut
<1>1. ASSUME IInv
      PROVE  NothingLeftOut
  <2> SUFFICES ASSUME NEW b \in built
               PROVE  /\ b.owed \subseteq {<<a.log, a.rec>> : a \in b.doc.commands}
                      /\ \A a, c \in b.doc.commands, e \in Evidence :
                           None # a.rec.seen[e] /\ a.rec.seen[e] # c.rec.seen[e] /\ c.rec.seen[e] # None
                           => <<e, "changed">> \in b.doc.warnings
    BY DEF NothingLeftOut
  <2>1. IsDrawn(b)
    BY <1>1 DEF IInv, BuiltFromLogs
  <2> DEFINE S == b.doc.commands
  <2>2. b.doc.warnings = Warnings(S)
    BY <2>1 DEF IsDrawn
  <2>3. ASSUME NEW a \in S, NEW c \in S, NEW e \in Evidence,
               None # a.rec.seen[e], a.rec.seen[e] # c.rec.seen[e], c.rec.seen[e] # None
        PROVE  <<e, "changed">> \in Warnings(S)
    <3> HIDE DEF S
    <3>1. a \in Hashed(S, e) /\ c \in Hashed(S, e)
      BY <2>3 DEF Hashed
    <3>2. a.rec.seen[e] # EvidenceOf(S)[e] \/ c.rec.seen[e] # EvidenceOf(S)[e]
      BY <2>3
    <3>3. e \in Changed(S)
      BY <3>1, <3>2 DEF Changed
    <3> QED
      BY <3>3 DEF Warnings
  <2> QED
    BY <2>1, <2>2, <2>3 DEF IsDrawn
<1> QED
  BY <1>1, InvHolds, PTL

\* What a report that a build wrote says of an output: it was hashed by the
\* command put last of those that wrote it, and that one is a run's.
LEMMA OutputIsLast ==
  ASSUME IInv, NEW b \in built, NEW p \in DOMAIN b.doc.outputs
  PROVE  /\ p \in Outputs
         /\ \E a \in Wrote(b.doc.commands, p) :
              /\ b.doc.outputs[p] = a.rec.digest /\ Made(a.rec)
              /\ \A c \in Wrote(b.doc.commands, p) \ {a} : Before(c, a)
<1> DEFINE S == b.doc.commands
           W == Wrote(S, p)
<1>1. IsDrawn(b)
  BY DEF IInv, BuiltFromLogs
<1>2. b.doc.outputs = OutputsOf(S) /\ AreIn(S)
  BY <1>1 DEF IsDrawn, AreIn
<1>3. p \in Outputs /\ W # {} /\ b.doc.outputs[p] = LastOf(W).rec.digest
  BY <1>2 DEF OutputsOf
<1>4. W \subseteq S
  BY DEF Wrote
<1>5. AreIn(W)
  BY <1>2, <1>4 DEF AreIn
<1> HIDE DEF W
<1>6. LastOf(W) \in W /\ \A c \in W \ {LastOf(W)} : Before(c, LastOf(W))
  BY <1>3, <1>5, LastOfIsLast DEF IInv
<1>7. Made(LastOf(W).rec)
  BY <1>5, <1>6 DEF AreIn, IsIn, IInv, RecordsAreMade
<1> QED
  BY <1>3, <1>6, <1>7 DEF W

\* build.rs: an output that fails against an unedited report is not what the
\* last run that wrote it left, or that run is missing from the report, or
\* another is after it in the report's order.
THEOREM AlarmsAreRealHolds == Spec => []AlarmsAreReal
<1>1. ASSUME IInv
      PROVE  AlarmsAreReal
  <2> SUFFICES ASSUME NEW b \in built, b.doc = report, NEW roots \in SUBSET Roots,
                      NEW p \in Failing(roots) \cap Outputs,
                      NEW last, last = wrote[p][Len(wrote[p])], files[Locate(p, "outputs" \in roots)] = last,
                      NEW a \in report.commands, a.rec.run = last
               PROVE  \E x \in {y \in report.commands : y.rec.run = last}, c \in report.commands :
                        c.rec.work.output = p /\ Before(x, c)
    BY DEF AlarmsAreReal
  <2>1. p \in DOMAIN report.outputs /\ files[Locate(p, "outputs" \in roots)] # report.outputs[p]
    BY PathsAssumption DEF Failing, Fails
  <2>2. PICK c \in Wrote(report.commands, p) :
          /\ report.outputs[p] = c.rec.digest /\ Made(c.rec)
          /\ \A x \in Wrote(report.commands, p) \ {c} : Before(x, c)
    BY <1>1, <2>1, OutputIsLast
  <2>3. c \in report.commands /\ c.rec.work.output = p
    BY <2>2 DEF Wrote
  <2>4. c.rec.run # last
    BY <2>1, <2>2 DEF Made, MadeBy
  <2>5. a.rec.work.output = p
    <3>1. Made(a.rec)
      BY <1>1 DEF IInv, BuiltFromLogs, IsDrawn, IsIn, RecordsAreMade
    <3>2. \E k \in DOMAIN wrote[p] : wrote[p][k] = c.rec.run
      BY <2>2, <2>3 DEF Made, MadeBy
    <3>3. wrote[p] \in Seq(1 .. MaxRuns)
      BY <1>1 DEF IInv, TypeOK
    <3>4. Len(wrote[p]) \in DOMAIN wrote[p]
      BY <3>2, <3>3
    <3> QED
      BY <3>1, <3>4 DEF Made, MadeBy
  <2>6. a \in Wrote(report.commands, p) /\ a # c
    BY <2>4, <2>5 DEF Wrote
  <2>7. Before(a, c)
    BY <2>2, <2>6
  <2> QED
    BY <2>3, <2>7
<1> QED
  BY <1>1, InvHolds, PTL

\* verify.rs: with the examiner's key, status 0 is of a report a build wrote and
\* signed, each of whose outputs is as a run that wrote it left it, and each piece
\* of whose evidence is as those that hashed it saw it, or is said to have changed.
THEOREM PassIsGenuineHolds == Spec => []PassIsGenuine
<1>1. ASSUME IInv
      PROVE  PassIsGenuine
  <2> SUFFICES ASSUME NEW roots \in SUBSET Roots, VerifyExit(TRUE, roots) = "0"
               PROVE  /\ \E b \in built : b.doc = report /\ b.signed
                      /\ \A p \in DOMAIN report.outputs :
                           \E a \in report.commands :
                             a.rec.work.output = p /\ files[Locate(p, "outputs" \in roots)] = a.rec.digest
                      /\ \A e \in Evidence :
                           LET its == Hashed(report.commands, e)
                               asSeen == {a \in its : files[Locate(e, "evidence" \in roots)] = a.rec.seen[e]}
                           IN  its # {} => asSeen = its \/ (asSeen # {} /\ <<e, "changed">> \in report.warnings)
    BY DEF PassIsGenuine
  <2>1. NoDoc # Scrap
    BY DEF NoDoc, Scrap
  <2>2. /\ report # NoDoc /\ report # Scrap /\ Failing(roots) = {} /\ SignatureHolds
    BY <2>1 DEF VerifyExit
  <2>3. PICK b \in built : b.doc = report /\ b.signed
    BY <1>1, <2>2 DEF SignatureHolds, IInv, SignaturesAreBuilds
  <2>4. IsDrawn(b) /\ report.kind = "report"
    BY <1>1, <2>3 DEF IInv, BuiltFromLogs, IsDrawn
  <2>5. ASSUME NEW p \in DOMAIN report.outputs
        PROVE  \E a \in report.commands :
                 a.rec.work.output = p /\ files[Locate(p, "outputs" \in roots)] = a.rec.digest
    <3>1. PICK a \in Wrote(report.commands, p) : report.outputs[p] = a.rec.digest /\ Made(a.rec)
      BY <1>1, <2>3, OutputIsLast
    <3>2. a \in report.commands /\ a.rec.work.output = p
      BY <3>1 DEF Wrote
    <3>3. a.rec.digest # None
      BY <1>1, <3>1 DEF Made, MadeBy, None, IInv, TypeOK
    <3>4. ~Fails(Locate(p, "outputs" \in roots), report.outputs[p])
      BY <2>2, <2>4 DEF Failing
    <3> QED
      BY <3>1, <3>2, <3>3, <3>4 DEF Fails
  <2>6. ASSUME NEW e \in Evidence, NEW its, its = Hashed(report.commands, e), its # {},
               NEW asSeen,
               asSeen = {a \in its : files[Locate(e, "evidence" \in roots)] = a.rec.seen[e]}
        PROVE  asSeen = its \/ (asSeen # {} /\ <<e, "changed">> \in report.warnings)
    <3> DEFINE first == FirstOf(its)
    <3>1. AreIn(its)
      BY <2>3, <2>4, <2>6 DEF AreIn, IsDrawn, Hashed
    <3>2. first \in its
      BY <1>1, <2>6, <3>1, FirstOfIsFirst DEF IInv
    <3>3. report.evidence[e] = first.rec.seen[e]
      BY <2>3, <2>4, <2>6 DEF IsDrawn, EvidenceOf
    <3> HIDE DEF first
    <3>4. first.rec.seen[e] # None
      BY <2>6, <3>2 DEF Hashed
    <3>5. first \in asSeen
      <4>1. ~Fails(Locate(e, "evidence" \in roots), report.evidence[e])
        BY <2>2, <2>4 DEF Failing
      <4> QED
        BY <2>6, <3>2, <3>3, <3>4, <4>1 DEF Fails
    <3>6. ASSUME NEW a \in its, a \notin asSeen
          PROVE  <<e, "changed">> \in report.warnings
      <4>1. a.rec.seen[e] # report.evidence[e]
        BY <2>6, <3>3, <3>5, <3>6
      <4>2. e \in Changed(report.commands)
        BY <2>3, <2>4, <2>6, <4>1 DEF Changed, IsDrawn
      <4> QED
        BY <2>3, <2>4, <4>2 DEF IsDrawn, Warnings
    <3> QED
      BY <2>6, <3>5, <3>6
  <2> QED
    BY <2>3, <2>5, <2>6
<1> QED
  BY <1>1, InvHolds, PTL

=============================================================================
