---------------------------- MODULE EvidenceReport ----------------------------
(***************************************************************************)
(* The chain from a run to a verdict: tools append records to evidence     *)
(* logs, `zvolreport build` makes one report of several logs and may sign  *)
(* it, `zvolreport verify` compares files, report and signature.           *)
(*                                                                         *)
(* Tools run beside each other and may be killed in any write, the clock   *)
(* that stamps records may be set back, files and reports may be changed   *)
(* by anyone.                                                              *)
(*                                                                         *)
(* Simplifications:                                                        *)
(*  - a file is one value and a digest is that value; SHA-1 and MD5 are    *)
(*    checked as the SHA-256 is;                                           *)
(*  - the record is the run's number, time, files and remarks (the ends of *)
(*    `result` a report draws on); cases, notes, layout are left out;      *)
(*  - a signature is the key and the bytes it was made over;               *)
(*  - verify reads the report and the files in one step.                   *)
(***************************************************************************)
EXTENDS Naturals, Sequences, FiniteSets

CONSTANTS
  Evidence,     \* pieces of evidence
  Outputs,      \* paths the runs write to
  Base,         \* Base[p]: the file name of p, with the root it is looked for under
  NLogs,        \* evidence logs
  Tools,        \* runs at one time
  Works,        \* what a run may do
  MaxRuns,      \* bound: records ever made
  MaxBuilds,    \* bound: builds
  MaxClock,     \* bound: the clock
  MaxTrouble    \* bound: kills, clock steps, changes by others, failed writes

None == 0
Contents == 1 .. MaxRuns + 1  \* what run n writes is n, other contents are others'
Logs == 1 .. NLogs
Paths == Evidence \cup Outputs
\* Where a path is looked for: as recorded, with its directories under the
\* root of its kind, or by its file name there
Places == Paths \X {"recorded", "joined"} \cup {Base[p] : p \in Paths} \X {"named"}
Here(p) == <<p, "recorded">>

\* hashes: --hash-inputs; remarks: what a reader should be told (R-06)
WorkType == [output : Outputs \cup {None}, hashes : BOOLEAN, remarks : SUBSET {"status", "aborted", "zeroed", "device"}]

ASSUME SizesAssumption ==
  /\ NLogs \in Nat \ {0} /\ MaxRuns \in Nat /\ MaxBuilds \in Nat
  /\ MaxClock \in Nat /\ MaxTrouble \in Nat
ASSUME PathsAssumption == Evidence \cap Outputs = {} /\ None \notin Outputs
ASSUME WorksAssumption == \A w \in Works : w \in WorkType

VARIABLES
  clock,    \* the hosts' clock
  files,    \* place -> contents, None where there is no file
  logs,     \* log -> what is in it, in the order it was written
  tool,     \* the runs in progress
  runs,     \* records made so far
  builds,   \* builds begun so far
  build,    \* a build in progress
  report,   \* report.json
  sig,      \* report.json.sig
  verdict,  \* of the last verify
  trouble,  \* what went wrong so far
  \* history
  ended,    \* the records whose append ended: <<log, record>>
  wrote,    \* output -> the runs that wrote it, in that order
  built     \* the documents builds wrote, and what the logs held for each

vars == <<clock, files, logs, tool, runs, builds, build, report, sig, verdict, trouble, ended, wrote, built>>
history == <<ended, wrote, built>>
world == <<clock, files>>
paper == <<builds, build, report, sig, verdict>>

-----------------------------------------------------------------------------
(* Evidence logs                                                           *)

\* A record reaches the file in several writes: the JSON up to somewhere, its
\* end with the newline -- or without, where a run is killed
Piece(part, rec) == [part |-> part, rec |-> rec]

\* read_log: the lines of a log, by where each starts
LineStarts(log) == {i \in 1 .. Len(log) : i = 1 \/ log[i - 1].part = "end"}
LineEnd(log, s) ==
  CHOOSE e \in s .. Len(log) :
    /\ e = Len(log) \/ log[e].part = "end"
    /\ \A i \in s .. e - 1 : log[i].part # "end"
Line(log, s) == SubSeq(log, s, LineEnd(log, s))
Parses(line) ==
  /\ Len(line) = 2 /\ line[1].part = "head" /\ line[2].part # "head"
  /\ line[1].rec = line[2].rec
ReadableAlways(log) == TRUE  \* mutant: a line that does not parse is skipped
Readable(log) == \A s \in LineStarts(log) : Parses(Line(log, s))
Records(log) == {[line |-> s, rec |-> log[s].rec] : s \in {s \in LineStarts(log) : Parses(Line(log, s))}}

-----------------------------------------------------------------------------
(* The report                                                              *)

NoDoc == [kind |-> "none", logs |-> <<>>, commands |-> {}, evidence |-> <<>>, outputs |-> <<>>, warnings |-> {}]
Scrap == [NoDoc EXCEPT !.kind = "text"]

\* assemble: by time, then by the log on the command line, then by line
Before(a, b) ==
  \/ a.rec.ts < b.rec.ts
  \/ a.rec.ts = b.rec.ts /\ (a.log < b.log \/ (a.log = b.log /\ a.line < b.line))
FirstOf(S) == CHOOSE a \in S : \A b \in S \ {a} : Before(a, b)
LastOf(S) == CHOOSE a \in S : \A b \in S \ {a} : Before(b, a)

Hashed(S, e) == {a \in S : a.rec.seen[e] # None}
Wrote(S, p) == {a \in S : a.rec.work.output = p}

\* The hash recorded first is kept and later ones are held against it
EvidenceOf(S) == [e \in Evidence |-> IF Hashed(S, e) = {} THEN None ELSE FirstOf(Hashed(S, e)).rec.seen[e]]
Changed(S) == {e \in Evidence : \E a \in Hashed(S, e) : a.rec.seen[e] # EvidenceOf(S)[e]}

\* A file written more than once keeps the last hash
OutputsOfFirst(S) ==  \* mutant: the first hash of a file is kept
  [p \in {p \in Outputs : Wrote(S, p) # {}} |-> FirstOf(Wrote(S, p)).rec.digest]
OutputsOf(S) == [p \in {p \in Outputs : Wrote(S, p) # {}} |-> LastOf(Wrote(S, p)).rec.digest]

Warnings(S) ==
  {<<e, "changed">> : e \in Changed(S)}
    \cup UNION {{<<a.rec.run, r>> : r \in a.rec.work.remarks} : a \in S}

Assemble(read, hashes) ==
  LET S == UNION {{[log |-> l, line |-> x.line, rec |-> x.rec] : x \in read[l]} : l \in DOMAIN read}
  IN  [kind |-> "report", logs |-> hashes, commands |-> S, evidence |-> EvidenceOf(S),
       outputs |-> OutputsOf(S), warnings |-> Warnings(S)]

NoBuild == [phase |-> "none", log |-> 0, read |-> <<>>, hashes |-> <<>>, sign |-> FALSE, owed |-> {}]

-----------------------------------------------------------------------------
NoWork == [output |-> None, hashes |-> FALSE, remarks |-> {}]
NoRec == [run |-> 0, ts |-> 0, work |-> NoWork, seen |-> [e \in Evidence |-> None], digest |-> None]
Idle == [phase |-> "idle", rec |-> NoRec, log |-> 1]

\* There may be an earlier report, signed, of the empty logs
Init ==
  /\ clock = 0
  /\ files = [q \in Places |-> IF q \in {Here(e) : e \in Evidence} THEN 1 ELSE None]
  /\ logs = [l \in Logs |-> <<>>] /\ tool = [t \in Tools |-> Idle] /\ runs = 0 /\ builds = 0
  /\ build = NoBuild /\ verdict = "none"
  /\ trouble = 0 /\ ended = {} /\ wrote = [p \in Outputs |-> <<>>]
  /\ \/ report = NoDoc /\ sig = NoDoc /\ built = {}
     \/ /\ report = Assemble([l \in Logs |-> {}], [l \in Logs |-> 0]) /\ sig = report
        /\ built = {[doc |-> report, owed |-> {}, signed |-> TRUE]}

\* Something goes wrong, or as it should; a verdict ends the story
Mishap == verdict = "none" /\ trouble < MaxTrouble /\ trouble' = trouble + 1
Smooth == verdict = "none" /\ UNCHANGED trouble

\* Only a stamp reads the clock: after the last one it need not go on
StampToCome == runs < MaxRuns \/ \E t \in Tools : tool[t].phase = "worked"
Tick == StampToCome /\ clock < MaxClock /\ clock' = clock + 1 /\ Smooth
        /\ UNCHANGED <<files, logs, tool, runs, paper, history>>
StepBack == StampToCome /\ clock > 0 /\ clock' = clock - 1 /\ Mishap
            /\ UNCHANGED <<files, logs, tool, runs, paper, history>>

-----------------------------------------------------------------------------
(* A run of a tool, as its record sees it                                  *)

\* The output is written and hashed on the way
Work(t) ==
  /\ tool[t].phase = "idle" /\ runs < MaxRuns /\ runs' = runs + 1
  /\ \E w \in Works, l \in Logs :
       /\ tool' = [tool EXCEPT ![t] = [Idle EXCEPT !.phase = "worked", !.log = l,
                         !.rec = [NoRec EXCEPT !.run = runs + 1, !.work = w, !.digest = runs + 1]]]
       /\ IF w.output = None THEN UNCHANGED <<files, wrote>>
          ELSE /\ files' = [files EXCEPT ![Here(w.output)] = runs + 1]
               /\ wrote' = [wrote EXCEPT ![w.output] = Append(@, runs + 1)]
  /\ Smooth /\ UNCHANGED <<clock, logs, paper, ended, built>>

\* Record::new and its with_inputs: stamped, and the evidence hashed, at the end
Stamp(t) ==
  /\ tool[t].phase = "worked"
  /\ LET hashes == tool[t].rec.work.hashes
         seen == [e \in Evidence |-> IF hashes THEN files[Here(e)] ELSE None]
     IN  tool' = [tool EXCEPT ![t].phase = "append", ![t].rec.ts = clock, ![t].rec.seen = seen]
  /\ Smooth /\ UNCHANGED <<world, logs, runs, paper, history>>

\* append
AppendHead(t) ==
  /\ tool[t].phase = "append"
  /\ logs' = [logs EXCEPT ![tool[t].log] = Append(@, Piece("head", tool[t].rec))]
  /\ tool' = [tool EXCEPT ![t].phase = "appending"]
  /\ Smooth /\ UNCHANGED <<world, runs, paper, history>>

AppendEnd(t) ==
  /\ tool[t].phase = "appending"
  /\ logs' = [logs EXCEPT ![tool[t].log] = Append(@, Piece("end", tool[t].rec))]
  /\ tool' = [tool EXCEPT ![t] = Idle] /\ ended' = ended \cup {<<tool[t].log, tool[t].rec>>}
  /\ Smooth /\ UNCHANGED <<world, runs, paper, wrote, built>>

\* Killed, or the disk with the log is full
Kill(t) ==
  /\ tool[t].phase # "idle" /\ Mishap
  /\ tool' = [tool EXCEPT ![t] = Idle]
  /\ \/ UNCHANGED logs
     \/ /\ tool[t].phase = "appending"
        /\ logs' = [logs EXCEPT ![tool[t].log] = Append(@, Piece("cut", tool[t].rec))]
  /\ UNCHANGED <<world, runs, paper, history>>

Quiet == build = NoBuild /\ \A t \in Tools : tool[t] = Idle

\* Someone changes or removes a file where it was recorded, before or after it is copied, or puts
\* there what a run wrote
Meddle ==
  /\ \E p \in Paths : \E c \in ({None, MaxRuns + 1} \cup 1 .. runs) \ {files[Here(p)]} :
       files' = [files EXCEPT ![Here(p)] = c]
  /\ Mishap /\ UNCHANGED <<clock, logs, tool, runs, paper, history>>

\* After the last run evidence and outputs are copied, once, to where the report is checked: with
\* their directories, or all of a kind into one, where one of two with one name is left
Relocate ==
  /\ report # NoDoc /\ Quiet /\ runs = MaxRuns
  /\ \A q \in Places : q[2] # "recorded" => files[q] = None
  /\ \/ files' = [q \in Places |-> IF q[2] = "joined" THEN files[Here(q[1])] ELSE files[q]]
     \/ \E left \in [{Base[p] : p \in Paths} -> Paths] :
          /\ \A n \in DOMAIN left : Base[left[n]] = n
          /\ files' = [q \in Places |-> IF q[2] = "named" THEN files[Here(left[q[1]])] ELSE files[q]]
  /\ files' # files
  /\ Smooth /\ UNCHANGED <<clock, logs, tool, runs, paper, history>>

-----------------------------------------------------------------------------
(* zvolreport build                                                        *)

BuildBegins ==
  /\ build.phase = "none" /\ builds < MaxBuilds /\ builds' = builds + 1
  /\ \E sign \in BOOLEAN : build' = [NoBuild EXCEPT !.phase = "read", !.log = 1, !.sign = sign]
  /\ Smooth /\ UNCHANGED <<world, logs, tool, runs, report, sig, verdict, history>>

\* The log is read, and read again for its hash; one line that does not parse
\* refuses it
BuildReads ==
  /\ build.phase = "read" /\ Readable(logs[build.log])
  /\ build' = [build EXCEPT !.phase = "hash", !.read = Append(@, Records(logs[build.log])),
                            !.owed = @ \cup {x \in ended : x[1] = build.log}]
  /\ Smooth /\ UNCHANGED <<world, logs, tool, runs, builds, report, sig, verdict, history>>

BuildHashes ==
  /\ build.phase = "hash"
  /\ build' = [build EXCEPT !.hashes = Append(@, Len(logs[build.log])),
                            !.log = IF @ < NLogs THEN @ + 1 ELSE @,
                            !.phase = IF build.log < NLogs THEN "read" ELSE "write"]
  /\ Smooth /\ UNCHANGED <<world, logs, tool, runs, builds, report, sig, verdict, history>>

BuildRefused ==
  /\ build.phase = "read" /\ ~Readable(logs[build.log])
  /\ build' = NoBuild
  /\ Smooth /\ UNCHANGED <<world, logs, tool, runs, builds, report, sig, verdict, history>>

BuildWrites ==
  /\ build.phase = "write"
  /\ LET doc == Assemble(build.read, build.hashes)
     IN  report' = doc /\ built' = built \cup {[doc |-> doc, owed |-> build.owed, signed |-> build.sign]}
  /\ build' = IF build.sign THEN [build EXCEPT !.phase = "sign"] ELSE NoBuild
  /\ Smooth /\ UNCHANGED <<world, logs, tool, runs, builds, sig, verdict, ended, wrote>>

\* The signature is over the bytes that were to be written
BuildSigns ==
  /\ build.phase = "sign"
  /\ sig' = Assemble(build.read, build.hashes) /\ build' = NoBuild
  /\ Smooth /\ UNCHANGED <<world, logs, tool, runs, builds, report, verdict, history>>

\* A write fails or the build is killed: the report may be cut short, and a
\* signature of an earlier report stays
BuildFails ==
  /\ build.phase \in {"write", "sign"} /\ Mishap
  /\ IF build.phase = "write" THEN report' \in {report, Scrap} /\ UNCHANGED sig
     ELSE sig' \in {sig, Scrap} /\ UNCHANGED report
  /\ build' = NoBuild
  /\ UNCHANGED <<world, logs, tool, runs, builds, verdict, history>>

\* Someone edits the report: an output's hash, or anything that breaks it
Edit ==
  /\ report # NoDoc /\ Mishap
  /\ \/ report' = Scrap
     \/ /\ report.kind = "report"
        /\ \E p \in DOMAIN report.outputs : \E c \in Contents \ {report.outputs[p]} :
             report' = [report EXCEPT !.outputs[p] = c]
  /\ UNCHANGED <<world, logs, tool, runs, builds, build, sig, verdict, history>>

-----------------------------------------------------------------------------
(* zvolreport verify                                                       *)

\* locate
Locate(p, root) ==
  IF ~root THEN Here(p)
  ELSE IF files[<<p, "joined">>] # None THEN <<p, "joined">> ELSE <<Base[p], "named">>

\* check: a file that changed, or is not there
Fails(place, recorded) == recorded # None /\ files[place] # recorded

\* sign::check, over the bytes of the report
SignatureHolds == sig # NoDoc /\ sig = report

Roots == {"evidence", "outputs"}  \* --evidence-root and --outputs-root, where given

FailingOutputsOnly(roots) ==  \* mutant: the evidence is not looked at
  IF report.kind # "report" THEN {}
  ELSE {p \in DOMAIN report.outputs : Fails(Locate(p, "outputs" \in roots), report.outputs[p])}
Failing(roots) ==
  IF report.kind # "report" THEN {}
  ELSE {e \in Evidence : Fails(Locate(e, "evidence" \in roots), report.evidence[e])}
         \cup {p \in DOMAIN report.outputs : Fails(Locate(p, "outputs" \in roots), report.outputs[p])}

VerifyExit(key, roots) ==
  CASE report = NoDoc -> "EVIDENCE"
    [] report = Scrap -> IF key /\ ~SignatureHolds THEN "PARTIAL" ELSE "EVIDENCE"
    [] OTHER -> IF Failing(roots) # {} \/ (key /\ ~SignatureHolds) THEN "PARTIAL" ELSE "0"

\* When nothing runs, and then nothing more does; the properties speak of VerifyExit in every state
Verify ==
  /\ Quiet
  /\ \/ verdict = "none" /\ \E key \in BOOLEAN, roots \in SUBSET Roots : verdict' = VerifyExit(key, roots)
     \/ verdict # "none" /\ UNCHANGED verdict
  /\ UNCHANGED <<world, logs, tool, runs, builds, build, report, sig, trouble, history>>

-----------------------------------------------------------------------------
Next ==
  \/ Tick \/ StepBack \/ Meddle \/ Relocate
  \/ \E t \in Tools : Work(t) \/ Stamp(t) \/ AppendHead(t) \/ AppendEnd(t) \/ Kill(t)
  \/ BuildBegins \/ BuildReads \/ BuildHashes \/ BuildRefused \/ BuildWrites \/ BuildSigns \/ BuildFails
  \/ Edit \/ Verify

Spec == Init /\ [][Next]_vars

-----------------------------------------------------------------------------
(* Properties                                                              *)

\* R-01: a report leaves out no record that was whole in the logs when they
\* were read, whatever was torn or interleaved beside it, and where two of
\* its runs hashed one piece of evidence differently it says so, whichever
\* came first and however many did not hash it.
NothingLeftOut ==
  \A b \in built :
    /\ b.owed \subseteq {<<a.log, a.rec>> : a \in b.doc.commands}
    /\ \A a, c \in b.doc.commands, e \in Evidence :
         None # a.rec.seen[e] /\ a.rec.seen[e] # c.rec.seen[e] /\ c.rec.seen[e] # None
         => <<e, "changed">> \in b.doc.warnings

\* build.rs:143: the last hash is what is on disk now.  An output that fails
\* against a report as it was built is not what the last run wrote, or that
\* run is not in the report, or the report's order puts another run after it
\* (the clock was set back, two records share a second, or two runs at a time
\* wrote it).
AlarmsAreReal ==
  (\E b \in built : b.doc = report) =>
    \A roots \in SUBSET Roots : \A p \in Failing(roots) \cap Outputs :
      LET last == wrote[p][Len(wrote[p])]
          its == {a \in report.commands : a.rec.run = last}
      IN  \/ files[Locate(p, "outputs" \in roots)] # last
          \/ its = {}
          \/ \E a \in its, b \in report.commands : b.rec.work.output = p /\ Before(a, b)

\* With the examiner's key, 0 means: this report is one that a build wrote
\* and signed, byte for byte; each output it has a hash of is there with the
\* contents a run recorded under that path; and each piece of evidence some
\* run hashed is there as every run that hashed it saw it, or, where the
\* report says that it changed, as one of them did -- wherever the roots the
\* examiner gave lead.
PassIsGenuine ==
  \A roots \in SUBSET Roots :
    VerifyExit(TRUE, roots) = "0" =>
      /\ \E b \in built : b.doc = report /\ b.signed
      /\ \A p \in DOMAIN report.outputs :
           \E a \in report.commands :
             a.rec.work.output = p /\ files[Locate(p, "outputs" \in roots)] = a.rec.digest
      /\ \A e \in Evidence :
           LET its == Hashed(report.commands, e)
               asSeen == {a \in its : files[Locate(e, "evidence" \in roots)] = a.rec.seen[e]}
           IN  its # {} => asSeen = its \/ (asSeen # {} /\ <<e, "changed">> \in report.warnings)
=============================================================================
