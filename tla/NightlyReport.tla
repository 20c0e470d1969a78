---------------------------- MODULE NightlyReport ----------------------------
(***************************************************************************)
(* What nightly-windows.yml does with the result files of a night:         *)
(* bc-test-results.py (step "Compare against issue #213"), the isolation   *)
(* probe's rows (isolation-probe-results.py), codeunit-coverage.py check,  *)
(* and the colour of the job.  The files are NightlyRun's; any of them may *)
(* be missing or torn.                                                     *)
(***************************************************************************)
EXTENDS Integers, FiniteSets, SequencesExt

CONSTANTS
  Suites,      \* the number of suites, in the order of the --xunit options
  Expected,    \* suite -> the test codeunits of its app
  Files,       \* suite -> its readable result files: sequences of assemblies
               \* with their rows <<test, result>>, "" for no result
  StopTest,    \* the test RunnerStop_NoResult
  RowLimit,    \* 100: rows of the failure table of the summary
  Baselines,   \* readable --baseline files: sets of keys
  Run,         \* the two runs of the isolation probe
  ProbeFiles,  \* readable result files of a probe run: test -> its result
  Fixture,     \* the [Test] procedures of the probe's fixture
  Absent, Torn \* a file that is missing, one that cannot be parsed

Suite == 1..Suites
Result == {"Pass", "Skip", "Fail", "Unknown"}
Row == [key : Nat \X Nat, result : Result]
Assembly == [codeunit : Nat, rows : Seq(Nat \X (Result \cup {""}))]

ASSUME BoundsType == Suites \in Nat /\ RowLimit \in Nat
(* RunnerStop of the run step writes a failed row *)
ASSUME FilesType ==
  \A s \in Suite : \A file \in Files[s] :
    /\ file \in Seq(Assembly)
    /\ \A i \in DOMAIN file : \A j \in DOMAIN file[i].rows :
         file[i].rows[j][1] = StopTest => file[i].rows[j][2] = "Fail"
ASSUME BaselinesType == Baselines \subseteq SUBSET (Nat \X Nat)
ASSUME ProbeFilesType ==
  \A file \in ProbeFiles : \A t \in DOMAIN file : file[t] \in Result

(* What bc-test-results.py tells of a night, and a baseline *)
Keys == SUBSET (Nat \X Nat)
Report ==
  [passed : Nat, failed : Nat, skipped : Nat, total : Nat,
   table : [rows : Seq(Row), more : Nat], baseline : Baselines \cup {Absent},
   history : [reproduced : Keys, passed : Keys, missing : Keys, new : Keys] \cup {Absent}]

(* No file is not a file, nor what is made from one *)
ASSUME NoFile ==
  /\ Absent # Torn
  /\ \A s \in Suite : Absent \notin Files[s] /\ Torn \notin Files[s]
  /\ Absent \notin Baselines /\ Absent \notin Seq(Row) /\ Absent \notin Report
  /\ Absent \notin ProbeFiles /\ Torn \notin ProbeFiles

Assemblies(file) == {file[i].codeunit : i \in DOMAIN file}

(* parse_xunit: one row per test of every assembly; no result is "Unknown" *)
Rows(file) ==
  FlattenSeq([i \in DOMAIN file |->
    [j \in DOMAIN file[i].rows |->
      [key |-> <<file[i].codeunit, file[i].rows[j][1]>>, result |-> IF file[i].rows[j][2] = "" THEN "Unknown" ELSE file[i].rows[j][2]]]])

(* What the run step leaves of a suite: a file, which has one failed row per *)
(* runner stop, or none or half of one when the loop threw or Save failed.   *)
(* A suite has three codeunits or more and three runner stops in a row end   *)
(* the run, so the stops that are written down are never all it has.         *)
Left(s) ==
  {[file |-> f, stops |-> {k[1] : k \in {t.key : t \in ToSet(Rows(f))} \cap (Nat \X {StopTest})}]
     : f \in Files[s]}
  \cup [file : {Absent, Torn}, stops : (SUBSET Expected[s]) \ {Expected[s]}]

(* suite-apps.txt names the suites that were begun, in their order: all of   *)
(* them after a run without a throw, none (no file) when the first has no    *)
(* app, and nothing is left of a suite that was not begun                    *)
NothingLeft == [file |-> Absent, stops |-> {}]
Night ==
  {n \in [left : [Suite -> UNION {Left(s) : s \in Suite}], listed : {1..k : k \in 0..Suites},
          run : {"success", "failure", "skipped"}] :
     /\ \A s \in Suite : n.left[s] \in (IF s \in n.listed THEN Left(s) ELSE {NothingLeft})
     /\ n.run = "success" => n.listed = Suite
     /\ n.run = "skipped" => n.listed = {}}

VARIABLES
  night,     \* what the run step left, and its outcome; fixed
  step,      \* "read", "lists", "render", "probe", "coverage", "over"
  next,      \* the file to read next
  tests,     \* the rows read so far, sorted from "lists" on
  lists,     \* all-tests.tsv, failures.tsv and results.json: their rows; Absent at first
  summary,   \* summary.md and the job summary; Absent at first
  probe,     \* probe run -> its file
  exit       \* step of the job -> its outcome, "none" until it ran

reportVars == <<night, step, next, tests, lists, summary, probe, exit>>

(* The failed rows, in their order *)
Failed(rows) ==
  LET upTo[n \in 0..Len(rows)] ==
        IF n = 0 THEN <<>>
        ELSE IF rows[n].result \in {"Pass", "Skip"} THEN upTo[n - 1]
        ELSE Append(upTo[n - 1], rows[n])
  IN  upTo[Len(rows)]

Counted(rows, result) == Cardinality({i \in DOMAIN rows : rows[i].result = result})
KeysOf(rows) == {rows[i].key : i \in DOMAIN rows}

ReportInit ==
  /\ night \in Night
  /\ step = "read" /\ next = 1 /\ tests = <<>>
  /\ lists = Absent /\ summary = Absent /\ probe = [r \in Run |-> Absent]
  /\ exit = [compare |-> "none", probe |-> "none", coverage |-> "none"]

-----------------------------------------------------------------------------
EndCompare(code) ==
  /\ step' = "probe"
  /\ exit' = [exit EXCEPT !.compare = code]

(* Mutant: an unreadable file is passed over like a missing one *)
ReadOn ==
  /\ step = "read"
  /\ next <= Suites
  /\ tests' = IF night.left[next].file \in Files[next] THEN tests \o Rows(night.left[next].file) ELSE tests
  /\ next' = next + 1
  /\ UNCHANGED <<night, step, lists, summary, probe, exit>>

(* One --xunit option: a missing file is a warning, a torn one the end *)
Read ==
  /\ step = "read"
  /\ next <= Suites
  /\ IF night.left[next].file = Torn THEN EndCompare("2") /\ UNCHANGED <<next, tests>>
     ELSE /\ tests' = IF night.left[next].file = Absent THEN tests
                      ELSE tests \o Rows(night.left[next].file)
          /\ next' = next + 1
          /\ UNCHANGED <<step, exit>>
  /\ UNCHANGED <<night, lists, summary, probe>>

(* By codeunit and test; rows of the same test stay in their order *)
Before(rows, i, j) ==
  LET k == rows[i].key
      l == rows[j].key
  IN  k[1] < l[1] \/ (k[1] = l[1] /\ (k[2] < l[2] \/ (k[2] = l[2] /\ i < j)))

Place(rows, i) == Cardinality({j \in DOMAIN rows : Before(rows, j, i)}) + 1

Sorted(rows) == [n \in DOMAIN rows |-> rows[CHOOSE i \in DOMAIN rows : Place(rows, i) = n]]

(* Zero tests refuse a verdict; else the lists are written, before anything *)
(* else is read                                                             *)
Lists ==
  /\ step = "read"
  /\ next > Suites
  /\ IF tests = <<>> THEN EndCompare("2") /\ UNCHANGED <<tests, lists>>
     ELSE /\ step' = "render"
          /\ tests' = Sorted(tests)
          /\ lists' = Sorted(tests)
          /\ UNCHANGED exit
  /\ UNCHANGED <<night, next, summary, probe>>

(* Mutant of Table: the last row gives way to the line "more" *)
TableOneShort(failed) ==
  IF Len(failed) <= RowLimit THEN [rows |-> failed, more |-> 0]
  ELSE [rows |-> SubSeq(failed, 1, RowLimit - 1), more |-> Len(failed) - RowLimit]

(* "Failed on THIS run", cut at RowLimit with a last line "... more" *)
Table(failed) ==
  [rows |-> SubSeq(failed, 1, IF Len(failed) < RowLimit THEN Len(failed) ELSE RowLimit),
   more |-> IF Len(failed) > RowLimit THEN Len(failed) - RowLimit ELSE 0]

(* Mutant of History: the last row of a test decides *)
HistoryByLast(baseline) ==
  LET all == KeysOf(tests)
      last(k) == tests[CHOOSE i \in DOMAIN tests :
                         tests[i].key = k /\ \A j \in i + 1..Len(tests) : tests[j].key # k]
      failed == {k \in all : last(k).result \notin {"Pass", "Skip"}}
  IN  [reproduced |-> baseline \cap failed,
       passed |-> baseline \cap (all \ failed),
       missing |-> baseline \ all,
       new |-> failed \ baseline]

(* The comparison with the baseline: failed_keys, all_keys and b_by_key *)
History(baseline) ==
  LET failed == KeysOf(Failed(tests))
      all == KeysOf(tests)
  IN  [reproduced |-> baseline \cap failed,
       passed |-> (baseline \cap all) \ failed,
       missing |-> baseline \ all,
       new |-> failed \ baseline]

(* The summary is written last, so json.loads of a torn environment or        *)
(* baseline raises before there is one                                        *)
Render ==
  /\ step = "render"
  /\ \E environment \in {"read", Absent, Torn}, baseline \in Baselines \cup {Absent, Torn} :
       IF Torn \in {environment, baseline} THEN EndCompare("raised") /\ UNCHANGED summary
       ELSE /\ summary' =
                 [passed |-> Counted(tests, "Pass"), failed |-> Len(Failed(tests)),
                  skipped |-> Counted(tests, "Skip"), total |-> Len(tests),
                  table |-> Table(Failed(tests)), baseline |-> baseline,
                  history |-> IF baseline = Absent THEN Absent ELSE History(baseline)]
            /\ EndCompare("0")
  /\ UNCHANGED <<night, next, tests, lists, probe>>

(* render_run: a run has a verdict when every test of the fixture has a row *)
HasVerdict(file) == file \in ProbeFiles /\ Fixture \subseteq DOMAIN file

(* Mutant: any run with a verdict will do *)
ProbeAnyRun ==
  /\ step = "probe"
  /\ step' = "coverage"
  /\ probe' \in [Run -> ProbeFiles \cup {Absent, Torn}]
  /\ exit' = [exit EXCEPT !.probe = IF \E r \in Run : HasVerdict(probe'[r]) THEN "0" ELSE "3"]
  /\ UNCHANGED <<night, next, tests, lists, summary>>

(* isolation-probe-results.py *)
Probe ==
  /\ step = "probe"
  /\ step' = "coverage"
  /\ probe' \in [Run -> ProbeFiles \cup {Absent, Torn}]
  /\ exit' = [exit EXCEPT !.probe = IF \A r \in Run : HasVerdict(probe'[r]) THEN "0" ELSE "3"]
  /\ UNCHANGED <<night, next, tests, lists, summary>>

(* Mutant: nothing is missing from a file that is not there *)
MissingIfPresent(s) ==
  IF night.left[s].file \notin Files[s] THEN {}
  ELSE Expected[s] \ (Assemblies(night.left[s].file) \cup night.left[s].stops)

(* codeunit-coverage.py check: reported_ids is {} for an unreadable file *)
Missing(s) ==
  LET reported == IF night.left[s].file \notin Files[s] THEN {}
                  ELSE Assemblies(night.left[s].file)
  IN  Expected[s] \ ((reported \ night.left[s].stops) \cup night.left[s].stops)

(* The step does not run when the run step did not.  It checks the suites    *)
(* that are listed, and throws when there is no list                         *)
Coverage ==
  /\ step = "coverage"
  /\ step' = "over"
  /\ exit' = [exit EXCEPT !.coverage =
       IF night.run = "skipped" THEN "skipped"
       ELSE IF night.listed # {} /\ \A s \in night.listed : Missing(s) = {} THEN "0" ELSE "1"]
  /\ UNCHANGED <<night, next, tests, lists, summary, probe>>

ReportNext == Read \/ Lists \/ Render \/ Probe \/ Coverage

ReportSpec == ReportInit /\ [][ReportNext]_reportVars

-----------------------------------------------------------------------------
(* The probe is continue-on-error *)
GreenNight ==
  step = "over" /\ night.run = "success" /\ exit.compare = "0" /\ exit.coverage = "0"

ReportTypeOK ==
  /\ night \in Night
  /\ step \in {"read", "render", "probe", "coverage", "over"}
  /\ next \in 1..Suites + 1
  /\ exit \in [compare : {"none", "0", "2", "raised"}, probe : {"none", "0", "3"},
               coverage : {"none", "0", "1", "skipped"}]
  /\ tests \in Seq(Row) /\ lists \in Seq(Row) \cup {Absent}
  /\ summary \in Report \cup {Absent}
  /\ probe \in [Run -> ProbeFiles \cup {Absent, Torn}]

(***************************************************************************)
(* A green night is a reported night: there is a summary, every expected   *)
(* codeunit is in a file it was made from, and every runner stop is among  *)
(* its failures.  Three scripts decide this, each with its own idea of a   *)
(* missing file (warning, end, no ids).                                    *)
(***************************************************************************)
GreenNightIsReported ==
  GreenNight =>
    /\ summary # Absent
    /\ \A s \in Suite :
         /\ night.left[s].file \in Files[s]
         /\ Expected[s] \subseteq Assemblies(night.left[s].file)
         /\ ToSet(Rows(night.left[s].file)) \subseteq ToSet(tests)
         /\ \A c \in night.left[s].stops : <<c, StopTest>> \in KeysOf(Failed(tests))

(***************************************************************************)
(* One unreadable file is never a report without it: what the summary and  *)
(* the lists count is all that any suite left behind.                      *)
(***************************************************************************)
NothingLeftOut ==
  summary # Absent \/ lists # Absent =>
    /\ \A s \in Suite : night.left[s].file # Torn
    /\ \A s \in Suite : night.left[s].file \in Files[s] =>
         \A t \in ToSet(Rows(night.left[s].file)) : t \in ToSet(tests)
    /\ tests # <<>>

(***************************************************************************)
(* What the docstring says of the report (bc-test-results.py:20, again at  *)
(* 152): it opens with this run's complete failure list, whose row count   *)
(* equals the headline failure count.  The cut at 173 makes it false.      *)
(***************************************************************************)
TableIsComplete ==
  summary # Absent => Len(summary.table.rows) = summary.failed

(***************************************************************************)
(* What the cut leaves of it.  No failure is dropped in silence: the       *)
(* headline counts the failures of failures.tsv, which is complete; the    *)
(* table is the beginning of that list, in its order; where it stops, the  *)
(* line "more" counts the rest; and every test is in one of the three      *)
(* counts of the headline, whatever its result says.                       *)
(***************************************************************************)
CutIsAnnounced ==
  summary # Absent =>
    /\ summary.failed = Len(Failed(lists))
    /\ summary.failed = Len(summary.table.rows) + summary.table.more
    /\ summary.passed + summary.failed + summary.skipped = summary.total
    /\ IsPrefix(summary.table.rows, Failed(lists))
    /\ summary.table.more > 0 => Len(summary.table.rows) = RowLimit

(***************************************************************************)
(* The history is not mistaken for this run: every failure is reproduced   *)
(* or new, every baseline entry is in one of its three tables, and none    *)
(* with a failing row is printed as passed, also when a file holds a test  *)
(* twice (NightlyRun: after a torn file it may).                           *)
(***************************************************************************)
HistoryAgrees ==
  summary # Absent /\ summary.baseline \in Baselines =>
    LET h == summary.history
        failed == KeysOf(Failed(lists))
    IN  /\ h.reproduced \cup h.new = failed
        /\ h.reproduced \cup h.passed \cup h.missing = summary.baseline
        /\ h.passed \subseteq KeysOf(lists) /\ h.missing \cap KeysOf(lists) = {}
        /\ h.passed \cap failed = {}

(***************************************************************************)
(* A verdict of the probe rests on both runs, every test of the fixture    *)
(* measured in each; a run that died is no run that found nothing.         *)
(***************************************************************************)
VerdictNeedsBothRuns ==
  exit.probe = "0" =>
    \A r \in Run, t \in Fixture :
      probe[r] \in ProbeFiles /\ probe[r][t] \in Result
-----------------------------------------------------------------------------
(* The inductive invariant.  The files before the next one were readable or *)
(* missing, and their rows are among the tests; the lists are the tests, of *)
(* all suites; the summary is what Render makes of them; the outcomes of    *)
(* the later steps are what they looked at.                                 *)
Gathered ==
  \A s \in Suite : s < next =>
    /\ night.left[s].file # Torn
    /\ night.left[s].file \in Files[s] =>
         ToSet(Rows(night.left[s].file)) \subseteq ToSet(tests)
Listed ==
  /\ step = "read" => lists = Absent
  /\ step = "render" => lists # Absent
  /\ lists # Absent => next = Suites + 1 /\ tests # <<>> /\ lists = tests
Summed ==
  /\ exit.compare = "0" => summary # Absent
  /\ summary # Absent =>
       /\ lists # Absent
       /\ summary.passed = Counted(tests, "Pass") /\ summary.failed = Len(Failed(tests))
       /\ summary.skipped = Counted(tests, "Skip") /\ summary.total = Len(tests)
       /\ summary.table = Table(Failed(tests))
       /\ summary.baseline \in Baselines => summary.history = History(summary.baseline)
Judged ==
  /\ exit.probe = "0" => \A r \in Run : HasVerdict(probe[r])
  /\ exit.coverage = "0" => \A s \in night.listed : Missing(s) = {}
ReportIInv == ReportTypeOK /\ Gathered /\ Listed /\ Summed /\ Judged
=============================================================================
