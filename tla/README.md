# Verification of the corpus' selection, gate and nightly programs

The repository is a corpus of AL test codeunits that a Business Central (BC) server runs. The tests describe
Microsoft's runtime, which is not in the repository. What is in it, and is specified here, is the program
around the corpus: which tests a pull request runs, whether two pull requests may use one object id, how the
nightly gets through some 2500 test codeunits with a test runner that stops anywhere, and when each of these
may say "green". All of them answer a question by *omission* (a test that is not run, an id that nobody
claims, a result that is not merged), so a mistake looks like success. The properties below are about that.

Paths are relative to `src/`. `PROJECT.json` has, for every definition, the lines it stands for, every run
with its properties, a mutant per property (a plausible mistake in the code that the property notices), and
the hazards with the properties that cover them.

## 1. Inventory

| Part | Code | State | Operations | Status |
|---|---|---|---|---|
| Reference closure | `.github/scripts/select-tests.py` `Graph` 687-779 | parsed objects, name index, publisher index, memo of user counts; per call two work lists, the keys looked up, the objects reached and how, the escapes | `closure`, `fires`, `user_count` | modelled |
| Selection | same, `select` 412-590, path rules 58-67, range edits 309-402, outputs 838-953 | changed files, seeds, reasons for a full run, codeunits per app | path rules, seeds of every file, following the seeds, entries, fallbacks | modelled |
| Given selection | same, `parse_given`, `given` 609-684 | the input, entries per app | parse, check, pick | modelled |
| AL scanner, ci.yml reader, git access | same, 80-350 | none between calls | text to objects, tokens, ranges | not modelled |
| Object id gate | `check-object-ids.py`, `check-cross-pr-object-ids.py`, `ci.yml` 118-176 | what a run has read: merge tree, ids of master, open list, heads, claims | check the tree and its idRanges, read master, list, fetch, compare | modelled |
| Pull request pipeline | `ci.yml` 178-262 and the jobs below | label, base, subset, ranges of the legs | prepare, legs, re-runs, cancel | partly (the compile jobs and the test workflow are elsewhere) |
| Nightly run loop | `.github/workflows/nightly-windows.yml` 773-931, 1016-1037, `codeunit-coverage.py` | done, runner stops, chunk size, calls, merged results, saved files | one call of the runner, merge, halve, save, coverage | modelled |
| Range filter | same workflow, `ConvertTo-RangeFilter` 802-814 | open range, closed ranges | one id | modelled |
| Nightly gate | same workflow 98-203 | none; reads the age of the head of master | run or skip | partly (the schedule; a dispatch or a label always runs) |
| Nightly set-up | same workflow, the steps before | a container | external commands | not modelled |
| Nightly report | `bc-test-results.py`, `.github/expected-failures` | lists of results | read, sort, count, cut, compare with the baseline | modelled |
| Isolation probe | `isolation-probe-results.py` | two result files | compare | partly (the verdict; the two runs are calls of the test runner) |
| Developer test runner | `tests/al-language/run-bc-tests.py` | per codeunit attempt and status; counts; on the server: runs and log | create, trigger, poll, read the log, retry, count | modelled |
| Must-not-compile check | `check-must-not-compile.py` | recorded, reported and matched diagnostics; verdicts | open a case, compile, match, judge, exit | modelled |
| SingleInstance owners | `check-singleinstance-fixture-owners.py` | who refers to whom; per search the names seen and the stack; the owners | search, verdict; then a session | modelled |
| Install triggers, surface tools, self-tests | other scripts | none | one pass over text | not modelled |
| AL corpus, fixture apps, key helper | `tests/`, `.github/nightly-windows/` | BC's | BC's | not modelled |

How they interact. `ci.yml` runs the object id gate first; `prepare` depends on it and calls the selection;
each test job reads its app's entry of the selection, or runs its whole range when there is no entry or an
empty one. The nightly runs everything, in chunks; the range filter makes each chunk an argument of the
external runner; the coverage check decides on the merged files, the report prints them. Nothing is shared in
memory: the parts communicate by step outputs, environment variables, files, and the state of git and of
GitHub, which other people change at the same time.

What is hard in each, and what makes it correct:

* **Closure.** Two lists feed each other, are filled from Python sets whose order changes from run to run, and
  go around cycles of names and of events. Correct: it ends, and whatever the order, it reports exactly the
  least set closed under "names" and "is run by an event of", every escape from it, and reasons that are true.
* **Selection.** The change exists in two trees, and what depended on a removed or renamed object is seen only
  from the old one. It has many ways to fail. Correct: every test the change can reach runs; a subset is
  chosen only when the effect is confined to the tests that reach it; no leg gets a list that amounts to
  nothing.
* **Object id gate.** Four reads at four moments against people who push, close, reopen, re-run and merge.
  Correct: two rivals are never both green, unless a page of the list was missed; what a green one adds is
  allowed.
* **Nightly.** The runner's answer may be missing, partial, torn, or about other codeunits. Correct: green
  means complete; nothing counts twice; the number of calls is bounded; there is always a verdict.
* **Given selection and pipeline.** Any command of `prepare` may fail, labels come and go, legs are re-run
  alone or with everything. Correct: a green run ran what its event asks for, under one selection; no leg is
  emptied or widened.
* **Nightly gate.** It asks how old the head is, not what was measured. Correct, while the window covers the
  delays of a night: every commit is measured, and a quiet master is not measured for ever.
* **Report.** Three scripts read the same files, each with its own idea of a missing one. Correct: a green
  night is a reported night; headline, table, history and baseline agree.
* **Must-not-compile.** Recorded and reported diagnostics are two lists in different orders, matched greedily.
  Correct: "ok" is an exact match of multisets; exit 0 is about every case of this version.
* **SingleInstance.** What the corpus must not depend on is the order of its test codeunits in one session.
  Correct: after a passing check no order matters, and a failing one is right.
* **Developer runner.** Threads, retries, time limits and lost answers against a server that goes on by
  itself. Correct: exit code 0 means that everything passed; the script ends.

## 2. Modules

| Module | Models | Uses |
|---|---|---|
| `ReferenceGraph` | the graph as a value: who names, publishes and subscribes; `LeastClosed`, the reference definition of "affected" | |
| `AffectedSet` | what a closure call promises: one atomic answer | `ReferenceGraph` |
| `Closure` | `Graph.closure`, one action per turn of either inner loop; implements `AffectedSet` | `ReferenceGraph`, `AffectedSet` |
| `Selection` | `select()` with the range rule of the legs | `ReferenceGraph` |
| `ObjectIdGate` | the `object-ids` job of any number of pull requests among what people do | |
| `Night` | what a night promises: at most one outcome per codeunit, published per suite, green about all of them | |
| `NightlyRun` | the chunk loop, the saved files, the coverage step; implements `Night` | `Night` |
| `RangeFilter` | `ConvertTo-RangeFilter` | |
| `ChunkedRun` | the loop around a call: the chunk, its filter, the runner that applies or ignores it | `NightlyRun`, `RangeFilter` |
| `TestPool` | the worker pool of `run-bc-tests.py` and the server | |
| `Pipeline` | `prepare` and the legs of `ci.yml`, with `given()` and `parse_given()` | |
| `NightlyReport` | what the steps after the run make of its files: lists, summary, probe, coverage | |
| `NightlyGate` | the schedule, the gate job and the job behind it, in discrete time | |
| `MustNotCompile` | `check-must-not-compile.py` and a compiler that reports anything | |
| `SingleInstance` | `check-singleinstance-fixture-owners.py`, then a session of the server | |
| `MC...` | instances for TLC | the module of that name; `MCNightlyRun` uses `ChunkedRun`, `MCChecks` uses `MustNotCompile` and `SingleInstance` |
| `ReferenceGraphProofs`, `ClosureProofs`, `SelectionProofs`, `ObjectIdGateProofs`, `TestPoolProofs` | theorems | the module of that name |
| `NightlyProofs` | theorems | `ChunkedRun`, `NightlyGate` |
| `CheckProofs` | theorems | `MustNotCompile`, `SingleInstance` |
| `WorkflowProofs` | theorems | `Pipeline`, `NightlyReport` |

Where one module of theorems is about several components, their specifications carry the component's name:
`GateSpec`, `ChunkedSpec`, `OwnersSpec`, `ReportSpec`, and the same for types, initial states and invariants.

Operators named `...` plus a mistake (`FollowKeyOnce`, `ReadLogOfErrors`) and introduced as "Mutant" are not
part of any specification; they are the mistakes that the properties are tried on.

### Closure
`todo`, `work`, `seen`, `reached` and `escapes` are the variables of `closure()` under their names; `loop` is
the place in the code, `call` its arguments with the graph. `SkipKey`, `FollowKey`, `KeysDone` are the turns
and the exit of `while todo`, `FollowObject` and `ObjectsDone` those of the loop over `work`. The lists are
sets from which any entry may be taken, which covers every order that Python can produce. `fires()` is
`FiredBy` and `FiresAnywhere`; its three outcomes (nobody, publishers, anywhere) depend on what an
`[EventSubscriber]` can be resolved to, which `unconfined` and `publishes` keep apart. `user_count()` is a
memo over data that does not change: the field `users`, and `MemoRight` says that it holds what a call without
events would answer; the run and the theorems are over graphs with that property.

### Selection
A `World` is what git and the scanner hand to `select()`: for each changed file what its path says (`is`), its
objects in the head tree, the base versions that differ, the graph of the head tree, and `ci.yml` in both
trees as a list of lines. `EditedRanges`, `NeedsFullRun`, `Ignored` and `Relevant` are the branches of the
rule chain at 444-462, which excludes each by the ones before it; `RangeEdit` is `ci_range_edit`. `Rules` is
the part before the seeds, `AlFile` and `OtherFile` make the seeds of one file, `FollowSeed` follows one
(through the least set, which `Closure` computes), `SeedsDone` makes the entries with a sentinel for each leg,
`Fail` is the fallback of `main()` and of the workflow step at any moment. `LegRuns` is the `||` of `ci.yml`.
The order of files and seeds is left open; the code sorts them, and nothing depends on it. `Consistent` has
what the parser guarantees (an object that changed is in a changed file, `ci.yml` is the same in both trees
unless it is a changed file, a job reads the entry of its own app, and so on).

### ObjectIdGate
`step` is where the latest run of a pull request is: `CheckTree` (check-object-ids.py over the merge commit
that the event froze), `ReadMaster`, one `ListPage` per page of open pull requests, one `Fetch` per pull
request listed in any order, `Decide`; `Fail` is an error of git or of the API, which ends red. Around them
`OpenRequest`, `Push`, `Close`, `Reopen`, `Rerun` and `Merge` happen at any moment; a push, and a reopening,
start the run again (`concurrency` of `ci.yml`). A merge needs a green gate and a merge without a textual
conflict. `asked` is a history variable (what was there when the run was asked for), which only
`NeitherCanMerge` reads. A declaration is a file with one object; `IdOf` is its kind and id. A tree holds
declarations and blocks, the entries of the `idRanges` of an app's `app.json`, so the ranges that `CheckTree`
reads are those of the frozen tree, and a pull request may change them. `Owned` is what it may add or remove
of both. The API lists the newest pull request first; `Page(k)` is the k-th page of that list as it is when it
is asked for, and `slid`, a history variable, says whether a pull request left the list while a run was
between two pages of it. Left out: forks and drafts, an `app.json` that cannot be read (every tree that
compiled has readable ones), and the advisory sweep on master, which prints and cannot fail.

### NightlyRun, RangeFilter and ChunkedRun
The variables have the names of the PowerShell variables. One call of the runner is one action: `Reported`
(some of the chunk reported), `RunnerStop` (one codeunit, no result: a failed test is written for it), `Halve`
(several codeunits, no result), `FilterIgnored` (results of other codeunits: the step throws).
`NothingReported` has the three ways a call can report nothing: no file, an empty one, and one that is not
XML, where `$px` keeps the file parsed before. `Unprepared` is a throw before a suite (793, no such parameter
of the runner; 837, no compiled app). `EndSuite` saves, `Coverage` is codeunit-coverage.py for every suite of
`suite-apps.txt` and the end of the job. `Night` has none of this machinery: outcomes (`reported`, `stopped`),
what a suite publishes when it ends, that the night may be abandoned during a suite or before one, and a
verdict about what was published. Halving is invisible to it, and of a saved file it sees the codeunits of its
suite. `torn` is a history variable: has a torn file been met? Names of procedures, times and messages are
left out; an assembly of the result file stands for its codeunit. `RangeFilter` has one action per turn of the
loop; the binary search for an installed codeunit between two neighbours is the question it answers
(`Splits`). `ChunkedRun` composes the two: `TakeChunk` takes the first codeunits that remain, `BuildFilter`
goes through the loop of the function, `Call` is one of the calls of `NightlyRun` for that chunk, with results
among what the filter selects, or of other codeunits when the runner ignores it. `Foreign` are the codeunits
of apps that are no suite and those without a test method; the other suite's are blocked as well.

### TestPool
Per entry of `cu_ids` where its worker is (`at`), its `attempt`, and the result; `counted`, `failed` and
`exit` belong to `main()`. The server (not in the repository) has a `run` per request and the failure `log`
per codeunit; it goes on by itself. A call is answered, refused, or raises, and a call that is not answered
with success may have had its effect all the same. Polls that find nothing are stutters; that time is up is
possible at any moment of polling. Reading ids from AL files, credentials and printing are left out.

### Pipeline
`event` is what started the workflow, with its input; `labelled` the label as the API would answer now and
`read` the answer that `prepare` got, which is "no" when the call failed; `marked`, a history variable, the
label itself at that moment; `subset` the output of `prepare`, `under` the selection a leg ran with, `result`
its colour. `Given` is `given()` over a parsed input: what it names, cut with what the app can run, and a
sentinel, in any of the ways that `sentinel()` may pick. `Results` are the outputs of a `prepare` in which
nothing failed; `Prepare` adds a full run for every failure (the `except` of `main`, the `continue-on-error`
step, the `|| '{}'` of the output). What `select()` decides is a constant (`Diffs`): `Selection` says what it
is. `RunLeg` and the two re-runs follow GitHub's rules: "re-run failed jobs" keeps the outputs of `prepare`,
"re-run all jobs" does not.

### NightlyReport
`night` is what `NightlyRun` leaves: per suite a file (or none, or a torn one) and the runner stops, which
suites were begun (`listed`: the lines of suite-apps.txt), and the outcome of the run step. `Read` takes one
file, `Lists` sorts and writes the per-test lists, `Render` counts, cuts the table and compares with the
baseline, `Probe` compares the two probe runs, `Coverage` decides the colour. `exit` has the exit status of
each script. Results other than Pass, Fail and Skip are turned into one of them as `parse_xunit` does.
`Sorted` is Python's stable sort by key: a test that occurs twice keeps the order of its rows, which a sort by
comparison alone would leave open.

### NightlyGate
`Tick` is time, in units of a fraction of an hour; `Commit` puts a commit with a date of its own on master;
`Fire` is the schedule event (which cancels a night still going on), `Gate` the question whether the head is
younger than the window, `End` the end of the job, about the tree of the event (`sha`), which may be older
than what the gate saw (`headSha`).

### MustNotCompile
`Open`, `PassBy` and `Raise` are the ways a case file can start; `Compile` takes any list of diagnostics and
an exit status; `Match` is one turn of the greedy loop, with `taken` the places of the reported list that are
used; `Judge` the verdict, `Exit` the status of the script. Texts are model values with an order "begins
with".

### SingleInstance
`Search`, `Visit`, `Own` are `reachable()` with its stack for one test codeunit after the other; `Verdict` the
exit status. After it `RunTest` is the server: a test codeunit sees each shared instance as the last codeunit
left it (`instance`, `saw`).

## 3. Runs

| Run | Instance | States | Shows |
|---|---|---|---|
| `closure` | 3 objects; 24 ways to name each other (chains, fans, rings of two and three), with and without an extension, 7 shapes of subscriptions, 3 starts | 11 thousand | `OnlyAffected`, `Explained`, `Terminates`, `TurnsRunOut`, `ImplementsAffectedSet` |
| `selection` | 5 objects in 2 apps, 19 changes with and without one of 4 edits of `ci.yml`, up to 144 graphs, an app whose tests have an #if, a job that does not read the selection | 26 thousand | `TouchedTestsRun`, `SubsetIsConfined`, `EveryLegRuns`, `NewTestsRun`, `NothingElseRuns` |
| `object_id_gate` | 2 pull requests, 2 ids, one on master already, ranges that one of them may add to the other's app, pages of 1; every interleaving | 1 million | `RivalsNeverBothGreen`, `ClashesAreNewcomers`, `AddsOnlyTheAllowed` |
| `nightly_run` | suites of 5 and 2 codeunits among 4 that must not run, with gaps and neighbours, chunks of 4, 3 stops in a row, 7 calls per suite | 339 thousand | `GreenIsComplete`, `NoDuplicateUnlessTorn`, `CallsBounded`, `FilterIsExact`, `NoNeedlessSplit`, `Verdict`, `ImplementsNight` |
| `test_pool` | 2 entries for one codeunit, 2 workers, 1 retry | 222 thousand | `GreenMeansPassed`, `Terminates`, `OnlyForward` |
| `pipeline` | 3 apps with a leg each, one of them not wired, one on a version that leaves out an #if; every kind of event, 7 inputs, 3 diffs | 18 thousand | `GreenAnswersTheEvent`, `OneSelection`, `NoLegRunsZero`, `OnlyOneMore` |
| `nightly_report` | 2 suites of 3 codeunits, 6 kinds of files, a table of 1 row, 2 baselines, 2 probe runs | 28 thousand | `GreenNightIsReported`, `NothingLeftOut`, `CutIsAnnounced`, `HistoryAgrees`, `VerdictNeedsBothRuns` |
| `nightly_gate` | a day of 8 units, a window of 12, delays of 1 each, jobs of 4, 28 units, 3 commits | 4 million | `EveryCommitHasANight`, `AtMostTwoNights` |
| `checks` | 8 lists of up to 3 case files, up to 3 reported diagnostics, 2 codes, 4 texts; 384 corpora of 2 test codeunits, a helper and 2 singles, and 4 odd ones, with every order of the session | 79 thousand | `OkIsExact`, `NoFalseAlarm`, `ExitZeroMeansAll`, `OrderIndependent`, `SharedIsSeen` |
| `object_ids_race` | as `object_id_gate` | | `NeitherCanMerge` is violated, section 6 |
| `label_call_lost` | as `pipeline` | | `LabelForcesFull` is violated, section 6 |
| `failure_list_cut` | as `nightly_report` | | `TableIsComplete` is violated, section 6 |

`nightly_gate` has its type invariant in the run. For the others it is a theorem only (section 4), as are the
inductive invariants of all, which TLC checked on the same instances before they were proved. `checks` has two
scripts that share nothing: in each of its behaviours one of them runs and the other does not start.

Why the bounds are enough to be interesting. Three objects have a cycle of names, of events and of both, an
object reached twice (by a name and by an event), and a publisher used by more codeunits than
`MaxPublisherUsers` = 1 (the code: 40) and by fewer. `MaxFiles` = 2 (the code: 50) is crossed by the changes
of three files. The five codeunits have neighbours, an empty gap, and a gap with a codeunit that must not run
right after one of them, and every subset of them can be what remains. With a chunk of four a chunk is halved
twice, the size grows again, a rest smaller than the size remains, and a second suite starts from what the
first one left in `$px`; seven calls are reached on bad nights and not on good ones; with one retry an attempt
can be abandoned while its run goes on. Two rivals are the whole of `RivalsNeverBothGreen`, which speaks of
pairs; the theorem is about any number. With pages of one entry (the code: 100) a list of two has a full page
and a last one, and a pull request that closes or merges between them makes it slide (`slid`, which is a
premise, not a hole in the instance: with a third pull request that leaves, two rivals can then be both green,
section 6). One pull request may bring the range that the other's declarations are outside of, before or after
the other was checked. Two workers and two entries include every order in which one worker would take them,
since the only guard that names `Workers` is weaker with two. A table of one row is passed by a night with two
failures and kept by one with one. Suites of three codeunits have a runner stop beside one that reported and
one that did not. Up to three expectations include a general one before and after a special one and the same
one twice. In `nightly_gate` three commits fit into one night, into three, and between an event and its gate;
28 units are three nights and the time after them.

The assumptions of `NightlyGate` (stated with its constants) are what the schedule takes for granted, and all
three are needed: the hour by which the window exceeds a day pays for a late event, a late gate and an old
commit date together (`WindowCovers`), a night ends before the next event, which would cancel it
(`NightEnds`), and the window is short of two days (`WindowShort`). The instance has a longer slack than an
hour in 25, in the same proportion to the delays.

No run uses symmetry or a state constraint. Deadlock is not checked where the program ends; in
`object_id_gate` every pull request may have been merged or closed.

Fairness. `Closure`, `ChunkedRun`: weak fairness of the next step, since they are sequential scripts that
nothing suspends for ever. `Verdict` takes it that every call of the test runner comes back, with whatever
answer or by throwing; a call that hangs is ended by the job's time limit, outside the model. `TestPool`: weak
fairness of each worker, of `main()` taking each result and of its end; the server owes nothing, and
`Terminates` holds without it because every call and every poll has a time limit. The other modules have only
safety properties and no fairness: nothing obliges people to push, label or merge, and GitHub may leave a run
in its queue. (`EveryCommitHasANight` is a safety property: it has a deadline, and time cannot pass it.)

## 4. What is proved

TLAPS proves the following for every value of the constants, from the assumptions that the modules state about
them and that TLC evaluates on each instance. Every invariant that a run checks is a theorem here, with two
action properties and the safety part of both refinements.

* `ClosureProofs`: `TypeOK`, `OnlyAffected`, `Complete`, `Explained`, and `ImplementsAnswer`, the safety part
  of the refinement. The invariant `IInv` has two halves. `NothingLost`: an object that is reached and not in
  `work` has all its keys looked up or queued, its publishers reached and its escapes noted; without "or
  queued" it is not inductive, because the two loops hand over in the middle. `NothingInvented`: every queued
  key and every escape belongs to something reached. When both lists are empty the first half makes `reached`
  closed, and `OnlyAffected` makes it least. `Explained` needs an argument of its own: a set of objects that
  explain each other would have no first member. `TurnsRunOut`: the set `Pending` (not reached, or queued)
  only shrinks, also when a key or an event reaches something; an object that leaves it queues no more entries
  than there are keys (`KeysOfOne`), so with a weight of three turns per entry and the hand-overs between the
  loops every turn is one less of a natural number.
* `ReferenceGraphProofs`: the least closed set is closed, least and monotone in its roots, and the union of
  the answers for each seed is the answer for all of them (`SeedsAreIndependent`), which is why `select()` may
  follow seeds one by one.
* `SelectionProofs`: `TypeOK`, `TouchedTestsRun`, `SubsetIsConfined`, `EveryLegRuns`, `NewTestsRun`,
  `NothingElseRuns`. `IInv` says that each seed of a file that was looked at is still queued, or was followed
  and what it found is in `why` or made the run unclear, and that the test codeunits of such a file are
  selected. `TouchedTestsRun` follows by covering the touched objects by seeds and using independence. Its
  premises `KeysKept` and `NamesApart` exclude what section 6 reports. `NewTestsRun` needs no such premise: a
  test codeunit that no job ran before is declared in a changed file, or `ci.yml` differs, and then only a
  range edit leads to a subset. `NothingElseRuns` is the converse, with an invariant of its own
  (`OnlyReached`): each entry of `why` is within reach of a seed of a changed file.
* `ObjectIdGateProofs`: `TypeOK`, `RivalsNeverBothGreen`, `ClashesAreNewcomers`, `AddsOnlyTheAllowed`, for any
  number of pull requests and ids. `OneSeesTheOther` carries the first: of two open pull requests, one of the
  two runs has yet to see the other or has seen the head it has now, or its list slid. "Yet to see" must
  include a run that is only asked for, and one that reads the list and has the other on a page to come
  (`WillList`): who arrives only moves it back (`RankGrows`), and a page that is not full is the last, because
  every place of the list is taken (`LastPage`), for any page size; the property itself is not inductive
  because a reopened pull request changes the list behind a run's back.
* `NightlyProofs`, the run: `TypeOK`, `GreenIsComplete`, `NoDuplicateUnlessTorn`, `Accounted` (a codeunit
  reported or is a runner stop, never both), for any suites, chunk size and cap. `HandedOver` links the loop
  to the coverage step: the recorded runner stops are in the saved file, and the step is reached without a
  throw only past the last suite. Without it `Missing` could be empty because a stop was subtracted that
  nobody wrote. `CallsBounded`: a call that accounts for nothing halves the chunk, so `CallsPaid` adds the
  halvings that the present size still allows to the calls made; that a smaller number has no more halvings
  (`HalvingsOf` is a recursive function) is an induction over the naturals by least counterexample.
  `ImplementsNightsSteps`: the loop, the throws before and within a suite, the files and the coverage step
  implement `Night`. It rests on `Stale`: the file that `$px` holds after a torn one is about codeunits of
  this suite that reported or of a suite before, so merging it again adds no outcome. This needs `SuitesApart`
  (an id belongs to one app), and it is why the duplicate of section 6 makes totals wrong and no verdict.
* `NightlyProofs`, the chunks: `FilterIsExact`, `NoNeedlessSplit`, for every call of a run and every set of
  foreign codeunits, and `ChunkedRunIsARun`: every behaviour of `ChunkedRun` is one of `NightlyRun`, so that
  what the item above says of the one holds of the other. `ChunkOK` says that a chunk, once taken, stays the
  first of what remains until it is called; that it is not empty takes the type of `size` from `IInv`.
* `NightlyProofs`, the gate: `GateTypeOK`, `EveryCommitHasANight`, `AtMostTwoNights`, for every day, window
  and delays that fit `WindowCovers`, `NightEnds` and `WindowShort`. `Clock` keeps a night between two events.
  `Awaited` carries the first: a commit had its night, is in the one that runs, or the next event is at most a
  day after it; a night that does not start because the head is too old would need a commit older than a day
  and the delays, which had its night before. `Aged` turns the number of nights about one head into its age,
  so that a third gate finds it outside the window, unless a newer commit is at the head by then.
* `TestPoolProofs`: `TypeOK`, `GreenMeansPassed` (while the log can be read), `CountsAgree`, `OnlyForward`,
  for any entries, workers and retries. `Honest` ties what a worker noted to what its own run did, `Tally`
  counts each result once. `Fresh` is what `OnlyForward` needs: a request is made of an attempt that the
  server does not know yet, so no late answer takes a run back from its end.
* `CheckProofs`, the must-not-compile check: `TypeOK`, `OkIsExact`, `NoFalseAlarm`, `ExitZeroMeansAll`, for
  any list of cases, texts and diagnostics. What `check()` has taken at any moment is a one-to-one matching
  into the reported list; "ok" is given when it is also onto, which makes the two multisets equal.
  `NoFalseAlarm` (for headers with the longer text first) is an exchange: a pairing that starts as the greedy
  one goes on, by swapping the diagnostic that greedy takes with the one that the pairing has for it. It uses
  that "begins with" is transitive and that two beginnings of one text begin each other (`BeginsTransitive`,
  `BeginsTree`).
* `CheckProofs`, the SingleInstance owners: `OwnersTypeOK`, `OrderIndependent`, `SharedIsSeen`, for every
  corpus that the script can see (`Usual`). `Searched`: what was popped has its references in `seen`, and what
  is seen is in every closed set that has them, so a search ends with `Uses`. `Owned` and `Settled` carry it
  to the exit status, and the session's part says which test codeunit touched an instance last.
* `WorkflowProofs`, the pipeline: `TypeOK`, `GreenAnswersTheEvent`, `OneSelection`, `NoLegRunsZero`,
  `OnlyOneMore`, for every set of apps, legs, tests and diffs. `AllKept`: what `prepare` wrote has a codeunit
  that every leg compiles in each entry. `SubsetOfEvent`: it is what the event, its input and the label as
  last answered may select. `GreenAnswersTheEvent` is about the label itself; its premise `LabelSeen` leaves
  out the lost call of section 6 only. `PassedUnder`: a leg that passed ran under it. The assumptions
  `DiffsType` and `FullLegsRun` are what `Selection.EveryLegRuns` proves of a subset and what the repository
  has for a full run.
* `WorkflowProofs`, the report: `ReportTypeOK`, `GreenNightIsReported`, `NothingLeftOut`, `CutIsAnnounced`,
  `HistoryAgrees`, `VerdictNeedsBothRuns`, for any number of suites and files, any row limit and baselines.
  `Gathered`, `Listed`, `Summed` and `Judged` say what each step has made of the files so far. The lemmas
  under them: iterating over the suites ends with what each contributed (`Iterates`), flattening a file keeps
  its rows (`FlattenIs`), sorting permutes them (`SortedIs`), the three counts add up to the list
  (`CountsAddUp`). `FilesType` says that a runner stop is written as a failed row, which `NightlyRun` shows of
  the loop.

Only model-checked: `Terminates` (both), `Verdict`, and the liveness halves of `ImplementsAffectedSet` and
`ImplementsNight`, because the prover has no rules for ENABLED and fairness here. What can be proved of them
is `TurnsRunOut`, `OnlyForward` and `CallsBounded`: that no step can be repeated for ever; that there is
always a next one until the end is TLC's part. `NeitherCanMerge`, `LabelForcesFull` and `TableIsComplete` are
false, see section 6.

## 5. Not modelled

* **AL scanner, reader of ci.yml, git access** (`select-tests.py` 80-350). They turn characters into objects;
  which characters make a token is a matter for unit tests, and the repository has them. Their results are the
  worlds of `Selection`. The rules that look at the lines of `ci.yml` (360-402) are modelled.
* **Nightly set-up.** A straight sequence of external commands, each of which ends the job when it fails.
* **Dispatched and labelled nights.** They run whatever the gate would say.
* **Compile jobs and the reusable test workflow.** The workflow is in another repository; what `ci.yml` relies
  on (a leg without a codeunit is red) is in `Pipeline`, marked external.
* **Install trigger check, AL surface tools.** One pass of patterns over text, no state, no order.
  **Self-tests** were read as a reference.
* **AL corpus, fixture apps, key helper.** Their subject is Microsoft's runtime.
* **Whole path of a pull request** (selection, pipeline and gate below one specification). Its parts share
  nothing but the output that `Pipeline` takes as a constant and the required checks; the composition would
  only conjoin what is shown of each.

## 6. Disagreements found

Three counterexamples that TLC finds; the quotes are in `PROJECT.json`.

* `object_ids_race`: a rival that merges between the event and the read of master is in none of the three
  reads, so the gate is green and the second merge duplicates the id, although the docstring says that neither
  can merge.
* `label_call_lost`: `prepare` takes a failed call for the labels as an answer without the label (ci.yml 224).
  A pull request that was labelled after its event and has "Re-run all jobs" then runs a subset and is green,
  although ci.yml 202-204 and CONTRIBUTING.md 311 promise a full run. The same happens when the label is past
  the first page of labels that the call answers. `GreenAnswersTheEvent` is what holds: the label was in the
  event, or was answered, or nobody asked for a full run.
* `failure_list_cut`: the docstring of bc-test-results.py (20-22) and its comment (152-157) say that the
  failure list which opens the report is complete and has as many rows as the headline counts; the table has
  100 rows at most (173). `CutIsAnnounced` is what holds: it has the first of them, and one more line names
  how many are left out. all-tests.tsv and failures.tsv have all.

Seen while modelling, without a run of their own:

* *Nightly.* A torn result file makes the loop merge the file of an earlier call again, because `$px` survives
  a failed parse (889), although the throw at 886 exists to refuse duplicates. The totals are wrong, the
  verdict is not (`NoDuplicateUnlessTorn`, `GreenIsComplete`). The throws at 886 and 917 leave the runner
  stops of that suite unsaved although 773-775 say that they are written. Those at 793 and 837 end the night
  before a suite is begun. When `codeunit-coverage.py ids` fails (839) the expected codeunits are the one id
  0, and it is the coverage step, which reads the app again, that makes the night red.
* *Selection.* An object that keeps its name and gets a new id is not followed by its old id (528), so a test
  that names the old id is not selected; it matters where a test has the number in its text and still compiles
  (`KeysKept`). An object that names an extended object by its id is not reached from the extension (157).
* *Object id gate.* `open_prs` reads the list page by page (119-132). When a pull request of a page already
  read closes or merges, the first one of the next page moves up and is not read at all; if that is the rival,
  and its own run is over, both are green, against the docstring (24-26). It takes more than one page, 100
  open pull requests; `RivalsNeverBothGreen` has it as its premise (`slid`). A re-run has the old merge commit
  and takes a clash with master for inherited ids, so the re-run that the docstring recommends does not see
  it. An `app.json` that cannot be read is skipped with its declarations (`check-object-ids.py` 69).
* *Developer runner.* One failed read of the log turns a codeunit with failing tests into PASS and exit code 0
  (67); the log query has no time or run in it, so old failures are reported for a run that passed (62);
  `--workers 1` is documented as sequential, but a run that timed out goes on at the server beside the next.
* *Nightly gate.* A night that failed is not repeated: `End` is the same for both, and after the window nobody
  asks again. `head_sha` in the summary is what the gate saw, and may be newer than the tree that was
  measured. Events later than the slack of one hour drop a commit.
* *Report.* A baseline test that was skipped is printed as passed (204). One unreadable file of two ends the
  report (108).
* *Must-not-compile.* The docstring promises a comparison as multisets (127); the greedy order can fail a file
  that has a matching, when a general expectation stands before a special one (`NoFalseAlarm` has the
  premise). A folder without cases ends with exit status 0 (187).
* *SingleInstance.* References from tables, pages and event subscribers, unquoted names, and a test codeunit
  that is a SingleInstance itself are not seen; `OrderIndependent` leaves out what the script cannot see
  (`Usual`). The self-test of the script runs it over the corpus as well, so `ci.yml` does.

## 7. Running

    tlc -config MCClosure.cfg MCClosure
    tlapm ClosureProofs.tla

and so on for each pair in `PROJECT.json`. The longest runs, `selection` and `object_id_gate`, take about a
minute with two workers.
