----------------------------- MODULE NightlyRun -----------------------------
(***************************************************************************)
(* The steps "Run the corpus" and "Every test codeunit reported" of        *)
(* .github/workflows/nightly-windows.yml, with codeunit-coverage.py check. *)
(*                                                                         *)
(* Every suite's test codeunits run in chunks.  The test runner, which is  *)
(* not under the repository's control, answers a call with a result file   *)
(* that is missing, that cannot be parsed, or that holds one assembly per  *)
(* codeunit it reported; it may stop at any codeunit, or ignore the range  *)
(* filter.  Results of all calls are merged and saved when a suite ends.   *)
(***************************************************************************)
EXTENDS Integers, FiniteSets

CONSTANTS
  Suites,           \* the number of suites; the workflow has 2
  Expected,         \* suite -> its test codeunits (ids from the compiled app)
  ChunkSize,        \* $chunkSize, 100
  MaxCalls,         \* test runner calls per suite, 200
  MaxAbortsInARow   \* 3

Suite == 1..Suites
Codeunit == UNION {Expected[s] : s \in Suite}

ASSUME SuitesType == Suites \in Nat \ {0}
ASSUME ExpectedType ==
  Expected \in [Suite -> SUBSET Nat] /\ \A s \in Suite : IsFiniteSet(Expected[s])
(* An id belongs to one app: they are installed together *)
ASSUME SuitesApart ==
  \A s, t \in Suite : s # t => Expected[s] \cap Expected[t] = {}
ASSUME BoundsType ==
  /\ ChunkSize \in Nat \ {0}
  /\ MaxCalls \in Nat
  /\ MaxAbortsInARow \in Nat \ {0}

VARIABLES
  step,       \* "between", "calls", "coverage", "green", "red"
  suite,      \* the suite that runs, 0 before the first
  done,       \* $done: codeunits that reported
  aborted,    \* $aborted: runner stops
  inARow,     \* $abortedInARow
  size,       \* $size of the next chunk
  call,       \* $call
  merged,     \* $merged: codeunit -> number of its assemblies
  px,         \* $px: the assemblies of the last result file that was parsed
  saved,      \* suite -> the saved $merged; no assembly while there is no file
  recorded,   \* suite -> ABORTED_<suite> of the environment
  listed,     \* the suites of suite-apps.txt
  runFailed,  \* did the run step throw?
  torn        \* no state of the code: was there a torn result file so far?

vars == <<step, suite, done, aborted, inARow, size, call, merged, px, saved,
          recorded, listed, runFailed, torn>>
loopVars == <<done, aborted, inARow, size, call, merged, px>>
resultVars == <<saved, recorded, listed>>

Nothing == [c \in Codeunit |-> 0]

Smaller(m, n) == IF m < n THEN m ELSE n
Larger(m, n) == IF m > n THEN m ELSE n

(* append one assembly for every codeunit of S *)
Append1(m, S) == [c \in Codeunit |-> IF c \in S THEN m[c] + 1 ELSE m[c]]

(* codeunit-coverage.py reported_ids *)
ReportedIds(file) == {c \in Codeunit : file[c] > 0}

Remaining == IF suite = 0 THEN {} ELSE Expected[suite] \ (done \cup aborted)

(* Select-Object -First n of the ascending list S: the one set of them *)
First(S, n) ==
  {C \in SUBSET S : /\ Cardinality(C) = Smaller(n, Cardinality(S))
                    /\ \A c \in C, d \in S \ C : c < d}

TypeOK ==
  /\ step \in {"between", "calls", "coverage", "green", "red"}
  /\ suite \in 0..Suites
  /\ done \subseteq Codeunit
  /\ aborted \subseteq Codeunit
  /\ inARow \in 0..MaxAbortsInARow
  /\ size \in 1..ChunkSize
  /\ call \in 0..MaxCalls
  /\ merged \in [Codeunit -> Nat]
  /\ px \subseteq Codeunit
  /\ saved \in [Suite -> [Codeunit -> Nat]]
  /\ recorded \in [Suite -> SUBSET Codeunit]
  /\ listed \subseteq Suite
  /\ runFailed \in BOOLEAN
  /\ torn \in BOOLEAN

Init ==
  /\ step = "between"
  /\ suite = 0
  /\ done = {} /\ aborted = {} /\ inARow = 0 /\ size = ChunkSize /\ call = 0
  /\ merged = Nothing /\ px = {}
  /\ saved = [s \in Suite |-> Nothing]
  /\ recorded = [s \in Suite |-> {}]
  /\ listed = {}
  /\ runFailed = FALSE
  /\ torn = FALSE

-----------------------------------------------------------------------------
(* foreach ($s in $suites): everything but $px starts afresh *)
StartSuite ==
  /\ step = "between"
  /\ suite < Suites
  /\ step' = "calls"
  /\ suite' = suite + 1
  /\ done' = {} /\ aborted' = {} /\ inARow' = 0 /\ size' = ChunkSize /\ call' = 0
  /\ merged' = Nothing
  /\ listed' = listed \cup {suite + 1}
  /\ UNCHANGED <<px, saved, recorded, runFailed, torn>>

Throw == step' = "coverage" /\ runFailed' = TRUE

(* The runner cannot be called as the workflow wants to, or a suite has no   *)
(* compiled app: the step ends before the (next) suite is written down       *)
Unprepared ==
  /\ step = "between"
  /\ suite < Suites
  /\ Throw
  /\ UNCHANGED <<suite, loopVars, resultVars, torn>>

(* One test runner call: there is a chunk to run and the cap is not reached *)
Calls ==
  /\ step = "calls"
  /\ Remaining # {}
  /\ call < MaxCalls
  /\ call' = call + 1
  /\ UNCHANGED <<suite, resultVars>>

(* The result file of a call that reported nothing: missing (the merge is    *)
(* skipped), empty, or torn.  Get-ReportedIds catches the parse error of a   *)
(* torn file, but the second parse only prints its error: $px still holds    *)
(* the file parsed last, and that one is merged again.                       *)
NothingReported(base) ==
  \/ merged' = base /\ px' = px /\ UNCHANGED torn
  \/ merged' = base /\ px' = {} /\ UNCHANGED torn
  \/ merged' = Append1(base, px) /\ px' = px /\ torn' = TRUE

(* A codeunit outside the chunk reported: the range filter was not applied *)
FilterIgnored(chunk) ==
  /\ Calls
  /\ Codeunit \ chunk # {}
  /\ Throw
  /\ UNCHANGED <<done, aborted, inARow, size, merged, px, torn>>

(* Mutant of Reported: codeunits that reported are not marked as done        *)
ReportedNotDone(chunk, got) ==
  /\ Calls
  /\ got # {} /\ got \subseteq chunk
  /\ merged' = Append1(merged, got) /\ px' = got
  /\ done' = IF got = chunk THEN done \cup got ELSE done
  /\ size' = Smaller(ChunkSize, size * 2)
  /\ inARow' = 0
  /\ UNCHANGED <<step, aborted, runFailed, torn>>

(* Progress: some codeunits of the chunk reported *)
Reported(chunk, got) ==
  /\ Calls
  /\ got # {} /\ got \subseteq chunk
  /\ merged' = Append1(merged, got) /\ px' = got
  /\ done' = done \cup got
  /\ size' = Smaller(ChunkSize, size * 2)
  /\ inARow' = 0
  /\ UNCHANGED <<step, aborted, runFailed, torn>>

(* Mutant: whatever the size of the chunk, all of it is a runner stop *)
RunnerStopAll(chunk) ==
  /\ Calls
  /\ NothingReported(Append1(merged, chunk))
  /\ aborted' = aborted \cup chunk
  /\ size' = ChunkSize
  /\ inARow' = inARow + 1
  /\ IF inARow + 1 >= MaxAbortsInARow THEN Throw ELSE UNCHANGED <<step, runFailed>>
  /\ UNCHANGED done

(* Mutant: the runner stop is listed and not written into the results *)
RunnerStopUnwritten(chunk) ==
  /\ Calls
  /\ Cardinality(chunk) = 1
  /\ NothingReported(merged)
  /\ aborted' = aborted \cup chunk
  /\ size' = ChunkSize
  /\ inARow' = inARow + 1
  /\ IF inARow + 1 >= MaxAbortsInARow THEN Throw ELSE UNCHANGED <<step, runFailed>>
  /\ UNCHANGED done

(* A codeunit that reported nothing alone: one failed test stands for it *)
RunnerStop(chunk) ==
  /\ Calls
  /\ Cardinality(chunk) = 1
  /\ NothingReported(Append1(merged, chunk))
  /\ aborted' = aborted \cup chunk
  /\ size' = ChunkSize
  /\ inARow' = inARow + 1
  /\ IF inARow + 1 >= MaxAbortsInARow THEN Throw ELSE UNCHANGED <<step, runFailed>>
  /\ UNCHANGED done

(* Mutant of Halve: the same chunk again *)
HalveNot(chunk) ==
  /\ Calls
  /\ Cardinality(chunk) > 1
  /\ NothingReported(merged)
  /\ size' = Cardinality(chunk)
  /\ UNCHANGED <<step, done, aborted, inARow, runFailed>>

(* Several codeunits and no result: a smaller chunk from the same place *)
Halve(chunk) ==
  /\ Calls
  /\ Cardinality(chunk) > 1
  /\ NothingReported(merged)
  /\ size' = Larger(1, Cardinality(chunk) \div 2)
  /\ UNCHANGED <<step, done, aborted, inARow, runFailed>>

(* Mutant: the cap is not looked at *)
EndSuiteUncapped ==
  /\ step = "calls"
  /\ Remaining = {}
  /\ saved' = [saved EXCEPT ![suite] = merged]
  /\ recorded' = [recorded EXCEPT ![suite] = aborted]
  /\ step' = IF suite = Suites THEN "coverage" ELSE "between"
  /\ UNCHANGED <<suite, loopVars, listed, runFailed, torn>>

(* Nothing remains, or the cap on calls is reached: the results are saved *)
EndSuite ==
  /\ step = "calls"
  /\ Remaining = {} \/ call = MaxCalls
  /\ saved' = [saved EXCEPT ![suite] = merged]
  /\ recorded' = [recorded EXCEPT ![suite] = aborted]
  /\ step' = IF suite = Suites THEN "coverage" ELSE "between"
  /\ UNCHANGED <<suite, loopVars, listed, runFailed, torn>>

(* codeunit-coverage.py check of suite s *)
Missing(s) == Expected[s] \ ((ReportedIds(saved[s]) \ recorded[s]) \cup recorded[s])

(* "Every test codeunit reported", and the end of the job *)
Coverage ==
  /\ step = "coverage"
  /\ step' = IF runFailed \/ \E s \in listed : Missing(s) # {} THEN "red" ELSE "green"
  /\ UNCHANGED <<suite, loopVars, resultVars, runFailed, torn>>

Next ==
  \/ StartSuite
  \/ Unprepared
  \/ \E chunk \in First(Remaining, size) :
       \/ FilterIgnored(chunk)
       \/ \E got \in SUBSET chunk : Reported(chunk, got)
       \/ RunnerStop(chunk)
       \/ Halve(chunk)
  \/ EndSuite
  \/ Coverage

(* ChunkedRun adds the chunks' filters, and the fairness *)
Spec == Init /\ [][Next]_vars

-----------------------------------------------------------------------------
Over == step \in {"green", "red"}

(***************************************************************************)
(* A green night is a complete night: every test codeunit of every suite   *)
(* is in the saved results, as the runner reported it or as one failed     *)
(* test for a runner stop.  It spans the loop, the environment variable    *)
(* that carries the runner stops, the file and the coverage step.          *)
(***************************************************************************)
GreenIsComplete ==
  step = "green" =>
    \A s \in Suite : Expected[s] \subseteq ReportedIds(saved[s])

(***************************************************************************)
(* No result is counted twice: the results of the calls overlap nowhere,   *)
(* neither with each other nor with the runner stops.  The message of the  *)
(* throw in nightly-windows.yml:886 says so.  It is true as long as every  *)
(* result file present is XML: after a torn one $px still holds the file   *)
(* of the call before, which is merged again.                              *)
(***************************************************************************)
NoDuplicateUnlessTorn == torn \/ \A c \in Codeunit : merged[c] <= 1

(***************************************************************************)
(* A codeunit is a runner stop or it reported, never both, and what is     *)
(* merged for a suite is exactly what is accounted for in it.              *)
(***************************************************************************)
Accounted ==
  /\ done \cap aborted = {}
  /\ suite > 0 => done \cup aborted \subseteq Expected[suite]
  /\ torn \/ ReportedIds(merged) = done \cup aborted
  /\ done \cup aborted \subseteq ReportedIds(merged)

(***************************************************************************)
(* Halving and growing again never costs more calls than one search down   *)
(* to a single codeunit for each codeunit accounted for, and one search    *)
(* more: a call that reports nothing is paid for by the next one that does *)
(* or by the runner stop it leads to.                                      *)
(***************************************************************************)
HalvingsOf[n \in 1..ChunkSize] == IF n = 1 THEN 0 ELSE 1 + HalvingsOf[n \div 2]
Halvings == HalvingsOf[ChunkSize]

CallsBounded ==
  LET accounted == Cardinality(done \cup aborted)
  IN  step = "calls" => call <= accounted * (Halvings + 1) + Halvings

(***************************************************************************)
(* Why these hold: the merge holds every codeunit accounted for once, what *)
(* is handed to the coverage step is in the saved file, and the job only   *)
(* reaches the coverage step without a throw after the last suite.         *)
(***************************************************************************)
MergedOnce ==
  torn \/ \A c \in Codeunit : merged[c] = IF c \in done \cup aborted THEN 1 ELSE 0

HandedOver ==
  /\ \A s \in Suite : recorded[s] \subseteq ReportedIds(saved[s])
  /\ listed = 1..suite
  /\ step = "calls" => suite > 0 /\ inARow < MaxAbortsInARow
  /\ step \in {"between", "calls"} => ~runFailed
  /\ step \in {"coverage", "green"} /\ ~runFailed => suite = Suites
  /\ step = "green" => ~runFailed /\ \A s \in listed : Missing(s) = {}

IInv == TypeOK /\ Accounted /\ MergedOnce /\ HandedOver

(* Why CallsBounded holds: a call either accounts for a codeunit or halves   *)
(* the chunk, and a chunk of the size that is left can be halved so often.   *)
CallsPaid ==
  LET accounted == Cardinality(done \cup aborted)
  IN  step = "calls" => call + HalvingsOf[size] <= accounted * (Halvings + 1) + Halvings

(***************************************************************************)
(* Why a stale file hides nothing: the file that $px still holds after a   *)
(* torn one is about codeunits of this suite that reported, or about those *)
(* of a suite before; the saved file has an assembly of a codeunit of its  *)
(* suite for every outcome, and for no other codeunit of it.               *)
(***************************************************************************)
Stale ==
  /\ \A c \in px : \E s \in 1..suite : c \in Expected[s]
  /\ suite > 0 =>
       /\ px \cap Expected[suite] \subseteq done
       /\ ReportedIds(merged) \cap Expected[suite] = done \cup aborted

(***************************************************************************)
(* The chunks, the merge with its stale files, the variable that carries   *)
(* the runner stops and the coverage step are a night as Night describes   *)
(* it: whatever the runner writes, no codeunit gets a second outcome or    *)
(* one that it did not have, and green is about the outcomes.              *)
(***************************************************************************)
Promise == INSTANCE Night WITH
  phase     <- IF step = "coverage" THEN (IF runFailed THEN "abandoned" ELSE "ended") ELSE step,
  reported  <- done,
  stopped   <- aborted,
  published <- [s \in Suite |-> ReportedIds(saved[s]) \cap Expected[s]]

ImplementsNight == Promise!Spec

(* The job comes to a verdict, whatever the runner answers. *)
Verdict == <>Over
=============================================================================
