------------------------------ MODULE Pipeline ------------------------------
(***************************************************************************)
(* One run of .github/workflows/ci.yml with its re-runs: the prepare job   *)
(* decides what every leg runs (the step "Select the test codeunits to     *)
(* run" and main() of select-tests.py), the legs run it, a maintainer sets *)
(* labels, cancels and runs again.  select() is Selection's subject: diff  *)
(* is its answer for the tree of this run.  given() is modelled here.      *)
(***************************************************************************)
EXTENDS Integers, FiniteSets

CONSTANTS
  App,          \* the test apps of ci.yml's test jobs
  Wired,        \* those whose job reads the selection (subset[app] || range)
  Tests,        \* app -> the runnable test codeunits in the range of its job
  Conditional,  \* test codeunits in a file with an #if
  Leg,          \* the legs: <<app, does this BC version define the symbols>>
  Junk,         \* a part of select_codeunits that is no id and no lo..hi
  NotJson,      \* a select_codeunits that is no non-empty JSON object of strings
  Inputs,       \* the select_codeunits to consider: name -> set of parts
  Diffs         \* the answers of select() to consider

Id == UNION {Tests[a] : a \in App}
FullRun == [a \in {} |-> {}]          \* the JSON object {}
Subset == {FullRun} \cup [Wired -> SUBSET Id]

ASSUME TestsType == Wired \subseteq App /\ Tests \in [App -> SUBSET Nat]
ASSUME LegType == Leg \subseteq App \X BOOLEAN
(* Selection.EveryLegRuns: an entry keeps a codeunit outside any #if *)
ASSUME DiffsType ==
  /\ Diffs \subseteq Subset
  /\ \A d \in Diffs : \A a \in DOMAIN d :
       d[a] \subseteq Tests[a] /\ d[a] \ Conditional # {}
(* No full run is empty on an older version *)
ASSUME FullLegsRun == \A a \in App : Tests[a] \ Conditional # {}

VARIABLES
  event,      \* what started the run; fixed, re-runs included
  diff,       \* select() of the tree of this run
  labelled,   \* does the pull request have the label full-run now?
  marked,     \* no state of the code: did it have it at the last prepare?
  phase,      \* "prepare", "legs", "over"
  read,       \* did the last prepare see the label in the API's answer?
  subset,     \* outputs.subset of the last prepare
  result,     \* leg -> "none", "passed", "failed", "cancelled"
  under       \* leg -> the subset it last ran with

vars == <<event, diff, labelled, marked, phase, read, subset, result, under>>

Event ==
  [kind : {"push", "bump"}]
    \cup [kind : {"pull_request"}, payload : BOOLEAN]
    \cup [kind : {"dispatch"}, given : Inputs \cup {NotJson}]
    \cup [kind : {"dispatch_base"}, base : {"none", "fetched", "lost"}]

TypeOK ==
  /\ event \in Event /\ diff \in Diffs
  /\ labelled \in BOOLEAN /\ marked \in BOOLEAN /\ read \in BOOLEAN
  /\ phase \in {"prepare", "legs", "over"}
  /\ subset \in Subset
  /\ result \in [Leg -> {"none", "passed", "failed", "cancelled"}]
  /\ under \in [Leg -> Subset]

Init ==
  /\ event \in Event /\ diff \in Diffs
  /\ labelled = (event \in [kind : {"pull_request"}, payload : {TRUE}])
  /\ phase = "prepare" /\ marked = FALSE /\ read = FALSE /\ subset = FullRun
  /\ result = [l \in Leg |-> "none"]
  /\ under = [l \in Leg |-> FullRun]

-----------------------------------------------------------------------------
(* parse_given: every part of every app is an id or a range that does not   *)
(* end before it starts.  Parts are pairs <<lo, hi>>.                       *)
Readable(text) ==
  text # NotJson /\ DOMAIN text # {}
    /\ \A name \in DOMAIN text : \A p \in text[name] : p # Junk /\ p[1] <= p[2]

Named(text, a) ==
  IF a \in DOMAIN text THEN UNION {p[1]..p[2] : p \in text[a] \ {Junk}} ELSE {}

(* One codeunit outside any #if per wired app: sentinel() takes the         *)
(* cheapest, any one here                                                   *)
Sentinels == {s \in [Wired -> Id] : \A a \in Wired : s[a] \in Tests[a] \ Conditional}

(* Mutants of Given: read as spans() reads, junk left out; the sentinel only  *)
(* where nothing is picked; everything where nothing is named                *)
GivenLenient(text) ==
  IF text = NotJson \/ ~(DOMAIN text \subseteq Wired) THEN {FullRun}
  ELSE {[a \in Wired |-> (Tests[a] \cap Named(text, a)) \cup {s[a]}] : s \in Sentinels}

GivenSentinelIfEmpty(text) ==
  IF ~Readable(text) \/ ~(DOMAIN text \subseteq Wired) THEN {FullRun}
  ELSE {[a \in Wired |-> LET picked == Tests[a] \cap Named(text, a)
                         IN  IF picked = {} THEN {s[a]} ELSE picked] : s \in Sentinels}

GivenWhole(text) ==
  IF ~Readable(text) \/ ~(DOMAIN text \subseteq Wired) THEN {FullRun}
  ELSE {[a \in Wired |-> IF Named(text, a) = {} THEN Tests[a]
                         ELSE (Tests[a] \cap Named(text, a)) \cup {s[a]}] : s \in Sentinels}

(* given(): the runnable test codeunits that the input names, and the        *)
(* sentinel; a full run when the input cannot be read or names an app that   *)
(* no job reads the selection for                                            *)
Given(text) ==
  IF ~Readable(text) \/ ~(DOMAIN text \subseteq Wired) THEN {FullRun}
  ELSE {[a \in Wired |-> (Tests[a] \cap Named(text, a)) \cup {s[a]}] : s \in Sentinels}

(* Mutant: the label as the event knew it *)
ForcedByPayload(seen) ==
  \/ event.kind \in {"push", "bump"}
  \/ event.kind = "pull_request" /\ event.payload
  \/ event.kind = "dispatch_base" /\ event.base # "fetched"

(* The case statement of the step *)
Forced(seen) ==
  \/ event.kind \in {"push", "bump"}
  \/ event.kind = "pull_request" /\ (event.payload \/ seen)
  \/ event.kind = "dispatch_base" /\ event.base # "fetched"

Results(seen) ==
  IF Forced(seen) THEN {FullRun}
  ELSE IF event.kind = "dispatch" THEN Given(event.given)
  ELSE {diff}

(* Mutant: what passed under an earlier selection need not run again *)
PrepareKeepingResults ==
  /\ phase = "prepare"
  /\ \E seen \in {labelled, FALSE} :
       read' = seen /\ subset' \in Results(seen) \cup {FullRun}
  /\ marked' = labelled
  /\ result' = [l \in Leg |-> IF result[l] = "passed" THEN "passed" ELSE "none"]
  /\ phase' = "legs"
  /\ UNCHANGED <<event, diff, labelled, under>>

(* The labels as the API answers them; a call that fails counts as no label  *)
(* (2>/dev/null || true), and so does a label past the first page.  Then     *)
(* the selection, or a full run after any error: main() catches it, the      *)
(* shell writes subset={} after it, or the output is missing and || '{}'     *)
(* of the job's outputs stands for it.                                       *)
Prepare ==
  /\ phase = "prepare"
  /\ \E seen \in {labelled, FALSE} :
       read' = seen /\ subset' \in Results(seen) \cup {FullRun}
  /\ marked' = labelled
  /\ result' = [l \in Leg |-> "none"]
  /\ phase' = "legs"
  /\ UNCHANGED <<event, diff, labelled, under>>

(* codeunit_range of a leg: subset[app] || range, where {} stands for both   *)
(* a missing key and an empty string                                         *)
Selected(s, a) == IF a \in DOMAIN s /\ a \in Wired THEN s[a] ELSE {}
LegRange(s, a) == IF Selected(s, a) = {} THEN Tests[a] ELSE Selected(s, a)
Compiled(l) == IF l[2] THEN Id ELSE Id \ Conditional
Ran(l) == LegRange(under[l], l[1]) \cap Compiled(l)

(* A leg runs; the reusable workflow fails one that ran no codeunit *)
RunLeg(l) ==
  /\ phase = "legs"
  /\ result[l] = "none"
  /\ under' = [under EXCEPT ![l] = subset]
  /\ \E verdict \in IF Ran(l)' = {} THEN {"failed"} ELSE {"passed", "failed"} :
       result' = [result EXCEPT ![l] = verdict]
  /\ phase' = IF \E k \in Leg \ {l} : result[k] = "none" THEN "legs" ELSE "over"
  /\ UNCHANGED <<event, diff, labelled, marked, read, subset>>

(* A newer run of the group, or a maintainer: cancel-in-progress *)
Cancel ==
  /\ phase = "legs"
  /\ phase' = "over"
  /\ result' = [l \in Leg |-> IF result[l] = "none" THEN "cancelled" ELSE result[l]]
  /\ UNCHANGED <<event, diff, labelled, marked, read, subset, under>>

Label ==
  /\ event.kind = "pull_request"
  /\ labelled' = ~labelled
  /\ UNCHANGED <<event, diff, marked, phase, read, subset, result, under>>

(* "Re-run all jobs" *)
RerunAll ==
  /\ phase = "over"
  /\ phase' = "prepare"
  /\ UNCHANGED <<event, diff, labelled, marked, read, subset, result, under>>

(* "Re-run failed jobs": prepare succeeded and its outputs are kept *)
RerunFailed ==
  /\ phase = "over"
  /\ \E l \in Leg : result[l] # "passed"
  /\ phase' = "legs"
  /\ result' = [l \in Leg |-> IF result[l] = "passed" THEN "passed" ELSE "none"]
  /\ UNCHANGED <<event, diff, labelled, marked, read, subset, under>>

Next ==
  \/ Prepare \/ Cancel \/ Label \/ RerunAll \/ RerunFailed
  \/ \E l \in Leg : RunLeg(l)

Spec == Init /\ [][Next]_vars

-----------------------------------------------------------------------------
Green == phase = "over" /\ \A l \in Leg : result[l] = "passed"

(* The events that may run a subset *)
Selective ==
  [kind : {"dispatch"}, given : {text \in Inputs : Readable(text) /\ DOMAIN text \subseteq Wired}]
    \cup [kind : {"pull_request"}, payload : {FALSE}]
    \cup [kind : {"dispatch_base"}, base : {"fetched"}]

(* What the event asks the legs of an app to run *)
Asked(a) ==
  IF a \notin Wired \/ event \notin Selective \/ (event.kind = "pull_request" /\ marked)
  THEN Tests[a]
  ELSE IF event.kind = "dispatch" THEN Named(event.given, a) \cap Tests[a]
  ELSE LegRange(diff, a)

(***************************************************************************)
(* What ci.yml:202 says of the label itself: a pull request that has it    *)
(* when prepare runs is always a full run.  The call for the labels may    *)
(* fail (ci.yml:224), and then it is not.                                  *)
(***************************************************************************)
LabelForcesFull ==
  Green /\ event.kind = "pull_request" /\ marked =>
    \A l \in Leg : Tests[l[1]] \cap Compiled(l) \subseteq Ran(l)

(* The event or the answer told the last prepare of the label, if there was one *)
LabelSeen == event.kind = "pull_request" /\ marked => event.payload \/ read

(***************************************************************************)
(* A green run answers its event: whatever else failed on the way, and     *)
(* however often legs or all of it were run again, every leg ran all that  *)
(* the event asks of it and that its BC version compiles.  A forced full   *)
(* run (push, corpus bump, label, dispatch without a base) is not a subset *)
(* and no codeunit that a readable input names is dropped.  The one        *)
(* failure that it does not survive is that of the call for the labels of  *)
(* a pull request that has been labelled since its event (LabelForcesFull).*)
(***************************************************************************)
GreenAnswersTheEvent ==
  Green /\ LabelSeen => \A l \in Leg : Asked(l[1]) \cap Compiled(l) \subseteq Ran(l)

(***************************************************************************)
(* Green is about one selection: the legs of a run that was re-run in part *)
(* all ran under the selection of one prepare (CONTRIBUTING.md, "Re-run    *)
(* failed jobs reuses the earlier selection"), also when the label changed *)
(* in between.                                                             *)
(***************************************************************************)
OneSelection == Green => \A l \in Leg : under[l] = subset

(***************************************************************************)
(* No leg is red because its list was empty or compiled out: the sentinel, *)
(* the || of ci.yml and the versions together leave every leg a codeunit.  *)
(***************************************************************************)
NoLegRunsZero == \A l \in Leg : Ran(l) # {}

(***************************************************************************)
(* A given selection is kept to: besides what the input names, a subset    *)
(* has one sentinel per app, and nothing for the apps it leaves out.       *)
(***************************************************************************)
OnlyOneMore ==
  event.kind = "dispatch" /\ subset # FullRun =>
    \A a \in Wired : Cardinality(LegRange(subset, a) \ Asked(a)) <= 1
-----------------------------------------------------------------------------
(* The inductive invariant.  Every selection that a leg may read is the     *)
(* full run or keeps, for every wired app, a codeunit of its range outside  *)
(* any #if; the outputs are what this event and the label as last read may  *)
(* select; what passed since the last prepare ran under them.               *)
Kept(s) ==
  s = FullRun \/ \A a \in Wired :
                   a \in DOMAIN s /\ s[a] \subseteq Tests[a] /\ s[a] \ Conditional # {}
AllKept == Kept(subset) /\ \A l \in Leg : Kept(under[l])
SubsetOfEvent == subset \in Results(read) \cup {FullRun}
PassedUnder ==
  phase # "prepare" => \A l \in Leg : result[l] = "passed" => under[l] = subset
IInv == TypeOK /\ AllKept /\ SubsetOfEvent /\ PassedUnder
=============================================================================
