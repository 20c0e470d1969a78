--------------------------- MODULE WorkflowProofs ---------------------------
(***************************************************************************)
(* Proofs about what the two workflows report.  Pipeline, for every set of *)
(* apps and legs, every input and every answer of select(): a green run of *)
(* ci.yml ran what its event asks for, under one selection, and no leg had *)
(* an empty list.  NightlyReport, for every number of suites, files and    *)
(* baselines: a green night is a reported night, and headline, table,      *)
(* history and verdict agree with the files.                               *)
(***************************************************************************)
EXTENDS Pipeline, NightlyReport, FiniteSetTheorems, WellFoundedInduction, TLAPS

-----------------------------------------------------------------------------
(* A run of ci.yml (Pipeline): the operators                                 *)

LEMMA IdHas == \A a \in App : Tests[a] \subseteq Id
  BY DEF Id

LEMMA EventKinds ==
  ASSUME event \in Event
  PROVE  /\ event.kind \in {"push", "bump", "pull_request", "dispatch", "dispatch_base"}
         /\ event.kind \in {"push", "bump"} => event \in [kind : {"push", "bump"}]
         /\ event.kind = "pull_request" => event \in [kind : {"pull_request"}, payload : BOOLEAN]
         /\ event.kind = "dispatch" =>
              event \in [kind : {"dispatch"}, given : Inputs \cup {NotJson}]
         /\ event.kind = "dispatch_base" =>
              event \in [kind : {"dispatch_base"}, base : {"none", "fetched", "lost"}]
  BY DEF Event

(* What given() answers: a full run, or for every wired app what the input   *)
(* names and a sentinel.                                                     *)
LEMMA GivenIs ==
  ASSUME NEW text, NEW s \in Given(text)
  PROVE  \/ s = FullRun
         \/ /\ Readable(text) /\ DOMAIN text \subseteq Wired
            /\ \E sentinel \in Sentinels :
                 s = [a \in Wired |-> (Tests[a] \cap Named(text, a)) \cup {sentinel[a]}]
  BY DEF Given

LEMMA GivenKept ==
  ASSUME NEW text, NEW s \in Given(text)
  PROVE  s \in Subset /\ Kept(s)
  <1>1. CASE s = FullRun
    BY <1>1 DEF Subset, Kept
  <1>2. CASE s # FullRun
    <2>1. PICK sentinel \in Sentinels :
            s = [a \in Wired |-> (Tests[a] \cap Named(text, a)) \cup {sentinel[a]}]
      BY <1>2, GivenIs
    <2>2. \A a \in Wired : sentinel[a] \in Tests[a] \ Conditional
      BY DEF Sentinels
    <2>3. \A a \in Wired : Tests[a] \subseteq Id
      BY IdHas, TestsType
    <2>4. \A a \in Wired : s[a] \subseteq Tests[a] /\ s[a] \ Conditional # {}
      BY <2>1, <2>2
    <2>5. s \in [Wired -> SUBSET Id]
      BY <2>1, <2>2, <2>3
    <2>. QED  BY <2>1, <2>4, <2>5 DEF Subset, Kept
  <1>. QED  BY <1>1, <1>2

LEMMA DiffKept ==
  ASSUME NEW d \in Diffs
  PROVE  d \in Subset /\ Kept(d)
  <1>1. d \in Subset
    BY DiffsType
  <1>2. CASE d = FullRun
    BY <1>1, <1>2 DEF Kept
  <1>3. CASE d \in [Wired -> SUBSET Id]
    BY <1>1, <1>3, DiffsType DEF Kept
  <1>. QED  BY <1>1, <1>2, <1>3 DEF Subset

LEMMA ResultsKept ==
  ASSUME TypeOK, NEW seen, NEW s \in Results(seen) \cup {FullRun}
  PROVE  s \in Subset /\ Kept(s)
  <1>1. CASE s = FullRun
    BY <1>1 DEF Subset, Kept
  <1>2. CASE s # FullRun /\ event.kind = "dispatch"
    <2>1. s \in Given(event.given)
      BY <1>2 DEF Results
    <2>. QED  BY <2>1, GivenKept
  <1>3. CASE s # FullRun /\ event.kind # "dispatch"
    <2>1. s = diff
      BY <1>3 DEF Results
    <2>. QED  BY <2>1, DiffKept DEF TypeOK
  <1>. QED  BY <1>1, <1>2, <1>3

(* A leg's list is never without a codeunit outside any #if, and stays in    *)
(* the range of its job.                                                     *)
LEMMA LegRangeKept ==
  ASSUME NEW s, Kept(s), NEW a \in App
  PROVE  LegRange(s, a) \subseteq Tests[a] /\ LegRange(s, a) \ Conditional # {}
  <1>1. Tests[a] \ Conditional # {}
    BY FullLegsRun
  <1>2. CASE s = FullRun \/ a \notin Wired
    <2>1. Selected(s, a) = {}
      BY <1>2 DEF Selected, FullRun
    <2>. QED  BY <1>1, <2>1 DEF LegRange
  <1>3. CASE s # FullRun /\ a \in Wired
    <2>1. a \in DOMAIN s /\ s[a] \subseteq Tests[a] /\ s[a] \ Conditional # {}
      BY <1>3 DEF Kept
    <2>2. Selected(s, a) = s[a]
      BY <1>3, <2>1 DEF Selected
    <2>. QED  BY <2>1, <2>2 DEF LegRange
  <1>. QED  BY <1>2, <1>3

LEMMA FullRunRunsAll == \A a : LegRange(FullRun, a) = Tests[a]
  BY DEF LegRange, Selected, FullRun

-----------------------------------------------------------------------------
(* Pipeline: the invariant                                                   *)

LEMMA IInvInit == Init => IInv
  <1>. SUFFICES ASSUME Init PROVE IInv
    OBVIOUS
  <1>0. FullRun \in Subset /\ Kept(FullRun)
    BY DEF Subset, Kept
  <1>1. TypeOK
    <2>1. labelled \in BOOLEAN
      BY DEF Init
    <2>. QED  BY <1>0, <2>1 DEF Init, TypeOK
  <1>2. AllKept
    BY <1>0 DEF Init, AllKept
  <1>3. SubsetOfEvent /\ PassedUnder
    BY DEF Init, SubsetOfEvent, PassedUnder
  <1>. QED  BY <1>1, <1>2, <1>3 DEF IInv


LEMMA IInvStep == IInv /\ [Next]_vars => IInv'
  <1>. SUFFICES ASSUME IInv, [Next]_vars PROVE IInv'
    OBVIOUS
  <1>0. /\ TypeOK /\ AllKept /\ SubsetOfEvent /\ PassedUnder
        /\ event \in Event /\ diff \in Diffs /\ labelled \in BOOLEAN
        /\ marked \in BOOLEAN /\ read \in BOOLEAN
        /\ phase \in {"prepare", "legs", "over"} /\ subset \in Subset
        /\ result \in [Leg -> {"none", "passed", "failed", "cancelled"}]
        /\ under \in [Leg -> Subset]
    BY DEF IInv, TypeOK
  <1>1. CASE Prepare
    <2>1. PICK seen \in {labelled, FALSE} :
            read' = seen /\ subset' \in Results(seen) \cup {FullRun}
      BY <1>1 DEF Prepare
    <2>2. UNCHANGED <<event, diff, labelled, under>> /\ phase' = "legs"
          /\ result' = [l \in Leg |-> "none"] /\ marked' = labelled
      BY <1>1 DEF Prepare
    <2>3. subset' \in Subset /\ Kept(subset')
      BY <1>0, <2>1, ResultsKept
    <2>4. read' \in BOOLEAN
      BY <1>0, <2>1
    <2>5. TypeOK'
      BY <1>0, <2>2, <2>3, <2>4 DEF TypeOK
    <2>6. AllKept'
      BY <1>0, <2>2, <2>3 DEF AllKept, Kept
    <2>7. SubsetOfEvent'
      BY <2>1, <2>2 DEF SubsetOfEvent, Results, Forced
    <2>8. PassedUnder'
      BY <2>2 DEF PassedUnder
    <2>. QED  BY <2>5, <2>6, <2>7, <2>8 DEF IInv
  <1>2. ASSUME NEW l \in Leg, RunLeg(l) PROVE IInv'
    <2>1. /\ UNCHANGED <<event, diff, labelled, marked, read, subset>>
          /\ under' = [under EXCEPT ![l] = subset]
          /\ phase = "legs" /\ phase' \in {"legs", "over"}
          /\ \E verdict \in {"failed", "passed"} : result' = [result EXCEPT ![l] = verdict]
      BY <1>2 DEF RunLeg
    <2>2. TypeOK'
      BY <1>0, <2>1 DEF TypeOK
    <2>3. AllKept'
      BY <1>0, <2>1 DEF AllKept, Kept
    <2>4. SubsetOfEvent'
      BY <1>0, <2>1 DEF SubsetOfEvent, Results, Forced
    <2>5. PassedUnder'
      BY <1>0, <2>1 DEF PassedUnder
    <2>. QED  BY <2>2, <2>3, <2>4, <2>5 DEF IInv
  <1>3. CASE Cancel \/ RerunAll \/ RerunFailed
    <2>1. /\ UNCHANGED <<event, diff, labelled, marked, read, subset, under>>
          /\ phase' \in {"prepare", "legs", "over"}
          /\ phase = "prepare" => phase' = "prepare"
          /\ result' \in [Leg -> {"none", "passed", "failed", "cancelled"}]
          /\ \A l \in Leg : result'[l] = "passed" => result[l] = "passed"
      BY <1>0, <1>3 DEF Cancel, RerunAll, RerunFailed
    <2>2. TypeOK'
      BY <1>0, <2>1 DEF TypeOK
    <2>3. AllKept' /\ SubsetOfEvent' /\ PassedUnder'
      BY <1>0, <2>1 DEF AllKept, Kept, SubsetOfEvent, Results, Forced, PassedUnder
    <2>. QED  BY <2>2, <2>3 DEF IInv
  <1>4. CASE Label
    <2>1. UNCHANGED <<event, diff, marked, phase, read, subset, result, under>>
          /\ labelled' = ~labelled
      BY <1>4 DEF Label
    <2>2. TypeOK'
      BY <1>0, <2>1 DEF TypeOK
    <2>3. AllKept' /\ SubsetOfEvent' /\ PassedUnder'
      BY <1>0, <2>1 DEF AllKept, Kept, SubsetOfEvent, Results, Forced, PassedUnder
    <2>. QED  BY <2>2, <2>3 DEF IInv
  <1>5. CASE UNCHANGED vars
    BY <1>0, <1>5 DEF vars, IInv, TypeOK, AllKept, Kept, SubsetOfEvent, Results, Forced, PassedUnder
  <1>. QED  BY <1>1, <1>2, <1>3, <1>4, <1>5 DEF Next

(***************************************************************************)
(* In every run, whatever the event, the labels, the cancellations and the *)
(* re-runs, the outputs of prepare are what the event may select, and what *)
(* passed ran under them.                                                  *)
(***************************************************************************)
THEOREM PipelineInductiveInvariant == Spec => []IInv
  <1>. QED  BY IInvInit, IInvStep, PTL DEF Spec

(***************************************************************************)
(* The variables of a pipeline run keep their types, the JSON object of    *)
(* the outputs among them: it is empty or has every wired app.             *)
(***************************************************************************)
THEOREM PipelineTypeCorrect == Spec => []TypeOK
  <1>1. IInv => TypeOK
    BY DEF IInv
  <1>. QED  BY <1>1, PipelineInductiveInvariant, PTL

-----------------------------------------------------------------------------
(* Pipeline: the properties                                                  *)

(***************************************************************************)
(* A green run, re-run in part or not, has one selection: the jobs that    *)
(* the re-run left alone passed under the outputs of the same prepare.     *)
(***************************************************************************)
THEOREM OneSelectionHolds == Spec => []OneSelection
  <1>1. IInv => OneSelection
    BY DEF IInv, PassedUnder, OneSelection, Green
  <1>. QED  BY <1>1, PipelineInductiveInvariant, PTL

(***************************************************************************)
(* No leg of any run has an empty list: the sentinel of given(), what      *)
(* select() keeps, and the || of ci.yml for a full run each leave one      *)
(* codeunit that every version compiles.                                   *)
(***************************************************************************)
THEOREM NoLegRunsZeroHolds == Spec => []NoLegRunsZero
  <1>1. ASSUME IInv PROVE NoLegRunsZero
    <2>. SUFFICES ASSUME NEW l \in Leg PROVE Ran(l) # {}
      BY DEF NoLegRunsZero
    <2>1. l[1] \in App
      BY LegType
    <2>2. Kept(under[l])
      BY <1>1 DEF IInv, AllKept
    <2>3. PICK u \in LegRange(under[l], l[1]) \ Conditional : u \in Tests[l[1]]
      BY <2>1, <2>2, LegRangeKept
    <2>4. u \in Id
      BY <2>1, <2>3, IdHas
    <2>5. u \in Compiled(l)
      BY <2>3, <2>4 DEF Compiled
    <2>. QED  BY <2>3, <2>5 DEF Ran
  <1>. QED  BY <1>1, PipelineInductiveInvariant, PTL

(* An event that may not select, or a pull request with the label, forces a  *)
(* full run, or is an input that given() does not take.                      *)
LEMMA NotSelectiveIsFull ==
  ASSUME IInv, event \notin Selective \/ (event.kind = "pull_request" /\ read)
  PROVE  subset = FullRun
  <1>0. event \in Event /\ subset \in Results(read) \cup {FullRun}
    BY DEF IInv, TypeOK, SubsetOfEvent
  <1>1. CASE event.kind \in {"push", "bump"}
    BY <1>0, <1>1 DEF Results, Forced
  <1>2. CASE event.kind = "pull_request"
    <2>1. event \in [kind : {"pull_request"}, payload : BOOLEAN]
      BY <1>0, <1>2, EventKinds
    <2>2. ~event.payload => event \in [kind : {"pull_request"}, payload : {FALSE}]
      BY <2>1
    <2>3. event.payload \/ read
      BY <1>2, <2>2 DEF Selective
    <2>. QED  BY <1>0, <1>2, <2>3 DEF Results, Forced
  <1>3. CASE event.kind = "dispatch_base"
    <2>1. event \in [kind : {"dispatch_base"}, base : {"none", "fetched", "lost"}]
      BY <1>0, <1>3, EventKinds
    <2>2. event.base # "fetched"
      BY <1>3, <2>1 DEF Selective
    <2>. QED  BY <1>0, <1>3, <2>2 DEF Results, Forced
  <1>4. CASE event.kind = "dispatch"
    <2>1. event \in [kind : {"dispatch"}, given : Inputs \cup {NotJson}]
      BY <1>0, <1>4, EventKinds
    <2>2. ~(Readable(event.given) /\ DOMAIN event.given \subseteq Wired)
      <3>. SUFFICES ASSUME Readable(event.given), DOMAIN event.given \subseteq Wired
                    PROVE  FALSE
        OBVIOUS
      <3>1. event.given \in {text \in Inputs : Readable(text) /\ DOMAIN text \subseteq Wired}
        BY <2>1 DEF Readable
      <3>2. event \in Selective
        BY <2>1, <3>1 DEF Selective
      <3>. QED  BY <1>4, <3>2
    <2>3. Given(event.given) = {FullRun}
      BY <2>2 DEF Given
    <2>. QED  BY <1>0, <1>4, <2>3 DEF Results
  <1>. QED  BY <1>0, <1>1, <1>2, <1>3, <1>4, EventKinds

(* What the event asks for, the outputs select. *)
LEMMA AskedIsSelected ==
  ASSUME IInv, LabelSeen, NEW a \in App
  PROVE  Asked(a) \subseteq LegRange(subset, a)
  <1>0. event \in Event /\ subset \in Results(read) \cup {FullRun} /\ diff \in Diffs
    BY DEF IInv, TypeOK, SubsetOfEvent
  <1>1. CASE a \notin Wired
    BY <1>1 DEF Asked, LegRange, Selected
  <1>2. CASE a \in Wired /\ (event \notin Selective \/ (event.kind = "pull_request" /\ marked))
    <2>1. Asked(a) = Tests[a]
      BY <1>2 DEF Asked
    <2>2. event \notin Selective \/ (event.kind = "pull_request" /\ read)
      <3>1. event \in Selective /\ event.kind = "pull_request" => ~event.payload
        BY DEF Selective
      <3>. QED  BY <1>2, <3>1 DEF LabelSeen
    <2>. QED  BY <2>1, <2>2, NotSelectiveIsFull, FullRunRunsAll
  <1>3. CASE a \in Wired /\ event \in Selective /\ event.kind = "dispatch"
    <2>1. Asked(a) = Named(event.given, a) \cap Tests[a]
      BY <1>3 DEF Asked
    <2>2. CASE subset = FullRun
      BY <2>1, <2>2, FullRunRunsAll
    <2>3. CASE subset # FullRun
      <3>1. subset \in Given(event.given)
        BY <1>0, <1>3, <2>3 DEF Results
      <3>2. PICK s \in Sentinels :
              subset = [b \in Wired |-> (Tests[b] \cap Named(event.given, b)) \cup {s[b]}]
        BY <2>3, <3>1, GivenIs
      <3>3. Selected(subset, a) = (Tests[a] \cap Named(event.given, a)) \cup {s[a]}
        BY <1>3, <3>2 DEF Selected
      <3>. QED  BY <2>1, <3>3 DEF LegRange
    <2>. QED  BY <2>2, <2>3
  <1>4. CASE /\ a \in Wired /\ event \in Selective /\ event.kind # "dispatch"
             /\ ~(event.kind = "pull_request" /\ marked)
    <2>1. Asked(a) = LegRange(diff, a)
      BY <1>4 DEF Asked
    <2>2. subset \in {diff, FullRun}
      BY <1>0, <1>4 DEF Results
    <2>3. LegRange(diff, a) \subseteq Tests[a]
      BY <1>0, DiffKept, LegRangeKept
    <2>. QED  BY <2>1, <2>2, <2>3, FullRunRunsAll
  <1>. QED  BY <1>1, <1>2, <1>3, <1>4

(***************************************************************************)
(* A green run answers its event, for every event, app, version and input, *)
(* and after every failure but one: each leg ran all that the event and    *)
(* the label itself, as it was when prepare last ran, ask of it and that   *)
(* its version compiles.  The one failure is that of the call for the      *)
(* labels when it alone would have told prepare (ci.yml 224).              *)
(***************************************************************************)
THEOREM GreenAnswersTheEventHolds == Spec => []GreenAnswersTheEvent
  <1>1. ASSUME IInv PROVE GreenAnswersTheEvent
    <2>. SUFFICES ASSUME Green, LabelSeen, NEW l \in Leg
                  PROVE  Asked(l[1]) \cap Compiled(l) \subseteq Ran(l)
      BY DEF GreenAnswersTheEvent
    <2>1. l[1] \in App
      BY LegType
    <2>2. under[l] = subset
      BY <1>1 DEF Green, IInv, PassedUnder
    <2>3. Asked(l[1]) \subseteq LegRange(under[l], l[1])
      BY <1>1, <2>1, <2>2, AskedIsSelected
    <2>. QED  BY <2>3 DEF Ran
  <1>. QED  BY <1>1, PipelineInductiveInvariant, PTL

(***************************************************************************)
(* A given selection is kept to: an input by hand adds one sentinel per    *)
(* app to what it names, whatever it names.                                *)
(***************************************************************************)
THEOREM OnlyOneMoreHolds == Spec => []OnlyOneMore
  <1>1. ASSUME IInv PROVE OnlyOneMore
    <2>. SUFFICES ASSUME event.kind = "dispatch", subset # FullRun, NEW a \in Wired
                  PROVE  Cardinality(LegRange(subset, a) \ Asked(a)) <= 1
      BY DEF OnlyOneMore
    <2>1. subset \in Given(event.given)
      BY <1>1 DEF IInv, SubsetOfEvent, Results
    <2>2. PICK s \in Sentinels :
            subset = [b \in Wired |-> (Tests[b] \cap Named(event.given, b)) \cup {s[b]}]
      BY <2>1, GivenIs
    <2>3. LegRange(subset, a) = (Tests[a] \cap Named(event.given, a)) \cup {s[a]}
      BY <2>2 DEF LegRange, Selected
    <2>4. event \in Selective
      BY <1>1, NotSelectiveIsFull
    <2>5. Asked(a) = Named(event.given, a) \cap Tests[a]
      BY <2>4 DEF Asked
    <2>6. LegRange(subset, a) \ Asked(a) \subseteq {s[a]}
      BY <2>3, <2>5
    <2>7. IsFiniteSet({s[a]}) /\ Cardinality({s[a]}) = 1
      BY FS_Singleton
    <2>. QED  BY <2>6, <2>7, FS_Subset
  <1>. QED  BY <1>1, PipelineInductiveInvariant, PTL

-----------------------------------------------------------------------------
(* Induction and recursion over an interval, for sets and functions          *)

LEMMA LeastMember ==
  ASSUME NEW lacking \in SUBSET Nat, lacking # {}
  PROVE  \E m \in lacking : \A k \in lacking : m <= k
  <1>1. PICK x \in lacking : \A y \in lacking : ~(<<y, x>> \in OpToRel(<, Nat))
    BY NatLessThanWellFounded, WFMin
  <1>2. ASSUME NEW y \in lacking PROVE x <= y
    <2>1. x \in Nat /\ y \in Nat /\ <<y, x>> \in Nat \X Nat
      OBVIOUS
    <2>2. y < x => <<y, x>> \in OpToRel(<, Nat)
      BY <2>1 DEF OpToRel
    <2>3. ~(<<y, x>> \in OpToRel(<, Nat))
      BY <1>1
    <2>4. ~(y < x)
      BY <2>2, <2>3, Zenon
    <2>. QED  BY <2>1, <2>4
  <1>. QED  BY <1>2

(* A set that has 0, and with every k < n also k + 1, has all of 0..n. *)
LEMMA Upwards ==
  ASSUME NEW n \in Nat, NEW S, 0 \in S, \A k \in 0..(n - 1) : k \in S => k + 1 \in S
  PROVE  0..n \subseteq S
  <1>. DEFINE lacking == 0..n \ S
  <1>1. SUFFICES ASSUME lacking # {} PROVE FALSE
    OBVIOUS
  <1>2. lacking \in SUBSET Nat
    OBVIOUS
  <1>3. PICK m \in lacking : \A k \in lacking : m <= k
    <2>. HIDE DEF lacking
    <2>. QED  BY <1>1, <1>2, LeastMember
  <1>4. m \in 1..n /\ m \notin S
    OBVIOUS
  <1>5. m - 1 \in S
    BY <1>3, <1>4
  <1>. QED  BY <1>4, <1>5

(* What is defined step by step exists: turns[i] is what turn i makes of the *)
(* value before it.                                                          *)
Turns(n, V) == [1..n -> [V -> V]]
Unrolled(g, n, V, first, turns) ==
  g \in [0..n -> V] /\ g[0] = first /\ \A i \in 1..n : g[i] = turns[i][g[i - 1]]

LEMMA Iterates ==
  ASSUME NEW n \in Nat, NEW V, NEW first \in V, NEW turns \in Turns(n, V)
  PROVE  \E g : Unrolled(g, n, V, first, turns)
  <1>. DEFINE Good(m, g) == g[0] = first /\ \A i \in 1..m : g[i] = turns[i][g[i - 1]]
              S == {m \in 0..n : \E g \in [0..m -> V] : Good(m, g)}
  <1>1. 0 \in S
    <2>1. PICK g : g = [i \in 0..0 |-> first]
      OBVIOUS
    <2>2. g \in [0..0 -> V] /\ g[0] = first
      BY <2>1
    <2>. QED  BY <2>2
  <1>2. ASSUME NEW k \in 0..(n - 1), k \in S PROVE k + 1 \in S
    <2>1. PICK g \in [0..k -> V] : Good(k, g)
      BY <1>2
    <2>2. k \in 0..k /\ k + 1 \in 1..n /\ g[k] \in V /\ turns[k + 1] \in [V -> V]
      BY DEF Turns
    <2>3. PICK h : h = [i \in 0..(k + 1) |-> IF i = k + 1 THEN turns[k + 1][g[k]] ELSE g[i]]
      OBVIOUS
    <2>4. h \in [0..(k + 1) -> V]
      BY <2>2, <2>3
    <2>5. \A i \in 0..k : h[i] = g[i]
      BY <2>3
    <2>6. h[k + 1] = turns[k + 1][h[k]]
      BY <2>2, <2>3, <2>5
    <2>7. ASSUME NEW i \in 1..(k + 1) PROVE h[i] = turns[i][h[i - 1]]
      <3>1. CASE i = k + 1
        BY <2>6, <3>1
      <3>2. CASE i # k + 1
        <4>1. i \in 1..k /\ i \in 0..k /\ i - 1 \in 0..k
          BY <3>2
        <4>. QED  BY <2>1, <2>5, <4>1
      <3>. QED  BY <3>1, <3>2
    <2>8. h[0] = first
      BY <2>1, <2>5
    <2>. QED  BY <2>4, <2>7, <2>8
  <1>3. n \in S
    <2>1. 0..n \subseteq S
      <3>. HIDE DEF S
      <3>. QED  BY <1>1, <1>2, Upwards
    <2>. QED  BY <2>1
  <1>. QED  BY <1>3 DEF Unrolled

-----------------------------------------------------------------------------
(* The report of a night (NightlyReport): the operators                      *)

LEMMA Appended ==
  ASSUME NEW V, NEW q \in Seq(V), NEW e \in V
  PROVE  /\ Append(q, e) \in Seq(V) /\ Len(q) \in Nat /\ Len(Append(q, e)) = Len(q) + 1
         /\ Append(q, e)[Len(q) + 1] = e
         /\ \A j \in 1..Len(q) : Append(q, e)[j] = q[j]
  OBVIOUS

LEMMA Elements ==
  ASSUME NEW V, NEW q, q \in Seq(V)
  PROVE  Len(q) \in Nat /\ DOMAIN q = 1..Len(q) /\ \A i \in DOMAIN q : q[i] \in V
  OBVIOUS

LEMMA NothingYet ==
  ASSUME NEW V
  PROVE  <<>> \in Seq(V) /\ Len(<<>>) = 0
  OBVIOUS

LEMMA DisjointCardinality ==
  ASSUME NEW P, NEW F, IsFiniteSet(P), IsFiniteSet(F), P \cap F = {}
  PROVE  /\ IsFiniteSet(P \cup F) /\ Cardinality(P) \in Nat /\ Cardinality(F) \in Nat
         /\ Cardinality(P \cup F) = Cardinality(P) + Cardinality(F)
  <1>1. Cardinality(P) \in Nat /\ Cardinality(F) \in Nat
    BY FS_CardinalityType
  <1>2. Cardinality(P \cap F) = 0
    BY FS_EmptySet
  <1>3. /\ IsFiniteSet(P \cup F)
        /\ Cardinality(P \cup F) = Cardinality(P) + Cardinality(F) - Cardinality(P \cap F)
    BY FS_Union
  <1>. QED  BY <1>1, <1>2, <1>3

IsFailure(t) == t.result \notin {"Pass", "Skip"}

(* The comprehension of the failed rows, row by row. *)
LEMMA FailedUnfold ==
  ASSUME NEW rows \in Seq(Row)
  PROVE  \E g \in [0..Len(rows) -> Seq(Row)] :
           /\ Failed(rows) = g[Len(rows)]
           /\ g[0] = <<>>
           /\ \A i \in 1..Len(rows) :
                g[i] = IF IsFailure(rows[i]) THEN Append(g[i - 1], rows[i]) ELSE g[i - 1]
  <1>. DEFINE L == Len(rows)
              Body(g) == [n \in 0..L |->
                IF n = 0 THEN <<>>
                ELSE IF rows[n].result \in {"Pass", "Skip"} THEN g[n - 1]
                ELSE Append(g[n - 1], rows[n])]
              upTo == CHOOSE g : g = Body(g)
  <1>0. L \in Nat /\ \A i \in 1..L : rows[i] \in Row
    OBVIOUS
  <1>1. Failed(rows) = upTo[L]
    BY DEF Failed
  <1>2. \E g : g = Body(g)
    <2>. DEFINE more == [i \in 1..L |-> [q \in Seq(Row) |->
                  IF rows[i].result \in {"Pass", "Skip"} THEN q ELSE Append(q, rows[i])]]
    <2>1. more \in [1..L -> [Seq(Row) -> Seq(Row)]]
      BY <1>0
    <2>2. <<>> \in Seq(Row)
      OBVIOUS
    <2>3. PICK g \in [0..L -> Seq(Row)] :
            g[0] = <<>> /\ \A i \in 1..L : g[i] = more[i][g[i - 1]]
      <3>1. L \in Nat
        BY <1>0
      <3>2. PICK none, n, V, turns :
              none = <<>> /\ n = L /\ V = Seq(Row) /\ turns = more
        OBVIOUS
      <3>. HIDE DEF more, L
      <3>3. n \in Nat /\ none \in V /\ turns \in Turns(n, V)
        BY <2>1, <2>2, <3>1, <3>2 DEF Turns
      <3>4. \E g : Unrolled(g, n, V, none, turns)
        BY <3>3, Iterates
      <3>. QED  BY <3>2, <3>4 DEF Unrolled
    <2>4. ASSUME NEW n \in 0..L PROVE g[n] = Body(g)[n]
      <3>1. CASE n = 0
        BY <1>0, <2>3, <3>1
      <3>2. CASE n # 0
        <4>1. n \in 1..L /\ n - 1 \in 0..L /\ g[n - 1] \in Seq(Row)
          BY <1>0, <3>2
        <4>. QED  BY <2>3, <4>1
      <3>. QED  BY <3>1, <3>2
    <2>5. g = Body(g)
      BY <2>4
    <2>. QED  BY <2>5
  <1>3. upTo = Body(upTo)
    <2>. HIDE DEF Body
    <2>. QED  BY <1>2
  <1>4. /\ upTo[0] = <<>>
        /\ \A i \in 1..L :
             upTo[i] = IF IsFailure(rows[i]) THEN Append(upTo[i - 1], rows[i]) ELSE upTo[i - 1]
        /\ DOMAIN upTo = 0..L
    <2>1. \A n \in 0..L : upTo[n] = Body(upTo)[n]
      BY <1>3
    <2>2. DOMAIN Body(upTo) = 0..L
      OBVIOUS
    <2>. HIDE DEF upTo
    <2>. QED  BY <1>0, <1>3, <2>1, <2>2 DEF IsFailure
  <1>5. upTo \in [0..L -> Seq(Row)]
    <2>. DEFINE S == {m \in 0..L : upTo[m] \in Seq(Row)}
    <2>. HIDE DEF upTo
    <2>1. 0 \in S
      <3>1. upTo[0] \in Seq(Row)
        BY <1>4, NothingYet
      <3>. QED  BY <1>0, <3>1
    <2>2. ASSUME NEW k \in 0..(L - 1), k \in S PROVE k + 1 \in S
      <3>1. k + 1 \in 1..L /\ (k + 1) - 1 = k /\ upTo[k] \in Seq(Row) /\ rows[k + 1] \in Row
        BY <1>0, <2>2
      <3>2. upTo[k + 1] = IF IsFailure(rows[k + 1]) THEN Append(upTo[k], rows[k + 1]) ELSE upTo[k]
        BY <1>4, <3>1
      <3>3. upTo[k + 1] \in Seq(Row)
        BY <3>1, <3>2, Appended
      <3>. QED  BY <1>0, <3>1, <3>3
    <2>3. 0..L \subseteq S
      <3>. HIDE DEF S, L
      <3>. QED  BY <1>0, <2>1, <2>2, Upwards
    <2>4. upTo = [n \in 0..L |-> upTo[n]]
      <3>1. upTo = Body(upTo)
        BY <1>3
      <3>. QED  BY <3>1, <1>4
    <2>. QED  BY <2>3, <2>4
  <1>. HIDE DEF upTo
  <1>. QED  BY <1>1, <1>4, <1>5

(***************************************************************************)
(* The failed rows are the rows that failed, as many as there are.         *)
(***************************************************************************)
LEMMA FailedIs ==
  ASSUME NEW rows \in Seq(Row)
  PROVE  /\ Failed(rows) \in Seq(Row)
         /\ \A i \in DOMAIN rows : IsFailure(rows[i]) => rows[i] \in ToSet(Failed(rows))
         /\ IsFiniteSet({i \in DOMAIN rows : IsFailure(rows[i])})
         /\ Len(Failed(rows)) = Cardinality({i \in DOMAIN rows : IsFailure(rows[i])})
  <1>. DEFINE L == Len(rows)
              Those(m) == {i \in 1..m : IsFailure(rows[i])}
              Right(m, q) ==
                /\ q \in Seq(Row)
                /\ \A i \in Those(m) : \E j \in 1..Len(q) : q[j] = rows[i]
                /\ IsFiniteSet(Those(m)) /\ Len(q) = Cardinality(Those(m))
  <1>0. L \in Nat /\ DOMAIN rows = 1..L /\ \A i \in 1..L : rows[i] \in Row
    OBVIOUS
  <1>1. PICK g \in [0..L -> Seq(Row)] :
          /\ Failed(rows) = g[L] /\ g[0] = <<>>
          /\ \A i \in 1..L :
               g[i] = IF IsFailure(rows[i]) THEN Append(g[i - 1], rows[i]) ELSE g[i - 1]
    BY FailedUnfold
  <1>. DEFINE S == {m \in 0..L : Right(m, g[m])}
  <1>2. 0 \in S
    <2>1. Those(0) = {}
      OBVIOUS
    <2>2. Right(0, <<>>)
      BY <2>1, FS_EmptySet
    <2>. HIDE DEF Right
    <2>. QED  BY <1>0, <1>1, <2>2
  <1>3. ASSUME NEW k \in 0..(L - 1), k \in S PROVE k + 1 \in S
    <2>1. k + 1 \in 1..L /\ k + 1 \in 0..L /\ (k + 1) - 1 = k /\ k \in Nat /\ rows[k + 1] \in Row
      BY <1>0
    <2>2. Right(k, g[k])
      BY <1>3
    <2>3. CASE ~IsFailure(rows[k + 1])
      <3>1. Those(k + 1) = Those(k)
        BY <2>1, <2>3
      <3>2. g[k + 1] = g[k]
        BY <1>1, <2>1, <2>3
      <3>3. Right(k + 1, g[k + 1])
        BY <2>2, <3>1, <3>2
      <3>. QED  BY <2>1, <3>3
    <2>4. CASE IsFailure(rows[k + 1])
      <3>1. Those(k + 1) = Those(k) \cup {k + 1} /\ k + 1 \notin Those(k)
        BY <2>1, <2>4
      <3>2. g[k + 1] = Append(g[k], rows[k + 1])
        BY <1>1, <2>1, <2>4
      <3>3. g[k] \in Seq(Row) /\ IsFiniteSet(Those(k)) /\ Len(g[k]) = Cardinality(Those(k))
        BY <2>2
      <3>4. /\ g[k + 1] \in Seq(Row) /\ Len(g[k + 1]) = Len(g[k]) + 1
            /\ g[k + 1][Len(g[k]) + 1] = rows[k + 1]
            /\ \A j \in 1..Len(g[k]) : g[k + 1][j] = g[k][j]
        <4>1. PICK q \in Seq(Row), row \in Row : q = g[k] /\ row = rows[k + 1]
          BY <2>1, <3>3
        <4>2. /\ Append(q, row) \in Seq(Row) /\ Len(Append(q, row)) = Len(q) + 1
              /\ Append(q, row)[Len(q) + 1] = row
              /\ \A j \in 1..Len(q) : Append(q, row)[j] = q[j]
          BY Appended
        <4>. QED  BY <3>2, <4>1, <4>2
      <3>5. IsFiniteSet(Those(k + 1)) /\ Cardinality(Those(k + 1)) = Cardinality(Those(k)) + 1
        <4>. HIDE DEF Those
        <4>. QED  BY <3>1, <3>3, FS_AddElement
      <3>6. \A i \in Those(k + 1) : \E j \in 1..Len(g[k + 1]) : g[k + 1][j] = rows[i]
        <4>1. ASSUME NEW i \in Those(k) PROVE \E j \in 1..Len(g[k + 1]) : g[k + 1][j] = rows[i]
          <5>1. PICK j \in 1..Len(g[k]) : g[k][j] = rows[i]
            BY <2>2
          <5>2. Len(g[k]) \in Nat
            BY <3>3
          <5>3. j \in 1..Len(g[k + 1])
            BY <3>4, <5>2
          <5>. QED  BY <3>4, <5>1, <5>3
        <4>2. Len(g[k]) + 1 \in 1..Len(g[k + 1])
          BY <3>3, <3>4
        <4>. HIDE DEF Those
        <4>. QED  BY <3>1, <3>4, <4>1, <4>2
      <3>7. Right(k + 1, g[k + 1])
        <4>. HIDE DEF Those
        <4>. QED  BY <3>3, <3>4, <3>5, <3>6
      <3>. HIDE DEF Right
      <3>. QED  BY <2>1, <3>7
    <2>. QED  BY <2>3, <2>4
  <1>4. Right(L, Failed(rows))
    <2>1. 0..L \subseteq S
      <3>. HIDE DEF S, L
      <3>. QED  BY <1>0, <1>2, <1>3, Upwards
    <2>2. L \in 0..L
      BY <1>0
    <2>. HIDE DEF Right
    <2>. QED  BY <1>1, <2>1, <2>2
  <1>5. /\ Failed(rows) \in Seq(Row)
        /\ \A i \in Those(L) : \E j \in 1..Len(Failed(rows)) : Failed(rows)[j] = rows[i]
        /\ IsFiniteSet(Those(L)) /\ Len(Failed(rows)) = Cardinality(Those(L))
    BY <1>4
  <1>6. DOMAIN Failed(rows) = 1..Len(Failed(rows))
    BY <1>5
  <1>7. Those(L) = {i \in DOMAIN rows : IsFailure(rows[i])}
    BY <1>0
  <1>8. ASSUME NEW i \in DOMAIN rows, IsFailure(rows[i]) PROVE rows[i] \in ToSet(Failed(rows))
    BY <1>5, <1>6, <1>7, <1>8 DEF ToSet
  <1>. QED  BY <1>5, <1>7, <1>8

(* There are n places up to n. *)
LEMMA UpTo == \A n \in Nat : IsFiniteSet(1..n) /\ Cardinality(1..n) = n
  BY FS_Interval

(* Every test is in one of the three counts of the headline. *)
LEMMA CountsAddUp ==
  ASSUME NEW rows \in Seq(Row)
  PROVE  /\ Counted(rows, "Pass") \in Nat /\ Counted(rows, "Skip") \in Nat
         /\ Counted(rows, "Pass") + Len(Failed(rows)) + Counted(rows, "Skip") = Len(rows)
  <1>. DEFINE P == {i \in DOMAIN rows : rows[i].result = "Pass"}
              K == {i \in DOMAIN rows : rows[i].result = "Skip"}
              F == {i \in DOMAIN rows : IsFailure(rows[i])}
  <1>1. IsFiniteSet(DOMAIN rows) /\ Cardinality(DOMAIN rows) = Len(rows) /\ Len(rows) \in Nat
    <2>1. DOMAIN rows = 1..Len(rows) /\ Len(rows) \in Nat
      OBVIOUS
    <2>. QED  BY <2>1, UpTo
  <1>2. P \subseteq DOMAIN rows /\ K \subseteq DOMAIN rows /\ F \subseteq DOMAIN rows
    OBVIOUS
  <1>3. P \cup F \cup K = DOMAIN rows /\ P \cap F = {} /\ (P \cup F) \cap K = {}
    BY DEF IsFailure
  <1>4. Counted(rows, "Pass") = Cardinality(P) /\ Counted(rows, "Skip") = Cardinality(K)
        /\ Len(Failed(rows)) = Cardinality(F)
    BY FailedIs DEF Counted
  <1>. HIDE DEF P, K, F
  <1>5. IsFiniteSet(P) /\ IsFiniteSet(K) /\ IsFiniteSet(F)
    BY <1>1, <1>2, FS_Subset
  <1>6. IsFiniteSet(P \cup F) /\ Cardinality(P \cup F) = Cardinality(P) + Cardinality(F)
    BY <1>3, <1>5, DisjointCardinality
  <1>7. Cardinality(P \cup F \cup K) = Cardinality(P \cup F) + Cardinality(K)
    BY <1>3, <1>5, <1>6, DisjointCardinality
  <1>8. Cardinality(P) \in Nat /\ Cardinality(K) \in Nat /\ Cardinality(F) \in Nat
    BY <1>5, FS_CardinalityType
  <1>. QED  BY <1>1, <1>3, <1>4, <1>6, <1>7, <1>8
(* Rows in order: Before is a strict total order of the indices. *)
LEMMA BeforeIsTotal ==
  ASSUME NEW rows \in Seq(Row)
  PROVE  /\ \A i \in DOMAIN rows : ~Before(rows, i, i)
         /\ \A i, j \in DOMAIN rows : i # j => Before(rows, i, j) \/ Before(rows, j, i)
         /\ \A i, j, k \in DOMAIN rows :
              Before(rows, i, j) /\ Before(rows, j, k) => Before(rows, i, k)
  <1>1. \A i \in DOMAIN rows : i \in Nat /\ rows[i].key[1] \in Nat /\ rows[i].key[2] \in Nat
    <2>1. \A i \in DOMAIN rows : i \in Nat /\ rows[i] \in Row
      OBVIOUS
    <2>2. \A r \in Row : r.key[1] \in Nat /\ r.key[2] \in Nat
      BY DEF Row
    <2>3. ASSUME NEW i \in DOMAIN rows
          PROVE  i \in Nat /\ rows[i].key[1] \in Nat /\ rows[i].key[2] \in Nat
      BY <2>1, <2>2, Zenon
    <2>. QED  BY <2>3, Zenon
  <1>2. ASSUME NEW i \in DOMAIN rows PROVE ~Before(rows, i, i)
    <2>1. i \in Nat /\ rows[i].key[1] \in Nat /\ rows[i].key[2] \in Nat
      BY <1>1, Zenon
    <2>. QED  BY <2>1 DEF Before
  <1>3. ASSUME NEW i \in DOMAIN rows, NEW j \in DOMAIN rows, i # j
        PROVE  Before(rows, i, j) \/ Before(rows, j, i)
    <2>1. /\ i \in Nat /\ rows[i].key[1] \in Nat /\ rows[i].key[2] \in Nat
          /\ j \in Nat /\ rows[j].key[1] \in Nat /\ rows[j].key[2] \in Nat
      BY <1>1, Zenon
    <2>. QED  BY <1>3, <2>1 DEF Before
  <1>4. ASSUME NEW i \in DOMAIN rows, NEW j \in DOMAIN rows, NEW k \in DOMAIN rows,
               Before(rows, i, j), Before(rows, j, k)
        PROVE  Before(rows, i, k)
    <2>1. /\ i \in Nat /\ rows[i].key[1] \in Nat /\ rows[i].key[2] \in Nat
          /\ j \in Nat /\ rows[j].key[1] \in Nat /\ rows[j].key[2] \in Nat
          /\ k \in Nat /\ rows[k].key[1] \in Nat /\ rows[k].key[2] \in Nat
      BY <1>1, Zenon
    <2>2. /\ rows[i].key[1] <= rows[j].key[1] /\ rows[j].key[1] <= rows[k].key[1]
          /\ rows[i].key[1] = rows[j].key[1] =>
               \/ rows[i].key[2] < rows[j].key[2]
               \/ rows[i].key[2] = rows[j].key[2] /\ i < j
          /\ rows[j].key[1] = rows[k].key[1] =>
               \/ rows[j].key[2] < rows[k].key[2]
               \/ rows[j].key[2] = rows[k].key[2] /\ j < k
      BY <1>4, <2>1 DEF Before
    <2>3. CASE rows[i].key[1] < rows[k].key[1]
      BY <2>3 DEF Before
    <2>4. CASE rows[i].key[1] = rows[j].key[1] /\ rows[j].key[1] = rows[k].key[1]
      BY <2>1, <2>2, <2>4 DEF Before
    <2>. QED  BY <2>1, <2>2, <2>3, <2>4
  <1>. QED  BY <1>2, <1>3, <1>4, Zenon

(***************************************************************************)
(* Sorting keeps every row, those of a test that has two among them: the   *)
(* places are 1..Len(rows), each taken once.                               *)
(***************************************************************************)
LEMMA SortedIs ==
  ASSUME NEW rows \in Seq(Row)
  PROVE  /\ Sorted(rows) \in Seq(Row) /\ Len(Sorted(rows)) = Len(rows)
         /\ ToSet(Sorted(rows)) = ToSet(rows)
  <1>. DEFINE D == DOMAIN rows
              Lower(i) == {j \in D : Before(rows, j, i)}
              place == [i \in D |-> Place(rows, i)]
              at(n) == CHOOSE i \in D : Place(rows, i) = n
  <1>1. D = 1..Len(rows) /\ Len(rows) \in Nat /\ IsFiniteSet(D) /\ Cardinality(D) = Len(rows)
    <2>1. D = 1..Len(rows) /\ Len(rows) \in Nat
      OBVIOUS
    <2>. HIDE DEF D
    <2>. QED  BY <2>1, UpTo
  <1>2. \A i \in D : Place(rows, i) = Cardinality(Lower(i)) + 1
    BY DEF Place
  <1>3. ASSUME NEW i \in D
        PROVE  IsFiniteSet(Lower(i)) /\ Cardinality(Lower(i)) \in 0..(Len(rows) - 1)
    <2>1. Lower(i) \in SUBSET (D \ {i})
      BY BeforeIsTotal
    <2>2. IsFiniteSet(D \ {i}) /\ Cardinality(D \ {i}) = Len(rows) - 1
      <3>. HIDE DEF D
      <3>1. /\ IsFiniteSet(D \ {i})
            /\ Cardinality(D \ {i}) = IF i \in D THEN Cardinality(D) - 1 ELSE Cardinality(D)
        BY <1>1, FS_RemoveElement
      <3>. QED  BY <1>1, <3>1
    <2>. HIDE DEF Lower, D
    <2>3. IsFiniteSet(Lower(i)) /\ Cardinality(Lower(i)) <= Cardinality(D \ {i})
      BY <2>1, <2>2, FS_Subset
    <2>4. Cardinality(Lower(i)) \in Nat
      BY <2>3, FS_CardinalityType
    <2>. QED  BY <1>1, <2>2, <2>3, <2>4
  <1>4. ASSUME NEW i \in D, NEW j \in D, Before(rows, i, j)
        PROVE  Cardinality(Lower(i)) < Cardinality(Lower(j))
    <2>1. Lower(i) \in SUBSET Lower(j) /\ i \in Lower(j) /\ i \notin Lower(i)
      BY <1>4, BeforeIsTotal
    <2>2. /\ IsFiniteSet(Lower(i)) /\ IsFiniteSet(Lower(j))
          /\ Cardinality(Lower(i)) \in Nat /\ Cardinality(Lower(j)) \in Nat
      <3>. HIDE DEF Lower, D
      <3>. QED  BY <1>1, <1>3
    <2>. HIDE DEF Lower
    <2>3. /\ Cardinality(Lower(i)) <= Cardinality(Lower(j))
          /\ Cardinality(Lower(j)) = Cardinality(Lower(i)) => Lower(i) = Lower(j)
      BY <2>1, <2>2, FS_Subset
    <2>. QED  BY <2>1, <2>2, <2>3
  <1>5. place \in [D -> D]
    <2>. SUFFICES ASSUME NEW i \in D PROVE Place(rows, i) \in D
      OBVIOUS
    <2>1. Cardinality(Lower(i)) \in 0..(Len(rows) - 1) /\ Place(rows, i) = Cardinality(Lower(i)) + 1
      BY <1>2, <1>3
    <2>. HIDE DEF Lower
    <2>. QED  BY <1>1, <2>1
  <1>6. ASSUME NEW i \in D, NEW j \in D, i # j PROVE place[i] # place[j]
    <2>1. Before(rows, i, j) \/ Before(rows, j, i)
      BY <1>6, BeforeIsTotal
    <2>2. Cardinality(Lower(i)) \in Nat /\ Cardinality(Lower(j)) \in Nat
      <3>. HIDE DEF Lower, D
      <3>. QED  BY <1>1, <1>3
    <2>3. Cardinality(Lower(i)) # Cardinality(Lower(j))
      <3>. HIDE DEF Lower, D
      <3>. QED  BY <1>4, <2>1, <2>2
    <2>4. place[i] = Cardinality(Lower(i)) + 1 /\ place[j] = Cardinality(Lower(j)) + 1
      BY <1>2
    <2>. HIDE DEF Lower, place, D
    <2>. QED  BY <2>2, <2>3, <2>4
  <1>7. place \in Injection(D, D)
    <2>. HIDE DEF place, D
    <2>. QED  BY <1>5, <1>6 DEF Injection, IsInjective
  <1>8. place \in Surjection(D, D)
    <2>. HIDE DEF place, D
    <2>. QED  BY <1>1, <1>7, FS_Injection
  <1>9. \A n \in D : \E i \in D : Place(rows, i) = n
    <2>1. \A n \in D : \E i \in D : place[i] = n
      <3>. HIDE DEF place, D
      <3>. QED  BY <1>8 DEF Surjection
    <2>. QED  BY <2>1
  <1>10. \A n \in D : at(n) \in D /\ Place(rows, at(n)) = n
    <2>. HIDE DEF D
    <2>. QED  BY <1>9
  <1>11. \A i \in D : Place(rows, i) \in D /\ at(Place(rows, i)) = i
    <2>1. ASSUME NEW i \in D PROVE Place(rows, i) \in D /\ at(Place(rows, i)) = i
      <3>1. Place(rows, i) \in D
        BY <1>5
      <3>2. at(Place(rows, i)) \in D /\ Place(rows, at(Place(rows, i))) = Place(rows, i)
        <4>. HIDE DEF D, at
        <4>. QED  BY <1>10, <3>1
      <3>3. \A j \in D : Place(rows, j) = Place(rows, i) => j = i
        BY <1>6
      <3>. HIDE DEF D, at
      <3>. QED  BY <3>1, <3>2, <3>3
    <2>. HIDE DEF at, D
    <2>. QED  BY <2>1
  <1>12. Sorted(rows) = [n \in D |-> rows[at(n)]]
    BY DEF Sorted
  <1>13. \A n \in D : Sorted(rows)[n] = rows[at(n)] /\ rows[at(n)] \in Row
    <2>1. \A n \in D : rows[n] \in Row
      OBVIOUS
    <2>. HIDE DEF at, D
    <2>. QED  BY <1>10, <1>12, <2>1
  <1>14. Sorted(rows) \in Seq(Row) /\ Len(Sorted(rows)) = Len(rows) /\ DOMAIN Sorted(rows) = D
    <2>1. Sorted(rows) \in [1..Len(rows) -> Row]
      <3>. HIDE DEF at, D
      <3>. QED  BY <1>1, <1>12, <1>13
    <2>2. DOMAIN Sorted(rows) = 1..Len(rows)
      BY <2>1
    <2>. QED  BY <1>1, <2>1, <2>2
  <1>15. ToSet(Sorted(rows)) = ToSet(rows)
    <2>1. ASSUME NEW i \in D PROVE \E n \in D : Sorted(rows)[n] = rows[i]
      <3>. HIDE DEF at, D
      <3>. QED  BY <1>11, <1>13
    <2>2. ASSUME NEW n \in D PROVE \E i \in D : Sorted(rows)[n] = rows[i]
      <3>. HIDE DEF at, D
      <3>. QED  BY <1>10, <1>13
    <2>3. ToSet(Sorted(rows)) = {Sorted(rows)[n] : n \in D} /\ ToSet(rows) = {rows[i] : i \in D}
      <3>. HIDE DEF at
      <3>. QED  BY <1>14 DEF ToSet
    <2>. HIDE DEF D, at
    <2>4. ToSet(Sorted(rows)) \subseteq ToSet(rows)
      BY <2>2, <2>3
    <2>5. ToSet(rows) \subseteq ToSet(Sorted(rows))
      BY <2>1, <2>3
    <2>. QED  BY <2>4, <2>5
  <1>. QED  BY <1>14, <1>15

LEMMA Joined ==
  ASSUME NEW V, NEW q \in Seq(V), NEW r \in Seq(V)
  PROVE  /\ q \o r \in Seq(V) /\ ToSet(q \o r) = ToSet(q) \cup ToSet(r)
         /\ <<>> \o r = r /\ (q # <<>> => q \o r # <<>>)
  <1>1. /\ q \o r \in Seq(V) /\ Len(q \o r) = Len(q) + Len(r)
        /\ Len(q) \in Nat /\ Len(r) \in Nat
        /\ DOMAIN q = 1..Len(q) /\ DOMAIN r = 1..Len(r) /\ DOMAIN (q \o r) = 1..Len(q \o r)
        /\ \A i \in 1..Len(q) : (q \o r)[i] = q[i]
        /\ \A i \in 1..Len(r) : (q \o r)[Len(q) + i] = r[i]
    OBVIOUS
  <1>2. ASSUME NEW i \in 1..Len(q \o r) PROVE (q \o r)[i] \in ToSet(q) \cup ToSet(r)
    <2>1. CASE i <= Len(q)
      BY <1>1, <2>1 DEF ToSet
    <2>2. CASE i > Len(q)
      <3>1. i - Len(q) \in 1..Len(r) /\ Len(q) + (i - Len(q)) = i
        BY <1>1, <2>2
      <3>2. (q \o r)[i] = r[i - Len(q)]
        BY <1>1, <3>1
      <3>. QED  BY <1>1, <3>1, <3>2 DEF ToSet
    <2>. QED  BY <1>1, <2>1, <2>2
  <1>3. ASSUME NEW x \in ToSet(q) \cup ToSet(r) PROVE \E i \in 1..Len(q \o r) : (q \o r)[i] = x
    <2>1. CASE x \in ToSet(q)
      <3>1. PICK i \in 1..Len(q) : x = q[i]
        BY <1>1, <2>1 DEF ToSet
      <3>2. i \in 1..Len(q \o r)
        BY <1>1
      <3>. QED  BY <1>1, <3>1, <3>2
    <2>2. CASE x \in ToSet(r)
      <3>1. PICK i \in 1..Len(r) : x = r[i]
        BY <1>1, <2>2 DEF ToSet
      <3>2. Len(q) + i \in 1..Len(q \o r)
        BY <1>1
      <3>. QED  BY <1>1, <3>1, <3>2
    <2>. QED  BY <2>1, <2>2
  <1>4. ToSet(q \o r) = ToSet(q) \cup ToSet(r)
    <2>1. ToSet(q \o r) = {(q \o r)[i] : i \in 1..Len(q \o r)}
      BY <1>1 DEF ToSet
    <2>. QED  BY <1>2, <1>3, <2>1
  <1>5. <<>> \o r = r
    OBVIOUS
  <1>6. q # <<>> => q \o r # <<>>
    OBVIOUS
  <1>. QED  BY <1>1, <1>4, <1>5, <1>6

(***************************************************************************)
(* Flattening keeps what the sequences hold.                               *)
(***************************************************************************)
LEMMA FlattenIs ==
  ASSUME NEW V, NEW ss \in Seq(Seq(V))
  PROVE  /\ FlattenSeq(ss) \in Seq(V)
         /\ \A x : x \in ToSet(FlattenSeq(ss)) <=> \E i \in DOMAIN ss : x \in ToSet(ss[i])
  <1>. DEFINE L == Len(ss)
              Body(g) == [i \in 1..L |-> IF i = 1 THEN ss[i] ELSE g[i - 1] \o ss[i]]
              upTo == CHOOSE g : g = Body(g)
              Right(m) ==
                /\ upTo[m] \in Seq(V)
                /\ \A x : x \in ToSet(upTo[m]) <=> \E i \in 1..m : x \in ToSet(ss[i])
              S == {m \in 0..L : m # 0 => Right(m)}
  <1>0. L \in Nat /\ DOMAIN ss = 1..L /\ \A i \in 1..L : ss[i] \in Seq(V)
    OBVIOUS
  <1>1. CASE L = 0
    <2>1. FlattenSeq(ss) = ss /\ ss = <<>> /\ DOMAIN ss = {}
      BY <1>0, <1>1 DEF FlattenSeq
    <2>2. ToSet(ss) = {}
      BY <2>1 DEF ToSet
    <2>. QED  BY <2>1, <2>2, NothingYet
  <1>2. CASE L # 0
    <2>1. FlattenSeq(ss) = upTo[L]
      BY <1>2 DEF FlattenSeq
    <2>2. \E g : g = Body(g)
      <3>. DEFINE more == [i \in 1..L |-> [q \in Seq(V) |-> q \o ss[i]]]
      <3>1. more \in [1..L -> [Seq(V) -> Seq(V)]]
        BY <1>0, Joined
      <3>2. <<>> \in Seq(V)
        BY NothingYet
      <3>3. PICK g \in [0..L -> Seq(V)] :
              g[0] = <<>> /\ \A i \in 1..L : g[i] = more[i][g[i - 1]]
        <4>1. PICK none, n, W, turns :
                none = <<>> /\ n = L /\ W = Seq(V) /\ turns = more
          OBVIOUS
        <4>2. L \in Nat
          BY <1>0
        <4>. HIDE DEF more, L
        <4>3. n \in Nat /\ none \in W /\ turns \in Turns(n, W)
          BY <3>1, <3>2, <4>1, <4>2 DEF Turns
        <4>4. \E g : Unrolled(g, n, W, none, turns)
          BY <4>3, Iterates
        <4>. QED  BY <4>1, <4>4 DEF Unrolled
      <3>4. ASSUME NEW i \in 1..L PROVE g[i] = g[i - 1] \o ss[i] /\ g[i - 1] \in Seq(V)
        <4>1. i - 1 \in 0..L
          BY <1>0
        <4>2. g[i - 1] \in Seq(V)
          BY <3>3, <4>1
        <4>3. more[i][g[i - 1]] = g[i - 1] \o ss[i]
          BY <4>2
        <4>. QED  BY <3>3, <4>2, <4>3
      <3>5. PICK h : h = [i \in 1..L |-> g[i]]
        OBVIOUS
      <3>6. ASSUME NEW i \in 1..L PROVE h[i] = IF i = 1 THEN ss[i] ELSE h[i - 1] \o ss[i]
        <4>1. CASE i = 1
          <5>1. g[1] = <<>> \o ss[1] /\ ss[1] \in Seq(V)
            <6>1. 1 \in 1..L /\ 1 - 1 = 0
              BY <4>1
            <6>2. g[1] = g[1 - 1] \o ss[1]
              BY <3>4, <6>1
            <6>3. g[0] = <<>>
              BY <3>3
            <6>. QED  BY <1>0, <6>1, <6>2, <6>3
          <5>2. g[1] = ss[1]
            BY <5>1, Joined
          <5>. QED  BY <3>5, <4>1, <5>2
        <4>2. CASE i # 1
          <5>1. i - 1 \in 1..L
            BY <1>0, <4>2
          <5>. QED  BY <3>4, <3>5, <4>2, <5>1
        <4>. QED  BY <4>1, <4>2
      <3>7. h = Body(h)
        BY <3>5, <3>6
      <3>. QED  BY <3>7
    <2>3. upTo = Body(upTo)
      <3>. HIDE DEF Body
      <3>. QED  BY <2>2
    <2>4. \A i \in 1..L : upTo[i] = IF i = 1 THEN ss[i] ELSE upTo[i - 1] \o ss[i]
      <3>1. \A i \in 1..L : upTo[i] = Body(upTo)[i]
        BY <2>3
      <3>. HIDE DEF upTo
      <3>. QED  BY <3>1
    <2>5. ASSUME NEW k \in 0..(L - 1), k \in S PROVE k + 1 \in S
      <3>. HIDE DEF upTo
      <3>1. k + 1 \in 1..L /\ (k + 1) - 1 = k /\ ss[k + 1] \in Seq(V) /\ k \in Nat
        BY <1>0
      <3>2. CASE k = 0
        <4>1. k + 1 = 1 /\ 1 \in 1..L /\ 1 \in 0..L
          BY <1>0, <3>1, <3>2
        <4>2. upTo[1] = ss[1] /\ ss[1] \in Seq(V)
          <5>. HIDE DEF S, Right
          <5>. QED  BY <1>0, <2>4, <4>1
        <4>3. Right(1)
          BY <4>2
        <4>. HIDE DEF Right
        <4>. QED  BY <4>1, <4>3
      <3>3. CASE k # 0
        <4>1. Right(k) /\ k \in 1..L
          BY <2>5, <3>1, <3>3
        <4>2. upTo[k + 1] = upTo[k] \o ss[k + 1]
          <5>1. k + 1 # 1
            BY <3>1, <3>3
          <5>. HIDE DEF S, Right, L
          <5>. QED  BY <2>4, <3>1, <5>1
        <4>3. upTo[k + 1] \in Seq(V) /\ ToSet(upTo[k + 1]) = ToSet(upTo[k]) \cup ToSet(ss[k + 1])
          BY <3>1, <4>1, <4>2, Joined
        <4>4. ASSUME NEW x
              PROVE  x \in ToSet(upTo[k + 1]) <=> \E i \in 1..(k + 1) : x \in ToSet(ss[i])
          <5>1. x \in ToSet(upTo[k]) <=> \E i \in 1..k : x \in ToSet(ss[i])
            BY <4>1
          <5>2. 1..(k + 1) = 1..k \cup {k + 1}
            BY <3>1
          <5>. QED  BY <4>3, <5>1, <5>2
        <4>. QED  BY <3>1, <4>3, <4>4
      <3>. QED  BY <3>2, <3>3
    <2>6. L \in S
      <3>1. 0 \in S
        BY <1>0
      <3>2. 0..L \subseteq S
        <4>. HIDE DEF S, L
        <4>. QED  BY <1>0, <2>5, <3>1, Upwards
      <3>. HIDE DEF S
      <3>. QED  BY <1>0, <3>2
    <2>7. Right(L)
      BY <1>2, <2>6
    <2>. HIDE DEF upTo
    <2>. QED  BY <1>0, <2>1, <2>7
  <1>. QED  BY <1>1, <1>2

(***************************************************************************)
(* The rows of a readable file are rows, each of an assembly of the file;  *)
(* the row of a runner stop is there and is a failure.                     *)
(***************************************************************************)
LEMMA RowsAre ==
  ASSUME NEW s \in Suite, NEW file \in Files[s]
  PROVE  /\ Rows(file) \in Seq(Row)
         /\ \A t \in ToSet(Rows(file)) :
              t.key[1] \in Assemblies(file) /\ (t.key[2] = StopTest => IsFailure(t))
  <1>. DEFINE Entry(i, j) ==
                [key |-> <<file[i].codeunit, file[i].rows[j][1]>>,
                 result |-> IF file[i].rows[j][2] = "" THEN "Unknown" ELSE file[i].rows[j][2]]
              Of(i) == [j \in DOMAIN file[i].rows |-> Entry(i, j)]
              ss == [i \in DOMAIN file |-> Of(i)]
  <1>1. file \in Seq(Assembly) /\ DOMAIN file = 1..Len(file) /\ Len(file) \in Nat
    BY FilesType
  <1>2. ASSUME NEW i \in DOMAIN file
        PROVE  /\ file[i].codeunit \in Nat /\ file[i].rows \in Seq(Nat \X (Result \cup {""}))
               /\ file[i].codeunit \in Assemblies(file)
    <2>1. file[i] \in Assembly
      BY <1>1
    <2>. QED  BY <2>1 DEF Assembly, Assemblies
  <1>3. ASSUME NEW i \in DOMAIN file, NEW j \in DOMAIN file[i].rows
        PROVE  /\ Entry(i, j) \in Row /\ Entry(i, j).key[1] \in Assemblies(file)
               /\ Entry(i, j).key[2] = StopTest => IsFailure(Entry(i, j))
    <2>1. file[i].rows[j] \in Nat \X (Result \cup {""})
      <3>. HIDE DEF Entry
      <3>. QED  BY <1>2, Elements
    <2>2. /\ file[i].rows[j][1] \in Nat /\ file[i].rows[j][2] \in Result \cup {""}
          /\ file[i].codeunit \in Nat /\ file[i].codeunit \in Assemblies(file)
      BY <1>2, <2>1
    <2>3. file[i].rows[j][1] = StopTest => file[i].rows[j][2] = "Fail"
      BY FilesType
    <2>. QED  BY <2>2, <2>3 DEF Row, Result, IsFailure
  <1>4. Rows(file) = FlattenSeq(ss)
    BY DEF Rows
  <1>5. ASSUME NEW i \in DOMAIN file
        PROVE  Of(i) \in Seq(Row) /\ \A t \in ToSet(Of(i)) : \E j \in DOMAIN file[i].rows : t = Entry(i, j)
    <2>1. DOMAIN file[i].rows = 1..Len(file[i].rows) /\ Len(file[i].rows) \in Nat
      <3>. HIDE DEF Of, Entry
      <3>. QED  BY <1>2, Elements
    <2>2. \A j \in DOMAIN file[i].rows : Entry(i, j) \in Row
      BY <1>3
    <2>. HIDE DEF Entry
    <2>3. Of(i) \in [1..Len(file[i].rows) -> Row]
      BY <2>1, <2>2
    <2>4. Of(i) \in Seq(Row)
      BY <2>1, <2>3
    <2>. QED  BY <2>4 DEF ToSet
  <1>6. ss \in Seq(Seq(Row)) /\ DOMAIN ss = DOMAIN file /\ \A i \in DOMAIN file : ss[i] = Of(i)
    <2>. HIDE DEF Of
    <2>1. ss \in [1..Len(file) -> Seq(Row)]
      BY <1>1, <1>5
    <2>. QED  BY <1>1, <2>1
  <1>. HIDE DEF ss, Of, Entry
  <1>7. Rows(file) \in Seq(Row)
    BY <1>4, <1>6, FlattenIs
  <1>8. ASSUME NEW t \in ToSet(Rows(file))
        PROVE  t.key[1] \in Assemblies(file) /\ (t.key[2] = StopTest => IsFailure(t))
    <2>1. PICK i \in DOMAIN file : t \in ToSet(Of(i))
      BY <1>4, <1>6, FlattenIs
    <2>2. PICK j \in DOMAIN file[i].rows : t = Entry(i, j)
      BY <1>5, <2>1
    <2>. QED  BY <1>3, <2>2
  <1>. QED  BY <1>7, <1>8

(* What a night may leave of a suite. *)
LEMMA NightFiles ==
  ASSUME night \in Night, NEW s \in Suite
  PROVE  \/ /\ night.left[s].file \in Files[s]
            /\ night.left[s].stops =
                 {k[1] : k \in {t.key : t \in ToSet(Rows(night.left[s].file))} \cap (Nat \X {StopTest})}
         \/ /\ night.left[s].file \in {Absent, Torn}
            /\ night.left[s].stops \subseteq Expected[s]
            /\ s \in night.listed => night.left[s].stops # Expected[s]
  <1>1. IF s \in night.listed THEN night.left[s] \in Left(s) ELSE night.left[s] = NothingLeft
    BY DEF Night
  <1>2. CASE night.left[s] \in [file : {Absent, Torn}, stops : (SUBSET Expected[s]) \ {Expected[s]}]
    BY <1>2
  <1>3. CASE s \notin night.listed
    BY <1>1, <1>3 DEF NothingLeft
  <1>4. CASE s \in night.listed /\ night.left[s] \notin [file : {Absent, Torn}, stops : (SUBSET Expected[s]) \ {Expected[s]}]
    <2>1. PICK f \in Files[s] :
            night.left[s] =
              [file |-> f, stops |-> {k[1] : k \in {t.key : t \in ToSet(Rows(f))} \cap (Nat \X {StopTest})}]
      BY <1>1, <1>4 DEF Left
    <2>. QED  BY <2>1
  <1>. QED  BY <1>2, <1>3, <1>4

LEMMA TableIs ==
  ASSUME NEW failed \in Seq(Row)
  PROVE  /\ Table(failed).rows \in Seq(Row) /\ Table(failed).more \in Nat
         /\ Table(failed) \in [rows : Seq(Row), more : Nat]
         /\ Len(failed) = Len(Table(failed).rows) + Table(failed).more
         /\ IsPrefix(Table(failed).rows, failed)
         /\ Table(failed).more > 0 => Len(Table(failed).rows) = RowLimit
  <1>. DEFINE cut == IF Len(failed) < RowLimit THEN Len(failed) ELSE RowLimit
              more == IF Len(failed) > RowLimit THEN Len(failed) - RowLimit ELSE 0
  <1>1. RowLimit \in Nat /\ Len(failed) \in Nat /\ DOMAIN failed = 1..Len(failed)
    BY BoundsType
  <1>2. cut \in 0..Len(failed) /\ more \in Nat /\ Len(failed) = cut + more
        /\ (more > 0 => cut = RowLimit)
    <2>1. PICK n \in Nat : n = Len(failed)
      BY <1>1
    <2>2. /\ cut = IF n < RowLimit THEN n ELSE RowLimit
          /\ more = IF n > RowLimit THEN n - RowLimit ELSE 0
      BY <2>1
    <2>3. PICK limit \in Nat : limit = RowLimit
      BY <1>1
    <2>. HIDE DEF cut, more
    <2>4. /\ cut \in 0..n /\ more \in Nat /\ n = cut + more
          /\ more > 0 => cut = limit
      <3>1. CASE n < limit
        BY <2>2, <2>3, <3>1
      <3>2. CASE ~(n < limit)
        BY <2>2, <2>3, <3>2
      <3>. QED  BY <3>1, <3>2
    <2>. QED  BY <2>1, <2>3, <2>4
  <1>3. Table(failed) = [rows |-> SubSeq(failed, 1, cut), more |-> more]
    BY DEF Table
  <1>. HIDE DEF cut, more
  <1>4. SubSeq(failed, 1, cut) \in Seq(Row) /\ Len(SubSeq(failed, 1, cut)) = cut
    BY <1>1, <1>2
  <1>5. IsPrefix(SubSeq(failed, 1, cut), failed)
    <2>1. PICK q : q = SubSeq(failed, 1, cut)
      OBVIOUS
    <2>2. q \in Seq(Row) /\ Len(q) = cut
      BY <1>4, <2>1
    <2>3. SubSeq(q, 1, Len(q)) = q
      BY <2>2
    <2>4. Len(q) <= Len(failed)
      BY <1>1, <1>2, <2>2
    <2>. QED  BY <2>1, <2>2, <2>3, <2>4 DEF IsPrefix
  <1>. QED  BY <1>2, <1>3, <1>4, <1>5

LEMMA HistoryType ==
  ASSUME tests \in Seq(Row), NEW baseline \in Baselines
  PROVE  History(baseline) \in [reproduced : Keys, passed : Keys, missing : Keys, new : Keys]
  <1>1. \A rows \in Seq(Row) : KeysOf(rows) \subseteq Nat \X Nat
    <2>1. ASSUME NEW rows \in Seq(Row), NEW i \in DOMAIN rows PROVE rows[i].key \in Nat \X Nat
      <3>1. rows[i] \in Row
        BY Elements
      <3>. QED  BY <3>1 DEF Row
    <2>. QED  BY <2>1 DEF KeysOf
  <1>2. KeysOf(tests) \subseteq Nat \X Nat /\ KeysOf(Failed(tests)) \subseteq Nat \X Nat
    BY <1>1, FailedIs
  <1>3. baseline \subseteq Nat \X Nat
    BY BaselinesType
  <1>. QED  BY <1>2, <1>3 DEF History, Keys

-----------------------------------------------------------------------------
(* NightlyReport: the invariant                                              *)

LEMMA ReportIInvInit == ReportInit => ReportIInv
  <1>. SUFFICES ASSUME ReportInit PROVE ReportIInv
    OBVIOUS
  <1>1. Suites \in Nat /\ Suite = 1..Suites
    BY BoundsType DEF Suite
  <1>2. ReportTypeOK
    <2>1. next \in 1..Suites + 1 /\ tests \in Seq(Row) /\ night \in Night
      BY <1>1, NothingYet DEF ReportInit
    <2>. QED  BY <2>1 DEF ReportInit, ReportTypeOK
  <1>3. Gathered
    BY <1>1 DEF ReportInit, Gathered
  <1>4. Listed /\ Summed /\ Judged
    BY DEF ReportInit, Listed, Summed, Judged
  <1>. QED  BY <1>2, <1>3, <1>4 DEF ReportIInv

LEMMA ReportIInvStep == ReportIInv /\ [ReportNext]_reportVars => ReportIInv'
  <1>. SUFFICES ASSUME ReportIInv, [ReportNext]_reportVars PROVE ReportIInv'
    OBVIOUS
  <1>0. /\ ReportTypeOK /\ Gathered /\ Listed /\ Summed /\ Judged
        /\ night \in Night /\ next \in 1..Suites + 1 /\ Suites \in Nat
        /\ step \in {"read", "render", "probe", "coverage", "over"}
        /\ exit \in [compare : {"none", "0", "2", "raised"}, probe : {"none", "0", "3"},
                     coverage : {"none", "0", "1", "skipped"}]
        /\ tests \in Seq(Row) /\ lists \in Seq(Row) \cup {Absent}
        /\ summary \in Report \cup {Absent}
        /\ probe \in [Run -> ProbeFiles \cup {Absent, Torn}]
    BY BoundsType DEF ReportIInv, ReportTypeOK
  <1>1. CASE Read
    <2>1. /\ step = "read" /\ next <= Suites
          /\ UNCHANGED <<night, lists, summary, probe>>
      BY <1>1 DEF Read
    <2>2. CASE night.left[next].file = Torn
      <3>1. UNCHANGED <<next, tests>> /\ step' = "probe" /\ exit' = [exit EXCEPT !.compare = "2"]
        BY <1>1, <2>2 DEF Read, EndCompare
      <3>2. ReportTypeOK'
        BY <1>0, <2>1, <3>1 DEF ReportTypeOK
      <3>3. Gathered'
        BY <1>0, <2>1, <3>1 DEF Gathered
      <3>4. Listed'
        BY <1>0, <2>1, <3>1 DEF Listed
      <3>5. Summed'
        BY <1>0, <2>1, <3>1 DEF Summed, History
      <3>6. Judged'
        BY <1>0, <2>1, <3>1 DEF Judged, Missing
      <3>. QED  BY <3>2, <3>3, <3>4, <3>5, <3>6 DEF ReportIInv
    <2>3. CASE night.left[next].file # Torn
      <3>1. /\ UNCHANGED <<step, exit>> /\ next' = next + 1
            /\ tests' = IF night.left[next].file = Absent THEN tests
                        ELSE tests \o Rows(night.left[next].file)
        BY <1>1, <2>3 DEF Read
      <3>2. next \in Suite /\ next + 1 \in 1..Suites + 1
        BY <1>0, <2>1 DEF Suite
      <3>3. /\ tests' \in Seq(Row) /\ ToSet(tests) \subseteq ToSet(tests')
            /\ night.left[next].file \in Files[next] =>
                 ToSet(Rows(night.left[next].file)) \subseteq ToSet(tests')
        <4>1. CASE night.left[next].file = Absent
          BY <1>0, <3>1, <3>2, <4>1, NoFile
        <4>2. CASE night.left[next].file # Absent
          <5>1. night.left[next].file \in Files[next]
            BY <1>0, <2>3, <3>2, <4>2, NightFiles
          <5>2. PICK more \in Seq(Row) : more = Rows(night.left[next].file)
            BY <3>2, <5>1, RowsAre
          <5>3. tests' = tests \o more
            BY <3>1, <4>2, <5>2
          <5>. QED  BY <1>0, <5>2, <5>3, Joined
        <4>. QED  BY <4>1, <4>2
      <3>4. ReportTypeOK'
        BY <1>0, <2>1, <3>1, <3>2, <3>3 DEF ReportTypeOK
      <3>5. Gathered'
        <4>. SUFFICES ASSUME NEW s \in Suite, s < next + 1
                      PROVE  /\ night.left[s].file # Torn
                             /\ night.left[s].file \in Files[s] =>
                                  ToSet(Rows(night.left[s].file)) \subseteq ToSet(tests')
          BY <2>1, <3>1 DEF Gathered
        <4>1. s = next \/ s < next
          BY <1>0, <3>2 DEF Suite
        <4>2. CASE s < next
          BY <1>0, <3>3, <4>2 DEF Gathered
        <4>. QED  BY <2>3, <3>3, <4>1, <4>2
      <3>6. lists = Absent /\ summary = Absent
        BY <1>0, <2>1 DEF Listed, Summed
      <3>7. Listed'
        BY <2>1, <3>1, <3>6 DEF Listed
      <3>8. Summed'
        BY <1>0, <2>1, <3>1, <3>6 DEF Summed
      <3>9. Judged'
        BY <1>0, <2>1, <3>1 DEF Judged, Missing
      <3>. QED  BY <3>4, <3>5, <3>7, <3>8, <3>9 DEF ReportIInv
    <2>. QED  BY <2>2, <2>3
  <1>2. CASE Lists
    <2>1. /\ step = "read" /\ next > Suites
          /\ UNCHANGED <<night, next, summary, probe>>
      BY <1>2 DEF Lists
    <2>2. lists = Absent /\ summary = Absent /\ next = Suites + 1
      BY <1>0, <2>1 DEF Listed, Summed
    <2>3. CASE tests = <<>>
      <3>1. UNCHANGED <<tests, lists>> /\ step' = "probe" /\ exit' = [exit EXCEPT !.compare = "2"]
        BY <1>2, <2>3 DEF Lists, EndCompare
      <3>2. ReportTypeOK'
        BY <1>0, <2>1, <3>1 DEF ReportTypeOK
      <3>3. Gathered' /\ Listed' /\ Summed'
        BY <1>0, <2>1, <2>2, <3>1 DEF Gathered, Listed, Summed
      <3>4. Judged'
        BY <1>0, <2>1, <3>1 DEF Judged, Missing
      <3>. QED  BY <3>2, <3>3, <3>4 DEF ReportIInv
    <2>4. CASE tests # <<>>
      <3>1. UNCHANGED exit /\ step' = "render" /\ tests' = Sorted(tests) /\ lists' = Sorted(tests)
        BY <1>2, <2>4 DEF Lists
      <3>2. /\ tests' \in Seq(Row) /\ Len(tests') = Len(tests)
            /\ ToSet(tests') = ToSet(tests)
        BY <1>0, <3>1, SortedIs
      <3>3. tests' # <<>> /\ lists' # Absent
        <4>1. Len(tests) # 0
          BY <1>0, <2>4
        <4>2. tests' # <<>>
          BY <3>2, <4>1, NothingYet
        <4>. QED  BY <3>1, <3>2, <4>2, NoFile
      <3>4. ReportTypeOK'
        BY <1>0, <2>1, <3>1, <3>2 DEF ReportTypeOK
      <3>5. Gathered'
        BY <1>0, <2>1, <3>2 DEF Gathered
      <3>6. Listed'
        BY <2>1, <2>2, <3>1, <3>3 DEF Listed
      <3>7. Summed'
        BY <1>0, <2>1, <2>2, <3>1 DEF Summed
      <3>8. Judged'
        BY <1>0, <2>1, <3>1 DEF Judged, Missing
      <3>. QED  BY <3>4, <3>5, <3>6, <3>7, <3>8 DEF ReportIInv
    <2>. QED  BY <2>3, <2>4
  <1>3. CASE Render
    <2>1. /\ step = "render" /\ UNCHANGED <<night, next, tests, lists, probe>>
          /\ step' = "probe"
      BY <1>3 DEF Render, EndCompare
    <2>2. lists # Absent
      BY <1>0, <2>1 DEF Listed
    <2>3. Gathered' /\ Listed'
      BY <1>0, <2>1, <2>2 DEF Gathered, Listed
    <2>4. PICK environment \in {"read", Absent, Torn}, baseline \in Baselines \cup {Absent, Torn} :
            IF Torn \in {environment, baseline} THEN EndCompare("raised") /\ UNCHANGED summary
            ELSE /\ summary' =
                      [passed |-> Counted(tests, "Pass"), failed |-> Len(Failed(tests)),
                       skipped |-> Counted(tests, "Skip"), total |-> Len(tests),
                       table |-> Table(Failed(tests)), baseline |-> baseline,
                       history |-> IF baseline = Absent THEN Absent ELSE History(baseline)]
                 /\ EndCompare("0")
      BY <1>3 DEF Render
    <2>5. CASE Torn \in {environment, baseline}
      <3>1. UNCHANGED summary /\ exit' = [exit EXCEPT !.compare = "raised"]
        BY <2>4, <2>5 DEF EndCompare
      <3>2. ReportTypeOK'
        BY <1>0, <2>1, <3>1 DEF ReportTypeOK
      <3>3. Summed'
        BY <1>0, <2>1, <3>1 DEF Summed, History
      <3>4. Judged'
        BY <1>0, <2>1, <3>1 DEF Judged, Missing
      <3>. QED  BY <2>3, <3>2, <3>3, <3>4 DEF ReportIInv
    <2>6. CASE Torn \notin {environment, baseline}
      <3>1. /\ summary' =
                [passed |-> Counted(tests, "Pass"), failed |-> Len(Failed(tests)),
                 skipped |-> Counted(tests, "Skip"), total |-> Len(tests),
                 table |-> Table(Failed(tests)), baseline |-> baseline,
                 history |-> IF baseline = Absent THEN Absent ELSE History(baseline)]
            /\ exit' = [exit EXCEPT !.compare = "0"]
            /\ baseline \in Baselines \cup {Absent}
        BY <2>4, <2>6 DEF EndCompare
      <3>2. /\ Counted(tests, "Pass") \in Nat /\ Counted(tests, "Skip") \in Nat
            /\ Len(tests) \in Nat /\ Len(Failed(tests)) \in Nat
            /\ Table(Failed(tests)) \in [rows : Seq(Row), more : Nat]
        <4>1. Failed(tests) \in Seq(Row)
          BY <1>0, FailedIs
        <4>. QED  BY <1>0, <4>1, CountsAddUp, TableIs, Elements
      <3>3. (IF baseline = Absent THEN Absent ELSE History(baseline))
              \in [reproduced : Keys, passed : Keys, missing : Keys, new : Keys] \cup {Absent}
        BY <1>0, <3>1, HistoryType
      <3>4. summary' \in Report
        BY <3>1, <3>2, <3>3 DEF Report
      <3>5. ReportTypeOK'
        BY <1>0, <2>1, <3>1, <3>4 DEF ReportTypeOK
      <3>6. Summed'
        <4>1. summary' # Absent
          BY <3>4, NoFile
        <4>2. summary'.baseline \in Baselines => summary'.history = History(summary'.baseline)
          BY <3>1, NoFile
        <4>3. \A b : History(b)' = History(b)
          BY <2>1 DEF History
        <4>. QED  BY <2>1, <2>2, <3>1, <4>1, <4>2, <4>3 DEF Summed
      <3>7. Judged'
        BY <1>0, <2>1, <3>1 DEF Judged, Missing
      <3>. QED  BY <2>3, <3>5, <3>6, <3>7 DEF ReportIInv
    <2>. QED  BY <2>5, <2>6
  <1>4. CASE Probe
    <2>1. /\ step = "probe" /\ UNCHANGED <<night, next, tests, lists, summary>>
          /\ step' = "coverage" /\ probe' \in [Run -> ProbeFiles \cup {Absent, Torn}]
          /\ exit' = [exit EXCEPT !.probe = IF \A r \in Run : HasVerdict(probe'[r]) THEN "0" ELSE "3"]
      BY <1>4 DEF Probe
    <2>2. ReportTypeOK'
      BY <1>0, <2>1 DEF ReportTypeOK
    <2>3. Gathered' /\ Listed'
      BY <1>0, <2>1 DEF Gathered, Listed
    <2>4. Summed'
      BY <1>0, <2>1 DEF Summed, History
    <2>5. Judged'
      <3>1. exit'.coverage = exit.coverage
            /\ (exit'.probe = "0" => \A r \in Run : HasVerdict(probe'[r]))
        BY <1>0, <2>1
      <3>. QED  BY <1>0, <2>1, <3>1 DEF Judged, Missing
    <2>. QED  BY <2>2, <2>3, <2>4, <2>5 DEF ReportIInv
  <1>5. CASE Coverage
    <2>1. /\ step = "coverage" /\ UNCHANGED <<night, next, tests, lists, summary, probe>>
          /\ step' = "over"
          /\ exit' = [exit EXCEPT !.coverage =
               IF night.run = "skipped" THEN "skipped"
               ELSE IF night.listed # {} /\ \A s \in night.listed : Missing(s) = {} THEN "0" ELSE "1"]
      BY <1>5 DEF Coverage
    <2>2. ReportTypeOK'
      BY <1>0, <2>1 DEF ReportTypeOK
    <2>3. Gathered' /\ Listed'
      BY <1>0, <2>1 DEF Gathered, Listed
    <2>4. Summed'
      BY <1>0, <2>1 DEF Summed, History
    <2>5. Judged'
      <3>1. exit'.probe = exit.probe
            /\ (exit'.coverage = "0" => \A s \in night.listed : Missing(s) = {})
        BY <1>0, <2>1
      <3>. QED  BY <1>0, <2>1, <3>1 DEF Judged, Missing
    <2>. QED  BY <2>2, <2>3, <2>4, <2>5 DEF ReportIInv
  <1>6. CASE UNCHANGED reportVars
    <2>1. UNCHANGED <<night, step, next, tests, lists, summary, probe, exit>>
      BY <1>6 DEF reportVars
    <2>2. ReportTypeOK'
      BY <1>0, <2>1 DEF ReportTypeOK
    <2>3. Gathered' /\ Listed'
      BY <1>0, <2>1 DEF Gathered, Listed
    <2>4. Summed'
      BY <1>0, <2>1 DEF Summed, History
    <2>5. Judged'
      BY <1>0, <2>1 DEF Judged, Missing
    <2>. QED  BY <2>2, <2>3, <2>4, <2>5 DEF ReportIInv
  <1>. QED  BY <1>1, <1>2, <1>3, <1>4, <1>5, <1>6 DEF ReportNext

(***************************************************************************)
(* The lists are what the readable files hold, the summary is made from    *)
(* the lists, and each later step's outcome is what its files say.         *)
(***************************************************************************)
THEOREM ReportInductiveInvariant == ReportSpec => []ReportIInv
  <1>. QED  BY ReportIInvInit, ReportIInvStep, PTL DEF ReportSpec

(***************************************************************************)
(* The variables keep their types: no row is without a result that the     *)
(* report counts, however many files there are and however they nest.      *)
(***************************************************************************)
THEOREM ReportTypeCorrect == ReportSpec => []ReportTypeOK
  <1>1. ReportIInv => ReportTypeOK
    BY DEF ReportIInv
  <1>. QED  BY <1>1, ReportInductiveInvariant, PTL

-----------------------------------------------------------------------------
(* NightlyReport: the properties                                             *)

(***************************************************************************)
(* What the summary and the lists count is all that any suite left.        *)
(***************************************************************************)
THEOREM NothingLeftOutHolds == ReportSpec => []NothingLeftOut
  <1>1. ASSUME ReportIInv PROVE NothingLeftOut
    <2>. SUFFICES ASSUME summary # Absent \/ lists # Absent
                  PROVE  /\ \A s \in Suite : night.left[s].file # Torn
                         /\ \A s \in Suite : night.left[s].file \in Files[s] =>
                              \A t \in ToSet(Rows(night.left[s].file)) : t \in ToSet(tests)
                         /\ tests # <<>>
      BY DEF NothingLeftOut
    <2>1. next = Suites + 1 /\ tests # <<>>
      BY <1>1 DEF ReportIInv, Listed, Summed
    <2>2. \A s \in Suite : s < next
      BY <2>1, BoundsType DEF Suite
    <2>. QED  BY <1>1, <2>1, <2>2 DEF ReportIInv, Gathered
  <1>. QED  BY <1>1, ReportInductiveInvariant, PTL

(***************************************************************************)
(* A green night is a reported night, for any number of suites: a file     *)
(* that is missing or torn cannot pass both compare and coverage.          *)
(***************************************************************************)
THEOREM GreenNightIsReportedHolds == ReportSpec => []GreenNightIsReported
  <1>1. ASSUME ReportIInv PROVE GreenNightIsReported
    <2>. SUFFICES ASSUME GreenNight, NEW s \in Suite
                  PROVE  /\ summary # Absent
                         /\ night.left[s].file \in Files[s]
                         /\ Expected[s] \subseteq Assemblies(night.left[s].file)
                         /\ ToSet(Rows(night.left[s].file)) \subseteq ToSet(tests)
                         /\ \A c \in night.left[s].stops : <<c, StopTest>> \in KeysOf(Failed(tests))
      <3>1. GreenNight => summary # Absent
        BY <1>1 DEF GreenNight, ReportIInv, Summed
      <3>. QED  BY <3>1 DEF GreenNightIsReported
    <2>0. s \in night.listed
      <3>1. night \in Night /\ night.run = "success"
        BY <1>1 DEF GreenNight, ReportIInv, ReportTypeOK
      <3>. QED  BY <3>1 DEF Night
    <2>1. /\ night \in Night /\ tests \in Seq(Row) /\ summary # Absent
          /\ next = Suites + 1 /\ Missing(s) = {}
      BY <1>1, <2>0 DEF GreenNight, ReportIInv, ReportTypeOK, Listed, Summed, Judged
    <2>2. night.left[s].file # Torn
          /\ (night.left[s].file \in Files[s] =>
                ToSet(Rows(night.left[s].file)) \subseteq ToSet(tests))
      <3>1. s < next
        BY <2>1, BoundsType DEF Suite
      <3>. QED  BY <1>1, <3>1 DEF ReportIInv, Gathered
    <2>3. night.left[s].file \in Files[s]
      <3>. SUFFICES ASSUME night.left[s].file \notin Files[s] PROVE FALSE
        OBVIOUS
      <3>1. night.left[s].stops \subseteq Expected[s] /\ night.left[s].stops # Expected[s]
        BY <2>1, <2>0, NightFiles
      <3>2. Missing(s) = Expected[s] \ night.left[s].stops
        BY DEF Missing
      <3>. QED  BY <2>1, <3>1, <3>2
    <2>4. PICK file \in Files[s] : file = night.left[s].file
      BY <2>3
    <2>5. night.left[s].stops = {k[1] : k \in {t.key : t \in ToSet(Rows(file))} \cap (Nat \X {StopTest})}
      BY <2>1, <2>4, NightFiles, NoFile
    <2>6. ASSUME NEW c \in night.left[s].stops
          PROVE  c \in Assemblies(file) /\ <<c, StopTest>> \in KeysOf(Failed(tests))
      <3>1. PICK t \in ToSet(Rows(file)) : t.key \in Nat \X {StopTest} /\ c = t.key[1]
        BY <2>5
      <3>2. t.key = <<c, StopTest>> /\ t.key[2] = StopTest
        BY <3>1
      <3>3. c \in Assemblies(file) /\ IsFailure(t)
        BY <3>1, <3>2, RowsAre
      <3>4. t \in ToSet(tests)
        BY <2>2, <2>4, <3>1
      <3>5. PICK i \in DOMAIN tests : tests[i] = t
        BY <3>4 DEF ToSet
      <3>6. t \in ToSet(Failed(tests))
        BY <2>1, <3>3, <3>5, FailedIs
      <3>7. t.key \in KeysOf(Failed(tests))
        BY <3>6 DEF ToSet, KeysOf
      <3>. QED  BY <3>2, <3>3, <3>7
    <2>7. Expected[s] \subseteq Assemblies(file)
      <3>1. Missing(s) = Expected[s] \ ((Assemblies(file) \ night.left[s].stops) \cup night.left[s].stops)
        BY <2>4 DEF Missing
      <3>. QED  BY <2>1, <2>6, <3>1
    <2>. QED  BY <2>1, <2>2, <2>3, <2>4, <2>6, <2>7
  <1>. QED  BY <1>1, ReportInductiveInvariant, PTL

(***************************************************************************)
(* For every length of the lists and every RowLimit: no failure is dropped *)
(* by the cut without being counted, and failures.tsv has them all.        *)
(***************************************************************************)
THEOREM CutIsAnnouncedHolds == ReportSpec => []CutIsAnnounced
  <1>1. ASSUME ReportIInv PROVE CutIsAnnounced
    <2>. SUFFICES ASSUME summary # Absent
                  PROVE  /\ summary.failed = Len(Failed(lists))
                         /\ summary.failed = Len(summary.table.rows) + summary.table.more
                         /\ summary.passed + summary.failed + summary.skipped = summary.total
                         /\ IsPrefix(summary.table.rows, Failed(lists))
                         /\ summary.table.more > 0 => Len(summary.table.rows) = RowLimit
      BY DEF CutIsAnnounced
    <2>1. /\ tests \in Seq(Row) /\ lists = tests
          /\ summary.passed = Counted(tests, "Pass") /\ summary.failed = Len(Failed(tests))
          /\ summary.skipped = Counted(tests, "Skip") /\ summary.total = Len(tests)
          /\ summary.table = Table(Failed(tests))
      BY <1>1 DEF ReportIInv, ReportTypeOK, Listed, Summed
    <2>2. Failed(tests) \in Seq(Row)
      BY <2>1, FailedIs
    <2>3. Counted(tests, "Pass") + Len(Failed(tests)) + Counted(tests, "Skip") = Len(tests)
      BY <2>1, CountsAddUp
    <2>. QED  BY <2>1, <2>2, <2>3, TableIs
  <1>. QED  BY <1>1, ReportInductiveInvariant, PTL

(***************************************************************************)
(* The history is not mistaken for this run, for every baseline and every  *)
(* list, with tests that occur twice.                                      *)
(***************************************************************************)
THEOREM HistoryAgreesHolds == ReportSpec => []HistoryAgrees
  <1>1. ASSUME ReportIInv PROVE HistoryAgrees
    <2>. SUFFICES ASSUME summary # Absent, summary.baseline \in Baselines
                  PROVE  LET h == summary.history
                             failed == KeysOf(Failed(lists))
                         IN  /\ h.reproduced \cup h.new = failed
                             /\ h.reproduced \cup h.passed \cup h.missing = summary.baseline
                             /\ h.passed \subseteq KeysOf(lists) /\ h.missing \cap KeysOf(lists) = {}
                             /\ h.passed \cap failed = {}
      BY DEF HistoryAgrees
    <2>1. lists = tests /\ summary.history = History(summary.baseline)
      BY <1>1 DEF ReportIInv, Listed, Summed
    <2>. QED  BY <2>1 DEF History
  <1>. QED  BY <1>1, ReportInductiveInvariant, PTL

(***************************************************************************)
(* A verdict of the probe rests on both runs, for every fixture.           *)
(***************************************************************************)
THEOREM VerdictNeedsBothRunsHolds == ReportSpec => []VerdictNeedsBothRuns
  <1>1. ASSUME ReportIInv PROVE VerdictNeedsBothRuns
    <2>1. exit.probe = "0" => \A r \in Run : HasVerdict(probe[r])
      BY <1>1 DEF ReportIInv, Judged
    <2>. QED  BY <2>1, ProbeFilesType DEF HasVerdict, VerdictNeedsBothRuns
  <1>. QED  BY <1>1, ReportInductiveInvariant, PTL
=============================================================================
