---------------------------- MODULE NightlyProofs ----------------------------
(***************************************************************************)
(* Proofs about the nightly: its range filter, for any finite set of test  *)
(* codeunits; its chunked run, for any suites, any chunk size and any cap  *)
(* on the calls; and its gate, for any delays that its window covers.      *)
(***************************************************************************)
EXTENDS ChunkedRun, NightlyGate,
        FiniteSetTheorems, WellFoundedInduction, TLAPS

-----------------------------------------------------------------------------
(* The range filter (RangeFilter)                                            *)

(* A set of naturals has a least member.                                    *)
LEMMA LeastIsLeast ==
  ASSUME NEW S \in SUBSET Nat, S # {}
  PROVE  Least(S) \in S /\ \A y \in S : Least(S) <= y
  <1>1. PICK x \in S : \A y \in S : ~(<<y, x>> \in OpToRel(<, Nat))
    BY NatLessThanWellFounded, WFMin
  <1>2. ASSUME NEW y \in S PROVE x <= y
    <2>1. x \in Nat /\ y \in Nat /\ <<y, x>> \in Nat \X Nat
      OBVIOUS
    <2>2. y < x => <<y, x>> \in OpToRel(<, Nat)
      BY <2>1 DEF OpToRel
    <2>3. ~(<<y, x>> \in OpToRel(<, Nat))
      BY <1>1
    <2>4. ~(y < x)
      BY <2>2, <2>3, Zenon
    <2>. QED  BY <2>1, <2>4
  <1>. QED  BY <1>2 DEF Least

LEMMA EnterHolds ==
  ASSUME NEW chunk \in SUBSET Tests, chunk # {}, Enter(chunk)
  PROVE  FilterIInv'
  <1>. DEFINE m == Least(chunk)
  <1>1. chunk \in SUBSET Nat
    BY TestsType
  <1>2. m \in chunk /\ \A y \in chunk : m <= y
    BY <1>1, LeastIsLeast
  <1>3. /\ m \in Nat /\ ids' = chunk /\ start' = m /\ prev' = m /\ todo' = chunk \ {m}
        /\ parts' = {} /\ closed' = FALSE
    BY <1>1, <1>2 DEF Enter
  <1>. HIDE DEF m
  <1>4. Blocked' \subseteq Nat /\ Blocked' \cap chunk = {}
    BY <1>3, TestsType, ForeignType, Apart DEF Blocked
  <1>5. FilterTypeOK'
    BY <1>2, <1>3 DEF FilterTypeOK
  <1>6. Shape'
    BY <1>1, <1>2, <1>3, <1>4 DEF Shape, Visited
  <1>7. Separated'
    BY <1>3 DEF Separated, NoNeedlessSplit
  <1>. QED  BY <1>5, <1>6, <1>7 DEF FilterIInv

LEMMA TurnPreserves == FilterIInv /\ Turn => FilterIInv'
  <1>. SUFFICES ASSUME FilterIInv, Turn PROVE FilterIInv'
    OBVIOUS
  <1>. DEFINE i == Least(todo)
  <1>1. i \in todo /\ \A y \in todo : i <= y
    BY TestsType, LeastIsLeast DEF FilterIInv, FilterTypeOK, Turn
  <1>2. /\ prev' = i /\ todo' = todo \ {i} /\ UNCHANGED <<ids, closed>>
        /\ IF Splits(i) THEN parts' = parts \cup {<<start, prev>>} /\ start' = i
           ELSE UNCHANGED <<parts, start>>
    BY DEF Turn
  <1>. HIDE DEF i
  <1>3. /\ i \in Nat /\ start \in Nat /\ prev \in Nat /\ i \in ids /\ i \in Tests
        /\ ids \subseteq Nat /\ todo \subseteq ids /\ ~closed
        /\ \A p \in parts : p \in Nat \X Nat
    BY <1>1, TestsType DEF FilterIInv, FilterTypeOK, Shape
  <1>4. Blocked \subseteq Nat /\ Blocked' = Blocked /\ i \notin Blocked
    BY <1>2, <1>3, TestsType, ForeignType, Apart DEF Blocked
  <1>5. Visited' = Visited \cup {i} /\ Visited \subseteq Nat
    BY <1>1, <1>2, <1>3 DEF Visited
  <1>6. start <= prev /\ prev < i /\ \A n \in Visited : n <= prev
    BY <1>1 DEF FilterIInv, Shape
  <1>7. FilterTypeOK'
    BY <1>1, <1>2, <1>3 DEF FilterIInv, FilterTypeOK
  <1>8. Shape'
    <2>1. CASE Splits(i)
      <3>1. parts' = parts \cup {<<start, prev>>} /\ start' = i /\ prev' = i
        BY <1>2, <2>1
      <3>2. \A p \in parts' :
              /\ p[1] <= p[2]
              /\ \A n \in Blocked : ~(p[1] <= n /\ n <= p[2])
              /\ p[2] < i
        BY <3>1, <1>3, <1>4, <1>6 DEF FilterIInv, Shape
      <3>3. \A n \in Visited' :
              (\E p \in parts' : p[1] <= n /\ n <= p[2]) \/ (i <= n /\ n <= i)
        <4>1. \A n \in Visited : (\E p \in parts : p[1] <= n /\ n <= p[2]) \/ (start <= n /\ n <= prev)
          BY DEF FilterIInv, Shape
        <4>2. <<start, prev>> \in parts' /\ <<start, prev>>[1] = start /\ <<start, prev>>[2] = prev
          BY <3>1
        <4>3. \A n \in Visited : \E p \in parts' : p[1] <= n /\ n <= p[2]
          BY <4>1, <4>2, <3>1
        <4>. QED  BY <4>3, <1>3, <1>5
      <3>. QED  BY <3>1, <3>2, <3>3, <1>1, <1>2, <1>3, <1>4, <1>5, <1>6 DEF Shape
    <2>2. CASE ~Splits(i)
      <3>1. UNCHANGED <<parts, start>> /\ prev' = i
        BY <1>2, <2>2
      <3>2. \A n \in Blocked : ~(start <= n /\ n <= i)
        BY <2>2, <1>3, <1>4, <1>6 DEF Splits, FilterIInv, Shape
      <3>3. \A n \in Visited' :
              (\E p \in parts : p[1] <= n /\ n <= p[2]) \/ (start <= n /\ n <= i)
        BY <1>3, <1>5, <1>6 DEF FilterIInv, Shape
      <3>4. \A p \in parts :
              /\ p[1] <= p[2] /\ p[2] < start
              /\ \A n \in Blocked : ~(p[1] <= n /\ n <= p[2])
              /\ p[2] < i
        BY <1>1, <1>3 DEF FilterIInv, Shape
      <3>5. start <= i /\ i \in Visited' /\ start \in Visited'
        BY <1>3, <1>5, <1>6 DEF FilterIInv, Shape
      <3>. QED  BY <3>1, <3>2, <3>3, <3>4, <3>5, <1>1, <1>2, <1>3, <1>4, <1>5, <1>6 DEF Shape
    <2>. QED  BY <2>1, <2>2
  <1>9. Separated'
    <2>1. CASE Splits(i)
      <3>1. parts' = parts \cup {<<start, prev>>} /\ start' = i
        BY <1>2, <2>1
      <3>2. PICK b \in Blocked : prev < b /\ b < i
        BY <2>1 DEF Splits
      <3>3. \A p \in parts : p[2] < start /\ p[1] <= p[2]
            /\ \E c \in Blocked : p[2] < c /\ c < start
        BY <1>3 DEF FilterIInv, Shape, Separated
      <3>4. NoNeedlessSplit'
        BY <3>1, <3>3, <1>3, <1>4, <1>6 DEF FilterIInv, Separated, NoNeedlessSplit
      <3>5. \A p \in parts' : \E c \in Blocked : p[2] < c /\ c < i
        BY <3>1, <3>2, <3>3, <1>3, <1>4, <1>6
      <3>. QED  BY <3>1, <3>4, <3>5, <1>4 DEF Separated
    <2>2. CASE ~Splits(i)
      BY <2>2, <1>2, <1>4 DEF FilterIInv, Separated, NoNeedlessSplit
    <2>. QED  BY <2>1, <2>2
  <1>. QED  BY <1>7, <1>8, <1>9 DEF FilterIInv

LEMMA LastPreserves == FilterIInv /\ Last => FilterIInv'
  <1>. SUFFICES ASSUME FilterIInv, Last PROVE FilterIInv'
    OBVIOUS
  <1>1. /\ parts' = parts \cup {<<start, prev>>} /\ closed' = TRUE
        /\ UNCHANGED <<ids, todo, start, prev>> /\ ~closed /\ todo = {}
    BY DEF Last
  <1>2. /\ start \in Nat /\ prev \in Nat /\ Blocked \subseteq Nat /\ Visited \subseteq Nat
        /\ \A p \in parts : p \in Nat \X Nat
    BY TestsType, ForeignType DEF FilterIInv, FilterTypeOK, Blocked, Visited
  <1>3. Blocked' = Blocked /\ Visited' = Visited
    BY <1>1 DEF Blocked, Visited
  <1>4. FilterTypeOK'
    BY <1>1 DEF FilterIInv, FilterTypeOK
  <1>5. Shape'
    <2>1. \A p \in parts' :
            /\ p[1] <= p[2]
            /\ \A n \in Blocked : ~(p[1] <= n /\ n <= p[2])
      BY <1>1, <1>2 DEF FilterIInv, Shape
    <2>2. \A n \in Visited : \E p \in parts' : p[1] <= n /\ n <= p[2]
      <3>1. \A n \in Visited : (\E p \in parts : p[1] <= n /\ n <= p[2]) \/ (start <= n /\ n <= prev)
        BY DEF FilterIInv, Shape
      <3>2. <<start, prev>> \in parts' /\ <<start, prev>>[1] = start /\ <<start, prev>>[2] = prev
        BY <1>1
      <3>. QED  BY <3>1, <3>2, <1>1
    <2>. QED  BY <2>1, <2>2, <1>1, <1>3 DEF FilterIInv, Shape
  <1>6. Separated'
    <2>1. \A p \in parts : p[2] < start /\ p[1] <= p[2]
          /\ \E c \in Blocked : p[2] < c /\ c < start
      BY <1>1 DEF FilterIInv, Shape, Separated
    <2>2. NoNeedlessSplit'
      BY <2>1, <1>1, <1>2, <1>3 DEF FilterIInv, Shape, Separated, NoNeedlessSplit
    <2>. QED  BY <2>2, <1>1 DEF Separated
  <1>. QED  BY <1>4, <1>5, <1>6 DEF FilterIInv

(* The closed ranges hold the chunk and nothing that is blocked.            *)
LEMMA ExactWhenClosed == FilterIInv => FilterIsExact
  <1>. SUFFICES ASSUME FilterIInv, closed PROVE Covered = ids
    BY DEF FilterIsExact
  <1>1. Visited = ids
    BY DEF FilterIInv, Shape, Visited
  <1>2. /\ Tests \cup Foreign \subseteq Nat /\ ids \subseteq Tests
        /\ \A p \in parts : p \in Nat \X Nat
    BY TestsType, ForeignType DEF FilterIInv, FilterTypeOK
  <1>3. \A p \in parts : \A n \in Tests \cup Foreign : n \in Span(p) <=> p[1] <= n /\ n <= p[2]
    BY <1>2 DEF Span
  <1>4. ids \subseteq Covered
    BY <1>1, <1>2, <1>3 DEF FilterIInv, Shape, Covered
  <1>5. Covered \subseteq ids
    <2>. SUFFICES ASSUME NEW n \in Tests \cup Foreign, NEW p \in parts, n \in Span(p)
                  PROVE  n \in ids
      BY DEF Covered
    <2>1. p[1] <= n /\ n <= p[2]
      BY <1>3
    <2>2. n \notin Blocked
      BY <2>1 DEF FilterIInv, Shape
    <2>. QED  BY <2>2 DEF Blocked
  <1>. QED  BY <1>4, <1>5

-----------------------------------------------------------------------------
(* The chunked run (NightlyRun)                                              *)

(* Appending S to a merge adds one assembly per codeunit of S. *)
LEMMA AppendEffect ==
  ASSUME NEW m \in [Codeunit -> Nat], NEW S
  PROVE  /\ Append1(m, S) \in [Codeunit -> Nat]
         /\ \A c \in Codeunit : Append1(m, S)[c] = IF c \in S THEN m[c] + 1 ELSE m[c]
         /\ ReportedIds(Append1(m, S)) = ReportedIds(m) \cup (S \cap Codeunit)
  <1>1. Append1(m, S) \in [Codeunit -> Nat]
    BY DEF Append1
  <1>2. \A c \in Codeunit : Append1(m, S)[c] = IF c \in S THEN m[c] + 1 ELSE m[c]
    BY DEF Append1
  <1>. QED  BY <1>1, <1>2 DEF ReportedIds

(* A chunk holds codeunits still to run, and at least one. *)
LEMMA ChunkType ==
  ASSUME TypeOK, NEW chunk \in First(Remaining, size)
  PROVE  /\ chunk \subseteq Remaining
         /\ IsFiniteSet(chunk)
         /\ Cardinality(chunk) \in Nat
         /\ Cardinality(chunk) <= size
         /\ suite \in Suite => Remaining \subseteq Expected[suite]
         /\ chunk \subseteq Codeunit
  <1>1. chunk \subseteq Remaining /\ Cardinality(chunk) = Smaller(size, Cardinality(Remaining))
    BY DEF First
  <1>2. IsFiniteSet(Remaining) /\ Remaining \subseteq Codeunit
    <2>1. CASE suite = 0
      BY <2>1, FS_EmptySet DEF Remaining
    <2>2. CASE suite # 0
      <3>1. suite \in Suite /\ IsFiniteSet(Expected[suite])
        BY <2>2, ExpectedType, SuitesType DEF TypeOK, Suite
      <3>2. Remaining \subseteq Expected[suite]
        BY <2>2 DEF Remaining
      <3>. QED  BY <3>1, <3>2, FS_Subset DEF Codeunit
    <2>. QED  BY <2>1, <2>2
  <1>3. IsFiniteSet(chunk) /\ Cardinality(chunk) \in Nat /\ Cardinality(Remaining) \in Nat
    BY <1>1, <1>2, FS_Subset, FS_CardinalityType
  <1>4. size \in Nat
    BY BoundsType DEF TypeOK
  <1>5. Cardinality(chunk) <= size
    BY <1>1, <1>3, <1>4 DEF Smaller
  <1>6. suite \in Suite => Remaining \subseteq Expected[suite]
    BY SuitesType DEF Remaining, Suite
  <1>. QED  BY <1>1, <1>2, <1>3, <1>5, <1>6

LEMMA InitIInv == Init => IInv
  <1>. SUFFICES ASSUME Init PROVE IInv
    OBVIOUS
  <1>. USE DEF Init, Nothing
  <1>1. TypeOK
    <2>1. suite \in 0..Suites
      BY SuitesType
    <2>2. size \in 1..ChunkSize /\ inARow \in 0..MaxAbortsInARow /\ call \in 0..MaxCalls
      BY BoundsType
    <2>. QED  BY <2>1, <2>2 DEF TypeOK
  <1>2. Accounted /\ MergedOnce
    BY DEF Accounted, MergedOnce, ReportedIds
  <1>3. HandedOver
    BY DEF HandedOver, ReportedIds
  <1>. QED  BY <1>1, <1>2, <1>3 DEF IInv

LEMMA StartSuiteIInv ==
  ASSUME IInv, StartSuite
  PROVE  IInv'
  <1>. USE DEF StartSuite, Nothing
  <1>1. TypeOK'
    <2>1. suite' \in 0..Suites /\ suite + 1 \in Suite
      BY SuitesType DEF IInv, TypeOK, Suite
    <2>2. size' \in 1..ChunkSize /\ inARow' \in 0..MaxAbortsInARow /\ call' \in 0..MaxCalls
      BY BoundsType
    <2>3. merged' \in [Codeunit -> Nat]
      OBVIOUS
    <2>. QED  BY <2>1, <2>2, <2>3 DEF IInv, TypeOK
  <1>2. Accounted' /\ MergedOnce'
    BY DEF Accounted, MergedOnce, ReportedIds
  <1>3. HandedOver'
    <2>1. suite' > 0 /\ inARow' < MaxAbortsInARow
      BY SuitesType, BoundsType DEF IInv, TypeOK
    <2>2. listed' = 1..suite'
      BY SuitesType DEF IInv, TypeOK, HandedOver
    <2>3. \A s \in Suite : recorded'[s] \subseteq ReportedIds(saved'[s])
      BY DEF IInv, HandedOver
    <2>4. ~runFailed'
      BY DEF IInv, HandedOver
    <2>. QED  BY <2>1, <2>2, <2>3, <2>4 DEF HandedOver
  <1>. QED  BY <1>1, <1>2, <1>3 DEF IInv

(* What one call of the test runner may do to the loop's state. *)
LEMMA CallIInv ==
  ASSUME IInv, Calls,
         NEW New, New \subseteq Remaining,
         \/ done' = done \cup New /\ aborted' = aborted
         \/ done' = done /\ aborted' = aborted \cup New,
         px' \subseteq Codeunit,
         merged' \in [Codeunit -> Nat],
         \/ merged' = Append1(merged, New) /\ UNCHANGED torn
         \/ torn' = TRUE /\ ReportedIds(Append1(merged, New)) \subseteq ReportedIds(merged'),
         size' \in 1..ChunkSize,
         \/ inARow' \in 0..MaxAbortsInARow - 1 /\ UNCHANGED <<step, runFailed>>
         \/ inARow' \in 0..MaxAbortsInARow /\ Throw
  PROVE  IInv'
  <1>1. /\ suite \in Suite /\ suite' = suite /\ call' \in 0..MaxCalls
        /\ UNCHANGED <<saved, recorded, listed>>
        /\ step = "calls"
    BY SuitesType, BoundsType DEF IInv, TypeOK, HandedOver, Calls, resultVars, Suite
  <1>2. /\ New \subseteq Expected[suite] /\ New \subseteq Codeunit
        /\ New \cap (done \cup aborted) = {}
    BY <1>1, SuitesType DEF Remaining, Suite, Codeunit
  <1>3. /\ Append1(merged, New) \in [Codeunit -> Nat]
        /\ \A c \in Codeunit :
             Append1(merged, New)[c] = IF c \in New THEN merged[c] + 1 ELSE merged[c]
        /\ ReportedIds(Append1(merged, New)) = ReportedIds(merged) \cup New
    BY <1>2, AppendEffect DEF IInv, TypeOK
  <1>4. done' \cup aborted' = (done \cup aborted) \cup New
    OBVIOUS
  <1>5. TypeOK'
    <2>1. inARow' \in 0..MaxAbortsInARow
      BY BoundsType
    <2>2. step' \in {"calls", "coverage"} /\ runFailed' \in BOOLEAN
      BY <1>1 DEF Throw, IInv, TypeOK
    <2>3. done' \subseteq Codeunit /\ aborted' \subseteq Codeunit
      BY <1>2 DEF IInv, TypeOK
    <2>. QED  BY <1>1, <2>1, <2>2, <2>3 DEF IInv, TypeOK
  <1>6. Accounted'
    <2>1. done' \cap aborted' = {}
      BY <1>2 DEF IInv, Accounted
    <2>2. done' \cup aborted' \subseteq Expected[suite']
      BY <1>1, <1>2, <1>4 DEF IInv, Accounted, Suite
    <2>3. torn' \/ ReportedIds(merged') = done' \cup aborted'
      BY <1>3, <1>4 DEF IInv, Accounted
    <2>4. done' \cup aborted' \subseteq ReportedIds(merged')
      BY <1>3, <1>4 DEF IInv, Accounted
    <2>. QED  BY <2>1, <2>2, <2>3, <2>4 DEF Accounted, ReportedIds
  <1>7. MergedOnce'
    <2>. SUFFICES ASSUME ~torn', NEW c \in Codeunit
                  PROVE  merged'[c] = IF c \in done' \cup aborted' THEN 1 ELSE 0
      BY DEF MergedOnce
    <2>1. merged[c] = IF c \in done \cup aborted THEN 1 ELSE 0
      BY DEF IInv, MergedOnce
    <2>2. merged'[c] = IF c \in New THEN merged[c] + 1 ELSE merged[c]
      BY <1>3
    <2>. QED  BY <1>2, <1>4, <2>1, <2>2
  <1>8. HandedOver'
    <2>1. \A s \in Suite : recorded'[s] \subseteq ReportedIds(saved'[s])
      BY <1>1 DEF IInv, HandedOver
    <2>2. listed' = 1..suite'
      BY <1>1 DEF IInv, HandedOver
    <2>3. step' = "calls" => suite' > 0 /\ inARow' < MaxAbortsInARow
      BY <1>1, BoundsType DEF IInv, HandedOver, Throw
    <2>4. step' # "green" /\ (step' = "coverage" => runFailed')
      BY <1>1 DEF Throw
    <2>5. step' = "calls" => ~runFailed'
      BY <1>1 DEF IInv, HandedOver, Throw
    <2>. QED  BY <1>1, <2>1, <2>2, <2>3, <2>4, <2>5 DEF HandedOver, Throw
  <1>. QED  BY <1>5, <1>6, <1>7, <1>8 DEF IInv

(* What a call that reported nothing leaves of the merge. *)
LEMMA NothingReportedEffect ==
  ASSUME TypeOK,
         NEW base \in [Codeunit -> Nat],
         NothingReported(base)
  PROVE  /\ px' \subseteq Codeunit
         /\ merged' \in [Codeunit -> Nat]
         /\ \/ merged' = base /\ UNCHANGED torn
            \/ torn' = TRUE /\ ReportedIds(base) \subseteq ReportedIds(merged')
  <1>1. CASE merged' = base /\ UNCHANGED torn
    BY <1>1 DEF NothingReported, TypeOK
  <1>2. CASE merged' = Append1(base, px) /\ px' = px /\ torn' = TRUE
    <2>1. merged' \in [Codeunit -> Nat] /\ ReportedIds(base) \subseteq ReportedIds(merged')
      BY <1>2, AppendEffect
    <2>2. px' \subseteq Codeunit
      BY <1>2 DEF TypeOK
    <2>. QED  BY <1>2, <2>1, <2>2
  <1>. QED  BY <1>1, <1>2 DEF NothingReported

LEMMA FilterIgnoredIInv ==
  ASSUME IInv, NEW chunk \in First(Remaining, size), FilterIgnored(chunk)
  PROVE  IInv'
  <1>. USE DEF FilterIgnored
  <1>1. merged' = Append1(merged, {})
    BY DEF Append1, IInv, TypeOK
  <1>2. /\ px' \subseteq Codeunit /\ merged' \in [Codeunit -> Nat]
        /\ size' \in 1..ChunkSize /\ inARow' \in 0..MaxAbortsInARow
    BY DEF IInv, TypeOK
  <1>3. PICK New : New = {}
    OBVIOUS
  <1>4. /\ New \subseteq Remaining /\ done' = done \cup New /\ aborted' = aborted
        /\ merged' = Append1(merged, New) /\ UNCHANGED torn
    BY <1>1, <1>3
  <1>. QED  BY <1>2, <1>4, CallIInv

LEMMA ReportedIInv ==
  ASSUME IInv, NEW chunk \in First(Remaining, size), NEW got, Reported(chunk, got)
  PROVE  IInv'
  <1>. USE DEF Reported
  <1>1. got \subseteq Remaining /\ got \subseteq Codeunit
    BY ChunkType DEF IInv
  <1>2. size' \in 1..ChunkSize
    BY BoundsType DEF IInv, TypeOK, Smaller
  <1>3. merged' \in [Codeunit -> Nat]
    BY AppendEffect DEF IInv, TypeOK
  <1>4. inARow' \in 0..MaxAbortsInARow - 1
    BY BoundsType
  <1>. QED  BY <1>1, <1>2, <1>3, <1>4, CallIInv

LEMMA RunnerStopIInv ==
  ASSUME IInv, NEW chunk \in First(Remaining, size), RunnerStop(chunk)
  PROVE  IInv'
  <1>. USE DEF RunnerStop
  <1>1. chunk \subseteq Remaining
    BY ChunkType DEF IInv
  <1>2. Append1(merged, chunk) \in [Codeunit -> Nat]
    BY AppendEffect DEF IInv, TypeOK
  <1>3. /\ px' \subseteq Codeunit
        /\ merged' \in [Codeunit -> Nat]
        /\ \/ merged' = Append1(merged, chunk) /\ UNCHANGED torn
           \/ torn' = TRUE /\ ReportedIds(Append1(merged, chunk)) \subseteq ReportedIds(merged')
    BY <1>2, NothingReportedEffect DEF IInv
  <1>4. size' \in 1..ChunkSize
    BY BoundsType
  <1>5. \/ inARow' \in 0..MaxAbortsInARow - 1 /\ UNCHANGED <<step, runFailed>>
        \/ inARow' \in 0..MaxAbortsInARow /\ Throw
    <2>1. inARow \in 0..MaxAbortsInARow /\ inARow < MaxAbortsInARow
      BY DEF IInv, TypeOK, HandedOver, Calls
    <2>2. CASE inARow + 1 >= MaxAbortsInARow
      <3>1. inARow' \in 0..MaxAbortsInARow
        BY <2>1, <2>2, BoundsType
      <3>. QED  BY <2>2, <3>1
    <2>3. CASE ~(inARow + 1 >= MaxAbortsInARow)
      <3>1. inARow' \in 0..MaxAbortsInARow - 1
        BY <2>1, <2>3, BoundsType
      <3>. QED  BY <2>3, <3>1
    <2>. QED  BY <2>2, <2>3
  <1>. QED  BY <1>1, <1>3, <1>4, <1>5, CallIInv

LEMMA HalveIInv ==
  ASSUME IInv, NEW chunk \in First(Remaining, size), Halve(chunk)
  PROVE  IInv'
  <1>. USE DEF Halve
  <1>1. merged \in [Codeunit -> Nat] /\ merged = Append1(merged, {})
    BY DEF Append1, IInv, TypeOK
  <1>2. /\ px' \subseteq Codeunit
        /\ merged' \in [Codeunit -> Nat]
        /\ \/ merged' = Append1(merged, {}) /\ UNCHANGED torn
           \/ torn' = TRUE /\ ReportedIds(Append1(merged, {})) \subseteq ReportedIds(merged')
    BY <1>1, NothingReportedEffect DEF IInv
  <1>3. size' \in 1..ChunkSize
    <2>1. Cardinality(chunk) \in Nat /\ Cardinality(chunk) <= size /\ size \in 1..ChunkSize
      BY ChunkType DEF IInv, TypeOK
    <2>. QED  BY <2>1, BoundsType DEF Larger
  <1>4. inARow' \in 0..MaxAbortsInARow - 1
    BY BoundsType DEF IInv, TypeOK, HandedOver, Calls
  <1>5. PICK New : New = {}
    OBVIOUS
  <1>6. New \subseteq Remaining /\ done' = done \cup New /\ aborted' = aborted
    BY <1>5
  <1>7. \/ merged' = Append1(merged, New) /\ UNCHANGED torn
        \/ torn' = TRUE /\ ReportedIds(Append1(merged, New)) \subseteq ReportedIds(merged')
    BY <1>2, <1>5
  <1>. QED  BY <1>2, <1>3, <1>4, <1>6, <1>7, CallIInv

(* The suite's results are saved as they were merged, and with them every    *)
(* runner stop, which Accounted says the merge holds.                        *)
LEMMA EndSuiteIInv ==
  ASSUME IInv, EndSuite
  PROVE  IInv'
  <1>. USE DEF EndSuite, loopVars
  <1>1. suite \in Suite /\ suite \in 0..Suites
    BY SuitesType DEF IInv, TypeOK, HandedOver, Suite
  <1>2. TypeOK'
    BY <1>1 DEF IInv, TypeOK
  <1>3. Accounted' /\ MergedOnce'
    BY DEF IInv, Accounted, MergedOnce, ReportedIds
  <1>4. HandedOver'
    <2>1. ASSUME NEW s \in Suite
          PROVE  recorded'[s] \subseteq ReportedIds(saved'[s])
      <3>1. CASE s = suite
        BY <3>1, <1>1 DEF IInv, TypeOK, Accounted
      <3>2. CASE s # suite
        BY <3>2, <1>1 DEF IInv, TypeOK, HandedOver
      <3>. QED  BY <3>1, <3>2
    <2>2. step' # "calls" /\ step' # "green" /\ (step' = "coverage" => suite' = Suites)
      OBVIOUS
    <2>3. listed' = 1..suite'
      BY DEF IInv, HandedOver
    <2>4. ~runFailed'
      BY DEF IInv, HandedOver
    <2>. QED  BY <2>1, <2>2, <2>3, <2>4 DEF HandedOver, ReportedIds
  <1>. QED  BY <1>2, <1>3, <1>4 DEF IInv

LEMMA UnpreparedIInv ==
  ASSUME IInv, Unprepared
  PROVE  IInv'
  <1>. USE DEF Unprepared, Throw, loopVars, resultVars
  <1>1. TypeOK'
    BY DEF IInv, TypeOK
  <1>2. Accounted' /\ MergedOnce'
    BY DEF IInv, Accounted, MergedOnce, ReportedIds
  <1>3. HandedOver'
    BY DEF IInv, HandedOver, ReportedIds
  <1>. QED  BY <1>1, <1>2, <1>3 DEF IInv

LEMMA CoverageIInv ==
  ASSUME IInv, Coverage
  PROVE  IInv'
  <1>. USE DEF Coverage, loopVars, resultVars
  <1>1. TypeOK'
    BY DEF IInv, TypeOK
  <1>2. Accounted' /\ MergedOnce'
    BY DEF IInv, Accounted, MergedOnce, ReportedIds
  <1>3. HandedOver'
    BY DEF IInv, HandedOver, ReportedIds, Missing
  <1>. QED  BY <1>1, <1>2, <1>3 DEF IInv

LEMMA StepIInv ==
  ASSUME IInv, [Next]_vars
  PROVE  IInv'
  <1>1. CASE StartSuite  BY <1>1, StartSuiteIInv
  <1>2. ASSUME NEW chunk \in First(Remaining, size), FilterIgnored(chunk)
        PROVE  IInv'
    BY <1>2, FilterIgnoredIInv
  <1>3. ASSUME NEW chunk \in First(Remaining, size),
               NEW got \in SUBSET chunk, Reported(chunk, got)
        PROVE  IInv'
    BY <1>3, ReportedIInv
  <1>4. ASSUME NEW chunk \in First(Remaining, size), RunnerStop(chunk)
        PROVE  IInv'
    BY <1>4, RunnerStopIInv
  <1>5. ASSUME NEW chunk \in First(Remaining, size), Halve(chunk)
        PROVE  IInv'
    BY <1>5, HalveIInv
  <1>6. CASE EndSuite  BY <1>6, EndSuiteIInv
  <1>7. CASE Coverage  BY <1>7, CoverageIInv
  <1>8. CASE Unprepared  BY <1>8, UnpreparedIInv
  <1>9. CASE UNCHANGED vars
    BY <1>9 DEF vars, IInv, TypeOK, Accounted, MergedOnce, HandedOver,
                      ReportedIds, Missing
  <1>. QED  BY <1>1, <1>2, <1>3, <1>4, <1>5, <1>6, <1>7, <1>8, <1>9 DEF Next

(***************************************************************************)
(* The inductive invariant, for any suites: every codeunit accounted for   *)
(* is in the merge, every recorded runner stop is in the saved file, and   *)
(* the coverage step is reached without a throw only past the last suite   *)
(* (nightly-windows.yml 834-931).                                          *)
(***************************************************************************)
THEOREM InductiveInvariant == Spec => []IInv
  BY InitIInv, StepIInv, PTL DEF Spec

(***************************************************************************)
(* A green night has a result for every test codeunit of every suite,      *)
(* whatever the runner answers, torn result files included                 *)
(* (nightly-windows.yml 1023-1037, codeunit-coverage.py 96-123).           *)
(***************************************************************************)
THEOREM GreenIsCompleteHolds == Spec => []GreenIsComplete
  <1>1. IInv => GreenIsComplete
    <2>. SUFFICES ASSUME IInv, step = "green", NEW s \in Suite
                  PROVE  Expected[s] \subseteq ReportedIds(saved[s])
      BY DEF GreenIsComplete
    <2>1. s \in listed /\ Missing(s) = {}
      BY DEF IInv, HandedOver, Suite
    <2>2. recorded[s] \subseteq ReportedIds(saved[s])
      BY DEF IInv, HandedOver
    <2>. QED  BY <2>1, <2>2 DEF Missing
  <1>. QED  BY <1>1, InductiveInvariant, PTL

(***************************************************************************)
(* Until a result file is present that is not XML, no codeunit's results   *)
(* are merged twice (nightly-windows.yml 884-918).                         *)
(***************************************************************************)
THEOREM NoDuplicateUnlessTornHolds == Spec => []NoDuplicateUnlessTorn
  <1>1. IInv => NoDuplicateUnlessTorn
    BY DEF IInv, MergedOnce, NoDuplicateUnlessTorn
  <1>. QED  BY <1>1, InductiveInvariant, PTL

(***************************************************************************)
(* A codeunit reported or is a runner stop, never both, and the merge is   *)
(* what is accounted for (nightly-windows.yml 859-922).                    *)
(***************************************************************************)
THEOREM AccountedHolds == Spec => []Accounted
  <1>1. IInv => Accounted
    BY DEF IInv
  <1>. QED  BY <1>1, InductiveInvariant, PTL

(* Type correctness (nightly-windows.yml 834-931). *)
THEOREM TypeCorrect == Spec => []TypeOK
  <1>1. IInv => TypeOK
    BY DEF IInv
  <1>. QED  BY <1>1, InductiveInvariant, PTL

-----------------------------------------------------------------------------
(* The chunks and their filters (ChunkedRun)                                 *)

(* What remains is never cut to nothing.                                     *)
LEMMA ChunkNotEmpty ==
  ASSUME IInv, Remaining # {}, NEW chunk \in First(Remaining, size)
  PROVE  chunk # {} /\ chunk \in SUBSET Codeunit
  <1>1. TypeOK
    BY DEF IInv
  <1>2. suite \in Suite /\ Remaining \subseteq Expected[suite] /\ IsFiniteSet(Remaining)
    <2>1. suite # 0 /\ suite \in Suite
      BY <1>1, SuitesType DEF Remaining, TypeOK, Suite
    <2>2. Remaining \subseteq Expected[suite] /\ IsFiniteSet(Expected[suite])
      BY <2>1, ExpectedType DEF Remaining
    <2>. QED  BY <2>1, <2>2, FS_Subset
  <1>3. Cardinality(Remaining) \in Nat /\ Cardinality(Remaining) # 0
    BY <1>2, FS_CardinalityType, FS_EmptySet
  <1>4. size \in Nat \ {0}
    BY <1>1, BoundsType DEF TypeOK
  <1>5. Cardinality(chunk) = Smaller(size, Cardinality(Remaining))
    BY DEF First
  <1>6. Cardinality(chunk) # 0
    BY <1>3, <1>4, <1>5 DEF Smaller
  <1>7. chunk # {}
    BY <1>6, FS_EmptySet
  <1>. QED  BY <1>1, <1>7, ChunkType

(* A step of the loop is one of NightlyRun or none, and hands the chunk on.  *)
LEMMA ChunkedStep ==
  ASSUME IInv, ChunkOK, [ChunkedNext]_chunkedVars
  PROVE  [Next]_vars /\ ChunkOK'
  <1>1. CASE TakeChunk
    <2>1. UNCHANGED vars
      BY <1>1 DEF TakeChunk
    <2>2. PICK chunk \in First(Remaining, size) : Enter(chunk)
      BY <1>1 DEF TakeChunk
    <2>3. chunk # {} /\ chunk \in SUBSET Tests
      BY <1>1, ChunkNotEmpty, InstalledTests DEF TakeChunk
    <2>4. FilterIInv'
      BY <2>2, <2>3, EnterHolds
    <2>5. ids' \in First(Remaining, size)' /\ step' = "calls" /\ call' < MaxCalls
      BY <1>1, <2>1, <2>2 DEF TakeChunk, Enter, vars, Remaining, First
    <2>. QED  BY <2>1, <2>4, <2>5 DEF ChunkOK
  <1>2. ASSUME ~NoChunk
        PROVE  FilterIInv /\ step = "calls" /\ call < MaxCalls /\ ids \in First(Remaining, size)
    BY <1>2 DEF ChunkOK, NoFilter, NoChunk
  <1>3. CASE BuildFilter
    <2>1. UNCHANGED vars /\ FilterNext /\ ~NoChunk
      BY <1>3 DEF BuildFilter
    <2>2. FilterIInv'
      BY <2>1, <1>2, TurnPreserves, LastPreserves DEF FilterNext
    <2>3. ids' = ids
      BY <2>1 DEF FilterNext, Turn, Last
    <2>4. ids' \in First(Remaining, size)' /\ step' = "calls" /\ call' < MaxCalls
      BY <1>2, <2>1, <2>3 DEF vars, Remaining, First
    <2>. QED  BY <2>1, <2>2, <2>4 DEF ChunkOK
  <1>4. CASE Call
    <2>1. ids \in First(Remaining, size)
      BY <1>2, <1>4 DEF Call
    <2>2. Next
      <3>1. CASE FilterIgnored(ids) \/ RunnerStop(ids) \/ Halve(ids)
        BY <2>1, <3>1 DEF Next
      <3>2. ASSUME NEW got \in SUBSET Covered, Reported(ids, got) PROVE Next
        BY <2>1, <3>2 DEF Next, Reported
      <3>. QED  BY <1>4, <3>1, <3>2 DEF Call
    <2>3. NoFilter'
      BY <1>4 DEF Call, Leave, NoFilter
    <2>. QED  BY <2>2, <2>3 DEF ChunkOK
  <1>5. CASE BetweenCalls
    <2>1. Next
      BY <1>5 DEF BetweenCalls, Next
    <2>2. NoFilter
      BY <1>5 DEF BetweenCalls, NoChunk, ChunkOK, NoFilter, FilterIInv, FilterTypeOK, Shape, Visited
    <2>3. NoFilter'
      BY <1>5, <2>2 DEF BetweenCalls, filterVars, NoFilter
    <2>. QED  BY <2>1, <2>3 DEF ChunkOK
  <1>6. CASE UNCHANGED chunkedVars
    <2>1. UNCHANGED vars /\ UNCHANGED filterVars
      BY <1>6 DEF chunkedVars
    <2>2. UNCHANGED <<ids, todo, start, prev, parts, closed>> /\ UNCHANGED <<step, call, Remaining, size>>
      BY <2>1 DEF filterVars, vars, Remaining
    <2>3. FilterIInv => FilterIInv'
      BY <2>2 DEF FilterIInv, FilterTypeOK, Shape, Separated, NoNeedlessSplit, Visited, Blocked
    <2>4. ChunkOK'
      BY <2>2, <2>3 DEF ChunkOK, NoFilter, First
    <2>. QED  BY <2>1, <2>4
  <1>. QED  BY <1>1, <1>3, <1>4, <1>5, <1>6 DEF ChunkedNext

(***************************************************************************)
(* Outside the calls there is no filter; a chunk that was taken stays the  *)
(* first of what remains until its call, and its closed ranges and the     *)
(* open one hold what the loop has visited and nothing blocked             *)
(* (nightly-windows.yml 802-814 and 859-873).                              *)
(***************************************************************************)
THEOREM ChunkInvariant == ChunkedSpec => [](IInv /\ ChunkOK)
  <1>1. ChunkedInit => IInv /\ ChunkOK
    BY InitIInv DEF ChunkedInit, ChunkOK
  <1>2. IInv /\ ChunkOK /\ [ChunkedNext]_chunkedVars => IInv' /\ ChunkOK'
    BY ChunkedStep, StepIInv
  <1>. QED  BY <1>1, <1>2, PTL DEF ChunkedSpec

(***************************************************************************)
(* The loop that takes chunks and builds filters is a NightlyRun: what is  *)
(* proved of that holds of it (nightly-windows.yml 859-922).               *)
(***************************************************************************)
THEOREM ChunkedRunIsARun == ChunkedSpec => Spec
  <1>1. ChunkedInit => Init
    BY DEF ChunkedInit
  <1>2. IInv /\ ChunkOK /\ [ChunkedNext]_chunkedVars => [Next]_vars
    BY ChunkedStep
  <1>. QED  BY <1>1, <1>2, ChunkInvariant, PTL DEF ChunkedSpec, Spec

(***************************************************************************)
(* The filter of every call selects the chunk and nothing else that is     *)
(* installed, for any sets of test codeunits and any answers to the calls  *)
(* before it (nightly-windows.yml 802-814, 864-868).                       *)
(***************************************************************************)
THEOREM FilterIsExactHolds == ChunkedSpec => []FilterIsExact
  <1>1. ChunkOK => FilterIsExact
    BY ExactWhenClosed DEF ChunkOK, NoFilter, FilterIsExact
  <1>. QED  BY <1>1, ChunkInvariant, PTL

(***************************************************************************)
(* Two ranges are never split without a blocked codeunit between them      *)
(* (nightly-windows.yml 806-808).                                          *)
(***************************************************************************)
THEOREM NoNeedlessSplitHolds == ChunkedSpec => []NoNeedlessSplit
  <1>1. ChunkOK => NoNeedlessSplit
    BY DEF ChunkOK, NoFilter, FilterIInv, Separated, NoNeedlessSplit
  <1>. QED  BY <1>1, ChunkInvariant, PTL


(* How often a chunk can be halved: the recursion defines a function, since  *)
(* the table up to m can be continued by one more row.                       *)
LEMMA HalvingsUnfold ==
  /\ HalvingsOf \in [1..ChunkSize -> Nat]
  /\ \A n \in 1..ChunkSize :
       HalvingsOf[n] = IF n = 1 THEN 0 ELSE 1 + HalvingsOf[n \div 2]
  <1>. DEFINE Row(g, n) == IF n = 1 THEN 0 ELSE 1 + g[n \div 2]
              Table(m) == \E g \in [1..m -> Nat] : \A n \in 1..m : g[n] = Row(g, n)
              lacking == {m \in 1..ChunkSize : ~Table(m)}
  <1>0. ChunkSize \in Nat \ {0}
    BY BoundsType
  <1>1. lacking = {}
    <2>. SUFFICES ASSUME lacking # {} PROVE FALSE
      OBVIOUS
    <2>1. PICK m : m = Least(lacking)
      OBVIOUS
    <2>2. m \in lacking /\ \A k \in lacking : m <= k
      <3>1. lacking \in SUBSET Nat
        BY <1>0
      <3>. HIDE DEF lacking
      <3>. QED  BY <2>1, <3>1, LeastIsLeast
    <2>3. CASE m = 1
      <3>1. PICK g : g = [n \in 1..1 |-> 0]
        OBVIOUS
      <3>2. g \in [1..1 -> Nat] /\ \A n \in 1..1 : g[n] = Row(g, n)
        BY <3>1
      <3>. QED  BY <2>2, <2>3, <3>2
    <2>4. CASE m # 1
      <3>1. m \in 1..ChunkSize /\ m - 1 \in 1..ChunkSize /\ m - 1 \notin lacking
        <4>1. lacking \subseteq 1..ChunkSize
          OBVIOUS
        <4>. HIDE DEF lacking
        <4>. QED  BY <1>0, <2>2, <2>4, <4>1
      <3>2. Table(m - 1)
        BY <3>1
      <3>3. PICK g \in [1..(m - 1) -> Nat] : \A n \in 1..(m - 1) : g[n] = Row(g, n)
        BY <3>2
      <3>4. \A n \in 2..m : n \div 2 \in 1..(m - 1)
        BY <1>0, <3>1
      <3>5. PICK h : h = [n \in 1..m |-> IF n = m THEN 1 + g[m \div 2] ELSE g[n]]
        OBVIOUS
      <3>6. h \in [1..m -> Nat]
        BY <1>0, <2>4, <3>1, <3>4, <3>5
      <3>7. ASSUME NEW n \in 1..m PROVE h[n] = Row(h, n)
        <4>1. CASE n = m
          <5>1. n \div 2 \in 1..(m - 1) /\ h[n] = 1 + g[n \div 2]
            BY <1>0, <2>4, <3>1, <3>4, <3>5, <4>1
          <5>2. h[n \div 2] = g[n \div 2]
            BY <1>0, <3>1, <3>5, <5>1
          <5>. QED  BY <2>4, <4>1, <5>1, <5>2
        <4>2. CASE n # m
          <5>1. n \in 1..(m - 1) /\ h[n] = g[n] /\ g[n] = Row(g, n)
            BY <1>0, <3>1, <3>3, <3>5, <4>2
          <5>2. CASE n = 1
            BY <5>1, <5>2
          <5>3. CASE n # 1
            <6>1. n \div 2 \in 1..(m - 1)
              BY <1>0, <3>1, <3>4, <5>3
            <6>2. h[n \div 2] = g[n \div 2]
              BY <1>0, <3>1, <3>5, <6>1
            <6>. QED  BY <5>1, <5>3, <6>2
          <5>. QED  BY <5>2, <5>3
        <4>. QED  BY <4>1, <4>2
      <3>. QED  BY <2>2, <3>6, <3>7
    <2>. QED  BY <2>3, <2>4
  <1>2. Table(ChunkSize)
    <2>1. ChunkSize \in 1..ChunkSize
      BY <1>0
    <2>. HIDE DEF Table
    <2>. QED  BY <1>1, <2>1
  <1>3. PICK g \in [1..ChunkSize -> Nat] : \A n \in 1..ChunkSize : g[n] = Row(g, n)
    BY <1>2
  <1>4. g = [n \in 1..ChunkSize |-> Row(g, n)]
    BY <1>3
  <1>5. HalvingsOf = [n \in 1..ChunkSize |-> Row(HalvingsOf, n)]
    BY <1>4 DEF HalvingsOf
  <1>. HIDE DEF lacking, Table
  <1>6. \A n \in 1..ChunkSize : HalvingsOf[n] = Row(HalvingsOf, n)
    BY <1>5
  <1>7. \A n \in 1..ChunkSize : HalvingsOf[n] = g[n]
    <2>. DEFINE apart == {n \in 1..ChunkSize : HalvingsOf[n] # g[n]}
    <2>. SUFFICES ASSUME apart # {} PROVE FALSE
      OBVIOUS
    <2>1. PICK m : m = Least(apart)
      OBVIOUS
    <2>2. m \in apart /\ \A k \in apart : m <= k
      <3>1. apart \in SUBSET Nat
        BY <1>0
      <3>. HIDE DEF apart
      <3>. QED  BY <2>1, <3>1, LeastIsLeast
    <2>3. CASE m = 1
      BY <1>3, <1>6, <2>2, <2>3
    <2>4. CASE m # 1
      <3>1. m \div 2 \in 1..ChunkSize /\ m \div 2 < m /\ m \in 1..ChunkSize
        BY <1>0, <2>2, <2>4
      <3>2. HalvingsOf[m \div 2] = g[m \div 2]
        BY <1>0, <2>2, <3>1
      <3>. QED  BY <1>3, <1>6, <2>2, <2>4, <3>1, <3>2
    <2>. QED  BY <2>3, <2>4
  <1>. QED  BY <1>3, <1>5, <1>6, <1>7

(* A larger chunk can be halved at least as often. *)
LEMMA HalvingsGrow ==
  ASSUME NEW m \in 1..ChunkSize, NEW n \in 1..ChunkSize, m <= n
  PROVE  HalvingsOf[m] <= HalvingsOf[n]
  <1>. DEFINE Grown(l) == \A k \in 1..ChunkSize : k <= l => HalvingsOf[k] <= HalvingsOf[l]
              shrunk == {l \in 1..ChunkSize : ~Grown(l)}
  <1>0. ChunkSize \in Nat \ {0} /\ \A k \in 1..ChunkSize : HalvingsOf[k] \in Nat
    BY BoundsType, HalvingsUnfold
  <1>1. shrunk = {}
    <2>. SUFFICES ASSUME shrunk # {} PROVE FALSE
      OBVIOUS
    <2>1. PICK l : l = Least(shrunk)
      OBVIOUS
    <2>2. l \in 1..ChunkSize /\ ~Grown(l) /\ \A k \in 1..ChunkSize : k < l => Grown(k)
      <3>1. shrunk \in SUBSET Nat /\ shrunk \subseteq 1..ChunkSize
        BY <1>0
      <3>2. l \in shrunk /\ \A k \in shrunk : l <= k
        <4>. HIDE DEF shrunk
        <4>. QED  BY <2>1, <3>1, LeastIsLeast
      <3>3. ASSUME NEW k \in 1..ChunkSize, k < l PROVE k \notin shrunk
        <4>. HIDE DEF shrunk
        <4>. QED  BY <1>0, <3>1, <3>2, <3>3
      <3>. QED  BY <3>2, <3>3
    <2>3. PICK k \in 1..ChunkSize : k <= l /\ ~(HalvingsOf[k] <= HalvingsOf[l])
      BY <2>2
    <2>4. k # 1 /\ l # 1 /\ k # l
      BY <1>0, <2>2, <2>3, HalvingsUnfold
    <2>5. /\ k \div 2 \in 1..ChunkSize /\ l \div 2 \in 1..ChunkSize
          /\ k \div 2 <= l \div 2 /\ l \div 2 < l
      BY <1>0, <2>2, <2>3, <2>4
    <2>6. HalvingsOf[k \div 2] <= HalvingsOf[l \div 2]
      BY <2>2, <2>5
    <2>7. /\ HalvingsOf[k] = 1 + HalvingsOf[k \div 2]
          /\ HalvingsOf[l] = 1 + HalvingsOf[l \div 2]
      BY <2>2, <2>4, HalvingsUnfold
    <2>. QED  BY <1>0, <2>2, <2>3, <2>5, <2>6, <2>7
  <1>. QED  BY <1>1

(* The codeunits accounted for are a finite set, and a call that accounts    *)
(* for more of them grows it.                                                *)
LEMMA AccountedGrows ==
  ASSUME IInv, Calls, NEW new, new \subseteq Remaining, new # {},
         done' \cup aborted' = done \cup aborted \cup new
  PROVE  /\ Cardinality(done \cup aborted) \in Nat
         /\ Cardinality(done' \cup aborted') \in Nat
         /\ Cardinality(done' \cup aborted') >= Cardinality(done \cup aborted) + 1
  <1>1. suite \in Suite /\ suite # 0 /\ IsFiniteSet(Expected[suite])
    BY SuitesType, ExpectedType DEF IInv, TypeOK, HandedOver, Calls, Suite
  <1>2. done \cup aborted \subseteq Expected[suite] /\ Remaining = Expected[suite] \ (done \cup aborted)
    BY <1>1, SuitesType DEF IInv, Accounted, Remaining, Suite
  <1>3. PICK c : c \in new
    OBVIOUS
  <1>4. IsFiniteSet(done \cup aborted) /\ IsFiniteSet(done' \cup aborted')
    BY <1>1, <1>2, FS_Subset
  <1>5. c \notin done \cup aborted /\ (done \cup aborted) \cup {c} \subseteq done' \cup aborted'
    BY <1>2, <1>3
  <1>6. /\ IsFiniteSet((done \cup aborted) \cup {c})
        /\ Cardinality((done \cup aborted) \cup {c}) = Cardinality(done \cup aborted) + 1
    BY <1>4, <1>5, FS_AddElement
  <1>7. Cardinality((done \cup aborted) \cup {c}) <= Cardinality(done' \cup aborted')
    BY <1>4, <1>5, FS_Subset
  <1>8. /\ Cardinality(done \cup aborted) \in Nat
        /\ Cardinality(done' \cup aborted') \in Nat
    BY <1>4, FS_CardinalityType
  <1>. QED  BY <1>6, <1>7, <1>8

(* One more codeunit pays for a whole search. *)
LEMMA PaidAgain ==
  ASSUME NEW a \in Nat, NEW b \in Nat, b >= a + 1, NEW h \in Nat,
         NEW c \in Nat, NEW w \in 0..h, NEW v \in 0..h,
         c + w <= a * (h + 1) + h
  PROVE  c + 1 + v <= b * (h + 1) + h
  <1>1. PICK d \in Nat : b = a + 1 + d
    <2>1. b - a - 1 \in Nat /\ b = a + 1 + (b - a - 1)
      OBVIOUS
    <2>. QED  BY <2>1
  <1>2. d * (h + 1) \in Nat /\ a * (h + 1) \in Nat
    OBVIOUS
  <1>3. b * (h + 1) = a * (h + 1) + (h + 1) + d * (h + 1)
    BY <1>1
  <1>. QED  BY <1>2, <1>3

(* Every step keeps the calls paid for. *)
LEMMA CallsPaidStep ==
  ASSUME IInv, CallsPaid, [Next]_vars, IInv'
  PROVE  CallsPaid'
  <1>0. /\ Halvings \in Nat /\ call \in Nat
        /\ \A n \in 1..ChunkSize : HalvingsOf[n] \in 0..Halvings
        /\ size \in 1..ChunkSize /\ size' \in 1..ChunkSize
    <2>1. ChunkSize \in 1..ChunkSize /\ \A n \in 1..ChunkSize : n <= ChunkSize
      BY BoundsType
    <2>2. \A n \in 1..ChunkSize : HalvingsOf[n] \in Nat /\ HalvingsOf[n] <= HalvingsOf[ChunkSize]
      BY <2>1, HalvingsUnfold, HalvingsGrow
    <2>. QED  BY <2>1, <2>2, BoundsType DEF Halvings, IInv, TypeOK
  <1>1. ASSUME StartSuite PROVE CallsPaid'
    <2>1. done' \cup aborted' = {} /\ size' = ChunkSize /\ call' = 0
      BY <1>1 DEF StartSuite
    <2>2. Cardinality({}) = 0
      BY FS_EmptySet
    <2>. QED  BY <1>0, <2>1, <2>2 DEF CallsPaid, Halvings
  <1>2. ASSUME NEW chunk \in First(Remaining, size), NEW got \in SUBSET chunk,
               Reported(chunk, got) \/ (got = chunk /\ RunnerStop(chunk))
        PROVE  CallsPaid'
    <2>1. got \subseteq Remaining
      BY ChunkType DEF IInv
    <2>2. got # {}
      BY <1>2, FS_EmptySet DEF Reported, RunnerStop
    <2>3. Calls /\ done' \cup aborted' = done \cup aborted \cup got
      BY <1>2 DEF Reported, RunnerStop
    <2>4. /\ Cardinality(done \cup aborted) \in Nat
          /\ Cardinality(done' \cup aborted') \in Nat
          /\ Cardinality(done' \cup aborted') >= Cardinality(done \cup aborted) + 1
      BY <2>1, <2>2, <2>3, AccountedGrows
    <2>5. call' = call + 1 /\ step = "calls"
      BY <2>3 DEF Calls
    <2>6. call + HalvingsOf[size] <= Cardinality(done \cup aborted) * (Halvings + 1) + Halvings
      BY <2>5 DEF CallsPaid
    <2>7. HalvingsOf[size] \in 0..Halvings /\ HalvingsOf[size'] \in 0..Halvings
      BY <1>0
    <2>8. call + 1 + HalvingsOf[size'] <= Cardinality(done' \cup aborted') * (Halvings + 1) + Halvings
      BY <1>0, <2>4, <2>6, <2>7, PaidAgain
    <2>. QED  BY <2>5, <2>8 DEF CallsPaid, Halvings
  <1>3. ASSUME NEW chunk \in First(Remaining, size), Halve(chunk)
        PROVE  CallsPaid'
    <2>. DEFINE n == Cardinality(chunk)
    <2>1. n \in Nat /\ n <= size /\ n > 1
      BY <1>3, ChunkType DEF IInv, Halve
    <2>2. size' = Larger(1, n \div 2) /\ UNCHANGED <<done, aborted>>
          /\ call' = call + 1 /\ step = "calls"
      BY <1>3 DEF Halve, Calls
    <2>. HIDE DEF n
    <2>3. n \in 1..ChunkSize /\ size' = n \div 2
      BY <1>0, <2>1, <2>2, BoundsType DEF Larger
    <2>4. HalvingsOf[n] = 1 + HalvingsOf[size'] /\ HalvingsOf[n] <= HalvingsOf[size]
      BY <1>0, <2>1, <2>3, HalvingsUnfold, HalvingsGrow
    <2>5. call' + HalvingsOf[size'] <= call + HalvingsOf[size]
      BY <1>0, <2>2, <2>3, <2>4
    <2>6. call + HalvingsOf[size] <= Cardinality(done \cup aborted) * (Halvings + 1) + Halvings
      BY <2>2 DEF CallsPaid
    <2>7. IsFiniteSet(done \cup aborted)
      <3>1. suite \in Suite /\ suite > 0 /\ IsFiniteSet(Expected[suite])
        BY <2>2, SuitesType, ExpectedType DEF IInv, TypeOK, HandedOver, Suite
      <3>. QED  BY <3>1, FS_Subset DEF IInv, Accounted
    <2>8. Cardinality(done \cup aborted) * (Halvings + 1) \in Nat
      BY <1>0, <2>7, FS_CardinalityType
    <2>9. call' + HalvingsOf[size'] <= Cardinality(done \cup aborted) * (Halvings + 1) + Halvings
      BY <1>0, <2>2, <2>5, <2>6, <2>8
    <2>. QED  BY <2>2, <2>9 DEF CallsPaid, Halvings
  <1>4. CASE step' # "calls"
    BY <1>4 DEF CallsPaid
  <1>5. ASSUME UNCHANGED vars PROVE CallsPaid'
    BY <1>5 DEF CallsPaid, vars, Halvings
  <1>6. ASSUME \/ EndSuite \/ Coverage \/ Unprepared
               \/ \E chunk \in First(Remaining, size) : FilterIgnored(chunk)
        PROVE  step' # "calls"
    BY <1>6 DEF EndSuite, Coverage, Unprepared, FilterIgnored, Throw
  <1>. QED  BY <1>1, <1>2, <1>3, <1>4, <1>5, <1>6 DEF Next

(***************************************************************************)
(* Halving and growing again never costs more calls than one search down   *)
(* to a single codeunit per codeunit accounted for, whatever the runner    *)
(* answers (nightly-windows.yml 848-924).                                  *)
(***************************************************************************)
THEOREM CallsBoundedHolds == Spec => []CallsBounded
  <1>1. Init => CallsPaid
    BY DEF Init, CallsPaid
  <1>2. IInv /\ CallsPaid /\ [Next]_vars /\ IInv' => CallsPaid'
    BY CallsPaidStep
  <1>3. IInv /\ CallsPaid => CallsBounded
    <2>. SUFFICES ASSUME IInv, CallsPaid, step = "calls"
                  PROVE  call <= Cardinality(done \cup aborted) * (Halvings + 1) + Halvings
      BY DEF CallsBounded
    <2>1. suite \in Suite /\ suite > 0 /\ IsFiniteSet(Expected[suite])
      BY SuitesType, ExpectedType DEF IInv, TypeOK, HandedOver, Suite
    <2>2. Cardinality(done \cup aborted) \in Nat
      BY <2>1, FS_Subset, FS_CardinalityType DEF IInv, Accounted
    <2>3. ChunkSize \in 1..ChunkSize /\ size \in 1..ChunkSize /\ call \in Nat
      BY BoundsType DEF IInv, TypeOK
    <2>4. Halvings \in Nat /\ HalvingsOf[size] \in Nat
      BY <2>3, HalvingsUnfold DEF Halvings
    <2>5. call + HalvingsOf[size] <= Cardinality(done \cup aborted) * (Halvings + 1) + Halvings
      BY DEF CallsPaid
    <2>6. Cardinality(done \cup aborted) * (Halvings + 1) \in Nat
      BY <2>2, <2>4
    <2>. QED  BY <2>3, <2>4, <2>5, <2>6
  <1>4. Spec => [](IInv /\ CallsPaid)
    BY <1>1, <1>2, InductiveInvariant, PTL DEF Spec
  <1>. QED  BY <1>3, <1>4, PTL

-----------------------------------------------------------------------------
(* A night keeps its promise (Night)                                         *)

LEMMA StaleInit == Init => Stale
  BY DEF Init, Stale

(* The loop's suite is one of the suites, and what may be settled is of it. *)
LEMMA SuiteRuns ==
  ASSUME IInv, suite > 0
  PROVE  /\ suite \in Suite /\ suite \in Nat
         /\ Remaining = Expected[suite] \ (done \cup aborted)
         /\ Expected[suite] \subseteq Codeunit
         /\ done \cup aborted \subseteq Expected[suite]
  BY SuitesType DEF IInv, TypeOK, Suite, Remaining, Codeunit, Accounted

(* A new suite has no codeunit of the suites before. *)
LEMMA StaleStart ==
  ASSUME IInv, Stale, StartSuite
  PROVE  Stale'
  <1>1. suite \in 0..Suites /\ suite + 1 \in Suite /\ suite' = suite + 1
    BY SuitesType DEF IInv, TypeOK, StartSuite, Suite
  <1>2. \A s \in 1..suite : s \in Suite /\ s # suite + 1 /\ s \in 1..(suite + 1)
    BY <1>1, SuitesType DEF Suite
  <1>3. px \cap Expected[suite + 1] = {}
    BY <1>1, <1>2, SuitesApart DEF Stale
  <1>4. ReportedIds(merged') = {}
    BY DEF StartSuite, ReportedIds, Nothing
  <1>5. px' = px /\ done' = {} /\ aborted' = {} /\ ReportedIds(merged)' = ReportedIds(merged')
    BY DEF StartSuite, ReportedIds
  <1>. QED  BY <1>1, <1>2, <1>3, <1>4, <1>5 DEF Stale

(* A call of the runner: what is settled is merged, a stale file adds        *)
(* nothing about this suite.                                                 *)
LEMMA StaleCall ==
  ASSUME IInv, Stale, Calls, NEW New, New \subseteq Remaining,
         \/ /\ done' = done \cup New /\ aborted' = aborted
            /\ px' = New /\ merged' = Append1(merged, New)
         \/ /\ \/ aborted' = aborted \cup New /\ done' = done
               \/ New = {} /\ aborted' = aborted /\ done' = done
            /\ px' = px \/ px' = {}
            /\ \/ merged' = Append1(merged, New)
               \/ merged' = Append1(Append1(merged, New), px)
  PROVE  Stale'
  <1>1. suite > 0 /\ suite' = suite
    BY DEF IInv, HandedOver, Calls
  <1>2. /\ suite \in 1..suite /\ suite \in Suite
        /\ New \subseteq Expected[suite] /\ Expected[suite] \subseteq Codeunit
        /\ done \cup aborted \subseteq Expected[suite]
    BY <1>1, SuiteRuns
  <1>3. merged \in [Codeunit -> Nat] /\ px \subseteq Codeunit
    BY DEF IInv, TypeOK
  <1>4. /\ Append1(merged, New) \in [Codeunit -> Nat]
        /\ ReportedIds(Append1(merged, New)) = ReportedIds(merged) \cup New
    BY <1>2, <1>3, AppendEffect
  <1>5. ReportedIds(Append1(Append1(merged, New), px)) = ReportedIds(merged) \cup New \cup px
    BY <1>3, <1>4, AppendEffect
  <1>6. ReportedIds(merged)' = ReportedIds(merged')
    BY DEF ReportedIds
  <1>7. \A c \in px' : \E s \in 1..suite' : c \in Expected[s]
    BY <1>1, <1>2 DEF Stale
  <1>8. px' \cap Expected[suite'] \subseteq done'
    BY <1>1 DEF Stale
  <1>9. ReportedIds(merged') \cap Expected[suite'] = done' \cup aborted'
    BY <1>1, <1>2, <1>4, <1>5 DEF Stale
  <1>. QED  BY <1>6, <1>7, <1>8, <1>9 DEF Stale

LEMMA StaleStep == IInv /\ Stale /\ [Next]_vars => Stale'
  <1>. SUFFICES ASSUME IInv, Stale, [Next]_vars PROVE Stale'
    OBVIOUS
  <1>0. merged \in [Codeunit -> Nat] /\ merged = Append1(merged, {})
    BY DEF IInv, TypeOK, Append1
  <1>1. CASE StartSuite
    BY <1>1, StaleStart
  <1>2. CASE UNCHANGED <<suite, px, done, aborted, merged>>
    BY <1>2 DEF Stale, ReportedIds
  <1>3. ASSUME NEW chunk \in First(Remaining, size), NEW got \in SUBSET chunk, Reported(chunk, got)
        PROVE  Stale'
    <2>1. got \subseteq Remaining
      BY ChunkType DEF IInv
    <2>. QED  BY <1>3, <2>1, StaleCall DEF Reported
  <1>4. ASSUME NEW chunk \in First(Remaining, size), RunnerStop(chunk) PROVE Stale'
    <2>1. chunk \subseteq Remaining
      BY ChunkType DEF IInv
    <2>2. /\ px' = px \/ px' = {}
          /\ \/ merged' = Append1(merged, chunk)
             \/ merged' = Append1(Append1(merged, chunk), px)
      BY <1>4 DEF RunnerStop, NothingReported
    <2>3. Calls /\ aborted' = aborted \cup chunk /\ done' = done
      BY <1>4 DEF RunnerStop
    <2>. QED  BY <2>1, <2>2, <2>3, StaleCall
  <1>5. ASSUME NEW chunk \in First(Remaining, size), Halve(chunk) PROVE Stale'
    <2>1. /\ px' = px \/ px' = {}
          /\ \/ merged' = Append1(merged, {})
             \/ merged' = Append1(Append1(merged, {}), px)
      BY <1>0, <1>5 DEF Halve, NothingReported
    <2>2. Calls /\ UNCHANGED <<done, aborted>>
      BY <1>5 DEF Halve
    <2>3. PICK New : New = {}
      OBVIOUS
    <2>4. New \subseteq Remaining
      BY <2>3
    <2>. QED  BY <2>1, <2>2, <2>3, <2>4, StaleCall
  <1>. QED
    BY <1>1, <1>2, <1>3, <1>4, <1>5
    DEF Next, Unprepared, FilterIgnored, Calls, EndSuite, Coverage, loopVars, vars

(***************************************************************************)
(* A stale result file neither hides a codeunit that did not run nor adds  *)
(* an outcome to one (nightly-windows.yml 886-896).                        *)
(***************************************************************************)
THEOREM StaleHidesNothing == Spec => []Stale
  BY StaleInit, StaleStep, InductiveInvariant, PTL DEF Spec

(* The suites' published outcomes, as Promise sees them. *)
LEMMA PublishedAtEnd ==
  ASSUME IInv, Stale, EndSuite
  PROVE  [s \in Suite |-> ReportedIds(saved[s]) \cap Expected[s]]'
           = [[s \in Suite |-> ReportedIds(saved[s]) \cap Expected[s]]
                EXCEPT ![suite] = done \cup aborted]
  <1>1. suite > 0 /\ suite \in Suite
    BY SuiteRuns DEF IInv, HandedOver, EndSuite
  <1>2. saved' = [saved EXCEPT ![suite] = merged] /\ saved \in [Suite -> [Codeunit -> Nat]]
    BY DEF EndSuite, IInv, TypeOK
  <1>3. ASSUME NEW s \in Suite
        PROVE  (ReportedIds(saved[s]) \cap Expected[s])'
                 = IF s = suite THEN done \cup aborted ELSE ReportedIds(saved[s]) \cap Expected[s]
    <2>1. saved'[s] = IF s = suite THEN merged ELSE saved[s]
      BY <1>1, <1>2
    <2>2. (ReportedIds(saved[s]) \cap Expected[s])' = ReportedIds(saved'[s]) \cap Expected[s]
      BY DEF ReportedIds
    <2>. QED  BY <1>1, <2>1, <2>2 DEF Stale
  <1>. QED  BY <1>1, <1>3

LEMMA PublishedStays ==
  ASSUME UNCHANGED saved
  PROVE  [s \in Suite |-> ReportedIds(saved[s]) \cap Expected[s]]'
           = [s \in Suite |-> ReportedIds(saved[s]) \cap Expected[s]]
  BY DEF ReportedIds

(* Coverage is green for the outcomes that were published. *)
LEMMA CoverageOfOutcomes ==
  ASSUME IInv, step = "coverage"
  PROVE  (runFailed \/ \E s \in listed : Missing(s) # {})
           <=> ~(~runFailed /\ \A s \in 1..Suites : ReportedIds(saved[s]) \cap Expected[s] = Expected[s])
  <1>1. \A s \in Suite : recorded[s] \subseteq ReportedIds(saved[s])
    BY DEF IInv, HandedOver
  <1>2. \A s \in Suite : Missing(s) = {} <=> ReportedIds(saved[s]) \cap Expected[s] = Expected[s]
    BY <1>1 DEF Missing
  <1>3. ~runFailed => listed = Suite
    BY DEF IInv, HandedOver, Suite
  <1>. QED  BY <1>2, <1>3 DEF Suite

(***************************************************************************)
(* The chunked run is a night as Night describes it, for any suites, any   *)
(* chunk size and any answers of the runner, and wherever the step throws, *)
(* between two suites too (nightly-windows.yml 785-931 and 1016-1037):     *)
(* halving is invisible, every other step is one of Night.                 *)
(***************************************************************************)
THEOREM ImplementsNightsSteps ==
  Spec => Promise!Init /\ [][Promise!Next]_(Promise!vars)
  <1>1. Init => Promise!Init
    <2>. SUFFICES ASSUME Init PROVE Promise!Init
      OBVIOUS
    <2>1. \A s \in Suite : ReportedIds(saved[s]) \cap Expected[s] = {}
      BY DEF Init, Nothing, ReportedIds
    <2>. QED  BY <2>1 DEF Init, Promise!Init, Suite
  <1>2. IInv /\ IInv' /\ Stale /\ [Next]_vars => [Promise!Next]_(Promise!vars)
    <2>. SUFFICES ASSUME IInv, IInv', Stale, [Next]_vars
                  PROVE  Promise!Next \/ UNCHANGED Promise!vars
      OBVIOUS
    <2>1. CASE StartSuite
      <3>1. Promise!StartSuite
        BY <2>1, PublishedStays DEF StartSuite, Promise!StartSuite
      <3>. QED  BY <3>1 DEF Promise!Next
    <2>2. ASSUME NEW chunk \in First(Remaining, size), FilterIgnored(chunk)
          PROVE  Promise!Next
      <3>1. Promise!Abandon
        BY <2>2, PublishedStays DEF FilterIgnored, Calls, Throw, resultVars, Promise!Abandon
      <3>. QED  BY <3>1 DEF Promise!Next
    <2>3. ASSUME NEW chunk \in First(Remaining, size), NEW got \in SUBSET chunk, Reported(chunk, got)
          PROVE  Promise!Next
      <3>1. suite > 0 /\ step = "calls"
        BY <2>3 DEF IInv, HandedOver, Reported, Calls
      <3>2. got \in SUBSET (Expected[suite] \ (done \cup aborted))
        BY <3>1, ChunkType, SuiteRuns DEF IInv
      <3>3. Promise!Report
        BY <2>3, <3>1, <3>2, PublishedStays
        DEF Reported, Calls, resultVars, Promise!Report, Promise!Unsettled
      <3>. QED  BY <3>3 DEF Promise!Next
    <2>4. ASSUME NEW chunk \in First(Remaining, size), RunnerStop(chunk)
          PROVE  Promise!Next
      <3>1. suite > 0 /\ step = "calls"
        BY <2>4 DEF IInv, HandedOver, RunnerStop, Calls
      <3>2. PICK c : chunk = {c}
        BY <2>4, ChunkType, FS_Singleton DEF IInv, RunnerStop
      <3>3. c \in Expected[suite] \ (done \cup aborted) /\ aborted' = aborted \cup {c}
        BY <2>4, <3>1, <3>2, ChunkType, SuiteRuns DEF IInv, RunnerStop
      <3>4. step' = step \/ (step' = "coverage" /\ runFailed')
        BY <2>4 DEF RunnerStop, Throw
      <3>5. Promise!Stop
        BY <2>4, <3>1, <3>3, <3>4, PublishedStays
        DEF RunnerStop, Calls, resultVars, Promise!Stop, Promise!Unsettled
      <3>. QED  BY <3>5 DEF Promise!Next
    <2>5. ASSUME NEW chunk \in First(Remaining, size), Halve(chunk)
          PROVE  UNCHANGED Promise!vars
      BY <2>5, PublishedStays DEF Halve, Calls, resultVars, Promise!vars
    <2>6. CASE EndSuite
      <3>1. step = "calls" /\ step' = (IF suite = Suites THEN "coverage" ELSE "between")
        BY <2>6 DEF EndSuite
      <3>2. step' = "coverage" => ~runFailed'
        <4>1. ~runFailed
          BY <3>1 DEF IInv, HandedOver
        <4>. QED  BY <2>6, <4>1 DEF EndSuite
      <3>3. Promise!EndSuite
        BY <2>6, <3>1, <3>2, PublishedAtEnd DEF EndSuite, loopVars, Promise!EndSuite
      <3>. QED  BY <3>3 DEF Promise!Next
    <2>7. CASE Coverage
      <3>1. step = "coverage" /\ UNCHANGED <<suite, done, aborted, saved, runFailed>>
        BY <2>7 DEF Coverage, loopVars, resultVars
      <3>2. step' = IF ~runFailed /\ \A s \in 1..Suites : ReportedIds(saved[s]) \cap Expected[s] = Expected[s]
                    THEN "green" ELSE "red"
        BY <2>7, <3>1, CoverageOfOutcomes DEF Coverage
      <3>3. \A s \in 1..Suites :
              [t \in Suite |-> ReportedIds(saved[t]) \cap Expected[t]][s] = ReportedIds(saved[s]) \cap Expected[s]
        BY DEF Suite
      <3>4. Promise!Decide
        BY <3>1, <3>2, <3>3, PublishedStays DEF Promise!Decide
      <3>. QED  BY <3>4 DEF Promise!Next
    <2>8. CASE Unprepared
      <3>1. Promise!Abandon
        BY <2>8, PublishedStays
        DEF Unprepared, Throw, loopVars, resultVars, Promise!Abandon
      <3>. QED  BY <3>1 DEF Promise!Next
    <2>9. CASE UNCHANGED vars
      BY <2>9, PublishedStays DEF vars, Promise!vars
    <2>. QED  BY <2>1, <2>2, <2>3, <2>4, <2>5, <2>6, <2>7, <2>8, <2>9 DEF Next
  <1>. QED  BY <1>1, <1>2, InductiveInvariant, StaleHidesNothing, PTL DEF Spec

-----------------------------------------------------------------------------
(* The gate (NightlyGate)                                                    *)

LEMMA DelayTypes ==
  /\ Day \in Nat /\ Window \in Nat /\ MaxDelay \in Nat /\ MaxWait \in Nat
  /\ MaxRun \in Nat /\ MaxOld \in Nat
  BY DelaysType

(* The types, in the form that the steps below use. *)
LEMMA GateTypes ==
  ASSUME GateShape
  PROVE  /\ now \in Nat /\ due \in Nat /\ at \in Nat /\ nights \in Nat
         /\ sha \in Nat /\ tried \in Nat /\ headSha \in Nat /\ Len(commits) \in Nat
         /\ tried <= sha /\ sha <= Len(commits) /\ headSha <= Len(commits)
         /\ DOMAIN commits = 1..Len(commits)
         /\ \A i \in 1..Len(commits) : commits[i].pushed \in Nat /\ commits[i].committed \in Int
  <1>1. ASSUME NEW Master, commits \in Seq(Master)
        PROVE  /\ Len(commits) \in Nat /\ DOMAIN commits = 1..Len(commits)
               /\ \A i \in 1..Len(commits) : commits[i] \in Master
    BY <1>1
  <1>2. /\ Len(commits) \in Nat /\ DOMAIN commits = 1..Len(commits)
        /\ \A i \in 1..Len(commits) : commits[i] \in [pushed : Nat, committed : Int]
    BY <1>1 DEF GateShape
  <1>. QED  BY <1>2 DEF GateShape

LEMMA GateInitHolds == GateInit => GateIInv
  <1>. SUFFICES ASSUME GateInit PROVE GateIInv
    OBVIOUS
  <1>. USE DEF GateInit
  <1>1. commits \in Seq([pushed : Nat, committed : Int]) /\ Len(commits) = 0 /\ DOMAIN commits = {}
    OBVIOUS
  <1>2. GateShape
    BY <1>1, DelayTypes DEF GateShape
  <1>3. Clock
    BY DelayTypes DEF Clock
  <1>4. History /\ Awaited
    BY <1>1 DEF History, Awaited
  <1>5. Aged
    BY DEF Aged, AgedBy
  <1>. QED  BY <1>2, <1>3, <1>4, <1>5 DEF GateIInv

LEMMA TickKeeps == GateIInv /\ Tick => GateIInv'
  <1>. SUFFICES ASSUME GateIInv, Tick PROVE GateIInv'
    OBVIOUS
  <1>0. /\ Day \in Nat /\ Window \in Nat /\ MaxDelay \in Nat /\ MaxWait \in Nat
        /\ MaxRun \in Nat /\ MaxOld \in Nat
        /\ now \in Nat /\ due \in Nat /\ at \in Nat /\ nights \in Nat
        /\ sha \in Nat /\ tried \in Nat /\ headSha \in Nat /\ Len(commits) \in Nat
        /\ tried <= sha /\ sha <= Len(commits) /\ headSha <= Len(commits)
        /\ DOMAIN commits = 1..Len(commits)
        /\ \A i \in 1..Len(commits) : commits[i].pushed \in Nat /\ commits[i].committed \in Int
    BY GateTypes, DelayTypes DEF GateIInv
  <1>. USE DEF GateIInv, Tick
  <1>1. GateShape'
    BY <1>0 DEF GateShape
  <1>2. Clock'
    BY <1>0 DEF Clock, LastEvent
  <1>3. History'
    BY <1>0 DEF History
  <1>4. Awaited'
    BY <1>0 DEF Awaited
  <1>5. Aged'
    BY <1>0 DEF Aged, AgedBy, LastEvent
  <1>. QED  BY <1>0, <1>1, <1>2, <1>3, <1>4, <1>5

LEMMA CommitKeeps == GateIInv /\ Commit => GateIInv'
  <1>. SUFFICES ASSUME GateIInv, Commit PROVE GateIInv'
    OBVIOUS
  <1>0. /\ Day \in Nat /\ Window \in Nat /\ MaxDelay \in Nat /\ MaxWait \in Nat
        /\ MaxRun \in Nat /\ MaxOld \in Nat
        /\ now \in Nat /\ due \in Nat /\ at \in Nat /\ nights \in Nat
        /\ sha \in Nat /\ tried \in Nat /\ headSha \in Nat /\ Len(commits) \in Nat
        /\ tried <= sha /\ sha <= Len(commits) /\ headSha <= Len(commits)
        /\ DOMAIN commits = 1..Len(commits)
        /\ \A i \in 1..Len(commits) : commits[i].pushed \in Nat /\ commits[i].committed \in Int
    BY GateTypes, DelayTypes DEF GateIInv
  <1>. USE DEF GateIInv
  <1>. DEFINE n == Len(commits)
  <1>1. PICK old \in 0..MaxOld :
          commits' = Append(commits, [pushed |-> now, committed |-> now - old])
    BY <1>0 DEF Commit
  <1>2. UNCHANGED <<now, due, phase, at, sha, headSha, tried, nights>>
    BY <1>0 DEF Commit
  <1>3. [pushed |-> now, committed |-> now - old] \in [pushed : Nat, committed : Int]
    <2>1. now \in Nat /\ now - old \in Int
      BY <1>0
    <2>. QED  BY <2>1
  <1>4. /\ commits' \in Seq([pushed : Nat, committed : Int])
        /\ Len(commits') = n + 1 /\ DOMAIN commits' = 1..(n + 1)
        /\ \A i \in 1..n : commits'[i] = commits[i]
        /\ commits'[n + 1].pushed = now /\ commits'[n + 1].committed = now - old
    BY <1>0, <1>1, <1>3 DEF GateShape
  <1>. HIDE DEF n
  <1>5. GateShape'
    BY <1>0, <1>2, <1>4 DEF GateShape, n
  <1>6. Clock'
    BY <1>0, <1>2 DEF Clock, LastEvent
  <1>7. \A i \in 1..(n + 1) : i \in 1..n \/ i = n + 1
    BY <1>0 DEF n
  <1>8. n \in Nat /\ DOMAIN commits = 1..n /\ sha <= n
    BY <1>0 DEF n
  <1>9. History'
    <2>1. \A i \in 1..n :
            /\ commits[i].pushed \in Nat /\ commits[i].committed \in Int
            /\ commits[i].pushed <= now
            /\ commits[i].committed <= commits[i].pushed
            /\ commits[i].pushed <= commits[i].committed + MaxOld
      BY <1>0, <1>8 DEF History, n
    <2>2. ASSUME NEW i \in 1..(n + 1)
          PROVE  /\ commits'[i].pushed <= now
                 /\ commits'[i].committed <= commits'[i].pushed
                 /\ commits'[i].pushed <= commits'[i].committed + MaxOld
      <3>1. CASE i \in 1..n
        BY <1>4, <2>1, <3>1
      <3>2. CASE i = n + 1
        BY <1>0, <1>4, <3>2
      <3>. QED  BY <1>7, <3>1, <3>2
    <2>3. ASSUME NEW i \in 1..(n + 1), NEW j \in 1..(n + 1), i <= j
          PROVE  commits'[i].pushed <= commits'[j].pushed
      <3>1. CASE j \in 1..n
        <4>1. i \in 1..n
          BY <1>8, <2>3, <3>1
        <4>2. commits[i].pushed <= commits[j].pushed
          BY <1>8, <2>3, <3>1, <4>1 DEF History
        <4>. QED  BY <1>4, <3>1, <4>1, <4>2
      <3>2. CASE j = n + 1
        BY <1>4, <2>2, <3>2
      <3>. QED  BY <1>7, <3>1, <3>2
    <2>4. ASSUME phase = "gate", NEW i \in 1..sha
          PROVE  commits'[i].pushed <= at
      <3>1. i \in 1..n /\ commits[i].pushed <= at
        BY <1>0, <1>8, <2>4 DEF History
      <3>. QED  BY <1>4, <3>1
    <2>5. phase = "job" => 0 < headSha /\ sha <= headSha
      BY DEF History
    <2>. QED  BY <1>2, <1>4, <2>2, <2>3, <2>4, <2>5 DEF History
  <1>10. Awaited'
    <2>. SUFFICES ASSUME NEW i \in 1..(n + 1)
                  PROVE  \/ tried >= i
                         \/ /\ phase = "gate" /\ i <= sha
                            /\ at <= commits'[i].pushed + Day + MaxDelay
                         \/ /\ phase = "job" /\ i <= sha
                            /\ at <= commits'[i].pushed + Day + MaxDelay + MaxWait
                         \/ due <= commits'[i].pushed + Day
      BY <1>0, <1>2, <1>4 DEF Awaited
    <2>1. CASE i \in 1..n
      BY <1>0, <1>4, <1>8, <2>1 DEF Awaited
    <2>2. CASE i = n + 1
      BY <1>0, <1>4, <2>2 DEF Clock
    <2>. QED  BY <1>0, <1>7, <2>1, <2>2
  <1>11. Aged'
    <2>1. tried \in 0..n /\ sha \in 0..n
      BY <1>0, <1>8
    <2>2. ASSUME NEW c \in 0..n, NEW e, AgedBy(c, e)
          PROVE  c > 0 =>
                   /\ nights >= 1 => commits'[c].pushed <= e + MaxDelay
                   /\ nights >= 2 => commits'[c].pushed + Day <= e + MaxDelay
      <3>1. c > 0 => commits'[c] = commits[c]
        BY <1>4, <1>8
      <3>. QED  BY <2>2, <3>1 DEF AgedBy
    <2>3. /\ phase = "none" => AgedBy(tried, LastEvent)'
          /\ phase = "gate" => AgedBy(tried, LastEvent - Day)'
          /\ phase = "job" => AgedBy(sha, LastEvent)'
      BY <1>2, <2>1, <2>2 DEF Aged, AgedBy, LastEvent
    <2>4. /\ phase = "none" /\ nights > 2 /\ tried > 0 => tried < n + 1
          /\ phase = "gate" /\ nights > 2 /\ tried > 0 => tried < sha
          /\ phase = "job" /\ nights > 2 => sha < headSha
      BY <1>0, <1>8, <2>1 DEF Aged
    <2>. QED  BY <1>2, <1>4, <2>3, <2>4 DEF Aged
  <1>. QED  BY <1>0, <1>5, <1>6, <1>9, <1>10, <1>11

(* An event finds no night under way: the one before is over (NightEnds). *)
LEMMA FireKeeps == GateIInv /\ Fire => GateIInv'
  <1>. SUFFICES ASSUME GateIInv, Fire PROVE GateIInv'
    OBVIOUS
  <1>0. /\ Day \in Nat /\ Window \in Nat /\ MaxDelay \in Nat /\ MaxWait \in Nat
        /\ MaxRun \in Nat /\ MaxOld \in Nat
        /\ now \in Nat /\ due \in Nat /\ at \in Nat /\ nights \in Nat
        /\ sha \in Nat /\ tried \in Nat /\ headSha \in Nat /\ Len(commits) \in Nat
        /\ tried <= sha /\ sha <= Len(commits) /\ headSha <= Len(commits)
    BY GateTypes, DelayTypes DEF GateIInv
  <1>8. /\ DOMAIN commits = 1..Len(commits)
        /\ \A i \in 1..Len(commits) : commits[i].pushed \in Nat /\ commits[i].committed \in Int
    BY GateTypes DEF GateIInv
  <1>. USE DEF GateIInv
  <1>1. /\ now >= due /\ phase' = "gate" /\ at' = now /\ due' = due + Day
        /\ sha' = Len(commits) /\ UNCHANGED <<now, commits, headSha, tried, nights>>
    BY <1>0 DEF Fire
  <1>2. phase = "none"
    BY <1>0, <1>1, NightEnds DEF Clock, LastEvent, GateShape
  <1>3. GateShape'
    <2>1. now' \in Nat /\ due' \in Nat /\ at' \in Nat /\ nights' \in Nat
      BY <1>0, <1>1
    <2>2. commits' \in Seq([pushed : Nat, committed : Int]) /\ Len(commits') = Len(commits)
      BY <1>1 DEF GateShape
    <2>3. sha' \in 0..Len(commits) /\ tried' \in 0..sha' /\ headSha' \in 0..Len(commits)
      BY <1>0, <1>1
    <2>. QED  BY <1>1, <2>1, <2>2, <2>3 DEF GateShape
  <1>4. Clock'
    BY <1>0, <1>1 DEF Clock, LastEvent
  <1>5. History'
    BY <1>0, <1>1, <1>8 DEF History
  <1>6. Awaited'
    BY <1>0, <1>1, <1>2, <1>8 DEF Awaited, Clock
  <1>7. Aged'
    BY <1>0, <1>1, <1>2, <1>8 DEF Aged, AgedBy, LastEvent
  <1>. QED  BY <1>0, <1>3, <1>4, <1>5, <1>6, <1>7

(* The head of a master with a commit pushed at p that waits, looked at in   *)
(* time, is in the window; after two nights that commit is out of it.        *)
LEMMA InWindow ==
  ASSUME NEW t \in Nat, NEW p \in Nat, NEW q \in Nat, NEW c \in Int,
         t <= p + Day + MaxDelay + MaxWait, p <= q, q <= c + MaxOld
  PROVE  t - c < Window
  BY DelayTypes, WindowCovers

LEMMA OutOfWindow ==
  ASSUME NEW t \in Nat, NEW p \in Nat, NEW e \in Int,
         p + Day <= e - Day + MaxDelay, e <= t
  PROVE  ~(t < p + Window)
  BY DelayTypes, WindowShort

(* The window is wide enough: a commit that waits is seen.  And it is        *)
(* narrow enough: at a third night the commit of the first two is too old.   *)
LEMMA GateKeeps == GateIInv /\ Gate => GateIInv'
  <1>. SUFFICES ASSUME GateIInv, Gate PROVE GateIInv'
    OBVIOUS
  <1>0. /\ Day \in Nat /\ Window \in Nat /\ MaxDelay \in Nat /\ MaxWait \in Nat
        /\ MaxRun \in Nat /\ MaxOld \in Nat
        /\ now \in Nat /\ due \in Nat /\ at \in Nat /\ nights \in Nat
        /\ sha \in Nat /\ tried \in Nat /\ headSha \in Nat /\ Len(commits) \in Nat
        /\ tried <= sha /\ sha <= Len(commits) /\ headSha <= Len(commits)
        /\ DOMAIN commits = 1..Len(commits)
        /\ \A i \in 1..Len(commits) : commits[i].pushed \in Nat /\ commits[i].committed \in Int
    BY GateTypes, DelayTypes DEF GateIInv
  <1>. USE DEF GateIInv
  <1>. DEFINE n == Len(commits)
              moves == commits # <<>> /\ Moved(commits[n])
  <1>1. /\ phase = "gate" /\ at' = now /\ headSha' = n
        /\ UNCHANGED <<now, commits, due, sha, tried>>
        /\ moves => phase' = "job" /\ nights' = IF sha = tried THEN nights + 1 ELSE 1
        /\ ~moves => phase' = "none" /\ nights' = nights
    BY <1>0 DEF Gate
  <1>2. moves => n > 0 /\ n \in DOMAIN commits
    <2>1. commits # <<>> => n # 0
      BY <1>0 DEF GateShape
    <2>. QED  BY <1>0, <2>1
  <1>3. moves => now < commits[n].pushed + Window
    <2>. SUFFICES ASSUME moves PROVE now < commits[n].pushed + Window
      OBVIOUS
    <2>1. n \in 1..Len(commits) /\ now \in Nat /\ Window \in Nat
      BY <1>0, <1>2, Zenon
    <2>2. /\ commits[n].pushed \in Nat /\ commits[n].committed \in Int
          /\ commits[n].committed <= commits[n].pushed
      BY <1>0, <2>1 DEF History
    <2>3. now - commits[n].committed < Window
      BY DEF Moved
    <2>. HIDE DEF moves, n, GateIInv
    <2>. QED  BY <2>1, <2>2, <2>3
  <1>4. ASSUME NEW i \in DOMAIN commits, now <= commits[i].pushed + Day + MaxDelay + MaxWait
        PROVE  moves
    <2>1. n > 0 /\ n \in DOMAIN commits /\ commits[i].pushed <= commits[n].pushed
      BY <1>0 DEF History
    <2>2. /\ commits[i].pushed \in Nat /\ commits[n].pushed \in Nat /\ commits[n].committed \in Int
          /\ commits[n].pushed <= commits[n].committed + MaxOld
      BY <1>0, <2>1 DEF History
    <2>4. now - commits[n].committed < Window
      BY <1>0, <1>4, <2>1, <2>2, InWindow
    <2>3. commits # <<>>
      BY <1>0, <2>1
    <2>. QED  BY <2>3, <2>4 DEF Moved
  <1>. HIDE DEF moves
  <1>5. GateShape'
    <2>1. nights' \in Nat /\ phase' \in {"none", "job"}
      BY <1>0, <1>1
    <2>. QED  BY <1>0, <1>1, <2>1 DEF GateShape
  <1>6. Clock'
    BY <1>0, <1>1 DEF Clock, LastEvent
  <1>7. History'
    <2>1. phase' = "job" => n > 0
      BY <1>0, <1>1, <1>2
    <2>2. phase' # "gate"
      BY <1>0, <1>1
    <2>. QED  BY <1>0, <1>1, <2>1, <2>2 DEF History
  <1>8. Awaited'
    <2>. SUFFICES ASSUME NEW i \in DOMAIN commits, ~(tried >= i), ~(due <= commits[i].pushed + Day)
                  PROVE  /\ phase' = "job" /\ i <= sha
                         /\ now <= commits[i].pushed + Day + MaxDelay + MaxWait
      BY <1>0, <1>1 DEF Awaited
    <2>1. i <= sha /\ at <= commits[i].pushed + Day + MaxDelay
      BY <1>0, <1>1 DEF Awaited
    <2>2. now <= commits[i].pushed + Day + MaxDelay + MaxWait
      <3>1. now <= at + MaxWait /\ commits[i].pushed \in Nat
        BY <1>0, <1>1 DEF Clock
      <3>2. now \in Nat /\ at \in Nat /\ Day \in Nat /\ MaxDelay \in Nat /\ MaxWait \in Nat
        BY <1>0, Zenon
      <3>. HIDE DEF moves, n, GateIInv
      <3>. QED  BY <2>1, <3>1, <3>2
    <2>. QED  BY <1>0, <1>1, <1>4, <2>1, <2>2
  <1>9. Aged'
    <2>1. CASE ~moves
      <3>1. phase' = "none" /\ nights' = nights
        BY <1>0, <1>1, <2>1
      <3>2. AgedBy(tried, LastEvent)'
        BY <1>0, <1>1, <3>1 DEF Aged, AgedBy, LastEvent
      <3>3. nights > 2 /\ tried > 0 => tried < n
        BY <1>0, <1>1 DEF Aged
      <3>. QED  BY <1>0, <1>1, <3>1, <3>2, <3>3 DEF Aged
    <2>2. CASE moves /\ sha # tried
      <3>1. phase' = "job" /\ nights' = 1
        BY <1>0, <1>1, <2>2
      <3>2. sha > 0 => commits[sha].pushed <= LastEvent + MaxDelay
        BY <1>0, <1>1 DEF History, Clock, LastEvent
      <3>3. AgedBy(sha, LastEvent)'
        BY <1>0, <1>1, <3>1, <3>2 DEF AgedBy, LastEvent
      <3>. QED  BY <1>0, <1>1, <3>1, <3>3 DEF Aged
    <2>3. CASE moves /\ sha = tried
      <3>1. phase' = "job" /\ nights' = nights + 1
        BY <1>0, <1>1, <2>3
      <3>2. sha > 0 => commits[sha].pushed <= LastEvent + MaxDelay
        BY <1>0, <1>1 DEF History, Clock, LastEvent
      <3>3. sha > 0 /\ nights >= 1 => commits[sha].pushed + Day <= LastEvent + MaxDelay
        BY <1>0, <1>1, <2>3 DEF Aged, AgedBy, LastEvent
      <3>4. AgedBy(sha, LastEvent)'
        BY <1>0, <1>1, <3>1, <3>2, <3>3 DEF AgedBy, LastEvent
      <3>5. nights + 1 > 2 => sha < n
        <4>. SUFFICES ASSUME nights + 1 > 2, ~(sha < n) PROVE FALSE
          OBVIOUS
        <4>0. nights >= 2 /\ sha = n
          <5>1. nights \in Nat /\ sha \in Nat /\ n \in Nat /\ sha <= n
            BY <1>0, Zenon
          <5>. HIDE DEF n, GateIInv
          <5>. QED  BY <5>1
        <4>1. sha > 0 /\ tried > 0
          BY <1>0, <1>2, <2>3, <4>0
        <4>2. commits[sha].pushed + Day <= LastEvent - Day + MaxDelay
          BY <1>0, <1>1, <2>3, <4>0, <4>1 DEF Aged, AgedBy
        <4>3. due - Day <= at /\ at <= now
          BY <1>1 DEF Clock, LastEvent
        <4>4. now < commits[sha].pushed + Window /\ commits[sha].pushed \in Nat
          BY <1>0, <1>2, <1>3, <2>3, <4>0
        <4>5. LastEvent \in Int /\ LastEvent <= now
          BY <1>0, <4>3 DEF LastEvent
        <4>. QED  BY <1>0, <4>2, <4>4, <4>5, OutOfWindow
      <3>. QED  BY <1>0, <1>1, <3>1, <3>4, <3>5 DEF Aged
    <2>. QED  BY <1>0, <2>1, <2>2, <2>3
  <1>. QED  BY <1>0, <1>5, <1>6, <1>7, <1>8, <1>9

LEMMA EndKeeps == GateIInv /\ End => GateIInv'
  <1>. SUFFICES ASSUME GateIInv, End PROVE GateIInv'
    OBVIOUS
  <1>0. /\ Day \in Nat /\ Window \in Nat /\ MaxDelay \in Nat /\ MaxWait \in Nat
        /\ MaxRun \in Nat /\ MaxOld \in Nat
        /\ now \in Nat /\ due \in Nat /\ at \in Nat /\ nights \in Nat
        /\ sha \in Nat /\ tried \in Nat /\ headSha \in Nat /\ Len(commits) \in Nat
        /\ tried <= sha /\ sha <= Len(commits) /\ headSha <= Len(commits)
        /\ DOMAIN commits = 1..Len(commits)
        /\ \A i \in 1..Len(commits) : commits[i].pushed \in Nat /\ commits[i].committed \in Int
    BY GateTypes, DelayTypes DEF GateIInv
  <1>. USE DEF GateIInv
  <1>1. /\ phase = "job" /\ phase' = "none" /\ at' = now /\ tried' = sha
        /\ UNCHANGED <<now, commits, due, sha, headSha, nights>>
    BY <1>0 DEF End
  <1>2. GateShape'
    BY <1>0, <1>1 DEF GateShape
  <1>3. Clock'
    BY <1>0, <1>1 DEF Clock
  <1>4. History'
    BY <1>0, <1>1 DEF History
  <1>5. Awaited'
    BY <1>0, <1>1 DEF Awaited
  <1>6. Aged'
    BY <1>0, <1>1 DEF Aged, AgedBy, LastEvent
  <1>. QED  BY <1>0, <1>2, <1>3, <1>4, <1>5, <1>6

(***************************************************************************)
(* The inductive invariant of the gate, for any delays that the window     *)
(* covers (nightly-windows.yml, cron, concurrency, gate).                  *)
(***************************************************************************)
THEOREM GateInductiveInvariant == GateSpec => []GateIInv
  <1>1. GateIInv /\ UNCHANGED gateVars => GateIInv'
    BY DEF gateVars, GateIInv, GateShape, Clock, History, Awaited, Aged, AgedBy, LastEvent
  <1>2. GateIInv /\ [GateNext]_gateVars => GateIInv'
    BY <1>1, TickKeeps, CommitKeeps, FireKeeps, GateKeeps, EndKeeps DEF GateNext
  <1>. QED  BY <1>2, GateInitHolds, PTL DEF GateSpec

(***************************************************************************)
(* No commit is dropped: a day and a night's delays after it came to       *)
(* master, a night was about it or a newer one, whatever the delays are    *)
(* that the hour beyond a day pays for.                                    *)
(***************************************************************************)
THEOREM EveryCommitHasANightHolds == GateSpec => []EveryCommitHasANight
  <1>1. GateIInv => EveryCommitHasANight
    <2>. SUFFICES ASSUME GateIInv, NEW i \in DOMAIN commits,
                         now > commits[i].pushed + Day + MaxDelay + MaxWait + MaxRun
                  PROVE  tried >= i
      BY DEF EveryCommitHasANight
    <2>1. /\ now \in Nat /\ due \in Nat /\ at \in Nat /\ commits[i].pushed \in Nat
          /\ Day \in Nat /\ MaxDelay \in Nat /\ MaxWait \in Nat /\ MaxRun \in Nat
      BY GateTypes, DelayTypes DEF GateIInv
    <2>2. ~(due <= commits[i].pushed + Day)
      BY <2>1 DEF GateIInv, Clock
    <2>3. phase = "gate" => ~(at <= commits[i].pushed + Day + MaxDelay)
      BY <2>1 DEF GateIInv, Clock
    <2>4. phase = "job" => ~(at <= commits[i].pushed + Day + MaxDelay + MaxWait)
      BY <2>1 DEF GateIInv, Clock
    <2>. QED  BY <2>2, <2>3, <2>4 DEF GateIInv, Awaited
  <1>. QED  BY <1>1, GateInductiveInvariant, PTL

(***************************************************************************)
(* A third night about one head needs a commit between the event and the   *)
(* gate.                                                                   *)
(***************************************************************************)
THEOREM AtMostTwoNightsHolds == GateSpec => []AtMostTwoNights
  <1>1. GateIInv => AtMostTwoNights
    BY GateTypes DEF GateIInv, Aged, AtMostTwoNights
  <1>. QED  BY <1>1, GateInductiveInvariant, PTL

(* Type correctness of the gate, and that no event is ahead of its time. *)
THEOREM GateTypeCorrect == GateSpec => []GateTypeOK
  <1>1. GateIInv => GateTypeOK
    BY GateTypes DEF GateIInv, GateTypeOK, Clock, History
  <1>. QED  BY <1>1, GateInductiveInvariant, PTL
=============================================================================
