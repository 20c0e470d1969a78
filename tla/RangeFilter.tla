----------------------------- MODULE RangeFilter -----------------------------
(***************************************************************************)
(* ConvertTo-RangeFilter of nightly-windows.yml: the codeunits of a chunk  *)
(* as a filter "a..b|c..d" for the test runner.  The runner selects by the *)
(* filter among all test codeunits installed, so a range must not reach    *)
(* over one that is not of the chunk.  One action per turn of the loop;      *)
(* ChunkedRun has the calls of the function.                               *)
(***************************************************************************)
EXTENDS Integers, FiniteSets

CONSTANTS
  Tests,     \* the test codeunits of the suite's app
  Foreign    \* other apps' test codeunits, and those without a test method

ASSUME TestsType == Tests \subseteq Nat /\ IsFiniteSet(Tests)
ASSUME ForeignType == Foreign \subseteq Nat
ASSUME Apart == Tests \cap Foreign = {}

VARIABLES
  ids,     \* the chunk
  todo,    \* ids that the loop has not come to, in ascending order
  start,   \* of the range that is open
  prev,    \* its last id so far
  parts,   \* the ranges that are closed, as <<first, last>>
  closed     \* has the last range been closed?

filterVars == <<ids, todo, start, prev, parts, closed>>

Blocked == Foreign \cup (Tests \ ids)
Least(S) == CHOOSE x \in S : \A y \in S : x <= y
Span(p) == p[1] .. p[2]
Covered == {n \in Tests \cup Foreign : \E p \in parts : n \in Span(p)}

FilterTypeOK ==
  /\ ids \in SUBSET Tests
  /\ todo \in SUBSET ids
  /\ start \in Tests /\ prev \in Tests
  /\ parts \subseteq Tests \X Tests
  /\ closed \in BOOLEAN

(* The function is entered with a chunk, and left when its result was used *)
Enter(chunk) ==
  /\ ids' = chunk
  /\ start' = Least(chunk) /\ prev' = Least(chunk)
  /\ todo' = chunk \ {Least(chunk)}
  /\ parts' = {} /\ closed' = FALSE

Leave == ids' = {} /\ todo' = {} /\ start' = 0 /\ prev' = 0 /\ parts' = {} /\ closed' = FALSE

(* Outside of it *)
NoFilter == ids = {} /\ todo = {} /\ start = 0 /\ prev = 0 /\ parts = {} /\ closed = FALSE

(* Does a blocked id lie between prev and i?  A binary search in the code   *)
Splits(i) == \E b \in Blocked : prev < b /\ b < i

(* Mutants of Turn: the search starts one too late; any gap splits           *)
TurnLate ==
  /\ todo # {}
  /\ LET i == Least(todo) IN
       /\ IF \E b \in Blocked : prev + 1 < b /\ b < i
            THEN parts' = parts \cup {<<start, prev>>} /\ start' = i
            ELSE UNCHANGED <<parts, start>>
       /\ prev' = i
       /\ todo' = todo \ {i}
  /\ UNCHANGED <<ids, closed>>

TurnAtGap ==
  /\ todo # {}
  /\ LET i == Least(todo) IN
       /\ IF i # prev + 1
            THEN parts' = parts \cup {<<start, prev>>} /\ start' = i
            ELSE UNCHANGED <<parts, start>>
       /\ prev' = i
       /\ todo' = todo \ {i}
  /\ UNCHANGED <<ids, closed>>

Turn ==
  /\ todo # {}
  /\ LET i == Least(todo) IN
       /\ IF Splits(i)
            THEN parts' = parts \cup {<<start, prev>>} /\ start' = i
            ELSE UNCHANGED <<parts, start>>
       /\ prev' = i
       /\ todo' = todo \ {i}
  /\ UNCHANGED <<ids, closed>>

Last ==
  /\ todo = {} /\ ~closed
  /\ parts' = parts \cup {<<start, prev>>}
  /\ closed' = TRUE
  /\ UNCHANGED <<ids, todo, start, prev>>

FilterNext == Turn \/ Last

-----------------------------------------------------------------------------
(***************************************************************************)
(* Among the test codeunits that are installed the filter selects those of *)
(* the chunk and no other (nightly-windows.yml 802-814; a codeunit outside *)
(* the chunk stops the night at 884-887).                                  *)
(***************************************************************************)
FilterIsExact == closed => Covered = ids

(***************************************************************************)
(* The filter is no longer than it must be: whatever two ranges it has, a  *)
(* codeunit that must not run lies between them.                           *)
(***************************************************************************)
NoNeedlessSplit ==
  \A p, q \in parts : p[1] < q[1] => \E b \in Blocked : p[2] < b /\ b < q[1]

(* Why: the closed ranges and the open one hold what was visited            *)
Visited == ids \ todo

Shape ==
  /\ start <= prev /\ prev \in Visited /\ start \in Visited
  /\ \A i \in todo : prev < i
  /\ \A i \in Visited : i <= prev
  /\ \A n \in Blocked : ~(start <= n /\ n <= prev)
  /\ \A p \in parts :
       /\ p[1] <= p[2]
       /\ \A n \in Blocked : ~(p[1] <= n /\ n <= p[2])
       /\ ~closed => p[2] < start
       /\ \A i \in todo : p[2] < i
  /\ \A i \in Visited :
       (\E p \in parts : p[1] <= i /\ i <= p[2]) \/ (~closed /\ start <= i /\ i <= prev)
  /\ closed => todo = {}

Separated ==
  /\ NoNeedlessSplit
  /\ ~closed => \A p \in parts : \E b \in Blocked : p[2] < b /\ b < start

FilterIInv == FilterTypeOK /\ Shape /\ Separated

=============================================================================
