------------------------------- MODULE Night -------------------------------
(***************************************************************************)
(* What a night promises, without chunks, result files and steps: suite    *)
(* after suite each test codeunit gets one outcome at most, a result or a  *)
(* runner stop; a suite that ends publishes what it has outcomes for; and  *)
(* the night is green if that is every codeunit of every suite.            *)
(***************************************************************************)
EXTENDS Integers

CONSTANTS
  Suites,     \* the number of suites
  Expected    \* suite -> its test codeunits

VARIABLES
  phase,      \* "between", "calls", "ended", "abandoned", "green", "red"
  suite,      \* the suite that runs, 0 before the first
  reported,   \* its codeunits with a result
  stopped,    \* its codeunits that the runner stopped at
  published   \* suite -> the codeunits with an outcome, when it ends

vars == <<phase, suite, reported, stopped, published>>

Unsettled == Expected[suite] \ (reported \cup stopped)

Init ==
  /\ phase = "between" /\ suite = 0
  /\ reported = {} /\ stopped = {}
  /\ published = [s \in 1..Suites |-> {}]

StartSuite ==
  /\ phase = "between" /\ suite < Suites
  /\ phase' = "calls" /\ suite' = suite + 1
  /\ reported' = {} /\ stopped' = {}
  /\ UNCHANGED published

Report ==
  /\ phase = "calls"
  /\ \E S \in SUBSET Unsettled : S # {} /\ reported' = reported \cup S
  /\ UNCHANGED <<phase, suite, stopped, published>>

(* One codeunit at a time; too many in a row end the night *)
Stop ==
  /\ phase = "calls"
  /\ \E c \in Unsettled : stopped' = stopped \cup {c}
  /\ phase' \in {"calls", "abandoned"}
  /\ UNCHANGED <<suite, reported, published>>

(* During a suite, or before it could start *)
Abandon ==
  /\ phase = "calls" \/ (phase = "between" /\ suite < Suites)
  /\ phase' = "abandoned"
  /\ UNCHANGED <<suite, reported, stopped, published>>

EndSuite ==
  /\ phase = "calls"
  /\ published' = [published EXCEPT ![suite] = reported \cup stopped]
  /\ phase' = IF suite = Suites THEN "ended" ELSE "between"
  /\ UNCHANGED <<suite, reported, stopped>>

Decide ==
  /\ phase \in {"ended", "abandoned"}
  /\ phase' = IF phase = "ended" /\ \A s \in 1..Suites : published[s] = Expected[s]
              THEN "green" ELSE "red"
  /\ UNCHANGED <<suite, reported, stopped, published>>

Next == StartSuite \/ Report \/ Stop \/ Abandon \/ EndSuite \/ Decide

Spec == Init /\ [][Next]_vars /\ WF_vars(Next)
=============================================================================
