------------------------------ MODULE TestPool ------------------------------
(***************************************************************************)
(* tests/al-language/run-bc-tests.py: a pool of workers runs test          *)
(* codeunits on a BC server over HTTP.  For each codeunit a worker creates *)
(* a run request, triggers it, polls until it is finished or the time is   *)
(* up, and reads the codeunit's failures from the server's log; a request  *)
(* that is refused is tried again with a new one.                          *)
(*                                                                         *)
(* The server is not under src/: a triggered run goes on by itself, whether*)
(* anybody waits for it or not, and its failures are logged before it      *)
(* counts as finished.  A call may be answered, refused, or raise; one     *)
(* that does not answer with success may have had its effect all the same. *)
(***************************************************************************)
EXTENDS Integers, FiniteSets

CONSTANTS
  Task,        \* the entries of cu_ids
  Codeunit,
  CodeunitOf,  \* entry -> codeunit; --ids may name one twice
  Workers,     \* --workers, 4
  Retries,     \* 2
  LogLost      \* may the call that reads the log fail?

ASSUME CodeunitOfType == CodeunitOf \in [Task -> Codeunit]
ASSUME WorkersType == Workers \in Nat \ {0}
ASSUME RetriesType == Retries \in Nat
ASSUME TaskFinite == IsFiniteSet(Task)
ASSUME LogLostType == LogLost \in BOOLEAN

VARIABLES
  at,        \* entry -> where its worker is
  attempt,   \* entry -> attempt
  status,    \* entry -> result["status"]
  failures,  \* entry -> has result["failures"] any?
  counted,   \* entries whose future main() has taken
  failed,    \* failed_count
  exit,      \* the exit code; -1 while main() runs
  run,       \* server: entry, attempt -> the run of that request
  log        \* server: codeunit -> does the log have failures of it?

script == <<at, attempt, status, failures, counted, failed, exit>>
vars == <<script, run, log>>

Attempt == 0..Retries
At == {"queued", "create", "trigger", "poll", "log", "done"}
Run == {"none", "created", "running", "passed", "failed", "error"}
Over == {"passed", "failed", "error"}

MyRun(t) == run[t][attempt[t]]

TypeOK ==
  /\ at \in [Task -> At]
  /\ attempt \in [Task -> Attempt]
  /\ status \in [Task -> {"none", "Finished", "Error", "ERROR", "TIMEOUT"}]
  /\ failures \in [Task -> BOOLEAN]
  /\ counted \subseteq Task
  /\ failed \in 0..Cardinality(Task)
  /\ exit \in {-1, 0, 1}
  /\ run \in [Task -> [Attempt -> Run]]
  /\ log \in [Codeunit -> BOOLEAN]

Init ==
  /\ at = [t \in Task |-> "queued"]
  /\ attempt = [t \in Task |-> 0]
  /\ status = [t \in Task |-> "none"]
  /\ failures = [t \in Task |-> FALSE]
  /\ counted = {}
  /\ failed = 0
  /\ exit = -1
  /\ run = [t \in Task |-> [k \in Attempt |-> "none"]]
  /\ log \in [Codeunit -> BOOLEAN]     \* of earlier invocations

-----------------------------------------------------------------------------
Busy == {t \in Task : at[t] \notin {"queued", "done"}}

Take(t) ==
  /\ at[t] = "queued"
  /\ Cardinality(Busy) < Workers
  /\ at' = [at EXCEPT ![t] = "create"]
  /\ UNCHANGED <<attempt, status, failures, counted, failed, exit, run, log>>

(* The result without any failures *)
Return(t, s) ==
  /\ at' = [at EXCEPT ![t] = "done"]
  /\ status' = [status EXCEPT ![t] = s]
  /\ UNCHANGED <<attempt, failures>>

(* Mutant of Retry: the attempt is not counted *)
RetryForever(t) ==
  /\ at' = [at EXCEPT ![t] = "create"]
  /\ UNCHANGED <<attempt, status, failures>>

Retry(t) ==
  IF attempt[t] < Retries
    THEN /\ attempt' = [attempt EXCEPT ![t] = @ + 1]
         /\ at' = [at EXCEPT ![t] = "create"]
         /\ UNCHANGED <<status, failures>>
    ELSE Return(t, "ERROR")

(* The server makes r of the request *)
Becomes(t, r) == run' = [run EXCEPT ![t][attempt[t]] = r]

Create(t) ==
  /\ at[t] = "create"
  /\ \/ /\ Becomes(t, "created")
        /\ at' = [at EXCEPT ![t] = "trigger"]
        /\ UNCHANGED <<attempt, status, failures>>
     \/ UNCHANGED run /\ Retry(t)
     \/ UNCHANGED run /\ Return(t, "ERROR")
  /\ UNCHANGED <<counted, failed, exit, log>>

(* 409 and other refusals are tried again, with a new request; an exception *)
(* ends the task in main().  The run may have started in both cases.        *)
Trigger(t) ==
  /\ at[t] = "trigger"
  /\ \/ /\ Becomes(t, "running")
        /\ at' = [at EXCEPT ![t] = "poll"]
        /\ UNCHANGED <<attempt, status, failures>>
     \/ /\ UNCHANGED run \/ Becomes(t, "running")
        /\ Retry(t) \/ Return(t, "ERROR")
  /\ UNCHANGED <<counted, failed, exit, log>>

(* A poll that fails, or finds the run not over, changes nothing *)
PollOver(t) ==
  /\ at[t] = "poll"
  /\ MyRun(t) \in Over
  /\ at' = [at EXCEPT ![t] = "log"]
  /\ UNCHANGED <<attempt, status, failures, counted, failed, exit, run, log>>

PollTimeout(t) ==
  /\ at[t] = "poll"
  /\ Return(t, "TIMEOUT")
  /\ UNCHANGED <<counted, failed, exit, run, log>>

StatusOf(r) == IF r = "error" THEN "Error" ELSE "Finished"

(* Mutant of ReadLog: only a run that is not Finished has its log read      *)
ReadLogOfErrors(t) ==
  /\ at[t] = "log"
  /\ at' = [at EXCEPT ![t] = "done"]
  /\ status' = [status EXCEPT ![t] = StatusOf(MyRun(t))]
  /\ failures' = [failures EXCEPT ![t] = MyRun(t) = "error" /\ log[CodeunitOf[t]]]
  /\ UNCHANGED <<attempt, counted, failed, exit, run, log>>

(* fetch_log_failures: every failure that the log has of the codeunit, or   *)
(* none when the call fails                                                 *)
ReadLog(t) ==
  /\ at[t] = "log"
  /\ at' = [at EXCEPT ![t] = "done"]
  /\ status' = [status EXCEPT ![t] = StatusOf(MyRun(t))]
  /\ \/ failures' = [failures EXCEPT ![t] = log[CodeunitOf[t]]]
     \/ LogLost /\ failures' = [failures EXCEPT ![t] = FALSE]
  /\ UNCHANGED <<attempt, counted, failed, exit, run, log>>

Passed(t) == status[t] = "Finished" /\ ~failures[t]

(* main(): as_completed *)
Count(t) ==
  /\ at[t] = "done" /\ t \notin counted /\ exit = -1
  /\ counted' = counted \cup {t}
  /\ failed' = IF Passed(t) THEN failed ELSE failed + 1
  /\ UNCHANGED <<at, attempt, status, failures, exit, run, log>>

Finish ==
  /\ counted = Task
  /\ exit = -1
  /\ exit' = IF failed = 0 THEN 0 ELSE 1
  /\ UNCHANGED <<at, attempt, status, failures, counted, failed, run, log>>

(* The server: a run ends, with failing tests or without; one that breaks   *)
(* off may have failures in the log                                         *)
Server(t, k) ==
  /\ run[t][k] = "running"
  /\ \E r \in Over :
       /\ run' = [run EXCEPT ![t][k] = r]
       /\ \/ r # "passed" /\ log' = [log EXCEPT ![CodeunitOf[t]] = TRUE]
          \/ r # "failed" /\ UNCHANGED log
  /\ UNCHANGED script

Worker(t) ==
  Take(t) \/ Create(t) \/ Trigger(t) \/ PollOver(t) \/ PollTimeout(t) \/ ReadLog(t)

Next ==
  \/ \E t \in Task : Worker(t) \/ Count(t)
  \/ Finish
  \/ \E t \in Task, k \in Attempt : Server(t, k)

(* Workers and main() go on; the server owes nothing, a poll's time is up   *)
(* sooner or later                                                          *)
Fairness ==
  /\ \A t \in Task : WF_vars(Worker(t)) /\ WF_vars(Count(t))
  /\ WF_vars(Finish)

Spec == Init /\ [][Next]_vars /\ Fairness

-----------------------------------------------------------------------------
(***************************************************************************)
(* Exit code 0 means that every entry was run by this invocation and that  *)
(* its own run passed, whatever was retried, timed out or run twice, as    *)
(* long as the log can be read (run-bc-tests.py 117-133 and 194-222).      *)
(***************************************************************************)
GreenMeansPassed ==
  exit = 0 => \A t \in Task : at[t] = "done" /\ MyRun(t) = "passed"

(***************************************************************************)
(* The count of failures that decides the exit code and the count of       *)
(* passed codeunits that is printed (219-222) add up.                      *)
(***************************************************************************)
CountsAgree ==
  /\ failed = Cardinality({t \in counted : ~Passed(t)})
  /\ exit # -1 => failed + Cardinality({t \in Task : Passed(t)}) = Cardinality(Task)

(***************************************************************************)
(* Nothing is done over: a step of a worker uses up a turn of one of its   *)
(* attempts, a run of the server that is over never starts again, also     *)
(* when its answer came too late or never, and main() takes a result once. *)
(* A fixed supply is all that can happen before the exit code.             *)
(***************************************************************************)
TurnsOf(t) ==
  5 * (Retries - attempt[t]) +
    (CASE at[t] = "queued" -> 5
       [] at[t] = "create" -> 4
       [] at[t] = "trigger" -> 3
       [] at[t] = "poll" -> 2
       [] at[t] = "log" -> 1
       [] at[t] = "done" -> 0)

TurnsLeft == {x \in Task \X (1..(5 * Retries + 5)) : x[2] <= TurnsOf(x[1])}

RunsLeft == {x \in Task \X Attempt : run[x[1]][x[2]] \notin Over}

Forward ==
  /\ TurnsLeft' \subseteq TurnsLeft
  /\ RunsLeft' \subseteq RunsLeft
  /\ counted \subseteq counted'
  /\ exit # -1 => exit' = exit
  /\ TurnsLeft' # TurnsLeft \/ RunsLeft' # RunsLeft \/ counted' # counted \/ exit' # exit

OnlyForward == [][Forward]_vars

(* Why: a request is made of an attempt that the server does not know yet   *)
Fresh ==
  \A t \in Task :
    /\ \A k \in Attempt : k > attempt[t] => run[t][k] = "none"
    /\ at[t] \in {"queued", "create"} => MyRun(t) = "none"
    /\ at[t] = "trigger" => MyRun(t) = "created"

(***************************************************************************)
(* The script ends, also when the server stops answering: every call and   *)
(* every poll has its time limit and the attempts are counted.             *)
(***************************************************************************)
Terminates == <>(exit # -1)

(* Why: a result is true of the run that it is about, and counted once      *)
Honest ==
  /\ \A t \in Task : \A k \in Attempt : run[t][k] = "failed" => log[CodeunitOf[t]]
  /\ \A t \in Task : at[t] = "log" => MyRun(t) \in Over
  /\ \A t \in Task : at[t] = "done" /\ Passed(t) => LogLost \/ MyRun(t) = "passed"

Tally ==
  /\ \A t \in counted : at[t] = "done"
  /\ failed = Cardinality({t \in counted : ~Passed(t)})
  /\ exit # -1 => counted = Task
  /\ exit = 0 => failed = 0

IInv == TypeOK /\ Honest /\ Tally
=============================================================================
