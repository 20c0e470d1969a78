--------------------------- MODULE TestPoolProofs ---------------------------
(***************************************************************************)
(* Proofs about TestPool, for any entries, workers and number of retries.  *)
(***************************************************************************)
EXTENDS TestPool, FiniteSetTheorems, TLAPS

LEMMA CountType ==
  ASSUME NEW S \in SUBSET Task
  PROVE  IsFiniteSet(S) /\ Cardinality(S) \in 0..Cardinality(Task)
  <1>1. IsFiniteSet(S) /\ Cardinality(S) <= Cardinality(Task)
    BY TaskFinite, FS_Subset
  <1>. QED  BY <1>1, TaskFinite, FS_CardinalityType

LEMMA InitHolds == Init => IInv
  <1>. SUFFICES ASSUME Init PROVE IInv
    OBVIOUS
  <1>1. 0 \in Attempt
    BY RetriesType DEF Attempt
  <1>2. 0 \in 0..Cardinality(Task)
    BY CountType, TaskFinite, FS_CardinalityType
  <1>3. TypeOK
    BY <1>1, <1>2 DEF Init, TypeOK, At, Run
  <1>4. Honest
    BY <1>1 DEF Init, Honest
  <1>5. {t \in counted : ~Passed(t)} = {} /\ Cardinality({}) = 0
    BY FS_EmptySet DEF Init
  <1>6. Tally
    BY <1>5 DEF Init, Tally
  <1>. QED  BY <1>3, <1>4, <1>6 DEF IInv

(* What a worker does before its task is done does not touch the tally.     *)
LEMMA WorkerTallies ==
  ASSUME IInv, NEW t \in Task, at[t] # "done", UNCHANGED <<counted, failed, exit>>,
         \A u \in Task \ {t} : /\ at'[u] = at[u]
                               /\ status'[u] = status[u]
                               /\ failures'[u] = failures[u]
  PROVE  Tally'
  <1>1. t \notin counted /\ counted \subseteq Task
    BY DEF IInv, Tally, TypeOK
  <1>2. \A u \in counted : at'[u] = at[u] /\ (Passed(u)' <=> Passed(u))
    BY <1>1 DEF Passed
  <1>3. {u \in counted : ~Passed(u)}' = {u \in counted : ~Passed(u)}
    BY <1>2
  <1>. QED  BY <1>2, <1>3 DEF IInv, Tally

(* Both ways in which an attempt may end leave the result well-formed.      *)
LEMMA ResultType ==
  ASSUME TypeOK, NEW t \in Task, \/ Retry(t)
                                 \/ Return(t, "ERROR")
                                 \/ Return(t, "TIMEOUT")
  PROVE  /\ at' \in [Task -> At]
         /\ attempt' \in [Task -> Attempt]
         /\ status' \in [Task -> {"none", "Finished", "Error", "ERROR", "TIMEOUT"}]
         /\ failures' \in [Task -> BOOLEAN]
  <1>1. CASE Return(t, "ERROR") \/ Return(t, "TIMEOUT")
    BY <1>1 DEF Return, TypeOK, At
  <1>2. CASE attempt[t] < Retries /\ Retry(t)
    <2>1. attempt[t] + 1 \in Attempt
      BY <1>2, RetriesType DEF TypeOK, Attempt
    <2>. QED  BY <1>2, <2>1 DEF Retry, TypeOK, At
  <1>3. CASE ~(attempt[t] < Retries) /\ Retry(t)
    BY <1>3, <1>1 DEF Retry
  <1>. QED  BY <1>1, <1>2, <1>3

LEMMA BecomesType ==
  ASSUME TypeOK, NEW t \in Task, NEW r \in Run, Becomes(t, r)
  PROVE  run' \in [Task -> [Attempt -> Run]]
  BY DEF Becomes, TypeOK

LEMMA WorkerPreserves ==
  ASSUME IInv, NEW t \in Task, Worker(t)
  PROVE  IInv'
  <1>1. attempt[t] \in Attempt /\ \A k \in Attempt : run[t][k] \in Run
    BY DEF IInv, TypeOK
  <1>2. attempt[t] < Retries => attempt[t] + 1 \in Attempt
    BY <1>1, RetriesType DEF Attempt
  <1>3. at[t] # "done" /\ UNCHANGED <<counted, failed, exit>>
    BY DEF Worker, Take, Create, Trigger, PollOver, PollTimeout, ReadLog
  <1>4. \A u \in Task \ {t} :
          /\ at'[u] = at[u] /\ status'[u] = status[u] /\ failures'[u] = failures[u]
          /\ attempt'[u] = attempt[u] /\ run'[u] = run[u]
    BY DEF Worker, Take, Create, Trigger, PollOver, PollTimeout, ReadLog, Retry, Return, Becomes,
           IInv, TypeOK
  <1>5. Tally'
    BY <1>3, <1>4, WorkerTallies
  <1>6. TypeOK'
    <2>1. CASE Take(t) \/ PollOver(t)
      BY <2>1 DEF Take, PollOver, IInv, TypeOK, At
    <2>2. CASE Create(t) \/ Trigger(t)
      <3>1. UNCHANGED run \/ Becomes(t, "created") \/ Becomes(t, "running")
        BY <2>2 DEF Create, Trigger
      <3>2. run' \in [Task -> [Attempt -> Run]]
        BY <3>1, BecomesType DEF IInv, TypeOK, Run
      <3>3. \/ Retry(t) \/ Return(t, "ERROR")
            \/ /\ at' = [at EXCEPT ![t] = "trigger"] \/ at' = [at EXCEPT ![t] = "poll"]
               /\ UNCHANGED <<attempt, status, failures>>
        BY <2>2 DEF Create, Trigger
      <3>4. /\ at' \in [Task -> At]
            /\ attempt' \in [Task -> Attempt]
            /\ status' \in [Task -> {"none", "Finished", "Error", "ERROR", "TIMEOUT"}]
            /\ failures' \in [Task -> BOOLEAN]
        <4>1. CASE Retry(t) \/ Return(t, "ERROR")
          BY <4>1, ResultType DEF IInv
        <4>2. CASE ~(Retry(t) \/ Return(t, "ERROR"))
          BY <4>2, <3>3 DEF IInv, TypeOK, At
        <4>. QED  BY <4>1, <4>2
      <3>5. UNCHANGED <<counted, failed, exit, log>>
        BY <2>2 DEF Create, Trigger
      <3>. QED  BY <3>2, <3>4, <3>5 DEF IInv, TypeOK
    <2>3. CASE PollTimeout(t)
      BY <2>3 DEF PollTimeout, Return, IInv, TypeOK, At
    <2>4. CASE ReadLog(t)
      <3>1. log[CodeunitOf[t]] \in BOOLEAN
        BY CodeunitOfType DEF IInv, TypeOK
      <3>2. StatusOf(MyRun(t)) \in {"Finished", "Error"}
        BY DEF StatusOf
      <3>. QED  BY <2>4, <3>1, <3>2 DEF ReadLog, IInv, TypeOK, At
    <2>. QED  BY <2>1, <2>2, <2>3, <2>4 DEF Worker
  <1>7. Honest'
    <2>1. log' = log
      BY DEF Worker, Take, Create, Trigger, PollOver, PollTimeout, ReadLog
    <2>2. \A k \in Attempt : run'[t][k] = "failed" => run[t][k] = "failed"
      BY <1>1 DEF Worker, Take, Create, Trigger, PollOver, PollTimeout, ReadLog, Becomes, IInv,
                  TypeOK
    <2>3. \A u \in Task : \A k \in Attempt : run'[u][k] = "failed" => log'[CodeunitOf[u]]
      BY <2>1, <2>2, <1>4 DEF IInv, Honest
    <2>4. \A u \in Task \ {t} : MyRun(u)' = MyRun(u) /\ (Passed(u)' <=> Passed(u))
      BY <1>4 DEF MyRun, Passed
    <2>5. at'[t] = "log" => MyRun(t)' \in Over
      BY DEF Worker, Take, Create, Trigger, PollOver, PollTimeout, ReadLog, Retry, Return, IInv,
             TypeOK, MyRun
    <2>6. at'[t] = "done" /\ Passed(t)' => LogLost \/ MyRun(t)' = "passed"
      <3>1. CASE ReadLog(t)
        <4>1. MyRun(t)' = MyRun(t) /\ MyRun(t) \in Over
          BY <3>1 DEF ReadLog, MyRun, IInv, Honest
        <4>2. status'[t] = StatusOf(MyRun(t))
          BY <3>1 DEF ReadLog, IInv, TypeOK
        <4>3. LogLost \/ failures'[t] = log[CodeunitOf[t]]
          BY <3>1 DEF ReadLog, IInv, TypeOK
        <4>4. MyRun(t) = "failed" => log[CodeunitOf[t]]
          BY <1>1 DEF MyRun, IInv, Honest
        <4>. QED  BY <4>1, <4>2, <4>3, <4>4 DEF Passed, StatusOf, Over
      <3>2. CASE ~ReadLog(t)
        BY <3>2 DEF Worker, Take, Create, Trigger, PollOver, PollTimeout, Retry, Return, IInv,
                    TypeOK, Passed
      <3>. QED  BY <3>1, <3>2
    <2>. QED  BY <2>3, <2>4, <2>5, <2>6, <1>4 DEF IInv, Honest
  <1>. QED  BY <1>5, <1>6, <1>7 DEF IInv

LEMMA CountPreserves ==
  ASSUME IInv, NEW t \in Task, Count(t)
  PROVE  IInv'
  <1>. DEFINE bad == {u \in counted : ~Passed(u)}
  <1>1. /\ counted' = counted \cup {t} /\ t \notin counted /\ at[t] = "done"
        /\ failed' = IF Passed(t) THEN failed ELSE failed + 1
        /\ UNCHANGED <<at, attempt, status, failures, exit, run, log>> /\ exit = -1
    BY DEF Count
  <1>2. \A u \in Task : Passed(u)' <=> Passed(u)
    BY <1>1 DEF Passed
  <1>3. counted \subseteq Task /\ counted' \subseteq Task
    BY <1>1 DEF IInv, TypeOK
  <1>4. bad' = IF Passed(t) THEN bad ELSE bad \cup {t}
    BY <1>1, <1>2, <1>3
  <1>5. IsFiniteSet(bad) /\ t \notin bad /\ bad' \subseteq Task
    BY <1>1, <1>3, CountType
  <1>6. Cardinality(bad \cup {t}) = Cardinality(bad) + 1
    BY <1>5, FS_AddElement
  <1>7. failed = Cardinality(bad)
    BY DEF IInv, Tally
  <1>8. failed' = Cardinality(bad')
    BY <1>1, <1>4, <1>6, <1>7
  <1>9. failed' \in 0..Cardinality(Task)
    BY <1>5, <1>8, CountType
  <1>10. TypeOK'
    BY <1>1, <1>3, <1>9 DEF IInv, TypeOK
  <1>11. Tally'
    BY <1>1, <1>8 DEF IInv, Tally
  <1>12. Honest'
    BY <1>1, <1>2 DEF IInv, Honest, MyRun
  <1>. QED  BY <1>10, <1>11, <1>12 DEF IInv

LEMMA FinishPreserves == IInv /\ Finish => IInv'
  <1>. SUFFICES ASSUME IInv, Finish PROVE IInv'
    OBVIOUS
  <1>1. TypeOK'
    BY DEF Finish, IInv, TypeOK
  <1>2. Honest'
    BY DEF Finish, IInv, Honest, MyRun, Passed
  <1>3. {u \in counted : ~Passed(u)}' = {u \in counted : ~Passed(u)}
    BY DEF Finish, Passed
  <1>4. Tally'
    BY <1>3 DEF Finish, IInv, Tally
  <1>. QED  BY <1>1, <1>2, <1>4 DEF IInv

LEMMA ServerPreserves ==
  ASSUME IInv, NEW t \in Task, NEW k \in Attempt, Server(t, k)
  PROVE  IInv'
  <1>1. PICK r \in Over :
          /\ run' = [run EXCEPT ![t][k] = r]
          /\ \/ r # "passed" /\ log' = [log EXCEPT ![CodeunitOf[t]] = TRUE]
             \/ r # "failed" /\ UNCHANGED log
    BY DEF Server
  <1>2. UNCHANGED script /\ run[t][k] = "running" /\ CodeunitOf[t] \in Codeunit
    BY CodeunitOfType DEF Server
  <1>3. TypeOK'
    BY <1>1, <1>2 DEF script, IInv, TypeOK, Over, Run
  <1>4. \A u \in Task : \A l \in Attempt :
          run'[u][l] = IF u = t /\ l = k THEN r ELSE run[u][l]
    BY <1>1 DEF IInv, TypeOK
  <1>5. \A c \in Codeunit : log[c] => log'[c]
    BY <1>1 DEF IInv, TypeOK
  <1>6. r = "failed" => log'[CodeunitOf[t]]
    BY <1>1, <1>2 DEF IInv, TypeOK
  <1>7. \A u \in Task : MyRun(u) \in Over => MyRun(u)' = MyRun(u)
    BY <1>2, <1>4 DEF MyRun, script, Over, IInv, TypeOK
  <1>8. \A u \in Task : Passed(u)' <=> Passed(u)
    BY <1>2 DEF script, Passed
  <1>9. \A u \in Task : \A l \in Attempt : run'[u][l] = "failed" => log'[CodeunitOf[u]]
    BY <1>4, <1>5, <1>6, CodeunitOfType DEF IInv, Honest
  <1>10. Honest'
    BY <1>2, <1>7, <1>8, <1>9 DEF script, IInv, Honest, Over
  <1>11. {u \in counted : ~Passed(u)}' = {u \in counted : ~Passed(u)}
    BY <1>2, <1>8 DEF script, IInv, TypeOK
  <1>12. Tally'
    BY <1>2, <1>11 DEF script, IInv, Tally
  <1>. QED  BY <1>3, <1>10, <1>12 DEF IInv

(***************************************************************************)
(* A result is true of the run it is about, and is counted once            *)
(* (run-bc-tests.py 71-140 and 183-222).                                   *)
(***************************************************************************)
THEOREM InductiveInvariant == Spec => []IInv
  <1>1. IInv /\ UNCHANGED vars => IInv'
    <2>. SUFFICES ASSUME IInv, UNCHANGED vars PROVE IInv'
      OBVIOUS
    <2>1. {u \in counted : ~Passed(u)}' = {u \in counted : ~Passed(u)}
      BY DEF vars, script, Passed
    <2>. QED  BY <2>1 DEF vars, script, IInv, TypeOK, Honest, Tally, MyRun, Passed
  <1>2. IInv /\ [Next]_vars => IInv'
    BY <1>1, WorkerPreserves, CountPreserves, FinishPreserves, ServerPreserves DEF Next
  <1>. QED  BY <1>2, InitHolds, PTL DEF Spec

(* The state of the script and of the server keep their types.              *)
THEOREM TypeCorrect == Spec => []TypeOK
  <1>1. IInv => TypeOK
    BY DEF IInv
  <1>. QED  BY <1>1, InductiveInvariant, PTL

(***************************************************************************)
(* While the log can be read, exit code 0 means that the run of every      *)
(* entry passed, however many attempts and workers there are               *)
(* (run-bc-tests.py 117-133 and 194-222).                                  *)
(***************************************************************************)
THEOREM GreenMeansPassedHolds ==
  ASSUME ~LogLost
  PROVE  Spec => []GreenMeansPassed
  <1>1. IInv => GreenMeansPassed
    <2>. SUFFICES ASSUME IInv, exit = 0, NEW t \in Task
                  PROVE  at[t] = "done" /\ MyRun(t) = "passed"
      BY DEF GreenMeansPassed
    <2>1. counted = Task /\ at[t] = "done" /\ failed = 0
      BY DEF IInv, Tally
    <2>2. Cardinality({u \in counted : ~Passed(u)}) = 0
      BY <2>1 DEF IInv, Tally
    <2>3. {u \in counted : ~Passed(u)} = {}
      <3>1. IsFiniteSet({u \in counted : ~Passed(u)})
        BY <2>1, CountType
      <3>. QED  BY <3>1, <2>2, FS_EmptySet
    <2>4. Passed(t)
      BY <2>1, <2>3
    <2>. QED  BY <2>1, <2>4 DEF IInv, Honest
  <1>. QED  BY <1>1, InductiveInvariant, PTL

(***************************************************************************)
(* The failures counted and the codeunits printed as passed add up to all  *)
(* entries (run-bc-tests.py 194-222).                                      *)
(***************************************************************************)
THEOREM CountsAgreeHolds == Spec => []CountsAgree
  <1>1. IInv => CountsAgree
    <2>. SUFFICES ASSUME IInv PROVE CountsAgree
      OBVIOUS
    <2>. DEFINE good == {u \in Task : Passed(u)}
    <2>1. failed = Cardinality({u \in counted : ~Passed(u)})
      BY DEF IInv, Tally
    <2>2. ASSUME exit # -1
          PROVE  failed + Cardinality(good) = Cardinality(Task)
      <3>1. counted = Task
        BY <2>2 DEF IInv, Tally
      <3>2. failed = Cardinality(Task \ good) /\ Task \cap good = good
        <4>1. {u \in counted : ~Passed(u)} = Task \ good
          BY <3>1
        <4>. QED  BY <2>1, <4>1
      <3>3. Cardinality(Task \ good) = Cardinality(Task) - Cardinality(Task \cap good)
        BY TaskFinite, FS_Difference
      <3>4. Cardinality(Task) \in Nat /\ Cardinality(good) \in Nat
        BY TaskFinite, CountType, FS_CardinalityType
      <3>. HIDE DEF good
      <3>5. failed = Cardinality(Task) - Cardinality(good)
        BY <3>2, <3>3
      <3>. QED  BY <3>4, <3>5
    <2>. QED  BY <2>1, <2>2 DEF CountsAgree
  <1>. QED  BY <1>1, InductiveInvariant, PTL

-----------------------------------------------------------------------------
(* Only forward *)

LEMMA FreshInit == Init => Fresh
  <1>. SUFFICES ASSUME Init PROVE Fresh
    OBVIOUS
  <1>1. 0 \in Attempt
    BY RetriesType DEF Attempt
  <1>. QED  BY <1>1 DEF Init, Fresh, MyRun

(* What a step of a worker does to its entry; the other entries stay. *)
LEMMA WorkerMoves ==
  ASSUME TypeOK, Fresh, NEW t \in Task, Worker(t)
  PROVE  /\ \A u \in Task \ {t} :
              at'[u] = at[u] /\ attempt'[u] = attempt[u] /\ run'[u] = run[u]
         /\ \A k \in Attempt : run'[t][k] # run[t][k] =>
              k = attempt[t] /\ run[t][k] \notin Over /\ run'[t][k] \notin Over
         /\ \/ /\ at[t] = "queued" /\ at'[t] = "create" /\ attempt'[t] = attempt[t]
               /\ MyRun(t)' = "none"
            \/ /\ at[t] = "create" /\ at'[t] = "trigger" /\ attempt'[t] = attempt[t]
               /\ MyRun(t)' = "created"
            \/ at[t] = "trigger" /\ at'[t] = "poll" /\ attempt'[t] = attempt[t]
            \/ at[t] = "poll" /\ at'[t] = "log" /\ attempt'[t] = attempt[t]
            \/ at[t] # "done" /\ at'[t] = "done" /\ attempt'[t] = attempt[t]
            \/ /\ at[t] \in {"create", "trigger"} /\ at'[t] = "create"
               /\ attempt[t] < Retries /\ attempt'[t] = attempt[t] + 1
  <1>1. /\ at \in [Task -> At] /\ attempt \in [Task -> Attempt]
        /\ run \in [Task -> [Attempt -> Run]] /\ attempt[t] \in Attempt
    BY DEF TypeOK
  <1>2. \A r : Becomes(t, r) =>
          /\ \A u \in Task \ {t} : run'[u] = run[u]
          /\ \A k \in Attempt : run'[t][k] = IF k = attempt[t] THEN r ELSE run[t][k]
    BY <1>1 DEF Becomes
  <1>3. \A s : Return(t, s) =>
          /\ at'[t] = "done" /\ UNCHANGED attempt
          /\ \A u \in Task \ {t} : at'[u] = at[u]
    BY <1>1 DEF Return
  <1>4. Retry(t) =>
          /\ \A u \in Task \ {t} : at'[u] = at[u] /\ attempt'[u] = attempt[u]
          /\ \/ at'[t] = "done" /\ attempt'[t] = attempt[t]
             \/ at'[t] = "create" /\ attempt[t] < Retries /\ attempt'[t] = attempt[t] + 1
    BY <1>1, <1>3 DEF Retry
  <1>5. CASE Take(t)
    BY <1>1, <1>5 DEF Take, Fresh, MyRun
  <1>6. CASE Create(t)
    <2>1. CASE Becomes(t, "created") /\ at' = [at EXCEPT ![t] = "trigger"] /\ UNCHANGED attempt
      BY <1>1, <1>2, <1>6, <2>1 DEF Create, Fresh, MyRun, Over
    <2>2. CASE UNCHANGED run /\ (Retry(t) \/ Return(t, "ERROR"))
      BY <1>1, <1>3, <1>4, <1>6, <2>2 DEF Create
    <2>. QED  BY <1>6, <2>1, <2>2 DEF Create
  <1>7. CASE Trigger(t)
    <2>1. UNCHANGED run \/ Becomes(t, "running")
      BY <1>7 DEF Trigger
    <2>2. /\ \A u \in Task \ {t} : run'[u] = run[u]
          /\ \A k \in Attempt : run'[t][k] # run[t][k] =>
               k = attempt[t] /\ run[t][k] \notin Over /\ run'[t][k] \notin Over
      BY <1>1, <1>2, <1>7, <2>1 DEF Trigger, Fresh, MyRun, Over
    <2>3. CASE at' = [at EXCEPT ![t] = "poll"] /\ UNCHANGED attempt
      BY <1>1, <1>7, <2>2, <2>3 DEF Trigger
    <2>4. CASE Retry(t) \/ Return(t, "ERROR")
      BY <1>1, <1>3, <1>4, <1>7, <2>2, <2>4 DEF Trigger
    <2>. QED  BY <1>7, <2>3, <2>4 DEF Trigger
  <1>8. CASE PollOver(t)
    BY <1>1, <1>8 DEF PollOver
  <1>9. CASE PollTimeout(t)
    BY <1>1, <1>3, <1>9 DEF PollTimeout
  <1>10. CASE ReadLog(t)
    BY <1>1, <1>10 DEF ReadLog
  <1>. QED  BY <1>5, <1>6, <1>7, <1>8, <1>9, <1>10 DEF Worker

(* A run changes only where it goes on; the attempts after it are untouched. *)
LEMMA FreshStep == TypeOK /\ Fresh /\ [Next]_vars => Fresh'
  <1>. SUFFICES ASSUME TypeOK, Fresh, [Next]_vars PROVE Fresh'
    OBVIOUS
  <1>1. ASSUME NEW t \in Task, Worker(t) PROVE Fresh'
    <2>1. /\ attempt[t] \in Nat /\ \A k \in Attempt : k \in Nat
          /\ attempt[t] < Retries => attempt[t] + 1 \in Attempt
      BY RetriesType DEF TypeOK, Attempt
    <2>2. ASSUME NEW u \in Task \ {t}
          PROVE  /\ \A k \in Attempt : k > attempt'[u] => run'[u][k] = "none"
                 /\ at'[u] \in {"queued", "create"} => MyRun(u)' = "none"
                 /\ at'[u] = "trigger" => MyRun(u)' = "created"
      BY <1>1, <2>2, WorkerMoves DEF Fresh, MyRun
    <2>3. \A k \in Attempt : k > attempt[t] => run'[t][k] = "none"
      BY <1>1, <2>1, WorkerMoves DEF Fresh
    <2>4. \/ attempt'[t] = attempt[t]
          \/ attempt[t] + 1 \in Attempt /\ attempt'[t] = attempt[t] + 1
      BY <1>1, <2>1, WorkerMoves
    <2>5. \A k \in Attempt : k > attempt'[t] => run'[t][k] = "none"
      <3>1. \A k \in Attempt : k > attempt[t] + 1 => k > attempt[t]
        BY <2>1
      <3>. QED  BY <2>3, <2>4, <3>1
    <2>6. at'[t] = "create" => MyRun(t)' = "none"
      <3>1. attempt'[t] = attempt[t] + 1 => MyRun(t)' = "none"
        <4>1. attempt[t] + 1 > attempt[t]
          BY <2>1
        <4>2. ASSUME attempt'[t] = attempt[t] + 1 PROVE attempt[t] + 1 \in Attempt
          BY <2>1, <2>4, <4>2
        <4>3. MyRun(t)' = run'[t][attempt'[t]]
          BY DEF MyRun
        <4>. QED  BY <2>3, <4>1, <4>2, <4>3
      <3>. QED  BY <1>1, <3>1, WorkerMoves
    <2>7. at'[t] # "queued" /\ (at'[t] = "trigger" => MyRun(t)' = "created")
      BY <1>1, WorkerMoves
    <2>. QED  BY <2>2, <2>5, <2>6, <2>7 DEF Fresh
  <1>2. CASE UNCHANGED <<at, attempt, run>>
    BY <1>2 DEF Fresh, MyRun
  <1>3. ASSUME NEW t \in Task, NEW k \in Attempt, Server(t, k) PROVE Fresh'
    <2>1. PICK r \in Over : run' = [run EXCEPT ![t][k] = r]
      BY <1>3 DEF Server
    <2>2. UNCHANGED <<at, attempt>> /\ run[t][k] = "running"
      BY <1>3 DEF Server, script
    <2>3. \A u \in Task : \A l \in Attempt : run[u][l] # "running" => run'[u][l] = run[u][l]
      BY <2>1, <2>2 DEF TypeOK
    <2>4. \A u \in Task : attempt[u] \in Attempt
      BY DEF TypeOK
    <2>. QED  BY <2>2, <2>3, <2>4 DEF Fresh, MyRun
  <1>. QED  BY <1>1, <1>2, <1>3 DEF Next, Count, Finish, vars, script

(* Turns are numbers below the supply. *)
LEMMA TurnsType ==
  ASSUME TypeOK, NEW t \in Task
  PROVE  TurnsOf(t) \in 0..(5 * Retries + 5)
  <1>1. attempt[t] \in 0..Retries /\ at[t] \in At
    BY DEF TypeOK, Attempt
  <1>. QED  BY <1>1, RetriesType DEF TurnsOf, At

LEMMA WorkerUses ==
  ASSUME TypeOK, TypeOK', Fresh, NEW t \in Task, Worker(t)
  PROVE  /\ TurnsLeft' \subseteq TurnsLeft /\ TurnsLeft' # TurnsLeft
         /\ RunsLeft' \subseteq RunsLeft
  <1>1. attempt[t] \in 0..Retries /\ at[t] \in At /\ at'[t] \in At /\ Retries \in Nat
    BY RetriesType DEF TypeOK, Attempt
  <1>2. TurnsOf(t)' < TurnsOf(t)
    BY <1>1, WorkerMoves DEF TurnsOf, At
  <1>3. \A u \in Task \ {t} : TurnsOf(u)' = TurnsOf(u)
    BY WorkerMoves DEF TurnsOf
  <1>4. \A u \in Task : TurnsOf(u) \in 0..(5 * Retries + 5)
    BY TurnsType
  <1>5. TurnsOf(t)' \in Nat
    BY <1>1, WorkerMoves DEF TurnsOf, At
  <1>6. ASSUME NEW x \in TurnsLeft' PROVE x \in TurnsLeft
    <2>1. x \in Task \X (1..(5 * Retries + 5)) /\ x[2] <= TurnsOf(x[1])'
      BY <1>6 DEF TurnsLeft
    <2>2. x[1] \in Task /\ x[2] \in Nat
      BY <2>1
    <2>3. x[2] <= TurnsOf(x[1])
      BY <1>2, <1>3, <1>4, <1>5, <2>1, <2>2
    <2>. QED  BY <2>1, <2>3 DEF TurnsLeft
  <1>7. TurnsOf(t) \in 1..(5 * Retries + 5)
    BY <1>1, <1>2, <1>4, <1>5
  <1>8. <<t, TurnsOf(t)>> \in TurnsLeft
    BY <1>7 DEF TurnsLeft
  <1>9. <<t, TurnsOf(t)>> \notin TurnsLeft'
    <2>1. ASSUME <<t, TurnsOf(t)>> \in TurnsLeft' PROVE TurnsOf(t) <= TurnsOf(t)'
      BY <2>1 DEF TurnsLeft
    <2>. QED  BY <1>2, <1>5, <1>7, <2>1
  <1>10. RunsLeft' \subseteq RunsLeft
    <2>1. ASSUME NEW u \in Task, NEW k \in Attempt, run[u][k] \in Over
          PROVE  run'[u][k] \in Over
      BY <2>1, WorkerMoves
    <2>. QED  BY <2>1 DEF RunsLeft
  <1>. QED  BY <1>6, <1>8, <1>9, <1>10

LEMMA ServerUses ==
  ASSUME TypeOK, NEW t \in Task, NEW k \in Attempt, Server(t, k)
  PROVE  RunsLeft' \subseteq RunsLeft /\ RunsLeft' # RunsLeft
  <1>1. PICK r \in Over : run' = [run EXCEPT ![t][k] = r]
    BY DEF Server
  <1>2. run[t][k] = "running"
    BY DEF Server
  <1>3. /\ run'[t][k] = r
        /\ \A u \in Task : \A l \in Attempt : run[u][l] # "running" => run'[u][l] = run[u][l]
    BY <1>1, <1>2 DEF TypeOK
  <1>4. <<t, k>> \in RunsLeft /\ <<t, k>> \notin RunsLeft'
    BY <1>2, <1>3 DEF RunsLeft, Over
  <1>5. RunsLeft' \subseteq RunsLeft
    BY <1>3 DEF RunsLeft, Over
  <1>. QED  BY <1>4, <1>5

(***************************************************************************)
(* Nothing is done over: for any entries, workers and retries every step   *)
(* of a worker, of main() and of the server uses up part of a supply that  *)
(* is fixed at the start (run-bc-tests.py 71-140 and 183-222).             *)
(***************************************************************************)
THEOREM OnlyForwardHolds == Spec => OnlyForward
  <1>1. TypeOK /\ TypeOK' /\ Fresh /\ Next => Forward
    <2>. SUFFICES ASSUME TypeOK, TypeOK', Fresh, Next PROVE Forward
      OBVIOUS
    <2>. USE DEF Forward
    <2>1. ASSUME NEW t \in Task, Worker(t) PROVE Forward
      <3>1. UNCHANGED <<counted, exit>>
        BY <2>1 DEF Worker, Take, Create, Trigger, PollOver, PollTimeout, ReadLog
      <3>. QED  BY <2>1, <3>1, WorkerUses
    <2>2. ASSUME NEW t \in Task, Count(t) PROVE Forward
      <3>1. /\ t \notin counted /\ counted' = counted \cup {t}
            /\ UNCHANGED <<at, attempt, run, exit>>
        BY <2>2 DEF Count
      <3>2. TurnsLeft' = TurnsLeft /\ RunsLeft' = RunsLeft
        BY <3>1 DEF TurnsLeft, TurnsOf, RunsLeft
      <3>. QED  BY <3>1, <3>2
    <2>3. CASE Finish
      <3>1. exit = -1 /\ exit' \in {0, 1} /\ UNCHANGED <<at, attempt, run, counted>>
        BY <2>3 DEF Finish
      <3>2. TurnsLeft' = TurnsLeft /\ RunsLeft' = RunsLeft
        BY <3>1 DEF TurnsLeft, TurnsOf, RunsLeft
      <3>. QED  BY <3>1, <3>2
    <2>4. ASSUME NEW t \in Task, NEW k \in Attempt, Server(t, k) PROVE Forward
      <3>1. UNCHANGED <<at, attempt, counted, exit>>
        BY <2>4 DEF Server, script
      <3>2. TurnsLeft' = TurnsLeft
        BY <3>1 DEF TurnsLeft, TurnsOf
      <3>. QED  BY <2>4, <3>1, <3>2, ServerUses
    <2>. QED  BY <2>1, <2>2, <2>3, <2>4 DEF Next
  <1>2. Spec => []Fresh
    BY FreshInit, FreshStep, TypeCorrect, PTL DEF Spec
  <1>3. TypeOK /\ TypeOK' /\ Fresh /\ [Next]_vars => [Forward]_vars
    BY <1>1
  <1>. QED  BY <1>2, <1>3, TypeCorrect, PTL DEF Spec, OnlyForward
=============================================================================
