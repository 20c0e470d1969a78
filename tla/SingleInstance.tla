--------------------------- MODULE SingleInstance ---------------------------
(***************************************************************************)
(* check-singleinstance-fixture-owners.py, and what it is for: a session   *)
(* that runs test codeunits one after the other, in an order nobody has    *)
(* fixed, while an instance of a SingleInstance codeunit lives on from the *)
(* first test codeunit that reaches it to the last.                        *)
(***************************************************************************)
EXTENDS Integers, FiniteSets, Sequences

CONSTANTS
  Name,    \* names of codeunits
  Sources, \* the corpora to consider: sequences of codeunit declarations
           \* [name, single, test, refs], in the order the files are read;
           \* refs: declared as a variable, or run by Codeunit.Run
  Nobody

(* A corpus has finitely many names *)
ASSUME NamesFinite == IsFiniteSet(Name)
ASSUME NobodyNew == Nobody \notin Name /\ Nobody \notin {0, 1}
ASSUME SourcesType ==
  Sources \subseteq Seq([name : Name, single : BOOLEAN, test : BOOLEAN, refs : SUBSET Name])

VARIABLES
  decls,     \* the declarations; fixed
  stage,      \* "start", "search", "session"
  todo,      \* test codeunits whose reachable set is not computed yet
  test,      \* the one being searched, Nobody before the first
  seen, stack,  \* reachable(): the sets of names
  owners,    \* single -> the test codeunits that reach it
  status,    \* exit status, Nobody before the end
  instance,  \* single -> the test codeunit that touched it last, Nobody if fresh
  ran,       \* the test codeunits that the session ran
  saw        \* test codeunit -> what it found in the instances it reached

ownersVars == <<decls, stage, todo, test, seen, stack, owners, status, instance, ran, saw>>

-----------------------------------------------------------------------------
Declared == {decls[i].name : i \in DOMAIN decls}

(* objects[name]: the last declaration of a name counts *)
Object(n) == decls[CHOOSE i \in DOMAIN decls :
                     decls[i].name = n /\ \A j \in i + 1..Len(decls) : decls[j].name # n]

Singles == {n \in Declared : Object(n).single}
Tests == {n \in Declared : Object(n).test}

(* refs[name]: those of all its declarations; none of a name not declared *)
Refs(n) == UNION {decls[i].refs : i \in {j \in DOMAIN decls : decls[j].name = n}}

OwnersTypeOK ==
  /\ decls \in Sources
  /\ stage \in {"start", "search", "session"}
  /\ todo \subseteq Tests /\ test \in Tests \cup {Nobody}
  /\ stack \subseteq seen \cup {test} /\ seen \subseteq Name
  /\ owners \in [Name -> SUBSET Tests]
  /\ status \in {Nobody, 0, 1}
  /\ instance \in [Name -> Tests \cup {Nobody}]
  /\ ran \subseteq Tests
  /\ saw \in [Name -> SUBSET (Tests \cup {Nobody})]

OwnersInit ==
  /\ decls \in Sources
  /\ stage = "start" /\ todo = {} /\ test = Nobody /\ seen = {} /\ stack = {}
  /\ owners = [n \in Name |-> {}] /\ status = Nobody
  /\ instance = [n \in Name |-> Nobody]
  /\ ran = {} /\ saw = [n \in Name |-> {}]

session == <<instance, ran, saw>>

(* main(): no codeunit, or no SingleInstance one, refuses a verdict *)
Start ==
  /\ stage = "start"
  /\ IF Declared = {} \/ Singles = {}
     THEN stage' = "session" /\ status' = 1 /\ UNCHANGED todo
     ELSE stage' = "search" /\ todo' = Tests /\ UNCHANGED status
  /\ UNCHANGED <<decls, test, seen, stack, owners, session>>

(* reachable(t) begins *)
Search(t) ==
  /\ stage = "search" /\ stack = {}
  /\ test = Nobody /\ t \in todo
  /\ test' = t /\ todo' = todo \ {t}
  /\ seen' = {} /\ stack' = {t}
  /\ UNCHANGED <<decls, stage, owners, status, session>>

(* One name is popped; those it refers to and that are not seen yet go on *)
Visit(n) ==
  /\ n \in stack
  /\ seen' = seen \cup Refs(n)
  /\ stack' = (stack \ {n}) \cup (Refs(n) \ seen)
  /\ UNCHANGED <<decls, stage, todo, test, owners, status, session>>

(* Mutant: everything reached has owners, not only the singles *)
OwnAll ==
  /\ stage = "search" /\ test # Nobody /\ stack = {}
  /\ owners' = [n \in Name |-> IF n \in seen THEN owners[n] \cup {test} ELSE owners[n]]
  /\ test' = Nobody
  /\ UNCHANGED <<decls, stage, todo, seen, stack, status, session>>

(* The stack is empty: the test codeunit owns the singles it reaches *)
Own ==
  /\ stage = "search" /\ test # Nobody /\ stack = {}
  /\ owners' = [n \in Name |-> IF n \in seen \cap Singles THEN owners[n] \cup {test}
                               ELSE owners[n]]
  /\ test' = Nobody
  /\ UNCHANGED <<decls, stage, todo, seen, stack, status, session>>

(* Mutant: only the fixtures that a test codeunit names itself *)
VerdictDirect ==
  /\ stage = "search" /\ test = Nobody /\ todo = {}
  /\ stage' = "session"
  /\ status' = IF \E n \in Name : Cardinality({t \in owners[n] : n \in Refs(t)}) > 1
               THEN 1 ELSE 0
  /\ UNCHANGED <<decls, todo, test, seen, stack, owners, session>>

Verdict ==
  /\ stage = "search" /\ test = Nobody /\ todo = {}
  /\ stage' = "session"
  /\ status' = IF \E n \in Name : Cardinality(owners[n]) > 1 THEN 1 ELSE 0
  /\ UNCHANGED <<decls, todo, test, seen, stack, owners, session>>

(* The names that a path of references leads to: those in every set that has *)
(* the references of n and of all its members                                *)
Uses(n) ==
  LET closed == {C \in SUBSET Name : Refs(n) \subseteq C /\ \A o \in C : Refs(o) \subseteq C}
  IN  {m \in Name : \A C \in closed : m \in C}

(* Touched(t): the instances a run of t uses; its own when it is a single     *)
Touched(t) == Singles \cap (Uses(t) \cup {t})

(* A session runs a test codeunit: it finds the instances as the ones before *)
(* left them, and leaves its own state in them                               *)
RunTest(t) ==
  /\ stage = "session"
  /\ t \in Tests \ ran
  /\ ran' = ran \cup {t}
  /\ saw' = [saw EXCEPT ![t] = {instance[s] : s \in Touched(t)}]
  /\ instance' = [s \in Name |-> IF s \in Touched(t) THEN t ELSE instance[s]]
  /\ UNCHANGED <<decls, stage, todo, test, seen, stack, owners, status>>

OwnersNext ==
  \/ Start \/ Own \/ Verdict
  \/ \E n \in Name : Search(n) \/ Visit(n) \/ RunTest(n)

OwnersSpec == OwnersInit /\ [][OwnersNext]_ownersVars

-----------------------------------------------------------------------------
(* What the script takes for granted: a name is declared once, and no test   *)
(* codeunit is itself SingleInstance                                         *)
Usual ==
  /\ Len(decls) = Cardinality(Declared)
  /\ Tests \cap Singles = {}

(***************************************************************************)
(* After the check every order of the test codeunits measures the same: no *)
(* test codeunit finds an instance that another one touched (issue #261:   *)
(* the results depended on which of three ran first).                      *)
(***************************************************************************)
OrderIndependent ==
  status = 0 /\ Usual =>
    \A t \in ran : saw[t] \subseteq {Nobody}

(***************************************************************************)
(* The check cries wolf for no corpus: when it reports a shared fixture,   *)
(* every order of the test codeunits has one that finds another's state.   *)
(***************************************************************************)
SharedIsSeen ==
  status = 1 /\ Usual /\ Singles # {} /\ ran = Tests =>
    \E t \in Tests : saw[t] \ {Nobody} # {}

-----------------------------------------------------------------------------
(***************************************************************************)
(* Why these hold.  Searched: what was popped has its references in seen.  *)
(* Owned: the test codeunits that were searched own the singles they use.  *)
(* Settled: the exit status says whether a single has two owners.          *)
(***************************************************************************)
Searched ==
  /\ test = Nobody => stack = {}
  /\ test # Nobody =>
       /\ stage = "search" /\ test \notin todo
       /\ seen \subseteq Uses(test)
       /\ \A o \in (seen \cup {test}) \ stack : Refs(o) \subseteq seen

Owned ==
  \A n \in Name :
    owners[n] = IF stage = "start" THEN {}
                ELSE {t \in Tests \ (todo \cup {test}) : n \in Uses(t) \cap Singles}

Settled ==
  /\ stage # "session" => status = Nobody
  /\ stage = "session" /\ Singles # {} =>
       /\ todo = {} /\ test = Nobody
       /\ status = IF \E n \in Name : Cardinality(owners[n]) > 1 THEN 1 ELSE 0

(* The session: an instance is held by a test codeunit that ran and used it; *)
(* one that was used is held; what a test codeunit found was left by another *)
(* user of one of its instances; of two users one found something            *)
Held ==
  /\ \A s \in Name : instance[s] # Nobody => instance[s] \in ran /\ s \in Touched(instance[s])
  /\ \A t \in ran : \A s \in Touched(t) : instance[s] # Nobody

Met ==
  /\ \A t \in ran : \A u \in saw[t] \ {Nobody} :
       u \in ran \ {t} /\ Touched(t) \cap Touched(u) # {}
  /\ \A t, u \in ran :
       t # u /\ Touched(t) \cap Touched(u) # {} => (saw[t] \cup saw[u]) \ {Nobody} # {}

OwnersIInv == OwnersTypeOK /\ Searched /\ Owned /\ Settled /\ Held /\ Met
=============================================================================
