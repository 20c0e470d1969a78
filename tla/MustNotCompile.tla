--------------------------- MODULE MustNotCompile ---------------------------
(***************************************************************************)
(* check-must-not-compile.py: every case file is compiled and must be      *)
(* rejected with exactly the diagnostics its header records.  The compiler *)
(* is not under the repository's control: it answers with any diagnostics  *)
(* in any order, and may accept the file.                                  *)
(***************************************************************************)
EXTENDS Integers, SequencesExt

CONSTANTS
  Lists,     \* the lists of case files to consider; a file is a sequence of
             \* lines [key, val]; key is "code" from the first line of AL on
  Code,      \* diagnostic codes
  Text,      \* diagnostic texts, "" included
  Begins,    \* <<t, u>>: t is the start of u, or all of it
  MaxFound,  \* bound: diagnostics of one compilation
  BcMajor,   \* --bc-major
  AlMajor,   \* --al-major, None when not given
  None,
  Bad        \* an @appjson that is no JSON, a @depends on an unknown app

Diagnostic == Code \X Text

ASSUME BeginsType ==
  /\ Begins \subseteq Text \X Text
  /\ \A t \in Text : <<t, t>> \in Begins
(* A start of a start; two starts of one text: one is the start of the other *)
ASSUME BeginsTransitive ==
  \A t, u, v \in Text : <<t, u>> \in Begins /\ <<u, v>> \in Begins => <<t, v>> \in Begins
ASSUME BeginsTree ==
  \A t, u, v \in Text :
    <<t, v>> \in Begins /\ <<u, v>> \in Begins => <<t, u>> \in Begins \/ <<u, t>> \in Begins
ASSUME VersionsType == BcMajor \in Nat /\ AlMajor \in Nat \cup {None} /\ MaxFound \in Nat

(* parse_header: the lines above the first that is neither blank nor a       *)
(* comment; of a repeated key the last counts, of @expect all                *)
Header(file) ==
  LET code == SelectInSeq(file, LAMBDA l : l.key = "code")
  IN  IF code = 0 THEN file ELSE SubSeq(file, 1, code - 1)

Value(file, key) ==
  LET lines == SelectSeq(Header(file), LAMBDA l : l.key = key)
  IN  IF lines = <<>> THEN None ELSE lines[Len(lines)].val

Parses(file) == \A l \in ToSet(Header(file)) : l.key = "appjson" => l.val # Bad

Expect(file) ==
  LET lines == SelectSeq(Header(file), LAMBDA l : l.key = "expect")
  IN  [i \in 1..Len(lines) |-> lines[i].val]

ASSUME ListsType ==
  \A l \in Lists :
    /\ Len(l) \in Nat
    /\ \A c \in 1..Len(l) :
         /\ Expect(l[c]) \in Seq(Diagnostic)
         /\ \A key \in {"from", "until", "min-al", "max-al"} : Value(l[c], key) \in Nat \cup {None}

(* Mutant: the last version is out *)
AppliesBefore(file) ==
  /\ Value(file, "from") # None => BcMajor >= Value(file, "from")
  /\ Value(file, "until") # None => BcMajor < Value(file, "until")
  /\ AlMajor # None /\ Value(file, "min-al") # None => AlMajor >= Value(file, "min-al")
  /\ AlMajor # None /\ Value(file, "max-al") # None => AlMajor <= Value(file, "max-al")

Applies(file) ==
  /\ Value(file, "from") # None => BcMajor >= Value(file, "from")
  /\ Value(file, "until") # None => BcMajor <= Value(file, "until")
  /\ AlMajor # None /\ Value(file, "min-al") # None => AlMajor >= Value(file, "min-al")
  /\ AlMajor # None /\ Value(file, "max-al") # None => AlMajor <= Value(file, "max-al")

VARIABLES
  cases,     \* the case files, in the order they are checked; fixed
  case,      \* the one being checked
  step,      \* "header", "match", "judged", "over"
  found,     \* what the compiler reported for it
  accepted,  \* did it return 0 or leave an app?
  taken,     \* expectation -> the diagnostic it was matched with, 0 for none;
             \* got are the diagnostics not taken
  verdict,   \* case -> "none", "ok", "fail", "skip"
  exit       \* "none", "0", "1", "raised"

vars == <<cases, case, step, found, accepted, taken, verdict, exit>>

Expected == Expect(cases[case])

TypeOK ==
  /\ cases \in Lists
  /\ case \in 1..Len(cases) + 1
  /\ step \in {"header", "match", "judged", "over"}
  /\ step \in {"match", "judged"} => case <= Len(cases)
  /\ found \in Seq(Diagnostic) /\ accepted \in BOOLEAN
  /\ taken \in Seq(0..Len(found))
  /\ step \in {"match", "judged"} => Len(taken) <= Len(Expected)
  /\ verdict \in [1..Len(cases) -> {"none", "ok", "fail", "skip"}]
  /\ exit \in {"none", "0", "1", "raised"}

Init ==
  /\ cases \in Lists
  /\ case = 1 /\ step = "header"
  /\ found = <<>> /\ accepted = FALSE /\ taken = <<>>
  /\ verdict = [c \in 1..Len(cases) |-> "none"]
  /\ exit = "none"

-----------------------------------------------------------------------------
Open == step = "header" /\ case <= Len(cases)

(* No @expect line, or not for this version: on to the next case *)
PassBy ==
  /\ Open
  /\ Parses(cases[case])
  /\ Expected = <<>> \/ ~Applies(cases[case])
  /\ verdict' = [verdict EXCEPT ![case] = IF Expected = <<>> THEN "fail" ELSE "skip"]
  /\ case' = case + 1
  /\ UNCHANGED <<cases, step, found, accepted, taken, exit>>

(* json.loads of the header, or the dependencies of the app, raise: the run  *)
(* ends, with no word on the cases after this one                            *)
Raise ==
  /\ Open
  /\ \/ ~Parses(cases[case])
     \/ Expected # <<>> /\ Applies(cases[case]) /\ Value(cases[case], "depends") = Bad
  /\ step' = "over" /\ exit' = "raised"
  /\ UNCHANGED <<cases, case, found, accepted, taken, verdict>>

Usable(file) == Parses(file) /\ Value(file, "depends") # Bad

(* run_case and parse_diagnostics *)
Compile ==
  /\ Open
  /\ Expected # <<>> /\ Applies(cases[case]) /\ Usable(cases[case])
  /\ step' = "match"
  /\ found' \in UNION {[1..n -> Diagnostic] : n \in 0..MaxFound}
  /\ \E returned0, built \in BOOLEAN : accepted' = (returned0 \/ built)
  /\ taken' = <<>>
  /\ UNCHANGED <<cases, case, verdict, exit>>

Hit(e, g) == e[1] = g[1] /\ <<e[2], g[2]>> \in Begins

Matches(hits) ==
  /\ step = "match"
  /\ Len(taken) < Len(Expected)
  /\ taken' = Append(taken, IF hits = {} THEN 0 ELSE CHOOSE h \in hits : \A k \in hits : h <= k)
  /\ UNCHANGED <<cases, case, step, found, accepted, verdict, exit>>

Current == Expected[Len(taken) + 1]

(* Mutants of Match: a diagnostic stays in got; the text has to be equal *)
MatchAgain == Matches({g \in DOMAIN found : Hit(Current, found[g])})

MatchExactly == Matches({g \in DOMAIN found \ Range(taken) : Current = found[g]})

(* check(): the first diagnostic left that has the code and begins with the text *)
Match == Matches({g \in DOMAIN found \ Range(taken) : Hit(Current, found[g])})

Judge ==
  /\ step = "match"
  /\ Len(taken) = Len(Expected)
  /\ verdict' = [verdict EXCEPT ![case] =
       IF 0 \in Range(taken) \/ DOMAIN found \ Range(taken) # {} \/ accepted THEN "fail" ELSE "ok"]
  /\ step' = "judged"
  /\ UNCHANGED <<cases, case, found, accepted, taken, exit>>

NextCase ==
  /\ step = "judged"
  /\ step' = "header" /\ case' = case + 1
  /\ UNCHANGED <<cases, found, accepted, taken, verdict, exit>>

Exit ==
  /\ step = "header"
  /\ case > Len(cases)
  /\ step' = "over"
  /\ exit' = IF \E c \in DOMAIN verdict : verdict[c] = "fail" THEN "1" ELSE "0"
  /\ UNCHANGED <<cases, case, found, accepted, taken, verdict>>

Next == PassBy \/ Raise \/ Compile \/ Match \/ Judge \/ NextCase \/ Exit

Spec == Init /\ [][Next]_vars

-----------------------------------------------------------------------------
(* m pairs every expectation with a diagnostic of its own, and none is left *)
Pairing(m) ==
  /\ DOMAIN m = DOMAIN Expected
  /\ \A i \in DOMAIN m : m[i] \in DOMAIN found /\ Hit(Expected[i], found[m[i]])
  /\ \A i, j \in DOMAIN m : m[i] = m[j] => i = j
  /\ \A g \in DOMAIN found : \E i \in DOMAIN m : m[i] = g

(***************************************************************************)
(* A case passes only when the compiler refused it and its diagnostics are *)
(* the recorded ones as a multiset (the docstring of check()): one that is *)
(* reported once cannot stand for two, and none goes unrecorded.           *)
(***************************************************************************)
OkIsExact ==
  step = "judged" /\ verdict[case] = "ok" => ~accepted /\ Pairing(taken)

(* No expectation begins with the text of an earlier one of its code *)
Ordered ==
  \A i, j \in DOMAIN Expected :
    i < j /\ Hit(Expected[i], Expected[j]) => Expected[i] = Expected[j]

(***************************************************************************)
(* Greedy is enough, whatever the order of the diagnostics, for a header   *)
(* that records the longer text first: a refused file fails only when no   *)
(* pairing exists.  Without that order it may fail although one does.      *)
(***************************************************************************)
NoFalseAlarm ==
  step = "judged" /\ verdict[case] = "fail" /\ ~accepted /\ Ordered =>
    ~\E m \in [DOMAIN Expected -> DOMAIN found] : Pairing(m)

(***************************************************************************)
(* Exit status 0 is about every case of the folder: each that is for this  *)
(* compiler passed, and each says what it expects.                         *)
(***************************************************************************)
For(file) ==
  LET in(v, low, high) == (low = None \/ low <= v) /\ (high = None \/ v <= high)
  IN  /\ in(BcMajor, Value(file, "from"), Value(file, "until"))
      /\ AlMajor = None \/ in(AlMajor, Value(file, "min-al"), Value(file, "max-al"))

ExitZeroMeansAll ==
  exit = "0" =>
    \A c \in 1..Len(cases) : /\ verdict[c] = "ok" \/ ~For(cases[c])
                             /\ Expect(cases[c]) # <<>>

(***************************************************************************)
(* Why these hold.  What is taken so far is a matching; for a header in    *)
(* order, it is the beginning of a pairing when there is one at all; and   *)
(* every case before the current one has the verdict that it deserves.     *)
(***************************************************************************)
Matching ==
  step \in {"match", "judged"} =>
    \A i \in DOMAIN taken :
      taken[i] # 0 =>
        /\ Hit(Expected[i], found[taken[i]])
        /\ \A j \in DOMAIN taken : taken[i] = taken[j] => i = j

(* m is a pairing and begins with what is taken *)
Extends(m) == Pairing(m) /\ \A i \in DOMAIN taken : taken[i] = m[i]

Extendable ==
  step \in {"match", "judged"} /\ Ordered =>
    \A m \in [DOMAIN Expected -> DOMAIN found] :
      Pairing(m) => \E n \in [DOMAIN Expected -> DOMAIN found] : Extends(n)

Judged ==
  step = "judged" =>
    /\ Len(taken) = Len(Expected)
    /\ verdict[case] \in {"ok", "fail"}
    /\ verdict[case] = "ok" <=>
         0 \notin Range(taken) /\ DOMAIN found \subseteq Range(taken) /\ ~accepted

(* A verdict that does not fail the run: passed, or passed by for its version *)
Deserved(c) ==
  \/ verdict[c] = "fail"
  \/ Expect(cases[c]) # <<>> /\ (verdict[c] = "ok" \/ (verdict[c] = "skip" /\ ~Applies(cases[c])))

Progress ==
  /\ \A c \in 1..Len(cases) : c < case \/ (step = "judged" /\ c = case) => Deserved(c)
  /\ step \in {"match", "judged"} => Expected # <<>>
  /\ exit = "0" => case > Len(cases) /\ \A c \in 1..Len(cases) : verdict[c] # "fail"

IInv == TypeOK /\ Matching /\ Extendable /\ Judged /\ Progress
=============================================================================
