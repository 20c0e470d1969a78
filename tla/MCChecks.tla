------------------------------ MODULE MCChecks ------------------------------
(* Two scripts that share nothing: one that a developer runs over the cases,  *)
(* one that CI runs over the corpus.  In a behaviour one runs and the other   *)
(* does not start.                                                            *)
(*                                                                            *)
(* Must-not-compile: texts by their letters; headers of up to three           *)
(* expectations, in the order longest first and not, with the same one twice, *)
(* with an expectation below the first line of code; cases for other          *)
(* versions, at the bounds, unusable; an empty folder.                        *)
(*                                                                            *)
(* SingleInstance owners: two or three test codeunits, helpers, singles,      *)
(* references along cycles and to a name that is not declared; a name         *)
(* declared twice; a test codeunit that is a single; no single; nothing.      *)
EXTENDS MustNotCompile, SingleInstance

Letters == [t \in {"", "a", "ab", "b"} |->
  CASE t = "" -> <<>> [] t = "a" -> <<1>> [] t = "ab" -> <<1, 2>> [] t = "b" -> <<2>>]
MCBegins == {p \in (DOMAIN Letters) \X (DOMAIN Letters) : IsPrefix(Letters[p[1]], Letters[p[2]])}

Line(key, val) == [key |-> key, val |-> val]
E(text) == Line("expect", <<1, text>>)
E2 == Line("expect", <<2, "">>)
File(lines) == lines \o <<Line("code", None), E("b")>>
MCLists ==
  { <<>>,
    <<File(<<E("a")>>), File(<<E(""), E("a")>>)>>,
    <<File(<<E("ab"), E("a"), E("")>>)>>,
    <<File(<<E("a"), E("a"), E2>>), File(<<E("a"), Line("until", 26)>>)>>,
    <<File(<<E("ab"), Line("from", 28), Line("from", 27)>>), File(<<E2, Line("until", 27)>>)>>,
    <<File(<<Line("min-al", 20), E2>>), File(<<Line("max-al", 16), E2>>), File(<<>>)>>,
    <<File(<<E2>>), File(<<E2, Line("depends", Bad)>>), File(<<Line("appjson", Bad)>>)>>,
    <<File(<<Line("from", 28), E2>>)>> }

Kind(n, refs) ==
  [name |-> n, test |-> n \in {"T1", "T2"}, single |-> n \in {"S1", "S2"}, refs |-> refs]

MCSources ==
  {<<Kind("T1", a), Kind("T2", b), Kind("H", c), Kind("S1", d), Kind("S2", {})>> :
     a \in SUBSET {"H", "S1", "S2"}, b \in SUBSET {"H", "S1"},
     c \in {{}, {"S1"}, {"S2", "gone"}, {"H", "S2"}}, d \in {{}, {"S2"}, {"H", "T1"}}}
  \cup
  { <<>>, <<Kind("T1", {"H"})>>,
    <<Kind("T1", {"S1"}), Kind("S1", {"S2"}), [Kind("S1", {}) EXCEPT !.single = FALSE],
      Kind("T2", {"S1"}), Kind("S2", {})>>,
    <<[Kind("T1", {}) EXCEPT !.single = TRUE], Kind("T2", {"T1"}), Kind("S1", {})>> }

(* A script that is not run stays where it starts, with no input to speak of *)
NoCases == cases = <<>> /\ step = "header"
NoCorpus == decls = <<>> /\ stage = "start"

ChecksInit ==
  /\ Init /\ OwnersInit
  /\ NoCases \/ NoCorpus

CompileCheck == NoCorpus /\ Next /\ UNCHANGED ownersVars
OwnersCheck == NoCases /\ OwnersNext /\ UNCHANGED vars

ChecksSpec == ChecksInit /\ [][CompileCheck \/ OwnersCheck]_<<vars, ownersVars>>
=============================================================================
