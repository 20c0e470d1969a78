----------------------------- MODULE CheckProofs -----------------------------
(***************************************************************************)
(* Proofs about the two checks of the corpus.  MustNotCompile, for every   *)
(* list of cases and every compiler: the matching that check() builds is   *)
(* one, so a case that passes was refused with exactly the diagnostics of  *)
(* its header, and no other matching would have been better.               *)
(* SingleInstance, for every corpus: the search finds what a test codeunit *)
(* uses, so the check answers for every session.                           *)
(***************************************************************************)
EXTENDS MustNotCompile, SingleInstance,
        FiniteSetTheorems, WellFoundedInduction, TLAPS

-----------------------------------------------------------------------------
(* The must-not-compile check (MustNotCompile)                               *)

(* The expectations of the case being checked *)
LEMMA ExpectedType ==
  ASSUME TypeOK, case <= Len(cases)
  PROVE  /\ Len(cases) \in Nat /\ case \in 1..Len(cases)
         /\ Expected \in Seq(Diagnostic) /\ Len(Expected) \in Nat
         /\ DOMAIN Expected = 1..Len(Expected)
  <1>1. Len(cases) \in Nat /\ case \in 1..Len(cases)
    BY ListsType DEF TypeOK
  <1>2. Expected \in Seq(Diagnostic)
    BY <1>1, ListsType DEF TypeOK, Expected
  <1>. QED  BY <1>1, <1>2

LEMMA InitTypes == Init => TypeOK
  <1>. SUFFICES ASSUME Init PROVE TypeOK
    OBVIOUS
  <1>1. cases \in Lists /\ Len(cases) \in Nat
    BY ListsType DEF Init
  <1>2. found \in Seq(Diagnostic) /\ taken \in Seq(0..Len(found))
    BY DEF Init
  <1>3. case \in 1..Len(cases) + 1
    BY <1>1 DEF Init
  <1>. QED  BY <1>1, <1>2, <1>3 DEF Init, TypeOK

(* A set of naturals that is not empty has a least member. *)
LEMMA LeastHit ==
  ASSUME NEW hits \in SUBSET Nat, hits # {}
  PROVE  \E h \in hits : \A k \in hits : h <= k
  <1>1. PICK x \in hits : \A y \in hits : ~(<<y, x>> \in OpToRel(<, Nat))
    BY NatLessThanWellFounded, WFMin
  <1>2. ASSUME NEW y \in hits PROVE x <= y
    <2>1. x \in Nat /\ y \in Nat /\ <<y, x>> \in Nat \X Nat
      OBVIOUS
    <2>2. y < x => <<y, x>> \in OpToRel(<, Nat)
      BY <2>1 DEF OpToRel
    <2>3. ~(<<y, x>> \in OpToRel(<, Nat))
      BY <1>1
    <2>4. ~(y < x)
      BY <2>2, <2>3, Zenon
    <2>. QED  BY <2>1, <2>4
  <1>. QED  BY <1>2

Hits == {g \in DOMAIN found \ Range(taken) : Hit(Current, found[g])}

(***************************************************************************)
(* One more expectation was looked up: the sequence taken grows by an      *)
(* index of found that was not taken and is a hit, or by 0.                *)
(***************************************************************************)
LEMMA MatchStep ==
  ASSUME TypeOK, Match
  PROVE  /\ \E h \in Hits \cup {0} :
              taken' = Append(taken, h) /\ (Hits # {} => h \in Hits)
         /\ Hits \subseteq 1..Len(found) /\ Len(found) \in Nat
  <1> DEFINE Least(h) == \A k \in Hits : h <= k
  <1>1. Hits \subseteq 1..Len(found) /\ Len(found) \in Nat
    BY DEF TypeOK, Hits
  <1>2. taken' = Append(taken, IF Hits = {} THEN 0 ELSE CHOOSE h \in Hits : Least(h))
    BY DEF Match, Matches, Hits
  <1>3. CASE Hits = {}
    BY <1>1, <1>2, <1>3
  <1>4. CASE Hits # {}
    <2>1. \E h \in Hits : Least(h)
      <3>1. Hits \in SUBSET Nat
        BY <1>1
      <3>. HIDE DEF Hits
      <3>. QED  BY <3>1, <1>4, LeastHit
    <2>2. (CHOOSE h \in Hits : Least(h)) \in Hits
      BY <2>1
    <2>. QED  BY <1>1, <1>2, <1>4, <2>2
  <1>. QED  BY <1>3, <1>4

(* Every action keeps the types. *)
LEMMA TypeStep == TypeOK /\ [Next]_vars => TypeOK'
  <1>. SUFFICES ASSUME TypeOK, [Next]_vars PROVE TypeOK'
    OBVIOUS
  <1>0. Len(cases) \in Nat
    BY ListsType DEF TypeOK
  <1>1. CASE PassBy
    BY <1>0, <1>1 DEF TypeOK, PassBy, Open
  <1>2. CASE Raise
    BY <1>0, <1>2 DEF TypeOK, Raise, Open
  <1>3. CASE Compile
    <2>1. found' \in Seq(Diagnostic) /\ Len(found') \in Nat
      <3>1. PICK n \in 0..MaxFound : found' \in [1..n -> Diagnostic]
        BY <1>3 DEF Compile
      <3>. QED  BY <3>1, VersionsType
    <2>2. accepted' \in BOOLEAN /\ taken' = <<>> /\ UNCHANGED <<cases, case, verdict, exit>>
      BY <1>3 DEF Compile
    <2>3. Expected' \in Seq(Diagnostic) /\ case <= Len(cases) /\ step' = "match"
      BY <1>3, <2>2, ExpectedType DEF Compile, Open, Expected
    <2>4. taken' \in Seq(0..Len(found')) /\ Len(taken') <= Len(Expected')
      BY <2>1, <2>2, <2>3
    <2>. QED  BY <2>1, <2>2, <2>3, <2>4 DEF TypeOK
  <1>4. CASE Match
    <2>1. PICK h \in Hits \cup {0} : taken' = Append(taken, h)
      BY <1>4, MatchStep
    <2>2. Hits \subseteq 1..Len(found) /\ Len(found) \in Nat
      BY <1>4, MatchStep
    <2>3. step = "match" /\ Len(taken) < Len(Expected)
          /\ UNCHANGED <<cases, case, step, found, accepted, verdict, exit>>
      BY <1>4 DEF Match, Matches
    <2>4. Expected' = Expected /\ Len(Expected) \in Nat
      BY <2>3, ExpectedType DEF Expected, TypeOK
    <2>5. h \in 0..Len(found)
      BY <2>1, <2>2
    <2>6. taken' \in Seq(0..Len(found')) /\ Len(taken') <= Len(Expected')
      BY <2>1, <2>3, <2>4, <2>5 DEF TypeOK
    <2>. QED  BY <2>3, <2>6 DEF TypeOK
  <1>5. CASE Judge
    BY <1>0, <1>5 DEF TypeOK, Judge, Expected
  <1>6. CASE NextCase
    BY <1>0, <1>6 DEF TypeOK, NextCase
  <1>7. CASE Exit
    BY <1>0, <1>7 DEF TypeOK, Exit
  <1>8. CASE UNCHANGED vars
    BY <1>8 DEF TypeOK, vars, Expected
  <1>. QED  BY <1>1, <1>2, <1>3, <1>4, <1>5, <1>6, <1>7, <1>8 DEF Next

(***************************************************************************)
(* The state of the check keeps its types, for every list of cases.        *)
(***************************************************************************)
THEOREM TypeCorrect == Spec => []TypeOK
  BY InitTypes, TypeStep, PTL DEF Spec

(***************************************************************************)
(* The one action that lengthens the matching keeps it one: what it adds   *)
(* is a hit, and was not taken.                                            *)
(***************************************************************************)
LEMMA MatchKeepsMatching ==
  ASSUME IInv, Match
  PROVE  Matching'
  <1>0. TypeOK /\ Matching
    BY DEF IInv
  <1>1. PICK h \in Hits \cup {0} : taken' = Append(taken, h)
    BY <1>0, MatchStep
  <1>2. /\ step = "match" /\ Len(taken) < Len(Expected)
        /\ UNCHANGED <<cases, case, step, found, accepted, verdict, exit>>
    BY DEF Match, Matches
  <1>3. /\ taken \in Seq(0..Len(found)) /\ Len(taken) \in Nat /\ DOMAIN taken = 1..Len(taken)
        /\ Expected' = Expected /\ found' = found
    BY <1>0, <1>2 DEF TypeOK, Expected
  <1>4. /\ DOMAIN taken' = 1..Len(taken) + 1
        /\ taken'[Len(taken) + 1] = h
        /\ \A i \in 1..Len(taken) : taken'[i] = taken[i]
    <2>1. Hits \subseteq 1..Len(found) /\ Len(found) \in Nat
      BY <1>0, MatchStep
    <2>2. h \in 0..Len(found)
      BY <2>1
    <2>. QED  BY <1>1, <1>3, <2>2
  <1>5. h # 0 => /\ Hit(Expected[Len(taken) + 1], found[h])
                 /\ \A j \in 1..Len(taken) : taken[j] # h
    <2>. SUFFICES ASSUME h # 0
                  PROVE  Hit(Expected[Len(taken) + 1], found[h]) /\ \A j \in 1..Len(taken) : taken[j] # h
      OBVIOUS
    <2>1. h \in DOMAIN found \ Range(taken) /\ Hit(Current, found[h])
      BY DEF Hits
    <2>. QED  BY <2>1, <1>3 DEF Current, Range
  <1>6. ASSUME NEW i \in DOMAIN taken', taken'[i] # 0
        PROVE  /\ Hit(Expected[i], found[taken'[i]])
               /\ \A j \in DOMAIN taken' : taken'[i] = taken'[j] => i = j
    <2>1. CASE i = Len(taken) + 1
      <3>1. taken'[i] = h /\ h # 0
        BY <2>1, <1>4, <1>6
      <3>2. ASSUME NEW j \in DOMAIN taken', taken'[i] = taken'[j] PROVE i = j
        <4>1. j \in 1..Len(taken) => taken[j] = h
          BY <1>4, <3>1, <3>2
        <4>2. j \notin 1..Len(taken)
          BY <4>1, <3>1, <1>5
        <4>. QED  BY <4>2, <2>1, <1>4, <1>3
      <3>. QED  BY <3>1, <3>2, <2>1, <1>5
    <2>2. CASE i \in 1..Len(taken)
      <3>1. taken'[i] = taken[i] /\ taken[i] # 0
        BY <2>2, <1>4, <1>6
      <3>2. Hit(Expected[i], found[taken[i]]) /\ \A j \in 1..Len(taken) : taken[i] = taken[j] => i = j
        BY <3>1, <2>2, <1>0, <1>2, <1>3 DEF Matching
      <3>3. ASSUME NEW j \in DOMAIN taken', taken'[i] = taken'[j] PROVE i = j
        <4>1. CASE j \in 1..Len(taken)
          BY <4>1, <3>1, <3>2, <3>3, <1>4
        <4>2. CASE j = Len(taken) + 1
          BY <4>2, <3>1, <3>3, <2>2, <1>4, <1>5
        <4>. QED  BY <4>1, <4>2, <1>4, <1>3
      <3>. QED  BY <3>1, <3>2, <3>3
    <2>. QED  BY <2>1, <2>2, <1>4, <1>3
  <1>. QED  BY <1>3, <1>6 DEF Matching, Hit

(* What Match does, with its guard *)
LEMMA MatchFacts ==
  ASSUME TypeOK, Match
  PROVE  /\ taken \in Seq(0..Len(found)) /\ Len(taken) \in Nat /\ DOMAIN taken = 1..Len(taken)
         /\ DOMAIN found = 1..Len(found) /\ Len(found) \in Nat
         /\ step = "match" /\ Len(taken) < Len(Expected) /\ case <= Len(cases)
         /\ UNCHANGED <<cases, case, step, found, accepted, verdict, exit>>
         /\ Expected' = Expected
         /\ \E h \in Hits \cup {0} :
              /\ Hits # {} => h \in Hits
              /\ DOMAIN taken' = 1..Len(taken) + 1
              /\ taken'[Len(taken) + 1] = h
              /\ \A i \in 1..Len(taken) : taken'[i] = taken[i]
  <1>1. /\ step = "match" /\ Len(taken) < Len(Expected)
        /\ UNCHANGED <<cases, case, step, found, accepted, verdict, exit>>
    BY DEF Match, Matches
  <1>2. /\ taken \in Seq(0..Len(found)) /\ Len(taken) \in Nat /\ DOMAIN taken = 1..Len(taken)
        /\ DOMAIN found = 1..Len(found) /\ Len(found) \in Nat
        /\ case <= Len(cases) /\ Expected' = Expected
    BY <1>1 DEF TypeOK, Expected
  <1>3. PICK h \in Hits \cup {0} : taken' = Append(taken, h) /\ (Hits # {} => h \in Hits)
    BY MatchStep
  <1>4. h \in 0..Len(found)
    <2>1. Hits \subseteq 1..Len(found)
      BY MatchStep
    <2>. QED  BY <2>1, <1>2
  <1>5. /\ DOMAIN taken' = 1..Len(taken) + 1
        /\ taken'[Len(taken) + 1] = h
        /\ \A i \in 1..Len(taken) : taken'[i] = taken[i]
    BY <1>2, <1>3, <1>4
  <1>. QED  BY <1>1, <1>2, <1>3, <1>5

(* Swapping two values of a bijection leaves a bijection. *)
LEMMA Swap ==
  ASSUME NEW D, NEW R, NEW n \in [D -> R], NEW k \in D, NEW j \in D, k # j,
         \A x, y \in D : n[x] = n[y] => x = y,
         \A r \in R : \E x \in D : n[x] = r,
         NEW p, p = [x \in D |-> IF x = k THEN n[j] ELSE IF x = j THEN n[k] ELSE n[x]]
  PROVE  /\ p \in [D -> R]
         /\ \A x, y \in D : p[x] = p[y] => x = y
         /\ \A r \in R : \E x \in D : p[x] = r
  <1>1. p \in [D -> R]
    OBVIOUS
  <1>2. \A x, y \in D : p[x] = p[y] => x = y
    OBVIOUS
  <1>3. ASSUME NEW r \in R PROVE \E x \in D : p[x] = r
    <2>1. PICK x \in D : n[x] = r
      OBVIOUS
    <2>2. CASE x = k
      <3>1. p[j] = r
        BY <2>1, <2>2
      <3>. QED  BY <3>1
    <2>3. CASE x = j
      <3>1. p[k] = r
        BY <2>1, <2>3
      <3>. QED  BY <3>1
    <2>4. CASE x # k /\ x # j
      <3>1. p[x] = r
        BY <2>1, <2>4
      <3>. QED  BY <3>1
    <2>. QED  BY <2>2, <2>3, <2>4
  <1>. QED  BY <1>1, <1>2, <1>3

(***************************************************************************)
(* In a header that is in order, an earlier and a later expectation that   *)
(* both fit one diagnostic: what fits the earlier one fits the later.      *)
(***************************************************************************)
LEMMA Interchangeable ==
  ASSUME NEW d \in Diagnostic, NEW e \in Diagnostic, NEW f \in Diagnostic, NEW g \in Diagnostic,
         Hit(d, f), Hit(e, f), Hit(d, g), Hit(d, e) => d = e
  PROVE  Hit(e, g)
  <1>1. /\ d[1] = f[1] /\ e[1] = f[1] /\ d[1] = g[1]
        /\ <<d[2], f[2]>> \in Begins /\ <<e[2], f[2]>> \in Begins /\ <<d[2], g[2]>> \in Begins
    BY DEF Hit
  <1>2. d[2] \in Text /\ e[2] \in Text /\ f[2] \in Text /\ g[2] \in Text
    BY DEF Diagnostic
  <1>3. <<d[2], e[2]>> \in Begins \/ <<e[2], d[2]>> \in Begins
    BY <1>1, <1>2, BeginsTree
  <1>4. CASE <<d[2], e[2]>> \in Begins
    <2>1. d = e
      BY <1>1, <1>4 DEF Hit
    <2>. QED  BY <2>1
  <1>5. CASE <<e[2], d[2]>> \in Begins
    <2>1. <<e[2], g[2]>> \in Begins
      BY <1>1, <1>2, <1>5, BeginsTransitive
    <2>. QED  BY <1>1, <2>1 DEF Hit
  <1>. QED  BY <1>3, <1>4, <1>5

(***************************************************************************)
(* The exchange: when what is taken begins a pairing, it does with the     *)
(* greedy choice added, because the expectation that had the diagnostic    *)
(* in the pairing can take the other one.                                  *)
(***************************************************************************)
LEMMA MatchKeepsExtendable ==
  ASSUME IInv, Match
  PROVE  Extendable'
  <1>0. TypeOK /\ Extendable
    BY DEF IInv
  <1>1. /\ taken \in Seq(0..Len(found)) /\ Len(taken) \in Nat /\ DOMAIN taken = 1..Len(taken)
        /\ DOMAIN found = 1..Len(found) /\ Len(found) \in Nat
        /\ step = "match" /\ Len(taken) < Len(Expected) /\ case <= Len(cases)
        /\ found' = found /\ Expected' = Expected
    BY <1>0, MatchFacts
  <1>2. PICK h \in Hits \cup {0} :
          /\ Hits # {} => h \in Hits
          /\ DOMAIN taken' = 1..Len(taken) + 1
          /\ taken'[Len(taken) + 1] = h
          /\ \A i \in 1..Len(taken) : taken'[i] = taken[i]
    BY <1>0, MatchFacts
  <1>3. /\ Expected \in Seq(Diagnostic) /\ Len(Expected) \in Nat /\ DOMAIN Expected = 1..Len(Expected)
        /\ \A g \in DOMAIN found : found[g] \in Diagnostic
        /\ \A i \in DOMAIN Expected : Expected[i] \in Diagnostic
    BY <1>0, <1>1, ExpectedType DEF TypeOK
  <1>. DEFINE k == Len(taken) + 1
              D == DOMAIN Expected
              R == DOMAIN found
  <1>4. k \in D /\ k \notin DOMAIN taken /\ \A i \in DOMAIN taken : i \in D /\ i # k
    BY <1>1, <1>3
  <1>13. \A i \in DOMAIN taken' : i = k \/ (i \in DOMAIN taken /\ taken'[i] = taken[i])
    BY <1>1, <1>2
  <1>14. /\ Ordered' = Ordered
         /\ \A n : Pairing(n)' = Pairing(n)
    BY <1>1 DEF Ordered, Pairing, Hit
  <1>. SUFFICES ASSUME Ordered, NEW m \in [D -> R], Pairing(m)
                PROVE  \E n \in [D -> R] :
                         Pairing(n) /\ \A i \in DOMAIN taken' : taken'[i] = n[i]
    BY <1>1, <1>14 DEF Extendable, Extends
  <1>5. PICK n \in [D -> R] : Extends(n)
    BY <1>0, <1>1 DEF Extendable
  <1>6. /\ \A i \in D : n[i] \in R /\ Hit(Expected[i], found[n[i]])
        /\ \A x, y \in D : n[x] = n[y] => x = y
        /\ \A r \in R : \E x \in D : n[x] = r
        /\ \A i \in DOMAIN taken : taken[i] = n[i]
    BY <1>5 DEF Extends, Pairing
  <1>. HIDE DEF k
  <1>7. n[k] \in Hits
    <2>1. n[k] \notin Range(taken)
      BY <1>4, <1>6 DEF Range
    <2>2. Expected[k] = Current
      BY DEF Current, k
    <2>. QED  BY <1>4, <1>6, <2>1, <2>2 DEF Hits
  <1>8. /\ h \in R /\ h \notin Range(taken) /\ Hit(Expected[k], found[h])
    <2>1. h \in Hits
      BY <1>2, <1>7
    <2>. QED  BY <2>1 DEF Hits, Current, k
  <1>9. PICK j \in D : n[j] = h
    BY <1>6, <1>8
  <1>10. j \notin DOMAIN taken
    BY <1>6, <1>8, <1>9 DEF Range
  <1>11. CASE j = k
    <2>1. \A i \in DOMAIN taken' : taken'[i] = n[i]
      <3>1. taken'[k] = n[k]
        BY <1>2, <1>9, <1>11 DEF k
      <3>. QED  BY <3>1, <1>6, <1>13
    <2>. QED  BY <2>1, <1>5 DEF Extends
  <1>12. CASE j # k
    <2>. DEFINE p == [x \in D |-> IF x = k THEN n[j] ELSE IF x = j THEN n[k] ELSE n[x]]
    <2>1. /\ p \in [D -> R]
          /\ \A x, y \in D : p[x] = p[y] => x = y
          /\ \A r \in R : \E x \in D : p[x] = r
      <3>. HIDE DEF D, R
      <3>. QED  BY <1>4, <1>6, <1>12, Swap
    <2>2. Hit(Expected[j], found[n[k]])
      <3>1. k < j
        BY <1>1, <1>3, <1>10, <1>12 DEF k
      <3>2. Hit(Expected[k], Expected[j]) => Expected[k] = Expected[j]
        BY <1>4, <3>1 DEF Ordered
      <3>3. Hit(Expected[j], found[h]) /\ Hit(Expected[k], found[n[k]])
        BY <1>4, <1>6, <1>9
      <3>4. /\ Expected[k] \in Diagnostic /\ Expected[j] \in Diagnostic
            /\ found[h] \in Diagnostic /\ found[n[k]] \in Diagnostic
        BY <1>3, <1>4, <1>6, <1>8
      <3>. QED  BY <1>8, <3>2, <3>3, <3>4, Interchangeable
    <2>3. \A i \in D : p[i] \in R /\ Hit(Expected[i], found[p[i]])
      BY <1>4, <1>6, <1>8, <1>9, <2>2
    <2>4. \A i \in DOMAIN taken' : taken'[i] = p[i]
      <3>1. taken'[k] = p[k]
        BY <1>2, <1>4, <1>9 DEF k
      <3>2. \A i \in DOMAIN taken : taken[i] = p[i]
        BY <1>4, <1>6, <1>10
      <3>. QED  BY <3>1, <3>2, <1>13
    <2>5. Pairing(p)
      BY <2>1, <2>3 DEF Pairing
    <2>. QED  BY <2>1, <2>4, <2>5
  <1>. QED  BY <1>11, <1>12

LEMMA InitHolds == Init => IInv
  <1>. SUFFICES ASSUME Init PROVE IInv
    OBVIOUS
  <1>1. TypeOK
    BY InitTypes
  <1>2. \A c \in 1..Len(cases) : ~(c < 1)
    BY <1>1, ListsType DEF TypeOK
  <1>. QED  BY <1>1, <1>2 DEF Init, IInv, Matching, Extendable, Judged, Progress

(* A step that leaves the check of a case alone, or ends it. *)
LEMMA Unmatched ==
  ASSUME IInv,
         \/ UNCHANGED <<cases, case, step, found, accepted, taken, verdict>>
         \/ step' \notin {"match", "judged"}
  PROVE  Matching' /\ Extendable' /\ Judged'
  <1>1. CASE step' \notin {"match", "judged"}
    BY <1>1 DEF Matching, Extendable, Judged
  <1>2. CASE UNCHANGED <<cases, case, step, found, accepted, taken, verdict>>
    <2>1. Expected' = Expected /\ Range(taken)' = Range(taken)
      BY <1>2 DEF Expected, Range
    <2>2. Ordered' = Ordered /\ \A n : Extends(n)' = Extends(n) /\ Pairing(n)' = Pairing(n)
      BY <1>2, <2>1 DEF Ordered, Extends, Pairing, Hit
    <2>3. Matching' /\ Judged'
      BY <1>2, <2>1 DEF IInv, Matching, Judged, Hit
    <2>4. Extendable'
      BY <1>2, <2>1, <2>2 DEF IInv, Extendable
    <2>. QED  BY <2>3, <2>4
  <1>. QED  BY <1>1, <1>2

LEMMA MatchingStep == IInv /\ [Next]_vars => Matching' /\ Extendable' /\ Judged'
  <1>. SUFFICES ASSUME IInv, [Next]_vars PROVE Matching' /\ Extendable' /\ Judged'
    OBVIOUS
  <1>0. TypeOK /\ Matching /\ Extendable /\ Judged
    BY DEF IInv
  <1>1. CASE PassBy \/ Raise \/ NextCase \/ Exit
    BY <1>1, Unmatched DEF PassBy, Raise, NextCase, Exit, Open
  <1>2. CASE Compile
    <2>1. step' = "match" /\ taken' = <<>>
      BY <1>2 DEF Compile
    <2>. QED  BY <2>1 DEF Matching, Extendable, Extends, Judged
  <1>3. CASE Match
    <2>1. step' = "match"
      BY <1>3 DEF Match, Matches
    <2>. QED  BY <2>1, <1>3, MatchKeepsMatching, MatchKeepsExtendable DEF Judged
  <1>4. CASE Judge
    <2>1. /\ step = "match" /\ Len(taken) = Len(Expected) /\ step' = "judged"
          /\ verdict' = [verdict EXCEPT ![case] =
               IF 0 \in Range(taken) \/ DOMAIN found \ Range(taken) # {} \/ accepted THEN "fail" ELSE "ok"]
          /\ UNCHANGED <<cases, case, found, accepted, taken, exit>>
      BY <1>4 DEF Judge
    <2>2. Expected' = Expected /\ Range(taken)' = Range(taken)
      BY <2>1 DEF Expected, Range
    <2>3. Ordered' = Ordered /\ \A n : Extends(n)' = Extends(n) /\ Pairing(n)' = Pairing(n)
      BY <2>1, <2>2 DEF Ordered, Extends, Pairing, Hit
    <2>4. Matching' /\ Extendable'
      BY <1>0, <2>1, <2>2, <2>3 DEF Matching, Extendable, Hit
    <2>5. case \in DOMAIN verdict
      BY <1>0, <2>1, ExpectedType DEF TypeOK
    <2>6. Judged'
      BY <2>1, <2>2, <2>5 DEF Judged
    <2>. QED  BY <2>4, <2>6
  <1>5. CASE UNCHANGED vars
    BY <1>5, Unmatched DEF vars
  <1>. QED  BY <1>1, <1>2, <1>3, <1>4, <1>5 DEF Next

(* Every case that the check leaves behind has its verdict. *)
LEMMA ProgressStep == IInv /\ [Next]_vars => Progress'
  <1>. SUFFICES ASSUME IInv, [Next]_vars PROVE Progress'
    OBVIOUS
  <1>0. /\ TypeOK /\ Judged /\ Progress
        /\ Len(cases) \in Nat /\ case \in Nat /\ DOMAIN verdict = 1..Len(cases)
    BY ListsType DEF IInv, TypeOK
  <1>1. CASE PassBy
    <2>1. /\ step = "header" /\ step' = step /\ case <= Len(cases)
          /\ Expected = <<>> \/ ~Applies(cases[case])
          /\ verdict' = [verdict EXCEPT ![case] = IF Expected = <<>> THEN "fail" ELSE "skip"]
          /\ case' = case + 1 /\ cases' = cases /\ exit' = exit
      BY <1>1 DEF PassBy, Open
    <2>2. \A c \in 1..Len(cases) : c < case => Deserved(c) /\ verdict'[c] = verdict[c]
      BY <1>0, <2>1 DEF Progress
    <2>3. \A c \in 1..Len(cases) : c < case => Deserved(c)'
      BY <2>1, <2>2 DEF Deserved, Applies
    <2>4. \A c \in 1..Len(cases) : c = case => Deserved(c)'
      BY <1>0, <2>1 DEF Deserved, Expected, Applies
    <2>5. exit' # "0"
      BY <1>0, <2>1 DEF Progress
    <2>6. \A c \in 1..Len(cases) : c < case' => Deserved(c)'
      <3>. SUFFICES ASSUME NEW c \in 1..Len(cases), c < case + 1 PROVE Deserved(c)'
        BY <2>1
      <3>1. c < case \/ c = case
        BY <1>0
      <3>. QED  BY <3>1, <2>3, <2>4, <2>1
    <2>. QED  BY <2>1, <2>5, <2>6 DEF Progress
  <1>2. CASE Raise
    BY <1>0, <1>2 DEF Raise, Open, Progress, Deserved, Applies
  <1>3. CASE Compile
    BY <1>0, <1>3 DEF Compile, Open, Progress, Deserved, Applies, Expected
  <1>4. CASE Match
    <2>1. /\ step = "match" /\ UNCHANGED <<cases, case, step, verdict, exit>>
      BY <1>4 DEF Match, Matches
    <2>. QED  BY <1>0, <2>1 DEF Progress, Deserved, Applies, Expected
  <1>5. CASE Judge
    <2>1. /\ step = "match" /\ step' = "judged"
          /\ verdict' = [verdict EXCEPT ![case] =
               IF 0 \in Range(taken) \/ DOMAIN found \ Range(taken) # {} \/ accepted THEN "fail" ELSE "ok"]
          /\ UNCHANGED <<cases, case, exit>> /\ case <= Len(cases)
      BY <1>0, <1>5 DEF Judge, TypeOK
    <2>2. \A c \in 1..Len(cases) : c < case => Deserved(c)'
      BY <1>0, <2>1 DEF Progress, Deserved, Applies
    <2>3. Expected # <<>> /\ \A c \in 1..Len(cases) : c = case => Deserved(c)'
      BY <1>0, <2>1 DEF Progress, Deserved, Expected
    <2>4. exit' # "0"
      BY <1>0, <2>1 DEF Progress
    <2>. QED  BY <1>0, <2>1, <2>2, <2>3, <2>4 DEF Progress, Expected
  <1>6. CASE NextCase
    <2>1. /\ step = "judged" /\ step' = "header" /\ case' = case + 1
          /\ UNCHANGED <<cases, verdict, exit>> /\ case <= Len(cases)
      BY <1>0, <1>6 DEF NextCase, TypeOK
    <2>2. \A c \in 1..Len(cases) : c < case' => Deserved(c)'
      BY <1>0, <2>1 DEF Progress, Deserved, Applies
    <2>3. exit' # "0"
      BY <1>0, <2>1 DEF Progress
    <2>. QED  BY <2>1, <2>2, <2>3 DEF Progress
  <1>7. CASE Exit
    BY <1>0, <1>7 DEF Exit, Progress, Deserved, Applies
  <1>8. CASE UNCHANGED vars
    BY <1>0, <1>8 DEF vars, Progress, Deserved, Applies, Expected
  <1>. QED  BY <1>1, <1>2, <1>3, <1>4, <1>5, <1>6, <1>7, <1>8 DEF Next

(***************************************************************************)
(* What is taken is the beginning of a pairing whenever there is one, and  *)
(* every case that was checked has the verdict it deserves (IInv).         *)
(***************************************************************************)
THEOREM InductiveInvariant == Spec => []IInv
  <1>1. IInv /\ [Next]_vars => IInv'
    BY TypeStep, MatchingStep, ProgressStep DEF IInv
  <1>. QED  BY <1>1, InitHolds, PTL DEF Spec

(* A verdict "ok" is for a pairing. *)
LEMMA TakenIsPairing ==
  ASSUME IInv, step = "judged", 0 \notin Range(taken), DOMAIN found \subseteq Range(taken)
  PROVE  Pairing(taken)
  <1>0. TypeOK /\ Matching /\ Judged
    BY DEF IInv
  <1>1. Len(taken) = Len(Expected)
    BY <1>0 DEF Judged
  <1>2. /\ taken \in Seq(0..Len(found)) /\ found \in Seq(Diagnostic)
        /\ DOMAIN taken = 1..Len(taken) /\ DOMAIN found = 1..Len(found)
        /\ DOMAIN Expected = 1..Len(Expected) /\ Len(found) \in Nat
    BY <1>0, ExpectedType DEF TypeOK
  <1>3. DOMAIN taken = DOMAIN Expected
    BY <1>1, <1>2
  <1>4. \A i \in DOMAIN taken : taken[i] \in 0..Len(found) /\ taken[i] # 0
    BY <1>2 DEF Range
  <1>5. \A i \in DOMAIN taken : taken[i] \in DOMAIN found /\ Hit(Expected[i], found[taken[i]])
    BY <1>4, <1>2, <1>0 DEF Matching
  <1>6. \A i, j \in DOMAIN taken : taken[i] = taken[j] => i = j
    BY <1>4, <1>0 DEF Matching
  <1>7. \A g \in DOMAIN found : \E i \in DOMAIN taken : taken[i] = g
    BY DEF Range
  <1>. QED  BY <1>3, <1>5, <1>6, <1>7 DEF Pairing

(***************************************************************************)
(* A case that passes was refused with exactly the diagnostics of its      *)
(* header, as a multiset, whatever the compiler reports in whatever order  *)
(* (check(), check-must-not-compile.py).                                   *)
(***************************************************************************)
THEOREM OkIsExactHolds == Spec => []OkIsExact
  <1>1. IInv => OkIsExact
    BY TakenIsPairing DEF IInv, Judged, OkIsExact
  <1>. QED  BY <1>1, InductiveInvariant, PTL

(* A pairing that begins with all that was taken leaves nothing to fail. *)
LEMMA NoPairingLeft ==
  ASSUME IInv, step = "judged", verdict[case] = "fail", ~accepted,
         NEW n \in [DOMAIN Expected -> DOMAIN found], Extends(n)
  PROVE  FALSE
  <1>0. TypeOK /\ Judged /\ case <= Len(cases)
    BY DEF IInv, TypeOK
  <1>1. /\ DOMAIN taken = DOMAIN Expected
        /\ DOMAIN found = 1..Len(found) /\ Len(found) \in Nat
    BY <1>0, ExpectedType DEF TypeOK, Judged
  <1>2. \A i \in DOMAIN taken : taken[i] = n[i] /\ taken[i] \in DOMAIN found
    BY <1>1 DEF Extends
  <1>3. 0 \notin Range(taken)
    BY <1>1, <1>2 DEF Range
  <1>4. DOMAIN found \subseteq Range(taken)
    BY <1>1, <1>2 DEF Extends, Pairing, Range
  <1>. QED  BY <1>0, <1>3, <1>4 DEF Judged

(***************************************************************************)
(* A header that records the longer text first is never failed for the     *)
(* order in which the compiler reports: a refused case that fails has no   *)
(* pairing at all (the greedy loop of check(), check-must-not-compile.py). *)
(***************************************************************************)
THEOREM NoFalseAlarmHolds == Spec => []NoFalseAlarm
  <1>1. ASSUME IInv PROVE NoFalseAlarm
    <2>. SUFFICES ASSUME step = "judged", verdict[case] = "fail", ~accepted, Ordered,
                         NEW m \in [DOMAIN Expected -> DOMAIN found], Pairing(m)
                  PROVE  FALSE
      BY DEF NoFalseAlarm
    <2>1. PICK n \in [DOMAIN Expected -> DOMAIN found] : Extends(n)
      BY <1>1 DEF IInv, Extendable
    <2>. QED  BY <1>1, <2>1, NoPairingLeft
  <1>. QED  BY <1>1, InductiveInvariant, PTL

(* The script's test of the versions is the one that the header means. *)
LEMMA AppliesIsFor ==
  ASSUME TypeOK, NEW c \in 1..Len(cases), ~Applies(cases[c])
  PROVE  ~For(cases[c])
  <1>1. /\ BcMajor \in Nat /\ AlMajor \in Nat \cup {None}
        /\ \A key \in {"from", "until", "min-al", "max-al"} : Value(cases[c], key) \in Nat \cup {None}
    BY ListsType, VersionsType DEF TypeOK
  <1>. QED  BY <1>1 DEF Applies, For

(***************************************************************************)
(* Exit status 0 is about every case of the list: each that is for this    *)
(* version of the compiler passed, and each says what it expects (main(),  *)
(* check-must-not-compile.py).                                             *)
(***************************************************************************)
THEOREM ExitZeroMeansAllHolds == Spec => []ExitZeroMeansAll
  <1>1. ASSUME IInv PROVE ExitZeroMeansAll
    <2>. SUFFICES ASSUME exit = "0", NEW c \in 1..Len(cases)
                  PROVE  (verdict[c] = "ok" \/ ~For(cases[c])) /\ Expect(cases[c]) # <<>>
      BY DEF ExitZeroMeansAll
    <2>0. TypeOK /\ Progress /\ Len(cases) \in Nat /\ case \in Nat
      BY <1>1, ListsType DEF IInv, TypeOK
    <2>1. c < case /\ verdict[c] # "fail"
      BY <2>0 DEF Progress
    <2>2. Deserved(c)
      BY <2>0, <2>1 DEF Progress
    <2>. QED  BY <2>0, <2>1, <2>2, AppliesIsFor DEF Deserved
  <1>. QED  BY <1>1, InductiveInvariant, PTL

-----------------------------------------------------------------------------
(* The SingleInstance owners check (SingleInstance)                          *)

(* A corpus: names, references and kinds are of the declared types. *)
LEMMA CorpusFacts ==
  ASSUME decls \in Sources
  PROVE  /\ Declared \subseteq Name
         /\ Tests \subseteq Name /\ Nobody \notin Tests
         /\ Singles \subseteq Name
         /\ \A n : Refs(n) \subseteq Name
         /\ \A n : Touched(n) \subseteq Name
         /\ Declared = {} => Singles = {}
  <1>1. decls \in Seq([name : Name, single : BOOLEAN, test : BOOLEAN, refs : SUBSET Name])
    BY SourcesType
  <1>2. ASSUME NEW Decl, decls \in Seq(Decl)
        PROVE  \A i \in DOMAIN decls : decls[i] \in Decl
    BY <1>2
  <1>3. \A i \in DOMAIN decls :
          decls[i] \in [name : Name, single : BOOLEAN, test : BOOLEAN, refs : SUBSET Name]
    BY <1>1, <1>2
  <1>4. Declared \subseteq Name /\ \A n : Refs(n) \subseteq Name
    BY <1>3 DEF Declared, Refs
  <1>. QED  BY <1>4, NobodyNew DEF Tests, Singles, Touched

(* What is used is closed under references, and is the least such set that   *)
(* has the references of the name.                                           *)
LEMMA UsesFacts ==
  ASSUME decls \in Sources, NEW n
  PROVE  /\ Uses(n) \subseteq Name
         /\ Refs(n) \subseteq Uses(n)
         /\ \A o \in Uses(n) : Refs(o) \subseteq Uses(n)
         /\ \A C \in SUBSET Name :
              Refs(n) \subseteq C /\ (\A o \in C : Refs(o) \subseteq C) => Uses(n) \subseteq C
  <1>. DEFINE closed == {C \in SUBSET Name : Refs(n) \subseteq C /\ \A o \in C : Refs(o) \subseteq C}
  <1>1. Uses(n) = {m \in Name : \A C \in closed : m \in C}
    BY DEF Uses
  <1>2. Refs(n) \subseteq Name /\ \A o : Refs(o) \subseteq Name
    BY CorpusFacts
  <1>3. ASSUME NEW o \in Uses(n), NEW m \in Refs(o)
        PROVE  m \in Uses(n)
    <2>1. \A C \in closed : m \in C
      BY <1>1, <1>3
    <2>. QED  BY <1>1, <1>2, <2>1
  <1>. QED  BY <1>1, <1>2, <1>3

(* What is derived from the corpus stays, as the corpus does. *)
LEMMA CorpusStays ==
  ASSUME decls' = decls
  PROVE  /\ Declared' = Declared /\ Tests' = Tests /\ Singles' = Singles
         /\ \A n : Refs(n)' = Refs(n)
         /\ \A n : Uses(n)' = Uses(n)
         /\ \A n : Touched(n)' = Touched(n)
         /\ Usual' = Usual
  <1>1. Declared' = Declared /\ Tests' = Tests /\ Singles' = Singles
    BY DEF Declared, Tests, Singles, Object
  <1>2. \A n : Refs(n)' = Refs(n)
    BY DEF Refs
  <1>3. \A n : Uses(n)' = Uses(n)
    BY <1>2 DEF Uses, Refs
  <1>4. \A n : Touched(n)' = Touched(n)
    BY <1>1, <1>3 DEF Touched
  <1>5. Usual' = Usual
    BY <1>1 DEF Usual
  <1>. QED  BY <1>1, <1>2, <1>3, <1>4, <1>5

LEMMA OwnersInitHolds == OwnersInit => OwnersIInv
  <1>. SUFFICES ASSUME OwnersInit PROVE OwnersIInv
    OBVIOUS
  <1>. USE DEF OwnersInit
  <1>1. OwnersTypeOK
    BY CorpusFacts DEF OwnersTypeOK
  <1>2. Searched /\ Owned /\ Settled /\ Held /\ Met
    BY DEF Searched, Owned, Settled, Held, Met
  <1>. QED  BY <1>1, <1>2 DEF OwnersIInv

(* A step of the script leaves the session as it is. *)
LEMMA SessionStays ==
  ASSUME Held, Met, decls' = decls, UNCHANGED session
  PROVE  Held' /\ Met'
  BY CorpusStays DEF Held, Met, session

LEMMA StartKeeps ==
  ASSUME OwnersIInv, Start
  PROVE  OwnersIInv'
  <1>. USE DEF OwnersIInv, Start, session
  <1>1. decls' = decls /\ decls \in Sources
    BY DEF OwnersTypeOK
  <1>2. OwnersTypeOK'
    BY <1>1, CorpusStays, CorpusFacts DEF OwnersTypeOK
  <1>3. stack = {} /\ test = Nobody
    BY DEF Searched
  <1>4. Searched'
    BY <1>3 DEF Searched
  <1>5. CASE Declared = {} \/ Singles = {}
    <2>1. Singles = {} /\ stage' = "session"
      BY <1>1, <1>5, CorpusFacts
    <2>2. Owned'
      BY <1>1, <2>1, CorpusStays DEF Owned
    <2>3. Settled'
      BY <1>1, <2>1, CorpusStays DEF Settled
    <2>. QED  BY <1>1, <1>2, <1>4, <2>2, <2>3, SessionStays
  <1>6. CASE ~(Declared = {} \/ Singles = {})
    <2>1. stage' = "search" /\ todo' = Tests /\ UNCHANGED <<status, owners>>
      BY <1>6
    <2>2. Owned'
      BY <1>1, <2>1, CorpusStays DEF Owned
    <2>3. Settled'
      BY <1>1, <2>1, CorpusStays DEF Settled
    <2>. QED  BY <1>1, <1>2, <1>4, <2>2, <2>3, SessionStays
  <1>. QED  BY <1>5, <1>6

LEMMA SearchKeeps ==
  ASSUME OwnersIInv, NEW t \in Name, Search(t)
  PROVE  OwnersIInv'
  <1>. USE DEF OwnersIInv, Search, session
  <1>1. decls' = decls /\ decls \in Sources /\ t \in Tests /\ t # Nobody /\ stage = "search"
    BY CorpusFacts DEF OwnersTypeOK
  <1>2. OwnersTypeOK'
    BY <1>1, CorpusStays DEF OwnersTypeOK
  <1>3. Searched'
    BY <1>1, CorpusStays DEF Searched
  <1>4. Owned'
    <2>1. todo' \cup {test'} = todo \cup {t} /\ t \in todo /\ test \notin Tests
      BY <1>1, CorpusFacts
    <2>2. Tests \ (todo' \cup {test'}) = Tests \ (todo \cup {test})
      BY <2>1
    <2>. QED  BY <1>1, <2>2, CorpusStays DEF Owned
  <1>5. Settled'
    BY <1>1, CorpusStays DEF Settled
  <1>. QED  BY <1>1, <1>2, <1>3, <1>4, <1>5, SessionStays

(* One more name is popped: its references are in seen, and are used. *)
LEMMA VisitKeeps ==
  ASSUME OwnersIInv, NEW n \in Name, Visit(n)
  PROVE  OwnersIInv'
  <1>. USE DEF OwnersIInv, Visit, session
  <1>1. decls' = decls /\ decls \in Sources /\ test # Nobody /\ n \in seen \cup {test}
    BY DEF OwnersTypeOK, Searched
  <1>2. Refs(n) \subseteq Name
    BY <1>1, CorpusFacts
  <1>3. OwnersTypeOK'
    BY <1>1, <1>2, CorpusStays DEF OwnersTypeOK
  <1>4. Searched'
    <2>1. seen \subseteq Uses(test) /\ \A o \in (seen \cup {test}) \ stack : Refs(o) \subseteq seen
      BY <1>1 DEF Searched
    <2>2. Refs(n) \subseteq Uses(test)
      BY <1>1, <2>1, UsesFacts
    <2>3. seen' \subseteq Uses(test)
      BY <2>1, <2>2
    <2>4. ASSUME NEW o \in (seen' \cup {test}) \ stack' PROVE Refs(o) \subseteq seen'
      <3>1. CASE o = n
        BY <3>1
      <3>2. CASE o # n
        <4>1. o \in (seen \cup {test}) \ stack
          BY <2>4, <3>2
        <4>. QED  BY <2>1, <4>1
      <3>. QED  BY <3>1, <3>2
    <2>. QED  BY <1>1, <2>3, <2>4, CorpusStays DEF Searched
  <1>5. Owned' /\ Settled'
    BY <1>1, CorpusStays DEF Owned, Settled
  <1>. QED  BY <1>1, <1>3, <1>4, <1>5, SessionStays

(* The stack is empty: seen is what the test codeunit uses. *)
LEMMA SearchIsComplete ==
  ASSUME OwnersIInv, test # Nobody, stack = {}
  PROVE  seen = Uses(test)
  <1>1. decls \in Sources /\ seen \subseteq Name
    BY DEF OwnersIInv, OwnersTypeOK
  <1>2. seen \subseteq Uses(test) /\ \A o \in seen \cup {test} : Refs(o) \subseteq seen
    BY DEF OwnersIInv, Searched
  <1>3. Uses(test) \subseteq seen
    BY <1>1, <1>2, UsesFacts
  <1>. QED  BY <1>2, <1>3

LEMMA OwnKeeps ==
  ASSUME OwnersIInv, Own
  PROVE  OwnersIInv'
  <1>. USE DEF OwnersIInv, Own, session
  <1>1. /\ decls' = decls /\ decls \in Sources /\ stage = "search"
        /\ test \in Tests /\ test' = Nobody /\ Nobody \notin Tests
    BY CorpusFacts DEF OwnersTypeOK
  <1>2. seen = Uses(test)
    BY <1>1, SearchIsComplete
  <1>3. test \notin todo
    BY <1>1 DEF Searched
  <1>4. OwnersTypeOK'
    <2>1. owners' \in [Name -> SUBSET Tests]
      BY <1>1 DEF OwnersTypeOK
    <2>2. stack' \subseteq seen' \cup {test'}
      OBVIOUS
    <2>. QED  BY <1>1, <2>1, <2>2, CorpusStays DEF OwnersTypeOK
  <1>5. Searched'
    BY <1>1 DEF Searched
  <1>6. Owned'
    <2>1. Tests \ (todo' \cup {test'}) = (Tests \ (todo \cup {test})) \cup {test}
      BY <1>1, <1>3
    <2>2. ASSUME NEW n \in Name
          PROVE  owners'[n] = {t \in Tests \ (todo' \cup {test'}) : n \in Uses(t) \cap Singles}
      <3>1. owners[n] = {t \in Tests \ (todo \cup {test}) : n \in Uses(t) \cap Singles}
        BY <1>1 DEF Owned
      <3>2. owners'[n] = IF n \in seen \cap Singles THEN owners[n] \cup {test} ELSE owners[n]
        OBVIOUS
      <3>. QED  BY <1>2, <2>1, <3>1, <3>2
    <2>. QED  BY <1>1, <2>2, CorpusStays DEF Owned
  <1>7. Settled'
    BY <1>1, CorpusStays DEF Settled
  <1>. QED  BY <1>1, <1>4, <1>5, <1>6, <1>7, SessionStays

LEMMA VerdictKeeps ==
  ASSUME OwnersIInv, Verdict
  PROVE  OwnersIInv'
  <1>. USE DEF OwnersIInv, Verdict, session
  <1>1. decls' = decls /\ decls \in Sources
    BY DEF OwnersTypeOK
  <1>2. OwnersTypeOK'
    <2>1. status' \in {Nobody, 0, 1}
      OBVIOUS
    <2>. QED  BY <1>1, <2>1, CorpusStays DEF OwnersTypeOK
  <1>3. Searched' /\ Owned' /\ Settled'
    BY <1>1, CorpusStays DEF Searched, Owned, Settled
  <1>. QED  BY <1>1, <1>2, <1>3, SessionStays

(* A run finds what the runs before left: something that another user of    *)
(* the same instance left, whenever there was one.                          *)
LEMMA RunTestKeeps ==
  ASSUME OwnersIInv, NEW t \in Name, RunTest(t)
  PROVE  OwnersIInv'
  <1>. USE DEF OwnersIInv, RunTest
  <1>1. /\ decls' = decls /\ decls \in Sources /\ stage = "session" /\ stage' = stage
        /\ t \in Tests \ ran /\ ran' = ran \cup {t} /\ t # Nobody
        /\ UNCHANGED <<todo, test, seen, stack, owners, status>>
    BY CorpusFacts DEF OwnersTypeOK
  <1>2. Touched(t) \subseteq Name /\ Nobody \notin Tests /\ Tests \subseteq Name
    BY <1>1, CorpusFacts
  <1>3. /\ \A s \in Name : instance'[s] = IF s \in Touched(t) THEN t ELSE instance[s]
        /\ saw'[t] = {instance[s] : s \in Touched(t)}
        /\ \A u \in Name \ {t} : saw'[u] = saw[u]
    BY DEF OwnersTypeOK
  <1>4. OwnersTypeOK'
    <2>1. instance' \in [Name -> Tests \cup {Nobody}]
      BY <1>1 DEF OwnersTypeOK
    <2>2. {instance[s] : s \in Touched(t)} \subseteq Tests \cup {Nobody}
      BY <1>2 DEF OwnersTypeOK
    <2>3. saw' \in [Name -> SUBSET (Tests \cup {Nobody})]
      BY <2>2 DEF OwnersTypeOK
    <2>. QED  BY <1>1, <2>1, <2>3, CorpusStays DEF OwnersTypeOK
  <1>5. Searched' /\ Owned' /\ Settled'
    BY <1>1, CorpusStays DEF Searched, Owned, Settled
  <1>6. Held'
    <2>1. ASSUME NEW s \in Name, instance'[s] # Nobody
          PROVE  instance'[s] \in ran' /\ s \in Touched(instance'[s])
      BY <1>1, <1>3, <2>1 DEF Held
    <2>2. ASSUME NEW u \in ran', NEW s \in Touched(u)
          PROVE  instance'[s] # Nobody
      <3>1. s \in Name
        BY <1>1, CorpusFacts
      <3>. QED  BY <1>1, <1>3, <2>2, <3>1 DEF Held
    <2>. QED  BY <1>1, <2>1, <2>2, CorpusStays DEF Held
  <1>7. ran \subseteq Name /\ t \notin ran /\ \A u \in ran : saw'[u] = saw[u]
    BY <1>1, <1>2, <1>3 DEF OwnersTypeOK
  <1>8. Met'
    <2>1. ASSUME NEW u \in ran', NEW v \in saw'[u] \ {Nobody}
          PROVE  v \in ran' \ {u} /\ Touched(u) \cap Touched(v) # {}
      <3>1. CASE u \in ran
        BY <1>1, <1>7, <2>1, <3>1 DEF Met
      <3>2. CASE u = t
        <4>1. PICK s \in Touched(t) : v = instance[s]
          BY <1>3, <2>1, <3>2
        <4>2. v \in ran /\ s \in Touched(v)
          BY <1>2, <2>1, <4>1 DEF Held
        <4>. QED  BY <1>1, <1>7, <3>2, <4>1, <4>2
      <3>. QED  BY <1>1, <3>1, <3>2
    <2>2. ASSUME NEW u \in ran, Touched(t) \cap Touched(u) # {}
          PROVE  saw'[t] \ {Nobody} # {}
      <3>1. PICK s : s \in Touched(t) \cap Touched(u)
        BY <2>2
      <3>2. instance[s] # Nobody
        BY <2>2, <3>1 DEF Held
      <3>. QED  BY <1>3, <3>1, <3>2
    <2>3. ASSUME NEW u \in ran', NEW v \in ran', u # v, Touched(u) \cap Touched(v) # {}
          PROVE  (saw'[u] \cup saw'[v]) \ {Nobody} # {}
      <3>1. CASE u \in ran /\ v \in ran
        <4>1. (saw[u] \cup saw[v]) \ {Nobody} # {}
          BY <2>3, <3>1 DEF Met
        <4>. QED  BY <1>7, <3>1, <4>1
      <3>2. CASE u = t
        BY <1>1, <2>2, <2>3, <3>2
      <3>3. CASE v = t
        BY <1>1, <2>2, <2>3, <3>3
      <3>. QED  BY <1>1, <3>1, <3>2, <3>3
    <2>. QED  BY <1>1, <2>1, <2>3, CorpusStays DEF Met
  <1>. QED  BY <1>1, <1>4, <1>5, <1>6, <1>8

(***************************************************************************)
(* The inductive invariant, for any corpus: what the search holds, and     *)
(* what the session's instances and findings say of each other             *)
(* (check-singleinstance-fixture-owners.py 94-140).                        *)
(***************************************************************************)
THEOREM OwnersInductiveInvariant == OwnersSpec => []OwnersIInv
  <1>1. OwnersIInv /\ UNCHANGED ownersVars => OwnersIInv'
    BY CorpusStays DEF ownersVars, OwnersIInv, OwnersTypeOK, Searched, Owned, Settled, Held, Met
  <1>2. OwnersIInv /\ [OwnersNext]_ownersVars => OwnersIInv'
    BY <1>1, StartKeeps, SearchKeeps, VisitKeeps, OwnKeeps, VerdictKeeps, RunTestKeeps
       DEF OwnersNext
  <1>. QED  BY <1>2, OwnersInitHolds, PTL DEF OwnersSpec

(* Two test codeunits that are no singles and share an instance are two     *)
(* owners of it.                                                             *)
LEMMA SharedHasTwoOwners ==
  ASSUME OwnersIInv, stage = "session", Singles # {}, Usual,
         NEW t \in Tests, NEW u \in Tests, NEW s \in Name
  PROVE  /\ s \in Touched(t) <=> t \in owners[s]
         /\ t # u /\ t \in owners[s] /\ u \in owners[s] => Cardinality(owners[s]) > 1
         /\ Cardinality(owners[s]) > 1 =>
              \E v \in Tests, w \in Tests : v # w /\ v \in owners[s] /\ w \in owners[s]
  <1>1. /\ decls \in Sources /\ todo = {} /\ test = Nobody /\ Nobody \notin Tests
        /\ Tests \subseteq Name /\ owners[s] \subseteq Tests
    BY CorpusFacts DEF OwnersIInv, OwnersTypeOK, Settled
  <1>2. owners[s] = {v \in Tests : s \in Uses(v) \cap Singles}
    BY <1>1 DEF OwnersIInv, Owned
  <1>3. s \in Touched(t) <=> t \in owners[s]
    BY <1>2 DEF Touched, Usual
  <1>4. IsFiniteSet(owners[s]) /\ Cardinality(owners[s]) \in Nat
    BY <1>1, NamesFinite, FS_Subset, FS_CardinalityType
  <1>5. ASSUME t # u, t \in owners[s], u \in owners[s] PROVE Cardinality(owners[s]) > 1
    <2>1. Cardinality(owners[s]) # 0
      BY <1>4, <1>5, FS_EmptySet
    <2>2. Cardinality(owners[s]) # 1
      BY <1>4, <1>5, FS_Singleton
    <2>. QED  BY <1>4, <2>1, <2>2
  <1>6. ASSUME Cardinality(owners[s]) > 1
        PROVE  \E v \in Tests, w \in Tests : v # w /\ v \in owners[s] /\ w \in owners[s]
    <2>1. owners[s] # {}
      BY <1>6, FS_EmptySet
    <2>2. PICK v : v \in owners[s]
      BY <2>1
    <2>3. owners[s] # {v}
      BY <1>6, FS_Singleton
    <2>. QED  BY <1>1, <2>2, <2>3
  <1>. QED  BY <1>3, <1>5, <1>6

(***************************************************************************)
(* After a check that passes every order of the test codeunits measures    *)
(* the same, for any corpus and any path of references                     *)
(* (check-singleinstance-fixture-owners.py 1-28, 94-140).                  *)
(***************************************************************************)
THEOREM OrderIndependentHolds == OwnersSpec => []OrderIndependent
  <1>1. OwnersIInv => OrderIndependent
    <2>. SUFFICES ASSUME OwnersIInv, status = 0, Usual, NEW t \in ran,
                         NEW u \in saw[t], u # Nobody
                  PROVE  FALSE
      BY DEF OrderIndependent
    <2>1. /\ u \in ran \ {t} /\ ran \subseteq Tests /\ Tests \subseteq Name
          /\ Touched(t) \cap Touched(u) # {} /\ \A n : Touched(n) \subseteq Name \cap Singles
      BY CorpusFacts DEF OwnersIInv, OwnersTypeOK, Met, Touched
    <2>2. PICK s \in Name \cap Singles : s \in Touched(t) /\ s \in Touched(u)
      BY <2>1
    <2>3. stage = "session" /\ Singles # {}
      BY <2>2, NobodyNew DEF OwnersIInv, Settled
    <2>4. Cardinality(owners[s]) > 1
      BY <2>1, <2>2, <2>3, SharedHasTwoOwners
    <2>. QED  BY <2>2, <2>3, <2>4 DEF OwnersIInv, Settled
  <1>. QED  BY <1>1, OwnersInductiveInvariant, PTL

(***************************************************************************)
(* A fixture that the check reports is one: every order of the test        *)
(* codeunits has one that finds what another left                          *)
(* (check-singleinstance-fixture-owners.py 94-140).                        *)
(***************************************************************************)
THEOREM SharedIsSeenHolds == OwnersSpec => []SharedIsSeen
  <1>1. OwnersIInv => SharedIsSeen
    <2>. SUFFICES ASSUME OwnersIInv, status = 1, Usual, Singles # {}, ran = Tests
                  PROVE  \E t \in Tests : saw[t] \ {Nobody} # {}
      BY DEF SharedIsSeen
    <2>1. stage = "session"
      BY NobodyNew DEF OwnersIInv, Settled
    <2>2. PICK s \in Name : Cardinality(owners[s]) > 1
      BY <2>1 DEF OwnersIInv, Settled
    <2>3. owners[s] \subseteq Tests /\ Tests # {}
      BY <2>2, FS_EmptySet DEF OwnersIInv, OwnersTypeOK
    <2>4. PICK v \in Tests, w \in Tests : v # w /\ v \in owners[s] /\ w \in owners[s]
      BY <2>1, <2>2, <2>3, SharedHasTwoOwners
    <2>5. s \in Touched(v) /\ s \in Touched(w)
      BY <2>1, <2>4, SharedHasTwoOwners
    <2>6. (saw[v] \cup saw[w]) \ {Nobody} # {}
      BY <2>4, <2>5 DEF OwnersIInv, Met
    <2>. QED  BY <2>4, <2>6
  <1>. QED  BY <1>1, OwnersInductiveInvariant, PTL

(* Type correctness of the check and the session. *)
THEOREM OwnersTypeCorrect == OwnersSpec => []OwnersTypeOK
  <1>1. OwnersIInv => OwnersTypeOK
    BY DEF OwnersIInv
  <1>. QED  BY <1>1, OwnersInductiveInvariant, PTL
=============================================================================
