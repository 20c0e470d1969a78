------------------------- MODULE ObjectIdGateProofs -------------------------
(***************************************************************************)
(* Proofs about ObjectIdGate, for any set of pull requests, declarations   *)
(* and ids: of two rivals, one run sees the other, whatever the order.     *)
(***************************************************************************)
EXTENDS ObjectIdGate, FiniteSetTheorems, TLAPS

(* A restarted run is early, and tells nothing of what was there before.    *)
LEMMA RestartTypes ==
  ASSUME TypeOK, NEW p \in PR, NEW first \in Step, NEW tree \in Tree,
         Restart(p, first, tree)
  PROVE  /\ step' \in [PR -> Step]
         /\ frozen' \in [PR -> Tree]
         /\ masterIds' \in [PR -> SUBSET Id]
         /\ page' \in [PR -> Nat]
         /\ slid' \in [PR -> BOOLEAN]
         /\ listed' \in [PR -> SUBSET PR]
         /\ todo' \in [PR -> SUBSET PR]
         /\ claims' \in [PR -> [PR -> SUBSET Id]]
         /\ asked' \in [PR -> [master : Tree, claimed : [PR -> SUBSET Id]]]
  <1>1. Nobody \in [PR -> SUBSET Id]
    BY DEF Nobody
  <1>2. \A q \in PR : Introduced(q) \in SUBSET Id
    BY IdOfType DEF Introduced, Ids, TypeOK, Tree
  <1>3. [q \in PR |-> IF q \in Open \ {p} THEN Introduced(q) ELSE {}] \in [PR -> SUBSET Id]
    BY <1>2
  <1>4. [master |-> master,
         claimed |-> [q \in PR |-> IF q \in Open \ {p} THEN Introduced(q) ELSE {}]]
          \in [master : Tree, claimed : [PR -> SUBSET Id]]
    BY <1>3 DEF TypeOK
  <1>. QED  BY <1>1, <1>4 DEF Restart, TypeOK

LEMMA IdsType == \A tree \in Tree : Ids(tree) \in SUBSET Id
  BY IdOfType DEF Ids, Tree

LEMMA MergedType ==
  ASSUME TypeOK, NEW b \in Tree, NEW h \in Tree
  PROVE  Merged(b, h) \in Tree
  BY DEF Merged, Tree, TypeOK

LEMMA EditsType ==
  ASSUME NEW p \in PR, NEW b \in Tree, NEW h \in Edits(p, b)
  PROVE  h \in Tree
  BY OwnedType DEF Edits, Tree

-----------------------------------------------------------------------------
LEMMA InitTypes == Init => TypeOK
  <1>. SUFFICES ASSUME Init PROVE TypeOK
    OBVIOUS
  <1>1. Nobody \in [PR -> SUBSET Id]
    BY DEF Nobody
  <1>2. [master |-> {}, claimed |-> Nobody] \in [master : Tree, claimed : [PR -> SUBSET Id]]
    BY <1>1 DEF Tree
  <1>. QED  BY <1>1, <1>2, StartType DEF Init, TypeOK, Tree, Step

LEMMA NextTypes == TypeOK /\ [Next]_vars => TypeOK'
  <1>. SUFFICES ASSUME TypeOK, [Next]_vars PROVE TypeOK'
    OBVIOUS
  <1>1. ASSUME NEW p \in PR, OpenRequest(p) PROVE TypeOK'
    <2>1. PICK h \in Edits(p, master) :
            /\ status' = [status EXCEPT ![p] = "open"]
            /\ base' = [base EXCEPT ![p] = master]
            /\ head' = [head EXCEPT ![p] = h]
            /\ Event(p, master, h)
      BY <1>1 DEF OpenRequest
    <2>2. h \in Tree /\ Merged(master, h) \in Tree /\ master \in Tree
      BY EditsType, MergedType DEF TypeOK
    <2>3. (IF Clean(master, h) THEN "checkout" ELSE "none") \in Step
      BY DEF Step
    <2>. QED  BY <1>1, <2>1, <2>2, <2>3, RestartTypes DEF OpenRequest, Event, TypeOK
  <1>2. ASSUME NEW p \in PR, Push(p) PROVE TypeOK'
    <2>0. PICK b \in {base[p], master} :
            \E h \in Edits(p, b) \ {head[p]} :
              /\ base' = [base EXCEPT ![p] = b]
              /\ head' = [head EXCEPT ![p] = h]
              /\ Event(p, b, h)
      BY <1>2 DEF Push
    <2>1. PICK h \in Edits(p, b) \ {head[p]} :
            /\ base' = [base EXCEPT ![p] = b]
            /\ head' = [head EXCEPT ![p] = h]
            /\ Event(p, b, h)
      BY <2>0
    <2>2. b \in Tree
      BY DEF TypeOK
    <2>3. h \in Tree /\ Merged(b, h) \in Tree
      BY <2>2, EditsType, MergedType
    <2>4. (IF Clean(b, h) THEN "checkout" ELSE "none") \in Step
      BY DEF Step
    <2>. QED  BY <1>2, <2>1, <2>2, <2>3, <2>4, RestartTypes DEF Push, Event, TypeOK
  <1>3. ASSUME NEW p \in PR, Close(p) PROVE TypeOK'
    BY <1>3 DEF Close, Leave, TypeOK
  <1>4. ASSUME NEW p \in PR, Reopen(p) PROVE TypeOK'
    <2>1. base[p] \in Tree /\ head[p] \in Tree
      BY DEF TypeOK
    <2>2. Merged(base[p], head[p]) \in Tree
      BY <2>1, MergedType
    <2>3. (IF Clean(base[p], head[p]) THEN "checkout" ELSE "none") \in Step
      BY DEF Step
    <2>. QED  BY <1>4, <2>1, <2>2, <2>3, RestartTypes DEF Reopen, Event, TypeOK
  <1>5. ASSUME NEW p \in PR, Rerun(p) PROVE TypeOK'
    <2>1. "checkout" \in Step /\ frozen[p] \in Tree
      BY DEF Step, TypeOK
    <2>. QED  BY <1>5, <2>1, RestartTypes DEF Rerun, repo, TypeOK
  <1>6. ASSUME NEW p \in PR, Merge(p) PROVE TypeOK'
    <2>1. Merged(base[p], head[p]) \in Tree
      BY MergedType DEF TypeOK
    <2>. QED  BY <1>6, <2>1 DEF Merge, Leave, TypeOK
  <1>7. ASSUME NEW p \in PR, CheckTree(p) PROVE TypeOK'
    BY <1>7 DEF CheckTree, TypeOK, repo, Step
  <1>8. ASSUME NEW p \in PR, ReadMaster(p) PROVE TypeOK'
    <2>1. Ids(master) \in SUBSET Id
      BY IdsType DEF TypeOK
    <2>. QED  BY <1>8, <2>1 DEF ReadMaster, TypeOK, repo, Step
  <1>9. ASSUME NEW p \in PR, ListPage(p) PROVE TypeOK'
    <2>1. Page(page[p]) \in SUBSET PR
      BY DEF Page, Open
    <2>0. listed[p] \cup Page(page[p]) \in SUBSET PR
      BY <2>1 DEF TypeOK
    <2>2. listed' \in [PR -> SUBSET PR]
      <3>1. listed' = [listed EXCEPT ![p] = listed[p] \cup Page(page[p])]
        BY <1>9 DEF ListPage
      <3>. QED  BY <2>0, <3>1 DEF TypeOK
    <2>3. todo' \in [PR -> SUBSET PR] /\ step' \in [PR -> Step]
      <3>1. \/ /\ todo' = [todo EXCEPT ![p] = listed[p] \cup Page(page[p])]
               /\ step' = [step EXCEPT ![p] = "fetch"]
            \/ UNCHANGED <<step, todo>>
        BY <1>9 DEF ListPage
      <3>2. "fetch" \in Step
        BY DEF Step
      <3>3. todo \in [PR -> SUBSET PR] /\ step \in [PR -> Step]
        BY DEF TypeOK
      <3>. QED  BY <2>0, <3>1, <3>2, <3>3
    <2>4. page' \in [PR -> Nat]
      <3>1. page' = page \/ page' = [page EXCEPT ![p] = page[p] + 1]
        BY <1>9 DEF ListPage
      <3>2. page \in [PR -> Nat] /\ page[p] + 1 \in Nat
        BY DEF TypeOK
      <3>. QED  BY <3>1, <3>2
    <2>. QED  BY <1>9, <2>2, <2>3, <2>4 DEF ListPage, TypeOK, repo
  <1>10. ASSUME NEW p \in PR, NEW q \in PR, Fetch(p, q) PROVE TypeOK'
    <2>1. Ids(head[q]) \ masterIds[p] \in SUBSET Id
      BY IdsType DEF TypeOK
    <2>2. claims' \in [PR -> [PR -> SUBSET Id]]
      BY <1>10, <2>1 DEF Fetch, TypeOK
    <2>. QED  BY <1>10, <2>2 DEF Fetch, TypeOK, repo
  <1>11. ASSUME NEW p \in PR, Decide(p) PROVE TypeOK'
    BY <1>11 DEF Decide, TypeOK, repo, Step
  <1>12. ASSUME NEW p \in PR, Fail(p) PROVE TypeOK'
    BY <1>12 DEF Fail, TypeOK, repo, Step
  <1>13. CASE UNCHANGED vars
    BY <1>13 DEF vars, repo, job, TypeOK
  <1>. QED  BY <1>1, <1>2, <1>3, <1>4, <1>5, <1>6, <1>7, <1>8, <1>9, <1>10, <1>11, <1>12,
               <1>13 DEF Next

-----------------------------------------------------------------------------
(* The place of a pull request in the list, and the pages.                  *)
LEMMA RankType ==
  /\ IsFiniteSet(Open) /\ Cardinality(Open) \in Nat
  /\ \A q \in PR : IsFiniteSet({r \in Open : r > q}) /\ Rank(q) \in Nat
  <1>1. IsFiniteSet(Open)
    BY PRType, FS_Subset DEF Open
  <1>2. ASSUME NEW q \in PR PROVE IsFiniteSet({r \in Open : r > q}) /\ Rank(q) \in Nat
    <2>1. {r \in Open : r > q} \in SUBSET Open
      OBVIOUS
    <2>2. IsFiniteSet({r \in Open : r > q})
      BY <1>1, <2>1, FS_Subset
    <2>. QED  BY <2>2, FS_CardinalityType DEF Rank
  <1>. QED  BY <1>1, <1>2, FS_CardinalityType

(* Who arrives moves the others back, never forward.                        *)
LEMMA RankGrows ==
  ASSUME Open \subseteq Open', NEW q \in PR
  PROVE  Rank(q)' >= Rank(q) /\ Rank(q)' \in Nat /\ Rank(q) \in Nat
  <1>1. {r \in Open : r > q} \in SUBSET {r \in Open' : r > q}
    OBVIOUS
  <1>2. IsFiniteSet(Open')
    BY PRType, FS_Subset DEF Open
  <1>3. {r \in Open' : r > q} \in SUBSET Open'
    OBVIOUS
  <1>4. IsFiniteSet({r \in Open' : r > q})
    BY <1>2, <1>3, FS_Subset
  <1>5. /\ Cardinality({r \in Open : r > q}) <= Cardinality({r \in Open' : r > q})
        /\ Cardinality({r \in Open' : r > q}) \in Nat
    BY <1>1, <1>4, FS_Subset, FS_CardinalityType
  <1>6. Rank(q) \in Nat
    BY RankType
  <1>. QED  BY <1>5, <1>6 DEF Rank

(* The places are 0, 1, ... and each is taken.                              *)
LEMMA EveryPlaceIsTaken ==
  ASSUME NEW n \in Nat, NEW x \in Open, n <= Rank(x)
  PROVE  \E q \in Open : Rank(q) = n
  <1>. DEFINE size == Cardinality(Open)
              place == [q \in Open |-> Rank(q)]
  <1>1. Open \subseteq PR /\ PR \subseteq Nat
    BY PRType DEF Open
  <1>2. ASSUME NEW q \in Open PROVE Rank(q) \in 0..(size - 1)
    <2>1. {r \in Open : r > q} \in SUBSET (Open \ {q})
      BY <1>1
    <2>2. IsFiniteSet(Open \ {q}) /\ Cardinality(Open \ {q}) = size - 1
      BY RankType, FS_RemoveElement
    <2>3. Cardinality({r \in Open : r > q}) <= size - 1
      BY <2>1, <2>2, FS_Subset
    <2>4. Rank(q) \in Nat /\ size \in Nat
      BY <1>1, RankType
    <2>. QED  BY <2>3, <2>4 DEF Rank
  <1>3. ASSUME NEW q \in Open, NEW r \in Open, q < r PROVE Rank(r) < Rank(q)
    <2>1. {s \in Open : s > r} \in SUBSET {s \in Open : s > q}
      <3>1. ASSUME NEW s \in Open, s > r PROVE s > q
        <4>1. s \in Nat /\ r \in Nat /\ q \in Nat
          BY <1>1
        <4>. QED  BY <1>3, <3>1, <4>1
      <3>. QED  BY <3>1
    <2>2. r \in {s \in Open : s > q} /\ r \notin {s \in Open : s > r}
      BY <1>1, <1>3
    <2>3. /\ Cardinality({s \in Open : s > r}) <= Cardinality({s \in Open : s > q})
          /\ Cardinality({s \in Open : s > r}) # Cardinality({s \in Open : s > q})
      <3>1. IsFiniteSet({s \in Open : s > q})
        BY <1>1, RankType
      <3>2. {s \in Open : s > q} # {s \in Open : s > r}
        BY <2>2
      <3>. QED  BY <2>1, <3>1, <3>2, FS_Subset
    <2>4. Rank(q) \in Nat /\ Rank(r) \in Nat
      BY <1>1, RankType
    <2>. QED  BY <2>3, <2>4 DEF Rank
  <1>4. place \in Injection(Open, 0..(size - 1))
    <2>1. place \in [Open -> 0..(size - 1)]
      BY <1>2
    <2>2. ASSUME NEW q \in Open, NEW r \in Open, place[q] = place[r] PROVE q = r
      <3>1. Rank(q) = Rank(r) /\ Rank(q) \in Nat
        BY <2>2, <1>2
      <3>2. q \in Nat /\ r \in Nat
        BY <1>1
      <3>. QED  BY <1>3, <3>1, <3>2
    <2>. QED  BY <2>1, <2>2 DEF Injection, IsInjective
  <1>5. size \in Nat /\ IsFiniteSet(0..(size - 1)) /\ Cardinality(0..(size - 1)) = size
    <2>1. size \in Nat
      BY RankType
    <2>2. /\ IsFiniteSet(0..(size - 1))
          /\ Cardinality(0..(size - 1)) = IF 0 > size - 1 THEN 0 ELSE (size - 1) - 0 + 1
      <3>1. 0 \in Int /\ size - 1 \in Int
        BY <2>1
      <3>. HIDE DEF size
      <3>. QED  BY <3>1, FS_Interval, Zenon
    <2>. HIDE DEF size
    <2>. QED  BY <2>1, <2>2
  <1>6. place \in Surjection(Open, 0..(size - 1))
    <2>. HIDE DEF place
    <2>. QED  BY <1>4, <1>5, FS_Injection
  <1>7. n \in 0..(size - 1)
    BY <1>2, <1>5
  <1>. QED  BY <1>6, <1>7 DEF Surjection

(* A page that is not full is the last.                                     *)
LEMMA LastPage ==
  ASSUME NEW k \in Nat, NEW x \in Open, Cardinality(Page(k)) < PageSize
  PROVE  Rank(x) < (k + 1) * PageSize
  <1>. DEFINE first == k * PageSize
              last == (k + 1) * PageSize - 1
              place == [q \in Page(k) |-> Rank(q)]
  <1>1. PageSize \in Nat /\ PageSize > 0
    BY PageSizeType
  <1>2. first \in Nat /\ last \in Nat /\ last = first + PageSize - 1
    BY <1>1
  <1>3. x \in PR /\ Rank(x) \in Nat
    BY RankType DEF Open
  <1>. SUFFICES ASSUME Rank(x) > last PROVE FALSE
    BY <1>1, <1>2, <1>3
  <1>4. Page(k) = {q \in Open : Rank(q) \in first..last}
    BY DEF Page
  <1>. HIDE DEF first, last
  <1>5. place \in Surjection(Page(k), first..last)
    <2>1. place \in [Page(k) -> first..last]
      BY <1>4
    <2>2. ASSUME NEW n \in first..last PROVE \E q \in Page(k) : place[q] = n
      <3>1. n \in Nat /\ n <= Rank(x)
        BY <1>2, <1>3
      <3>2. PICK q \in Open : Rank(q) = n
        BY <3>1, EveryPlaceIsTaken
      <3>. QED  BY <3>2, <1>4
    <2>. QED  BY <2>1, <2>2 DEF Surjection
  <1>6. IsFiniteSet(Page(k)) /\ Cardinality(Page(k)) \in Nat
    <2>1. Page(k) \in SUBSET Open
      BY DEF Page
    <2>. QED  BY <2>1, RankType, FS_Subset, FS_CardinalityType
  <1>7. Cardinality(first..last) <= Cardinality(Page(k))
    <2>. HIDE DEF place
    <2>. QED  BY <1>5, <1>6, FS_Surjection
  <1>8. Cardinality(first..last) = PageSize
    <2>1. Cardinality(first..last) = IF first > last THEN 0 ELSE last - first + 1
      <3>1. first \in Int /\ last \in Int
        BY <1>2
      <3>. QED  BY <3>1, FS_Interval, Zenon
    <2>. QED  BY <1>1, <1>2, <2>1
  <1>. QED  BY <1>1, <1>6, <1>7, <1>8

-----------------------------------------------------------------------------
(* What a run will see, it still will after a step that leaves it and the   *)
(* head alone, unless the list slid.                                        *)
LEMMA StillSees ==
  ASSUME TypeOK, NEW x \in PR, NEW y \in PR, WillSee(x, y),
         /\ step'[x] = step[x] /\ page'[x] = page[x] /\ listed'[x] = listed[x]
         /\ todo'[x] = todo[x] /\ claims'[x] = claims[x] /\ masterIds'[x] = masterIds[x],
         head'[y] = head[y],
         slid[x] => slid'[x],
         Open \subseteq Open' \/ slid'[x] \/ step[x] # "list" \/ page[x] = 0
  PROVE  WillSee(x, y)'
  <1>1. CASE slid'[x]
    BY <1>1 DEF WillSee
  <1>2. CASE Early(x)
    BY <1>2 DEF WillSee, Early
  <1>3. CASE ~slid'[x] /\ WillList(x, y)
    <2>1. CASE y \in listed[x]
      BY <1>3, <2>1 DEF WillSee, WillList
    <2>2. CASE Rank(y) >= page[x] * PageSize
      <3>1. page[x] * PageSize \in Nat /\ page[x] \in Nat /\ PageSize \in Nat
        BY PageSizeType DEF TypeOK
      <3>2. CASE Open \subseteq Open'
        <4>1. Rank(y)' >= page[x] * PageSize
          BY <2>2, <3>1, <3>2, RankGrows
        <4>. QED  BY <1>3, <4>1 DEF WillSee, WillList
      <3>3. CASE page[x] = 0
        <4>1. Rank(y)' \in Nat
          <5>1. IsFiniteSet(Open')
            BY PRType, FS_Subset DEF Open
          <5>2. {r \in Open' : r > y} \in SUBSET Open'
            OBVIOUS
          <5>3. IsFiniteSet({r \in Open' : r > y})
            BY <5>1, <5>2, FS_Subset
          <5>. QED  BY <5>3, FS_CardinalityType DEF Rank
        <4>2. page'[x] * PageSize = 0
          BY <3>1, <3>3
        <4>3. Rank(y)' >= page'[x] * PageSize
          BY <4>1, <4>2
        <4>. QED  BY <1>3, <4>3 DEF WillSee, WillList
      <3>. QED  BY <1>3, <3>2, <3>3 DEF WillList
    <2>. QED  BY <1>3, <2>1, <2>2 DEF WillList
  <1>4. CASE Knows(x, y)
    <2>1. Ids(head[y])' = Ids(head[y])
      BY DEF Ids
    <2>. QED  BY <1>4, <2>1 DEF WillSee, Knows, Past
  <1>. QED  BY <1>1, <1>2, <1>3, <1>4 DEF WillSee

(* What a tree allows is a matter of the tree alone.                        *)
LEMMA SameTree ==
  ASSUME NEW x \in PR, frozen'[x] = frozen[x]
  PROVE  Unique(frozen[x])' = Unique(frozen[x]) /\ AllInRange(frozen[x])' = AllInRange(frozen[x])
  BY DEF Unique, AllInRange, InRange, Ranges

(* A run that starts over puts every pair with its pull request back: that  *)
(* run is still early, and nothing else changed.                            *)
LEMMA RestartPreserves ==
  ASSUME IInv, TypeOK', NEW p \in PR, NEW first \in {"none", "checkout"}, NEW tree,
         Restart(p, first, tree),
         Open \subseteq Open',
         \A q \in PR \ {p} : /\ status'[q] = status[q]
                             /\ base'[q] = base[q]
                             /\ head'[q] = head[q],
         first = "checkout" => head'[p] \ base'[p] \subseteq tree
  PROVE  IInv'
  <1>1. /\ Early(p)' /\ WillSee(p, p)' /\ step'[p] = first /\ frozen'[p] = tree /\ page'[p] = 0
        /\ \A y \in PR : WillSee(p, y)'
    BY DEF Early, WillSee, Restart, IInv, TypeOK
  <1>2. \A q \in PR \ {p} :
          /\ step'[q] = step[q] /\ frozen'[q] = frozen[q] /\ masterIds'[q] = masterIds[q]
          /\ page'[q] = page[q] /\ slid'[q] = slid[q]
          /\ listed'[q] = listed[q] /\ todo'[q] = todo[q] /\ claims'[q] = claims[q]
          /\ (q \in Open' <=> q \in Open)
    BY DEF Restart, IInv, TypeOK, Open
  <1>3. ASSUME NEW x \in PR \ {p}, NEW y \in PR \ {p}, WillSee(x, y) PROVE WillSee(x, y)'
    <2>1. TypeOK /\ head'[y] = head[y]
      BY DEF IInv
    <2>. QED  BY <1>2, <1>3, <2>1, StillSees
  <1>4. OneSeesTheOther'
    <2>. SUFFICES ASSUME NEW x \in Open', NEW y \in Open', x # y
                  PROVE  WillSee(x, y)' \/ WillSee(y, x)'
      BY DEF OneSeesTheOther
    <2>0. x \in PR /\ y \in PR
      BY DEF Open
    <2>1. CASE x = p \/ y = p
      BY <2>0, <2>1, <1>1
    <2>2. CASE x # p /\ y # p
      <3>1. x \in Open /\ y \in Open /\ x \in PR \ {p} /\ y \in PR \ {p}
        BY <2>0, <2>2, <1>2
      <3>2. WillSee(x, y) \/ WillSee(y, x)
        BY <3>1 DEF IInv, OneSeesTheOther
      <3>. QED  BY <3>1, <3>2, <1>3
    <2>. QED  BY <2>1, <2>2
  <1>5. KnowsItself'
    <2>. SUFFICES ASSUME NEW x \in Open' PROVE WillSee(x, x)'
      BY DEF KnowsItself
    <2>1. CASE x = p
      BY <2>1, <1>1
    <2>2. CASE x # p
      <3>1. x \in PR \ {p} /\ x \in Open
        BY <2>2, <1>2 DEF Open
      <3>2. WillSee(x, x)
        BY <3>1 DEF IInv, KnowsItself
      <3>. QED  BY <3>1, <3>2, <1>3
    <2>. QED  BY <2>1, <2>2
  <1>6. Decided'
    <2>. SUFFICES ASSUME NEW x \in Open', step'[x] = "green"
                  PROVE  /\ todo'[x] = {}
                         /\ x \in listed'[x] =>
                              \A q \in listed'[x] \ {x} : claims'[x][x] \cap claims'[x][q] = {}
      BY DEF Decided
    <2>1. x \in PR \ {p} /\ x \in Open
      BY <1>1, <1>2 DEF Open
    <2>. QED  BY <2>1, <1>2 DEF IInv, Decided
  <1>7. FrozenHolds'
    <2>. SUFFICES ASSUME NEW x \in Open'
                  PROVE  /\ step'[x] # "none" => head'[x] \ base'[x] \subseteq frozen'[x]
                         /\ step'[x] \in {"master", "list", "fetch", "green"} =>
                              Unique(frozen[x])' /\ AllInRange(frozen[x])'
      BY DEF FrozenHolds
    <2>1. CASE x = p
      BY <2>1, <1>1
    <2>2. CASE x # p
      <3>1. x \in PR \ {p} /\ x \in Open
        BY <2>2, <1>2 DEF Open
      <3>2. /\ Unique(frozen[x])' = Unique(frozen[x])
            /\ AllInRange(frozen[x])' = AllInRange(frozen[x])
        BY <3>1, <1>2, SameTree
      <3>3. step'[x] = step[x] /\ frozen'[x] = frozen[x] /\ head'[x] = head[x] /\ base'[x] = base[x]
        BY <3>1, <1>2
      <3>. QED  BY <3>1, <3>2, <3>3 DEF IInv, FrozenHolds
    <2>. QED  BY <2>1, <2>2
  <1>8. FromTheFirst'
    BY <1>1, <1>2 DEF FromTheFirst, IInv
  <1>. QED  BY <1>4, <1>5, <1>6, <1>7, <1>8 DEF IInv

(* A pull request that leaves takes its pairs with it; a list of which a    *)
(* page was read has slid.                                                  *)
LEMMA LeavingPreserves ==
  ASSUME IInv, TypeOK', NEW p \in PR, NEW how \in {"closed", "merged"}, Leave(p, how)
  PROVE  IInv'
  <1>1. Open' \subseteq Open
    BY DEF Leave, Open, IInv, TypeOK
  <1>2. ASSUME NEW x \in PR, NEW y \in PR, WillSee(x, y) PROVE WillSee(x, y)'
    <2>1. page[x] \in Nat
      BY DEF IInv, TypeOK
    <2>2. slid'[x] \/ step[x] # "list" \/ page[x] = 0
      <3>1. step[x] = "list" /\ page[x] > 0 => slid'[x]
        BY DEF Leave
      <3>. QED  BY <2>1, <3>1
    <2>3. slid[x] => slid'[x]
      BY DEF Leave
    <2>4. TypeOK
      BY DEF IInv
    <2>. QED  BY <1>2, <2>2, <2>3, <2>4, StillSees DEF Leave
  <1>3. OneSeesTheOther' /\ KnowsItself'
    BY <1>1, <1>2 DEF IInv, OneSeesTheOther, KnowsItself, Open
  <1>4. Decided' /\ FromTheFirst'
    BY <1>1 DEF IInv, Decided, FromTheFirst, Leave
  <1>5. FrozenHolds'
    <2>1. \A x \in PR : /\ Unique(frozen[x])' = Unique(frozen[x])
                        /\ AllInRange(frozen[x])' = AllInRange(frozen[x])
      BY SameTree DEF Leave
    <2>2. Open \subseteq PR
      BY DEF Open
    <2>. QED  BY <1>1, <2>1, <2>2 DEF IInv, FrozenHolds, Leave
  <1>. QED  BY <1>3, <1>4, <1>5 DEF IInv

LEMMA FirstStep ==
  ASSUME NEW b, NEW h
  PROVE  /\ (IF Clean(b, h) THEN "checkout" ELSE "none") \in {"none", "checkout"}
         /\ h \ b \subseteq Merged(b, h)
  BY DEF Merged

LEMMA PeoplePreserve ==
  ASSUME IInv, TypeOK', NEW p \in PR,
         OpenRequest(p) \/ Push(p) \/ Close(p) \/ Reopen(p) \/ Rerun(p) \/ Merge(p)
  PROVE  IInv'
  <1>1. CASE OpenRequest(p)
    <2>1. PICK h \in Edits(p, master) :
            /\ status' = [status EXCEPT ![p] = "open"]
            /\ base' = [base EXCEPT ![p] = master]
            /\ head' = [head EXCEPT ![p] = h]
            /\ Event(p, master, h)
      BY <1>1 DEF OpenRequest
    <2>2. base'[p] = master /\ head'[p] = h
      BY <2>1 DEF IInv, TypeOK
    <2>3. \A q \in PR \ {p} : status'[q] = status[q] /\ base'[q] = base[q] /\ head'[q] = head[q]
      BY <2>1 DEF IInv, TypeOK
    <2>4. Open \subseteq Open'
      BY <2>1 DEF Open, IInv, TypeOK
    <2>. QED  BY <2>1, <2>2, <2>3, <2>4, FirstStep, RestartPreserves DEF Event
  <1>2. CASE Push(p)
    <2>1. PICK b \in {base[p], master} :
            \E h \in Edits(p, b) \ {head[p]} :
              /\ base' = [base EXCEPT ![p] = b]
              /\ head' = [head EXCEPT ![p] = h]
              /\ Event(p, b, h)
      BY <1>2 DEF Push
    <2>2. PICK h \in Edits(p, b) \ {head[p]} :
            /\ base' = [base EXCEPT ![p] = b]
            /\ head' = [head EXCEPT ![p] = h]
            /\ Event(p, b, h)
      BY <2>1
    <2>3. base'[p] = b /\ head'[p] = h
      BY <2>2 DEF IInv, TypeOK
    <2>4. \A q \in PR \ {p} : status'[q] = status[q] /\ base'[q] = base[q] /\ head'[q] = head[q]
      BY <1>2, <2>2 DEF IInv, TypeOK, Push
    <2>5. Open \subseteq Open'
      BY <1>2 DEF Push, Open
    <2>. QED  BY <2>2, <2>3, <2>4, <2>5, FirstStep, RestartPreserves DEF Event
  <1>3. CASE Close(p)
    BY <1>3, LeavingPreserves DEF Close
  <1>4. CASE Reopen(p)
    <2>1. \A q \in PR \ {p} : status'[q] = status[q] /\ base'[q] = base[q] /\ head'[q] = head[q]
      BY <1>4 DEF Reopen, IInv, TypeOK
    <2>2. base'[p] = base[p] /\ head'[p] = head[p] /\ Event(p, base[p], head[p])
      BY <1>4 DEF Reopen
    <2>3. Open \subseteq Open'
      BY <1>4 DEF Reopen, Open, IInv, TypeOK
    <2>. QED  BY <2>1, <2>2, <2>3, FirstStep, RestartPreserves DEF Event
  <1>5. CASE Rerun(p)
    <2>1. \A q \in PR \ {p} : status'[q] = status[q] /\ base'[q] = base[q] /\ head'[q] = head[q]
      BY <1>5 DEF Rerun, repo
    <2>2. head'[p] \ base'[p] \subseteq frozen[p]
      BY <1>5 DEF Rerun, repo, IInv, FrozenHolds, Open
    <2>3. Open \subseteq Open'
      BY <1>5 DEF Rerun, repo, Open
    <2>. QED  BY <1>5, <2>1, <2>2, <2>3, RestartPreserves DEF Rerun
  <1>6. CASE Merge(p)
    BY <1>6, LeavingPreserves DEF Merge
  <1>. QED  BY <1>1, <1>2, <1>3, <1>4, <1>5, <1>6

(* A step of a run changes what that run knows and nothing else.            *)
LEMMA JobPreserves ==
  ASSUME IInv, TypeOK', NEW p \in PR,
         \/ CheckTree(p) \/ ReadMaster(p) \/ ListPage(p) \/ Decide(p) \/ Fail(p)
         \/ \E q \in PR : Fetch(p, q)
  PROVE  IInv'
  <1>1. UNCHANGED <<repo, frozen, slid>> /\ Open' = Open /\ \A q \in PR : Rank(q)' = Rank(q)
    BY DEF CheckTree, ReadMaster, ListPage, Decide, Fail, Fetch, repo, Open, Rank
  <1>2. \A q \in PR \ {p} :
          /\ step'[q] = step[q] /\ masterIds'[q] = masterIds[q] /\ listed'[q] = listed[q]
          /\ page'[q] = page[q] /\ todo'[q] = todo[q] /\ claims'[q] = claims[q]
    BY DEF CheckTree, ReadMaster, ListPage, Decide, Fail, Fetch, IInv, TypeOK
  <1>3. Open \subseteq PR /\ \A q \in PR : Ids(head[q])' = Ids(head[q])
    BY <1>1 DEF Open, Ids, repo
  <1>4. ASSUME NEW x \in PR, NEW q \in Open, WillSee(x, q) PROVE WillSee(x, q)'
    <2>1. q \in PR /\ Rank(q) \in Nat /\ page[x] \in Nat /\ PageSize \in Nat /\ PageSize > 0
      <3>1. q \in PR /\ Rank(q) \in Nat
        BY <1>3, RankType
      <3>2. page[x] \in Nat
        BY DEF IInv, TypeOK
      <3>3. PageSize \in Nat /\ PageSize > 0
        BY PageSizeType
      <3>. QED  BY <3>1, <3>2, <3>3
    <2>2. CASE x # p
      <3>1. /\ TypeOK /\ head'[q] = head[q] /\ slid'[x] = slid[x] /\ Open \subseteq Open'
            /\ x \in PR \ {p}
        BY <1>1, <2>2 DEF IInv, repo
      <3>. QED  BY <1>2, <1>4, <2>1, <3>1, StillSees
    <2>3. CASE x = p /\ slid[p]
      BY <1>1, <2>3 DEF WillSee
    <2>4. CASE x = p /\ ~slid[p]
      <3>1. CASE CheckTree(p) \/ Fail(p)
        BY <2>4, <3>1 DEF CheckTree, Fail, WillSee, Early, IInv, TypeOK
      <3>2. CASE ReadMaster(p)
        <4>1. page'[p] = 0 /\ step'[p] = "list"
          BY <3>2 DEF ReadMaster, IInv, FromTheFirst, TypeOK
        <4>2. page'[p] * PageSize = 0
          BY <2>1, <4>1
        <4>3. Rank(q)' >= page'[p] * PageSize
          BY <1>1, <2>1, <4>2
        <4>. QED  BY <2>4, <4>1, <4>3 DEF WillSee, WillList
      <3>3. CASE ListPage(p)
        <4>1. WillList(p, q)
          BY <1>4, <2>4, <3>3 DEF ListPage, WillSee, Early, Knows, Past
        <4>2. CASE q \in listed[p]
          BY <2>4, <3>3, <4>2 DEF ListPage, WillSee, WillList, Knows, Past, IInv, TypeOK
        <4>3. CASE Rank(q) >= page[p] * PageSize
          <5>1. page[p] \in Nat /\ page[p] * PageSize \in Nat /\ (page[p] + 1) * PageSize \in Nat
            BY <2>1, <2>4
          <5>2. q \in Page(page[p]) \/ Rank(q) >= (page[p] + 1) * PageSize
            BY <2>1, <4>3, <5>1 DEF Page
          <5>3. CASE q \in Page(page[p])
            BY <2>4, <3>3, <5>3 DEF ListPage, WillSee, WillList, Knows, Past, IInv, TypeOK
          <5>4. CASE Rank(q) >= (page[p] + 1) * PageSize
            <6>1. ~(Cardinality(Page(page[p])) < PageSize)
              BY <2>1, <5>1, <5>4, LastPage
            <6>2. page'[p] = page[p] + 1 /\ step'[p] = "list"
              BY <3>3, <6>1 DEF ListPage, IInv, TypeOK
            <6>. QED  BY <1>1, <2>1, <2>4, <5>4, <6>2 DEF WillSee, WillList
          <5>. QED  BY <5>2, <5>3, <5>4
        <4>. QED  BY <4>1, <4>2, <4>3 DEF WillList
      <3>4. CASE Decide(p)
        <4>1. Knows(p, q)
          BY <1>4, <2>4, <3>4 DEF Decide, WillSee, Early, WillList
        <4>2. Knows(p, q)' \/ Early(p)'
          BY <1>3, <2>1, <3>4, <4>1 DEF Decide, Knows, Past, Early, IInv, TypeOK
        <4>. QED  BY <2>4, <4>2 DEF WillSee
      <3>5. ASSUME NEW r \in PR, Fetch(p, r) PROVE WillSee(p, q)'
        <4>1. Knows(p, q)
          BY <1>4, <2>4, <3>5 DEF Fetch, WillSee, Early, WillList
        <4>2. Knows(p, q)'
          BY <1>3, <2>1, <3>5, <4>1 DEF Fetch, Knows, Past, IInv, TypeOK
        <4>. QED  BY <4>2 DEF WillSee
      <3>. QED  BY <2>4, <3>1, <3>2, <3>3, <3>4, <3>5
    <2>. QED  BY <2>2, <2>3, <2>4
  <1>5. OneSeesTheOther' /\ KnowsItself'
    BY <1>1, <1>3, <1>4 DEF IInv, OneSeesTheOther, KnowsItself
  <1>6. Decided'
    <2>. SUFFICES ASSUME NEW x \in Open, step'[x] = "green"
                  PROVE  /\ todo'[x] = {}
                         /\ x \in listed'[x] =>
                              \A q \in listed'[x] \ {x} : claims'[x][x] \cap claims'[x][q] = {}
      BY <1>1 DEF Decided
    <2>1. CASE x # p
      BY <2>1, <1>2, <1>3 DEF IInv, Decided
    <2>2. CASE x = p
      <3>1. Decide(p)
        BY <2>2 DEF CheckTree, ReadMaster, ListPage, Fail, Fetch, IInv, TypeOK
      <3>2. todo[p] = {} /\ UNCHANGED <<listed, todo, claims>>
        BY <3>1 DEF Decide
      <3>3. \A pair \in Pairs(p) : claims[p][pair[1]] \cap claims[p][pair[2]] = {}
        BY <3>1, <2>2 DEF Decide, IInv, TypeOK
      <3>4. ASSUME p \in listed[p], NEW q \in listed[p] \ {p}
            PROVE  claims[p][p] \cap claims[p][q] = {}
        <4>1. <<p, q>> \in Pairs(p)
          BY <3>4 DEF Pairs
        <4>2. <<p, q>>[1] = p /\ <<p, q>>[2] = q
          OBVIOUS
        <4>. QED  BY <3>3, <4>1, <4>2, Zenon
      <3>. QED  BY <2>2, <3>2, <3>4
    <2>. QED  BY <2>1, <2>2
  <1>7. FrozenHolds'
    <2>. SUFFICES ASSUME NEW x \in Open
                  PROVE  /\ step'[x] # "none" => head[x] \ base[x] \subseteq frozen[x]
                         /\ step'[x] \in {"master", "list", "fetch", "green"} =>
                              Unique(frozen[x]) /\ AllInRange(frozen[x])
      <3>1. \A x \in PR : /\ Unique(frozen[x])' = Unique(frozen[x])
                          /\ AllInRange(frozen[x])' = AllInRange(frozen[x])
        BY <1>1, SameTree
      <3>. QED  BY <1>1, <1>3, <3>1 DEF FrozenHolds, repo
    <2>1. CASE x # p
      BY <2>1, <1>2, <1>3 DEF IInv, FrozenHolds
    <2>2. CASE x = p
      BY <2>2 DEF CheckTree, ReadMaster, ListPage, Decide, Fail, Fetch, IInv, TypeOK, FrozenHolds
    <2>. QED  BY <2>1, <2>2
  <1>8. FromTheFirst'
    <2>1. step'[p] \in {"none", "checkout", "master"} => page'[p] = 0
      BY DEF CheckTree, ReadMaster, ListPage, Decide, Fail, Fetch, IInv, TypeOK, FromTheFirst
    <2>. QED  BY <2>1, <1>2 DEF IInv, FromTheFirst
  <1>. QED  BY <1>5, <1>6, <1>7, <1>8 DEF IInv

LEMMA StutterPreserves ==
  ASSUME IInv, UNCHANGED vars
  PROVE  IInv'
  <1>1. TypeOK /\ TypeOK' /\ Open' = Open /\ Open \subseteq PR
    BY DEF vars, repo, job, Open, IInv, TypeOK
  <1>2. ASSUME NEW x \in PR, NEW y \in PR, WillSee(x, y) PROVE WillSee(x, y)'
    BY <1>1, <1>2, StillSees DEF vars, repo, job
  <1>3. OneSeesTheOther' /\ KnowsItself'
    BY <1>1, <1>2 DEF IInv, OneSeesTheOther, KnowsItself
  <1>4. Decided' /\ FromTheFirst'
    BY <1>1 DEF IInv, Decided, FromTheFirst, vars, job
  <1>5. FrozenHolds'
    <2>1. \A x \in PR : /\ Unique(frozen[x])' = Unique(frozen[x])
                        /\ AllInRange(frozen[x])' = AllInRange(frozen[x])
      BY SameTree DEF vars, job
    <2>. QED  BY <1>1, <2>1 DEF IInv, FrozenHolds, vars, repo, job
  <1>. QED  BY <1>1, <1>3, <1>4, <1>5 DEF IInv

LEMMA InitHolds == Init => IInv
  <1>. SUFFICES ASSUME Init PROVE IInv
    OBVIOUS
  <1>1. Open = {}
    BY DEF Init, Open
  <1>2. FromTheFirst
    BY DEF Init, FromTheFirst
  <1>. QED  BY <1>1, <1>2, InitTypes DEF IInv, OneSeesTheOther, KnowsItself, Decided, FrozenHolds

(***************************************************************************)
(* At every moment one of two open pull requests has the other still to    *)
(* look at or knows its present head (check-cross-pr-object-ids.py         *)
(* 119-132 and 185-221), for any number of pull requests and any size of   *)
(* a page, unless its list slid.                                           *)
(***************************************************************************)
THEOREM InductiveInvariant == Spec => []IInv
  <1>1. IInv /\ [Next]_vars => IInv'
    <2>. SUFFICES ASSUME IInv, [Next]_vars PROVE IInv'
      OBVIOUS
    <2>1. TypeOK'
      BY NextTypes DEF IInv
    <2>2. CASE UNCHANGED vars
      BY <2>2, StutterPreserves
    <2>3. CASE Next
      BY <2>1, <2>3, PeoplePreserve, JobPreserves DEF Next
    <2>. QED  BY <2>2, <2>3
  <1>. QED  BY <1>1, InitHolds, PTL DEF Spec

(* The gate's state keeps its types.                                        *)
THEOREM TypeCorrect == Spec => []TypeOK
  <1>1. IInv => TypeOK
    BY DEF IInv
  <1>. QED  BY <1>1, InductiveInvariant, PTL

(***************************************************************************)
(* Two open pull requests that introduce one id are never both green,      *)
(* unless master declared the id when one was checked or one of the two    *)
(* lists slid between its pages (check-cross-pr-object-ids.py 19-26,       *)
(* 119-132 and 201-221).                                                   *)
(***************************************************************************)
THEOREM RivalsNeverBothGreenHolds == Spec => []RivalsNeverBothGreen
  <1>1. IInv => RivalsNeverBothGreen
    <2>. SUFFICES ASSUME IInv, NEW x \in PR, NEW y \in PR, x # y, Green(x), Green(y),
                         ~slid[x], ~slid[y]
                  PROVE  Introduced(x) \cap Introduced(y) \subseteq masterIds[x] \cup masterIds[y]
      BY DEF RivalsNeverBothGreen, Rivals
    <2>1. x \in Open /\ y \in Open /\ step[x] = "green" /\ step[y] = "green"
      BY DEF Green, Open
    <2>2. ASSUME NEW p \in Open, NEW q \in Open, p # q, step[p] = "green", ~slid[p],
                 WillSee(p, q)
          PROVE  Ids(head[p]) \cap Ids(head[q]) \subseteq masterIds[p]
      <3>1. todo[p] = {}
        BY <2>2 DEF IInv, Decided
      <3>2. q \in listed[p] /\ claims[p][q] = Ids(head[q]) \ masterIds[p]
        BY <2>2, <3>1 DEF WillSee, Early, WillList, Knows
      <3>3. p \in listed[p] /\ claims[p][p] = Ids(head[p]) \ masterIds[p]
        BY <2>2, <3>1 DEF IInv, KnowsItself, WillSee, Early, WillList, Knows
      <3>4. claims[p][p] \cap claims[p][q] = {}
        BY <2>2, <3>2, <3>3 DEF IInv, Decided
      <3>. QED  BY <3>2, <3>3, <3>4
    <2>3. Introduced(x) \subseteq Ids(head[x]) /\ Introduced(y) \subseteq Ids(head[y])
      BY DEF Introduced
    <2>4. WillSee(x, y) \/ WillSee(y, x)
      BY <2>1 DEF IInv, OneSeesTheOther
    <2>5. CASE WillSee(x, y)
      BY <2>1, <2>2, <2>3, <2>5
    <2>6. CASE WillSee(y, x)
      <3>1. Ids(head[y]) \cap Ids(head[x]) \subseteq masterIds[y]
        BY <2>1, <2>2, <2>6
      <3>. QED  BY <3>1, <2>3
    <2>. QED  BY <2>4, <2>5, <2>6
  <1>. QED  BY <1>1, InductiveInvariant, PTL

(***************************************************************************)
(* A green pull request clashes with nothing its merge tree had            *)
(* (check-object-ids.py 90-116, ci.yml 143-144).                           *)
(***************************************************************************)
THEOREM ClashesAreNewcomersHolds == Spec => []ClashesAreNewcomers
  <1>1. IInv => ClashesAreNewcomers
    <2>. SUFFICES ASSUME IInv, NEW p \in PR, Green(p), NEW d \in Added(p),
                         NEW e \in Merged(base[p], head[p]) \cap frozen[p] \cap Decl, d # e
                  PROVE  IdOf[d] # IdOf[e]
      BY DEF ClashesAreNewcomers
    <2>1. p \in Open /\ step[p] = "green"
      BY DEF Green, Open
    <2>2. d \in frozen[p] /\ d \in Decl /\ Unique(frozen[p])
      BY <2>1 DEF IInv, FrozenHolds, Added
    <2>. QED  BY <2>2 DEF Unique
  <1>. QED  BY <1>1, InductiveInvariant, PTL

(***************************************************************************)
(* A green pull request adds no id twice, and nothing outside the ranges   *)
(* that its app will have after the merge unless they changed since the    *)
(* merge tree was made: its own declarations are in the tree that was      *)
(* checked (check-object-ids.py 90-116).                                   *)
(***************************************************************************)
THEOREM AddsOnlyTheAllowedHolds == Spec => []AddsOnlyTheAllowed
  <1>1. IInv => AddsOnlyTheAllowed
    <2>. DEFINE After(p) == Merged(base[p], head[p])
    <2>. SUFFICES ASSUME IInv, NEW p \in PR, Green(p)
                  PROVE  /\ Unique(Added(p))
                         /\ \A d \in Added(p) :
                              \/ InRange(After(p), d)
                              \/ Ranges(After(p), AppOf[d]) # Ranges(frozen[p], AppOf[d])
      BY DEF AddsOnlyTheAllowed
    <2>1. p \in Open /\ step[p] = "green"
      BY DEF Green, Open
    <2>2. /\ Added(p) \subseteq frozen[p] \cap Decl
          /\ Unique(frozen[p]) /\ AllInRange(frozen[p])
      BY <2>1 DEF IInv, FrozenHolds, Added
    <2>3. Unique(Added(p))
      BY <2>2 DEF Unique
    <2>4. ASSUME NEW d \in Added(p), Ranges(After(p), AppOf[d]) = Ranges(frozen[p], AppOf[d])
          PROVE  InRange(After(p), d)
      <3>1. InRange(frozen[p], d)
        BY <2>2 DEF AllInRange
      <3>. HIDE DEF After
      <3>. QED  BY <2>4, <3>1 DEF InRange
    <2>. QED  BY <2>3, <2>4
  <1>. QED  BY <1>1, InductiveInvariant, PTL

=============================================================================
