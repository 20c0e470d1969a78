---------------------------- MODULE ObjectIdGate ----------------------------
(***************************************************************************)
(* The object id gate of pull requests: the object-ids job of ci.yml with  *)
(* check-object-ids.py (this tree) and check-cross-pr-object-ids.py (this  *)
(* pull request against the other open ones).  The job reads four things   *)
(* at four moments: a merge tree frozen by the event, master, the list of  *)
(* open pull requests, and their heads, while the people of the project    *)
(* open, push, merge, close, reopen and re-run.                            *)
(*                                                                         *)
(* A declaration is an object of an AL file; IdOf is its kind and id.  A   *)
(* block is an entry of the idRanges of an app.json.  The advisory sweep   *)
(* on master only prints.  A merge needs the gate, and the branch need not *)
(* be up to date; the other required checks allow every merge here.        *)
(***************************************************************************)
EXTENDS Integers, FiniteSets

CONSTANTS
  PR,       \* pull requests, by their numbers: in the order they are opened
  PageSize, \* entries of a page of the API's list: 100
  Decl,
  Id,
  IdOf,     \* declaration -> its (kind, id)
  Block,
  Covers,   \* block -> the (kind, id)s in it
  AppOf,    \* declaration or block -> its app
  Owned,    \* pull request -> what it may add or remove
  Start     \* the tree of master before any of them

ASSUME PRType == PR \subseteq Nat /\ IsFiniteSet(PR)
ASSUME PageSizeType == PageSize \in Nat \ {0}
ASSUME IdOfType == IdOf \in [Decl -> Id]
ASSUME CoversType == Covers \in [Block -> SUBSET Id] /\ Decl \cap Block = {}
ASSUME OwnedType == Owned \in [PR -> SUBSET (Decl \cup Block)]
ASSUME StartType == Start \subseteq Decl \cup Block

VARIABLES
  master,      \* the tree of master
  status,      \* pull request -> "new", "open", "closed" or "merged"
  base,        \* pull request -> the tree it branched from
  head,        \* pull request -> the tree of its head commit
  step,        \* where its latest CI run is; "green" and "red" are verdicts
  frozen,      \* the merge commit that the run checks out
  masterIds,   \* what the run read of master
  page,        \* the page of the list that it reads next, from 0
  listed,      \* the open pull requests that the API listed to it
  todo,        \* those not fetched yet
  claims,      \* what each of the others claims
  slid,        \* history: did one leave between two pages of its list?
  asked        \* history: what was there when the run was asked for

repo == <<master, status, base, head>>
job == <<step, frozen, masterIds, page, listed, todo, claims, slid, asked>>
vars == <<repo, job>>

Tree == SUBSET (Decl \cup Block)
Step == {"none", "checkout", "master", "list", "fetch", "green", "red"}

Ids(tree) == {IdOf[d] : d \in tree \cap Decl}
Unique(tree) == \A d, e \in tree \cap Decl : d # e => IdOf[d] # IdOf[e]

(* An app.json without idRanges allows every id *)
Ranges(tree, app) == {r \in tree \cap Block : AppOf[r] = app}
InRange(tree, d) ==
  LET ranges == Ranges(tree, AppOf[d])
  IN  ranges # {} => \E r \in ranges : IdOf[d] \in Covers[r]
AllInRange(tree) == \A d \in tree \cap Decl : InRange(tree, d)

(* git merges b's descendant h into master; both adding one file or block   *)
(* is a conflict                                                            *)
Clean(b, h) == (h \ b) \cap (master \ b) = {}
Merged(b, h) == (master \ (b \ h)) \cup (h \ b)

Open == {p \in PR : status[p] = "open"}
Introduced(p) == Ids(head[p]) \ Ids(base[p])

(* The API lists the newest first; page k as it would answer now *)
Rank(q) == Cardinality({r \in Open : r > q})
Page(k) == {q \in Open : Rank(q) \in k * PageSize .. (k + 1) * PageSize - 1}

TypeOK ==
  /\ master \in Tree
  /\ status \in [PR -> {"new", "open", "closed", "merged"}]
  /\ base \in [PR -> Tree]
  /\ head \in [PR -> Tree]
  /\ step \in [PR -> Step]
  /\ frozen \in [PR -> Tree]
  /\ masterIds \in [PR -> SUBSET Id]
  /\ page \in [PR -> Nat]
  /\ listed \in [PR -> SUBSET PR]
  /\ todo \in [PR -> SUBSET PR]
  /\ claims \in [PR -> [PR -> SUBSET Id]]
  /\ slid \in [PR -> BOOLEAN]
  /\ asked \in [PR -> [master : Tree, claimed : [PR -> SUBSET Id]]]

Nobody == [q \in PR |-> {}]

Init ==
  /\ master = Start
  /\ status = [p \in PR |-> "new"]
  /\ base = [p \in PR |-> {}]
  /\ head = [p \in PR |-> {}]
  /\ step = [p \in PR |-> "none"]
  /\ frozen = [p \in PR |-> {}]
  /\ masterIds = [p \in PR |-> {}]
  /\ page = [p \in PR |-> 0]
  /\ listed = [p \in PR |-> {}]
  /\ todo = [p \in PR |-> {}]
  /\ claims = [p \in PR |-> Nobody]
  /\ slid = [p \in PR |-> FALSE]
  /\ asked = [p \in PR |-> [master |-> {}, claimed |-> Nobody]]

-----------------------------------------------------------------------------
(* A run starts over; it supersedes the one in progress                     *)
Restart(p, first, tree) ==
  /\ step' = [step EXCEPT ![p] = first]
  /\ frozen' = [frozen EXCEPT ![p] = tree]
  /\ masterIds' = [masterIds EXCEPT ![p] = {}]
  /\ page' = [page EXCEPT ![p] = 0]
  /\ listed' = [listed EXCEPT ![p] = {}]
  /\ todo' = [todo EXCEPT ![p] = {}]
  /\ claims' = [claims EXCEPT ![p] = Nobody]
  /\ slid' = [slid EXCEPT ![p] = FALSE]
  /\ asked' = [asked EXCEPT ![p] =
       [master |-> master,
        claimed |-> [q \in PR |-> IF q \in Open \ {p} THEN Introduced(q) ELSE {}]]]

(* A pull_request event checks out the merge with the master of that moment; *)
(* there is no such merge, and no run, while the two conflict                *)
Event(p, b, h) == Restart(p, IF Clean(b, h) THEN "checkout" ELSE "none", Merged(b, h))

(* Any edit of p on top of the tree b: it has of Owned what p wants *)
Edits(p, b) == {(b \ Owned[p]) \cup new : new \in SUBSET Owned[p]}

OpenRequest(p) ==
  /\ status[p] = "new"
  /\ \A q \in PR : q < p => status[q] # "new"
  /\ \E h \in Edits(p, master) :
       /\ status' = [status EXCEPT ![p] = "open"]
       /\ base' = [base EXCEPT ![p] = master]
       /\ head' = [head EXCEPT ![p] = h]
       /\ Event(p, master, h)
  /\ UNCHANGED master

(* More commits, on the old base or on a master merged into the branch      *)
Push(p) ==
  /\ status[p] = "open"
  /\ \E b \in {base[p], master} : \E h \in Edits(p, b) \ {head[p]} :
       /\ base' = [base EXCEPT ![p] = b]
       /\ head' = [head EXCEPT ![p] = h]
       /\ Event(p, b, h)
  /\ UNCHANGED <<master, status>>

(* No longer open: those after it move up in the list that others read *)
Leave(p, how) ==
  /\ status' = [status EXCEPT ![p] = how]
  /\ slid' = [q \in PR |-> slid[q] \/ (step[q] = "list" /\ page[q] > 0)]
  /\ UNCHANGED <<base, head, step, frozen, masterIds, page, listed, todo, claims, asked>>

Close(p) ==
  /\ status[p] = "open"
  /\ Leave(p, "closed")
  /\ UNCHANGED master

Reopen(p) ==
  /\ status[p] = "closed"
  /\ status' = [status EXCEPT ![p] = "open"]
  /\ Event(p, base[p], head[p])
  /\ UNCHANGED <<master, base, head>>

(* A re-run checks out the commit of the run that it repeats *)
Rerun(p) ==
  /\ status[p] = "open"
  /\ step[p] \in {"green", "red"}
  /\ Restart(p, "checkout", frozen[p])
  /\ UNCHANGED repo

Merge(p) ==
  /\ status[p] = "open"
  /\ step[p] = "green"
  /\ Clean(base[p], head[p])
  /\ Leave(p, "merged")
  /\ master' = Merged(base[p], head[p])

-----------------------------------------------------------------------------
(* Mutant of CheckTree: only what the pull request adds is looked at         *)
CheckTreeOfAdded(p) ==
  /\ step[p] = "checkout"
  /\ step' = [step EXCEPT ![p] = IF Unique(head[p] \ base[p]) THEN "master" ELSE "red"]
  /\ UNCHANGED <<repo, frozen, masterIds, page, listed, todo, claims, slid, asked>>

(* Mutant of CheckTree: the ranges are not looked at                         *)
CheckTreeIdsOnly(p) ==
  /\ step[p] = "checkout"
  /\ step' = [step EXCEPT ![p] = IF Unique(frozen[p]) THEN "master" ELSE "red"]
  /\ UNCHANGED <<repo, frozen, masterIds, page, listed, todo, claims, slid, asked>>

(* check-object-ids.py on the merge tree *)
CheckTree(p) ==
  /\ step[p] = "checkout"
  /\ step' = [step EXCEPT ![p] =
       IF Unique(frozen[p]) /\ AllInRange(frozen[p]) THEN "master" ELSE "red"]
  /\ UNCHANGED <<repo, frozen, masterIds, page, listed, todo, claims, slid, asked>>

(* master_ids = set(decls_at(base)), fetched by the step before *)
ReadMaster(p) ==
  /\ step[p] = "master"
  /\ step' = [step EXCEPT ![p] = "list"]
  /\ masterIds' = [masterIds EXCEPT ![p] = Ids(master)]
  /\ UNCHANGED <<repo, frozen, page, listed, todo, claims, slid, asked>>

(* prs = open_prs(repo): one page; a page that is not full is the last       *)
ListPage(p) ==
  LET batch == Page(page[p])
  IN  /\ step[p] = "list"
      /\ listed' = [listed EXCEPT ![p] = @ \cup batch]
      /\ IF Cardinality(batch) < PageSize
           THEN /\ step' = [step EXCEPT ![p] = "fetch"]
                /\ todo' = [todo EXCEPT ![p] = listed[p] \cup batch]
                /\ UNCHANGED page
           ELSE /\ page' = [page EXCEPT ![p] = @ + 1]
                /\ UNCHANGED <<step, todo>>
      /\ UNCHANGED <<repo, frozen, masterIds, claims, slid, asked>>

(* The ids at the head of q, as fetched now, that master did not have *)
Fetch(p, q) ==
  /\ step[p] = "fetch"
  /\ q \in todo[p]
  /\ todo' = [todo EXCEPT ![p] = @ \ {q}]
  /\ claims' = [claims EXCEPT ![p][q] = Ids(head[q]) \ masterIds[p]]
  /\ UNCHANGED <<repo, step, frozen, masterIds, page, listed, slid, asked>>

(* Mutant of Pairs: a green pull request was compared already                *)
PairsUnchecked(p) == {p} \X {q \in listed[p] \ {p} : step[q] # "green"}

(* This one against the others; all pairs when this one is no longer open   *)
Pairs(p) ==
  IF p \in listed[p] THEN {p} \X (listed[p] \ {p})
  ELSE {pair \in listed[p] \X listed[p] : pair[1] # pair[2]}

Decide(p) ==
  /\ step[p] = "fetch"
  /\ todo[p] = {}
  /\ step' = [step EXCEPT ![p] =
       IF \E pair \in Pairs(p) : claims[p][pair[1]] \cap claims[p][pair[2]] # {}
         THEN "red" ELSE "green"]
  /\ UNCHANGED <<repo, frozen, masterIds, page, listed, todo, claims, slid, asked>>

(* A missing token, an API error, git that fails: the job fails *)
Fail(p) ==
  /\ step[p] \in {"master", "list", "fetch"}
  /\ step' = [step EXCEPT ![p] = "red"]
  /\ UNCHANGED <<repo, frozen, masterIds, page, listed, todo, claims, slid, asked>>

Next ==
  \E p \in PR :
    \/ OpenRequest(p) \/ Push(p) \/ Close(p) \/ Reopen(p) \/ Rerun(p) \/ Merge(p)
    \/ CheckTree(p) \/ ReadMaster(p) \/ ListPage(p)
    \/ \E q \in PR : Fetch(p, q)
    \/ Decide(p) \/ Fail(p)

Spec == Init /\ [][Next]_vars

-----------------------------------------------------------------------------
Green(p) == status[p] = "open" /\ step[p] = "green"
Added(p) == (head[p] \ base[p]) \cap Decl

(***************************************************************************)
(* The gate's promise (check-cross-pr-object-ids.py 19-26): of two open    *)
(* pull requests that introduce one id, not both are green, in whatever    *)
(* order they were opened, pushed, checked and reopened.  The exceptions   *)
(* are an id that master declared while one of them was checked, and a     *)
(* list of several pages from which a pull request left between two pages. *)
(***************************************************************************)
Rivals(p, q) ==
  /\ p # q
  /\ ~(Introduced(p) \cap Introduced(q) \subseteq masterIds[p] \cup masterIds[q])

RivalsNeverBothGreen ==
  \A p, q \in PR :
    Green(p) /\ Green(q) /\ Rivals(p, q) => slid[p] \/ slid[q]

(***************************************************************************)
(* A green pull request is stale in one way only: merging it duplicates no *)
(* declaration that its merge tree had, so whatever it clashes with came   *)
(* to master after the event of its run (ci.yml 143-144).                  *)
(***************************************************************************)
ClashesAreNewcomers ==
  \A p \in PR :
    Green(p) =>
      \A d \in Added(p) : \A e \in Merged(base[p], head[p]) \cap frozen[p] \cap Decl :
        d # e => IdOf[d] # IdOf[e]

(***************************************************************************)
(* What a green pull request adds to master holds no id twice and is       *)
(* inside the ranges that its app will have, although the job never looks  *)
(* at the head: it checks a merge tree, of another time in a re-run.  The  *)
(* exception are ranges that changed on master since that tree was made.   *)
(***************************************************************************)
AddsOnlyTheAllowed ==
  \A p \in PR :
    Green(p) =>
      LET after == Merged(base[p], head[p])
      IN  /\ Unique(Added(p))
          /\ \A d \in Added(p) :
               \/ InRange(after, d)
               \/ Ranges(after, AppOf[d]) # Ranges(frozen[p], AppOf[d])

(***************************************************************************)
(* Why two rivals cannot both be green: for two open pull requests, one of *)
(* the two runs has the other still to look at, or has seen the head that  *)
(* it has now.                                                             *)
(***************************************************************************)
Early(p) == step[p] \in {"none", "checkout", "master", "red"}
Past(p) == step[p] \in {"fetch", "green"}

(* Listed already, or on a page to come: who arrives only moves it back *)
WillList(p, q) ==
  /\ step[p] = "list"
  /\ q \in listed[p] \/ Rank(q) >= page[p] * PageSize

Knows(p, q) ==
  /\ Past(p) /\ q \in listed[p]
  /\ q \in todo[p] \/ claims[p][q] = Ids(head[q]) \ masterIds[p]

WillSee(p, q) == slid[p] \/ Early(p) \/ WillList(p, q) \/ Knows(p, q)

OneSeesTheOther ==
  \A p, q \in Open : p # q => WillSee(p, q) \/ WillSee(q, p)

(* A run reads the list from its first page *)
FromTheFirst == \A p \in PR : step[p] \in {"none", "checkout", "master"} => page[p] = 0

(* A run is not blind to its own pull request *)
KnowsItself == \A p \in Open : WillSee(p, p)

Decided ==
  \A p \in Open :
    step[p] = "green" =>
      /\ todo[p] = {}
      /\ p \in listed[p] => \A q \in listed[p] \ {p} : claims[p][p] \cap claims[p][q] = {}

(* The merge tree holds the head's own declarations and has no id twice,    *)
(* nor one outside the ranges                                               *)
FrozenHolds ==
  \A p \in Open :
    /\ step[p] # "none" => head[p] \ base[p] \subseteq frozen[p]
    /\ step[p] \in {"master", "list", "fetch", "green"} =>
         Unique(frozen[p]) /\ AllInRange(frozen[p])

IInv ==
  /\ TypeOK /\ FromTheFirst
  /\ OneSeesTheOther /\ KnowsItself /\ Decided /\ FrozenHolds

(***************************************************************************)
(* A finding.  The script's documentation says that a collision is         *)
(* reported on both pull requests and that neither can merge until one     *)
(* renumbers.  A run that was asked for while the rival was open can still *)
(* end green: the rival merges before the run reads master.                *)
(***************************************************************************)
NeitherCanMerge ==
  \A p, q \in PR :
    Green(p) /\ status[q] = "merged" =>
      Introduced(p) \cap Introduced(q) \cap asked[p].claimed[q] = {}

=============================================================================
