--------------------------- MODULE ReferenceGraph ---------------------------
(***************************************************************************)
(* The reference graph of the test apps' objects that                      *)
(* .github/scripts/select-tests.py builds (class Graph), and what a set of *)
(* changed objects affects in it.  The data is the parsed head tree: it    *)
(* does not change while the script runs, so a graph is a value here.      *)
(*                                                                         *)
(* A name, an id, an extension target and a dotnet alias are all keys, the *)
(* way Obj.keys() makes them; a publisher is the pair (kind, name or id)   *)
(* that an [EventSubscriber] attribute spells.                             *)
(***************************************************************************)
EXTENDS Naturals, FiniteSets

CONSTANTS
  Object,              \* the AL objects of the head tree
  Key,                 \* names, ids, extension targets and aliases
  Publisher,           \* what an [EventSubscriber] can name
  MaxPublisherUsers    \* MAX_PUBLISHER_USERS

ASSUME ObjectFinite == IsFiniteSet(Object)
ASSUME MaxPublisherUsersNat == MaxPublisherUsers \in Nat

(***************************************************************************)
(* keys[o]: what others use to name o.  names[o]: the tokens of o's text   *)
(* that are keys.  publishes[o]: the (kind, name) and (kind, id) pairs of  *)
(* an object of a publisher kind.  subscribes[o]: its [EventSubscriber]s.  *)
(* bindOnly: EventSubscriberInstance = Manual and not SingleInstance.      *)
(* lifecycle: Subtype = Install or Upgrade.  runnable: the test codeunits  *)
(* of some job's range.  unconfined: an attribute that cannot be read, a   *)
(* global publisher or event, a pair that a Microsoft object has too, and, *)
(* when the symbol packages cannot be read, every pair.  users[p]: the memo *)
(* of user_count, filled in (see MemoRight).                               *)
(***************************************************************************)
Graph ==
  [keys       : [Object -> SUBSET Key],
   names      : [Object -> SUBSET Key],
   publishes  : [Object -> SUBSET Publisher],
   subscribes : [Object -> SUBSET Publisher],
   bindOnly   : SUBSET Object,
   lifecycle  : SUBSET Object,
   runnable   : SUBSET Object,
   unconfined : SUBSET Publisher,
   users      : [Object -> Nat]]

(* index[k]: the objects that name k *)
UsersOf(g, k) == {o \in Object : k \in g.names[o]}

(* by_kind: the objects an [EventSubscriber] attribute resolves to *)
PublishersOf(g, s) == {p \in Object : s \in g.publishes[p]}

(* Least sets: what a worklist over edges reaches from roots *)
IsClosed(roots, edges, S) ==
  /\ roots \subseteq S
  /\ \A e \in edges : e[1] \in S => e[2] \in S

LeastClosed(roots, edges) ==
  {o \in Object : \A S \in SUBSET Object : IsClosed(roots, edges, S) => o \in S}

(* y names x *)
NameEdges(g) ==
  {e \in Object \X Object : \E k \in g.keys[e[1]] : e[2] \in UsersOf(g, k)}

(* user_count(p), the number of test codeunits that use p: the code calls   *)
(* closure(set(), [p], follow_events=False), and the module Closure shows   *)
(* that such a call computes this least set.                                *)
UserCount(g, p) ==
  Cardinality(LeastClosed({p}, NameEdges(g)) \cap g.runnable)

(* The memo caches a function of data that does not change: what it holds   *)
(* is what a new call would answer.                                         *)
MemoRight(g) == \A p \in Object : g.users[p] = UserCount(g, p)

(* the subscriptions that can run without a BindSubscription that names o *)
Subscriptions(g, o) == IF o \in g.bindOnly THEN {} ELSE g.subscribes[o]

(* fires gives a cause: one of the subscribers can run in any test *)
RunAnywhere(g, subscriptions) ==
  \E s \in subscriptions :
     \/ s \in g.unconfined
     \/ PublishersOf(g, s) = {}
     \/ \E p \in PublishersOf(g, s) : g.users[p] > MaxPublisherUsers

(* fires gives publishers: whatever may run one of them may run these *)
RunBy(g, subscriptions) ==
  IF RunAnywhere(g, subscriptions)
    THEN {}
    ELSE UNION {PublishersOf(g, s) : s \in subscriptions}

FiresAnywhere(g, o) == RunAnywhere(g, Subscriptions(g, o))

FiredBy(g, o) == RunBy(g, Subscriptions(g, o))

-----------------------------------------------------------------------------
(* A call of closure(keys, start, follow_events) on a graph *)
Call == [graph : Graph, keys : SUBSET Key, start : SUBSET Object,
         events : BOOLEAN]

(* changed objects, and the users of the keys of removed ones *)
Roots(c) == c.start \cup UNION {UsersOf(c.graph, k) : k \in c.keys}

(* y is run by the events of x *)
EventEdges(g) == {e \in Object \X Object : e[2] \in FiredBy(g, e[1])}

Edges(c) ==
  NameEdges(c.graph) \cup IF c.events THEN EventEdges(c.graph) ELSE {}

(* The objects a call must report *)
Affected(c) == LeastClosed(Roots(c), Edges(c))

Why == {"lifecycle", "event"}

(* Why the effect of o is not limited to the tests that reach it *)
EscapesOf(c, o) ==
  IF ~c.events THEN {}
  ELSE {<<o, w>> : w \in (IF o \in c.graph.lifecycle THEN {"lifecycle"} ELSE {})
                         \cup (IF FiresAnywhere(c.graph, o) THEN {"event"} ELSE {})}
=============================================================================
