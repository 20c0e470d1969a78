------------------------------ MODULE Closure ------------------------------
(***************************************************************************)
(* Graph.closure of .github/scripts/select-tests.py: the worklist that     *)
(* turns changed objects into the objects a change can affect.             *)
(*                                                                         *)
(* Two work lists take turns: todo (keys whose users are still to look up) *)
(* is emptied, then work (objects whose keys and events are still to       *)
(* follow), and so on until both are empty.  The lists are sets of entries *)
(* here and any entry may be popped: the order in which Python pushes the  *)
(* keys of an object is that of a set of strings, which differs from run   *)
(* to run, so the result must not depend on it.                            *)
(***************************************************************************)
EXTENDS ReferenceGraph

CONSTANTS
  Calls,      \* the calls of closure() to consider
  NoKey,      \* "no key": reached as a publisher, not by a name
  NoObject    \* "no object": a key of a removed object

ASSUME CallsType == Calls \subseteq Call /\ \A c \in Calls : MemoRight(c.graph)
ASSUME NoKeyNew == NoKey \notin Key
ASSUME NoObjectNew == NoObject \notin Object
ASSUME KeyFinite == IsFiniteSet(Key)

VARIABLES
  call,      \* the arguments and the graph
  loop,      \* the inner loop that runs: "keys", "objects", or "returned"
  todo,      \* pairs <<key, the object it belongs to>>
  work,      \* reached objects still to follow
  seen,      \* keys looked up
  reached,   \* object -> how it was reached; the dict of the code
  escapes    \* pairs <<object, why>>

vars == <<call, loop, todo, work, seen, reached, escapes>>

Via == [key : Key \cup {NoKey}, from : Object \cup {NoObject}]
AtStart == [key |-> NoKey, from |-> NoObject]

Reached == DOMAIN reached

(* reached[n] = v for every new n *)
Reach(New, v) ==
  reached' = [n \in Reached \cup New |-> IF n \in Reached THEN reached[n] ELSE v]

TypeOK ==
  /\ call \in Call
  /\ loop \in {"keys", "objects", "returned"}
  /\ todo \subseteq Key \X (Object \cup {NoObject})
  /\ work \subseteq Reached
  /\ seen \subseteq Key
  /\ Reached \subseteq Object
  /\ reached \in [Reached -> Via]
  /\ escapes \subseteq Object \X Why

Init ==
  /\ call \in Calls
  /\ loop = "keys"
  /\ todo = {<<k, NoObject>> : k \in call.keys}
  /\ work = call.start
  /\ seen = {}
  /\ reached = [n \in call.start |-> AtStart]
  /\ escapes = {}

-----------------------------------------------------------------------------
(* Mutant of SkipKey: the entry is looked at but not popped *)
SkipKeyPeeking(e) ==
  /\ loop = "keys"
  /\ e \in todo
  /\ e[1] \in seen
  /\ UNCHANGED vars

(* while todo: a key met before is dropped *)
SkipKey(e) ==
  /\ loop = "keys"
  /\ e \in todo
  /\ e[1] \in seen
  /\ todo' = todo \ {e}
  /\ UNCHANGED <<call, loop, work, seen, reached, escapes>>

(* Mutant of FollowKey: a user already reached is queued again and loses    *)
(* its first explanation                                                    *)
FollowKeyOverwriting(e) ==
  /\ loop = "keys"
  /\ e \in todo
  /\ e[1] \notin seen
  /\ todo' = todo \ {e}
  /\ seen' = seen \cup {e[1]}
  /\ LET new == UsersOf(call.graph, e[1])
         via == [key |-> e[1], from |-> e[2]]
     IN  /\ work' = work \cup new
         /\ reached' = [n \in Reached \cup new |-> IF n \in new THEN via ELSE reached[n]]
  /\ UNCHANGED <<call, loop, escapes>>

(* while todo: the objects that name the key are reached and queued *)
FollowKey(e) ==
  /\ loop = "keys"
  /\ e \in todo
  /\ e[1] \notin seen
  /\ todo' = todo \ {e}
  /\ seen' = seen \cup {e[1]}
  /\ LET new == UsersOf(call.graph, e[1]) \ Reached
     IN  /\ work' = work \cup new
         /\ Reach(new, [key |-> e[1], from |-> e[2]])
  /\ UNCHANGED <<call, loop, escapes>>

KeysDone ==
  /\ loop = "keys"
  /\ todo = {}
  /\ loop' = IF work = {} THEN "returned" ELSE "objects"
  /\ UNCHANGED <<call, todo, work, seen, reached, escapes>>

(* Mutants of FollowObject: the publishers count as reached but are not     *)
(* followed; events are followed although the call says not to              *)
FollowObjectPublishersOnly(n) ==
  /\ loop = "objects"
  /\ n \in work
  /\ todo' = todo \cup {<<k, n>> : k \in call.graph.keys[n]}
  /\ LET new == IF call.events THEN FiredBy(call.graph, n) \ Reached ELSE {}
     IN  /\ work' = work \ {n}
         /\ Reach(new, [key |-> NoKey, from |-> n])
  /\ escapes' = escapes \cup EscapesOf(call, n)
  /\ UNCHANGED <<call, loop, seen>>

FollowObjectAlwaysEvents(n) ==
  /\ loop = "objects"
  /\ n \in work
  /\ todo' = todo \cup {<<k, n>> : k \in call.graph.keys[n]}
  /\ LET new == FiredBy(call.graph, n) \ Reached
     IN  /\ work' = (work \ {n}) \cup new
         /\ Reach(new, [key |-> NoKey, from |-> n])
  /\ escapes' = escapes \cup EscapesOf(call, n)
  /\ UNCHANGED <<call, loop, seen>>

(* while work: the keys of n are still to look up; with follow_events, n's  *)
(* escapes are noted and the publishers that run it are reached             *)
FollowObject(n) ==
  /\ loop = "objects"
  /\ n \in work
  /\ todo' = todo \cup {<<k, n>> : k \in call.graph.keys[n]}
  /\ LET new == IF call.events THEN FiredBy(call.graph, n) \ Reached ELSE {}
     IN  /\ work' = (work \ {n}) \cup new
         /\ Reach(new, [key |-> NoKey, from |-> n])
  /\ escapes' = escapes \cup EscapesOf(call, n)
  /\ UNCHANGED <<call, loop, seen>>

ObjectsDone ==
  /\ loop = "objects"
  /\ work = {}
  /\ loop' = IF todo = {} THEN "returned" ELSE "keys"
  /\ UNCHANGED <<call, todo, work, seen, reached, escapes>>

Next ==
  \/ \E e \in todo : SkipKey(e) \/ FollowKey(e)
  \/ KeysDone
  \/ \E n \in work : FollowObject(n)
  \/ ObjectsDone

Spec == Init /\ [][Next]_vars /\ WF_vars(Next)

-----------------------------------------------------------------------------
(***************************************************************************)
(* Nothing is reached that the change cannot affect, at any point of the   *)
(* walk: a subset run never grows because of the order of the worklist.    *)
(***************************************************************************)
OnlyAffected == Reached \subseteq Affected(call)

(***************************************************************************)
(* When closure() returns it has reported every object that the change can *)
(* affect, and every install, upgrade or unconfined subscriber among them: *)
(* nothing is left behind by the two loops handing over to each other.     *)
(***************************************************************************)
Complete ==
  loop = "returned" =>
    /\ Affected(call) \subseteq Reached
    /\ escapes = UNION {EscapesOf(call, o) : o \in Affected(call)}

(***************************************************************************)
(* The explanation of every reached object (reached[n], printed by         *)
(* describe() as the "why" of a selected test) is true: n names that key,  *)
(* the key is one of the object it came from (or one of the call's), a     *)
(* publisher does run its subscriber; and following the explanations never *)
(* goes round in a circle.                                                 *)
(***************************************************************************)
ViaTrue(n) ==
  LET v == reached[n] IN
    \/ v = AtStart /\ n \in call.start
    \/ /\ v.key \in call.graph.names[n]
       /\ IF v.from = NoObject
            THEN v.key \in call.keys
            ELSE v.from \in Reached /\ v.key \in call.graph.keys[v.from]
    \/ /\ v.key = NoKey
       /\ v.from \in Reached
       /\ n \in FiredBy(call.graph, v.from)

Explained ==
  /\ \A n \in Reached : ViaTrue(n)
  /\ \A S \in SUBSET Reached : S # {} => \E n \in S : reached[n].from \notin S

(***************************************************************************)
(* A reached object is still queued, or its keys are looked up or queued   *)
(* and, with events, its publishers are reached and its escapes are noted. *)
(* This is the inductive invariant behind Complete.                        *)
(***************************************************************************)
Followed(n) ==
  /\ \A k \in call.graph.keys[n] : k \in seen \/ \E e \in todo : e[1] = k
  /\ call.events => FiredBy(call.graph, n) \subseteq Reached
  /\ EscapesOf(call, n) \subseteq escapes

NothingLost ==
  /\ call.start \subseteq Reached
  /\ \A k \in call.keys : k \in seen \/ \E e \in todo : e[1] = k
  /\ \A k \in seen : UsersOf(call.graph, k) \subseteq Reached
  /\ \A n \in Reached \ work : Followed(n)
  /\ loop = "returned" => todo = {} /\ work = {}

(* A noted escape is one of a reached object; a queued key is one of the    *)
(* call's or of a reached object                                            *)
NothingInvented ==
  /\ \A e \in todo : IF e[2] = NoObject THEN e[1] \in call.keys
                     ELSE e[2] \in Reached /\ e[1] \in call.graph.keys[e[2]]
  /\ \A x \in escapes : \E n \in Reached : x \in EscapesOf(call, n)

IInv == TypeOK /\ OnlyAffected /\ NothingLost /\ NothingInvented

(***************************************************************************)
(* Every turn uses up some of a supply that is fixed at the call, however  *)
(* the two loops hand over to each other and whatever cycles of names and  *)
(* of events there are: an object is followed once and queues each of its  *)
(* keys, three turns a key pays for a hand-over to work and back.          *)
(***************************************************************************)
Pending == (Object \ Reached) \cup work

HandOvers ==
  CASE loop = "returned" -> 0
    [] loop = "objects" -> 2
    [] loop = "keys" -> IF work = {} THEN 1 ELSE 3

TurnsLeft ==
  (3 * Cardinality(Key) + 1) * Cardinality(Pending) + 3 * Cardinality(todo) + HandOvers

TurnsRunOut == [][TurnsLeft' < TurnsLeft]_vars

(***************************************************************************)
(* The loops end, for every graph (cycles of names and of events included) *)
(***************************************************************************)
Terminates == <>(loop = "returned")

(* closure() answers as AffectedSet says: one atomic answer *)
Abstract == INSTANCE AffectedSet WITH
  answered <- loop = "returned",
  answer   <- IF loop = "returned" THEN Reached ELSE {},
  escaped  <- IF loop = "returned" THEN escapes ELSE {}

ImplementsAffectedSet == Abstract!Spec
=============================================================================
