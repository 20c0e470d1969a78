--------------------------- MODULE ClosureProofs ---------------------------
(***************************************************************************)
(* Proofs about Graph.closure, for every graph and every call.             *)
(*                                                                         *)
(* The argument: whatever is reached is affected (OnlyAffected), because   *)
(* every queued key and every reached object comes from an affected one    *)
(* (NothingInvented); and what is reached and no longer queued has been    *)
(* followed (NothingLost), so that when both lists are empty the reached   *)
(* set is closed and contains the least closed set.                        *)
(***************************************************************************)
EXTENDS Closure, ReferenceGraphProofs, FiniteSetTheorems

-----------------------------------------------------------------------------
(* Type correctness *)

LEMMA ReachEffect ==
  ASSUME NEW New, NEW v, Reach(New, v)
  PROVE  /\ Reached' = Reached \cup New
         /\ \A n \in Reached : reached'[n] = reached[n]
         /\ \A n \in New \ Reached : reached'[n] = v
  BY DEF Reach, Reached

LEMMA ReachType ==
  ASSUME TypeOK, NEW New \in SUBSET Object, NEW v \in Via, Reach(New, v)
  PROVE  reached' \in [Reached' -> Via]
  <1>1. reached' = [n \in Reached \cup New |-> IF n \in Reached THEN reached[n] ELSE v]
    BY DEF Reach
  <1>2. Reached' = Reached \cup New
    BY ReachEffect
  <1>3. \A n \in Reached : reached[n] \in Via
    BY DEF TypeOK
  <1>. QED  BY <1>1, <1>2, <1>3

LEMMA TypeCorrectInit == Init => TypeOK
  <1>. SUFFICES ASSUME Init PROVE TypeOK
    OBVIOUS
  <1>1. call \in Call
    BY CallsType DEF Init
  <1>2. AtStart \in Via
    BY DEF AtStart, Via
  <1>3. Reached = call.start /\ reached \in [Reached -> Via]
    BY <1>2 DEF Init, Reached
  <1>4. todo \subseteq Key \X (Object \cup {NoObject})
    BY <1>1, GraphTypes DEF Init
  <1>. QED  BY <1>1, <1>3, <1>4, GraphTypes DEF Init, TypeOK

(* Every state of the worklist has the types the code's lists and dict have. *)
THEOREM TypeCorrect == Spec => []TypeOK
  <1>1. Init => TypeOK
    BY TypeCorrectInit
  <1>2. TypeOK /\ [Next]_vars => TypeOK'
    <2>. SUFFICES ASSUME TypeOK, [Next]_vars PROVE TypeOK'
      OBVIOUS
    <2>1. ASSUME NEW e \in todo, SkipKey(e) PROVE TypeOK'
      BY <2>1 DEF SkipKey, TypeOK, Reached
    <2>2. ASSUME NEW e \in todo, FollowKey(e) PROVE TypeOK'
      <3>. DEFINE new == UsersOf(call.graph, e[1]) \ Reached
                  via == [key |-> e[1], from |-> e[2]]
      <3>1. call \in Call /\ new \in SUBSET Object
        BY GraphTypes DEF TypeOK
      <3>2. e \in Key \X (Object \cup {NoObject})
        BY DEF TypeOK
      <3>3. via \in Via
        BY <3>2 DEF Via
      <3>4. Reach(new, via) /\ work' = work \cup new
        BY <2>2 DEF FollowKey
      <3>5. Reached' = Reached \cup new
        BY <3>4, ReachEffect
      <3>6. reached' \in [Reached' -> Via]
        BY <3>1, <3>3, <3>4, ReachType
      <3>7. work' \subseteq Reached' /\ Reached' \subseteq Object
        BY <3>1, <3>4, <3>5 DEF TypeOK
      <3>8. seen' \subseteq Key /\ todo' \subseteq Key \X (Object \cup {NoObject})
        BY <2>2, <3>2 DEF FollowKey, TypeOK
      <3>. QED  BY <2>2, <3>6, <3>7, <3>8 DEF FollowKey, TypeOK
    <2>3. CASE KeysDone
      BY <2>3 DEF KeysDone, TypeOK, Reached
    <2>4. ASSUME NEW n \in work, FollowObject(n) PROVE TypeOK'
      <3>. DEFINE new == IF call.events THEN FiredBy(call.graph, n) \ Reached ELSE {}
                  via == [key |-> NoKey, from |-> n]
      <3>1. n \in Object /\ call \in Call
        BY DEF TypeOK
      <3>2. new \in SUBSET Object
        BY <3>1, GraphTypes
      <3>3. via \in Via
        BY <3>1 DEF Via
      <3>4. Reach(new, via) /\ work' = (work \ {n}) \cup new
        BY <2>4 DEF FollowObject
      <3>5. Reached' = Reached \cup new
        BY <3>4, ReachEffect
      <3>6. reached' \in [Reached' -> Via]
        BY <3>2, <3>3, <3>4, ReachType
      <3>7. work' \subseteq Reached' /\ Reached' \subseteq Object
        BY <3>2, <3>4, <3>5 DEF TypeOK
      <3>8. todo' \subseteq Key \X (Object \cup {NoObject})
        BY <2>4, <3>1, GraphTypes DEF FollowObject, TypeOK
      <3>9. escapes' \subseteq Object \X Why
        BY <2>4, <3>1, GraphTypes DEF FollowObject, TypeOK
      <3>. QED  BY <2>4, <3>6, <3>7, <3>8, <3>9 DEF FollowObject, TypeOK
    <2>5. CASE ObjectsDone
      BY <2>5 DEF ObjectsDone, TypeOK, Reached
    <2>6. CASE UNCHANGED vars
      BY <2>6 DEF vars, TypeOK, Reached
    <2>. QED  BY <2>1, <2>2, <2>3, <2>4, <2>5, <2>6 DEF Next
  <1>. QED  BY <1>1, <1>2, PTL DEF Spec

-----------------------------------------------------------------------------
(* The inductive invariant, action by action *)

LEMMA InitIInv == Init => IInv
  <1>. SUFFICES ASSUME Init PROVE IInv
    OBVIOUS
  <1>1. TypeOK
    BY TypeCorrectInit
  <1>2. Reached = call.start /\ call \in Call
    BY CallsType DEF Init, Reached
  <1>3. OnlyAffected
    BY <1>2, AffectedIsClosed DEF OnlyAffected
  <1>4. NothingLost
    <2>1. ASSUME NEW k \in call.keys PROVE \E e \in todo : e[1] = k
      <3>1. <<k, NoObject>> \in todo
        BY DEF Init
      <3>. QED  BY <3>1
    <2>. QED  BY <1>2, <2>1 DEF Init, NothingLost
  <1>5. NothingInvented
    BY DEF Init, NothingInvented
  <1>. QED  BY <1>1, <1>3, <1>4, <1>5 DEF IInv

LEMMA SkipKeyIInv ==
  ASSUME IInv, TypeOK', NEW e \in todo, SkipKey(e)
  PROVE  IInv'
  <1>. USE DEF SkipKey, Reached
  <1>1. OnlyAffected'
    BY DEF IInv, OnlyAffected
  <1>2. NothingLost'
    <2>1. \A k : (\E f \in todo : f[1] = k) => k \in seen' \/ \E f \in todo' : f[1] = k
      OBVIOUS
    <2>2. \A n \in Reached \ work : Followed(n)'
      BY <2>1 DEF IInv, NothingLost, Followed
    <2>. QED  BY <2>1, <2>2 DEF IInv, NothingLost
  <1>3. NothingInvented'
    BY DEF IInv, NothingInvented
  <1>. QED  BY <1>1, <1>2, <1>3 DEF IInv

LEMMA FollowKeyIInv ==
  ASSUME IInv, TypeOK', NEW e \in todo, FollowKey(e)
  PROVE  IInv'
  <1>. DEFINE new == UsersOf(call.graph, e[1]) \ Reached
              via == [key |-> e[1], from |-> e[2]]
  <1>1. /\ call \in Call /\ call' = call
        /\ todo' = todo \ {e} /\ seen' = seen \cup {e[1]}
        /\ work' = work \cup new /\ escapes' = escapes /\ loop' = loop
        /\ loop = "keys"
        /\ Reach(new, via)
    BY DEF FollowKey, IInv, TypeOK
  <1>2. Reached' = Reached \cup UsersOf(call.graph, e[1])
    BY <1>1, ReachEffect
  <1>3. UsersOf(call.graph, e[1]) \subseteq Affected(call)
    <2>1. CASE e[2] = NoObject
      BY <2>1, <1>1, AffectedIsClosed DEF IInv, NothingInvented
    <2>2. CASE e[2] # NoObject
      BY <2>2, <1>1, AffectedIsClosed DEF IInv, NothingInvented, OnlyAffected
    <2>. QED  BY <2>1, <2>2
  <1>4. OnlyAffected'
    BY <1>1, <1>2, <1>3 DEF IInv, OnlyAffected
  <1>5. NothingLost'
    <2>1. \A k : (k \in seen \/ \E f \in todo : f[1] = k)
                  => k \in seen' \/ \E f \in todo' : f[1] = k
      BY <1>1
    <2>2. ASSUME NEW n \in Reached' \ work' PROVE Followed(n)'
      <3>1. n \in Reached \ work
        BY <1>1, <1>2
      <3>. QED  BY <3>1, <2>1, <1>1, <1>2 DEF IInv, NothingLost, Followed
    <2>3. \A k \in seen' : UsersOf(call.graph, k)' \subseteq Reached'
      BY <1>1, <1>2 DEF IInv, NothingLost
    <2>. QED  BY <1>1, <1>2, <2>1, <2>2, <2>3 DEF IInv, NothingLost
  <1>6. NothingInvented'
    BY <1>1, <1>2 DEF IInv, NothingInvented
  <1>. QED  BY <1>4, <1>5, <1>6 DEF IInv

LEMMA FollowObjectIInv ==
  ASSUME IInv, TypeOK', NEW n \in work, FollowObject(n)
  PROVE  IInv'
  <1>. DEFINE new == IF call.events THEN FiredBy(call.graph, n) \ Reached ELSE {}
              via == [key |-> NoKey, from |-> n]
  <1>1. /\ call \in Call /\ call' = call /\ n \in Reached
        /\ todo' = todo \cup {<<k, n>> : k \in call.graph.keys[n]}
        /\ seen' = seen /\ work' = (work \ {n}) \cup new
        /\ escapes' = escapes \cup EscapesOf(call, n) /\ loop' = loop
        /\ loop = "objects"
        /\ Reach(new, via)
    BY DEF FollowObject, IInv, TypeOK
  <1>2. Reached' = Reached \cup new
    BY <1>1, ReachEffect
  <1>3. n \in Object /\ n # NoObject
    BY <1>1, NoObjectNew DEF IInv, TypeOK
  <1>4. OnlyAffected'
    BY <1>1, <1>2, AffectedIsClosed DEF IInv, OnlyAffected
  <1>5. NothingLost'
    <2>1. \A k : (k \in seen \/ \E f \in todo : f[1] = k)
                  => k \in seen' \/ \E f \in todo' : f[1] = k
      BY <1>1
    <2>2. ASSUME NEW m \in Reached' \ work', m # n PROVE Followed(m)'
      <3>1. m \in Reached \ work
        BY <1>1, <1>2, <2>2
      <3>. QED  BY <3>1, <2>1, <1>1, <1>2 DEF IInv, NothingLost, Followed
    <2>3. Followed(n)'
      <3>1. \A k \in call.graph.keys[n] : \E f \in todo' : f[1] = k
        <4>. SUFFICES ASSUME NEW k \in call.graph.keys[n]
                      PROVE  \E f \in todo' : f[1] = k
          OBVIOUS
        <4>1. <<k, n>> \in todo'
          BY <1>1
        <4>. QED  BY <4>1
      <3>2. call.events => FiredBy(call.graph, n) \subseteq Reached'
        BY <1>2
      <3>. QED  BY <1>1, <3>1, <3>2 DEF Followed
    <2>4. \A k \in seen' : UsersOf(call.graph, k)' \subseteq Reached'
      BY <1>1, <1>2 DEF IInv, NothingLost
    <2>. QED  BY <1>1, <1>2, <2>1, <2>2, <2>3, <2>4 DEF IInv, NothingLost
  <1>6. NothingInvented'
    <2>1. ASSUME NEW f \in todo'
          PROVE  IF f[2] = NoObject THEN f[1] \in call.keys
                 ELSE f[2] \in Reached' /\ f[1] \in call.graph.keys[f[2]]
      <3>1. CASE f \in todo
        BY <3>1, <1>2 DEF IInv, NothingInvented
      <3>2. CASE f \in {<<k, n>> : k \in call.graph.keys[n]}
        BY <3>2, <1>1, <1>2, <1>3
      <3>. QED  BY <3>1, <3>2, <1>1
    <2>2. \A x \in escapes' : \E m \in Reached' : x \in EscapesOf(call, m)
      BY <1>1, <1>2 DEF IInv, NothingInvented
    <2>. QED  BY <1>1, <2>1, <2>2 DEF NothingInvented
  <1>. QED  BY <1>4, <1>5, <1>6 DEF IInv

LEMMA LoopIInv ==
  ASSUME IInv, TypeOK', KeysDone \/ ObjectsDone \/ UNCHANGED vars
  PROVE  IInv'
  <1>1. /\ UNCHANGED <<call, todo, work, seen, reached, escapes>>
        /\ loop' = "returned" => loop = "returned" \/ (todo = {} /\ work = {})
    BY DEF KeysDone, ObjectsDone, vars
  <1>2. OnlyAffected'
    BY <1>1 DEF IInv, OnlyAffected, Reached
  <1>3. NothingLost'
    <2>1. \A n \in Reached \ work : Followed(n)'
      BY <1>1 DEF IInv, NothingLost, Followed, Reached
    <2>. QED  BY <1>1, <2>1 DEF IInv, NothingLost, Reached
  <1>4. NothingInvented'
    BY <1>1 DEF IInv, NothingInvented, Reached
  <1>. QED  BY <1>2, <1>3, <1>4 DEF IInv

(* The inductive invariant holds in every state of every call. *)
THEOREM InductiveInvariant == Spec => []IInv
  <1>1. IInv /\ TypeOK' /\ [Next]_vars => IInv'
    <2>. SUFFICES ASSUME IInv, TypeOK', [Next]_vars PROVE IInv'
      OBVIOUS
    <2>. QED
      BY SkipKeyIInv, FollowKeyIInv, FollowObjectIInv, LoopIInv DEF Next
  <1>. QED  BY InitIInv, <1>1, TypeCorrect, PTL DEF Spec

-----------------------------------------------------------------------------
(* What it gives *)

(* Once the queues are empty, what is reached is closed. *)
LEMMA ReturnedIsExact ==
  ASSUME IInv, todo = {}, work = {}
  PROVE  /\ Reached = Affected(call)
         /\ escapes = UNION {EscapesOf(call, o) : o \in Affected(call)}
  <1>1. call \in Call /\ Reached \in SUBSET Object
    BY DEF IInv, TypeOK
  <1>2. Roots(call) \subseteq Reached
    BY DEF IInv, NothingLost, Roots
  <1>3. ASSUME NEW e \in Edges(call), e[1] \in Reached
        PROVE  e[2] \in Reached
    <2>1. Followed(e[1])
      BY <1>3 DEF IInv, NothingLost
    <2>2. CASE e \in NameEdges(call.graph)
      <3>1. PICK k \in call.graph.keys[e[1]] : e[2] \in UsersOf(call.graph, k)
        BY <2>2 DEF NameEdges
      <3>. QED  BY <2>1, <3>1 DEF Followed, IInv, NothingLost
    <2>3. CASE call.events /\ e \in EventEdges(call.graph)
      BY <2>1, <2>3 DEF Followed, EventEdges
    <2>. QED  BY <2>2, <2>3 DEF Edges
  <1>4. Affected(call) \subseteq Reached
    BY <1>1, <1>2, <1>3, LeastIsLeast DEF IsClosed, Affected
  <1>5. Reached = Affected(call)
    BY <1>4 DEF IInv, OnlyAffected
  <1>6. \A n \in Reached : EscapesOf(call, n) \subseteq escapes
    BY DEF IInv, NothingLost, Followed
  <1>7. escapes = UNION {EscapesOf(call, o) : o \in Reached}
    BY <1>6 DEF IInv, NothingInvented
  <1>. QED  BY <1>5, <1>7

(* Nothing is reached that the change cannot affect, in any order of the    *)
(* worklist.                                                                *)
THEOREM OnlyAffectedHolds == Spec => []OnlyAffected
  <1>1. IInv => OnlyAffected
    BY DEF IInv
  <1>. QED  BY <1>1, InductiveInvariant, PTL

(* closure() returns every affected object and every escape. *)
THEOREM CompleteHolds == Spec => []Complete
  <1>1. IInv => Complete
    BY ReturnedIsExact DEF Complete, IInv, NothingLost
  <1>. QED  BY <1>1, InductiveInvariant, PTL

-----------------------------------------------------------------------------
(* The explanations *)

(* Reaching new objects from one object that is already reached (or from    *)
(* none) keeps every explanation true and free of circles.                  *)
LEMMA ReachExplained ==
  ASSUME TypeOK, Explained, call' = call,
         NEW New \in SUBSET Object, New \cap Reached = {},
         NEW v, Reach(New, v), v.from \in Reached \cup {NoObject},
         \A n \in New :
           \/ /\ v.key \in call.graph.names[n]
              /\ IF v.from = NoObject
                   THEN v.key \in call.keys
                   ELSE v.key \in call.graph.keys[v.from]
           \/ v.key = NoKey /\ v.from \in Reached /\ n \in FiredBy(call.graph, v.from)
  PROVE  Explained'
  <1>1. /\ Reached' = Reached \cup New
        /\ \A n \in Reached : reached'[n] = reached[n]
        /\ \A n \in New : reached'[n] = v
    BY ReachEffect
  <1>2. \A n \in Reached : reached[n].from \in Reached \cup {NoObject}
    BY DEF Explained, ViaTrue, AtStart
  <1>3. ASSUME NEW n \in Reached' PROVE ViaTrue(n)'
    <2>1. CASE n \in Reached
      <3>1. ViaTrue(n)
        BY <2>1 DEF Explained
      <3>. QED  BY <2>1, <3>1, <1>1 DEF ViaTrue, AtStart
    <2>2. CASE n \in New
      BY <2>2, <1>1 DEF ViaTrue
    <2>. QED  BY <2>1, <2>2, <1>1
  <1>4. ASSUME NEW S \in SUBSET Reached', S # {}
        PROVE  \E n \in S : reached'[n].from \notin S
    <2>1. NoObject \notin S
      BY <1>1, NoObjectNew DEF TypeOK
    <2>2. CASE S \cap Reached = {}
      <3>1. PICK n \in S : n \in New
        BY <2>2, <1>1, <1>4
      <3>2. reached'[n].from \notin S
        BY <3>1, <1>1, <2>1, <2>2
      <3>. QED  BY <3>2
    <2>3. CASE S \cap Reached # {}
      <3>1. PICK n \in S \cap Reached : reached[n].from \notin S \cap Reached
        BY <2>3 DEF Explained
      <3>2. reached'[n].from \notin S
        BY <3>1, <1>1, <1>2, <2>1
      <3>. QED  BY <3>2
    <2>. QED  BY <2>2, <2>3
  <1>. QED  BY <1>3, <1>4 DEF Explained

(* Every "why" that the summary prints is true and leads back to a change.  *)
THEOREM ExplainedHolds == Spec => []Explained
  <1>1. Init => Explained
    <2>. SUFFICES ASSUME Init PROVE Explained
      OBVIOUS
    <2>1. Reached = call.start /\ \A n \in Reached : reached[n] = AtStart
      BY DEF Init, Reached
    <2>2. call.start \subseteq Object
      BY CallsType, GraphTypes DEF Init
    <2>3. \A n \in Reached : reached[n].from = NoObject
      BY <2>1 DEF AtStart
    <2>. QED  BY <2>1, <2>2, <2>3, NoObjectNew DEF Explained, ViaTrue
  <1>2. IInv /\ Explained /\ [Next]_vars => Explained'
    <2>. SUFFICES ASSUME IInv, Explained, [Next]_vars PROVE Explained'
      OBVIOUS
    <2>. TypeOK /\ NothingInvented
      BY DEF IInv
    <2>1. ASSUME NEW e \in todo, FollowKey(e) PROVE Explained'
      <3>. DEFINE new == UsersOf(call.graph, e[1]) \ Reached
                  via == [key |-> e[1], from |-> e[2]]
      <3>1. call' = call /\ Reach(new, via)
        BY <2>1 DEF FollowKey
      <3>2. new \in SUBSET Object /\ new \cap Reached = {}
        BY DEF UsersOf
      <3>3. via.from \in Reached \cup {NoObject}
        BY DEF NothingInvented
      <3>4. ASSUME NEW n \in new
            PROVE  /\ via.key \in call.graph.names[n]
                   /\ IF via.from = NoObject
                        THEN via.key \in call.keys
                        ELSE via.key \in call.graph.keys[via.from]
        BY DEF UsersOf, NothingInvented
      <3>. HIDE DEF new, via
      <3>. QED  BY <3>1, <3>2, <3>3, <3>4, ReachExplained
    <2>2. ASSUME NEW n \in work, FollowObject(n) PROVE Explained'
      <3>. DEFINE new == IF call.events THEN FiredBy(call.graph, n) \ Reached ELSE {}
                  via == [key |-> NoKey, from |-> n]
      <3>1. call' = call /\ Reach(new, via)
        BY <2>2 DEF FollowObject
      <3>2. new \in SUBSET Object /\ new \cap Reached = {}
        BY GraphTypes DEF TypeOK
      <3>3. via.from \in Reached /\ via.key = NoKey
        BY DEF TypeOK
      <3>4. \A m \in new : m \in FiredBy(call.graph, via.from)
        OBVIOUS
      <3>. HIDE DEF new, via
      <3>. QED  BY <3>1, <3>2, <3>3, <3>4, ReachExplained
    <2>3. CASE UNCHANGED <<call, reached>>
      BY <2>3 DEF Explained, ViaTrue, Reached
    <2>. QED
      BY <2>1, <2>2, <2>3 DEF Next, SkipKey, KeysDone, ObjectsDone, vars
  <1>. QED  BY <1>1, <1>2, InductiveInvariant, PTL DEF Spec

-----------------------------------------------------------------------------
(* The worklist implements AffectedSet *)

(* The instance's data operators are this module's. *)
LEMMA SameOperators ==
  /\ \A c : Abstract!Affected(c) = Affected(c)
  /\ \A c, o : Abstract!EscapesOf(c, o) = EscapesOf(c, o)
  BY DEF Abstract!Affected, Abstract!LeastClosed, Abstract!IsClosed, Abstract!Roots,
         Abstract!Edges, Abstract!NameEdges, Abstract!EventEdges, Abstract!UsersOf,
         Abstract!FiredBy, Abstract!RunBy, Abstract!FiresAnywhere, Abstract!RunAnywhere, Abstract!Subscriptions,
         Abstract!PublishersOf, Abstract!EscapesOf,
         Affected, LeastClosed, IsClosed, Roots, Edges, NameEdges, EventEdges,
         UsersOf, FiredBy, RunBy, FiresAnywhere, RunAnywhere, Subscriptions, PublishersOf, EscapesOf

(* A call answers once and atomically with the affected set: the step that  *)
(* leaves the outer loop is the abstract Answer, every other one stutters.  *)
THEOREM ImplementsAnswer == Spec => Abstract!Init /\ [][Abstract!Answer]_(Abstract!vars)
  <1>1. Init => Abstract!Init
    BY CallsType DEF Init, Abstract!Init, Abstract!Call, Abstract!Graph, Call, Graph
  <1>2. IInv /\ [Next]_vars => [Abstract!Answer]_(Abstract!vars)
    <2>. SUFFICES ASSUME IInv, [Next]_vars
                  PROVE  Abstract!Answer \/ UNCHANGED Abstract!vars
      OBVIOUS
    <2>1. ASSUME KeysDone \/ ObjectsDone, loop' = "returned"
          PROVE  Abstract!Answer
      <3>1. /\ todo = {} /\ work = {} /\ loop # "returned"
            /\ UNCHANGED <<call, reached, escapes>>
        BY <2>1 DEF KeysDone, ObjectsDone
      <3>2. /\ Reached' = Affected(call)
            /\ escapes' = UNION {EscapesOf(call, o) : o \in Affected(call)}
        BY <3>1, ReturnedIsExact DEF Reached
      <3>. QED  BY <2>1, <3>1, <3>2, SameOperators DEF Abstract!Answer
    <2>2. ASSUME loop # "returned", loop' # "returned", call' = call
          PROVE  UNCHANGED Abstract!vars
      BY <2>2 DEF Abstract!vars
    <2>3. CASE UNCHANGED vars
      BY <2>3 DEF vars, Abstract!vars, Reached
    <2>. QED
      BY <2>1, <2>2, <2>3 DEF Next, SkipKey, FollowKey, KeysDone, FollowObject, ObjectsDone
  <1>. QED  BY <1>1, <1>2, InductiveInvariant, PTL DEF Spec

-----------------------------------------------------------------------------
(* The turns run out *)

(* What the two lists hold is finite. *)
LEMMA ListsFinite ==
  ASSUME TypeOK
  PROVE  /\ IsFiniteSet(todo) /\ Cardinality(todo) \in Nat
         /\ IsFiniteSet(Pending) /\ Cardinality(Pending) \in Nat
         /\ Cardinality(Key) \in Nat
  <1>1. IsFiniteSet(Object \cup {NoObject})
    BY ObjectFinite, FS_AddElement
  <1>2. IsFiniteSet(Key \X (Object \cup {NoObject}))
    BY <1>1, KeyFinite, FS_Product
  <1>3. todo \in SUBSET (Key \X (Object \cup {NoObject})) /\ Pending \in SUBSET Object
    BY DEF TypeOK, Pending
  <1>. QED  BY <1>2, <1>3, KeyFinite, ObjectFinite, FS_Subset, FS_CardinalityType

(* An object queues no more entries than there are keys. *)
LEMMA KeysOfOne ==
  ASSUME NEW Mine \in SUBSET Key, NEW n
  PROVE  LET Entries == {<<k, n>> : k \in Mine}
         IN  IsFiniteSet(Entries) /\ Cardinality(Entries) \in Nat
               /\ Cardinality(Entries) <= Cardinality(Key)
  <1>. DEFINE Entries == {<<k, n>> : k \in Mine}
  <1>1. IsFiniteSet({n}) /\ Cardinality({n}) = 1
    BY FS_Singleton
  <1>2. IsFiniteSet(Key \X {n}) /\ Cardinality(Key \X {n}) = Cardinality(Key) * 1
    BY <1>1, KeyFinite, FS_Product
  <1>3. Cardinality(Key) \in Nat
    BY KeyFinite, FS_CardinalityType
  <1>4. Entries \in SUBSET (Key \X {n})
    OBVIOUS
  <1>. QED  BY <1>2, <1>3, <1>4, FS_Subset, FS_CardinalityType

(* One object less pays for the entries that it queued. *)
LEMMA OneLess ==
  ASSUME NEW k \in Nat, NEW p \in Nat, NEW q \in Nat, NEW t \in Nat, NEW u \in Nat,
         p = q + 1, u <= t + k
  PROVE  (3 * k + 1) * q + 3 * u < (3 * k + 1) * p + 3 * t
  <1>1. (3 * k + 1) * p = (3 * k + 1) * q + (3 * k + 1)
    OBVIOUS
  <1>2. (3 * k + 1) * q \in Nat
    OBVIOUS
  <1>. QED  BY <1>1, <1>2

(* A step that leaves the lists alone, or takes one key from todo. *)
LEMMA KeyTaken ==
  ASSUME TypeOK, NEW e \in todo, todo' = todo \ {e}, Pending' = Pending, loop = "keys", loop' = "keys"
  PROVE  TurnsLeft' < TurnsLeft
  <1>1. Cardinality(todo') = Cardinality(todo) - 1 /\ Cardinality(todo') \in Nat
    BY ListsFinite, FS_RemoveElement, FS_CardinalityType
  <1>2. HandOvers \in {1, 3} /\ HandOvers' \in {1, 3}
    BY DEF HandOvers
  <1>3. PICK p \in Nat : p = (3 * Cardinality(Key) + 1) * Cardinality(Pending)
    BY ListsFinite
  <1>4. TurnsLeft = p + 3 * Cardinality(todo) + HandOvers
    BY <1>3 DEF TurnsLeft
  <1>5. TurnsLeft' = p + 3 * Cardinality(todo') + HandOvers'
    BY <1>3 DEF TurnsLeft
  <1>. QED  BY <1>1, <1>2, <1>4, <1>5, ListsFinite

LEMMA HandedOn ==
  ASSUME TypeOK, UNCHANGED <<todo, work, reached>>, HandOvers' < HandOvers,
         HandOvers \in 0..3, HandOvers' \in 0..3
  PROVE  TurnsLeft' < TurnsLeft
  <1>1. Pending' = Pending
    BY DEF Pending, Reached
  <1>2. PICK p \in Nat : p = (3 * Cardinality(Key) + 1) * Cardinality(Pending) + 3 * Cardinality(todo)
    BY ListsFinite
  <1>3. TurnsLeft = p + HandOvers /\ TurnsLeft' = p + HandOvers'
    BY <1>1, <1>2 DEF TurnsLeft
  <1>. QED  BY <1>2, <1>3

LEMMA TurnsDecrease == TypeOK /\ Next => TurnsLeft' < TurnsLeft
  <1>. SUFFICES ASSUME TypeOK, Next PROVE TurnsLeft' < TurnsLeft
    OBVIOUS
  <1>1. ASSUME NEW e \in todo, SkipKey(e) PROVE TurnsLeft' < TurnsLeft
    <2>1. Pending' = Pending
      BY <1>1 DEF SkipKey, Pending, Reached
    <2>. QED  BY <1>1, <2>1, KeyTaken DEF SkipKey
  <1>2. ASSUME NEW e \in todo, FollowKey(e) PROVE TurnsLeft' < TurnsLeft
    <2>. DEFINE new == UsersOf(call.graph, e[1]) \ Reached
    <2>1. new \subseteq Object \ Reached
      BY DEF UsersOf
    <2>2. Reached' = Reached \cup new /\ work' = work \cup new
      BY <1>2, ReachEffect DEF FollowKey
    <2>3. Pending' = Pending
      BY <2>1, <2>2 DEF Pending
    <2>. QED  BY <1>2, <2>3, KeyTaken DEF FollowKey
  <1>3. ASSUME KeysDone PROVE TurnsLeft' < TurnsLeft
    <2>1. HandOvers \in 0..3 /\ HandOvers' \in 0..3 /\ HandOvers' < HandOvers
      BY <1>3 DEF KeysDone, HandOvers
    <2>. QED  BY <1>3, <2>1, HandedOn DEF KeysDone
  <1>4. ASSUME ObjectsDone PROVE TurnsLeft' < TurnsLeft
    <2>1. HandOvers \in 0..3 /\ HandOvers' \in 0..3 /\ HandOvers' < HandOvers
      BY <1>4 DEF ObjectsDone, HandOvers
    <2>. QED  BY <1>4, <2>1, HandedOn DEF ObjectsDone
  <1>5. ASSUME NEW n \in work, FollowObject(n) PROVE TurnsLeft' < TurnsLeft
    <2>. DEFINE new == IF call.events THEN FiredBy(call.graph, n) \ Reached ELSE {}
                Entries == {<<k, n>> : k \in call.graph.keys[n]}
    <2>1. call \in Call /\ n \in Object /\ n \in Reached
      BY DEF TypeOK
    <2>2. new \subseteq Object \ Reached /\ call.graph.keys[n] \in SUBSET Key
      BY <2>1, GraphTypes
    <2>3. Reached' = Reached \cup new /\ work' = (work \ {n}) \cup new
      BY <1>5, ReachEffect DEF FollowObject
    <2>4. Pending' = Pending \ {n} /\ n \in Pending
      BY <2>1, <2>2, <2>3 DEF Pending
    <2>5. /\ Cardinality(Pending') \in Nat
          /\ Cardinality(Pending) = Cardinality(Pending') + 1
      <3>1. /\ IsFiniteSet(Pending) /\ Cardinality(Pending) \in Nat
        BY ListsFinite
      <3>2. /\ IsFiniteSet(Pending \ {n})
            /\ Cardinality(Pending \ {n}) = Cardinality(Pending) - 1
        BY <2>4, <3>1, FS_RemoveElement
      <3>3. Cardinality(Pending \ {n}) \in Nat
        BY <3>2, FS_CardinalityType
      <3>. QED  BY <2>4, <3>1, <3>2, <3>3
    <2>6. IsFiniteSet(Entries) /\ Cardinality(Entries) \in Nat /\ Cardinality(Entries) <= Cardinality(Key)
      BY <2>2, KeysOfOne
    <2>7. todo' = todo \cup Entries
      BY <1>5 DEF FollowObject
    <2>8. /\ Cardinality(todo') \in Nat
          /\ Cardinality(todo') <= Cardinality(todo) + Cardinality(Key)
      <3>1. IsFiniteSet(todo \cap Entries) /\ Cardinality(todo \cap Entries) \in Nat
        BY ListsFinite, FS_Subset, FS_CardinalityType
      <3>2. /\ IsFiniteSet(todo \cup Entries)
            /\ Cardinality(todo \cup Entries)
                 = Cardinality(todo) + Cardinality(Entries) - Cardinality(todo \cap Entries)
        BY <2>6, ListsFinite, FS_Union
      <3>3. Cardinality(todo \cup Entries) \in Nat
        BY <3>2, FS_CardinalityType
      <3>. QED  BY <2>6, <2>7, <3>1, <3>2, <3>3, ListsFinite
    <2>9. (3 * Cardinality(Key) + 1) * Cardinality(Pending') + 3 * Cardinality(todo')
            < (3 * Cardinality(Key) + 1) * Cardinality(Pending) + 3 * Cardinality(todo)
      BY <2>5, <2>8, ListsFinite, OneLess
    <2>10. HandOvers = 2 /\ HandOvers' = 2
      BY <1>5 DEF FollowObject, HandOvers
    <2>11. /\ (3 * Cardinality(Key) + 1) * Cardinality(Pending') + 3 * Cardinality(todo') \in Nat
           /\ (3 * Cardinality(Key) + 1) * Cardinality(Pending) + 3 * Cardinality(todo) \in Nat
      BY <2>5, <2>8, ListsFinite
    <2>. QED  BY <2>9, <2>10, <2>11 DEF TurnsLeft
  <1>. QED  BY <1>1, <1>2, <1>3, <1>4, <1>5 DEF Next

(***************************************************************************)
(* The turns that are left are a natural number, and every turn of either  *)
(* loop of closure() is one less: no graph has it run for ever.            *)
(***************************************************************************)
THEOREM TurnsRunOutHolds == Spec => [](TurnsLeft \in Nat) /\ TurnsRunOut
  <1>1. TypeOK => TurnsLeft \in Nat
    <2>1. ASSUME TypeOK PROVE HandOvers \in Nat
      BY <2>1 DEF HandOvers, TypeOK
    <2>. QED  BY <2>1, ListsFinite DEF TurnsLeft
  <1>2. TypeOK /\ [Next]_vars => [TurnsLeft' < TurnsLeft]_vars
    BY TurnsDecrease
  <1>. QED  BY <1>1, <1>2, TypeCorrect, PTL DEF Spec, TurnsRunOut
=============================================================================
