------------------------ MODULE ReferenceGraphProofs ------------------------
(***************************************************************************)
(* What holds of every reference graph, whoever walks it: least closed     *)
(* sets, and the types of the graph's operators.                           *)
(***************************************************************************)
EXTENDS ReferenceGraph, TLAPS

-----------------------------------------------------------------------------
(* Least closed sets *)

(* A least closed set is inside every closed set. *)
LEMMA LeastIsLeast ==
  ASSUME NEW roots, NEW edges, NEW S \in SUBSET Object, IsClosed(roots, edges, S)
  PROVE  LeastClosed(roots, edges) \subseteq S
  BY DEF LeastClosed

(* A least closed set holds the roots and is closed under the edges. *)
LEMMA LeastIsClosed ==
  ASSUME NEW roots \in SUBSET Object, NEW edges \in SUBSET (Object \X Object)
  PROVE  IsClosed(roots, edges, LeastClosed(roots, edges))
  <1>1. roots \subseteq LeastClosed(roots, edges)
    BY DEF LeastClosed, IsClosed
  <1>2. ASSUME NEW e \in edges, e[1] \in LeastClosed(roots, edges)
        PROVE  e[2] \in LeastClosed(roots, edges)
    <2>1. e[2] \in Object
      OBVIOUS
    <2>2. ASSUME NEW S \in SUBSET Object, IsClosed(roots, edges, S)
          PROVE  e[2] \in S
      BY <1>2, <2>2 DEF LeastClosed, IsClosed
    <2>. QED  BY <2>1, <2>2 DEF LeastClosed
  <1>. QED  BY <1>1, <1>2 DEF IsClosed

(* Following seeds one by one reaches what following them together does:   *)
(* select() closes each changed file on its own.                           *)
THEOREM SeedsAreIndependent ==
  ASSUME NEW R1 \in SUBSET Object, NEW R2 \in SUBSET Object,
         NEW edges \in SUBSET (Object \X Object)
  PROVE  LeastClosed(R1 \cup R2, edges)
           = LeastClosed(R1, edges) \cup LeastClosed(R2, edges)
  <1>. DEFINE A == LeastClosed(R1, edges)
              B == LeastClosed(R2, edges)
              C == LeastClosed(R1 \cup R2, edges)
  <1>1. /\ A \in SUBSET Object
        /\ B \in SUBSET Object
        /\ C \in SUBSET Object
    BY DEF LeastClosed
  <1>2. IsClosed(R1, edges, A) /\ IsClosed(R2, edges, B)
    BY LeastIsClosed
  <1>3. IsClosed(R1 \cup R2, edges, C)
    BY LeastIsClosed
  <1>4. IsClosed(R1 \cup R2, edges, A \cup B)
    BY <1>2 DEF IsClosed
  <1>5. C \subseteq A \cup B
    BY <1>1, <1>4, LeastIsLeast
  <1>6. IsClosed(R1, edges, C) /\ IsClosed(R2, edges, C)
    BY <1>3 DEF IsClosed
  <1>7. A \subseteq C /\ B \subseteq C
    BY <1>1, <1>6, LeastIsLeast
  <1>. QED  BY <1>5, <1>7

(* A changed object can only add to what another one affects. *)
THEOREM MoreRootsMoreAffected ==
  ASSUME NEW R1 \in SUBSET Object, NEW R2 \in SUBSET Object, R1 \subseteq R2,
         NEW edges \in SUBSET (Object \X Object)
  PROVE  LeastClosed(R1, edges) \subseteq LeastClosed(R2, edges)
  <1>1. R1 \cup R2 = R2
    OBVIOUS
  <1>. QED  BY <1>1, SeedsAreIndependent

-----------------------------------------------------------------------------
(* Types of the graph's operators *)

LEMMA GraphTypes ==
  ASSUME NEW c \in Call
  PROVE  /\ c.start \subseteq Object
         /\ c.keys \subseteq Key
         /\ c.events \in BOOLEAN
         /\ \A o \in Object : c.graph.keys[o] \subseteq Key
         /\ \A k : UsersOf(c.graph, k) \subseteq Object
         /\ \A o : FiredBy(c.graph, o) \subseteq Object
         /\ \A o \in Object : EscapesOf(c, o) \subseteq Object \X Why
         /\ Roots(c) \in SUBSET Object
         /\ Edges(c) \in SUBSET (Object \X Object)
         /\ Affected(c) \in SUBSET Object
  <1>1. /\ c.start \subseteq Object
        /\ c.keys \subseteq Key
        /\ c.events \in BOOLEAN
        /\ \A o \in Object : c.graph.keys[o] \subseteq Key
    BY DEF Call, Graph
  <1>2. \A k : UsersOf(c.graph, k) \subseteq Object
    BY DEF UsersOf
  <1>3. \A o : FiredBy(c.graph, o) \subseteq Object
    BY DEF FiredBy, RunBy, PublishersOf
  <1>4. \A o \in Object : EscapesOf(c, o) \subseteq Object \X Why
    BY DEF EscapesOf, Why
  <1>5. Roots(c) \in SUBSET Object
    BY <1>1, <1>2 DEF Roots
  <1>6. Edges(c) \in SUBSET (Object \X Object)
    BY DEF Edges, NameEdges, EventEdges
  <1>7. Affected(c) \in SUBSET Object
    BY DEF Affected, LeastClosed
  <1>. QED  BY <1>1, <1>2, <1>3, <1>4, <1>5, <1>6, <1>7

(* The affected set is closed, in the terms the worklist uses. *)
LEMMA AffectedIsClosed ==
  ASSUME NEW c \in Call
  PROVE  /\ c.start \subseteq Affected(c)
         /\ \A k \in c.keys : UsersOf(c.graph, k) \subseteq Affected(c)
         /\ \A o \in Affected(c) : \A k \in c.graph.keys[o] :
              UsersOf(c.graph, k) \subseteq Affected(c)
         /\ c.events => \A o \in Affected(c) : FiredBy(c.graph, o) \subseteq Affected(c)
  <1>1. IsClosed(Roots(c), Edges(c), Affected(c))
    BY GraphTypes, LeastIsClosed DEF Affected
  <1>2. Roots(c) \subseteq Affected(c)
    BY <1>1 DEF IsClosed
  <1>3. ASSUME NEW o \in Affected(c), NEW k \in c.graph.keys[o],
               NEW u \in UsersOf(c.graph, k)
        PROVE  u \in Affected(c)
    <2>1. o \in Object /\ u \in Object
      BY GraphTypes
    <2>2. <<o, u>> \in Edges(c)
      BY <2>1 DEF Edges, NameEdges
    <2>. QED  BY <1>1, <2>2 DEF IsClosed
  <1>4. ASSUME c.events, NEW o \in Affected(c), NEW p \in FiredBy(c.graph, o)
        PROVE  p \in Affected(c)
    <2>1. o \in Object /\ p \in Object
      BY GraphTypes
    <2>2. <<o, p>> \in Edges(c)
      BY <1>4, <2>1 DEF Edges, EventEdges
    <2>. QED  BY <1>1, <2>2 DEF IsClosed
  <1>. QED  BY <1>2, <1>3, <1>4 DEF Roots
=============================================================================
