----------------------------- MODULE MCClosure -----------------------------
(***************************************************************************)
(* Instances of Closure for TLC: three objects, each named by one key of   *)
(* its own.  In the graphs the three name each other in chains, fans and   *)
(* rings, c is an ordinary object or an extension of a, and there is no    *)
(* event subscriber or one of the shapes that Graph.fires tells apart.     *)
(***************************************************************************)
EXTENDS Closure

MCObject == {"a", "b", "c"}
MCKey == MCObject
MCPublisher == {"event of a", "event of b", "platform event", "clashing event"}

NoSubscriber == [o \in MCObject |-> {}]
Ring == [o \in MCObject |-> CASE o = "a" -> {"event of b"}
                              [] o = "b" -> {"event of a"}
                              [] o = "c" -> {"event of a", "event of b"}]

(* who subscribes to what: nobody, b to a, b and c in a ring with a, c to    *)
(* the platform, c to an event whose publisher shares a Microsoft name       *)
MCSubscribes ==
  {NoSubscriber,
   [o \in MCObject |-> IF o = "b" THEN {"event of a"} ELSE {}],
   Ring,
   [o \in MCObject |-> IF o = "c" THEN {"event of a", "platform event"} ELSE {}],
   [o \in MCObject |-> IF o = "c" THEN {"clashing event"} ELSE {}]}

MCScanned(names, extends, subscribes, manual) ==
  [keys       |-> [o \in MCObject |-> IF o = "c" /\ extends THEN {"a", "c"} ELSE {o}],
   names      |-> names,
   publishes  |-> [o \in MCObject |-> CASE o = "a" -> {"event of a"}
                                        [] o = "b" -> {"event of b", "clashing event"}
                                        [] o = "c" -> {}],
   subscribes |-> subscribes,
   bindOnly   |-> manual,
   lifecycle  |-> {"c"},
   runnable   |-> {"b", "c"},
   unconfined |-> {"clashing event"}]

MCGraph(names, extends, subscribes, manual) ==
  LET g == MCScanned(names, extends, subscribes, manual)
      count == [o \in MCObject |-> UserCount(g, o)]
  IN  [keys |-> g.keys, names |-> g.names, publishes |-> g.publishes,
       subscribes |-> g.subscribes, bindOnly |-> g.bindOnly, lifecycle |-> g.lifecycle,
       runnable |-> g.runnable, unconfined |-> g.unconfined, users |-> count]

(* who names whom: chains, fans, pairs and rings of two and of three         *)
MCNames ==
  {f \in [MCObject -> SUBSET MCKey] :
     /\ f["a"] \in {{}, {"c"}}
     /\ f["b"] \in {{}, {"a"}, {"c"}, {"a", "c"}}
     /\ f["c"] \in {{}, {"a"}, {"b"}}}

(* what a call starts from: changed objects, or the key of a removed one *)
MCStart == {<<{}, {"a"}>>, <<{"b"}, {}>>, <<{}, {"b", "c"}>>}

MCCallsOf(names, subscribes, manual, events) ==
  {[graph |-> MCGraph(n, x, s, manual), keys |-> st[1], start |-> st[2], events |-> events] :
     n \in names, x \in BOOLEAN, s \in subscribes, st \in MCStart}

MCCalls ==
  MCCallsOf(MCNames, MCSubscribes, {}, TRUE)
    \cup MCCallsOf(MCNames, {Ring}, {"b"}, TRUE)
    \cup MCCallsOf(MCNames, {Ring}, {}, FALSE)
=============================================================================
