---------------------------- MODULE MCSelection ----------------------------
(***************************************************************************)
(* Instances of Selection for TLC: a table "t", its extension "x", test    *)
(* codeunits "one" and "two" of an app, and "zero" of another.  A name is  *)
(* its own key; "t#" is the number of the table, "old#" the number it had  *)
(* before, and "gone" a name that the head tree lacks.                     *)
(***************************************************************************)
EXTENDS Selection

CONSTANTS line1, line2   \* of ci.yml

MCObject == {"t", "x", "one", "two", "zero"}
MCKey == MCObject \cup {"t#", "old#", "gone"}
MCPublisher == {"event of t", "platform event"}
MCFile == {"t.al", "x.al", "one.al", "two.al", "zero.al", "gone.al", "odd.al", "layout.rdl",
           "app.json", "help.md", "logo.md", "tool.py", "probe.al", "ci.yml"}
MCApp == {"app", "onprem"}

(* logo.md is in a resource folder, probe.al in an app that no job builds *)
TraitsOf == [f \in MCFile |-> CASE f = "ci.yml" -> {"ci", "github"}
                                [] f = "app.json" -> {"app", "manifest"}
                                [] f = "help.md" -> {"app", "unread"}
                                [] f = "logo.md" -> {"app", "resource", "unread"}
                                [] f = "tool.py" -> {}
                                [] f = "probe.al" -> {"uncompiled"}
                                [] OTHER -> {"app"}]

(* ci.yml: a line of each job, and one more *)
CiYml(key, one, onprem, line) ==
  <<[app |-> "app", key |-> "app", range |-> one],
    line,
    [app |-> "onprem", key |-> key, range |-> onprem]>>

FileOf == [o \in MCObject |-> CASE o = "t" -> "t.al" [] o = "x" -> "x.al"
                                [] o = "one" -> "one.al" [] o = "two" -> "two.al"
                                [] o = "zero" -> "zero.al"]

MCScanned(one, two, subscribes) ==
  [keys       |-> [o \in MCObject |-> CASE o = "t" -> {"t", "t#"} [] o = "x" -> {"x", "t"}
                                        [] OTHER -> {o}],
   names      |-> [o \in MCObject |-> CASE o = "t" -> {} [] o = "x" -> {"t"}
                                        [] o = "one" -> one [] o = "two" -> two
                                        [] o = "zero" -> {}],
   publishes  |-> [o \in MCObject |-> IF o = "t" THEN {"event of t"} ELSE {}],
   subscribes |-> subscribes,
   bindOnly   |-> {},
   lifecycle  |-> {},
   runnable   |-> {"one", "two", "zero"},
   unconfined |-> {}]

MCGraph(one, two, subscribes) ==
  LET scan == MCScanned(one, two, subscribes)
      count == [o \in MCObject |-> UserCount(scan, o)]
  IN  [keys |-> scan.keys, names |-> scan.names, publishes |-> scan.publishes,
       subscribes |-> scan.subscribes, bindOnly |-> scan.bindOnly,
       lifecycle |-> scan.lifecycle, runnable |-> scan.runnable,
       unconfined |-> scan.unconfined, users |-> count]

MCSubscribes ==
  {[o \in MCObject |-> {}],
   [o \in MCObject |-> IF o = "x" THEN {"event of t"} ELSE {}],
   [o \in MCObject |-> IF o = "x" THEN {"platform event"} ELSE {}]}

MCGraphs ==
  {MCGraph(one, two, subscribes) :
     one \in SUBSET {"t", "t#", "old#", "gone"}, two \in {{}, {"x"}, {"one"}},
     subscribes \in MCSubscribes}

Before(f, name, keys, subscriptions) ==
  [file |-> f, name |-> name, keys |-> keys, subscriptions |-> subscriptions,
   special |-> FALSE]

(* A change: its files, the head objects it changed, the base versions *)
Change(fs, unchanged, before) ==
  [changed |-> fs, unchanged |-> unchanged, before |-> before]

(* the table's body, its number, its name; a page with its name removed; a   *)
(* removed object; the extension, its subscription, its target; comments; a  *)
(* test codeunit; two files, three; a layout; a file without an object       *)
MCChanges ==
  {Change({"t.al"}, {"x", "one", "two", "zero"}, {Before("t.al", "t", {"t", "t#"}, {})}),
   Change({"t.al"}, {"x", "one", "two", "zero"}, {Before("t.al", "t", {"t", "old#"}, {})}),
   Change({"t.al"}, {"x", "one", "two", "zero"}, {Before("t.al", "gone", {"gone", "t#"}, {})}),
   Change({"t.al"}, MCObject, {Before("t.al", "t", {"t", "old#"}, {})}),
   Change({"gone.al"}, MCObject, {Before("gone.al", "gone", {"gone", "old#"}, {})}),
   Change({"x.al"}, {"t", "one", "two", "zero"}, {Before("x.al", "x", {"x", "t"}, {})}),
   Change({"x.al"}, {"t", "one", "two", "zero"}, {Before("x.al", "x", {"x", "t"}, {"event of t"})}),
   Change({"x.al"}, {"t", "one", "two", "zero"}, {Before("x.al", "x", {"x", "gone"}, {})}),
   Change({"t.al"}, MCObject, {}),
   Change({"one.al"}, {"t", "x", "two", "zero"}, {}),
   Change({"zero.al"}, {"t", "x", "one", "two"}, {}),
   Change({"one.al", "x.al"}, {"t", "two", "zero"}, {Before("x.al", "x", {"x", "t"}, {})}),
   Change({"t.al", "x.al", "one.al"}, {"two", "zero"}, {}),
   Change({"layout.rdl"}, MCObject, {}),
   Change({"odd.al", "one.al"}, MCObject, {}),
   Change({"layout.rdl", "app.json"}, MCObject, {}),
   Change({"help.md", "probe.al", "one.al"}, {"t", "x", "two", "zero"}, {}),
   Change({"help.md", "logo.md", "layout.rdl"}, MCObject, {}),
   Change({"tool.py", "layout.rdl"}, MCObject, {})}

(* The same with ci.yml *)
WithCi(change) == [change EXCEPT !.changed = @ \cup {"ci.yml"}]

MCText == {line1, line2}

MCHead(key) == CiYml(key, {"one", "two"}, {"zero"}, line1)

(* The base text: without "two"; without "two" and "zero"; with another      *)
(* line, too; with another key, too                                          *)
MCBases ==
  {CiYml("onprem", {"one"}, {"zero"}, line1), CiYml("onprem", {"one"}, {}, line1),
   CiYml("onprem", {"one"}, {"zero"}, line2), CiYml(NoApp, {"one"}, {"zero"}, line1)}

MCWorld(graph0, change, base, head, conditional) ==
  [graph       |-> graph0,
   file        |-> FileOf,
   name        |-> [o \in MCObject |-> o],
   unchanged   |-> change.unchanged,
   before      |-> change.before,
   special     |-> {},
   changed     |-> change.changed,
   is          |-> TraitsOf,
   al          |-> {"t.al", "x.al", "one.al", "two.al", "zero.al", "gone.al", "odd.al", "probe.al"},
   inHead      |-> MCFile \ {"gone.al"},
   blank       |-> {},
   mentions    |-> [f \in MCFile |-> IF f = "layout.rdl" THEN {"x"} ELSE {}],
   app         |-> [o \in MCObject |-> IF o = "zero" THEN "onprem" ELSE "app"],
   ci          |-> [base |-> base, head |-> head],
   conditional |-> conditional]

OneGraph == {MCGraph({"t"}, {}, s) : s \in MCSubscribes}

MCWorlds ==
  {MCWorld(g, change, MCHead("onprem"), MCHead("onprem"), {}) : g \in MCGraphs, change \in MCChanges}
    \cup {MCWorld(g, WithCi(change), base, MCHead("onprem"), {}) :
            g \in OneGraph, change \in MCChanges, base \in MCBases}
    \cup {MCWorld(g, change, MCHead("onprem"), MCHead("onprem"), {"one"}) :
            g \in OneGraph, change \in MCChanges}
    \cup {MCWorld(g, change, MCHead(NoApp), MCHead(NoApp), {}) : g \in OneGraph, change \in MCChanges}
=============================================================================
