----------------------------- MODULE Selection -----------------------------
(***************************************************************************)
(* select() of .github/scripts/select-tests.py: from a change to the test  *)
(* codeunits that each CI leg runs.  The path rules come first; then every *)
(* changed file adds seeds; then every seed is followed by a closure call, *)
(* which is one atomic step here (Closure shows that it may be); then each *)
(* leg gets its list.  Anything unclear on the way means a full run.       *)
(*                                                                         *)
(* A world is what git and the parser hand to select(): the graph of the   *)
(* head tree, what changed in it since the base tree, and ci.yml's jobs.   *)
(***************************************************************************)
EXTENDS ReferenceGraph, Sequences

CONSTANTS
  File,
  App,         \* the test apps of ci.yml's jobs
  NoApp,       \* the key of a job that always runs its full range
  Text,        \* lines of ci.yml that are not a job's codeunit_range
  NoName,      \* the name of a dotnet declaration
  MaxFiles,    \* MAX_FILES
  Worlds       \* the worlds to consider

(* The version of an object in the base tree *)
Version ==
  [file : File, name : Key \cup {NoName}, keys : SUBSET Key,
   subscriptions : SUBSET Publisher,      \* none when only BindSubscription starts them
   special : BOOLEAN]

(***************************************************************************)
(* What is asked about the path of a file: is it ci.yml, under .github/,   *)
(* of an app of ci.yml (of one that is a dependency only), an app's        *)
(* manifest or symbols, an app's resource, of a kind that is not read      *)
(* there, of an app that no job builds?                                    *)
(***************************************************************************)
Trait ==
  {"ci", "github", "app", "dependency", "manifest", "resource", "unread", "uncompiled"}

(* A line of ci.yml with the test codeunits that run in a job, and the key   *)
(* under which the job reads the selection                                   *)
RangeLine == [app : App, key : App \cup {NoApp}, range : SUBSET Object]
CiText == Seq(RangeLine \cup Text)

(***************************************************************************)
(* unchanged: head objects whose text the base version of their file has   *)
(* too.  before: objects of the base versions of the changed files whose   *)
(* text the head version lacks.  special: permission kinds, install,       *)
(* upgrade and testrunner codeunits, objects that cannot be read.  blank:  *)
(* files of comments only.  mentions: the objects whose file names a file  *)
(* that is not AL.  conditional: objects in a file with an #if.            *)
(***************************************************************************)
World ==
  [graph       : Graph,
   file        : [Object -> File],
   name        : [Object -> Key \cup {NoName}],
   unchanged   : SUBSET Object,
   before      : SUBSET Version,
   special     : SUBSET Object,
   changed     : SUBSET File,
   is          : [File -> SUBSET Trait],
   al          : SUBSET File,
   inHead      : SUBSET File,
   blank       : SUBSET File,
   mentions    : [File -> SUBSET Object],
   app         : [Object -> App],
   ci          : [base : CiText, head : CiText],
   conditional : SUBSET Object]

(* parse_ci: the lines of the jobs, and whether one of them runs an object   *)
RangeLines(text) == {text[i] : i \in DOMAIN text} \cap RangeLine
InRange(w, text, o) == \E l \in RangeLines(text) : l.app = w.app[o] /\ o \in l.range

(* Only a changed file has changed objects, the objects are those of the AL  *)
(* files of the apps, and a job reads the entry of its own app               *)
Consistent(w) ==
  /\ MemoRight(w.graph)
  /\ \A o \in Object \ w.unchanged : w.file[o] \in w.changed
  /\ \A b \in w.before : b.file \in w.changed
  /\ \A f \in {w.file[o] : o \in Object} \cup {b.file : b \in w.before} :
       f \in w.al /\ "app" \in w.is[f] /\ "ci" \notin w.is[f]
  /\ \A o \in Object : w.file[o] \in w.inHead
  /\ \A f \in File : "ci" \in w.is[f] /\ f \notin w.changed => w.ci.base = w.ci.head
  /\ \E f \in File : "ci" \in w.is[f]
  /\ \A f \in File : "ci" \in w.is[f] => "github" \in w.is[f] /\ "unread" \notin w.is[f]
  /\ \A o \in w.graph.runnable : InRange(w, w.ci.head, o)
  /\ \A l \in RangeLines(w.ci.head) : l.key \in {l.app, NoApp}

ASSUME FileFinite == IsFiniteSet(File)
ASSUME NoNameNew == NoName \notin Key
ASSUME MaxFilesNat == MaxFiles \in Nat
ASSUME WorldsType == \A w \in Worlds : w \in World /\ Consistent(w)

VARIABLES
  world,
  phase,    \* "rules", "files", "seeds", "subset", "full"
  files,    \* relevant changed files still to look at
  unclear,  \* is there a reason for a full run?
  seeds,    \* seeds still to follow
  why,      \* test codeunits selected so far
  entry     \* app -> the codeunits of its entry in result['apps']

vars == <<world, phase, files, unclear, seeds, why, entry>>

Seed == [keys : SUBSET Key, start : SUBSET Object, cover : BOOLEAN, events : BOOLEAN]

graph == world.graph
Here(f) == {o \in Object : world.file[o] = f}
ChangedHere(f) == Here(f) \ world.unchanged
ChangedBase(f) == {b \in world.before : b.file = f}

(* ci_range_edit: only the ranges of jobs changed; the lines around tell the *)
(* job of a line, and they are the same in both texts                        *)
RangeEdit ==
  LET base == world.ci.base
      head == world.ci.head
  IN  /\ \E f \in world.changed : "ci" \in world.is[f]
      /\ base # head /\ Len(base) = Len(head)
      /\ \A i \in DOMAIN base :
           base[i] # head[i] =>
             /\ base[i] \in RangeLine /\ head[i] \in RangeLine
             /\ base[i].app = head[i].app /\ base[i].key = head[i].key

(* The path rules.  ci.yml after a range edit is neither of the three        *)
EditedRanges(f) == "ci" \in world.is[f] /\ RangeEdit
NeedsFullRun(f) ==
  /\ ~EditedRanges(f)
  /\ \/ "github" \in world.is[f] /\ "unread" \notin world.is[f]
     \/ "app" \notin world.is[f] /\ world.is[f] \cap {"unread", "uncompiled"} = {}
     \/ "app" \in world.is[f] /\ world.is[f] \cap {"dependency", "manifest", "resource"} # {}
Ignored(f) ==
  /\ ~NeedsFullRun(f)
  /\ "app" \notin world.is[f] \/ ("unread" \in world.is[f] /\ f \notin world.al)
Relevant ==
  {f \in world.changed : ~EditedRanges(f) /\ ~NeedsFullRun(f) /\ ~Ignored(f)}

(* The apps with a job that reads the selection *)
Wired == {a \in App : \E l \in RangeLines(world.ci.head) : l.app = a /\ l.key # NoApp}

(* The test codeunits that a range edit adds to the range of their app *)
Brought ==
  IF RangeEdit THEN {o \in graph.runnable : ~InRange(world, world.ci.base, o)} ELSE {}
TestsOf(a) == {o \in graph.runnable : world.app[o] = a}
CallOf(s) == [graph |-> graph, keys |-> s.keys, start |-> s.start, events |-> s.events]
EscapesIn(c) == UNION {EscapesOf(c, o) : o \in Affected(c)}

TypeOK ==
  /\ world \in World
  /\ phase \in {"rules", "files", "seeds", "subset", "full"}
  /\ files \subseteq Relevant
  /\ unclear \in BOOLEAN
  /\ seeds \subseteq Seed
  /\ why \subseteq graph.runnable
  /\ entry \in [App -> SUBSET graph.runnable]

Init ==
  /\ world \in Worlds
  /\ phase = "rules"
  /\ files = {}
  /\ unclear = FALSE
  /\ seeds = {}
  /\ why = {}
  /\ entry = [a \in App |-> {}]

-----------------------------------------------------------------------------
(* full(): no entries *)
Full ==
  /\ phase' = "full"
  /\ entry' = [a \in App |-> {}]

Rules ==
  /\ phase = "rules"
  /\ IF \/ \E f \in world.changed : NeedsFullRun(f)
        \/ Cardinality(Relevant) > MaxFiles
        \/ Relevant = {}
        \/ Wired = {}
     THEN Full /\ UNCHANGED files
     ELSE phase' = "files" /\ files' = Relevant /\ UNCHANGED entry
  /\ UNCHANGED <<world, unclear, seeds, why>>

(* The objects of f that changed; or, when only comments did, all of them,  *)
(* for the tests that name them to run without following events             *)
SeedsOfHead(f) ==
  IF ChangedHere(f) # {}
    THEN {[keys |-> {}, start |-> ChangedHere(f), cover |-> TRUE, events |-> TRUE]}
  ELSE IF Here(f) # {} /\ ChangedBase(f) = {}
    THEN {[keys |-> {}, start |-> Here(f), cover |-> TRUE, events |-> FALSE]}
  ELSE {}

(* The base version of a subscriber ran where its publisher is used *)
SeedsOfSubscribers(f) ==
  {[keys |-> {}, start |-> RunBy(graph, b.subscriptions), cover |-> FALSE, events |-> TRUE] :
     b \in {b \in ChangedBase(f) : RunBy(graph, b.subscriptions) # {}}}

(* Names that the file no longer declares *)
Gone(f) == {b \in ChangedBase(f) : \A o \in Here(f) : world.name[o] # b.name}

SeedsOfGone(f) ==
  IF Gone(f) = {} THEN {}
  ELSE {[keys |-> UNION {b.keys : b \in Gone(f)}, start |-> {}, cover |-> FALSE,
         events |-> TRUE]}

SeedOfOther(f) ==
  [keys |-> {}, start |-> world.mentions[f], cover |-> f \in world.inHead, events |-> TRUE]

FileSeeds(f) ==
  IF f \in world.al THEN SeedsOfHead(f) \cup SeedsOfSubscribers(f) \cup SeedsOfGone(f)
  ELSE {SeedOfOther(f)}

UnclearFile(f) ==
  \/ f \in world.inHead /\ Here(f) = {} /\ f \notin world.blank
  \/ ChangedHere(f) \cap world.special # {}
  \/ \E b \in ChangedBase(f) : b.special \/ RunAnywhere(graph, b.subscriptions)

(* Mutant of AlFile: only the head versions seed                             *)
AlFileHeadOnly(f) ==
  /\ phase = "files"
  /\ f \in files \cap world.al
  /\ files' = files \ {f}
  /\ why' = why \cup (Here(f) \cap graph.runnable)
  /\ unclear' = (unclear \/ UnclearFile(f))
  /\ seeds' = seeds \cup SeedsOfHead(f) \cup SeedsOfSubscribers(f)
  /\ UNCHANGED <<world, phase, entry>>

AlFile(f) ==
  /\ phase = "files"
  /\ f \in files \cap world.al
  /\ files' = files \ {f}
  /\ why' = why \cup (Here(f) \cap graph.runnable)
  /\ unclear' = (unclear \/ UnclearFile(f))
  /\ seeds' = seeds \cup FileSeeds(f)
  /\ UNCHANGED <<world, phase, entry>>

OtherFile(f) ==
  /\ phase = "files"
  /\ f \in files \ world.al
  /\ files' = files \ {f}
  /\ unclear' = (unclear \/ (world.mentions[f] = {} /\ f \in world.inHead))
  /\ seeds' = seeds \cup FileSeeds(f)
  /\ UNCHANGED <<world, phase, why, entry>>

FilesDone ==
  /\ phase = "files"
  /\ files = {}
  /\ IF unclear THEN Full ELSE phase' = "seeds" /\ UNCHANGED entry
  /\ UNCHANGED <<world, files, unclear, seeds, why>>

(* Mutant of FollowSeed: the escapes are not looked at                       *)
FollowSeedConfined(s) ==
  /\ phase = "seeds"
  /\ s \in seeds
  /\ seeds' = seeds \ {s}
  /\ LET tests == Affected(CallOf(s)) \cap graph.runnable
     IN  /\ unclear' = (unclear \/ (s.cover /\ tests = {}))
         /\ why' = why \cup tests
  /\ UNCHANGED <<world, phase, files, entry>>

(* Everything a seed affects; a full run when the effect is not confined to  *)
(* the tests that reach it, or when no test reaches it                       *)
FollowSeed(s) ==
  /\ phase = "seeds"
  /\ s \in seeds
  /\ seeds' = seeds \ {s}
  /\ LET tests == Affected(CallOf(s)) \cap graph.runnable
     IN  /\ unclear' = (unclear \/ EscapesIn(CallOf(s)) # {} \/ (s.cover /\ tests = {}))
         /\ why' = why \cup tests
  /\ UNCHANGED <<world, phase, files, entry>>

(* Mutants of SeedsDone: a leg without a selected codeunit gets all of its   *)
(* test codeunits; a selected codeunit counts as the sentinel; the range     *)
(* edit is forgotten                                                         *)
SeedsDoneAsBefore ==
  /\ phase = "seeds"
  /\ seeds = {}
  /\ IF unclear \/ why = {} \/ \E a \in Wired : TestsOf(a) \subseteq world.conditional
     THEN Full
     ELSE /\ phase' = "subset"
          /\ \E sentinel \in [Wired -> graph.runnable \ world.conditional] :
               /\ \A a \in Wired : sentinel[a] \in TestsOf(a)
               /\ entry' = [a \in App |->
                    IF a \notin Wired THEN {} ELSE (why \cap TestsOf(a)) \cup {sentinel[a]}]
  /\ UNCHANGED <<world, files, unclear, seeds, why>>

SeedsDoneAllOrSome ==
  /\ phase = "seeds"
  /\ seeds = {}
  /\ IF \/ unclear
        \/ why \cup Brought = {}
     THEN Full
     ELSE /\ phase' = "subset"
          /\ entry' = [a \in App |->
               IF why \cap TestsOf(a) = {} THEN TestsOf(a) ELSE why \cap TestsOf(a)]
  /\ UNCHANGED <<world, files, unclear, seeds, why>>

SeedsDoneNoSentinel ==
  /\ phase = "seeds"
  /\ seeds = {}
  /\ IF \/ unclear
        \/ why \cup Brought = {}
     THEN Full
     ELSE /\ phase' = "subset"
          /\ entry' = [a \in App |->
               IF a \notin Wired THEN {} ELSE (why \cup Brought) \cap TestsOf(a)]
  /\ UNCHANGED <<world, files, unclear, seeds, why>>

(* One entry per wired app: what is selected, what a range edit brought in,  *)
(* and a sentinel outside any #if, the cheapest one (any one here)           *)
SeedsDone ==
  /\ phase = "seeds"
  /\ seeds = {}
  /\ IF \/ unclear
        \/ why \cup Brought = {}
        \/ \E a \in Wired : TestsOf(a) \subseteq world.conditional
     THEN Full
     ELSE /\ phase' = "subset"
          /\ \E sentinel \in [Wired -> graph.runnable \ world.conditional] :
               /\ \A a \in Wired : sentinel[a] \in TestsOf(a)
               /\ entry' = [a \in App |->
                    IF a \notin Wired THEN {}
                    ELSE ((why \cup Brought) \cap TestsOf(a)) \cup {sentinel[a]}]
  /\ UNCHANGED <<world, files, unclear, seeds, why>>

(* Any error in the script, or no script at all: a full run *)
Fail ==
  /\ phase \in {"rules", "files", "seeds"}
  /\ Full
  /\ UNCHANGED <<world, files, unclear, seeds, why>>

Next ==
  \/ Rules
  \/ \E f \in files : AlFile(f) \/ OtherFile(f)
  \/ FilesDone
  \/ \E s \in seeds : FollowSeed(s)
  \/ SeedsDone
  \/ Fail

Spec == Init /\ [][Next]_vars

-----------------------------------------------------------------------------
(* ci.yml, codeunit_range: the entry of the app, or its full range without  *)
(* one or with an empty one                                                 *)
LegRuns(a) == IF entry[a] = {} THEN TestsOf(a) ELSE entry[a]

Decided == phase \in {"subset", "full"}

(***************************************************************************)
(* What the change touches: objects whose text changed or is new, objects  *)
(* that name a changed or removed object as the base tree knew it, the     *)
(* publishers whose events it handled, and the objects in files that       *)
(* mention a changed resource.                                             *)
(***************************************************************************)
Touched ==
  (Object \ world.unchanged)
    \cup (UNION {UsersOf(graph, k) : k \in UNION {b.keys : b \in world.before}})
    \cup (UNION {RunBy(graph, b.subscriptions) : b \in world.before})
    \cup (UNION {world.mentions[f] : f \in Relevant \ world.al})

AllEdges == NameEdges(graph) \cup EventEdges(graph)
TouchedTests == LeastClosed(Touched, AllEdges) \cap graph.runnable

(* A changed object that keeps its name keeps its other keys: the code does  *)
(* not follow the old id of one that is renumbered (select-tests.py 528)     *)
KeysKept ==
  \A b \in world.before : \A o \in Here(b.file) :
     world.name[o] = b.name => b.keys \subseteq graph.keys[o]

(* ... and it was not one of two objects of its file with that name *)
NamesApart ==
  \A b \in world.before : \A o \in Here(b.file) :
     world.name[o] = b.name => o \notin world.unchanged

(***************************************************************************)
(* The selection is sound: every test codeunit that anything the change    *)
(* touches can reach, by names or by events, across files and seeds, runs. *)
(***************************************************************************)
TouchedTestsRun ==
  Decided /\ KeysKept /\ NamesApart =>
    \A a \in App : TouchedTests \cap TestsOf(a) \subseteq LegRuns(a)

(***************************************************************************)
(* A subset run is only chosen for a change whose effect it covers: none   *)
(* of the objects the change can affect escapes to other tests, and every  *)
(* file's changed objects are reached by some test.                        *)
(***************************************************************************)
SubsetIsConfined ==
  phase = "subset" =>
    /\ \A o \in LeastClosed(Object \ world.unchanged, AllEdges) :
         ~FiresAnywhere(graph, o) /\ o \notin graph.lifecycle
    /\ \A f \in world.changed :
         ChangedHere(f) # {} =>
           LeastClosed(ChangedHere(f), AllEdges) \cap graph.runnable # {}

(***************************************************************************)
(* No test codeunit is merged without having run: one that is new, or new  *)
(* in its text, or was in no job's range in the base tree, runs in the leg *)
(* of its app, whichever of the two, or both, the change edits (CI range   *)
(* edit, select-tests.py 440 and 558).                                     *)
(***************************************************************************)
NewTestsRun ==
  Decided =>
    \A a \in App, o \in graph.runnable :
      /\ world.app[o] = a
      /\ o \notin world.unchanged \/ ~InRange(world, world.ci.base, o)
      => o \in LegRuns(a)

(***************************************************************************)
(* No leg is told to run nothing or only codeunits that an older BC        *)
(* version compiles out (the reusable workflow fails such a leg), and none *)
(* is given a codeunit of another app.                                     *)
(***************************************************************************)
EveryLegRuns ==
  phase = "subset" =>
    \A a \in Wired :
      /\ entry[a] \ world.conditional # {}
      /\ entry[a] \subseteq TestsOf(a)

(***************************************************************************)
(* A subset is a subset: apart from one sentinel per leg, each codeunit is *)
(* declared in a changed file, brought in by the range edit, or reached    *)
(* from what the changed files declare, declared or mention.               *)
(***************************************************************************)
Declared == UNION {Here(f) : f \in world.changed}

NothingElseRuns ==
  phase = "subset" =>
    \A a \in Wired :
      Cardinality(entry[a] \ (LeastClosed(Declared \cup Touched, AllEdges)
                                \cup Brought)) <= 1

(***************************************************************************)
(* Why these hold: no seed of a file that was looked at is forgotten       *)
(* before it was followed, and what following it found is kept.            *)
(***************************************************************************)
Confined(s) ==
  /\ EscapesIn(CallOf(s)) = {}
  /\ s.cover => Affected(CallOf(s)) \cap graph.runnable # {}

Followed(s) ==
  /\ Affected(CallOf(s)) \cap graph.runnable \subseteq why
  /\ unclear \/ Confined(s)

SeedsCovered ==
  phase \in {"files", "seeds", "subset"} =>
    \A f \in Relevant \ files : \A s \in FileSeeds(f) : s \in seeds \/ Followed(s)

Phases ==
  /\ phase \in {"files", "seeds", "subset"} => \A f \in world.changed : ~NeedsFullRun(f)
  /\ phase \in {"seeds", "subset"} => files = {}
  /\ phase = "subset" =>
       /\ seeds = {} /\ ~unclear
       /\ \A a \in Wired : (why \cup Brought) \cap TestsOf(a) \subseteq entry[a]
  /\ phase # "subset" => \A a \in App : entry[a] = {}
  /\ \A a \in App \ Wired : entry[a] = {}

DeclaredSelected ==
  phase \in {"files", "seeds", "subset"} =>
    \A f \in (Relevant \cap world.al) \ files : Here(f) \cap graph.runnable \subseteq why

IInv == TypeOK /\ SeedsCovered /\ DeclaredSelected /\ Phases /\ EveryLegRuns

(***************************************************************************)
(* Why NothingElseRuns holds: what was selected, and what the queued seeds *)
(* start from, is within reach of the change, and an entry adds no more    *)
(* than the range edit's codeunits and one sentinel.                       *)
(***************************************************************************)
WithinReach == LeastClosed(Declared \cup Touched, AllEdges)

OnlyReached ==
  /\ why \subseteq WithinReach
  /\ \A s \in seeds : Roots(CallOf(s)) \subseteq WithinReach
  /\ phase = "subset" =>
       \A a \in Wired : \E o \in Object : entry[a] \subseteq why \cup Brought \cup {o}
=============================================================================
