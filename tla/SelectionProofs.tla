-------------------------- MODULE SelectionProofs --------------------------
(***************************************************************************)
(* Proofs about select(), for every world.                                 *)
(*                                                                         *)
(* The argument: every seed of every file that was looked at is queued or  *)
(* was followed (SeedsCovered).  When a subset is chosen all of them were  *)
(* followed, none escaped, and what they reach together is closed under    *)
(* names and events and holds everything the change touches; so it holds   *)
(* the least such set.                                                     *)
(***************************************************************************)
EXTENDS Selection, ReferenceGraphProofs, FiniteSetTheorems

Inv == world \in Worlds /\ IInv

(* A world is a world. *)
LEMMA WorldFacts ==
  ASSUME world \in Worlds
  PROVE  /\ world \in World
         /\ Consistent(world)
         /\ graph \in Graph
         /\ graph.runnable \subseteq Object
         /\ world.unchanged \subseteq Object
         /\ world.before \subseteq Version
         /\ world.changed \subseteq File
         /\ Brought \subseteq graph.runnable
         /\ Wired \subseteq App
         /\ \A f \in File : world.mentions[f] \subseteq Object
         /\ Relevant \subseteq File
  BY WorldsType DEF World, Consistent, graph, Graph, Relevant, Brought, Wired

LEMMA SeedType ==
  ASSUME NEW k \in SUBSET Key, NEW o \in SUBSET Object, NEW c \in BOOLEAN, NEW e \in BOOLEAN
  PROVE  [keys |-> k, start |-> o, cover |-> c, events |-> e] \in Seed
  BY DEF Seed

(* The step that looks at a file adds well-formed seeds. *)
LEMMA SeedTypes ==
  ASSUME world \in Worlds
  PROVE  /\ \A f \in File : FileSeeds(f) \subseteq Seed
         /\ \A s \in Seed : CallOf(s) \in Call
  <1>1. ASSUME NEW f \in File PROVE FileSeeds(f) \subseteq Seed
    <2>1. SeedsOfHead(f) \subseteq Seed
      <3>1. ChangedHere(f) \in SUBSET Object /\ Here(f) \in SUBSET Object
        BY DEF ChangedHere, Here
      <3>2. {} \in SUBSET Key /\ TRUE \in BOOLEAN /\ FALSE \in BOOLEAN
        OBVIOUS
      <3>. QED  BY <3>1, <3>2, SeedType DEF SeedsOfHead
    <2>2. SeedsOfSubscribers(f) \subseteq Seed
      <3>1. \A b : RunBy(graph, b.subscriptions) \subseteq Object
        BY DEF RunBy, PublishersOf
      <3>2. {} \in SUBSET Key /\ TRUE \in BOOLEAN /\ FALSE \in BOOLEAN
        OBVIOUS
      <3>. QED  BY <3>1, <3>2, SeedType DEF SeedsOfSubscribers
    <2>3. SeedsOfGone(f) \subseteq Seed
      <3>1. \A b \in Gone(f) : b.keys \subseteq Key
        BY WorldFacts DEF Gone, ChangedBase, Version
      <3>2. UNION {b.keys : b \in Gone(f)} \subseteq Key
        BY <3>1
      <3>3. {} \in SUBSET Object /\ TRUE \in BOOLEAN /\ FALSE \in BOOLEAN
        OBVIOUS
      <3>. QED  BY <3>2, <3>3, SeedType DEF SeedsOfGone
    <2>4. SeedOfOther(f) \in Seed
      BY WorldFacts DEF SeedOfOther, Seed
    <2>. QED  BY <2>1, <2>2, <2>3, <2>4 DEF FileSeeds
  <1>2. ASSUME NEW s \in Seed PROVE CallOf(s) \in Call
    BY WorldFacts DEF CallOf, Call, Seed
  <1>. QED  BY <1>1, <1>2

(* What is derived from the world stays, as the world does. *)
LEMMA WorldStays ==
  ASSUME world' = world
  PROVE  /\ graph' = graph
         /\ Relevant' = Relevant
         /\ \A f : FileSeeds(f)' = FileSeeds(f)
         /\ \A s : CallOf(s)' = CallOf(s)
         /\ \A s : Confined(s)' = Confined(s)
         /\ \A a : TestsOf(a)' = TestsOf(a)
         /\ \A f : Here(f)' = Here(f)
         /\ \A f : NeedsFullRun(f)' = NeedsFullRun(f)
         /\ Wired' = Wired
         /\ Brought' = Brought
  <1>. USE DEF graph
  <1>1. Relevant' = Relevant
    BY DEF Relevant, EditedRanges, NeedsFullRun, Ignored, RangeEdit
  <1>2. \A f : FileSeeds(f)' = FileSeeds(f)
    BY DEF FileSeeds, SeedsOfHead, SeedsOfSubscribers, SeedsOfGone, SeedOfOther, Gone,
           ChangedHere, ChangedBase, Here
  <1>3. \A s : CallOf(s)' = CallOf(s)
    BY DEF CallOf
  <1>4. \A s : Confined(s)' = Confined(s)
    BY DEF Confined, CallOf, EscapesIn
  <1>5. \A a : TestsOf(a)' = TestsOf(a)
    BY DEF TestsOf
  <1>6. \A f : Here(f)' = Here(f)
    BY DEF Here
  <1>7. \A f : NeedsFullRun(f)' = NeedsFullRun(f)
    BY DEF NeedsFullRun, EditedRanges, RangeEdit
  <1>8. Wired' = Wired
    BY DEF Wired, RangeLines
  <1>9. Brought' = Brought
    BY DEF Brought, InRange, RangeLines, RangeEdit
  <1>. QED  BY <1>1, <1>2, <1>3, <1>4, <1>5, <1>6, <1>7, <1>8, <1>9

(* A seed that was followed stays followed. *)
LEMMA FollowedStays ==
  ASSUME world' = world, why \subseteq why', unclear => unclear',
         NEW s, Followed(s)
  PROVE  Followed(s)'
  <1>1. Affected(CallOf(s))' = Affected(CallOf(s)) /\ graph' = graph
    BY DEF CallOf, graph
  <1>2. Confined(s)' = Confined(s)
    BY WorldStays
  <1>. QED  BY <1>1, <1>2 DEF Followed

-----------------------------------------------------------------------------
LEMMA InitInv == Init => Inv
  <1>. SUFFICES ASSUME Init PROVE Inv
    OBVIOUS
  <1>. USE DEF Init
  <1>1. world \in World
    BY WorldsType
  <1>2. TypeOK
    BY <1>1 DEF TypeOK
  <1>3. SeedsCovered /\ DeclaredSelected /\ Phases /\ EveryLegRuns
    BY DEF SeedsCovered, DeclaredSelected, Phases, EveryLegRuns
  <1>. QED  BY <1>2, <1>3 DEF Inv, IInv

(* A full run: nothing of the invariant is left to keep. *)
LEMMA FullInv ==
  ASSUME Inv, Full, world' = world, seeds' = seeds, why' = why,
         files' = files, unclear' = unclear
  PROVE  Inv'
  <1>. USE DEF Full
  <1>1. TypeOK'
    BY WorldStays DEF Inv, IInv, TypeOK
  <1>2. SeedsCovered' /\ DeclaredSelected' /\ Phases' /\ EveryLegRuns'
    BY DEF SeedsCovered, DeclaredSelected, Phases, EveryLegRuns
  <1>. QED  BY <1>1, <1>2 DEF Inv, IInv

LEMMA RulesInv ==
  ASSUME Inv, Rules
  PROVE  Inv'
  <1>. DEFINE toFull == \/ \E f \in world.changed : NeedsFullRun(f)
                        \/ Cardinality(Relevant) > MaxFiles
                        \/ Relevant = {}
                        \/ Wired = {}
  <1>1. CASE toFull
    BY <1>1, FullInv DEF Rules
  <1>2. CASE ~toFull
    <2>. USE <1>2 DEF Rules
    <2>1. TypeOK'
      BY WorldStays DEF Inv, IInv, TypeOK
    <2>2. SeedsCovered' /\ DeclaredSelected'
      BY WorldStays DEF SeedsCovered, DeclaredSelected
    <2>3. Phases' /\ EveryLegRuns'
      BY WorldStays DEF Inv, IInv, Phases, EveryLegRuns
    <2>. QED  BY <2>1, <2>2, <2>3 DEF Inv, IInv
  <1>. QED  BY <1>1, <1>2

(* Looking at a file queues all of its seeds. *)
LEMMA FileInv ==
  ASSUME Inv, NEW f \in files, AlFile(f) \/ OtherFile(f)
  PROVE  Inv'
  <1>1. /\ phase = "files" /\ phase' = "files"
        /\ world' = world /\ entry' = entry
        /\ files' = files \ {f}
        /\ seeds' = seeds \cup FileSeeds(f)
        /\ why \subseteq why' /\ why' \subseteq graph.runnable
        /\ unclear' \in BOOLEAN /\ (unclear => unclear')
    BY DEF AlFile, OtherFile, Inv, IInv, TypeOK
  <1>2. TypeOK'
    <2>1. FileSeeds(f) \subseteq Seed
      BY WorldFacts, SeedTypes DEF Inv, IInv, TypeOK
    <2>. QED  BY <1>1, <2>1, WorldStays DEF Inv, IInv, TypeOK
  <1>3. SeedsCovered'
    <2>. SUFFICES ASSUME NEW h \in Relevant \ files', NEW s \in FileSeeds(h)
                  PROVE  s \in seeds' \/ Followed(s)'
      BY <1>1, WorldStays DEF SeedsCovered
    <2>1. CASE h = f
      BY <1>1, <2>1
    <2>2. CASE h # f
      <3>1. s \in seeds \/ Followed(s)
        BY <1>1, <2>2 DEF Inv, IInv, SeedsCovered
      <3>. QED  BY <1>1, <3>1, FollowedStays
    <2>. QED  BY <2>1, <2>2
  <1>4. DeclaredSelected'
    <2>. SUFFICES ASSUME NEW h \in (Relevant \cap world.al) \ files'
                  PROVE  Here(h) \cap graph.runnable \subseteq why'
      BY <1>1, WorldStays DEF DeclaredSelected
    <2>1. CASE h = f
      BY <2>1 DEF AlFile, OtherFile
    <2>2. CASE h # f
      BY <1>1, <2>2 DEF Inv, IInv, DeclaredSelected
    <2>. QED  BY <2>1, <2>2
  <1>5. Phases' /\ EveryLegRuns'
    BY <1>1, WorldStays DEF Inv, IInv, Phases, EveryLegRuns
  <1>. QED  BY <1>1, <1>2, <1>3, <1>4, <1>5 DEF Inv, IInv

LEMMA FilesDoneInv ==
  ASSUME Inv, FilesDone
  PROVE  Inv'
  <1>1. CASE unclear
    BY <1>1, FullInv DEF FilesDone
  <1>2. CASE ~unclear
    <2>. USE <1>2 DEF FilesDone
    <2>1. TypeOK'
      BY WorldStays DEF Inv, IInv, TypeOK
    <2>2. SeedsCovered'
      <3>. SUFFICES ASSUME NEW h \in Relevant \ files, NEW s \in FileSeeds(h)
                    PROVE  s \in seeds \/ Followed(s)'
        BY WorldStays DEF SeedsCovered
      <3>. QED  BY FollowedStays DEF Inv, IInv, SeedsCovered
    <2>3. Phases' /\ EveryLegRuns'
      BY WorldStays DEF Inv, IInv, Phases, EveryLegRuns
    <2>4. DeclaredSelected'
      BY WorldStays DEF Inv, IInv, DeclaredSelected
    <2>. QED  BY <2>1, <2>2, <2>3, <2>4 DEF Inv, IInv
  <1>. QED  BY <1>1, <1>2

(* Following a seed keeps what it reached, or notes that it is unclear. *)
LEMMA FollowSeedInv ==
  ASSUME Inv, NEW s \in seeds, FollowSeed(s)
  PROVE  Inv'
  <1>. USE DEF FollowSeed
  <1>1. /\ why \subseteq why' /\ why' \subseteq graph.runnable
        /\ unclear' \in BOOLEAN /\ (unclear => unclear')
    BY DEF Inv, IInv, TypeOK
  <1>2. TypeOK'
    BY <1>1, WorldStays DEF Inv, IInv, TypeOK
  <1>3. Followed(s)'
    <2>1. Affected(CallOf(s))' = Affected(CallOf(s)) /\ graph' = graph
      BY DEF CallOf, graph
    <2>2. Confined(s)' = Confined(s)
      BY WorldStays
    <2>3. unclear' \/ Confined(s)
      BY DEF Confined
    <2>. QED  BY <2>1, <2>2, <2>3 DEF Followed
  <1>4. SeedsCovered'
    <2>. SUFFICES ASSUME NEW h \in Relevant \ files, NEW r \in FileSeeds(h)
                  PROVE  r \in seeds' \/ Followed(r)'
      BY WorldStays DEF SeedsCovered
    <2>1. r \in seeds \/ Followed(r)
      BY DEF Inv, IInv, SeedsCovered
    <2>. QED  BY <1>1, <1>3, <2>1, FollowedStays
  <1>5. Phases' /\ EveryLegRuns'
    BY WorldStays DEF Inv, IInv, Phases, EveryLegRuns
  <1>6. DeclaredSelected'
    BY <1>1, WorldStays DEF Inv, IInv, DeclaredSelected
  <1>. QED  BY <1>2, <1>4, <1>5, <1>6 DEF Inv, IInv

LEMMA SeedsDoneInv ==
  ASSUME Inv, SeedsDone
  PROVE  Inv'
  <1>. DEFINE toFull == \/ unclear
                        \/ why \cup Brought = {}
                        \/ \E a \in Wired : TestsOf(a) \subseteq world.conditional
  <1>1. CASE toFull
    BY <1>1, FullInv DEF SeedsDone
  <1>2. CASE ~toFull
    <2>1. PICK sentinel \in [Wired -> graph.runnable \ world.conditional] :
            /\ \A a \in Wired : sentinel[a] \in TestsOf(a)
            /\ entry' = [a \in App |->
                 IF a \notin Wired THEN {}
                 ELSE ((why \cup Brought) \cap TestsOf(a)) \cup {sentinel[a]}]
      BY <1>2 DEF SeedsDone
    <2>2. /\ phase = "seeds" /\ phase' = "subset" /\ seeds = {} /\ ~unclear
          /\ UNCHANGED <<world, files, unclear, seeds, why>>
      BY <1>2 DEF SeedsDone
    <2>3. \A a \in App : TestsOf(a) \subseteq graph.runnable
      BY DEF TestsOf
    <2>4. Wired \subseteq App
      BY WorldFacts DEF Inv
    <2>5. entry' \in [App -> SUBSET graph.runnable]
      BY <2>1, <2>3, <2>4
    <2>6. TypeOK'
      BY <2>2, <2>5, WorldStays DEF Inv, IInv, TypeOK
    <2>7. SeedsCovered'
      <3>. SUFFICES ASSUME NEW h \in Relevant \ files, NEW s \in FileSeeds(h)
                    PROVE  s \in seeds \/ Followed(s)'
        BY <2>2, WorldStays DEF SeedsCovered
      <3>. QED  BY <2>2, FollowedStays DEF Inv, IInv, SeedsCovered
    <2>8. Phases'
      <3>1. \A a \in Wired : (why \cup Brought) \cap TestsOf(a) \subseteq entry'[a]
        BY <2>1, <2>4
      <3>2. \A a \in App \ Wired : entry'[a] = {}
        BY <2>1
      <3>. QED  BY <2>2, <3>1, <3>2, WorldStays DEF Inv, IInv, Phases
    <2>9. EveryLegRuns'
      <3>1. ASSUME NEW a \in Wired
            PROVE  entry'[a] \ world.conditional # {} /\ entry'[a] \subseteq TestsOf(a)
        BY <2>1, <2>4
      <3>. QED  BY <2>2, <3>1, WorldStays DEF EveryLegRuns
    <2>10. DeclaredSelected'
      BY <2>2, WorldStays DEF Inv, IInv, DeclaredSelected
    <2>. QED  BY <2>2, <2>6, <2>7, <2>8, <2>9, <2>10 DEF Inv, IInv
  <1>. QED  BY <1>1, <1>2

LEMMA FailInv ==
  ASSUME Inv, Fail
  PROVE  Inv'
  BY FullInv DEF Fail

LEMMA InvHolds == Spec => []Inv
  <1>1. Init => Inv
    BY InitInv
  <1>2. ASSUME Inv, [Next]_vars PROVE Inv'
    <2>1. CASE Rules  BY <1>2, <2>1, RulesInv
    <2>2. ASSUME NEW f \in files, AlFile(f) \/ OtherFile(f) PROVE Inv'
      BY <1>2, <2>2, FileInv
    <2>3. CASE FilesDone  BY <1>2, <2>3, FilesDoneInv
    <2>4. ASSUME NEW s \in seeds, FollowSeed(s) PROVE Inv'
      BY <1>2, <2>4, FollowSeedInv
    <2>5. CASE SeedsDone  BY <1>2, <2>5, SeedsDoneInv
    <2>6. CASE Fail  BY <1>2, <2>6, FailInv
    <2>7. CASE UNCHANGED vars
      <3>. USE <2>7 DEF vars
      <3>1. TypeOK'
        BY <1>2, WorldStays DEF Inv, IInv, TypeOK
      <3>2. SeedsCovered'
        BY <1>2, WorldStays, FollowedStays DEF Inv, IInv, SeedsCovered
      <3>3. Phases' /\ EveryLegRuns'
        BY <1>2, WorldStays DEF Inv, IInv, Phases, EveryLegRuns
      <3>4. DeclaredSelected'
        BY <1>2, WorldStays DEF Inv, IInv, DeclaredSelected
      <3>. QED  BY <1>2, <3>1, <3>2, <3>3, <3>4 DEF Inv, IInv
    <2>. QED  BY <1>2, <2>1, <2>2, <2>3, <2>4, <2>5, <2>6, <2>7 DEF Next
  <1>. QED  BY <1>1, <1>2, PTL DEF Spec

-----------------------------------------------------------------------------
(* What the followed seeds reach together *)
EventSeeds == {s \in UNION {FileSeeds(f) : f \in Relevant} : s.events}
AllReached == UNION {Affected(CallOf(s)) : s \in EventSeeds}

(* It is closed under every edge, names and events. *)
LEMMA ReachedIsClosed ==
  ASSUME world \in Worlds,
         NEW R \in SUBSET AllReached
  PROVE  /\ AllReached \in SUBSET Object
         /\ LeastClosed(R, AllEdges) \subseteq AllReached
  <1>1. \A s \in EventSeeds : s \in Seed /\ CallOf(s) \in Call /\ CallOf(s).events
    BY SeedTypes, WorldFacts DEF EventSeeds, CallOf
  <1>2. AllReached \in SUBSET Object
    BY <1>1, GraphTypes DEF AllReached
  <1>3. ASSUME NEW e \in AllEdges, e[1] \in AllReached
        PROVE  e[2] \in AllReached
    <2>1. PICK s \in EventSeeds : e[1] \in Affected(CallOf(s))
      BY <1>3 DEF AllReached
    <2>2. AllEdges = Edges(CallOf(s))
      BY <1>1, <2>1 DEF AllEdges, Edges, CallOf
    <2>3. IsClosed(Roots(CallOf(s)), Edges(CallOf(s)), Affected(CallOf(s)))
      BY <1>1, GraphTypes, LeastIsClosed DEF Affected
    <2>4. e[2] \in Affected(CallOf(s))
      BY <2>1, <2>2, <2>3 DEF IsClosed
    <2>. QED  BY <2>4 DEF AllReached
  <1>4. IsClosed(R, AllEdges, AllReached)
    BY <1>3 DEF IsClosed
  <1>. QED  BY <1>2, <1>4, LeastIsLeast

(* A file with changed objects is a relevant one, unless the path rules      *)
(* already ask for a full run.                                               *)
LEMMA ChangedIsRelevant ==
  ASSUME Inv, phase = "subset"
  PROVE  /\ \A o \in Object \ world.unchanged :
              /\ world.file[o] \in Relevant \cap world.al
              /\ o \in ChangedHere(world.file[o])
         /\ \A b \in world.before :
              /\ b.file \in Relevant \cap world.al
              /\ b \in ChangedBase(b.file)
  <1>1. \A f \in world.changed :
          f \in world.al /\ "app" \in world.is[f] /\ "ci" \notin world.is[f] => f \in Relevant
    BY DEF Inv, IInv, Phases, Relevant, EditedRanges, Ignored
  <1>2. \A b \in world.before : b.file \in File
    BY WorldFacts DEF Inv, Version
  <1>. QED  BY <1>1, <1>2, WorldFacts
            DEF Inv, Consistent, ChangedHere, ChangedBase, Here

(* A subset for a test codeunit that no job had in its range before is       *)
(* chosen after a range edit only: ci.yml is then a changed file, and any    *)
(* other change of it needs a full run.                                      *)
LEMMA NotInBaseIsEdited ==
  ASSUME Inv, phase = "subset", NEW o \in graph.runnable, ~InRange(world, world.ci.base, o)
  PROVE  RangeEdit
  <1>1. InRange(world, world.ci.head, o)
    BY WorldFacts DEF Inv, Consistent, graph
  <1>2. world.ci.base # world.ci.head
    BY <1>1
  <1>3. PICK f \in File : "ci" \in world.is[f]
    BY WorldFacts DEF Inv, Consistent
  <1>4. f \in world.changed /\ "github" \in world.is[f] /\ "unread" \notin world.is[f]
    BY <1>2, <1>3, WorldFacts DEF Inv, Consistent
  <1>5. ~NeedsFullRun(f)
    BY <1>4 DEF Inv, IInv, Phases
  <1>. QED  BY <1>3, <1>4, <1>5 DEF NeedsFullRun, EditedRanges

(* The seed of a file's changed objects reaches them. *)
LEMMA HeadSeedReaches ==
  ASSUME world \in Worlds, NEW f \in Relevant \cap world.al, ChangedHere(f) # {}
  PROVE  \E s \in EventSeeds :
           /\ s \in FileSeeds(f) /\ s.cover
           /\ ChangedHere(f) \subseteq Affected(CallOf(s))
           /\ Affected(CallOf(s)) = LeastClosed(ChangedHere(f), AllEdges)
  <1>. DEFINE s == [keys |-> {}, start |-> ChangedHere(f), cover |-> TRUE, events |-> TRUE]
  <1>1. s \in FileSeeds(f)
    BY DEF FileSeeds, SeedsOfHead
  <1>2. s \in EventSeeds
    BY <1>1 DEF EventSeeds
  <1>3. f \in File
    BY WorldFacts
  <1>4. CallOf(s) \in Call
    BY <1>1, <1>3, SeedTypes
  <1>5. ChangedHere(f) \subseteq Affected(CallOf(s))
    BY <1>4, AffectedIsClosed DEF CallOf
  <1>6. Roots(CallOf(s)) = ChangedHere(f)
    BY DEF Roots, CallOf
  <1>7. Edges(CallOf(s)) = AllEdges
    BY DEF Edges, CallOf, AllEdges
  <1>8. Affected(CallOf(s)) = LeastClosed(ChangedHere(f), AllEdges)
    BY <1>6, <1>7 DEF Affected
  <1>. QED  BY <1>1, <1>2, <1>5, <1>8

(* Changed objects are reached: each is in the start of its file's seed. *)
LEMMA ChangedIsReached ==
  ASSUME Inv, phase = "subset"
  PROVE  Object \ world.unchanged \subseteq AllReached
  <1>. SUFFICES ASSUME NEW o \in Object \ world.unchanged PROVE o \in AllReached
    OBVIOUS
  <1>1. world.file[o] \in Relevant \cap world.al /\ o \in ChangedHere(world.file[o])
    BY ChangedIsRelevant
  <1>. QED  BY <1>1, HeadSeedReaches DEF Inv, AllReached

(* So is what names a key of an object's base version: the version's name is *)
(* gone and its keys seed, or the object that has it now changed and has the *)
(* key still.                                                                *)
LEMMA UsersOfBeforeAreReached ==
  ASSUME Inv, phase = "subset", KeysKept, NamesApart,
         NEW b \in world.before, NEW k \in b.keys
  PROVE  UsersOf(graph, k) \subseteq AllReached
  <1>. DEFINE f == b.file
  <1>1. f \in Relevant \cap world.al /\ b \in ChangedBase(f) /\ f \in File
    BY ChangedIsRelevant, WorldFacts DEF Inv
  <1>2. CASE b \in Gone(f)
    <2>. DEFINE s == [keys |-> UNION {v.keys : v \in Gone(f)}, start |-> {}, cover |-> FALSE,
                      events |-> TRUE]
    <2>1. s \in FileSeeds(f)
      BY <1>1, <1>2 DEF FileSeeds, SeedsOfGone
    <2>2. s \in EventSeeds /\ CallOf(s) \in Call
      BY <1>1, <2>1, SeedTypes DEF EventSeeds, Inv
    <2>3. k \in CallOf(s).keys /\ CallOf(s).graph = graph
      BY <1>2 DEF CallOf
    <2>4. UsersOf(graph, k) \subseteq Affected(CallOf(s))
      BY <2>2, <2>3, AffectedIsClosed
    <2>. QED  BY <2>2, <2>4 DEF AllReached
  <1>3. CASE b \notin Gone(f)
    <2>1. PICK o \in Here(f) : world.name[o] = b.name
      BY <1>1, <1>3 DEF Gone
    <2>2. o \notin world.unchanged /\ k \in graph.keys[o]
      BY <2>1 DEF KeysKept, NamesApart
    <2>3. o \in ChangedHere(f)
      BY <2>1, <2>2 DEF ChangedHere
    <2>4. PICK s \in EventSeeds : o \in Affected(CallOf(s))
      BY <1>1, <2>3, HeadSeedReaches DEF Inv
    <2>5. CallOf(s) \in Call /\ CallOf(s).graph = graph
      BY SeedTypes, WorldFacts DEF EventSeeds, CallOf, Inv
    <2>6. UsersOf(graph, k) \subseteq Affected(CallOf(s))
      BY <2>2, <2>4, <2>5, AffectedIsClosed
    <2>. QED  BY <2>6 DEF AllReached
  <1>. QED  BY <1>2, <1>3

LEMMA PublishersOfBeforeAreReached ==
  ASSUME Inv, phase = "subset", NEW b \in world.before
  PROVE  RunBy(graph, b.subscriptions) \subseteq AllReached
  <1>. DEFINE f == b.file
              s == [keys |-> {}, start |-> RunBy(graph, b.subscriptions), cover |-> FALSE,
                    events |-> TRUE]
  <1>1. f \in Relevant \cap world.al /\ b \in ChangedBase(f) /\ f \in File
    BY ChangedIsRelevant, WorldFacts DEF Inv
  <1>2. CASE RunBy(graph, b.subscriptions) # {}
    <2>1. s \in FileSeeds(f)
      BY <1>1, <1>2 DEF FileSeeds, SeedsOfSubscribers
    <2>2. s \in EventSeeds /\ CallOf(s) \in Call
      BY <1>1, <2>1, SeedTypes DEF EventSeeds, Inv
    <2>3. RunBy(graph, b.subscriptions) \subseteq Affected(CallOf(s))
      BY <2>2, AffectedIsClosed DEF CallOf
    <2>. QED  BY <2>2, <2>3 DEF AllReached
  <1>. QED  BY <1>2

LEMMA MentionsAreReached ==
  ASSUME Inv, NEW f \in Relevant \ world.al
  PROVE  world.mentions[f] \subseteq AllReached
  <1>1. SeedOfOther(f) \in FileSeeds(f)
    BY DEF FileSeeds
  <1>2. SeedOfOther(f) \in EventSeeds
    BY <1>1 DEF EventSeeds, SeedOfOther
  <1>3. CallOf(SeedOfOther(f)) \in Call
    BY <1>1, SeedTypes, WorldFacts DEF Inv
  <1>4. world.mentions[f] \subseteq Affected(CallOf(SeedOfOther(f)))
    BY <1>3, AffectedIsClosed DEF CallOf, SeedOfOther
  <1>. QED  BY <1>2, <1>4 DEF AllReached

(* When a subset is chosen, every test reached was selected. *)
LEMMA ReachedIsSelected ==
  ASSUME Inv, phase = "subset"
  PROVE  /\ AllReached \cap graph.runnable \subseteq why
         /\ \A s \in EventSeeds : Confined(s)
  <1>1. \A s \in EventSeeds : Followed(s)
    BY DEF Inv, IInv, SeedsCovered, Phases, EventSeeds
  <1>. QED  BY <1>1 DEF Followed, AllReached, Inv, IInv, Phases

(***************************************************************************)
(* The selection is sound (select-tests.py 487-590): every test codeunit   *)
(* that anything the change touches can reach runs, provided a changed     *)
(* object that keeps its name keeps its other keys and is no namesake of   *)
(* an unchanged one in its file.                                           *)
(***************************************************************************)
THEOREM TouchedTestsRunHolds == Spec => []TouchedTestsRun
  <1>1. Inv => TouchedTestsRun
    <2>. SUFFICES ASSUME Inv, Decided, KeysKept, NamesApart, NEW a \in App,
                         NEW t \in TouchedTests \cap TestsOf(a)
                  PROVE  t \in LegRuns(a)
      BY DEF TouchedTestsRun
    <2>1. CASE entry[a] = {}
      BY <2>1 DEF LegRuns
    <2>2. CASE entry[a] # {}
      <3>1. phase = "subset" /\ a \in Wired
        BY <2>2 DEF Decided, Inv, IInv, Phases
      <3>2. Touched \in SUBSET AllReached
        <4>1. \A k \in UNION {b.keys : b \in world.before} : UsersOf(graph, k) \subseteq AllReached
          BY <3>1, UsersOfBeforeAreReached
        <4>2. \A b \in world.before : RunBy(graph, b.subscriptions) \subseteq AllReached
          BY <3>1, PublishersOfBeforeAreReached
        <4>3. \A f \in Relevant \ world.al : world.mentions[f] \subseteq AllReached
          BY MentionsAreReached
        <4>4. Object \ world.unchanged \subseteq AllReached
          BY <3>1, ChangedIsReached
        <4>5. (UNION {UsersOf(graph, k) : k \in UNION {b.keys : b \in world.before}})
                \subseteq AllReached
          BY <4>1
        <4>6. (UNION {RunBy(graph, b.subscriptions) : b \in world.before}) \subseteq AllReached
          BY <4>2
        <4>7. (UNION {world.mentions[f] : f \in Relevant \ world.al}) \subseteq AllReached
          BY <4>3
        <4>. QED  BY <4>4, <4>5, <4>6, <4>7 DEF Touched
      <3>3. TouchedTests \subseteq AllReached \cap graph.runnable
        BY <3>2, ReachedIsClosed DEF TouchedTests, Inv
      <3>4. t \in why \cap TestsOf(a)
        BY <3>1, <3>3, ReachedIsSelected
      <3>5. t \in entry[a]
        BY <3>1, <3>4 DEF Inv, IInv, Phases
      <3>. QED  BY <2>2, <3>5 DEF LegRuns
    <2>. QED  BY <2>1, <2>2
  <1>. QED  BY <1>1, InvHolds, PTL

(***************************************************************************)
(* A test codeunit that is new, or new in a job's range, runs in its leg   *)
(* (select-tests.py 440-462, 493-532 and 558-567).                         *)
(***************************************************************************)
THEOREM NewTestsRunHolds == Spec => []NewTestsRun
  <1>1. Inv => NewTestsRun
    <2>. SUFFICES ASSUME Inv, Decided, NEW a \in App, NEW o \in graph.runnable,
                         world.app[o] = a,
                         o \notin world.unchanged \/ ~InRange(world, world.ci.base, o)
                  PROVE  o \in LegRuns(a)
      BY DEF NewTestsRun
    <2>0. o \in TestsOf(a)
      BY DEF TestsOf
    <2>1. CASE entry[a] = {}
      BY <2>0, <2>1 DEF LegRuns
    <2>2. CASE entry[a] # {}
      <3>1. phase = "subset" /\ a \in Wired
        BY <2>2 DEF Decided, Inv, IInv, Phases
      <3>2. (why \cup Brought) \cap TestsOf(a) \subseteq entry[a]
        BY <3>1 DEF Inv, IInv, Phases
      <3>3. CASE o \notin world.unchanged
        <4>1. o \in Object
          BY WorldFacts DEF Inv
        <4>2. world.file[o] \in (Relevant \cap world.al) \ files /\ o \in Here(world.file[o])
          BY <3>1, <3>3, <4>1, ChangedIsRelevant DEF Inv, IInv, Phases, Here
        <4>3. o \in why
          BY <3>1, <4>2 DEF Inv, IInv, DeclaredSelected
        <4>. QED  BY <2>0, <2>2, <3>2, <4>3 DEF LegRuns
      <3>4. CASE ~InRange(world, world.ci.base, o)
        <4>1. RangeEdit
          BY <3>1, <3>4, NotInBaseIsEdited
        <4>2. o \in Brought
          BY <3>4, <4>1 DEF Brought
        <4>. QED  BY <2>0, <2>2, <3>2, <4>2 DEF LegRuns
      <3>. QED  BY <3>3, <3>4
    <2>. QED  BY <2>1, <2>2
  <1>. QED  BY <1>1, InvHolds, PTL

(***************************************************************************)
(* A subset is only chosen for a change whose effect it covers             *)
(* (select-tests.py 545-557).                                              *)
(***************************************************************************)
THEOREM SubsetIsConfinedHolds == Spec => []SubsetIsConfined
  <1>1. Inv => SubsetIsConfined
    <2>. SUFFICES ASSUME Inv, phase = "subset"
                  PROVE  /\ \A o \in LeastClosed(Object \ world.unchanged, AllEdges) :
                              ~FiresAnywhere(graph, o) /\ o \notin graph.lifecycle
                         /\ \A f \in world.changed :
                              ChangedHere(f) # {} =>
                                LeastClosed(ChangedHere(f), AllEdges) \cap graph.runnable # {}
      BY DEF SubsetIsConfined
    <2>1. ASSUME NEW o \in LeastClosed(Object \ world.unchanged, AllEdges)
          PROVE  ~FiresAnywhere(graph, o) /\ o \notin graph.lifecycle
      <3>1. o \in AllReached
        BY ChangedIsReached, ReachedIsClosed DEF Inv
      <3>2. PICK s \in EventSeeds : o \in Affected(CallOf(s))
        BY <3>1 DEF AllReached
      <3>3. EscapesOf(CallOf(s), o) = {}
        BY <3>2, ReachedIsSelected DEF Confined, EscapesIn
      <3>4. CallOf(s).events /\ CallOf(s).graph = graph
        BY DEF CallOf, EventSeeds
      <3>5. \A w \in (IF o \in graph.lifecycle THEN {"lifecycle"} ELSE {})
                        \cup (IF FiresAnywhere(graph, o) THEN {"event"} ELSE {}) :
              <<o, w>> \in EscapesOf(CallOf(s), o)
        BY <3>4 DEF EscapesOf
      <3>. QED  BY <3>3, <3>5
    <2>2. ASSUME NEW f \in world.changed, ChangedHere(f) # {}
          PROVE  LeastClosed(ChangedHere(f), AllEdges) \cap graph.runnable # {}
      <3>1. f \in Relevant \cap world.al
        <4>1. PICK o \in Object \ world.unchanged : world.file[o] = f
          BY <2>2 DEF ChangedHere, Here
        <4>. QED  BY <4>1, ChangedIsRelevant
      <3>2. PICK s \in EventSeeds :
              s.cover /\ Affected(CallOf(s)) = LeastClosed(ChangedHere(f), AllEdges)
        BY <2>2, <3>1, HeadSeedReaches DEF Inv
      <3>. QED  BY <3>2, ReachedIsSelected DEF Confined
    <2>. QED  BY <2>1, <2>2
  <1>. QED  BY <1>1, InvHolds, PTL

-----------------------------------------------------------------------------
(* What is within reach of the change does not depend on the run, is made of *)
(* objects, and holds its roots and all that the roots lead to.              *)
LEMMA ReachFacts ==
  ASSUME world \in Worlds
  PROVE  /\ Declared \cup Touched \in SUBSET Object
         /\ Declared \cup Touched \subseteq WithinReach
         /\ IsClosed(WithinReach, AllEdges, WithinReach)
         /\ WithinReach \in SUBSET Object
         /\ world' = world => WithinReach' = WithinReach
  <1>1. Declared \subseteq Object
    BY DEF Declared, Here
  <1>2. Touched \subseteq Object
    <2>1. \A k : UsersOf(graph, k) \subseteq Object
      BY DEF UsersOf
    <2>2. \A b : RunBy(graph, b.subscriptions) \subseteq Object
      BY DEF RunBy, PublishersOf
    <2>3. \A f \in Relevant : world.mentions[f] \subseteq Object
      BY WorldFacts
    <2>. QED  BY <2>1, <2>2, <2>3 DEF Touched
  <1>3. AllEdges \in SUBSET (Object \X Object)
    BY DEF AllEdges, NameEdges, EventEdges
  <1>4. IsClosed(Declared \cup Touched, AllEdges, WithinReach)
    BY <1>1, <1>2, <1>3, LeastIsClosed DEF WithinReach
  <1>5. ASSUME world' = world PROVE WithinReach' = WithinReach
    <2>. USE <1>5 DEF graph
    <2>1. Declared' = Declared /\ AllEdges' = AllEdges
      BY DEF Declared, Here, AllEdges
    <2>2. Touched' = Touched
      BY WorldStays DEF Touched
    <2>. QED  BY <2>1, <2>2 DEF WithinReach
  <1>. QED  BY <1>1, <1>2, <1>4, <1>5 DEF IsClosed, WithinReach, LeastClosed

(* What a file seeds is within reach of the change. *)
LEMMA SeedsWithinReach ==
  ASSUME world \in Worlds, NEW f \in Relevant, NEW s \in FileSeeds(f)
  PROVE  Roots(CallOf(s)) \subseteq WithinReach
  <1>. DEFINE D == Declared \cup Touched
  <1>1. f \in world.changed
    BY DEF Relevant
  <1>2. Here(f) \subseteq D
    BY <1>1 DEF Declared
  <1>3. ChangedBase(f) \subseteq world.before /\ Gone(f) \subseteq world.before
    BY DEF ChangedBase, Gone
  <1>4. CASE s \in SeedsOfHead(f)
    <2>1. s.keys = {} /\ s.start \subseteq Here(f)
      BY <1>4 DEF SeedsOfHead, ChangedHere
    <2>. QED  BY <1>2, <2>1, ReachFacts DEF Roots, CallOf
  <1>5. CASE s \in SeedsOfSubscribers(f)
    <2>1. PICK b \in world.before : s.keys = {} /\ s.start = RunBy(graph, b.subscriptions)
      BY <1>3, <1>5 DEF SeedsOfSubscribers
    <2>2. s.start \subseteq D
      BY <2>1 DEF Touched
    <2>. QED  BY <2>1, <2>2, ReachFacts DEF Roots, CallOf
  <1>6. CASE s \in SeedsOfGone(f)
    <2>1. s.keys = UNION {b.keys : b \in Gone(f)} /\ s.start = {}
      BY <1>6 DEF SeedsOfGone
    <2>2. \A k \in s.keys : UsersOf(graph, k) \subseteq D
      BY <1>3, <2>1 DEF Touched
    <2>. QED  BY <2>1, <2>2, ReachFacts DEF Roots, CallOf
  <1>7. CASE f \notin world.al /\ s = SeedOfOther(f)
    <2>1. s.keys = {} /\ s.start = world.mentions[f]
      BY <1>7 DEF SeedOfOther
    <2>2. s.start \subseteq D
      BY <1>7, <2>1 DEF Touched
    <2>. QED  BY <2>1, <2>2, ReachFacts DEF Roots, CallOf
  <1>. QED  BY <1>4, <1>5, <1>6, <1>7 DEF FileSeeds

(* Following a seed does not leave what is within reach. *)
LEMMA FollowingStaysInReach ==
  ASSUME world \in Worlds, NEW s, Roots(CallOf(s)) \subseteq WithinReach
  PROVE  Affected(CallOf(s)) \subseteq WithinReach
  <1>1. Edges(CallOf(s)) \subseteq AllEdges
    BY DEF Edges, AllEdges, CallOf
  <1>2. IsClosed(Roots(CallOf(s)), Edges(CallOf(s)), WithinReach)
    BY <1>1, ReachFacts DEF IsClosed
  <1>. QED  BY <1>2, ReachFacts, LeastIsLeast DEF Affected

LEMMA OnlyReachedInit == Init => OnlyReached
  BY DEF Init, OnlyReached

LEMMA OnlyReachedStep ==
  ASSUME Inv, OnlyReached, [Next]_vars
  PROVE  OnlyReached'
  <1>1. /\ world' = world /\ WithinReach' = WithinReach
        /\ Wired' = Wired /\ Brought' = Brought
        /\ \A s : Roots(CallOf(s))' = Roots(CallOf(s))
    <2>1. world' = world
      BY DEF Next, Rules, AlFile, OtherFile, FilesDone, FollowSeed, SeedsDone, Fail, vars
    <2>2. \A s : Roots(CallOf(s))' = Roots(CallOf(s))
      BY <2>1 DEF CallOf, graph
    <2>. QED  BY <2>1, <2>2, ReachFacts, WorldStays DEF Inv
  <1>2. CASE Rules \/ FilesDone \/ Fail
    BY <1>1, <1>2 DEF Rules, FilesDone, Fail, Full, OnlyReached
  <1>3. ASSUME NEW f \in files, AlFile(f) \/ OtherFile(f)
        PROVE  OnlyReached'
    <2>1. f \in Relevant
      BY DEF Inv, IInv, TypeOK
    <2>2. /\ phase' = "files" /\ seeds' = seeds \cup FileSeeds(f)
          /\ why' \subseteq why \cup Here(f)
      BY <1>3 DEF AlFile, OtherFile
    <2>3. Here(f) \subseteq WithinReach
      BY <2>1, ReachFacts DEF Inv, Declared, Relevant
    <2>4. \A s \in FileSeeds(f) : Roots(CallOf(s)) \subseteq WithinReach
      BY <2>1, SeedsWithinReach DEF Inv
    <2>. QED  BY <1>1, <2>2, <2>3, <2>4 DEF OnlyReached
  <1>4. ASSUME NEW s \in seeds, FollowSeed(s)
        PROVE  OnlyReached'
    <2>1. Affected(CallOf(s)) \subseteq WithinReach
      BY FollowingStaysInReach DEF Inv, OnlyReached
    <2>2. /\ phase' = "seeds" /\ seeds' \subseteq seeds
          /\ why' \subseteq why \cup Affected(CallOf(s))
      BY <1>4 DEF FollowSeed
    <2>. QED  BY <1>1, <2>1, <2>2 DEF OnlyReached
  <1>5. CASE SeedsDone
    <2>1. why' = why /\ seeds' = seeds
      BY <1>5 DEF SeedsDone
    <2>2. ASSUME phase' = "subset", NEW a \in Wired
          PROVE  \E o \in Object : entry'[a] \subseteq why \cup Brought \cup {o}
      <3>1. PICK sentinel \in [Wired -> graph.runnable \ world.conditional] :
              entry' = [b \in App |->
                 IF b \notin Wired THEN {}
                 ELSE ((why \cup Brought) \cap TestsOf(b)) \cup {sentinel[b]}]
        BY <1>5, <2>2 DEF SeedsDone, Full
      <3>2. sentinel[a] \in Object /\ a \in App
        BY <2>2, WorldFacts DEF Inv
      <3>3. entry'[a] \subseteq why \cup Brought \cup {sentinel[a]}
        BY <2>2, <3>1, <3>2
      <3>. QED  BY <3>2, <3>3
    <2>. QED  BY <1>1, <2>1, <2>2 DEF OnlyReached
  <1>6. CASE UNCHANGED vars
    BY <1>1, <1>6 DEF vars, OnlyReached
  <1>. QED  BY <1>2, <1>3, <1>4, <1>5, <1>6 DEF Next

(***************************************************************************)
(* A subset is a subset: apart from one sentinel per leg nothing runs that *)
(* is out of the change's reach (select-tests.py 486-590).                 *)
(***************************************************************************)
THEOREM NothingElseRunsHolds == Spec => []NothingElseRuns
  <1>1. Inv /\ OnlyReached => NothingElseRuns
    <2>. SUFFICES ASSUME Inv, OnlyReached, phase = "subset", NEW a \in Wired
                  PROVE  Cardinality(entry[a] \ (WithinReach \cup Brought)) <= 1
      BY DEF NothingElseRuns, WithinReach
    <2>1. PICK o \in Object : entry[a] \subseteq why \cup Brought \cup {o}
      BY DEF OnlyReached
    <2>2. entry[a] \ (WithinReach \cup Brought) \subseteq {o}
      BY <2>1 DEF OnlyReached
    <2>3. IsFiniteSet({o}) /\ Cardinality({o}) = 1
      BY FS_Singleton
    <2>4. /\ Cardinality(entry[a] \ (WithinReach \cup Brought)) \in Nat
          /\ Cardinality(entry[a] \ (WithinReach \cup Brought)) <= 1
      BY <2>2, <2>3, FS_Subset, FS_CardinalityType
    <2>. QED  BY <2>4
  <1>2. Init => OnlyReached
    BY OnlyReachedInit
  <1>3. Inv /\ OnlyReached /\ [Next]_vars => OnlyReached'
    BY OnlyReachedStep
  <1>4. Spec => []OnlyReached
    BY <1>2, <1>3, InvHolds, PTL DEF Spec
  <1>. QED  BY <1>1, <1>4, InvHolds, PTL

(***************************************************************************)
(* The inductive invariant: no seed of a file that was looked at is        *)
(* forgotten (select-tests.py 442-589).                                    *)
(***************************************************************************)
THEOREM InductiveInvariant == Spec => []IInv
  <1>1. Inv => IInv
    BY DEF Inv
  <1>. QED  BY <1>1, InvHolds, PTL

(***************************************************************************)
(* Every leg of a subset run has a test codeunit of its own app that no    *)
(* BC version compiles out (select-tests.py 571-588).                      *)
(***************************************************************************)
THEOREM EveryLegRunsHolds == Spec => []EveryLegRuns
  <1>1. Inv => EveryLegRuns
    BY DEF Inv, IInv
  <1>. QED  BY <1>1, InvHolds, PTL

(* Type correctness (select-tests.py 412-590). *)
THEOREM TypeCorrect == Spec => []TypeOK
  <1>1. Inv => TypeOK
    BY DEF Inv, IInv
  <1>. QED  BY <1>1, InvHolds, PTL
=============================================================================
